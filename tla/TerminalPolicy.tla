--------------------------- MODULE TerminalPolicy ---------------------------
(***************************************************************************)
(* The rules of rawfile/terminal-policy.js, and the snapshot serializer of  *)
(* terminal.html, as operators without state: which clipboard sequence is  *)
(* accepted, when a bell crosses the bridge, how a wheel event becomes      *)
(* lines, which click opens a link, what the search label says.            *)
(*                                                                         *)
(* The wheel's fractions are integers in thousandths (Unit), cut towards   *)
(* zero; the grid's padding is in half pixels.                             *)
(***************************************************************************)
EXTENDS Integers

CONSTANTS
  MaxClipboardBytes,  \* MAX_CLIPBOARD_BYTES
  FirstScrollback,    \* the first step of the snapshot's growth
  ScrollbackLines     \* TERMINAL_SCROLLBACK_LINES

ASSUME PolicyAssumption ==
  /\ MaxClipboardBytes \in Nat
  /\ FirstScrollback \in Nat \ {0}
  /\ ScrollbackLines \in Nat \ {0}

Least(a, b) == IF a <= b THEN a ELSE b
Greatest(a, b) == IF a >= b THEN a ELSE b
Magnitude(n) == IF n < 0 THEN -n ELSE n
Clamp(n, bound) == Greatest(-bound, Least(bound, n))

(***************************************************************************)
(* OSC 52.  A payload is what the checks tell apart: whether there is a     *)
(* separator, the selector, whether it asks to read, the length of the      *)
(* encoded text, whether that is padded Base64 and of how many bytes, and   *)
(* whether the bytes are UTF-8.                                            *)
(***************************************************************************)
EncodedLength(bytes) == 4 * ((bytes + 2) \div 3)
MaxEncodedLength == EncodedLength(MaxClipboardBytes)

\* Fault: the length of the encoded text is limited, that of its bytes is not.
DecodeOsc52Encoded(payload) ==
  IF ~payload.separator THEN "missing-separator"
  ELSE IF payload.target \notin {"", "c"} THEN "unsupported-target"
  ELSE IF payload.read THEN "read-not-supported"
  ELSE IF payload.encoded > MaxEncodedLength THEN "encoded-too-large"
  ELSE IF ~payload.base64 THEN "invalid-base64" ELSE IF ~payload.utf8 THEN "invalid-utf8" ELSE "ok"

DecodeOsc52(payload) ==
  IF ~payload.separator THEN "missing-separator"
  ELSE IF payload.target \notin {"", "c"} THEN "unsupported-target"
  ELSE IF payload.read THEN "read-not-supported"
  ELSE IF payload.encoded > MaxEncodedLength THEN "encoded-too-large"
  ELSE IF ~payload.base64 THEN "invalid-base64"
  ELSE IF payload.bytes > MaxClipboardBytes THEN "decoded-too-large"
  ELSE IF ~payload.utf8 THEN "invalid-utf8"
  ELSE "ok"

(***************************************************************************)
(* The bell's gate.  delivery: a bell was sent and the window has not       *)
(* rearmed; acknowledgement: a bell rang and no key has been pressed since. *)
(***************************************************************************)
BellAttentionGate == [delivery |-> FALSE, acknowledgement |-> FALSE]
BellTrigger(gate) == [delivery |-> TRUE, acknowledgement |-> TRUE]
BellCrosses(gate) == ~gate.delivery
BellAcknowledge(gate) == IF gate.acknowledgement THEN BellAttentionGate ELSE gate

\* Fault: the window's focus counts as a key.
BellRearmAll(gate) == BellAttentionGate

BellRearm(gate) == [gate EXCEPT !.delivery = FALSE]

(***************************************************************************)
(* The wheel.                                                              *)
(***************************************************************************)
Unit == 1000
WheelPixel == 0
WheelLine == 1
WheelPage == 2
MaxWheelGap == 80       \* a longer pause starts afresh
MaxWheelElapsed == 100
FirstWheelElapsed == 16

(* n / d cut towards zero. *)
Cut(n, d) == IF n < 0 THEN -((-n) \div d) ELSE n \div d

WheelState == [pendingLines |-> 0, velocity |-> 0, lastEventTime |-> -1, direction |-> 0]

WheelGain(velocity) ==
  LET speed == Magnitude(velocity) IN
  IF speed <= 500 THEN 400
  ELSE IF speed <= 1500 THEN 400 + Cut((speed - 500) * 16, 10)
  ELSE IF speed >= 4000 THEN 8000
  ELSE 2000 + Cut((speed - 1500) * 24, 10)

WheelPixels(deltaY, deltaMode, cellHeight, rows) ==
  CASE deltaMode = WheelPixel -> deltaY
    [] deltaMode = WheelLine  -> deltaY * Greatest(1, cellHeight)
    [] deltaMode = WheelPage  -> deltaY * Greatest(1, cellHeight) * Greatest(1, rows)

\* Fault: a turn back is added to what waits.
EnqueueWheelOn(state, deltaY, deltaMode, cellHeight, rows, eventTime) ==
  LET pixels == WheelPixels(deltaY, deltaMode, cellHeight, rows)
      added == Cut(pixels * Unit, Greatest(1, cellHeight))
  IN [pendingLines |-> Clamp(state.pendingLines + added, Greatest(1, rows) * 8 * Unit),
      velocity |-> 0, lastEventTime |-> eventTime, direction |-> IF pixels < 0 THEN -1 ELSE 1]

EnqueueWheel(state, deltaY, deltaMode, cellHeight, rows, eventTime) ==
  LET pixels == WheelPixels(deltaY, deltaMode, cellHeight, rows)
      direction == IF pixels < 0 THEN -1 ELSE 1
      known == state.lastEventTime >= 0
      gap == IF known THEN eventTime - state.lastEventTime ELSE 0
      fresh == gap > MaxWheelGap
      elapsed == IF known THEN Greatest(1, Least(MaxWheelElapsed, gap)) ELSE FirstWheelElapsed
      instant == Cut(pixels * Unit, elapsed)
      reversed == ~fresh /\ state.direction # 0 /\ state.direction # direction
      velocity == IF reversed \/ ~known THEN instant
                  ELSE Cut((IF fresh THEN 0 ELSE state.velocity) * 65 + instant * 35, 100)
      gain == IF deltaMode = WheelPixel THEN WheelGain(velocity) ELSE Unit
      kept == IF fresh \/ reversed THEN 0 ELSE state.pendingLines
      added == Cut(pixels * gain, Greatest(1, cellHeight))
  IN IF deltaY = 0 THEN state
     ELSE [pendingLines |-> Clamp(kept + added, Greatest(1, rows) * 8 * Unit),
           velocity |-> velocity, lastEventTime |-> eventTime, direction |-> direction]

HasPendingWheelSteps(state) == Magnitude(state.pendingLines) >= Unit

MaxWheelSteps(rows) == Greatest(8, (Greatest(1, rows) * 5) \div 4)

(* The whole lines one frame sends; the state keeps the rest. *)
WheelSteps(state, rows) == Clamp(Cut(state.pendingLines, Unit), MaxWheelSteps(rows))
ConsumeWheelFrame(state, rows) ==
  [state EXCEPT !.pendingLines = @ - WheelSteps(state, rows) * Unit]

(***************************************************************************)
(* Layout, links, search.                                                  *)
(***************************************************************************)
(* In half pixels, of lengths in pixels. *)
CenterGridLeadingPadding(leading, trailing, container, grid) ==
  2 * Greatest(0, leading)
    + Greatest(0, container - Greatest(0, leading) - Greatest(0, trailing) - Greatest(0, grid))

MouseReportingModes == {"x10", "vt200", "drag", "any"}

IsLinkModifierActive(event, mode) ==
  /\ event.ctrl /\ ~event.alt /\ ~event.meta
  /\ \/ mode = "none" /\ ~event.shift
     \/ mode \in MouseReportingModes /\ event.shift

ShouldActivateLink(event, mode, sameLink, dragged) ==
  event.button = 0 /\ sameLink /\ ~dragged /\ IsLinkModifierActive(event, mode)

ShouldRunTerminalSecondaryAction(searchOpen) == ~searchOpen

(* <<position, total>>; the position is "many" where the label is "limit+". *)
SearchResultLabel(empty, resultIndex, resultCount, highlightLimit) ==
  IF empty \/ resultCount <= 0 THEN <<0, 0>>
  ELSE IF resultIndex >= 0 THEN <<resultIndex + 1, resultCount>>
  ELSE IF resultCount >= highlightLimit THEN <<"many", highlightLimit>>
  ELSE <<0, resultCount>>

WrappedControlIndex(currentIndex, controlCount, backwards) ==
  LET safe == IF currentIndex \in 0..(controlCount - 1) THEN currentIndex ELSE 0
      direction == IF backwards THEN -1 ELSE 1
  IN IF controlCount <= 0 THEN -1 ELSE (safe + direction + controlCount) % controlCount

(***************************************************************************)
(* The snapshot: serialize the screen alone, then with more and more        *)
(* scrollback, and keep the last text that fits.  length[n] is the length   *)
(* of the text with n lines of scrollback; Unserializable stands for a      *)
(* serializer that throws.  The result is the scrollback of the text kept.  *)
(***************************************************************************)
Unserializable == -1
NoSnapshot == -1

NextScrollback(n) == Least(IF n = 0 THEN FirstScrollback ELSE 2 * n, ScrollbackLines)

SerializeTerminalSnapshot(length, available) ==
  LET grow[n \in 0..ScrollbackLines] ==
        IF length[n] = Unserializable \/ length[n] > available THEN NoSnapshot
        ELSE IF n = ScrollbackLines THEN n
        ELSE Greatest(n, grow[NextScrollback(n)])
  IN grow[0]
=============================================================================
