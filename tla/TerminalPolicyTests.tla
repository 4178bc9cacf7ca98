------------------------- MODULE TerminalPolicyTests -------------------------
(***************************************************************************)
(* The vectors of tools/web-terminal/test-terminal-policy.mjs and          *)
(* test-terminal-search.mjs, played on the operators of the models: what   *)
(* the tests expect of the page's code is what the models say of it.       *)
(***************************************************************************)
EXTENDS TerminalSearch, Sequences, SequencesExt

(***************************************************************************)
(* test-terminal-policy.mjs.                                               *)
(***************************************************************************)
Payload(target, bytes) ==
  [separator |-> TRUE, target |-> target, read |-> FALSE, encoded |-> EncodedLength(bytes),
   base64 |-> TRUE, bytes |-> bytes, utf8 |-> TRUE]

Osc52Test ==
  /\ \A bytes \in {0, 10, 23} : DecodeOsc52(Payload("c", bytes)) = "ok"
  /\ DecodeOsc52(Payload("", 14)) = "ok"
  /\ DecodeOsc52([Payload("c", 0) EXCEPT !.read = TRUE, !.encoded = 1]) = "read-not-supported"
  /\ DecodeOsc52(Payload("p", 1)) = "unsupported-target"
  /\ DecodeOsc52([Payload("c", 0) EXCEPT !.encoded = 3, !.base64 = FALSE]) = "invalid-base64"
  /\ DecodeOsc52([Payload("c", 0) EXCEPT !.encoded = MaxEncodedLength + 4]) = "encoded-too-large"

\* 61271 bells in a row cross once: the second leaves the gate as it is.
BellTest ==
  LET flooded == BellTrigger(BellAttentionGate)
      rearmed == BellRearm(flooded)
      rung == BellTrigger(rearmed)
      seen == BellAcknowledge(rung)
  IN /\ BellCrosses(BellAttentionGate) /\ ~BellCrosses(flooded) /\ BellTrigger(flooded) = flooded
     /\ flooded.acknowledgement /\ flooded.delivery /\ rearmed.acknowledgement
     /\ BellCrosses(rearmed) /\ rung.acknowledgement
     /\ ~seen.acknowledgement /\ BellAcknowledge(seen) = seen /\ BellCrosses(seen)

\* Two turns by pixels over lines of 16 pixels in 40 rows, the first at time 0.
TwoTurns(first, second, time) ==
  EnqueueWheel(EnqueueWheel(WheelState, first, WheelPixel, 16, 40, 0),
               second, WheelPixel, 16, 40, time)

\* The state when so many frames have been sent.
AfterFrames(state, frames) ==
  LET after[n \in 0..frames] == IF n = 0 THEN state ELSE ConsumeWheelFrame(after[n - 1], 40)
  IN after[frames]

WheelTest ==
  LET slow == TwoTurns(4, 12, 16)
      separated == TwoTurns(12, 4, 120)
      fast == TwoTurns(80, 160, 16)
      reversed == TwoTurns(320, -32, 16)
  IN /\ \A state \in {slow, separated} : ~HasPendingWheelSteps(state) /\ WheelSteps(state, 40) = 0
     /\ fast.pendingLines > 100 * Unit
     /\ HasPendingWheelSteps(AfterFrames(fast, 1)) /\ ~HasPendingWheelSteps(AfterFrames(fast, 4))
     /\ fast.pendingLines - AfterFrames(fast, 4).pendingLines > 100 * Unit
     /\ reversed.pendingLines < 0 /\ WheelSteps(reversed, 40) < 0
     /\ EnqueueWheel(WheelState, 3, WheelLine, 16, 40, 0).pendingLines = 3 * Unit

CenterTest ==
  /\ CenterGridLeadingPadding(4, 4, 942, 926) = 2 * 8
  /\ \A container \in {934, 930} : CenterGridLeadingPadding(4, 4, container, 926) = 2 * 4

ExactCtrl == [button |-> 0, ctrl |-> TRUE, alt |-> FALSE, shift |-> FALSE, meta |-> FALSE]
ExactCtrlShift == [ExactCtrl EXCEPT !.shift = TRUE]

LinkTest ==
  /\ IsLinkModifierActive(ExactCtrl, "none") /\ ~IsLinkModifierActive(ExactCtrlShift, "none")
  /\ ~IsLinkModifierActive([ExactCtrl EXCEPT !.meta = TRUE], "none")
  /\ ~IsLinkModifierActive(ExactCtrlShift, "sgr")
  /\ \A mode \in MouseReportingModes :
       /\ ~IsLinkModifierActive(ExactCtrl, mode) /\ IsLinkModifierActive(ExactCtrlShift, mode)
       /\ ~IsLinkModifierActive([ExactCtrlShift EXCEPT !.alt = TRUE], mode)
       /\ ~IsLinkModifierActive([ExactCtrlShift EXCEPT !.meta = TRUE], mode)
       /\ ShouldActivateLink(ExactCtrlShift, mode, TRUE, FALSE)
       /\ ~ShouldActivateLink(ExactCtrlShift, mode, TRUE, TRUE)
  /\ \A button \in {0, 1}, sameLink, dragged \in BOOLEAN :
       ShouldActivateLink([ExactCtrl EXCEPT !.button = button], "none", sameLink, dragged)
         <=> button = 0 /\ sameLink /\ ~dragged

PanelTest ==
  /\ ShouldRunTerminalSecondaryAction(FALSE) /\ ~ShouldRunTerminalSecondaryAction(TRUE)
  /\ \A empty \in BOOLEAN : SearchResultLabel(empty, -1, 0, 1000) = <<0, 0>>
  /\ \A index \in {0, 1} : SearchResultLabel(FALSE, index, 2, 1000) = <<index + 1, 2>>
  /\ SearchResultLabel(FALSE, -1, 7, 1000) = <<0, 7>>
  /\ SearchResultLabel(FALSE, -1, 1000, 1000) = <<"many", 1000>>
  /\ WrappedControlIndex(0, 4, FALSE) = 1 /\ WrappedControlIndex(3, 4, FALSE) = 0
  /\ WrappedControlIndex(0, 4, TRUE) = 3

\* A serializer of 100 characters, or two for each line of scrollback; room for 4096.
SnapshotTest ==
  LET length == [n \in 0..ScrollbackLines |-> IF n = 0 THEN 100 ELSE 2 * n]
      kept == SerializeTerminalSnapshot(length, 4096)
      tried[n \in 0..7] == IF n = 0 THEN 0 ELSE NextScrollback(tried[n - 1])
  IN /\ length[kept] = 4096
     /\ [n \in 1..8 |-> tried[n - 1]] = <<0, 64, 128, 256, 512, 1024, 2048, 4096>>
     /\ kept = tried[6]

(***************************************************************************)
(* test-terminal-search.mjs: a harness is an addon with what it reported    *)
(* and selected last; found is how often the buffer has the term.           *)
(***************************************************************************)
Harness ==
  [addon |-> SearchAddon(1000), selection |-> NoSelection, index |-> -1, count |-> 0]

RestartSearch(harness, term, found) ==
  FindNext(ClearDecorations(harness.addon), term, found, NoSelection)
HarnessNext(harness, term, found) ==
  FindNext(harness.addon, term, found, harness.selection)
HarnessPrevious(harness, term, found) ==
  FindPrevious(harness.addon, term, found, harness.selection)

Shows(harness, match, count) ==
  harness.selection = match /\ harness.index = match /\ harness.count = count

OrdinaryTextTest ==
  LET first == RestartSearch(Harness, "alpha", 3)
      second == HarnessNext(first, "alpha", 3)
      third == HarnessNext(second, "alpha", 3)
      wrapped == HarnessNext(third, "alpha", 3)
      exact == RestartSearch(HarnessPrevious(wrapped, "alpha", 3), "Alpha", 1)
      missing == RestartSearch(exact, "ALPHA", 0)
  IN /\ Shows(first, 0, 3) /\ Shows(second, 1, 3) /\ Shows(third, 2, 3)
     /\ Shows(wrapped, 0, 3) /\ HarnessPrevious(wrapped, "alpha", 3).selection = 2
     /\ exact.index = 0 /\ exact.count = 1
     /\ missing.selection = NoSelection /\ missing.index = -1 /\ missing.count = 0
     /\ FindNothing(missing.addon).selection = NoSelection

BuffersTest ==
  LET found == [b \in Buffers |->
        [term \in Buffers |-> IF term = b THEN 1 ELSE 0]]  \* <buffer>-target is in its buffer only
  IN \A b, term \in Buffers :
       (RestartSearch(Harness, term, found[b][term]).selection # NoSelection) <=> (b = term)

LargeScrollbackTest ==
  LET first == RestartSearch(Harness, "scrollback-target", 2)
  IN first.count = 2 /\ HarnessNext(first, "scrollback-target", 2).selection > first.selection

\* The timer finds what has arrived; 80 queries in a row are each found if they are there.
OngoingOutputTest ==
  LET none == RestartSearch(Harness, "arrived", 0)
      arrived == FindPrevious(ClearDecorations(UpdateMatches(none.addon)), "arrived", 2,
                              none.selection)
      queries == <<"a", "al", "alp", "alpha", "missing", "cjk", "beta", "alpha">>
      last == FoldLeft(LAMBDA h, term : RestartSearch(h, term, IF term = "missing" THEN 0 ELSE 3),
                       arrived, queries)
  IN /\ none.selection = NoSelection /\ UpdateMatches(none.addon).timer /\ arrived.count = 2
     /\ \A n \in DOMAIN queries :
          LET before == FoldLeft(LAMBDA h, term : RestartSearch(h, term, 3), arrived,
                                 SubSeq(queries, 1, n - 1))
              found == IF queries[n] = "missing" THEN 0 ELSE 3
          IN (RestartSearch(before, queries[n], found).selection # NoSelection) <=> (found # 0)
     /\ last.count = 3

\* A clipboard text is taken exactly when its bytes fit, though the limit is no multiple of
\* three and the length check lets longer texts through.
ClipboardLimit ==
  \A bytes \in 0..5 \cup (MaxClipboardBytes - 5)..(MaxClipboardBytes + 5) :
    DecodeOsc52(Payload("c", bytes)) = "ok" <=> bytes <= MaxClipboardBytes

\* The snapshot kept is the longest of those tried that fits, if more is never shorter.
LongestSnapshot ==
  \A available \in 0..5, width \in 1..2 :
    LET length == [n \in 0..ScrollbackLines |-> 1 + (n * width) \div FirstScrollback]
        kept == SerializeTerminalSnapshot(length, available)
    IN IF available = 0 THEN kept = NoSnapshot
       ELSE /\ length[kept] <= available
            /\ kept = ScrollbackLines \/ length[NextScrollback(kept)] > available

SearchJustOpened ==
  /\ panel = [ClosedPanel EXCEPT !.open = TRUE] /\ keyboard = "search"
  /\ addon = SearchAddon(HighlightLimit) /\ selection = NoSelection /\ ~copying
  /\ buffer = "normal" /\ \A q \in Queries : matches["normal"][q] = 0

(* The models agree with the repository's own tests of the page: every vector the tests      *)
(* play on terminal-policy.js, on the snapshot serializer and on the search addon has the     *)
(* outcome they expect; and at the limits the tests leave out, a clipboard text and a         *)
(* snapshot are taken exactly when they fit (decodeOsc52, serializeTerminalSnapshot).  The     *)
(* vectors need no history and are played once, on a new page whose search is just opened.    *)
PolicyTestsPass ==
  SearchJustOpened =>
  /\ Osc52Test /\ BellTest /\ WheelTest /\ CenterTest /\ LinkTest /\ PanelTest /\ SnapshotTest
  /\ OrdinaryTextTest /\ BuffersTest /\ LargeScrollbackTest /\ OngoingOutputTest
  /\ ClipboardLimit /\ LongestSnapshot
==============================================================================
