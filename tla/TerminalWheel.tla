---------------------------- MODULE TerminalWheel ----------------------------
(***************************************************************************)
(* The wheel over a full-screen program (terminal.html): turns are added up *)
(* with acceleration and sent as lines once per animation frame, at most so *)
(* many a frame.  A turn, a frame, a switch of screens and a selection come *)
(* in any order.                                                           *)
(***************************************************************************)
EXTENDS TerminalPolicy

CONSTANTS
  Turns,        \* the wheel's events: records of delta and mode
  Gaps,         \* the times between two events, in ms
  CellHeight,   \* of a line, in pixels
  Rows,         \* of the terminal
  MaxTurns      \* bound: events

ASSUME WheelAssumption ==
  /\ \A t \in Turns : t.delta \in Int /\ t.mode \in {WheelPixel, WheelLine, WheelPage}
  /\ Gaps \subseteq Nat
  /\ CellHeight \in Nat \ {0} /\ Rows \in Nat \ {0} /\ MaxTurns \in Nat

VARIABLES
  wheel,       \* alternateWheelState
  frame,       \* alternateWheelFrameScheduled
  alternate,   \* the program has the alternate screen
  marked,      \* the terminal has a selection
  clock,       \* of the last event
  turns,       \* events so far
  sent,        \* the lines sent in this step, below zero upwards
  turned       \* history: the direction of the last turn taken

wheelVars == <<wheel, frame, alternate, marked, clock, turns, sent, turned>>

WheelInit ==
  /\ wheel = WheelState /\ frame = FALSE
  /\ alternate = FALSE /\ marked = FALSE
  /\ clock = 0 /\ turns = 0 /\ sent = 0 /\ turned = 0

\* The lines are the page's to send.
Takes == alternate /\ ~marked

\* handleAlternateWheel.
HandleAlternateWheel(turn, gap) ==
  /\ turns < MaxTurns
  /\ turns' = turns + 1
  /\ clock' = clock + gap
  /\ wheel' = IF Takes
              THEN EnqueueWheel(wheel, turn.delta, turn.mode, CellHeight, Rows, clock + gap)
              ELSE WheelState
  /\ frame' = (frame \/ Takes)
  /\ turned' = IF ~Takes \/ turn.delta = 0 THEN turned ELSE IF turn.delta < 0 THEN -1 ELSE 1
  /\ sent' = 0
  /\ UNCHANGED <<alternate, marked>>

\* Fault: a frame sends what it may and asks for no other.
PumpOneFrame ==
  /\ frame
  /\ wheel' = IF Takes THEN ConsumeWheelFrame(wheel, Rows) ELSE WheelState
  /\ sent' = IF Takes THEN WheelSteps(wheel, Rows) ELSE 0
  /\ frame' = FALSE
  /\ UNCHANGED <<alternate, marked, clock, turns, turned>>

\* pumpAlternateWheelFrame.
PumpAlternateWheelFrame ==
  /\ frame
  /\ wheel' = IF Takes THEN ConsumeWheelFrame(wheel, Rows) ELSE WheelState
  /\ sent' = IF Takes THEN WheelSteps(wheel, Rows) ELSE 0
  /\ frame' = HasPendingWheelSteps(wheel')
  /\ UNCHANGED <<alternate, marked, clock, turns, turned>>

\* xterm drops its selection when the screens are switched.
SwitchScreen ==
  /\ alternate' = ~alternate
  /\ marked' = FALSE
  /\ sent' = 0
  /\ UNCHANGED <<wheel, frame, clock, turns, turned>>

Mark ==
  /\ marked' = ~marked
  /\ sent' = 0
  /\ UNCHANGED <<wheel, frame, alternate, clock, turns, turned>>

WheelNext ==
  \/ \E turn \in Turns, gap \in Gaps : HandleAlternateWheel(turn, gap)
  \/ PumpAlternateWheelFrame \/ SwitchScreen \/ Mark

WheelSpec == WheelInit /\ [][WheelNext]_wheelVars

WheelTypeOK ==
  /\ wheel.pendingLines \in -(8 * Unit * Rows)..(8 * Unit * Rows)
  /\ wheel.velocity \in Int /\ wheel.lastEventTime \in -1..clock
  /\ wheel.direction \in -1..1
  /\ {frame, alternate, marked} \subseteq BOOLEAN
  /\ clock \in Nat /\ turns \in 0..MaxTurns
  /\ sent \in Int /\ turned \in -1..1

(* The program scrolls the way the wheel was last turned: lines left over from before a      *)
(* reversal, a pause or an acceleration are never sent against it, and what waits points      *)
(* that way too (enqueueWheel, pumpAlternateWheelFrame).                                     *)
WheelFollowsLast ==
  /\ sent * turned >= 0
  /\ wheel.pendingLines * turned >= 0

(* Whole lines that wait are sent: an animation frame is on its way as long as there are any. *)
PendingHasFrame == HasPendingWheelSteps(wheel) => frame
==============================================================================
