---------------------------- MODULE TerminalFlow ----------------------------
(***************************************************************************)
(* The way of a session's output to the terminal of one pane: the reading  *)
(* loop of run_session, the transport callback's queue, the pane's surface *)
(* (TerminalSurfaceController with its TerminalOutputBuffer), the bridge   *)
(* to the web page (TerminalBridge), and the page with xterm's parser; and *)
(* the way back: acknowledgements, snapshots, and the pausing of the loop. *)
(*                                                                         *)
(* A byte is a unit with a number; units are numbered as they come in.     *)
(* Synchronous code of the bridge is an operator on its record.            *)
(***************************************************************************)
EXTENDS Naturals, Sequences, SequencesExt

CONSTANTS
  HighWater, LowWater,   \* HIGH_WATER_BYTES, LOW_WATER_BYTES
  MaxPending,            \* MAX_PENDING_BYTES
  MaxInFlight,           \* MAX_IN_FLIGHT_MESSAGES
  HiddenHighWater,       \* hiddenHighWaterBytes
  OutputLimit,           \* the pending output at which the loop stops reading
  QueueCapacity,         \* of the transport callback
  PauseCapacity,         \* of the output-pause channel
  MaxSequence,           \* the last packet sequence before it wraps to 1
  MaxUnits,              \* bound: units of output
  MaxSessions,           \* bound: sessions of the pane
  MaxAttaches,           \* bound: web pages of the pane
  MaxRequests,           \* bound: snapshot requests
  EmptyTexts             \* bound: may the pane write an empty text?

ASSUME LimitsAssumption ==
  /\ LowWater \in Nat /\ HighWater \in Nat /\ LowWater < HighWater
  /\ MaxPending \in Nat /\ HighWater <= MaxPending
  /\ MaxInFlight \in Nat \ {0} /\ HiddenHighWater \in Nat \ {0}
  /\ OutputLimit \in Nat \ {0} /\ QueueCapacity \in Nat \ {0} /\ PauseCapacity \in Nat \ {0}
  /\ MaxSequence \in Nat /\ MaxInFlight < MaxSequence
  /\ {MaxUnits, MaxSessions, MaxAttaches, MaxRequests} \subseteq Nat
  /\ EmptyTexts \in BOOLEAN

\* One delivery of the loop fits into the bridge above its low watermark: 512 KiB (and the
\* packet that goes over it) and 512 KiB into 8 MiB.
ASSUME RoomAssumption == OutputLimit + LowWater <= MaxPending

Close == <<>>  \* in the transport queue: data events are never empty

VARIABLES
  units,         \* units so far
  \* run_session
  session,       \* "none", "live", "ending" (the loop has ended) or "over"
  sessions,      \* sessions so far
  output,        \* pending_output
  outputPaused,
  pauseRx,       \* the output-pause channel
  transport,     \* the transport callback's queue
  connected,     \* SshClient: "no", "queued" (its CONNECTED event) or "yes"
  \* TerminalSurfaceController and TerminalOutputBuffer
  attached, attaches,
  recovered,     \* the page was given a snapshot or detached output
  buffer,        \* detached chunks and their size, bridgePaused, detachedPaused
  snapshot,
  committed,     \* lastCommittedSnapshotRequestId
  requests,      \* snapshot requests so far
  bridge,        \* TerminalBridge
  toNative,      \* the page's messages to the bridge
  \* terminal.html
  parser,        \* what xterm has to parse
  captures,      \* pendingSnapshotRequestIds
  screen,        \* the units on the terminal
  \* history
  marks,         \* for each snapshot request, how many units had reached the surface
  gone,          \* units that final delivery gave up or that a detachment left behind
  stale,         \* flow control was released while the bridge was over its watermark
  rejected       \* a pause or resume found the channel full

loop == <<session, sessions, output, outputPaused>>
flow == <<pauseRx, buffer, bridge, stale, rejected>>
snapshots == <<snapshot, committed, requests, marks>>
page == <<toNative, parser, captures, screen>>
vars ==
  <<units, loop, transport, connected, attached, attaches, recovered, flow, snapshots, page, gone>>

-----------------------------------------------------------------------------
(* TerminalBridge.                                                         *)

NewBridge ==
  [ready |-> FALSE, pending |-> <<>>, pendingBytes |-> 0, inFlight |-> <<>>, inFlightBytes |-> 0,
   next |-> 1, backpressured |-> FALSE, restore |-> <<>>, awaitingRestore |-> FALSE,
   requests |-> <<>>, dropped |-> {}, toPage |-> <<>>]

Data(s, chunk) == [kind |-> "data", sequence |-> s, units |-> chunk]
Restore(text) == [kind |-> "restore", sequence |-> 0, units |-> text]
SnapshotRequest(r) == [kind |-> "snapshot", sequence |-> r, units |-> <<>>]

UpdateBackpressure(b) ==
  LET buffered == b.pendingBytes + b.inFlightBytes
  IN [b EXCEPT !.backpressured = IF @ THEN buffered > LowWater ELSE buffered >= HighWater]

\* postTerminalPacket and the accounting of one packet.
PostPacket(b) ==
  LET chunk == Head(b.pending)
  IN [b EXCEPT
        !.toPage = Append(@, Data(b.next, chunk)),
        !.next = IF @ >= MaxSequence THEN 1 ELSE @ + 1,
        !.pending = Tail(@),
        !.pendingBytes = @ - Len(chunk),
        !.inFlight = Append(@, b.next),
        !.inFlightBytes = @ + Len(chunk)]

MayPost(b) ==
  /\ b.ready /\ b.pending # <<>>
  /\ b.inFlightBytes < HighWater /\ Len(b.inFlight) < MaxInFlight

\* pumpPendingData: the loop ends after at most MaxInFlight packets.
PumpPendingData(b) ==
  LET pump[n \in 0..MaxInFlight] ==
        IF n = 0 THEN b ELSE IF MayPost(pump[n - 1]) THEN PostPacket(pump[n - 1]) ELSE pump[n - 1]
  IN IF b.ready THEN UpdateBackpressure(pump[MaxInFlight]) ELSE b

\* Fault: a request is sent although output is waiting.
PumpSnapshotRequestsEagerly(b) ==
  IF b.ready /\ ~b.awaitingRestore
  THEN [b EXCEPT !.toPage = @ \o [i \in DOMAIN b.requests |-> SnapshotRequest(b.requests[i])],
                 !.requests = <<>>]
  ELSE b

PumpSnapshotRequests(b) ==
  IF b.ready /\ ~b.awaitingRestore /\ b.pending = <<>> /\ b.inFlight = <<>>
  THEN [b EXCEPT !.toPage = @ \o [i \in DOMAIN b.requests |-> SnapshotRequest(b.requests[i])],
                 !.requests = <<>>]
  ELSE b

\* Fault: nothing is refused.
BridgeWriteUnlimited(b, chunk) ==
  PumpPendingData(UpdateBackpressure(
    [b EXCEPT !.pending = Append(@, chunk), !.pendingBytes = @ + Len(chunk)]))

BridgeWrite(b, chunk) ==
  IF b.pendingBytes + Len(chunk) > MaxPending
  THEN [b EXCEPT !.dropped = @ \cup Range(chunk), !.backpressured = TRUE]
  ELSE PumpPendingData(UpdateBackpressure(
         [b EXCEPT !.pending = Append(@, chunk), !.pendingBytes = @ + Len(chunk)]))

\* Several chunks are written, one after the other.
BridgeWriteAll(b, chunks) ==
  LET written[n \in 0..Len(chunks)] ==
        IF n = 0 THEN b ELSE BridgeWrite(written[n - 1], chunks[n])
  IN written[Len(chunks)]

RequestSnapshot(b, r) == PumpSnapshotRequests([b EXCEPT !.requests = Append(@, r)])

\* Fault: a later packet's acknowledgement stands for the earlier ones too.
AcknowledgeAll(b, s, n) ==
  PumpSnapshotRequests(PumpPendingData([b EXCEPT !.inFlight = <<>>, !.inFlightBytes = 0]))

\* Fault: the packets that have waited for room stay where they are.
AcknowledgeOnly(b, s, n) ==
  IF b.inFlight = <<>> \/ Head(b.inFlight) # s THEN b
  ELSE UpdateBackpressure(PumpSnapshotRequests(
         [b EXCEPT !.inFlight = Tail(@), !.inFlightBytes = IF @ > n THEN @ - n ELSE 0]))

\* A write acknowledgement counts when it is for the oldest packet in flight.
Acknowledge(b, s, n) ==
  LET acknowledged ==
        [b EXCEPT !.inFlight = Tail(@), !.inFlightBytes = IF @ > n THEN @ - n ELSE 0]
  IN IF b.inFlight = <<>> \/ Head(b.inFlight) # s THEN b
     ELSE UpdateBackpressure(PumpSnapshotRequests(PumpPendingData(acknowledged)))

\* READY: the snapshot first, then what has waited.
PageReady(b) ==
  LET ready == [b EXCEPT !.ready = TRUE]
      restored == IF b.restore = <<>> THEN ready
                  ELSE [ready EXCEPT !.toPage = Append(@, Restore(b.restore)),
                                     !.restore = <<>>,
                                     !.awaitingRestore = TRUE]
  IN PumpSnapshotRequests(PumpPendingData(restored))

RestoreComplete(b) == PumpSnapshotRequests([b EXCEPT !.awaitingRestore = FALSE])

-----------------------------------------------------------------------------
(* TerminalOutputBuffer, and what TerminalSurfaceController makes of it.   *)

NewBuffer == [chunks |-> <<>>, bytes |-> 0, bridgePaused |-> FALSE, detachedPaused |-> FALSE]

Paused(f) == f.bridgePaused \/ f.detachedPaused

AppendDetached(f, chunk) ==
  IF attached \/ chunk = <<>> THEN f
  ELSE [f EXCEPT !.chunks = Append(@, chunk),
                 !.bytes = @ + Len(chunk),
                 !.detachedPaused = @ \/ f.bytes + Len(chunk) >= HiddenHighWater]

\* Fault: only the rise of the flag is followed.
FollowRise(f, b) ==
  IF b.backpressured /\ ~bridge.backpressured THEN [f EXCEPT !.bridgePaused = TRUE] ELSE f

\* The backpressure handler of the bridge, called when its flag changes.
Follow(f, b) ==
  IF b.backpressured = bridge.backpressured THEN f
  ELSE [f EXCEPT !.bridgePaused = b.backpressured]

\* n calls of SshClient.setOutputPaused; those that find the channel full are lost.
SetOutputPaused(paused, n) ==
  LET room == PauseCapacity - Len(pauseRx)
      heard == connected = "yes" /\ session \in {"live", "ending"}
  IN /\ pauseRx' = IF ~heard THEN pauseRx
                   ELSE pauseRx \o [i \in 1..(IF n < room THEN n ELSE room) |-> paused]
     /\ rejected' = (rejected \/ (heard /\ n > room))

\* notifyOutputPauseChange, called by the handler of the bridge and again by writeBytes.
Notify(f, times) ==
  SetOutputPaused(Paused(f), IF Paused(f) = Paused(buffer) THEN 0 ELSE times)

Become(b, f) ==
  /\ bridge' = b
  /\ buffer' = f
  /\ stale' = (stale /\ b.backpressured)

\* writeBytes.
WriteBytes(chunk) ==
  LET b == IF attached THEN BridgeWrite(bridge, chunk) ELSE bridge
      f == Follow(AppendDetached(buffer, chunk), b)
  IN /\ Become(b, f)
     /\ Notify(f, IF attached THEN 2 ELSE 1)

\* How many units have reached the surface (or were given up before).
Reached ==
  LET waiting == FlattenSeq(transport) \o output
  IN IF waiting = <<>> THEN units ELSE Head(waiting) - 1

\* captureSnapshot, when so many units have reached the surface.
CaptureSnapshot(b, reached) ==
  /\ requests' = requests + 1
  /\ marks' = Append(marks, reached)
  /\ bridge' = RequestSnapshot(b, requests + 1)

-----------------------------------------------------------------------------
(* The reading loop of run_session.                                        *)

\* Fault: output that finds the queue full is thrown away.
DeliverOrDrop(o) ==
  /\ transport' = IF Len(transport) < QueueCapacity THEN Append(transport, o) ELSE transport
  /\ output' = <<>>

Deliver(o) ==
  IF Len(transport) < QueueCapacity
  THEN transport' = Append(transport, o) /\ output' = <<>>
  ELSE output' = o /\ UNCHANGED transport

\* Output is read and delivered at once or with the next tick, depending on its size.
ReadChannel ==
  /\ session = "live" /\ ~outputPaused
  /\ Len(output) < OutputLimit
  /\ units < MaxUnits
  /\ units' = units + 1
  /\ \/ Deliver(Append(output, units + 1))
     \/ output' = Append(output, units + 1) /\ UNCHANGED transport
  /\ UNCHANGED <<session, sessions, outputPaused, connected, attached, attaches, recovered, flow,
                 snapshots, page, gone>>

OutputTick ==
  /\ session = "live"
  /\ output # <<>>
  /\ Deliver(output)
  /\ UNCHANGED <<units, session, sessions, outputPaused, connected, attached, attaches, recovered,
                 flow, snapshots, page, gone>>

TakePause ==
  /\ session = "live"
  /\ pauseRx # <<>>
  /\ outputPaused' = Head(pauseRx)
  /\ pauseRx' = Tail(pauseRx)
  /\ UNCHANGED <<units, session, sessions, output, transport, connected, attached, attaches,
                 recovered, buffer, bridge, stale, rejected, snapshots, page, gone>>

\* The shell exits, the connection is lost, or the user disconnects.
LoopEnds ==
  /\ session = "live"
  /\ session' = "ending"
  /\ UNCHANGED <<units, sessions, output, outputPaused, transport, connected, attached, attaches,
                 recovered, flow, snapshots, page, gone>>

\* The last output gets a place in the queue within its retries, or is given up.
FinalDelivery ==
  /\ session = "ending"
  /\ output # <<>>
  /\ output' = <<>>
  /\ \/ Len(transport) < QueueCapacity /\ transport' = Append(transport, output) /\ UNCHANGED gone
     \/ Len(transport) >= QueueCapacity /\ gone' = gone \cup Range(output) /\ UNCHANGED transport
  /\ UNCHANGED <<units, session, sessions, outputPaused, connected, attached, attaches, recovered,
                 flow, snapshots, page>>

\* send_transport_close waits for a place.
SendClose ==
  /\ session = "ending"
  /\ output = <<>>
  /\ Len(transport) < QueueCapacity
  /\ transport' = Append(transport, Close)
  /\ session' = "over"
  /\ UNCHANGED <<units, sessions, output, outputPaused, connected, attached, attaches, recovered,
                 flow, snapshots, page, gone>>

-----------------------------------------------------------------------------
(* The UI thread: the session's events.                                    *)

\* A session opens its shell, after the last one's close was handled.
Connect ==
  /\ session \in {"none", "over"} /\ connected = "no"
  /\ sessions < MaxSessions
  /\ sessions' = sessions + 1
  /\ session' = "live"
  /\ connected' = "queued"
  /\ output' = <<>> /\ outputPaused' = FALSE /\ pauseRx' = <<>>
  /\ UNCHANGED <<units, transport, attached, attaches, recovered, buffer, bridge, stale, rejected,
                 snapshots, page, gone>>

\* Fault: the new session is not told whether the surface is paused.
HandleConnectedUntold ==
  /\ connected = "queued"
  /\ connected' = "yes"
  /\ UNCHANGED <<units, loop, transport, attached, attaches, recovered, flow, snapshots, page, gone>>

\* onSshConnected.
HandleConnected ==
  /\ connected = "queued"
  /\ connected' = "yes"
  /\ pauseRx' = IF session = "over" THEN pauseRx ELSE Append(pauseRx, Paused(buffer))
  /\ UNCHANGED <<units, loop, transport, attached, attaches, recovered, buffer, bridge, stale,
                 rejected, snapshots, page, gone>>

\* onSshData.
HandleData ==
  /\ transport # <<>> /\ Head(transport) # Close
  /\ transport' = Tail(transport)
  /\ WriteBytes(Head(transport))
  /\ UNCHANGED <<units, loop, connected, attached, attaches, recovered, snapshots, page, gone>>

\* The pane writes a text of its own; the bound on units ends it.
OwnText == IF units < MaxUnits THEN <<units + 1>> ELSE <<>>

WriteOwn(b, chunk) == IF attached /\ chunk # <<>> THEN BridgeWrite(b, chunk) ELSE b

\* onSshClose: flow control is released, the end is written, a snapshot is asked for.
HandleClose ==
  LET released == [buffer EXCEPT !.bridgePaused = FALSE, !.detachedPaused = FALSE]
      b == WriteOwn(bridge, OwnText)
  IN /\ transport # <<>> /\ Head(transport) = Close
     /\ connected = "yes"
     /\ transport' = Tail(transport)
     /\ connected' = "no"
     /\ units' = units + Len(OwnText)
     /\ buffer' = Follow(AppendDetached(released, OwnText), b)
     /\ IF attached THEN CaptureSnapshot(b, units') ELSE UNCHANGED <<bridge, requests, marks>>
     /\ stale' = ((stale \/ bridge.backpressured) /\ attached)
     /\ UNCHANGED <<loop, attached, attaches, recovered, pauseRx, rejected, snapshot, committed,
                    page, gone>>

\* A local command or a prompt of an authentication writes its text.
WriteTerminal ==
  /\ connected = "no"
  /\ \E text \in {<<units + 1>>} \cup (IF EmptyTexts THEN {<<>>} ELSE {}) :
       /\ units + Len(text) <= MaxUnits
       /\ units' = units + Len(text)
       /\ WriteBytes(text)
  /\ UNCHANGED <<loop, transport, connected, attached, attaches, recovered, snapshots, page, gone>>

-----------------------------------------------------------------------------
(* The UI thread: the surface and its page.                                *)

\* attach, once a new web page has loaded: the snapshot and the detached output wait in a
\* new bridge until the page is ready.
Attach ==
  LET restoring == [NewBridge EXCEPT !.restore = snapshot]
      b == BridgeWriteAll(restoring, buffer.chunks)
      f == [NewBuffer EXCEPT !.bridgePaused = b.backpressured]
  IN /\ ~attached
     /\ attaches < MaxAttaches
     /\ attached' = TRUE
     /\ attaches' = attaches + 1
     /\ recovered' = (snapshot # <<>> \/ buffer.chunks # <<>>)
     /\ Become(b, f)
     /\ SetOutputPaused(Paused(f),
          (IF Paused(f) THEN 1 ELSE 0) + (IF Paused(f) # Paused(buffer) THEN 1 ELSE 0))
     /\ toNative' = <<[kind |-> "ready", sequence |-> 0, units |-> <<>>]>>
     /\ parser' = <<>> /\ captures' = <<>> /\ screen' = <<>>
     /\ UNCHANGED <<units, loop, transport, connected, snapshots, gone>>

\* detach: a checkpoint is through, the renderer has exited or the pane has disappeared.
\* What is not in the snapshot is gone.
Detach ==
  /\ attached
  /\ attaches < MaxAttaches
  /\ attached' = FALSE
  /\ bridge' = NewBridge
  /\ buffer' = NewBuffer
  /\ stale' = FALSE
  /\ Notify(NewBuffer, 1)
  /\ gone' = gone \cup ((1..Reached) \ Range(snapshot))
  /\ toNative' = <<>> /\ parser' = <<>> /\ captures' = <<>> /\ screen' = <<>>
  /\ UNCHANGED <<units, loop, transport, connected, attaches, recovered, snapshots>>

\* The window is hidden, or the tab's bridge is about to go.
Capture ==
  /\ attached
  /\ requests < MaxRequests
  /\ CaptureSnapshot(bridge, Reached)
  /\ UNCHANGED <<units, loop, transport, connected, attached, attaches, recovered, pauseRx, buffer,
                 stale, rejected, snapshot, committed, page, gone>>

\* onBridgeReady: a prompt on an empty local terminal, and a first snapshot.
OnBridgeReady(b) ==
  LET text == IF connected = "no" /\ ~recovered THEN OwnText ELSE <<>>
  IN /\ units' = units + Len(text)
     /\ CaptureSnapshot(WriteOwn(b, text), Reached + Len(text))

NotYetReady(b) == bridge' = b /\ UNCHANGED <<units, requests, marks>>

HandleReady ==
  IF PageReady(bridge).awaitingRestore THEN NotYetReady(PageReady(bridge))
  ELSE OnBridgeReady(PageReady(bridge))

HandleRestoreComplete ==
  IF bridge.awaitingRestore THEN OnBridgeReady(RestoreComplete(bridge)) ELSE NotYetReady(bridge)

\* The latest snapshot requested is kept.
HandleSnapshot(message) ==
  IF message.sequence >= committed
  THEN snapshot' = message.units /\ committed' = message.sequence
  ELSE UNCHANGED <<snapshot, committed>>

\* handleRawMessage and handleBridgeMessage.
HandleRawMessage ==
  /\ toNative # <<>>
  /\ toNative' = Tail(toNative)
  /\ LET message == Head(toNative)
     IN \/ /\ message.kind = "ready" /\ HandleReady
           /\ UNCHANGED <<snapshot, committed>>
        \/ /\ message.kind = "ack"
           /\ bridge' = Acknowledge(bridge, message.sequence, Len(message.units))
           /\ UNCHANGED <<units, snapshots>>
        \/ /\ message.kind = "restored" /\ HandleRestoreComplete
           /\ UNCHANGED <<snapshot, committed>>
        \/ /\ message.kind = "snapshot" /\ HandleSnapshot(message)
           /\ UNCHANGED <<units, bridge, requests, marks>>
  /\ buffer' = Follow(buffer, bridge')
  /\ stale' = (stale /\ bridge'.backpressured)
  /\ Notify(buffer', 1)
  /\ UNCHANGED <<loop, transport, connected, attached, attaches, recovered, parser, captures,
                 screen, gone>>

-----------------------------------------------------------------------------
(* The page: terminal.html.                                                *)

CaptureMark == [kind |-> "capture", sequence |-> 0, units |-> <<>>]

\* onmessage.  A packet without a payload is not a packet.
ReceiveMessage ==
  /\ bridge.toPage # <<>>
  /\ bridge' = [bridge EXCEPT !.toPage = Tail(@)]
  /\ LET message == Head(bridge.toPage)
     IN \/ /\ message.kind \in {"data", "restore"}
           /\ parser' = IF message.units = <<>> THEN parser ELSE Append(parser, message)
           /\ UNCHANGED captures
        \/ /\ message.kind = "snapshot"
           /\ captures' = Append(captures, message.sequence)
           /\ parser' = IF captures = <<>> THEN Append(parser, CaptureMark) ELSE parser
  /\ UNCHANGED <<units, loop, transport, connected, attached, attaches, recovered, pauseRx, buffer,
                 stale, rejected, snapshots, toNative, screen, gone>>

Send(kind, s, text) ==
  toNative' = Append(toNative, [kind |-> kind, sequence |-> s, units |-> text])

\* xterm is through with a write and calls back.
Parse ==
  /\ parser # <<>>
  /\ parser' = Tail(parser)
  /\ LET message == Head(parser)
     IN \/ /\ message.kind = "data"
           /\ screen' = screen \o message.units
           /\ Send("ack", message.sequence, message.units)
           /\ UNCHANGED captures
        \/ /\ message.kind = "restore"
           /\ screen' = screen \o message.units
           /\ Send("restored", 0, <<>>)
           /\ UNCHANGED captures
        \/ /\ message.kind = "capture"
           /\ captures' = <<>>
           /\ UNCHANGED screen
           /\ \/ UNCHANGED toNative  \* the terminal cannot be serialised
              \/ toNative' = toNative \o
                   [i \in DOMAIN captures |->
                      [kind |-> "snapshot", sequence |-> captures[i], units |-> screen]]
  /\ UNCHANGED <<units, loop, transport, connected, attached, attaches, recovered, flow, snapshots,
                 gone>>

-----------------------------------------------------------------------------
Init ==
  /\ units = 0
  /\ session = "none" /\ sessions = 0 /\ output = <<>> /\ outputPaused = FALSE
  /\ pauseRx = <<>> /\ transport = <<>> /\ connected = "no"
  /\ attached = FALSE /\ attaches = 0 /\ recovered = FALSE
  /\ buffer = NewBuffer /\ bridge = NewBridge
  /\ snapshot = <<>> /\ committed = 0 /\ requests = 0 /\ marks = <<>>
  /\ toNative = <<>> /\ parser = <<>> /\ captures = <<>> /\ screen = <<>>
  /\ gone = {} /\ stale = FALSE /\ rejected = FALSE

Loop == ReadChannel \/ OutputTick \/ TakePause \/ FinalDelivery \/ SendClose
Events == HandleConnected \/ HandleData \/ HandleClose \/ HandleRawMessage
Page == ReceiveMessage \/ Parse
User == Connect \/ LoopEnds \/ WriteTerminal \/ Capture \/ Detach

Next == Loop \/ Events \/ Page \/ Attach \/ User

Spec == Init /\ [][Next]_vars

\* The task, the UI thread and the page run.  Nothing makes the user come back to a pane
\* without a page.  The last three are weak fairness with ENABLED written out, which TLC
\* would evaluate slowly.
Fairness ==
  /\ WF_vars(OutputTick) /\ WF_vars(TakePause) /\ WF_vars(FinalDelivery) /\ WF_vars(SendClose)
  /\ WF_vars(HandleConnected) /\ WF_vars(ReceiveMessage) /\ WF_vars(Parse)
  /\ []<>(toNative = <<>>) \/ []<><<HandleRawMessage>>_vars
  /\ []<>(transport = <<>> \/ Head(transport) = Close) \/ []<><<HandleData>>_vars
  /\ []<>~(transport # <<>> /\ Head(transport) = Close /\ connected = "yes")
       \/ []<><<HandleClose>>_vars

FairSpec == Spec /\ Fairness

-----------------------------------------------------------------------------
(* Properties.                                                             *)

TypeOK ==
  /\ units \in 0..MaxUnits
  /\ session \in {"none", "live", "ending", "over"} /\ sessions \in 0..MaxSessions
  /\ output \in Seq(1..MaxUnits) /\ Len(output) <= OutputLimit
  /\ outputPaused \in BOOLEAN
  /\ pauseRx \in Seq(BOOLEAN) /\ Len(pauseRx) <= PauseCapacity
  /\ transport \in Seq(Seq(1..MaxUnits)) /\ Len(transport) <= QueueCapacity
  /\ connected \in {"no", "queued", "yes"}
  /\ attached \in BOOLEAN /\ attaches \in 0..MaxAttaches /\ recovered \in BOOLEAN
  /\ bridge.pendingBytes \in 0..MaxPending
  /\ Len(bridge.inFlight) <= MaxInFlight
  /\ bridge.backpressured \in BOOLEAN /\ Paused(buffer) \in BOOLEAN
  /\ snapshot \in Seq(1..MaxUnits) /\ committed \in 0..requests /\ Len(marks) = requests
  /\ stale \in BOOLEAN /\ rejected \in BOOLEAN

UnitsOf(messages) == FlattenSeq([i \in DOMAIN messages |-> messages[i].units])

\* Everything on its way to the terminal, the terminal first.
Stream ==
  (IF attached
   THEN screen \o UnitsOf(parser) \o UnitsOf(bridge.toPage) \o bridge.restore
          \o FlattenSeq(bridge.pending)
   ELSE snapshot \o FlattenSeq(buffer.chunks))
  \o FlattenSeq(transport) \o output

\* docs/architecture.md:125-128: nothing is lost in silence.  Every unit is on its way once
\* and in its order, unless the bridge or the final delivery counted it as dropped or a
\* detachment came before a snapshot held it.
NothingElseLost ==
  LET stream == Stream
  IN /\ Range(stream) = (1..units) \ (gone \cup bridge.dropped)
     /\ \A i, j \in DOMAIN stream : i < j => stream[i] < stream[j]

\* The sequence numbers of the messages of a kind.
SequencesOf(messages, kind) ==
  FlattenSeq([i \in DOMAIN messages |->
    IF messages[i].kind = kind THEN <<messages[i].sequence>> ELSE <<>>])

\* The packets that the bridge has in flight are those that the page has still to
\* acknowledge, in the order in which it will: no acknowledgement is ever ignored, and none
\* is missing, for the bridge waits for it for ever.
AcksMatch ==
  bridge.inFlight = SequencesOf(toNative, "ack") \o SequencesOf(parser, "data")
                      \o SequencesOf(bridge.toPage, "data")

\* docs/architecture.md:138-139: a committed snapshot holds all that had reached the surface
\* when it was requested, even if requests are answered together.
SnapshotIsComplete ==
  committed # 0 =>
    (1..marks[committed]) \ (gone \cup bridge.dropped) \subseteq Range(snapshot)

\* docs/architecture.md:124-125: once no message is under way, the session is paused exactly
\* while the bridge, or the detached output, is over its watermark.
PauseIsTrue ==
  /\ session = "live" /\ connected = "yes" /\ pauseRx = <<>>
  /\ ~stale /\ ~rejected
  => outputPaused = IF attached THEN bridge.backpressured ELSE buffer.detachedPaused

\* docs/architecture.md:124-125: "backpressure propagates to the owning SSH session instead
\* of letting unbounded output accumulate".
BackpressurePropagates ==
  /\ session = "live" /\ connected = "yes" /\ pauseRx = <<>> /\ ~rejected
  /\ attached /\ bridge.backpressured
  => outputPaused

\* docs/architecture.md:124-125: backpressure is no end.  A paused session whose pane has a
\* page goes on, unless a resume was lost to a full channel.
PauseEnds ==
  outputPaused /\ attached ~> ~outputPaused \/ ~attached \/ session # "live" \/ rejected

\* What waits in the bridge (TerminalBridge.pumpPendingData) is shown, or the page is gone.
PendingIsShown ==
  \A u \in 1..MaxUnits :
    u \in Range(FlattenSeq(bridge.pending)) ~> u \in Range(screen) \/ ~attached
=============================================================================
