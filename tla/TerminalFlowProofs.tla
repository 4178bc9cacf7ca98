------------------------- MODULE TerminalFlowProofs -------------------------
(***************************************************************************)
(* TerminalFlow for every limit, every number of units, sessions, pages and *)
(* snapshot requests: what it is that the bridge does with its record, and  *)
(* then the invariants, of which each rests on those before it.            *)
(***************************************************************************)
EXTENDS TerminalFlow, SequenceLemmas

-----------------------------------------------------------------------------
(* Types.                                                                  *)

Unit == 1..MaxUnits
Text == Seq(Unit)

Kinds == {"data", "restore", "snapshot", "capture", "ready", "ack", "restored"}
Messages == [kind : Kinds, sequence : Nat, units : Text]

\* Messages to the page, to xterm and to the bridge, when n snapshots have been requested.
PageMessages(n) ==
  {m \in Messages :
     \/ m.kind = "data"
     \/ m.kind = "restore" /\ m.sequence = 0 /\ m.units # <<>>
     \/ m.kind = "snapshot" /\ m.sequence \in 1..n /\ m.units = <<>>}

ParserMessages ==
  {m \in Messages :
     \/ m.kind = "data" /\ m.units # <<>>
     \/ m.kind = "restore" /\ m.sequence = 0 /\ m.units # <<>>
     \/ m.kind = "capture" /\ m.units = <<>>}

NativeMessages(n) ==
  {m \in Messages :
     \/ m.kind \in {"ready", "ack"}
     \/ m.kind = "restored" /\ m.sequence = 0
     \/ m.kind = "snapshot" /\ m.sequence \in 1..n}

Bridges(n) ==
  [ready : BOOLEAN, pending : Seq(Text), pendingBytes : 0..MaxPending, inFlight : Seq(Nat),
   inFlightBytes : Nat, next : Nat, backpressured : BOOLEAN, restore : Text,
   awaitingRestore : BOOLEAN, requests : Seq(1..n), dropped : SUBSET Unit,
   toPage : Seq(PageMessages(n))]

BridgeOK(b, n) ==
  /\ b \in Bridges(n)
  /\ b.pendingBytes = Len(FlattenSeq(b.pending))
  /\ Len(b.inFlight) <= MaxInFlight
  /\ b.ready => b.restore = <<>>

Buffers == [chunks : Seq(Text), bytes : Nat, bridgePaused : BOOLEAN, detachedPaused : BOOLEAN]

\* A page and the bridge to it belong to an attached surface.
PageGone ==
  /\ bridge = NewBridge
  /\ toNative = <<>> /\ parser = <<>> /\ captures = <<>> /\ screen = <<>>

\* What a session that is connected, that ends, or that is gone has left in the queue.
PhaseOK ==
  /\ connected = "no" => session \in {"none", "over"} /\ transport = <<>> /\ output = <<>>
  /\ session = "none" => connected = "no"
  /\ session \in {"live", "ending"} => \A i \in DOMAIN transport : transport[i] # Close
  /\ session = "over" /\ connected # "no" =>
       /\ transport # <<>> /\ transport[Len(transport)] = Close
       /\ \A i \in 1..(Len(transport) - 1) : transport[i] # Close
  /\ session = "over" => output = <<>>
  /\ connected = "queued" => pauseRx = <<>>

LoopTypes ==
  /\ units \in 0..MaxUnits
  /\ session \in {"none", "live", "ending", "over"} /\ sessions \in 0..MaxSessions
  /\ output \in Text /\ Len(output) <= OutputLimit
  /\ outputPaused \in BOOLEAN
  /\ pauseRx \in Seq(BOOLEAN) /\ Len(pauseRx) <= PauseCapacity /\ rejected \in BOOLEAN
  /\ transport \in Seq(Text) /\ Len(transport) <= QueueCapacity
  /\ connected \in {"no", "queued", "yes"}

SurfaceTypes ==
  /\ attached \in BOOLEAN /\ attaches \in 0..MaxAttaches /\ recovered \in BOOLEAN
  /\ requests \in Nat /\ BridgeOK(bridge, requests)
  /\ buffer \in Buffers
  /\ snapshot \in Text /\ committed \in 0..requests
  /\ marks \in Seq(Nat) /\ Len(marks) = requests
  /\ toNative \in Seq(NativeMessages(requests)) /\ parser \in Seq(ParserMessages)
  /\ captures \in Seq(1..requests) /\ screen \in Text
  /\ gone \subseteq Unit
  /\ stale \in BOOLEAN
  /\ ~attached => PageGone

TypeInv == LoopTypes /\ SurfaceTypes /\ PhaseOK

-----------------------------------------------------------------------------
(* A page and its bridge.  What follows is said of a bridge b, of the      *)
(* messages to native na, of the parser pa and its screen sc, of the output *)
(* w that has still to come, of the first u units, those of them left      *)
(* behind, and the marks ms.                                               *)

Full(chunks) == \A i \in DOMAIN chunks : chunks[i] # <<>>
FullData(messages) == \A i \in DOMAIN messages : messages[i].kind = "data" => messages[i].units # <<>>

\* acks are the packets that the page has or has answered.
Acks(na, pa) == SequencesOf(na, "ack") \o SequencesOf(pa, "data")

AcksOK(b, acks) ==
  /\ Len(acks) + Len(SequencesOf(b.toPage, "data")) <= Len(b.inFlight)
  /\ ~EmptyTexts =>
       /\ b.inFlight = acks \o SequencesOf(b.toPage, "data")
       /\ Full(b.pending) /\ FullData(b.toPage)

\* restores are the snapshots to be restored that the page has or has answered.
Restores(na, pa) == SequencesOf(na, "restored") \o SequencesOf(pa, "restore")

RestoresOK(b, restores) ==
  /\ restores \o SequencesOf(b.toPage, "restore") = IF b.awaitingRestore THEN <<0>> ELSE <<>>
  /\ b.restore # <<>> => ~b.awaitingRestore

\* What is on its way in the bridge.
Line(b) == (UnitsOf(b.toPage) \o b.restore) \o FlattenSeq(b.pending)

\* The units are either in front, or have still to come, or were dropped before, or are left.
StreamOK(front, w, u, left, dropped) ==
  /\ Increasing(front \o w)
  /\ Range(front \o w) = (1..u) \ (left \cup dropped)
  /\ left \cup dropped \subseteq 1..u
  /\ Before(dropped, Range(w))

\* A mark counts units that have come.
MarksOK(ms, w, u) == \A r \in DOMAIN ms : ms[r] <= u /\ \A x \in Range(w) : ms[r] < x

\* A text holds what had reached the surface at a mark.
Holds(text, mark, given) == (1..mark) \ given \subseteq Range(text)

\* What the page is asked for is on the screen.
AskedOK(b, sc, left, ms) ==
  \A i \in DOMAIN b.toPage : b.toPage[i].kind = "snapshot" =>
    Holds(sc, ms[b.toPage[i].sequence], left \cup b.dropped)

PageInv(b, na, pa, sc, w, u, left, ms) ==
  /\ BridgeOK(b, Len(ms)) /\ na \in Seq(Messages) /\ pa \in Seq(ParserMessages)
  /\ sc \in Text /\ w \in Text /\ u \in Nat /\ ms \in Seq(Nat)
  /\ AcksOK(b, Acks(na, pa))
  /\ RestoresOK(b, Restores(na, pa))
  /\ StreamOK((sc \o UnitsOf(pa)) \o Line(b), w, u, left, b.dropped)
  /\ MarksOK(ms, w, u)
  /\ AskedOK(b, sc, left, ms)

-----------------------------------------------------------------------------
(* The surface.                                                            *)

Waiting == FlattenSeq(transport) \o output
Given == gone \cup bridge.dropped

\* Without a page, the snapshot stands for the screen and the detached output comes after it.
SurfaceInv ==
  IF attached
  THEN PageInv(bridge, toNative, parser, screen, Waiting, units, gone, marks)
  ELSE /\ StreamOK(snapshot, FlattenSeq(buffer.chunks) \o Waiting, units, gone, {})
       /\ MarksOK(marks, FlattenSeq(buffer.chunks) \o Waiting, units)

\* A snapshot has nothing that is not on the screen, and all that it was asked for.
AnswersOK ==
  /\ \A i \in DOMAIN captures : Holds(screen, marks[captures[i]], Given)
  /\ \A i \in DOMAIN toNative : toNative[i].kind = "snapshot" =>
       /\ Increasing(toNative[i].units) /\ Range(toNative[i].units) \subseteq Range(screen)
       /\ Holds(toNative[i].units, marks[toNative[i].sequence], Given)
  /\ committed # 0 => Holds(snapshot, marks[committed], Given)

\* What the snapshot has is on the surface, on the screen or on its way there.
SnapshotKept ==
  /\ Increasing(snapshot)
  /\ attached => Range(snapshot) \subseteq Range((screen \o UnitsOf(parser)) \o Line(bridge))

FlowInv ==
  /\ SurfaceInv /\ AnswersOK /\ SnapshotKept
  /\ ~EmptyTexts => Full(buffer.chunks)

-----------------------------------------------------------------------------
(* Pausing.                                                                *)

Told == IF pauseRx = <<>> THEN outputPaused ELSE pauseRx[Len(pauseRx)]

\* The session hears last what the surface is.
ToldOK == session \in {"live", "ending"} /\ connected = "yes" /\ ~rejected => Told = Paused(buffer)

FollowsOK ==
  /\ attached => /\ ~buffer.detachedPaused
                 /\ buffer.bridgePaused => bridge.backpressured
                 /\ ~stale => buffer.bridgePaused = bridge.backpressured
  /\ ~attached => ~buffer.bridgePaused

PauseInv == ToldOK /\ FollowsOK

-----------------------------------------------------------------------------
(* Messages.                                                               *)

UnitsMeasure == [m \in Messages |-> m.units]
NumbersMeasure(kind) == [m \in Messages |-> IF m.kind = kind THEN <<m.sequence>> ELSE <<>>]

\* What one message of a kind contributes to SequencesOf.
NumberOf(m, kind) == IF m.kind = kind THEN <<m.sequence>> ELSE <<>>

LEMMA UnitsMeasured == Measures(UnitsMeasure, Messages, Unit)
BY DEF Measures, UnitsMeasure, Messages, Text

LEMMA NumbersMeasured == ASSUME NEW kind PROVE Measures(NumbersMeasure(kind), Messages, Nat)
<1>1. ASSUME NEW m \in Messages
      PROVE  (IF m.kind = kind THEN <<m.sequence>> ELSE <<>>) \in Seq(Nat)
  BY DEF Messages
<1> QED
  BY <1>1 DEF Measures, NumbersMeasure

LEMMA UnitsGathered ==
  ASSUME NEW ms \in Seq(Messages)
  PROVE  UnitsOf(ms) = Gather(UnitsMeasure, ms)
<1>1. \A i \in DOMAIN ms : ms[i] \in Messages
  BY ElementOfSeq, LenProperties
<1>2. [i \in DOMAIN ms |-> ms[i].units] = [i \in DOMAIN ms |-> UnitsMeasure[ms[i]]]
  BY <1>1 DEF UnitsMeasure
<1> QED
  BY <1>2 DEF UnitsOf, Gather, Pieces

LEMMA NumbersGathered ==
  ASSUME NEW ms \in Seq(Messages), NEW kind
  PROVE  SequencesOf(ms, kind) = Gather(NumbersMeasure(kind), ms)
<1>1. \A i \in DOMAIN ms : ms[i] \in Messages
  BY ElementOfSeq, LenProperties
<1>2. [i \in DOMAIN ms |-> IF ms[i].kind = kind THEN <<ms[i].sequence>> ELSE <<>>]
        = [i \in DOMAIN ms |-> NumbersMeasure(kind)[ms[i]]]
  BY <1>1 DEF NumbersMeasure
<1> QED
  BY <1>2 DEF SequencesOf, Gather, Pieces

LEMMA UnitsEmpty == UnitsOf(<<>>) = <<>>
BY UnitsGathered, GatherEmpty, EmptySeq

LEMMA UnitsType ==
  ASSUME NEW ms \in Seq(Messages)
  PROVE  UnitsOf(ms) \in Text
BY UnitsGathered, UnitsMeasured, GatherType DEF Text

LEMMA UnitsConcat ==
  ASSUME NEW s \in Seq(Messages), NEW t \in Seq(Messages)
  PROVE  UnitsOf(s \o t) = UnitsOf(s) \o UnitsOf(t)
<1>1. s \o t \in Seq(Messages)
  BY ConcatProperties
<1>2. Gather(UnitsMeasure, s \o t) = Gather(UnitsMeasure, s) \o Gather(UnitsMeasure, t)
  BY UnitsMeasured, GatherConcat
<1> QED
  BY <1>1, <1>2, UnitsGathered

LEMMA UnitsAppend ==
  ASSUME NEW s \in Seq(Messages), NEW m \in Messages
  PROVE  UnitsOf(Append(s, m)) = UnitsOf(s) \o m.units
<1>1. Append(s, m) \in Seq(Messages)
  BY AppendProperties
<1>2. Gather(UnitsMeasure, Append(s, m)) = Gather(UnitsMeasure, s) \o UnitsMeasure[m]
  BY UnitsMeasured, GatherAppend
<1>3. UnitsMeasure[m] = m.units
  BY DEF UnitsMeasure
<1> QED
  BY <1>1, <1>2, <1>3, UnitsGathered

LEMMA UnitsTail ==
  ASSUME NEW s \in Seq(Messages), s # <<>>
  PROVE  /\ Head(s) \in Messages /\ Tail(s) \in Seq(Messages)
         /\ UnitsOf(s) = Head(s).units \o UnitsOf(Tail(s))
<1>1. /\ Head(s) \in Messages /\ Tail(s) \in Seq(Messages)
      /\ Gather(UnitsMeasure, s) = UnitsMeasure[Head(s)] \o Gather(UnitsMeasure, Tail(s))
  BY UnitsMeasured, GatherTail
<1>2. UnitsMeasure[Head(s)] = Head(s).units
  BY <1>1 DEF UnitsMeasure
<1>3. UnitsOf(Tail(s)) = Gather(UnitsMeasure, Tail(s))
  BY <1>1, UnitsGathered
<1> QED
  BY <1>1, <1>2, <1>3, UnitsGathered

LEMMA NoUnits ==
  ASSUME NEW s \in Seq(Messages)
  PROVE  UnitsOf(s) = <<>> <=> \A i \in 1..Len(s) : s[i].units = <<>>
<1>1. Gather(UnitsMeasure, s) = <<>> <=> \A i \in 1..Len(s) : UnitsMeasure[s[i]] = <<>>
  BY UnitsMeasured, GatherNothing
<1>2. \A i \in 1..Len(s) : UnitsMeasure[s[i]] = s[i].units
  BY ElementOfSeq DEF UnitsMeasure
<1> QED
  BY <1>1, <1>2, UnitsGathered, Zenon

LEMMA NumbersEmpty == ASSUME NEW kind PROVE SequencesOf(<<>>, kind) = <<>>
BY NumbersGathered, GatherEmpty, EmptySeq

LEMMA NumbersType ==
  ASSUME NEW s \in Seq(Messages), NEW kind
  PROVE  SequencesOf(s, kind) \in Seq(Nat)
BY NumbersGathered, NumbersMeasured, GatherType

LEMMA NumbersConcat ==
  ASSUME NEW s \in Seq(Messages), NEW t \in Seq(Messages), NEW kind
  PROVE  SequencesOf(s \o t, kind) = SequencesOf(s, kind) \o SequencesOf(t, kind)
<1>1. s \o t \in Seq(Messages)
  BY ConcatProperties
<1>2. Gather(NumbersMeasure(kind), s \o t)
        = Gather(NumbersMeasure(kind), s) \o Gather(NumbersMeasure(kind), t)
  BY NumbersMeasured, GatherConcat
<1> QED
  BY <1>1, <1>2, NumbersGathered

LEMMA NumbersAppend ==
  ASSUME NEW s \in Seq(Messages), NEW m \in Messages, NEW kind
  PROVE  SequencesOf(Append(s, m), kind) = SequencesOf(s, kind) \o NumberOf(m, kind)
<1>1. Append(s, m) \in Seq(Messages)
  BY AppendProperties
<1>2. Gather(NumbersMeasure(kind), Append(s, m))
        = Gather(NumbersMeasure(kind), s) \o NumbersMeasure(kind)[m]
  BY NumbersMeasured, GatherAppend
<1>3. NumbersMeasure(kind)[m] = NumberOf(m, kind)
  BY DEF NumbersMeasure, NumberOf
<1> QED
  BY <1>1, <1>2, <1>3, NumbersGathered

LEMMA NumbersTail ==
  ASSUME NEW s \in Seq(Messages), s # <<>>, NEW kind
  PROVE  /\ Head(s) \in Messages /\ Tail(s) \in Seq(Messages)
         /\ SequencesOf(s, kind) = NumberOf(Head(s), kind) \o SequencesOf(Tail(s), kind)
<1>1. /\ Head(s) \in Messages /\ Tail(s) \in Seq(Messages)
      /\ Gather(NumbersMeasure(kind), s)
           = NumbersMeasure(kind)[Head(s)] \o Gather(NumbersMeasure(kind), Tail(s))
  BY NumbersMeasured, GatherTail
<1>2. NumbersMeasure(kind)[Head(s)] = NumberOf(Head(s), kind)
  BY <1>1 DEF NumbersMeasure, NumberOf
<1>3. SequencesOf(Tail(s), kind) = Gather(NumbersMeasure(kind), Tail(s))
  BY <1>1, NumbersGathered
<1> QED
  BY <1>1, <1>2, <1>3, NumbersGathered

LEMMA NoNumbers ==
  ASSUME NEW s \in Seq(Messages), NEW kind
  PROVE  SequencesOf(s, kind) = <<>> <=> \A i \in 1..Len(s) : s[i].kind # kind
<1>1. Gather(NumbersMeasure(kind), s) = <<>>
        <=> \A i \in 1..Len(s) : NumbersMeasure(kind)[s[i]] = <<>>
  BY NumbersMeasured, GatherNothing
<1>2. ASSUME NEW i \in 1..Len(s)
      PROVE  NumbersMeasure(kind)[s[i]] = <<>> <=> s[i].kind # kind
  <2>1. s[i] \in Messages
    BY ElementOfSeq
  <2>2. NumbersMeasure(kind)[s[i]] = IF s[i].kind = kind THEN <<s[i].sequence>> ELSE <<>>
    BY <2>1 DEF NumbersMeasure
  <2> QED
    BY <2>2
<1> QED
  BY <1>1, <1>2, NumbersGathered, Zenon

-----------------------------------------------------------------------------
(* The bridge.                                                             *)

DataMessages == {m \in Messages : m.kind = "data"}
AskMessages(b) ==
  {m \in Messages : m.kind = "snapshot" /\ m.units = <<>> /\ m.sequence \in Range(b.requests)}

\* Nothing has changed but what was sent, what is in flight for it, and flow control.
SameRest(b, p) ==
  /\ p.ready = b.ready /\ p.restore = b.restore /\ p.awaitingRestore = b.awaitingRestore
  /\ p.dropped = b.dropped

\* p is b after it has sent some packets of what waited.
DeliversBy(b, p, sent) ==
  /\ SameRest(b, p) /\ p.requests = b.requests
  /\ sent \in Seq(DataMessages)
  /\ p.toPage = b.toPage \o sent
  /\ p.inFlight = b.inFlight \o SequencesOf(sent, "data")
  /\ FlattenSeq(b.pending) = UnitsOf(sent) \o FlattenSeq(p.pending)
  /\ Full(b.pending) => Full(p.pending) /\ FullData(sent)
  /\ sent # <<>> => b.ready

Delivers(b, p) == \E sent : DeliversBy(b, p, sent)

\* p is b after it has asked for its snapshots, if it could.
AsksFor(b, p, asked) ==
  /\ SameRest(b, p) /\ p.pending = b.pending /\ p.inFlight = b.inFlight
  /\ asked \in Seq(AskMessages(b))
  /\ p.toPage = b.toPage \o asked
  /\ asked # <<>> => b.ready /\ ~b.awaitingRestore /\ b.pending = <<>> /\ b.inFlight = <<>>

Asks(b, p) == \E asked : AsksFor(b, p, asked)

LEMMA MessageSets ==
  ASSUME NEW n
  PROVE  /\ DataMessages \subseteq Messages /\ DataMessages \subseteq PageMessages(n)
         /\ PageMessages(n) \subseteq Messages /\ NativeMessages(n) \subseteq Messages
         /\ ParserMessages \subseteq Messages
BY DEF DataMessages, PageMessages, NativeMessages, ParserMessages

LEMMA MessageSequences ==
  ASSUME NEW n, NEW s
  PROVE  /\ s \in Seq(DataMessages) => s \in Seq(Messages) /\ s \in Seq(PageMessages(n))
         /\ s \in Seq(PageMessages(n)) => s \in Seq(Messages)
         /\ s \in Seq(NativeMessages(n)) => s \in Seq(Messages)
         /\ s \in Seq(ParserMessages) => s \in Seq(Messages)
BY MessageSets, SeqMonotonic

LEMMA PendingHead ==
  ASSUME NEW s \in Seq(Text), s # <<>>
  PROVE  /\ Head(s) \in Text /\ Tail(s) \in Seq(Text)
         /\ FlattenSeq(s) = Head(s) \o FlattenSeq(Tail(s))
         /\ FlattenSeq(s) \in Text /\ FlattenSeq(Tail(s)) \in Text
         /\ Len(FlattenSeq(s)) = Len(Head(s)) + Len(FlattenSeq(Tail(s)))
         /\ Len(Head(s)) \in Nat /\ Len(FlattenSeq(Tail(s))) \in Nat
         /\ Full(s) => Head(s) # <<>> /\ Full(Tail(s))
<1>1. /\ Head(s) \in Text /\ Tail(s) \in Seq(Text)
      /\ FlattenSeq(s) = Head(s) \o FlattenSeq(Tail(s))
  BY FlattenTail DEF Text
<1>2. FlattenSeq(s) \in Text /\ FlattenSeq(Tail(s)) \in Text
  BY <1>1, FlattenType DEF Text
<1>3. Len(FlattenSeq(s)) = Len(Head(s)) + Len(FlattenSeq(Tail(s)))
  BY <1>1, <1>2, ConcatProperties DEF Text
<1>4. Len(Head(s)) \in Nat /\ Len(FlattenSeq(Tail(s))) \in Nat
  BY <1>1, <1>2, LenProperties DEF Text
<1>5. Full(s) => Head(s) # <<>> /\ Full(Tail(s))
  <2>1. Len(s) \in Nat /\ Len(s) # 0 /\ DOMAIN s = 1..Len(s)
    BY EmptySeq, LenProperties
  <2>2. Head(s) = s[1] /\ DOMAIN Tail(s) = 1..(Len(s) - 1) /\ \A i \in 1..(Len(s) - 1) : Tail(s)[i] = s[i + 1]
    BY <2>1
  <2> QED
    BY <2>1, <2>2 DEF Full
<1> QED
  BY <1>1, <1>2, <1>3, <1>4, <1>5

LEMMA PostFields ==
  ASSUME NEW n \in Nat, NEW b, b \in Bridges(n)
  PROVE  /\ PostPacket(b).ready = b.ready /\ PostPacket(b).restore = b.restore
         /\ PostPacket(b).awaitingRestore = b.awaitingRestore
         /\ PostPacket(b).dropped = b.dropped /\ PostPacket(b).requests = b.requests
         /\ PostPacket(b).backpressured = b.backpressured
         /\ PostPacket(b).toPage = Append(b.toPage, Data(b.next, Head(b.pending)))
         /\ PostPacket(b).inFlight = Append(b.inFlight, b.next)
         /\ PostPacket(b).pending = Tail(b.pending)
         /\ PostPacket(b).pendingBytes = b.pendingBytes - Len(Head(b.pending))
BY DEF PostPacket, Bridges

Posted(b, toPage, next, pending, bytes, inFlight, inFlightBytes) ==
  [b EXCEPT !.toPage = toPage, !.next = next, !.pending = pending, !.pendingBytes = bytes,
            !.inFlight = inFlight, !.inFlightBytes = inFlightBytes]

LEMMA PostedType ==
  ASSUME NEW n \in Nat, NEW b, b \in Bridges(n), NEW tp, tp \in Seq(PageMessages(n)),
         NEW nx, nx \in Nat, NEW pe, pe \in Seq(Text), NEW pb, pb \in 0..MaxPending,
         NEW fl, fl \in Seq(Nat), NEW ib, ib \in Nat
  PROVE  Posted(b, tp, nx, pe, pb, fl, ib) \in Bridges(n)
BY DEF Posted, Bridges

LEMMA PostType ==
  ASSUME NEW n \in Nat, NEW b, BridgeOK(b, n), MayPost(b)
  PROVE  BridgeOK(PostPacket(b), n)
<1>1. /\ b \in Bridges(n) /\ b.pending \in Seq(Text) /\ b.pending # <<>> /\ b.next \in Nat
      /\ b.inFlight \in Seq(Nat) /\ b.inFlightBytes \in Nat /\ b.pendingBytes \in 0..MaxPending
      /\ b.toPage \in Seq(PageMessages(n)) /\ Len(b.inFlight) < MaxInFlight /\ b.restore = <<>>
      /\ b.pendingBytes = Len(FlattenSeq(b.pending))
  BY DEF BridgeOK, Bridges, MayPost
<1> DEFINE chunk == Head(b.pending)
<1>2. /\ chunk \in Text /\ Tail(b.pending) \in Seq(Text) /\ Len(chunk) \in Nat
      /\ Len(FlattenSeq(b.pending)) = Len(chunk) + Len(FlattenSeq(Tail(b.pending)))
      /\ Len(FlattenSeq(Tail(b.pending))) \in Nat
  BY <1>1, PendingHead
<1>3. Data(b.next, chunk) \in PageMessages(n)
  BY <1>1, <1>2 DEF Data, PageMessages, Messages, Kinds
<1>4. Append(b.toPage, Data(b.next, chunk)) \in Seq(PageMessages(n))
  BY <1>1, <1>3, AppendProperties
<1>5. Append(b.inFlight, b.next) \in Seq(Nat) /\ Len(Append(b.inFlight, b.next)) <= MaxInFlight
  BY <1>1, AppendProperties, LenProperties, LimitsAssumption
<1>6. /\ b.pendingBytes - Len(chunk) = Len(FlattenSeq(Tail(b.pending)))
      /\ b.pendingBytes - Len(chunk) \in 0..MaxPending
  <2>1. b.pendingBytes = Len(chunk) + Len(FlattenSeq(Tail(b.pending)))
    BY <1>1, <1>2, Zenon
  <2> HIDE DEF chunk
  <2> QED
    BY <1>1, <1>2, <2>1, LimitsAssumption
<1>7. (IF b.next >= MaxSequence THEN 1 ELSE b.next + 1) \in Nat
  BY <1>1
<1>8. PostPacket(b) \in Bridges(n)
  <2>1. PostPacket(b)
          = Posted(b, Append(b.toPage, Data(b.next, chunk)),
                   IF b.next >= MaxSequence THEN 1 ELSE b.next + 1, Tail(b.pending),
                   b.pendingBytes - Len(chunk), Append(b.inFlight, b.next),
                   b.inFlightBytes + Len(chunk))
    BY DEF PostPacket, Posted
  <2>2. b.inFlightBytes + Len(chunk) \in Nat
    BY <1>1, <1>2
  <2> HIDE DEF chunk
  <2> QED
    BY <1>1, <1>2, <1>4, <1>5, <1>6, <1>7, <2>1, <2>2, PostedType
<1>9. /\ PostPacket(b).pendingBytes = Len(FlattenSeq(PostPacket(b).pending))
      /\ PostPacket(b).inFlight = Append(b.inFlight, b.next)
      /\ PostPacket(b).restore = <<>>
  BY <1>1, <1>6, PostFields
<1> QED
  BY <1>5, <1>8, <1>9 DEF BridgeOK

LEMMA OneMessage ==
  ASSUME NEW m \in Messages, NEW kind
  PROVE  /\ <<m>> \in Seq(Messages) /\ UnitsOf(<<m>>) = m.units
         /\ SequencesOf(<<m>>, kind) = NumberOf(m, kind)
<1>1. <<m>> \in Seq(Messages)
  OBVIOUS
<1>2. Gather(UnitsMeasure, <<m>>) = UnitsMeasure[m]
  BY UnitsMeasured, GatherOne
<1>3. Gather(NumbersMeasure(kind), <<m>>) = NumbersMeasure(kind)[m]
  BY NumbersMeasured, GatherOne
<1>4. UnitsMeasure[m] = m.units /\ NumbersMeasure(kind)[m] = NumberOf(m, kind)
  BY DEF UnitsMeasure, NumbersMeasure, NumberOf
<1> QED
  BY <1>1, <1>2, <1>3, <1>4, UnitsGathered, NumbersGathered

LEMMA PostDelivers ==
  ASSUME NEW n \in Nat, NEW b, BridgeOK(b, n), MayPost(b)
  PROVE  Delivers(b, PostPacket(b))
<1>1. /\ b \in Bridges(n) /\ b.pending \in Seq(Text) /\ b.pending # <<>> /\ b.next \in Nat
      /\ b.inFlight \in Seq(Nat) /\ b.toPage \in Seq(PageMessages(n)) /\ b.ready
  BY DEF BridgeOK, Bridges, MayPost
<1> DEFINE chunk == Head(b.pending)
           d == Data(b.next, Head(b.pending))
<1>2. /\ chunk \in Text /\ Tail(b.pending) \in Seq(Text)
      /\ FlattenSeq(b.pending) = chunk \o FlattenSeq(Tail(b.pending))
      /\ Full(b.pending) => chunk # <<>> /\ Full(Tail(b.pending))
  BY <1>1, PendingHead
<1>3. d \in DataMessages /\ d.units = chunk /\ d.sequence = b.next /\ d.kind = "data"
  BY <1>1, <1>2 DEF Data, DataMessages, Messages, Kinds
<1> HIDE DEF d
<1>4. <<d>> \in Seq(DataMessages) /\ d \in Messages /\ d \in PageMessages(n)
  BY <1>3, MessageSets
<1>5. SequencesOf(<<d>>, "data") = <<b.next>> /\ UnitsOf(<<d>>) = chunk
  BY <1>3, <1>4, OneMessage DEF NumberOf
<1>6. /\ PostPacket(b).toPage = b.toPage \o <<d>>
      /\ PostPacket(b).inFlight = b.inFlight \o <<b.next>>
  BY <1>1, <1>4, PostFields, AppendIsConcat, ZenonT(40) DEF d
<1>7. chunk # <<>> => FullData(<<d>>)
  BY <1>3 DEF FullData
<1>8. SameRest(b, PostPacket(b)) /\ PostPacket(b).requests = b.requests
  BY <1>1, PostFields DEF SameRest
<1>9. PostPacket(b).pending = Tail(b.pending)
  BY <1>1, PostFields
<1>10. DeliversBy(b, PostPacket(b), <<d>>)
  BY <1>1, <1>2, <1>4, <1>5, <1>6, <1>7, <1>8, <1>9 DEF DeliversBy
<1> QED
  BY <1>10 DEF Delivers

LEMMA DeliversNothing ==
  ASSUME NEW n \in Nat, NEW b, NEW p, BridgeOK(b, n), BridgeOK(p, n), SameRest(b, p),
         p.requests = b.requests, p.toPage = b.toPage, p.inFlight = b.inFlight,
         p.pending = b.pending
  PROVE  Delivers(b, p)
<1>1. /\ b.pending \in Seq(Text) /\ b.inFlight \in Seq(Nat) /\ b.toPage \in Seq(PageMessages(n))
  BY DEF BridgeOK, Bridges
<1>2. /\ <<>> \in Seq(DataMessages) /\ b.toPage \o <<>> = b.toPage
      /\ b.inFlight \o <<>> = b.inFlight
  BY <1>1, EmptySeq, ConcatEmptySeq
<1>3. FlattenSeq(b.pending) = UnitsOf(<<>>) \o FlattenSeq(b.pending)
  BY <1>1, UnitsEmpty, FlattenType, ConcatEmptySeq DEF Text
<1>4. FullData(<<>>)
  BY DEF FullData
<1>5. DeliversBy(b, p, <<>>)
  BY <1>2, <1>3, <1>4, NumbersEmpty DEF DeliversBy
<1> QED
  BY <1>5 DEF Delivers

LEMMA FullConcat ==
  ASSUME NEW s \in Seq(Messages), NEW t \in Seq(Messages), FullData(s), FullData(t)
  PROVE  FullData(s \o t)
<1>1. /\ Len(s) \in Nat /\ Len(t) \in Nat /\ DOMAIN (s \o t) = 1..(Len(s) + Len(t))
      /\ \A i \in 1..(Len(s) + Len(t)) : (s \o t)[i] = IF i <= Len(s) THEN s[i] ELSE t[i - Len(s)]
      /\ DOMAIN s = 1..Len(s) /\ DOMAIN t = 1..Len(t)
  BY ConcatProperties, LenProperties
<1>2. ASSUME NEW i \in 1..(Len(s) + Len(t)), (s \o t)[i].kind = "data"
      PROVE  (s \o t)[i].units # <<>>
  <2>1. CASE i <= Len(s)
    BY <1>1, <1>2, <2>1 DEF FullData
  <2>2. CASE ~(i <= Len(s))
    <3>1. i - Len(s) \in 1..Len(t) /\ (s \o t)[i] = t[i - Len(s)]
      BY <1>1, <2>2
    <3> QED
      BY <1>1, <1>2, <3>1 DEF FullData
  <2> QED
    BY <2>1, <2>2
<1> QED
  BY <1>1, <1>2 DEF FullData

LEMMA TextAssoc ==
  ASSUME NEW s, NEW t, NEW u, s \in Text, t \in Text, u \in Text
  PROVE  (s \o t) \o u = s \o (t \o u) /\ s \o t \in Text
<1>1. (s \o t) \o u = s \o (t \o u)
  BY ConcatAssociative, SMTT(40) DEF Text
<1>2. s \o t \in Text
  BY ConcatProperties DEF Text
<1> QED
  BY <1>1, <1>2

LEMMA NumbersAssoc ==
  ASSUME NEW s, NEW t, NEW u, s \in Seq(Nat), t \in Seq(Nat), u \in Seq(Nat)
  PROVE  (s \o t) \o u = s \o (t \o u) /\ s \o t \in Seq(Nat)
<1>1. (s \o t) \o u = s \o (t \o u)
  BY ConcatAssociative, SMTT(40)
<1>2. s \o t \in Seq(Nat)
  BY ConcatProperties
<1> QED
  BY <1>1, <1>2

LEMMA NumbersGroup ==
  \A x, y, z \in Seq(Nat) : (x \o y) \o z = x \o (y \o z) /\ x \o y \in Seq(Nat)
<1> TAKE x, y, z \in Seq(Nat)
<1> QED
  BY NumbersAssoc

LEMMA TextGroup ==
  \A x, y, z \in Text : (x \o y) \o z = x \o (y \o z) /\ x \o y \in Text
<1> TAKE x, y, z \in Text
<1> QED
  BY TextAssoc

LEMMA DeliversTwice ==
  ASSUME NEW n \in Nat, NEW b, NEW q, NEW p, BridgeOK(b, n), BridgeOK(q, n), BridgeOK(p, n),
         Delivers(b, q), Delivers(q, p)
  PROVE  Delivers(b, p)
<1>1. PICK s : DeliversBy(b, q, s)
  BY DEF Delivers
<1>2. PICK t : DeliversBy(q, p, t)
  BY DEF Delivers
<1>3. /\ s \in Seq(DataMessages) /\ t \in Seq(DataMessages)
      /\ s \in Seq(Messages) /\ t \in Seq(Messages)
      /\ s \in Seq(PageMessages(n)) /\ t \in Seq(PageMessages(n))
      /\ b.toPage \in Seq(PageMessages(n)) /\ b.inFlight \in Seq(Nat) /\ p.pending \in Seq(Text)
      /\ b.pending \in Seq(Text)
  BY <1>1, <1>2, MessageSequences DEF DeliversBy, BridgeOK, Bridges
<1>4. s \o t \in Seq(DataMessages)
  BY <1>3, ConcatProperties
<1>5. p.toPage = b.toPage \o (s \o t)
  <2>1. \A x, y, z \in Seq(PageMessages(n)) : (x \o y) \o z = x \o (y \o z)
    BY ConcatAssoc, SMTT(40)
  <2>2. (b.toPage \o s) \o t = b.toPage \o (s \o t)
    BY <1>3, <2>1, Zenon
  <2> QED
    BY <1>1, <1>2, <2>2, Zenon DEF DeliversBy
<1>6. p.inFlight = b.inFlight \o SequencesOf(s \o t, "data")
  <2>1. /\ SequencesOf(s, "data") \in Seq(Nat) /\ SequencesOf(t, "data") \in Seq(Nat)
        /\ SequencesOf(s \o t, "data") = SequencesOf(s, "data") \o SequencesOf(t, "data")
    BY <1>3, NumbersType, NumbersConcat, SMTT(40)
  <2>2. p.inFlight = (b.inFlight \o SequencesOf(s, "data")) \o SequencesOf(t, "data")
    BY <1>1, <1>2 DEF DeliversBy
  <2>3. \A x, y, z \in Seq(Nat) : (x \o y) \o z = x \o (y \o z)
    BY NumbersGroup, Zenon
  <2>4. (b.inFlight \o SequencesOf(s, "data")) \o SequencesOf(t, "data")
          = b.inFlight \o (SequencesOf(s, "data") \o SequencesOf(t, "data"))
    BY <1>3, <2>1, <2>3, Zenon
  <2> QED
    BY <2>1, <2>2, <2>4, Zenon
<1>7. FlattenSeq(b.pending) = UnitsOf(s \o t) \o FlattenSeq(p.pending)
  <2>1. /\ UnitsOf(s) \in Text /\ UnitsOf(t) \in Text /\ FlattenSeq(p.pending) \in Text
        /\ UnitsOf(s \o t) = UnitsOf(s) \o UnitsOf(t)
    BY <1>3, UnitsType, UnitsConcat, FlattenType DEF Text
  <2>2. FlattenSeq(b.pending) = UnitsOf(s) \o (UnitsOf(t) \o FlattenSeq(p.pending))
    BY <1>1, <1>2 DEF DeliversBy
  <2>3. (UnitsOf(s) \o UnitsOf(t)) \o FlattenSeq(p.pending)
          = UnitsOf(s) \o (UnitsOf(t) \o FlattenSeq(p.pending))
    BY <2>1, ConcatAssoc DEF Text
  <2> QED
    BY <2>1, <2>2, <2>3, Zenon
<1>8. Full(b.pending) => Full(p.pending) /\ FullData(s \o t)
  BY <1>1, <1>2, <1>3, FullConcat DEF DeliversBy
<1>9. s \o t # <<>> => b.ready
  BY <1>1, <1>2, <1>3, ConcatEmptySeq DEF DeliversBy, SameRest
<1>10. SameRest(b, p) /\ p.requests = b.requests
  BY <1>1, <1>2 DEF DeliversBy, SameRest
<1>11. DeliversBy(b, p, s \o t)
  BY <1>4, <1>5, <1>6, <1>7, <1>8, <1>9, <1>10 DEF DeliversBy
<1> QED
  BY <1>11 DEF Delivers

Backed(b, flag) == [b EXCEPT !.backpressured = flag]

LEMMA BackedOK ==
  ASSUME NEW n \in Nat, NEW b, NEW flag, BridgeOK(b, n), flag \in BOOLEAN
  PROVE  /\ BridgeOK(Backed(b, flag), n) /\ Delivers(b, Backed(b, flag))
         /\ Backed(b, flag).ready = b.ready /\ Backed(b, flag).toPage = b.toPage
         /\ Backed(b, flag).pending = b.pending /\ Backed(b, flag).backpressured = flag
<1>1. b \in Bridges(n)
  BY DEF BridgeOK
<1>2. Backed(b, flag) \in Bridges(n)
  BY <1>1 DEF Backed, Bridges
<1>3. /\ SameRest(b, Backed(b, flag)) /\ Backed(b, flag).requests = b.requests
      /\ Backed(b, flag).toPage = b.toPage /\ Backed(b, flag).inFlight = b.inFlight
      /\ Backed(b, flag).pending = b.pending /\ Backed(b, flag).pendingBytes = b.pendingBytes
      /\ Backed(b, flag).ready = b.ready /\ Backed(b, flag).restore = b.restore
      /\ Backed(b, flag).backpressured = flag
  BY <1>1 DEF Backed, Bridges, SameRest
<1>4. BridgeOK(Backed(b, flag), n)
  BY <1>2, <1>3 DEF BridgeOK
<1> QED
  BY <1>3, <1>4, DeliversNothing

LEMMA UpdateOK ==
  ASSUME NEW n \in Nat, NEW b, BridgeOK(b, n)
  PROVE  /\ BridgeOK(UpdateBackpressure(b), n) /\ Delivers(b, UpdateBackpressure(b))
         /\ UpdateBackpressure(b).ready = b.ready /\ UpdateBackpressure(b).toPage = b.toPage
         /\ UpdateBackpressure(b).pending = b.pending
<1> DEFINE flag == IF b.backpressured THEN b.pendingBytes + b.inFlightBytes > LowWater
                   ELSE b.pendingBytes + b.inFlightBytes >= HighWater
<1>1. UpdateBackpressure(b) = Backed(b, flag)
  BY DEF UpdateBackpressure, Backed
<1>2. flag \in BOOLEAN
  <2>1. CASE b.backpressured
    BY <2>1
  <2>2. CASE ~b.backpressured
    BY <2>2
  <2> QED
    BY <2>1, <2>2
<1> HIDE DEF flag
<1> QED
  BY <1>1, <1>2, BackedOK

\* The recursive function of PumpPendingData, up to k packets.
Pumps(f, b, k) ==
  f = [i \in 0..k |->
         IF i = 0 THEN b ELSE IF MayPost(f[i - 1]) THEN PostPacket(f[i - 1]) ELSE f[i - 1]]

LEMMA PumpsExists ==
  ASSUME NEW b, NEW n \in Nat
  PROVE  \E f : Pumps(f, b, n)
<1> DEFINE T == {k \in Nat : \E f : Pumps(f, b, k)}
<1>1. 0 \in T
  <2>1. Pumps([i \in 0..0 |-> b], b, 0)
    BY DEF Pumps
  <2> QED
    BY <2>1
<1>2. ASSUME NEW k \in T PROVE k + 1 \in T
  <2>1. PICK f : Pumps(f, b, k)
    OBVIOUS
  <2> DEFINE Step(x) == IF MayPost(x) THEN PostPacket(x) ELSE x
             g == [i \in 0..(k + 1) |-> IF i <= k THEN f[i] ELSE Step(f[i - 1])]
  <2>2. \A i \in 0..k : f[i] = IF i = 0 THEN b ELSE Step(f[i - 1])
    BY <2>1 DEF Pumps
  <2>3. ASSUME NEW i \in 0..(k + 1)
        PROVE  g[i] = IF i = 0 THEN b ELSE Step(g[i - 1])
    <3> HIDE DEF Step
    <3>1. CASE i <= k
      <4>1. g[i] = f[i] /\ i \in 0..k
        BY <3>1
      <4>2. i # 0 => i - 1 \in 0..(k + 1) /\ i - 1 <= k
        BY <3>1
      <4>3. i # 0 => g[i - 1] = f[i - 1]
        BY <4>2
      <4> HIDE DEF g
      <4> QED
        BY <4>1, <4>3, <2>2
    <3>2. CASE ~(i <= k)
      <4>1. i # 0 /\ i - 1 \in 0..(k + 1) /\ i - 1 <= k
        BY <3>2
      <4>2. g[i - 1] = f[i - 1]
        BY <4>1
      <4>3. g[i] = Step(f[i - 1])
        BY <3>2
      <4> HIDE DEF g
      <4> QED
        BY <4>1, <4>2, <4>3
    <3> QED
      BY <3>1, <3>2
  <2>4. g = [i \in 0..(k + 1) |-> g[i]]
    OBVIOUS
  <2>5. Pumps(g, b, k + 1)
    <3> HIDE DEF g
    <3> QED
      BY <2>3, <2>4 DEF Pumps
  <2> QED
    BY <2>5
<1>3. T = Nat
  <2> HIDE DEF T
  <2>1. T \subseteq Nat
    BY DEF T
  <2> QED
    BY <1>1, <1>2, <2>1, NatBySet
<1> QED
  BY <1>3

LEMMA PumpsDeliver ==
  ASSUME NEW n \in Nat, NEW b, NEW f, NEW m \in Nat, BridgeOK(b, n), Pumps(f, b, m)
  PROVE  \A k \in 0..m : BridgeOK(f[k], n) /\ Delivers(b, f[k])
<1> DEFINE T == {k \in Nat : k <= m => BridgeOK(f[k], n) /\ Delivers(b, f[k])}
<1>1. \A i \in 0..m : f[i] = IF i = 0 THEN b
                             ELSE IF MayPost(f[i - 1]) THEN PostPacket(f[i - 1]) ELSE f[i - 1]
  BY DEF Pumps
<1>2. 0 \in T
  <2>1. f[0] = b
    BY <1>1
  <2>2. Delivers(b, b)
    BY DeliversNothing DEF SameRest
  <2> QED
    BY <2>1, <2>2
<1>3. ASSUME NEW k \in T PROVE k + 1 \in T
  <2>1. CASE k + 1 <= m
    <3>1. k <= m /\ k + 1 \in 0..m /\ (k + 1) - 1 = k /\ k + 1 # 0
      BY <2>1
    <3>2. BridgeOK(f[k], n) /\ Delivers(b, f[k])
      BY <3>1
    <3>3. f[k + 1] = IF MayPost(f[k]) THEN PostPacket(f[k]) ELSE f[k]
      BY <1>1, <3>1
    <3>4. CASE MayPost(f[k])
      <4>1. BridgeOK(PostPacket(f[k]), n) /\ Delivers(f[k], PostPacket(f[k]))
        BY <3>2, <3>4, PostType, PostDelivers
      <4>2. BridgeOK(f[k + 1], n) /\ Delivers(b, f[k + 1])
        BY <3>2, <3>3, <3>4, <4>1, DeliversTwice
      <4> QED
        BY <4>2
    <3>5. CASE ~MayPost(f[k])
      <4>1. f[k + 1] = f[k]
        BY <3>3, <3>5, Zenon
      <4> QED
        BY <3>2, <4>1
    <3> QED
      BY <3>4, <3>5
  <2>2. CASE ~(k + 1 <= m)
    BY <2>2
  <2> QED
    BY <2>1, <2>2
<1>4. T = Nat
  <2>1. T \subseteq Nat
    OBVIOUS
  <2> HIDE DEF T
  <2> QED
    BY <1>2, <1>3, <2>1, NatBySet
<1> QED
  BY <1>4

LEMMA PumpOK ==
  ASSUME NEW n \in Nat, NEW b, BridgeOK(b, n)
  PROVE  BridgeOK(PumpPendingData(b), n) /\ Delivers(b, PumpPendingData(b))
<1> DEFINE f == CHOOSE f : f = [i \in 0..MaxInFlight |->
                   IF i = 0 THEN b ELSE IF MayPost(f[i - 1]) THEN PostPacket(f[i - 1]) ELSE f[i - 1]]
<1>1. MaxInFlight \in Nat
  BY LimitsAssumption
<1>2. Pumps(f, b, MaxInFlight)
  <2>1. \E g : g = [i \in 0..MaxInFlight |->
                   IF i = 0 THEN b ELSE IF MayPost(g[i - 1]) THEN PostPacket(g[i - 1]) ELSE g[i - 1]]
    BY <1>1, PumpsExists, ZenonT(40) DEF Pumps
  <2> QED
    BY <2>1, Zenon DEF Pumps
<1>3. PumpPendingData(b) = IF b.ready THEN UpdateBackpressure(f[MaxInFlight]) ELSE b
  BY DEF PumpPendingData
<1> HIDE DEF f
<1>4. BridgeOK(f[MaxInFlight], n) /\ Delivers(b, f[MaxInFlight])
  BY <1>1, <1>2, PumpsDeliver
<1>5. Delivers(b, b)
  BY DeliversNothing DEF SameRest
<1>6. /\ BridgeOK(UpdateBackpressure(f[MaxInFlight]), n)
      /\ Delivers(b, UpdateBackpressure(f[MaxInFlight]))
  BY <1>4, UpdateOK, DeliversTwice
<1> QED
  BY <1>3, <1>5, <1>6

-----------------------------------------------------------------------------
(* What sending packets and asking for snapshots keep of a page.           *)

LEMMA BridgeTypes ==
  ASSUME NEW n \in Nat, NEW b, BridgeOK(b, n)
  PROVE  /\ b \in Bridges(n) /\ b.pending \in Seq(Text) /\ b.inFlight \in Seq(Nat)
         /\ b.toPage \in Seq(PageMessages(n)) /\ b.toPage \in Seq(Messages) /\ b.restore \in Text
         /\ b.requests \in Seq(1..n) /\ b.dropped \subseteq Unit
         /\ b.awaitingRestore \in BOOLEAN /\ b.ready \in BOOLEAN
         /\ UnitsOf(b.toPage) \in Text /\ FlattenSeq(b.pending) \in Text
         /\ \A kind : SequencesOf(b.toPage, kind) \in Seq(Nat)
<1>1. /\ b \in Bridges(n) /\ b.pending \in Seq(Text) /\ b.inFlight \in Seq(Nat)
      /\ b.toPage \in Seq(PageMessages(n)) /\ b.restore \in Text
      /\ b.requests \in Seq(1..n) /\ b.dropped \subseteq Unit
      /\ b.awaitingRestore \in BOOLEAN /\ b.ready \in BOOLEAN
  BY DEF BridgeOK, Bridges
<1>2. b.toPage \in Seq(Messages)
  BY <1>1, MessageSequences
<1>3. UnitsOf(b.toPage) \in Text /\ \A kind : SequencesOf(b.toPage, kind) \in Seq(Nat)
  BY <1>2, UnitsType, NumbersType
<1>4. FlattenSeq(b.pending) \in Text
  BY <1>1, FlattenType DEF Text
<1> QED
  BY <1>1, <1>2, <1>3, <1>4

\* Where an equation of sequences is only to be rewritten.
Cat(s, t) == s \o t

LEMMA CatNumbers ==
  ASSUME NEW s, NEW t, NEW u, s \in Seq(Nat), t \in Seq(Nat), u \in Seq(Nat)
  PROVE  Cat(Cat(s, t), u) = Cat(s, Cat(t, u)) /\ Cat(s, t) \in Seq(Nat)
BY NumbersAssoc, Zenon DEF Cat

LEMMA CatText ==
  ASSUME NEW s, NEW t, NEW u, s \in Text, t \in Text, u \in Text
  PROVE  Cat(Cat(s, t), u) = Cat(s, Cat(t, u)) /\ Cat(s, t) \in Text
BY TextAssoc, Zenon DEF Cat

LEMMA FourNumbers ==
  ASSUME NEW a, NEW b, NEW c, NEW d,
         a \in Seq(Nat), b \in Seq(Nat), c \in Seq(Nat), d \in Seq(Nat)
  PROVE  Cat(Cat(a, Cat(b, c)), d) = Cat(Cat(a, b), Cat(c, d))
BY CatNumbers

LEMMA LineType ==
  ASSUME NEW n \in Nat, NEW b, BridgeOK(b, n)
  PROVE  Line(b) \in Text
<1>1. UnitsOf(b.toPage) \in Text /\ b.restore \in Text /\ FlattenSeq(b.pending) \in Text
  BY BridgeTypes
<1> QED
  BY <1>1, TextAssoc DEF Line

LEMMA TextEmpty ==
  ASSUME NEW s, s \in Text
  PROVE  s \o <<>> = s /\ <<>> \o s = s
BY ConcatEmptySeq DEF Text

LEMMA Regroup ==
  ASSUME NEW a, NEW b, NEW c, a \in Text, b \in Text, c \in Text
  PROVE  ((a \o b) \o <<>>) \o c = (a \o <<>>) \o (b \o c)
<1>1. (a \o b) \o <<>> = a \o b /\ a \o <<>> = a
  BY TextAssoc, TextEmpty
<1>2. (a \o b) \o c = a \o (b \o c)
  BY TextAssoc
<1> QED
  BY <1>1, <1>2, Zenon

LEMMA DeliversLine ==
  ASSUME NEW n \in Nat, NEW b, NEW p, BridgeOK(b, n), BridgeOK(p, n), Delivers(b, p)
  PROVE  Line(p) = Line(b)
<1>1. PICK sent : DeliversBy(b, p, sent)
  BY DEF Delivers
<1>2. /\ sent \in Seq(Messages) /\ p.toPage = b.toPage \o sent /\ p.restore = b.restore
      /\ FlattenSeq(b.pending) = UnitsOf(sent) \o FlattenSeq(p.pending)
      /\ sent # <<>> => b.ready
  BY <1>1, MessageSequences DEF DeliversBy, SameRest
<1>3. b.toPage \in Seq(Messages) /\ UnitsOf(b.toPage) \in Text /\ FlattenSeq(p.pending) \in Text
  BY BridgeTypes
<1>4. UnitsOf(sent) \in Text /\ UnitsOf(p.toPage) = UnitsOf(b.toPage) \o UnitsOf(sent)
  BY <1>2, <1>3, UnitsType, UnitsConcat
<1>5. CASE sent = <<>>
  <2>1. UnitsOf(p.toPage) = UnitsOf(b.toPage) /\ FlattenSeq(b.pending) = FlattenSeq(p.pending)
    BY <1>2, <1>3, <1>4, <1>5, UnitsEmpty, TextEmpty, Zenon
  <2> QED
    BY <1>2, <2>1 DEF Line
<1>6. CASE sent # <<>>
  <2>1. p.restore = <<>> /\ b.restore = <<>>
    BY <1>2, <1>6 DEF BridgeOK
  <2>2. ((UnitsOf(b.toPage) \o UnitsOf(sent)) \o <<>>) \o FlattenSeq(p.pending)
          = (UnitsOf(b.toPage) \o <<>>) \o (UnitsOf(sent) \o FlattenSeq(p.pending))
    BY <1>3, <1>4, Regroup, SMTT(40)
  <2>3. Line(p) = ((UnitsOf(b.toPage) \o UnitsOf(sent)) \o <<>>) \o FlattenSeq(p.pending)
    BY <1>4, <2>1, Zenon DEF Line
  <2>4. Line(b) = (UnitsOf(b.toPage) \o <<>>) \o (UnitsOf(sent) \o FlattenSeq(p.pending))
    BY <1>2, <2>1, Zenon DEF Line
  <2> QED
    BY <2>2, <2>3, <2>4, Zenon
<1> QED
  BY <1>5, <1>6

LEMMA DataHasNo ==
  ASSUME NEW s \in Seq(DataMessages), NEW kind, kind # "data"
  PROVE  SequencesOf(s, kind) = <<>>
<1>1. s \in Seq(Messages)
  BY MessageSequences
<1>2. \A i \in 1..Len(s) : s[i].kind # kind
  BY ElementOfSeq DEF DataMessages
<1> QED
  BY <1>1, <1>2, NoNumbers

LEMMA DeliversAcks ==
  ASSUME NEW n \in Nat, NEW b, NEW p, BridgeOK(b, n), BridgeOK(p, n), Delivers(b, p),
         NEW acks \in Seq(Nat), AcksOK(b, acks)
  PROVE  AcksOK(p, acks)
<1>1. PICK sent : DeliversBy(b, p, sent)
  BY DEF Delivers
<1> DEFINE old == SequencesOf(b.toPage, "data")
           new == SequencesOf(sent, "data")
<1>2. /\ sent \in Seq(Messages) /\ b.toPage \in Seq(Messages) /\ b.inFlight \in Seq(Nat)
      /\ p.toPage = b.toPage \o sent /\ p.inFlight = b.inFlight \o new
  BY <1>1, MessageSequences, BridgeTypes DEF DeliversBy
<1>3. old \in Seq(Nat) /\ new \in Seq(Nat) /\ SequencesOf(p.toPage, "data") = old \o new
  BY <1>2, NumbersType, NumbersConcat
<1>4. Len(acks) + Len(SequencesOf(p.toPage, "data")) <= Len(p.inFlight)
  <2>1. Len(acks) + Len(old) <= Len(b.inFlight)
    BY DEF AcksOK
  <2>2. /\ Len(old \o new) = Len(old) + Len(new)
        /\ Len(b.inFlight \o new) = Len(b.inFlight) + Len(new)
    BY <1>2, <1>3, ConcatProperties
  <2>3. Len(acks) \in Nat /\ Len(old) \in Nat /\ Len(new) \in Nat /\ Len(b.inFlight) \in Nat
    BY <1>2, <1>3, LenProperties
  <2>4. /\ Len(SequencesOf(p.toPage, "data")) = Len(old) + Len(new)
        /\ Len(p.inFlight) = Len(b.inFlight) + Len(new)
    BY <1>2, <1>3, <2>2, Zenon
  <2> HIDE DEF old, new
  <2> QED
    BY <2>1, <2>3, <2>4
<1>5. ASSUME ~EmptyTexts
      PROVE  p.inFlight = acks \o SequencesOf(p.toPage, "data")
  <2>1. b.inFlight = acks \o old
    BY <1>5 DEF AcksOK
  <2> HIDE DEF old, new
  <2>2. (acks \o old) \o new = acks \o (old \o new)
    BY <1>3, NumbersGroup, ZenonT(40)
  <2> QED
    BY <1>2, <1>3, <2>1, <2>2, Zenon
<1>6. ASSUME ~EmptyTexts
      PROVE  Full(p.pending) /\ FullData(p.toPage)
  <2>1. Full(b.pending) /\ FullData(b.toPage)
    BY <1>6 DEF AcksOK
  <2>2. Full(p.pending) /\ FullData(sent)
    BY <1>1, <2>1 DEF DeliversBy
  <2>3. FullData(b.toPage \o sent)
    BY <1>2, <2>1, <2>2, FullConcat
  <2> QED
    BY <1>2, <2>2, <2>3
<1> QED
  BY <1>4, <1>5, <1>6 DEF AcksOK

LEMMA DeliversRestores ==
  ASSUME NEW n \in Nat, NEW b, NEW p, BridgeOK(b, n), BridgeOK(p, n), Delivers(b, p),
         NEW restores \in Seq(Nat), RestoresOK(b, restores)
  PROVE  RestoresOK(p, restores)
<1>1. PICK sent : DeliversBy(b, p, sent)
  BY DEF Delivers
<1>2. /\ sent \in Seq(DataMessages) /\ sent \in Seq(Messages) /\ b.toPage \in Seq(Messages)
      /\ p.toPage = b.toPage \o sent
  BY <1>1, MessageSequences, BridgeTypes DEF DeliversBy
<1>3. SequencesOf(sent, "restore") = <<>>
  BY <1>2, DataHasNo
<1>4. SequencesOf(b.toPage, "restore") \o <<>> = SequencesOf(b.toPage, "restore")
  BY <1>2, NumbersType, ConcatEmptySeq
<1>5. SequencesOf(p.toPage, "restore") = SequencesOf(b.toPage, "restore")
  <2>1. SequencesOf(b.toPage \o sent, "restore")
          = SequencesOf(b.toPage, "restore") \o SequencesOf(sent, "restore")
    BY <1>2, NumbersConcat
  <2> QED
    BY <1>2, <1>3, <1>4, <2>1, Zenon
<1>6. p.restore = b.restore /\ p.awaitingRestore = b.awaitingRestore
  BY <1>1 DEF DeliversBy, SameRest
<1> QED
  BY <1>5, <1>6 DEF RestoresOK

LEMMA ConcatMember ==
  ASSUME NEW S, NEW s, NEW t, NEW i, s \in Seq(S), t \in Seq(S), i \in DOMAIN (s \o t)
  PROVE  \/ i \in DOMAIN s /\ (s \o t)[i] = s[i]
         \/ \E j \in DOMAIN t : (s \o t)[i] = t[j]
<1>1. /\ Len(s) \in Nat /\ Len(t) \in Nat /\ DOMAIN (s \o t) = 1..(Len(s) + Len(t))
      /\ (s \o t)[i] = IF i <= Len(s) THEN s[i] ELSE t[i - Len(s)]
      /\ DOMAIN s = 1..Len(s) /\ DOMAIN t = 1..Len(t) /\ i \in 1..(Len(s) + Len(t))
  BY ConcatProperties, LenProperties
<1>2. CASE i <= Len(s)
  BY <1>1, <1>2
<1>3. CASE ~(i <= Len(s))
  <2>1. i - Len(s) \in DOMAIN t /\ (s \o t)[i] = t[i - Len(s)]
    BY <1>1, <1>3
  <2> QED
    BY <2>1
<1> QED
  BY <1>2, <1>3

LEMMA DeliversAsked ==
  ASSUME NEW n \in Nat, NEW b, NEW p, BridgeOK(b, n), BridgeOK(p, n), Delivers(b, p),
         NEW sc, NEW left, NEW ms, AskedOK(b, sc, left, ms)
  PROVE  AskedOK(p, sc, left, ms)
<1>1. PICK sent : DeliversBy(b, p, sent)
  BY DEF Delivers
<1>2. /\ sent \in Seq(DataMessages) /\ sent \in Seq(Messages) /\ b.toPage \in Seq(Messages)
      /\ p.toPage = b.toPage \o sent /\ p.dropped = b.dropped
  BY <1>1, MessageSequences, BridgeTypes DEF DeliversBy, SameRest
<1>3. \A j \in DOMAIN sent : sent[j].kind # "snapshot"
  <2>1. DOMAIN sent = 1..Len(sent)
    BY <1>2, LenProperties
  <2> QED
    BY <1>2, <2>1, ElementOfSeq DEF DataMessages
<1>4. ASSUME NEW i \in DOMAIN p.toPage, p.toPage[i].kind = "snapshot"
      PROVE  Holds(sc, ms[p.toPage[i].sequence], left \cup p.dropped)
  <2>1. \/ i \in DOMAIN b.toPage /\ p.toPage[i] = b.toPage[i]
        \/ \E j \in DOMAIN sent : p.toPage[i] = sent[j]
    <3>1. i \in DOMAIN (b.toPage \o sent)
      BY <1>2, <1>4, Zenon
    <3>2. \/ i \in DOMAIN b.toPage /\ (b.toPage \o sent)[i] = b.toPage[i]
          \/ \E j \in DOMAIN sent : (b.toPage \o sent)[i] = sent[j]
      BY <1>2, <3>1, ConcatMember
    <3> QED
      BY <1>2, <3>2, Zenon
  <2>2. i \in DOMAIN b.toPage /\ p.toPage[i] = b.toPage[i]
    BY <1>3, <1>4, <2>1
  <2> QED
    BY <1>2, <1>4, <2>2 DEF AskedOK
<1> QED
  BY <1>4 DEF AskedOK

LEMMA PageTypes ==
  ASSUME NEW b, NEW na, NEW pa, NEW sc, NEW w, NEW u, NEW left, NEW ms,
         PageInv(b, na, pa, sc, w, u, left, ms)
  PROVE  /\ Len(ms) \in Nat /\ DOMAIN ms = 1..Len(ms) /\ BridgeOK(b, Len(ms))
         /\ na \in Seq(Messages) /\ pa \in Seq(Messages) /\ pa \in Seq(ParserMessages)
         /\ sc \in Text /\ w \in Text /\ UnitsOf(pa) \in Text /\ sc \o UnitsOf(pa) \in Text
         /\ (sc \o UnitsOf(pa)) \o Line(b) \in Text
         /\ ((sc \o UnitsOf(pa)) \o Line(b)) \o w \in Text
         /\ Acks(na, pa) \in Seq(Nat) /\ Restores(na, pa) \in Seq(Nat)
<1>1. /\ BridgeOK(b, Len(ms)) /\ na \in Seq(Messages) /\ pa \in Seq(ParserMessages)
      /\ sc \in Text /\ w \in Text /\ ms \in Seq(Nat)
  BY DEF PageInv
<1>2. pa \in Seq(Messages) /\ Len(ms) \in Nat /\ DOMAIN ms = 1..Len(ms)
  BY <1>1, MessageSequences, LenProperties
<1>3. UnitsOf(pa) \in Text /\ sc \o UnitsOf(pa) \in Text /\ Line(b) \in Text
  BY <1>1, <1>2, UnitsType, TextAssoc, LineType
<1>4. /\ SequencesOf(na, "ack") \in Seq(Nat) /\ SequencesOf(pa, "data") \in Seq(Nat)
      /\ SequencesOf(na, "restored") \in Seq(Nat) /\ SequencesOf(pa, "restore") \in Seq(Nat)
  BY <1>1, <1>2, NumbersType
<1>5. Acks(na, pa) \in Seq(Nat) /\ Restores(na, pa) \in Seq(Nat)
  BY <1>4, NumbersAssoc DEF Acks, Restores
<1>6. (sc \o UnitsOf(pa)) \o Line(b) \in Text /\ ((sc \o UnitsOf(pa)) \o Line(b)) \o w \in Text
  BY <1>1, <1>3, TextAssoc
<1> QED
  BY <1>1, <1>2, <1>3, <1>5, <1>6

LEMMA DeliversPage ==
  ASSUME NEW b, NEW na, NEW pa, NEW sc, NEW w, NEW u, NEW left, NEW ms, NEW p,
         PageInv(b, na, pa, sc, w, u, left, ms), BridgeOK(p, Len(ms)), Delivers(b, p)
  PROVE  PageInv(p, na, pa, sc, w, u, left, ms)
<1>1. /\ Len(ms) \in Nat /\ BridgeOK(b, Len(ms))
      /\ Acks(na, pa) \in Seq(Nat) /\ Restores(na, pa) \in Seq(Nat)
  BY PageTypes
<1>2. AcksOK(p, Acks(na, pa))
  BY <1>1, DeliversAcks DEF PageInv
<1>3. RestoresOK(p, Restores(na, pa))
  BY <1>1, DeliversRestores DEF PageInv
<1>4. AskedOK(p, sc, left, ms)
  BY <1>1, DeliversAsked DEF PageInv
<1>5. Line(p) = Line(b) /\ p.dropped = b.dropped
  BY <1>1, DeliversLine DEF Delivers, DeliversBy, SameRest
<1> QED
  BY <1>2, <1>3, <1>4, <1>5 DEF PageInv

-----------------------------------------------------------------------------
(* PumpSnapshotRequests.                                                   *)

\* Nothing is under way in the bridge: it asks for its snapshots.
Idle(b) == b.ready /\ ~b.awaitingRestore /\ b.pending = <<>> /\ b.inFlight = <<>>

Asked(b) == [i \in DOMAIN b.requests |-> SnapshotRequest(b.requests[i])]

Asking(b, toPage) == [b EXCEPT !.toPage = toPage, !.requests = <<>>]

LEMMA AskedTypes ==
  ASSUME NEW n \in Nat, NEW b, BridgeOK(b, n)
  PROVE  /\ Asked(b) \in Seq(PageMessages(n)) /\ Asked(b) \in Seq(Messages)
         /\ DOMAIN Asked(b) = 1..Len(Asked(b)) /\ Len(Asked(b)) \in Nat
         /\ \A i \in DOMAIN Asked(b) :
              /\ Asked(b)[i].kind = "snapshot" /\ Asked(b)[i].units = <<>>
              /\ Asked(b)[i].sequence \in 1..n
<1>1. b.requests \in Seq(1..n) /\ DOMAIN b.requests = 1..Len(b.requests) /\ Len(b.requests) \in Nat
  BY BridgeTypes, LenProperties
<1>2. ASSUME NEW i \in 1..Len(b.requests)
      PROVE  /\ SnapshotRequest(b.requests[i]) \in PageMessages(n)
             /\ SnapshotRequest(b.requests[i]).kind = "snapshot"
             /\ SnapshotRequest(b.requests[i]).units = <<>>
             /\ SnapshotRequest(b.requests[i]).sequence \in 1..n
  <2>1. b.requests[i] \in 1..n
    BY <1>1, ElementOfSeq
  <2>2. <<>> \in Text
    BY EmptySeq DEF Text
  <2> QED
    BY <2>1, <2>2 DEF SnapshotRequest, PageMessages, Messages, Kinds
<1>3. Asked(b) = [i \in 1..Len(b.requests) |-> SnapshotRequest(b.requests[i])]
  BY <1>1 DEF Asked
<1>4. /\ Asked(b) \in [1..Len(b.requests) -> PageMessages(n)]
      /\ \A i \in 1..Len(b.requests) : Asked(b)[i] = SnapshotRequest(b.requests[i])
  BY <1>2, <1>3
<1>5. Asked(b) \in Seq(PageMessages(n)) /\ Len(Asked(b)) = Len(b.requests)
  BY <1>1, <1>4, FunctionIsSeq
<1>6. Asked(b) \in Seq(Messages) /\ DOMAIN Asked(b) = 1..Len(Asked(b))
  BY <1>1, <1>4, <1>5, MessageSequences
<1> QED
  BY <1>1, <1>2, <1>4, <1>5, <1>6

LEMMA UnitNat == Unit \subseteq Nat
BY LimitsAssumption DEF Unit

LEMMA RangeConcat ==
  ASSUME NEW s, NEW t, s \in Text, t \in Text
  PROVE  Range(s \o t) = Range(s) \cup Range(t)
BY RangeConcatenation DEF Text

LEMMA ConcatNothing ==
  ASSUME NEW s, NEW t, s \in Seq(Nat), t \in Seq(Nat), s \o t = <<>>
  PROVE  s = <<>> /\ t = <<>>
<1>1. /\ Len(s) \in Nat /\ Len(t) \in Nat /\ Len(s \o t) = Len(s) + Len(t) /\ Len(s \o t) = 0
      /\ s = <<>> <=> Len(s) = 0
      /\ t = <<>> <=> Len(t) = 0
  BY ConcatProperties, LenProperties, EmptySeq
<1>2. Len(s) = 0 /\ Len(t) = 0
  BY <1>1
<1>3. s = <<>>
  BY <1>2, EmptySeq
<1>4. t = <<>>
  BY <1>2, EmptySeq
<1> QED
  BY <1>3, <1>4

\* Nothing that has come is under way: the screen has it all.
LEMMA IdleFront ==
  ASSUME NEW b, NEW na, NEW pa, NEW sc, NEW w, NEW u, NEW left, NEW ms,
         PageInv(b, na, pa, sc, w, u, left, ms), Idle(b)
  PROVE  (sc \o UnitsOf(pa)) \o Line(b) = sc
<1>1. /\ Len(ms) \in Nat /\ BridgeOK(b, Len(ms)) /\ sc \in Text
      /\ na \in Seq(Messages) /\ pa \in Seq(Messages) /\ pa \in Seq(ParserMessages)
      /\ b.toPage \in Seq(PageMessages(Len(ms))) /\ b.toPage \in Seq(Messages)
      /\ Acks(na, pa) \in Seq(Nat) /\ Restores(na, pa) \in Seq(Nat)
  BY PageTypes, BridgeTypes
<1>2. /\ SequencesOf(na, "ack") \in Seq(Nat) /\ SequencesOf(pa, "data") \in Seq(Nat)
      /\ SequencesOf(na, "restored") \in Seq(Nat) /\ SequencesOf(pa, "restore") \in Seq(Nat)
      /\ SequencesOf(b.toPage, "data") \in Seq(Nat) /\ SequencesOf(b.toPage, "restore") \in Seq(Nat)
  BY <1>1, NumbersType
<1>3. /\ b.inFlight = <<>> /\ b.pending = <<>> /\ b.ready /\ ~b.awaitingRestore /\ b.restore = <<>>
  BY <1>1 DEF Idle, BridgeOK
<1>4. Acks(na, pa) = <<>> /\ SequencesOf(b.toPage, "data") = <<>>
  <2>1. Len(Acks(na, pa)) + Len(SequencesOf(b.toPage, "data")) <= 0
    BY <1>3, EmptySeq DEF PageInv, AcksOK
  <2>2. Len(Acks(na, pa)) \in Nat /\ Len(SequencesOf(b.toPage, "data")) \in Nat
    BY <1>1, <1>2, LenProperties
  <2>3. Len(Acks(na, pa)) = 0 /\ Len(SequencesOf(b.toPage, "data")) = 0
    BY <2>1, <2>2
  <2> QED
    BY <1>1, <1>2, <2>3, EmptySeq
<1>5. SequencesOf(pa, "data") = <<>>
  BY <1>2, <1>4, ConcatNothing DEF Acks
<1>6. Restores(na, pa) = <<>> /\ SequencesOf(b.toPage, "restore") = <<>>
  <2>1. Restores(na, pa) \o SequencesOf(b.toPage, "restore") = <<>>
    BY <1>3, Zenon DEF PageInv, RestoresOK
  <2> QED
    BY <1>1, <1>2, <2>1, ConcatNothing
<1>7. SequencesOf(pa, "restore") = <<>>
  BY <1>2, <1>6, ConcatNothing DEF Restores
<1>8. UnitsOf(pa) = <<>>
  <2>1. \A i \in 1..Len(pa) : pa[i].kind # "data" /\ pa[i].kind # "restore"
    BY <1>1, <1>5, <1>7, NoNumbers
  <2>2. \A i \in 1..Len(pa) : pa[i].units = <<>>
    BY <1>1, <2>1, ElementOfSeq DEF ParserMessages
  <2> QED
    BY <1>1, <2>2, NoUnits
<1>9. UnitsOf(b.toPage) = <<>>
  <2>1. \A i \in 1..Len(b.toPage) : b.toPage[i].kind # "data" /\ b.toPage[i].kind # "restore"
    BY <1>1, <1>4, <1>6, NoNumbers
  <2>2. \A i \in 1..Len(b.toPage) : b.toPage[i].units = <<>>
    <3>1. \A i \in 1..Len(b.toPage) : b.toPage[i] \in PageMessages(Len(ms))
      BY <1>1, ElementOfSeq
    <3> QED
      BY <2>1, <3>1 DEF PageMessages
  <2> QED
    BY <1>1, <2>2, NoUnits
<1>10. <<>> \in Text /\ FlattenSeq(b.pending) = <<>>
  BY <1>3, FlattenEmpty, EmptySeq DEF Text
<1>11. <<>> \o <<>> = <<>> /\ sc \o <<>> = sc
  BY <1>1, <1>10, TextEmpty
<1>12. Line(b) = <<>>
  BY <1>3, <1>9, <1>10, <1>11, Zenon DEF Line
<1> QED
  BY <1>8, <1>11, <1>12, Zenon

LEMMA IdleHolds ==
  ASSUME NEW b, NEW na, NEW pa, NEW sc, NEW w, NEW u, NEW left, NEW ms,
         PageInv(b, na, pa, sc, w, u, left, ms), Idle(b)
  PROVE  \A r \in 1..Len(ms) : Holds(sc, ms[r], left \cup b.dropped)
<1>1. sc \in Text /\ w \in Text /\ DOMAIN ms = 1..Len(ms) /\ u \in Nat /\ ms \in Seq(Nat)
  BY PageTypes DEF PageInv
<1>2. Range(sc \o w) = (1..u) \ (left \cup b.dropped)
  BY IdleFront DEF PageInv, StreamOK
<1>3. Range(sc \o w) = Range(sc) \cup Range(w)
  BY <1>1, RangeConcat
<1>4. \A r \in 1..Len(ms) : ms[r] \in Nat /\ ms[r] <= u /\ \A x \in Range(w) : ms[r] < x
  BY <1>1, ElementOfSeq DEF PageInv, MarksOK
<1>5. Range(w) \subseteq Nat
  <2>1. Range(w) \subseteq Unit
    BY <1>1, RangeMembers DEF Text
  <2> QED
    BY <2>1, UnitNat
<1> QED
  BY <1>1, <1>2, <1>3, <1>4, <1>5 DEF Holds

LEMMA AskingFields ==
  ASSUME NEW n \in Nat, NEW b, BridgeOK(b, n), NEW tp, tp \in Seq(PageMessages(n))
  PROVE  /\ BridgeOK(Asking(b, tp), n)
         /\ Asking(b, tp).toPage = tp /\ Asking(b, tp).requests = <<>>
         /\ Asking(b, tp).ready = b.ready /\ Asking(b, tp).restore = b.restore
         /\ Asking(b, tp).awaitingRestore = b.awaitingRestore
         /\ Asking(b, tp).dropped = b.dropped /\ Asking(b, tp).inFlight = b.inFlight
         /\ Asking(b, tp).pending = b.pending
         /\ Asking(b, tp).backpressured = b.backpressured
<1>1. b \in Bridges(n) /\ <<>> \in Seq(1..n)
  BY EmptySeq DEF BridgeOK
<1>2. Asking(b, tp) \in Bridges(n)
  BY <1>1 DEF Asking, Bridges
<1>3. /\ Asking(b, tp).toPage = tp /\ Asking(b, tp).requests = <<>>
      /\ Asking(b, tp).ready = b.ready /\ Asking(b, tp).restore = b.restore
      /\ Asking(b, tp).awaitingRestore = b.awaitingRestore
      /\ Asking(b, tp).dropped = b.dropped /\ Asking(b, tp).inFlight = b.inFlight
      /\ Asking(b, tp).pending = b.pending /\ Asking(b, tp).pendingBytes = b.pendingBytes
      /\ Asking(b, tp).backpressured = b.backpressured
  BY <1>1 DEF Asking, Bridges
<1> QED
  BY <1>2, <1>3 DEF BridgeOK

LEMMA AskingPage ==
  ASSUME NEW b, NEW na, NEW pa, NEW sc, NEW w, NEW u, NEW left, NEW ms, NEW p,
         PageInv(b, na, pa, sc, w, u, left, ms), Idle(b),
         p = Asking(b, b.toPage \o Asked(b))
  PROVE  PageInv(p, na, pa, sc, w, u, left, ms)
<1> DEFINE n == Len(ms)
<1>1. /\ n \in Nat /\ BridgeOK(b, n) /\ DOMAIN ms = 1..n
      /\ b.toPage \in Seq(PageMessages(n)) /\ b.toPage \in Seq(Messages)
      /\ Asked(b) \in Seq(PageMessages(n)) /\ Asked(b) \in Seq(Messages)
      /\ \A i \in DOMAIN Asked(b) :
           /\ Asked(b)[i].kind = "snapshot" /\ Asked(b)[i].units = <<>>
           /\ Asked(b)[i].sequence \in 1..n
      /\ DOMAIN Asked(b) = 1..Len(Asked(b))
  BY PageTypes, BridgeTypes, AskedTypes
<1> HIDE DEF n
<1>2. b.toPage \o Asked(b) \in Seq(PageMessages(n))
  BY <1>1, ConcatProperties
<1>3. /\ BridgeOK(p, n) /\ p.toPage = b.toPage \o Asked(b)
      /\ p.restore = b.restore /\ p.awaitingRestore = b.awaitingRestore
      /\ p.dropped = b.dropped /\ p.inFlight = b.inFlight /\ p.pending = b.pending
  <2>1. PICK tp \in Seq(PageMessages(n)) : tp = b.toPage \o Asked(b)
    BY <1>2, Zenon
  <2>2. /\ BridgeOK(Asking(b, tp), n) /\ Asking(b, tp).toPage = tp
        /\ Asking(b, tp).restore = b.restore /\ Asking(b, tp).awaitingRestore = b.awaitingRestore
        /\ Asking(b, tp).dropped = b.dropped /\ Asking(b, tp).inFlight = b.inFlight
        /\ Asking(b, tp).pending = b.pending
    BY <1>1, AskingFields
  <2>3. p = Asking(b, tp)
    BY <2>1, Zenon
  <2> QED
    BY <2>1, <2>2, <2>3, Zenon
<1>4. ASSUME NEW kind, kind # "snapshot"
      PROVE  SequencesOf(p.toPage, kind) = SequencesOf(b.toPage, kind)
  <2>1. SequencesOf(Asked(b), kind) = <<>>
    BY <1>1, <1>4, NoNumbers
  <2>2. SequencesOf(b.toPage \o Asked(b), kind)
          = SequencesOf(b.toPage, kind) \o SequencesOf(Asked(b), kind)
    BY <1>1, NumbersConcat
  <2>3. SequencesOf(b.toPage, kind) \o <<>> = SequencesOf(b.toPage, kind)
    BY <1>1, NumbersType, ConcatEmptySeq
  <2> QED
    BY <1>3, <2>1, <2>2, <2>3, Zenon
<1>5. AcksOK(p, Acks(na, pa))
  <2>1. SequencesOf(p.toPage, "data") = SequencesOf(b.toPage, "data")
    BY <1>4
  <2>2. FullData(Asked(b))
    BY <1>1 DEF FullData
  <2>3. FullData(b.toPage) => FullData(p.toPage)
    BY <1>1, <1>3, <2>2, FullConcat
  <2> QED
    BY <1>3, <2>1, <2>3 DEF PageInv, AcksOK
<1>6. RestoresOK(p, Restores(na, pa))
  <2>1. SequencesOf(p.toPage, "restore") = SequencesOf(b.toPage, "restore")
    BY <1>4
  <2> QED
    BY <1>3, <2>1 DEF PageInv, RestoresOK
<1>7. Line(p) = Line(b)
  <2>1. UnitsOf(Asked(b)) = <<>>
    BY <1>1, NoUnits
  <2>2. UnitsOf(b.toPage) \in Text /\ UnitsOf(b.toPage) \o <<>> = UnitsOf(b.toPage)
    BY <1>1, UnitsType, TextEmpty
  <2>3. UnitsOf(b.toPage \o Asked(b)) = UnitsOf(b.toPage) \o UnitsOf(Asked(b))
    BY <1>1, UnitsConcat
  <2>4. UnitsOf(p.toPage) = UnitsOf(b.toPage)
    BY <1>3, <2>1, <2>2, <2>3, Zenon
  <2> QED
    BY <1>3, <2>4 DEF Line
<1>8. AskedOK(p, sc, left, ms)
  <2> SUFFICES ASSUME NEW i \in DOMAIN p.toPage, p.toPage[i].kind = "snapshot"
               PROVE  Holds(sc, ms[p.toPage[i].sequence], left \cup p.dropped)
    BY DEF AskedOK
  <2>1. \/ i \in DOMAIN b.toPage /\ (b.toPage \o Asked(b))[i] = b.toPage[i]
        \/ \E j \in DOMAIN Asked(b) : (b.toPage \o Asked(b))[i] = Asked(b)[j]
    <3>1. i \in DOMAIN (b.toPage \o Asked(b))
      BY <1>3, Zenon
    <3> QED
      BY <1>1, <3>1, ConcatMember
  <2>2. CASE i \in DOMAIN b.toPage /\ p.toPage[i] = b.toPage[i]
    BY <1>3, <2>2 DEF PageInv, AskedOK
  <2>3. CASE \E j \in DOMAIN Asked(b) : p.toPage[i] = Asked(b)[j]
    <3>1. p.toPage[i].sequence \in 1..n
      BY <1>1, <2>3
    <3>2. \A r \in 1..n : Holds(sc, ms[r], left \cup b.dropped)
      BY IdleHolds DEF n
    <3> QED
      BY <1>3, <3>1, <3>2
  <2> QED
    BY <1>3, <2>1, <2>2, <2>3, Zenon
<1> QED
  BY <1>3, <1>5, <1>6, <1>7, <1>8 DEF PageInv, n

LEMMA AskIs ==
  ASSUME NEW b
  PROVE  \/ PumpSnapshotRequests(b) = b
         \/ Idle(b) /\ PumpSnapshotRequests(b) = Asking(b, b.toPage \o Asked(b))
BY DEF PumpSnapshotRequests, Idle, Asking, Asked

LEMMA AskOK ==
  ASSUME NEW n \in Nat, NEW b, BridgeOK(b, n)
  PROVE  /\ BridgeOK(PumpSnapshotRequests(b), n)
         /\ PumpSnapshotRequests(b).backpressured = b.backpressured
<1>1. PICK tp \in Seq(PageMessages(n)) : tp = b.toPage \o Asked(b)
  <2>1. b.toPage \o Asked(b) \in Seq(PageMessages(n))
    BY BridgeTypes, AskedTypes, ConcatProperties
  <2> QED
    BY <2>1, Zenon
<1>2. BridgeOK(Asking(b, tp), n) /\ Asking(b, tp).backpressured = b.backpressured
  BY AskingFields
<1>3. PumpSnapshotRequests(b) = b \/ PumpSnapshotRequests(b) = Asking(b, tp)
  BY <1>1, AskIs, Zenon
<1> QED
  BY <1>2, <1>3, Zenon

LEMMA AskPage ==
  ASSUME NEW b, NEW na, NEW pa, NEW sc, NEW w, NEW u, NEW left, NEW ms,
         PageInv(b, na, pa, sc, w, u, left, ms)
  PROVE  PageInv(PumpSnapshotRequests(b), na, pa, sc, w, u, left, ms)
<1>1. CASE Idle(b) /\ PumpSnapshotRequests(b) = Asking(b, b.toPage \o Asked(b))
  BY <1>1, AskingPage
<1> QED
  BY <1>1, AskIs, Zenon

LEMMA PumpPage ==
  ASSUME NEW b, NEW na, NEW pa, NEW sc, NEW w, NEW u, NEW left, NEW ms,
         PageInv(b, na, pa, sc, w, u, left, ms)
  PROVE  PageInv(PumpPendingData(b), na, pa, sc, w, u, left, ms)
<1>1. Len(ms) \in Nat /\ BridgeOK(b, Len(ms))
  BY PageTypes
<1> QED
  BY <1>1, PumpOK, DeliversPage

LEMMA UpdatePage ==
  ASSUME NEW b, NEW na, NEW pa, NEW sc, NEW w, NEW u, NEW left, NEW ms,
         PageInv(b, na, pa, sc, w, u, left, ms)
  PROVE  PageInv(UpdateBackpressure(b), na, pa, sc, w, u, left, ms)
<1>1. Len(ms) \in Nat /\ BridgeOK(b, Len(ms))
  BY PageTypes
<1> QED
  BY <1>1, UpdateOK, DeliversPage

-----------------------------------------------------------------------------
(* The stream when a text comes.                                           *)

LEMMA TextIncreasing ==
  ASSUME NEW s, NEW t, s \in Text, t \in Text
  PROVE  Increasing(s \o t) <=> Increasing(s) /\ Increasing(t) /\ Before(Range(s), Range(t))
<1>1. s \in Seq(Nat) /\ t \in Seq(Nat)
  BY UnitNat, SeqMonotonic DEF Text
<1> QED
  BY <1>1, IncreasingConcat

LEMMA StreamIs ==
  ASSUME NEW X, NEW w, NEW u, NEW left, NEW d, X \in Text, w \in Text
  PROVE  StreamOK(X, w, u, left, d) <=>
           /\ Increasing(X) /\ Increasing(w) /\ Before(Range(X), Range(w))
           /\ Range(X) \cup Range(w) = (1..u) \ (left \cup d)
           /\ left \cup d \subseteq 1..u
           /\ Before(d, Range(w))
BY TextIncreasing, RangeConcat DEF StreamOK

\* A text goes from what has to come to what is in front.
LEMMA StreamMoves ==
  ASSUME NEW X, NEW c, NEW w, NEW u, NEW left, NEW d, X \in Text, c \in Text, w \in Text,
         StreamOK(X, c \o w, u, left, d)
  PROVE  StreamOK(X \o c, w, u, left, d)
<1>1. (X \o c) \o w = X \o (c \o w)
  BY TextAssoc
<1>2. Range(c \o w) = Range(c) \cup Range(w)
  BY RangeConcat
<1> QED
  BY <1>1, <1>2 DEF StreamOK, Before

\* A text is dropped.
LEMMA StreamDrops ==
  ASSUME NEW X, NEW c, NEW w, NEW u, NEW left, NEW d, X \in Text, c \in Text, w \in Text,
         StreamOK(X, c \o w, u, left, d)
  PROVE  StreamOK(X, w, u, left, d \cup Range(c))
<1>1. c \o w \in Text
  BY TextAssoc
<1>2. /\ Increasing(X) /\ Increasing(c \o w) /\ Before(Range(X), Range(c \o w))
      /\ Range(X) \cup Range(c \o w) = (1..u) \ (left \cup d)
      /\ left \cup d \subseteq 1..u /\ Before(d, Range(c \o w))
  BY <1>1, StreamIs
<1>3. Increasing(c) /\ Increasing(w) /\ Before(Range(c), Range(w))
  BY <1>2, TextIncreasing
<1>4. Range(c \o w) = Range(c) \cup Range(w)
  BY RangeConcat
<1>5. Range(X) \subseteq Nat /\ Range(c) \subseteq Nat /\ Range(w) \subseteq Nat
  BY RangeMembers, UnitNat DEF Text
<1>6. \A x \in Range(c) : x \notin Range(X) /\ x \notin Range(w)
  BY <1>2, <1>3, <1>4, <1>5 DEF Before
<1>7. Range(X) \cup Range(w) = (1..u) \ (left \cup (d \cup Range(c)))
  BY <1>2, <1>4, <1>6
<1>8. Before(Range(X), Range(w)) /\ Before(d \cup Range(c), Range(w))
  BY <1>2, <1>3, <1>4 DEF Before
<1>9. left \cup (d \cup Range(c)) \subseteq 1..u
  BY <1>2, <1>4
<1> QED
  BY <1>2, <1>3, <1>7, <1>8, <1>9, StreamIs

\* A new unit has still to come.
LEMMA StreamGrows ==
  ASSUME NEW X, NEW w, NEW u \in Nat, NEW left, NEW d, X \in Text, w \in Text, u + 1 \in Unit,
         StreamOK(X, w, u, left, d)
  PROVE  /\ w \o <<u + 1>> \in Text /\ StreamOK(X, w \o <<u + 1>>, u + 1, left, d)
         /\ Range(w \o <<u + 1>>) = Range(w) \cup {u + 1}
<1>1. /\ Increasing(X) /\ Increasing(w) /\ Before(Range(X), Range(w))
      /\ Range(X) \cup Range(w) = (1..u) \ (left \cup d)
      /\ left \cup d \subseteq 1..u /\ Before(d, Range(w))
  BY StreamIs
<1>2. PICK c \in Text : c = <<u + 1>>
  <2>1. <<u + 1>> \in Text
    BY DEF Text
  <2> QED
    BY <2>1, Zenon
<1>3. Range(c) = {u + 1} /\ Increasing(c)
  <2>1. Range(c) = {u + 1}
    BY <1>2, RangeOne
  <2>2. Increasing(c)
    BY <1>2 DEF Increasing
  <2> QED
    BY <2>1, <2>2
<1>4. Before(Range(w), Range(c)) /\ Before(Range(X), Range(c)) /\ Before(d, Range(c))
  <2>1. Range(w) \subseteq 1..u /\ Range(X) \subseteq 1..u /\ d \subseteq 1..u
    BY <1>1
  <2> QED
    BY <1>3, <2>1 DEF Before
<1>5. /\ w \o c \in Text /\ Range(w \o c) = Range(w) \cup {u + 1}
      /\ Increasing(w \o c)
  BY <1>1, <1>3, <1>4, TextAssoc, RangeConcat, TextIncreasing
<1>6. Before(Range(X), Range(w \o c)) /\ Before(d, Range(w \o c))
  BY <1>1, <1>3, <1>4, <1>5 DEF Before
<1>7. /\ Range(X) \cup Range(w \o c) = (1..(u + 1)) \ (left \cup d)
      /\ left \cup d \subseteq 1..(u + 1)
  BY <1>1, <1>5
<1>8. StreamOK(X, w \o c, u + 1, left, d)
  BY <1>1, <1>5, <1>6, <1>7, StreamIs
<1> QED
  BY <1>2, <1>5, <1>8, Zenon

-----------------------------------------------------------------------------
(* BridgeWrite.                                                            *)

Appended(b, chunk) ==
  [b EXCEPT !.pending = Append(@, chunk), !.pendingBytes = @ + Len(chunk)]

Dropping(b, chunk) == [b EXCEPT !.dropped = @ \cup Range(chunk), !.backpressured = TRUE]

LEMMA WriteIs ==
  ASSUME NEW b, NEW chunk
  PROVE  IF b.pendingBytes + Len(chunk) > MaxPending
         THEN BridgeWrite(b, chunk) = Dropping(b, chunk)
         ELSE BridgeWrite(b, chunk) = PumpPendingData(UpdateBackpressure(Appended(b, chunk)))
BY DEF BridgeWrite, Dropping, Appended

LEMMA AppendedOK ==
  ASSUME NEW n \in Nat, NEW b, BridgeOK(b, n), NEW chunk, chunk \in Text,
         ~(b.pendingBytes + Len(chunk) > MaxPending)
  PROVE  LET q == Appended(b, chunk) IN
         /\ BridgeOK(q, n) /\ q.pending = Append(b.pending, chunk)
         /\ FlattenSeq(q.pending) = FlattenSeq(b.pending) \o chunk
         /\ q.ready = b.ready /\ q.restore = b.restore /\ q.awaitingRestore = b.awaitingRestore
         /\ q.dropped = b.dropped /\ q.inFlight = b.inFlight /\ q.toPage = b.toPage
         /\ q.requests = b.requests
<1> DEFINE q == Appended(b, chunk)
<1>1. /\ b \in Bridges(n) /\ b.pending \in Seq(Text) /\ FlattenSeq(b.pending) \in Text
      /\ b.pendingBytes \in 0..MaxPending /\ Len(chunk) \in Nat
      /\ b.pendingBytes = Len(FlattenSeq(b.pending))
  BY BridgeTypes, LenProperties DEF BridgeOK, Bridges, Text
<1>2. PICK pe \in Seq(Text) : pe = Append(b.pending, chunk)
  <2>1. Append(b.pending, chunk) \in Seq(Text)
    BY <1>1, AppendProperties
  <2> QED
    BY <2>1, Zenon
<1>3. PICK pb \in 0..MaxPending : pb = b.pendingBytes + Len(chunk)
  BY <1>1, LimitsAssumption
<1>4. q = [b EXCEPT !.pending = pe, !.pendingBytes = pb]
  BY <1>1, <1>2, <1>3 DEF Appended, Bridges
<1>5. /\ q \in Bridges(n) /\ q.pending = pe /\ q.pendingBytes = pb
      /\ q.ready = b.ready /\ q.restore = b.restore /\ q.awaitingRestore = b.awaitingRestore
      /\ q.dropped = b.dropped /\ q.inFlight = b.inFlight /\ q.toPage = b.toPage
      /\ q.requests = b.requests
  <2> HIDE DEF q
  <2> QED
    BY <1>1, <1>4 DEF Bridges
<1>6. FlattenSeq(pe) = FlattenSeq(b.pending) \o chunk
  <2>1. FlattenSeq(Append(b.pending, chunk)) = FlattenSeq(b.pending) \o chunk
    BY <1>1, FlattenAppend DEF Text
  <2> QED
    BY <1>2, <2>1, Zenon
<1>7. Len(FlattenSeq(pe)) = pb
  <2>1. Len(FlattenSeq(b.pending) \o chunk) = Len(FlattenSeq(b.pending)) + Len(chunk)
    BY <1>1, ConcatProperties DEF Text
  <2> QED
    BY <1>1, <1>3, <1>6, <2>1, Zenon
<1>8. BridgeOK(q, n)
  <2> HIDE DEF q
  <2> QED
    BY <1>5, <1>7, Zenon DEF BridgeOK
<1> QED
  BY <1>2, <1>5, <1>6, <1>8, Zenon

LEMMA DroppingOK ==
  ASSUME NEW n \in Nat, NEW b, BridgeOK(b, n), NEW chunk, chunk \in Text
  PROVE  LET q == Dropping(b, chunk) IN
         /\ BridgeOK(q, n) /\ q.pending = b.pending
         /\ q.ready = b.ready /\ q.restore = b.restore /\ q.awaitingRestore = b.awaitingRestore
         /\ q.dropped = b.dropped \cup Range(chunk) /\ q.inFlight = b.inFlight
         /\ q.toPage = b.toPage /\ q.requests = b.requests
<1> DEFINE q == Dropping(b, chunk)
<1>1. b \in Bridges(n) /\ b.dropped \cup Range(chunk) \subseteq Unit
  BY BridgeTypes, RangeMembers DEF Text
<1>2. /\ q \in Bridges(n) /\ q.pending = b.pending /\ q.pendingBytes = b.pendingBytes
      /\ q.ready = b.ready /\ q.restore = b.restore /\ q.awaitingRestore = b.awaitingRestore
      /\ q.dropped = b.dropped \cup Range(chunk) /\ q.inFlight = b.inFlight
      /\ q.toPage = b.toPage /\ q.requests = b.requests
  BY <1>1 DEF Dropping, Bridges
<1> HIDE DEF q
<1>3. BridgeOK(q, n)
  BY <1>2 DEF BridgeOK
<1> QED
  BY <1>2, <1>3 DEF q

LEMMA WriteOK ==
  ASSUME NEW n \in Nat, NEW b, BridgeOK(b, n), NEW chunk, chunk \in Text
  PROVE  BridgeOK(BridgeWrite(b, chunk), n)
<1>1. CASE b.pendingBytes + Len(chunk) > MaxPending
  BY <1>1, WriteIs, DroppingOK
<1>2. CASE ~(b.pendingBytes + Len(chunk) > MaxPending)
  <2>1. BridgeOK(Appended(b, chunk), n)
    BY <1>2, AppendedOK
  <2>2. BridgeOK(PumpPendingData(UpdateBackpressure(Appended(b, chunk))), n)
    BY <2>1, UpdateOK, PumpOK
  <2> QED
    BY <1>2, <2>2, WriteIs
<1> QED
  BY <1>1, <1>2

LEMMA FullAppend ==
  ASSUME NEW s \in Seq(Text), NEW e \in Text, Full(s), e # <<>>
  PROVE  Full(Append(s, e))
<1>1. /\ Len(s) \in Nat /\ DOMAIN s = 1..Len(s) /\ DOMAIN Append(s, e) = 1..(Len(s) + 1)
      /\ \A i \in 1..Len(s) : Append(s, e)[i] = s[i]
      /\ Append(s, e)[Len(s) + 1] = e
  BY AppendProperties, LenProperties
<1> QED
  BY <1>1 DEF Full

LEMMA AppendedPage ==
  ASSUME NEW b, NEW na, NEW pa, NEW sc, NEW chunk, NEW w, NEW u, NEW left, NEW ms, NEW v,
         PageInv(b, na, pa, sc, v, u, left, ms), v = chunk \o w,
         chunk \in Text, w \in Text, ~EmptyTexts => chunk # <<>>,
         ~(b.pendingBytes + Len(chunk) > MaxPending)
  PROVE  PageInv(Appended(b, chunk), na, pa, sc, w, u, left, ms)
<1> DEFINE n == Len(ms)
           q == Appended(b, chunk)
           F == sc \o UnitsOf(pa)
<1>1. /\ n \in Nat /\ BridgeOK(b, n) /\ F \in Text /\ Line(b) \in Text
      /\ b.pending \in Seq(Text)
  BY PageTypes, LineType, BridgeTypes
<1>2. /\ BridgeOK(q, n) /\ q.pending = Append(b.pending, chunk)
      /\ FlattenSeq(q.pending) = FlattenSeq(b.pending) \o chunk
      /\ q.ready = b.ready /\ q.restore = b.restore /\ q.awaitingRestore = b.awaitingRestore
      /\ q.dropped = b.dropped /\ q.inFlight = b.inFlight /\ q.toPage = b.toPage
  BY <1>1, AppendedOK
<1> HIDE DEF q, n
<1>3. Line(q) = Line(b) \o chunk
  <2>1. UnitsOf(b.toPage) \in Text /\ b.restore \in Text /\ FlattenSeq(b.pending) \in Text
    BY <1>1, BridgeTypes
  <2>2. UnitsOf(b.toPage) \o b.restore \in Text
    BY <2>1, TextAssoc
  <2>3. ((UnitsOf(b.toPage) \o b.restore) \o FlattenSeq(b.pending)) \o chunk
          = (UnitsOf(b.toPage) \o b.restore) \o (FlattenSeq(b.pending) \o chunk)
    BY <2>1, <2>2, TextGroup, ZenonT(40)
  <2> QED
    BY <1>2, <2>3, Zenon DEF Line
<1>4. StreamOK(F \o Line(q), w, u, left, q.dropped)
  <2> HIDE DEF F
  <2>1. StreamOK(F \o Line(b), v, u, left, b.dropped)
    BY DEF PageInv, F
  <2>2. F \o Line(b) \in Text
    BY <1>1, TextAssoc
  <2>3. StreamOK(F \o Line(b), chunk \o w, u, left, b.dropped)
    BY <2>1, Zenon
  <2>4. StreamOK((F \o Line(b)) \o chunk, w, u, left, b.dropped)
    BY <2>2, <2>3, StreamMoves
  <2>5. (F \o Line(b)) \o chunk = F \o (Line(b) \o chunk)
    BY <1>1, TextAssoc, SMTT(40)
  <2> QED
    BY <1>2, <1>3, <2>4, <2>5, Zenon
<1>5. MarksOK(ms, w, u)
  <2>1. Range(chunk \o w) = Range(chunk) \cup Range(w)
    BY RangeConcat
  <2>2. MarksOK(ms, chunk \o w, u)
    BY Zenon DEF PageInv
  <2> QED
    BY <2>1, <2>2 DEF MarksOK
<1>6. AcksOK(q, Acks(na, pa))
  <2>1. Full(b.pending) /\ ~EmptyTexts => Full(q.pending)
    BY <1>1, <1>2, FullAppend
  <2> QED
    BY <1>2, <2>1 DEF PageInv, AcksOK
<1>7. RestoresOK(q, Restores(na, pa)) /\ AskedOK(q, sc, left, ms)
  BY <1>2 DEF PageInv, RestoresOK, AskedOK
<1>8. PageInv(q, na, pa, sc, w, u, left, ms)
  BY <1>2, <1>4, <1>5, <1>6, <1>7 DEF PageInv, n
<1> QED
  BY <1>8 DEF q

LEMMA HoldsMore ==
  ASSUME NEW text, NEW more, NEW mark, NEW given, NEW dropped, Holds(text, mark, given),
         Range(text) \subseteq Range(more), given \subseteq dropped
  PROVE  Holds(more, mark, dropped)
BY DEF Holds

LEMMA DroppingPage ==
  ASSUME NEW b, NEW na, NEW pa, NEW sc, NEW chunk, NEW w, NEW u, NEW left, NEW ms, NEW v,
         PageInv(b, na, pa, sc, v, u, left, ms), v = chunk \o w, chunk \in Text, w \in Text
  PROVE  PageInv(Dropping(b, chunk), na, pa, sc, w, u, left, ms)
<1> DEFINE n == Len(ms)
           q == Dropping(b, chunk)
           F == (sc \o UnitsOf(pa)) \o Line(b)
<1>1. n \in Nat /\ BridgeOK(b, n) /\ F \in Text
  BY PageTypes
<1>2. /\ BridgeOK(q, n) /\ q.pending = b.pending
      /\ q.ready = b.ready /\ q.restore = b.restore /\ q.awaitingRestore = b.awaitingRestore
      /\ q.dropped = b.dropped \cup Range(chunk) /\ q.inFlight = b.inFlight
      /\ q.toPage = b.toPage
  BY <1>1, DroppingOK
<1> HIDE DEF q, n
<1>3. Line(q) = Line(b)
  BY <1>2 DEF Line
<1>4. StreamOK((sc \o UnitsOf(pa)) \o Line(q), w, u, left, q.dropped)
  <2>1. StreamOK(F, chunk \o w, u, left, b.dropped)
    BY Zenon DEF PageInv
  <2> HIDE DEF F
  <2>2. StreamOK(F, w, u, left, b.dropped \cup Range(chunk))
    BY <1>1, <2>1, StreamDrops
  <2> QED
    BY <1>2, <1>3, <2>2, Zenon DEF F
<1>5. MarksOK(ms, w, u)
  <2>1. Range(chunk \o w) = Range(chunk) \cup Range(w)
    BY RangeConcat
  <2>2. MarksOK(ms, chunk \o w, u)
    BY Zenon DEF PageInv
  <2> QED
    BY <2>1, <2>2 DEF MarksOK
<1>6. AcksOK(q, Acks(na, pa)) /\ RestoresOK(q, Restores(na, pa))
  BY <1>2 DEF PageInv, AcksOK, RestoresOK
<1>7. AskedOK(q, sc, left, ms)
  <2>1. left \cup b.dropped \subseteq left \cup q.dropped
    BY <1>2
  <2> QED
    BY <1>2, <2>1, HoldsMore DEF PageInv, AskedOK
<1>8. PageInv(q, na, pa, sc, w, u, left, ms)
  BY <1>2, <1>4, <1>5, <1>6, <1>7 DEF PageInv, n
<1> QED
  BY <1>8 DEF q

LEMMA WritePage ==
  ASSUME NEW b, NEW na, NEW pa, NEW sc, NEW chunk, NEW w, NEW u, NEW left, NEW ms, NEW v,
         PageInv(b, na, pa, sc, v, u, left, ms), v = chunk \o w,
         chunk \in Text, w \in Text, ~EmptyTexts => chunk # <<>>
  PROVE  PageInv(BridgeWrite(b, chunk), na, pa, sc, w, u, left, ms)
<1>1. CASE b.pendingBytes + Len(chunk) > MaxPending
  BY <1>1, WriteIs, DroppingPage
<1>2. CASE ~(b.pendingBytes + Len(chunk) > MaxPending)
  <2>1. PageInv(Appended(b, chunk), na, pa, sc, w, u, left, ms)
    BY <1>2, AppendedPage
  <2>2. PageInv(PumpPendingData(UpdateBackpressure(Appended(b, chunk))), na, pa, sc, w, u, left, ms)
    BY <2>1, UpdatePage, PumpPage
  <2> QED
    BY <1>2, <2>2, WriteIs
<1> QED
  BY <1>1, <1>2

-----------------------------------------------------------------------------
(* The page's messages to the bridge.                                      *)

LEMMA HeadOfConcat ==
  ASSUME NEW e \in Nat, NEW t \in Seq(Nat)
  PROVE  /\ <<e>> \in Seq(Nat) /\ <<e>> \o t # <<>>
         /\ Head(<<e>> \o t) = e /\ Tail(<<e>> \o t) = t
         /\ Len(<<e>> \o t) = Len(t) + 1 /\ <<e>> \o t \in Seq(Nat)
<1>1. PICK c \in Seq(Nat) : c = <<e>>
  <2>1. <<e>> \in Seq(Nat)
    OBVIOUS
  <2> QED
    BY <2>1, Zenon
<1>2. Len(c) = 1 /\ c[1] = e
  BY <1>1
<1>3. /\ c \o t \in Seq(Nat) /\ Len(c \o t) = Len(t) + 1 /\ (c \o t)[1] = e
      /\ \A i \in 1..Len(t) : (c \o t)[i + 1] = t[i]
      /\ Len(t) \in Nat
  <2>1. /\ c \o t \in Seq(Nat) /\ Len(c \o t) = Len(c) + Len(t) /\ Len(t) \in Nat
        /\ \A i \in 1..(Len(c) + Len(t)) :
             (c \o t)[i] = IF i <= Len(c) THEN c[i] ELSE t[i - Len(c)]
    BY ConcatProperties, LenProperties
  <2>2. Len(c \o t) = Len(t) + 1
    BY <1>2, <2>1
  <2>3. (c \o t)[1] = e
    BY <1>2, <2>1
  <2>4. ASSUME NEW i \in 1..Len(t) PROVE (c \o t)[i + 1] = t[i]
    <3>1. i + 1 \in 1..(Len(c) + Len(t)) /\ ~(i + 1 <= Len(c)) /\ (i + 1) - Len(c) = i
      BY <1>2, <2>1
    <3> QED
      BY <2>1, <3>1
  <2> QED
    BY <2>1, <2>2, <2>3, <2>4
<1>4. c \o t # <<>> /\ Head(c \o t) = e
  BY <1>3, EmptySeq, HeadTailProperties
<1>5. /\ Tail(c \o t) \in Seq(Nat) /\ Len(Tail(c \o t)) = Len(t)
      /\ \A i \in 1..Len(t) : Tail(c \o t)[i] = t[i]
  BY <1>3, <1>4, HeadTailProperties
<1>6. Tail(c \o t) = t
  BY <1>5, SeqEqual
<1> QED
  BY <1>1, <1>3, <1>4, <1>6, Zenon

LEMMA NumberType ==
  ASSUME NEW m, NEW kind, m \in Messages
  PROVE  NumberOf(m, kind) \in Seq(Nat)
BY DEF NumberOf, Messages

LEMMA NumberFirst ==
  ASSUME NEW m, NEW kind, NEW t, m \in Messages, m.kind = kind, t \in Seq(Nat)
  PROVE  /\ Cat(NumberOf(m, kind), t) # <<>>
         /\ Head(Cat(NumberOf(m, kind), t)) = m.sequence /\ Tail(Cat(NumberOf(m, kind), t)) = t
         /\ Len(Cat(NumberOf(m, kind), t)) = Len(t) + 1
<1>1. m.sequence \in Nat
  BY DEF Messages
<1>2. NumberOf(m, kind) = <<m.sequence>>
  BY DEF NumberOf
<1>3. \A e \in Nat :
        /\ <<e>> \o t # <<>>
        /\ Head(<<e>> \o t) = e /\ Tail(<<e>> \o t) = t
        /\ Len(<<e>> \o t) = Len(t) + 1
  BY HeadOfConcat
<1> QED
  BY <1>1, <1>2, <1>3, Zenon DEF Cat

LEMMA NoneOf ==
  ASSUME NEW s \in Seq(Messages), s # <<>>, NEW kind, Head(s).kind # kind
  PROVE  SequencesOf(s, kind) = SequencesOf(Tail(s), kind)
<1>1. /\ Tail(s) \in Seq(Messages)
      /\ SequencesOf(s, kind) = NumberOf(Head(s), kind) \o SequencesOf(Tail(s), kind)
  BY NumbersTail
<1>2. NumberOf(Head(s), kind) = <<>>
  BY DEF NumberOf
<1>3. <<>> \o SequencesOf(Tail(s), kind) = SequencesOf(Tail(s), kind)
  BY <1>1, NumbersType, ConcatEmptySeq
<1> QED
  BY <1>1, <1>2, <1>3, Zenon

LEMMA OneOf ==
  ASSUME NEW s, NEW kind, NEW t, s \in Seq(Messages), s # <<>>, t \in Seq(Nat)
  PROVE  Cat(SequencesOf(s, kind), t)
           = Cat(NumberOf(Head(s), kind), Cat(SequencesOf(Tail(s), kind), t))
<1>1. /\ Tail(s) \in Seq(Messages) /\ Head(s) \in Messages
      /\ SequencesOf(s, kind) = NumberOf(Head(s), kind) \o SequencesOf(Tail(s), kind)
  BY NumbersTail
<1>2. NumberOf(Head(s), kind) \in Seq(Nat) /\ SequencesOf(Tail(s), kind) \in Seq(Nat)
  BY <1>1, NumberType, NumbersType
<1>3. (NumberOf(Head(s), kind) \o SequencesOf(Tail(s), kind)) \o t
        = NumberOf(Head(s), kind) \o (SequencesOf(Tail(s), kind) \o t)
  BY <1>2, NumbersGroup, ZenonT(40)
<1> QED
  BY <1>1, <1>3, Zenon DEF Cat

\* A message that is neither an acknowledgement nor a restored snapshot.
LEMMA TailPage ==
  ASSUME NEW b, NEW na, NEW pa, NEW sc, NEW w, NEW u, NEW left, NEW ms,
         PageInv(b, na, pa, sc, w, u, left, ms),
         na # <<>>, Head(na).kind # "ack", Head(na).kind # "restored"
  PROVE  PageInv(b, Tail(na), pa, sc, w, u, left, ms)
<1>1. na \in Seq(Messages) /\ Tail(na) \in Seq(Messages)
  BY NumbersTail DEF PageInv
<1>2. Acks(Tail(na), pa) = Acks(na, pa) /\ Restores(Tail(na), pa) = Restores(na, pa)
  BY <1>1, NoneOf DEF Acks, Restores
<1> QED
  BY <1>1, <1>2 DEF PageInv

Removed(b, bytes) ==
  [b EXCEPT !.inFlight = Tail(@), !.inFlightBytes = IF @ > bytes THEN @ - bytes ELSE 0]

LEMMA AcknowledgeIs ==
  ASSUME NEW b, NEW s, NEW bytes
  PROVE  IF b.inFlight = <<>> \/ Head(b.inFlight) # s
         THEN Acknowledge(b, s, bytes) = b
         ELSE Acknowledge(b, s, bytes)
                = UpdateBackpressure(PumpSnapshotRequests(PumpPendingData(Removed(b, bytes))))
BY DEF Acknowledge, Removed

LEMMA RemovedOK ==
  ASSUME NEW n \in Nat, NEW b, BridgeOK(b, n), NEW bytes \in Nat, b.inFlight # <<>>
  PROVE  LET q == Removed(b, bytes) IN
         /\ BridgeOK(q, n) /\ q.pending = b.pending
         /\ q.ready = b.ready /\ q.restore = b.restore /\ q.awaitingRestore = b.awaitingRestore
         /\ q.dropped = b.dropped /\ q.inFlight = Tail(b.inFlight)
         /\ q.toPage = b.toPage /\ q.requests = b.requests
<1> DEFINE q == Removed(b, bytes)
<1>1. b \in Bridges(n) /\ b.inFlight \in Seq(Nat) /\ b.inFlightBytes \in Nat
  BY DEF BridgeOK, Bridges
<1>2. PICK fl \in Seq(Nat) : fl = Tail(b.inFlight) /\ Len(fl) <= MaxInFlight
  <2>1. Tail(b.inFlight) \in Seq(Nat) /\ Len(Tail(b.inFlight)) = Len(b.inFlight) - 1
    BY <1>1, HeadTailProperties
  <2>2. Len(b.inFlight) \in Nat /\ Len(b.inFlight) <= MaxInFlight
    BY <1>1, LenProperties DEF BridgeOK
  <2>3. Len(Tail(b.inFlight)) <= MaxInFlight
    BY <2>1, <2>2, LimitsAssumption
  <2> QED
    BY <2>1, <2>3, Zenon
<1>3. PICK ib \in Nat : ib = IF b.inFlightBytes > bytes THEN b.inFlightBytes - bytes ELSE 0
  BY <1>1
<1>4. q = [b EXCEPT !.inFlight = fl, !.inFlightBytes = ib]
  BY <1>1, <1>2, <1>3 DEF Removed, Bridges
<1>5. /\ q \in Bridges(n) /\ q.pending = b.pending /\ q.pendingBytes = b.pendingBytes
      /\ q.ready = b.ready /\ q.restore = b.restore /\ q.awaitingRestore = b.awaitingRestore
      /\ q.dropped = b.dropped /\ q.inFlight = fl
      /\ q.toPage = b.toPage /\ q.requests = b.requests
  <2> HIDE DEF q
  <2> QED
    BY <1>1, <1>4 DEF Bridges
<1>6. BridgeOK(q, n)
  <2> HIDE DEF q
  <2> QED
    BY <1>2, <1>5 DEF BridgeOK
<1> QED
  BY <1>2, <1>5, <1>6, Zenon

LEMMA AcknowledgeOK ==
  ASSUME NEW n \in Nat, NEW b, BridgeOK(b, n), NEW s, NEW bytes \in Nat
  PROVE  BridgeOK(Acknowledge(b, s, bytes), n)
<1>1. CASE b.inFlight = <<>> \/ Head(b.inFlight) # s
  BY <1>1, AcknowledgeIs
<1>2. CASE ~(b.inFlight = <<>> \/ Head(b.inFlight) # s)
  <2>1. BridgeOK(Removed(b, bytes), n)
    BY <1>2, RemovedOK
  <2>2. BridgeOK(PumpSnapshotRequests(PumpPendingData(Removed(b, bytes))), n)
    BY <2>1, PumpOK, AskOK
  <2>3. Acknowledge(b, s, bytes)
          = UpdateBackpressure(PumpSnapshotRequests(PumpPendingData(Removed(b, bytes))))
    BY <1>2, AcknowledgeIs
  <2> QED
    BY <2>2, <2>3, UpdateOK
<1> QED
  BY <1>1, <1>2

LEMMA AcksHead ==
  ASSUME NEW na, NEW pa, na \in Seq(Messages), na # <<>>, pa \in Seq(Messages), Head(na).kind = "ack"
  PROVE  /\ Head(na) \in Messages /\ Acks(Tail(na), pa) \in Seq(Nat)
         /\ Acks(na, pa) = NumberOf(Head(na), "ack") \o Acks(Tail(na), pa)
         /\ Restores(na, pa) = Restores(Tail(na), pa)
<1>1. /\ Head(na) \in Messages /\ SequencesOf(pa, "data") \in Seq(Nat)
      /\ SequencesOf(Tail(na), "ack") \in Seq(Nat)
  BY NumbersTail, NumbersType
<1>2. Cat(SequencesOf(na, "ack"), SequencesOf(pa, "data"))
        = Cat(NumberOf(Head(na), "ack"),
              Cat(SequencesOf(Tail(na), "ack"), SequencesOf(pa, "data")))
  BY <1>1, OneOf
<1>3. SequencesOf(na, "restored") = SequencesOf(Tail(na), "restored")
  BY NoneOf
<1>4. SequencesOf(Tail(na), "ack") \o SequencesOf(pa, "data") \in Seq(Nat)
  BY <1>1, NumbersAssoc
<1> QED
  BY <1>1, <1>2, <1>3, <1>4, Zenon DEF Acks, Restores, Cat

LEMMA RestoresHead ==
  ASSUME NEW na, NEW pa, na \in Seq(Messages), na # <<>>, pa \in Seq(Messages),
         Head(na).kind = "restored"
  PROVE  /\ Head(na) \in Messages /\ Restores(Tail(na), pa) \in Seq(Nat)
         /\ Restores(na, pa) = NumberOf(Head(na), "restored") \o Restores(Tail(na), pa)
         /\ Acks(na, pa) = Acks(Tail(na), pa)
<1>1. /\ Head(na) \in Messages /\ SequencesOf(pa, "restore") \in Seq(Nat)
      /\ SequencesOf(Tail(na), "restored") \in Seq(Nat)
  BY NumbersTail, NumbersType
<1>2. Cat(SequencesOf(na, "restored"), SequencesOf(pa, "restore"))
        = Cat(NumberOf(Head(na), "restored"),
              Cat(SequencesOf(Tail(na), "restored"), SequencesOf(pa, "restore")))
  BY <1>1, OneOf
<1>3. SequencesOf(na, "ack") = SequencesOf(Tail(na), "ack")
  BY NoneOf
<1>4. SequencesOf(Tail(na), "restored") \o SequencesOf(pa, "restore") \in Seq(Nat)
  BY <1>1, NumbersAssoc
<1> QED
  BY <1>1, <1>2, <1>3, <1>4, Zenon DEF Acks, Restores, Cat

\* The page's next acknowledgement is for the oldest packet in flight, but for empty texts.
LEMMA RemovedPage ==
  ASSUME NEW b, NEW na, NEW pa, NEW sc, NEW w, NEW u, NEW left, NEW ms, NEW bytes \in Nat,
         PageInv(b, na, pa, sc, w, u, left, ms), na # <<>>, Head(na).kind = "ack"
  PROVE  IF b.inFlight = <<>> \/ Head(b.inFlight) # Head(na).sequence
         THEN EmptyTexts /\ PageInv(b, Tail(na), pa, sc, w, u, left, ms)
         ELSE PageInv(Removed(b, bytes), Tail(na), pa, sc, w, u, left, ms)
<1> DEFINE n == Len(ms)
           m == Head(na)
           N == NumberOf(Head(na), "ack")
           A == Acks(Tail(na), pa)
           D == SequencesOf(b.toPage, "data")
<1>1. /\ n \in Nat /\ BridgeOK(b, n) /\ na \in Seq(Messages) /\ pa \in Seq(Messages)
      /\ Tail(na) \in Seq(Messages) /\ D \in Seq(Nat) /\ b.inFlight \in Seq(Nat)
  BY PageTypes, NumbersTail, BridgeTypes
<1>2. /\ m \in Messages /\ A \in Seq(Nat) /\ Acks(na, pa) = N \o A
      /\ Restores(na, pa) = Restores(Tail(na), pa)
  BY <1>1, AcksHead
<1>3. /\ N \in Seq(Nat)
      /\ \A t \in Seq(Nat) : /\ Cat(N, t) # <<>> /\ Head(Cat(N, t)) = m.sequence
                             /\ Tail(Cat(N, t)) = t /\ Len(Cat(N, t)) = Len(t) + 1
  <2>1. m.kind = "ack"
    OBVIOUS
  <2> HIDE DEF m
  <2> QED
    BY <1>2, <2>1, NumberType, NumberFirst, SMTT(40) DEF m
<1> HIDE DEF m, N, A, D
<1>4. /\ Len(N \o A) = Len(A) + 1 /\ A \o D \in Seq(Nat) /\ (N \o A) \o D = N \o (A \o D)
      /\ Head(N \o (A \o D)) = m.sequence /\ Tail(N \o (A \o D)) = A \o D
      /\ N \o (A \o D) # <<>>
  <2> A \in Seq(Nat) /\ D \in Seq(Nat) /\ N \in Seq(Nat)
    BY <1>1, <1>2, <1>3
  <2>1. A \o D \in Seq(Nat) /\ (N \o A) \o D = N \o (A \o D)
    BY NumbersGroup, Zenon
  <2>2. Len(N \o A) = Len(A) + 1
    BY <1>2, <1>3, Zenon DEF Cat
  <2>3. /\ Head(N \o (A \o D)) = m.sequence /\ Tail(N \o (A \o D)) = A \o D
        /\ N \o (A \o D) # <<>>
    BY <2>1, <1>3, Zenon DEF Cat
  <2> QED
    BY <2>1, <2>2, <2>3, Zenon
<1>5. /\ Len(A) + 1 + Len(D) <= Len(b.inFlight) /\ Len(A) \in Nat /\ Len(D) \in Nat
      /\ Len(b.inFlight) \in Nat
      /\ ~EmptyTexts => /\ b.inFlight = N \o (A \o D)
                        /\ Full(b.pending) /\ FullData(b.toPage)
  <2>1. AcksOK(b, N \o A)
    BY <1>2, Zenon DEF PageInv
  <2>2. Len(N \o A) + Len(D) <= Len(b.inFlight)
    BY <2>1, Zenon DEF AcksOK, D
  <2>3. ~EmptyTexts => /\ b.inFlight = (N \o A) \o D
                       /\ Full(b.pending) /\ FullData(b.toPage)
    BY <2>1, Zenon DEF AcksOK, D
  <2>4. Len(A) \in Nat /\ Len(D) \in Nat /\ Len(b.inFlight) \in Nat
    BY <1>1, <1>2, LenProperties
  <2>5. Len(A) + 1 + Len(D) <= Len(b.inFlight)
    <3>1. (Len(A) + 1) + Len(D) <= Len(b.inFlight)
      BY <1>4, <2>2, Zenon
    <3> QED
      BY <2>4, <3>1
  <2> QED
    BY <1>4, <2>3, <2>4, <2>5, Zenon
<1> HIDE DEF n
<1>6. CASE b.inFlight = <<>> \/ Head(b.inFlight) # m.sequence
  <2>1. EmptyTexts
    BY <1>4, <1>5, <1>6, Zenon
  <2>2. AcksOK(b, A)
    BY <1>5, <2>1 DEF AcksOK, D
  <2>3. PageInv(b, Tail(na), pa, sc, w, u, left, ms)
    BY <1>1, <1>2, <2>2 DEF PageInv, A
  <2> QED
    BY <1>6, <2>1, <2>3 DEF m
<1>7. CASE ~(b.inFlight = <<>> \/ Head(b.inFlight) # m.sequence)
  <2> DEFINE q == Removed(b, bytes)
  <2>1. /\ BridgeOK(q, n) /\ q.pending = b.pending
        /\ q.ready = b.ready /\ q.restore = b.restore /\ q.awaitingRestore = b.awaitingRestore
        /\ q.dropped = b.dropped /\ q.inFlight = Tail(b.inFlight)
        /\ q.toPage = b.toPage
    BY <1>1, <1>7, RemovedOK, ZenonT(40)
  <2> HIDE DEF q
  <2>2. AcksOK(q, A)
    <3>1. Len(Tail(b.inFlight)) = Len(b.inFlight) - 1
      BY <1>1, <1>7, HeadTailProperties
    <3>2. Len(A) + Len(D) <= Len(Tail(b.inFlight))
      BY <1>5, <3>1
    <3>3. ~EmptyTexts => Tail(b.inFlight) = A \o D
      BY <1>4, <1>5, Zenon
    <3> QED
      BY <1>5, <2>1, <3>2, <3>3 DEF AcksOK, D
  <2>3. RestoresOK(q, Restores(Tail(na), pa)) /\ AskedOK(q, sc, left, ms)
    BY <1>2, <2>1 DEF PageInv, RestoresOK, AskedOK
  <2>4. Line(q) = Line(b)
    BY <2>1 DEF Line
  <2>5. PageInv(q, Tail(na), pa, sc, w, u, left, ms)
    BY <1>1, <2>1, <2>2, <2>3, <2>4 DEF PageInv, A, n
  <2> QED
    BY <1>7, <2>5 DEF m, q
<1> QED
  BY <1>6, <1>7

LEMMA AcknowledgePage ==
  ASSUME NEW b, NEW na, NEW pa, NEW sc, NEW w, NEW u, NEW left, NEW ms, NEW bytes \in Nat,
         PageInv(b, na, pa, sc, w, u, left, ms), na # <<>>, Head(na).kind = "ack"
  PROVE  PageInv(Acknowledge(b, Head(na).sequence, bytes), Tail(na), pa, sc, w, u, left, ms)
<1>1. PICK s : s = Head(na).sequence
  OBVIOUS
<1>2. CASE b.inFlight = <<>> \/ Head(b.inFlight) # s
  <2>1. PageInv(b, Tail(na), pa, sc, w, u, left, ms)
    BY <1>1, <1>2, RemovedPage
  <2> QED
    BY <1>1, <1>2, <2>1, AcknowledgeIs
<1>3. CASE ~(b.inFlight = <<>> \/ Head(b.inFlight) # s)
  <2>1. PICK q : q = Removed(b, bytes)
    OBVIOUS
  <2>2. PageInv(q, Tail(na), pa, sc, w, u, left, ms)
    BY <1>1, <1>3, <2>1, RemovedPage
  <2>3. PageInv(UpdateBackpressure(PumpSnapshotRequests(PumpPendingData(q))),
                Tail(na), pa, sc, w, u, left, ms)
    BY <2>2, PumpPage, AskPage, UpdatePage
  <2>4. Acknowledge(b, s, bytes)
          = UpdateBackpressure(PumpSnapshotRequests(PumpPendingData(q)))
    BY <1>3, <2>1, AcknowledgeIs
  <2> QED
    BY <1>1, <2>3, <2>4
<1> QED
  BY <1>2, <1>3

-----------------------------------------------------------------------------
(* READY and RESTORE_COMPLETE.                                             *)

Readied(b) == [b EXCEPT !.ready = TRUE]

Restoring(b) ==
  [b EXCEPT !.ready = TRUE, !.toPage = Append(@, Restore(b.restore)), !.restore = <<>>,
            !.awaitingRestore = TRUE]

LEMMA ReadyIs ==
  ASSUME NEW n \in Nat, NEW b, BridgeOK(b, n)
  PROVE  IF b.restore = <<>>
         THEN PageReady(b) = PumpSnapshotRequests(PumpPendingData(Readied(b)))
         ELSE PageReady(b) = PumpSnapshotRequests(PumpPendingData(Restoring(b)))
<1>1. b \in Bridges(n)
  BY DEF BridgeOK
<1>2. [Readied(b) EXCEPT !.toPage = Append(@, Restore(b.restore)), !.restore = <<>>,
                         !.awaitingRestore = TRUE] = Restoring(b)
  BY <1>1 DEF Readied, Restoring, Bridges
<1> QED
  BY <1>2 DEF PageReady, Readied

LEMMA ReadiedOK ==
  ASSUME NEW n \in Nat, NEW b, BridgeOK(b, n), b.restore = <<>>
  PROVE  LET q == Readied(b) IN
         /\ BridgeOK(q, n) /\ q.pending = b.pending
         /\ q.restore = b.restore /\ q.awaitingRestore = b.awaitingRestore
         /\ q.dropped = b.dropped /\ q.inFlight = b.inFlight
         /\ q.toPage = b.toPage /\ q.requests = b.requests
<1> DEFINE q == Readied(b)
<1>1. b \in Bridges(n)
  BY DEF BridgeOK
<1>2. /\ q \in Bridges(n) /\ q.pending = b.pending /\ q.pendingBytes = b.pendingBytes
      /\ q.restore = b.restore /\ q.awaitingRestore = b.awaitingRestore
      /\ q.dropped = b.dropped /\ q.inFlight = b.inFlight
      /\ q.toPage = b.toPage /\ q.requests = b.requests
  BY <1>1 DEF Readied, Bridges
<1> HIDE DEF q
<1>3. BridgeOK(q, n)
  BY <1>2 DEF BridgeOK
<1> QED
  BY <1>2, <1>3 DEF q

LEMMA RestoreMessage ==
  ASSUME NEW n, NEW r, r \in Text, r # <<>>
  PROVE  /\ Restore(r) \in PageMessages(n) /\ Restore(r) \in Messages
         /\ Restore(r).units = r /\ Restore(r).kind = "restore" /\ Restore(r).sequence = 0
BY DEF Restore, PageMessages, Messages, Kinds

LEMMA RestoringOK ==
  ASSUME NEW n \in Nat, NEW b, BridgeOK(b, n), b.restore # <<>>
  PROVE  LET q == Restoring(b) IN
         /\ BridgeOK(q, n) /\ q.pending = b.pending
         /\ q.restore = <<>> /\ q.awaitingRestore = TRUE
         /\ q.dropped = b.dropped /\ q.inFlight = b.inFlight
         /\ q.toPage = Append(b.toPage, Restore(b.restore)) /\ q.requests = b.requests
<1> DEFINE q == Restoring(b)
<1>1. /\ b \in Bridges(n) /\ b.toPage \in Seq(PageMessages(n)) /\ b.restore \in Text
      /\ <<>> \in Text
  BY EmptySeq DEF BridgeOK, Bridges, Text
<1>2. PICK tp \in Seq(PageMessages(n)) : tp = Append(b.toPage, Restore(b.restore))
  <2>1. Append(b.toPage, Restore(b.restore)) \in Seq(PageMessages(n))
    BY <1>1, RestoreMessage, AppendProperties
  <2> QED
    BY <2>1, Zenon
<1>3. q = [b EXCEPT !.ready = TRUE, !.toPage = tp, !.restore = <<>>, !.awaitingRestore = TRUE]
  BY <1>1, <1>2 DEF Restoring, Bridges
<1>4. /\ q \in Bridges(n) /\ q.pending = b.pending /\ q.pendingBytes = b.pendingBytes
      /\ q.restore = <<>> /\ q.awaitingRestore = TRUE
      /\ q.dropped = b.dropped /\ q.inFlight = b.inFlight
      /\ q.toPage = tp /\ q.requests = b.requests
  <2> HIDE DEF q
  <2> QED
    BY <1>1, <1>3 DEF Bridges
<1>5. BridgeOK(q, n)
  <2> HIDE DEF q
  <2> QED
    BY <1>4 DEF BridgeOK
<1> QED
  BY <1>2, <1>4, <1>5, Zenon

LEMMA ReadyOK ==
  ASSUME NEW n \in Nat, NEW b, BridgeOK(b, n)
  PROVE  BridgeOK(PageReady(b), n)
<1>1. CASE b.restore = <<>>
  <2>1. BridgeOK(PumpSnapshotRequests(PumpPendingData(Readied(b))), n)
    BY <1>1, ReadiedOK, PumpOK, AskOK
  <2> QED
    BY <1>1, <2>1, ReadyIs
<1>2. CASE b.restore # <<>>
  <2>1. BridgeOK(PumpSnapshotRequests(PumpPendingData(Restoring(b))), n)
    BY <1>2, RestoringOK, PumpOK, AskOK
  <2> QED
    BY <1>2, <2>1, ReadyIs
<1> QED
  BY <1>1, <1>2

LEMMA ReadiedPage ==
  ASSUME NEW b, NEW na, NEW pa, NEW sc, NEW w, NEW u, NEW left, NEW ms,
         PageInv(b, na, pa, sc, w, u, left, ms), b.restore = <<>>
  PROVE  PageInv(Readied(b), na, pa, sc, w, u, left, ms)
<1> DEFINE q == Readied(b)
<1>1. /\ Len(ms) \in Nat /\ BridgeOK(b, Len(ms))
  BY PageTypes
<1>2. /\ BridgeOK(q, Len(ms)) /\ q.pending = b.pending
      /\ q.restore = b.restore /\ q.awaitingRestore = b.awaitingRestore
      /\ q.dropped = b.dropped /\ q.inFlight = b.inFlight /\ q.toPage = b.toPage
  BY <1>1, ReadiedOK
<1> HIDE DEF q
<1>3. Line(q) = Line(b)
  BY <1>2 DEF Line
<1>4. AcksOK(q, Acks(na, pa)) /\ RestoresOK(q, Restores(na, pa)) /\ AskedOK(q, sc, left, ms)
  BY <1>2 DEF PageInv, AcksOK, RestoresOK, AskedOK
<1>5. PageInv(q, na, pa, sc, w, u, left, ms)
  BY <1>2, <1>3, <1>4 DEF PageInv
<1> QED
  BY <1>5 DEF q

LEMMA AppendMember ==
  ASSUME NEW S, NEW s, NEW e, NEW i, s \in Seq(S), e \in S, i \in DOMAIN Append(s, e)
  PROVE  \/ i \in DOMAIN s /\ Append(s, e)[i] = s[i]
         \/ Append(s, e)[i] = e
<1>1. /\ Len(s) \in Nat /\ DOMAIN s = 1..Len(s) /\ DOMAIN Append(s, e) = 1..(Len(s) + 1)
      /\ \A j \in 1..Len(s) : Append(s, e)[j] = s[j]
      /\ Append(s, e)[Len(s) + 1] = e
  BY AppendProperties, LenProperties
<1> QED
  BY <1>1

LEMMA RestoringPage ==
  ASSUME NEW b, NEW na, NEW pa, NEW sc, NEW w, NEW u, NEW left, NEW ms,
         PageInv(b, na, pa, sc, w, u, left, ms), b.restore # <<>>
  PROVE  PageInv(Restoring(b), na, pa, sc, w, u, left, ms)
<1> DEFINE n == Len(ms)
           q == Restoring(b)
           m == Restore(b.restore)
<1>1. /\ n \in Nat /\ BridgeOK(b, n) /\ b.toPage \in Seq(Messages) /\ b.restore \in Text
      /\ Restores(na, pa) \in Seq(Nat) /\ UnitsOf(b.toPage) \in Text
      /\ FlattenSeq(b.pending) \in Text /\ SequencesOf(b.toPage, "restore") \in Seq(Nat)
      /\ SequencesOf(b.toPage, "data") \in Seq(Nat)
  BY PageTypes, BridgeTypes
<1>2. /\ BridgeOK(q, n) /\ q.pending = b.pending
      /\ q.restore = <<>> /\ q.awaitingRestore = TRUE
      /\ q.dropped = b.dropped /\ q.inFlight = b.inFlight
      /\ q.toPage = Append(b.toPage, m)
  BY <1>1, RestoringOK
<1>3. m \in Messages /\ m.units = b.restore /\ m.kind = "restore" /\ m.sequence = 0
  BY <1>1, RestoreMessage
<1> HIDE DEF q, n, m
<1>4. UnitsOf(q.toPage) = UnitsOf(b.toPage) \o b.restore
  BY <1>1, <1>2, <1>3, UnitsAppend
<1>5. Line(q) = Line(b)
  <2>1. UnitsOf(b.toPage) \o b.restore \in Text
    BY <1>1, TextAssoc
  <2>2. (UnitsOf(b.toPage) \o b.restore) \o <<>> = UnitsOf(b.toPage) \o b.restore
    BY <2>1, TextEmpty, Zenon
  <2> QED
    BY <1>2, <1>4, <2>2, Zenon DEF Line
<1>6. /\ SequencesOf(q.toPage, "data") = SequencesOf(b.toPage, "data")
      /\ SequencesOf(q.toPage, "restore") = SequencesOf(b.toPage, "restore") \o <<0>>
  <2>1. \A kind : SequencesOf(Append(b.toPage, m), kind)
                    = SequencesOf(b.toPage, kind) \o NumberOf(m, kind)
    BY <1>1, <1>3, NumbersAppend
  <2>2. NumberOf(m, "data") = <<>> /\ NumberOf(m, "restore") = <<0>>
    BY <1>3 DEF NumberOf
  <2>3. SequencesOf(b.toPage, "data") \o <<>> = SequencesOf(b.toPage, "data")
    BY <1>1, ConcatEmptySeq
  <2> QED
    BY <1>2, <2>1, <2>2, <2>3, Zenon
<1>7. FullData(b.toPage) => FullData(q.toPage)
  <2> SUFFICES ASSUME FullData(b.toPage), NEW i \in DOMAIN q.toPage, q.toPage[i].kind = "data"
               PROVE  q.toPage[i].units # <<>>
    BY DEF FullData
  <2>1. \/ i \in DOMAIN b.toPage /\ q.toPage[i] = b.toPage[i]
        \/ q.toPage[i] = m
    BY <1>1, <1>2, <1>3, AppendMember
  <2> QED
    BY <1>3, <2>1 DEF FullData
<1>8. AcksOK(q, Acks(na, pa))
  BY <1>2, <1>6, <1>7 DEF PageInv, AcksOK
<1>9. RestoresOK(q, Restores(na, pa))
  <2>1. Restores(na, pa) \o SequencesOf(b.toPage, "restore") = <<>>
    BY Zenon DEF PageInv, RestoresOK
  <2>2. Restores(na, pa) = <<>> /\ SequencesOf(b.toPage, "restore") = <<>>
    BY <1>1, <2>1, ConcatNothing
  <2>3. <<>> \o <<0>> = <<0>> /\ <<>> \o (<<>> \o <<0>>) = <<0>>
    OBVIOUS
  <2>4. Restores(na, pa) \o SequencesOf(q.toPage, "restore") = <<0>>
    BY <1>6, <2>2, <2>3, Zenon
  <2> QED
    BY <1>2, <2>4 DEF RestoresOK
<1>10. AskedOK(q, sc, left, ms)
  <2> SUFFICES ASSUME NEW i \in DOMAIN q.toPage, q.toPage[i].kind = "snapshot"
               PROVE  Holds(sc, ms[q.toPage[i].sequence], left \cup q.dropped)
    BY DEF AskedOK
  <2>1. \/ i \in DOMAIN b.toPage /\ q.toPage[i] = b.toPage[i]
        \/ q.toPage[i] = m
    BY <1>1, <1>2, <1>3, AppendMember
  <2> QED
    BY <1>2, <1>3, <2>1 DEF PageInv, AskedOK
<1>11. PageInv(q, na, pa, sc, w, u, left, ms)
  BY <1>2, <1>5, <1>8, <1>9, <1>10 DEF PageInv, n
<1> QED
  BY <1>11 DEF q

LEMMA ReadyPage ==
  ASSUME NEW b, NEW na, NEW pa, NEW sc, NEW w, NEW u, NEW left, NEW ms,
         PageInv(b, na, pa, sc, w, u, left, ms)
  PROVE  PageInv(PageReady(b), na, pa, sc, w, u, left, ms)
<1>1. Len(ms) \in Nat /\ BridgeOK(b, Len(ms))
  BY PageTypes
<1>2. CASE b.restore = <<>>
  <2>1. PageInv(PumpSnapshotRequests(PumpPendingData(Readied(b))), na, pa, sc, w, u, left, ms)
    BY <1>2, ReadiedPage, PumpPage, AskPage
  <2> QED
    BY <1>1, <1>2, <2>1, ReadyIs
<1>3. CASE b.restore # <<>>
  <2>1. PageInv(PumpSnapshotRequests(PumpPendingData(Restoring(b))), na, pa, sc, w, u, left, ms)
    BY <1>3, RestoringPage, PumpPage, AskPage
  <2> QED
    BY <1>1, <1>3, <2>1, ReadyIs
<1> QED
  BY <1>2, <1>3

Restored(b) == [b EXCEPT !.awaitingRestore = FALSE]

LEMMA RestoredOK ==
  ASSUME NEW n \in Nat, NEW b, BridgeOK(b, n)
  PROVE  LET q == Restored(b) IN
         /\ BridgeOK(q, n) /\ q.pending = b.pending
         /\ q.restore = b.restore /\ q.awaitingRestore = FALSE
         /\ q.dropped = b.dropped /\ q.inFlight = b.inFlight
         /\ q.toPage = b.toPage /\ q.requests = b.requests
<1> DEFINE q == Restored(b)
<1>1. b \in Bridges(n)
  BY DEF BridgeOK
<1>2. /\ q \in Bridges(n) /\ q.pending = b.pending /\ q.pendingBytes = b.pendingBytes
      /\ q.restore = b.restore /\ q.awaitingRestore = FALSE /\ q.ready = b.ready
      /\ q.dropped = b.dropped /\ q.inFlight = b.inFlight
      /\ q.toPage = b.toPage /\ q.requests = b.requests
  BY <1>1 DEF Restored, Bridges
<1> HIDE DEF q
<1>3. BridgeOK(q, n)
  BY <1>2 DEF BridgeOK
<1> QED
  BY <1>2, <1>3 DEF q

LEMMA RestoreCompleteOK ==
  ASSUME NEW n \in Nat, NEW b, BridgeOK(b, n)
  PROVE  BridgeOK(RestoreComplete(b), n)
BY RestoredOK, AskOK DEF RestoreComplete, Restored

LEMMA RestoredPage ==
  ASSUME NEW b, NEW na, NEW pa, NEW sc, NEW w, NEW u, NEW left, NEW ms,
         PageInv(b, na, pa, sc, w, u, left, ms), na # <<>>, Head(na).kind = "restored"
  PROVE  b.awaitingRestore /\ PageInv(RestoreComplete(b), Tail(na), pa, sc, w, u, left, ms)
<1> DEFINE n == Len(ms)
           q == Restored(b)
           N == NumberOf(Head(na), "restored")
           R == Restores(Tail(na), pa)
           S == SequencesOf(b.toPage, "restore")
<1>1. /\ n \in Nat /\ BridgeOK(b, n) /\ na \in Seq(Messages) /\ pa \in Seq(Messages)
      /\ Tail(na) \in Seq(Messages) /\ S \in Seq(Nat) /\ b.awaitingRestore \in BOOLEAN
  BY PageTypes, NumbersTail, BridgeTypes
<1>2. /\ Head(na) \in Messages /\ R \in Seq(Nat) /\ Restores(na, pa) = N \o R
      /\ Acks(na, pa) = Acks(Tail(na), pa)
  BY <1>1, RestoresHead
<1>3. N \in Seq(Nat) /\ \A t \in Seq(Nat) : Len(Cat(N, t)) = Len(t) + 1
  BY <1>2, NumberType, NumberFirst
<1> HIDE DEF N, R, S
<1>4. (N \o R) \o S = N \o (R \o S) /\ R \o S \in Seq(Nat)
  <2> N \in Seq(Nat) /\ R \in Seq(Nat) /\ S \in Seq(Nat)
    BY <1>1, <1>2, <1>3
  <2> QED
    BY NumbersGroup, ZenonT(40)
<1>5. Len(N \o (R \o S)) = Len(R \o S) + 1 /\ Len(R \o S) \in Nat
  <2>1. Len(N \o (R \o S)) = Len(R \o S) + 1
    BY <1>3, <1>4, Zenon DEF Cat
  <2> QED
    BY <1>4, <2>1, LenProperties
<1>6. (N \o R) \o S = IF b.awaitingRestore THEN <<0>> ELSE <<>>
  BY <1>2, Zenon DEF PageInv, RestoresOK, S
<1>7. Len(R \o S) + 1 = Len(IF b.awaitingRestore THEN <<0>> ELSE <<>>)
  BY <1>4, <1>5, <1>6, Zenon
<1>8. b.awaitingRestore /\ R \o S = <<>>
  <2>1. Len(<<>>) = 0 /\ Len(<<0>>) = 1
    OBVIOUS
  <2>2. b.awaitingRestore
    BY <1>5, <1>7, <2>1
  <2>3. Len(R \o S) + 1 = 1
    BY <1>7, <2>1, <2>2
  <2>4. Len(R \o S) = 0
    BY <1>5, <2>3
  <2> QED
    BY <1>4, <2>2, <2>4, EmptySeq
<1>9. /\ BridgeOK(q, n) /\ q.pending = b.pending
      /\ q.restore = b.restore /\ q.awaitingRestore = FALSE
      /\ q.dropped = b.dropped /\ q.inFlight = b.inFlight /\ q.toPage = b.toPage
  BY <1>1, RestoredOK
<1> HIDE DEF q, n
<1>10. Line(q) = Line(b)
  BY <1>9 DEF Line
<1>11. AcksOK(q, Acks(Tail(na), pa)) /\ AskedOK(q, sc, left, ms)
  BY <1>2, <1>9 DEF PageInv, AcksOK, AskedOK
<1>12. RestoresOK(q, Restores(Tail(na), pa))
  BY <1>8, <1>9, Zenon DEF RestoresOK, R, S
<1>13. PageInv(q, Tail(na), pa, sc, w, u, left, ms)
  BY <1>1, <1>9, <1>10, <1>11, <1>12 DEF PageInv, n
<1>14. PageInv(PumpSnapshotRequests(q), Tail(na), pa, sc, w, u, left, ms)
  BY <1>13, AskPage
<1> QED
  BY <1>8, <1>14 DEF RestoreComplete, q, Restored

-----------------------------------------------------------------------------
(* RequestSnapshot.                                                        *)

Requested(b, r) == [b EXCEPT !.requests = Append(@, r)]

LEMMA MoreMessages ==
  ASSUME NEW n \in Nat
  PROVE  /\ PageMessages(n) \subseteq PageMessages(n + 1)
         /\ NativeMessages(n) \subseteq NativeMessages(n + 1)
         /\ 1..n \subseteq 1..(n + 1)
         /\ Seq(PageMessages(n)) \subseteq Seq(PageMessages(n + 1))
         /\ Seq(NativeMessages(n)) \subseteq Seq(NativeMessages(n + 1))
         /\ Seq(1..n) \subseteq Seq(1..(n + 1))
<1>1. 1..n \subseteq 1..(n + 1)
  OBVIOUS
<1>2. PageMessages(n) \subseteq PageMessages(n + 1)
  BY <1>1 DEF PageMessages
<1>3. NativeMessages(n) \subseteq NativeMessages(n + 1)
  BY <1>1 DEF NativeMessages
<1> QED
  BY <1>1, <1>2, <1>3, SeqMonotonic

LEMMA RequestedOK ==
  ASSUME NEW n \in Nat, NEW b, BridgeOK(b, n)
  PROVE  LET q == Requested(b, n + 1) IN
         /\ BridgeOK(q, n + 1) /\ q.pending = b.pending
         /\ q.restore = b.restore /\ q.awaitingRestore = b.awaitingRestore
         /\ q.dropped = b.dropped /\ q.inFlight = b.inFlight
         /\ q.toPage = b.toPage /\ q.backpressured = b.backpressured
<1> DEFINE q == Requested(b, n + 1)
<1>1. b \in Bridges(n) /\ b.requests \in Seq(1..n) /\ b.toPage \in Seq(PageMessages(n))
  BY DEF BridgeOK, Bridges
<1>2. PICK rs \in Seq(1..(n + 1)) : rs = Append(b.requests, n + 1)
  <2>1. b.requests \in Seq(1..(n + 1)) /\ n + 1 \in 1..(n + 1)
    BY <1>1, MoreMessages
  <2>2. Append(b.requests, n + 1) \in Seq(1..(n + 1))
    BY <2>1, AppendProperties
  <2> QED
    BY <2>2, Zenon
<1>3. b.toPage \in Seq(PageMessages(n + 1))
  BY <1>1, MoreMessages
<1>4. q = [b EXCEPT !.requests = rs]
  BY <1>1, <1>2 DEF Requested, Bridges
<1>5. /\ q \in Bridges(n + 1) /\ q.pending = b.pending /\ q.pendingBytes = b.pendingBytes
      /\ q.restore = b.restore /\ q.awaitingRestore = b.awaitingRestore /\ q.ready = b.ready
      /\ q.dropped = b.dropped /\ q.inFlight = b.inFlight
      /\ q.toPage = b.toPage /\ q.backpressured = b.backpressured
  <2> HIDE DEF q
  <2> QED
    BY <1>1, <1>3, <1>4 DEF Bridges
<1>6. BridgeOK(q, n + 1)
  <2> HIDE DEF q
  <2> QED
    BY <1>5 DEF BridgeOK
<1> QED
  BY <1>5, <1>6, Zenon

LEMMA RequestOK ==
  ASSUME NEW n \in Nat, NEW b, BridgeOK(b, n)
  PROVE  /\ BridgeOK(RequestSnapshot(b, n + 1), n + 1)
         /\ RequestSnapshot(b, n + 1).backpressured = b.backpressured
<1>1. n + 1 \in Nat
  OBVIOUS
<1>2. /\ BridgeOK(Requested(b, n + 1), n + 1)
      /\ Requested(b, n + 1).backpressured = b.backpressured
  BY RequestedOK
<1>3. RequestSnapshot(b, n + 1) = PumpSnapshotRequests(Requested(b, n + 1))
  BY DEF RequestSnapshot, Requested
<1>4. /\ BridgeOK(PumpSnapshotRequests(Requested(b, n + 1)), n + 1)
      /\ PumpSnapshotRequests(Requested(b, n + 1)).backpressured
           = Requested(b, n + 1).backpressured
  BY <1>1, <1>2, AskOK
<1> QED
  BY <1>2, <1>3, <1>4, Zenon

LEMMA RequestPage ==
  ASSUME NEW b, NEW na, NEW pa, NEW sc, NEW w, NEW u, NEW left, NEW ms, NEW mark \in Nat,
         PageInv(b, na, pa, sc, w, u, left, ms), mark <= u, \A x \in Range(w) : mark < x
  PROVE  PageInv(RequestSnapshot(b, Len(ms) + 1), na, pa, sc, w, u, left, Append(ms, mark))
<1> DEFINE n == Len(ms)
           q == Requested(b, n + 1)
           ns == Append(ms, mark)
<1>1. /\ n \in Nat /\ BridgeOK(b, n) /\ ms \in Seq(Nat) /\ DOMAIN ms = 1..n
      /\ b.toPage \in Seq(PageMessages(n)) /\ DOMAIN b.toPage = 1..Len(b.toPage)
  BY PageTypes, BridgeTypes, LenProperties DEF PageInv
<1>2. /\ BridgeOK(q, n + 1) /\ q.pending = b.pending
      /\ q.restore = b.restore /\ q.awaitingRestore = b.awaitingRestore
      /\ q.dropped = b.dropped /\ q.inFlight = b.inFlight /\ q.toPage = b.toPage
  BY <1>1, RequestedOK
<1>3. /\ ns \in Seq(Nat) /\ Len(ns) = n + 1 /\ DOMAIN ns = 1..(n + 1)
      /\ \A r \in 1..n : ns[r] = ms[r]
      /\ ns[n + 1] = mark
  BY <1>1, AppendProperties, LenProperties
<1> HIDE DEF q, n, ns
<1>4. Line(q) = Line(b)
  BY <1>2 DEF Line
<1>5. AcksOK(q, Acks(na, pa)) /\ RestoresOK(q, Restores(na, pa))
  BY <1>2 DEF PageInv, AcksOK, RestoresOK
<1>6. MarksOK(ns, w, u)
  <2> SUFFICES ASSUME NEW r \in 1..(n + 1)
               PROVE  ns[r] <= u /\ \A x \in Range(w) : ns[r] < x
    BY <1>3 DEF MarksOK
  <2>1. CASE r \in 1..n
    BY <1>1, <1>3, <2>1 DEF PageInv, MarksOK
  <2>2. CASE r = n + 1
    BY <1>3, <2>2
  <2> QED
    BY <1>1, <2>1, <2>2
<1>7. AskedOK(q, sc, left, ns)
  <2> SUFFICES ASSUME NEW i \in DOMAIN b.toPage, b.toPage[i].kind = "snapshot"
               PROVE  Holds(sc, ns[b.toPage[i].sequence], left \cup b.dropped)
    BY <1>2 DEF AskedOK
  <2>1. b.toPage[i] \in PageMessages(n)
    BY <1>1, ElementOfSeq
  <2>2. b.toPage[i].sequence \in 1..n
    BY <2>1 DEF PageMessages
  <2>3. ns[b.toPage[i].sequence] = ms[b.toPage[i].sequence]
    BY <1>3, <2>2
  <2> QED
    BY <2>3 DEF PageInv, AskedOK
<1>8. PageInv(q, na, pa, sc, w, u, left, ns)
  BY <1>2, <1>3, <1>4, <1>5, <1>6, <1>7 DEF PageInv
<1>9. PageInv(PumpSnapshotRequests(q), na, pa, sc, w, u, left, ns)
  BY <1>8, AskPage
<1> QED
  BY <1>9 DEF RequestSnapshot, Requested, q, n, ns

-----------------------------------------------------------------------------
(* Several chunks.                                                         *)

\* The recursive function of BridgeWriteAll, up to k chunks.
Writes(f, b, chunks, k) ==
  f = [i \in 0..k |-> IF i = 0 THEN b ELSE BridgeWrite(f[i - 1], chunks[i])]

LEMMA WritesExists ==
  ASSUME NEW b, NEW chunks, NEW n \in Nat
  PROVE  \E f : Writes(f, b, chunks, n)
<1> DEFINE T == {k \in Nat : \E f : Writes(f, b, chunks, k)}
<1>1. 0 \in T
  <2>1. Writes([i \in 0..0 |-> b], b, chunks, 0)
    BY DEF Writes
  <2> QED
    BY <2>1
<1>2. ASSUME NEW k \in T PROVE k + 1 \in T
  <2>1. PICK f : Writes(f, b, chunks, k)
    OBVIOUS
  <2> DEFINE g == [i \in 0..(k + 1) |-> IF i <= k THEN f[i] ELSE BridgeWrite(f[i - 1], chunks[i])]
  <2>2. \A i \in 0..k : f[i] = IF i = 0 THEN b ELSE BridgeWrite(f[i - 1], chunks[i])
    BY <2>1 DEF Writes
  <2>3. ASSUME NEW i \in 0..(k + 1)
        PROVE  g[i] = IF i = 0 THEN b ELSE BridgeWrite(g[i - 1], chunks[i])
    <3>1. CASE i <= k
      <4>1. g[i] = f[i] /\ i \in 0..k
        BY <3>1
      <4>2. i # 0 => i - 1 \in 0..(k + 1) /\ i - 1 <= k
        BY <3>1
      <4>3. i # 0 => g[i - 1] = f[i - 1]
        BY <4>2
      <4> HIDE DEF g
      <4> QED
        BY <4>1, <4>3, <2>2
    <3>2. CASE ~(i <= k)
      <4>1. i # 0 /\ i - 1 \in 0..(k + 1) /\ i - 1 <= k
        BY <3>2
      <4>2. g[i - 1] = f[i - 1]
        BY <4>1
      <4>3. g[i] = BridgeWrite(f[i - 1], chunks[i])
        BY <3>2
      <4> HIDE DEF g
      <4> QED
        BY <4>1, <4>2, <4>3
    <3> QED
      BY <3>1, <3>2
  <2>4. g = [i \in 0..(k + 1) |-> g[i]]
    OBVIOUS
  <2>5. Writes(g, b, chunks, k + 1)
    <3> HIDE DEF g
    <3> QED
      BY <2>3, <2>4 DEF Writes
  <2> QED
    BY <2>5
<1>3. T = Nat
  <2> HIDE DEF T
  <2>1. T \subseteq Nat
    BY DEF T
  <2> QED
    BY <1>1, <1>2, <2>1, NatBySet
<1> QED
  BY <1>3

Writing(f, b, chunks) ==
  /\ f[0] = b
  /\ \A k \in Nat : k + 1 <= Len(chunks) => f[k + 1] = BridgeWrite(f[k], chunks[k + 1])

LEMMA WriteAllIs ==
  ASSUME NEW b, NEW chunks, chunks \in Seq(Text)
  PROVE  \E f : Writing(f, b, chunks) /\ BridgeWriteAll(b, chunks) = f[Len(chunks)]
<1> DEFINE f == CHOOSE f : f = [i \in 0..Len(chunks) |->
                              IF i = 0 THEN b ELSE BridgeWrite(f[i - 1], chunks[i])]
<1>1. Len(chunks) \in Nat
  BY LenProperties
<1>2. Writes(f, b, chunks, Len(chunks))
  <2>1. \E g : Writes(g, b, chunks, Len(chunks))
    BY <1>1, WritesExists
  <2> QED
    BY <2>1, Zenon DEF Writes
<1>3. BridgeWriteAll(b, chunks) = f[Len(chunks)]
  BY DEF BridgeWriteAll
<1> HIDE DEF f
<1>4. \A i \in 0..Len(chunks) : f[i] = IF i = 0 THEN b ELSE BridgeWrite(f[i - 1], chunks[i])
  BY <1>2 DEF Writes
<1>5. f[0] = b
  BY <1>1, <1>4
<1>6. ASSUME NEW k \in Nat, k + 1 <= Len(chunks)
      PROVE  f[k + 1] = BridgeWrite(f[k], chunks[k + 1])
  <2>1. k + 1 \in 0..Len(chunks) /\ k + 1 # 0 /\ (k + 1) - 1 = k
    BY <1>1, <1>6
  <2> QED
    BY <1>4, <2>1
<1>7. Writing(f, b, chunks)
  BY <1>5, <1>6 DEF Writing
<1> QED
  BY <1>3, <1>7

LEMMA WriteAllOK ==
  ASSUME NEW n \in Nat, NEW b, BridgeOK(b, n), NEW chunks, chunks \in Seq(Text)
  PROVE  BridgeOK(BridgeWriteAll(b, chunks), n)
<1>1. PICK f : Writing(f, b, chunks) /\ BridgeWriteAll(b, chunks) = f[Len(chunks)]
  BY WriteAllIs
<1>2. Len(chunks) \in Nat
  BY LenProperties
<1> DEFINE T == {k \in Nat : k <= Len(chunks) => BridgeOK(f[k], n)}
<1>3. 0 \in T
  BY <1>1 DEF Writing
<1>4. ASSUME NEW k \in T PROVE k + 1 \in T
  <2>1. CASE k + 1 <= Len(chunks)
    <3>1. BridgeOK(f[k], n) /\ chunks[k + 1] \in Text
      BY <1>2, <2>1, ElementOfSeq
    <3>2. BridgeOK(BridgeWrite(f[k], chunks[k + 1]), n)
      BY <3>1, WriteOK
    <3>3. BridgeOK(f[k + 1], n)
      BY <1>1, <2>1, <3>2 DEF Writing
    <3> QED
      BY <3>3
  <2> QED
    BY <2>1
<1>5. T = Nat
  <2>1. T \subseteq Nat
    OBVIOUS
  <2> HIDE DEF T
  <2> QED
    BY <1>3, <1>4, <2>1, NatBySet
<1>6. BridgeOK(f[Len(chunks)], n)
  BY <1>2, <1>5
<1> QED
  BY <1>1, <1>6

LEMMA RestHead ==
  ASSUME NEW S, NEW s, NEW k, s \in Seq(S), k \in Nat, k + 1 <= Len(s)
  PROVE  /\ SubSeq(s, k + 1, Len(s)) \in Seq(S) /\ SubSeq(s, (k + 1) + 1, Len(s)) \in Seq(S)
         /\ SubSeq(s, k + 1, Len(s)) # <<>> /\ Head(SubSeq(s, k + 1, Len(s))) = s[k + 1]
         /\ Tail(SubSeq(s, k + 1, Len(s))) = SubSeq(s, (k + 1) + 1, Len(s))
<1>1. Len(s) \in Nat /\ k + 1 \in 1..Len(s) /\ Len(s) \in (k + 1)..Len(s)
  BY LenProperties
<1>2. \A i \in 1..Len(s) : s[i] \in S
  BY ElementOfSeq
<1>3. SubSeq(s, k + 1, Len(s)) \in Seq(S) /\ Len(SubSeq(s, k + 1, Len(s))) # 0
  <2>1. \A i \in (k + 1)..Len(s) : s[i] \in S
    BY <1>1, <1>2
  <2>2. /\ SubSeq(s, k + 1, Len(s)) \in Seq(S)
        /\ Len(SubSeq(s, k + 1, Len(s)))
             = IF k + 1 <= Len(s) THEN Len(s) - (k + 1) + 1 ELSE 0
    BY <1>1, <2>1, SubSeqProperties
  <2> QED
    BY <1>1, <2>2
<1>4. SubSeq(s, k + 1, Len(s)) # <<>>
  BY <1>3, EmptySeq
<1>5. /\ Head(SubSeq(s, k + 1, Len(s))) = s[k + 1]
      /\ Tail(SubSeq(s, k + 1, Len(s))) = SubSeq(s, (k + 1) + 1, Len(s))
  BY <1>1, HeadTailOfSubSeq
<1>6. Tail(SubSeq(s, k + 1, Len(s))) \in Seq(S)
  BY <1>3, <1>4, HeadTailProperties
<1>7. SubSeq(s, (k + 1) + 1, Len(s)) \in Seq(S)
  BY <1>5, <1>6, Zenon
<1> QED
  BY <1>3, <1>4, <1>5, <1>7

-----------------------------------------------------------------------------
(* Units come, and are left behind.                                        *)

LEMMA GrowPage ==
  ASSUME NEW b, NEW na, NEW pa, NEW sc, NEW w, NEW u, NEW left, NEW ms,
         PageInv(b, na, pa, sc, w, u, left, ms), u + 1 \in Unit
  PROVE  PageInv(b, na, pa, sc, w \o <<u + 1>>, u + 1, left, ms)
<1> DEFINE F == (sc \o UnitsOf(pa)) \o Line(b)
<1>1. F \in Text /\ StreamOK(F, w, u, left, b.dropped)
  BY PageTypes DEF PageInv
<1> HIDE DEF F
<1>0. w \in Text /\ u \in Nat /\ u + 1 \in Nat
  BY DEF PageInv
<1>2. /\ w \o <<u + 1>> \in Text /\ StreamOK(F, w \o <<u + 1>>, u + 1, left, b.dropped)
      /\ Range(w \o <<u + 1>>) = Range(w) \cup {u + 1}
  BY <1>0, <1>1, StreamGrows
<1>3. MarksOK(ms, w \o <<u + 1>>, u + 1)
  <2>1. MarksOK(ms, w, u) /\ \A r \in DOMAIN ms : ms[r] \in Nat
    BY DEF PageInv
  <2> QED
    BY <1>0, <1>2, <2>1 DEF MarksOK
<1> QED
  BY <1>0, <1>2, <1>3 DEF PageInv, F

LEMMA StreamLeaves ==
  ASSUME NEW X, NEW w, NEW o, NEW u, NEW left, NEW d, X \in Text, w \in Text, o \in Text,
         StreamOK(X, w \o o, u, left, d)
  PROVE  StreamOK(X, w, u, left \cup Range(o), d)
<1>1. w \o o \in Text
  BY TextAssoc
<1>2. /\ Increasing(X) /\ Increasing(w \o o) /\ Before(Range(X), Range(w \o o))
      /\ Range(X) \cup Range(w \o o) = (1..u) \ (left \cup d)
      /\ left \cup d \subseteq 1..u /\ Before(d, Range(w \o o))
  BY <1>1, StreamIs
<1>3. Increasing(w) /\ Increasing(o) /\ Before(Range(w), Range(o))
  BY <1>2, TextIncreasing
<1>4. Range(w \o o) = Range(w) \cup Range(o)
  BY RangeConcat
<1>5. Range(X) \subseteq Nat /\ Range(o) \subseteq Nat /\ Range(w) \subseteq Nat
  BY RangeMembers, UnitNat DEF Text
<1>6. \A x \in Range(o) : x \notin Range(X) /\ x \notin Range(w)
  BY <1>2, <1>3, <1>4, <1>5 DEF Before
<1>7. Range(X) \cup Range(w) = (1..u) \ ((left \cup Range(o)) \cup d)
  BY <1>2, <1>4, <1>6
<1>8. Before(Range(X), Range(w)) /\ Before(d, Range(w))
  BY <1>2, <1>4 DEF Before
<1>9. (left \cup Range(o)) \cup d \subseteq 1..u
  BY <1>2, <1>4
<1> QED
  BY <1>2, <1>3, <1>7, <1>8, <1>9, StreamIs

LEMMA LeavePage ==
  ASSUME NEW b, NEW na, NEW pa, NEW sc, NEW w, NEW u, NEW left, NEW ms, NEW o,
         PageInv(b, na, pa, sc, w \o o, u, left, ms), w \in Text, o \in Text
  PROVE  PageInv(b, na, pa, sc, w, u, left \cup Range(o), ms)
<1> DEFINE F == (sc \o UnitsOf(pa)) \o Line(b)
<1>1. F \in Text /\ StreamOK(F, w \o o, u, left, b.dropped)
  BY PageTypes DEF PageInv
<1> HIDE DEF F
<1>2. StreamOK(F, w, u, left \cup Range(o), b.dropped)
  BY <1>1, StreamLeaves
<1>3. MarksOK(ms, w, u)
  <2>1. Range(w \o o) = Range(w) \cup Range(o)
    BY RangeConcat
  <2>2. MarksOK(ms, w \o o, u)
    BY DEF PageInv
  <2> QED
    BY <2>1, <2>2 DEF MarksOK
<1>4. AskedOK(b, sc, left \cup Range(o), ms)
  <2>1. left \cup b.dropped \subseteq (left \cup Range(o)) \cup b.dropped
    OBVIOUS
  <2>2. AskedOK(b, sc, left, ms)
    BY DEF PageInv
  <2> QED
    BY <2>1, <2>2, HoldsMore DEF AskedOK
<1> QED
  BY <1>2, <1>3, <1>4 DEF PageInv, F

-----------------------------------------------------------------------------
(* The page takes a message, and the parser is through with one.           *)

Received(b) == [b EXCEPT !.toPage = Tail(@)]

LEMMA ReceivedOK ==
  ASSUME NEW n \in Nat, NEW b, BridgeOK(b, n), b.toPage # <<>>
  PROVE  LET q == Received(b) IN
         /\ BridgeOK(q, n) /\ q.pending = b.pending
         /\ q.restore = b.restore /\ q.awaitingRestore = b.awaitingRestore
         /\ q.dropped = b.dropped /\ q.inFlight = b.inFlight
         /\ q.toPage = Tail(b.toPage) /\ q.backpressured = b.backpressured
<1> DEFINE q == Received(b)
<1>1. b \in Bridges(n) /\ b.toPage \in Seq(PageMessages(n))
  BY DEF BridgeOK, Bridges
<1>2. PICK tp \in Seq(PageMessages(n)) : tp = Tail(b.toPage)
  <2>1. Tail(b.toPage) \in Seq(PageMessages(n))
    BY <1>1, HeadTailProperties
  <2> QED
    BY <2>1, Zenon
<1>3. q = [b EXCEPT !.toPage = tp]
  BY <1>1, <1>2 DEF Received, Bridges
<1>4. /\ q \in Bridges(n) /\ q.pending = b.pending /\ q.pendingBytes = b.pendingBytes
      /\ q.restore = b.restore /\ q.awaitingRestore = b.awaitingRestore /\ q.ready = b.ready
      /\ q.dropped = b.dropped /\ q.inFlight = b.inFlight
      /\ q.toPage = tp /\ q.backpressured = b.backpressured
  <2> HIDE DEF q
  <2> QED
    BY <1>1, <1>3 DEF Bridges
<1>5. BridgeOK(q, n)
  <2> HIDE DEF q
  <2> QED
    BY <1>4 DEF BridgeOK
<1> QED
  BY <1>2, <1>4, <1>5, Zenon

LEMMA TailMember ==
  ASSUME NEW S, NEW s, NEW i, s \in Seq(S), s # <<>>, i \in DOMAIN Tail(s)
  PROVE  i + 1 \in DOMAIN s /\ Tail(s)[i] = s[i + 1]
<1>1. /\ Len(s) \in Nat /\ DOMAIN s = 1..Len(s) /\ Tail(s) \in Seq(S)
      /\ Len(Tail(s)) = Len(s) - 1
      /\ \A j \in 1..Len(Tail(s)) : Tail(s)[j] = s[j + 1]
  BY HeadTailProperties, LenProperties
<1>2. DOMAIN Tail(s) = 1..Len(Tail(s))
  BY <1>1, LenProperties
<1> QED
  BY <1>1, <1>2

LEMMA FrontTakes ==
  ASSUME NEW a, NEW b, NEW m, NEW c, NEW r, NEW p,
         a \in Text, b \in Text, m \in Text, c \in Text, r \in Text, p \in Text
  PROVE  Cat(Cat(a, b), Cat(Cat(Cat(m, c), r), p)) = Cat(Cat(a, Cat(b, m)), Cat(Cat(c, r), p))
BY CatText

\* The parser p2 is pa after the page has got m.
Takes(pa, p2, m) ==
  /\ p2 \in Seq(ParserMessages)
  /\ UnitsOf(p2) = UnitsOf(pa) \o m.units
  /\ SequencesOf(p2, "restore") = SequencesOf(pa, "restore") \o NumberOf(m, "restore")
  /\ \/ SequencesOf(p2, "data") = SequencesOf(pa, "data") \o NumberOf(m, "data")
     \/ /\ m.kind = "data" /\ m.units = <<>>
        /\ SequencesOf(p2, "data") = SequencesOf(pa, "data")

LEMMA TakesPage ==
  ASSUME NEW b, NEW na, NEW pa, NEW sc, NEW w, NEW u, NEW left, NEW ms, NEW p2,
         PageInv(b, na, pa, sc, w, u, left, ms), b.toPage # <<>>, Takes(pa, p2, Head(b.toPage))
  PROVE  PageInv(Received(b), na, p2, sc, w, u, left, ms)
<1> DEFINE n == Len(ms)
           q == Received(b)
           m == Head(b.toPage)
<1>1. /\ n \in Nat /\ BridgeOK(b, n) /\ b.toPage \in Seq(Messages) /\ na \in Seq(Messages)
      /\ pa \in Seq(Messages) /\ sc \in Text /\ UnitsOf(pa) \in Text
      /\ FlattenSeq(b.pending) \in Text /\ b.restore \in Text /\ b.inFlight \in Seq(Nat)
  BY PageTypes, BridgeTypes
<1>2. /\ BridgeOK(q, n) /\ q.pending = b.pending
      /\ q.restore = b.restore /\ q.awaitingRestore = b.awaitingRestore
      /\ q.dropped = b.dropped /\ q.inFlight = b.inFlight
      /\ q.toPage = Tail(b.toPage)
  BY <1>1, ReceivedOK
<1>3. /\ m \in Messages /\ q.toPage \in Seq(Messages)
      /\ UnitsOf(b.toPage) = m.units \o UnitsOf(q.toPage)
  <2>1. /\ m \in Messages /\ Tail(b.toPage) \in Seq(Messages)
        /\ UnitsOf(b.toPage) = m.units \o UnitsOf(Tail(b.toPage))
    BY <1>1, UnitsTail
  <2> QED
    BY <1>2, <2>1, Zenon
<1>4. \A kind : /\ SequencesOf(b.toPage, kind) = NumberOf(m, kind) \o SequencesOf(q.toPage, kind)
                /\ NumberOf(m, kind) \in Seq(Nat) /\ SequencesOf(q.toPage, kind) \in Seq(Nat)
                /\ SequencesOf(pa, kind) \in Seq(Nat) /\ SequencesOf(na, kind) \in Seq(Nat)
  <2> SUFFICES ASSUME NEW kind
               PROVE  /\ SequencesOf(b.toPage, kind) = NumberOf(m, kind) \o SequencesOf(q.toPage, kind)
                      /\ NumberOf(m, kind) \in Seq(Nat) /\ SequencesOf(q.toPage, kind) \in Seq(Nat)
                      /\ SequencesOf(pa, kind) \in Seq(Nat) /\ SequencesOf(na, kind) \in Seq(Nat)
    OBVIOUS
  <2>1. SequencesOf(b.toPage, kind) = NumberOf(m, kind) \o SequencesOf(Tail(b.toPage), kind)
    BY <1>1, NumbersTail
  <2>2. /\ NumberOf(m, kind) \in Seq(Nat) /\ SequencesOf(q.toPage, kind) \in Seq(Nat)
        /\ SequencesOf(pa, kind) \in Seq(Nat) /\ SequencesOf(na, kind) \in Seq(Nat)
    BY <1>1, <1>3, NumberType, NumbersType
  <2> QED
    BY <1>2, <2>1, <2>2, Zenon
<1>5. /\ UnitsOf(p2) = UnitsOf(pa) \o m.units
      /\ SequencesOf(p2, "restore") = SequencesOf(pa, "restore") \o NumberOf(m, "restore")
      /\ \/ SequencesOf(p2, "data") = SequencesOf(pa, "data") \o NumberOf(m, "data")
         \/ /\ m.kind = "data" /\ m.units = <<>>
            /\ SequencesOf(p2, "data") = SequencesOf(pa, "data")
      /\ p2 \in Seq(ParserMessages)
  BY Zenon DEF Takes
<1> HIDE DEF n, q, m
<1>6. (sc \o UnitsOf(p2)) \o Line(q) = (sc \o UnitsOf(pa)) \o Line(b)
  <2>1. m.units \in Text /\ UnitsOf(q.toPage) \in Text
    BY <1>3, UnitsType DEF Messages
  <2>2. (sc \o UnitsOf(pa)) \o (((m.units \o UnitsOf(q.toPage)) \o b.restore) \o FlattenSeq(b.pending))
          = (sc \o (UnitsOf(pa) \o m.units))
              \o ((UnitsOf(q.toPage) \o b.restore) \o FlattenSeq(b.pending))
    <3>1. Cat(Cat(sc, UnitsOf(pa)),
              Cat(Cat(Cat(m.units, UnitsOf(q.toPage)), b.restore), FlattenSeq(b.pending)))
            = Cat(Cat(sc, Cat(UnitsOf(pa), m.units)),
                  Cat(Cat(UnitsOf(q.toPage), b.restore), FlattenSeq(b.pending)))
      BY <1>1, <2>1, FrontTakes
    <3> QED
      BY <3>1, Zenon DEF Cat
  <2> QED
    BY <1>2, <1>3, <1>5, <2>2, Zenon DEF Line
<1>7. RestoresOK(q, Restores(na, p2))
  <2> DEFINE N == SequencesOf(na, "restored")
             A == SequencesOf(pa, "restore")
             B == NumberOf(m, "restore")
             C == SequencesOf(q.toPage, "restore")
  <2>1. N \in Seq(Nat) /\ A \in Seq(Nat) /\ B \in Seq(Nat) /\ C \in Seq(Nat)
    BY <1>4
  <2>2. /\ Restores(na, pa) = N \o A /\ Restores(na, p2) = N \o (A \o B)
        /\ SequencesOf(b.toPage, "restore") = B \o C
    BY <1>4, <1>5, Zenon DEF Restores
  <2> HIDE DEF N, A, B, C
  <2>3. (N \o (A \o B)) \o C = (N \o A) \o (B \o C)
    <3>1. Cat(Cat(N, Cat(A, B)), C) = Cat(Cat(N, A), Cat(B, C))
      BY <2>1, FourNumbers
    <3> QED
      BY <3>1, Zenon DEF Cat
  <2>4. Restores(na, p2) \o C = Restores(na, pa) \o SequencesOf(b.toPage, "restore")
    BY <2>2, <2>3, Zenon
  <2> QED
    BY <1>2, <2>4, Zenon DEF PageInv, RestoresOK, C
<1>8. AcksOK(q, Acks(na, p2))
  <2> DEFINE N == SequencesOf(na, "ack")
             A == SequencesOf(pa, "data")
             B == NumberOf(m, "data")
             C == SequencesOf(q.toPage, "data")
  <2>1. /\ N \in Seq(Nat) /\ A \in Seq(Nat) /\ B \in Seq(Nat) /\ C \in Seq(Nat)
        /\ Acks(na, pa) \in Seq(Nat) /\ Len(Acks(na, pa)) \in Nat
        /\ Len(B) \in Nat /\ Len(C) \in Nat /\ Len(b.inFlight) \in Nat
    BY <1>1, <1>4, NumbersAssoc, LenProperties DEF Acks
  <2>2. Acks(na, pa) = N \o A /\ SequencesOf(b.toPage, "data") = B \o C
    BY <1>4, Zenon DEF Acks
  <2>3. /\ Len(Acks(na, pa)) + Len(SequencesOf(b.toPage, "data")) <= Len(b.inFlight)
        /\ ~EmptyTexts =>
             /\ b.inFlight = Acks(na, pa) \o SequencesOf(b.toPage, "data")
             /\ Full(b.pending) /\ FullData(b.toPage)
    BY DEF PageInv, AcksOK
  <2>4. DOMAIN b.toPage = 1..Len(b.toPage) /\ 1 \in DOMAIN b.toPage /\ m = b.toPage[1]
    BY <1>1, EmptySeq, HeadTailProperties, LenProperties DEF m
  <2>5. FullData(b.toPage) => FullData(q.toPage) /\ (m.kind = "data" => m.units # <<>>)
    <3>1. \A i \in DOMAIN q.toPage : i + 1 \in DOMAIN b.toPage /\ q.toPage[i] = b.toPage[i + 1]
      BY <1>1, <1>2, TailMember
    <3> QED
      BY <2>4, <3>1 DEF FullData
  <2>6. Len(B \o C) = Len(B) + Len(C)
    BY <2>1, ConcatProperties
  <2> HIDE DEF N, A, B, C
  <2>7. CASE SequencesOf(p2, "data") = SequencesOf(pa, "data") \o NumberOf(m, "data")
    <3>1. Acks(na, p2) = N \o (A \o B)
      BY <2>7, Zenon DEF Acks, N, A, B
    <3>2. (N \o (A \o B)) \o C = (N \o A) \o (B \o C) /\ N \o (A \o B) = (N \o A) \o B
      <4>1. /\ Cat(Cat(N, Cat(A, B)), C) = Cat(Cat(N, A), Cat(B, C))
            /\ Cat(N, Cat(A, B)) = Cat(Cat(N, A), B)
        <5> N \in Seq(Nat) /\ A \in Seq(Nat) /\ B \in Seq(Nat) /\ C \in Seq(Nat)
          BY <2>1
        <5>1. Cat(Cat(N, Cat(A, B)), C) = Cat(Cat(N, A), Cat(B, C))
          BY FourNumbers
        <5>2. Cat(N, Cat(A, B)) = Cat(Cat(N, A), B)
          BY CatNumbers
        <5> QED
          BY <5>1, <5>2
      <4> QED
        BY <4>1, Zenon DEF Cat
    <3>3. Acks(na, p2) \o C = Acks(na, pa) \o SequencesOf(b.toPage, "data")
      BY <2>2, <3>1, <3>2, Zenon
    <3>4. Acks(na, p2) = Acks(na, pa) \o B
      BY <2>2, <3>1, <3>2, Zenon
    <3>5. Len(Acks(na, pa) \o B) = Len(Acks(na, pa)) + Len(B)
      BY <2>1, ConcatProperties
    <3>6. Len(Acks(na, p2)) + Len(C) <= Len(b.inFlight)
      <4>1. Len(Acks(na, p2)) = Len(Acks(na, pa)) + Len(B)
        BY <3>4, <3>5, Zenon
      <4>2. Len(Acks(na, pa)) + (Len(B) + Len(C)) <= Len(b.inFlight)
        BY <2>2, <2>3, <2>6, Zenon
      <4> QED
        BY <2>1, <4>1, <4>2
    <3>7. ~EmptyTexts => b.inFlight = Acks(na, p2) \o C /\ Full(b.pending) /\ FullData(q.toPage)
      BY <2>3, <2>5, <3>3, Zenon
    <3> QED
      BY <1>2, <3>6, <3>7, Zenon DEF AcksOK, C
  <2>8. CASE /\ m.kind = "data" /\ m.units = <<>>
             /\ SequencesOf(p2, "data") = SequencesOf(pa, "data")
    <3>1. EmptyTexts
      BY <2>3, <2>5, <2>8, Zenon
    <3>2. Acks(na, p2) = Acks(na, pa)
      BY <2>8, Zenon DEF Acks
    <3>3. Len(Acks(na, p2)) + Len(C) <= Len(b.inFlight)
      <4>1. Len(Acks(na, pa)) + (Len(B) + Len(C)) <= Len(b.inFlight)
        BY <2>2, <2>3, <2>6, Zenon
      <4>2. Len(Acks(na, p2)) = Len(Acks(na, pa))
        BY <3>2, Zenon
      <4> QED
        BY <2>1, <4>1, <4>2
    <3> QED
      BY <1>2, <3>1, <3>3, Zenon DEF AcksOK, C
  <2> QED
    BY <1>5, <2>7, <2>8, Zenon
<1>9. AskedOK(q, sc, left, ms)
  <2>1. \A i \in DOMAIN q.toPage : i + 1 \in DOMAIN b.toPage /\ q.toPage[i] = b.toPage[i + 1]
    BY <1>1, <1>2, TailMember
  <2> QED
    BY <1>2, <2>1 DEF PageInv, AskedOK
<1>10. PageInv(q, na, p2, sc, w, u, left, ms)
  BY <1>2, <1>5, <1>6, <1>7, <1>8, <1>9 DEF PageInv, n
<1> QED
  BY <1>10 DEF q

\* The bridge gets na2 instead of na when xterm is through with m.
Answers(na, na2, m) ==
  /\ na2 \in Seq(Messages)
  /\ SequencesOf(na2, "ack") = SequencesOf(na, "ack") \o NumberOf(m, "data")
  /\ SequencesOf(na2, "restored") = SequencesOf(na, "restored") \o NumberOf(m, "restore")

LEMMA AnswersSame ==
  ASSUME NEW na, NEW na2, NEW pa, na \in Seq(Messages), pa \in Seq(Messages), pa # <<>>,
         Answers(na, na2, Head(pa))
  PROVE  Acks(na2, Tail(pa)) = Acks(na, pa) /\ Restores(na2, Tail(pa)) = Restores(na, pa)
<1> DEFINE m == Head(pa)
<1>1. m \in Messages /\ Tail(pa) \in Seq(Messages)
  BY UnitsTail
<1>2. /\ SequencesOf(pa, "data") = NumberOf(m, "data") \o SequencesOf(Tail(pa), "data")
      /\ SequencesOf(pa, "restore") = NumberOf(m, "restore") \o SequencesOf(Tail(pa), "restore")
  BY NumbersTail
<1>3. /\ NumberOf(m, "data") \in Seq(Nat) /\ NumberOf(m, "restore") \in Seq(Nat)
      /\ SequencesOf(na, "ack") \in Seq(Nat) /\ SequencesOf(na, "restored") \in Seq(Nat)
      /\ SequencesOf(Tail(pa), "data") \in Seq(Nat) /\ SequencesOf(Tail(pa), "restore") \in Seq(Nat)
  BY <1>1, NumberType, NumbersType
<1> HIDE DEF m
<1>4. Cat(Cat(SequencesOf(na, "ack"), NumberOf(m, "data")), SequencesOf(Tail(pa), "data"))
        = Cat(SequencesOf(na, "ack"), Cat(NumberOf(m, "data"), SequencesOf(Tail(pa), "data")))
  BY <1>3, CatNumbers
<1>5. Cat(Cat(SequencesOf(na, "restored"), NumberOf(m, "restore")), SequencesOf(Tail(pa), "restore"))
        = Cat(SequencesOf(na, "restored"), Cat(NumberOf(m, "restore"), SequencesOf(Tail(pa), "restore")))
  BY <1>3, CatNumbers
<1>6. /\ SequencesOf(na2, "ack") = SequencesOf(na, "ack") \o NumberOf(m, "data")
      /\ SequencesOf(na2, "restored") = SequencesOf(na, "restored") \o NumberOf(m, "restore")
  BY Zenon DEF Answers, m
<1>7. Acks(na2, Tail(pa)) = Acks(na, pa)
  BY <1>2, <1>4, <1>6, Zenon DEF Acks, Cat
<1>8. Restores(na2, Tail(pa)) = Restores(na, pa)
  BY <1>2, <1>5, <1>6, Zenon DEF Restores, Cat
<1> QED
  BY <1>7, <1>8

LEMMA ParsePage ==
  ASSUME NEW b, NEW na, NEW pa, NEW sc, NEW w, NEW u, NEW left, NEW ms, NEW na2,
         PageInv(b, na, pa, sc, w, u, left, ms), pa # <<>>, Answers(na, na2, Head(pa))
  PROVE  PageInv(b, na2, Tail(pa), sc \o Head(pa).units, w, u, left, ms)
<1> DEFINE m == Head(pa)
           s2 == sc \o m.units
<1>1. /\ pa \in Seq(Messages) /\ na \in Seq(Messages) /\ pa \in Seq(ParserMessages)
      /\ sc \in Text
  BY PageTypes
<1>2. Acks(na2, Tail(pa)) = Acks(na, pa) /\ Restores(na2, Tail(pa)) = Restores(na, pa)
  BY <1>1, AnswersSame
<1>3. /\ m \in Messages /\ Tail(pa) \in Seq(Messages) /\ UnitsOf(pa) = m.units \o UnitsOf(Tail(pa))
      /\ Tail(pa) \in Seq(ParserMessages)
  <2>1. m \in Messages /\ Tail(pa) \in Seq(Messages) /\ UnitsOf(pa) = m.units \o UnitsOf(Tail(pa))
    BY <1>1, UnitsTail
  <2>2. Tail(pa) \in Seq(ParserMessages)
    BY <1>1, HeadTailProperties
  <2> QED
    BY <2>1, <2>2
<1>4. m.units \in Text /\ UnitsOf(Tail(pa)) \in Text
  BY <1>3, UnitsType DEF Messages
<1>5. s2 \in Text /\ s2 \o UnitsOf(Tail(pa)) = sc \o UnitsOf(pa)
  <2>1. /\ Cat(Cat(sc, m.units), UnitsOf(Tail(pa))) = Cat(sc, Cat(m.units, UnitsOf(Tail(pa))))
        /\ Cat(sc, m.units) \in Text
    BY <1>1, <1>4, CatText
  <2> QED
    BY <1>3, <2>1, Zenon DEF Cat
<1>6. AskedOK(b, s2, left, ms)
  <2>1. Range(sc) \subseteq Range(s2)
    BY <1>1, <1>4, RangeConcat
  <2>2. AskedOK(b, sc, left, ms)
    BY DEF PageInv
  <2> HIDE DEF s2
  <2> QED
    BY <2>1, <2>2, HoldsMore DEF AskedOK
<1>7. na2 \in Seq(Messages)
  BY DEF Answers
<1> HIDE DEF m, s2
<1>8. StreamOK((s2 \o UnitsOf(Tail(pa))) \o Line(b), w, u, left, b.dropped)
  BY <1>5, Zenon DEF PageInv
<1>9. PageInv(b, na2, Tail(pa), s2, w, u, left, ms)
  BY <1>2, <1>3, <1>5, <1>6, <1>7, <1>8 DEF PageInv
<1> QED
  BY <1>9, Zenon DEF s2, m

\* The pane writes a text of its own when nothing else has to come.
LEMMA OwnPage ==
  ASSUME NEW b, NEW na, NEW pa, NEW sc, NEW u, NEW left, NEW ms,
         PageInv(b, na, pa, sc, <<>>, u, left, ms), u + 1 \in Unit
  PROVE  PageInv(BridgeWrite(b, <<u + 1>>), na, pa, sc, <<>>, u + 1, left, ms)
<1>1. PageInv(b, na, pa, sc, <<>> \o <<u + 1>>, u + 1, left, ms)
  BY GrowPage
<1>2. <<>> \in Text /\ <<u + 1>> \in Text /\ <<u + 1>> # <<>>
  BY DEF Text
<1>3. <<>> \o <<u + 1>> = <<u + 1>> \o <<>>
  BY <1>2, TextEmpty
<1> QED
  BY <1>1, <1>2, <1>3, WritePage


-----------------------------------------------------------------------------
(* Types are kept.                                                         *)

LEMMA SurfaceStays ==
  ASSUME SurfaceTypes,
         UNCHANGED <<attached, attaches, recovered, buffer, bridge, stale, snapshots, page, gone>>
  PROVE  SurfaceTypes'
BY DEF SurfaceTypes, PageGone, snapshots, page

LEMMA DeliverTypes ==
  ASSUME NEW o, o \in Text, Len(o) <= OutputLimit, o # <<>>, LoopTypes, Deliver(o)
  PROVE  /\ output' \in Text /\ Len(output') <= OutputLimit
         /\ transport' \in Seq(Text) /\ Len(transport') <= QueueCapacity
         /\ (\A i \in DOMAIN transport : transport[i] # Close)
              => \A i \in DOMAIN transport' : transport'[i] # Close
<1>1. transport \in Seq(Text) /\ Len(transport) <= QueueCapacity /\ Len(transport) \in Nat
  BY LenProperties DEF LoopTypes
<1>2. <<>> \in Text /\ Len(<<>>) = 0 /\ OutputLimit \in Nat /\ QueueCapacity \in Nat
  BY LimitsAssumption DEF Text
<1>3. CASE Len(transport) < QueueCapacity
  <2>1. transport' = Append(transport, o) /\ output' = <<>>
    BY <1>3 DEF Deliver
  <2>2. /\ Append(transport, o) \in Seq(Text) /\ Len(Append(transport, o)) = Len(transport) + 1
    BY <1>1, AppendProperties
  <2>3. \A i \in DOMAIN transport' :
          \/ i \in DOMAIN transport /\ transport'[i] = transport[i]
          \/ transport'[i] = o
    BY <1>1, <2>1, AppendMember
  <2>4. (\A i \in DOMAIN transport : transport[i] # Close)
              => \A i \in DOMAIN transport' : transport'[i] # Close
    BY <2>3 DEF Close
  <2>5. Len(transport') <= QueueCapacity
    BY <1>1, <1>2, <1>3, <2>1, <2>2
  <2> QED
    BY <1>2, <2>1, <2>2, <2>4, <2>5
<1>4. CASE ~(Len(transport) < QueueCapacity)
  BY <1>1, <1>4 DEF Deliver
<1> QED
  BY <1>3, <1>4

LEMMA OutputGrows ==
  ASSUME LoopTypes, Len(output) < OutputLimit, units < MaxUnits
  PROVE  /\ Append(output, units + 1) \in Text /\ Append(output, units + 1) # <<>>
         /\ Len(Append(output, units + 1)) <= OutputLimit
         /\ units + 1 \in Unit /\ units + 1 \in 0..MaxUnits
<1>1. /\ output \in Seq(Unit) /\ units + 1 \in Unit /\ units + 1 \in 0..MaxUnits
      /\ Len(output) \in Nat /\ OutputLimit \in Nat
  BY LimitsAssumption, LenProperties DEF LoopTypes, Text, Unit
<1>2. /\ Append(output, units + 1) \in Seq(Unit)
      /\ Len(Append(output, units + 1)) = Len(output) + 1
  BY <1>1, AppendProperties
<1>3. Append(output, units + 1) # <<>>
  BY <1>1, <1>2, EmptySeq
<1> QED
  BY <1>1, <1>2, <1>3 DEF Text

LEMMA ReadTypes ==
  ASSUME TypeInv, ReadChannel
  PROVE  TypeInv'
<1> DEFINE o == Append(output, units + 1)
<1>1. LoopTypes /\ SurfaceTypes /\ PhaseOK
  BY DEF TypeInv
<1>2. session = "live" /\ Len(output) < OutputLimit /\ units < MaxUnits /\ units' = units + 1
  BY DEF ReadChannel
<1>3. o \in Text /\ o # <<>> /\ Len(o) <= OutputLimit /\ units' \in 0..MaxUnits
  BY <1>1, <1>2, OutputGrows
<1>4. Deliver(o) \/ (output' = o /\ transport' = transport)
  BY DEF ReadChannel, Deliver
<1> HIDE DEF o
<1>5. /\ output' \in Text /\ Len(output') <= OutputLimit
      /\ transport' \in Seq(Text) /\ Len(transport') <= QueueCapacity
      /\ (\A i \in DOMAIN transport : transport[i] # Close)
           => \A i \in DOMAIN transport' : transport'[i] # Close
  <2>1. CASE Deliver(o)
    BY <1>1, <1>3, <2>1, DeliverTypes
  <2>2. CASE output' = o /\ transport' = transport
    BY <1>1, <1>3, <2>2 DEF LoopTypes
  <2> QED
    BY <1>4, <2>1, <2>2
<1>6. /\ UNCHANGED <<session, sessions, outputPaused, connected, pauseRx, rejected>>
      /\ UNCHANGED <<attached, attaches, recovered, buffer, bridge, stale, snapshots, page, gone>>
  BY DEF ReadChannel, flow
<1>7. LoopTypes'
  BY <1>1, <1>3, <1>5, <1>6 DEF LoopTypes
<1>8. SurfaceTypes'
  BY <1>1, <1>6, SurfaceStays
<1>9. PhaseOK'
  BY <1>1, <1>2, <1>5, <1>6 DEF PhaseOK
<1> QED
  BY <1>7, <1>8, <1>9 DEF TypeInv

LEMMA TickTypes ==
  ASSUME TypeInv, OutputTick
  PROVE  TypeInv'
<1>1. LoopTypes /\ SurfaceTypes /\ PhaseOK /\ session = "live"
  BY DEF TypeInv, OutputTick
<1>2. /\ output' \in Text /\ Len(output') <= OutputLimit
      /\ transport' \in Seq(Text) /\ Len(transport') <= QueueCapacity
      /\ (\A i \in DOMAIN transport : transport[i] # Close)
           => \A i \in DOMAIN transport' : transport'[i] # Close
  <2>1. output \in Text /\ Len(output) <= OutputLimit /\ output # <<>> /\ Deliver(output)
    BY <1>1 DEF OutputTick, LoopTypes
  <2> QED
    BY <1>1, <2>1, DeliverTypes
<1>3. /\ UNCHANGED <<units, session, sessions, outputPaused, connected, pauseRx, rejected>>
      /\ UNCHANGED <<attached, attaches, recovered, buffer, bridge, stale, snapshots, page, gone>>
  BY DEF OutputTick, flow
<1>4. LoopTypes'
  BY <1>1, <1>2, <1>3 DEF LoopTypes
<1>5. SurfaceTypes'
  BY <1>1, <1>3, SurfaceStays
<1>6. PhaseOK'
  BY <1>1, <1>2, <1>3 DEF PhaseOK
<1> QED
  BY <1>4, <1>5, <1>6 DEF TypeInv

LEMMA TakeTypes ==
  ASSUME TypeInv, TakePause
  PROVE  TypeInv'
<1>1. LoopTypes /\ SurfaceTypes /\ PhaseOK
  BY DEF TypeInv
<1>2. /\ session = "live" /\ pauseRx # <<>>
      /\ outputPaused' = Head(pauseRx) /\ pauseRx' = Tail(pauseRx)
      /\ UNCHANGED <<units, session, sessions, output, transport, connected, rejected>>
      /\ UNCHANGED <<attached, attaches, recovered, buffer, bridge, stale, snapshots, page, gone>>
  BY DEF TakePause
<1>3. /\ Head(pauseRx) \in BOOLEAN /\ Tail(pauseRx) \in Seq(BOOLEAN)
      /\ Len(Tail(pauseRx)) <= PauseCapacity
  <2>1. pauseRx \in Seq(BOOLEAN) /\ Len(pauseRx) <= PauseCapacity
    BY <1>1 DEF LoopTypes
  <2>2. Head(pauseRx) \in BOOLEAN /\ Tail(pauseRx) \in Seq(BOOLEAN)
    BY <1>2, <2>1, HeadTailProperties
  <2>3. Len(Tail(pauseRx)) = Len(pauseRx) - 1 /\ Len(pauseRx) \in Nat /\ PauseCapacity \in Nat
    BY <1>2, <2>1, HeadTailProperties, LenProperties, LimitsAssumption
  <2> QED
    BY <2>1, <2>2, <2>3
<1>4. LoopTypes'
  BY <1>1, <1>2, <1>3 DEF LoopTypes
<1>5. SurfaceTypes'
  BY <1>1, <1>2, SurfaceStays
<1>6. PhaseOK'
  BY <1>1, <1>2 DEF PhaseOK
<1> QED
  BY <1>4, <1>5, <1>6 DEF TypeInv

LEMMA EndsTypes ==
  ASSUME TypeInv, LoopEnds
  PROVE  TypeInv'
<1>1. LoopTypes /\ SurfaceTypes /\ PhaseOK
  BY DEF TypeInv
<1>2. /\ session = "live" /\ session' = "ending"
      /\ UNCHANGED <<units, sessions, output, outputPaused, transport, connected, pauseRx, rejected>>
      /\ UNCHANGED <<attached, attaches, recovered, buffer, bridge, stale, snapshots, page, gone>>
  BY DEF LoopEnds, flow
<1>3. LoopTypes'
  BY <1>1, <1>2 DEF LoopTypes
<1>4. SurfaceTypes'
  BY <1>1, <1>2, SurfaceStays
<1>5. PhaseOK'
  BY <1>1, <1>2 DEF PhaseOK
<1> QED
  BY <1>3, <1>4, <1>5 DEF TypeInv

LEMMA FinalTypes ==
  ASSUME TypeInv, FinalDelivery
  PROVE  TypeInv'
<1>1. LoopTypes /\ SurfaceTypes /\ PhaseOK
  BY DEF TypeInv
<1>2. /\ session = "ending" /\ output # <<>> /\ output' = <<>>
      /\ UNCHANGED <<units, session, sessions, outputPaused, connected, pauseRx, rejected>>
      /\ UNCHANGED <<attached, attaches, recovered, buffer, bridge, stale, snapshots, page>>
  BY DEF FinalDelivery, flow
<1>3. \/ Len(transport) < QueueCapacity /\ transport' = Append(transport, output) /\ UNCHANGED gone
      \/ Len(transport) >= QueueCapacity /\ gone' = gone \cup Range(output) /\ UNCHANGED transport
  BY DEF FinalDelivery
<1>4. /\ output' \in Text /\ Len(output') <= OutputLimit
      /\ transport' \in Seq(Text) /\ Len(transport') <= QueueCapacity
      /\ (\A i \in DOMAIN transport : transport[i] # Close)
           => \A i \in DOMAIN transport' : transport'[i] # Close
  <2>1. CASE Len(transport) < QueueCapacity /\ transport' = Append(transport, output) /\ UNCHANGED gone
    <3>1. output \in Text /\ Len(output) <= OutputLimit /\ Deliver(output)
      BY <1>1, <1>2, <2>1 DEF LoopTypes, Deliver
    <3> QED
      BY <1>1, <1>2, <3>1, DeliverTypes
  <2>2. CASE UNCHANGED transport
    <3>1. <<>> \in Text /\ Len(<<>>) = 0 /\ OutputLimit \in Nat
      BY LimitsAssumption DEF Text
    <3> QED
      BY <1>1, <1>2, <2>2, <3>1 DEF LoopTypes
  <2> QED
    BY <1>3, <2>1, <2>2
<1>5. gone' \subseteq Unit
  <2>1. Range(output) \subseteq Unit /\ gone \subseteq Unit
    BY <1>1, RangeMembers DEF LoopTypes, SurfaceTypes, Text
  <2> QED
    BY <1>3, <2>1
<1>6. LoopTypes'
  BY <1>1, <1>2, <1>4 DEF LoopTypes
<1>7. SurfaceTypes'
  BY <1>1, <1>2, <1>5 DEF SurfaceTypes, PageGone, snapshots, page
<1>8. PhaseOK'
  BY <1>1, <1>2, <1>4 DEF PhaseOK
<1> QED
  BY <1>6, <1>7, <1>8 DEF TypeInv

LEMMA SendTypes ==
  ASSUME TypeInv, SendClose
  PROVE  TypeInv'
<1>1. LoopTypes /\ SurfaceTypes /\ PhaseOK
  BY DEF TypeInv
<1>2. /\ session = "ending" /\ session' = "over" /\ output = <<>>
      /\ Len(transport) < QueueCapacity /\ transport' = Append(transport, Close)
      /\ UNCHANGED <<units, sessions, output, outputPaused, connected, pauseRx, rejected>>
      /\ UNCHANGED <<attached, attaches, recovered, buffer, bridge, stale, snapshots, page, gone>>
  BY DEF SendClose, flow
<1>3. /\ transport \in Seq(Text) /\ Close \in Text /\ Len(transport) \in Nat
      /\ QueueCapacity \in Nat
  BY <1>1, LimitsAssumption, LenProperties DEF LoopTypes, Close, Text
<1>4. /\ transport' \in Seq(Text) /\ Len(transport') = Len(transport) + 1
      /\ \A i \in 1..Len(transport) : transport'[i] = transport[i]
      /\ transport'[Len(transport) + 1] = Close
  BY <1>2, <1>3, AppendProperties
<1>5. Len(transport') <= QueueCapacity /\ Len(transport') - 1 = Len(transport) /\ transport' # <<>>
  BY <1>2, <1>3, <1>4, EmptySeq
<1>6. LoopTypes'
  BY <1>1, <1>2, <1>4, <1>5 DEF LoopTypes
<1>7. SurfaceTypes'
  BY <1>1, <1>2, SurfaceStays
<1>8. PhaseOK'
  <2>1. \A i \in 1..Len(transport) : transport[i] # Close
    BY <1>1, <1>2, <1>3, LenProperties DEF PhaseOK
  <2>2. transport'[Len(transport')] = Close /\ \A i \in 1..(Len(transport') - 1) : transport'[i] # Close
    BY <1>3, <1>4, <1>5, <2>1
  <2>3. connected # "no" /\ connected' = connected
    BY <1>1, <1>2 DEF PhaseOK
  <2> QED
    BY <1>1, <1>2, <1>5, <2>2, <2>3 DEF PhaseOK
<1> QED
  BY <1>6, <1>7, <1>8 DEF TypeInv

LEMMA ConnectTypes ==
  ASSUME TypeInv, Connect
  PROVE  TypeInv'
<1>1. LoopTypes /\ SurfaceTypes /\ PhaseOK
  BY DEF TypeInv
<1>2. /\ connected = "no" /\ sessions < MaxSessions /\ sessions' = sessions + 1
      /\ session' = "live" /\ connected' = "queued"
      /\ output' = <<>> /\ outputPaused' = FALSE /\ pauseRx' = <<>>
      /\ UNCHANGED <<units, transport, rejected>>
      /\ UNCHANGED <<attached, attaches, recovered, buffer, bridge, stale, snapshots, page, gone>>
  BY DEF Connect
<1>3. transport = <<>>
  BY <1>1, <1>2 DEF PhaseOK
<1>4. LoopTypes'
  <2>1. /\ <<>> \in Text /\ <<>> \in Seq(BOOLEAN) /\ Len(<<>>) = 0
        /\ OutputLimit \in Nat /\ PauseCapacity \in Nat
    BY LimitsAssumption DEF Text
  <2>2. sessions' \in 0..MaxSessions
    BY <1>1, <1>2, LimitsAssumption DEF LoopTypes
  <2>3. output' \in Text /\ pauseRx' \in Seq(BOOLEAN) /\ Len(output') = 0 /\ Len(pauseRx') = 0
    BY <1>2, <2>1, Zenon
  <2>4. Len(output') <= OutputLimit /\ Len(pauseRx') <= PauseCapacity
    BY <2>1, <2>3
  <2>5. /\ units \in 0..MaxUnits /\ rejected \in BOOLEAN
        /\ transport \in Seq(Text) /\ Len(transport) <= QueueCapacity
    BY <1>1 DEF LoopTypes
  <2>6. /\ units' \in 0..MaxUnits /\ rejected' \in BOOLEAN
        /\ transport' \in Seq(Text) /\ Len(transport') <= QueueCapacity
    BY <1>2, <2>5
  <2>7. /\ session' \in {"none", "live", "ending", "over"} /\ outputPaused' \in BOOLEAN
        /\ connected' \in {"no", "queued", "yes"}
    BY <1>2
  <2> QED
    BY <2>2, <2>3, <2>4, <2>6, <2>7 DEF LoopTypes
<1>5. SurfaceTypes'
  BY <1>1, <1>2, SurfaceStays
<1>6. PhaseOK'
  BY <1>2, <1>3 DEF PhaseOK
<1> QED
  BY <1>4, <1>5, <1>6 DEF TypeInv

LEMMA PausedType ==
  ASSUME NEW f, f \in Buffers
  PROVE  Paused(f) \in BOOLEAN
BY DEF Buffers, Paused

LEMMA ConnectedTypes ==
  ASSUME TypeInv, HandleConnected
  PROVE  TypeInv'
<1>1. LoopTypes /\ SurfaceTypes /\ PhaseOK
  BY DEF TypeInv
<1>2. /\ connected = "queued" /\ connected' = "yes"
      /\ pauseRx' = IF session = "over" THEN pauseRx ELSE Append(pauseRx, Paused(buffer))
      /\ UNCHANGED <<units, session, sessions, output, outputPaused, transport, rejected>>
      /\ UNCHANGED <<attached, attaches, recovered, buffer, bridge, stale, snapshots, page, gone>>
  BY DEF HandleConnected, loop
<1>3. pauseRx' \in Seq(BOOLEAN) /\ Len(pauseRx') <= PauseCapacity
  <2>1. pauseRx = <<>> /\ pauseRx \in Seq(BOOLEAN) /\ Len(pauseRx) = 0
    BY <1>1, <1>2 DEF PhaseOK
  <2>2. Paused(buffer) \in BOOLEAN
    BY <1>1, PausedType DEF SurfaceTypes
  <2>3. Append(pauseRx, Paused(buffer)) \in Seq(BOOLEAN) /\ Len(Append(pauseRx, Paused(buffer))) = 1
    BY <2>1, <2>2, AppendProperties
  <2>4. PauseCapacity \in Nat \ {0}
    BY LimitsAssumption
  <2>5. 0 <= PauseCapacity /\ 1 <= PauseCapacity
    BY <2>4
  <2>6. CASE session = "over"
    <3>1. pauseRx' = pauseRx
      BY <1>2, <2>6
    <3> QED
      BY <2>1, <2>5, <3>1
  <2>7. CASE session # "over"
    <3>1. pauseRx' = Append(pauseRx, Paused(buffer))
      BY <1>2, <2>7
    <3>2. pauseRx' \in Seq(BOOLEAN) /\ Len(pauseRx') = 1
      BY <2>3, <3>1, Zenon
    <3> QED
      BY <2>5, <3>2
  <2> QED
    BY <2>6, <2>7
<1>4. LoopTypes'
  BY <1>1, <1>2, <1>3 DEF LoopTypes
<1>5. SurfaceTypes'
  BY <1>1, <1>2, SurfaceStays
<1>6. PhaseOK'
  BY <1>1, <1>2 DEF PhaseOK
<1> QED
  BY <1>4, <1>5, <1>6 DEF TypeInv

\* What a change of flow control does to the channel.
LEMMA SetPaused ==
  ASSUME NEW paused \in BOOLEAN, NEW n \in Nat, LoopTypes, SetOutputPaused(paused, n)
  PROVE  /\ pauseRx' \in Seq(BOOLEAN) /\ Len(pauseRx') <= PauseCapacity /\ rejected' \in BOOLEAN
         /\ ~(connected = "yes" /\ session \in {"live", "ending"}) => pauseRx' = pauseRx
         /\ ~rejected' => ~rejected
         /\ n = 0 => pauseRx' = pauseRx
         /\ connected = "yes" /\ session \in {"live", "ending"} /\ n # 0 /\ ~rejected' =>
              pauseRx' # <<>> /\ pauseRx'[Len(pauseRx')] = paused
<1> DEFINE room == PauseCapacity - Len(pauseRx)
           heard == connected = "yes" /\ session \in {"live", "ending"}
           k == IF n < room THEN n ELSE room
           more == [i \in 1..k |-> paused]
<1>1. /\ pauseRx \in Seq(BOOLEAN) /\ Len(pauseRx) \in Nat /\ Len(pauseRx) <= PauseCapacity
      /\ rejected \in BOOLEAN /\ PauseCapacity \in Nat
  BY LimitsAssumption, LenProperties DEF LoopTypes
<1>2. room \in Nat /\ k \in Nat /\ k <= room /\ Len(pauseRx) + room = PauseCapacity
  BY <1>1
<1>3. more \in Seq(BOOLEAN) /\ Len(more) = k
  <2>1. more \in [1..k -> BOOLEAN]
    OBVIOUS
  <2> HIDE DEF k, more
  <2> QED
    BY <1>2, <2>1, FunctionIsSeq
<1>4. \A i \in 1..k : more[i] = paused
  OBVIOUS
<1>5. /\ pauseRx' = IF ~heard THEN pauseRx ELSE pauseRx \o more
      /\ rejected' = (rejected \/ (heard /\ n > room))
  BY DEF SetOutputPaused
<1>7. k = IF n < room THEN n ELSE room
  OBVIOUS
<1>0. room = PauseCapacity - Len(pauseRx)
  OBVIOUS
<1> HIDE DEF more, k, room
<1>8. /\ pauseRx \o more \in Seq(BOOLEAN) /\ Len(pauseRx \o more) = Len(pauseRx) + k
      /\ \A i \in 1..k : (pauseRx \o more)[Len(pauseRx) + i] = more[i]
  <2>1. /\ pauseRx \o more \in Seq(BOOLEAN)
        /\ Len(pauseRx \o more) = Len(pauseRx) + Len(more)
        /\ \A i \in 1..(Len(pauseRx) + Len(more)) :
             (pauseRx \o more)[i] = IF i <= Len(pauseRx) THEN pauseRx[i] ELSE more[i - Len(pauseRx)]
    BY <1>1, <1>3, ConcatProperties
  <2> QED
    BY <1>1, <1>2, <1>3, <2>1
<1>9. /\ pauseRx' \in Seq(BOOLEAN) /\ Len(pauseRx') <= PauseCapacity
  <2>1. CASE heard
    <3>1. pauseRx' = pauseRx \o more
      BY <1>5, <2>1
    <3>2. pauseRx' \in Seq(BOOLEAN) /\ Len(pauseRx') = Len(pauseRx) + k
      BY <1>8, <3>1, Zenon
    <3> QED
      BY <1>1, <1>2, <3>2
  <2>2. CASE ~heard
    BY <1>1, <1>5, <2>2
  <2> QED
    BY <2>1, <2>2
<1>10. rejected' \in BOOLEAN /\ (~rejected' => ~rejected)
  <2>1. CASE n > room
    BY <1>1, <1>5, <2>1
  <2>2. CASE ~(n > room)
    BY <1>1, <1>5, <2>2
  <2> QED
    BY <2>1, <2>2
<1>11. ASSUME n = 0
       PROVE  pauseRx' = pauseRx
  <2>1. k = 0
    BY <1>2, <1>7, <1>11
  <2>2. pauseRx \o more = pauseRx
    BY <1>1, <1>3, <2>1, EmptySeq, ConcatEmptySeq
  <2> QED
    BY <1>5, <2>2
<1>12. ASSUME heard, n # 0, ~rejected'
       PROVE  pauseRx' # <<>> /\ pauseRx'[Len(pauseRx')] = paused
  <2>1. ~(n > room)
    BY <1>5, <1>12
  <2>2. k = n /\ k \in 1..k
    BY <1>2, <1>7, <1>12, <2>1
  <2>3. pauseRx' = pauseRx \o more
    BY <1>5, <1>12
  <2>4. pauseRx'[Len(pauseRx')] = paused
    BY <1>1, <1>2, <1>4, <1>8, <2>2, <2>3
  <2>5. Len(pauseRx') # 0
    BY <1>1, <1>2, <1>8, <2>2, <2>3
  <2>6. pauseRx' # <<>>
    BY <2>5, EmptySeq
  <2> QED
    BY <2>4, <2>6
<1> QED
  BY <1>5, <1>9, <1>10, <1>11, <1>12

LEMMA AppendDetachedIs ==
  ASSUME NEW f, f \in Buffers, NEW chunk, chunk \in Text
  PROVE  LET g == AppendDetached(f, chunk) IN
         /\ g \in Buffers /\ g.bridgePaused = f.bridgePaused
         /\ attached => g = f
         /\ ~attached => g.chunks = IF chunk = <<>> THEN f.chunks ELSE Append(f.chunks, chunk)
<1> DEFINE g == AppendDetached(f, chunk)
<1>1. CASE attached \/ chunk = <<>>
  BY <1>1 DEF AppendDetached
<1>2. CASE ~(attached \/ chunk = <<>>)
  <2>1. PICK cs \in Seq(Text) : cs = Append(f.chunks, chunk)
    <3>1. Append(f.chunks, chunk) \in Seq(Text)
      BY AppendProperties DEF Buffers
    <3> QED
      BY <3>1, Zenon
  <2>2. PICK by \in Nat : by = f.bytes + Len(chunk)
    <3>1. f.bytes + Len(chunk) \in Nat
      BY LenProperties DEF Buffers, Text
    <3> QED
      BY <3>1, Zenon
  <2>3. HiddenHighWater \in Nat
    BY LimitsAssumption
  <2>4. PICK dp \in BOOLEAN : dp = (f.detachedPaused \/ by >= HiddenHighWater)
    BY <2>2, <2>3 DEF Buffers
  <2>5. g = [f EXCEPT !.chunks = cs, !.bytes = by, !.detachedPaused = dp]
    BY <1>2, <2>1, <2>2, <2>4 DEF AppendDetached, Buffers
  <2>6. g \in Buffers /\ g.bridgePaused = f.bridgePaused /\ g.chunks = cs
    <3> HIDE DEF g
    <3> QED
      BY <2>5 DEF Buffers
  <2> QED
    BY <1>2, <2>1, <2>6, Zenon
<1> QED
  BY <1>1, <1>2

LEMMA FollowIs ==
  ASSUME NEW f, f \in Buffers, NEW b, b.backpressured \in BOOLEAN
  PROVE  LET g == Follow(f, b) IN
         /\ g \in Buffers /\ g.chunks = f.chunks /\ g.detachedPaused = f.detachedPaused
         /\ b.backpressured = bridge.backpressured => g = f
         /\ b.backpressured # bridge.backpressured => g.bridgePaused = b.backpressured
BY DEF Follow, Buffers

LEMMA BackpressuredType ==
  ASSUME NEW b, NEW n, BridgeOK(b, n)
  PROVE  b.backpressured \in BOOLEAN
BY DEF BridgeOK, Bridges

LEMMA WriteBytesTypes ==
  ASSUME NEW chunk, chunk \in Text, LoopTypes, SurfaceTypes, WriteBytes(chunk)
  PROVE  /\ pauseRx' \in Seq(BOOLEAN) /\ Len(pauseRx') <= PauseCapacity /\ rejected' \in BOOLEAN
         /\ connected # "yes" => pauseRx' = pauseRx
         /\ BridgeOK(bridge', requests) /\ buffer' \in Buffers /\ stale' \in BOOLEAN
         /\ ~attached => bridge' = bridge
<1> DEFINE b == IF attached THEN BridgeWrite(bridge, chunk) ELSE bridge
           f == Follow(AppendDetached(buffer, chunk), b)
<1>1. BridgeOK(bridge, requests) /\ requests \in Nat /\ buffer \in Buffers /\ stale \in BOOLEAN
  BY DEF SurfaceTypes
<1>2. BridgeOK(b, requests) /\ (~attached => b = bridge)
  BY <1>1, WriteOK
<1>3. /\ bridge' = b /\ buffer' = f /\ stale' = (stale /\ b.backpressured)
      /\ Notify(f, IF attached THEN 2 ELSE 1)
  BY DEF WriteBytes, Become
<1> HIDE DEF b
<1>4. b.backpressured \in BOOLEAN
  BY <1>2, BackpressuredType
<1>5. f \in Buffers
  <2>1. AppendDetached(buffer, chunk) \in Buffers
    BY <1>1, AppendDetachedIs
  <2> QED
    BY <1>4, <2>1, FollowIs
<1> HIDE DEF f
<1>6. PICK n \in Nat : SetOutputPaused(Paused(f), n)
  BY <1>3 DEF Notify
<1>7. Paused(f) \in BOOLEAN
  BY <1>5, PausedType
<1>8. /\ pauseRx' \in Seq(BOOLEAN) /\ Len(pauseRx') <= PauseCapacity /\ rejected' \in BOOLEAN
      /\ connected # "yes" => pauseRx' = pauseRx
  BY <1>6, <1>7, SetPaused
<1> QED
  BY <1>1, <1>2, <1>3, <1>4, <1>5, <1>8

LEMMA DataTypes ==
  ASSUME TypeInv, HandleData
  PROVE  TypeInv'
<1>1. LoopTypes /\ SurfaceTypes /\ PhaseOK
  BY DEF TypeInv
<1>2. /\ transport # <<>> /\ Head(transport) # Close /\ transport' = Tail(transport)
      /\ WriteBytes(Head(transport))
      /\ UNCHANGED <<units, session, sessions, output, outputPaused, connected>>
      /\ UNCHANGED <<attached, attaches, recovered, snapshots, page, gone>>
  BY DEF HandleData, loop
<1>3. /\ transport \in Seq(Text) /\ Len(transport) <= QueueCapacity /\ QueueCapacity \in Nat
  BY <1>1, LimitsAssumption DEF LoopTypes
<1>4. /\ Head(transport) \in Text /\ Tail(transport) \in Seq(Text)
      /\ Len(Tail(transport)) = Len(transport) - 1 /\ Len(transport) \in Nat
      /\ transport[1] = Head(transport) /\ DOMAIN transport = 1..Len(transport)
      /\ \A i \in 1..Len(Tail(transport)) : Tail(transport)[i] = transport[i + 1]
      /\ DOMAIN Tail(transport) = 1..Len(Tail(transport))
  <2>1. /\ Head(transport) \in Text /\ Tail(transport) \in Seq(Text)
        /\ Len(Tail(transport)) = Len(transport) - 1
        /\ \A i \in 1..Len(Tail(transport)) : Tail(transport)[i] = transport[i + 1]
        /\ transport[1] = Head(transport)
    BY <1>2, <1>3, HeadTailProperties
  <2> QED
    BY <1>3, <2>1, LenProperties
<1>5. /\ pauseRx' \in Seq(BOOLEAN) /\ Len(pauseRx') <= PauseCapacity /\ rejected' \in BOOLEAN
      /\ connected # "yes" => pauseRx' = pauseRx
      /\ BridgeOK(bridge', requests) /\ buffer' \in Buffers /\ stale' \in BOOLEAN
      /\ ~attached => bridge' = bridge
  BY <1>1, <1>2, <1>4, WriteBytesTypes
<1>6. LoopTypes'
  BY <1>1, <1>2, <1>3, <1>4, <1>5 DEF LoopTypes
<1>7. SurfaceTypes'
  BY <1>1, <1>2, <1>5 DEF SurfaceTypes, PageGone, snapshots, page
<1>8. PhaseOK'
  <2> DEFINE t == Tail(transport)
  <2>1. (\A i \in DOMAIN transport : transport[i] # Close) => \A i \in DOMAIN t : t[i] # Close
    BY <1>4
  <2>2. ASSUME transport[Len(transport)] = Close,
               \A i \in 1..(Len(transport) - 1) : transport[i] # Close
        PROVE  /\ t # <<>> /\ t[Len(t)] = Close
               /\ \A i \in 1..(Len(t) - 1) : t[i] # Close
    <3>1. Len(transport) # 1 /\ Len(transport) # 0
      BY <1>2, <1>3, <1>4, <2>2, EmptySeq
    <3>2. Len(t) # 0 /\ t[Len(t)] = Close /\ \A i \in 1..(Len(t) - 1) : t[i] # Close
      BY <1>4, <2>2, <3>1
    <3>3. t # <<>>
      BY <3>2, EmptySeq
    <3> QED
      BY <3>2, <3>3
  <2>3. transport' = t
    BY <1>2
  <2> HIDE DEF t
  <2>4. connected' = connected /\ session' = session /\ output' = output
    BY <1>2
  <2>5. connected # "no"
    BY <1>1, <1>2 DEF PhaseOK
  <2> QED
    BY <1>1, <1>5, <2>1, <2>2, <2>3, <2>4, <2>5 DEF PhaseOK
<1> QED
  BY <1>6, <1>7, <1>8 DEF TypeInv

LEMMA OwnTypes ==
  ASSUME LoopTypes
  PROVE  /\ OwnText \in Text /\ Len(OwnText) \in Nat /\ units + Len(OwnText) \in 0..MaxUnits
         /\ OwnText = <<>> \/ (OwnText = <<units + 1>> /\ units + 1 \in Unit)
         /\ Len(OwnText) = IF OwnText = <<>> THEN 0 ELSE 1
<1>1. units \in Nat /\ units <= MaxUnits /\ MaxUnits \in Nat
  BY LimitsAssumption DEF LoopTypes
<1>2. CASE units < MaxUnits
  BY <1>1, <1>2 DEF OwnText, Text, Unit
<1>3. CASE ~(units < MaxUnits)
  BY <1>1, <1>3 DEF OwnText, Text
<1> QED
  BY <1>2, <1>3

LEMMA WriteOwnOK ==
  ASSUME NEW n \in Nat, NEW b, BridgeOK(b, n), NEW chunk, chunk \in Text
  PROVE  BridgeOK(WriteOwn(b, chunk), n)
BY WriteOK DEF WriteOwn

\* When another snapshot has been requested.
LEMMA MoreRequests ==
  ASSUME SurfaceTypes, attached, requests' = requests + 1, BridgeOK(bridge', requests + 1),
         NEW mark \in Nat, marks' = Append(marks, mark), buffer' \in Buffers, stale' \in BOOLEAN,
         UNCHANGED <<attached, attaches, recovered, snapshot, committed, parser, captures, screen,
                     gone>>,
         toNative' \in Seq(NativeMessages(requests))
  PROVE  SurfaceTypes'
<1>1. marks' \in Seq(Nat) /\ Len(marks') = requests + 1
  BY AppendProperties DEF SurfaceTypes
<1>2. /\ requests + 1 \in Nat /\ committed' \in 0..(requests + 1)
      /\ toNative' \in Seq(NativeMessages(requests + 1)) /\ captures' \in Seq(1..(requests + 1))
  BY MoreMessages DEF SurfaceTypes
<1> QED
  BY <1>1, <1>2 DEF SurfaceTypes

LEMMA WaitingType ==
  ASSUME LoopTypes
  PROVE  FlattenSeq(transport) \in Text /\ Waiting \in Text
<1>1. transport \in Seq(Seq(Unit)) /\ output \in Text
  BY DEF LoopTypes, Text
<1>2. FlattenSeq(transport) \in Text
  BY <1>1, FlattenType DEF Text
<1> QED
  BY <1>1, <1>2, TextAssoc DEF Waiting

LEMMA ReachedType ==
  ASSUME LoopTypes
  PROVE  Reached \in 0..MaxUnits
<1>1. Waiting \in Text
  BY WaitingType
<1>2. Reached = IF Waiting = <<>> THEN units ELSE Head(Waiting) - 1
  BY Zenon DEF Reached, Waiting
<1>3. CASE Waiting = <<>>
  BY <1>2, <1>3 DEF LoopTypes
<1>4. CASE Waiting # <<>>
  <2>1. Head(Waiting) \in Unit
    BY <1>1, <1>4, HeadTailProperties DEF Text
  <2> QED
    BY <1>2, <1>4, <2>1, LimitsAssumption DEF Unit
<1> QED
  BY <1>3, <1>4

LEMMA CloseTypes ==
  ASSUME TypeInv, HandleClose
  PROVE  TypeInv'
<1> DEFINE released == [buffer EXCEPT !.bridgePaused = FALSE, !.detachedPaused = FALSE]
           b == WriteOwn(bridge, OwnText)
<1>1. LoopTypes /\ SurfaceTypes /\ PhaseOK
  BY DEF TypeInv
<1>2. /\ transport # <<>> /\ Head(transport) = Close /\ connected = "yes"
      /\ transport' = Tail(transport) /\ connected' = "no"
      /\ units' = units + Len(OwnText)
      /\ buffer' = Follow(AppendDetached(released, OwnText), b)
      /\ IF attached THEN CaptureSnapshot(b, units') ELSE UNCHANGED <<bridge, requests, marks>>
      /\ stale' = ((stale \/ bridge.backpressured) /\ attached)
      /\ UNCHANGED <<session, sessions, output, outputPaused, attached, attaches, recovered,
                     pauseRx, rejected, snapshot, committed, page, gone>>
  BY DEF HandleClose, loop
<1>3. /\ OwnText \in Text /\ units' \in 0..MaxUnits
  BY <1>1, <1>2, OwnTypes
<1>4. /\ requests \in Nat /\ BridgeOK(bridge, requests) /\ buffer \in Buffers /\ stale \in BOOLEAN
      /\ bridge.backpressured \in BOOLEAN
  BY <1>1, BackpressuredType DEF SurfaceTypes
<1>5. BridgeOK(b, requests) /\ b.backpressured \in BOOLEAN
  BY <1>3, <1>4, WriteOwnOK, BackpressuredType
<1>6. buffer' \in Buffers
  <2>1. released \in Buffers
    BY <1>4 DEF Buffers
  <2> HIDE DEF released, b
  <2>2. AppendDetached(released, OwnText) \in Buffers
    BY <1>3, <2>1, AppendDetachedIs
  <2> QED
    BY <1>2, <1>5, <2>2, FollowIs
<1>7. session = "over" /\ transport' = <<>> /\ output = <<>>
  <2>1. /\ transport \in Seq(Text) /\ transport[1] = Close /\ 1 \in DOMAIN transport
        /\ Len(transport) \in Nat /\ Len(transport) # 0
    BY <1>1, <1>2, HeadTailProperties, EmptySeq, LenProperties DEF LoopTypes
  <2>2. session = "over" /\ output = <<>>
    BY <1>1, <1>2, <2>1 DEF PhaseOK, LoopTypes
  <2>3. Len(transport) = 1
    <3>1. \A i \in 1..(Len(transport) - 1) : transport[i] # Close
      BY <1>1, <1>2, <2>2 DEF PhaseOK
    <3>2. Len(transport) # 1 => 1 \in 1..(Len(transport) - 1)
      <4>1. PICK k \in Nat : k = Len(transport)
        BY <2>1, Zenon
      <4>2. k # 0
        BY <2>1, <4>1, Zenon
      <4>3. k # 1 => 1 \in 1..(k - 1)
        BY <4>2
      <4> QED
        BY <4>1, <4>3, Zenon
    <3> QED
      BY <2>1, <3>1, <3>2
  <2>4. Tail(transport) \in Seq(Text) /\ Len(Tail(transport)) = 0
    BY <1>2, <2>1, <2>3, HeadTailProperties
  <2> QED
    BY <1>2, <2>2, <2>4, EmptySeq
<1>8. LoopTypes'
  <2>1. <<>> \in Seq(Text) /\ Len(<<>>) = 0 /\ QueueCapacity \in Nat
    BY LimitsAssumption
  <2>2. transport' \in Seq(Text) /\ Len(transport') = 0
    BY <1>7, <2>1, Zenon
  <2>3. transport' \in Seq(Text) /\ Len(transport') <= QueueCapacity
    BY <2>1, <2>2
  <2> QED
    BY <1>1, <1>2, <1>3, <2>3 DEF LoopTypes
<1>9. SurfaceTypes'
  <2>1. stale' \in BOOLEAN
    BY <1>1, <1>2, <1>4 DEF SurfaceTypes
  <2> HIDE DEF released, b
  <2>2. CASE attached
    <3>1. /\ requests' = requests + 1 /\ marks' = Append(marks, units')
          /\ bridge' = RequestSnapshot(b, requests + 1)
      BY <1>2, <2>2 DEF CaptureSnapshot
    <3>2. BridgeOK(bridge', requests + 1)
      BY <1>4, <1>5, <3>1, RequestOK
    <3>3. units' \in Nat
      BY <1>3
    <3>4. toNative' \in Seq(NativeMessages(requests))
      BY <1>1, <1>2 DEF SurfaceTypes, page
    <3>5. UNCHANGED <<attached, attaches, recovered, snapshot, committed, parser, captures,
                      screen, gone>>
      BY <1>2 DEF page
    <3> QED
      BY <1>1, <1>6, <2>1, <2>2, <3>1, <3>2, <3>3, <3>4, <3>5, MoreRequests
  <2>3. CASE ~attached
    BY <1>1, <1>2, <1>6, <2>1, <2>3 DEF SurfaceTypes, PageGone, page
  <2> QED
    BY <2>2, <2>3
<1>10. PhaseOK'
  BY <1>2, <1>7 DEF PhaseOK
<1> QED
  BY <1>8, <1>9, <1>10 DEF TypeInv

LEMMA TerminalTypes ==
  ASSUME TypeInv, WriteTerminal
  PROVE  TypeInv'
<1>1. LoopTypes /\ SurfaceTypes /\ PhaseOK
  BY DEF TypeInv
<1>2. PICK text \in {<<units + 1>>} \cup (IF EmptyTexts THEN {<<>>} ELSE {}) :
        /\ units + Len(text) <= MaxUnits /\ units' = units + Len(text) /\ WriteBytes(text)
  BY DEF WriteTerminal
<1>3. /\ connected = "no"
      /\ UNCHANGED <<session, sessions, output, outputPaused, transport, connected>>
      /\ UNCHANGED <<attached, attaches, recovered, snapshots, page, gone>>
  BY DEF WriteTerminal, loop
<1>4. text \in Text /\ units' \in 0..MaxUnits
  <2>1. units \in Nat /\ MaxUnits \in Nat
    BY <1>1, LimitsAssumption DEF LoopTypes
  <2>2. CASE text = <<units + 1>>
    BY <1>2, <2>1, <2>2 DEF Text, Unit
  <2>3. CASE text = <<>>
    BY <1>2, <2>1, <2>3 DEF Text
  <2> QED
    BY <1>2, <2>2, <2>3
<1>5. /\ pauseRx' \in Seq(BOOLEAN) /\ Len(pauseRx') <= PauseCapacity /\ rejected' \in BOOLEAN
      /\ connected # "yes" => pauseRx' = pauseRx
      /\ BridgeOK(bridge', requests) /\ buffer' \in Buffers /\ stale' \in BOOLEAN
      /\ ~attached => bridge' = bridge
  BY <1>1, <1>2, <1>4, WriteBytesTypes
<1>6. LoopTypes'
  BY <1>1, <1>3, <1>4, <1>5 DEF LoopTypes
<1>7. SurfaceTypes'
  BY <1>1, <1>3, <1>5 DEF SurfaceTypes, PageGone, snapshots, page
<1>8. PhaseOK'
  BY <1>1, <1>3, <1>5 DEF PhaseOK
<1> QED
  BY <1>6, <1>7, <1>8 DEF TypeInv

LEMMA NewBridgeOK ==
  ASSUME NEW n \in Nat, NEW text, text \in Text
  PROVE  /\ BridgeOK(NewBridge, n) /\ BridgeOK([NewBridge EXCEPT !.restore = text], n)
         /\ [NewBridge EXCEPT !.restore = text].restore = text
         /\ [NewBridge EXCEPT !.restore = text].pending = <<>>
         /\ [NewBridge EXCEPT !.restore = text].toPage = <<>>
         /\ [NewBridge EXCEPT !.restore = text].inFlight = <<>>
         /\ [NewBridge EXCEPT !.restore = text].dropped = {}
         /\ [NewBridge EXCEPT !.restore = text].awaitingRestore = FALSE
<1> DEFINE e == <<>>
<1>1. /\ e \in Text /\ e \in Seq(Text) /\ e \in Seq(Nat) /\ e \in Seq(1..n)
      /\ e \in Seq(PageMessages(n)) /\ Len(e) = 0
  BY DEF Text
<1>2. FlattenSeq(e) = e
  BY FlattenEmpty
<1>3. 0 \in 0..MaxPending /\ 0 \in Nat /\ 1 \in Nat /\ MaxInFlight \in Nat
  BY LimitsAssumption
<1>4. NewBridge
        = [ready |-> FALSE, pending |-> e, pendingBytes |-> 0, inFlight |-> e, inFlightBytes |-> 0,
           next |-> 1, backpressured |-> FALSE, restore |-> e, awaitingRestore |-> FALSE,
           requests |-> e, dropped |-> {}, toPage |-> e]
  BY DEF NewBridge
<1> HIDE DEF e
<1>5. NewBridge \in Bridges(n) /\ [NewBridge EXCEPT !.restore = text] \in Bridges(n)
  BY <1>1, <1>3, <1>4 DEF Bridges
<1>6. /\ [NewBridge EXCEPT !.restore = text].restore = text
      /\ [NewBridge EXCEPT !.restore = text].pending = e
      /\ [NewBridge EXCEPT !.restore = text].toPage = e
      /\ [NewBridge EXCEPT !.restore = text].inFlight = e
      /\ [NewBridge EXCEPT !.restore = text].dropped = {}
      /\ [NewBridge EXCEPT !.restore = text].awaitingRestore = FALSE
      /\ [NewBridge EXCEPT !.restore = text].pendingBytes = 0
      /\ [NewBridge EXCEPT !.restore = text].ready = FALSE
      /\ NewBridge.pending = e /\ NewBridge.inFlight = e /\ NewBridge.ready = FALSE
      /\ NewBridge.pendingBytes = 0
  BY <1>4
<1>7. Len(FlattenSeq(e)) = 0 /\ Len(e) <= MaxInFlight
  BY <1>1, <1>2, <1>3
<1>8. BridgeOK(NewBridge, n)
  BY <1>5, <1>6, <1>7 DEF BridgeOK
<1>9. BridgeOK([NewBridge EXCEPT !.restore = text], n)
  BY <1>5, <1>6, <1>7 DEF BridgeOK
<1> QED
  BY <1>6, <1>8, <1>9 DEF e

LEMMA AttachTypes ==
  ASSUME TypeInv, Attach
  PROVE  TypeInv'
<1> DEFINE restoring == [NewBridge EXCEPT !.restore = snapshot]
           b == BridgeWriteAll(restoring, buffer.chunks)
           f == [NewBuffer EXCEPT !.bridgePaused = b.backpressured]
           ready == [kind |-> "ready", sequence |-> 0, units |-> <<>>]
<1>1. LoopTypes /\ SurfaceTypes /\ PhaseOK
  BY DEF TypeInv
<1>2. /\ attaches < MaxAttaches /\ attached' = TRUE /\ attaches' = attaches + 1
      /\ recovered' = (snapshot # <<>> \/ buffer.chunks # <<>>)
      /\ bridge' = b /\ buffer' = f /\ stale' = (stale /\ b.backpressured)
      /\ toNative' = <<ready>>
      /\ parser' = <<>> /\ captures' = <<>> /\ screen' = <<>>
      /\ UNCHANGED <<units, session, sessions, output, outputPaused, transport, connected>>
      /\ UNCHANGED <<snapshot, committed, requests, marks, gone>>
  BY DEF Attach, Become, loop, snapshots
<1>3. PICK n \in Nat : SetOutputPaused(Paused(f), n)
  <2>1. (IF Paused(f) THEN 1 ELSE 0) + (IF Paused(f) # Paused(buffer) THEN 1 ELSE 0) \in Nat
    OBVIOUS
  <2>2. SetOutputPaused(Paused(f),
          (IF Paused(f) THEN 1 ELSE 0) + (IF Paused(f) # Paused(buffer) THEN 1 ELSE 0))
    BY Zenon DEF Attach
  <2> HIDE DEF f
  <2> QED
    BY <2>1, <2>2
<1>4. /\ requests \in Nat /\ buffer.chunks \in Seq(Text) /\ snapshot \in Text /\ stale \in BOOLEAN
  BY <1>1 DEF SurfaceTypes, Buffers
<1>5. BridgeOK(b, requests) /\ b.backpressured \in BOOLEAN
  <2>1. BridgeOK(restoring, requests)
    BY <1>4, NewBridgeOK
  <2> HIDE DEF restoring
  <2>2. BridgeOK(b, requests)
    BY <1>4, <2>1, WriteAllOK
  <2> HIDE DEF b
  <2> QED
    BY <2>2, BackpressuredType
<1> HIDE DEF restoring, b
<1>6. f \in Buffers
  <2>1. NewBuffer \in Buffers
    BY DEF NewBuffer, Buffers
  <2> QED
    BY <1>5, <2>1 DEF Buffers
<1> HIDE DEF f
<1>7. /\ pauseRx' \in Seq(BOOLEAN) /\ Len(pauseRx') <= PauseCapacity /\ rejected' \in BOOLEAN
      /\ connected # "yes" => pauseRx' = pauseRx
  <2>1. Paused(f) \in BOOLEAN
    BY <1>6, PausedType
  <2> QED
    BY <1>1, <1>3, <2>1, SetPaused
<1>8. LoopTypes'
  BY <1>1, <1>2, <1>7 DEF LoopTypes
<1>9. SurfaceTypes'
  <2>1. toNative' \in Seq(NativeMessages(requests'))
    <3>1. ready \in NativeMessages(requests')
      BY DEF NativeMessages, Messages, Kinds, Text
    <3> HIDE DEF ready
    <3> QED
      BY <1>2, <3>1
  <2>2. attaches' \in 0..MaxAttaches
    BY <1>1, <1>2, LimitsAssumption DEF SurfaceTypes
  <2>3. /\ parser' \in Seq(ParserMessages) /\ captures' \in Seq(1..requests') /\ screen' \in Text
    BY <1>2 DEF Text
  <2>4. stale' \in BOOLEAN /\ recovered' \in BOOLEAN
    BY <1>2, <1>4, <1>5
  <2>5. BridgeOK(bridge', requests') /\ buffer' \in Buffers
    BY <1>2, <1>5, <1>6
  <2>6. /\ requests' \in Nat /\ snapshot' \in Text /\ committed' \in 0..requests'
        /\ marks' \in Seq(Nat) /\ Len(marks') = requests' /\ gone' \subseteq Unit
    BY <1>1, <1>2 DEF SurfaceTypes
  <2> QED
    BY <1>2, <2>1, <2>2, <2>3, <2>4, <2>5, <2>6 DEF SurfaceTypes
<1>10. PhaseOK'
  BY <1>1, <1>2, <1>7 DEF PhaseOK
<1> QED
  BY <1>8, <1>9, <1>10 DEF TypeInv

LEMMA DetachTypes ==
  ASSUME TypeInv, Detach
  PROVE  TypeInv'
<1>1. LoopTypes /\ SurfaceTypes /\ PhaseOK
  BY DEF TypeInv
<1>2. /\ attached' = FALSE /\ bridge' = NewBridge /\ buffer' = NewBuffer /\ stale' = FALSE
      /\ Notify(NewBuffer, 1)
      /\ gone' = gone \cup ((1..Reached) \ Range(snapshot))
      /\ toNative' = <<>> /\ parser' = <<>> /\ captures' = <<>> /\ screen' = <<>>
      /\ UNCHANGED <<units, session, sessions, output, outputPaused, transport, connected>>
      /\ UNCHANGED <<attaches, recovered, snapshot, committed, requests, marks>>
  BY DEF Detach, loop, snapshots
<1>3. PICK n \in Nat : SetOutputPaused(Paused(NewBuffer), n)
  BY <1>2 DEF Notify
<1>4. NewBuffer \in Buffers
  BY DEF NewBuffer, Buffers
<1>5. /\ pauseRx' \in Seq(BOOLEAN) /\ Len(pauseRx') <= PauseCapacity /\ rejected' \in BOOLEAN
      /\ connected # "yes" => pauseRx' = pauseRx
  <2>1. Paused(NewBuffer) \in BOOLEAN
    BY <1>4, PausedType
  <2> QED
    BY <1>1, <1>3, <2>1, SetPaused
<1>6. LoopTypes'
  BY <1>1, <1>2, <1>5 DEF LoopTypes
<1>7. SurfaceTypes'
  <2>1. gone' \subseteq Unit
    <3>1. Reached \in 0..MaxUnits /\ gone \subseteq Unit
      BY <1>1, ReachedType DEF SurfaceTypes
    <3>2. 1..Reached \subseteq Unit
      BY <3>1, LimitsAssumption DEF Unit
    <3> QED
      BY <1>2, <3>1, <3>2
  <2>2. /\ toNative' \in Seq(NativeMessages(requests')) /\ parser' \in Seq(ParserMessages)
        /\ captures' \in Seq(1..requests') /\ screen' \in Text
    BY <1>2 DEF Text
  <2>3. BridgeOK(bridge', requests')
    <3>1. requests \in Nat /\ <<>> \in Text
      BY <1>1 DEF SurfaceTypes, Text
    <3> QED
      BY <1>2, <3>1, NewBridgeOK
  <2>4. /\ requests' \in Nat /\ snapshot' \in Text /\ committed' \in 0..requests'
        /\ marks' \in Seq(Nat) /\ Len(marks') = requests'
        /\ attaches' \in 0..MaxAttaches /\ recovered' \in BOOLEAN
    BY <1>1, <1>2 DEF SurfaceTypes
  <2>5. PageGone'
    BY <1>2 DEF PageGone
  <2>6. attached' \in BOOLEAN /\ stale' \in BOOLEAN /\ buffer' \in Buffers
    BY <1>2, <1>4
  <2> QED
    BY <2>1, <2>2, <2>3, <2>4, <2>5, <2>6 DEF SurfaceTypes
<1>8. PhaseOK'
  BY <1>1, <1>2, <1>5 DEF PhaseOK
<1> QED
  BY <1>6, <1>7, <1>8 DEF TypeInv

LEMMA CaptureTypes ==
  ASSUME TypeInv, Capture
  PROVE  TypeInv'
<1>1. LoopTypes /\ SurfaceTypes /\ PhaseOK
  BY DEF TypeInv
<1>2. /\ attached /\ requests' = requests + 1 /\ marks' = Append(marks, Reached)
      /\ bridge' = RequestSnapshot(bridge, requests + 1)
      /\ UNCHANGED <<units, session, sessions, output, outputPaused, transport, connected, pauseRx,
                     rejected>>
      /\ UNCHANGED <<attached, attaches, recovered, buffer, stale, snapshot, committed, toNative,
                     parser, captures, screen, gone>>
  BY DEF Capture, CaptureSnapshot, loop, page
<1>3. Reached \in Nat
  BY <1>1, ReachedType
<1>4. /\ requests \in Nat /\ BridgeOK(bridge, requests) /\ buffer \in Buffers /\ stale \in BOOLEAN
      /\ toNative \in Seq(NativeMessages(requests))
  BY <1>1 DEF SurfaceTypes
<1>5. BridgeOK(bridge', requests + 1)
  BY <1>2, <1>4, RequestOK
<1>6. LoopTypes'
  BY <1>1, <1>2 DEF LoopTypes
<1>7. SurfaceTypes'
  <2>1. toNative' \in Seq(NativeMessages(requests)) /\ buffer' \in Buffers /\ stale' \in BOOLEAN
    BY <1>2, <1>4
  <2> QED
    BY <1>1, <1>2, <1>3, <1>5, <2>1, MoreRequests
<1>8. PhaseOK'
  BY <1>1, <1>2 DEF PhaseOK
<1> QED
  BY <1>6, <1>7, <1>8 DEF TypeInv

LEMMA OnReadyTypes ==
  ASSUME LoopTypes, SurfaceTypes, NEW b, BridgeOK(b, requests), OnBridgeReady(b)
  PROVE  /\ units' \in 0..MaxUnits /\ requests' = requests + 1 /\ BridgeOK(bridge', requests + 1)
         /\ \E mark \in Nat : marks' = Append(marks, mark)
<1> DEFINE text == IF connected = "no" /\ ~recovered THEN OwnText ELSE <<>>
<1>1. requests \in Nat /\ Reached \in Nat /\ units \in 0..MaxUnits
  BY ReachedType DEF SurfaceTypes, LoopTypes
<1>2. text \in Text /\ Len(text) \in Nat /\ units + Len(text) \in 0..MaxUnits
  <2>1. CASE text = OwnText
    BY <2>1, OwnTypes
  <2>2. CASE text = <<>>
    <3>1. <<>> \in Text /\ Len(<<>>) = 0
      BY DEF Text
    <3>2. text \in Text /\ Len(text) = 0
      BY <2>2, <3>1, Zenon
    <3> HIDE DEF text
    <3> QED
      BY <1>1, <3>2
  <2> QED
    BY <2>1, <2>2
<1>3. /\ units' = units + Len(text) /\ requests' = requests + 1
      /\ marks' = Append(marks, Reached + Len(text))
      /\ bridge' = RequestSnapshot(WriteOwn(b, text), requests + 1)
  BY DEF OnBridgeReady, CaptureSnapshot
<1> HIDE DEF text
<1>4. BridgeOK(WriteOwn(b, text), requests)
  BY <1>1, <1>2, WriteOwnOK
<1>5. BridgeOK(bridge', requests + 1)
  BY <1>1, <1>3, <1>4, RequestOK
<1>6. Reached + Len(text) \in Nat
  BY <1>1, <1>2
<1> QED
  BY <1>2, <1>3, <1>5, <1>6

LEMMA RawTypes ==
  ASSUME TypeInv, HandleRawMessage
  PROVE  TypeInv'
<1> DEFINE m == Head(toNative)
<1>1. LoopTypes /\ SurfaceTypes /\ PhaseOK
  BY DEF TypeInv
<1>2. /\ toNative # <<>> /\ toNative' = Tail(toNative)
      /\ buffer' = Follow(buffer, bridge')
      /\ stale' = (stale /\ bridge'.backpressured)
      /\ Notify(buffer', 1)
      /\ UNCHANGED <<session, sessions, output, outputPaused, transport, connected>>
      /\ UNCHANGED <<attached, attaches, recovered, parser, captures, screen, gone>>
  BY DEF HandleRawMessage, loop
<1>3. \/ m.kind = "ready" /\ HandleReady /\ UNCHANGED <<snapshot, committed>>
      \/ /\ m.kind = "ack" /\ bridge' = Acknowledge(bridge, m.sequence, Len(m.units))
         /\ UNCHANGED <<units, snapshots>>
      \/ m.kind = "restored" /\ HandleRestoreComplete /\ UNCHANGED <<snapshot, committed>>
      \/ /\ m.kind = "snapshot" /\ HandleSnapshot(m)
         /\ UNCHANGED <<units, bridge, requests, marks>>
  BY DEF HandleRawMessage
<1>4. /\ attached /\ requests \in Nat /\ BridgeOK(bridge, requests) /\ buffer \in Buffers
      /\ stale \in BOOLEAN /\ toNative \in Seq(NativeMessages(requests)) /\ units \in 0..MaxUnits
  BY <1>1, <1>2 DEF SurfaceTypes, PageGone, LoopTypes
<1>5. m \in NativeMessages(requests) /\ Tail(toNative) \in Seq(NativeMessages(requests))
  BY <1>2, <1>4, HeadTailProperties
<1>6. m.units \in Text /\ m.sequence \in Nat /\ (m.kind = "snapshot" => m.sequence \in 1..requests)
  BY <1>5 DEF NativeMessages, Messages
<1> HIDE DEF m
<1>7. ASSUME NEW b, BridgeOK(b, requests), OnBridgeReady(b) \/ NotYetReady(b)
      PROVE  /\ units' \in 0..MaxUnits /\ BridgeOK(bridge', requests')
             /\ \/ requests' = requests /\ marks' = marks
                \/ requests' = requests + 1 /\ \E mark \in Nat : marks' = Append(marks, mark)
  <2>1. CASE OnBridgeReady(b)
    BY <1>1, <1>7, <2>1, OnReadyTypes
  <2>2. CASE NotYetReady(b)
    BY <1>4, <1>7, <2>2 DEF NotYetReady
  <2> QED
    BY <1>7, <2>1, <2>2
<1>8. /\ units' \in 0..MaxUnits /\ BridgeOK(bridge', requests')
      /\ \/ requests' = requests /\ marks' = marks
         \/ requests' = requests + 1 /\ \E mark \in Nat : marks' = Append(marks, mark)
  <2>1. CASE HandleReady
    <3>1. BridgeOK(PageReady(bridge), requests)
      BY <1>4, ReadyOK
    <3>2. OnBridgeReady(PageReady(bridge)) \/ NotYetReady(PageReady(bridge))
      BY <2>1 DEF HandleReady
    <3> QED
      BY <1>7, <3>1, <3>2
  <2>2. CASE HandleRestoreComplete
    <3>1. BridgeOK(RestoreComplete(bridge), requests)
      BY <1>4, RestoreCompleteOK
    <3>2. OnBridgeReady(RestoreComplete(bridge)) \/ NotYetReady(bridge)
      BY <2>2 DEF HandleRestoreComplete
    <3> QED
      BY <1>4, <1>7, <3>1, <3>2
  <2>3. CASE m.kind = "ack" /\ bridge' = Acknowledge(bridge, m.sequence, Len(m.units)) /\ UNCHANGED <<units, snapshots>>
    <3>1. Len(m.units) \in Nat
      BY <1>6, LenProperties DEF Text
    <3>2. BridgeOK(bridge', requests)
      BY <1>4, <2>3, <3>1, AcknowledgeOK
    <3> QED
      BY <1>4, <2>3, <3>2 DEF snapshots
  <2>4. CASE UNCHANGED <<units, bridge, requests, marks>>
    BY <1>4, <2>4
  <2> QED
    BY <1>3, <2>1, <2>2, <2>3, <2>4
<1>9. snapshot' \in Text /\ committed' \in 0..requests
  <2>1. snapshot \in Text /\ committed \in 0..requests
    BY <1>1 DEF SurfaceTypes
  <2>2. CASE m.kind = "snapshot" /\ HandleSnapshot(m)
    BY <1>4, <1>6, <2>1, <2>2 DEF HandleSnapshot
  <2>3. CASE UNCHANGED <<snapshot, committed>>
    BY <2>1, <2>3
  <2> QED
    BY <1>3, <2>2, <2>3 DEF snapshots
<1>10. bridge'.backpressured \in BOOLEAN
  BY <1>8, BackpressuredType
<1>11. buffer' \in Buffers /\ stale' \in BOOLEAN
  BY <1>2, <1>4, <1>10, FollowIs
<1>12. /\ pauseRx' \in Seq(BOOLEAN) /\ Len(pauseRx') <= PauseCapacity /\ rejected' \in BOOLEAN
       /\ connected # "yes" => pauseRx' = pauseRx
  <2>1. Paused(buffer') \in BOOLEAN
    BY <1>11, PausedType
  <2>2. PICK n \in Nat : SetOutputPaused(Paused(buffer'), n)
    BY <1>2 DEF Notify
  <2> QED
    BY <1>1, <2>1, <2>2, SetPaused
<1>13. LoopTypes'
  BY <1>1, <1>2, <1>8, <1>12 DEF LoopTypes
<1>14. SurfaceTypes'
  <2>1. CASE requests' = requests /\ marks' = marks
    BY <1>1, <1>2, <1>4, <1>5, <1>8, <1>9, <1>11, <2>1 DEF SurfaceTypes
  <2>2. CASE requests' = requests + 1 /\ \E mark \in Nat : marks' = Append(marks, mark)
    <3>1. PICK mark \in Nat : marks' = Append(marks, mark)
      BY <2>2
    <3>2. marks' \in Seq(Nat) /\ Len(marks') = requests + 1
      BY <1>1, <3>1, AppendProperties DEF SurfaceTypes
    <3>3. /\ requests + 1 \in Nat /\ committed' \in 0..(requests + 1)
          /\ toNative' \in Seq(NativeMessages(requests + 1))
          /\ captures' \in Seq(1..(requests + 1))
      <4>1. captures \in Seq(1..requests)
        BY <1>1 DEF SurfaceTypes
      <4> QED
        BY <1>2, <1>4, <1>5, <1>9, <4>1, MoreMessages
    <3>4. attached' /\ attached' \in BOOLEAN /\ attaches' \in 0..MaxAttaches /\ recovered' \in BOOLEAN
      BY <1>1, <1>2, <1>4 DEF SurfaceTypes
    <3>5. parser' \in Seq(ParserMessages) /\ screen' \in Text /\ gone' \subseteq Unit
      BY <1>1, <1>2 DEF SurfaceTypes
    <3> QED
      BY <1>8, <1>9, <1>11, <2>2, <3>2, <3>3, <3>4, <3>5 DEF SurfaceTypes
  <2> QED
    BY <1>8, <2>1, <2>2
<1>15. PhaseOK'
  BY <1>1, <1>2, <1>12 DEF PhaseOK
<1> QED
  BY <1>13, <1>14, <1>15 DEF TypeInv

LEMMA ReceiveTypes ==
  ASSUME TypeInv, ReceiveMessage
  PROVE  TypeInv'
<1> DEFINE m == Head(bridge.toPage)
<1>1. LoopTypes /\ SurfaceTypes /\ PhaseOK
  BY DEF TypeInv
<1>2. /\ bridge.toPage # <<>> /\ bridge' = Received(bridge)
      /\ UNCHANGED <<units, session, sessions, output, outputPaused, transport, connected, pauseRx,
                     rejected>>
      /\ UNCHANGED <<attached, attaches, recovered, buffer, stale, snapshot, committed, requests,
                     marks, toNative, screen, gone>>
  BY DEF ReceiveMessage, Received, loop, snapshots
<1>3. \/ /\ m.kind \in {"data", "restore"}
         /\ parser' = IF m.units = <<>> THEN parser ELSE Append(parser, m)
         /\ UNCHANGED captures
      \/ /\ m.kind = "snapshot"
         /\ captures' = Append(captures, m.sequence)
         /\ parser' = IF captures = <<>> THEN Append(parser, CaptureMark) ELSE parser
  BY DEF ReceiveMessage
<1>4. /\ requests \in Nat /\ BridgeOK(bridge, requests)
      /\ parser \in Seq(ParserMessages) /\ captures \in Seq(1..requests)
  BY <1>1 DEF SurfaceTypes
<1>5. BridgeOK(bridge', requests)
  BY <1>2, <1>4, ReceivedOK
<1>6. m \in PageMessages(requests)
  <2>1. bridge.toPage \in Seq(PageMessages(requests))
    BY <1>4 DEF BridgeOK, Bridges
  <2> QED
    BY <1>2, <2>1, HeadTailProperties
<1>7. /\ m.kind \in {"data", "restore"} /\ m.units # <<>> => m \in ParserMessages
      /\ m.kind = "snapshot" => m.sequence \in 1..requests
  BY <1>6 DEF PageMessages, ParserMessages
<1>8. CaptureMark \in ParserMessages
  BY DEF CaptureMark, ParserMessages, Messages, Kinds, Text
<1> HIDE DEF m
<1>9. parser' \in Seq(ParserMessages) /\ captures' \in Seq(1..requests)
  <2>1. CASE parser' = parser
    <3>1. CASE UNCHANGED captures
      BY <1>4, <2>1, <3>1
    <3>2. CASE m.kind = "snapshot" /\ captures' = Append(captures, m.sequence)
      BY <1>4, <1>7, <2>1, <3>2, AppendProperties
    <3> QED
      BY <1>3, <3>1, <3>2
  <2>2. CASE /\ m.kind \in {"data", "restore"} /\ m.units # <<>>
             /\ parser' = Append(parser, m) /\ UNCHANGED captures
    BY <1>4, <1>7, <2>2, AppendProperties
  <2>3. CASE /\ m.kind = "snapshot" /\ captures' = Append(captures, m.sequence)
             /\ parser' = Append(parser, CaptureMark)
    BY <1>4, <1>7, <1>8, <2>3, AppendProperties
  <2> QED
    BY <1>3, <2>1, <2>2, <2>3
<1>10. attached
  BY <1>1, <1>2 DEF SurfaceTypes, PageGone, NewBridge
<1>11. LoopTypes'
  BY <1>1, <1>2 DEF LoopTypes
<1>12. SurfaceTypes'
  BY <1>1, <1>2, <1>5, <1>9, <1>10 DEF SurfaceTypes
<1>13. PhaseOK'
  BY <1>1, <1>2 DEF PhaseOK
<1> QED
  BY <1>11, <1>12, <1>13 DEF TypeInv

\* What xterm's serialised terminal is sent as.
Replies == [i \in DOMAIN captures |->
              [kind |-> "snapshot", sequence |-> captures[i], units |-> screen]]

LEMMA RepliesType ==
  ASSUME NEW n, captures \in Seq(1..n), n \in Nat, screen \in Text
  PROVE  /\ Replies \in Seq(NativeMessages(n)) /\ Len(Replies) = Len(captures)
         /\ DOMAIN Replies = DOMAIN captures
         /\ \A i \in DOMAIN captures :
              /\ Replies[i].kind = "snapshot" /\ Replies[i].units = screen
              /\ Replies[i].sequence = captures[i]
<1>1. DOMAIN captures = 1..Len(captures) /\ Len(captures) \in Nat
  BY LenProperties
<1>2. \A i \in DOMAIN captures : captures[i] \in 1..n
  BY ElementOfSeq, <1>1
<1>3. \A i \in DOMAIN captures :
        [kind |-> "snapshot", sequence |-> captures[i], units |-> screen] \in NativeMessages(n)
  BY <1>2 DEF NativeMessages, Messages, Kinds
<1>4. Replies \in [1..Len(captures) -> NativeMessages(n)]
  BY <1>1, <1>3 DEF Replies
<1>5. \A i \in DOMAIN captures :
        /\ Replies[i].kind = "snapshot" /\ Replies[i].units = screen
        /\ Replies[i].sequence = captures[i]
  BY DEF Replies
<1>6. DOMAIN Replies = DOMAIN captures
  BY DEF Replies
<1> QED
  BY <1>1, <1>4, <1>5, <1>6, FunctionIsSeq

LEMMA ParseTypes ==
  ASSUME TypeInv, Parse
  PROVE  TypeInv'
<1> DEFINE m == Head(parser)
           ack == [kind |-> "ack", sequence |-> m.sequence, units |-> m.units]
           restored == [kind |-> "restored", sequence |-> 0, units |-> <<>>]
<1>1. LoopTypes /\ SurfaceTypes /\ PhaseOK
  BY DEF TypeInv
<1>2. /\ parser # <<>> /\ parser' = Tail(parser)
      /\ UNCHANGED <<units, session, sessions, output, outputPaused, transport, connected, pauseRx,
                     rejected>>
      /\ UNCHANGED <<attached, attaches, recovered, buffer, bridge, stale, snapshot, committed,
                     requests, marks, gone>>
  BY DEF Parse, loop, flow, snapshots
<1>3. \/ /\ m.kind = "data" /\ screen' = screen \o m.units
         /\ toNative' = Append(toNative, ack) /\ UNCHANGED captures
      \/ /\ m.kind = "restore" /\ screen' = screen \o m.units
         /\ toNative' = Append(toNative, restored) /\ UNCHANGED captures
      \/ /\ m.kind = "capture" /\ captures' = <<>> /\ UNCHANGED screen
         /\ toNative' = toNative \/ toNative' = toNative \o Replies
  BY DEF Parse, Send, Replies
<1>4. /\ requests \in Nat /\ parser \in Seq(ParserMessages) /\ captures \in Seq(1..requests)
      /\ screen \in Text /\ toNative \in Seq(NativeMessages(requests)) /\ attached
  BY <1>1, <1>2 DEF SurfaceTypes, PageGone
<1>5. m \in ParserMessages /\ Tail(parser) \in Seq(ParserMessages)
  BY <1>2, <1>4, HeadTailProperties
<1>6. m.units \in Text /\ m.sequence \in Nat
  BY <1>5 DEF ParserMessages, Messages
<1>7. ack \in NativeMessages(requests) /\ restored \in NativeMessages(requests)
  BY <1>6 DEF NativeMessages, Messages, Kinds, Text
<1>8. Replies \in Seq(NativeMessages(requests))
  BY <1>4, RepliesType
<1> HIDE DEF m, ack, restored
<1>9. /\ screen' \in Text /\ toNative' \in Seq(NativeMessages(requests))
      /\ captures' \in Seq(1..requests)
  <2>1. screen \o m.units \in Text
    BY <1>4, <1>6, TextAssoc
  <2>2. /\ Append(toNative, ack) \in Seq(NativeMessages(requests))
        /\ Append(toNative, restored) \in Seq(NativeMessages(requests))
        /\ toNative \o Replies \in Seq(NativeMessages(requests))
    BY <1>4, <1>7, <1>8, AppendProperties, ConcatProperties
  <2>3. <<>> \in Seq(1..requests)
    OBVIOUS
  <2> QED
    BY <1>3, <1>4, <2>1, <2>2, <2>3
<1>10. LoopTypes'
  BY <1>1, <1>2 DEF LoopTypes
<1>11. SurfaceTypes'
  BY <1>1, <1>2, <1>4, <1>5, <1>9 DEF SurfaceTypes
<1>12. PhaseOK'
  BY <1>1, <1>2 DEF PhaseOK
<1> QED
  BY <1>10, <1>11, <1>12 DEF TypeInv

LEMMA TypeInit ==
  ASSUME Init
  PROVE  TypeInv
<1>1. /\ <<>> \in Text /\ Len(<<>>) = 0 /\ <<>> \in Seq(Text) /\ <<>> \in Seq(BOOLEAN)
      /\ <<>> \in Seq(Nat) /\ <<>> \in Seq(NativeMessages(0)) /\ <<>> \in Seq(ParserMessages)
      /\ <<>> \in Seq(1..0)
  BY DEF Text
<1>2. /\ 0 \in 0..MaxUnits /\ 0 \in 0..MaxSessions /\ 0 \in 0..MaxAttaches
      /\ 0 <= OutputLimit /\ 0 <= QueueCapacity /\ 0 <= PauseCapacity
  BY LimitsAssumption
<1>3. LoopTypes
  <2>1. /\ units = 0 /\ session = "none" /\ sessions = 0 /\ outputPaused = FALSE
        /\ connected = "no" /\ rejected = FALSE
    BY DEF Init
  <2>2. /\ output \in Text /\ Len(output) = 0 /\ pauseRx \in Seq(BOOLEAN) /\ Len(pauseRx) = 0
        /\ transport \in Seq(Text) /\ Len(transport) = 0
    BY <1>1, Zenon DEF Init
  <2> QED
    BY <1>2, <2>1, <2>2 DEF LoopTypes
<1>4. SurfaceTypes
  <2>1. BridgeOK(NewBridge, 0)
    BY <1>1, NewBridgeOK
  <2>2. NewBuffer \in Buffers
    BY DEF NewBuffer, Buffers
  <2>3. /\ attached = FALSE /\ attaches = 0 /\ recovered = FALSE /\ bridge = NewBridge
        /\ buffer = NewBuffer /\ committed = 0 /\ requests = 0 /\ gone = {} /\ stale = FALSE
    BY DEF Init
  <2>4. /\ snapshot \in Text /\ marks \in Seq(Nat) /\ Len(marks) = 0
        /\ toNative \in Seq(NativeMessages(0)) /\ parser \in Seq(ParserMessages)
        /\ captures \in Seq(1..0) /\ screen \in Text
    BY <1>1, Zenon DEF Init
  <2>5. PageGone
    BY DEF Init, PageGone
  <2>6. requests \in Nat /\ committed \in 0..requests /\ gone \subseteq Unit
    BY <2>3
  <2>7. /\ BridgeOK(bridge, requests) /\ toNative \in Seq(NativeMessages(requests))
        /\ captures \in Seq(1..requests) /\ Len(marks) = requests
    BY <2>1, <2>3, <2>4, Zenon
  <2>8. /\ attached \in BOOLEAN /\ attaches \in 0..MaxAttaches /\ recovered \in BOOLEAN
        /\ buffer \in Buffers /\ stale \in BOOLEAN
    BY <1>2, <2>2, <2>3
  <2> QED
    BY <2>4, <2>5, <2>6, <2>7, <2>8 DEF SurfaceTypes
<1>5. PhaseOK
  BY DEF Init, PhaseOK
<1> QED
  BY <1>3, <1>4, <1>5 DEF TypeInv

LEMMA TypeStep ==
  ASSUME TypeInv, [Next]_vars
  PROVE  TypeInv'
<1>1. CASE Next
  BY <1>1, ReadTypes, TickTypes, TakeTypes, FinalTypes, SendTypes, ConnectedTypes, DataTypes,
     CloseTypes, RawTypes, ReceiveTypes, ParseTypes, AttachTypes, ConnectTypes, EndsTypes,
     TerminalTypes, CaptureTypes, DetachTypes
     DEF Next, Loop, Events, Page, User
<1>2. CASE UNCHANGED vars
  BY <1>2 DEF vars, loop, flow, snapshots, page, TypeInv, LoopTypes, SurfaceTypes, PhaseOK, PageGone
<1> QED
  BY <1>1, <1>2

\* The types hold, and with them what a session has left in the queue in each of its phases.
THEOREM TypesAlways == Spec => []TypeInv
<1>1. Init => TypeInv
  BY TypeInit
<1>2. TypeInv /\ [Next]_vars => TypeInv'
  BY TypeStep
<1> QED
  BY <1>1, <1>2, PTL DEF Spec

\* The bridge's bytes and packets, the queues and the requests stay within their limits, for
\* every value of them (TerminalBridge.write, pumpPendingData, the channels of run_session).
THEOREM TypesAreOK == Spec => []TypeOK
<1>1. TypeInv => TypeOK
  BY PausedType DEF TypeInv, LoopTypes, SurfaceTypes, TypeOK, BridgeOK, Bridges, Text, Unit
<1> QED
  BY <1>1, TypesAlways, PTL

-----------------------------------------------------------------------------
(* Pausing.                                                                *)

LEMMA PauseStays ==
  ASSUME PauseInv, UNCHANGED <<pauseRx, outputPaused, rejected, connected, attached, buffer, stale>>,
         bridge'.backpressured = bridge.backpressured,
         session' \in {"live", "ending"} => session \in {"live", "ending"}
  PROVE  PauseInv'
BY DEF PauseInv, ToldOK, FollowsOK, Told, Paused

LEMMA NotifyTold ==
  ASSUME LoopTypes, ToldOK, NEW n \in Nat, buffer \in Buffers, buffer' \in Buffers,
         SetOutputPaused(Paused(buffer'), n), n = 0 => Paused(buffer') = Paused(buffer),
         UNCHANGED <<session, connected, outputPaused>>
  PROVE  ToldOK'
<1> SUFFICES ASSUME session \in {"live", "ending"}, connected = "yes", ~rejected'
             PROVE  Told' = Paused(buffer')
  BY DEF ToldOK
<1>1. Paused(buffer') \in BOOLEAN
  BY PausedType
<1>2. /\ ~rejected
      /\ n = 0 => pauseRx' = pauseRx
      /\ n # 0 => pauseRx' # <<>> /\ pauseRx'[Len(pauseRx')] = Paused(buffer')
  BY <1>1, SetPaused
<1>3. CASE n = 0
  <2>1. Told' = Told
    BY <1>2, <1>3 DEF Told
  <2>2. Told = Paused(buffer)
    BY <1>2 DEF ToldOK
  <2> QED
    BY <1>3, <2>1, <2>2
<1>4. CASE n # 0
  BY <1>2, <1>4 DEF Told
<1> QED
  BY <1>3, <1>4

LEMMA FollowsNew ==
  ASSUME FollowsOK, attached, attached' = attached, buffer \in Buffers,
         bridge'.backpressured \in BOOLEAN, bridge.backpressured \in BOOLEAN, stale \in BOOLEAN,
         buffer' = Follow(buffer, bridge'), stale' = (stale /\ bridge'.backpressured)
  PROVE  FollowsOK'
<1>1. /\ buffer'.detachedPaused = buffer.detachedPaused
      /\ bridge'.backpressured = bridge.backpressured => buffer' = buffer
      /\ bridge'.backpressured # bridge.backpressured
           => buffer'.bridgePaused = bridge'.backpressured
      /\ buffer' \in Buffers
  BY FollowIs
<1>2. CASE bridge'.backpressured = bridge.backpressured
  <2>1. buffer' = buffer /\ attached' /\ attached
    BY <1>1, <1>2
  <2>2. /\ ~buffer.detachedPaused
        /\ buffer.bridgePaused => bridge.backpressured
        /\ ~stale => buffer.bridgePaused = bridge.backpressured
    BY DEF FollowsOK
  <2>3. buffer.bridgePaused \in BOOLEAN
    BY DEF Buffers
  <2>4. ~stale' => buffer.bridgePaused = bridge.backpressured
    <3>1. CASE bridge'.backpressured
      BY <2>2, <3>1
    <3>2. CASE ~bridge'.backpressured
      BY <1>2, <2>2, <2>3, <3>2
    <3> QED
      BY <3>1, <3>2
  <2> QED
    BY <1>2, <2>1, <2>2, <2>4 DEF FollowsOK
<1>3. CASE bridge'.backpressured # bridge.backpressured
  BY <1>1, <1>3 DEF FollowsOK
<1> QED
  BY <1>2, <1>3

LEMMA WritePauses ==
  ASSUME TypeInv, PauseInv, NEW chunk, chunk \in Text, WriteBytes(chunk),
         UNCHANGED <<session, connected, outputPaused, attached>>
  PROVE  PauseInv'
<1> DEFINE b == IF attached THEN BridgeWrite(bridge, chunk) ELSE bridge
           g == AppendDetached(buffer, chunk)
<1>1. LoopTypes /\ SurfaceTypes /\ ToldOK /\ FollowsOK
  BY DEF TypeInv, PauseInv
<1>2. /\ bridge' = b /\ buffer' = Follow(g, b) /\ stale' = (stale /\ b.backpressured)
      /\ Notify(buffer', IF attached THEN 2 ELSE 1)
  BY DEF WriteBytes, Become
<1>3. /\ buffer \in Buffers /\ stale \in BOOLEAN /\ bridge.backpressured \in BOOLEAN
      /\ buffer' \in Buffers /\ bridge'.backpressured \in BOOLEAN /\ attached \in BOOLEAN
  BY <1>1, WriteBytesTypes, BackpressuredType DEF SurfaceTypes
<1>4. /\ g \in Buffers /\ g.bridgePaused = buffer.bridgePaused /\ (attached => g = buffer)
      /\ ~attached => b = bridge
  BY <1>3, AppendDetachedIs
<1> HIDE DEF b, g
<1>5. ToldOK'
  <2>1. PICK n \in Nat : /\ SetOutputPaused(Paused(buffer'), n)
                         /\ n = 0 => Paused(buffer') = Paused(buffer)
    BY <1>2 DEF Notify
  <2> QED
    BY <1>1, <1>3, <2>1, NotifyTold
<1>6. FollowsOK'
  <2>1. CASE attached
    BY <1>1, <1>2, <1>3, <1>4, <2>1, FollowsNew
  <2>2. CASE ~attached
    <3>1. buffer' = g
      BY <1>2, <1>3, <1>4, <2>2, FollowIs
    <3> QED
      BY <1>1, <1>4, <2>2, <3>1 DEF FollowsOK
  <2> QED
    BY <2>1, <2>2
<1> QED
  BY <1>5, <1>6 DEF PauseInv

LEMMA TakePauses ==
  ASSUME TypeInv, PauseInv, TakePause
  PROVE  PauseInv'
<1>1. /\ pauseRx # <<>> /\ outputPaused' = Head(pauseRx) /\ pauseRx' = Tail(pauseRx)
      /\ UNCHANGED <<session, rejected, connected, attached, buffer, stale, bridge>>
  BY DEF TakePause
<1>2. pauseRx \in Seq(BOOLEAN) /\ Tail(pauseRx) \in Seq(BOOLEAN)
  BY <1>1, HeadTailProperties DEF TypeInv, LoopTypes
<1>3. PICK t \in Seq(BOOLEAN) : t = Tail(pauseRx)
  BY <1>2, Zenon
<1>4. /\ Head(pauseRx) = pauseRx[1] /\ Len(pauseRx) \in Nat /\ Len(t) = Len(pauseRx) - 1
      /\ \A i \in 1..Len(t) : t[i] = pauseRx[i + 1]
      /\ t = <<>> <=> Len(t) = 0
  <2>1. /\ Head(pauseRx) = pauseRx[1] /\ Len(Tail(pauseRx)) = Len(pauseRx) - 1
        /\ \A i \in 1..Len(Tail(pauseRx)) : Tail(pauseRx)[i] = pauseRx[i + 1]
    BY <1>1, <1>2, HeadTailProperties
  <2>2. Len(t) = Len(pauseRx) - 1 /\ \A i \in 1..Len(t) : t[i] = pauseRx[i + 1]
    BY <1>3, <2>1, Zenon
  <2>3. Len(pauseRx) \in Nat /\ (t = <<>> <=> Len(t) = 0)
    BY <1>2, EmptySeq, LenProperties
  <2> QED
    BY <2>1, <2>2, <2>3
<1>5. Told' = Told
  <2>1. Told = pauseRx[Len(pauseRx)] /\ Told' = IF t = <<>> THEN Head(pauseRx) ELSE t[Len(t)]
    BY <1>1, <1>3 DEF Told
  <2>2. CASE t = <<>>
    <3>1. Len(pauseRx) = 1
      BY <1>4, <2>2
    <3> QED
      BY <1>4, <2>1, <2>2, <3>1
  <2>3. CASE t # <<>>
    <3>1. Len(t) \in 1..Len(t) /\ Len(t) + 1 = Len(pauseRx)
      BY <1>4, <2>3, LenProperties
    <3> QED
      BY <1>4, <2>1, <2>3, <3>1
  <2> QED
    BY <2>2, <2>3
<1> QED
  BY <1>1, <1>5 DEF PauseInv, ToldOK, FollowsOK, Paused

LEMMA ConnectedPauses ==
  ASSUME TypeInv, PauseInv, HandleConnected
  PROVE  PauseInv'
<1>1. /\ connected = "queued"
      /\ pauseRx' = IF session = "over" THEN pauseRx ELSE Append(pauseRx, Paused(buffer))
      /\ UNCHANGED <<session, rejected, outputPaused, attached, buffer, stale, bridge>>
  BY DEF HandleConnected, loop
<1>2. session # "over" => pauseRx' # <<>> /\ pauseRx'[Len(pauseRx')] = Paused(buffer)
  <2>1. pauseRx \in Seq(BOOLEAN) /\ Paused(buffer) \in BOOLEAN /\ Len(pauseRx) \in Nat
    BY PausedType, LenProperties DEF TypeInv, LoopTypes, SurfaceTypes
  <2>2. /\ Len(Append(pauseRx, Paused(buffer))) = Len(pauseRx) + 1
        /\ Append(pauseRx, Paused(buffer))[Len(pauseRx) + 1] = Paused(buffer)
        /\ Append(pauseRx, Paused(buffer)) \in Seq(BOOLEAN)
    BY <2>1, AppendProperties
  <2>3. Append(pauseRx, Paused(buffer)) # <<>>
    BY <2>1, <2>2, EmptySeq
  <2> QED
    BY <1>1, <2>2, <2>3
<1> QED
  BY <1>1, <1>2 DEF PauseInv, ToldOK, FollowsOK, Told, Paused

LEMMA ClosePauses ==
  ASSUME TypeInv, PauseInv, HandleClose
  PROVE  PauseInv'
<1> DEFINE released == [buffer EXCEPT !.bridgePaused = FALSE, !.detachedPaused = FALSE]
           b == WriteOwn(bridge, OwnText)
           g == AppendDetached(released, OwnText)
<1>1. LoopTypes /\ SurfaceTypes
  BY DEF TypeInv
<1>2. /\ connected' = "no" /\ buffer' = Follow(g, b)
      /\ IF attached THEN bridge' = RequestSnapshot(b, requests + 1) ELSE bridge' = bridge
      /\ stale' = ((stale \/ bridge.backpressured) /\ attached)
      /\ attached' = attached
  BY DEF HandleClose, CaptureSnapshot
<1>3. /\ requests \in Nat /\ BridgeOK(bridge, requests) /\ buffer \in Buffers /\ stale \in BOOLEAN
      /\ bridge.backpressured \in BOOLEAN /\ OwnText \in Text /\ attached \in BOOLEAN
  BY <1>1, BackpressuredType, OwnTypes DEF SurfaceTypes
<1>4. BridgeOK(b, requests) /\ b.backpressured \in BOOLEAN /\ (~attached => b = bridge)
  <2>1. BridgeOK(b, requests) /\ (~attached => b = bridge)
    BY <1>3, WriteOwnOK DEF WriteOwn
  <2> HIDE DEF b
  <2> QED
    BY <2>1, BackpressuredType
<1>5. released \in Buffers /\ released.bridgePaused = FALSE /\ released.detachedPaused = FALSE
  BY <1>3 DEF Buffers
<1> HIDE DEF b, released
<1>6. g \in Buffers /\ g.bridgePaused = FALSE /\ (attached => g = released)
  BY <1>3, <1>5, AppendDetachedIs
<1> HIDE DEF g
<1>7. /\ buffer'.detachedPaused = g.detachedPaused
      /\ b.backpressured = bridge.backpressured => buffer' = g
      /\ b.backpressured # bridge.backpressured => buffer'.bridgePaused = b.backpressured
  BY <1>2, <1>4, <1>6, FollowIs
<1>8. attached => bridge'.backpressured = b.backpressured
  BY <1>2, <1>3, <1>4, RequestOK
<1>9. FollowsOK'
  <2>1. CASE attached /\ b.backpressured = bridge.backpressured
    BY <1>2, <1>3, <1>4, <1>5, <1>6, <1>7, <1>8, <2>1 DEF FollowsOK
  <2>2. CASE attached /\ b.backpressured # bridge.backpressured
    BY <1>2, <1>3, <1>4, <1>5, <1>6, <1>7, <1>8, <2>2 DEF FollowsOK
  <2>3. CASE ~attached
    BY <1>2, <1>4, <1>6, <1>7, <2>3 DEF FollowsOK
  <2> QED
    BY <1>3, <2>1, <2>2, <2>3
<1>10. ToldOK'
  BY <1>2 DEF ToldOK
<1> QED
  BY <1>9, <1>10 DEF PauseInv

LEMMA AttachPauses ==
  ASSUME TypeInv, PauseInv, Attach
  PROVE  PauseInv'
<1> DEFINE restoring == [NewBridge EXCEPT !.restore = snapshot]
           b == BridgeWriteAll(restoring, buffer.chunks)
           f == [NewBuffer EXCEPT !.bridgePaused = b.backpressured]
           n == (IF Paused(f) THEN 1 ELSE 0) + (IF Paused(f) # Paused(buffer) THEN 1 ELSE 0)
<1>1. TypeInv' /\ LoopTypes /\ SurfaceTypes /\ ToldOK
  BY AttachTypes DEF TypeInv, PauseInv
<1>2. /\ attached' = TRUE /\ bridge' = b /\ buffer' = f
      /\ UNCHANGED <<session, connected, outputPaused>>
  BY DEF Attach, Become, loop
<1>3. SetOutputPaused(Paused(f), n)
  BY Zenon DEF Attach
<1>4. f.bridgePaused = b.backpressured /\ f.detachedPaused = FALSE
  BY DEF NewBuffer
<1> HIDE DEF b, f
<1>5. buffer \in Buffers /\ buffer' \in Buffers
  BY <1>1 DEF SurfaceTypes, TypeInv
<1>6. n \in Nat /\ (n = 0 => Paused(f) = Paused(buffer))
  <2>1. Paused(f) \in BOOLEAN /\ Paused(buffer) \in BOOLEAN
    BY <1>2, <1>5, PausedType
  <2> QED
    BY <2>1
<1> HIDE DEF n
<1>7. ToldOK'
  BY <1>1, <1>2, <1>3, <1>5, <1>6, NotifyTold
<1>8. FollowsOK'
  BY <1>2, <1>4 DEF FollowsOK
<1> QED
  BY <1>7, <1>8 DEF PauseInv

LEMMA DetachPauses ==
  ASSUME TypeInv, PauseInv, Detach
  PROVE  PauseInv'
<1>1. TypeInv' /\ LoopTypes /\ SurfaceTypes /\ ToldOK
  BY DetachTypes DEF TypeInv, PauseInv
<1>2. /\ attached' = FALSE /\ buffer' = NewBuffer /\ Notify(buffer', 1)
      /\ UNCHANGED <<session, connected, outputPaused>>
  BY DEF Detach, loop
<1>3. buffer \in Buffers /\ buffer' \in Buffers
  BY <1>1 DEF SurfaceTypes, TypeInv
<1>4. ToldOK'
  <2>1. PICK n \in Nat : /\ SetOutputPaused(Paused(buffer'), n)
                         /\ n = 0 => Paused(buffer') = Paused(buffer)
    BY <1>2 DEF Notify
  <2> QED
    BY <1>1, <1>2, <1>3, <2>1, NotifyTold
<1>5. FollowsOK'
  BY <1>2 DEF FollowsOK, NewBuffer
<1> QED
  BY <1>4, <1>5 DEF PauseInv

LEMMA CapturePauses ==
  ASSUME TypeInv, PauseInv, Capture
  PROVE  PauseInv'
<1>1. /\ bridge' = RequestSnapshot(bridge, requests + 1)
      /\ UNCHANGED <<session, pauseRx, outputPaused, rejected, connected, attached, buffer, stale>>
  BY DEF Capture, CaptureSnapshot, loop
<1>2. bridge'.backpressured = bridge.backpressured
  BY <1>1, RequestOK DEF TypeInv, SurfaceTypes
<1> QED
  BY <1>1, <1>2, PauseStays

LEMMA RawPauses ==
  ASSUME TypeInv, PauseInv, HandleRawMessage
  PROVE  PauseInv'
<1>1. TypeInv' /\ LoopTypes /\ SurfaceTypes /\ ToldOK /\ FollowsOK
  BY RawTypes DEF TypeInv, PauseInv
<1>2. /\ toNative # <<>> /\ buffer' = Follow(buffer, bridge')
      /\ stale' = (stale /\ bridge'.backpressured) /\ Notify(buffer', 1)
      /\ UNCHANGED <<session, connected, outputPaused, attached>>
  BY DEF HandleRawMessage, loop
<1>3. /\ attached /\ buffer \in Buffers /\ buffer' \in Buffers /\ stale \in BOOLEAN
      /\ bridge.backpressured \in BOOLEAN /\ bridge'.backpressured \in BOOLEAN
  <2>1. attached /\ buffer \in Buffers /\ stale \in BOOLEAN /\ BridgeOK(bridge, requests)
    BY <1>1, <1>2 DEF SurfaceTypes, PageGone
  <2>2. buffer' \in Buffers /\ BridgeOK(bridge', requests')
    BY <1>1 DEF SurfaceTypes, TypeInv
  <2> QED
    BY <2>1, <2>2, BackpressuredType
<1>4. ToldOK'
  <2>1. PICK n \in Nat : /\ SetOutputPaused(Paused(buffer'), n)
                         /\ n = 0 => Paused(buffer') = Paused(buffer)
    BY <1>2 DEF Notify
  <2> QED
    BY <1>1, <1>2, <1>3, <2>1, NotifyTold
<1>5. FollowsOK'
  BY <1>1, <1>2, <1>3, FollowsNew
<1> QED
  BY <1>4, <1>5 DEF PauseInv

LEMMA PauseStep ==
  ASSUME TypeInv, PauseInv, [Next]_vars
  PROVE  PauseInv'
<1>1. CASE ReadChannel \/ OutputTick \/ FinalDelivery \/ SendClose \/ LoopEnds
  <2>1. /\ UNCHANGED <<pauseRx, outputPaused, rejected, connected, attached, buffer, stale, bridge>>
        /\ session' \in {"live", "ending"} => session \in {"live", "ending"}
    BY <1>1 DEF ReadChannel, OutputTick, FinalDelivery, SendClose, LoopEnds, flow
  <2> QED
    BY <2>1, PauseStays
<1>2. CASE TakePause
  BY <1>2, TakePauses
<1>3. CASE Connect
  BY <1>3 DEF Connect, PauseInv, ToldOK, FollowsOK
<1>4. CASE HandleConnected
  BY <1>4, ConnectedPauses
<1>5. CASE HandleData
  <2>1. /\ WriteBytes(Head(transport)) /\ transport # <<>>
        /\ UNCHANGED <<session, connected, outputPaused, attached>>
    BY <1>5 DEF HandleData, loop
  <2>2. Head(transport) \in Text
    BY <2>1, HeadTailProperties DEF TypeInv, LoopTypes
  <2> QED
    BY <2>1, <2>2, WritePauses
<1>6. CASE WriteTerminal
  <2>1. PICK text \in {<<units + 1>>} \cup (IF EmptyTexts THEN {<<>>} ELSE {}) :
          /\ units + Len(text) <= MaxUnits /\ WriteBytes(text)
    BY <1>6 DEF WriteTerminal
  <2>2. text \in Text
    <3>1. units \in Nat /\ MaxUnits \in Nat
      BY LimitsAssumption DEF TypeInv, LoopTypes
    <3>2. CASE text = <<units + 1>>
      BY <2>1, <3>1, <3>2 DEF Text, Unit
    <3>3. CASE text = <<>>
      BY <3>3 DEF Text
    <3> QED
      BY <3>2, <3>3
  <2>3. UNCHANGED <<session, connected, outputPaused, attached>>
    BY <1>6 DEF WriteTerminal, loop
  <2> QED
    BY <2>1, <2>2, <2>3, WritePauses
<1>7. CASE HandleClose
  BY <1>7, ClosePauses
<1>8. CASE Attach
  BY <1>8, AttachPauses
<1>9. CASE Detach
  BY <1>9, DetachPauses
<1>10. CASE Capture
  BY <1>10, CapturePauses
<1>11. CASE HandleRawMessage
  BY <1>11, RawPauses
<1>12. CASE ReceiveMessage
  <2>1. /\ UNCHANGED <<session, pauseRx, outputPaused, rejected, connected, attached, buffer, stale>>
        /\ bridge' = Received(bridge) /\ bridge.toPage # <<>>
    BY <1>12 DEF ReceiveMessage, Received, loop
  <2>2. bridge'.backpressured = bridge.backpressured
    BY <2>1, ReceivedOK DEF TypeInv, SurfaceTypes
  <2> QED
    BY <2>1, <2>2, PauseStays
<1>13. CASE Parse \/ UNCHANGED vars
  <2>1. UNCHANGED <<session, pauseRx, outputPaused, rejected, connected, attached, buffer, stale,
                    bridge>>
    BY <1>13 DEF Parse, vars, loop, flow
  <2> QED
    BY <2>1, PauseStays
<1> QED
  BY <1>1, <1>2, <1>3, <1>4, <1>5, <1>6, <1>7, <1>8, <1>9, <1>10, <1>11, <1>12, <1>13
     DEF Next, Loop, Events, Page, User

\* The session hears last what the surface is, and the surface follows the bridge.
THEOREM PauseAlways == Spec => []PauseInv
<1>1. Init => PauseInv
  <2> SUFFICES ASSUME Init PROVE PauseInv
    OBVIOUS
  <2>1. ~attached /\ buffer = NewBuffer /\ session = "none"
    BY DEF Init
  <2>2. ~NewBuffer.bridgePaused
    BY DEF NewBuffer
  <2> QED
    BY <2>1, <2>2 DEF PauseInv, ToldOK, FollowsOK
<1>2. TypeInv /\ PauseInv /\ [Next]_vars => PauseInv'
  BY PauseStep
<1> QED
  BY <1>1, <1>2, TypesAlways, PTL DEF Spec

\* Once no message is under way, the session is paused exactly while the bridge, or the
\* detached output, is over its watermark, unless a release has overtaken the bridge or a call
\* found the channel full (notifyOutputPauseChange, set_output_paused).
THEOREM PausesAreTrue == Spec => []PauseIsTrue
<1>1. TypeInv /\ PauseInv => PauseIsTrue
  <2> SUFFICES ASSUME TypeInv, PauseInv, session = "live", connected = "yes", pauseRx = <<>>,
                      ~stale, ~rejected
               PROVE  outputPaused = IF attached THEN bridge.backpressured ELSE buffer.detachedPaused
    BY DEF PauseIsTrue
  <2>1. outputPaused = (buffer.bridgePaused \/ buffer.detachedPaused)
    BY DEF PauseInv, ToldOK, Told, Paused
  <2>2. /\ buffer.bridgePaused \in BOOLEAN /\ buffer.detachedPaused \in BOOLEAN
        /\ outputPaused \in BOOLEAN /\ bridge.backpressured \in BOOLEAN /\ attached \in BOOLEAN
    BY BackpressuredType DEF TypeInv, LoopTypes, SurfaceTypes, Buffers
  <2>3. CASE attached
    <3>1. ~buffer.detachedPaused /\ buffer.bridgePaused = bridge.backpressured
      BY <2>3 DEF PauseInv, FollowsOK
    <3> QED
      BY <2>1, <2>2, <2>3, <3>1
  <2>4. CASE ~attached
    <3>1. ~buffer.bridgePaused
      BY <2>4 DEF PauseInv, FollowsOK
    <3> QED
      BY <2>1, <2>2, <2>4, <3>1
  <2> QED
    BY <2>3, <2>4
<1> QED
  BY <1>1, TypesAlways, PauseAlways, PTL

-----------------------------------------------------------------------------
(* What is dropped.                                                        *)

LEMMA DeliversDropped ==
  ASSUME NEW b, NEW p, Delivers(b, p)
  PROVE  p.dropped = b.dropped
BY DEF Delivers, DeliversBy, SameRest

LEMMA SendDropped ==
  ASSUME NEW n \in Nat, NEW b, BridgeOK(b, n)
  PROVE  /\ PumpPendingData(b).dropped = b.dropped
         /\ UpdateBackpressure(b).dropped = b.dropped
         /\ PumpSnapshotRequests(b).dropped = b.dropped
<1>1. PumpPendingData(b).dropped = b.dropped /\ UpdateBackpressure(b).dropped = b.dropped
  BY PumpOK, UpdateOK, DeliversDropped
<1>2. PumpSnapshotRequests(b).dropped = b.dropped
  <2>1. CASE PumpSnapshotRequests(b) = b
    BY <2>1
  <2>2. CASE PumpSnapshotRequests(b) = Asking(b, b.toPage \o Asked(b))
    <3>1. b.toPage \o Asked(b) \in Seq(PageMessages(n))
      <4>1. b.toPage \in Seq(PageMessages(n)) /\ Asked(b) \in Seq(PageMessages(n))
        BY BridgeTypes, AskedTypes
      <4> QED
        BY <4>1, ConcatProperties
    <3>2. PICK tp \in Seq(PageMessages(n)) : tp = b.toPage \o Asked(b)
      BY <3>1, Zenon
    <3>3. Asking(b, tp).dropped = b.dropped
      BY AskingFields
    <3> QED
      BY <2>2, <3>2, <3>3, Zenon
  <2> QED
    BY <2>1, <2>2, AskIs
<1> QED
  BY <1>1, <1>2

LEMMA WriteDropped ==
  ASSUME NEW n \in Nat, NEW b, BridgeOK(b, n), NEW chunk, chunk \in Text
  PROVE  /\ b.dropped \subseteq BridgeWrite(b, chunk).dropped
         /\ BridgeWrite(b, chunk).dropped \subseteq b.dropped \cup Range(chunk)
<1>1. CASE b.pendingBytes + Len(chunk) > MaxPending
  <2>1. Dropping(b, chunk).dropped = b.dropped \cup Range(chunk)
    BY DroppingOK
  <2>2. BridgeWrite(b, chunk) = Dropping(b, chunk)
    BY <1>1, WriteIs
  <2> QED
    BY <2>1, <2>2
<1>2. CASE ~(b.pendingBytes + Len(chunk) > MaxPending)
  <2>1. /\ BridgeOK(Appended(b, chunk), n)
        /\ Appended(b, chunk).dropped = b.dropped
    BY <1>2, AppendedOK
  <2>2. /\ BridgeOK(UpdateBackpressure(Appended(b, chunk)), n)
        /\ UpdateBackpressure(Appended(b, chunk)).dropped = Appended(b, chunk).dropped
    BY <2>1, UpdateOK, SendDropped
  <2>3. PumpPendingData(UpdateBackpressure(Appended(b, chunk))).dropped
          = UpdateBackpressure(Appended(b, chunk)).dropped
    BY <2>2, SendDropped
  <2>4. BridgeWrite(b, chunk) = PumpPendingData(UpdateBackpressure(Appended(b, chunk)))
    BY <1>2, WriteIs
  <2>5. BridgeWrite(b, chunk).dropped = b.dropped
    BY <2>1, <2>2, <2>3, <2>4, Zenon
  <2> QED
    BY <2>5
<1> QED
  BY <1>1, <1>2

LEMMA RequestDropped ==
  ASSUME NEW n \in Nat, NEW b, BridgeOK(b, n)
  PROVE  RequestSnapshot(b, n + 1).dropped = b.dropped
<1>1. /\ BridgeOK(Requested(b, n + 1), n + 1) /\ Requested(b, n + 1).dropped = b.dropped
      /\ n + 1 \in Nat
  BY RequestedOK
<1>2. RequestSnapshot(b, n + 1) = PumpSnapshotRequests(Requested(b, n + 1))
  BY DEF RequestSnapshot, Requested
<1>3. PumpSnapshotRequests(Requested(b, n + 1)).dropped = Requested(b, n + 1).dropped
  BY <1>1, SendDropped
<1> QED
  BY <1>1, <1>2, <1>3, Zenon

LEMMA ReadyDropped ==
  ASSUME NEW n \in Nat, NEW b, BridgeOK(b, n)
  PROVE  PageReady(b).dropped = b.dropped
<1>1. PICK q : /\ BridgeOK(q, n) /\ q.dropped = b.dropped
               /\ PageReady(b) = PumpSnapshotRequests(PumpPendingData(q))
  <2>1. CASE b.restore = <<>>
    BY <2>1, ReadiedOK, ReadyIs
  <2>2. CASE b.restore # <<>>
    BY <2>2, RestoringOK, ReadyIs
  <2> QED
    BY <2>1, <2>2
<1>2. BridgeOK(PumpPendingData(q), n) /\ PumpPendingData(q).dropped = q.dropped
  BY <1>1, PumpOK, SendDropped
<1>3. PumpSnapshotRequests(PumpPendingData(q)).dropped = PumpPendingData(q).dropped
  BY <1>2, SendDropped
<1> QED
  BY <1>1, <1>2, <1>3, Zenon

LEMMA RestoreDropped ==
  ASSUME NEW n \in Nat, NEW b, BridgeOK(b, n)
  PROVE  RestoreComplete(b).dropped = b.dropped
<1>1. BridgeOK(Restored(b), n) /\ Restored(b).dropped = b.dropped
  BY RestoredOK
<1>2. RestoreComplete(b) = PumpSnapshotRequests(Restored(b))
  BY DEF RestoreComplete, Restored
<1>3. PumpSnapshotRequests(Restored(b)).dropped = Restored(b).dropped
  BY <1>1, SendDropped
<1> QED
  BY <1>1, <1>2, <1>3, Zenon

LEMMA AcknowledgeDropped ==
  ASSUME NEW n \in Nat, NEW b, BridgeOK(b, n), NEW s, NEW bytes \in Nat
  PROVE  Acknowledge(b, s, bytes).dropped = b.dropped
<1>1. CASE b.inFlight = <<>> \/ Head(b.inFlight) # s
  BY <1>1, AcknowledgeIs
<1>2. CASE ~(b.inFlight = <<>> \/ Head(b.inFlight) # s)
  <2> DEFINE q == Removed(b, bytes)
             p == PumpPendingData(q)
             r == PumpSnapshotRequests(p)
  <2>1. BridgeOK(q, n) /\ q.dropped = b.dropped
    BY <1>2, RemovedOK
  <2> HIDE DEF q
  <2>2. BridgeOK(p, n) /\ p.dropped = q.dropped
    BY <2>1, PumpOK, SendDropped
  <2> HIDE DEF p
  <2>3. BridgeOK(r, n) /\ r.dropped = p.dropped
    BY <2>2, AskOK, SendDropped
  <2> HIDE DEF r
  <2>4. UpdateBackpressure(r).dropped = r.dropped
    BY <2>3, SendDropped
  <2>5. Acknowledge(b, s, bytes) = UpdateBackpressure(r)
    BY <1>2, AcknowledgeIs DEF r, p, q
  <2> QED
    BY <2>1, <2>2, <2>3, <2>4, <2>5, Zenon
<1> QED
  BY <1>1, <1>2

-----------------------------------------------------------------------------
(* What is in front stays there.                                           *)

\* Nothing is given up, and nothing has still to come, that was in front.
Onward(w, u, given, w2, u2, given2) ==
  /\ given \subseteq given2 /\ u <= u2
  /\ \A x \in Range(w2) \cup given2 : x \in Range(w) \cup given \/ x > u

LEMMA FrontKeeps ==
  ASSUME NEW X, NEW w, NEW u, NEW left, NEW d, NEW Y, NEW v, NEW k, NEW rest, NEW e,
         X \in Text, w \in Text, Y \in Text, v \in Text, u \in Nat, k \in Nat,
         StreamOK(X, w, u, left, d), StreamOK(Y, v, k, rest, e),
         Onward(w, u, left \cup d, v, k, rest \cup e)
  PROVE  Range(X) \subseteq Range(Y)
<1>1. /\ Before(Range(X), Range(w)) /\ Range(X) \cup Range(w) = (1..u) \ (left \cup d)
      /\ Range(Y) \cup Range(v) = (1..k) \ (rest \cup e)
  BY StreamIs
<1>2. Range(X) \subseteq Nat
  BY RangeMembers, UnitNat DEF Text
<1> SUFFICES ASSUME NEW x \in Range(X)
             PROVE  x \in Range(Y)
  OBVIOUS
<1>3. x \in 1..u /\ x \notin left \cup d /\ x \notin Range(w)
  BY <1>1, <1>2 DEF Before
<1>4. ~(x > u) /\ x \in 1..k
  BY <1>3 DEF Onward
<1>5. x \notin Range(v) /\ x \notin rest \cup e
  BY <1>3, <1>4 DEF Onward
<1> QED
  BY <1>1, <1>4, <1>5

\* A page whose front has a set of units.
PageHas(X, b, na, pa, sc, w, u, left, ms) ==
  PageInv(b, na, pa, sc, w, u, left, ms) /\ X \subseteq Range((sc \o UnitsOf(pa)) \o Line(b))

LEMMA PageKeeps ==
  ASSUME NEW X, NEW b, NEW na, NEW pa, NEW sc, NEW w, NEW u, NEW left, NEW ms,
         PageHas(X, b, na, pa, sc, w, u, left, ms),
         NEW b2, NEW na2, NEW pa2, NEW sc2, NEW w2, NEW u2, NEW left2, NEW ms2,
         PageInv(b2, na2, pa2, sc2, w2, u2, left2, ms2),
         Onward(w, u, left \cup b.dropped, w2, u2, left2 \cup b2.dropped)
  PROVE  PageHas(X, b2, na2, pa2, sc2, w2, u2, left2, ms2)
<1> DEFINE F == (sc \o UnitsOf(pa)) \o Line(b)
           G == (sc2 \o UnitsOf(pa2)) \o Line(b2)
<1>1. F \in Text /\ G \in Text
  BY PageTypes DEF PageHas
<1>2. /\ StreamOK(F, w, u, left, b.dropped) /\ StreamOK(G, w2, u2, left2, b2.dropped)
      /\ w \in Text /\ w2 \in Text /\ u \in Nat /\ u2 \in Nat
  BY DEF PageHas, PageInv
<1>3. X \subseteq Range(F)
  BY DEF PageHas
<1> HIDE DEF F, G
<1>4. Range(F) \subseteq Range(G)
  BY <1>1, <1>2, FrontKeeps
<1> QED
  BY <1>3, <1>4 DEF PageHas, G

LEMMA WriteHas ==
  ASSUME NEW X, NEW b, NEW na, NEW pa, NEW sc, NEW chunk, NEW w, NEW u, NEW left, NEW ms, NEW v,
         PageHas(X, b, na, pa, sc, v, u, left, ms), v = chunk \o w,
         chunk \in Text, w \in Text, ~EmptyTexts => chunk # <<>>
  PROVE  PageHas(X, BridgeWrite(b, chunk), na, pa, sc, w, u, left, ms)
<1>1. PageInv(b, na, pa, sc, v, u, left, ms)
  BY DEF PageHas
<1>2. PageInv(BridgeWrite(b, chunk), na, pa, sc, w, u, left, ms)
  BY <1>1, WritePage
<1>3. BridgeOK(b, Len(ms)) /\ Len(ms) \in Nat /\ u \in Nat
  BY <1>1, PageTypes DEF PageInv
<1>4. /\ b.dropped \subseteq BridgeWrite(b, chunk).dropped
      /\ BridgeWrite(b, chunk).dropped \subseteq b.dropped \cup Range(chunk)
  BY <1>3, WriteDropped
<1>5. Range(v) = Range(chunk) \cup Range(w)
  BY RangeConcat
<1>6. Onward(v, u, left \cup b.dropped, w, u, left \cup BridgeWrite(b, chunk).dropped)
  BY <1>3, <1>4, <1>5 DEF Onward
<1> QED
  BY <1>2, <1>6, PageKeeps

\* Each chunk goes from what has to come into the bridge; rest is what has to come after them.
LEMMA WriteAllHas ==
  ASSUME NEW X, NEW b, NEW na, NEW pa, NEW sc, NEW w, NEW u, NEW left, NEW ms, NEW chunks, NEW v,
         chunks \in Seq(Text), w \in Text, v = FlattenSeq(chunks) \o w,
         ~EmptyTexts => Full(chunks),
         PageHas(X, b, na, pa, sc, v, u, left, ms)
  PROVE  PageHas(X, BridgeWriteAll(b, chunks), na, pa, sc, w, u, left, ms)
<1>1. PICK f : Writing(f, b, chunks) /\ BridgeWriteAll(b, chunks) = f[Len(chunks)]
  BY WriteAllIs
<1>2. Len(chunks) \in Nat
  BY LenProperties
<1> DEFINE rest(k) == SubSeq(chunks, k + 1, Len(chunks))
           T == {k \in Nat : k <= Len(chunks) =>
                   PageHas(X, f[k], na, pa, sc, FlattenSeq(rest(k)) \o w, u, left, ms)}
<1>3. 0 \in T
  <2>1. rest(0) = chunks
    BY SubSeqFull
  <2>2. f[0] = b
    BY <1>1 DEF Writing
  <2>3. PageHas(X, f[0], na, pa, sc, FlattenSeq(rest(0)) \o w, u, left, ms)
    <3> HIDE DEF rest
    <3> QED
      BY <2>1, <2>2, Zenon
  <2> QED
    BY <2>3
<1>4. ASSUME NEW k \in T PROVE k + 1 \in T
  <2>1. CASE k + 1 <= Len(chunks)
    <3>1. /\ rest(k) \in Seq(Text) /\ rest(k + 1) \in Seq(Text) /\ rest(k) # <<>>
          /\ Head(rest(k)) = chunks[k + 1] /\ Tail(rest(k)) = rest(k + 1)
      BY <2>1, RestHead
    <3> HIDE DEF rest
    <3> DEFINE c == chunks[k + 1]
               r == FlattenSeq(rest(k + 1))
    <3>2. /\ c \in Text /\ r \in Text /\ r \o w \in Text /\ (c \o r) \o w = c \o (r \o w)
          /\ FlattenSeq(rest(k)) = c \o r
      <4>1. c \in Text
        BY <1>2, <2>1, ElementOfSeq
      <4>2. r \in Text
        BY <3>1, FlattenType DEF Text
      <4>3. FlattenSeq(rest(k)) = Head(rest(k)) \o FlattenSeq(Tail(rest(k)))
        BY <3>1, PendingHead
      <4> HIDE DEF c, r
      <4>4. r \o w \in Text /\ (c \o r) \o w = c \o (r \o w)
        BY <4>1, <4>2, TextGroup, Zenon
      <4>5. FlattenSeq(rest(k)) = c \o r
        BY <3>1, <4>3, Zenon DEF c, r
      <4> QED
        BY <4>1, <4>2, <4>4, <4>5
    <3>3. ~EmptyTexts => c # <<>>
      <4>1. k + 1 \in DOMAIN chunks
        BY <1>2, <2>1, LenProperties
      <4> QED
        BY <4>1 DEF Full
    <3>4. f[k + 1] = BridgeWrite(f[k], c)
      BY <1>1, <2>1 DEF Writing
    <3> HIDE DEF c, r
    <3>5. k <= Len(chunks)
      BY <1>2, <2>1
    <3>6. PageHas(X, f[k], na, pa, sc, FlattenSeq(rest(k)) \o w, u, left, ms)
      BY <3>5
    <3>7. PageHas(X, f[k], na, pa, sc, c \o (r \o w), u, left, ms)
      BY <3>2, <3>6, Zenon
    <3>8. PageHas(X, BridgeWrite(f[k], c), na, pa, sc, r \o w, u, left, ms)
      BY <3>2, <3>3, <3>7, WriteHas
    <3>9. PageHas(X, f[k + 1], na, pa, sc, FlattenSeq(rest(k + 1)) \o w, u, left, ms)
      BY <3>4, <3>8, Zenon DEF r
    <3> QED
      BY <3>9
  <2> QED
    BY <2>1
<1>5. T = Nat
  <2>1. T \subseteq Nat
    OBVIOUS
  <2> HIDE DEF T
  <2> QED
    BY <1>3, <1>4, <2>1, NatBySet
<1>6. PageHas(X, f[Len(chunks)], na, pa, sc, FlattenSeq(rest(Len(chunks))) \o w, u, left, ms)
  BY <1>2, <1>5
<1>7. rest(Len(chunks)) = <<>>
  BY <1>2, SubSeqEmpty
<1> HIDE DEF rest
<1>8. FlattenSeq(rest(Len(chunks))) \o w = w
  <2>1. <<>> \o w = w
    BY TextEmpty
  <2> QED
    BY <1>7, <2>1, FlattenEmpty, Zenon
<1> QED
  BY <1>1, <1>6, <1>8, Zenon


-----------------------------------------------------------------------------
(* The flow: steps that the surface has no part in.                        *)

\* Given is gone \cup bridge.dropped, and a page has its bridge.
LEMMA GivenOf ==
  ASSUME SurfaceTypes
  PROVE  ~attached => Given = gone /\ bridge.dropped = {}
BY DEF SurfaceTypes, PageGone, NewBridge, Given

LEMMA FlowStays ==
  ASSUME FlowInv, Waiting' = Waiting,
         UNCHANGED <<units, attached, buffer, bridge, snapshots, page, gone>>
  PROVE  FlowInv'
<1>1. UNCHANGED <<snapshot, committed, marks, toNative, parser, captures, screen>>
  BY DEF snapshots, page
<1>2. Given' = Given
  BY DEF Given
<1>3. SurfaceInv'
  BY <1>1 DEF FlowInv, SurfaceInv
<1>4. AnswersOK'
  BY <1>1, <1>2 DEF FlowInv, AnswersOK
<1>5. SnapshotKept'
  BY <1>1 DEF FlowInv, SnapshotKept
<1> QED
  BY <1>3, <1>4, <1>5 DEF FlowInv

LEMMA QueueAppend ==
  ASSUME LoopTypes, NEW o, o \in Text
  PROVE  FlattenSeq(Append(transport, o)) = FlattenSeq(transport) \o o
<1>1. transport \in Seq(Seq(Unit)) /\ o \in Seq(Unit)
  BY DEF LoopTypes, Text
<1> QED
  BY <1>1, FlattenAppend

LEMMA DeliverWaiting ==
  ASSUME LoopTypes, NEW o, o \in Text, Deliver(o)
  PROVE  Waiting' = FlattenSeq(transport) \o o
<1>1. CASE transport' = Append(transport, o) /\ output' = <<>>
  <2>1. FlattenSeq(transport) \o o \in Text
    BY WaitingType, TextAssoc
  <2>2. (FlattenSeq(transport) \o o) \o <<>> = FlattenSeq(transport) \o o
    BY <2>1, TextEmpty
  <2> QED
    BY <1>1, <2>2, QueueAppend, Zenon DEF Waiting
<1>2. CASE output' = o /\ UNCHANGED transport
  BY <1>2, Zenon DEF Waiting
<1> QED
  BY <1>1, <1>2 DEF Deliver

LEMMA TickFlow ==
  ASSUME TypeInv, FlowInv, OutputTick
  PROVE  FlowInv'
<1>1. /\ Deliver(output) /\ UNCHANGED <<units, attached, buffer, bridge, snapshots, page, gone>>
  BY DEF OutputTick, flow
<1>2. LoopTypes /\ output \in Text
  BY DEF TypeInv, LoopTypes
<1>3. Waiting' = FlattenSeq(transport) \o output
  BY <1>1, <1>2, DeliverWaiting
<1> QED
  BY <1>1, <1>3, FlowStays DEF Waiting

LEMMA SendFlow ==
  ASSUME TypeInv, FlowInv, SendClose
  PROVE  FlowInv'
<1>1. /\ transport' = Append(transport, Close) /\ output' = output
      /\ UNCHANGED <<units, attached, buffer, bridge, snapshots, page, gone>>
  BY DEF SendClose, flow
<1>2. LoopTypes /\ Close \in Text /\ FlattenSeq(transport) \in Text
  BY WaitingType DEF TypeInv, Close, Text
<1>3. FlattenSeq(Append(transport, Close)) = FlattenSeq(transport) \o Close
  BY <1>2, QueueAppend
<1>4. FlattenSeq(transport) \o Close = FlattenSeq(transport)
  BY <1>2, TextEmpty DEF Close
<1>5. Waiting' = Waiting
  BY <1>1, <1>3, <1>4, Zenon DEF Waiting
<1> QED
  BY <1>1, <1>5, FlowStays

LEMMA QuietFlow ==
  ASSUME TypeInv, FlowInv, TakePause \/ LoopEnds \/ Connect \/ HandleConnected
  PROVE  FlowInv'
<1>1. UNCHANGED <<units, transport, attached, buffer, bridge, snapshots, page, gone>>
  BY DEF TakePause, LoopEnds, Connect, HandleConnected, flow
<1>2. output' = output
  <2>1. CASE Connect
    BY <2>1 DEF Connect, TypeInv, PhaseOK
  <2>2. CASE ~Connect
    BY <2>2 DEF TakePause, LoopEnds, HandleConnected, loop
  <2> QED
    BY <2>1, <2>2
<1>3. Waiting' = Waiting
  BY <1>1, <1>2 DEF Waiting
<1> QED
  BY <1>1, <1>3, FlowStays

LEMMA SurfaceTexts ==
  ASSUME TypeInv
  PROVE  /\ Waiting \in Text /\ FlattenSeq(buffer.chunks) \in Text
         /\ FlattenSeq(buffer.chunks) \o Waiting \in Text
         /\ snapshot \in Text /\ units \in Nat /\ screen \in Text
         /\ \A r \in DOMAIN marks : marks[r] \in Nat
         /\ DOMAIN marks = 1..requests /\ Len(marks) = requests /\ requests \in Nat
<1>1. Waiting \in Text
  BY WaitingType DEF TypeInv
<1>2. buffer.chunks \in Seq(Seq(Unit))
  BY DEF TypeInv, SurfaceTypes, Buffers, Text
<1>3. FlattenSeq(buffer.chunks) \in Text
  BY <1>2, FlattenType DEF Text
<1>4. FlattenSeq(buffer.chunks) \o Waiting \in Text
  BY <1>1, <1>3, TextAssoc
<1>5. snapshot \in Text /\ units \in Nat /\ screen \in Text
  BY DEF TypeInv, LoopTypes, SurfaceTypes
<1>6. marks \in Seq(Nat) /\ Len(marks) = requests /\ requests \in Nat
  BY DEF TypeInv, SurfaceTypes
<1>7. DOMAIN marks = 1..requests /\ \A r \in DOMAIN marks : marks[r] \in Nat
  BY <1>6, LenProperties, ElementOfSeq
<1> QED
  BY <1>1, <1>3, <1>4, <1>5, <1>6, <1>7

LEMMA MarksGrow ==
  ASSUME NEW ms, NEW w, NEW v, NEW u \in Nat, MarksOK(ms, w, u), \A r \in DOMAIN ms : ms[r] \in Nat,
         Range(v) = Range(w) \cup {u + 1}
  PROVE  MarksOK(ms, v, u + 1)
BY DEF MarksOK

LEMMA ReadFlow ==
  ASSUME TypeInv, FlowInv, ReadChannel
  PROVE  FlowInv'
<1>1. /\ units < MaxUnits /\ units' = units + 1 /\ Len(output) < OutputLimit
      /\ Deliver(Append(output, units + 1))
           \/ (output' = Append(output, units + 1) /\ transport' = transport)
  BY DEF ReadChannel, Deliver
<1>2. UNCHANGED <<attached, buffer, bridge, snapshots, page, gone>>
  BY DEF ReadChannel, flow
<1>3. /\ LoopTypes /\ output \in Text /\ FlattenSeq(transport) \in Text /\ units \in Nat
      /\ Append(output, units + 1) \in Text /\ units + 1 \in Unit
  BY <1>1, OutputGrows, WaitingType DEF TypeInv, LoopTypes
<1>4. Waiting' = Waiting \o <<units + 1>>
  <2>1. Waiting' = FlattenSeq(transport) \o Append(output, units + 1)
    <3>1. CASE Deliver(Append(output, units + 1))
      BY <1>3, <3>1, DeliverWaiting
    <3>2. CASE output' = Append(output, units + 1) /\ transport' = transport
      BY <3>2, Zenon DEF Waiting
    <3> QED
      BY <1>1, <3>1, <3>2
  <2>2. PICK k \in Unit : k = units + 1
    BY <1>3
  <2>3. Append(output, k) = output \o <<k>> /\ <<k>> \in Text
    BY <1>3, AppendIsConcat DEF Text
  <2>4. (FlattenSeq(transport) \o output) \o <<k>> = FlattenSeq(transport) \o (output \o <<k>>)
    BY <1>3, <2>3, TextGroup, ZenonT(40)
  <2> QED
    BY <2>1, <2>2, <2>3, <2>4, Zenon DEF Waiting
<1>5. UNCHANGED <<snapshot, committed, marks, toNative, parser, captures, screen>>
  BY <1>2 DEF snapshots, page
<1>6. SurfaceInv'
  <2>1. CASE attached
    <3>1. PageInv(bridge, toNative, parser, screen, Waiting, units, gone, marks)
      BY <2>1 DEF FlowInv, SurfaceInv
    <3>2. PageInv(bridge, toNative, parser, screen, Waiting \o <<units + 1>>, units + 1, gone, marks)
      BY <1>3, <3>1, GrowPage
    <3> QED
      BY <1>1, <1>2, <1>4, <1>5, <2>1, <3>2 DEF SurfaceInv
  <2>2. CASE ~attached
    <3> DEFINE c == FlattenSeq(buffer.chunks)
               v == c \o Waiting
    <3>1. StreamOK(snapshot, v, units, gone, {}) /\ MarksOK(marks, v, units)
      BY <2>2 DEF FlowInv, SurfaceInv
    <3>2. v \in Text /\ c \in Text /\ Waiting \in Text /\ <<units + 1>> \in Text
          /\ snapshot \in Text /\ \A r \in DOMAIN marks : marks[r] \in Nat
      BY <1>3, SurfaceTexts DEF Text
    <3> HIDE DEF v, c
    <3>3. /\ StreamOK(snapshot, v \o <<units + 1>>, units + 1, gone, {})
          /\ Range(v \o <<units + 1>>) = Range(v) \cup {units + 1}
      BY <1>3, <3>1, <3>2, StreamGrows
    <3>4. MarksOK(marks, v \o <<units + 1>>, units + 1)
      BY <1>3, <3>1, <3>2, <3>3, MarksGrow
    <3>5. PICK o \in Text : o = <<units + 1>>
      BY <3>2, Zenon
    <3>6. (c \o Waiting) \o o = c \o (Waiting \o o)
      BY <3>2, TextAssoc
    <3>7. v \o o = FlattenSeq(buffer'.chunks) \o Waiting'
      BY <1>2, <1>4, <3>5, <3>6, Zenon DEF v, c
    <3> QED
      BY <1>1, <1>2, <1>5, <2>2, <3>3, <3>4, <3>5, <3>7 DEF SurfaceInv
  <2> QED
    BY <2>1, <2>2
<1>7. AnswersOK' /\ SnapshotKept'
  BY <1>2, <1>5 DEF FlowInv, AnswersOK, SnapshotKept, Given
<1> QED
  BY <1>2, <1>6, <1>7 DEF FlowInv

-----------------------------------------------------------------------------
(* The flow: steps of a surface with a page.                               *)

\* Every answer to native was there before.
SameAnswers ==
  \A i \in DOMAIN toNative' : toNative'[i].kind = "snapshot" =>
    \E j \in DOMAIN toNative : toNative[j] = toNative'[i]

LEMMA SnapshotSequence ==
  ASSUME SurfaceTypes
  PROVE  /\ \A j \in DOMAIN toNative : toNative[j].kind = "snapshot" =>
              toNative[j].sequence \in 1..requests
         /\ \A j \in DOMAIN captures : captures[j] \in 1..requests
         /\ committed # 0 => committed \in 1..requests
<1>1. \A j \in DOMAIN toNative : toNative[j] \in NativeMessages(requests)
  BY ElementOfSeq, LenProperties DEF SurfaceTypes
<1>2. \A j \in DOMAIN captures : captures[j] \in 1..requests
  BY ElementOfSeq, LenProperties DEF SurfaceTypes
<1>3. committed # 0 => committed \in 1..requests
  BY DEF SurfaceTypes
<1> QED
  BY <1>1, <1>2, <1>3 DEF NativeMessages

LEMMA AnswersStay ==
  ASSUME SurfaceTypes, AnswersOK, Range(screen) \subseteq Range(screen'), Given \subseteq Given',
         \A r \in 1..requests : marks'[r] = marks[r], SameAnswers,
         UNCHANGED <<captures, snapshot, committed>>
  PROVE  AnswersOK'
<1>1. \A i \in DOMAIN captures' : Holds(screen', marks'[captures'[i]], Given')
  BY HoldsMore, SnapshotSequence DEF AnswersOK
<1>2. ASSUME NEW i \in DOMAIN toNative', toNative'[i].kind = "snapshot"
      PROVE  /\ Increasing(toNative'[i].units) /\ Range(toNative'[i].units) \subseteq Range(screen')
             /\ Holds(toNative'[i].units, marks'[toNative'[i].sequence], Given')
  <2>1. PICK j \in DOMAIN toNative : toNative[j] = toNative'[i]
    BY <1>2 DEF SameAnswers
  <2>2. /\ Increasing(toNative[j].units) /\ Range(toNative[j].units) \subseteq Range(screen)
        /\ Holds(toNative[j].units, marks[toNative[j].sequence], Given)
    BY <1>2, <2>1 DEF AnswersOK
  <2>3. marks'[toNative[j].sequence] = marks[toNative[j].sequence]
    BY <1>2, <2>1, SnapshotSequence
  <2>4. Holds(toNative[j].units, marks'[toNative[j].sequence], Given')
    BY <2>2, <2>3, HoldsMore
  <2> QED
    BY <2>1, <2>2, <2>4
<1>3. committed' # 0 => Holds(snapshot', marks'[committed'], Given')
  BY HoldsMore, SnapshotSequence DEF AnswersOK
<1> QED
  BY <1>1, <1>2, <1>3 DEF AnswersOK

\* What a step of a surface with a page has to show.
LEMMA FlowPage ==
  ASSUME FlowInv, attached, attached',
         PageInv(bridge', toNative', parser', screen', Waiting', units', gone', marks'),
         Onward(Waiting, units, Given, Waiting', units', Given'),
         AnswersOK', snapshot' = snapshot, buffer'.chunks = buffer.chunks
  PROVE  FlowInv'
<1>1. SurfaceInv'
  BY DEF SurfaceInv
<1>2. SnapshotKept'
  <2>1. PageHas(Range(snapshot), bridge, toNative, parser, screen, Waiting, units, gone, marks)
    BY DEF FlowInv, SurfaceInv, SnapshotKept, PageHas
  <2>2. PageHas(Range(snapshot), bridge', toNative', parser', screen', Waiting', units', gone',
                marks')
    BY <2>1, PageKeeps DEF Given
  <2> QED
    BY <2>2 DEF FlowInv, SnapshotKept, PageHas
<1>3. ~EmptyTexts => Full(buffer'.chunks)
  BY DEF FlowInv
<1> QED
  BY <1>1, <1>2, <1>3 DEF FlowInv

\* The same without a page.
LEMMA FlowBuffer ==
  ASSUME FlowInv, ~attached, ~attached', SurfaceTypes,
         StreamOK(snapshot, FlattenSeq(buffer'.chunks) \o Waiting', units', gone', {}),
         MarksOK(marks, FlattenSeq(buffer'.chunks) \o Waiting', units'),
         ~EmptyTexts => Full(buffer'.chunks), gone \subseteq gone',
         UNCHANGED <<bridge, snapshot, committed, marks, toNative, captures, screen>>
  PROVE  FlowInv'
<1>1. SurfaceInv'
  BY DEF SurfaceInv
<1>2. AnswersOK'
  <2>1. Given \subseteq Given' /\ SameAnswers
    BY DEF Given, SameAnswers
  <2> QED
    BY <2>1, AnswersStay DEF FlowInv
<1>3. SnapshotKept'
  BY DEF FlowInv, SnapshotKept
<1> QED
  BY <1>1, <1>2, <1>3 DEF FlowInv

LEMMA FinalFlow ==
  ASSUME TypeInv, FlowInv, FinalDelivery
  PROVE  FlowInv'
<1>1. /\ output' = <<>> /\ UNCHANGED <<units, attached, buffer, bridge, snapshots, page>>
  BY DEF FinalDelivery, flow
<1>2. \/ Len(transport) < QueueCapacity /\ transport' = Append(transport, output) /\ UNCHANGED gone
      \/ Len(transport) >= QueueCapacity /\ gone' = gone \cup Range(output) /\ UNCHANGED transport
  BY DEF FinalDelivery
<1>3. LoopTypes /\ SurfaceTypes /\ output \in Text /\ FlattenSeq(transport) \in Text
  BY WaitingType DEF TypeInv, LoopTypes
<1>4. UNCHANGED <<snapshot, committed, marks, toNative, parser, captures, screen>>
  BY <1>1 DEF snapshots, page
<1>5. CASE Len(transport) < QueueCapacity /\ transport' = Append(transport, output) /\ UNCHANGED gone
  <2>1. Deliver(output)
    BY <1>1, <1>5 DEF Deliver
  <2>2. Waiting' = Waiting
    BY <1>3, <2>1, DeliverWaiting DEF Waiting
  <2> QED
    BY <1>1, <1>5, <2>2, FlowStays
<1>6. CASE gone' = gone \cup Range(output) /\ UNCHANGED transport
  <2> DEFINE t == FlattenSeq(transport)
  <2>1. Waiting' = t /\ Waiting = t \o output
    <3>1. t \o <<>> = t
      BY <1>3, TextEmpty
    <3> QED
      BY <1>1, <1>6, <3>1, Zenon DEF Waiting
  <2>2. t \in Text
    BY <1>3
  <2> HIDE DEF t
  <2>3. Range(Waiting) = Range(t) \cup Range(output)
    BY <1>3, <2>1, <2>2, RangeConcat
  <2>4. CASE attached
    <3>1. PageInv(bridge, toNative, parser, screen, t \o output, units, gone, marks)
      BY <2>1, <2>4 DEF FlowInv, SurfaceInv
    <3>2. PageInv(bridge, toNative, parser, screen, t, units, gone \cup Range(output), marks)
      BY <1>3, <2>2, <3>1, LeavePage
    <3>3. PageInv(bridge', toNative', parser', screen', Waiting', units', gone', marks')
      BY <1>1, <1>4, <1>6, <2>1, <3>2
    <3>4. Given' = Given \cup Range(output)
      BY <1>1, <1>6 DEF Given
    <3>5. Onward(Waiting, units, Given, Waiting', units', Given')
      BY <1>1, <2>1, <2>3, <3>4, SurfaceTexts DEF Onward
    <3>6. AnswersOK'
      <4>1. SameAnswers /\ Given \subseteq Given'
        BY <1>4, <3>4 DEF SameAnswers
      <4> QED
        BY <1>3, <1>4, <4>1, AnswersStay DEF FlowInv
    <3> QED
      BY <1>1, <1>4, <2>4, <3>3, <3>5, <3>6, FlowPage
  <2>5. CASE ~attached
    <3> DEFINE c == FlattenSeq(buffer.chunks)
    <3>1. /\ StreamOK(snapshot, c \o Waiting, units, gone, {})
          /\ MarksOK(marks, c \o Waiting, units)
      BY <2>5 DEF FlowInv, SurfaceInv
    <3>2. c \in Text /\ snapshot \in Text
      BY SurfaceTexts
    <3> HIDE DEF c
    <3>3. c \o Waiting = (c \o t) \o output /\ c \o t \in Text
      BY <1>3, <2>1, <2>2, <3>2, TextAssoc
    <3>4. StreamOK(snapshot, c \o t, units, gone \cup Range(output), {})
      BY <1>3, <3>1, <3>2, <3>3, StreamLeaves
    <3>5. MarksOK(marks, c \o t, units)
      <4>1. Range(c \o Waiting) = Range(c \o t) \cup Range(output)
        BY <1>3, <3>3, RangeConcat
      <4> QED
        BY <3>1, <4>1 DEF MarksOK
    <3>6. /\ StreamOK(snapshot, FlattenSeq(buffer'.chunks) \o Waiting', units', gone', {})
          /\ MarksOK(marks, FlattenSeq(buffer'.chunks) \o Waiting', units')
      BY <1>1, <1>6, <2>1, <3>4, <3>5 DEF c
    <3>7. ~EmptyTexts => Full(buffer'.chunks)
      BY <1>1 DEF FlowInv
    <3>8. gone \subseteq gone' /\ ~attached'
      BY <1>1, <1>6, <2>5
    <3> QED
      BY <1>1, <1>3, <1>4, <2>5, <3>6, <3>7, <3>8, FlowBuffer
  <2> QED
    BY <2>4, <2>5
<1> QED
  BY <1>2, <1>5, <1>6

\* The pane writes a text: with a page into its bridge, otherwise into the detached output.
LEMMA WriteFlow ==
  ASSUME TypeInv, FlowInv, NEW chunk, chunk \in Text, NEW k, NEW v, NEW left,
         IF attached
         THEN /\ PageInv(bridge, toNative, parser, screen, chunk \o v, k, left, marks)
              /\ bridge' = BridgeWrite(bridge, chunk) /\ buffer'.chunks = buffer.chunks
         ELSE /\ StreamOK(snapshot, FlattenSeq(buffer.chunks) \o (chunk \o v), k, left, {})
              /\ MarksOK(marks, FlattenSeq(buffer.chunks) \o (chunk \o v), k)
              /\ bridge' = bridge
              /\ buffer'.chunks = IF chunk = <<>> THEN buffer.chunks ELSE Append(buffer.chunks, chunk),
         v \in Text, Waiting' = v, units' = k, gone' = left, left = gone, k \in Nat, units <= k,
         \A x \in Range(chunk) \cup Range(v) : x \in Range(Waiting) \/ x > units,
         ~EmptyTexts => chunk # <<>>,
         UNCHANGED <<attached, snapshots, page>>
  PROVE  FlowInv'
<1>1. UNCHANGED <<snapshot, committed, marks, toNative, parser, captures, screen>>
  BY DEF snapshots, page
<1>2. SurfaceTypes /\ SameAnswers /\ requests \in Nat /\ BridgeOK(bridge, requests)
  BY <1>1 DEF TypeInv, SurfaceTypes, SameAnswers
<1>3. CASE attached
  <2>1. PageInv(BridgeWrite(bridge, chunk), toNative, parser, screen, v, k, left, marks)
    BY <1>3, WritePage
  <2>2. PageInv(bridge', toNative', parser', screen', Waiting', units', gone', marks')
    BY <1>1, <1>3, <2>1
  <2>3. /\ bridge.dropped \subseteq bridge'.dropped
        /\ bridge'.dropped \subseteq bridge.dropped \cup Range(chunk)
    BY <1>2, <1>3, WriteDropped
  <2>4. Onward(Waiting, units, Given, Waiting', units', Given')
    BY <2>3 DEF Onward, Given
  <2>5. AnswersOK'
    <3>1. Given \subseteq Given'
      BY <2>3 DEF Given
    <3> QED
      BY <1>1, <1>2, <3>1, AnswersStay DEF FlowInv
  <2> QED
    BY <1>1, <1>3, <2>2, <2>4, <2>5, FlowPage
<1>4. CASE ~attached
  <2> DEFINE c == FlattenSeq(buffer.chunks)
  <2>1. buffer.chunks \in Seq(Text) /\ c \in Text
    BY SurfaceTexts DEF TypeInv, SurfaceTypes, Buffers
  <2>2. FlattenSeq(buffer'.chunks) = c \o chunk /\ (~EmptyTexts => Full(buffer'.chunks))
    <3>1. CASE chunk = <<>>
      <4>1. c \o <<>> = c
        BY <2>1, TextEmpty
      <4> QED
        BY <1>4, <3>1, <4>1 DEF FlowInv
    <3>2. CASE chunk # <<>>
      <4>1. buffer'.chunks = Append(buffer.chunks, chunk)
        BY <1>4, <3>2
      <4>2. FlattenSeq(Append(buffer.chunks, chunk)) = c \o chunk
        <5>1. buffer.chunks \in Seq(Seq(Unit)) /\ chunk \in Seq(Unit)
          BY <2>1 DEF Text
        <5> QED
          BY <5>1, FlattenAppend
      <4>3. ~EmptyTexts => Full(Append(buffer.chunks, chunk))
        BY <2>1, <3>2, FullAppend DEF FlowInv
      <4> QED
        BY <4>1, <4>2, <4>3, Zenon
    <3> QED
      BY <3>1, <3>2
  <2>3. (c \o chunk) \o v = c \o (chunk \o v)
    BY <2>1, TextAssoc
  <2>4. /\ StreamOK(snapshot, c \o (chunk \o v), k, left, {})
        /\ MarksOK(marks, c \o (chunk \o v), k)
    BY <1>4
  <2> HIDE DEF c
  <2>5. FlattenSeq(buffer'.chunks) \o Waiting' = c \o (chunk \o v)
    BY <2>2, <2>3, Zenon
  <2>6. /\ StreamOK(snapshot, FlattenSeq(buffer'.chunks) \o Waiting', units', gone', {})
        /\ MarksOK(marks, FlattenSeq(buffer'.chunks) \o Waiting', units')
    BY <2>4, <2>5, Zenon
  <2>7. ~attached' /\ gone \subseteq gone' /\ bridge' = bridge
    BY <1>4
  <2> QED
    BY <1>1, <1>2, <1>4, <2>2, <2>6, <2>7, FlowBuffer
<1> QED
  BY <1>3, <1>4

LEMMA WaitingHead ==
  ASSUME LoopTypes, transport # <<>>, transport' = Tail(transport), output' = output
  PROVE  /\ Head(transport) \in Text /\ Waiting' \in Text
         /\ Waiting = Head(transport) \o Waiting'
<1> DEFINE t == FlattenSeq(Tail(transport))
           h == Head(transport)
<1>1. transport \in Seq(Text) /\ output \in Text
  BY DEF LoopTypes
<1>2. h \in Text /\ Tail(transport) \in Seq(Text)
  BY <1>1, HeadTailProperties
<1>3. t \in Text
  <2>1. Tail(transport) \in Seq(Seq(Unit))
    BY <1>2 DEF Text
  <2> QED
    BY <2>1, FlattenType DEF Text
<1>4. FlattenSeq(transport) = h \o t
  BY <1>1, PendingHead
<1>5. Waiting' = t \o output
  BY Zenon DEF Waiting
<1> HIDE DEF t, h
<1>6. (h \o t) \o output = h \o (t \o output) /\ t \o output \in Text
  BY <1>1, <1>2, <1>3, TextGroup, ZenonT(40)
<1>7. Waiting = h \o Waiting'
  BY <1>4, <1>5, <1>6, Zenon DEF Waiting
<1>8. h \in Text /\ Waiting' \in Text
  BY <1>2, <1>5, <1>6, Zenon
<1> QED
  BY <1>7, <1>8 DEF h

LEMMA WriteBytesIs ==
  ASSUME SurfaceTypes, NEW chunk, chunk \in Text, WriteBytes(chunk)
  PROVE  /\ attached => bridge' = BridgeWrite(bridge, chunk) /\ buffer'.chunks = buffer.chunks
         /\ ~attached =>
              /\ bridge' = bridge
              /\ buffer'.chunks = IF chunk = <<>> THEN buffer.chunks ELSE Append(buffer.chunks, chunk)
<1> DEFINE b == IF attached THEN BridgeWrite(bridge, chunk) ELSE bridge
           g == AppendDetached(buffer, chunk)
<1>1. bridge' = b /\ buffer' = Follow(g, b)
  BY DEF WriteBytes, Become
<1>2. BridgeOK(bridge, requests) /\ requests \in Nat /\ buffer \in Buffers
  BY DEF SurfaceTypes
<1>3. BridgeOK(b, requests)
  BY <1>2, WriteOK
<1>4. /\ g \in Buffers /\ (attached => g = buffer)
      /\ ~attached => g.chunks = IF chunk = <<>> THEN buffer.chunks ELSE Append(buffer.chunks, chunk)
  BY <1>2, AppendDetachedIs
<1>5. (attached => b = BridgeWrite(bridge, chunk)) /\ (~attached => b = bridge)
  OBVIOUS
<1> HIDE DEF b, g
<1>6. Follow(g, b).chunks = g.chunks
  BY <1>3, <1>4, BackpressuredType, FollowIs
<1> QED
  BY <1>1, <1>4, <1>5, <1>6, Zenon

LEMMA DataFlow ==
  ASSUME TypeInv, FlowInv, HandleData
  PROVE  FlowInv'
<1>1. /\ transport # <<>> /\ Head(transport) # Close /\ transport' = Tail(transport)
      /\ WriteBytes(Head(transport)) /\ output' = output /\ units' = units /\ gone' = gone
      /\ UNCHANGED <<attached, snapshots, page>>
  BY DEF HandleData, loop
<1>2. LoopTypes /\ SurfaceTypes
  BY DEF TypeInv
<1>3. PICK chunk : chunk = Head(transport)
  OBVIOUS
<1>4. /\ chunk \in Text /\ Waiting' \in Text /\ Waiting = chunk \o Waiting' /\ chunk # <<>>
  BY <1>1, <1>2, <1>3, WaitingHead, Zenon DEF Close
<1>5. /\ attached => bridge' = BridgeWrite(bridge, chunk) /\ buffer'.chunks = buffer.chunks
      /\ ~attached =>
           /\ bridge' = bridge
           /\ buffer'.chunks = IF chunk = <<>> THEN buffer.chunks ELSE Append(buffer.chunks, chunk)
  <2>1. WriteBytes(chunk)
    BY <1>1, <1>3
  <2> QED
    BY <1>2, <1>4, <2>1, WriteBytesIs
<1>6. PICK v \in Text : v = Waiting'
  BY <1>4
<1>7. units \in Nat /\ Range(Waiting) = Range(chunk) \cup Range(v)
  BY <1>4, <1>6, SurfaceTexts, RangeConcat
<1>8. attached => PageInv(bridge, toNative, parser, screen, chunk \o v, units, gone, marks)
  BY <1>4, <1>6, Zenon DEF FlowInv, SurfaceInv
<1>9. ~attached => /\ StreamOK(snapshot, FlattenSeq(buffer.chunks) \o (chunk \o v), units, gone, {})
                   /\ MarksOK(marks, FlattenSeq(buffer.chunks) \o (chunk \o v), units)
  BY <1>4, <1>6, Zenon DEF FlowInv, SurfaceInv
<1>10. units <= units /\ \A x \in Range(chunk) \cup Range(v) : x \in Range(Waiting) \/ x > units
  BY <1>7
<1>11. Waiting' = v /\ units' = units /\ gone' = gone /\ UNCHANGED <<attached, snapshots, page>>
  BY <1>1, <1>6
<1>12. IF attached
       THEN /\ PageInv(bridge, toNative, parser, screen, chunk \o v, units, gone, marks)
            /\ bridge' = BridgeWrite(bridge, chunk) /\ buffer'.chunks = buffer.chunks
       ELSE /\ StreamOK(snapshot, FlattenSeq(buffer.chunks) \o (chunk \o v), units, gone, {})
            /\ MarksOK(marks, FlattenSeq(buffer.chunks) \o (chunk \o v), units)
            /\ bridge' = bridge
            /\ buffer'.chunks = IF chunk = <<>> THEN buffer.chunks ELSE Append(buffer.chunks, chunk)
  BY <1>5, <1>8, <1>9
<1>13. /\ chunk \in Text /\ v \in Text /\ gone = gone /\ units \in Nat
       /\ ~EmptyTexts => chunk # <<>>
  BY <1>4, <1>6, <1>7
<1> QED
  BY <1>10, <1>11, <1>12, <1>13, WriteFlow, Zenon

\* Nothing is on the way from a session that is over.
LEMMA NoneWaiting ==
  ASSUME TypeInv, connected = "no" \/ (transport # <<>> /\ Head(transport) = Close)
  PROVE  Waiting = <<>>
<1>1. LoopTypes /\ PhaseOK
  BY DEF TypeInv
<1>2. output = <<>> /\ FlattenSeq(transport) = <<>>
  <2>1. CASE connected = "no"
    BY <1>1, <2>1, FlattenEmpty DEF PhaseOK
  <2>2. CASE transport # <<>> /\ Head(transport) = Close
    <3>1. /\ transport \in Seq(Text) /\ transport[1] = Close /\ 1 \in DOMAIN transport
          /\ Len(transport) \in Nat /\ Len(transport) # 0
      BY <1>1, <2>2, HeadTailProperties, EmptySeq, LenProperties DEF LoopTypes
    <3>2. session = "over" /\ output = <<>> /\ connected # "no"
      BY <1>1, <2>2, <3>1 DEF PhaseOK, LoopTypes
    <3>3. \A i \in 1..(Len(transport) - 1) : transport[i] # Close
      BY <1>1, <3>2 DEF PhaseOK
    <3>4. PICK k \in Nat : k = Len(transport)
      BY <3>1, Zenon
    <3>5. k # 0 /\ DOMAIN transport = 1..k
      BY <3>1, <3>4, LenProperties
    <3>6. k # 1 => 1 \in 1..(k - 1)
      BY <3>5
    <3>7. k = 1
      BY <3>1, <3>3, <3>4, <3>6, Zenon
    <3>8. \A i \in 1..Len(transport) : transport[i] = <<>>
      BY <3>1, <3>4, <3>7 DEF Close
    <3>9. transport \in Seq(Seq(Unit))
      BY <3>1 DEF Text
    <3> QED
      BY <3>2, <3>8, <3>9, FlattenNothing
  <2> QED
    BY <2>1, <2>2
<1>3. <<>> \o <<>> = <<>>
  OBVIOUS
<1> QED
  BY <1>2, <1>3, Zenon DEF Waiting

LEMMA ReachedOK ==
  ASSUME LoopTypes, NEW X, NEW left, NEW d, X \in Text, StreamOK(X, Waiting, units, left, d)
  PROVE  Reached \in Nat /\ Reached <= units /\ \A x \in Range(Waiting) : Reached < x
<1>1. Waiting \in Text /\ Reached \in Nat /\ units \in Nat
  BY WaitingType, ReachedType DEF LoopTypes
<1>2. Reached = IF Waiting = <<>> THEN units ELSE Head(Waiting) - 1
  BY Zenon DEF Reached, Waiting
<1>3. CASE Waiting = <<>>
  BY <1>1, <1>2, <1>3, RangeEmpty
<1>4. CASE Waiting # <<>>
  <2>1. Increasing(Waiting) /\ Range(Waiting) \subseteq 1..units
    BY <1>1, StreamIs
  <2>2. PICK w \in Text : w = Waiting
    BY <1>1
  <2>3. /\ Head(w) = w[1] /\ Len(w) \in Nat /\ Len(w) # 0 /\ DOMAIN w = 1..Len(w)
        /\ w[1] \in Range(w) /\ \A x \in Range(w) : \E i \in 1..Len(w) : x = w[i]
    <3>1. w \in Seq(Unit) /\ w # <<>>
      BY <1>4, <2>2 DEF Text
    <3>2. Head(w) = w[1] /\ Len(w) \in Nat /\ Len(w) # 0 /\ DOMAIN w = 1..Len(w)
      BY <3>1, HeadTailProperties, LenProperties, EmptySeq
    <3>3. 1 \in 1..Len(w)
      BY <3>2
    <3> QED
      BY <3>1, <3>2, <3>3, RangeMembers
  <2>4. w[1] \in 1..units /\ Increasing(w) /\ Range(w) \subseteq 1..units /\ Reached = w[1] - 1
    BY <1>2, <1>4, <2>1, <2>2, <2>3
  <2>5. ASSUME NEW x \in Range(w) PROVE w[1] - 1 < x
    <3>1. PICK i \in 1..Len(w) : x = w[i]
      BY <2>3
    <3>2. x \in Nat /\ w[1] \in Nat
      BY <2>4
    <3>3. i = 1 \/ w[1] < x
      BY <2>3, <2>4, <3>1 DEF Increasing
    <3> QED
      BY <3>1, <3>2, <3>3
  <2>6. w[1] - 1 <= units
    BY <1>1, <2>4
  <2> QED
    BY <1>1, <2>2, <2>4, <2>5, <2>6
<1> QED
  BY <1>3, <1>4

LEMMA TerminalFlows ==
  ASSUME TypeInv, FlowInv, WriteTerminal
  PROVE  FlowInv'
<1>1. /\ connected = "no" /\ output' = output /\ transport' = transport /\ gone' = gone
      /\ UNCHANGED <<attached, snapshots, page>>
  BY DEF WriteTerminal, loop
<1>2. PICK text \in {<<units + 1>>} \cup (IF EmptyTexts THEN {<<>>} ELSE {}) :
        /\ units + Len(text) <= MaxUnits /\ units' = units + Len(text) /\ WriteBytes(text)
  BY DEF WriteTerminal
<1>3. LoopTypes /\ SurfaceTypes /\ units \in Nat /\ MaxUnits \in Nat
  BY LimitsAssumption DEF TypeInv, LoopTypes
<1>4. Waiting = <<>>
  BY <1>1, NoneWaiting
<1>5. PICK v \in Text : v = <<>>
  <2>1. <<>> \in Text
    BY DEF Text
  <2> QED
    BY <2>1, Zenon
<1>6. PICK k \in Nat : k = units + Len(text)
  <2>1. units + Len(text) \in Nat
    BY <1>2, <1>3
  <2> QED
    BY <2>1
<1>7. text \in Text /\ (~EmptyTexts => text # <<>>) /\ units <= k
      /\ \A x \in Range(text) : x > units
  <2>1. CASE text = <<units + 1>>
    <3>1. units + 1 \in Unit /\ Len(text) = 1 /\ Range(text) = {units + 1}
      BY <1>2, <1>3, <2>1, RangeOne DEF Unit
    <3>2. text \in Text /\ text # <<>>
      BY <2>1, <3>1 DEF Text
    <3> QED
      BY <1>3, <1>6, <3>1, <3>2
  <2>2. CASE text = <<>> /\ EmptyTexts
    <3>1. Len(text) = 0 /\ text \in Text /\ Range(text) = {}
      BY <2>2, RangeEmpty DEF Text
    <3> QED
      BY <1>3, <1>6, <2>2, <3>1
  <2> QED
    BY <1>2, <2>1, <2>2
<1>8. /\ attached => bridge' = BridgeWrite(bridge, text) /\ buffer'.chunks = buffer.chunks
      /\ ~attached =>
           /\ bridge' = bridge
           /\ buffer'.chunks = IF text = <<>> THEN buffer.chunks ELSE Append(buffer.chunks, text)
  BY <1>2, <1>3, <1>7, WriteBytesIs
<1>9. text \o v = text
  BY <1>5, <1>7, TextEmpty
<1>10. attached => PageInv(bridge, toNative, parser, screen, text \o v, k, gone, marks)
  <2> SUFFICES ASSUME attached
               PROVE  PageInv(bridge, toNative, parser, screen, text, k, gone, marks)
    BY <1>9
  <2>1. PageInv(bridge, toNative, parser, screen, <<>>, units, gone, marks)
    BY <1>4 DEF FlowInv, SurfaceInv
  <2>2. CASE text = <<units + 1>>
    <3>1. units + 1 \in Unit /\ k = units + 1
      BY <1>2, <1>3, <1>6, <2>2 DEF Unit
    <3>2. PageInv(bridge, toNative, parser, screen, <<>> \o <<units + 1>>, units + 1, gone, marks)
      BY <2>1, <3>1, GrowPage
    <3>3. <<>> \o text = text
      BY <1>7, TextEmpty
    <3> QED
      BY <2>2, <3>1, <3>2, <3>3
  <2>3. CASE text = <<>>
    <3>1. k = units
      BY <1>3, <1>6, <2>3
    <3> QED
      BY <2>1, <2>3, <3>1
  <2> QED
    BY <1>2, <2>2, <2>3
<1>11. ~attached => /\ StreamOK(snapshot, FlattenSeq(buffer.chunks) \o (text \o v), k, gone, {})
                    /\ MarksOK(marks, FlattenSeq(buffer.chunks) \o (text \o v), k)
  <2> DEFINE c == FlattenSeq(buffer.chunks)
  <2>1. c \in Text /\ snapshot \in Text /\ \A r \in DOMAIN marks : marks[r] \in Nat
    BY SurfaceTexts
  <2>2. c \o <<>> = c
    BY <2>1, TextEmpty
  <2>3. ~attached => StreamOK(snapshot, c, units, gone, {}) /\ MarksOK(marks, c, units)
    BY <1>4, <2>2 DEF FlowInv, SurfaceInv
  <2> HIDE DEF c
  <2> SUFFICES ASSUME ~attached
               PROVE  StreamOK(snapshot, c \o text, k, gone, {}) /\ MarksOK(marks, c \o text, k)
    BY <1>9 DEF c
  <2>4. CASE text = <<units + 1>>
    <3>1. units + 1 \in Unit /\ k = units + 1
      BY <1>2, <1>3, <1>6, <2>4 DEF Unit
    <3>2. /\ StreamOK(snapshot, c \o <<units + 1>>, units + 1, gone, {})
          /\ Range(c \o <<units + 1>>) = Range(c) \cup {units + 1}
      BY <1>3, <2>1, <2>3, <3>1, StreamGrows
    <3>3. MarksOK(marks, c \o <<units + 1>>, units + 1)
      BY <1>3, <2>1, <2>3, <3>2, MarksGrow
    <3> QED
      BY <2>4, <3>1, <3>2, <3>3
  <2>5. CASE text = <<>>
    <3>1. k = units /\ c \o text = c
      BY <1>3, <1>6, <2>1, <2>2, <2>5
    <3> QED
      BY <2>3, <3>1
  <2> QED
    BY <1>2, <2>4, <2>5
<1>12. IF attached
       THEN /\ PageInv(bridge, toNative, parser, screen, text \o v, k, gone, marks)
            /\ bridge' = BridgeWrite(bridge, text) /\ buffer'.chunks = buffer.chunks
       ELSE /\ StreamOK(snapshot, FlattenSeq(buffer.chunks) \o (text \o v), k, gone, {})
            /\ MarksOK(marks, FlattenSeq(buffer.chunks) \o (text \o v), k)
            /\ bridge' = bridge
            /\ buffer'.chunks = IF text = <<>> THEN buffer.chunks ELSE Append(buffer.chunks, text)
  BY <1>8, <1>10, <1>11
<1>13. Waiting' = v /\ units' = k /\ gone' = gone /\ gone = gone /\ v \in Text /\ k \in Nat
       /\ units <= k
  BY <1>1, <1>2, <1>4, <1>5, <1>6, <1>7 DEF Waiting
<1>14. \A x \in Range(text) \cup Range(v) : x \in Range(Waiting) \/ x > units
  BY <1>5, <1>7, RangeEmpty
<1> QED
  BY <1>1, <1>7, <1>12, <1>13, <1>14, WriteFlow, Zenon

\* The pane may write a text of its own when no output is under way.
LEMMA WriteOwnPage ==
  ASSUME LoopTypes, attached, NEW b, NEW na, NEW pa, NEW sc, NEW left, NEW ms, NEW text,
         PageInv(b, na, pa, sc, Waiting, units, left, ms),
         text = <<>> \/ (Waiting = <<>> /\ text = OwnText)
  PROVE  /\ PageInv(WriteOwn(b, text), na, pa, sc, Waiting, units + Len(text), left, ms)
         /\ b.dropped \subseteq WriteOwn(b, text).dropped
         /\ WriteOwn(b, text).dropped \subseteq b.dropped \cup Range(text)
         /\ units + Len(text) \in Nat /\ units <= units + Len(text)
         /\ \A x \in Range(text) : x > units
<1>1. units \in Nat
  BY DEF LoopTypes
<1>2. CASE text = <<>>
  <2>1. Len(text) = 0 /\ WriteOwn(b, text) = b /\ Range(text) = {}
    BY <1>2, RangeEmpty DEF WriteOwn
  <2>2. units + Len(text) = units
    BY <1>1, <2>1
  <2> QED
    BY <1>1, <2>1, <2>2
<1>3. CASE text # <<>>
  <2>1. text = <<units + 1>> /\ units + 1 \in Unit /\ text \in Text /\ Waiting = <<>>
    BY <1>3, OwnTypes
  <2>2. Len(text) = 1 /\ Range(text) = {units + 1} /\ WriteOwn(b, text) = BridgeWrite(b, text)
    BY <2>1, RangeOne DEF WriteOwn
  <2>3. PageInv(BridgeWrite(b, text), na, pa, sc, Waiting, units + 1, left, ms)
    <3>1. PageInv(BridgeWrite(b, <<units + 1>>), na, pa, sc, <<>>, units + 1, left, ms)
      BY <2>1, OwnPage
    <3> QED
      BY <2>1, <3>1
  <2>4. BridgeOK(b, Len(ms)) /\ Len(ms) \in Nat
    BY PageTypes
  <2>5. /\ b.dropped \subseteq BridgeWrite(b, text).dropped
        /\ BridgeWrite(b, text).dropped \subseteq b.dropped \cup Range(text)
    BY <2>1, <2>4, WriteDropped
  <2>6. units + Len(text) = units + 1
    BY <2>2
  <2>7. units + 1 \in Nat /\ units <= units + 1 /\ \A x \in Range(text) : x > units
    BY <1>1, <2>2
  <2> QED
    BY <2>2, <2>3, <2>5, <2>6, <2>7
<1> QED
  BY <1>2, <1>3

\* A snapshot is requested of what has reached the surface, with or without such a text.
LEMMA CapturesFlow ==
  ASSUME TypeInv, FlowInv, attached, NEW b, NEW text,
         b.dropped = bridge.dropped,
         PageInv(b, toNative', parser, screen, Waiting, units, gone, marks),
         text = <<>> \/ (Waiting = <<>> /\ text = OwnText),
         CaptureSnapshot(WriteOwn(b, text), Reached + Len(text)), units' = units + Len(text),
         Waiting' = Waiting, SameAnswers, buffer'.chunks = buffer.chunks,
         UNCHANGED <<attached, parser, captures, screen, snapshot, committed, gone>>
  PROVE  FlowInv'
<1> DEFINE q == WriteOwn(b, text)
           mark == Reached + Len(text)
<1>1. LoopTypes /\ SurfaceTypes /\ units \in Nat /\ requests \in Nat /\ Len(marks) = requests
      /\ marks \in Seq(Nat)
  BY DEF TypeInv, LoopTypes, SurfaceTypes
<1>2. /\ PageInv(q, toNative', parser, screen, Waiting, units', gone, marks)
      /\ b.dropped \subseteq q.dropped /\ q.dropped \subseteq b.dropped \cup Range(text)
      /\ units' \in Nat /\ units <= units' /\ \A x \in Range(text) : x > units
  BY <1>1, WriteOwnPage
<1>3. mark \in Nat /\ mark <= units' /\ \A x \in Range(Waiting) : mark < x
  <2> DEFINE X == (screen \o UnitsOf(parser)) \o Line(b)
  <2>1. X \in Text
    BY PageTypes
  <2>2. StreamOK(X, Waiting, units, gone, b.dropped)
    BY DEF PageInv
  <2> HIDE DEF X
  <2>3. Reached \in Nat /\ Reached <= units /\ \A x \in Range(Waiting) : Reached < x
    BY <1>1, <2>1, <2>2, ReachedOK
  <2>4. CASE text = <<>>
    <3>1. Len(text) = 0
      BY <2>4
    <3>2. mark = Reached /\ units' = units
      BY <1>1, <2>3, <3>1
    <3> QED
      BY <2>3, <3>2
  <2>5. CASE Waiting = <<>> /\ text = OwnText
    <3>1. Len(text) \in Nat
      BY <1>1, <2>5, OwnTypes
    <3>2. Range(Waiting) = {}
      BY <2>5, RangeEmpty
    <3> QED
      BY <1>1, <2>3, <3>1, <3>2
  <2> QED
    BY <2>4, <2>5
<1>4. /\ requests' = requests + 1 /\ marks' = Append(marks, mark)
      /\ bridge' = RequestSnapshot(q, requests + 1)
  BY DEF CaptureSnapshot
<1> HIDE DEF q, mark
<1>5. PageInv(bridge', toNative', parser, screen, Waiting, units', gone, marks')
  <2>1. PageInv(RequestSnapshot(q, Len(marks) + 1), toNative', parser, screen, Waiting, units',
                gone, Append(marks, mark))
    BY <1>2, <1>3, RequestPage
  <2> QED
    BY <1>1, <1>4, <2>1
<1>6. bridge'.dropped = q.dropped
  <2>1. BridgeOK(q, requests)
    BY <1>1, <1>2, PageTypes
  <2> QED
    BY <1>1, <1>4, <2>1, RequestDropped
<1>7. \A r \in 1..requests : marks'[r] = marks[r]
  BY <1>1, <1>3, <1>4, AppendProperties
<1>8. Given \subseteq Given' /\ Given' \subseteq Given \cup Range(text)
  BY <1>2, <1>6 DEF Given
<1>9. Onward(Waiting, units, Given, Waiting', units', Given')
  BY <1>2, <1>8 DEF Onward
<1>10. AnswersOK'
  BY <1>1, <1>7, <1>8, AnswersStay DEF FlowInv
<1>11. PageInv(bridge', toNative', parser', screen', Waiting', units', gone', marks')
  BY <1>5
<1> QED
  BY <1>9, <1>10, <1>11, FlowPage

LEMMA CaptureFlow ==
  ASSUME TypeInv, FlowInv, Capture
  PROVE  FlowInv'
<1>1. /\ attached /\ CaptureSnapshot(bridge, Reached) /\ units' = units /\ buffer' = buffer
      /\ transport' = transport /\ output' = output /\ toNative' = toNative
      /\ UNCHANGED <<attached, parser, captures, screen, snapshot, committed, gone>>
  BY DEF Capture, loop, page
<1>2. PICK text \in Text : text = <<>>
  <2>1. <<>> \in Text
    BY DEF Text
  <2> QED
    BY <2>1, Zenon
<1>3. WriteOwn(bridge, text) = bridge /\ Len(text) = 0
  BY <1>2 DEF WriteOwn
<1>4. LoopTypes /\ units \in Nat /\ Reached \in Nat
  BY ReachedType DEF TypeInv, LoopTypes
<1>5. Reached + Len(text) = Reached /\ units' = units + Len(text)
  BY <1>1, <1>3, <1>4
<1>6. CaptureSnapshot(WriteOwn(bridge, text), Reached + Len(text))
  BY <1>1, <1>3, <1>5
<1>7. PageInv(bridge, toNative', parser, screen, Waiting, units, gone, marks)
  BY <1>1 DEF FlowInv, SurfaceInv
<1>8. Waiting' = Waiting /\ SameAnswers
  BY <1>1 DEF Waiting, SameAnswers
<1>9. attached /\ buffer'.chunks = buffer.chunks
      /\ UNCHANGED <<attached, parser, captures, screen, snapshot, committed, gone>>
  BY <1>1
<1> QED
  BY <1>2, <1>5, <1>6, <1>7, <1>8, <1>9, CapturesFlow

LEMMA CloseFlow ==
  ASSUME TypeInv, FlowInv, HandleClose
  PROVE  FlowInv'
<1>1. LoopTypes /\ SurfaceTypes /\ units \in Nat /\ requests \in Nat /\ BridgeOK(bridge, requests)
  BY DEF TypeInv, LoopTypes, SurfaceTypes
<1>2. PICK text \in Text : text = OwnText
  <2>1. OwnText \in Text
    BY <1>1, OwnTypes
  <2> QED
    BY <2>1, Zenon
<1>3. PICK released \in Buffers :
        released = [buffer EXCEPT !.bridgePaused = FALSE, !.detachedPaused = FALSE]
  <2>1. [buffer EXCEPT !.bridgePaused = FALSE, !.detachedPaused = FALSE] \in Buffers
    BY <1>1 DEF SurfaceTypes, Buffers
  <2> QED
    BY <2>1, Zenon
<1>4. released.chunks = buffer.chunks /\ buffer.chunks \in Seq(Text)
  BY <1>1, <1>3 DEF SurfaceTypes, Buffers
<1>5. /\ transport # <<>> /\ Head(transport) = Close /\ transport' = Tail(transport)
      /\ units' = units + Len(text)
      /\ buffer' = Follow(AppendDetached(released, text), WriteOwn(bridge, text))
      /\ IF attached THEN CaptureSnapshot(WriteOwn(bridge, text), units')
                     ELSE UNCHANGED <<bridge, requests, marks>>
      /\ output' = output /\ gone' = gone
      /\ UNCHANGED <<attached, snapshot, committed, toNative, parser, captures, screen>>
  BY <1>2, <1>3 DEF HandleClose, loop, page
<1>6. text = <<>> \/ (text = <<units + 1>> /\ units + 1 \in Unit)
  BY <1>1, <1>2, OwnTypes
<1>7. (text = <<>> => units' = units) /\ (text # <<>> => units' = units + 1)
  <2>1. (text = <<>> => Len(text) = 0) /\ (text # <<>> => Len(text) = 1)
    BY <1>6
  <2>2. PICK n \in Nat : n = Len(text)
    BY <2>1
  <2>3. units' = units + n /\ (text = <<>> => n = 0) /\ (text # <<>> => n = 1)
    BY <1>5, <2>1, <2>2, Zenon
  <2> QED
    BY <1>1, <2>3
<1>8. Waiting = <<>> /\ Waiting' = <<>>
  <2>1. Waiting = <<>>
    BY <1>5, NoneWaiting
  <2>2. Head(transport) \in Text /\ Waiting' \in Text /\ Waiting = Head(transport) \o Waiting'
    BY <1>1, <1>5, WaitingHead
  <2>3. <<>> \o Waiting' = Waiting'
    BY <2>2, TextEmpty
  <2> QED
    BY <1>5, <2>1, <2>2, <2>3, Zenon DEF Close
<1>9. PICK b : b = WriteOwn(bridge, text)
  OBVIOUS
<1>10. b.backpressured \in BOOLEAN
  <2>1. BridgeOK(b, requests)
    BY <1>1, <1>9, WriteOwnOK
  <2> QED
    BY <2>1, BackpressuredType
<1>11. PICK g \in Buffers :
         /\ g = AppendDetached(released, text) /\ (attached => g = released)
         /\ ~attached => g.chunks = IF text = <<>> THEN buffer.chunks ELSE Append(buffer.chunks, text)
  BY <1>4, AppendDetachedIs, Zenon
<1>12. buffer'.chunks = g.chunks
  <2>1. Follow(g, b).chunks = g.chunks
    BY <1>10, FollowIs
  <2> QED
    BY <1>5, <1>9, <1>11, <2>1, Zenon
<1>13. CASE attached
  <2>1. PageInv(bridge, toNative', parser, screen, Waiting, units, gone, marks)
    BY <1>5, <1>13 DEF FlowInv, SurfaceInv
  <2>2. Reached = units
    BY <1>8, Zenon DEF Reached, Waiting
  <2>3. CaptureSnapshot(WriteOwn(bridge, text), Reached + Len(text))
    BY <1>5, <1>13, <2>2
  <2>4. buffer'.chunks = buffer.chunks
    BY <1>4, <1>11, <1>12, <1>13, Zenon
  <2>5. Waiting' = Waiting /\ SameAnswers
    BY <1>5, <1>8 DEF SameAnswers
  <2>6. UNCHANGED <<attached, parser, captures, screen, snapshot, committed, gone>>
    BY <1>5
  <2> QED
    BY <1>2, <1>5, <1>8, <1>13, <2>1, <2>3, <2>4, <2>5, <2>6, CapturesFlow
<1>14. CASE ~attached
  <2> DEFINE c == FlattenSeq(buffer.chunks)
  <2>1. buffer'.chunks = IF text = <<>> THEN buffer.chunks ELSE Append(buffer.chunks, text)
    BY <1>11, <1>12, <1>14, Zenon
  <2>2. c \in Text /\ snapshot \in Text /\ \A r \in DOMAIN marks : marks[r] \in Nat
    BY SurfaceTexts
  <2>3. c \o <<>> = c
    BY <2>2, TextEmpty
  <2>4. StreamOK(snapshot, c, units, gone, {}) /\ MarksOK(marks, c, units)
    BY <1>8, <1>14, <2>3 DEF FlowInv, SurfaceInv
  <2>5. /\ StreamOK(snapshot, FlattenSeq(buffer'.chunks) \o Waiting', units', gone', {})
        /\ MarksOK(marks, FlattenSeq(buffer'.chunks) \o Waiting', units')
        /\ ~EmptyTexts => Full(buffer'.chunks)
    <3>1. CASE text = <<>>
      <4>1. buffer'.chunks = buffer.chunks /\ units' = units
        BY <1>7, <2>1, <3>1
      <4> QED
        BY <1>5, <1>8, <2>3, <2>4, <4>1 DEF FlowInv
    <3>2. CASE text # <<>>
      <4>1. text = <<units + 1>> /\ units + 1 \in Unit /\ units' = units + 1
        BY <1>6, <1>7, <3>2
      <4>2. buffer'.chunks = Append(buffer.chunks, text)
        BY <2>1, <3>2
      <4>3. FlattenSeq(Append(buffer.chunks, text)) = c \o text
        <5>1. buffer.chunks \in Seq(Seq(Unit)) /\ text \in Seq(Unit)
          BY <1>4, Zenon DEF Text
        <5> QED
          BY <5>1, FlattenAppend
      <4> HIDE DEF c
      <4>4. /\ StreamOK(snapshot, c \o <<units + 1>>, units + 1, gone, {})
            /\ Range(c \o <<units + 1>>) = Range(c) \cup {units + 1}
            /\ c \o <<units + 1>> \in Text
        BY <1>1, <2>2, <2>4, <4>1, StreamGrows
      <4>5. MarksOK(marks, c \o <<units + 1>>, units + 1)
        BY <1>1, <2>2, <2>4, <4>4, MarksGrow
      <4>6. (c \o text) \o <<>> = c \o text
        <5>1. c \o text \in Text
          BY <4>1, <4>4
        <5> QED
          BY <5>1, TextEmpty
      <4>7. FlattenSeq(buffer'.chunks) \o Waiting' = c \o text
        BY <1>8, <4>2, <4>3, <4>6, Zenon
      <4>8. ~EmptyTexts => Full(Append(buffer.chunks, text))
        <5>1. ~EmptyTexts => Full(buffer.chunks)
          BY DEF FlowInv
        <5> QED
          BY <1>4, <3>2, <5>1, FullAppend
      <4>9. ~EmptyTexts => Full(buffer'.chunks)
        BY <4>2, <4>8, Zenon
      <4>10. StreamOK(snapshot, c \o text, units', gone', {}) /\ MarksOK(marks, c \o text, units')
        BY <1>5, <4>1, <4>4, <4>5
      <4> QED
        BY <4>7, <4>9, <4>10, Zenon
    <3> QED
      BY <3>1, <3>2
  <2>6. /\ ~attached' /\ gone \subseteq gone'
        /\ UNCHANGED <<bridge, snapshot, committed, marks, toNative, captures, screen>>
    BY <1>5, <1>14
  <2> QED
    BY <1>1, <1>14, <2>5, <2>6, FlowBuffer
<1> QED
  BY <1>13, <1>14

-----------------------------------------------------------------------------
(* The flow: the messages of the page.                                     *)

\* The bridge changes, and nothing else does that the invariant speaks of.
LEMMA BridgeFlow ==
  ASSUME TypeInv, FlowInv, attached,
         PageInv(bridge', toNative', parser, screen, Waiting, units, gone, marks),
         bridge'.dropped = bridge.dropped, SameAnswers, buffer'.chunks = buffer.chunks,
         Waiting' = Waiting, units' = units,
         UNCHANGED <<attached, parser, captures, screen, snapshot, committed, marks, gone>>
  PROVE  FlowInv'
<1>1. SurfaceTypes /\ Given' = Given /\ units \in Nat
  BY DEF TypeInv, SurfaceTypes, LoopTypes, Given
<1>2. PageInv(bridge', toNative', parser', screen', Waiting', units', gone', marks')
  OBVIOUS
<1>3. AnswersOK'
  BY <1>1, AnswersStay DEF FlowInv
<1>4. Onward(Waiting, units, Given, Waiting', units', Given')
  BY <1>1 DEF Onward
<1> QED
  BY <1>2, <1>3, <1>4, FlowPage

LEMMA OnReadyFlow ==
  ASSUME TypeInv, FlowInv, attached, NEW b, b.dropped = bridge.dropped, OnBridgeReady(b),
         PageInv(b, toNative', parser, screen, Waiting, units, gone, marks),
         SameAnswers, buffer'.chunks = buffer.chunks, Waiting' = Waiting,
         UNCHANGED <<attached, parser, captures, screen, snapshot, committed, gone>>
  PROVE  FlowInv'
<1>1. PICK text : text = IF connected = "no" /\ ~recovered THEN OwnText ELSE <<>>
  OBVIOUS
<1>2. units' = units + Len(text) /\ CaptureSnapshot(WriteOwn(b, text), Reached + Len(text))
  BY <1>1 DEF OnBridgeReady
<1>3. text = <<>> \/ (Waiting = <<>> /\ text = OwnText)
  BY <1>1, NoneWaiting
<1> QED
  BY <1>2, <1>3, CapturesFlow

LEMMA SnapshotFlow ==
  ASSUME TypeInv, FlowInv, attached, toNative # <<>>, toNative' = Tail(toNative),
         Head(toNative).kind = "snapshot", HandleSnapshot(Head(toNative)), Waiting' = Waiting,
         buffer'.chunks = buffer.chunks, SameAnswers,
         UNCHANGED <<units, bridge, requests, marks, attached, parser, captures, screen, gone>>
  PROVE  FlowInv'
<1> DEFINE m == Head(toNative)
<1>1. SurfaceTypes /\ requests \in Nat /\ toNative \in Seq(NativeMessages(requests))
  BY DEF TypeInv, SurfaceTypes
<1>2. PageInv(bridge, Tail(toNative), parser, screen, Waiting, units, gone, marks)
  <2>1. PageInv(bridge, toNative, parser, screen, Waiting, units, gone, marks)
    BY DEF FlowInv, SurfaceInv
  <2> QED
    BY <2>1, TailPage
<1>3. SurfaceInv'
  BY <1>2 DEF SurfaceInv
<1>4. m = toNative[1] /\ 1 \in DOMAIN toNative /\ m \in NativeMessages(requests)
  <2>1. Len(toNative) \in Nat /\ Len(toNative) # 0 /\ DOMAIN toNative = 1..Len(toNative)
    BY <1>1, LenProperties, EmptySeq
  <2>2. 1 \in DOMAIN toNative
    BY <2>1
  <2> QED
    BY <1>1, <2>2, HeadTailProperties
<1>5. /\ Increasing(m.units) /\ Range(m.units) \subseteq Range(screen)
      /\ Holds(m.units, marks[m.sequence], Given) /\ m.sequence \in 1..requests
  BY <1>4, SnapshotSequence, <1>1 DEF FlowInv, AnswersOK
<1>6. Given' = Given
  BY DEF Given
<1>7. CASE snapshot' = snapshot /\ committed' = committed
  <2>1. AnswersOK'
    BY <1>1, <1>6, <1>7, AnswersStay DEF FlowInv
  <2>2. SnapshotKept'
    BY <1>7 DEF FlowInv, SnapshotKept
  <2> QED
    BY <1>3, <2>1, <2>2 DEF FlowInv
<1>8. CASE snapshot' = m.units /\ committed' = m.sequence
  <2>1. \A i \in DOMAIN captures' : Holds(screen', marks'[captures'[i]], Given')
    BY <1>6 DEF FlowInv, AnswersOK
  <2>2. ASSUME NEW i \in DOMAIN toNative', toNative'[i].kind = "snapshot"
        PROVE  /\ Increasing(toNative'[i].units) /\ Range(toNative'[i].units) \subseteq Range(screen')
               /\ Holds(toNative'[i].units, marks'[toNative'[i].sequence], Given')
    <3>1. PICK j \in DOMAIN toNative : toNative[j] = toNative'[i]
      BY <2>2 DEF SameAnswers
    <3>2. /\ Increasing(toNative[j].units) /\ Range(toNative[j].units) \subseteq Range(screen)
          /\ Holds(toNative[j].units, marks[toNative[j].sequence], Given)
      BY <2>2, <3>1 DEF FlowInv, AnswersOK
    <3> QED
      BY <1>6, <3>1, <3>2
  <2>3. committed' # 0 => Holds(snapshot', marks'[committed'], Given')
    BY <1>5, <1>6, <1>8
  <2>4. AnswersOK'
    BY <2>1, <2>2, <2>3 DEF AnswersOK
  <2>5. SnapshotKept'
    <3>1. /\ screen \in Text /\ UnitsOf(parser) \in Text /\ Line(bridge) \in Text
          /\ screen \o UnitsOf(parser) \in Text
      BY <1>1, <1>2, PageTypes, LineType DEF SurfaceTypes
    <3>2. Range(screen) \subseteq Range((screen \o UnitsOf(parser)) \o Line(bridge))
      <4>1. Range(screen \o UnitsOf(parser)) = Range(screen) \cup Range(UnitsOf(parser))
        BY <3>1, RangeConcat
      <4>2. PICK X \in Text : X = screen \o UnitsOf(parser)
        BY <3>1, Zenon
      <4>3. Range(X \o Line(bridge)) = Range(X) \cup Range(Line(bridge))
        BY <3>1, RangeConcat
      <4>4. Range(screen) \subseteq Range(X \o Line(bridge))
        BY <4>1, <4>2, <4>3
      <4> QED
        BY <4>2, <4>4, Zenon
    <3>3. Increasing(snapshot') /\ Range(snapshot') \subseteq Range(screen)
      BY <1>5, <1>8
    <3> QED
      BY <3>2, <3>3 DEF SnapshotKept
  <2> QED
    BY <1>3, <2>4, <2>5 DEF FlowInv
<1> QED
  BY <1>7, <1>8 DEF HandleSnapshot

LEMMA RawFlow ==
  ASSUME TypeInv, FlowInv, HandleRawMessage
  PROVE  FlowInv'
<1> DEFINE m == Head(toNative)
<1>1. LoopTypes /\ SurfaceTypes /\ TypeInv'
  BY RawTypes DEF TypeInv
<1>2. /\ toNative # <<>> /\ toNative' = Tail(toNative)
      /\ buffer' = Follow(buffer, bridge')
      /\ UNCHANGED <<output, transport>>
      /\ UNCHANGED <<attached, parser, captures, screen, gone>>
  BY DEF HandleRawMessage, loop
<1>3. \/ m.kind = "ready" /\ HandleReady /\ UNCHANGED <<snapshot, committed>>
      \/ /\ m.kind = "ack" /\ bridge' = Acknowledge(bridge, m.sequence, Len(m.units))
         /\ UNCHANGED <<units, snapshots>>
      \/ m.kind = "restored" /\ HandleRestoreComplete /\ UNCHANGED <<snapshot, committed>>
      \/ /\ m.kind = "snapshot" /\ HandleSnapshot(m)
         /\ UNCHANGED <<units, bridge, requests, marks>>
  BY DEF HandleRawMessage
<1>4. /\ attached /\ requests \in Nat /\ BridgeOK(bridge, requests) /\ buffer \in Buffers
      /\ toNative \in Seq(NativeMessages(requests)) /\ Len(marks) = requests
  BY <1>1, <1>2 DEF SurfaceTypes, PageGone
<1>5. m \in NativeMessages(requests)
  BY <1>2, <1>4, HeadTailProperties
<1>6. Len(m.units) \in Nat
  BY <1>5, LenProperties DEF NativeMessages, Messages, Text
<1> HIDE DEF m
<1>7. buffer'.chunks = buffer.chunks
  <2>1. bridge'.backpressured \in BOOLEAN
    BY <1>1, BackpressuredType DEF TypeInv, SurfaceTypes
  <2>2. PICK b : b = bridge'
    OBVIOUS
  <2>3. Follow(buffer, b).chunks = buffer.chunks
    BY <1>4, <2>1, <2>2, FollowIs
  <2> QED
    BY <1>2, <2>2, <2>3, Zenon
<1>8. Waiting' = Waiting
  BY <1>2 DEF Waiting
<1>9. SameAnswers
  <2> SUFFICES ASSUME NEW i \in DOMAIN toNative'
               PROVE  \E j \in DOMAIN toNative : toNative[j] = toNative'[i]
    BY DEF SameAnswers
  <2>1. i + 1 \in DOMAIN toNative /\ toNative'[i] = toNative[i + 1]
    BY <1>2, <1>4, TailMember
  <2> QED
    BY <2>1
<1>10. PageInv(bridge, toNative, parser, screen, Waiting, units, gone, marks)
  BY <1>4 DEF FlowInv, SurfaceInv
<1>11. UNCHANGED <<attached, parser, captures, screen, gone>>
  BY <1>2
<1>12. CASE m.kind = "ready" /\ HandleReady /\ UNCHANGED <<snapshot, committed>>
  <2>1. PICK b : b = PageReady(bridge)
    OBVIOUS
  <2>2. PageInv(bridge, toNative', parser, screen, Waiting, units, gone, marks)
    BY <1>2, <1>10, <1>12, TailPage DEF m
  <2>3. PageInv(b, toNative', parser, screen, Waiting, units, gone, marks)
    BY <2>1, <2>2, ReadyPage
  <2>4. b.dropped = bridge.dropped
    BY <1>4, <2>1, ReadyDropped
  <2>5. CASE OnBridgeReady(b)
    BY <1>4, <1>7, <1>8, <1>9, <1>11, <1>12, <2>3, <2>4, <2>5, OnReadyFlow
  <2>6. CASE NotYetReady(b)
    <3>1. bridge' = b /\ units' = units /\ marks' = marks
      BY <2>6 DEF NotYetReady
    <3> QED
      BY <1>4, <1>7, <1>8, <1>9, <1>11, <1>12, <2>3, <2>4, <3>1, BridgeFlow
  <2> QED
    BY <1>12, <2>1, <2>5, <2>6 DEF HandleReady
<1>13. CASE /\ m.kind = "ack" /\ bridge' = Acknowledge(bridge, m.sequence, Len(m.units))
            /\ UNCHANGED <<units, snapshots>>
  <2>1. PICK bytes \in Nat : bytes = Len(m.units)
    BY <1>6
  <2>2. PageInv(Acknowledge(bridge, m.sequence, bytes), toNative', parser, screen, Waiting, units,
                gone, marks)
    BY <1>2, <1>10, <1>13, AcknowledgePage DEF m
  <2>3. Acknowledge(bridge, m.sequence, bytes).dropped = bridge.dropped
    BY <1>4, AcknowledgeDropped
  <2>4. PageInv(bridge', toNative', parser, screen, Waiting, units, gone, marks)
        /\ bridge'.dropped = bridge.dropped
    BY <1>13, <2>1, <2>2, <2>3
  <2>5. UNCHANGED <<units, snapshot, committed, marks>>
    BY <1>13 DEF snapshots
  <2> QED
    BY <1>4, <1>7, <1>8, <1>9, <1>11, <2>4, <2>5, BridgeFlow
<1>14. CASE m.kind = "restored" /\ HandleRestoreComplete /\ UNCHANGED <<snapshot, committed>>
  <2>1. PICK b : b = RestoreComplete(bridge)
    OBVIOUS
  <2>2. /\ bridge.awaitingRestore
        /\ PageInv(RestoreComplete(bridge), Tail(toNative), parser, screen, Waiting, units, gone,
                   marks)
    BY <1>2, <1>10, <1>14, RestoredPage DEF m
  <2>3. PageInv(b, toNative', parser, screen, Waiting, units, gone, marks)
    BY <1>2, <2>1, <2>2
  <2>4. b.dropped = bridge.dropped
    BY <1>4, <2>1, RestoreDropped
  <2>5. OnBridgeReady(b)
    BY <1>14, <2>1, <2>2 DEF HandleRestoreComplete
  <2> QED
    BY <1>4, <1>7, <1>8, <1>9, <1>11, <1>14, <2>3, <2>4, <2>5, OnReadyFlow
<1>15. CASE /\ m.kind = "snapshot" /\ HandleSnapshot(m)
            /\ UNCHANGED <<units, bridge, requests, marks>>
  BY <1>2, <1>4, <1>7, <1>8, <1>9, <1>11, <1>15, SnapshotFlow DEF m
<1> QED
  BY <1>3, <1>12, <1>13, <1>14, <1>15

\* How the page's parser takes a message.
LEMMA MessageTaken ==
  ASSUME NEW n, NEW pa, NEW p2, NEW m, NEW ca, pa \in Seq(ParserMessages), m \in PageMessages(n),
         \/ m.kind \in {"data", "restore"} /\ p2 = IF m.units = <<>> THEN pa ELSE Append(pa, m)
         \/ m.kind = "snapshot" /\ p2 = IF ca = <<>> THEN Append(pa, CaptureMark) ELSE pa
  PROVE  Takes(pa, p2, m)
<1>1. /\ pa \in Seq(Messages) /\ m \in Messages
      /\ m.kind = "restore" => m.units # <<>>
      /\ m.kind = "snapshot" => m.units = <<>>
  BY MessageSets, MessageSequences DEF PageMessages
<1>2. /\ CaptureMark \in ParserMessages /\ CaptureMark \in Messages
      /\ CaptureMark.kind = "capture" /\ CaptureMark.units = <<>>
  BY DEF CaptureMark, ParserMessages, Messages, Kinds, Text
<1>3. /\ UnitsOf(pa) \in Text /\ SequencesOf(pa, "restore") \in Seq(Nat)
      /\ SequencesOf(pa, "data") \in Seq(Nat)
  BY <1>1, UnitsType, NumbersType
<1>4. /\ UnitsOf(pa) \o <<>> = UnitsOf(pa)
      /\ SequencesOf(pa, "restore") \o <<>> = SequencesOf(pa, "restore")
      /\ SequencesOf(pa, "data") \o <<>> = SequencesOf(pa, "data")
  BY <1>3, EmptySeq DEF Text
<1>5. /\ m.kind # "data" => NumberOf(m, "data") = <<>>
      /\ m.kind # "restore" => NumberOf(m, "restore") = <<>>
      /\ NumberOf(CaptureMark, "data") = <<>> /\ NumberOf(CaptureMark, "restore") = <<>>
  BY <1>2 DEF NumberOf
<1>6. CASE m.kind = "data" /\ m.units = <<>> /\ p2 = pa
  BY <1>4, <1>5, <1>6, Zenon DEF Takes
<1>7. CASE m.kind \in {"data", "restore"} /\ m.units # <<>> /\ p2 = Append(pa, m)
  <2>1. m \in ParserMessages
    BY <1>7 DEF PageMessages, ParserMessages
  <2>2. Append(pa, m) \in Seq(ParserMessages)
    BY <2>1, AppendProperties
  <2>3. /\ UnitsOf(Append(pa, m)) = UnitsOf(pa) \o m.units
        /\ SequencesOf(Append(pa, m), "restore") = SequencesOf(pa, "restore") \o NumberOf(m, "restore")
        /\ SequencesOf(Append(pa, m), "data") = SequencesOf(pa, "data") \o NumberOf(m, "data")
    BY <1>1, UnitsAppend, NumbersAppend
  <2> QED
    BY <1>7, <2>2, <2>3, Zenon DEF Takes
<1>8. CASE m.kind = "snapshot" /\ p2 = pa
  BY <1>1, <1>4, <1>5, <1>8, Zenon DEF Takes
<1>9. CASE m.kind = "snapshot" /\ p2 = Append(pa, CaptureMark)
  <2>1. Append(pa, CaptureMark) \in Seq(ParserMessages)
    BY <1>2, AppendProperties
  <2>2. PICK c \in Messages : c = CaptureMark
    BY <1>2
  <2>3. /\ UnitsOf(Append(pa, c)) = UnitsOf(pa) \o c.units
        /\ SequencesOf(Append(pa, c), "restore") = SequencesOf(pa, "restore") \o NumberOf(c, "restore")
        /\ SequencesOf(Append(pa, c), "data") = SequencesOf(pa, "data") \o NumberOf(c, "data")
    BY <1>1, UnitsAppend, NumbersAppend
  <2>4. /\ NumberOf(m, "data") = <<>> /\ NumberOf(m, "restore") = <<>> /\ m.units = <<>>
    BY <1>1, <1>5, <1>9
  <2>5. p2 = Append(pa, c) /\ p2 \in Seq(ParserMessages) /\ c.units = <<>>
        /\ NumberOf(c, "data") = <<>> /\ NumberOf(c, "restore") = <<>>
    BY <1>2, <1>5, <1>9, <2>1, <2>2, Zenon
  <2> QED
    BY <2>3, <2>4, <2>5, Zenon DEF Takes
<1> QED
  BY <1>1, <1>6, <1>7, <1>8, <1>9

LEMMA ReceiveFlow ==
  ASSUME TypeInv, FlowInv, ReceiveMessage
  PROVE  FlowInv'
<1> DEFINE m == Head(bridge.toPage)
<1>1. LoopTypes /\ SurfaceTypes /\ units \in Nat
  BY DEF TypeInv, LoopTypes
<1>2. /\ bridge.toPage # <<>> /\ bridge' = Received(bridge)
      /\ UNCHANGED <<units, output, transport, attached, buffer, snapshot, committed, requests,
                     marks, toNative, screen, gone>>
  BY DEF ReceiveMessage, Received, loop, snapshots
<1>3. \/ /\ m.kind \in {"data", "restore"}
         /\ parser' = IF m.units = <<>> THEN parser ELSE Append(parser, m)
         /\ UNCHANGED captures
      \/ /\ m.kind = "snapshot"
         /\ captures' = Append(captures, m.sequence)
         /\ parser' = IF captures = <<>> THEN Append(parser, CaptureMark) ELSE parser
  BY DEF ReceiveMessage
<1>4. /\ requests \in Nat /\ BridgeOK(bridge, requests)
      /\ parser \in Seq(ParserMessages) /\ captures \in Seq(1..requests) /\ attached
  BY <1>1, <1>2 DEF SurfaceTypes, PageGone, NewBridge
<1>5. m \in PageMessages(requests) /\ m = bridge.toPage[1] /\ 1 \in DOMAIN bridge.toPage
  <2>1. bridge.toPage \in Seq(PageMessages(requests))
    BY <1>4 DEF BridgeOK, Bridges
  <2>2. Len(bridge.toPage) \in Nat /\ Len(bridge.toPage) # 0
        /\ DOMAIN bridge.toPage = 1..Len(bridge.toPage)
    BY <1>2, <2>1, LenProperties, EmptySeq
  <2>3. 1 \in DOMAIN bridge.toPage
    BY <2>2
  <2> QED
    BY <1>2, <2>1, <2>3, HeadTailProperties
<1>6. PageInv(bridge, toNative, parser, screen, Waiting, units, gone, marks)
  BY <1>4 DEF FlowInv, SurfaceInv
<1> HIDE DEF m
<1>7. Takes(parser, parser', m)
  BY <1>3, <1>4, <1>5, MessageTaken
<1>8. PageInv(Received(bridge), toNative, parser', screen, Waiting, units, gone, marks)
  BY <1>2, <1>6, <1>7, TakesPage DEF m
<1>9. bridge'.dropped = bridge.dropped
  BY <1>2, <1>4, ReceivedOK
<1>10. Given' = Given /\ Waiting' = Waiting /\ SameAnswers
  BY <1>2, <1>9 DEF Given, Waiting, SameAnswers
<1>11. PageInv(bridge', toNative', parser', screen', Waiting', units', gone', marks')
  BY <1>2, <1>8, <1>10
<1>12. Onward(Waiting, units, Given, Waiting', units', Given')
  BY <1>1, <1>2, <1>10 DEF Onward
<1>13. AnswersOK'
  <2>1. CASE UNCHANGED captures
    BY <1>1, <1>2, <1>10, <2>1, AnswersStay DEF FlowInv
  <2>2. CASE m.kind = "snapshot" /\ captures' = Append(captures, m.sequence)
    <3>1. Holds(screen, marks[m.sequence], Given) /\ m.sequence \in 1..requests
      BY <1>5, <1>6, <2>2 DEF PageInv, AskedOK, Given, PageMessages
    <3>2. ASSUME NEW i \in DOMAIN captures'
          PROVE  Holds(screen', marks'[captures'[i]], Given')
      <4>1. \/ i \in DOMAIN captures /\ Append(captures, m.sequence)[i] = captures[i]
            \/ Append(captures, m.sequence)[i] = m.sequence
        BY <1>4, <2>2, <3>1, <3>2, AppendMember
      <4> QED
        BY <1>2, <1>10, <2>2, <3>1, <4>1 DEF FlowInv, AnswersOK
    <3> QED
      BY <1>2, <1>10, <3>2 DEF FlowInv, AnswersOK
  <2> QED
    BY <1>3, <2>1, <2>2
<1>14. attached' /\ snapshot' = snapshot /\ buffer'.chunks = buffer.chunks
  BY <1>2, <1>4
<1> QED
  BY <1>4, <1>11, <1>12, <1>13, <1>14, FlowPage

\* What the page answers to what it has parsed.
LEMMA MessageAnswered ==
  ASSUME TypeInv, NEW m, m \in ParserMessages,
         \/ /\ m.kind = "data"
            /\ toNative' = Append(toNative, [kind |-> "ack", sequence |-> m.sequence,
                                             units |-> m.units])
         \/ /\ m.kind = "restore"
            /\ toNative' = Append(toNative, [kind |-> "restored", sequence |-> 0, units |-> <<>>])
         \/ m.kind = "capture" /\ (toNative' = toNative \/ toNative' = toNative \o Replies)
  PROVE  /\ Answers(toNative, toNative', m)
         /\ \A i \in DOMAIN toNative' : toNative'[i].kind = "snapshot" =>
              \/ \E j \in DOMAIN toNative : toNative[j] = toNative'[i]
              \/ \E j \in DOMAIN captures :
                   /\ toNative'[i].units = screen /\ toNative'[i].sequence = captures[j]
<1>1. /\ SurfaceTypes /\ toNative \in Seq(Messages) /\ requests \in Nat
      /\ captures \in Seq(1..requests) /\ screen \in Text
  BY MessageSequences DEF TypeInv, SurfaceTypes
<1>2. /\ m \in Messages /\ m.units \in Text /\ m.sequence \in Nat
      /\ m.kind = "restore" => m.sequence = 0
  BY DEF ParserMessages, Messages
<1>3. SequencesOf(toNative, "ack") \in Seq(Nat) /\ SequencesOf(toNative, "restored") \in Seq(Nat)
  BY <1>1, NumbersType
<1>4. ASSUME NEW e \in Messages, toNative' = Append(toNative, e), e.kind # "snapshot",
             NumberOf(e, "ack") = NumberOf(m, "data"),
             NumberOf(e, "restored") = NumberOf(m, "restore")
      PROVE  /\ Answers(toNative, toNative', m)
             /\ \A i \in DOMAIN toNative' : toNative'[i].kind = "snapshot" =>
                  \E j \in DOMAIN toNative : toNative[j] = toNative'[i]
  <2>1. /\ Append(toNative, e) \in Seq(Messages)
        /\ SequencesOf(Append(toNative, e), "ack") = SequencesOf(toNative, "ack") \o NumberOf(e, "ack")
        /\ SequencesOf(Append(toNative, e), "restored")
             = SequencesOf(toNative, "restored") \o NumberOf(e, "restored")
    BY <1>1, NumbersAppend, AppendProperties
  <2>2. Answers(toNative, toNative', m)
    BY <1>4, <2>1, Zenon DEF Answers
  <2>3. ASSUME NEW i \in DOMAIN toNative', toNative'[i].kind = "snapshot"
        PROVE  \E j \in DOMAIN toNative : toNative[j] = toNative'[i]
    <3>1. \/ i \in DOMAIN toNative /\ Append(toNative, e)[i] = toNative[i]
          \/ Append(toNative, e)[i] = e
      BY <1>1, <1>4, <2>3, AppendMember
    <3> QED
      BY <1>4, <2>3, <3>1, Zenon
  <2> QED
    BY <2>2, <2>3
<1>5. CASE m.kind = "data"
  <2>1. PICK e : e = [kind |-> "ack", sequence |-> m.sequence, units |-> m.units]
    OBVIOUS
  <2>2. e \in Messages /\ e.kind # "snapshot"
    BY <1>2, <2>1 DEF Messages, Kinds
  <2>3. NumberOf(e, "ack") = NumberOf(m, "data") /\ NumberOf(e, "restored") = NumberOf(m, "restore")
    BY <1>5, <2>1 DEF NumberOf
  <2>4. toNative' = Append(toNative, e)
    BY <1>5, <2>1
  <2> QED
    BY <1>4, <2>2, <2>3, <2>4
<1>6. CASE m.kind = "restore"
  <2>1. PICK e : e = [kind |-> "restored", sequence |-> 0, units |-> <<>>]
    OBVIOUS
  <2>2. e \in Messages /\ e.kind # "snapshot"
    BY <2>1 DEF Messages, Kinds, Text
  <2>3. NumberOf(e, "ack") = NumberOf(m, "data") /\ NumberOf(e, "restored") = NumberOf(m, "restore")
    BY <1>2, <1>6, <2>1 DEF NumberOf
  <2>4. toNative' = Append(toNative, e)
    BY <1>6, <2>1
  <2> QED
    BY <1>4, <2>2, <2>3, <2>4
<1>7. CASE m.kind = "capture"
  <2>1. NumberOf(m, "data") = <<>> /\ NumberOf(m, "restore") = <<>>
    BY <1>7 DEF NumberOf
  <2>2. /\ SequencesOf(toNative, "ack") \o <<>> = SequencesOf(toNative, "ack")
        /\ SequencesOf(toNative, "restored") \o <<>> = SequencesOf(toNative, "restored")
    BY <1>3, EmptySeq
  <2>3. CASE toNative' = toNative
    <3>1. Answers(toNative, toNative', m)
      BY <1>1, <2>1, <2>2, <2>3, Zenon DEF Answers
    <3> QED
      BY <2>3, <3>1
  <2>4. CASE toNative' = toNative \o Replies
    <3>1. /\ Replies \in Seq(NativeMessages(requests)) /\ Len(Replies) = Len(captures)
          /\ DOMAIN Replies = DOMAIN captures
          /\ \A i \in DOMAIN captures :
               /\ Replies[i].kind = "snapshot" /\ Replies[i].units = screen
               /\ Replies[i].sequence = captures[i]
      BY <1>1, RepliesType
    <3>2. Replies \in Seq(Messages) /\ DOMAIN captures = 1..Len(captures)
      BY <1>1, <3>1, MessageSequences, LenProperties
    <3>3. \A i \in 1..Len(Replies) : Replies[i].kind # "ack" /\ Replies[i].kind # "restored"
      BY <3>1, <3>2
    <3>4. SequencesOf(Replies, "ack") = <<>> /\ SequencesOf(Replies, "restored") = <<>>
      BY <3>2, <3>3, NoNumbers
    <3>5. /\ toNative \o Replies \in Seq(Messages)
          /\ SequencesOf(toNative \o Replies, "ack")
               = SequencesOf(toNative, "ack") \o SequencesOf(Replies, "ack")
          /\ SequencesOf(toNative \o Replies, "restored")
               = SequencesOf(toNative, "restored") \o SequencesOf(Replies, "restored")
      BY <1>1, <3>2, NumbersConcat, ConcatProperties
    <3>6. Answers(toNative, toNative', m)
      BY <2>1, <2>4, <3>4, <3>5, Zenon DEF Answers
    <3>7. ASSUME NEW i \in DOMAIN toNative', toNative'[i].kind = "snapshot"
          PROVE  \/ \E j \in DOMAIN toNative : toNative[j] = toNative'[i]
                 \/ \E j \in DOMAIN captures :
                      /\ toNative'[i].units = screen /\ toNative'[i].sequence = captures[j]
      <4>1. \/ i \in DOMAIN toNative /\ (toNative \o Replies)[i] = toNative[i]
            \/ \E j \in DOMAIN Replies : (toNative \o Replies)[i] = Replies[j]
        BY <1>1, <2>4, <3>2, <3>7, ConcatMember
      <4>2. CASE i \in DOMAIN toNative /\ toNative'[i] = toNative[i]
        BY <4>2
      <4>3. ASSUME NEW j \in DOMAIN Replies, toNative'[i] = Replies[j]
            PROVE  /\ toNative'[i].units = screen /\ toNative'[i].sequence = captures[j]
                   /\ j \in DOMAIN captures
        BY <3>1, <4>3
      <4> QED
        BY <2>4, <4>1, <4>2, <4>3, Zenon
    <3> QED
      BY <3>6, <3>7
  <2> QED
    BY <1>7, <2>3, <2>4
<1> QED
  BY <1>4, <1>5, <1>6, <1>7

LEMMA ParseFlow ==
  ASSUME TypeInv, FlowInv, Parse
  PROVE  FlowInv'
<1> DEFINE m == Head(parser)
<1>1. LoopTypes /\ SurfaceTypes /\ units \in Nat
  BY DEF TypeInv, LoopTypes
<1>2. /\ parser # <<>> /\ parser' = Tail(parser)
      /\ UNCHANGED <<units, output, transport, attached, buffer, bridge, snapshot, committed,
                     requests, marks, gone>>
  BY DEF Parse, loop, flow, snapshots
<1>3. \/ /\ m.kind = "data" /\ screen' = screen \o m.units /\ UNCHANGED captures
         /\ toNative' = Append(toNative, [kind |-> "ack", sequence |-> m.sequence,
                                          units |-> m.units])
      \/ /\ m.kind = "restore" /\ screen' = screen \o m.units /\ UNCHANGED captures
         /\ toNative' = Append(toNative, [kind |-> "restored", sequence |-> 0, units |-> <<>>])
      \/ /\ m.kind = "capture" /\ captures' = <<>> /\ screen' = screen
         /\ toNative' = toNative \/ toNative' = toNative \o Replies
  BY DEF Parse, Send, Replies
<1>4. /\ requests \in Nat /\ parser \in Seq(ParserMessages) /\ screen \in Text /\ attached
  BY <1>1, <1>2 DEF SurfaceTypes, PageGone
<1>5. m \in ParserMessages
  BY <1>2, <1>4, HeadTailProperties
<1>6. m.units \in Text /\ (m.kind = "capture" => m.units = <<>>)
  BY <1>5 DEF ParserMessages, Messages
<1>7. PageInv(bridge, toNative, parser, screen, Waiting, units, gone, marks)
  BY <1>4 DEF FlowInv, SurfaceInv
<1> HIDE DEF m
<1>8. /\ Answers(toNative, toNative', m)
      /\ \A i \in DOMAIN toNative' : toNative'[i].kind = "snapshot" =>
           \/ \E j \in DOMAIN toNative : toNative[j] = toNative'[i]
           \/ \E j \in DOMAIN captures :
                /\ toNative'[i].units = screen /\ toNative'[i].sequence = captures[j]
  BY <1>3, <1>5, MessageAnswered
<1>9. screen' = screen \o m.units
  <2>1. screen \o <<>> = screen
    BY <1>4, TextEmpty
  <2> QED
    BY <1>3, <1>6, <2>1, Zenon
<1>10. PageInv(bridge, toNative', Tail(parser), screen \o m.units, Waiting, units, gone, marks)
  BY <1>2, <1>7, <1>8, ParsePage DEF m
<1>11. Given' = Given /\ Waiting' = Waiting
  BY <1>2 DEF Given, Waiting
<1>12. PageInv(bridge', toNative', parser', screen', Waiting', units', gone', marks')
  BY <1>2, <1>9, <1>10, <1>11
<1>13. Onward(Waiting, units, Given, Waiting', units', Given')
  BY <1>1, <1>2, <1>11 DEF Onward
<1>14. Range(screen) \subseteq Range(screen')
  <2>1. Range(screen \o m.units) = Range(screen) \cup Range(m.units)
    BY <1>4, <1>6, RangeConcat
  <2> QED
    BY <1>9, <2>1
<1>15. Increasing(screen)
  <2> DEFINE U == UnitsOf(parser)
             N == Line(bridge)
  <2>1. U \in Text /\ N \in Text /\ screen \o U \in Text /\ (screen \o U) \o N \in Text
    BY <1>1, <1>7, PageTypes, LineType DEF SurfaceTypes
  <2>2. StreamOK((screen \o U) \o N, Waiting, units, gone, bridge.dropped) /\ Waiting \in Text
    BY <1>7 DEF PageInv
  <2> HIDE DEF U, N
  <2>3. Increasing((screen \o U) \o N)
    BY <2>1, <2>2, StreamIs
  <2>4. Increasing(screen \o U)
    BY <2>1, <2>3, TextIncreasing
  <2> QED
    BY <1>4, <2>1, <2>4, TextIncreasing
<1>16. AnswersOK'
  <2>1. \A i \in DOMAIN captures' : Holds(screen', marks'[captures'[i]], Given')
    <3>1. CASE captures' = captures
      BY <1>2, <1>11, <1>14, <3>1, HoldsMore DEF FlowInv, AnswersOK
    <3>2. CASE captures' = <<>>
      BY <3>2
    <3> QED
      BY <1>3, <3>1, <3>2
  <2>2. ASSUME NEW i \in DOMAIN toNative', toNative'[i].kind = "snapshot"
        PROVE  /\ Increasing(toNative'[i].units) /\ Range(toNative'[i].units) \subseteq Range(screen')
               /\ Holds(toNative'[i].units, marks'[toNative'[i].sequence], Given')
    <3>1. ASSUME NEW j \in DOMAIN toNative, toNative[j] = toNative'[i]
          PROVE  /\ Increasing(toNative'[i].units) /\ Range(toNative'[i].units) \subseteq Range(screen)
                 /\ Holds(toNative'[i].units, marks[toNative'[i].sequence], Given)
      BY <2>2, <3>1, Zenon DEF FlowInv, AnswersOK
    <3>2. ASSUME NEW j \in DOMAIN captures, toNative'[i].units = screen,
                 toNative'[i].sequence = captures[j]
          PROVE  /\ Increasing(toNative'[i].units) /\ Range(toNative'[i].units) \subseteq Range(screen)
                 /\ Holds(toNative'[i].units, marks[toNative'[i].sequence], Given)
      BY <1>15, <3>2 DEF FlowInv, AnswersOK
    <3> QED
      BY <1>2, <1>8, <1>11, <1>14, <2>2, <3>1, <3>2
  <2>3. committed' # 0 => Holds(snapshot', marks'[committed'], Given')
    BY <1>2, <1>11 DEF FlowInv, AnswersOK
  <2> QED
    BY <2>1, <2>2, <2>3 DEF AnswersOK
<1>17. attached' /\ snapshot' = snapshot /\ buffer'.chunks = buffer.chunks
  BY <1>2, <1>4
<1> QED
  BY <1>4, <1>12, <1>13, <1>16, <1>17, FlowPage

-----------------------------------------------------------------------------
(* The flow: pages come and go, and the theorems.                         *)

\* A new page has nothing on it but what is to be restored.
LEMMA NewPage ==
  ASSUME NEW b, NEW na, NEW e, NEW text, NEW v, NEW u, NEW left, NEW ms, NEW n \in Nat,
         b = [NewBridge EXCEPT !.restore = text], text \in Text, v \in Text, u \in Nat,
         ms \in Seq(Nat), Len(ms) = n, na \in Seq(Messages), e = <<>>,
         SequencesOf(na, "ack") = <<>>, SequencesOf(na, "restored") = <<>>,
         StreamOK(text, v, u, left, {}), MarksOK(ms, v, u)
  PROVE  PageHas(Range(text), b, na, e, e, v, u, left, ms)
<1>1. /\ BridgeOK(b, n) /\ b.restore = text /\ b.pending = e /\ b.toPage = e /\ b.inFlight = e
      /\ b.dropped = {} /\ b.awaitingRestore = FALSE
  BY NewBridgeOK
<1>2. e \in Text /\ e \in Seq(ParserMessages) /\ e \in Seq(Nat) /\ e \o e = e /\ Len(e) = 0
  BY DEF Text
<1>3. UnitsOf(e) = e /\ FlattenSeq(e) = e /\ \A k : SequencesOf(e, k) = e
  BY UnitsEmpty, FlattenEmpty, NumbersEmpty
<1>4. Acks(na, e) = e /\ Restores(na, e) = e
  BY <1>2, <1>3, Zenon DEF Acks, Restores
<1>5. Line(b) = text
  <2>1. e \o text = text /\ text \o e = text
    BY TextEmpty
  <2> QED
    BY <1>1, <1>3, <2>1, Zenon DEF Line
<1>6. (e \o UnitsOf(e)) \o Line(b) = text
  <2>1. e \o text = text
    BY TextEmpty
  <2> QED
    BY <1>2, <1>3, <1>5, <2>1, Zenon
<1>7. DOMAIN e = {}
  OBVIOUS
<1>8. AcksOK(b, Acks(na, e))
  <2>1. Len(e) + Len(e) <= Len(e)
    BY <1>2
  <2>2. Full(e) /\ FullData(e)
    BY <1>7 DEF Full, FullData
  <2> HIDE DEF Acks
  <2>3. Len(Acks(na, e)) + Len(SequencesOf(b.toPage, "data")) <= Len(b.inFlight)
    BY <1>1, <1>3, <1>4, <2>1, Zenon
  <2>4. b.inFlight = Acks(na, e) \o SequencesOf(b.toPage, "data")
    BY <1>1, <1>2, <1>3, <1>4, Zenon
  <2> QED
    BY <1>1, <2>2, <2>3, <2>4, Zenon DEF AcksOK
<1>9. RestoresOK(b, Restores(na, e))
  BY <1>1, <1>2, <1>3, <1>4, Zenon DEF RestoresOK
<1>10. StreamOK((e \o UnitsOf(e)) \o Line(b), v, u, left, b.dropped)
  BY <1>1, <1>6
<1>11. AskedOK(b, e, left, ms)
  BY <1>1, <1>7 DEF AskedOK
<1>12. PageInv(b, na, e, e, v, u, left, ms)
  BY <1>1, <1>2, <1>8, <1>9, <1>10, <1>11 DEF PageInv
<1> QED
  BY <1>6, <1>12 DEF PageHas

LEMMA AttachFlow ==
  ASSUME TypeInv, FlowInv, Attach
  PROVE  FlowInv'
<1> DEFINE r == [NewBridge EXCEPT !.restore = snapshot]
           ready == [kind |-> "ready", sequence |-> 0, units |-> <<>>]
           na == <<ready>>
           c == FlattenSeq(buffer.chunks)
<1>1. LoopTypes /\ SurfaceTypes
  BY DEF TypeInv
<1>2. /\ ~attached /\ attached' = TRUE /\ bridge' = BridgeWriteAll(r, buffer.chunks)
      /\ toNative' = na /\ parser' = <<>> /\ captures' = <<>> /\ screen' = <<>>
      /\ UNCHANGED <<units, output, transport, snapshot, committed, requests, marks, gone>>
  BY DEF Attach, Become, loop, snapshots
<1>3. buffer'.chunks = <<>>
  BY DEF Attach, Become, NewBuffer
<1>4. /\ requests \in Nat /\ buffer.chunks \in Seq(Text) /\ snapshot \in Text /\ units \in Nat
      /\ marks \in Seq(Nat) /\ Len(marks) = requests
  BY <1>1 DEF SurfaceTypes, LoopTypes, Buffers
<1>5. /\ StreamOK(snapshot, c \o Waiting, units, gone, {}) /\ MarksOK(marks, c \o Waiting, units)
      /\ c \o Waiting \in Text /\ Waiting \in Text
  BY <1>2, SurfaceTexts DEF FlowInv, SurfaceInv
<1>6. na \in Seq(Messages) /\ SequencesOf(na, "ack") = <<>> /\ SequencesOf(na, "restored") = <<>>
  <2>1. na \in Seq(Messages)
    <3>1. ready \in Messages
      BY DEF Messages, Kinds, Text
    <3> HIDE DEF ready
    <3> QED
      BY <3>1
  <2>2. \A i \in 1..Len(na) : na[i].kind # "ack" /\ na[i].kind # "restored"
    OBVIOUS
  <2> HIDE DEF na
  <2> QED
    BY <2>1, <2>2, NoNumbers
<1>7. PICK e : e = <<>>
  OBVIOUS
<1> HIDE DEF r, na
<1>8. PageHas(Range(snapshot), r, na, e, e, c \o Waiting, units, gone, marks)
  BY <1>4, <1>5, <1>6, <1>7, NewPage DEF r
<1>9. ~EmptyTexts => Full(buffer.chunks)
  BY DEF FlowInv
<1>10. PageHas(Range(snapshot), BridgeWriteAll(r, buffer.chunks), na, e, e, Waiting, units, gone,
               marks)
  BY <1>4, <1>5, <1>8, <1>9, WriteAllHas DEF c
<1>11. Waiting' = Waiting /\ UnitsOf(e) = UnitsOf(parser')
  BY <1>2, <1>7 DEF Waiting
<1>12. PageHas(Range(snapshot'), bridge', toNative', parser', screen', Waiting', units', gone',
               marks')
  BY <1>2, <1>7, <1>10, <1>11, Zenon
<1>13. SurfaceInv'
  BY <1>2, <1>12 DEF SurfaceInv, PageHas
<1>14. SnapshotKept'
  BY <1>2, <1>12 DEF FlowInv, SnapshotKept, PageHas
<1>15. AnswersOK'
  <2>1. \A i \in DOMAIN captures' : Holds(screen', marks'[captures'[i]], Given')
    BY <1>2
  <2>2. \A i \in DOMAIN toNative' : toNative'[i].kind # "snapshot"
    BY <1>2 DEF na
  <2>3. Given \subseteq Given'
    BY <1>1, <1>2, GivenOf DEF Given
  <2>4. committed' # 0 => Holds(snapshot', marks'[committed'], Given')
    BY <1>2, <2>3, HoldsMore DEF FlowInv, AnswersOK
  <2> QED
    BY <2>1, <2>2, <2>4 DEF AnswersOK
<1>16. ~EmptyTexts => Full(buffer'.chunks)
  BY <1>3 DEF Full
<1> QED
  BY <1>13, <1>14, <1>15, <1>16 DEF FlowInv

\* What is in front, and what was dropped, had reached the surface.
LEMMA FrontReached ==
  ASSUME LoopTypes, NEW X, NEW left, NEW d, X \in Text, StreamOK(X, Waiting, units, left, d)
  PROVE  \A x \in Range(X) \cup d : x \in 1..Reached
<1>1. Waiting \in Text /\ Reached \in Nat /\ units \in Nat
  BY WaitingType, ReachedType DEF LoopTypes
<1>2. Reached = IF Waiting = <<>> THEN units ELSE Head(Waiting) - 1
  BY Zenon DEF Reached, Waiting
<1>3. /\ Before(Range(X), Range(Waiting)) /\ Before(d, Range(Waiting))
      /\ Range(X) \cup d \subseteq 1..units
  BY <1>1, StreamIs
<1>4. CASE Waiting = <<>>
  BY <1>2, <1>3, <1>4
<1>5. CASE Waiting # <<>>
  <2>1. Head(Waiting) \in Range(Waiting) /\ Head(Waiting) \in Unit
    <3>1. PICK w \in Seq(Unit) : w = Waiting
      BY <1>1 DEF Text
    <3>2. Head(w) = w[1] /\ Len(w) \in Nat /\ Len(w) # 0 /\ Head(w) \in Unit
      BY <1>5, <3>1, HeadTailProperties, LenProperties, EmptySeq
    <3>3. 1 \in 1..Len(w)
      BY <3>2
    <3>4. w[1] \in Range(w)
      BY <3>3, RangeMembers
    <3> QED
      BY <3>1, <3>2, <3>4, Zenon
  <2>2. PICK h \in Nat : h = Head(Waiting)
    BY <2>1 DEF Unit
  <2>3. \A x \in Range(X) \cup d : x < h
    BY <1>3, <2>1, <2>2 DEF Before
  <2>4. Reached = h - 1
    BY <1>2, <1>5, <2>2
  <2> QED
    BY <1>1, <1>3, <2>3, <2>4
<1> QED
  BY <1>4, <1>5

LEMMA DetachFlow ==
  ASSUME TypeInv, FlowInv, Detach
  PROVE  FlowInv'
<1> DEFINE F == (screen \o UnitsOf(parser)) \o Line(bridge)
<1>1. LoopTypes /\ SurfaceTypes
  BY DEF TypeInv
<1>2. /\ attached /\ attached' = FALSE /\ bridge' = NewBridge /\ buffer' = NewBuffer
      /\ gone' = gone \cup ((1..Reached) \ Range(snapshot))
      /\ toNative' = <<>> /\ captures' = <<>> /\ screen' = <<>>
      /\ UNCHANGED <<units, output, transport, snapshot, committed, requests, marks>>
  BY DEF Detach, loop, snapshots
<1>3. PageInv(bridge, toNative, parser, screen, Waiting, units, gone, marks)
  BY <1>2 DEF FlowInv, SurfaceInv
<1>4. F \in Text /\ Waiting \in Text /\ snapshot \in Text /\ units \in Nat
  BY <1>3, PageTypes, SurfaceTexts
<1>5. StreamOK(F, Waiting, units, gone, bridge.dropped) /\ MarksOK(marks, Waiting, units)
  BY <1>3 DEF PageInv
<1>6. Increasing(snapshot) /\ Range(snapshot) \subseteq Range(F)
  BY <1>2 DEF FlowInv, SnapshotKept
<1> HIDE DEF F
<1>7. /\ Increasing(Waiting) /\ Before(Range(F), Range(Waiting))
      /\ Range(F) \cup Range(Waiting) = (1..units) \ (gone \cup bridge.dropped)
      /\ gone \cup bridge.dropped \subseteq 1..units
  BY <1>4, <1>5, StreamIs
<1>8. Reached \in Nat /\ Reached <= units /\ \A x \in Range(Waiting) : Reached < x
  BY <1>1, <1>4, <1>5, ReachedOK
<1>9. \A x \in Range(F) \cup bridge.dropped : x \in 1..Reached
  BY <1>1, <1>4, <1>5, FrontReached
<1>10. 1..Reached \subseteq 1..units /\ \A x \in Range(Waiting) : x \notin 1..Reached
  BY <1>4, <1>7, <1>8
<1>11. Range(snapshot) \cup Range(Waiting) = (1..units) \ (gone' \cup {})
  <2>1. ASSUME NEW x \in Range(snapshot) \cup Range(Waiting)
        PROVE  x \in (1..units) \ gone'
    BY <1>2, <1>6, <1>7, <1>10
  <2>2. ASSUME NEW x \in (1..units) \ gone'
        PROVE  x \in Range(snapshot) \cup Range(Waiting)
    <3>1. x \notin gone /\ (x \in 1..Reached => x \in Range(snapshot))
      BY <1>2, <2>2
    <3>2. x \notin 1..Reached => x \in Range(Waiting)
      BY <1>7, <1>9, <2>2, <3>1
    <3> QED
      BY <3>1, <3>2
  <2> QED
    BY <2>1, <2>2
<1>12. /\ Before(Range(snapshot), Range(Waiting)) /\ gone' \cup {} \subseteq 1..units
       /\ Before({}, Range(Waiting))
  BY <1>2, <1>6, <1>7, <1>10 DEF Before
<1>13. StreamOK(snapshot, Waiting, units, gone', {})
  BY <1>4, <1>6, <1>7, <1>11, <1>12, StreamIs
<1>14. buffer'.chunks = <<>> /\ Waiting' = Waiting /\ FlattenSeq(<<>>) \o Waiting = Waiting
  <2>1. <<>> \o Waiting = Waiting
    BY <1>4, TextEmpty
  <2>2. FlattenSeq(<<>>) \o Waiting = Waiting
    BY <2>1, FlattenEmpty, Zenon
  <2> QED
    BY <1>2, <2>2 DEF NewBuffer, Waiting
<1>15. SurfaceInv'
  <2>1. /\ StreamOK(snapshot', FlattenSeq(buffer'.chunks) \o Waiting', units', gone', {})
        /\ MarksOK(marks', FlattenSeq(buffer'.chunks) \o Waiting', units')
    BY <1>2, <1>5, <1>13, <1>14
  <2> QED
    BY <1>2, <2>1 DEF SurfaceInv
<1>16. AnswersOK'
  <2>1. Given \subseteq Given'
    <3>1. \A x \in bridge.dropped : x \in 1..Reached /\ x \notin Range(snapshot)
      BY <1>6, <1>7, <1>9
    <3> QED
      BY <1>2, <3>1 DEF Given
  <2>2. committed' # 0 => Holds(snapshot', marks'[committed'], Given')
    BY <1>2, <2>1, HoldsMore DEF FlowInv, AnswersOK
  <2> QED
    BY <1>2, <2>2 DEF AnswersOK
<1>17. SnapshotKept'
  BY <1>2, <1>6 DEF SnapshotKept
<1>18. ~EmptyTexts => Full(buffer'.chunks)
  BY <1>14 DEF Full
<1> QED
  BY <1>15, <1>16, <1>17, <1>18 DEF FlowInv

LEMMA FlowInit ==
  ASSUME Init
  PROVE  FlowInv
<1>1. /\ units = 0 /\ transport = <<>> /\ output = <<>> /\ attached = FALSE /\ gone = {}
      /\ snapshot = <<>> /\ committed = 0 /\ marks = <<>> /\ toNative = <<>> /\ captures = <<>>
      /\ buffer.chunks = <<>>
  BY DEF Init, NewBuffer
<1>2. FlattenSeq(buffer.chunks) \o Waiting = <<>>
  <2>1. PICK e : e = <<>>
    OBVIOUS
  <2>2. e \o e = e /\ FlattenSeq(e) = e
    BY <2>1, FlattenEmpty
  <2> QED
    BY <1>1, <2>1, <2>2, Zenon DEF Waiting
<1>3. PICK e \in Text : e = <<>>
  <2>1. <<>> \in Text
    BY DEF Text
  <2> QED
    BY <2>1, Zenon
<1>4. Increasing(e) /\ Range(e) = {}
  BY <1>3, RangeEmpty DEF Increasing
<1>5. StreamOK(e, e, 0, {}, {})
  <2>1. /\ Before(Range(e), Range(e)) /\ Before({}, Range(e)) /\ {} \cup {} \subseteq 1..0
        /\ Range(e) \cup Range(e) = (1..0) \ ({} \cup {})
    BY <1>4 DEF Before
  <2> QED
    BY <1>4, <2>1, StreamIs
<1>6. MarksOK(e, e, 0)
  BY <1>3 DEF MarksOK
<1>7. SurfaceInv
  BY <1>1, <1>2, <1>3, <1>5, <1>6 DEF SurfaceInv
<1>8. AnswersOK
  BY <1>1 DEF AnswersOK
<1>9. SnapshotKept
  BY <1>1, <1>3, <1>4 DEF SnapshotKept
<1>10. ~EmptyTexts => Full(buffer.chunks)
  BY <1>1 DEF Full
<1> QED
  BY <1>7, <1>8, <1>9, <1>10 DEF FlowInv

LEMMA FlowStep ==
  ASSUME TypeInv, FlowInv, [Next]_vars
  PROVE  FlowInv'
<1>1. CASE Next
  BY <1>1, ReadFlow, TickFlow, QuietFlow, FinalFlow, SendFlow, DataFlow, CloseFlow, RawFlow,
     ReceiveFlow, ParseFlow, AttachFlow, TerminalFlows, CaptureFlow, DetachFlow
     DEF Next, Loop, Events, Page, User
<1>2. CASE UNCHANGED vars
  <2>1. UNCHANGED <<units, attached, buffer, bridge, snapshots, page, gone, transport, output>>
    BY <1>2 DEF vars, loop, flow
  <2> QED
    BY <2>1, FlowStays DEF Waiting
<1> QED
  BY <1>1, <1>2

\* The invariant holds of every behaviour, for every limit.
THEOREM FlowAlways == Spec => []FlowInv
<1>1. Init => FlowInv
  BY FlowInit
<1>2. TypeInv /\ FlowInv /\ [Next]_vars => FlowInv'
  BY FlowStep
<1> QED
  BY <1>1, <1>2, TypesAlways, PTL DEF Spec

\* TerminalBridge's packets in flight are those that the page has still to acknowledge, in
\* their order.  An empty text would be a packet that the page does not take for one.
THEOREM AcknowledgementsMatch ==
  ASSUME ~EmptyTexts
  PROVE  Spec => []AcksMatch
<1>1. ASSUME TypeInv, FlowInv
      PROVE  AcksMatch
  <2>1. CASE attached
    <3>1. PageInv(bridge, toNative, parser, screen, Waiting, units, gone, marks)
      BY <1>1, <2>1 DEF FlowInv, SurfaceInv
    <3>2. bridge.inFlight = Acks(toNative, parser) \o SequencesOf(bridge.toPage, "data")
      BY <1>1, <3>1 DEF PageInv, AcksOK
    <3> QED
      BY <3>2, Zenon DEF Acks, AcksMatch
  <2>2. CASE ~attached
    <3>1. /\ bridge.inFlight = <<>> /\ bridge.toPage = <<>> /\ toNative = <<>> /\ parser = <<>>
      BY <1>1, <2>2 DEF TypeInv, SurfaceTypes, PageGone, NewBridge
    <3>2. PICK e : e = <<>>
      OBVIOUS
    <3>3. (e \o e) \o e = e /\ SequencesOf(e, "ack") = e /\ SequencesOf(e, "data") = e
      BY <3>2, NumbersEmpty
    <3> QED
      BY <3>1, <3>2, <3>3, Zenon DEF AcksMatch
  <2> QED
    BY <2>1, <2>2
<1> QED
  BY <1>1, TypesAlways, FlowAlways, PTL

\* A unit of output is on its way to the terminal once and in its order, unless the bridge or
\* the final delivery dropped it, or a detachment came before a snapshot held it.
THEOREM OutputIsKept == Spec => []NothingElseLost
<1>1. ASSUME TypeInv, FlowInv
      PROVE  NothingElseLost
  <2> DEFINE S == Stream
  <2>1. Increasing(S) /\ Range(S) = (1..units) \ (gone \cup bridge.dropped)
    <3>1. /\ FlattenSeq(transport) \in Text /\ output \in Text /\ Waiting \in Text
          /\ Waiting = FlattenSeq(transport) \o output
      BY <1>1, WaitingType DEF TypeInv, LoopTypes, Waiting
    <3>2. PICK t \in Text : t = FlattenSeq(transport)
      BY <3>1, Zenon
    <3>3. CASE attached
      <4>1. PageInv(bridge, toNative, parser, screen, Waiting, units, gone, marks)
        BY <1>1, <3>3 DEF FlowInv, SurfaceInv
      <4>2. StreamOK((screen \o UnitsOf(parser)) \o Line(bridge), Waiting, units, gone, bridge.dropped)
        BY <4>1 DEF PageInv
      <4> DEFINE X == screen \o UnitsOf(parser)
                 A == UnitsOf(bridge.toPage)
                 R == bridge.restore
                 P == FlattenSeq(bridge.pending)
      <4>3. /\ X \in Text /\ A \in Text /\ R \in Text /\ P \in Text
        <5>1. BridgeOK(bridge, requests) /\ requests \in Nat
          BY <1>1 DEF TypeInv, SurfaceTypes
        <5>2. X \in Text
          BY <4>1, PageTypes
        <5>3. /\ bridge.toPage \in Seq(PageMessages(requests)) /\ R \in Text
              /\ bridge.pending \in Seq(Seq(Unit))
          BY <5>1 DEF BridgeOK, Bridges, Text
        <5>4. A \in Text
          BY <5>3, MessageSequences, UnitsType
        <5>5. P \in Text
          BY <5>3, FlattenType DEF Text
        <5> QED
          BY <5>2, <5>3, <5>4, <5>5
      <4>4. Stream = ((((X \o A) \o R) \o P) \o t) \o output
        BY <3>2, <3>3, Zenon DEF Stream
      <4>5. Line(bridge) = (A \o R) \o P
        BY DEF Line
      <4> HIDE DEF X, A, R, P
      <4>6. Cat(Cat(Cat(Cat(Cat(X, A), R), P), t), output)
              = Cat(Cat(X, Cat(Cat(A, R), P)), Cat(t, output))
        BY <3>1, <4>3, CatText
      <4>7. Stream = (X \o Line(bridge)) \o Waiting
        BY <3>1, <3>2, <4>4, <4>5, <4>6, Zenon DEF Cat
      <4> QED
        BY <4>2, <4>7 DEF StreamOK, X
    <3>4. CASE ~attached
      <4> DEFINE c == FlattenSeq(buffer.chunks)
      <4>1. /\ StreamOK(snapshot, c \o Waiting, units, gone, {}) /\ bridge.dropped = {}
        BY <1>1, <3>4, GivenOf DEF FlowInv, SurfaceInv, TypeInv
      <4>2. c \in Text /\ snapshot \in Text
        BY <1>1, SurfaceTexts
      <4>3. Stream = ((snapshot \o c) \o t) \o output
        BY <3>2, <3>4, Zenon DEF Stream
      <4> HIDE DEF c
      <4>4. Cat(Cat(Cat(snapshot, c), t), output) = Cat(snapshot, Cat(c, Cat(t, output)))
        BY <3>1, <4>2, CatText
      <4>5. Stream = snapshot \o (c \o Waiting)
        BY <3>1, <3>2, <4>3, <4>4, Zenon DEF Cat
      <4> QED
        BY <4>1, <4>5 DEF StreamOK
    <3> QED
      BY <3>3, <3>4
  <2> HIDE DEF S
  <2> QED
    BY <2>1 DEF NothingElseLost, Increasing, S
<1> QED
  BY <1>1, TypesAlways, FlowAlways, PTL

\* A committed snapshot holds all that had reached the surface when it was requested, but for
\* what was dropped or left behind.
THEOREM SnapshotsAreComplete == Spec => []SnapshotIsComplete
<1>1. ASSUME FlowInv
      PROVE  SnapshotIsComplete
  BY <1>1 DEF FlowInv, AnswersOK, Holds, Given, SnapshotIsComplete
<1> QED
  BY <1>1, FlowAlways, PTL
-----------------------------------------------------------------------------
(* No lost wake-up: what the bridge waits for is on its way.  The messages *)
(* are counted in units here.                                              *)

\* The units of a kind of messages, and how many they are.
CarriedBy(messages, kind) ==
  FlattenSeq([i \in DOMAIN messages |->
    IF messages[i].kind = kind THEN messages[i].units ELSE <<>>])

Bytes(messages, kind) == Len(CarriedBy(messages, kind))
Size(m, kind) == IF m.kind = kind THEN Len(m.units) ELSE 0

HasKind(messages, kind) == \E i \in DOMAIN messages : messages[i].kind = kind

\* The units that the page has, or has answered.
Air(na, pa) == Bytes(na, "ack") + Bytes(pa, "data")

Counted(b, air) == b.inFlightBytes = air + Bytes(b.toPage, "data")
Rested(b) == b.inFlight = <<>> => b.inFlightBytes = 0

\* Output that waits in the bridge waits for an acknowledgement, and a request for output.
Fed(b) == b.ready /\ b.pending # <<>> => b.inFlight # <<>>
Settled(b) == Idle(b) => b.requests = <<>>

Buffered(b) == b.pendingBytes + b.inFlightBytes
Watermarks(b) == IF b.backpressured THEN Buffered(b) > LowWater ELSE Buffered(b) < HighWater

Awake(b, air) == Counted(b, air) /\ Rested(b) /\ Fed(b) /\ Settled(b) /\ Watermarks(b)

\* No chunk is larger than what the loop reads before it stops.
Short(chunks) == \A i \in DOMAIN chunks : Len(chunks[i]) <= OutputLimit

CarriedMeasure(kind) == [m \in Messages |-> IF m.kind = kind THEN m.units ELSE <<>>]

LEMMA CarriedMeasured == ASSUME NEW kind PROVE Measures(CarriedMeasure(kind), Messages, Unit)
<1>1. ASSUME NEW m \in Messages
      PROVE  (IF m.kind = kind THEN m.units ELSE <<>>) \in Seq(Unit)
  BY DEF Messages, Text
<1> QED
  BY <1>1 DEF Measures, CarriedMeasure

LEMMA CarriedGathered ==
  ASSUME NEW ms \in Seq(Messages), NEW kind
  PROVE  CarriedBy(ms, kind) = Gather(CarriedMeasure(kind), ms)
<1>1. \A i \in DOMAIN ms : ms[i] \in Messages
  BY ElementOfSeq, LenProperties
<1>2. [i \in DOMAIN ms |-> IF ms[i].kind = kind THEN ms[i].units ELSE <<>>]
        = [i \in DOMAIN ms |-> CarriedMeasure(kind)[ms[i]]]
  BY <1>1 DEF CarriedMeasure
<1> QED
  BY <1>2 DEF CarriedBy, Gather, Pieces

LEMMA SizeIs ==
  ASSUME NEW m \in Messages, NEW kind
  PROVE  /\ CarriedMeasure(kind)[m] \in Text /\ Len(CarriedMeasure(kind)[m]) = Size(m, kind)
         /\ Size(m, kind) \in Nat /\ Len(m.units) \in Nat
<1>1. CarriedMeasure(kind)[m] = IF m.kind = kind THEN m.units ELSE <<>>
  BY DEF CarriedMeasure
<1>2. m.units \in Text /\ Len(m.units) \in Nat
  BY LenProperties DEF Messages, Text
<1>3. <<>> \in Text /\ Len(<<>>) = 0
  BY DEF Text
<1> QED
  BY <1>1, <1>2, <1>3 DEF Size

LEMMA BytesType ==
  ASSUME NEW s \in Seq(Messages), NEW kind
  PROVE  CarriedBy(s, kind) \in Text /\ Bytes(s, kind) \in Nat
<1>1. CarriedBy(s, kind) \in Seq(Unit)
  BY CarriedGathered, CarriedMeasured, GatherType
<1> QED
  BY <1>1, LenProperties DEF Bytes, Text

LEMMA BytesEmpty == ASSUME NEW kind PROVE Bytes(<<>>, kind) = 0
<1>1. CarriedBy(<<>>, kind) = <<>>
  BY CarriedGathered, GatherEmpty, EmptySeq
<1> QED
  BY <1>1 DEF Bytes

LEMMA BytesConcat ==
  ASSUME NEW s \in Seq(Messages), NEW t \in Seq(Messages), NEW kind
  PROVE  Bytes(s \o t, kind) = Bytes(s, kind) + Bytes(t, kind)
<1>1. s \o t \in Seq(Messages)
  BY ConcatProperties
<1>2. Gather(CarriedMeasure(kind), s \o t)
        = Gather(CarriedMeasure(kind), s) \o Gather(CarriedMeasure(kind), t)
  BY CarriedMeasured, GatherConcat
<1>3. CarriedBy(s \o t, kind) = CarriedBy(s, kind) \o CarriedBy(t, kind)
  BY <1>1, <1>2, CarriedGathered
<1>4. CarriedBy(s, kind) \in Seq(Unit) /\ CarriedBy(t, kind) \in Seq(Unit)
  BY BytesType DEF Text
<1>5. Len(CarriedBy(s, kind) \o CarriedBy(t, kind)) = Len(CarriedBy(s, kind)) + Len(CarriedBy(t, kind))
  BY <1>4, ConcatProperties
<1> QED
  BY <1>3, <1>5, Zenon DEF Bytes

LEMMA BytesAppend ==
  ASSUME NEW s \in Seq(Messages), NEW m \in Messages, NEW kind
  PROVE  Bytes(Append(s, m), kind) = Bytes(s, kind) + Size(m, kind)
<1>1. Append(s, m) \in Seq(Messages)
  BY AppendProperties
<1>2. Gather(CarriedMeasure(kind), Append(s, m))
        = Gather(CarriedMeasure(kind), s) \o CarriedMeasure(kind)[m]
  BY CarriedMeasured, GatherAppend
<1> DEFINE c == CarriedMeasure(kind)[m]
<1>3. CarriedBy(Append(s, m), kind) = CarriedBy(s, kind) \o c
  BY <1>1, <1>2, CarriedGathered
<1>4. CarriedBy(s, kind) \in Seq(Unit) /\ c \in Seq(Unit) /\ Len(c) = Size(m, kind)
  BY BytesType, SizeIs DEF Text
<1> HIDE DEF c
<1>5. Len(CarriedBy(s, kind) \o c) = Len(CarriedBy(s, kind)) + Len(c)
  BY <1>4, ConcatProperties
<1> QED
  BY <1>3, <1>4, <1>5, Zenon DEF Bytes

LEMMA BytesTail ==
  ASSUME NEW s \in Seq(Messages), s # <<>>, NEW kind
  PROVE  /\ Head(s) \in Messages /\ Tail(s) \in Seq(Messages)
         /\ Bytes(s, kind) = Size(Head(s), kind) + Bytes(Tail(s), kind)
         /\ Size(Head(s), kind) \in Nat /\ Bytes(Tail(s), kind) \in Nat
<1>1. /\ Head(s) \in Messages /\ Tail(s) \in Seq(Messages)
      /\ Gather(CarriedMeasure(kind), s)
           = CarriedMeasure(kind)[Head(s)] \o Gather(CarriedMeasure(kind), Tail(s))
  BY CarriedMeasured, GatherTail
<1> DEFINE c == CarriedMeasure(kind)[Head(s)]
<1>2. CarriedBy(s, kind) = c \o CarriedBy(Tail(s), kind)
  BY <1>1, CarriedGathered
<1>3. /\ CarriedBy(Tail(s), kind) \in Seq(Unit) /\ c \in Seq(Unit) /\ Len(c) = Size(Head(s), kind)
      /\ Size(Head(s), kind) \in Nat
  BY <1>1, BytesType, SizeIs DEF Text
<1> HIDE DEF c
<1>4. Len(c \o CarriedBy(Tail(s), kind)) = Len(c) + Len(CarriedBy(Tail(s), kind))
  BY <1>3, ConcatProperties
<1>5. Bytes(Tail(s), kind) \in Nat
  BY <1>1, BytesType
<1> QED
  BY <1>1, <1>2, <1>3, <1>4, <1>5, Zenon DEF Bytes

LEMMA NoBytes ==
  ASSUME NEW s \in Seq(Messages), NEW kind, \A i \in 1..Len(s) : s[i].kind # kind
  PROVE  Bytes(s, kind) = 0
<1>1. \A i \in 1..Len(s) : CarriedMeasure(kind)[s[i]] = <<>>
  <2>1. \A i \in 1..Len(s) : s[i] \in Messages
    BY ElementOfSeq
  <2> QED
    BY <2>1 DEF CarriedMeasure
<1>2. Gather(CarriedMeasure(kind), s) = <<>> <=> \A i \in 1..Len(s) : CarriedMeasure(kind)[s[i]] = <<>>
  BY CarriedMeasured, GatherNothing
<1>3. CarriedBy(s, kind) = <<>>
  BY <1>1, <1>2, CarriedGathered, Zenon
<1> QED
  BY <1>3 DEF Bytes

-----------------------------------------------------------------------------
(* No lost wake-up: the bridge.                                            *)

\* One packet more: its units go from what waits to what is in flight and to the page.
LEMMA PostWakes ==
  ASSUME NEW n \in Nat, NEW b, BridgeOK(b, n), MayPost(b), NEW air \in Nat, Counted(b, air)
  PROVE  LET p == PostPacket(b) IN
         Counted(p, air) /\ p.inFlight # <<>> /\ p.ready = b.ready
<1>1. /\ b \in Bridges(n) /\ b.pending \in Seq(Text) /\ b.pending # <<>> /\ b.next \in Nat
      /\ b.inFlight \in Seq(Nat) /\ b.toPage \in Seq(Messages) /\ b.inFlightBytes \in Nat
  BY MessageSequences DEF BridgeOK, Bridges, MayPost
<1> DEFINE chunk == Head(b.pending)
           d == Data(b.next, chunk)
           p == PostPacket(b)
<1>2. chunk \in Text /\ Len(chunk) \in Nat
  BY <1>1, PendingHead
<1>3. d \in Messages /\ Size(d, "data") = Len(chunk)
  BY <1>1, <1>2 DEF Data, Messages, Kinds, Size
<1>4. /\ p.toPage = Append(b.toPage, d) /\ p.inFlight = Append(b.inFlight, b.next)
      /\ p.ready = b.ready
  BY <1>1, PostFields
<1>5. p.inFlightBytes = b.inFlightBytes + Len(chunk)
  BY <1>1 DEF PostPacket, Bridges
<1> HIDE DEF chunk, d, p
<1>6. Bytes(p.toPage, "data") = Bytes(b.toPage, "data") + Len(chunk)
  BY <1>1, <1>3, <1>4, BytesAppend
<1>7. Bytes(b.toPage, "data") \in Nat
  BY <1>1, BytesType
<1>8. p.inFlightBytes = air + Bytes(p.toPage, "data")
  BY <1>2, <1>5, <1>6, <1>7 DEF Counted
<1>9. p.inFlight # <<>>
  <2>1. Len(Append(b.inFlight, b.next)) = Len(b.inFlight) + 1 /\ Len(b.inFlight) \in Nat
    BY <1>1, AppendProperties, LenProperties
  <2>2. Len(Append(b.inFlight, b.next)) # 0
    BY <2>1
  <2> QED
    BY <1>4, <2>2, EmptySeq
<1> QED
  BY <1>4, <1>8, <1>9 DEF Counted, p

\* A bridge that has nothing in flight has room for a packet.
LEMMA RoomToPost ==
  ASSUME NEW n \in Nat, NEW b, BridgeOK(b, n), Rested(b), b.ready, b.pending # <<>>,
         b.inFlight = <<>>
  PROVE  MayPost(b)
<1>1. b.inFlightBytes = 0
  BY DEF Rested
<1>2. Len(b.inFlight) = 0
  BY EmptySeq
<1>3. 0 < HighWater /\ 0 < MaxInFlight
  BY LimitsAssumption
<1> QED
  BY <1>1, <1>2, <1>3 DEF MayPost

\* What holds of a bridge while its units are counted and it is being pumped.
Sound(b, air) == Counted(b, air) /\ Rested(b)
Busy(b) == b.pending # <<>> \/ b.inFlight # <<>>

LEMMA PumpsWake ==
  ASSUME NEW n \in Nat, NEW b, NEW f, NEW m \in Nat, NEW air \in Nat,
         BridgeOK(b, n), Pumps(f, b, m), Sound(b, air), b.ready
  PROVE  \A k \in 0..m : /\ Sound(f[k], air) /\ f[k].ready
                         /\ k # 0 => Fed(f[k])
                         /\ Busy(b) => Busy(f[k])
<1> DEFINE P(k) == /\ Sound(f[k], air) /\ f[k].ready
                   /\ k # 0 => Fed(f[k])
                   /\ Busy(b) => Busy(f[k])
           T == {k \in Nat : k <= m => P(k)}
<1>1. \A i \in 0..m : f[i] = IF i = 0 THEN b
                             ELSE IF MayPost(f[i - 1]) THEN PostPacket(f[i - 1]) ELSE f[i - 1]
  BY DEF Pumps
<1>2. 0 \in T
  <2>1. f[0] = b
    BY <1>1
  <2> QED
    BY <2>1
<1>3. ASSUME NEW k \in T PROVE k + 1 \in T
  <2>1. CASE k + 1 <= m
    <3>1. k <= m /\ k + 1 \in 0..m /\ (k + 1) - 1 = k /\ k + 1 # 0 /\ k \in 0..m
      BY <2>1
    <3>2. P(k)
      BY <3>1
    <3>3. f[k + 1] = IF MayPost(f[k]) THEN PostPacket(f[k]) ELSE f[k]
      BY <1>1, <3>1
    <3>4. BridgeOK(f[k], n)
      BY <3>1, PumpsDeliver
    <3>5. CASE MayPost(f[k])
      <4>1. /\ Counted(PostPacket(f[k]), air) /\ PostPacket(f[k]).inFlight # <<>>
            /\ PostPacket(f[k]).ready = f[k].ready
        BY <3>2, <3>4, <3>5, PostWakes DEF Sound
      <4>2. P(k + 1)
        BY <3>2, <3>3, <3>5, <4>1 DEF Sound, Rested, Fed, Busy
      <4> QED
        BY <4>2
    <3>6. CASE ~MayPost(f[k])
      <4>1. f[k + 1] = f[k]
        BY <3>3, <3>6, Zenon
      <4>2. Fed(f[k])
        BY <3>2, <3>4, <3>6, RoomToPost DEF Sound, Fed
      <4>3. P(k + 1)
        BY <3>2, <4>1, <4>2
      <4> QED
        BY <4>3
    <3> QED
      BY <3>5, <3>6
  <2>2. CASE ~(k + 1 <= m)
    BY <2>2
  <2> QED
    BY <2>1, <2>2
<1>4. T = Nat
  <2>1. T \subseteq Nat
    OBVIOUS
  <2> HIDE DEF T
  <2> QED
    BY <1>2, <1>3, <2>1, NatBySet
<1> QED
  BY <1>4

LEMMA UpdateWakes ==
  ASSUME NEW n \in Nat, NEW b, BridgeOK(b, n)
  PROVE  LET p == UpdateBackpressure(b) IN
         /\ Watermarks(p) /\ p.ready = b.ready /\ p.pending = b.pending
         /\ p.inFlight = b.inFlight /\ p.inFlightBytes = b.inFlightBytes
         /\ p.toPage = b.toPage /\ p.requests = b.requests
         /\ p.awaitingRestore = b.awaitingRestore
<1> DEFINE total == b.pendingBytes + b.inFlightBytes
           flag == IF b.backpressured THEN total > LowWater ELSE total >= HighWater
           p == UpdateBackpressure(b)
<1>1. b \in Bridges(n) /\ b.pendingBytes \in Nat /\ b.inFlightBytes \in Nat
  BY LimitsAssumption, SMTT(40) DEF BridgeOK, Bridges
<1>2. /\ p.ready = b.ready /\ p.pending = b.pending
      /\ p.inFlight = b.inFlight /\ p.inFlightBytes = b.inFlightBytes
      /\ p.toPage = b.toPage /\ p.requests = b.requests
      /\ p.awaitingRestore = b.awaitingRestore /\ p.pendingBytes = b.pendingBytes
      /\ p.backpressured = flag
  BY <1>1 DEF UpdateBackpressure, Bridges
<1>3. total \in Nat /\ LowWater \in Nat /\ HighWater \in Nat /\ LowWater < HighWater
  BY <1>1, LimitsAssumption
<1>4. Buffered(p) = total
  BY <1>2 DEF Buffered
<1> HIDE DEF p, total
<1>5. Watermarks(p)
  <2>1. CASE b.backpressured
    <3>1. p.backpressured = (total > LowWater)
      BY <1>2, <2>1
    <3>2. ~(total > LowWater) => total < HighWater
      BY <1>3
    <3> QED
      BY <1>4, <3>1, <3>2, Zenon DEF Watermarks
  <2>2. CASE ~b.backpressured
    <3>1. p.backpressured = (total >= HighWater)
      BY <1>2, <2>2
    <3>2. (total >= HighWater => total > LowWater) /\ (~(total >= HighWater) => total < HighWater)
      BY <1>3
    <3> QED
      BY <1>4, <3>1, <3>2, Zenon DEF Watermarks
  <2> QED
    BY <2>1, <2>2
<1> QED
  BY <1>2, <1>5 DEF p

LEMMA PumpWakes ==
  ASSUME NEW n \in Nat, NEW b, BridgeOK(b, n), NEW air \in Nat, Sound(b, air)
  PROVE  LET p == PumpPendingData(b) IN
         /\ Sound(p, air) /\ Fed(p) /\ p.ready = b.ready
         /\ b.ready \/ Watermarks(b) => Watermarks(p)
         /\ Busy(b) => Busy(p)
<1> DEFINE f == CHOOSE f : f = [i \in 0..MaxInFlight |->
                   IF i = 0 THEN b ELSE IF MayPost(f[i - 1]) THEN PostPacket(f[i - 1]) ELSE f[i - 1]]
           p == PumpPendingData(b)
<1>1. MaxInFlight \in Nat /\ MaxInFlight # 0 /\ MaxInFlight \in 0..MaxInFlight
  BY LimitsAssumption
<1>2. Pumps(f, b, MaxInFlight)
  <2>1. \E g : g = [i \in 0..MaxInFlight |->
                   IF i = 0 THEN b ELSE IF MayPost(g[i - 1]) THEN PostPacket(g[i - 1]) ELSE g[i - 1]]
    BY <1>1, PumpsExists, ZenonT(40) DEF Pumps
  <2> QED
    BY <2>1, Zenon DEF Pumps
<1>3. p = IF b.ready THEN UpdateBackpressure(f[MaxInFlight]) ELSE b
  BY DEF PumpPendingData
<1> HIDE DEF f, p
<1>4. CASE b.ready
  <2> DEFINE q == f[MaxInFlight]
  <2>1. BridgeOK(q, n)
    BY <1>1, <1>2, PumpsDeliver
  <2>2. Sound(q, air) /\ q.ready /\ Fed(q) /\ (Busy(b) => Busy(q))
    BY <1>1, <1>2, <1>4, PumpsWake
  <2>3. p = UpdateBackpressure(q)
    BY <1>3, <1>4
  <2> HIDE DEF q
  <2>4. /\ Watermarks(p) /\ p.ready = q.ready /\ p.pending = q.pending
        /\ p.inFlight = q.inFlight /\ p.inFlightBytes = q.inFlightBytes
        /\ p.toPage = q.toPage
    BY <2>1, <2>3, UpdateWakes
  <2>5. b.ready = TRUE /\ q.ready = TRUE
    BY <1>4, <2>1, <2>2 DEF BridgeOK, Bridges
  <2>6. Sound(p, air) /\ Fed(p) /\ (Busy(b) => Busy(p))
    BY <2>2, <2>4 DEF Sound, Counted, Rested, Fed, Busy
  <2>7. p.ready = b.ready
    BY <2>4, <2>5
  <2> QED
    BY <2>4, <2>6, <2>7 DEF p
<1>5. CASE ~b.ready
  BY <1>3, <1>5 DEF Fed, p
<1> QED
  BY <1>4, <1>5

LEMMA AskWakes ==
  ASSUME NEW n \in Nat, NEW b, BridgeOK(b, n), NEW air \in Nat, Sound(b, air), Fed(b)
  PROVE  LET p == PumpSnapshotRequests(b) IN
         /\ Sound(p, air) /\ Fed(p) /\ Settled(p) /\ p.ready = b.ready
         /\ Watermarks(b) => Watermarks(p)
<1>1. CASE PumpSnapshotRequests(b) = b /\ (Idle(b) => b.requests = <<>>)
  BY <1>1 DEF Settled
<1>2. CASE Idle(b) /\ PumpSnapshotRequests(b) = Asking(b, b.toPage \o Asked(b))
  <2>1. /\ Asked(b) \in Seq(PageMessages(n)) /\ Asked(b) \in Seq(Messages)
        /\ \A i \in DOMAIN Asked(b) : Asked(b)[i].kind = "snapshot"
        /\ DOMAIN Asked(b) = 1..Len(Asked(b))
        /\ b.toPage \in Seq(PageMessages(n)) /\ b.toPage \in Seq(Messages)
    BY AskedTypes, BridgeTypes
  <2>2. PICK tp \in Seq(PageMessages(n)) : tp = b.toPage \o Asked(b)
    <3>1. b.toPage \o Asked(b) \in Seq(PageMessages(n))
      BY <2>1, ConcatProperties
    <3> QED
      BY <3>1, Zenon
  <2>3. PICK p : p = Asking(b, tp)
    OBVIOUS
  <2>4. /\ p.toPage = tp /\ p.requests = <<>> /\ p.ready = b.ready
        /\ p.inFlight = b.inFlight /\ p.pending = b.pending /\ p.backpressured = b.backpressured
    BY <2>3, AskingFields
  <2>5. p.inFlightBytes = b.inFlightBytes /\ p.pendingBytes = b.pendingBytes
    <3>1. b \in Bridges(n)
      BY DEF BridgeOK
    <3> QED
      BY <2>3, <3>1 DEF Asking, Bridges
  <2>6. Bytes(tp, "data") = Bytes(b.toPage, "data")
    <3>1. Bytes(b.toPage \o Asked(b), "data") = Bytes(b.toPage, "data") + Bytes(Asked(b), "data")
      BY <2>1, BytesConcat
    <3>2. Bytes(Asked(b), "data") = 0
      BY <2>1, NoBytes
    <3>3. Bytes(b.toPage, "data") \in Nat
      BY <2>1, BytesType
    <3> QED
      BY <2>2, <3>1, <3>2, <3>3
  <2>7. Sound(p, air) /\ Fed(p) /\ Settled(p) /\ (Watermarks(b) => Watermarks(p))
    BY <2>4, <2>5, <2>6 DEF Sound, Counted, Rested, Fed, Settled, Watermarks, Buffered
  <2>8. PumpSnapshotRequests(b) = p
    BY <1>2, <2>2, <2>3, Zenon
  <2> QED
    BY <2>4, <2>7, <2>8
<1>3. CASE ~Idle(b)
  <2>1. PumpSnapshotRequests(b) = b
    BY <1>3 DEF PumpSnapshotRequests, Idle
  <2> QED
    BY <1>1, <1>3, <2>1
<1>4. CASE Idle(b)
  BY <1>2, <1>4 DEF PumpSnapshotRequests, Idle, Asking, Asked
<1> QED
  BY <1>3, <1>4

LEMMA WriteWakes ==
  ASSUME NEW n \in Nat, NEW b, BridgeOK(b, n), NEW air \in Nat, Awake(b, air),
         NEW chunk, chunk \in Text, Len(chunk) <= OutputLimit
  PROVE  Awake(BridgeWrite(b, chunk), air) /\ BridgeWrite(b, chunk).ready = b.ready
<1>1. /\ b \in Bridges(n) /\ b.pendingBytes \in Nat /\ b.inFlightBytes \in Nat
      /\ Len(chunk) \in Nat /\ b.pending \in Seq(Text)
  BY LenProperties, LimitsAssumption, SMTT(40) DEF BridgeOK, Bridges, Text
<1>2. CASE b.pendingBytes + Len(chunk) > MaxPending
  <2>1. PICK q : q = Dropping(b, chunk)
    OBVIOUS
  <2>2. /\ q.pending = b.pending /\ q.ready = b.ready /\ q.awaitingRestore = b.awaitingRestore
        /\ q.inFlight = b.inFlight /\ q.toPage = b.toPage /\ q.requests = b.requests
    BY <2>1, DroppingOK
  <2>3. /\ q.pendingBytes = b.pendingBytes /\ q.inFlightBytes = b.inFlightBytes
        /\ q.backpressured = TRUE
    BY <1>1, <2>1 DEF Dropping, Bridges
  <2>4. Buffered(q) > LowWater
    <3>1. b.pendingBytes + b.inFlightBytes > LowWater
      BY <1>1, <1>2, LimitsAssumption, RoomAssumption
    <3> QED
      BY <2>3, <3>1 DEF Buffered
  <2>5. Awake(q, air) /\ q.ready = b.ready
    BY <2>2, <2>3, <2>4 DEF Awake, Counted, Rested, Fed, Settled, Idle, Watermarks
  <2>6. BridgeWrite(b, chunk) = q
    BY <1>2, <2>1, WriteIs
  <2> QED
    BY <2>5, <2>6
<1>3. CASE ~(b.pendingBytes + Len(chunk) > MaxPending)
  <2>1. PICK a : a = Appended(b, chunk)
    OBVIOUS
  <2>2. /\ BridgeOK(a, n) /\ a.pending = Append(b.pending, chunk) /\ a.ready = b.ready
        /\ a.inFlight = b.inFlight /\ a.toPage = b.toPage /\ a.requests = b.requests
    BY <1>3, <2>1, AppendedOK
  <2>3. a.inFlightBytes = b.inFlightBytes
    BY <1>1, <2>1 DEF Appended, Bridges
  <2>4. a.pending # <<>>
    <3>1. Len(Append(b.pending, chunk)) = Len(b.pending) + 1 /\ Len(b.pending) \in Nat
      BY <1>1, AppendProperties, LenProperties
    <3>2. Len(Append(b.pending, chunk)) # 0
      BY <3>1
    <3> QED
      BY <2>2, <3>2, EmptySeq
  <2>5. PICK q : q = UpdateBackpressure(a)
    OBVIOUS
  <2>6. /\ Watermarks(q) /\ q.ready = a.ready /\ q.pending = a.pending
        /\ q.inFlight = a.inFlight /\ q.inFlightBytes = a.inFlightBytes /\ q.toPage = a.toPage
        /\ BridgeOK(q, n)
    BY <2>2, <2>5, UpdateWakes, UpdateOK
  <2>7. Sound(q, air) /\ Busy(q)
    BY <2>2, <2>3, <2>4, <2>6 DEF Awake, Sound, Counted, Rested, Busy
  <2>8. PICK p : p = PumpPendingData(q)
    OBVIOUS
  <2>9. Sound(p, air) /\ Fed(p) /\ p.ready = q.ready /\ Watermarks(p) /\ Busy(p)
    BY <2>6, <2>7, <2>8, PumpWakes
  <2>10. Awake(p, air) /\ p.ready = b.ready
    BY <2>2, <2>6, <2>9 DEF Awake, Sound, Settled, Idle, Busy
  <2>11. BridgeWrite(b, chunk) = p
    BY <1>3, <2>1, <2>5, <2>8, WriteIs
  <2> QED
    BY <2>10, <2>11
<1> QED
  BY <1>2, <1>3

LEMMA RequestWakes ==
  ASSUME NEW n \in Nat, NEW b, BridgeOK(b, n), NEW air \in Nat, Sound(b, air), Fed(b),
         Watermarks(b)
  PROVE  /\ Awake(RequestSnapshot(b, n + 1), air)
         /\ RequestSnapshot(b, n + 1).ready = b.ready
<1>1. PICK q : q = Requested(b, n + 1)
  OBVIOUS
<1>2. /\ BridgeOK(q, n + 1) /\ q.pending = b.pending /\ q.inFlight = b.inFlight
      /\ q.toPage = b.toPage /\ q.backpressured = b.backpressured
  BY <1>1, RequestedOK
<1>3. /\ q.pendingBytes = b.pendingBytes /\ q.inFlightBytes = b.inFlightBytes
      /\ q.ready = b.ready
  <2>1. b \in Bridges(n)
    BY DEF BridgeOK
  <2> QED
    BY <1>1, <2>1 DEF Requested, Bridges
<1>4. Sound(q, air) /\ Fed(q) /\ Watermarks(q)
  BY <1>2, <1>3 DEF Sound, Counted, Rested, Fed, Watermarks, Buffered
<1>5. PICK p : p = PumpSnapshotRequests(q)
  OBVIOUS
<1>6. Sound(p, air) /\ Fed(p) /\ Settled(p) /\ p.ready = q.ready /\ Watermarks(p)
  <2>1. n + 1 \in Nat
    OBVIOUS
  <2> QED
    BY <1>2, <1>4, <1>5, <2>1, AskWakes
<1>7. RequestSnapshot(b, n + 1) = p
  BY <1>1, <1>5 DEF RequestSnapshot, Requested
<1> QED
  BY <1>3, <1>6, <1>7 DEF Awake, Sound

LEMMA ReadyWakes ==
  ASSUME NEW n \in Nat, NEW b, BridgeOK(b, n), NEW air \in Nat, Sound(b, air)
  PROVE  Awake(PageReady(b), air) /\ PageReady(b).ready
<1>1. /\ b \in Bridges(n) /\ b.toPage \in Seq(Messages) /\ b.restore \in Text
  BY BridgeTypes
<1>2. \E q : /\ BridgeOK(q, n) /\ Sound(q, air) /\ q.ready
             /\ PageReady(b) = PumpSnapshotRequests(PumpPendingData(q))
  <2>1. CASE b.restore = <<>>
    <3>1. PICK q : q = Readied(b)
      OBVIOUS
    <3>2. BridgeOK(q, n) /\ q.inFlight = b.inFlight /\ q.toPage = b.toPage
      BY <2>1, <3>1, ReadiedOK
    <3>3. q.inFlightBytes = b.inFlightBytes /\ q.ready = TRUE
      BY <1>1, <3>1 DEF Readied, Bridges
    <3>4. Sound(q, air)
      BY <3>2, <3>3 DEF Sound, Counted, Rested
    <3> QED
      BY <2>1, <3>1, <3>2, <3>3, <3>4, ReadyIs
  <2>2. CASE b.restore # <<>>
    <3>1. PICK q : q = Restoring(b)
      OBVIOUS
    <3>2. PICK r : r = Restore(b.restore)
      OBVIOUS
    <3>3. /\ BridgeOK(q, n) /\ q.inFlight = b.inFlight /\ q.toPage = Append(b.toPage, r)
      BY <2>2, <3>1, <3>2, RestoringOK
    <3>4. q.inFlightBytes = b.inFlightBytes /\ q.ready = TRUE
      BY <1>1, <3>1 DEF Restoring, Bridges
    <3>5. r \in Messages /\ Size(r, "data") = 0
      BY <1>1, <2>2, <3>2, RestoreMessage DEF Size
    <3>6. Bytes(q.toPage, "data") = Bytes(b.toPage, "data") + 0
      BY <1>1, <3>3, <3>5, BytesAppend
    <3>7. Bytes(b.toPage, "data") \in Nat
      BY <1>1, BytesType
    <3>8. Sound(q, air)
      BY <3>3, <3>4, <3>6, <3>7 DEF Sound, Counted, Rested
    <3> QED
      BY <2>2, <3>1, <3>3, <3>4, <3>8, ReadyIs
  <2> QED
    BY <2>1, <2>2
<1>3. PICK q : /\ BridgeOK(q, n) /\ Sound(q, air) /\ q.ready
               /\ PageReady(b) = PumpSnapshotRequests(PumpPendingData(q))
  BY <1>2
<1>4. PICK p : p = PumpPendingData(q)
  OBVIOUS
<1>5. BridgeOK(p, n) /\ Sound(p, air) /\ Fed(p) /\ p.ready = q.ready /\ Watermarks(p)
  BY <1>3, <1>4, PumpWakes, PumpOK
<1>6. PICK s : s = PumpSnapshotRequests(p)
  OBVIOUS
<1>7. Sound(s, air) /\ Fed(s) /\ Settled(s) /\ s.ready = p.ready /\ Watermarks(s)
  BY <1>5, <1>6, AskWakes
<1> QED
  BY <1>3, <1>4, <1>5, <1>6, <1>7 DEF Awake, Sound

LEMMA RestoreWakes ==
  ASSUME NEW n \in Nat, NEW b, BridgeOK(b, n), NEW air \in Nat, Awake(b, air)
  PROVE  Awake(RestoreComplete(b), air) /\ RestoreComplete(b).ready = b.ready
<1>1. PICK q : q = Restored(b)
  OBVIOUS
<1>2. BridgeOK(q, n) /\ q.pending = b.pending /\ q.inFlight = b.inFlight /\ q.toPage = b.toPage
  BY <1>1, RestoredOK
<1>3. /\ q.pendingBytes = b.pendingBytes /\ q.inFlightBytes = b.inFlightBytes
      /\ q.ready = b.ready /\ q.backpressured = b.backpressured
  <2>1. b \in Bridges(n)
    BY DEF BridgeOK
  <2> QED
    BY <1>1, <2>1 DEF Restored, Bridges
<1>4. Sound(q, air) /\ Fed(q) /\ Watermarks(q)
  BY <1>2, <1>3 DEF Awake, Sound, Counted, Rested, Fed, Watermarks, Buffered
<1>5. PICK p : p = PumpSnapshotRequests(q)
  OBVIOUS
<1>6. Sound(p, air) /\ Fed(p) /\ Settled(p) /\ p.ready = q.ready /\ Watermarks(p)
  BY <1>2, <1>4, <1>5, AskWakes
<1>7. RestoreComplete(b) = p
  BY <1>1, <1>5 DEF RestoreComplete, Restored
<1> QED
  BY <1>3, <1>6, <1>7 DEF Awake, Sound

\* What an acknowledgement does once the oldest packet has been taken off.
LEMMA TakenWakes ==
  ASSUME NEW n \in Nat, NEW q, BridgeOK(q, n), NEW air \in Nat, Sound(q, air)
  PROVE  LET p == UpdateBackpressure(PumpSnapshotRequests(PumpPendingData(q))) IN
         Awake(p, air) /\ p.ready = q.ready
<1>1. PICK r : r = PumpPendingData(q)
  OBVIOUS
<1>2. BridgeOK(r, n) /\ Sound(r, air) /\ Fed(r) /\ r.ready = q.ready
  BY <1>1, PumpWakes, PumpOK
<1>3. PICK s : s = PumpSnapshotRequests(r)
  OBVIOUS
<1>4. BridgeOK(s, n) /\ Sound(s, air) /\ Fed(s) /\ Settled(s) /\ s.ready = r.ready
  BY <1>2, <1>3, AskWakes, AskOK
<1>5. PICK p : p = UpdateBackpressure(s)
  OBVIOUS
<1>6. /\ Watermarks(p) /\ p.ready = s.ready /\ p.pending = s.pending
      /\ p.inFlight = s.inFlight /\ p.inFlightBytes = s.inFlightBytes
      /\ p.toPage = s.toPage /\ p.requests = s.requests
      /\ p.awaitingRestore = s.awaitingRestore
  BY <1>4, <1>5, UpdateWakes
<1>7. Awake(p, air)
  BY <1>4, <1>6 DEF Awake, Sound, Counted, Rested, Fed, Settled, Idle
<1>8. p.ready = q.ready
  BY <1>2, <1>4, <1>6
<1> QED
  BY <1>1, <1>3, <1>5, <1>7, <1>8

LEMMA AirType ==
  ASSUME NEW na, NEW pa, na \in Seq(Messages), pa \in Seq(Messages)
  PROVE  /\ Air(na, pa) \in Nat /\ Bytes(na, "ack") \in Nat /\ Bytes(pa, "data") \in Nat
         /\ Air(na, pa) = Bytes(na, "ack") + Bytes(pa, "data")
BY BytesType DEF Air

\* A bridge that waits for no packet has no units in flight: none are empty texts, so that its
\* record of packets is what is under way.
LEMMA RestedPage ==
  ASSUME NEW b, NEW na, NEW pa, NEW sc, NEW w, NEW u, NEW left, NEW ms,
         PageInv(b, na, pa, sc, w, u, left, ms), ~EmptyTexts, Counted(b, Air(na, pa))
  PROVE  Rested(b)
<1> SUFFICES ASSUME b.inFlight = <<>> PROVE b.inFlightBytes = 0
  BY DEF Rested
<1>1. /\ na \in Seq(Messages) /\ pa \in Seq(Messages) /\ b.toPage \in Seq(Messages)
      /\ Acks(na, pa) \in Seq(Nat)
  BY PageTypes, BridgeTypes
<1>2. /\ SequencesOf(na, "ack") \in Seq(Nat) /\ SequencesOf(pa, "data") \in Seq(Nat)
      /\ SequencesOf(b.toPage, "data") \in Seq(Nat)
  BY <1>1, NumbersType
<1>3. Acks(na, pa) \o SequencesOf(b.toPage, "data") = <<>>
  BY Zenon DEF PageInv, AcksOK
<1>4. Acks(na, pa) = <<>> /\ SequencesOf(b.toPage, "data") = <<>>
  BY <1>1, <1>2, <1>3, ConcatNothing
<1>5. SequencesOf(na, "ack") = <<>> /\ SequencesOf(pa, "data") = <<>>
  BY <1>2, <1>4, ConcatNothing DEF Acks
<1>6. Bytes(na, "ack") = 0
  BY <1>1, <1>5, NoNumbers, NoBytes
<1>7. Bytes(pa, "data") = 0
  BY <1>1, <1>5, NoNumbers, NoBytes
<1>8. Bytes(b.toPage, "data") = 0
  BY <1>1, <1>4, NoNumbers, NoBytes
<1> QED
  BY <1>6, <1>7, <1>8 DEF Counted, Air

LEMMA AcknowledgeWakes ==
  ASSUME NEW b, NEW na, NEW pa, NEW sc, NEW w, NEW u, NEW left, NEW ms,
         PageInv(b, na, pa, sc, w, u, left, ms), na # <<>>, Head(na).kind = "ack", ~EmptyTexts,
         Awake(b, Air(na, pa))
  PROVE  LET p == Acknowledge(b, Head(na).sequence, Len(Head(na).units)) IN
         Awake(p, Air(Tail(na), pa)) /\ p.ready = b.ready
<1>1. PICK s : s = Head(na).sequence
  OBVIOUS
<1>2. PICK k : k = Len(Head(na).units)
  OBVIOUS
<1>3. PICK p : p = Acknowledge(b, s, k)
  OBVIOUS
<1>4. PICK q : q = Removed(b, k)
  OBVIOUS
<1>5. /\ na \in Seq(Messages) /\ pa \in Seq(Messages) /\ Len(ms) \in Nat /\ BridgeOK(b, Len(ms))
      /\ b.toPage \in Seq(Messages) /\ b.inFlightBytes \in Nat
  BY PageTypes, BridgeTypes DEF BridgeOK, Bridges
<1>6. /\ Head(na) \in Messages /\ Tail(na) \in Seq(Messages)
      /\ Bytes(na, "ack") = Size(Head(na), "ack") + Bytes(Tail(na), "ack")
      /\ Bytes(Tail(na), "ack") \in Nat
  BY <1>5, BytesTail
<1>7. Size(Head(na), "ack") = k /\ k \in Nat
  BY <1>2, <1>6, SizeIs DEF Size
<1>8. ~(b.inFlight = <<>> \/ Head(b.inFlight) # s)
  BY <1>1, <1>7, RemovedPage
<1>9. PageInv(q, Tail(na), pa, sc, w, u, left, ms)
  BY <1>1, <1>4, <1>7, <1>8, RemovedPage
<1>10. p = UpdateBackpressure(PumpSnapshotRequests(PumpPendingData(q)))
  BY <1>3, <1>4, <1>8, AcknowledgeIs
<1>11. BridgeOK(q, Len(ms)) /\ q.ready = b.ready /\ q.toPage = b.toPage
  BY <1>4, <1>5, <1>7, <1>8, RemovedOK
<1>12. q.inFlightBytes = IF b.inFlightBytes > k THEN b.inFlightBytes - k ELSE 0
  BY <1>4, <1>5 DEF Removed, BridgeOK, Bridges
<1>13. Air(Tail(na), pa) \in Nat /\ Air(na, pa) = k + Air(Tail(na), pa)
  <2>1. Air(na, pa) = Bytes(na, "ack") + Bytes(pa, "data") /\ Bytes(pa, "data") \in Nat
    BY <1>5, AirType
  <2>2. Air(Tail(na), pa) = Bytes(Tail(na), "ack") + Bytes(pa, "data")
    BY <1>5, <1>6, AirType
  <2> QED
    BY <1>6, <1>7, <2>1, <2>2
<1>14. Bytes(b.toPage, "data") \in Nat
  BY <1>5, BytesType
<1>15. b.inFlightBytes = k + Air(Tail(na), pa) + Bytes(b.toPage, "data")
  BY <1>13 DEF Awake, Counted
<1>16. Counted(q, Air(Tail(na), pa))
  BY <1>7, <1>11, <1>12, <1>13, <1>14, <1>15 DEF Counted
<1>17. Rested(q)
  BY <1>9, <1>16, RestedPage
<1>18. Awake(p, Air(Tail(na), pa)) /\ p.ready = q.ready
  BY <1>5, <1>10, <1>11, <1>13, <1>16, <1>17, TakenWakes DEF Sound
<1> QED
  BY <1>1, <1>2, <1>3, <1>11, <1>18

LEMMA WriteAllWakes ==
  ASSUME NEW n \in Nat, NEW b, BridgeOK(b, n), NEW air \in Nat, Awake(b, air),
         NEW chunks, chunks \in Seq(Text), Short(chunks)
  PROVE  /\ Awake(BridgeWriteAll(b, chunks), air)
         /\ BridgeWriteAll(b, chunks).ready = b.ready
<1>1. PICK f : Writing(f, b, chunks) /\ BridgeWriteAll(b, chunks) = f[Len(chunks)]
  BY WriteAllIs
<1>2. Len(chunks) \in Nat /\ DOMAIN chunks = 1..Len(chunks)
  BY LenProperties
<1> DEFINE P(k) == BridgeOK(f[k], n) /\ Awake(f[k], air) /\ f[k].ready = b.ready
           T == {k \in Nat : k <= Len(chunks) => P(k)}
<1>3. 0 \in T
  BY <1>1 DEF Writing
<1>4. ASSUME NEW k \in T PROVE k + 1 \in T
  <2>1. CASE k + 1 <= Len(chunks)
    <3>1. P(k) /\ k \in Nat /\ k + 1 \in 1..Len(chunks)
      BY <1>2, <2>1
    <3>2. chunks[k + 1] \in Text /\ Len(chunks[k + 1]) <= OutputLimit
      BY <1>2, <3>1, ElementOfSeq DEF Short
    <3>3. PICK p : p = BridgeWrite(f[k], chunks[k + 1])
      OBVIOUS
    <3>4. BridgeOK(p, n) /\ Awake(p, air) /\ p.ready = b.ready
      BY <3>1, <3>2, <3>3, WriteOK, WriteWakes
    <3>5. f[k + 1] = p
      BY <1>1, <2>1, <3>1, <3>3 DEF Writing
    <3> QED
      BY <3>1, <3>4, <3>5
  <2> QED
    BY <2>1
<1>5. T = Nat
  <2>1. T \subseteq Nat
    OBVIOUS
  <2> HIDE DEF T
  <2> QED
    BY <1>3, <1>4, <2>1, NatBySet
<1>6. P(Len(chunks))
  BY <1>2, <1>5
<1> QED
  BY <1>1, <1>6

LEMMA NewWakes ==
  ASSUME NEW text
  PROVE  /\ Awake([NewBridge EXCEPT !.restore = text], 0)
         /\ [NewBridge EXCEPT !.restore = text].ready = FALSE
<1>1. PICK b : b = [NewBridge EXCEPT !.restore = text]
  OBVIOUS
<1>2. /\ b.ready = FALSE /\ b.pending = <<>> /\ b.pendingBytes = 0 /\ b.inFlight = <<>>
      /\ b.inFlightBytes = 0 /\ b.backpressured = FALSE /\ b.requests = <<>> /\ b.toPage = <<>>
  BY <1>1 DEF NewBridge
<1>3. Bytes(b.toPage, "data") = 0
  BY <1>2, BytesEmpty
<1>4. Awake(b, 0)
  BY <1>2, <1>3, LimitsAssumption
     DEF Awake, Counted, Rested, Fed, Settled, Idle, Watermarks, Buffered
<1> QED
  BY <1>1, <1>2, <1>4

-----------------------------------------------------------------------------
(* No lost wake-up: the surface.                                           *)

LEMMA HasAppend ==
  ASSUME NEW S, NEW s, NEW e, s \in Seq(S), NEW kind, HasKind(s, kind) \/ e.kind = kind
  PROVE  HasKind(Append(s, e), kind)
<1>1. /\ Len(s) \in Nat /\ DOMAIN s = 1..Len(s) /\ DOMAIN Append(s, e) = 1..(Len(s) + 1)
      /\ \A j \in 1..Len(s) : Append(s, e)[j] = s[j]
      /\ Append(s, e)[Len(s) + 1] = e
  BY LenProperties, AppendProperties
<1>2. CASE HasKind(s, kind)
  BY <1>1, <1>2 DEF HasKind
<1>3. CASE e.kind = kind
  BY <1>1, <1>3 DEF HasKind
<1> QED
  BY <1>2, <1>3

LEMMA HasConcat ==
  ASSUME NEW s, NEW t, s \in Seq(Messages), t \in Seq(Messages), NEW kind, HasKind(s, kind)
  PROVE  HasKind(s \o t, kind)
<1>1. /\ Len(s) \in Nat /\ DOMAIN s = 1..Len(s) /\ Len(t) \in Nat
      /\ DOMAIN (s \o t) = 1..(Len(s) + Len(t))
      /\ \A j \in 1..Len(s) : (s \o t)[j] = s[j]
  BY LenProperties, ConcatProperties
<1>2. PICK i \in DOMAIN s : s[i].kind = kind
  BY DEF HasKind
<1>3. i \in DOMAIN (s \o t) /\ (s \o t)[i] = s[i]
  BY <1>1
<1> QED
  BY <1>2, <1>3 DEF HasKind

LEMMA HasTail ==
  ASSUME NEW S, NEW s, s \in Seq(S), s # <<>>, NEW kind, HasKind(s, kind), Head(s).kind # kind
  PROVE  HasKind(Tail(s), kind)
<1>1. /\ Len(s) \in Nat /\ DOMAIN s = 1..Len(s) /\ Head(s) = s[1]
      /\ Tail(s) \in Seq(S) /\ Len(Tail(s)) = Len(s) - 1
      /\ \A j \in 1..Len(Tail(s)) : Tail(s)[j] = s[j + 1]
  BY HeadTailProperties, LenProperties
<1>2. DOMAIN Tail(s) = 1..Len(Tail(s))
  BY <1>1, LenProperties
<1>3. PICK i \in DOMAIN s : s[i].kind = kind
  BY DEF HasKind
<1>4. i # 1
  BY <1>1, <1>3
<1>5. i - 1 \in 1..Len(Tail(s)) /\ (i - 1) + 1 = i
  BY <1>1, <1>4
<1>6. Tail(s)[i - 1] = s[i]
  BY <1>1, <1>5
<1> QED
  BY <1>2, <1>3, <1>5, <1>6 DEF HasKind

LEMMA ShortAppend ==
  ASSUME NEW s, s \in Seq(Text), Short(s), NEW e \in Text, Len(e) <= OutputLimit
  PROVE  Short(Append(s, e))
BY AppendMember DEF Short

LEMMA ShortTail ==
  ASSUME NEW s, s \in Seq(Text), Short(s), s # <<>>
  PROVE  Short(Tail(s)) /\ Head(s) \in Text /\ Len(Head(s)) <= OutputLimit
<1>1. /\ Len(s) \in Nat /\ DOMAIN s = 1..Len(s) /\ Head(s) = s[1] /\ Len(s) # 0
      /\ Head(s) \in Text
  BY HeadTailProperties, LenProperties, EmptySeq
<1>2. Short(Tail(s))
  BY TailMember DEF Short
<1> QED
  BY <1>1, <1>2 DEF Short

\* A page that has not been heard of will be; a capture that is under way is with the parser.
WakeInv ==
  /\ attached => /\ Awake(bridge, Air(toNative, parser))
                 /\ ~bridge.ready => HasKind(toNative, "ready")
  /\ captures # <<>> => HasKind(parser, "capture")
  /\ Short(transport) /\ Short(buffer.chunks)

LEMMA WakeTypes ==
  ASSUME TypeInv
  PROVE  /\ LoopTypes /\ SurfaceTypes /\ requests \in Nat /\ BridgeOK(bridge, requests)
         /\ toNative \in Seq(NativeMessages(requests)) /\ toNative \in Seq(Messages)
         /\ parser \in Seq(ParserMessages) /\ parser \in Seq(Messages)
         /\ captures \in Seq(1..requests) /\ screen \in Text
         /\ transport \in Seq(Text) /\ buffer \in Buffers /\ buffer.chunks \in Seq(Text)
         /\ output \in Text /\ Len(output) <= OutputLimit /\ Len(output) \in Nat
         /\ Air(toNative, parser) \in Nat
<1>1. /\ LoopTypes /\ SurfaceTypes
  BY DEF TypeInv
<1>2. /\ requests \in Nat /\ BridgeOK(bridge, requests)
      /\ toNative \in Seq(NativeMessages(requests)) /\ parser \in Seq(ParserMessages)
      /\ captures \in Seq(1..requests) /\ screen \in Text /\ buffer \in Buffers
  BY <1>1 DEF SurfaceTypes
<1>3. toNative \in Seq(Messages) /\ parser \in Seq(Messages)
  BY <1>2, MessageSequences
<1>4. /\ transport \in Seq(Text) /\ output \in Text /\ Len(output) <= OutputLimit
      /\ Len(output) \in Nat
  BY <1>1, LenProperties DEF LoopTypes, Text
<1>5. buffer.chunks \in Seq(Text)
  BY <1>2 DEF Buffers
<1>6. Air(toNative, parser) \in Nat
  BY <1>3, AirType
<1> QED
  BY <1>1, <1>2, <1>3, <1>4, <1>5, <1>6

\* The surface stays, and the queue has at most one delivery more.
LEMMA WakeStays ==
  ASSUME TypeInv, WakeInv,
         UNCHANGED <<attached, bridge, toNative, parser, captures>>,
         buffer'.chunks = buffer.chunks,
         \/ transport' = transport
         \/ \E o \in Text : Len(o) <= OutputLimit /\ transport' = Append(transport, o)
  PROVE  WakeInv'
<1>1. Short(transport')
  BY WakeTypes, ShortAppend DEF WakeInv
<1> QED
  BY <1>1 DEF WakeInv

LEMMA DeliverWakes ==
  ASSUME NEW o \in Text, Len(o) <= OutputLimit, Deliver(o)
  PROVE  \/ transport' = transport
         \/ \E p \in Text : Len(p) <= OutputLimit /\ transport' = Append(transport, p)
BY DEF Deliver

LEMMA LoopWakes ==
  ASSUME TypeInv, WakeInv,
         \/ ReadChannel \/ OutputTick \/ TakePause \/ LoopEnds \/ FinalDelivery \/ SendClose
         \/ Connect \/ HandleConnected
  PROVE  WakeInv'
<1>1. /\ output \in Text /\ Len(output) <= OutputLimit /\ Len(output) \in Nat
      /\ OutputLimit \in Nat
  BY WakeTypes, LimitsAssumption
<1>2. CASE ReadChannel
  <2>1. units \in Nat /\ units < MaxUnits /\ Len(output) < OutputLimit /\ MaxUnits \in Nat
    BY <1>2, LimitsAssumption DEF ReadChannel, TypeInv, LoopTypes
  <2>2. PICK o \in Text : o = Append(output, units + 1) /\ Len(o) <= OutputLimit
    <3>1. units + 1 \in Unit
      BY <2>1 DEF Unit
    <3>2. Append(output, units + 1) \in Text /\ Len(Append(output, units + 1)) = Len(output) + 1
      BY <1>1, <3>1, AppendProperties DEF Text
    <3>3. Len(Append(output, units + 1)) <= OutputLimit
      BY <1>1, <2>1, <3>2
    <3> QED
      BY <3>2, <3>3, Zenon
  <2>3. Deliver(o) \/ UNCHANGED transport
    BY <1>2, <2>2 DEF ReadChannel
  <2>4. UNCHANGED <<attached, bridge, buffer, toNative, parser, captures>>
    BY <1>2 DEF ReadChannel, flow, page
  <2> QED
    BY <2>2, <2>3, <2>4, DeliverWakes, WakeStays
<1>3. CASE OutputTick
  <2>1. Deliver(output) /\ UNCHANGED <<attached, bridge, buffer, toNative, parser, captures>>
    BY <1>3 DEF OutputTick, flow, page
  <2> QED
    BY <1>1, <2>1, DeliverWakes, WakeStays
<1>4. CASE TakePause \/ LoopEnds \/ Connect \/ HandleConnected
  <2>1. UNCHANGED <<attached, bridge, buffer, toNative, parser, captures, transport>>
    BY <1>4 DEF TakePause, LoopEnds, Connect, HandleConnected, flow, page
  <2> QED
    BY <2>1, WakeStays
<1>5. CASE FinalDelivery
  <2>1. /\ transport' = Append(transport, output) \/ transport' = transport
        /\ UNCHANGED <<attached, bridge, buffer, toNative, parser, captures>>
    BY <1>5 DEF FinalDelivery, flow, page
  <2> QED
    BY <1>1, <2>1, WakeStays
<1>6. CASE SendClose
  <2>1. /\ transport' = Append(transport, Close)
        /\ UNCHANGED <<attached, bridge, buffer, toNative, parser, captures>>
    BY <1>6 DEF SendClose, flow, page
  <2>2. Close \in Text /\ Len(Close) <= OutputLimit
    BY LimitsAssumption DEF Close, Text
  <2> QED
    BY <2>1, <2>2, WakeStays
<1> QED
  BY <1>2, <1>3, <1>4, <1>5, <1>6

LEMMA BytesWake ==
  ASSUME TypeInv, WakeInv, NEW chunk \in Text, Len(chunk) <= OutputLimit, WriteBytes(chunk),
         UNCHANGED <<attached, toNative, parser, captures>>, Short(transport')
  PROVE  WakeInv'
<1>1. /\ SurfaceTypes /\ requests \in Nat /\ BridgeOK(bridge, requests)
      /\ Air(toNative, parser) \in Nat /\ buffer.chunks \in Seq(Text)
  BY WakeTypes
<1>2. /\ attached => bridge' = BridgeWrite(bridge, chunk) /\ buffer'.chunks = buffer.chunks
      /\ ~attached =>
           buffer'.chunks = IF chunk = <<>> THEN buffer.chunks ELSE Append(buffer.chunks, chunk)
  BY <1>1, WriteBytesIs
<1>3. CASE attached
  <2>1. PICK air \in Nat : air = Air(toNative, parser)
    BY <1>1
  <2>2. PICK b : b = BridgeWrite(bridge, chunk)
    OBVIOUS
  <2>3. Awake(b, air) /\ b.ready = bridge.ready
    BY <1>1, <1>3, <2>1, <2>2, WriteWakes DEF WakeInv
  <2>4. Awake(bridge', Air(toNative', parser')) /\ bridge'.ready = bridge.ready
    BY <1>2, <1>3, <2>1, <2>2, <2>3
  <2>5. Short(buffer'.chunks)
    BY <1>2, <1>3 DEF WakeInv
  <2> QED
    BY <2>4, <2>5 DEF WakeInv
<1>4. CASE ~attached
  <2>1. Short(Append(buffer.chunks, chunk)) /\ Short(buffer.chunks)
    BY <1>1, ShortAppend DEF WakeInv
  <2>2. Short(buffer'.chunks)
    BY <1>2, <1>4, <2>1
  <2> QED
    BY <1>4, <2>2 DEF WakeInv
<1> QED
  BY <1>3, <1>4

LEMMA OwnShort ==
  ASSUME LoopTypes
  PROVE  OwnText \in Text /\ Len(OwnText) <= OutputLimit
<1>1. OutputLimit \in Nat /\ OutputLimit # 0
  BY LimitsAssumption
<1>2. OwnText \in Text /\ (Len(OwnText) = 0 \/ Len(OwnText) = 1)
  BY OwnTypes
<1> QED
  BY <1>1, <1>2

LEMMA WritingWakes ==
  ASSUME TypeInv, WakeInv, HandleData \/ WriteTerminal
  PROVE  WakeInv'
<1>1. LoopTypes /\ transport \in Seq(Text)
  BY WakeTypes
<1>2. CASE HandleData
  <2>1. /\ transport # <<>> /\ transport' = Tail(transport) /\ WriteBytes(Head(transport))
        /\ UNCHANGED <<attached, toNative, parser, captures>>
    BY <1>2 DEF HandleData, page
  <2>2. Short(Tail(transport)) /\ Head(transport) \in Text /\ Len(Head(transport)) <= OutputLimit
    BY <1>1, <2>1, ShortTail DEF WakeInv
  <2>3. PICK chunk \in Text : chunk = Head(transport)
    BY <2>2
  <2> QED
    BY <2>1, <2>2, <2>3, BytesWake
<1>3. CASE WriteTerminal
  <2>1. PICK text \in {<<units + 1>>} \cup (IF EmptyTexts THEN {<<>>} ELSE {}) :
          units + Len(text) <= MaxUnits /\ WriteBytes(text)
    BY <1>3 DEF WriteTerminal
  <2>2. text = <<units + 1>> \/ text = <<>>
    BY <2>1
  <2>3. Len(text) = 0 \/ Len(text) = 1
    BY <2>2
  <2>4. text \in Text
    <3>1. CASE text = <<>>
      BY <3>1 DEF Text
    <3>2. CASE text = <<units + 1>>
      <4>1. Len(text) = 1 /\ units \in Nat /\ MaxUnits \in Nat
        BY <1>1, <3>2, LimitsAssumption DEF LoopTypes
      <4>2. units + 1 \in Unit
        BY <2>1, <4>1 DEF Unit
      <4> QED
        BY <3>2, <4>2 DEF Text
    <3> QED
      BY <2>2, <3>1, <3>2
  <2>5. UNCHANGED <<attached, toNative, parser, captures, transport>>
    BY <1>3 DEF WriteTerminal, page
  <2>6. Len(text) <= OutputLimit
    <3>1. OutputLimit \in Nat /\ OutputLimit # 0
      BY LimitsAssumption
    <3> QED
      BY <2>3, <3>1
  <2> QED
    BY <2>1, <2>4, <2>5, <2>6, BytesWake DEF WakeInv
<1> QED
  BY <1>2, <1>3

LEMMA OwnWakes ==
  ASSUME NEW n \in Nat, NEW b, BridgeOK(b, n), NEW air \in Nat, Awake(b, air),
         NEW text \in Text, Len(text) <= OutputLimit
  PROVE  /\ BridgeOK(WriteOwn(b, text), n) /\ Awake(WriteOwn(b, text), air)
         /\ WriteOwn(b, text).ready = b.ready
BY WriteOwnOK, WriteWakes DEF WriteOwn

\* A snapshot is requested of a bridge to which a text may have been written.
LEMMA CapturesWake ==
  ASSUME NEW n \in Nat, NEW b, BridgeOK(b, n), NEW air \in Nat, Awake(b, air),
         NEW text \in Text, Len(text) <= OutputLimit
  PROVE  LET p == RequestSnapshot(WriteOwn(b, text), n + 1) IN
         Awake(p, air) /\ p.ready = b.ready
<1>1. PICK q : q = WriteOwn(b, text)
  OBVIOUS
<1>2. BridgeOK(q, n) /\ Awake(q, air) /\ q.ready = b.ready
  BY <1>1, OwnWakes
<1>3. Sound(q, air) /\ Fed(q) /\ Watermarks(q)
  BY <1>2 DEF Awake, Sound
<1>4. Awake(RequestSnapshot(q, n + 1), air) /\ RequestSnapshot(q, n + 1).ready = q.ready
  BY <1>2, <1>3, RequestWakes
<1> QED
  BY <1>1, <1>2, <1>4

LEMMA CloseWakes ==
  ASSUME TypeInv, WakeInv, HandleClose
  PROVE  WakeInv'
<1>1. /\ LoopTypes /\ SurfaceTypes /\ requests \in Nat /\ BridgeOK(bridge, requests)
      /\ Air(toNative, parser) \in Nat /\ buffer.chunks \in Seq(Text) /\ buffer \in Buffers
      /\ transport \in Seq(Text)
  BY WakeTypes
<1>2. PICK text \in Text : text = OwnText /\ Len(text) <= OutputLimit
  BY <1>1, OwnShort
<1>3. PICK released \in Buffers :
        released = [buffer EXCEPT !.bridgePaused = FALSE, !.detachedPaused = FALSE]
  <2>1. [buffer EXCEPT !.bridgePaused = FALSE, !.detachedPaused = FALSE] \in Buffers
    BY <1>1 DEF Buffers
  <2> QED
    BY <2>1, Zenon
<1>4. released.chunks = buffer.chunks
  BY <1>1, <1>3 DEF Buffers
<1>5. /\ transport # <<>> /\ transport' = Tail(transport)
      /\ buffer' = Follow(AppendDetached(released, text), WriteOwn(bridge, text))
      /\ attached => bridge' = RequestSnapshot(WriteOwn(bridge, text), requests + 1)
      /\ UNCHANGED <<attached, toNative, parser, captures>>
  BY <1>2, <1>3 DEF HandleClose, CaptureSnapshot, page
<1>6. Short(transport')
  BY <1>1, <1>5, ShortTail DEF WakeInv
<1>7. PICK b : b = WriteOwn(bridge, text)
  OBVIOUS
<1>8. b.backpressured \in BOOLEAN
  <2>1. BridgeOK(b, requests)
    BY <1>1, <1>7, WriteOwnOK
  <2> QED
    BY <2>1, BackpressuredType
<1>9. PICK g \in Buffers :
        /\ g = AppendDetached(released, text) /\ (attached => g = released)
        /\ ~attached => g.chunks = IF text = <<>> THEN buffer.chunks ELSE Append(buffer.chunks, text)
  BY <1>4, AppendDetachedIs, Zenon
<1>10. buffer'.chunks = g.chunks
  <2>1. Follow(g, b).chunks = g.chunks
    BY <1>8, FollowIs
  <2> QED
    BY <1>5, <1>7, <1>9, <2>1, Zenon
<1>11. Short(buffer'.chunks)
  <2>1. Short(buffer.chunks) /\ Short(Append(buffer.chunks, text))
    BY <1>1, <1>2, ShortAppend DEF WakeInv
  <2> QED
    BY <1>4, <1>9, <1>10, <2>1
<1>12. CASE attached
  <2>1. PICK air \in Nat : air = Air(toNative, parser)
    BY <1>1
  <2>2. Awake(bridge', air) /\ bridge'.ready = bridge.ready
    BY <1>1, <1>2, <1>5, <1>12, <2>1, CapturesWake DEF WakeInv
  <2>3. Awake(bridge', Air(toNative', parser'))
    BY <1>5, <2>1, <2>2
  <2> QED
    BY <1>5, <1>6, <1>11, <1>12, <2>2, <2>3 DEF WakeInv
<1>13. CASE ~attached
  BY <1>5, <1>6, <1>11, <1>13 DEF WakeInv
<1> QED
  BY <1>12, <1>13

LEMMA CaptureWakes ==
  ASSUME TypeInv, WakeInv, Capture
  PROVE  WakeInv'
<1>1. /\ requests \in Nat /\ BridgeOK(bridge, requests) /\ Air(toNative, parser) \in Nat
  BY WakeTypes
<1>2. /\ attached /\ bridge' = RequestSnapshot(bridge, requests + 1)
      /\ UNCHANGED <<attached, toNative, parser, captures, transport, buffer>>
  BY DEF Capture, CaptureSnapshot, page
<1>3. PICK air \in Nat : air = Air(toNative, parser)
  BY <1>1
<1>4. Sound(bridge, air) /\ Fed(bridge) /\ Watermarks(bridge)
  BY <1>2, <1>3 DEF WakeInv, Awake, Sound
<1>5. Awake(bridge', air) /\ bridge'.ready = bridge.ready
  BY <1>1, <1>2, <1>4, RequestWakes
<1>6. Awake(bridge', Air(toNative', parser'))
  BY <1>2, <1>3, <1>5
<1> QED
  BY <1>2, <1>5, <1>6 DEF WakeInv

LEMMA ComingWakes ==
  ASSUME TypeInv, WakeInv, Attach \/ Detach
  PROVE  WakeInv'
<1>1. /\ requests \in Nat /\ buffer.chunks \in Seq(Text) /\ snapshot \in Text
  BY WakeTypes DEF SurfaceTypes
<1>2. PICK e : e = <<>>
  OBVIOUS
<1>3. Short(e)
  BY <1>2 DEF Short
<1>4. CASE Attach
  <2>1. /\ attached' = TRUE /\ parser' = e /\ captures' = e
        /\ bridge' = BridgeWriteAll([NewBridge EXCEPT !.restore = snapshot], buffer.chunks)
        /\ toNative' = <<[kind |-> "ready", sequence |-> 0, units |-> <<>>]>>
        /\ transport' = transport /\ buffer'.chunks = e
    BY <1>2, <1>4 DEF Attach, Become, NewBuffer
  <2>2. PICK r : r = [NewBridge EXCEPT !.restore = snapshot]
    OBVIOUS
  <2>3. BridgeOK(r, requests)
    BY <1>1, <2>2, NewBridgeOK
  <2>4. Awake(r, 0)
    BY <2>2, NewWakes
  <2>5. Awake(bridge', 0)
    BY <1>1, <2>1, <2>2, <2>3, <2>4, WriteAllWakes DEF WakeInv
  <2>6. HasKind(toNative', "ready")
    BY <2>1 DEF HasKind
  <2>7. Air(toNative', parser') = 0
    <3>1. PICK m : m = [kind |-> "ready", sequence |-> 0, units |-> <<>>]
      OBVIOUS
    <3>2. m \in Messages /\ m.kind # "ack"
      BY <3>1 DEF Messages, Kinds, Text
    <3>3. PICK s : s = <<m>>
      OBVIOUS
    <3>4. s \in Seq(Messages) /\ \A i \in 1..Len(s) : s[i].kind # "ack"
      BY <3>2, <3>3
    <3>5. Bytes(s, "ack") = 0
      BY <3>4, NoBytes
    <3>6. Bytes(e, "data") = 0
      BY <1>2, BytesEmpty
    <3>7. toNative' = s
      BY <2>1, <3>1, <3>3
    <3> QED
      BY <2>1, <3>5, <3>6, <3>7 DEF Air
  <2> QED
    BY <1>2, <1>3, <2>1, <2>5, <2>6, <2>7 DEF WakeInv
<1>5. CASE Detach
  <2>1. ~attached' /\ buffer'.chunks = e /\ captures' = e /\ transport' = transport
    BY <1>2, <1>5 DEF Detach, NewBuffer
  <2> QED
    BY <1>2, <1>3, <2>1 DEF WakeInv
<1> QED
  BY <1>4, <1>5

LEMMA AirTail ==
  ASSUME NEW na, NEW pa, na \in Seq(Messages), pa \in Seq(Messages), na # <<>>,
         Head(na).kind # "ack"
  PROVE  Air(Tail(na), pa) = Air(na, pa)
<1>1. /\ Bytes(na, "ack") = Size(Head(na), "ack") + Bytes(Tail(na), "ack")
      /\ Bytes(Tail(na), "ack") \in Nat
  BY BytesTail
<1>2. Size(Head(na), "ack") = 0
  BY DEF Size
<1>3. Bytes(na, "ack") = Bytes(Tail(na), "ack")
  BY <1>1, <1>2
<1> QED
  BY <1>3 DEF Air

LEMMA OnReadyWakes ==
  ASSUME TypeInv, NEW b, BridgeOK(b, requests), NEW air \in Nat, Awake(b, air), OnBridgeReady(b)
  PROVE  Awake(bridge', air) /\ bridge'.ready = b.ready
<1>1. LoopTypes /\ requests \in Nat
  BY WakeTypes
<1>2. PICK text \in Text :
        /\ text = IF connected = "no" /\ ~recovered THEN OwnText ELSE <<>>
        /\ Len(text) <= OutputLimit
  <2>1. <<>> \in Text /\ Len(<<>>) <= OutputLimit
    BY LimitsAssumption DEF Text
  <2> QED
    BY <1>1, <2>1, OwnShort
<1>3. bridge' = RequestSnapshot(WriteOwn(b, text), requests + 1)
  BY <1>2 DEF OnBridgeReady, CaptureSnapshot
<1> QED
  BY <1>1, <1>2, <1>3, CapturesWake

LEMMA RawWakes ==
  ASSUME TypeInv, FlowInv, WakeInv, HandleRawMessage, ~EmptyTexts
  PROVE  WakeInv'
<1> DEFINE m == Head(toNative)
<1>1. /\ LoopTypes /\ SurfaceTypes /\ requests \in Nat /\ BridgeOK(bridge, requests)
      /\ toNative \in Seq(NativeMessages(requests)) /\ toNative \in Seq(Messages)
      /\ parser \in Seq(Messages) /\ Air(toNative, parser) \in Nat /\ buffer \in Buffers
  BY WakeTypes
<1>2. TypeInv'
  BY RawTypes
<1>3. /\ toNative # <<>> /\ toNative' = Tail(toNative)
      /\ buffer' = Follow(buffer, bridge')
      /\ UNCHANGED <<transport, attached, parser, captures>>
  BY DEF HandleRawMessage
<1>4. \/ m.kind = "ready" /\ HandleReady
      \/ m.kind = "ack" /\ bridge' = Acknowledge(bridge, m.sequence, Len(m.units))
      \/ m.kind = "restored" /\ HandleRestoreComplete
      \/ m.kind = "snapshot" /\ UNCHANGED bridge
  BY DEF HandleRawMessage
<1>5. attached
  BY <1>1, <1>3 DEF SurfaceTypes, PageGone
<1>6. buffer'.chunks = buffer.chunks
  <2>1. bridge'.backpressured \in BOOLEAN
    BY <1>2, BackpressuredType DEF TypeInv, SurfaceTypes
  <2>2. PICK b : b = bridge'
    OBVIOUS
  <2>3. Follow(buffer, b).chunks = buffer.chunks
    BY <1>1, <2>1, <2>2, FollowIs
  <2> QED
    BY <1>3, <2>2, <2>3, Zenon
<1>7. PICK air \in Nat : air = Air(toNative, parser)
  BY <1>1
<1>8. Awake(bridge, air) /\ (~bridge.ready => HasKind(toNative, "ready"))
  BY <1>5, <1>7 DEF WakeInv
<1>9. m.kind # "ack" => Air(toNative', parser') = air
  BY <1>1, <1>3, <1>7, AirTail
<1> HIDE DEF m
<1>10. Awake(bridge', Air(toNative', parser'))
       /\ (bridge'.ready \/ (bridge'.ready = bridge.ready /\ m.kind # "ready"))
  <2>1. CASE m.kind = "ready" /\ HandleReady
    <3>1. PICK b : b = PageReady(bridge)
      OBVIOUS
    <3>2. BridgeOK(b, requests)
      BY <1>1, <3>1, ReadyOK
    <3>3. Awake(b, air) /\ b.ready
      BY <1>1, <1>8, <3>1, ReadyWakes DEF Awake, Sound
    <3>4. bridge' = b \/ OnBridgeReady(b)
      BY <2>1, <3>1 DEF HandleReady, NotYetReady
    <3>5. Awake(bridge', air) /\ bridge'.ready
      BY <3>2, <3>3, <3>4, OnReadyWakes
    <3> QED
      BY <1>9, <2>1, <3>5
  <2>2. CASE m.kind = "ack" /\ bridge' = Acknowledge(bridge, m.sequence, Len(m.units))
    <3>1. PageInv(bridge, toNative, parser, screen, Waiting, units, gone, marks)
      BY <1>5 DEF FlowInv, SurfaceInv
    <3>2. /\ Awake(bridge, Air(toNative, parser))
      BY <1>7, <1>8
    <3>3. PICK p : p = Acknowledge(bridge, m.sequence, Len(m.units))
      OBVIOUS
    <3>4. Awake(p, Air(Tail(toNative), parser)) /\ p.ready = bridge.ready
      BY <1>3, <2>2, <3>1, <3>2, <3>3, AcknowledgeWakes DEF m
    <3> QED
      BY <1>3, <2>2, <3>3, <3>4
  <2>3. CASE m.kind = "restored" /\ HandleRestoreComplete
    <3>1. PICK b : b = RestoreComplete(bridge)
      OBVIOUS
    <3>2. BridgeOK(b, requests)
      BY <1>1, <3>1, RestoreCompleteOK
    <3>3. Awake(b, air) /\ b.ready = bridge.ready
      BY <1>1, <1>8, <3>1, RestoreWakes
    <3>4. OnBridgeReady(b) \/ bridge' = bridge
      BY <2>3, <3>1 DEF HandleRestoreComplete, NotYetReady
    <3>5. Awake(bridge', air) /\ bridge'.ready = bridge.ready
      BY <1>8, <3>2, <3>3, <3>4, OnReadyWakes
    <3> QED
      BY <1>9, <2>3, <3>5
  <2>4. CASE m.kind = "snapshot" /\ UNCHANGED bridge
    BY <1>8, <1>9, <2>4
  <2> QED
    BY <1>4, <2>1, <2>2, <2>3, <2>4
<1>11. ~bridge'.ready => HasKind(toNative', "ready")
  <2> SUFFICES ASSUME ~bridge'.ready PROVE HasKind(Tail(toNative), "ready")
    BY <1>3
  <2>1. ~bridge.ready /\ m.kind # "ready"
    BY <1>10
  <2>2. HasKind(toNative, "ready") /\ Head(toNative).kind # "ready"
    BY <1>8, <2>1 DEF m
  <2> QED
    BY <1>1, <1>3, <2>2, HasTail
<1> QED
  BY <1>3, <1>6, <1>10, <1>11 DEF WakeInv

LEMMA ReceiveWakes ==
  ASSUME TypeInv, WakeInv, ReceiveMessage
  PROVE  WakeInv'
<1> DEFINE m == Head(bridge.toPage)
           q == Received(bridge)
<1>1. /\ SurfaceTypes /\ requests \in Nat /\ BridgeOK(bridge, requests)
      /\ toNative \in Seq(Messages) /\ parser \in Seq(Messages)
      /\ parser \in Seq(ParserMessages)
  BY WakeTypes
<1>2. /\ bridge.toPage # <<>> /\ bridge' = q
      /\ UNCHANGED <<transport, attached, buffer, toNative>>
  BY DEF ReceiveMessage, Received
<1>3. \/ /\ m.kind \in {"data", "restore"}
         /\ parser' = IF m.units = <<>> THEN parser ELSE Append(parser, m)
         /\ UNCHANGED captures
      \/ /\ m.kind = "snapshot"
         /\ captures' = Append(captures, m.sequence)
         /\ parser' = IF captures = <<>> THEN Append(parser, CaptureMark) ELSE parser
  BY DEF ReceiveMessage
<1>4. attached
  BY <1>1, <1>2 DEF SurfaceTypes, PageGone, NewBridge
<1>5. /\ bridge \in Bridges(requests) /\ bridge.toPage \in Seq(Messages)
      /\ bridge.inFlightBytes \in Nat
  BY <1>1, BridgeTypes DEF BridgeOK, Bridges
<1>6. /\ m \in Messages
      /\ Bytes(bridge.toPage, "data") = Size(m, "data") + Bytes(Tail(bridge.toPage), "data")
      /\ Size(m, "data") \in Nat /\ Bytes(Tail(bridge.toPage), "data") \in Nat
  BY <1>2, <1>5, BytesTail
<1>7. /\ q.ready = bridge.ready /\ q.pending = bridge.pending /\ q.inFlight = bridge.inFlight
      /\ q.pendingBytes = bridge.pendingBytes /\ q.inFlightBytes = bridge.inFlightBytes
      /\ q.requests = bridge.requests /\ q.backpressured = bridge.backpressured
      /\ q.awaitingRestore = bridge.awaitingRestore /\ q.toPage = Tail(bridge.toPage)
  BY <1>5 DEF Received, Bridges
<1>8. /\ CaptureMark \in Messages /\ CaptureMark.kind = "capture" /\ Size(CaptureMark, "data") = 0
  BY DEF CaptureMark, Messages, Kinds, Text, Size
<1> HIDE DEF m, q
<1>9. Bytes(parser', "data") = Bytes(parser, "data") + Size(m, "data")
  <2>1. Bytes(parser, "data") \in Nat
    BY <1>1, BytesType
  <2>2. CASE parser' = Append(parser, m)
    BY <1>1, <1>6, <2>2, BytesAppend
  <2>3. CASE parser' = parser /\ Size(m, "data") = 0
    BY <2>1, <2>3
  <2>4. CASE parser' = Append(parser, CaptureMark) /\ Size(m, "data") = 0
    <3>1. PICK c \in Messages : c = CaptureMark /\ Size(c, "data") = 0
      BY <1>8
    <3>2. Bytes(Append(parser, c), "data") = Bytes(parser, "data") + Size(c, "data")
      BY <1>1, BytesAppend
    <3> QED
      BY <2>4, <3>1, <3>2
  <2>5. m.units = <<>> \/ m.kind = "snapshot" => Size(m, "data") = 0
    BY DEF Size
  <2> QED
    BY <1>3, <2>2, <2>3, <2>4, <2>5
<1>10. Awake(q, Air(toNative', parser'))
  <2>1. Air(toNative, parser) = Bytes(toNative, "ack") + Bytes(parser, "data")
        /\ Bytes(toNative, "ack") \in Nat /\ Bytes(parser, "data") \in Nat
    BY <1>1, AirType
  <2>2. Air(toNative', parser') = Air(toNative, parser) + Size(m, "data")
    <3>1. Air(toNative', parser') = Bytes(toNative, "ack") + Bytes(parser', "data")
      BY <1>2 DEF Air
    <3> QED
      BY <1>6, <1>9, <2>1, <3>1
  <2>3. Awake(bridge, Air(toNative, parser))
    BY <1>4 DEF WakeInv
  <2>4. bridge.inFlightBytes = Air(toNative, parser) + Bytes(bridge.toPage, "data")
    BY <2>3 DEF Awake, Counted
  <2>5. Counted(q, Air(toNative', parser'))
    BY <1>6, <1>7, <2>1, <2>2, <2>4 DEF Counted
  <2>6. Rested(q) /\ Fed(q) /\ Settled(q) /\ Watermarks(q)
    BY <1>7, <2>3 DEF Awake, Rested, Fed, Settled, Idle, Watermarks, Buffered
  <2> QED
    BY <2>5, <2>6 DEF Awake
<1>11. ~bridge'.ready => HasKind(toNative', "ready")
  BY <1>2, <1>4, <1>7 DEF WakeInv
<1>12. captures' # <<>> => HasKind(parser', "capture")
  <2>1. captures # <<>> => HasKind(parser, "capture")
    BY DEF WakeInv
  <2>2. HasKind(parser, "capture") => HasKind(Append(parser, m), "capture")
    BY <1>1, HasAppend
  <2>3. HasKind(Append(parser, CaptureMark), "capture")
    BY <1>1, <1>8, HasAppend
  <2> QED
    BY <1>3, <2>1, <2>2, <2>3
<1> QED
  BY <1>2, <1>10, <1>11, <1>12 DEF WakeInv

LEMMA ParseWakes ==
  ASSUME TypeInv, WakeInv, Parse
  PROVE  WakeInv'
<1> DEFINE m == Head(parser)
<1>1. /\ SurfaceTypes /\ requests \in Nat /\ toNative \in Seq(Messages)
      /\ parser \in Seq(Messages) /\ parser \in Seq(ParserMessages)
      /\ captures \in Seq(1..requests) /\ screen \in Text
  BY WakeTypes
<1>2. /\ parser # <<>> /\ parser' = Tail(parser)
      /\ UNCHANGED <<transport, attached, buffer, bridge>>
  BY DEF Parse, flow
<1>3. \/ /\ m.kind = "data" /\ UNCHANGED captures
         /\ toNative' = Append(toNative, [kind |-> "ack", sequence |-> m.sequence,
                                          units |-> m.units])
      \/ /\ m.kind = "restore" /\ UNCHANGED captures
         /\ toNative' = Append(toNative, [kind |-> "restored", sequence |-> 0, units |-> <<>>])
      \/ /\ m.kind = "capture" /\ captures' = <<>>
         /\ toNative' = toNative \/ toNative' = toNative \o Replies
  BY DEF Parse, Send, Replies
<1>4. attached
  BY <1>1, <1>2 DEF SurfaceTypes, PageGone
<1>5. /\ m \in Messages /\ Bytes(parser, "data") = Size(m, "data") + Bytes(Tail(parser), "data")
      /\ Size(m, "data") \in Nat /\ Bytes(Tail(parser), "data") \in Nat
  BY <1>1, <1>2, BytesTail
<1>6. Bytes(toNative, "ack") \in Nat
  BY <1>1, BytesType
<1>7. /\ Replies \in Seq(Messages)
      /\ Bytes(Replies, "ack") = 0
  <2>1. /\ Replies \in Seq(NativeMessages(requests)) /\ Len(Replies) = Len(captures)
        /\ DOMAIN captures = 1..Len(captures)
        /\ \A i \in DOMAIN captures : Replies[i].kind = "snapshot"
    BY <1>1, RepliesType, LenProperties
  <2>2. Replies \in Seq(Messages)
    BY <2>1, MessageSequences
  <2>3. \A i \in 1..Len(Replies) : Replies[i].kind # "ack"
    BY <2>1
  <2> QED
    BY <2>2, <2>3, NoBytes
<1>8. /\ Bytes(toNative', "ack") = Bytes(toNative, "ack") + Size(m, "data")
      /\ HasKind(toNative, "ready") => HasKind(toNative', "ready")
  <2>1. CASE m.kind = "data"
    <3>1. PICK e : e = [kind |-> "ack", sequence |-> m.sequence, units |-> m.units]
      OBVIOUS
    <3>2. e \in Messages /\ Size(e, "ack") = Size(m, "data")
      BY <1>5, <2>1, <3>1 DEF Messages, Kinds, Size
    <3>3. toNative' = Append(toNative, e)
      BY <1>3, <2>1, <3>1
    <3>4. Bytes(Append(toNative, e), "ack") = Bytes(toNative, "ack") + Size(e, "ack")
      BY <1>1, <3>2, BytesAppend
    <3>5. HasKind(toNative, "ready") => HasKind(Append(toNative, e), "ready")
      BY <1>1, HasAppend
    <3> QED
      BY <3>2, <3>3, <3>4, <3>5
  <2>2. CASE m.kind = "restore"
    <3>1. PICK e : e = [kind |-> "restored", sequence |-> 0, units |-> <<>>]
      OBVIOUS
    <3>2. e \in Messages /\ Size(e, "ack") = 0 /\ Size(m, "data") = 0
      BY <2>2, <3>1 DEF Messages, Kinds, Text, Size
    <3>3. toNative' = Append(toNative, e)
      BY <1>3, <2>2, <3>1
    <3>4. Bytes(Append(toNative, e), "ack") = Bytes(toNative, "ack") + Size(e, "ack")
      BY <1>1, <3>2, BytesAppend
    <3>5. HasKind(toNative, "ready") => HasKind(Append(toNative, e), "ready")
      BY <1>1, HasAppend
    <3> QED
      BY <3>2, <3>3, <3>4, <3>5
  <2>3. CASE m.kind = "capture"
    <3>1. Size(m, "data") = 0
      BY <2>3 DEF Size
    <3>2. Bytes(toNative \o Replies, "ack") = Bytes(toNative, "ack") + Bytes(Replies, "ack")
      BY <1>1, <1>7, BytesConcat
    <3>3. HasKind(toNative, "ready") => HasKind(toNative \o Replies, "ready")
      BY <1>1, <1>7, HasConcat
    <3>4. CASE toNative' = toNative
      BY <1>6, <3>1, <3>4
    <3>5. CASE toNative' = toNative \o Replies
      BY <1>6, <1>7, <3>1, <3>2, <3>3, <3>5
    <3> QED
      BY <1>3, <2>3, <3>4, <3>5
  <2> QED
    BY <1>3, <2>1, <2>2, <2>3
<1>9. Air(toNative', parser') = Air(toNative, parser)
  <2>1. Air(toNative', parser') = Bytes(toNative', "ack") + Bytes(Tail(parser), "data")
    BY <1>2 DEF Air
  <2>2. Air(toNative, parser) = Bytes(toNative, "ack") + Bytes(parser, "data")
    BY DEF Air
  <2> QED
    BY <1>5, <1>6, <1>8, <2>1, <2>2
<1>10. Awake(bridge', Air(toNative', parser'))
  BY <1>2, <1>4, <1>9 DEF WakeInv
<1>11. ~bridge'.ready => HasKind(toNative', "ready")
  BY <1>2, <1>4, <1>8 DEF WakeInv
<1>12. captures' # <<>> => HasKind(parser', "capture")
  <2>1. CASE m.kind = "capture"
    BY <1>3, <2>1
  <2>2. CASE m.kind # "capture"
    <3>1. captures' = captures
      BY <1>3, <2>2
    <3>2. HasKind(parser, "capture") => HasKind(Tail(parser), "capture")
      BY <1>1, <1>2, <2>2, HasTail
    <3> QED
      BY <1>2, <3>1, <3>2 DEF WakeInv
  <2> QED
    BY <2>1, <2>2
<1> QED
  BY <1>2, <1>10, <1>11, <1>12 DEF WakeInv

LEMMA WakeStep ==
  ASSUME TypeInv, FlowInv, WakeInv, [Next]_vars, ~EmptyTexts
  PROVE  WakeInv'
<1>1. CASE Next
  BY <1>1, LoopWakes, WritingWakes, CloseWakes, RawWakes, ReceiveWakes, ParseWakes, ComingWakes,
     CaptureWakes
     DEF Next, Loop, Events, Page, User
<1>2. CASE UNCHANGED vars
  <2>1. UNCHANGED <<attached, bridge, buffer, toNative, parser, captures, transport>>
    BY <1>2 DEF vars, flow, page
  <2> QED
    BY <2>1, WakeStays
<1> QED
  BY <1>1, <1>2

\* While there are no empty texts: the bridge counts what is in flight as it is, lets nothing
\* wait that it might send, and is over its watermark only by what it holds.
THEOREM WakesAlways ==
  ASSUME ~EmptyTexts
  PROVE  Spec => []WakeInv
<1>1. Init => WakeInv
  <2> SUFFICES ASSUME Init PROVE WakeInv
    OBVIOUS
  <2>1. PICK e : e = <<>>
    OBVIOUS
  <2>2. ~attached /\ captures = e /\ transport = e /\ buffer.chunks = e
    BY <2>1 DEF Init, NewBuffer
  <2>3. Short(e)
    BY <2>1 DEF Short
  <2> QED
    BY <2>1, <2>2, <2>3 DEF WakeInv
<1>2. TypeInv /\ FlowInv /\ WakeInv /\ [Next]_vars => WakeInv'
  BY WakeStep
<1> QED
  BY <1>1, <1>2, TypesAlways, FlowAlways, PTL DEF Spec

\* No message is under way between the bridge and its page.
Quiet == attached /\ toNative = <<>> /\ parser = <<>> /\ bridge.toPage = <<>>

\* TerminalBridge waits for nothing but messages: when none is under way, it has heard of the
\* page, has sent all its output and all its requests, has had every acknowledgement, and is
\* under its watermark; and the page owes no snapshot.
QuietHoldsNothing ==
  Quiet =>
    /\ bridge.ready /\ ~bridge.awaitingRestore /\ bridge.restore = <<>>
    /\ bridge.pending = <<>> /\ bridge.inFlight = <<>> /\ bridge.inFlightBytes = 0
    /\ bridge.requests = <<>> /\ captures = <<>>
    /\ ~bridge.backpressured

\* Then a session that has heard all that it was told is not paused (run_session's select).
QuietRuns ==
  Quiet /\ session = "live" /\ connected = "yes" /\ pauseRx = <<>> /\ ~rejected
  => ~outputPaused

\* And the terminal shows every unit that has reached the surface and was not lost.
QuietShowsAll ==
  Quiet /\ Waiting = <<>> => Range(screen) = (1..units) \ (gone \cup bridge.dropped)

LEMMA QuietIdle ==
  ASSUME TypeInv, FlowInv, WakeInv, Quiet, ~EmptyTexts
  PROVE  /\ Idle(bridge) /\ bridge.restore = <<>> /\ bridge.inFlightBytes = 0
         /\ bridge.requests = <<>> /\ captures = <<>> /\ ~bridge.backpressured
<1>1. /\ requests \in Nat /\ BridgeOK(bridge, requests) /\ bridge \in Bridges(requests)
  BY WakeTypes DEF BridgeOK
<1>2. PICK e : e = <<>>
  OBVIOUS
<1>3. /\ attached /\ toNative = e /\ parser = e /\ bridge.toPage = e
  BY <1>2 DEF Quiet
<1>4. ~HasKind(e, "ready") /\ ~HasKind(e, "capture")
  BY <1>2 DEF HasKind
<1>5. bridge.ready /\ captures = <<>> /\ Awake(bridge, Air(toNative, parser))
  BY <1>3, <1>4 DEF WakeInv
<1>6. PageInv(bridge, toNative, parser, screen, Waiting, units, gone, marks)
  BY <1>3 DEF FlowInv, SurfaceInv
<1>7. e \o e = e /\ \A kind : SequencesOf(e, kind) = e
  BY <1>2, NumbersEmpty
<1>8. bridge.inFlight = <<>>
  <2>1. bridge.inFlight = Acks(toNative, parser) \o SequencesOf(bridge.toPage, "data")
    BY <1>6, Zenon DEF PageInv, AcksOK
  <2> QED
    BY <1>2, <1>3, <1>7, <2>1, Zenon DEF Acks
<1>9. ~bridge.awaitingRestore
  <2>1. Restores(toNative, parser) \o SequencesOf(bridge.toPage, "restore")
          = IF bridge.awaitingRestore THEN <<0>> ELSE <<>>
    BY <1>6, Zenon DEF PageInv, RestoresOK
  <2>2. Restores(toNative, parser) \o SequencesOf(bridge.toPage, "restore") = e
    BY <1>3, <1>7, Zenon DEF Restores
  <2>3. <<0>> # e
    BY <1>2
  <2> QED
    BY <2>1, <2>2, <2>3
<1>10. bridge.restore = <<>>
  BY <1>1, <1>5 DEF BridgeOK
<1>11. bridge.pending = <<>> /\ bridge.inFlightBytes = 0
  BY <1>5, <1>8 DEF Awake, Fed, Rested
<1>12. Idle(bridge)
  BY <1>5, <1>8, <1>9, <1>11 DEF Idle
<1>13. bridge.requests = <<>>
  BY <1>5, <1>12 DEF Awake, Settled
<1>14. bridge.pendingBytes = 0
  <2>1. FlattenSeq(bridge.pending) = <<>>
    BY <1>11, FlattenEmpty
  <2> QED
    BY <1>1, <2>1 DEF BridgeOK
<1>15. ~bridge.backpressured
  <2>1. Buffered(bridge) = 0
    BY <1>11, <1>14 DEF Buffered
  <2>2. bridge.backpressured => Buffered(bridge) > LowWater
    BY <1>5 DEF Awake, Watermarks
  <2> QED
    BY <2>1, <2>2, LimitsAssumption
<1> QED
  BY <1>5, <1>10, <1>11, <1>12, <1>13, <1>15

\* No wake-up is lost: whatever waits in the bridge waits for a message that is under way.
THEOREM NoWakeUpIsLost ==
  ASSUME ~EmptyTexts
  PROVE  Spec => []QuietHoldsNothing
<1>1. TypeInv /\ FlowInv /\ WakeInv => QuietHoldsNothing
  BY QuietIdle DEF QuietHoldsNothing, Idle
<1> QED
  BY <1>1, TypesAlways, FlowAlways, WakesAlways, PTL

\* No resume is forgotten: a paused session is one that the bridge still holds output of, or
\* that has still to hear of it, or whose channel was full.
THEOREM NoResumeIsForgotten ==
  ASSUME ~EmptyTexts
  PROVE  Spec => []QuietRuns
<1>1. ASSUME TypeInv, FlowInv, WakeInv, PauseInv
      PROVE  QuietRuns
  <2> SUFFICES ASSUME Quiet, session = "live", connected = "yes", pauseRx = <<>>, ~rejected
               PROVE  ~outputPaused
    BY DEF QuietRuns
  <2>1. ~bridge.backpressured
    BY <1>1, QuietIdle
  <2>2. ~buffer.bridgePaused /\ ~buffer.detachedPaused
    BY <1>1, <2>1 DEF PauseInv, FollowsOK, Quiet
  <2>3. outputPaused = Paused(buffer)
    BY <1>1 DEF PauseInv, ToldOK, Told
  <2> QED
    BY <2>2, <2>3 DEF Paused
<1> QED
  BY <1>1, TypesAlways, FlowAlways, WakesAlways, PauseAlways, PTL

\* All is shown: what has reached the surface is on the terminal once the messages are through.
THEOREM AllIsShown ==
  ASSUME ~EmptyTexts
  PROVE  Spec => []QuietShowsAll
<1>1. ASSUME TypeInv, FlowInv, WakeInv
      PROVE  QuietShowsAll
  <2> SUFFICES ASSUME Quiet, Waiting = <<>>
               PROVE  Range(screen) = (1..units) \ (gone \cup bridge.dropped)
    BY DEF QuietShowsAll
  <2>1. PageInv(bridge, toNative, parser, screen, Waiting, units, gone, marks)
    BY <1>1 DEF FlowInv, SurfaceInv, Quiet
  <2>2. (screen \o UnitsOf(parser)) \o Line(bridge) = screen
    BY <1>1, <2>1, QuietIdle, IdleFront
  <2>3. Range(screen \o Waiting) = (1..units) \ (gone \cup bridge.dropped)
    BY <2>1, <2>2 DEF PageInv, StreamOK
  <2>4. screen \in Text /\ screen \o <<>> = screen
    BY <1>1, WakeTypes, TextEmpty
  <2> QED
    BY <2>3, <2>4
<1> QED
  BY <1>1, TypesAlways, FlowAlways, WakesAlways, PTL
=============================================================================
