-------------------------- MODULE SshSessionProofs --------------------------
(***************************************************************************)
(* The safety of SshSession, for every set of hosts and every number of    *)
(* sessions and prompts.                                                   *)
(***************************************************************************)
EXTENDS SshSession, SequenceTheorems, TLAPS

TransportEvents == {"marker", "close", "error"}
AuthEvents == {"prompt", "banner"}

Over == {"finished", "ended"}
Opened == {"shell", "dying"} \cup Over

Has(q, e) == \E k \in 1..Len(q) : q[k] = e
AtMostOnce(q, e) == \A k, l \in 1..Len(q) : q[k] = e /\ q[l] = e => k = l

TaskTypes ==
  /\ phase \in [Sessions -> Phases]
  /\ told \in [Sessions -> BOOLEAN]
  /\ hostKeyRx \in [Sessions -> {"empty", "yes", "no"}]
  /\ authRx \in [Sessions -> BOOLEAN]
  /\ asks \in [Sessions -> 0..MaxAsks]
  /\ commands \in [Sessions -> Nat]

QueueTypes ==
  /\ control \in [Sessions -> Seq(ControlEvents)]
  /\ transport \in [Sessions -> Seq(TransportEvents)]
  /\ auth \in [Sessions -> Seq(AuthEvents)]

UiTypes ==
  /\ known \in [Hosts -> {"none", "match", "other"}]
  /\ target \in [Sessions -> Hosts \cup {None}]
  /\ client \in Nat /\ owner \in [Sessions -> Nat]
  /\ sessionId \in Sessions \cup {None}
  /\ connected \in BOOLEAN /\ waitingAuth \in BOOLEAN
  /\ hostLine \in Hosts \cup {None}
  /\ mode \in Modes /\ state \in States
  /\ pendingKeypush \in BOOLEAN /\ marker \in Sessions \cup {None}
  /\ timer \in BOOLEAN /\ strayTimers \in Nat
  /\ disposed \in BOOLEAN
  /\ wanted \in [Sessions -> BOOLEAN] /\ foreign \in BOOLEAN

\* What is in a queue was sent in an earlier phase, a prompt with no answer on its way.
ControlQueued(s) ==
  /\ Has(control[s], "CONNECTED") => phase[s] \in Opened
  /\ Has(control[s], "ERROR") => phase[s] \in {"dying"} \cup Over
  /\ Has(control[s], "HOST_KEY_CHANGED") => phase[s] \in Over

TransportQueued(s) ==
  Has(transport[s], "close") \/ Has(transport[s], "error") => phase[s] \in Over

AuthQueued(s) ==
  /\ Has(auth[s], "prompt") => phase[s] \in {"asking"} \cup Over /\ ~authRx[s]
  /\ AtMostOnce(auth[s], "prompt")
  /\ authRx[s] => phase[s] \in {"asking", "finished"}

Queued == \A s \in Sessions : ControlQueued(s) /\ TransportQueued(s) /\ AuthQueued(s)

\* The prompt on show is the one that the task waits on.
Prompted ==
  mode = "AUTH_INPUT" =>
    /\ waitingAuth /\ sessionId \in Sessions
    /\ phase[sessionId] \in {"asking"} \cup Over
    /\ ~authRx[sessionId]
    /\ ~Has(auth[sessionId], "prompt")

\* The host-key question is asked once and its answer goes to the task that asked.
KeyAsked(s) ==
  /\ Has(control[s], "HOST_KEY_PROMPT") =>
       phase[s] \in {"hostkey"} \cup Over /\ hostKeyRx[s] = "empty"
  /\ AtMostOnce(control[s], "HOST_KEY_PROMPT")
  /\ hostKeyRx[s] # "empty" => phase[s] \in {"hostkey", "finished"}
  /\ hostKeyRx[s] = "yes" => known[target[s]] = "match"
  /\ phase[s] \in Checked => known[target[s]] = "match"
  /\ phase[s] # "unused" => target[s] \in Hosts

KeyShown ==
  mode = "HOST_KEY_INPUT" =>
    /\ sessionId \in Sessions
    /\ hostLine = target[sessionId]
    /\ hostKeyRx[sessionId] = "empty"
    /\ ~Has(control[sessionId], "HOST_KEY_PROMPT")
    /\ phase[sessionId] \in {"hostkey"} \cup Over

LetGo(s) == phase[s] \in Live \ {"dying"} /\ s # sessionId => told[s]

Shown ==
  mode = "CONNECTED" => connected /\ sessionId \in Sessions /\ phase[sessionId] \in Opened

\* A task behind the local prompt was told to disconnect, ends, or has the host key refused.
Idle(s) ==
  mode = "IDLE" /\ phase[s] \in Live \ {"dying"} =>
    told[s] \/ (s = sessionId /\ phase[s] = "hostkey" /\ hostKeyRx[s] = "no")

Own == ~foreign => KeyShown /\ Shown /\ \A s \in Sessions : KeyAsked(s) /\ LetGo(s) /\ Idle(s)

SInv == TaskTypes /\ QueueTypes /\ UiTypes /\ Queued /\ Prompted /\ Own

-----------------------------------------------------------------------------
(* Queues.                                                                 *)

LEMMA HasAppend ==
  ASSUME NEW S, NEW q \in Seq(S), NEW e \in S
  PROVE  /\ Append(q, e) \in Seq(S)
         /\ Len(Append(q, e)) = Len(q) + 1
         /\ \A x : Has(Append(q, e), x) <=> Has(q, x) \/ x = e
         /\ \A x : AtMostOnce(q, x) /\ (x = e => ~Has(q, x)) => AtMostOnce(Append(q, e), x)
<1>1. /\ Append(q, e) \in Seq(S) /\ Len(q) \in Nat /\ Len(Append(q, e)) = Len(q) + 1
      /\ \A k \in 1..Len(q) : Append(q, e)[k] = q[k]
      /\ Append(q, e)[Len(q) + 1] = e
  BY AppendProperties, LenProperties
<1> DEFINE r == Append(q, e)
<1> HIDE DEF r
<1>2. /\ Len(r) = Len(q) + 1 /\ Len(q) \in Nat
      /\ \A k \in 1..Len(q) : r[k] = q[k] /\ k \in 1..Len(r)
      /\ r[Len(q) + 1] = e /\ Len(q) + 1 \in 1..Len(r)
      /\ \A k \in 1..Len(r) : k \in 1..Len(q) \/ k = Len(q) + 1
  BY <1>1 DEF r
<1>3. ASSUME NEW x PROVE Has(r, x) <=> Has(q, x) \/ x = e
  BY <1>2 DEF Has
<1>4. ASSUME NEW x, AtMostOnce(q, x), x = e => ~Has(q, x) PROVE AtMostOnce(r, x)
  BY <1>2, <1>4 DEF Has, AtMostOnce
<1> QED
  BY <1>1, <1>3, <1>4 DEF r

LEMMA HasTail ==
  ASSUME NEW S, NEW q \in Seq(S), q # <<>>
  PROVE  /\ Tail(q) \in Seq(S) /\ Len(Tail(q)) <= Len(q)
         /\ Head(q) \in S /\ Has(q, Head(q))
         /\ \A x : Has(Tail(q), x) => Has(q, x)
         /\ \A x : AtMostOnce(q, x) => AtMostOnce(Tail(q), x)
         /\ AtMostOnce(q, Head(q)) => ~Has(Tail(q), Head(q))
<1>1. /\ Head(q) \in S /\ Tail(q) \in Seq(S) /\ Len(q) \in Nat /\ Len(q) >= 1
      /\ Len(Tail(q)) = Len(q) - 1 /\ Head(q) = q[1]
      /\ \A k \in 1..Len(Tail(q)) : Tail(q)[k] = q[k + 1]
  BY HeadTailProperties, LenProperties, EmptySeq
<1> DEFINE r == Tail(q)
           h == Head(q)
<1> HIDE DEF r, h
<1>2. /\ Len(r) = Len(q) - 1 /\ Len(q) \in Nat /\ Len(q) >= 1 /\ h = q[1]
      /\ \A k \in 1..Len(r) : r[k] = q[k + 1] /\ k + 1 \in 1..Len(q) /\ k + 1 # 1
  BY <1>1 DEF r, h
<1>3. Has(q, h)
  BY <1>2 DEF Has
<1>4. ASSUME NEW x PROVE Has(r, x) => Has(q, x)
  BY <1>2 DEF Has
<1>5. ASSUME NEW x, AtMostOnce(q, x) PROVE AtMostOnce(r, x)
  <2>1. ASSUME NEW k \in 1..Len(r), NEW l \in 1..Len(r), r[k] = x, r[l] = x PROVE k = l
    <3>1. k + 1 = l + 1
      BY <1>2, <1>5, <2>1 DEF AtMostOnce
    <3> QED
      BY <3>1
  <2> QED
    BY <2>1 DEF AtMostOnce
<1>6. ASSUME AtMostOnce(q, h) PROVE ~Has(r, h)
  <2>1. ASSUME NEW k \in 1..Len(r), r[k] = h PROVE FALSE
    <3>1. q[k + 1] = h /\ q[1] = h /\ k + 1 \in 1..Len(q) /\ 1 \in 1..Len(q)
      BY <1>2, <2>1
    <3> QED
      BY <1>2, <1>6, <3>1 DEF AtMostOnce
  <2> QED
    BY <2>1 DEF Has
<1> QED
  BY <1>1, <1>3, <1>4, <1>5, <1>6 DEF r, h

\* Queues r are queues q with e sent by s, or with the first event of s taken.
Sends(S, q, r, s, e) ==
  /\ r \in [Sessions -> Seq(S)]
  /\ \A t \in Sessions : Len(r[t]) = IF t = s THEN Len(q[t]) + 1 ELSE Len(q[t])
  /\ \A t \in Sessions, x \in S : Has(r[t], x) <=> Has(q[t], x) \/ (t = s /\ x = e)
  /\ \A t \in Sessions, x \in S :
       AtMostOnce(q[t], x) /\ (t = s /\ x = e => ~Has(q[t], x)) => AtMostOnce(r[t], x)

Takes(S, q, r, s) ==
  /\ r \in [Sessions -> Seq(S)]
  /\ \A t \in Sessions : Len(r[t]) <= Len(q[t])
  /\ Head(q[s]) \in S /\ Has(q[s], Head(q[s]))
  /\ \A t \in Sessions, x \in S : Has(r[t], x) => Has(q[t], x)
  /\ \A t \in Sessions, x \in S : AtMostOnce(q[t], x) => AtMostOnce(r[t], x)
  /\ AtMostOnce(q[s], Head(q[s])) => ~Has(r[s], Head(q[s]))

LEMMA Sent ==
  ASSUME NEW S, NEW q \in [Sessions -> Seq(S)], NEW s \in Sessions, NEW e \in S, NEW r,
         r = [q EXCEPT ![s] = Append(@, e)]
  PROVE  Sends(S, q, r, s, e)
<1>1. q[s] \in Seq(S)
  OBVIOUS
<1>2. \A t \in Sessions : r[t] = IF t = s THEN Append(q[s], e) ELSE q[t]
  OBVIOUS
<1> QED
  BY <1>1, <1>2, HasAppend DEF Sends

LEMMA Taken ==
  ASSUME NEW S, NEW q \in [Sessions -> Seq(S)], NEW s \in Sessions, NEW r,
         r = [q EXCEPT ![s] = Tail(@)], q[s] # <<>>
  PROVE  Takes(S, q, r, s)
<1>1. q[s] \in Seq(S)
  OBVIOUS
<1>2. \A t \in Sessions : r[t] = IF t = s THEN Tail(q[s]) ELSE q[t]
  OBVIOUS
<1>3. \A t \in Sessions : Len(q[t]) \in Nat
  OBVIOUS
<1> QED
  BY <1>1, <1>2, <1>3, HasTail DEF Takes

-----------------------------------------------------------------------------
(* The task of session s moves: what it does to the others, and what it must keep.  *)

Untouched(t) ==
  /\ phase'[t] = phase[t] /\ told'[t] = told[t] /\ hostKeyRx'[t] = hostKeyRx[t] /\ authRx'[t] = authRx[t]
  /\ control'[t] = control[t] /\ transport'[t] = transport[t] /\ auth'[t] = auth[t]

Moves(s) ==
  /\ TaskTypes' /\ QueueTypes' /\ UNCHANGED uiSide
  /\ \A t \in Sessions \ {s} : Untouched(t)
  /\ (ControlQueued(s) /\ TransportQueued(s) /\ AuthQueued(s))'

KeepsPrompt(s) ==
  phase[s] \in {"asking"} \cup Over /\ ~authRx[s] =>
    /\ phase'[s] \in {"asking"} \cup Over /\ ~authRx'[s]
    /\ Has(auth'[s], "prompt") => Has(auth[s], "prompt")

KeepsKey(s) ==
  /\ KeyAsked(s) => KeyAsked(s)'
  /\ hostKeyRx[s] = "empty" /\ ~Has(control[s], "HOST_KEY_PROMPT") /\ phase[s] \in {"hostkey"} \cup Over =>
       /\ hostKeyRx'[s] = "empty" /\ ~Has(control'[s], "HOST_KEY_PROMPT")
       /\ phase'[s] \in {"hostkey"} \cup Over

KeepsEnding(s) ==
  /\ phase[s] \in Opened => phase'[s] \in Opened
  /\ phase'[s] \in Live \ {"dying"} =>
       /\ phase[s] \in Live \ {"dying"}
       /\ told[s] => told'[s]
       /\ phase[s] = "hostkey" /\ hostKeyRx[s] = "no" => phase'[s] = "hostkey" /\ hostKeyRx'[s] = "no"

LEMMA TaskMoves ==
  ASSUME SInv, NEW s \in Sessions, Moves(s), KeepsPrompt(s), KeepsKey(s), KeepsEnding(s)
  PROVE  SInv'
<1>1. /\ UNCHANGED <<known, target, client, owner, sessionId, connected, waitingAuth, hostLine,
                      mode, state, pendingKeypush, marker, timer, strayTimers, disposed, wanted, foreign>>
      /\ \A t \in Sessions \ {s} : Untouched(t)
  BY DEF Moves, uiSide, handle, view, keypush
<1>2. UiTypes'
  BY <1>1 DEF SInv, UiTypes
<1>3. Queued'
  <2>1. ASSUME NEW t \in Sessions \ {s} PROVE (ControlQueued(t) /\ TransportQueued(t) /\ AuthQueued(t))'
    BY <1>1 DEF SInv, Queued, Untouched, ControlQueued, TransportQueued, AuthQueued
  <2> QED
    BY <2>1 DEF Queued, Moves
<1>4. Prompted'
  <2>1. CASE sessionId = s
    BY <1>1, <2>1 DEF SInv, Prompted, KeepsPrompt
  <2>2. CASE sessionId # s
    BY <1>1, <2>2 DEF SInv, Prompted, Untouched
  <2> QED
    BY <2>1, <2>2
<1>5. Own'
  <2>1. SUFFICES ASSUME ~foreign'
                 PROVE  (KeyShown /\ Shown /\ \A t \in Sessions : KeyAsked(t) /\ LetGo(t) /\ Idle(t))'
    BY DEF Own
  <2>2. KeyShown /\ Shown /\ \A t \in Sessions : KeyAsked(t) /\ LetGo(t) /\ Idle(t)
    BY <1>1, <2>1 DEF SInv, Own
  <2>3. KeyShown'
    <3>1. CASE sessionId = s
      BY <1>1, <2>2, <3>1 DEF KeyShown, KeepsKey
    <3>2. CASE sessionId # s
      BY <1>1, <2>2, <3>2 DEF KeyShown, Untouched
    <3> QED
      BY <3>1, <3>2
  <2>4. Shown'
    <3>1. CASE sessionId = s
      BY <1>1, <2>2, <3>1 DEF Shown, KeepsEnding
    <3>2. CASE sessionId # s
      BY <1>1, <2>2, <3>2 DEF Shown, Untouched
    <3> QED
      BY <3>1, <3>2
  <2>5. ASSUME NEW t \in Sessions \ {s} PROVE (KeyAsked(t) /\ LetGo(t) /\ Idle(t))'
    BY <1>1, <2>2 DEF Untouched, KeyAsked, LetGo, Idle
  <2>6. (KeyAsked(s) /\ LetGo(s) /\ Idle(s))'
    <3>1. KeyAsked(s)'
      BY <2>2 DEF KeepsKey
    <3>2. LetGo(s)'
      BY <1>1, <2>2 DEF KeepsEnding, LetGo
    <3>3. Idle(s)'
      BY <1>1, <2>2 DEF KeepsEnding, Idle
    <3> QED
      BY <3>1, <3>2, <3>3
  <2> QED
    BY <2>3, <2>4, <2>5, <2>6
<1> QED
  BY <1>2, <1>3, <1>4, <1>5 DEF SInv, Moves

LEMMA ServerAsksInv ==
  ASSUME SInv, NEW s \in Sessions, ServerAsks(s)
  PROVE  SInv'
<1>1. PICK e \in AuthEvents :
        SendAuth(s, e) /\ (e = "prompt" => Enter(s, "asking")) /\ (e # "prompt" => UNCHANGED phase)
  BY DEF ServerAsks, AuthEvents
<1>2. Sends(AuthEvents, auth, auth', s, e)
  BY <1>1, Sent DEF SInv, QueueTypes, SendAuth
<1>3. /\ phase[s] = "exchanging" /\ phase \in [Sessions -> Phases]
      /\ UNCHANGED <<told, hostKeyRx, authRx, commands, control, transport>> /\ UNCHANGED uiSide
      /\ phase' = [phase EXCEPT ![s] = phase'[s]] /\ phase'[s] = IF e = "prompt" THEN "asking" ELSE "exchanging"
  BY <1>1 DEF ServerAsks, Enter, SInv, TaskTypes
<1>4. asks' \in [Sessions -> 0..MaxAsks]
  <2>1. asks[s] + 1 \in 0..MaxAsks
    BY BoundsAssumption DEF ServerAsks, SInv, TaskTypes
  <2> QED
    BY <2>1 DEF ServerAsks, SInv, TaskTypes
<1>5. TaskTypes' /\ QueueTypes'
  <2>1. phase' \in [Sessions -> Phases]
    BY <1>3 DEF Phases
  <2>2. TaskTypes'
    BY <1>3, <1>4, <2>1 DEF SInv, TaskTypes
  <2>3. QueueTypes'
    BY <1>2, <1>3 DEF SInv, QueueTypes, Sends
  <2> QED
    BY <2>2, <2>3
<1>6. \A t \in Sessions \ {s} : Untouched(t)
  BY <1>1, <1>3 DEF Untouched, SendAuth, SInv, QueueTypes
<1>7. (ControlQueued(s) /\ TransportQueued(s) /\ AuthQueued(s))'
  <2>1. ControlQueued(s) /\ TransportQueued(s) /\ AuthQueued(s)
    BY DEF SInv, Queued
  <2>2. ControlQueued(s)'
    BY <1>3, <2>1 DEF ControlQueued, Over, Opened
  <2>3. TransportQueued(s)'
    BY <1>3, <2>1 DEF TransportQueued, Over
  <2>4. AuthQueued(s)'
    BY <1>2, <1>3, <2>1 DEF AuthQueued, Over, Sends, AuthEvents
  <2> QED
    BY <2>2, <2>3, <2>4
<1>8. KeepsPrompt(s) /\ KeepsEnding(s)
  BY <1>3 DEF KeepsPrompt, KeepsEnding, Over, Opened, Live, Checked
<1>9. KeepsKey(s)
  BY <1>3 DEF KeepsKey, KeyAsked, Over, Checked, uiSide
<1> QED
  BY <1>3, <1>5, <1>6, <1>7, <1>8, <1>9, TaskMoves DEF Moves

\* What a step of the task that sends a control event, or an event of the transport, leaves alone.
LEMMA ControlSent ==
  ASSUME SInv, NEW s \in Sessions, NEW p \in Phases, NEW e \in ControlEvents,
         Enter(s, p), SendControl(s, e), hostKeyRx' \in {hostKeyRx, [hostKeyRx EXCEPT ![s] = "empty"]},
         UNCHANGED <<told, authRx, asks, commands, transport, auth>>
  PROVE  /\ TaskTypes' /\ QueueTypes' /\ \A t \in Sessions \ {s} : Untouched(t)
         /\ Sends(ControlEvents, control, control', s, e) /\ phase'[s] = p
         /\ hostKeyRx'[s] \in {hostKeyRx[s], "empty"}
<1>1. Sends(ControlEvents, control, control', s, e)
  BY Sent DEF SInv, QueueTypes, SendControl
<1>2. phase'[s] = p /\ hostKeyRx'[s] \in {hostKeyRx[s], "empty"}
  BY DEF SInv, TaskTypes, Enter
<1>3. TaskTypes'
  BY DEF SInv, TaskTypes, Enter
<1>4. QueueTypes'
  BY <1>1 DEF SInv, QueueTypes, Sends
<1>5. \A t \in Sessions \ {s} : Untouched(t)
  BY DEF SInv, TaskTypes, QueueTypes, Untouched, Enter, SendControl
<1> QED
  BY <1>1, <1>2, <1>3, <1>4, <1>5

LEMMA TransportSent ==
  ASSUME SInv, NEW s \in Sessions, NEW p \in Phases, NEW e \in TransportEvents,
         phase' = [phase EXCEPT ![s] = p], SendTransport(s, e), commands' \in [Sessions -> Nat],
         UNCHANGED <<told, hostKeyRx, authRx, asks, control, auth>>
  PROVE  /\ TaskTypes' /\ QueueTypes' /\ \A t \in Sessions \ {s} : Untouched(t)
         /\ Sends(TransportEvents, transport, transport', s, e) /\ phase'[s] = p
<1>1. Sends(TransportEvents, transport, transport', s, e)
  BY Sent DEF SInv, QueueTypes, SendTransport
<1>2. phase'[s] = p
  BY DEF SInv, TaskTypes
<1>3. TaskTypes'
  BY DEF SInv, TaskTypes
<1>4. QueueTypes'
  BY <1>1 DEF SInv, QueueTypes, Sends
<1>5. \A t \in Sessions \ {s} : Untouched(t)
  BY DEF SInv, TaskTypes, QueueTypes, Untouched, SendTransport
<1> QED
  BY <1>1, <1>2, <1>3, <1>4, <1>5

LEMMA NothingSent ==
  ASSUME SInv, NEW s \in Sessions, NEW p \in Phases, Enter(s, p),
         told' \in {told, [told EXCEPT ![s] = FALSE]},
         hostKeyRx' \in {hostKeyRx, [hostKeyRx EXCEPT ![s] = "empty"]},
         authRx' \in {authRx, [authRx EXCEPT ![s] = FALSE]},
         commands' \in {commands, [commands EXCEPT ![s] = 0]},
         asks' \in {asks, [asks EXCEPT ![s] = MaxAsks]},
         UNCHANGED <<control, transport, auth>>
  PROVE  /\ TaskTypes' /\ QueueTypes' /\ \A t \in Sessions \ {s} : Untouched(t)
         /\ phase'[s] = p
         /\ hostKeyRx'[s] \in {hostKeyRx[s], "empty"} /\ authRx'[s] \in {authRx[s], FALSE}
<1>1. TaskTypes'
  <2>1. phase' \in [Sessions -> Phases]
    BY DEF SInv, TaskTypes, Enter
  <2>2. told' \in [Sessions -> BOOLEAN]
    BY DEF SInv, TaskTypes
  <2>3. hostKeyRx' \in [Sessions -> {"empty", "yes", "no"}]
    BY DEF SInv, TaskTypes
  <2>4. authRx' \in [Sessions -> BOOLEAN]
    BY DEF SInv, TaskTypes
  <2>5. commands' \in [Sessions -> Nat]
    BY DEF SInv, TaskTypes
  <2>6. asks' \in [Sessions -> 0..MaxAsks]
    <3>1. MaxAsks \in 0..MaxAsks
      BY BoundsAssumption
    <3> QED
      BY <3>1 DEF SInv, TaskTypes
  <2> QED
    BY <2>1, <2>2, <2>3, <2>4, <2>5, <2>6
    DEF TaskTypes
<1>2. QueueTypes'
  BY DEF SInv, QueueTypes
<1>3. \A t \in Sessions \ {s} : Untouched(t)
  BY DEF SInv, TaskTypes, Untouched, Enter
<1>4. phase'[s] = p /\ hostKeyRx'[s] \in {hostKeyRx[s], "empty"} /\ authRx'[s] \in {authRx[s], FALSE}
  BY DEF SInv, TaskTypes, Enter
<1> QED
  BY <1>1, <1>2, <1>3, <1>4

LEMMA ShellOpensInv ==
  ASSUME SInv, NEW s \in Sessions, ShellOpens(s)
  PROVE  SInv'
<1>1. /\ phase[s] \in {"opening"}
      /\ Enter(s, "shell") /\ SendControl(s, "CONNECTED")
      /\ UNCHANGED <<told, hostKeyRx, authRx, asks, commands, transport, auth>> /\ UNCHANGED uiSide
  BY DEF ShellOpens, ReturnError
<1>2. /\ TaskTypes' /\ QueueTypes' /\ \A t \in Sessions \ {s} : Untouched(t)
      /\ Sends(ControlEvents, control, control', s, "CONNECTED") /\ phase'[s] = "shell"
  BY <1>1, ControlSent DEF Phases, ControlEvents
<1>3. ControlQueued(s) /\ TransportQueued(s) /\ AuthQueued(s)
  BY DEF SInv, Queued
<1>4. ControlQueued(s)'
  BY <1>1, <1>2, <1>3 DEF ControlQueued, Sends, Over, Opened, ControlEvents
<1>5. TransportQueued(s)' /\ AuthQueued(s)'
  BY <1>1, <1>2, <1>3 DEF TransportQueued, AuthQueued, Over
<1>6. KeepsPrompt(s) /\ KeepsEnding(s)
  BY <1>1, <1>2 DEF KeepsPrompt, KeepsEnding, Over, Opened, Live, Checked
<1>7. KeepsKey(s)
  BY <1>1, <1>2 DEF KeepsKey, KeyAsked, Sends, Over, Checked, ControlEvents, uiSide
<1> QED
  BY <1>1, <1>2, <1>4, <1>5, <1>6, <1>7, TaskMoves DEF Moves

LEMMA StageFailsInv ==
  ASSUME SInv, NEW s \in Sessions, StageFails(s)
  PROVE  SInv'
<1>1. /\ phase[s] \in {"connecting", "exchanging", "asking"}
      /\ Enter(s, "finished") /\ SendControl(s, "ERROR")
      /\ UNCHANGED <<told, hostKeyRx, authRx, asks, commands, transport, auth>> /\ UNCHANGED uiSide
  BY DEF StageFails, ReturnError
<1>2. /\ TaskTypes' /\ QueueTypes' /\ \A t \in Sessions \ {s} : Untouched(t)
      /\ Sends(ControlEvents, control, control', s, "ERROR") /\ phase'[s] = "finished"
  BY <1>1, ControlSent DEF Phases, ControlEvents
<1>3. ControlQueued(s) /\ TransportQueued(s) /\ AuthQueued(s)
  BY DEF SInv, Queued
<1>4. ControlQueued(s)'
  BY <1>1, <1>2, <1>3 DEF ControlQueued, Sends, Over, Opened, ControlEvents
<1>5. TransportQueued(s)' /\ AuthQueued(s)'
  BY <1>1, <1>2, <1>3 DEF TransportQueued, AuthQueued, Over
<1>6. KeepsPrompt(s) /\ KeepsEnding(s)
  BY <1>1, <1>2 DEF KeepsPrompt, KeepsEnding, Over, Opened, Live, Checked
<1>7. KeepsKey(s)
  BY <1>1, <1>2 DEF KeepsKey, KeyAsked, Sends, Over, Checked, ControlEvents, uiSide
<1> QED
  BY <1>1, <1>2, <1>4, <1>5, <1>6, <1>7, TaskMoves DEF Moves

LEMMA OpeningFailsInv ==
  ASSUME SInv, NEW s \in Sessions, OpeningFails(s)
  PROVE  SInv'
<1>1. /\ phase[s] \in {"opening"}
      /\ Enter(s, "finished") /\ SendControl(s, "ERROR")
      /\ UNCHANGED <<told, hostKeyRx, authRx, asks, commands, transport, auth>> /\ UNCHANGED uiSide
  BY DEF OpeningFails, ReturnError
<1>2. /\ TaskTypes' /\ QueueTypes' /\ \A t \in Sessions \ {s} : Untouched(t)
      /\ Sends(ControlEvents, control, control', s, "ERROR") /\ phase'[s] = "finished"
  BY <1>1, ControlSent DEF Phases, ControlEvents
<1>3. ControlQueued(s) /\ TransportQueued(s) /\ AuthQueued(s)
  BY DEF SInv, Queued
<1>4. ControlQueued(s)'
  BY <1>1, <1>2, <1>3 DEF ControlQueued, Sends, Over, Opened, ControlEvents
<1>5. TransportQueued(s)' /\ AuthQueued(s)'
  BY <1>1, <1>2, <1>3 DEF TransportQueued, AuthQueued, Over
<1>6. KeepsPrompt(s) /\ KeepsEnding(s)
  BY <1>1, <1>2 DEF KeepsPrompt, KeepsEnding, Over, Opened, Live, Checked
<1>7. KeepsKey(s)
  BY <1>1, <1>2 DEF KeepsKey, KeyAsked, Sends, Over, Checked, ControlEvents, uiSide
<1> QED
  BY <1>1, <1>2, <1>4, <1>5, <1>6, <1>7, TaskMoves DEF Moves

LEMMA ServerGoneInv ==
  ASSUME SInv, NEW s \in Sessions, ServerGone(s)
  PROVE  SInv'
<1>1. /\ phase[s] \in {"hostkey"}
      /\ Enter(s, "finished") /\ SendControl(s, "ERROR")
      /\ UNCHANGED <<told, hostKeyRx, authRx, asks, commands, transport, auth>> /\ UNCHANGED uiSide
  BY DEF ServerGone, ReturnError
<1>2. /\ TaskTypes' /\ QueueTypes' /\ \A t \in Sessions \ {s} : Untouched(t)
      /\ Sends(ControlEvents, control, control', s, "ERROR") /\ phase'[s] = "finished"
  BY <1>1, ControlSent DEF Phases, ControlEvents
<1>3. ControlQueued(s) /\ TransportQueued(s) /\ AuthQueued(s)
  BY DEF SInv, Queued
<1>4. ControlQueued(s)'
  BY <1>1, <1>2, <1>3 DEF ControlQueued, Sends, Over, Opened, ControlEvents
<1>5. TransportQueued(s)' /\ AuthQueued(s)'
  BY <1>1, <1>2, <1>3 DEF TransportQueued, AuthQueued, Over
<1>6. KeepsPrompt(s) /\ KeepsEnding(s)
  BY <1>1, <1>2 DEF KeepsPrompt, KeepsEnding, Over, Opened, Live, Checked
<1>7. KeepsKey(s)
  BY <1>1, <1>2 DEF KeepsKey, KeyAsked, Sends, Over, Checked, ControlEvents, uiSide
<1> QED
  BY <1>1, <1>2, <1>4, <1>5, <1>6, <1>7, TaskMoves DEF Moves

LEMMA WriteFailsInv ==
  ASSUME SInv, NEW s \in Sessions, WriteFails(s)
  PROVE  SInv'
<1>1. /\ phase[s] \in {"shell", "dying"}
      /\ Enter(s, "dying") /\ SendControl(s, "ERROR")
      /\ UNCHANGED <<told, hostKeyRx, authRx, asks, commands, transport, auth>> /\ UNCHANGED uiSide
  BY DEF WriteFails, ReturnError
<1>2. /\ TaskTypes' /\ QueueTypes' /\ \A t \in Sessions \ {s} : Untouched(t)
      /\ Sends(ControlEvents, control, control', s, "ERROR") /\ phase'[s] = "dying"
  BY <1>1, ControlSent DEF Phases, ControlEvents
<1>3. ControlQueued(s) /\ TransportQueued(s) /\ AuthQueued(s)
  BY DEF SInv, Queued
<1>4. ControlQueued(s)'
  BY <1>1, <1>2, <1>3 DEF ControlQueued, Sends, Over, Opened, ControlEvents
<1>5. TransportQueued(s)' /\ AuthQueued(s)'
  BY <1>1, <1>2, <1>3 DEF TransportQueued, AuthQueued, Over
<1>6. KeepsPrompt(s) /\ KeepsEnding(s)
  BY <1>1, <1>2 DEF KeepsPrompt, KeepsEnding, Over, Opened, Live, Checked
<1>7. KeepsKey(s)
  BY <1>1, <1>2 DEF KeepsKey, KeyAsked, Sends, Over, Checked, ControlEvents, uiSide
<1> QED
  BY <1>1, <1>2, <1>4, <1>5, <1>6, <1>7, TaskMoves DEF Moves

LEMMA ShellEndsInv ==
  ASSUME SInv, NEW s \in Sessions, ShellEnds(s)
  PROVE  SInv'
<1>1. PICK e \in TransportEvents :
        /\ phase[s] = "shell" /\ phase' = [phase EXCEPT ![s] = "finished"] /\ SendTransport(s, e)
        /\ UNCHANGED <<told, hostKeyRx, authRx, asks, commands, control, auth>> /\ UNCHANGED uiSide
  BY DEF ShellEnds, Enter, TransportEvents
<1>2. /\ TaskTypes' /\ QueueTypes' /\ \A t \in Sessions \ {s} : Untouched(t)
      /\ Sends(TransportEvents, transport, transport', s, e) /\ phase'[s] = "finished"
  BY <1>1, TransportSent DEF SInv, TaskTypes, Phases
<1>3. ControlQueued(s) /\ TransportQueued(s) /\ AuthQueued(s)
  BY DEF SInv, Queued
<1>4. TransportQueued(s)'
  BY <1>2 DEF TransportQueued, Over
<1>5. ControlQueued(s)' /\ AuthQueued(s)'
  BY <1>1, <1>2, <1>3 DEF ControlQueued, AuthQueued, Over, Opened
<1>6. KeepsPrompt(s) /\ KeepsEnding(s)
  BY <1>1, <1>2 DEF KeepsPrompt, KeepsEnding, Over, Opened, Live, Checked
<1>7. KeepsKey(s)
  BY <1>1, <1>2 DEF KeepsKey, KeyAsked, Over, Checked, uiSide
<1> QED
  BY <1>1, <1>2, <1>4, <1>5, <1>6, <1>7, TaskMoves DEF Moves

LEMMA DyingEndsInv ==
  ASSUME SInv, NEW s \in Sessions, DyingEnds(s)
  PROVE  SInv'
<1>1. PICK e \in TransportEvents :
        /\ phase[s] = "dying" /\ phase' = [phase EXCEPT ![s] = "finished"] /\ SendTransport(s, e)
        /\ UNCHANGED <<told, hostKeyRx, authRx, asks, commands, control, auth>> /\ UNCHANGED uiSide
  BY DEF DyingEnds, Enter, TransportEvents
<1>2. /\ TaskTypes' /\ QueueTypes' /\ \A t \in Sessions \ {s} : Untouched(t)
      /\ Sends(TransportEvents, transport, transport', s, e) /\ phase'[s] = "finished"
  BY <1>1, TransportSent DEF SInv, TaskTypes, Phases
<1>3. ControlQueued(s) /\ TransportQueued(s) /\ AuthQueued(s)
  BY DEF SInv, Queued
<1>4. TransportQueued(s)'
  BY <1>2 DEF TransportQueued, Over
<1>5. ControlQueued(s)' /\ AuthQueued(s)'
  BY <1>1, <1>2, <1>3 DEF ControlQueued, AuthQueued, Over, Opened
<1>6. KeepsPrompt(s) /\ KeepsEnding(s)
  BY <1>1, <1>2 DEF KeepsPrompt, KeepsEnding, Over, Opened, Live, Checked
<1>7. KeepsKey(s)
  BY <1>1, <1>2 DEF KeepsKey, KeyAsked, Over, Checked, uiSide
<1> QED
  BY <1>1, <1>2, <1>4, <1>5, <1>6, <1>7, TaskMoves DEF Moves

LEMMA MarkerPrintedInv ==
  ASSUME SInv, NEW s \in Sessions, MarkerPrinted(s)
  PROVE  SInv'
<1>1. /\ phase[s] = "shell" /\ phase' = [phase EXCEPT ![s] = "shell"] /\ SendTransport(s, "marker")
      /\ UNCHANGED <<told, hostKeyRx, authRx, asks, control, auth>> /\ UNCHANGED uiSide
  BY DEF MarkerPrinted, SInv, TaskTypes
<1>2. commands' \in [Sessions -> Nat]
  <2>1. commands \in [Sessions -> Nat] /\ commands[s] - 1 \in Nat
    BY DEF MarkerPrinted, SInv, TaskTypes
  <2> QED
    BY <2>1 DEF MarkerPrinted
<1>3. /\ TaskTypes' /\ QueueTypes' /\ \A t \in Sessions \ {s} : Untouched(t)
      /\ Sends(TransportEvents, transport, transport', s, "marker") /\ phase'[s] = "shell"
  BY <1>1, <1>2, TransportSent DEF Phases, TransportEvents
<1>4. ControlQueued(s) /\ TransportQueued(s) /\ AuthQueued(s)
  BY DEF SInv, Queued
<1>5. TransportQueued(s)'
  BY <1>1, <1>3, <1>4 DEF TransportQueued, Sends, TransportEvents, Over
<1>6. ControlQueued(s)' /\ AuthQueued(s)'
  BY <1>1, <1>3, <1>4 DEF ControlQueued, AuthQueued, Over, Opened
<1>7. KeepsPrompt(s) /\ KeepsEnding(s)
  BY <1>1, <1>3 DEF KeepsPrompt, KeepsEnding, Over, Opened, Live, Checked
<1>8. KeepsKey(s)
  BY <1>1, <1>3 DEF KeepsKey, KeyAsked, Over, Checked, uiSide
<1> QED
  BY <1>1, <1>3, <1>5, <1>6, <1>7, <1>8, TaskMoves DEF Moves

LEMMA TakeAnswerInv ==
  ASSUME SInv, NEW s \in Sessions, TakeAnswer(s)
  PROVE  SInv'
<1>1. /\ phase[s] = "asking" /\ authRx[s] /\ Enter(s, "exchanging") /\ ~authRx'[s]
      /\ authRx' = [authRx EXCEPT ![s] = FALSE]
      /\ UNCHANGED <<told, hostKeyRx, asks, commands, control, transport, auth>> /\ UNCHANGED uiSide
  BY DEF TakeAnswer, queues, SInv, TaskTypes
<1>2. /\ TaskTypes' /\ QueueTypes' /\ \A t \in Sessions \ {s} : Untouched(t)
      /\ phase'[s] = "exchanging"
      /\ hostKeyRx'[s] \in {hostKeyRx[s], "empty"} /\ authRx'[s] \in {authRx[s], FALSE}
  BY <1>1, NothingSent DEF Phases
<1>3. ControlQueued(s) /\ TransportQueued(s) /\ AuthQueued(s)
  BY DEF SInv, Queued
<1>4. ControlQueued(s)' /\ TransportQueued(s)'
  BY <1>1, <1>2, <1>3 DEF ControlQueued, TransportQueued, Over, Opened
<1>5. AuthQueued(s)'
  BY <1>1, <1>2, <1>3 DEF AuthQueued, Over, SInv, TaskTypes
<1>6. KeepsPrompt(s) /\ KeepsEnding(s)
  BY <1>1, <1>2 DEF KeepsPrompt, KeepsEnding, Over, Opened, Live, Checked
<1>7. KeepsKey(s)
  BY <1>1, <1>2 DEF KeepsKey, KeyAsked, Over, Checked, uiSide, SInv, TaskTypes
<1> QED
  BY <1>1, <1>2, <1>4, <1>5, <1>6, <1>7, TaskMoves DEF Moves

LEMMA AuthenticatedInv ==
  ASSUME SInv, NEW s \in Sessions, Authenticated(s)
  PROVE  SInv'
<1>1. /\ phase[s] = "exchanging" /\ Enter(s, "opening")
      /\ asks' = [asks EXCEPT ![s] = MaxAsks]
      /\ UNCHANGED <<told, hostKeyRx, authRx, commands, control, transport, auth>>
      /\ UNCHANGED uiSide
  BY DEF Authenticated, queues
<1>2. /\ TaskTypes' /\ QueueTypes' /\ \A t \in Sessions \ {s} : Untouched(t)
      /\ phase'[s] = "opening"
      /\ hostKeyRx'[s] \in {hostKeyRx[s], "empty"} /\ authRx'[s] \in {authRx[s], FALSE}
  BY <1>1, NothingSent DEF Phases
<1>3. ControlQueued(s) /\ TransportQueued(s) /\ AuthQueued(s)
  BY DEF SInv, Queued
<1>4. ControlQueued(s)' /\ TransportQueued(s)'
  BY <1>1, <1>2, <1>3 DEF ControlQueued, TransportQueued, Over, Opened
<1>5. AuthQueued(s)'
  BY <1>1, <1>2, <1>3 DEF AuthQueued, Over, SInv, TaskTypes
<1>6. KeepsPrompt(s) /\ KeepsEnding(s)
  BY <1>1, <1>2 DEF KeepsPrompt, KeepsEnding, Over, Opened, Live, Checked
<1>7. KeepsKey(s)
  BY <1>1, <1>2 DEF KeepsKey, KeyAsked, Over, Checked, uiSide, SInv, TaskTypes
<1> QED
  BY <1>1, <1>2, <1>4, <1>5, <1>6, <1>7, TaskMoves DEF Moves

LEMMA RemoveSessionInv ==
  ASSUME SInv, NEW s \in Sessions, RemoveSession(s)
  PROVE  SInv'
<1>1. /\ phase[s] = "finished" /\ Enter(s, "ended")
      /\ told' = [told EXCEPT ![s] = FALSE] /\ commands' = [commands EXCEPT ![s] = 0]
      /\ authRx' = [authRx EXCEPT ![s] = FALSE] /\ ~authRx'[s]
      /\ hostKeyRx' = [hostKeyRx EXCEPT ![s] = "empty"] /\ hostKeyRx'[s] = "empty"
      /\ asks' = [asks EXCEPT ![s] = MaxAsks]
      /\ UNCHANGED <<control, transport, auth>> /\ UNCHANGED uiSide
  BY DEF RemoveSession, queues, SInv, TaskTypes
<1>2. /\ TaskTypes' /\ QueueTypes' /\ \A t \in Sessions \ {s} : Untouched(t)
      /\ phase'[s] = "ended"
      /\ hostKeyRx'[s] \in {hostKeyRx[s], "empty"} /\ authRx'[s] \in {authRx[s], FALSE}
  BY <1>1, NothingSent DEF Phases
<1>3. ControlQueued(s) /\ TransportQueued(s) /\ AuthQueued(s)
  BY DEF SInv, Queued
<1>4. ControlQueued(s)' /\ TransportQueued(s)'
  BY <1>1, <1>2, <1>3 DEF ControlQueued, TransportQueued, Over, Opened
<1>5. AuthQueued(s)'
  BY <1>1, <1>2, <1>3 DEF AuthQueued, Over, SInv, TaskTypes
<1>6. KeepsPrompt(s) /\ KeepsEnding(s)
  BY <1>1, <1>2 DEF KeepsPrompt, KeepsEnding, Over, Opened, Live, Checked
<1>7. KeepsKey(s)
  BY <1>1, <1>2 DEF KeepsKey, KeyAsked, Over, Checked, uiSide, SInv, TaskTypes
<1> QED
  BY <1>1, <1>2, <1>4, <1>5, <1>6, <1>7, TaskMoves DEF Moves

LEMMA HostKeyAnswerInv ==
  ASSUME SInv, NEW s \in Sessions, HostKeyAnswer(s)
  PROVE  SInv'
<1>0. ControlQueued(s) /\ TransportQueued(s) /\ AuthQueued(s)
  BY DEF SInv, Queued
<1>1. CASE hostKeyRx[s] = "yes"
  <2>1. /\ phase[s] = "hostkey" /\ Enter(s, "exchanging")
        /\ hostKeyRx' = [hostKeyRx EXCEPT ![s] = "empty"] /\ hostKeyRx'[s] = "empty"
        /\ UNCHANGED <<told, authRx, asks, commands, control, transport, auth>> /\ UNCHANGED uiSide
    BY <1>1 DEF HostKeyAnswer, SInv, TaskTypes
  <2>2. /\ TaskTypes' /\ QueueTypes' /\ \A t \in Sessions \ {s} : Untouched(t)
        /\ phase'[s] = "exchanging"
    BY <2>1, NothingSent DEF Phases
  <2>3. ControlQueued(s)' /\ TransportQueued(s)'
    BY <1>0, <2>1, <2>2 DEF ControlQueued, TransportQueued, Over, Opened
  <2>4. AuthQueued(s)'
    BY <1>0, <2>1, <2>2 DEF AuthQueued, Over
  <2>5. KeepsPrompt(s) /\ KeepsEnding(s)
    BY <1>1, <2>1, <2>2 DEF KeepsPrompt, KeepsEnding, Over, Opened, Live, Checked
  <2>6. KeepsKey(s)
    BY <1>1, <2>1, <2>2 DEF KeepsKey, KeyAsked, Over, Checked, uiSide
  <2> QED
    BY <2>1, <2>2, <2>3, <2>4, <2>5, <2>6, TaskMoves DEF Moves
<1>2. CASE hostKeyRx[s] = "no"
  <2>1. /\ phase[s] = "hostkey" /\ Enter(s, "finished") /\ SendControl(s, "ERROR")
        /\ hostKeyRx' = [hostKeyRx EXCEPT ![s] = "empty"] /\ hostKeyRx'[s] = "empty"
        /\ UNCHANGED <<told, authRx, asks, commands, transport, auth>> /\ UNCHANGED uiSide
    BY <1>2 DEF HostKeyAnswer, ReturnError, SInv, TaskTypes
  <2>2. /\ TaskTypes' /\ QueueTypes' /\ \A t \in Sessions \ {s} : Untouched(t)
        /\ Sends(ControlEvents, control, control', s, "ERROR") /\ phase'[s] = "finished"
    BY <2>1, ControlSent DEF Phases, ControlEvents
  <2>3. ControlQueued(s)'
    BY <1>0, <2>1, <2>2 DEF ControlQueued, Sends, Over, Opened, ControlEvents
  <2>4. TransportQueued(s)' /\ AuthQueued(s)'
    BY <1>0, <2>1, <2>2 DEF TransportQueued, AuthQueued, Over
  <2>5. KeepsPrompt(s) /\ KeepsEnding(s)
    BY <1>2, <2>1, <2>2 DEF KeepsPrompt, KeepsEnding, Over, Opened, Live, Checked
  <2>6. KeepsKey(s)
    BY <1>2, <2>1, <2>2 DEF KeepsKey, KeyAsked, Sends, Over, Checked, ControlEvents, uiSide
  <2> QED
    BY <2>1, <2>2, <2>3, <2>4, <2>5, <2>6, TaskMoves DEF Moves
<1> QED
  BY <1>1, <1>2 DEF HostKeyAnswer

LEMMA CancelledInv ==
  ASSUME SInv, NEW s \in Sessions, Cancelled(s)
  PROVE  SInv'
<1>0. ControlQueued(s) /\ TransportQueued(s) /\ AuthQueued(s)
  BY DEF SInv, Queued
<1>1. CASE phase[s] \in {"connecting", "hostkey", "exchanging", "asking"} /\ UNCHANGED transport
  <2>1. /\ Enter(s, "finished")
        /\ UNCHANGED <<told, hostKeyRx, authRx, asks, commands, control, transport, auth>>
        /\ UNCHANGED uiSide
    BY <1>1 DEF Cancelled
  <2>2. /\ TaskTypes' /\ QueueTypes' /\ \A t \in Sessions \ {s} : Untouched(t)
        /\ phase'[s] = "finished"
    BY <2>1, NothingSent DEF Phases
  <2>3. ControlQueued(s)' /\ TransportQueued(s)' /\ AuthQueued(s)'
    BY <1>0, <1>1, <2>1, <2>2 DEF ControlQueued, TransportQueued, AuthQueued, Over, Opened
  <2>4. KeepsPrompt(s) /\ KeepsEnding(s)
    BY <1>1, <2>1, <2>2 DEF KeepsPrompt, KeepsEnding, Over, Opened, Live, Checked
  <2>5. KeepsKey(s)
    BY <1>1, <2>1, <2>2 DEF KeepsKey, KeyAsked, Over, Checked, uiSide
  <2> QED
    BY <2>1, <2>2, <2>3, <2>4, <2>5, TaskMoves DEF Moves
<1>2. CASE phase[s] = "shell" /\ SendTransport(s, "close")
  <2>1. /\ phase' = [phase EXCEPT ![s] = "finished"]
        /\ UNCHANGED <<told, hostKeyRx, authRx, asks, commands, control, auth>> /\ UNCHANGED uiSide
    BY <1>2 DEF Cancelled, Enter
  <2>2. /\ TaskTypes' /\ QueueTypes' /\ \A t \in Sessions \ {s} : Untouched(t)
        /\ phase'[s] = "finished"
    BY <1>2, <2>1, TransportSent DEF SInv, TaskTypes, Phases, TransportEvents
  <2>3. ControlQueued(s)' /\ TransportQueued(s)' /\ AuthQueued(s)'
    BY <1>0, <1>2, <2>1, <2>2 DEF ControlQueued, TransportQueued, AuthQueued, Over, Opened
  <2>4. KeepsPrompt(s) /\ KeepsEnding(s)
    BY <1>2, <2>1, <2>2 DEF KeepsPrompt, KeepsEnding, Over, Opened, Live, Checked
  <2>5. KeepsKey(s)
    BY <1>2, <2>1, <2>2 DEF KeepsKey, KeyAsked, Over, Checked, uiSide
  <2> QED
    BY <2>1, <2>2, <2>3, <2>4, <2>5, TaskMoves DEF Moves
<1> QED
  BY <1>1, <1>2 DEF Cancelled

LEMMA TwoErrorsInv ==
  ASSUME SInv, NEW s \in Sessions, NEW e \in {"HOST_KEY_CHANGED", "ERROR"},
         phase[s] = "connecting", Enter(s, "finished"),
         control' = [control EXCEPT ![s] = Append(Append(@, e), "ERROR")],
         UNCHANGED <<told, hostKeyRx, authRx, asks, commands, transport, auth>>, UNCHANGED uiSide
  PROVE  SInv'
<1>0. ControlQueued(s) /\ TransportQueued(s) /\ AuthQueued(s)
  BY DEF SInv, Queued
<1>1. PICK between : between = [control EXCEPT ![s] = Append(@, e)]
  OBVIOUS
<1>2. Sends(ControlEvents, control, between, s, e)
  BY <1>1, Sent DEF SInv, QueueTypes, ControlEvents
<1>3. between \in [Sessions -> Seq(ControlEvents)] /\ control' = [between EXCEPT ![s] = Append(@, "ERROR")]
  BY <1>1, <1>2 DEF Sends, SInv, QueueTypes
<1>4. Sends(ControlEvents, between, control', s, "ERROR")
  BY <1>3, Sent DEF ControlEvents
<1>5. /\ phase \in [Sessions -> Phases] /\ phase' = [phase EXCEPT ![s] = "finished"]
      /\ phase'[s] = "finished" /\ "finished" \in Phases
  BY DEF Enter, SInv, TaskTypes, Phases
<1>6. TaskTypes' /\ QueueTypes'
  BY <1>4, <1>5 DEF Sends, SInv, TaskTypes, QueueTypes
<1>7. \A t \in Sessions \ {s} : Untouched(t)
  BY <1>5 DEF Untouched, SInv, QueueTypes
<1>8. ControlQueued(s)'
  BY <1>5 DEF ControlQueued, Over, Opened
<1>9. TransportQueued(s)' /\ AuthQueued(s)'
  BY <1>0, <1>5 DEF TransportQueued, AuthQueued, Over
<1>10. KeepsPrompt(s) /\ KeepsEnding(s)
  BY <1>5 DEF KeepsPrompt, KeepsEnding, Over, Opened, Live, Checked
<1>11. KeepsKey(s)
  <2>1. Has(control'[s], "HOST_KEY_PROMPT") <=> Has(control[s], "HOST_KEY_PROMPT")
    BY <1>2, <1>4 DEF Sends, ControlEvents
  <2>2. AtMostOnce(control[s], "HOST_KEY_PROMPT") => AtMostOnce(control'[s], "HOST_KEY_PROMPT")
    BY <1>2, <1>4 DEF Sends, ControlEvents
  <2> QED
    BY <1>5, <2>1, <2>2 DEF KeepsKey, KeyAsked, Over, Checked, uiSide
<1> QED
  BY <1>6, <1>7, <1>8, <1>9, <1>10, <1>11, TaskMoves DEF Moves

LEMMA CheckServerKeyInv ==
  ASSUME SInv, NEW s \in Sessions, CheckServerKey(s)
  PROVE  SInv'
<1>0. ControlQueued(s) /\ TransportQueued(s) /\ AuthQueued(s)
  BY DEF SInv, Queued
<1>1. /\ phase[s] = "connecting" /\ UNCHANGED uiSide
      /\ UNCHANGED <<told, hostKeyRx, authRx, asks, commands, transport, auth>>
  BY DEF CheckServerKey
<1>2. CASE known[target[s]] = "match" /\ Enter(s, "exchanging") /\ UNCHANGED control
  <2>1. /\ TaskTypes' /\ QueueTypes' /\ \A t \in Sessions \ {s} : Untouched(t)
        /\ phase'[s] = "exchanging"
    BY <1>1, <1>2, NothingSent DEF Phases
  <2>2. ControlQueued(s)' /\ TransportQueued(s)'
    BY <1>0, <1>1, <1>2, <2>1 DEF ControlQueued, TransportQueued, Over, Opened
  <2>3. AuthQueued(s)'
    BY <1>0, <1>1, <2>1 DEF AuthQueued, Over
  <2>4. KeepsPrompt(s) /\ KeepsEnding(s)
    BY <1>1, <2>1 DEF KeepsPrompt, KeepsEnding, Over, Opened, Live, Checked
  <2>5. KeepsKey(s)
    BY <1>1, <1>2, <2>1 DEF KeepsKey, KeyAsked, Over, Checked, uiSide
  <2> QED
    BY <1>1, <2>1, <2>2, <2>3, <2>4, <2>5, TaskMoves DEF Moves
<1>3. CASE Enter(s, "hostkey") /\ SendControl(s, "HOST_KEY_PROMPT")
  <2>1. /\ TaskTypes' /\ QueueTypes' /\ \A t \in Sessions \ {s} : Untouched(t)
        /\ Sends(ControlEvents, control, control', s, "HOST_KEY_PROMPT") /\ phase'[s] = "hostkey"
    BY <1>1, <1>3, ControlSent DEF Phases, ControlEvents
  <2>2. ControlQueued(s)'
    BY <1>0, <1>1, <2>1 DEF ControlQueued, Sends, Over, Opened, ControlEvents
  <2>3. TransportQueued(s)' /\ AuthQueued(s)'
    BY <1>0, <1>1, <2>1 DEF TransportQueued, AuthQueued, Over
  <2>4. KeepsPrompt(s) /\ KeepsEnding(s)
    BY <1>1, <2>1 DEF KeepsPrompt, KeepsEnding, Over, Opened, Live, Checked
  <2>5. KeepsKey(s)
    BY <1>1, <2>1 DEF KeepsKey, KeyAsked, Sends, Over, Checked, ControlEvents, uiSide
  <2> QED
    BY <1>1, <2>1, <2>2, <2>3, <2>4, <2>5, TaskMoves DEF Moves
<1>4. ASSUME NEW e \in {"HOST_KEY_CHANGED", "ERROR"}, Enter(s, "finished"),
             control' = [control EXCEPT ![s] = Append(Append(@, e), "ERROR")]
      PROVE  SInv'
  BY <1>1, <1>4, TwoErrorsInv
<1> QED
  BY <1>2, <1>3, <1>4 DEF CheckServerKey

-----------------------------------------------------------------------------
(* The UI thread: it empties the queues and leaves the phases as they are.  *)

Drains ==
  /\ QueueTypes'
  /\ \A t \in Sessions :
       /\ \A x \in ControlEvents : Has(control'[t], x) => Has(control[t], x)
       /\ \A x \in ControlEvents : AtMostOnce(control[t], x) => AtMostOnce(control'[t], x)
       /\ \A x \in TransportEvents : Has(transport'[t], x) => Has(transport[t], x)
       /\ \A x \in AuthEvents : Has(auth'[t], x) => Has(auth[t], x)
       /\ \A x \in AuthEvents : AtMostOnce(auth[t], x) => AtMostOnce(auth'[t], x)

LEMMA NothingTaken ==
  ASSUME SInv, UNCHANGED queues
  PROVE  Drains
BY DEF SInv, QueueTypes, Drains, queues

LEMMA ControlTaken ==
  ASSUME SInv, NEW s \in Sessions, control[s] # <<>>,
         control' = [control EXCEPT ![s] = Tail(@)], UNCHANGED <<transport, auth>>
  PROVE  Drains /\ Takes(ControlEvents, control, control', s)
<1>1. Takes(ControlEvents, control, control', s)
  BY Taken DEF SInv, QueueTypes
<1> QED
  BY <1>1 DEF SInv, QueueTypes, Drains, Takes

LEMMA TransportTaken ==
  ASSUME SInv, NEW s \in Sessions, transport[s] # <<>>,
         transport' = [transport EXCEPT ![s] = Tail(@)], UNCHANGED <<control, auth>>
  PROVE  Drains /\ Takes(TransportEvents, transport, transport', s)
<1>1. Takes(TransportEvents, transport, transport', s)
  BY Taken DEF SInv, QueueTypes
<1> QED
  BY <1>1 DEF SInv, QueueTypes, Drains, Takes

LEMMA AuthTaken ==
  ASSUME SInv, NEW s \in Sessions, auth[s] # <<>>,
         auth' = [auth EXCEPT ![s] = Tail(@)], UNCHANGED <<control, transport>>
  PROVE  Drains /\ Takes(AuthEvents, auth, auth', s)
<1>1. Takes(AuthEvents, auth, auth', s)
  BY Taken DEF SInv, QueueTypes
<1> QED
  BY <1>1 DEF SInv, QueueTypes, Drains, Takes

LEMMA StillQueued ==
  ASSUME SInv, Drains, phase' = phase, authRx' = authRx
  PROVE  Queued'
<1>1. ASSUME NEW t \in Sessions PROVE ControlQueued(t)'
  <2>1. ControlQueued(t)
    BY DEF SInv, Queued
  <2> QED
    BY <2>1 DEF ControlQueued, Drains, ControlEvents
<1>2. ASSUME NEW t \in Sessions PROVE TransportQueued(t)'
  BY DEF SInv, Queued, TransportQueued, Drains, TransportEvents
<1>3. ASSUME NEW t \in Sessions PROVE AuthQueued(t)'
  BY DEF SInv, Queued, AuthQueued, Drains, AuthEvents
<1> QED
  BY <1>1, <1>2, <1>3 DEF Queued

LEMMA KeysStay ==
  ASSUME Drains, UNCHANGED <<phase, hostKeyRx, known, target>>, NEW t \in Sessions, KeyAsked(t)
  PROVE  KeyAsked(t)'
BY DEF KeyAsked, Drains, ControlEvents

\* A handler that only empties a queue.
LEMMA Quiet ==
  ASSUME SInv, Drains, \A t \in Sessions : told[t] => told'[t],
         UNCHANGED <<phase, hostKeyRx, authRx, known, target, sessionId, connected, waitingAuth,
                     hostLine, mode, foreign>>
  PROVE  Queued' /\ Prompted' /\ Own'
<1>1. Queued'
  BY StillQueued
<1>2. Prompted'
  BY DEF SInv, Prompted, Drains, AuthEvents
<1>3. Own'
  <2>1. SUFFICES ASSUME ~foreign'
                 PROVE  (KeyShown /\ Shown /\ \A t \in Sessions : KeyAsked(t) /\ LetGo(t) /\ Idle(t))'
    BY DEF Own
  <2>2. KeyShown /\ Shown /\ \A t \in Sessions : KeyAsked(t) /\ LetGo(t) /\ Idle(t)
    BY <2>1 DEF SInv, Own
  <2>3. KeyShown' /\ Shown'
    BY <2>2 DEF KeyShown, Shown, Drains, ControlEvents
  <2>4. ASSUME NEW t \in Sessions PROVE KeyAsked(t)'
    BY <2>2, KeysStay
  <2>5. ASSUME NEW t \in Sessions PROVE LetGo(t)' /\ Idle(t)'
    BY <2>2 DEF LetGo, Idle
  <2> QED
    BY <2>3, <2>4, <2>5
<1> QED
  BY <1>1, <1>2, <1>3

\* A handler that ends in the local prompt, when every task was told to end or ends.
LEMMA Prompts ==
  ASSUME SInv, Drains, mode' = "IDLE", UNCHANGED <<phase, hostKeyRx, authRx, known, target>>,
         ~foreign' => ~foreign,
         ~foreign' => \A t \in Sessions : phase[t] \in Live \ {"dying"} => told'[t]
  PROVE  Queued' /\ Prompted' /\ Own'
<1>1. Queued'
  BY StillQueued
<1>2. Prompted'
  BY DEF Prompted
<1>3. Own'
  <2>1. SUFFICES ASSUME ~foreign'
                 PROVE  (KeyShown /\ Shown /\ \A t \in Sessions : KeyAsked(t) /\ LetGo(t) /\ Idle(t))'
    BY DEF Own
  <2>2. \A t \in Sessions : KeyAsked(t)
    BY <2>1 DEF SInv, Own
  <2>3. KeyShown' /\ Shown'
    BY DEF KeyShown, Shown
  <2>4. ASSUME NEW t \in Sessions PROVE KeyAsked(t)'
    BY <2>2, KeysStay
  <2>5. ASSUME NEW t \in Sessions PROVE LetGo(t)' /\ Idle(t)'
    BY <2>1 DEF LetGo, Idle
  <2> QED
    BY <2>3, <2>4, <2>5
<1> QED
  BY <1>1, <1>2, <1>3

\* The tasks other than the current one were told to disconnect, or end.
LEMMA OthersEnd ==
  ASSUME SInv, ~foreign, NEW t \in Sessions, t # sessionId, phase[t] \in Live \ {"dying"}
  PROVE  told[t]
BY DEF SInv, Own, LetGo

\* disconnect reaches the current task, so that none is left.
LEMMA Disconnected ==
  ASSUME SInv, NativeDisconnect
  PROVE  /\ told' \in [Sessions -> BOOLEAN]
         /\ \A t \in Sessions : told[t] => told'[t]
         /\ ~foreign => \A t \in Sessions : phase[t] \in Live \ {"dying"} => told'[t]
<1>1. \A t \in Sessions : told'[t] = (told[t] \/ (t = sessionId /\ Registered(t)))
  BY DEF NativeDisconnect
<1>2. told' \in [Sessions -> BOOLEAN]
  BY DEF NativeDisconnect, SInv, TaskTypes
<1>3. ASSUME NEW t \in Sessions, ~foreign, phase[t] \in Live \ {"dying"} PROVE told'[t]
  <2>1. t # None
    BY DEF Sessions, None
  <2>2. CASE t = sessionId
    BY <1>1, <1>3, <2>1, <2>2 DEF Registered
  <2>3. CASE t # sessionId
    BY <1>1, <1>3, <2>3, OthersEnd
  <2> QED
    BY <2>2, <2>3
<1> QED
  BY <1>1, <1>2, <1>3

LEMMA HandleAuthEventInv ==
  ASSUME SInv, NEW s \in Sessions, HandleAuthEvent(s)
  PROVE  SInv'
<1>1. Drains /\ Takes(AuthEvents, auth, auth', s)
  BY AuthTaken DEF HandleAuthEvent
<1>2. TaskTypes' /\ QueueTypes'
  BY <1>1 DEF HandleAuthEvent, SInv, TaskTypes, Drains, task
<1>3. UiTypes'
  <2>1. waitingAuth' \in BOOLEAN
    BY DEF HandleAuthEvent, SInv, UiTypes
  <2>2. mode' \in Modes /\ state' \in States
    BY DEF HandleAuthEvent, SInv, UiTypes, Modes, PendingModes, States
  <2>3. UNCHANGED <<known, target, client, owner, sessionId, connected, hostLine, pendingKeypush, marker,
                    timer, strayTimers, disposed, wanted, foreign>>
    BY DEF HandleAuthEvent, keypush
  <2> QED
    BY <2>1, <2>2, <2>3 DEF SInv, UiTypes
<1>4. CASE UNCHANGED <<waitingAuth, mode>>
  BY <1>1, <1>2, <1>3, <1>4, Quiet DEF HandleAuthEvent, SInv, task
<1>5. CASE s = sessionId /\ Head(auth[s]) = "prompt" /\ waitingAuth' = TRUE /\ mode' = "AUTH_INPUT"
  <2>1. UNCHANGED <<phase, told, authRx, hostKeyRx, known, target, sessionId, foreign>>
    BY DEF HandleAuthEvent, task
  <2>2. AuthQueued(s)
    BY DEF SInv, Queued
  <2>3. ~Has(auth'[s], "prompt") /\ Has(auth[s], "prompt")
    BY <1>1, <1>5, <2>2 DEF Takes, AuthQueued
  <2>4. Prompted'
    BY <1>5, <2>1, <2>2, <2>3 DEF Prompted, AuthQueued
  <2>5. Own'
    <3>1. SUFFICES ASSUME ~foreign'
                   PROVE  (KeyShown /\ Shown /\ \A t \in Sessions : KeyAsked(t) /\ LetGo(t) /\ Idle(t))'
      BY DEF Own
    <3>2. \A t \in Sessions : KeyAsked(t) /\ LetGo(t)
      BY <2>1, <3>1 DEF SInv, Own
    <3>3. KeyShown' /\ Shown'
      BY <1>5 DEF KeyShown, Shown
    <3>4. ASSUME NEW t \in Sessions PROVE KeyAsked(t)'
      BY <1>1, <2>1, <3>2, KeysStay
    <3>5. ASSUME NEW t \in Sessions PROVE LetGo(t)' /\ Idle(t)'
      BY <1>5, <2>1, <3>2 DEF LetGo, Idle
    <3> QED
      BY <3>3, <3>4, <3>5
  <2> QED
    BY <1>1, <1>2, <1>3, <2>1, <2>4, <2>5, StillQueued DEF SInv
<1> QED
  BY <1>4, <1>5 DEF HandleAuthEvent

LEMMA KeypushTypes ==
  ASSUME SInv, NEW newState \in {"DISCONNECTED", "FAILED"}, CompleteKeypush(newState)
  PROVE  /\ client' \in Nat /\ sessionId' = None /\ connected' = FALSE /\ waitingAuth' = FALSE
         /\ hostLine' = None /\ pendingKeypush' = FALSE /\ marker' = None /\ disposed' = disposed
         /\ mode' \in Modes /\ state' \in States
<1>1. client' \in Nat
  BY DEF SInv, UiTypes, CompleteKeypush, ReplaceClient
<1>2. mode' \in Modes /\ state' \in States
  BY DEF CompleteKeypush, Modes, PendingModes, States
<1> QED
  BY <1>1, <1>2 DEF CompleteKeypush, ReplaceClient

LEMMA HandleTransportEventInv ==
  ASSUME SInv, NEW s \in Sessions, HandleTransportEvent(s)
  PROVE  SInv'
<1>1. Drains /\ Takes(TransportEvents, transport, transport', s)
  BY TransportTaken DEF HandleTransportEvent
<1>2. UNCHANGED <<known, phase, hostKeyRx, authRx, asks, commands, target, owner, wanted>>
  BY DEF HandleTransportEvent
<1>3. CASE UNCHANGED <<handle, view, told, foreign>>
  <2>1. TaskTypes' /\ QueueTypes' /\ UiTypes'
    BY <1>1, <1>2, <1>3, SMTT(40) DEF SInv, TaskTypes, Drains, UiTypes, handle, view, keypush
  <2> QED
    BY <1>1, <1>2, <1>3, <2>1, Quiet DEF SInv, handle, view
<1>4. ASSUME ActsOn(s), NEW newState \in {"DISCONNECTED", "FAILED"}, CompleteKeypush(newState),
             timer' = FALSE, UNCHANGED strayTimers
      PROVE  SInv'
  <2>1. told' \in [Sessions -> BOOLEAN] /\ (~foreign => \A t \in Sessions : phase[t] \in Live \ {"dying"} => told'[t])
    BY <1>4, Disconnected DEF CompleteKeypush
  <2>2. TaskTypes' /\ QueueTypes'
    BY <1>1, <1>2, <2>1 DEF SInv, TaskTypes, Drains
  <2>3. UiTypes'
    <3>1. timer' \in BOOLEAN /\ foreign' \in BOOLEAN /\ strayTimers' \in Nat
      BY <1>4 DEF SInv, UiTypes, ActsOn
    <3> QED
      BY <1>2, <1>4, <3>1, KeypushTypes DEF SInv, UiTypes
  <2>4. mode' = "IDLE" /\ (~foreign' => ~foreign)
    BY <1>4 DEF CompleteKeypush, ActsOn
  <2> QED
    BY <1>1, <1>2, <2>1, <2>2, <2>3, <2>4, Prompts DEF SInv
<1>5. ASSUME ActsOn(s), Head(transport[s]) \in {"close", "error"}, ForgetSession, UNCHANGED told,
             NEW newState \in States, BackToPrompt(newState)
      PROVE  SInv'
  <2>1. TaskTypes' /\ QueueTypes'
    BY <1>1, <1>2, <1>5 DEF SInv, TaskTypes, Drains
  <2>2. UiTypes'
    BY <1>2, <1>5 DEF SInv, UiTypes, ForgetSession, BackToPrompt, ClearKeypushState, ActsOn, Modes, PendingModes, keypush
  <2>3. mode' = "IDLE" /\ (~foreign' => ~foreign /\ s = sessionId)
    BY <1>5 DEF BackToPrompt, ActsOn
  <2>4. phase[s] \in Over
    BY <1>1, <1>5 DEF SInv, Queued, TransportQueued, Takes
  <2>5. ASSUME ~foreign', NEW t \in Sessions, phase[t] \in Live \ {"dying"} PROVE told'[t]
    <3>1. t # sessionId
      BY <2>3, <2>4, <2>5 DEF Over, Live, Checked
    <3> QED
      BY <1>5, <2>3, <2>5, <3>1, OthersEnd
  <2> QED
    BY <1>1, <1>2, <2>1, <2>2, <2>3, <2>5, Prompts DEF SInv
<1> QED
  BY <1>3, <1>4, <1>5 DEF HandleTransportEvent, OnSshClose, OnSshError, States

LEMMA KeypushTimeoutInv ==
  ASSUME SInv, KeypushTimeout
  PROVE  SInv'
<1>1. UNCHANGED <<known, phase, hostKeyRx, authRx, asks, commands, target, owner, wanted, foreign>>
      /\ UNCHANGED queues
  BY DEF KeypushTimeout
<1>2. Drains
  BY <1>1, NothingTaken
<1>3. timer' \in BOOLEAN /\ strayTimers' \in Nat
  <2>1. timer' \in BOOLEAN
    BY DEF KeypushTimeout, SInv, UiTypes
  <2>2. strayTimers' \in Nat
    BY DEF KeypushTimeout, SInv, UiTypes
  <2> QED
    BY <2>1, <2>2
<1>4. CASE CompleteKeypush("FAILED")
  <2>1. told' \in [Sessions -> BOOLEAN] /\ (~foreign => \A t \in Sessions : phase[t] \in Live \ {"dying"} => told'[t])
    BY <1>4, Disconnected DEF CompleteKeypush
  <2>2. TaskTypes' /\ QueueTypes'
    BY <1>1, <1>2, <2>1 DEF SInv, TaskTypes, Drains
  <2>3. UiTypes'
    BY <1>1, <1>3, <1>4, KeypushTypes DEF SInv, UiTypes
  <2>4. mode' = "IDLE"
    BY <1>4 DEF CompleteKeypush
  <2> QED
    BY <1>1, <1>2, <2>1, <2>2, <2>3, <2>4, Prompts DEF SInv
<1>5. CASE UNCHANGED <<handle, mode, state, pendingKeypush, marker, disposed, told>>
  <2>1. TaskTypes' /\ QueueTypes' /\ UiTypes'
    BY <1>1, <1>2, <1>3, <1>5 DEF SInv, TaskTypes, Drains, UiTypes, handle
  <2> QED
    BY <1>1, <1>2, <1>5, <2>1, Quiet DEF SInv, handle
<1> QED
  BY <1>4, <1>5 DEF KeypushTimeout

LEMMA ClearedTypes ==
  ASSUME SInv, (IF pendingKeypush THEN ClearKeypushState ELSE UNCHANGED keypush) \/ ClearKeypushState
  PROVE  /\ pendingKeypush' \in BOOLEAN /\ marker' \in Sessions \cup {None}
         /\ timer' \in BOOLEAN /\ strayTimers' \in Nat
BY DEF SInv, UiTypes, ClearKeypushState, keypush

LEMMA BackTypes ==
  ASSUME SInv, NEW newState \in States, BackToPrompt(newState)
  PROVE  /\ pendingKeypush' \in BOOLEAN /\ marker' \in Sessions \cup {None}
         /\ timer' \in BOOLEAN /\ strayTimers' \in Nat
         /\ disposed' = disposed /\ mode' = "IDLE" /\ mode' \in Modes /\ state' \in States
BY ClearedTypes DEF BackToPrompt, Modes

\* An event of the current session that ends it.
LEMMA SessionOver ==
  ASSUME SInv, NEW s \in Sessions, Has(control[s], "ERROR") \/ Has(control[s], "HOST_KEY_CHANGED"),
         ~foreign, s = sessionId, NEW t \in Sessions, phase[t] \in Live \ {"dying"}
  PROVE  told[t]
<1>1. phase[s] \in {"dying"} \cup Over
  BY DEF SInv, Queued, ControlQueued
<1>2. t # sessionId
  BY <1>1 DEF Over, Live, Checked
<1> QED
  BY <1>2, OthersEnd

LEMMA HandleConnectedInv ==
  ASSUME SInv, Drains, NEW s \in Sessions, Has(control[s], "CONNECTED"), ActsOn(s), HandleConnected,
         UNCHANGED <<known, phase, told, hostKeyRx, authRx, asks, target, owner, wanted>>
  PROVE  SInv'
<1>1. /\ connected' = TRUE /\ waitingAuth' = FALSE /\ UNCHANGED <<client, sessionId, hostLine, disposed>>
      /\ mode' \in {"CONNECTED", "IDLE"} /\ state' \in {"CONNECTED", "FAILED"}
      /\ sessionId # None => mode' = "CONNECTED"
  BY DEF HandleConnected, ExecuteKeypushCommand
<1>2. commands' \in [Sessions -> Nat]
  <2>1. CASE UNCHANGED commands
    BY <2>1 DEF SInv, TaskTypes
  <2>2. CASE /\ sessionId # None
             /\ commands' = [commands EXCEPT ![sessionId] = @ + (IF Registered(sessionId) THEN 1 ELSE 0)]
    <3>1. PICK d \in {0, 1} : d = (IF Registered(sessionId) THEN 1 ELSE 0)
      OBVIOUS
    <3>2. commands' = [commands EXCEPT ![sessionId] = @ + d]
      BY <2>2, <3>1, Zenon
    <3>3. sessionId \in Sessions /\ commands \in [Sessions -> Nat]
      BY <2>2 DEF SInv, UiTypes, TaskTypes
    <3>4. commands[sessionId] + d \in Nat
      BY <3>3
    <3> QED
      BY <3>2, <3>3, <3>4
  <2> QED
    BY <2>1, <2>2 DEF HandleConnected, ExecuteKeypushCommand
<1>3. TaskTypes' /\ QueueTypes'
  BY <1>2 DEF SInv, TaskTypes, Drains
<1>4. UiTypes'
  <2>1. foreign' \in BOOLEAN
    BY DEF ActsOn, SInv, UiTypes
  <2>2. pendingKeypush' \in BOOLEAN /\ marker' \in Sessions \cup {None}
    BY DEF HandleConnected, ExecuteKeypushCommand, SInv, UiTypes, keypush
  <2>3. timer' \in BOOLEAN /\ strayTimers' \in Nat
    <3>1. CASE UNCHANGED keypush
      BY <3>1 DEF SInv, UiTypes, keypush
    <3>2. CASE ExecuteKeypushCommand
      <4>1. PICK d \in {0, 1} : d = (IF timer /\ sessionId # None THEN 1 ELSE 0)
        OBVIOUS
      <4>2. strayTimers' = strayTimers + d /\ timer' = TRUE
        BY <3>2, <4>1, Zenon DEF ExecuteKeypushCommand
      <4> QED
        BY <4>2 DEF SInv, UiTypes
    <3> QED
      BY <3>1, <3>2 DEF HandleConnected
  <2>4. mode' \in Modes /\ state' \in States
    BY <1>1 DEF Modes, PendingModes, States
  <2> QED
    BY <1>1, <2>1, <2>2, <2>3, <2>4 DEF SInv, UiTypes
<1>5. Queued' /\ Prompted'
  BY <1>1, StillQueued DEF Prompted
<1>6. Own'
  <2>1. SUFFICES ASSUME ~foreign'
                 PROVE  (KeyShown /\ Shown /\ \A t \in Sessions : KeyAsked(t) /\ LetGo(t) /\ Idle(t))'
    BY DEF Own
  <2>2. ~foreign /\ s = sessionId
    BY <2>1 DEF ActsOn
  <2>3. \A t \in Sessions : KeyAsked(t) /\ LetGo(t)
    BY <2>2 DEF SInv, Own
  <2>4. phase[s] \in Opened
    BY DEF SInv, Queued, ControlQueued
  <2>5. mode' = "CONNECTED"
    BY <1>1, <2>2 DEF Sessions, None
  <2>6. KeyShown' /\ Shown'
    BY <1>1, <2>2, <2>4, <2>5 DEF KeyShown, Shown
  <2>7. ASSUME NEW t \in Sessions PROVE KeyAsked(t)'
    BY <2>3, KeysStay
  <2>8. ASSUME NEW t \in Sessions PROVE LetGo(t)' /\ Idle(t)'
    BY <1>1, <2>3, <2>5 DEF LetGo, Idle
  <2> QED
    BY <2>6, <2>7, <2>8
<1> QED
  BY <1>3, <1>4, <1>5, <1>6 DEF SInv

LEMMA HandleHostKeyPromptInv ==
  ASSUME SInv, Drains, NEW s \in Sessions, Takes(ControlEvents, control, control', s),
         Head(control[s]) = "HOST_KEY_PROMPT", ActsOn(s), HandleHostKeyPrompt(s),
         UNCHANGED <<known, phase, told, hostKeyRx, authRx, asks, target, owner, wanted>>
  PROVE  SInv'
<1>1. /\ hostLine' = target[s] /\ mode' = "HOST_KEY_INPUT" /\ state' \in States /\ mode' \in Modes
      /\ UNCHANGED <<client, sessionId, connected, waitingAuth, pendingKeypush, marker, timer,
                     strayTimers, disposed, commands>>
  BY DEF HandleHostKeyPrompt, keypush, Modes, PendingModes, States
<1>2. TaskTypes' /\ QueueTypes'
  BY <1>1 DEF SInv, TaskTypes, Drains
<1>3. UiTypes'
  <2>1. foreign' \in BOOLEAN
    BY DEF ActsOn, SInv, UiTypes
  <2>2. hostLine' \in Hosts \cup {None}
    BY <1>1 DEF SInv, UiTypes
  <2> QED
    BY <1>1, <2>1, <2>2 DEF SInv, UiTypes
<1>4. Queued' /\ Prompted'
  BY <1>1, StillQueued DEF Prompted
<1>5. Own'
  <2>1. SUFFICES ASSUME ~foreign'
                 PROVE  (KeyShown /\ Shown /\ \A t \in Sessions : KeyAsked(t) /\ LetGo(t) /\ Idle(t))'
    BY DEF Own
  <2>2. ~foreign /\ s = sessionId
    BY <2>1 DEF ActsOn
  <2>3. \A t \in Sessions : KeyAsked(t) /\ LetGo(t)
    BY <2>2 DEF SInv, Own
  <2>4. Has(control[s], "HOST_KEY_PROMPT") /\ ~Has(control'[s], "HOST_KEY_PROMPT")
    BY <2>3 DEF KeyAsked, Takes
  <2>5. KeyShown' /\ Shown'
    BY <1>1, <2>2, <2>3, <2>4 DEF KeyShown, Shown, KeyAsked
  <2>6. ASSUME NEW t \in Sessions PROVE KeyAsked(t)'
    BY <2>3, KeysStay
  <2>7. ASSUME NEW t \in Sessions PROVE LetGo(t)' /\ Idle(t)'
    BY <1>1, <2>3 DEF LetGo, Idle
  <2> QED
    BY <2>5, <2>6, <2>7
<1> QED
  BY <1>2, <1>3, <1>4, <1>5 DEF SInv

LEMMA HandleControlEventInv ==
  ASSUME SInv, NEW s \in Sessions, HandleControlEvent(s)
  PROVE  SInv'
<1>1. Drains /\ Takes(ControlEvents, control, control', s)
  BY ControlTaken DEF HandleControlEvent
<1>2. UNCHANGED <<known, phase, told, hostKeyRx, authRx, asks, target, owner, wanted>>
  BY DEF HandleControlEvent
<1>3. Has(control[s], Head(control[s]))
  BY <1>1 DEF Takes
<1>4. CASE UNCHANGED <<handle, view, commands, foreign>>
  <2>1. TaskTypes' /\ QueueTypes' /\ UiTypes'
    BY <1>1, <1>2, <1>4, SMTT(40) DEF SInv, TaskTypes, Drains, UiTypes, handle, view, keypush
  <2> QED
    BY <1>1, <1>2, <1>4, <2>1, Quiet DEF SInv, handle, view
<1>5. ASSUME ActsOn(s), Head(control[s]) = "CONNECTED", HandleConnected PROVE SInv'
  BY <1>1, <1>2, <1>3, <1>5, HandleConnectedInv
<1>6. ASSUME ActsOn(s), Head(control[s]) = "HOST_KEY_PROMPT", HandleHostKeyPrompt(s) PROVE SInv'
  BY <1>1, <1>2, <1>6, HandleHostKeyPromptInv
<1>7. ASSUME ActsOn(s), Head(control[s]) = "HOST_KEY_CHANGED", HandleHostKeyChanged PROVE SInv'
  <2>1. TaskTypes' /\ QueueTypes'
    BY <1>1, <1>2, <1>7 DEF SInv, TaskTypes, Drains, HandleHostKeyChanged
  <2>2. UiTypes'
    <3>1. foreign' \in BOOLEAN
      BY <1>7 DEF ActsOn, SInv, UiTypes
    <3>2. /\ pendingKeypush' \in BOOLEAN /\ marker' \in Sessions \cup {None}
          /\ timer' \in BOOLEAN /\ strayTimers' \in Nat
      BY <1>7, ClearedTypes DEF HandleHostKeyChanged
    <3>3. /\ client' \in Nat /\ sessionId' = None /\ connected' = FALSE /\ waitingAuth' = FALSE
          /\ hostLine' = None /\ disposed' = disposed
      BY <1>7 DEF HandleHostKeyChanged, ReplaceClient, SInv, UiTypes
    <3>4. mode' \in Modes /\ state' \in States
      BY <1>7 DEF HandleHostKeyChanged, Modes, States
    <3> QED
      BY <1>2, <3>1, <3>2, <3>3, <3>4 DEF SInv, UiTypes
  <2>3. mode' = "IDLE" /\ (~foreign' => ~foreign /\ s = sessionId)
    BY <1>7 DEF HandleHostKeyChanged, ActsOn
  <2>4. ~foreign' => \A t \in Sessions : phase[t] \in Live \ {"dying"} => told'[t]
    BY <1>2, <1>3, <1>7, <2>3, SessionOver
  <2> QED
    BY <1>1, <1>2, <2>1, <2>2, <2>3, <2>4, Prompts DEF SInv
<1>8. ASSUME ActsOn(s), Head(control[s]) = "ERROR", ForgetSession, BackToPrompt("FAILED"), UNCHANGED commands
      PROVE  SInv'
  <2>1. TaskTypes' /\ QueueTypes'
    BY <1>1, <1>2, <1>8 DEF SInv, TaskTypes, Drains
  <2>2. UiTypes'
    <3>1. foreign' \in BOOLEAN
      BY <1>8 DEF ActsOn, SInv, UiTypes
    <3>2. "FAILED" \in States
      BY DEF States
    <3> QED
      BY <1>2, <1>8, <3>1, <3>2, BackTypes DEF SInv, UiTypes, ForgetSession
  <2>3. mode' = "IDLE" /\ (~foreign' => ~foreign /\ s = sessionId)
    BY <1>8 DEF BackToPrompt, ActsOn
  <2>4. ~foreign' => \A t \in Sessions : phase[t] \in Live \ {"dying"} => told'[t]
    BY <1>2, <1>3, <1>8, <2>3, SessionOver
  <2> QED
    BY <1>1, <1>2, <2>1, <2>2, <2>3, <2>4, Prompts DEF SInv
<1> QED
  BY <1>4, <1>5, <1>6, <1>7, <1>8 DEF HandleControlEvent, OnSshError

-----------------------------------------------------------------------------
(* The user.                                                               *)

LEMMA ConnectInv ==
  ASSUME SInv, Connect
  PROVE  SInv'
<1>1. /\ UNCHANGED <<known, told, hostKeyRx, authRx, asks, commands, queues, client, connected,
                      waitingAuth, hostLine, disposed, foreign>>
      /\ mode = "IDLE"
  BY DEF Connect
<1>2. Drains
  BY <1>1, NothingTaken
<1>3. /\ pendingKeypush' \in BOOLEAN /\ marker' \in Sessions \cup {None}
      /\ timer' \in BOOLEAN /\ strayTimers' \in Nat
  <2>1. CASE UNCHANGED <<marker, timer, strayTimers>> /\ pendingKeypush' \in BOOLEAN
    BY <2>1 DEF SInv, UiTypes
  <2>2. CASE ClearKeypushState
    BY <2>2, ClearedTypes
  <2>3. CASE UNCHANGED keypush
    BY <2>3 DEF SInv, UiTypes, keypush
  <2> QED
    BY <2>1, <2>2, <2>3 DEF Connect
<1>4. CASE mode' = "IDLE" /\ state' = "FAILED" /\ UNCHANGED <<phase, target, owner, wanted, sessionId>>
  <2>1. TaskTypes' /\ QueueTypes'
    BY <1>1, <1>2, <1>4 DEF SInv, TaskTypes, Drains
  <2>2. UiTypes'
    BY <1>1, <1>3, <1>4 DEF SInv, UiTypes, Modes, States
  <2> QED
    BY <1>1, <1>2, <1>4, <2>1, <2>2, Quiet DEF SInv
<1>5. ASSUME NEW s \in Fresh, NEW host \in Hosts, NEW forKeypush \in Purposes,
             sessionId = None, mode' = "CONNECTING", state' = "CONNECTING", Enter(s, "connecting"),
             target' = [target EXCEPT ![s] = host], owner' = [owner EXCEPT ![s] = client],
             wanted' = [wanted EXCEPT ![s] = forKeypush], sessionId' = s
      PROVE  SInv'
  <2>1. s \in Sessions /\ phase[s] = "unused" /\ phase'[s] = "connecting"
        /\ \A t \in Sessions \ {s} : phase'[t] = phase[t] /\ target'[t] = target[t]
    BY <1>5 DEF Fresh, Enter, SInv, TaskTypes, UiTypes
  <2>2. TaskTypes' /\ QueueTypes'
    BY <1>1, <1>2, <1>5 DEF SInv, TaskTypes, Drains, Enter, Phases
  <2>3. UiTypes'
    <3>1. target' \in [Sessions -> Hosts \cup {None}]
      BY <1>5 DEF SInv, UiTypes
    <3>2. owner' \in [Sessions -> Nat]
      BY <1>5 DEF SInv, UiTypes
    <3>3. wanted' \in [Sessions -> BOOLEAN]
      BY <1>5, BoundsAssumption DEF SInv, UiTypes
    <3>4. mode' \in Modes /\ state' \in States
      BY <1>5 DEF Modes, PendingModes, States
    <3> QED
      BY <1>1, <1>3, <1>5, <2>1, <3>1, <3>2, <3>3, <3>4 DEF SInv, UiTypes
  <2>4. Queued'
    <3>1. \A t \in Sessions : ControlQueued(t) /\ TransportQueued(t) /\ AuthQueued(t)
      BY DEF SInv, Queued
    <3>2. UNCHANGED <<control, transport, auth, authRx>>
      BY <1>1 DEF queues
    <3>3. ASSUME NEW t \in Sessions \ {s} PROVE (ControlQueued(t) /\ TransportQueued(t) /\ AuthQueued(t))'
      BY <2>1, <3>1, <3>2 DEF ControlQueued, TransportQueued, AuthQueued
    <3>4. (ControlQueued(s) /\ TransportQueued(s) /\ AuthQueued(s))'
      BY <2>1, <3>1, <3>2 DEF ControlQueued, TransportQueued, AuthQueued, Over, Opened
    <3> QED
      BY <3>3, <3>4 DEF Queued
  <2>5. Prompted'
    BY <1>5 DEF Prompted
  <2>6. Own'
    <3>1. SUFFICES ASSUME ~foreign'
                   PROVE  (KeyShown /\ Shown /\ \A t \in Sessions : KeyAsked(t) /\ LetGo(t) /\ Idle(t))'
      BY DEF Own
    <3>2. \A t \in Sessions : KeyAsked(t) /\ LetGo(t)
      BY <1>1, <3>1 DEF SInv, Own
    <3>3. KeyShown' /\ Shown'
      BY <1>5 DEF KeyShown, Shown
    <3>4. UNCHANGED <<control, hostKeyRx, known, told>>
      BY <1>1 DEF queues
    <3>5. ASSUME NEW t \in Sessions \ {s} PROVE KeyAsked(t)'
      BY <2>1, <3>2, <3>4 DEF KeyAsked
    <3>6. KeyAsked(s)'
      <4>1. target'[s] \in Hosts
        BY <1>5, <2>1 DEF SInv, UiTypes
      <4> QED
        BY <2>1, <3>2, <3>4, <4>1 DEF KeyAsked, Over, Checked
    <3>7. ASSUME NEW t \in Sessions PROVE LetGo(t)'
      <4>1. t # None
        BY DEF Sessions, None
      <4> QED
        BY <1>5, <2>1, <3>2, <3>4, <4>1 DEF LetGo
    <3>8. ASSUME NEW t \in Sessions PROVE Idle(t)'
      BY <1>5 DEF Idle
    <3> QED
      BY <3>3, <3>5, <3>6, <3>7, <3>8
  <2> QED
    BY <2>2, <2>3, <2>4, <2>5, <2>6 DEF SInv
<1> QED
  BY <1>4, <1>5 DEF Connect

\* The host key is answered: what the answer leaves, and the mode it ends in.
LEMMA VerifyFacts ==
  ASSUME SInv, mode = "HOST_KEY_INPUT", NEW answer \in {"yes", "no"}, NEW sent \in BOOLEAN,
         VerifyHostKey(answer, sent)
  PROVE  /\ hostKeyRx' \in [Sessions -> {"empty", "yes", "no"}] /\ hostLine' \in Hosts \cup {None}
         /\ sent => /\ sessionId \in Sessions /\ Registered(sessionId) /\ hostKeyRx'[sessionId] = answer
                    /\ \A t \in Sessions \ {sessionId} : hostKeyRx'[t] = hostKeyRx[t]
         /\ ~sent => UNCHANGED hostKeyRx
         /\ ~foreign /\ ~sent => phase[sessionId] \in Over
<1>1. CASE sent
  BY <1>1 DEF VerifyHostKey, SInv, TaskTypes, UiTypes
<1>2. CASE ~sent
  <2>1. UNCHANGED <<hostKeyRx, hostLine>>
    BY <1>2 DEF VerifyHostKey
  <2>2. ASSUME ~foreign PROVE phase[sessionId] \in Over
    <3>1. KeyShown
      BY <2>2 DEF SInv, Own
    <3>2. sessionId \in Sessions /\ hostKeyRx[sessionId] = "empty" /\ phase[sessionId] \in {"hostkey"} \cup Over
      BY <3>1 DEF KeyShown
    <3>3. sessionId # None
      BY <3>2 DEF Sessions, None
    <3> QED
      BY <1>2, <3>2, <3>3 DEF VerifyHostKey, Live
  <2> QED
    BY <1>2, <2>1, <2>2 DEF SInv, TaskTypes, UiTypes
<1> QED
  BY <1>1, <1>2

LEMMA AnswerInv ==
  ASSUME SInv, mode = "HOST_KEY_INPUT", NEW answer \in {"yes", "no"}, NEW sent \in BOOLEAN,
         VerifyHostKey(answer, sent),
         mode' \in {"IDLE", "CONNECTING"}, state' \in States,
         mode' = "IDLE" <=> (answer = "no" \/ ~sent),
         known' \in [Hosts -> {"none", "match", "other"}],
         \A h \in Hosts : known[h] = "match" => known'[h] = "match",
         answer = "yes" => hostLine # None /\ known'[hostLine] = "match",
         pendingKeypush' \in BOOLEAN, marker' \in Sessions \cup {None}, timer' \in BOOLEAN,
         strayTimers' \in Nat, disposed' = disposed,
         UNCHANGED <<phase, told, authRx, asks, commands, target, queues, client, sessionId,
                     connected, waitingAuth, owner, wanted, foreign>>
  PROVE  SInv'
<1>1. /\ hostKeyRx' \in [Sessions -> {"empty", "yes", "no"}] /\ hostLine' \in Hosts \cup {None}
      /\ sent => /\ sessionId \in Sessions /\ Registered(sessionId) /\ hostKeyRx'[sessionId] = answer
                 /\ \A t \in Sessions \ {sessionId} : hostKeyRx'[t] = hostKeyRx[t]
      /\ ~sent => UNCHANGED hostKeyRx
      /\ ~foreign /\ ~sent => phase[sessionId] \in Over
  BY VerifyFacts
<1>2. Drains
  BY NothingTaken
<1>3. TaskTypes' /\ QueueTypes'
  BY <1>1, <1>2 DEF SInv, TaskTypes, Drains
<1>4. UiTypes'
  BY <1>1 DEF SInv, UiTypes, Modes, PendingModes
<1>5. Queued'
  BY <1>2, StillQueued
<1>6. Prompted'
  BY DEF Prompted
<1>7. Own'
  <2>1. SUFFICES ASSUME ~foreign'
                 PROVE  (KeyShown /\ Shown /\ \A t \in Sessions : KeyAsked(t) /\ LetGo(t) /\ Idle(t))'
    BY DEF Own
  <2>2. /\ \A t \in Sessions : KeyAsked(t) /\ LetGo(t)
        /\ sessionId \in Sessions /\ hostLine = target[sessionId] /\ hostKeyRx[sessionId] = "empty"
        /\ ~Has(control[sessionId], "HOST_KEY_PROMPT") /\ phase[sessionId] \in {"hostkey"} \cup Over
    BY <2>1 DEF SInv, Own, KeyShown
  <2>3. KeyShown' /\ Shown'
    BY DEF KeyShown, Shown
  <2>4. \A t \in Sessions : phase[t] # "unused" /\ known[target[t]] = "match" => known'[target[t]] = "match"
    BY <2>2 DEF KeyAsked
  <2>5. ASSUME NEW t \in Sessions PROVE KeyAsked(t)'
    <3>1. UNCHANGED <<control, phase, target>>
      BY DEF queues
    <3>2. CASE sent /\ t = sessionId
      <4>1. phase[sessionId] \in {"hostkey", "finished"}
        BY <1>1, <2>2, <3>2 DEF Registered, Over, Live, Checked
      <4>2. answer = "yes" => known'[target[sessionId]] = "match"
        BY <2>2
      <4> QED
        BY <1>1, <2>2, <2>4, <3>1, <3>2, <4>1, <4>2 DEF KeyAsked
    <3>3. CASE ~(sent /\ t = sessionId)
      <4>1. hostKeyRx'[t] = hostKeyRx[t]
        BY <1>1, <3>3
      <4> QED
        BY <2>2, <2>4, <3>1, <4>1 DEF KeyAsked, Checked
    <3> QED
      BY <3>2, <3>3
  <2>6. ASSUME NEW t \in Sessions PROVE LetGo(t)'
    BY <2>2 DEF LetGo
  <2>7. ASSUME NEW t \in Sessions, mode' = "IDLE", phase[t] \in Live \ {"dying"}
        PROVE  told[t] \/ (t = sessionId /\ phase[t] = "hostkey" /\ hostKeyRx'[t] = "no")
    <3>1. CASE t # sessionId
      BY <2>2, <2>7, <3>1 DEF LetGo
    <3>2. CASE t = sessionId
      <4>1. phase[t] = "hostkey"
        BY <2>2, <2>7, <3>2 DEF Over, Live, Checked
      <4>2. sent
        BY <1>1, <2>1, <3>2, <4>1 DEF Over
      <4> QED
        BY <1>1, <2>7, <3>2, <4>1, <4>2
    <3> QED
      BY <3>1, <3>2
  <2> QED
    BY <2>3, <2>5, <2>6, <2>7 DEF Idle
<1> QED
  BY <1>3, <1>4, <1>5, <1>6, <1>7 DEF SInv

LEMMA SubmitHostKeyDecisionInv ==
  ASSUME SInv, SubmitHostKeyDecision
  PROVE  SInv'
<1>1. /\ mode = "HOST_KEY_INPUT"
      /\ UNCHANGED <<phase, told, authRx, asks, commands, target, queues, client, sessionId,
                     connected, waitingAuth, owner, wanted, foreign>>
  BY DEF SubmitHostKeyDecision
<1>2. known \in [Hosts -> {"none", "match", "other"}] /\ "FAILED" \in States /\ "CONNECTING" \in States
  BY DEF SInv, UiTypes, States
<1>3. ASSUME NEW sent \in BOOLEAN, hostLine # None, known' = [known EXCEPT ![hostLine] = "match"],
             VerifyHostKey("yes", sent),
             IF sent
             THEN mode' = "CONNECTING" /\ state' = "CONNECTING" /\ UNCHANGED <<keypush, disposed>>
             ELSE OnSshError
      PROVE  SInv'
  <2>1. hostLine \in Hosts
    BY <1>3 DEF SInv, UiTypes
  <2>2. /\ known' \in [Hosts -> {"none", "match", "other"}] /\ known'[hostLine] = "match"
        /\ \A h \in Hosts : known[h] = "match" => known'[h] = "match"
    BY <1>2, <1>3, <2>1
  <2>3. CASE sent
    <3>1. /\ mode' = "CONNECTING" /\ state' \in States /\ disposed' = disposed
          /\ pendingKeypush' \in BOOLEAN /\ marker' \in Sessions \cup {None} /\ timer' \in BOOLEAN
          /\ strayTimers' \in Nat
      BY <1>2, <1>3, <2>3 DEF SInv, UiTypes, keypush
    <3> QED
      BY <1>1, <1>3, <2>2, <2>3, <3>1, AnswerInv
  <2>4. CASE ~sent
    <3>1. BackToPrompt("FAILED")
      BY <1>3, <2>4 DEF OnSshError
    <3> QED
      BY <1>1, <1>2, <1>3, <2>2, <2>4, <3>1, BackTypes, AnswerInv
  <2> QED
    BY <2>3, <2>4
<1>4. ASSUME NEW sent \in BOOLEAN, UNCHANGED known, VerifyHostKey("no", sent), OnSshError
      PROVE  SInv'
  <2>1. BackToPrompt("FAILED")
    BY <1>4 DEF OnSshError
  <2> QED
    BY <1>1, <1>2, <1>4, <2>1, BackTypes, AnswerInv
<1>5. ASSUME NEW sent \in BOOLEAN, UNCHANGED known, VerifyHostKey("no", sent), mode' = "IDLE",
             state' = "FAILED", UNCHANGED disposed,
             IF sent \/ ~pendingKeypush THEN UNCHANGED keypush ELSE ClearKeypushState
      PROVE  SInv'
  <2>1. /\ pendingKeypush' \in BOOLEAN /\ marker' \in Sessions \cup {None} /\ timer' \in BOOLEAN
        /\ strayTimers' \in Nat
    <3>1. CASE UNCHANGED keypush
      BY <3>1 DEF SInv, UiTypes, keypush
    <3>2. CASE ClearKeypushState
      BY <3>2, ClearedTypes
    <3> QED
      BY <1>5, <3>1, <3>2
  <2> QED
    BY <1>1, <1>2, <1>5, <2>1, AnswerInv
<1> QED
  BY <1>3, <1>4, <1>5 DEF SubmitHostKeyDecision, AcceptHostKey, RejectHostKey

LEMMA SubmitAnswerInv ==
  ASSUME SInv, SubmitAnswer
  PROVE  SInv'
<1>1. /\ mode = "AUTH_INPUT"
      /\ UNCHANGED <<known, phase, told, hostKeyRx, asks, commands, target, queues, client, sessionId,
                     connected, hostLine, owner, wanted, foreign>>
  BY DEF SubmitAnswer
<1>2. /\ waitingAuth /\ sessionId \in Sessions /\ phase[sessionId] \in {"asking"} \cup Over
      /\ ~authRx[sessionId] /\ ~Has(auth[sessionId], "prompt")
  BY <1>1 DEF SInv, Prompted
<1>3. Drains
  BY <1>1, NothingTaken
<1>4. CASE /\ Registered(sessionId) /\ authRx' = [authRx EXCEPT ![sessionId] = TRUE]
           /\ waitingAuth' = FALSE /\ mode' = "CONNECTING" /\ state' = "CONNECTING"
           /\ UNCHANGED <<keypush, disposed>>
  <2>1. TaskTypes' /\ QueueTypes'
    <3>1. authRx' \in [Sessions -> BOOLEAN]
      BY <1>4 DEF SInv, TaskTypes
    <3> QED
      BY <1>1, <1>3, <3>1 DEF SInv, TaskTypes, Drains
  <2>2. UiTypes'
    BY <1>1, <1>4 DEF SInv, UiTypes, keypush, Modes, PendingModes, States
  <2>3. phase[sessionId] \in {"asking", "finished"}
    BY <1>2, <1>4 DEF Registered, Over, Live, Checked
  <2>4. Queued'
    <3>1. \A t \in Sessions : ControlQueued(t) /\ TransportQueued(t) /\ AuthQueued(t)
      BY DEF SInv, Queued
    <3>2. UNCHANGED <<control, transport, auth, phase>>
      BY <1>1 DEF queues
    <3>3. ASSUME NEW t \in Sessions PROVE ControlQueued(t)' /\ TransportQueued(t)'
      BY <3>1, <3>2 DEF ControlQueued, TransportQueued
    <3>4. ASSUME NEW t \in Sessions \ {sessionId} PROVE AuthQueued(t)'
      <4>1. authRx'[t] = authRx[t]
        BY <1>4 DEF SInv, TaskTypes
      <4> QED
        BY <3>1, <3>2, <4>1 DEF AuthQueued
    <3>5. ASSUME NEW t \in Sessions, t = sessionId PROVE AuthQueued(t)'
      BY <1>2, <2>3, <3>1, <3>2, <3>5 DEF AuthQueued
    <3> QED
      BY <3>3, <3>4, <3>5 DEF Queued
  <2>5. Prompted'
    BY <1>4 DEF Prompted
  <2>6. Own'
    <3>1. SUFFICES ASSUME ~foreign'
                   PROVE  (KeyShown /\ Shown /\ \A t \in Sessions : KeyAsked(t) /\ LetGo(t) /\ Idle(t))'
      BY DEF Own
    <3>2. \A t \in Sessions : KeyAsked(t) /\ LetGo(t)
      BY <1>1, <3>1 DEF SInv, Own
    <3>3. KeyShown' /\ Shown'
      BY <1>4 DEF KeyShown, Shown
    <3>4. ASSUME NEW t \in Sessions PROVE KeyAsked(t)'
      BY <1>1, <1>3, <3>2, KeysStay
    <3>5. ASSUME NEW t \in Sessions PROVE LetGo(t)' /\ Idle(t)'
      BY <1>1, <1>4, <3>2 DEF LetGo, Idle
    <3> QED
      BY <3>3, <3>4, <3>5
  <2> QED
    BY <2>1, <2>2, <2>4, <2>5, <2>6 DEF SInv
<1>5. CASE ~Registered(sessionId) /\ BackToPrompt("FAILED") /\ UNCHANGED <<authRx, waitingAuth>>
  <2>1. TaskTypes' /\ QueueTypes'
    BY <1>1, <1>3, <1>5 DEF SInv, TaskTypes, Drains
  <2>2. UiTypes'
    <3>1. "FAILED" \in States
      BY DEF States
    <3> QED
      BY <1>1, <1>5, <3>1, BackTypes DEF SInv, UiTypes
  <2>3. mode' = "IDLE"
    BY <1>5 DEF BackToPrompt
  <2>4. ASSUME ~foreign', NEW t \in Sessions, phase[t] \in Live \ {"dying"} PROVE told'[t]
    <3>1. t # sessionId
      <4>1. sessionId # None
        BY <1>2 DEF Sessions, None
      <4> QED
        BY <1>5, <2>4, <4>1 DEF Registered
    <3> QED
      BY <1>1, <2>4, <3>1, OthersEnd
  <2> QED
    BY <1>1, <1>3, <1>5, <2>1, <2>2, <2>3, <2>4, Prompts DEF SInv
<1> QED
  BY <1>2, <1>4, <1>5 DEF SubmitAnswer, OnSshError

LEMMA WriteToNothingInv ==
  ASSUME SInv, WriteToNothing
  PROVE  SInv'
<1>1. /\ mode = "CONNECTED" /\ (~connected \/ sessionId = None) /\ BackToPrompt("FAILED")
      /\ UNCHANGED <<known, phase, told, hostKeyRx, authRx, asks, commands, target, queues, handle, owner, wanted, foreign>>
  BY DEF WriteToNothing, OnSshError, task
<1>2. Drains
  BY <1>1, NothingTaken
<1>3. TaskTypes' /\ QueueTypes'
  BY <1>1, <1>2 DEF SInv, TaskTypes, Drains
<1>4. UiTypes'
  <2>1. "FAILED" \in States
    BY DEF States
  <2> QED
    BY <1>1, <2>1, BackTypes DEF SInv, UiTypes, handle
<1>5. foreign
  <2>1. ASSUME ~foreign PROVE FALSE
    <3>1. connected /\ sessionId \in Sessions
      BY <1>1, <2>1 DEF SInv, Own, Shown
    <3> QED
      BY <1>1, <3>1 DEF Sessions, None
  <2> QED
    BY <2>1
<1>6. mode' = "IDLE"
  BY <1>1 DEF BackToPrompt
<1>7. foreign'
  BY <1>1, <1>5
<1> QED
  BY <1>1, <1>2, <1>3, <1>4, <1>6, <1>7, Prompts DEF SInv

LEMMA DisconnectInv ==
  ASSUME SInv, Disconnect, mode' = "IDLE", state' = "DISCONNECTED", ClearKeypushState \/ UNCHANGED keypush,
         disposed' \in BOOLEAN,
         UNCHANGED <<known, phase, hostKeyRx, authRx, asks, commands, target, queues, owner, wanted, foreign>>
  PROVE  SInv'
<1>1. /\ told' \in [Sessions -> BOOLEAN]
      /\ ~foreign => \A t \in Sessions : phase[t] \in Live \ {"dying"} => told'[t]
  BY Disconnected DEF Disconnect
<1>2. Drains
  BY NothingTaken
<1>3. TaskTypes' /\ QueueTypes'
  BY <1>1, <1>2 DEF SInv, TaskTypes, Drains
<1>4. UiTypes'
  <2>1. /\ client' \in Nat /\ sessionId' \in Sessions \cup {None} /\ connected' \in BOOLEAN
        /\ waitingAuth' \in BOOLEAN /\ hostLine' \in Hosts \cup {None}
    BY DEF SInv, UiTypes, Disconnect, ForgetSession, handle
  <2>2. /\ pendingKeypush' \in BOOLEAN /\ marker' \in Sessions \cup {None} /\ timer' \in BOOLEAN
        /\ strayTimers' \in Nat
    BY DEF SInv, UiTypes, ClearKeypushState, keypush
  <2>3. mode' \in Modes /\ state' \in States
    BY DEF Modes, States
  <2> QED
    BY <2>1, <2>2, <2>3 DEF SInv, UiTypes
<1> QED
  BY <1>1, <1>2, <1>3, <1>4, Prompts DEF SInv

LEMMA Started ==
  ASSUME Init
  PROVE  SInv
<1>1. \A s \in Sessions : /\ control[s] = <<>> /\ transport[s] = <<>> /\ auth[s] = <<>>
                          /\ phase[s] = "unused" /\ ~authRx[s] /\ hostKeyRx[s] = "empty"
  BY DEF Init
<1>2. Len(<<>>) = 0 /\ \A e : ~Has(<<>>, e) /\ AtMostOnce(<<>>, e)
  BY DEF Has, AtMostOnce
<1>3. TaskTypes
  BY BoundsAssumption DEF Init, TaskTypes, Phases
<1>4. QueueTypes
  BY DEF Init, QueueTypes
<1>5. UiTypes
  BY DEF Init, UiTypes, Modes, States
<1>6. Queued
  <2>1. ASSUME NEW s \in Sessions PROVE ControlQueued(s)
    BY <1>1, <1>2 DEF ControlQueued
  <2>2. ASSUME NEW s \in Sessions PROVE TransportQueued(s) /\ AuthQueued(s)
    BY <1>1, <1>2 DEF TransportQueued, AuthQueued
  <2> QED
    BY <2>1, <2>2 DEF Queued
<1>7. Prompted
  BY DEF Init, Prompted
<1>8. KeyShown /\ Shown
  BY DEF Init, KeyShown, Shown
<1>9. ASSUME NEW s \in Sessions PROVE KeyAsked(s) /\ LetGo(s) /\ Idle(s)
  <2>1. KeyAsked(s)
    BY <1>1, <1>2 DEF KeyAsked, Checked
  <2>2. LetGo(s) /\ Idle(s)
    BY <1>1 DEF LetGo, Idle, Live, Checked
  <2> QED
    BY <2>1, <2>2
<1> QED
  BY <1>3, <1>4, <1>5, <1>6, <1>7, <1>8, <1>9 DEF SInv, Own

LEMMA Stepped ==
  ASSUME SInv, [Next]_vars
  PROVE  SInv'
<1>1. ASSUME NEW s \in Sessions, Progress(s) PROVE SInv'
  BY <1>1, CheckServerKeyInv, HostKeyAnswerInv, ServerAsksInv, TakeAnswerInv, AuthenticatedInv,
     StageFailsInv, CancelledInv, DyingEndsInv, RemoveSessionInv DEF Progress
<1>2. ASSUME NEW s \in Sessions, Environment(s) PROVE SInv'
  BY <1>2, ServerGoneInv, ShellOpensInv, OpeningFailsInv, ShellEndsInv, WriteFailsInv,
     MarkerPrintedInv DEF Environment
<1>3. ASSUME NEW s \in Sessions, Dispatch(s) PROVE SInv'
  BY <1>3, HandleControlEventInv, HandleAuthEventInv, HandleTransportEventInv DEF Dispatch
<1>4. CASE KeypushTimeout
  BY <1>4, KeypushTimeoutInv
<1>5. CASE CancelPendingConnection
  BY <1>5, DisconnectInv DEF CancelPendingConnection, SInv, UiTypes
<1>6. CASE ClosePane
  BY <1>6, DisconnectInv DEF ClosePane
<1>7. CASE User
  BY <1>5, <1>6, <1>7, ConnectInv, SubmitHostKeyDecisionInv, SubmitAnswerInv, WriteToNothingInv DEF User
<1>8. CASE UNCHANGED vars
  <2>1. UNCHANGED <<known, phase, told, hostKeyRx, authRx, asks, commands, target, queues, handle,
                    owner, view, wanted, foreign>>
    BY <1>8 DEF vars, task
  <2>2. Drains
    BY <2>1, NothingTaken
  <2>3. TaskTypes' /\ QueueTypes' /\ UiTypes'
    BY <2>1, <2>2 DEF SInv, TaskTypes, Drains, UiTypes, handle, view, keypush
  <2> QED
    BY <2>1, <2>2, <2>3, Quiet DEF SInv, handle, view
<1> QED
  BY <1>1, <1>2, <1>3, <1>4, <1>7, <1>8 DEF Next

LEMMA Invariant == Spec => []SInv
BY Started, Stepped, PTL DEF Spec

-----------------------------------------------------------------------------
(* Every variable of the sessions and of the pane has its type, whatever events arrive when. *)
THEOREM TypeCorrect == Spec => []TypeOK
<1>1. SInv => TypeOK
  BY DEF SInv, TaskTypes, QueueTypes, UiTypes, TypeOK, TransportEvents, AuthEvents
<1> QED
  BY <1>1, Invariant, PTL

(* However late the events of other sessions are handled, a credential prompt on show belongs to *)
(* the current session and its task asked for it (handleNativeAuthEvent).                        *)
THEOREM PromptsAreCurrent == Spec => []AuthPromptIsCurrent
<1>1. SInv => AuthPromptIsCurrent
  BY DEF SInv, Prompted, AuthPromptIsCurrent, Over, Sessions, None
<1> QED
  BY <1>1, Invariant, PTL

(* Until an event of another session is acted on, a connected pane has a shell of its own       *)
(* (handleRustEvent, handleError, handleClose).                                                 *)
THEOREM ConnectedPanes == Spec => []ConnectedIsCurrent
<1>1. SInv => ConnectedIsCurrent
  BY DEF SInv, Own, Shown, ConnectedIsCurrent, Opened, Over, Sessions, None
<1> QED
  BY <1>1, Invariant, PTL

(* Until an event of another session is acted on, a task goes past the host-key check only with  *)
(* a key that known_hosts holds (check_server_key, submitHostKeyDecision).                       *)
THEOREM KeysAreCommitted == Spec => []HostKeyCommitted
<1>1. SInv => HostKeyCommitted
  BY DEF SInv, Own, KeyAsked, HostKeyCommitted
<1> QED
  BY <1>1, Invariant, PTL

(* Until an event of another session is acted on, a task that the client let go was told to      *)
(* disconnect or ends by itself (SshClient.disconnect, completeKeypush).                         *)
THEOREM NoTaskIsLeft == Spec => []NoOrphan
<1>1. SInv => NoOrphan
  BY DEF SInv, Own, LetGo, NoOrphan
<1> QED
  BY <1>1, Invariant, PTL

(* Until an event of another session is acted on, no shell runs behind the local prompt          *)
(* (tabHasActiveSession asks the mode only).                                                     *)
THEOREM PromptHasNoShell == Spec => []IdleMeansNoShell
<1>1. SInv => IdleMeansNoShell
  BY DEF SInv, Own, Idle, IdleMeansNoShell, Live, Checked
<1> QED
  BY <1>1, Invariant, PTL
-----------------------------------------------------------------------------
(* What the liveness of a connection rests on.  ConnectionResolves and ToldSessionEnds need  *)
(* fairness and are model-checked; that a task moves only towards its end, that its end is   *)
(* always on its way to a client that still holds it, and that a connecting pane always has  *)
(* something to wait for are safety, and proved here for every number of sessions.           *)

PhaseRank(p) ==
  CASE p = "unused" -> 10
    [] p = "connecting" -> 9
    [] p = "hostkey" -> 8
    [] p = "asking" -> 7
    [] p = "exchanging" -> 6
    [] p = "opening" -> 5
    [] p = "shell" -> 4
    [] p = "dying" -> 3
    [] p = "finished" -> 2
    [] p = "ended" -> 1

\* How many steps the task of s can still take, but for the errors of its writer.
Rank(s) == PhaseRank(phase[s]) + 2 * (MaxAsks - asks[s])

\* Each step of run_session, and each answer of the server that opens its shell, brings its
\* task nearer to its end, nothing that the UI thread, the user or another task does takes it
\* back, and a message in its disconnect channel stays there until the task is gone.
TaskAdvances ==
  [][\A s \in Sessions :
       /\ Rank(s)' <= Rank(s)
       /\ Progress(s) \/ ShellOpens(s) \/ OpeningFails(s) => Rank(s)' < Rank(s)
       /\ told[s] => told'[s] \/ phase'[s] = "ended"]_vars

Final(s) == Has(control[s], "ERROR") \/ Has(transport[s], "close") \/ Has(transport[s], "error")

\* A client that holds a session whose task is dying or gone will be told: the event that
\* makes it forget the session is queued and the client listens to it.  SshClient never
\* keeps a dead session, which would refuse every later connect ('Session already active').
EndIsHeard ==
  sessionId # None /\ phase[sessionId] \in {"dying"} \cup Over =>
    ~Muted(sessionId) /\ Final(sessionId)

\* The stages that a timeout of run_session ends.
Timed == {"connecting", "exchanging", "asking"}

\* Up to the first event of another session, a pane in CONNECTING has a session that it
\* listens to.  The session is in a stage with a timeout, has an answer to take, or has
\* reported something that takes the pane out of CONNECTING; or it waits for the server to
\* open the shell, and then nothing but the server's answers and the user can end it.
ConnectingHasCause ==
  ~foreign /\ mode = "CONNECTING" =>
    /\ sessionId # None /\ ~Muted(sessionId)
    /\ \/ phase[sessionId] \in Timed
       \/ phase[sessionId] = "opening" /\ ~told[sessionId]
       \/ phase[sessionId] = "hostkey" /\ hostKeyRx[sessionId] # "empty"
       \/ control[sessionId] # <<>>
       \/ Has(transport[sessionId], "close") \/ Has(transport[sessionId], "error")

\* A session that was told to disconnect has a task that can take the message, or is past it.
Runs(s) == told[s] => phase[s] \in Live \cup {"finished"}

\* The session of a client was not told to end, and its end is reported.
Heard(s) ==
  /\ ~told[s] /\ phase[s] # "unused"
  /\ phase[s] = "dying" => Has(control[s], "ERROR")
  /\ phase[s] \in Over => Final(s)

\* What a pane in a pending mode waits for.
Awaited(s) == phase[s] = "shell" => Has(control[s], "CONNECTED")
KeyAwaited(s) ==
  phase[s] = "hostkey" => Has(control[s], "HOST_KEY_PROMPT") \/ hostKeyRx[s] # "empty"

Held == sessionId \in Sessions => owner[sessionId] = client /\ Heard(sessionId)

Expected ==
  ~foreign /\ mode \in PendingModes =>
    /\ sessionId \in Sessions /\ Awaited(sessionId)
    /\ mode = "CONNECTING" => KeyAwaited(sessionId)

HInv == SInv /\ (\A s \in Sessions : Runs(s)) /\ Held /\ Expected

\* Taking the first event leaves every other kind queued.
LEMMA Remains ==
  ASSUME NEW S, NEW q \in Seq(S), q # <<>>, NEW x, Has(q, x), Head(q) # x
  PROVE  Has(Tail(q), x)
<1>1. PICK k \in 1..Len(q) : q[k] = x
  BY DEF Has
<1>2. k # 1
  BY <1>1
<1>3. /\ k - 1 \in 1..Len(Tail(q)) /\ Tail(q)[k - 1] = q[k]
  BY <1>1, <1>2
<1> QED
  BY <1>1, <1>3 DEF Has

-----------------------------------------------------------------------------
(* The task keeps what its client waits for.                               *)

Keeps(s) ==
  /\ Runs(s) => Runs(s)'
  /\ Heard(s) => Heard(s)' /\ (Awaited(s) => Awaited(s)') /\ (KeyAwaited(s) => KeyAwaited(s)')

LEMMA TaskKeeps ==
  ASSUME HInv, SInv', NEW s \in Sessions, UNCHANGED uiSide,
         \A t \in Sessions \ {s} : Untouched(t), Keeps(s)
  PROVE  HInv'
<1>1. UNCHANGED <<owner, client, sessionId, mode, foreign>>
  BY DEF uiSide, handle, view
<1>2. ASSUME NEW t \in Sessions PROVE Keeps(t)
  <2>1. CASE t = s
    BY <2>1
  <2>2. CASE t # s
    BY <2>2 DEF Keeps, Untouched, Runs, Heard, Final, Awaited, KeyAwaited
  <2> QED
    BY <2>1, <2>2
<1>3. \A t \in Sessions : Runs(t)'
  BY <1>2 DEF HInv, Keeps
<1>4. Held'
  BY <1>1, <1>2 DEF HInv, Held, Keeps
<1>5. Expected'
  BY <1>1, <1>2 DEF HInv, Held, Expected, Keeps
<1> QED
  BY <1>3, <1>4, <1>5 DEF HInv

LEMMA ControlKeeps ==
  ASSUME HInv, SInv', NEW s \in Sessions, NEW p \in Phases, NEW e \in ControlEvents,
         Enter(s, p), SendControl(s, e), hostKeyRx' \in {hostKeyRx, [hostKeyRx EXCEPT ![s] = "empty"]},
         UNCHANGED <<told, authRx, asks, commands, transport, auth>>, UNCHANGED uiSide,
         \/ p = "shell" /\ e = "CONNECTED"
         \/ p \in {"dying", "finished"} /\ e = "ERROR"
         \/ p = "hostkey" /\ e = "HOST_KEY_PROMPT"
  PROVE  HInv'
<1>1. /\ \A t \in Sessions \ {s} : Untouched(t)
      /\ Sends(ControlEvents, control, control', s, e) /\ phase'[s] = p
  BY ControlSent DEF HInv
<1>2. Has(control'[s], e)
  BY <1>1 DEF Sends
<1>3. Keeps(s)
  BY <1>1, <1>2 DEF Keeps, Runs, Heard, Final, Awaited, KeyAwaited, Live, Checked, Over
<1> QED
  BY <1>1, <1>3, TaskKeeps

LEMMA TransportKeeps ==
  ASSUME HInv, SInv', NEW s \in Sessions, NEW p \in Phases, NEW e \in TransportEvents,
         phase' = [phase EXCEPT ![s] = p], SendTransport(s, e),
         UNCHANGED <<told, hostKeyRx, authRx, asks, control, auth>>, UNCHANGED uiSide,
         commands' \in [Sessions -> Nat],
         \/ p = "finished" /\ e \in {"close", "error"}
         \/ p = "shell" /\ phase[s] = "shell"
  PROVE  HInv'
<1>1. /\ \A t \in Sessions \ {s} : Untouched(t)
      /\ Sends(TransportEvents, transport, transport', s, e) /\ phase'[s] = p
  BY TransportSent DEF HInv
<1>2. Has(transport'[s], e)
  BY <1>1 DEF Sends
<1>3. Keeps(s)
  BY <1>1, <1>2 DEF Keeps, Runs, Heard, Final, Awaited, KeyAwaited, Live, Checked, Over
<1> QED
  BY <1>1, <1>3, TaskKeeps

LEMMA SilentKeeps ==
  ASSUME HInv, SInv', NEW s \in Sessions, NEW p \in Phases, Enter(s, p),
         UNCHANGED <<control, transport>>, UNCHANGED uiSide,
         \A t \in Sessions \ {s} : Untouched(t),
         told'[s] = told[s] \/ ~told'[s],
         \/ p \in {"exchanging", "asking", "opening"}
         \/ p = "ended" /\ phase[s] = "finished" /\ ~told'[s]
         \/ p = "finished" /\ told[s]
  PROVE  HInv'
<1>1. phase'[s] = p
  BY DEF HInv, SInv, TaskTypes, Enter
<1>2. Keeps(s)
  BY <1>1 DEF Keeps, Runs, Heard, Final, Awaited, KeyAwaited, Live, Checked, Over
<1> QED
  BY <1>2, TaskKeeps

LEMMA ProgressKeeps ==
  ASSUME HInv, SInv', NEW s \in Sessions, Progress(s)
  PROVE  HInv'
<1> USE DEF Phases, ControlEvents
<1>0. SInv /\ UNCHANGED uiSide
  BY DEF HInv, Progress, CheckServerKey, HostKeyAnswer, ServerAsks, TakeAnswer, Authenticated,
         StageFails, Cancelled, DyingEnds, RemoveSession
<1>1. CASE CheckServerKey(s)
  <2>1. UNCHANGED <<told, hostKeyRx, authRx, asks, commands, transport, auth>>
    BY <1>1 DEF CheckServerKey
  <2>2. CASE Enter(s, "exchanging") /\ UNCHANGED control
    <3>1. \A t \in Sessions \ {s} : Untouched(t)
      BY <1>0, <2>1, <2>2, NothingSent
    <3> QED
      BY <1>0, <2>1, <2>2, <3>1, SilentKeeps
  <2>3. CASE Enter(s, "hostkey") /\ SendControl(s, "HOST_KEY_PROMPT")
    BY <1>0, <2>1, <2>3, ControlKeeps
  <2>4. ASSUME NEW e \in {"HOST_KEY_CHANGED", "ERROR"}, Enter(s, "finished"),
               control' = [control EXCEPT ![s] = Append(Append(@, e), "ERROR")]
        PROVE  HInv'
    <3>1. /\ control[s] \in Seq(ControlEvents) /\ control'[s] = Append(Append(control[s], e), "ERROR")
          /\ phase'[s] = "finished"
      BY <1>0, <2>4 DEF SInv, QueueTypes, TaskTypes, Enter
    <3>2. Append(control[s], e) \in Seq(ControlEvents)
      BY <2>4, <3>1
    <3>3. Has(Append(Append(control[s], e), "ERROR"), "ERROR")
      <4>1. "ERROR" \in ControlEvents
        OBVIOUS
      <4> HIDE DEF ControlEvents
      <4>2. \A q \in Seq(ControlEvents) : Has(Append(q, "ERROR"), "ERROR")
        BY <4>1, HasAppend
      <4> QED
        BY <3>2, <4>2
    <3>4. Has(control'[s], "ERROR")
      BY <3>1, <3>3
    <3>5. \A t \in Sessions \ {s} : Untouched(t)
      BY <1>0, <2>1, <2>4 DEF Untouched, SInv, TaskTypes, QueueTypes, Enter
    <3>6. Keeps(s)
      BY <2>1, <3>1, <3>4 DEF Keeps, Runs, Heard, Final, Awaited, KeyAwaited, Over
    <3> QED
      BY <1>0, <3>5, <3>6, TaskKeeps
  <2> QED
    BY <1>1, <2>2, <2>3, <2>4 DEF CheckServerKey
<1>2. CASE HostKeyAnswer(s)
  <2>1. /\ hostKeyRx' = [hostKeyRx EXCEPT ![s] = "empty"]
        /\ UNCHANGED <<told, authRx, asks, commands, transport, auth>>
    BY <1>2 DEF HostKeyAnswer
  <2>2. CASE Enter(s, "exchanging") /\ UNCHANGED control
    <3>1. \A t \in Sessions \ {s} : Untouched(t)
      BY <1>0, <2>1, <2>2, NothingSent
    <3> QED
      BY <1>0, <2>1, <2>2, <3>1, SilentKeeps
  <2>3. CASE ReturnError(s)
    BY <1>0, <2>1, <2>3, ControlKeeps DEF ReturnError
  <2> QED
    BY <1>2, <2>2, <2>3 DEF HostKeyAnswer
<1>3. CASE ServerAsks(s)
  <2>1. PICK p \in {"exchanging", "asking"} : Enter(s, p)
    <3>1. phase[s] = "exchanging" /\ phase \in [Sessions -> Phases]
      BY <1>0, <1>3 DEF ServerAsks, SInv, TaskTypes
    <3>2. phase = [phase EXCEPT ![s] = "exchanging"]
      BY <3>1
    <3> QED
      BY <1>3, <3>2 DEF ServerAsks, Enter
  <2>2. \A t \in Sessions \ {s} : Untouched(t)
    BY <1>0, <1>3, <2>1 DEF ServerAsks, Untouched, SendAuth, Enter, SInv, TaskTypes, QueueTypes
  <2> QED
    BY <1>0, <1>3, <2>1, <2>2, SilentKeeps DEF ServerAsks
<1>4. CASE TakeAnswer(s)
  <2>1. \A t \in Sessions \ {s} : Untouched(t)
    BY <1>0, <1>4 DEF TakeAnswer, Untouched, Enter, SInv, TaskTypes, queues
  <2> QED
    BY <1>0, <1>4, <2>1, SilentKeeps DEF TakeAnswer, queues
<1>5. CASE Authenticated(s)
  <2>1. \A t \in Sessions \ {s} : Untouched(t)
    BY <1>0, <1>5 DEF Authenticated, Untouched, Enter, SInv, TaskTypes, queues
  <2> QED
    BY <1>0, <1>5, <2>1, SilentKeeps DEF Authenticated, queues
<1>7. CASE StageFails(s)
  BY <1>0, <1>7, ControlKeeps DEF StageFails, ReturnError
<1>8. CASE Cancelled(s)
  <2>1. CASE UNCHANGED transport
    <3>1. \A t \in Sessions \ {s} : Untouched(t)
      BY <1>0, <1>8, <2>1 DEF Cancelled, Untouched, Enter, SInv, TaskTypes
    <3> QED
      BY <1>0, <1>8, <2>1, <3>1, SilentKeeps DEF Cancelled
  <2>2. CASE SendTransport(s, "close")
    BY <1>0, <1>8, <2>2, TransportKeeps DEF Cancelled, Enter, TransportEvents, SInv, TaskTypes
  <2> QED
    BY <1>8, <2>1, <2>2 DEF Cancelled
<1>9. CASE DyingEnds(s)
  <2>1. PICK e \in {"close", "error"} : SendTransport(s, e)
    BY <1>9 DEF DyingEnds
  <2>2. /\ phase' = [phase EXCEPT ![s] = "finished"] /\ "finished" \in Phases
        /\ e \in TransportEvents /\ commands' \in [Sessions -> Nat]
        /\ UNCHANGED <<told, hostKeyRx, authRx, asks, control, auth>>
    BY <1>0, <1>9 DEF DyingEnds, Enter, TransportEvents, SInv, TaskTypes
  <2> HIDE DEF Phases, ControlEvents
  <2> QED
    BY <1>0, <2>1, <2>2, TransportKeeps
<1>10. CASE RemoveSession(s)
  <2>1. \A t \in Sessions \ {s} : Untouched(t)
    BY <1>0, <1>10 DEF RemoveSession, Untouched, Enter, SInv, TaskTypes, queues
  <2>2. ~told'[s]
    BY <1>0, <1>10 DEF RemoveSession, SInv, TaskTypes
  <2> QED
    BY <1>0, <1>10, <2>1, <2>2, SilentKeeps DEF RemoveSession, queues
<1> QED
  BY <1>1, <1>2, <1>3, <1>4, <1>5, <1>7, <1>8, <1>9, <1>10 DEF Progress

LEMMA EnvironmentKeeps ==
  ASSUME HInv, SInv', NEW s \in Sessions, Environment(s)
  PROVE  HInv'
<1> USE DEF Phases, ControlEvents, TransportEvents
<1>0. SInv /\ UNCHANGED uiSide
  BY DEF HInv, Environment, ServerGone, ShellOpens, OpeningFails, ShellEnds, WriteFails, MarkerPrinted
<1>1. CASE ServerGone(s)
  BY <1>0, <1>1, ControlKeeps DEF ServerGone, ReturnError
<1>2. CASE WriteFails(s)
  BY <1>0, <1>2, ControlKeeps DEF WriteFails
<1>3. CASE ShellEnds(s)
  <2>1. PICK e \in {"close", "error"} : SendTransport(s, e)
    BY <1>3 DEF ShellEnds
  <2>2. /\ phase' = [phase EXCEPT ![s] = "finished"] /\ "finished" \in Phases
        /\ e \in TransportEvents /\ commands' \in [Sessions -> Nat]
        /\ UNCHANGED <<told, hostKeyRx, authRx, asks, control, auth>>
    BY <1>0, <1>3 DEF ShellEnds, Enter, TransportEvents, SInv, TaskTypes
  <2> HIDE DEF Phases, ControlEvents, TransportEvents
  <2> QED
    BY <1>0, <2>1, <2>2, TransportKeeps
<1>4. CASE MarkerPrinted(s)
  <2>1. phase = [phase EXCEPT ![s] = "shell"]
    BY <1>0, <1>4 DEF MarkerPrinted, SInv, TaskTypes
  <2>2. commands' \in [Sessions -> Nat]
    BY <1>4 DEF MarkerPrinted, SInv, TaskTypes
  <2> QED
    BY <1>0, <1>4, <2>1, <2>2, TransportKeeps DEF MarkerPrinted
<1>5. CASE ShellOpens(s)
  BY <1>0, <1>5, ControlKeeps DEF ShellOpens
<1>6. CASE OpeningFails(s)
  BY <1>0, <1>6, ControlKeeps DEF OpeningFails, ReturnError
<1> QED
  BY <1>1, <1>2, <1>3, <1>4, <1>5, <1>6 DEF Environment

-----------------------------------------------------------------------------
(* The UI thread forgets a session or leaves its end queued.               *)

LEMMA UiForgets ==
  ASSUME HInv, SInv', phase' = phase, sessionId' = None, mode' = "IDLE",
         UNCHANGED told \/ NativeDisconnect
  PROVE  HInv'
<1>1. ASSUME NEW t \in Sessions PROVE Runs(t)'
  <2>1. told'[t] => told[t] \/ (phase[t] \in Live \cup {"finished"})
    BY DEF NativeDisconnect, Registered
  <2> QED
    BY <2>1 DEF HInv, Runs
<1>2. Held' /\ Expected'
  BY DEF Held, Expected, Sessions, None, PendingModes
<1> QED
  BY <1>1, <1>2 DEF HInv

LEMMA UiKeeps ==
  ASSUME HInv, SInv', UNCHANGED <<phase, told, sessionId, client, owner>>,
         sessionId \in Sessions =>
           /\ Has(control[sessionId], "ERROR") => Has(control'[sessionId], "ERROR")
           /\ Final(sessionId) => Final(sessionId)',
         ~foreign' /\ mode' \in PendingModes =>
           /\ sessionId \in Sessions /\ Awaited(sessionId)'
           /\ mode' = "CONNECTING" => KeyAwaited(sessionId)'
  PROVE  HInv'
<1>1. \A t \in Sessions : Runs(t)'
  BY DEF HInv, Runs
<1>2. Held'
  BY DEF HInv, Held, Heard, Final
<1>3. Expected'
  BY DEF Expected
<1> QED
  BY <1>1, <1>2, <1>3 DEF HInv

\* A handler that touches the session of the pane in no way.
LEMMA UiIgnores ==
  ASSUME HInv, SInv', UNCHANGED <<phase, told, sessionId, client, owner, hostKeyRx, mode, foreign>>,
         sessionId \in Sessions =>
           /\ \A e \in ControlEvents : Has(control[sessionId], e) => Has(control'[sessionId], e)
           /\ Final(sessionId) => Final(sessionId)'
  PROVE  HInv'
<1>1. ~foreign' /\ mode' \in PendingModes =>
           /\ sessionId \in Sessions /\ Awaited(sessionId)'
           /\ mode' = "CONNECTING" => KeyAwaited(sessionId)'
  BY DEF HInv, Expected, Awaited, KeyAwaited, ControlEvents
<1> QED
  BY <1>1, UiKeeps DEF ControlEvents

LEMMA HandleControlEventKeeps ==
  ASSUME HInv, SInv', NEW s \in Sessions, HandleControlEvent(s)
  PROVE  HInv'
<1>1. /\ SInv /\ control[s] # <<>> /\ control' = [control EXCEPT ![s] = Tail(@)]
      /\ UNCHANGED <<known, phase, told, hostKeyRx, authRx, asks, target, transport, auth, owner, wanted>>
  BY DEF HInv, HandleControlEvent
<1>2. control[s] \in Seq(ControlEvents) /\ control'[s] = Tail(control[s])
      /\ \A t \in Sessions \ {s} : control'[t] = control[t]
  BY <1>1 DEF SInv, QueueTypes
<1>3. \A x : Has(control[s], x) /\ Head(control[s]) # x => Has(control'[s], x)
  BY <1>1, <1>2, Remains
<1>4. ASSUME Head(control[s]) # "ERROR", sessionId \in Sessions, UNCHANGED sessionId
      PROVE  /\ Has(control[sessionId], "ERROR") => Has(control'[sessionId], "ERROR")
             /\ Final(sessionId) => Final(sessionId)'
  <2>1. CASE sessionId = s
    BY <1>1, <1>3, <1>4, <2>1 DEF Final
  <2>2. CASE sessionId # s
    BY <1>1, <1>2, <1>4, <2>2 DEF Final
  <2> QED
    BY <2>1, <2>2
<1>5. CASE Muted(s) /\ UNCHANGED <<handle, view, commands, foreign>>
  <2>1. sessionId \in Sessions => sessionId # s
    BY <1>5 DEF HInv, Held, Muted
  <2> QED
    BY <1>1, <1>2, <1>5, <2>1, UiIgnores DEF handle, view, Final
<1>6. ASSUME ActsOn(s), Head(control[s]) = "CONNECTED", HandleConnected PROVE HInv'
  <2>1. mode' \notin PendingModes /\ UNCHANGED <<sessionId, client>>
    BY <1>6 DEF HandleConnected, ExecuteKeypushCommand, PendingModes
  <2> QED
    BY <1>1, <1>4, <1>6, <2>1, UiKeeps
<1>7. ASSUME ActsOn(s), Head(control[s]) = "HOST_KEY_PROMPT", HandleHostKeyPrompt(s) PROVE HInv'
  <2>1. mode' = "HOST_KEY_INPUT" /\ UNCHANGED <<sessionId, client>>
    BY <1>7 DEF HandleHostKeyPrompt
  <2>2. ASSUME ~foreign' PROVE sessionId \in Sessions /\ Awaited(sessionId)'
    <3>1. ~foreign /\ s = sessionId
      BY <1>7, <2>2 DEF ActsOn
    <3>2. Has(control[s], "HOST_KEY_PROMPT")
      BY <1>1, <1>2, <1>7, HasTail
    <3>3. phase[s] \in {"hostkey"} \cup Over
      BY <1>1, <3>1, <3>2 DEF SInv, Own, KeyAsked
    <3> QED
      BY <1>1, <2>1, <3>1, <3>3 DEF Awaited, Over
  <2> QED
    BY <1>1, <1>4, <1>7, <2>1, <2>2, UiKeeps
<1>8. ASSUME HandleHostKeyChanged PROVE HInv'
  BY <1>1, <1>8, UiForgets DEF HandleHostKeyChanged, ReplaceClient
<1>9. ASSUME ForgetSession, OnSshError PROVE HInv'
  BY <1>1, <1>9, UiForgets DEF ForgetSession, OnSshError, BackToPrompt
<1> QED
  BY <1>5, <1>6, <1>7, <1>8, <1>9 DEF HandleControlEvent

LEMMA HandleAuthEventKeeps ==
  ASSUME HInv, SInv', NEW s \in Sessions, HandleAuthEvent(s)
  PROVE  HInv'
<1>1. /\ SInv /\ UNCHANGED <<phase, told, sessionId, client, owner, hostKeyRx, control, transport, foreign>>
  BY DEF HInv, HandleAuthEvent, task
<1>2. CASE UNCHANGED mode
  BY <1>1, <1>2, UiIgnores DEF Final
<1>3. CASE s = sessionId /\ Head(auth[s]) = "prompt" /\ mode' = "AUTH_INPUT"
  <2>1. auth[s] \in Seq(AuthEvents) /\ auth[s] # <<>>
    BY <1>1 DEF HandleAuthEvent, SInv, QueueTypes
  <2>2. Has(auth[s], "prompt")
    BY <1>3, <2>1, HasTail
  <2>3. phase[s] \in {"asking"} \cup Over
    BY <1>1, <2>2 DEF SInv, Queued, AuthQueued
  <2>4. Awaited(sessionId)'
    BY <1>1, <1>3, <2>3 DEF Awaited, Over
  <2> QED
    BY <1>1, <1>3, <2>4, UiKeeps DEF Final
<1> QED
  BY <1>2, <1>3 DEF HandleAuthEvent

LEMMA HandleTransportEventKeeps ==
  ASSUME HInv, SInv', NEW s \in Sessions, HandleTransportEvent(s)
  PROVE  HInv'
<1>1. /\ SInv /\ transport[s] # <<>> /\ transport' = [transport EXCEPT ![s] = Tail(@)]
      /\ UNCHANGED <<known, phase, hostKeyRx, authRx, asks, commands, target, control, auth, owner, wanted>>
  BY DEF HInv, HandleTransportEvent
<1>2. transport[s] \in Seq(TransportEvents) /\ transport'[s] = Tail(transport[s])
      /\ \A t \in Sessions \ {s} : transport'[t] = transport[t]
  BY <1>1 DEF SInv, QueueTypes
<1>3. \A x : Has(transport[s], x) /\ Head(transport[s]) # x => Has(transport'[s], x)
  BY <1>1, <1>2, Remains
<1>4. CASE /\ Muted(s) \/ Head(transport[s]) = "marker"
           /\ UNCHANGED <<handle, view, told, foreign>>
  <2>1. ASSUME sessionId \in Sessions, Final(sessionId) PROVE Final(sessionId)'
    <3>1. UNCHANGED sessionId
      BY <1>4 DEF handle
    <3>2. CASE sessionId # s
      BY <1>1, <1>2, <2>1, <3>1, <3>2 DEF Final
    <3>3. CASE sessionId = s
      <4>1. Head(transport[s]) = "marker"
        BY <1>4, <3>3 DEF HInv, Held, Muted
      <4> QED
        BY <1>1, <1>3, <2>1, <3>1, <3>3, <4>1 DEF Final
    <3> QED
      BY <3>2, <3>3
  <2> QED
    BY <1>1, <1>4, <2>1, UiIgnores DEF handle, view
<1>5. ASSUME NEW newState, CompleteKeypush(newState) PROVE HInv'
  BY <1>1, <1>5, UiForgets DEF CompleteKeypush, ReplaceClient
<1>6. ASSUME ForgetSession, OnSshClose \/ OnSshError, UNCHANGED told PROVE HInv'
  BY <1>1, <1>6, UiForgets DEF ForgetSession, OnSshClose, OnSshError, BackToPrompt
<1> QED
  BY <1>4, <1>5, <1>6 DEF HandleTransportEvent

LEMMA KeypushTimeoutKeeps ==
  ASSUME HInv, SInv', KeypushTimeout
  PROVE  HInv'
<1>1. UNCHANGED <<phase, hostKeyRx, control, transport, owner, foreign>>
  BY DEF KeypushTimeout, queues
<1>2. CASE CompleteKeypush("FAILED")
  BY <1>1, <1>2, UiForgets DEF CompleteKeypush, ReplaceClient
<1>3. CASE UNCHANGED <<handle, mode, state, pendingKeypush, marker, disposed, told>>
  BY <1>1, <1>3, UiIgnores DEF handle, Final
<1> QED
  BY <1>2, <1>3 DEF KeypushTimeout

LEMMA ConnectKeeps ==
  ASSUME HInv, SInv', Connect
  PROVE  HInv'
<1>1. /\ SInv /\ UNCHANGED <<told, hostKeyRx, control, transport, client, foreign>>
  BY DEF HInv, Connect, queues
<1>2. CASE mode' = "IDLE" /\ UNCHANGED <<phase, owner, sessionId>>
  BY <1>1, <1>2, UiKeeps DEF PendingModes, Final
<1>3. ASSUME NEW s \in Fresh, mode' = "CONNECTING", Enter(s, "connecting"),
             owner' = [owner EXCEPT ![s] = client], sessionId' = s
      PROVE  HInv'
  <2>1. /\ s \in Sessions /\ phase[s] = "unused" /\ phase'[s] = "connecting" /\ owner'[s] = client
        /\ \A t \in Sessions \ {s} : phase'[t] = phase[t]
    BY <1>1, <1>3 DEF Fresh, Enter, SInv, TaskTypes, UiTypes
  <2>2. ~told[s]
    BY <2>1 DEF HInv, Runs, Live, Checked
  <2>3. ASSUME NEW t \in Sessions PROVE Runs(t)'
    <3>1. CASE t = s
      BY <1>1, <2>2, <3>1 DEF Runs
    <3>2. CASE t # s
      BY <1>1, <2>1, <3>2 DEF HInv, Runs
    <3> QED
      BY <3>1, <3>2
  <2>4. Held' /\ Expected'
    BY <1>1, <1>3, <2>1, <2>2 DEF Held, Heard, Expected, Awaited, KeyAwaited, Over
  <2> QED
    BY <2>3, <2>4 DEF HInv
<1> QED
  BY <1>2, <1>3 DEF Connect

LEMMA DecisionKeeps ==
  ASSUME HInv, SInv', SubmitHostKeyDecision
  PROVE  HInv'
<1>1. /\ SInv /\ mode = "HOST_KEY_INPUT"
      /\ UNCHANGED <<phase, told, sessionId, client, owner, control, transport, foreign>>
  BY DEF HInv, SubmitHostKeyDecision, queues
<1>2. CASE mode' = "IDLE"
  BY <1>1, <1>2, UiKeeps DEF PendingModes, Final
<1>3. CASE mode' = "CONNECTING" /\ VerifyHostKey("yes", TRUE)
  <2>1. sessionId \in Sessions /\ hostKeyRx'[sessionId] = "yes"
    BY <1>1, <1>3, VerifyFacts
  <2>2. ASSUME ~foreign PROVE phase[sessionId] \in {"hostkey"} \cup Over
    BY <1>1, <2>2 DEF SInv, Own, KeyShown
  <2> QED
    BY <1>1, <1>3, <2>1, <2>2, UiKeeps DEF Final, Awaited, KeyAwaited, Over
<1>4. ASSUME NEW sent \in BOOLEAN, VerifyHostKey("yes", sent),
             IF sent
             THEN mode' = "CONNECTING" /\ state' = "CONNECTING" /\ UNCHANGED <<keypush, disposed>>
             ELSE OnSshError
      PROVE  HInv'
  BY <1>2, <1>3, <1>4 DEF OnSshError, BackToPrompt
<1> QED
  BY <1>2, <1>4 DEF SubmitHostKeyDecision, AcceptHostKey, RejectHostKey, OnSshError, BackToPrompt

LEMMA AnswerKeeps ==
  ASSUME HInv, SInv', SubmitAnswer
  PROVE  HInv'
<1>1. /\ SInv /\ mode = "AUTH_INPUT"
      /\ UNCHANGED <<phase, told, hostKeyRx, sessionId, client, owner, control, transport, foreign>>
  BY DEF HInv, SubmitAnswer, queues
<1>2. sessionId \in Sessions /\ phase[sessionId] \in {"asking"} \cup Over
  BY <1>1 DEF SInv, Prompted
<1> QED
  BY <1>1, <1>2, UiKeeps DEF Final, Awaited, KeyAwaited, Over

LEMMA UserKeeps ==
  ASSUME HInv, SInv', User
  PROVE  HInv'
<1>1. CASE WriteToNothing
  <2>1. /\ mode' = "IDLE"
        /\ UNCHANGED <<phase, told, sessionId, client, owner, control, transport, foreign>>
    BY <1>1 DEF WriteToNothing, OnSshError, BackToPrompt, task, queues, handle
  <2> QED
    BY <2>1, UiKeeps DEF PendingModes, Final
<1>2. CASE CancelPendingConnection \/ ClosePane
  BY <1>2, UiForgets
  DEF CancelPendingConnection, ClosePane, Disconnect, ForgetSession, handle
<1> QED
  BY <1>1, <1>2, ConnectKeeps, DecisionKeeps, AnswerKeeps DEF User

LEMMA HStepped ==
  ASSUME HInv, [Next]_vars
  PROVE  HInv'
<1>1. SInv'
  BY Stepped DEF HInv
<1>2. ASSUME NEW s \in Sessions, Progress(s) \/ Environment(s) \/ Dispatch(s) PROVE HInv'
  BY <1>1, <1>2, ProgressKeeps, EnvironmentKeeps, HandleControlEventKeeps, HandleAuthEventKeeps,
     HandleTransportEventKeeps DEF Dispatch
<1>3. CASE UNCHANGED vars
  <2>1. UNCHANGED <<phase, told, sessionId, client, owner, hostKeyRx, mode, foreign, control, transport>>
    BY <1>3 DEF vars, task, queues, handle, view
  <2> QED
    BY <1>1, <2>1, UiIgnores DEF Final
<1> QED
  BY <1>1, <1>2, <1>3, KeypushTimeoutKeeps, UserKeeps DEF Next

LEMMA HInvariant == Spec => []HInv
<1>1. Init => HInv
  <2> SUFFICES ASSUME Init PROVE HInv
    OBVIOUS
  <2>1. SInv
    BY Started
  <2>2. (\A s \in Sessions : Runs(s)) /\ Held /\ Expected
    BY DEF Init, Runs, Held, Expected, Sessions, None, PendingModes
  <2> QED
    BY <2>1, <2>2 DEF HInv
<1>2. HInv /\ [Next]_vars => HInv'
  BY HStepped
<1> QED
  BY <1>1, <1>2, PTL DEF Spec

\* SshClient never keeps a session whose task is gone: run_session has reported its end on a
\* queue that the client still listens to (handleError and handleClose then forget it).
THEOREM DeadSessionsAreReported == Spec => []EndIsHeard
<1>1. HInv => EndIsHeard
  BY DEF HInv, SInv, UiTypes, Held, Heard, EndIsHeard, Final, Muted, Over
<1> QED
  BY <1>1, HInvariant, PTL

\* A pane in CONNECTING waits for something that comes, or for the one thing that need not:
\* run_session is in a stage that its timeout ends, or an answer or a report is on its way
\* (connect, submitHostKeyDecision), or the channel, the terminal and the shell are awaited from
\* the server, without a timeout (lib.rs:986-1005).
THEOREM ConnectingWaitsForSomething == Spec => []ConnectingHasCause
<1>1. ASSUME HInv, ~foreign, mode = "CONNECTING" PROVE ConnectingHasCause
  <2>1. /\ sessionId \in Sessions /\ sessionId # None /\ ~Muted(sessionId) /\ Heard(sessionId)
        /\ Awaited(sessionId) /\ KeyAwaited(sessionId) /\ phase[sessionId] \in Phases
    BY <1>1 DEF HInv, SInv, TaskTypes, Held, Expected, PendingModes, Muted, Sessions, None
  <2>2. \A x : Has(control[sessionId], x) => control[sessionId] # <<>>
    BY DEF Has
  <2> QED
    BY <2>1, <2>2
    DEF ConnectingHasCause, Timed, Heard, Awaited, KeyAwaited, Final, Phases, Over
<1>2. HInv => ConnectingHasCause
  BY <1>1 DEF ConnectingHasCause
<1> QED
  BY <1>2, HInvariant, PTL

-----------------------------------------------------------------------------
(* The tasks only advance.                                                 *)

LEMMA PhaseRanks ==
  /\ \A p \in Phases : PhaseRank(p) \in 1..10
  /\ PhaseRank("asking") = 7 /\ PhaseRank("exchanging") = 6
<1>1. ASSUME NEW p \in Phases PROVE PhaseRank(p) \in 1..10
  BY DEF Phases, PhaseRank
<1>2. PhaseRank("asking") = 7 /\ PhaseRank("exchanging") = 6
  BY DEF PhaseRank
<1> QED
  BY <1>1, <1>2

LEMMA RankTyped ==
  ASSUME TaskTypes, NEW s \in Sessions
  PROVE  PhaseRank(phase[s]) \in 1..10 /\ MaxAsks - asks[s] \in Nat /\ Rank(s) \in Nat
<1>1. PhaseRank(phase[s]) \in 1..10
  BY PhaseRanks DEF TaskTypes
<1>2. MaxAsks - asks[s] \in Nat
  BY BoundsAssumption DEF TaskTypes
<1> QED
  BY <1>1, <1>2 DEF Rank

LEMMA RankFalls ==
  ASSUME TaskTypes, NEW s \in Sessions, NEW p \in Phases, Enter(s, p),
         asks' \in {asks, [asks EXCEPT ![s] = MaxAsks]}, PhaseRank(p) < PhaseRank(phase[s])
  PROVE  Rank(s)' < Rank(s) /\ \A t \in Sessions \ {s} : Rank(t)' = Rank(t)
<1>1. /\ phase'[s] = p /\ asks'[s] \in {asks[s], MaxAsks}
      /\ \A t \in Sessions \ {s} : phase'[t] = phase[t] /\ asks'[t] = asks[t]
  BY DEF TaskTypes, Enter
<1>2. /\ PhaseRank(phase[s]) \in 1..10 /\ MaxAsks - asks[s] \in Nat /\ PhaseRank(p) \in 1..10
  BY RankTyped, PhaseRanks
<1>3. \A t \in Sessions \ {s} : Rank(t)' = Rank(t)
  BY <1>1 DEF Rank
<1>4. Rank(s)' < Rank(s)
  <2>1. MaxAsks \in Nat /\ asks[s] \in 0..MaxAsks
    BY BoundsAssumption DEF TaskTypes
  <2> QED
    BY <1>1, <1>2, <2>1 DEF Rank
<1> QED
  BY <1>3, <1>4

LEMMA ProgressRank ==
  ASSUME TaskTypes, NEW s \in Sessions, Progress(s)
  PROVE  Rank(s)' < Rank(s) /\ \A t \in Sessions \ {s} : Rank(t)' = Rank(t)
<1>1. CASE ServerAsks(s)
  <2>1. /\ phase[s] = "exchanging" /\ asks[s] < MaxAsks /\ asks'[s] = asks[s] + 1
        /\ \A t \in Sessions \ {s} : asks'[t] = asks[t] /\ phase'[t] = phase[t]
        /\ phase'[s] \in {"exchanging", "asking"}
    BY <1>1 DEF ServerAsks, TaskTypes, Enter, Phases
  <2>2. PhaseRank(phase'[s]) \in {6, 7} /\ PhaseRank(phase[s]) = 6
    BY <2>1, PhaseRanks
  <2>3. MaxAsks \in Nat /\ asks[s] \in Nat
    BY BoundsAssumption DEF TaskTypes
  <2>4. Rank(s)' < Rank(s)
    BY <2>1, <2>2, <2>3 DEF Rank
  <2>5. \A t \in Sessions \ {s} : Rank(t)' = Rank(t)
    BY <2>1 DEF Rank
  <2> QED
    BY <2>4, <2>5
<1> USE DEF Phases, PhaseRank
<1>2. CASE CheckServerKey(s)
  BY <1>2, RankFalls DEF CheckServerKey
<1>3. CASE HostKeyAnswer(s)
  BY <1>3, RankFalls DEF HostKeyAnswer, ReturnError
<1>4. CASE TakeAnswer(s)
  BY <1>4, RankFalls DEF TakeAnswer
<1>5. CASE Authenticated(s)
  <2>1. Enter(s, "opening") /\ asks' = [asks EXCEPT ![s] = MaxAsks]
    BY <1>5 DEF Authenticated
  <2>2. "opening" \in Phases /\ PhaseRank("opening") < PhaseRank(phase[s])
    BY <1>5 DEF Authenticated, TaskTypes
  <2> QED
    BY <2>1, <2>2, RankFalls
<1>7. CASE StageFails(s)
  BY <1>7, RankFalls DEF StageFails, ReturnError
<1>8. CASE Cancelled(s)
  BY <1>8, RankFalls DEF Cancelled
<1>9. CASE DyingEnds(s)
  BY <1>9, RankFalls DEF DyingEnds
<1>10. CASE RemoveSession(s)
  <2>1. Enter(s, "ended") /\ asks' = [asks EXCEPT ![s] = MaxAsks]
    BY <1>10 DEF RemoveSession
  <2>2. "ended" \in Phases /\ PhaseRank("ended") < PhaseRank(phase[s])
    BY <1>10 DEF RemoveSession, TaskTypes
  <2> QED
    BY <2>1, <2>2, RankFalls
<1> QED
  BY <1>1, <1>2, <1>3, <1>4, <1>5, <1>7, <1>8, <1>9, <1>10 DEF Progress

LEMMA OpeningRank ==
  ASSUME TaskTypes, NEW s \in Sessions, ShellOpens(s) \/ OpeningFails(s)
  PROVE  Rank(s)' < Rank(s) /\ \A t \in Sessions \ {s} : Rank(t)' = Rank(t)
BY RankFalls DEF ShellOpens, OpeningFails, ReturnError, Phases, PhaseRank

LEMMA EnvironmentRank ==
  ASSUME TaskTypes, NEW s \in Sessions, Environment(s)
  PROVE  \A t \in Sessions : Rank(t)' = Rank(t) \/ Rank(t)' < Rank(t)
<1> USE DEF Phases, PhaseRank
<1>1. CASE ServerGone(s)
  BY <1>1, RankFalls DEF ServerGone, ReturnError
<1>2. CASE ShellEnds(s)
  BY <1>2, RankFalls DEF ShellEnds
<1>3. CASE WriteFails(s)
  <2>1. CASE phase[s] = "shell"
    BY <1>3, <2>1, RankFalls DEF WriteFails
  <2>2. CASE phase[s] = "dying"
    <3>1. UNCHANGED <<phase, asks>>
      BY <1>3, <2>2 DEF WriteFails, Enter, TaskTypes
    <3> QED
      BY <3>1 DEF Rank
  <2> QED
    BY <1>3, <2>1, <2>2 DEF WriteFails
<1>4. CASE MarkerPrinted(s)
  BY <1>4 DEF MarkerPrinted, Rank
<1>5. CASE ShellOpens(s) \/ OpeningFails(s)
  BY <1>5, OpeningRank
<1> QED
  BY <1>1, <1>2, <1>3, <1>4, <1>5 DEF Environment

\* Nothing else touches a task, but a connect, which starts a fresh one.
LEMMA UiRank ==
  ASSUME TaskTypes, (\E s \in Sessions : Dispatch(s)) \/ KeypushTimeout \/ User \/ UNCHANGED vars
  PROVE  \A t \in Sessions : Rank(t)' = Rank(t) \/ Rank(t)' < Rank(t)
<1>1. CASE Connect
  <2>1. CASE UNCHANGED <<phase, asks>>
    BY <2>1 DEF Rank
  <2>2. ASSUME NEW s \in Fresh, Enter(s, "connecting"), UNCHANGED asks
        PROVE  \A t \in Sessions : Rank(t)' = Rank(t) \/ Rank(t)' < Rank(t)
    BY <2>2, RankFalls DEF Fresh, Phases, PhaseRank
  <2> QED
    BY <1>1, <2>1, <2>2 DEF Connect
<1>2. CASE UNCHANGED <<phase, asks>>
  BY <1>2 DEF Rank
<1> QED
  BY <1>1, <1>2 DEF Dispatch, HandleControlEvent, HandleAuthEvent, HandleTransportEvent,
     KeypushTimeout, User, SubmitHostKeyDecision, SubmitAnswer, WriteToNothing,
     CancelPendingConnection, ClosePane, vars, task

LEMMA ToldStays ==
  ASSUME TaskTypes, [Next]_vars, NEW t \in Sessions, told[t]
  PROVE  told'[t] \/ phase'[t] = "ended"
<1>1. ASSUME NEW s \in Sessions, Progress(s) \/ Environment(s) PROVE told'[t] \/ phase'[t] = "ended"
  <2>1. CASE RemoveSession(s)
    BY <2>1 DEF RemoveSession, Enter, TaskTypes
  <2>2. CASE UNCHANGED told
    BY <2>2
  <2> QED
    BY <1>1, <2>1, <2>2
    DEF Progress, Environment, CheckServerKey, HostKeyAnswer, ServerAsks, TakeAnswer,
        Authenticated, ShellOpens, OpeningFails, StageFails, Cancelled, DyingEnds, ServerGone, ShellEnds,
        WriteFails, MarkerPrinted
<1>2. CASE NativeDisconnect
  BY <1>2 DEF NativeDisconnect
<1>3. CASE UNCHANGED told
  BY <1>3
<1> QED
  BY <1>1, <1>2, <1>3
  DEF Next, Dispatch, HandleControlEvent, HandleAuthEvent, HandleTransportEvent, CompleteKeypush,
      KeypushTimeout, User, Connect, SubmitHostKeyDecision, SubmitAnswer, WriteToNothing,
      CancelPendingConnection, ClosePane, Disconnect, vars, task

\* run_session never goes back: each of its steps lowers a rank that no other step raises, and
\* a disconnect request (sshDisconnect) is lost by nobody before the session is removed.
THEOREM TasksAdvance == Spec => TaskAdvances
<1>1. ASSUME HInv, [Next]_vars, NEW s \in Sessions
      PROVE  /\ Rank(s)' <= Rank(s)
             /\ Progress(s) \/ ShellOpens(s) \/ OpeningFails(s) => Rank(s)' < Rank(s)
             /\ told[s] => told'[s] \/ phase'[s] = "ended"
  <2>1. TaskTypes /\ TaskTypes'
    BY <1>1, HStepped DEF HInv, SInv
  <2>2. Rank(s) \in Nat
    BY <2>1, RankTyped
  <2>3. Rank(s)' = Rank(s) \/ Rank(s)' < Rank(s)
    BY <1>1, <2>1, ProgressRank, EnvironmentRank, UiRank DEF Next
  <2>4. Rank(s)' \in Nat
    <3>1. PhaseRank(phase'[s]) \in 1..10
      BY <2>1, PhaseRanks DEF TaskTypes
    <3>2. MaxAsks - asks'[s] \in Nat
      BY <2>1, BoundsAssumption DEF TaskTypes
    <3> QED
      BY <3>1, <3>2 DEF Rank
  <2>5. Rank(s)' <= Rank(s)
    BY <2>2, <2>3, <2>4
  <2>6. Progress(s) \/ ShellOpens(s) \/ OpeningFails(s) => Rank(s)' < Rank(s)
    BY <2>1, ProgressRank, OpeningRank
  <2>7. told[s] => told'[s] \/ phase'[s] = "ended"
    BY <1>1, <2>1, ToldStays
  <2> QED
    BY <2>5, <2>6, <2>7
<1>2. HInv /\ [Next]_vars => [\A s \in Sessions : /\ Rank(s)' <= Rank(s)
                                                  /\ Progress(s) \/ ShellOpens(s) \/ OpeningFails(s) => Rank(s)' < Rank(s)
                                                  /\ told[s] => told'[s] \/ phase'[s] = "ended"]_vars
  BY <1>1
<1> QED
  BY <1>2, HInvariant, PTL DEF Spec, TaskAdvances
=============================================================================
