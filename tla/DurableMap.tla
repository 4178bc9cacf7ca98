----------------------------- MODULE DurableMap -----------------------------
(***************************************************************************)
(* What DurableAssetStore promises its callers: a map from paths to texts  *)
(* that survives a crash, in which a write or a removal takes effect in    *)
(* one step or not at all, and whose answer says which.                    *)
(***************************************************************************)
CONSTANTS Paths, Texts, None

VARIABLES
  value,   \* the text of each path, or None
  call,    \* the call in progress, or Idle
  answer   \* what the last call told its caller

Idle == [path |-> None, text |-> None, done |-> FALSE]

Init ==
  /\ value = [p \in Paths |-> None]
  /\ call = Idle
  /\ answer = "none"

\* write(p, t), or remove(p) when t is None.
Begin(p, t) ==
  /\ call = Idle
  /\ call' = [path |-> p, text |-> t, done |-> FALSE]
  /\ answer' = "none"
  /\ UNCHANGED value

TakeEffect ==
  /\ call # Idle /\ ~call.done
  /\ value' = [value EXCEPT ![call.path] = call.text]
  /\ call' = [path |-> call.path, text |-> call.text, done |-> TRUE]
  /\ UNCHANGED answer

\* A write that fails has changed nothing; a removal that fails may have removed the path.
Reply ==
  /\ call # Idle
  /\ \/ answer' = "ok" /\ call.done
     \/ answer' = "failed" /\ (call.done => call.text = None)
  /\ call' = Idle
  /\ UNCHANGED value

Crash ==
  /\ call' = Idle
  /\ answer' = "none"
  /\ UNCHANGED value

Next ==
  \/ \E p \in Paths, t \in Texts \cup {None} : Begin(p, t)
  \/ TakeEffect \/ Reply \/ Crash

Spec == Init /\ [][Next]_<<value, call, answer>>
=============================================================================
