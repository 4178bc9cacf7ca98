------------------------- MODULE DurableStoreProofs -------------------------
(***************************************************************************)
(* DurableStore for any paths, texts and chunk counts: its types and that  *)
(* it implements DurableMap, so that every text the pointer names is there *)
(* whole whatever failed and whenever the process died.                    *)
(***************************************************************************)
EXTENDS DurableStore, TLAPS

\* No pointer names a generation that is still to come.
FreshInv ==
  /\ \A p \in Paths : pointer[p] # None => pointer[p].generation <= generations
  /\ operation.generation <= generations

\* What each pointer names is complete.
WholeInv == \A p \in Paths : pointer[p] # None => Complete(p, pointer[p])

\* How the pointer of the path that is written or removed stands to the operation.
StageInv ==
  /\ operation.kind = "chunks" => next \in 1..Size[operation.text]
  /\ operation.kind \in {"chunks", "verify", "pointer", "undo"} =>
       (pointer[operation.path] # None =>
          pointer[operation.path].generation # operation.generation)
  /\ operation.kind = "pointer" => Complete(operation.path, Manifest)
  /\ operation.kind = "sweep" => pointer[operation.path] = Manifest
  /\ operation.kind = "clean" => pointer[operation.path] = None

IInv == TypeOK /\ FreshInv /\ WholeInv /\ StageInv

-----------------------------------------------------------------------------
(* Each action preserves the invariant.                                    *)

\* Continuing an operation changes its kind only.
LEMMA ContinueType ==
  ASSUME TypeOK, NEW kind, NEW from, operation.kind = from, Continue(kind),
         \/ from \in {"chunks", "verify", "pointer", "sweep", "undo"} /\
            kind \in {"chunks", "verify", "pointer", "sweep", "undo"}
         \/ from = "unlink" /\ kind = "clean"
  PROVE  /\ operation' \in Operations
         /\ operation'.kind = kind
         /\ operation'.path = operation.path /\ operation.path \in Paths
         /\ operation'.text = operation.text
         /\ operation'.generation = operation.generation
         /\ from # "unlink" => operation.text \in Texts /\ operation.generation \in Generations
<1>1. CASE from \in {"chunks", "verify", "pointer", "sweep", "undo"}
  <2>1. PICK p \in Paths, t \in Texts, g \in Generations : operation = Operation(from, p, t, g)
    BY <1>1 DEF TypeOK, Operations, Operation, NoOperation, Collecting
  <2>2. operation' = Operation(kind, p, t, g)
    BY <2>1 DEF Continue, Operation
  <2>3. operation' \in Operations
    BY <1>1, <2>2 DEF Operations
  <2> QED
    BY <2>1, <2>2, <2>3 DEF Operation
<1>2. CASE from = "unlink" /\ kind = "clean"
  <2>1. PICK p \in Paths : operation = Operation("unlink", p, None, 0)
    BY <1>2 DEF TypeOK, Operations, Operation, NoOperation, Collecting
  <2>2. operation' = Operation("clean", p, None, 0)
    BY <1>2, <2>1 DEF Continue, Operation
  <2>3. operation' \in Operations
    BY <2>2 DEF Operations
  <2> QED
    BY <1>2, <2>1, <2>2, <2>3 DEF Operation
<1> QED
  BY <1>1, <1>2

\* Chunks that are not of a pointer's generation can go.
LEMMA RemovalKeepsWhole ==
  ASSUME IInv, NEW c \in Scope, chunks' = chunks \ {c}, UNCHANGED pointer
  PROVE  WholeInv'
<1> SUFFICES ASSUME NEW p \in Paths, pointer[p] # None,
                    NEW i \in 1..Size[pointer[p].text]
             PROVE  [path |-> p, generation |-> pointer[p].generation, index |-> i,
                     text |-> pointer[p].text, intact |-> TRUE] \in chunks'
  BY DEF WholeInv, Complete
<1> DEFINE d == [path |-> p, generation |-> pointer[p].generation, index |-> i,
                 text |-> pointer[p].text, intact |-> TRUE]
<1>1. d \in chunks
  BY DEF IInv, WholeInv, Complete
<1>2. c # d
  <2>1. CASE operation.kind = "sweep"
    BY <2>1 DEF IInv, Scope, StageInv, Manifest
  <2>2. CASE operation.kind = "undo"
    BY <2>2 DEF IInv, Scope, StageInv
  <2>3. CASE operation.kind = "clean"
    BY <2>3 DEF IInv, Scope, StageInv
  <2>4. CASE operation.kind = "collect"
    BY <2>4 DEF Scope, Active
  <2> QED
    BY <2>1, <2>2, <2>3, <2>4 DEF Scope
<1> QED
  BY <1>1, <1>2

LEMMA InitInv == Init => IInv
BY StoreAssumption
DEF Init, IInv, TypeOK, FreshInv, WholeInv, StageInv, Operations, Operation, Collecting

\* An operation that ends, or a process that dies, leaves the store as it is.
LEMMA IdleInv ==
  ASSUME IInv, UNCHANGED <<pointer, chunks, next, generations>>,
         operation' \in {NoOperation, Collecting},
         answer' \in {"none", "ok", "failed"}, tidy' \in BOOLEAN
  PROVE  IInv'
<1>1. TypeOK'
  BY DEF IInv, TypeOK, Operations
<1>2. operation'.generation = 0 /\ operation'.kind \in {"idle", "collect"}
  BY DEF NoOperation, Collecting, Operation
<1>3. FreshInv'
  BY <1>2 DEF IInv, TypeOK, FreshInv
<1>4. WholeInv'
  BY DEF IInv, WholeInv, Complete
<1>5. StageInv'
  BY <1>2 DEF StageInv
<1> QED
  BY <1>1, <1>3, <1>4, <1>5 DEF IInv

LEMMA WriteInv == ASSUME IInv, NEW p \in Paths, NEW t \in Texts, Write(p, t) PROVE IInv'
<1>0. /\ operation'.kind = "chunks" /\ operation'.path = p /\ operation'.text = t
      /\ operation'.generation = generations'
      /\ generations' = generations + 1 /\ generations' \in Generations
      /\ generations \in Nat
      /\ operation' = Operation("chunks", p, t, generations')
  BY StoreAssumption DEF Write, Operation, IInv, TypeOK, Generations
<1>1. TypeOK'
  <2>1. operation' \in Operations
    BY <1>0 DEF Operations
  <2>2. generations' \in 0..MaxGenerations
    BY <1>0 DEF Generations
  <2> QED
    BY <2>1, <2>2 DEF IInv, TypeOK, Write
<1>2. FreshInv'
  <2> SUFFICES ASSUME NEW q \in Paths, pointer[q] # None
               PROVE  pointer[q].generation <= generations'
    BY <1>0 DEF FreshInv, Write
  <2>1. pointer[q].generation <= generations /\ pointer[q].generation \in Nat
    BY DEF IInv, FreshInv, TypeOK, Manifests, Generations
  <2> QED
    BY <1>0, <2>1
<1>3. WholeInv'
  BY DEF IInv, WholeInv, Complete, Write
<1>4. StageInv'
  <2>1. next' \in 1..Size[operation'.text]
    BY <1>0, StoreAssumption DEF Write
  <2>2. pointer'[p] # None => pointer'[p].generation # operation'.generation
    <3> SUFFICES ASSUME pointer[p] # None PROVE pointer[p].generation # generations'
      BY <1>0 DEF Write
    <3>1. pointer[p].generation <= generations /\ pointer[p].generation \in Nat
      BY DEF IInv, FreshInv, TypeOK, Manifests, Generations
    <3> QED
      BY <1>0, <3>1
  <2> QED
    BY <1>0, <2>1, <2>2 DEF StageInv
<1> QED
  BY <1>1, <1>2, <1>3, <1>4 DEF IInv

LEMMA AddChunkInv == ASSUME IInv, AddChunk PROVE IInv'
<1>0. /\ operation.kind = "chunks"
      /\ operation.path \in Paths /\ operation.text \in Texts
      /\ operation.generation \in Generations
      /\ operation' \in Operations
      /\ operation'.path = operation.path /\ operation'.text = operation.text
      /\ operation'.generation = operation.generation
      /\ next' = next + 1 /\ next \in 1..Size[operation.text]
      /\ Size[operation.text] \in Nat
      /\ \/ operation'.kind = "chunks" /\ next < Size[operation.text]
         \/ operation'.kind = "verify"
  <2>1. operation.kind = "chunks" /\ next' = next + 1 /\ next \in 1..Size[operation.text]
    BY DEF AddChunk, IInv, StageInv
  <2>2. operation.path \in Paths /\ operation.text \in Texts /\ operation.generation \in Generations
    BY <2>1 DEF IInv, TypeOK, Operations, Operation, NoOperation, Collecting
  <2>3. Size[operation.text] \in Nat
    BY <2>2, StoreAssumption
  <2>4. CASE next < Size[operation.text]
    BY <2>1, <2>2, <2>3, <2>4 DEF AddChunk, IInv, TypeOK
  <2>5. CASE ~(next < Size[operation.text])
    <3>1. Continue("verify")
      BY <2>5 DEF AddChunk
    <3> QED
      BY <2>1, <2>2, <2>3, <3>1, ContinueType DEF IInv
  <2> QED
    BY <2>4, <2>5
<1>1. PICK intact \in BOOLEAN : chunks' = chunks \cup {Written(intact)}
  BY DEF AddChunk
<1>2. TypeOK'
  <2>1. next \in Indices
    BY <1>0 DEF Indices
  <2>2. Written(intact) \in Chunks
    BY <1>0, <2>1 DEF Written, Chunks
  <2>3. chunks' \subseteq Chunks
    BY <1>1, <2>2 DEF IInv, TypeOK
  <2>4. next' \in Nat
    BY <1>0
  <2>5. answer' \in {"none", "ok", "failed"}
    BY DEF AddChunk, Continue, IInv, TypeOK
  <2> QED
    BY <1>0, <2>3, <2>4, <2>5 DEF AddChunk, IInv, TypeOK
<1>3. FreshInv'
  BY <1>0 DEF AddChunk, IInv, FreshInv
<1>4. WholeInv'
  BY <1>1 DEF AddChunk, IInv, WholeInv, Complete
<1>5. StageInv'
  <2>1. operation'.kind = "chunks" => next' \in 1..Size[operation'.text]
    BY <1>0
  <2>2. pointer'[operation'.path] # None =>
          pointer'[operation'.path].generation # operation'.generation
    BY <1>0 DEF AddChunk, IInv, StageInv
  <2> QED
    BY <1>0, <2>1, <2>2 DEF StageInv
<1> QED
  BY <1>2, <1>3, <1>4, <1>5 DEF IInv

LEMMA VerifyInv == ASSUME IInv, Verify PROVE IInv'
<1>0. /\ operation.kind = "verify" /\ Continue("pointer")
      /\ UNCHANGED <<pointer, chunks, next, generations, tidy>>
      /\ Complete(operation.path, Manifest)
  BY DEF Verify
<1>1. /\ operation' \in Operations /\ operation'.kind = "pointer"
      /\ operation'.path = operation.path /\ operation'.text = operation.text
      /\ operation'.generation = operation.generation
  BY <1>0, ContinueType DEF IInv
<1>2. TypeOK'
  BY <1>0, <1>1 DEF IInv, TypeOK, Continue
<1>3. FreshInv'
  BY <1>0, <1>1 DEF IInv, FreshInv
<1>4. WholeInv'
  BY <1>0 DEF IInv, WholeInv, Complete
<1>5. StageInv'
  <2>1. Manifest' = Manifest
    BY <1>1 DEF Manifest
  <2>2. Complete(operation.path, Manifest)'
    BY <1>0, <1>1, <2>1 DEF Complete
  <2> QED
    BY <1>0, <1>1, <2>2 DEF IInv, StageInv
<1> QED
  BY <1>2, <1>3, <1>4, <1>5 DEF IInv

LEMMA UpsertPointerInv == ASSUME IInv, UpsertPointer PROVE IInv'
<1>0. /\ operation.kind = "pointer" /\ Continue("sweep")
      /\ UNCHANGED <<chunks, next, generations, tidy>>
      /\ pointer' = [pointer EXCEPT ![operation.path] = Manifest]
      /\ pointer \in [Paths -> Manifests \cup {None}]
  BY DEF UpsertPointer, IInv, TypeOK
<1>1. /\ operation' \in Operations /\ operation'.kind = "sweep"
      /\ operation'.path = operation.path /\ operation'.text = operation.text
      /\ operation'.generation = operation.generation
      /\ operation.path \in Paths /\ operation.text \in Texts
      /\ operation.generation \in Generations
  BY <1>0, ContinueType DEF IInv
<1>2. Manifest \in Manifests /\ Manifest' = Manifest
  BY <1>1 DEF Manifest, Manifests
<1>3. TypeOK'
  BY <1>0, <1>1, <1>2 DEF IInv, TypeOK, Continue
<1>4. FreshInv'
  <2>1. Manifest.generation <= generations
    BY DEF Manifest, IInv, FreshInv
  <2> QED
    BY <1>0, <1>1, <2>1 DEF IInv, FreshInv
<1>5. WholeInv'
  <2> SUFFICES ASSUME NEW p \in Paths, pointer'[p] # None PROVE Complete(p, pointer[p])'
    BY DEF WholeInv
  <2>1. CASE p = operation.path
    BY <1>0, <1>1, <2>1 DEF IInv, StageInv, Complete
  <2>2. CASE p # operation.path
    BY <1>0, <1>1, <2>2 DEF IInv, WholeInv, Complete
  <2> QED
    BY <2>1, <2>2
<1>6. StageInv'
  BY <1>0, <1>1, <1>2 DEF StageInv
<1> QED
  BY <1>3, <1>4, <1>5, <1>6 DEF IInv

LEMMA WriteFailsInv == ASSUME IInv, WriteFails PROVE IInv'
<1>0. /\ operation.kind \in {"chunks", "verify", "pointer"} /\ Continue("undo")
      /\ UNCHANGED <<pointer, chunks, next, generations>> /\ tidy' = FALSE
  BY DEF WriteFails
<1>1. /\ operation' \in Operations /\ operation'.kind = "undo"
      /\ operation'.path = operation.path
      /\ operation'.generation = operation.generation
  BY <1>0, ContinueType DEF IInv
<1>2. TypeOK'
  BY <1>0, <1>1 DEF IInv, TypeOK, Continue
<1>3. FreshInv'
  BY <1>0, <1>1 DEF IInv, FreshInv
<1>4. WholeInv'
  BY <1>0 DEF IInv, WholeInv, Complete
<1>5. StageInv'
  BY <1>0, <1>1 DEF IInv, StageInv
<1> QED
  BY <1>2, <1>3, <1>4, <1>5 DEF IInv

LEMMA RemoveInv == ASSUME IInv, NEW p \in Paths, Remove(p) PROVE IInv'
<1>0. /\ operation' \in Operations /\ operation'.kind = "unlink" /\ operation'.generation = 0
      /\ UNCHANGED <<pointer, chunks, next, generations, tidy>> /\ answer' = "none"
  BY DEF Remove, Operations, Operation
<1>1. TypeOK'
  BY <1>0 DEF IInv, TypeOK
<1>2. FreshInv'
  BY <1>0 DEF IInv, TypeOK, FreshInv
<1>3. WholeInv'
  BY <1>0 DEF IInv, WholeInv, Complete
<1>4. StageInv'
  BY <1>0 DEF StageInv
<1> QED
  BY <1>1, <1>2, <1>3, <1>4 DEF IInv

LEMMA RemovePointerInv == ASSUME IInv, RemovePointer PROVE IInv'
<1>0. /\ operation.kind = "unlink" /\ Continue("clean")
      /\ UNCHANGED <<chunks, next, generations, tidy>>
      /\ pointer' = [pointer EXCEPT ![operation.path] = None]
      /\ pointer \in [Paths -> Manifests \cup {None}]
  BY DEF RemovePointer, IInv, TypeOK
<1>1. /\ operation' \in Operations /\ operation'.kind = "clean"
      /\ operation'.path = operation.path /\ operation.path \in Paths
      /\ operation'.generation = operation.generation
  BY <1>0, ContinueType DEF IInv
<1>2. TypeOK'
  BY <1>0, <1>1 DEF IInv, TypeOK, Continue
<1>3. FreshInv'
  BY <1>0, <1>1 DEF IInv, FreshInv
<1>4. WholeInv'
  BY <1>0 DEF IInv, WholeInv, Complete
<1>5. StageInv'
  BY <1>0, <1>1 DEF StageInv
<1> QED
  BY <1>2, <1>3, <1>4, <1>5 DEF IInv

LEMMA RemoveChunkInv == ASSUME IInv, RemoveChunk PROVE IInv'
<1>0. PICK c \in Scope : chunks' = chunks \ {c}
  BY DEF RemoveChunk
<1>1. UNCHANGED <<pointer, operation, next, generations, answer, tidy>>
  BY DEF RemoveChunk
<1>2. operation.kind \notin {"chunks", "verify", "pointer"}
  BY <1>0 DEF Scope
<1>3. TypeOK'
  BY <1>0, <1>1 DEF IInv, TypeOK
<1>4. FreshInv'
  BY <1>1 DEF IInv, FreshInv
<1>5. WholeInv'
  BY <1>0, <1>1, RemovalKeepsWhole
<1>6. StageInv'
  BY <1>1, <1>2 DEF IInv, StageInv, Manifest
<1> QED
  BY <1>3, <1>4, <1>5, <1>6 DEF IInv

\* The actions that end an operation, and the death of the process.
LEMMA EndInv ==
  ASSUME IInv, RemoveFails \/ RemovalEnds \/ RemovalFails \/ Crash
  PROVE  IInv'
<1>1. UNCHANGED <<pointer, chunks, next, generations>>
  BY DEF RemoveFails, RemovalEnds, RemovalFails, Crash
<1>2. operation' \in {NoOperation, Collecting}
  BY DEF RemoveFails, RemovalEnds, RemovalFails, Crash, Finish, NothingLeft
<1>3. answer' \in {"none", "ok", "failed"}
  BY DEF RemoveFails, RemovalEnds, RemovalFails, Crash, Finish, NothingLeft, IInv, TypeOK
<1>4. tidy' \in BOOLEAN
  BY DEF RemoveFails, RemovalEnds, RemovalFails, Crash, IInv, TypeOK
<1> QED
  BY <1>1, <1>2, <1>3, <1>4, IdleInv

LEMMA NextInv == IInv /\ [Next]_vars => IInv'
<1> SUFFICES ASSUME IInv, [Next]_vars PROVE IInv'
  OBVIOUS
<1>1. CASE UNCHANGED vars
  BY <1>1 DEF vars, IInv, TypeOK, FreshInv, WholeInv, StageInv, Complete, Manifest
<1>2. CASE Next
  BY <1>2, WriteInv, RemoveInv, AddChunkInv, VerifyInv, UpsertPointerInv, WriteFailsInv,
     RemovePointerInv, RemoveChunkInv, EndInv DEF Next
<1> QED
  BY <1>1, <1>2

THEOREM Invariance == Spec => []IInv
BY InitInv, NextInv, PTL DEF Spec

\* The types of the store's variables, for every instance: the numbers of generations and
\* chunks stay within what the texts need.
THEOREM TypeCorrect == Spec => []TypeOK
<1>1. IInv => TypeOK
  BY DEF IInv
<1> QED
  BY <1>1, Invariance, PTL

-----------------------------------------------------------------------------
(* The store implements the map.                                           *)

MapStep == Map!Next \/ UNCHANGED <<MapValue, MapCall, answer>>

\* What the map holds, as long as the pointers name complete generations.
LEMMA WholeValue ==
  ASSUME IInv
  PROVE  MapValue = [p \in Paths |-> IF pointer[p] = None THEN None ELSE pointer[p].text]
BY DEF IInv, WholeInv, MapValue, Read

LEMMA SameValue == ASSUME IInv, IInv', UNCHANGED pointer PROVE MapValue' = MapValue
<1>1. MapValue' = [p \in Paths |-> IF pointer'[p] = None THEN None ELSE pointer'[p].text]
  BY DEF IInv, WholeInv, MapValue, Read
<1> QED
  BY <1>1, WholeValue

\* The call the map sees, by the kind of the operation.
LEMMA CallOf ==
  ASSUME TypeOK
  PROVE  /\ operation.kind \in {"idle", "collect"} =>
              MapCall = [path |-> None, text |-> None, done |-> FALSE]
         /\ operation.kind \notin {"idle", "collect"} =>
              /\ MapCall = [path |-> operation.path, text |-> operation.text,
                            done |-> operation.kind \in {"sweep", "clean"}]
              /\ operation.path \in Paths /\ operation.path # None
              /\ operation.text # None <=> operation.kind \notin {"unlink", "clean"}
<1>1. CASE operation \in {NoOperation, Collecting}
  BY <1>1 DEF NoOperation, Collecting, Operation, MapCall
<1>2. CASE operation \notin {NoOperation, Collecting}
  BY <1>2, StoreAssumption DEF TypeOK, Operations, Operation, MapCall
<1> QED
  BY <1>1, <1>2

LEMMA ValueUpdate ==
  ASSUME IInv, IInv', NEW p \in Paths, NEW m, pointer' = [pointer EXCEPT ![p] = m]
  PROVE  MapValue' = [MapValue EXCEPT ![p] = IF m = None THEN None ELSE m.text]
<1> DEFINE t == IF m = None THEN None ELSE m.text
<1>1. MapValue' = [q \in Paths |-> IF pointer'[q] = None THEN None ELSE pointer'[q].text]
  BY DEF IInv, WholeInv, MapValue, Read
<1>2. \A q \in Paths : pointer'[q] = IF q = p THEN m ELSE pointer[q]
  BY DEF IInv, TypeOK
<1>3. MapValue' = [q \in Paths |-> IF q = p THEN t ELSE MapValue[q]]
  BY <1>1, <1>2, WholeValue
<1>4. DOMAIN MapValue = Paths
  BY WholeValue
<1>5. [MapValue EXCEPT ![p] = t] = [q \in Paths |-> IF q = p THEN t ELSE MapValue[q]]
  BY <1>4, Zenon
<1> QED
  BY <1>3, <1>5

\* What it takes to be the step in which the call takes effect.
LEMMA Effect ==
  ASSUME NEW p \in Paths, NEW t, p # None, MapValue' = [MapValue EXCEPT ![p] = t],
         MapCall = [path |-> p, text |-> t, done |-> FALSE],
         MapCall' = [path |-> p, text |-> t, done |-> TRUE], UNCHANGED answer
  PROVE  MapStep
<1>1. MapCall # Map!Idle /\ ~MapCall.done
  BY DEF Map!Idle
<1>2. MapValue' = [MapValue EXCEPT ![MapCall.path] = MapCall.text]
  OBVIOUS
<1>3. MapCall' = [path |-> MapCall.path, text |-> MapCall.text, done |-> TRUE]
  OBVIOUS
<1>4. Map!TakeEffect
  BY <1>1, <1>2, <1>3 DEF Map!TakeEffect
<1> QED
  BY <1>4 DEF MapStep, Map!Next

LEMMA NoCall ==
  ASSUME operation' \in {NoOperation, Collecting}
  PROVE  MapCall' = Map!Idle
BY DEF MapCall, Map!Idle

LEMMA BeginStep ==
  ASSUME IInv, IInv', NEW p \in Paths, Remove(p) \/ \E t \in Texts : Write(p, t)
  PROVE  MapStep
<1>1. PICK t \in Texts \cup {None} :
        /\ operation'.kind \in {"chunks", "unlink"}
        /\ operation'.path = p /\ operation'.text = t
  BY DEF Remove, Write, Operation
<1>2. MapCall = Map!Idle
  BY DEF Remove, Write, MapCall, Map!Idle
<1>3. operation' \notin {NoOperation, Collecting}
  BY <1>1 DEF NoOperation, Collecting, Operation
<1>4. MapCall' = [path |-> p, text |-> t, done |-> FALSE]
  <2>1. (operation'.kind \in {"sweep", "clean"}) = FALSE
    BY <1>1
  <2> QED
    BY <1>1, <1>3, <2>1 DEF MapCall
<1>5. MapValue' = MapValue
  BY SameValue DEF Remove, Write
<1>6. answer' = "none"
  BY DEF Remove, Write
<1>7. Map!Begin(p, t)
  BY <1>2, <1>4, <1>5, <1>6 DEF Map!Begin
<1> QED
  BY <1>7 DEF MapStep, Map!Next

LEMMA UpsertPointerStep == ASSUME IInv, IInv', UpsertPointer PROVE MapStep
<1>0. /\ operation.kind = "pointer" /\ Continue("sweep")
      /\ pointer' = [pointer EXCEPT ![operation.path] = Manifest]
      /\ pointer \in [Paths -> Manifests \cup {None}]
  BY DEF UpsertPointer, IInv, TypeOK
<1>1. /\ operation'.kind = "sweep"
      /\ operation'.path = operation.path /\ operation'.text = operation.text
      /\ operation.path \in Paths /\ operation.text \in Texts
      /\ operation.generation \in Generations
  BY <1>0, ContinueType DEF IInv
<1>2. Manifest \in Manifests /\ Manifest # None /\ Manifest.text = operation.text
  BY <1>1, StoreAssumption DEF Manifest, Manifests
<1>3. MapValue' = [MapValue EXCEPT ![operation.path] = operation.text]
  <2>1. MapValue' = [MapValue EXCEPT ![operation.path] =
                       IF Manifest = None THEN None ELSE Manifest.text]
    BY <1>0, <1>1, ValueUpdate, Zenon
  <2> QED
    BY <1>2, <2>1, Zenon
<1>4. MapCall = [path |-> operation.path, text |-> operation.text, done |-> FALSE]
  <2>1. (operation.kind \in {"sweep", "clean"}) = FALSE
    BY <1>0
  <2> QED
    BY <1>0, <2>1, CallOf DEF IInv
<1>5. operation' \notin {NoOperation, Collecting}
  BY <1>1 DEF NoOperation, Collecting, Operation
<1>6. MapCall' = [path |-> operation.path, text |-> operation.text, done |-> TRUE]
  BY <1>1, <1>5 DEF MapCall
<1>7. operation.path # None /\ UNCHANGED answer
  BY <1>0, CallOf DEF IInv, Continue
<1> QED
  BY <1>1, <1>3, <1>4, <1>6, <1>7, Effect

LEMMA RemovePointerStep == ASSUME IInv, IInv', RemovePointer PROVE MapStep
<1>0. /\ operation.kind = "unlink" /\ Continue("clean")
      /\ pointer' = [pointer EXCEPT ![operation.path] = None]
      /\ pointer \in [Paths -> Manifests \cup {None}]
  BY DEF RemovePointer, IInv, TypeOK
<1>1. /\ operation'.kind = "clean"
      /\ operation'.path = operation.path /\ operation'.text = operation.text
      /\ operation.path \in Paths
  BY <1>0, ContinueType DEF IInv
<1>2. operation.text = None
  BY <1>0, CallOf DEF IInv
<1>3. MapValue' = [MapValue EXCEPT ![operation.path] = None]
  BY <1>0, <1>1, ValueUpdate
<1>4. MapCall = [path |-> operation.path, text |-> None, done |-> FALSE]
  <2>1. (operation.kind \in {"sweep", "clean"}) = FALSE
    BY <1>0
  <2> QED
    BY <1>0, <1>2, <2>1, CallOf DEF IInv
<1>5. operation' \notin {NoOperation, Collecting}
  BY <1>1 DEF NoOperation, Collecting, Operation
<1>6. MapCall' = [path |-> operation.path, text |-> None, done |-> TRUE]
  BY <1>1, <1>2, <1>5 DEF MapCall
<1>7. operation.path # None /\ UNCHANGED answer
  BY <1>0, CallOf DEF IInv, Continue
<1> QED
  BY <1>1, <1>3, <1>4, <1>6, <1>7, Effect

\* Steps between the beginning and the effect, and removals of chunks, are the store's own.
LEMMA InternalStep ==
  ASSUME IInv, IInv', AddChunk \/ Verify \/ WriteFails \/ RemoveChunk
  PROVE  MapStep
<1>1. UNCHANGED <<pointer, answer>>
  BY DEF AddChunk, Verify, WriteFails, RemoveChunk, Continue
<1>2. MapValue' = MapValue
  BY <1>1, SameValue
<1>3. MapCall' = MapCall
  <2>1. CASE operation' = operation
    BY <2>1 DEF MapCall
  <2>2. CASE operation' # operation
    <3>1. PICK kind \in {"verify", "pointer", "undo"} :
            Continue(kind) /\ operation.kind \in {"chunks", "verify", "pointer"}
      BY <2>2 DEF AddChunk, Verify, WriteFails, RemoveChunk
    <3>2. /\ operation'.kind = kind
          /\ operation'.path = operation.path /\ operation'.text = operation.text
      BY <3>1, ContinueType DEF IInv
    <3>3. operation' \notin {NoOperation, Collecting}
      BY <3>2 DEF NoOperation, Collecting, Operation
    <3>4. operation \notin {NoOperation, Collecting}
      BY <3>1 DEF NoOperation, Collecting, Operation
    <3> QED
      BY <3>1, <3>2, <3>3, <3>4 DEF MapCall
  <2> QED
    BY <2>1, <2>2
<1> QED
  BY <1>1, <1>2, <1>3 DEF MapStep

LEMMA EndStep ==
  ASSUME IInv, IInv', RemoveFails \/ RemovalEnds \/ RemovalFails
  PROVE  MapStep
<1>1. MapValue' = MapValue
  BY SameValue DEF RemoveFails, RemovalEnds, RemovalFails
<1>2. MapCall' = Map!Idle
  <2>1. operation' \in {NoOperation, Collecting}
    BY DEF RemoveFails, RemovalEnds, RemovalFails, Finish, NothingLeft
  <2> QED
    BY <2>1, NoCall
<1>3. CASE operation.kind = "collect"
  <2>1. answer' = answer
    BY <1>3 DEF RemoveFails, RemovalEnds, RemovalFails
  <2>2. MapCall = Map!Idle
    BY <1>3, CallOf DEF IInv, Map!Idle
  <2> QED
    BY <1>1, <1>2, <2>1, <2>2 DEF MapStep
<1>4. CASE operation.kind # "collect"
  <2>1. operation.kind \in {"unlink", "sweep", "undo", "clean"}
    BY <1>4 DEF RemoveFails, RemovalEnds, RemovalFails, NothingLeft
  <2>2. /\ MapCall = [path |-> operation.path, text |-> operation.text,
                      done |-> operation.kind \in {"sweep", "clean"}]
        /\ operation.path # None
        /\ operation.text # None <=> operation.kind \notin {"unlink", "clean"}
    BY <2>1, CallOf DEF IInv
  <2>3. MapCall # Map!Idle
    BY <2>2 DEF Map!Idle
  <2>4. \/ answer' = "ok" /\ operation.kind \in {"sweep", "clean"}
        \/ answer' = "failed" /\ operation.kind \in {"unlink", "undo", "clean"}
    BY <1>4 DEF RemoveFails, RemovalEnds, RemovalFails, NothingLeft, Finish
  <2>5. Map!Reply
    BY <1>1, <1>2, <2>2, <2>3, <2>4 DEF Map!Reply
  <2> QED
    BY <2>5 DEF MapStep, Map!Next
<1> QED
  BY <1>3, <1>4

LEMMA CrashStep == ASSUME IInv, IInv', Crash PROVE MapStep
<1>1. MapValue' = MapValue
  BY SameValue DEF Crash
<1>2. MapCall' = Map!Idle
  BY NoCall DEF Crash
<1> QED
  BY <1>1, <1>2 DEF Crash, MapStep, Map!Next, Map!Crash

LEMMA NextMap == IInv /\ IInv' /\ [Next]_vars => MapStep
<1> SUFFICES ASSUME IInv, IInv', [Next]_vars PROVE MapStep
  OBVIOUS
<1>1. CASE UNCHANGED vars
  BY <1>1, SameValue DEF vars, MapStep, MapCall
<1>2. CASE Next
  BY <1>2, BeginStep, UpsertPointerStep, RemovePointerStep, InternalStep, EndStep, CrashStep
  DEF Next
<1> QED
  BY <1>1, <1>2

\* Whatever fails and whenever the process dies, for any paths and texts: writes and
\* removals are atomic, what was written is read back whole, and answers are true.
THEOREM MapKept == Spec => ImplementsMap
<1>1. Init => Map!Init
  BY InitInv, WholeValue
  DEF Init, Map!Init, Map!Idle, MapCall
<1>2. IInv /\ IInv' /\ [Next]_vars => [Map!Next]_<<MapValue, MapCall, answer>>
  BY NextMap DEF MapStep
<1> QED
  BY <1>1, <1>2, Invariance, PTL DEF Spec, ImplementsMap, Map!Spec

-----------------------------------------------------------------------------
(* No superseded text stays.                                               *)

\* A chunk that no pointer names, while every asset call succeeds, is one that the
\* operation in progress wrote or is about to remove.
Owned(c) ==
  \/ operation.kind = "collect"
  \/ /\ c.path = operation.path
     /\ \/ operation.kind \in {"chunks", "verify", "pointer"}
           /\ c.generation = operation.generation
        \/ operation.kind = "sweep" /\ c.generation # operation.generation
        \/ operation.kind = "clean"

TidyInv == tidy => \A c \in chunks : Active(c) \/ Owned(c)

LEMMA TidyKept == IInv /\ IInv' /\ TidyInv /\ [Next]_vars => TidyInv'
<1> SUFFICES ASSUME IInv, IInv', TidyInv, [Next]_vars, tidy', NEW c \in chunks'
             PROVE  (Active(c) \/ Owned(c))'
  BY DEF TidyInv
<1> USE DEF TidyInv
<1>1. CASE UNCHANGED vars
  BY <1>1 DEF vars, Active, Owned
<1>2. ASSUME NEW p \in Paths, Remove(p) \/ \E t \in Texts : Write(p, t)
      PROVE  (Active(c) \/ Owned(c))'
  <2>1. operation = NoOperation
    BY <1>2 DEF Remove, Write
  <2>2. UNCHANGED <<pointer, chunks, tidy>>
    BY <1>2 DEF Remove, Write
  <2>3. ~Owned(c)
    BY <2>1 DEF NoOperation, Operation, Owned
  <2> QED
    BY <2>2, <2>3 DEF Active
<1>3. CASE AddChunk
  <2>1. PICK intact \in BOOLEAN : chunks' = chunks \cup {Written(intact)}
    BY <1>3 DEF AddChunk
  <2>2. /\ operation'.kind \in {"chunks", "verify"}
        /\ operation'.path = operation.path /\ operation'.generation = operation.generation
    BY <1>3, ContinueType DEF AddChunk, IInv
  <2>3. CASE c = Written(intact)
    BY <2>2, <2>3 DEF Written, Owned
  <2>4. CASE c \in chunks
    BY <1>3, <2>2, <2>4 DEF AddChunk, Active, Owned
  <2> QED
    BY <2>1, <2>3, <2>4
<1>4. CASE Verify
  <2>1. /\ operation'.kind = "pointer"
        /\ operation'.path = operation.path /\ operation'.generation = operation.generation
    BY <1>4, ContinueType DEF Verify, IInv
  <2> QED
    BY <1>4, <2>1 DEF Verify, Active, Owned
<1>5. CASE UpsertPointer
  <2>1. /\ operation'.kind = "sweep" /\ operation.path \in Paths
        /\ operation'.path = operation.path /\ operation'.generation = operation.generation
    BY <1>5, ContinueType DEF UpsertPointer, IInv
  <2>2. pointer'[operation.path] = Manifest /\ Manifest # None
    BY <1>5, <2>1, StoreAssumption, ContinueType
    DEF UpsertPointer, IInv, TypeOK, Manifest, Manifests
  <2>3. CASE c.path = operation.path
    BY <2>1, <2>2, <2>3 DEF Active, Owned, Manifest
  <2>4. CASE c.path # operation.path
    <3>1. Active(c) /\ c.path \in Paths
      BY <1>5, <2>4 DEF UpsertPointer, Owned, IInv, TypeOK, Chunks
    <3> QED
      BY <1>5, <2>4, <3>1 DEF UpsertPointer, IInv, TypeOK, Active
  <2> QED
    BY <2>3, <2>4
<1>6. CASE RemovePointer
  <2>1. /\ operation'.kind = "clean" /\ operation.path \in Paths
        /\ operation'.path = operation.path
    BY <1>6, ContinueType DEF RemovePointer, IInv
  <2>2. CASE c.path = operation.path
    BY <2>1, <2>2 DEF Owned
  <2>3. CASE c.path # operation.path
    <3>1. Active(c) /\ c.path \in Paths
      BY <1>6, <2>3 DEF RemovePointer, Owned, IInv, TypeOK, Chunks
    <3> QED
      BY <1>6, <2>3, <3>1 DEF RemovePointer, IInv, TypeOK, Active
  <2> QED
    BY <2>2, <2>3
<1>7. CASE RemoveChunk
  BY <1>7 DEF RemoveChunk, Active, Owned
<1>8. CASE RemovalEnds
  <2>1. CASE operation.kind = "collect"
    BY <1>8, <2>1 DEF RemovalEnds, NothingLeft, Scope, Active
  <2>2. CASE operation.kind # "collect"
    <3>1. c \in chunks /\ (Active(c) \/ Owned(c)) /\ UNCHANGED pointer
      BY <1>8, <2>2 DEF RemovalEnds
    <3>2. operation.kind \in {"sweep", "undo", "clean"} /\ Scope = {}
      BY <1>8, <2>2 DEF RemovalEnds, NothingLeft
    <3>3. ~(operation.kind = "sweep" /\ c.path = operation.path
             /\ c.generation # operation.generation)
      BY <3>1, <3>2 DEF Scope
    <3>4. ~(operation.kind = "clean" /\ c.path = operation.path)
      BY <3>1, <3>2 DEF Scope
    <3>5. ~Owned(c)
      BY <3>2, <3>3, <3>4 DEF Owned
    <3> QED
      BY <3>1, <3>5 DEF Active
  <2> QED
    BY <2>1, <2>2
<1>9. CASE WriteFails \/ RemoveFails \/ RemovalFails \/ Crash
  BY <1>9 DEF WriteFails, RemoveFails, RemovalFails, Crash
<1> QED
  BY <1>1, <1>2, <1>3, <1>4, <1>5, <1>6, <1>7, <1>8, <1>9 DEF Next

\* For any paths and texts: while no asset call fails, a text that was replaced or deleted
\* is gone when its operation ends, and after a crash when the collection ends.
THEOREM StaleTextsGo == Spec => []NoStaleTexts
<1>1. Init => TidyInv
  BY DEF Init, TidyInv
<1>2. IInv /\ TidyInv => NoStaleTexts
  BY DEF TidyInv, Owned, NoStaleTexts, NoOperation, Operation
<1> QED
  BY <1>1, <1>2, TidyKept, Invariance, PTL DEF Spec
=============================================================================
