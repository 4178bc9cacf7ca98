---------------------------- MODULE DurableStore ----------------------------
(***************************************************************************)
(* DurableAssetStore: texts kept in the encrypted Asset Store of HarmonyOS *)
(* as chunks of 768 bytes, found through one pointer record a path that    *)
(* names the generation of chunks which is the current text.               *)
(*                                                                         *)
(* One asset call is one step.  Each may fail, a stored chunk may come     *)
(* back damaged (what the read-back before the pointer is for), and the    *)
(* process may die between any two.  The calls are synchronous on the UI   *)
(* thread, so one operation runs at a time; every process starts with a    *)
(* collection, and one that fails ends the process.                        *)
(***************************************************************************)
EXTENDS Naturals

CONSTANTS
  Paths, Texts,
  None,            \* no pointer, no text
  Size,            \* how many chunks each text takes
  MaxGenerations   \* bound: calls of write

\* Date.now() and a counter: no generation is used twice.
Generations == 1..MaxGenerations

\* A manifest holds the generation, its number of chunks and its hash.
Manifests == [generation : Generations, text : Texts]

ASSUME StoreAssumption ==
  /\ None \notin Texts \cup Paths \cup Manifests
  /\ Size \in [Texts -> Nat \ {0}]  \* the empty text is one empty chunk
  /\ MaxGenerations \in Nat

Indices == UNION {1..Size[t] : t \in Texts}
Chunks ==
  [path : Paths, generation : Generations, index : Indices, text : Texts, intact : BOOLEAN]

Operation(kind, p, t, g) == [kind |-> kind, path |-> p, text |-> t, generation |-> g]
NoOperation == Operation("idle", None, None, 0)
Collecting == Operation("collect", None, None, 0)
Operations ==
  {NoOperation, Collecting}
    \cup {Operation(kind, p, t, g) :
            kind \in {"chunks", "verify", "pointer", "sweep", "undo"},
            p \in Paths, t \in Texts, g \in Generations}
    \cup {Operation(kind, p, None, 0) : kind \in {"unlink", "clean"}, p \in Paths}

VARIABLES
  pointer,     \* the manifest of each path
  chunks,      \* the chunk records
  operation,   \* the operation that runs, by the asset call it makes next
  next,        \* the index of the next chunk to add
  generations, \* generations used so far
  answer,      \* what the last operation told its caller
  tidy         \* history: no asset call failed since the process started

vars == <<pointer, chunks, operation, next, generations, answer, tidy>>

TypeOK ==
  /\ pointer \in [Paths -> Manifests \cup {None}]
  /\ chunks \subseteq Chunks
  /\ operation \in Operations
  /\ next \in Nat
  /\ generations \in 0..MaxGenerations
  /\ answer \in {"none", "ok", "failed"}
  /\ tidy \in BOOLEAN

Init ==
  /\ pointer = [p \in Paths |-> None]
  /\ chunks = {}
  /\ operation = Collecting
  /\ next = 1
  /\ generations = 0
  /\ answer = "none"
  /\ tidy = TRUE

Finish(result) ==
  /\ operation' = NoOperation
  /\ answer' = result

Continue(kind) ==
  /\ operation' = [operation EXCEPT !.kind = kind]
  /\ UNCHANGED answer

-----------------------------------------------------------------------------
(* write *)

Write(p, t) ==
  /\ operation = NoOperation
  /\ generations < MaxGenerations
  /\ generations' = generations + 1
  /\ operation' = Operation("chunks", p, t, generations + 1)
  /\ next' = 1
  /\ answer' = "none"
  /\ UNCHANGED <<pointer, chunks, tidy>>

Written(intact) ==
  [path |-> operation.path, generation |-> operation.generation, index |-> next,
   text |-> operation.text, intact |-> intact]

\* Fault: one chunk too many.
AddChunkTooMany ==
  /\ operation.kind = "chunks"
  /\ \E intact \in BOOLEAN : chunks' = chunks \cup {Written(intact)}
  /\ next' = next + 1
  /\ IF next <= Size[operation.text] THEN UNCHANGED <<operation, answer>> ELSE Continue("verify")
  /\ UNCHANGED <<pointer, generations, tidy>>

AddChunk ==
  /\ operation.kind = "chunks"
  /\ \E intact \in BOOLEAN : chunks' = chunks \cup {Written(intact)}
  /\ next' = next + 1
  /\ IF next < Size[operation.text] THEN UNCHANGED <<operation, answer>> ELSE Continue("verify")
  /\ UNCHANGED <<pointer, generations, tidy>>

\* readGeneration and validate: every chunk is there and the whole has its hash.
Complete(p, manifest) ==
  \A i \in 1..Size[manifest.text] :
    [path |-> p, generation |-> manifest.generation, index |-> i, text |-> manifest.text,
     intact |-> TRUE] \in chunks

Manifest == [generation |-> operation.generation, text |-> operation.text]

\* Fault: the pointer is switched without reading the chunks back.
VerifyNothing ==
  /\ operation.kind = "verify"
  /\ Continue("pointer")
  /\ UNCHANGED <<pointer, chunks, next, generations, tidy>>

Verify ==
  /\ operation.kind = "verify"
  /\ Complete(operation.path, Manifest)
  /\ Continue("pointer")
  /\ UNCHANGED <<pointer, chunks, next, generations, tidy>>

UpsertPointer ==
  /\ operation.kind = "pointer"
  /\ pointer' = [pointer EXCEPT ![operation.path] = Manifest]
  /\ Continue("sweep")
  /\ UNCHANGED <<chunks, next, generations, tidy>>

\* Anything up to the pointer fails: the new generation is removed again.
WriteFails ==
  /\ operation.kind \in {"chunks", "verify", "pointer"}
  /\ Continue("undo")
  /\ tidy' = FALSE
  /\ UNCHANGED <<pointer, chunks, next, generations>>

-----------------------------------------------------------------------------
(* remove, and the chunk removals that end each operation.                 *)

Remove(p) ==
  /\ operation = NoOperation
  /\ operation' = Operation("unlink", p, None, 0)
  /\ answer' = "none"
  /\ UNCHANGED <<pointer, chunks, next, generations, tidy>>

RemovePointer ==
  /\ operation.kind = "unlink"
  /\ pointer' = [pointer EXCEPT ![operation.path] = None]
  /\ Continue("clean")
  /\ UNCHANGED <<chunks, next, generations, tidy>>

RemoveFails ==
  /\ operation.kind = "unlink"
  /\ Finish("failed")
  /\ tidy' = FALSE
  /\ UNCHANGED <<pointer, chunks, next, generations>>

Active(c) == pointer[c.path] # None /\ pointer[c.path].generation = c.generation

\* The chunks that the operation removes: removeOtherGenerations after a write,
\* removeGeneration after a failed one, all of the path in remove, and in
\* garbageCollect those that no pointer names.
Scope ==
  CASE operation.kind = "sweep" ->
         {c \in chunks : c.path = operation.path /\ c.generation # operation.generation}
    [] operation.kind = "undo" ->
         {c \in chunks : c.path = operation.path /\ c.generation = operation.generation}
    [] operation.kind = "clean" -> {c \in chunks : c.path = operation.path}
    [] operation.kind = "collect" -> {c \in chunks : ~Active(c)}
    [] OTHER -> {}

RemoveChunk ==
  /\ \E c \in Scope : chunks' = chunks \ {c}
  /\ UNCHANGED <<pointer, operation, next, generations, answer, tidy>>

\* Fault: the first chunk that cannot be removed ends the loop without a word.
NothingLeftOrGivenUp == operation.kind \in {"sweep", "undo", "clean", "collect"}

NothingLeft ==
  /\ operation.kind \in {"sweep", "undo", "clean", "collect"}
  /\ Scope = {}

RemovalEnds ==
  /\ NothingLeft
  /\ CASE operation.kind = "collect" -> operation' = NoOperation /\ UNCHANGED answer
       [] operation.kind = "undo" -> Finish("failed")
       [] OTHER -> Finish("ok")
  /\ tidy' = (tidy \/ operation.kind = "collect")
  /\ UNCHANGED <<pointer, chunks, next, generations>>

\* An asset call fails and some chunks stay.  A write has succeeded all the same; remove
\* fails if it cannot list them, and goes on past one that it cannot remove.
RemovalFails ==
  /\ \/ operation.kind = "sweep" /\ Finish("ok")
     \/ operation.kind = "undo" /\ Finish("failed")
     \/ operation.kind = "clean" /\ \E result \in {"ok", "failed"} : Finish(result)
  /\ tidy' = FALSE
  /\ UNCHANGED <<pointer, chunks, next, generations>>

\* The process dies, in an operation or between two, and the next one starts.
Crash ==
  /\ operation' = Collecting
  /\ answer' = "none"
  /\ tidy' = FALSE
  /\ UNCHANGED <<pointer, chunks, next, generations>>

Next ==
  \/ \E p \in Paths : Remove(p) \/ \E t \in Texts : Write(p, t)
  \/ AddChunk \/ Verify \/ UpsertPointer \/ WriteFails
  \/ RemovePointer \/ RemoveFails \/ RemoveChunk \/ RemovalEnds \/ RemovalFails
  \/ Crash

Spec == Init /\ [][Next]_vars

-----------------------------------------------------------------------------
(* Properties.                                                             *)

\* read, as the map sees it: the whole text that the pointer names, or an error that no
\* map can explain.
Read(p) ==
  IF pointer[p] = None THEN None
  ELSE IF Complete(p, pointer[p]) THEN pointer[p].text ELSE "corrupt"

MapValue == [p \in Paths |-> Read(p)]
MapCall ==
  IF operation \in {NoOperation, Collecting}
  THEN [path |-> None, text |-> None, done |-> FALSE]
  ELSE [path |-> operation.path, text |-> operation.text,
        done |-> operation.kind \in {"sweep", "clean"}]

\* Whatever fails and whenever the process dies, the store is a map whose writes and
\* removals are atomic and whose answers are true.
Map == INSTANCE DurableMap WITH value <- MapValue, call <- MapCall, answer <- answer
ImplementsMap == Map!Spec

\* Between operations no superseded or deleted text is left in the store, unless an asset
\* call failed or the collection that starts the process is not through: a private key
\* under its old passphrase does not stay behind.
NoStaleTexts ==
  operation = NoOperation /\ tidy => \A c \in chunks : Active(c)
=============================================================================
