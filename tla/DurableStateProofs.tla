----------------------- MODULE DurableStateProofs -----------------------
(***************************************************************************)
(* The durable state and the files that are its projection, for every set   *)
(* of texts, names, keys and generations, wherever the process dies.        *)
(***************************************************************************)
EXTENDS DurableState, TLAPS

Texts == (SUBSET Lines) \cup {None}
Kinds == {"text", "private", "public"}
Starting == {"start", "project", "migrate", "reconcile"}
NameSteps == {"removePrivate", "removePublic", "importPrivate", "importPublic", "importVerify",
              "importCapture", "replacePrivate", "recapture", "rollback"}
Stages == {"none", "check", "private", "public", "failed", "done"}

FilesTyped ==
  /\ texts \in [TextPaths -> Texts]
  /\ private \in [Names -> PrivateKeys \cup {None}]
  /\ public \in [Names -> Keys \cup {None}]

StoreTyped ==
  /\ store \in [texts : [TextPaths -> Texts], pairs : [Names -> Pairs \cup {None}],
                initialized : BOOLEAN]
  /\ pending \in BOOLEAN /\ fresh \in BOOLEAN

Held == Texts \cup PrivateKeys
Todos == SUBSET ((TextPaths \cup Names) \X (Kinds \cup {"pair"}))
UiRecords == [do : Starting \cup NameSteps \cup {"idle", "writeText"},
              name : TextPaths \cup Names \cup {None}, held : Held, todo : Todos]
GoodUi(u) ==
  /\ u \in UiRecords
  /\ u.do \in NameSteps => u.name \in Names
  /\ u.do = "writeText" => u.name \in TextPaths /\ u.held \in Texts
  /\ u.do \in {"importPrivate", "replacePrivate"} => u.held \in PrivateKeys
  /\ u.do \in {"recapture", "rollback"} => u.held \in PrivateKeys \cup {None}
UiTyped == GoodUi(ui)

\* What a start still has to do.
TodoTyped ==
  /\ ui.do = "project" =>
       ui.todo \subseteq (TextPaths \X {"text"}) \cup (Names \X {"private", "public"})
  /\ ui.do = "migrate" =>
       ui.todo \subseteq (TextPaths \X {"text"}) \cup ({n \in Names : Verified(n)} \X {"pair"})
  /\ ui.do = "reconcile" => ui.todo \subseteq Names \X {"private", "public"}

GeneratorsTyped ==
  /\ generators \in [Generators -> [stage : Stages, name : Names \cup {None}]]
  /\ \A g \in Generators : generators[g].name = None => generators[g].stage = "none"

HistoryTyped ==
  /\ legacy \in [texts : [TextPaths -> Texts], pairs : [Names -> Pairs \cup {None}]]
  /\ accepted \in [Names -> Keys \cup {None}]

OverlookedTyped == overlooked \subseteq (TextPaths \X {"text"}) \cup (Names \X {"pair"})

StateTypes ==
  /\ FilesTyped /\ StoreTyped /\ UiTyped /\ TodoTyped /\ GeneratorsTyped /\ HistoryTyped
  /\ OverlookedTyped

\* Nobody works on the files while a start is under way; pending is what the mark says.
NoGenerators == \A g \in Generators : generators[g] = NoGeneration
StartAlone ==
  /\ ui.do \in Starting => NoGenerators
  /\ ui.do # "start" => pending = ~store.initialized
  /\ ui.do \notin {"start", "project", "migrate"} => store.initialized
  /\ ui.do = "migrate" => ~store.initialized
  /\ fresh => ui = Idle /\ NoGenerators

\* Until the mark is set the files are those of the old version, and the store has some of them.
LegacyKept ==
  ~store.initialized =>
    /\ texts = legacy.texts
    /\ \A n \in Names :
         IF private[n] = None THEN public[n] = None /\ legacy.pairs[n] = None
         ELSE Verified(n) /\ legacy.pairs[n] = FilePair(n)
    /\ \A p \in TextPaths : store.texts[p] \in {None, legacy.texts[p]}
    /\ \A n \in Names : store.pairs[n] \in {None, legacy.pairs[n]}

\* What an error hid from this start, and the store has not.
TextOverlooked(p) == store.texts[p] = None /\ <<p, "text">> \in overlooked
PairOverlooked(n) == store.pairs[n] = None /\ <<n, "pair">> \in overlooked

MigrationGoesOn ==
  ui.do = "migrate" =>
    /\ \A p \in TextPaths : <<p, "text">> \notin ui.todo =>
         store.texts[p] = legacy.texts[p] \/ TextOverlooked(p)
    /\ \A n \in Names : <<n, "pair">> \notin ui.todo =>
         store.pairs[n] = legacy.pairs[n] \/ PairOverlooked(n)

MigrationInv == StateTypes /\ StartAlone /\ LegacyKept /\ MigrationGoesOn

\* What a start has restored so far.
Projected ==
  ui.do = "project" =>
    /\ \A p \in TextPaths : <<p, "text">> \notin ui.todo =>
         texts[p] = store.texts[p] \/ ~store.initialized \/ TextOverlooked(p)
    /\ \A n \in Names : store.pairs[n] # None =>
         /\ <<n, "private">> \notin ui.todo => private[n] = store.pairs[n].private
         /\ <<n, "public">> \notin ui.todo => public[n] = store.pairs[n].public

Reconciling ==
  ui.do = "reconcile" =>
    /\ \A p \in TextPaths : texts[p] = store.texts[p] \/ TextOverlooked(p)
    /\ \A n \in Names :
         IF store.pairs[n] = None
         THEN Verified(n) => \/ {<<n, "private">>, <<n, "public">>} \subseteq ui.todo
                             \/ PairOverlooked(n)
         ELSE FilePair(n) = store.pairs[n]

RestoreInv == Projected /\ Reconciling /\ StartRestoresState

\* Of a name with one generation at most: who may find which files.
WorksOn(g, n) == generators[g].name = n
OneGeneration(n) == \A g, h \in Generators : WorksOn(g, n) /\ WorksOn(h, n) => g = h
Agree(n) == private[n] # None /\ public[n] # None => private[n].key = public[n]
Import1 == {"importPrivate", "importPublic"}
Holding == {"importVerify", "importCapture", "replacePrivate", "recapture", "rollback"}

\* From its check on a command has a public key, and the private key that belongs to it or none
\* that could still appear.
HoldsPair(n) ==
  ui.name = n /\ ui.do \in Holding =>
    /\ public[n] # None
    /\ Agree(n)
    /\ private[n] = None =>
         \A g \in Generators : WorksOn(g, n) => generators[g].stage \notin {"check", "private"}
    /\ ui.do = "replacePrivate" => ui.held.key = public[n]

Overwrites(n) == ui.name = n /\ ui.do \in Import1 \cup {"removePrivate"}

GeneratesPair(n) ==
  \A g \in Generators : WorksOn(g, n) =>
    /\ generators[g].stage = "public" /\ private[n] # None /\ ~Overwrites(n)
         /\ (public[n] = None \/ (ui.name = n /\ ui.do = "removePublic"))
         => private[n].key = g
    /\ generators[g].stage = "done" /\ ~Overwrites(n) /\ ~(ui.name = n /\ ui.do = "removePublic")
         => Agree(n)

StoredMatch(n) == store.pairs[n] # None => store.pairs[n].private.key = store.pairs[n].public

PairsInv ==
  \A n \in Names \ raced :
    OneGeneration(n) /\ HoldsPair(n) /\ GeneratesPair(n) /\ StoredMatch(n)

\* An accepted key has its files, its durable pair, and nobody who writes over it.
CapturesVerified ==
  ui.do = "importCapture" /\ (\A g \in Generators : ~WorksOn(g, ui.name)) => Verified(ui.name)

AcceptedFiles(n) ==
  /\ private[n] # None /\ private[n].key = accepted[n] /\ public[n] = accepted[n]
  /\ store.pairs[n] # None /\ store.pairs[n].private.key = accepted[n]
  /\ store.pairs[n].public = accepted[n]

AcceptedAlone(n) ==
  /\ \A g \in Generators : ~WorksOn(g, n)
  /\ ui.name = n /\ ui.do \in NameSteps => ui.do \in {"replacePrivate", "recapture", "rollback"}
  /\ ui.name = n /\ ui.do = "replacePrivate" => ui.held.key = accepted[n]

AcceptedInv ==
  /\ CapturesVerified
  /\ \A n \in Names : accepted[n] # None => AcceptedFiles(n) /\ AcceptedAlone(n)


LEMMA TextFacts ==
  /\ None \in Texts /\ None \in Held
  /\ \A text \in SUBSET Lines : text \in Texts
  /\ \A text \in Texts : text \in Held
  /\ \A key \in PrivateKeys : key \in Held
BY DEF Texts, Held

LEMMA KnownLine ==
  ASSUME StateTypes, NEW path \in TextPaths, NEW line \in Lines, CommitKnownHostLine(path, line)
  PROVE  \E text \in SUBSET Lines : Commit(path, text)
<1> DEFINE text == (IF store.texts[path] = None THEN {} ELSE store.texts[path]) \cup {line}
<1>1. store.texts[path] \in Texts
  BY DEF StateTypes, StoreTyped
<1>2. store.texts[path] = None \/ store.texts[path] \in SUBSET Lines
  BY <1>1 DEF Texts
<1>3. CASE store.texts[path] = None
  <2>1. text \in SUBSET Lines
    BY <1>3
  <2> QED
    BY <2>1 DEF CommitKnownHostLine
<1>4. CASE store.texts[path] # None
  <2>1. text \in SUBSET Lines
    BY <1>2, <1>4
  <2> QED
    BY <2>1 DEF CommitKnownHostLine
<1> QED
  BY <1>3, <1>4

LEMMA UiFacts ==
  /\ Idle.do = "idle" /\ Idle.name = None /\ Idle.held = None /\ Idle.todo = {} /\ GoodUi(Idle)
  /\ Down.do = "start" /\ Down.name = None /\ Down.held = None /\ Down.todo = {} /\ GoodUi(Down)
<1>1. /\ Idle = [do |-> "idle", name |-> None, held |-> None, todo |-> {}]
      /\ Down = [do |-> "start", name |-> None, held |-> None, todo |-> {}]
  BY DEF Idle, Down
<1>2. {} \in Todos
  BY DEF Todos
<1>3. Idle \in UiRecords /\ Down \in UiRecords
  BY <1>1, <1>2, TextFacts DEF UiRecords, Starting
<1> QED
  BY <1>1, <1>3 DEF GoodUi, NameSteps

LEMMA DoFacts ==
  ASSUME NEW step, NEW name, NEW held
  PROVE  LET u == Do(step, name, held) IN
         /\ u.do = step /\ u.name = name /\ u.held = held /\ u.todo = {}
         /\ u = Idle => step = "idle"
BY DEF Do, Idle, Down

LEMMA DoName ==
  ASSUME NEW step \in NameSteps, NEW name \in Names, NEW held \in Held,
         step \in {"importPrivate", "replacePrivate"} => held \in PrivateKeys,
         step \in {"recapture", "rollback"} => held \in PrivateKeys \cup {None}
  PROVE  GoodUi(Do(step, name, held))
<1>1. PICK u : u = Do(step, name, held)
  OBVIOUS
<1>2. {} \in Todos
  BY DEF Todos
<1>3. u \in UiRecords
  BY <1>1, <1>2 DEF UiRecords, Do
<1>4. u.do = step /\ u.name = name /\ u.held = held
  BY <1>1, DoFacts
<1>5. GoodUi(u)
  BY <1>3, <1>4 DEF GoodUi, NameSteps
<1> QED
  BY <1>1, <1>5

LEMMA DoText ==
  ASSUME NEW path \in TextPaths, NEW text \in Texts
  PROVE  GoodUi(Do("writeText", path, text))
<1>1. PICK u : u = Do("writeText", path, text)
  OBVIOUS
<1>2. {} \in Todos
  BY DEF Todos
<1>3. u \in UiRecords
  BY <1>1, <1>2, TextFacts DEF UiRecords, Do
<1>4. u.do = "writeText" /\ u.name = path /\ u.held = text
  BY <1>1, DoFacts
<1>5. GoodUi(u)
  BY <1>3, <1>4 DEF GoodUi, NameSteps
<1> QED
  BY <1>1, <1>5

\* One thing less is to do.
LEMMA TodoShrinks ==
  ASSUME NEW u, GoodUi(u), NEW item, NEW v, v = [u EXCEPT !.todo = @ \ {item}]
  PROVE  /\ GoodUi(v) /\ v.do = u.do /\ v.name = u.name /\ v.held = u.held
         /\ v.todo = u.todo \ {item}
<1>1. u \in UiRecords
  BY DEF GoodUi
<1>2. u.todo \ {item} \in Todos
  BY <1>1 DEF UiRecords, Todos
<1>3. v \in UiRecords /\ v.do = u.do /\ v.name = u.name /\ v.held = u.held /\ v.todo = u.todo \ {item}
  BY <1>1, <1>2 DEF UiRecords
<1> QED
  BY <1>3 DEF GoodUi

\* A command goes on about the same name.
LEMMA NameGoesOn ==
  ASSUME NEW u, GoodUi(u), u.do \in NameSteps,
         NEW step \in NameSteps \ {"importPrivate", "replacePrivate", "recapture"}, NEW v,
         v = [u EXCEPT !.do = step],
         step = "rollback" => u.do \in {"recapture", "rollback"}
  PROVE  GoodUi(v) /\ v.do = step /\ v.name = u.name /\ v.held = u.held /\ v.todo = u.todo
<1>1. u \in UiRecords
  BY DEF GoodUi
<1>2. v \in UiRecords /\ v.do = step /\ v.name = u.name /\ v.held = u.held /\ v.todo = u.todo
  BY <1>1 DEF UiRecords
<1> QED
  BY <1>2 DEF GoodUi, NameSteps

\* The kinds of what is to do.
LEMMA Items ==
  ASSUME StateTypes, NEW item \in ui.todo
  PROVE  /\ ui.do = "project" =>
              \/ item[1] \in TextPaths /\ item[2] = "text" /\ item = <<item[1], "text">>
              \/ item[1] \in Names /\ item[2] = "private" /\ item = <<item[1], "private">>
              \/ item[1] \in Names /\ item[2] = "public" /\ item = <<item[1], "public">>
         /\ ui.do = "migrate" =>
              \/ item[1] \in TextPaths /\ item[2] = "text" /\ item = <<item[1], "text">>
              \/ item[1] \in Names /\ Verified(item[1]) /\ item[2] = "pair" /\ item = <<item[1], "pair">>
         /\ ui.do = "reconcile" =>
              \/ item[1] \in Names /\ item[2] = "private" /\ item = <<item[1], "private">>
              \/ item[1] \in Names /\ item[2] = "public" /\ item = <<item[1], "public">>
<1>1. CASE ui.do = "project"
  BY <1>1 DEF StateTypes, TodoTyped
<1>2. CASE ui.do = "migrate"
  BY <1>2 DEF StateTypes, TodoTyped
<1>3. CASE ui.do = "reconcile"
  BY <1>3 DEF StateTypes, TodoTyped
<1> QED
  BY <1>1, <1>2, <1>3

\* What captureKeyPair stores is a pair.
LEMMA CapturedPair ==
  ASSUME StateTypes, NEW n \in Names, private[n] # None, public[n] # None
  PROVE  FilePair(n) \in Pairs /\ FilePair(n) # None
         /\ FilePair(n).private = private[n] /\ FilePair(n).public = public[n]
<1>1. private[n] \in PrivateKeys /\ public[n] \in Keys
  BY DEF StateTypes, FilesTyped
<1>2. FilePair(n) \in Pairs
  BY <1>1 DEF FilePair, Pairs
<1> QED
  BY <1>2, StateAssumption DEF FilePair

\* The store is changed at one place.
LEMMA TextStored ==
  ASSUME StoreTyped, NEW p \in TextPaths, NEW text \in Texts,
         store' = [store EXCEPT !.texts[p] = text], UNCHANGED <<pending>>, fresh' \in BOOLEAN
  PROVE  StoreTyped'
BY DEF StoreTyped

LEMMA PairStored ==
  ASSUME StoreTyped, NEW n \in Names, NEW pair \in Pairs \cup {None},
         store' = [store EXCEPT !.pairs[n] = pair], UNCHANGED <<pending>>, fresh' \in BOOLEAN
  PROVE  StoreTyped'
BY DEF StoreTyped

LEMMA FilesStep ==
  ASSUME StateTypes, [StateNext]_stateVars
  PROVE  FilesTyped'
<1>1. CASE Die
  BY <1>1, StateAssumption
     DEF Die, files, history, StateTypes, FilesTyped, StoreTyped, UiTyped, GoodUi, NameSteps,
          PrivateKeys
<1>2. CASE Initialize
  BY <1>2, StateAssumption
     DEF Initialize, files, history, StateTypes, FilesTyped, StoreTyped, UiTyped, GoodUi, NameSteps,
          PrivateKeys
<1>3. CASE ListKeys
  BY <1>3, StateAssumption
     DEF ListKeys, files, history, StateTypes, FilesTyped, StoreTyped, UiTyped, GoodUi, NameSteps,
          PrivateKeys
<1>4. CASE FinishLegacyMigration
  BY <1>4, StateAssumption
     DEF FinishLegacyMigration, files, history, StateTypes, FilesTyped, StoreTyped, UiTyped, GoodUi,
          NameSteps, PrivateKeys
<1>5. CASE StartIsOver
  BY <1>5, StateAssumption
     DEF StartIsOver, files, history, StateTypes, FilesTyped, StoreTyped, UiTyped, GoodUi,
          NameSteps, PrivateKeys
<1>6. ASSUME NEW item \in ui.todo, RestoreSshProjection(item) PROVE FilesTyped'
  <2>0. ui.do = "project"
    BY <1>6 DEF RestoreSshProjection
  <2>1. CASE item[2] = "text"
    BY <1>6, <2>0, <2>1, Items DEF StateTypes, FilesTyped, StoreTyped, RestoreSshProjection
  <2>2. CASE item[2] = "private"
    BY <1>6, <2>0, <2>2, Items DEF StateTypes, FilesTyped, StoreTyped, RestoreSshProjection, Pairs
  <2>3. CASE item[2] = "public"
    BY <1>6, <2>0, <2>3, Items DEF StateTypes, FilesTyped, StoreTyped, RestoreSshProjection, Pairs
  <2> QED
    BY <2>0, <2>1, <2>2, <2>3, Items
<1>7. ASSUME NEW item \in ui.todo, Migrate(item) PROVE FilesTyped'
  BY <1>7, StateAssumption
     DEF Migrate, files, history, StateTypes, FilesTyped, StoreTyped, UiTyped, GoodUi, NameSteps,
          PrivateKeys
<1>8. ASSUME NEW item \in ui.todo, ReconcileVerifiedKeys(item) PROVE FilesTyped'
  BY <1>8, StateAssumption
     DEF ReconcileVerifiedKeys, files, history, StateTypes, FilesTyped, StoreTyped, UiTyped, GoodUi,
          NameSteps, PrivateKeys
<1>9. ASSUME NEW path \in TextPaths, NEW text \in SUBSET Lines, Commit(path, text)
      PROVE  FilesTyped'
  BY <1>9, StateAssumption
     DEF Commit, files, history, StateTypes, FilesTyped, StoreTyped, UiTyped, GoodUi, NameSteps,
          PrivateKeys
<1>10. CASE WriteTextFile
  BY <1>10, StateAssumption
     DEF WriteTextFile, files, history, StateTypes, FilesTyped, StoreTyped, UiTyped, GoodUi,
          NameSteps, PrivateKeys
<1>11. CASE RemoveFiles
  BY <1>11, StateAssumption
     DEF RemoveFiles, files, history, StateTypes, FilesTyped, StoreTyped, UiTyped, GoodUi,
          NameSteps, PrivateKeys
<1>12. ASSUME NEW name \in Names, NEW source \in Sources, NEW passphrase \in Passphrases, Import(name, source, passphrase)
       PROVE  FilesTyped'
  BY <1>12, StateAssumption
     DEF Import, files, history, StateTypes, FilesTyped, StoreTyped, UiTyped, GoodUi, NameSteps,
          PrivateKeys
<1>13. CASE ImportPrivate
  BY <1>13, StateAssumption
     DEF ImportPrivate, files, history, StateTypes, FilesTyped, StoreTyped, UiTyped, GoodUi,
          NameSteps, PrivateKeys
<1>14. CASE ImportPublic
  BY <1>14, StateAssumption
     DEF ImportPublic, files, history, StateTypes, FilesTyped, StoreTyped, UiTyped, GoodUi,
          NameSteps, PrivateKeys
<1>15. CASE ImportVerify
  BY <1>15, StateAssumption
     DEF ImportVerify, files, history, StateTypes, FilesTyped, StoreTyped, UiTyped, GoodUi,
          NameSteps, PrivateKeys
<1>16. CASE ImportCapture
  BY <1>16, StateAssumption
     DEF ImportCapture, Capture, files, history, StateTypes, FilesTyped, StoreTyped, UiTyped,
          GoodUi, NameSteps, PrivateKeys
<1>17. ASSUME NEW g \in Generators, NEW name \in Names, Generate(g, name) PROVE FilesTyped'
  BY <1>17, StateAssumption
     DEF Generate, files, history, StateTypes, FilesTyped, StoreTyped, UiTyped, GoodUi, NameSteps,
          PrivateKeys
<1>18. ASSUME NEW g \in Generators, NativeCheck(g) PROVE FilesTyped'
  BY <1>18, StateAssumption
     DEF NativeCheck, Become, files, history, StateTypes, FilesTyped, StoreTyped, UiTyped, GoodUi,
          NameSteps, PrivateKeys
<1>19. ASSUME NEW g \in Generators, NativePrivate(g) PROVE FilesTyped'
  <2>1. PICK name : name = generators[g].name
    OBVIOUS
  <2>2. name \in Names
    BY <1>19, <2>1 DEF NativePrivate, StateTypes, GeneratorsTyped
  <2>3. \A passphrase \in Passphrases : [key |-> g, passphrase |-> passphrase] \in PrivateKeys
    BY DEF PrivateKeys, Keys
  <2> QED
    BY <1>19, <2>1, <2>2, <2>3 DEF NativePrivate, StateTypes, FilesTyped
<1>20. ASSUME NEW g \in Generators, NativePublic(g) PROVE FilesTyped'
  <2>1. PICK name : name = generators[g].name
    OBVIOUS
  <2>2. name \in Names /\ g \in Keys
    BY <1>20, <2>1 DEF NativePublic, StateTypes, GeneratorsTyped, Keys
  <2> QED
    BY <1>20, <2>1, <2>2 DEF NativePublic, StateTypes, FilesTyped
<1>21. ASSUME NEW g \in Generators, Generated(g) PROVE FilesTyped'
  BY <1>21, StateAssumption
     DEF Generated, Capture, files, history, StateTypes, FilesTyped, StoreTyped, UiTyped, GoodUi,
          NameSteps, PrivateKeys
<1>22. ASSUME NEW name \in Names, Delete(name) PROVE FilesTyped'
  BY <1>22, StateAssumption
     DEF Delete, files, history, StateTypes, FilesTyped, StoreTyped, UiTyped, GoodUi, NameSteps,
          PrivateKeys
<1>23. ASSUME NEW name \in Names, NEW passphrase \in Passphrases, ReadForPassphrase(name, passphrase)
       PROVE  FilesTyped'
  BY <1>23, StateAssumption
     DEF ReadForPassphrase, files, history, StateTypes, FilesTyped, StoreTyped, UiTyped, GoodUi,
          NameSteps, PrivateKeys
<1>24. CASE ReplacePrivate
  BY <1>24, StateAssumption
     DEF ReplacePrivate, files, history, StateTypes, FilesTyped, StoreTyped, UiTyped, GoodUi,
          NameSteps, PrivateKeys
<1>25. CASE Recapture
  BY <1>25, StateAssumption
     DEF Recapture, Capture, files, history, StateTypes, FilesTyped, StoreTyped, UiTyped, GoodUi,
          NameSteps, PrivateKeys
<1>26. CASE Rollback
  BY <1>26, StateAssumption
     DEF Rollback, files, history, StateTypes, FilesTyped, StoreTyped, UiTyped, GoodUi, NameSteps,
          PrivateKeys
<1>27. CASE UNCHANGED stateVars
  BY <1>27, StateAssumption
     DEF stateVars, files, history, StateTypes, FilesTyped, StoreTyped, UiTyped, GoodUi, NameSteps,
          PrivateKeys
<1>28. ASSUME NEW path \in TextPaths, NEW line \in Lines, CommitKnownHostLine(path, line)
       PROVE  FilesTyped'
  <2>1. PICK text \in SUBSET Lines : Commit(path, text)
    BY <1>28, KnownLine DEF MigrationInv
  <2> QED
    BY <2>1, <1>9
<1> QED
  BY <1>1, <1>2, <1>3, <1>4, <1>5, <1>6, <1>7, <1>8, <1>9, <1>10, <1>11, <1>12, <1>13, <1>14, <1>15,
       <1>16, <1>17, <1>18, <1>19, <1>20, <1>21, <1>22, <1>23, <1>24, <1>25, <1>26, <1>27, <1>28
     DEF StateNext

LEMMA StoreStep ==
  ASSUME StateTypes, [StateNext]_stateVars
  PROVE  StoreTyped'
<1>1. CASE Die
  BY <1>1 DEF Die, files, history, StateTypes, StoreTyped
<1>2. CASE Initialize
  BY <1>2 DEF Initialize, files, history, StateTypes, StoreTyped
<1>3. CASE ListKeys
  BY <1>3 DEF ListKeys, files, history, StateTypes, StoreTyped
<1>4. CASE FinishLegacyMigration
  BY <1>4 DEF FinishLegacyMigration, files, history, StateTypes, StoreTyped
<1>5. CASE StartIsOver
  BY <1>5 DEF StartIsOver, files, history, StateTypes, StoreTyped
<1>6. ASSUME NEW item \in ui.todo, RestoreSshProjection(item) PROVE StoreTyped'
  BY <1>6 DEF RestoreSshProjection, files, history, StateTypes, StoreTyped
<1>7. ASSUME NEW item \in ui.todo, Migrate(item) PROVE StoreTyped'
  <2>0. ui.do = "migrate" /\ UNCHANGED <<pending, fresh>>
    BY <1>7 DEF Migrate
  <2>1. CASE item[2] = "text" /\ texts[item[1]] # None
    <3>1. item[1] \in TextPaths /\ texts[item[1]] \in Texts
      BY <2>0, <2>1, Items DEF StateTypes, FilesTyped
    <3> QED
      BY <1>7, <2>0, <2>1, <3>1, TextStored DEF Migrate, StateTypes, StoreTyped
  <2>2. CASE item[2] = "text" /\ texts[item[1]] = None
    BY <1>7, <2>2 DEF Migrate, StateTypes, StoreTyped
  <2>3. CASE item[2] = "pair"
    <3>1. item[1] \in Names /\ private[item[1]] # None /\ public[item[1]] # None
      BY <2>0, <2>3, Items DEF Verified
    <3>2. FilePair(item[1]) \in Pairs
      BY <3>1, CapturedPair
    <3> QED
      BY <1>7, <2>0, <2>3, <3>1, <3>2, PairStored DEF Migrate, StateTypes, StoreTyped
  <2> QED
    BY <2>0, <2>1, <2>2, <2>3, Items
<1>8. ASSUME NEW item \in ui.todo, ReconcileVerifiedKeys(item) PROVE StoreTyped'
  BY <1>8 DEF ReconcileVerifiedKeys, files, history, StateTypes, StoreTyped
<1>9. ASSUME NEW path \in TextPaths, NEW text \in SUBSET Lines, Commit(path, text)
      PROVE  StoreTyped'
  <2>1. fresh' \in BOOLEAN /\ UNCHANGED <<pending>>
    BY <1>9 DEF Commit
  <2> QED
    BY <1>9, <2>1, TextFacts, TextStored DEF Commit, StateTypes, StoreTyped
<1>10. CASE WriteTextFile
  BY <1>10 DEF WriteTextFile, files, history, StateTypes, StoreTyped
<1>11. CASE RemoveFiles
  BY <1>11 DEF RemoveFiles, files, history, StateTypes, StoreTyped
<1>12. ASSUME NEW name \in Names, NEW source \in Sources, NEW passphrase \in Passphrases, Import(name, source, passphrase)
       PROVE  StoreTyped'
  BY <1>12 DEF Import, files, history, StateTypes, StoreTyped
<1>13. CASE ImportPrivate
  BY <1>13 DEF ImportPrivate, files, history, StateTypes, StoreTyped
<1>14. CASE ImportPublic
  BY <1>14 DEF ImportPublic, files, history, StateTypes, StoreTyped
<1>15. CASE ImportVerify
  BY <1>15 DEF ImportVerify, files, history, StateTypes, StoreTyped
<1>16. CASE ImportCapture
  <2>1. CASE UNCHANGED store
    BY <1>16, <2>1 DEF StateTypes, StoreTyped, ImportCapture
  <2>2. CASE store' # store
    <3>1. PICK n \in Names : /\ private[n] # None /\ public[n] # None
                             /\ store' = [store EXCEPT !.pairs[n] = FilePair(n)]
      BY <1>16, <2>2 DEF ImportCapture, Capture, StateTypes, UiTyped, GoodUi, NameSteps
    <3>2. UNCHANGED <<pending, fresh>>
      BY <1>16 DEF ImportCapture
    <3> QED
      BY <3>1, <3>2, CapturedPair, PairStored DEF StateTypes, StoreTyped
  <2> QED
    BY <2>1, <2>2
<1>17. ASSUME NEW g \in Generators, NEW name \in Names, Generate(g, name) PROVE StoreTyped'
  BY <1>17 DEF Generate, files, history, StateTypes, StoreTyped
<1>18. ASSUME NEW g \in Generators, NativeCheck(g) PROVE StoreTyped'
  BY <1>18 DEF NativeCheck, Become, files, history, StateTypes, StoreTyped
<1>19. ASSUME NEW g \in Generators, NativePrivate(g) PROVE StoreTyped'
  BY <1>19 DEF NativePrivate, Become, files, history, StateTypes, StoreTyped
<1>20. ASSUME NEW g \in Generators, NativePublic(g) PROVE StoreTyped'
  BY <1>20 DEF NativePublic, Become, files, history, StateTypes, StoreTyped
<1>21. ASSUME NEW g \in Generators, Generated(g) PROVE StoreTyped'
  <2>1. CASE UNCHANGED store
    BY <1>21, <2>1 DEF StateTypes, StoreTyped, Generated
  <2>2. CASE store' # store
    <3>1. PICK n \in Names : /\ private[n] # None /\ public[n] # None
                             /\ store' = [store EXCEPT !.pairs[n] = FilePair(n)]
      BY <1>21, <2>2 DEF Generated, Capture, StateTypes, GeneratorsTyped
    <3>2. UNCHANGED <<pending, fresh>>
      BY <1>21 DEF Generated
    <3> QED
      BY <3>1, <3>2, CapturedPair, PairStored DEF StateTypes, StoreTyped
  <2> QED
    BY <2>1, <2>2
<1>22. ASSUME NEW name \in Names, Delete(name) PROVE StoreTyped'
  <2>1. fresh' \in BOOLEAN /\ UNCHANGED <<pending>>
    BY <1>22 DEF Delete
  <2>2. None \in Pairs \cup {None}
    OBVIOUS
  <2> QED
    BY <1>22, <2>1, <2>2, PairStored DEF Delete, StateTypes, StoreTyped
<1>23. ASSUME NEW name \in Names, NEW passphrase \in Passphrases, ReadForPassphrase(name, passphrase)
       PROVE  StoreTyped'
  BY <1>23 DEF ReadForPassphrase, files, history, StateTypes, StoreTyped
<1>24. CASE ReplacePrivate
  BY <1>24 DEF ReplacePrivate, files, history, StateTypes, StoreTyped
<1>25. CASE Recapture
  <2>1. CASE UNCHANGED store
    BY <1>25, <2>1 DEF StateTypes, StoreTyped, Recapture
  <2>2. CASE store' # store
    <3>1. PICK n \in Names : /\ private[n] # None /\ public[n] # None
                             /\ store' = [store EXCEPT !.pairs[n] = FilePair(n)]
      BY <1>25, <2>2 DEF Recapture, Capture, StateTypes, UiTyped, GoodUi, NameSteps
    <3>2. UNCHANGED <<pending, fresh>>
      BY <1>25 DEF Recapture
    <3> QED
      BY <3>1, <3>2, CapturedPair, PairStored DEF StateTypes, StoreTyped
  <2> QED
    BY <2>1, <2>2
<1>26. CASE Rollback
  BY <1>26 DEF Rollback, files, history, StateTypes, StoreTyped
<1>27. CASE UNCHANGED stateVars
  BY <1>27 DEF stateVars, files, history, StateTypes, StoreTyped
<1>28. ASSUME NEW path \in TextPaths, NEW line \in Lines, CommitKnownHostLine(path, line)
       PROVE  StoreTyped'
  <2>1. PICK text \in SUBSET Lines : Commit(path, text)
    BY <1>28, KnownLine DEF MigrationInv
  <2> QED
    BY <2>1, <1>9
<1> QED
  BY <1>1, <1>2, <1>3, <1>4, <1>5, <1>6, <1>7, <1>8, <1>9, <1>10, <1>11, <1>12, <1>13, <1>14, <1>15,
       <1>16, <1>17, <1>18, <1>19, <1>20, <1>21, <1>22, <1>23, <1>24, <1>25, <1>26, <1>27, <1>28
     DEF StateNext

LEMMA UiStep ==
  ASSUME StateTypes, [StateNext]_stateVars
  PROVE  UiTyped'
<1>1. CASE Die
  BY <1>1, UiFacts DEF Die, files, history, StateTypes, UiTyped
<1>2. CASE Initialize
  <2>1. (TextPaths \X {"text"}) \cup (Names \X {"private", "public"}) \in Todos
    BY DEF Todos, Kinds
  <2>2. "project" \in Starting
    BY DEF Starting
  <2> QED
    <3>1. PICK todo \in Todos : ui' = [ui EXCEPT !.do = "project", !.todo = todo]
      BY <1>2, <2>1 DEF Initialize
    <3>2. ui \in UiRecords
      BY DEF StateTypes, UiTyped, GoodUi
    <3>3. ui' \in UiRecords /\ ui'.do = "project"
      BY <2>2, <3>1, <3>2 DEF UiRecords
    <3> QED
      BY <3>3 DEF UiTyped, GoodUi, NameSteps
<1>3. CASE ListKeys
  <2>1. ASSUME NEW listed \in SUBSET Names
        PROVE  /\ (TextPaths \X {"text"}) \cup (listed \X {"pair"}) \in Todos
               /\ listed \X {"private", "public"} \in Todos
    BY DEF Todos, Kinds
  <2>2. {"migrate", "reconcile"} \subseteq Starting
    BY DEF Starting
  <2> QED
    <3>1. PICK todo \in Todos, step \in Starting :
            ui' = [ui EXCEPT !.do = step, !.todo = todo]
      <4>1. PICK listed \in SUBSET VerifiedNames :
              ui' = IF pending
                    THEN [ui EXCEPT !.do = "migrate",
                                    !.todo = (TextPaths \X {"text"}) \cup (listed \X {"pair"})]
                    ELSE [ui EXCEPT !.do = "reconcile", !.todo = listed \X {"private", "public"}]
        BY <1>3 DEF ListKeys
      <4>2. listed \in SUBSET Names
        BY DEF VerifiedNames
      <4> QED
        BY <2>1, <2>2, <4>1, <4>2
    <3>2. GoodUi(ui)
      BY DEF StateTypes, UiTyped
    <3>3. PICK u, v : u = ui /\ v = ui'
      OBVIOUS
    <3>4. GoodUi(u) /\ v = [u EXCEPT !.do = step, !.todo = todo]
      BY <3>1, <3>2, <3>3
    <3>5. u \in UiRecords
      BY <3>4 DEF GoodUi
    <3>6. v \in UiRecords /\ v.do = step
      BY <3>4, <3>5 DEF UiRecords
    <3>7. GoodUi(v)
      BY <3>6 DEF GoodUi, NameSteps, Starting
    <3> QED
      BY <3>3, <3>7 DEF UiTyped
<1>4. CASE FinishLegacyMigration
  BY <1>4, UiFacts DEF FinishLegacyMigration, files, history, StateTypes, UiTyped
<1>5. CASE StartIsOver
  BY <1>5, UiFacts DEF StartIsOver, files, history, StateTypes, UiTyped
<1>6. ASSUME NEW item \in ui.todo, RestoreSshProjection(item) PROVE UiTyped'
  BY <1>6, TodoShrinks DEF RestoreSshProjection, StateTypes, UiTyped
<1>7. ASSUME NEW item \in ui.todo, Migrate(item) PROVE UiTyped'
  BY <1>7, TodoShrinks DEF Migrate, StateTypes, UiTyped
<1>8. ASSUME NEW item \in ui.todo, ReconcileVerifiedKeys(item) PROVE UiTyped'
  BY <1>8, TodoShrinks DEF ReconcileVerifiedKeys, StateTypes, UiTyped
<1>9. ASSUME NEW path \in TextPaths, NEW text \in SUBSET Lines, Commit(path, text) PROVE UiTyped'
  BY <1>9, TextFacts, DoText DEF Commit, StateTypes, UiTyped
<1>10. CASE WriteTextFile
  BY <1>10, UiFacts DEF WriteTextFile, files, history, StateTypes, UiTyped
<1>11. CASE RemoveFiles
  <2>1. ui.name \in Names /\ ui.do \in NameSteps
    BY <1>11 DEF RemoveFiles, StateTypes, UiTyped, GoodUi, NameSteps
  <2> QED
    BY <1>11, <2>1, UiFacts, TextFacts, DoName, NameGoesOn DEF RemoveFiles, StateTypes, UiTyped, NameSteps
<1>12. ASSUME NEW name \in Names, NEW source \in Sources, NEW passphrase \in Passphrases, Import(name, source, passphrase)
       PROVE  UiTyped'
  <2>1. [key |-> source, passphrase |-> passphrase] \in PrivateKeys
    BY DEF PrivateKeys, Keys
  <2> QED
    BY <1>12, <2>1, TextFacts, DoName DEF Import, UiTyped, NameSteps
<1>13. CASE ImportPrivate
  <2>1. ui.name \in Names /\ ui.do \in NameSteps
    BY <1>13 DEF ImportPrivate, StateTypes, UiTyped, GoodUi, NameSteps
  <2> QED
    BY <1>13, <2>1, UiFacts, TextFacts, DoName, NameGoesOn DEF ImportPrivate, StateTypes, UiTyped, NameSteps
<1>14. CASE ImportPublic
  <2>1. ui.name \in Names /\ ui.do \in NameSteps
    BY <1>14 DEF ImportPublic, StateTypes, UiTyped, GoodUi, NameSteps
  <2> QED
    BY <1>14, <2>1, UiFacts, TextFacts, DoName, NameGoesOn DEF ImportPublic, StateTypes, UiTyped, NameSteps, GiveUp
<1>15. CASE ImportVerify
  <2>1. ui.name \in Names /\ ui.do \in NameSteps
    BY <1>15 DEF ImportVerify, StateTypes, UiTyped, GoodUi, NameSteps
  <2> QED
    BY <1>15, <2>1, UiFacts, TextFacts, DoName, NameGoesOn DEF ImportVerify, StateTypes, UiTyped, NameSteps, GiveUp
<1>16. CASE ImportCapture
  <2>1. ui.name \in Names /\ ui.do \in NameSteps
    BY <1>16 DEF ImportCapture, StateTypes, UiTyped, GoodUi, NameSteps
  <2> QED
    BY <1>16, <2>1, UiFacts, TextFacts, DoName, NameGoesOn DEF ImportCapture, StateTypes, UiTyped, NameSteps, GiveUp, Capture
<1>17. ASSUME NEW g \in Generators, NEW name \in Names, Generate(g, name) PROVE UiTyped'
  BY <1>17, UiFacts DEF Generate, files, history, StateTypes, UiTyped
<1>18. ASSUME NEW g \in Generators, NativeCheck(g) PROVE UiTyped'
  BY <1>18, UiFacts DEF NativeCheck, Become, files, history, StateTypes, UiTyped
<1>19. ASSUME NEW g \in Generators, NativePrivate(g) PROVE UiTyped'
  BY <1>19, UiFacts DEF NativePrivate, Become, files, history, StateTypes, UiTyped
<1>20. ASSUME NEW g \in Generators, NativePublic(g) PROVE UiTyped'
  BY <1>20, UiFacts DEF NativePublic, Become, files, history, StateTypes, UiTyped
<1>21. ASSUME NEW g \in Generators, Generated(g) PROVE UiTyped'
  <2>1. generators[g].name \in Names
    BY <1>21 DEF Generated, StateTypes, GeneratorsTyped
  <2> QED
    BY <1>21, <2>1, UiFacts, TextFacts, DoName DEF Generated, Capture, GiveUp, StateTypes, UiTyped, NameSteps
<1>22. ASSUME NEW name \in Names, Delete(name) PROVE UiTyped'
  BY <1>22, UiFacts, TextFacts, DoName DEF Delete, GiveUp, StateTypes, UiTyped, NameSteps
<1>23. ASSUME NEW name \in Names, NEW passphrase \in Passphrases, ReadForPassphrase(name, passphrase)
       PROVE  UiTyped'
  <2>1. private[name] \in PrivateKeys
    BY <1>23 DEF ReadForPassphrase, Verified, StateTypes, FilesTyped
  <2>2. [private[name] EXCEPT !.passphrase = passphrase] \in PrivateKeys
    BY <2>1 DEF PrivateKeys
  <2> QED
    BY <1>23, <2>2, TextFacts, DoName DEF ReadForPassphrase, UiTyped, NameSteps
<1>24. CASE ReplacePrivate
  <2>1. ui.name \in Names
    BY <1>24 DEF ReplacePrivate, StateTypes, UiTyped, GoodUi, NameSteps
  <2>2. private[ui.name] \in PrivateKeys \cup {None}
    BY <2>1 DEF StateTypes, FilesTyped
  <2> QED
    BY <1>24, <2>1, <2>2, TextFacts, DoName DEF ReplacePrivate, UiTyped, NameSteps
<1>25. CASE Recapture
  <2>1. ui.name \in Names /\ ui.do \in NameSteps
    BY <1>25 DEF Recapture, StateTypes, UiTyped, GoodUi, NameSteps
  <2> QED
    BY <1>25, <2>1, UiFacts, TextFacts, DoName, NameGoesOn DEF Recapture, StateTypes, UiTyped, NameSteps, Capture
<1>26. CASE Rollback
  BY <1>26, UiFacts DEF Rollback, files, history, StateTypes, UiTyped
<1>27. CASE UNCHANGED stateVars
  BY <1>27, UiFacts DEF stateVars, files, history, StateTypes, UiTyped
<1>28. ASSUME NEW path \in TextPaths, NEW line \in Lines, CommitKnownHostLine(path, line)
       PROVE  UiTyped'
  <2>1. PICK text \in SUBSET Lines : Commit(path, text)
    BY <1>28, KnownLine DEF MigrationInv
  <2> QED
    BY <2>1, <1>9
<1> QED
  BY <1>1, <1>2, <1>3, <1>4, <1>5, <1>6, <1>7, <1>8, <1>9, <1>10, <1>11, <1>12, <1>13, <1>14, <1>15,
       <1>16, <1>17, <1>18, <1>19, <1>20, <1>21, <1>22, <1>23, <1>24, <1>25, <1>26, <1>27, <1>28
     DEF StateNext

LEMMA GeneratorsStep ==
  ASSUME StateTypes, [StateNext]_stateVars
  PROVE  GeneratorsTyped'
<1>1. CASE Die
  BY <1>1, StateAssumption
     DEF Die, files, history, StateTypes, GeneratorsTyped, Stages, NoGeneration
<1>2. CASE Initialize
  BY <1>2, StateAssumption
     DEF Initialize, files, history, StateTypes, GeneratorsTyped, Stages, NoGeneration
<1>3. CASE ListKeys
  BY <1>3, StateAssumption
     DEF ListKeys, files, history, StateTypes, GeneratorsTyped, Stages, NoGeneration
<1>4. CASE FinishLegacyMigration
  BY <1>4, StateAssumption
     DEF FinishLegacyMigration, files, history, StateTypes, GeneratorsTyped, Stages, NoGeneration
<1>5. CASE StartIsOver
  BY <1>5, StateAssumption
     DEF StartIsOver, files, history, StateTypes, GeneratorsTyped, Stages, NoGeneration
<1>6. ASSUME NEW item \in ui.todo, RestoreSshProjection(item) PROVE GeneratorsTyped'
  BY <1>6, StateAssumption
     DEF RestoreSshProjection, files, history, StateTypes, GeneratorsTyped, Stages, NoGeneration
<1>7. ASSUME NEW item \in ui.todo, Migrate(item) PROVE GeneratorsTyped'
  BY <1>7, StateAssumption
     DEF Migrate, files, history, StateTypes, GeneratorsTyped, Stages, NoGeneration
<1>8. ASSUME NEW item \in ui.todo, ReconcileVerifiedKeys(item) PROVE GeneratorsTyped'
  BY <1>8, StateAssumption
     DEF ReconcileVerifiedKeys, files, history, StateTypes, GeneratorsTyped, Stages, NoGeneration
<1>9. ASSUME NEW path \in TextPaths, NEW text \in SUBSET Lines, Commit(path, text)
      PROVE  GeneratorsTyped'
  BY <1>9, StateAssumption
     DEF Commit, files, history, StateTypes, GeneratorsTyped, Stages, NoGeneration
<1>10. CASE WriteTextFile
  BY <1>10, StateAssumption
     DEF WriteTextFile, files, history, StateTypes, GeneratorsTyped, Stages, NoGeneration
<1>11. CASE RemoveFiles
  BY <1>11, StateAssumption
     DEF RemoveFiles, files, history, StateTypes, GeneratorsTyped, Stages, NoGeneration
<1>12. ASSUME NEW name \in Names, NEW source \in Sources, NEW passphrase \in Passphrases, Import(name, source, passphrase)
       PROVE  GeneratorsTyped'
  BY <1>12, StateAssumption
     DEF Import, files, history, StateTypes, GeneratorsTyped, Stages, NoGeneration
<1>13. CASE ImportPrivate
  BY <1>13, StateAssumption
     DEF ImportPrivate, files, history, StateTypes, GeneratorsTyped, Stages, NoGeneration
<1>14. CASE ImportPublic
  BY <1>14, StateAssumption
     DEF ImportPublic, files, history, StateTypes, GeneratorsTyped, Stages, NoGeneration
<1>15. CASE ImportVerify
  BY <1>15, StateAssumption
     DEF ImportVerify, files, history, StateTypes, GeneratorsTyped, Stages, NoGeneration
<1>16. CASE ImportCapture
  BY <1>16, StateAssumption
     DEF ImportCapture, Capture, files, history, StateTypes, GeneratorsTyped, Stages, NoGeneration
<1>17. ASSUME NEW g \in Generators, NEW name \in Names, Generate(g, name) PROVE GeneratorsTyped'
  BY <1>17, StateAssumption
     DEF Generate, files, history, StateTypes, GeneratorsTyped, Stages, NoGeneration
<1>18. ASSUME NEW g \in Generators, NativeCheck(g) PROVE GeneratorsTyped'
  BY <1>18, StateAssumption
     DEF NativeCheck, Become, files, history, StateTypes, GeneratorsTyped, Stages, NoGeneration
<1>19. ASSUME NEW g \in Generators, NativePrivate(g) PROVE GeneratorsTyped'
  BY <1>19, StateAssumption
     DEF NativePrivate, Become, files, history, StateTypes, GeneratorsTyped, Stages, NoGeneration
<1>20. ASSUME NEW g \in Generators, NativePublic(g) PROVE GeneratorsTyped'
  BY <1>20, StateAssumption
     DEF NativePublic, Become, files, history, StateTypes, GeneratorsTyped, Stages, NoGeneration
<1>21. ASSUME NEW g \in Generators, Generated(g) PROVE GeneratorsTyped'
  BY <1>21, StateAssumption
     DEF Generated, Capture, files, history, StateTypes, GeneratorsTyped, Stages, NoGeneration
<1>22. ASSUME NEW name \in Names, Delete(name) PROVE GeneratorsTyped'
  BY <1>22, StateAssumption
     DEF Delete, files, history, StateTypes, GeneratorsTyped, Stages, NoGeneration
<1>23. ASSUME NEW name \in Names, NEW passphrase \in Passphrases, ReadForPassphrase(name, passphrase)
       PROVE  GeneratorsTyped'
  BY <1>23, StateAssumption
     DEF ReadForPassphrase, files, history, StateTypes, GeneratorsTyped, Stages, NoGeneration
<1>24. CASE ReplacePrivate
  BY <1>24, StateAssumption
     DEF ReplacePrivate, files, history, StateTypes, GeneratorsTyped, Stages, NoGeneration
<1>25. CASE Recapture
  BY <1>25, StateAssumption
     DEF Recapture, Capture, files, history, StateTypes, GeneratorsTyped, Stages, NoGeneration
<1>26. CASE Rollback
  BY <1>26, StateAssumption
     DEF Rollback, files, history, StateTypes, GeneratorsTyped, Stages, NoGeneration
<1>27. CASE UNCHANGED stateVars
  BY <1>27, StateAssumption
     DEF stateVars, files, history, StateTypes, GeneratorsTyped, Stages, NoGeneration
<1>28. ASSUME NEW path \in TextPaths, NEW line \in Lines, CommitKnownHostLine(path, line)
       PROVE  GeneratorsTyped'
  <2>1. PICK text \in SUBSET Lines : Commit(path, text)
    BY <1>28, KnownLine DEF MigrationInv
  <2> QED
    BY <2>1, <1>9
<1> QED
  BY <1>1, <1>2, <1>3, <1>4, <1>5, <1>6, <1>7, <1>8, <1>9, <1>10, <1>11, <1>12, <1>13, <1>14, <1>15,
       <1>16, <1>17, <1>18, <1>19, <1>20, <1>21, <1>22, <1>23, <1>24, <1>25, <1>26, <1>27, <1>28
     DEF StateNext

LEMMA HistoryStep ==
  ASSUME StateTypes, [StateNext]_stateVars
  PROVE  HistoryTyped'
<1>1. CASE Die
  BY <1>1 DEF Die, files, history, StateTypes, HistoryTyped
<1>2. CASE Initialize
  BY <1>2 DEF Initialize, files, history, StateTypes, HistoryTyped
<1>3. CASE ListKeys
  BY <1>3 DEF ListKeys, files, history, StateTypes, HistoryTyped
<1>4. CASE FinishLegacyMigration
  BY <1>4 DEF FinishLegacyMigration, files, history, StateTypes, HistoryTyped
<1>5. CASE StartIsOver
  BY <1>5 DEF StartIsOver, files, history, StateTypes, HistoryTyped
<1>6. ASSUME NEW item \in ui.todo, RestoreSshProjection(item) PROVE HistoryTyped'
  BY <1>6 DEF RestoreSshProjection, files, history, StateTypes, HistoryTyped
<1>7. ASSUME NEW item \in ui.todo, Migrate(item) PROVE HistoryTyped'
  BY <1>7 DEF Migrate, files, history, StateTypes, HistoryTyped
<1>8. ASSUME NEW item \in ui.todo, ReconcileVerifiedKeys(item) PROVE HistoryTyped'
  BY <1>8 DEF ReconcileVerifiedKeys, files, history, StateTypes, HistoryTyped
<1>9. ASSUME NEW path \in TextPaths, NEW text \in SUBSET Lines, Commit(path, text)
      PROVE  HistoryTyped'
  BY <1>9 DEF Commit, files, history, StateTypes, HistoryTyped
<1>10. CASE WriteTextFile
  BY <1>10 DEF WriteTextFile, files, history, StateTypes, HistoryTyped
<1>11. CASE RemoveFiles
  BY <1>11 DEF RemoveFiles, files, history, StateTypes, HistoryTyped
<1>12. ASSUME NEW name \in Names, NEW source \in Sources, NEW passphrase \in Passphrases, Import(name, source, passphrase)
       PROVE  HistoryTyped'
  BY <1>12 DEF Import, files, history, StateTypes, HistoryTyped
<1>13. CASE ImportPrivate
  BY <1>13 DEF ImportPrivate, files, history, StateTypes, HistoryTyped
<1>14. CASE ImportPublic
  BY <1>14 DEF ImportPublic, files, history, StateTypes, HistoryTyped
<1>15. CASE ImportVerify
  BY <1>15 DEF ImportVerify, files, history, StateTypes, HistoryTyped
<1>16. CASE ImportCapture
  <2>1. ui.name \in Names
    BY <1>16 DEF ImportCapture, StateTypes, UiTyped, GoodUi, NameSteps
  <2>2. CASE accepted' = accepted
    BY <1>16, <2>2 DEF ImportCapture, StateTypes, HistoryTyped
  <2>3. CASE accepted' # accepted
    <3>1. ui' = Idle /\ accepted' = [accepted EXCEPT ![ui.name] = private[ui.name].key]
      BY <1>16, <2>3 DEF ImportCapture
    <3>2. private[ui.name] # None
      BY <1>16, <3>1, DoFacts DEF ImportCapture, Capture, GiveUp
    <3>3. private[ui.name].key \in Keys
      BY <2>1, <3>2 DEF StateTypes, FilesTyped, PrivateKeys
    <3> QED
      BY <1>16, <2>1, <3>1, <3>3 DEF ImportCapture, StateTypes, HistoryTyped
  <2> QED
    BY <2>2, <2>3
<1>17. ASSUME NEW g \in Generators, NEW name \in Names, Generate(g, name) PROVE HistoryTyped'
  BY <1>17 DEF Generate, files, history, StateTypes, HistoryTyped
<1>18. ASSUME NEW g \in Generators, NativeCheck(g) PROVE HistoryTyped'
  BY <1>18 DEF NativeCheck, Become, files, history, StateTypes, HistoryTyped
<1>19. ASSUME NEW g \in Generators, NativePrivate(g) PROVE HistoryTyped'
  BY <1>19 DEF NativePrivate, Become, files, history, StateTypes, HistoryTyped
<1>20. ASSUME NEW g \in Generators, NativePublic(g) PROVE HistoryTyped'
  BY <1>20 DEF NativePublic, Become, files, history, StateTypes, HistoryTyped
<1>21. ASSUME NEW g \in Generators, Generated(g) PROVE HistoryTyped'
  BY <1>21 DEF Generated, Capture, files, history, StateTypes, HistoryTyped
<1>22. ASSUME NEW name \in Names, Delete(name) PROVE HistoryTyped'
  BY <1>22 DEF Delete, files, history, StateTypes, HistoryTyped
<1>23. ASSUME NEW name \in Names, NEW passphrase \in Passphrases, ReadForPassphrase(name, passphrase)
       PROVE  HistoryTyped'
  BY <1>23 DEF ReadForPassphrase, files, history, StateTypes, HistoryTyped
<1>24. CASE ReplacePrivate
  BY <1>24 DEF ReplacePrivate, files, history, StateTypes, HistoryTyped
<1>25. CASE Recapture
  BY <1>25 DEF Recapture, Capture, files, history, StateTypes, HistoryTyped
<1>26. CASE Rollback
  BY <1>26 DEF Rollback, files, history, StateTypes, HistoryTyped
<1>27. CASE UNCHANGED stateVars
  BY <1>27 DEF stateVars, files, history, StateTypes, HistoryTyped
<1>28. ASSUME NEW path \in TextPaths, NEW line \in Lines, CommitKnownHostLine(path, line)
       PROVE  HistoryTyped'
  <2>1. PICK text \in SUBSET Lines : Commit(path, text)
    BY <1>28, KnownLine DEF MigrationInv
  <2> QED
    BY <2>1, <1>9
<1> QED
  BY <1>1, <1>2, <1>3, <1>4, <1>5, <1>6, <1>7, <1>8, <1>9, <1>10, <1>11, <1>12, <1>13, <1>14, <1>15,
       <1>16, <1>17, <1>18, <1>19, <1>20, <1>21, <1>22, <1>23, <1>24, <1>25, <1>26, <1>27, <1>28
     DEF StateNext


LEMMA OverlookedStep ==
  ASSUME StateTypes, [StateNext]_stateVars
  PROVE  OverlookedTyped'
<1>1. CASE Die
  BY <1>1 DEF Die, StateTypes, OverlookedTyped
<1>2. CASE Initialize
  BY <1>2 DEF Initialize, StateTypes, OverlookedTyped
<1>3. CASE ListKeys
  <2>1. (VerifiedNames \X {"pair"}) \subseteq Names \X {"pair"}
    BY DEF VerifiedNames
  <2> QED
    BY <1>3, <2>1 DEF ListKeys, StateTypes, OverlookedTyped
<1>4. CASE FinishLegacyMigration
  BY <1>4 DEF FinishLegacyMigration, StateTypes, OverlookedTyped
<1>5. CASE StartIsOver
  BY <1>5 DEF StartIsOver, StateTypes, OverlookedTyped
<1>6. ASSUME NEW item \in ui.todo, RestoreSshProjection(item) PROVE OverlookedTyped'
  <2>1. item[2] = "text" => item \in TextPaths \X {"text"}
    BY <1>6, Items DEF RestoreSshProjection, StateTypes
  <2>2. overlooked' = overlooked \/ (item[2] = "text" /\ overlooked' = overlooked \cup {item})
    BY <1>6, Items DEF RestoreSshProjection, StateTypes
  <2> QED
    BY <2>1, <2>2 DEF StateTypes, OverlookedTyped
<1>7. ASSUME NEW item \in ui.todo, Migrate(item) PROVE OverlookedTyped'
  <2>1. item[2] = "text" => item \in TextPaths \X {"text"}
    BY <1>7, Items DEF Migrate, StateTypes
  <2> QED
    BY <1>7, <2>1 DEF Migrate, StateTypes, OverlookedTyped
<1>8. ASSUME NEW item \in ui.todo, ReconcileVerifiedKeys(item) PROVE OverlookedTyped'
  <2>1. item[1] \in Names
    BY <1>8, Items DEF ReconcileVerifiedKeys, StateTypes
  <2> QED
    BY <1>8, <2>1 DEF ReconcileVerifiedKeys, StateTypes, OverlookedTyped
<1>9. ASSUME NEW path \in TextPaths, NEW text \in SUBSET Lines, Commit(path, text)
      PROVE  OverlookedTyped'
  BY <1>9 DEF Commit, StateTypes, OverlookedTyped
<1>10. CASE WriteTextFile
  BY <1>10 DEF WriteTextFile, StateTypes, OverlookedTyped
<1>11. CASE RemoveFiles
  BY <1>11 DEF RemoveFiles, StateTypes, OverlookedTyped
<1>12. ASSUME NEW name \in Names, NEW source \in Sources, NEW passphrase \in Passphrases, Import(name, source, passphrase)
       PROVE  OverlookedTyped'
  BY <1>12 DEF Import, StateTypes, OverlookedTyped
<1>13. CASE ImportPrivate
  BY <1>13 DEF ImportPrivate, StateTypes, OverlookedTyped
<1>14. CASE ImportPublic
  BY <1>14 DEF ImportPublic, StateTypes, OverlookedTyped
<1>15. CASE ImportVerify
  BY <1>15 DEF ImportVerify, StateTypes, OverlookedTyped
<1>16. CASE ImportCapture
  BY <1>16 DEF ImportCapture, StateTypes, OverlookedTyped
<1>17. ASSUME NEW g \in Generators, NEW name \in Names, Generate(g, name) PROVE OverlookedTyped'
  BY <1>17 DEF Generate, StateTypes, OverlookedTyped
<1>18. ASSUME NEW g \in Generators, NativeCheck(g) PROVE OverlookedTyped'
  BY <1>18 DEF NativeCheck, Become, StateTypes, OverlookedTyped
<1>19. ASSUME NEW g \in Generators, NativePrivate(g) PROVE OverlookedTyped'
  BY <1>19 DEF NativePrivate, Become, StateTypes, OverlookedTyped
<1>20. ASSUME NEW g \in Generators, NativePublic(g) PROVE OverlookedTyped'
  BY <1>20 DEF NativePublic, Become, StateTypes, OverlookedTyped
<1>21. ASSUME NEW g \in Generators, Generated(g) PROVE OverlookedTyped'
  BY <1>21 DEF Generated, Capture, StateTypes, OverlookedTyped
<1>22. ASSUME NEW name \in Names, Delete(name) PROVE OverlookedTyped'
  BY <1>22 DEF Delete, StateTypes, OverlookedTyped
<1>23. ASSUME NEW name \in Names, NEW passphrase \in Passphrases, ReadForPassphrase(name, passphrase)
       PROVE  OverlookedTyped'
  BY <1>23 DEF ReadForPassphrase, StateTypes, OverlookedTyped
<1>24. CASE ReplacePrivate
  BY <1>24 DEF ReplacePrivate, StateTypes, OverlookedTyped
<1>25. CASE Recapture
  BY <1>25 DEF Recapture, Capture, StateTypes, OverlookedTyped
<1>26. CASE Rollback
  BY <1>26 DEF Rollback, StateTypes, OverlookedTyped
<1>27. CASE UNCHANGED stateVars
  BY <1>27 DEF stateVars, StateTypes, OverlookedTyped
<1>28. ASSUME NEW path \in TextPaths, NEW line \in Lines, CommitKnownHostLine(path, line)
       PROVE  OverlookedTyped'
  <2>1. PICK text \in SUBSET Lines : Commit(path, text)
    BY <1>28, KnownLine DEF MigrationInv
  <2> QED
    BY <2>1, <1>9
<1> QED
  BY <1>1, <1>2, <1>3, <1>4, <1>5, <1>6, <1>7, <1>8, <1>9, <1>10, <1>11, <1>12, <1>13, <1>14, <1>15,
       <1>16, <1>17, <1>18, <1>19, <1>20, <1>21, <1>22, <1>23, <1>24, <1>25, <1>26, <1>27, <1>28
     DEF StateNext

LEMMA TypesStep ==
  ASSUME MigrationInv, [StateNext]_stateVars, TodoTyped'
  PROVE  StateTypes'
BY FilesStep, StoreStep, UiStep, GeneratorsStep, HistoryStep, OverlookedStep DEF MigrationInv, StateTypes

-----------------------------------------------------------------------------
(* A start.                                                                *)

\* A generation under way means that the start is over.
LEMMA ThreadAtWork ==
  ASSUME StartAlone, NEW g \in Generators, generators[g].stage # "none"
  PROVE  ui.do \notin Starting /\ ~fresh
BY DEF StartAlone, NoGenerators, NoGeneration

LEMMA NoThreads ==
  ASSUME generators' = [g \in Generators |-> NoGeneration]
  PROVE  NoGenerators'
BY DEF NoGenerators

\* What no command does: a start, a change of the mark; it begins by ending freshness.
CommandOnly ==
  /\ ui'.do \notin Starting
       \/ (ui' = Down /\ NoGenerators' /\ UNCHANGED <<files, store>> /\ ~fresh')
  /\ store'.initialized = store.initialized /\ pending' = pending
  /\ fresh' => fresh /\ UNCHANGED <<files, store, ui, generators, overlooked>>

LEMMA Commands ==
  ASSUME StateTypes, StartAlone, ui.do \notin Starting, [StateNext]_stateVars
  PROVE  CommandOnly
<1>1. CASE Die
  BY <1>1, NoThreads DEF Die, files, CommandOnly
<1>2. CASE Initialize
  BY <1>2 DEF Initialize, Starting
<1>3. CASE ListKeys
  BY <1>3 DEF ListKeys, Starting
<1>4. CASE FinishLegacyMigration
  BY <1>4 DEF FinishLegacyMigration, Starting
<1>5. CASE StartIsOver
  BY <1>5 DEF StartIsOver, Starting
<1>6. ASSUME NEW item \in ui.todo, RestoreSshProjection(item) PROVE CommandOnly
  BY <1>6 DEF RestoreSshProjection, Starting
<1>7. ASSUME NEW item \in ui.todo, Migrate(item) PROVE CommandOnly
  BY <1>7 DEF Migrate, Starting
<1>8. ASSUME NEW item \in ui.todo, ReconcileVerifiedKeys(item) PROVE CommandOnly
  BY <1>8 DEF ReconcileVerifiedKeys, Starting
<1>9. ASSUME NEW path \in TextPaths, NEW text \in SUBSET Lines, Commit(path, text)
      PROVE  CommandOnly
  <2>1. ui'.do \notin Starting
    BY <1>9, UiFacts, DoFacts DEF Commit, GiveUp, Starting
  <2>2. ~fresh' \/ UNCHANGED stateVars
    BY <1>9, UiFacts DEF Commit, StartAlone
  <2>3. store'.initialized = store.initialized /\ pending' = pending
    BY <1>9 DEF Commit, StateTypes, StoreTyped
  <2> QED
    BY <2>1, <2>2, <2>3 DEF CommandOnly, stateVars, files
<1>10. CASE WriteTextFile
  <2>1. ui'.do \notin Starting
    BY <1>10, UiFacts, DoFacts DEF WriteTextFile, GiveUp, Starting
  <2>2. ~fresh' \/ UNCHANGED stateVars
    BY <1>10, UiFacts DEF WriteTextFile, StartAlone
  <2>3. store'.initialized = store.initialized /\ pending' = pending
    BY <1>10 DEF WriteTextFile, StateTypes, StoreTyped
  <2> QED
    BY <2>1, <2>2, <2>3 DEF CommandOnly, stateVars, files
<1>11. CASE RemoveFiles
  <2>1. ui'.do \notin Starting
    <3>1. ui \in UiRecords
      BY DEF StateTypes, UiTyped, GoodUi
    <3> QED
      BY <1>11, <3>1, UiFacts, DoFacts DEF RemoveFiles, GiveUp, Starting, UiRecords
  <2>2. ~fresh' \/ UNCHANGED stateVars
    BY <1>11, UiFacts DEF RemoveFiles, StartAlone
  <2>3. store'.initialized = store.initialized /\ pending' = pending
    BY <1>11 DEF RemoveFiles, StateTypes, StoreTyped
  <2> QED
    BY <2>1, <2>2, <2>3 DEF CommandOnly, stateVars, files
<1>12. ASSUME NEW name \in Names, NEW source \in Sources, NEW passphrase \in Passphrases, Import(name, source, passphrase)
       PROVE  CommandOnly
  <2>1. ui'.do \notin Starting
    BY <1>12, UiFacts, DoFacts DEF Import, GiveUp, Starting
  <2>2. ~fresh' \/ UNCHANGED stateVars
    BY <1>12, UiFacts DEF Import, StartAlone
  <2>3. store'.initialized = store.initialized /\ pending' = pending
    BY <1>12 DEF Import, StateTypes, StoreTyped
  <2> QED
    BY <2>1, <2>2, <2>3 DEF CommandOnly, stateVars, files
<1>13. CASE ImportPrivate
  <2>1. ui'.do \notin Starting
    BY <1>13, UiFacts, DoFacts DEF ImportPrivate, GiveUp, Starting
  <2>2. ~fresh' \/ UNCHANGED stateVars
    BY <1>13, UiFacts DEF ImportPrivate, StartAlone
  <2>3. store'.initialized = store.initialized /\ pending' = pending
    BY <1>13 DEF ImportPrivate, StateTypes, StoreTyped
  <2> QED
    BY <2>1, <2>2, <2>3 DEF CommandOnly, stateVars, files
<1>14. CASE ImportPublic
  <2>1. ui'.do \notin Starting
    BY <1>14, UiFacts, DoFacts DEF ImportPublic, GiveUp, Starting
  <2>2. ~fresh' \/ UNCHANGED stateVars
    BY <1>14, UiFacts DEF ImportPublic, StartAlone
  <2>3. store'.initialized = store.initialized /\ pending' = pending
    BY <1>14 DEF ImportPublic, StateTypes, StoreTyped
  <2> QED
    BY <2>1, <2>2, <2>3 DEF CommandOnly, stateVars, files
<1>15. CASE ImportVerify
  <2>1. ui'.do \notin Starting
    BY <1>15, UiFacts, DoFacts DEF ImportVerify, GiveUp, Starting
  <2>2. ~fresh' \/ UNCHANGED stateVars
    BY <1>15, UiFacts DEF ImportVerify, StartAlone
  <2>3. store'.initialized = store.initialized /\ pending' = pending
    BY <1>15 DEF ImportVerify, StateTypes, StoreTyped
  <2> QED
    BY <2>1, <2>2, <2>3 DEF CommandOnly, stateVars, files
<1>16. CASE ImportCapture
  <2>1. ui'.do \notin Starting
    BY <1>16, UiFacts, DoFacts DEF ImportCapture, Capture, GiveUp, Starting
  <2>2. ~fresh' \/ UNCHANGED stateVars
    BY <1>16, UiFacts DEF ImportCapture, StartAlone
  <2>3. store'.initialized = store.initialized /\ pending' = pending
    BY <1>16 DEF ImportCapture, Capture, StateTypes, StoreTyped
  <2> QED
    BY <2>1, <2>2, <2>3 DEF CommandOnly, stateVars, files
<1>17. ASSUME NEW g \in Generators, NEW name \in Names, Generate(g, name) PROVE CommandOnly
  <2>1. UNCHANGED <<store, ui, pending>> /\ ~fresh'
    BY <1>17 DEF Generate
  <2> QED
    BY <2>1 DEF CommandOnly
<1>18. ASSUME NEW g \in Generators, NativeCheck(g) PROVE CommandOnly
  <2>1. UNCHANGED <<store, ui, pending, fresh>> /\ ~fresh
    BY <1>18, ThreadAtWork DEF NativeCheck
  <2> QED
    BY <2>1 DEF CommandOnly
<1>19. ASSUME NEW g \in Generators, NativePrivate(g) PROVE CommandOnly
  <2>1. UNCHANGED <<store, ui, pending, fresh>> /\ ~fresh
    BY <1>19, ThreadAtWork DEF NativePrivate
  <2> QED
    BY <2>1 DEF CommandOnly
<1>20. ASSUME NEW g \in Generators, NativePublic(g) PROVE CommandOnly
  <2>1. UNCHANGED <<store, ui, pending, fresh>> /\ ~fresh
    BY <1>20, ThreadAtWork DEF NativePublic
  <2> QED
    BY <2>1 DEF CommandOnly
<1>21. ASSUME NEW g \in Generators, Generated(g) PROVE CommandOnly
  <2>1. ~fresh /\ fresh' = fresh /\ pending' = pending
    BY <1>21, ThreadAtWork DEF Generated
  <2>2. ui'.do \notin Starting
    BY <1>21, UiFacts, DoFacts DEF Generated, Capture, GiveUp, Starting
  <2>3. store'.initialized = store.initialized
    BY <1>21 DEF Generated, Capture, StateTypes, StoreTyped
  <2> QED
    BY <2>1, <2>2, <2>3 DEF CommandOnly
<1>22. ASSUME NEW name \in Names, Delete(name) PROVE CommandOnly
  <2>1. ui'.do \notin Starting
    BY <1>22, UiFacts, DoFacts DEF Delete, GiveUp, Starting
  <2>2. ~fresh' \/ UNCHANGED stateVars
    BY <1>22, UiFacts DEF Delete, StartAlone
  <2>3. store'.initialized = store.initialized /\ pending' = pending
    BY <1>22 DEF Delete, StateTypes, StoreTyped
  <2> QED
    BY <2>1, <2>2, <2>3 DEF CommandOnly, stateVars, files
<1>23. ASSUME NEW name \in Names, NEW passphrase \in Passphrases, ReadForPassphrase(name, passphrase)
       PROVE  CommandOnly
  <2>1. ui'.do \notin Starting
    BY <1>23, UiFacts, DoFacts DEF ReadForPassphrase, GiveUp, Starting
  <2>2. ~fresh' \/ UNCHANGED stateVars
    BY <1>23, UiFacts DEF ReadForPassphrase, StartAlone
  <2>3. store'.initialized = store.initialized /\ pending' = pending
    BY <1>23 DEF ReadForPassphrase, StateTypes, StoreTyped
  <2> QED
    BY <2>1, <2>2, <2>3 DEF CommandOnly, stateVars, files
<1>24. CASE ReplacePrivate
  <2>1. ui'.do \notin Starting
    BY <1>24, UiFacts, DoFacts DEF ReplacePrivate, GiveUp, Starting
  <2>2. ~fresh' \/ UNCHANGED stateVars
    BY <1>24, UiFacts DEF ReplacePrivate, StartAlone
  <2>3. store'.initialized = store.initialized /\ pending' = pending
    BY <1>24 DEF ReplacePrivate, StateTypes, StoreTyped
  <2> QED
    BY <2>1, <2>2, <2>3 DEF CommandOnly, stateVars, files
<1>25. CASE Recapture
  <2>1. ui'.do \notin Starting
    <3>1. ui \in UiRecords
      BY DEF StateTypes, UiTyped, GoodUi
    <3> QED
      BY <1>25, <3>1, UiFacts, DoFacts DEF Recapture, Capture, GiveUp, Starting, UiRecords
  <2>2. ~fresh' \/ UNCHANGED stateVars
    BY <1>25, UiFacts DEF Recapture, StartAlone
  <2>3. store'.initialized = store.initialized /\ pending' = pending
    BY <1>25 DEF Recapture, Capture, StateTypes, StoreTyped
  <2> QED
    BY <2>1, <2>2, <2>3 DEF CommandOnly, stateVars, files
<1>26. CASE Rollback
  <2>1. ui'.do \notin Starting
    BY <1>26, UiFacts, DoFacts DEF Rollback, GiveUp, Starting
  <2>2. ~fresh' \/ UNCHANGED stateVars
    BY <1>26, UiFacts DEF Rollback, StartAlone
  <2>3. store'.initialized = store.initialized /\ pending' = pending
    BY <1>26 DEF Rollback, StateTypes, StoreTyped
  <2> QED
    BY <2>1, <2>2, <2>3 DEF CommandOnly, stateVars, files
<1>27. CASE UNCHANGED stateVars
  BY <1>27 DEF stateVars, files, CommandOnly
<1>28. ASSUME NEW path \in TextPaths, NEW line \in Lines, CommitKnownHostLine(path, line)
       PROVE  CommandOnly
  <2>1. PICK text \in SUBSET Lines : Commit(path, text)
    BY <1>28, KnownLine DEF MigrationInv
  <2> QED
    BY <2>1, <1>9
<1> QED
  BY <1>1, <1>2, <1>3, <1>4, <1>5, <1>6, <1>7, <1>8, <1>9, <1>10, <1>11, <1>12, <1>13, <1>14, <1>15,
       <1>16, <1>17, <1>18, <1>19, <1>20, <1>21, <1>22, <1>23, <1>24, <1>25, <1>26, <1>27, <1>28
     DEF StateNext

StartOnly ==
  \/ Die \/ Initialize \/ ListKeys \/ FinishLegacyMigration \/ StartIsOver
  \/ UNCHANGED stateVars
  \/ \E item \in ui.todo :
       RestoreSshProjection(item) \/ Migrate(item) \/ ReconcileVerifiedKeys(item)

LEMMA Starts ==
  ASSUME StateTypes, StartAlone, ui.do \in Starting, [StateNext]_stateVars
  PROVE  StartOnly
<1>1. CASE Die
  BY <1>1 DEF StartOnly
<1>2. CASE Initialize
  BY <1>2 DEF StartOnly
<1>3. CASE ListKeys
  BY <1>3 DEF StartOnly
<1>4. CASE FinishLegacyMigration
  BY <1>4 DEF StartOnly
<1>5. CASE StartIsOver
  BY <1>5 DEF StartOnly
<1>6. ASSUME NEW item \in ui.todo, RestoreSshProjection(item) PROVE StartOnly
  BY <1>6 DEF StartOnly
<1>7. ASSUME NEW item \in ui.todo, Migrate(item) PROVE StartOnly
  BY <1>7 DEF StartOnly
<1>8. ASSUME NEW item \in ui.todo, ReconcileVerifiedKeys(item) PROVE StartOnly
  BY <1>8 DEF StartOnly
<1>9. ASSUME NEW path \in TextPaths, NEW text \in SUBSET Lines, Commit(path, text)
      PROVE  StartOnly
  BY <1>9, UiFacts DEF Commit, Starting
<1>10. CASE WriteTextFile
  BY <1>10 DEF WriteTextFile, Starting
<1>11. CASE RemoveFiles
  BY <1>11 DEF RemoveFiles, Starting
<1>12. ASSUME NEW name \in Names, NEW source \in Sources, NEW passphrase \in Passphrases, Import(name, source, passphrase)
       PROVE  StartOnly
  BY <1>12, UiFacts DEF Import, Starting
<1>13. CASE ImportPrivate
  BY <1>13 DEF ImportPrivate, Starting
<1>14. CASE ImportPublic
  BY <1>14 DEF ImportPublic, Starting
<1>15. CASE ImportVerify
  BY <1>15 DEF ImportVerify, Starting
<1>16. CASE ImportCapture
  BY <1>16 DEF ImportCapture, Starting
<1>17. ASSUME NEW g \in Generators, NEW name \in Names, Generate(g, name) PROVE StartOnly
  BY <1>17, UiFacts DEF Generate, Starting
<1>18. ASSUME NEW g \in Generators, NativeCheck(g) PROVE StartOnly
  BY <1>18, ThreadAtWork DEF NativeCheck
<1>19. ASSUME NEW g \in Generators, NativePrivate(g) PROVE StartOnly
  BY <1>19, ThreadAtWork DEF NativePrivate
<1>20. ASSUME NEW g \in Generators, NativePublic(g) PROVE StartOnly
  BY <1>20, ThreadAtWork DEF NativePublic
<1>21. ASSUME NEW g \in Generators, Generated(g) PROVE StartOnly
  BY <1>21, ThreadAtWork DEF Generated
<1>22. ASSUME NEW name \in Names, Delete(name) PROVE StartOnly
  BY <1>22, UiFacts DEF Delete, Starting
<1>23. ASSUME NEW name \in Names, NEW passphrase \in Passphrases, ReadForPassphrase(name, passphrase)
       PROVE  StartOnly
  BY <1>23, UiFacts DEF ReadForPassphrase, Starting
<1>24. CASE ReplacePrivate
  BY <1>24 DEF ReplacePrivate, Starting
<1>25. CASE Recapture
  BY <1>25 DEF Recapture, Starting
<1>26. CASE Rollback
  BY <1>26 DEF Rollback, Starting
<1>27. CASE UNCHANGED stateVars
  BY <1>27 DEF StartOnly
<1>28. ASSUME NEW path \in TextPaths, NEW line \in Lines, CommitKnownHostLine(path, line)
       PROVE  StartOnly
  <2>1. PICK text \in SUBSET Lines : Commit(path, text)
    BY <1>28, KnownLine DEF MigrationInv
  <2> QED
    BY <2>1, <1>9
<1> QED
  BY <1>1, <1>2, <1>3, <1>4, <1>5, <1>6, <1>7, <1>8, <1>9, <1>10, <1>11, <1>12, <1>13, <1>14, <1>15,
       <1>16, <1>17, <1>18, <1>19, <1>20, <1>21, <1>22, <1>23, <1>24, <1>25, <1>26, <1>27, <1>28
     DEF StateNext

LEMMA TodoStep ==
  ASSUME MigrationInv, [StateNext]_stateVars
  PROVE  TodoTyped'
<1>0. ui.do \in Starting => StartOnly
  BY Starts DEF MigrationInv, RestoreInv
<1>1. CASE ui.do \notin Starting
  <2>1. CommandOnly
    BY <1>1, Commands DEF MigrationInv
  <2> QED
    BY <2>1, UiFacts DEF CommandOnly, Starting, TodoTyped
<1>2. CASE Die
  BY <1>2, UiFacts DEF Die, TodoTyped
<1>3. CASE Initialize
  <2>1. ui'.do = "project"
        /\ ui'.todo = (TextPaths \X {"text"}) \cup (Names \X {"private", "public"})
    BY <1>3 DEF Initialize, MigrationInv, StateTypes, UiTyped, GoodUi, UiRecords
  <2> QED
    BY <2>1 DEF TodoTyped
<1>4. CASE ListKeys
  <2> DEFINE verified == {n \in Names : Verified(n)}
  <2>1. \/ /\ ui'.do = "migrate"
           /\ ui'.todo \subseteq (TextPaths \X {"text"}) \cup (verified \X {"pair"})
        \/ ui'.do = "reconcile" /\ ui'.todo \subseteq verified \X {"private", "public"}
    BY <1>4 DEF ListKeys, VerifiedNames, MigrationInv, StateTypes, UiTyped, GoodUi, UiRecords
  <2>2. {n \in Names : Verified(n)}' = verified
    BY <1>4 DEF ListKeys, files, Verified
  <2> QED
    BY <2>1, <2>2 DEF TodoTyped
<1>5. CASE FinishLegacyMigration
  BY <1>5, UiFacts DEF FinishLegacyMigration, TodoTyped
<1>6. CASE StartIsOver
  BY <1>6, UiFacts DEF StartIsOver, TodoTyped
<1>7. ASSUME NEW item \in ui.todo, RestoreSshProjection(item) PROVE TodoTyped'
  <2>1. ui'.do = ui.do /\ ui'.todo = ui.todo \ {item}
    BY <1>7, TodoShrinks DEF RestoreSshProjection, StateTypes, MigrationInv, UiTyped
  <2> QED
    BY <1>7, <2>1 DEF RestoreSshProjection, MigrationInv, StateTypes, TodoTyped
<1>8. ASSUME NEW item \in ui.todo, Migrate(item) PROVE TodoTyped'
  <2>1. ui'.do = ui.do /\ ui'.todo = ui.todo \ {item}
    BY <1>8, TodoShrinks DEF Migrate, StateTypes, MigrationInv, UiTyped
  <2>2. {n \in Names : Verified(n)}' = {n \in Names : Verified(n)}
    BY <1>8 DEF Migrate, files, Verified
  <2> QED
    BY <1>8, <2>1, <2>2 DEF Migrate, MigrationInv, StateTypes, TodoTyped
<1>9. ASSUME NEW item \in ui.todo, ReconcileVerifiedKeys(item) PROVE TodoTyped'
  <2>1. ui'.do = ui.do /\ ui'.todo = ui.todo \ {item}
    BY <1>9, TodoShrinks DEF ReconcileVerifiedKeys, StateTypes, MigrationInv, UiTyped
  <2> QED
    BY <1>9, <2>1 DEF ReconcileVerifiedKeys, MigrationInv, StateTypes, TodoTyped
<1>10. CASE UNCHANGED stateVars
  <2>1. {n \in Names : Verified(n)}' = {n \in Names : Verified(n)}
    BY <1>10 DEF stateVars, Verified
  <2> QED
    BY <1>10, <2>1 DEF stateVars, MigrationInv, StateTypes, TodoTyped
<1> QED
  BY <1>0, <1>1, <1>2, <1>3, <1>4, <1>5, <1>6, <1>7, <1>8, <1>9, <1>10 DEF StartOnly

LEMMA StartAloneStep ==
  ASSUME MigrationInv, [StateNext]_stateVars
  PROVE  StartAlone'
<1>0. ui.do \in Starting => StartOnly
  BY Starts DEF MigrationInv, RestoreInv
<1>1. CASE ui.do \notin Starting
  <2>1. CommandOnly
    BY <1>1, Commands DEF MigrationInv
  <2>2. store.initialized /\ pending = ~store.initialized
    BY <1>1 DEF MigrationInv, StartAlone, StateTypes, StoreTyped, Starting
  <2>3. UNCHANGED generators => NoGenerators' = NoGenerators
    BY DEF NoGenerators
  <2> QED
    BY <2>1, <2>2, <2>3, UiFacts DEF CommandOnly, Starting, StartAlone, MigrationInv
<1>2. CASE Die
  <2>1. NoGenerators' /\ ui' = Down /\ ~fresh' /\ UNCHANGED <<store, pending>>
    BY <1>2, NoThreads DEF Die
  <2> QED
    BY <2>1, UiFacts DEF StartAlone, Starting
<1>3. CASE Initialize
  <2>1. UNCHANGED generators
    BY <1>3 DEF Initialize
  <2>2. NoGenerators' = NoGenerators
    BY <2>1 DEF NoGenerators
  <2>3. ui.do = "start" /\ ui'.do \in {"project"}
    BY <1>3 DEF Initialize, MigrationInv, StateTypes, UiTyped, GoodUi, UiRecords
  <2>4. store' = store /\ fresh' = fresh
    BY <1>3 DEF Initialize
  <2>5. pending' = ~store.initialized /\ (ui'.do = "migrate" => ~store.initialized)
        /\ (ui'.do = "reconcile" => store.initialized)
    BY <1>3, <2>3 DEF Initialize, MigrationInv, StartAlone, StateTypes, StoreTyped, UiTyped, GoodUi, UiRecords
  <2> QED
    BY <2>2, <2>3, <2>4, <2>5, UiFacts DEF StartAlone, MigrationInv, Starting
<1>4. CASE ListKeys
  <2>1. UNCHANGED generators
    BY <1>4 DEF ListKeys
  <2>2. NoGenerators' = NoGenerators
    BY <2>1 DEF NoGenerators
  <2>3. ui.do = "project" /\ ui'.do \in {"migrate", "reconcile"}
    BY <1>4 DEF ListKeys, MigrationInv, StateTypes, UiTyped, GoodUi, UiRecords
  <2>4. store' = store /\ fresh' = fresh
    BY <1>4 DEF ListKeys
  <2>5. pending' = ~store.initialized /\ (ui'.do = "migrate" => ~store.initialized)
        /\ (ui'.do = "reconcile" => store.initialized)
    BY <1>4, <2>3 DEF ListKeys, MigrationInv, StartAlone, StateTypes, StoreTyped, UiTyped, GoodUi, UiRecords
  <2> QED
    BY <2>2, <2>3, <2>4, <2>5, UiFacts DEF StartAlone, MigrationInv, Starting
<1>5. CASE FinishLegacyMigration
  <2>1. UNCHANGED generators
    BY <1>5 DEF FinishLegacyMigration
  <2>2. NoGenerators' = NoGenerators
    BY <2>1 DEF NoGenerators
  <2>3. ui.do \in {"migrate", "reconcile"} /\ ui' = Idle
    BY <1>5 DEF FinishLegacyMigration
  <2>4. store'.initialized /\ ~pending'
    BY <1>5 DEF FinishLegacyMigration, MigrationInv, StateTypes, StoreTyped, StartAlone
  <2>5. store'.initialized = TRUE /\ pending' = FALSE /\ NoGenerators'
    BY <1>5, <2>2, <2>3, <2>4, StoreStep DEF MigrationInv, StoreTyped, StartAlone, Starting
  <2>6. pending' = ~store'.initialized
    BY <2>5
  <2> QED
    BY <2>5, <2>6, <2>2, <2>3, <2>4, UiFacts DEF StartAlone, MigrationInv, Starting
<1>6. CASE StartIsOver
  <2>1. UNCHANGED generators
    BY <1>6 DEF StartIsOver
  <2>2. NoGenerators' = NoGenerators
    BY <2>1 DEF NoGenerators
  <2>3. ui.do \in {"migrate", "reconcile"} /\ ui' = Idle
    BY <1>6 DEF StartIsOver
  <2>4. store'.initialized /\ ~pending'
    BY <1>6 DEF StartIsOver, MigrationInv, StateTypes, StoreTyped, StartAlone
  <2>5. store'.initialized = TRUE /\ pending' = FALSE /\ NoGenerators'
    BY <1>6, <2>2, <2>3, <2>4, StoreStep DEF MigrationInv, StoreTyped, StartAlone, Starting
  <2>6. pending' = ~store'.initialized
    BY <2>5
  <2> QED
    BY <2>5, <2>6, <2>2, <2>3, <2>4, UiFacts DEF StartAlone, MigrationInv, Starting
<1>7. ASSUME NEW item \in ui.todo, RestoreSshProjection(item) PROVE StartAlone'
  <2>1. UNCHANGED generators
    BY <1>7 DEF RestoreSshProjection
  <2>2. NoGenerators' = NoGenerators
    BY <2>1 DEF NoGenerators
  <2>3. ui'.do = ui.do
    BY <1>7, TodoShrinks DEF RestoreSshProjection, MigrationInv, StateTypes, UiTyped
  <2>4. store'.initialized = store.initialized /\ ui.do = "project" /\ UNCHANGED <<pending, fresh>>
    BY <1>7 DEF RestoreSshProjection, MigrationInv, StateTypes, StoreTyped
  <2> QED
    BY <2>2, <2>3, <2>4, UiFacts DEF StartAlone, MigrationInv, Starting
<1>8. ASSUME NEW item \in ui.todo, Migrate(item) PROVE StartAlone'
  <2>1. UNCHANGED generators
    BY <1>8 DEF Migrate
  <2>2. NoGenerators' = NoGenerators
    BY <2>1 DEF NoGenerators
  <2>3. ui'.do = ui.do
    BY <1>8, TodoShrinks DEF Migrate, MigrationInv, StateTypes, UiTyped
  <2>4. store'.initialized = store.initialized /\ ui.do = "migrate" /\ UNCHANGED <<pending, fresh>>
    BY <1>8 DEF Migrate, MigrationInv, StateTypes, StoreTyped
  <2> QED
    BY <2>2, <2>3, <2>4, UiFacts DEF StartAlone, MigrationInv, Starting
<1>9. ASSUME NEW item \in ui.todo, ReconcileVerifiedKeys(item) PROVE StartAlone'
  <2>1. UNCHANGED generators
    BY <1>9 DEF ReconcileVerifiedKeys
  <2>2. NoGenerators' = NoGenerators
    BY <2>1 DEF NoGenerators
  <2>3. ui'.do = ui.do
    BY <1>9, TodoShrinks DEF ReconcileVerifiedKeys, MigrationInv, StateTypes, UiTyped
  <2>4. store'.initialized = store.initialized /\ ui.do = "reconcile" /\ UNCHANGED <<pending, fresh>>
    BY <1>9 DEF ReconcileVerifiedKeys, MigrationInv, StateTypes, StoreTyped
  <2> QED
    BY <2>2, <2>3, <2>4, UiFacts DEF StartAlone, MigrationInv, Starting
<1>10. CASE UNCHANGED stateVars
  <2>1. NoGenerators' = NoGenerators
    BY <1>10 DEF stateVars, NoGenerators
  <2> QED
    BY <1>10, <2>1 DEF stateVars, StartAlone, MigrationInv, Idle, Down
<1> QED
  BY <1>0, <1>1, <1>2, <1>3, <1>4, <1>5, <1>6, <1>7, <1>8, <1>9, <1>10 DEF StartOnly


LEMMA LegacyUnchanged ==
  ASSUME LegacyKept, UNCHANGED <<texts, private, public, store, legacy>>
  PROVE  LegacyKept'
BY DEF LegacyKept, Verified, FilePair

LEMMA LegacyStep ==
  ASSUME MigrationInv, [StateNext]_stateVars
  PROVE  LegacyKept'
<1>0. ui.do \in Starting => StartOnly
  BY Starts DEF MigrationInv, RestoreInv
<1>1. CASE ui.do \notin Starting
  <2>1. CommandOnly
    BY <1>1, Commands DEF MigrationInv
  <2>2. store.initialized
    BY <1>1 DEF MigrationInv, StartAlone, Starting
  <2> QED
    BY <2>1, <2>2 DEF CommandOnly, LegacyKept
<1>2. CASE Die
  <2>1. UNCHANGED <<texts, private, public, store, legacy>>
    BY <1>2 DEF Die, files, history
  <2> QED
    BY <2>1, LegacyUnchanged DEF MigrationInv
<1>3. CASE Initialize
  <2>1. UNCHANGED <<texts, private, public, store, legacy>>
    BY <1>3 DEF Initialize, files, history
  <2> QED
    BY <2>1, LegacyUnchanged DEF MigrationInv
<1>4. CASE ListKeys
  <2>1. UNCHANGED <<texts, private, public, store, legacy>>
    BY <1>4 DEF ListKeys, files, history
  <2> QED
    BY <2>1, LegacyUnchanged DEF MigrationInv
<1>5. CASE FinishLegacyMigration
  <2>1. store'.initialized
    BY <1>5 DEF FinishLegacyMigration, MigrationInv, StateTypes, StoreTyped
  <2> QED
    BY <2>1 DEF LegacyKept
<1>6. CASE StartIsOver
  <2>1. UNCHANGED <<texts, private, public, store, legacy>>
    BY <1>6 DEF StartIsOver, files, history
  <2> QED
    BY <2>1, LegacyUnchanged DEF MigrationInv
<1>7. ASSUME NEW item \in ui.todo, RestoreSshProjection(item) PROVE LegacyKept'
  <2>1. CASE store.initialized
    BY <1>7, <2>1 DEF RestoreSshProjection, LegacyKept
  <2>2. CASE ~store.initialized
    <3>1. ui.do = "project" /\ pending
      BY <1>7, <2>2 DEF RestoreSshProjection, MigrationInv, StartAlone, StateTypes, StoreTyped
    <3>2. UNCHANGED <<store, legacy>>
      BY <1>7 DEF RestoreSshProjection, history
    <3>3. CASE item[2] = "text"
      <4>1. item[1] \in TextPaths
        BY <3>1, <3>3, Items DEF MigrationInv
      <4>2. texts[item[1]] = legacy.texts[item[1]] /\ store.texts[item[1]] \in {None, legacy.texts[item[1]]}
        BY <2>2, <4>1 DEF MigrationInv, LegacyKept
      <4>3. texts' = texts
        BY <1>7, <3>1, <3>3, <4>1, <4>2 DEF RestoreSshProjection, MigrationInv, StateTypes, FilesTyped
      <4> QED
        BY <1>7, <3>2, <3>3, <4>3, LegacyUnchanged DEF RestoreSshProjection, MigrationInv
    <3>4. CASE item[2] \in {"private", "public"}
      <4>1. item[1] \in Names
        BY <3>1, <3>4, Items DEF MigrationInv
      <4>2. store.pairs[item[1]] = None \/ store.pairs[item[1]] = FilePair(item[1])
        BY <2>2, <4>1 DEF MigrationInv, LegacyKept
      <4>3. store.pairs[item[1]] # None =>
              store.pairs[item[1]].private = private[item[1]] /\ store.pairs[item[1]].public = public[item[1]]
        BY <4>2 DEF FilePair
      <4>4. UNCHANGED <<texts, private, public>>
        <5>1. CASE item[2] = "private"
          BY <1>7, <5>1, <4>1, <4>3 DEF RestoreSshProjection, MigrationInv, StateTypes, FilesTyped
        <5>2. CASE item[2] = "public"
          BY <1>7, <5>2, <4>1, <4>3 DEF RestoreSshProjection, MigrationInv, StateTypes, FilesTyped
        <5> QED
          BY <3>4, <5>1, <5>2
      <4> QED
        BY <3>2, <4>4, LegacyUnchanged DEF MigrationInv
    <3> QED
      BY <3>1, <3>3, <3>4, Items DEF MigrationInv
  <2> QED
    BY <2>1, <2>2
<1>8. ASSUME NEW item \in ui.todo, Migrate(item) PROVE LegacyKept'
  <2>1. ui.do = "migrate" /\ ~store.initialized /\ UNCHANGED <<texts, private, public, legacy>>
    BY <1>8 DEF Migrate, files, history, MigrationInv, StartAlone
  <2>2. \/ store' = store
        \/ /\ item[1] \in TextPaths
           /\ store' = [store EXCEPT !.texts[item[1]] = legacy.texts[item[1]]]
        \/ /\ item[1] \in Names
           /\ store' = [store EXCEPT !.pairs[item[1]] = legacy.pairs[item[1]]]
    <3>1. CASE item[2] = "text"
      BY <1>8, <2>1, <3>1, Items DEF Migrate, MigrationInv, LegacyKept
    <3>2. CASE item[2] = "pair"
      <4>1. item[1] \in Names /\ Verified(item[1])
        BY <2>1, <3>2, Items DEF MigrationInv
      <4>2. legacy.pairs[item[1]] = FilePair(item[1])
        BY <2>1, <4>1 DEF MigrationInv, LegacyKept, Verified
      <4> QED
        BY <1>8, <3>2, <4>1, <4>2 DEF Migrate
    <3> QED
      BY <2>1, <3>1, <3>2, Items DEF MigrationInv
  <2>3. /\ \A p \in TextPaths : store'.texts[p] \in {store.texts[p], legacy.texts[p]}
        /\ \A n \in Names : store'.pairs[n] \in {store.pairs[n], legacy.pairs[n]}
    BY <2>2 DEF MigrationInv, StateTypes, StoreTyped
  <2> QED
    BY <2>1, <2>3 DEF MigrationInv, LegacyKept, Verified, FilePair
<1>9. ASSUME NEW item \in ui.todo, ReconcileVerifiedKeys(item) PROVE LegacyKept'
  <2>1. store'.initialized
    BY <1>9 DEF ReconcileVerifiedKeys, MigrationInv, StartAlone, StateTypes, StoreTyped
  <2> QED
    BY <2>1 DEF LegacyKept
<1>10. CASE UNCHANGED stateVars
  <2>1. UNCHANGED <<texts, private, public, store, legacy>>
    BY <1>10 DEF stateVars, stateVars
  <2> QED
    BY <2>1, LegacyUnchanged DEF MigrationInv
<1> QED
  BY <1>0, <1>1, <1>2, <1>3, <1>4, <1>5, <1>6, <1>7, <1>8, <1>9, <1>10 DEF StartOnly

LEMMA MigrationGoesOnStep ==
  ASSUME MigrationInv, [StateNext]_stateVars
  PROVE  MigrationGoesOn'
<1>0. ui.do \in Starting => StartOnly
  BY Starts DEF MigrationInv, RestoreInv
<1>1. CASE ui.do \notin Starting
  <2>1. CommandOnly
    BY <1>1, Commands DEF MigrationInv
  <2>2. ui'.do # "migrate"
    BY <2>1, UiFacts DEF CommandOnly, Starting
  <2> QED
    BY <2>2 DEF MigrationGoesOn
<1>2. CASE Die
  <2>1. ui'.do # "migrate"
    BY <1>2, UiFacts DEF Die, MigrationInv, StateTypes, UiTyped, GoodUi, UiRecords
  <2> QED
    BY <2>1 DEF MigrationGoesOn
<1>3. CASE Initialize
  <2>1. ui'.do # "migrate"
    BY <1>3, UiFacts DEF Initialize, MigrationInv, StateTypes, UiTyped, GoodUi, UiRecords
  <2> QED
    BY <2>1 DEF MigrationGoesOn
<1>4. CASE ListKeys
  <2>1. CASE store.initialized
    <3>1. ui'.do # "migrate"
      BY <1>4, <2>1 DEF ListKeys, MigrationInv, StartAlone, StateTypes, StoreTyped, UiTyped, GoodUi, UiRecords
    <3> QED
      BY <3>1 DEF MigrationGoesOn
  <2>2. CASE ~store.initialized
    <3>1. PICK listed \in SUBSET VerifiedNames :
            /\ ui'.todo = (TextPaths \X {"text"}) \cup (listed \X {"pair"})
            /\ overlooked' = overlooked \cup ((VerifiedNames \ listed) \X {"pair"})
      BY <1>4, <2>2 DEF ListKeys, MigrationInv, StartAlone, StateTypes, StoreTyped, UiTyped, GoodUi, UiRecords
    <3>2. UNCHANGED <<store, legacy>>
      BY <1>4 DEF ListKeys, history
    <3>3. ASSUME NEW n \in Names, <<n, "pair">> \notin ui'.todo
          PROVE  store.pairs[n] = legacy.pairs[n] \/ PairOverlooked(n)'
      <4>1. ~Verified(n) \/ <<n, "pair">> \in overlooked'
        BY <3>1, <3>3 DEF VerifiedNames
      <4>2. store.pairs[n] \in {None, legacy.pairs[n]} /\ (~Verified(n) => legacy.pairs[n] = None)
        BY <2>2 DEF MigrationInv, LegacyKept
      <4> QED
        BY <3>2, <4>1, <4>2 DEF PairOverlooked
    <3>4. ASSUME NEW p \in TextPaths PROVE <<p, "text">> \in ui'.todo
      BY <3>1
    <3> QED
      BY <3>2, <3>3, <3>4 DEF MigrationGoesOn
  <2> QED
    BY <2>1, <2>2
<1>5. CASE FinishLegacyMigration
  <2>1. ui'.do # "migrate"
    BY <1>5, UiFacts DEF FinishLegacyMigration, MigrationInv, StateTypes, UiTyped, GoodUi, UiRecords
  <2> QED
    BY <2>1 DEF MigrationGoesOn
<1>6. CASE StartIsOver
  <2>1. ui'.do # "migrate"
    BY <1>6, UiFacts DEF StartIsOver, MigrationInv, StateTypes, UiTyped, GoodUi, UiRecords
  <2> QED
    BY <2>1 DEF MigrationGoesOn
<1>7. ASSUME NEW item \in ui.todo, RestoreSshProjection(item) PROVE MigrationGoesOn'
  <2>1. ui'.do = ui.do /\ ui.do # "migrate"
    BY <1>7, TodoShrinks DEF RestoreSshProjection, MigrationInv, StateTypes, UiTyped
  <2> QED
    BY <2>1 DEF MigrationGoesOn
<1>8. ASSUME NEW item \in ui.todo, Migrate(item) PROVE MigrationGoesOn'
  <2>1. ui.do = "migrate" /\ ~store.initialized /\ UNCHANGED <<texts, private, public, legacy>>
    BY <1>8 DEF Migrate, files, history, MigrationInv, StartAlone
  <2>2. ui'.todo = ui.todo \ {item}
    BY <1>8, TodoShrinks DEF Migrate, MigrationInv, StateTypes, UiTyped
  <2>3. CASE item[2] = "text"
    <3>1. item[1] \in TextPaths /\ item = <<item[1], "text">>
      BY <2>1, <2>3, Items DEF MigrationInv
    <3>2. texts[item[1]] = legacy.texts[item[1]] /\ store.texts[item[1]] \in {None, legacy.texts[item[1]]}
      BY <2>1, <3>1 DEF MigrationInv, LegacyKept
    <3>3. /\ store'.pairs = store.pairs /\ overlooked \subseteq overlooked'
          /\ \A p \in TextPaths : p # item[1] => store'.texts[p] = store.texts[p]
          /\ store'.texts[item[1]] = legacy.texts[item[1]] \/ TextOverlooked(item[1])'
      <4>1. CASE UNCHANGED store
        <5>1. overlooked' = overlooked \cup {item} \/ (overlooked' = overlooked /\ texts[item[1]] = None)
              \/ store.texts[item[1]] = texts[item[1]]
          BY <1>8, <2>3, <3>1, <3>2, <4>1 DEF Migrate, MigrationInv, StateTypes, StoreTyped
        <5>2. overlooked \subseteq overlooked'
          BY <1>8 DEF Migrate
        <5> QED
          BY <3>1, <3>2, <4>1, <5>1, <5>2 DEF TextOverlooked
      <4>2. CASE store' = [store EXCEPT !.texts[item[1]] = texts[item[1]]] /\ overlooked' = overlooked
        BY <2>3, <3>1, <3>2, <4>2 DEF MigrationInv, StateTypes, StoreTyped
      <4> QED
        BY <1>8, <2>3, <4>1, <4>2 DEF Migrate
    <3>4. ASSUME NEW p \in TextPaths, p # item[1], <<p, "text">> \notin ui'.todo
          PROVE  <<p, "text">> \notin ui.todo
      BY <2>2, <3>1, <3>4
    <3>5. ASSUME NEW n \in Names, <<n, "pair">> \notin ui'.todo PROVE <<n, "pair">> \notin ui.todo
      BY <2>2, <3>1, <3>5
    <3>6. ASSUME NEW p \in TextPaths, <<p, "text">> \notin ui'.todo
          PROVE  (store.texts[p] = legacy.texts[p] \/ TextOverlooked(p))'
      <4>1. CASE p = item[1]
        BY <2>1, <3>3, <4>1
      <4>2. CASE p # item[1]
        BY <2>1, <3>3, <3>4, <3>6, <4>2 DEF MigrationInv, MigrationGoesOn, TextOverlooked
      <4> QED
        BY <4>1, <4>2
    <3>7. ASSUME NEW n \in Names, <<n, "pair">> \notin ui'.todo
          PROVE  (store.pairs[n] = legacy.pairs[n] \/ PairOverlooked(n))'
      BY <2>1, <3>3, <3>5, <3>7 DEF MigrationInv, MigrationGoesOn, PairOverlooked
    <3> QED
      BY <3>6, <3>7 DEF MigrationGoesOn
  <2>4. CASE item[2] = "pair"
    <3>1. item[1] \in Names /\ Verified(item[1]) /\ item = <<item[1], "pair">>
      BY <2>1, <2>4, Items DEF MigrationInv
    <3>2. legacy.pairs[item[1]] = FilePair(item[1])
      BY <2>1, <3>1 DEF MigrationInv, LegacyKept, Verified
    <3>3. /\ store'.texts = store.texts /\ overlooked' = overlooked
          /\ \A n \in Names :
               store'.pairs[n] = IF n = item[1] THEN legacy.pairs[n] ELSE store.pairs[n]
      BY <1>8, <2>4, <3>1, <3>2 DEF Migrate, MigrationInv, StateTypes, StoreTyped
    <3>4. ASSUME NEW n \in Names, n # item[1], <<n, "pair">> \notin ui'.todo
          PROVE  <<n, "pair">> \notin ui.todo
      BY <2>2, <3>1, <3>4
    <3>5. ASSUME NEW p \in TextPaths, <<p, "text">> \notin ui'.todo PROVE <<p, "text">> \notin ui.todo
      BY <2>2, <3>1, <3>5
    <3> QED
      BY <2>1, <3>3, <3>4, <3>5
         DEF MigrationInv, MigrationGoesOn, TextOverlooked, PairOverlooked
  <2> QED
    BY <2>1, <2>3, <2>4, Items DEF MigrationInv
<1>9. ASSUME NEW item \in ui.todo, ReconcileVerifiedKeys(item) PROVE MigrationGoesOn'
  <2>1. ui'.do = ui.do /\ ui.do # "migrate"
    BY <1>9, TodoShrinks DEF ReconcileVerifiedKeys, MigrationInv, StateTypes, UiTyped
  <2> QED
    BY <2>1 DEF MigrationGoesOn
<1>10. CASE UNCHANGED stateVars
  BY <1>10 DEF stateVars, MigrationInv, MigrationGoesOn, TextOverlooked, PairOverlooked
<1> QED
  BY <1>0, <1>1, <1>2, <1>3, <1>4, <1>5, <1>6, <1>7, <1>8, <1>9, <1>10 DEF StartOnly


LEMMA MigrationStep ==
  ASSUME MigrationInv, [StateNext]_stateVars
  PROVE  MigrationInv'
BY TodoStep, TypesStep, StartAloneStep, LegacyStep, MigrationGoesOnStep DEF MigrationInv

LEMMA MigrationStart ==
  ASSUME StateInit
  PROVE  MigrationInv
<1>1. PICK old \in [Names -> PrivateKeys \cup {None}] :
        /\ \A n \in Names : old[n] # None => old[n].key \in Sources
        /\ private = old
        /\ public = [n \in Names |-> IF old[n] = None THEN None ELSE old[n].key]
  BY DEF StateInit
<1>2. FilesTyped
  BY <1>1 DEF StateInit, FilesTyped, Texts, Keys
<1>3. StoreTyped
  <2>1. [p \in TextPaths |-> None] \in [TextPaths -> Texts]
    BY TextFacts
  <2>2. [n \in Names |-> None] \in [Names -> Pairs \cup {None}]
    OBVIOUS
  <2> QED
    BY <2>1, <2>2 DEF StateInit, StoreTyped
<1>4. UiTyped /\ TodoTyped
  BY UiFacts DEF StateInit, UiTyped, TodoTyped
<1>5. GeneratorsTyped
  BY DEF StateInit, GeneratorsTyped, NoGeneration, Stages
<1>6. \A n \in Names : IF private[n] = None THEN public[n] = None ELSE Verified(n)
  <2>1. ASSUME NEW n \in Names, private[n] # None PROVE Verified(n)
    <3>1. public[n] = private[n].key /\ private[n].key \in Sources
      BY <1>1, <2>1
    <3> QED
      BY <2>1, <3>1, StateAssumption DEF Verified
  <2> QED
    BY <1>1, <2>1
<1>7. legacy = [texts |-> texts,
                pairs |-> [n \in Names |-> IF private[n] = None THEN None ELSE FilePair(n)]]
  BY DEF StateInit
<1>8. \A n \in Names : private[n] # None => FilePair(n) \in Pairs
  <2>1. ASSUME NEW n \in Names, private[n] # None PROVE FilePair(n) \in Pairs
    <3>1. private[n] \in PrivateKeys /\ public[n] \in Keys
      BY <1>2, <1>6, <2>1 DEF FilesTyped, Verified
    <3> QED
      BY <3>1 DEF FilePair, Pairs
  <2> QED
    BY <2>1
<1>9. HistoryTyped
  <2>1. legacy \in [texts : [TextPaths -> Texts], pairs : [Names -> Pairs \cup {None}]]
    BY <1>2, <1>7, <1>8 DEF FilesTyped
  <2> QED
    BY <2>1 DEF StateInit, HistoryTyped
<1>10. StartAlone
  <2>1. ~store.initialized /\ ui = Down /\ fresh = FALSE
    BY DEF StateInit
  <2>2. NoGenerators
    BY DEF StateInit, NoGenerators
  <2> QED
    BY <2>1, <2>2, UiFacts DEF StartAlone, Starting
<1>11. LegacyKept
  <2>1. legacy.texts = texts
    BY <1>7
  <2>2. \A n \in Names : legacy.pairs[n] = IF private[n] = None THEN None ELSE FilePair(n)
    BY <1>7
  <2>3. /\ \A p \in TextPaths : store.texts[p] = None
        /\ \A n \in Names : store.pairs[n] = None
    BY DEF StateInit
  <2> QED
    BY <1>6, <2>1, <2>2, <2>3 DEF LegacyKept
<1>12. MigrationGoesOn
  BY UiFacts DEF StateInit, MigrationGoesOn
<1>13. OverlookedTyped
  BY DEF StateInit, OverlookedTyped
<1> QED
  BY <1>2, <1>3, <1>4, <1>5, <1>9, <1>10, <1>11, <1>12, <1>13 DEF MigrationInv, StateTypes

AllMigrated(new) ==
  /\ \A p \in TextPaths :
       new.texts[p] = legacy.texts[p] \/ (new.texts[p] = None /\ <<p, "text">> \in overlooked)
  /\ \A n \in Names :
       new.pairs[n] = legacy.pairs[n] \/ (new.pairs[n] = None /\ <<n, "pair">> \in overlooked)

\* The mark is set by FinishLegacyMigration only.
LEMMA MarkSet ==
  ASSUME MigrationInv, [StateNext]_stateVars
  PROVE  [(~store.initialized /\ store'.initialized) => AllMigrated(store')]_stateVars
<1> SUFFICES ASSUME ~store.initialized, store'.initialized
             PROVE  AllMigrated(store')
  OBVIOUS
<1>1. ui.do \in Starting
  BY DEF MigrationInv, StartAlone, Starting
<1>2. StartOnly
  BY <1>1, Starts DEF MigrationInv
<1>3. CASE FinishLegacyMigration
  <2>1. ui.do = "migrate" /\ ui.todo = {}
    BY <1>3 DEF FinishLegacyMigration
  <2>2. /\ \A p \in TextPaths : store.texts[p] = legacy.texts[p] \/ TextOverlooked(p)
        /\ \A n \in Names : store.pairs[n] = legacy.pairs[n] \/ PairOverlooked(n)
    BY <2>1 DEF MigrationInv, MigrationGoesOn
  <2>3. store'.texts = store.texts /\ store'.pairs = store.pairs
    BY <1>3 DEF FinishLegacyMigration, MigrationInv, StateTypes, StoreTyped
  <2> QED
    BY <2>2, <2>3 DEF AllMigrated, TextOverlooked, PairOverlooked
<1>4. CASE ~FinishLegacyMigration
  <2>1. store'.initialized = store.initialized
    BY <1>2, <1>4 DEF StartOnly, Die, Initialize, ListKeys, StartIsOver, stateVars,
       RestoreSshProjection, Migrate, ReconcileVerifiedKeys, MigrationInv, StateTypes, StoreTyped
  <2> QED
    BY <2>1
<1> QED
  BY <1>3, <1>4

(* Every variable of the durable state has its type. *)
THEOREM StateTypesHold == StateSpec => []StateTypeOK
<1>1. StateInit => MigrationInv
  BY MigrationStart
<1>2. MigrationInv /\ [StateNext]_stateVars => MigrationInv'
  BY MigrationStep
<1>3. MigrationInv => StateTypeOK
  <2> SUFFICES ASSUME MigrationInv PROVE StateTypeOK
    OBVIOUS
  <2>1. FilesTyped /\ StoreTyped /\ GeneratorsTyped /\ OverlookedTyped /\ ui.todo \in Todos
    BY DEF MigrationInv, StateTypes, UiTyped, GoodUi, UiRecords
  <2>2. ui.todo \subseteq (TextPaths \cup Names) \X {"text", "private", "public", "pair"}
    BY <2>1 DEF Todos, Kinds
  <2> QED
    BY <2>1, <2>2 DEF StateTypeOK, FilesTyped, StoreTyped, GeneratorsTyped, OverlookedTyped, Texts, Stages
<1> QED
  BY <1>1, <1>2, <1>3, PTL DEF StateSpec

(* In every instance, and however many starts it takes, the mark of the migration is set when the *)
(* store has every text and every key pair of the old version, but for those that an error which  *)
(* FileUtils tells nobody of hid from the very start that sets it (finishLegacyMigration).        *)
THEOREM NothingOldIsLost == StateSpec => MigrationKeepsAll
<1>1. StateInit => MigrationInv
  BY MigrationStart
<1>2. MigrationInv /\ [StateNext]_stateVars => MigrationInv'
  BY MigrationStep
<1>3. MigrationInv /\ [StateNext]_stateVars =>
        [(~store.initialized /\ store'.initialized) =>
           /\ \A p \in TextPaths :
                \/ store'.texts[p] = legacy.texts[p]
                \/ store'.texts[p] = None /\ <<p, "text">> \in overlooked
           /\ \A n \in Names :
                \/ store'.pairs[n] = legacy.pairs[n]
                \/ store'.pairs[n] = None /\ <<n, "pair">> \in overlooked]_stateVars
  BY MarkSet DEF AllMigrated
<1> QED
  BY <1>1, <1>2, <1>3, PTL DEF StateSpec, MigrationKeepsAll


-----------------------------------------------------------------------------
(* What a start restores.                                                  *)

\* What a start finds done when everything is done.
LEMMA TextsRestored ==
  ASSUME Projected, ui.do = "project", ui.todo = {}, store.initialized
  PROVE  \A p \in TextPaths : texts[p] = store.texts[p] \/ TextOverlooked(p)
BY DEF Projected

LEMMA PairIsFiles ==
  ASSUME StateTypes, NEW n \in Names, store.pairs[n] # None, private[n] = store.pairs[n].private,
         public[n] = store.pairs[n].public
  PROVE  FilePair(n) = store.pairs[n]
BY DEF StateTypes, StoreTyped, Pairs, FilePair

FullInv == MigrationInv /\ RestoreInv

LEMMA ProjectedStep ==
  ASSUME FullInv, [StateNext]_stateVars
  PROVE  Projected'
<1>0. ui.do \in Starting => StartOnly
  BY Starts DEF FullInv, MigrationInv
<1>1. CASE ui.do \notin Starting
  <2>1. CommandOnly
    BY <1>1, Commands DEF FullInv, MigrationInv
  <2>2. ui'.do # "project"
    BY <2>1, UiFacts DEF CommandOnly, Starting
  <2> QED
    BY <2>2 DEF Projected
<1>2. CASE Die
  <2>1. ui'.do # "project"
    BY <1>2, UiFacts DEF Die, FullInv, MigrationInv, StateTypes, UiTyped, GoodUi, UiRecords
  <2> QED
    BY <2>1 DEF Projected
<1>3. CASE Initialize
  <2>1. ui'.todo = (TextPaths \X {"text"}) \cup (Names \X {"private", "public"})
    BY <1>3 DEF Initialize, FullInv, MigrationInv, StateTypes, UiTyped, GoodUi, UiRecords
  <2>2. \A p \in TextPaths : <<p, "text">> \in ui'.todo
    BY <2>1
  <2>3. \A n \in Names : <<n, "private">> \in ui'.todo /\ <<n, "public">> \in ui'.todo
    BY <2>1
  <2> QED
    BY <2>2, <2>3 DEF Projected
<1>4. CASE ListKeys
  <2>1. ui'.do # "project"
    BY <1>4, UiFacts DEF ListKeys, FullInv, MigrationInv, StateTypes, UiTyped, GoodUi, UiRecords
  <2> QED
    BY <2>1 DEF Projected
<1>5. CASE FinishLegacyMigration
  <2>1. ui'.do # "project"
    BY <1>5, UiFacts DEF FinishLegacyMigration, FullInv, MigrationInv, StateTypes, UiTyped, GoodUi, UiRecords
  <2> QED
    BY <2>1 DEF Projected
<1>6. CASE StartIsOver
  <2>1. ui'.do # "project"
    BY <1>6, UiFacts DEF StartIsOver, FullInv, MigrationInv, StateTypes, UiTyped, GoodUi, UiRecords
  <2> QED
    BY <2>1 DEF Projected
<1>7. ASSUME NEW item \in ui.todo, RestoreSshProjection(item) PROVE Projected'
  <2>1. ui.do = "project" /\ store' = store
    BY <1>7 DEF RestoreSshProjection
  <2>2. ui'.todo = ui.todo \ {item}
    BY <1>7, TodoShrinks DEF RestoreSshProjection, FullInv, MigrationInv, StateTypes, UiTyped
  <2>3. pending = ~store.initialized
    BY <2>1 DEF FullInv, MigrationInv, StartAlone
  <2>4. /\ \A p \in TextPaths : p # item[1] \/ item[2] # "text" => texts'[p] = texts[p]
        /\ \A n \in Names : n # item[1] \/ item[2] # "private" => private'[n] = private[n]
        /\ \A n \in Names : n # item[1] \/ item[2] # "public" => public'[n] = public[n]
    <3>1. CASE item[2] = "text"
      BY <1>7, <3>1 DEF RestoreSshProjection, FullInv, MigrationInv, StateTypes, FilesTyped
    <3>2. CASE item[2] = "private"
      BY <1>7, <3>2 DEF RestoreSshProjection, FullInv, MigrationInv, StateTypes, FilesTyped
    <3>3. CASE item[2] = "public"
      BY <1>7, <3>3 DEF RestoreSshProjection, FullInv, MigrationInv, StateTypes, FilesTyped
    <3> QED
      BY <2>1, <3>1, <3>2, <3>3, Items DEF FullInv, MigrationInv
  <2>8. overlooked \subseteq overlooked'
    BY <1>7, <2>1, Items DEF RestoreSshProjection, FullInv, MigrationInv
  <2>5. ASSUME NEW p \in TextPaths, <<p, "text">> \notin ui'.todo
        PROVE  texts'[p] = store.texts[p] \/ ~store.initialized \/ TextOverlooked(p)'
    <3>1. CASE item = <<p, "text">>
      <4>1. item[1] = p /\ item[2] = "text"
        BY <3>1
      <4> QED
        BY <1>7, <2>1, <2>3, <3>1, <4>1
           DEF RestoreSshProjection, FullInv, MigrationInv, StateTypes, FilesTyped, TextOverlooked
    <3>2. CASE item # <<p, "text">>
      <4>1. <<p, "text">> \notin ui.todo
        BY <2>2, <2>5, <3>2
      <4>2. p # item[1] \/ item[2] # "text"
        BY <2>1, <3>2, Items DEF FullInv, MigrationInv
      <4> QED
        BY <2>1, <2>4, <2>8, <4>1, <4>2 DEF FullInv, RestoreInv, Projected, TextOverlooked
    <3> QED
      BY <3>1, <3>2
  <2>6. ASSUME NEW n \in Names, store.pairs[n] # None, <<n, "private">> \notin ui'.todo
        PROVE  private'[n] = store.pairs[n].private
    <3>1. CASE item = <<n, "private">>
      <4>1. item[1] = n /\ item[2] = "private"
        BY <3>1
      <4> QED
        BY <1>7, <2>6, <4>1 DEF RestoreSshProjection, FullInv, MigrationInv, StateTypes, FilesTyped
    <3>2. CASE item # <<n, "private">>
      <4>1. <<n, "private">> \notin ui.todo
        BY <2>2, <2>6, <3>2
      <4>2. n # item[1] \/ item[2] # "private"
        BY <2>1, <3>2, Items DEF FullInv, MigrationInv
      <4> QED
        BY <2>1, <2>4, <2>6, <4>1, <4>2 DEF FullInv, RestoreInv, Projected
    <3> QED
      BY <3>1, <3>2
  <2>7. ASSUME NEW n \in Names, store.pairs[n] # None, <<n, "public">> \notin ui'.todo
        PROVE  public'[n] = store.pairs[n].public
    <3>1. CASE item = <<n, "public">>
      <4>1. item[1] = n /\ item[2] = "public"
        BY <3>1
      <4> QED
        BY <1>7, <2>7, <4>1 DEF RestoreSshProjection, FullInv, MigrationInv, StateTypes, FilesTyped
    <3>2. CASE item # <<n, "public">>
      <4>1. <<n, "public">> \notin ui.todo
        BY <2>2, <2>7, <3>2
      <4>2. n # item[1] \/ item[2] # "public"
        BY <2>1, <3>2, Items DEF FullInv, MigrationInv
      <4> QED
        BY <2>1, <2>4, <2>7, <4>1, <4>2 DEF FullInv, RestoreInv, Projected
    <3> QED
      BY <3>1, <3>2
  <2> QED
    BY <2>1, <2>5, <2>6, <2>7 DEF Projected
<1>8. ASSUME NEW item \in ui.todo, Migrate(item) PROVE Projected'
  <2>1. ui'.do = ui.do /\ ui.do # "project"
    BY <1>8, TodoShrinks DEF Migrate, FullInv, MigrationInv, StateTypes, UiTyped
  <2> QED
    BY <2>1 DEF Projected
<1>9. ASSUME NEW item \in ui.todo, ReconcileVerifiedKeys(item) PROVE Projected'
  <2>1. ui'.do = ui.do /\ ui.do # "project"
    BY <1>9, TodoShrinks DEF ReconcileVerifiedKeys, FullInv, MigrationInv, StateTypes, UiTyped
  <2> QED
    BY <2>1 DEF Projected
<1>10. CASE UNCHANGED stateVars
  BY <1>10 DEF stateVars, FullInv, RestoreInv, Projected, TextOverlooked
<1> QED
  BY <1>0, <1>1, <1>2, <1>3, <1>4, <1>5, <1>6, <1>7, <1>8, <1>9, <1>10 DEF StartOnly

LEMMA ReconcilingStep ==
  ASSUME FullInv, [StateNext]_stateVars
  PROVE  Reconciling'
<1>0. ui.do \in Starting => StartOnly
  BY Starts DEF FullInv, MigrationInv
<1>1. CASE ui.do \notin Starting
  <2>1. CommandOnly
    BY <1>1, Commands DEF FullInv, MigrationInv
  <2>2. ui'.do # "reconcile"
    BY <2>1, UiFacts DEF CommandOnly, Starting
  <2> QED
    BY <2>2 DEF Reconciling
<1>2. CASE Die
  <2>1. ui'.do # "reconcile"
    BY <1>2, UiFacts DEF Die, FullInv, MigrationInv, StateTypes, UiTyped, GoodUi, UiRecords
  <2> QED
    BY <2>1 DEF Reconciling
<1>3. CASE Initialize
  <2>1. ui'.do # "reconcile"
    BY <1>3, UiFacts DEF Initialize, FullInv, MigrationInv, StateTypes, UiTyped, GoodUi, UiRecords
  <2> QED
    BY <2>1 DEF Reconciling
<1>4. CASE ListKeys
  <2>1. CASE ~store.initialized
    <3>1. ui'.do # "reconcile"
      BY <1>4, <2>1 DEF ListKeys, FullInv, MigrationInv, StartAlone, StateTypes, StoreTyped, UiTyped, GoodUi, UiRecords
    <3> QED
      BY <3>1 DEF Reconciling
  <2>2. CASE store.initialized
    <3>1. PICK listed \in SUBSET VerifiedNames :
            /\ ui'.todo = listed \X {"private", "public"}
            /\ overlooked' = overlooked \cup ((VerifiedNames \ listed) \X {"pair"})
      BY <1>4, <2>2 DEF ListKeys, FullInv, MigrationInv, StartAlone, StateTypes, StoreTyped, UiTyped, GoodUi, UiRecords
    <3>2. UNCHANGED <<texts, private, public, store>> /\ ui.do = "project" /\ ui.todo = {}
      BY <1>4 DEF ListKeys, files
    <3>3. \A p \in TextPaths : texts[p] = store.texts[p] \/ TextOverlooked(p)'
      BY <2>2, <3>1, <3>2, TextsRestored DEF FullInv, MigrationInv, RestoreInv, TextOverlooked
    <3>4. ASSUME NEW n \in Names, store.pairs[n] # None PROVE FilePair(n) = store.pairs[n]
      BY <3>2, <3>4, PairIsFiles DEF FullInv, MigrationInv, RestoreInv, Projected
    <3>5. ASSUME NEW n \in Names, Verified(n), store.pairs[n] = None
          PROVE  {<<n, "private">>, <<n, "public">>} \subseteq ui'.todo \/ PairOverlooked(n)'
      BY <3>1, <3>2, <3>5 DEF VerifiedNames, PairOverlooked
    <3> QED
      BY <3>2, <3>3, <3>4, <3>5 DEF Reconciling, Verified, FilePair
  <2> QED
    BY <2>1, <2>2
<1>5. CASE FinishLegacyMigration
  <2>1. ui'.do # "reconcile"
    BY <1>5, UiFacts DEF FinishLegacyMigration, FullInv, MigrationInv, StateTypes, UiTyped, GoodUi, UiRecords
  <2> QED
    BY <2>1 DEF Reconciling
<1>6. CASE StartIsOver
  <2>1. ui'.do # "reconcile"
    BY <1>6, UiFacts DEF StartIsOver, FullInv, MigrationInv, StateTypes, UiTyped, GoodUi, UiRecords
  <2> QED
    BY <2>1 DEF Reconciling
<1>7. ASSUME NEW item \in ui.todo, RestoreSshProjection(item) PROVE Reconciling'
  <2>1. ui'.do = ui.do /\ ui.do # "reconcile"
    BY <1>7, TodoShrinks DEF RestoreSshProjection, FullInv, MigrationInv, StateTypes, UiTyped
  <2> QED
    BY <2>1 DEF Reconciling
<1>8. ASSUME NEW item \in ui.todo, Migrate(item) PROVE Reconciling'
  <2>1. ui'.do = ui.do /\ ui.do # "reconcile"
    BY <1>8, TodoShrinks DEF Migrate, FullInv, MigrationInv, StateTypes, UiTyped
  <2> QED
    BY <2>1 DEF Reconciling
<1>9. ASSUME NEW item \in ui.todo, ReconcileVerifiedKeys(item) PROVE Reconciling'
  <2>1. ui.do = "reconcile" /\ UNCHANGED <<texts, store>>
    BY <1>9 DEF ReconcileVerifiedKeys
  <2>2. ui'.todo = ui.todo \ {item}
    BY <1>9, TodoShrinks DEF ReconcileVerifiedKeys, FullInv, MigrationInv, StateTypes, UiTyped
  <2>3. item[1] \in Names /\ (item = <<item[1], "private">> \/ item = <<item[1], "public">>)
    BY <2>1, Items DEF FullInv, MigrationInv
  <2>4. \A n \in Names : n # item[1] \/ store.pairs[n] # None =>
          private'[n] = private[n] /\ public'[n] = public[n]
    BY <1>9 DEF ReconcileVerifiedKeys, FullInv, MigrationInv, StateTypes, FilesTyped
  <2>5. store.pairs[item[1]] = None =>
          private'[item[1]] = None \/ public'[item[1]] = None \/ PairOverlooked(item[1])'
    <3>1. CASE overlooked' = overlooked \cup {<<item[1], "pair">>}
      BY <2>1, <3>1 DEF PairOverlooked
    <3>2. CASE /\ private' = [private EXCEPT ![item[1]] =
                    IF store.pairs[item[1]] # None \/ item[2] = "public" THEN @ ELSE None]
               /\ public' = [public EXCEPT ![item[1]] =
                    IF store.pairs[item[1]] # None \/ item[2] = "private" THEN @ ELSE None]
      BY <2>3, <3>2 DEF FullInv, MigrationInv, StateTypes, FilesTyped
    <3> QED
      BY <1>9, <3>1, <3>2 DEF ReconcileVerifiedKeys
  <2>9. overlooked \subseteq overlooked'
    BY <1>9 DEF ReconcileVerifiedKeys
  <2>6. ASSUME NEW n \in Names, store.pairs[n] = None, Verified(n)'
        PROVE  {<<n, "private">>, <<n, "public">>} \subseteq ui'.todo \/ PairOverlooked(n)'
    <3> SUFFICES ASSUME ~PairOverlooked(n)'
                 PROVE  {<<n, "private">>, <<n, "public">>} \subseteq ui'.todo
      OBVIOUS
    <3>1. n # item[1]
      BY <2>5, <2>6 DEF Verified
    <3>2. Verified(n)
      BY <2>4, <2>6, <3>1 DEF Verified
    <3>3. {<<n, "private">>, <<n, "public">>} \subseteq ui.todo
      BY <2>1, <2>6, <2>9, <3>2 DEF FullInv, RestoreInv, Reconciling, PairOverlooked
    <3> QED
      BY <2>2, <2>3, <3>1, <3>3
  <2>7. ASSUME NEW n \in Names, store.pairs[n] # None PROVE FilePair(n)' = store.pairs[n]
    <3>1. FilePair(n) = store.pairs[n]
      BY <2>1, <2>7 DEF FullInv, RestoreInv, Reconciling
    <3> QED
      BY <2>4, <2>7, <3>1 DEF FilePair
  <2>8. \A p \in TextPaths : (texts[p] = store.texts[p] \/ TextOverlooked(p))'
    BY <2>1, <2>9 DEF FullInv, RestoreInv, Reconciling, TextOverlooked
  <2> QED
    BY <2>1, <2>6, <2>7, <2>8 DEF Reconciling
<1>10. CASE UNCHANGED stateVars
  BY <1>10
     DEF stateVars, FullInv, RestoreInv, Reconciling, Verified, FilePair, TextOverlooked, PairOverlooked
<1> QED
  BY <1>0, <1>1, <1>2, <1>3, <1>4, <1>5, <1>6, <1>7, <1>8, <1>9, <1>10 DEF StartOnly

LEMMA RestoredStep ==
  ASSUME FullInv, [StateNext]_stateVars
  PROVE  StartRestoresState'
<1>0. ui.do \in Starting => StartOnly
  BY Starts DEF FullInv, MigrationInv
<1>1. CASE ui.do \notin Starting
  <2>1. fresh' => fresh /\ UNCHANGED <<texts, private, public, store, overlooked>>
    BY <1>1, Commands DEF CommandOnly, files, FullInv, MigrationInv
  <2> QED
    BY <2>1 DEF FullInv, RestoreInv, StartRestoresState, Verified, FilePair
<1>2. CASE Die
  <2>1. ~fresh'
    BY <1>2 DEF Die
  <2> QED
    BY <2>1 DEF StartRestoresState
<1>3. CASE Initialize
  <2>1. ~fresh /\ fresh' = fresh
    BY <1>3, UiFacts DEF Initialize, FullInv, MigrationInv, StartAlone
  <2> QED
    BY <2>1 DEF StartRestoresState
<1>4. CASE ListKeys
  <2>1. ~fresh /\ fresh' = fresh
    BY <1>4, UiFacts DEF ListKeys, FullInv, MigrationInv, StartAlone
  <2> QED
    BY <2>1 DEF StartRestoresState
<1>5. CASE FinishLegacyMigration
  <2>1. ui.do = "migrate" /\ ui.todo = {} /\ UNCHANGED <<texts, private, public, overlooked>>
    BY <1>5 DEF FinishLegacyMigration, files
  <2>2. store'.texts = store.texts /\ store'.pairs = store.pairs
    BY <1>5 DEF FinishLegacyMigration, FullInv, MigrationInv, StateTypes, StoreTyped
  <2>3. /\ \A p \in TextPaths : store.texts[p] = legacy.texts[p] \/ TextOverlooked(p)
        /\ \A n \in Names : store.pairs[n] = legacy.pairs[n] \/ PairOverlooked(n)
    BY <2>1 DEF FullInv, MigrationInv, MigrationGoesOn
  <2>4. ~store.initialized
    BY <2>1 DEF FullInv, MigrationInv, StartAlone
  <2>5. ASSUME NEW p \in TextPaths
        PROVE  texts[p] = store.texts[p] \/ TextOverlooked(p)
    BY <2>3, <2>4 DEF FullInv, MigrationInv, LegacyKept
  <2>6. ASSUME NEW n \in Names
        PROVE  IF store.pairs[n] = None THEN Verified(n) => PairOverlooked(n)
                                        ELSE FilePair(n) = store.pairs[n]
    <3>1. CASE private[n] = None
      <4>1. legacy.pairs[n] = None
        BY <2>4, <3>1 DEF FullInv, MigrationInv, LegacyKept
      <4> QED
        BY <2>3, <3>1, <4>1 DEF Verified, PairOverlooked
    <3>2. CASE private[n] # None
      <4>1. Verified(n) /\ legacy.pairs[n] = FilePair(n)
        BY <2>4, <3>2 DEF FullInv, MigrationInv, LegacyKept
      <4>2. FilePair(n) # None
        BY <4>1, CapturedPair DEF Verified, FullInv, MigrationInv
      <4> QED
        BY <2>3, <4>1, <4>2 DEF PairOverlooked
    <3> QED
      BY <3>1, <3>2
  <2> QED
    BY <2>1, <2>2, <2>5, <2>6
       DEF StartRestoresState, Verified, FilePair, TextOverlooked, PairOverlooked
<1>6. CASE StartIsOver
  <2>1. ui.do = "reconcile" /\ ui.todo = {} /\ UNCHANGED <<texts, private, public, store, overlooked>>
    BY <1>6 DEF StartIsOver, files
  <2>2. ASSUME NEW n \in Names
        PROVE  IF store.pairs[n] = None THEN Verified(n) => PairOverlooked(n)
                                        ELSE FilePair(n) = store.pairs[n]
    BY <2>1 DEF FullInv, RestoreInv, Reconciling
  <2>3. \A p \in TextPaths : texts[p] = store.texts[p] \/ TextOverlooked(p)
    BY <2>1 DEF FullInv, RestoreInv, Reconciling
  <2> QED
    BY <2>1, <2>2, <2>3
       DEF StartRestoresState, Verified, FilePair, TextOverlooked, PairOverlooked
<1>7. ASSUME NEW item \in ui.todo, RestoreSshProjection(item) PROVE StartRestoresState'
  <2>1. ~fresh /\ fresh' = fresh
    BY <1>7, UiFacts DEF RestoreSshProjection, FullInv, MigrationInv, StartAlone
  <2> QED
    BY <2>1 DEF StartRestoresState
<1>8. ASSUME NEW item \in ui.todo, Migrate(item) PROVE StartRestoresState'
  <2>1. ~fresh /\ fresh' = fresh
    BY <1>8, UiFacts DEF Migrate, FullInv, MigrationInv, StartAlone
  <2> QED
    BY <2>1 DEF StartRestoresState
<1>9. ASSUME NEW item \in ui.todo, ReconcileVerifiedKeys(item) PROVE StartRestoresState'
  <2>1. ~fresh /\ fresh' = fresh
    BY <1>9, UiFacts DEF ReconcileVerifiedKeys, FullInv, MigrationInv, StartAlone
  <2> QED
    BY <2>1 DEF StartRestoresState
<1>10. CASE UNCHANGED stateVars
  BY <1>10 DEF stateVars, FullInv, RestoreInv, StartRestoresState, Verified, FilePair
<1> QED
  BY <1>0, <1>1, <1>2, <1>3, <1>4, <1>5, <1>6, <1>7, <1>8, <1>9, <1>10 DEF StartOnly


(* In every instance, wherever the last run of the process ended, the files are what the store    *)
(* says when a start is over, and nothing else counts as a key, but for the texts and keys that    *)
(* an error which FileUtils tells nobody of hid or kept in this very start (onCreate).             *)
THEOREM StartsRestore == StateSpec => []StartRestoresState
<1>1. StateInit => FullInv
  <2> SUFFICES ASSUME StateInit PROVE FullInv
    OBVIOUS
  <2>1. ui.do = "start" /\ ~fresh
    BY UiFacts DEF StateInit
  <2> QED
    BY <2>1, MigrationStart DEF FullInv, RestoreInv, Projected, Reconciling, StartRestoresState
<1>2. FullInv /\ [StateNext]_stateVars => FullInv'
  BY MigrationStep, ProjectedStep, ReconcilingStep, RestoredStep DEF FullInv, RestoreInv
<1>3. FullInv => StartRestoresState
  BY DEF FullInv, RestoreInv
<1> QED
  BY <1>1, <1>2, <1>3, PTL DEF StateSpec


-----------------------------------------------------------------------------
(* The keys that were accepted.                                            *)

LEMMA BecomeFacts ==
  ASSUME GeneratorsTyped, NEW g \in Generators, NEW stage, Become(g, stage)
  PROVE  \A h \in Generators :
           /\ generators'[h].name = generators[h].name
           /\ generators'[h].stage = IF h = g THEN stage ELSE generators[h].stage
BY DEF GeneratorsTyped, Become

LEMMA NativeNames ==
  ASSUME StateTypes, NEW g \in Generators, NativeCheck(g) \/ NativePrivate(g) \/ NativePublic(g)
  PROVE  \A h \in Generators : generators'[h].name = generators[h].name
<1>1. PICK stage : Become(g, stage)
  BY DEF NativeCheck, NativePrivate, NativePublic
<1> QED
  BY <1>1, BecomeFacts DEF StateTypes

\* What a Capture of one name does to a name.
LEMMA CaptureFacts ==
  ASSUME StateTypes, NEW name \in Names, NEW after, NEW failed, Capture(name, after, failed)
  PROVE  \/ ui' = failed /\ store' = store
         \/ /\ ui' = after /\ private[name] # None /\ public[name] # None
            /\ store'.pairs[name] = FilePair(name) /\ store'.pairs[name] # None
            /\ store'.pairs[name].private = private[name] /\ store'.pairs[name].public = public[name]
            /\ \A n \in Names : n # name => store'.pairs[n] = store.pairs[n]
<1>1. CASE ui' = failed /\ store' = store
  BY <1>1
<1>2. CASE ~(ui' = failed /\ store' = store)
  <2>1. /\ ui' = after /\ private[name] # None /\ public[name] # None
        /\ store' = [store EXCEPT !.pairs[name] = FilePair(name)]
    BY <1>2 DEF Capture
  <2>2. store'.pairs[name] = FilePair(name)
        /\ \A n \in Names : n # name => store'.pairs[n] = store.pairs[n]
    BY <2>1 DEF StateTypes, StoreTyped
  <2> QED
    BY <2>1, <2>2, CapturedPair
<1> QED
  BY <1>1, <1>2

LEMMA AcceptedFilesStep ==
  ASSUME MigrationInv, AcceptedInv, NEW n \in Names, accepted'[n] # None, [StateNext]_stateVars
  PROVE  AcceptedFiles(n)'
<1>1. CASE Die
  BY <1>1, StateAssumption
     DEF Die, files, history, MigrationInv, StateTypes, FilesTyped, StoreTyped, UiTyped, GoodUi,
          HistoryTyped, AcceptedInv, AcceptedFiles, AcceptedAlone, NameSteps, WorksOn, GiveUp
<1>2. CASE Initialize
  BY <1>2, StateAssumption
     DEF Initialize, files, history, MigrationInv, StateTypes, FilesTyped, StoreTyped, UiTyped,
          GoodUi, HistoryTyped, AcceptedInv, AcceptedFiles, AcceptedAlone, NameSteps, WorksOn,
          GiveUp
<1>3. CASE ListKeys
  BY <1>3, StateAssumption
     DEF ListKeys, files, history, MigrationInv, StateTypes, FilesTyped, StoreTyped, UiTyped,
          GoodUi, HistoryTyped, AcceptedInv, AcceptedFiles, AcceptedAlone, NameSteps, WorksOn,
          GiveUp
<1>4. CASE FinishLegacyMigration
  BY <1>4, StateAssumption
     DEF FinishLegacyMigration, files, history, MigrationInv, StateTypes, FilesTyped, StoreTyped,
          UiTyped, GoodUi, HistoryTyped, AcceptedInv, AcceptedFiles, AcceptedAlone, NameSteps,
          WorksOn, GiveUp
<1>5. CASE StartIsOver
  BY <1>5, StateAssumption
     DEF StartIsOver, files, history, MigrationInv, StateTypes, FilesTyped, StoreTyped, UiTyped,
          GoodUi, HistoryTyped, AcceptedInv, AcceptedFiles, AcceptedAlone, NameSteps, WorksOn,
          GiveUp
<1>6. ASSUME NEW item \in ui.todo, RestoreSshProjection(item) PROVE AcceptedFiles(n)'
  <2>1. accepted[n] # None /\ accepted' = accepted /\ AcceptedFiles(n) /\ AcceptedAlone(n)
    BY <1>6 DEF RestoreSshProjection, history, AcceptedInv
  <2>2. ui.do = "project" /\ store' = store
    BY <1>6 DEF RestoreSshProjection
  <2>3. CASE item[2] = "text"
    BY <1>6, <2>1, <2>3 DEF RestoreSshProjection, AcceptedFiles
  <2>4. CASE item[2] = "private"
    <3>1. public' = public
      BY <1>6, <2>4 DEF RestoreSshProjection
    <3>2. private'[n] \in {private[n], store.pairs[n].private}
      BY <1>6, <2>4 DEF RestoreSshProjection, MigrationInv, StateTypes, FilesTyped
    <3>3. store.pairs[n].private # None
      BY <2>1, StateAssumption DEF AcceptedFiles, MigrationInv, StateTypes, StoreTyped, Pairs
    <3> QED
      BY <2>1, <2>2, <3>1, <3>2, <3>3 DEF AcceptedFiles
  <2>5. CASE item[2] = "public"
    <3>1. private' = private
      BY <1>6, <2>5 DEF RestoreSshProjection
    <3>2. public'[n] \in {public[n], store.pairs[n].public}
      BY <1>6, <2>5 DEF RestoreSshProjection, MigrationInv, StateTypes, FilesTyped
    <3> QED
      BY <2>1, <2>2, <3>1, <3>2 DEF AcceptedFiles
  <2> QED
    BY <2>2, <2>3, <2>4, <2>5, Items DEF MigrationInv
<1>7. ASSUME NEW item \in ui.todo, Migrate(item) PROVE AcceptedFiles(n)'
  <2>1. accepted[n] # None /\ accepted' = accepted /\ AcceptedFiles(n) /\ AcceptedAlone(n)
    BY <1>7 DEF Migrate, history, AcceptedInv
  <2>2. UNCHANGED <<private, public>> /\ ui.do = "migrate"
    BY <1>7 DEF Migrate, files
  <2>3. FilePair(n) # None /\ FilePair(n).private.key = accepted[n] /\ FilePair(n).public = accepted[n]
    <3>1. private[n] # None /\ public[n] # None
      BY <2>1, StateAssumption DEF AcceptedFiles, MigrationInv, StateTypes, HistoryTyped, Keys
    <3> QED
      BY <2>1, <3>1, CapturedPair DEF AcceptedFiles, MigrationInv
  <2>4. store'.pairs[n] \in {store.pairs[n], FilePair(n)}
    <3>1. CASE item[2] = "text"
      BY <1>7, <3>1 DEF Migrate, MigrationInv, StateTypes, StoreTyped
    <3>2. CASE item[2] = "pair"
      BY <1>7, <3>2 DEF Migrate, MigrationInv, StateTypes, StoreTyped
    <3> QED
      BY <2>2, <3>1, <3>2, Items DEF MigrationInv
  <2> QED
    BY <2>1, <2>2, <2>3, <2>4 DEF AcceptedFiles
<1>8. ASSUME NEW item \in ui.todo, ReconcileVerifiedKeys(item) PROVE AcceptedFiles(n)'
  BY <1>8, StateAssumption
     DEF ReconcileVerifiedKeys, files, history, MigrationInv, StateTypes, FilesTyped, StoreTyped,
          UiTyped, GoodUi, HistoryTyped, AcceptedInv, AcceptedFiles, AcceptedAlone, NameSteps,
          WorksOn, GiveUp
<1>9. ASSUME NEW path \in TextPaths, NEW text \in SUBSET Lines, Commit(path, text)
      PROVE  AcceptedFiles(n)'
  BY <1>9, StateAssumption
     DEF Commit, files, history, MigrationInv, StateTypes, FilesTyped, StoreTyped, UiTyped, GoodUi,
          HistoryTyped, AcceptedInv, AcceptedFiles, AcceptedAlone, NameSteps, WorksOn, GiveUp
<1>10. CASE WriteTextFile
  BY <1>10, StateAssumption
     DEF WriteTextFile, files, history, MigrationInv, StateTypes, FilesTyped, StoreTyped, UiTyped,
          GoodUi, HistoryTyped, AcceptedInv, AcceptedFiles, AcceptedAlone, NameSteps, WorksOn,
          GiveUp
<1>11. CASE RemoveFiles
  BY <1>11, StateAssumption
     DEF RemoveFiles, files, history, MigrationInv, StateTypes, FilesTyped, StoreTyped, UiTyped,
          GoodUi, HistoryTyped, AcceptedInv, AcceptedFiles, AcceptedAlone, NameSteps, WorksOn,
          GiveUp
<1>12. ASSUME NEW name \in Names, NEW source \in Sources, NEW passphrase \in Passphrases, Import(name, source, passphrase)
       PROVE  AcceptedFiles(n)'
  BY <1>12, StateAssumption
     DEF Import, files, history, MigrationInv, StateTypes, FilesTyped, StoreTyped, UiTyped, GoodUi,
          HistoryTyped, AcceptedInv, AcceptedFiles, AcceptedAlone, NameSteps, WorksOn, GiveUp
<1>13. CASE ImportPrivate
  BY <1>13, StateAssumption
     DEF ImportPrivate, files, history, MigrationInv, StateTypes, FilesTyped, StoreTyped, UiTyped,
          GoodUi, HistoryTyped, AcceptedInv, AcceptedFiles, AcceptedAlone, NameSteps, WorksOn,
          GiveUp
<1>14. CASE ImportPublic
  BY <1>14, StateAssumption
     DEF ImportPublic, files, history, MigrationInv, StateTypes, FilesTyped, StoreTyped, UiTyped,
          GoodUi, HistoryTyped, AcceptedInv, AcceptedFiles, AcceptedAlone, NameSteps, WorksOn,
          GiveUp
<1>15. CASE ImportVerify
  BY <1>15, StateAssumption
     DEF ImportVerify, files, history, MigrationInv, StateTypes, FilesTyped, StoreTyped, UiTyped,
          GoodUi, HistoryTyped, AcceptedInv, AcceptedFiles, AcceptedAlone, NameSteps, WorksOn,
          GiveUp
<1>16. CASE ImportCapture
  <2>0. UNCHANGED <<private, public>> /\ ui.name \in Names /\ ui.do = "importCapture"
    BY <1>16 DEF ImportCapture, files, MigrationInv, StateTypes, UiTyped, GoodUi, NameSteps
  <2>1. Capture(ui.name, Idle, GiveUp(ui.name))
    BY <1>16 DEF ImportCapture
  <2>2. CASE ui.name # n
    <3>1. accepted'[n] = accepted[n]
      BY <1>16, <2>2 DEF ImportCapture, MigrationInv, StateTypes, HistoryTyped
    <3>2. store'.pairs[n] = store.pairs[n]
      BY <2>0, <2>1, <2>2, CaptureFacts DEF MigrationInv
    <3> QED
      BY <2>0, <3>1, <3>2 DEF AcceptedInv, AcceptedFiles
  <2>3. CASE ui.name = n
    <3>1. accepted[n] = None
      BY <2>0, <2>3 DEF AcceptedInv, AcceptedAlone, NameSteps
    <3>2. /\ ui' = Idle /\ (\A g \in Generators : ~WorksOn(g, ui.name))
          /\ accepted'[n] = private[n].key
      BY <1>16, <2>3, <3>1 DEF ImportCapture, WorksOn, MigrationInv, StateTypes, HistoryTyped
    <3>3. Verified(n)
      BY <2>0, <2>3, <3>2 DEF AcceptedInv, CapturesVerified
    <3>4. /\ store'.pairs[n] # None
          /\ store'.pairs[n].private = private[n] /\ store'.pairs[n].public = public[n]
      BY <2>0, <2>1, <2>3, <3>2, CaptureFacts, DoFacts DEF GiveUp, MigrationInv
    <3> QED
      BY <2>0, <3>2, <3>3, <3>4 DEF AcceptedFiles, Verified
  <2> QED
    BY <2>2, <2>3
<1>17. ASSUME NEW g \in Generators, NEW name \in Names, Generate(g, name) PROVE AcceptedFiles(n)'
  BY <1>17, StateAssumption
     DEF Generate, files, history, MigrationInv, StateTypes, FilesTyped, StoreTyped, UiTyped,
          GoodUi, HistoryTyped, AcceptedInv, AcceptedFiles, AcceptedAlone, NameSteps, WorksOn,
          GiveUp
<1>18. ASSUME NEW g \in Generators, NativeCheck(g) PROVE AcceptedFiles(n)'
  <2>1. accepted[n] # None /\ accepted' = accepted /\ AcceptedFiles(n) /\ AcceptedAlone(n)
    BY <1>18 DEF NativeCheck, history, AcceptedInv
  <2>2. generators[g].name # n
    BY <2>1 DEF AcceptedAlone, WorksOn
  <2>3. store' = store /\ private'[n] = private[n] /\ public'[n] = public[n]
    BY <1>18, <2>2 DEF NativeCheck, files, MigrationInv, StateTypes, FilesTyped
  <2> QED
    BY <2>1, <2>3 DEF AcceptedFiles
<1>19. ASSUME NEW g \in Generators, NativePrivate(g) PROVE AcceptedFiles(n)'
  <2>1. accepted[n] # None /\ accepted' = accepted /\ AcceptedFiles(n) /\ AcceptedAlone(n)
    BY <1>19 DEF NativePrivate, history, AcceptedInv
  <2>2. generators[g].name # n
    BY <2>1 DEF AcceptedAlone, WorksOn
  <2>3. store' = store /\ private'[n] = private[n] /\ public'[n] = public[n]
    BY <1>19, <2>2 DEF NativePrivate, files, MigrationInv, StateTypes, FilesTyped
  <2> QED
    BY <2>1, <2>3 DEF AcceptedFiles
<1>20. ASSUME NEW g \in Generators, NativePublic(g) PROVE AcceptedFiles(n)'
  <2>1. accepted[n] # None /\ accepted' = accepted /\ AcceptedFiles(n) /\ AcceptedAlone(n)
    BY <1>20 DEF NativePublic, history, AcceptedInv
  <2>2. generators[g].name # n
    BY <2>1 DEF AcceptedAlone, WorksOn
  <2>3. store' = store /\ private'[n] = private[n] /\ public'[n] = public[n]
    BY <1>20, <2>2 DEF NativePublic, files, MigrationInv, StateTypes, FilesTyped
  <2> QED
    BY <2>1, <2>3 DEF AcceptedFiles
<1>21. ASSUME NEW g \in Generators, Generated(g) PROVE AcceptedFiles(n)'
  BY <1>21, StateAssumption
     DEF Generated, Capture, files, history, MigrationInv, StateTypes, FilesTyped, StoreTyped,
          UiTyped, GoodUi, HistoryTyped, AcceptedInv, AcceptedFiles, AcceptedAlone, NameSteps,
          WorksOn, GiveUp
<1>22. ASSUME NEW name \in Names, Delete(name) PROVE AcceptedFiles(n)'
  BY <1>22, StateAssumption
     DEF Delete, files, history, MigrationInv, StateTypes, FilesTyped, StoreTyped, UiTyped, GoodUi,
          HistoryTyped, AcceptedInv, AcceptedFiles, AcceptedAlone, NameSteps, WorksOn, GiveUp
<1>23. ASSUME NEW name \in Names, NEW passphrase \in Passphrases, ReadForPassphrase(name, passphrase)
       PROVE  AcceptedFiles(n)'
  BY <1>23, StateAssumption
     DEF ReadForPassphrase, files, history, MigrationInv, StateTypes, FilesTyped, StoreTyped,
          UiTyped, GoodUi, HistoryTyped, AcceptedInv, AcceptedFiles, AcceptedAlone, NameSteps,
          WorksOn, GiveUp
<1>24. CASE ReplacePrivate
  BY <1>24, StateAssumption
     DEF ReplacePrivate, files, history, MigrationInv, StateTypes, FilesTyped, StoreTyped, UiTyped,
          GoodUi, HistoryTyped, AcceptedInv, AcceptedFiles, AcceptedAlone, NameSteps, WorksOn,
          GiveUp
<1>25. CASE Recapture
  <2>1. accepted[n] # None /\ accepted' = accepted /\ AcceptedFiles(n) /\ AcceptedAlone(n)
    BY <1>25 DEF Recapture, history, AcceptedInv
  <2>2. UNCHANGED <<private, public>> /\ ui.name \in Names
    BY <1>25 DEF Recapture, files, MigrationInv, StateTypes, UiTyped, GoodUi, NameSteps
  <2>3. \/ store'.pairs[n] = store.pairs[n]
        \/ /\ store'.pairs[n] # None
           /\ store'.pairs[n].private = private[n] /\ store'.pairs[n].public = public[n]
    BY <1>25, <2>2, CaptureFacts DEF Recapture, MigrationInv
  <2> QED
    BY <2>1, <2>2, <2>3 DEF AcceptedFiles
<1>26. CASE Rollback
  <2>1. accepted[n] # None /\ accepted' = accepted /\ AcceptedFiles(n) /\ AcceptedAlone(n)
    BY <1>26 DEF Rollback, history, AcceptedInv
  <2>2. UNCHANGED <<public, store>>
    BY <1>26 DEF Rollback
  <2>3. private[n] \in PrivateKeys
    BY <2>1 DEF AcceptedFiles, MigrationInv, StateTypes, FilesTyped
  <2>4. CASE private' = private
    BY <2>1, <2>2, <2>4 DEF AcceptedFiles
  <2>5. CASE private' # private
    <3>1. ui.held \in PrivateKeys
      BY <1>26, <2>5 DEF Rollback, MigrationInv, StateTypes, UiTyped, GoodUi
    <3>2. private'[n] = private[n] \/
            private'[n] = [private[n] EXCEPT !.passphrase = ui.held.passphrase]
      BY <1>26, <2>5 DEF Rollback, MigrationInv, StateTypes, FilesTyped
    <3>3. PICK k \in PrivateKeys :
            k = [private[n] EXCEPT !.passphrase = ui.held.passphrase] /\ k.key = private[n].key
      <4>1. PICK p \in Passphrases : p = ui.held.passphrase
        BY <3>1 DEF PrivateKeys
      <4>2. [private[n] EXCEPT !.passphrase = p] \in PrivateKeys
        BY <2>3 DEF PrivateKeys
      <4>3. [private[n] EXCEPT !.passphrase = p].key = private[n].key
        BY <2>3 DEF PrivateKeys
      <4> QED
        BY <4>1, <4>2, <4>3
    <3>4. private'[n] # None /\ private'[n].key = private[n].key
      BY <2>1, <3>2, <3>3, StateAssumption DEF AcceptedFiles
    <3> QED
      BY <2>1, <2>2, <3>4 DEF AcceptedFiles
  <2> QED
    BY <2>4, <2>5
<1>27. CASE UNCHANGED stateVars
  BY <1>27, StateAssumption
     DEF stateVars, files, history, MigrationInv, StateTypes, FilesTyped, StoreTyped, UiTyped,
          GoodUi, HistoryTyped, AcceptedInv, AcceptedFiles, AcceptedAlone, NameSteps, WorksOn,
          GiveUp
<1>28. ASSUME NEW path \in TextPaths, NEW line \in Lines, CommitKnownHostLine(path, line)
       PROVE  AcceptedFiles(n)'
  <2>1. PICK text \in SUBSET Lines : Commit(path, text)
    BY <1>28, KnownLine DEF MigrationInv
  <2> QED
    BY <2>1, <1>9
<1> QED
  BY <1>1, <1>2, <1>3, <1>4, <1>5, <1>6, <1>7, <1>8, <1>9, <1>10, <1>11, <1>12, <1>13, <1>14, <1>15,
       <1>16, <1>17, <1>18, <1>19, <1>20, <1>21, <1>22, <1>23, <1>24, <1>25, <1>26, <1>27, <1>28
     DEF StateNext

LEMMA AcceptedAloneStep ==
  ASSUME MigrationInv, AcceptedInv, NEW n \in Names, accepted'[n] # None, [StateNext]_stateVars
  PROVE  AcceptedAlone(n)'
<1>1. CASE Die
  <2>1. ui' = Down /\ \A g \in Generators : generators'[g].name = None
    BY <1>1 DEF Die, NoGeneration
  <2> QED
    BY <2>1, UiFacts, StateAssumption DEF AcceptedAlone, NameSteps, WorksOn
<1>2. CASE Initialize
  BY <1>2, StateAssumption, UiFacts, DoFacts
     DEF Initialize, files, history, MigrationInv, StateTypes, FilesTyped, StoreTyped, UiTyped,
          GoodUi, HistoryTyped, AcceptedInv, AcceptedFiles, AcceptedAlone, NameSteps, WorksOn,
          GiveUp, Starting
<1>3. CASE ListKeys
  BY <1>3, StateAssumption, UiFacts, DoFacts
     DEF ListKeys, files, history, MigrationInv, StateTypes, FilesTyped, StoreTyped, UiTyped,
          GoodUi, HistoryTyped, AcceptedInv, AcceptedFiles, AcceptedAlone, NameSteps, WorksOn,
          GiveUp, Starting
<1>4. CASE FinishLegacyMigration
  BY <1>4, StateAssumption, UiFacts, DoFacts
     DEF FinishLegacyMigration, files, history, MigrationInv, StateTypes, FilesTyped, StoreTyped,
          UiTyped, GoodUi, HistoryTyped, AcceptedInv, AcceptedFiles, AcceptedAlone, NameSteps,
          WorksOn, GiveUp, Starting
<1>5. CASE StartIsOver
  BY <1>5, StateAssumption, UiFacts, DoFacts
     DEF StartIsOver, files, history, MigrationInv, StateTypes, FilesTyped, StoreTyped, UiTyped,
          GoodUi, HistoryTyped, AcceptedInv, AcceptedFiles, AcceptedAlone, NameSteps, WorksOn,
          GiveUp, Starting
<1>6. ASSUME NEW item \in ui.todo, RestoreSshProjection(item) PROVE AcceptedAlone(n)'
  BY <1>6, StateAssumption, UiFacts, DoFacts
     DEF RestoreSshProjection, files, history, MigrationInv, StateTypes, FilesTyped, StoreTyped,
          UiTyped, GoodUi, HistoryTyped, AcceptedInv, AcceptedFiles, AcceptedAlone, NameSteps,
          WorksOn, GiveUp, Starting
<1>7. ASSUME NEW item \in ui.todo, Migrate(item) PROVE AcceptedAlone(n)'
  BY <1>7, StateAssumption, UiFacts, DoFacts
     DEF Migrate, files, history, MigrationInv, StateTypes, FilesTyped, StoreTyped, UiTyped, GoodUi,
          HistoryTyped, AcceptedInv, AcceptedFiles, AcceptedAlone, NameSteps, WorksOn, GiveUp,
          Starting
<1>8. ASSUME NEW item \in ui.todo, ReconcileVerifiedKeys(item) PROVE AcceptedAlone(n)'
  BY <1>8, StateAssumption, UiFacts, DoFacts
     DEF ReconcileVerifiedKeys, files, history, MigrationInv, StateTypes, FilesTyped, StoreTyped,
          UiTyped, GoodUi, HistoryTyped, AcceptedInv, AcceptedFiles, AcceptedAlone, NameSteps,
          WorksOn, GiveUp, Starting
<1>9. ASSUME NEW path \in TextPaths, NEW text \in SUBSET Lines, Commit(path, text)
      PROVE  AcceptedAlone(n)'
  BY <1>9, StateAssumption, UiFacts, DoFacts
     DEF Commit, files, history, MigrationInv, StateTypes, FilesTyped, StoreTyped, UiTyped, GoodUi,
          HistoryTyped, AcceptedInv, AcceptedFiles, AcceptedAlone, NameSteps, WorksOn, GiveUp,
          Starting
<1>10. CASE WriteTextFile
  BY <1>10, StateAssumption, UiFacts, DoFacts
     DEF WriteTextFile, files, history, MigrationInv, StateTypes, FilesTyped, StoreTyped, UiTyped,
          GoodUi, HistoryTyped, AcceptedInv, AcceptedFiles, AcceptedAlone, NameSteps, WorksOn,
          GiveUp, Starting
<1>11. CASE RemoveFiles
  <2>1. accepted[n] # None /\ accepted' = accepted /\ AcceptedFiles(n) /\ AcceptedAlone(n)
    BY <1>11 DEF RemoveFiles, history, AcceptedInv
  <2>2. ui.do \in {"removePrivate", "removePublic"} /\ generators' = generators
    BY <1>11 DEF RemoveFiles
  <2>3. ui.name # n
    BY <2>1, <2>2 DEF AcceptedAlone, NameSteps
  <2>4. ui'.name = ui.name \/ ui' = Idle
    BY <1>11 DEF RemoveFiles, MigrationInv, StateTypes, UiTyped, GoodUi, UiRecords
  <2> QED
    BY <2>1, <2>2, <2>3, <2>4, UiFacts DEF AcceptedAlone, NameSteps, WorksOn
<1>12. ASSUME NEW name \in Names, NEW source \in Sources, NEW passphrase \in Passphrases, Import(name, source, passphrase)
       PROVE  AcceptedAlone(n)'
  <2>1. accepted[n] # None /\ accepted' = accepted /\ AcceptedFiles(n) /\ AcceptedAlone(n)
    BY <1>12 DEF Import, history, AcceptedInv
  <2>2. ui'.name = name /\ generators' = generators /\ name # n
    BY <1>12, <2>1, DoFacts DEF Import, Exists, AcceptedFiles
  <2> QED
    BY <2>1, <2>2 DEF AcceptedAlone, WorksOn
<1>13. CASE ImportPrivate
  BY <1>13, StateAssumption, UiFacts, DoFacts
     DEF ImportPrivate, files, history, MigrationInv, StateTypes, FilesTyped, StoreTyped, UiTyped,
          GoodUi, HistoryTyped, AcceptedInv, AcceptedFiles, AcceptedAlone, NameSteps, WorksOn,
          GiveUp, Starting
<1>14. CASE ImportPublic
  BY <1>14, StateAssumption, UiFacts, DoFacts
     DEF ImportPublic, files, history, MigrationInv, StateTypes, FilesTyped, StoreTyped, UiTyped,
          GoodUi, HistoryTyped, AcceptedInv, AcceptedFiles, AcceptedAlone, NameSteps, WorksOn,
          GiveUp, Starting
<1>15. CASE ImportVerify
  BY <1>15, StateAssumption, UiFacts, DoFacts
     DEF ImportVerify, files, history, MigrationInv, StateTypes, FilesTyped, StoreTyped, UiTyped,
          GoodUi, HistoryTyped, AcceptedInv, AcceptedFiles, AcceptedAlone, NameSteps, WorksOn,
          GiveUp, Starting
<1>16. CASE ImportCapture
  BY <1>16, StateAssumption, UiFacts, DoFacts
     DEF ImportCapture, Capture, files, history, MigrationInv, StateTypes, FilesTyped, StoreTyped,
          UiTyped, GoodUi, HistoryTyped, AcceptedInv, AcceptedFiles, AcceptedAlone, NameSteps,
          WorksOn, GiveUp, Starting
<1>17. ASSUME NEW g \in Generators, NEW name \in Names, Generate(g, name) PROVE AcceptedAlone(n)'
  <2>1. accepted[n] # None /\ accepted' = accepted /\ AcceptedFiles(n) /\ AcceptedAlone(n)
    BY <1>17 DEF Generate, Exists, AcceptedInv
  <2>2. ui' = ui /\ name # n
    BY <1>17, <2>1 DEF Generate, Exists, AcceptedFiles
  <2>3. \A h \in Generators : generators'[h].name \in {generators[h].name, name}
    BY <1>17 DEF Generate, MigrationInv, StateTypes, GeneratorsTyped
  <2> QED
    BY <2>1, <2>2, <2>3 DEF AcceptedAlone, WorksOn
<1>18. ASSUME NEW g \in Generators, NativeCheck(g) PROVE AcceptedAlone(n)'
  <2>1. accepted[n] # None /\ accepted' = accepted /\ AcceptedFiles(n) /\ AcceptedAlone(n)
    BY <1>18 DEF NativeCheck, history, AcceptedInv
  <2>2. ui' = ui
    BY <1>18 DEF NativeCheck
  <2>3. \A h \in Generators : generators'[h].name = generators[h].name
    BY <1>18, NativeNames DEF MigrationInv
  <2> QED
    BY <2>1, <2>2, <2>3 DEF AcceptedAlone, WorksOn
<1>19. ASSUME NEW g \in Generators, NativePrivate(g) PROVE AcceptedAlone(n)'
  <2>1. accepted[n] # None /\ accepted' = accepted /\ AcceptedFiles(n) /\ AcceptedAlone(n)
    BY <1>19 DEF NativePrivate, history, AcceptedInv
  <2>2. ui' = ui
    BY <1>19 DEF NativePrivate
  <2>3. \A h \in Generators : generators'[h].name = generators[h].name
    BY <1>19, NativeNames DEF MigrationInv
  <2> QED
    BY <2>1, <2>2, <2>3 DEF AcceptedAlone, WorksOn
<1>20. ASSUME NEW g \in Generators, NativePublic(g) PROVE AcceptedAlone(n)'
  <2>1. accepted[n] # None /\ accepted' = accepted /\ AcceptedFiles(n) /\ AcceptedAlone(n)
    BY <1>20 DEF NativePublic, history, AcceptedInv
  <2>2. ui' = ui
    BY <1>20 DEF NativePublic
  <2>3. \A h \in Generators : generators'[h].name = generators[h].name
    BY <1>20, NativeNames DEF MigrationInv
  <2> QED
    BY <2>1, <2>2, <2>3 DEF AcceptedAlone, WorksOn
<1>21. ASSUME NEW g \in Generators, Generated(g) PROVE AcceptedAlone(n)'
  <2>1. accepted[n] # None /\ accepted' = accepted /\ AcceptedFiles(n) /\ AcceptedAlone(n)
    BY <1>21 DEF Generated, history, AcceptedInv
  <2>2. generators[g].name # n
    BY <2>1 DEF AcceptedAlone, WorksOn
  <2>3. ui' \in {ui, Idle, GiveUp(generators[g].name)} /\ ui = Idle
    BY <1>21 DEF Generated, Capture
  <2>4. \A h \in Generators : generators'[h].name \in {generators[h].name, None}
    BY <1>21 DEF Generated, NoGeneration, MigrationInv, StateTypes, GeneratorsTyped
  <2> QED
    BY <2>1, <2>2, <2>3, <2>4, UiFacts, DoFacts, StateAssumption DEF AcceptedAlone, WorksOn, GiveUp, NameSteps
<1>22. ASSUME NEW name \in Names, Delete(name) PROVE AcceptedAlone(n)'
  BY <1>22, StateAssumption, UiFacts, DoFacts
     DEF Delete, files, history, MigrationInv, StateTypes, FilesTyped, StoreTyped, UiTyped, GoodUi,
          HistoryTyped, AcceptedInv, AcceptedFiles, AcceptedAlone, NameSteps, WorksOn, GiveUp,
          Starting
<1>23. ASSUME NEW name \in Names, NEW passphrase \in Passphrases, ReadForPassphrase(name, passphrase)
       PROVE  AcceptedAlone(n)'
  <2>1. accepted[n] # None /\ accepted' = accepted /\ AcceptedFiles(n) /\ AcceptedAlone(n)
    BY <1>23 DEF ReadForPassphrase, history, AcceptedInv
  <2>2. /\ generators' = generators /\ ui'.name = name /\ ui'.do = "replacePrivate"
        /\ ui'.held = [private[name] EXCEPT !.passphrase = passphrase]
    BY <1>23, DoFacts DEF ReadForPassphrase
  <2>3. private[name] \in PrivateKeys
    BY <1>23 DEF ReadForPassphrase, Verified, MigrationInv, StateTypes, FilesTyped
  <2>4. [private[name] EXCEPT !.passphrase = passphrase].key = private[name].key
    BY <2>3 DEF PrivateKeys
  <2> QED
    BY <2>1, <2>2, <2>4 DEF AcceptedAlone, AcceptedFiles, WorksOn, NameSteps
<1>24. CASE ReplacePrivate
  <2>1. accepted[n] # None /\ accepted' = accepted /\ AcceptedFiles(n) /\ AcceptedAlone(n)
    BY <1>24 DEF ReplacePrivate, history, AcceptedInv
  <2>2. generators' = generators /\ ui'.name = ui.name /\ ui'.do = "recapture"
    BY <1>24, DoFacts DEF ReplacePrivate
  <2> QED
    BY <2>1, <2>2 DEF AcceptedAlone, WorksOn, NameSteps
<1>25. CASE Recapture
  <2>1. accepted[n] # None /\ accepted' = accepted /\ AcceptedFiles(n) /\ AcceptedAlone(n)
    BY <1>25 DEF Recapture, history, AcceptedInv
  <2>2. generators' = generators /\ ui' \in {Idle, [ui EXCEPT !.do = "rollback"]}
    BY <1>25 DEF Recapture, Capture
  <2>3. ui' = Idle \/ (ui'.do = "rollback")
    BY <2>2 DEF MigrationInv, StateTypes, UiTyped, GoodUi, UiRecords
  <2> QED
    BY <2>1, <2>2, <2>3, UiFacts DEF AcceptedAlone, WorksOn, NameSteps
<1>26. CASE Rollback
  BY <1>26, StateAssumption, UiFacts, DoFacts
     DEF Rollback, files, history, MigrationInv, StateTypes, FilesTyped, StoreTyped, UiTyped,
          GoodUi, HistoryTyped, AcceptedInv, AcceptedFiles, AcceptedAlone, NameSteps, WorksOn,
          GiveUp, Starting
<1>27. CASE UNCHANGED stateVars
  BY <1>27, StateAssumption, UiFacts, DoFacts
     DEF stateVars, files, history, MigrationInv, StateTypes, FilesTyped, StoreTyped, UiTyped,
          GoodUi, HistoryTyped, AcceptedInv, AcceptedFiles, AcceptedAlone, NameSteps, WorksOn,
          GiveUp, Starting
<1>28. ASSUME NEW path \in TextPaths, NEW line \in Lines, CommitKnownHostLine(path, line)
       PROVE  AcceptedAlone(n)'
  <2>1. PICK text \in SUBSET Lines : Commit(path, text)
    BY <1>28, KnownLine DEF MigrationInv
  <2> QED
    BY <2>1, <1>9
<1> QED
  BY <1>1, <1>2, <1>3, <1>4, <1>5, <1>6, <1>7, <1>8, <1>9, <1>10, <1>11, <1>12, <1>13, <1>14, <1>15,
       <1>16, <1>17, <1>18, <1>19, <1>20, <1>21, <1>22, <1>23, <1>24, <1>25, <1>26, <1>27, <1>28
     DEF StateNext

LEMMA CapturesVerifiedStep ==
  ASSUME MigrationInv, AcceptedInv, [StateNext]_stateVars
  PROVE  CapturesVerified'
<1>1. CASE Die
  BY <1>1, UiFacts, DoFacts
     DEF Die, files, history, MigrationInv, StateTypes, UiTyped, GoodUi, UiRecords, FilesTyped,
          AcceptedInv, CapturesVerified, NameSteps, Starting, WorksOn, Verified, GiveUp
<1>2. CASE Initialize
  BY <1>2, UiFacts, DoFacts
     DEF Initialize, files, history, MigrationInv, StateTypes, UiTyped, GoodUi, UiRecords,
          FilesTyped, AcceptedInv, CapturesVerified, NameSteps, Starting, WorksOn, Verified, GiveUp
<1>3. CASE ListKeys
  BY <1>3, UiFacts, DoFacts
     DEF ListKeys, files, history, MigrationInv, StateTypes, UiTyped, GoodUi, UiRecords, FilesTyped,
          AcceptedInv, CapturesVerified, NameSteps, Starting, WorksOn, Verified, GiveUp
<1>4. CASE FinishLegacyMigration
  BY <1>4, UiFacts, DoFacts
     DEF FinishLegacyMigration, files, history, MigrationInv, StateTypes, UiTyped, GoodUi,
          UiRecords, FilesTyped, AcceptedInv, CapturesVerified, NameSteps, Starting, WorksOn,
          Verified, GiveUp
<1>5. CASE StartIsOver
  BY <1>5, UiFacts, DoFacts
     DEF StartIsOver, files, history, MigrationInv, StateTypes, UiTyped, GoodUi, UiRecords,
          FilesTyped, AcceptedInv, CapturesVerified, NameSteps, Starting, WorksOn, Verified, GiveUp
<1>6. ASSUME NEW item \in ui.todo, RestoreSshProjection(item) PROVE CapturesVerified'
  BY <1>6, UiFacts, DoFacts
     DEF RestoreSshProjection, files, history, MigrationInv, StateTypes, UiTyped, GoodUi, UiRecords,
          FilesTyped, AcceptedInv, CapturesVerified, NameSteps, Starting, WorksOn, Verified, GiveUp
<1>7. ASSUME NEW item \in ui.todo, Migrate(item) PROVE CapturesVerified'
  BY <1>7, UiFacts, DoFacts
     DEF Migrate, files, history, MigrationInv, StateTypes, UiTyped, GoodUi, UiRecords, FilesTyped,
          AcceptedInv, CapturesVerified, NameSteps, Starting, WorksOn, Verified, GiveUp
<1>8. ASSUME NEW item \in ui.todo, ReconcileVerifiedKeys(item) PROVE CapturesVerified'
  BY <1>8, UiFacts, DoFacts
     DEF ReconcileVerifiedKeys, files, history, MigrationInv, StateTypes, UiTyped, GoodUi,
          UiRecords, FilesTyped, AcceptedInv, CapturesVerified, NameSteps, Starting, WorksOn,
          Verified, GiveUp
<1>9. ASSUME NEW path \in TextPaths, NEW text \in SUBSET Lines, Commit(path, text)
      PROVE  CapturesVerified'
  BY <1>9, UiFacts, DoFacts
     DEF Commit, files, history, MigrationInv, StateTypes, UiTyped, GoodUi, UiRecords, FilesTyped,
          AcceptedInv, CapturesVerified, NameSteps, Starting, WorksOn, Verified, GiveUp
<1>10. CASE WriteTextFile
  BY <1>10, UiFacts, DoFacts
     DEF WriteTextFile, files, history, MigrationInv, StateTypes, UiTyped, GoodUi, UiRecords,
          FilesTyped, AcceptedInv, CapturesVerified, NameSteps, Starting, WorksOn, Verified, GiveUp
<1>11. CASE RemoveFiles
  BY <1>11, UiFacts, DoFacts
     DEF RemoveFiles, files, history, MigrationInv, StateTypes, UiTyped, GoodUi, UiRecords,
          FilesTyped, AcceptedInv, CapturesVerified, NameSteps, Starting, WorksOn, Verified, GiveUp
<1>12. ASSUME NEW name \in Names, NEW source \in Sources, NEW passphrase \in Passphrases, Import(name, source, passphrase)
       PROVE  CapturesVerified'
  BY <1>12, UiFacts, DoFacts
     DEF Import, files, history, MigrationInv, StateTypes, UiTyped, GoodUi, UiRecords, FilesTyped,
          AcceptedInv, CapturesVerified, NameSteps, Starting, WorksOn, Verified, GiveUp
<1>13. CASE ImportPrivate
  BY <1>13, UiFacts, DoFacts
     DEF ImportPrivate, files, history, MigrationInv, StateTypes, UiTyped, GoodUi, UiRecords,
          FilesTyped, AcceptedInv, CapturesVerified, NameSteps, Starting, WorksOn, Verified, GiveUp
<1>14. CASE ImportPublic
  BY <1>14, UiFacts, DoFacts
     DEF ImportPublic, files, history, MigrationInv, StateTypes, UiTyped, GoodUi, UiRecords,
          FilesTyped, AcceptedInv, CapturesVerified, NameSteps, Starting, WorksOn, Verified, GiveUp
<1>15. CASE ImportVerify
  BY <1>15, UiFacts, DoFacts
     DEF ImportVerify, files, history, MigrationInv, StateTypes, UiTyped, GoodUi, UiRecords,
          FilesTyped, AcceptedInv, CapturesVerified, NameSteps, Starting, WorksOn, Verified, GiveUp
<1>16. CASE ImportCapture
  BY <1>16, UiFacts, DoFacts
     DEF ImportCapture, Capture, files, history, MigrationInv, StateTypes, UiTyped, GoodUi,
          UiRecords, FilesTyped, AcceptedInv, CapturesVerified, NameSteps, Starting, WorksOn,
          Verified, GiveUp
<1>17. ASSUME NEW g \in Generators, NEW name \in Names, Generate(g, name) PROVE CapturesVerified'
  BY <1>17, UiFacts, DoFacts
     DEF Generate, files, history, MigrationInv, StateTypes, UiTyped, GoodUi, UiRecords, FilesTyped,
          AcceptedInv, CapturesVerified, NameSteps, Starting, WorksOn, Verified, GiveUp
<1>18. ASSUME NEW g \in Generators, NativeCheck(g) PROVE CapturesVerified'
  BY <1>18, UiFacts, DoFacts
     DEF NativeCheck, Become, files, history, MigrationInv, StateTypes, UiTyped, GoodUi, UiRecords,
          FilesTyped, AcceptedInv, CapturesVerified, NameSteps, Starting, WorksOn, Verified, GiveUp
<1>19. ASSUME NEW g \in Generators, NativePrivate(g) PROVE CapturesVerified'
  <2>1. ui' = ui
    BY <1>19 DEF NativePrivate
  <2>2. SUFFICES ASSUME ui.do = "importCapture", \A h \in Generators : ~WorksOn(h, ui.name)
                 PROVE  Verified(ui.name)'
    BY <1>19, <2>1, NativeNames DEF CapturesVerified, WorksOn, MigrationInv
  <2>3. Verified(ui.name) /\ generators[g].name # ui.name /\ ui.name \in Names
    BY <2>2 DEF AcceptedInv, CapturesVerified, WorksOn, MigrationInv, StateTypes, UiTyped, GoodUi, NameSteps
  <2>4. private'[ui.name] = private[ui.name] /\ public'[ui.name] = public[ui.name]
    BY <1>19, <2>3 DEF NativePrivate, MigrationInv, StateTypes, FilesTyped
  <2> QED
    BY <2>1, <2>3, <2>4 DEF Verified
<1>20. ASSUME NEW g \in Generators, NativePublic(g) PROVE CapturesVerified'
  <2>1. ui' = ui
    BY <1>20 DEF NativePublic
  <2>2. SUFFICES ASSUME ui.do = "importCapture", \A h \in Generators : ~WorksOn(h, ui.name)
                 PROVE  Verified(ui.name)'
    BY <1>20, <2>1, NativeNames DEF CapturesVerified, WorksOn, MigrationInv
  <2>3. Verified(ui.name) /\ generators[g].name # ui.name /\ ui.name \in Names
    BY <2>2 DEF AcceptedInv, CapturesVerified, WorksOn, MigrationInv, StateTypes, UiTyped, GoodUi, NameSteps
  <2>4. private'[ui.name] = private[ui.name] /\ public'[ui.name] = public[ui.name]
    BY <1>20, <2>3 DEF NativePublic, MigrationInv, StateTypes, FilesTyped
  <2> QED
    BY <2>1, <2>3, <2>4 DEF Verified
<1>21. ASSUME NEW g \in Generators, Generated(g) PROVE CapturesVerified'
  BY <1>21, UiFacts, DoFacts
     DEF Generated, Capture, files, history, MigrationInv, StateTypes, UiTyped, GoodUi, UiRecords,
          FilesTyped, AcceptedInv, CapturesVerified, NameSteps, Starting, WorksOn, Verified, GiveUp
<1>22. ASSUME NEW name \in Names, Delete(name) PROVE CapturesVerified'
  BY <1>22, UiFacts, DoFacts
     DEF Delete, files, history, MigrationInv, StateTypes, UiTyped, GoodUi, UiRecords, FilesTyped,
          AcceptedInv, CapturesVerified, NameSteps, Starting, WorksOn, Verified, GiveUp
<1>23. ASSUME NEW name \in Names, NEW passphrase \in Passphrases, ReadForPassphrase(name, passphrase)
       PROVE  CapturesVerified'
  BY <1>23, UiFacts, DoFacts
     DEF ReadForPassphrase, files, history, MigrationInv, StateTypes, UiTyped, GoodUi, UiRecords,
          FilesTyped, AcceptedInv, CapturesVerified, NameSteps, Starting, WorksOn, Verified, GiveUp
<1>24. CASE ReplacePrivate
  BY <1>24, UiFacts, DoFacts
     DEF ReplacePrivate, files, history, MigrationInv, StateTypes, UiTyped, GoodUi, UiRecords,
          FilesTyped, AcceptedInv, CapturesVerified, NameSteps, Starting, WorksOn, Verified, GiveUp
<1>25. CASE Recapture
  BY <1>25, UiFacts, DoFacts
     DEF Recapture, Capture, files, history, MigrationInv, StateTypes, UiTyped, GoodUi, UiRecords,
          FilesTyped, AcceptedInv, CapturesVerified, NameSteps, Starting, WorksOn, Verified, GiveUp
<1>26. CASE Rollback
  BY <1>26, UiFacts, DoFacts
     DEF Rollback, files, history, MigrationInv, StateTypes, UiTyped, GoodUi, UiRecords, FilesTyped,
          AcceptedInv, CapturesVerified, NameSteps, Starting, WorksOn, Verified, GiveUp
<1>27. CASE UNCHANGED stateVars
  BY <1>27, UiFacts, DoFacts
     DEF stateVars, files, history, MigrationInv, StateTypes, UiTyped, GoodUi, UiRecords,
          FilesTyped, AcceptedInv, CapturesVerified, NameSteps, Starting, WorksOn, Verified, GiveUp
<1>28. ASSUME NEW path \in TextPaths, NEW line \in Lines, CommitKnownHostLine(path, line)
       PROVE  CapturesVerified'
  <2>1. PICK text \in SUBSET Lines : Commit(path, text)
    BY <1>28, KnownLine DEF MigrationInv
  <2> QED
    BY <2>1, <1>9
<1> QED
  BY <1>1, <1>2, <1>3, <1>4, <1>5, <1>6, <1>7, <1>8, <1>9, <1>10, <1>11, <1>12, <1>13, <1>14, <1>15,
       <1>16, <1>17, <1>18, <1>19, <1>20, <1>21, <1>22, <1>23, <1>24, <1>25, <1>26, <1>27, <1>28
     DEF StateNext


LEMMA AcceptedStep ==
  ASSUME MigrationInv, AcceptedInv, [StateNext]_stateVars
  PROVE  AcceptedInv'
<1>1. ASSUME NEW n \in Names, accepted'[n] # None PROVE (AcceptedFiles(n) /\ AcceptedAlone(n))'
  BY <1>1, AcceptedFilesStep, AcceptedAloneStep
<1>2. CapturesVerified'
  BY CapturesVerifiedStep
<1> QED
  BY <1>1, <1>2 DEF AcceptedInv

(* In every instance a key whose import was reported stays durable under its name, as the same key, *)
(* until it is deleted, whatever fails and wherever the process dies (importKey, generateKeyPair,     *)
(* changeKeyPassphrase, onCreate).                                                                  *)
THEOREM AcceptedKeysStay == StateSpec => []ImportedKeysStay
<1>1. StateInit => MigrationInv /\ AcceptedInv
  <2> SUFFICES ASSUME StateInit PROVE MigrationInv /\ AcceptedInv
    OBVIOUS
  <2>1. ui.do = "start" /\ \A n \in Names : accepted[n] = None
    BY UiFacts DEF StateInit
  <2> QED
    BY <2>1, MigrationStart DEF AcceptedInv, CapturesVerified
<1>2. MigrationInv /\ AcceptedInv /\ [StateNext]_stateVars => MigrationInv' /\ AcceptedInv'
  BY MigrationStep, AcceptedStep
<1>3. MigrationInv /\ AcceptedInv => ImportedKeysStay
  BY DEF AcceptedInv, AcceptedFiles, ImportedKeysStay
<1> QED
  BY <1>1, <1>2, <1>3, PTL DEF StateSpec


-----------------------------------------------------------------------------
(* Pairs that match.                                                       *)

LEMMA OneGenerationStep ==
  ASSUME MigrationInv, PairsInv, NEW n \in Names \ raced', [StateNext]_stateVars
  PROVE  OneGeneration(n)'
<1>1. CASE Die
  <2>1. \A g \in Generators : generators'[g].name = None
    BY <1>1 DEF Die, NoGeneration
  <2> QED
    BY <2>1, StateAssumption DEF OneGeneration, WorksOn
<1>2. CASE Initialize
  BY <1>2 DEF Initialize, files, history, PairsInv, OneGeneration, WorksOn
<1>3. CASE ListKeys
  BY <1>3 DEF ListKeys, files, history, PairsInv, OneGeneration, WorksOn
<1>4. CASE FinishLegacyMigration
  BY <1>4 DEF FinishLegacyMigration, files, history, PairsInv, OneGeneration, WorksOn
<1>5. CASE StartIsOver
  BY <1>5 DEF StartIsOver, files, history, PairsInv, OneGeneration, WorksOn
<1>6. ASSUME NEW item \in ui.todo, RestoreSshProjection(item) PROVE OneGeneration(n)'
  BY <1>6 DEF RestoreSshProjection, files, history, PairsInv, OneGeneration, WorksOn
<1>7. ASSUME NEW item \in ui.todo, Migrate(item) PROVE OneGeneration(n)'
  BY <1>7 DEF Migrate, files, history, PairsInv, OneGeneration, WorksOn
<1>8. ASSUME NEW item \in ui.todo, ReconcileVerifiedKeys(item) PROVE OneGeneration(n)'
  BY <1>8 DEF ReconcileVerifiedKeys, files, history, PairsInv, OneGeneration, WorksOn
<1>9. ASSUME NEW path \in TextPaths, NEW text \in SUBSET Lines, Commit(path, text)
      PROVE  OneGeneration(n)'
  BY <1>9 DEF Commit, files, history, PairsInv, OneGeneration, WorksOn
<1>10. CASE WriteTextFile
  BY <1>10 DEF WriteTextFile, files, history, PairsInv, OneGeneration, WorksOn
<1>11. CASE RemoveFiles
  BY <1>11 DEF RemoveFiles, files, history, PairsInv, OneGeneration, WorksOn
<1>12. ASSUME NEW name \in Names, NEW source \in Sources, NEW passphrase \in Passphrases, Import(name, source, passphrase)
       PROVE  OneGeneration(n)'
  BY <1>12 DEF Import, files, history, PairsInv, OneGeneration, WorksOn
<1>13. CASE ImportPrivate
  BY <1>13 DEF ImportPrivate, files, history, PairsInv, OneGeneration, WorksOn
<1>14. CASE ImportPublic
  BY <1>14 DEF ImportPublic, files, history, PairsInv, OneGeneration, WorksOn
<1>15. CASE ImportVerify
  BY <1>15 DEF ImportVerify, files, history, PairsInv, OneGeneration, WorksOn
<1>16. CASE ImportCapture
  BY <1>16 DEF ImportCapture, Capture, files, history, PairsInv, OneGeneration, WorksOn
<1>17. ASSUME NEW g \in Generators, NEW name \in Names, Generate(g, name) PROVE OneGeneration(n)'
  <2>1. \A h \in Generators : generators'[h].name = IF h = g THEN name ELSE generators[h].name
    BY <1>17 DEF Generate, MigrationInv, StateTypes, GeneratorsTyped
  <2>2. n \notin raced /\ (name = n => \A h \in Generators : generators[h].name # n)
    BY <1>17 DEF Generate
  <2> QED
    BY <2>1, <2>2 DEF PairsInv, OneGeneration, WorksOn
<1>18. ASSUME NEW g \in Generators, NativeCheck(g) PROVE OneGeneration(n)'
  <2>1. OneGeneration(n) /\ n \in Names
    BY <1>18 DEF NativeCheck, history, PairsInv
  <2>2. \A h \in Generators : generators'[h].name = generators[h].name
    BY <1>18, NativeNames DEF MigrationInv
  <2> QED
    BY <2>1, <2>2 DEF OneGeneration, WorksOn
<1>19. ASSUME NEW g \in Generators, NativePrivate(g) PROVE OneGeneration(n)'
  <2>1. OneGeneration(n) /\ n \in Names
    BY <1>19 DEF NativePrivate, history, PairsInv
  <2>2. \A h \in Generators : generators'[h].name = generators[h].name
    BY <1>19, NativeNames DEF MigrationInv
  <2> QED
    BY <2>1, <2>2 DEF OneGeneration, WorksOn
<1>20. ASSUME NEW g \in Generators, NativePublic(g) PROVE OneGeneration(n)'
  <2>1. OneGeneration(n) /\ n \in Names
    BY <1>20 DEF NativePublic, history, PairsInv
  <2>2. \A h \in Generators : generators'[h].name = generators[h].name
    BY <1>20, NativeNames DEF MigrationInv
  <2> QED
    BY <2>1, <2>2 DEF OneGeneration, WorksOn
<1>21. ASSUME NEW g \in Generators, Generated(g) PROVE OneGeneration(n)'
  <2>1. \A h \in Generators : generators'[h].name = IF h = g THEN None ELSE generators[h].name
    BY <1>21 DEF Generated, NoGeneration, MigrationInv, StateTypes, GeneratorsTyped
  <2>2. n \notin raced
    BY <1>21 DEF Generated, history
  <2> QED
    BY <2>1, <2>2, StateAssumption DEF PairsInv, OneGeneration, WorksOn
<1>22. ASSUME NEW name \in Names, Delete(name) PROVE OneGeneration(n)'
  BY <1>22 DEF Delete, files, history, PairsInv, OneGeneration, WorksOn
<1>23. ASSUME NEW name \in Names, NEW passphrase \in Passphrases, ReadForPassphrase(name, passphrase)
       PROVE  OneGeneration(n)'
  BY <1>23 DEF ReadForPassphrase, files, history, PairsInv, OneGeneration, WorksOn
<1>24. CASE ReplacePrivate
  BY <1>24 DEF ReplacePrivate, files, history, PairsInv, OneGeneration, WorksOn
<1>25. CASE Recapture
  BY <1>25 DEF Recapture, Capture, files, history, PairsInv, OneGeneration, WorksOn
<1>26. CASE Rollback
  BY <1>26 DEF Rollback, files, history, PairsInv, OneGeneration, WorksOn
<1>27. CASE UNCHANGED stateVars
  BY <1>27 DEF stateVars, files, history, PairsInv, OneGeneration, WorksOn
<1>28. ASSUME NEW path \in TextPaths, NEW line \in Lines, CommitKnownHostLine(path, line)
       PROVE  OneGeneration(n)'
  <2>1. PICK text \in SUBSET Lines : Commit(path, text)
    BY <1>28, KnownLine DEF MigrationInv
  <2> QED
    BY <2>1, <1>9
<1> QED
  BY <1>1, <1>2, <1>3, <1>4, <1>5, <1>6, <1>7, <1>8, <1>9, <1>10, <1>11, <1>12, <1>13, <1>14, <1>15,
       <1>16, <1>17, <1>18, <1>19, <1>20, <1>21, <1>22, <1>23, <1>24, <1>25, <1>26, <1>27, <1>28
     DEF StateNext

LEMMA StoredMatchStep ==
  ASSUME MigrationInv, PairsInv, NEW n \in Names \ raced', [StateNext]_stateVars
  PROVE  StoredMatch(n)'
<1>1. CASE Die
  BY <1>1 DEF Die, files, history, PairsInv, StoredMatch, MigrationInv, StateTypes, StoreTyped
<1>2. CASE Initialize
  BY <1>2
     DEF Initialize, files, history, PairsInv, StoredMatch, MigrationInv, StateTypes, StoreTyped
<1>3. CASE ListKeys
  BY <1>3 DEF ListKeys, files, history, PairsInv, StoredMatch, MigrationInv, StateTypes, StoreTyped
<1>4. CASE FinishLegacyMigration
  BY <1>4
     DEF FinishLegacyMigration, files, history, PairsInv, StoredMatch, MigrationInv, StateTypes,
          StoreTyped
<1>5. CASE StartIsOver
  BY <1>5
     DEF StartIsOver, files, history, PairsInv, StoredMatch, MigrationInv, StateTypes, StoreTyped
<1>6. ASSUME NEW item \in ui.todo, RestoreSshProjection(item) PROVE StoredMatch(n)'
  BY <1>6
     DEF RestoreSshProjection, files, history, PairsInv, StoredMatch, MigrationInv, StateTypes,
          StoreTyped
<1>7. ASSUME NEW item \in ui.todo, Migrate(item) PROVE StoredMatch(n)'
  <2>0. n \notin raced /\ ui.do = "migrate" /\ ~store.initialized
    BY <1>7 DEF Migrate, history, MigrationInv, StartAlone
  <2>1. StoredMatch(n)
    BY <2>0 DEF PairsInv
  <2>2. CASE item[2] = "text"
    BY <1>7, <2>1, <2>2 DEF Migrate, StoredMatch, MigrationInv, StateTypes, StoreTyped
  <2>3. CASE item[2] = "pair"
    <3>1. item[1] \in Names /\ Verified(item[1])
      BY <2>0, <2>3, Items DEF MigrationInv
    <3>2. store'.pairs[n] = IF n = item[1] THEN FilePair(n) ELSE store.pairs[n]
      BY <1>7, <2>3, <3>1 DEF Migrate, MigrationInv, StateTypes, StoreTyped
    <3>3. n = item[1] => FilePair(n).private.key = FilePair(n).public
      BY <3>1, CapturedPair DEF Verified, MigrationInv
    <3> QED
      BY <2>1, <3>2, <3>3 DEF StoredMatch
  <2> QED
    BY <2>0, <2>2, <2>3, Items DEF MigrationInv
<1>8. ASSUME NEW item \in ui.todo, ReconcileVerifiedKeys(item) PROVE StoredMatch(n)'
  BY <1>8
     DEF ReconcileVerifiedKeys, files, history, PairsInv, StoredMatch, MigrationInv, StateTypes,
          StoreTyped
<1>9. ASSUME NEW path \in TextPaths, NEW text \in SUBSET Lines, Commit(path, text)
      PROVE  StoredMatch(n)'
  BY <1>9 DEF Commit, files, history, PairsInv, StoredMatch, MigrationInv, StateTypes, StoreTyped
<1>10. CASE WriteTextFile
  BY <1>10
     DEF WriteTextFile, files, history, PairsInv, StoredMatch, MigrationInv, StateTypes, StoreTyped
<1>11. CASE RemoveFiles
  BY <1>11
     DEF RemoveFiles, files, history, PairsInv, StoredMatch, MigrationInv, StateTypes, StoreTyped
<1>12. ASSUME NEW name \in Names, NEW source \in Sources, NEW passphrase \in Passphrases, Import(name, source, passphrase)
       PROVE  StoredMatch(n)'
  BY <1>12 DEF Import, files, history, PairsInv, StoredMatch, MigrationInv, StateTypes, StoreTyped
<1>13. CASE ImportPrivate
  BY <1>13
     DEF ImportPrivate, files, history, PairsInv, StoredMatch, MigrationInv, StateTypes, StoreTyped
<1>14. CASE ImportPublic
  BY <1>14
     DEF ImportPublic, files, history, PairsInv, StoredMatch, MigrationInv, StateTypes, StoreTyped
<1>15. CASE ImportVerify
  BY <1>15
     DEF ImportVerify, files, history, PairsInv, StoredMatch, MigrationInv, StateTypes, StoreTyped
<1>16. CASE ImportCapture
  <2>0. n \notin raced /\ ui.name \in Names /\ ui.do \in Holding
    BY <1>16 DEF ImportCapture, history, MigrationInv, StateTypes, UiTyped, GoodUi, NameSteps, Holding
  <2>1. HoldsPair(n) /\ StoredMatch(n)
    BY <2>0 DEF PairsInv
  <2>2. ui.name = n => Agree(n)
    BY <2>0, <2>1 DEF HoldsPair
  <2>3. \/ store'.pairs[n] = store.pairs[n]
        \/ /\ ui.name = n /\ private[n] # None /\ public[n] # None
           /\ store'.pairs[n].private = private[n] /\ store'.pairs[n].public = public[n]
    BY <1>16, <2>0, CaptureFacts DEF ImportCapture, MigrationInv
  <2> QED
    BY <2>1, <2>2, <2>3 DEF StoredMatch, Agree
<1>17. ASSUME NEW g \in Generators, NEW name \in Names, Generate(g, name) PROVE StoredMatch(n)'
  BY <1>17 DEF Generate, files, history, PairsInv, StoredMatch, MigrationInv, StateTypes, StoreTyped
<1>18. ASSUME NEW g \in Generators, NativeCheck(g) PROVE StoredMatch(n)'
  BY <1>18
     DEF NativeCheck, Become, files, history, PairsInv, StoredMatch, MigrationInv, StateTypes,
          StoreTyped
<1>19. ASSUME NEW g \in Generators, NativePrivate(g) PROVE StoredMatch(n)'
  BY <1>19
     DEF NativePrivate, Become, files, history, PairsInv, StoredMatch, MigrationInv, StateTypes,
          StoreTyped
<1>20. ASSUME NEW g \in Generators, NativePublic(g) PROVE StoredMatch(n)'
  BY <1>20
     DEF NativePublic, Become, files, history, PairsInv, StoredMatch, MigrationInv, StateTypes,
          StoreTyped
<1>21. ASSUME NEW g \in Generators, Generated(g) PROVE StoredMatch(n)'
  <2>0. n \notin raced /\ ui = Idle
    BY <1>21 DEF Generated, history
  <2>1. GeneratesPair(n) /\ StoredMatch(n)
    BY <2>0 DEF PairsInv
  <2>2. CASE store' = store
    BY <2>1, <2>2 DEF StoredMatch
  <2>3. CASE store' # store
    <3>1. /\ generators[g].stage = "done" /\ generators[g].name \in Names
          /\ Capture(generators[g].name, Idle, GiveUp(generators[g].name))
      BY <1>21, <2>3 DEF Generated, MigrationInv, StateTypes, GeneratorsTyped
    <3>2. generators[g].name = n => Agree(n)
      BY <2>0, <2>1, <3>1, UiFacts DEF GeneratesPair, WorksOn, Overwrites, Import1
    <3>3. \/ store'.pairs[n] = store.pairs[n]
          \/ /\ generators[g].name = n /\ private[n] # None /\ public[n] # None
             /\ store'.pairs[n].private = private[n] /\ store'.pairs[n].public = public[n]
      BY <3>1, CaptureFacts DEF MigrationInv
    <3> QED
      BY <2>1, <3>2, <3>3 DEF StoredMatch, Agree
  <2> QED
    BY <2>2, <2>3
<1>22. ASSUME NEW name \in Names, Delete(name) PROVE StoredMatch(n)'
  BY <1>22 DEF Delete, files, history, PairsInv, StoredMatch, MigrationInv, StateTypes, StoreTyped
<1>23. ASSUME NEW name \in Names, NEW passphrase \in Passphrases, ReadForPassphrase(name, passphrase)
       PROVE  StoredMatch(n)'
  BY <1>23
     DEF ReadForPassphrase, files, history, PairsInv, StoredMatch, MigrationInv, StateTypes,
          StoreTyped
<1>24. CASE ReplacePrivate
  BY <1>24
     DEF ReplacePrivate, files, history, PairsInv, StoredMatch, MigrationInv, StateTypes, StoreTyped
<1>25. CASE Recapture
  <2>0. n \notin raced /\ ui.name \in Names /\ ui.do \in Holding
    BY <1>25 DEF Recapture, history, MigrationInv, StateTypes, UiTyped, GoodUi, NameSteps, Holding
  <2>1. HoldsPair(n) /\ StoredMatch(n)
    BY <2>0 DEF PairsInv
  <2>2. ui.name = n => Agree(n)
    BY <2>0, <2>1 DEF HoldsPair
  <2>3. \/ store'.pairs[n] = store.pairs[n]
        \/ /\ ui.name = n /\ private[n] # None /\ public[n] # None
           /\ store'.pairs[n].private = private[n] /\ store'.pairs[n].public = public[n]
    BY <1>25, <2>0, CaptureFacts DEF Recapture, MigrationInv
  <2> QED
    BY <2>1, <2>2, <2>3 DEF StoredMatch, Agree
<1>26. CASE Rollback
  BY <1>26 DEF Rollback, files, history, PairsInv, StoredMatch, MigrationInv, StateTypes, StoreTyped
<1>27. CASE UNCHANGED stateVars
  BY <1>27
     DEF stateVars, files, history, PairsInv, StoredMatch, MigrationInv, StateTypes, StoreTyped
<1>28. ASSUME NEW path \in TextPaths, NEW line \in Lines, CommitKnownHostLine(path, line)
       PROVE  StoredMatch(n)'
  <2>1. PICK text \in SUBSET Lines : Commit(path, text)
    BY <1>28, KnownLine DEF MigrationInv
  <2> QED
    BY <2>1, <1>9
<1> QED
  BY <1>1, <1>2, <1>3, <1>4, <1>5, <1>6, <1>7, <1>8, <1>9, <1>10, <1>11, <1>12, <1>13, <1>14, <1>15,
       <1>16, <1>17, <1>18, <1>19, <1>20, <1>21, <1>22, <1>23, <1>24, <1>25, <1>26, <1>27, <1>28
     DEF StateNext

LEMMA HoldsPairStep ==
  ASSUME MigrationInv, PairsInv, NEW n \in Names \ raced', [StateNext]_stateVars
  PROVE  HoldsPair(n)'
<1>1. CASE Die
  BY <1>1, StateAssumption, UiFacts, DoFacts
     DEF Die, files, history, MigrationInv, StateTypes, UiTyped, GoodUi, UiRecords, FilesTyped,
          PairsInv, HoldsPair, Holding, NameSteps, Starting, WorksOn, Agree, Verified, GiveUp
<1>2. CASE Initialize
  BY <1>2, StateAssumption, UiFacts, DoFacts
     DEF Initialize, files, history, MigrationInv, StateTypes, UiTyped, GoodUi, UiRecords,
          FilesTyped, PairsInv, HoldsPair, Holding, NameSteps, Starting, WorksOn, Agree, Verified,
          GiveUp
<1>3. CASE ListKeys
  BY <1>3, StateAssumption, UiFacts, DoFacts
     DEF ListKeys, files, history, MigrationInv, StateTypes, UiTyped, GoodUi, UiRecords, FilesTyped,
          PairsInv, HoldsPair, Holding, NameSteps, Starting, WorksOn, Agree, Verified, GiveUp
<1>4. CASE FinishLegacyMigration
  BY <1>4, StateAssumption, UiFacts, DoFacts
     DEF FinishLegacyMigration, files, history, MigrationInv, StateTypes, UiTyped, GoodUi,
          UiRecords, FilesTyped, PairsInv, HoldsPair, Holding, NameSteps, Starting, WorksOn, Agree,
          Verified, GiveUp
<1>5. CASE StartIsOver
  BY <1>5, StateAssumption, UiFacts, DoFacts
     DEF StartIsOver, files, history, MigrationInv, StateTypes, UiTyped, GoodUi, UiRecords,
          FilesTyped, PairsInv, HoldsPair, Holding, NameSteps, Starting, WorksOn, Agree, Verified,
          GiveUp
<1>6. ASSUME NEW item \in ui.todo, RestoreSshProjection(item) PROVE HoldsPair(n)'
  BY <1>6, StateAssumption, UiFacts, DoFacts
     DEF RestoreSshProjection, files, history, MigrationInv, StateTypes, UiTyped, GoodUi, UiRecords,
          FilesTyped, PairsInv, HoldsPair, Holding, NameSteps, Starting, WorksOn, Agree, Verified,
          GiveUp
<1>7. ASSUME NEW item \in ui.todo, Migrate(item) PROVE HoldsPair(n)'
  BY <1>7, StateAssumption, UiFacts, DoFacts
     DEF Migrate, files, history, MigrationInv, StateTypes, UiTyped, GoodUi, UiRecords, FilesTyped,
          PairsInv, HoldsPair, Holding, NameSteps, Starting, WorksOn, Agree, Verified, GiveUp
<1>8. ASSUME NEW item \in ui.todo, ReconcileVerifiedKeys(item) PROVE HoldsPair(n)'
  BY <1>8, StateAssumption, UiFacts, DoFacts
     DEF ReconcileVerifiedKeys, files, history, MigrationInv, StateTypes, UiTyped, GoodUi,
          UiRecords, FilesTyped, PairsInv, HoldsPair, Holding, NameSteps, Starting, WorksOn, Agree,
          Verified, GiveUp
<1>9. ASSUME NEW path \in TextPaths, NEW text \in SUBSET Lines, Commit(path, text)
      PROVE  HoldsPair(n)'
  BY <1>9, StateAssumption, UiFacts, DoFacts
     DEF Commit, files, history, MigrationInv, StateTypes, UiTyped, GoodUi, UiRecords, FilesTyped,
          PairsInv, HoldsPair, Holding, NameSteps, Starting, WorksOn, Agree, Verified, GiveUp
<1>10. CASE WriteTextFile
  BY <1>10, StateAssumption, UiFacts, DoFacts
     DEF WriteTextFile, files, history, MigrationInv, StateTypes, UiTyped, GoodUi, UiRecords,
          FilesTyped, PairsInv, HoldsPair, Holding, NameSteps, Starting, WorksOn, Agree, Verified,
          GiveUp
<1>11. CASE RemoveFiles
  BY <1>11, StateAssumption, UiFacts, DoFacts
     DEF RemoveFiles, files, history, MigrationInv, StateTypes, UiTyped, GoodUi, UiRecords,
          FilesTyped, PairsInv, HoldsPair, Holding, NameSteps, Starting, WorksOn, Agree, Verified,
          GiveUp
<1>12. ASSUME NEW name \in Names, NEW source \in Sources, NEW passphrase \in Passphrases, Import(name, source, passphrase)
       PROVE  HoldsPair(n)'
  BY <1>12, StateAssumption, UiFacts, DoFacts
     DEF Import, files, history, MigrationInv, StateTypes, UiTyped, GoodUi, UiRecords, FilesTyped,
          PairsInv, HoldsPair, Holding, NameSteps, Starting, WorksOn, Agree, Verified, GiveUp
<1>13. CASE ImportPrivate
  BY <1>13, StateAssumption, UiFacts, DoFacts
     DEF ImportPrivate, files, history, MigrationInv, StateTypes, UiTyped, GoodUi, UiRecords,
          FilesTyped, PairsInv, HoldsPair, Holding, NameSteps, Starting, WorksOn, Agree, Verified,
          GiveUp
<1>14. CASE ImportPublic
  <2>1. ui.name \in Names /\ private' = private
    BY <1>14 DEF ImportPublic, MigrationInv, StateTypes, UiTyped, GoodUi, NameSteps
  <2>2. CASE ui'.do = "importVerify" /\ ui'.name = n
    <3>1. private[n] # None /\ public' = [public EXCEPT ![n] = private[n].key]
      BY <1>14, <2>1, <2>2, DoFacts DEF ImportPublic, GiveUp
    <3>2. private[n].key \in Keys
      BY <2>1, <2>2, <3>1 DEF MigrationInv, StateTypes, FilesTyped, PrivateKeys
    <3>3. public'[n] = private[n].key /\ public'[n] # None
      BY <3>1, <3>2, StateAssumption DEF Keys, MigrationInv, StateTypes, FilesTyped
    <3> QED
      BY <2>1, <2>2, <3>1, <3>3 DEF HoldsPair, Agree
  <2>3. CASE ~(ui'.do = "importVerify" /\ ui'.name = n)
    BY <1>14, <2>3, DoFacts DEF ImportPublic, GiveUp, HoldsPair, Holding
  <2> QED
    BY <2>2, <2>3
<1>15. CASE ImportVerify
  BY <1>15, StateAssumption, UiFacts, DoFacts
     DEF ImportVerify, files, history, MigrationInv, StateTypes, UiTyped, GoodUi, UiRecords,
          FilesTyped, PairsInv, HoldsPair, Holding, NameSteps, Starting, WorksOn, Agree, Verified,
          GiveUp
<1>16. CASE ImportCapture
  BY <1>16, StateAssumption, UiFacts, DoFacts
     DEF ImportCapture, Capture, files, history, MigrationInv, StateTypes, UiTyped, GoodUi,
          UiRecords, FilesTyped, PairsInv, HoldsPair, Holding, NameSteps, Starting, WorksOn, Agree,
          Verified, GiveUp
<1>17. ASSUME NEW g \in Generators, NEW name \in Names, Generate(g, name) PROVE HoldsPair(n)'
  BY <1>17, StateAssumption, UiFacts, DoFacts
     DEF Generate, files, history, MigrationInv, StateTypes, UiTyped, GoodUi, UiRecords, FilesTyped,
          PairsInv, HoldsPair, Holding, NameSteps, Starting, WorksOn, Agree, Verified, GiveUp
<1>18. ASSUME NEW g \in Generators, NativeCheck(g) PROVE HoldsPair(n)'
  <2>1. OneGeneration(n) /\ HoldsPair(n) /\ GeneratesPair(n) /\ n \notin raced
    BY <1>18 DEF NativeCheck, history, PairsInv
  <2>2. ui' = ui
    BY <1>18 DEF NativeCheck
  <2>3. SUFFICES ASSUME ui.name = n, ui.do \in Holding PROVE HoldsPair(n)'
    BY <2>2 DEF HoldsPair
  <2>4. /\ public[n] # None /\ Agree(n)
        /\ private[n] = None =>
             \A h \in Generators : WorksOn(h, n) => generators[h].stage \notin {"check", "private"}
        /\ ui.do = "replacePrivate" => ui.held.key = public[n]
    BY <2>1, <2>3 DEF HoldsPair
  <2>5. UNCHANGED <<private, public>>
    BY <1>18 DEF NativeCheck, files
  <2>6. \A h \in Generators :
          /\ generators'[h].name = generators[h].name
          /\ generators'[h].stage = IF h = g THEN IF Exists(generators[g].name) THEN "failed" ELSE "private"
                                    ELSE generators[h].stage
    BY <1>18, BecomeFacts DEF NativeCheck, MigrationInv, StateTypes
  <2> QED
    BY <2>2, <2>4, <2>5, <2>6 DEF HoldsPair, WorksOn, Exists, Agree
<1>19. ASSUME NEW g \in Generators, NativePrivate(g) PROVE HoldsPair(n)'
  <2>1. OneGeneration(n) /\ HoldsPair(n) /\ GeneratesPair(n) /\ n \notin raced
    BY <1>19 DEF NativePrivate, history, PairsInv
  <2>2. ui' = ui
    BY <1>19 DEF NativePrivate
  <2>3. SUFFICES ASSUME ui.name = n, ui.do \in Holding PROVE HoldsPair(n)'
    BY <2>2 DEF HoldsPair
  <2>4. /\ public[n] # None /\ Agree(n)
        /\ private[n] = None =>
             \A h \in Generators : WorksOn(h, n) => generators[h].stage \notin {"check", "private"}
        /\ ui.do = "replacePrivate" => ui.held.key = public[n]
    BY <2>1, <2>3 DEF HoldsPair
  <2>5. public' = public /\ generators[g].stage = "private"
    BY <1>19 DEF NativePrivate
  <2>6. private'[n] = private[n]
    <3>1. CASE generators[g].name = n
      <4>1. private[n] # None
        BY <2>4, <2>5, <3>1 DEF WorksOn
      <4> QED
        BY <1>19, <3>1, <4>1 DEF NativePrivate
    <3>2. CASE generators[g].name # n
      BY <1>19, <3>2 DEF NativePrivate, MigrationInv, StateTypes, FilesTyped
    <3> QED
      BY <3>1, <3>2
  <2>7. \E stage \in {"failed", "public"} : Become(g, stage)
    BY <1>19 DEF NativePrivate
  <2>8. \A h \in Generators :
          /\ generators'[h].name = generators[h].name
          /\ generators'[h].stage = generators[h].stage \/ generators'[h].stage \in {"failed", "public"}
    BY <2>7, BecomeFacts DEF MigrationInv, StateTypes
  <2> QED
    BY <2>2, <2>4, <2>5, <2>6, <2>8 DEF HoldsPair, WorksOn, Agree
<1>20. ASSUME NEW g \in Generators, NativePublic(g) PROVE HoldsPair(n)'
  <2>1. OneGeneration(n) /\ HoldsPair(n) /\ GeneratesPair(n) /\ n \notin raced
    BY <1>20 DEF NativePublic, history, PairsInv
  <2>2. ui' = ui
    BY <1>20 DEF NativePublic
  <2>3. SUFFICES ASSUME ui.name = n, ui.do \in Holding PROVE HoldsPair(n)'
    BY <2>2 DEF HoldsPair
  <2>4. /\ public[n] # None /\ Agree(n)
        /\ private[n] = None =>
             \A h \in Generators : WorksOn(h, n) => generators[h].stage \notin {"check", "private"}
        /\ ui.do = "replacePrivate" => ui.held.key = public[n]
    BY <2>1, <2>3 DEF HoldsPair
  <2>5. CASE generators[g].name = n
    <3>1. public' = public /\ private' = [private EXCEPT ![n] = None] /\ Become(g, "failed")
      BY <1>20, <2>4, <2>5 DEF NativePublic
    <3>2. private'[n] = None
      BY <3>1 DEF MigrationInv, StateTypes, FilesTyped
    <3>3. \A h \in Generators :
            /\ generators'[h].name = generators[h].name
            /\ generators'[h].stage = IF h = g THEN "failed" ELSE generators[h].stage
      BY <3>1, BecomeFacts DEF MigrationInv, StateTypes
    <3>4. \A h \in Generators : generators[h].name = n => h = g
      BY <2>1, <2>5 DEF OneGeneration, WorksOn
    <3> QED
      BY <2>2, <2>4, <3>1, <3>2, <3>3, <3>4 DEF HoldsPair, WorksOn, Agree
  <2>6. CASE generators[g].name # n
    <3>1. private'[n] = private[n] /\ public'[n] = public[n]
      BY <1>20, <2>6 DEF NativePublic, MigrationInv, StateTypes, FilesTyped
    <3>2. \E stage \in {"failed", "done"} : Become(g, stage)
      BY <1>20 DEF NativePublic
    <3>3. \A h \in Generators :
            /\ generators'[h].name = generators[h].name
            /\ generators'[h].stage = generators[h].stage \/ generators'[h].stage \in {"failed", "done"}
      BY <3>2, BecomeFacts DEF MigrationInv, StateTypes
    <3> QED
      BY <2>2, <2>4, <3>1, <3>3 DEF HoldsPair, WorksOn, Agree
  <2> QED
    BY <2>5, <2>6
<1>21. ASSUME NEW g \in Generators, Generated(g) PROVE HoldsPair(n)'
  BY <1>21, StateAssumption, UiFacts, DoFacts
     DEF Generated, Capture, files, history, MigrationInv, StateTypes, UiTyped, GoodUi, UiRecords,
          FilesTyped, PairsInv, HoldsPair, Holding, NameSteps, Starting, WorksOn, Agree, Verified,
          GiveUp
<1>22. ASSUME NEW name \in Names, Delete(name) PROVE HoldsPair(n)'
  BY <1>22, StateAssumption, UiFacts, DoFacts
     DEF Delete, files, history, MigrationInv, StateTypes, UiTyped, GoodUi, UiRecords, FilesTyped,
          PairsInv, HoldsPair, Holding, NameSteps, Starting, WorksOn, Agree, Verified, GiveUp
<1>23. ASSUME NEW name \in Names, NEW passphrase \in Passphrases, ReadForPassphrase(name, passphrase)
       PROVE  HoldsPair(n)'
  <2>1. /\ UNCHANGED <<private, public>> /\ Verified(name) /\ ui'.name = name
        /\ ui'.held = [private[name] EXCEPT !.passphrase = passphrase]
    BY <1>23, DoFacts DEF ReadForPassphrase, files
  <2>2. private[name] \in PrivateKeys
    BY <2>1 DEF Verified, MigrationInv, StateTypes, FilesTyped
  <2>3. [private[name] EXCEPT !.passphrase = passphrase].key = private[name].key
    BY <2>2 DEF PrivateKeys
  <2> QED
    BY <2>1, <2>3 DEF HoldsPair, Verified, Agree
<1>24. CASE ReplacePrivate
  BY <1>24, StateAssumption, UiFacts, DoFacts
     DEF ReplacePrivate, files, history, MigrationInv, StateTypes, UiTyped, GoodUi, UiRecords,
          FilesTyped, PairsInv, HoldsPair, Holding, NameSteps, Starting, WorksOn, Agree, Verified,
          GiveUp
<1>25. CASE Recapture
  BY <1>25, StateAssumption, UiFacts, DoFacts
     DEF Recapture, Capture, files, history, MigrationInv, StateTypes, UiTyped, GoodUi, UiRecords,
          FilesTyped, PairsInv, HoldsPair, Holding, NameSteps, Starting, WorksOn, Agree, Verified,
          GiveUp
<1>26. CASE Rollback
  BY <1>26, StateAssumption, UiFacts, DoFacts
     DEF Rollback, files, history, MigrationInv, StateTypes, UiTyped, GoodUi, UiRecords, FilesTyped,
          PairsInv, HoldsPair, Holding, NameSteps, Starting, WorksOn, Agree, Verified, GiveUp
<1>27. CASE UNCHANGED stateVars
  BY <1>27, StateAssumption, UiFacts, DoFacts
     DEF stateVars, files, history, MigrationInv, StateTypes, UiTyped, GoodUi, UiRecords,
          FilesTyped, PairsInv, HoldsPair, Holding, NameSteps, Starting, WorksOn, Agree, Verified,
          GiveUp
<1>28. ASSUME NEW path \in TextPaths, NEW line \in Lines, CommitKnownHostLine(path, line)
       PROVE  HoldsPair(n)'
  <2>1. PICK text \in SUBSET Lines : Commit(path, text)
    BY <1>28, KnownLine DEF MigrationInv
  <2> QED
    BY <2>1, <1>9
<1> QED
  BY <1>1, <1>2, <1>3, <1>4, <1>5, <1>6, <1>7, <1>8, <1>9, <1>10, <1>11, <1>12, <1>13, <1>14, <1>15,
       <1>16, <1>17, <1>18, <1>19, <1>20, <1>21, <1>22, <1>23, <1>24, <1>25, <1>26, <1>27, <1>28
     DEF StateNext

LEMMA GeneratesPairStep ==
  ASSUME MigrationInv, PairsInv, NEW n \in Names \ raced', [StateNext]_stateVars
  PROVE  GeneratesPair(n)'
<1>1. CASE Die
  <2>1. \A h \in Generators : generators'[h].stage = "none"
    BY <1>1 DEF Die, NoGeneration, MigrationInv, StartAlone, NoGenerators, Starting
  <2> QED
    BY <2>1 DEF GeneratesPair
<1>2. CASE Initialize
  BY <1>2, StateAssumption, UiFacts, DoFacts
     DEF Initialize, files, history, MigrationInv, StateTypes, UiTyped, GoodUi, UiRecords,
          FilesTyped, PairsInv, HoldsPair, GeneratesPair, Holding, Overwrites, Import1, NameSteps,
          Starting, WorksOn, Agree, Verified, GiveUp
<1>3. CASE ListKeys
  BY <1>3, StateAssumption, UiFacts, DoFacts
     DEF ListKeys, files, history, MigrationInv, StateTypes, UiTyped, GoodUi, UiRecords, FilesTyped,
          PairsInv, HoldsPair, GeneratesPair, Holding, Overwrites, Import1, NameSteps, Starting,
          WorksOn, Agree, Verified, GiveUp
<1>4. CASE FinishLegacyMigration
  BY <1>4, StateAssumption, UiFacts, DoFacts
     DEF FinishLegacyMigration, files, history, MigrationInv, StateTypes, UiTyped, GoodUi,
          UiRecords, FilesTyped, PairsInv, HoldsPair, GeneratesPair, Holding, Overwrites, Import1,
          NameSteps, Starting, WorksOn, Agree, Verified, GiveUp
<1>5. CASE StartIsOver
  BY <1>5, StateAssumption, UiFacts, DoFacts
     DEF StartIsOver, files, history, MigrationInv, StateTypes, UiTyped, GoodUi, UiRecords,
          FilesTyped, PairsInv, HoldsPair, GeneratesPair, Holding, Overwrites, Import1, NameSteps,
          Starting, WorksOn, Agree, Verified, GiveUp
<1>6. ASSUME NEW item \in ui.todo, RestoreSshProjection(item) PROVE GeneratesPair(n)'
  <2>1. \A h \in Generators : generators'[h].stage = "none"
    BY <1>6 DEF RestoreSshProjection, NoGeneration, MigrationInv, StartAlone, NoGenerators, Starting
  <2> QED
    BY <2>1 DEF GeneratesPair
<1>7. ASSUME NEW item \in ui.todo, Migrate(item) PROVE GeneratesPair(n)'
  BY <1>7, StateAssumption, UiFacts, DoFacts
     DEF Migrate, files, history, MigrationInv, StateTypes, UiTyped, GoodUi, UiRecords, FilesTyped,
          PairsInv, HoldsPair, GeneratesPair, Holding, Overwrites, Import1, NameSteps, Starting,
          WorksOn, Agree, Verified, GiveUp
<1>8. ASSUME NEW item \in ui.todo, ReconcileVerifiedKeys(item) PROVE GeneratesPair(n)'
  <2>1. \A h \in Generators : generators'[h].stage = "none"
    BY <1>8 DEF ReconcileVerifiedKeys, NoGeneration, MigrationInv, StartAlone, NoGenerators, Starting
  <2> QED
    BY <2>1 DEF GeneratesPair
<1>9. ASSUME NEW path \in TextPaths, NEW text \in SUBSET Lines, Commit(path, text)
      PROVE  GeneratesPair(n)'
  BY <1>9, StateAssumption, UiFacts, DoFacts
     DEF Commit, files, history, MigrationInv, StateTypes, UiTyped, GoodUi, UiRecords, FilesTyped,
          PairsInv, HoldsPair, GeneratesPair, Holding, Overwrites, Import1, NameSteps, Starting,
          WorksOn, Agree, Verified, GiveUp
<1>10. CASE WriteTextFile
  BY <1>10, StateAssumption, UiFacts, DoFacts
     DEF WriteTextFile, files, history, MigrationInv, StateTypes, UiTyped, GoodUi, UiRecords,
          FilesTyped, PairsInv, HoldsPair, GeneratesPair, Holding, Overwrites, Import1, NameSteps,
          Starting, WorksOn, Agree, Verified, GiveUp
<1>11. CASE RemoveFiles
  BY <1>11, StateAssumption, UiFacts, DoFacts
     DEF RemoveFiles, files, history, MigrationInv, StateTypes, UiTyped, GoodUi, UiRecords,
          FilesTyped, PairsInv, HoldsPair, GeneratesPair, Holding, Overwrites, Import1, NameSteps,
          Starting, WorksOn, Agree, Verified, GiveUp
<1>12. ASSUME NEW name \in Names, NEW source \in Sources, NEW passphrase \in Passphrases, Import(name, source, passphrase)
       PROVE  GeneratesPair(n)'
  BY <1>12, StateAssumption, UiFacts, DoFacts
     DEF Import, files, history, MigrationInv, StateTypes, UiTyped, GoodUi, UiRecords, FilesTyped,
          PairsInv, HoldsPair, GeneratesPair, Holding, Overwrites, Import1, NameSteps, Starting,
          WorksOn, Agree, Verified, GiveUp
<1>13. CASE ImportPrivate
  BY <1>13, StateAssumption, UiFacts, DoFacts
     DEF ImportPrivate, files, history, MigrationInv, StateTypes, UiTyped, GoodUi, UiRecords,
          FilesTyped, PairsInv, HoldsPair, GeneratesPair, Holding, Overwrites, Import1, NameSteps,
          Starting, WorksOn, Agree, Verified, GiveUp
<1>14. CASE ImportPublic
  <2>1. /\ ui.name \in Names /\ private' = private /\ generators' = generators
        /\ ui.do = "importPublic"
    BY <1>14 DEF ImportPublic, MigrationInv, StateTypes, UiTyped, GoodUi, NameSteps
  <2>2. GeneratesPair(n)
    BY <1>14 DEF ImportPublic, history, PairsInv
  <2>3. ui'.name = ui.name /\ ui'.do \in {"importVerify", "removePrivate"}
    BY <1>14, DoFacts DEF ImportPublic, GiveUp
  <2>4. CASE ui.name # n
    <3>1. public'[n] = public[n]
      BY <1>14, <2>4 DEF ImportPublic, MigrationInv, StateTypes, FilesTyped
    <3> QED
      BY <2>1, <2>2, <2>3, <2>4, <3>1 DEF GeneratesPair, Overwrites, WorksOn, Agree
  <2>5. CASE ui.name = n /\ ui'.do = "removePrivate"
    BY <2>3, <2>5 DEF GeneratesPair, Overwrites
  <2>6. CASE ui.name = n /\ ui'.do = "importVerify"
    <3>1. private[n] # None /\ public' = [public EXCEPT ![n] = private[n].key]
      BY <1>14, <2>6, DoFacts DEF ImportPublic, GiveUp
    <3>2. private[n].key \in Keys
      BY <2>1, <2>6, <3>1 DEF MigrationInv, StateTypes, FilesTyped, PrivateKeys
    <3>3. public'[n] = private[n].key /\ public'[n] # None
      BY <3>1, <3>2, StateAssumption DEF Keys, MigrationInv, StateTypes, FilesTyped
    <3> QED
      BY <2>1, <2>6, <3>3 DEF GeneratesPair, Agree
  <2> QED
    BY <2>3, <2>4, <2>5, <2>6
<1>15. CASE ImportVerify
  BY <1>15, StateAssumption, UiFacts, DoFacts
     DEF ImportVerify, files, history, MigrationInv, StateTypes, UiTyped, GoodUi, UiRecords,
          FilesTyped, PairsInv, HoldsPair, GeneratesPair, Holding, Overwrites, Import1, NameSteps,
          Starting, WorksOn, Agree, Verified, GiveUp
<1>16. CASE ImportCapture
  BY <1>16, StateAssumption, UiFacts, DoFacts
     DEF ImportCapture, Capture, files, history, MigrationInv, StateTypes, UiTyped, GoodUi,
          UiRecords, FilesTyped, PairsInv, HoldsPair, GeneratesPair, Holding, Overwrites, Import1,
          NameSteps, Starting, WorksOn, Agree, Verified, GiveUp
<1>17. ASSUME NEW g \in Generators, NEW name \in Names, Generate(g, name) PROVE GeneratesPair(n)'
  BY <1>17, StateAssumption, UiFacts, DoFacts
     DEF Generate, files, history, MigrationInv, StateTypes, UiTyped, GoodUi, UiRecords, FilesTyped,
          PairsInv, HoldsPair, GeneratesPair, Holding, Overwrites, Import1, NameSteps, Starting,
          WorksOn, Agree, Verified, GiveUp
<1>18. ASSUME NEW g \in Generators, NativeCheck(g) PROVE GeneratesPair(n)'
  BY <1>18, StateAssumption, UiFacts, DoFacts
     DEF NativeCheck, Become, files, history, MigrationInv, StateTypes, UiTyped, GoodUi, UiRecords,
          FilesTyped, PairsInv, HoldsPair, GeneratesPair, Holding, Overwrites, Import1, NameSteps,
          Starting, WorksOn, Agree, Verified, GiveUp
<1>19. ASSUME NEW g \in Generators, NativePrivate(g) PROVE GeneratesPair(n)'
  <2>1. OneGeneration(n) /\ GeneratesPair(n) /\ ui' = ui /\ public' = public
    BY <1>19 DEF NativePrivate, history, PairsInv
  <2>2. PICK stage \in {"failed", "public"} : Become(g, stage)
    BY <1>19 DEF NativePrivate
  <2>3. \A h \in Generators :
          /\ generators'[h].name = generators[h].name
          /\ generators'[h].stage = IF h = g THEN stage ELSE generators[h].stage
    BY <2>2, BecomeFacts DEF MigrationInv, StateTypes
  <2>4. CASE generators[g].name # n
    <3>1. private'[n] = private[n]
      BY <1>19, <2>4 DEF NativePrivate, MigrationInv, StateTypes, FilesTyped
    <3> QED
      BY <2>1, <2>3, <2>4, <3>1 DEF GeneratesPair, Overwrites, WorksOn, Agree
  <2>5. CASE generators[g].name = n
    <3>1. \A h \in Generators : generators[h].name = n => h = g
      BY <2>1, <2>5 DEF OneGeneration, WorksOn
    <3>2. stage = "public" => private'[n].key = g
      <4>1. CASE private[n] # None
        <5>1. Become(g, "failed")
          BY <1>19, <2>5, <4>1 DEF NativePrivate
        <5>2. generators'[g].stage = "failed"
          BY <5>1, BecomeFacts DEF MigrationInv, StateTypes
        <5> QED
          BY <2>3, <5>2
      <4>2. CASE private[n] = None
        <5>1. PICK passphrase \in Passphrases :
                private' = [private EXCEPT ![n] = [key |-> g, passphrase |-> passphrase]]
          BY <1>19, <2>5, <4>2 DEF NativePrivate
        <5>2. private'[n] = [key |-> g, passphrase |-> passphrase]
          BY <5>1 DEF MigrationInv, StateTypes, FilesTyped
        <5> QED
          BY <5>2
      <4> QED
        BY <4>1, <4>2
    <3> QED
      BY <2>3, <3>1, <3>2 DEF GeneratesPair, WorksOn
  <2> QED
    BY <2>4, <2>5
<1>20. ASSUME NEW g \in Generators, NativePublic(g) PROVE GeneratesPair(n)'
  <2>1. OneGeneration(n) /\ GeneratesPair(n) /\ ui' = ui /\ generators[g].stage = "public"
    BY <1>20 DEF NativePublic, history, PairsInv
  <2>2. PICK stage \in {"failed", "done"} : Become(g, stage)
    BY <1>20 DEF NativePublic
  <2>3. \A h \in Generators :
          /\ generators'[h].name = generators[h].name
          /\ generators'[h].stage = IF h = g THEN stage ELSE generators[h].stage
    BY <2>2, BecomeFacts DEF MigrationInv, StateTypes
  <2>4. CASE generators[g].name # n
    <3>1. private'[n] = private[n] /\ public'[n] = public[n]
      BY <1>20, <2>4 DEF NativePublic, MigrationInv, StateTypes, FilesTyped
    <3> QED
      BY <2>1, <2>3, <2>4, <3>1 DEF GeneratesPair, Overwrites, WorksOn, Agree
  <2>5. CASE generators[g].name = n
    <3>1. \A h \in Generators : generators[h].name = n => h = g
      BY <2>1, <2>5 DEF OneGeneration, WorksOn
    <3>2. CASE public[n] # None
      <4>1. Become(g, "failed")
        BY <1>20, <2>5, <3>2 DEF NativePublic
      <4>2. generators'[g].stage = "failed"
        BY <4>1, BecomeFacts DEF MigrationInv, StateTypes
      <4> QED
        BY <2>3, <3>1, <4>2 DEF GeneratesPair, WorksOn
    <3>3. CASE public[n] = None
      <4>1. private' = private /\ public'[n] = g
        BY <1>20, <2>5, <3>3 DEF NativePublic, MigrationInv, StateTypes, FilesTyped
      <4>2. private[n] # None /\ ~Overwrites(n) => private[n].key = g
        BY <2>1, <2>5, <3>3 DEF GeneratesPair, WorksOn
      <4>3. Overwrites(n)' = Overwrites(n)
        BY <2>1 DEF Overwrites
      <4> QED
        BY <2>3, <3>1, <4>1, <4>2, <4>3 DEF GeneratesPair, WorksOn, Agree
    <3> QED
      BY <3>2, <3>3
  <2> QED
    BY <2>4, <2>5
<1>21. ASSUME NEW g \in Generators, Generated(g) PROVE GeneratesPair(n)'
  <2>1. GeneratesPair(n) /\ ui = Idle /\ UNCHANGED <<private, public>>
    BY <1>21 DEF Generated, files, history, PairsInv
  <2>2. \A h \in Generators :
          generators'[h] = IF h = g THEN NoGeneration ELSE generators[h]
    BY <1>21 DEF Generated, MigrationInv, StateTypes, GeneratorsTyped
  <2>3. ui' = Idle \/ ui'.do = "removePrivate"
    BY <1>21, DoFacts DEF Generated, Capture, GiveUp
  <2> QED
    BY <2>1, <2>2, <2>3, UiFacts DEF GeneratesPair, NoGeneration, Overwrites, Import1, WorksOn, Agree
<1>22. ASSUME NEW name \in Names, Delete(name) PROVE GeneratesPair(n)'
  BY <1>22, StateAssumption, UiFacts, DoFacts
     DEF Delete, files, history, MigrationInv, StateTypes, UiTyped, GoodUi, UiRecords, FilesTyped,
          PairsInv, HoldsPair, GeneratesPair, Holding, Overwrites, Import1, NameSteps, Starting,
          WorksOn, Agree, Verified, GiveUp
<1>23. ASSUME NEW name \in Names, NEW passphrase \in Passphrases, ReadForPassphrase(name, passphrase)
       PROVE  GeneratesPair(n)'
  BY <1>23, StateAssumption, UiFacts, DoFacts
     DEF ReadForPassphrase, files, history, MigrationInv, StateTypes, UiTyped, GoodUi, UiRecords,
          FilesTyped, PairsInv, HoldsPair, GeneratesPair, Holding, Overwrites, Import1, NameSteps,
          Starting, WorksOn, Agree, Verified, GiveUp
<1>24. CASE ReplacePrivate
  BY <1>24, StateAssumption, UiFacts, DoFacts
     DEF ReplacePrivate, files, history, MigrationInv, StateTypes, UiTyped, GoodUi, UiRecords,
          FilesTyped, PairsInv, HoldsPair, GeneratesPair, Holding, Overwrites, Import1, NameSteps,
          Starting, WorksOn, Agree, Verified, GiveUp
<1>25. CASE Recapture
  BY <1>25, StateAssumption, UiFacts, DoFacts
     DEF Recapture, Capture, files, history, MigrationInv, StateTypes, UiTyped, GoodUi, UiRecords,
          FilesTyped, PairsInv, HoldsPair, GeneratesPair, Holding, Overwrites, Import1, NameSteps,
          Starting, WorksOn, Agree, Verified, GiveUp
<1>26. CASE Rollback
  <2>1. GeneratesPair(n) /\ HoldsPair(n) /\ UNCHANGED <<public, generators>>
    BY <1>26 DEF Rollback, history, PairsInv
  <2>2. ui.do = "rollback" /\ ui' = Idle /\ ui.name \in Names
    BY <1>26 DEF Rollback, MigrationInv, StateTypes, UiTyped, GoodUi, NameSteps
  <2>3. CASE ui.name # n \/ private' = private
    <3>1. private'[n] = private[n]
      BY <1>26, <2>3 DEF Rollback, MigrationInv, StateTypes, FilesTyped
    <3> QED
      BY <2>1, <2>2, <3>1, UiFacts DEF GeneratesPair, Overwrites, Import1, WorksOn, Agree
  <2>4. CASE ui.name = n /\ private' # private
    <3>1. private[n] \in PrivateKeys
      BY <1>26, <2>2, <2>4 DEF Rollback, MigrationInv, StateTypes, FilesTyped
    <3>2. private'[n] = [private[n] EXCEPT !.passphrase = ui.held.passphrase]
      BY <1>26, <2>2, <2>4 DEF Rollback, MigrationInv, StateTypes, FilesTyped
    <3>3. private'[n].key = private[n].key
      BY <3>1, <3>2 DEF PrivateKeys
    <3>4. public[n] # None /\ private[n].key = public[n]
      BY <2>1, <2>2, <2>4, <3>1, StateAssumption DEF HoldsPair, Holding, Agree
    <3> QED
      BY <2>1, <2>2, <3>3, <3>4, UiFacts DEF GeneratesPair, Agree
  <2> QED
    BY <2>3, <2>4
<1>27. CASE UNCHANGED stateVars
  BY <1>27, StateAssumption, UiFacts, DoFacts
     DEF stateVars, files, history, MigrationInv, StateTypes, UiTyped, GoodUi, UiRecords,
          FilesTyped, PairsInv, HoldsPair, GeneratesPair, Holding, Overwrites, Import1, NameSteps,
          Starting, WorksOn, Agree, Verified, GiveUp
<1>28. ASSUME NEW path \in TextPaths, NEW line \in Lines, CommitKnownHostLine(path, line)
       PROVE  GeneratesPair(n)'
  <2>1. PICK text \in SUBSET Lines : Commit(path, text)
    BY <1>28, KnownLine DEF MigrationInv
  <2> QED
    BY <2>1, <1>9
<1> QED
  BY <1>1, <1>2, <1>3, <1>4, <1>5, <1>6, <1>7, <1>8, <1>9, <1>10, <1>11, <1>12, <1>13, <1>14, <1>15,
       <1>16, <1>17, <1>18, <1>19, <1>20, <1>21, <1>22, <1>23, <1>24, <1>25, <1>26, <1>27, <1>28
     DEF StateNext


LEMMA PairsStep ==
  ASSUME MigrationInv, PairsInv, [StateNext]_stateVars
  PROVE  PairsInv'
BY OneGenerationStep, HoldsPairStep, GeneratesPairStep, StoredMatchStep DEF PairsInv

(* In every instance the private and the public key of a durable pair belong together, for every  *)
(* name of which no two generations were under way at once (captureKeyPair does not compare them). *)
THEOREM PairsMatch == StateSpec => []StoredPairsMatch
<1>1. StateInit => MigrationInv /\ PairsInv
  <2> SUFFICES ASSUME StateInit PROVE MigrationInv /\ PairsInv
    OBVIOUS
  <2>1. /\ ui.do = "start" /\ \A n \in Names : store.pairs[n] = None
        /\ \A g \in Generators : generators[g].name = None
    BY UiFacts DEF StateInit, NoGeneration
  <2> QED
    BY <2>1, MigrationStart, StateAssumption
       DEF PairsInv, OneGeneration, HoldsPair, Holding, GeneratesPair, StoredMatch, WorksOn
<1>2. MigrationInv /\ PairsInv /\ [StateNext]_stateVars => MigrationInv' /\ PairsInv'
  BY MigrationStep, PairsStep
<1>3. MigrationInv /\ PairsInv => StoredPairsMatch
  BY DEF PairsInv, StoredMatch, StoredPairsMatch
<1> QED
  BY <1>1, <1>2, <1>3, PTL DEF StateSpec

=============================================================================
