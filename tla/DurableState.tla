---------------------------- MODULE DurableState ----------------------------
(***************************************************************************)
(* The durable state over the asset store (DurableStateManager) and the     *)
(* files of .ssh that are its projection: the start of the application with *)
(* the migration of old files, the key commands (SshKeyManager), the         *)
(* commits of the configuration and of known hosts.                         *)
(*                                                                         *)
(* The UI thread runs one step of one command at a time; key generation     *)
(* works in threads of its own on the same files.  The process may die      *)
(* between any two steps.  The store behaves as DurableMap: a write that    *)
(* fails has changed nothing, a removal that fails may have removed.         *)
(* FileUtils tells nobody when a file cannot be looked for, listed or         *)
(* removed: a start goes on without it.  In the commands, looking for and     *)
(* removing a file of the application's own directory does not fail.         *)
(***************************************************************************)
EXTENDS Naturals, FiniteSets

CONSTANTS
  TextPaths,     \* config and known_hosts
  Lines,         \* what a text is made of
  Names,         \* key names
  Sources,       \* keys that can be imported
  Generators,    \* key generations of one run of the process; each makes a key of its own
  Passphrases,
  None           \* a file or an entry that is not there

Keys == Sources \cup Generators
PrivateKeys == [key : Keys, passphrase : Passphrases]
Pairs == [private : PrivateKeys, public : Keys]

ASSUME StateAssumption ==
  /\ None \notin Names \cup Sources \cup Generators
  /\ None \notin PrivateKeys /\ None \notin Pairs
  /\ Sources \cap Generators = {}
  /\ Passphrases # {}

VARIABLES
  texts,       \* the text files
  private,     \* the private key files: key and passphrase
  public,      \* the public key files: the key
  store,       \* the durable store: texts, pairs, and the mark _meta/initialized
  pending,     \* legacyMigrationPending
  ui,          \* what the UI thread does next
  generators,  \* the native threads
  fresh,       \* history: the start is over and no command has begun
  overlooked,  \* history: the texts and pairs that an error which nobody is told of hid from
               \* this start, or kept from being removed in it
  legacy,      \* history: the texts and the key pairs of the old version
  accepted,    \* history: the key whose import was reported under a name when no
               \* generation of that name was under way
  raced        \* history: names of which two generations were under way at once

stateVars ==
  <<texts, private, public, store, pending, ui, generators, fresh, overlooked, legacy, accepted,
    raced>>
files == <<texts, private, public>>
history == <<legacy, accepted, raced>>

Down == [do |-> "start", name |-> None, held |-> None, todo |-> {}]
Idle == [Down EXCEPT !.do = "idle"]
Do(step, name, held) == [do |-> step, name |-> name, held |-> held, todo |-> {}]
NoGeneration == [stage |-> "none", name |-> None]

\* listKeys: both files are there and belong together.
Verified(name) == private[name] # None /\ public[name] # None /\ private[name].key = public[name]
VerifiedNames == {n \in Names : Verified(n)}
Exists(name) == private[name] # None \/ public[name] # None

FilePair(name) == [private |-> private[name], public |-> public[name]]

\* An installation of the old version, or none.
StateInit ==
  /\ texts \in [TextPaths -> (SUBSET Lines) \cup {None}]
  /\ \E old \in [Names -> PrivateKeys \cup {None}] :
       /\ \A n \in Names : old[n] # None => old[n].key \in Sources
       /\ private = old
       /\ public = [n \in Names |-> IF old[n] = None THEN None ELSE old[n].key]
  /\ store = [texts |-> [p \in TextPaths |-> None], pairs |-> [n \in Names |-> None],
              initialized |-> FALSE]
  /\ pending = FALSE /\ ui = Down /\ fresh = FALSE /\ overlooked = {}
  /\ generators = [g \in Generators |-> NoGeneration]
  /\ legacy = [texts |-> texts,
               pairs |-> [n \in Names |-> IF private[n] = None THEN None ELSE FilePair(n)]]
  /\ accepted = [n \in Names |-> None] /\ raced = {}

\* The process dies, or onCreate throws.
Die ==
  /\ ui' = Down
  /\ generators' = [g \in Generators |-> NoGeneration]
  /\ fresh' = FALSE /\ overlooked' = {}
  /\ UNCHANGED <<files, store, pending, history>>

-----------------------------------------------------------------------------
(* EntryAbility.onCreate.                                                  *)

Initialize ==
  /\ ui.do = "start"
  /\ pending' = ~store.initialized
  /\ ui' = [ui EXCEPT !.do = "project",
                      !.todo = (TextPaths \X {"text"}) \cup (Names \X {"private", "public"})]
  /\ UNCHANGED <<files, store, generators, fresh, overlooked, history>>

\* restoreSshProjection, one file at a time; a text that cannot be removed stays.
RestoreSshProjection(item) ==
  /\ ui.do = "project" /\ item \in ui.todo
  /\ ui' = [ui EXCEPT !.todo = @ \ {item}]
  /\ LET at == item[1] IN
     CASE item[2] = "text" ->
            /\ \/ /\ texts' = [texts EXCEPT ![at] =
                      IF store.texts[at] = None /\ pending THEN @ ELSE store.texts[at]]
                  /\ UNCHANGED overlooked
               \/ /\ store.texts[at] = None /\ ~pending /\ texts[at] # None
                  /\ overlooked' = overlooked \cup {item}
                  /\ UNCHANGED texts
            /\ UNCHANGED <<private, public>>
       [] item[2] = "private" ->
            /\ private' = [private EXCEPT ![at] =
                 IF store.pairs[at] = None THEN @ ELSE store.pairs[at].private]
            /\ UNCHANGED <<texts, public, overlooked>>
       [] item[2] = "public" ->
            /\ public' = [public EXCEPT ![at] =
                 IF store.pairs[at] = None THEN @ ELSE store.pairs[at].public]
            /\ UNCHANGED <<texts, private, overlooked>>
  /\ UNCHANGED <<store, pending, generators, fresh, history>>

\* The verified keys are listed, but for those that cannot be read, or none when the
\* directory cannot; what is listed is migrated or reconciled.
ListKeys ==
  /\ ui.do = "project" /\ ui.todo = {}
  /\ \E listed \in SUBSET VerifiedNames :
       /\ overlooked' = overlooked \cup ((VerifiedNames \ listed) \X {"pair"})
       /\ ui' = IF pending
                THEN [ui EXCEPT !.do = "migrate",
                                !.todo = (TextPaths \X {"text"}) \cup (listed \X {"pair"})]
                ELSE [ui EXCEPT !.do = "reconcile", !.todo = listed \X {"private", "public"}]
  /\ UNCHANGED <<files, store, pending, generators, fresh, history>>

\* captureLegacySshFile and captureKeyPair: a text that is not there is left out, and one
\* that cannot be looked for as well.
Migrate(item) ==
  /\ ui.do = "migrate" /\ item \in ui.todo
  /\ ui' = [ui EXCEPT !.todo = @ \ {item}]
  /\ LET at == item[1] IN
     \/ /\ item[2] = "pair" /\ store' = [store EXCEPT !.pairs[at] = FilePair(at)]
        /\ UNCHANGED overlooked
     \/ /\ item[2] = "text" /\ texts[at] # None
        /\ store' = [store EXCEPT !.texts[at] = texts[at]]
        /\ UNCHANGED overlooked
     \/ /\ item[2] = "text" /\ UNCHANGED store
        /\ overlooked' = IF texts[at] = None THEN overlooked ELSE overlooked \cup {item}
  /\ UNCHANGED <<files, pending, generators, fresh, history>>

\* Fault: the mark is set before everything is captured.
FinishLegacyMigrationEarly ==
  /\ ui.do = "migrate" /\ Cardinality(ui.todo) < 2
  /\ store' = [store EXCEPT !.initialized = TRUE]
  /\ pending' = FALSE
  /\ ui' = Idle /\ fresh' = TRUE
  /\ UNCHANGED <<files, generators, overlooked, history>>

FinishLegacyMigration ==
  /\ ui.do = "migrate" /\ ui.todo = {}
  /\ store' = [store EXCEPT !.initialized = TRUE]
  /\ pending' = FALSE
  /\ ui' = Idle /\ fresh' = TRUE
  /\ UNCHANGED <<files, generators, overlooked, history>>

\* Fault: a key without a durable pair stays.
ReconcileNothing(item) ==
  /\ ui.do = "reconcile" /\ item \in ui.todo
  /\ ui' = [ui EXCEPT !.todo = @ \ {item}]
  /\ UNCHANGED <<files, store, pending, generators, fresh, overlooked, history>>

\* reconcileVerifiedKeys; a file that cannot be removed stays.
ReconcileVerifiedKeys(item) ==
  /\ ui.do = "reconcile" /\ item \in ui.todo
  /\ ui' = [ui EXCEPT !.todo = @ \ {item}]
  /\ LET keep == store.pairs[item[1]] # None IN
     \/ /\ private' = [private EXCEPT ![item[1]] = IF keep \/ item[2] = "public" THEN @ ELSE None]
        /\ public' = [public EXCEPT ![item[1]] = IF keep \/ item[2] = "private" THEN @ ELSE None]
        /\ UNCHANGED overlooked
     \/ /\ ~keep /\ UNCHANGED <<private, public>>
        /\ overlooked' = overlooked \cup {<<item[1], "pair">>}
  /\ UNCHANGED <<texts, store, pending, generators, fresh, history>>

StartIsOver ==
  /\ ui.do = "reconcile" /\ ui.todo = {}
  /\ ui' = Idle /\ fresh' = TRUE
  /\ UNCHANGED <<files, store, pending, generators, overlooked, history>>

-----------------------------------------------------------------------------
(* The commits.                                                            *)

\* commitSshConfig and commitKnownHostsContent take any text; commitKnownHostLine adds a line
\* to what the store has.
Commit(path, text) ==
  /\ ui = Idle
  /\ fresh' = FALSE /\ overlooked' = {}
  /\ \/ store' = [store EXCEPT !.texts[path] = text] /\ ui' = Do("writeText", path, text)
     \/ UNCHANGED <<store, ui>>
  /\ UNCHANGED <<files, pending, generators, history>>

CommitKnownHostLine(path, line) ==
  Commit(path, (IF store.texts[path] = None THEN {} ELSE store.texts[path]) \cup {line})

WriteTextFile ==
  /\ ui.do = "writeText"
  /\ \/ texts' = [texts EXCEPT ![ui.name] = ui.held]
     \/ UNCHANGED texts
  /\ ui' = Idle
  /\ UNCHANGED <<private, public, store, pending, generators, fresh, overlooked, history>>

-----------------------------------------------------------------------------
(* The key commands.                                                       *)

\* Both files of a name go, one after the other.
RemoveFiles ==
  /\ ui.do \in {"removePrivate", "removePublic"}
  /\ IF ui.do = "removePrivate"
     THEN /\ private' = [private EXCEPT ![ui.name] = None]
          /\ ui' = [ui EXCEPT !.do = "removePublic"]
          /\ UNCHANGED public
     ELSE /\ public' = [public EXCEPT ![ui.name] = None]
          /\ ui' = Idle
          /\ UNCHANGED private
  /\ UNCHANGED <<texts, store, pending, generators, fresh, overlooked, history>>

GiveUp(name) == Do("removePrivate", name, None)

\* captureKeyPair; what is done when it fails is the caller's.
Capture(name, after, failed) ==
  \/ /\ Exists(name) /\ private[name] # None /\ public[name] # None
     /\ store' = [store EXCEPT !.pairs[name] = FilePair(name)]
     /\ ui' = after
  \/ ui' = failed /\ UNCHANGED store

\* Fault: a name that is taken is imported over.
ImportOver(name, source, passphrase) ==
  /\ ui = Idle
  /\ fresh' = FALSE /\ overlooked' = {}
  /\ ui' = Do("importPrivate", name, [key |-> source, passphrase |-> passphrase])
  /\ UNCHANGED <<files, store, pending, generators, history>>

\* importKey.
Import(name, source, passphrase) ==
  /\ ui = Idle /\ ~Exists(name)
  /\ fresh' = FALSE /\ overlooked' = {}
  /\ ui' = Do("importPrivate", name, [key |-> source, passphrase |-> passphrase])
  /\ UNCHANGED <<files, store, pending, generators, history>>

ImportPrivate ==
  /\ ui.do = "importPrivate"
  /\ private' = [private EXCEPT ![ui.name] = ui.held]
  /\ ui' = Do("importPublic", ui.name, None)
  /\ UNCHANGED <<texts, public, store, pending, generators, fresh, overlooked, history>>

\* The public key comes from an inspection of the private file; any error gives up.
ImportPublic ==
  /\ ui.do = "importPublic"
  /\ \/ /\ private[ui.name] # None
        /\ public' = [public EXCEPT ![ui.name] = private[ui.name].key]
        /\ ui' = Do("importVerify", ui.name, None)
     \/ ui' = GiveUp(ui.name) /\ UNCHANGED public
  /\ UNCHANGED <<texts, private, store, pending, generators, fresh, overlooked, history>>

ImportVerify ==
  /\ ui.do = "importVerify"
  /\ ui' = IF Verified(ui.name) THEN Do("importCapture", ui.name, None) ELSE GiveUp(ui.name)
  /\ UNCHANGED <<files, store, pending, generators, fresh, overlooked, history>>

ImportCapture ==
  /\ ui.do = "importCapture"
  /\ Capture(ui.name, Idle, GiveUp(ui.name))
  /\ accepted' = IF ui' = Idle /\ \A g \in Generators : generators[g].name # ui.name
                 THEN [accepted EXCEPT ![ui.name] = private[ui.name].key] ELSE accepted
  /\ UNCHANGED <<files, pending, generators, fresh, overlooked, legacy, raced>>

\* generateKeyPair up to its await.
Generate(g, name) ==
  /\ ui = Idle /\ generators[g] = NoGeneration /\ ~Exists(name)
  /\ fresh' = FALSE /\ overlooked' = {}
  /\ generators' = [generators EXCEPT ![g] = [stage |-> "check", name |-> name]]
  /\ raced' = IF \E h \in Generators : generators[h].name = name THEN raced \cup {name} ELSE raced
  /\ UNCHANGED <<files, store, pending, ui, legacy, accepted>>

Become(g, stage) == generators' = [generators EXCEPT ![g].stage = stage]

\* generate_key_pair in its thread.
NativeCheck(g) ==
  /\ generators[g].stage = "check"
  /\ Become(g, IF Exists(generators[g].name) THEN "failed" ELSE "private")
  /\ UNCHANGED <<files, store, pending, ui, fresh, overlooked, history>>

\* Fault: a private key that is there by now is written over.
NativePrivateOver(g) ==
  /\ generators[g].stage = "private"
  /\ LET name == generators[g].name IN
     \E passphrase \in Passphrases :
       private' = [private EXCEPT ![name] = [key |-> g, passphrase |-> passphrase]]
  /\ Become(g, "public")
  /\ UNCHANGED <<texts, public, store, pending, ui, fresh, overlooked, history>>

\* The files are created, never written over.
NativePrivate(g) ==
  /\ generators[g].stage = "private"
  /\ LET name == generators[g].name IN
     IF private[name] # None
     THEN Become(g, "failed") /\ UNCHANGED private
     ELSE /\ \E passphrase \in Passphrases :
               private' = [private EXCEPT ![name] = [key |-> g, passphrase |-> passphrase]]
          /\ Become(g, "public")
  /\ UNCHANGED <<texts, public, store, pending, ui, fresh, overlooked, history>>

NativePublic(g) ==
  /\ generators[g].stage = "public"
  /\ LET name == generators[g].name IN
     IF public[name] # None
     THEN /\ private' = [private EXCEPT ![name] = None]
          /\ Become(g, "failed")
          /\ UNCHANGED public
     ELSE /\ public' = [public EXCEPT ![name] = g]
          /\ Become(g, "done")
          /\ UNCHANGED private
  /\ UNCHANGED <<texts, store, pending, ui, fresh, overlooked, history>>

\* The rest of generateKeyPair, on the UI thread.
Generated(g) ==
  /\ ui = Idle /\ generators[g].stage \in {"failed", "done"}
  /\ generators' = [generators EXCEPT ![g] = NoGeneration]
  /\ IF generators[g].stage = "done"
     THEN Capture(generators[g].name, Idle, GiveUp(generators[g].name))
     ELSE UNCHANGED <<store, ui>>
  /\ UNCHANGED <<files, pending, fresh, overlooked, history>>

\* deleteKey and deleteKeyPair.
Delete(name) ==
  /\ ui = Idle /\ Verified(name)
  /\ fresh' = FALSE /\ overlooked' = {}
  /\ \/ store' = [store EXCEPT !.pairs[name] = None] /\ ui' \in {GiveUp(name), Idle}
     \/ UNCHANGED <<store, ui>>
  /\ accepted' = [accepted EXCEPT ![name] = None]
  /\ UNCHANGED <<files, pending, generators, legacy, raced>>

\* changeKeyPassphrase: the key is read, the file replaced, the pair captured, or the file
\* replaced again.
ReadForPassphrase(name, passphrase) ==
  /\ ui = Idle /\ Verified(name)
  /\ fresh' = FALSE /\ overlooked' = {}
  /\ ui' = Do("replacePrivate", name, [private[name] EXCEPT !.passphrase = passphrase])
  /\ UNCHANGED <<files, store, pending, generators, history>>

ReplacePrivate ==
  /\ ui.do = "replacePrivate"
  /\ private' = [private EXCEPT ![ui.name] = ui.held]
  /\ ui' = Do("recapture", ui.name, private[ui.name])
  /\ UNCHANGED <<texts, public, store, pending, generators, fresh, overlooked, history>>

Recapture ==
  /\ ui.do = "recapture"
  /\ Capture(ui.name, Idle, [ui EXCEPT !.do = "rollback"])
  /\ UNCHANGED <<files, pending, generators, fresh, overlooked, history>>

Rollback ==
  /\ ui.do = "rollback"
  /\ \/ /\ private[ui.name] # None /\ ui.held # None
        /\ private' = [private EXCEPT ![ui.name].passphrase = ui.held.passphrase]
     \/ UNCHANGED private
  /\ ui' = Idle
  /\ UNCHANGED <<texts, public, store, pending, generators, fresh, overlooked, history>>

-----------------------------------------------------------------------------

StateNext ==
  \/ Die \/ Initialize \/ ListKeys \/ FinishLegacyMigration \/ StartIsOver
  \/ \E item \in ui.todo :
       RestoreSshProjection(item) \/ Migrate(item) \/ ReconcileVerifiedKeys(item)
  \/ \E path \in TextPaths :
       \/ \E text \in SUBSET Lines : Commit(path, text)
       \/ \E line \in Lines : CommitKnownHostLine(path, line)
  \/ WriteTextFile \/ RemoveFiles
  \/ \E name \in Names, source \in Sources, passphrase \in Passphrases :
       Import(name, source, passphrase)
  \/ ImportPrivate \/ ImportPublic \/ ImportVerify \/ ImportCapture
  \/ \E g \in Generators :
       \/ \E name \in Names : Generate(g, name)
       \/ NativeCheck(g) \/ NativePrivate(g) \/ NativePublic(g) \/ Generated(g)
  \/ \E name \in Names : Delete(name)
  \/ \E name \in Names, passphrase \in Passphrases : ReadForPassphrase(name, passphrase)
  \/ ReplacePrivate \/ Recapture \/ Rollback

StateSpec == StateInit /\ [][StateNext]_stateVars

StateTypeOK ==
  /\ texts \in [TextPaths -> (SUBSET Lines) \cup {None}]
  /\ private \in [Names -> PrivateKeys \cup {None}]
  /\ public \in [Names -> Keys \cup {None}]
  /\ store.texts \in [TextPaths -> (SUBSET Lines) \cup {None}]
  /\ store.pairs \in [Names -> Pairs \cup {None}]
  /\ {store.initialized, pending, fresh} \subseteq BOOLEAN
  /\ ui.todo \subseteq (TextPaths \cup Names) \X {"text", "private", "public", "pair"}
  /\ overlooked \subseteq (TextPaths \X {"text"}) \cup (Names \X {"pair"})
  /\ \A g \in Generators :
       /\ generators[g].stage \in {"none", "check", "private", "public", "failed", "done"}
       /\ generators[g].name \in Names \cup {None}

(* Every durable key pair is a private key with its own public key, though an import, a       *)
(* deletion or a passphrase change of one name works on the same two files as a generation    *)
(* in its thread, and captureKeyPair does not compare them.  Two generations of one name at    *)
(* once are left out: with an import between them they do store a pair that does not match.    *)
StoredPairsMatch ==
  \A n \in Names \ raced : store.pairs[n] # None => store.pairs[n].private.key = store.pairs[n].public

(* When the start is over the files are what the store says and nothing else counts as a key, *)
(* wherever the last run of the process ended: in a command, in a generation, in a start or    *)
(* in the migration (onCreate).  An error that nobody is told of (FileUtils) can at most leave   *)
(* what it hid: a text or a key that the store has not.                                       *)
StartRestoresState ==
  fresh =>
    /\ \A p \in TextPaths :
         texts[p] = store.texts[p] \/ (store.texts[p] = None /\ <<p, "text">> \in overlooked)
    /\ \A n \in Names : IF store.pairs[n] = None THEN Verified(n) => <<n, "pair">> \in overlooked
                        ELSE FilePair(n) = store.pairs[n]

(* The old files are migrated as a whole: when the mark is set the store has every text and    *)
(* every key pair of the old version, however many starts it took, but for those that an       *)
(* error which nobody is told of hid from the start that sets it (finishLegacyMigration).      *)
MigrationKeepsAll ==
  [][(~store.initialized /\ store'.initialized) =>
       /\ \A p \in TextPaths :
            \/ store'.texts[p] = legacy.texts[p]
            \/ store'.texts[p] = None /\ <<p, "text">> \in overlooked
       /\ \A n \in Names :
            \/ store'.pairs[n] = legacy.pairs[n]
            \/ store'.pairs[n] = None /\ <<n, "pair">> \in overlooked]_stateVars

(* A key whose import was reported is durable under its name until its deletion, whatever     *)
(* commands fail, end half-way or follow a restart, unless a generation of the same name was    *)
(* under way in its thread (importKey and generateKeyPair both look before they write).        *)
ImportedKeysStay ==
  \A n \in Names : accepted[n] # None =>
    store.pairs[n] # None /\ store.pairs[n].private.key = accepted[n]
=============================================================================
