# TLA+ specifications of LeanTTY

LeanTTY is an SSH terminal for HarmonyOS PCs. Its user interface and its state live in ArkTS on
one UI thread (`src/entry/src/main/ets`), the SSH protocol in Rust tasks under tokio
(`src/leantty_ssh`), the terminal itself in a web page (`rawfile/terminal.html`, xterm.js), and the
state that outlives an update of the application in the system's encrypted Asset Store. The
specifications in this directory model the parts that carry state between these four: the
authentication dialogue, the life of a session and of the pane that shows it, the flow of output
to the terminal, the durable store with the files that mirror it, the tabs and panes with their
web pages, what the web page does by itself (search, links, wheel, replies, bell), and the build
of the packaged assets. TLC checks each on small instances; TLAPS proves the most important facts
for every value of the constants.

## 1. Inventory

| Component | State it keeps | Operations | What is hard, and what makes it correct |
| --- | --- | --- | --- |
| Authentication (`authentication.rs`, `run_authentication` in `lib.rs`) | methods tried, methods the server still offers, stage and round counters, the pending prompt and its identifiers | select the next method, ask the user, take a credential, take the server's outcome (success, partial success, refusal, challenge), time out, cancel | A server may answer in any order and for ever. An answer must go to the prompt it was typed for; no method twice in a stage; limits on stages and rounds; giving up only when nothing is left |
| Session task (`run_session` in `lib.rs`) | its stage; channels for disconnect, host key, credentials; buffered output | connect, check the host key, authenticate, open the shell, pump data, disconnect, clean up | Waits on the server, the user, a timer and a disconnect. It must end when told and must report its end exactly once it matters |
| `SshClient` | session id, generation, `connected`, `waitingAuth`, known-host line | connect, disconnect, answer prompts, handlers of three callback queues | The queues are drained independently, so events of one session are seen out of order and those of an old session late |
| `SessionViewModel` | mode, connection state, pending key installation with marker and timer | connect, cancel, decide on a host key, answer, write, close; the end of a key installation | Modes that do not match the task: a connected pane without a session, a shell behind the local prompt, a key installed on a host it was not meant for |
| `DurableAssetStore` | a pointer and chunk records a path | write, read, remove, collect | Every asset call may fail, a chunk may be damaged, the process may die between any two calls. Old or new text, never a mixture; no private key left behind |
| `DurableStateManager`, `EntryAbility` | the store, the files under `.ssh`, the migration mark | start-up (restore, migrate, reconcile), commit of configuration, known hosts and keys | Two copies of each text: the store and the file. Crash or failure between them |
| `SshConfig`, `KeyCommandService` | each pane's own copy of the configuration | host add, remove, alias removal | Lost updates between panes; memory changed although the save failed |
| `SshKeyManager`, `KnownHostsManager`, `keygen.rs`, `known_hosts.rs` | key files, known-host lines | generate, import, delete, change passphrase, trust | Roll back of a file when the store fails |
| `TerminalBridge`, `TerminalOutputBuffer`, `TerminalSurfaceController`, `terminal.html` | pending and in-flight output, watermarks, pause flags, snapshot | write, acknowledge, attach, detach, snapshot, restore | Output in order and never lost; pause when too much waits, and always resume |
| `AppViewModel`, `Index` | tabs, panes, active pane, warm tab, checkpoints, confirmations | open, split, close, switch, hide | The user's answer or a snapshot arrives after the workspace has changed. No page may go without a checkpoint; a warm tab must have the timer that ends it |
| Search panel (`terminal.html`) | open, query, results, ownership of the selection; the search addon's term, matches and timer | open, input (with IME), next, previous, close | One selection shared with the user, a timer of the addon, late copies. What is shown must be what is selected; a closed search leaves nothing |
| Links (`terminal.html`) | link under the pointer, modifiers, pending click | move, press, release, keys, redraw | Output redraws and programs switch mouse modes between a press and its release. Only what was pressed opens |
| Wheel on the alternate screen (`terminal-policy.js`, `terminal.html`) | fractions of lines that wait, velocity, direction, a scheduled frame | turn, frame | Acceleration and left-over lines at a reversal. Never scroll against the last turn, never strand whole lines |
| Replies of the terminal (`terminal.html`) | `restoringSnapshot`, xterm's write buffer | restore, parse, type | A restored snapshot asks the old program's questions again; its answers must not reach the server |
| Bell (`terminal-policy.js`, `terminal.html`, `Index`) | the page's gate, the pane's mark, messages both ways | ring, acknowledge, focus, mark | Two sides with a copy each of "the user has seen it" |
| Build of the assets (`build.mjs`, `test-terminal-policy.mjs`) | packages, packaged files, manifest, notices | install, build, check | A build cut off half-way, dependencies that move on. What the checks accept is one whole build |
| Commands, `utf8_decoder.rs` | none (pure functions) | parse, decode | Boundary cases |
| User guide, preferences, theme, clipboard, browser | settings | single platform calls | Little state; not modelled |

How they interact: `SessionViewModel` calls `SshClient`, which calls Rust through N-API; a Rust task
answers through three thread-safe callbacks (control, transport, auth), each a queue of its own
that the UI thread drains; the user's answers travel back through channels of capacity one.
`SessionViewModel` writes terminal output to its surface, whose bridge exchanges messages with the
web page and asks for the session to be paused. Host keys, keys and configuration are committed to
the durable store and then to the files that the Rust side reads. `Index` mounts and unmounts the
web component of each pane; before it unmounts one it asks the page for a snapshot, which the next
page of the pane restores.

## 2. Modules

1. `AuthBudget`, `Authentication`, `AuthenticationProofs`: one authentication dialogue.
2. `SshSession`, `SshSessionProofs`: a pane and its sessions.
3. `DurableMap`, `DurableStore`, `DurableStoreProofs`: the asset store.
4. `DurableState`, `DurableStateProofs`: the files beside the store, starts and key commands.
5. `TerminalFlow`, `TerminalFlowProofs`: reading loop, bridge, buffer, page and the pausing of the
   loop. `SequenceLemmas`: what its proofs, and those of the page, need to know of sequences.
6. `TerminalPolicy`: the functions of `terminal-policy.js`; `TerminalPolicyTests`: the assertions of
   its tests. `TerminalSearch`, `TerminalLinks`, `TerminalWheel` and `BellAttention` use it;
   `TerminalReplies` stands beside them. `TerminalPageProofs` has the proofs of all of them.
7. `Workspace`: tabs, panes, checkpoints, components; `DesktopProofs`: its proofs, and those of
   `MCDesktop`.
8. `AssetBuild`: the packaged assets, proved about in `TerminalPageProofs`.

`MCAuthentication`, `MCSshSession`, `MCDurableStore` and `MCTerminalFlow` give the large modules
their instances; `MCDesktop` gives one to the parts of 4, 6, 7 and 8 together.

### AuthBudget and Authentication

`AuthBudget` is what the state machine promises: at most `MaxAuthStages` stages, in each stage one
request of each method, at most `MaxInteractiveRounds` challenges in all. `Authentication` is the
state machine of `authentication.rs` with its driver `run_authentication`, the auth channel, the
prompts of `SshClient` and the answers of the user, and is shown to implement it.

| Specification | Code |
| --- | --- |
| `SelectNextMethod`, `GiveUp`, `Stage` | `select_next_method` and the driver's use of it |
| `ServerAccepts`, `ServerRefuses`, `ServerChallenges`, `InfoRequest`, `ExchangeFails` | `wait_for_auth_exchange` and what `run_authentication` does with each outcome, `present_challenge` |
| `TakeCommand`, `SubmitCredential`, `ValidateResponses`, `ResponseTimesOut` | `wait_for_auth_command`, `submit_*`, `validate_responses` |
| `HandleAuthEvent`, `ReportFailure` | `handleNativeAuthEvent`, `onSshError` |
| `SubmitInput`, `SubmitAuthChallengeResponse`, `CancelPendingConnection` | the answers of the user and Ctrl-C |

Text is abstracted: the sanitising and the byte limits of prompts are one flag (whether a challenge
fits). Round identifiers are the code's, with their maximum a constant (`MaxRoundId`).

### SshSession

One pane and the sessions it starts one after the other. The Rust side is a task a session with
its stage (`phase`), its three channels and its three queues; the UI side is `SshClient` (session
id, `connected`, `waitingAuth`, host line) and `SessionViewModel` (mode, state, key installation).
`client` and `owner` are the identity of `SshClient` objects: a replaced client is muted. The
dialogue of an authentication is a bounded number of prompts here, the three prompt modes one mode
`AUTH_INPUT`, and the error events one event `ERROR`. Not modelled: re-checks of the host key at a
rekey, and the library russh itself.

Two parts of the task are easily taken for tamer than they are. `run_channel_writer`
(`lib.rs:396-420`) goes on after an error and reports one for each piece of input that waits, so
`WriteFails` may happen again while the task is `dying`; `MaxErrors` bounds how many control events
wait when another is reported (a bound of the model: the code has none, and no property or theorem
uses it). And the three waits that open channel, terminal and shell (`lib.rs:986-1005`) have neither
a timeout nor an eye on the disconnect channel: in the stage `opening` a task ends or goes on only
when the server answers (`ShellOpens`, `OpeningFails`) or falls silent until the keepalive ends the
connection (`OpeningFails`). `asks` is set to `MaxAsks` once the authentication is over, since it
counts nothing any more.

`foreign` is a history variable: it becomes true with the first control or transport event of a
session that is not the current one which a live client acts upon. The code compares the session
of auth events only (`SshClient.ets:322`), so four invariants hold up to that event, and
`AuthPromptIsCurrent` regardless of it. What happens after it is shown by `session_cancel`.

### DurableMap and DurableStore

`DurableMap` is what a caller may rely on: a map from paths to texts, changed in one step or not at
all, with true answers. `DurableStore` is `DurableAssetStore` one asset call at a time.

| Specification | Code |
| --- | --- |
| `Write`, `AddChunk`, `Verify`, `UpsertPointer`, `WriteFails` | `write`, `addRecord`, `readGeneration`, `upsertPointer`, the catch block |
| `Remove`, `RemovePointer`, `RemoveFails` | `remove` |
| `Scope`, `RemoveChunk`, `RemovalEnds`, `RemovalFails` | `removeOtherGenerations`, `removeGeneration`, `garbageCollect` |
| `Complete`, `Read` | `readGeneration`, `DurableAssetFormat.validate`, `read` |
| `Crash` | the process dies; the next one starts with `garbageCollect` |

Assumed of the Asset Store: a call takes effect at once or, when it fails, not at all; a stored
chunk may come back damaged, in any way that its hash shows. Assumed of the code: no generation is
used twice (`nextGeneration` is the clock and a counter; a clock set back could break this).

### TerminalFlow

A unit stands for a byte and carries its number. The reading loop of `run_session` collects units in
`output` and hands them to the transport queue; the UI thread gives each chunk to the surface,
which keeps it while there is no page and passes it to `bridge` otherwise; the bridge posts packets
(`toPage`), the page queues them in xterm's `parser`, and each parsed packet is acknowledged
(`toNative`). The bridge is one record, since its methods run without interruption on the UI
thread; each method is an operator on the record, in the order of its calls.

| Specification | Code |
| --- | --- |
| `ReadChannel`, `OutputTick`, `TakePause`, `LoopEnds`, `FinalDelivery`, `SendClose` | `run_session` from its loop to the close event |
| `BridgeWrite`, `PumpPendingData`, `PostPacket`, `UpdateBackpressure`, `Acknowledge`, `PageReady`, `PumpSnapshotRequests` | the methods of `TerminalBridge` and the branches of `handleRawMessage` |
| `WriteBytes`, `AppendDetached`, `Attach`, `Detach`, `CaptureSnapshot`, `HandleSnapshot`, `Notify` | `TerminalSurfaceController`, `TerminalOutputBuffer` |
| `HandleConnected`, `HandleData`, `HandleClose`, `WriteTerminal`, `OnBridgeReady` | `SessionViewModel` |
| `ReceiveMessage`, `Parse` | `nativePort.onmessage`, `writeTerminalPacket`, `requestTerminalSnapshot` of `terminal.html` |

`Attach` and `Detach` may come at any time (a renderer exits, a tab is checkpointed, a pane
appears), a superset of what `Workspace` decides. History variables: `marks` (how much had
reached the surface when each snapshot was requested), `gone` (units that the final delivery gave
up or that a detachment lost before a snapshot held them: losses that the code accepts), `stale`
(flow control was released while the bridge was over its watermark) and `rejected` (a pause or
resume found the channel full). Assumed: a message port keeps the order; CONNECTED is handled before
the close of the same session (the reverse is a matter of `SshSession`); a text of the pane itself
(prompt, echo, error) is one unit.

### DurableState

The files of `.ssh` are a projection of the store, and from the first start of a version with the
store on the store is what counts. The store is the atomic map that `DurableMap` promises and
`DurableStore` implements: one write is one step or nothing. Everything else is a step of its own:
each file written or removed, each key migrated, each phase of a generation in its native thread.
The process may die between any two. A text is a set of lines, a private key file its key and its
passphrase, a public key file its key.

`FileUtils` answers some errors as if all were well: a directory that cannot be listed is empty
(`listFiles`), a file that cannot be looked for is not there (`fileExists`), and one that cannot be
removed is left (`removeFile`); `listKeys` and `readKeyInfo` drop a key that cannot be read. A start
goes on without what such an error hid. `ListKeys`, `Migrate`, `RestoreSshProjection` and
`ReconcileVerifiedKeys` may overlook any text or key in this way, and the history variable
`overlooked` records which, for the properties to name: `MigrationKeepsAll` and `StartRestoresState`
say that nothing else is missed and that what was missed is absent from the store, not mixed up. The
consequence for the user is worth knowing: a legacy key that the migrating start could not read is
not captured, the mark is set all the same, and the next start that can read it removes it as a key
without durable authority, although `docs/architecture.md:173-175` has the first run migrate the
verified legacy files. The other errors of a start (the store's, reading a text, writing a file) throw,
which is `Die`. In the commands, looking for and removing files of the application's own directory is
taken not to fail.

| Specification | Code |
| --- | --- |
| `Initialize`, `RestoreSshProjection`, `ListKeys`, `Migrate`, `FinishLegacyMigration`, `ReconcileVerifiedKeys`, `StartIsOver` | `EntryAbility.onCreate` and what it calls of `DurableStateManager` and `SshKeyManager` |
| `Commit`, `CommitKnownHostLine`, `WriteTextFile` | `commitSshConfig`, `commitKnownHostsContent`, `commitKnownHostLine` and the file written after the store |
| `Import`, `ImportPrivate`, `ImportPublic`, `ImportVerify`, `ImportCapture` | `importKey` with its cleanup (`RemoveFiles`) |
| `Generate`, `NativeCheck`, `NativePrivate`, `NativePublic`, `Generated` | `generateKeyPair` before and after its await, `generate_key_pair` of `keygen.rs` in its thread |
| `Delete` | `deleteKey`, `deleteKeyPair` |
| `ReadForPassphrase`, `ReplacePrivate`, `Recapture`, `Rollback` | `changeKeyPassphrase` |

History variables: `fresh` (the start is over and no command has begun), `legacy` (what the old
version had), `accepted` (the key whose import was reported under a name while no generation of
that name ran) and `raced` (names of which two generations ran at once). The last two name what the
properties leave out, and why: `StoredPairsMatch` does fail for a name that two generations and an
import work on at once, and `ImportedKeysStay` for a name whose generation is under way, because
neither command looks again after it has begun. The user would have to start them from several
panes within the duration of one generation.

### TerminalPolicy, TerminalPolicyTests

`TerminalPolicy` holds the pure functions of `terminal-policy.js` (OSC 52, bell gate, wheel, grid
padding, link modifiers, search label, focus ring of the panel) and the growth of the snapshot
serializer of `terminal.html`. Fractions are integers in thousandths. `TerminalPolicyTests` states
the assertions of `test-terminal-policy.mjs` and `test-terminal-search.mjs` about these functions
and about the search addon as the tests drive it, with the tests' own numbers where a number
matters, and two boundaries the tests stop short of (`ClipboardLimit`: exactly the limit is accepted
and a byte more is not; `LongestSnapshot`: the snapshot kept is the longest that fits among the
steps tried). They have no behaviour of their own: `PolicyTestsPass` is one invariant, which plays
them once, in a state of a new page (`SearchJustOpened`).

### TerminalSearch, TerminalLinks, TerminalWheel, TerminalReplies, BellAttention

| Specification | Code |
| --- | --- |
| `OpenSearch`, `CloseSearch`, `RunSearch`, `Input`, `CompositionStart`, `CompositionEnd`, `Enter`, `Navigate` | `openSearch`, `closeSearch`, `runSearch`, `handleSearchPanelKeydown` and the listeners of `initializeSearchUi` |
| `FindNext`, `FindPrevious`, `FindNothing`, `Track`, `ClearDecorations`, `UpdateMatches`, `Refresh` | the search addon, vendored as one line of minified code in `rawfile/addon-search.js`: `findNext`, `findPrevious`, `_highlightAllMatches`, `clearDecorations`, `_updateMatches` and the timer it sets |
| `SelectText`, `LoseKeyboard`, `FocusMessage`, `CopySelection`, `CopyDone`, `SwitchBuffer` | what else touches the selection or the keyboard |
| `Move`, `Redraw`, `LinkKey`, `Press`, `Release`, `LoseWindow` | `handleLinkHover`, `handleLinkLeave`, `handleLinkKeyEvent`, `beginLinkClick`, `trackLinkDrag`, `activateTerminalLink`; the linkifier is external |
| `HandleAlternateWheel`, `PumpAlternateWheelFrame` | the functions of those names |
| `BridgeWrites`, `BridgeReady`, `PageTakes`, `Parse`, `OnData` | `TerminalBridge`, `nativePort.onmessage`, `term.onData` |
| `Bell`, `PageInput`, `PageFocus`, `ReplacePage` | `term.onBell`, `acknowledgeBellAttention`, the message focus, `recyclePaneWebView` |
| `SelectTab`, `FocusPane`, `SetVisible`, `ToggleMenu`, `RestoreFocus`, `HandleMessage` | `Index`: `selectTab`, `focusPane`, `onMainWindowVisibilityChanged`, `toggleMenu`, `restoreActivePaneFocus`, `markPaneAttention`, `clearPaneAttention` |

Search: a buffer is the number of matches of each query; output only adds matches, so lines trimmed
or overwritten are not modelled. The addon's timer is not stopped when the panel closes; fired
late it clears whatever is selected (`FindNothing`), a selection of the user included, which no
property denies. Links: `aim` is a history variable, the link pressed and neither
left, redrawn nor dragged since; it is independent of `click`, the page's own record. Wheel:
`turned` is the direction of the last turn. Bell: `older` says that the mark was set before the
page was replaced (the new page knows of no bell, so typing cannot clear it; entering the pane
does), `unseen` that a bell rang out of view.

### Workspace

| Specification | Code |
| --- | --- |
| `SelectTabAt`, `NewTab`, `DeactivateActiveTab`, `WarmTabTimeout`, `ChangeVisibility` | `selectTab`, `newTab`, `deactivateActiveTab`, `scheduleWarmTabEviction`, `onMainWindowVisibilityChanged`, `InteractionPolicy` |
| `CheckpointTab`, `CaptureEnds`, `FinishTabCheckpoint`, `DetachSurface` | `checkpointAndDestroyTabBridge`, `finishTabCheckpoint`, the snapshot callbacks with their timeouts, `detachSurface` |
| `ToggleSplit`, `FocusTabPane`, `RequestCloseTab`, `RequestCloseActivePane`, `Confirm`, `Cancel`, `LocalExit`, `CloseTab`, `ClosePane`, `DisposeRuntime` | the handlers of those names and `AppViewModel` |
| `SessionBegins`, `SessionEnds` | `updatePaneMode`, `updatePaneState` |
| `Render`, `PageEnds`, `RecyclePaneWebView` | `mountedPaneRuntimes` and the callbacks of the components; when the framework draws is left open |

`saved` is a history variable: the tabs with a checkpoint that ended since they were last active or
had a session. `Confirm` closes the tab at the captured index, or the pane active by then, as the
code does; the dialog is modal, but sessions end and idle panes exit under it.

### AssetBuild

A file is the version it was copied from and whether it still has its source map comment. `Upgrade`,
`Install` and `CiteNotices` are what developers do between builds; `BuildAsset` is one asset's copy,
strip and hash of `build.mjs`, `WriteManifest` its end, and `CutOff` a build that is interrupted.
`AssetChecksPass` is what `test-terminal-policy.mjs` asserts of packages, manifest, files and
notices.

### MCDesktop

The parts of the page, `Workspace`, `DurableState` and `AssetBuild` share no variable. `MCDesktop`
puts them in one run: each behaviour chooses a part, which moves alone from its own initial states
while the others stay where they begin. The states of the run are the sum of the parts' states and
not their product, and every property is about one part, so nothing is lost by it: the theorem
`PartsAreIndependent` says that each part behaves in it as its own specification allows.

## 3. Runs

| Run | Question | Bounds | Deadlock |
| --- | --- | --- | --- |
| `auth_dialogue` | Types, matching of answers and prompts, justified ends, the budget, and that the dialogue ends | stages, rounds 3, prompts 2: each limit is reached and passed by one attempt | off: the dialogue ends |
| `session_safety` | Does the pane's mode agree with the task's stage, whatever the order of events? | 1 host, 2 sessions, 1 prompt, shells and key installations: an old and a new session, both with events under way; a write error while up to one event waits, so that errors queue up behind CONNECTED and behind each other | off: sessions run out |
| `session_liveness` | Does a connection attempt resolve, does a session told to disconnect end, wherever the wait is not the server's opening of the shell? | as above, shells only | off |
| `session_cancel` | violation: a connected pane without a session | 1 host, 2 sessions, shells | off |
| `session_keypush` | violation: a key is installed where it was not wanted | 1 host, 2 sessions | off |
| `flow_safety` | Is output complete and in order, is each acknowledgement matched, does a snapshot hold what preceded it, is the pause true? | 4 units, high watermark 2, 3 pending bytes, 2 packets in flight: the page stalls, packets wait, a write is refused, sequences wrap; 2 pages: restore and detached output; queue of 1, pause channel of 2: both overflow | off: units run out |
| `flow_liveness` | Does a paused session go on, is what waits shown? | 3 units, queue of 2, no snapshot beyond those of the code itself | off |
| `flow_empty` | violation: a packet is never acknowledged | as `flow_safety`, empty texts | off |
| `flow_release` | violation: a session is not paused | as `flow_safety`, 2 sessions | off |
| `desktop` | The sixteen properties of the parts around a session, below | below; 640309 distinct states | off: outputs, tabs and versions run out |
| `bell_lost` | violation: a bell out of view leaves no mark | 3 messages each way | on |
| `durable_store` | Is the store a crash-safe map, and are old texts gone? | 2 paths, texts of 1 and 2 chunks, 3 writes: replace, replace after a failure, two paths | off: writes run out |

What `desktop` asks, with its bounds:

| Part | Properties | Bounds and why they are enough |
| --- | --- | --- |
| search | `ClosedSearchLeavesNothing`, `FeedbackMatchesSelection` | 2 queries, up to 2 matches of each, `HighlightLimit` 1: a change of query, a step from match to match, a match beyond those the addon tracks |
| links | `OpensOnlyWhatWasPressed` | 3 links of 2 targets (two with the same one), 3 sets of modifiers, 3 mouse modes, one of them unknown to the code |
| wheel | `WheelFollowsLast`, `PendingHasFrame` | 3 turns of 5 kinds (both ways, none, pixels, lines, a page), gaps of 0, 16 and 100 ms, 2 rows: acceleration, reversal, a pause and the cap of a frame |
| replies | `RestoreIsSilent` | 3 chunks, 2 keys, with and without a snapshot |
| bell | `MarkCanBeTypedAway` | 3 messages each way: a bell, an acknowledgement and the next bell cross a focus |
| workspace | `WarmTabExpires`, `CheckpointBeforeUnmount` | 3 tabs, 3 panes, 1 busy pane: an active, a warm and an evicted tab, or a split one |
| state | `StoredPairsMatch`, `StartRestoresState`, `MigrationKeepsAll`, `ImportedKeysStay` | 1 text of 1 line, 1 name, 1 key to import, 2 generations, 1 passphrase: names do not interact, and a name sees an import, a generation, a deletion and a second generation at once. With one passphrase a change of it rewrites the same file, so the steps of the roll back are exercised and its effect on the passphrase is left to the proofs |
| build | `ChecksTakeWholeBuilds` | 3 assets, 3 versions: an old, a half-written and a new file side by side |
| tests | `PolicyTestsPass` | no state: the code's constants, and the lengths around each limit |

`AppTypeOK` joins the type invariants of the parts.

Five runs disagree with the documents on purpose:

- `session_cancel`. `docs/user-guide.md:286-287` says that cancelling a connection returns to
  `ltty>`. A CONNECTED event queued before Ctrl-C is acted upon after it (`SshClient.ets:287` has
  no session to compare): the pane becomes connected with an empty session id, and the first
  keystroke fails.
- `session_keypush`. When `connect` throws during a key installation, the catch branch
  (`SessionViewModel.ets:188`) keeps `pendingKeypush` and the public key; the next plain `ssh`
  runs the installation on its host, although `docs/design/command-system.md:33` speaks of one
  explicit key for one target account.
- `flow_empty`. `docs/architecture.md:124`: "xterm acknowledges rendered output". An empty text,
  such as an authentication prompt without text (`SessionViewModel.ets:1126`), becomes a packet
  that the page rejects (`terminal.html:450`). It stays the oldest in flight, every later
  acknowledgement is ignored, and after eight packets the pane shows nothing any more.
- `flow_release`. `docs/architecture.md:124-125`: "backpressure propagates to the owning SSH
  session". When a session closes while the bridge is over its watermark, only the buffer's flag is
  cleared (`TerminalSurfaceController.ets:140`); a session opened before the bridge has drained is
  not paused, and what exceeds the pending limit is dropped.
- `bell_lost`. `docs/user-guide.md:260-262`: a bell whose source is not active leaves an amber dot
  until the pane is entered. The page's gate stays closed after a bell that rang in view
  (`terminal-policy.js:52`) until the user types or the next focus message arrives. When the user
  leaves the tab without typing, the next bell stays in the page, and no dot appears.

In `flow_safety`, `PauseIsTrue` holds up to such a release (`stale`) and up to a pause or resume
that the full channel refused (`rejected`): `writeBytes` announces a change twice, once by the
bridge's handler and once itself, and nothing repeats what was refused.

### Fairness

`Authentication` (`FairDialogue`): the task runs, the UI thread handles its queue, the server and
the user answer. The last two are not guaranteed by the code, which has timeouts instead; under
the fairness no timeout is needed, and with a timeout the dialogue ends sooner. What the property
shows is that no exchange of answers goes on for ever.

`SshSession` (`FairSpec`): every task step that the runtime or a timer brings about (`Progress`),
the three queues and the key installation's timer. Not fair is what only the server or the network
brings about (`Environment`): the opening of the shell and its failure, the end of a shell, the death
of a server while the user decides, a failing write, the marker's output. russh's keepalive
(30 seconds, three times) ends a connection that is silent, but not one whose server answers
keepalives and never confirms the channel. Therefore both liveness properties except the stage
`opening`, and only that one: a pane may stay in `CONNECTING` and a told session may live on there,
for as long as the server likes. `dying` ends by itself, for a connection whose writes fail is
closed or found silent.

`TerminalFlow` (`FairSpec`): the loop's timer and channels, the UI thread's queues and the page's
handlers run. Not fair: the server's output, the user, and the loading of a page (nobody must come
back to a hidden pane), which is why both properties end with the page. Three of the conditions
are weak fairness with ENABLED written out, for TLC evaluates it slowly.

## 4. Proofs

The seven modules named `...Proofs` and `SequenceLemmas` are checked by TLAPS for all values of the
constants under the named assumptions of the modules they extend: that the markers for "none" are
no members, that bounds are numbers, that the keys imported and the keys generated differ, and that
the largest chunk of output and the low watermark fit together into the pending limit
(`RoomAssumption`; 512 KiB, 512 KiB and 8 MiB in the code). TLC evaluates the assumptions in the runs. Each theorem `Spec => []P` goes through an inductive
invariant, one lemma or step per action.

| Theorem | Property | Inductive invariant |
| --- | --- | --- |
| `AuthenticationProofs`: `TypeCorrect`, `AnswersMatch`, `PromptCurrent`, `GiveUpJustified`, `BudgetKept` | `TypeOK`, `AnswerMatchesRequest`, `PromptIsCurrent`, `GiveUpIsJustified`, `ImplementsBudget` | below |
| `NeverStuck`, `StepsShrink`, `Bounded` | `SomeonesTurn`, `DialogueShrinks`, `DialogueBounded`, stated in the proof module | `TInv` |
| `DurableStoreProofs`: `TypeCorrect`, `StaleTextsGo`, `MapKept` | `TypeOK`, `NoStaleTexts`, `ImplementsMap` | `IInv` |
| `SshSessionProofs`: `TypeCorrect`, `PromptsAreCurrent`, `ConnectedPanes`, `KeysAreCommitted`, `NoTaskIsLeft`, `PromptHasNoShell` | `TypeOK`, `AuthPromptIsCurrent`, `ConnectedIsCurrent`, `HostKeyCommitted`, `NoOrphan`, `IdleMeansNoShell` | `SInv` |
| `DeadSessionsAreReported`, `ConnectingWaitsForSomething`, `TasksAdvance` | `EndIsHeard`, `ConnectingHasCause`, `TaskAdvances`, stated in the proof module | `HInv` |
| `DurableStateProofs`: `StateTypesHold`, `NothingOldIsLost`, `StartsRestore`, `PairsMatch`, `AcceptedKeysStay` | `MigrationKeepsAll`, `StartRestoresState`, `StoredPairsMatch`, `ImportedKeysStay` | `MigrationInv`, with `RestoreInv`, `PairsInv` or `AcceptedInv` |
| `TerminalFlowProofs`: `TypesAreOK`, `PausesAreTrue`, `AcknowledgementsMatch`, `OutputIsKept`, `SnapshotsAreComplete` | `TypeOK`, `PauseIsTrue`, `AcksMatch`, `NothingElseLost`, `SnapshotIsComplete` | `TypeInv`, with `PauseInv` or `FlowInv` |
| `WakesAlways`, `NoWakeUpIsLost`, `NoResumeIsForgotten`, `AllIsShown` | `WakeInv`, `QuietHoldsNothing`, `QuietRuns`, `QuietShowsAll`, stated in the proof module | `WakeInv`, with the three above |
| `TerminalPageProofs`: `ClosedLeavesNothing`, `FeedbackMatches` | `ClosedSearchLeavesNothing`, `FeedbackMatchesSelection` | `SearchInv` |
| `LinksOpenSafely` | `OpensOnlyWhatWasPressed` | `LinkInv` |
| `WheelFollows`, `LinesHaveFrame`, `FramesEnd` | `WheelFollowsLast`, `PendingHasFrame`, `WheelDrains` (stated in the proof module) | `WheelInv` |
| `RestoresAreSilent` | `RestoreIsSilent` | `ReplyInv` |
| `MarkCanBeTyped` | `MarkCanBeTypedAway` | `BellInv` |
| `WholeBuilds` | `ChecksTakeWholeBuilds` | `BuildInv` |
| `SearchTypesAlways`, `LinkTypesAlways`, `WheelTypesAlways`, `BellTypesAlways` | the types of each part | `SearchInv`, `LinkTypes`, `WheelTypes`, `BellTypes` |
| `ClipboardTakesWhatFits`, `SnapshotIsTheLastThatFits`, `ControlsGoRound` | rules of `TerminalPolicy` for all inputs | none: not about behaviours |
| `DesktopProofs`: `WarmTabStays`, `PagesGoAfterCheckpoint`, `WorkspaceTypesAlways` | `WarmTabExpires`, `CheckpointBeforeUnmount`, `WorkspaceTypeOK` | `WarmInv`, `UnmountInv`, `WorkspaceTypes` |
| `PartsAreIndependent`, `DesktopTypes` | each part's specification, `AppTypeOK` | those of the parts |

- **Authentication.** The inductive invariant adds to the checked ones the relation between the
  task's wait, the pending prompt, the auth channel and the queue, and the counters' relation to
  the methods tried. `BudgetKept` goes action by action: each maps to a step of `AuthBudget` or to
  a stutter.
- **Durable store.** `IInv` is `TypeOK`, `FreshInv` (chunks and operations use generations already
  drawn, and the running write's generation is named by no pointer until `UpsertPointer`),
  `WholeInv` (a pointer only names complete generations) and `StageInv` (how each stage of an
  operation relates to the pointer). It is needed because `ImplementsMap` alone does not say that
  chunk removals never touch the active generation. `MapKept` then follows step by step (`MapStep`),
  crash included; `StaleTextsGo` adds that after a clean sweep only active chunks remain.
- **Session.** Each invariant about the pane and the task fails as soon as an event that is still
  in a queue may say anything. `SInv` says what may be queued: an event was sent in a phase that the
  task has passed (`ControlQueued`, `TransportQueued`), at most one prompt and one host-key question
  are under way, and none while its answer is (`AuthQueued`, `KeyAsked`). With that, a prompt on show
  belongs to a task that asks (`Prompted`), whatever happens. What depends on the UI not having acted
  on another session's event (`Own`) is stated under `~foreign`, like the properties.
- **Durable state.** `MigrationInv`: a start is alone on the files (`StartAlone`); until the mark is
  set the files are those of the old version and the store holds nothing else (`LegacyKept`); what
  is no longer to do has been done or was hid by an error (`MigrationGoesOn`). `NothingOldIsLost`
  follows at the one step that sets the mark. `RestoreInv` says the same of the restoration and the
  reconciliation. Both theorems hold whatever is overlooked: they say that only that is missing.
  `StoredPairsMatch` is not inductive because `captureKeyPair` reads two files that a thread may
  write: `PairsInv` says, of a name with at most one generation, which files each command and each
  stage of the thread may find. `AcceptedInv` says that nobody can write over an accepted key: no
  thread works on its name, and only the passphrase change may follow, with the same key in hand.
- **Terminal flow.** `TypeInv` adds to the types what a session has left in the queue in each of its
  phases (`PhaseOK`): nothing follows a close. `PauseInv` says what the session hears last: the last
  message in its channel, or its own flag when the channel is empty, is the surface's state
  (`ToldOK`), which in turn is the bridge's (`FollowsOK`). The other three rest on `FlowInv`. Its
  core, `PageInv`, is about one page and its bridge and is stated of variables, not of the state, so
  that each method of the bridge is one lemma, used wherever the method is called: the units on the
  screen, in the parser, on the port, in a snapshot to be restored, in the pending chunks and still
  to come are one increasing sequence, and what is missing in it was dropped or left behind
  (`StreamOK`); acknowledgements on their way and packets not yet parsed are the packets in flight,
  in order (`AcksOK`); at most one restoration is awaited, and it is where the flag says it is
  (`RestoresOK`); a snapshot is asked for only when all that it must hold is on the screen
  (`AskedOK`). Without a page, the snapshot and the detached chunks take the place of the screen and
  the line. `AnswersOK` follows a snapshot from the screen to its commit, and `SnapshotKept` says
  why a page can be replaced at any time: what the snapshot has is still before what comes.
  `AcknowledgementsMatch` assumes `~EmptyTexts`; with empty texts it is false, as `flow_empty` shows.
- **What is left of liveness.** The liveness properties are out of the prover's reach, but not what
  makes them true: that whoever waits, waits for something that comes, and that what comes brings
  the end nearer. These are safety, and are proved for all constants; only the step from fairness to
  "eventually" is left to TLC.
  - *Authentication*: `TInv` says at each point of the dialogue whose turn it is (`SomeonesTurn`), and
    `Left` counts what the limits still allow. Every step lowers it, so that a dialogue has at most
    `MaxSteps` steps, whatever the server asks and the user answers.
  - *Session*: `HInv` follows the end of a task to the client. A task that is dying or gone has its
    report in a queue that the client still listens to, so no dead session is kept; a pane in
    `CONNECTING` waits for a stage that a timeout ends, for an answer, for a report, or, as the one
    wait that nothing bounds and that a disconnect does not interrupt, for the server to open the
    shell (`ConnectingHasCause`); the rank of a task falls with each of its steps, with the opening of
    the shell and with its failure, and never rises.
  - *Flow*: `WakeInv` says that no wake-up is lost. The bridge's count is what is in flight
    (`Counted`), output waits only while something is in flight whose acknowledgement will send it
    (`Fed`), snapshot requests are sent when nothing is (`Settled`), the flag follows the watermarks
    (`Watermarks`), an unheard page will report that it is ready, and a capture that is under way has
    its mark in the parser. So when no message is under way (`Quiet`), nothing is held back, the session
    is not paused and the screen has everything. `RoomAssumption` is needed where a write is refused:
    the refusal raises the flag, and only a bridge that is over its low watermark lowers it later.
    `~EmptyTexts` is needed because an empty packet is never acknowledged (`flow_empty`).
  - *Wheel*: a frame that schedules another has sent a full frame's lines; with the bound of eight
    screens (`WheelTypesAlways`) the frames end.
- **Sequences.** The flow and the replies are stated with `FlattenSeq`, whose definition is a
  recursive function. The library's induction theorems take an operator, which the provers cannot
  instantiate; `SequenceLemmas` does the induction on sets instead (`NatBySet`: a set of naturals
  with 0 and all successors is `Nat`), shows that the recursive function exists, and derives the laws
  of `FlattenSeq` over `Append`, `Tail` and concatenation. `Gather` is a `FlattenSeq` of what is
  taken from each element. The pump of the bridge and the flush of the detached chunks are recursive
  functions too, and get the same treatment in `TerminalFlowProofs`.
- **Page.** `LinkInv`: a pending click that is not dragged is on the link the user aims at.
  `WheelInv`: the stored direction is the last turn's, and what waits and what is sent has its
  sign, which needs the sign of each operator of `TerminalPolicy` (lemmas about `Cut`, `Clamp`,
  `EnqueueWheel`, `ConsumeWheelFrame`). `BellInv` strengthens "an acknowledgement is on its way" to
  its place in the queue: after every bell in it. `SearchInv` adds to both search properties the
  types and that an open panel with a query owns the selection; each way of closing is one case.
- **Replies.** `ReplyInv`: a snapshot can only be the first in each queue, and the terminal is silent
  exactly while xterm's buffer begins with it; so an answer is sent for each question in parsed
  output and for no other.
- **Rules of the page.** `PolicyTestsPass` plays the tests' vectors; three theorems say of all inputs
  what some of them sample: the clipboard's limit in bytes is exact although the first check is on
  the length of the Base64 text, the growing snapshot keeps the last text before one that does not
  fit (`GrowsExists`, `GrowsKeeps`), and the keyboard goes round the panel.
- **Workspace.** `WarmInv` adds that the active index is one of the tabs and that no two tabs have
  one id, for a closed tab moves the indices of the others. `UnmountInv` adds that a pane belongs to
  one tab, and that a tab which is to have no page while a component of it is left is in `saved`.
  `WorkspaceTypes` adds that tabs and panes have numbers that were given out, and that each capture
  is of a tab that is being checkpointed.
- **Desktop.** The parts share no variable and a step moves one of them, so it is a step or a stutter
  of every part (`DesktopPartsStep`); `DesktopSpec` therefore implies each part's `Spec`, and
  `AppTypeOK` follows from the parts' theorems.
- **Asset build.** `BuildInv`: the manifest is always that of one whole build, and the entries in
  memory are all of the installed version.

Only model-checked:

- liveness (`DialogueEnds`, `ConnectionResolves`, `ToldSessionEnds`, `PauseEnds`, `PendingIsShown`):
  fairness and ENABLED are out of this prover's reach. Their safety halves are proved, as said above;
- `PolicyTestsPass`, which is a table of vectors with the code's own constants: an evaluation, for
  which TLC is the tool;
- the five violations.

## 5. Not modelled

- **Commands** (`CommandParser`, completion, history): pure functions of a line of text. Their
  hazards lie in wording; what a command does is in `DurableState` and `SshSession`.
- **`utf8_decoder.rs`, host patterns, file formats**: pure functions of bytes and text. `TerminalFlow`
  counts units and `DurableState` lines, neither tells bytes apart.
- **The copies of the Host configuration** that each pane edits (`SshConfig`): the last writer wins,
  without a guard in the code or a promise in the documents; a property could only restate it.
- **User guide files, preferences, window, theme, fonts, icons, clipboard, browser**: single calls of
  the platform or rendering, with no protocol state between them. The tests of fonts and of the
  user guide compare files and text.
- **Line editing and the passphrase dialogue** of `SessionViewModel`, the line that the user types:
  local text without interaction.
- **Output after the exit status** (`lib.rs:1069`): it is outside of what the loop reads.
- **Third-party code** (russh, ssh-key, xterm.js) appears only as what the code relies on, marked
  external in the map. The search addon is vendored and mapped to its file; of it only what the
  panel uses is modelled.
