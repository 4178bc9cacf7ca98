----------------------------- MODULE SshSession -----------------------------
(***************************************************************************)
(* One pane and the SSH sessions it starts, one after the other: the       *)
(* prompt modes of SessionViewModel, the session handle of SshClient and   *)
(* the Rust tasks of run_session, joined by three callback queues a        *)
(* session (control, transport, auth) that the UI thread drains in no      *)
(* particular order among each other.                                      *)
(*                                                                         *)
(* The dialogue inside one authentication is the module Authentication;    *)
(* here it is a bounded number of prompts.  The three kinds of prompt are  *)
(* one mode, AUTH_INPUT, and the error events of a session are one event.  *)
(***************************************************************************)
EXTENDS Naturals, Sequences, FiniteSets

CONSTANTS
  Hosts,        \* the hosts the user connects to
  MaxSessions,  \* bound: connections started from this pane
  MaxAsks,      \* bound: prompts and banners of one authentication
  MaxErrors,    \* bound: control events that wait when the writer reports another error
  Purposes      \* bound: what sessions are for, keypush (TRUE) or a shell (FALSE)

ASSUME BoundsAssumption ==
  /\ Hosts # {}
  /\ MaxSessions \in Nat \ {0}
  /\ MaxAsks \in Nat
  /\ MaxErrors \in Nat
  /\ Purposes \subseteq BOOLEAN

Sessions == 1..MaxSessions
None == 0  \* the empty sessionId, and no session

Phases ==
  {"unused", "connecting", "hostkey", "exchanging", "asking", "opening", "shell", "dying",
   "finished", "ended"}
Checked == {"exchanging", "asking", "opening", "shell", "dying"}
Live == {"connecting", "hostkey"} \cup Checked
PendingModes == {"CONNECTING", "HOST_KEY_INPUT", "AUTH_INPUT"}
Modes == PendingModes \cup {"IDLE", "CONNECTED"}
States ==
  {"IDLE", "CONNECTING", "HOST_VERIFICATION_REQUIRED", "AUTHENTICATING", "CONNECTED",
   "FAILED", "DISCONNECTED"}
ControlEvents == {"HOST_KEY_PROMPT", "HOST_KEY_CHANGED", "CONNECTED", "ERROR"}

VARIABLES
  known,       \* known_hosts for each host: no line, the server's key or another key
  \* the Rust side, for each session
  phase,       \* where run_session is
  target,      \* its host
  told,        \* a message in its disconnect channel
  hostKeyRx,   \* its host-key channel, capacity 1
  authRx,      \* a message in its auth channel
  asks,        \* prompts and banners so far; MaxAsks as soon as none can come any more
  commands,    \* keypush commands written to it
  control, transport, auth,  \* its callback queues
  \* SshClient
  client,      \* which SshClient object the view model holds
  owner,       \* the SshClient object of each session
  sessionId, connected, waitingAuth,
  hostLine,    \* pendingKnownHostLine: the host it names
  \* SessionViewModel
  mode, state,
  pendingKeypush,
  marker,      \* keypushMarker: the session it was sent to
  timer,       \* keypushTimeoutId is set and its timer runs
  strayTimers, \* timers nobody remembers
  disposed,    \* the pane is closed
  \* history
  wanted,      \* the user started the session to install a key
  foreign      \* an event of a session that is not the current one was acted on

task == <<phase, told, hostKeyRx, authRx, asks, commands>>
queues == <<control, transport, auth>>
handle == <<client, sessionId, connected, waitingAuth, hostLine>>
keypush == <<pendingKeypush, marker, timer, strayTimers>>
view == <<mode, state, keypush, disposed>>
vars == <<known, task, target, queues, handle, owner, view, wanted, foreign>>

TypeOK ==
  /\ known \in [Hosts -> {"none", "match", "other"}]
  /\ phase \in [Sessions -> Phases]
  /\ target \in [Sessions -> Hosts \cup {None}]
  /\ told \in [Sessions -> BOOLEAN]
  /\ hostKeyRx \in [Sessions -> {"empty", "yes", "no"}]
  /\ authRx \in [Sessions -> BOOLEAN]
  /\ asks \in [Sessions -> 0..MaxAsks]
  /\ commands \in [Sessions -> Nat]
  /\ control \in [Sessions -> Seq(ControlEvents)]
  /\ transport \in [Sessions -> Seq({"marker", "close", "error"})]
  /\ auth \in [Sessions -> Seq({"prompt", "banner"})]
  /\ client \in Nat /\ owner \in [Sessions -> Nat]
  /\ sessionId \in Sessions \cup {None}
  /\ connected \in BOOLEAN /\ waitingAuth \in BOOLEAN
  /\ hostLine \in Hosts \cup {None}
  /\ mode \in Modes /\ state \in States
  /\ pendingKeypush \in BOOLEAN /\ marker \in Sessions \cup {None}
  /\ timer \in BOOLEAN /\ strayTimers \in Nat
  /\ disposed \in BOOLEAN
  /\ wanted \in [Sessions -> BOOLEAN] /\ foreign \in BOOLEAN

Init ==
  /\ known \in [Hosts -> {"none", "match", "other"}]
  /\ phase = [s \in Sessions |-> "unused"]
  /\ target = [s \in Sessions |-> None]
  /\ told = [s \in Sessions |-> FALSE]
  /\ hostKeyRx = [s \in Sessions |-> "empty"]
  /\ authRx = [s \in Sessions |-> FALSE]
  /\ asks = [s \in Sessions |-> 0]
  /\ commands = [s \in Sessions |-> 0]
  /\ control = [s \in Sessions |-> <<>>]
  /\ transport = [s \in Sessions |-> <<>>]
  /\ auth = [s \in Sessions |-> <<>>]
  /\ client = 0 /\ owner = [s \in Sessions |-> 0]
  /\ sessionId = None /\ connected = FALSE /\ waitingAuth = FALSE /\ hostLine = None
  /\ mode = "IDLE" /\ state = "IDLE"
  /\ pendingKeypush = FALSE /\ marker = None /\ timer = FALSE /\ strayTimers = 0
  /\ disposed = FALSE
  /\ wanted = [s \in Sessions |-> FALSE] /\ foreign = FALSE

-----------------------------------------------------------------------------
(* The Rust task of session s: run_session between two awaits.             *)

Enter(s, p) == phase' = [phase EXCEPT ![s] = p]
SendControl(s, e) == control' = [control EXCEPT ![s] = Append(@, e)]
SendTransport(s, e) == transport' = [transport EXCEPT ![s] = Append(@, e)]
SendAuth(s, e) == auth' = [auth EXCEPT ![s] = Append(@, e)]

\* The task reports an error and returns.
ReturnError(s) == Enter(s, "finished") /\ SendControl(s, "ERROR")

uiSide == <<known, target, handle, owner, view, wanted, foreign>>

\* check_server_key against known_hosts: go on, ask the user, or refuse the key.
CheckServerKey(s) ==
  /\ phase[s] = "connecting"
  /\ \/ known[target[s]] = "match" /\ Enter(s, "exchanging") /\ UNCHANGED control
     \/ known[target[s]] = "none" /\ Enter(s, "hostkey") /\ SendControl(s, "HOST_KEY_PROMPT")
     \/ /\ known[target[s]] = "other"
        /\ Enter(s, "finished")
        /\ control' = [control EXCEPT ![s] = Append(Append(@, "HOST_KEY_CHANGED"), "ERROR")]
     \/ /\ Enter(s, "finished")  \* known_hosts cannot be read
        /\ control' = [control EXCEPT ![s] = Append(Append(@, "ERROR"), "ERROR")]
  /\ UNCHANGED <<told, hostKeyRx, authRx, asks, commands, transport, auth, uiSide>>

HostKeyAnswer(s) ==
  /\ phase[s] = "hostkey"
  /\ hostKeyRx[s] # "empty"
  /\ hostKeyRx' = [hostKeyRx EXCEPT ![s] = "empty"]
  /\ \/ hostKeyRx[s] = "yes" /\ Enter(s, "exchanging") /\ UNCHANGED control
     \/ hostKeyRx[s] = "no" /\ ReturnError(s)
  /\ UNCHANGED <<told, authRx, asks, commands, transport, auth, uiSide>>

\* The server asks for a credential, or sends its banner.
ServerAsks(s) ==
  /\ phase[s] = "exchanging"
  /\ asks[s] < MaxAsks
  /\ asks' = [asks EXCEPT ![s] = @ + 1]
  /\ \/ Enter(s, "asking") /\ SendAuth(s, "prompt")
     \/ UNCHANGED phase /\ SendAuth(s, "banner")
  /\ UNCHANGED <<told, hostKeyRx, authRx, commands, control, transport, uiSide>>

TakeAnswer(s) ==
  /\ phase[s] = "asking"
  /\ authRx[s]
  /\ authRx' = [authRx EXCEPT ![s] = FALSE]
  /\ Enter(s, "exchanging")
  /\ UNCHANGED <<told, hostKeyRx, asks, commands, queues, uiSide>>

\* Fault: success is reported before the shell is open.
AuthenticatedConnects(s) ==
  /\ phase[s] = "exchanging"
  /\ Enter(s, "opening")
  /\ asks' = [asks EXCEPT ![s] = MaxAsks]
  /\ SendControl(s, "CONNECTED")
  /\ UNCHANGED <<told, hostKeyRx, authRx, commands, transport, auth, uiSide>>

Authenticated(s) ==
  /\ phase[s] = "exchanging"
  /\ Enter(s, "opening")
  /\ asks' = [asks EXCEPT ![s] = MaxAsks]
  /\ UNCHANGED <<told, hostKeyRx, authRx, commands, queues, uiSide>>

\* channel_open_session, request_pty and request_shell succeed: three answers of the server,
\* awaited without a timeout and without the disconnect channel.
ShellOpens(s) ==
  /\ phase[s] = "opening"
  /\ Enter(s, "shell")
  /\ SendControl(s, "CONNECTED")
  /\ UNCHANGED <<told, hostKeyRx, authRx, asks, commands, transport, auth, uiSide>>

\* One of the three fails, or the keepalive finds the connection silent.
OpeningFails(s) ==
  /\ phase[s] = "opening"
  /\ ReturnError(s)
  /\ UNCHANGED <<told, hostKeyRx, authRx, asks, commands, transport, auth, uiSide>>

\* Fault: the error is only logged.
StageFailsSilently(s) ==
  /\ phase[s] \in {"connecting", "exchanging", "asking"}
  /\ Enter(s, "finished")
  /\ UNCHANGED <<told, hostKeyRx, authRx, asks, commands, queues, uiSide>>

\* A stage that has a timeout fails or times out.
StageFails(s) ==
  /\ phase[s] \in {"connecting", "exchanging", "asking"}
  /\ ReturnError(s)
  /\ UNCHANGED <<told, hostKeyRx, authRx, asks, commands, transport, auth, uiSide>>

\* The server goes away while the user decides; the connect deadline does not run.
ServerGone(s) ==
  /\ phase[s] = "hostkey"
  /\ ReturnError(s)
  /\ UNCHANGED <<told, hostKeyRx, authRx, asks, commands, transport, auth, uiSide>>

\* Fault: the connect and authentication waits do not watch the disconnect channel.
CancelledOnlyInShell(s) ==
  /\ told[s]
  /\ phase[s] = "shell"
  /\ Enter(s, "finished")
  /\ SendTransport(s, "close")
  /\ UNCHANGED <<told, hostKeyRx, authRx, asks, commands, control, auth, uiSide>>

\* The disconnect channel, watched by every wait but those that open the shell.
Cancelled(s) ==
  /\ told[s]
  /\ \/ phase[s] \in {"connecting", "hostkey", "exchanging", "asking"} /\ UNCHANGED transport
     \/ phase[s] = "shell" /\ SendTransport(s, "close")
  /\ Enter(s, "finished")
  /\ UNCHANGED <<told, hostKeyRx, authRx, asks, commands, control, auth, uiSide>>

\* The remote shell exits, the connection is lost, or the keepalive gives up.
ShellEnds(s) ==
  /\ phase[s] = "shell"
  /\ Enter(s, "finished")
  /\ \E e \in {"close", "error"} : SendTransport(s, e)
  /\ UNCHANGED <<told, hostKeyRx, authRx, asks, commands, control, auth, uiSide>>

\* The writer finds the connection dead before the reader does, and goes on: one WRITE_ERROR
\* for each piece of input that waits.  RESIZE_ERROR is left out: it only gives a warning.
WriteFails(s) ==
  /\ \/ phase[s] = "shell"
     \/ phase[s] = "dying" /\ Len(control[s]) < MaxErrors
  /\ Enter(s, "dying")
  /\ SendControl(s, "ERROR")
  /\ UNCHANGED <<told, hostKeyRx, authRx, asks, commands, transport, auth, uiSide>>

DyingEnds(s) ==
  /\ phase[s] = "dying"
  /\ Enter(s, "finished")
  /\ \E e \in {"close", "error"} : SendTransport(s, e)
  /\ UNCHANGED <<told, hostKeyRx, authRx, asks, commands, control, auth, uiSide>>

\* Fault: the marker also stands in the command line, which the server echoes.
MarkerEchoed(s) ==
  /\ phase[s] = "shell"
  /\ commands' = [commands EXCEPT ![s] = @ - 1]
  /\ SendTransport(s, "marker")
  /\ UNCHANGED <<phase, told, hostKeyRx, authRx, asks, control, auth, uiSide>>

\* The remote shell runs a keypush command and prints its marker.
MarkerPrinted(s) ==
  /\ phase[s] = "shell"
  /\ commands[s] > 0
  /\ commands' = [commands EXCEPT ![s] = @ - 1]
  /\ SendTransport(s, "marker")
  /\ UNCHANGED <<phase, told, hostKeyRx, authRx, asks, control, auth, uiSide>>

\* SessionCleanupGuard: the session leaves the SESSIONS map and its channels are dropped.
RemoveSession(s) ==
  /\ phase[s] = "finished"
  /\ Enter(s, "ended")
  /\ told' = [told EXCEPT ![s] = FALSE]
  /\ hostKeyRx' = [hostKeyRx EXCEPT ![s] = "empty"]
  /\ authRx' = [authRx EXCEPT ![s] = FALSE]
  /\ commands' = [commands EXCEPT ![s] = 0]
  /\ asks' = [asks EXCEPT ![s] = MaxAsks]
  /\ UNCHANGED <<queues, uiSide>>

Registered(s) == s # None /\ phase[s] \in Live \cup {"finished"}

-----------------------------------------------------------------------------
(* What the handlers of the UI thread do, by the operator they call.       *)

ClearKeypushState ==
  /\ pendingKeypush' = FALSE
  /\ marker' = None
  /\ timer' = FALSE
  /\ UNCHANGED strayTimers

\* onSshError, failKeypush and onSshClose end in the local prompt.
BackToPrompt(newState) ==
  /\ mode' = "IDLE"
  /\ state' = newState
  /\ IF pendingKeypush THEN ClearKeypushState ELSE UNCHANGED keypush
  /\ UNCHANGED disposed

OnSshError == BackToPrompt("FAILED")
OnSshClose == BackToPrompt(IF pendingKeypush THEN "FAILED" ELSE "DISCONNECTED")

\* SshClient forgets its session: handleError, handleClose and disconnect.
ForgetSession ==
  /\ sessionId' = None
  /\ connected' = FALSE
  /\ waitingAuth' = FALSE
  /\ UNCHANGED <<client, hostLine>>

\* The view model takes a fresh SshClient; the callbacks of the old one are muted.
ReplaceClient ==
  /\ client' = client + 1
  /\ sessionId' = None /\ connected' = FALSE /\ waitingAuth' = FALSE /\ hostLine' = None

\* SshClient.disconnect, with what sshDisconnect does for a registered session.
NativeDisconnect ==
  told' = [s \in Sessions |-> told[s] \/ (s = sessionId /\ Registered(s))]

Disconnect ==
  /\ NativeDisconnect
  /\ IF sessionId = None THEN UNCHANGED handle ELSE ForgetSession

-----------------------------------------------------------------------------
(* The UI thread handles an event of session s.                            *)

Muted(s) == owner[s] # client
ActsOn(s) == foreign' = (foreign \/ s # sessionId)

\* executeKeypushCommand: written to the current session, or an error that ends the
\* keypush; the timer is armed either way, and forgets one that was armed before.
ExecuteKeypushCommand ==
  /\ timer' = TRUE
  /\ strayTimers' = strayTimers + (IF timer /\ sessionId # None THEN 1 ELSE 0)
  /\ \/ /\ sessionId # None
        /\ commands' = [commands EXCEPT ![sessionId] = @ + (IF Registered(sessionId) THEN 1 ELSE 0)]
        /\ marker' = sessionId
        /\ UNCHANGED pendingKeypush
        /\ mode' = "CONNECTED" /\ state' = "CONNECTED"
     \/ /\ sessionId = None
        /\ UNCHANGED commands
        /\ pendingKeypush' = FALSE /\ marker' = None
        /\ mode' = "IDLE" /\ state' = "FAILED"
  /\ UNCHANGED disposed

HandleConnected ==
  /\ connected' = TRUE
  /\ waitingAuth' = FALSE
  /\ UNCHANGED <<client, sessionId, hostLine>>
  /\ \/ pendingKeypush /\ ExecuteKeypushCommand
     \/ /\ ~pendingKeypush
        /\ mode' = "CONNECTED" /\ state' = "CONNECTED"
        /\ UNCHANGED <<keypush, disposed, commands>>

HandleHostKeyPrompt(s) ==
  /\ hostLine' = target[s]
  /\ mode' = "HOST_KEY_INPUT"
  /\ state' = "HOST_VERIFICATION_REQUIRED"
  /\ UNCHANGED <<client, sessionId, connected, waitingAuth, keypush, disposed, commands>>

HandleHostKeyChanged ==
  /\ ReplaceClient
  /\ ClearKeypushState
  /\ mode' = "IDLE"
  /\ state' = "FAILED"
  /\ UNCHANGED <<disposed, commands>>

\* handleRustEvent.
HandleControlEvent(s) ==
  /\ control[s] # <<>>
  /\ control' = [control EXCEPT ![s] = Tail(@)]
  /\ \/ Muted(s) /\ UNCHANGED <<handle, view, commands, foreign>>
     \/ /\ ~Muted(s)
        /\ ActsOn(s)
        /\ \/ Head(control[s]) = "CONNECTED" /\ HandleConnected
           \/ Head(control[s]) = "HOST_KEY_PROMPT" /\ HandleHostKeyPrompt(s)
           \/ Head(control[s]) = "HOST_KEY_CHANGED" /\ HandleHostKeyChanged
           \/ Head(control[s]) = "ERROR" /\ ForgetSession /\ OnSshError /\ UNCHANGED commands
  /\ UNCHANGED <<known, phase, told, hostKeyRx, authRx, asks, target, transport, auth, owner,
                 wanted>>

\* Fault: only muted callbacks are ignored.
HandleAuthEventUnchecked(s) ==
  /\ auth[s] # <<>>
  /\ auth' = [auth EXCEPT ![s] = Tail(@)]
  /\ \/ Muted(s) /\ UNCHANGED <<waitingAuth, mode, state>>
     \/ /\ ~Muted(s)
        /\ state' = "AUTHENTICATING"
        /\ \/ Head(auth[s]) = "prompt" /\ waitingAuth' = TRUE /\ mode' = "AUTH_INPUT"
           \/ Head(auth[s]) = "banner" /\ UNCHANGED <<waitingAuth, mode>>
  /\ UNCHANGED <<known, task, target, control, transport, client, sessionId, connected, hostLine,
                 owner, keypush, disposed, wanted, foreign>>

\* handleNativeAuthEvent: the only events that carry the session they belong to.
HandleAuthEvent(s) ==
  /\ auth[s] # <<>>
  /\ auth' = [auth EXCEPT ![s] = Tail(@)]
  /\ \/ (Muted(s) \/ s # sessionId) /\ UNCHANGED <<waitingAuth, mode, state>>
     \/ /\ ~Muted(s) /\ s = sessionId
        /\ state' = "AUTHENTICATING"
        /\ \/ Head(auth[s]) = "prompt" /\ waitingAuth' = TRUE /\ mode' = "AUTH_INPUT"
           \/ Head(auth[s]) = "banner" /\ UNCHANGED <<waitingAuth, mode>>
  /\ UNCHANGED <<known, task, target, control, transport, client, sessionId, connected, hostLine,
                 owner, keypush, disposed, wanted, foreign>>

\* Fault: the client is replaced without a disconnect.
CompleteKeypushSilently(newState) ==
  /\ ReplaceClient
  /\ pendingKeypush' = FALSE /\ marker' = None
  /\ mode' = "IDLE"
  /\ state' = newState
  /\ UNCHANGED <<told, disposed>>

\* completeKeypush: the client is muted, disconnected and replaced.
CompleteKeypush(newState) ==
  /\ NativeDisconnect
  /\ ReplaceClient
  /\ pendingKeypush' = FALSE /\ marker' = None
  /\ mode' = "IDLE"
  /\ state' = newState
  /\ UNCHANGED disposed

\* handleNativeTransportEvent; of the terminal's data only the keypush marker matters here.
HandleTransportEvent(s) ==
  /\ transport[s] # <<>>
  /\ transport' = [transport EXCEPT ![s] = Tail(@)]
  /\ \/ /\ Muted(s) \/ (Head(transport[s]) = "marker" /\ ~(pendingKeypush /\ marker = s))
        /\ UNCHANGED <<handle, view, told, foreign>>
     \/ /\ ~Muted(s)
        /\ ActsOn(s)
        /\ \/ /\ Head(transport[s]) = "marker" /\ pendingKeypush /\ marker = s
              /\ \E newState \in {"DISCONNECTED", "FAILED"} : CompleteKeypush(newState)
              /\ timer' = FALSE /\ UNCHANGED strayTimers
           \/ Head(transport[s]) = "close" /\ ForgetSession /\ OnSshClose /\ UNCHANGED told
           \/ Head(transport[s]) = "error" /\ ForgetSession /\ OnSshError /\ UNCHANGED told
  /\ UNCHANGED <<known, phase, hostKeyRx, authRx, asks, commands, target, control, auth, owner,
                 wanted>>

\* A keypush timer fires, the remembered one or a stray one.
KeypushTimeout ==
  /\ \/ timer /\ timer' = FALSE /\ UNCHANGED strayTimers
     \/ /\ strayTimers > 0
        /\ strayTimers' = strayTimers - 1
        /\ timer' = (timer /\ ~pendingKeypush)
  /\ \/ pendingKeypush /\ CompleteKeypush("FAILED")
     \/ ~pendingKeypush /\ UNCHANGED <<handle, mode, state, pendingKeypush, marker, disposed, told>>
  /\ UNCHANGED <<known, phase, hostKeyRx, authRx, asks, commands, target, queues, owner, wanted,
                 foreign>>

-----------------------------------------------------------------------------
(* The user.                                                               *)

Fresh == {s \in Sessions : phase[s] = "unused"}

\* `ssh user@host` or keypush at the local prompt.
Connect ==
  /\ mode = "IDLE" /\ ~disposed
  /\ \E s \in Fresh, host \in Hosts, forKeypush \in Purposes :
       /\ \A t \in Fresh : s <= t
       /\ \/ /\ sessionId # None  \* 'Session already active'
             /\ mode' = "IDLE" /\ state' = "FAILED"
             /\ IF forKeypush \/ pendingKeypush THEN ClearKeypushState ELSE UNCHANGED keypush
             /\ UNCHANGED <<phase, target, owner, wanted, sessionId>>
          \/ /\ sessionId = None    \* sshConnect throws
             /\ mode' = "IDLE" /\ state' = "FAILED"
             /\ pendingKeypush' = (pendingKeypush \/ forKeypush)
             /\ UNCHANGED <<marker, timer, strayTimers, phase, target, owner, wanted, sessionId>>
          \/ /\ sessionId = None
             /\ mode' = "CONNECTING" /\ state' = "CONNECTING"
             /\ pendingKeypush' = (pendingKeypush \/ forKeypush)
             /\ UNCHANGED <<marker, timer, strayTimers>>
             /\ Enter(s, "connecting")
             /\ target' = [target EXCEPT ![s] = host]
             /\ owner' = [owner EXCEPT ![s] = client]
             /\ wanted' = [wanted EXCEPT ![s] = forKeypush]
             /\ sessionId' = s
  /\ UNCHANGED <<known, told, hostKeyRx, authRx, asks, commands, queues, client, connected,
                 waitingAuth, hostLine, disposed, foreign>>

\* verifyHostKey(answer): sent, or the channel is full or gone.
VerifyHostKey(answer, sent) ==
  IF sent
  THEN /\ sessionId # None /\ Registered(sessionId) /\ hostKeyRx[sessionId] = "empty"
       /\ hostKeyRx' = [hostKeyRx EXCEPT ![sessionId] = answer]
       /\ hostLine' = None
  ELSE /\ ~(sessionId # None /\ phase[sessionId] \in Live /\ hostKeyRx[sessionId] = "empty")
       /\ UNCHANGED <<hostKeyRx, hostLine>>

\* Fault: the answer goes out first and a line that cannot be written only gives a message.
AcceptHostKeyEagerly ==
  \E sent \in BOOLEAN, committed \in BOOLEAN :
    /\ VerifyHostKey("yes", sent)
    /\ committed => hostLine # None
    /\ known' = IF committed THEN [known EXCEPT ![hostLine] = "match"] ELSE known
    /\ IF sent
       THEN mode' = "CONNECTING" /\ state' = "CONNECTING" /\ UNCHANGED <<keypush, disposed>>
       ELSE OnSshError

\* "yes": the line is committed before the task hears the answer; a commit that fails,
\* as that of an empty line does, rejects the key.
AcceptHostKey ==
  \E sent \in BOOLEAN :
    \/ /\ hostLine # None
       /\ known' = [known EXCEPT ![hostLine] = "match"]
       /\ VerifyHostKey("yes", sent)
       /\ IF sent
          THEN mode' = "CONNECTING" /\ state' = "CONNECTING" /\ UNCHANGED <<keypush, disposed>>
          ELSE OnSshError
    \/ /\ UNCHANGED known
       /\ VerifyHostKey("no", sent)
       /\ OnSshError

RejectHostKey ==
  \E sent \in BOOLEAN :
    /\ UNCHANGED known
    /\ VerifyHostKey("no", sent)
    /\ mode' = "IDLE" /\ state' = "FAILED"
    /\ IF sent \/ ~pendingKeypush THEN UNCHANGED keypush ELSE ClearKeypushState
    /\ UNCHANGED disposed

SubmitHostKeyDecision ==
  /\ mode = "HOST_KEY_INPUT" /\ ~disposed
  /\ AcceptHostKey \/ RejectHostKey
  /\ UNCHANGED <<phase, told, authRx, asks, commands, target, queues, client, sessionId,
                 connected, waitingAuth, owner, wanted, foreign>>

\* submitPassword, submitKeyPassphrase and the last answer of a challenge.
SubmitAnswer ==
  /\ mode = "AUTH_INPUT" /\ ~disposed
  /\ \/ /\ waitingAuth /\ Registered(sessionId) /\ ~authRx[sessionId]
        /\ authRx' = [authRx EXCEPT ![sessionId] = TRUE]
        /\ waitingAuth' = FALSE
        /\ mode' = "CONNECTING" /\ state' = "CONNECTING"
        /\ UNCHANGED <<keypush, disposed>>
     \/ /\ ~(waitingAuth /\ Registered(sessionId) /\ ~authRx[sessionId])
        /\ OnSshError
        /\ UNCHANGED <<authRx, waitingAuth>>
  /\ UNCHANGED <<known, phase, told, hostKeyRx, asks, commands, target, queues, client, sessionId,
                 connected, hostLine, owner, wanted, foreign>>

\* Typing into a connected pane whose client has no session.
WriteToNothing ==
  /\ mode = "CONNECTED" /\ ~disposed
  /\ ~connected \/ sessionId = None
  /\ OnSshError
  /\ UNCHANGED <<known, task, target, queues, handle, owner, wanted, foreign>>

\* Fault: the client forgets the session without telling the task.
CancelSilently ==
  /\ mode \in PendingModes /\ ~disposed
  /\ ForgetSession
  /\ ClearKeypushState
  /\ mode' = "IDLE" /\ state' = "DISCONNECTED"
  /\ UNCHANGED <<known, task, disposed, target, queues, owner, wanted, foreign>>

\* Ctrl-C while connecting or at a prompt.
CancelPendingConnection ==
  /\ mode \in PendingModes /\ ~disposed
  /\ Disconnect
  /\ ClearKeypushState
  /\ mode' = "IDLE" /\ state' = "DISCONNECTED"
  /\ UNCHANGED <<known, phase, hostKeyRx, authRx, asks, commands, disposed, target, queues, owner,
                 wanted, foreign>>

\* The pane is closed: SessionViewModel.disconnect, and nothing is typed any more.
ClosePane ==
  /\ ~disposed
  /\ disposed' = TRUE
  /\ Disconnect
  /\ mode' = "IDLE" /\ state' = "DISCONNECTED"
  /\ UNCHANGED <<known, phase, hostKeyRx, authRx, asks, commands, keypush, target, queues, owner,
                 wanted, foreign>>

-----------------------------------------------------------------------------
\* The task and the stages that its timeouts end: one of these steps comes.
Progress(s) ==
  \/ CheckServerKey(s) \/ HostKeyAnswer(s) \/ ServerAsks(s) \/ TakeAnswer(s)
  \/ Authenticated(s) \/ StageFails(s)
  \/ Cancelled(s) \/ DyingEnds(s) \/ RemoveSession(s)

\* The server and the network, which nothing waits for with a timeout: these may come.
Environment(s) ==
  \/ ServerGone(s) \/ ShellOpens(s) \/ OpeningFails(s)
  \/ ShellEnds(s) \/ WriteFails(s) \/ MarkerPrinted(s)

Dispatch(s) == HandleControlEvent(s) \/ HandleAuthEvent(s) \/ HandleTransportEvent(s)

User ==
  \/ Connect \/ SubmitHostKeyDecision \/ SubmitAnswer \/ WriteToNothing
  \/ CancelPendingConnection \/ ClosePane

Next ==
  \/ \E s \in Sessions : Progress(s) \/ Environment(s) \/ Dispatch(s)
  \/ KeypushTimeout
  \/ User

Spec == Init /\ [][Next]_vars

\* The runtime schedules every task and timer, and the UI thread drains every queue.  Nothing
\* makes a server answer: a keepalive ends only a connection that is silent.
Fairness ==
  /\ \A s \in Sessions : /\ WF_vars(Progress(s))
                         /\ WF_vars(HandleControlEvent(s))
                         /\ WF_vars(HandleAuthEvent(s))
                         /\ WF_vars(HandleTransportEvent(s))
  /\ WF_vars(KeypushTimeout)

FairSpec == Spec /\ Fairness

-----------------------------------------------------------------------------
(* Properties.                                                             *)

\* Whatever old events arrive, a credential prompt belongs to the current session, whose
\* task asked for it (handleNativeAuthEvent checks session and generation).
AuthPromptIsCurrent ==
  mode = "AUTH_INPUT" =>
    /\ waitingAuth /\ sessionId # None
    /\ phase[sessionId] \in {"asking", "finished", "ended"}

\* Up to the first event of another session, a connected pane has a shell of its own.
ConnectedIsCurrent ==
  ~foreign /\ mode = "CONNECTED" =>
    /\ connected /\ sessionId # None
    /\ phase[sessionId] \in {"shell", "dying", "finished", "ended"}

\* Up to the first event of another session, a session passes the host-key check only
\* with a key that known_hosts holds: known before, or committed before it was accepted.
HostKeyCommitted ==
  ~foreign => \A s \in Sessions : phase[s] \in Checked => known[target[s]] = "match"

\* Up to the first event of another session, every session that the client has let go
\* was told to disconnect or is ending by itself.
NoOrphan ==
  ~foreign =>
    \A s \in Sessions : phase[s] \in Live \ {"dying"} /\ s # sessionId => told[s]

\* Up to the first event of another session, no shell runs behind the local prompt:
\* closing the pane or evicting its tab without a question (tabHasActiveSession) is safe.
IdleMeansNoShell ==
  ~foreign /\ mode = "IDLE" => \A s \in Sessions : phase[s] = "shell" => told[s]

\* docs/design/command-system.md:33: a key is installed on the target the user named for it,
\* and nowhere else.
KeypushOnlyWhereWanted == \A s \in Sessions : commands[s] > 0 => wanted[s]

\* A connection attempt hangs in one place only: the pane leaves CONNECTING, or its session
\* waits for the server to open the shell, unless an event of another session comes between.
ConnectionResolves ==
  mode = "CONNECTING" ~>
    \/ mode # "CONNECTING" \/ foreign
    \/ sessionId # None /\ phase[sessionId] = "opening"

\* A session that was told to disconnect ends, unless it waits for the server to open the
\* shell: those three waits do not watch the disconnect channel.
ToldSessionEnds == \A s \in Sessions : told[s] ~> phase[s] \in {"opening", "ended"}

\* docs/user-guide.md:286-287: cancelling a connection returns the pane to `ltty>`; it does
\* not become a connected pane without a session.
ConnectedHoldsSession == mode = "CONNECTED" => sessionId # None
=============================================================================
