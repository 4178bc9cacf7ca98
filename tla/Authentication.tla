--------------------------- MODULE Authentication ---------------------------
(***************************************************************************)
(* One SSH authentication: the pure AuthStateMachine                       *)
(* (leantty-ssh-core/src/authentication.rs), the task that drives it       *)
(* against the server (run_authentication in leantty_ssh/src/lib.rs) and   *)
(* the ArkTS client that shows its prompts and sends back the answers      *)
(* (SshClient.ets, SessionViewModel.ets).                                  *)
(*                                                                         *)
(* The server, the network and the user are the environment.  Credentials  *)
(* and texts are abstracted to what the code decides on: their kind, the   *)
(* number of prompts or responses, and whether they fit the byte limits.   *)
(***************************************************************************)
EXTENDS Naturals, Sequences

CONSTANTS
  MaxInteractiveRounds,  \* MAX_INTERACTIVE_ROUNDS (8)
  MaxAuthStages,         \* MAX_AUTH_STAGES (8)
  MaxPrompts,            \* MAX_PROMPTS_PER_ROUND (16)
  MaxRoundId             \* u32::MAX, the largest round id

ASSUME LimitsAssumption ==
  /\ MaxInteractiveRounds \in Nat
  /\ MaxAuthStages \in Nat \ {0}
  /\ MaxPrompts \in Nat
  /\ MaxRoundId \in Nat
  /\ MaxInteractiveRounds < MaxRoundId

Methods == {"publickey", "keyboard-interactive", "password"}
Keys == {"absent", "plain", "encrypted"}

\* "none" is the opening authenticate_none exchange, "idle" no exchange at all.
Exchanges == Methods \cup {"none", "idle"}
AuthFailures ==
  {"NoSupportedMethod", "Rejected", "UnexpectedCredential", "UnexpectedChallenge",
   "StaleChallenge", "ResponseCountMismatch", "ProtocolLimitExceeded"}
OtherFailures == {"exchange error", "timed out", "callback delivery failed"}

\* pending_challenge: round 0 stands for None.
NoChallenge == [round |-> 0, prompts |-> 0]
Challenges == [round : Nat, prompts : Nat]

\* What travels over the auth callback and back over the auth channel.
Events == [kind : {"password", "passphrase", "challenge"}, round : Nat, prompts : Nat]
Commands ==
  [kind : {"password", "passphrase", "responses"}, round : Nat, count : Nat, fits : BOOLEAN]

VARIABLES
  key,                \* has_private_key and private_key_requires_passphrase
  attempted,          \* the three *_attempted flags
  anyAttempted,       \* any_method_attempted
  waitingFor,         \* waiting_for
  pending,            \* pending_challenge
  nextRoundId,
  interactiveRounds,
  authStages,
  exchange,           \* the exchange the task awaits
  offered,            \* remaining_methods of the last failure
  outcome,            \* AuthenticationOutcome, or "running"
  failure,            \* why it failed
  requests,           \* history: requests the server saw of each method, this stage
  authRx,             \* the auth channel, capacity 1
  disconnectRx,       \* the disconnect channel, capacity 1
  events,             \* the auth callback's queue
  active,             \* SshClient.sessionId is this session
  waitingAuth,        \* SshClient.waitingAuth
  mode,               \* SessionViewModel.mode
  challenge,          \* SessionViewModel.authChallenge
  answered            \* authPromptIndex, which counts authResponses too

machine == <<attempted, anyAttempted, waitingFor, pending, nextRoundId, interactiveRounds,
             authStages>>
task == <<exchange, offered, outcome, failure, requests>>
channels == <<authRx, disconnectRx>>
client == <<active, waitingAuth, mode, challenge, answered>>
vars == <<key, machine, task, channels, events, client>>

PendingModes ==
  {"CONNECTING", "PASSWORD_INPUT", "KEY_PASSPHRASE_INPUT", "AUTH_CHALLENGE_INPUT"}

TypeOK ==
  /\ key \in Keys
  /\ attempted \in SUBSET Methods
  /\ anyAttempted \in BOOLEAN
  /\ waitingFor \in {"nothing", "passphrase", "password"}
  /\ pending \in Challenges
  /\ nextRoundId \in 1..(MaxInteractiveRounds + 1)
  /\ interactiveRounds \in 0..MaxInteractiveRounds
  /\ authStages \in 1..MaxAuthStages
  /\ exchange \in Exchanges
  /\ offered \in SUBSET Methods
  /\ outcome \in {"running", "authenticated", "cancelled", "failed"}
  /\ failure \in AuthFailures \cup OtherFailures \cup {"no"}
  /\ requests \in [Methods -> Nat]
  /\ authRx \in Seq(Commands)
  /\ disconnectRx \in BOOLEAN
  /\ events \in Seq(Events)
  /\ active \in BOOLEAN
  /\ waitingAuth \in BOOLEAN
  /\ mode \in PendingModes \cup {"IDLE"}
  /\ challenge \in Challenges
  /\ answered \in Nat

NoRequests == [m \in Methods |-> 0]

Init ==
  /\ key \in Keys
  /\ attempted = {} /\ anyAttempted = FALSE
  /\ waitingFor = "nothing" /\ pending = NoChallenge
  /\ nextRoundId = 1 /\ interactiveRounds = 0 /\ authStages = 1
  /\ exchange = "none" /\ offered = {}
  /\ outcome = "running" /\ failure = "no" /\ requests = NoRequests
  /\ authRx = <<>> /\ disconnectRx = FALSE /\ events = <<>>
  /\ active = TRUE /\ waitingAuth = FALSE /\ mode = "CONNECTING"
  /\ challenge = NoChallenge /\ answered = 0

-----------------------------------------------------------------------------
(* The task: run_authentication between two awaits.                        *)

Running == outcome = "running"
Exchanging == Running /\ exchange # "idle"
Awaiting == Running /\ exchange = "idle"

Fail(reason) ==
  /\ outcome' = "failed"
  /\ failure' = reason

\* A request for method m leaves for the server.
Send(m, seen) ==
  /\ exchange' = m
  /\ requests' = [seen EXCEPT ![m] = @ + 1]
  /\ UNCHANGED <<outcome, failure, events>>

\* send_auth_event: delivered, or the callback is gone and authentication fails.
Ask(event) ==
  /\ exchange' = "idle"
  /\ \/ /\ events' = Append(events, event)
        /\ UNCHANGED <<outcome, failure>>
     \/ /\ Fail("callback delivery failed")
        /\ UNCHANGED events

CredentialEvent(kind) == [kind |-> kind, round |-> 0, prompts |-> 0]

\* select_next_method refuses: a credential is still owed, or the stages are used up.
RefuseSelection(partial) ==
  /\ \/ waitingFor # "nothing"
     \/ pending # NoChallenge
     \/ partial /\ authStages >= MaxAuthStages
  /\ Fail(IF waitingFor # "nothing" \/ pending # NoChallenge
          THEN "UnexpectedCredential" ELSE "ProtocolLimitExceeded")
  /\ exchange' = "idle"
  /\ UNCHANGED <<machine, requests, events>>

\* The method select_next_method tries, given those tried already in this stage.
Chosen(remaining, tried) ==
  LET usable == IF key = "absent" THEN Methods \ {"publickey"} ELSE Methods
      open == (remaining \cap usable) \ tried
  IN CASE "publickey" \in open            -> "publickey"
       [] "keyboard-interactive" \in open -> "keyboard-interactive"
       [] "password" \in open             -> "password"
       [] OTHER                           -> "none"

\* A method that needs no credential is marked as attempted and sent at once.
AttemptNow(m, tried, seen) ==
  /\ attempted' = tried \cup {m}
  /\ anyAttempted' = TRUE
  /\ UNCHANGED waitingFor
  /\ Send(m, seen)

\* A method that needs one is marked only when the credential is submitted.
RequestCredential(credential, tried, any, seen) ==
  /\ waitingFor' = credential
  /\ attempted' = tried
  /\ anyAttempted' = any
  /\ requests' = seen
  /\ Ask(CredentialEvent(credential))

\* Fault: the verdict looks only at the flag a partial success has just reset.
GiveUpForgetful(partial, tried, any, seen) ==
  /\ Fail(IF any THEN "Rejected" ELSE "NoSupportedMethod")
  /\ exchange' = "idle"
  /\ attempted' = tried
  /\ anyAttempted' = any
  /\ requests' = seen
  /\ UNCHANGED <<waitingFor, events>>

GiveUp(partial, tried, any, seen) ==
  /\ Fail(IF partial \/ any THEN "Rejected" ELSE "NoSupportedMethod")
  /\ exchange' = "idle"
  /\ attempted' = tried
  /\ anyAttempted' = any
  /\ requests' = seen
  /\ UNCHANGED <<waitingFor, events>>

\* Fault: a partial success is not counted.
StageUncounted(partial) == authStages

Stage(partial) == IF partial THEN authStages + 1 ELSE authStages

\* select_next_method, and what run_authentication does with the action it returns.
SelectNextMethod(remaining, partial) ==
  LET tried == IF partial THEN {} ELSE attempted
      any == anyAttempted /\ ~partial
      seen == IF partial THEN NoRequests ELSE requests
      m == Chosen(remaining, tried)
  IN \/ RefuseSelection(partial)
     \/ /\ waitingFor = "nothing" /\ pending = NoChallenge
        /\ partial => authStages < MaxAuthStages
        /\ authStages' = Stage(partial)
        /\ UNCHANGED <<pending, nextRoundId, interactiveRounds>>
        /\ \/ /\ \/ m = "keyboard-interactive"
                 \/ m = "publickey" /\ key = "plain"
              /\ AttemptNow(m, tried, seen)
           \/ /\ m = "publickey" /\ key = "encrypted"
              /\ RequestCredential("passphrase", tried, any, seen)
           \/ /\ m = "password"
              /\ RequestCredential("password", tried, any, seen)
           \/ /\ m = "none"
              /\ GiveUp(partial, tried, any, seen)

\* The server refuses the request in flight, perhaps as a partial success.
ServerRefuses ==
  /\ Exchanging
  /\ \E remaining \in SUBSET Methods, partial \in BOOLEAN :
       /\ offered' = remaining
       /\ SelectNextMethod(remaining, partial)
  /\ UNCHANGED <<key, channels, client>>

ServerAccepts ==
  /\ Exchanging
  /\ outcome' = "authenticated"
  /\ UNCHANGED <<key, machine, exchange, offered, failure, requests, channels, events, client>>

\* Fault: the round budget is not checked.
InfoRequestUnbounded(n, fits) ==
  /\ Exchanging
  /\ exchange = "keyboard-interactive" /\ pending = NoChallenge /\ n <= MaxPrompts /\ fits
  /\ pending' = [round |-> nextRoundId, prompts |-> n]
  /\ nextRoundId' = nextRoundId + 1
  /\ interactiveRounds' = interactiveRounds + 1
  /\ Ask([kind |-> "challenge", round |-> nextRoundId, prompts |-> n])
  /\ UNCHANGED <<key, attempted, anyAttempted, waitingFor, authStages, offered, requests,
                 channels, client>>

\* Fault: the event carries the id of the next round.
InfoRequestNextId(n, fits) ==
  /\ Exchanging
  /\ exchange = "keyboard-interactive" /\ pending = NoChallenge /\ n <= MaxPrompts /\ fits
  /\ interactiveRounds < MaxInteractiveRounds
  /\ pending' = [round |-> nextRoundId, prompts |-> n]
  /\ nextRoundId' = nextRoundId + 1
  /\ interactiveRounds' = interactiveRounds + 1
  /\ Ask([kind |-> "challenge", round |-> nextRoundId', prompts |-> n])
  /\ UNCHANGED <<key, attempted, anyAttempted, waitingFor, authStages, offered, requests,
                 channels, client>>

\* present_challenge for an info request with n prompts, and the event that shows it.
InfoRequest(n, fits) ==
  /\ Exchanging
  /\ exchange = "keyboard-interactive"
  /\ \/ /\ "keyboard-interactive" \notin attempted \/ pending # NoChallenge
           \/ interactiveRounds >= MaxInteractiveRounds \/ n > MaxPrompts \/ ~fits
           \/ nextRoundId >= MaxRoundId
        /\ Fail(IF "keyboard-interactive" \notin attempted \/ pending # NoChallenge
                THEN "UnexpectedChallenge" ELSE "ProtocolLimitExceeded")
        /\ exchange' = "idle"
        /\ UNCHANGED <<machine, events>>
     \/ /\ "keyboard-interactive" \in attempted /\ pending = NoChallenge
        /\ interactiveRounds < MaxInteractiveRounds /\ n <= MaxPrompts /\ fits
        /\ nextRoundId < MaxRoundId
        /\ pending' = [round |-> nextRoundId, prompts |-> n]
        /\ nextRoundId' = nextRoundId + 1
        /\ interactiveRounds' = interactiveRounds + 1
        /\ UNCHANGED <<attempted, anyAttempted, waitingFor, authStages>>
        /\ Ask([kind |-> "challenge", round |-> nextRoundId, prompts |-> n])
  /\ UNCHANGED <<key, offered, requests, channels, client>>

ServerChallenges ==
  \E n \in 0..(MaxPrompts + 1), fits \in BOOLEAN : InfoRequest(n, fits)

\* The exchange fails locally or on the wire, or its 30 s pass.
ExchangeFails ==
  /\ Exchanging
  /\ \E reason \in {"exchange error", "timed out"} : Fail(reason)
  /\ UNCHANGED <<key, machine, exchange, offered, requests, channels, events, client>>

\* The 300 s for an answer pass.
ResponseTimesOut ==
  /\ Awaiting
  /\ Fail("timed out")
  /\ UNCHANGED <<key, machine, exchange, offered, requests, channels, events, client>>

\* Every await of the task also watches the disconnect channel.
Cancelled ==
  /\ Running
  /\ disconnectRx
  /\ disconnectRx' = FALSE
  /\ outcome' = "cancelled"
  /\ UNCHANGED <<key, machine, exchange, offered, failure, requests, authRx, events, client>>

\* Fault: the method is not marked as attempted.
SubmitCredentialUnmarked(m) ==
  /\ waitingFor' = "nothing"
  /\ anyAttempted' = TRUE
  /\ UNCHANGED <<attempted, pending, nextRoundId, interactiveRounds, authStages>>
  /\ Send(m, requests)

\* submit_private_key_passphrase and submit_password.
SubmitCredential(m) ==
  /\ waitingFor' = "nothing"
  /\ attempted' = attempted \cup {m}
  /\ anyAttempted' = TRUE
  /\ UNCHANGED <<pending, nextRoundId, interactiveRounds, authStages>>
  /\ Send(m, requests)

\* validate_responses, then the answer goes out as part of the same request.
ValidateResponses(command) ==
  /\ pending' = NoChallenge
  /\ exchange' = "keyboard-interactive"
  /\ UNCHANGED <<attempted, anyAttempted, waitingFor, nextRoundId, interactiveRounds,
                 authStages, outcome, failure, requests, events>>

\* Why a command does not answer what the task asked for; "no" when it does.
Objection(command) ==
  CASE waitingFor # "nothing" ->
         IF command.kind = waitingFor THEN "no" ELSE "UnexpectedCredential"
    [] waitingFor = "nothing" ->
         CASE command.kind # "responses"           -> "UnexpectedCredential"
           [] pending = NoChallenge                -> "UnexpectedChallenge"
           [] command.round # pending.round        -> "StaleChallenge"
           [] command.count # pending.prompts      -> "ResponseCountMismatch"
           [] ~command.fits                        -> "ProtocolLimitExceeded"
           [] OTHER                                -> "no"

TakeCommand ==
  /\ Awaiting
  /\ authRx # <<>>
  /\ authRx' = Tail(authRx)
  /\ LET command == Head(authRx)
     IN \/ /\ Objection(command) = "no"
           /\ \/ command.kind = "passphrase" /\ SubmitCredential("publickey")
              \/ command.kind = "password" /\ SubmitCredential("password")
              \/ command.kind = "responses" /\ ValidateResponses(command)
        \/ /\ Objection(command) # "no"
           /\ Fail(Objection(command))
           /\ UNCHANGED <<machine, exchange, requests, events>>
  /\ UNCHANGED <<key, offered, disconnectRx, client>>

-----------------------------------------------------------------------------
(* The ArkTS client: the UI thread runs one handler at a time.             *)

\* onSshError, as far as authentication goes.
ShowError ==
  /\ mode' = "IDLE"
  /\ challenge' = NoChallenge
  /\ answered' = 0

\* try_send over the auth channel.  A session is registered while its task runs, and
\* for a moment after the task failed.
Registered == outcome \in {"running", "authenticated"}
MaybeRegistered == outcome # "cancelled"

Command(kind, round, count, fits) ==
  [kind |-> kind, round |-> round, count |-> count, fits |-> fits]

\* Fault: neither waitingAuth nor the mode is reset, so the prompt can be submitted again.
AnswerKeepsPrompt(waiting, command) ==
  /\ waiting /\ active /\ MaybeRegistered /\ authRx = <<>>
  /\ authRx' = Append(authRx, command)
  /\ waitingAuth' = waiting
  /\ UNCHANGED <<mode, challenge, answered>>

\* authPassword, authPrivateKeyPassphrase and authKeyboardInteractiveResponses: a call
\* that cannot be made or is refused is an error and leaves waitingAuth as it was.
Answer(waiting, command) ==
  \/ /\ waiting /\ active /\ MaybeRegistered /\ authRx = <<>>
     /\ authRx' = Append(authRx, command)
     /\ waitingAuth' = FALSE
     /\ mode' = "CONNECTING"
     /\ challenge' = NoChallenge /\ answered' = 0
  \/ /\ ~(waiting /\ active /\ Registered /\ authRx = <<>>)
     /\ waitingAuth' = waiting
     /\ ShowError
     /\ UNCHANGED authRx

\* handleNativeAuthEvent and the prompt SessionViewModel shows; an event of a session
\* that is no longer current is dropped.  A challenge without prompts is answered at once.
HandleAuthEvent ==
  /\ events # <<>>
  /\ events' = Tail(events)
  /\ LET event == Head(events)
     IN \/ /\ ~active
           /\ UNCHANGED <<waitingAuth, mode, challenge, answered, authRx>>
        \/ /\ active /\ event.kind \in {"password", "passphrase"}
           /\ waitingAuth' = TRUE
           /\ mode' = IF event.kind = "password" THEN "PASSWORD_INPUT" ELSE "KEY_PASSPHRASE_INPUT"
           /\ UNCHANGED <<challenge, answered, authRx>>
        \/ /\ active /\ event.kind = "challenge" /\ event.prompts > 0
           /\ waitingAuth' = TRUE
           /\ mode' = "AUTH_CHALLENGE_INPUT"
           /\ challenge' = [round |-> event.round, prompts |-> event.prompts]
           /\ answered' = 0
           /\ UNCHANGED authRx
        \/ /\ active /\ event.kind = "challenge" /\ event.prompts = 0
           /\ Answer(TRUE, Command("responses", event.round, 0, TRUE))
  /\ UNCHANGED <<key, machine, task, disconnectRx, active>>

\* submitPassword and submitKeyPassphrase.
SubmitInput ==
  /\ \/ mode = "PASSWORD_INPUT" /\ Answer(waitingAuth, Command("password", 0, 0, TRUE))
     \/ mode = "KEY_PASSPHRASE_INPUT" /\ Answer(waitingAuth, Command("passphrase", 0, 0, TRUE))
  /\ UNCHANGED <<key, machine, task, disconnectRx, events, active>>

\* submitAuthChallengeResponse: one prompt is answered, and after the last one the
\* responses go out.  The user may have typed more than a response may hold.
SubmitAuthChallengeResponse ==
  /\ mode = "AUTH_CHALLENGE_INPUT"
  /\ \/ /\ answered + 1 < challenge.prompts
        /\ answered' = answered + 1
        /\ UNCHANGED <<waitingAuth, mode, challenge, authRx>>
     \/ /\ answered + 1 = challenge.prompts
        /\ \E fits \in BOOLEAN :
             Answer(waitingAuth, Command("responses", challenge.round, challenge.prompts, fits))
  /\ UNCHANGED <<key, machine, task, disconnectRx, events, active>>

\* cancelPendingConnection: Ctrl-C at a prompt or while connecting.
CancelPendingConnection ==
  /\ mode \in PendingModes
  /\ disconnectRx' = (disconnectRx \/ (active /\ Registered))
  /\ active' = FALSE
  /\ waitingAuth' = FALSE
  /\ ShowError
  /\ UNCHANGED <<key, machine, task, authRx, events>>

\* The AUTH: control event of a failed authentication reaches handleError.
ReportFailure ==
  /\ outcome = "failed"
  /\ active
  /\ active' = FALSE
  /\ waitingAuth' = FALSE
  /\ ShowError
  /\ UNCHANGED <<key, machine, task, channels, events>>

-----------------------------------------------------------------------------
Server == ServerRefuses \/ ServerAccepts \/ ServerChallenges
Timeouts == ExchangeFails \/ ResponseTimesOut
User == SubmitInput \/ SubmitAuthChallengeResponse \/ CancelPendingConnection
Client == HandleAuthEvent \/ ReportFailure
Task == Cancelled \/ TakeCommand

Next == Server \/ Timeouts \/ User \/ Client \/ Task

Spec == Init /\ [][Next]_vars

\* A dialogue in which everybody answers: the server answers each request, the user
\* each prompt, the task and the UI thread run.  No timeout is assumed to fire.
FairDialogue ==
  /\ Spec
  /\ WF_vars(Server)
  /\ WF_vars(SubmitInput \/ SubmitAuthChallengeResponse)
  /\ WF_vars(Client)
  /\ WF_vars(Task)

-----------------------------------------------------------------------------
(* Properties.                                                             *)

\* An answer on the auth channel is the answer to what the task is asking for now:
\* its kind, its round and its number of responses.  One prompt's credential never
\* reaches another exchange (run_authentication takes whatever command is queued).
AnswerMatchesRequest ==
  Running /\ authRx # <<>> =>
    /\ exchange = "idle"
    /\ Objection(Head(authRx)) \in {"no", "ProtocolLimitExceeded"}

\* The prompt on screen belongs to what the task waits for: no prompt outlives its
\* question, and no challenge of an earlier round is answered.
PromptIsCurrent ==
  Running /\ active =>
    /\ mode = "PASSWORD_INPUT" => waitingFor = "password"
    /\ mode = "KEY_PASSPHRASE_INPUT" => waitingFor = "passphrase"
    /\ mode = "AUTH_CHALLENGE_INPUT" => challenge = pending /\ answered < challenge.prompts

\* "Rejected" is reported only once every method that the server still offers and the
\* client can use has been requested in this stage, "no supported method" only if the
\* server never got a request at all (GiveUp's choice of message).
GiveUpIsJustified ==
  /\ failure = "Rejected" =>
       \A m \in offered : requests[m] = 1 \/ (m = "publickey" /\ key = "absent")
  /\ failure = "NoSupportedMethod" => authStages = 1 /\ requests = NoRequests

\* The task keeps to the budget: each method once a stage, stages and rounds bounded,
\* a new stage only on a partial success.
Budget ==
  INSTANCE AuthBudget WITH
    MaxStages <- MaxAuthStages, MaxRounds <- MaxInteractiveRounds,
    stage <- authStages, rounds <- interactiveRounds, result <- outcome
ImplementsBudget == Budget!Spec

\* Even a server that answers forever with partial successes and new challenges is
\* answered finitely often: the dialogue ends without any timeout.
DialogueEnds == <>(outcome # "running")
=============================================================================
