------------------------ MODULE AuthenticationProofs ------------------------
(***************************************************************************)
(* Authentication for every value of its limits: its types, the safety     *)
(* invariants of the dialogue and that it implements AuthBudget.           *)
(***************************************************************************)
EXTENDS Authentication, TLAPS

PromptModes == {"PASSWORD_INPUT", "KEY_PASSPHRASE_INPUT", "AUTH_CHALLENGE_INPUT"}

\* What the history variable and the redundant fields of the machine amount to.
CountInv ==
  /\ requests = [m \in Methods |-> IF m \in attempted THEN 1 ELSE 0]
  /\ anyAttempted <=> attempted # {}
  /\ nextRoundId = interactiveRounds + 1

\* The event or the prompt that asks for what the task waits for.
Asks(event) ==
  \/ waitingFor # "nothing" /\ event.kind = waitingFor
  \/ /\ waitingFor = "nothing" /\ event.kind = "challenge"
     /\ event.round = pending.round /\ event.prompts = pending.prompts

\* One question is open at most, and it is in one place: the event queue, the prompt or
\* the answer channel.
QuestionInv ==
  /\ exchange # "idle" =>
       /\ waitingFor = "nothing" /\ pending = NoChallenge
       /\ authRx = <<>> /\ events = <<>> /\ ~waitingAuth
       /\ authStages = 1 \/ attempted # {}
  /\ exchange = "idle" => (waitingFor = "nothing" <=> pending # NoChallenge)
  /\ pending # NoChallenge => pending.round # 0 /\ "keyboard-interactive" \in attempted
  /\ waitingFor = "passphrase" => "publickey" \notin attempted
  /\ waitingFor = "password" => "password" \notin attempted
  /\ authRx # <<>> =>
       /\ events = <<>> /\ ~waitingAuth
       /\ authRx = <<Head(authRx)>>
       /\ Objection(Head(authRx)) \in {"no", "ProtocolLimitExceeded"}
  /\ events # <<>> =>
       /\ ~waitingAuth
       /\ events = <<Head(events)>>
       /\ Asks(Head(events))

PromptInv ==
  /\ mode \in PromptModes => active /\ waitingAuth
  /\ mode = "PASSWORD_INPUT" => waitingFor = "password"
  /\ mode = "KEY_PASSPHRASE_INPUT" => waitingFor = "passphrase"
  /\ mode = "AUTH_CHALLENGE_INPUT" =>
       /\ waitingFor = "nothing"
       /\ challenge = pending
       /\ answered < challenge.prompts

GiveUpInv == GiveUpIsJustified /\ (Running => failure = "no")

IInv == TypeOK /\ CountInv /\ (Running => QuestionInv /\ PromptInv) /\ GiveUpInv

-----------------------------------------------------------------------------
(* Each action preserves the invariant.                                    *)

LEMMA InitInv == Init => IInv
<1> SUFFICES ASSUME Init PROVE IInv
  OBVIOUS
<1> USE DEF Init, NoChallenge, NoRequests
<1>1. TypeOK
  <2>1. /\ nextRoundId \in 1..(MaxInteractiveRounds + 1)
        /\ interactiveRounds \in 0..MaxInteractiveRounds
        /\ authStages \in 1..MaxAuthStages
    BY LimitsAssumption
  <2>2. requests \in [Methods -> Nat]
    OBVIOUS
  <2>3. authRx \in Seq(Commands) /\ events \in Seq(Events)
    OBVIOUS
  <2>4. pending \in Challenges /\ challenge \in Challenges /\ answered \in Nat
    BY DEF Challenges
  <2>5. key \in Keys /\ exchange \in Exchanges /\ mode \in PendingModes
    BY DEF Exchanges, PendingModes
  <2>6. /\ anyAttempted \in BOOLEAN /\ disconnectRx \in BOOLEAN
        /\ active \in BOOLEAN /\ waitingAuth \in BOOLEAN
    OBVIOUS
  <2>7. failure \in {"no"} /\ outcome \in {"running"} /\ waitingFor \in {"nothing"}
    OBVIOUS
  <2>8. attempted \in SUBSET Methods /\ offered \in SUBSET Methods
    OBVIOUS
  <2> QED
    BY <2>1, <2>2, <2>3, <2>4, <2>5, <2>6, <2>7, <2>8 DEF TypeOK
<1>2. CountInv
  BY DEF CountInv
<1>3. QuestionInv
  BY DEF QuestionInv
<1>4. PromptInv
  BY DEF PromptInv, PromptModes
<1>5. GiveUpInv
  BY DEF GiveUpInv, GiveUpIsJustified
<1> QED
  BY <1>1, <1>2, <1>3, <1>4, <1>5 DEF IInv

\* Once the authentication is over, only types and the verdict are left to preserve.
LEMMA ServerAcceptsInv == IInv /\ ServerAccepts => IInv'
<1> SUFFICES ASSUME IInv, ServerAccepts PROVE IInv'
  OBVIOUS
<1> USE DEF ServerAccepts, Exchanging, Running, machine, channels, client
<1>1. TypeOK'
  BY DEF IInv, TypeOK
<1>2. CountInv'
  BY DEF IInv, CountInv
<1>3. GiveUpInv'
  BY DEF IInv, GiveUpInv, GiveUpIsJustified
<1>4. ~Running'
  OBVIOUS
<1> QED
  BY <1>1, <1>2, <1>3, <1>4 DEF IInv

LEMMA ExchangeFailsInv == IInv /\ ExchangeFails => IInv'
<1> SUFFICES ASSUME IInv, ExchangeFails PROVE IInv'
  OBVIOUS
<1> USE DEF ExchangeFails, Exchanging, Fail, Running, machine, channels, client
<1>1. TypeOK'
  BY DEF IInv, TypeOK, OtherFailures
<1>2. CountInv'
  BY DEF IInv, CountInv
<1>3. GiveUpInv'
  BY DEF IInv, GiveUpInv, GiveUpIsJustified
<1>4. ~Running'
  OBVIOUS
<1> QED
  BY <1>1, <1>2, <1>3, <1>4 DEF IInv

LEMMA ResponseTimesOutInv == IInv /\ ResponseTimesOut => IInv'
<1> SUFFICES ASSUME IInv, ResponseTimesOut PROVE IInv'
  OBVIOUS
<1> USE DEF ResponseTimesOut, Awaiting, Fail, Running, machine, channels, client
<1>1. TypeOK'
  BY DEF IInv, TypeOK, OtherFailures
<1>2. CountInv'
  BY DEF IInv, CountInv
<1>3. GiveUpInv'
  BY DEF IInv, GiveUpInv, GiveUpIsJustified
<1>4. ~Running'
  OBVIOUS
<1> QED
  BY <1>1, <1>2, <1>3, <1>4 DEF IInv

LEMMA CancelledInv == IInv /\ Cancelled => IInv'
<1> SUFFICES ASSUME IInv, Cancelled PROVE IInv'
  OBVIOUS
<1> USE DEF Cancelled, Running, machine, client
<1>1. TypeOK'
  BY DEF IInv, TypeOK
<1>2. CountInv'
  BY DEF IInv, CountInv
<1>3. GiveUpInv'
  BY DEF IInv, GiveUpInv, GiveUpIsJustified
<1>4. ~Running'
  OBVIOUS
<1> QED
  BY <1>1, <1>2, <1>3, <1>4 DEF IInv

LEMMA ReportFailureInv == IInv /\ ReportFailure => IInv'
<1> SUFFICES ASSUME IInv, ReportFailure PROVE IInv'
  OBVIOUS
<1> USE DEF ReportFailure, ShowError, Running, machine, task, channels
<1>1. TypeOK'
  BY DEF IInv, TypeOK, NoChallenge, Challenges, PendingModes
<1>2. CountInv'
  BY DEF IInv, CountInv
<1>3. GiveUpInv'
  BY DEF IInv, GiveUpInv, GiveUpIsJustified
<1>4. ~Running'
  OBVIOUS
<1> QED
  BY <1>1, <1>2, <1>3, <1>4 DEF IInv

LEMMA CancelPendingConnectionInv == IInv /\ CancelPendingConnection => IInv'
<1> SUFFICES ASSUME IInv, CancelPendingConnection PROVE IInv'
  OBVIOUS
<1> USE DEF CancelPendingConnection, ShowError, machine, task
<1>1. TypeOK'
  BY DEF IInv, TypeOK, NoChallenge, Challenges, PendingModes
<1>2. CountInv'
  BY DEF IInv, CountInv
<1>3. GiveUpInv'
  BY DEF IInv, GiveUpInv, GiveUpIsJustified, Running
<1>4. Running' => QuestionInv'
  BY DEF IInv, Running, QuestionInv, Objection, Asks
<1>5. PromptInv'
  BY DEF PromptInv, PromptModes
<1> QED
  BY <1>1, <1>2, <1>3, <1>4, <1>5 DEF IInv

\* The method chosen is open: offered, usable and not yet tried in this stage.
LEMMA ChosenIsOpen ==
  ASSUME NEW remaining \in SUBSET Methods, NEW tried \in SUBSET Methods
  PROVE  \/ /\ Chosen(remaining, tried) = "none"
            /\ \A m \in remaining : m \in tried \/ (m = "publickey" /\ key = "absent")
         \/ /\ Chosen(remaining, tried) \in Methods
            /\ Chosen(remaining, tried) \notin tried
BY DEF Chosen, Methods

\* A queue of one.
LEMMA Singleton ==
  ASSUME NEW S, NEW e \in S
  PROVE  /\ Append(<<>>, e) = <<e>> /\ <<e>> \in Seq(S) /\ <<>> \in Seq(S)
         /\ Head(<<e>>) = e /\ Tail(<<e>>) = <<>> /\ <<e>> # <<>>
OBVIOUS

LEMMA ServerRefusesInv == IInv /\ ServerRefuses => IInv'
<1> SUFFICES ASSUME IInv, ServerRefuses PROVE IInv'
  OBVIOUS
<1> USE DEF Running, Exchanging, channels, client
<1>1. PICK remaining \in SUBSET Methods, partial \in BOOLEAN :
        offered' = remaining /\ SelectNextMethod(remaining, partial)
  BY DEF ServerRefuses
<1> DEFINE tried == IF partial THEN {} ELSE attempted
           any == anyAttempted /\ ~partial
           seen == IF partial THEN NoRequests ELSE requests
           m == Chosen(remaining, tried)
<1>2. /\ TypeOK /\ CountInv /\ QuestionInv /\ PromptInv /\ GiveUpInv
      /\ outcome = "running" /\ exchange # "idle"
      /\ UNCHANGED <<key, authRx, disconnectRx, active, waitingAuth, mode, challenge, answered>>
  BY DEF IInv, ServerRefuses
<1>3. /\ waitingFor = "nothing" /\ pending = NoChallenge
      /\ authRx = <<>> /\ events = <<>> /\ ~waitingAuth /\ mode \notin PromptModes
  BY <1>2 DEF QuestionInv, PromptInv
<1>4. /\ tried \in SUBSET Methods
      /\ seen = [x \in Methods |-> IF x \in tried THEN 1 ELSE 0]
      /\ any <=> tried # {}
  BY <1>2 DEF TypeOK, CountInv, NoRequests
<1>5. \/ m = "none" /\ \A x \in remaining : x \in tried \/ (x = "publickey" /\ key = "absent")
      \/ m \in Methods /\ m \notin tried
  BY <1>4, ChosenIsOpen
<1> HIDE DEF m
<1>6. CASE RefuseSelection(partial)
  <2> USE <1>6 DEF RefuseSelection, Fail, machine
  <2>1. failure' = "ProtocolLimitExceeded"
    BY <1>3
  <2>2. TypeOK'
    BY <1>1, <1>2, <2>1 DEF TypeOK, AuthFailures, Exchanges
  <2>3. CountInv'
    BY <1>2 DEF CountInv
  <2>4. GiveUpInv'
    BY <2>1 DEF GiveUpInv, GiveUpIsJustified
  <2> QED
    BY <2>2, <2>3, <2>4 DEF IInv
<1>7. ASSUME partial => authStages < MaxAuthStages, authStages' = Stage(partial),
             UNCHANGED <<pending, nextRoundId, interactiveRounds>>
      PROVE  authStages' \in 1..MaxAuthStages
  BY <1>2, <1>7, LimitsAssumption DEF TypeOK, Stage
<1>8. CASE /\ ~RefuseSelection(partial)
           /\ m \in {"keyboard-interactive", "publickey"} /\ AttemptNow(m, tried, seen)
  <2>1. /\ partial => authStages < MaxAuthStages
        /\ authStages' = Stage(partial)
        /\ UNCHANGED <<pending, nextRoundId, interactiveRounds>>
    BY <1>1, <1>8 DEF SelectNextMethod
  <2>2. /\ attempted' = tried \cup {m} /\ anyAttempted' = TRUE
        /\ UNCHANGED <<waitingFor, outcome, failure, events>>
        /\ exchange' = m /\ requests' = [seen EXCEPT ![m] = @ + 1]
    BY <1>8 DEF AttemptNow, Send
  <2>3. requests' = [x \in Methods |-> IF x \in attempted' THEN 1 ELSE 0]
    BY <1>4, <1>5, <1>8, <2>2 DEF Methods
  <2>4. TypeOK'
    <3>1. attempted' \in SUBSET Methods /\ exchange' \in Exchanges /\ offered' \in SUBSET Methods
      BY <1>1, <1>4, <1>8, <2>2 DEF Exchanges, Methods
    <3>2. requests' \in [Methods -> Nat]
      BY <2>3
    <3> QED
      BY <1>2, <1>7, <2>1, <2>2, <3>1, <3>2 DEF TypeOK
  <2>5. CountInv'
    BY <1>2, <2>1, <2>2, <2>3 DEF CountInv
  <2>6. QuestionInv' /\ PromptInv'
    BY <1>2, <1>3, <1>8, <2>1, <2>2 DEF QuestionInv, PromptInv, PromptModes
  <2>7. GiveUpInv'
    BY <1>2, <2>2 DEF GiveUpInv, GiveUpIsJustified
  <2> QED
    BY <2>4, <2>5, <2>6, <2>7 DEF IInv
<1>9. ASSUME NEW c \in {"passphrase", "password"},
             m = IF c = "passphrase" THEN "publickey" ELSE "password",
             ~RefuseSelection(partial), RequestCredential(c, tried, any, seen)
      PROVE  IInv'
  <2>1. /\ partial => authStages < MaxAuthStages
        /\ authStages' = Stage(partial)
        /\ UNCHANGED <<pending, nextRoundId, interactiveRounds>>
    BY <1>1, <1>9 DEF SelectNextMethod
  <2>2. /\ attempted' = tried /\ anyAttempted' = any /\ requests' = seen
        /\ waitingFor' = c /\ exchange' = "idle"
    BY <1>9 DEF RequestCredential, Ask
  <2>3. CredentialEvent(c) \in Events /\ CredentialEvent(c).kind = c
    BY DEF CredentialEvent, Events
  <2>4. \/ /\ events' = <<CredentialEvent(c)>>
           /\ UNCHANGED <<outcome, failure>>
        \/ /\ outcome' = "failed" /\ failure' = "callback delivery failed"
           /\ UNCHANGED events
    BY <1>3, <1>9, <2>3, Singleton DEF RequestCredential, Ask, Fail
  <2>5. TypeOK'
    <3>1. events' \in Seq(Events)
      BY <1>2, <2>3, <2>4, Singleton DEF TypeOK
    <3>2. /\ outcome' \in {"running", "authenticated", "cancelled", "failed"}
          /\ failure' \in AuthFailures \cup OtherFailures \cup {"no"}
      BY <1>2, <2>4 DEF TypeOK, OtherFailures
    <3>3. requests' \in [Methods -> Nat]
      BY <1>4, <2>2
    <3>4. anyAttempted' \in BOOLEAN
      BY <1>2, <2>2 DEF TypeOK
    <3> QED
      BY <1>1, <1>2, <1>4, <1>7, <2>1, <2>2, <3>1, <3>3, <3>4, <3>2 DEF TypeOK, Exchanges
  <2>6. CountInv'
    BY <1>2, <1>4, <2>1, <2>2 DEF CountInv
  <2>7. outcome' = "running" => QuestionInv' /\ PromptInv'
    BY <1>2, <1>3, <1>5, <1>9, <2>1, <2>2, <2>3, <2>4, Singleton
    DEF QuestionInv, PromptInv, PromptModes, Asks, Methods
  <2>8. GiveUpInv'
    BY <1>2, <2>4 DEF GiveUpInv, GiveUpIsJustified
  <2> QED
    BY <2>5, <2>6, <2>7, <2>8 DEF IInv
<1>10. CASE ~RefuseSelection(partial) /\ m = "none" /\ GiveUp(partial, tried, any, seen)
  <2>1. /\ partial => authStages < MaxAuthStages
        /\ authStages' = Stage(partial)
        /\ UNCHANGED <<pending, nextRoundId, interactiveRounds>>
    BY <1>1, <1>10 DEF SelectNextMethod
  <2>2. /\ attempted' = tried /\ anyAttempted' = any /\ requests' = seen
        /\ outcome' = "failed" /\ exchange' = "idle"
        /\ failure' = IF partial \/ any THEN "Rejected" ELSE "NoSupportedMethod"
        /\ UNCHANGED <<waitingFor, events>>
    BY <1>10 DEF GiveUp, Fail
  <2>3. TypeOK'
    <3>1. requests' \in [Methods -> Nat]
      BY <1>4, <2>2
    <3>2. anyAttempted' \in BOOLEAN
      BY <1>2, <2>2 DEF TypeOK
    <3> QED
      BY <1>1, <1>2, <1>4, <1>7, <2>1, <2>2, <3>1, <3>2 DEF TypeOK, Exchanges, AuthFailures
  <2>4. CountInv'
    BY <1>2, <1>4, <2>1, <2>2 DEF CountInv
  <2>5. GiveUpInv'
    <3>1. \A x \in remaining : requests'[x] = 1 \/ (x = "publickey" /\ key' = "absent")
      BY <1>2, <1>4, <1>5, <1>10, <2>2 DEF Methods
    <3>2. failure' = "NoSupportedMethod" => authStages' = 1 /\ requests' = NoRequests
      BY <1>2, <1>4, <2>1, <2>2 DEF QuestionInv, Stage, NoRequests
    <3> QED
      BY <1>1, <2>2, <3>1, <3>2 DEF GiveUpInv, GiveUpIsJustified
  <2> QED
    BY <2>2, <2>3, <2>4, <2>5 DEF IInv
<1> QED
  BY <1>1, <1>6, <1>8, <1>9, <1>10 DEF SelectNextMethod, m

LEMMA ServerChallengesInv == IInv /\ ServerChallenges => IInv'
<1> SUFFICES ASSUME IInv, ServerChallenges PROVE IInv'
  OBVIOUS
<1> USE DEF Running, Exchanging, channels, client
<1>1. PICK n \in 0..(MaxPrompts + 1), fits \in BOOLEAN : InfoRequest(n, fits)
  BY DEF ServerChallenges
<1>2. /\ TypeOK /\ CountInv /\ QuestionInv /\ PromptInv /\ GiveUpInv
      /\ outcome = "running" /\ exchange = "keyboard-interactive"
      /\ UNCHANGED <<key, offered, requests, authRx, disconnectRx,
                     active, waitingAuth, mode, challenge, answered>>
  BY <1>1 DEF IInv, InfoRequest
<1>3. /\ waitingFor = "nothing" /\ pending = NoChallenge
      /\ authRx = <<>> /\ events = <<>> /\ ~waitingAuth /\ mode \notin PromptModes
  BY <1>2 DEF QuestionInv, PromptInv
<1>4. CASE /\ exchange' = "idle" /\ UNCHANGED <<machine, events>>
           /\ outcome' = "failed"
           /\ failure' \in {"UnexpectedChallenge", "ProtocolLimitExceeded"}
  <2> USE <1>4 DEF machine
  <2>1. TypeOK'
    BY <1>2 DEF TypeOK, AuthFailures, Exchanges
  <2>2. CountInv'
    BY <1>2 DEF CountInv
  <2>3. GiveUpInv'
    BY <1>2 DEF GiveUpInv, GiveUpIsJustified
  <2> QED
    BY <2>1, <2>2, <2>3 DEF IInv
<1>5. ASSUME NEW e \in Events, e.kind = "challenge", e.round = nextRoundId, e.prompts = n,
             Ask(e),
             "keyboard-interactive" \in attempted,
             interactiveRounds < MaxInteractiveRounds,
             pending' = [round |-> nextRoundId, prompts |-> n],
             nextRoundId' = nextRoundId + 1, interactiveRounds' = interactiveRounds + 1,
             UNCHANGED <<attempted, anyAttempted, waitingFor, authStages>>
      PROVE  IInv'
  <2>1. exchange' = "idle"
    BY <1>5 DEF Ask
  <2>2. \/ /\ events' = <<e>>
           /\ UNCHANGED <<outcome, failure>>
        \/ /\ outcome' = "failed" /\ failure' = "callback delivery failed"
           /\ UNCHANGED events
    BY <1>3, <1>5, Singleton DEF Ask, Fail
  <2>3. nextRoundId \in Nat /\ nextRoundId # 0 /\ n \in Nat
    BY <1>2, LimitsAssumption DEF TypeOK
  <2>4. TypeOK'
    <3>1. events' \in Seq(Events)
      BY <1>2, <1>5, <2>2, Singleton DEF TypeOK
    <3>2. /\ outcome' \in {"running", "authenticated", "cancelled", "failed"}
          /\ failure' \in AuthFailures \cup OtherFailures \cup {"no"}
      BY <1>2, <2>2 DEF TypeOK, OtherFailures
    <3>3. pending' \in Challenges
      BY <1>5, <2>3 DEF Challenges
    <3>4. /\ interactiveRounds' \in 0..MaxInteractiveRounds
          /\ nextRoundId' \in 1..(MaxInteractiveRounds + 1)
      BY <1>2, <1>5, LimitsAssumption DEF TypeOK, CountInv
    <3> QED
      BY <1>2, <1>5, <2>1, <3>1, <3>2, <3>3, <3>4 DEF TypeOK, Exchanges
  <2>5. CountInv'
    BY <1>2, <1>5, <2>3, LimitsAssumption DEF CountInv, TypeOK
  <2>6. outcome' = "running" => QuestionInv' /\ PromptInv'
    <3>1. pending' # NoChallenge /\ pending'.round # 0
      BY <1>5, <2>3 DEF NoChallenge
    <3>2. outcome' = "running" => events' = <<e>> /\ Head(events') = e
      BY <2>2, Singleton
    <3>3. Asks(e)'
      BY <1>2, <1>3, <1>5 DEF Asks
    <3>4. authRx' = <<>> /\ ~waitingAuth' /\ mode' \notin PromptModes
      BY <1>2, <1>3
    <3> QED
      BY <1>3, <1>5, <2>1, <3>1, <3>2, <3>3, <3>4 DEF QuestionInv, PromptInv, PromptModes, Asks
  <2>7. GiveUpInv'
    BY <1>2, <2>2 DEF GiveUpInv, GiveUpIsJustified
  <2> QED
    BY <2>4, <2>5, <2>6, <2>7 DEF IInv
<1>6. ASSUME NEW e, e = [kind |-> "challenge", round |-> nextRoundId, prompts |-> n]
      PROVE  e \in Events /\ e.kind = "challenge" /\ e.round = nextRoundId /\ e.prompts = n
  BY <1>2, <1>6, LimitsAssumption DEF TypeOK, Events
<1> QED
  BY <1>1, <1>4, <1>5, <1>6 DEF InfoRequest, Fail

\* What a command that meets no objection answers, and what objections there are.
LEMMA NoObjection ==
  ASSUME NEW command, Objection(command) = "no",
         waitingFor \in {"nothing", "passphrase", "password"}
  PROVE  \/ waitingFor # "nothing" /\ command.kind = waitingFor
         \/ waitingFor = "nothing" /\ command.kind = "responses" /\ pending # NoChallenge
BY DEF Objection

LEMMA ObjectionTyped ==
  ASSUME NEW command, waitingFor \in {"nothing", "passphrase", "password"}
  PROVE  Objection(command) \in AuthFailures \cup {"no"}
BY DEF Objection, AuthFailures

LEMMA TakeCommandInv == IInv /\ TakeCommand => IInv'
<1> SUFFICES ASSUME IInv, TakeCommand PROVE IInv'
  OBVIOUS
<1> USE DEF Running, Awaiting, client
<1> DEFINE command == Head(authRx)
<1>1. /\ TypeOK /\ CountInv /\ QuestionInv /\ PromptInv /\ GiveUpInv
      /\ outcome = "running" /\ exchange = "idle" /\ authRx # <<>>
      /\ authRx' = Tail(authRx)
      /\ UNCHANGED <<key, offered, disconnectRx, active, waitingAuth, mode, challenge, answered>>
  BY DEF IInv, TakeCommand
<1>2. /\ events = <<>> /\ ~waitingAuth /\ mode \notin PromptModes
      /\ command \in Commands /\ authRx = <<command>>
      /\ waitingFor \in {"nothing", "passphrase", "password"}
  <2>1. authRx \in Seq(Commands)
    BY <1>1 DEF TypeOK
  <2> QED
    BY <1>1, <2>1 DEF QuestionInv, PromptInv, TypeOK
<1>3. authRx' = <<>> /\ authRx' \in Seq(Commands)
  BY <1>1, <1>2, Singleton
<1>4. requests = [x \in Methods |-> IF x \in attempted THEN 1 ELSE 0]
  BY <1>1 DEF CountInv
<1>5. ASSUME NEW m \in {"publickey", "password"}, m \notin attempted, pending = NoChallenge,
             SubmitCredential(m)
      PROVE  IInv'
  <2>1. /\ attempted' = attempted \cup {m} /\ anyAttempted' = TRUE /\ waitingFor' = "nothing"
        /\ exchange' = m /\ requests' = [requests EXCEPT ![m] = @ + 1]
        /\ UNCHANGED <<pending, nextRoundId, interactiveRounds, authStages>>
        /\ UNCHANGED <<outcome, failure, events>>
    BY <1>5 DEF SubmitCredential, Send
  <2>2. requests' = [x \in Methods |-> IF x \in attempted' THEN 1 ELSE 0]
    <3>1. m \in Methods /\ requests[m] = 0
      BY <1>4, <1>5 DEF Methods
    <3>2. requests \in [Methods -> Nat]
      BY <1>4
    <3>3. requests' \in [Methods -> Nat] /\ requests'[m] = 1
      BY <2>1, <3>1, <3>2
    <3>4. \A x \in Methods : x # m => requests'[x] = requests[x]
      BY <2>1, <3>1, <3>2
    <3> QED
      BY <1>4, <2>1, <3>1, <3>3, <3>4
  <2>3. TypeOK'
    <3>1. attempted' \in SUBSET Methods /\ exchange' \in Exchanges
      BY <1>1, <2>1 DEF TypeOK, Exchanges, Methods
    <3>2. requests' \in [Methods -> Nat]
      BY <2>2
    <3> QED
      BY <1>1, <1>3, <2>1, <3>1, <3>2 DEF TypeOK
  <2>4. CountInv'
    BY <1>1, <2>1, <2>2 DEF CountInv
  <2>5. QuestionInv' /\ PromptInv'
    BY <1>1, <1>2, <1>3, <1>5, <2>1 DEF QuestionInv, PromptInv, PromptModes
  <2>6. GiveUpInv'
    BY <1>1, <2>1 DEF GiveUpInv, GiveUpIsJustified
  <2> QED
    BY <2>3, <2>4, <2>5, <2>6 DEF IInv
<1>6. CASE Objection(command) = "no" /\ command.kind = "responses" /\ ValidateResponses(command)
  <2>1. /\ waitingFor = "nothing" /\ "keyboard-interactive" \in attempted
        /\ pending' = NoChallenge /\ exchange' = "keyboard-interactive"
        /\ UNCHANGED <<attempted, anyAttempted, waitingFor, nextRoundId, interactiveRounds,
                       authStages, outcome, failure, requests, events>>
    BY <1>1, <1>2, <1>6, NoObjection DEF ValidateResponses, QuestionInv
  <2>2. TypeOK'
    BY <1>1, <1>3, <2>1 DEF TypeOK, NoChallenge, Challenges, Exchanges, Methods
  <2>3. CountInv'
    BY <1>1, <2>1 DEF CountInv
  <2>4. QuestionInv' /\ PromptInv'
    BY <1>1, <1>2, <1>3, <2>1 DEF QuestionInv, PromptInv, PromptModes
  <2>5. GiveUpInv'
    BY <1>1, <2>1 DEF GiveUpInv, GiveUpIsJustified
  <2> QED
    BY <2>2, <2>3, <2>4, <2>5 DEF IInv
<1>7. CASE /\ Objection(command) # "no"
           /\ Fail(Objection(command))
           /\ UNCHANGED <<machine, exchange, requests, events>>
  <2>1. Objection(command) = "ProtocolLimitExceeded"
    BY <1>1, <1>7 DEF QuestionInv
  <2>2. outcome' = "failed" /\ failure' = "ProtocolLimitExceeded"
    BY <1>7, <2>1 DEF Fail
  <2>3. TypeOK'
    BY <1>1, <1>3, <1>7, <2>2 DEF TypeOK, AuthFailures, machine
  <2>4. CountInv'
    BY <1>1, <1>7 DEF CountInv, machine
  <2>5. GiveUpInv'
    BY <2>2 DEF GiveUpInv, GiveUpIsJustified
  <2> QED
    BY <2>2, <2>3, <2>4, <2>5 DEF IInv
<1>8. CASE Objection(command) = "no" /\ command.kind = "passphrase" /\ SubmitCredential("publickey")
  <2>1. waitingFor = "passphrase"
    BY <1>2, <1>8, NoObjection
  <2> QED
    BY <1>1, <1>5, <1>8, <2>1 DEF QuestionInv
<1>9. CASE Objection(command) = "no" /\ command.kind = "password" /\ SubmitCredential("password")
  <2>1. waitingFor = "password"
    BY <1>2, <1>9, NoObjection
  <2> QED
    BY <1>1, <1>5, <1>9, <2>1 DEF QuestionInv
<1> QED
  BY <1>6, <1>7, <1>8, <1>9 DEF TakeCommand

\* What an attempt to answer changes: the answer is queued, or it is an error.
LEMMA AnswerEffect ==
  ASSUME TypeOK, NEW waiting \in BOOLEAN, NEW command \in Commands, Answer(waiting, command)
  PROVE  /\ authRx' \in Seq(Commands) /\ waitingAuth' \in BOOLEAN
         /\ mode' \in {"CONNECTING", "IDLE"} /\ challenge' = NoChallenge /\ answered' = 0
         /\ \/ authRx' = <<command>> /\ Head(authRx') = command /\ ~waitingAuth'
            \/ UNCHANGED authRx /\ waitingAuth' = waiting
<1>1. CASE /\ authRx = <<>> /\ authRx' = Append(authRx, command) /\ waitingAuth' = FALSE
           /\ mode' = "CONNECTING" /\ challenge' = NoChallenge /\ answered' = 0
  BY <1>1, Singleton
<1>2. CASE waitingAuth' = waiting /\ ShowError /\ UNCHANGED authRx
  BY <1>2 DEF ShowError, TypeOK
<1> QED
  BY <1>1, <1>2 DEF Answer

\* Answering the open question keeps the invariant.
LEMMA AnswerInv ==
  ASSUME IInv, NEW waiting \in BOOLEAN, NEW command \in Commands, Answer(waiting, command),
         Running => /\ exchange = "idle" /\ authRx = <<>> /\ events' = <<>>
                    /\ Objection(command) \in {"no", "ProtocolLimitExceeded"},
         events' \in Seq(Events),
         UNCHANGED <<key, machine, task, disconnectRx, active>>
  PROVE  IInv'
<1> USE DEF machine, task
<1>1. TypeOK /\ CountInv /\ GiveUpInv
  BY DEF IInv
<1>2. /\ authRx' \in Seq(Commands) /\ waitingAuth' \in BOOLEAN
      /\ mode' \in {"CONNECTING", "IDLE"} /\ challenge' = NoChallenge /\ answered' = 0
      /\ \/ authRx' = <<command>> /\ Head(authRx') = command /\ ~waitingAuth'
         \/ UNCHANGED authRx /\ waitingAuth' = waiting
  BY <1>1, AnswerEffect
<1>3. TypeOK'
  BY <1>1, <1>2 DEF TypeOK, NoChallenge, Challenges, PendingModes
<1>4. CountInv'
  BY <1>1 DEF CountInv
<1>5. Running' => QuestionInv' /\ PromptInv'
  <2> SUFFICES ASSUME Running PROVE QuestionInv' /\ PromptInv'
    BY DEF Running
  <2>1. QuestionInv
    BY DEF IInv
  <2>2. QuestionInv'
    <3>1. CASE authRx' = <<command>> /\ Head(authRx') = command /\ ~waitingAuth'
      <4>1. Objection(Head(authRx))' = Objection(command)
        BY <3>1 DEF Objection
      <4> QED
        BY <2>1, <3>1, <4>1 DEF QuestionInv
    <3>2. CASE UNCHANGED authRx /\ waitingAuth' = waiting
      BY <2>1, <3>2 DEF QuestionInv
    <3> QED
      BY <1>2, <3>1, <3>2
  <2>3. PromptInv'
    BY <1>2 DEF PromptInv, PromptModes
  <2> QED
    BY <2>2, <2>3
<1>6. GiveUpInv'
  BY <1>1 DEF GiveUpInv, GiveUpIsJustified, Running
<1> QED
  BY <1>3, <1>4, <1>5, <1>6 DEF IInv

\* A prompt on screen is the open question, wherever the task stands.
LEMMA PromptIsOpen ==
  ASSUME IInv, Running, mode \in PromptModes
  PROVE  exchange = "idle" /\ authRx = <<>> /\ events = <<>> /\ waitingAuth
BY DEF IInv, QuestionInv, PromptInv

LEMMA SubmitInputInv == IInv /\ SubmitInput => IInv'
<1> SUFFICES ASSUME IInv, SubmitInput PROVE IInv'
  OBVIOUS
<1>1. waitingAuth \in BOOLEAN /\ events \in Seq(Events)
  BY DEF IInv, TypeOK
<1>2. /\ mode \in {"PASSWORD_INPUT", "KEY_PASSPHRASE_INPUT"}
      /\ UNCHANGED <<key, machine, task, disconnectRx, events, active>>
  BY DEF SubmitInput
<1>3. Running => /\ exchange = "idle" /\ authRx = <<>> /\ events' = <<>>
                 /\ waitingFor = IF mode = "PASSWORD_INPUT" THEN "password" ELSE "passphrase"
  BY <1>2, PromptIsOpen DEF IInv, PromptInv, PromptModes
<1>4. ASSUME NEW kind \in {"password", "passphrase"},
             Answer(waitingAuth, Command(kind, 0, 0, TRUE)),
             Running => waitingFor = kind
      PROVE  IInv'
  <2>1. Command(kind, 0, 0, TRUE) \in Commands /\ Command(kind, 0, 0, TRUE).kind = kind
    BY DEF Command, Commands
  <2>2. Running => Objection(Command(kind, 0, 0, TRUE)) = "no"
    BY <1>4, <2>1 DEF Objection
  <2> QED
    BY <1>1, <1>2, <1>3, <1>4, <2>1, <2>2, AnswerInv
<1> QED
  BY <1>2, <1>3, <1>4 DEF SubmitInput

\* The responses to the challenge that is pending meet no objection but the size limit.
LEMMA ResponsesFit ==
  ASSUME NEW round \in Nat, NEW count \in Nat, NEW fits \in BOOLEAN,
         waitingFor = "nothing", pending # NoChallenge,
         pending.round = round, pending.prompts = count
  PROVE  /\ Command("responses", round, count, fits) \in Commands
         /\ Objection(Command("responses", round, count, fits)) \in {"no", "ProtocolLimitExceeded"}
BY DEF Command, Commands, Objection

LEMMA SubmitAuthChallengeResponseInv == IInv /\ SubmitAuthChallengeResponse => IInv'
<1> SUFFICES ASSUME IInv, SubmitAuthChallengeResponse PROVE IInv'
  OBVIOUS
<1>1. /\ mode = "AUTH_CHALLENGE_INPUT"
      /\ UNCHANGED <<key, machine, task, disconnectRx, events, active>>
      /\ TypeOK /\ CountInv /\ GiveUpInv
  BY DEF SubmitAuthChallengeResponse, IInv
<1>2. CASE /\ answered + 1 < challenge.prompts
           /\ answered' = answered + 1
           /\ UNCHANGED <<waitingAuth, mode, challenge, authRx>>
  <2> USE <1>2 DEF machine, task
  <2>1. TypeOK'
    BY <1>1 DEF TypeOK
  <2>2. CountInv'
    BY <1>1 DEF CountInv
  <2>3. Running' => QuestionInv'
    BY <1>1 DEF IInv, Running, QuestionInv, Objection, Asks
  <2>4. Running' => PromptInv'
    BY <1>1 DEF IInv, Running, PromptInv, PromptModes
  <2>5. GiveUpInv'
    BY <1>1 DEF GiveUpInv, GiveUpIsJustified, Running
  <2> QED
    BY <2>1, <2>2, <2>3, <2>4, <2>5 DEF IInv
<1>3. ASSUME NEW fits \in BOOLEAN,
             Answer(waitingAuth, Command("responses", challenge.round, challenge.prompts, fits))
      PROVE  IInv'
  <2>1. /\ waitingAuth \in BOOLEAN /\ events \in Seq(Events)
        /\ challenge.round \in Nat /\ challenge.prompts \in Nat
    BY <1>1 DEF TypeOK, Challenges
  <2>2. Running => /\ exchange = "idle" /\ authRx = <<>> /\ events' = <<>>
                   /\ waitingFor = "nothing" /\ challenge = pending /\ pending # NoChallenge
    BY <1>1, PromptIsOpen DEF IInv, QuestionInv, PromptInv, PromptModes
  <2>3. Command("responses", challenge.round, challenge.prompts, fits) \in Commands
    BY <2>1 DEF Command, Commands
  <2>4. Running => Objection(Command("responses", challenge.round, challenge.prompts, fits))
                     \in {"no", "ProtocolLimitExceeded"}
    BY <2>1, <2>2, ResponsesFit
  <2> QED
    BY <1>1, <1>3, <2>1, <2>2, <2>3, <2>4, AnswerInv
<1> QED
  BY <1>2, <1>3 DEF SubmitAuthChallengeResponse

LEMMA HandleAuthEventInv == IInv /\ HandleAuthEvent => IInv'
<1> SUFFICES ASSUME IInv, HandleAuthEvent PROVE IInv'
  OBVIOUS
<1> DEFINE event == Head(events)
<1>1. /\ events # <<>> /\ events' = Tail(events)
      /\ UNCHANGED <<key, machine, task, disconnectRx, active>>
      /\ TypeOK /\ CountInv /\ GiveUpInv
  BY DEF HandleAuthEvent, IInv
<1>2. /\ event \in Events /\ events' \in Seq(Events)
      /\ event.round \in Nat /\ event.prompts \in Nat
  <2>1. events \in Seq(Events)
    BY <1>1 DEF TypeOK
  <2>2. event \in Events
    BY <1>1, <2>1
  <2>3. events' \in Seq(Events)
    BY <1>1, <2>1
  <2> QED
    BY <2>2, <2>3 DEF Events
<1>3. Running => /\ exchange = "idle" /\ authRx = <<>> /\ events' = <<>> /\ ~waitingAuth
                 /\ Asks(event) /\ mode \notin PromptModes
                 /\ waitingFor = "nothing" => pending # NoChallenge
  <2> SUFFICES ASSUME Running PROVE /\ exchange = "idle" /\ authRx = <<>> /\ events' = <<>>
                                    /\ ~waitingAuth /\ Asks(event) /\ mode \notin PromptModes
                                    /\ waitingFor = "nothing" => pending # NoChallenge
    OBVIOUS
  <2>1. QuestionInv /\ PromptInv /\ events = <<event>>
    BY <1>1 DEF IInv, QuestionInv
  <2> QED
    BY <1>1, <1>2, <2>1, Singleton DEF QuestionInv, PromptInv
<1>4. ASSUME TypeOK', Running => PromptInv', waitingAuth' \in BOOLEAN, UNCHANGED authRx
      PROVE  IInv'
  <2> USE <1>4 DEF machine, task
  <2>1. CountInv'
    BY <1>1 DEF CountInv
  <2>2. Running' => QuestionInv'
    <3> SUFFICES ASSUME Running PROVE QuestionInv'
      BY <1>1 DEF Running
    <3> QED
      BY <1>1, <1>3 DEF IInv, QuestionInv
  <2>3. GiveUpInv'
    BY <1>1 DEF GiveUpInv, GiveUpIsJustified, Running
  <2> QED
    BY <1>1, <2>1, <2>2, <2>3 DEF IInv, Running
<1>5. CASE UNCHANGED <<waitingAuth, mode, challenge, answered, authRx>>
  <2>1. TypeOK'
    BY <1>1, <1>2, <1>5 DEF TypeOK, machine, task
  <2>2. Running => PromptInv'
    BY <1>1, <1>3, <1>5 DEF PromptInv, PromptModes
  <2> QED
    BY <1>1, <1>4, <1>5, <2>1, <2>2 DEF TypeOK
<1>6. CASE /\ active /\ event.kind \in {"password", "passphrase"}
           /\ waitingAuth' = TRUE
           /\ mode' = IF event.kind = "password" THEN "PASSWORD_INPUT" ELSE "KEY_PASSPHRASE_INPUT"
           /\ UNCHANGED <<challenge, answered, authRx>>
  <2>1. TypeOK'
    BY <1>1, <1>2, <1>6 DEF TypeOK, machine, task, PendingModes
  <2>2. Running => PromptInv'
    BY <1>1, <1>3, <1>6 DEF PromptInv, PromptModes, Asks, machine
  <2> QED
    BY <1>4, <1>6, <2>1, <2>2
<1>7. CASE /\ active /\ event.kind = "challenge" /\ event.prompts > 0
           /\ waitingAuth' = TRUE
           /\ mode' = "AUTH_CHALLENGE_INPUT"
           /\ challenge' = [round |-> event.round, prompts |-> event.prompts]
           /\ answered' = 0
           /\ UNCHANGED authRx
  <2>1. TypeOK'
    BY <1>1, <1>2, <1>7 DEF TypeOK, machine, task, PendingModes, Challenges
  <2>2. Running => waitingFor = "nothing" /\ pending = [round |-> event.round, prompts |-> event.prompts]
    BY <1>1, <1>3, <1>7 DEF Asks, TypeOK, Challenges
  <2>3. Running => PromptInv'
    BY <1>1, <1>2, <1>7, <2>2 DEF PromptInv, PromptModes, machine
  <2> QED
    BY <1>4, <1>7, <2>1, <2>3
<1>8. CASE /\ active /\ event.kind = "challenge" /\ event.prompts = 0
           /\ Answer(TRUE, Command("responses", event.round, 0, TRUE))
  <2>1. Command("responses", event.round, 0, TRUE) \in Commands
    BY <1>2 DEF Command, Commands
  <2>2. Running => /\ waitingFor = "nothing" /\ pending # NoChallenge
                   /\ pending.round = event.round /\ pending.prompts = 0
    BY <1>1, <1>3, <1>8 DEF Asks, TypeOK
  <2>3. Running => Objection(Command("responses", event.round, 0, TRUE))
                     \in {"no", "ProtocolLimitExceeded"}
    BY <1>2, <2>2, ResponsesFit
  <2> QED
    BY <1>1, <1>2, <1>3, <1>8, <2>1, <2>3, AnswerInv
<1> QED
  BY <1>5, <1>6, <1>7, <1>8 DEF HandleAuthEvent

LEMMA StutterInv == IInv /\ UNCHANGED vars => IInv'
<1> SUFFICES ASSUME IInv, UNCHANGED vars PROVE IInv'
  OBVIOUS
<1> USE DEF vars, machine, task, channels, client
<1>1. TypeOK'
  BY DEF IInv, TypeOK
<1>2. CountInv'
  BY DEF IInv, CountInv
<1>3. Running' => QuestionInv' /\ PromptInv'
  BY DEF IInv, Running, QuestionInv, PromptInv, Objection, Asks
<1>4. GiveUpInv'
  BY DEF IInv, GiveUpInv, GiveUpIsJustified, Running
<1> QED
  BY <1>1, <1>2, <1>3, <1>4 DEF IInv

LEMMA NextInv == IInv /\ [Next]_vars => IInv'
<1> USE DEF Next, Server, Timeouts, User, Client, Task
<1>1. CASE Server
  BY <1>1, ServerRefusesInv, ServerAcceptsInv, ServerChallengesInv
<1>2. CASE Timeouts
  BY <1>2, ExchangeFailsInv, ResponseTimesOutInv
<1>3. CASE User
  BY <1>3, SubmitInputInv, SubmitAuthChallengeResponseInv, CancelPendingConnectionInv
<1>4. CASE Client
  BY <1>4, HandleAuthEventInv, ReportFailureInv
<1>5. CASE Task
  BY <1>5, CancelledInv, TakeCommandInv
<1> QED
  BY <1>1, <1>2, <1>3, <1>4, <1>5, StutterInv

\* The invariant that carries every other theorem: at most one question is open between
\* the task and the user, and it sits in one place (event queue, prompt, answer channel).
THEOREM Invariance == Spec => []IInv
<1>1. Init => IInv
  BY InitInv
<1>2. IInv /\ [Next]_vars => IInv'
  BY NextInv
<1> QED
  BY <1>1, <1>2, PTL DEF Spec

-----------------------------------------------------------------------------
(* What follows from the invariant.                                        *)

\* Counters, queues and modes of the authentication stay in their ranges: stages and
\* rounds never exceed their limits and the u32 round id never wraps.
THEOREM TypeCorrect == Spec => []TypeOK
<1>1. IInv => TypeOK
  BY DEF IInv
<1> QED
  BY <1>1, Invariance, PTL

\* run_authentication never takes a credential that was typed for another request.
THEOREM AnswersMatch == Spec => []AnswerMatchesRequest
<1>1. IInv => AnswerMatchesRequest
  BY DEF IInv, QuestionInv, AnswerMatchesRequest
<1> QED
  BY <1>1, Invariance, PTL

\* The prompt SessionViewModel shows is the one the task waits for.
THEOREM PromptCurrent == Spec => []PromptIsCurrent
<1>1. IInv => PromptIsCurrent
  BY DEF IInv, PromptInv, PromptIsCurrent
<1> QED
  BY <1>1, Invariance, PTL

\* run_authentication gives up with the verdict that the requests it made justify.
THEOREM GiveUpJustified == Spec => []GiveUpIsJustified
<1>1. IInv => GiveUpIsJustified
  BY DEF IInv, GiveUpInv
<1> QED
  BY <1>1, Invariance, PTL

-----------------------------------------------------------------------------
(* Authentication implements AuthBudget.                                   *)

BudgetStep == Budget!Next \/ UNCHANGED Budget!vars

\* An action that leaves the budget's variables alone, or only ends the authentication.
LEMMA EndStep ==
  ASSUME UNCHANGED <<authStages, requests, interactiveRounds>>,
         UNCHANGED outcome \/ (Running /\ outcome' \in {"authenticated", "cancelled", "failed"})
  PROVE  BudgetStep
BY DEF BudgetStep, Budget!Next, Budget!End, Budget!vars, Running

\* A request of a method that this stage has not made yet.
LEMMA RequestStep ==
  ASSUME IInv, Running, NEW m \in Methods, m \notin attempted,
         requests' = [requests EXCEPT ![m] = @ + 1],
         UNCHANGED <<authStages, interactiveRounds, outcome>>
  PROVE  BudgetStep
<1>1. requests[m] = 0 /\ m \in Budget!BudgetMethods
  BY DEF IInv, CountInv, Methods, Budget!BudgetMethods
<1>2. Budget!Request(m)
  BY <1>1 DEF Budget!Request
<1> QED
  BY <1>1, <1>2 DEF BudgetStep, Budget!Next, Running

\* A partial success: the next stage starts with no request or with its first one.
LEMMA AdvanceStep ==
  ASSUME IInv, Running, authStages < MaxAuthStages, authStages' = authStages + 1,
         \/ requests' = NoRequests
         \/ \E m \in Methods : requests' = [NoRequests EXCEPT ![m] = @ + 1],
         outcome' \in {"running", "failed"}, UNCHANGED interactiveRounds
  PROVE  BudgetStep
<1>1. NoRequests = Budget!NoRequests
  BY DEF NoRequests, Methods, Budget!NoRequests, Budget!BudgetMethods
<1>2. \A m \in Methods : [NoRequests EXCEPT ![m] = @ + 1] = [NoRequests EXCEPT ![m] = 1]
  BY DEF NoRequests
<1>3. Budget!Advance
  BY <1>1, <1>2 DEF Budget!Advance, Methods, Budget!BudgetMethods
<1> QED
  BY <1>3 DEF BudgetStep, Budget!Next, Running

LEMMA ServerRefusesBudget == IInv /\ ServerRefuses => BudgetStep
<1> SUFFICES ASSUME IInv, ServerRefuses PROVE BudgetStep
  OBVIOUS
<1>1. Running
  BY DEF ServerRefuses, Exchanging
<1>2. PICK remaining \in SUBSET Methods, partial \in BOOLEAN :
        SelectNextMethod(remaining, partial)
  BY DEF ServerRefuses
<1> DEFINE tried == IF partial THEN {} ELSE attempted
           any == anyAttempted /\ ~partial
           seen == IF partial THEN NoRequests ELSE requests
           m == Chosen(remaining, tried)
<1>3. m = "none" \/ (m \in Methods /\ m \notin tried)
  BY ChosenIsOpen DEF IInv, TypeOK
<1> HIDE DEF m
<1>4. CASE RefuseSelection(partial)
  BY <1>1, <1>4, EndStep DEF RefuseSelection, Fail, machine
<1>5. CASE ~RefuseSelection(partial)
  <2>1. /\ partial => authStages < MaxAuthStages
        /\ authStages' = Stage(partial)
        /\ UNCHANGED interactiveRounds
    BY <1>2, <1>5 DEF SelectNextMethod
  <2>2. CASE m \in {"keyboard-interactive", "publickey"} /\ AttemptNow(m, tried, seen)
    <3>1. m \in Methods /\ m \notin tried
      BY <1>3, <2>2
    <3>2. requests' = [seen EXCEPT ![m] = @ + 1] /\ outcome' = outcome
      BY <2>2 DEF AttemptNow, Send
    <3>3. CASE partial
      BY <1>1, <2>1, <3>1, <3>2, <3>3, AdvanceStep DEF Stage, Running
    <3>4. CASE ~partial
      BY <1>1, <2>1, <3>1, <3>2, <3>4, RequestStep DEF Stage
    <3> QED
      BY <3>3, <3>4
  <2>3. ASSUME requests' = seen, outcome' \in {"running", "failed"} PROVE BudgetStep
    <3>1. CASE partial
      BY <1>1, <2>1, <2>3, <3>1, AdvanceStep DEF Stage
    <3>2. CASE ~partial
      BY <1>1, <2>1, <2>3, <3>2, EndStep DEF Stage, Running
    <3> QED
      BY <3>1, <3>2
  <2>4. ASSUME NEW c, RequestCredential(c, tried, any, seen) PROVE BudgetStep
    BY <1>1, <2>3, <2>4 DEF RequestCredential, Ask, Fail, Running
  <2>5. CASE GiveUp(partial, tried, any, seen)
    BY <2>3, <2>5 DEF GiveUp, Fail
  <2> QED
    BY <1>2, <1>5, <2>2, <2>4, <2>5 DEF SelectNextMethod, m
<1> QED
  BY <1>4, <1>5

LEMMA ServerChallengesBudget == IInv /\ ServerChallenges => BudgetStep
<1> SUFFICES ASSUME IInv, NEW n \in 0..(MaxPrompts + 1), NEW fits \in BOOLEAN,
                    InfoRequest(n, fits)
             PROVE  BudgetStep
  BY DEF ServerChallenges
<1>1. Running /\ UNCHANGED requests
  BY DEF InfoRequest, Exchanging
<1>2. CASE UNCHANGED machine /\ outcome' = "failed"
  BY <1>1, <1>2, EndStep DEF machine
<1>3. CASE /\ interactiveRounds < MaxInteractiveRounds
           /\ interactiveRounds' = interactiveRounds + 1
           /\ UNCHANGED authStages
           /\ outcome' \in {"running", "failed"}
  <2>1. Budget!Challenge
    BY <1>1, <1>3 DEF Budget!Challenge
  <2> QED
    BY <1>1, <2>1 DEF BudgetStep, Budget!Next, Running
<1> QED
  BY <1>1, <1>2, <1>3 DEF InfoRequest, Fail, Ask, Running

LEMMA TakeCommandBudget == IInv /\ TakeCommand => BudgetStep
<1> SUFFICES ASSUME IInv, TakeCommand PROVE BudgetStep
  OBVIOUS
<1> DEFINE command == Head(authRx)
<1>1. Running /\ exchange = "idle" /\ QuestionInv /\ waitingFor \in {"nothing", "passphrase", "password"}
  BY DEF TakeCommand, Awaiting, IInv, TypeOK
<1>2. ASSUME NEW m \in {"publickey", "password"}, m \notin attempted, SubmitCredential(m)
      PROVE  BudgetStep
  BY <1>1, <1>2, RequestStep DEF SubmitCredential, Send, Methods
<1>3. CASE Objection(command) = "no" /\ command.kind = "passphrase" /\ SubmitCredential("publickey")
  BY <1>1, <1>2, <1>3, NoObjection DEF QuestionInv
<1>4. CASE Objection(command) = "no" /\ command.kind = "password" /\ SubmitCredential("password")
  BY <1>1, <1>2, <1>4, NoObjection DEF QuestionInv
<1>5. CASE ValidateResponses(command)
  BY <1>5, EndStep DEF ValidateResponses
<1>6. CASE Fail(Objection(command)) /\ UNCHANGED <<machine, exchange, requests, events>>
  BY <1>1, <1>6, EndStep DEF Fail, machine
<1> QED
  BY <1>3, <1>4, <1>5, <1>6 DEF TakeCommand

LEMMA NextBudget == IInv /\ [Next]_vars => BudgetStep
<1>1. CASE Server
  <2>1. CASE ServerAccepts
    BY <2>1, EndStep DEF ServerAccepts, Exchanging, machine
  <2> QED
    BY <1>1, <2>1, ServerRefusesBudget, ServerChallengesBudget DEF Server
<1>2. CASE Timeouts
  BY <1>2, EndStep DEF Timeouts, ExchangeFails, ResponseTimesOut, Exchanging, Awaiting, Fail, machine
<1>3. CASE User
  BY <1>3, EndStep
  DEF User, SubmitInput, SubmitAuthChallengeResponse, CancelPendingConnection, machine, task
<1>4. CASE Client
  BY <1>4, EndStep DEF Client, HandleAuthEvent, ReportFailure, machine, task
<1>5. CASE Task
  <2>1. CASE Cancelled
    BY <2>1, EndStep DEF Cancelled, machine
  <2> QED
    BY <1>5, <2>1, TakeCommandBudget DEF Task
<1>6. CASE UNCHANGED vars
  BY <1>6, EndStep DEF vars, machine, task
<1> QED
  BY <1>1, <1>2, <1>3, <1>4, <1>5, <1>6 DEF Next

\* Whatever the server answers and whenever it answers, run_authentication keeps to the
\* budget of AuthBudget: each method once a stage, stages and rounds within their limits.
THEOREM BudgetKept == Spec => ImplementsBudget
<1>1. Init => Budget!Init
  BY DEF Init, Budget!Init, NoRequests, Methods, Budget!NoRequests, Budget!BudgetMethods
<1>2. IInv /\ [Next]_vars => [Budget!Next]_(Budget!vars)
  BY NextBudget DEF BudgetStep
<1> QED
  BY <1>1, <1>2, Invariance, PTL DEF Spec, ImplementsBudget, Budget!Spec
-----------------------------------------------------------------------------
(* Why the dialogue ends.  DialogueEnds itself needs fairness and is model-  *)
(* checked; what it rests on is safety: somebody can always move, and every  *)
(* move uses up a part of what the limits allow.                             *)

\* Who can move.  A pane that was left has asked the task to stop, and a pane that is
\* still in the dialogue and is not asked anything knows it from the event queue, the
\* answer channel or the exchange.
TurnInv ==
  /\ ~active => disconnectRx /\ mode = "IDLE"
  /\ active => mode # "IDLE"
  /\ active /\ exchange = "idle" /\ authRx = <<>> /\ events = <<>> => mode \in PromptModes

\* While authentication runs somebody's turn has come: the server's, the task's, the UI
\* thread's, or the user's at the prompt of what the task waits for, whose answer the
\* session will take.  Nobody waits for somebody who waits for him.
SomeonesTurn ==
  Running =>
    \/ Exchanging
    \/ disconnectRx \/ authRx # <<>>
    \/ events # <<>>
    \/ /\ active /\ waitingAuth /\ authRx = <<>>
       /\ \/ mode = "PASSWORD_INPUT" /\ waitingFor = "password"
          \/ mode = "KEY_PASSPHRASE_INPUT" /\ waitingFor = "passphrase"
          \/ mode = "AUTH_CHALLENGE_INPUT" /\ challenge = pending /\ answered < challenge.prompts

One(condition) == IF condition THEN 1 ELSE 0

\* The methods this stage has neither tried nor asked a credential for.
Untried ==
  One("publickey" \notin attempted /\ waitingFor # "passphrase")
  + One("keyboard-interactive" \notin attempted)
  + One("password" \notin attempted /\ waitingFor # "password")

\* How far the open question is from being answered.
ToAnswer ==
  IF exchange # "idle" THEN 0
  ELSE IF events # <<>> THEN 3 + Head(events).prompts
  ELSE IF mode = "AUTH_CHALLENGE_INPUT" THEN 2 + challenge.prompts - answered
  ELSE IF mode \in PromptModes THEN 2
  ELSE IF authRx # <<>> THEN 1
  ELSE 0

\* What the rounds still allowed are worth: a challenge, its prompts and its answer.
ForRounds == (MaxPrompts + 4) * (MaxInteractiveRounds - interactiveRounds)

StagesLeft == MaxAuthStages - authStages

\* A stage is worth more than its methods and their questions.
Worth(stages, methods, rounds, question, pane) ==
  16 * stages + 4 * methods + rounds + question + pane

\* What the limits still allow, in steps.
Left == Worth(StagesLeft, Untried, ForRounds, ToAnswer, One(active))

\* The most steps a dialogue can take before it ends.
MaxSteps == 16 * (MaxAuthStages - 1) + 13 + (MaxPrompts + 4) * MaxInteractiveRounds

DialogueBounded == Running => Left \in 0..MaxSteps

\* Every step that does not end the dialogue brings its end nearer: a server that keeps
\* challenging, a user who keeps answering and a pane that is closed in between included.
DialogueShrinks == [][Running' => Left' < Left]_vars

TInv == IInv /\ (Running => TurnInv)

LEMMA AnswerTurn ==
  ASSUME TypeOK, Running, NEW waiting \in BOOLEAN, NEW command \in Commands,
         Answer(waiting, command), waiting, active, authRx = <<>>,
         UNCHANGED <<machine, task, disconnectRx, active>>
  PROVE  authRx' # <<>> /\ mode' = "CONNECTING" /\ TurnInv'
<1>1. authRx' = Append(authRx, command) /\ mode' = "CONNECTING"
  BY DEF Answer, Running, Registered
<1>2. authRx' # <<>>
  BY <1>1, Singleton
<1> QED
  BY <1>1, <1>2 DEF TurnInv, PromptModes

\* A prompt on screen can be answered: the call is made and taken.
LEMMA PromptIsAnswerable ==
  ASSUME IInv, Running, mode \in PromptModes
  PROVE  waitingAuth /\ active /\ authRx = <<>>
BY PromptIsOpen DEF IInv, PromptInv

LEMMA ServerTurn ==
  ASSUME TInv, Running, Running', ServerRefuses \/ ServerChallenges
  PROVE  TurnInv'
<1>1. /\ TypeOK /\ TurnInv /\ exchange # "idle" /\ events = <<>>
      /\ UNCHANGED <<authRx, disconnectRx, active, mode>>
  BY DEF TInv, IInv, QuestionInv, ServerRefuses, ServerChallenges, InfoRequest, Exchanging,
         channels, client
<1>2. ASSUME NEW event \in Events, Ask(event) PROVE TurnInv'
  <2>1. events' = Append(events, event)
    BY <1>2 DEF Ask, Fail, Running
  <2>2. events' # <<>>
    BY <1>1, <2>1, Singleton
  <2> QED
    BY <1>1, <2>2 DEF TurnInv
<1>3. ASSUME NEW m \in Methods, exchange' = m PROVE TurnInv'
  BY <1>1, <1>3 DEF TurnInv, Methods
<1>4. CASE ServerRefuses
  <2>1. PICK remaining \in SUBSET Methods, partial \in BOOLEAN :
          SelectNextMethod(remaining, partial)
    BY <1>4 DEF ServerRefuses
  <2> DEFINE tried == IF partial THEN {} ELSE attempted
             any == anyAttempted /\ ~partial
             seen == IF partial THEN NoRequests ELSE requests
             m == Chosen(remaining, tried)
  <2>2. ASSUME m \in {"keyboard-interactive", "publickey"}, AttemptNow(m, tried, seen)
        PROVE TurnInv'
    BY <1>3, <2>2 DEF AttemptNow, Send, Methods
  <2>3. ASSUME NEW c \in {"passphrase", "password"}, RequestCredential(c, tried, any, seen)
        PROVE  TurnInv'
    BY <1>2, <2>3 DEF RequestCredential, CredentialEvent, Events
  <2>4. ~RefuseSelection(partial) /\ ~GiveUp(partial, tried, any, seen)
    BY DEF RefuseSelection, GiveUp, Fail, Running
  <2> QED
    BY <2>1, <2>2, <2>3, <2>4 DEF SelectNextMethod
<1>5. CASE ServerChallenges
  <2>1. PICK n \in 0..(MaxPrompts + 1), fits \in BOOLEAN : InfoRequest(n, fits)
    BY <1>5 DEF ServerChallenges
  <2>2. [kind |-> "challenge", round |-> nextRoundId, prompts |-> n] \in Events
    BY <1>1, LimitsAssumption DEF TypeOK, Events
  <2> QED
    BY <1>2, <2>1, <2>2 DEF InfoRequest, Fail, Running
<1> QED
  BY <1>4, <1>5

LEMMA TakeCommandTurn ==
  ASSUME TInv, Running, Running', TakeCommand
  PROVE  TurnInv'
<1> DEFINE command == Head(authRx)
<1>1. TurnInv /\ UNCHANGED <<active, mode, disconnectRx>>
  BY DEF TInv, TakeCommand, client
<1>2. exchange' \in Methods
  BY DEF TakeCommand, SubmitCredential, ValidateResponses, Send, Fail, Running, Methods
<1> QED
  BY <1>1, <1>2 DEF TurnInv, Methods

LEMMA HandleAuthEventTurn ==
  ASSUME TInv, Running, HandleAuthEvent
  PROVE  TurnInv'
<1> DEFINE event == Head(events)
<1>1. /\ TypeOK /\ TurnInv /\ events # <<>> /\ authRx = <<>>
      /\ UNCHANGED <<machine, task, disconnectRx, active>>
  BY DEF TInv, IInv, QuestionInv, HandleAuthEvent
<1>2. event \in Events
  BY <1>1 DEF TypeOK
<1>3. CASE ~active /\ UNCHANGED <<waitingAuth, mode, challenge, answered, authRx>>
  BY <1>1, <1>3 DEF TurnInv
<1>4. CASE active /\ mode' \in PromptModes
  BY <1>1, <1>4 DEF TurnInv, PromptModes
<1>5. CASE active /\ Answer(TRUE, Command("responses", event.round, 0, TRUE))
  <2>1. Command("responses", event.round, 0, TRUE) \in Commands
    BY <1>2 DEF Command, Commands, Events
  <2> QED
    BY <1>1, <1>5, <2>1, AnswerTurn
<1> QED
  BY <1>3, <1>4, <1>5 DEF HandleAuthEvent, PromptModes

LEMMA UserTurn ==
  ASSUME TInv, Running, User
  PROVE  TurnInv'
<1>1. IInv /\ TypeOK /\ TurnInv
  BY DEF TInv, IInv
<1>2. CASE SubmitInput
  <2>1. PICK kind \in {"password", "passphrase"} : Answer(waitingAuth, Command(kind, 0, 0, TRUE))
    BY <1>2 DEF SubmitInput
  <2>2. Command(kind, 0, 0, TRUE) \in Commands
    BY DEF Command, Commands
  <2>3. waitingAuth /\ active /\ authRx = <<>> /\ waitingAuth \in BOOLEAN
    BY <1>1, <1>2, PromptIsAnswerable DEF SubmitInput, PromptModes, TypeOK
  <2> QED
    BY <1>1, <1>2, <2>1, <2>2, <2>3, AnswerTurn DEF SubmitInput
<1>3. CASE SubmitAuthChallengeResponse
  <2>1. waitingAuth /\ active /\ authRx = <<>> /\ waitingAuth \in BOOLEAN
    BY <1>1, <1>3, PromptIsAnswerable DEF SubmitAuthChallengeResponse, PromptModes, TypeOK
  <2>2. CASE UNCHANGED <<waitingAuth, mode, challenge, authRx>>
    BY <1>1, <1>3, <2>2 DEF SubmitAuthChallengeResponse, TurnInv, task
  <2>3. ASSUME NEW fits \in BOOLEAN,
               Answer(waitingAuth,
                      Command("responses", challenge.round, challenge.prompts, fits))
        PROVE  TurnInv'
    <3>1. Command("responses", challenge.round, challenge.prompts, fits) \in Commands
      BY <1>1 DEF Command, Commands, TypeOK, Challenges
    <3> QED
      BY <1>1, <1>3, <2>1, <2>3, <3>1, AnswerTurn DEF SubmitAuthChallengeResponse
  <2> QED
    BY <1>3, <2>2, <2>3 DEF SubmitAuthChallengeResponse
<1>4. CASE CancelPendingConnection
  BY <1>1, <1>4 DEF CancelPendingConnection, ShowError, TurnInv, Registered, Running
<1> QED
  BY <1>2, <1>3, <1>4 DEF User

LEMMA NextTurn == TInv /\ [Next]_vars => TInv'
<1> SUFFICES ASSUME TInv, [Next]_vars, Running' PROVE TurnInv'
  BY NextInv DEF TInv
<1>1. CASE Next
  <2>1. Running
    BY <1>1 DEF Next, Server, ServerRefuses, ServerAccepts, ServerChallenges, InfoRequest,
       Timeouts, ExchangeFails, ResponseTimesOut, User, SubmitInput,
       SubmitAuthChallengeResponse, CancelPendingConnection, Client, HandleAuthEvent,
       ReportFailure, Task, Cancelled, TakeCommand, Awaiting, Exchanging, Running, task
  <2>2. ~ServerAccepts /\ ~Timeouts /\ ~Cancelled /\ ~ReportFailure
    BY <2>1 DEF ServerAccepts, Timeouts, ExchangeFails, ResponseTimesOut, Cancelled,
                ReportFailure, Fail, Running
  <2> QED
    BY <1>1, <2>1, <2>2, ServerTurn, TakeCommandTurn, HandleAuthEventTurn, UserTurn
    DEF Next, Server, Client, Task
<1>2. CASE UNCHANGED vars
  BY <1>2 DEF TInv, TurnInv, Running, vars, machine, task, channels, client
<1> QED
  BY <1>1, <1>2

LEMMA TurnInvariance == Spec => []TInv
<1>1. Init => TInv
  BY InitInv DEF TInv, TurnInv, Init, PromptModes
<1>2. TInv /\ [Next]_vars => TInv'
  BY NextTurn
<1> QED
  BY <1>1, <1>2, PTL DEF Spec

\* As long as run_authentication runs the dialogue is not stuck: it is the turn of the
\* server, of the task, of the UI thread, or of a user whose answer will be taken.
THEOREM NeverStuck == Spec => []SomeonesTurn
<1>1. TInv => SomeonesTurn
  BY DEF TInv, IInv, TurnInv, PromptInv, PromptModes, SomeonesTurn, Exchanging
<1> QED
  BY <1>1, TurnInvariance, PTL
-----------------------------------------------------------------------------
(* Every step that does not end the dialogue shortens it.                   *)

\* The parts of Left are natural numbers.
PartsOK ==
  /\ Untried \in 0..3 /\ ToAnswer \in Nat /\ ForRounds \in Nat /\ One(active) \in 0..1
  /\ StagesLeft \in Nat

LEMMA PartsTyped == IInv /\ Running => PartsOK
<1> SUFFICES ASSUME IInv, Running PROVE PartsOK
  OBVIOUS
<1> USE LimitsAssumption
<1>1. Untried \in 0..3 /\ One(active) \in 0..1
  BY DEF Untried, One
<1>2. ToAnswer \in Nat
  <2>1. events # <<>> => Head(events).prompts \in Nat
    <3>1. events # <<>> => Head(events) \in Events
      BY DEF IInv, TypeOK
    <3> QED
      BY <3>1 DEF Events
  <2>2. mode = "AUTH_CHALLENGE_INPUT" => 2 + challenge.prompts - answered \in Nat
    BY DEF IInv, TypeOK, PromptInv, PromptModes, Challenges
  <2> QED
    BY <2>1, <2>2 DEF ToAnswer
<1>3. ForRounds \in Nat
  <2>1. MaxInteractiveRounds - interactiveRounds \in Nat
    BY DEF IInv, TypeOK
  <2> QED
    BY <2>1 DEF ForRounds
<1>4. StagesLeft \in Nat
  BY DEF IInv, TypeOK, StagesLeft
<1> QED
  BY <1>1, <1>2, <1>3, <1>4 DEF PartsOK

LEMMA PartsTypedNext == IInv' /\ Running' => PartsOK'
BY PartsTyped, PTL

\* How a step can lower what is left.
LEMMA LeftFalls ==
  ASSUME PartsOK, PartsOK',
         \/ /\ StagesLeft' = StagesLeft - 1 /\ ForRounds' = ForRounds
            /\ ToAnswer' <= 3 /\ One(active)' = One(active)
         \/ /\ StagesLeft' = StagesLeft /\ Untried' = Untried - 1 /\ ForRounds' = ForRounds
            /\ ToAnswer' <= 3 /\ One(active)' = One(active)
         \/ /\ StagesLeft' = StagesLeft /\ Untried' = Untried
            /\ ForRounds' + ToAnswer' < ForRounds /\ One(active)' = One(active)
         \/ /\ StagesLeft' = StagesLeft /\ Untried' = Untried /\ ForRounds' = ForRounds
            /\ ToAnswer' < ToAnswer /\ One(active)' = One(active)
         \/ /\ StagesLeft' = StagesLeft /\ Untried' = Untried /\ ForRounds' = ForRounds
            /\ ToAnswer' <= ToAnswer /\ One(active)' < One(active)
  PROVE  Left' < Left
<1> DEFINE x == StagesLeft
           x2 == StagesLeft'
           u == Untried
           u2 == Untried'
           f == ForRounds
           f2 == ForRounds'
           t == ToAnswer
           t2 == ToAnswer'
           a == One(active)
           a2 == One(active)'
<1>1. /\ x \in Nat /\ u \in 0..3 /\ f \in Nat /\ t \in Nat /\ a \in 0..1
      /\ x2 \in Nat /\ u2 \in 0..3 /\ f2 \in Nat /\ t2 \in Nat /\ a2 \in 0..1
  BY DEF PartsOK
<1>2. Left = Worth(x, u, f, t, a) /\ Left' = Worth(x2, u2, f2, t2, a2)
  BY DEF Left
<1>3. \/ x2 = x - 1 /\ f2 = f /\ t2 <= 3 /\ a2 = a
      \/ x2 = x /\ u2 = u - 1 /\ f2 = f /\ t2 <= 3 /\ a2 = a
      \/ x2 = x /\ u2 = u /\ f2 + t2 < f /\ a2 = a
      \/ x2 = x /\ u2 = u /\ f2 = f /\ t2 < t /\ a2 = a
      \/ x2 = x /\ u2 = u /\ f2 = f /\ t2 <= t /\ a2 < a
  OBVIOUS
<1> HIDE DEF x, x2, u, u2, f, f2, t, t2, a, a2
<1>4. Worth(x2, u2, f2, t2, a2) < Worth(x, u, f, t, a)
  BY <1>1, <1>3 DEF Worth
<1> QED
  BY <1>2, <1>4

\* What is asked for next is further from its answer than the step that asks it has
\* taken off the limits: the server's requests.
LEMMA ServerRefusesShrinks ==
  ASSUME TInv, TInv', Running, Running', ServerRefuses
  PROVE  Left' < Left
<1>1. PICK remaining \in SUBSET Methods, partial \in BOOLEAN :
        SelectNextMethod(remaining, partial)
  BY DEF ServerRefuses
<1> DEFINE tried == IF partial THEN {} ELSE attempted
           any == anyAttempted /\ ~partial
           seen == IF partial THEN NoRequests ELSE requests
           m == Chosen(remaining, tried)
<1>2. /\ IInv /\ IInv' /\ exchange # "idle" /\ waitingFor = "nothing" /\ events = <<>>
      /\ active' = active
  BY DEF TInv, IInv, QuestionInv, ServerRefuses, Exchanging, client
<1>3. m = "none" \/ (m \in Methods /\ m \notin tried)
  BY <1>2, ChosenIsOpen DEF IInv, TypeOK
<1>4. ~RefuseSelection(partial) /\ ~GiveUp(partial, tried, any, seen)
  BY DEF RefuseSelection, GiveUp, Fail, Running
<1>5. authStages' = Stage(partial) /\ UNCHANGED interactiveRounds
  BY <1>1, <1>4 DEF SelectNextMethod
<1>6. ToAnswer = 0 /\ ForRounds' = ForRounds /\ One(active)' = One(active)
  BY <1>2, <1>5 DEF ToAnswer, ForRounds
<1>7. \/ ToAnswer' = 0 /\ attempted' = tried \cup {m} /\ waitingFor' = "nothing"
         /\ m \in {"keyboard-interactive", "publickey"}
      \/ ToAnswer' = 3 /\ attempted' = tried /\ waitingFor' = "passphrase" /\ m = "publickey"
      \/ ToAnswer' = 3 /\ attempted' = tried /\ waitingFor' = "password" /\ m = "password"
  <2>1. ASSUME m \in {"keyboard-interactive", "publickey"}, AttemptNow(m, tried, seen)
        PROVE  ToAnswer' = 0 /\ attempted' = tried \cup {m} /\ waitingFor' = "nothing"
    BY <1>2, <2>1 DEF AttemptNow, Send, ToAnswer
  <2>2. ASSUME NEW c \in {"passphrase", "password"}, RequestCredential(c, tried, any, seen)
        PROVE  ToAnswer' = 3 /\ attempted' = tried /\ waitingFor' = c
    <3>1. /\ attempted' = tried /\ waitingFor' = c /\ exchange' = "idle"
          /\ events' = Append(<<>>, CredentialEvent(c))
      BY <1>2, <2>2 DEF RequestCredential, Ask, Fail, Running
    <3>2. CredentialEvent(c) \in Events /\ CredentialEvent(c).prompts = 0
      BY DEF CredentialEvent, Events
    <3>3. events' # <<>> /\ Head(events') = CredentialEvent(c)
      BY <3>1, <3>2, Singleton
    <3> QED
      BY <3>1, <3>2, <3>3 DEF ToAnswer
  <2> QED
    BY <1>1, <1>4, <2>1, <2>2 DEF SelectNextMethod
<1> HIDE DEF m
<1>8. PartsOK /\ PartsOK' /\ One(active)' = One(active)
  BY <1>2, PartsTyped, PartsTypedNext
<1>9. CASE ~partial
  <2>1. Untried' = Untried - 1 /\ ToAnswer' <= 3
    BY <1>2, <1>3, <1>7, <1>9 DEF Untried, One
  <2>2. StagesLeft' = StagesLeft
    BY <1>5, <1>9 DEF Stage, StagesLeft
  <2> QED
    BY <1>6, <1>8, <2>1, <2>2, LeftFalls
<1>10. CASE partial
  <2>1. ToAnswer' <= 3
    BY <1>7
  <2>2. StagesLeft' = StagesLeft - 1
    <3>1. authStages \in Nat /\ MaxAuthStages \in Nat /\ authStages' = authStages + 1
      BY <1>2, <1>5, <1>10, LimitsAssumption DEF Stage, IInv, TypeOK
    <3> QED
      BY <3>1 DEF StagesLeft
  <2> QED
    BY <1>6, <1>8, <2>1, <2>2, LeftFalls
<1> QED
  BY <1>9, <1>10

\* A challenge uses up a round, which is worth more than its prompts.
LEMMA ServerChallengesShrinks ==
  ASSUME TInv, TInv', Running, Running', ServerChallenges
  PROVE  Left' < Left
<1>1. PICK n \in 0..(MaxPrompts + 1), fits \in BOOLEAN : InfoRequest(n, fits)
  BY DEF ServerChallenges
<1> DEFINE event == [kind |-> "challenge", round |-> nextRoundId, prompts |-> n]
<1>2. /\ IInv /\ IInv' /\ exchange # "idle" /\ events = <<>> /\ active' = active
  BY <1>1 DEF TInv, IInv, QuestionInv, InfoRequest, Exchanging, client
<1>3. /\ n <= MaxPrompts /\ interactiveRounds' = interactiveRounds + 1 /\ Ask(event)
      /\ UNCHANGED <<attempted, waitingFor, authStages>>
  BY <1>1 DEF InfoRequest, Fail, Running
<1>4. ToAnswer = 0
  BY <1>2 DEF ToAnswer
<1>5. ToAnswer' = 3 + n
  <2>1. event \in Events
    BY <1>2, LimitsAssumption DEF Events, IInv, TypeOK
  <2>2. events' = Append(<<>>, event) /\ exchange' = "idle"
    BY <1>2, <1>3 DEF Ask, Fail, Running
  <2>3. events' # <<>> /\ Head(events') = event
    BY <2>1, <2>2, Singleton
  <2> QED
    BY <2>2, <2>3 DEF ToAnswer
<1>6. ForRounds' = ForRounds - (MaxPrompts + 4)
  <2>1. MaxPrompts \in Nat /\ MaxInteractiveRounds \in Nat /\ interactiveRounds \in Nat
    BY <1>2, LimitsAssumption DEF IInv, TypeOK
  <2> QED
    BY <1>3, <2>1 DEF ForRounds
<1>7. Untried' = Untried /\ One(active)' = One(active)
  BY <1>2, <1>3 DEF Untried
<1>8. PartsOK /\ PartsOK'
  BY <1>2, PartsTyped, PartsTypedNext
<1>9. ForRounds' + ToAnswer' < ForRounds
  BY <1>3, <1>5, <1>6, <1>8, LimitsAssumption DEF PartsOK
<1> QED
  BY <1>3, <1>7, <1>8, <1>9, LeftFalls DEF StagesLeft

\* A step that leaves the machine alone shortens the way to the answer, or the pane is left.
LEMMA ShrinkByAnswer ==
  ASSUME TInv, TInv', Running, Running', UNCHANGED <<authStages, interactiveRounds>>,
         Untried' = Untried,
         \/ ToAnswer' < ToAnswer /\ active' = active
         \/ ToAnswer' <= ToAnswer /\ active /\ ~active'
  PROVE  Left' < Left
<1>1. PartsOK /\ PartsOK'
  BY PartsTyped, PartsTypedNext DEF TInv
<1>2. ForRounds' = ForRounds /\ StagesLeft' = StagesLeft
  BY DEF ForRounds, StagesLeft
<1>3. CASE ToAnswer' < ToAnswer /\ active' = active
  <2>1. One(active)' = One(active)
    BY <1>3
  <2> QED
    BY <1>1, <1>2, <1>3, <2>1, LeftFalls
<1>4. CASE ToAnswer' <= ToAnswer /\ active /\ ~active'
  <2>1. One(active)' < One(active)
    BY <1>4 DEF One
  <2> QED
    BY <1>1, <1>2, <1>4, <2>1, LeftFalls
<1> QED
  BY <1>3, <1>4

LEMMA TakeCommandShrinks ==
  ASSUME TInv, TInv', Running, Running', TakeCommand
  PROVE  Left' < Left
<1> DEFINE command == Head(authRx)
<1>1. /\ IInv /\ exchange = "idle" /\ authRx # <<>> /\ events = <<>> /\ mode \notin PromptModes
      /\ active' = active /\ waitingFor \in {"nothing", "passphrase", "password"}
  BY DEF TInv, IInv, QuestionInv, PromptInv, TypeOK, TakeCommand, Awaiting, client
<1>2. ToAnswer = 1
  BY <1>1 DEF ToAnswer, PromptModes
<1>3. /\ exchange' \in Methods
      /\ UNCHANGED <<authStages, interactiveRounds>>
  BY DEF TakeCommand, SubmitCredential, ValidateResponses, Send, Fail, Running, Methods
<1>4. ToAnswer' = 0
  BY <1>3 DEF ToAnswer, Methods
<1>5. \/ waitingFor = "passphrase" /\ attempted' = attempted \cup {"publickey"} /\ waitingFor' = "nothing"
      \/ waitingFor = "password" /\ attempted' = attempted \cup {"password"} /\ waitingFor' = "nothing"
      \/ UNCHANGED <<attempted, waitingFor>>
  BY <1>1, NoObjection
  DEF TakeCommand, SubmitCredential, ValidateResponses, Fail, Running
<1>6. Untried' = Untried
  BY <1>1, <1>5 DEF Untried, One, IInv, QuestionInv
<1>7. ToAnswer' < ToAnswer
  BY <1>2, <1>4
<1> QED
  BY <1>1, <1>3, <1>6, <1>7, ShrinkByAnswer

LEMMA HandleAuthEventShrinks ==
  ASSUME TInv, TInv', Running, Running', HandleAuthEvent
  PROVE  Left' < Left
<1> DEFINE event == Head(events)
<1>1. /\ IInv /\ TurnInv /\ TypeOK /\ exchange = "idle" /\ events # <<>> /\ events' = <<>>
      /\ authRx = <<>> /\ mode \notin PromptModes
      /\ UNCHANGED <<machine, task, active>>
  <2>1. IInv /\ TurnInv /\ TypeOK /\ QuestionInv /\ PromptInv /\ events # <<>>
        /\ events' = Tail(events) /\ UNCHANGED <<machine, task, active>>
    BY DEF TInv, IInv, HandleAuthEvent
  <2>2. event \in Events /\ events = <<event>>
    BY <2>1 DEF QuestionInv, TypeOK
  <2> QED
    BY <2>1, <2>2, Singleton DEF QuestionInv, PromptInv
<1>2. event \in Events /\ event.prompts \in Nat
  <2>1. event \in Events
    BY <1>1 DEF TypeOK
  <2> QED
    BY <2>1 DEF Events
<1>3. ToAnswer = 3 + event.prompts
  BY <1>1 DEF ToAnswer
<1>4. ToAnswer' <= 2 + event.prompts
  <2> USE <1>1, <1>2 DEF ToAnswer, task
  <2>1. CASE UNCHANGED <<mode, authRx>>
    BY <2>1 DEF PromptModes
  <2>2. CASE mode' \in {"PASSWORD_INPUT", "KEY_PASSPHRASE_INPUT"}
    BY <2>2 DEF PromptModes
  <2>3. CASE /\ mode' = "AUTH_CHALLENGE_INPUT" /\ answered' = 0
             /\ challenge' = [round |-> event.round, prompts |-> event.prompts]
    BY <2>3 DEF PromptModes
  <2>4. CASE Answer(TRUE, Command("responses", event.round, 0, TRUE))
    <3>1. mode' \in {"CONNECTING", "IDLE"}
      BY <2>4 DEF Answer, ShowError
    <3> QED
      BY <3>1 DEF PromptModes
  <2> QED
    BY <2>1, <2>2, <2>3, <2>4 DEF HandleAuthEvent
<1>5. Untried' = Untried
  BY <1>1 DEF Untried, machine
<1>6. ToAnswer' \in Nat
  BY PartsTypedNext DEF TInv, PartsOK
<1> QED
  BY <1>1, <1>2, <1>3, <1>4, <1>5, <1>6, ShrinkByAnswer DEF machine

LEMMA UserShrinks ==
  ASSUME TInv, TInv', Running, Running', User
  PROVE  Left' < Left
<1>1. IInv /\ TypeOK /\ TurnInv /\ QuestionInv /\ PromptInv
  BY DEF TInv, IInv
<1>2. UNCHANGED <<machine, task, events>>
  BY DEF User, SubmitInput, SubmitAuthChallengeResponse, CancelPendingConnection
<1>3. Untried' = Untried /\ ToAnswer \in Nat /\ ToAnswer' \in Nat
  BY <1>2, PartsTyped, PartsTypedNext DEF Untried, machine, TInv, PartsOK
<1>4. ASSUME mode \in PromptModes, ToAnswer > 1, mode' \in {"CONNECTING", "IDLE"},
             UNCHANGED active
      PROVE  Left' < Left
  <2>1. exchange = "idle" /\ events = <<>>
    BY <1>1, <1>4, PromptIsOpen
  <2>2. ToAnswer' <= 1
    BY <1>2, <1>4, <2>1 DEF ToAnswer, PromptModes, task
  <2> QED
    BY <1>2, <1>3, <1>4, <2>2, ShrinkByAnswer DEF machine
<1>5. ASSUME NEW waiting, NEW command, Answer(waiting, command) PROVE mode' \in {"CONNECTING", "IDLE"}
  BY <1>5 DEF Answer, ShowError
<1>6. CASE SubmitInput
  <2>1. mode \in {"PASSWORD_INPUT", "KEY_PASSPHRASE_INPUT"} /\ UNCHANGED active
    BY <1>6 DEF SubmitInput
  <2>2. ToAnswer = 2
    BY <1>1, <2>1, PromptIsOpen DEF ToAnswer, PromptModes
  <2>3. mode' \in {"CONNECTING", "IDLE"}
    BY <1>5, <1>6 DEF SubmitInput
  <2> QED
    BY <1>4, <2>1, <2>2, <2>3 DEF PromptModes
<1>7. CASE SubmitAuthChallengeResponse
  <2>1. mode = "AUTH_CHALLENGE_INPUT" /\ UNCHANGED active
    BY <1>7 DEF SubmitAuthChallengeResponse
  <2>2. /\ ToAnswer = 2 + challenge.prompts - answered
        /\ challenge.prompts \in Nat /\ answered \in Nat /\ answered < challenge.prompts
        /\ exchange = "idle" /\ events = <<>>
    BY <1>1, <2>1, PromptIsOpen DEF ToAnswer, PromptModes, PromptInv, TypeOK, Challenges
  <2>3. CASE answered' = answered + 1 /\ UNCHANGED <<waitingAuth, mode, challenge, authRx>>
    <3>1. ToAnswer' = 2 + challenge.prompts - (answered + 1)
      BY <1>2, <2>1, <2>2, <2>3 DEF ToAnswer, PromptModes, task
    <3> QED
      BY <1>2, <1>3, <2>1, <2>2, <3>1, ShrinkByAnswer DEF machine
  <2>4. CASE mode' \in {"CONNECTING", "IDLE"}
    BY <1>4, <2>1, <2>2, <2>4 DEF PromptModes
  <2> QED
    BY <1>5, <1>7, <2>3, <2>4 DEF SubmitAuthChallengeResponse
<1>8. CASE CancelPendingConnection
  <2>1. active /\ ~active' /\ mode' = "IDLE" /\ authRx' = authRx
    BY <1>1, <1>8 DEF CancelPendingConnection, ShowError, TurnInv, PendingModes
  <2>2. ToAnswer' <= ToAnswer
    <3>1. CASE exchange # "idle"
      BY <1>2, <3>1 DEF ToAnswer, task
    <3>2. CASE exchange = "idle" /\ events # <<>>
      BY <1>2, <1>3, <3>2 DEF ToAnswer, task
    <3>3. CASE exchange = "idle" /\ events = <<>> /\ mode \in PromptModes
      BY <1>1, <1>2, <1>3, <2>1, <3>3, PromptIsOpen DEF ToAnswer, task, PromptModes
    <3>4. CASE exchange = "idle" /\ events = <<>> /\ mode \notin PromptModes
      BY <1>2, <1>3, <2>1, <3>4 DEF ToAnswer, task, PromptModes
    <3> QED
      BY <3>1, <3>2, <3>3, <3>4
  <2> QED
    BY <1>2, <1>3, <2>1, <2>2, ShrinkByAnswer DEF machine
<1> QED
  BY <1>6, <1>7, <1>8 DEF User

LEMMA NextShrinks ==
  ASSUME TInv, [Next]_vars, Running'
  PROVE  Left' < Left \/ UNCHANGED vars
<1>1. TInv'
  BY NextTurn
<1>2. CASE Next
  <2>1. Running
    BY <1>2 DEF Next, Server, ServerRefuses, ServerAccepts, ServerChallenges, InfoRequest,
       Timeouts, ExchangeFails, ResponseTimesOut, User, SubmitInput,
       SubmitAuthChallengeResponse, CancelPendingConnection, Client, HandleAuthEvent,
       ReportFailure, Task, Cancelled, TakeCommand, Awaiting, Exchanging, Running, task
  <2>2. ~ServerAccepts /\ ~Timeouts /\ ~Cancelled /\ ~ReportFailure
    BY <2>1 DEF ServerAccepts, Timeouts, ExchangeFails, ResponseTimesOut, Cancelled,
                ReportFailure, Fail, Running
  <2> QED
    BY <1>1, <1>2, <2>1, <2>2, ServerRefusesShrinks, ServerChallengesShrinks,
       TakeCommandShrinks, HandleAuthEventShrinks, UserShrinks
    DEF Next, Server, Client, Task
<1> QED
  BY <1>2

\* Each step of the server, the task, the UI thread or the user either ends the
\* authentication or leaves strictly less of it to come.
THEOREM StepsShrink == Spec => DialogueShrinks
<1>1. TInv /\ [Next]_vars => [Running' => Left' < Left]_vars
  BY NextShrinks
<1> QED
  BY <1>1, TurnInvariance, PTL DEF Spec, DialogueShrinks

\* The limits of authentication.rs bound the whole dialogue, not only its parts: it is
\* over after MaxSteps steps at most, of whomever (285 with the limits of the source).
THEOREM Bounded == Spec => []DialogueBounded
<1> DEFINE BInv == TInv /\ DialogueBounded
<1>1. Init => BInv
  <2> SUFFICES ASSUME Init PROVE BInv
    OBVIOUS
  <2>1. TInv /\ Running
    BY InitInv DEF TInv, TurnInv, Init, PromptModes, Running
  <2>2. ToAnswer = 0 /\ Untried = 3 /\ One(active) = 1 /\ authStages = 1
    BY DEF Init, ToAnswer, Untried, One
  <2>3. ForRounds = (MaxPrompts + 4) * MaxInteractiveRounds /\ ForRounds \in Nat
    BY LimitsAssumption DEF Init, ForRounds
  <2> QED
    BY <2>1, <2>2, <2>3, LimitsAssumption DEF DialogueBounded, Left, Worth, StagesLeft, MaxSteps
<1>2. BInv /\ [Next]_vars => BInv'
  <2> SUFFICES ASSUME BInv, [Next]_vars, Running' PROVE Left' \in 0..MaxSteps
    BY NextTurn DEF DialogueBounded
  <2>1. TInv'
    BY NextTurn
  <2>2. Left' \in Nat
    <3>1. /\ Untried' \in 0..3 /\ ToAnswer' \in Nat /\ ForRounds' \in Nat /\ One(active)' \in 0..1
          /\ StagesLeft' \in Nat
      BY <2>1, PartsTypedNext DEF TInv, PartsOK
    <3> QED
      BY <3>1, LimitsAssumption DEF Left, Worth
  <2>3. CASE UNCHANGED vars
    BY <2>3 DEF DialogueBounded, Running, Left, Worth, StagesLeft, Untried, ToAnswer, ForRounds, One,
                vars, machine, task, channels, client
  <2>4. CASE Next /\ Left' < Left
    <3>1. Running
      BY <2>4 DEF Next, Server, ServerRefuses, ServerAccepts, ServerChallenges, InfoRequest,
         Timeouts, ExchangeFails, ResponseTimesOut, User, SubmitInput,
         SubmitAuthChallengeResponse, CancelPendingConnection, Client, HandleAuthEvent,
         ReportFailure, Task, Cancelled, TakeCommand, Awaiting, Exchanging, Running, task
    <3>2. Left \in 0..MaxSteps /\ MaxSteps \in Nat
      BY <3>1, LimitsAssumption DEF DialogueBounded, MaxSteps
    <3> QED
      BY <2>2, <2>4, <3>2
  <2> QED
    BY <2>3, <2>4, NextShrinks
<1>3. BInv => DialogueBounded
  OBVIOUS
<1> QED
  BY <1>1, <1>2, <1>3, PTL DEF Spec
=============================================================================
