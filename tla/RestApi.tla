-------------------------------- MODULE RestApi -------------------------------
(***************************************************************************)
(* RestAPI (managers/rest_api.py): how the integration logs in to the      *)
(* Maytronics service, obtains the credentials of the AWS broker and reads *)
(* the robot's details.                                                    *)
(*                                                                         *)
(* Every call of initialize() or update() is a coroutine that runs on the  *)
(* one event loop until it awaits an HTTP answer, the write of the         *)
(* configuration store or a sleep.  Nothing in the code prevents two of    *)
(* them from being under way at once, and they share the status and the    *)
(* stored tokens.  A step of this module is what one coroutine does from   *)
(* one await to the next; the service chooses the answer.                  *)
(*                                                                         *)
(* The value of a token is abstracted to its presence.                     *)
(***************************************************************************)
EXTENDS Dispatcher

CONSTANT
    EncryptTries    \* how often _get_aws_token tries (10 in the code)

ASSUME TriesAssumption == EncryptTries \in Nat \ {0}

VARIABLES
    apiStatus,      \* _status
    tokens,         \* which of the stored tokens are not None
    deviceLoaded,   \* _device_loaded
    announced,      \* how often SIGNAL_DEVICE_NEW was sent
    pc,             \* what each coroutine awaits ("idle": it is not running)
    resetting,      \* coroutines in _handle_client_error, saving the reset of a 401
    tries           \* failed attempts of the _get_aws_token of each coroutine

apiOwn  == <<apiStatus, tokens, deviceLoaded, announced, pc, resetting, tries>>
apiVars == <<apiOwn, signals>>

(* The HTTP requests a coroutine can be waiting for, and its other awaits. *)
Post  == {"email", "login", "motor", "token", "details"}
Pause == {"saveLogin", "saveMotor", "encrypt", "saveAws", "clearAws"}
Stage == {"idle"} \cup Post \cup Pause

(* The stages of a login and those of the generation of the AWS token.     *)
LoginStage    == {"login", "saveLogin", "motor", "saveMotor"}
GenerateStage == {"token", "encrypt", "saveAws"}

Tokens   == [api : BOOLEAN, motor : BOOLEAN, aws : BOOLEAN]
NoTokens == [api |-> FALSE, motor |-> FALSE, aws |-> FALSE]

(* What a previous run can have left in the store: each token is obtained  *)
(* with the one before it.                                                 *)
StoredTokens ==
    {k \in Tokens : (k.aws => k.motor) /\ (k.motor => k.api)}

ApiTypeOK ==
    /\ DispatcherTypeOK
    /\ apiStatus \in ConnectivityStatus \cup {NoStatus}
    /\ tokens \in Tokens
    /\ deviceLoaded \in BOOLEAN
    /\ announced \in Nat
    /\ pc \in [Task -> Stage]
    /\ resetting \subseteq Task
    /\ tries \in [Task -> 0 .. EncryptTries]

ApiInit ==
    /\ DispatcherInit
    /\ apiStatus = NoStatus
    /\ tokens \in StoredTokens
    /\ deviceLoaded = FALSE
    /\ announced = 0
    /\ pc = [t \in Task |-> "idle"]
    /\ resetting = {}
    /\ tries = [t \in Task |-> 0]

-------------------------------------------------------------------------------
(* _set_status, once or twice in a row, and the two ways a step ends.      *)

SetStatusFrom(sent, from, s) ==
    /\ apiStatus' = s
    /\ signals' = sent \o Changed("api", from, s)

SetStatus(s) == SetStatusFrom(signals, apiStatus, s)

Await(t, stage) == pc' = [pc EXCEPT ![t] = stage]
Return(t)       == Await(t, "idle")

-------------------------------------------------------------------------------
(* The AWS token.                                                          *)

(* One turn of the loop of _get_aws_token: without a motor unit serial     *)
(* _pad raises, and _generate_aws_token reports FAILED; a token that       *)
(* contains "+" is thrown away and tried again after a sleep.              *)
TryEncrypt(t, sent, from) ==
    \/ /\ ~tokens.motor
       /\ SetStatusFrom(sent, from, "FAILED")
       /\ Return(t)
       /\ tries' = [tries EXCEPT ![t] = 0]
       /\ UNCHANGED tokens
    \/ /\ tokens.motor
       /\ SetStatusFrom(sent, from, from)
       /\ Await(t, "saveAws")
       /\ tries' = [tries EXCEPT ![t] = 0]
       /\ tokens' = [tokens EXCEPT !.aws = TRUE]
    \/ /\ tokens.motor
       /\ SetStatusFrom(sent, from, from)
       /\ Await(t, "encrypt")
       /\ tries' = [tries EXCEPT ![t] = @ + 1]
       /\ UNCHANGED tokens

(* _login with TEMPORARY_CONNECTED, and _generate_aws_token up to its      *)
(* first await.                                                            *)
GenerateAwsToken(t) ==
    \/ /\ tokens.aws
       /\ SetStatus("TEMPORARY_CONNECTED")
       /\ Await(t, "token")
       /\ UNCHANGED <<tokens, tries>>
    \/ /\ ~tokens.aws
       /\ TryEncrypt(t, signals \o Changed("api", apiStatus, "TEMPORARY_CONNECTED"),
                     "TEMPORARY_CONNECTED")

(* Mutant: one try too many.                                               *)
EncryptWakesOnceMore(t) ==
    /\ pc[t] = "encrypt"
    /\ TryEncrypt(t, signals, apiStatus)
    /\ UNCHANGED <<deviceLoaded, announced, resetting>>

(* _get_aws_token wakes from its sleep; after the last try it raises.      *)
EncryptWakes(t) ==
    /\ pc[t] = "encrypt"
    /\ \/ tries[t] < EncryptTries /\ TryEncrypt(t, signals, apiStatus)
       \/ /\ tries[t] = EncryptTries
          /\ SetStatus("FAILED")
          /\ Return(t)
          /\ tries' = [tries EXCEPT ![t] = 0]
          /\ UNCHANGED tokens
    /\ UNCHANGED <<deviceLoaded, announced, resetting>>

(* update_aws_token has saved the new token: ask for the credentials.      *)
AwsTokenSaved(t) ==
    /\ pc[t] = "saveAws"
    /\ Await(t, "token")
    /\ UNCHANGED <<apiStatus, signals, tokens, deviceLoaded, announced, resetting, tries>>

(* The credentials arrived.  They count only if no other coroutine has     *)
(* moved the status since they were asked for.                             *)
TokenGranted(t) ==
    /\ pc[t] = "token" /\ t \notin resetting
    /\ SetStatus(IF apiStatus = "TEMPORARY_CONNECTED" THEN "CONNECTED" ELSE apiStatus)
    /\ Return(t)
    /\ UNCHANGED <<tokens, deviceLoaded, announced, resetting, tries>>

(* The service refused: the AWS token is discarded for the next attempt.   *)
TokenRefused(t) ==
    /\ pc[t] = "token" /\ t \notin resetting
    /\ \/ /\ apiStatus = "TEMPORARY_CONNECTED"
          /\ SetStatus("FAILED")
          /\ tokens' = [tokens EXCEPT !.aws = FALSE]
          /\ Await(t, "clearAws")
       \/ /\ apiStatus # "TEMPORARY_CONNECTED"
          /\ Return(t)
          /\ UNCHANGED <<apiStatus, signals, tokens>>
    /\ UNCHANGED <<deviceLoaded, announced, resetting, tries>>

AwsTokenCleared(t) ==
    /\ pc[t] = "clearAws"
    /\ Return(t)
    /\ UNCHANGED <<apiStatus, signals, tokens, deviceLoaded, announced, resetting, tries>>

-------------------------------------------------------------------------------
(* The login.                                                              *)

(* Mutant: a client that is CONNECTED does not log in again.               *)
InitializeOnce(t) ==
    /\ pc[t] = "idle"
    /\ \/ apiStatus # "CONNECTED" /\ tokens.api /\ GenerateAwsToken(t)
       \/ /\ apiStatus = "CONNECTED" \/ ~tokens.api
          /\ Await(t, IF apiStatus \in {"CONNECTED", "INVALID_ACCOUNT"} THEN "idle" ELSE "email")
          /\ UNCHANGED <<apiStatus, signals, tokens, tries>>
    /\ UNCHANGED <<deviceLoaded, announced, resetting>>

(* initialize: a stored API token is used without a request; otherwise     *)
(* _service_login starts with the validation of the account's email, which *)
(* an account known to be invalid does not pass.                           *)
Initialize(t) ==
    /\ pc[t] = "idle"
    /\ \/ tokens.api /\ GenerateAwsToken(t)
       \/ /\ ~tokens.api
          /\ Await(t, IF apiStatus = "INVALID_ACCOUNT" THEN "idle" ELSE "email")
          /\ UNCHANGED <<apiStatus, signals, tokens, tries>>
    /\ UNCHANGED <<deviceLoaded, announced, resetting>>

(* The account exists: send the credentials.                               *)
EmailValid(t) ==
    /\ pc[t] = "email" /\ t \notin resetting
    /\ \/ /\ apiStatus # "INVALID_ACCOUNT"
          /\ SetStatus("CONNECTING")
          /\ Await(t, "login")
       \/ /\ apiStatus = "INVALID_ACCOUNT"
          /\ Return(t)
          /\ UNCHANGED <<apiStatus, signals>>
    /\ UNCHANGED <<tokens, deviceLoaded, announced, resetting, tries>>

(* The account does not exist.                                             *)
EmailUnknown(t) ==
    /\ pc[t] = "email" /\ t \notin resetting
    /\ SetStatus("INVALID_ACCOUNT")
    /\ Return(t)
    /\ UNCHANGED <<tokens, deviceLoaded, announced, resetting, tries>>

(* The answer carries a text where an object is expected: .get raises and  *)
(* _service_login reports FAILED.                                          *)
EmailMalformed(t) ==
    /\ pc[t] = "email" /\ t \notin resetting
    /\ SetStatus("FAILED")
    /\ Return(t)
    /\ UNCHANGED <<tokens, deviceLoaded, announced, resetting, tries>>

(* The API token is stored at once, and the store is written.              *)
LoginAccepted(t) ==
    /\ pc[t] = "login" /\ t \notin resetting
    /\ tokens' = [tokens EXCEPT !.api = TRUE]
    /\ Await(t, "saveLogin")
    /\ UNCHANGED <<apiStatus, signals, deviceLoaded, announced, resetting, tries>>

(* Mutant: refused credentials are tried again at once.                    *)
LoginRefusedRetries(t) ==
    /\ pc[t] = "login" /\ t \notin resetting
    /\ SetStatus("INVALID_CREDENTIALS")
    /\ Await(t, "email")
    /\ UNCHANGED <<tokens, deviceLoaded, announced, resetting, tries>>

(* The answer has no data, or a text in its place.                         *)
LoginRefused(t) ==
    /\ pc[t] = "login" /\ t \notin resetting
    /\ SetStatus("INVALID_CREDENTIALS")
    /\ Return(t)
    /\ UNCHANGED <<tokens, deviceLoaded, announced, resetting, tries>>

(* _set_actual_motor_unit_serial asks for the robot's details.             *)
LoginSaved(t) ==
    /\ pc[t] = "saveLogin"
    /\ Await(t, "motor")
    /\ UNCHANGED <<apiStatus, signals, tokens, deviceLoaded, announced, resetting, tries>>

(* The details carry the serial of the motor unit.                         *)
MotorAnswered(t) ==
    /\ pc[t] = "motor" /\ t \notin resetting
    /\ tokens' = [tokens EXCEPT !.motor = TRUE]
    /\ Await(t, "saveMotor")
    /\ UNCHANGED <<apiStatus, signals, deviceLoaded, announced, resetting, tries>>

(* Mutant: _login returns without a status of its own.                     *)
MotorUnknownReturns(t) ==
    /\ pc[t] = "motor" /\ t \notin resetting
    /\ Return(t)
    /\ UNCHANGED <<apiStatus, signals, tokens, deviceLoaded, announced, resetting, tries>>

(* The service knows no such robot: the status is left as it is, and       *)
(* _login goes by whatever status that is.                                 *)
MotorUnknown(t) ==
    /\ pc[t] = "motor" /\ t \notin resetting
    /\ \/ apiStatus = "TEMPORARY_CONNECTED" /\ GenerateAwsToken(t)
       \/ /\ apiStatus # "TEMPORARY_CONNECTED"
          /\ SetStatus(IF apiStatus \in {"INVALID_CREDENTIALS", "INVALID_ACCOUNT"}
                       THEN apiStatus ELSE "FAILED")
          /\ Return(t)
          /\ UNCHANGED <<tokens, tries>>
    /\ UNCHANGED <<deviceLoaded, announced, resetting>>

(* update_motor_unit_serial has saved the serial, or None in its place.    *)
MotorSaved(t) ==
    /\ pc[t] = "saveMotor"
    /\ GenerateAwsToken(t)
    /\ UNCHANGED <<deviceLoaded, announced, resetting>>

-------------------------------------------------------------------------------
(* The robot's details.                                                    *)

(* update and _load_details up to the request.                             *)
Update(t) ==
    /\ pc[t] = "idle"
    /\ apiStatus = "CONNECTED"
    /\ Await(t, "details")
    /\ UNCHANGED <<apiStatus, signals, tokens, deviceLoaded, announced, resetting, tries>>

(* Mutant: update does not look at _device_loaded after the request.       *)
AnnounceDeviceAgain ==
    /\ deviceLoaded' = TRUE
    /\ announced' = announced + 1

(* The rest of update: the first answer, good or bad, announces the device. *)
AnnounceDevice ==
    /\ deviceLoaded' = TRUE
    /\ announced' = IF deviceLoaded THEN announced ELSE announced + 1

(* The details arrived, whether or not their status is good.               *)
DetailsAnswered(t) ==
    /\ pc[t] = "details" /\ t \notin resetting
    /\ AnnounceDevice
    /\ Return(t)
    /\ UNCHANGED <<apiStatus, signals, tokens, resetting, tries>>

-------------------------------------------------------------------------------
(* Requests that fail.  The error handler of _async_post sets the status,  *)
(* the request yields None, and the caller goes on with that.              *)

NoPayload(t, sent, from) ==
    \/ /\ pc[t] = "email"
       /\ SetStatusFrom(sent, from, "INVALID_ACCOUNT")
       /\ Return(t)
       /\ UNCHANGED <<tokens, deviceLoaded, announced>>
    \/ /\ pc[t] = "login"
       /\ SetStatusFrom(sent, from, "FAILED")
       /\ Return(t)
       /\ UNCHANGED <<tokens, deviceLoaded, announced>>
    \/ /\ pc[t] = "motor"          \* None becomes {}, hence a serial of None
       /\ SetStatusFrom(sent, from, from)
       /\ tokens' = [tokens EXCEPT !.motor = FALSE]
       /\ Await(t, "saveMotor")
       /\ UNCHANGED <<deviceLoaded, announced>>
    \/ /\ pc[t] = "token"
       /\ SetStatusFrom(sent, from, from)
       /\ Return(t)
       /\ UNCHANGED <<tokens, deviceLoaded, announced>>
    \/ /\ pc[t] = "details"
       /\ SetStatusFrom(sent, from, from)
       /\ AnnounceDevice
       /\ Return(t)
       /\ UNCHANGED tokens

(* A timeout, a refused connection, an HTTP status without a meaning of    *)
(* its own: FAILED.  404 and 405: API_NOT_FOUND.                           *)
PostFails(t) ==
    /\ pc[t] \in Post /\ t \notin resetting
    /\ \E s \in {"FAILED", "API_NOT_FOUND"} :
           NoPayload(t, signals \o Changed("api", apiStatus, s), s)
    /\ UNCHANGED <<resetting, tries>>

(* Mutant: 401 resets the API token only.                                  *)
PostUnauthorizedKeeps(t) ==
    /\ pc[t] \in Post /\ t \notin resetting
    /\ tokens' = [tokens EXCEPT !.api = FALSE]
    /\ resetting' = resetting \cup {t}
    /\ UNCHANGED <<apiStatus, signals, deviceLoaded, announced, pc, tries>>

(* 401: the stored tokens are reset, which takes a write of the store.     *)
PostUnauthorized(t) ==
    /\ pc[t] \in Post /\ t \notin resetting
    /\ tokens' = NoTokens
    /\ resetting' = resetting \cup {t}
    /\ UNCHANGED <<apiStatus, signals, deviceLoaded, announced, pc, tries>>

(* Then EXPIRED_TOKEN; and since 401 is neither 404 nor 405, FAILED too.   *)
ResetSaved(t) ==
    /\ t \in resetting
    /\ resetting' = resetting \ {t}
    /\ NoPayload(t, signals \o Changed("api", apiStatus, "EXPIRED_TOKEN")
                            \o Changed("api", "EXPIRED_TOKEN", "FAILED"), "FAILED")
    /\ UNCHANGED tries

-------------------------------------------------------------------------------
(* What a coroutine under way can do: with a service that serves, and with *)
(* one that does not.                                                      *)
Served(t) ==
    \/ EmailValid(t) \/ LoginAccepted(t) \/ LoginSaved(t)
    \/ MotorAnswered(t) \/ MotorSaved(t)
    \/ EncryptWakes(t) \/ AwsTokenSaved(t) \/ TokenGranted(t) \/ AwsTokenCleared(t)
    \/ DetailsAnswered(t) \/ ResetSaved(t)

Faulty(t) ==
    \/ EmailUnknown(t) \/ EmailMalformed(t) \/ LoginRefused(t)
    \/ MotorUnknown(t) \/ TokenRefused(t)
    \/ PostFails(t) \/ PostUnauthorized(t)

Turn(t) == Initialize(t) \/ Update(t) \/ Served(t) \/ Faulty(t)

(* The client on its own, under any coordinator: initialize and update are *)
(* called at any time, and the loop delivers the signals.                  *)
Deliver ==
    /\ signals # <<>>
    /\ signals' = Tail(signals)
    /\ UNCHANGED apiOwn

ApiNext ==
    \/ Deliver
    \/ \E t \in Task : Room /\ Turn(t)

ApiSpec == ApiInit /\ [][ApiNext]_apiVars

(* Every request is answered or times out, every write of the store ends,  *)
(* every sleep wakes, and the loop delivers what was sent.  The turn of a  *)
(* coroutine comes although others keep the loop busy, hence SF.           *)
ApiFairSpec ==
    /\ ApiSpec
    /\ WF_apiVars(Deliver)
    /\ \A t \in Task : SF_apiVars(Room /\ Served(t))

-------------------------------------------------------------------------------
(* No status that announces progress is left without the coroutine that    *)
(* makes the progress, however coroutines interleave: CONNECTING belongs   *)
(* to a login under way, TEMPORARY_CONNECTED to the generation of an AWS   *)
(* token (_login, _service_login and _generate_aws_token, whose early      *)
(* returns and exceptions must each replace the status they leave).        *)
NoOrphanStatus ==
    /\ apiStatus = "CONNECTING" => \E t \in Task : pc[t] \in LoginStage
    /\ apiStatus = "TEMPORARY_CONNECTED" => \E t \in Task : pc[t] \in GenerateStage

(* The entities are created on SIGNAL_DEVICE_NEW: two concurrent updates,  *)
(* each of which awaits the details before it looks at _device_loaded,     *)
(* still announce the device once.                                         *)
DeviceAnnouncedOnce == announced = IF deviceLoaded THEN 1 ELSE 0

(* The count of _get_aws_token starts from zero with every call.           *)
TriesReset == \A t \in Task : pc[t] # "encrypt" => tries[t] = 0

(* The inductive invariant that the proofs use.                            *)
ApiInv == ApiTypeOK /\ TriesReset /\ NoOrphanStatus /\ DeviceAnnouncedOnce

(* When initialize and update are called one after the other, the client   *)
(* is CONNECTED only with a complete set of tokens: 401 resets them all,   *)
(* so that a new API token is never combined with an old AWS token.        *)
ConnectedWithTokens ==
    apiStatus = "CONNECTED" /\ resetting = {} => tokens.api /\ tokens.motor /\ tokens.aws

OneAtATime == \A a, b \in Task : a = b

(* What makes it so: how far a call has come tells which tokens it has     *)
(* stored, unless a 401 is being handled.                                  *)
OneCallInv ==
    /\ (tokens.aws => tokens.motor) /\ (tokens.motor => tokens.api)
    /\ \A t \in resetting : pc[t] \in Post /\ tokens = NoTokens
    /\ \A t \in Task \ resetting :
           /\ pc[t] \in {"email", "login"} => tokens = NoTokens
           /\ pc[t] \in {"saveLogin", "motor"} => tokens.api /\ ~tokens.aws
           /\ pc[t] = "encrypt" => tokens.motor
           /\ pc[t] \in {"saveAws", "token"} => tokens.aws
    /\ ConnectedWithTokens

(* Every chain of calls that initialize or update starts comes to an end,  *)
(* whatever the service answers: the retries of _get_aws_token are counted. *)
ChainEnds == \A t \in Task : pc[t] # "idle" ~> pc[t] = "idle"

===============================================================================
