--------------------------- MODULE CoordinatorProofs --------------------------
(***************************************************************************)
(* Proofs about Coordinator for any number of coroutines and connections:  *)
(* however the recoveries interleave, and whatever goes wrong outside, a   *)
(* failure of either client has a recovery on its way.                     *)
(***************************************************************************)
EXTENDS Coordinator, RestApiProofs, AwsClientProofs

(* The statuses that the REST client is given.                             *)
LoginStatus ==
    {"CONNECTING", "TEMPORARY_CONNECTED", "CONNECTED", "FAILED",
     "INVALID_CREDENTIALS", "INVALID_ACCOUNT", "EXPIRED_TOKEN", "API_NOT_FOUND"}

LEMMA LoginStatusType == LoginStatus \subseteq ConnectivityStatus
  BY DEF LoginStatus, ConnectivityStatus

(* A queue q and a status s of the REST client account for the present     *)
(* ones: what waits in the queue still waits, and a status that the        *)
(* handler acts on is the present one or has been announced.               *)
Accounts(q, s) ==
    /\ q \in Seq(Signal)
    /\ Waiting(signals, "api", Actionable) => Waiting(q, "api", Actionable)
    /\ Waiting(signals, "api", {"CONNECTED"}) => Waiting(q, "api", {"CONNECTED"})
    /\ Waiting(signals, "aws", {"FAILED"}) => Waiting(q, "aws", {"FAILED"})
    /\ s \in LoginStatus \cup {apiStatus}
    /\ s \in Actionable => s = apiStatus \/ Waiting(q, "api", Actionable)
    /\ s = "CONNECTED" => s = apiStatus \/ Waiting(q, "api", {"CONNECTED"})

LEMMA AccountsPresent ==
    ASSUME DispatcherTypeOK
    PROVE  Accounts(signals, apiStatus)
  BY DEF Accounts, DispatcherTypeOK

(* A change of the status is announced.                                    *)
LEMMA AccountsChanged ==
    ASSUME NEW q, NEW from, Accounts(q, from), NEW s \in LoginStatus
    PROVE  Accounts(q \o Changed("api", from, s), s)
<1> DEFINE r == Changed("api", from, s)
<1>1. r \in Seq(Signal) /\ q \in Seq(Signal) /\ q \o r \in Seq(Signal)
  <2>1. r \in Seq(Signal) /\ q \in Seq(Signal)
    BY ChangedType, LoginStatusType DEF Accounts
  <2> HIDE DEF r
  <2> QED BY <2>1
<1>2. \A source, S : Waiting(q, source, S) => Waiting(q \o r, source, S)
  <2> HIDE DEF r
  <2> QED BY <1>1, WaitingAppended
<1>3. ASSUME NEW S \in {Actionable, {"CONNECTED"}}, s \in S, s # from
      PROVE  Waiting(q \o r, "api", S)
  <2>1. Waiting(r, "api", S)
    BY <1>3, WaitingChanged DEF Heeded
  <2> HIDE DEF r
  <2> QED BY <2>1, <1>1, WaitingAppended
<1> HIDE DEF r
<1>4. Accounts(q \o r, s)
  BY <1>1, <1>2, <1>3 DEF Accounts
<1> QED BY <1>4 DEF r

(* What holds of the status that a step sets, and of one it leaves alone.  *)
LEMMA AccountsSet ==
    ASSUME NEW sent, NEW from, NEW s, Accounts(sent, from), SetStatusFrom(sent, from, s),
           s \in LoginStatus \/ s = from
    PROVE  Accounts(signals', apiStatus')
<1>1. CASE s \in LoginStatus
  BY <1>1, AccountsChanged DEF SetStatusFrom
<1>2. CASE s = from
  <2>1. signals' = sent /\ apiStatus' = from
    BY <1>2 DEF SetStatusFrom, Changed, Accounts
  <2> QED BY <2>1
<1> QED BY <1>1, <1>2

LEMMA AccountsUnchanged ==
    ASSUME DispatcherTypeOK, UNCHANGED <<apiStatus, signals>>
    PROVE  Accounts(signals', apiStatus')
  BY AccountsPresent

-------------------------------------------------------------------------------
(* Every turn of a coroutine of the REST client accounts for what was.     *)
LEMMA EncryptAccounts ==
    ASSUME NEW t \in Task, NEW sent, NEW from, Accounts(sent, from), TryEncrypt(t, sent, from)
    PROVE  Accounts(signals', apiStatus')
<1>1. \E s \in {"FAILED", from} : SetStatusFrom(sent, from, s)
  BY DEF TryEncrypt
<1> QED BY <1>1, AccountsSet DEF LoginStatus

LEMMA GenerateAccounts ==
    ASSUME DispatcherTypeOK, NEW t \in Task, GenerateAwsToken(t)
    PROVE  Accounts(signals', apiStatus')
<1> DEFINE s == "TEMPORARY_CONNECTED"
<1>1. s \in LoginStatus /\ Accounts(signals, apiStatus)
  BY AccountsPresent DEF LoginStatus
<1>2. CASE SetStatus(s)
  BY <1>1, <1>2, AccountsSet DEF SetStatus
<1>3. CASE TryEncrypt(t, signals \o Changed("api", apiStatus, s), s)
  <2>1. Accounts(signals \o Changed("api", apiStatus, s), s)
    BY <1>1, AccountsChanged
  <2> QED BY <1>3, <2>1, EncryptAccounts
<1> QED BY <1>2, <1>3 DEF GenerateAwsToken

LEMMA NoPayloadAccounts ==
    ASSUME DispatcherTypeOK, NEW t \in Task, NEW sent, NEW from, Accounts(sent, from),
           NoPayload(t, sent, from)
    PROVE  Accounts(signals', apiStatus')
<1>1. \E s \in {"INVALID_ACCOUNT", "FAILED", from} : SetStatusFrom(sent, from, s)
  BY DEF NoPayload
<1> QED BY <1>1, AccountsSet DEF LoginStatus

LEMMA ServedAccounts ==
    ASSUME DispatcherTypeOK, NEW t \in Task, Served(t)
    PROVE  Accounts(signals', apiStatus')
<1>0. Accounts(signals, apiStatus)
  BY AccountsPresent
<1>a. \A s \in {"CONNECTING", "CONNECTED", "FAILED", apiStatus} :
          SetStatus(s) => Accounts(signals', apiStatus')
  BY <1>0, AccountsSet DEF SetStatus, LoginStatus
<1>1. CASE EmailValid(t) \/ TokenGranted(t)
  <2>1. \/ UNCHANGED <<apiStatus, signals>>
        \/ \E s \in {"CONNECTING", "CONNECTED", apiStatus} : SetStatus(s)
    BY <1>1 DEF EmailValid, TokenGranted
  <2> QED BY <1>a, <2>1, AccountsUnchanged
<1>2. CASE MotorSaved(t)
  BY <1>2, GenerateAccounts DEF MotorSaved
<1>3. CASE EncryptWakes(t)
  BY <1>3, <1>0, <1>a, EncryptAccounts DEF EncryptWakes
<1>4. CASE ResetSaved(t)
  <2> DEFINE sent == signals \o Changed("api", apiStatus, "EXPIRED_TOKEN")
                             \o Changed("api", "EXPIRED_TOKEN", "FAILED")
  <2>1. Accounts(sent, "FAILED")
    <3>1. Accounts(signals \o Changed("api", apiStatus, "EXPIRED_TOKEN"), "EXPIRED_TOKEN")
      BY <1>0, AccountsChanged DEF LoginStatus
    <3> QED BY <3>1, AccountsChanged DEF LoginStatus
  <2>2. NoPayload(t, sent, "FAILED")
    BY <1>4 DEF ResetSaved
  <2> HIDE DEF sent
  <2> QED BY <2>1, <2>2, NoPayloadAccounts
<1>5. CASE LoginAccepted(t) \/ LoginSaved(t) \/ MotorAnswered(t) \/ AwsTokenSaved(t)
           \/ AwsTokenCleared(t) \/ DetailsAnswered(t)
  BY <1>5, AccountsUnchanged DEF LoginAccepted, LoginSaved, MotorAnswered, AwsTokenSaved,
                                 AwsTokenCleared, DetailsAnswered
<1> QED BY <1>1, <1>2, <1>3, <1>4, <1>5 DEF Served

LEMMA FaultyAccounts ==
    ASSUME DispatcherTypeOK, NEW t \in Task, Faulty(t)
    PROVE  Accounts(signals', apiStatus')
<1>0. Accounts(signals, apiStatus)
  BY AccountsPresent
<1>a. \A s \in {"INVALID_ACCOUNT", "INVALID_CREDENTIALS", "FAILED", apiStatus} :
          SetStatus(s) => Accounts(signals', apiStatus')
  BY <1>0, AccountsSet DEF SetStatus, LoginStatus
<1>1. CASE EmailUnknown(t) \/ EmailMalformed(t) \/ LoginRefused(t)
  BY <1>1, <1>a DEF EmailUnknown, EmailMalformed, LoginRefused
<1>2. CASE MotorUnknown(t)
  <2>1. \/ GenerateAwsToken(t)
        \/ \E s \in {"FAILED", apiStatus} : SetStatus(s)
    BY <1>2 DEF MotorUnknown
  <2> QED BY <1>a, <2>1, GenerateAccounts
<1>3. CASE TokenRefused(t)
  BY <1>3, <1>a, AccountsUnchanged DEF TokenRefused
<1>4. CASE PostFails(t)
  <2>1. PICK s \in {"FAILED", "API_NOT_FOUND"} :
            NoPayload(t, signals \o Changed("api", apiStatus, s), s)
    BY <1>4 DEF PostFails
  <2>2. Accounts(signals \o Changed("api", apiStatus, s), s)
    BY <1>0, AccountsChanged DEF LoginStatus
  <2> QED BY <2>1, <2>2, NoPayloadAccounts
<1>5. CASE PostUnauthorized(t)
  BY <1>5, AccountsUnchanged DEF PostUnauthorized
<1> QED BY <1>1, <1>2, <1>3, <1>4, <1>5 DEF Faulty

LEMMA TurnAccounts ==
    ASSUME DispatcherTypeOK, NEW t \in Task, Turn(t)
    PROVE  Accounts(signals', apiStatus')
<1>1. CASE Initialize(t)
  BY <1>1, GenerateAccounts, AccountsUnchanged DEF Initialize
<1>2. CASE Update(t)
  BY <1>2, AccountsUnchanged DEF Update
<1> QED BY <1>1, <1>2, ServedAccounts, FaultyAccounts DEF Turn

-------------------------------------------------------------------------------
(* A turn moves no other coroutine.                                        *)
LEMMA OthersStay ==
    ASSUME ApiTypeOK, NEW t \in Task, Turn(t), NEW u \in Task, u # t
    PROVE  pc'[u] = pc[u]
<1>1. (\E stage : Await(t, stage)) \/ pc' = pc
  <2>1. CASE Initialize(t) \/ Update(t)
    BY <2>1 DEF Initialize, GenerateAwsToken, TryEncrypt, Update, Return
  <2>2. CASE Served(t)
    BY <2>2, Zenon DEF Served, EmailValid, LoginAccepted, LoginSaved, MotorAnswered, MotorSaved,
        EncryptWakes, AwsTokenSaved, TokenGranted, AwsTokenCleared, DetailsAnswered, ResetSaved,
        GenerateAwsToken, TryEncrypt, NoPayload, Return
  <2>3. CASE Faulty(t)
    BY <2>3, Zenon DEF Faulty, EmailUnknown, EmailMalformed, LoginRefused, MotorUnknown,
        TokenRefused, PostFails, PostUnauthorized, GenerateAwsToken, TryEncrypt, NoPayload, Return
  <2> QED BY <2>1, <2>2, <2>3 DEF Turn
<1> QED BY <1>1 DEF Await, ApiTypeOK

(* The validation of the email ends in a status that announces no end of   *)
(* the login and needs no recovery, unless its answer is malformed.        *)
LEMMA EmailEnds ==
    ASSUME ApiTypeOK, NEW t \in Task, pc[t] = "email", Served(t) \/ Faulty(t)
    PROVE  \/ pc'[t] = "email"
           \/ apiStatus' # "CONNECTED" /\ apiStatus' \notin Actionable
           \/ Faulty(t) /\ EmailMalformed(t) /\ apiStatus' = "FAILED"
<1> USE DEF SetStatus, SetStatusFrom, Actionable
<1> DEFINE Ended == apiStatus' # "CONNECTED" /\ apiStatus' \notin Actionable
<1>1. ASSUME NEW sent, NEW from, NoPayload(t, sent, from)
      PROVE  Ended
  BY <1>1 DEF NoPayload
<1>2. CASE EmailValid(t)
  BY <1>2 DEF EmailValid
<1>3. CASE ResetSaved(t)
  BY <1>1, <1>3 DEF ResetSaved
<1>4. CASE EmailUnknown(t)
  BY <1>4 DEF EmailUnknown
<1>5. CASE PostFails(t)
  BY <1>1, <1>5 DEF PostFails
<1>6. CASE PostUnauthorized(t)
  BY <1>6 DEF PostUnauthorized
<1>7. CASE EmailMalformed(t)
  BY <1>7 DEF EmailMalformed, Faulty
<1> QED
  BY <1>2, <1>3, <1>4, <1>5, <1>6, <1>7
  DEF Served, Faulty, LoginAccepted, LoginSaved, MotorAnswered, MotorSaved, EncryptWakes,
      AwsTokenSaved, TokenGranted, AwsTokenCleared, DetailsAnswered, LoginRefused,
      MotorUnknown, TokenRefused

(* A login that starts leaves no failure without a recovery: it announces  *)
(* a new one, or begins with the email.                                    *)
LEMMA InitializeRecovers ==
    ASSUME ApiTypeOK, NEW t \in Task, Initialize(t), apiStatus' \in Actionable
    PROVE  Waiting(signals', "api", Actionable) \/ pc'[t] = "email"
<1> DEFINE s    == "TEMPORARY_CONNECTED"
           sent == signals \o Changed("api", apiStatus, s)
<1>1. CASE ~tokens.api
  BY <1>1 DEF Initialize, Await, ApiTypeOK, Actionable
<1>2. CASE tokens.api
  <2>1. GenerateAwsToken(t)
    BY <1>2 DEF Initialize
  <2>2. TryEncrypt(t, sent, s)
    BY <2>1 DEF GenerateAwsToken, SetStatus, SetStatusFrom, Actionable
  <2>3. SetStatusFrom(sent, s, "FAILED")
    BY <2>2 DEF TryEncrypt, SetStatusFrom, Actionable
  <2>4. sent \in Seq(Signal)
    <3>1. Changed("api", apiStatus, s) \in Seq(Signal) /\ signals \in Seq(Signal)
      BY ChangedType DEF ConnectivityStatus, ApiTypeOK, DispatcherTypeOK
    <3> QED BY <3>1
  <2>5. Changed("api", s, "FAILED") \in Seq(Signal)
    BY ChangedType DEF ConnectivityStatus
  <2>6. Waiting(Changed("api", s, "FAILED"), "api", Actionable)
    BY WaitingChanged DEF Heeded, Actionable
  <2> HIDE DEF sent
  <2>7. Waiting(sent \o Changed("api", s, "FAILED"), "api", Actionable)
    BY <2>4, <2>5, <2>6, WaitingAppended
  <2> QED BY <2>3, <2>7 DEF SetStatusFrom
<1> QED BY <1>1, <1>2

(* A login that starts does not leave CONNECTED in place, unless it begins *)
(* with the email.                                                         *)
LEMMA InitializeAnnounces ==
    ASSUME ApiTypeOK, NEW t \in Task, Initialize(t), apiStatus' = "CONNECTED"
    PROVE  pc'[t] = "email"
<1>1. CASE tokens.api /\ GenerateAwsToken(t)
  BY <1>1 DEF GenerateAwsToken, TryEncrypt, SetStatus, SetStatusFrom
<1>2. CASE ~tokens.api
  BY <1>2 DEF Initialize, Await, ApiTypeOK
<1> QED BY <1>1, <1>2 DEF Initialize

-------------------------------------------------------------------------------
(* What a step of the AWS client does to the queue: a signal that waits    *)
(* still waits, and FAILED is announced.                                   *)
LEMMA AwsTurnInv ==
    ASSUME AwsInv, AwsTurn
    PROVE  AwsInv'
  BY LoopStep, ReportStep, CrtStepInv DEF AwsTurn

LEMMA SetAwsAccounts ==
    ASSUME AwsTypeOK, NEW s \in ConnectivityStatus, SetAwsStatus(s)
    PROVE  /\ \A source, S : Pending(source, S) => Pending(source, S)'
           /\ awsStatus' = "FAILED" => awsStatus = "FAILED" \/ Pending("aws", {"FAILED"})'
<1>1. PICK new : /\ new = IF IgnoredTransition(awsStatus, s) THEN awsStatus ELSE s
                 /\ awsStatus' = new
                 /\ signals' = signals \o Changed("aws", awsStatus, new)
  BY DEF SetAwsStatus
<1> DEFINE r == Changed("aws", awsStatus, new)
<1>2. r \in Seq(Signal) /\ signals \in Seq(Signal)
  <2>1. CASE new = awsStatus
    BY <2>1 DEF Changed, AwsTypeOK, DispatcherTypeOK
  <2>2. CASE new = s
    BY <2>2, ChangedType DEF AwsTypeOK, DispatcherTypeOK
  <2> QED BY <1>1, <2>1, <2>2
<1>3. new = "FAILED" /\ awsStatus # "FAILED" => Waiting(r, "aws", {"FAILED"})
  BY WaitingChanged DEF Heeded, AwsActionable
<1> HIDE DEF r
<1>4. signals' = signals \o r
  BY <1>1 DEF r
<1> QED BY <1>1, <1>2, <1>3, <1>4, WaitingAppended DEF Pending

LEMMA AwsTurnAccounts ==
    ASSUME AwsInv, AwsTurn
    PROVE  /\ \A source, S : Pending(source, S) => Pending(source, S)'
           /\ awsStatus' = "FAILED" => awsStatus = "FAILED" \/ Pending("aws", {"FAILED"})'
<1>0. AwsTypeOK
  BY DEF AwsInv
<1>a. ASSUME UNCHANGED <<awsStatus, signals>>
      PROVE  /\ \A source, S : Pending(source, S) => Pending(source, S)'
             /\ awsStatus' = "FAILED" => awsStatus = "FAILED"
  BY <1>a DEF Pending
<1>b. ASSUME \E s \in {"CONNECTING", "CONNECTED", "FAILED", "DISCONNECTED"} : SetAwsStatus(s)
      PROVE  /\ \A source, S : Pending(source, S) => Pending(source, S)'
             /\ awsStatus' = "FAILED" => awsStatus = "FAILED" \/ Pending("aws", {"FAILED"})'
  BY <1>0, <1>b, SetAwsAccounts, Given
<1>1. CASE Disconnect
  BY <1>a, <1>1 DEF Disconnect
<1>2. CASE Terminated
  BY <1>b, <1>2 DEF Terminated
<1>3. CASE SetReported
  <2>1. CASE report.status = "FAILED"
    <3> DEFINE r == <<[source |-> "aws", status |-> "FAILED"]>>
    <3>1. signals' = signals \o r /\ signals \in Seq(Signal)
      BY <1>0, <1>3, <2>1 DEF SetReported, AwsTypeOK, DispatcherTypeOK
    <3>2. r \in Seq(Signal) /\ Waiting(r, "aws", {"FAILED"})
      <4>1. [source |-> "aws", status |-> "FAILED"] \in Signal
        BY Given DEF Signal
      <4>2. r \in Seq(Signal)
        BY <4>1
      <4>3. Waiting(r, "aws", {"FAILED"})
        BY DEF Waiting
      <4> QED BY <4>2, <4>3
    <3> HIDE DEF r
    <3> QED BY <3>1, <3>2, WaitingAppended DEF Pending
  <2>2. CASE report.status # "FAILED"
    <3>1. report.status \in {"CONNECTED", "DISCONNECTED"} /\ SetAwsStatus(report.status)
      BY <1>0, <1>3, <2>2 DEF SetReported, CrtFree, AwsTypeOK, Report
    <3> QED BY <1>b, <3>1
  <2> QED BY <2>1, <2>2
<1>4. ASSUME NEW t \in Task, Loop(t)
      PROVE  /\ \A source, S : Pending(source, S) => Pending(source, S)'
             /\ awsStatus' = "FAILED" => awsStatus = "FAILED" \/ Pending("aws", {"FAILED"})'
  BY <1>a, <1>b, <1>4 DEF Loop, StartAws, ClientBuilt, BuildFails
<1>5. ASSUME NEW c \in Conn, Crt(c)
      PROVE  UNCHANGED <<awsStatus, signals>>
  BY <1>5 DEF Crt, OnConnectionSuccess, OnConnectionResumed, BecomesClient, OnConnectionFailure,
              OnConnectionInterrupted, OnConnectionClosed, Collected
<1> QED BY <1>a, <1>1, <1>2, <1>3, <1>4, <1>5 DEF AwsTurn

-------------------------------------------------------------------------------
(* A step of the integration delivers a signal, or is a step of one of the *)
(* clients that leaves the other one alone.                                *)
ByApi == (\E t \in Task : Turn(t)) /\ UNCHANGED awsOwn
ByAws == AwsTurn /\ UNCHANGED apiOwn

LEMMA Kinds ==
    ASSUME CoordNext
    PROVE  DeliverSignal \/ ByApi \/ ByAws
<1>1. ASSUME NEW t \in Task, ApiFaulty(t)
      PROVE  Faulty(t) /\ UNCHANGED awsOwn
  BY <1>1 DEF ApiFaulty, Faulty
<1>2. ASSUME NEW t \in Task,
             \/ Start(t) \/ OnConnected(t) \/ CooldownEnds(t) \/ Refresh(t)
             \/ ApiServed(t) \/ ApiFaulty(t)
      PROVE  ByApi \/ ByAws
  BY <1>1, <1>2 DEF Start, OnConnected, CooldownEnds, Refresh, ApiServed, ByApi, ByAws, Turn,
                    AwsTurn, Loop
<1>3. ASSUME NEW t \in Task,
             \/ UpdateReturned(t) \/ OnFailure(t) \/ CoolDown(t)
             \/ Prepared(t) \/ NotPrepared(t)
      PROVE  ByAws
  BY <1>3 DEF UpdateReturned, OnFailure, CoolDown, Prepared, NotPrepared, ByAws, AwsTurn, Loop
<1>4. ASSUME NEW c \in Conn, Closed(c) \/ CrtServed(c) \/ TakenOver(c) \/ CrtFaulty(c)
      PROVE  ByAws
  BY <1>4 DEF Closed, CrtServed, TakenOver, CrtFaulty, ByAws, AwsTurn, Crt
<1>5. Reported => ByAws
  BY DEF Reported, ByAws, AwsTurn
<1> QED BY <1>2, <1>3, <1>4, <1>5 DEF CoordNext

(* The invariants of both clients are kept.                                *)
LEMMA ClientsStep ==
    ASSUME ApiInv, AwsInv, CoordNext \/ UNCHANGED coordVars
    PROVE  ApiInv' /\ AwsInv'
<1>0. DispatcherTypeOK
  BY DEF ApiInv, ApiTypeOK
<1>1. CASE DeliverSignal \/ UNCHANGED coordVars
  <2>1. UNCHANGED apiOwn /\ UNCHANGED awsOwn
    BY <1>1 DEF DeliverSignal, coordVars
  <2>2. DispatcherTypeOK'
    <3>1. CASE DeliverSignal
      BY <3>1, <1>0, TailType DEF DeliverSignal
    <3>2. CASE UNCHANGED coordVars
      BY <3>2, <1>0 DEF coordVars, DispatcherTypeOK
    <3> QED BY <1>1, <3>1, <3>2
  <2> QED BY <2>1, <2>2, ApiUntouched, AwsUntouched
<1>2. CASE ByApi
  <2>1. ApiInv'
    BY <1>2, TurnStep DEF ByApi
  <2>2. DispatcherTypeOK'
    BY <2>1 DEF ApiInv, ApiTypeOK
  <2> QED BY <1>2, <2>1, <2>2, AwsUntouched DEF ByApi
<1>3. CASE ByAws
  <2>1. AwsInv'
    BY <1>3, AwsTurnInv DEF ByAws
  <2>2. DispatcherTypeOK'
    BY <2>1 DEF AwsInv, AwsTypeOK
  <2> QED BY <1>3, <2>1, <2>2, ApiUntouched DEF ByAws
<1> QED BY <1>1, <1>2, <1>3, Kinds

(* The coordinator's own variables keep their types, and what prepares a   *)
(* client does nothing else.                                               *)
LEMMA OwnStep ==
    ASSUME CoordInv, CoordNext \/ UNCHANGED coordVars
    PROVE  CoordTypeOK' /\ PreparingConnects'
<1> DEFINE Own == /\ job \in [Task -> Job]
                  /\ asked \in [Task -> Conn \cup {NoConn}]
                  /\ started \in BOOLEAN
                  /\ PreparingConnects
<1>0. Own /\ client \in Conn \cup {NoConn} /\ preparing \subseteq Task
  BY DEF CoordInv, CoordTypeOK, AwsTypeOK
<1> SUFFICES Own'
  BY ClientsStep DEF CoordInv, CoordTypeOK, ApiInv, AwsInv
<1> USE DEF Job, SetJob, PreparingConnects
<1>1. CASE DeliverSignal
  BY <1>0, <1>1 DEF DeliverSignal, Free, awsOwn
<1>2. ASSUME NEW t \in Task, Start(t)
      PROVE  Own'
  BY <1>0, <1>2 DEF Start, awsOwn
<1>3. ASSUME NEW t \in Task, OnConnected(t)
      PROVE  Own'
  BY <1>0, <1>3 DEF OnConnected, awsOwn, StartAws
<1>4. ASSUME NEW t \in Task, UpdateReturned(t)
      PROVE  Own'
  BY <1>0, <1>4 DEF UpdateReturned, coordOwn, StartAws
<1>5. ASSUME NEW t \in Task, Prepared(t) \/ NotPrepared(t)
      PROVE  Own'
  BY <1>0, <1>5 DEF Prepared, NotPrepared, ClientBuilt, BuildFails
<1>6. ASSUME NEW t \in Task, OnFailure(t)
      PROVE  Own'
  BY <1>0, <1>6 DEF OnFailure, Disconnect
<1>7. ASSUME NEW t \in Task, CoolDown(t)
      PROVE  Own'
  BY <1>0, <1>7 DEF CoolDown, Terminated
<1>8. ASSUME NEW t \in Task, CooldownEnds(t)
      PROVE  Own'
  BY <1>0, <1>8 DEF CooldownEnds, awsOwn
<1>9. ASSUME NEW t \in Task, Refresh(t) \/ ApiServed(t) \/ ApiFaulty(t)
      PROVE  Own'
  BY <1>0, <1>9 DEF Refresh, ApiServed, ApiFaulty, awsOwn, coordOwn
<1>10. ASSUME NEW c \in Conn, Closed(c) \/ CrtServed(c) \/ TakenOver(c) \/ CrtFaulty(c)
       PROVE  Own'
  BY <1>0, <1>10 DEF Closed, CrtServed, TakenOver, CrtFaulty, coordOwn, OnConnectionClosed,
      OnConnectionSuccess, OnConnectionResumed, BecomesClient, Collected,
      OnConnectionInterrupted, OnConnectionFailure
<1>11. CASE Reported
  BY <1>0, <1>11 DEF Reported, SetReported, coordOwn
<1>12. CASE UNCHANGED coordVars
  BY <1>0, <1>12 DEF coordVars, coordOwn, awsOwn
<1> QED
  BY <1>1, <1>2, <1>3, <1>4, <1>5, <1>6, <1>7, <1>8, <1>9, <1>10, <1>11, <1>12 DEF CoordNext

-------------------------------------------------------------------------------
(* A step of a client loses no signal, and announces what it makes fail.   *)
LEMMA Announced ==
    ASSUME CoordInv, ByApi \/ ByAws
    PROVE  /\ Pending("api", Actionable) => Pending("api", Actionable)'
           /\ Pending("api", {"CONNECTED"}) => Pending("api", {"CONNECTED"})'
           /\ Pending("aws", {"FAILED"}) => Pending("aws", {"FAILED"})'
           /\ apiStatus' = "CONNECTED" =>
                  apiStatus = "CONNECTED" \/ Pending("api", {"CONNECTED"})'
           /\ apiStatus' \in Actionable => apiStatus' = apiStatus \/ Pending("api", Actionable)'
           /\ awsStatus' = "FAILED" => awsStatus = "FAILED" \/ Pending("aws", {"FAILED"})'
<1>1. CASE ByApi
  <2>1. Accounts(signals', apiStatus')
    BY <1>1, TurnAccounts DEF ByApi, CoordInv, ApiInv, ApiTypeOK
  <2>2. awsStatus' = awsStatus
    BY <1>1 DEF ByApi, awsOwn
  <2> QED BY <2>1, <2>2 DEF Accounts, Pending
<1>2. CASE ByAws
  BY <1>2, AwsTurnAccounts DEF ByAws, CoordInv, apiOwn
<1> QED BY <1>1, <1>2

(* A delivery starts a recovery when it takes a failure off the queue, in  *)
(* a coroutine that had nothing to do.                                     *)
LEMMA Delivered ==
    ASSUME CoordInv, DeliverSignal
    PROVE  /\ Pending("api", Actionable) =>
                  Pending("api", Actionable)' \/ \E t \in Task : job'[t] = "onFailure"
           /\ Pending("aws", {"FAILED"}) =>
                  Pending("aws", {"FAILED"})' \/ \E t \in Task : job'[t] = "onFailure"
           /\ Pending("api", {"CONNECTED"}) =>
                  Pending("api", {"CONNECTED"})' \/ \E t \in Task : job'[t] = "onConnected"
           /\ \A t \in Task : ~Free(t) => job'[t] = job[t]
<1>1. /\ signals \in Seq(Signal) /\ signals # <<>> /\ signals' = Tail(signals)
      /\ job \in [Task -> Job]
  BY DEF DeliverSignal, CoordInv, CoordTypeOK, AwsTypeOK, DispatcherTypeOK
<1>2. PICK t \in Task, j \in {"onFailure", "onConnected"} :
          /\ Free(t) /\ SetJob(t, j)
          /\ \/ Recovers(Head(signals)) /\ j = "onFailure"
             \/ Connects(Head(signals)) /\ j = "onConnected"
  BY Zenon DEF DeliverSignal
<1>3. job'[t] = j /\ \A u \in Task : u # t => job'[u] = job[u]
  BY <1>1, <1>2 DEF SetJob
<1>4. \A u \in Task : ~Free(u) => job'[u] = job[u]
  BY <1>2, <1>3
<1>5. \A source, S : Pending(source, S)
          /\ ~(Head(signals).source = source /\ Head(signals).status \in S)
              => Pending(source, S)'
  BY <1>1, WaitingTail DEF Pending
<1>6. CASE Recovers(Head(signals)) /\ j = "onFailure"
  <2>1. ~(Head(signals).source = "api" /\ Head(signals).status \in {"CONNECTED"})
    BY <1>6 DEF Recovers, Actionable
  <2> QED BY <1>3, <1>4, <1>5, <1>6, <2>1
<1>7. CASE Connects(Head(signals)) /\ j = "onConnected"
  <2>1. /\ ~(Head(signals).source = "api" /\ Head(signals).status \in Actionable)
        /\ ~(Head(signals).source = "aws" /\ Head(signals).status \in {"FAILED"})
    BY <1>7 DEF Connects, Actionable
  <2> QED BY <1>3, <1>4, <1>5, <1>7, <2>1
<1> QED BY <1>2, <1>6, <1>7

(* A failure of the broker that is not announced any more is being         *)
(* recovered from: only the end of terminate ends that, and it replaces    *)
(* the status.                                                             *)
LEMMA HandledStep ==
    ASSUME CoordInv, CoordNext
    PROVE  BrokerFailureHandled'
<1> SUFFICES ASSUME awsStatus' = "FAILED", ~Pending("aws", {"FAILED"})'
             PROVE  \E t \in Task : job'[t] = "onFailure"
  BY DEF BrokerFailureHandled
<1>1. CASE DeliverSignal
  <2>1. awsStatus = "FAILED"
    BY <1>1 DEF DeliverSignal, awsOwn
  <2>2. \A t \in Task : job[t] = "onFailure" => ~Free(t)
    BY DEF Free
  <2> QED BY <1>1, <2>1, <2>2, Delivered DEF CoordInv, BrokerFailureHandled
<1>2. CASE ByApi \/ ByAws
  <2>1. awsStatus = "FAILED" /\ ~Pending("aws", {"FAILED"})
    BY <1>2, Announced
  <2>2. PICK u \in Task : job[u] = "onFailure"
    BY <2>1 DEF CoordInv, BrokerFailureHandled
  <2>3. ~LoopFree
    BY <2>2 DEF LoopFree, Ready
  <2>4. job \in [Task -> Job]
    BY DEF CoordInv, CoordTypeOK
  <2>5. ASSUME NEW t \in Task, CoolDown(t)
        PROVE  FALSE
    <3>1. SetAwsStatus("DISCONNECTED")
      BY <2>5 DEF CoolDown, Terminated
    <3> QED BY <3>1, <2>1 DEF SetAwsStatus, IgnoredTransition
  <2>6. ASSUME NEW t \in Task, OnConnected(t)
        PROVE  job'[u] = "onFailure"
    BY <2>2, <2>4, <2>6 DEF OnConnected, SetJob
  <2>7. CASE UNCHANGED job
    BY <2>2, <2>7
  <2>8. DeliverSignal => FALSE
    BY <2>3 DEF DeliverSignal
  <2>9. (\E c \in Conn : Closed(c) \/ CrtServed(c) \/ TakenOver(c) \/ CrtFaulty(c)) \/ Reported
            => UNCHANGED job
    BY DEF Closed, CrtServed, TakenOver, CrtFaulty, Reported, coordOwn
  <2>10. ASSUME NEW t \in Task, UpdateReturned(t) \/ OnFailure(t)
         PROVE  UNCHANGED job
    BY <2>10 DEF UpdateReturned, OnFailure, coordOwn
  <2>11. ASSUME NEW t \in Task,
                \/ Start(t) \/ CooldownEnds(t) \/ Refresh(t) \/ Prepared(t) \/ NotPrepared(t)
                \/ ApiServed(t) \/ ApiFaulty(t)
         PROVE  FALSE
    BY <2>3, <2>11 DEF Start, CooldownEnds, Refresh, Prepared, NotPrepared, ApiServed, ApiFaulty
  <2> QED BY <2>2, <2>5, <2>6, <2>7, <2>8, <2>9, <2>10, <2>11 DEF CoordNext
<1> QED BY <1>1, <1>2, Kinds

-------------------------------------------------------------------------------
(* A recovery of the REST client that waits, terminates, sleeps or asks    *)
(* for the email is followed by the next one of these, or by a status that *)
(* needs no recovery.                                                      *)
LEMMA RecoveryStep ==
    ASSUME "malformed" \notin Trouble, CoordInv, RecoveryNotLost, CoordNext
    PROVE  RecoveryNotLost'
<1> SUFFICES ASSUME apiStatus' \in Actionable, ~Pending("api", Actionable)'
             PROVE  \E t \in Task : job'[t] \in {"onFailure", "cooldown"} \/ pc'[t] = "email"
  BY DEF RecoveryNotLost
<1>0. job \in [Task -> Job] /\ ApiTypeOK
  BY DEF CoordInv, CoordTypeOK
<1>1. CASE DeliverSignal
  <2>1. UNCHANGED <<apiStatus, pc>>
    BY <1>1 DEF DeliverSignal, apiOwn
  <2>2. \A t \in Task : job[t] \in {"onFailure", "cooldown"} => ~Free(t)
    BY DEF Free
  <2> QED BY <1>1, <2>1, <2>2, Delivered DEF RecoveryNotLost
<1>2. CASE ByApi \/ ByAws
  <2>1. apiStatus' = apiStatus /\ ~Pending("api", Actionable)
    BY <1>2, Announced
  <2>2. PICK u \in Task : job[u] \in {"onFailure", "cooldown"} \/ pc[u] = "email"
    BY <2>1 DEF RecoveryNotLost
  <2>3. CASE UNCHANGED <<job, pc>>
    BY <2>2, <2>3
  <2>4. ASSUME NEW t \in Task, CooldownEnds(t)
        PROVE  pc'[t] = "email"
    BY <2>4, <1>0, InitializeRecovers DEF CooldownEnds, Pending
  <2>5. ASSUME NEW t \in Task, Start(t) \/ Refresh(t) \/ ApiServed(t) \/ ApiFaulty(t)
        PROVE  job'[u] \in {"onFailure", "cooldown"} \/ pc'[u] = "email"
    <3>1. job' = job /\ Turn(t)
      BY <2>5 DEF Start, Refresh, ApiServed, ApiFaulty, coordOwn, Turn, Faulty
    <3>2. CASE u # t
      BY <1>0, <2>2, <3>1, <3>2, OthersStay
    <3>3. CASE u = t /\ pc[t] = "email"
      <4>1. Served(t) \/ (Faulty(t) /\ ~EmailMalformed(t))
        <5>1. CASE ApiFaulty(t)
          BY <3>3, <5>1, Zenon DEF ApiFaulty, Faulty, EmailUnknown, LoginRefused, MotorUnknown, TokenRefused,
              PostFails, PostUnauthorized, EmailMalformed, SetStatus, SetStatusFrom, NoPayload
        <5> QED BY <2>5, <3>3, <5>1 DEF Start, Refresh, Free, ApiServed
      <4>2. apiStatus' = "FAILED" => ~EmailValid(t) /\ ~ResetSaved(t)
        BY <3>3 DEF EmailValid, ResetSaved, NoPayload, SetStatus, SetStatusFrom
      <4>3. Served(t) => EmailValid(t) \/ ResetSaved(t)
        BY <3>3 DEF Served, LoginAccepted, LoginSaved, MotorAnswered, MotorSaved, EncryptWakes,
            AwsTokenSaved, TokenGranted, AwsTokenCleared, DetailsAnswered
      <4> QED BY <1>0, <2>1, <3>3, <4>1, <4>2, <4>3, EmailEnds
    <3> QED BY <2>2, <3>1, <3>2, <3>3
  <2>6. ASSUME NEW t \in Task, OnConnected(t)
        PROVE  job'[u] \in {"onFailure", "cooldown"} \/ pc'[u] = "email"
    <3>1. job[t] = "onConnected" /\ job' = [job EXCEPT ![t] = "connect"]
      BY <2>6 DEF OnConnected, SetJob
    <3>2. pc[u] = "email" => pc'[u] = "email"
      BY <1>0, <2>6 DEF OnConnected, Update, Await, ApiTypeOK, apiOwn
    <3> QED BY <1>0, <2>2, <3>1, <3>2
  <2>7. ASSUME NEW t \in Task, CoolDown(t)
        PROVE  job'[t] = "cooldown"
    BY <1>0, <2>7 DEF CoolDown, SetJob
  <2>8. ASSUME NEW t \in Task, Prepared(t) \/ NotPrepared(t)
        PROVE  job'[u] \in {"onFailure", "cooldown"} \/ pc'[u] = "email"
    <3>1. t \in preparing /\ job' = [job EXCEPT ![t] = "none"] /\ pc' = pc
      BY <2>8 DEF Prepared, NotPrepared, ClientBuilt, BuildFails, SetJob, apiOwn
    <3>2. job[t] = "connect"
      BY <3>1 DEF CoordInv, PreparingConnects
    <3> QED BY <1>0, <2>2, <3>1, <3>2
  <2>9. ASSUME NEW t \in Task, UpdateReturned(t) \/ OnFailure(t)
        PROVE  UNCHANGED <<job, pc>>
    BY <2>9 DEF UpdateReturned, OnFailure, coordOwn, apiOwn
  <2>10. (\E c \in Conn : Closed(c) \/ CrtServed(c) \/ TakenOver(c) \/ CrtFaulty(c)) \/ Reported
             => UNCHANGED <<job, pc>>
    BY DEF Closed, CrtServed, TakenOver, CrtFaulty, Reported, coordOwn, apiOwn
  <2>11. CASE DeliverSignal
    BY <1>1, <2>11
  <2> QED BY <2>2, <2>3, <2>4, <2>5, <2>6, <2>7, <2>8, <2>9, <2>10, <2>11 DEF CoordNext
<1> QED BY <1>1, <1>2, Kinds

-------------------------------------------------------------------------------
(* What makes NoSilentStall so, step by step.  Each client is given the    *)
(* statuses of its own.                                                    *)
LEMMA GivenStep ==
    ASSUME CoordInv, StatusesGiven, CoordNext
    PROVE  StatusesGiven'
<1> USE DEF StatusesGiven
<1>1. CASE DeliverSignal
  BY <1>1 DEF DeliverSignal, apiOwn, awsOwn
<1>2. CASE ByApi
  <2>1. Accounts(signals', apiStatus')
    BY <1>2, TurnAccounts DEF ByApi, CoordInv, ApiInv, ApiTypeOK
  <2> QED BY <1>2, <2>1 DEF ByApi, awsOwn, Accounts, LoginStatus
<1>3. CASE ByAws
  BY <1>3, AwsGiven DEF ByAws, CoordInv, apiOwn
<1> QED BY <1>1, <1>2, <1>3, Kinds

(* A recovery goes on with the disconnection that it has asked for, until  *)
(* its login begins.                                                       *)
LEMMA RecoveryGoesOn ==
    ASSUME CoordInv, CoordNext, NEW u \in Task, job[u] \in {"onFailure", "cooldown"}
    PROVE  \/ CooldownEnds(u)
           \/ /\ job'[u] \in {"onFailure", "cooldown"}
              /\ asked'[u] = asked[u] \/ OnFailure(u)
<1>0. job \in [Task -> Job] /\ asked \in [Task -> Conn \cup {NoConn}]
  BY DEF CoordInv, CoordTypeOK
<1> USE DEF SetJob
<1>1. CASE DeliverSignal
  BY <1>1, Delivered DEF DeliverSignal, Free
<1>2. ASSUME NEW t \in Task, OnConnected(t)
      PROVE  job'[u] = job[u] /\ asked'[u] = asked[u]
  BY <1>0, <1>2 DEF OnConnected
<1>3. ASSUME NEW t \in Task, Prepared(t) \/ NotPrepared(t)
      PROVE  job'[u] = job[u] /\ asked'[u] = asked[u]
  <2>1. job[t] = "connect"
    BY <1>3 DEF Prepared, NotPrepared, ClientBuilt, BuildFails, CoordInv, PreparingConnects
  <2> QED BY <1>0, <1>3, <2>1 DEF Prepared, NotPrepared
<1>4. ASSUME NEW t \in Task, OnFailure(t)
      PROVE  job'[u] = job[u] /\ (asked'[u] = asked[u] \/ u = t)
  BY <1>0, <1>4 DEF OnFailure
<1>5. ASSUME NEW t \in Task, CoolDown(t)
      PROVE  job'[u] \in {job[u], "cooldown"} /\ asked'[u] = asked[u]
  BY <1>0, <1>5 DEF CoolDown
<1>6. ASSUME NEW t \in Task, CooldownEnds(t)
      PROVE  u = t \/ (job'[u] = job[u] /\ asked'[u] = asked[u])
  BY <1>0, <1>6 DEF CooldownEnds
<1>7. ASSUME NEW t \in Task,
             Start(t) \/ UpdateReturned(t) \/ Refresh(t) \/ ApiServed(t) \/ ApiFaulty(t)
      PROVE  UNCHANGED <<job, asked>>
  BY <1>7 DEF Start, UpdateReturned, Refresh, ApiServed, ApiFaulty, coordOwn
<1>8. (\E c \in Conn : Closed(c) \/ CrtServed(c) \/ TakenOver(c) \/ CrtFaulty(c)) \/ Reported
          => UNCHANGED <<job, asked>>
  BY DEF Closed, CrtServed, TakenOver, CrtFaulty, Reported, coordOwn
<1> QED BY <1>1, <1>2, <1>3, <1>4, <1>5, <1>6, <1>7, <1>8 DEF CoordNext

(* One recovery at a time terminates the client: the loop runs it to its   *)
(* sleep before it turns to the signal that starts the next one.           *)
LEMMA TerminatesStep ==
    ASSUME CoordInv, OneTerminates, CoordNext
    PROVE  OneTerminates'
<1>0. job \in [Task -> Job] /\ asked \in [Task -> Conn \cup {NoConn}]
  BY DEF CoordInv, CoordTypeOK
<1> USE DEF SetJob, OneTerminates
<1>1. CASE DeliverSignal
  <2>1. \A t \in Task : job[t] # "onFailure"
    BY <1>1 DEF DeliverSignal, LoopFree, Ready
  <2>2. PICK t \in Task, j \in Job : Free(t) /\ SetJob(t, j)
    BY <1>1 DEF DeliverSignal, Job
  <2> QED BY <1>0, <1>1, <2>1, <2>2 DEF DeliverSignal, awsOwn, Free
<1>2. ASSUME NEW t \in Task, OnConnected(t)
      PROVE  OneTerminates'
  BY <1>0, <1>2 DEF OnConnected, StartAws, awsOwn
<1>3. ASSUME NEW t \in Task, Prepared(t) \/ NotPrepared(t)
      PROVE  OneTerminates'
  <2>1. job[t] = "connect" /\ UNCHANGED terminating
    BY <1>3 DEF Prepared, NotPrepared, ClientBuilt, BuildFails, CoordInv, PreparingConnects
  <2> QED BY <1>0, <1>3, <2>1 DEF Prepared, NotPrepared
<1>4. ASSUME NEW t \in Task, OnFailure(t)
      PROVE  OneTerminates'
  BY <1>0, <1>4 DEF OnFailure, Disconnect
<1>5. ASSUME NEW t \in Task, CoolDown(t)
      PROVE  OneTerminates'
  BY <1>0, <1>5 DEF CoolDown, Terminated
<1>6. ASSUME NEW t \in Task, CooldownEnds(t)
      PROVE  OneTerminates'
  BY <1>0, <1>6 DEF CooldownEnds, awsOwn
<1>7. ASSUME NEW t \in Task,
             Start(t) \/ UpdateReturned(t) \/ Refresh(t) \/ ApiServed(t) \/ ApiFaulty(t)
      PROVE  UNCHANGED <<job, asked, terminating>>
  BY <1>7 DEF Start, UpdateReturned, StartAws, Refresh, ApiServed, ApiFaulty, coordOwn, awsOwn
<1>8. (\E c \in Conn : Closed(c) \/ CrtServed(c) \/ TakenOver(c) \/ CrtFaulty(c)) \/ Reported
          => UNCHANGED <<job, asked, terminating>>
  BY DEF Closed, CrtServed, TakenOver, CrtFaulty, Reported, coordOwn, OnConnectionClosed,
      OnConnectionSuccess, OnConnectionResumed, BecomesClient, Collected,
      OnConnectionInterrupted, OnConnectionFailure, SetReported
<1> QED BY <1>1, <1>2, <1>3, <1>4, <1>5, <1>6, <1>7, <1>8 DEF CoordNext

(* A connection is closed, and its end reported, while the recovery that   *)
(* asked for it still has its login before it: the sleep is the longer.    *)
LEMMA ClosingStep ==
    ASSUME CoordInv, OneTerminates, ClosingIsAsked, CoordNext
    PROVE  ClosingIsAsked'
<1> SUFFICES ASSUME NEW c \in Conn, Ending(c)'
             PROVE  \E t \in Task : asked'[t] = c /\ job'[t] \in {"onFailure", "cooldown"}
  BY DEF ClosingIsAsked, Ending
<1>0. c # NoConn /\ asked \in [Task -> Conn \cup {NoConn}]
  BY NoConnAssumption DEF CoordInv, CoordTypeOK
<1>1. CASE Ending(c)
  <2>1. PICK u \in Task : asked[u] = c /\ job[u] \in {"onFailure", "cooldown"}
    BY <1>1 DEF ClosingIsAsked, Ending
  <2>2. ~CooldownEnds(u)
    <3>1. CooldownEnds(u) => conn[c] # "closing" /\ report.conn # c
      BY <1>0, <2>1 DEF CooldownEnds
    <3> QED BY <1>1, <3>1 DEF Ending
  <2>3. ~OnFailure(u)
    BY <1>0, <2>1 DEF OnFailure, Disconnect, OneTerminates
  <2> QED BY <2>1, <2>2, <2>3, RecoveryGoesOn
<1>2. CASE ~Ending(c)
  <2>1. CASE DeliverSignal \/ ByApi
    <3>1. UNCHANGED awsOwn
      BY <2>1 DEF DeliverSignal, ByApi
    <3> QED BY <1>2, <3>1 DEF Ending, awsOwn
  <2>2. CASE ByAws
    <3>1. Disconnect /\ c = client
      BY <1>2, <2>2, EndingStep DEF ByAws, CoordInv
    <3>2. ASSUME NEW t \in Task, OnFailure(t)
          PROVE  asked'[t] = c /\ job'[t] = "onFailure"
      BY <1>0, <3>1, <3>2 DEF OnFailure
    <3>3. conn' # conn
      BY <1>2, <3>1 DEF Ending, Disconnect
    <3>4. terminating' # terminating
      BY <3>1 DEF Disconnect
    <3>5. ASSUME NEW t \in Task,
                 \/ Start(t) \/ OnConnected(t) \/ UpdateReturned(t) \/ CoolDown(t)
                 \/ CooldownEnds(t) \/ Refresh(t) \/ Prepared(t) \/ NotPrepared(t)
                 \/ ApiServed(t) \/ ApiFaulty(t)
          PROVE  FALSE
      BY <3>1, <3>3, <3>4, <3>5 DEF Start, OnConnected, UpdateReturned, StartAws, CoolDown,
          Terminated, CooldownEnds, Refresh, Prepared, ClientBuilt, NotPrepared, BuildFails,
          ApiServed, ApiFaulty, awsOwn
    <3>6. (\E d \in Conn : Closed(d) \/ CrtServed(d) \/ TakenOver(d) \/ CrtFaulty(d))
              \/ Reported \/ DeliverSignal => FALSE
      BY <3>4 DEF Closed, CrtServed, TakenOver, CrtFaulty, Reported, DeliverSignal, awsOwn,
          OnConnectionClosed, OnConnectionSuccess, OnConnectionResumed, BecomesClient, Collected,
          OnConnectionInterrupted, OnConnectionFailure, SetReported
    <3> QED BY <3>2, <3>5, <3>6 DEF CoordNext
  <2> QED BY <2>1, <2>2, Kinds
<1> QED BY <1>1, <1>2

-------------------------------------------------------------------------------
(* What keeps the broker from being forgotten: the steps of the REST       *)
(* client, ...                                                             *)
LEMMA AwaitedByApi ==
    ASSUME CoordInv, CoordNext, ByApi, NEW u \in Task, Awaiting(u), apiStatus' = "CONNECTED"
    PROVE  \E t \in Task : Awaiting(t)'
<1>0. job \in [Task -> Job] /\ ApiTypeOK /\ preparing' = preparing
  BY DEF CoordInv, CoordTypeOK, ByApi, awsOwn
<1>1. ASSUME NEW t \in Task, CooldownEnds(t)
      PROVE  pc'[t] = "email"
  BY <1>0, <1>1, InitializeAnnounces DEF CooldownEnds
<1>2. ASSUME NEW t \in Task, OnConnected(t)
      PROVE  job'[t] = "connect" /\ t \notin preparing'
  BY <1>0, <1>2 DEF OnConnected, SetJob, CoordInv, PreparingConnects
<1>3. ASSUME NEW t \in Task, Start(t) \/ Refresh(t) \/ ApiServed(t) \/ ApiFaulty(t)
      PROVE  Awaiting(u)'
  <2>1. job' = job /\ Turn(t)
    BY <1>3 DEF Start, Refresh, ApiServed, ApiFaulty, coordOwn, Turn, Faulty
  <2>2. CASE u # t \/ pc[u] # "email"
    BY <1>0, <2>1, <2>2, OthersStay DEF Awaiting
  <2>3. CASE u = t /\ pc[t] = "email"
    <3>1. Served(t) \/ Faulty(t)
      BY <1>3, <2>3 DEF Start, Refresh, Free, ApiServed, ApiFaulty, Faulty
    <3> QED BY <1>0, <2>3, <3>1, EmailEnds DEF Awaiting
  <2> QED BY <2>2, <2>3
<1>4. CASE UNCHANGED <<job, pc>>
  BY <1>0, <1>4 DEF Awaiting
<1>5. ASSUME NEW t \in Task, Prepared(t) \/ NotPrepared(t) \/ OnFailure(t) \/ CoolDown(t)
             \/ UpdateReturned(t)
      PROVE  FALSE
  BY <1>5 DEF ByApi, awsOwn, Prepared, ClientBuilt, NotPrepared, BuildFails, OnFailure, Disconnect,
      CoolDown, Terminated, UpdateReturned, StartAws
<1>6. (\E c \in Conn : Closed(c) \/ CrtServed(c) \/ TakenOver(c) \/ CrtFaulty(c)) \/ Reported
          => UNCHANGED <<job, pc>>
  BY DEF Closed, CrtServed, TakenOver, CrtFaulty, Reported, coordOwn, apiOwn
<1>7. CASE DeliverSignal
  <2>1. ~Free(u) \/ job[u] = "connect" \/ pc[u] = "email"
    BY DEF Awaiting, Free
  <2> QED BY <1>0, <1>7, <2>1, Delivered DEF Awaiting, DeliverSignal, apiOwn, Free
<1> QED BY <1>1, <1>2, <1>3, <1>4, <1>5, <1>6, <1>7 DEF CoordNext, Awaiting

(* ... those of the AWS client, which only terminate and the end of a      *)
(* disconnection disconnect, both for a recovery, ...                      *)
LEMMA AwaitedByAws ==
    ASSUME CoordInv, NoStallInv, CoordNext, ByAws, apiStatus' = "CONNECTED",
           awsStatus' \in {NoStatus, "DISCONNECTED"}, ~Pending("api", {"CONNECTED"})'
    PROVE  \E t \in Task : Awaiting(t)'
<1>0. /\ job \in [Task -> Job] /\ AwsTypeOK /\ UNCHANGED <<apiStatus, pc>>
      /\ ~Pending("api", {"CONNECTED"})
  BY Announced DEF CoordInv, CoordTypeOK, ByAws, apiOwn
<1>1. ASSUME UNCHANGED <<awsStatus, job, preparing>>
      PROVE  \E t \in Task : Awaiting(t)'
  BY <1>0, <1>1 DEF NoStallInv, BrokerAwaited, Awaiting
<1>2. ASSUME NEW t \in Task, OnFailure(t) \/ CoolDown(t)
      PROVE  Awaiting(t)'
  BY <1>0, <1>2 DEF OnFailure, CoolDown, SetJob, Awaiting
<1>3. ASSUME NEW t \in Task, OnConnected(t) \/ UpdateReturned(t)
      PROVE  FALSE
  <2>1. StartAws(t)
    BY <1>0, <1>3 DEF OnConnected, UpdateReturned, Update, Await, CoordInv, CoordTypeOK, ByAws,
                      apiOwn, ApiTypeOK
  <2> QED BY <2>1 DEF StartAws, SetAwsStatus, IgnoredTransition, NoStatus
<1>4. ASSUME NEW t \in Task, Prepared(t) \/ NotPrepared(t)
      PROVE  \E u \in Task : Awaiting(u)'
  <2>1. t \in preparing /\ preparing' = preparing \ {t} /\ job' = [job EXCEPT ![t] = "none"]
    BY <1>4 DEF Prepared, NotPrepared, ClientBuilt, BuildFails, SetJob
  <2>2. awsStatus' = awsStatus
    BY <1>4 DEF Prepared, NotPrepared, ClientBuilt, BuildFails, SetAwsStatus, NoStatus
  <2>3. PICK u \in Task : Awaiting(u)
    BY <1>0, <2>2 DEF NoStallInv, BrokerAwaited
  <2>4. job[t] = "connect"
    BY <2>1 DEF CoordInv, PreparingConnects
  <2> QED BY <1>0, <2>1, <2>3, <2>4 DEF Awaiting
<1>5. CASE Reported
  <2>1. report \in Report /\ UNCHANGED <<job, preparing>>
    BY <1>0, <1>5 DEF Reported, SetReported, CrtFree, coordOwn, AwsTypeOK
  <2>2. report.status = "DISCONNECTED"
    BY <1>5, <2>1 DEF Reported, SetReported, SetAwsStatus, IgnoredTransition, NoStatus, Report
  <2>3. \E t \in Task : job[t] \in {"onFailure", "cooldown"}
    BY <2>1, <2>2 DEF NoStallInv, ClosingIsAsked, Report
  <2> QED BY <2>1, <2>3 DEF Awaiting
<1>6. (\E c \in Conn : Closed(c) \/ CrtServed(c) \/ TakenOver(c) \/ CrtFaulty(c))
          => UNCHANGED <<awsStatus, job, preparing>>
  BY DEF Closed, CrtServed, TakenOver, CrtFaulty, coordOwn, OnConnectionClosed,
      OnConnectionSuccess, OnConnectionResumed, BecomesClient, Collected,
      OnConnectionInterrupted, OnConnectionFailure
<1>7. ASSUME NEW t \in Task,
             \/ Start(t) \/ Refresh(t) \/ ApiServed(t) \/ ApiFaulty(t)
      PROVE  UNCHANGED <<awsStatus, job, preparing>>
  BY <1>7 DEF Start, Refresh, ApiServed, ApiFaulty, coordOwn, awsOwn
<1>8. ASSUME NEW t \in Task, CooldownEnds(t)
      PROVE  pc'[t] = "email"
  BY <1>0, <1>8, InitializeAnnounces DEF CooldownEnds, CoordInv, CoordTypeOK
<1>9. CASE DeliverSignal
  <2>1. \A u \in Task : Awaiting(u) => ~Free(u)
    BY DEF Awaiting, Free
  <2> QED BY <1>0, <1>9, <2>1, Delivered DEF NoStallInv, BrokerAwaited, Awaiting, DeliverSignal, awsOwn
<1> QED
  BY <1>1, <1>2, <1>3, <1>4, <1>5, <1>6, <1>7, <1>8, <1>9 DEF CoordNext, Awaiting

(* ... and the deliveries.                                                 *)
LEMMA AwaitedStep ==
    ASSUME CoordInv, NoStallInv, CoordNext
    PROVE  BrokerAwaited'
<1> SUFFICES ASSUME apiStatus' = "CONNECTED", awsStatus' \in {NoStatus, "DISCONNECTED"},
                    ~Pending("api", {"CONNECTED"})'
             PROVE  \E t \in Task : Awaiting(t)'
  BY DEF BrokerAwaited
<1>1. CASE DeliverSignal
  <2>1. UNCHANGED <<apiStatus, awsStatus, pc, preparing>>
    BY <1>1 DEF DeliverSignal, apiOwn, awsOwn
  <2>2. \A u \in Task : Awaiting(u) => ~Free(u)
    BY DEF Awaiting, Free
  <2> QED BY <1>1, <2>1, <2>2, Delivered DEF NoStallInv, BrokerAwaited, Awaiting
<1>2. CASE ByApi
  <2>1. apiStatus = "CONNECTED" /\ ~Pending("api", {"CONNECTED"}) /\ awsStatus' = awsStatus
    BY <1>2, Announced DEF ByApi, awsOwn
  <2> QED BY <1>2, <2>1, AwaitedByApi DEF NoStallInv, BrokerAwaited
<1>3. CASE ByAws
  BY <1>3, AwaitedByAws
<1> QED BY <1>1, <1>2, <1>3, Kinds

-------------------------------------------------------------------------------
LEMMA CoordStart == CoordInit => CoordInv /\ RecoveryNotLost
<1> SUFFICES ASSUME CoordInit
             PROVE  CoordInv /\ RecoveryNotLost
  OBVIOUS
<1>1. ApiInv /\ AwsInv
  BY ApiStart, AwsStart DEF CoordInit
<1>2. CoordTypeOK /\ PreparingConnects
  BY <1>1 DEF CoordInit, CoordTypeOK, ApiInv, AwsInv, AwsInit, PreparingConnects, Job
<1>3. apiStatus = "None" /\ awsStatus = "None"
  BY DEF CoordInit, ApiInit, AwsInit, NoStatus
<1> QED BY <1>1, <1>2, <1>3 DEF CoordInv, BrokerFailureHandled, RecoveryNotLost, Actionable

LEMMA CoordStep ==
    ASSUME CoordInv, [CoordNext]_coordVars
    PROVE  CoordInv'
<1>1. ApiInv' /\ AwsInv' /\ CoordTypeOK' /\ PreparingConnects'
  BY ClientsStep, OwnStep DEF CoordInv
<1>2. CASE CoordNext
  BY <1>1, <1>2, HandledStep DEF CoordInv
<1>3. CASE UNCHANGED coordVars
  BY <1>1, <1>3 DEF coordVars, coordOwn, awsOwn, CoordInv, BrokerFailureHandled, Pending
<1> QED BY <1>2, <1>3

(* The inductive invariant of the integration, for any number of recoveries *)
(* at once and any trouble outside.                                        *)
THEOREM CoordInvariant == CoordSpec => []CoordInv
  BY CoordStart, CoordStep, PTL DEF CoordSpec

(* The composition keeps the types of both clients and of the coordinator. *)
THEOREM CoordTypeCorrect == CoordSpec => []CoordTypeOK
  BY CoordInvariant, PTL DEF CoordInv

(* What is proved of the clients alone, under any coordinator, holds under *)
(* this one: no status is left behind, the device is announced once, and   *)
(* CONNECTED stands for a connection that can be used.                     *)
THEOREM ClientsUnderCoordinator ==
    CoordSpec => [](NoOrphanStatus /\ DeviceAnnouncedOnce /\ ConnectedClientUsable)
<1>1. CoordInv => NoOrphanStatus /\ DeviceAnnouncedOnce /\ ConnectedClientUsable
  BY DEF CoordInv, ApiInv, AwsInv
<1> QED BY <1>1, CoordInvariant, PTL

(* Every failure of the broker is answered by a recovery.                  *)
THEOREM BrokerFailuresAreHandled == CoordSpec => []BrokerFailureHandled
  BY CoordInvariant, PTL DEF CoordInv

(* No failure of the service is left without a recovery on its way, unless *)
(* the answer to the validation of the email is malformed.                 *)
THEOREM RecoveriesAreNotLost ==
    ASSUME "malformed" \notin Trouble
    PROVE  CoordSpec => []RecoveryNotLost
<1>1. CoordInv /\ RecoveryNotLost /\ [CoordNext]_coordVars => RecoveryNotLost'
  <2> SUFFICES ASSUME CoordInv, RecoveryNotLost, [CoordNext]_coordVars
               PROVE  RecoveryNotLost'
    OBVIOUS
  <2>1. CASE UNCHANGED coordVars
    BY <2>1 DEF coordVars, coordOwn, apiOwn, RecoveryNotLost, Pending
  <2> QED BY <2>1, RecoveryStep
<1> QED BY <1>1, CoordStart, CoordInvariant, PTL DEF CoordSpec

-------------------------------------------------------------------------------
LEMMA NoStallStart == CoordInit => NoStallInv
<1> SUFFICES ASSUME CoordInit
             PROVE  NoStallInv
  OBVIOUS
<1>1. StatusesGiven /\ ConnectingGoesOn /\ BrokerAwaited
  BY DEF CoordInit, ApiInit, AwsInit, StatusesGiven, ConnectingGoesOn, BrokerAwaited, NoStatus
<1>2. OneTerminates /\ ClosingIsAsked
  BY DEF CoordInit, AwsInit, OneTerminates, ClosingIsAsked, NoReport, NoStatus
<1> QED BY <1>1, <1>2 DEF NoStallInv

LEMMA NoStallStep ==
    ASSUME CoordInv, NoStallInv, [CoordNext]_coordVars
    PROVE  NoStallInv'
<1>1. CASE UNCHANGED coordVars
  BY <1>1 DEF coordVars, coordOwn, apiOwn, awsOwn, NoStallInv, StatusesGiven, ConnectingGoesOn,
      OneTerminates, ClosingIsAsked, BrokerAwaited, Awaiting, Pending, CrtFree
<1>2. CASE CoordNext
  <2>1. ConnectingGoesOn'
    <3>1. CASE DeliverSignal \/ ByApi
      BY <3>1 DEF DeliverSignal, ByApi, awsOwn, NoStallInv, ConnectingGoesOn, CrtFree
    <3>2. CASE ByAws
      BY <3>2, ConnectingStep DEF ByAws, CoordInv, NoStallInv
    <3> QED BY <1>2, <3>1, <3>2, Kinds
  <2> QED BY <1>2, <2>1, GivenStep, TerminatesStep, ClosingStep, AwaitedStep DEF NoStallInv
<1> QED BY <1>1, <1>2

LEMMA NoStallInvariant == CoordSpec => []NoStallInv
  BY NoStallStart, NoStallStep, CoordInvariant, PTL DEF CoordSpec

(* Whatever goes wrong outside, and however recoveries, callbacks and      *)
(* terminations interleave: an integration that is quiet, with a connected *)
(* service, is connected to the broker.                                    *)
THEOREM BrokerIsNotForgotten == CoordSpec => []NoSilentStall
<1>1. CoordInv /\ NoStallInv => NoSilentStall
  <2> SUFFICES ASSUME CoordInv, NoStallInv, Quiet, apiStatus = "CONNECTED"
               PROVE  awsStatus = "CONNECTED"
    BY DEF NoSilentStall
  <2>1. \A source, S : ~Pending(source, S)
    BY DEF Quiet, Pending, Waiting
  <2>2. preparing = {}
    BY DEF Quiet, Free, CoordInv, PreparingConnects, CoordTypeOK, AwsTypeOK
  <2>3. awsStatus # "FAILED"
    BY <2>1 DEF Quiet, Free, CoordInv, BrokerFailureHandled
  <2>4. awsStatus # "CONNECTING"
    BY <2>2 DEF Quiet, NoStallInv, ConnectingGoesOn
  <2>5. awsStatus \notin {NoStatus, "DISCONNECTED"}
    BY <2>1 DEF Quiet, Free, NoStallInv, BrokerAwaited, Awaiting
  <2> QED BY <2>3, <2>4, <2>5 DEF NoStallInv, StatusesGiven
<1> QED BY <1>1, CoordInvariant, NoStallInvariant, PTL

(* Nobody stops working while the service is in a state that work could    *)
(* improve, unless the validation of the email is answered with a text.    *)
THEOREM QuietIsSettled ==
    ASSUME "malformed" \notin Trouble
    PROVE  CoordSpec => []QuietMeansSettled
<1>1. CoordInv /\ NoStallInv /\ RecoveryNotLost => QuietMeansSettled
  <2> SUFFICES ASSUME CoordInv, NoStallInv, RecoveryNotLost, Quiet
               PROVE  apiStatus \in {NoStatus, "CONNECTED", "API_NOT_FOUND", "INVALID_ACCOUNT"}
    BY DEF QuietMeansSettled
  <2>1. ~Pending("api", Actionable)
    BY DEF Quiet, Pending, Waiting
  <2>2. apiStatus \notin Actionable
    BY <2>1 DEF Quiet, Free, RecoveryNotLost
  <2>3. apiStatus \notin {"CONNECTING", "TEMPORARY_CONNECTED"}
    BY DEF Quiet, Free, CoordInv, ApiInv, NoOrphanStatus, LoginStage, GenerateStage
  <2> QED BY <2>2, <2>3 DEF NoStallInv, StatusesGiven, Actionable
<1> QED BY <1>1, CoordInvariant, NoStallInvariant, RecoveriesAreNotLost, PTL

===============================================================================
