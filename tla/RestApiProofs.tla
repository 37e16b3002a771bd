----------------------------- MODULE RestApiProofs ----------------------------
(***************************************************************************)
(* Proofs about RestApi for any set of coroutines: nothing bounds how many *)
(* logins and updates are under way, or how they interleave.               *)
(***************************************************************************)
EXTENDS RestApi, DispatcherProofs

(* A status is set to a status, and the queue stays a queue of signals.    *)
LEMMA SetStatusType ==
    ASSUME NEW sent \in Seq(Signal), NEW from,
           NEW s, s \in ConnectivityStatus \/ (s = from /\ s = NoStatus),
           SetStatusFrom(sent, from, s)
    PROVE  apiStatus' \in ConnectivityStatus \cup {NoStatus} /\ DispatcherTypeOK'
<1>1. Changed("api", from, s) \in Seq(Signal)
  <2>1. CASE s \in ConnectivityStatus
    BY <2>1, ChangedType
  <2>2. CASE s = from
    BY <2>2 DEF Changed
  <2> QED BY <2>1, <2>2
<1> QED BY <1>1 DEF SetStatusFrom, DispatcherTypeOK

LEMMA AnnounceType ==
    ASSUME ApiTypeOK, AnnounceDevice
    PROVE  deviceLoaded' \in BOOLEAN /\ announced' \in Nat
<1>1. deviceLoaded' \in BOOLEAN
  BY DEF AnnounceDevice
<1>2. announced' = announced \/ announced' = announced + 1
  BY Zenon DEF AnnounceDevice
<1> QED BY <1>1, <1>2 DEF ApiTypeOK

(* One request that yields nothing keeps the types.                        *)
LEMMA NoPayloadType ==
    ASSUME ApiTypeOK, NEW t \in Task, NEW sent \in Seq(Signal),
           NEW from \in {"FAILED", "API_NOT_FOUND"},
           NoPayload(t, sent, from)
    PROVE  /\ DispatcherTypeOK'
           /\ apiStatus' \in ConnectivityStatus \cup {NoStatus}
           /\ tokens' \in Tokens
           /\ deviceLoaded' \in BOOLEAN
           /\ announced' \in Nat
           /\ pc' \in [Task -> Stage]
<1>1. \A s \in {"FAILED", "INVALID_ACCOUNT", from} :
          SetStatusFrom(sent, from, s) => apiStatus' \in ConnectivityStatus \cup {NoStatus} /\ DispatcherTypeOK'
  BY SetStatusType DEF ConnectivityStatus
<1>2. apiStatus' \in ConnectivityStatus \cup {NoStatus} /\ DispatcherTypeOK'
  BY <1>1 DEF NoPayload
<1>3. pc' \in [Task -> Stage]
  BY DEF NoPayload, ApiTypeOK, Return, Await, Stage, Pause
<1>4. tokens' \in Tokens
  BY DEF NoPayload, ApiTypeOK, Tokens
<1>5. \/ AnnounceDevice
      \/ UNCHANGED <<deviceLoaded, announced>>
  BY Zenon DEF NoPayload
<1>6. deviceLoaded' \in BOOLEAN /\ announced' \in Nat
  BY <1>5, AnnounceType DEF ApiTypeOK
<1> QED BY <1>2, <1>3, <1>4, <1>6

(* A turn of the loop of _get_aws_token keeps the types and the count.     *)
LEMMA TryEncryptType ==
    ASSUME ApiTypeOK, TriesReset, NEW t \in Task, NEW sent \in Seq(Signal),
           NEW from \in ConnectivityStatus \cup {NoStatus},
           tries[t] < EncryptTries, TryEncrypt(t, sent, from)
    PROVE  /\ DispatcherTypeOK'
           /\ apiStatus' \in ConnectivityStatus \cup {NoStatus}
           /\ tokens' \in Tokens
           /\ pc' \in [Task -> Stage]
           /\ tries' \in [Task -> 0 .. EncryptTries]
           /\ TriesReset'
<1>1. \A s \in {"FAILED", from} :
          SetStatusFrom(sent, from, s)
             => apiStatus' \in ConnectivityStatus \cup {NoStatus} /\ DispatcherTypeOK'
  BY SetStatusType DEF ConnectivityStatus
<1>2. apiStatus' \in ConnectivityStatus \cup {NoStatus} /\ DispatcherTypeOK'
  BY <1>1 DEF TryEncrypt
<1>3. pc' \in [Task -> Stage]
  BY DEF TryEncrypt, ApiTypeOK, Return, Await, Stage, Pause
<1>4. tokens' \in Tokens
  BY DEF TryEncrypt, ApiTypeOK, Tokens
<1>5. tries' \in [Task -> 0 .. EncryptTries]
  <2>1. tries[t] + 1 \in 0 .. EncryptTries /\ 0 \in 0 .. EncryptTries
    BY TriesAssumption DEF ApiTypeOK
  <2> QED BY <2>1 DEF TryEncrypt, ApiTypeOK
<1>6. TriesReset'
  BY DEF TryEncrypt, ApiTypeOK, TriesReset, Return, Await
<1> QED BY <1>2, <1>3, <1>4, <1>5, <1>6

LEMMA GenerateAwsTokenType ==
    ASSUME ApiTypeOK, TriesReset, NEW t \in Task, pc[t] # "encrypt",
           GenerateAwsToken(t)
    PROVE  /\ DispatcherTypeOK'
           /\ apiStatus' \in ConnectivityStatus \cup {NoStatus}
           /\ tokens' \in Tokens
           /\ pc' \in [Task -> Stage]
           /\ tries' \in [Task -> 0 .. EncryptTries]
           /\ TriesReset'
<1> DEFINE s == "TEMPORARY_CONNECTED"
           sent == signals \o Changed("api", apiStatus, s)
<1>1. s \in ConnectivityStatus
  BY DEF ConnectivityStatus
<1>2. tries[t] < EncryptTries
  BY TriesAssumption DEF TriesReset
<1>3. CASE TryEncrypt(t, sent, s)
  <2>1. sent \in Seq(Signal)
    <3>1. Changed("api", apiStatus, s) \in Seq(Signal)
      BY <1>1, ChangedType
    <3> QED BY <3>1 DEF ApiTypeOK, DispatcherTypeOK
  <2> QED BY <1>1, <1>2, <1>3, <2>1, TryEncryptType
<1>4. CASE SetStatus(s) /\ Await(t, "token") /\ UNCHANGED <<tokens, tries>>
  <2>1. apiStatus' \in ConnectivityStatus \cup {NoStatus} /\ DispatcherTypeOK'
    BY <1>1, <1>4, SetStatusType DEF SetStatus, ApiTypeOK, DispatcherTypeOK
  <2>2. pc' \in [Task -> Stage] /\ TriesReset'
    BY <1>4 DEF Await, ApiTypeOK, TriesReset, Stage, Post
  <2> QED BY <1>4, <2>1, <2>2 DEF ApiTypeOK
<1> QED BY <1>3, <1>4 DEF GenerateAwsToken


-------------------------------------------------------------------------------
(* A step of one coroutine keeps the types and the count of the tries.     *)
LEMMA CallType ==
    ASSUME ApiTypeOK, TriesReset, NEW t \in Task, Initialize(t) \/ Update(t)
    PROVE  ApiTypeOK' /\ TriesReset'
<1>1. CASE Initialize(t) /\ tokens.api
  BY <1>1, GenerateAwsTokenType DEF Initialize, ApiTypeOK
<1>2. CASE Initialize(t) /\ ~tokens.api
  BY <1>2 DEF Initialize, ApiTypeOK, TriesReset, Await, Stage, Post, DispatcherTypeOK
<1>3. CASE Update(t)
  BY <1>3 DEF Update, ApiTypeOK, TriesReset, Await, Stage, Post, DispatcherTypeOK
<1> QED BY <1>1, <1>2, <1>3

LEMMA ServedType ==
    ASSUME ApiTypeOK, TriesReset, NEW t \in Task, Served(t)
    PROVE  ApiTypeOK' /\ TriesReset'
<1> DEFINE moves(s, stage) ==
        /\ pc[t] # "encrypt"
        /\ SetStatusFrom(signals, apiStatus, s)
        /\ Await(t, stage)
        /\ UNCHANGED <<tokens, deviceLoaded, announced, resetting, tries>>
<1>a. ASSUME NEW s \in ConnectivityStatus \cup {apiStatus}, NEW stage \in Stage \ {"encrypt"},
             moves(s, stage)
      PROVE  ApiTypeOK' /\ TriesReset'
  <2>1. apiStatus' \in ConnectivityStatus \cup {NoStatus} /\ DispatcherTypeOK'
    BY <1>a, SetStatusType DEF ApiTypeOK, DispatcherTypeOK
  <2> QED BY <1>a, <2>1 DEF ApiTypeOK, TriesReset, Await
<1>b. {"CONNECTING", "CONNECTED", "FAILED"} \subseteq ConnectivityStatus
  BY DEF ConnectivityStatus
<1> USE DEF Stage, Post, Pause
<1>1. CASE EmailValid(t)
  <2>1. CASE apiStatus # "INVALID_ACCOUNT"
    <3>1. moves("CONNECTING", "login")
      BY <1>1, <2>1 DEF EmailValid, SetStatus
    <3> HIDE DEF moves
    <3> QED BY <3>1, <1>a, <1>b
  <2>2. CASE apiStatus = "INVALID_ACCOUNT"
    BY <1>1, <2>2 DEF EmailValid, Return, Await, ApiTypeOK, TriesReset, DispatcherTypeOK
  <2> QED BY <2>1, <2>2
<1>2. CASE TokenGranted(t)
  <2>1. \E s \in {"CONNECTED", apiStatus} : moves(s, "idle")
    BY <1>2 DEF TokenGranted, SetStatus, Return
  <2> HIDE DEF moves
  <2> QED BY <2>1, <1>a, <1>b
<1>3. CASE MotorSaved(t)
  BY <1>3, GenerateAwsTokenType DEF MotorSaved, ApiTypeOK
<1>4. CASE EncryptWakes(t)
  <2>1. CASE tries[t] < EncryptTries /\ TryEncrypt(t, signals, apiStatus)
    BY <1>4, <2>1, TryEncryptType DEF EncryptWakes, ApiTypeOK, DispatcherTypeOK
  <2>2. CASE tries[t] = EncryptTries /\ SetStatus("FAILED") /\ Return(t)
             /\ tries' = [tries EXCEPT ![t] = 0] /\ UNCHANGED tokens
    <3>1. apiStatus' \in ConnectivityStatus \cup {NoStatus} /\ DispatcherTypeOK'
      BY <2>2, <1>b, SetStatusType DEF SetStatus, ApiTypeOK, DispatcherTypeOK
    <3>2. tries' \in [Task -> 0 .. EncryptTries]
      BY <2>2, TriesAssumption DEF ApiTypeOK
    <3> QED BY <1>4, <2>2, <3>1, <3>2 DEF EncryptWakes, ApiTypeOK, TriesReset, Return, Await
  <2> QED BY <1>4, <2>1, <2>2 DEF EncryptWakes
<1>5. CASE ResetSaved(t)
  <2> DEFINE sent == signals \o Changed("api", apiStatus, "EXPIRED_TOKEN")
                             \o Changed("api", "EXPIRED_TOKEN", "FAILED")
  <2>1. sent \in Seq(Signal)
    <3>1. Changed("api", apiStatus, "EXPIRED_TOKEN") \in Seq(Signal)
          /\ Changed("api", "EXPIRED_TOKEN", "FAILED") \in Seq(Signal)
      BY ChangedType DEF ConnectivityStatus
    <3> QED BY <3>1 DEF ApiTypeOK, DispatcherTypeOK
  <2>2. NoPayload(t, sent, "FAILED")
    BY <1>5 DEF ResetSaved
  <2> HIDE DEF sent
  <2>3. pc[t] # "encrypt" /\ pc'[t] # "encrypt"
    BY <2>2 DEF NoPayload, Return, Await, ApiTypeOK
  <2>4. \A u \in Task \ {t} : pc'[u] = pc[u]
    BY <2>2 DEF NoPayload, Return, Await, ApiTypeOK
  <2> QED BY <1>5, <2>1, <2>2, <2>3, <2>4, NoPayloadType
          DEF ResetSaved, ApiTypeOK, TriesReset
<1>6. CASE LoginAccepted(t)
  BY <1>6 DEF LoginAccepted, ApiTypeOK, TriesReset, Tokens, Await, DispatcherTypeOK
<1>7. CASE MotorAnswered(t)
  BY <1>7 DEF MotorAnswered, ApiTypeOK, TriesReset, Tokens, Await, DispatcherTypeOK
<1>8. CASE LoginSaved(t) \/ AwsTokenSaved(t) \/ AwsTokenCleared(t)
  BY <1>8 DEF LoginSaved, AwsTokenSaved, AwsTokenCleared, ApiTypeOK, TriesReset, Return, Await,
              DispatcherTypeOK
<1>9. CASE DetailsAnswered(t)
  <2>1. deviceLoaded' \in BOOLEAN /\ announced' \in Nat
    BY <1>9, AnnounceType DEF DetailsAnswered
  <2> QED BY <1>9, <2>1 DEF DetailsAnswered, ApiTypeOK, TriesReset, Return, Await, DispatcherTypeOK
<1> QED BY <1>1, <1>2, <1>3, <1>4, <1>5, <1>6, <1>7, <1>8, <1>9 DEF Served

LEMMA FaultyType ==
    ASSUME ApiTypeOK, TriesReset, NEW t \in Task, Faulty(t)
    PROVE  ApiTypeOK' /\ TriesReset'
<1> DEFINE ends(s) ==
        /\ pc[t] # "encrypt"
        /\ SetStatusFrom(signals, apiStatus, s)
        /\ Return(t)
        /\ UNCHANGED <<tokens, deviceLoaded, announced, resetting, tries>>
<1>a. ASSUME NEW s \in ConnectivityStatus \cup {apiStatus}, ends(s)
      PROVE  ApiTypeOK' /\ TriesReset'
  <2>1. apiStatus' \in ConnectivityStatus \cup {NoStatus} /\ DispatcherTypeOK'
    BY <1>a, SetStatusType DEF ApiTypeOK, DispatcherTypeOK
  <2> QED BY <1>a, <2>1 DEF ApiTypeOK, TriesReset, Return, Await, Stage
<1>b. {"INVALID_ACCOUNT", "INVALID_CREDENTIALS", "FAILED"} \subseteq ConnectivityStatus
  BY DEF ConnectivityStatus
<1>1. CASE EmailUnknown(t) \/ EmailMalformed(t) \/ LoginRefused(t)
  <2>1. \E s \in {"INVALID_ACCOUNT", "INVALID_CREDENTIALS", "FAILED"} : ends(s)
    BY <1>1 DEF EmailUnknown, EmailMalformed, LoginRefused, SetStatus
  <2> HIDE DEF ends
  <2> QED BY <2>1, <1>a, <1>b
<1>2. CASE MotorUnknown(t)
  <2>1. CASE apiStatus = "TEMPORARY_CONNECTED"
    BY <1>2, <2>1, GenerateAwsTokenType DEF MotorUnknown, ApiTypeOK
  <2>2. CASE apiStatus # "TEMPORARY_CONNECTED"
    <3>1. \E s \in {"FAILED", apiStatus} : ends(s)
      BY <1>2, <2>2 DEF MotorUnknown, SetStatus
    <3> HIDE DEF ends
    <3> QED BY <3>1, <1>a, <1>b
  <2> QED BY <2>1, <2>2
<1>3. CASE TokenRefused(t)
  <2>1. CASE apiStatus = "TEMPORARY_CONNECTED"
    <3>1. SetStatus("FAILED") /\ tokens' = [tokens EXCEPT !.aws = FALSE] /\ Await(t, "clearAws")
      BY <1>3, <2>1 DEF TokenRefused
    <3>2. apiStatus' \in ConnectivityStatus \cup {NoStatus} /\ DispatcherTypeOK'
      BY <3>1, <1>b, SetStatusType DEF SetStatus, ApiTypeOK, DispatcherTypeOK
    <3>3. tokens' \in Tokens
      BY <3>1 DEF ApiTypeOK, Tokens
    <3>4. pc' \in [Task -> Stage] /\ TriesReset'
      BY <1>3, <3>1 DEF TokenRefused, ApiTypeOK, TriesReset, Await, Stage, Pause
    <3> QED BY <1>3, <3>2, <3>3, <3>4 DEF TokenRefused, ApiTypeOK
  <2>2. CASE apiStatus # "TEMPORARY_CONNECTED"
    BY <1>3, <2>2 DEF TokenRefused, ApiTypeOK, TriesReset, Return, Await, Stage, DispatcherTypeOK
  <2> QED BY <2>1, <2>2
<1>4. CASE PostFails(t)
  <2>1. PICK s \in {"FAILED", "API_NOT_FOUND"} :
            NoPayload(t, signals \o Changed("api", apiStatus, s), s)
    BY <1>4 DEF PostFails
  <2> DEFINE sent == signals \o Changed("api", apiStatus, s)
  <2>2. sent \in Seq(Signal)
    <3>1. Changed("api", apiStatus, s) \in Seq(Signal)
      BY ChangedType DEF ConnectivityStatus
    <3> QED BY <3>1 DEF ApiTypeOK, DispatcherTypeOK
  <2>3. NoPayload(t, sent, s)
    BY <2>1
  <2> HIDE DEF sent
  <2>4. pc[t] # "encrypt" /\ pc'[t] # "encrypt" /\ \A u \in Task \ {t} : pc'[u] = pc[u]
    BY <2>3 DEF NoPayload, Return, Await, ApiTypeOK
  <2> QED BY <1>4, <2>2, <2>3, <2>4, NoPayloadType DEF PostFails, ApiTypeOK, TriesReset
<1>5. CASE PostUnauthorized(t)
  BY <1>5 DEF PostUnauthorized, ApiTypeOK, TriesReset, NoTokens, Tokens, DispatcherTypeOK
<1> QED BY <1>1, <1>2, <1>3, <1>4, <1>5 DEF Faulty

LEMMA TypeStep ==
    ASSUME ApiTypeOK, TriesReset, NEW t \in Task, Turn(t)
    PROVE  ApiTypeOK' /\ TriesReset'
  BY CallType, ServedType, FaultyType DEF Turn


-------------------------------------------------------------------------------
(* A step of one coroutine moves its own stage only.  It may set CONNECTING *)
(* only when it goes on in a login, TEMPORARY_CONNECTED only when it goes  *)
(* on to generate a token, and it may not leave the stage a status belongs *)
(* to without replacing that status.                                       *)
LEMMA OrphanKept ==
    ASSUME ApiTypeOK, NoOrphanStatus, NEW t \in Task, NEW stage \in Stage, Await(t, stage),
           apiStatus' = "CONNECTING" =>
               stage \in LoginStage \/ (apiStatus' = apiStatus /\ pc[t] \notin LoginStage),
           apiStatus' = "TEMPORARY_CONNECTED" =>
               stage \in GenerateStage \/ (apiStatus' = apiStatus /\ pc[t] \notin GenerateStage)
    PROVE  NoOrphanStatus'
<1>1. pc'[t] = stage /\ \A u \in Task \ {t} : pc'[u] = pc[u]
  BY DEF Await, ApiTypeOK
<1>2. ASSUME apiStatus' = "CONNECTING"
      PROVE  \E u \in Task : pc'[u] \in LoginStage
  BY <1>1, <1>2 DEF NoOrphanStatus
<1>3. ASSUME apiStatus' = "TEMPORARY_CONNECTED"
      PROVE  \E u \in Task : pc'[u] \in GenerateStage
  BY <1>1, <1>3 DEF NoOrphanStatus
<1> QED BY <1>2, <1>3 DEF NoOrphanStatus

LEMMA GenerateOrphan ==
    ASSUME ApiTypeOK, NoOrphanStatus, NEW t \in Task, GenerateAwsToken(t)
    PROVE  NoOrphanStatus'
<1> USE DEF SetStatus, SetStatusFrom, Return, Stage, Post, Pause, GenerateStage, LoginStage
<1>1. CASE tokens.aws
  BY <1>1, OrphanKept DEF GenerateAwsToken
<1>2. CASE ~tokens.aws
  BY <1>2, OrphanKept DEF GenerateAwsToken, TryEncrypt
<1> QED BY <1>1, <1>2

(* A request that yields nothing leaves neither of the two statuses.       *)
LEMMA NoPayloadOrphan ==
    ASSUME ApiTypeOK, NoOrphanStatus, NEW t \in Task, NEW sent,
           NEW from \in {"FAILED", "API_NOT_FOUND"}, NoPayload(t, sent, from)
    PROVE  NoOrphanStatus'
BY DEF NoPayload, SetStatusFrom, NoOrphanStatus

LEMMA ServedOrphan ==
    ASSUME ApiTypeOK, NoOrphanStatus, NEW t \in Task, Served(t)
    PROVE  NoOrphanStatus'
<1> USE DEF SetStatus, SetStatusFrom, Return, Stage, Post, Pause, LoginStage, GenerateStage
<1>1. CASE EmailValid(t)
  BY <1>1, OrphanKept DEF EmailValid
<1>2. CASE LoginAccepted(t) \/ LoginSaved(t) \/ MotorAnswered(t)
  BY <1>2, OrphanKept DEF LoginAccepted, LoginSaved, MotorAnswered
<1>3. CASE MotorSaved(t)
  BY <1>3, GenerateOrphan DEF MotorSaved
<1>4. CASE EncryptWakes(t)
  <2>1. CASE TryEncrypt(t, signals, apiStatus)
    BY <1>4, <2>1, OrphanKept DEF EncryptWakes, TryEncrypt
  <2>2. CASE SetStatus("FAILED")
    BY <2>2 DEF NoOrphanStatus
  <2> QED BY <1>4, <2>1, <2>2 DEF EncryptWakes
<1>5. CASE AwsTokenSaved(t) \/ AwsTokenCleared(t)
  BY <1>5, OrphanKept DEF AwsTokenSaved, AwsTokenCleared
<1>6. CASE TokenGranted(t)
  BY <1>6, OrphanKept DEF TokenGranted
<1>7. CASE DetailsAnswered(t)
  BY <1>7, OrphanKept DEF DetailsAnswered
<1>8. CASE ResetSaved(t)
  BY <1>8, NoPayloadOrphan DEF ResetSaved
<1> QED BY <1>1, <1>2, <1>3, <1>4, <1>5, <1>6, <1>7, <1>8 DEF Served

LEMMA FaultyOrphan ==
    ASSUME ApiTypeOK, NoOrphanStatus, NEW t \in Task, Faulty(t)
    PROVE  NoOrphanStatus'
<1> USE DEF SetStatus, SetStatusFrom, Return, Stage, Post, Pause, LoginStage, GenerateStage
<1>1. CASE EmailUnknown(t) \/ EmailMalformed(t) \/ LoginRefused(t)
  BY <1>1 DEF EmailUnknown, EmailMalformed, LoginRefused, NoOrphanStatus
<1>2. CASE MotorUnknown(t)
  <2>1. CASE apiStatus = "TEMPORARY_CONNECTED"
    BY <1>2, <2>1, GenerateOrphan DEF MotorUnknown
  <2>2. CASE apiStatus # "TEMPORARY_CONNECTED"
    BY <1>2, <2>2 DEF MotorUnknown, NoOrphanStatus
  <2> QED BY <2>1, <2>2
<1>3. CASE TokenRefused(t)
  <2>1. CASE apiStatus = "TEMPORARY_CONNECTED"
    BY <1>3, <2>1 DEF TokenRefused, NoOrphanStatus
  <2>2. CASE apiStatus # "TEMPORARY_CONNECTED"
    BY <1>3, <2>2, OrphanKept DEF TokenRefused
  <2> QED BY <2>1, <2>2
<1>4. CASE PostFails(t)
  BY <1>4, NoPayloadOrphan DEF PostFails
<1>5. CASE PostUnauthorized(t)
  BY <1>5 DEF PostUnauthorized, NoOrphanStatus
<1> QED BY <1>1, <1>2, <1>3, <1>4, <1>5 DEF Faulty

LEMMA OrphanStep ==
    ASSUME ApiTypeOK, NoOrphanStatus, NEW t \in Task, Turn(t)
    PROVE  NoOrphanStatus'
<1>1. CASE Initialize(t) /\ tokens.api
  BY <1>1, GenerateOrphan DEF Initialize
<1>2. CASE Initialize(t) /\ ~tokens.api
  BY <1>2, OrphanKept DEF Initialize, Stage, Post, LoginStage, GenerateStage
<1>3. CASE Update(t)
  BY <1>3, OrphanKept DEF Update, Stage, Post, LoginStage, GenerateStage
<1> QED BY <1>1, <1>2, <1>3, ServedOrphan, FaultyOrphan DEF Turn

-------------------------------------------------------------------------------
(* Only AnnounceDevice touches the announcement.                           *)
LEMMA OnceStep ==
    ASSUME ApiTypeOK, DeviceAnnouncedOnce, NEW t \in Task, Turn(t)
    PROVE  DeviceAnnouncedOnce'
<1>1. CASE AnnounceDevice
  <2>1. CASE deviceLoaded
    BY <1>1, <2>1 DEF AnnounceDevice, DeviceAnnouncedOnce
  <2>2. CASE ~deviceLoaded
    BY <1>1, <2>2 DEF AnnounceDevice, DeviceAnnouncedOnce
  <2> QED BY <2>1, <2>2
<1>2. CASE UNCHANGED <<deviceLoaded, announced>>
  BY <1>2 DEF DeviceAnnouncedOnce
<1>3. ASSUME Served(t)
      PROVE  AnnounceDevice \/ UNCHANGED <<deviceLoaded, announced>>
  BY <1>3, Zenon DEF Served, EmailValid, LoginAccepted, LoginSaved, MotorAnswered, MotorSaved,
      EncryptWakes, AwsTokenSaved, TokenGranted, AwsTokenCleared, DetailsAnswered, ResetSaved,
      NoPayload
<1>4. ASSUME Faulty(t)
      PROVE  AnnounceDevice \/ UNCHANGED <<deviceLoaded, announced>>
  BY <1>4, Zenon DEF Faulty, EmailUnknown, EmailMalformed, LoginRefused, MotorUnknown,
      TokenRefused, PostFails, PostUnauthorized, NoPayload
<1>5. ASSUME Initialize(t) \/ Update(t)
      PROVE  UNCHANGED <<deviceLoaded, announced>>
  BY <1>5 DEF Initialize, Update
<1> QED BY <1>1, <1>2, <1>3, <1>4, <1>5 DEF Turn

(* A turn of a coroutine keeps the inductive invariant, and so does a step *)
(* that leaves the client alone.                                           *)
LEMMA TurnStep ==
    ASSUME ApiInv, NEW t \in Task, Turn(t)
    PROVE  ApiInv'
  BY TypeStep, OrphanStep, OnceStep DEF ApiInv

LEMMA ApiUntouched ==
    ASSUME ApiInv, DispatcherTypeOK', UNCHANGED apiOwn
    PROVE  ApiInv'
  BY DEF apiOwn, ApiInv, ApiTypeOK, TriesReset, NoOrphanStatus, DeviceAnnouncedOnce

(* At the start nothing is under way.                                      *)
LEMMA ApiStart == ApiInit => ApiInv
<1> SUFFICES ASSUME ApiInit PROVE ApiInv
  OBVIOUS
<1>1. ApiTypeOK
  <2>1. DispatcherTypeOK
    BY DEF ApiInit, DispatcherInit, DispatcherTypeOK
  <2>2. tokens \in Tokens /\ deviceLoaded \in BOOLEAN /\ announced \in Nat
    BY DEF ApiInit, StoredTokens
  <2>3. pc \in [Task -> Stage] /\ tries \in [Task -> 0 .. EncryptTries]
    BY TriesAssumption DEF ApiInit, Stage
  <2> QED BY <2>1, <2>2, <2>3 DEF ApiInit, ApiTypeOK
<1>2. TriesReset /\ NoOrphanStatus /\ DeviceAnnouncedOnce
  BY DEF ApiInit, TriesReset, NoOrphanStatus, DeviceAnnouncedOnce, NoStatus
<1> QED BY <1>1, <1>2 DEF ApiInv

-------------------------------------------------------------------------------
(* The inductive invariant of the client under any coordinator: any number *)
(* of logins and updates at once, any answers, any delay of the signals.   *)
THEOREM ApiInvariant == ApiSpec => []ApiInv
<1>1. ApiInv /\ [ApiNext]_apiVars => ApiInv'
  <2> SUFFICES ASSUME ApiInv, [ApiNext]_apiVars PROVE ApiInv'
    OBVIOUS
  <2>1. CASE Deliver \/ UNCHANGED apiVars
    <3>1. DispatcherTypeOK' /\ UNCHANGED apiOwn
      BY <2>1, TailType DEF Deliver, apiVars, ApiInv, ApiTypeOK, DispatcherTypeOK
    <3> QED BY <3>1, ApiUntouched
  <2> QED BY <2>1, TurnStep DEF ApiNext
<1> QED BY <1>1, ApiStart, PTL DEF ApiSpec

(* The state of the client always has the types the code gives it.         *)
THEOREM ApiTypeCorrect == ApiSpec => []ApiTypeOK
BY ApiInvariant, PTL DEF ApiInv

(* CONNECTING and TEMPORARY_CONNECTED are never left behind by a coroutine *)
(* that ended: whatever else runs, someone is still working on them.       *)
THEOREM NoStatusIsOrphaned == ApiSpec => []NoOrphanStatus
BY ApiInvariant, PTL DEF ApiInv

(* However many updates overlap, the device is announced once.             *)
THEOREM DeviceIsAnnouncedOnce == ApiSpec => []DeviceAnnouncedOnce
BY ApiInvariant, PTL DEF ApiInv


-------------------------------------------------------------------------------
(* Calls one after the other: the tokens that a call has stored.           *)
LEMMA OneGenerates ==
    ASSUME OneAtATime, ApiTypeOK, OneCallInv, NEW t \in Task,
           t \notin resetting, resetting' = resetting, GenerateAwsToken(t)
    PROVE  OneCallInv'
<1> USE DEF SetStatus, SetStatusFrom, Return, Await, ApiTypeOK, OneAtATime
<1>1. tokens' \in Tokens /\ (tokens'.aws => tokens'.motor) /\ (tokens'.motor => tokens'.api)
  BY DEF GenerateAwsToken, TryEncrypt, OneCallInv, Tokens
<1>2. apiStatus' # "CONNECTED"
  BY DEF GenerateAwsToken, TryEncrypt
<1>3. \/ pc'[t] \in {"token", "saveAws"} /\ tokens'.aws
      \/ pc'[t] = "encrypt" /\ tokens'.motor
      \/ pc'[t] = "idle"
  BY DEF GenerateAwsToken, TryEncrypt, Tokens
<1>4. resetting' = {}
  OBVIOUS
<1> QED BY <1>1, <1>2, <1>3, <1>4 DEF OneCallInv, ConnectedWithTokens


LEMMA OneServed ==
    ASSUME OneAtATime, ApiTypeOK, OneCallInv, NEW t \in Task, Served(t)
    PROVE  OneCallInv'
<1> USE DEF SetStatus, SetStatusFrom, Return, Await, ApiTypeOK, OneAtATime, Post
<1>1. CASE EmailValid(t)
  BY <1>1 DEF EmailValid, OneCallInv, ConnectedWithTokens
<1>2. CASE LoginAccepted(t) \/ MotorAnswered(t)
  BY <1>2 DEF LoginAccepted, MotorAnswered, OneCallInv, ConnectedWithTokens, Tokens, NoTokens
<1>3. CASE LoginSaved(t) \/ AwsTokenSaved(t) \/ AwsTokenCleared(t)
  BY <1>3 DEF LoginSaved, AwsTokenSaved, AwsTokenCleared, OneCallInv, ConnectedWithTokens
<1>4. CASE MotorSaved(t)
  <2>1. CASE t \notin resetting
    BY <1>4, <2>1, OneGenerates DEF MotorSaved
  <2>2. CASE t \in resetting
    BY <1>4, <2>2 DEF MotorSaved, OneCallInv, Post
  <2> QED BY <2>1, <2>2
<1>5. CASE EncryptWakes(t)
  <2>1. tokens' \in Tokens /\ (tokens'.aws => tokens'.motor) /\ (tokens'.motor => tokens'.api)
    BY <1>5 DEF EncryptWakes, TryEncrypt, OneCallInv, Tokens
  <2>2. \/ pc'[t] = "saveAws" /\ tokens'.aws
        \/ pc'[t] = "encrypt" /\ tokens'.motor
        \/ pc'[t] = "idle"
    BY <1>5 DEF EncryptWakes, TryEncrypt, Tokens
  <2> QED BY <1>5, <2>1, <2>2
          DEF EncryptWakes, TryEncrypt, OneCallInv, ConnectedWithTokens, Tokens, NoTokens
<1>6. CASE TokenGranted(t)
  BY <1>6 DEF TokenGranted, OneCallInv, ConnectedWithTokens
<1>7. CASE DetailsAnswered(t)
  BY <1>7 DEF DetailsAnswered, OneCallInv, ConnectedWithTokens
<1>8. CASE ResetSaved(t)
  <2>1. tokens = NoTokens /\ resetting' = {}
    BY <1>8 DEF ResetSaved, OneCallInv
  <2>2. tokens' = NoTokens
    BY <1>8, <2>1 DEF ResetSaved, NoPayload, NoTokens
  <2>3. apiStatus' # "CONNECTED" /\ pc'[t] \in {"idle", "saveMotor"}
    BY <1>8 DEF ResetSaved, NoPayload
  <2> QED BY <2>1, <2>2, <2>3 DEF OneCallInv, ConnectedWithTokens, NoTokens
<1> QED BY <1>1, <1>2, <1>3, <1>4, <1>5, <1>6, <1>7, <1>8 DEF Served

LEMMA OneFaulty ==
    ASSUME OneAtATime, ApiTypeOK, OneCallInv, NEW t \in Task, Faulty(t)
    PROVE  OneCallInv'
<1> USE DEF SetStatus, SetStatusFrom, Return, Await, ApiTypeOK, OneAtATime
<1>1. CASE EmailUnknown(t) \/ EmailMalformed(t) \/ LoginRefused(t)
  BY <1>1 DEF EmailUnknown, EmailMalformed, LoginRefused, OneCallInv, ConnectedWithTokens
<1>2. CASE MotorUnknown(t)
  <2>1. CASE apiStatus = "TEMPORARY_CONNECTED"
    BY <1>2, <2>1, OneGenerates DEF MotorUnknown
  <2>2. CASE apiStatus # "TEMPORARY_CONNECTED"
    BY <1>2, <2>2 DEF MotorUnknown, OneCallInv, ConnectedWithTokens
  <2> QED BY <2>1, <2>2
<1>3. CASE TokenRefused(t)
  BY <1>3 DEF TokenRefused, OneCallInv, ConnectedWithTokens, Tokens, NoTokens
<1>4. CASE PostFails(t)
  <2>1. apiStatus' # "CONNECTED" /\ resetting' = {} /\ pc'[t] \in {"idle", "saveMotor"}
    BY <1>4 DEF PostFails, NoPayload
  <2>2. tokens' \in Tokens /\ (tokens'.aws => tokens'.motor) /\ (tokens'.motor => tokens'.api)
    BY <1>4 DEF PostFails, NoPayload, OneCallInv, Tokens
  <2> QED BY <2>1, <2>2 DEF OneCallInv, ConnectedWithTokens
<1>5. CASE PostUnauthorized(t)
  BY <1>5 DEF PostUnauthorized, OneCallInv, ConnectedWithTokens, NoTokens, Post
<1> QED BY <1>1, <1>2, <1>3, <1>4, <1>5 DEF Faulty

LEMMA OneStep ==
    ASSUME OneAtATime, ApiInv, OneCallInv, [ApiNext]_apiVars
    PROVE  OneCallInv'
<1>1. CASE UNCHANGED apiVars \/ Deliver
  BY <1>1 DEF Deliver, apiVars, apiOwn, OneCallInv, ConnectedWithTokens
<1>2. ASSUME NEW t \in Task, Initialize(t) \/ Update(t)
      PROVE  OneCallInv'
  <2>1. CASE Initialize(t) /\ tokens.api
    <3>1. CASE t \notin resetting
      BY <2>1, <3>1, OneGenerates DEF Initialize, ApiInv
    <3>2. CASE t \in resetting
      BY <2>1, <3>2 DEF Initialize, OneCallInv, Post
    <3> QED BY <3>1, <3>2
  <2>2. CASE Initialize(t) /\ ~tokens.api
    <3>1. tokens = NoTokens
      BY <2>2 DEF OneCallInv, NoTokens, Tokens, ApiInv, ApiTypeOK
    <3> QED BY <2>2, <3>1 DEF Initialize, Await, OneCallInv, ConnectedWithTokens,
                              OneAtATime, ApiInv, ApiTypeOK, Post
  <2>3. CASE Update(t)
    BY <2>3 DEF Update, Await, OneCallInv, ConnectedWithTokens, OneAtATime, ApiInv, ApiTypeOK, Post
  <2> QED BY <1>2, <2>1, <2>2, <2>3
<1> QED BY <1>1, <1>2, OneServed, OneFaulty DEF ApiNext, Turn, ApiInv

(* When calls do not overlap, CONNECTED means that all tokens are stored,  *)
(* through any sequence of failures, 401 resets and restarts.              *)
THEOREM ConnectedMeansTokens ==
    ASSUME OneAtATime
    PROVE  ApiSpec => []ConnectedWithTokens
<1>1. ApiInit => OneCallInv
  BY DEF ApiInit, StoredTokens, OneCallInv, ConnectedWithTokens, NoStatus
<1>2. ApiInv /\ OneCallInv /\ [ApiNext]_apiVars => OneCallInv'
  BY OneStep
<1>3. OneCallInv => ConnectedWithTokens
  BY DEF OneCallInv
<1> QED BY <1>1, <1>2, <1>3, ApiInvariant, PTL DEF ApiSpec

===============================================================================
