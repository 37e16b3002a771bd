---------------------------- MODULE AwsClientProofs ---------------------------
(***************************************************************************)
(* Proofs about AwsClient for any set of connections: however many are     *)
(* left over from earlier attempts, and whatever their callbacks report.   *)
(***************************************************************************)
EXTENDS AwsClient, DispatcherProofs

(* The status becomes the new one or stays, and the signal is sent.        *)
LEMMA SetAwsStatusType ==
    ASSUME AwsTypeOK, NEW s \in ConnectivityStatus, SetAwsStatus(s)
    PROVE  /\ awsStatus' \in ConnectivityStatus \cup {NoStatus}
           /\ awsStatus' = s \/ (awsStatus' = awsStatus /\ awsStatus = "DISCONNECTED")
           /\ DispatcherTypeOK'
<1>1. PICK new : /\ new = IF IgnoredTransition(awsStatus, s) THEN awsStatus ELSE s
                 /\ awsStatus' = new
                 /\ signals' = signals \o Changed("aws", awsStatus, new)
  BY DEF SetAwsStatus
<1>2. DispatcherTypeOK'
  BY <1>1, SendType DEF AwsTypeOK
<1> QED BY <1>1, <1>2 DEF AwsTypeOK, IgnoredTransition

(* The statuses that the client is given are statuses.                     *)
LEMMA Given ==
    {"CONNECTING", "CONNECTED", "FAILED", "DISCONNECTED"} \subseteq ConnectivityStatus
  BY DEF ConnectivityStatus

(* The steps of the event loop.                                            *)
LEMMA LoopStep ==
    ASSUME AwsInv, Disconnect \/ Terminated \/ \E t \in Task : Loop(t)
    PROVE  AwsInv'
<1> USE DEF AwsInv, AwsTypeOK, ConnectedClientUsable, SuccessIsOfClient
<1>1. ASSUME NEW t \in Task, StartAws(t)
      PROVE  AwsInv'
  BY <1>1, SetAwsStatusType, Given DEF StartAws
<1>2. ASSUME NEW t \in Task, ClientBuilt(t)
      PROVE  AwsInv'
  <2>1. conn' \in [Conn -> ConnState] /\ preparing' \subseteq Task /\ DispatcherTypeOK'
    BY <1>2 DEF ClientBuilt, Move, ConnState, DispatcherTypeOK
  <2>2. client # NoConn => conn'[client] = conn[client]
    BY <1>2 DEF ClientBuilt, Move
  <2>3. report.status = "CONNECTED" => client # NoConn
    BY NoConnAssumption DEF Report, NoReport, NoStatus
  <2> QED BY <1>2, <2>1, <2>2, <2>3 DEF ClientBuilt
<1>3. ASSUME NEW t \in Task, BuildFails(t)
      PROVE  AwsInv'
  BY <1>3, SetAwsStatusType, Given DEF BuildFails
<1>4. CASE Disconnect
  <2>1. conn' \in [Conn -> ConnState] /\ DispatcherTypeOK'
    BY <1>4 DEF Disconnect, ConnState, DispatcherTypeOK
  <2>2. client # NoConn /\ conn[client] \in {"up", "closing"} => conn'[client] \in {"up", "closing"}
    BY <1>4 DEF Disconnect
  <2>3. report.status = "CONNECTED" => client # NoConn
    BY NoConnAssumption DEF Report, NoReport, NoStatus
  <2> QED BY <1>4, <2>1, <2>2, <2>3 DEF Disconnect
<1>5. CASE Terminated
  BY <1>5, SetAwsStatusType, Given DEF Terminated
<1> QED BY <1>1, <1>2, <1>3, <1>4, <1>5 DEF Loop

(* The end of a callback.                                                  *)
LEMMA ReportStep ==
    ASSUME AwsInv, SetReported
    PROVE  AwsInv'
<1> USE DEF AwsInv, AwsTypeOK, ConnectedClientUsable, SuccessIsOfClient
<1>1. report' = NoReport /\ report \in Report
  BY DEF SetReported, CrtFree
<1>2. CASE report.status = "FAILED"
  <2>1. [source |-> "aws", status |-> "FAILED"] \in Signal
    BY Given DEF Signal
  <2>2. awsStatus' = "FAILED" /\ DispatcherTypeOK'
    BY <1>2, <2>1 DEF SetReported, DispatcherTypeOK
  <2> QED BY <1>1, <2>2, Given DEF SetReported, NoReport, NoStatus
<1>3. CASE report.status # "FAILED"
  <2>1. report.status \in {"CONNECTED", "DISCONNECTED"} /\ SetAwsStatus(report.status)
    BY <1>1, <1>3 DEF SetReported, Report
  <2>2. /\ awsStatus' \in ConnectivityStatus \cup {NoStatus} /\ DispatcherTypeOK'
        /\ awsStatus' = "CONNECTED" => report.status = "CONNECTED"
    BY <2>1, SetAwsStatusType, Given
  <2>3. report.status = "CONNECTED" => client # NoConn
    BY <1>1, NoConnAssumption DEF Report
  <2> QED BY <1>1, <2>2, <2>3 DEF SetReported, NoReport, NoStatus
<1> QED BY <1>2, <1>3

(* The callbacks of a connection.                                          *)
LEMMA CrtStepInv ==
    ASSUME AwsInv, NEW c \in Conn, Crt(c)
    PROVE  AwsInv'
<1> USE DEF AwsInv, AwsTypeOK, ConnectedClientUsable, SuccessIsOfClient
<1>0. c # NoConn
  BY NoConnAssumption
<1>1. CASE BecomesClient(c)
  BY <1>0, <1>1 DEF BecomesClient, CrtFree, NoReport, NoStatus, Move, ConnState, Report, DispatcherTypeOK
<1>2. CASE OnConnectionFailure(c)
  <2>1. report' \in Report \cup {NoReport} /\ report'.status # "CONNECTED"
    BY <1>2 DEF OnConnectionFailure, DecideFailed, Report, NoReport, NoStatus
  <2>2. conn' \in [Conn -> ConnState] /\ DispatcherTypeOK'
    BY <1>2 DEF OnConnectionFailure, Move, ConnState, DispatcherTypeOK
  <2>3. awsStatus = "CONNECTED" => client # NoConn /\ conn'[client] = conn[client]
                                   /\ conn[client] \in {"up", "closing"}
    BY <1>2 DEF OnConnectionFailure, CrtFree, NoReport, NoStatus, Move
  <2> QED BY <1>2, <2>1, <2>2, <2>3 DEF OnConnectionFailure
<1>3. CASE OnConnectionInterrupted(c)
  <2>1. report' \in Report \cup {NoReport} /\ report'.status # "CONNECTED"
    BY <1>3 DEF OnConnectionInterrupted, DecideFailed, Report, NoReport, NoStatus
  <2>2. conn' \in [Conn -> ConnState] /\ DispatcherTypeOK'
    BY <1>3 DEF OnConnectionInterrupted, Move, ConnState, DispatcherTypeOK
  <2>3. awsStatus = "CONNECTED" =>
            /\ client # NoConn /\ conn[client] \in {"up", "closing"}
            /\ client # c => conn'[client] = conn[client]
            /\ report' = [conn |-> c, status |-> "FAILED"]
    BY <1>3 DEF OnConnectionInterrupted, DecideFailed, CrtFree, NoReport, NoStatus, Move
  <2> QED BY <1>3, <2>1, <2>2, <2>3 DEF OnConnectionInterrupted
<1>4. CASE OnConnectionClosed(c)
  BY <1>4 DEF OnConnectionClosed, Report, Move, ConnState, DispatcherTypeOK
<1>5. CASE Collected(c)
  <2>1. conn' \in [Conn -> ConnState] /\ DispatcherTypeOK'
    BY <1>5 DEF Collected, Move, ConnState, DispatcherTypeOK
  <2>2. client # NoConn => conn'[client] = conn[client]
    BY <1>5 DEF Collected, Move
  <2>3. report.status = "CONNECTED" => client # NoConn
    BY NoConnAssumption DEF Report, NoReport, NoStatus
  <2> QED BY <1>5, <2>1, <2>2, <2>3 DEF Collected
<1> QED BY <1>1, <1>2, <1>3, <1>4, <1>5
        DEF Crt, OnConnectionSuccess, OnConnectionResumed

(* A step that leaves the client alone keeps the invariant, ...            *)
LEMMA AwsUntouched ==
    ASSUME AwsInv, DispatcherTypeOK', UNCHANGED awsOwn
    PROVE  AwsInv'
  BY DEF awsOwn, AwsInv, AwsTypeOK, ConnectedClientUsable, SuccessIsOfClient

(* ... and so does every step of the client.                               *)
LEMMA AwsStep ==
    ASSUME AwsInv, AwsNext \/ UNCHANGED awsVars
    PROVE  AwsInv'
<1>1. CASE DeliverAws \/ UNCHANGED awsVars
  <2>1. DispatcherTypeOK' /\ UNCHANGED awsOwn
    BY <1>1, TailType DEF DeliverAws, awsVars, AwsInv, AwsTypeOK, DispatcherTypeOK
  <2> QED BY <2>1, AwsUntouched
<1> QED BY <1>1, LoopStep, ReportStep, CrtStepInv DEF AwsNext

LEMMA AwsStart == AwsInit => AwsInv
<1> SUFFICES ASSUME AwsInit
             PROVE  AwsInv
  OBVIOUS
<1>1. DispatcherTypeOK
  BY DEF AwsInit, DispatcherInit, DispatcherTypeOK
<1>2. AwsTypeOK
  BY <1>1 DEF AwsInit, AwsTypeOK, ConnState
<1>3. awsStatus = "None" /\ report.status = "None"
  BY DEF AwsInit, NoReport, NoStatus
<1> QED BY <1>2, <1>3 DEF AwsInv, ConnectedClientUsable, SuccessIsOfClient

-------------------------------------------------------------------------------
(* A step of the client, whoever takes it.                                 *)
AwsTurn ==
    \/ Disconnect \/ Terminated \/ SetReported
    \/ (\E t \in Task : Loop(t)) \/ \E c \in Conn : Crt(c)

(* The client is given no other statuses than these.                       *)
LEMMA AwsGiven ==
    ASSUME AwsInv, AwsTurn
    PROVE  \/ awsStatus' \in {awsStatus, "CONNECTED", "FAILED", "DISCONNECTED"}
           \/ \E t \in Task : StartAws(t) /\ awsStatus' = "CONNECTING"
<1>0. AwsTypeOK
  BY DEF AwsInv
<1>1. \A s \in {"CONNECTING", "CONNECTED", "FAILED", "DISCONNECTED"} :
          SetAwsStatus(s) => awsStatus' = s \/ (awsStatus' = awsStatus /\ s = "FAILED")
  BY DEF SetAwsStatus, IgnoredTransition
<1>2. CASE Disconnect \/ Terminated
  BY <1>1, <1>2 DEF Disconnect, Terminated
<1>3. CASE SetReported
  BY <1>0, <1>1, <1>3 DEF SetReported, CrtFree, AwsTypeOK, Report
<1>4. ASSUME NEW t \in Task, Loop(t)
      PROVE  \/ awsStatus' \in {awsStatus, "CONNECTED", "FAILED", "DISCONNECTED"}
             \/ StartAws(t) /\ awsStatus' = "CONNECTING"
  BY <1>1, <1>4 DEF Loop, StartAws, ClientBuilt, BuildFails
<1>5. ASSUME NEW c \in Conn, Crt(c)
      PROVE  awsStatus' = awsStatus
  BY <1>5 DEF Crt, OnConnectionSuccess, OnConnectionResumed, BecomesClient, OnConnectionFailure,
              OnConnectionInterrupted, OnConnectionClosed, Collected
<1> QED BY <1>2, <1>3, <1>4, <1>5 DEF AwsTurn

(* An attempt that ends hands CONNECTING over to the next stage, or to a   *)
(* callback that replaces it.                                              *)
LEMMA ConnectingStep ==
    ASSUME AwsInv, ConnectingGoesOn, AwsTurn
    PROVE  ConnectingGoesOn'
<1> SUFFICES ASSUME awsStatus' = "CONNECTING"
             PROVE  \/ preparing' # {} \/ report' # NoReport
                    \/ \E c \in Conn : conn'[c] = "connecting"
  BY DEF ConnectingGoesOn, CrtFree
<1>0. AwsTypeOK /\ NoReport \notin Report
  BY NoConnAssumption DEF AwsInv, Report, NoReport
<1>1. ASSUME NEW t \in Task, StartAws(t)
      PROVE  preparing' # {}
  BY <1>1 DEF StartAws
<1>2. CASE awsStatus = "CONNECTING"
  <2>1. CASE Disconnect
    <3>1. \A c \in Conn : conn[c] = "connecting" => conn'[c] = "connecting"
      BY <2>1 DEF Disconnect
    <3> QED BY <1>2, <2>1, <3>1 DEF Disconnect, ConnectingGoesOn, CrtFree
  <2>2. CASE Terminated \/ SetReported
    BY <1>0, <2>2 DEF Terminated, SetReported, SetAwsStatus, IgnoredTransition, CrtFree,
                      AwsTypeOK, Report
  <2>3. ASSUME NEW t \in Task, ClientBuilt(t)
        PROVE  \E c \in Conn : conn'[c] = "connecting"
    BY <1>0, <2>3 DEF ClientBuilt, Move, AwsTypeOK
  <2>4. ASSUME NEW t \in Task, BuildFails(t)
        PROVE  FALSE
    BY <1>2, <2>4 DEF BuildFails, SetAwsStatus, IgnoredTransition
  <2>5. ASSUME NEW c \in Conn, Crt(c)
        PROVE  \/ preparing' # {} \/ report' # NoReport
               \/ \E d \in Conn : conn'[d] = "connecting"
    <3>1. CASE Collected(c)
      <4>1. \A d \in Conn : conn[d] = "connecting" => conn'[d] = "connecting"
        BY <1>0, <3>1 DEF Collected, Move, AwsTypeOK
      <4> QED BY <1>2, <3>1, <4>1 DEF Collected, ConnectingGoesOn, CrtFree
    <3>2. CASE ~Collected(c)
      <4>1. \E s : report' = [conn |-> c, status |-> s]
        BY <1>2, <2>5, <3>2 DEF Crt, OnConnectionSuccess, OnConnectionResumed, BecomesClient,
            OnConnectionFailure, OnConnectionInterrupted, DecideFailed, OnConnectionClosed
      <4> QED BY <4>1, NoConnAssumption DEF NoReport
    <3> QED BY <3>1, <3>2
  <2> QED BY <1>1, <2>1, <2>2, <2>3, <2>4, <2>5 DEF AwsTurn, Loop
<1> QED BY <1>1, <1>2, AwsGiven

(* Connection c is being closed, or its end is being reported.             *)
Ending(c) == conn[c] = "closing" \/ (report.status = "DISCONNECTED" /\ report.conn = c)

(* Only terminate begins to close a connection, and only the client.       *)
LEMMA EndingStep ==
    ASSUME AwsInv, AwsTurn, NEW c \in Conn, Ending(c)'
    PROVE  Ending(c) \/ (Disconnect /\ c = client)
<1> USE DEF Ending
<1>0. AwsTypeOK
  BY DEF AwsInv
<1>1. CASE Disconnect
  BY <1>0, <1>1 DEF Disconnect, AwsTypeOK
<1>2. CASE Terminated \/ SetReported
  BY <1>2 DEF Terminated, SetReported, NoReport, NoStatus
<1>3. ASSUME NEW t \in Task, Loop(t)
      PROVE  Ending(c)
  BY <1>0, <1>3 DEF Loop, StartAws, ClientBuilt, BuildFails, Move, AwsTypeOK
<1>4. ASSUME NEW d \in Conn, Crt(d)
      PROVE  Ending(c)
  BY <1>0, <1>4 DEF Crt, OnConnectionSuccess, OnConnectionResumed, BecomesClient,
      OnConnectionFailure, OnConnectionInterrupted, DecideFailed, OnConnectionClosed, Collected,
      Move, AwsTypeOK, NoReport, NoStatus
<1> QED BY <1>1, <1>2, <1>3, <1>4 DEF AwsTurn

(* Types, and what CONNECTED stands for, are kept by every behaviour.      *)
THEOREM AwsInvariant == AwsSpec => []AwsInv
  BY AwsStart, AwsStep, PTL DEF AwsSpec

(* The variables keep their types: no callback leaves a client that is not *)
(* a connection, or reports of one that is not, or sends a signal without  *)
(* a status.                                                               *)
THEOREM AwsTypeCorrect == AwsSpec => []AwsTypeOK
  BY AwsInvariant, PTL DEF AwsInv

(* However many attempts interleave, and however they end, CONNECTING is   *)
(* never left behind.                                                      *)
THEOREM ConnectingIsFollowed == AwsSpec => []ConnectingGoesOn
<1>1. AwsInit => ConnectingGoesOn
  BY DEF AwsInit, ConnectingGoesOn, NoStatus
<1>2. AwsInv /\ ConnectingGoesOn /\ [AwsNext]_awsVars => ConnectingGoesOn'
  <2> SUFFICES ASSUME AwsInv, ConnectingGoesOn, [AwsNext]_awsVars
               PROVE  ConnectingGoesOn'
    OBVIOUS
  <2>1. CASE DeliverAws \/ UNCHANGED awsVars
    BY <2>1 DEF DeliverAws, awsVars, awsOwn, ConnectingGoesOn, CrtFree
  <2>2. CASE AwsTurn
    BY <2>2, ConnectingStep
  <2> QED BY <2>1, <2>2 DEF AwsNext, AwsTurn
<1> QED BY <1>1, <1>2, AwsInvariant, PTL DEF AwsSpec

(* CONNECTED is claimed only of a client that is up, or whose end is or    *)
(* will be reported.                                                       *)
THEOREM ConnectedIsUsable == AwsSpec => []ConnectedClientUsable
  BY AwsInvariant, PTL DEF AwsInv

===============================================================================
