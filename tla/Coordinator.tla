------------------------------ MODULE Coordinator -----------------------------
(***************************************************************************)
(* MyDolphinPlusCoordinator (managers/coordinator.py): what ties the REST  *)
(* client and the AWS client together.  It starts the first login, reacts  *)
(* to every change of their statuses with a coroutine of its own, and      *)
(* refreshes the details once an hour.                                     *)
(*                                                                         *)
(* The event loop runs one coroutine at a time, until it awaits; the CRT   *)
(* thread of the AWS client runs whenever it likes.  Where a coroutine     *)
(* goes on without an await after a call of a client, or has been created  *)
(* and not yet run, the loop is not free for another one.                  *)
(***************************************************************************)
EXTENDS RestApi, AwsClient

CONSTANTS
    Trouble,        \* what may go wrong outside: see TroubleAssumption
    QueueLimit      \* bound: no request is answered while this many signals wait

(* rest: the service is unreachable, refuses or does not know the robot;   *)
(* unauthorized: it answers 401; malformed: it answers the validation of   *)
(* the email with a text; mqtt: the broker refuses or drops connections,   *)
(* or the client cannot be built.                                          *)
ASSUME TroubleAssumption ==
    Trouble \subseteq {"rest", "unauthorized", "malformed", "mqtt"}

ASSUME LimitAssumption == QueueLimit \in Nat

VARIABLES
    job,            \* what each coroutine of the coordinator is doing
    asked,          \* the connection that a recovery asked to disconnect
    started         \* Home Assistant has started: initialize was called

coordOwn  == <<job, asked, started>>
coordVars == <<apiOwn, awsOwn, signals, coordOwn>>

(* "none" with a coroutine under way in the REST client: a login, or the   *)
(* hourly update.                                                          *)
Job == {"none", "onConnected", "connect", "onFailure", "cooldown"}

CoordTypeOK ==
    /\ ApiTypeOK
    /\ AwsTypeOK
    /\ job \in [Task -> Job]
    /\ asked \in [Task -> Conn \cup {NoConn}]
    /\ started \in BOOLEAN

CoordInit ==
    /\ ApiInit
    /\ AwsInit
    /\ job = [t \in Task |-> "none"]
    /\ asked = [t \in Task |-> NoConn]
    /\ started = FALSE

Free(t) == pc[t] = "idle" /\ job[t] = "none"

(* A coroutine that has something to do before the loop turns to another.  *)
Ready(t) ==
    \/ job[t] \in {"onConnected", "onFailure"}
    \/ job[t] = "connect" /\ pc[t] = "idle" /\ t \notin preparing

LoopFree == \A t \in Task : ~Ready(t)

SetJob(t, j) == job' = [job EXCEPT ![t] = j]

-------------------------------------------------------------------------------
(* initialize, when Home Assistant has started.                            *)
Start(t) ==
    /\ LoopFree /\ Free(t)
    /\ ~started /\ started' = TRUE
    /\ Initialize(t)
    /\ UNCHANGED <<awsOwn, job, asked>>

(* What the two handlers, _on_api_status_changed and                       *)
(* _on_aws_client_status_changed, do with a signal.                        *)
Connects(s) == s.source = "api" /\ s.status = "CONNECTED"
Recovers(s) == s.status \in IF s.source = "api" THEN Actionable ELSE AwsActionable

(* Mutant: a failure is not answered while another coroutine is under way. *)
DeliverSignalUnlessBusy ==
    /\ LoopFree
    /\ signals # <<>>
    /\ signals' = Tail(signals)
    /\ \/ Connects(Head(signals)) /\ \E t \in Task : Free(t) /\ SetJob(t, "onConnected")
       \/ /\ Recovers(Head(signals)) /\ \A t \in Task : Free(t)
          /\ \E t \in Task : SetJob(t, "onFailure")
       \/ /\ Recovers(Head(signals)) /\ \E t \in Task : ~Free(t)
          /\ UNCHANGED job
    /\ UNCHANGED <<apiOwn, awsOwn, asked, started>>

(* The dispatcher delivers a signal: a coroutine is created for it.        *)
DeliverSignal ==
    /\ LoopFree
    /\ signals # <<>>
    /\ signals' = Tail(signals)
    /\ \/ Recovers(Head(signals)) /\ \E t \in Task : Free(t) /\ SetJob(t, "onFailure")
       \/ Connects(Head(signals)) /\ \E t \in Task : Free(t) /\ SetJob(t, "onConnected")
    /\ UNCHANGED <<apiOwn, awsOwn, asked, started>>

(* _on_api_status_changed with CONNECTED: update, which does nothing when  *)
(* the status has changed since, ...                                       *)
OnConnected(t) ==
    /\ job[t] = "onConnected"
    /\ SetJob(t, "connect")
    /\ \/ /\ apiStatus = "CONNECTED"
          /\ Update(t)
          /\ UNCHANGED awsOwn
       \/ /\ apiStatus # "CONNECTED"
          /\ StartAws(t)
          /\ UNCHANGED apiOwn
    /\ UNCHANGED <<asked, started>>

(* ... then initialize of the AWS client, whatever came of the update.     *)
UpdateReturned(t) ==
    /\ job[t] = "connect" /\ pc[t] = "idle"
    /\ StartAws(t)
    /\ UNCHANGED <<apiOwn, coordOwn>>

Prepared(t) ==
    /\ LoopFree
    /\ ClientBuilt(t)
    /\ SetJob(t, "none")
    /\ UNCHANGED <<apiOwn, asked, started>>

NotPrepared(t) ==
    /\ LoopFree
    /\ BuildFails(t)
    /\ SetJob(t, "none")
    /\ UNCHANGED <<apiOwn, asked, started>>

(* _handle_connection_failure: terminate the AWS client, ...               *)
OnFailure(t) ==
    /\ job[t] = "onFailure"
    /\ Disconnect
    /\ asked' = [asked EXCEPT ![t] = client]
    /\ UNCHANGED <<apiOwn, job, started>>

(* Mutant: the recovery gives up when the REST client is connected.        *)
CoolDownUnlessConnected(t) ==
    /\ job[t] = "onFailure"
    /\ Terminated
    /\ SetJob(t, IF apiStatus = "CONNECTED" THEN "none" ELSE "cooldown")
    /\ UNCHANGED <<apiOwn, asked, started>>

(* ... sleep, ...                                                          *)
CoolDown(t) ==
    /\ job[t] = "onFailure"
    /\ Terminated
    /\ SetJob(t, "cooldown")
    /\ UNCHANGED <<apiOwn, asked, started>>

(* ... and log in.  The disconnection that this recovery asked for does    *)
(* not take as long as the sleep of a minute; that of another recovery may *)
(* still be under way.                                                     *)
CooldownEnds(t) ==
    /\ LoopFree
    /\ job[t] = "cooldown"
    /\ asked[t] # NoConn => conn[asked[t]] # "closing" /\ report.conn # asked[t]
    /\ asked' = [asked EXCEPT ![t] = NoConn]
    /\ SetJob(t, "none")
    /\ Initialize(t)
    /\ UNCHANGED <<awsOwn, started>>

(* _async_update_data once an hour: one refresh at a time, and only while  *)
(* both clients are connected.                                             *)
Refresh(t) ==
    /\ LoopFree /\ Free(t)
    /\ awsStatus = "CONNECTED"
    /\ \A u \in Task : pc[u] = "details" => job[u] = "connect"
    /\ Update(t)
    /\ UNCHANGED <<awsOwn, coordOwn>>

-------------------------------------------------------------------------------
(* The steps of the clients.                                               *)

ApiServed(t) == LoopFree /\ Served(t) /\ UNCHANGED <<awsOwn, coordOwn>>

ApiFaulty(t) ==
    /\ LoopFree
    /\ \/ "rest" \in Trouble /\ \/ EmailUnknown(t) \/ LoginRefused(t) \/ MotorUnknown(t)
                                \/ TokenRefused(t) \/ PostFails(t)
       \/ "malformed" \in Trouble /\ EmailMalformed(t)
       \/ "unauthorized" \in Trouble /\ PostUnauthorized(t)
    /\ UNCHANGED <<awsOwn, coordOwn>>

(* The end of a disconnection, and the end of a callback.                  *)
Closed(c) == OnConnectionClosed(c) /\ UNCHANGED <<apiOwn, coordOwn>>
Reported  == SetReported /\ UNCHANGED <<apiOwn, coordOwn>>

CrtServed(c) ==
    /\ OnConnectionSuccess(c) \/ OnConnectionResumed(c) \/ Collected(c)
    /\ UNCHANGED <<apiOwn, coordOwn>>

(* Another connection takes the client id over: the broker drops this one. *)
TakenOver(c) ==
    /\ \E d \in Conn \ {c} : conn[d] \in {"connecting", "lost"}
    /\ OnConnectionInterrupted(c)
    /\ UNCHANGED <<apiOwn, coordOwn>>

CrtFaulty(c) ==
    /\ "mqtt" \in Trouble
    /\ OnConnectionFailure(c) \/ OnConnectionInterrupted(c)
    /\ UNCHANGED <<apiOwn, coordOwn>>

(* What the bounds let happen: they hold up neither a coroutine that the   *)
(* loop must run first nor, when a signal waits for the end of one, those  *)
(* that can end.                                                           *)
LoopRoom ==
    \/ Room \/ ~LoopFree
    \/ Len(signals) < QueueLimit /\ \A t \in Task : ~Free(t)

CoordNext ==
    \/ DeliverSignal
    \/ Reported \/ \E c \in Conn : Closed(c) \/ CrtServed(c)
    \/ LoopRoom /\ \E t \in Task :
          \/ Start(t) \/ OnConnected(t) \/ UpdateReturned(t)
          \/ OnFailure(t) \/ CoolDown(t) \/ CooldownEnds(t) \/ Refresh(t)
          \/ Prepared(t) \/ ("mqtt" \in Trouble /\ NotPrepared(t))
          \/ ApiServed(t) \/ ApiFaulty(t)
    \/ Room /\ \E c \in Conn : TakenOver(c) \/ CrtFaulty(c)

CoordSpec == CoordInit /\ [][CoordNext]_coordVars

(* The steps that are not faults are taken in the end: the loop runs what  *)
(* is ready, requests and sleeps end, and what has been tried often enough *)
(* succeeds: an attempt to connect, the encryption of a token.             *)
TaskStep(t) ==
    \/ Start(t) \/ OnConnected(t) \/ UpdateReturned(t)
    \/ OnFailure(t) \/ CoolDown(t) \/ CooldownEnds(t) \/ ApiServed(t)

Encrypted(t) == TaskStep(t) /\ ~tokens.aws /\ tokens'.aws

CoordFairSpec ==
    /\ CoordSpec
    /\ WF_coordVars(DeliverSignal)
    /\ \A t \in Task : SF_coordVars(LoopRoom /\ TaskStep(t))
    /\ SF_coordVars(LoopRoom /\ \E t \in Task : Prepared(t))
    /\ SF_coordVars(LoopRoom /\ \E t \in Task : Encrypted(t))
    /\ WF_coordVars(Reported)
    /\ SF_coordVars(\E c \in Conn : Closed(c))
    /\ SF_coordVars(\E c \in Conn : OnConnectionSuccess(c) /\ UNCHANGED <<apiOwn, coordOwn>>)
    /\ WF_coordVars(\E c \in Conn : Collected(c) /\ UNCHANGED <<apiOwn, coordOwn>>)

-------------------------------------------------------------------------------
(* While the REST client reports a failure, a recovery is on its way: the  *)
(* signal that starts it waits, or it is sleeping, or it is validating the *)
(* email, the one stage of a login that leaves the old status in place.    *)
RecoveryNotLost ==
    apiStatus \in Actionable =>
        \/ Pending("api", Actionable)
        \/ \E t \in Task : job[t] \in {"onFailure", "cooldown"} \/ pc[t] = "email"

(* A failure of the broker is answered by a recovery, too.                 *)
BrokerFailureHandled ==
    awsStatus = "FAILED" =>
        Pending("aws", {"FAILED"}) \/ \E t \in Task : job[t] = "onFailure"

(* A coroutine that prepares a client does nothing else.                   *)
PreparingConnects == \A t \in preparing : job[t] = "connect"

(* The inductive invariant that the proofs use; RecoveryNotLost needs it.  *)
CoordInv == CoordTypeOK /\ ApiInv /\ AwsInv /\ PreparingConnects /\ BrokerFailureHandled

Quiet ==
    /\ signals = <<>>
    /\ \A t \in Task : Free(t)
    /\ \A c \in Conn : conn[c] \in {"free", "up"}
    /\ CrtFree

(* Nobody stops working while the REST client is in a state that work      *)
(* could improve: a failure, or a login half done.                         *)
QuietMeansSettled ==
    Quiet /\ started =>
        apiStatus \in {NoStatus, "CONNECTED", "API_NOT_FOUND", "INVALID_ACCOUNT"}

(* When all is quiet and the service is connected, so is the broker.       *)
NoSilentStall ==
    Quiet /\ apiStatus = "CONNECTED" => awsStatus = "CONNECTED"

(* What makes it so.  Each client is given statuses of its own; ...        *)
StatusesGiven ==
    /\ apiStatus \in {NoStatus, "CONNECTING", "TEMPORARY_CONNECTED", "CONNECTED", "FAILED",
                     "INVALID_CREDENTIALS", "INVALID_ACCOUNT", "EXPIRED_TOKEN", "API_NOT_FOUND"}
    /\ awsStatus \in {NoStatus, "CONNECTING", "CONNECTED", "FAILED", "DISCONNECTED"}

(* ... one recovery at a time terminates the client, and a recovery that   *)
(* has asked for a disconnection goes on to the login; ...                 *)
OneTerminates ==
    /\ \A t, u \in Task : job[t] = "onFailure" /\ job[u] = "onFailure" => t = u
    /\ \A t \in Task : asked[t] # NoConn =>
           job[t] = "cooldown" \/ (job[t] = "onFailure" /\ terminating)

(* ... a disconnection, and the callback that reports it, fall into the    *)
(* time of the recovery that asked for it; ...                             *)
ClosingIsAsked ==
    \A c \in Conn :
        conn[c] = "closing" \/ (report.status = "DISCONNECTED" /\ report.conn = c) =>
            \E t \in Task : asked[t] = c /\ job[t] \in {"onFailure", "cooldown"}

(* ... and while the broker waits for a connected service, a coroutine t   *)
(* is about to connect, or goes on to a login that announces CONNECTED, or *)
(* CONNECTED has been announced.                                           *)
Awaiting(t) ==
    \/ job[t] \in {"onConnected", "onFailure", "cooldown"}
    \/ job[t] = "connect" /\ t \notin preparing
    \/ pc[t] = "email"

BrokerAwaited ==
    apiStatus = "CONNECTED" /\ awsStatus \in {NoStatus, "DISCONNECTED"} =>
        Pending("api", {"CONNECTED"}) \/ \E t \in Task : Awaiting(t)

NoStallInv ==
    StatusesGiven /\ ConnectingGoesOn /\ OneTerminates /\ ClosingIsAsked /\ BrokerAwaited

(* The broker is reached again and again, however often the connection is  *)
(* lost or refused, as long as the service serves; unless an API token is  *)
(* stored without the serial of the motor unit, which no login repairs.    *)
BrokerReached ==
    (tokens.api => tokens.motor) => []<>(awsStatus = "CONNECTED")

(* "Improve reconnect process (cool-down between attempts)": one recovery  *)
(* at a time, so that the login is asked for once in a cool-down.          *)
Recovering(t) ==
    \/ job[t] \in {"onFailure", "cooldown"}
    \/ job[t] = "none" /\ pc[t] \notin {"idle", "details"}

OneRecovery == \A t, u \in Task : Recovering(t) /\ Recovering(u) => t = u

(* "disconnect before trying to connect again": a connection is opened     *)
(* after the ones before it were asked to close.                           *)
DisconnectsFirst ==
    [][\A c \in Conn : conn[c] = "free" /\ conn'[c] = "connecting"
          => \A d \in Conn : conn[d] \in {"free", "closing"}]_coordVars

(* "Reconnect when API returns 401": with no other trouble than 401, the   *)
(* integration does not come to rest before the service is connected.      *)
ReconnectsAfter401 ==
    Quiet /\ started /\ Trouble \subseteq {"unauthorized"} =>
        apiStatus \in {NoStatus, "CONNECTED"}

===============================================================================
