------------------------------- MODULE AwsClient ------------------------------
(***************************************************************************)
(* AWSClient (managers/aws_client.py): the MQTT connection to the AWS IoT  *)
(* broker through which the robot's shadow is read and commands are sent.  *)
(*                                                                         *)
(* Two threads touch its state without a lock: the event loop, which runs  *)
(* initialize and terminate, and the thread of the CRT (the runtime of the *)
(* AWS SDK), which runs the callbacks of the connections.  Either one can  *)
(* run between two accesses of the other: a callback changes the client    *)
(* first and the status later, and so does terminate.  A connection lives  *)
(* on its own: the code holds a reference to the one that reported last,   *)
(* the CRT reconnects those that were interrupted by itself, and the SDK   *)
(* discards one that is not referred to any more.  All of them use the     *)
(* same client id, so the broker keeps one session for them, and drops one *)
(* when another connects.                                                  *)
(***************************************************************************)
EXTENDS Dispatcher

CONSTANTS
    Conn,           \* bound: the connections that can exist at once
    NoConn          \* Python's None in the place of a connection

ASSUME NoConnAssumption == NoConn \notin Conn

VARIABLES
    awsStatus,      \* _status
    client,         \* _awsiot_client
    conn,           \* the state of each connection
    report,         \* the status that the callback under way is about to set
    terminating,    \* terminate has asked to disconnect and not set its status
    preparing       \* coroutines in initialize, waiting for certificate and client

awsOwn  == <<awsStatus, client, conn, report, terminating, preparing>>
awsVars == <<awsOwn, signals>>

ConnState == {"free", "connecting", "up", "lost", "closing"}

(* The CRT runs one callback at a time.                                    *)
Report   == [conn : Conn, status : {"CONNECTED", "DISCONNECTED", "FAILED"}]
NoReport == [conn |-> NoConn, status |-> NoStatus]
CrtFree  == report = NoReport

AwsTypeOK ==
    /\ DispatcherTypeOK
    /\ awsStatus \in ConnectivityStatus \cup {NoStatus}
    /\ client \in Conn \cup {NoConn}
    /\ conn \in [Conn -> ConnState]
    /\ report \in Report \cup {NoReport}
    /\ terminating \in BOOLEAN
    /\ preparing \subseteq Task

AwsInit ==
    /\ DispatcherInit
    /\ awsStatus = NoStatus
    /\ client = NoConn
    /\ conn = [c \in Conn |-> "free"]
    /\ report = NoReport
    /\ terminating = FALSE
    /\ preparing = {}

(* _set_status: no signal without a change, and no change that             *)
(* IGNORED_TRANSITIONS rules out.                                          *)
SetAwsStatus(s) ==
    LET new == IF IgnoredTransition(awsStatus, s) THEN awsStatus ELSE s
    IN  /\ awsStatus' = new
        /\ signals' = signals \o Changed("aws", awsStatus, new)

Move(c, state) == conn' = [conn EXCEPT ![c] = state]

-------------------------------------------------------------------------------
(* The event loop.                                                         *)

(* initialize, up to its awaits.                                           *)
StartAws(t) ==
    /\ ~terminating
    /\ t \notin preparing
    /\ SetAwsStatus("CONNECTING")
    /\ preparing' = preparing \cup {t}
    /\ UNCHANGED <<client, conn, report, terminating>>

(* The client is built: connect, without waiting for the outcome.          *)
ClientBuilt(t) ==
    /\ ~terminating
    /\ t \in preparing
    /\ preparing' = preparing \ {t}
    /\ \E c \in Conn \ {report.conn, client} : conn[c] = "free" /\ Move(c, "connecting")
    /\ UNCHANGED <<awsStatus, signals, client, report, terminating>>

(* The certificate or the client cannot be had.                            *)
BuildFails(t) ==
    /\ ~terminating
    /\ t \in preparing
    /\ preparing' = preparing \ {t}
    /\ SetAwsStatus("FAILED")
    /\ UNCHANGED <<client, conn, report, terminating>>

(* terminate: ask the current connection to disconnect, without waiting    *)
(* for it.  One that is not connected any more refuses.                    *)
Disconnect ==
    /\ ~terminating /\ terminating' = TRUE
    /\ conn' = [c \in Conn |->
                    IF c = client /\ conn[c] \in {"up", "lost"} THEN "closing" ELSE conn[c]]
    /\ UNCHANGED <<awsStatus, signals, client, report, preparing>>

(* The status that terminate sets, whatever has happened meanwhile.        *)
Terminated ==
    /\ terminating /\ terminating' = FALSE
    /\ SetAwsStatus("DISCONNECTED")
    /\ UNCHANGED <<client, conn, report, preparing>>

-------------------------------------------------------------------------------
(* The CRT thread: the callbacks of connection c.                          *)

(* Mutant: only the loss of a connection is reported.                      *)
DecideFailedOfConnected(c) ==
    report' = IF awsStatus # "CONNECTED"
              THEN NoReport ELSE [conn |-> c, status |-> "FAILED"]

(* A callback that reports a failure compares the status with what it may  *)
(* not be, and assigns it later.                                           *)
DecideFailed(c) ==
    report' = IF awsStatus \in {"DISCONNECTED", "FAILED"}
              THEN NoReport ELSE [conn |-> c, status |-> "FAILED"]

(* The end of a callback: it sets its status.                              *)
SetReported ==
    /\ ~CrtFree /\ report' = NoReport
    /\ \/ /\ report.status = "FAILED"
          /\ awsStatus' = "FAILED"
          /\ signals' = Append(signals, [source |-> "aws", status |-> "FAILED"])
       \/ report.status # "FAILED" /\ SetAwsStatus(report.status)
    /\ UNCHANGED <<client, conn, terminating, preparing>>

(* The success callback, after a first attempt and after a reconnection:   *)
(* the connection becomes the client, whichever other one was.             *)
BecomesClient(c) ==
    /\ CrtFree /\ report' = [conn |-> c, status |-> "CONNECTED"]
    /\ Move(c, "up")
    /\ client' = c
    /\ UNCHANGED <<awsStatus, signals, terminating, preparing>>

OnConnectionSuccess(c) == conn[c] = "connecting" /\ BecomesClient(c)
OnConnectionResumed(c) == conn[c] = "lost" /\ BecomesClient(c)

(* A first attempt that fails is not repeated; a reconnection is.          *)
OnConnectionFailure(c) ==
    /\ CrtFree /\ conn[c] \in {"connecting", "lost"}
    /\ Move(c, IF conn[c] = "lost" THEN "lost" ELSE "free")
    /\ DecideFailed(c)
    /\ UNCHANGED <<awsStatus, signals, client, terminating, preparing>>

OnConnectionInterrupted(c) ==
    /\ CrtFree /\ conn[c] = "up"
    /\ Move(c, "lost")
    /\ DecideFailed(c)
    /\ UNCHANGED <<awsStatus, signals, client, terminating, preparing>>

(* Mutant: the callback leaves the status alone.                           *)
OnConnectionClosedSilently(c) ==
    /\ CrtFree /\ conn[c] = "closing"
    /\ Move(c, "free")
    /\ client' = NoConn
    /\ UNCHANGED <<awsStatus, signals, report, terminating, preparing>>

(* Mutant: the callback reports of the client, which is cleared by now.    *)
OnConnectionClosedOfClient(c) ==
    /\ CrtFree /\ report' = [conn |-> NoConn, status |-> "DISCONNECTED"]
    /\ conn[c] = "closing" /\ Move(c, "free")
    /\ client' = NoConn
    /\ UNCHANGED <<awsStatus, signals, terminating, preparing>>

(* The disconnection that terminate asked for is done: the callback of its *)
(* future clears the client, whichever connection that is by now, and the  *)
(* closed callback reports.                                                *)
OnConnectionClosed(c) ==
    /\ CrtFree /\ report' = [conn |-> c, status |-> "DISCONNECTED"]
    /\ conn[c] = "closing" /\ Move(c, "free")
    /\ client' = NoConn
    /\ UNCHANGED <<awsStatus, signals, terminating, preparing>>

(* Nothing refers to the connection: it is disconnected without callbacks. *)
Collected(c) ==
    /\ conn[c] \in {"up", "lost"} /\ c \notin {client, report.conn}
    /\ Move(c, "free")
    /\ UNCHANGED <<awsStatus, signals, client, report, terminating, preparing>>

-------------------------------------------------------------------------------
Crt(c) ==
    \/ OnConnectionSuccess(c) \/ OnConnectionResumed(c)
    \/ OnConnectionFailure(c) \/ OnConnectionInterrupted(c)
    \/ OnConnectionClosed(c) \/ Collected(c)

DeliverAws ==
    /\ signals # <<>>
    /\ signals' = Tail(signals)
    /\ UNCHANGED awsOwn

Loop(t) == StartAws(t) \/ ClientBuilt(t) \/ BuildFails(t)

(* The client on its own, under any coordinator.                           *)
AwsNext ==
    \/ DeliverAws \/ Disconnect
    \/ Room /\ (Terminated \/ SetReported \/ \E t \in Task : Loop(t))
    \/ \E c \in Conn : Crt(c)

AwsSpec == AwsInit /\ [][AwsNext]_awsVars

-------------------------------------------------------------------------------
(* CONNECTED is never claimed of a connection that cannot be used, unless  *)
(* the callback that takes the claim back is under way (its loss, or the   *)
(* end of a disconnection) or still to come (a disconnection asked for).   *)
(* This is what _publish relies on, although callbacks of earlier          *)
(* connections replace or clear the client at any time, and terminate can  *)
(* come between the two halves of a callback.                              *)
ConnectedClientUsable ==
    awsStatus = "CONNECTED" =>
        \/ client # NoConn /\ conn[client] \in {"up", "closing"}
        \/ client # NoConn /\ report = [conn |-> client, status |-> "FAILED"]
        \/ report.status = "DISCONNECTED"

(* What makes it so: no other callback comes between the two halves of a   *)
(* success callback, and terminate can only have the connection closed.    *)
SuccessIsOfClient ==
    report.status = "CONNECTED" =>
        client = report.conn /\ conn[client] \in {"up", "closing"}

AwsInv == AwsTypeOK /\ ConnectedClientUsable /\ SuccessIsOfClient

(* CONNECTING is not left behind: a client is being prepared, a connection *)
(* is being made, or the callback that replaces the status is under way,   *)
(* whichever of the attempts under way ends first, and however.            *)
ConnectingGoesOn ==
    awsStatus = "CONNECTING" =>
        preparing # {} \/ ~CrtFree \/ \E c \in Conn : conn[c] = "connecting"

(* IGNORED_TRANSITIONS: what was disconnected on purpose does not become   *)
(* FAILED.                                                                 *)
DisconnectedStaysQuiet ==
    [][~IgnoredTransition(awsStatus, awsStatus')]_awsVars

===============================================================================
