------------------------------ MODULE Dispatcher ------------------------------
(***************************************************************************)
(* The signals on their way from the two clients to the coordinator.       *)
(* dispatcher_send() of Home Assistant puts a callback on the event loop   *)
(* (call_soon_threadsafe), so signals are delivered later than they are    *)
(* sent, in the order they were sent, by whichever thread sent them.       *)
(***************************************************************************)
EXTENDS Naturals, Sequences, ConnectivityStatus

CONSTANTS
    Task,           \* bound: the coroutines that can be under way at once
    QueueBound      \* bound: no client acts while this many signals wait

ASSUME QueueBoundAssumption == QueueBound \in Nat

VARIABLE
    signals         \* the signals sent and not yet delivered, oldest first

Signal == [source : {"api", "aws"}, status : ConnectivityStatus]

DispatcherInit == signals = <<>>

DispatcherTypeOK == signals \in Seq(Signal)

(* The statuses on which the handlers of the coordinator start a recovery, *)
(* and those that they act on at all.  A signal with another status comes  *)
(* to nothing when it is delivered; it is left out.                        *)
Actionable    == {"FAILED", "INVALID_CREDENTIALS", "EXPIRED_TOKEN"}
AwsActionable == {"FAILED", "NOT_CONNECTED"}

Heeded(source) == IF source = "api" THEN Actionable \cup {"CONNECTED"} ELSE AwsActionable

(* What a change of status sends: nothing when the status stays the same.  *)
Changed(source, from, to) ==
    IF from # to /\ to \in Heeded(source) THEN <<[source |-> source, status |-> to]>> ELSE <<>>

(* A signal of this source with a status in S is in the queue.             *)
Waiting(queue, source, S) ==
    \E i \in 1 .. Len(queue) : queue[i].source = source /\ queue[i].status \in S

Pending(source, S) == Waiting(signals, source, S)

Room == Len(signals) < QueueBound

===============================================================================
