--------------------------- MODULE DispatcherProofs ---------------------------
(***************************************************************************)
(* Facts about the queue of signals that the proofs of both clients use.   *)
(***************************************************************************)
EXTENDS Dispatcher, TLAPS

(* What a change of status sends is a sequence of signals.                 *)
LEMMA ChangedType ==
    ASSUME NEW from, NEW to \in ConnectivityStatus, NEW source \in {"api", "aws"}
    PROVE  Changed(source, from, to) \in Seq(Signal)
<1> DEFINE s == [source |-> source, status |-> to]
<1>1. s \in Signal
  BY DEF Signal
<1>2. <<>> \in Seq(Signal) /\ <<s>> \in Seq(Signal)
  <2> HIDE DEF s
  <2> QED BY <1>1
<1> QED BY <1>2 DEF Changed

(* The queue stays a queue of signals when a change of status is sent, and *)
(* when the oldest signal is delivered.                                    *)
LEMMA SendType ==
    ASSUME DispatcherTypeOK, NEW from, NEW to, NEW source \in {"api", "aws"},
           to \in ConnectivityStatus \/ to = from,
           signals' = signals \o Changed(source, from, to)
    PROVE  DispatcherTypeOK'
<1>1. CASE to \in ConnectivityStatus
  BY <1>1, ChangedType DEF DispatcherTypeOK
<1>2. CASE to = from
  BY <1>2 DEF DispatcherTypeOK, Changed
<1> QED BY <1>1, <1>2

LEMMA TailType ==
    ASSUME DispatcherTypeOK, signals # <<>>, signals' = Tail(signals)
    PROVE  DispatcherTypeOK'
  BY DEF DispatcherTypeOK

(* A signal that waits still waits after others were sent, ...             *)
LEMMA WaitingAppended ==
    ASSUME NEW q \in Seq(Signal), NEW r \in Seq(Signal), NEW source, NEW S,
           Waiting(q, source, S) \/ Waiting(r, source, S)
    PROVE  Waiting(q \o r, source, S)
<1>1. q \o r \in Seq(Signal) /\ Len(q \o r) = Len(q) + Len(r)
  OBVIOUS
<1>2. ASSUME NEW i \in 1 .. Len(q), q[i].source = source, q[i].status \in S
      PROVE  Waiting(q \o r, source, S)
  <2>1. (q \o r)[i] = q[i] /\ i \in 1 .. Len(q \o r)
    BY <1>1
  <2> QED BY <1>2, <2>1 DEF Waiting
<1>3. ASSUME NEW i \in 1 .. Len(r), r[i].source = source, r[i].status \in S
      PROVE  Waiting(q \o r, source, S)
  <2>1. (q \o r)[Len(q) + i] = r[i] /\ Len(q) + i \in 1 .. Len(q \o r)
    BY <1>1
  <2> QED BY <1>3, <2>1 DEF Waiting
<1> QED BY <1>2, <1>3 DEF Waiting

(* ... and after the delivery of another one.                              *)
LEMMA WaitingTail ==
    ASSUME NEW q \in Seq(Signal), q # <<>>, NEW source, NEW S, Waiting(q, source, S),
           ~(Head(q).source = source /\ Head(q).status \in S)
    PROVE  Waiting(Tail(q), source, S)
<1>1. PICK i \in 1 .. Len(q) : q[i].source = source /\ q[i].status \in S
  BY DEF Waiting
<1>2. i # 1
  BY <1>1
<1>3. i - 1 \in 1 .. Len(Tail(q)) /\ Tail(q)[i - 1] = q[i]
  BY <1>2
<1> QED BY <1>1, <1>3 DEF Waiting

(* A change to a status that is heeded is waiting.                         *)
LEMMA WaitingChanged ==
    ASSUME NEW source, NEW from, NEW to, from # to, to \in Heeded(source), NEW S, to \in S
    PROVE  Waiting(Changed(source, from, to), source, S)
<1>1. Changed(source, from, to) = <<[source |-> source, status |-> to]>>
  BY DEF Changed
<1> QED BY <1>1 DEF Waiting

===============================================================================
