-------------------------- MODULE SubscriptionProofs --------------------------
(***************************************************************************)
(* Proofs about Subscription for any set of connections.                   *)
(***************************************************************************)
EXTENDS Subscription, AwsClientProofs

(* A step of the connections with a step of the subscription is a step of  *)
(* AwsClient.                                                              *)
LEMMA StepOfAws ==
    ASSUME SubNext \/ UNCHANGED subVars
    PROVE  AwsNext \/ UNCHANGED awsVars
<1>1. ASSUME NEW c \in Conn, Callback(c)
      PROVE  Crt(c) \/ UNCHANGED awsVars
  BY <1>1 DEF Callback, Crt, OnSubscribed
<1>2. CASE Other
  BY <1>2 DEF Other, AwsNext
<1> QED BY <1>1, <1>2 DEF SubNext, subVars, AwsNext

(* The callbacks keep the subscription under way.                          *)
LEMMA CallbackStep ==
    ASSUME AwsInv, SubInv, NEW c \in Conn, Callback(c)
    PROVE  SubInv'
<1> USE DEF SubInv, SubTypeOK, SubscriptionUnderWay, subscription
<1>1. ASSUME NEW resumed \in BOOLEAN, BecomesClient(c), Subscribe(c, resumed)
      PROVE  SubInv'
  <2>1. client' = c
    BY <1>1 DEF BecomesClient
  <2>2. subscribed' \subseteq Topic
    BY <1>1 DEF Subscribe
  <2>3. suback' \in [Conn -> SUBSET Topic] /\ "dynamic" \in suback'[c]
    BY <1>1 DEF Subscribe, Topic
  <2> QED BY <2>1, <2>2, <2>3
<1>2. CASE OnConnectionClosed(c) /\ Forget(c)
  BY <1>2 DEF OnConnectionClosed, Forget
<1>3. CASE Collected(c) /\ Forget(c)
  <2>1. client' = client /\ client # c
    BY <1>3 DEF Collected
  <2>2. client \in Conn \cup {NoConn}
    BY DEF AwsInv, AwsTypeOK
  <2> QED BY <1>3, <2>1, <2>2 DEF Forget
<1>4. CASE (OnConnectionFailure(c) \/ OnConnectionInterrupted(c)) /\ UNCHANGED subscription
  BY <1>4 DEF OnConnectionFailure, OnConnectionInterrupted
<1>5. ASSUME NEW topic \in Topic, OnSubscribed(c, topic)
      PROVE  SubInv'
  <2>1. suback' \in [Conn -> SUBSET Topic] /\ subscribed' \subseteq Topic
    BY <1>5 DEF OnSubscribed, Topic
  <2>2. client' = client /\ client \in Conn \cup {NoConn}
    BY <1>5 DEF OnSubscribed, awsVars, awsOwn, AwsInv, AwsTypeOK
  <2>3. CASE topic = "shadow"
    BY <1>5, <2>1, <2>2, <2>3 DEF OnSubscribed
  <2>4. CASE topic = "dynamic" /\ client # NoConn
    <3>1. client # c => suback[client] \subseteq suback'[client]
      BY <1>5, <2>2, <2>4 DEF OnSubscribed
    <3>2. client = c => "shadow" \in suback'[client]
      BY <1>5, <2>2, <2>4 DEF OnSubscribed
    <3>3. subscribed \subseteq subscribed'
      BY <1>5 DEF OnSubscribed
    <3> QED BY <2>1, <2>2, <2>4, <3>1, <3>2, <3>3
  <2> QED BY <2>1, <2>2, <2>3, <2>4 DEF Topic
<1> QED BY <1>1, <1>2, <1>3, <1>4, <1>5
        DEF Callback, OnConnectionSuccess, OnConnectionResumed

THEOREM SubInvariant == SubSpec => [](AwsInv /\ SubInv)
<1>1. SubInit => AwsInv /\ SubInv
  BY AwsStart DEF SubInit, AwsInit, SubInv, SubTypeOK, SubscriptionUnderWay
<1>2. AwsInv /\ SubInv /\ [SubNext]_subVars => (AwsInv /\ SubInv)'
  <2> SUFFICES ASSUME AwsInv, SubInv, [SubNext]_subVars
               PROVE  AwsInv' /\ SubInv'
    OBVIOUS
  <2>1. AwsInv'
    BY StepOfAws, AwsStep
  <2>2. CASE Other /\ UNCHANGED subscription
    <3>1. client' = client
      BY <2>2 DEF Other, DeliverAws, awsOwn, Disconnect, Terminated, SetReported, Loop,
                  StartAws, ClientBuilt, BuildFails
    <3> QED BY <2>1, <2>2, <3>1 DEF SubInv, SubTypeOK, SubscriptionUnderWay, subscription
  <2>3. CASE UNCHANGED subVars
    BY <2>1, <2>3 DEF subVars, awsVars, awsOwn, subscription, SubInv, SubTypeOK, SubscriptionUnderWay
  <2> QED BY <2>1, <2>2, <2>3, CallbackStep DEF SubNext
<1> QED BY <1>1, <1>2, PTL DEF SubSpec

(* While there is a client, the shadow is subscribed or being subscribed,  *)
(* however connections replace each other.                                 *)
THEOREM ShadowIsSubscribed == SubSpec => []SubscriptionUnderWay
  BY SubInvariant, PTL DEF SubInv

(* The subscription never interferes with the connections: every behaviour *)
(* of the two is one of the connections alone.                             *)
THEOREM SubscriptionFollows == SubSpec => AwsSpec
<1>1. SubInit => AwsInit
  BY DEF SubInit
<1>2. [SubNext]_subVars => [AwsNext]_awsVars
  BY StepOfAws
<1> QED BY <1>1, <1>2, PTL DEF SubSpec, AwsSpec

===============================================================================
