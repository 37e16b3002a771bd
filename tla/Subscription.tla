----------------------------- MODULE Subscription -----------------------------
(***************************************************************************)
(* The subscription of the topics of the robot (AWSClient._subscribe): a   *)
(* chain of requests, one topic after the other, that the callbacks of the *)
(* connections start and the confirmations of the broker continue, while   *)
(* connections come and go as they do in AwsClient.                        *)
(***************************************************************************)
EXTENDS AwsClient

VARIABLES
    suback,         \* the topics whose subscription each connection has requested
    subscribed      \* the topics of the broker's session

subscription == <<suback, subscribed>>
subVars      == <<awsVars, subscription>>

(* The topics in the order in which they are subscribed (TopicData).       *)
Topic == {"dynamic", "shadow"}

SubTypeOK ==
    /\ suback \in [Conn -> SUBSET Topic]
    /\ subscribed \subseteq Topic

SubInit ==
    /\ AwsInit
    /\ suback = [c \in Conn |-> {}]
    /\ subscribed = {}

(* Mutant: the subscription starts with the second topic.                  *)
SubscribeSecond(c, resumed) ==
    \E present \in BOOLEAN :
        /\ subscribed' = IF present THEN subscribed ELSE {}
        /\ suback' = [suback EXCEPT ![c] = @ \cup {"shadow"}]

(* _subscribe: the first topic is requested.  The broker may have          *)
(* forgotten the session; then a resumed connection also asks again for    *)
(* its topics, which are taken to be those of the session.                 *)
Subscribe(c, resumed) ==
    \E present \in BOOLEAN :
        /\ subscribed' = IF present THEN subscribed ELSE {}
        /\ suback' = [suback EXCEPT ![c] = @ \cup {"dynamic"}
                          \cup IF resumed /\ ~present THEN subscribed ELSE {}]

(* What a connection that is gone had asked for is gone with it.           *)
Forget(c) ==
    /\ suback' = [suback EXCEPT ![c] = {}]
    /\ UNCHANGED subscribed

(* Mutant: the second topic is not requested.                              *)
OnSubscribedOnly(c, topic) ==
    /\ CrtFree /\ topic \in suback[c] /\ conn[c] = "up"
    /\ subscribed' = subscribed \cup {topic}
    /\ suback' = [suback EXCEPT ![c] = @ \ {topic}]
    /\ UNCHANGED awsVars

(* The broker confirms a topic; after the first one, the second is         *)
(* requested from whatever connection is the client now.                   *)
OnSubscribed(c, topic) ==
    /\ CrtFree /\ topic \in suback[c] /\ conn[c] = "up"
    /\ subscribed' = subscribed \cup {topic}
    /\ suback' = [d \in Conn |->
            (IF d = c THEN suback[d] \ {topic} ELSE suback[d])
            \cup (IF topic = "dynamic" /\ d = client /\ conn[d] \in {"up", "lost"}
                  THEN {"shadow"} ELSE {})]
    /\ UNCHANGED awsVars

-------------------------------------------------------------------------------
Callback(c) ==
    \/ OnConnectionSuccess(c) /\ Subscribe(c, FALSE)
    \/ OnConnectionResumed(c) /\ Subscribe(c, TRUE)
    \/ (OnConnectionClosed(c) \/ Collected(c)) /\ Forget(c)
    \/ (OnConnectionFailure(c) \/ OnConnectionInterrupted(c)) /\ UNCHANGED subscription
    \/ \E topic \in Topic : OnSubscribed(c, topic)

Other ==
    \/ DeliverAws \/ Disconnect
    \/ Room /\ (Terminated \/ SetReported \/ \E t \in Task : Loop(t))

SubNext ==
    \/ Other /\ UNCHANGED subscription
    \/ \E c \in Conn : Callback(c)

SubSpec == SubInit /\ [][SubNext]_subVars

(* A callback runs to its end, a disconnection that was asked for is done, *)
(* the broker confirms the subscriptions, and the loop delivers.           *)
SubFairSpec ==
    /\ SubSpec
    /\ WF_subVars(DeliverAws /\ UNCHANGED subscription)
    /\ SF_subVars(Room /\ SetReported /\ UNCHANGED subscription)
    /\ \A c \in Conn :
          /\ SF_subVars(OnConnectionClosed(c) /\ Forget(c))
          /\ \A topic \in Topic : SF_subVars(OnSubscribed(c, topic))

-------------------------------------------------------------------------------
(* The shadow topic, without which no state of the robot arrives, is       *)
(* subscribed or still being subscribed whenever there is a client,        *)
(* although the second subscription goes to whichever connection is the    *)
(* client when the first one is confirmed.                                 *)
SubscriptionUnderWay ==
    client # NoConn =>
        \/ "shadow" \in subscribed
        \/ suback[client] # {}

SubInv == SubTypeOK /\ SubscriptionUnderWay

(* A client that stays CONNECTED ends up with both topics.                 *)
SubscriptionCompletes ==
    <>[](awsStatus = "CONNECTED") => <>[](subscribed = Topic)

===============================================================================
