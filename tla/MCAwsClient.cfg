\* Two connections and two initializations, any callbacks.
SPECIFICATION SubFairSpec
CONSTANTS
    t1 = t1
    t2 = t2
    Task = {t1, t2}
    c1 = c1
    c2 = c2
    Conn = {c1, c2}
    NoConn = NoConn
    QueueBound = 1
INVARIANTS
    AwsTypeOK
    
    ConnectingGoesOn
    SubscriptionUnderWay
PROPERTIES
    SubscriptionCompletes
