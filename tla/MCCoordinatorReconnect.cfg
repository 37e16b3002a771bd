\* The broker fails again and again; the service serves.
SPECIFICATION CoordFairSpec
CONSTANTS
    t1 = t1
    t2 = t2
    Task = {t1, t2}
    c1 = c1
    c2 = c2
    Conn = {c1, c2}
    NoConn = NoConn
    EncryptTries = 1
    QueueBound = 2
    QueueLimit = 8
    Trouble = {"mqtt"}
PROPERTIES
    BrokerReached
CHECK_DEADLOCK FALSE
