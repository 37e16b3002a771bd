\* The broker fails, and the service answers one request with a text.
SPECIFICATION CoordSpec
CONSTANTS
    t1 = t1
    t2 = t2
    t3 = t3
    Task = {t1, t2, t3}
    c1 = c1
    c2 = c2
    c3 = c3
    Conn = {c1, c2, c3}
    NoConn = NoConn
    EncryptTries = 1
    QueueBound = 3
    QueueLimit = 6
    Trouble = {"mqtt", "malformed"}
SYMMETRY Interchangeable
INVARIANTS
    BrokerFailureHandled
    NoSilentStall
CHECK_DEADLOCK FALSE
