\* The service fails in every way but a malformed answer; the broker serves.
SPECIFICATION CoordSpec
CONSTANTS
    t1 = t1
    t2 = t2
    Task = {t1, t2}
    c1 = c1
    c2 = c2
    Conn = {c1, c2}
    NoConn = NoConn
    EncryptTries = 1
    QueueBound = 2
    QueueLimit = 3
    Trouble = {"rest", "unauthorized"}
SYMMETRY Interchangeable
INVARIANTS
    CoordTypeOK
    RecoveryNotLost
    QuietMeansSettled
CHECK_DEADLOCK FALSE
