\* The service answers 401 now and then.
SPECIFICATION CoordSpec
CONSTANTS
    t1 = t1
    t2 = t2
    Task = {t1, t2}
    c1 = c1
    c2 = c2
    Conn = {c1, c2}
    NoConn = NoConn
    EncryptTries = 1
    QueueBound = 2
    QueueLimit = 4
    Trouble = {"unauthorized"}
SYMMETRY Interchangeable
INVARIANTS
    ReconnectsAfter401
CHECK_DEADLOCK FALSE
