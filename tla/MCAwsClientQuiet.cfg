\* The transition that IGNORED_TRANSITIONS excludes.
SPECIFICATION SubSpec
CONSTANTS
    t1 = t1
    Task = {t1}
    c1 = c1
    c2 = c2
    Conn = {c1, c2}
    NoConn = NoConn
    QueueBound = 2
PROPERTIES
    DisconnectedStaysQuiet
