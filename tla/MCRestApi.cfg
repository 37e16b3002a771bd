\* Three coroutines under any interleaving, any answer of the service.
SPECIFICATION ApiSpec
CONSTANTS
    t1 = t1
    t2 = t2
    t3 = t3
    Task = {t1, t2, t3}
    EncryptTries = 2
    QueueBound = 3
SYMMETRY Coroutines
INVARIANTS
    ApiTypeOK
    NoOrphanStatus
    
