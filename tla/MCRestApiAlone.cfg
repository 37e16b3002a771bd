\* One coroutine at a time.
SPECIFICATION ApiFairSpec
CONSTANTS
    t1 = t1
    Task = {t1}
    EncryptTries = 3
    QueueBound = 3

    
PROPERTIES
    ChainEnds
