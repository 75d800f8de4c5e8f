SPECIFICATION Spec
CONSTANTS
    t1 = t1
    t2 = t2
    p1 = p1
    p2 = p2
    q1 = q1
    q2 = q2
    k1 = k1
    k2 = k2
    main = main
    None = None
    Names = {main}
    Procs = {p1}
    Queues = {q1}
    Tasks = {k1, k2}
    Transports = {t1}
    NameOf <- OneName
    Reconnecting = {t1}
    Deciding = {t1}
    Readers = {t1}
    Calls = {"spawn", "stop", "close", "cancel"}
    Kinds = {"message", "bare", "invalid", "invalid request"}
    MaxOut = 2
    MaxErr = 1
    MaxWrites = 2
    MaxEvents = 2
CONSTRAINT Budget
SYMMETRY TaskSymmetry
INVARIANTS
    TypeOK
    AtMostOneLate
    InterceptedOnce
PROPERTIES
    CloseKillsWhatItDrops
    ImplementsStream
