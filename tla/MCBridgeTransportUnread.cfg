SPECIFICATION Spec
CONSTANTS
    t1 = t1
    t2 = t2
    p1 = p1
    p2 = p2
    q1 = q1
    q2 = q2
    k1 = k1
    k2 = k2
    main = main
    None = None
    Names = {main}
    Procs = {p1}
    Queues = {q1}
    Tasks = {k1}
    Transports = {t1}
    NameOf <- OneName
    Reconnecting = {}
    Deciding = {}
    Readers = {t1}
    Calls = {"spawn", "close", "cancel"}
    Kinds = {"breaking"}
    MaxOut = 1
    MaxErr = 0
    MaxWrites = 0
    MaxEvents = 1
SYMMETRY TaskSymmetry
PROPERTIES
    CloseKills
