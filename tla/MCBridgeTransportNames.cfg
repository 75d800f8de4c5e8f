SPECIFICATION Spec
CONSTANTS
    t1 = t1
    t2 = t2
    p1 = p1
    p2 = p2
    q1 = q1
    q2 = q2
    k1 = k1
    k2 = k2
    main = main
    None = None
    Names = {main}
    Procs = {p1, p2}
    Queues = {q1, q2}
    Tasks = {k1, k2}
    Transports = {t1, t2}
    NameOf <- OneName
    Reconnecting = {}
    Deciding = {}
    Readers = {}
    Calls = {"spawn", "stop"}
    Kinds = {"message"}
    MaxOut = 0
    MaxErr = 0
    MaxWrites = 0
    MaxEvents = 0
SYMMETRY FullSymmetry
PROPERTIES
    SparesSuccessor
    LeftBehindKnowingly
CHECK_DEADLOCK FALSE
