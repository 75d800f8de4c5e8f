SPECIFICATION FairSpec
CONSTANTS
    t1 = t1
    t2 = t2
    p1 = p1
    p2 = p2
    q1 = q1
    q2 = q2
    k1 = k1
    k2 = k2
    main = main
    None = None
    Names = {main}
    Procs = {p1}
    Queues = {q1, q2}
    Tasks = {k1}
    Transports = {t1}
    NameOf <- OneName
    Reconnecting = {}
    Deciding = {t1}
    Readers = {t1}
    Calls = {"spawn", "stop", "close", "disconnect", "cancel",
             "write"}
    Kinds = {"message", "request", "invalid request", "rejected"}
    MaxOut = 1
    MaxErr = 0
    MaxWrites = 1
    MaxEvents = 1
INVARIANTS
    AnsweredOrYielded
PROPERTIES
    StopEndsReading
    ExitEndsReading
