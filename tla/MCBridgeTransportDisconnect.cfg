SPECIFICATION FairSpec
CONSTANTS
    t1 = t1
    t2 = t2
    p1 = p1
    p2 = p2
    q1 = q1
    q2 = q2
    k1 = k1
    k2 = k2
    main = main
    None = None
    Names = {main}
    Procs = {p1}
    Queues = {q1}
    Tasks = {k1}
    Transports = {t1}
    NameOf <- OneName
    Reconnecting = {}
    Deciding = {}
    Readers = {t1}
    Calls = {"spawn", "stop", "close", "disconnect", "cancel"}
    Kinds = {"message"}
    MaxOut = 0
    MaxErr = 0
    MaxWrites = 0
    MaxEvents = 0
PROPERTIES
    DisconnectTerminates
