SPECIFICATION FairConnSpec
CONSTANTS
    p1 = p1
    q1 = q1
    k1 = k1
    k2 = k2
    main = main
    None = None
    Names = {main}
    Procs = {p1}
    Queues = {q1}
    Tasks = {k1, k2}
    Kinds = {"message", "junk", "breaking"}
    MaxOut = 2
    MaxErr = 1
INVARIANTS
    ConnTypeOK
    OutputThenExit
    NothingLostAtEof
PROPERTIES
    KillKills
    ExitReported
    CallsReturn
