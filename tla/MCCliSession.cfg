SPECIFICATION Spec
CONSTANTS
    MaxOut = 2
    MaxErr = 1
    MaxIn = 3
    MaxEvents = 3
    Codes = {}
    zero = zero
    NoCode = NoCode
CONSTRAINT Budget
INVARIANTS
    TypeOK
    NoUnsignalledOrphan
    ExitEventsAreEarned
    StdinInOrder
    InterceptedOnce
PROPERTIES
    SilentAfterExit
    NoStrayAfterExit
    ImplementsStream
