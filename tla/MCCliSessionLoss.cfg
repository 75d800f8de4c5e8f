SPECIFICATION Spec
CONSTANTS
    MaxOut = 1
    MaxErr = 0
    MaxIn = 0
    MaxEvents = 1
    Codes = {zero}
    zero = zero
    NoCode = NoCode
INVARIANTS
    NothingLostOnExit
