SPECIFICATION FairSpec
CONSTANTS
    MaxOut = 1
    MaxErr = 0
    MaxIn = 1
    MaxEvents = 2
    Codes = {zero}
    zero = zero
    NoCode = NoCode
PROPERTIES
    FirstReadReturns
    
