SPECIFICATION Spec
CONSTANTS
    x = x
    y = y
    read = read
    Components <- ShortNames
    MaxDepth = 2
    Bases <- RootAndA
    HostDir <- InA
    Questions <- TwoQuestions
    Patterns <- TwoKeys
    Mentions <- TheirMentions
    Policies <- AllPolicies
    MaxChain = 2
    Chars = {x, y}
    ToolNames = {read}
    NoTool = NoTool
    Cap = 3
    MaxChunk = 2
    MaxDeltas = 2
    MaxBlocks = 2
    MaxTurns = 1
    Texts <- SomeTexts
    Names <- ShortNames
    MaxNames = 2
    Tokens = {0}
    Servers <- OneServer
    Definitions <- TwoDefinitions
    NoValue = NoValue
    Environments <- SomeEnvironments
    MaxSet = 1
    MaxDamage = 0
    MaxNewKeys = 0
INVARIANTS
    InsideIsAllowed
CHECK_DEADLOCK FALSE
