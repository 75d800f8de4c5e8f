SPECIFICATION Spec
CONSTANTS
    x = x
    y = y
    read = read
    Components <- ShortNames
    MaxDepth = 2
    Bases <- OnlyA
    HostDir <- InA
    Questions <- TwoQuestions
    Patterns <- TwoKeys
    Mentions <- TheirMentions
    Policies <- AllPolicies
    MaxChain = 3
    Chars = {x, y}
    ToolNames = {read}
    NoTool = NoTool
    Cap = 3
    MaxChunk = 2
    MaxDeltas = 2
    MaxBlocks = 2
    MaxTurns = 2
    Texts <- SomeTexts
    Names <- ShortNames
    MaxNames = 2
    Tokens = {0}
    Servers <- OneServer
    Definitions <- TwoDefinitions
    NoValue = NoValue
    Environments <- SomeEnvironments
    MaxSet = 3
    MaxDamage = 1
    MaxNewKeys = 1
INVARIANTS
    PolicyTypeOK
    FirstOpinionWins
    WritesStayInside
    AllowCarriesInput
    ActivityTypeOK
    PhaseTells
    ShowsLastBlocks
    ReadsBack
    EnvironmentsAgree
    Stable
    Lossless
    RustReadsThem
PROPERTIES
    NewKeysTolerated
CHECK_DEADLOCK FALSE
