SPECIFICATION Spec
CONSTANTS
    Char = {"/", "a", "A", ":", "1", "2"}
    Config <- MCConfig
    Host <- MCHost
    Path <- MCPath
INVARIANTS
    MostSpecificWins
    RuntimeOfMatch
    ForwardedRestores
CHECK_DEADLOCK FALSE
