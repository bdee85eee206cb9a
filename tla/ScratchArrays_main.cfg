\* First arrays of two rows of two bytes, and lists that need up to eight.
SPECIFICATION ScFairSpec
CONSTANTS
    short = short
    padded = padded
    long = long
    Empty = empty
    Blank = blank
    Cut = cut
    Strings <- FiveStrings
    StrLen <- Lengths
    Trimmed <- Trims
    Lists <- SomeLists
    Errors = {3, 4}
    InitialLen = 2
    MaxLen = 16
    MaxLost = 1
INVARIANTS ScTypeOK AnswersAreGdals LastRowEmpty DomainListsFreed AppDefinedMeansTooSmall
PROPERTIES MethodReturns MethodNearsItsEnd
