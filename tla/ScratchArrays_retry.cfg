\* An operation of the library itself fails with CPLE_AppDefined.
SPECIFICATION ScSpec
CONSTANTS
    short = short
    padded = padded
    long = long
    Empty = empty
    Blank = blank
    Cut = cut
    Strings <- FiveStrings
    StrLen <- Lengths
    Trimmed <- Trims
    Lists <- SomeLists
    Errors = {1, 4}
    InitialLen = 2
    MaxLen = 16
    MaxLost = 1
INVARIANTS AppDefinedMeansTooSmall
