SPECIFICATION Spec
CONSTANTS
    Names = {"a", "1"}
    Numbers = {"1"}
    Atoi <- MCAtoi
    OtherWords = {"*"}
    Leftover = {"Char", "Unknown"}
    MaxTokens = 15
    MaxParses = 2
    Built <- MCBuilt
    PageSize = 24
    MaxWrites = 2
INVARIANTS SchemaSaysText KeysExist BackExists LoadsWhatWasWritten
