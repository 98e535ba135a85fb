SPECIFICATION Spec
CONSTANTS
    Values = {1, 2, 3}
    MaxSize = 8
    Inputs <- MCInputs
    Memories = {0, 2, 4, 6, 7, 8}
    Faults = {"read", "tmpfile", "fwrite", "lateFwrite", "fread", "write"}
INVARIANTS SortsWhatFits MergedInOrder NothingLost OutputInOrder
