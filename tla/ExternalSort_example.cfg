SPECIFICATION Spec
CONSTANTS
    Values <- ExampleValues
    MaxSize = 0
    Inputs <- ExampleInputs
    Memories = {17}
    Faults = {}
INVARIANT SortsAnySize
