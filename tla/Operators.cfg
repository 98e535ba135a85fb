SPECIFICATION Spec
CONSTANTS
    Plans <- MCPlans
    MaxOpens = 2
    Span = 4
INVARIANTS PassYieldsAnswer NothingLeftFixed GoesWrongOnlyIf
