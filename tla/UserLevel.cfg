CONSTANTS
    EntityAmounts <- MCEntityAmounts
    ProcedureAmounts <- MCProcedureAmounts
    MaxTotal = 1400
    MaxLevel = 9
SPECIFICATION Spec
INVARIANTS
    ConservesXp
    EntityAgreesWithReference
    LevelNeverBelowReference
