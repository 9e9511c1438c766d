SPECIFICATION Spec
CONSTANTS
    s1 = s1
    s2 = s2
    Hooks <- MCHooks
    Absent = Absent
    Truncated = Truncated
    GrubTool = TRUE
SYMMETRY HookSymmetry
INVARIANTS
    TypeOK
    HookApplied
    UnitHasConfig
    RemovedForGood
