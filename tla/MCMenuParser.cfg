SPECIFICATION Spec
CONSTANTS
    A = A
    B = B
    NoTitle = NoTitle
    Titles <- MCTitles
    MaxLines = 7
    MaxDepth = 4
SYMMETRY TitleSymmetry
INVARIANTS
    TypeOK
    TargetsReported
    StackIsPath
CHECK_DEADLOCK FALSE
