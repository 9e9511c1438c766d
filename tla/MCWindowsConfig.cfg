SPECIFICATION Spec
CONSTANTS
    MaxRequests = 3
INVARIANTS
    SavedIsFound
