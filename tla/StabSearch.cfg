SPECIFICATION SearchSpec
CONSTANT Searches <- MCSearches
INVARIANTS
    Bracketed
    FindsRegion
    NothingFound
PROPERTY Terminates
CHECK_DEADLOCK FALSE
