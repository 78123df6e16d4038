SPECIFICATION Spec
CONSTANTS
    Addrs <- MCAddrs
    Tables <- MCTables
INVARIANTS
    FunctionRight
    LineStabRight
    FileRight
CHECK_DEADLOCK FALSE
