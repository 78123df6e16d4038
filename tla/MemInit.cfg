SPECIFICATION Spec
CONSTANTS
    PageKB = 4
    KB1M = 32
    KB16M = 64
    KB64 = 32
    PGSIZE = 16
    SizeofPageInfo = 2
    SizeofPtr = 1
    NPTENTRIES = 16
    KERNBASE = 96
    KernTables = 2
    IOPHYSMEM = 6
    EXTPHYSMEM = 8
    BootStack = 9
    KernEnd = 10
    KSTKSIZE = 2
    Machines <- MCMachines
INVARIANTS
    KernelPagesNotFree
    CountsMatchList
    NoFault
    KernelMapComplete
PROPERTY Boots
CHECK_DEADLOCK FALSE
