SPECIFICATION Spec
CONSTANTS
    p0 = p0
    p1 = p1
    p2 = p2
    p3 = p3
    NULL = NULL
    NoPTE = NoPTE
    Junk = Junk
    Page <- MCPages
    FreeList0 <- MCList
    IOHole = {p0}
    RefMod = 4
    PDXs = {1, 2}
    PTXs = {1, 2}
    Perms <- MCPerms
    TLBSize = 1
INVARIANT TLBPermCoherent
