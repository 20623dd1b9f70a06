SPECIFICATION Spec
CONSTANTS
    g1 = g1
    g2 = g2
    g3 = g3
    f1 = f1
    f2 = f2
    NoFlag = NoFlag
    Guards <- MCGuards
    Flags <- MCFlags
INVARIANTS
    TypeOK
    HeldByOneGuard
