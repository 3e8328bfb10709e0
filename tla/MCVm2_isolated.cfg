CONSTANTS
    h1 = h1  h2 = h2  h3 = h3
    r1 = r1  r2 = r2  r3 = r3  r4 = r4
    p1 = p1  rA = rA  rB = rB
    NoRegion = NoRegion
    Handles <- MCHandles
    Regions <- MCRegions
    Pages <- MCPages
    Data <- MCData
    RegFiles <- MCRegFiles
    InitRegs = rA
SPECIFICATION Spec
INVARIANT Isolated
