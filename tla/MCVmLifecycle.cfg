CONSTANTS
    h1 = h1
    h2 = h2
    h3 = h3
    r1 = r1
    r2 = r2
    r3 = r3
    r4 = r4
    r5 = r5
    NoRegion = NoRegion
    Handles <- MCHandles
    Regions <- MCRegions

SPECIFICATION Spec

INVARIANT Isolated
