CONSTANTS
    DataPages <- MCDataPages
    PtPage <- MCPtPage
    Data <- MCData
    RegFiles <- MCRegFiles

SPECIFICATION Spec

INVARIANT TypeOK
INVARIANT DivergenceTracked
PROPERTY ResetRestoresGuestWrites
