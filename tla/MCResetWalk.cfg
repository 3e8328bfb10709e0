CONSTANTS
    DataPages <- MCDataPages
    PtPage <- MCPtPage
    Data <- MCData
    RegFiles <- MCRegFiles

SPECIFICATION WSpec

PROPERTY WalkRefinesAtomic
