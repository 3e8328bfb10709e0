CONSTANTS
    DataPages <- MCDataPages
    PtPage <- MCPtPage
    Data <- MCData
    RegFiles <- MCRegFiles

SPECIFICATION Spec

PROPERTY ResetCorrect
