CONSTANTS
    DataPages <- MCDataPages
    PtPage <- MCPtPage
    Data <- MCData
    RegFiles <- MCRegFiles
    NumPages <- MCNumPages

SPECIFICATION LSpec

PROPERTY LoopRefinesWalk
