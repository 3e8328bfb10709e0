CONSTANTS
    PageSize <- MCPageSize
    IdtAddress <- MCIdtAddress
    Vals <- MCVals
    CodeAddrs <- MCCodeAddrs
    StackAddrs <- MCStackAddrs
    SyscallSites <- MCSyscallSites
    Vectors <- MCVectors
    PfKinds <- MCPfKinds
    FaultAddrs <- MCFaultAddrs

SPECIFICATION Spec
CONSTRAINT RunsBound

INVARIANT PageFaultDecoded
