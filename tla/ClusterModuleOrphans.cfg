CONSTANTS
    KcpNames <- MCKcpNames
    MdNames <- MCMdNames
    CreateBehaviour <- MCAllOk
    MaxModules = 7
    MaxFaults = 1
    MaxOwnerEvents = 2
    MaxLostModules = 0

SPECIFICATION Spec

INVARIANT OrphansOnlyFromFailedRemove
