CONSTANTS
    KcpNames <- MCKcpNames
    MdNames <- MCMdNames
    CreateBehaviour <- MCAllOk
    MaxModules = 7
    MaxFaults = 1
    MaxOwnerEvents = 2
    MaxLostModules = 1

SPECIFICATION Spec

PROPERTY ImplementsBindings
