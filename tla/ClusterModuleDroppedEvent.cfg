CONSTANTS
    KcpNames <- MCKcpNames
    MdNames <- MCMdNames
    CreateBehaviour <- MCCreateBehaviour
    MaxModules = 6
    MaxFaults = 1
    MaxOwnerEvents = 2
    MaxLostModules = 1
    MaxLookupFailures = 1

SPECIFICATION Spec

PROPERTY OwnerCreateReconciled
