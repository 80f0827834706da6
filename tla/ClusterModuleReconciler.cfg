CONSTANTS
    KcpNames <- MCKcpNames
    MdNames <- MCMdNames
    CreateBehaviour <- MCCreateBehaviour
    MaxModules = 8
    MaxFaults = 2
    MaxOwnerEvents = 3
    MaxLostModules = 1

SPECIFICATION Spec

INVARIANT TypeOK
INVARIANT AtMostOneControlPlaneModule
INVARIANT ModuleBelongsToTarget
INVARIANT UniqueModuleKeys
INVARIANT NoOrphanWithoutFailure
PROPERTY SuccessMeansOwnersCovered
PROPERTY PartialFailureIsolation
PROPERTY IdempotentPass
PROPERTY EventuallyConverged
