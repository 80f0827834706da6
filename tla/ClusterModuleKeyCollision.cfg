CONSTANTS
    KcpNames <- MCCollidingKcpNames
    MdNames <- MCCollidingMdNames
    CreateBehaviour <- MCAllOk
    MaxModules = 5
    MaxFaults = 0
    MaxOwnerEvents = 2
    MaxLostModules = 1

SPECIFICATION Spec

INVARIANT ModuleBelongsToTarget
