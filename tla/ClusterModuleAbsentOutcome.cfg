CONSTANTS
    KcpNames <- MCKcpNames
    MdNames <- MCMdNames
    CreateBehaviour <- MCCreateBehaviour
    MaxModules = 5
    MaxFaults = 0
    MaxOwnerEvents = 1
    MaxLostModules = 0

SPECIFICATION Spec

INVARIANT AbsentOutcomeAssertsNoCondition
