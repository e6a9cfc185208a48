SPECIFICATION MCSpec
CONSTANTS
    Keys <- TwoKeys
    Processes <- Commands
    Deleting <- OneDeletes
    Manifest <- Manifests
    MaxErrCount = 1
    Disturbances = {"conflict", "fail", "timeout", "crash"}
    Disturbable = {"p"}
    MaxDisturbances = 2
CHECK_DEADLOCK FALSE
INVARIANTS NoSilentLoss SuccessesAreNumbered
PROPERTIES SuccessCleansUp CommandsEnd
