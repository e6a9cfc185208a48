SPECIFICATION FairSpec
CONSTANTS
    Keys <- TwoKeys
    Contents <- XY
    Absences <- Gone
    RenderedFrom <- FromXY
    NeverReady <- OnlyY
    IgnoreOnDeletion = TRUE
    Timeout = 2
    Disturbances = {"crash", "retriable", "error", "lost", "flicker", "trigger"}
    MaxDisturbances = 1
    MaxEdits = 1
    MaxChanges = 1
CHECK_DEADLOCK FALSE
INVARIANTS FinalizerGuards ReadyMeansApplied NeverPanics TimeoutDeserved NeverForgotten
PROPERTIES KeepsLedger TimeoutRunsOn RevisionCountsDigests Settles DeletionEnds
