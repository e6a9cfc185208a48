SPECIFICATION Spec
CONSTANTS
    Generations <- TwoGenerations
    HookInputs <- SomeHooks
    ValueInputs <- SomeValues
    Entries <- TwoEntries
    TagInputs <- SomeTags
    StatusInputs <- SomeStatus
    UpdateInputs <- SomeUpdates
    ReferenceInputs <- SomeResolutions
CHECK_DEADLOCK FALSE
INVARIANTS HooksInOrder SubchartSees CurrentDeserved FieldsReclaimed ReferencesTold
