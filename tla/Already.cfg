SPECIFICATION Spec
CONSTANTS
    Keys <- ChurnKeys
    Kind <- AllOther
    NamespaceOf <- Nowhere
    TypeOf <- Nowhere
    Contents <- XY
    Revisions <- TwoRevisions
    Manifest <- ReturnManifest
    ExtraManaged <- NoKeys
    CreateMissingNamespaces = FALSE
    Preexisting <- NoKeys
    Disturbances = {}
    MaxDisturbances = 0
    MaxEdits = 3
CHECK_DEADLOCK FALSE
INVARIANTS NeverAlreadyDeleted
