SPECIFICATION Spec
CONSTANTS
    Keys <- ChurnKeys
    Kind <- AllOther
    NamespaceOf <- Nowhere
    TypeOf <- Nowhere
    Contents <- XY
    Revisions <- TwoRevisions
    Manifest <- ReturnManifest
    ExtraManaged <- NoKeys
    CreateMissingNamespaces = FALSE
    Preexisting <- NoKeys
    Disturbances = {"fail"}
    MaxDisturbances = 1
    MaxEdits = 3
CHECK_DEADLOCK FALSE
INVARIANTS NothingRedundant
