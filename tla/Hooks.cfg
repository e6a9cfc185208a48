SPECIFICATION Spec
CONSTANTS
    Keys <- HooksKeys
    Kind <- AllOther
    NamespaceOf <- Nowhere
    TypeOf <- Nowhere
    Contents <- XY
    Revisions <- TwoRevisions
    Manifest <- HooksManifest
    ExtraManaged <- NoKeys
    CreateMissingNamespaces = FALSE
    Preexisting <- NoKeys
    Disturbances = {"lose", "expire"}
    MaxDisturbances = 1
    MaxEdits = 1
CHECK_DEADLOCK FALSE
INVARIANTS PurgedIsGone
PROPERTIES AppliesInOrder
