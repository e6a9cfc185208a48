SPECIFICATION FairSpec
CONSTANTS
    Keys <- InstanceKeys
    Kind <- TypesKind
    NamespaceOf <- Nowhere
    TypeOf <- TypesTypeOf
    Contents <- XY
    Revisions <- TwoRevisions
    Manifest <- InstanceManifest
    ExtraManaged <- NoKeys
    CreateMissingNamespaces = FALSE
    Preexisting <- NoKeys
    Disturbances = {"crash", "lose", "flicker"}
    MaxDisturbances = 2
    MaxEdits = 1
CHECK_DEADLOCK FALSE
PROPERTIES Converges DeletionCompletes
