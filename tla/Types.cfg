SPECIFICATION Spec
CONSTANTS
    Keys <- TypesKeys
    Kind <- TypesKind
    NamespaceOf <- Nowhere
    TypeOf <- TypesTypeOf
    Contents <- XY
    Revisions <- TwoRevisions
    Manifest <- TypesManifest
    ExtraManaged <- NoKeys
    CreateMissingNamespaces = FALSE
    Preexisting <- NoKeys
    Disturbances = {"crash", "lose", "create", "takeover", "flicker"}
    MaxDisturbances = 1
    MaxEdits = 1
CHECK_DEADLOCK FALSE
INVARIANTS TypeOutlivesInstances
PROPERTIES InstancesLast DeletesInOrder
