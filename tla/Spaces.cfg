SPECIFICATION Spec
CONSTANTS
    Keys <- SpacesKeys
    Kind <- SpacesKind
    NamespaceOf <- SpacesNamespaceOf
    TypeOf <- Nowhere
    Contents <- XY
    Revisions <- TwoRevisions
    Manifest <- SpacesManifest
    ExtraManaged <- NoKeys
    CreateMissingNamespaces = TRUE
    Preexisting <- SpacesPreexisting
    Disturbances = {"crash", "delete"}
    MaxDisturbances = 1
    MaxEdits = 1
CHECK_DEADLOCK FALSE
INVARIANTS TypeOK
PROPERTIES DeletesInOrder
