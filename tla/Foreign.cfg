SPECIFICATION AdoptionSpec
CONSTANTS
    Keys <- ChurnKeys
    Kind <- AllOther
    NamespaceOf <- Nowhere
    TypeOf <- Nowhere
    Contents <- XY
    Revisions <- ThreeRevisions
    Manifest <- RivalsManifest
    ExtraManaged <- NoKeys
    CreateMissingNamespaces = FALSE
    Preexisting <- NoKeys
    Disturbances = {"create", "takeover", "delete"}
    MaxDisturbances = 2
    MaxEdits = 1
CHECK_DEADLOCK FALSE
INVARIANTS CallInv
PROPERTIES DeletesOnlyOwned AdoptionRespected
