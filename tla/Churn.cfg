SPECIFICATION Spec
CONSTANTS
    Keys <- ChurnKeys
    Kind <- AllOther
    NamespaceOf <- Nowhere
    TypeOf <- Nowhere
    Contents <- XY
    Revisions <- ThreeRevisions
    Manifest <- ChurnManifest
    ExtraManaged <- NoKeys
    CreateMissingNamespaces = FALSE
    Preexisting <- NoKeys
    Disturbances = {"crash", "fail", "lose"}
    MaxDisturbances = 1
    MaxEdits = 2
CHECK_DEADLOCK FALSE
INVARIANTS IndInv OwnedIsTracked DoneMeansSynced
PROPERTIES WriteAhead ImplementsLedger
