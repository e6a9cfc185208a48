SPECIFICATION Spec
CONSTANTS
    c1 = c1
    c2 = c2
    Components <- TwoComponents
    Namespace <- OneNamespace
    Kubeconfig <- OwnTarget
    User <- OpenAccount
    DefaultServiceAccount = "default"
    Activities <- TwoActivities
    FastDelays = 1
    MediumDelays = 1
    Validity = 1
    MaxClients = 5
    Expiration = 1
    MaxTime = 3
    MaxCalls = 4
SYMMETRY Swaps
CHECK_DEADLOCK FALSE
INVARIANTS InUseNotShutDown RightClients DelaysCountInARow
PROPERTIES RepeatedAfterExpiration
