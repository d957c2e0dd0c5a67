\* One context behind the OBI bridge, software writes every register.
CONSTANTS
    N = 2
    Contexts = {0}
    MaxPrio = 2
    MaxId = 3
    Serialized = TRUE
    SwKinds <- AllKinds
SPECIFICATION Spec
INVARIANTS TypeOK CascadePicksBest  StaleClaimGuarded
PROPERTIES NoDoubleClaim ClaimsOnlyLiveSources ImplementsContract
