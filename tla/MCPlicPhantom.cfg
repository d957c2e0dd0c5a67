\* One context, independent AXI4-Lite channels, a claim read in the cycle after a completion.
CONSTANTS
    N = 2
    Contexts = {0}
    MaxPrio = 2
    MaxId = 3
    Serialized = FALSE
    SwKinds <- AllKinds
SPECIFICATION Spec
PROPERTIES ClaimReadLatches
