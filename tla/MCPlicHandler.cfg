\* Two contexts, three sources; every kind of device and of handler.
CONSTANTS
    N = 3
    Contexts = {0, 1}
    MaxPrio = 1
    MaxId = 3
    Serialized = TRUE
    SwKinds = {"claim"}
    BootPriority <- MCBootPriority
    BootEnable <- MCBootEnable
    BootThreshold <- MCBootThreshold
SPECIFICATION HSpec
INVARIANTS HTypeOK NothingLeftInService NoSpuriousClaim
PROPERTIES PersistentSourceServed ProgramFinishes
