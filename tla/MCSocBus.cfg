\* The SoC's data bus with one PLIC source; a core that waits and one that does not.
CONSTANTS
    N = 1
    Contexts = {0}
    MaxPrio = 1
    MaxId = 1
    Serialized = FALSE
    SwKinds <- MCKinds
    Base <- MCBase
    Size <- MCSize
    Addresses <- MCAddresses
SPECIFICATION SocSpec
INVARIANTS SocTypeOK AnsweredByGranted
PROPERTIES GrantedAfterOneWait PlicBehindBridge
           ContractOnTheBus ClaimsOnTheBusAreLive
