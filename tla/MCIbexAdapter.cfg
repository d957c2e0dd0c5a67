\* The generated CSRs inside Ibex: CSR instructions, traps and returns in any order.
CONSTANTS
    R <- MCRegs
    F <- MCFields
    WData <- MCWData
    PortVals <- NoPorts
    Lines <- MCLines
    Cause <- MCCause
    SyncCauses <- MCSyncCauses
    Pcs <- MCPcs
    BootAddr <- MCBootAddr
SPECIFICATION AdapterSpec
INVARIANTS AdapterTypeOK CauseVisibleInMip CollapseIsExact
PROPERTIES  NoNestedInterrupt
