SPECIFICATION TopSpec
CONSTANTS
    R <- MCRegs
    F <- MCFields
    WData <- MCWData
    PortVals <- MCPortVals
INVARIANTS
    TopTypeOK
    WarlAlwaysLegal
PROPERTIES
    PrivilegeProtects
    ChangesAnnounced
