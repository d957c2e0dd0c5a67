SPECIFICATION TopSpec
CONSTANTS
    R <- MCRegs
    F <- MCFields
    WData <- MCWData
    PortVals <- MCPortVals
PROPERTY
    WarlCoercesDownward
