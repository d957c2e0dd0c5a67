SPECIFICATION CounterSpec
CONSTANTS
    R <- MCRegs
    F <- MCFields
    Width = 4
    LowCsr = "mcycle"
    HighCsr = "mcycleh"
    WriteData <- MCWriteData
    Targets <- BothHalves
PROPERTY
    ImplementsWideCounter
