SPECIFICATION CounterSpec
CONSTANTS
    R <- MCRegs
    F <- MCFields
    Width = 5
    LowCsr = "mcycle"
    HighCsr = "mcycleh"
    WriteData <- MCWriteData
    Targets <- NoHalf
PROPERTY
    CarryIsRollover
