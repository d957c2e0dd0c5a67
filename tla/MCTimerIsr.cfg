SPECIFICATION TimerSpec
CONSTANTS
    Half = 16
    WriteData = {}
    SwRegs = {}
    Delay = 9
INVARIANTS
    NoEarlyTrap
    MtipSeenInHandler
PROPERTY
    TimerProgramFinishes
