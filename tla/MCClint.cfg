SPECIFICATION ClintSpec
CONSTANTS
    Half = 4
    WriteData = {0, 2, 3}
    SwRegs = {"msip", "mtimecmp_lo", "mtimecmp_hi", "mtime_lo", "mtime_hi"}
INVARIANT
    ClintTypeOK
PROPERTIES
    MtimeIsWideCounter
    MtipHeld
