-------------------------------- MODULE Clint --------------------------------
(***************************************************************************)
(* The generated core-local interruptor: the ClintLogic module of          *)
(* emit_clint_logic.py wired to the AXI4-Lite register block of the same   *)
(* RDL (golden output: tests/expected/clint_basic).  One step is one       *)
(* rising clock edge.  A 32-bit register is a number below Half.           *)
(***************************************************************************)
EXTENDS Integers

CONSTANTS
    Half,            \* 2^32 in the code: the values of one register
    WriteData,       \* what software writes in this instance
    SwRegs           \* the registers it writes to

Registers == {"msip", "mtimecmp_lo", "mtimecmp_hi", "mtime_lo", "mtime_hi"}

ASSUME ClintConstants ==
    /\ Half \in Nat /\ Half > 1
    /\ WriteData \subseteq 0..(Half - 1)
    /\ SwRegs \subseteq Registers

VARIABLES
    reg,             \* the stored value of every register
    bresp_valid_r, rresp_valid_r,    \* a write / read response is outstanding
    rdata_r          \* the data of the last read

clintVars == <<reg, bresp_valid_r, rresp_valid_r, rdata_r>>

(***************************************************************************)
(* The comparator and the increment                                        *)
(***************************************************************************)
Mtime == reg["mtime_hi"] * Half + reg["mtime_lo"]
Mtimecmp == reg["mtimecmp_hi"] * Half + reg["mtimecmp_lo"]

\* Faulty: the comparison the wrong way round
MtipSwapped == Mtimecmp >= Mtime

\* mtip_out and msip_out, the wires to mip.mtip and mip.msip
Mtip == Mtime >= Mtimecmp
Msip == reg["msip"] # 0

\* Faulty: the two halves count without a carry between them
NextMtimeNoCarry(tick) ==
    IF tick THEN reg["mtime_hi"] * Half + ((reg["mtime_lo"] + 1) % Half) ELSE Mtime

NextMtime(tick) == IF tick THEN (Mtime + 1) % (Half * Half) ELSE Mtime

\* hwif_in: what the logic drives into each register every cycle
Driven(n, tick) == CASE n = "mtime_lo" -> NextMtime(tick) % Half
                     [] n = "mtime_hi" -> NextMtime(tick) \div Half
                     [] OTHER          -> reg[n]

\* Faulty: msip stores the whole word
AfterEdgeUnsliced(tick, w) ==
    [n \in Registers |->
        IF w.valid /\ w.to = n THEN w.data ELSE Driven(n, tick)]

\* The registers after an edge: the software write is last in the `seq`
\* block and wins over the drive.  msip keeps one bit.
AfterEdge(tick, w) ==
    [n \in Registers |->
        IF w.valid /\ w.to = n THEN IF n = "msip" THEN w.data % 2 ELSE w.data
        ELSE Driven(n, tick)]

(***************************************************************************)
(* The bus                                                                 *)
(***************************************************************************)
NoWrite == [valid |-> FALSE, to |-> "msip", data |-> 0]
Store(n, d) == [valid |-> TRUE, to |-> n, data |-> d]
Requests == {NoWrite} \cup {Store(n, d) : n \in SwRegs, d \in WriteData}

\* wr_fire, or the response is taken (b_ready)
WriteBeat(tick, w) ==
    /\ w.valid => ~bresp_valid_r
    /\ bresp_valid_r' = w.valid
    /\ reg' = AfterEdge(tick, w)

\* rd_fire of register n
ReadBeat(n) ==
    /\ ~rresp_valid_r
    /\ rresp_valid_r' = TRUE
    /\ rdata_r' = reg[n]

NoReadBeat == rresp_valid_r' = FALSE /\ UNCHANGED rdata_r

ClintInit ==
    /\ reg = [n \in Registers |->
                IF n \in {"mtimecmp_lo", "mtimecmp_hi"} THEN Half - 1 ELSE 0]
    /\ bresp_valid_r = FALSE /\ rresp_valid_r = FALSE /\ rdata_r = 0

ClintNext ==
    /\ \E tick \in BOOLEAN, w \in Requests : WriteBeat(tick, w)
    /\ NoReadBeat \/ \E n \in Registers : ReadBeat(n)

ClintSpec == ClintInit /\ [][ClintNext]_clintVars

(***************************************************************************)
(* Properties                                                              *)
(***************************************************************************)

\* Every register holds a value of its width; msip one bit.
ClintTypeOK ==
    /\ reg \in [Registers -> 0..(Half - 1)]
    /\ reg["msip"] \in {0, 1}
    /\ bresp_valid_r \in BOOLEAN /\ rresp_valid_r \in BOOLEAN
    /\ rdata_r \in 0..(Half - 1)

\* The two mtime registers are one counter of twice the width, whichever half
\* software replaces in whichever cycle of its carry.
Wide == INSTANCE WideCounter WITH value <- Mtime

LoadOf(w) == CASE w.valid /\ w.to = "mtime_lo" -> Wide!Load("low", w.data)
               [] w.valid /\ w.to = "mtime_hi" -> Wide!Load("high", w.data)
               [] OTHER                        -> Wide!NoLoad

MtimeIsWideCounter ==
    [][\A tick \in BOOLEAN, w \in Requests :
         WriteBeat(tick, w) => Wide!Step(tick, LoadOf(w))]_clintVars

\* mtip_out is a level: once raised it stays raised until software moves the
\* comparator or the timer, or the whole timer wraps.  No carry between the
\* halves withdraws a pending timer interrupt.
MtipHeld ==
    [][(Mtip /\ ~Mtip') =>
         \/ \E tick \in BOOLEAN, w \in Requests :
                w.valid /\ w.to # "msip" /\ WriteBeat(tick, w)
         \/ Mtime = Half * Half - 1]_clintVars
=============================================================================
