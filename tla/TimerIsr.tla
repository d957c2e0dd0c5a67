------------------------------ MODULE TimerIsr ------------------------------
(***************************************************************************)
(* The CLINT in the SoC with the program of tests/cpu/sw/timer_isr.S on    *)
(* the CPU: it clears mtimecmp_hi, sets mtimecmp_lo to mtime_lo + Delay,   *)
(* enables traps and waits for the handler's flag.  The SoC ties           *)
(* mtime_tick high; the CPU may spend any number of cycles per             *)
(* instruction.  The model's time stops one tick before mtime wraps, which *)
(* stands for the 2^64 cycles that never pass.                             *)
(***************************************************************************)
EXTENDS Clint

CONSTANT Delay     \* 100 in the program

ASSUME DelayInRange == Delay \in 1..(Half - 1)

VARIABLES
    pc,         \* where the program is; a store or load waits for its response
    mie,        \* the MIE bit of mstatus and the MTIE bit of mie, together
    t1,         \* the register of that name
    saw_trap,   \* the flag the handler sets
    saved_mip,  \* the MTIP bit of mip that the handler stored
    readAt      \* history: mtime when the program read mtime_lo

progVars == <<pc, mie, t1, saw_trap, saved_mip, readAt>>
timerVars == <<clintVars, progVars>>

Tick == Mtime < Half * Half - 1

NoBus == WriteBeat(Tick, NoWrite) /\ NoReadBeat

\* sw to CLINT register n, from location p to q
StoreTo(p, q, n, d) ==
    /\ pc = p
    /\ WriteBeat(Tick, Store(n, d)) /\ NoReadBeat
    /\ pc' = q
    /\ UNCHANGED <<mie, t1, saw_trap, saved_mip, readAt>>

\* li t0, CLINT_MTIMECMP_HI; sw zero, 0(t0)
ClearHigh == StoreTo("start", "cleared", "mtimecmp_hi", 0)

\* li t0, CLINT_MTIME_LO; lw t1, 0(t0)
LoadTime ==
    /\ pc = "cleared" /\ ~bresp_valid_r
    /\ ReadBeat("mtime_lo") /\ WriteBeat(Tick, NoWrite)
    /\ readAt' = Mtime
    /\ pc' = "loading"
    /\ UNCHANGED <<mie, t1, saw_trap, saved_mip>>

\* The response, and addi t1, t1, Delay: one word wide
AddDelay ==
    /\ pc = "loading" /\ rresp_valid_r
    /\ t1' = (rdata_r + Delay) % Half
    /\ pc' = "loaded"
    /\ NoBus /\ UNCHANGED <<mie, saw_trap, saved_mip, readAt>>

\* li t0, CLINT_MTIMECMP_LO; sw t1, 0(t0)
StoreLow == StoreTo("loaded", "armed", "mtimecmp_lo", t1)

\* csrs mstatus, MIE (mie.MTIE was set before)
EnableTraps ==
    /\ pc = "armed" /\ ~bresp_valid_r
    /\ mie' = TRUE
    /\ pc' = "waiting"
    /\ NoBus /\ UNCHANGED <<t1, saw_trap, saved_mip, readAt>>

\* irq_timer_i is taken in the waiting loop
Trap ==
    /\ pc = "waiting" /\ mie /\ Mtip
    /\ pc' = "handler"
    /\ NoBus /\ UNCHANGED <<mie, t1, saw_trap, saved_mip, readAt>>

\* csrr t0, mip
SaveMip ==
    /\ pc = "handler"
    /\ saved_mip' = Mtip
    /\ pc' = "saved"
    /\ NoBus /\ UNCHANGED <<mie, t1, saw_trap, readAt>>

\* csrc mie, MTIE; saw_trap = 1; mret
Disarm ==
    /\ pc = "saved"
    /\ mie' = FALSE
    /\ saw_trap' = TRUE
    /\ pc' = "waiting"
    /\ NoBus /\ UNCHANGED <<t1, saved_mip, readAt>>

\* The loop sees the flag: done_marker = 0xFEEDFACE
Finish ==
    /\ pc = "waiting" /\ saw_trap
    /\ pc' = "done"
    /\ NoBus /\ UNCHANGED <<mie, t1, saw_trap, saved_mip, readAt>>

\* A cycle in which no instruction of interest retires.  A response is taken
\* in the cycle it arrives.
Stall == /\ ~rresp_valid_r
         /\ NoBus /\ UNCHANGED progVars

CpuStep == ClearHigh \/ LoadTime \/ AddDelay \/ StoreLow \/ EnableTraps
              \/ Trap \/ SaveMip \/ Disarm \/ Finish

TimerInit ==
    /\ ClintInit
    /\ pc = "start" /\ mie = FALSE /\ t1 = 0
    /\ saw_trap = FALSE /\ saved_mip = FALSE /\ readAt = 0

\* The CPU does not stop between two instructions and takes a pending trap;
\* the clock runs.
TimerSpec ==
    /\ TimerInit /\ [][CpuStep \/ Stall]_timerVars
    /\ WF_timerVars(CpuStep) /\ WF_timerVars(CpuStep \/ Stall)

(***************************************************************************)
(* Properties                                                              *)
(***************************************************************************)

\* The interrupt is never early: in the cycle after the trap, more than Delay
\* ticks have gone by since the program read the time, provided the sum of the
\* read time and the delay fits in mtime_lo (the program ignores mtime_hi and
\* the carry).
NoEarlyTrap ==
    pc \in {"handler", "saved"} /\ readAt + Delay < Half => Mtime > readAt + Delay

\* What test_timer_isr.py asserts of the finished program: the handler saw
\* MTIP still pending in mip, however late it came to look.
MtipSeenInHandler == saw_trap => saved_mip

\* The program reaches its completion sentinel whatever mtime_lo was when it
\* armed the timer.
TimerProgramFinishes == <>(pc = "done")
=============================================================================
