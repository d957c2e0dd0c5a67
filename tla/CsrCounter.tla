----------------------------- MODULE CsrCounter -----------------------------
(***************************************************************************)
(* A 2w-bit counter split over two CSRs of w bits (mcycle / mcycleh), as   *)
(* the CSR file generates it: the fields tagged riscv_hw_increment_when    *)
(* and riscv_hw_increment_high_of, counting and being written at once.     *)
(***************************************************************************)
EXTENDS CsrFile

CONSTANTS
    LowCsr,             \* the field that counts
    HighCsr,            \* the field that takes its carry
    WriteData,          \* what software writes
    Targets             \* the halves it writes to

FieldWidth == Cardinality(Bits(LowCsr))

\* The two fields are the halves of one counter: a premise of what is said of
\* them, and no assumption about the other fields of the design.
CounterPair ==
    /\ LowCsr \in LowCounters /\ HighCsr \in HighCounters
    /\ LowField(HighCsr) = LowCsr
    /\ Bits(LowCsr) = 0..(FieldWidth - 1) /\ Bits(HighCsr) = Bits(LowCsr)
    /\ Addr(LowCsr) # Addr(HighCsr)
    /\ Targets \subseteq {LowCsr, HighCsr}

NoWrite == [valid |-> FALSE, addr |-> 0, op |-> READ, wdata |-> {}]

Writes == {NoWrite} \cup
          [valid : {TRUE}, addr : {Addr(f) : f \in Targets}, op : Ops,
           wdata : WriteData]

CounterCycle(cmd, en) == Edge(cmd, TRUE, [f \in HwFields |-> fval[f]], en)

CounterSpec ==
    /\ FileInit
    /\ [][\E cmd \in Writes, en \in SUBSET Enables : CounterCycle(cmd, en)]_fileVars

\* The number that a field holds, read from its highest bit down
Number(v) ==
    LET upper[n \in 0..FieldWidth] ==
          IF n = 0 THEN 0
          ELSE 2 * upper[n - 1] + (IF FieldWidth - n \in v THEN 1 ELSE 0)
    IN upper[FieldWidth]

Half == Number(Bits(LowCsr)) + 1

\* The two CSRs are one wide counter: in every cycle, whatever the enable and
\* whichever half software writes, they do what the wide counter does with the
\* same count and load.
Wide == INSTANCE WideCounter WITH
    value <- Number(fval[HighCsr]) * Half + Number(fval[LowCsr])

Stored(f, cmd) == Number(Legalize(f, NewValue(f, cmd)))

LoadOf(cmd) ==
    CASE Written(LowCsr, cmd, TRUE)  -> Wide!Load("low", Stored(LowCsr, cmd))
      [] Written(HighCsr, cmd, TRUE) -> Wide!Load("high", Stored(HighCsr, cmd))
      [] OTHER                       -> Wide!NoLoad

ImplementsWideCounter ==
    [][\A cmd \in Writes, en \in SUBSET Enables :
         CounterCycle(cmd, en) =>
             Wide!Step(F[LowCsr].hw_increment_when \in en, LoadOf(cmd))]_fileVars

\* udps/counter.py:14-16: the high half increments when the low half is at its
\* maximum, "i.e. the +1 rolls low over to zero and carries into high".  (For
\* software that writes neither half, every change of the high half is a carry.)
CarryIsRollover ==
    [][fval'[HighCsr] # fval[HighCsr]
         => fval[LowCsr] = Bits(LowCsr) /\ fval'[LowCsr] = {}]_fileVars
=============================================================================
