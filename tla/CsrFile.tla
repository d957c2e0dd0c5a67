------------------------------- MODULE CsrFile -------------------------------
(***************************************************************************)
(* The generated CSR file (emit_csr_file.py): one clock edge of its `seq`  *)
(* block and its combinational read path.  Within an edge the last         *)
(* assignment to a field wins: software write over counter increment over  *)
(* hardware drive.                                                         *)
(***************************************************************************)
EXTENDS CsrDesign

VARIABLES
    fval,    \* the stored value of every field
    pulse    \* <signal>_r: the trap signals that are high in this cycle

fileVars == <<fval, pulse>>

\* csr.cmd_op
READ == 0
WRITE == 1
SET == 2
CLEAR == 3
Ops == READ..CLEAR

FileInit ==
    /\ fval = [f \in Fields |-> F[f].reset]
    /\ pulse = [s \in Signals |-> FALSE]

(***************************************************************************)
(* The software side.  A command is a record [valid, addr, op, wdata].     *)
(***************************************************************************)
Fires(cmd, granted) == cmd.valid /\ granted /\ cmd.op # READ

WriteStatement(f) == F[f].sw_writable /\ ~F[f].wpri

Written(f, cmd, granted) ==
    Fires(cmd, granted) /\ cmd.addr = Addr(f) /\ WriteStatement(f)

\* Faulty: SET without slicing the write data
NewValueUnsliced(f, cmd) ==
    CASE cmd.op = WRITE -> cmd.wdata \cap Bits(f)
      [] cmd.op = SET   -> fval[f] \cup cmd.wdata
      [] cmd.op = CLEAR -> fval[f] \ cmd.wdata
      [] OTHER          -> fval[f]

NewValue(f, cmd) ==
    LET slice == cmd.wdata \cap Bits(f)
    IN CASE cmd.op = WRITE -> slice
         [] cmd.op = SET   -> fval[f] \cup slice
         [] cmd.op = CLEAR -> fval[f] \ slice
         [] OTHER          -> fval[f]

\* Faulty: only the tags of registers raise a signal
RaisedByRegister(s, cmd, granted) ==
    /\ Fires(cmd, granted)
    /\ \E r \in Regs : R[r].address = cmd.addr /\ R[r].trap_signal = s

\* The trap signals a firing command raises: a register's own on any write,
\* a field's when the field has a write statement.
Raised(s, cmd, granted) ==
    /\ Fires(cmd, granted)
    /\ \/ \E r \in Regs : R[r].address = cmd.addr /\ R[r].trap_signal = s
       \/ \E f \in Fields : Addr(f) = cmd.addr /\ WriteStatement(f)
                                               /\ F[f].trap_signal = s

(***************************************************************************)
(* The counter side: en is the set of increment enables that are high.     *)
(***************************************************************************)
\* Faulty: a carry for as long as the low half stands at its maximum
IncrementsUngated(f, en) ==
    \/ f \in LowCounters /\ F[f].hw_increment_when \in en
    \/ f \in HighCounters /\ fval[LowField(f)] = LowMax(LowField(f))

Increments(f, en) ==
    \/ f \in LowCounters /\ F[f].hw_increment_when \in en
    \/ /\ f \in HighCounters
       /\ F[LowField(f)].hw_increment_when \in en
       /\ fval[LowField(f)] = LowMax(LowField(f))

(***************************************************************************)
(* One clock edge                                                          *)
(***************************************************************************)
Next1(f, cmd, granted, hwif, en) ==
    IF Written(f, cmd, granted) THEN Legalize(f, NewValue(f, cmd))
    ELSE IF Increments(f, en) THEN Increment(f, fval[f])
    ELSE IF f \in HwFields THEN hwif[f]
    ELSE fval[f]

Edge(cmd, granted, hwif, en) ==
    /\ fval' = [f \in Fields |-> Next1(f, cmd, granted, hwif, en)]
    /\ pulse' = [s \in Signals |-> Raised(s, cmd, granted)]

(***************************************************************************)
(* The read path: the first register declared at the address answers.      *)
(***************************************************************************)
ReadView(r) ==
    UNION {fval[f] : f \in {f \in Fields : /\ F[f].reg = r
                                           /\ F[f].sw_readable /\ ~F[f].wpri}}

Rdata(addr) ==
    LET hits == {r \in Regs : R[r].address = addr}
    IN IF hits = {} THEN {}
       ELSE ReadView(CHOOSE r \in hits : \A q \in hits : r <= q)

FileTypeOK ==
    /\ fval \in [Fields -> SUBSET (0..63)]
    /\ \A f \in Fields : fval[f] \subseteq Bits(f)
    /\ pulse \in [Signals -> BOOLEAN]
=============================================================================
