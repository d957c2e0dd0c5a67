------------------------------- MODULE CsrTop -------------------------------
(***************************************************************************)
(* The three generated CSR modules wired into one design, as               *)
(* tests/sim/integrated_top.py wires them: the access controller grants    *)
(* commands to the CSR file, the trap coordinator chooses what drives the  *)
(* hardware-writable fields.  The pipeline around them chooses a command,  *)
(* trap and return pulses, port values and increment enables every cycle.  *)
(***************************************************************************)
EXTENDS CsrFile

CONSTANTS
    WData,      \* the write data software uses in this instance
    PortVals    \* the values the pipeline puts on its ports: a set of
                \* functions from the hardware-writable fields to values

\* The widths of the ports
ASSUME TopConstants ==
    /\ WData \subseteq SUBSET (0..63)
    /\ \A v \in PortVals, f \in HwFields : v[f] \subseteq Bits(f)

VARIABLE priv   \* cur_priv: 0 = U, 1 = S, 3 = M

topVars == <<fval, pulse, priv>>

(***************************************************************************)
(* Access controller (emit_access_controller.py)                           *)
(***************************************************************************)
Privs == {0, 1, 3}
PrivBits(tag) == CASE tag = "u" -> 0 [] tag = "s" -> 1 [] tag = "m" -> 3

\* Faulty: the riscv_priv tags are not consulted
MinPrivByAddress(addr) == (addr \div 256) % 4

\* The first register declared at the address with a riscv_priv tag
\* overrides the privilege encoded in address bits 9:8.
MinPriv(addr) ==
    LET tagged == {r \in Regs : R[r].address = addr /\ R[r].priv # "none"}
    IN IF tagged = {} THEN (addr \div 256) % 4
       ELSE PrivBits(R[CHOOSE r \in tagged : \A q \in tagged : r <= q].priv)

IsRo(addr) == (addr \div 1024) % 4 = 3

AccessOk(cmd, p) == p >= MinPriv(cmd.addr) /\ ~(IsRo(cmd.addr) /\ cmd.op # READ)

Granted(cmd, p) == cmd.valid /\ AccessOk(cmd, p)

(***************************************************************************)
(* Trap coordinator (emit_trap_coordinator.py): save / restore / mirror    *)
(* ports and hwif_in_live are functions from fields to values.             *)
(***************************************************************************)
Drive(f, trap_enter, xret_enter, save, restore, mirror, live) ==
    IF F[f].hw_mirror THEN mirror[f]
    ELSE IF F[f].save_on_trap /\ trap_enter THEN save[f]
    ELSE IF F[f].restore_on_ret /\ xret_enter THEN restore[f]
    ELSE live[f]

HwifInDrive(trap_enter, xret_enter, save, restore, mirror, live) ==
    [f \in HwFields |->
        Drive(f, trap_enter, xret_enter, save, restore, mirror, live)]

(***************************************************************************)
(* The pipeline                                                            *)
(***************************************************************************)
NoCmd == [valid |-> FALSE, addr |-> 0, op |-> READ, wdata |-> {}]

Cmds == {NoCmd} \cup
        [valid : {TRUE}, addr : {R[r].address : r \in Regs}, op : Ops \ {READ},
         wdata : WData]

\* hwif_out fed back: what the Ibex adapter does with hwif_in_live.  The test
\* top ties it to zeros, a member of PortVals.
Hold == [f \in HwFields |-> fval[f]]

\* An illegal access raises an exception, a trap goes to M, a return to any
\* level.  The pipeline runs no CSR instruction in a trap or return cycle.
Instruction(cmd, en) ==
    /\ \E ext \in PortVals, live \in PortVals \cup {Hold} :
          Edge(cmd, Granted(cmd, priv),
               HwifInDrive(FALSE, FALSE, ext, ext, ext, live), en)
    /\ UNCHANGED priv

TrapEnter(en) ==
    /\ \E ext \in PortVals, save \in PortVals, live \in PortVals \cup {Hold} :
          Edge(NoCmd, FALSE, HwifInDrive(TRUE, FALSE, save, Hold, ext, live), en)
    /\ priv' = 3

XretEnter(en) ==
    /\ priv # 0
    /\ \E ext \in PortVals, restore \in PortVals, live \in PortVals \cup {Hold} :
          Edge(NoCmd, FALSE, HwifInDrive(FALSE, TRUE, Hold, restore, ext, live), en)
    /\ priv' \in {p \in Privs : p <= priv}

TopInit == FileInit /\ priv = 3

TopNext == \E en \in SUBSET Enables :
               \/ \E cmd \in Cmds : Instruction(cmd, en)
               \/ TrapEnter(en)
               \/ XretEnter(en)

TopSpec == TopInit /\ [][TopNext]_topVars

(***************************************************************************)
(* Contracts the generator leaves to its users                             *)
(***************************************************************************)

\* The pipeline drives only legal values into WARL fields.
PortsLegal == \A v \in PortVals, f \in HwFields : v[f] \in LegalValues(f)

\* No two registers share an address (validate does not look).
DistinctAddresses ==
    \A r, q \in Regs : R[r].address = R[q].address => r = q

(***************************************************************************)
(* Properties                                                              *)
(***************************************************************************)
TopTypeOK == FileTypeOK /\ priv \in Privs

\* A WARL field that does not count holds a legal value in every cycle,
\* whatever mixture of software operations, saves, restores and drives.
WarlAlwaysLegal ==
    PortsLegal =>
        \A f \in Fields \ Counters :
            F[f].reset \in LegalValues(f) => fval[f] \in LegalValues(f)

\* The fields only software can change
SwOnly == {f \in Fields \ Counters : ~F[f].hw_writable}

Level(r) == IF R[r].priv = "none" THEN (R[r].address \div 256) % 4
            ELSE PrivBits(R[r].priv)

\* The state of a register that only software writes changes only while the
\* core runs at the level the register is tagged with, or its address
\* encodes, and never in the read-only address space: the grant of the access
\* controller and the write decode of the CSR file agree on the register.
PrivilegeProtects ==
    [][DistinctAddresses =>
         \A f \in SwOnly :
            fval'[f] # fval[f] => /\ priv >= Level(F[f].reg)
                                  /\ ~IsRo(Addr(f))]_topVars

\* No change of a field that carries a trap signal goes unannounced, and an
\* announcement means a privileged write to a register that carries it.
ChangesAnnounced ==
    [][/\ \A f \in SwOnly :
            fval'[f] # fval[f] /\ F[f].trap_signal # "none"
                => pulse'[F[f].trap_signal]
       /\ DistinctAddresses =>
            \A s \in Signals : pulse'[s] =>
               \E r \in Regs : /\ \/ R[r].trap_signal = s
                                  \/ \E f \in Fields : F[f].reg = r /\ F[f].trap_signal = s
                               /\ priv >= Level(r)]_topVars

\* emit_csr_file.py:38-40 and udps/warl.py:10-13: an enumerated field takes
\* the largest listed value not above the one software wrote, or the minimum
\* when the written value is below all of them.
Nearest(f, v) ==
    LET below == {w \in F[f].warl.legal : w = v \/ Below(w, v)}
    IN IF below = {} THEN Least(F[f].warl.legal)
       ELSE CHOOSE w \in below : \A u \in below : u = w \/ Below(u, w)

WarlCoercesDownward ==
    [][\A cmd \in Cmds, f \in Fields, en \in SUBSET Enables :
         (/\ F[f].warl.kind = "enum"
          /\ cmd.op = WRITE
          /\ Written(f, cmd, Granted(cmd, priv))
          /\ Instruction(cmd, en)
          /\ fval'[f] # fval[f])
            => fval'[f] = Nearest(f, cmd.wdata \cap Bits(f))]_topVars
=============================================================================
