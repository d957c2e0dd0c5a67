----------------------------- MODULE IbexAdapter -----------------------------
(***************************************************************************)
(* The generated CSR file and trap coordinator inside the Ibex core: the   *)
(* adapter of tests/cpu/soc/ibex_cs_registers_hybrid.sv with the fields of *)
(* tests/rdl/mtrap_ibex.rdl.  priv is the core's priv_lvl_q.  The access   *)
(* controller is not instantiated (granted is tied high), so this model    *)
(* runs CSR instructions in M-mode only, where all of them are legal.      *)
(*                                                                         *)
(* External, from how the adapter uses it: the core's controller takes an  *)
(* interrupt while irqs_o is up and MIE is set or the core is in U-mode,   *)
(* and raises csr_save_cause_i, csr_restore_mret_i and csr_op_en_i in      *)
(* different cycles.  Debug mode is never entered.                         *)
(***************************************************************************)
EXTENDS CsrTop

CONSTANTS
    Lines,          \* the interrupt lines of this instance
    Cause,          \* the flat mcause value of each line
    SyncCauses,     \* those of the synchronous exceptions
    Pcs,            \* exception_pc: addresses, bit 0 clear
    BootAddr        \* {boot_addr_i[31:8], 6'b0, 2'b01}

\* Where the bits of a line are in mie and mip
EnableOf == [software |-> "mie_msie", timer |-> "mie_mtie",
             external |-> "mie_meie", fast0 |-> "mie_mfie_0"]
PendingOf == [software |-> "mip_msip", timer |-> "mip_mtip",
              external |-> "mip_meip", fast0 |-> "mip_mfip_0"]

ASSUME AdapterConstants ==
    /\ Lines \subseteq DOMAIN EnableOf
    /\ {"mstatus_mie", "mstatus_mpie", "mstatus_mpp", "mepc_epc", "mcause_cause",
        "mtvec_base"} \subseteq Fields
    /\ \A i \in Lines : EnableOf[i] \in Fields /\ PendingOf[i] \in Fields
    /\ \A c \in SyncCauses \cup {Cause[i] : i \in Lines} : c \subseteq Bits("mcause_cause")
    /\ Counters = {}
    /\ \A pc \in Pcs : pc \subseteq Bits("mepc_epc") \ {0}

\* The tags of mtrap_ibex.rdl that the adapter relies on
Status == {"mstatus_mie", "mstatus_mpie", "mstatus_mpp"}

ASSUME AdapterTable ==
    /\ \A r, q \in Regs : R[r].address = R[q].address => r = q
    /\ \A f \in Fields : /\ WriteStatement(f) => F[f].sw_readable
                         /\ F[f].reset \in LegalValues(f)
                         /\ F[f].hw_writable => {} \in LegalValues(f)
    /\ Pcs \subseteq LegalValues("mepc_epc")
    /\ SyncCauses \cup {Cause[i] : i \in Lines} \subseteq LegalValues("mcause_cause")

ASSUME StatusTable ==
    /\ Bits("mstatus_mie") = {3} /\ Bits("mstatus_mpie") = {7}
    /\ Bits("mstatus_mpp") = {11, 12}
    /\ \A f \in Status : /\ F[f].reg = F["mstatus_mie"].reg
                         /\ F[f].hw_writable /\ LegalValues(f) = SUBSET Bits(f)
                         /\ ~F[f].wpri /\ ~F[f].hw_mirror /\ F[f].restore_on_ret
                         /\ F[f].save_on_trap <=> f # "mstatus_mie"

ASSUME PendingTable ==
    \A i \in Lines : LET f == PendingOf[i]
                     IN /\ F[f].hw_writable /\ F[f].hw_mirror
                        /\ Bits(f) \in LegalValues(f)
                        /\ F[f].sw_readable /\ ~F[f].sw_writable /\ ~F[f].wpri

VARIABLES
    irq,       \* the lines irq_*_i that are up in this cycle
    booted,    \* csr_mtvec_init_i has pulsed
    entry,     \* history: MIE and privilege at the last trap, until software
               \* writes mstatus or returns
    handling   \* history: the line whose interrupt is being handled, for as
               \* long as it stays up

adapterVars == <<topVars, irq, booted, entry, handling>>

NoEntry == [live |-> FALSE, mie |-> FALSE, priv |-> 0]

Up(f) == fval[f] # {}

(***************************************************************************)
(* The trap coordinator's ports                                            *)
(***************************************************************************)
\* Two bits of mpp and a privilege level
PrivOfMpp == (IF 11 \in fval["mstatus_mpp"] THEN 1 ELSE 0)
             + (IF 12 \in fval["mstatus_mpp"] THEN 2 ELSE 0)
MppOfPriv == (IF priv % 2 = 1 THEN {11} ELSE {}) \cup (IF priv \div 2 = 1 THEN {12} ELSE {})

\* Faulty: mstatus.mie held through a trap
LiveHoldsMie(save_cause) ==
    [f \in HwFields |-> IF F[f].wpri \/ F[f].hw_mirror THEN {} ELSE fval[f]]

\* ourfile_hwif_in_live: hold, but MIE is cleared by a trap and the reserved
\* fields are 0
Live(save_cause) ==
    [f \in HwFields |->
        IF F[f].wpri \/ F[f].hw_mirror \/ (save_cause /\ f = "mstatus_mie") THEN {}
        ELSE fval[f]]

\* The save, restore and mirror ports.  Fields without a port read anything;
\* mtval and mscratch, which only store, are left out of the table.
Save(pc, cause) ==
    [f \in HwFields |-> CASE f = "mepc_epc"     -> pc \ {0}
                          [] f = "mcause_cause" -> cause
                          [] f = "mstatus_mpie" -> IF Up("mstatus_mie") THEN {7} ELSE {}
                          [] f = "mstatus_mpp"  -> MppOfPriv
                          [] OTHER              -> {}]

\* Faulty: MIE comes back set
RestoreOn ==
    [f \in HwFields |-> CASE f = "mstatus_mie"  -> {3}
                          [] f = "mstatus_mpie" -> {7}
                          [] OTHER              -> {}]

Restore ==
    [f \in HwFields |-> CASE f = "mstatus_mie"  -> IF Up("mstatus_mpie") THEN {3} ELSE {}
                          [] f = "mstatus_mpie" -> {7}
                          [] OTHER              -> {}]

\* Faulty: the mirror samples what software has enabled
MirrorEnabled ==
    [f \in HwFields |-> IF \E i \in irq : PendingOf[i] = f /\ Up(EnableOf[i])
                        THEN Bits(f) ELSE {}]

Mirror == [f \in HwFields |-> IF \E i \in irq : PendingOf[i] = f THEN Bits(f) ELSE {}]

(***************************************************************************)
(* The command port and the clock edge                                     *)
(***************************************************************************)
\* csr_wdata_int: SET and CLEAR are computed here from the read data
CsrWdata(addr, op, w) == CASE op = SET   -> Rdata(addr) \cup w
                           [] op = CLEAR -> Rdata(addr) \ w
                           [] OTHER      -> w

\* Faulty: the operation is forwarded with the combined data
CmdForwarded(addr, op, w) ==
    [valid |-> TRUE, addr |-> addr, op |-> op, wdata |-> CsrWdata(addr, op, w)]

\* and collapsed to a plain WRITE.
Cmd(addr, op, w) ==
    [valid |-> TRUE, addr |-> addr, op |-> IF op = READ THEN READ ELSE WRITE,
     wdata |-> CsrWdata(addr, op, w)]

BootCmd == [valid |-> TRUE, addr |-> Addr("mtvec_base"), op |-> WRITE, wdata |-> BootAddr]

\* The counters, whose enables the adapter gates, are those of CsrCounter.
AdapterEdge(cmd, trap, mret, save) ==
    Edge(cmd, TRUE, HwifInDrive(trap, mret, save, Restore, Mirror, Live(trap)), {})

NoSave == Save({}, {})

(***************************************************************************)
(* The core                                                                *)
(***************************************************************************)
\* irqs_o: the wires themselves, not the stored mip
Irqs == {i \in irq : Up(EnableOf[i])}

\* A line that is still up keeps the history of its handler.
StillHandling == handling' = IF handling \in irq THEN handling ELSE "none"

Boot ==
    /\ ~booted /\ booted' = TRUE
    /\ AdapterEdge(BootCmd, FALSE, FALSE, NoSave)
    /\ UNCHANGED <<priv, entry, handling>>

CsrInstruction(addr, op, w) ==
    /\ booted /\ priv = 3
    /\ AdapterEdge(Cmd(addr, op, w), FALSE, FALSE, NoSave)
    /\ entry' = IF addr = Addr("mstatus_mie") THEN NoEntry ELSE entry
    /\ StillHandling
    /\ UNCHANGED <<priv, booted>>

\* A cycle without a CSR write, a CSR read among them
OtherInstruction ==
    /\ booted
    /\ AdapterEdge(NoCmd, FALSE, FALSE, NoSave)
    /\ StillHandling
    /\ UNCHANGED <<priv, booted, entry>>

\* csr_save_cause_i
SaveCause(cause) ==
    /\ booted
    /\ \E pc \in Pcs : AdapterEdge(NoCmd, TRUE, FALSE, Save(pc, cause))
    /\ priv' = 3
    /\ entry' = [live |-> TRUE, mie |-> Up("mstatus_mie"), priv |-> priv]
    /\ UNCHANGED booted

Exception == /\ \E cause \in SyncCauses : SaveCause(cause)
             /\ handling' = "none"

Interrupt(i) ==
    /\ i \in Irqs
    /\ Up("mstatus_mie") \/ priv = 0
    /\ SaveCause(Cause[i])
    /\ handling' = i

\* csr_restore_mret_i
Mret ==
    /\ booted /\ priv = 3
    /\ priv' = PrivOfMpp
    /\ entry' = NoEntry /\ handling' = "none"
    /\ AdapterEdge(NoCmd, FALSE, TRUE, NoSave)
    /\ UNCHANGED booted

AdapterInit ==
    /\ FileInit /\ priv = 3
    /\ irq = {} /\ booted = FALSE /\ entry = NoEntry /\ handling = "none"

AdapterNext ==
    /\ \/ Boot
       \/ \E r \in Regs, op \in Ops \ {READ}, w \in WData :
             CsrInstruction(R[r].address, op, w)
       \/ OtherInstruction
       \/ Exception
       \/ \E i \in Lines : Interrupt(i)
       \/ Mret
    /\ irq' \in SUBSET Lines

AdapterSpec == AdapterInit /\ [][AdapterNext]_adapterVars

(***************************************************************************)
(* Properties                                                              *)
(***************************************************************************)

\* The file's types, and every stored value is one its WARL tag allows: the
\* ports of the adapter are the legal ports the CSR file has to rely on, and
\* software reads back the trap base the core uses (mtrap_ibex.rdl:129-142).
AdapterTypeOK ==
    /\ FileTypeOK
    /\ \A f \in Fields : fval[f] \in LegalValues(f)
    /\ priv \in 0..3
    /\ irq \subseteq Lines /\ booted \in BOOLEAN
    /\ entry \in [live : BOOLEAN, mie : BOOLEAN, priv : 0..3]
    /\ handling \in Lines \cup {"none"}

\* ibex_cs_registers_hybrid.sv:557-563: a handler that reads mip finds the
\* bit of the line that caused its trap, as long as the line stays up, though
\* the trap was taken on the wire and mip is a cycle behind it.
CauseVisibleInMip ==
    handling # "none" => Bits(PendingOf[handling]) \subseteq Rdata(Addr(PendingOf[handling]))

\* mstatus_csrfile.S:9-10 and trap_lifecycle.py: whatever a handler does
\* short of writing mstatus, its mret brings back the MIE and the privilege
\* of the moment the trap was taken.
MretUndoesTrap ==
    [][Mret /\ entry.live => /\ fval'["mstatus_mie"] # {} <=> entry.mie
                             /\ priv' = entry.priv]_adapterVars

\* mstatus_csrfile.S:9: nested interrupts are blocked.  Between a trap and
\* its return, no interrupt is taken unless software writes mstatus.
NoNestedInterrupt ==
    [][entry.live => \A i \in Lines : ~Interrupt(i)]_adapterVars

\* ibex_cs_registers_hybrid.sv:1906-1913: whatever is stored, the collapsed
\* operation stores what the CSR file would store for the operation itself,
\* at every address.
CollapseIsExact ==
    \A r \in Regs, op \in {SET, CLEAR}, w \in WData :
        LET cmd == Cmd(R[r].address, op, w)
            raw == [valid |-> TRUE, addr |-> R[r].address, op |-> op, wdata |-> w]
        IN \A f \in Fields :
              /\ Written(f, cmd, TRUE) <=> Written(f, raw, TRUE)
              /\ Written(f, raw, TRUE) =>
                    Legalize(f, NewValue(f, cmd)) = Legalize(f, NewValue(f, raw))
=============================================================================
