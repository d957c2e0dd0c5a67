-------------------------- MODULE IbexAdapter_proofs --------------------------
(***************************************************************************)
(* Proofs about the Ibex adapter, for any number of interrupt lines and    *)
(* any CSR table with the tags of mtrap_ibex.rdl.                          *)
(***************************************************************************)
EXTENDS IbexAdapter, Csr_proofs

(***************************************************************************)
(* The inductive invariant: while the trap is live MIE is down and MPIE    *)
(* and MPP hold what the core had, and the line being handled is in mip.   *)
(***************************************************************************)
Stacked ==
    entry.live => /\ booted /\ priv = 3
                  /\ fval["mstatus_mie"] = {}
                  /\ Up("mstatus_mpie") <=> entry.mie
                  /\ PrivOfMpp = entry.priv

Mirrored ==
    handling # "none" => booted /\ fval[PendingOf[handling]] = Bits(PendingOf[handling])

AdapterInv == AdapterTypeOK /\ Stacked /\ Mirrored

(***************************************************************************)
(* One edge                                                                *)
(***************************************************************************)

\* A legal value lies in its field.
LEMMA LegalInField ==
    ASSUME NEW f \in Fields, NEW v \in LegalValues(f)
    PROVE  v \subseteq Bits(f)
<1>1. F[f].warl.kind \in WarlKinds
  BY DesignAccepted DEF Elaborated
<1>2. F[f].warl.kind = "enum" => F[f].warl.legal \subseteq SUBSET Bits(f)
  BY DesignAccepted DEF Elaborated
<1>3. QED
  BY <1>1, <1>2 DEF WarlKinds, LegalValues

\* What an edge of the adapter leaves in a field.
LEMMA EdgeValue ==
    ASSUME NEW cmd, NEW trap, NEW mret, NEW save, AdapterEdge(cmd, trap, mret, save),
           NEW f \in Fields
    PROVE  fval'[f] = IF Written(f, cmd, TRUE) THEN Legalize(f, NewValue(f, cmd))
                      ELSE IF f \in HwFields
                      THEN Drive(f, trap, mret, save, Restore, Mirror, Live(trap))
                      ELSE fval[f]
<1>1. ~Increments(f, {})
  BY DEF Increments
<1>2. QED
  BY <1>1 DEF AdapterEdge, Edge, Next1, HwifInDrive

\* Every drive of the adapter is legal if what it saves is.
LEMMA EdgeLegalValue ==
    ASSUME AdapterTypeOK, NEW cmd, NEW trap \in BOOLEAN, NEW mret \in BOOLEAN, NEW save,
           \A f \in HwFields : save[f] \in LegalValues(f),
           AdapterEdge(cmd, trap, mret, save)
    PROVE  FileTypeOK' /\ \A f \in Fields : fval'[f] \in LegalValues(f)
<1>1. ASSUME NEW f \in Fields
      PROVE  fval'[f] \in LegalValues(f) /\ fval'[f] \subseteq Bits(f)
  <2>1. fval[f] \in LegalValues(f) /\ fval[f] \subseteq Bits(f)
    BY DEF AdapterTypeOK, FileTypeOK
  <2>2. Legalize(f, NewValue(f, cmd)) \in LegalValues(f)
    BY <2>1, NewValueInField, LegalizeLegal
  <2>3. ASSUME f \in HwFields
        PROVE  /\ Restore[f] \in LegalValues(f)
               /\ F[f].hw_mirror => Mirror[f] \in LegalValues(f)
               /\ Live(trap)[f] \in LegalValues(f)
    <3>1. {} \in LegalValues(f)
      BY <2>3, AdapterTable DEF HwFields
    <3>2. f = "mstatus_mie" => {3} \in LegalValues(f)
      BY StatusTable DEF Status
    <3>3. f = "mstatus_mpie" => {7} \in LegalValues(f)
      BY StatusTable DEF Status
    <3>4. (\E i \in irq : PendingOf[i] = f) => Bits(f) \in LegalValues(f)
      BY PendingTable DEF AdapterTypeOK
    <3>5. QED
      BY <2>1, <2>3, <3>1, <3>2, <3>3, <3>4 DEF Restore, Mirror, Live
  <2>4. f \in HwFields =>
          Drive(f, trap, mret, save, Restore, Mirror, Live(trap)) \in LegalValues(f)
    BY <2>3 DEF Drive
  <2>5. fval'[f] \in LegalValues(f)
    BY <2>1, <2>2, <2>4, EdgeValue
  <2>6. QED
    BY <2>5, LegalInField
<1>2. \A f \in Fields : Bits(f) \subseteq 0..63
  BY DesignAccepted DEF Elaborated
<1>3. DOMAIN fval' = Fields /\ fval' = [f \in Fields |-> fval'[f]]
  BY DEF AdapterEdge, Edge
<1>4. fval' \in [Fields -> SUBSET (0..63)]
  BY <1>1, <1>2, <1>3
<1>5. pulse' \in [Signals -> BOOLEAN]
  <2>1. ASSUME NEW s \in Signals
        PROVE  Raised(s, cmd, TRUE) \in BOOLEAN
    BY DEF Raised
  <2>2. QED
    BY <2>1 DEF AdapterEdge, Edge
<1>6. QED
  BY <1>1, <1>4, <1>5 DEF FileTypeOK, Bits

\* The status fields in a cycle that does not write them.
LEMMA StatusValue ==
    ASSUME NEW cmd, NEW trap \in BOOLEAN, NEW mret \in BOOLEAN, NEW save,
           AdapterEdge(cmd, trap, mret, save), NEW f \in Status, ~Written(f, cmd, TRUE)
    PROVE  fval'[f] = IF f # "mstatus_mie" /\ trap THEN save[f]
                      ELSE IF mret THEN Restore[f]
                      ELSE IF f = "mstatus_mie" /\ trap THEN {}
                      ELSE fval[f]
<1>0. f \in HwFields
  BY StatusTable, AdapterConstants DEF Status, HwFields
<1>1. /\ f \in HwFields /\ ~F[f].wpri /\ ~F[f].hw_mirror /\ F[f].restore_on_ret
      /\ F[f].save_on_trap <=> f # "mstatus_mie"
  BY <1>0, StatusTable
<1>2. fval'[f] = Drive(f, trap, mret, save, Restore, Mirror, Live(trap))
  <2>1. f \in Fields
    BY <1>0 DEF HwFields
  <2>2. QED
    BY <1>0, <2>1, EdgeValue
<1>3. Live(trap)[f] = IF trap /\ f = "mstatus_mie" THEN {} ELSE fval[f]
  BY <1>1 DEF Live
<1> DEFINE l == Live(trap)[f]
<1>4. fval'[f] = IF F[f].save_on_trap /\ trap THEN save[f]
                 ELSE IF mret THEN Restore[f] ELSE l
  BY <1>1, <1>2 DEF Drive
<1> HIDE DEF l
<1>5. CASE f = "mstatus_mie"
  BY <1>1, <1>3, <1>4, <1>5 DEF l
<1>6. CASE f # "mstatus_mie"
  BY <1>1, <1>3, <1>4, <1>6 DEF l
<1>7. QED
  BY <1>5, <1>6

\* mip takes the wires of the cycle.
LEMMA MipValue ==
    ASSUME NEW cmd, NEW trap, NEW mret, NEW save, AdapterEdge(cmd, trap, mret, save),
           irq \subseteq Lines, NEW i \in irq
    PROVE  fval'[PendingOf[i]] = Bits(PendingOf[i])
<1> DEFINE f == PendingOf[i]
<1>1. f \in HwFields /\ F[f].hw_mirror /\ ~F[f].sw_writable
  BY PendingTable, AdapterConstants DEF HwFields
<1>2. ~Written(f, cmd, TRUE) /\ f \in Fields
  BY <1>1 DEF Written, WriteStatement, HwFields
<1>3. fval'[f] = Mirror[f]
  BY <1>1, <1>2, EdgeValue DEF Drive
<1>4. QED
  BY <1>1, <1>3 DEF Mirror

\* What the adapter saves is legal.
LEMMA SaveLegal ==
    ASSUME NEW pc, pc \in Pcs \/ pc = {},
           NEW cause, cause \in SyncCauses \cup {Cause[i] : i \in Lines} \/ cause = {}
    PROVE  \A f \in HwFields : Save(pc, cause)[f] \in LegalValues(f)
<1> SUFFICES ASSUME NEW f \in HwFields
             PROVE  Save(pc, cause)[f] \in LegalValues(f)
  OBVIOUS
<1>1. {} \in LegalValues(f)
  BY AdapterTable DEF HwFields
<1>2. f = "mepc_epc" => pc \ {0} \in LegalValues(f)
  <2>1. CASE pc = {}
    BY <1>1, <2>1
  <2>2. CASE pc \in Pcs
    <3>1. pc \ {0} = pc
      BY <2>2, AdapterConstants
    <3>2. QED
      BY <2>2, <3>1, AdapterTable
  <2>3. QED
    BY <2>1, <2>2
<1>3. f = "mcause_cause" => cause \in LegalValues(f)
  BY <1>1, AdapterTable
<1>4. f = "mstatus_mpie" => {7} \in LegalValues(f)
  BY StatusTable DEF Status
<1>5. f = "mstatus_mpp" => MppOfPriv \in LegalValues(f)
  BY StatusTable DEF Status, MppOfPriv
<1>6. QED
  BY <1>1, <1>2, <1>3, <1>4, <1>5 DEF Save

\* The two bits of mpp hold the privilege level.
LEMMA MppHoldsPriv ==
    ASSUME NEW p \in 0..3, priv = p, fval'["mstatus_mpp"] = MppOfPriv
    PROVE  PrivOfMpp' = p
<1>1. p = 0 \/ p = 1 \/ p = 2 \/ p = 3
  OBVIOUS
<1>2. QED
  BY <1>1 DEF PrivOfMpp, MppOfPriv

LEMMA PrivOfMppType == PrivOfMpp \in 0..3
BY DEF PrivOfMpp

\* Commands that leave mstatus alone
LEMMA NotStatus ==
    ASSUME NEW cmd, ~cmd.valid \/ cmd.addr # Addr("mstatus_mie"), NEW f \in Status
    PROVE  ~Written(f, cmd, TRUE)
<1>1. Addr(f) = Addr("mstatus_mie")
  BY StatusTable DEF Addr
<1>2. QED
  BY <1>1 DEF Written, Fires

LEMMA NoCommand == ~NoCmd.valid
BY DEF NoCmd

(***************************************************************************)
(* The actions                                                             *)
(***************************************************************************)

LEMMA NoEntryType == NoEntry \in [live : BOOLEAN, mie : BOOLEAN, priv : 0..3]
BY DEF NoEntry

LEMMA InitAdapter == AdapterInit => AdapterInv
<1> SUFFICES ASSUME AdapterInit PROVE AdapterInv
  OBVIOUS
<1>1. \A f \in Fields : /\ F[f].reset \in LegalValues(f)
                        /\ F[f].reset \subseteq Bits(f) /\ Bits(f) \subseteq 0..63
  BY DesignAccepted, AdapterTable DEF Elaborated
<1>2. FileTypeOK /\ \A f \in Fields : fval[f] \in LegalValues(f)
  BY <1>1 DEF AdapterInit, FileInit, FileTypeOK
<1>3. AdapterTypeOK
  <2>1. entry \in [live : BOOLEAN, mie : BOOLEAN, priv : 0..3]
    BY NoEntryType DEF AdapterInit
  <2>2. priv \in 0..3 /\ irq \subseteq Lines /\ handling \in Lines \cup {"none"}
    BY DEF AdapterInit
  <2>3. booted \in BOOLEAN
    BY Zenon DEF AdapterInit
  <2>4. QED
    BY <1>2, <2>1, <2>2, <2>3 DEF AdapterTypeOK
<1>4. Stacked /\ Mirrored
  BY DEF AdapterInit, Stacked, Mirrored, NoEntry
<1>5. QED
  BY <1>3, <1>4 DEF AdapterInv

\* A cycle without a trap and a return that leaves mstatus alone.
LEMMA QuietStatus ==
    ASSUME AdapterInv, NEW cmd, AdapterEdge(cmd, FALSE, FALSE, NoSave),
           ~cmd.valid \/ cmd.addr # Addr("mstatus_mie")
    PROVE  \A f \in Status : fval'[f] = fval[f]
<1> SUFFICES ASSUME NEW f \in Status PROVE fval'[f] = fval[f]
  OBVIOUS
<1>1. ~Written(f, cmd, TRUE)
  BY NotStatus
<1>2. QED
  BY <1>1, StatusValue

\* The line being handled stays in mip as long as it is up.
LEMMA StillMirrored ==
    ASSUME AdapterInv, NEW cmd, NEW trap, NEW mret, NEW save,
           AdapterEdge(cmd, trap, mret, save), StillHandling, booted, booted'
    PROVE  Mirrored' /\ handling' \in Lines \cup {"none"}
<1>1. irq \subseteq Lines /\ handling \in Lines \cup {"none"}
  BY DEF AdapterInv, AdapterTypeOK
<1>2. CASE handling \in irq
  <2>1. handling' = handling
    BY <1>2 DEF StillHandling
  <2>2. fval'[PendingOf[handling]] = Bits(PendingOf[handling])
    BY <1>1, <1>2, MipValue
  <2>3. QED
    BY <1>1, <2>1, <2>2 DEF Mirrored, Bits
<1>3. CASE handling \notin irq
  BY <1>3 DEF StillHandling, Mirrored
<1>4. QED
  BY <1>2, <1>3

LEMMA BootStep ==
    ASSUME AdapterInv, Boot, irq' \subseteq Lines
    PROVE  AdapterInv'
<1>1. FileTypeOK' /\ \A f \in Fields : fval'[f] \in LegalValues(f)
  BY SaveLegal, EdgeLegalValue DEF Boot, NoSave, AdapterInv
<1>2. AdapterTypeOK'
  BY <1>1 DEF Boot, AdapterInv, AdapterTypeOK, LegalValues, Bits
<1>3. Stacked' /\ Mirrored'
  BY DEF Boot, AdapterInv, Stacked, Mirrored
<1>4. QED
  BY <1>2, <1>3 DEF AdapterInv

LEMMA InstructionStep ==
    ASSUME AdapterInv, NEW addr, NEW op, NEW w, CsrInstruction(addr, op, w), irq' \subseteq Lines
    PROVE  AdapterInv'
<1> DEFINE cmd == Cmd(addr, op, w)
<1>1. AdapterEdge(cmd, FALSE, FALSE, NoSave) /\ cmd.addr = addr
  BY DEF CsrInstruction, Cmd
<1>2. FileTypeOK' /\ \A f \in Fields : fval'[f] \in LegalValues(f)
  BY <1>1, SaveLegal, EdgeLegalValue DEF NoSave, AdapterInv
<1>3. Mirrored' /\ handling' \in Lines \cup {"none"}
  BY <1>1, StillMirrored DEF CsrInstruction
<1>4. AdapterTypeOK'
  BY <1>2, <1>3, NoEntryType DEF CsrInstruction, AdapterInv, AdapterTypeOK, LegalValues, Bits
<1>5. Stacked'
  <2>1. CASE addr = Addr("mstatus_mie")
    BY <2>1 DEF CsrInstruction, Stacked, NoEntry
  <2>2. CASE addr # Addr("mstatus_mie")
    <3>1. \A f \in Status : fval'[f] = fval[f]
      BY <1>1, <2>2, QuietStatus
    <3>2. QED
      BY <2>2, <3>1 DEF CsrInstruction, AdapterInv, Stacked, Status, Up, PrivOfMpp
  <2>3. QED
    BY <2>1, <2>2
<1>6. QED
  BY <1>3, <1>4, <1>5 DEF AdapterInv

LEMMA OtherStep ==
    ASSUME AdapterInv, OtherInstruction, irq' \subseteq Lines
    PROVE  AdapterInv'
<1>1. AdapterEdge(NoCmd, FALSE, FALSE, NoSave)
  BY DEF OtherInstruction
<1>2. FileTypeOK' /\ \A f \in Fields : fval'[f] \in LegalValues(f)
  BY <1>1, SaveLegal, EdgeLegalValue DEF NoSave, AdapterInv
<1>3. Mirrored' /\ handling' \in Lines \cup {"none"}
  BY <1>1, StillMirrored DEF OtherInstruction
<1>4. AdapterTypeOK'
  BY <1>2, <1>3 DEF OtherInstruction, AdapterInv, AdapterTypeOK, LegalValues, Bits
<1>5. \A f \in Status : fval'[f] = fval[f]
  BY <1>1, NoCommand, QuietStatus
<1>6. Stacked'
  BY <1>5 DEF OtherInstruction, AdapterInv, Stacked, Status, Up, PrivOfMpp
<1>7. QED
  BY <1>3, <1>4, <1>6 DEF AdapterInv

\* What a trap leaves behind, whatever caused it.
LEMMA SaveStep ==
    ASSUME AdapterInv, NEW cause \in SyncCauses \cup {Cause[i] : i \in Lines},
           SaveCause(cause), irq' \subseteq Lines
    PROVE  /\ FileTypeOK' /\ \A f \in Fields : fval'[f] \in LegalValues(f)
           /\ Stacked' /\ booted' /\ priv' \in 0..3
           /\ entry' \in [live : BOOLEAN, mie : BOOLEAN, priv : 0..3]
           /\ \A i \in irq : fval'[PendingOf[i]] = Bits(PendingOf[i])
<1>1. PICK pc \in Pcs : AdapterEdge(NoCmd, TRUE, FALSE, Save(pc, cause))
  BY DEF SaveCause
<1> DEFINE save == Save(pc, cause)
<1>2. FileTypeOK' /\ \A f \in Fields : fval'[f] \in LegalValues(f)
  BY <1>1, SaveLegal, EdgeLegalValue DEF AdapterInv
<1>3. \A i \in irq : fval'[PendingOf[i]] = Bits(PendingOf[i])
  BY <1>1, MipValue DEF AdapterInv, AdapterTypeOK
<1>4. priv \in 0..3 /\ booted \in BOOLEAN
  BY DEF AdapterInv, AdapterTypeOK
<1>5. \A f \in Status : fval'[f] = IF f # "mstatus_mie" THEN save[f] ELSE {}
  <2> SUFFICES ASSUME NEW f \in Status
               PROVE  fval'[f] = IF f # "mstatus_mie" THEN save[f] ELSE {}
    OBVIOUS
  <2>1. ~Written(f, NoCmd, TRUE)
    BY NoCommand, NotStatus
  <2>2. QED
    BY <1>1, <2>1, StatusValue
<1>6. /\ fval'["mstatus_mie"] = {}
      /\ fval'["mstatus_mpie"] = IF Up("mstatus_mie") THEN {7} ELSE {}
      /\ fval'["mstatus_mpp"] = MppOfPriv
  <2>1. Status \subseteq HwFields
    BY StatusTable, AdapterConstants DEF Status, HwFields
  <2>2. QED
    BY <1>5, <2>1 DEF Save, Status
<1>7. PrivOfMpp' = priv
  BY <1>4, <1>6, MppHoldsPriv
<1>8. entry' = [live |-> TRUE, mie |-> Up("mstatus_mie"), priv |-> priv]
      /\ priv' = 3 /\ booted /\ booted'
  BY DEF SaveCause
<1>9. Up("mstatus_mie") \in BOOLEAN
  BY DEF Up
<1>10. entry' \in [live : BOOLEAN, mie : BOOLEAN, priv : 0..3]
  BY <1>4, <1>8, <1>9
<1>11. Stacked'
  BY <1>6, <1>7, <1>8 DEF Stacked, Up
<1>12. QED
  BY <1>2, <1>3, <1>8, <1>10, <1>11

LEMMA ExceptionStep ==
    ASSUME AdapterInv, Exception, irq' \subseteq Lines
    PROVE  AdapterInv'
<1>1. PICK cause \in SyncCauses : SaveCause(cause)
  BY DEF Exception
<1>2. AdapterTypeOK' /\ Stacked' /\ Mirrored'
  BY <1>1, SaveStep DEF Exception, AdapterTypeOK, Mirrored, LegalValues, Bits
<1>3. QED
  BY <1>2 DEF AdapterInv

LEMMA InterruptStep ==
    ASSUME AdapterInv, NEW i \in Lines, Interrupt(i), irq' \subseteq Lines
    PROVE  AdapterInv'
<1>1. i \in irq /\ SaveCause(Cause[i]) /\ handling' = i
  BY DEF Interrupt, Irqs
<1>2. AdapterTypeOK' /\ Stacked' /\ Mirrored'
  BY <1>1, SaveStep DEF AdapterTypeOK, Mirrored, LegalValues, Bits
<1>3. QED
  BY <1>2 DEF AdapterInv

LEMMA MretStep ==
    ASSUME AdapterInv, Mret, irq' \subseteq Lines
    PROVE  /\ AdapterInv'
           /\ fval'["mstatus_mie"] # {} <=> Up("mstatus_mpie")
<1>1. AdapterEdge(NoCmd, FALSE, TRUE, NoSave)
  BY DEF Mret
<1>2. FileTypeOK' /\ \A f \in Fields : fval'[f] \in LegalValues(f)
  BY <1>1, SaveLegal, EdgeLegalValue DEF NoSave, AdapterInv
<1>3. AdapterTypeOK'
  BY <1>2, PrivOfMppType, NoEntryType
  DEF Mret, AdapterInv, AdapterTypeOK, LegalValues, Bits
<1>4. Stacked' /\ Mirrored'
  BY DEF Mret, Stacked, Mirrored, NoEntry
<1>5. "mstatus_mie" \in Status /\ "mstatus_mie" \in HwFields
  BY StatusTable, AdapterConstants DEF Status, HwFields
<1>6. ~Written("mstatus_mie", NoCmd, TRUE)
  BY <1>5, NoCommand, NotStatus
<1>7. fval'["mstatus_mie"] = Restore["mstatus_mie"]
  BY <1>1, <1>5, <1>6, StatusValue
<1>8. QED
  BY <1>3, <1>4, <1>5, <1>7 DEF AdapterInv, Restore

\* A stuttering step
LEMMA AdapterStutter ==
    ASSUME AdapterInv, UNCHANGED adapterVars
    PROVE  AdapterInv'
BY DEF AdapterInv, AdapterTypeOK, Stacked, Mirrored, Up, PrivOfMpp, FileTypeOK,
       adapterVars, topVars, fileVars, LegalValues, Bits

LEMMA AdapterStep == AdapterInv /\ [AdapterNext]_adapterVars => AdapterInv'
<1> SUFFICES ASSUME AdapterInv, [AdapterNext]_adapterVars PROVE AdapterInv'
  OBVIOUS
<1>1. CASE UNCHANGED adapterVars
  BY <1>1, AdapterStutter
<1>2. CASE AdapterNext
  <2>1. irq' \subseteq Lines
    BY <1>2 DEF AdapterNext
  <2>2. CASE Boot
    BY <2>1, <2>2, BootStep
  <2>3. CASE \E r \in Regs, op \in Ops \ {READ}, w \in WData :
                CsrInstruction(R[r].address, op, w)
    BY <2>1, <2>3, InstructionStep
  <2>4. CASE OtherInstruction
    BY <2>1, <2>4, OtherStep
  <2>5. CASE Exception
    BY <2>1, <2>5, ExceptionStep
  <2>6. CASE \E i \in Lines : Interrupt(i)
    BY <2>1, <2>6, InterruptStep
  <2>7. CASE Mret
    BY <2>1, <2>7, MretStep
  <2>8. QED
    BY <1>2, <2>2, <2>3, <2>4, <2>5, <2>6, <2>7 DEF AdapterNext
<1>3. QED
  BY <1>1, <1>2

LEMMA AdapterInvAlways == AdapterSpec => []AdapterInv
BY InitAdapter, AdapterStep, PTL DEF AdapterSpec

(***************************************************************************)
(* The theorems                                                            *)
(***************************************************************************)

\* Every CSR of the core holds a value its WARL tag allows, in every state
\* the adapter's ports can bring about.
THEOREM AdapterTypeCorrect == AdapterSpec => []AdapterTypeOK
<1>1. AdapterInv => AdapterTypeOK
  BY DEF AdapterInv
<1>2. QED
  BY <1>1, AdapterInvAlways, PTL

\* What software reads at the address of a readable field, among its bits
LEMMA ReadsBack ==
    ASSUME AdapterTypeOK, NEW f \in Fields, F[f].sw_readable, ~F[f].wpri
    PROVE  Rdata(Addr(f)) \cap Bits(f) = fval[f]
<1> DEFINE r == F[f].reg
           hits == {q \in Regs : R[q].address = Addr(f)}
<1>1. r \in Regs /\ r <= r
  BY DesignAccepted DEF Elaborated, Table, Regs
<1>2. hits = {r}
  BY <1>1, AdapterTable DEF Addr
<1>3. Rdata(Addr(f)) = ReadView(r)
  <2>1. (CHOOSE h \in hits : \A q \in hits : h <= q) = r
    BY <1>1, <1>2
  <2>2. QED
    BY <1>2, <2>1 DEF Rdata
<1>4. \A g \in Fields : fval[g] \subseteq Bits(g)
  BY DEF AdapterTypeOK, FileTypeOK
<1>5. \A g \in Fields : g # f /\ F[g].reg = r => Bits(g) \cap Bits(f) = {}
  BY DesignAccepted DEF Elaborated
<1>6. QED
  BY <1>3, <1>4, <1>5 DEF ReadView

\* The handler of an interrupt finds its line in mip for as long as the line
\* is up.
THEOREM CauseIsVisible == AdapterSpec => []CauseVisibleInMip
<1>1. AdapterInv => CauseVisibleInMip
  <2> SUFFICES ASSUME AdapterInv, handling # "none"
               PROVE  Bits(PendingOf[handling]) \subseteq Rdata(Addr(PendingOf[handling]))
    BY DEF CauseVisibleInMip
  <2> DEFINE f == PendingOf[handling]
  <2>1. handling \in Lines /\ AdapterTypeOK
    BY DEF AdapterInv, AdapterTypeOK
  <2>2. f \in Fields /\ F[f].sw_readable /\ ~F[f].wpri
    BY <2>1, AdapterConstants, PendingTable
  <2>3. fval[f] = Bits(f)
    BY DEF AdapterInv, Mirrored
  <2>4. QED
    BY <2>1, <2>2, <2>3, ReadsBack
<1>2. QED
  BY <1>1, AdapterInvAlways, PTL

\* A trap and its mret are inverse whatever happens in between, short of a
\* write of mstatus.
THEOREM MretIsExact == AdapterSpec => MretUndoesTrap
<1>1. ASSUME AdapterInv, [AdapterNext]_adapterVars
      PROVE  [Mret /\ entry.live => /\ fval'["mstatus_mie"] # {} <=> entry.mie
                                    /\ priv' = entry.priv]_adapterVars
  <2> SUFFICES ASSUME AdapterNext, Mret, entry.live
               PROVE  /\ fval'["mstatus_mie"] # {} <=> entry.mie
                      /\ priv' = entry.priv
    BY <1>1
  <2>1. irq' \subseteq Lines
    BY DEF AdapterNext
  <2>2. fval'["mstatus_mie"] # {} <=> Up("mstatus_mpie")
    BY <1>1, <2>1, MretStep
  <2>3. QED
    BY <1>1, <2>2 DEF AdapterInv, Stacked, Mret
<1>2. QED
  BY <1>1, AdapterInvAlways, PTL DEF AdapterSpec, MretUndoesTrap

\* No interrupt is taken between a trap and its return, unless software
\* writes mstatus.
THEOREM InterruptsDoNotNest == AdapterSpec => NoNestedInterrupt
<1>1. ASSUME AdapterInv, entry.live, NEW i \in Lines
      PROVE  ~Interrupt(i)
  BY <1>1 DEF AdapterInv, Stacked, Interrupt, Up
<1>2. AdapterInv => [entry.live => \A i \in Lines : ~Interrupt(i)]_adapterVars
  BY <1>1
<1>3. QED
  BY <1>2, AdapterInvAlways, PTL DEF NoNestedInterrupt

\* A collapsed SET or CLEAR stores what the CSR file would have stored.
THEOREM CollapseExact == AdapterSpec => []CollapseIsExact
<1>1. AdapterInv => CollapseIsExact
  <2> SUFFICES ASSUME AdapterTypeOK, NEW r \in Regs, NEW op \in {SET, CLEAR},
                      NEW w \in WData, NEW f \in Fields
               PROVE  LET cmd == Cmd(R[r].address, op, w)
                          raw == [valid |-> TRUE, addr |-> R[r].address,
                                  op |-> op, wdata |-> w]
                      IN /\ Written(f, cmd, TRUE) <=> Written(f, raw, TRUE)
                         /\ Written(f, raw, TRUE) =>
                              Legalize(f, NewValue(f, cmd)) = Legalize(f, NewValue(f, raw))
    BY DEF AdapterInv, CollapseIsExact
  <2> DEFINE cmd == Cmd(R[r].address, op, w)
             raw == [valid |-> TRUE, addr |-> R[r].address, op |-> op, wdata |-> w]
  <2>1. /\ cmd.valid /\ cmd.op = WRITE /\ cmd.addr = R[r].address
        /\ cmd.wdata = CsrWdata(R[r].address, op, w)
    BY DEF Cmd, SET, CLEAR, READ
  <2>2. raw.valid /\ raw.op = op /\ raw.addr = R[r].address /\ raw.wdata = w
    OBVIOUS
  <2>3. Written(f, cmd, TRUE) <=> Written(f, raw, TRUE)
    BY <2>1, <2>2 DEF Written, Fires, READ, WRITE, SET, CLEAR
  <2>4. ASSUME Written(f, raw, TRUE)
        PROVE  NewValue(f, cmd) = NewValue(f, raw)
    <3>1. Addr(f) = R[r].address /\ F[f].sw_readable /\ ~F[f].wpri
      BY <2>2, <2>4, AdapterTable DEF Written, WriteStatement
    <3>2. Rdata(R[r].address) \cap Bits(f) = fval[f]
      BY <3>1, ReadsBack
    <3>3. NewValue(f, cmd) = CsrWdata(R[r].address, op, w) \cap Bits(f)
      BY <2>1 DEF NewValue, WRITE, SET, CLEAR
    <3>4. CASE op = SET
      <4>1. NewValue(f, raw) = fval[f] \cup (w \cap Bits(f))
        BY <2>2, <3>4 DEF NewValue, SET, WRITE, CLEAR
      <4>2. CsrWdata(R[r].address, op, w) = Rdata(R[r].address) \cup w
        BY <3>4 DEF CsrWdata, SET, CLEAR
      <4>3. QED
        BY <3>2, <3>3, <4>1, <4>2
    <3>5. CASE op = CLEAR
      <4>1. NewValue(f, raw) = fval[f] \ (w \cap Bits(f))
        BY <2>2, <3>5 DEF NewValue, SET, WRITE, CLEAR
      <4>2. CsrWdata(R[r].address, op, w) = Rdata(R[r].address) \ w
        BY <3>5 DEF CsrWdata, SET, CLEAR
      <4>3. QED
        BY <3>2, <3>3, <4>1, <4>2
    <3>6. QED
      BY <3>4, <3>5
  <2> HIDE DEF cmd, raw
  <2>5. QED
    BY <2>3, <2>4 DEF cmd, raw
<1>2. QED
  BY <1>1, AdapterInvAlways, PTL
==============================================================================
