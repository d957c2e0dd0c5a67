------------------------------ MODULE Csr_proofs ------------------------------
(***************************************************************************)
(* Proofs about the generated CSR design: for every accepted register      *)
(* table, any write data and any port values of the right width.           *)
(***************************************************************************)
EXTENDS CsrTop, CsrCounter, NatFacts, FiniteSetTheorems

(***************************************************************************)
(* Numbers                                                                 *)
(***************************************************************************)

\* Adding one to a field stays within the field.
LEMMA IncrementInField ==
    ASSUME NEW f \in Fields, NEW v, v \subseteq Bits(f)
    PROVE  Increment(f, v) \subseteq Bits(f)
<1>1. CASE v = Bits(f)
  BY <1>1 DEF Increment
<1>2. CASE v # Bits(f)
  <2>0. Bits(f) \subseteq 0..63
    BY DesignAccepted DEF Elaborated
  <2>1. Bits(f) \ v # {} /\ Bits(f) \ v \subseteq Nat
    BY <1>2, <2>0
  <2>2. \E b \in Bits(f) \ v : \A d \in Bits(f) \ v : b <= d
    BY <2>1, NatMinimum
  <2> DEFINE z == CHOOSE b \in Bits(f) \ v : \A d \in Bits(f) \ v : b <= d
  <2>3. z \in Bits(f) \ v
    BY <2>2
  <2>4. Increment(f, v) = {b \in v : b > z} \cup {z}
    BY <1>2 DEF Increment
  <2>5. QED
    BY <2>3, <2>4
<1>3. QED
  BY <1>1, <1>2

\* The write path stores a legal value whatever software asks for.
LEMMA LegalizeLegal ==
    ASSUME NEW f \in Fields, NEW v, v \subseteq Bits(f)
    PROVE  /\ Legalize(f, v) \in LegalValues(f)
           /\ Legalize(f, v) \subseteq Bits(f)
<1>1. F[f].warl.kind \in WarlKinds
  BY DesignAccepted DEF Elaborated
<1>2. CASE F[f].warl.kind = "none"
  BY <1>2 DEF Legalize, LegalValues
<1>3. CASE F[f].warl.kind = "mask"
  BY <1>3 DEF Legalize, LegalValues
<1>4. CASE F[f].warl.kind = "enum"
  <2> DEFINE L == F[f].warl.legal
  <2>1. /\ L \subseteq SUBSET Bits(f)
        /\ \E m \in L : \A w \in L : m = w \/ Below(m, w)
    BY <1>4, DesignAccepted DEF Elaborated
  <2>2. Least(L) \in L
    BY <2>1 DEF Least
  <2>3. Legalize(f, v) \in L
    BY <1>4, <2>2 DEF Legalize
  <2>4. LegalValues(f) = L
    BY <1>4 DEF LegalValues
  <2>5. QED
    BY <2>1, <2>3, <2>4
<1>5. QED
  BY <1>1, <1>2, <1>3, <1>4 DEF WarlKinds

\* The value software asks for lies within the field.
LEMMA NewValueInField ==
    ASSUME NEW f \in Fields, NEW cmd, fval[f] \subseteq Bits(f)
    PROVE  NewValue(f, cmd) \subseteq Bits(f)
BY DEF NewValue, READ, WRITE, SET, CLEAR

(***************************************************************************)
(* The shape of a step                                                     *)
(***************************************************************************)

\* Every hardware-writable field is driven by a port value or holds.
Driven(hwif) ==
    \A f \in HwFields : hwif[f] = fval[f] \/ \E v \in PortVals : hwif[f] = v[f]

\* The four sources of the drive multiplexer
LEMMA DriveSources ==
    ASSUME NEW te \in BOOLEAN, NEW xe \in BOOLEAN,
           NEW save \in PortVals \cup {Hold}, NEW restore \in PortVals \cup {Hold},
           NEW mirror \in PortVals \cup {Hold}, NEW live \in PortVals \cup {Hold}
    PROVE  Driven(HwifInDrive(te, xe, save, restore, mirror, live))
<1> DEFINE h == HwifInDrive(te, xe, save, restore, mirror, live)
<1>1. ASSUME NEW f \in HwFields
      PROVE  h[f] = fval[f] \/ \E v \in PortVals : h[f] = v[f]
  <2>1. h[f] \in {save[f], restore[f], mirror[f], live[f]}
    BY DEF HwifInDrive, Drive
  <2>2. ASSUME NEW p \in PortVals \cup {Hold}
        PROVE  p[f] = fval[f] \/ \E v \in PortVals : p[f] = v[f]
    BY DEF Hold
  <2>3. QED
    BY <2>1, <2>2
<1>2. QED
  BY <1>1 DEF Driven

\* A step is a clock edge whose command takes effect only if it was granted.
LEMMA StepIsEdge ==
    ASSUME TopNext
    PROVE  \E hwif : \E cmd \in Cmds, granted \in BOOLEAN, en \in SUBSET Enables :
              /\ Edge(cmd, granted, hwif, en)
              /\ Driven(hwif)
              /\ Fires(cmd, granted) => Granted(cmd, priv)
<1>1. PICK en \in SUBSET Enables : \/ \E cmd \in Cmds : Instruction(cmd, en)
                                   \/ TrapEnter(en)
                                   \/ XretEnter(en)
  BY DEF TopNext
<1>2. ~Fires(NoCmd, FALSE) /\ NoCmd \in Cmds
  BY DEF Fires, Cmds
<1>3. ASSUME NEW cmd \in Cmds, Instruction(cmd, en)
      PROVE  \E hwif : \E granted \in BOOLEAN :
                /\ Edge(cmd, granted, hwif, en)
                /\ Driven(hwif)
                /\ Fires(cmd, granted) => Granted(cmd, priv)
  <2>1. PICK ext \in PortVals, live \in PortVals \cup {Hold} :
           Edge(cmd, Granted(cmd, priv),
                HwifInDrive(FALSE, FALSE, ext, ext, ext, live), en)
    BY <1>3 DEF Instruction
  <2>2. Driven(HwifInDrive(FALSE, FALSE, ext, ext, ext, live))
    BY DriveSources
  <2>3. Granted(cmd, priv) \in BOOLEAN
    BY DEF Granted, AccessOk, Cmds, NoCmd
  <2>4. QED
    BY <2>1, <2>2, <2>3 DEF Fires
<1>4. CASE TrapEnter(en)
  <2>1. PICK ext \in PortVals, save \in PortVals, live \in PortVals \cup {Hold} :
           Edge(NoCmd, FALSE, HwifInDrive(TRUE, FALSE, save, Hold, ext, live), en)
    BY <1>4 DEF TrapEnter
  <2>2. Driven(HwifInDrive(TRUE, FALSE, save, Hold, ext, live))
    BY DriveSources
  <2>3. QED
    BY <1>2, <2>1, <2>2
<1>5. CASE XretEnter(en)
  <2>1. PICK ext \in PortVals, restore \in PortVals, live \in PortVals \cup {Hold} :
           Edge(NoCmd, FALSE, HwifInDrive(FALSE, TRUE, Hold, restore, ext, live), en)
    BY <1>5 DEF XretEnter
  <2>2. Driven(HwifInDrive(FALSE, TRUE, Hold, restore, ext, live))
    BY DriveSources
  <2>3. QED
    BY <1>2, <2>1, <2>2
<1>6. QED
  BY <1>1, <1>3, <1>4, <1>5
(***************************************************************************)
(* Type correctness                                                        *)
(***************************************************************************)

\* An edge keeps every field within its bits.
LEMMA EdgeType ==
    ASSUME FileTypeOK, NEW cmd \in Cmds, NEW granted \in BOOLEAN, NEW en, NEW hwif,
           Edge(cmd, granted, hwif, en), Driven(hwif)
    PROVE  FileTypeOK'
<1>1. ASSUME NEW f \in Fields
      PROVE  Next1(f, cmd, granted, hwif, en) \subseteq Bits(f)
  <2>1. fval[f] \subseteq Bits(f)
    BY DEF FileTypeOK
  <2>2. Legalize(f, NewValue(f, cmd)) \subseteq Bits(f)
    BY <2>1, NewValueInField, LegalizeLegal
  <2>3. Increment(f, fval[f]) \subseteq Bits(f)
    BY <2>1, IncrementInField
  <2>4. f \in HwFields => hwif[f] \subseteq Bits(f)
    BY <2>1, TopConstants DEF Driven
  <2>5. QED
    BY <2>1, <2>2, <2>3, <2>4 DEF Next1
<1>2. \A f \in Fields : Bits(f) \subseteq 0..63
  BY DesignAccepted DEF Elaborated
<1>3. fval' \in [Fields -> SUBSET (0..63)] /\ \A f \in Fields : fval'[f] \subseteq Bits(f)
  BY <1>1, <1>2 DEF Edge
<1>4. pulse' \in [Signals -> BOOLEAN]
  <2>1. ASSUME NEW s \in Signals
        PROVE  Raised(s, cmd, granted) \in BOOLEAN
    BY DEF Raised
  <2>2. QED
    BY <2>1 DEF Edge
<1>5. QED
  BY <1>3, <1>4 DEF FileTypeOK, Bits

\* The registers start in their fields, and the core in machine mode.
LEMMA TopInitType == TopInit => TopTypeOK
<1> SUFFICES ASSUME TopInit PROVE TopTypeOK
  OBVIOUS
<1>1. \A f \in Fields : F[f].reset \subseteq Bits(f) /\ Bits(f) \subseteq 0..63
  BY DesignAccepted DEF Elaborated
<1>2. fval \in [Fields -> SUBSET (0..63)] /\ \A f \in Fields : fval[f] \subseteq Bits(f)
  BY <1>1 DEF TopInit, FileInit
<1>3. pulse \in [Signals -> BOOLEAN]
  BY DEF TopInit, FileInit
<1>4. QED
  BY <1>2, <1>3 DEF TopTypeOK, FileTypeOK, TopInit, Privs

\* What a step does to the privilege level
LEMMA PrivType == TopTypeOK /\ TopNext => priv' \in Privs
BY DEF TopNext, Instruction, TrapEnter, XretEnter, TopTypeOK, Privs

\* Every field stays within its width and position, for every design
\* validate_csrs accepts: no operation, increment, save, restore or drive
\* spills over the field's bits.
THEOREM TopTypeCorrect == TopSpec => []TopTypeOK
<1>1. ASSUME TopTypeOK, TopNext
      PROVE  TopTypeOK'
  <2>1. FileTypeOK'
    BY <1>1, StepIsEdge, EdgeType DEF TopTypeOK
  <2>2. QED
    BY <1>1, <2>1, PrivType DEF TopTypeOK
<1>2. TopTypeOK /\ UNCHANGED topVars => TopTypeOK'
  BY DEF topVars, TopTypeOK, FileTypeOK
<1>3. QED
  BY TopInitType, <1>1, <1>2, PTL DEF TopSpec

(***************************************************************************)
(* Legality of WARL fields                                                 *)
(***************************************************************************)

\* When the ports carry only legal values, an edge leaves a legal value
\* legal.
LEMMA EdgeLegal ==
    ASSUME PortsLegal, FileTypeOK,
           NEW cmd \in Cmds, NEW granted \in BOOLEAN, NEW en, NEW hwif,
           Edge(cmd, granted, hwif, en), Driven(hwif),
           NEW f \in Fields \ Counters, fval[f] \in LegalValues(f)
    PROVE  fval'[f] \in LegalValues(f)
<1>1. Legalize(f, NewValue(f, cmd)) \in LegalValues(f)
  BY NewValueInField, LegalizeLegal DEF FileTypeOK
<1>2. ~Increments(f, en)
  BY DEF Increments, Counters
<1>3. f \in HwFields => hwif[f] \in LegalValues(f)
  BY DEF Driven, PortsLegal
<1>4. fval'[f] = Next1(f, cmd, granted, hwif, en)
  BY DEF Edge
<1>5. QED
  BY <1>1, <1>2, <1>3, <1>4 DEF Next1

\* A WARL field never shows an illegal value: not by any operation, nor by
\* a save, a restore or a drive that is itself legal.
THEOREM WarlFieldsStayLegal == TopSpec => []WarlAlwaysLegal
<1> DEFINE Inv == TopTypeOK /\ WarlAlwaysLegal
<1>1. TopInit => Inv
  <2>1. TopInit => WarlAlwaysLegal
    BY DEF TopInit, FileInit, WarlAlwaysLegal
  <2>2. QED
    BY <2>1, TopInitType
<1>2. ASSUME WarlAlwaysLegal, TopTypeOK, TopNext
      PROVE  WarlAlwaysLegal'
  <2>0. PICK hwif : \E cmd \in Cmds, granted \in BOOLEAN, en \in SUBSET Enables :
           Edge(cmd, granted, hwif, en) /\ Driven(hwif)
    BY <1>2, StepIsEdge
  <2>1. PICK cmd \in Cmds, granted \in BOOLEAN, en \in SUBSET Enables :
           Edge(cmd, granted, hwif, en) /\ Driven(hwif)
    BY <2>0
  <2>2. ASSUME PortsLegal, NEW f \in Fields \ Counters,
               F[f].reset \in LegalValues(f)
        PROVE  fval'[f] \in LegalValues(f)
    <3>1. fval[f] \in LegalValues(f)
      BY <1>2, <2>2 DEF WarlAlwaysLegal
    <3>2. QED
      BY <1>2, <2>1, <2>2, <3>1, EdgeLegal DEF TopTypeOK
  <2>3. QED
    BY <2>2 DEF WarlAlwaysLegal, PortsLegal, LegalValues, Bits
<1>3. WarlAlwaysLegal /\ UNCHANGED topVars => WarlAlwaysLegal'
  BY DEF topVars, WarlAlwaysLegal, PortsLegal, LegalValues, Bits
<1>4. QED
  BY <1>1, <1>2, <1>3, TopTypeCorrect, PTL DEF TopSpec

(***************************************************************************)
(* Privilege                                                               *)
(***************************************************************************)

\* With distinct addresses, the level the access controller asks for at the
\* address of a register is that register's own level.
LEMMA MinPrivIsLevel ==
    ASSUME DistinctAddresses, NEW r \in Regs
    PROVE  MinPriv(R[r].address) = Level(r)
<1> DEFINE tagged == {q \in Regs : R[q].address = R[r].address /\ R[q].priv # "none"}
<1>1. Regs \subseteq Nat
  BY DesignAccepted DEF Table, Regs
<1>2. CASE R[r].priv = "none"
  <2>1. tagged = {}
    BY <1>2 DEF DistinctAddresses
  <2>2. QED
    BY <1>2, <2>1 DEF MinPriv, Level
<1>3. CASE R[r].priv # "none"
  <2>1. tagged = {r}
    BY <1>3 DEF DistinctAddresses
  <2>2. (CHOOSE t \in tagged : \A q \in tagged : t <= q) = r
    BY <1>1, <2>1
  <2>3. MinPriv(R[r].address)
          = PrivBits(R[CHOOSE t \in tagged : \A q \in tagged : t <= q].priv)
    BY <2>1, Zenon DEF MinPriv
  <2>4. QED
    BY <1>3, <2>2, <2>3, Zenon DEF Level
<1>4. QED
  BY <1>2, <1>3

\* A field only software can change changes only by a granted write.
LEMMA ChangeIsWrite ==
    ASSUME NEW cmd \in Cmds, NEW granted \in BOOLEAN, NEW en, NEW hwif,
           Edge(cmd, granted, hwif, en), NEW f \in SwOnly, fval'[f] # fval[f]
    PROVE  Written(f, cmd, granted)
<1>1. f \in Fields /\ ~Increments(f, en) /\ f \notin HwFields
  BY DEF SwOnly, Increments, Counters, HwFields
<1>2. fval'[f] = Next1(f, cmd, granted, hwif, en)
  BY <1>1 DEF Edge
<1>3. QED
  BY <1>1, <1>2 DEF Next1

\* What a granted write proves about the core's level
LEMMA GrantLevel ==
    ASSUME TopTypeOK, DistinctAddresses, NEW cmd \in Cmds, NEW r \in Regs,
           Granted(cmd, priv), cmd.addr = R[r].address
    PROVE  priv >= Level(r) /\ (cmd.op # READ => ~IsRo(R[r].address))
BY MinPrivIsLevel DEF Granted, AccessOk

\* Software state changes only at the level its register demands and never
\* in the read-only address space.
THEOREM PrivilegeIsProtected == TopSpec => PrivilegeProtects
<1>1. ASSUME TopTypeOK, TopNext, DistinctAddresses,
             NEW f \in SwOnly, fval'[f] # fval[f]
      PROVE  priv >= Level(F[f].reg) /\ ~IsRo(Addr(f))
  <2>0. PICK hwif : \E cmd \in Cmds, granted \in BOOLEAN, en \in SUBSET Enables :
           /\ Edge(cmd, granted, hwif, en)
           /\ Fires(cmd, granted) => Granted(cmd, priv)
    BY <1>1, StepIsEdge
  <2>1. PICK cmd \in Cmds, granted \in BOOLEAN, en \in SUBSET Enables :
           /\ Edge(cmd, granted, hwif, en)
           /\ Fires(cmd, granted) => Granted(cmd, priv)
    BY <2>0
  <2>2. Written(f, cmd, granted)
    BY <1>1, <2>1, ChangeIsWrite
  <2>3. Granted(cmd, priv) /\ cmd.op # READ /\ cmd.addr = Addr(f)
    BY <2>1, <2>2 DEF Written, Fires
  <2>4. F[f].reg \in Regs
    BY DesignAccepted DEF Elaborated, SwOnly
  <2>5. QED
    BY <1>1, <2>3, <2>4, GrantLevel DEF Addr
<1>2. TopTypeOK /\ [TopNext]_topVars
        => [DistinctAddresses =>
              \A f \in SwOnly :
                 fval'[f] # fval[f] => /\ priv >= Level(F[f].reg)
                                       /\ ~IsRo(Addr(f))]_topVars
  BY <1>1 DEF topVars
<1>3. QED
  BY <1>2, TopTypeCorrect, PTL DEF TopSpec, PrivilegeProtects

\* A tagged field never changes without its signal, and a signal means a
\* sufficiently privileged write to a register that carries it.
THEOREM ChangesAreAnnounced == TopSpec => ChangesAnnounced
<1> DEFINE Carries(r, s) == \/ R[r].trap_signal = s
                            \/ \E f \in Fields : F[f].reg = r /\ F[f].trap_signal = s
<1>1. ASSUME TopNext, NEW f \in SwOnly, fval'[f] # fval[f], F[f].trap_signal # "none"
      PROVE  pulse'[F[f].trap_signal]
  <2>0. PICK hwif : \E cmd \in Cmds, granted \in BOOLEAN, en \in SUBSET Enables :
           Edge(cmd, granted, hwif, en)
    BY <1>1, StepIsEdge
  <2>1. PICK cmd \in Cmds, granted \in BOOLEAN, en \in SUBSET Enables :
           Edge(cmd, granted, hwif, en)
    BY <2>0
  <2>2. Written(f, cmd, granted) /\ f \in Fields
    BY <1>1, <2>1, ChangeIsWrite DEF SwOnly
  <2>3. F[f].trap_signal \in Signals
    BY <1>1, <2>2 DEF Signals
  <2>4. Raised(F[f].trap_signal, cmd, granted)
    BY <2>2 DEF Raised, Written
  <2>5. QED
    BY <2>1, <2>3, <2>4 DEF Edge
<1>2. ASSUME TopTypeOK, TopNext, DistinctAddresses, NEW s \in Signals, pulse'[s]
      PROVE  \E r \in Regs : Carries(r, s) /\ priv >= Level(r)
  <2>0. PICK hwif : \E cmd \in Cmds, granted \in BOOLEAN, en \in SUBSET Enables :
           /\ Edge(cmd, granted, hwif, en)
           /\ Fires(cmd, granted) => Granted(cmd, priv)
    BY <1>2, StepIsEdge
  <2>1. PICK cmd \in Cmds, granted \in BOOLEAN, en \in SUBSET Enables :
           /\ Edge(cmd, granted, hwif, en)
           /\ Fires(cmd, granted) => Granted(cmd, priv)
    BY <2>0
  <2>2. Raised(s, cmd, granted)
    BY <1>2, <2>1 DEF Edge
  <2>3. Granted(cmd, priv)
    BY <2>1, <2>2 DEF Raised
  <2>4. PICK r \in Regs : R[r].address = cmd.addr /\ Carries(r, s)
    <3>1. \A f \in Fields : F[f].reg \in Regs
      BY DesignAccepted DEF Elaborated
    <3>2. QED
      BY <2>2, <3>1 DEF Raised, Addr
  <2>5. QED
    BY <1>2, <2>3, <2>4, GrantLevel
<1>3. TopTypeOK /\ [TopNext]_topVars
        => [/\ \A f \in SwOnly :
                 fval'[f] # fval[f] /\ F[f].trap_signal # "none"
                    => pulse'[F[f].trap_signal]
            /\ DistinctAddresses =>
                 \A s \in Signals : pulse'[s] =>
                    \E r \in Regs : /\ \/ R[r].trap_signal = s
                                       \/ \E f \in Fields : F[f].reg = r /\ F[f].trap_signal = s
                                    /\ priv >= Level(r)]_topVars
  BY <1>1, <1>2 DEF topVars
<1>4. QED
  BY <1>3, TopTypeCorrect, PTL DEF TopSpec, ChangesAnnounced
(***************************************************************************)
(* The number that a field of a counter holds.  Number is defined by a     *)
(* recursive function, about which nothing is known but its recursion      *)
(* equation, if there is a function that solves it: UpperExists builds one *)
(* position at a time.                                                     *)
(***************************************************************************)
BitOf(v, n) == IF FieldWidth - n \in v THEN 1 ELSE 0

IsUpper(g, v, n) ==
    g = [k \in 0..n |-> IF k = 0 THEN 0 ELSE 2 * g[k - 1] + BitOf(v, k)]

\* The shape of a counter's field: the bits below its width, all of which a
\* literal of whole hexadecimal digits covers.
LEMMA FieldShape ==
    ASSUME CounterPair
    PROVE  /\ FieldWidth \in Nat \ {0}
           /\ Bits(LowCsr) = 0..(FieldWidth - 1)
           /\ FieldWidth % 4 = 0 => LowMax(LowCsr) = Bits(LowCsr)
<1>1. LowCsr \in Fields /\ Bits(LowCsr) = 0..(FieldWidth - 1)
  BY DEF CounterPair, LowCounters
<1>2. Bits(LowCsr) # {} /\ Bits(LowCsr) \subseteq 0..63
  BY <1>1, DesignAccepted DEF Elaborated
<1>3. FieldWidth \in Nat
  <2>1. 0 \in Int /\ 63 \in Int
    OBVIOUS
  <2>2. IsFiniteSet(0..63)
    BY <2>1, FS_Interval, Zenon
  <2>3. IsFiniteSet(Bits(LowCsr))
    BY <1>2, <2>2, FS_Subset, Zenon
  <2>4. QED
    BY <2>3, FS_CardinalityType DEF FieldWidth
<1>4. FieldWidth # 0
  BY <1>1, <1>2, <1>3
<1>5. ASSUME FieldWidth % 4 = 0
      PROVE  LowMax(LowCsr) = Bits(LowCsr)
  <2>1. Lsb(LowCsr) = 0
    BY <1>1, <1>3, <1>4 DEF Lsb
  <2>2. 4 * (FieldWidth \div 4) = FieldWidth
    BY <1>3, <1>5
  <2>3. LowMax(LowCsr) = {b \in Bits(LowCsr) : b - 0 < FieldWidth}
    BY <2>1, <2>2 DEF LowMax, FieldWidth
  <2>4. QED
    BY <1>1, <1>3, <2>3
<1>6. QED
  BY <1>1, <1>3, <1>4, <1>5

LEMMA UpperExists ==
    ASSUME CounterPair, NEW v, NEW n \in 0..FieldWidth
    PROVE  \E g : IsUpper(g, v, n)
<1> DEFINE Missing == {k \in 0..FieldWidth : ~ \E g : IsUpper(g, v, k)}
<1>1. FieldWidth \in Nat
  BY FieldShape
<1>2. Missing = {}
  <2>1. SUFFICES ASSUME Missing # {} PROVE FALSE
    OBVIOUS
  <2>2. PICK m \in Missing : \A k \in Missing : m <= k
    <3>1. Missing \subseteq Nat
      BY <1>1
    <3> HIDE DEF Missing
    <3>2. QED
      BY <2>1, <3>1, NatMinimum
  <2>3. IsUpper([k \in 0..0 |-> 0], v, 0)
    BY DEF IsUpper
  <2>4. m # 0
    BY <2>2, <2>3
  <2>5. m \in 1..FieldWidth /\ m - 1 \in 0..FieldWidth /\ m - 1 \notin Missing
    BY <1>1, <2>2, <2>4
  <2>6. PICK g : IsUpper(g, v, m - 1)
    BY <2>5
  <2> DEFINE h == [k \in 0..m |-> IF k = m THEN 2 * g[m - 1] + BitOf(v, m) ELSE g[k]]
  <2>7. \A k \in 0..m : h[k] = IF k = 0 THEN 0 ELSE 2 * h[k - 1] + BitOf(v, k)
    <3>1. \A k \in 0..(m - 1) : g[k] = IF k = 0 THEN 0 ELSE 2 * g[k - 1] + BitOf(v, k)
      BY <2>6, Zenon DEF IsUpper
    <3>2. \A k \in 0..m : k = m \/ k \in 0..(m - 1)
      BY <2>5
    <3>3. \A k \in 0..m : k # 0 => k - 1 \in 0..m /\ k - 1 # m
      BY <2>5
    <3>4. QED
      BY <2>5, <3>1, <3>2, <3>3
  <2>8. IsUpper(h, v, m)
    BY <2>7, Zenon DEF IsUpper
  <2>9. QED
    BY <2>2, <2>8
<1>3. QED
  BY <1>2

\* The recursion of Number(v): a function that reads v from its top bit down.
Reads(g, v) ==
    /\ g[0] = 0 /\ Number(v) = g[FieldWidth]
    /\ \A n \in 1..FieldWidth : g[n] = 2 * g[n - 1] + BitOf(v, n)

LEMMA NumberReads ==
    ASSUME CounterPair, NEW v
    PROVE  \E g : Reads(g, v)
<1>1. FieldWidth \in Nat
  BY FieldShape
<1>2. \E k : IsUpper(k, v, FieldWidth)
  BY <1>1, UpperExists
<1> DEFINE g == CHOOSE k : IsUpper(k, v, FieldWidth)
<1>3. IsUpper(g, v, FieldWidth)
  BY <1>2
<1>4. Number(v) = g[FieldWidth]
  BY DEF Number, IsUpper, BitOf
<1> HIDE DEF g
<1>5. \A n \in 0..FieldWidth : g[n] = IF n = 0 THEN 0 ELSE 2 * g[n - 1] + BitOf(v, n)
  BY <1>3, Zenon DEF IsUpper
<1>6. g[0] = 0 /\ \A n \in 1..FieldWidth : g[n] = 2 * g[n - 1] + BitOf(v, n)
  BY <1>1, <1>5
<1>7. QED
  BY <1>4, <1>6 DEF Reads
\* Numbers grow with their bits, up to that of the full field.
LEMMA NumberType ==
    ASSUME CounterPair, NEW v
    PROVE  /\ Number(v) \in 0..(Half - 1)
           /\ Half \in Nat /\ Half > 1
           /\ Number(Bits(LowCsr)) = Half - 1 /\ Number({}) = 0
<1> DEFINE B == Bits(LowCsr)
           W == FieldWidth
<1>1. W \in Nat /\ W # 0 /\ B = 0..(W - 1)
  BY FieldShape
<1>2. PICK g : Reads(g, v)
  BY NumberReads
<1>3. PICK b : Reads(b, B)
  BY NumberReads
<1>4. PICK e : Reads(e, {})
  BY NumberReads
<1>5. \A n \in 1..W : BitOf(v, n) \in 0..1 /\ BitOf(B, n) = 1 /\ BitOf({}, n) = 0
  BY <1>1 DEF BitOf
<1> HIDE DEF B
<1>6. \A n \in 0..W : g[n] \in Nat /\ b[n] \in Nat /\ g[n] <= b[n] /\ e[n] = 0
  <2> DEFINE P(n) == g[n] \in Nat /\ b[n] \in Nat /\ g[n] <= b[n] /\ e[n] = 0
             Wrong == {n \in 0..W : ~ P(n)}
  <2>1. P(0)
    BY <1>2, <1>3, <1>4 DEF Reads
  <2>2. ASSUME NEW n \in 1..W, P(n - 1)
        PROVE  P(n)
    <3>1. /\ g[n] = 2 * g[n - 1] + BitOf(v, n)
          /\ b[n] = 2 * b[n - 1] + 1
          /\ e[n] = 2 * e[n - 1] + 0
      BY <1>2, <1>3, <1>4, <1>5 DEF Reads
    <3>2. QED
      BY <1>5, <2>2, <3>1
  <2> HIDE DEF P
  <2>3. Wrong = {}
    <3>1. SUFFICES ASSUME Wrong # {} PROVE FALSE
      OBVIOUS
    <3>2. Wrong \subseteq Nat
      BY <1>1
    <3>3. PICK m \in Wrong : \A k \in Wrong : m <= k
      <4> HIDE DEF Wrong
      <4>1. QED
        BY <3>1, <3>2, NatMinimum
    <3>4. m \in 0..W /\ ~ P(m) /\ m # 0
      BY <2>1, <3>3
    <3>5. m \in 1..W /\ m - 1 \in 0..W /\ m - 1 \notin Wrong
      BY <1>1, <3>3, <3>4
    <3>6. QED
      BY <2>2, <3>4, <3>5
  <2>4. QED
    BY <2>3 DEF P
<1>7. Number(v) \in Nat /\ Number(B) \in Nat /\ Number(v) <= Number(B) /\ Number({}) = 0
  BY <1>1, <1>2, <1>3, <1>4, <1>6 DEF Reads
<1>8. Number(B) > 0
  <2>1. W \in 1..W /\ W - 1 \in 0..W
    BY <1>1
  <2>2. b[W] = 2 * b[W - 1] + BitOf(B, W)
    BY <1>3, <2>1 DEF Reads
  <2>3. b[W - 1] \in Nat /\ BitOf(B, W) = 1
    BY <1>5, <1>6, <2>1
  <2>4. QED
    BY <1>3, <2>2, <2>3 DEF Reads
<1>9. QED
  BY <1>7, <1>8 DEF Half, B

\* Incrementing a field adds one to its number; the full field rolls over.
LEMMA IncrementCounts ==
    ASSUME CounterPair, NEW f \in Fields, Bits(f) = Bits(LowCsr),
           NEW v, v \subseteq Bits(f)
    PROVE  Number(Increment(f, v)) = IF v = Bits(f) THEN 0 ELSE Number(v) + 1
<1> DEFINE B == Bits(LowCsr)
           W == FieldWidth
<1>1. W \in Nat /\ W # 0 /\ B = 0..(W - 1)
  BY FieldShape
<1>2. CASE v = Bits(f)
  BY <1>2, NumberType DEF Increment
<1>3. CASE v # Bits(f)
  <2>1. B \ v # {} /\ B \ v \subseteq Nat
    <3>1. B \subseteq Nat
      BY <1>1
    <3> HIDE DEF W
    <3>2. QED
      BY <1>3, <3>1
  <2>2. \E z \in B \ v : \A d \in B \ v : z <= d
    BY <2>1, NatMinimum
  <2> DEFINE z == CHOOSE b \in B \ v : \A d \in B \ v : b <= d
             u == {b \in v : b > z} \cup {z}
  <2>3. z \in B \ v /\ \A d \in B \ v : z <= d
    BY <2>2
  <2>4. Increment(f, v) = u
    BY <1>3 DEF Increment
  <2>5. z \in 0..(W - 1) /\ z \notin v /\ \A d \in 0..(W - 1) : d < z => d \in v
    BY <1>1, <2>3
  <2> HIDE DEF z
  <2>6. /\ z \in u
        /\ \A d \in 0..(W - 1) : /\ d > z => (d \in u <=> d \in v)
                                 /\ d < z => d \notin u
    BY <1>1, <2>5
  <2> HIDE DEF u, B
  <2>7. PICK g : Reads(g, v)
    BY NumberReads
  <2>8. PICK h : Reads(h, u)
    BY NumberReads
  <2> DEFINE P(n) == /\ g[n] \in Nat
                     /\ h[n] = IF n < W - z THEN g[n] ELSE g[n] + 1
             Wrong == {n \in 0..W : ~ P(n)}
  <2>9. P(0)
    BY <1>1, <2>5, <2>7, <2>8 DEF Reads
  <2>10. ASSUME NEW n \in 1..W, P(n - 1)
         PROVE  P(n)
    <3>1. g[n] = 2 * g[n - 1] + BitOf(v, n) /\ h[n] = 2 * h[n - 1] + BitOf(u, n)
      BY <2>7, <2>8 DEF Reads
    <3>2. W - n \in 0..(W - 1)
      BY <1>1
    <3>3. BitOf(v, n) \in {0, 1}
      BY DEF BitOf
    <3>4. CASE n < W - z
      <4>1. BitOf(u, n) = BitOf(v, n)
        BY <1>1, <2>5, <2>6, <3>2, <3>4 DEF BitOf
      <4>2. QED
        BY <1>1, <2>5, <2>10, <3>1, <3>3, <3>4, <4>1
    <3>5. CASE n = W - z
      <4>1. BitOf(u, n) = 1 /\ BitOf(v, n) = 0
        BY <1>1, <2>5, <2>6, <3>5 DEF BitOf
      <4>2. QED
        BY <1>1, <2>5, <2>10, <3>1, <3>5, <4>1
    <3>6. CASE n > W - z
      <4>1. BitOf(u, n) = 0 /\ BitOf(v, n) = 1
        BY <1>1, <2>5, <2>6, <3>2, <3>6 DEF BitOf
      <4>2. QED
        BY <1>1, <2>5, <2>10, <3>1, <3>6, <4>1
    <3>7. QED
      BY <1>1, <2>5, <3>4, <3>5, <3>6
  <2>11. P(W)
    <3> HIDE DEF P
    <3>1. Wrong = {}
      <4>1. SUFFICES ASSUME Wrong # {} PROVE FALSE
        OBVIOUS
      <4>2. Wrong \subseteq Nat
        BY <1>1
      <4>3. PICK m \in Wrong : \A k \in Wrong : m <= k
        <5> HIDE DEF Wrong
        <5>1. QED
          BY <4>1, <4>2, NatMinimum
      <4>4. m \in 0..W /\ ~ P(m) /\ m # 0
        BY <2>9, <4>3
      <4>5. m \in 1..W /\ m - 1 \in 0..W /\ m - 1 \notin Wrong
        BY <1>1, <4>3, <4>4
      <4>6. QED
        BY <2>10, <4>4, <4>5
    <3>2. QED
      BY <1>1, <3>1
  <2>12. h[W] = g[W] + 1
    BY <1>1, <2>5, <2>11
  <2>13. QED
    BY <1>3, <2>4, <2>7, <2>8, <2>12 DEF Reads
<1>4. QED
  BY <1>2, <1>3
(***************************************************************************)
(* The pair as one counter                                                 *)
(***************************************************************************)
FieldsFit == \A f \in Fields : fval[f] \subseteq Bits(f)

\* No half outgrows its field.
LEMMA HalvesFit == CounterSpec => []FieldsFit
<1>1. FileInit => FieldsFit
  BY DesignAccepted DEF FileInit, FieldsFit, Elaborated
<1>2. ASSUME FieldsFit, NEW cmd \in Writes, NEW en \in SUBSET Enables,
             CounterCycle(cmd, en)
      PROVE  FieldsFit'
  <2>1. ASSUME NEW f \in Fields
        PROVE  fval'[f] \subseteq Bits(f)
    <3>1. fval[f] \subseteq Bits(f)
      BY <1>2 DEF FieldsFit
    <3>2. Legalize(f, NewValue(f, cmd)) \subseteq Bits(f)
      BY <3>1, NewValueInField, LegalizeLegal
    <3>3. Increment(f, fval[f]) \subseteq Bits(f)
      BY <3>1, IncrementInField
    <3>4. fval'[f] = Next1(f, cmd, TRUE, [g \in HwFields |-> fval[g]], en)
      BY <1>2 DEF CounterCycle, Edge
    <3>5. QED
      BY <3>1, <3>2, <3>3, <3>4 DEF Next1
  <2>2. QED
    BY <2>1 DEF FieldsFit, Bits
<1>3. FieldsFit /\ UNCHANGED fileVars => FieldsFit'
  BY DEF FieldsFit, fileVars, Bits
<1>4. /\ FieldsFit
      /\ [\E cmd \in Writes, en \in SUBSET Enables : CounterCycle(cmd, en)]_fileVars
      => FieldsFit'
  BY <1>2, <1>3
<1>5. QED
  BY <1>1, <1>4, PTL DEF CounterSpec

\* What counting does to a pair of halves.
LEMMA PairCounts ==
    ASSUME NEW H \in Nat, H > 1, NEW h \in 0..(H - 1), NEW l \in 0..(H - 1)
    PROVE  (h * H + l + 1) % (H * H)
              = IF l # H - 1 THEN h * H + (l + 1)
                ELSE IF h # H - 1 THEN (h + 1) * H + 0 ELSE 0
<1>1. H * H \in Nat /\ H * H > 0
  BY Square
<1>2. \A x, m \in Nat : m > 0 /\ x < m => x % m = x
  OBVIOUS
<1>3. \A m \in Nat : m > 0 => m % m = 0
  OBVIOUS
<1>4. CASE l # H - 1
  <2>1. h * H + (l + 1) \in 0..(H * H - 1)
    BY <1>4, PairOf
  <2>2. h * H \in Nat
    OBVIOUS
  <2>3. h * H + l + 1 = h * H + (l + 1)
    BY <2>2
  <2>4. QED
    BY <1>1, <1>2, <1>4, <2>1, <2>3
<1>5. CASE l = H - 1 /\ h # H - 1
  <2>1. (h + 1) * H + 0 \in 0..(H * H - 1)
    BY <1>5, PairOf
  <2>2. h * H + l + 1 = (h + 1) * H + 0
    BY <1>5
  <2>3. QED
    BY <1>1, <1>2, <1>5, <2>1, <2>2
<1>6. CASE l = H - 1 /\ h = H - 1
  <2>1. h * H + l + 1 = H * H
    BY <1>6
  <2>2. QED
    BY <1>1, <1>3, <1>6, <2>1
<1>7. QED
  BY <1>4, <1>5, <1>6

\* The halves as a cycle without a software write would leave them
HighCounted(en) == IF Increments(HighCsr, en) THEN Increment(HighCsr, fval[HighCsr])
                   ELSE fval[HighCsr]
LowCounted(en) == IF Increments(LowCsr, en) THEN Increment(LowCsr, fval[LowCsr])
                  ELSE fval[LowCsr]

\* The carry of the hardware is the carry of the number.
LEMMA CountedPair ==
    ASSUME CounterPair, FieldWidth % 4 = 0, FieldsFit, NEW en \in SUBSET Enables
    PROVE  Wide!Counted(F[LowCsr].hw_increment_when \in en)
              = Number(HighCounted(en)) * Half + Number(LowCounted(en))
<1> DEFINE count == F[LowCsr].hw_increment_when \in en
           hi == fval[HighCsr]
           lo == fval[LowCsr]
<1>1. /\ LowCsr \in LowCounters /\ LowCsr \notin HighCounters
      /\ HighCsr \in HighCounters /\ HighCsr \notin LowCounters
      /\ LowField(HighCsr) = LowCsr /\ Bits(HighCsr) = Bits(LowCsr)
      /\ LowCsr \in Fields /\ HighCsr \in Fields
  BY DEF CounterPair, LowCounters, HighCounters
<1>2. LowMax(LowCsr) = Bits(LowCsr)
  BY FieldShape
<1>3. /\ Increments(LowCsr, en) <=> count
      /\ Increments(HighCsr, en) <=> count /\ lo = Bits(LowCsr)
  BY <1>1, <1>2 DEF Increments
<1>4. hi \subseteq Bits(HighCsr) /\ lo \subseteq Bits(LowCsr)
  BY <1>1 DEF FieldsFit
<1>5. /\ Number(hi) \in 0..(Half - 1) /\ Number(lo) \in 0..(Half - 1)
      /\ Half \in Nat /\ Half > 1
      /\ Number(Bits(LowCsr)) = Half - 1
  BY NumberType
<1>6. CASE ~count
  BY <1>3, <1>6 DEF Wide!Counted, HighCounted, LowCounted
<1>7. CASE count
  <2> DEFINE H == Number(hi)
             L == Number(lo)
  <2>1. Number(LowCounted(en)) = IF lo = Bits(LowCsr) THEN 0 ELSE L + 1
    BY <1>1, <1>3, <1>4, <1>7, IncrementCounts DEF LowCounted
  <2>2. Number(HighCounted(en)) = IF lo # Bits(LowCsr) THEN H
                                  ELSE IF hi = Bits(LowCsr) THEN 0 ELSE H + 1
    BY <1>1, <1>3, <1>4, <1>7, IncrementCounts DEF HighCounted
  <2>3. lo # Bits(LowCsr) => L # Half - 1
    <3>1. SUFFICES ASSUME lo # Bits(LowCsr) PROVE L # Half - 1
      OBVIOUS
    <3>2. Number(Increment(LowCsr, lo)) = L + 1
      BY <1>1, <1>4, <3>1, IncrementCounts
    <3>3. Number(Increment(LowCsr, lo)) \in 0..(Half - 1)
      BY NumberType
    <3>4. QED
      BY <1>5, <3>2, <3>3
  <2>4. hi # Bits(LowCsr) => H # Half - 1
    <3>1. SUFFICES ASSUME hi # Bits(LowCsr) PROVE H # Half - 1
      OBVIOUS
    <3>2. Number(Increment(HighCsr, hi)) = H + 1
      BY <1>1, <1>4, <3>1, IncrementCounts
    <3>3. Number(Increment(HighCsr, hi)) \in 0..(Half - 1)
      BY NumberType
    <3>4. QED
      BY <1>5, <3>2, <3>3
  <2>5. Wide!Counted(count) = (H * Half + L + 1) % (Half * Half)
    BY <1>7 DEF Wide!Counted
  <2>6. (H * Half + L + 1) % (Half * Half)
           = IF L # Half - 1 THEN H * Half + (L + 1)
             ELSE IF H # Half - 1 THEN (H + 1) * Half + 0 ELSE 0
    BY <1>5, PairCounts
  <2>7. 0 * Half + 0 = 0
    BY <1>5
  <2> HIDE DEF H, L
  <2>8. lo = Bits(LowCsr) => L = Half - 1
    BY <1>5 DEF L
  <2>9. hi = Bits(LowCsr) => H = Half - 1
    BY <1>5 DEF H
  <2>10. QED
    BY <2>1, <2>2, <2>3, <2>4, <2>5, <2>6, <2>7, <2>8, <2>9
<1>8. QED
  BY <1>6, <1>7

\* The halves after a cycle
LEMMA HalvesAfter ==
    ASSUME CounterPair, NEW cmd \in Writes, NEW en \in SUBSET Enables,
           CounterCycle(cmd, en)
    PROVE  /\ fval'[LowCsr] = IF Written(LowCsr, cmd, TRUE)
                              THEN Legalize(LowCsr, NewValue(LowCsr, cmd))
                              ELSE LowCounted(en)
           /\ fval'[HighCsr] = IF Written(HighCsr, cmd, TRUE)
                               THEN Legalize(HighCsr, NewValue(HighCsr, cmd))
                               ELSE HighCounted(en)
           /\ ~ (Written(LowCsr, cmd, TRUE) /\ Written(HighCsr, cmd, TRUE))
<1>1. LowCsr \in Counters /\ HighCsr \in Counters /\ Addr(LowCsr) # Addr(HighCsr)
  BY DEF CounterPair, Counters
<1>2. LowCsr \in Fields \ HwFields /\ HighCsr \in Fields \ HwFields
  BY <1>1, DesignAccepted DEF Validate, Counters, LowCounters, HighCounters, HwFields
<1>3. ~ (Written(LowCsr, cmd, TRUE) /\ Written(HighCsr, cmd, TRUE))
  BY <1>1 DEF Written
<1>4. \A f \in Fields \ HwFields :
         fval'[f] = IF Written(f, cmd, TRUE) THEN Legalize(f, NewValue(f, cmd))
                    ELSE IF Increments(f, en) THEN Increment(f, fval[f])
                    ELSE fval[f]
  BY DEF CounterCycle, Edge, Next1
<1>5. QED
  BY <1>2, <1>3, <1>4 DEF LowCounted, HighCounted

\* Two linked counter fields of whole hexadecimal digits are one counter of
\* twice the width: for every width, every enable, and whatever software
\* writes to either half in the same cycle.
THEOREM CountersAreWide ==
    ASSUME CounterPair, FieldWidth % 4 = 0
    PROVE  CounterSpec => ImplementsWideCounter
<1>1. ASSUME FieldsFit, NEW cmd \in Writes, NEW en \in SUBSET Enables,
             CounterCycle(cmd, en)
      PROVE  Wide!Step(F[LowCsr].hw_increment_when \in en, LoadOf(cmd))
  <2> DEFINE v == Wide!Counted(F[LowCsr].hw_increment_when \in en)
             hi == Number(HighCounted(en))
             lo == Number(LowCounted(en))
  <2>1. v = hi * Half + lo
    BY <1>1, CountedPair
  <2>2. hi \in 0..(Half - 1) /\ lo \in 0..(Half - 1) /\ Half \in Nat /\ Half > 1
    BY NumberType
  <2>3. Wide!High(v) = hi /\ Wide!Low(v) = lo
    BY <2>1, <2>2, HalvesOfPair DEF Wide!High, Wide!Low
  <2> HIDE DEF v, hi, lo
  <2> DEFINE new == Number(fval'[HighCsr]) * Half + Number(fval'[LowCsr])
  <2>4. CASE Written(LowCsr, cmd, TRUE)
    <3>1. new = hi * Half + Stored(LowCsr, cmd)
      BY <1>1, <2>4, HalvesAfter DEF hi, Stored
    <3>2. LoadOf(cmd) = Wide!Load("low", Stored(LowCsr, cmd))
      BY <1>1, <2>4, HalvesAfter DEF LoadOf
    <3>3. QED
      BY <2>3, <3>1, <3>2 DEF Wide!Step, Wide!Load, v
  <2>5. CASE ~Written(LowCsr, cmd, TRUE) /\ Written(HighCsr, cmd, TRUE)
    <3>1. new = Stored(HighCsr, cmd) * Half + lo
      BY <1>1, <2>5, HalvesAfter DEF lo, Stored
    <3>2. LoadOf(cmd) = Wide!Load("high", Stored(HighCsr, cmd))
      BY <2>5 DEF LoadOf
    <3>3. QED
      BY <2>3, <3>1, <3>2 DEF Wide!Step, Wide!Load, v
  <2>6. CASE ~Written(LowCsr, cmd, TRUE) /\ ~Written(HighCsr, cmd, TRUE)
    <3>1. new = hi * Half + lo
      BY <1>1, <2>6, HalvesAfter DEF hi, lo
    <3>2. LoadOf(cmd) = Wide!NoLoad
      BY <2>6 DEF LoadOf
    <3>3. QED
      BY <2>1, <3>1, <3>2 DEF Wide!Step, Wide!NoLoad, v
  <2>7. QED
    BY <2>4, <2>5, <2>6
<1>2. FieldsFit
        => [\A cmd \in Writes, en \in SUBSET Enables :
              CounterCycle(cmd, en) =>
                 Wide!Step(F[LowCsr].hw_increment_when \in en, LoadOf(cmd))]_fileVars
  BY <1>1
<1>3. QED
  BY <1>2, HalvesFit, PTL DEF ImplementsWideCounter
=============================================================================
