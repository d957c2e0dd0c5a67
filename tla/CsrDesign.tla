------------------------------ MODULE CsrDesign ------------------------------
(***************************************************************************)
(* A scanned CSR design: the tables that scan_csrs.py builds from the RDL  *)
(* tree and that the emitters unroll into hardware, and the checks of      *)
(* validate_csrs.py.  A register value, or a field value, is the set of    *)
(* the bit positions of the register that are 1, so slicing is             *)
(* intersection, SET is union, CLEAR is difference and packing is union.   *)
(***************************************************************************)
EXTENDS Integers, Sequences, FiniteSets

CONSTANTS
    R,    \* the registers in declaration order: a sequence of records
          \*   address, priv ("m", "s", "u" or "none"), trap_signal
    F     \* the fields: a function from field names to records
          \*   reg, bits, sw_readable, sw_writable, hw_writable, reset, wpri,
          \*   warl ([kind, legal]), save_on_trap, restore_on_ret, hw_mirror,
          \*   hw_increment_when, hw_increment_high_of, trap_signal
          \* An absent name is "none", an absent register link is 0.

Regs == DOMAIN R
Fields == DOMAIN F
Bits(f) == F[f].bits
Addr(f) == R[F[f].reg].address

HwFields == {f \in Fields : F[f].hw_writable}
LowCounters == {f \in Fields : F[f].hw_increment_when # "none"}
HighCounters == {f \in Fields \ LowCounters : F[f].hw_increment_high_of # 0}
Counters == LowCounters \cup HighCounters
Enables == {F[f].hw_increment_when : f \in LowCounters}
Signals == ({R[r].trap_signal : r \in Regs} \cup {F[f].trap_signal : f \in Fields})
               \ {"none"}

(***************************************************************************)
(* Numbers.  S is below T when the highest bit they differ in is in T.     *)
(***************************************************************************)
Below(S, T) == \E b \in T \ S : \A d \in (S \ T) \cup (T \ S) : d <= b

Least(V) == CHOOSE v \in V : \A w \in V : v = w \/ Below(v, w)

(***************************************************************************)
(* WARL: the values a field may hold, and what the write path stores for a *)
(* requested value.  An enum keeps a listed value and stores the smallest  *)
(* one for anything else.                                                  *)
(***************************************************************************)
WarlKinds == {"none", "mask", "enum"}

LegalValues(f) ==
    CASE F[f].warl.kind = "none" -> SUBSET Bits(f)
      [] F[f].warl.kind = "mask" -> SUBSET (Bits(f) \cap UNION F[f].warl.legal)
      [] F[f].warl.kind = "enum" -> F[f].warl.legal

\* Faulty: the bits outside a mask are stored
LegalizeEnumsOnly(f, v) ==
    IF F[f].warl.kind = "enum" /\ v \notin F[f].warl.legal THEN Least(F[f].warl.legal)
    ELSE v

\* Faulty: an enum field that stores an unlisted value as it is
LegalizeMasksOnly(f, v) ==
    IF F[f].warl.kind = "mask" THEN v \cap UNION F[f].warl.legal ELSE v

Legalize(f, v) ==
    CASE F[f].warl.kind = "none" -> v
      [] F[f].warl.kind = "mask" -> v \cap UNION F[f].warl.legal
      [] F[f].warl.kind = "enum" -> IF v \in F[f].warl.legal THEN v
                                    ELSE Least(F[f].warl.legal)

(***************************************************************************)
(* Counters: the low half of a linked pair, the +% 1 of a field, and the   *)
(* literal that the carry compares the low half with: one hexadecimal f    *)
(* per four whole bits of its width.                                       *)
(***************************************************************************)
LowField(f) ==
    CHOOSE g \in LowCounters : F[g].reg = F[f].hw_increment_high_of

Increment(f, v) ==
    IF v = Bits(f) THEN {}
    ELSE LET z == CHOOSE b \in Bits(f) \ v : \A d \in Bits(f) \ v : b <= d
         IN {b \in v : b > z} \cup {z}

Lsb(f) == CHOOSE b \in Bits(f) : \A d \in Bits(f) : b <= d

LowMax(f) ==
    {b \in Bits(f) : b - Lsb(f) < 4 * (Cardinality(Bits(f)) \div 4)}

(***************************************************************************)
(* What an elaborated RDL tree guarantees, and what validate accepts.      *)
(***************************************************************************)
Table == R \in Seq([address : 0..4095, priv : STRING, trap_signal : STRING])

Elaborated ==
    /\ \A f \in Fields :
        /\ F[f].reg \in Regs
        /\ Bits(f) # {} /\ Bits(f) \in SUBSET (0..63) /\ F[f].reset \in SUBSET Bits(f)
        /\ F[f].warl.kind \in WarlKinds
        /\ F[f].warl.kind = "enum" =>
             /\ F[f].warl.legal \in SUBSET SUBSET Bits(f)
             /\ \E v \in F[f].warl.legal :
                  \A w \in F[f].warl.legal : v = w \/ Below(v, w)
    /\ \A f, g \in Fields : f # g /\ F[f].reg = F[g].reg => Bits(f) \cap Bits(g) = {}

Validate ==
    /\ \A r \in Regs : R[r].priv \in {"m", "s", "u", "none"}
    /\ \A f \in Fields :
        /\ F[f].wpri => F[f].warl.kind = "none"
        /\ F[f].save_on_trap => F[f].hw_writable
        /\ F[f].hw_mirror => /\ F[f].hw_writable
                             /\ ~F[f].save_on_trap /\ ~F[f].restore_on_ret
        /\ f \in Counters => /\ ~F[f].hw_writable /\ F[f].sw_writable
                             /\ ~F[f].save_on_trap /\ ~F[f].restore_on_ret
                             /\ ~F[f].hw_mirror
        /\ F[f].hw_increment_high_of # 0 =>
             /\ F[f].hw_increment_high_of \in Regs
             /\ \E g \in LowCounters :
                  /\ \A h \in LowCounters :
                        F[h].reg = F[f].hw_increment_high_of <=> h = g
                  /\ Cardinality(Bits(g)) = Cardinality(Bits(f))

ASSUME DesignAccepted == Table /\ Elaborated /\ Validate
=============================================================================
