------------------------------ MODULE IntrScan ------------------------------
(***************************************************************************)
(* The scanners of the interrupt controllers: the registers of an address  *)
(* map, in declaration order, are put in buckets by their role, ordered,   *)
(* and checked (emit_plic_logic.py, emit_clint_logic.py).  A register is a *)
(* record [role, index, address, read_pulse, write_pulse]; role "none" is  *)
(* an untagged register, index its place in a register array.              *)
(***************************************************************************)
EXTENDS Integers, FiniteSets, SequencesExt

\* The tags that the two UDPs let through, for either kind of controller
PlicRoles == {"priority", "pending", "enable", "threshold", "claim"}
ClintRoles == {"msip", "mtimecmp_lo", "mtimecmp_hi", "mtime_lo", "mtime_hi"}

TagsValid(regs, roles) ==
    \A i \in DOMAIN regs : regs[i].role \in roles \cup {"none"}

\* The places of a role's registers in the address map
Places(regs, role) == {i \in DOMAIN regs : regs[i].role = role}

\* list.sort: the registers at the places of key, in the order of their keys,
\* those with the same key in the order they were declared
Before(key, i) == {j \in DOMAIN key : key[j] < key[i] \/ (key[j] = key[i] /\ j < i)}
Place(key, c) == CHOOSE i \in DOMAIN key : Cardinality(Before(key, i)) = c - 1
Sorted(regs, key) == [c \in 1..Cardinality(DOMAIN key) |-> regs[Place(key, c)]]

Bucket(regs, role) == Sorted(regs, [i \in Places(regs, role) |-> i])

\* Faulty: the registers of a role in the order they were declared
InDeclarationOrder(regs, role) == Bucket(regs, role)

Address(regs, role) == [i \in Places(regs, role) |-> regs[i].address]
ByAddress(regs, role) == Sorted(regs, Address(regs, role))
ByIndex(regs, role) == Sorted(regs, [i \in Places(regs, role) |-> regs[i].index])

(***************************************************************************)
(* PLIC                                                                    *)
(***************************************************************************)

\* Of several pending registers the last one declared is kept.
ScanPlic(regs) ==
    LET priorities == ByIndex(regs, "priority")
    IN [pending    |-> Bucket(regs, "pending"),
        enables    |-> ByAddress(regs, "enable"),
        thresholds |-> ByAddress(regs, "threshold"),
        claims     |-> ByAddress(regs, "claim"),
        priorities |-> priorities,
        n_sources  |-> Len(priorities) - 1]

PlicAccepted(m) ==
    /\ m.pending # <<>>
    /\ m.enables # <<>> /\ m.thresholds # <<>> /\ m.claims # <<>>
    /\ Len(m.enables) = Len(m.thresholds) /\ Len(m.claims) = Len(m.thresholds)
    /\ m.n_sources >= 1
    /\ \A c \in DOMAIN m.claims : m.claims[c].read_pulse /\ m.claims[c].write_pulse

\* The registers that the logic of a context is wired to
Context(m, c) == <<m.enables[c], m.thresholds[c], m.claims[c]>>

(***************************************************************************)
(* CLINT: one register per role, the last one declared                     *)
(***************************************************************************)
ScanClint(regs) == [role \in ClintRoles |-> Bucket(regs, role)]

ClintAccepted(m) == \A role \in ClintRoles : m[role] # <<>>
=============================================================================
