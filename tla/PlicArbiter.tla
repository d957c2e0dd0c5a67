----------------------------- MODULE PlicArbiter -----------------------------
(***************************************************************************)
(* The arbitration cascade exactly as emit_plic_logic unrolls it: a        *)
(* running best (id, prio), replaced by a later source only if there is    *)
(* none yet or its priority is strictly higher.  Plic uses the order the   *)
(* cascade is meant to implement; here the two are compared in every       *)
(* reachable state.                                                        *)
(***************************************************************************)
EXTENDS Plic

\* c<ctx>_w0: no source yet
NoneYet == [id |-> 0, prio |-> 0]

\* Faulty: a later source of equal priority replaces the running best
StageLastWins(c, i, w) ==
    IF i \in Candidates(c) /\ (w.id = 0 \/ priority[i] >= w.prio)
    THEN [id |-> i, prio |-> priority[i]]
    ELSE w

\* c<ctx>_w<i>_id and c<ctx>_w<i>_prio, from those of stage i - 1
Stage(c, i, w) ==
    IF i \in Candidates(c) /\ (w.id = 0 \/ priority[i] > w.prio)
    THEN [id |-> i, prio |-> priority[i]]
    ELSE w

\* c<ctx>_w<n>_id, the output of the last stage
Cascade(c) ==
    LET w[i \in 0..N] == IF i = 0 THEN NoneYet ELSE Stage(c, i, w[i-1])
    IN  w[N].id

\* The cascade picks the candidate of highest priority, and among equals the
\* one of lowest ID (emit_plic_logic.py:14-17).
CascadePicksBest == \A c \in Contexts : Cascade(c) = Winner(c)
=============================================================================
