---------------------------- MODULE PlicContract ----------------------------
(***************************************************************************)
(* What the interrupt controller promises the software of each context: a  *)
(* claim hands out a source that is not in service there and puts it in    *)
(* service; it stays in service until software completes that very source  *)
(* on that very context.  (emit_plic_logic.py:19-31)                       *)
(***************************************************************************)
CONSTANTS Contexts, Sources, Ids

VARIABLES
    service,   \* the sources each context has claimed and not completed
    answer     \* the last ID a claim read returned to each context

cvars == <<service, answer>>

Init ==
    /\ service = [c \in Contexts |-> {}]
    /\ answer = [c \in Contexts |-> 0]

\* Software reads the claim register and gets source i.
Claim(c, i) ==
    /\ i \notin service[c]
    /\ service' = [service EXCEPT ![c] = @ \cup {i}]
    /\ answer' = [answer EXCEPT ![c] = i]

\* Software reads the claim register and no source is waiting.
ClaimNothing(c) ==
    /\ answer' = [answer EXCEPT ![c] = 0]
    /\ UNCHANGED service

\* Software writes id to the claim register, whether or not it holds it.
Complete(c, id) ==
    /\ service' = [service EXCEPT ![c] = @ \ {id}]
    /\ UNCHANGED answer

Next == \E c \in Contexts :
            \/ \E i \in Sources : Claim(c, i)
            \/ ClaimNothing(c)
            \/ \E id \in Ids : Complete(c, id)

Spec == Init /\ [][Next]_cvars
=============================================================================
