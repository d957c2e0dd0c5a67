----------------------------- MODULE PlicHandler -----------------------------
(***************************************************************************)
(* The interrupt controller in the SoC, with the interrupt handlers that   *)
(* tests/cpu/sw/multictx_isr.S runs on the one CPU: intr_out[0] is         *)
(* irq_external, intr_out[1] is irq_fast[0], and the CPU takes the lower   *)
(* context first.  Each handler reads its claim register, stores the ID,   *)
(* writes it back and clears its bit of mie.  The bus is the OBI bridge,   *)
(* so one transaction at a time; the CPU spends any number of cycles       *)
(* between two of them.  The configuration is the one the boot code wrote  *)
(* before enabling traps.                                                  *)
(***************************************************************************)
EXTENDS Plic

CONSTANTS
    BootPriority, BootEnable, BootThreshold   \* what _start wrote

ASSUME BootConstants ==
    /\ Serialized
    /\ "claim" \in SwKinds
    /\ Contexts \subseteq Nat
    /\ BootPriority \in [Sources -> Prios]
    /\ BootEnable \in [Contexts -> SUBSET Sources]
    /\ BootThreshold \in [Contexts -> Prios]

VARIABLES
    pc,    \* main program, claim, wait for the data, complete, wait for the ack
    ctx,   \* the context whose handler runs
    saved, \* saved_claim: the ID the running handler got
    mie,   \* the contexts whose interrupt is enabled
    HoldLevels,  \* rigid: a device holds its line until its source is claimed
    OneShot      \* rigid: the handlers of the program, which disable their
                 \* interrupt, or else handlers that leave it enabled

kinds == <<HoldLevels, OneShot>>
cpuVars == <<pc, ctx, saved, mie>>
allVars == <<vars, cpuVars, kinds>>

\* The CPU idles on the bus for this cycle.
NoBus == NoWrite /\ NoRead

\* irq_external_i before irq_fast_i: the handler of the lowest context whose
\* interrupt waits and is enabled
Pending(c) == c \in mie /\ IntrOut(c)

Trap ==
    /\ pc = "main"
    /\ \E c \in Contexts : /\ Pending(c)
                           /\ \A k \in Contexts : k < c => ~Pending(k)
                           /\ ctx' = c
    /\ pc' = "claim"
    /\ NoBus /\ UNCHANGED <<saved, mie>>

\* lw t1, PLIC_CLAIM_<ctx>
LoadClaim ==
    /\ pc = "claim"
    /\ ReadClaim(ctx) /\ NoWrite
    /\ pc' = "data"
    /\ UNCHANGED <<ctx, saved, mie>>

\* The response: sw t1, saved_claim
SaveClaim ==
    /\ pc = "data" /\ rresp_valid_r
    /\ saved' = answer[ctx]
    /\ pc' = "complete"
    /\ NoBus /\ UNCHANGED <<ctx, mie>>

\* sw t1, PLIC_CLAIM_<ctx>: written back whatever the ID was
StoreClaim ==
    /\ pc = "complete"
    /\ WriteClaim(ctx, saved) /\ NoRead
    /\ pc' = "ack"
    /\ UNCHANGED <<ctx, saved, mie>>

\* The response, csrc mie, and mret
Return ==
    /\ pc = "ack" /\ bresp_valid_r
    /\ pc' = "main"
    /\ mie' = IF OneShot THEN mie \ {ctx} ELSE mie
    /\ NoBus /\ UNCHANGED <<ctx, saved>>

\* A cycle of other instructions; a pending response is never left waiting.
Work ==
    /\ ~rresp_valid_r /\ ~bresp_valid_r
    /\ NoBus /\ UNCHANGED cpuVars

CpuStep == Trap \/ LoadClaim \/ SaveClaim \/ StoreClaim \/ Return

\* A level-triggered device keeps its line up until its source is in service.
Devices ==
    /\ Wires
    /\ HoldLevels => \A i \in source_in \ source_in' :
                         \E c \in Contexts : i \in claimed[c]

\* The boot code's writes have already happened.
HInit ==
    /\ source_in = {} /\ pending = {}
    /\ priority = BootPriority /\ enable = BootEnable /\ threshold = BootThreshold
    /\ claim = [c \in Contexts |-> 0]
    /\ claimed = [c \in Contexts |-> {}]
    /\ wr_pulse_d = NoPulse
    /\ bresp_valid_r = FALSE /\ rresp_valid_r = FALSE
    /\ answer = [c \in Contexts |-> 0]
    /\ pc = "main" /\ ctx \in Contexts /\ saved = 0 /\ mie = Contexts
    /\ HoldLevels \in BOOLEAN /\ OneShot \in BOOLEAN

HNext == (CpuStep \/ Work) /\ Devices /\ UNCHANGED kinds

\* The CPU never stops between two instructions of a handler, and takes a
\* trap that stays pending.
HSpec == HInit /\ [][HNext]_allVars
         /\ WF_allVars(CpuStep /\ Devices /\ UNCHANGED kinds)

(***************************************************************************)
(* Properties                                                              *)
(***************************************************************************)

HTypeOK == /\ TypeOK
           /\ pc \in {"main", "claim", "data", "complete", "ack"}
           /\ ctx \in Contexts
           /\ saved \in Ids
           /\ mie \subseteq Contexts
           /\ HoldLevels \in BOOLEAN /\ OneShot \in BOOLEAN

\* Outside a handler nothing is in service on any context, and inside one
\* exactly the source its claim returned: no source stays masked after its
\* handler returned.
NothingLeftInService ==
    \A c \in Contexts :
        InService(c) = IF c = ctx /\ pc \in {"data", "complete"}
                       THEN {answer[c]} \ {0} ELSE {}

\* A handler whose devices hold their lines until they are claimed never
\* reads "no interrupt", not even when contexts share a source: the trap is
\* taken on the arbiter's combinational output, the ID read is the registered
\* one.
NoSpuriousClaim == HoldLevels /\ pc = "complete" => saved \in BootEnable[ctx]

\* The sources that keep a source of a context waiting as long as they assert
\* their lines: those that beat it, and all those of the earlier contexts.
Rivals(c, i) ==
    {j \in BootEnable[c] \ {i} : Beats(j, i)}
        \cup UNION {BootEnable[k] : k \in {k \in Contexts : k < c}}

Served(c, i) == pc = "complete" /\ ctx = c /\ saved = i

\* A source that stays asserted is served again and again once its rivals are
\* quiet: every completion makes it a candidate again, none is lost.
PersistentSourceServed ==
    ~OneShot => \A c \in Contexts, i \in Sources :
        BootPriority[i] > BootThreshold[c] /\ i \in BootEnable[c] =>
            (<>[](i \in source_in /\ source_in \cap Rivals(c, i) = {})
                => []<>Served(c, i))

\* The program finishes: when every context has a source whose line stays
\* up, each handler runs, whichever of the lines comes first, and both flags
\* that the main loop polls are set.
ProgramFinishes ==
    (/\ OneShot
     /\ \A c \in Contexts : \E i \in BootEnable[c] :
            BootPriority[i] > BootThreshold[c] /\ <>[](i \in source_in))
        => <>(mie = {} /\ pc = "main")
=============================================================================
