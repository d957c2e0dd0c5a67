-------------------------------- MODULE Plic --------------------------------
(***************************************************************************)
(* The generated platform-level interrupt controller: the PlicLogic module *)
(* of emit_plic_logic.py (arbitration, claim / complete bookkeeping) wired *)
(* to the AXI4-Lite register block that upstream rdl2arch generates for    *)
(* the same RDL (golden output: tests/expected/plic_multictx).             *)
(*                                                                         *)
(* One step is one rising clock edge: every register of both modules is    *)
(* updated from the values of the cycle that ends, as the two `seq` blocks *)
(* do.  The wires of a cycle that nobody stores (candidates, winner,       *)
(* intr_out) are state functions.  Bitmaps are sets of source IDs.         *)
(***************************************************************************)
EXTENDS Integers

CONSTANTS
    N,           \* n_sources: source IDs are 1..N, ID 0 means "none"
    Contexts,    \* interrupt contexts, one enable / threshold / claim each
    MaxPrio,     \* largest value of a priority or threshold field
    MaxId,       \* largest value of a claim field (2^id_w - 1)
    Serialized,  \* TRUE: one transaction at a time, as behind obi_to_axi_lite;
                 \* FALSE: AXI4-Lite read and write channels run independently
    SwKinds      \* the kinds of register that software writes in this instance

Kinds == {"priority", "enable", "threshold", "claim"}

ASSUME PlicConstants ==
    /\ N \in Nat \ {0}
    /\ MaxPrio \in Nat
    /\ MaxId \in Nat /\ N <= MaxId
    /\ Serialized \in BOOLEAN
    /\ SwKinds \subseteq Kinds

Sources == 1..N
Prios == 0..MaxPrio
Ids == 0..MaxId

VARIABLES
    source_in,      \* the level inputs during this cycle
    priority, enable, threshold,     \* SW-written configuration registers
    pending,        \* pending_r: source_in of the previous cycle
    claim,          \* claim_<ctx>_r: winner of the previous cycle, or a SW-written ID
    claimed,        \* c<ctx>_claimed_r: the in-service bitmap
    wr_pulse_d,     \* c<ctx>_wr_pulse_d: claim register written in the previous cycle
    bresp_valid_r, rresp_valid_r,    \* a write / read response is outstanding
    answer          \* rdata_r of the last read of each claim register

config == <<priority, enable, threshold>>
vars == <<source_in, priority, enable, threshold, pending, claim, claimed,
          wr_pulse_d, bresp_valid_r, rresp_valid_r, answer>>

(***************************************************************************)
(* Arbitration                                                             *)
(***************************************************************************)

\* Faulty variants, for the mutation runs: a candidate that ignores the
\* in-service bitmap, or the enable bit.
CandidatesNoMask(c) ==
    {i \in source_in \cap enable[c] : priority[i] > threshold[c]}
CandidatesNoEnable(c) ==
    {i \in source_in \ claimed[c] : priority[i] > threshold[c]}

\* c<ctx>_cand_<i>
Candidates(c) ==
    {i \in Sources : /\ i \in source_in
                     /\ i \in enable[c]
                     /\ priority[i] > threshold[c]
                     /\ i \notin claimed[c]}

\* Faulty: no order between sources of equal priority
BeatsStrictly(i, j) == i = j \/ priority[i] > priority[j]

\* i wins over j: higher priority, ties toward the lowest ID.
Beats(i, j) == \/ priority[i] > priority[j]
               \/ priority[i] = priority[j] /\ i <= j

\* c<ctx>_w<n>_id.  What the unrolled cascade of PlicArbiter computes.
Best(c) == {i \in Candidates(c) : \A j \in Candidates(c) : Beats(i, j)}
Winner(c) == IF Best(c) = {} THEN 0 ELSE CHOOSE i \in Best(c) : TRUE

\* intr_out[ctx], the interrupt wire of a context
IntrOut(c) == Winner(c) # 0

(***************************************************************************)
(* The write channel: at most one register written per edge                *)
(***************************************************************************)

\* The claim registers are driven by the arbiter every cycle and the
\* software write, last in the `seq` block, wins over that drive.
HwClaim == [c \in Contexts |-> Winner(c)]
NoPulse == [c \in Contexts |-> FALSE]

WrReady == ~bresp_valid_r /\ (Serialized => ~rresp_valid_r)

NoWrite ==
    /\ bresp_valid_r' \in {FALSE, bresp_valid_r /\ ~Serialized}  \* b_ready
    /\ claim' = HwClaim
    /\ wr_pulse_d' = NoPulse
    /\ UNCHANGED config

WriteConfig ==
    /\ WrReady
    /\ bresp_valid_r' = TRUE
    /\ claim' = HwClaim
    /\ wr_pulse_d' = NoPulse
    /\ \/ /\ "priority" \in SwKinds
          /\ \E i \in Sources, p \in Prios : priority' = [priority EXCEPT ![i] = p]
          /\ UNCHANGED <<enable, threshold>>
       \/ /\ "enable" \in SwKinds
          /\ \E c \in Contexts, e \in SUBSET Sources : enable' = [enable EXCEPT ![c] = e]
          /\ UNCHANGED <<priority, threshold>>
       \/ /\ "threshold" \in SwKinds
          /\ \E c \in Contexts, p \in Prios : threshold' = [threshold EXCEPT ![c] = p]
          /\ UNCHANGED <<priority, enable>>

\* claim_<ctx>_write_pulse: the completion of source id
WriteClaim(c, id) ==
    /\ WrReady
    /\ bresp_valid_r' = TRUE
    /\ claim' = [HwClaim EXCEPT ![c] = id]
    /\ wr_pulse_d' = [NoPulse EXCEPT ![c] = TRUE]
    /\ UNCHANGED config

WriteChannel ==
    \/ NoWrite
    \/ WriteConfig
    \/ /\ "claim" \in SwKinds
       /\ \E c \in Contexts, id \in Ids : WriteClaim(c, id)

(***************************************************************************)
(* The read channel, and the in-service bitmap its pulses set              *)
(***************************************************************************)

\* Faulty: ID 0 not excluded; a completion that clears nothing, or everything;
\* a read accepted while the last response is outstanding
ClaimBitOfZero(c) == {claim[c]}
ClrNothing(c) == {}
ClrEverything(c) == IF wr_pulse_d[c] THEN claimed[c] ELSE {}
RdReadyAlways == Serialized => ~bresp_valid_r

\* set_mask and clr_mask both decode the stored claim register.
ClaimBit(c) == {claim[c]} \cap Sources
ClrMask(c) == IF wr_pulse_d[c] THEN ClaimBit(c) ELSE {}

RdReady == ~rresp_valid_r /\ (Serialized => ~bresp_valid_r)

NoRead ==
    /\ rresp_valid_r' \in {FALSE, rresp_valid_r /\ ~Serialized}  \* r_ready
    /\ claimed' = [c \in Contexts |-> claimed[c] \ ClrMask(c)]
    /\ UNCHANGED answer

\* Any register but a claim: the data read has no side effect.
ReadOther ==
    /\ RdReady
    /\ rresp_valid_r' = TRUE
    /\ claimed' = [c \in Contexts |-> claimed[c] \ ClrMask(c)]
    /\ UNCHANGED answer

\* claim_<ctx>_read_pulse
ReadClaim(c) ==
    /\ RdReady
    /\ rresp_valid_r' = TRUE
    /\ claimed' = [k \in Contexts |->
                      (claimed[k] \cup (IF k = c THEN ClaimBit(c) ELSE {})) \ ClrMask(k)]
    /\ answer' = [answer EXCEPT ![c] = claim[c]]

ReadChannel == NoRead \/ ReadOther \/ \E c \in Contexts : ReadClaim(c)

\* The devices: any level may come or go in any cycle.
Wires == /\ source_in' \in SUBSET Sources
         /\ pending' = source_in

(***************************************************************************)
(* The OBI bridge has one request channel: a cycle starts a read or a      *)
(* write, never both.                                                      *)
(***************************************************************************)
OneRequest == Serialized => ~(bresp_valid_r' /\ rresp_valid_r')

Init ==
    /\ source_in \in SUBSET Sources
    /\ priority = [i \in Sources |-> 0]
    /\ enable = [c \in Contexts |-> {}]
    /\ threshold = [c \in Contexts |-> 0]
    /\ pending = {}
    /\ claim = [c \in Contexts |-> 0]
    /\ claimed = [c \in Contexts |-> {}]
    /\ wr_pulse_d = NoPulse
    /\ bresp_valid_r = FALSE
    /\ rresp_valid_r = FALSE
    /\ answer = [c \in Contexts |-> 0]

Next == WriteChannel /\ ReadChannel /\ OneRequest /\ Wires

Spec == Init /\ [][Next]_vars

(***************************************************************************)
(* Properties                                                              *)
(***************************************************************************)

\* Every register holds a value of its declared width.
TypeOK ==
    /\ source_in \in SUBSET Sources
    /\ priority \in [Sources -> Prios]
    /\ enable \in [Contexts -> SUBSET Sources]
    /\ threshold \in [Contexts -> Prios]
    /\ pending \in SUBSET Sources
    /\ claim \in [Contexts -> Ids]
    /\ claimed \in [Contexts -> SUBSET Sources]
    /\ wr_pulse_d \in [Contexts -> BOOLEAN]
    /\ bresp_valid_r \in BOOLEAN
    /\ rresp_valid_r \in BOOLEAN
    /\ answer \in [Contexts -> Ids]

\* The sources software still has to complete.  A completion takes effect for
\* software with the write; its bit is cleared one edge later, when the
\* written ID is readable in the claim register.
InService(c) == claimed[c] \ (IF wr_pulse_d[c] THEN {claim[c]} ELSE {})

\* For two cycles after a claim the stored ID is stale (the arbiter saw the
\* in-service bit too late); what keeps it from being read again is that the
\* read response is still outstanding.  After a completion the stored ID is
\* the one software wrote.
StaleClaimGuarded ==
    \A c \in Contexts : claim[c] \in claimed[c] => rresp_valid_r \/ wr_pulse_d[c]

\* Behind the bridge, a claim register that can be read is never masked by
\* the configuration in force, and its source was asserted when it was
\* latched: a write of the configuration or of the claim register makes it
\* stale for exactly the cycle in which the write response is outstanding.
ReadableClaimIsLive ==
    Serialized /\ ~bresp_valid_r =>
        \A c \in Contexts : claim[c] # 0 =>
            /\ claim[c] \in enable[c] \cap pending
            /\ priority[claim[c]] > threshold[c]

\* The wire of a context is low only when nothing waits for it: no
\* combination of priorities leaves candidates without a winner.
NoCandidateLost == \A c \in Contexts : Candidates(c) # {} => IntrOut(c)

\* A claim read never hands out a source that this context already has in
\* service: two handlers never run for one interrupt.
NoDoubleClaim ==
    [][\A c \in Contexts :
         ReadClaim(c) /\ claim[c] # 0 => claim[c] \notin InService(c)]_vars

\* Behind the bridge, every claim read that returns a source hands out one
\* that is enabled and above the threshold at that moment, and asserted in
\* the previous cycle.
ClaimsOnlyLiveSources ==
    [][\A c \in Contexts :
         Serialized /\ ReadClaim(c) /\ claim[c] # 0 =>
             /\ claim[c] \in enable[c] \cap pending
             /\ priority[claim[c]] > threshold[c]]_vars

\* emit_plic_logic.py:21-24: a read of the claim register latches the source
\* it returns, masking it from further arbitration on this context.
ClaimReadLatches ==
    [][\A c \in Contexts :
         ReadClaim(c) /\ claim[c] \in Sources => claim[c] \in InService(c)']_vars

\* The claim / complete contract, with the completion moved to the write.
Contract == INSTANCE PlicContract WITH
    service <- [c \in Contexts |-> InService(c)]

\* Behind the bridge the controller implements the contract.
ImplementsContract == Contract!Spec
=============================================================================
