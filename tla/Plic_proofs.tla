----------------------------- MODULE Plic_proofs -----------------------------
(***************************************************************************)
(* Proofs about the interrupt controller, for any number of sources and    *)
(* contexts, any priority width and both kinds of bus master.              *)
(***************************************************************************)
EXTENDS PlicArbiter, NatFacts

\* The arbiter's result is a candidate of its context, or 0: whatever the
\* configuration, it never names a masked, disabled or in-service source.
LEMMA WinnerIsCandidate ==
    ASSUME NEW c
    PROVE  Winner(c) = 0 \/ Winner(c) \in Candidates(c)
<1>1. CASE Best(c) = {}
  BY <1>1 DEF Winner
<1>2. CASE Best(c) # {}
  <2>1. Winner(c) \in Best(c)
    BY <1>2 DEF Winner
  <2>2. QED
    BY <2>1 DEF Best
<1>3. QED
  BY <1>1, <1>2

\* An edge drives each claim register with a claim value of its width.
LEMMA HwClaimType == HwClaim \in [Contexts -> Ids]
<1>1. ASSUME NEW c \in Contexts
      PROVE  Winner(c) \in Ids
  <2>1. Candidates(c) \subseteq Ids
    BY PlicConstants DEF Candidates, Sources, Ids
  <2>2. 0 \in Ids
    BY PlicConstants DEF Ids
  <2>3. QED
    BY <2>1, <2>2, WinnerIsCandidate
<1>2. QED
  BY <1>1 DEF HwClaim

\* What the write channel leaves well typed.
LEMMA WriteChannelType ==
    ASSUME TypeOK, WriteChannel
    PROVE  /\ priority' \in [Sources -> Prios]
           /\ enable' \in [Contexts -> SUBSET Sources]
           /\ threshold' \in [Contexts -> Prios]
           /\ claim' \in [Contexts -> Ids]
           /\ wr_pulse_d' \in [Contexts -> BOOLEAN]
           /\ bresp_valid_r' \in BOOLEAN
<1>1. CASE NoWrite
  BY <1>1, HwClaimType DEF NoWrite, TypeOK, config, NoPulse
<1>2. CASE WriteConfig
  BY <1>2, HwClaimType DEF WriteConfig, TypeOK, NoPulse
<1>3. CASE \E c \in Contexts, id \in Ids : WriteClaim(c, id)
  <2>1. PICK c \in Contexts, id \in Ids : WriteClaim(c, id)
    BY <1>3
  <2>2. claim' \in [Contexts -> Ids]
    BY <2>1, HwClaimType DEF WriteClaim
  <2>3. wr_pulse_d' \in [Contexts -> BOOLEAN]
    BY <2>1 DEF WriteClaim, NoPulse
  <2>4. QED
    BY <2>1, <2>2, <2>3 DEF WriteClaim, TypeOK, config
<1>4. QED
  BY <1>1, <1>2, <1>3 DEF WriteChannel

\* What the read channel leaves well typed.
LEMMA ReadChannelType ==
    ASSUME TypeOK, ReadChannel
    PROVE  /\ claimed' \in [Contexts -> SUBSET Sources]
           /\ rresp_valid_r' \in BOOLEAN
           /\ answer' \in [Contexts -> Ids]
<1>1. CASE NoRead
  BY <1>1 DEF NoRead, TypeOK
<1>2. CASE ReadOther
  BY <1>2 DEF ReadOther, TypeOK
<1>3. CASE \E c \in Contexts : ReadClaim(c)
  BY <1>3 DEF ReadClaim, TypeOK, ClaimBit
<1>4. QED
  BY <1>1, <1>2, <1>3 DEF ReadChannel

\* Every register keeps to its width.
THEOREM TypeCorrect == Spec => []TypeOK
<1>1. Init => TypeOK
  <2>1. 0 \in Prios /\ 0 \in Ids
    BY PlicConstants DEF Prios, Ids
  <2>2. QED
    BY <2>1 DEF Init, TypeOK, NoPulse
<1>2. TypeOK /\ [Next]_vars => TypeOK'
  <2>1. ASSUME TypeOK, Next
        PROVE  TypeOK'
    BY <2>1, WriteChannelType, ReadChannelType DEF Next, Wires, TypeOK
  <2>2. ASSUME TypeOK, UNCHANGED vars
        PROVE  TypeOK'
    BY <2>2 DEF vars, TypeOK
  <2>3. QED
    BY <2>1, <2>2
<1>3. QED
  BY <1>1, <1>2, PTL DEF Spec

-----------------------------------------------------------------------------
(***************************************************************************)
(* The inductive invariant.  A claim register holds either the winner the  *)
(* arbiter latched, or for one cycle the ID software wrote; the pulse flag *)
(* tells which, and while it is set a write response is outstanding.       *)
(***************************************************************************)
PulseHasResponse == \A c \in Contexts : wr_pulse_d[c] => bresp_valid_r

ClaimIsWinnerOrWritten ==
    \A c \in Contexts : claim[c] \in Sources \cup {0} \/ wr_pulse_d[c]

IInv == /\ TypeOK
        /\ StaleClaimGuarded
        /\ PulseHasResponse
        /\ ClaimIsWinnerOrWritten

\* A context whose claim register software does not write gets the winner.
LEMMA ClaimDrive ==
    ASSUME TypeOK, WriteChannel, NEW c \in Contexts
    PROVE  \/ claim'[c] = Winner(c) /\ ~wr_pulse_d'[c]
           \/ wr_pulse_d'[c] /\ bresp_valid_r'
<1>1. CASE NoWrite
  BY <1>1 DEF NoWrite, HwClaim, NoPulse
<1>2. CASE WriteConfig
  BY <1>2 DEF WriteConfig, HwClaim, NoPulse
<1>3. CASE \E k \in Contexts, id \in Ids : WriteClaim(k, id)
  BY <1>3 DEF WriteClaim, HwClaim, NoPulse
<1>4. QED
  BY <1>1, <1>2, <1>3 DEF WriteChannel

\* A bit that appears in a context's in-service bitmap was in it before or is
\* the stored claim that is read in this very cycle.
LEMMA ClaimedGrowth ==
    ASSUME TypeOK, ReadChannel, NEW c \in Contexts, NEW i \in claimed'[c]
    PROVE  i \in claimed[c] \/ (i = claim[c] /\ rresp_valid_r')
<1>1. CASE NoRead
  BY <1>1 DEF NoRead
<1>2. CASE ReadOther
  BY <1>2 DEF ReadOther
<1>3. CASE \E k \in Contexts : ReadClaim(k)
  BY <1>3 DEF ReadClaim, ClaimBit
<1>4. QED
  BY <1>1, <1>2, <1>3 DEF ReadChannel

LEMMA IInvInit == Init => IInv
<1>1. SUFFICES ASSUME Init PROVE IInv
  OBVIOUS
<1>2. TypeOK
  <2>1. 0 \in Prios /\ 0 \in Ids
    BY PlicConstants DEF Prios, Ids
  <2>2. QED
    BY <1>1, <2>1 DEF Init, TypeOK, NoPulse
<1>3. StaleClaimGuarded /\ PulseHasResponse /\ ClaimIsWinnerOrWritten
  BY <1>1 DEF Init, StaleClaimGuarded, PulseHasResponse, ClaimIsWinnerOrWritten, NoPulse
<1>4. QED
  BY <1>2, <1>3 DEF IInv

LEMMA IInvStep == IInv /\ [Next]_vars => IInv'
<1>1. ASSUME IInv, Next
      PROVE  IInv'
  <2>1. TypeOK /\ WriteChannel /\ ReadChannel
    BY <1>1 DEF IInv, Next
  <2>2. TypeOK'
    BY <1>1, <2>1, WriteChannelType, ReadChannelType DEF Next, Wires, TypeOK
  <2>3. StaleClaimGuarded'
    <3>1. SUFFICES ASSUME NEW c \in Contexts, claim'[c] \in claimed'[c], ~wr_pulse_d'[c]
                   PROVE  rresp_valid_r'
      BY DEF StaleClaimGuarded
    <3>2. claim'[c] = Winner(c)
      BY <2>1, <3>1, ClaimDrive
    <3>3. claim'[c] # 0
      BY <2>2, <3>1, PlicConstants DEF TypeOK, Sources
    <3>4. claim'[c] \notin claimed[c]
      BY <3>2, <3>3, WinnerIsCandidate DEF Candidates
    <3>5. QED
      BY <2>1, <3>1, <3>4, ClaimedGrowth
  <2>4. PulseHasResponse'
    <3>1. ASSUME NEW c \in Contexts, wr_pulse_d'[c]
          PROVE  bresp_valid_r'
      BY <2>1, <3>1, ClaimDrive
    <3>2. QED
      BY <3>1 DEF PulseHasResponse
  <2>5. ClaimIsWinnerOrWritten'
    <3>1. ASSUME NEW c \in Contexts, ~wr_pulse_d'[c]
          PROVE  claim'[c] \in Sources \cup {0}
      BY <2>1, <3>1, ClaimDrive, WinnerIsCandidate DEF Candidates
    <3>2. QED
      BY <3>1 DEF ClaimIsWinnerOrWritten
  <2>6. QED
    BY <2>2, <2>3, <2>4, <2>5 DEF IInv
<1>2. ASSUME IInv, UNCHANGED vars
      PROVE  IInv'
  BY <1>2 DEF IInv, vars, TypeOK, StaleClaimGuarded, PulseHasResponse, ClaimIsWinnerOrWritten
<1>3. QED
  BY <1>1, <1>2

LEMMA IInvAlways == Spec => []IInv
BY IInvInit, IInvStep, PTL DEF Spec

\* The order of the arbiter leaves no context without a winner while it has a
\* candidate: among the candidates of the highest priority there is one of the
\* lowest ID.
LEMMA CandidateWins == TypeOK => NoCandidateLost
<1>1. SUFFICES ASSUME TypeOK, NEW c \in Contexts, Candidates(c) # {}
               PROVE  Winner(c) # 0
  BY DEF NoCandidateLost, IntrOut
<1>2. MaxPrio \in Nat /\ priority \in [Sources -> 0..MaxPrio]
  BY <1>1, PlicConstants DEF TypeOK, Prios
<1>3. Candidates(c) \subseteq Sources /\ Sources \subseteq Nat /\ 0 \notin Sources
  BY PlicConstants DEF Candidates, Sources
<1> DEFINE Gap(i) == MaxPrio - priority[i]
           Gaps == {Gap(i) : i \in Candidates(c)}
<1>4. \A i \in Candidates(c) : priority[i] \in 0..MaxPrio /\ Gap(i) \in Nat
  <2>1. ASSUME NEW i \in Candidates(c)
        PROVE  priority[i] \in 0..MaxPrio
    <3>1. i \in Sources
      BY <1>3
    <3>2. QED
      BY <1>2, <3>1
  <2>2. \A i \in Candidates(c) : priority[i] \in 0..MaxPrio
    BY <2>1
  <2>3. QED
    BY <1>2, <2>2
<1>5. PICK g \in Gaps : \A d \in Gaps : g <= d
  <2>1. Gaps \subseteq Nat /\ Gaps # {}
    BY <1>1, <1>4
  <2> HIDE DEF Gaps
  <2>2. QED
    BY <2>1, NatMinimum
<1> DEFINE Highest == {i \in Candidates(c) : Gap(i) = g}
<1>6. PICK i \in Highest : \A j \in Highest : i <= j
  <2>1. Highest \subseteq Nat /\ Highest # {}
    BY <1>3, <1>5
  <2> HIDE DEF Highest
  <2>2. QED
    BY <2>1, NatMinimum
<1>7. i \in Best(c)
  <2>1. ASSUME NEW j \in Candidates(c)
        PROVE  Beats(i, j)
    <3>1. Gap(i) <= Gap(j)
      BY <1>5, <1>6
    <3>2. priority[i] \in Nat /\ priority[j] \in Nat
      BY <1>2, <1>4, <1>6
    <3>3. priority[i] >= priority[j]
      BY <3>1, <3>2, <1>2
    <3>4. CASE priority[i] = priority[j]
      BY <3>4, <1>6 DEF Beats
    <3>5. CASE priority[i] # priority[j]
      BY <3>2, <3>3, <3>5 DEF Beats
    <3>6. QED
      BY <3>4, <3>5
  <2>2. QED
    BY <1>6, <2>1 DEF Best
<1>8. Winner(c) \in Candidates(c)
  BY <1>7 DEF Winner, Best
<1>9. QED
  BY <1>3, <1>8

\* No interrupt wire is low while a source waits, whatever the priorities and
\* ties (emit_plic_logic.py:280-292).
THEOREM NoCandidateIsLost == Spec => []NoCandidateLost
  BY CandidateWins, TypeCorrect, PTL

\* A stale claim register is never readable: emit_plic_logic.py latches the
\* in-service bit one edge after the arbiter computed the stored winner, and
\* only the outstanding read response covers the gap.
THEOREM StaleClaimsAreGuarded == Spec => []StaleClaimGuarded
<1>1. IInv => StaleClaimGuarded
  BY DEF IInv
<1>2. QED
  BY <1>1, IInvAlways, PTL

\* What can be read is in service only while a read response is outstanding.
LEMMA NotTwice ==
    IInv => [\A c \in Contexts :
               ReadClaim(c) /\ claim[c] # 0 => claim[c] \notin InService(c)]_vars
<1>1. ASSUME IInv, NEW c \in Contexts, ReadClaim(c), claim[c] # 0
      PROVE  claim[c] \notin InService(c)
  <2>1. ~rresp_valid_r
    BY <1>1 DEF ReadClaim, RdReady
  <2>2. CASE wr_pulse_d[c]
    BY <2>2 DEF InService
  <2>3. CASE ~wr_pulse_d[c]
    BY <1>1, <2>1, <2>3 DEF IInv, StaleClaimGuarded, InService
  <2>4. QED
    BY <2>2, <2>3
<1>2. QED
  BY <1>1

\* No context is ever handed a source it already has in service, whatever
\* the master does on the two channels.
THEOREM DoubleClaimImpossible == Spec => NoDoubleClaim
BY NotTwice, IInvAlways, PTL DEF NoDoubleClaim

-----------------------------------------------------------------------------
(***************************************************************************)
(* What a master behind the bridge reads is live.                          *)
(***************************************************************************)

\* The claim registers are live whenever no write response is outstanding,
\* however the channels overlap.
LatchedIsLive ==
    ~bresp_valid_r =>
        \A c \in Contexts : claim[c] # 0 =>
            /\ claim[c] \in enable[c] \cap pending
            /\ priority[claim[c]] > threshold[c]

LEMMA LatchedStep == TypeOK /\ LatchedIsLive /\ [Next]_vars => LatchedIsLive'
<1>1. ASSUME TypeOK, Next
      PROVE  LatchedIsLive'
  <2>1. SUFFICES ASSUME ~bresp_valid_r', NEW c \in Contexts, claim'[c] # 0
                 PROVE  /\ claim'[c] \in enable'[c] \cap pending'
                        /\ priority'[claim'[c]] > threshold'[c]
    BY DEF LatchedIsLive
  <2>2. NoWrite
    BY <1>1, <2>1 DEF Next, WriteChannel, WriteConfig, WriteClaim
  <2>3. claim'[c] = Winner(c) /\ UNCHANGED config
    BY <2>2 DEF NoWrite, HwClaim
  <2>4. claim'[c] \in Candidates(c)
    BY <1>1, <2>1, <2>3, WinnerIsCandidate
  <2>5. pending' = source_in
    BY <1>1 DEF Next, Wires
  <2>6. QED
    BY <2>3, <2>4, <2>5 DEF Candidates, config
<1>2. ASSUME LatchedIsLive, UNCHANGED vars
      PROVE  LatchedIsLive'
  BY <1>2 DEF vars, LatchedIsLive
<1>3. QED
  BY <1>1, <1>2

LEMMA LatchedAlways == Spec => []LatchedIsLive
<1>1. Init => LatchedIsLive
  BY DEF Init, LatchedIsLive
<1>2. QED
  BY <1>1, LatchedStep, TypeCorrect, PTL DEF Spec

\* Behind the bridge, a claim register that can be read names a source that
\* is enabled, above the threshold and was asserted when it was latched.
THEOREM ReadableClaimsAreLive == Spec => []ReadableClaimIsLive
<1>1. LatchedIsLive => ReadableClaimIsLive
  BY DEF LatchedIsLive, ReadableClaimIsLive
<1>2. QED
  BY <1>1, LatchedAlways, PTL

\* Behind the bridge, a read takes what the claim register shows.
LEMMA LiveClaim ==
    ReadableClaimIsLive =>
        [\A c \in Contexts :
           Serialized /\ ReadClaim(c) /\ claim[c] # 0 =>
               /\ claim[c] \in enable[c] \cap pending
               /\ priority[claim[c]] > threshold[c]]_vars
BY DEF ReadClaim, RdReady, ReadableClaimIsLive

\* Behind the bridge, software is only ever handed sources that are live.
THEOREM ClaimsAreLive == Spec => ClaimsOnlyLiveSources
BY LiveClaim, ReadableClaimsAreLive, PTL DEF ClaimsOnlyLiveSources

-----------------------------------------------------------------------------
(***************************************************************************)
(* The refinement.  An edge at which no read overlaps a write is one       *)
(* operation of the contract, or none; the bridge sees to that.            *)
(***************************************************************************)

ServiceMap == [c \in Contexts |-> InService(c)]

\* No read is taken while a write response is outstanding, nor with a write.
ReadsAlone == rresp_valid_r' => ~bresp_valid_r /\ ~bresp_valid_r'

LEMMA BridgeReadsAlone == Serialized /\ Next => ReadsAlone
<1>1. SUFFICES ASSUME Serialized, Next, rresp_valid_r'
               PROVE  ~bresp_valid_r /\ ~bresp_valid_r'
  BY DEF ReadsAlone
<1>2. RdReady
  BY <1>1 DEF Next, ReadChannel, NoRead, ReadOther, ReadClaim
<1>3. QED
  BY <1>1, <1>2 DEF RdReady, Next, OneRequest

\* An edge without a claim read or a completion changes nothing for software:
\* the delayed clearing of a completed source was already accounted for.
LEMMA QuietEdge ==
    ASSUME IInv, NEW c \in Contexts, ~wr_pulse_d'[c],
           claimed'[c] = claimed[c] \ ClrMask(c)
    PROVE  InService(c)' = InService(c)
<1>1. claimed[c] \subseteq Sources
  BY DEF IInv, TypeOK
<1>2. InService(c)' = claimed'[c]
  BY DEF InService
<1>3. QED
  BY <1>1, <1>2 DEF InService, ClrMask, ClaimBit

\* A write of the claim register is the completion of the written source.
LEMMA CompletionStep ==
    ASSUME IInv, NEW c \in Contexts, NEW id \in Ids, WriteClaim(c, id),
           NoRead \/ ReadOther
    PROVE  Contract!Complete(c, id)
<1>1. \A k \in Contexts : ~wr_pulse_d[k]
  BY DEF WriteClaim, WrReady, IInv, PulseHasResponse
<1>2. claimed' = [k \in Contexts |-> claimed[k]] /\ UNCHANGED answer
  BY <1>1 DEF NoRead, ReadOther, ClrMask
<1>3. ASSUME NEW k \in Contexts
      PROVE  InService(k)' = IF k = c THEN InService(k) \ {id} ELSE InService(k)
  <2>1. CASE k = c
    <3>1. wr_pulse_d'[k] /\ claim'[k] = id
      BY <2>1 DEF WriteClaim, NoPulse, HwClaim
    <3>2. QED
      BY <1>1, <1>2, <2>1, <3>1 DEF InService
  <2>2. CASE k # c
    <3>1. ~wr_pulse_d'[k]
      BY <2>2 DEF WriteClaim, NoPulse
    <3>2. QED
      BY <1>1, <1>2, <2>2, <3>1 DEF InService
  <2>3. QED
    BY <2>1, <2>2
<1>4. QED
  BY <1>2, <1>3 DEF Contract!Complete

\* A claim read that is not in the cycle after a completion has a set mask
\* that survives, and the source it returns is not in service.
LEMMA ClaimStep ==
    ASSUME IInv, ReadsAlone, NEW c \in Contexts, ReadClaim(c),
           \A k \in Contexts : ~wr_pulse_d'[k]
    PROVE  (\E i \in Sources : Contract!Claim(c, i)) \/ Contract!ClaimNothing(c)
<1>1. ~rresp_valid_r /\ ~bresp_valid_r
  BY DEF ReadClaim, RdReady, ReadsAlone
<1>2. \A k \in Contexts : ~wr_pulse_d[k]
  BY <1>1 DEF IInv, PulseHasResponse
<1>3. claim[c] \in Sources \cup {0} /\ claim[c] \notin claimed[c]
  BY <1>1, <1>2 DEF IInv, ClaimIsWinnerOrWritten, StaleClaimGuarded
<1>4. \A k \in Contexts : InService(k) = claimed[k] /\ InService(k)' = claimed'[k]
  BY <1>2 DEF InService
<1>5. claimed' = [k \in Contexts |->
                    claimed[k] \cup (IF k = c THEN ClaimBit(c) ELSE {})]
  BY <1>2 DEF ReadClaim, ClrMask
<1>6. CASE claim[c] \in Sources
  <2>1. claimed' = [k \in Contexts |->
                      IF k = c THEN claimed[k] \cup {claim[c]} ELSE claimed[k]]
    BY <1>5, <1>6 DEF ClaimBit
  <2>2. Contract!Claim(c, claim[c])
    BY <1>3, <1>4, <2>1 DEF Contract!Claim, ReadClaim
  <2>3. QED
    BY <1>6, <2>2
<1>7. CASE claim[c] = 0
  <2>1. claimed' = [k \in Contexts |-> claimed[k]]
    BY <1>5, <1>7, PlicConstants DEF ClaimBit, Sources
  <2>2. QED
    BY <1>4, <1>7, <2>1 DEF Contract!ClaimNothing, ReadClaim
<1>8. QED
  BY <1>3, <1>6, <1>7

LEMMA ContractStep ==
    ASSUME IInv, Next, ReadsAlone
    PROVE  Contract!Next \/ UNCHANGED <<ServiceMap, answer>>
<1>1. WriteChannel /\ ReadChannel
  BY DEF Next
<1>2. CASE NoWrite \/ WriteConfig
  <2>1. \A k \in Contexts : ~wr_pulse_d'[k]
    BY <1>2 DEF NoWrite, WriteConfig, NoPulse
  <2>2. CASE NoRead \/ ReadOther
    <3>1. \A k \in Contexts : claimed'[k] = claimed[k] \ ClrMask(k)
      BY <2>2 DEF NoRead, ReadOther
    <3>2. \A k \in Contexts : InService(k)' = InService(k)
      BY <2>1, <3>1, QuietEdge
    <3>3. QED
      BY <2>2, <3>2 DEF ServiceMap, NoRead, ReadOther
  <2>3. CASE \E c \in Contexts : ReadClaim(c)
    <3>1. PICK c \in Contexts : ReadClaim(c)
      BY <2>3
    <3>2. (\E i \in Sources : Contract!Claim(c, i)) \/ Contract!ClaimNothing(c)
      BY <2>1, <3>1, ClaimStep
    <3>3. QED
      BY <3>2 DEF Contract!Next
  <2>4. QED
    BY <1>1, <2>2, <2>3 DEF ReadChannel
<1>3. CASE \E c \in Contexts, id \in Ids : WriteClaim(c, id)
  <2>1. PICK c \in Contexts, id \in Ids : WriteClaim(c, id)
    BY <1>3
  <2>2. NoRead \/ ReadOther
    BY <1>1, <2>1 DEF ReadChannel, ReadClaim, ReadsAlone, WriteClaim
  <2>3. Contract!Complete(c, id)
    BY <2>1, <2>2, CompletionStep
  <2>4. QED
    BY <2>3 DEF Contract!Next
<1>4. QED
  BY <1>1, <1>2, <1>3 DEF WriteChannel

LEMMA ContractStutter ==
    UNCHANGED vars => UNCHANGED <<ServiceMap, answer>>
BY DEF vars, ServiceMap, InService

\* The generated controller, behind the bridge, implements the claim /
\* complete contract for every number of sources and contexts.
THEOREM Refinement == ASSUME Serialized PROVE Spec => ImplementsContract
<1>1. Init => Contract!Init
  BY DEF Init, Contract!Init, InService, NoPulse
<1>2. IInv /\ [Next]_vars => [Contract!Next]_<<ServiceMap, answer>>
  BY BridgeReadsAlone, ContractStep, ContractStutter
<1>3. QED
  BY <1>1, <1>2, IInvAlways, PTL DEF Spec, ImplementsContract, Contract!Spec, Contract!cvars, ServiceMap

-----------------------------------------------------------------------------
(***************************************************************************)
(* The cascade.  A recursive function is some function that satisfies its  *)
(* recursion equation, if there is one: CascadeExists gives one, built     *)
(* from what each stage is meant to hold, and the stages of any other are  *)
(* the same.                                                               *)
(***************************************************************************)

\* e is the best candidate of c among the sources up to i, or "none yet".
BestUpTo(e, c, i) ==
    \/ e = NoneYet /\ \A j \in Candidates(c) : j > i
    \/ /\ e.id \in Candidates(c) /\ e.id <= i
       /\ e = [id |-> e.id, prio |-> priority[e.id]]
       /\ \A j \in Candidates(c) : j <= i => Beats(e.id, j)

IsCascade(h, c) ==
    h = [i \in 0..N |-> IF i = 0 THEN NoneYet ELSE Stage(c, i, h[i-1])]

LEMMA CandidateFacts ==
    ASSUME TypeOK, NEW c
    PROVE  /\ Candidates(c) \subseteq 1..N
           /\ \A j \in 1..N : priority[j] \in Nat
           /\ N \in Nat
  BY PlicConstants DEF TypeOK, Candidates, Sources, Prios

\* A stage keeps the running best right.
LEMMA StageStep ==
    ASSUME TypeOK, NEW c, NEW i \in 1..N, NEW e, BestUpTo(e, c, i - 1)
    PROVE  BestUpTo(Stage(c, i, e), c, i)
<1>1. /\ Candidates(c) \subseteq 1..N
      /\ \A j \in 1..N : priority[j] \in Nat
      /\ N \in Nat
  BY CandidateFacts
<1> DEFINE new == [id |-> i, prio |-> priority[i]]
<1>2. CASE i \in Candidates(c) /\ (e.id = 0 \/ priority[i] > e.prio)
  <2>1. Stage(c, i, e) = new
    BY <1>2 DEF Stage
  <2>2. ASSUME NEW j \in Candidates(c), j <= i
        PROVE  Beats(i, j)
    <3>1. CASE j = i
      BY <3>1, <1>1 DEF Beats
    <3>2. CASE j # i
      <4>1. j <= i - 1 /\ j \in 1..N
        BY <3>2, <2>2, <1>1
      <4>2. e # NoneYet \/ ~ \A k \in Candidates(c) : k > i - 1
        BY <4>1, <1>1
      <4>3. e.id \in Candidates(c) /\ e.prio = priority[e.id] /\ Beats(e.id, j)
        BY <4>1, <4>2 DEF BestUpTo
      <4>4. e.id \in 1..N /\ priority[i] > priority[e.id]
        BY <4>3, <1>1, <1>2
      <4>5. priority[e.id] >= priority[j]
        BY <4>3, <4>4, <4>1, <1>1 DEF Beats
      <4>6. QED
        BY <4>1, <4>4, <4>5, <1>1 DEF Beats
    <3>3. QED
      BY <3>1, <3>2
  <2>3. new.id = i /\ new = [id |-> new.id, prio |-> priority[new.id]]
    OBVIOUS
  <2>4. QED
    BY <1>2, <2>1, <2>2, <2>3 DEF BestUpTo
<1>3. CASE ~ (i \in Candidates(c) /\ (e.id = 0 \/ priority[i] > e.prio))
  <2>1. Stage(c, i, e) = e
    BY <1>3 DEF Stage
  <2>2. CASE e = NoneYet /\ \A j \in Candidates(c) : j > i - 1
    <3>1. i \notin Candidates(c)
      BY <1>3, <2>2 DEF NoneYet
    <3>2. \A j \in Candidates(c) : j > i
      BY <2>2, <3>1, <1>1
    <3>3. QED
      BY <2>1, <2>2, <3>2 DEF BestUpTo
  <2>3. CASE /\ e.id \in Candidates(c) /\ e.id <= i - 1
             /\ e = [id |-> e.id, prio |-> priority[e.id]]
             /\ \A j \in Candidates(c) : j <= i - 1 => Beats(e.id, j)
    <3>1. ASSUME NEW j \in Candidates(c), j <= i
          PROVE  Beats(e.id, j)
      <4>1. CASE j <= i - 1
        BY <4>1, <2>3
      <4>2. CASE j = i
        <5>1. e.id \in 1..N /\ e.prio = priority[e.id]
          BY <2>3, <1>1
        <5>2. ~ (priority[i] > priority[e.id])
          BY <5>1, <4>2, <1>3
        <5>3. QED
          BY <5>1, <5>2, <4>2, <2>3, <1>1 DEF Beats
      <4>3. QED
        BY <3>1, <4>1, <4>2, <1>1
    <3>2. e.id <= i
      BY <2>3, <1>1
    <3>3. QED
      BY <2>1, <2>3, <3>1, <3>2 DEF BestUpTo
  <2>4. QED
    BY <2>2, <2>3 DEF BestUpTo
<1>4. QED
  BY <1>2, <1>3

\* There is one best candidate.
LEMMA BestUnique ==
    ASSUME TypeOK, NEW c, NEW i \in 0..N, NEW d, NEW e,
           BestUpTo(d, c, i), BestUpTo(e, c, i)
    PROVE  d = e
<1>1. /\ Candidates(c) \subseteq 1..N
      /\ \A j \in 1..N : priority[j] \in Nat
      /\ N \in Nat
  BY CandidateFacts
<1>2. CASE \A j \in Candidates(c) : j > i
  <2>1. ASSUME NEW b, BestUpTo(b, c, i)
        PROVE  b = NoneYet
    BY <1>1, <1>2, <2>1 DEF BestUpTo
  <2>2. QED
    BY <2>1
<1>3. CASE ~ \A j \in Candidates(c) : j > i
  <2>1. d.id \in Candidates(c) /\ e.id \in Candidates(c)
        /\ Beats(d.id, e.id) /\ Beats(e.id, d.id)
    BY <1>3 DEF BestUpTo
  <2>2. d.id = e.id
    BY <2>1, <1>1 DEF Beats
  <2>3. d = [id |-> d.id, prio |-> priority[d.id]] /\ e = [id |-> e.id, prio |-> priority[e.id]]
    BY <1>3 DEF BestUpTo
  <2>4. QED
    BY <2>2, <2>3
<1>4. QED
  BY <1>2, <1>3

\* Every stage has one.
LEMMA BestExists ==
    ASSUME TypeOK, NEW c, NEW i \in 0..N
    PROVE  \E e : BestUpTo(e, c, i)
<1> DEFINE Missing == {k \in 0..N : ~ \E e : BestUpTo(e, c, k)}
<1>1. N \in Nat /\ Candidates(c) \subseteq 1..N
  BY CandidateFacts
<1>2. Missing = {}
  <2>1. SUFFICES ASSUME Missing # {} PROVE FALSE
    OBVIOUS
  <2>2. PICK m \in Missing : \A k \in Missing : m <= k
    <3>1. Missing \subseteq Nat
      BY <1>1
    <3> HIDE DEF Missing
    <3>2. QED
      BY <2>1, <3>1, NatMinimum
  <2>3. BestUpTo(NoneYet, c, 0)
    BY <1>1 DEF BestUpTo
  <2>4. m # 0
    BY <2>3, <2>2
  <2>5. m \in 1..N /\ m - 1 \in 0..N /\ m - 1 \notin Missing
    BY <2>2, <2>4, <1>1
  <2>6. PICK e : BestUpTo(e, c, m - 1)
    BY <2>5
  <2>7. BestUpTo(Stage(c, m, e), c, m)
    BY <2>5, <2>6, StageStep
  <2>8. QED
    BY <2>7, <2>2
<1>3. QED
  BY <1>2

\* Some function is the cascade.
LEMMA CascadeExists ==
    ASSUME TypeOK, NEW c
    PROVE  \E g : IsCascade(g, c)
<1> DEFINE g == [i \in 0..N |-> CHOOSE e : BestUpTo(e, c, i)]
<1>1. N \in Nat /\ Candidates(c) \subseteq 1..N
  BY CandidateFacts
<1>2. \A i \in 0..N : BestUpTo(g[i], c, i)
  BY BestExists
<1> HIDE DEF g
<1>3. g[0] = NoneYet
  <2>1. BestUpTo(NoneYet, c, 0)
    BY <1>1 DEF BestUpTo
  <2>2. 0 \in 0..N
    BY <1>1
  <2>3. QED
    BY <2>1, <2>2, <1>2, BestUnique
<1>4. ASSUME NEW i \in 1..N
      PROVE  g[i] = Stage(c, i, g[i-1])
  <2>1. i \in 0..N /\ i - 1 \in 0..N
    BY <1>1
  <2>2. BestUpTo(Stage(c, i, g[i-1]), c, i)
    BY <2>1, <1>2, StageStep
  <2>3. QED
    BY <2>1, <2>2, <1>2, BestUnique
<1>5. g = [i \in 0..N |-> g[i]]
  BY DEF g
<1>6. \A i \in 0..N : g[i] = IF i = 0 THEN NoneYet ELSE Stage(c, i, g[i-1])
  BY <1>1, <1>3, <1>4
<1>7. QED
  BY <1>5, <1>6 DEF IsCascade

\* Every stage of the cascade holds the best candidate so far.
LEMMA StagesAreBest ==
    ASSUME TypeOK, NEW c, NEW h, IsCascade(h, c), NEW i \in 0..N
    PROVE  BestUpTo(h[i], c, i)
<1> DEFINE Wrong == {k \in 0..N : ~ BestUpTo(h[k], c, k)}
<1>1. N \in Nat /\ Candidates(c) \subseteq 1..N
  BY CandidateFacts
<1>2. \A k \in 0..N : h[k] = IF k = 0 THEN NoneYet ELSE Stage(c, k, h[k-1])
  BY Zenon DEF IsCascade
<1>3. Wrong = {}
  <2>1. SUFFICES ASSUME Wrong # {} PROVE FALSE
    OBVIOUS
  <2>2. PICK m \in Wrong : \A k \in Wrong : m <= k
    <3>1. Wrong \subseteq Nat
      BY <1>1
    <3> HIDE DEF Wrong
    <3>2. QED
      BY <2>1, <3>1, NatMinimum
  <2>3. BestUpTo(NoneYet, c, 0)
    BY <1>1 DEF BestUpTo
  <2>4. m # 0
    BY <2>3, <2>2, <1>2, <1>1
  <2>5. m \in 1..N /\ m - 1 \in 0..N /\ m - 1 \notin Wrong
    BY <2>2, <2>4, <1>1
  <2>6. BestUpTo(h[m-1], c, m - 1)
    BY <2>5
  <2>7. BestUpTo(Stage(c, m, h[m-1]), c, m)
    BY <2>5, <2>6, StageStep
  <2>8. h[m] = Stage(c, m, h[m-1])
    BY <1>2, <2>4, <2>5, <1>1
  <2>9. QED
    BY <2>7, <2>8, <2>2
<1>4. QED
  BY <1>3

\* For any number of sources, the unrolled cascade computes the arbiter's
\* order: the highest priority, and among equals the lowest ID
\* (emit_plic_logic.py:271-292).
THEOREM CascadeIsOrder == Spec => []CascadePicksBest
<1>1. TypeOK => CascadePicksBest
  <2>1. SUFFICES ASSUME TypeOK, NEW c \in Contexts
                 PROVE  Cascade(c) = Winner(c)
    BY DEF CascadePicksBest
  <2>2. PICK g : IsCascade(g, c)
    BY <2>1, CascadeExists
  <2> DEFINE h == CHOOSE k : IsCascade(k, c)
  <2>3. IsCascade(h, c)
    BY <2>2
  <2>4. Cascade(c) = h[N].id
    BY DEF Cascade, IsCascade
  <2> HIDE DEF h
  <2>5. /\ N \in 0..N /\ N \in Nat
        /\ Candidates(c) \subseteq 1..N
        /\ \A j \in 1..N : priority[j] \in Nat
    BY <2>1, CandidateFacts
  <2>6. BestUpTo(h[N], c, N)
    BY <2>1, <2>3, <2>5, StagesAreBest
  <2>7. \A j \in Candidates(c) : j <= N
    BY <2>5
  <2>8. CASE Candidates(c) = {}
    <3>1. h[N].id = 0
      BY <2>6, <2>8 DEF BestUpTo, NoneYet
    <3>2. QED
      BY <3>1, <2>4, <2>8 DEF Winner, Best
  <2>9. CASE Candidates(c) # {}
    <3>1. h[N].id \in Best(c)
      BY <2>6, <2>7, <2>9, <2>5 DEF BestUpTo, Best
    <3>2. Winner(c) \in Best(c)
      BY <3>1 DEF Winner
    <3>3. \A i, j \in Best(c) : i = j
      BY <2>5 DEF Best, Beats
    <3>4. QED
      BY <3>1, <3>2, <3>3, <2>4
  <2>10. QED
    BY <2>8, <2>9
<1>2. QED
  BY <1>1, TypeCorrect, PTL
=============================================================================
