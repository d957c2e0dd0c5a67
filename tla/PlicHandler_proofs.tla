-------------------------- MODULE PlicHandler_proofs --------------------------
(***************************************************************************)
(* Proofs about the interrupt programs on the SoC, for any number of       *)
(* sources and contexts and any configuration the boot code writes, shared *)
(* sources included.                                                       *)
(***************************************************************************)
EXTENDS PlicHandler, Plic_proofs

(***************************************************************************)
(* The inductive invariant.  The place of the program says what is         *)
(* outstanding on the bus, what the claim registers hold and what is in    *)
(* service.                                                                *)
(***************************************************************************)

\* A write pulse belongs to the acknowledgement the program waits for.
BusFollowsPc ==
    /\ rresp_valid_r <=> pc = "data"
    /\ bresp_valid_r <=> pc = "ack"
    /\ \A c \in Contexts : wr_pulse_d[c] <=> pc = "ack" /\ c = ctx

\* The in-service bitmaps hold what the running handler claimed.
ServiceFollowsPc ==
    /\ \A c \in Contexts :
          claimed[c] = IF c = ctx /\ pc \in {"data", "complete", "ack"}
                       THEN {answer[c]} \ {0} ELSE {}
    /\ pc \in {"data", "complete", "ack"} => answer[ctx] \in Sources \cup {0}
    /\ pc \in {"complete", "ack"} => saved = answer[ctx]
    /\ pc = "ack" => claim[ctx] = saved

Configured == priority = BootPriority /\ enable = BootEnable /\ threshold = BootThreshold

\* From the trap to the read a held line keeps its context a winner.
WinnerAwaits ==
    HoldLevels =>
        /\ pc = "claim" => Candidates(ctx) # {} /\ claim[ctx] \in BootEnable[ctx]
        /\ pc \in {"data", "complete"} => answer[ctx] \in BootEnable[ctx]

HInv == /\ HTypeOK
        /\ Configured
        /\ ClaimIsWinnerOrWritten
        /\ BusFollowsPc
        /\ ServiceFollowsPc
        /\ WinnerAwaits

LEMMA HInitInv == HInit => HInv
<1>1. SUFFICES ASSUME HInit PROVE HInv
  OBVIOUS
<1>2. 0 \in Ids /\ 0 \in Prios
  BY PlicConstants DEF Ids, Prios
<1>3. HTypeOK
  BY <1>1, <1>2, BootConstants DEF HInit, HTypeOK, TypeOK, NoPulse
<1>4. ClaimIsWinnerOrWritten
  BY <1>1 DEF HInit, ClaimIsWinnerOrWritten
<1>5. BusFollowsPc /\ ServiceFollowsPc /\ WinnerAwaits /\ Configured
  BY <1>1 DEF HInit, BusFollowsPc, ServiceFollowsPc, WinnerAwaits, Configured, NoPulse
<1>6. QED
  BY <1>3, <1>4, <1>5 DEF HInv

\* Every cycle of the SoC is a cycle of the PLIC.
LEMMA CycleIsPlicCycle ==
    ASSUME HNext, ctx \in Contexts, saved \in Ids
    PROVE  WriteChannel /\ ReadChannel /\ Wires
<1>1. Wires
  BY DEF HNext, Devices
<1>2. CASE NoBus
  BY <1>1, <1>2 DEF NoBus, WriteChannel, ReadChannel
<1>3. CASE LoadClaim
  BY <1>1, <1>3 DEF LoadClaim, WriteChannel, ReadChannel
<1>4. CASE StoreClaim
  BY <1>1, <1>4, BootConstants DEF StoreClaim, WriteChannel, ReadChannel
<1>5. QED
  BY <1>2, <1>3, <1>4 DEF HNext, CpuStep, Trap, SaveClaim, Return, Work

LEMMA HTypeStep ==
    ASSUME HInv, HNext
    PROVE  HTypeOK' /\ ClaimIsWinnerOrWritten'
<1>1. HTypeOK /\ TypeOK
  BY DEF HInv, HTypeOK
<1>2. WriteChannel /\ ReadChannel /\ Wires
  BY <1>1, CycleIsPlicCycle DEF HTypeOK
<1>3. TypeOK'
  BY <1>1, <1>2, WriteChannelType, ReadChannelType DEF Wires, TypeOK
<1>4. ClaimIsWinnerOrWritten'
  <2>1. ASSUME NEW c \in Contexts, ~wr_pulse_d'[c]
        PROVE  claim'[c] \in Sources \cup {0}
    BY <1>1, <1>2, <2>1, ClaimDrive, WinnerIsCandidate DEF Candidates
  <2>2. QED
    BY <2>1 DEF ClaimIsWinnerOrWritten
<1>5. answer[ctx] \in Ids
  BY <1>1 DEF HTypeOK, TypeOK
<1>6. /\ pc' \in {"main", "claim", "data", "complete", "ack"}
      /\ ctx' \in Contexts /\ saved' \in Ids /\ mie' \subseteq Contexts
  <2>1. CASE Trap
    BY <1>1, <2>1 DEF Trap, HTypeOK
  <2>2. CASE LoadClaim
    BY <1>1, <2>2 DEF LoadClaim, HTypeOK
  <2>3. CASE SaveClaim
    BY <1>1, <1>5, <2>3 DEF SaveClaim, HTypeOK
  <2>4. CASE StoreClaim
    BY <1>1, <2>4 DEF StoreClaim, HTypeOK
  <2>5. CASE Return
    BY <1>1, <2>5 DEF Return, HTypeOK
  <2>6. CASE Work
    BY <1>1, <2>6 DEF Work, cpuVars, HTypeOK
  <2>7. QED
    BY <2>1, <2>2, <2>3, <2>4, <2>5, <2>6 DEF HNext, CpuStep
<1>7. HoldLevels' \in BOOLEAN /\ OneShot' \in BOOLEAN
  BY <1>1 DEF HNext, kinds, HTypeOK
<1>8. QED
  BY <1>3, <1>4, <1>6, <1>7 DEF HTypeOK

(***************************************************************************)
(* What a cycle does to the controller, by what the program does on the    *)
(* bus.                                                                    *)
(***************************************************************************)
LEMMA NoBusCycle ==
    ASSUME HInv, NoBus
    PROVE  /\ ~bresp_valid_r' /\ ~rresp_valid_r'
           /\ \A c \in Contexts : ~wr_pulse_d'[c] /\ claim'[c] = Winner(c)
           /\ \A c \in Contexts : claimed'[c] = claimed[c] \ ClrMask(c)
           /\ UNCHANGED answer /\ Configured'
<1>1. Serialized
  BY BootConstants
<1>2. QED
  BY <1>1 DEF NoBus, NoWrite, NoRead, NoPulse, HwClaim, HInv, Configured, config

\* No pulse, no completion.
LEMMA NothingCleared ==
    ASSUME HInv, pc # "ack"
    PROVE  \A c \in Contexts : ClrMask(c) = {} /\ InService(c) = claimed[c]
  BY DEF HInv, BusFollowsPc, ClrMask, InService

\* While nothing is in service a device that holds its line keeps it up, and
\* a context keeps its candidates.
LEMMA CandidatesStay ==
    ASSUME HInv, Devices, HoldLevels, Configured', NEW k \in Contexts,
           \A c \in Contexts : claimed[c] = {} /\ claimed'[c] = {}
    PROVE  Candidates(k) \subseteq Candidates(k)'
<1>1. source_in \subseteq source_in'
  BY DEF Devices
<1>2. enable' = enable /\ priority' = priority /\ threshold' = threshold
  BY DEF HInv, Configured
<1>3. QED
  BY <1>1, <1>2 DEF Candidates

\* A context with a candidate has a winner among its enabled sources.
LEMMA WinnerEnabled ==
    ASSUME HInv, NEW c \in Contexts, Candidates(c) # {}
    PROVE  Winner(c) \in BootEnable[c]
<1>1. Winner(c) # 0
  BY CandidateWins DEF HInv, HTypeOK, NoCandidateLost, IntrOut
<1>2. Winner(c) \in Candidates(c)
  BY <1>1, WinnerIsCandidate
<1>3. QED
  BY <1>2 DEF Candidates, HInv, Configured

(***************************************************************************)
(* One lemma per step of the program                                       *)
(***************************************************************************)
Rest == Configured /\ BusFollowsPc /\ ServiceFollowsPc /\ WinnerAwaits

LEMMA TrapStep ==
    ASSUME HInv, Trap, Devices, UNCHANGED kinds
    PROVE  Rest'
<1>1. /\ pc = "main" /\ pc' = "claim" /\ ctx' \in Contexts /\ NoBus
      /\ IntrOut(ctx') /\ saved' = saved
  BY DEF Trap, Pending
<1>2. /\ ~bresp_valid_r' /\ ~rresp_valid_r'
      /\ \A c \in Contexts : ~wr_pulse_d'[c] /\ claim'[c] = Winner(c)
      /\ \A c \in Contexts : claimed'[c] = claimed[c] \ ClrMask(c)
      /\ UNCHANGED answer /\ Configured'
  BY <1>1, NoBusCycle
<1>3. \A c \in Contexts : claimed[c] = {} /\ claimed'[c] = {}
  BY <1>1, <1>2 DEF HInv, ServiceFollowsPc
<1>4. BusFollowsPc' /\ ServiceFollowsPc'
  BY <1>1, <1>2, <1>3 DEF BusFollowsPc, ServiceFollowsPc
<1>5. WinnerAwaits'
  <2>1. PICK k \in Contexts : k = ctx'
    BY <1>1
  <2>2. Candidates(k) # {}
    BY <1>1, <2>1, WinnerIsCandidate DEF IntrOut
  <2>3. claim'[k] \in BootEnable[k]
    BY <1>2, <2>2, WinnerEnabled
  <2>4. HoldLevels => Candidates(k)' # {}
    BY <1>2, <1>3, <2>2, CandidatesStay
  <2>5. Candidates(ctx)' = Candidates(k)'
    BY <2>1 DEF Candidates
  <2>6. QED
    BY <1>1, <2>1, <2>3, <2>4, <2>5 DEF WinnerAwaits, kinds
<1>6. QED
  BY <1>2, <1>4, <1>5 DEF Rest

LEMMA WorkStep ==
    ASSUME HInv, Work, Devices, UNCHANGED kinds
    PROVE  Rest'
<1>1. /\ NoBus /\ pc' = pc /\ ctx' = ctx /\ saved' = saved
      /\ pc \in {"main", "claim", "complete"} /\ ctx \in Contexts
  BY DEF Work, cpuVars, HInv, HTypeOK, BusFollowsPc
<1>2. /\ ~bresp_valid_r' /\ ~rresp_valid_r'
      /\ \A c \in Contexts : ~wr_pulse_d'[c] /\ claim'[c] = Winner(c)
      /\ \A c \in Contexts : claimed'[c] = claimed[c] \ ClrMask(c)
      /\ UNCHANGED answer /\ Configured'
  BY <1>1, NoBusCycle
<1>3. \A c \in Contexts : claimed'[c] = claimed[c]
  BY <1>1, <1>2, NothingCleared
<1>4. BusFollowsPc'
  BY <1>1, <1>2 DEF BusFollowsPc
<1>5. ServiceFollowsPc'
  BY <1>1, <1>2, <1>3 DEF HInv, ServiceFollowsPc
<1>6. WinnerAwaits'
  <2>1. CASE pc = "claim"
    <3>1. SUFFICES ASSUME HoldLevels
                   PROVE  Candidates(ctx)' # {} /\ claim'[ctx] \in BootEnable[ctx]
      BY <1>1, <2>1 DEF WinnerAwaits, kinds, Candidates
    <3>2. Candidates(ctx) # {}
      BY <2>1, <3>1 DEF HInv, WinnerAwaits
    <3>3. \A c \in Contexts : claimed[c] = {} /\ claimed'[c] = {}
      BY <1>3, <2>1 DEF HInv, ServiceFollowsPc
    <3>4. Candidates(ctx)' # {}
      <4>1. PICK k \in Contexts : k = ctx
        BY <1>1
      <4>2. Candidates(k) \subseteq Candidates(k)'
        BY <1>2, <3>1, <3>3, CandidatesStay
      <4>3. QED
        BY <1>1, <3>2, <4>1, <4>2 DEF Candidates
    <3>5. QED
      BY <1>1, <1>2, <3>2, <3>4, WinnerEnabled
  <2>2. CASE pc # "claim"
    BY <1>1, <1>2, <2>2 DEF HInv, WinnerAwaits, kinds
  <2>3. QED
    BY <2>1, <2>2
<1>7. QED
  BY <1>2, <1>4, <1>5, <1>6 DEF Rest

LEMMA LoadStep ==
    ASSUME HInv, LoadClaim, UNCHANGED kinds
    PROVE  Rest'
<1>1. /\ pc = "claim" /\ pc' = "data" /\ ctx' = ctx /\ saved' = saved
      /\ ReadClaim(ctx) /\ NoWrite /\ ctx \in Contexts /\ Serialized
  BY BootConstants DEF LoadClaim, HInv, HTypeOK
<1>2. ~bresp_valid_r' /\ \A c \in Contexts : ~wr_pulse_d'[c]
  BY <1>1 DEF NoWrite, NoPulse
<1>3. Configured'
  BY <1>1 DEF NoWrite, HInv, Configured, config
<1>4. rresp_valid_r' /\ answer' = [answer EXCEPT ![ctx] = claim[ctx]]
  BY <1>1 DEF ReadClaim
<1>5. answer'[ctx] = claim[ctx]
  BY <1>1, <1>4 DEF HInv, HTypeOK, TypeOK
<1>6. claim[ctx] \in Sources \cup {0}
  BY <1>1 DEF HInv, BusFollowsPc, ClaimIsWinnerOrWritten
<1>7. \A c \in Contexts : claimed'[c] = IF c = ctx THEN ClaimBit(ctx) ELSE {}
  <2>1. \A c \in Contexts : claimed[c] = {} /\ ClrMask(c) = {}
    BY <1>1, NothingCleared DEF HInv, ServiceFollowsPc
  <2>2. QED
    BY <1>1, <2>1 DEF ReadClaim
<1>8. ClaimBit(ctx) = {claim[ctx]} \ {0}
  BY <1>6, PlicConstants DEF ClaimBit, Sources
<1>9. BusFollowsPc'
  BY <1>1, <1>2, <1>4 DEF BusFollowsPc
<1>10. ServiceFollowsPc'
  BY <1>1, <1>5, <1>6, <1>7, <1>8 DEF ServiceFollowsPc
<1>11. WinnerAwaits'
  BY <1>1, <1>5 DEF HInv, WinnerAwaits, kinds
<1>12. QED
  BY <1>3, <1>9, <1>10, <1>11 DEF Rest

LEMMA SaveStep ==
    ASSUME HInv, SaveClaim, UNCHANGED kinds
    PROVE  Rest'
<1>1. /\ pc = "data" /\ pc' = "complete" /\ ctx' = ctx /\ saved' = answer[ctx]
      /\ NoBus /\ ctx \in Contexts
  BY DEF SaveClaim, HInv, HTypeOK
<1>2. /\ ~bresp_valid_r' /\ ~rresp_valid_r'
      /\ \A c \in Contexts : ~wr_pulse_d'[c] /\ claim'[c] = Winner(c)
      /\ \A c \in Contexts : claimed'[c] = claimed[c] \ ClrMask(c)
      /\ UNCHANGED answer /\ Configured'
  BY <1>1, NoBusCycle
<1>3. \A c \in Contexts : claimed'[c] = claimed[c]
  BY <1>1, <1>2, NothingCleared
<1>4. BusFollowsPc' /\ ServiceFollowsPc'
  BY <1>1, <1>2, <1>3 DEF HInv, BusFollowsPc, ServiceFollowsPc
<1>5. WinnerAwaits'
  BY <1>1, <1>2 DEF HInv, WinnerAwaits, kinds
<1>6. QED
  BY <1>2, <1>4, <1>5 DEF Rest

LEMMA StoreStep ==
    ASSUME HInv, StoreClaim, UNCHANGED kinds
    PROVE  Rest'
<1>1. /\ pc = "complete" /\ pc' = "ack" /\ ctx' = ctx /\ saved' = saved
      /\ WriteClaim(ctx, saved) /\ NoRead /\ ctx \in Contexts /\ Serialized
  BY BootConstants DEF StoreClaim, HInv, HTypeOK
<1>2. /\ bresp_valid_r' /\ ~rresp_valid_r' /\ UNCHANGED answer
      /\ \A c \in Contexts : wr_pulse_d'[c] <=> c = ctx
      /\ claim'[ctx] = saved
  BY <1>1 DEF WriteClaim, NoRead, NoPulse, HwClaim
<1>3. Configured'
  BY <1>1 DEF WriteClaim, HInv, Configured, config
<1>4. \A c \in Contexts : claimed'[c] = claimed[c]
  BY <1>1, NothingCleared DEF NoRead
<1>5. BusFollowsPc' /\ ServiceFollowsPc'
  BY <1>1, <1>2, <1>4 DEF HInv, BusFollowsPc, ServiceFollowsPc
<1>6. WinnerAwaits'
  BY <1>1 DEF WinnerAwaits
<1>7. QED
  BY <1>3, <1>5, <1>6 DEF Rest

LEMMA ReturnStep ==
    ASSUME HInv, Return, UNCHANGED kinds
    PROVE  Rest'
<1>1. pc = "ack" /\ pc' = "main" /\ ctx' = ctx /\ saved' = saved /\ NoBus
  BY DEF Return
<1>2. /\ ~bresp_valid_r' /\ ~rresp_valid_r'
      /\ \A c \in Contexts : ~wr_pulse_d'[c] /\ claim'[c] = Winner(c)
      /\ \A c \in Contexts : claimed'[c] = claimed[c] \ ClrMask(c)
      /\ UNCHANGED answer /\ Configured'
  BY <1>1, NoBusCycle
<1>3. \A c \in Contexts : claimed'[c] = {}
  <2>1. ASSUME NEW c \in Contexts, c = ctx
        PROVE  claimed[c] \ ClrMask(c) = {}
    BY <1>1, <2>1 DEF HInv, ServiceFollowsPc, BusFollowsPc, ClrMask, ClaimBit
  <2>2. ASSUME NEW c \in Contexts, c # ctx
        PROVE  claimed[c] = {}
    BY <2>2 DEF HInv, ServiceFollowsPc
  <2>3. QED
    BY <1>2, <2>1, <2>2
<1>4. BusFollowsPc' /\ ServiceFollowsPc' /\ WinnerAwaits'
  BY <1>1, <1>2, <1>3 DEF BusFollowsPc, ServiceFollowsPc, WinnerAwaits
<1>5. QED
  BY <1>2, <1>4 DEF Rest

LEMMA HInvAlways == HSpec => []HInv
<1>1. HInv /\ [HNext]_allVars => HInv'
  <2>1. ASSUME HInv, HNext
        PROVE  HInv'
    <3>1. Rest'
      BY <2>1, TrapStep, WorkStep, LoadStep, SaveStep, StoreStep, ReturnStep DEF HNext, CpuStep
    <3>2. QED
      BY <2>1, <3>1, HTypeStep DEF HInv, Rest
  <2>2. ASSUME HInv, UNCHANGED allVars
        PROVE  HInv'
    <3>1. HTypeOK' /\ ClaimIsWinnerOrWritten' /\ Configured'
      BY <2>2 DEF HInv, HTypeOK, TypeOK, ClaimIsWinnerOrWritten, Configured,
                  allVars, vars, cpuVars, kinds
    <3>2. BusFollowsPc' /\ ServiceFollowsPc' /\ WinnerAwaits'
      BY <2>2 DEF HInv, BusFollowsPc, ServiceFollowsPc, WinnerAwaits, Candidates,
                  allVars, vars, cpuVars, kinds
    <3>3. QED
      BY <3>1, <3>2 DEF HInv
  <2>3. QED
    BY <2>1, <2>2
<1>2. QED
  BY HInitInv, <1>1, PTL DEF HSpec

\* The program and the controller keep their types.
THEOREM HandlerTypeCorrect == HSpec => []HTypeOK
<1>1. HInv => HTypeOK
  BY DEF HInv
<1>2. QED
  BY <1>1, HInvAlways, PTL

\* No source stays masked after its handler returned, for any number of
\* contexts and sources (multictx_isr.S:133-178).
THEOREM NothingIsLeftInService == HSpec => []NothingLeftInService
<1>1. HInv => NothingLeftInService
  <2>1. SUFFICES ASSUME HInv, NEW c \in Contexts
                 PROVE  InService(c) = IF c = ctx /\ pc \in {"data", "complete"}
                                       THEN {answer[c]} \ {0} ELSE {}
    BY DEF NothingLeftInService
  <2>2. CASE pc = "ack"
    BY <2>1, <2>2 DEF HInv, BusFollowsPc, ServiceFollowsPc, InService
  <2>3. CASE pc # "ack"
    BY <2>1, <2>3 DEF HInv, BusFollowsPc, ServiceFollowsPc, InService
  <2>4. QED
    BY <2>2, <2>3
<1>2. QED
  BY <1>1, HInvAlways, PTL

\* With devices that hold their lines no handler reads "no interrupt",
\* whatever the configuration and the speed of the CPU.
THEOREM NoClaimIsSpurious == HSpec => []NoSpuriousClaim
<1>1. HInv => NoSpuriousClaim
  BY DEF HInv, ServiceFollowsPc, WinnerAwaits, NoSpuriousClaim
<1>2. QED
  BY <1>1, HInvAlways, PTL
(***************************************************************************)
(* The program as software of the controller.  HInit is not Init, since    *)
(* the boot code has run; from there on every cycle is one of Plic, so     *)
(* what IInv gives every master it gives the handlers.                     *)
(***************************************************************************)
HandlerInv == HInv /\ IInv /\ LatchedIsLive

LEMMA HandlerStep == HInv /\ [HNext]_allVars => [Next]_vars
<1>1. ASSUME HInv, HNext
      PROVE  Next
  <2>1. ctx \in Contexts /\ saved \in Ids
    BY <1>1 DEF HInv, HTypeOK
  <2>2. WriteChannel /\ ReadChannel /\ Wires
    BY <1>1, <2>1, CycleIsPlicCycle
  <2>3. OneRequest
    <3>1. CASE NoBus
      BY <3>1, BootConstants DEF NoBus, NoWrite, OneRequest
    <3>2. CASE LoadClaim
      BY <3>2, BootConstants DEF LoadClaim, NoWrite, OneRequest
    <3>3. CASE StoreClaim
      BY <3>3, BootConstants DEF StoreClaim, NoRead, OneRequest
    <3>4. QED
      BY <1>1, <3>1, <3>2, <3>3 DEF HNext, CpuStep, Trap, SaveClaim, Return, Work
  <2>4. QED
    BY <2>2, <2>3 DEF Next
<1>2. QED
  BY <1>1 DEF allVars

LEMMA HandlerInvAlways == HSpec => []HandlerInv
<1>1. HInit => IInv /\ LatchedIsLive
  <2>1. SUFFICES ASSUME HInit PROVE IInv /\ LatchedIsLive
    OBVIOUS
  <2>2. TypeOK /\ ClaimIsWinnerOrWritten
    BY <2>1, HInitInv DEF HInv, HTypeOK
  <2>3. StaleClaimGuarded /\ PulseHasResponse /\ LatchedIsLive
    BY <2>1 DEF HInit, StaleClaimGuarded, PulseHasResponse, LatchedIsLive, NoPulse
  <2>4. QED
    BY <2>2, <2>3 DEF IInv
<1>2. HInv /\ IInv /\ LatchedIsLive /\ [HNext]_allVars => IInv' /\ LatchedIsLive'
  BY HandlerStep, IInvStep, LatchedStep DEF IInv
<1>3. QED
  BY <1>1, <1>2, HInvAlways, PTL DEF HSpec, HandlerInv

\* To the handlers the controller keeps the claim / complete contract,
\* whatever the boot code configured, and shared sources included: no handler
\* is handed a source its context still has in service, nor one that is
\* masked or was not asserted.
THEOREM HandlersGetContract ==
    HSpec => ImplementsContract /\ NoDoubleClaim /\ ClaimsOnlyLiveSources
<1>1. HInit => Contract!Init
  BY DEF HInit, Contract!Init, InService, NoPulse
<1>2. HandlerInv /\ [HNext]_allVars => [Contract!Next]_<<ServiceMap, answer>>
  <2>1. SUFFICES ASSUME HandlerInv, [HNext]_allVars
                 PROVE  Contract!Next \/ UNCHANGED <<ServiceMap, answer>>
    OBVIOUS
  <2>2. IInv /\ Serialized /\ [Next]_vars
    BY <2>1, HandlerStep, BootConstants DEF HandlerInv
  <2>3. QED
    BY <2>2, BridgeReadsAlone, ContractStep, ContractStutter
<1>3. HandlerInv => ReadableClaimIsLive
  BY DEF HandlerInv, LatchedIsLive, ReadableClaimIsLive
<1>4. HandlerInv => IInv
  BY DEF HandlerInv
<1>5. HSpec => ImplementsContract
  BY <1>1, <1>2, HandlerInvAlways, PTL
     DEF HSpec, ImplementsContract, Contract!Spec, Contract!cvars, ServiceMap
<1>6. HSpec => NoDoubleClaim
  BY <1>4, NotTwice, HandlerInvAlways, PTL DEF NoDoubleClaim
<1>7. HSpec => ClaimsOnlyLiveSources
  BY <1>3, LiveClaim, HandlerInvAlways, PTL DEF ClaimsOnlyLiveSources
<1>8. QED
  BY <1>5, <1>6, <1>7

\* The bus never makes a handler wait: where the program reads the claim
\* register, or writes it, the channel is ready, and where it expects a
\* response, the response is there.  With the fairness of the CPU this is why
\* the handlers finish.
NeverWaits ==
    /\ pc = "claim" => RdReady
    /\ pc = "data" => rresp_valid_r
    /\ pc = "complete" => WrReady
    /\ pc = "ack" => bresp_valid_r

\* No step of a handler is ever blocked by the bus.
THEOREM HandlersNeverWait == HSpec => []NeverWaits
<1>1. HInv => NeverWaits
  BY DEF HInv, BusFollowsPc, NeverWaits, RdReady, WrReady
<1>2. QED
  BY <1>1, HInvAlways, PTL

\* While the CPU is in the main program, no interrupt that waits for it goes
\* away: with devices that hold their lines, the arbiter keeps every wire up
\* from the cycle in which it rises to the one in which the trap is taken.
PendingTrapStays ==
    [][HoldLevels /\ pc = "main" /\ pc' = "main"
         => \A k \in Contexts : Pending(k) => Pending(k)']_allVars

\* No trap of a held line is withdrawn before it is taken.
THEOREM NoTrapIsWithdrawn == HSpec => PendingTrapStays
<1>1. ASSUME HInv, NoCandidateLost', HNext, HoldLevels, pc = "main", pc' = "main",
             NEW k \in Contexts, Pending(k)
      PROVE  Pending(k)'
  <2>1. Work /\ Devices
    BY <1>1 DEF HNext, CpuStep, Trap, LoadClaim, SaveClaim, StoreClaim, Return
  <2>2. NoBus /\ UNCHANGED cpuVars
    BY <2>1 DEF Work
  <2>3. /\ \A c \in Contexts : claimed'[c] = claimed[c] \ ClrMask(c)
        /\ Configured'
    BY <1>1, <2>2, NoBusCycle
  <2>4. \A c \in Contexts : claimed[c] = {} /\ claimed'[c] = {}
    BY <1>1, <2>3 DEF HInv, ServiceFollowsPc
  <2>5. Candidates(k) # {}
    BY <1>1, WinnerIsCandidate DEF Pending, IntrOut
  <2>6. Candidates(k)' # {}
    BY <1>1, <2>1, <2>3, <2>4, <2>5, CandidatesStay
  <2>7. IntrOut(k)'
    BY <1>1, <2>6 DEF NoCandidateLost
  <2>8. QED
    BY <1>1, <2>2, <2>7 DEF Pending, cpuVars
<1>2. HInv => NoCandidateLost
  BY CandidateWins DEF HInv, HTypeOK
<1>3. HInv /\ NoCandidateLost' /\ [HNext]_allVars
        => [HoldLevels /\ pc = "main" /\ pc' = "main"
              => \A k \in Contexts : Pending(k) => Pending(k)']_allVars
  BY <1>1
<1>4. QED
  BY <1>2, <1>3, HInvAlways, PTL DEF HSpec, PendingTrapStays
=============================================================================
