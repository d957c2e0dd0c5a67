---------------------------- MODULE SocBus_proofs ----------------------------
(***************************************************************************)
(* Proofs about the data bus, for any memory map of aligned regions that   *)
(* do not overlap, any number of PLIC sources and contexts, and a core     *)
(* that waits for its responses or one that does not.                      *)
(***************************************************************************)
EXTENDS SocBus, Plic_proofs

(***************************************************************************)
(* The decoder                                                             *)
(***************************************************************************)

\* A selected address lies in the device's region.
LEMMA SelInRegion ==
    ASSUME NEW d \in Devices, NEW a \in Nat, Sel(d, a)
    PROVE  Base[d] <= a /\ a < Base[d] + Size[d]
<1>1. Size[d] \in Nat /\ Size[d] > 0 /\ Base[d] \in Nat
  BY SocConstants
<1>2. a % Size[d] \in 0..(Size[d] - 1)
  BY <1>1
<1>3. QED
  BY <1>1, <1>2 DEF Sel

\* An address selects one device at most.
LEMMA OneSelected ==
    ASSUME NEW d \in Devices, NEW e \in Devices, NEW a \in Nat, Sel(d, a), Sel(e, a)
    PROVE  d = e
<1>1. /\ Base[d] <= a /\ a < Base[d] + Size[d]
      /\ Base[e] <= a /\ a < Base[e] + Size[e]
  BY SelInRegion
<1>2. Base[d] \in Nat /\ Base[e] \in Nat /\ Size[d] \in Nat /\ Size[e] \in Nat
  BY SocConstants
<1>3. d = e \/ Base[d] + Size[d] <= Base[e] \/ Base[e] + Size[e] <= Base[d]
  BY SocConstants
<1>4. QED
  BY <1>1, <1>2, <1>3

(***************************************************************************)
(* The PLIC on the bus                                                     *)
(***************************************************************************)

\* What the bus makes of the PLIC's registers is a step of the PLIC with
\* independent channels.
LEMMA BlockIsPlicStep ==
    ASSUME PlicBlock
    PROVE  Next
<1>1. WriteChannel
  <2>1. SwKinds = Kinds /\ "claim" \in SwKinds
    BY SocConstants DEF Kinds
  <2>2. CASE WriteAt(req.addr)
    BY <2>1, <2>2 DEF WriteAt, WriteChannel
  <2>3. CASE NoWrite
    BY <2>3 DEF WriteChannel
  <2>4. QED
    BY <2>2, <2>3 DEF PlicBlock
<1>2. ReadChannel
  BY DEF PlicBlock, ReadAt, ReadChannel
<1>3. OneRequest
  BY SocConstants DEF OneRequest
<1>4. QED
  BY <1>1, <1>2, <1>3 DEF PlicBlock, Next

\* The PLIC's response flags say what its channels took at the last edge.
LEMMA BlockFlags ==
    ASSUME PlicBlock
    PROVE  /\ bresp_valid_r' <=> Writes("plic")
           /\ rresp_valid_r' <=> Reads("plic")
<1>1. bresp_valid_r' <=> Writes("plic")
  <2>1. CASE Writes("plic") /\ WriteAt(req.addr)
    BY <2>1 DEF WriteAt, WriteClaim, WriteConfig
  <2>2. CASE ~Writes("plic") /\ NoWrite /\ ~bresp_valid_r'
    BY <2>2
  <2>3. QED
    BY <2>1, <2>2 DEF PlicBlock
<1>2. rresp_valid_r' <=> Reads("plic")
  <2>1. CASE Reads("plic") /\ ReadAt(req.addr)
    BY <2>1 DEF ReadAt, ReadClaim, ReadOther
  <2>2. CASE ~Reads("plic") /\ NoRead /\ ~rresp_valid_r'
    BY <2>2
  <2>3. QED
    BY <2>1, <2>2 DEF PlicBlock
<1>3. QED
  BY <1>1, <1>2

\* The PLIC of the SoC is the PLIC: whatever is proved of Plic with
\* independent channels holds of it, the exclusion of double claims first.
THEOREM SocImplementsPlic == SocSpec => Spec
<1>1. SocInit => Init
  BY DEF SocInit
<1>2. [SocNext]_socVars => [Next]_vars
  BY BlockIsPlicStep DEF SocNext, socVars
<1>3. QED
  BY <1>1, <1>2, PTL DEF SocSpec, Spec

\* No host of this bus is handed one source twice.
COROLLARY SocNoDoubleClaim == SocSpec => NoDoubleClaim
  BY SocImplementsPlic, DoubleClaimImpossible, PTL

(***************************************************************************)
(* The inductive invariant.  SocTypeOK and AnsweredByGranted keep each     *)
(* other: the count of the core stays within one because the answers of a  *)
(* cycle are the grants of the last.  For the core that waits, a response  *)
(* and the second half of a misaligned access go in one direction.         *)
(***************************************************************************)
HalvesAgree ==
    ~Pipelined => /\ bresp_valid_r /\ req.valid => req.we
                  /\ rresp_valid_r /\ req.valid => ~req.we

OneResponse == ~(bresp_valid_r /\ rresp_valid_r)

SocInv == SocTypeOK /\ AnsweredByGranted /\ HalvesAgree /\ OneResponse

LEMMA SocInitInv == SocInit => SocInv
<1>1. SUFFICES ASSUME SocInit PROVE SocInv
  OBVIOUS
<1>2. TypeOK
  <2>1. Init
    BY <1>1 DEF SocInit
  <2>2. 0 \in Prios /\ 0 \in Ids
    BY PlicConstants DEF Prios, Ids
  <2>3. QED
    BY <2>1, <2>2 DEF Init, TypeOK, NoPulse
<1>3. SocTypeOK
  BY <1>1, <1>2 DEF SocInit, SocTypeOK, NoReq
<1>4. ~bresp_valid_r /\ ~rresp_valid_r
  BY <1>1 DEF SocInit, Init
<1>5. Answering = {}
  BY <1>1, <1>4 DEF SocInit, Answering
<1>6. QED
  BY <1>1, <1>3, <1>4, <1>5 DEF SocInit, SocInv, AnsweredByGranted, HalvesAgree, OneResponse

\* The core issues well-formed requests.
LEMMA CoreType ==
    ASSUME SocTypeOK, Core
    PROVE  req' \in [valid : BOOLEAN, addr : Nat, we : BOOLEAN, split : BOOLEAN]
<1>1. req \in [valid : BOOLEAN, addr : Nat, we : BOOLEAN, split : BOOLEAN]
  BY DEF SocTypeOK
<1>2. NoReq \in [valid : BOOLEAN, addr : Nat, we : BOOLEAN, split : BOOLEAN]
  BY DEF NoReq
<1>3. Requests \subseteq [valid : BOOLEAN, addr : Nat, we : BOOLEAN, split : BOOLEAN]
  BY SocConstants DEF Requests
<1>4. CASE DataGnt /\ req.split /\ ~Pipelined /\ req' = Request(req.addr + 4, req.we, FALSE)
  <2>1. req.addr + 4 \in Nat /\ req.we \in BOOLEAN
    BY <1>1
  <2>2. QED
    BY <1>4, <2>1 DEF Request
<1>5. CASE req' = req \/ req' = NoReq \/ req' \in Requests
  BY <1>1, <1>2, <1>3, <1>5
<1>6. QED
  BY <1>4, <1>5 DEF Core

\* The device granted in a cycle is the device that answers in the next.
LEMMA GrantIsAnswered ==
    ASSUME SocTypeOK, SocNext
    PROVE  Answering' = {d \in Devices : Gnt(d)}
<1>1. /\ bresp_valid_r' <=> Writes("plic")
      /\ rresp_valid_r' <=> Reads("plic")
  BY BlockFlags DEF SocNext
<1>2. /\ ram_rvalid' = Requested("ram")
      /\ simctrl_rvalid' = Requested("simctrl")
      /\ clint_bresp' = Writes("clint")
      /\ clint_rresp' = Reads("clint")
  BY DEF SocNext, OtherDevices
<1>3. \A d \in Blocks : Gnt(d) <=> Writes(d) \/ Reads(d)
  BY DEF Gnt, Writes, Reads
<1>4. \A d \in Devices \ Blocks : Gnt(d) <=> Requested(d)
  BY DEF Gnt
<1>5. ASSUME NEW d \in Devices
      PROVE  d \in Answering' <=> Gnt(d)
  <2>1. CASE d = "ram"
    BY <2>1, <1>2, <1>4 DEF Answering, Devices, Blocks
  <2>2. CASE d = "simctrl"
    BY <2>2, <1>2, <1>4 DEF Answering, Devices, Blocks
  <2>3. CASE d = "clint"
    BY <2>3, <1>2, <1>3 DEF Answering, Devices, Blocks
  <2>4. CASE d = "plic"
    BY <2>4, <1>1, <1>3 DEF Answering, Devices, Blocks
  <2>5. QED
    BY <2>1, <2>2, <2>3, <2>4 DEF Devices
<1>6. QED
  BY <1>5 DEF Answering

\* One device is granted at a time.
LEMMA OneGrant ==
    ASSUME SocTypeOK
    PROVE  \A d, e \in Devices : Gnt(d) /\ Gnt(e) => d = e
<1>1. req.addr \in Nat
  BY DEF SocTypeOK
<1>2. QED
  BY <1>1, OneSelected DEF Gnt, Requested

LEMMA SocTypeStep ==
    ASSUME SocInv, SocNext
    PROVE  SocTypeOK'
<1>1. SocTypeOK /\ AnsweredByGranted
  BY DEF SocInv
<1>2. TypeOK'
  <2>1. TypeOK /\ Next
    BY <1>1, BlockIsPlicStep DEF SocNext, SocTypeOK
  <2>2. QED
    BY <2>1, WriteChannelType, ReadChannelType DEF Next, Wires, TypeOK
<1>3. req' \in [valid : BOOLEAN, addr : Nat, we : BOOLEAN, split : BOOLEAN]
  BY <1>1, CoreType DEF SocNext
<1>4. outstanding' \in {0, 1}
  <2>1. outstanding \in {0, 1} /\ (outstanding = 0 <=> ~DataRvalid)
    BY <1>1 DEF SocTypeOK, AnsweredByGranted, DataRvalid
  <2>2. outstanding' = IF DataGnt THEN 1 ELSE 0
    BY <2>1 DEF SocNext, Count
  <2>3. QED
    BY <2>2
<1>5. req.valid \in BOOLEAN /\ req.we \in BOOLEAN
  BY <1>1 DEF SocTypeOK
<1>6. /\ ram_rvalid' \in BOOLEAN /\ simctrl_rvalid' \in BOOLEAN
      /\ clint_bresp' \in BOOLEAN /\ clint_rresp' \in BOOLEAN
  BY <1>5 DEF SocNext, OtherDevices, Requested, Writes, Reads
<1>7. owed' \subseteq Devices /\ Pipelined' \in BOOLEAN
  BY <1>1 DEF SocNext, SocTypeOK
<1>8. QED
  BY <1>2, <1>3, <1>4, <1>6, <1>7 DEF SocTypeOK

LEMMA AnsweredStep ==
    ASSUME SocInv, SocNext
    PROVE  AnsweredByGranted'
<1>1. SocTypeOK /\ AnsweredByGranted
  BY DEF SocInv
<1>2. owed' = {d \in Devices : Gnt(d)}
  BY DEF SocNext
<1>3. Answering' = owed'
  BY <1>1, <1>2, GrantIsAnswered
<1>4. \A d, e \in owed' : d = e
  BY <1>1, <1>2, OneGrant
<1>5. outstanding' = 0 <=> owed' = {}
  <2>1. outstanding \in {0, 1} /\ (outstanding = 0 <=> ~DataRvalid)
    BY <1>1 DEF SocTypeOK, AnsweredByGranted, DataRvalid
  <2>2. outstanding' = IF DataGnt THEN 1 ELSE 0
    BY <2>1 DEF SocNext, Count
  <2>3. DataGnt <=> owed' # {}
    BY <1>2 DEF DataGnt
  <2>4. QED
    BY <2>2, <2>3
<1>6. QED
  BY <1>3, <1>4, <1>5 DEF AnsweredByGranted

LEMMA HalvesStep ==
    ASSUME SocInv, SocNext
    PROVE  HalvesAgree' /\ OneResponse'
<1>1. /\ bresp_valid_r' <=> Writes("plic")
      /\ rresp_valid_r' <=> Reads("plic")
  BY BlockFlags DEF SocNext
<1>2. OneResponse'
  BY <1>1 DEF OneResponse, Writes, Reads
<1>3. ASSUME ~Pipelined, bresp_valid_r' \/ rresp_valid_r', req'.valid
      PROVE  req'.we = req.we
  <2>1. DataGnt
    BY <1>1, <1>3 DEF DataGnt, Gnt, Writes, Reads, Devices, Blocks
  <2>2. CASE req' = Request(req.addr + 4, req.we, FALSE)
    BY <2>2 DEF Request
  <2>3. CASE req' = NoReq
    BY <2>3, <1>3 DEF NoReq
  <2>4. req.valid
    BY <2>1 DEF DataGnt, Gnt, Requested
  <2>5. QED
    BY <1>3, <2>1, <2>2, <2>3, <2>4 DEF SocNext, Core
<1>4. bresp_valid_r' => req.we
  BY <1>1 DEF Writes
<1>5. rresp_valid_r' => ~req.we
  BY <1>1 DEF Reads
<1>6. Pipelined' = Pipelined
  BY DEF SocNext
<1>7. HalvesAgree'
  BY <1>3, <1>4, <1>5, <1>6 DEF HalvesAgree
<1>8. QED
  BY <1>2, <1>7

LEMMA SocInvAlways == SocSpec => []SocInv
<1>1. SocInv /\ [SocNext]_socVars => SocInv'
  <2>1. ASSUME SocInv, SocNext
        PROVE  SocInv'
    BY <2>1, SocTypeStep, AnsweredStep, HalvesStep DEF SocInv
  <2>2. ASSUME SocInv, UNCHANGED socVars
        PROVE  SocInv'
    <3>1. TypeOK'
      BY <2>2 DEF SocInv, SocTypeOK, TypeOK, socVars, vars
    <3>2. SocTypeOK' /\ HalvesAgree' /\ OneResponse'
      BY <2>2, <3>1 DEF SocInv, SocTypeOK, HalvesAgree, OneResponse, socVars, vars, busVars
    <3>3. AnsweredByGranted'
      BY <2>2 DEF SocInv, AnsweredByGranted, Answering, socVars, vars, busVars
    <3>4. QED
      BY <3>2, <3>3 DEF SocInv
  <2>3. QED
    BY <2>1, <2>2
<1>2. QED
  BY SocInitInv, <1>1, PTL DEF SocSpec

\* The registers of the bus keep their types, and one request at most is
\* unanswered, whatever the host does.
THEOREM SocTypeCorrect == SocSpec => []SocTypeOK
<1>1. SocInv => SocTypeOK
  BY DEF SocInv
<1>2. QED
  BY <1>1, SocInvAlways, PTL

\* The response multiplexer needs no memory (ibex_mini_soc.sv:423-466): for
\* every map of aligned disjoint regions the one device that answers is the
\* one granted at the last edge, and every grant is answered.
THEOREM ResponsesMatchGrants == SocSpec => []AnsweredByGranted
<1>1. SocInv => AnsweredByGranted
  BY DEF SocInv
<1>2. QED
  BY <1>1, SocInvAlways, PTL

\* A request to a device that is not granted is granted in the next cycle:
\* what stalls it is a response, and a response lasts one cycle
\* (obi_to_axi_lite.sv:92-98).
THEOREM StallsLastOneCycle == SocSpec => GrantedAfterOneWait
<1>1. ASSUME SocInv, SocNext, NEW d \in Devices, Requested(d), ~DataGnt
      PROVE  DataGnt'
  <2>1. ~Gnt(d) /\ d \in Blocks
    BY <1>1 DEF DataGnt, Gnt
  <2>2. ~Writes(d) /\ ~Reads(d)
    BY <2>1 DEF Gnt, Writes, Reads
  <2>3. req.valid /\ req' = req
    BY <1>1 DEF SocNext, Core, Requested
  <2>4. Requested(d)'
    BY <1>1, <2>3 DEF Requested, Sel
  <2>5. CASE d = "plic"
    <3>1. ~bresp_valid_r' /\ ~rresp_valid_r'
      BY <1>1, <2>2, <2>5, BlockFlags DEF SocNext
    <3>2. AwReady(d)' /\ ArReady(d)'
      BY <2>5, <3>1, SocConstants DEF AwReady, ArReady, WrReady, RdReady
    <3>3. QED
      BY <2>4, <3>2 DEF DataGnt, Gnt
  <2>6. CASE d = "clint"
    <3>1. ~clint_bresp' /\ ~clint_rresp'
      BY <1>1, <2>2, <2>6 DEF SocNext, OtherDevices
    <3>2. AwReady(d)' /\ ArReady(d)'
      BY <2>6, <3>1 DEF AwReady, ArReady
    <3>3. QED
      BY <2>4, <3>2 DEF DataGnt, Gnt
  <2>7. QED
    BY <2>1, <2>5, <2>6 DEF Blocks
<1>2. SocInv /\ [SocNext]_socVars
        => [(\E d \in Devices : Requested(d)) /\ ~DataGnt => DataGnt']_socVars
  BY <1>1
<1>3. QED
  BY <1>2, SocInvAlways, PTL DEF SocSpec, GrantedAfterOneWait

\* The two instances of Plic share their data path.
LEMMA BehindSame ==
    /\ Behind!HwClaim = HwClaim /\ Behind!NoPulse = NoPulse /\ Behind!config = config
    /\ Behind!Sources = Sources /\ Behind!Prios = Prios /\ Behind!Ids = Ids
    /\ \A c : Behind!ClaimBit(c) = ClaimBit(c) /\ Behind!ClrMask(c) = ClrMask(c)
<1>1. \A c : Behind!ClaimBit(c) = ClaimBit(c) /\ Behind!ClrMask(c) = ClrMask(c)
  BY DEF Behind!ClaimBit, ClaimBit, Behind!ClrMask, ClrMask, Behind!Sources, Sources
<1>2. Behind!HwClaim = HwClaim
  BY DEF Behind!HwClaim, HwClaim, Behind!Winner, Winner, Behind!Best, Best,
         Behind!Candidates, Candidates, Behind!Beats, Beats, Behind!Sources, Sources
<1>3. QED
  BY <1>1, <1>2 DEF Behind!NoPulse, NoPulse, Behind!config, config, Behind!Sources, Sources,
                    Behind!Prios, Prios, Behind!Ids, Ids

\* A write accepted while nothing is outstanding is one behind the bridge.
LEMMA BehindWrite ==
    ASSUME WriteChannel, bresp_valid_r' => ~bresp_valid_r /\ ~rresp_valid_r
    PROVE  Behind!WriteChannel
<1>1. CASE NoWrite /\ ~bresp_valid_r'
  <2>1. Behind!NoWrite
    BY <1>1, BehindSame DEF NoWrite, Behind!NoWrite, config, Behind!config
  <2>2. QED
    BY <2>1 DEF Behind!WriteChannel
<1>2. CASE NoWrite /\ bresp_valid_r'
  BY <1>2 DEF NoWrite
<1>3. CASE WriteConfig
  <2>1. Behind!WrReady
    BY <1>3 DEF WriteConfig, Behind!WrReady
  <2>2. Behind!WriteConfig
    BY <1>3, <2>1, BehindSame DEF WriteConfig, Behind!WriteConfig
  <2>3. QED
    BY <2>2 DEF Behind!WriteChannel
<1>4. CASE "claim" \in SwKinds /\ \E c \in Contexts, id \in Ids : WriteClaim(c, id)
  <2>1. PICK c \in Contexts, id \in Ids : WriteClaim(c, id)
    BY <1>4
  <2>2. Behind!WrReady
    BY <2>1 DEF WriteClaim, Behind!WrReady
  <2>3. Behind!WriteClaim(c, id)
    BY <2>1, <2>2, BehindSame DEF WriteClaim, Behind!WriteClaim, config, Behind!config
  <2>4. QED
    BY <1>4, <2>3, BehindSame DEF Behind!WriteChannel
<1>5. QED
  BY <1>1, <1>2, <1>3, <1>4 DEF WriteChannel

\* So is a read.
LEMMA BehindRead ==
    ASSUME ReadChannel, rresp_valid_r' => ~bresp_valid_r /\ ~rresp_valid_r
    PROVE  Behind!ReadChannel
<1>1. CASE NoRead /\ ~rresp_valid_r'
  <2>1. Behind!NoRead
    BY <1>1, BehindSame DEF NoRead, Behind!NoRead
  <2>2. QED
    BY <2>1 DEF Behind!ReadChannel
<1>2. CASE NoRead /\ rresp_valid_r'
  BY <1>2 DEF NoRead
<1>3. CASE ReadOther
  <2>1. Behind!ReadOther
    BY <1>3, BehindSame DEF ReadOther, Behind!ReadOther, Behind!RdReady
  <2>2. QED
    BY <2>1 DEF Behind!ReadChannel
<1>4. CASE \E c \in Contexts : ReadClaim(c)
  <2>1. PICK c \in Contexts : ReadClaim(c)
    BY <1>4
  <2>2. Behind!RdReady
    BY <2>1 DEF ReadClaim, Behind!RdReady
  <2>3. Behind!ReadClaim(c)
    BY <2>1, <2>2, BehindSame DEF ReadClaim, Behind!ReadClaim
  <2>4. QED
    BY <2>3 DEF Behind!ReadChannel
<1>5. QED
  BY <1>1, <1>2, <1>3, <1>4 DEF ReadChannel

\* For the core that waits nothing is taken while a response is outstanding,
\* and one thing at a time.
LEMMA OneAtATime ==
    ASSUME SocInv, SocNext, ~Pipelined
    PROVE  /\ bresp_valid_r' => ~bresp_valid_r /\ ~rresp_valid_r
           /\ rresp_valid_r' => ~bresp_valid_r /\ ~rresp_valid_r
           /\ ~(bresp_valid_r' /\ rresp_valid_r')
<1>1. /\ bresp_valid_r' <=> Writes("plic")
      /\ rresp_valid_r' <=> Reads("plic")
  BY BlockFlags DEF SocNext
<1>2. /\ bresp_valid_r /\ req.valid => req.we
      /\ rresp_valid_r /\ req.valid => ~req.we
  BY DEF SocInv, HalvesAgree
<1>3. bresp_valid_r' => ~bresp_valid_r /\ ~rresp_valid_r
  BY <1>1, <1>2 DEF Writes, Requested, AwReady, WrReady
<1>4. rresp_valid_r' => ~bresp_valid_r /\ ~rresp_valid_r
  BY <1>1, <1>2 DEF Reads, Requested, ArReady, RdReady
<1>5. QED
  BY <1>1, <1>3, <1>4 DEF Writes, Reads

\* With a core that waits for its responses every step of the bus is a step
\* of the PLIC behind a bridge that runs one transaction at a time: the
\* assumption under which Plic, PlicHandler and their proofs are used.
THEOREM BridgeSerializes == SocSpec => PlicBehindBridge
<1>1. ASSUME SocInv, SocNext, ~Pipelined
      PROVE  Behind!Next
  <2>1. WriteChannel /\ ReadChannel /\ Wires
    BY <1>1, BlockIsPlicStep DEF SocNext, Next
  <2>2. Behind!WriteChannel /\ Behind!ReadChannel
    BY <1>1, <2>1, OneAtATime, BehindWrite, BehindRead
  <2>3. Behind!OneRequest
    BY <1>1, OneAtATime DEF Behind!OneRequest
  <2>4. Behind!Wires
    BY <2>1, BehindSame DEF Wires, Behind!Wires
  <2>5. QED
    BY <2>2, <2>3, <2>4 DEF Behind!Next
<1>2. SocInv /\ [SocNext]_socVars => [~Pipelined => Behind!Next]_vars
  BY <1>1 DEF socVars
<1>3. QED
  BY <1>2, SocInvAlways, PTL DEF SocSpec, PlicBehindBridge

(***************************************************************************)
(* What software on the SoC may rely on: the invariant of the PLIC, which  *)
(* every host keeps, and the discipline that the bus imposes on one that   *)
(* waits for its responses.                                                *)
(***************************************************************************)

\* The software of the SoC gets the claim / complete contract, for every
\* memory map, number of sources and number of contexts.
THEOREM SocKeepsContract == SocSpec => ContractOnTheBus
<1>1. Init => Contract!Init
  BY DEF Init, Contract!Init, InService, NoPulse
<1>2. ASSUME IInv, SocInv, SocNext, ~Pipelined
      PROVE  Contract!Next \/ UNCHANGED <<ServiceMap, answer>>
  BY <1>2, BlockIsPlicStep, OneAtATime, ContractStep DEF SocNext, ReadsAlone
<1>3. IInv /\ SocInv /\ [SocNext]_socVars
         => [~Pipelined => Contract!Next]_<<ServiceMap, answer>>
  BY <1>2, ContractStutter DEF socVars
<1>4. SocSpec => Contract!Init
  BY <1>1, SocImplementsPlic DEF SocSpec, SocInit
<1>5. QED
  BY <1>3, <1>4, SocImplementsPlic, IInvAlways, SocInvAlways, PTL
     DEF SocSpec, ContractOnTheBus, Contract!cvars, ServiceMap

\* And is never handed a source that is masked or was not asserted.
THEOREM SocClaimsAreLive == SocSpec => ClaimsOnTheBusAreLive
<1>1. ASSUME LatchedIsLive, SocInv, SocNext, ~Pipelined,
             NEW c \in Contexts, ReadClaim(c), claim[c] # 0
      PROVE  /\ claim[c] \in enable[c] \cap pending
             /\ priority[claim[c]] > threshold[c]
  <2>1. ~bresp_valid_r
    BY <1>1, OneAtATime DEF ReadClaim
  <2>2. QED
    BY <1>1, <2>1 DEF LatchedIsLive
<1>2. LatchedIsLive /\ SocInv /\ [SocNext]_socVars
        => [\A c \in Contexts : ~Pipelined /\ ReadClaim(c) /\ claim[c] # 0 =>
              /\ claim[c] \in enable[c] \cap pending
              /\ priority[claim[c]] > threshold[c]]_vars
  BY <1>1 DEF socVars
<1>3. QED
  BY <1>2, SocImplementsPlic, LatchedAlways, SocInvAlways, PTL
     DEF SocSpec, ClaimsOnTheBusAreLive
=============================================================================
