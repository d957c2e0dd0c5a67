------------------------------- MODULE SocBus -------------------------------
(***************************************************************************)
(* The data bus of tests/cpu/soc/ibex_mini_soc.sv: the load / store unit   *)
(* of the core, the address decoder, the RAM and the simulator control     *)
(* (external, one cycle each), the CLINT and the PLIC register blocks,     *)
(* each behind a stateless obi_to_axi_lite bridge, and the response        *)
(* multiplexer.  The PLIC is the whole of Plic with independent channels;  *)
(* of the CLINT only the response flags matter here.                       *)
(*                                                                         *)
(* One step is one rising clock edge.  The grant is combinational, every   *)
(* response comes one cycle after its grant, and the multiplexer does not  *)
(* remember who was granted.                                               *)
(***************************************************************************)
EXTENDS Plic

CONSTANTS
    Base, Size,   \* *_BASE and ~*_MASK + 1 of every device
    Addresses     \* the word addresses the core uses in this instance

Devices == {"ram", "simctrl", "clint", "plic"}
Blocks == {"clint", "plic"}

\* Regions are aligned and apart.
ASSUME SocConstants ==
    /\ ~Serialized
    /\ SwKinds = Kinds
    /\ Contexts \subseteq Nat
    /\ Addresses \subseteq Nat
    /\ Base \in [Devices -> Nat] /\ Size \in [Devices -> Nat \ {0}]
    /\ \A d, e \in Devices :
          d = e \/ Base[d] + Size[d] <= Base[e] \/ Base[e] + Size[e] <= Base[d]

VARIABLES
    req,          \* data_req, data_addr, data_we; split: a second half follows
    outstanding,  \* what the core counts: granted and not answered
    owed,         \* history: the devices granted at the last edge
    ram_rvalid, simctrl_rvalid,
    clint_bresp, clint_rresp,   \* bresp_valid_r, rresp_valid_r of the CLINT block
    Pipelined     \* rigid: a host that does not wait for its responses; the
                  \* core of this SoC does

busVars == <<req, outstanding, owed, ram_rvalid, simctrl_rvalid,
             clint_bresp, clint_rresp, Pipelined>>
socVars == <<vars, busVars>>

Request(a, w, s) == [valid |-> TRUE, addr |-> a, we |-> w, split |-> s]
NoReq == [valid |-> FALSE, addr |-> 0, we |-> FALSE, split |-> FALSE]
Requests == [valid : {TRUE}, addr : Addresses, we : BOOLEAN, split : BOOLEAN]

(***************************************************************************)
(* Decoder, bridges and multiplexer: the wires of a cycle                  *)
(***************************************************************************)
\* sel_<d>: the address with the offset bits masked off is the base
Sel(d, a) == a - (a % Size[d]) = Base[d]

Requested(d) == req.valid /\ Sel(d, req.addr)

\* aw_ready and w_ready, ar_ready of a register block
AwReady(d) == IF d = "plic" THEN WrReady ELSE ~clint_bresp
ArReady(d) == IF d = "plic" THEN RdReady ELSE ~clint_rresp

\* Faulty: the ready of the other channel; a default device that grants
\* whatever nobody decodes
GntSwapped(d) ==
    Requested(d) /\ (d \in Blocks => IF req.we THEN ArReady(d) ELSE AwReady(d))
GntDefault(d) ==
    \/ Requested(d) /\ (d \in Blocks => IF req.we THEN AwReady(d) ELSE ArReady(d))
    \/ d = "ram" /\ req.valid /\ \A e \in Devices : ~Sel(e, req.addr)

Gnt(d) ==
    Requested(d) /\ (d \in Blocks => IF req.we THEN AwReady(d) ELSE ArReady(d))

\* data_gnt
DataGnt == \E d \in Devices : Gnt(d)

\* A block takes a beat when valid meets ready.
Writes(d) == Requested(d) /\ req.we /\ AwReady(d)
Reads(d) == Requested(d) /\ ~req.we /\ ArReady(d)

\* Who drives rvalid, and data_rvalid
Answering == {d \in Devices : \/ d = "ram" /\ ram_rvalid
                              \/ d = "simctrl" /\ simctrl_rvalid
                              \/ d = "clint" /\ (clint_bresp \/ clint_rresp)
                              \/ d = "plic" /\ (bresp_valid_r \/ rresp_valid_r)}

DataRvalid == Answering # {}

(***************************************************************************)
(* The devices                                                             *)
(***************************************************************************)
\* The PLIC's registers.  An offset that is none of them answers without a
\* side effect, as a write of an unchanged value does.
PriorityAt(i) == Base["plic"] + 4 * i
EnableAt(c) == Base["plic"] + 8192 + 128 * c
ThresholdAt(c) == Base["plic"] + 2097152 + 4096 * c
ClaimAt(c) == Base["plic"] + 2097156 + 4096 * c

WriteAt(a) ==
    \/ \E c \in Contexts, id \in Ids : a = ClaimAt(c) /\ WriteClaim(c, id)
    \/ /\ \A c \in Contexts : a # ClaimAt(c)
       /\ WriteConfig
       /\ \A i \in Sources : a # PriorityAt(i) => priority'[i] = priority[i]
       /\ \A c \in Contexts :
             /\ a # EnableAt(c) => enable'[c] = enable[c]
             /\ a # ThresholdAt(c) => threshold'[c] = threshold[c]

ReadAt(a) ==
    \/ \E c \in Contexts : a = ClaimAt(c) /\ ReadClaim(c)
    \/ (\A c \in Contexts : a # ClaimAt(c)) /\ ReadOther

\* Faulty: b_ready low, a write response may wait
PlicSlowResponse ==
    /\ \/ Writes("plic") /\ WriteAt(req.addr)
       \/ ~Writes("plic") /\ NoWrite
    /\ \/ Reads("plic") /\ ReadAt(req.addr)
       \/ ~Reads("plic") /\ NoRead /\ ~rresp_valid_r'
    /\ Wires

\* b_ready and r_ready are tied high: a response lasts one cycle.
PlicBlock ==
    /\ \/ Writes("plic") /\ WriteAt(req.addr)
       \/ ~Writes("plic") /\ NoWrite /\ ~bresp_valid_r'
    /\ \/ Reads("plic") /\ ReadAt(req.addr)
       \/ ~Reads("plic") /\ NoRead /\ ~rresp_valid_r'
    /\ Wires

OtherDevices ==
    /\ ram_rvalid' = Requested("ram")
    /\ simctrl_rvalid' = Requested("simctrl")
    /\ clint_bresp' = Writes("clint")
    /\ clint_rresp' = Reads("clint")

(***************************************************************************)
(* The core.  An access that crosses a word is two requests, the second    *)
(* issued while the first is answered, in the same direction.              *)
(***************************************************************************)
\* Faulty: the next instruction's access is issued during the response
CoreEager ==
    IF req.valid /\ ~DataGnt THEN req' = req
    ELSE req' \in Requests \cup {NoReq}

Core ==
    \/ /\ req.valid /\ ~DataGnt
       /\ req' = req
    \/ /\ DataGnt /\ req.split /\ ~Pipelined
       /\ req' = Request(req.addr + 4, req.we, FALSE)
    \/ /\ DataGnt /\ ~req.split /\ ~Pipelined
       /\ req' = NoReq
    \/ /\ ~req.valid /\ ~Pipelined
       /\ req' \in (IF outstanding' = 0 THEN Requests ELSE {}) \cup {NoReq}
    \/ /\ DataGnt \/ ~req.valid
       /\ Pipelined
       /\ req' \in Requests \cup {NoReq}

Count == outstanding' = outstanding + (IF DataGnt THEN 1 ELSE 0)
                                    - (IF DataRvalid THEN 1 ELSE 0)

SocInit ==
    /\ Init
    /\ req = NoReq /\ outstanding = 0 /\ owed = {}
    /\ ram_rvalid = FALSE /\ simctrl_rvalid = FALSE
    /\ clint_bresp = FALSE /\ clint_rresp = FALSE
    /\ Pipelined \in BOOLEAN

SocNext ==
    /\ PlicBlock /\ OtherDevices
    /\ Count /\ Core
    /\ owed' = {d \in Devices : Gnt(d)}
    /\ UNCHANGED Pipelined

SocSpec == SocInit /\ [][SocNext]_socVars

(***************************************************************************)
(* Properties                                                              *)
(***************************************************************************)

SocTypeOK ==
    /\ TypeOK
    /\ req \in [valid : BOOLEAN, addr : Nat, we : BOOLEAN, split : BOOLEAN]
    /\ outstanding \in {0, 1}
    /\ owed \subseteq Devices
    /\ ram_rvalid \in BOOLEAN /\ simctrl_rvalid \in BOOLEAN
    /\ clint_bresp \in BOOLEAN /\ clint_rresp \in BOOLEAN
    /\ Pipelined \in BOOLEAN

\* ibex_mini_soc.sv:423-425 and 437-440: the multiplexer needs no memory,
\* because the one device that answers in a cycle is the one that was granted
\* at the last edge, and every grant is answered, whatever the host does.
AnsweredByGranted ==
    /\ Answering = owed
    /\ \A d, e \in owed : d = e
    /\ outstanding = 0 <=> owed = {}

\* obi_to_axi_lite.sv:95-96: a stalled cycle is one extra clock of wait.  A
\* request to a device is granted in its first cycle or in its second.
GrantedAfterOneWait ==
    [][(\E d \in Devices : Requested(d)) /\ ~DataGnt => DataGnt']_socVars

\* What every other model of the PLIC assumes of its bus: with a host that
\* waits for its responses, the block's two independent channels see one
\* transaction at a time, misaligned accesses included.
Behind == INSTANCE Plic WITH Serialized <- TRUE

PlicBehindBridge == [][~Pipelined => Behind!Next]_vars

\* So the claim / complete contract holds where it matters: for the software
\* of the core that waits, whatever it does to the other registers, with
\* misaligned accesses and on the other devices.
ContractOnTheBus ==
    Contract!Init /\ [][~Pipelined => Contract!Next]_(Contract!cvars)

\* And what that software is handed is live when it is handed it: enabled,
\* above the threshold, and asserted in the cycle before.
ClaimsOnTheBusAreLive ==
    [][\A c \in Contexts : ~Pipelined /\ ReadClaim(c) /\ claim[c] # 0 =>
          /\ claim[c] \in enable[c] \cap pending
          /\ priority[claim[c]] > threshold[c]]_vars
=============================================================================
