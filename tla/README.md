# TLA+ models and proofs of rdl2arch-riscv

rdl2arch-riscv compiles SystemRDL descriptions, tagged with its own UDPs, to
hardware in the Arch language: a RISC-V CSR file with its access controller and
trap coordinator, a PLIC and a CLINT. The program itself is a sequence of
*scan, validate, emit*; the behaviour that is hard to get right is the behaviour
of the modules it emits. These models are therefore models of the **emitted
hardware**, parameterised by the scanned design exactly as the emitters are:
wherever an emitter unrolls a Python loop over sources, contexts, registers or
fields, a definition here has a quantifier over the same set. A theorem about a
model holds for every design the emitter accepts.

All paths below are relative to the repository; `emit_x.py` is
`src/rdl2arch_riscv/emit_x.py`.

- [1 Inventory](#1-inventory)
- [2 Modules and how they correspond to the code](#2-modules-and-how-they-correspond-to-the-code)
- [3 What the runs check](#3-what-the-runs-check)
- [4 What is proved](#4-what-is-proved)
- [5 Where the code and its documents disagree](#5-where-the-code-and-its-documents-disagree)
- [6 What is not modelled](#6-what-is-not-modelled)
- [7 Plan](#7-plan)

## 1 Inventory

| Component | Code | State it keeps | Operations | Correct when |
|---|---|---|---|---|
| PLIC logic | `emit_plic_logic.py` | in-service bitmap and delayed write pulse per context | arbitrate, latch a claim, clear a completion | a claim is exclusive until completed; a claim only hands out what the configuration allows; no candidate is lost |
| PLIC and CLINT scanners | `emit_plic_logic.py`, `emit_clint_logic.py` | the role buckets | sort registers by role, pair contexts, accept or reject | every context gets its own registers |
| MMIO register block | upstream rdl2arch; golden outputs under `tests/expected/` | one register per RDL field, response-valid flags, read and write pulses | one write and one read per edge, hardware drive | software write wins over the drive; one response per request |
| CLINT logic | `emit_clint_logic.py` | none of its own (mtime, mtimecmp, msip live in the register block) | count, compare | the two mtime registers are one counter; MTIP is a level |
| CSR file | `emit_csr_file.py` | every CSR field, one pulse register per trap signal | read, write, set, clear with WARL and WPRI; counters; hardware drive | WARL fields stay legal; changes are announced; counter halves carry |
| Access controller | `emit_access_controller.py` | none | grant or refuse a command | registers change only at their level, never in the read-only space |
| Trap coordinator | `emit_trap_coordinator.py` | none | choose save, restore, mirror or live value per field | the right source in each cycle |
| CSR scanner and validation | `scan_csrs.py`, `validate_csrs.py` | the design tables | build, accept or reject | what is accepted is what the emitters rely on |
| Integrated CSR top | `tests/sim/integrated_top.py` | none (wires) | connect the three CSR modules | grant and decode agree |
| OBI bridge | `tests/cpu/soc/obi_to_axi_lite.sv` | none (wires) | request, response | the block sees one transaction at a time |
| Ibex CSR adapter | `tests/cpu/soc/ibex_cs_registers_hybrid.sv` | privilege level; the rest is in the CSR file | boot, CSR instruction, trap, mret | the CSR file looks to Ibex like its own: mret undoes its trap, the handler finds its cause |
| SoC data bus | `tests/cpu/soc/ibex_mini_soc.sv` | the valid flags of RAM and simulator control | decode an address, grant, answer | exactly the granted device answers, nobody waits for ever |
| Interrupt programs | `tests/cpu/sw/*.S` | program variables | boot, trap, claim, complete, return | every interrupt is handled once and the program finishes |
| Exporters, package emitter, command line | `exporter.py`, `plic_exporter.py`, `clint_exporter.py`, `emit_csr_package.py`, `__main__.py` | files | name, compile, validate, write the outputs | nothing unvalidated looks finished; a finished run leaves whole files that fit together |
| UDPs | `udps/*.py` | none | declare and check RDL properties | a literal means what its documentation says |

**How they interact.** An RDL tree is scanned to tables, checked, and emitted. In
the emitted hardware the register block and the logic module share the cycle:
the block sends the logic `hwif_out` (all fields) and one-cycle pulses for
accesses to the claim registers; the logic drives `hwif_in` back. Both update
at the same edge from the values before it, and *inside* a register block the
software write is the last assignment, so it wins. On the SoC the CPU reaches the
blocks through the OBI bridge, one transaction at a time, and is reached by them
through level interrupt wires. The CSR file is driven by the pipeline: a command
gated by the access controller, and a drive for every hardware-writable field
chosen by the trap coordinator. In Ibex the adapter takes the place of that
pipeline: it collapses SET and CLEAR to WRITE, computes the ports of the trap
coordinator from the fields themselves, and leaves the access controller out.

**What is hard.**

- *Registers read one cycle late.* The PLIC's claim register holds the winner of
  the previous cycle, the completion travels through that same register, and the
  set and clear masks both decode it. Right after a claim, after a completion,
  and after a change of the configuration it is stale in three different ways.
- *The wire and the register disagree.* `intr_out` is combinational, the ID the
  handler reads is registered.
- *Two writers of one register in one cycle.* Hardware drive, counter increment
  and software write are resolved by assignment order, per field.
- *Two registers that are one number.* mtime, mtimecmp and the counters are
  split; a carry can meet a write of either half.
- *Two decoders that have to agree.* The access controller grants by address and
  tag, the CSR file decodes again by address.
- *Arithmetic on literals.* WARL, all-ones masks and carries are computed by the
  generator as text.
- *State nobody keeps.* Neither the bridges nor the response multiplexer remember
  the transaction in flight; that responses are not mixed up rests on the timing of
  four devices and on the core waiting for its answers.
- *A stack one deep.* MIE and the privilege survive a trap in MPIE and MPP, through
  three different ports of the trap coordinator.
- *Half-written directories.* The register block is on disk before the interrupt
  controllers are validated, and a file is empty between its opening and its close.
- *Liveness.* A bit left in the in-service bitmap masks a source for ever.

`PROJECT.json` lists each hazard at the line where it bites and the properties
that would notice it.

## 2 Modules and how they correspond to the code

One step of every model is one rising clock edge. Registers are variables; wires
nobody stores are state functions. A register bitmap or a CSR value is the set of
its one bits, so a slice is an intersection, SET a union and CLEAR a difference.

### PLIC

| Module | Models |
|---|---|
| `Plic` | the PLIC logic and its register block, any software, any devices |
| `PlicContract` | what a context is promised: claim, complete, nothing else |
| `PlicArbiter` | the arbitration cascade as the emitter unrolls it |
| `PlicHandler` | the PLIC with `multictx_isr.S` on the CPU behind the bridge |
| `SocBus` | the SoC's data bus: the core, the decoder, four devices, the multiplexer, and the whole PLIC behind its bridge |
| `MCPlic`, `MCPlicHandler`, `MCSocBus` | instances |
| `Plic_proofs`, `PlicHandler_proofs`, `SocBus_proofs` | theorems |

`Plic!Next` is the conjunction of four parts that happen in every cycle: the
write channel (nothing, a configuration register, or a claim register), the read
channel (nothing, another register, or a claim register), the bridge's
restriction, and the wires. The variables carry the emitted names:
`claim[c]` is `claim_<ctx>_r`, `claimed[c]` is `c<ctx>_claimed_r`, `wr_pulse_d[c]`
is `c<ctx>_wr_pulse_d`, and so on. `answer` is `rdata_r` of the last read of each
claim register; keeping one per context loses nothing, because a read of another
register is never looked at.

`Serialized` says which host is attached. TRUE is the OBI bridge: it holds one
transaction, so a read and a write are never outstanding together and a response
is taken in the cycle it arrives (`obi_to_axi_lite.sv:79-107`). FALSE is the bare
AXI4-Lite port, whose channels are independent and whose host may leave a
response waiting. `SwKinds` names the kinds of register software writes in an
instance; all of them, except where the configuration is fixed.

`PlicContract` speaks of `service[c]`, the sources context `c` has to complete.
The refinement maps it to `InService(c)`: the in-service bitmap without the bit
that a completion accepted at the last edge is about to clear. A completion thus
takes effect at the write, where software thinks it does, and not one edge later
where the bitmap changes; the delay is what the refinement has to absorb.

`PlicHandler` replaces the arbitrary host by the program. Its CPU traps on the
lowest enabled context whose wire is high (Ibex takes `irq_external` before
`irq_fast`), loads the claim register, stores the response, writes it back
*whatever it was*, disables its own interrupt, and returns; `Work` is a cycle of
other instructions. Two rigid variables choose the environment once, in the
initial state: `HoldLevels` (devices keep their line up until claimed, or not)
and `OneShot` (the program's handlers, or handlers that stay enabled).

`PlicArbiter` holds the cascade as the emitter unrolls it, stage by stage, as a
recursive function. `CascadePicksBest` compares it with `Winner` in every
reachable state.

`SocBus` is where `Serialized` comes from. It contains `Plic` with its two
channels *independent* and puts in front of it what the SoC has: the core's
load / store unit (an access that crosses a word is two requests, the second
issued while the first is answered), the address decoder, the stateless bridges
with `b_ready` and `r_ready` tied high, the RAM, the simulator control and the
CLINT block with their response flags, and the response multiplexer.
`SocNext` is one clock edge; `req` is what the core drives in the cycle, and the
wires `Sel`, `Gnt`, `DataGnt`, `Answering` are state functions. `owed` is a
history variable: the devices granted at the last edge. `Pipelined` is chosen
once: FALSE is the core, which has one access outstanding; TRUE is any host of
the bus, which does not wait, and shows which properties do not need the wait.
A request to an address of the PLIC that is no register of the model is an
ordinary write of unchanged values, or a read of another register.
`Behind` is the same `Plic` with `Serialized = TRUE`; `Contract` is `Plic`'s
refinement mapping, seen from the bus.

### CLINT

| Module | Models |
|---|---|
| `WideCounter` | what a counter in two registers promises, in one cycle |
| `Clint` | the CLINT logic and its register block, any software |
| `TimerIsr` | the CLINT with `timer_isr.S` on the CPU |
| `Clint_proofs` | theorems |

`Clint!WriteBeat(tick, w)` is an edge with or without a count and with or without
a software write; `ReadBeat` is the independent read channel. A 32-bit register is
a number below `Half`. `TimerIsr` adds the program instruction by instruction:
the address materialisation is left out, a load waits for its response, and the
32-bit wrap of `addi` is kept.

### CSR

| Module | Models |
|---|---|
| `CsrDesign` | the scanned tables, WARL, counter links, what validation accepts |
| `CsrFile` | one edge of the CSR file and its read path |
| `CsrTop` | access controller, trap coordinator and CSR file wired together |
| `CsrCounter` | a counter pair of the CSR file against `WideCounter` |
| `IbexAdapter` | the CSR file and the trap coordinator inside Ibex |
| `MCCsrTop`, `MCCsrCounter`, `MCIbexAdapter` | instances |
| `Csr_proofs`, `IbexAdapter_proofs` | theorems |

`CsrCounter` reads a field as a number with `Number`, from its highest bit down.
That its two fields are the halves of one counter (`CounterPair`: the tags, equal
widths, different addresses) is a premise of what is said about them, not an
assumption about every design; `MCCsrCounter` assumes it of its instance.

The constants `R` (registers, in declaration order) and `F` (fields) are the
tables of `scan_csrs.py`. `DesignAccepted` is what `validate_csrs.py` checks,
together with what RDL elaboration guarantees: fields inside their register and
disjoint, resets inside the field, a non-empty enum. It deliberately does **not**
say what validation does not check; in particular two registers may share an
address, and then reads take the first, writes go to both and the grant takes the
first tag, as in the code.

`CsrFile!Edge` is the whole `seq` block: for each field the software write if there
is one, else the increment, else the hardware drive, else the old value; and one
pulse per trap signal. `CsrTop!TopNext` is the pipeline: an instruction (or none),
a trap or a return in every cycle, with arbitrary values from `PortVals` on the
ports of the trap coordinator, the hold loop the adapter uses, and any set of
counter enables. A command never shares a cycle with a trap or a return: an
exception squashes the instruction that raised it.

`IbexAdapter` replaces that free pipeline by the adapter and the core. Its actions
are `Boot` (the replayed write of mtvec), `CsrInstruction` (SET and CLEAR
collapsed), `OtherInstruction`, `Exception`, `Interrupt(i)` and `Mret`; each is
one edge of the whole CSR file, with the ports `Save`, `Restore`, `Mirror` and
`Live` computed from the fields as the adapter does. In every cycle the interrupt
wires change freely. The core takes an interrupt on the *wires* (`irqs_o`) while
mip shows those of the cycle before. Two history variables serve the properties:
`entry`, the MIE and privilege at the last trap, forgotten when software writes
mstatus or returns; and `handling`, the line whose interrupt is being handled,
forgotten when the line falls. The access controller is not there (`granted` is
tied high), so CSR instructions are those of M-mode. What the adapter relies on
in `tests/rdl/mtrap_ibex.rdl` are the named assumptions `AdapterConstants`,
`AdapterTable`, `StatusTable` and `PendingTable`.

### Exporters

| Module | Models |
|---|---|
| `IntrScan` | `scan_plic`, `scan_clint`, the role tags and the checks |
| `CsrPackage` | the members of the two hardware structs, as four emitters see them |
| `Exporter` | the three exporters and the command line: names, order of the steps, files |
| `MCExporter` | the designs of the instance |
| `Exporter_proofs` | theorems |

The state of `Exporter` is the output directory, a function from file names to
contents, and one run at a time: `Start`, `Compile`, `Prepare` (CSR: scan,
validate and emit everything), `EmitLogic` (PLIC and CLINT: scan, validate and
emit after the block is on disk), `Open`, `Write`, `Return`, and `Fail`, an
exception or a kill at any point. A content is a role and a design, or *torn*.
Names are sequences of words, so that the default names, the sibling names and
the user's choices can collide exactly where the program's do; a dictionary
literal with a repeated key keeps the place of the first and the value of the
last. Runs follow one another in one directory, each with any design.

`IntrScan` orders registers as the scanners do: enables, thresholds and claims by
address, each kind on its own, and a context is the i-th of each. Python's stable
sort is given by what it returns: place `c` of `Sorted` is the register with
exactly `c - 1` registers before it, by key and, for equal keys, by declaration.

### Faulty variants

Next to a definition there may be a second one, commented *Faulty*, which is the
same definition with a plausible mistake in it: a term dropped, a carry lost, a
slice forgotten. No specification uses them. `PROJECT.json` lists, for each
checked property, a definition and the faulty form that makes the property fail;
that the property fails then shows it is about the code.

## 3 What the runs check

| Run | Configuration | Question | Size |
|---|---|---|---|
| `plic_bridge` | 1 context, 2 sources, 3 priorities, bridge, software writes everything | does the cascade pick the best candidate, are claims exclusive and fresh, is the contract kept? | 153,628 states |
| `plic_handler` | 2 contexts that share one of 3 sources, all four environments | do the handlers work, on every interleaving with the devices? | 19,688 states |
| `soc_bus` | 1 source, 1 context, 8 addresses, split accesses, a host that waits and one that does not | are responses those of the granted device, does the PLIC see one transaction at a time, and does its contract hold for the core's software? | 47,908 states |
| `clint` | halves of 4 values, every register written | is mtime one counter, is MTIP a level? | 4,451 states |
| `timer_isr` | halves of 16, delay 9 | is the trap never early, always seen, and does the program finish? | 249,007 states |
| `csr_top` | 7 registers, 9 fields, one of every kind | WARL, privilege, announcements | 640 states, many transitions each |
| `csr_counter` | 4-bit halves | are the halves one counter? | 256 states |
| `ibex_adapter` | the fields of mtrap_ibex.rdl cut to few bits, one interrupt line | does mret undo its trap, does the handler find its cause, is the collapse of SET and CLEAR exact? | 2,305 states, many transitions each |
| `exporter` | 13 designs, 3 names for module and package | what is in the directory after any sequence of runs? | 163,832 states |
| `plic_phantom`, `csr_warl`, `csr_counter_odd_width` | instances of the above | the three disagreements of section 5 | |

**PLIC.** `StaleClaimGuarded` is the reason the controller works at all: after a
claim the register still shows the ID for two cycles, and what keeps a second read
from getting it is only that the read response is outstanding. `NoDoubleClaim` is
the consequence. `ClaimsOnlyLiveSources` says the same of the
writes of the configuration: behind the bridge, a claim never returns a source the
configuration in force masks. `ImplementsContract` is the refinement.
`NothingLeftInService` and the two liveness properties relate handler and
controller: no handler leaves a source masked, a source that stays up is served
again and again once what outranks it is quiet, and the program reaches its end.
`NoSpuriousClaim` has one premise, found by checking without it: devices hold
their lines until their source is in service. Contexts may share sources: the
in-service bitmap is per context, so a source claimed on one context is still
offered on the other, and a line that is held until *some* context has claimed it
could fall under the other's handler. On one CPU it cannot: while a handler is
between its trap and its read, no other context has anything in service.

**SoC bus.** `AnsweredByGranted` is why a multiplexer without memory works: every
device answers exactly one cycle after its grant, so that the one that answers is
the one granted at the last edge, for the waiting core and for a pipelined host
alike. `GrantedAfterOneWait` bounds the stall: a block is busy for one cycle only,
its own response. `PlicBehindBridge` states that every step of the SoC with the
waiting core is a step of `Plic` with `Serialized = TRUE`, which is the discipline
every other PLIC model assumes. The second half of a misaligned access is
requested while the first is answered; that it has the same direction is what
keeps a read and a write apart. `ContractOnTheBus` and `ClaimsOnTheBusAreLive` are
what this buys: the claim / complete contract and the freshness of claims, which
fail on the bare port (`plic_phantom`), hold for whatever software the core
runs on the whole bus. Their premise `~Pipelined` is the core that waits.

**CLINT.** `MtimeIsWideCounter` compares each edge with the wide counter under the
same count and load. `MtipHeld` says that nothing but software or the wrap of the
whole timer lowers MTIP; the handler, which looks at `mip` some time after the
trap, depends on it (`MtipSeenInHandler`, the assertion of the cocotb test).
`NoEarlyTrap` has the premise that the deadline fits in one word, because the
program ignores `mtime_hi`; without the premise the trap may be early, which is
the program's choice, not the CLINT's.

**CSR.** `WarlAlwaysLegal` quantifies over every mixture of software operations
and drives; its premise is that the ports carry legal values, since the hardware
drive is not legalised. It excepts counters, whose increment bypasses WARL.
`PrivilegeProtects` crosses the two decoders, with the premise that no two
registers share an address. `ChangesAnnounced` works both ways: no silent change
of a signalled field, no pulse without a privileged write.
`ImplementsWideCounter` and `Clint!MtimeIsWideCounter` share one specification; it
records one detail worth knowing: when software replaces the low half in the very
cycle it rolls over, the high half takes the carry all the same
(`emit_csr_file.py:230-233` and the register block agree on that).

**Ibex adapter.** `AdapterTypeOK` says more than types: every stored value is one
its WARL tag allows, so the ports of this adapter satisfy the premise of
`WarlAlwaysLegal`. `MretUndoesTrap` and `NoNestedInterrupt` hold over handlers of
any length, with CSR instructions and exceptions in them; only a write of mstatus
ends their premise. `CauseVisibleInMip` crosses the lag between the wires and
mip: the edge that takes the trap is the edge that stores the wire.
`CollapseIsExact` compares the collapsed command with the original, through the
read path, WARL and read-only bits, for every stored value; it needs fields that
are writable to be readable, which the table guarantees.

**Exporters.** `NothingUnvalidated` and `RejectionTouchesBlockOnly` together say
what a rejection leaves: a rejected CSR design leaves nothing, a rejected PLIC or
CLINT design leaves the new register block, and possibly the old logic module
next to it. `ReturnedFilesWhole` says that a run that returns heals whatever an
earlier one left half-written. `ReturnedInterfacesFit` reads the four files back
from the directory and compares the struct members that each of them declares,
reads or drives. `ContextsPaired` says that for any order of declaration an
accepted PLIC's contexts get the registers of one context each, provided each
context has all three: validation compares only the three counts.

**Bounds.** Priorities and thresholds have three values, enough for below, equal
and above at once; two sources give every tie and inversion. More sources add
stages to the cascade but no new case for one stage, and `CascadeIsOrder` proves
the rest. One context suffices in `plic_bridge` and `soc_bus`, because the logic of
a context reads nothing of another's but the shared response flags; the proofs of
section 4 are for any set of contexts, and `plic_handler` runs two. The addresses
of `soc_bus` are one per device, every kind of PLIC register, an address that no
device decodes, and the last word of the RAM, whose second half leaves it. Halves
of 4 and 16 values contain every carry, both wraps and a delay that crosses a
carry; the delay of 9 is longer than the shortest way from the read of the time to
the enabled trap, so that an early interrupt would be taken early. In `csr_top` two
words of write data and two values per port reach every value of the 2-bit
fields, including the unlisted ones requested through SET and CLEAR.
`csr_counter` uses 4-bit halves because the carry literal is only right for whole
hexadecimal digits; 4 is the smallest such width. In `ibex_adapter` every field
keeps the bits its ports tell apart, and the three words of write data clear, set
and mix the bits of each register; one line is enough because lines only meet in
the choice of the core, which is free. The designs of `exporter` are, for each
exporter, accepted ones that differ in what they declare and one for each way to
be rejected; of the three names one collides with a sibling file.

**Fairness.** Every model's clock runs by itself. `plic_handler` assumes weak
fairness of the program's steps: an instruction whose operands have arrived
retires, and a trap that *stays* pending is taken. Nothing is assumed of the
devices or of how many cycles lie between two steps. The response of the register
block arrives because the bridge keeps `b_ready` and `r_ready` high. `timer_isr`
assumes the same of its program, and that the clock ticks: the SoC ties
`mtime_tick` high. Its time stops one tick before mtime wraps, standing for
2^64 cycles; without that the loop of a small instance would wrap mtime every few
steps, which the hardware does not. The other models need no fairness: what they
promise about waiting is a number of cycles (`GrantedAfterOneWait`).

Deadlock is checked in every run.

## 4 What is proved

The theorems are in `Plic_proofs`, `PlicHandler_proofs`, `SocBus_proofs`,
`Clint_proofs`, `Csr_proofs`, `IbexAdapter_proofs` and `Exporter_proofs`.
`NatFacts` holds the lemmas they share: a non-empty set of naturals has a least
element (`NatMinimum`), and a number below H^2 is a pair of numbers below H
(`HalvesOf`, `PairOf`, `HalvesOfPair`, for any H above 1).

| Theorem | States | For |
|---|---|---|
| `TypeCorrect` | `Spec => []TypeOK` | any PLIC |
| `CascadeIsOrder` | `Spec => []CascadePicksBest` | any PLIC: any number of stages |
| `NoCandidateIsLost` | `Spec => []NoCandidateLost` | any PLIC |
| `StaleClaimsAreGuarded` | `Spec => []StaleClaimGuarded` | any PLIC, with or without the bridge |
| `DoubleClaimImpossible` | `Spec => NoDoubleClaim` | any PLIC, with or without the bridge |
| `ReadableClaimsAreLive` | `Spec => []ReadableClaimIsLive` | the premise `Serialized` is in the property |
| `ClaimsAreLive` | `Spec => ClaimsOnlyLiveSources` | the same |
| `Refinement` | `Spec => ImplementsContract` | any PLIC behind the bridge |
| `HandlerTypeCorrect` | `HSpec => []HTypeOK` | any number of sources and contexts, any boot configuration |
| `NothingIsLeftInService` | `HSpec => []NothingLeftInService` | the same |
| `NoClaimIsSpurious` | `HSpec => []NoSpuriousClaim` | the same, shared sources included |
| `HandlersGetContract` | `HSpec => ImplementsContract /\ NoDoubleClaim /\ ClaimsOnlyLiveSources` | the same: the handlers on the CPU are one of the hosts behind the bridge |
| `HandlersNeverWait` | `HSpec => []NeverWaits` | the same |
| `NoTrapIsWithdrawn` | `HSpec => PendingTrapStays` | the same; devices that hold their lines |
| `SocImplementsPlic` | `SocSpec => Spec` | any map of disjoint regions, any host: the theorems about `Spec` hold of the SoC |
| `SocTypeCorrect` | `SocSpec => []SocTypeOK` | the same |
| `ResponsesMatchGrants` | `SocSpec => []AnsweredByGranted` | the same |
| `StallsLastOneCycle` | `SocSpec => GrantedAfterOneWait` | the same |
| `BridgeSerializes` | `SocSpec => PlicBehindBridge` | the same, for the core that waits |
| `SocKeepsContract` | `SocSpec => ContractOnTheBus` | the same |
| `SocClaimsAreLive` | `SocSpec => ClaimsOnTheBusAreLive` | the same |
| `SocNoDoubleClaim` | `SocSpec => NoDoubleClaim` | the same, for any host |
| `ClintTypeCorrect` | `ClintSpec => []ClintTypeOK` | halves of any size |
| `MtimeIsWide` | `ClintSpec => MtimeIsWideCounter` | the same |
| `MtipIsHeld` | `ClintSpec => MtipHeld` | the same |
| `TrapIsNotEarly` | `TimerSpec => []NoEarlyTrap` | halves of any size, any delay |
| `HandlerSeesMtip` | `TimerSpec => []MtipSeenInHandler` | the same |
| `ArmedInterruptIsHeld` | `TimerSpec => RaisedStaysRaised` | the same |
| `TopTypeCorrect` | `TopSpec => []TopTypeOK` | every accepted CSR design |
| `WarlFieldsStayLegal` | `TopSpec => []WarlAlwaysLegal` | every accepted design whose ports are legal |
| `PrivilegeIsProtected` | `TopSpec => PrivilegeProtects` | every accepted design without shared addresses |
| `ChangesAreAnnounced` | `TopSpec => ChangesAnnounced` | every accepted design; the backward half without shared addresses |
| `CountersAreWide` | `CounterSpec => ImplementsWideCounter` | every accepted design, any counter pair whose width is a multiple of four |
| `AdapterTypeCorrect` | `AdapterSpec => []AdapterTypeOK` | any lines, any table with the tags of mtrap_ibex.rdl |
| `CauseIsVisible` | `AdapterSpec => []CauseVisibleInMip` | the same |
| `MretIsExact` | `AdapterSpec => MretUndoesTrap` | the same |
| `InterruptsDoNotNest` | `AdapterSpec => NoNestedInterrupt` | the same |
| `CollapseExact` | `AdapterSpec => []CollapseIsExact` | the same |
| `ExpTypeCorrect` | `ExpSpec => []ExpTypeOK` | any designs and names |
| `NothingUnvalidatedEver` | `ExpSpec => []NothingUnvalidated` | the same |
| `RejectionIsClean` | `ExpSpec => []RejectionTouchesBlockOnly` | the same |
| `ReturnMeansWhole` | `ExpSpec => []ReturnedFilesWhole` | the same |
| `FilesFitTogether` | `ExpSpec => []ReturnedInterfacesFit` | the same; CSR designs with a register |
| `ContextsWired` | `ExpSpec => []ContextsPaired` | the same; PLICs with one register of each kind per context |

**The PLIC argument.** `StaleClaimGuarded` is not inductive by itself. A claim
register's content is the arbiter's winner of the previous cycle *or* the ID
software wrote, and which of the two has to be known in the step. The inductive
invariant is

    IInv == TypeOK /\ StaleClaimGuarded /\ PulseHasResponse /\ ClaimIsWinnerOrWritten

where `PulseHasResponse` ties the delayed pulse to the outstanding write response
and `ClaimIsWinnerOrWritten` says an ID outside the sources is there only while
that pulse is set. Two lemmas carry the step: `ClaimDrive` (what an edge may put
in a claim register) and `ClaimedGrowth` (a bit appears in the bitmap only
through a read of the stored claim in this very cycle). If the stored claim is
then in the bitmap, it was the winner, so it was not in the bitmap before, so
it was read just now, so the response is outstanding. `NoDoubleClaim` follows
since a claim read needs the response flag low. The refinement has one step per
combination of the two channels: `QuietEdge`, `CompletionStep` and `ClaimStep`
show that an edge without an access of a claim register stutters, even while it
clears a bit, and that the others are the steps of the contract. Each of these
lemmas assumes what it needs of the *step* (`ReadsAlone`: no read starts while a
write is in flight) rather than the whole specification, so that `SocBus_proofs`
can use them too. That a claim is live (`LiveClaim`) has the same form.

**The cascade.** `StageStep` shows that one stage turns the best of the first
`i - 1` sources into the best of the first `i`. The cascade is a recursive
function, and a recursive function is a CHOOSE: `CascadeExists` supplies a
function with its equations (the best of each prefix), so that the chosen one
satisfies them too; `StagesAreBest` then says that every stage of it is the best of
its prefix, since the smallest stage that is not would contradict `StageStep`.

**The handler argument.** `HInv` ties everything to the place of the program:
what is outstanding on the bus (`BusFollowsPc`), what is in service
(`ServiceFollowsPc`), and, for devices that hold their lines, that from the trap to
the read the context keeps a winner (`WinnerAwaits`). The last one is where the
arbiter's wire and the registered claim meet: the trap is taken on a candidate,
the claim register shows a winner from the next edge on, and no candidate is
lost until the read, because nothing is in service anywhere.
`NeverWaits` and `PendingTrapStays` are what remains of the liveness properties
when fairness is taken away: a handler finds the bus ready at each of its four
accesses, and a trap that could be taken stays possible until one is taken. What
TLC adds is that a fair CPU then gets there.

**The bus argument.** `SocInv == SocTypeOK /\ AnsweredByGranted /\ HalvesAgree /\
OneResponse`. The bound on the core's counter and the match of answers and grants
keep each other. `HalvesAgree` says that a response and the second half of a
misaligned access go in one direction; with it no edge of the waiting core starts a
read while a write response is there (`OneAtATime`), which is the discipline
`Serialized`. The whole bus does not satisfy `Plic`'s specification with
`Serialized = TRUE`, since the host may be a pipelined one; the contract is
therefore proved step by step: `ContractStep` and `LiveClaim` from `OneAtATime` and
the invariant of `Plic`, which holds of every host.

**The timer argument.** `TimerInv` says which value each register of the program
and of the comparator holds at each place, relative to the time that was read.
The arithmetic of two halves is that of `NatFacts`. `RaisedStaysRaised` needs the
invariant: from the arming store on the program stores nothing more to the block,
so that MTIP could only fall by a wrap of the time, which is out of its reach.

**The CSR argument.** `StepIsEdge` reduces every action to `CsrFile!Edge` with
a drive that is legal if the ports are; `EdgeType` and `EdgeLegal` then go through
the four sources of a field's next value. `MinPrivIsLevel` shows that, when
addresses are distinct, the level the access controller computes by address is the
level of the register the CSR file writes, which is the heart of
`PrivilegeIsProtected`.

**The counter argument.** `Increment` sets the lowest zero of a field and clears what is
below it. `IncrementCounts` shows that this adds one, or wraps to zero from all
ones. `Number` is a recursive function, so nothing can be said of it by induction; as for the cascade, `UpperExists` and `NumberReads` give it its
equations, and a property of every bit position follows because the least
position that lacks it would contradict the step. The carry is the second half:
the literal the emitter writes has one digit per four bits, so it is *all ones*
exactly when the width is a multiple of four, and then the carry is the rollover
(`PairCounts`); without that premise the statement is false (section 5).
`HalvesAfter` combines the two with the priorities of write and increment.

**The adapter argument.** `AdapterInv == AdapterTypeOK /\ Stacked /\ Mirrored`.
`Stacked` is the one-deep stack: while `entry` is live, MIE is down, the core is in
M-mode, and MPIE and MPP hold what it had. `Mirrored` says the line being handled
is in mip. `EdgeValue` and `StatusValue` reduce an edge to what it leaves in one
field; `ReadsBack` says that software reads the stored value of a field among its
bits, from which the exactness of the collapsed operations follows.

**The exporter argument.** `ExpInv` says of every file in the directory that a
whole CSR file or logic module belongs to an accepted design (`DiskSound`), of
the files still to be written that they are the run's own (`TodoInv`), that
until validation only the block is touched (`BlockOnly`), and of every promised
file that it is done or still to be written (`Progress`). `InsertFacts` handles
the dictionary with repeated names. `FilesFitTogether` is then a fact about the
emitters: the files of the run are those of one accepted design, and the four
emitters enumerate the same fields of it. `ContextsWired` rests on the sorts:
`n` registers of one kind that belong to `n` different contexts are ordered by
address as their contexts are, so the i-th of each kind is the i-th context's.

**Assumptions.** Each is a named ASSUME on constants in the module that declares
them, evaluated in every run that extends it: `PlicConstants`
(sizes; claim fields wide enough, `emit_plic_logic.py:123-159`), `BootConstants`,
`SocConstants` (disjoint regions), `ClintConstants`, `DelayInRange`,
`DesignAccepted` (validation and elaboration), `TopConstants` (port widths),
`CounterConstants`, `AdapterConstants`, `AdapterTable`, `StatusTable` and
`PendingTable` (the tags of mtrap_ibex.rdl), `ExporterConstants`.

`CounterPair` and the width in `CountersAreWide` are
hypotheses of that theorem, not assumptions on the constants.

**Only model-checked.** The liveness properties, since the prover does not handle
fairness: `PersistentSourceServed`, `ProgramFinishes`, `TimerProgramFinishes`. Every
invariant and every other action property of a passing run is proved. The
violations of section 5 are counterexamples and need no proof.

**Only proved.** `ReadableClaimIsLive` (the state form of `ClaimsOnlyLiveSources`),
`NeverWaits`, `PendingTrapStays` and `RaisedStaysRaised` are theorems that no run
repeats; the first is stated in `Plic`, the others next to their proofs.

## 5 Where the code and its documents disagree

1. *A claim read right after a completion latches nothing*
   (run `plic_phantom`, `emit_plic_logic.py:305`). The header says a read of the
   claim register latches the source it returns. Without the bridge a read can be
   accepted in the cycle after a completion of the same context; it returns the
   ID software just wrote, and in the same cycle the clear mask, decoded from the
   same register, cancels the set. The handler has an ID that is not in service.
   Behind the bridge the two are never that close.
2. *Enumerated WARL fields do not round down* (run `csr_warl`,
   `emit_csr_file.py:126`). The header and `udps/warl.py` promise the largest
   listed value not above the request; the emitted match stores the smallest
   listed value for every unlisted request.
3. *Carry of counters of odd widths* (run `csr_counter_odd_width`,
   `emit_csr_file.py:251`). The all-ones literal has one hexadecimal digit per four
   whole bits of width, so for a 5-bit half the carry comes at 15. Validation
   accepts any width as long as both halves agree; the designs of the repository use
   32.

Observed while modelling, each without a run of its own:

- The read data of an illegal access is the register (`emit_csr_file.py:323`),
  where the header (`emit_csr_file.py:20-22`) says it comes from the default arm.
- Validation accepts duplicate CSR addresses, `restore_on_ret` on a field hardware
  cannot write, WARL on counters, and resets that are not legal. An unmapped CSR
  address is granted and reads 0. SET and CLEAR with a zero operand still raise
  trap signals and suppress the increment of a counter.
- `riscv_warl = "0x0,0x3"`, an enumeration that starts with a hexadecimal literal,
  is refused by the UDP's `validate` although `parse_warl` reads it.
  `riscv_priv` on a field is scanned and not used.
- Flat struct members are named register_field, so different registers and fields
  can collide in one name; only the generated Arch code would notice.
- A package name equal to the module's or to a sibling's name makes two of the four
  CSR files one (`exporter.py:39`); the exporter returns without a word. This is the
  exception in `ReturnedFilesWhole`.
- The contexts of a PLIC are paired by the order of three sorts; equal numbers of
  enables, thresholds and claims that belong to different contexts are accepted.
  This is the premise of `ContextsPaired`.
- A load or store to an address that no device of the SoC decodes is never granted
  and the core waits for ever; `soc_bus` reaches that state.
- The register blocks ignore the write strobes: a narrow store writes the whole
  register, and a misaligned access of a threshold goes on to touch the claim
  register of the same context.
- In `mtrap_ibex.rdl` mstatus.mpp has the mask 0x3, so that software can store 1 or
  2, which mret makes the privilege level; dcsr.prv next to it is an enumeration of
  0 and 3.
- The comments of `ibex_cs_registers_hybrid.sv:49-51` describe mret as folded into
  the live drive, where the ports of the trap coordinator at 2119-2124 do it.

## 6 What is not modelled

- *RDL elaboration, identifier naming, text layout, synthesis.* No behaviour of the
  emitted hardware depends on them beyond the tables.
- *The Ibex core.* The programs' instructions appear in program order with any
  number of cycles between them; the pipelines of `CsrTop` and `IbexAdapter` are as
  free as the interfaces allow.
- *The rest of the Ibex adapter.* Debug mode (never entered in this SoC), the debug
  CSRs, mtval and mscratch, which only store, and the counters, whose pairs are
  `CsrCounter` with any enables; PMP and the CSRs that stay with Ibex.
- *Data of the RAM and of the simulator control, byte enables, response errors.* No
  property of the bus is about them.
- *The other interrupt programs and the benches:* single schedules of what
  `PlicHandler`, `TimerIsr`, `CsrTop` and `IbexAdapter` run on all schedules.
- *mcause, mepc bookkeeping in the programs:* it decides nothing the properties
  see; the handler entered is the one whose context was taken.
- *A reader of the 64-bit time:* no program of the repository reads mtime_hi.

## 7 Plan

Done: every module of section 2 and the proofs of section 4. What is left, in the
order in which it would add most:

1. `SocBus` with the program of `PlicHandler` as its core and a second bus master,
   should the SoC get one; today the composition is by the two theorems
   `SocImplementsPlic` and `BridgeSerializes`.
2. Debug entry and dret in `IbexAdapter`, once the SoC enables debug mode:
   `trap_enter` is then raised for a debug entry too.
