---------------------------- MODULE MCIbexAdapter ----------------------------
(***************************************************************************)
(* The CSRs of tests/rdl/mtrap_ibex.rdl with one interrupt line, and the   *)
(* wide fields cut down to the bits that this instance tells apart.        *)
(***************************************************************************)
EXTENDS IbexAdapter

Reg(address) == [address |-> address, priv |-> "m", trap_signal |-> "none"]

Field(reg, bits) ==
    [reg |-> reg, bits |-> bits, reset |-> {},
     sw_readable |-> TRUE, sw_writable |-> TRUE, hw_writable |-> FALSE,
     wpri |-> FALSE, warl |-> [kind |-> "none", legal |-> {}],
     save_on_trap |-> FALSE, restore_on_ret |-> FALSE, hw_mirror |-> FALSE,
     hw_increment_when |-> "none", hw_increment_high_of |-> 0,
     trap_signal |-> "none"]

Hw(field) == [field EXCEPT !.hw_writable = TRUE]
Mask(mask) == [kind |-> "mask", legal |-> {mask}]

\* mstatus, mtvec, mepc, mcause, mie, mip
MCRegs == <<Reg(768), Reg(773), Reg(833), Reg(834), Reg(772), Reg(836)>>

MCFields ==
    [mstatus_mie  |-> [Hw(Field(1, {3})) EXCEPT !.restore_on_ret = TRUE],
     mstatus_wpri |-> [Hw(Field(1, {8})) EXCEPT !.wpri = TRUE, !.sw_writable = FALSE],
     mstatus_mpie |-> [Hw(Field(1, {7})) EXCEPT !.save_on_trap = TRUE,
                                                !.restore_on_ret = TRUE],
     mstatus_mpp  |-> [Hw(Field(1, {11, 12})) EXCEPT !.save_on_trap = TRUE,
                           !.restore_on_ret = TRUE, !.warl = Mask({11, 12})],
     mtvec_base   |-> [Field(2, {7, 8}) EXCEPT !.warl = Mask({8})],
     mepc_epc     |-> [Hw(Field(3, {0, 1})) EXCEPT !.save_on_trap = TRUE,
                                                   !.warl = Mask({1})],
     mcause_cause |-> [Hw(Field(4, {31})) EXCEPT !.save_on_trap = TRUE],
     mie_mtie     |-> Field(5, {7}),
     mip_mtip     |-> [Hw(Field(6, {7})) EXCEPT !.sw_writable = FALSE, !.hw_mirror = TRUE]]

MCLines == {"timer"}
MCCause == [i \in MCLines |-> {31}]
MCSyncCauses == {{}}
MCPcs == {{}, {1}}
MCBootAddr == {0, 8}
NoPorts == {}

MCWData == {{}, {3, 7, 8}, {0, 1, 7, 11}}
=============================================================================
