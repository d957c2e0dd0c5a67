------------------------------ MODULE MCCsrTop ------------------------------
(***************************************************************************)
(* A small CSR design with one field of every kind the emitters tell       *)
(* apart, after tests/rdl/mtrap_subset.rdl and tests/rdl/priv_override.rdl.*)
(***************************************************************************)
EXTENDS CsrTop

Reg(address, level, signal) ==
    [address |-> address, priv |-> level, trap_signal |-> signal]

Plain(reg, bits) ==
    [reg |-> reg, bits |-> bits, reset |-> {},
     sw_readable |-> TRUE, sw_writable |-> TRUE, hw_writable |-> FALSE,
     wpri |-> FALSE, warl |-> [kind |-> "none", legal |-> {}],
     save_on_trap |-> FALSE, restore_on_ret |-> FALSE, hw_mirror |-> FALSE,
     hw_increment_when |-> "none", hw_increment_high_of |-> 0,
     trap_signal |-> "none"]

Enum(legal) == [kind |-> "enum", legal |-> legal]
Mask(mask) == [kind |-> "mask", legal |-> {mask}]

MCRegs == <<
    Reg(768,  "m",    "none"),      \* mstatus
    Reg(833,  "none", "none"),      \* mepc
    Reg(836,  "m",    "none"),      \* mip
    Reg(384,  "none", "vm_flush"),  \* satp: S by its address
    Reg(2048, "s",    "none"),      \* U by its address, raised to S by its tag
    Reg(3072, "none", "none"),      \* the read-only space
    Reg(2816, "none", "none") >>    \* mcycle

MCFields ==
    [mie   |-> [Plain(1, {3}) EXCEPT !.hw_writable = TRUE, !.restore_on_ret = TRUE],
     mpp   |-> [Plain(1, {0, 1}) EXCEPT !.hw_writable = TRUE, !.save_on_trap = TRUE,
                   !.restore_on_ret = TRUE, !.warl = Enum({{}, {0, 1}})],
     epc   |-> [Plain(2, {0, 1}) EXCEPT !.hw_writable = TRUE, !.save_on_trap = TRUE,
                   !.warl = Mask({1})],
     mtip  |-> [Plain(3, {3}) EXCEPT !.sw_writable = FALSE, !.hw_writable = TRUE,
                   !.hw_mirror = TRUE],
     mode  |-> [Plain(4, {0, 1}) EXCEPT !.warl = Enum({{}, {1}})],
     wpri  |-> [Plain(4, {3}) EXCEPT !.wpri = TRUE],
     user  |-> [Plain(5, {0}) EXCEPT !.trap_signal = "user_write"],
     frozen |-> Plain(6, {0}),
     count |-> [Plain(7, {0}) EXCEPT !.hw_increment_when = "cycle_en"]]

MCWData == {{0, 1}, {1, 3}}

\* Two port values: everything low, and everything at its legal high
Low == [f \in HwFields |-> {}]
High == [f \in HwFields |-> IF f = "epc" THEN {1} ELSE Bits(f)]
MCPortVals == {Low, High}
=============================================================================
