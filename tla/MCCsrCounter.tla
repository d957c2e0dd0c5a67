---------------------------- MODULE MCCsrCounter ----------------------------
(***************************************************************************)
(* mcycle / mcycleh of tests/rdl/mtrap_ibex.rdl with Width-bit halves.     *)
(***************************************************************************)
EXTENDS CsrCounter

CONSTANT Width

Half_(reg) ==
    [reg |-> reg, bits |-> 0..(Width - 1), reset |-> {},
     sw_readable |-> TRUE, sw_writable |-> TRUE, hw_writable |-> FALSE,
     wpri |-> FALSE, warl |-> [kind |-> "none", legal |-> {}],
     save_on_trap |-> FALSE, restore_on_ret |-> FALSE, hw_mirror |-> FALSE,
     hw_increment_when |-> "none", hw_increment_high_of |-> 0,
     trap_signal |-> "none"]

MCRegs == << [address |-> 2816, priv |-> "m", trap_signal |-> "none"],
             [address |-> 2944, priv |-> "m", trap_signal |-> "none"] >>

MCFields ==
    [mcycle  |-> [Half_(1) EXCEPT !.hw_increment_when = "mcycle_en"],
     mcycleh |-> [Half_(2) EXCEPT !.hw_increment_high_of = 1]]

BothHalves == {"mcycle", "mcycleh"}
NoHalf == {}

\* Zero, one, all ones, and a value in between
MCWriteData == {{}, {0}, {1, 2}, 0..(Width - 1)}

ASSUME CounterPair
=============================================================================
