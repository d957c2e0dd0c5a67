----------------------------- MODULE WideCounter -----------------------------
(***************************************************************************)
(* What a counter split over two registers promises to software: the pair  *)
(* is one counter of twice the width.  In every cycle it counts or stays,  *)
(* and software may replace one half of the outcome.                       *)
(***************************************************************************)
EXTENDS Integers

CONSTANT Half       \* 2^w for halves of w bits

VARIABLE value

Low(v) == v % Half
High(v) == v \div Half

Counted(count) == IF count THEN (value + 1) % (Half * Half) ELSE value

\* What software stores in a cycle: nothing, or data into one half
NoLoad == [half |-> "none", data |-> 0]
Load(h, x) == [half |-> h, data |-> x]

\* The half that is not replaced takes what counting gives it: the low half
\* counts on under a write of the high one, and the high half takes the carry
\* even in the cycle in which software replaces the rollover that made it.
Step(count, load) ==
    LET v == Counted(count)
    IN value' = CASE load.half = "none" -> v
                  [] load.half = "low"  -> High(v) * Half + load.data
                  [] load.half = "high" -> load.data * Half + Low(v)
=============================================================================
