------------------------------ MODULE MCSocBus ------------------------------
(***************************************************************************)
(* The memory map of ibex_mini_soc.sv; one source, one context, one word   *)
(* of every device, the PLIC's registers, and an address nobody decodes.   *)
(***************************************************************************)
EXTENDS SocBus

MCBase == [d \in Devices |-> CASE d = "ram"     -> 1048576
                               [] d = "simctrl" -> 131072
                               [] d = "clint"   -> 33554432
                               [] d = "plic"    -> 201326592]
MCSize == [d \in Devices |-> CASE d = "ram"     -> 1048576
                               [] d = "simctrl" -> 1024
                               [] d = "clint"   -> 65536
                               [] d = "plic"    -> 4194304]

Unmapped == 0

\* The last word of the RAM: the second half of a split access leaves it.
MCAddresses ==
    {Unmapped, MCBase["ram"] + MCSize["ram"] - 4, MCBase["simctrl"], MCBase["clint"],
     PriorityAt(1), EnableAt(0), ThresholdAt(0), ClaimAt(0)}

MCKinds == Kinds
=============================================================================
