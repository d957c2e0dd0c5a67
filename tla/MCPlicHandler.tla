---------------------------- MODULE MCPlicHandler ----------------------------
(***************************************************************************)
(* The configuration of multictx_isr.S in small: equal priorities, an      *)
(* enable for each context.  Sources 1 and 2 go to context 0, source 3 to  *)
(* context 1, which here also shares source 2.                             *)
(***************************************************************************)
EXTENDS PlicHandler

MCBootPriority == [i \in Sources |-> 1]
MCBootEnable == [c \in Contexts |-> IF c = 0 THEN {1, 2} ELSE {2, 3}]
MCBootThreshold == [c \in Contexts |-> 0]
=============================================================================
