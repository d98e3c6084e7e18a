--------------------------- MODULE MCHpIoLifecycle ---------------------------
(* The standalone server with its callers kept apart, reconfigured to live *)
(* data and to a simulation; and the unified server, whose callers overlap *)
(* as in the code, with live data.                                         *)
EXTENDS HpIoLifecycle

CONSTANTS live, sim

MCSettings == {[unified |-> FALSE, serial |-> TRUE, configs |-> {live, sim}],
               [unified |-> TRUE, serial |-> FALSE, configs |-> {live}]}
=============================================================================
