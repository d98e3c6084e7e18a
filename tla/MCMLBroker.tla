----------------------------- MODULE MCMLBroker -----------------------------
(* Values of the function-valued constant of MLBroker: the first stream    *)
(* asks for everything, the second for a module with predictions 2 and 4,  *)
(* the alert subscriber for a threshold above the default.                 *)
EXTENDS MLBroker

CONSTANTS s1, s2, a1

MCMatching == [s \in {s1, s2, a1} |->
                 CASE s = s2 -> {2, 4} [] s = a1 -> {4} [] OTHER -> 1..NumPreds]
=============================================================================
