--------------------------- MODULE MCFrameStream ---------------------------
(* FrameStream with model values for TLC.                                  *)
EXTENDS FrameStream

CONSTANTS m1, m2

(* Everything, in the order in which the modules were found; one type of   *)
(* one module.                                                             *)
MCRequests == {[modules |-> <<>>, types |-> Types], [modules |-> <<m2>>, types |-> {"ph"}]}
=============================================================================
