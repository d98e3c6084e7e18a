-------------------------- MODULE MCClientManager --------------------------
(* Two casts of ClientManager: three readers with one writer, or a reader  *)
(* with two writers that contend for the writer lock.                      *)
EXTENDS ClientManager

CONSTANTS r1, r2, r3, w1, w2

VARIABLE cast  (* who calls in this behaviour                              *)

Casts == {{r1, r2, r3, w1}, {r1, w1, w2}}

MCInit == Init /\ cast \in Casts

MCNext ==
  /\ \/ \E r \in Readers \cap cast : ReaderStep(r)
     \/ \E w \in Writers \cap cast : WriterStep(w)
     \/ HpIoChanges
     \/ Shutdown
  /\ UNCHANGED cast

MCSpec == MCInit /\ [][MCNext]_<<vars, cast>> /\ Fairness
=============================================================================
