----------------------------- MODULE ReaderPool -----------------------------
(***************************************************************************)
(* What get_reader_access promises its callers: at most Capacity clients   *)
(* are inside at a time, a client comes in only while the server is open,  *)
(* and after shutdown has been signalled nobody comes in again.            *)
(***************************************************************************)
EXTENDS Naturals, FiniteSets

CONSTANTS Clients, Capacity

VARIABLES inside, closed

Init == inside = {} /\ closed = FALSE

Enter(c) ==
  /\ ~closed
  /\ c \notin inside
  /\ Cardinality(inside) < Capacity
  /\ inside' = inside \cup {c}
  /\ UNCHANGED closed

Exit(c) ==
  /\ c \in inside
  /\ inside' = inside \ {c}
  /\ UNCHANGED closed

Close == ~closed /\ closed' = TRUE /\ UNCHANGED inside

Next == Close \/ \E c \in Clients : Enter(c) \/ Exit(c)

Spec == Init /\ [][Next]_<<inside, closed>>
=============================================================================
