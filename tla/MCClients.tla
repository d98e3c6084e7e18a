------------------------------ MODULE MCClients ------------------------------
(* Programs on the side of the clients: one with a client and two hosts,   *)
(* which may first search files taken around a wrap of the 10 bits.        *)
EXTENDS Clients, PffFile

MCSeconds == {985}
MCSkews == -1..2

(* Six frames of which any may be missing, fourteen in one or two pieces.*)
MCFiles ==
  {[i \in 1..Cardinality(S) |-> CHOOSE n \in S : Cardinality({m \in S : m < n}) = i - 1] : S \in
     (SUBSET (0..5) \ SUBSET (1..5))
       \cup {(0..a) \cup (b..MaxFrames - 1) : a \in 0..MaxFrames - 1, b \in 2..MaxFrames}}

MCInit == Init /\ PffInit

(* time_seek() does not return before it has found its frame; to bound the *)
(* states, files are searched before the client is used.                   *)
MCNext ==
  \/ file = NoFile /\ Next /\ UNCHANGED pff
  \/ Init /\ client = DaqDataClient /\ PffNext /\ UNCHANGED vars

MCSpec == MCInit /\ [][MCNext]_<<vars, pff>> /\ Fairness
=============================================================================
