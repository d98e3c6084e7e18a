--------------------------- MODULE MCUbloxControl ---------------------------
(* The receiver is configured by the script or by InitF9t, in detail       *)
(* (F9tConfig), or the service runs (UbloxControl).                        *)
EXTENDS UbloxControl, F9tConfig

CONSTANT SignalSettings

Positions == {<<>>, <<-101>>}

(* A group of one message or of several; from the server with a position ... *)
SendPlans == {[NoPlan EXCEPT !.signal = n, !.other = 1] : n \in SignalSettings}
             \cup {[NoPlan EXCEPT !.signal = 1, !.other = 1, !.position = p, !.server = TRUE] :
                     p \in Positions}

(* ... and every combination of the flags.                                 *)
FlagPlans == {[NoPlan EXCEPT !.signal = 1, !.bad = d, !.position = p,
                             !.verbose = v, !.probe_only = o, !.dry_run = r] :
                d \in {"no", "settings", "position"}, p \in Positions,
                v, o, r \in BOOLEAN}
BadPlans == {[NoPlan EXCEPT !.bad = d, !.position = p, !.server = TRUE] :
               d \in {"no", "settings", "position"}, p \in Positions}

MCPlans == SendPlans \cup FlagPlans \cup BadPlans

MCInit == Init /\ F9tInit

MCNext ==
  \/ host.at = "idle" /\ Next /\ UNCHANGED f9t
  \/ Init /\ F9tNext /\ UNCHANGED vars

MCSpec == MCInit /\ [][MCNext]_<<vars, f9t>> /\ Fairness
=============================================================================
