---------------------------- MODULE GatewayProxy ----------------------------
(***************************************************************************)
(* InitHpIo and Status of the daq_data gateway (daq_data/aggregator.py):   *)
(* the call is made to all edges at once, each with a deadline, and        *)
(* answered when all have answered, failed or run out of time.  An edge    *)
(* runs its own handler, also for a call nobody waits for any more and,    *)
(* as the channels retry, more than once.                                  *)
(***************************************************************************)
EXTENDS GatewayFanIn

CONSTANT ProxyCalls  (* bound: calls of the gateway, one after another     *)

ASSUME ProxyAssumption == ProxyCalls \in Nat

VARIABLES
  stubs,    (* _edge_stubs: the edges startup() has opened channels to     *)
  calls,    (* calls made so far; the newest is the present one            *)
  proxy,    (* the gateway's call: its method and, when over, its answer   *)
  outcome,  (* per edge: what the present call has got of it               *)
  config,   (* per edge: the InitHpIo it was configured by last, 0 when none *)
  held      (* per edge, for the properties: what it was since the call began *)

proxyVars == <<stubs, calls, proxy, outcome, config, held>>

NoCall == [at |-> "idle", method |-> "InitHpIo", ok |-> FALSE, named |-> {}]

(* startup() opens what it can; no edge is no error.                       *)
ProxyInit ==
  /\ stubs \in SUBSET Edges
  /\ calls = 0
  /\ proxy = NoCall
  /\ outcome = [e \in Edges |-> "none"]
  /\ config = [e \in Edges |-> 0]
  /\ held = [e \in Edges |-> {}]

Pending == {e \in stubs : outcome[e] = "pending"}
Succeeded == {e \in stubs : outcome[e] = "ok"}

(* "Gateway has no connected edge nodes."                                  *)
Proxy(method) ==
  /\ proxy.at \in {"idle", "answered", "cancelled"} /\ calls < ProxyCalls
  /\ calls' = calls + 1
  /\ proxy' = [NoCall EXCEPT !.at = IF stubs = {} THEN "answered" ELSE "gathering",
                             !.method = method]
  /\ outcome' = [e \in Edges |-> IF e \in stubs THEN "pending" ELSE "none"]
  /\ held' = [e \in Edges |-> {config[e]}]
  /\ UNCHANGED <<stubs, config>>

(* The edge starts its hp_io for an InitHpIo of the gateway, the present   *)
(* one or one that has timed out or been retried; nothing is undone.       *)
EdgeInits(e) ==
  /\ e \in stubs
  /\ \E n \in 1..calls :
       /\ n = calls => proxy.method = "InitHpIo"
       /\ config' = [config EXCEPT ![e] = n]
       /\ held' = [held EXCEPT ![e] = @ \cup {n}]
  /\ UNCHANGED <<stubs, calls, proxy, outcome>>

(* Its task ends, or somebody else configures it.                          *)
EdgeLoses(e) ==
  /\ e \in stubs
  /\ config' = [config EXCEPT ![e] = 0]
  /\ held' = [held EXCEPT ![e] = @ \cup {0}]
  /\ UNCHANGED <<stubs, calls, proxy, outcome>>

(* The edge's answer is true of a moment since the call began.             *)
EdgeAnswers(e) ==
  /\ e \in Pending /\ proxy.at = "gathering"
  /\ \E ok \in BOOLEAN :
       /\ ok => IF proxy.method = "InitHpIo" THEN calls \in held[e] ELSE held[e] # {0}
       /\ outcome' = [outcome EXCEPT ![e] = IF ok THEN "ok" ELSE "failed"]
  /\ UNCHANGED <<stubs, calls, proxy, config, held>>

EdgeLate(e) == outcome' = [outcome EXCEPT ![e] = "failed"]

(* 15 s, or 5 s, have passed, or the edge cannot be reached.               *)
EdgeTimesOut(e) ==
  /\ e \in Pending /\ proxy.at = "gathering"
  /\ EdgeLate(e)
  /\ UNCHANGED <<stubs, calls, proxy, config, held>>

(* Mutation: one edge is enough.                                           *)
AnyOk == Succeeded # {}

AllOk == Succeeded = stubs

(* All tasks of the group are done.                                        *)
Answered ==
  /\ proxy.at = "gathering" /\ Pending = {}
  /\ proxy' = [proxy EXCEPT !.at = "answered", !.ok = AllOk, !.named = stubs \ Succeeded]
  /\ UNCHANGED <<stubs, calls, outcome, config, held>>

(* The caller's own deadline: the group is cancelled, not what the edges do.*)
ProxyCancelled ==
  /\ proxy.at = "gathering"
  /\ proxy' = [proxy EXCEPT !.at = "cancelled"]
  /\ outcome' = [e \in Edges |-> "none"]
  /\ UNCHANGED <<stubs, calls, config, held>>

EdgeDone(e) == EdgeAnswers(e) \/ EdgeTimesOut(e)

ProxyNext ==
  \/ \E method \in {"InitHpIo", "Status"} : Proxy(method)
  \/ \E e \in Edges : EdgeInits(e) \/ EdgeLoses(e) \/ EdgeDone(e)
  \/ Answered \/ ProxyCancelled

(* The deadlines pass and the event loop runs.                             *)
ProxyFairness == (\A e \in Edges : WF_proxyVars(EdgeDone(e))) /\ WF_proxyVars(Answered)

ProxySpec == ProxyInit /\ [][ProxyNext]_proxyVars /\ ProxyFairness

-----------------------------------------------------------------------------
(* "Proxy InitHpIo to all edges concurrently (best-effort outcome-         *)
(* collection)": success means that there is an edge, and that every edge  *)
(* has been configured by this very call, not by an earlier one that timed *)
(* out and came late; initialized means that every edge has been           *)
(* configured at some moment of the call.  A failure names exactly the     *)
(* edges that did not answer well.                                         *)
ProxyHonest ==
  /\ proxy.at = "answered" /\ proxy.ok =>
       /\ stubs # {} /\ proxy.named = {}
       /\ \A e \in stubs : IF proxy.method = "InitHpIo" THEN calls \in held[e]
                           ELSE held[e] # {0}
  /\ proxy.at = "answered" /\ ~proxy.ok =>
       stubs = {} \/ (proxy.named # {} /\ \A e \in stubs : e \notin proxy.named <=> outcome[e] = "ok")

(* What EdgesServed says of a stream; and a call is answered, whatever the *)
(* edges do, unless its caller gives up.                                   *)
CallersServed ==
  /\ EdgesServed
  /\ (proxy.at = "gathering") ~> (proxy.at # "gathering")
=============================================================================
