--------------------------- MODULE UnifiedServer ---------------------------
(***************************************************************************)
(* PanosetiServer.run (server.py): one gRPC server for the enabled         *)
(* services.  It creates the servicers in INIT_ORDER, goes live, starts    *)
(* the background task of daq_data (the initial hp_io task of an edge, the *)
(* startup() of a gateway, aggregator.py), waits for a signal and stops:   *)
(* the gRPC server, the servicers, the background tasks, in this order.    *)
(* All servicers share one HealthToggle (grpc_utils/health.py), which      *)
(* InitHpIo, StartDaq and StopDaq flip around what they do.                *)
(*                                                                         *)
(* What the services do otherwise is in modules of their own; that the     *)
(* shutdown() of an edge ends is shown in HpIoLifecycle.                   *)
(***************************************************************************)
EXTENDS Naturals, Sequences, SequencesExt, FiniteSets

CONSTANTS
  Calls,    (* bound: InitHpIo, StartDaq and StopDaq calls at a time       *)
  Edges     (* the edges in the gateway's daq_config                       *)

ASSUME UnifiedAssumption == IsFiniteSet(Calls) /\ IsFiniteSet(Edges)

VARIABLES
  cfg,       (* the services that are enabled, the role of daq_data        *)
  phase,     (* where run() is                                             *)
  next,      (* the services of INIT_ORDER still to be looked at           *)
  active,    (* active_servicers                                           *)
  todo,      (* the servicers whose shutdown() is still to come or to end  *)
  signal,    (* shutdown_event                                             *)
  task,      (* the background task                                        *)
  channels,  (* the gateway's open channels                                *)
  health,    (* per service: what grpc.health.v1 answers                   *)
  call       (* per call: its method and where it is                       *)

progress == <<cfg, phase, next, active, todo, signal>>
unified == <<progress, task, channels, health, call>>

INIT_ORDER == <<"telemetry", "daq_data", "daq_control", "ml_inference">>
Services == ToSet(INIT_ORDER)
Phases == {"creating", "live", "stopping", "shutting", "joining", "ended", "failed"}
Over == {"none", "done", "cancelled"}
Methods == {"InitHpIo", "StartDaq", "StopDaq"}
ServiceOf(method) == IF method = "InitHpIo" THEN "daq_data" ELSE "daq_control"

IdleCall == [method |-> "StopDaq", at |-> "idle"]

UnifiedInit ==
  /\ cfg \in [services : SUBSET Services, role : {"edge", "gateway"}]
  /\ phase = "creating" /\ next = INIT_ORDER
  /\ active = <<>> /\ todo = {} /\ signal = FALSE
  /\ task = "none" /\ channels = {}
  /\ health = [s \in Services |-> "UNKNOWN"]
  /\ call = [c \in Calls |-> IdleCall]

-----------------------------------------------------------------------------
(* Start-up                                                                *)

(* SIGINT or SIGTERM, also before the server is live.                      *)
Signal ==
  /\ ~signal /\ signal' = TRUE
  /\ UNCHANGED <<cfg, phase, next, active, todo, task, channels, health, call>>

(* A factory that raises, for one the telemetry service whose Redis does   *)
(* not answer the ping, ends run().                                        *)
Create ==
  /\ phase = "creating" /\ next # <<>>
  /\ \/ /\ next' = Tail(next)
        /\ active' = IF Head(next) \in cfg.services THEN Append(active, Head(next)) ELSE active
        /\ UNCHANGED phase
     \/ /\ Head(next) \in cfg.services
        /\ phase' = "failed"
        /\ UNCHANGED <<next, active>>
  /\ UNCHANGED <<cfg, todo, signal, task, channels, health, call>>

(* Mutation: the event is created where it is awaited.                     *)
FreshEvent == FALSE

(* The event was created before the handlers were installed.               *)
Event == signal

(* Every active service is SERVING, the port open, the background task made*)
GoLive ==
  /\ phase = "creating" /\ next = <<>>
  /\ phase' = "live" /\ signal' = Event
  /\ health' = [s \in Services |-> IF s \in ToSet(active) THEN "SERVING" ELSE "UNKNOWN"]
  /\ task' = IF "daq_data" \in ToSet(active) THEN "reading" ELSE "none"
  /\ UNCHANGED <<cfg, next, active, todo, channels, call>>

-----------------------------------------------------------------------------
(* The background task                                                     *)

Gateway == cfg.role = "gateway"

(* The gateway reads daq_config and perhaps network_config in threads, then*)
(* opens all channels at once; a file it cannot read or validate ends it.  *)
(* The initial task of an edge ends, well or not.                          *)
TaskStep ==
  /\ \/ /\ Gateway /\ task = "reading"
        /\ task' = "readingNetwork" /\ UNCHANGED channels
     \/ /\ Gateway /\ task \in {"reading", "readingNetwork"}
        /\ task' = "done" /\ channels' = Edges
     \/ /\ task \in {"reading", "readingNetwork"}
        /\ task' = "done" /\ UNCHANGED channels
  /\ UNCHANGED <<progress, health, call>>

-----------------------------------------------------------------------------
(* Calls that flip the health                                              *)

Working(c) == call[c].at # "idle"
Holds(c) == call[c].at = "inside" /\ call[c].method # "StopDaq"

Served(method) ==
  ServiceOf(method) \in ToSet(active) /\ (method = "InitHpIo" => ~Gateway)

(* not_serving(), then the writer lock of daq_data or the lock of          *)
(* daq_control; StopDaq takes none.                                        *)
Begin(c, method) ==
  /\ phase = "live" /\ ~Working(c) /\ Served(method)
  /\ health' = [health EXCEPT ![ServiceOf(method)] = "NOT_SERVING"]
  /\ call' = [call EXCEPT ![c] =
       [method |-> method, at |-> IF method = "StopDaq" THEN "inside" ELSE "waiting"]]
  /\ UNCHANGED <<progress, task, channels>>

Enter(c) ==
  /\ call[c].at = "waiting"
  /\ \A d \in Calls : call[d].method = call[c].method => ~Holds(d)
  /\ call' = [call EXCEPT ![c].at = "inside"]
  /\ UNCHANGED <<progress, task, channels, health>>

(* Mutation: serving() is called inside the lock.                          *)
HealthAfterHeld(c) ==
  IF call[c].at = "inside" THEN [health EXCEPT ![ServiceOf(call[c].method)] = "SERVING"] ELSE health

(* finally: serving()                                                      *)
HealthAfter(c) == [health EXCEPT ![ServiceOf(call[c].method)] = "SERVING"]

(* The call ends: answered, refused, failed or cancelled in any await.     *)
Finish(c) ==
  /\ Working(c)
  /\ health' = HealthAfter(c)
  /\ call' = [call EXCEPT ![c] = IdleCall]
  /\ UNCHANGED <<progress, task, channels>>

-----------------------------------------------------------------------------
(* Stopping                                                                *)

(* t.cancel() of a task that is not done                                   *)
Cancelled(t) == IF t \in Over THEN t ELSE "cancelled"

(* run() goes on to the next shutdown().  After the last one it cancels    *)
(* the background task without any suspension in between.                  *)
Continue(rest) ==
  /\ todo' = rest
  /\ phase' = IF rest = {} THEN "joining" ELSE "shutting"
  /\ task' = IF rest = {} THEN Cancelled(task) ELSE task

(* server.stop: no more calls; those left are cancelled after the grace.   *)
StopServer ==
  /\ phase = "live" /\ signal
  /\ phase' = "stopping"
  /\ UNCHANGED <<cfg, next, active, todo, signal, task, channels, health, call>>

(* telemetry and daq_data have a shutdown(); they come in INIT_ORDER.      *)
HaveShutdown == {"telemetry", "daq_data"}
Current == IF "telemetry" \in todo THEN "telemetry" ELSE "daq_data"

ServerStopped ==
  /\ phase = "stopping"
  /\ Continue(ToSet(active) \cap HaveShutdown)
  /\ UNCHANGED <<cfg, next, active, signal, channels, health, call>>

(* The gateway's closes its channels one after the other, if it has any.   *)
ShutdownNext ==
  /\ phase = "shutting"
  /\ \/ /\ ~(Current = "daq_data" /\ Gateway /\ channels # {})
        /\ Continue(todo \ {Current}) /\ UNCHANGED channels
     \/ /\ Current = "daq_data" /\ Gateway
        /\ \E e \in channels :
             /\ channels' = channels \ {e}
             /\ IF channels' = {} THEN Continue(todo \ {Current}) ELSE UNCHANGED <<todo, phase, task>>
  /\ UNCHANGED <<cfg, next, active, signal, health, call>>

(* gather() of the background tasks                                        *)
Joined ==
  /\ phase = "joining" /\ task \in Over
  /\ phase' = "ended"
  /\ UNCHANGED <<cfg, next, active, todo, signal, task, channels, health, call>>

CallNext(c) == (\E method \in Methods : Begin(c, method)) \/ Enter(c) \/ Finish(c)

UnifiedNext ==
  \/ Signal \/ Create \/ GoLive \/ TaskStep
  \/ \E c \in Calls : CallNext(c)
  \/ StopServer \/ ServerStopped \/ ShutdownNext \/ Joined

(* run() goes on; files are read and channels closed in bounded time.      *)
UnifiedFairness ==
  /\ WF_unified(Create \/ GoLive \/ StopServer \/ ServerStopped \/ ShutdownNext \/ Joined)
  /\ WF_unified(TaskStep)

UnifiedSpec == UnifiedInit /\ [][UnifiedNext]_unified /\ UnifiedFairness

-----------------------------------------------------------------------------
UnifiedTypeOK ==
  /\ phase \in Phases
  /\ active \in Seq(Services) /\ todo \subseteq HaveShutdown
  /\ task \in Over \cup {"reading", "readingNetwork"}
  /\ channels \subseteq Edges
  /\ health \in [Services -> {"UNKNOWN", "SERVING", "NOT_SERVING"}]
  /\ call \in [Calls -> [method : Methods, at : {"idle", "waiting", "inside"}]]

(* A service without a reconfiguring call answers SERVING: no overlap of   *)
(* calls that wait, are refused, fail or are cancelled leaves a healthy    *)
(* server marked as not serving.                                           *)
ServingWhenIdle ==
  UnifiedTypeOK /\ \A s \in ToSet(active) :
    /\ phase \notin {"creating", "failed"}
    /\ \A c \in Calls : Working(c) => ServiceOf(call[c].method) # s
    => health[s] = "SERVING"

(* A signal, at whatever moment of the start-up it comes, ends run(), with *)
(* no channel to an edge left open and no background task running, also    *)
(* when the gateway was still starting up.                                 *)
SignalEnds ==
  signal ~> phase = "failed" \/ (phase = "ended" /\ channels = {} /\ task \in Over)

=============================================================================
