---------------------------- MODULE UbloxControl ----------------------------
(***************************************************************************)
(* The UbloxControl service (ublox_control/server.py).  InitF9t stops the  *)
(* reader, opens the serial port, configures the receiver in threads       *)
(* (initialize/conf_gnss.py) and starts the reader: a task around a thread *)
(* that reads packets and has the event loop cache them and put them into  *)
(* the queue of every CaptureUblox call.  Calls overlap: the port and the  *)
(* task are attributes of the servicer that every InitF9t reads again      *)
(* after each await.                                                       *)
(*                                                                         *)
(* A port, a reader task and its thread are named by the InitF9t call that *)
(* opened or started them.  _stop_event is only ever cleared, so that it   *)
(* is no part of the state.  Left out: the patterns of CaptureUblox (every *)
(* packet matches), all names but one in the cache, PollMessage (a         *)
(* placeholder), the 2 s limit on a task that does not end when cancelled. *)
(***************************************************************************)
EXTENDS Naturals, Sequences, FiniteSets, SequencesExt

CONSTANTS
  Inits,      (* bound: InitF9t calls                                      *)
  Captures,   (* bound: CaptureUblox calls                                 *)
  Packets,    (* bound: packets the receiver sends                         *)
  QueueSize,  (* max_read_queue_size: 200                                  *)
  None

ASSUME UbloxAssumption ==
  /\ IsFiniteSet(Inits) /\ IsFiniteSet(Captures)
  /\ None \notin Inits \cup Captures
  /\ Packets \in Nat /\ QueueSize \in Nat \ {0}

VARIABLES
  init,      (* per InitF9t: where it is; the port its thread uses, or the *)
             (* task it waits for; whether its request has settings        *)
  serial,    (* _serial                                                    *)
  open,      (* the ports that are open                                    *)
  task,      (* _io_task                                                   *)
  done,      (* reader tasks that are done                                 *)
  threads,   (* reader threads that run, with the port each reads          *)
  sent,      (* packets read so far                                        *)
  inbox,     (* _distribute_packet calls the event loop has to run         *)
  lock,      (* the capture that holds _cache_lock                         *)
  cache,     (* the newest packet distributed, 0 when none                 *)
  capture,   (* per CaptureUblox: where it is, its queue, its item         *)
  shutdown   (* no, stopping, stopped                                      *)

ports == <<serial, open>>
readers == <<task, done, threads>>
stream == <<sent, inbox, lock, cache, capture>>
vars == <<init, ports, readers, stream, shutdown>>

Steps == <<"model", "uid", "send", "verify">>
Running == task # None /\ task \notin done
Reading == {t[1] : t \in threads}
Clients == {c \in Captures : capture[c].at \in {"locking", "caching", "waiting", "yielding"}}

Init ==
  /\ init = [i \in Inits |-> [at |-> "idle", using |-> None, settings |-> FALSE]]
  /\ serial = None /\ open = {}
  /\ task = None /\ done = {} /\ threads = {}
  /\ sent = 0 /\ inbox = <<>> /\ lock = None /\ cache = 0
  /\ capture = [c \in Captures |-> [at |-> "idle", queue |-> <<>>, item |-> 0]]
  /\ shutdown = "no"

-----------------------------------------------------------------------------
(* InitF9t                                                                 *)

(* Mutation: stop() returns before _close_serial when no task runs.        *)
KeepPort(i) ==
  /\ open' = open \cup {i}
  /\ serial' = i

(* The end of stop() and _open_serial, with no suspension between them.    *)
Reopen(i) ==
  /\ open' = (open \ {serial}) \cup {i}
  /\ serial' = i

(* The port opens, or not, which ends the call with UNAVAILABLE.           *)
Open(i, settings) ==
  \/ /\ Reopen(i)
     /\ init' = [init EXCEPT ![i] = [at |-> "model", using |-> i, settings |-> settings]]
  \/ /\ open' = open \ {serial}
     /\ init' = [init EXCEPT ![i].at = "failed"]
     /\ UNCHANGED serial

(* Without force_init the call is refused while clients capture.  A reader *)
(* task is cancelled and awaited.                                          *)
InitF9t(i, force, settings) ==
  /\ init[i].at = "idle" /\ shutdown # "stopped"
  /\ \/ /\ ~force /\ Clients # {} /\ Running
        /\ init' = [init EXCEPT ![i].at = "refused"]
        /\ UNCHANGED ports
     \/ /\ force \/ Clients = {}
        /\ Running
        /\ init' = [init EXCEPT ![i] = [at |-> "stopping", using |-> task, settings |-> settings]]
        /\ UNCHANGED ports
     \/ /\ ~Running
        /\ Open(i, settings)
  /\ UNCHANGED <<readers, stream, shutdown>>

InitStopped(i) ==
  /\ init[i].at = "stopping" /\ init[i].using \in done
  /\ Open(i, init[i].settings)
  /\ UNCHANGED <<readers, stream, shutdown>>

(* What a step needs of the receiver it finds on the port its thread got:  *)
(* MON-VER and SEC-UNIQID always, acknowledgements when there are settings.*)
(* The verification of settings always raises: _merge_cfg_results and      *)
(* poll_cfg test isinstance(cfg, dict[Any]).                               *)
CanSucceed(i) ==
  LET s == init[i]
  IN  CASE s.at \in {"model", "uid"} -> s.using \in open
        [] s.at = "send" -> ~s.settings \/ s.using \in open
        [] s.at = "verify" -> ~s.settings

(* Without settings nothing is sent and nothing can fail.                  *)
CanFail(i) == init[i].at \in {"model", "uid"} \/ init[i].settings

(* A step that ends well starts the next one on the port that is _serial   *)
(* by now.                                                                 *)
InitStep(i) ==
  /\ init[i].at \in {"model", "uid", "send"} /\ CanSucceed(i)
  /\ LET k == CHOOSE j \in 1..3 : Steps[j] = init[i].at
     IN  init' = [init EXCEPT ![i].at = Steps[k + 1], ![i].using = serial]
  /\ UNCHANGED <<ports, readers, stream, shutdown>>

(* The last one commits the configuration and starts the reader, if none   *)
(* runs, on the port that is _serial by now.                               *)
InitCommit(i) ==
  /\ init[i].at = "verify" /\ CanSucceed(i)
  /\ init' = [init EXCEPT ![i].at = "success", ![i].using = None]
  /\ IF Running THEN UNCHANGED readers
     ELSE /\ task' = i
          /\ threads' = threads \cup {<<i, serial>>}
          /\ UNCHANGED done
  /\ UNCHANGED <<ports, stream, shutdown>>

(* Any exception: the port that is _serial by now is closed.               *)
InitFailed(i) ==
  /\ init[i].at \in {"model", "uid", "send", "verify"} /\ CanFail(i)
  /\ open' = open \ {serial}
  /\ init' = [init EXCEPT ![i].at = "failed", ![i].using = None]
  /\ UNCHANGED <<serial, readers, stream, shutdown>>

(* The client's deadline of 10 s, or the end of server.stop's grace: the   *)
(* CancelledError passes by "except Exception" and leaves the port as it is.*)
InitCancelled(i) ==
  /\ init[i].at \in {"model", "uid", "send", "verify"}
  /\ init' = [init EXCEPT ![i].at = "cancelled", ![i].using = None]
  /\ UNCHANGED <<ports, readers, stream, shutdown>>

-----------------------------------------------------------------------------
(* The reader                                                              *)

(* A cancelled task is done at once; its thread does not notice.           *)
TaskCancelled ==
  /\ Running
  /\ \/ \E i \in Inits : init[i].at = "stopping" /\ init[i].using = task
     \/ shutdown = "stopping"
  /\ done' = done \cup {task}
  /\ UNCHANGED <<init, ports, task, threads, stream, shutdown>>

ReadPacket(t) ==
  /\ t \in threads /\ t[2] \in open /\ sent < Packets
  /\ sent' = sent + 1
  /\ inbox' = Append(inbox, sent')
  /\ UNCHANGED <<init, ports, readers, lock, cache, capture, shutdown>>

(* Mutation: the loop has no exit but _stop_event.                         *)
PortGoneNever(t) == FALSE

(* The read raises because the thread's port is closed, and _serial is     *)
(* closed too; when _serial is another port, open again, the thread goes on.*)
PortGone(t) == t[2] \notin open /\ serial \notin open

ThreadEnds(t) ==
  /\ t \in threads /\ PortGone(t)
  /\ threads' = threads \ {t}
  /\ done' = done \cup {t[1]}
  /\ UNCHANGED <<init, ports, task, stream, shutdown>>

(* Under _cache_lock: the cache, and every queue that has room.            *)
Distribute ==
  /\ inbox # <<>> /\ lock = None
  /\ inbox' = Tail(inbox)
  /\ cache' = Head(inbox)
  /\ capture' = [c \in Captures |->
       IF c \in Clients /\ Len(capture[c].queue) < QueueSize
       THEN [capture[c] EXCEPT !.queue = Append(@, Head(inbox))] ELSE capture[c]]
  /\ UNCHANGED <<init, ports, readers, sent, lock, shutdown>>

-----------------------------------------------------------------------------
(* CaptureUblox                                                            *)

Becomes(c, where) == capture' = [capture EXCEPT ![c].at = where]

CaptureUblox(c) ==
  /\ capture[c].at = "idle" /\ shutdown # "stopped"
  /\ Becomes(c, IF Running THEN "locking" ELSE "refused")
  /\ UNCHANGED <<init, ports, readers, sent, inbox, lock, cache, shutdown>>

(* while not cancelled and is_running()                                    *)
GoOn == IF Running THEN "waiting" ELSE "ended"

(* The cache is sent to the client with the lock held, at the client's pace.*)
CaptureLocks(c) ==
  /\ capture[c].at = "locking" /\ lock = None
  /\ IF cache = 0 THEN Becomes(c, GoOn) /\ UNCHANGED lock
     ELSE Becomes(c, "caching") /\ lock' = c
  /\ UNCHANGED <<init, ports, readers, sent, inbox, cache, shutdown>>

CaptureCached(c) ==
  /\ capture[c].at = "caching"
  /\ lock' = None
  /\ Becomes(c, GoOn)
  /\ UNCHANGED <<init, ports, readers, sent, inbox, cache, shutdown>>

(* q.get within 1 s; a time-out leads back to the loop's condition.        *)
CaptureTakes(c) ==
  /\ capture[c].at = "waiting"
  /\ \/ /\ capture[c].queue # <<>>
        /\ capture' = [capture EXCEPT ![c] =
             [at |-> "yielding", queue |-> Tail(@.queue), item |-> Head(@.queue)]]
     \/ /\ capture[c].queue = <<>> /\ GoOn = "ended"
        /\ Becomes(c, "ended")
  /\ UNCHANGED <<init, ports, readers, sent, inbox, lock, cache, shutdown>>

CaptureYielded(c) ==
  /\ capture[c].at = "yielding"
  /\ capture' = [capture EXCEPT ![c] = [@ EXCEPT !.at = GoOn, !.item = 0]]
  /\ UNCHANGED <<init, ports, readers, sent, inbox, lock, cache, shutdown>>

(* The client leaves: the handler is cancelled wherever it is, the lock is *)
(* released and the queue removed.                                         *)
CaptureCancelled(c) ==
  /\ c \in Clients
  /\ Becomes(c, "ended")
  /\ lock' = IF lock = c THEN None ELSE lock
  /\ UNCHANGED <<init, ports, readers, sent, inbox, cache, shutdown>>

-----------------------------------------------------------------------------
(* serve(): servicer.stop(), then server.stop(grace), during which calls   *)
(* go on and after which those left are cancelled.                         *)
Shutdown ==
  /\ shutdown = "no"
  /\ shutdown' = "stopping"
  /\ UNCHANGED <<init, ports, readers, stream>>

ShutdownStops ==
  /\ shutdown = "stopping" /\ ~Running
  /\ shutdown' = "stopped"
  /\ open' = open \ {serial}
  /\ UNCHANGED <<init, serial, readers, stream>>

InitNext(i) ==
  \/ \E force, settings \in BOOLEAN : InitF9t(i, force, settings)
  \/ InitStopped(i) \/ InitStep(i) \/ InitCommit(i) \/ InitFailed(i) \/ InitCancelled(i)

CaptureNext(c) ==
  \/ CaptureUblox(c) \/ CaptureLocks(c) \/ CaptureCached(c) \/ CaptureTakes(c)
  \/ CaptureYielded(c) \/ CaptureCancelled(c)

Next ==
  \/ \E i \in Inits : InitNext(i)
  \/ \E c \in Captures : CaptureNext(c)
  \/ \E t \in threads : ReadPacket(t) \/ ThreadEnds(t)
  \/ TaskCancelled \/ Distribute \/ Shutdown \/ ShutdownStops

(* The event loop and the threads run, every exchange with the receiver    *)
(* has a time-out, clients read or leave; no call has to be made.          *)
Fairness ==
  /\ \A i \in Inits :
       WF_vars(InitStopped(i) \/ InitStep(i) \/ InitCommit(i) \/ InitFailed(i))
  /\ \A c \in Captures :
       /\ WF_vars(CaptureTakes(c) \/ CaptureYielded(c) \/ CaptureCached(c))
       /\ SF_vars(CaptureLocks(c))
  /\ \A t \in Inits \X Inits : WF_vars(ThreadEnds(t))
  /\ WF_vars(TaskCancelled) /\ WF_vars(Distribute) /\ WF_vars(ShutdownStops)

Spec == Init /\ [][Next]_vars /\ Fairness

-----------------------------------------------------------------------------
TypeOK ==
  /\ init \in [Inits -> [at : ToSet(Steps) \cup {"idle", "refused", "stopping", "success",
                                                  "failed", "cancelled"},
                         using : Inits \cup {None}, settings : BOOLEAN]]
  /\ serial \in Inits \cup {None} /\ open \subseteq Inits
  /\ task \in Inits \cup {None} /\ done \subseteq Inits
  /\ threads \subseteq Inits \X (Inits \cup {None})
  /\ sent \in 0..Packets /\ cache \in 0..Packets
  /\ lock \in Captures \cup {None}
  /\ \A c \in Captures : Len(capture[c].queue) <= QueueSize
  /\ shutdown \in {"no", "stopping", "stopped"}

(* However InitF9t calls overlap, fail, time out and race with a shutdown, *)
(* the device is never open twice, and the one open port is the one the    *)
(* servicer knows, so that the next stop() closes it: no descriptor leaks. *)
OnePort == TypeOK /\ open \subseteq {serial}

(* Every reader thread ends once the port stays closed, also a thread      *)
(* whose task was cancelled and replaced; and every CaptureUblox call of a *)
(* client that reads ends once no reader task runs any more.               *)
AllEnd ==
  /\ [](serial \notin open) ~> (threads = {})
  /\ [](~Running) ~> (Clients = {})
=============================================================================
