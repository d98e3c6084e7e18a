------------------------------ MODULE LogPath ------------------------------
(***************************************************************************)
(* The way of a log record from a process to Redis.  get_logger            *)
(* (telemetry/logger.py) attaches to every logger of the process the one   *)
(* shared AsyncGrpcHandler (telemetry/client.py), whose bounded queue is   *)
(* emptied by a worker thread that sends one Log call per record and does  *)
(* not wait for it.  The telemetry server (telemetry/server.py) validates  *)
(* a record, puts it into RedisBatcher's queue and answers "Queued"; the   *)
(* batcher's task pushes batches to Redis, or appends them to a local file *)
(* when the push raises.  Redis fails and comes back, the server stops,    *)
(* crashes and starts again.                                               *)
(***************************************************************************)
EXTENDS Naturals, Sequences, FiniteSets, SequencesExt

CONSTANTS
  Loggers,     (* names passed to get_logger in this process               *)
  Logs,        (* bound: the records are 1..Logs, in the order of emission *)
  Invalid,     (* the records LogSchema rejects                            *)
  QueueSize,   (* queue_size of the handler: 1000                          *)
  BatchSize,   (* BATCH_SIZE: 100                                          *)
  MaxSetups,   (* bound: calls of get_logger                               *)
  MaxOutages,  (* bound: times Redis or a reply of it goes away            *)
  MaxStops     (* bound: stops and crashes of the server                   *)

ASSUME LogPathAssumption ==
  /\ Logs \in Nat /\ Invalid \subseteq 1..Logs
  /\ {QueueSize, BatchSize} \subseteq Nat \ {0}
  /\ {MaxSetups, MaxOutages, MaxStops} \subseteq Nat

VARIABLES
  attached,  (* loggers that have the shared handler                       *)
  worker,    (* the handler's thread: none, running or ended               *)
  closed,    (* the handler's _stop_event                                  *)
  handlerQ,  (* the handler's queue                                        *)
  wire,      (* Log calls that have not been answered                      *)
  telemetry, (* its server: up, stopping (server.stop), released (redis.close), down *)
  batchQ,    (* RedisBatcher.queue                                         *)
  batch,     (* what _worker has taken and is pushing                      *)
  redis,     (* the list logs:ingress                                      *)
  redisUp,
  file,      (* logs/telemetry_fallback.log                                *)
  gone,      (* records that were lost                                      *)
  arrived,   (* history: the records answered "Queued", in order           *)
  emitted, setups, outages, stops  (* counters                             *)

client == <<attached, worker, closed, setups>>
process == <<telemetry, stops>>
store == <<redis, redisUp, file, outages>>
logpath == <<client, handlerQ, wire, process, batchQ, batch, store, gone, arrived, emitted>>

(* A record is lost to a full queue, a deadline, a rejection, a stop of the *)
(* server or a fallback file that cannot be written.                       *)
Lose(S) == gone' = gone \cup S

LogInit ==
  /\ attached = {} /\ worker = "none" /\ closed = FALSE
  /\ handlerQ = <<>> /\ wire = {}
  /\ telemetry = "up" /\ batchQ = <<>> /\ batch = <<>>
  /\ redis = <<>> /\ redisUp = TRUE /\ file = <<>>
  /\ gone = {} /\ arrived = <<>>
  /\ emitted = 0 /\ setups = 0 /\ outages = 0 /\ stops = 0

-----------------------------------------------------------------------------
(* The process that logs                                                   *)

(* get_logger(s): a logger that has handlers closes them, the shared one   *)
(* included, before it gets the same shared handler again from the cache.  *)
(* The handler is made, with its thread, by the first call.                *)
GetLogger(s) ==
  /\ setups < MaxSetups
  /\ setups' = setups + 1
  /\ closed' = (closed \/ s \in attached)
  /\ attached' = attached \cup {s}
  /\ worker' = IF worker = "none" THEN "running" ELSE worker
  /\ UNCHANGED <<handlerQ, wire, process, batchQ, batch, store, gone, arrived, emitted>>

(* emit: put_nowait; Full is swallowed.                                    *)
Emit ==
  /\ attached # {} /\ emitted < Logs
  /\ emitted' = emitted + 1
  /\ \/ /\ Len(handlerQ) < QueueSize
        /\ handlerQ' = Append(handlerQ, emitted')
        /\ UNCHANGED gone
     \/ /\ Len(handlerQ) = QueueSize
        /\ Lose({emitted'})
        /\ UNCHANGED handlerQ
  /\ UNCHANGED <<client, wire, process, batchQ, batch, store, arrived>>

(* The thread takes a record and starts its call: timeout 10 s,            *)
(* wait_for_ready.                                                         *)
Ship ==
  /\ worker = "running" /\ handlerQ # <<>>
  /\ wire' = wire \cup {Head(handlerQ)}
  /\ handlerQ' = Tail(handlerQ)
  /\ UNCHANGED <<client, process, batchQ, batch, store, gone, arrived, emitted>>

(* Mutation: the loop ends as soon as the stop event is set.               *)
DrainedOrNot == TRUE

Drained == handlerQ = <<>>

(* while not stopped or not empty                                          *)
ThreadEnds ==
  /\ worker = "running" /\ closed /\ Drained
  /\ worker' = "ended"
  /\ UNCHANGED <<attached, closed, setups, handlerQ, wire, process, batchQ, batch, store,
                 gone, arrived, emitted>>

(* The deadline of a call passes, or its server is gone: nobody retries.   *)
CallExpires(l) ==
  /\ l \in wire
  /\ wire' = wire \ {l}
  /\ Lose({l})
  /\ UNCHANGED <<client, handlerQ, process, batchQ, batch, store, arrived, emitted>>

-----------------------------------------------------------------------------
(* The telemetry server                                                    *)

(* RedisBatcher.add: the queue is unbounded.                              *)
Add(l) == batchQ' = Append(batchQ, l)

(* Log has no await before it answers.  Calls in flight arrive in any order. *)
Log(l) ==
  /\ telemetry = "up" /\ l \in wire
  /\ wire' = wire \ {l}
  /\ \/ /\ l \in Invalid
        /\ Lose({l})
        /\ UNCHANGED <<batchQ, arrived>>
     \/ /\ l \notin Invalid
        /\ Add(l)
        /\ arrived' = Append(arrived, l)
        /\ UNCHANGED gone
  /\ UNCHANGED <<client, handlerQ, process, batch, store, emitted>>

(* The first record and what is there up to BATCH_SIZE.                    *)
Take ==
  /\ telemetry # "down" /\ batch = <<>> /\ batchQ # <<>>
  /\ LET n == IF Len(batchQ) < BatchSize THEN Len(batchQ) ELSE BatchSize
     IN  /\ batch' = SubSeq(batchQ, 1, n)
         /\ batchQ' = SubSeq(batchQ, n + 1, Len(batchQ))
  /\ UNCHANGED <<client, handlerQ, wire, process, store, gone, arrived, emitted>>

(* rpush is one command: it is applied whole or not at all.  When its reply*)
(* is lost the Redis client sends it again.  It raises when Redis stays    *)
(* away, and when redis.close() takes the connection before the reply.     *)
PushFailed == ~redisUp \/ telemetry = "released"

(* Mutation: the fallback writes only the first record of the batch.       *)
FallbackFirst(applied) ==
  /\ redis' = IF applied THEN redis \o batch ELSE redis
  /\ file' = Append(file, Head(batch))
  /\ UNCHANGED <<batchQ, gone>>

(* The fallback file may not be writable either.                           *)
Fallback(applied) ==
  /\ redis' = IF applied THEN redis \o batch ELSE redis
  /\ \/ /\ file' = file \o batch
        /\ UNCHANGED gone
     \/ /\ Lose(ToSet(batch))
        /\ UNCHANGED file
  /\ UNCHANGED batchQ

Push ==
  /\ batch # <<>>
  /\ \/ /\ redisUp
        /\ redis' = redis \o batch
        /\ UNCHANGED <<batchQ, file, gone>>
     \/ /\ PushFailed
        /\ \E applied \in BOOLEAN : Fallback(applied)
  /\ batch' = <<>>
  /\ UNCHANGED <<client, handlerQ, wire, process, redisUp, outages, arrived, emitted>>

PushAgain ==
  /\ batch # <<>> /\ redisUp /\ outages < MaxOutages
  /\ redis' = redis \o batch
  /\ outages' = outages + 1
  /\ UNCHANGED <<client, handlerQ, wire, process, batchQ, batch, redisUp, file, gone, arrived,
                 emitted>>

RedisFails ==
  /\ redisUp /\ outages < MaxOutages
  /\ redisUp' = FALSE /\ outages' = outages + 1
  /\ UNCHANGED <<client, handlerQ, wire, process, batchQ, batch, redis, file, gone, arrived, emitted>>

RedisReturns ==
  /\ ~redisUp
  /\ redisUp' = TRUE
  /\ UNCHANGED <<client, handlerQ, wire, process, batchQ, batch, redis, file, outages,
                 gone, arrived, emitted>>

(* The signal, server.stop(5), servicer.shutdown(): new calls are refused  *)
(* from the first step on, the batcher's task runs until the last.         *)
Stop ==
  /\ \/ telemetry = "up" /\ telemetry' = "stopping" /\ stops < MaxStops /\ stops' = stops + 1
     \/ telemetry = "stopping" /\ telemetry' = "released" /\ UNCHANGED stops
  /\ UNCHANGED <<client, handlerQ, wire, batchQ, batch, store, gone, arrived, emitted>>

(* The process ends, at the end of serve() or in a crash: what the batcher *)
(* holds goes with it, and a push in flight may have been applied.         *)
ServerExits ==
  /\ \/ telemetry = "released" /\ UNCHANGED stops
     \/ telemetry # "down" /\ stops < MaxStops /\ stops' = stops + 1
  /\ telemetry' = "down"
  /\ \/ /\ Lose(ToSet(batch \o batchQ))
        /\ UNCHANGED redis
     \/ /\ redisUp
        /\ redis' = redis \o batch
        /\ Lose(ToSet(batchQ))
  /\ batch' = <<>> /\ batchQ' = <<>>
  /\ UNCHANGED <<client, handlerQ, wire, redisUp, file, outages, arrived, emitted>>

(* serve() pings Redis before it serves, and gives up after ten attempts.  *)
ServerStarts ==
  /\ telemetry = "down" /\ redisUp
  /\ telemetry' = "up"
  /\ UNCHANGED <<client, handlerQ, wire, stops, batchQ, batch, store, gone, arrived, emitted>>

LogNext ==
  \/ \E s \in Loggers : GetLogger(s)
  \/ Emit \/ Ship \/ ThreadEnds
  \/ \E l \in 1..Logs : CallExpires(l) \/ Log(l)
  \/ Take \/ Push \/ PushAgain
  \/ RedisFails \/ RedisReturns
  \/ Stop \/ ServerExits \/ ServerStarts

(* The thread, the batcher's task and the deadlines go on; a push ends one *)
(* way or another; nobody has to log, to bring Redis back or to restart.   *)
LogFairness ==
  /\ WF_logpath(Ship) /\ WF_logpath(ThreadEnds) /\ WF_logpath(Take) /\ WF_logpath(Push)
  /\ \A l \in 1..Logs : WF_logpath(CallExpires(l) \/ Log(l))

LogSpec == LogInit /\ [][LogNext]_logpath /\ LogFairness

-----------------------------------------------------------------------------
Stored == ToSet(redis) \cup ToSet(file)
OnTheWay == ToSet(handlerQ) \cup wire \cup ToSet(batchQ) \cup ToSet(batch)

LogTypeOK ==
  /\ attached \subseteq Loggers
  /\ worker \in {"none", "running", "ended"}
  /\ telemetry \in {"up", "stopping", "released", "down"}
  /\ Len(handlerQ) <= QueueSize /\ Len(batch) <= BatchSize
  /\ gone \subseteq 1..Logs
  /\ {closed, redisUp} \subseteq BOOLEAN
  /\ emitted \in 0..Logs

(* Every record a process has emitted is on its way, stored, or lost for a *)
(* reason the code has (queue full, deadline, rejected, stop of the server,*)
(* fallback file not writable), and no record is in two places on the way: *)
(* emit, _worker, Log, RedisBatcher._worker and its fallback hand records  *)
(* over without dropping or doubling one.  Only a batch that is being      *)
(* pushed may be in Redis already.                                         *)
EachInOnePlace ==
  /\ 1..emitted = OnTheWay \cup Stored \cup gone
  /\ (OnTheWay \ ToSet(batch)) \cap (Stored \cup gone) = {}
  /\ Len(handlerQ) + Cardinality(wire) + Len(batchQ) + Len(batch) = Cardinality(OnTheWay)

(* logs:ingress shows the records in the order in which Log answered       *)
(* "Queued", across batches, outages of Redis and restarts of the server:  *)
(* what follows an accepted record was accepted later or has been there    *)
(* before it (a batch that was sent again); what is still queued comes     *)
(* behind it all.                                                          *)
Position(l) == CHOOSE i \in DOMAIN arrived : arrived[i] = l
IngressInOrder ==
  LET s == redis \o batch \o batchQ
  IN  \A i, j \in DOMAIN s :
        i < j => \/ Position(s[i]) < Position(s[j])
                 \/ \E k \in 1..i : s[k] = s[j]

(* No record is dropped, doubled or moved in front of another.             *)
LogsAccounted == LogTypeOK /\ EachInOnePlace /\ IngressInOrder

(* A record a running shipper thread has in its queue ends in Redis, in    *)
(* the fallback file or in a loss the code names, whatever happens to the  *)
(* handler, to Redis and to the server meanwhile.                          *)
RecordsSettle ==
  \A l \in 1..Logs :
    (worker = "running" /\ l \in ToSet(handlerQ)) ~> (l \in Stored \cup gone)
=============================================================================
