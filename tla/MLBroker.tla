------------------------------ MODULE MLBroker ------------------------------
(***************************************************************************)
(* The MLInference service (ml_inference/server.py), a broker without      *)
(* state of its own: EmitPrediction puts a prediction into the bounded     *)
(* queue of every StreamPredictions subscriber and, when its score reaches *)
(* the default threshold, an alert into that of every SubscribeAlerts      *)
(* subscriber.  A full queue loses its oldest item.  Each subscription is  *)
(* a handler that takes from its queue, filters and yields; the client     *)
(* reads as fast as it likes, or not at all, and leaves when it likes.     *)
(* Before each get the handler awaits context.is_active(); what that does  *)
(* belongs to grpc and is a parameter, IsActive.  The servicer context of  *)
(* the grpc.aio this code pins (grpcio==1.78.0) has no such method, so     *)
(* {"raises"} is what a client meets; the other values are the context     *)
(* the code was written for.                                               *)
(* A prediction is its number; None, which ends a subscription, is never   *)
(* put by this code.                                                       *)
(***************************************************************************)
EXTENDS Naturals, Sequences, FiniteSets, SequencesExt

CONSTANTS
  Streams,    (* bound: subscriptions of StreamPredictions                 *)
  Alerts,     (* bound: subscriptions of SubscribeAlerts                   *)
  NumPreds,   (* bound: predictions emitted                                *)
  Cloudy,     (* the predictions whose score reaches the default threshold *)
  Matching,   (* per subscription: the predictions its request asks for    *)
  Stalled,    (* subscriptions whose client may stop reading               *)
  IsActive,   (* what `await context.is_active()` may do                   *)
  QueueSize,  (* subscriber_queue_size: 256                                *)
  MaxSubs     (* max_subscribers: 100                                      *)

Subs == Streams \cup Alerts

ASSUME MLBrokerAssumption ==
  /\ IsFiniteSet(Subs) /\ Streams \cap Alerts = {} /\ Stalled \subseteq Subs
  /\ NumPreds \in Nat /\ Cloudy \subseteq 1..NumPreds
  /\ Matching \in [Subs -> SUBSET (1..NumPreds)]
  /\ IsActive \subseteq {"true", "false", "raises"}
  /\ {QueueSize, MaxSubs} \subseteq Nat \ {0}

VARIABLES
  at,         (* where each handler is                                     *)
  queue,      (* per registered subscription: its queue                    *)
  item,       (* what it is yielding, 0 when nothing                       *)
  got,        (* what its client has read                                  *)
  since,      (* predictions emitted when it subscribed                    *)
  connected,  (* clients that are there                                    *)
  emitted     (* predictions emitted                                       *)

broker == <<at, queue, item, got, since, connected, emitted>>

Registered == {s \in Subs : at[s] \in {"taking", "yielding"}}
Kind(s) == IF s \in Streams THEN Streams ELSE Alerts

BrokerInit ==
  /\ at = [s \in Subs |-> "idle"]
  /\ queue = [s \in Subs |-> <<>>]
  /\ item = [s \in Subs |-> 0]
  /\ got = [s \in Subs |-> <<>>]
  /\ since = [s \in Subs |-> 0]
  /\ connected = Subs
  /\ emitted = 0

(* A context is never inactive while its client is there.                  *)
Outcomes(s) == {c \in IsActive : c = "false" => s \notin connected}

(* The top of the loop: the handler looks at its context and waits for its *)
(* queue, which holds q.  Nothing suspends it between the two, nor between *)
(* a look that ends the loop and the finally clause, which unregisters the *)
(* queue (remove_prediction_subscriber, remove_alert_subscriber).          *)
LoopTop(s, q) == \E c \in Outcomes(s) :
  /\ at' = [at EXCEPT ![s] = CASE c = "true" -> "taking"
                               [] c = "false" -> "ended"
                               [] c = "raises" -> "failed"]
  /\ queue' = [queue EXCEPT ![s] = IF c = "true" THEN q ELSE <<>>]
  /\ item' = [item EXCEPT ![s] = 0]

(* add_prediction_subscriber, add_alert_subscriber: each kind has its own  *)
(* limit; beyond it the call is aborted with RESOURCE_EXHAUSTED.  A        *)
(* subscription that is registered looks at its context in the same step.  *)
Subscribe(s) ==
  /\ at[s] = "idle" /\ s \in connected
  /\ since' = [since EXCEPT ![s] = emitted]
  /\ \/ /\ Cardinality(Registered \cap Kind(s)) < MaxSubs
        /\ LoopTop(s, <<>>)
     \/ /\ Cardinality(Registered \cap Kind(s)) >= MaxSubs
        /\ at' = [at EXCEPT ![s] = "refused"]
        /\ UNCHANGED <<queue, item>>
  /\ UNCHANGED <<got, connected, emitted>>

(* Mutation: a full queue drops the new item.                              *)
PutDropNew(q, p) == IF Len(q) < QueueSize THEN Append(q, p) ELSE q

(* put_nowait; when full, get_nowait and put_nowait again.                 *)
Put(q, p) == Append(IF Len(q) < QueueSize THEN q ELSE Tail(q), p)

Receivers(p) == {s \in Registered : s \in Streams \/ p \in Cloudy}

(* EmitPrediction broadcasts to both kinds without an await.               *)
EmitPrediction ==
  /\ emitted < NumPreds
  /\ emitted' = emitted + 1
  /\ queue' = [s \in Subs |-> IF s \in Receivers(emitted') THEN Put(queue[s], emitted')
                              ELSE queue[s]]
  /\ UNCHANGED <<at, item, got, since, connected>>

(* The handler takes the next item; one that does not pass its filter is   *)
(* skipped, any other is yielded.                                          *)
Take(s) ==
  /\ at[s] = "taking" /\ queue[s] # <<>>
  /\ LET p == Head(queue[s])
     IN  \/ /\ p \in Matching[s]
            /\ at' = [at EXCEPT ![s] = "yielding"]
            /\ item' = [item EXCEPT ![s] = p]
            /\ queue' = [queue EXCEPT ![s] = Tail(@)]
         \/ /\ p \notin Matching[s]
            /\ LoopTop(s, Tail(queue[s]))
  /\ UNCHANGED <<got, since, connected, emitted>>

(* Nothing has come for 5 s.                                               *)
TimeOut(s) ==
  /\ at[s] = "taking" /\ queue[s] = <<>>
  /\ LoopTop(s, <<>>)
  /\ UNCHANGED <<got, since, connected, emitted>>

(* The client reads what was yielded and the handler goes on.              *)
Read(s) ==
  /\ at[s] = "yielding" /\ s \in connected
  /\ got' = [got EXCEPT ![s] = Append(@, item[s])]
  /\ LoopTop(s, queue[s])
  /\ UNCHANGED <<since, connected, emitted>>

Leave(s) ==
  /\ s \in connected
  /\ connected' = connected \ {s}
  /\ UNCHANGED <<at, queue, item, got, since, emitted>>

(* grpc cancels the handler of a client that has gone; the finally clause  *)
(* unregisters its queue.                                                  *)
End(s) ==
  /\ s \in Registered /\ s \notin connected
  /\ at' = [at EXCEPT ![s] = "ended"]
  /\ queue' = [queue EXCEPT ![s] = <<>>]
  /\ item' = [item EXCEPT ![s] = 0]
  /\ UNCHANGED <<got, since, connected, emitted>>

BrokerNext ==
  \/ EmitPrediction
  \/ \E s \in Subs : Subscribe(s) \/ Take(s) \/ TimeOut(s) \/ Read(s) \/ Leave(s) \/ End(s)

(* The handlers run; a client reads on unless it is among the stalled.     *)
BrokerFairness ==
  /\ \A s \in Subs : WF_broker(Take(s)) /\ WF_broker(End(s))
  /\ \A s \in Subs \ Stalled : WF_broker(Read(s))

BrokerSpec == BrokerInit /\ [][BrokerNext]_broker /\ BrokerFairness

-----------------------------------------------------------------------------
BrokerTypeOK ==
  /\ at \in [Subs -> {"idle", "refused", "taking", "yielding", "ended", "failed"}]
  /\ \A s \in Subs : /\ Len(queue[s]) <= QueueSize
                     /\ ToSet(queue[s]) \cup ToSet(got[s]) \subseteq 1..NumPreds
  /\ item \in [Subs -> 0..NumPreds] /\ since \in [Subs -> 0..NumPreds]
  /\ connected \subseteq Subs /\ emitted \in 0..NumPreds

(* What the broker sends a subscription.                                   *)
Sent(s) == {p \in since[s] + 1 .. emitted : s \in Streams \/ p \in Cloudy}
Newer(S, T) == \A p \in S, q \in T : p > q

(* While a subscription lasts, its client reads predictions in the order   *)
(* of emission, each once, and what its queue has lost is older than all   *)
(* the queue holds: under back-pressure it is the oldest that goes         *)
(* ("dropped oldest item"), and the queue is the newest part of what was   *)
(* sent, without a gap.  It is about the queues and the handlers' loops,   *)
(* whatever is_active does; with a context that raises no queue lasts.     *)
NewestKept ==
  /\ BrokerTypeOK
  /\ \A s \in Registered :
       LET inQueue == ToSet(queue[s])
           before == Sent(s) \ inQueue
       IN  /\ Newer(inQueue, before)
           /\ Cardinality(inQueue) = Len(queue[s])
           /\ \A i \in 1..Len(got[s]) - 1 : got[s][i] < got[s][i + 1]
           /\ item[s] # 0 => Newer(inQueue, {item[s]}) /\ Newer({item[s]}, ToSet(got[s]))

(* "Live stream of all scored windows" (docs/ml_inference_service.md): the *)
(* newest prediction, which nothing pushes out of a queue, reaches every   *)
(* client that had subscribed before it, was not refused, asked for it and *)
(* goes on reading.                                                        *)
LastArrives ==
  \A s \in Subs \ Stalled :
    (/\ emitted = NumPreds /\ at[s] \notin {"idle", "refused"}
     /\ NumPreds \in Matching[s] \cap Sent(s))
      ~> (NumPreds \in ToSet(got[s]) \/ s \notin connected)
=============================================================================
