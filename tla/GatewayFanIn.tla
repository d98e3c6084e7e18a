---------------------------- MODULE GatewayFanIn ----------------------------
(***************************************************************************)
(* StreamImages of the daq_data gateway (daq_data/aggregator.py): one      *)
(* drain task per edge copies the edge's responses into a bounded queue    *)
(* and ends with a sentinel; the handler takes from the queue, yields to   *)
(* the consumer and, at the end or when the consumer disconnects, cancels  *)
(* the drain tasks and waits for them.  Edges and consumer are remote: an  *)
(* edge answers, ends or fails when it likes, a consumer reads or leaves.  *)
(***************************************************************************)
EXTENDS Naturals, Sequences, FiniteSets

CONSTANTS
  Edges,      (* the targets of _edge_stubs                                *)
  QueueSize,  (* maxsize of the queue: 200                                 *)
  MaxFrames,  (* bound: responses of one edge                              *)
  Sentinel    (* None, put by a drain task when it is done                 *)

ASSUME GatewayAssumption ==
  /\ IsFiniteSet(Edges) /\ Edges # {}
  /\ QueueSize \in Nat \ {0} /\ MaxFrames \in Nat
  /\ Sentinel \notin Edges

VARIABLES
  queue,        (* the responses, as <<edge, number>>, and the sentinels, as <<Sentinel, edge>> *)
  drain,        (* where each _drain_edge task is                          *)
  received,     (* responses each drain task has received                  *)
  yielded,      (* number of the last response of each edge that was yielded *)
  handler,      (* where the StreamImages handler is                       *)
  finished,     (* sentinels it has taken                                  *)
  disconnected  (* context.cancelled(): the consumer has gone              *)

vars == <<queue, drain, received, yielded, handler, finished, disconnected>>

DrainStates == {"reading", "putting", "ending", "cancelled", "ended"}
HandlerStates == {"taking", "yielding", "cleaning", "ended"}
NumEdges == Cardinality(Edges)
Room == Len(queue) < QueueSize

Init ==
  /\ queue = <<>>
  /\ drain = [e \in Edges |-> "reading"]
  /\ received = [e \in Edges |-> 0]
  /\ yielded = [e \in Edges |-> 0]
  /\ handler = "taking"
  /\ finished = 0
  /\ disconnected = FALSE

-----------------------------------------------------------------------------
(* Drain tasks                                                             *)

(* queue.put(resp) returns at once when there is room and blocks otherwise.*)
Put(e, n) ==
  \/ /\ Room
     /\ queue' = Append(queue, <<e, n>>)
     /\ drain' = [drain EXCEPT ![e] = "reading"]
  \/ /\ ~Room
     /\ drain' = [drain EXCEPT ![e] = "putting"]
     /\ UNCHANGED queue

(* Mutation: the sentinel overtakes what is queued.                        *)
EndInFront(e) ==
  \/ /\ Room
     /\ queue' = <<<<Sentinel, e>>>> \o queue
     /\ drain' = [drain EXCEPT ![e] = "ended"]
  \/ /\ ~Room
     /\ drain' = [drain EXCEPT ![e] = "ending"]
     /\ UNCHANGED queue

(* The finally clause: queue.put(None).                                    *)
End(e) ==
  \/ /\ Room
     /\ queue' = Append(queue, <<Sentinel, e>>)
     /\ drain' = [drain EXCEPT ![e] = "ended"]
  \/ /\ ~Room
     /\ drain' = [drain EXCEPT ![e] = "ending"]
     /\ UNCHANGED queue

(* The edge sends a response ...                                           *)
EdgeResponds(e) ==
  /\ drain[e] = "reading"
  /\ received[e] < MaxFrames
  /\ received' = [received EXCEPT ![e] = @ + 1]
  /\ \/ ~disconnected /\ Put(e, received[e] + 1)
     \/ disconnected /\ End(e)
  /\ UNCHANGED <<yielded, handler, finished, disconnected>>

(* ... or its stream ends, by itself or with an error.                     *)
EdgeEnds(e) ==
  /\ drain[e] = "reading"
  /\ End(e)
  /\ UNCHANGED <<received, yielded, handler, finished, disconnected>>

(* A blocked put finds room.                                               *)
Unblock(e) ==
  /\ Room
  /\ \/ drain[e] = "putting" /\ Put(e, received[e])
     \/ drain[e] = "ending" /\ End(e)
  /\ UNCHANGED <<received, yielded, handler, finished, disconnected>>

(* CancelledError reaches the task: the finally clause is run all the same.*)
Cancelled(e) ==
  /\ drain[e] = "cancelled"
  /\ End(e)
  /\ UNCHANGED <<received, yielded, handler, finished, disconnected>>

-----------------------------------------------------------------------------
(* The handler                                                             *)

(* Mutation: the tasks are waited for without being cancelled.             *)
CleanUpUncancelled == handler' = "cleaning" /\ UNCHANGED drain

(* The finally clause of the handler cancels every task that is not done;  *)
(* one that is blocked putting its sentinel gives that up.                 *)
CleanUp ==
  /\ handler' = "cleaning"
  /\ drain' = [e \in Edges |-> CASE drain[e] \in {"reading", "putting"} -> "cancelled"
                                 [] drain[e] \in {"ending", "cancelled", "ended"} -> "ended"]

AllFinished(n) == n = NumEdges

(* An item is taken: a response is yielded, a sentinel counted; the last   *)
(* sentinel ends the loop.                                                 *)
Take ==
  /\ handler = "taking" /\ queue # <<>>
  /\ queue' = Tail(queue)
  /\ LET item == Head(queue) IN
     \/ /\ item[1] # Sentinel
        /\ yielded' = [yielded EXCEPT ![item[1]] = item[2]]
        /\ handler' = "yielding"
        /\ UNCHANGED <<drain, finished>>
     \/ /\ item[1] = Sentinel
        /\ finished' = finished + 1
        /\ IF AllFinished(finished') THEN CleanUp ELSE UNCHANGED <<drain, handler>>
        /\ UNCHANGED yielded
  /\ UNCHANGED <<received, disconnected>>

(* The consumer has read the response.                                     *)
Yielded ==
  /\ handler = "yielding"
  /\ handler' = "taking"
  /\ UNCHANGED <<queue, drain, received, yielded, finished, disconnected>>

(* The consumer goes ...                                                   *)
Disconnect ==
  /\ handler \in {"taking", "yielding"}
  /\ disconnected' = TRUE
  /\ UNCHANGED <<queue, drain, received, yielded, handler, finished>>

(* ... and the handler sees it at the loop head, or is cancelled where it  *)
(* is suspended.                                                           *)
HandlerCancelled ==
  /\ handler \in {"taking", "yielding"} /\ disconnected
  /\ CleanUp
  /\ UNCHANGED <<queue, received, yielded, finished, disconnected>>

(* gather returns when every drain task is done.                           *)
Gathered ==
  /\ handler = "cleaning"
  /\ \A e \in Edges : drain[e] = "ended"
  /\ handler' = "ended"
  /\ UNCHANGED <<queue, drain, received, yielded, finished, disconnected>>

DrainStep(e) == EdgeResponds(e) \/ EdgeEnds(e) \/ Unblock(e) \/ Cancelled(e)

Next ==
  \/ \E e \in Edges : DrainStep(e)
  \/ Take \/ Yielded \/ Disconnect \/ HandlerCancelled \/ Gathered

Spec == Init /\ [][Next]_vars

(* The event loop runs what is ready and a connected consumer reads.       *)
Fairness ==
  /\ \A e \in Edges : SF_vars(Unblock(e)) /\ WF_vars(Cancelled(e))
  /\ WF_vars(Take) /\ WF_vars(Yielded) /\ WF_vars(HandlerCancelled) /\ WF_vars(Gathered)

FairSpec == Spec /\ Fairness

-----------------------------------------------------------------------------
(* Properties                                                              *)

(* The variables keep their types, the queue its bound, and no more        *)
(* sentinels are counted than there are edges.                             *)
TypeOK ==
  /\ queue \in Seq((Edges \X (1..MaxFrames)) \cup ({Sentinel} \X Edges))
  /\ Len(queue) <= QueueSize
  /\ drain \in [Edges -> DrainStates]
  /\ received \in [Edges -> 0..MaxFrames]
  /\ yielded \in [Edges -> 0..MaxFrames]
  /\ handler \in HandlerStates
  /\ finished \in 0..NumEdges
  /\ disconnected \in BOOLEAN

(* What the gateway yields of one edge is what the edge sent, in order and *)
(* without a gap, whatever the other edges do and however often a put had  *)
(* to wait for room: the queue continues, in order, where the gateway is.  *)
Of(e) == {i \in DOMAIN queue : queue[i][1] = e}

InOrder ==
  \A e \in Edges :
    /\ \E n \in yielded[e]..received[e] : {queue[i][2] : i \in Of(e)} = (yielded[e] + 1)..n
    /\ \A i, j \in Of(e) : i < j => queue[i][2] < queue[j][2]

(* A stream that ends while the consumer is there has yielded everything   *)
(* that every edge sent: no sentinel overtakes a response.                 *)
NothingLost ==
  TypeOK /\ InOrder /\
  (handler \in {"cleaning", "ended"} /\ ~disconnected
    => queue = <<>> /\ \A e \in Edges : drain[e] = "ended" /\ yielded[e] = received[e])

Unfinished == {e \in Edges : drain[e] # "ended"}

(* "Best-effort: a down or erroring edge is logged and excluded; remaining *)
(* edges continue streaming": a response that has been received reaches    *)
(* the consumer unless it disconnects.  "The gateway stream ends when all  *)
(* edges have finished or the consumer disconnects": once the handler      *)
(* cleans up it returns, provided that the queue, from which nobody takes  *)
(* any more, has room for the sentinels of the tasks it has cancelled;     *)
(* without room it never returns.                                          *)
EdgesServed ==
  /\ \A e \in Edges : \A n \in 1..MaxFrames :
       received[e] = n ~> (yielded[e] >= n \/ disconnected)
  /\ (\A e \in Edges : drain[e] \in {"ending", "ended"}) /\ ~disconnected
       ~> handler = "ended" \/ disconnected
  /\ (handler = "cleaning" /\ Len(queue) + Cardinality(Unfinished) <= QueueSize)
       ~> handler = "ended"
=============================================================================
