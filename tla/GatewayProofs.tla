---------------------------- MODULE GatewayProofs ----------------------------
(***************************************************************************)
(* Proofs about GatewayFanIn and GatewayProxy, for any number of edges,    *)
(* any size of the queue and any number of responses and calls.            *)
(***************************************************************************)
EXTENDS GatewayProxy, FiniteSetTheorems, TLAPS

(* The queue q goes on, in order, where the gateway has yielded y, up to   *)
(* response n of the edge e.                                               *)
Continues(q, e, y, n) ==
  /\ \A i \in 1..Len(q) : q[i][1] = e => y < q[i][2] /\ q[i][2] <= n
  /\ \A k \in (y + 1)..n : \E i \in 1..Len(q) : q[i] = <<e, k>>
  /\ \A i, j \in 1..Len(q) : i < j /\ q[i][1] = e /\ q[j][1] = e => q[i][2] < q[j][2]

(* The sentinel of e is in q.                                              *)
Shown(q, e) == \E i \in 1..Len(q) : q[i] = <<Sentinel, e>>
(* What of e is in q after it: nothing.                                    *)
Last(q, e) ==
  \A i, j \in 1..Len(q) : i < j /\ q[i] = <<Sentinel, e>> => q[j] # <<Sentinel, e>> /\ q[j][1] # e
(* Nothing of e is in q.                                                   *)
Gone(q, e) == \A i \in 1..Len(q) : q[i][1] # e

(* The handler still takes from the queue.                                 *)
Running == handler \in {"taking", "yielding"}
(* The tasks whose sentinel has been taken.                                *)
Counted == {e \in Edges : drain[e] = "ended" /\ ~Shown(queue, e)}
(* What is put into the queue.                                             *)
Item == (Edges \X (1..MaxFrames)) \cup ({Sentinel} \X Edges)

(* A drain task that puts has not put the last response yet; while the     *)
(* consumer is there nothing is dropped.                                   *)
Flows(e) ==
  \E n \in yielded[e]..received[e] :
    /\ drain[e] = "reading" => n = received[e]
    /\ drain[e] = "putting" => n = received[e] - 1
    /\ Running /\ ~disconnected /\ drain[e] # "putting" => n = received[e]
    /\ Continues(queue, e, yielded[e], n)

(* A task ends by one sentinel, behind all it has put.                     *)
Ends(e) ==
  /\ drain[e] # "cancelled"
  /\ Shown(queue, e) => drain[e] = "ended"
  /\ Last(queue, e)
  /\ drain[e] = "ended" /\ ~Shown(queue, e) => Gone(queue, e)

(* The handler has counted the sentinels it has taken.                     *)
Streaming == Running => finished = Cardinality(Counted) /\ \A e \in Edges : Ends(e)

(* When it no longer takes, all has been taken or the consumer has gone.   *)
Over ==
  ~Running =>
    /\ \A e \in Edges : drain[e] \notin {"reading", "putting"}
    /\ ~disconnected => queue = <<>> /\ \A e \in Edges : drain[e] = "ended" /\ yielded[e] = received[e]

(* The inductive invariant of one stream. That nothing is lost needs more  *)
(* than the order of the queue: the count of the sentinels says which      *)
(* tasks are done only together with where the other sentinels are (Ends,  *)
(* Streaming).                                                             *)
IInv == TypeOK /\ (\A e \in Edges : Flows(e)) /\ Streaming /\ Over

-----------------------------------------------------------------------------
(* The queue                                                               *)

(* A queue with one item more, index by index.                             *)
LEMMA Appended ==
  ASSUME NEW q \in Seq(Item), NEW x \in Item
  PROVE  /\ Append(q, x) \in Seq(Item) /\ Len(q) \in Nat /\ Len(Append(q, x)) = Len(q) + 1
         /\ \A i \in 1..Len(q) : Append(q, x)[i] = q[i] /\ i \in 1..Len(q) + 1 /\ i < Len(q) + 1
         /\ Append(q, x)[Len(q) + 1] = x
         /\ \A i \in 1..Len(q) + 1 : i \in 1..Len(q) \/ i = Len(q) + 1
<1>1. Len(q) \in Nat
  OBVIOUS
<1>. QED BY <1>1

(* A put of the next response of e continues the queue of e ...            *)
LEMMA PutContinues ==
  ASSUME NEW q \in Seq(Item), NEW e \in Edges, NEW y \in Nat, NEW n \in Nat, y <= n,
         n + 1 \in 1..MaxFrames, Continues(q, e, y, n)
  PROVE  Continues(Append(q, <<e, n + 1>>), e, y, n + 1)
<1>1. PICK x, p, m : x = <<e, n + 1>> /\ p = Append(q, x) /\ m = Len(q)
  OBVIOUS
<1>2. x \in Item /\ x[1] = e /\ x[2] = n + 1
  BY <1>1 DEF Item
<1>3. /\ m \in Nat /\ Len(p) = m + 1 /\ p[m + 1] = x
      /\ \A i \in 1..m : p[i] = q[i] /\ i \in 1..m + 1 /\ i < m + 1
      /\ \A i \in 1..m + 1 : i \in 1..m \/ i = m + 1
  BY <1>1, <1>2, Appended
<1>4. \A i \in 1..m : q[i][1] = e => y < q[i][2] /\ q[i][2] <= n /\ q[i][2] \in Nat
  <2>1. ASSUME NEW i \in 1..m, q[i][1] = e PROVE q[i][2] \in Nat
    <3>1. q[i] \in Item
      BY <1>1
    <3>. QED BY <2>1, <3>1, GatewayAssumption DEF Item
  <2>. QED BY <1>1, <2>1 DEF Continues
<1>5. ASSUME NEW i \in 1..m + 1, p[i][1] = e PROVE y < p[i][2] /\ p[i][2] <= n + 1
  <2>1. CASE i \in 1..m
    BY <1>3, <1>4, <1>5, <2>1
  <2>2. CASE i = m + 1
    BY <1>2, <1>3, <2>2
  <2>. QED BY <1>3, <2>1, <2>2
<1>6. ASSUME NEW k \in (y + 1)..(n + 1) PROVE \E i \in 1..m + 1 : p[i] = <<e, k>>
  <2>1. CASE k = n + 1
    BY <1>1, <1>3, <2>1
  <2>2. CASE k # n + 1
    <3>1. k \in (y + 1)..n
      BY <2>2
    <3>2. PICK i \in 1..m : q[i] = <<e, k>>
      BY <1>1, <3>1 DEF Continues
    <3>. QED BY <1>3, <3>2
  <2>. QED BY <2>1, <2>2
<1>7. ASSUME NEW i \in 1..m + 1, NEW j \in 1..m + 1, i < j, p[i][1] = e, p[j][1] = e
      PROVE  p[i][2] < p[j][2]
  <2>1. i \in 1..m
    BY <1>3, <1>7
  <2>2. CASE j \in 1..m
    BY <1>1, <1>3, <1>7, <2>1, <2>2 DEF Continues
  <2>3. CASE j = m + 1
    BY <1>2, <1>3, <1>4, <1>7, <2>1, <2>3
  <2>. QED BY <1>3, <2>2, <2>3
<1>. QED BY <1>1, <1>3, <1>5, <1>6, <1>7 DEF Continues

(* ... and any other put leaves it as it is.                               *)
LEMMA OtherContinues ==
  ASSUME NEW q \in Seq(Item), NEW x \in Item, NEW e \in Edges, x[1] # e,
         NEW y \in Nat, NEW n \in Nat, Continues(q, e, y, n)
  PROVE  Continues(Append(q, x), e, y, n)
<1>1. PICK p, m : p = Append(q, x) /\ m = Len(q)
  OBVIOUS
<1>2. /\ m \in Nat /\ Len(p) = m + 1 /\ p[m + 1] = x
      /\ \A i \in 1..m : p[i] = q[i] /\ i \in 1..m + 1 /\ i < m + 1
      /\ \A i \in 1..m + 1 : i \in 1..m \/ i = m + 1
  BY <1>1, Appended
<1>3. \A i \in 1..m + 1 : p[i][1] = e => i \in 1..m
  BY <1>2
<1>. QED BY <1>1, <1>2, <1>3 DEF Continues

(* A queue without its first item, index by index.                         *)
LEMMA Taken ==
  ASSUME NEW q \in Seq(Item), q # <<>>
  PROVE  /\ Tail(q) \in Seq(Item) /\ Len(q) \in Nat /\ Len(q) >= 1 /\ Len(Tail(q)) = Len(q) - 1
         /\ Head(q) = q[1] /\ q[1] \in Item
         /\ \A i \in 1..Len(q) - 1 : Tail(q)[i] = q[i + 1] /\ i + 1 \in 1..Len(q) /\ i \in 1..Len(q)
         /\ \A i \in 1..Len(q) : i = 1 \/ (i - 1 \in 1..Len(q) - 1 /\ Tail(q)[i - 1] = q[i])
<1>1. Len(q) \in Nat /\ Len(q) >= 1
  OBVIOUS
<1>2. /\ Tail(q) \in Seq(Item) /\ Len(Tail(q)) = Len(q) - 1 /\ Head(q) = q[1] /\ q[1] \in Item
      /\ \A i \in 1..Len(q) - 1 : Tail(q)[i] = q[i + 1]
  BY <1>1
<1>3. \A i \in 1..Len(q) - 1 : i + 1 \in 1..Len(q) /\ i \in 1..Len(q)
  BY <1>1
<1>4. ASSUME NEW i \in 1..Len(q), i # 1 PROVE i - 1 \in 1..Len(q) - 1 /\ Tail(q)[i - 1] = q[i]
  <2>1. i - 1 \in 1..Len(q) - 1 /\ (i - 1) + 1 = i
    BY <1>1, <1>4
  <2>. QED BY <1>2, <2>1
<1>. QED BY <1>1, <1>2, <1>3, <1>4

(* What is taken of e is the next response of e.                           *)
LEMMA TakeContinues ==
  ASSUME NEW q \in Seq(Item), q # <<>>, NEW e \in Edges, NEW y \in Nat, NEW n \in Nat,
         Continues(q, e, y, n), q[1][1] = e
  PROVE  q[1] = <<e, y + 1>> /\ y + 1 <= n /\ Continues(Tail(q), e, y + 1, n)
<1>1. PICK p, m : p = Tail(q) /\ m = Len(q)
  OBVIOUS
<1>2. /\ m \in Nat /\ m >= 1 /\ Len(p) = m - 1 /\ q[1] \in Item
      /\ \A i \in 1..m - 1 : p[i] = q[i + 1] /\ i + 1 \in 1..m /\ i \in 1..m
      /\ \A i \in 1..m : i = 1 \/ (i - 1 \in 1..m - 1 /\ p[i - 1] = q[i])
  BY <1>1, Taken
<1>3. PICK k : q[1] = <<e, k>> /\ k \in Nat
  <2>1. PICK a \in Edges, k \in 1..MaxFrames : q[1] = <<a, k>>
    <3>1. CASE q[1] \in Edges \X (1..MaxFrames)
      BY <3>1
    <3>2. CASE q[1] \in {Sentinel} \X Edges
      <4>1. q[1][1] = Sentinel
        BY <3>2
      <4>. QED BY <4>1, GatewayAssumption
    <3>. QED BY <1>2, <3>1, <3>2 DEF Item
  <2>2. a = e
    BY <2>1
  <2>. QED BY <2>1, <2>2, GatewayAssumption
<1>4. y < k /\ k <= n
  BY <1>1, <1>2, <1>3 DEF Continues
<1>5. k = y + 1
  <2>1. PICK i \in 1..m : q[i] = <<e, y + 1>>
    <3>1. y + 1 \in (y + 1)..n
      BY <1>3, <1>4
    <3>. QED BY <1>1, <3>1 DEF Continues
  <2>2. i = 1 \/ k < y + 1
    <3>1. SUFFICES ASSUME i # 1 PROVE k < y + 1
      OBVIOUS
    <3>2. 1 \in 1..m /\ 1 < i
      BY <1>2, <2>1, <3>1
    <3>3. q[1][1] = e /\ q[i][1] = e /\ q[1][2] = k /\ q[i][2] = y + 1
      BY <1>3, <2>1
    <3>4. q[1][2] < q[i][2]
      BY <1>1, <2>1, <3>2, <3>3 DEF Continues
    <3>. QED BY <3>3, <3>4
  <2>. QED BY <1>3, <1>4, <2>1, <2>2
<1>6. ASSUME NEW i \in 1..m - 1, p[i][1] = e PROVE y + 1 < p[i][2] /\ p[i][2] <= n
  <2>1. i + 1 \in 1..m /\ 1 \in 1..m /\ 1 < i + 1 /\ p[i] = q[i + 1]
    BY <1>2
  <2>. QED BY <1>1, <1>3, <1>5, <1>6, <2>1 DEF Continues
<1>7. ASSUME NEW j \in (y + 1 + 1)..n PROVE \E i \in 1..m - 1 : p[i] = <<e, j>>
  <2>1. PICK i \in 1..m : q[i] = <<e, j>>
    <3>1. j \in (y + 1)..n
      OBVIOUS
    <3>. QED BY <1>1, <3>1 DEF Continues
  <2>2. i # 1
    BY <1>3, <1>5, <2>1
  <2>. QED BY <1>2, <2>1, <2>2
<1>8. ASSUME NEW i \in 1..m - 1, NEW j \in 1..m - 1, i < j, p[i][1] = e, p[j][1] = e
      PROVE  p[i][2] < p[j][2]
  <2>1. i + 1 \in 1..m /\ j + 1 \in 1..m /\ i + 1 < j + 1 /\ p[i] = q[i + 1] /\ p[j] = q[j + 1]
    BY <1>2, <1>8
  <2>. QED BY <1>1, <1>8, <2>1 DEF Continues
<1>9. Continues(p, e, y + 1, n)
  BY <1>2, <1>6, <1>7, <1>8 DEF Continues
<1>. QED BY <1>1, <1>3, <1>4, <1>5, <1>9

(* What is taken of others leaves the queue of e as it is.                 *)
LEMMA PassContinues ==
  ASSUME NEW q \in Seq(Item), q # <<>>, NEW e \in Edges, NEW y \in Nat, NEW n \in Nat,
         Continues(q, e, y, n), q[1][1] # e
  PROVE  Continues(Tail(q), e, y, n)
<1>1. PICK p, m : p = Tail(q) /\ m = Len(q)
  OBVIOUS
<1>2. /\ m \in Nat /\ m >= 1 /\ Len(p) = m - 1
      /\ \A i \in 1..m - 1 : p[i] = q[i + 1] /\ i + 1 \in 1..m
      /\ \A i \in 1..m : i = 1 \/ (i - 1 \in 1..m - 1 /\ p[i - 1] = q[i])
  BY <1>1, Taken
<1>3. \A i, j \in 1..m - 1 : i < j => i + 1 < j + 1
  BY <1>2
<1>4. \A i \in 1..m - 1 : p[i][1] = e => y < p[i][2] /\ p[i][2] <= n
  BY <1>1, <1>2 DEF Continues
<1>5. ASSUME NEW k \in (y + 1)..n PROVE \E i \in 1..m - 1 : p[i] = <<e, k>>
  <2>1. PICK i \in 1..m : q[i] = <<e, k>>
    BY <1>1 DEF Continues
  <2>2. i # 1
    <3>1. q[i][1] = e
      BY <2>1
    <3>. QED BY <3>1
  <2>3. i - 1 \in 1..m - 1 /\ p[i - 1] = <<e, k>>
    BY <1>2, <2>1, <2>2
  <2>. QED BY <2>3
<1>6. \A i, j \in 1..m - 1 : i < j /\ p[i][1] = e /\ p[j][1] = e => p[i][2] < p[j][2]
  BY <1>1, <1>2, <1>3 DEF Continues
<1>. QED BY <1>1, <1>2, <1>4, <1>5, <1>6 DEF Continues

(* A put moves no sentinel, and none is followed by anything of its edge.  *)
LEMMA AppendEnds ==
  ASSUME NEW q \in Seq(Item), NEW x \in Item, NEW e \in Edges
  PROVE  /\ Shown(Append(q, x), e) <=> Shown(q, e) \/ x = <<Sentinel, e>>
         /\ Last(q, e) /\ ((x[1] # e /\ x # <<Sentinel, e>>) \/ ~Shown(q, e)) => Last(Append(q, x), e)
         /\ Gone(q, e) /\ x[1] # e => Gone(Append(q, x), e)
<1>1. PICK p, m : p = Append(q, x) /\ m = Len(q)
  OBVIOUS
<1>2. /\ m \in Nat /\ Len(p) = m + 1 /\ p[m + 1] = x
      /\ \A i \in 1..m : p[i] = q[i] /\ i \in 1..m + 1 /\ i < m + 1
      /\ \A i \in 1..m + 1 : i \in 1..m \/ i = m + 1
  BY <1>1, Appended
<1>3. m + 1 \in 1..m + 1
  BY <1>2
<1>4. Shown(p, e) <=> Shown(q, e) \/ x = <<Sentinel, e>>
  BY <1>1, <1>2, <1>3 DEF Shown
<1>5. Last(q, e) /\ ((x[1] # e /\ x # <<Sentinel, e>>) \/ ~Shown(q, e)) => Last(p, e)
  <2>1. \A i, j \in 1..m + 1 : i < j => i \in 1..m
    BY <1>2
  <2>. QED BY <1>1, <1>2, <2>1 DEF Last, Shown
<1>6. Gone(q, e) /\ x[1] # e => Gone(p, e)
  BY <1>1, <1>2 DEF Gone
<1>. QED BY <1>1, <1>4, <1>5, <1>6

(* What is taken uncovers no second sentinel.                              *)
LEMMA TailEnds ==
  ASSUME NEW q \in Seq(Item), q # <<>>, NEW e \in Edges
  PROVE  /\ q[1] # <<Sentinel, e>> => (Shown(Tail(q), e) <=> Shown(q, e))
         /\ Last(q, e) => Last(Tail(q), e)
         /\ Gone(q, e) => Gone(Tail(q), e)
         /\ q[1] = <<Sentinel, e>> /\ Last(q, e) => ~Shown(Tail(q), e) /\ Gone(Tail(q), e)
<1>1. PICK p, m : p = Tail(q) /\ m = Len(q)
  OBVIOUS
<1>2. /\ m \in Nat /\ m >= 1 /\ Len(p) = m - 1
      /\ \A i \in 1..m - 1 : p[i] = q[i + 1] /\ i + 1 \in 1..m /\ 1 < i + 1
      /\ \A i \in 1..m : i = 1 \/ (i - 1 \in 1..m - 1 /\ p[i - 1] = q[i])
  BY <1>1, Taken
<1>3. q[1] # <<Sentinel, e>> => (Shown(p, e) <=> Shown(q, e))
  <2>1. ASSUME q[1] # <<Sentinel, e>>, NEW i \in 1..m, q[i] = <<Sentinel, e>> PROVE Shown(p, e)
    <3>1. i - 1 \in 1..m - 1 /\ p[i - 1] = <<Sentinel, e>>
      BY <1>2, <2>1
    <3>. QED BY <1>2, <3>1 DEF Shown
  <2>2. ASSUME NEW i \in 1..m - 1, p[i] = <<Sentinel, e>> PROVE Shown(q, e)
    <3>1. i + 1 \in 1..m /\ q[i + 1] = <<Sentinel, e>>
      BY <1>2, <2>2
    <3>. QED BY <1>1, <3>1 DEF Shown
  <2>. QED BY <1>1, <1>2, <2>1, <2>2 DEF Shown
<1>4. Last(q, e) => Last(p, e)
  <2>1. \A i, j \in 1..m - 1 : i < j => i + 1 < j + 1
    BY <1>2
  <2>. QED BY <1>1, <1>2, <2>1 DEF Last
<1>5. Gone(q, e) => Gone(p, e)
  BY <1>1, <1>2 DEF Gone
<1>6. q[1] = <<Sentinel, e>> /\ Last(q, e) => ~Shown(p, e) /\ Gone(p, e)
  <2>1. 1 \in 1..m
    BY <1>2
  <2>. QED BY <1>1, <1>2, <2>1 DEF Shown, Gone, Last
<1>. QED BY <1>1, <1>3, <1>4, <1>5, <1>6

-----------------------------------------------------------------------------
(* Drain tasks                                                             *)

(* The parts of the invariant, and the types the steps need.               *)
LEMMA Facts ==
  ASSUME IInv
  PROVE  /\ TypeOK /\ Streaming /\ Over /\ \A e \in Edges : Flows(e)
         /\ queue \in Seq(Item) /\ NumEdges \in Nat
         /\ \A e \in Edges : received[e] \in Nat /\ yielded[e] \in Nat
         /\ \A e \in Edges : drain[e] \in DrainStates
         /\ Sentinel \notin Edges /\ QueueSize \in Nat \ {0} /\ MaxFrames \in Nat
<1>1. TypeOK /\ NumEdges \in Nat
  BY GatewayAssumption, FS_CardinalityType DEF IInv, NumEdges
<1>. QED BY <1>1, GatewayAssumption DEF IInv, TypeOK, Item

(* An empty queue.                                                         *)
LEMMA InitInv == ASSUME Init PROVE IInv
<1>1. NumEdges \in Nat /\ MaxFrames \in Nat /\ 0 <= QueueSize /\ Len(queue) = 0
  BY GatewayAssumption, FS_CardinalityType DEF Init, NumEdges
<1>2. TypeOK
  <2>1. queue \in Seq((Edges \X (1..MaxFrames)) \cup ({Sentinel} \X Edges))
    BY DEF Init
  <2>2. 0 \in 0..MaxFrames /\ 0 \in 0..NumEdges /\ Len(queue) <= QueueSize
    BY <1>1
  <2>3. /\ drain \in [Edges -> DrainStates] /\ handler \in HandlerStates
        /\ received \in [Edges -> 0..MaxFrames] /\ yielded \in [Edges -> 0..MaxFrames]
        /\ finished \in 0..NumEdges /\ disconnected \in BOOLEAN
    BY <2>2 DEF Init, DrainStates, HandlerStates
  <2>. QED BY <2>1, <2>2, <2>3 DEF TypeOK
<1>3. ASSUME NEW e \in Edges PROVE Flows(e)
  <2>1. Continues(queue, e, 0, 0)
    BY <1>1 DEF Continues
  <2>2. yielded[e] = 0 /\ received[e] = 0 /\ drain[e] = "reading"
    BY DEF Init
  <2>. QED BY <2>1, <2>2 DEF Flows
<1>4. Streaming
  <2>1. Counted = {}
    BY DEF Counted, Init
  <2>2. \A e \in Edges : Ends(e)
    BY <1>1 DEF Ends, Shown, Last, Init
  <2>. QED BY <2>1, <2>2, FS_EmptySet DEF Streaming, Init
<1>5. Over
  BY DEF Init, Over, Running
<1>. QED BY <1>2, <1>3, <1>4, <1>5 DEF IInv

(* What one drain task does leaves the others where they are.              *)
LEMMA OneDrain ==
  ASSUME IInv, NEW e \in Edges, NEW s \in DrainStates, NEW r \in 0..MaxFrames,
         drain' = [drain EXCEPT ![e] = s], received' = [received EXCEPT ![e] = r],
         UNCHANGED <<yielded, handler, finished, disconnected>>,
         drain[e] # "ended", received[e] <= r, s # "cancelled",
         ~Running => s \notin {"reading", "putting"},
         Flows(e)',
         \/ UNCHANGED queue /\ s # "ended"
         \/ /\ Room
            /\ \/ \E n \in 1..MaxFrames : queue' = Append(queue, <<e, n>>) /\ Running /\ s = "reading"
               \/ queue' = Append(queue, <<Sentinel, e>>) /\ s = "ended"
  PROVE  IInv'
<1>0. /\ TypeOK /\ Streaming /\ Over /\ \A f \in Edges : Flows(f)
      /\ queue \in Seq(Item) /\ Sentinel \notin Edges
      /\ \A f \in Edges : received[f] \in Nat /\ yielded[f] \in Nat
  BY Facts
<1>1. /\ drain'[e] = s /\ received'[e] = r
      /\ \A f \in Edges \ {e} : drain'[f] = drain[f] /\ received'[f] = received[f]
  BY <1>0 DEF TypeOK
<1>2. \/ queue' = queue /\ s # "ended"
      \/ \E x \in Item : /\ Room /\ queue' = Append(queue, x)
                         /\ \/ x[1] = e /\ Running /\ s = "reading"
                            \/ x = <<Sentinel, e>> /\ s = "ended"
  <2>1. ASSUME NEW n \in 1..MaxFrames PROVE <<e, n>> \in Item /\ <<e, n>>[1] = e
    BY DEF Item
  <2>2. <<Sentinel, e>> \in Item
    BY DEF Item
  <2>. QED BY <2>1, <2>2
<1>3. queue' \in Seq(Item) /\ Len(queue') <= QueueSize
  <2>1. CASE queue' = queue
    BY <1>0, <2>1 DEF TypeOK
  <2>2. ASSUME NEW x \in Item, Room, queue' = Append(queue, x)
        PROVE  queue' \in Seq(Item) /\ Len(queue') <= QueueSize
    BY <1>0, <2>2, Appended, GatewayAssumption DEF Room
  <2>. QED BY <1>2, <2>1, <2>2
<1>4. TypeOK'
  BY <1>0, <1>3 DEF TypeOK, Item
<1>5. ASSUME NEW f \in Edges, f # e PROVE Flows(f)'
  <2>1. PICK n \in yielded[f]..received[f] :
          /\ drain[f] = "reading" => n = received[f]
          /\ drain[f] = "putting" => n = received[f] - 1
          /\ Running /\ ~disconnected /\ drain[f] # "putting" => n = received[f]
          /\ Continues(queue, f, yielded[f], n)
    BY <1>0 DEF Flows
  <2>2. Continues(queue', f, yielded[f], n)
    <3>1. n \in Nat
      BY <1>0, <2>1
    <3>2. \A x \in Item : x[1] = e \/ x = <<Sentinel, e>> => x[1] # f
      BY <1>0, <1>5
    <3>. QED BY <1>0, <1>2, <2>1, <3>1, <3>2, OtherContinues
  <2>. QED BY <1>1, <1>5, <2>1, <2>2 DEF Flows, Running
<1>6. ASSUME Running, NEW f \in Edges
      PROVE  /\ Ends(f)'
             /\ (drain'[f] = "ended" /\ ~Shown(queue', f)) <=> (drain[f] = "ended" /\ ~Shown(queue, f))
  <2>1. Ends(f) /\ Ends(e) /\ ~Shown(queue, e)
    BY <1>0, <1>6 DEF Streaming, Ends
  <2>2. CASE queue' = queue /\ s # "ended"
    BY <1>1, <2>1, <2>2 DEF Ends
  <2>3. ASSUME NEW x \in Item, queue' = Append(queue, x), x[1] = e, s = "reading"
        PROVE  /\ Ends(f)'
               /\ (drain'[f] = "ended" /\ ~Shown(queue', f)) <=> (drain[f] = "ended" /\ ~Shown(queue, f))
    <3>1. x # <<Sentinel, f>>
      BY <1>0, <2>3
    <3>2. Shown(queue', f) <=> Shown(queue, f)
      BY <1>0, <2>3, <3>1, AppendEnds
    <3>3. Last(queue', f)
      BY <1>0, <2>1, <2>3, <3>1, AppendEnds DEF Ends
    <3>4. f # e /\ Gone(queue, f) => Gone(queue', f)
      BY <1>0, <2>3, AppendEnds
    <3>. QED BY <1>1, <2>1, <2>3, <3>2, <3>3, <3>4 DEF Ends
  <2>4. ASSUME NEW x \in Item, queue' = Append(queue, x), x = <<Sentinel, e>>, s = "ended"
        PROVE  /\ Ends(f)'
               /\ (drain'[f] = "ended" /\ ~Shown(queue', f)) <=> (drain[f] = "ended" /\ ~Shown(queue, f))
    <3>1. x[1] = Sentinel /\ x[1] # f /\ (f # e => x # <<Sentinel, f>>)
      BY <1>0, <2>4
    <3>2. Shown(queue', f) <=> Shown(queue, f) \/ f = e
      BY <1>0, <2>4, <3>1, AppendEnds
    <3>3. Last(queue', f)
      BY <1>0, <2>1, <2>4, <3>1, AppendEnds DEF Ends
    <3>4. Gone(queue, f) => Gone(queue', f)
      BY <1>0, <2>4, <3>1, AppendEnds
    <3>. QED BY <1>1, <2>1, <2>4, <3>2, <3>3, <3>4 DEF Ends
  <2>. QED BY <1>2, <2>2, <2>3, <2>4
<1>7. Streaming'
  <2>1. CASE Running
    <3>1. Counted' = Counted
      BY <1>6, <2>1 DEF Counted
    <3>. QED BY <1>0, <1>6, <2>1, <3>1 DEF Streaming, Running
  <2>. QED BY <2>1 DEF Streaming, Running
<1>8. Over'
  <2>1. CASE ~Running
    <3>1. disconnected
      BY <1>0, <2>1 DEF Over
    <3>. QED BY <1>0, <1>1, <2>1, <3>1 DEF Over, Running
  <2>. QED BY <2>1 DEF Over, Running
<1>. QED BY <1>4, <1>5, <1>7, <1>8 DEF IInv

(* A response is put, or waits for room.                                   *)
LEMMA PutInv ==
  ASSUME IInv, NEW e \in Edges, NEW r \in 1..MaxFrames, Put(e, r),
         received' = [received EXCEPT ![e] = r],
         \/ drain[e] = "reading" /\ r = received[e] + 1
         \/ drain[e] = "putting" /\ r = received[e],
         UNCHANGED <<yielded, handler, finished, disconnected>>
  PROVE  IInv'
<1>0. /\ TypeOK /\ Over /\ Flows(e) /\ queue \in Seq(Item)
      /\ received[e] \in Nat /\ yielded[e] \in Nat /\ MaxFrames \in Nat
  BY Facts
<1>1. Running
  BY <1>0 DEF Over
<1>2. Continues(queue, e, yielded[e], r - 1) /\ yielded[e] <= r - 1
  BY <1>0 DEF Flows
<1>3. received'[e] = r /\ yielded' = yielded
  BY <1>0 DEF TypeOK
<1>6. /\ r \in 0..MaxFrames /\ received[e] <= r /\ drain[e] # "ended"
      /\ "reading" \in DrainStates /\ "putting" \in DrainStates
  BY <1>0 DEF DrainStates
<1>4. CASE Room /\ queue' = Append(queue, <<e, r>>) /\ drain' = [drain EXCEPT ![e] = "reading"]
  <2>1. Continues(queue', e, yielded[e], r)
    <3>1. r - 1 \in Nat /\ (r - 1) + 1 = r
      BY <1>0
    <3>. QED BY <1>0, <1>2, <1>4, <3>1, PutContinues
  <2>2. drain'[e] = "reading"
    BY <1>0, <1>4 DEF TypeOK
  <2>3. r \in yielded[e]..r
    BY <1>0, <1>2
  <2>4. Flows(e)'
    BY <1>3, <2>1, <2>2, <2>3 DEF Flows
  <2>5. \E k \in 1..MaxFrames : queue' = Append(queue, <<e, k>>)
    BY <1>4
  <2>. QED BY <1>1, <1>4, <1>6, <2>4, <2>5, OneDrain
<1>5. CASE ~Room /\ drain' = [drain EXCEPT ![e] = "putting"] /\ UNCHANGED queue
  <2>1. drain'[e] = "putting"
    BY <1>0, <1>5 DEF TypeOK
  <2>2. r - 1 \in yielded[e]..r
    BY <1>0, <1>2
  <2>3. Flows(e)'
    BY <1>2, <1>3, <1>5, <2>1, <2>2 DEF Flows
  <2>. QED BY <1>1, <1>5, <1>6, <2>3, OneDrain
<1>. QED BY <1>4, <1>5 DEF Put

(* A task ends: its sentinel is put, or waits for room.                    *)
LEMMA EndInv ==
  ASSUME IInv, NEW e \in Edges, NEW r \in 0..MaxFrames, End(e),
         received' = [received EXCEPT ![e] = r],
         drain[e] \in {"reading", "ending", "cancelled"},
         r = received[e] \/ (r = received[e] + 1 /\ disconnected),
         UNCHANGED <<yielded, handler, finished, disconnected>>
  PROVE  IInv'
<1>0. /\ TypeOK /\ Over /\ Flows(e) /\ queue \in Seq(Item) /\ Sentinel \notin Edges
      /\ received[e] \in Nat /\ yielded[e] \in Nat /\ MaxFrames \in Nat
  BY Facts
<1>1. PICK n \in yielded[e]..received[e] :
        /\ Running /\ ~disconnected => n = received[e]
        /\ Continues(queue, e, yielded[e], n)
  BY <1>0 DEF Flows
<1>2. n \in yielded[e]..r /\ n \in Nat
  BY <1>0
<1>3. received'[e] = r /\ yielded' = yielded
  BY <1>0 DEF TypeOK
<1>6. /\ received[e] <= r /\ drain[e] # "ended"
      /\ "ended" \in DrainStates /\ "ending" \in DrainStates
  BY <1>0 DEF DrainStates
<1>4. CASE /\ Room /\ queue' = Append(queue, <<Sentinel, e>>)
           /\ drain' = [drain EXCEPT ![e] = "ended"]
  <2>1. Continues(queue', e, yielded[e], n)
    <3>1. <<Sentinel, e>> \in Item /\ <<Sentinel, e>>[1] # e
      BY <1>0 DEF Item
    <3>. QED BY <1>0, <1>1, <1>2, <1>4, <3>1, OtherContinues
  <2>2. drain'[e] = "ended"
    BY <1>0, <1>4 DEF TypeOK
  <2>3. Flows(e)'
    BY <1>1, <1>2, <1>3, <2>1, <2>2 DEF Flows, Running
  <2>. QED BY <1>4, <1>6, <2>3, OneDrain
<1>5. CASE ~Room /\ drain' = [drain EXCEPT ![e] = "ending"] /\ UNCHANGED queue
  <2>1. drain'[e] = "ending"
    BY <1>0, <1>5 DEF TypeOK
  <2>2. Flows(e)'
    BY <1>1, <1>2, <1>3, <1>5, <2>1 DEF Flows, Running
  <2>. QED BY <1>5, <1>6, <2>2, OneDrain
<1>. QED BY <1>4, <1>5 DEF End

(* So a drain task keeps the invariant, also after it was cancelled.       *)
LEMMA DrainStepInv == ASSUME IInv, NEW e \in Edges, DrainStep(e) PROVE IInv'
<1>0. TypeOK /\ Over /\ Flows(e) /\ received[e] \in Nat /\ yielded[e] \in Nat /\ MaxFrames \in Nat
  BY Facts
<1>1. received[e] \in 0..MaxFrames /\ received = [received EXCEPT ![e] = received[e]]
  BY <1>0 DEF TypeOK
<1>2. CASE EdgeResponds(e)
  <2>1. received[e] + 1 \in 1..MaxFrames /\ received[e] + 1 \in 0..MaxFrames
    BY <1>0, <1>2 DEF EdgeResponds
  <2>. QED BY <1>2, <2>1, PutInv, EndInv DEF EdgeResponds
<1>3. CASE EdgeEnds(e)
  BY <1>1, <1>3, EndInv DEF EdgeEnds
<1>4. CASE Unblock(e)
  <2>1. CASE drain[e] = "putting" /\ Put(e, received[e])
    <3>1. received[e] \in 1..MaxFrames
      BY <1>0, <1>1, <2>1 DEF Flows
    <3>. QED BY <1>1, <1>4, <2>1, <3>1, PutInv DEF Unblock
  <2>2. CASE drain[e] = "ending" /\ End(e)
    BY <1>1, <1>4, <2>2, EndInv DEF Unblock
  <2>. QED BY <1>4, <2>1, <2>2 DEF Unblock
<1>5. CASE Cancelled(e)
  BY <1>1, <1>5, EndInv DEF Cancelled
<1>. QED BY <1>2, <1>3, <1>4, <1>5 DEF DrainStep

-----------------------------------------------------------------------------
(* The handler                                                             *)

(* No more sentinels are taken than there are edges.                       *)
LEMMA CountedFacts ==
  IsFiniteSet(Counted) /\ Cardinality(Counted) \in Nat /\ Cardinality(Counted) <= NumEdges
BY GatewayAssumption, FS_Subset, FS_CardinalityType DEF Counted, NumEdges

(* The clean-up cancels whoever is not done.                               *)
LEMMA CleanUpInv ==
  ASSUME IInv, Running, CleanUp, queue' \in Seq(Item), Len(queue') <= QueueSize,
         yielded' \in [Edges -> 0..MaxFrames], finished' \in 0..NumEdges, UNCHANGED <<received, disconnected>>,
         \A e \in Edges : \E n \in yielded'[e]..received[e] : Continues(queue', e, yielded'[e], n),
         ~disconnected => queue' = <<>> /\ \A e \in Edges : drain[e] = "ended" /\ yielded'[e] = received[e]
  PROVE  IInv'
<1>0. TypeOK
  BY Facts
<1>1. \A e \in Edges : drain'[e] \in {"cancelled", "ended"} /\ (drain[e] = "ended" => drain'[e] = "ended")
  BY <1>0, Facts DEF CleanUp, DrainStates
<1>2. drain' \in [Edges -> DrainStates]
  BY <1>1 DEF CleanUp, DrainStates
<1>3. TypeOK'
  BY <1>0, <1>2 DEF TypeOK, Item, CleanUp, HandlerStates
<1>4. ~Running'
  BY DEF CleanUp, Running
<1>5. \A e \in Edges : Flows(e)'
  BY <1>1, <1>4 DEF Flows
<1>. QED BY <1>1, <1>3, <1>4, <1>5 DEF IInv, Streaming, Over

(* The handler takes an item. With the last sentinel every task has ended  *)
(* and had its sentinel taken, so that nothing is left in the queue.       *)
LEMMA TakeInv == ASSUME IInv, Take PROVE IInv'
<1>0. /\ TypeOK /\ Streaming /\ queue \in Seq(Item) /\ queue # <<>> /\ Sentinel \notin Edges
      /\ \A e \in Edges : Flows(e) /\ received[e] \in Nat /\ yielded[e] \in Nat
      /\ MaxFrames \in Nat /\ NumEdges \in Nat /\ handler = "taking"
  BY Facts DEF Take
<1>1. /\ Running /\ finished = Cardinality(Counted) /\ (\A e \in Edges : Ends(e))
  BY <1>0 DEF Running, Streaming
<1>2. /\ queue' = Tail(queue) /\ queue' \in Seq(Item) /\ Head(queue) = queue[1] /\ queue[1] \in Item
      /\ Len(queue') <= QueueSize
  <2>1. Len(queue) <= QueueSize
    BY <1>0 DEF TypeOK
  <2>2. /\ Tail(queue) \in Seq(Item) /\ Len(queue) \in Nat /\ Len(Tail(queue)) = Len(queue) - 1
        /\ Head(queue) = queue[1] /\ queue[1] \in Item
    BY <1>0, Taken
  <2>. QED BY <2>1, <2>2, GatewayAssumption DEF Take
<1>3. CASE queue[1][1] # Sentinel
  <2>1. PICK e \in Edges, k \in 1..MaxFrames : queue[1] = <<e, k>>
    BY <1>2, <1>3 DEF Item
  <2>2. /\ yielded' = [yielded EXCEPT ![e] = k] /\ handler' = "yielding"
        /\ UNCHANGED <<drain, finished, received, disconnected>>
    BY <1>2, <1>3, <2>1 DEF Take
  <2>3. ASSUME NEW f \in Edges PROVE Flows(f)'
    <3>1. PICK n \in yielded[f]..received[f] :
            /\ drain[f] = "reading" => n = received[f]
            /\ drain[f] = "putting" => n = received[f] - 1
            /\ Running /\ ~disconnected /\ drain[f] # "putting" => n = received[f]
            /\ Continues(queue, f, yielded[f], n)
      BY <1>0 DEF Flows
    <3>2. n \in Nat
      BY <1>0, <3>1
    <3>3. CASE f = e
      <4>1. queue[1] = <<e, yielded[e] + 1>> /\ yielded[e] + 1 <= n /\ Continues(queue', e, yielded[e] + 1, n)
        BY <1>0, <1>2, <2>1, <3>1, <3>2, <3>3, TakeContinues
      <4>2. yielded'[e] = yielded[e] + 1
        BY <1>0, <2>1, <2>2, <4>1 DEF TypeOK
      <4>3. n \in yielded'[e]..received[e]
        BY <1>0, <3>1, <3>3, <4>1, <4>2
      <4>. QED BY <1>1, <2>2, <3>1, <3>3, <4>1, <4>2, <4>3 DEF Flows, Running
    <3>4. CASE f # e
      <4>1. Continues(queue', f, yielded[f], n)
        BY <1>0, <1>2, <2>1, <3>1, <3>2, <3>4, PassContinues
      <4>2. yielded'[f] = yielded[f]
        BY <1>0, <2>2, <3>4 DEF TypeOK
      <4>. QED BY <1>1, <2>2, <3>1, <4>1, <4>2 DEF Flows, Running
    <3>. QED BY <3>3, <3>4
  <2>4. \A f \in Edges : (Shown(queue', f) <=> Shown(queue, f)) /\ Ends(f)'
    <3>1. ASSUME NEW f \in Edges PROVE (Shown(queue', f) <=> Shown(queue, f)) /\ Ends(f)'
      <4>1. queue[1] # <<Sentinel, f>>
        BY <1>3
      <4>2. /\ Shown(queue', f) <=> Shown(queue, f)
            /\ Last(queue, f) => Last(queue', f)
            /\ Gone(queue, f) => Gone(queue', f)
        BY <1>0, <1>2, <4>1, TailEnds
      <4>. QED BY <1>1, <2>2, <4>2 DEF Ends
    <3>. QED BY <3>1
  <2>5. Streaming'
    <3>1. Counted' = Counted
      BY <2>2, <2>4 DEF Counted
    <3>. QED BY <1>1, <2>2, <2>4, <3>1 DEF Streaming
  <2>6. TypeOK'
    <3>1. yielded' \in [Edges -> 0..MaxFrames]
      BY <1>0, <2>1, <2>2 DEF TypeOK
    <3>. QED BY <1>0, <1>2, <2>2, <3>1 DEF TypeOK, Item, HandlerStates
  <2>. QED BY <2>2, <2>3, <2>5, <2>6 DEF IInv, Over, Running
<1>4. CASE queue[1][1] = Sentinel
  <2>1. PICK e \in Edges : queue[1] = <<Sentinel, e>>
    <3>1. queue[1] \in {Sentinel} \X Edges
      BY <1>0, <1>2, <1>4 DEF Item
    <3>. QED BY <3>1
  <2>2. /\ finished' = finished + 1 /\ UNCHANGED <<yielded, received, disconnected>>
        /\ IF finished' = NumEdges THEN CleanUp ELSE UNCHANGED <<drain, handler>>
    BY <1>2, <1>4 DEF Take, AllFinished
  <2>3. /\ Shown(queue, e) /\ drain[e] = "ended" /\ ~Shown(queue', e) /\ Gone(queue', e)
    <3>1. Shown(queue, e)
      <4>1. Len(queue) \in Nat /\ Len(queue) >= 1
        BY <1>0, Taken
      <4>. QED BY <2>1, <4>1 DEF Shown
    <3>. QED BY <1>0, <1>1, <1>2, <2>1, <3>1, TailEnds DEF Ends
  <2>4. ASSUME NEW f \in Edges
        PROVE  /\ f # e => (Shown(queue', f) <=> Shown(queue, f))
               /\ Last(queue', f) /\ (Gone(queue, f) => Gone(queue', f))
    <3>1. f # e => queue[1] # <<Sentinel, f>>
      BY <2>1
    <3>. QED BY <1>0, <1>1, <1>2, <3>1, TailEnds DEF Ends
  <2> DEFINE C == {f \in Edges : drain[f] = "ended" /\ ~Shown(queue', f)}
  <2>5. C = Counted \cup {e} /\ e \notin Counted
    BY <2>3, <2>4 DEF Counted
  <2>6. /\ IsFiniteSet(C) /\ Cardinality(C) = finished + 1 /\ finished' \in 0..NumEdges
    <3>1. IsFiniteSet(C) /\ Cardinality(C) = Cardinality(Counted) + 1
      BY <2>5, CountedFacts, FS_AddElement
    <3>2. Cardinality(C) <= NumEdges
      BY GatewayAssumption, FS_Subset DEF NumEdges
    <3>. QED BY <1>0, <1>1, <2>2, <3>1, <3>2, CountedFacts
  <2>7. ASSUME NEW f \in Edges
        PROVE  \E n \in yielded[f]..received[f] :
                 /\ drain[f] = "reading" => n = received[f]
                 /\ drain[f] = "putting" => n = received[f] - 1
                 /\ ~disconnected /\ drain[f] # "putting" => n = received[f]
                 /\ Continues(queue', f, yielded[f], n)
    <3>1. PICK n \in yielded[f]..received[f] :
            /\ drain[f] = "reading" => n = received[f]
            /\ drain[f] = "putting" => n = received[f] - 1
            /\ Running /\ ~disconnected /\ drain[f] # "putting" => n = received[f]
            /\ Continues(queue, f, yielded[f], n)
      BY <1>0 DEF Flows
    <3>2. n \in Nat /\ queue[1][1] # f
      BY <1>0, <1>4, <3>1
    <3>3. Continues(queue', f, yielded[f], n)
      BY <1>0, <1>2, <3>1, <3>2, PassContinues
    <3>. QED BY <1>1, <3>1, <3>3
  <2>8. CASE finished' # NumEdges
    <3>1. UNCHANGED <<drain, handler>>
      BY <2>2, <2>8
    <3>2. \A f \in Edges : Flows(f)'
      BY <1>1, <2>2, <2>7, <3>1 DEF Flows, Running
    <3>3. \A f \in Edges : Ends(f)'
      BY <1>1, <2>3, <2>4, <3>1 DEF Ends
    <3>4. Counted' = C
      BY <3>1 DEF Counted
    <3>5. TypeOK'
      BY <1>0, <1>2, <2>2, <2>6, <3>1 DEF TypeOK, Item
    <3>. QED BY <1>1, <2>2, <2>6, <3>1, <3>2, <3>3, <3>4, <3>5 DEF IInv, Streaming, Over, Running
  <2>9. CASE finished' = NumEdges
    <3>1. C = Edges
      BY <2>2, <2>6, <2>9, GatewayAssumption, FS_Subset DEF NumEdges
    <3>2. \A f \in Edges : drain[f] = "ended" /\ ~Shown(queue', f) /\ Gone(queue', f)
      <4>1. ASSUME NEW f \in Edges PROVE drain[f] = "ended" /\ ~Shown(queue', f) /\ Gone(queue', f)
        <5>1. f \in C
          BY <3>1
        <5>2. f # e => Gone(queue, f)
          BY <1>1, <2>4, <5>1 DEF Ends
        <5>. QED BY <2>3, <2>4, <5>1, <5>2
      <4>. QED BY <4>1
    <3>3. queue' = <<>>
      <4>1. SUFFICES ASSUME queue' # <<>> PROVE FALSE
        OBVIOUS
      <4>2. Len(queue') \in Nat /\ Len(queue') >= 1 /\ queue'[1] \in Item
        BY <1>2, <4>1, Taken
      <4>3. 1 \in 1..Len(queue')
        BY <4>2
      <4>4. CASE queue'[1] \in Edges \X (1..MaxFrames)
        <5>1. queue'[1][1] \in Edges
          BY <4>4
        <5>. QED BY <3>2, <4>3, <5>1 DEF Gone
      <4>5. CASE queue'[1] \in {Sentinel} \X Edges
        <5>1. PICK f \in Edges : queue'[1] = <<Sentinel, f>>
          BY <4>5
        <5>. QED BY <3>2, <4>3, <5>1 DEF Shown
      <4>. QED BY <4>2, <4>4, <4>5 DEF Item
    <3>4. ASSUME ~disconnected, NEW f \in Edges PROVE yielded[f] = received[f]
      <4>1. Continues(queue', f, yielded[f], received[f]) /\ yielded[f] <= received[f]
        BY <1>0, <2>7, <3>2, <3>4
      <4>2. SUFFICES ASSUME yielded[f] < received[f] PROVE FALSE
        BY <1>0, <4>1
      <4>3. yielded[f] + 1 \in (yielded[f] + 1)..received[f]
        BY <1>0, <4>2
      <4>4. \E i \in 1..Len(queue') : queue'[i] = <<f, yielded[f] + 1>>
        BY <4>1, <4>3 DEF Continues
      <4>5. Len(queue') = 0
        BY <3>3
      <4>. QED BY <4>4, <4>5
    <3>5. \A f \in Edges : \E n \in yielded'[f]..received[f] : Continues(queue', f, yielded'[f], n)
      BY <2>2, <2>7
    <3>6. yielded' \in [Edges -> 0..MaxFrames] /\ CleanUp
      BY <1>0, <2>2, <2>9 DEF TypeOK
    <3>7. ~disconnected => queue' = <<>> /\ \A f \in Edges : drain[f] = "ended" /\ yielded'[f] = received[f]
      BY <2>2, <3>2, <3>3, <3>4
    <3>. QED BY <1>1, <1>2, <2>2, <2>6, <3>5, <3>6, <3>7, CleanUpInv
  <2>. QED BY <2>8, <2>9
<1>. QED BY <1>3, <1>4

(* The consumer reads on.                                                  *)
LEMMA YieldedInv == ASSUME IInv, Yielded PROVE IInv'
<1>1. /\ UNCHANGED <<queue, drain, received, yielded, finished, disconnected>>
      /\ handler = "yielding" /\ handler' = "taking" /\ Running /\ Running'
  BY DEF Yielded, Running
<1>2. Counted' = Counted
  BY <1>1 DEF Counted
<1>. QED BY <1>1, <1>2 DEF IInv, TypeOK, HandlerStates, Flows, Streaming, Ends, Over, Running

(* The consumer goes: from now on responses may be dropped.                *)
LEMMA DisconnectInv == ASSUME IInv, Disconnect PROVE IInv'
<1>1. /\ UNCHANGED <<queue, drain, received, yielded, finished, handler>>
      /\ disconnected' = TRUE /\ Running /\ Running'
  BY DEF Disconnect, Running
<1>2. Counted' = Counted
  BY <1>1 DEF Counted
<1>3. TypeOK'
  BY <1>1 DEF IInv, TypeOK
<1>4. \A e \in Edges : Flows(e)'
  BY <1>1 DEF IInv, Flows
<1>5. Streaming'
  BY <1>1, <1>2 DEF IInv, Streaming, Ends
<1>. QED BY <1>1, <1>3, <1>4, <1>5 DEF IInv, Over

(* The handler sees that.                                                  *)
LEMMA HandlerCancelledInv == ASSUME IInv, HandlerCancelled PROVE IInv'
<1>1. /\ UNCHANGED <<queue, received, yielded, finished, disconnected>>
      /\ Running /\ disconnected /\ CleanUp
  BY DEF HandlerCancelled, Running
<1>2. /\ queue' \in Seq(Item) /\ Len(queue') <= QueueSize
      /\ yielded' \in [Edges -> 0..MaxFrames] /\ finished' \in 0..NumEdges
  BY <1>1, Facts DEF TypeOK
<1>3. \A e \in Edges : \E n \in yielded'[e]..received[e] : Continues(queue', e, yielded'[e], n)
  BY <1>1, Facts DEF Flows
<1>. QED BY <1>1, <1>2, <1>3, CleanUpInv

(* All tasks are done.                                                     *)
LEMMA GatheredInv == ASSUME IInv, Gathered PROVE IInv'
<1>1. /\ UNCHANGED <<queue, drain, received, yielded, finished, disconnected>>
      /\ ~Running /\ ~Running' /\ handler' = "ended"
  BY DEF Gathered, Running
<1>. QED BY <1>1 DEF IInv, TypeOK, HandlerStates, Flows, Streaming, Over

(* The invariant is inductive.                                             *)
LEMMA NextInv == ASSUME IInv, [Next]_vars PROVE IInv'
<1>1. CASE UNCHANGED vars
  <2>1. UNCHANGED <<queue, drain, received, yielded, handler, finished, disconnected>>
    BY <1>1 DEF vars
  <2>2. Running' = Running /\ Counted' = Counted
    BY <2>1 DEF Running, Counted
  <2>. QED BY <2>1, <2>2 DEF IInv, TypeOK, Flows, Streaming, Ends, Over
<1>. QED
  BY <1>1, DrainStepInv, TakeInv, YieldedInv, DisconnectInv, HandlerCancelledInv, GatheredInv DEF Next

(* The invariant holds in every stream.                                    *)
THEOREM FanInInvariant == Spec => []IInv
<1>. QED BY InitInv, NextInv, PTL DEF Spec

(* The order of the queue, seen as a set of numbers.                       *)
LEMMA FlowsInOrder == ASSUME IInv PROVE InOrder
<1>1. SUFFICES ASSUME NEW e \in Edges
               PROVE  /\ \E n \in yielded[e]..received[e] : {queue[i][2] : i \in Of(e)} = (yielded[e] + 1)..n
                      /\ \A i, j \in Of(e) : i < j => queue[i][2] < queue[j][2]
  BY DEF InOrder
<1>2. /\ queue \in Seq(Item) /\ DOMAIN queue = 1..Len(queue) /\ received[e] \in Nat /\ yielded[e] \in Nat
      /\ MaxFrames \in Nat /\ Sentinel \notin Edges
  BY Facts
<1>3. PICK n \in yielded[e]..received[e] : Continues(queue, e, yielded[e], n)
  BY Facts DEF Flows
<1>4. ASSUME NEW i \in Of(e) PROVE queue[i][2] \in (yielded[e] + 1)..n
  <2>1. i \in 1..Len(queue) /\ queue[i][1] = e
    BY <1>2 DEF Of
  <2>2. queue[i] \in Edges \X (1..MaxFrames)
    <3>1. queue[i] \in Item
      BY <1>2, <2>1
    <3>2. CASE queue[i] \in {Sentinel} \X Edges
      <4>1. queue[i][1] = Sentinel
        BY <3>2
      <4>. QED BY <1>2, <2>1, <4>1
    <3>. QED BY <3>1, <3>2 DEF Item
  <2>3. queue[i][2] \in Nat
    BY <1>2, <2>2
  <2>. QED BY <1>2, <1>3, <2>1, <2>3 DEF Continues
<1>5. ASSUME NEW k \in (yielded[e] + 1)..n PROVE \E i \in Of(e) : queue[i][2] = k
  <2>1. PICK i \in 1..Len(queue) : queue[i] = <<e, k>>
    BY <1>3 DEF Continues
  <2>. QED BY <1>2, <2>1 DEF Of
<1>6. {queue[i][2] : i \in Of(e)} = (yielded[e] + 1)..n
  BY <1>4, <1>5
<1>7. \A i, j \in Of(e) : i < j => queue[i][2] < queue[j][2]
  BY <1>2, <1>3 DEF Continues, Of
<1>. QED BY <1>6, <1>7

(* A stream that ends while its consumer is there has yielded all that     *)
(* every edge sent, in order and without a gap, for any number of edges    *)
(* and any size of the queue (StreamImages, aggregator.py).                *)
THEOREM NothingIsLost == Spec => []NothingLost
<1>1. IInv => NothingLost
  BY FlowsInOrder DEF IInv, NothingLost, Over, Running
<1>. QED BY <1>1, FanInInvariant, PTL

-----------------------------------------------------------------------------
(* The calls to all edges                                                  *)

(* What the present call can have got of an edge.                          *)
Outcomes == {"none", "pending", "ok", "failed"}

(* The variables of the gateway's call keep their types.                   *)
ProxyTypeOK ==
  /\ stubs \subseteq Edges
  /\ proxy \in [at : {"idle", "gathering", "answered", "cancelled"}, method : {"InitHpIo", "Status"},
                ok : BOOLEAN, named : SUBSET Edges]
  /\ outcome \in [Edges -> Outcomes]
  /\ config \in [Edges -> Nat]
  /\ held \in [Edges -> SUBSET Nat]
  /\ calls \in Nat

(* The edge e has been, at some moment of the call, what an answer tells;  *)
(* held only grows, so this stays true.                                    *)
Was(e) == IF proxy.method = "InitHpIo" THEN calls \in held[e] ELSE \E n \in held[e] : n # 0

(* The inductive invariant of a call to all edges: whatever an edge has    *)
(* answered was so at some moment of this call, and still counts when the  *)
(* group is done.                                                          *)
ProxyInv ==
  /\ ProxyTypeOK
  /\ proxy.at # "idle" => \A e \in Edges : held[e] # {}
  /\ proxy.at = "gathering" => stubs # {} /\ \A e \in stubs : outcome[e] # "none"
  /\ proxy.at \in {"gathering", "answered"} => \A e \in Succeeded : Was(e)
  /\ proxy.at = "answered" =>
       \/ stubs = {} /\ ~proxy.ok
       \/ stubs # {} /\ proxy.ok = (Succeeded = stubs) /\ proxy.named = stubs \ Succeeded

(* No call yet.                                                            *)
LEMMA ProxyInitInv == ASSUME ProxyInit PROVE ProxyInv
BY DEF ProxyInit, ProxyInv, ProxyTypeOK, NoCall, Outcomes

(* A new call forgets what the one before has got.                         *)
LEMMA ProxyCallInv ==
  ASSUME ProxyInv, NEW method \in {"InitHpIo", "Status"}, Proxy(method) PROVE ProxyInv'
<1>1. ProxyTypeOK
  BY DEF ProxyInv
<1>2. /\ proxy'.at = IF stubs = {} THEN "answered" ELSE "gathering"
      /\ proxy'.method = method /\ proxy'.ok = FALSE /\ proxy'.named = {}
      /\ proxy' \in [at : {"idle", "gathering", "answered", "cancelled"}, method : {"InitHpIo", "Status"},
                     ok : BOOLEAN, named : SUBSET Edges]
  BY DEF Proxy, NoCall
<1>3. outcome' \in [Edges -> Outcomes] /\ \A e \in stubs : outcome'[e] = "pending"
  BY <1>1 DEF Proxy, Outcomes, ProxyTypeOK
<1>4. held' \in [Edges -> SUBSET Nat] /\ \A e \in Edges : held'[e] # {}
  BY <1>1 DEF Proxy, ProxyTypeOK
<1>5. ProxyTypeOK'
  <2>1. stubs' \subseteq Edges /\ config' \in [Edges -> Nat] /\ calls' \in Nat
    BY <1>1 DEF Proxy, ProxyTypeOK
  <2>. QED BY <1>2, <1>3, <1>4, <2>1 DEF ProxyTypeOK
<1>6. stubs' = stubs /\ Succeeded' = {}
  BY <1>3 DEF Proxy, Succeeded
<1>. QED BY <1>2, <1>3, <1>4, <1>5, <1>6 DEF ProxyInv

(* An edge is configured or loses its configuration: nothing that was is   *)
(* undone.                                                                 *)
LEMMA EdgeMoves ==
  ASSUME ProxyInv, NEW e \in stubs, NEW n \in Nat,
         config' = [config EXCEPT ![e] = n], held' = [held EXCEPT ![e] = @ \cup {n}],
         UNCHANGED <<stubs, calls, proxy, outcome>>
  PROVE  ProxyInv'
<1>1. ProxyTypeOK /\ e \in Edges
  BY DEF ProxyInv, ProxyTypeOK
<1>2. \A f \in Edges : held[f] \subseteq held'[f]
  BY <1>1 DEF ProxyTypeOK
<1>3. ProxyTypeOK'
  BY <1>1 DEF ProxyTypeOK
<1>4. \A f \in Edges : Was(f) => Was(f)'
  BY <1>2 DEF Was
<1>5. Succeeded' = Succeeded /\ Succeeded \subseteq Edges
  BY <1>1 DEF Succeeded, ProxyTypeOK
<1>. QED BY <1>2, <1>3, <1>4, <1>5 DEF ProxyInv

(* An edge answers, or runs out of time.                                   *)
LEMMA EdgeDoneInv == ASSUME ProxyInv, NEW e \in Edges, EdgeDone(e) PROVE ProxyInv'
<1>1. ProxyTypeOK /\ e \in stubs /\ proxy.at = "gathering"
  BY DEF ProxyInv, EdgeDone, EdgeAnswers, EdgeTimesOut, Pending
<1>2. PICK o \in {"ok", "failed"} :
        /\ outcome' = [outcome EXCEPT ![e] = o]
        /\ o = "ok" => IF proxy.method = "InitHpIo" THEN calls \in held[e] ELSE held[e] # {0}
  BY DEF EdgeDone, EdgeAnswers, EdgeTimesOut, EdgeLate
<1>3. UNCHANGED <<stubs, calls, proxy, config, held>>
  BY DEF EdgeDone, EdgeAnswers, EdgeTimesOut
<1>4. ProxyTypeOK'
  <2>1. outcome' \in [Edges -> Outcomes]
    BY <1>1, <1>2 DEF ProxyTypeOK, Outcomes
  <2>. QED BY <1>1, <1>3, <2>1 DEF ProxyTypeOK
<1>5. \A f \in stubs : outcome'[f] = IF f = e THEN o ELSE outcome[f]
  BY <1>1, <1>2 DEF ProxyTypeOK
<1>6. o = "ok" => Was(e)
  <2>1. held[e] # {}
    BY <1>1 DEF ProxyInv
  <2>. QED BY <1>2, <2>1 DEF Was
<1>7. \A f \in Succeeded' : Was(f)
  <2>1. \A f \in Succeeded' : f \in Succeeded \/ (f = e /\ o = "ok")
    BY <1>3, <1>5 DEF Succeeded
  <2>. QED BY <1>1, <1>6, <2>1 DEF ProxyInv
<1>8. \A f \in Succeeded' : Was(f)'
  BY <1>3, <1>7 DEF Was
<1>. QED BY <1>1, <1>3, <1>4, <1>5, <1>8 DEF ProxyInv

(* All edges are done: the answer counts who did well.                     *)
LEMMA AnsweredInv == ASSUME ProxyInv, Answered PROVE ProxyInv'
<1>1. ProxyTypeOK /\ proxy.at = "gathering" /\ stubs # {} /\ Succeeded \subseteq stubs
  BY DEF ProxyInv, Answered, Succeeded
<1>2. /\ proxy'.at = "answered" /\ proxy'.ok = (Succeeded = stubs) /\ proxy'.named = stubs \ Succeeded
      /\ proxy'.method = proxy.method
  BY <1>1 DEF Answered, AllOk, ProxyTypeOK
<1>3. UNCHANGED <<stubs, calls, outcome, config, held>> /\ Succeeded' = Succeeded
  BY DEF Answered, Succeeded
<1>4. ProxyTypeOK'
  BY <1>1, <1>3 DEF Answered, AllOk, ProxyTypeOK
<1>5. \A e \in Succeeded : Was(e)'
  BY <1>1, <1>2, <1>3 DEF ProxyInv, Was
<1>. QED BY <1>1, <1>2, <1>3, <1>4, <1>5 DEF ProxyInv

(* The caller gives up.                                                    *)
LEMMA ProxyCancelledInv == ASSUME ProxyInv, ProxyCancelled PROVE ProxyInv'
<1>1. ProxyTypeOK /\ proxy.at = "gathering"
  BY DEF ProxyInv, ProxyCancelled
<1>2. proxy'.at = "cancelled"
  BY <1>1 DEF ProxyCancelled, ProxyTypeOK
<1>3. ProxyTypeOK' /\ UNCHANGED held
  BY <1>1 DEF ProxyCancelled, ProxyTypeOK, Outcomes
<1>. QED BY <1>1, <1>2, <1>3 DEF ProxyInv

(* The invariant is inductive.                                             *)
LEMMA ProxyNextInv == ASSUME ProxyInv, [ProxyNext]_proxyVars PROVE ProxyInv'
<1>1. CASE UNCHANGED proxyVars
  <2>1. UNCHANGED <<stubs, calls, proxy, outcome, config, held>>
    BY <1>1 DEF proxyVars
  <2>2. Succeeded' = Succeeded /\ \A e \in Edges : Was(e)' = Was(e)
    BY <2>1 DEF Succeeded, Was
  <2>. QED BY <2>1, <2>2 DEF ProxyInv, ProxyTypeOK, Succeeded, Was
<1>2. ASSUME NEW e \in Edges, EdgeInits(e) PROVE ProxyInv'
  <2>1. calls \in Nat
    BY DEF ProxyInv, ProxyTypeOK
  <2>2. PICK n \in 1..calls : config' = [config EXCEPT ![e] = n] /\ held' = [held EXCEPT ![e] = @ \cup {n}]
    BY <1>2 DEF EdgeInits
  <2>3. n \in Nat /\ e \in stubs /\ UNCHANGED <<stubs, calls, proxy, outcome>>
    BY <1>2, <2>1 DEF EdgeInits
  <2>. QED BY <2>2, <2>3, EdgeMoves
<1>3. ASSUME NEW e \in Edges, EdgeLoses(e) PROVE ProxyInv'
  BY <1>3, EdgeMoves DEF EdgeLoses
<1>. QED
  BY <1>1, <1>2, <1>3, ProxyCallInv, EdgeDoneInv, AnsweredInv, ProxyCancelledInv DEF ProxyNext

(* The invariant holds, for any number of edges and calls.                 *)
THEOREM ProxyInvariant == ProxySpec => []ProxyInv
<1>. QED BY ProxyInitInv, ProxyNextInv, PTL DEF ProxySpec

(* The gateway's answer is true of this very call, though calls that timed *)
(* out come late to the edges, and a failure names the edges that failed   *)
(* (InitHpIo and Status, aggregator.py).                                   *)
THEOREM ProxyIsHonest == ProxySpec => []ProxyHonest
<1>1. ProxyInv => ProxyHonest
  <2>1. SUFFICES ASSUME ProxyInv, proxy.at = "answered" PROVE ProxyHonest
    BY DEF ProxyHonest
  <2>2. ProxyTypeOK /\ Succeeded \subseteq stubs /\ \A e \in Succeeded : Was(e)
    BY <2>1 DEF ProxyInv, Succeeded
  <2>3. CASE stubs = {} /\ ~proxy.ok
    BY <2>1, <2>3 DEF ProxyHonest
  <2>4. CASE stubs # {} /\ proxy.ok = (Succeeded = stubs) /\ proxy.named = stubs \ Succeeded
    <3>1. \A e \in Succeeded : IF proxy.method = "InitHpIo" THEN calls \in held[e] ELSE held[e] # {0}
      BY <2>2 DEF Was
    <3>2. \A e \in stubs : e \notin proxy.named <=> outcome[e] = "ok"
      BY <2>4 DEF Succeeded
    <3>. QED BY <2>1, <2>2, <2>4, <3>1, <3>2 DEF ProxyHonest
  <2>. QED BY <2>1, <2>3, <2>4 DEF ProxyInv
<1>. QED BY <1>1, ProxyInvariant, PTL
=============================================================================
