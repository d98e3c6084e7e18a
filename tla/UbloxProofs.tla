---------------------------- MODULE UbloxProofs ----------------------------
(***************************************************************************)
(* Proofs about the receiver's service, UbloxControl, for any number of    *)
(* InitF9t and CaptureUblox calls and packets; and about the conversation  *)
(* that configures the receiver, F9tConfig, for any plans, any number of   *)
(* settings and any size of a message.                                     *)
(***************************************************************************)
EXTENDS UbloxControl, F9tConfig, SequenceTheorems, TLAPS

(* The type of an InitF9t call.                                            *)
InitSet ==
  [at : {"model", "uid", "send", "verify", "idle", "refused", "stopping", "success",
         "failed", "cancelled"},
   using : Inits \cup {None}, settings : BOOLEAN]

(* The type of a CaptureUblox call.                                        *)
CaptureSet ==
  [at : {"idle", "refused", "locking", "caching", "waiting", "yielding", "ended"},
   queue : Seq(1..Packets), item : 0..Packets]

(* Only packets that were read travel to the clients.                      *)
Streamed ==
  /\ inbox \in Seq(1..Packets) /\ capture \in [Captures -> CaptureSet]
  /\ sent \in 0..Packets /\ cache \in 0..Packets /\ lock \in Captures \cup {None}
  /\ \A c \in Captures : Len(capture[c].queue) <= QueueSize

(* The one open port is the one the servicer knows.                        *)
Known == open \subseteq {serial}

(* The callers, the ports and the readers have their types.                *)
Calls ==
  /\ init \in [Inits -> InitSet]
  /\ serial \in Inits \cup {None} /\ open \subseteq Inits
  /\ task \in Inits \cup {None} /\ done \subseteq Inits
  /\ threads \subseteq Inits \X (Inits \cup {None})
  /\ shutdown \in {"no", "stopping", "stopped"}

(* The inductive invariant.                                                *)
IInv == Calls /\ Streamed /\ Known

-----------------------------------------------------------------------------
(* What the assumption says of the numbers.                                *)
LEMMA Bounds == Packets \in Nat /\ QueueSize \in Nat
BY UbloxAssumption

(* The steps of the configuration, by their names.                         *)
LEMMA StepNames == ToSet(Steps) = {"model", "uid", "send", "verify"} /\ Len(Steps) = 4
                   /\ \A k \in 1..3 : Steps[k + 1] \in {"uid", "send", "verify"}
BY DEF ToSet, Steps

(* Before the first call nothing is open.                                  *)
LEMMA InitHolds == Init => IInv
BY Bounds DEF Init, IInv, Calls, Streamed, Known, InitSet, CaptureSet

(* A port is opened, or not: the old one is closed in the same step.       *)
LEMMA OpenKeeps ==
  ASSUME IInv, NEW i \in Inits, NEW settings \in BOOLEAN, Open(i, settings),
         UNCHANGED <<readers, shutdown>>
  PROVE  (Calls /\ Known)'
<1>1. CASE Reopen(i) /\ init' = [init EXCEPT ![i] = [at |-> "model", using |-> i, settings |-> settings]]
  <2>1. [at |-> "model", using |-> i, settings |-> settings] \in InitSet
    BY DEF InitSet
  <2>2. open' = {i} /\ serial' = i
    BY <1>1 DEF Reopen, IInv, Known
  <2>. QED BY <1>1, <2>1, <2>2 DEF IInv, Calls, Known, readers
<1>2. CASE /\ open' = open \ {serial} /\ init' = [init EXCEPT ![i].at = "failed"]
           /\ UNCHANGED serial
  <2>1. [init[i] EXCEPT !.at = "failed"] \in InitSet
    BY DEF IInv, Calls, InitSet
  <2>. QED BY <1>2, <2>1 DEF IInv, Calls, Known, readers
<1>. QED BY <1>1, <1>2 DEF Open

(* The steps of an InitF9t call, whoever closed or opened a port since.    *)
LEMMA InitNextKeeps ==
  ASSUME IInv, NEW i \in Inits, InitNext(i)
  PROVE  IInv'
<1>1. PICK k \in InitSet : k = init[i]
  BY DEF IInv, Calls
<1>2. stream' = stream => Streamed'
  BY DEF stream, IInv, Streamed
<1>3. ASSUME NEW at \in {"refused", "success", "failed", "cancelled"}, NEW using \in Inits \cup {None},
             init' = [init EXCEPT ![i].at = at, ![i].using = using]
      PROVE  init' \in [Inits -> InitSet]
  <2>1. [k EXCEPT !.at = at, !.using = using] \in InitSet
    BY DEF InitSet
  <2>2. init' = [init EXCEPT ![i] = [k EXCEPT !.at = at, !.using = using]]
    BY <1>1, <1>3 DEF IInv, Calls
  <2>. QED BY <2>1, <2>2 DEF IInv, Calls
<1>4. ASSUME NEW force \in BOOLEAN, NEW settings \in BOOLEAN, InitF9t(i, force, settings)
      PROVE  IInv'
  <2>1. CASE init' = [init EXCEPT ![i].at = "refused"] /\ UNCHANGED ports
    <3>1. [init[i] EXCEPT !.at = "refused"] \in InitSet
      BY DEF InitSet, IInv, Calls
    <3>. QED BY <1>2, <1>4, <2>1, <3>1 DEF InitF9t, ports, readers, IInv, Calls, Known
  <2>2. CASE /\ UNCHANGED ports
             /\ init' = [init EXCEPT ![i] = [at |-> "stopping", using |-> task, settings |-> settings]]
    <3>1. [at |-> "stopping", using |-> task, settings |-> settings] \in InitSet
      BY DEF InitSet, IInv, Calls
    <3>. QED BY <1>2, <1>4, <2>2, <3>1 DEF InitF9t, ports, readers, IInv, Calls, Known
  <2>3. CASE Open(i, settings)
    BY <1>2, <1>4, <2>3, OpenKeeps DEF InitF9t, IInv
  <2>. QED BY <1>4, <2>1, <2>2, <2>3 DEF InitF9t
<1>5. CASE InitStopped(i)
  <2>1. k.settings \in BOOLEAN
    BY DEF InitSet
  <2>. QED BY <1>1, <1>2, <1>5, <2>1, OpenKeeps DEF InitStopped, IInv
<1>6. CASE InitStep(i)
  <2>1. PICK at \in {"uid", "send", "verify"} : init' = [init EXCEPT ![i].at = at, ![i].using = serial]
    <3>1. PICK j \in 1..3 : j = CHOOSE x \in 1..3 : Steps[x] = init[i].at
      <4>1. init[i].at \in {"model", "uid", "send"}
        BY <1>6 DEF InitStep
      <4>2. Steps[1] = "model" /\ Steps[2] = "uid" /\ Steps[3] = "send"
        BY DEF Steps
      <4>3. 1 \in 1..3 /\ 2 \in 1..3 /\ 3 \in 1..3
        OBVIOUS
      <4>4. \E x \in 1..3 : Steps[x] = init[i].at
        BY <4>1, <4>2, <4>3
      <4>. QED BY <4>4
    <3>. QED BY <1>6, <3>1, StepNames DEF InitStep
  <2>2. [k EXCEPT !.at = at, !.using = serial] \in InitSet
    BY DEF InitSet, IInv, Calls
  <2>3. init' = [init EXCEPT ![i] = [k EXCEPT !.at = at, !.using = serial]]
    BY <1>1, <2>1 DEF IInv, Calls
  <2>. QED BY <1>2, <1>6, <2>2, <2>3 DEF InitStep, ports, readers, IInv, Calls, Known
<1>7. CASE InitCommit(i)
  <2>1. init' \in [Inits -> InitSet]
    BY <1>3, <1>7 DEF InitCommit
  <2>2. /\ task' \in Inits \cup {None} /\ done' \subseteq Inits
        /\ threads' \subseteq Inits \X (Inits \cup {None})
    <3>1. CASE Running
      BY <1>7, <3>1 DEF InitCommit, readers, IInv, Calls
    <3>2. CASE ~Running
      BY <1>7, <3>2 DEF InitCommit, IInv, Calls
    <3>. QED BY <3>1, <3>2
  <2>. QED BY <1>2, <1>7, <2>1, <2>2 DEF InitCommit, ports, IInv, Calls, Known
<1>8. CASE InitFailed(i)
  BY <1>2, <1>3, <1>8 DEF InitFailed, readers, IInv, Calls, Known
<1>9. CASE InitCancelled(i)
  BY <1>2, <1>3, <1>9 DEF InitCancelled, ports, readers, IInv, Calls, Known
<1>. QED BY <1>4, <1>5, <1>6, <1>7, <1>8, <1>9 DEF InitNext

(* The reader: its task and its threads end, and a packet is read.         *)
LEMMA ReaderKeeps ==
  ASSUME IInv, TaskCancelled \/ \E t \in threads : ReadPacket(t) \/ ThreadEnds(t)
  PROVE  IInv'
<1>1. CASE TaskCancelled
  BY <1>1 DEF TaskCancelled, Running, ports, stream, IInv, Calls, Streamed, Known
<1>2. ASSUME NEW t \in threads, ReadPacket(t) PROVE IInv'
  <2>1. sent' \in 1..Packets
    BY <1>2, Bounds DEF ReadPacket, IInv, Streamed
  <2>2. inbox' \in Seq(1..Packets)
    BY <1>2, <2>1 DEF ReadPacket, IInv, Streamed
  <2>. QED BY <1>2, <2>1, <2>2, Bounds DEF ReadPacket, ports, readers, IInv, Calls, Streamed, Known
<1>3. ASSUME NEW t \in threads, ThreadEnds(t) PROVE IInv'
  <2>1. t[1] \in Inits
    BY DEF IInv, Calls
  <2>. QED BY <1>3, <2>1 DEF ThreadEnds, ports, stream, IInv, Calls, Streamed, Known
<1>. QED BY <1>1, <1>2, <1>3

(* One capture moves.                                                      *)
LEMMA CaptureMoves ==
  ASSUME IInv, NEW c \in Captures, NEW k \in CaptureSet, capture' = [capture EXCEPT ![c] = k],
         Len(k.queue) <= QueueSize, lock' \in Captures \cup {None},
         UNCHANGED <<init, ports, readers, sent, inbox, cache, shutdown>>
  PROVE  IInv'
<1>1. /\ capture' \in [Captures -> CaptureSet]
      /\ \A d \in Captures : Len(capture'[d].queue) <= QueueSize
  BY DEF IInv, Streamed
<1>. QED BY <1>1 DEF IInv, Calls, Streamed, Known, ports, readers

(* The steps of a CaptureUblox call.                                       *)
LEMMA CaptureNextKeeps ==
  ASSUME IInv, NEW c \in Captures, CaptureNext(c)
  PROVE  IInv'
<1>1. PICK k \in CaptureSet : k = capture[c] /\ Len(k.queue) <= QueueSize
  BY DEF IInv, Streamed
<1>2. capture \in [Captures -> CaptureSet] /\ lock \in Captures \cup {None}
  BY DEF IInv, Streamed
<1>3. ASSUME NEW where \in {"refused", "locking", "caching", "waiting", "yielding", "ended"},
             Becomes(c, where), lock' \in Captures \cup {None},
             UNCHANGED <<init, ports, readers, sent, inbox, cache, shutdown>>
      PROVE  IInv'
  <2>1. PICK l \in CaptureSet : l = [k EXCEPT !.at = where]
    BY DEF CaptureSet
  <2>2. l.queue = k.queue
    BY <2>1 DEF CaptureSet
  <2>3. capture' = [capture EXCEPT ![c] = l]
    BY <1>1, <1>2, <1>3, <2>1 DEF Becomes
  <2>. QED BY <1>1, <1>3, <2>2, <2>3, CaptureMoves
<1>4. GoOn \in {"waiting", "ended"}
  BY DEF GoOn
<1>5. CASE CaptureUblox(c)
  BY <1>2, <1>3, <1>5 DEF CaptureUblox
<1>6. CASE CaptureLocks(c)
  BY <1>2, <1>3, <1>4, <1>6 DEF CaptureLocks
<1>7. CASE CaptureCached(c)
  BY <1>2, <1>3, <1>4, <1>7 DEF CaptureCached
<1>8. CASE CaptureTakes(c)
  <2>1. CASE k.queue = <<>>
    BY <1>1, <1>2, <1>3, <1>8, <2>1 DEF CaptureTakes
  <2>2. CASE k.queue # <<>>
    <3>1. PICK q \in Seq(1..Packets) : q = k.queue /\ q # <<>>
      BY <2>2 DEF CaptureSet
    <3>2. Head(q) \in 1..Packets /\ Tail(q) \in Seq(1..Packets) /\ Len(Tail(q)) = Len(q) - 1
      BY <3>1, HeadTailProperties
    <3>3. Len(Tail(q)) <= QueueSize
      <4>1. Len(q) \in Nat /\ Len(q) <= QueueSize
        BY <1>1, <3>1
      <4>. QED BY <3>2, <4>1, Bounds
    <3>4. PICK h \in 0..Packets, r \in Seq(1..Packets) : h = Head(q) /\ r = Tail(q)
      <4>1. Head(q) \in 0..Packets
        BY <3>2, Bounds
      <4>. QED BY <3>2, <4>1
    <3>5. PICK l \in CaptureSet : l = [at |-> "yielding", queue |-> r, item |-> h]
      BY DEF CaptureSet
    <3>6. l.queue = r
      BY <3>5
    <3>7. capture' = [capture EXCEPT ![c] = l]
      BY <1>1, <1>2, <1>8, <3>1, <3>4, <3>5 DEF CaptureTakes
    <3>. QED BY <1>2, <1>8, <3>3, <3>4, <3>6, <3>7, CaptureMoves DEF CaptureTakes
  <2>. QED BY <2>1, <2>2
<1>9. CASE CaptureYielded(c)
  <2>1. PICK at \in {"waiting", "ended"} : at = GoOn
    BY <1>4
  <2>2. PICK l \in CaptureSet : l = [k EXCEPT !.at = at, !.item = 0]
    <3>1. 0 \in 0..Packets
      BY Bounds
    <3>. QED BY <3>1 DEF CaptureSet
  <2>3. l.queue = k.queue
    BY <2>2 DEF CaptureSet
  <2>4. capture' = [capture EXCEPT ![c] = l]
    BY <1>1, <1>2, <1>9, <2>1, <2>2 DEF CaptureYielded
  <2>. QED BY <1>1, <1>2, <1>9, <2>3, <2>4, CaptureMoves DEF CaptureYielded
<1>10. CASE CaptureCancelled(c)
  BY <1>2, <1>3, <1>10 DEF CaptureCancelled
<1>. QED BY <1>5, <1>6, <1>7, <1>8, <1>9, <1>10 DEF CaptureNext

(* A packet goes to the cache and to the queues that have room.            *)
LEMMA DistributeKeeps ==
  ASSUME IInv, Distribute
  PROVE  IInv'
<1>1. PICK q \in Seq(1..Packets) : q = inbox /\ q # <<>>
  BY DEF Distribute, IInv, Streamed
<1>2. Head(q) \in 1..Packets /\ Tail(q) \in Seq(1..Packets)
  BY <1>1, HeadTailProperties
<1>3. PICK h \in 1..Packets : h = Head(q)
  BY <1>2
<1>4. ASSUME NEW c \in Captures
      PROVE  capture'[c] \in CaptureSet /\ Len(capture'[c].queue) <= QueueSize
  <2>1. PICK k \in CaptureSet : k = capture[c] /\ Len(k.queue) <= QueueSize
    BY DEF IInv, Streamed
  <2>2. PICK s \in Seq(1..Packets) : s = k.queue /\ Len(s) <= QueueSize /\ Len(s) \in Nat
    BY <2>1 DEF CaptureSet
  <2>3. CASE capture'[c] = capture[c]
    BY <2>1, <2>3
  <2>4. CASE Len(s) < QueueSize /\ capture'[c] = [k EXCEPT !.queue = Append(s, h)]
    <3>1. Append(s, h) \in Seq(1..Packets) /\ Len(Append(s, h)) = Len(s) + 1
      BY AppendProperties
    <3>2. PICK l \in CaptureSet : l = [k EXCEPT !.queue = Append(s, h)]
      BY <3>1 DEF CaptureSet
    <3>3. l.queue = Append(s, h)
      BY <3>2 DEF CaptureSet
    <3>4. Len(s) + 1 <= QueueSize
      BY <2>2, <2>4, Bounds
    <3>. QED BY <2>4, <3>1, <3>2, <3>3, <3>4
  <2>. QED BY <1>1, <1>3, <2>1, <2>2, <2>3, <2>4 DEF Distribute
<1>5. capture' \in [Captures -> CaptureSet]
  BY <1>4 DEF Distribute
<1>6. h \in 0..Packets
  BY Bounds
<1>7. Streamed'
  BY <1>1, <1>2, <1>3, <1>4, <1>5, <1>6 DEF Distribute, IInv, Streamed
<1>. QED BY <1>7 DEF Distribute, IInv, Calls, Known, ports, readers

(* The shutdown closes the port the servicer knows.                        *)
LEMMA RestKeeps ==
  ASSUME IInv, Shutdown \/ ShutdownStops \/ UNCHANGED vars
  PROVE  IInv'
BY DEF Shutdown, ShutdownStops, vars, ports, readers, stream, IInv, Calls, Streamed, Known

(* The inductive invariant holds of every reachable state.                 *)
THEOREM UbloxInvariant == Spec => []IInv
<1>1. Init => IInv
  BY InitHolds
<1>2. IInv /\ [Next]_vars => IInv'
  BY InitNextKeeps, ReaderKeeps, CaptureNextKeeps, DistributeKeeps, RestKeeps DEF Next
<1>. QED BY <1>1, <1>2, PTL DEF Spec

(* For any number of InitF9t calls that overlap, fail, are cancelled and   *)
(* race with the shutdown: at most one port is open, and it is the one     *)
(* that the next stop() closes.                                            *)
THEOREM OneOpenPort == Spec => []OnePort
<1>1. IInv => OnePort
  BY StepNames DEF IInv, Calls, Streamed, Known, OnePort, TypeOK, InitSet
<1>. QED BY <1>1, UbloxInvariant, PTL

-----------------------------------------------------------------------------
(* The conversation that configures the receiver                           *)

(* The names of registers.                                                 *)
Names == {"SIGNAL", "OTHER", "TMODE_MODE", "TMODE_LAT", "TMODE_LAT_HP"}

(* The settings.                                                           *)
Items == Names \X Int

(* The kinds of messages.                                                  *)
Types == {"CFG-VALSET", "CFG-VALGET", "MON-VER", "SEC-UNIQID", "ONE-VALGET"}

(* What the host sends.                                                    *)
MessageSet == [type : Types, tx : 0..3, items : SUBSET Items]

(* The receivers, and that none is known yet.                              *)
ModelSet == {"", "ZED-F9T", "ZED-F9P"}

(* What is asked for.                                                      *)
PlanSet ==
  [bad : {"no", "settings", "position"}, signal : Nat, other : Nat, position : Seq(Int),
   verbose : BOOLEAN, probe_only : BOOLEAN, dry_run : BOOLEAN, server : BOOLEAN]

(* What the receiver sends.                                                *)
AnswerSet == [type : {"CFG-VALGET", "ACK-ACK", "ACK-NAK", "MON-VER", "SEC-UNIQID"}, model : ModelSet]

(* Where the host is.                                                      *)
HostStates == {"idle", "raised", "probed", "planned", "verified", "mismatch"} \cup Phases

(* What the variables hold.                                                *)
Typed ==
  /\ plan \in PlanSet /\ Len(plan.position) <= 1 /\ (plan.server => ~plan.probe_only /\ ~plan.dry_run)
  /\ host \in [at : HostStates, todo : Seq(MessageSet), sent : Seq(MessageSet), model : ModelSet,
               acks : Seq(BOOLEAN), late : BOOLEAN]
  /\ host.sent = <<>> \/ \E message \in MessageSet : host.sent = <<message>>
  /\ line \in [to : Seq(MessageSet), from : Seq(AnswerSet)]
  /\ receiver \in [model : ModelSet, alive : BOOLEAN, registers : SUBSET Items,
                   transaction : SUBSET Items, verdicts : Seq(BOOLEAN)]

(* The messages that change something.                                     *)
IsSetting(message) == message.type = "CFG-VALSET"

(* How many settings messages are acknowledged or still waited for ...     *)
Given == Len(host.acks) + (IF Waiting /\ IsSetting(host.sent[1]) THEN 1 ELSE 0)

(* ... and how many the receiver has judged ...                            *)
Judged == Len(receiver.verdicts)

(* ... of those there are.                                                 *)
Settings == send_cfg_valset_grouped

(* The phases up to the settings.                                          *)
Before == {"idle", "model", "uid", "before", "probe"}

(* What the host has sent or is to send in this phase.                     *)
Asked == ToSet(host.todo) \cup ToSet(host.sent)

(* The host and its messages by phase.                                     *)
Phased ==
  /\ host.at \in Before => Given = 0
  /\ host.at \in Before \cup {"verify"} => \A m \in Asked : ~IsSetting(m)
  /\ host.at \notin {"model", "probe"} => \A m \in Asked : m.type # "MON-VER"
  /\ host.at = "send" => host.todo = SubSeq(Settings, Given + 1, Len(Settings))
                         /\ (Waiting => Given >= 1 /\ host.sent = <<Settings[Given]>>)
  /\ host.at \in {"verify", "verified", "mismatch"} => Given = Len(Settings)
  /\ Given <= Len(Settings)
  /\ host.at \notin Phases => host.todo = <<>> /\ host.sent = <<>>
  /\ Given > 0 \/ host.at \in {"uid", "send", "verify"} => ~plan.dry_run /\ ~plan.probe_only
  /\ host.model \in {"", receiver.model}
  /\ host.at = "idle" => F9tInit

(* The messages on their way: after p others the settings given and not    *)
(* yet judged, in order, and more only when no setting is to come.         *)
Carries(to, settings, judged, given, tight) ==
  /\ judged <= given
  /\ \E p \in 0..Len(to) :
       /\ p + (given - judged) <= Len(to)
       /\ tight => p + (given - judged) = Len(to)
       /\ \A i \in 1..Len(to) :
            IF p < i /\ i <= p + (given - judged) THEN to[i] = settings[judged + i - p]
            ELSE ~IsSetting(to[i])

(* That is what is on the line.                                            *)
Ordered == Carries(line.to, Settings, Judged, Given, host.at \in Before \cup {"send"})

(* The items of the first messages of a group.                             *)
UpTo(s, j) == {s[k] : k \in {l \in DOMAIN s : l <= j * ChunkSize}}

(* How many messages the group of the signals takes.                       *)
NumSignal == NumChunks(Len(Signal))

(* That of the other settings.                                             *)
NumOther == NumChunks(Len(Other))

(* What a transaction holds after v messages if none was refused.          *)
Pending(v) ==
  IF v < NumSignal THEN UpTo(Signal, v)
  ELSE IF v - NumSignal < NumOther THEN UpTo(Other, v - NumSignal) ELSE {}

(* What the registers have after v messages if none was refused.           *)
Applied(v) ==
  (IF v >= NumSignal THEN ToSet(Signal) ELSE {}) \cup
  (IF v >= NumSignal + NumOther THEN ToSet(Other) ELSE {})

(* The transaction is empty or holds what the messages before carried; the *)
(* registers have whole groups; nothing is missing if nothing was refused. *)
Booked ==
  /\ receiver.transaction \in {{}, Pending(Judged)}
  /\ receiver.registers \in {{}, ToSet(Signal), ToSet(Other), Wanted}
  /\ FALSE \notin ToSet(receiver.verdicts) =>
       receiver.transaction = Pending(Judged) /\ receiver.registers = Applied(Judged)

(* The answer to a setting.                                                *)
AckOf(ok) == IF ok THEN "ACK-ACK" ELSE "ACK-NAK"

(* As long as no answer was late, an answer is that to the message sent.   *)
Timely ==
  ~host.late =>
    /\ \A i \in DOMAIN host.acks : host.acks[i] = (i <= Judged /\ receiver.verdicts[i])
    /\ Judged > Len(host.acks) => Waiting /\ IsSetting(host.sent[1]) /\ line.to = <<>>
    /\ host.at \in Phases /\ ~Waiting => line.from = <<>>
    /\ Waiting /\ line.to # <<>> => line.from = <<>> /\ line.to[Len(line.to)] = host.sent[1]
    /\ Waiting /\ line.to = <<>> =>
         /\ IsSetting(host.sent[1]) =>
              /\ Judged > Len(host.acks) /\ Len(line.from) = 1
              /\ line.from[1].type = AckOf(receiver.verdicts[Judged])
         /\ \/ Len(line.from) <= 1
            \/ line.from[1].type = "CFG-VALGET" /\ host.sent[1].type \in {"CFG-VALGET", "ONE-VALGET"}

(* An answer names the receiver's model.                                   *)
Models == \A i \in DOMAIN line.from : line.from[i].model = receiver.model

(* The inductive invariant of the conversation.                            *)
F9tInv == Typed /\ Phased /\ Ordered /\ Booked /\ Timely /\ Models

-----------------------------------------------------------------------------
(* The messages of a group                                                 *)

(* How many messages a group takes.                                        *)
LEMMA Chunks ==
  ASSUME NEW n \in Nat
  PROVE  /\ NumChunks(n) \in Nat /\ n <= NumChunks(n) * ChunkSize
         /\ (n = 0 => NumChunks(n) = 0)
         /\ (n > 0 => NumChunks(n) > 0 /\ (NumChunks(n) - 1) * ChunkSize < n)
<1>1. PICK c \in Nat : c = ChunkSize /\ c > 0
  BY F9tAssumption
<1>2. PICK q \in Nat, r \in Nat : q = (n + c - 1) \div c /\ n + c - 1 = q * c + r /\ r < c
  BY <1>1, SMT
<1>3. NumChunks(n) = q
  BY <1>1, <1>2 DEF NumChunks
<1>4. n <= q * c
  BY <1>1, <1>2, SMT
<1>5. n = 0 => q = 0
  <2>1. SUFFICES ASSUME n = 0, q >= 1 PROVE FALSE
    BY SMT
  <2>2. q * c >= c
    BY <1>1, <2>1, SMT
  <2> QED BY <1>1, <1>2, <2>1, <2>2, SMT
<1>6. n > 0 => q > 0 /\ (q - 1) * c < n
  <2>1. SUFFICES ASSUME n > 0 PROVE q > 0 /\ (q - 1) * c < n
    OBVIOUS
  <2>2. (q - 1) * c = q * c - c
    BY <1>1, SMT
  <2>3. q # 0
    BY <1>1, <1>4, <2>1, SMT
  <2> QED BY <1>1, <1>2, <2>1, <2>2, <2>3, SMT
<1> QED BY <1>1, <1>3, <1>4, <1>5, <1>6

(* Which message of its group carries an item.                             *)
LEMMA InChunk ==
  ASSUME NEW k \in Nat \ {0}, NEW j \in Nat \ {0}
  PROVE  (k - 1) \div ChunkSize = j - 1 <=> (j - 1) * ChunkSize < k /\ k <= j * ChunkSize
<1>1. PICK c \in Nat : c = ChunkSize /\ c > 0
  BY F9tAssumption
<1>2. PICK q \in Nat, r \in Nat : q = (k - 1) \div c /\ k - 1 = q * c + r /\ r < c
  BY <1>1, SMT
<1>3. j * c = (j - 1) * c + c
  BY <1>1, SMT
<1>4. CASE q = j - 1
  BY <1>1, <1>2, <1>3, <1>4, SMT
<1>5. CASE q >= j
  <2>1. q * c >= j * c
    BY <1>1, <1>5, SMT
  <2> QED BY <1>1, <1>2, <1>3, <1>5, <2>1, SMT
<1>6. CASE q < j - 1
  <2>1. (q + 1) * c <= (j - 1) * c /\ (q + 1) * c = q * c + c
    BY <1>1, <1>6, SMT
  <2> QED BY <1>1, <1>2, <1>3, <1>6, <2>1, SMT
<1> QED BY <1>2, <1>4, <1>5, <1>6, SMT

(* The items of the first messages, from message to message.               *)
LEMMA UpToFacts ==
  ASSUME NEW s \in Seq(Items)
  PROVE  /\ UpTo(s, 0) = {}
         /\ \A j \in 1..NumChunks(Len(s)) : UpTo(s, j - 1) \cup Chunk(s, j) = UpTo(s, j)
         /\ UpTo(s, NumChunks(Len(s))) = ToSet(s)
<1>1. PICK c \in Nat : c = ChunkSize /\ c > 0
  BY F9tAssumption
<1>2. PICK n \in Nat : n = Len(s) /\ DOMAIN s = 1..n
  BY LenProperties
<1>3. /\ NumChunks(n) \in Nat /\ n <= NumChunks(n) * c
  BY <1>1, <1>2, Chunks
<1>4. UpTo(s, 0) = {}
  BY <1>1, <1>2 DEF UpTo
<1>5. ASSUME NEW j \in 1..NumChunks(n) PROVE UpTo(s, j - 1) \cup Chunk(s, j) = UpTo(s, j)
  <2>1. j \in Nat \ {0} /\ j - 1 \in Nat
    BY <1>3
  <2>2. PICK a \in Nat, b \in Nat : a = (j - 1) * c /\ b = j * c /\ a <= b
    BY <1>1, <2>1, SMT
  <2>3. \A k \in 1..n : ((k - 1) \div c = j - 1 <=> a < k /\ k <= b)
    BY <1>1, <2>1, <2>2, InChunk
  <2>4. Chunk(s, j) = {s[k] : k \in {l \in 1..n : a < l /\ l <= b}}
    <3>1. {k \in 1..n : (k - 1) \div c = j - 1} = {l \in 1..n : a < l /\ l <= b}
      BY <2>3
    <3> QED BY <1>1, <1>2, <3>1 DEF Chunk
  <2>5. UpTo(s, j - 1) = {s[k] : k \in {l \in 1..n : l <= a}} /\ UpTo(s, j) = {s[k] : k \in {l \in 1..n : l <= b}}
    BY <1>1, <1>2, <2>2 DEF UpTo
  <2> QED BY <2>2, <2>4, <2>5
<1>6. UpTo(s, NumChunks(n)) = ToSet(s)
  <2>1. PICK a \in Nat : a = NumChunks(n) * c /\ n <= a
    BY <1>1, <1>3, SMT
  <2>2. {l \in 1..n : l <= a} = 1..n
    BY <2>1
  <2> QED BY <1>1, <1>2, <2>1, <2>2 DEF UpTo, ToSet
<1> QED BY <1>2, <1>4, <1>5, <1>6

(* None, start, continue, commit, by the place in the group.               *)
LEMMA TransactionOf ==
  ASSUME NEW n \in Nat, NEW i \in 1..NumChunks(n)
  PROVE  /\ Transaction(n, i) \in 0..3
         /\ NumChunks(n) = 1 <=> Transaction(n, i) = 0
         /\ Transaction(n, i) = 1 => i = 1
         /\ Transaction(n, i) \in {1, 2} <=> i < NumChunks(n)
<1>1. PICK c \in Nat : c = ChunkSize /\ c > 0
  BY F9tAssumption
<1>2. PICK m \in Nat : m = NumChunks(n) /\ n <= m * c /\ m > 0 /\ n > 0 /\ (m - 1) * c < n
  BY <1>1, Chunks
<1>3. i \in Nat /\ i >= 1 /\ i <= m
  BY <1>2
<1>4. n <= c <=> m = 1
  <2>1. m = 1 => n <= c
    BY <1>1, <1>2, SMT
  <2>2. m >= 2 => ~(n <= c)
    <3>1. SUFFICES ASSUME m >= 2 PROVE ~(n <= c)
      OBVIOUS
    <3>2. (m - 1) * c >= c
      BY <1>1, <3>1, SMT
    <3> QED BY <1>1, <1>2, <3>2, SMT
  <2> QED BY <1>2, <2>1, <2>2, SMT
<1>5. i * c >= n <=> i = m
  <2>1. i = m => i * c >= n
    BY <1>2
  <2>2. i < m => ~(i * c >= n)
    <3>1. SUFFICES ASSUME i < m PROVE ~(i * c >= n)
      OBVIOUS
    <3>2. i * c <= (m - 1) * c
      BY <1>1, <1>2, <1>3, <3>1, SMT
    <3> QED BY <1>1, <1>2, <1>3, <3>2, SMT
  <2> QED BY <1>2, <1>3, <2>1, <2>2, SMT
<1>6. CASE n <= c
  <2>1. Transaction(n, i) = 0
    BY <1>1, <1>6 DEF Transaction
  <2> QED BY <1>2, <1>3, <1>4, <1>6, <2>1
<1>7. CASE n > c /\ i = 1
  <2>1. Transaction(n, i) = 1
    BY <1>1, <1>7 DEF Transaction
  <2> QED BY <1>1, <1>2, <1>3, <1>4, <1>7, <2>1
<1>8. CASE n > c /\ i > 1
  <2>1. Transaction(n, i) = IF i * c >= n THEN 3 ELSE 2
    BY <1>1, <1>8 DEF Transaction
  <2> QED BY <1>1, <1>2, <1>3, <1>4, <1>5, <1>8, <2>1
<1> QED BY <1>1, <1>3, <1>6, <1>7, <1>8

(* The messages of a group.                                                *)
LEMMA GroupMessages ==
  ASSUME NEW s \in Seq(Items)
  PROVE  /\ SetMessages(s) \in Seq(MessageSet) /\ Len(SetMessages(s)) = NumChunks(Len(s))
         /\ NumChunks(Len(s)) \in Nat
         /\ \A i \in 1..NumChunks(Len(s)) :
              SetMessages(s)[i] = [type |-> "CFG-VALSET", tx |-> Transaction(Len(s), i), items |-> Chunk(s, i)]
<1>1. PICK n \in Nat : n = NumChunks(Len(s))
  BY Chunks, LenProperties
<1>2. SetMessages(s) = [i \in 1..n |-> [type |-> "CFG-VALSET", tx |-> Transaction(Len(s), i), items |-> Chunk(s, i)]]
  BY <1>1 DEF SetMessages, Message
<1>3. ASSUME NEW i \in 1..n
      PROVE  [type |-> "CFG-VALSET", tx |-> Transaction(Len(s), i), items |-> Chunk(s, i)] \in MessageSet
  <2>1. Transaction(Len(s), i) \in 0..3
    BY <1>1, LenProperties, TransactionOf
  <2>2. Chunk(s, i) \in SUBSET Items
    BY ElementOfSeq, LenProperties DEF Chunk
  <2> QED BY <2>1, <2>2 DEF MessageSet, Types
<1> DEFINE e(i) == [type |-> "CFG-VALSET", tx |-> Transaction(Len(s), i), items |-> Chunk(s, i)]
<1>4. SetMessages(s) = [i \in 1..n |-> e(i)] /\ \A i \in 1..n : e(i) \in MessageSet
  BY <1>2, <1>3
<1>5. SetMessages(s) \in Seq(MessageSet) /\ Len(SetMessages(s)) = n /\ \A i \in 1..n : SetMessages(s)[i] = e(i)
  <2> HIDE DEF e
  <2> QED BY <1>1, <1>4
<1> QED BY <1>1, <1>5

(* Message m, the j-th of group s, with transaction t: the transaction goes *)
(* on with the items so far, or the group is complete.                     *)
Advances(s, j, t, m) ==
  /\ m.tx \in {0, 1, 2, 3}
  /\ m.tx \in {1, 2} <=> j < NumChunks(Len(s))
  /\ m.tx \in {1, 2} => t \cup m.items = UpTo(s, j)
  /\ m.tx = 0 => m.items = ToSet(s)
  /\ m.tx = 3 => t \cup m.items = ToSet(s)

(* One message of a group that is accepted.                                *)
LEMMA GroupStep ==
  ASSUME NEW s \in Seq(Items), NEW j \in 1..NumChunks(Len(s)), NEW t \in {{}, UpTo(s, j - 1)},
         NEW m, m = SetMessages(s)[j], m.tx \in {2, 3} => t # {}
  PROVE  Advances(s, j, t, m)
<1>1. PICK n \in Nat : n = NumChunks(Len(s)) /\ j <= n /\ j >= 1
  BY GroupMessages
<1>2. m.tx = Transaction(Len(s), j) /\ m.items = Chunk(s, j)
  <2>1. m = [type |-> "CFG-VALSET", tx |-> Transaction(Len(s), j), items |-> Chunk(s, j)]
    BY GroupMessages
  <2>2. /\ [type |-> "CFG-VALSET", tx |-> Transaction(Len(s), j), items |-> Chunk(s, j)].tx = Transaction(Len(s), j)
        /\ [type |-> "CFG-VALSET", tx |-> Transaction(Len(s), j), items |-> Chunk(s, j)].items = Chunk(s, j)
    OBVIOUS
  <2> QED BY <2>1, <2>2
<1>3. /\ m.tx \in 0..3 /\ (n = 1 <=> m.tx = 0) /\ (m.tx = 1 => j = 1) /\ (m.tx \in {1, 2} <=> j < n)
  BY <1>1, <1>2, LenProperties, TransactionOf
<1>4. /\ UpTo(s, 0) = {} /\ UpTo(s, j - 1) \cup m.items = UpTo(s, j)
      /\ UpTo(s, n) = ToSet(s)
  BY <1>1, <1>2, UpToFacts
<1>5. m.tx = 1 => t = {}
  <2>1. SUFFICES ASSUME m.tx = 1 PROVE t = {}
    OBVIOUS
  <2>2. j - 1 = 0
    BY <1>3, <2>1
  <2> QED BY <1>4, <2>2
<1>6. m.tx \in {1, 2, 3} => t \cup m.items = UpTo(s, j)
  <2>1. CASE m.tx = 1
    <3>1. UpTo(s, j - 1) = {}
      <4>1. j - 1 = 0
        BY <1>3, <2>1
      <4> QED BY <1>4, <4>1
    <3> QED BY <1>4, <1>5, <2>1, <3>1
  <2>2. CASE m.tx \in {2, 3}
    BY <1>4, <2>2
  <2> QED BY <2>1, <2>2
<1>7. m.tx = 0 => m.items = ToSet(s)
  <2>1. SUFFICES ASSUME m.tx = 0 PROVE m.items = ToSet(s)
    OBVIOUS
  <2>2. n = 1 /\ j = 1 /\ j - 1 = 0
    BY <1>1, <1>3, <2>1
  <2> QED BY <1>4, <2>2
<1>8. m.tx = 3 => j = n
  BY <1>1, <1>3
<1>9. m.tx \in {0, 1, 2, 3}
  BY <1>3
<1> QED BY <1>1, <1>3, <1>4, <1>6, <1>7, <1>8, <1>9 DEF Advances

-----------------------------------------------------------------------------
(* The two groups                                                          *)

(* The signals' settings.                                                  *)
InSignal(item) == item[1] = "SIGNAL"

(* Those of the other group, the position among them for an F9T only.      *)
InOther(item) ==
  /\ item[1] # "SIGNAL"
  /\ item[1] # "OTHER" => host.model = "ZED-F9T" /\ plan.position # <<>>
  /\ item[1] = "TMODE_LAT" => item[2] = plan.position[1] \div 100
  /\ item[1] = "TMODE_LAT_HP" => item[2] = plan.position[1] % 100

(* The settings of the two groups.                                         *)
LEMMA Groups ==
  ASSUME Typed
  PROVE  /\ Signal \in Seq(Items) /\ Other \in Seq(Items)
         /\ \A item \in ToSet(Signal) : InSignal(item)
         /\ \A item \in ToSet(Other) : InOther(item)
         /\ plan.signal = Len(Signal)
<1>1. plan.signal \in Nat /\ plan.other \in Nat /\ plan.position \in Seq(Int)
  BY DEF Typed, PlanSet
<1>2. Signal \in Seq(Items) /\ Len(Signal) = plan.signal /\ \A i \in 1..Len(Signal) : InSignal(Signal[i])
  <2>1. PICK n \in Nat : n = plan.signal
    BY <1>1
  <2>2. \A i \in 1..n : <<"SIGNAL", i>> \in Items /\ InSignal(<<"SIGNAL", i>>)
    BY DEF Items, Names, InSignal
  <2>3. Signal = [i \in 1..n |-> <<"SIGNAL", i>>]
    BY <2>1 DEF Signal
  <2>4. Signal \in Seq(Items) /\ Len(Signal) = n /\ \A i \in 1..n : Signal[i] = <<"SIGNAL", i>>
    <3> DEFINE e(i) == <<"SIGNAL", i>>
    <3>1. Signal = [i \in 1..n |-> e(i)] /\ \A i \in 1..n : e(i) \in Items
      BY <2>2, <2>3
    <3>2. Signal \in Seq(Items) /\ Len(Signal) = n /\ \A i \in 1..n : Signal[i] = e(i)
      <4> HIDE DEF e
      <4> QED BY <3>1
    <3> QED BY <3>2
  <2> QED BY <2>1, <2>2, <2>4
<1>3. PICK t \in Seq(Items) : t = Tmode(plan.position) /\ \A i \in 1..Len(t) : InOther(t[i])
  <2>1. CASE plan.position = <<>> \/ host.model # "ZED-F9T"
    <3>1. Tmode(plan.position) = <<>>
      BY <2>1 DEF Tmode
    <3>2. <<>> \in Seq(Items) /\ Len(<<>>) = 0
      OBVIOUS
    <3>3. \A i \in 1..Len(<<>>) : FALSE
      BY <3>2
    <3> QED BY <3>1, <3>2, <3>3
  <2>2. CASE plan.position # <<>> /\ host.model = "ZED-F9T"
    <3>1. PICK y \in Int, z \in Int : y = plan.position[1] \div 100 /\ z = plan.position[1] % 100
      <4>1. PICK x \in Int : x = plan.position[1]
        BY <1>1, <2>2
      <4> QED BY <4>1, SMT
    <3>2. PICK a, b, c : a = <<"TMODE_MODE", 2>> /\ b = <<"TMODE_LAT", y>> /\ c = <<"TMODE_LAT_HP", z>>
      OBVIOUS
    <3>3. a \in Items /\ b \in Items /\ c \in Items
      BY <3>1, <3>2 DEF Items, Names
    <3>4. InOther(a) /\ InOther(b) /\ InOther(c)
      BY <2>2, <3>1, <3>2 DEF InOther
    <3>5. Tmode(plan.position) = <<a, b, c>>
      BY <2>2, <3>1, <3>2 DEF Tmode, SplitScaled
    <3>6. <<a, b, c>> \in Seq(Items) /\ Len(<<a, b, c>>) = 3
      BY <3>3
    <3>7. \A i \in 1..3 : InOther(<<a, b, c>>[i])
      <4>1. <<a, b, c>>[1] = a /\ <<a, b, c>>[2] = b /\ <<a, b, c>>[3] = c
        OBVIOUS
      <4>2. \A i \in 1..3 : i = 1 \/ i = 2 \/ i = 3
        OBVIOUS
      <4> QED BY <3>4, <4>1, <4>2
    <3> QED BY <3>5, <3>6, <3>7
  <2> QED BY <2>1, <2>2
<1>4. PICK o \in Seq(Items) : /\ o = [i \in 1..plan.other |-> <<"OTHER", i>>]
                              /\ \A i \in 1..Len(o) : InOther(o[i])
  <2>1. PICK n \in Nat : n = plan.other
    BY <1>1
  <2>2. \A i \in 1..n : <<"OTHER", i>> \in Items /\ InOther(<<"OTHER", i>>)
    BY DEF Items, Names, InOther
  <2>3. PICK o : o = [i \in 1..n |-> <<"OTHER", i>>]
    OBVIOUS
  <2>4. o \in Seq(Items) /\ Len(o) = n /\ \A i \in 1..n : o[i] = <<"OTHER", i>>
    <3> DEFINE e(i) == <<"OTHER", i>>
    <3>1. o = [i \in 1..n |-> e(i)] /\ \A i \in 1..n : e(i) \in Items
      BY <2>2, <2>3
    <3>2. o \in Seq(Items) /\ Len(o) = n /\ \A i \in 1..n : o[i] = e(i)
      <4> HIDE DEF e
      <4> QED BY <3>1
    <3> QED BY <3>2
  <2> QED BY <2>1, <2>2, <2>3, <2>4
<1>5. Other \in Seq(Items) /\ \A i \in 1..Len(Other) : InOther(Other[i])
  <2>1. Other = t \o o
    BY <1>3, <1>4 DEF Other
  <2>2. /\ t \o o \in Seq(Items) /\ Len(t \o o) = Len(t) + Len(o)
        /\ \A i \in 1..Len(t) + Len(o) : (t \o o)[i] = IF i <= Len(t) THEN t[i] ELSE o[i - Len(t)]
    BY ConcatProperties
  <2>3. ASSUME NEW i \in 1..Len(t) + Len(o) PROVE InOther((t \o o)[i])
    <3>1. i <= Len(t) => i \in 1..Len(t)
      BY LenProperties
    <3>2. ~(i <= Len(t)) => i - Len(t) \in 1..Len(o)
      BY LenProperties
    <3> QED BY <1>3, <1>4, <2>2, <3>1, <3>2
  <2> QED BY <2>1, <2>2, <2>3
<1> QED BY <1>2, <1>5, LenProperties DEF ToSet

(* The numbers of messages of the two groups.                              *)
LEMMA GroupSizes ==
  ASSUME Typed
  PROVE  /\ NumSignal \in Nat /\ NumOther \in Nat
         /\ (NumSignal = 0 => ToSet(Signal) = {}) /\ (NumOther = 0 => ToSet(Other) = {})
<1>1. ASSUME NEW s \in Seq(Items)
      PROVE  NumChunks(Len(s)) \in Nat /\ (NumChunks(Len(s)) = 0 => ToSet(s) = {})
  <2>1. PICK n \in Nat : n = Len(s) /\ DOMAIN s = 1..n
    BY LenProperties
  <2>2. NumChunks(n) \in Nat /\ (NumChunks(n) = 0 => n = 0)
    BY Chunks
  <2> QED BY <2>1, <2>2 DEF ToSet
<1> QED BY <1>1, Groups DEF NumSignal, NumOther

(* The messages that carry them.                                           *)
LEMMA SettingsFacts ==
  ASSUME Typed
  PROVE  /\ Settings \in Seq(MessageSet) /\ Len(Settings) = NumSignal + NumOther
         /\ \A v \in 1..NumSignal + NumOther :
              /\ IsSetting(Settings[v])
              /\ v <= NumSignal => Settings[v] = SetMessages(Signal)[v]
              /\ v > NumSignal => v - NumSignal \in 1..NumOther /\ Settings[v] = SetMessages(Other)[v - NumSignal]
<1>1. /\ Signal \in Seq(Items) /\ Other \in Seq(Items) /\ NumSignal \in Nat /\ NumOther \in Nat
  BY Groups, GroupSizes
<1>2. PICK a \in Seq(MessageSet), b \in Seq(MessageSet) :
        /\ a = SetMessages(Signal) /\ b = SetMessages(Other)
        /\ Len(a) = NumSignal /\ Len(b) = NumOther
        /\ \A i \in 1..NumSignal : IsSetting(a[i])
        /\ \A i \in 1..NumOther : IsSetting(b[i])
  <2>1. /\ \A i \in 1..NumSignal : IsSetting(SetMessages(Signal)[i])
        /\ \A i \in 1..NumOther : IsSetting(SetMessages(Other)[i])
    <3>1. ASSUME NEW s \in Seq(Items), NEW i \in 1..NumChunks(Len(s)) PROVE IsSetting(SetMessages(s)[i])
      <4>1. SetMessages(s)[i] = [type |-> "CFG-VALSET", tx |-> Transaction(Len(s), i), items |-> Chunk(s, i)]
        BY GroupMessages
      <4> QED BY <4>1 DEF IsSetting
    <3> QED BY <1>1, <3>1 DEF NumSignal, NumOther
  <2> QED BY <1>1, <2>1, GroupMessages DEF NumSignal, NumOther
<1>3. Settings = a \o b
  BY <1>2 DEF Settings, send_cfg_valset_grouped
<1>4. /\ Settings \in Seq(MessageSet) /\ Len(Settings) = NumSignal + NumOther
      /\ \A v \in 1..NumSignal + NumOther :
           Settings[v] = IF v <= NumSignal THEN a[v] ELSE b[v - NumSignal]
  BY <1>2, <1>3, ConcatProperties
<1>5. ASSUME NEW v \in 1..NumSignal + NumOther
      PROVE  /\ IsSetting(Settings[v])
             /\ v <= NumSignal => Settings[v] = SetMessages(Signal)[v]
             /\ v > NumSignal => v - NumSignal \in 1..NumOther /\ Settings[v] = SetMessages(Other)[v - NumSignal]
  <2>1. v <= NumSignal => v \in 1..NumSignal
    BY <1>1
  <2>2. v > NumSignal => v - NumSignal \in 1..NumOther
    BY <1>1
  <2>3. v <= NumSignal \/ v > NumSignal
    BY <1>1
  <2> QED BY <1>2, <1>4, <2>1, <2>2, <2>3
<1> QED BY <1>4, <1>5

-----------------------------------------------------------------------------
(* The messages on their way                                               *)

(* One more setting is given ...                                           *)
LEMMA CarriesSetting ==
  ASSUME NEW to \in Seq(MessageSet), NEW settings, NEW j \in Nat, NEW g \in Nat, NEW m \in MessageSet,
         Carries(to, settings, j, g, TRUE), m = settings[g + 1]
  PROVE  Carries(Append(to, m), settings, j, g + 1, TRUE)
<1> DEFINE n == Len(to)
           q == Append(to, m)
<1>1. n \in Nat /\ Len(q) = n + 1 /\ q[n + 1] = m /\ \A i \in 1..n : q[i] = to[i]
  OBVIOUS
<1> HIDE DEF q
<1>2. PICK p \in 0..n : /\ p + (g - j) = n /\ j <= g
                        /\ \A i \in 1..n : IF p < i /\ i <= p + (g - j) THEN to[i] = settings[j + i - p]
                                           ELSE ~IsSetting(to[i])
  BY <1>1 DEF Carries
<1> HIDE DEF n
<1>3. ASSUME NEW i \in 1..n + 1
      PROVE  IF p < i /\ i <= p + (g + 1 - j) THEN q[i] = settings[j + i - p] ELSE ~IsSetting(q[i])
  <2>1. CASE i \in 1..n
    <3>1. i <= p + (g - j) /\ i <= p + (g + 1 - j)
      BY <1>1, <1>2, <2>1
    <3> QED BY <1>1, <1>2, <2>1, <3>1
  <2>2. CASE i = n + 1
    <3>1. j + i - p = g + 1 /\ p < i /\ i <= p + (g + 1 - j)
      BY <1>1, <1>2, <2>2
    <3> QED BY <1>1, <2>2, <3>1
  <2> QED BY <1>1, <2>1, <2>2
<1>4. p \in 0..n + 1 /\ p + (g + 1 - j) = n + 1 /\ j <= g + 1
  BY <1>1, <1>2
<1>5. Carries(q, settings, j, g + 1, TRUE)
  <2>1. PICK h \in Nat : h = g + 1
    OBVIOUS
  <2>2. \A i \in 1..Len(q) : IF p < i /\ i <= p + (h - j) THEN q[i] = settings[j + i - p] ELSE ~IsSetting(q[i])
    BY <1>1, <1>3, <2>1
  <2>3. p \in 0..Len(q) /\ p + (h - j) = Len(q) /\ j <= h /\ p + (h - j) <= Len(q)
    BY <1>1, <1>4, <2>1
  <2>4. Carries(q, settings, j, h, TRUE)
    BY <2>2, <2>3 DEF Carries
  <2> QED BY <2>1, <2>4
<1> QED BY <1>5 DEF q

(* ... or a message of another kind, which is not before the settings.     *)
LEMMA CarriesOther ==
  ASSUME NEW to \in Seq(MessageSet), NEW settings, NEW j \in Nat, NEW g \in Nat, NEW m \in MessageSet,
         NEW tight \in BOOLEAN, Carries(to, settings, j, g, tight), ~IsSetting(m), tight => g = 0
  PROVE  Carries(Append(to, m), settings, j, g, tight)
<1> DEFINE n == Len(to)
           q == Append(to, m)
<1>1. n \in Nat /\ Len(q) = n + 1 /\ q[n + 1] = m /\ \A i \in 1..n : q[i] = to[i]
  OBVIOUS
<1> HIDE DEF q
<1>2. PICK p \in 0..n : /\ p + (g - j) <= n /\ j <= g
                        /\ tight => p + (g - j) = n
                        /\ \A i \in 1..n : IF p < i /\ i <= p + (g - j) THEN to[i] = settings[j + i - p]
                                           ELSE ~IsSetting(to[i])
  BY <1>1 DEF Carries
<1>3. PICK r \in 0..n + 1 : r = IF tight THEN p + 1 ELSE p
  BY <1>2
<1>4. ASSUME NEW i \in 1..n + 1
      PROVE  IF r < i /\ i <= r + (g - j) THEN q[i] = settings[j + i - r] ELSE ~IsSetting(q[i])
  <2>1. CASE tight
    BY <1>1, <1>2, <1>3, <2>1
  <2>2. CASE ~tight
    BY <1>1, <1>2, <1>3, <2>2
  <2> QED BY <2>1, <2>2
<1>5. r + (g - j) <= n + 1 /\ (tight => r + (g - j) = n + 1)
  BY <1>2, <1>3
<1> QED BY <1>1, <1>2, <1>4, <1>5 DEF Carries, q

(* Messages without the first.                                             *)
LEMMA Tailed ==
  ASSUME NEW to \in Seq(MessageSet), to # <<>>
  PROVE  /\ Len(to) \in Nat \ {0} /\ Head(to) = to[1] /\ Head(to) \in MessageSet
         /\ Tail(to) \in Seq(MessageSet) /\ Len(Tail(to)) = Len(to) - 1
         /\ \A i \in 1..Len(to) - 1 : Tail(to)[i] = to[i + 1]
OBVIOUS

(* The receiver judges the first setting ...                               *)
LEMMA CarriesJudged ==
  ASSUME NEW to \in Seq(MessageSet), to # <<>>, NEW settings, NEW j \in Nat, NEW g \in Nat,
         NEW tight \in BOOLEAN, Carries(to, settings, j, g, tight), IsSetting(Head(to))
  PROVE  /\ j + 1 <= g /\ g <= j + Len(to) /\ Head(to) = settings[j + 1]
         /\ Carries(Tail(to), settings, j + 1, g, tight)
<1> DEFINE n == Len(to)
           q == Tail(to)
<1>1. n \in Nat /\ n > 0 /\ Len(q) = n - 1 /\ Head(to) = to[1] /\ \A i \in 1..n - 1 : q[i] = to[i + 1]
  BY Tailed
<1> HIDE DEF q
<1>2. PICK p \in 0..n : /\ p + (g - j) <= n /\ j <= g
                        /\ tight => p + (g - j) = n
                        /\ \A i \in 1..n : IF p < i /\ i <= p + (g - j) THEN to[i] = settings[j + i - p]
                                           ELSE ~IsSetting(to[i])
  BY <1>1 DEF Carries
<1>3. p = 0 /\ 1 <= g - j /\ to[1] = settings[j + 1]
  <2>1. 1 \in 1..n
    BY <1>1
  <2>2. p < 1 /\ 1 <= p + (g - j)
    BY <1>1, <1>2, <2>1
  <2>3. p = 0 /\ j + 1 - p = j + 1
    BY <2>2
  <2> QED BY <1>2, <2>1, <2>2, <2>3
<1>4. ASSUME NEW i \in 1..n - 1
      PROVE  IF 0 < i /\ i <= 0 + (g - (j + 1)) THEN q[i] = settings[j + 1 + i - 0] ELSE ~IsSetting(q[i])
  <2>1. i + 1 \in 1..n /\ j + (i + 1) - p = j + 1 + i - 0
    BY <1>1, <1>3
  <2>2. p < i + 1 /\ i + 1 <= p + (g - j) <=> 0 < i /\ i <= 0 + (g - (j + 1))
    BY <1>3
  <2> QED BY <1>1, <1>2, <2>1, <2>2
<1>5. j + 1 <= g /\ 0 \in 0..n - 1 /\ 0 + (g - (j + 1)) <= n - 1 /\ (tight => 0 + (g - (j + 1)) = n - 1)
  BY <1>1, <1>2, <1>3
<1>6. g <= j + n
  BY <1>2, <1>3
<1>7. Carries(q, settings, j + 1, g, tight)
  BY <1>1, <1>4, <1>5 DEF Carries
<1> QED BY <1>1, <1>3, <1>5, <1>6, <1>7 DEF q

(* ... or answers another message.                                         *)
LEMMA CarriesPassed ==
  ASSUME NEW to \in Seq(MessageSet), to # <<>>, NEW settings, NEW j \in Nat, NEW g \in Nat,
         NEW tight \in BOOLEAN, Carries(to, settings, j, g, tight), ~IsSetting(Head(to)),
         \A i \in 1..g : IsSetting(settings[i])
  PROVE  Carries(Tail(to), settings, j, g, tight)
<1> DEFINE n == Len(to)
           q == Tail(to)
<1>1. n \in Nat /\ n > 0 /\ Len(q) = n - 1 /\ Head(to) = to[1] /\ \A i \in 1..n - 1 : q[i] = to[i + 1]
  BY Tailed
<1> HIDE DEF q
<1>2. PICK p \in 0..n : /\ p + (g - j) <= n /\ j <= g
                        /\ tight => p + (g - j) = n
                        /\ \A i \in 1..n : IF p < i /\ i <= p + (g - j) THEN to[i] = settings[j + i - p]
                                           ELSE ~IsSetting(to[i])
  BY <1>1 DEF Carries
<1>3. p > 0 \/ g = j
  <2>1. SUFFICES ASSUME p = 0, g > j PROVE FALSE
    BY <1>2
  <2>2. 1 \in 1..n /\ p < 1 /\ 1 <= p + (g - j) /\ j + 1 - p \in 1..g
    BY <1>1, <2>1
  <2>3. to[1] = settings[j + 1 - p]
    BY <1>2, <2>2
  <2> QED BY <1>1, <2>2, <2>3
<1>4. PICK r \in 0..n - 1 : r = (IF p > 0 THEN p - 1 ELSE 0)
  BY <1>1
<1>5. ASSUME NEW i \in 1..n - 1
      PROVE  IF r < i /\ i <= r + (g - j) THEN q[i] = settings[j + i - r] ELSE ~IsSetting(q[i])
  <2>1. i + 1 \in 1..n
    BY <1>1
  <2>2. CASE p > 0
    <3>1. j + (i + 1) - p = j + i - r
      BY <1>4, <2>2
    <3>2. p < i + 1 /\ i + 1 <= p + (g - j) <=> r < i /\ i <= r + (g - j)
      BY <1>4, <2>2
    <3> QED BY <1>1, <1>2, <2>1, <3>1, <3>2
  <2>3. CASE p = 0
    <3>1. ~(p < i + 1 /\ i + 1 <= p + (g - j)) /\ ~(r < i /\ i <= r + (g - j))
      BY <1>3, <1>4, <2>3
    <3> QED BY <1>1, <1>2, <2>1, <3>1
  <2> QED BY <2>2, <2>3
<1>6. r + (g - j) <= n - 1 /\ (tight => r + (g - j) = n - 1)
  BY <1>1, <1>2, <1>3, <1>4
<1> QED BY <1>1, <1>2, <1>5, <1>6 DEF Carries, q

-----------------------------------------------------------------------------
(* What the receiver has                                                   *)

(* The groups change with the plan and the model only.                     *)
LEMMA Frame ==
  ASSUME plan' = plan, host'.model = host.model
  PROVE  /\ Signal' = Signal /\ Other' = Other /\ Settings' = Settings /\ Wanted' = Wanted
         /\ NumSignal' = NumSignal /\ NumOther' = NumOther
<1>1. Signal' = Signal
  BY DEF Signal
<1>2. Other' = Other
  BY DEF Other, Tmode
<1> QED BY <1>1, <1>2 DEF Settings, send_cfg_valset_grouped, SetMessages, Wanted, NumSignal, NumOther

(* What the receiver has stays right when it does nothing.                 *)
LEMMA BookedStays ==
  ASSUME Booked, plan' = plan, host'.model = host.model,
         receiver'.transaction = receiver.transaction, receiver'.registers = receiver.registers,
         receiver'.verdicts = receiver.verdicts
  PROVE  Booked'
<1>1. Judged' = Judged
  BY DEF Judged
<1>2. Pending(Judged)' = Pending(Judged) /\ Applied(Judged)' = Applied(Judged)
  BY <1>1, Frame DEF Pending, Applied, UpTo
<1> QED BY <1>1, <1>2, Frame DEF Booked

(* Before the first setting it has nothing, whatever is planned.           *)
LEMMA BookedNone ==
  ASSUME Typed, Judged = 0
  PROVE  Booked <=> receiver.transaction = {} /\ receiver.registers = {}
<1>1. receiver.verdicts = <<>> /\ ToSet(receiver.verdicts) = {}
  BY DEF Typed, Judged, ToSet
<1>2. Pending(0) = {}
  BY Groups, GroupSizes, UpToFacts DEF Pending
<1>3. Applied(0) = {}
  BY GroupSizes DEF Applied
<1> QED BY <1>1, <1>2, <1>3 DEF Booked

(* What a setting that is accepted adds.                                   *)
LEMMA AcceptedFacts ==
  ASSUME Typed, NEW m, Accepted(m)
  PROVE  /\ receiver'.verdicts = Append(receiver.verdicts, TRUE) /\ receiver'.model = receiver.model
         /\ m.tx \in {1, 2} => /\ receiver'.transaction = receiver.transaction \cup m.items
                               /\ receiver'.registers = receiver.registers
         /\ m.tx = 0 => /\ receiver'.transaction = {}
                        /\ receiver'.registers = receiver.registers \cup m.items
         /\ m.tx = 3 => /\ receiver'.transaction = {}
                        /\ receiver'.registers = receiver.registers \cup (receiver.transaction \cup m.items)
<1>1. receiver \in [model : ModelSet, alive : BOOLEAN, registers : SUBSET Items,
                    transaction : SUBSET Items, verdicts : Seq(BOOLEAN)]
  BY DEF Typed
<1> DEFINE held == receiver.transaction \cup m.items
           registers == CASE m.tx = 0 -> receiver.registers \cup m.items
                          [] m.tx = 3 -> receiver.registers \cup held
                          [] OTHER -> receiver.registers
           transaction == IF m.tx \in {1, 2} THEN held ELSE {}
<1>2. receiver' = [receiver EXCEPT !.verdicts = Append(receiver.verdicts, TRUE),
                     !.registers = registers, !.transaction = transaction]
  BY DEF Accepted
<1>3. /\ m.tx \in {1, 2} => registers = receiver.registers /\ transaction = held
      /\ m.tx = 0 => registers = receiver.registers \cup m.items /\ transaction = {}
      /\ m.tx = 3 => registers = receiver.registers \cup held /\ transaction = {}
  OBVIOUS
<1>4. /\ receiver'.verdicts = Append(receiver.verdicts, TRUE) /\ receiver'.model = receiver.model
      /\ receiver'.registers = registers /\ receiver'.transaction = transaction
  <2> HIDE DEF registers, transaction
  <2> QED BY <1>1, <1>2
<1> QED BY <1>3, <1>4

(* A setting that is accepted: its transaction goes on, or ends with the   *)
(* whole group.                                                            *)
LEMMA AcceptedBooked ==
  ASSUME Typed, Booked, NEW m, Judged < Len(Settings), m = Settings[Judged + 1],
         m.tx \in {2, 3} => receiver.transaction # {},
         plan' = plan, host'.model = host.model, Accepted(m)
  PROVE  Booked'
<1>1. /\ Signal \in Seq(Items) /\ Other \in Seq(Items) /\ NumSignal \in Nat /\ NumOther \in Nat
      /\ NumSignal = 0 => ToSet(Signal) = {}
      /\ NumOther = 0 => ToSet(Other) = {}
      /\ NumSignal = NumChunks(Len(Signal)) /\ NumOther = NumChunks(Len(Other))
  BY Groups, GroupSizes DEF NumSignal, NumOther
<1>2. PICK v \in Nat : v = Judged /\ v + 1 <= NumSignal + NumOther
  <2>1. Judged \in Nat
    BY LenProperties DEF Judged, Typed
  <2>2. Judged < NumSignal + NumOther
    BY SettingsFacts
  <2> QED BY <1>1, <2>1, <2>2
<1>3. /\ Judged' = v + 1 /\ (FALSE \notin ToSet(receiver'.verdicts) => FALSE \notin ToSet(receiver.verdicts))
  <2>1. receiver.verdicts \in Seq(BOOLEAN) /\ receiver'.verdicts = Append(receiver.verdicts, TRUE)
    BY AcceptedFacts DEF Typed
  <2>2. Len(receiver'.verdicts) = v + 1
    BY <1>2, <2>1 DEF Judged
  <2>3. ToSet(receiver.verdicts) \subseteq ToSet(receiver'.verdicts)
    <3>1. ASSUME NEW s \in Seq(BOOLEAN) PROVE ToSet(s) \subseteq ToSet(Append(s, TRUE))
      <4>1. \A i \in 1..Len(s) : i \in 1..Len(Append(s, TRUE)) /\ Append(s, TRUE)[i] = s[i]
        OBVIOUS
      <4>2. DOMAIN s = 1..Len(s) /\ DOMAIN Append(s, TRUE) = 1..Len(Append(s, TRUE))
        OBVIOUS
      <4> QED BY <4>1, <4>2 DEF ToSet
    <3> QED BY <2>1, <3>1
  <2> QED BY <2>2, <2>3 DEF Judged
<1>4. \A w : /\ (Pending(w))' = Pending(w) /\ (Applied(w))' = Applied(w)
  BY Frame DEF Pending, Applied, UpTo
<1>5. PICK t : t = receiver.transaction /\ t \in {{}, Pending(v)}
  BY <1>2 DEF Booked
<1>6. CASE v < NumSignal
  <2>1. v + 1 \in 1..NumChunks(Len(Signal)) /\ m = SetMessages(Signal)[v + 1]
    BY <1>1, <1>2, <1>6, SettingsFacts
  <2>2. Pending(v) = UpTo(Signal, v) /\ v + 1 - 1 = v
    BY <1>6 DEF Pending
  <2>3. /\ m.tx \in {0, 1, 2, 3}
        /\ m.tx \in {1, 2} <=> v + 1 < NumSignal
        /\ m.tx \in {1, 2} => t \cup m.items = UpTo(Signal, v + 1)
        /\ m.tx = 0 => m.items = ToSet(Signal)
        /\ m.tx = 3 => t \cup m.items = ToSet(Signal)
    <3>1. PICK j \in 1..NumChunks(Len(Signal)) : j = v + 1
      BY <2>1
    <3>2. t \in {{}, UpTo(Signal, j - 1)} /\ m = SetMessages(Signal)[j] /\ (m.tx \in {2, 3} => t # {})
      BY <1>5, <2>1, <2>2, <3>1
    <3>3. Advances(Signal, j, t, m)
      BY <1>1, <3>2, GroupStep
    <3> QED BY <1>1, <3>1, <3>3 DEF Advances
  <2>4. CASE m.tx \in {1, 2}
    <3>1. receiver'.transaction = Pending(v + 1) /\ receiver'.registers = receiver.registers
      <4>1. receiver'.transaction = t \cup m.items /\ receiver'.registers = receiver.registers
        BY <1>5, <2>4, AcceptedFacts
      <4> QED BY <2>3, <2>4, <4>1 DEF Pending
    <3>2. Applied(v + 1) = Applied(v)
      BY <1>1, <1>2, <2>3, <2>4 DEF Applied
    <3> QED BY <1>2, <1>3, <1>4, <3>1, <3>2, Frame DEF Booked
  <2>5. CASE m.tx \in {0, 3}
    <3>1. v + 1 = NumSignal
      BY <1>1, <1>2, <1>6, <2>3, <2>5
    <3>2. receiver'.transaction = {} /\ receiver'.registers = receiver.registers \cup ToSet(Signal)
      BY <1>5, <2>3, <2>5, AcceptedFacts
    <3>3. Pending(v + 1) = {}
      BY <1>1, <3>1, UpToFacts DEF Pending
    <3>4. Applied(v) = {} /\ Applied(v + 1) = ToSet(Signal)
      <4>1. PICK a \in Nat, b \in Nat : a = NumSignal /\ b = NumOther /\ v + 1 = a
        BY <1>1, <3>1
      <4>2. ~(v >= a) /\ ~(v >= a + b) /\ v + 1 >= a /\ (v + 1 >= a + b => b = 0)
        BY <1>2, <4>1
      <4> QED BY <1>1, <4>1, <4>2 DEF Applied
    <3>5. receiver'.registers \in {{}, ToSet(Signal), ToSet(Other), Wanted}
      BY <3>2 DEF Booked, Wanted
    <3>6. FALSE \notin ToSet(receiver'.verdicts) => receiver'.registers = Applied(v + 1)
      BY <1>2, <1>3, <3>2, <3>4 DEF Booked
    <3> QED BY <1>3, <1>4, <3>2, <3>3, <3>5, <3>6, Frame DEF Booked
  <2> QED BY <2>3, <2>4, <2>5
<1>7. CASE v >= NumSignal
  <2>1. PICK a \in Nat, b \in Nat :
          /\ a = NumSignal /\ b = NumOther /\ b = NumChunks(Len(Other)) /\ v >= a /\ v < a + b
    BY <1>1, <1>2, <1>7
  <2>2. PICK w \in Nat : w = v - a /\ v = a + w /\ w + 1 \in 1..b /\ w + 1 - 1 = w
    <3>1. v - a \in Nat /\ v = a + (v - a) /\ v - a + 1 \in 1..b /\ v - a + 1 - 1 = v - a
      BY <2>1
    <3> QED BY <3>1
  <2>3. m = SetMessages(Other)[w + 1]
    <3>1. v + 1 - a = w + 1 /\ v + 1 > a /\ v + 1 \in 1..a + b
      BY <2>1, <2>2
    <3>2. m = SetMessages(Other)[v + 1 - a]
      BY <1>2, <2>1, <3>1, SettingsFacts
    <3> QED BY <3>1, <3>2
  <2>4. Pending(v) = UpTo(Other, w) /\ (w + 1 < b => Pending(v + 1) = UpTo(Other, w + 1))
        /\ (w + 1 = b => Pending(v + 1) = {})
    <3>1. ~(v < a) /\ ~(v + 1 < a) /\ v - a = w /\ v + 1 - a = w + 1 /\ w < b
      BY <2>1, <2>2
    <3>2. \A x \in Nat : ~(x < a) => Pending(x) = IF x - a < b THEN UpTo(Other, x - a) ELSE {}
      BY <2>1 DEF Pending
    <3>3. Pending(v) = UpTo(Other, w)
      BY <2>1, <3>1, <3>2
    <3>4. Pending(v + 1) = IF w + 1 < b THEN UpTo(Other, w + 1) ELSE {}
      <4>1. PICK x \in Nat : x = v + 1 /\ ~(x < a) /\ x - a = w + 1
        BY <3>1
      <4> QED BY <3>2, <4>1
    <3> QED BY <2>1, <2>2, <3>3, <3>4
  <2>5. /\ m.tx \in {0, 1, 2, 3}
        /\ m.tx \in {1, 2} <=> w + 1 < b
        /\ m.tx \in {1, 2} => t \cup m.items = UpTo(Other, w + 1)
        /\ m.tx = 0 => m.items = ToSet(Other)
        /\ m.tx = 3 => t \cup m.items = ToSet(Other)
    <3>1. w + 1 \in 1..NumChunks(Len(Other)) /\ t \in {{}, UpTo(Other, w + 1 - 1)}
      BY <1>5, <2>1, <2>2, <2>4
    <3>2. PICK j \in 1..NumChunks(Len(Other)) : j = w + 1
      BY <3>1
    <3>3. t \in {{}, UpTo(Other, j - 1)} /\ m = SetMessages(Other)[j] /\ (m.tx \in {2, 3} => t # {})
      BY <1>5, <2>3, <3>1, <3>2
    <3>4. Advances(Other, j, t, m)
      BY <1>1, <3>3, GroupStep
    <3> QED BY <2>1, <3>2, <3>4 DEF Advances
  <2>6. Applied(v) = ToSet(Signal) /\ (w + 1 < b => Applied(v + 1) = ToSet(Signal))
        /\ (w + 1 = b => Applied(v + 1) = Wanted)
    <3>1. v >= a /\ v + 1 >= a /\ ~(v >= a + b) /\ (v + 1 >= a + b <=> w + 1 = b) /\ (w + 1 < b => w + 1 # b)
      BY <2>1, <2>2
    <3> QED BY <2>1, <3>1 DEF Applied, Wanted
  <2>7. CASE m.tx \in {1, 2}
    <3>1. receiver'.transaction = t \cup m.items /\ receiver'.registers = receiver.registers
      BY <1>5, <2>7, AcceptedFacts
    <3> QED BY <1>2, <1>3, <1>4, <2>4, <2>5, <2>6, <2>7, <3>1, Frame DEF Booked
  <2>8. CASE m.tx \in {0, 3}
    <3>1. w + 1 = b
      BY <2>1, <2>2, <2>5, <2>8
    <3>2. receiver'.transaction = {} /\ receiver'.registers = receiver.registers \cup ToSet(Other)
      BY <1>5, <2>5, <2>8, AcceptedFacts
    <3>3. receiver'.registers \in {{}, ToSet(Signal), ToSet(Other), Wanted}
      BY <3>2 DEF Booked, Wanted
    <3>4. FALSE \notin ToSet(receiver'.verdicts) => receiver'.registers = Applied(v + 1)
      BY <1>2, <1>3, <2>6, <3>1, <3>2 DEF Booked, Wanted
    <3> QED BY <1>3, <1>4, <2>4, <3>1, <3>2, <3>3, <3>4, Frame DEF Booked
  <2> QED BY <2>5, <2>7, <2>8
<1> QED BY <1>1, <1>2, <1>6, <1>7

(* A setting that is refused: its transaction is lost.                     *)
LEMMA RefusedBooked ==
  ASSUME Typed, Booked, plan' = plan, host'.model = host.model, Refused
  PROVE  Booked'
<1>1. receiver'.transaction = {} /\ receiver'.registers = receiver.registers
      /\ receiver'.verdicts = Append(receiver.verdicts, FALSE) /\ receiver.verdicts \in Seq(BOOLEAN)
  BY DEF Refused, Typed
<1>2. FALSE \in ToSet(receiver'.verdicts)
  <2>1. PICK n \in Nat : n = Len(receiver.verdicts) + 1
    BY <1>1
  <2>2. n \in DOMAIN receiver'.verdicts /\ receiver'.verdicts[n] = FALSE
    BY <1>1, <2>1
  <2> QED BY <2>2 DEF ToSet
<1> QED BY <1>1, <1>2, Frame DEF Booked

-----------------------------------------------------------------------------
(* The host goes from phase to phase                                       *)

(* What it asks besides settings.                                          *)
LEMMA Polls ==
  ASSUME Typed
  PROVE  /\ {poll_cfg, poll_mon_ver, get_f9t_unique_id, initial_probe, <<>>} \subseteq Seq(MessageSet)
         /\ \A m \in ToSet(poll_cfg) : m.type = "CFG-VALGET"
         /\ \A m \in ToSet(poll_mon_ver) : m.type = "MON-VER"
         /\ \A m \in ToSet(get_f9t_unique_id) : m.type = "SEC-UNIQID"
         /\ \A m \in ToSet(initial_probe) : m.type \in {"MON-VER", "ONE-VALGET"}
         /\ ToSet(<<>>) = {}
<1>1. \A type \in Types : Message(type, 0, {}) \in MessageSet /\ Message(type, 0, {}).type = type
  BY DEF Message, MessageSet, Types
<1>2. ASSUME NEW type \in Types, NEW n \in Nat
      PROVE  /\ [i \in 1..n |-> Message(type, 0, {})] \in Seq(MessageSet)
             /\ \A m \in ToSet([i \in 1..n |-> Message(type, 0, {})]) : m.type = type
  <2>1. PICK x \in MessageSet : x = Message(type, 0, {}) /\ x.type = type
    BY <1>1
  <2>2. [i \in 1..n |-> x] \in Seq(MessageSet)
    OBVIOUS
  <2> QED BY <2>1, <2>2 DEF ToSet
<1>3. ASSUME NEW type \in Types
      PROVE  <<Message(type, 0, {})>> \in Seq(MessageSet) /\ \A m \in ToSet(<<Message(type, 0, {})>>) : m.type = type
  <2>1. PICK x \in MessageSet : x = Message(type, 0, {}) /\ x.type = type
    BY <1>1
  <2>2. <<x>> \in Seq(MessageSet) /\ DOMAIN <<x>> = {1} /\ <<x>>[1] = x
    OBVIOUS
  <2> QED BY <2>1, <2>2 DEF ToSet
<1>4. poll_cfg \in Seq(MessageSet) /\ \A m \in ToSet(poll_cfg) : m.type = "CFG-VALGET"
  <2>1. plan.signal + Len(Other) \in Nat
    BY Groups, LenProperties DEF Typed, PlanSet
  <2>2. PICK n \in Nat : n = NumChunks(plan.signal + Len(Other))
    BY <2>1, Chunks
  <2> QED BY <1>2, <2>2 DEF poll_cfg, Types
<1>5. initial_probe \in Seq(MessageSet) /\ \A m \in ToSet(initial_probe) : m.type \in {"MON-VER", "ONE-VALGET"}
  <2>1. PICK a \in Seq(MessageSet), b \in Seq(MessageSet) :
          /\ a = poll_mon_ver /\ b = [i \in 1..4 |-> Message("ONE-VALGET", 0, {})]
          /\ \A m \in ToSet(a) : m.type = "MON-VER"
          /\ \A m \in ToSet(b) : m.type = "ONE-VALGET"
    <3>1. "ONE-VALGET" \in Types /\ "MON-VER" \in Types
      BY DEF Types
    <3>2. /\ [i \in 1..4 |-> Message("ONE-VALGET", 0, {})] \in Seq(MessageSet)
          /\ \A m \in ToSet([i \in 1..4 |-> Message("ONE-VALGET", 0, {})]) : m.type = "ONE-VALGET"
      BY <1>2, <3>1
    <3>3. poll_mon_ver \in Seq(MessageSet) /\ \A m \in ToSet(poll_mon_ver) : m.type = "MON-VER"
      BY <1>3, <3>1 DEF poll_mon_ver
    <3> QED BY <3>2, <3>3
  <2>2. a \o b \in Seq(MessageSet) /\ ToSet(a \o b) \subseteq ToSet(a) \cup ToSet(b)
    <3>1. /\ a \o b \in Seq(MessageSet) /\ Len(a \o b) = Len(a) + Len(b)
          /\ \A i \in 1..Len(a) + Len(b) : (a \o b)[i] = IF i <= Len(a) THEN a[i] ELSE b[i - Len(a)]
      BY ConcatProperties
    <3>2. ASSUME NEW i \in 1..Len(a) + Len(b) PROVE (a \o b)[i] \in ToSet(a) \cup ToSet(b)
      <4>1. CASE i <= Len(a)
        <5>1. i \in DOMAIN a /\ (a \o b)[i] = a[i]
          BY <3>1, <4>1, LenProperties
        <5> QED BY <5>1 DEF ToSet
      <4>2. CASE ~(i <= Len(a))
        <5>1. i - Len(a) \in DOMAIN b /\ (a \o b)[i] = b[i - Len(a)]
          BY <3>1, <4>2, LenProperties
        <5> QED BY <5>1 DEF ToSet
      <4> QED BY <4>1, <4>2
    <3>3. ToSet(a \o b) = {(a \o b)[i] : i \in 1..Len(a) + Len(b)}
      BY <3>1, LenProperties DEF ToSet
    <3> QED BY <3>1, <3>2, <3>3
  <2> QED BY <2>1, <2>2 DEF initial_probe
<1>6. ToSet(<<>>) = {}
  BY DEF ToSet
<1>7. poll_mon_ver \in Seq(MessageSet) /\ \A m \in ToSet(poll_mon_ver) : m.type = "MON-VER"
  BY <1>3 DEF poll_mon_ver, Types
<1>8. get_f9t_unique_id \in Seq(MessageSet) /\ \A m \in ToSet(get_f9t_unique_id) : m.type = "SEC-UNIQID"
  BY <1>3 DEF get_f9t_unique_id, Types
<1>9. <<>> \in Seq(MessageSet)
  OBVIOUS
<1> QED BY <1>4, <1>5, <1>6, <1>7, <1>8, <1>9

(* What has been given and judged is counted.                              *)
LEMMA Counts ==
  ASSUME Typed
  PROVE  /\ Given \in Nat /\ Judged \in Nat /\ Len(host.acks) \in Nat /\ Len(Settings) \in Nat
         /\ Waiting /\ IsSetting(host.sent[1]) => Given = Len(host.acks) + 1
         /\ ~(Waiting /\ IsSetting(host.sent[1])) => Given = Len(host.acks)
<1>1. host.acks \in Seq(BOOLEAN) /\ receiver.verdicts \in Seq(BOOLEAN)
  BY DEF Typed
<1>2. Len(host.acks) \in Nat /\ Len(receiver.verdicts) \in Nat
  BY <1>1, LenProperties
<1>3. Len(Settings) \in Nat
  BY SettingsFacts, LenProperties
<1>4. CASE Waiting /\ IsSetting(host.sent[1])
  <2>1. Given = Len(host.acks) + 1
    BY <1>4 DEF Given
  <2> QED BY <1>2, <1>3, <1>4, <2>1 DEF Judged
<1>5. CASE ~(Waiting /\ IsSetting(host.sent[1]))
  <2>1. Given = Len(host.acks) + 0
    BY <1>5 DEF Given
  <2> QED BY <1>2, <1>3, <1>5, <2>1 DEF Judged
<1> QED BY <1>4, <1>5

(* A message that is sent is a setting in the phase of that name.          *)
LEMMA SentFacts ==
  ASSUME Typed, Phased, Waiting
  PROVE  /\ host.at \in Phases /\ host.sent[1] \in MessageSet /\ host.sent = <<host.sent[1]>>
         /\ host.sent[1] \in Asked
         /\ IsSetting(host.sent[1]) <=> host.at = "send"
         /\ host.sent[1].type = "MON-VER" => host.at \in {"model", "probe"}
<1>1. PICK m \in MessageSet : host.sent = <<m>>
  BY DEF Typed, Waiting
<1>2. host.sent[1] = m /\ m \in Asked
  <2>1. <<m>>[1] = m /\ DOMAIN <<m>> = {1}
    OBVIOUS
  <2> QED BY <1>1, <2>1 DEF Asked, ToSet
<1>3. host.at \in Phases
  BY DEF Phased, Waiting
<1>4. host.at = "send" => IsSetting(m)
  <2>1. SUFFICES ASSUME host.at = "send" PROVE IsSetting(m)
    OBVIOUS
  <2>2. Given >= 1 /\ Given <= Len(Settings) /\ host.sent = <<Settings[Given]>>
    BY <2>1 DEF Phased
  <2>3. Settings[Given] = m
    BY <1>1, <2>2
  <2>4. Given \in 1..NumSignal + NumOther
    BY <2>2, Counts, SettingsFacts
  <2> QED BY <2>3, <2>4, SettingsFacts
<1>5. host.at # "send" => ~IsSetting(m)
  BY <1>2, <1>3 DEF Phased, Phases, Before
<1>6. m.type = "MON-VER" => host.at \in {"model", "probe"}
  BY <1>2 DEF Phased
<1> QED BY <1>1, <1>2, <1>3, <1>4, <1>5, <1>6

(* A phase is over, and the next begins or the conversation ends.          *)
LEMMA AfterKeeps ==
  ASSUME F9tInv, PhaseOver, UNCHANGED <<plan, line, receiver>>,
         NEW phase \in HostStates \ {"idle"}, NEW messages \in Seq(MessageSet),
         host' = [host EXCEPT !.at = phase, !.todo = messages, !.sent = <<>>],
         phase \in Before => host.at \in Before,
         phase \in Before \cup {"verify"} => \A m \in ToSet(messages) : ~IsSetting(m),
         phase \notin {"model", "probe"} => \A m \in ToSet(messages) : m.type # "MON-VER",
         phase = "send" => host.at \in Before /\ messages = Settings,
         phase \in {"verify", "verified", "mismatch"} => Given = Len(Settings),
         phase \notin Phases => messages = <<>>,
         phase \in {"uid", "send", "verify"} => ~plan.dry_run /\ ~plan.probe_only
  PROVE  F9tInv'
<1>1. /\ host'.at = phase /\ host'.todo = messages /\ host'.sent = <<>> /\ host'.acks = host.acks
      /\ host'.late = host.late /\ host'.model = host.model
  BY DEF F9tInv, Typed
<1>2. ~Waiting /\ ~Waiting' /\ host.at \in Phases /\ host.sent = <<>>
  BY <1>1 DEF Waiting, PhaseOver
<1>3. Typed'
  <2>1. host' \in [at : HostStates, todo : Seq(MessageSet), sent : Seq(MessageSet), model : ModelSet,
                   acks : Seq(BOOLEAN), late : BOOLEAN]
    <3>1. <<>> \in Seq(MessageSet)
      OBVIOUS
    <3> QED BY <3>1 DEF F9tInv, Typed
  <2> QED BY <1>1, <2>1 DEF F9tInv, Typed
<1>4. Given' = Given /\ Judged' = Judged /\ Given = Len(host.acks) /\ Len(host'.acks) = Len(host.acks)
  BY <1>1, <1>2, Counts DEF F9tInv, Given, Judged
<1>5. Settings' = Settings
  BY <1>1, Frame
<1>6. Asked' = ToSet(messages)
  BY <1>1, Polls DEF Asked, F9tInv
<1>7. Phased'
  <2>1. phase \in Before => Given = 0
    BY DEF F9tInv, Phased
  <2>2. phase = "send" => messages = SubSeq(Settings, Given + 1, Len(Settings))
    <3>1. SUFFICES ASSUME phase = "send" PROVE messages = SubSeq(Settings, Given + 1, Len(Settings))
      OBVIOUS
    <3>2. Given = 0 /\ Given + 1 = 1
      <4>1. Given = 0
        BY <3>1 DEF F9tInv, Phased
      <4> QED BY <4>1
    <3>3. PICK s \in Seq(MessageSet) : s = Settings
      BY SettingsFacts DEF F9tInv
    <3>4. SubSeq(s, 1, Len(s)) = s
      OBVIOUS
    <3> QED BY <3>1, <3>2, <3>3, <3>4
  <2>3. Given <= Len(Settings)
    BY DEF F9tInv, Phased
  <2>4. Given > 0 => ~plan.dry_run /\ ~plan.probe_only
    BY DEF F9tInv, Phased
  <2>5. host.model \in {"", receiver.model}
    BY DEF F9tInv, Phased
  <2> QED BY <1>1, <1>2, <1>4, <1>5, <1>6, <2>1, <2>2, <2>3, <2>4, <2>5 DEF Phased
<1>8. Ordered'
  <2>1. phase \in Before \cup {"send"} => host.at \in Before \cup {"send"}
    OBVIOUS
  <2>2. Carries(line.to, Settings, Judged, Given, phase \in Before \cup {"send"})
    BY <2>1 DEF F9tInv, Ordered, Carries
  <2> QED BY <1>1, <1>4, <1>5, <2>2 DEF Ordered
<1>9. Booked'
  BY <1>1, BookedStays DEF F9tInv
<1>10. Timely'
  BY <1>1, <1>2, <1>4 DEF F9tInv, Timely
<1>11. Models'
  BY DEF F9tInv, Models
<1> QED BY <1>3, <1>7, <1>8, <1>9, <1>10, <1>11 DEF F9tInv

(* The two ways in which a phase ends.                                     *)
LEMMA PhaseEnds ==
  ASSUME F9tInv, PhaseOver
  PROVE  /\ \A phase, messages : Enter(phase, messages) =>
              host' = [host EXCEPT !.at = phase, !.todo = messages, !.sent = <<>>]
         /\ \A outcome : EndWith(outcome) => host' = [host EXCEPT !.at = outcome, !.todo = <<>>, !.sent = <<>>]
         /\ host.at \in Phases
         /\ host.at = "send" => Given = Len(Settings)
<1>1. host.sent = <<>> /\ host.todo = <<>> /\ host.at \in Phases
  BY DEF PhaseOver, Waiting
<1>2. PICK h : h = host
  OBVIOUS
<1>3. h \in [at : HostStates, todo : Seq(MessageSet), sent : Seq(MessageSet), model : ModelSet,
             acks : Seq(BOOLEAN), late : BOOLEAN] /\ h.sent = <<>>
  BY <1>1, <1>2 DEF F9tInv, Typed
<1>4. \A p, m : [h EXCEPT !.at = p, !.todo = m] = [h EXCEPT !.at = p, !.todo = m, !.sent = <<>>]
  BY <1>3
<1>5. host.at = "send" => Given = Len(Settings)
  <2>1. SUFFICES ASSUME host.at = "send" PROVE Given = Len(Settings)
    OBVIOUS
  <2>2. PICK s \in Seq(MessageSet), g \in Nat : s = Settings /\ g = Given
    BY SettingsFacts, Counts DEF F9tInv
  <2>3. SubSeq(s, g + 1, Len(s)) = <<>> /\ g <= Len(s)
    BY <1>1, <2>1, <2>2 DEF F9tInv, Phased
  <2>4. Len(SubSeq(s, g + 1, Len(s))) = IF g + 1 <= Len(s) THEN Len(s) - g ELSE 0
    OBVIOUS
  <2>5. Len(<<>>) = 0
    OBVIOUS
  <2>6. Len(s) \in Nat
    OBVIOUS
  <2> QED BY <2>2, <2>3, <2>4, <2>5, <2>6
<1> QED BY <1>1, <1>2, <1>4, <1>5 DEF Enter, EndWith

(* The host's steps between its phases.                                    *)
LEMMA AfterInv == ASSUME F9tInv, After PROVE F9tInv'
<1>1. PhaseOver /\ UNCHANGED <<plan, line, receiver>>
  BY DEF After, AfterModel, AfterUid, AfterBefore, AfterProbe, AfterSend, AfterVerify
<1>2. host.at \in Phases /\ (host.at = "send" => Given = Len(Settings))
  BY <1>1, PhaseEnds
<1>3. /\ plan.server => ~plan.dry_run /\ ~plan.probe_only
      /\ host.at \in {"uid", "send", "verify"} => ~plan.dry_run /\ ~plan.probe_only
      /\ host.at = "verify" => Given = Len(Settings)
      /\ {"raised", "probed", "planned", "verified", "mismatch"} \cap Phases = {}
  BY DEF F9tInv, Typed, Phased, Phases
<1>4. /\ {poll_cfg, poll_mon_ver, get_f9t_unique_id, initial_probe, <<>>, Settings} \subseteq Seq(MessageSet)
      /\ \A m \in ToSet(poll_cfg) \cup ToSet(get_f9t_unique_id) : ~IsSetting(m) /\ m.type # "MON-VER"
      /\ \A m \in ToSet(initial_probe) : ~IsSetting(m)
      /\ ToSet(<<>>) = {}
      /\ \A m \in ToSet(Settings) : m.type # "MON-VER"
  <2>0. Typed
    BY DEF F9tInv
  <2>1. PICK s \in Seq(MessageSet) : s = Settings /\ \A i \in 1..Len(s) : IsSetting(s[i])
    BY <2>0, SettingsFacts
  <2>2. \A m \in ToSet(s) : IsSetting(m)
    BY <2>1, LenProperties DEF ToSet
  <2>3. {poll_cfg, poll_mon_ver, get_f9t_unique_id, initial_probe, <<>>, Settings} \subseteq Seq(MessageSet)
    BY <2>0, <2>1, Polls
  <2>4. /\ \A m \in ToSet(poll_cfg) \cup ToSet(get_f9t_unique_id) : ~IsSetting(m) /\ m.type # "MON-VER"
        /\ \A m \in ToSet(initial_probe) : ~IsSetting(m)
        /\ ToSet(<<>>) = {}
    BY <2>0, Polls DEF IsSetting
  <2>5. \A m \in ToSet(Settings) : m.type # "MON-VER"
    BY <2>1, <2>2 DEF IsSetting
  <2> QED BY <2>3, <2>4, <2>5
<1>5. ASSUME NEW outcome \in {"raised", "probed", "planned", "verified", "mismatch"}, EndWith(outcome),
             outcome \in {"verified", "mismatch"} => Given = Len(Settings)
      PROVE  F9tInv'
  <2>1. host' = [host EXCEPT !.at = outcome, !.todo = <<>>, !.sent = <<>>]
    BY <1>1, <1>5, PhaseEnds
  <2>2. outcome \in HostStates \ {"idle"} /\ outcome \notin Before \cup {"verify", "send", "uid"}
        /\ outcome \notin Phases
    BY <1>3 DEF HostStates, Before
  <2>3. <<>> \in Seq(MessageSet) /\ ToSet(<<>>) = {}
    BY <1>4
  <2> QED BY <1>1, <1>5, <2>1, <2>2, <2>3, AfterKeeps
<1>6. ASSUME NEW phase \in Phases, NEW messages \in Seq(MessageSet), Enter(phase, messages),
             phase \in Before => host.at \in Before,
             phase \in Before \cup {"verify"} => \A m \in ToSet(messages) : ~IsSetting(m),
             phase \notin {"model", "probe"} => \A m \in ToSet(messages) : m.type # "MON-VER",
             phase = "send" => host.at \in Before /\ messages = Settings,
             phase = "verify" => Given = Len(Settings),
             phase \in {"uid", "send", "verify"} => ~plan.dry_run /\ ~plan.probe_only
      PROVE  F9tInv'
  <2>1. host' = [host EXCEPT !.at = phase, !.todo = messages, !.sent = <<>>]
    BY <1>1, <1>6, PhaseEnds
  <2>2. phase \in HostStates \ {"idle"} /\ phase \notin {"verified", "mismatch"}
    BY DEF HostStates, Phases
  <2> QED BY <1>1, <1>6, <2>1, <2>2, AfterKeeps
<1>7. CASE AfterModel
  <2>1. host.at \in Before
    BY <1>7 DEF AfterModel, Before
  <2>2. CASE plan.server /\ host.model = "ZED-F9T"
    <3>1. Enter("uid", get_f9t_unique_id)
      BY <1>7, <2>2 DEF AfterModel
    <3>2. ~plan.dry_run /\ ~plan.probe_only
      BY <1>3, <2>2
    <3>3. "uid" \in Phases /\ "uid" \in Before /\ "uid" \notin {"send", "verify"} /\ "uid" \notin {"model", "probe"}
      BY DEF Phases, Before
    <3> QED BY <1>4, <1>6, <2>1, <3>1, <3>2, <3>3
  <2>3. CASE ~plan.server /\ Positioned
    <3>1. PICK messages \in {poll_cfg, <<>>} : Enter("before", messages)
      BY <1>7, <2>3 DEF AfterModel
    <3>2. /\ messages \in Seq(MessageSet)
          /\ \A m \in ToSet(messages) : ~IsSetting(m) /\ m.type # "MON-VER"
      BY <1>4, <3>1
    <3> QED BY <1>6, <2>1, <3>1, <3>2 DEF Phases, Before
  <2>4. CASE (plan.server /\ host.model # "ZED-F9T") \/ (~plan.server /\ ~Positioned)
    <3>1. EndWith("raised")
      BY <1>7, <2>4 DEF AfterModel
    <3> QED BY <1>5, <3>1
  <2> QED BY <2>2, <2>3, <2>4
<1>8. CASE AfterUid
  <2>1. host.at \in Before /\ ~plan.dry_run /\ ~plan.probe_only
    BY <1>3, <1>8 DEF AfterUid, Before
  <2>2. CASE EndWith("raised")
    BY <1>5, <2>2
  <2>3. CASE Enter("send", Settings)
    BY <1>4, <1>6, <2>1, <2>3 DEF Phases, Before
  <2> QED BY <1>8, <2>2, <2>3 DEF AfterUid, Settings
<1>9. CASE AfterBefore
  <2>1. host.at \in Before
    BY <1>9 DEF AfterBefore, Before
  <2>2. PICK messages \in {initial_probe, <<>>} : Enter("probe", messages)
    BY <1>9 DEF AfterBefore
  <2>3. messages \in Seq(MessageSet) /\ \A m \in ToSet(messages) : ~IsSetting(m)
    BY <1>4, <2>2
  <2> QED BY <1>6, <2>1, <2>2, <2>3 DEF Phases, Before
<1>10. CASE AfterProbe
  <2>1. host.at \in Before
    BY <1>10 DEF AfterProbe, Before
  <2>2. CASE plan.probe_only \/ plan.dry_run
    <3>1. \E outcome \in {"probed", "planned"} : EndWith(outcome)
      BY <1>10, <2>2 DEF AfterProbe
    <3> QED BY <1>5, <3>1
  <2>3. CASE ~plan.probe_only /\ ~plan.dry_run
    <3>1. Enter("send", Settings)
      BY <1>10, <2>3 DEF AfterProbe, Settings
    <3> QED BY <1>4, <1>6, <2>1, <2>3, <3>1 DEF Phases, Before
  <2> QED BY <2>2, <2>3
<1>11. CASE AfterSend
  <2>1. host.at = "send"
    BY <1>11 DEF AfterSend
  <2>2. CASE EndWith("raised")
    BY <1>5, <2>2
  <2>3. CASE Enter("verify", poll_cfg)
    BY <1>2, <1>3, <1>4, <1>6, <2>1, <2>3 DEF Phases, Before
  <2> QED BY <1>11, <2>2, <2>3 DEF AfterSend
<1>12. CASE AfterVerify
  <2>1. PICK outcome \in {"verified", "mismatch"} : EndWith(outcome)
    BY <1>12 DEF AfterVerify
  <2>2. Given = Len(Settings)
    BY <1>3, <1>12 DEF AfterVerify
  <2> QED BY <1>5, <2>1, <2>2
<1> QED BY <1>7, <1>8, <1>9, <1>10, <1>11, <1>12 DEF After

(* Before the conversation nothing has been said.                          *)
LEMMA F9tInitHolds == ASSUME F9tInit PROVE F9tInv
<1>1. Typed
  <2>1. NoPlan \in PlanSet /\ NoPlan.position = <<>> /\ ~NoPlan.server
    <3>1. <<>> \in Seq(Int)
      OBVIOUS
    <3> QED BY <3>1 DEF NoPlan, PlanSet
  <2>2. Len(<<>>) <= 1 /\ <<>> \in Seq(MessageSet) /\ <<>> \in Seq(BOOLEAN) /\ <<>> \in Seq(AnswerSet)
    OBVIOUS
  <2> QED BY <2>1, <2>2 DEF Typed, F9tInit, HostStates, ModelSet
<1>2. Judged = 0 /\ Given = 0 /\ ~Waiting /\ Asked = {} /\ Len(line.to) = 0 /\ Len(Settings) \in Nat
  <2>1. Len(<<>>) = 0
    OBVIOUS
  <2> QED BY <1>1, <2>1, Counts, Polls DEF F9tInit, Judged, Given, Waiting, Asked
<1>3. Phased
  <2>1. host.at = "idle" /\ host.model = "" /\ host.todo = <<>> /\ host.sent = <<>>
    BY DEF F9tInit
  <2>2. Given <= Len(Settings) /\ ~(Given > 0)
    BY <1>2
  <2> QED BY <1>2, <2>1, <2>2 DEF Phased, Phases, Before
<1>4. Ordered
  <2>1. 0 \in 0..Len(line.to) /\ 0 + (0 - 0) = Len(line.to) /\ \A i \in 1..Len(line.to) : FALSE
    BY <1>2
  <2> QED BY <1>2, <2>1 DEF Ordered, Carries
<1>5. Booked
  BY <1>1, <1>2, BookedNone DEF F9tInit
<1>6. Timely
  <2>1. host.acks = <<>> /\ line.from = <<>> /\ Len(<<>>) = 0
    BY DEF F9tInit
  <2>2. DOMAIN host.acks = {}
    BY <2>1
  <2> QED BY <1>2, <2>1, <2>2 DEF Timely
<1>7. Models
  <2>1. line.from = <<>>
    BY DEF F9tInit
  <2>2. DOMAIN line.from = {}
    BY <2>1
  <2> QED BY <2>2 DEF Models
<1> QED BY <1>1, <1>3, <1>4, <1>5, <1>6, <1>7 DEF F9tInv

(* Of nothing nothing is known.                                            *)
LEMMA Empty == DOMAIN <<>> = {} /\ Len(<<>>) = 0 /\ ToSet(<<>>) = {}
<1>1. DOMAIN <<>> = {} /\ Len(<<>>) = 0
  OBVIOUS
<1> QED BY <1>1 DEF ToSet

(* What follows from the types also holds of the next state.               *)
LEMMA NextFacts ==
  ASSUME Typed'
  PROVE  /\ Given' \in Nat /\ Judged' \in Nat /\ (Len(Settings))' \in Nat
         /\ Judged' = 0 => (Booked' <=> receiver'.transaction = {} /\ receiver'.registers = {})
<1>1. (Typed => Given \in Nat /\ Judged \in Nat /\ Len(Settings) \in Nat)'
  BY Counts, PTL
<1>2. (Typed /\ Judged = 0 => (Booked <=> receiver.transaction = {} /\ receiver.registers = {}))'
  BY BookedNone, PTL
<1> QED BY <1>1, <1>2

(* The conversation begins.                                                *)
LEMMA StartInv ==
  ASSUME F9tInv, NEW p \in Plans, Start(p)
  PROVE  F9tInv'
<1>1. F9tInit /\ Typed
  BY DEF F9tInv, Phased, Start
<1>2. PICK phase \in {"raised", "model"}, messages \in Seq(MessageSet) :
        /\ host' = [host EXCEPT !.at = phase, !.todo = messages]
        /\ \A m \in ToSet(messages) : m.type = "MON-VER"
        /\ phase = "raised" => messages = <<>>
  <2>1. CASE EndWith("raised")
    <3>1. host' = [host EXCEPT !.at = "raised", !.todo = <<>>]
      <4>1. PICK h : h = host
        OBVIOUS
      <4>2. h \in [at : HostStates, todo : Seq(MessageSet), sent : Seq(MessageSet), model : ModelSet,
                   acks : Seq(BOOLEAN), late : BOOLEAN] /\ h.sent = <<>>
        BY <1>1, <4>1 DEF Typed, F9tInit
      <4>3. [h EXCEPT !.at = "raised", !.todo = <<>>] = [h EXCEPT !.at = "raised", !.todo = <<>>, !.sent = <<>>]
        BY <4>2
      <4> QED BY <2>1, <4>1, <4>3 DEF EndWith
    <3>2. <<>> \in Seq(MessageSet) /\ ToSet(<<>>) = {}
      BY <1>1, Polls
    <3> QED BY <3>1, <3>2
  <2>2. CASE Enter("model", poll_mon_ver)
    BY <1>1, <2>2, Polls DEF Enter
  <2> QED BY <2>1, <2>2 DEF Start
<1>3. PICK model \in {"ZED-F9T", "ZED-F9P"} : receiver' = [receiver EXCEPT !.model = model]
  BY DEF Start
<1>4. plan' = p /\ line' = line
  BY DEF Start
<1>5. /\ host'.at = phase /\ host'.todo = messages /\ host'.sent = <<>> /\ host'.model = ""
      /\ host'.acks = <<>> /\ host'.late = FALSE
      /\ receiver'.model = model /\ receiver'.registers = {} /\ receiver'.transaction = {}
      /\ receiver'.verdicts = <<>>
      /\ line'.to = <<>> /\ line'.from = <<>>
  BY <1>1, <1>2, <1>3, <1>4 DEF F9tInit
<1>6. Typed'
  <2>1. p \in PlanSet /\ Len(p.position) <= 1 /\ (p.server => ~p.probe_only /\ ~p.dry_run)
    BY F9tAssumption DEF PlanSet
  <2>2. host' \in [at : HostStates, todo : Seq(MessageSet), sent : Seq(MessageSet), model : ModelSet,
                   acks : Seq(BOOLEAN), late : BOOLEAN]
    BY <1>1, <1>2 DEF Typed, HostStates, Phases
  <2>3. receiver' \in [model : ModelSet, alive : BOOLEAN, registers : SUBSET Items,
                       transaction : SUBSET Items, verdicts : Seq(BOOLEAN)]
    BY <1>1, <1>3 DEF Typed, ModelSet
  <2> QED BY <1>1, <1>4, <1>5, <2>1, <2>2, <2>3 DEF Typed
<1>7. ~Waiting' /\ Judged' = 0 /\ Given' = 0 /\ Asked' = ToSet(messages)
  <2>1. ~Waiting'
    BY <1>5 DEF Waiting
  <2>2. Judged' = 0
    BY <1>5, Empty DEF Judged
  <2>3. Given' = Len(host'.acks) + 0
    BY <2>1 DEF Given
  <2>4. Given' = 0
    <3>1. Len(host'.acks) = 0
      BY <1>5, Empty
    <3> QED BY <2>3, <3>1
  <2>5. Asked' = ToSet(messages)
    BY <1>5, Empty DEF Asked
  <2> QED BY <2>1, <2>2, <2>4, <2>5
<1>8. Phased'
  <2>1. phase = "raised" => ToSet(messages) = {}
    BY <1>1, <1>2, Polls
  <2>2. Given' <= (Len(Settings))' /\ ~(Given' > 0)
    BY <1>6, <1>7, NextFacts
  <2>3. \A m \in ToSet(messages) : ~IsSetting(m) /\ phase = "model"
    BY <1>2, <2>1 DEF IsSetting
  <2>4. phase = "model" \/ phase \notin Phases
    BY DEF Phases
  <2>5. host'.at \notin {"send", "idle", "uid", "verify", "verified", "mismatch"} /\ host'.model = ""
        /\ (host'.at \notin Phases => host'.todo = <<>> /\ host'.sent = <<>>)
        /\ (host'.at \notin {"model", "probe"} => \A m \in Asked' : m.type # "MON-VER")
    <3>1. CASE phase = "model"
      BY <1>2, <1>5, <1>7, <3>1 DEF Phases
    <3>2. CASE phase = "raised"
      <4>1. Asked' = {} /\ messages = <<>>
        BY <1>2, <1>7, <2>1, <3>2
      <4> QED BY <1>5, <3>2, <4>1
    <3> QED BY <1>2, <3>1, <3>2
  <2>6. \A m \in Asked' : ~IsSetting(m)
    BY <1>7, <2>3
  <2> QED BY <1>7, <2>2, <2>5, <2>6 DEF Phased
<1>9. Ordered'
  <2>0. Len(line'.to) = 0
    BY <1>5, Empty
  <2>1. 0 \in 0..Len(line'.to) /\ 0 + (0 - 0) = Len(line'.to) /\ \A i \in 1..Len(line'.to) : FALSE
    BY <2>0
  <2> QED BY <1>7, <2>1 DEF Ordered, Carries
<1>10. Booked'
  BY <1>5, <1>6, <1>7, NextFacts
<1>11. Timely'
  <2>1. DOMAIN host'.acks = {} /\ Len(host'.acks) = 0
    BY <1>5, Empty
  <2>2. ~(Judged' > Len(host'.acks))
    BY <1>7, <2>1
  <2> QED BY <1>5, <1>7, <2>1, <2>2 DEF Timely
<1>12. Models'
  <2>1. DOMAIN line'.from = {}
    BY <1>5, Empty
  <2> QED BY <2>1 DEF Models
<1> QED BY <1>6, <1>8, <1>9, <1>10, <1>11, <1>12 DEF F9tInv

(* The receiver is unplugged.                                              *)
LEMMA UnplugInv == ASSUME F9tInv, Unplug PROVE F9tInv'
<1>1. /\ UNCHANGED <<plan, host, line>> /\ receiver'.model = receiver.model
      /\ receiver'.transaction = receiver.transaction /\ receiver'.registers = receiver.registers
      /\ receiver'.verdicts = receiver.verdicts
  BY DEF Unplug, F9tInv, Typed
<1>2. Typed'
  BY <1>1 DEF Unplug, F9tInv, Typed
<1>3. Settings' = Settings /\ Given' = Given /\ Judged' = Judged /\ Asked' = Asked /\ Waiting' = Waiting
  BY <1>1, Frame DEF Given, Judged, Asked, Waiting
<1>4. Phased'
  <2>1. host.at # "idle"
    BY DEF Unplug
  <2> QED BY <1>1, <1>3, <2>1 DEF F9tInv, Phased
<1>5. Ordered' /\ Timely' /\ Models'
  BY <1>1, <1>3 DEF F9tInv, Ordered, Timely, Models
<1> QED BY <1>1, <1>2, <1>4, <1>5, BookedStays DEF F9tInv

-----------------------------------------------------------------------------
(* The host sends and reads                                                *)

(* A message is sent.                                                      *)
LEMMA SendInv == ASSUME F9tInv, Send PROVE F9tInv'
<1>1. PICK m \in MessageSet : m = Head(host.todo) /\ host.todo # <<>> /\ m \in ToSet(host.todo)
  <2>1. host.todo \in Seq(MessageSet) /\ host.todo # <<>>
    BY DEF Send, F9tInv, Typed
  <2>2. Head(host.todo) \in MessageSet /\ Head(host.todo) = host.todo[1] /\ 1 \in DOMAIN host.todo
    BY <2>1, Tailed, LenProperties
  <2> QED BY <2>1, <2>2 DEF ToSet
<1>2. /\ host.at \in Phases /\ ~Waiting /\ host.sent = <<>> /\ UNCHANGED <<plan, receiver>>
      /\ host' = [host EXCEPT !.todo = Tail(host.todo), !.sent = <<m>>]
      /\ line' = [to |-> Append(line.to, m), from |-> IF m.type = "SEC-UNIQID" THEN <<>> ELSE line.from]
  BY <1>1 DEF Send, Waiting
<1>3. /\ host'.at = host.at /\ host'.todo = Tail(host.todo) /\ host'.sent = <<m>> /\ host'.acks = host.acks
      /\ host'.late = host.late /\ host'.model = host.model
      /\ line'.to = Append(line.to, m) /\ (line'.from = <<>> \/ line'.from = line.from)
  BY <1>2 DEF F9tInv, Typed
<1>4. Typed /\ Phased
  BY DEF F9tInv
<1>5. Tail(host.todo) \in Seq(MessageSet) /\ <<m>> \in Seq(MessageSet) /\ Append(line.to, m) \in Seq(MessageSet)
      /\ <<>> \in Seq(AnswerSet) /\ line.to \in Seq(MessageSet)
  BY <1>1, <1>4 DEF Typed
<1>6. Typed'
  BY <1>2, <1>4, <1>5 DEF Typed
<1>7. Settings' = Settings /\ Judged' = Judged /\ Given = Len(host.acks) /\ Waiting' /\ <<m>>[1] = m /\ <<m>> # <<>>
  <2>1. <<m>>[1] = m /\ <<m>> # <<>>
    OBVIOUS
  <2> QED BY <1>2, <1>3, <1>4, <2>1, Frame, Counts DEF Judged, Waiting
<1>8. /\ IsSetting(m) => Given' = Given + 1
      /\ ~IsSetting(m) => Given' = Given
  <2>1. PICK n \in Nat : n = Given /\ n = Len(host.acks)
    BY <1>4, <1>7, Counts
  <2>2. host'.sent[1] = m /\ Len(host'.acks) = n /\ Waiting'
    BY <1>3, <1>7, <2>1
  <2>3. IsSetting(m) => Given' = n + 1
    BY <2>2 DEF Given
  <2>4. ~IsSetting(m) => Given' = n + 0
    BY <2>2 DEF Given
  <2> QED BY <2>1, <2>3, <2>4
<1>9. Asked' \subseteq Asked
  <2>1. \A s \in Seq(MessageSet) : s # <<>> => ToSet(Tail(s)) \subseteq ToSet(s)
    <3>1. SUFFICES ASSUME NEW s \in Seq(MessageSet), s # <<>> PROVE ToSet(Tail(s)) \subseteq ToSet(s)
      OBVIOUS
    <3>2. \A i \in DOMAIN Tail(s) : i + 1 \in DOMAIN s /\ Tail(s)[i] = s[i + 1]
      BY <3>1, Tailed, LenProperties
    <3> QED BY <3>2 DEF ToSet
  <2>2. ToSet(<<m>>) = {m}
    <3>1. DOMAIN <<m>> = {1}
      OBVIOUS
    <3> QED BY <1>7, <3>1 DEF ToSet
  <2>3. host.todo \in Seq(MessageSet) /\ host.todo # <<>>
    BY <1>1, <1>4 DEF Typed
  <2>4. ToSet(Tail(host.todo)) \subseteq ToSet(host.todo)
    BY <2>1, <2>3
  <2>5. Asked' = ToSet(Tail(host.todo)) \cup {m}
    BY <1>3, <2>2 DEF Asked
  <2> QED BY <1>1, <2>4, <2>5 DEF Asked
<1>10. ASSUME host.at = "send" PROVE Phased' /\ Ordered'
  <2>1. PICK s \in Seq(MessageSet), g \in Nat : s = Settings /\ g = Given /\ host.todo = SubSeq(s, g + 1, Len(s))
    BY <1>4, <1>10, SettingsFacts, Counts DEF Phased
  <2>2. g + 1 <= Len(s) /\ Head(SubSeq(s, g + 1, Len(s))) = s[g + 1]
        /\ Tail(SubSeq(s, g + 1, Len(s))) = SubSeq(s, g + 2, Len(s))
    <3>1. g + 1 <= Len(s)
      BY <1>1, <2>1
    <3>2. Head(SubSeq(s, g + 1, Len(s))) = s[g + 1]
      BY <3>1
    <3>3. Tail(SubSeq(s, g + 1, Len(s))) = SubSeq(s, g + 2, Len(s))
      BY <3>1
    <3> QED BY <3>1, <3>2, <3>3
  <2>3. m = s[g + 1] /\ IsSetting(m) /\ Given' = g + 1
    <3>1. m = s[g + 1]
      BY <1>1, <2>1, <2>2
    <3>2. g + 1 \in 1..NumSignal + NumOther
      BY <1>4, <2>1, <2>2, SettingsFacts
    <3>3. IsSetting(m)
      BY <1>4, <2>1, <3>1, <3>2, SettingsFacts
    <3> QED BY <1>8, <2>1, <3>1, <3>3
  <2>4. Phased'
    <3>1. host'.todo = SubSeq(s, g + 1 + 1, Len(s)) /\ g + 1 >= 1 /\ g + 1 <= Len(s)
      BY <1>3, <2>1, <2>2
    <3>2. ~plan.dry_run /\ ~plan.probe_only /\ host.model \in {"", receiver.model}
      BY <1>4, <1>10 DEF Phased
    <3> QED BY <1>2, <1>3, <1>4, <1>7, <1>9, <1>10, <2>1, <2>3, <3>1, <3>2 DEF Phased, Before, Phases
  <2>5. Ordered'
    <3>1. Carries(line.to, s, Judged, g, TRUE)
      BY <1>10, <2>1 DEF F9tInv, Ordered
    <3>2. Carries(Append(line.to, m), s, Judged, g + 1, TRUE)
      BY <1>4, <1>5, <2>1, <2>3, <3>1, CarriesSetting, Counts
    <3> QED BY <1>3, <1>7, <1>10, <2>1, <2>3, <3>2 DEF Ordered
  <2> QED BY <2>4, <2>5
<1>11. ASSUME host.at # "send" PROVE Phased' /\ Ordered'
  <2>1. ~IsSetting(m) /\ Given' = Given
    <3>1. host.at \in Before \cup {"verify"} /\ m \in Asked
      BY <1>1, <1>2, <1>11 DEF Phases, Before, Asked
    <3> QED BY <1>4, <1>8, <3>1 DEF Phased
  <2>2. Phased'
    BY <1>2, <1>3, <1>4, <1>7, <1>9, <1>11, <2>1 DEF Phased, Before, Phases
  <2>3. Ordered'
    <3>1. CASE host.at \in Before
      <4>1. Given = 0 /\ Carries(line.to, Settings, Judged, Given, TRUE)
        BY <1>4, <3>1 DEF Phased, F9tInv, Ordered, Carries
      <4>2. Carries(Append(line.to, m), Settings, Judged, Given, TRUE)
        BY <1>1, <1>4, <1>5, <2>1, <4>1, CarriesOther, Counts
      <4> QED BY <1>3, <1>7, <2>1, <3>1, <4>2 DEF Ordered, Carries
    <3>2. CASE host.at \notin Before
      <4>1. Carries(line.to, Settings, Judged, Given, FALSE)
        BY DEF F9tInv, Ordered, Carries
      <4>2. Carries(Append(line.to, m), Settings, Judged, Given, FALSE)
        BY <1>1, <1>4, <1>5, <2>1, <4>1, CarriesOther, Counts
      <4> QED BY <1>3, <1>7, <1>11, <2>1, <3>2, <4>2 DEF Ordered, Carries
    <3> QED BY <3>1, <3>2
  <2> QED BY <2>2, <2>3
<1>12. Booked'
  BY <1>2, <1>3, BookedStays DEF F9tInv
<1>13. Timely'
  <2>1. SUFFICES ASSUME ~host.late PROVE Timely'
    BY <1>3 DEF Timely
  <2>2. line.from = <<>> /\ Judged <= Len(host.acks)
    BY <1>2, <1>4, <2>1, Counts DEF F9tInv, Timely
  <2>3. line'.from = <<>> /\ line'.to # <<>> /\ line'.to[Len(line'.to)] = m
    BY <1>1, <1>3, <1>5, <2>2
  <2>4. \A i \in DOMAIN host.acks : host.acks[i] = (i <= Judged /\ receiver.verdicts[i])
    BY <2>1 DEF F9tInv, Timely
  <2>5. ~(Judged > Len(host.acks))
    BY <1>4, <2>2, Counts
  <2> QED BY <1>2, <1>3, <1>7, <2>3, <2>4, <2>5 DEF Timely
<1>14. Models'
  <2>1. DOMAIN <<>> = {}
    OBVIOUS
  <2> QED BY <1>2, <1>3, <2>1 DEF F9tInv, Models
<1> QED BY <1>6, <1>10, <1>11, <1>12, <1>13, <1>14 DEF F9tInv

(* What an answer, or that none comes, does to the host: to a setting that *)
(* is sent, to another message, or nothing.                                *)
LEMMA AnswerCases ==
  ASSUME NEW m \in MessageSet, NEW answer, Answer(m, answer)
  PROVE  \/ host' = host /\ answer.type # "SILENCE"
         \/ IsSetting(m) /\ Acknowledged(answer.type = "ACK-ACK")
         \/ ~IsSetting(m) /\ Go
         \/ ~IsSetting(m) /\ EndWith("raised")
         \/ /\ m.type = "MON-VER" /\ answer.type = "MON-VER"
            /\ host' = [host EXCEPT !.sent = <<>>, !.model = answer.model]
<1>1. m.type \in Types
  BY DEF MessageSet
<1>2. CASE m.type = "CFG-VALSET"
  BY <1>2 DEF Answer, AwaitAck, Skip, IsSetting
<1>3. CASE m.type = "MON-VER"
  BY <1>3 DEF Answer, ReadModel, Skip, IsSetting
<1>4. CASE m.type = "SEC-UNIQID"
  BY <1>4 DEF Answer, ReadUid, Skip, IsSetting
<1>5. CASE m.type = "CFG-VALGET"
  BY <1>5 DEF Answer, ReadValues, Merge, Skip, IsSetting
<1>6. CASE m.type = "ONE-VALGET"
  BY <1>6 DEF Answer, ReadValue, Merge, Skip, IsSetting
<1> QED BY <1>1, <1>2, <1>3, <1>4, <1>5, <1>6 DEF Types

(* An answer is read or not waited for any longer.                         *)
LEMMA HostKeeps ==
  ASSUME F9tInv, Waiting, plan' = plan, receiver' = receiver, line'.to = line.to,
         line' \in [to : Seq(MessageSet), from : Seq(AnswerSet)], Models', Timely',
         NEW answer, Answer(host.sent[1], answer),
         answer.type = "MON-VER" => answer.model = receiver.model
  PROVE  F9tInv'
<1>1. Typed /\ Phased
  BY DEF F9tInv
<1>2. PICK m \in MessageSet : m = host.sent[1] /\ m \in Asked
  BY <1>1, SentFacts
<1>3. /\ IsSetting(m) <=> host.at = "send"
      /\ m.type = "MON-VER" => host.at \in {"model", "probe"}
      /\ host.at \in Phases /\ host.at # "idle"
  BY <1>1, <1>2, SentFacts DEF Phases
<1>4. /\ IsSetting(m) => Given = Len(host.acks) + 1
      /\ ~IsSetting(m) => Given = Len(host.acks)
      /\ Given \in Nat /\ Judged' = Judged /\ Judged \in Nat
  BY <1>1, <1>2, Counts DEF Judged
<1>5. /\ receiver.model \in ModelSet /\ <<>> \in Seq(MessageSet) /\ "raised" \in HostStates
      /\ "raised" \notin Phases \cup Before \cup {"verified", "mismatch"}
  BY <1>1 DEF Typed, HostStates, Phases, Before
<1>6. CASE host' = host
  <2>1. Settings' = Settings /\ Given' = Given /\ Asked' = Asked /\ Waiting' = Waiting
    BY <1>6, Frame DEF Given, Asked, Waiting
  <2>2. Phased'
    BY <1>1, <1>3, <1>6, <2>1 DEF Phased
  <2>3. Ordered' /\ Typed'
    BY <1>1, <1>4, <1>6, <2>1 DEF F9tInv, Ordered, Typed
  <2> QED BY <1>6, <2>2, <2>3, BookedStays DEF F9tInv
<1>7. CASE IsSetting(m) /\ Acknowledged(answer.type = "ACK-ACK")
  <2>1. PICK ok \in BOOLEAN : host' = [host EXCEPT !.sent = <<>>, !.acks = Append(host.acks, ok)]
    BY <1>7 DEF Acknowledged
  <2>2. /\ host'.at = "send" /\ host'.sent = <<>> /\ host'.acks = Append(host.acks, ok)
        /\ host'.todo = host.todo /\ host'.model = host.model
    BY <1>1, <1>3, <1>7, <2>1 DEF Typed
  <2>3. host.acks \in Seq(BOOLEAN) /\ Append(host.acks, ok) \in Seq(BOOLEAN)
        /\ Len(Append(host.acks, ok)) = Len(host.acks) + 1
    BY <1>1 DEF Typed
  <2>4. ~Waiting' /\ Asked' \subseteq Asked /\ Settings' = Settings
    BY <2>2, Empty, Frame DEF Waiting, Asked
  <2>5. Given' = Given
    <3>1. Given' = Len(host'.acks) + 0
      BY <2>4 DEF Given
    <3> QED BY <1>4, <1>7, <2>2, <2>3, <3>1
  <2>6. Typed'
    <3>1. host' \in [at : HostStates, todo : Seq(MessageSet), sent : Seq(MessageSet), model : ModelSet,
                     acks : Seq(BOOLEAN), late : BOOLEAN]
      BY <1>1, <1>5, <2>1, <2>3 DEF Typed
    <3> QED BY <1>1, <2>2, <3>1 DEF Typed
  <2>7. Phased'
    <3>1. host.at = "send"
      BY <1>3, <1>7
    <3> QED BY <1>1, <2>2, <2>4, <2>5, <3>1 DEF Phased, Phases, Before
  <2>8. Ordered'
    <3>1. host.at = "send"
      BY <1>3, <1>7
    <3> QED BY <1>4, <2>2, <2>4, <2>5, <3>1 DEF F9tInv, Ordered
  <2> QED BY <2>2, <2>6, <2>7, <2>8, BookedStays DEF F9tInv
<1>8. CASE ~IsSetting(m) /\ Go
  <2>1. host' = [host EXCEPT !.sent = <<>>]
    BY <1>8 DEF Go
  <2>2. /\ host'.at = host.at /\ host'.sent = <<>> /\ host'.acks = host.acks
        /\ host'.todo = host.todo /\ host'.model = host.model
    BY <1>1, <2>1 DEF Typed
  <2>3. ~Waiting' /\ Asked' \subseteq Asked /\ Settings' = Settings
    BY <2>2, Empty, Frame DEF Waiting, Asked
  <2>4. Given' = Given
    <3>1. Given' = Len(host'.acks) + 0
      BY <2>3 DEF Given
    <3> QED BY <1>4, <1>8, <2>2, <3>1
  <2>5. Typed'
    <3>1. host' \in [at : HostStates, todo : Seq(MessageSet), sent : Seq(MessageSet), model : ModelSet,
                     acks : Seq(BOOLEAN), late : BOOLEAN]
      BY <1>1, <1>5, <2>1 DEF Typed
    <3> QED BY <1>1, <2>2, <3>1 DEF Typed
  <2>6. Phased'
    BY <1>1, <1>3, <1>8, <2>2, <2>3, <2>4 DEF Phased
  <2>7. Ordered'
    BY <1>4, <2>2, <2>3, <2>4 DEF F9tInv, Ordered
  <2> QED BY <2>2, <2>5, <2>6, <2>7, BookedStays DEF F9tInv
<1>9. CASE ~IsSetting(m) /\ EndWith("raised")
  <2>1. host' = [host EXCEPT !.at = "raised", !.todo = <<>>, !.sent = <<>>]
    BY <1>9 DEF EndWith
  <2>2. /\ host'.at = "raised" /\ host'.sent = <<>> /\ host'.acks = host.acks
        /\ host'.todo = <<>> /\ host'.model = host.model
    BY <1>1, <2>1 DEF Typed
  <2>3. ~Waiting' /\ Asked' = {} /\ Settings' = Settings
    BY <2>2, Empty, Frame DEF Waiting, Asked
  <2>4. Given' = Given
    <3>1. Given' = Len(host'.acks) + 0
      BY <2>3 DEF Given
    <3> QED BY <1>4, <1>9, <2>2, <3>1
  <2>5. Typed'
    <3>1. host' \in [at : HostStates, todo : Seq(MessageSet), sent : Seq(MessageSet), model : ModelSet,
                     acks : Seq(BOOLEAN), late : BOOLEAN]
      BY <1>1, <1>5, <2>1 DEF Typed
    <3> QED BY <1>1, <2>2, <3>1 DEF Typed
  <2>6. Phased'
    BY <1>1, <1>5, <2>2, <2>3, <2>4 DEF Phased, Phases, Before
  <2>7. Ordered'
    <3>1. host'.at \notin Before \cup {"send"}
      BY <1>5, <2>2 DEF Phases
    <3> QED BY <1>4, <2>3, <2>4, <3>1 DEF F9tInv, Ordered, Carries
  <2> QED BY <2>2, <2>5, <2>6, <2>7, BookedStays DEF F9tInv
<1>10. CASE /\ m.type = "MON-VER" /\ answer.type = "MON-VER"
            /\ host' = [host EXCEPT !.sent = <<>>, !.model = answer.model]
  <2>1. /\ host'.at = host.at /\ host'.sent = <<>> /\ host'.acks = host.acks
        /\ host'.todo = host.todo /\ host'.model = receiver.model
    BY <1>1, <1>10 DEF Typed
  <2>2. host.at \in {"model", "probe"} /\ host.at \in Before /\ Given = 0 /\ ~IsSetting(m)
    BY <1>1, <1>3, <1>10 DEF Phased, Before, IsSetting
  <2>3. ~Waiting' /\ Asked' \subseteq Asked
    BY <2>1, Empty DEF Waiting, Asked
  <2>4. Given' = 0
    <3>1. Given' = Len(host'.acks) + 0
      BY <2>3 DEF Given
    <3> QED BY <1>4, <2>1, <2>2, <3>1
  <2>5. Typed'
    <3>1. host' \in [at : HostStates, todo : Seq(MessageSet), sent : Seq(MessageSet), model : ModelSet,
                     acks : Seq(BOOLEAN), late : BOOLEAN]
      BY <1>1, <1>5, <1>10 DEF Typed
    <3> QED BY <1>1, <2>1, <3>1 DEF Typed
  <2>6. Phased'
    <3>1. 0 <= (Len(Settings))'
      BY <2>5, NextFacts
    <3> QED BY <1>1, <1>3, <2>1, <2>2, <2>3, <2>4, <3>1 DEF Phased, Before
  <2>7. Judged = 0 /\ Carries(line.to, Settings', Judged, 0, TRUE)
    <3>1. Carries(line.to, Settings, Judged, 0, TRUE) /\ Judged <= 0
      BY <2>2 DEF F9tInv, Ordered, Carries
    <3>2. Judged = 0
      BY <1>4, <3>1
    <3>3. PICK p \in 0..Len(line.to) : /\ p + (0 - 0) = Len(line.to) /\ p + (0 - 0) <= Len(line.to)
                                       /\ \A i \in 1..Len(line.to) : ~IsSetting(line.to[i])
      <4>1. PICK p \in 0..Len(line.to) :
              /\ p + (0 - 0) = Len(line.to) /\ p + (0 - 0) <= Len(line.to)
              /\ \A i \in 1..Len(line.to) : IF p < i /\ i <= p + (0 - 0) THEN line.to[i] = Settings[0 + i - p]
                                            ELSE ~IsSetting(line.to[i])
        BY <3>1, <3>2 DEF Carries
      <4>2. \A i \in 1..Len(line.to) : ~(p < i /\ i <= p + (0 - 0))
        OBVIOUS
      <4> QED BY <4>1, <4>2
    <3>4. \A i \in 1..Len(line.to) : ~(p < i /\ i <= p + (0 - 0))
      OBVIOUS
    <3>5. Carries(line.to, Settings', 0, 0, TRUE)
      BY <3>3, <3>4 DEF Carries
    <3> QED BY <3>2, <3>5
  <2>8. Ordered'
    BY <1>4, <2>1, <2>2, <2>4, <2>7 DEF Ordered
  <2>9. Booked'
    <3>1. receiver.transaction = {} /\ receiver.registers = {}
      BY <1>1, <2>7, BookedNone DEF F9tInv
    <3> QED BY <1>4, <2>5, <2>7, <3>1, NextFacts
  <2> QED BY <2>5, <2>6, <2>8, <2>9 DEF F9tInv
<1> QED BY <1>2, <1>6, <1>7, <1>8, <1>9, <1>10, AnswerCases

(* What the host does with its answer leaves the rest of it alone.         *)
LEMMA AnswerLeaves ==
  ASSUME Typed, NEW m \in MessageSet, NEW answer, Answer(m, answer)
  PROVE  /\ host'.late = host.late
         /\ ~IsSetting(m) => host'.acks = host.acks
         /\ host' = host \/ host'.sent = <<>>
<1>1. CASE host' = host
  BY <1>1
<1>2. CASE IsSetting(m) /\ Acknowledged(answer.type = "ACK-ACK")
  BY <1>2 DEF Acknowledged, Typed
<1>3. CASE Go
  BY <1>3 DEF Go, Typed
<1>4. CASE EndWith("raised")
  BY <1>4 DEF EndWith, Typed
<1>5. CASE host' = [host EXCEPT !.sent = <<>>, !.model = answer.model]
  BY <1>5 DEF Typed
<1> QED BY <1>1, <1>2, <1>3, <1>4, <1>5, AnswerCases

(* The answer to a setting is the verdict on it.                           *)
LEMMA AckTimely ==
  ASSUME F9tInv, ~host.late, Waiting, IsSetting(host.sent[1]), receiver' = receiver,
         line'.to = line.to, line'.from = <<>>, NEW ok \in BOOLEAN,
         host' = [host EXCEPT !.sent = <<>>, !.acks = Append(host.acks, ok)],
         \/ ok = receiver.verdicts[Judged] /\ Judged > Len(host.acks)
         \/ ok = FALSE /\ Judged <= Len(host.acks)
  PROVE  Timely'
<1>1. Typed /\ host.acks \in Seq(BOOLEAN)
  BY DEF F9tInv, Typed
<1>2. PICK n \in Nat, v \in Nat : n = Len(host.acks) /\ v = Judged /\ v <= n + 1
  <2>1. Judged <= Given /\ Given = Len(host.acks) + 1 /\ Judged \in Nat /\ Len(host.acks) \in Nat
    BY <1>1, Counts DEF F9tInv, Ordered, Carries
  <2> QED BY <2>1
<1>3. host'.acks = Append(host.acks, ok) /\ host'.sent = <<>>
  BY <1>1 DEF Typed
<1>4. Len(host'.acks) = n + 1 /\ DOMAIN host'.acks = 1..(n + 1) /\ DOMAIN host.acks = 1..n
      /\ host'.acks[n + 1] = ok /\ \A i \in 1..n : host'.acks[i] = host.acks[i]
  BY <1>1, <1>2, <1>3
<1>5. \A i \in 1..n : host.acks[i] = (i <= v /\ receiver.verdicts[i])
  BY <1>2, <1>4 DEF F9tInv, Timely
<1>6. Judged' = v /\ ~Waiting'
  BY <1>2, <1>3, Empty DEF Judged, Waiting
<1>7. ok = (n + 1 <= v /\ receiver.verdicts[n + 1])
  <2>1. CASE ok = receiver.verdicts[v] /\ v > n
    <3>1. v = n + 1
      BY <1>2, <2>1
    <3> QED BY <2>1, <3>1
  <2>2. CASE ok = FALSE /\ v <= n
    BY <1>2, <2>2
  <2> QED BY <1>2, <2>1, <2>2
<1>8. \A i \in 1..(n + 1) : host'.acks[i] = (i <= v /\ receiver.verdicts[i])
  <2>1. SUFFICES ASSUME NEW i \in 1..(n + 1) PROVE host'.acks[i] = (i <= v /\ receiver.verdicts[i])
    OBVIOUS
  <2>2. i \in 1..n \/ i = n + 1
    BY <1>2
  <2> QED BY <1>4, <1>5, <1>7, <2>2
<1>9. ~(Judged' > Len(host'.acks))
  BY <1>2, <1>4, <1>6
<1> QED BY <1>4, <1>6, <1>8, <1>9 DEF Timely

(* Nothing is waited for any longer, and nothing more is heard.            *)
LEMMA DoneTimely ==
  ASSUME F9tInv, ~host.late, Judged <= Len(host.acks), receiver' = receiver, host'.acks = host.acks,
         host'.sent = <<>>, line'.from = <<>> \/ host'.at \notin Phases
  PROVE  Timely'
<1>1. Judged' = Judged /\ ~Waiting'
  BY Empty DEF Judged, Waiting
<1>2. ~(Judged' > Len(host'.acks))
  BY <1>1, Counts DEF F9tInv
<1> QED BY <1>1, <1>2 DEF F9tInv, Timely

(* An answer is read.                                                      *)
LEMMA ReadInv == ASSUME F9tInv, Read PROVE F9tInv'
<1>1. Typed /\ Phased /\ Waiting
  BY DEF F9tInv, Read
<1>2. PICK m \in MessageSet, a \in AnswerSet :
        /\ m = host.sent[1] /\ a = Head(line.from) /\ a = line.from[1] /\ Answer(m, a)
        /\ line.from \in Seq(AnswerSet) /\ line.from # <<>> /\ 1 \in DOMAIN line.from
        /\ line' = [line EXCEPT !.from = Tail(line.from)]
  <2>1. line.from \in Seq(AnswerSet) /\ line.from # <<>>
    BY DEF F9tInv, Typed, Read
  <2>2. Head(line.from) \in AnswerSet /\ Head(line.from) = line.from[1] /\ 1 \in DOMAIN line.from
    BY <2>1
  <2> QED BY <1>1, <2>1, <2>2, SentFacts DEF Read
<1>3. plan' = plan /\ receiver' = receiver
  BY DEF Read
<1>4. Tail(line.from) \in Seq(AnswerSet) /\ (Len(line.from) <= 1 => Tail(line.from) = <<>>)
      /\ Len(Tail(line.from)) = Len(line.from) - 1
      /\ \A i \in DOMAIN Tail(line.from) : i + 1 \in DOMAIN line.from /\ Tail(line.from)[i] = line.from[i + 1]
  BY <1>2
<1>5. line'.to = line.to /\ line'.from = Tail(line.from) /\ line' \in [to : Seq(MessageSet), from : Seq(AnswerSet)]
  BY <1>1, <1>2, <1>4 DEF Typed
<1>6. Models'
  BY <1>3, <1>4, <1>5 DEF F9tInv, Models
<1>7. Timely'
  <2>1. SUFFICES ASSUME ~host.late PROVE Timely'
    <3>1. host'.late = host.late
      BY <1>1, <1>2, AnswerLeaves
    <3> QED BY <3>1 DEF Timely
  <2>2. line.to = <<>>
    BY <1>1, <1>2, <2>1 DEF F9tInv, Timely
  <2>3. CASE IsSetting(m)
    <3>1. Judged > Len(host.acks) /\ Len(line.from) = 1 /\ a.type = AckOf(receiver.verdicts[Judged])
      BY <1>1, <1>2, <2>1, <2>2, <2>3 DEF F9tInv, Timely
    <3>2. PICK ok \in BOOLEAN : ok = receiver.verdicts[Judged] /\ a.type = AckOf(ok)
      <4>1. Judged \in 1..Len(receiver.verdicts) /\ receiver.verdicts \in Seq(BOOLEAN)
        BY <1>1, <3>1, Counts DEF Judged, Typed
      <4>2. receiver.verdicts[Judged] \in BOOLEAN
        BY <4>1
      <4> QED BY <3>1, <4>2
    <3>3. Acknowledged(a.type = "ACK-ACK")
      BY <1>2, <2>3, <3>2 DEF Answer, AwaitAck, Skip, IsSetting, AckOf
    <3>4. (a.type = "ACK-ACK") = ok
      BY <3>2 DEF AckOf
    <3>5. host' = [host EXCEPT !.sent = <<>>, !.acks = Append(host.acks, ok)]
      BY <3>3, <3>4 DEF Acknowledged
    <3>6. line'.from = <<>>
      BY <1>4, <1>5, <3>1
    <3> QED BY <1>1, <1>2, <1>3, <1>5, <2>1, <2>3, <3>1, <3>2, <3>5, <3>6, AckTimely
  <2>4. CASE ~IsSetting(m)
    <3>1. ~(Judged > Len(host.acks)) /\ Judged <= Len(host.acks) /\ host'.acks = host.acks
      BY <1>1, <1>2, <2>1, <2>4, AnswerLeaves, Counts DEF F9tInv, Timely
    <3>2. CASE Len(line.from) <= 1
      <4>1. line'.from = <<>> /\ Len(line'.from) <= 1
        BY <1>4, <1>5, <3>2, Empty
      <4>2. CASE host'.sent = <<>>
        BY <1>3, <2>1, <3>1, <4>1, <4>2, DoneTimely
      <4>3. CASE host' = host
        BY <1>1, <1>2, <1>3, <1>5, <2>1, <2>2, <2>4, <3>1, <4>1, <4>3 DEF F9tInv, Timely, Judged, Waiting
      <4> QED BY <1>1, <1>2, <4>2, <4>3, AnswerLeaves
    <3>3. CASE a.type = "CFG-VALGET" /\ m.type \in {"CFG-VALGET", "ONE-VALGET"}
      <4>1. EndWith("raised")
        BY <1>2, <3>3 DEF Answer, ReadValues, ReadValue, Merge, Skip
      <4>2. host'.sent = <<>> /\ host'.at = "raised"
        BY <1>1, <4>1 DEF EndWith, Typed
      <4>3. host'.at \notin Phases
        BY <4>2 DEF Phases
      <4> QED BY <1>3, <2>1, <3>1, <4>2, <4>3, DoneTimely
    <3> QED BY <1>1, <1>2, <2>1, <2>2, <3>2, <3>3 DEF F9tInv, Timely
  <2> QED BY <2>3, <2>4
<1>8. a.type = "MON-VER" => a.model = receiver.model
  BY <1>2 DEF F9tInv, Models
<1> QED BY <1>1, <1>2, <1>3, <1>5, <1>6, <1>7, <1>8, HostKeeps

(* No answer comes in time.                                                *)
LEMMA TimeOutInv == ASSUME F9tInv, TimeOut PROVE F9tInv'
<1>1. Typed /\ Phased /\ Waiting /\ line.from = <<>> /\ UNCHANGED <<plan, line, receiver>>
  BY DEF F9tInv, TimeOut
<1>2. PICK m \in MessageSet : m = host.sent[1] /\ Answer(m, Silence)
  BY <1>1, SentFacts DEF TimeOut
<1>3. Silence.type = "SILENCE"
  BY DEF Silence
<1>4. Models' /\ line' \in [to : Seq(MessageSet), from : Seq(AnswerSet)]
  BY <1>1 DEF F9tInv, Models, Typed
<1>5. Timely'
  <2>1. SUFFICES ASSUME ~host.late PROVE Timely'
    <3>1. host'.late = host.late
      BY <1>1, <1>2, AnswerLeaves
    <3> QED BY <3>1 DEF Timely
  <2>2. Judged <= Len(host.acks)
    <3>1. SUFFICES ASSUME Judged > Len(host.acks) PROVE FALSE
      BY <1>1, Counts
    <3>2. line.to = <<>> /\ IsSetting(host.sent[1])
      BY <2>1, <3>1 DEF F9tInv, Timely
    <3>3. Len(line.from) = 1
      BY <1>1, <2>1, <3>2 DEF F9tInv, Timely
    <3> QED BY <1>1, <3>3, Empty
  <2>3. CASE IsSetting(m)
    <3>1. Acknowledged(Silence.type = "ACK-ACK")
      BY <1>2, <1>3, <2>3 DEF Answer, AwaitAck, Skip, IsSetting
    <3>2. host' = [host EXCEPT !.sent = <<>>, !.acks = Append(host.acks, FALSE)]
      BY <1>3, <3>1 DEF Acknowledged
    <3> QED BY <1>1, <1>2, <2>1, <2>2, <2>3, <3>2, AckTimely
  <2>4. CASE ~IsSetting(m)
    <3>1. host'.acks = host.acks
      BY <1>1, <1>2, <2>4, AnswerLeaves
    <3>2. host'.sent = <<>>
      <4>1. CASE Go
        BY <1>1, <4>1 DEF Go, Typed
      <4>2. CASE EndWith("raised")
        BY <1>1, <4>2 DEF EndWith, Typed
      <4> QED BY <1>2, <1>3, <2>4, <4>1, <4>2, AnswerCases
    <3> QED BY <1>1, <2>1, <2>2, <3>1, <3>2, DoneTimely
  <2> QED BY <2>3, <2>4
<1> QED BY <1>1, <1>2, <1>3, <1>4, <1>5, HostKeeps

-----------------------------------------------------------------------------
(* The receiver answers                                                    *)

(* The kinds of answers.                                                   *)
AnswerTypes == {"CFG-VALGET", "ACK-ACK", "ACK-NAK", "MON-VER", "SEC-UNIQID"}

(* What is on the line after a reply.                                      *)
LEMMA Replied ==
  ASSUME Typed, Models, line.to # <<>>, NEW types \in Seq(AnswerTypes), Reply(types),
         receiver'.model = receiver.model
  PROVE  /\ line' \in [to : Seq(MessageSet), from : Seq(AnswerSet)] /\ Models'
         /\ line'.to = Tail(line.to)
         /\ line.from = <<>> => /\ Len(line'.from) = Len(types)
                                /\ \A i \in 1..Len(types) : line'.from[i].type = types[i]
<1> DEFINE reply == [i \in DOMAIN types |-> [type |-> types[i], model |-> receiver.model]]
<1>1. PICK n \in Nat : n = Len(types) /\ DOMAIN types = 1..n
  OBVIOUS
<1>2. \A i \in 1..n : [type |-> types[i], model |-> receiver.model] \in AnswerSet
  BY <1>1 DEF AnswerTypes, AnswerSet, Typed
<1>3. reply \in Seq(AnswerSet) /\ Len(reply) = n
      /\ \A i \in 1..n : reply[i].type = types[i] /\ reply[i].model = receiver.model
  <2>1. reply = [i \in 1..n |-> [type |-> types[i], model |-> receiver.model]]
    BY <1>1
  <2>2. reply \in Seq(AnswerSet) /\ Len(reply) = n
    BY <1>2, <2>1
  <2>3. \A i \in 1..n : reply[i] = [type |-> types[i], model |-> receiver.model]
    BY <2>1
  <2> QED BY <2>2, <2>3
<1>4. line'.to = Tail(line.to) /\ line'.from = line.from \o reply
      /\ line' = [to |-> Tail(line.to), from |-> line.from \o reply]
  BY DEF Reply
<1> HIDE DEF reply
<1>5. line.from \in Seq(AnswerSet) /\ Tail(line.to) \in Seq(MessageSet)
  BY Tailed DEF Typed
<1>6. PICK f \in Seq(AnswerSet), k \in Nat : f = line.from /\ k = Len(f)
  BY <1>5
<1>7. /\ f \o reply \in Seq(AnswerSet) /\ Len(f \o reply) = k + n
      /\ \A i \in 1..k + n : (f \o reply)[i] = IF i <= k THEN f[i] ELSE reply[i - k]
  <2>1. PICK r \in Seq(AnswerSet) : r = reply /\ Len(r) = n
    BY <1>3
  <2>2. /\ f \o r \in Seq(AnswerSet) /\ Len(f \o r) = Len(f) + Len(r)
        /\ \A i \in 1..Len(f) + Len(r) : (f \o r)[i] = IF i <= Len(f) THEN f[i] ELSE r[i - Len(f)]
    BY ConcatProperties
  <2> QED BY <1>6, <2>1, <2>2
<1>8. line' \in [to : Seq(MessageSet), from : Seq(AnswerSet)]
  BY <1>4, <1>5, <1>6, <1>7
<1>9. Models'
  <2>1. SUFFICES ASSUME NEW i \in DOMAIN line'.from PROVE line'.from[i].model = receiver.model
    BY DEF Models
  <2>2. line'.from = f \o reply /\ i \in 1..k + n
    BY <1>4, <1>6, <1>7, <2>1
  <2>3. CASE i <= k
    <3>1. i \in DOMAIN line.from /\ line'.from[i] = line.from[i]
      BY <1>6, <1>7, <2>2, <2>3
    <3> QED BY <3>1 DEF Models
  <2>4. CASE ~(i <= k)
    <3>1. i - k \in 1..n /\ line'.from[i] = reply[i - k]
      BY <1>6, <1>7, <2>2, <2>4
    <3> QED BY <1>3, <3>1
  <2> QED BY <2>3, <2>4
<1>10. ASSUME line.from = <<>>
       PROVE  Len(line'.from) = Len(types) /\ \A i \in 1..Len(types) : line'.from[i].type = types[i]
  <2>1. k = 0
    BY <1>6, <1>10, Empty
  <2>2. line'.from = f \o reply /\ k + n = n
    BY <1>4, <1>6, <2>1
  <2>3. \A i \in 1..n : line'.from[i] = reply[i]
    <3>1. SUFFICES ASSUME NEW i \in 1..n PROVE line'.from[i] = reply[i]
      OBVIOUS
    <3>2. ~(i <= k) /\ i - k = i /\ i \in 1..k + n
      BY <2>1
    <3> QED BY <1>7, <2>2, <3>2
  <2> QED BY <1>1, <1>3, <1>7, <2>2, <2>3
<1> QED BY <1>4, <1>8, <1>9, <1>10

(* The last message on the line.                                           *)
LEMMA LastOne ==
  ASSUME NEW to \in Seq(MessageSet), to # <<>>, ~(Len(to) > 1)
  PROVE  Len(to) = 1 /\ Head(to) = to[Len(to)] /\ Tail(to) = <<>>
<1>1. Len(to) = 1
  <2>1. PICK n \in Nat \ {0} : n = Len(to)
    BY Tailed
  <2> QED BY <2>1
<1>2. Tail(to) \in Seq(MessageSet) /\ Len(Tail(to)) = 0
  BY <1>1, Tailed
<1> QED BY <1>1, <1>2, Tailed, EmptySeq

(* An answer to the last message is in time when the host waits for it.    *)
LEMMA InTime ==
  ASSUME F9tInv, line.to # <<>>, ~host.late, Waiting, ~(Len(line.to) > 1)
  PROVE  /\ Len(line.to) = 1 /\ Head(line.to) = host.sent[1]
         /\ Tail(line.to) = <<>> /\ line.from = <<>> /\ Judged <= Len(host.acks)
<1>1. line.to \in Seq(MessageSet) /\ Typed
  BY DEF F9tInv, Typed
<1>2. Len(line.to) = 1 /\ Head(line.to) = line.to[Len(line.to)] /\ Tail(line.to) = <<>>
  BY <1>1, LastOne
<1>3. line.from = <<>> /\ line.to[Len(line.to)] = host.sent[1]
  BY DEF F9tInv, Timely
<1>4. ~(Judged > Len(host.acks))
  BY DEF F9tInv, Timely
<1> QED BY <1>1, <1>2, <1>3, <1>4, Counts

(* What the receiver's answer leaves alone.                                *)
LEMMA RespondLeaves ==
  ASSUME F9tInv, line.to # <<>>, plan' = plan, receiver'.model = receiver.model,
         host' = [host EXCEPT !.late = host.late \/ ~Waiting \/ Len(line.to) > 1]
  PROVE  /\ host'.at = host.at /\ host'.sent = host.sent /\ host'.acks = host.acks
         /\ host'.model = host.model
         /\ host' \in [at : HostStates, todo : Seq(MessageSet), sent : Seq(MessageSet), model : ModelSet,
                       acks : Seq(BOOLEAN), late : BOOLEAN]
         /\ host'.late = (host.late \/ ~Waiting \/ Len(line.to) > 1)
         /\ Settings' = Settings /\ Given' = Given /\ Waiting' = Waiting /\ Phased'
<1>1. Typed /\ Phased
  BY DEF F9tInv
<1>2. PICK late \in BOOLEAN : late = (host.late \/ ~Waiting \/ Len(line.to) > 1)
  OBVIOUS
<1>3. host' = [host EXCEPT !.late = late]
  BY <1>2
<1>4. /\ host'.at = host.at /\ host'.sent = host.sent /\ host'.acks = host.acks
      /\ host'.model = host.model /\ host'.todo = host.todo /\ host'.late = late
      /\ host' \in [at : HostStates, todo : Seq(MessageSet), sent : Seq(MessageSet), model : ModelSet,
                    acks : Seq(BOOLEAN), late : BOOLEAN]
  BY <1>1, <1>3 DEF Typed
<1>5. Settings' = Settings /\ Given' = Given /\ Waiting' = Waiting /\ Asked' = Asked
  BY <1>4, Frame DEF Given, Waiting, Asked
<1>6. host.at # "idle"
  <2>1. F9tInit => line.to = <<>>
    <3>1. F9tInit => line = [to |-> <<>>, from |-> <<>>]
      BY DEF F9tInit
    <3>2. [to |-> <<>>, from |-> <<>>].to = <<>>
      OBVIOUS
    <3> QED BY <3>1, <3>2
  <2> QED BY <1>1, <2>1 DEF Phased
<1>7. Phased'
  BY <1>1, <1>4, <1>5, <1>6 DEF Phased
<1> QED BY <1>2, <1>4, <1>5, <1>7

(* A message that is no setting is answered.                               *)
LEMMA OtherInv ==
  ASSUME F9tInv, line.to # <<>>, plan' = plan, receiver' = receiver,
         host' = [host EXCEPT !.late = host.late \/ ~Waiting \/ Len(line.to) > 1],
         NEW types \in Seq(AnswerTypes), Reply(types), ~IsSetting(Head(line.to)),
         \/ Len(types) = 1
         \/ Len(types) = 2 /\ types[1] = "CFG-VALGET" /\ Head(line.to).type \in {"CFG-VALGET", "ONE-VALGET"}
  PROVE  F9tInv'
<1>1. Typed /\ Models /\ line.to \in Seq(MessageSet)
  BY DEF F9tInv, Typed
<1>2. Judged' = Judged /\ Judged \in Nat /\ Given \in Nat
  BY <1>1, Counts DEF Judged
<1>3. Typed' /\ Phased' /\ Models'
  BY <1>1, Replied, RespondLeaves DEF Typed
<1>4. Booked'
  BY <1>1, BookedStays, RespondLeaves DEF F9tInv
<1>5. Ordered'
  <2> DEFINE tight == host.at \in Before \cup {"send"}
  <2>1. tight \in BOOLEAN
    OBVIOUS
  <2>2. Carries(line.to, Settings, Judged, Given, tight)
    BY <2>1 DEF F9tInv, Ordered
  <2>3. \A i \in 1..Given : IsSetting(Settings[i])
    <3>1. Given <= Len(Settings) /\ Len(Settings) = NumSignal + NumOther /\ Len(Settings) \in Nat
      BY <1>1, SettingsFacts, Counts DEF F9tInv, Phased
    <3>2. \A i \in 1..Given : i \in 1..NumSignal + NumOther
      BY <1>2, <3>1
    <3> QED BY <1>1, <3>2, SettingsFacts
  <2>4. Carries(Tail(line.to), Settings, Judged, Given, tight)
    <3> HIDE DEF tight
    <3> QED BY <1>1, <1>2, <2>1, <2>2, <2>3, CarriesPassed
  <2> QED BY <1>1, <1>2, <2>1, <2>4, Replied, RespondLeaves DEF Ordered
<1>6. Timely'
  <2>1. SUFFICES ASSUME ~host'.late PROVE Timely'
    BY DEF Timely
  <2>2. ~host.late /\ Waiting /\ ~(Len(line.to) > 1)
    BY <2>1, RespondLeaves
  <2>3. /\ ~host.late /\ Waiting /\ Head(line.to) = host.sent[1]
        /\ Tail(line.to) = <<>> /\ line.from = <<>> /\ Judged <= Len(host.acks)
    BY <2>2, InTime
  <2>4. line'.to = <<>> /\ Len(line'.from) = Len(types) /\ \A i \in 1..Len(types) : line'.from[i].type = types[i]
    BY <1>1, <2>3, Replied
  <2>5. host'.acks = host.acks /\ host'.sent = host.sent /\ Waiting'
    BY <2>3, RespondLeaves
  <2>6. ~(Judged' > Len(host'.acks))
    BY <1>1, <1>2, <2>3, <2>5, Counts
  <2>7. \/ Len(line'.from) <= 1
        \/ line'.from[1].type = "CFG-VALGET" /\ host'.sent[1].type \in {"CFG-VALGET", "ONE-VALGET"}
    <3>1. CASE Len(types) = 1
      BY <2>4, <3>1
    <3>2. CASE Len(types) = 2 /\ types[1] = "CFG-VALGET" /\ Head(line.to).type \in {"CFG-VALGET", "ONE-VALGET"}
      BY <2>3, <2>4, <2>5, <3>2
    <3> QED BY <3>1, <3>2
  <2> QED BY <1>2, <2>3, <2>4, <2>5, <2>6, <2>7 DEF F9tInv, Timely
<1> QED BY <1>3, <1>4, <1>5, <1>6 DEF F9tInv

(* A setting is judged.                                                    *)
LEMMA JudgedInv ==
  ASSUME F9tInv, line.to # <<>>, plan' = plan, NEW ok \in BOOLEAN, Reply(<<AckOf(ok)>>),
         host' = [host EXCEPT !.late = host.late \/ ~Waiting \/ Len(line.to) > 1],
         IsSetting(Head(line.to)),
         \/ /\ ok = TRUE /\ Accepted(Head(line.to))
            /\ Head(line.to).tx \in {2, 3} => receiver.transaction # {}
         \/ ok = FALSE /\ Refused
  PROVE  F9tInv'
<1>1. Typed /\ Models /\ line.to \in Seq(MessageSet) /\ Head(line.to) \in MessageSet
  BY Tailed DEF F9tInv, Typed
<1>2. /\ receiver' \in [model : ModelSet, alive : BOOLEAN, registers : SUBSET Items,
                        transaction : SUBSET Items, verdicts : Seq(BOOLEAN)]
      /\ receiver'.model = receiver.model /\ receiver'.verdicts = Append(receiver.verdicts, ok)
  <2>1. CASE Accepted(Head(line.to)) /\ ok = TRUE
    <3>1. PICK m \in MessageSet, it \in SUBSET Items, tx \in 0..3 :
            m = Head(line.to) /\ it = m.items /\ tx = m.tx
      BY <1>1 DEF MessageSet
    <3>0. Accepted(m) /\ receiver \in [model : ModelSet, alive : BOOLEAN, registers : SUBSET Items,
                                       transaction : SUBSET Items, verdicts : Seq(BOOLEAN)]
      BY <1>1, <2>1, <3>1 DEF Typed
    <3>2. PICK regs \in SUBSET Items, tr \in SUBSET Items :
            receiver' = [receiver EXCEPT !.verdicts = Append(receiver.verdicts, TRUE), !.registers = regs,
                                         !.transaction = tr]
      <4> DEFINE held == receiver.transaction \cup m.items
                 regs == CASE m.tx = 0 -> receiver.registers \cup m.items
                           [] m.tx = 3 -> receiver.registers \cup held
                           [] OTHER -> receiver.registers
                 tr == IF m.tx \in {1, 2} THEN held ELSE {}
      <4>1. receiver' = [receiver EXCEPT !.verdicts = Append(receiver.verdicts, TRUE), !.registers = regs,
                                         !.transaction = tr]
        BY <3>0 DEF Accepted
      <4>2. receiver.registers \in SUBSET Items /\ held \in SUBSET Items /\ m.items \in SUBSET Items
        BY <3>0, <3>1
      <4>3. regs \in SUBSET Items
        <5>1. CASE m.tx = 0
          BY <4>2, <5>1
        <5>2. CASE m.tx # 0
          BY <4>2, <5>2
        <5> QED BY <5>1, <5>2
      <4>4. tr \in SUBSET Items
        BY <4>2
      <4> HIDE DEF regs, tr
      <4> QED BY <4>1, <4>3, <4>4
    <3>3. Append(receiver.verdicts, TRUE) \in Seq(BOOLEAN)
      BY <1>1 DEF Typed
    <3> QED BY <1>1, <2>1, <3>2, <3>3 DEF Typed
  <2>2. CASE Refused /\ ok = FALSE
    <3>1. Append(receiver.verdicts, FALSE) \in Seq(BOOLEAN)
      BY <1>1 DEF Typed
    <3> QED BY <1>1, <2>2, <3>1 DEF Refused, Typed
  <2> QED BY <2>1, <2>2
<1>3. <<AckOf(ok)>> \in Seq(AnswerTypes) /\ Len(<<AckOf(ok)>>) = 1 /\ <<AckOf(ok)>>[1] = AckOf(ok)
  <2>1. AckOf(ok) \in AnswerTypes
    BY DEF AckOf, AnswerTypes
  <2> QED BY <2>1
<1>4. PICK j \in Nat, g \in Nat, t \in Nat : j = Judged /\ g = Given /\ t = Len(line.to)
  BY <1>1, Counts
<1>5. Judged' = j + 1
  BY <1>1, <1>2, <1>4 DEF Judged, Typed
<1> DEFINE tight == host.at \in Before \cup {"send"}
<1>6. tight \in BOOLEAN
  OBVIOUS
<1>7. /\ j + 1 <= g /\ g <= j + t /\ Head(line.to) = Settings[j + 1]
      /\ Carries(Tail(line.to), Settings, j + 1, g, tight)
  <2>1. Carries(line.to, Settings, j, g, tight)
    BY <1>4, <1>6 DEF F9tInv, Ordered
  <2> HIDE DEF tight
  <2>2. /\ j + 1 <= g /\ g <= j + Len(line.to) /\ Head(line.to) = Settings[j + 1]
        /\ Carries(Tail(line.to), Settings, j + 1, g, tight)
    BY <1>1, <1>6, <2>1, CarriesJudged
  <2> QED BY <1>4, <2>2
<1>8. Typed' /\ Phased' /\ Models'
  BY <1>1, <1>2, <1>3, Replied, RespondLeaves DEF Typed
<1>9. Ordered'
  BY <1>1, <1>2, <1>3, <1>4, <1>5, <1>6, <1>7, Replied, RespondLeaves DEF Ordered
<1>10. Booked'
  <2>1. Judged < Len(Settings)
    <3>1. g <= Len(Settings) /\ Len(Settings) \in Nat
      BY <1>1, <1>4, Counts DEF F9tInv, Phased
    <3> QED BY <1>4, <1>7, <3>1
  <2>2. host'.model = host.model
    BY <1>2, RespondLeaves
  <2>3. CASE Accepted(Head(line.to)) /\ (Head(line.to).tx \in {2, 3} => receiver.transaction # {})
    BY <1>1, <1>4, <1>7, <2>1, <2>2, <2>3, AcceptedBooked DEF F9tInv
  <2>4. CASE Refused
    BY <1>1, <2>2, <2>4, RefusedBooked DEF F9tInv
  <2> QED BY <2>3, <2>4
<1>11. Timely'
  <2>1. SUFFICES ASSUME ~host'.late PROVE Timely'
    BY DEF Timely
  <2>2. ~host.late /\ Waiting /\ ~(Len(line.to) > 1)
    BY <1>2, <2>1, RespondLeaves
  <2>3. /\ ~host.late /\ Waiting /\ t = 1 /\ Head(line.to) = host.sent[1]
        /\ Tail(line.to) = <<>> /\ line.from = <<>> /\ j <= Len(host.acks)
    BY <1>4, <2>2, InTime
  <2>4. line'.to = <<>> /\ Len(line'.from) = 1 /\ line'.from[1].type = AckOf(ok)
    <3>1. line'.to = <<>>
      BY <1>1, <1>2, <1>3, <2>3, Replied
    <3>2. /\ Len(line'.from) = Len(<<AckOf(ok)>>)
          /\ \A i \in 1..Len(<<AckOf(ok)>>) : line'.from[i].type = <<AckOf(ok)>>[i]
      BY <1>1, <1>2, <1>3, <2>3, Replied
    <3> QED BY <1>3, <3>1, <3>2
  <2>5. host'.acks = host.acks /\ host'.sent = host.sent /\ Waiting'
    BY <1>2, <2>3, RespondLeaves
  <2>6. PICK n \in Nat : n = Len(host.acks) /\ g = n + 1 /\ j = n
    BY <1>1, <1>4, <1>7, <2>3, Counts
  <2>7. /\ \A i \in 1..j : receiver'.verdicts[i] = receiver.verdicts[i]
        /\ receiver'.verdicts[j + 1] = ok
    BY <1>1, <1>2, <1>4 DEF Judged, Typed
  <2>8. \A i \in DOMAIN host.acks : host.acks[i] = (i <= j + 1 /\ receiver'.verdicts[i])
    <3>1. SUFFICES ASSUME NEW i \in DOMAIN host.acks
                   PROVE  host.acks[i] = (i <= j + 1 /\ receiver'.verdicts[i])
      OBVIOUS
    <3>2. i \in 1..j
      <4>1. host.acks \in Seq(BOOLEAN)
        BY <1>1 DEF Typed
      <4> QED BY <2>6, <3>1, <4>1, LenProperties
    <3>3. host.acks[i] = (i <= j /\ receiver.verdicts[i])
      BY <1>4, <2>3, <3>1 DEF F9tInv, Timely
    <3>4. i <= j /\ i <= j + 1
      BY <3>2
    <3> QED BY <2>7, <3>2, <3>3, <3>4
  <2>9. IsSetting(host'.sent[1]) /\ Judged' > Len(host'.acks)
    BY <1>5, <2>3, <2>5, <2>6
  <2>10. receiver'.verdicts[Judged'] = ok
    BY <1>5, <2>7
  <2> QED BY <1>5, <2>4, <2>5, <2>8, <2>9, <2>10 DEF Timely
<1> QED BY <1>8, <1>9, <1>10, <1>11 DEF F9tInv

(* The receiver answers a message.                                         *)
LEMMA RespondInv == ASSUME F9tInv, Respond PROVE F9tInv'
<1>1. /\ line.to # <<>> /\ plan' = plan
      /\ host' = [host EXCEPT !.late = host.late \/ ~Waiting \/ Len(line.to) > 1]
  BY DEF Respond
<1>2. ASSUME NEW types \in Seq(AnswerTypes), Reply(types), ~IsSetting(Head(line.to)), receiver' = receiver,
             \/ Len(types) = 1
             \/ /\ Len(types) = 2 /\ types[1] = "CFG-VALGET"
                /\ Head(line.to).type \in {"CFG-VALGET", "ONE-VALGET"}
      PROVE  F9tInv'
  BY <1>1, <1>2, OtherInv
<1>3. CASE /\ Head(line.to).type \in {"MON-VER", "SEC-UNIQID"}
           /\ Reply(<<Head(line.to).type>>) /\ UNCHANGED receiver
  <2>1. PICK t \in AnswerTypes : t = Head(line.to).type
    BY <1>3 DEF AnswerTypes
  <2>2. <<t>> \in Seq(AnswerTypes) /\ Len(<<t>>) = 1 /\ Reply(<<t>>) /\ ~IsSetting(Head(line.to))
    BY <1>3, <2>1 DEF IsSetting
  <2> QED BY <1>2, <1>3, <2>2
<1>4. CASE /\ Head(line.to).type \in {"CFG-VALGET", "ONE-VALGET"}
           /\ Reply(<<"CFG-VALGET", "ACK-ACK">>) \/ Reply(<<"ACK-NAK">>)
           /\ UNCHANGED receiver
  <2>1. /\ <<"CFG-VALGET", "ACK-ACK">> \in Seq(AnswerTypes) /\ Len(<<"CFG-VALGET", "ACK-ACK">>) = 2
        /\ <<"CFG-VALGET", "ACK-ACK">>[1] = "CFG-VALGET"
        /\ <<"ACK-NAK">> \in Seq(AnswerTypes) /\ Len(<<"ACK-NAK">>) = 1
    BY DEF AnswerTypes
  <2>2. ~IsSetting(Head(line.to)) /\ receiver' = receiver
    BY <1>4 DEF IsSetting
  <2> QED BY <1>2, <1>4, <2>1, <2>2
<1>5. CASE /\ Head(line.to).type = "CFG-VALSET"
           /\ Head(line.to).tx \in {2, 3} => receiver.transaction # {}
           /\ Reply(<<"ACK-ACK">>) /\ Accepted(Head(line.to))
  <2>1. Reply(<<AckOf(TRUE)>>) /\ IsSetting(Head(line.to))
    BY <1>5 DEF AckOf, IsSetting
  <2> QED BY <1>1, <1>5, <2>1, JudgedInv
<1>6. CASE Head(line.to).type = "CFG-VALSET" /\ Reply(<<"ACK-NAK">>) /\ Refused
  <2>1. Reply(<<AckOf(FALSE)>>) /\ IsSetting(Head(line.to))
    BY <1>6 DEF AckOf, IsSetting
  <2> QED BY <1>1, <1>6, <2>1, JudgedInv
<1> QED BY <1>3, <1>4, <1>5, <1>6 DEF Respond

-----------------------------------------------------------------------------
(* The invariant, and what follows from it                                 *)

(* Every step keeps the invariant.                                         *)
LEMMA F9tNextInv == F9tInv /\ [F9tNext]_f9t => F9tInv'
<1>1. SUFFICES ASSUME F9tInv, [F9tNext]_f9t PROVE F9tInv'
  OBVIOUS
<1>2. CASE UNCHANGED f9t
  <2>1. plan' = plan /\ host' = host /\ line' = line /\ receiver' = receiver
    BY <1>2 DEF f9t
  <2>2. Settings' = Settings /\ Given' = Given /\ Judged' = Judged /\ Asked' = Asked /\ Waiting' = Waiting
    BY <2>1, Frame DEF Given, Judged, Asked, Waiting
  <2>3. Phased'
    <3>1. F9tInit => F9tInit'
      BY <2>1 DEF F9tInit
    <3> QED BY <1>1, <2>1, <2>2, <3>1 DEF F9tInv, Phased
  <2>4. Typed' /\ Ordered' /\ Timely' /\ Models'
    BY <1>1, <2>1, <2>2 DEF F9tInv, Typed, Ordered, Timely, Models
  <2> QED BY <1>1, <2>1, <2>3, <2>4, BookedStays DEF F9tInv
<1>3. CASE F9tNext
  BY <1>1, <1>3, StartInv, AfterInv, SendInv, ReadInv, TimeOutInv, RespondInv, UnplugInv DEF F9tNext
<1> QED BY <1>1, <1>2, <1>3

(* The receiver has whole groups.                                          *)
LEMMA WholeGroups ==
  ASSUME F9tInv
  PROVE  \A group \in {Signal, Other} : receiver.registers \cap ToSet(group) \in {{}, ToSet(group)}
<1>1. PICK s, o : s = ToSet(Signal) /\ o = ToSet(Other)
  OBVIOUS
<1>2. s \cap o = {}
  BY <1>1, Groups DEF F9tInv, InSignal, InOther
<1>3. receiver.registers \in {{}, s, o, s \cup o}
  BY <1>1 DEF F9tInv, Booked, Wanted
<1>4. receiver.registers \cap s \in {{}, s} /\ receiver.registers \cap o \in {{}, o}
  BY <1>2, <1>3
<1> QED BY <1>1, <1>4

(* When all settings are acknowledged in time, the receiver has them all.  *)
LEMMA AllAcknowledged ==
  ASSUME F9tInv, host.at \in {"verify", "verified", "mismatch"}, FALSE \notin ToSet(host.acks), ~host.late
  PROVE  receiver.registers = Wanted
<1>1. Typed /\ Phased /\ host.acks \in Seq(BOOLEAN) /\ receiver.verdicts \in Seq(BOOLEAN)
  BY DEF F9tInv, Typed
<1>2. PICK n \in Nat, v \in Nat : n = Len(host.acks) /\ v = Judged /\ v <= Given /\ Given \in Nat
  BY <1>1, Counts DEF F9tInv, Ordered, Carries
<1>3. Given = n /\ Given = Len(Settings)
  <2>1. ~(Waiting /\ IsSetting(host.sent[1]))
    BY <1>1, SentFacts
  <2> QED BY <1>1, <1>2, <2>1, Counts DEF Phased
<1>4. \A i \in 1..n : host.acks[i] = TRUE /\ i <= v /\ receiver.verdicts[i]
  <2>1. SUFFICES ASSUME NEW i \in 1..n PROVE host.acks[i] = TRUE /\ i <= v /\ receiver.verdicts[i]
    OBVIOUS
  <2>2. i \in DOMAIN host.acks /\ host.acks[i] \in BOOLEAN
    BY <1>1, <1>2
  <2>3. host.acks[i] = TRUE
    BY <2>2 DEF ToSet
  <2>4. host.acks[i] = (i <= v /\ receiver.verdicts[i])
    BY <1>2, <2>2 DEF F9tInv, Timely
  <2> QED BY <2>3, <2>4
<1>5. v = n
  <2>1. n > 0 => n <= v
    BY <1>4
  <2> QED BY <1>2, <1>3, <2>1
<1>6. FALSE \notin ToSet(receiver.verdicts)
  <2>1. DOMAIN receiver.verdicts = 1..n
    <3>1. Len(receiver.verdicts) = n
      BY <1>2, <1>5 DEF Judged
    <3> QED BY <1>1, <3>1, LenProperties
  <2> QED BY <1>4, <2>1 DEF ToSet
<1>7. receiver.registers = Applied(v) /\ v = NumSignal + NumOther /\ NumSignal \in Nat /\ NumOther \in Nat
  BY <1>1, <1>2, <1>3, <1>5, <1>6, SettingsFacts, GroupSizes DEF F9tInv, Booked
<1>8. v >= NumSignal /\ v >= NumSignal + NumOther
  BY <1>7
<1> QED BY <1>7, <1>8 DEF Applied, Wanted

(* The position the receiver has is the one asked for.                     *)
LEMMA PositionKept ==
  ASSUME F9tInv, NEW high \in receiver.registers, NEW low \in receiver.registers,
         high[1] = "TMODE_LAT", low[1] = "TMODE_LAT_HP"
  PROVE  <<high[2] * 100 + low[2]>> = plan.position /\ low[2] \in 0..99
<1>1. receiver.registers \subseteq ToSet(Signal) \cup ToSet(Other)
  BY DEF F9tInv, Booked, Wanted
<1>2. InOther(high) /\ InOther(low)
  <2>1. ~InSignal(high) /\ ~InSignal(low)
    BY DEF InSignal
  <2> QED BY <1>1, <2>1, Groups DEF F9tInv
<1>3. plan.position # <<>> /\ high[2] = plan.position[1] \div 100 /\ low[2] = plan.position[1] % 100
  BY <1>2 DEF InOther
<1>4. PICK s \in Seq(Int) : s = plan.position /\ s # <<>> /\ Len(s) <= 1
  BY <1>3 DEF F9tInv, Typed, PlanSet
<1>5. s[1] \in Int /\ s = <<s[1]>>
  <2>1. PICK n \in Nat : n = Len(s) /\ DOMAIN s = 1..n /\ n <= 1
    BY <1>4, LenProperties
  <2>2. n # 0
    BY <1>4, <2>1, EmptySeq
  <2>3. n = 1
    BY <2>1, <2>2
  <2> QED BY <1>4, <2>1, <2>3
<1>6. PICK x \in Int : x = s[1]
  BY <1>5
<1>7. (x \div 100) * 100 + (x % 100) = x /\ x % 100 \in 0..99
  OBVIOUS
<1> QED BY <1>3, <1>4, <1>5, <1>6, <1>7

(* What the invariant means for the receiver.                              *)
LEMMA F9tInvConfigTrue == F9tInv => ConfigTrue
<1>1. SUFFICES ASSUME F9tInv PROVE ConfigTrue
  OBVIOUS
<1>2. Typed /\ Phased
  BY <1>1 DEF F9tInv
<1>3. ~host.late =>
        \A i \in DOMAIN host.acks : host.acks[i] = (i <= Len(receiver.verdicts) /\ receiver.verdicts[i])
  BY <1>1 DEF F9tInv, Timely, Judged
<1>4. plan.dry_run \/ plan.probe_only => receiver.verdicts = <<>>
  <2>1. SUFFICES ASSUME plan.dry_run \/ plan.probe_only PROVE receiver.verdicts = <<>>
    OBVIOUS
  <2>2. ~(Given > 0) /\ Judged <= Given /\ Given \in Nat /\ Judged \in Nat
    BY <1>1, <1>2, <2>1, Counts DEF Phased, F9tInv, Ordered, Carries
  <2>3. receiver.verdicts \in Seq(BOOLEAN) /\ Len(receiver.verdicts) = 0
    <3>1. Judged = 0
      BY <2>2
    <3> QED BY <1>2, <3>1 DEF Judged, Typed
  <2> QED BY <2>3, EmptySeq
<1>5. (\E item \in receiver.registers : item[1] = "TMODE_MODE") => receiver.model = "ZED-F9T"
  <2>1. SUFFICES ASSUME NEW item \in receiver.registers, item[1] = "TMODE_MODE"
                 PROVE  receiver.model = "ZED-F9T"
    OBVIOUS
  <2>2. receiver.registers \subseteq ToSet(Signal) \cup ToSet(Other)
    BY <1>1 DEF F9tInv, Booked, Wanted
  <2>3. ~InSignal(item)
    BY <2>1 DEF InSignal
  <2>4. host.model = "ZED-F9T"
    BY <1>2, <2>1, <2>2, <2>3, Groups DEF InOther
  <2> QED BY <1>2, <2>4 DEF Phased
<1> QED BY <1>1, <1>3, <1>4, <1>5, WholeGroups, AllAcknowledged, PositionKept DEF ConfigTrue

(* Whatever is planned, lost, refused or answered late, the messages carry *)
(* the settings in order, transactions hold what their messages carried,   *)
(* and as long as no answer is late each is that to the message sent.      *)
THEOREM ReceiverInvariant == F9tSpec => []F9tInv
<1>1. F9tInit => F9tInv
  BY F9tInitHolds
<1> QED BY <1>1, F9tNextInv, PTL DEF F9tSpec

(* The receiver has all of a group of settings or none; when all messages  *)
(* are acknowledged in time it has every setting and the position asked    *)
(* for; each acknowledgement in time is the verdict on its message; a plan *)
(* that is only printed or probed changes nothing (conf_gnss.py).          *)
THEOREM ReceiverConfigured == F9tSpec => []ConfigTrue
BY ReceiverInvariant, F9tInvConfigTrue, PTL
=============================================================================
