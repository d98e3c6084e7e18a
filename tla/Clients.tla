------------------------------ MODULE Clients ------------------------------
(***************************************************************************)
(* The client classes: one client object, of a class chosen in Init, from  *)
(* its construction to the close of its channel, with servers that go down *)
(* (connections are refused) or silent (the host or the network is gone),  *)
(* come back, and work on a request also after the client has given up.    *)
(*                                                                         *)
(* Abstract: what a method asks and returns (a method is its default       *)
(* deadline, whether it changes anything on the server, and what it makes  *)
(* of a reply), log lines, the texts of errors and their subclasses.  A    *)
(* caller makes one call at a time and leaves timeout and wait_for_ready   *)
(* at their defaults; it makes calls or reads a stream.  A client          *)
(* talks to Target only; the UbloxControl clients have a channel to each   *)
(* of several hosts.  A stream starts anew at its first message; what the  *)
(* transport or capture_ublox() has received waits in one queue.           *)
(***************************************************************************)
EXTENDS Integers, Sequences, FiniteSets, SequencesExt

CONSTANTS
  Hosts,
  Target,       (* the host of a client that has only one                  *)
  MaxAttempts,  (* maxAttempts of the retry policy: 3                      *)
  MaxCalls,     (* bound: calls made                                       *)
  MaxFaults,    (* bound: hosts that go down or silent                     *)
  MaxItems      (* bound: messages of a stream                             *)

ASSUME ClientsAssumption ==
  /\ IsFiniteSet(Hosts) /\ Target \in Hosts
  /\ MaxAttempts \in Nat \ {0}
  /\ {MaxCalls, MaxFaults, MaxItems} \subseteq Nat

-----------------------------------------------------------------------------
(* The classes: whether the channel repeats calls that end with            *)
(* UNAVAILABLE, whether it probes a silent connection, whether it is       *)
(* opened by the constructor or by a with statement, whether the class     *)
(* turns RpcError into PanosetiRpcError.                                   *)
Class(name, retries, keepalive, context, wraps) ==
  [name |-> name, retries |-> retries, keepalive |-> keepalive,
   context |-> context, wraps |-> wraps]

(* Mutation: no keepalive.                                                 *)
NoKeepaliveOptions == FALSE
KeepaliveOptions == TRUE

AsyncDaqControlClient == Class("AsyncDaqControlClient", TRUE, KeepaliveOptions, TRUE, TRUE)

(* Mutation: the blocking client has the retry policy, too.                *)
RetryingDaqControlClient == Class("DaqControlClient", TRUE, FALSE, FALSE, TRUE)
DaqControlClient == Class("DaqControlClient", FALSE, FALSE, FALSE, TRUE)

AioDaqDataClient == Class("AioDaqDataClient", TRUE, KeepaliveOptions, TRUE, TRUE)
DaqDataClient == Class("DaqDataClient", FALSE, KeepaliveOptions, TRUE, TRUE)
AioMLInferenceClient == Class("AioMLInferenceClient", FALSE, FALSE, TRUE, FALSE)
MLInferenceClient == Class("MLInferenceClient", FALSE, FALSE, TRUE, FALSE)
TelemetryClient == Class("TelemetryClient", FALSE, KeepaliveOptions, FALSE, TRUE)
AioUbloxControlClient == Class("AioUbloxControlClient", FALSE, FALSE, TRUE, FALSE)
UbloxControlClient == Class("UbloxControlClient", FALSE, FALSE, TRUE, FALSE)

DaqControls == {AsyncDaqControlClient, DaqControlClient}
DaqDatas == {AioDaqDataClient, DaqDataClient}
MLs == {AioMLInferenceClient, MLInferenceClient}
Ubloxes == {AioUbloxControlClient, UbloxControlClient}

(* The methods.  reply: "raise" turns a reply without success into a       *)
(* ValueError, "bool" returns success, "value" returns the reply whatever  *)
(* it says, "check" turns every RpcError into False.                       *)
Method(deadline, effect, reply) == [deadline |-> deadline, effect |-> effect, reply |-> reply]

(* StartDaq; StopDaq, which has 30 s; StatusDaq.                           *)
RunMethods == {Method(FALSE, TRUE, "raise"), Method(TRUE, TRUE, "raise"), Method(FALSE, FALSE, "raise")}
(* CleanupData, GenerateManifest                                           *)
DataMethods == {Method(FALSE, TRUE, "value")}
(* GetTransferStatus, GetManifestDigest, RetryFailedTransfer               *)
TransferMethods == {Method(FALSE, FALSE, "value")}
BlockingMethods == RunMethods \cup DataMethods \cup TransferMethods
(* status, with 5 s                                                        *)
StatusMethod == Method(TRUE, FALSE, "value")
(* init_hp_io, with 10 s; init_sim, which calls it with 5 s.               *)
InitHpIo == Method(TRUE, TRUE, "bool")
BlockingInitHpIo == Method(TRUE, TRUE, "bool")
(* emit_prediction, with 10 s                                              *)
EmitPrediction == Method(TRUE, TRUE, "value")
BlockingEmitPrediction == Method(TRUE, TRUE, "value")
(* log_flexible, log_test, log_strict                                      *)
Send == Method(FALSE, TRUE, "raise")
(* ping(): HealthClient.check on a channel of its own, with 5 s.           *)
Check == Method(TRUE, FALSE, "check")

MethodsOf(c) ==
  CASE c = AsyncDaqControlClient -> RunMethods \cup DataMethods \cup TransferMethods
    [] c = DaqControlClient -> BlockingMethods
    [] c = AioDaqDataClient -> {StatusMethod, InitHpIo, Check}
    [] c = DaqDataClient -> {StatusMethod, BlockingInitHpIo, Check}
    [] c = AioMLInferenceClient -> {EmitPrediction}
    [] c = MLInferenceClient -> {BlockingEmitPrediction}
    [] c = TelemetryClient -> {Send}
    [] OTHER -> {}

(* Streams: whether they have a deadline, and what an RpcError does to     *)
(* who reads: it is raised, or it ends the stream.                         *)
StreamMethod(deadline, error) == [deadline |-> deadline, error |-> error]

GetManifest == StreamMethod(FALSE, "raise")
BlockingGetManifest == StreamMethod(FALSE, "raise")
(* stream_images, with 36,000 s                                            *)
StreamImages == StreamMethod(TRUE, "raise")
BlockingStreamImages == StreamMethod(TRUE, "raise")
(* stream_predictions, subscribe_alerts                                    *)
Subscriptions == StreamMethod(FALSE, "raise")
BlockingSubscriptions == StreamMethod(FALSE, "raise")
CaptureUblox == StreamMethod(FALSE, "end")

StreamOf(c) ==
  CASE c = AsyncDaqControlClient -> GetManifest
    [] c = DaqControlClient -> BlockingGetManifest
    [] c = AioDaqDataClient -> StreamImages
    [] c = DaqDataClient -> BlockingStreamImages
    [] c = AioMLInferenceClient -> Subscriptions
    [] c = MLInferenceClient -> BlockingSubscriptions
    [] OTHER -> CaptureUblox

VARIABLES
  client,   (* the class of the client                                     *)
  phase,    (* new, open, closed                                           *)
  valid,    (* the hosts it has a channel to (valid_hosts)                 *)
  reach,    (* per host: up, down, silent                                  *)
  faults,
  call,     (* its number, method, attempt n, where it is (sent, broken,   *)
            (* backoff, ended), the answer on its way and its outcome      *)
  served,   (* the attempts <<call, n>> servers work on                    *)
  done,     (* numbers of the calls whose operation was carried out        *)
  stream,   (* per host: none, open, broken or over; attempt; messages     *)
  labels,   (* per host: the host its messages are said to be from         *)
  queue,    (* what is there for the reader                                *)
  reader,   (* none, reading, ended, raised, left; the sentinels it saw    *)
  yielded,  (* per label, the messages the caller got                      *)
  stop      (* _stop_event of AioUbloxControlClient                        *)

servers == <<reach, faults>>
unary == <<call, served, done>>
streams == <<stream, labels, queue, reader, yielded, stop>>
vars == <<client, phase, valid, servers, unary, streams>>

Ended == [end |-> "ok"]       (* a stream ended, or None in the queue *)
Failed == [end |-> "error"]   (* reading goes on with an RpcError     *)
Idle == [id |-> 0, method |-> Check, n |-> 0, at |-> "ended", answer |-> "none", outcome |-> "none"]
NoStream == [at |-> "none", n |-> 0, got |-> 0]

Init ==
  /\ client \in DaqControls \cup DaqDatas \cup MLs \cup Ubloxes \cup {TelemetryClient}
  /\ phase = IF client.context THEN "new" ELSE "open"
  /\ valid = IF client.context THEN {} ELSE {Target}
  /\ reach = [h \in Hosts |-> "up"] /\ faults = 0
  /\ call = Idle /\ served = {} /\ done = {}
  /\ stream = [h \in Hosts |-> NoStream]
  /\ labels = [h \in Hosts |-> h]
  /\ queue = <<>>
  /\ reader = [at |-> "none", finished |-> 0]
  /\ yielded = [h \in Hosts |-> <<>>]
  /\ stop = FALSE

Running == {h \in Hosts : stream[h].at \in {"open", "broken"}}

(* finally: await queue.put(None), here of n streams.                      *)
(* Mutation: only where the stream ended well.                             *)
SentinelsOnSuccess(n, failed) == IF failed THEN <<>> ELSE [i \in 1..n |-> Ended]
Sentinels(n, failed) == [i \in 1..n |-> Ended]

(* How the end of n streams reaches the reader.                            *)
EndMarks(n, failed) ==
  IF client = AioUbloxControlClient THEN Sentinels(n, failed)
  ELSE [i \in 1..n |-> IF failed /\ StreamOf(client).error = "raise" THEN Failed ELSE Ended]

CancelStreams ==
  /\ stream' = [h \in Hosts |-> IF h \in Running THEN [stream[h] EXCEPT !.at = "over"] ELSE stream[h]]
  /\ queue' = queue \o EndMarks(Cardinality(Running), TRUE)

-----------------------------------------------------------------------------
(* The channel                                                             *)

(* A single-target channel connects when it is used.                       *)
Enter ==
  /\ phase = "new" /\ client \notin Ubloxes
  /\ phase' = "open"
  /\ valid' = {Target}
  /\ UNCHANGED <<client, servers, unary, streams>>

(* Each host has 1 s to connect; the others go without it.                 *)
EnterHosts ==
  /\ phase = "new" /\ client \in Ubloxes
  /\ phase' = "open"
  /\ valid' \in SUBSET {h \in Hosts : reach[h] = "up"}
  /\ UNCHANGED <<client, servers, unary, streams>>

(* What is under way is cancelled with its channel.  TelemetryClient has   *)
(* no close().                                                             *)
Exit ==
  /\ phase = "open" /\ client # TelemetryClient
  /\ phase' = "closed"
  /\ call' = IF call.at = "ended" THEN call ELSE [call EXCEPT !.at = "ended", !.outcome = "cancelled"]
  /\ CancelStreams
  /\ UNCHANGED <<client, valid, servers, served, done, labels, reader, yielded, stop>>

-----------------------------------------------------------------------------
(* The servers                                                             *)

(* Connections to a host that goes down break, those to a silent one stay. *)
Lose(h, how) ==
  /\ reach[h] = "up" /\ faults < MaxFaults
  /\ reach' = [reach EXCEPT ![h] = how] /\ faults' = faults + 1
  /\ call' = IF how = "down" /\ h = Target /\ call.at = "sent" THEN [call EXCEPT !.at = "broken"] ELSE call
  /\ stream' = IF how = "down" /\ stream[h].at = "open" THEN [stream EXCEPT ![h].at = "broken"] ELSE stream
  /\ UNCHANGED <<client, phase, valid, served, done, labels, queue, reader, yielded, stop>>

Return(h) ==
  /\ reach[h] # "up"
  /\ reach' = [reach EXCEPT ![h] = "up"]
  /\ UNCHANGED <<client, phase, valid, faults, unary, streams>>

(* The server completes an attempt, which may be one the client no longer  *)
(* waits for.  A reply without success says nothing of what was done:      *)
(* StartDaq may have started a process whose pid a StopDaq has reset,      *)
(* StopDaq stopped and CleanupData deleted a part.                         *)
Execute(a, ok) ==
  /\ a \in served
  /\ served' = served \ {a}
  /\ \/ done' = done \cup {a[1]}
     \/ ~ok /\ done' = done
  /\ call' = IF a = <<call.id, call.n>> /\ call.at = "sent"
             THEN [call EXCEPT !.answer = IF ok THEN "ok" ELSE "no"] ELSE call
  /\ UNCHANGED <<client, phase, valid, servers, streams>>

(* The handler of an attempt that lost its client is cancelled.            *)
Drop(a) ==
  /\ a \in served /\ ~(a = <<call.id, call.n>> /\ call.at = "sent")
  /\ served' = served \ {a}
  /\ UNCHANGED <<client, phase, valid, servers, call, done, streams>>

-----------------------------------------------------------------------------
(* Unary calls                                                             *)

Free == call.at = "ended" /\ call.id < MaxCalls /\ reader.at = "none"

NewCall(m, at, outcome) ==
  call' = [id |-> call.id + 1, method |-> m, n |-> 1, at |-> at, answer |-> "none", outcome |-> outcome]

Invoke(m) ==
  /\ Free /\ phase = "open" /\ m \in MethodsOf(client)
  /\ NewCall(m, "sent", "none")
  /\ UNCHANGED <<client, phase, valid, servers, served, done, streams>>

(* Parameters the models refuse, or a call before the channel is open or   *)
(* after it is closed: an exception, and nothing is sent.                  *)
Misuse(m) ==
  /\ Free /\ m \in MethodsOf(client)
  /\ NewCall(m, "ended", "misuse")
  /\ UNCHANGED <<client, phase, valid, servers, served, done, streams>>

(* ping() only asks for the state of the channel: a silent host has not    *)
(* changed it.                                                             *)
Ping(h) ==
  /\ client \in Ubloxes /\ Free /\ phase = "open"
  /\ NewCall(Check, "ended", IF h \in valid /\ reach[h] # "down" THEN "done" ELSE "False")
  /\ UNCHANGED <<client, phase, valid, servers, served, done, streams>>

(* init_f9t() gives the request a field it does not have (f9t_cfg for      *)
(* f9t_config): building it raises for the first valid host.               *)
InitF9t(asked) ==
  /\ client = AioUbloxControlClient /\ Free
  /\ NewCall(Method(TRUE, TRUE, "bool"), "ended", IF asked \cap valid = {} THEN "False" ELSE "misuse")
  /\ UNCHANGED <<client, phase, valid, servers, served, done, streams>>

(* Without a valid host the blocking client returns all([]).               *)
BlockingInitF9t(asked) ==
  /\ client = UbloxControlClient /\ Free
  /\ NewCall(Method(TRUE, TRUE, "bool"), "ended", IF asked \cap valid = {} THEN "done" ELSE "misuse")
  /\ UNCHANGED <<client, phase, valid, servers, served, done, streams>>

(* The attempt reaches the server.                                         *)
Take ==
  /\ call.at = "sent" /\ reach[Target] = "up" /\ call.answer = "none"
  /\ <<call.id, call.n>> \notin served
  /\ served' = served \cup {<<call.id, call.n>>}
  /\ UNCHANGED <<client, phase, valid, servers, call, done, streams>>

(* What the method makes of the reply, and grpc_call() of an RpcError.     *)
Outcome(m, answer) ==
  IF answer = "ok" THEN "done"
  ELSE CASE m.reply = "raise" -> "ValueError"
         [] m.reply = "value" -> "reply"
         [] OTHER -> "False"

ErrorOutcome == IF client.wraps THEN "PanosetiRpcError" ELSE "RpcError"

FailedCall == IF call.method.reply = "check" THEN "False" ELSE ErrorOutcome

End(outcome) == call' = [call EXCEPT !.at = "ended", !.outcome = outcome]

Deliver ==
  /\ call.at = "sent" /\ call.answer # "none" /\ reach[Target] = "up"
  /\ End(Outcome(call.method, call.answer))
  /\ UNCHANGED <<client, phase, valid, servers, served, done, streams>>

(* The connection is refused or broken, or has not answered a keepalive    *)
(* probe.                                                                  *)
Lost(h, at) ==
  \/ at = "broken"
  \/ reach[h] = "down"
  \/ reach[h] = "silent" /\ client.keepalive

(* build_retry_service_config: maxAttempts counts the first attempt.       *)
MayRetry(n) == client.retries /\ n < MaxAttempts

(* UNAVAILABLE: the retry policy or the end of the call.                   *)
Fail ==
  /\ call.at \in {"sent", "broken"} /\ Lost(Target, call.at)
  /\ IF MayRetry(call.n)
     THEN call' = [call EXCEPT !.at = "backoff", !.answer = "none"]
     ELSE End(FailedCall)
  /\ UNCHANGED <<client, phase, valid, servers, served, done, streams>>

Retry ==
  /\ call.at = "backoff"
  /\ call' = [call EXCEPT !.at = "sent", !.n = @ + 1]
  /\ UNCHANGED <<client, phase, valid, servers, served, done, streams>>

Deadline ==
  /\ call.at # "ended" /\ call.method.deadline
  /\ End(FailedCall)
  /\ UNCHANGED <<client, phase, valid, servers, served, done, streams>>

-----------------------------------------------------------------------------
(* Streams                                                                 *)

(* A stream from one host; capture_ublox() raises ConnectionError for one  *)
(* that is not valid.                                                      *)
OpenStream(h) ==
  /\ phase = "open" /\ reader.at = "none" /\ call.id = 0
  /\ client \notin {TelemetryClient, AioUbloxControlClient}
  /\ client # UbloxControlClient => h \in valid
  /\ IF h \in valid
     THEN /\ stream' = [stream EXCEPT ![h] = [at |-> "open", n |-> 1, got |-> 0]]
          /\ reader' = [reader EXCEPT !.at = "reading"]
     ELSE /\ reader' = [reader EXCEPT !.at = "raised"]
          /\ UNCHANGED stream
  /\ UNCHANGED <<client, phase, valid, servers, unary, labels, queue, yielded, stop>>

(* zip() pairs the n-th stream, opened for the n-th valid host, with the   *)
(* n-th of all the hosts that were asked for.                              *)
(* Mutation: the label is looked up when the message arrives.              *)
LateLabels(asked) == [h \in Hosts |-> asked[Len(asked)]]
Place(asked, h) == CHOOSE p \in DOMAIN asked : asked[p] = h
Labels(asked) ==
  [h \in Hosts |-> IF h \in ToSet(asked) \cap valid
                   THEN asked[Cardinality({i \in 1..Place(asked, h) : asked[i] \in valid})] ELSE h]

OpenStreams(asked) ==
  /\ client = AioUbloxControlClient /\ phase = "open" /\ reader.at = "none" /\ call.id = 0
  /\ labels' = Labels(asked)
  /\ stream' = [h \in Hosts |-> IF h \in ToSet(asked) \cap valid
                                THEN [at |-> "open", n |-> 1, got |-> 0] ELSE NoStream]
  /\ reader' = [reader EXCEPT !.at = IF ToSet(asked) \cap valid = {} THEN "ended" ELSE "reading"]
  /\ UNCHANGED <<client, phase, valid, servers, unary, queue, yielded, stop>>

(* A message arrives; _forward() puts it with its label.                   *)
Receive(h) ==
  /\ stream[h].at = "open" /\ reach[h] = "up" /\ stream[h].got < MaxItems
  /\ stream' = [stream EXCEPT ![h].got = @ + 1]
  /\ queue' = Append(queue, [label |-> labels[h], from |-> h, k |-> stream[h].got + 1])
  /\ UNCHANGED <<client, phase, valid, servers, unary, labels, reader, yielded, stop>>

Over(h, failed) ==
  /\ stream' = [stream EXCEPT ![h].at = "over"]
  /\ queue' = queue \o EndMarks(1, failed)

(* The server ends the stream, with or without an error.                   *)
Finish(h, failed) ==
  /\ stream[h].at = "open" /\ reach[h] = "up"
  /\ Over(h, failed)
  /\ UNCHANGED <<client, phase, valid, servers, unary, labels, reader, yielded, stop>>

(* A stream is only tried again while it has brought nothing.              *)
Break(h) ==
  /\ stream[h].at \in {"open", "broken"} /\ Lost(h, stream[h].at)
  /\ IF stream[h].got = 0 /\ MayRetry(stream[h].n)
     THEN /\ stream' = [stream EXCEPT ![h].at = "open", ![h].n = @ + 1]
          /\ UNCHANGED queue
     ELSE Over(h, TRUE)
  /\ UNCHANGED <<client, phase, valid, servers, unary, labels, reader, yielded, stop>>

StreamDeadline(h) ==
  /\ StreamOf(client).deadline /\ stream[h].at \in {"open", "broken"}
  /\ Over(h, TRUE)
  /\ UNCHANGED <<client, phase, valid, servers, unary, labels, reader, yielded, stop>>

(* capture_ublox() reads until it has seen a sentinel of every task.       *)
Tasks == {h \in Hosts : stream[h].at # "none"}

Read ==
  /\ reader.at = "reading" /\ queue # <<>> /\ ~stop
  /\ queue' = Tail(queue)
  /\ LET item == Head(queue) IN
     IF item = Ended
     THEN /\ reader' = [at |-> IF reader.finished + 1 = Cardinality(Tasks) THEN "ended" ELSE "reading",
                        finished |-> reader.finished + 1]
          /\ UNCHANGED yielded
     ELSE IF item = Failed
     THEN reader' = [reader EXCEPT !.at = "raised"] /\ UNCHANGED yielded
     ELSE /\ yielded' = [yielded EXCEPT ![item.label] = Append(@, [from |-> item.from, k |-> item.k])]
          /\ UNCHANGED reader
  /\ UNCHANGED <<client, phase, valid, servers, unary, stream, labels, stop>>

SetStop ==
  /\ client = AioUbloxControlClient /\ reader.at = "reading" /\ ~stop
  /\ stop' = TRUE
  /\ UNCHANGED <<client, phase, valid, servers, unary, stream, labels, queue, reader, yielded>>

(* The event is looked at at least every second.                           *)
Stopped ==
  /\ stop /\ reader.at = "reading"
  /\ reader' = [reader EXCEPT !.at = "ended"]
  /\ CancelStreams
  /\ UNCHANGED <<client, phase, valid, servers, unary, labels, yielded, stop>>

(* The caller leaves the loop: the call goes with its iterator, but the    *)
(* tasks of capture_ublox() go on until the channels are closed.           *)
Leave ==
  /\ reader.at = "reading"
  /\ reader' = [reader EXCEPT !.at = "left"]
  /\ IF client = AioUbloxControlClient THEN UNCHANGED <<stream, queue>> ELSE CancelStreams
  /\ UNCHANGED <<client, phase, valid, servers, unary, labels, yielded, stop>>

-----------------------------------------------------------------------------
Unary ==
  \/ \E m \in MethodsOf(client) : Invoke(m) \/ Misuse(m)
  \/ \E h \in Hosts : Ping(h)
  \/ \E asked \in SUBSET Hosts \ {{}} : InitF9t(asked) \/ BlockingInitF9t(asked)
  \/ Take \/ Deliver \/ Fail \/ Retry \/ Deadline

Streaming ==
  \/ \E h \in Hosts : OpenStream(h) \/ Receive(h) \/ Break(h) \/ StreamDeadline(h)
  \/ \E h \in Hosts, failed \in BOOLEAN : Finish(h, failed)
  \/ \E S \in SUBSET Hosts \ {{}} : \E asked \in SetToSeqs(S) : OpenStreams(asked)
  \/ Read \/ SetStop \/ Stopped \/ Leave

Next ==
  \/ Enter \/ EnterHosts \/ Exit
  \/ \E h \in Hosts : Lose(h, "down") \/ Lose(h, "silent") \/ Return(h)
  \/ \E a \in served : Drop(a) \/ Execute(a, TRUE) \/ Execute(a, FALSE)
  \/ Unary \/ Streaming

Spec == Init /\ [][Next]_vars

(* A request that arrives is worked on to its end; grpc notices a broken   *)
(* connection, probes one if asked to, repeats a call after the backoff    *)
(* and keeps deadlines; a caller that reads goes on reading.               *)
Fairness ==
  /\ WF_vars(Take) /\ WF_vars(\E a \in served, ok \in BOOLEAN : Execute(a, ok)) /\ WF_vars(Deliver)
  /\ WF_vars(Fail) /\ WF_vars(Retry) /\ WF_vars(Deadline)
  /\ \A h \in Hosts : WF_vars(Break(h))
  /\ WF_vars(Read) /\ WF_vars(Stopped)

FairSpec == Spec /\ Fairness

-----------------------------------------------------------------------------
(* Every variable keeps its type.                                          *)
TypeOK ==
  /\ phase \in {"new", "open", "closed"} /\ valid \subseteq Hosts
  /\ reach \in [Hosts -> {"up", "down", "silent"}] /\ faults \in 0..MaxFaults
  /\ call.id \in 0..MaxCalls /\ call.n \in 0..MaxAttempts
  /\ call.at \in {"sent", "broken", "backoff", "ended"}
  /\ served \subseteq (1..MaxCalls) \X (1..MaxAttempts) /\ done \subseteq 1..MaxCalls
  /\ \A h \in Hosts : stream[h].n \in 0..MaxAttempts /\ stream[h].got \in 0..MaxItems
  /\ reader.finished \in 0..Cardinality(Hosts) /\ stop \in BOOLEAN

(* What a caller is told is true of the server: a call that returned       *)
(* success was carried out; and when a client that sends every request     *)
(* once has a reply, with or without success, the server has finished with *)
(* the call, so that nothing of it happens behind the caller's back later  *)
(* on.  A repeated request may be answered while its first attempt is      *)
(* still at work, and an error says neither.                               *)
Replied == call.outcome \in {"done", "ValueError", "False", "reply"}
SendsOnce == client.name \notin {"AsyncDaqControlClient", "AioDaqDataClient"}
AnswersHonest ==
  call.at = "ended" /\ call.method.effect /\ client \notin Ubloxes =>
    /\ call.outcome = "done" => call.id \in done
    /\ Replied /\ SendsOnce => \A a \in served : a[1] # call.id

(* The streams of several hosts are merged without mixing them up: when    *)
(* every host is connected, what is said to be from a host is what that    *)
(* host sent, from its first message, in its order, with none missing.     *)
MergeFaithful ==
  client.name = "AioUbloxControlClient" /\ valid = Hosts =>
    \A h \in Hosts : \A i \in 1..Len(yielded[h]) : yielded[h][i] = [from |-> h, k |-> i]

(* A call with a deadline or on a channel with keepalive returns whatever  *)
(* becomes of the server.  The methods of the blocking DaqControlClient    *)
(* that have no timeout may wait for ever for a silent node.               *)
CallsReturn ==
  (call.at # "ended" /\ (call.method.deadline \/ client.name # "DaqControlClient")) ~> call.at = "ended"

(* A reader learns that its streams have ended, however they ended.        *)
StreamsEnd ==
  (reader.at = "reading" /\ (stop \/ Running = {})) ~> reader.at # "reading"
=============================================================================
