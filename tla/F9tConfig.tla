------------------------------ MODULE F9tConfig ------------------------------
(***************************************************************************)
(* The conversation with the GNSS receiver that configures it: main() of   *)
(* ublox_control/initialize/conf_gnss.py, and the same steps as InitF9t of *)
(* the server takes them.  Host and receiver exchange messages over a      *)
(* serial line; the host waits a limited time for each answer and goes on  *)
(* without it, so that an answer may arrive while another is expected.     *)
(*                                                                         *)
(* A register is an item <<name, value>>; names are those of its group.    *)
(* Formatting, the CSV of register descriptions and the layers' bits are   *)
(* left out.  The receiver is external, as the code expects it.            *)
(***************************************************************************)
EXTENDS Integers, Sequences, FiniteSets, SequencesExt

CONSTANTS
  ChunkSize,  (* keys of one CFG-VALSET or CFG-VALGET message: 64          *)
  Plans       (* bound: what is asked for                                  *)

(* InitF9t has no flags.                                                   *)
ASSUME F9tAssumption ==
  /\ ChunkSize \in Nat \ {0}
  /\ \A p \in Plans :
       /\ p \in [bad : {"no", "settings", "position"}, signal : Nat, other : Nat, position : Seq(Int),
                verbose : BOOLEAN, probe_only : BOOLEAN, dry_run : BOOLEAN, server : BOOLEAN]
       /\ Len(p.position) <= 1
       /\ p.server => ~p.probe_only /\ ~p.dry_run

VARIABLES
  plan,      (* bad: no, or the part that cannot be used; number of CFG_SIGNAL and other *)
             (* settings; position or <<>>; flags; server: asked for by InitF9t          *)
  host,      (* where it is, messages to send, the one sent, model, acks, late answers   *)
  line,      (* the messages to the receiver and its answers               *)
  receiver   (* model, alive, registers, the open transaction, its verdicts on CFG-VALSET *)

f9t == <<plan, host, line, receiver>>

NoPlan == [bad |-> "no", signal |-> 0, other |-> 0, position |-> <<>>, verbose |-> FALSE,
           probe_only |-> FALSE, dry_run |-> FALSE, server |-> FALSE]
Waiting == host.sent # <<>>
Phases == {"model", "uid", "before", "probe", "send", "verify"}

F9tInit ==
  /\ plan = NoPlan
  /\ host = [at |-> "idle", todo |-> <<>>, sent |-> <<>>, model |-> "", acks |-> <<>>, late |-> FALSE]
  /\ line = [to |-> <<>>, from |-> <<>>]
  /\ receiver = [model |-> "", alive |-> TRUE, registers |-> {}, transaction |-> {}, verdicts |-> <<>>]

-----------------------------------------------------------------------------
(* The settings and the messages that carry them                           *)

(* 1e-9 degrees as 1e-7 degrees and the rest, which is never negative.     *)
SplitScaled(total) == [int |-> total \div 100, hp |-> total % 100]

Tmode(position) ==
  IF position = <<>> \/ host.model # "ZED-F9T" THEN <<>>
  ELSE LET split == SplitScaled(position[1])
       IN  <<<<"TMODE_MODE", 2>>, <<"TMODE_LAT", split.int>>, <<"TMODE_LAT_HP", split.hp>>>>

(* _order_other: the position goes first.                                  *)
Signal == [i \in 1..plan.signal |-> <<"SIGNAL", i>>]
Other == Tmode(plan.position) \o [i \in 1..plan.other |-> <<"OTHER", i>>]

(* Mutation: a group that fills its messages is never committed.           *)
TransactionUncommitted(n, i) ==
  CASE n <= ChunkSize -> 0
    [] n > ChunkSize /\ i = 1 -> 1
    [] n > ChunkSize /\ i > 1 -> IF i * ChunkSize > n THEN 3 ELSE 2

(* None; start, continue, commit.                                          *)
Transaction(n, i) ==
  CASE n <= ChunkSize -> 0
    [] n > ChunkSize /\ i = 1 -> 1
    [] n > ChunkSize /\ i > 1 -> IF i * ChunkSize >= n THEN 3 ELSE 2

Message(type, tx, items) == [type |-> type, tx |-> tx, items |-> items]
NumChunks(n) == (n + ChunkSize - 1) \div ChunkSize
Chunk(s, i) == {s[j] : j \in {k \in DOMAIN s : (k - 1) \div ChunkSize = i - 1}}

SetMessages(s) ==
  [i \in 1..NumChunks(Len(s)) |-> Message("CFG-VALSET", Transaction(Len(s), i), Chunk(s, i))]

send_cfg_valset_grouped == SetMessages(Signal) \o SetMessages(Other)
poll_cfg == [i \in 1..NumChunks(plan.signal + Len(Other)) |-> Message("CFG-VALGET", 0, {})]
poll_mon_ver == <<Message("MON-VER", 0, {})>>
get_f9t_unique_id == <<Message("SEC-UNIQID", 0, {})>>
initial_probe == poll_mon_ver \o [i \in 1..4 |-> Message("ONE-VALGET", 0, {})]

-----------------------------------------------------------------------------
(* The host                                                                *)

Enter(phase, messages) == host' = [host EXCEPT !.at = phase, !.todo = messages]
EndWith(outcome) == host' = [host EXCEPT !.at = outcome, !.todo = <<>>, !.sent = <<>>]

(* Settings that cannot be used raise before the port is opened.           *)
Start(p) ==
  /\ host.at = "idle"
  /\ plan' = p
  /\ IF p.bad = "settings" /\ ~p.server THEN EndWith("raised") ELSE Enter("model", poll_mon_ver)
  /\ \E model \in {"ZED-F9T", "ZED-F9P"} : receiver' = [receiver EXCEPT !.model = model]
  /\ UNCHANGED line

PhaseOver == host.at \in Phases /\ host.todo = <<>> /\ ~Waiting

(* A position that is not LLH raises.                                      *)
Positioned == plan.bad # "position" \/ plan.position = <<>> \/ host.model # "ZED-F9T"

AfterModel ==
  /\ PhaseOver /\ host.at = "model"
  /\ CASE plan.server ->
            IF host.model = "ZED-F9T" THEN Enter("uid", get_f9t_unique_id) ELSE EndWith("raised")
       [] ~plan.server /\ ~Positioned -> EndWith("raised")
       [] ~plan.server /\ Positioned -> Enter("before", IF plan.verbose THEN poll_cfg ELSE <<>>)

(* The server compares the id with the client's before it reads the settings. *)
AfterUid ==
  /\ PhaseOver /\ host.at = "uid"
  /\ \/ EndWith("raised")
     \/ plan.bad = "no" /\ Enter("send", send_cfg_valset_grouped)

AfterBefore ==
  /\ PhaseOver /\ host.at = "before"
  /\ Enter("probe", IF plan.verbose \/ plan.probe_only THEN initial_probe ELSE <<>>)

AfterProbe ==
  /\ PhaseOver /\ host.at = "probe"
  /\ CASE plan.probe_only -> EndWith("probed")
       [] ~plan.probe_only /\ plan.dry_run -> EndWith("planned")
       [] ~plan.probe_only /\ ~plan.dry_run -> Enter("send", send_cfg_valset_grouped)

(* A refused message ends InitF9t; the script goes on to compare.          *)
AfterSend ==
  /\ PhaseOver /\ host.at = "send"
  /\ IF plan.server /\ FALSE \in ToSet(host.acks) THEN EndWith("raised") ELSE Enter("verify", poll_cfg)

(* Nothing was reported, otherwise the poll had raised.                    *)
AfterVerify ==
  /\ PhaseOver /\ host.at = "verify"
  /\ EndWith(IF plan.signal + Len(Other) = 0 THEN "verified" ELSE "mismatch")

(* ser.write; get_f9t_unique_id forgets unread answers first.              *)
Send ==
  /\ host.at \in Phases /\ host.todo # <<>> /\ ~Waiting
  /\ LET message == Head(host.todo)
     IN  /\ host' = [host EXCEPT !.todo = Tail(@), !.sent = <<message>>]
         /\ line' = [to |-> Append(line.to, message),
                     from |-> IF message.type = "SEC-UNIQID" THEN <<>> ELSE line.from]
  /\ UNCHANGED <<plan, receiver>>

Go == host' = [host EXCEPT !.sent = <<>>]
Acknowledged(ok) == host' = [host EXCEPT !.sent = <<>>, !.acks = Append(@, ok)]

(* The reading loops, one per question.  An answer of another kind is      *)
(* skipped; Silence is that none comes in time.                            *)
Silence == [type |-> "SILENCE", model |-> ""]
Skip(answer, types) == answer.type \notin types /\ UNCHANGED host

AwaitAck(answer) ==
  \/ answer.type \in {"ACK-ACK", "ACK-NAK", "SILENCE"} /\ Acknowledged(answer.type = "ACK-ACK")
  \/ Skip(answer, {"ACK-ACK", "ACK-NAK", "SILENCE"})

ReadModel(answer) ==
  \/ answer.type = "MON-VER" /\ host' = [host EXCEPT !.sent = <<>>, !.model = answer.model]
  \/ answer.type = "SILENCE" /\ EndWith("raised")
  \/ Skip(answer, {"MON-VER", "SILENCE"})

ReadUid(answer) ==
  \/ answer.type = "SEC-UNIQID" /\ Go
  \/ answer.type = "SILENCE" /\ EndWith("raised")
  \/ Skip(answer, {"SEC-UNIQID", "SILENCE"})

(* _merge_cfg_results: isinstance(cfg, dict[Any]) raises for any values.   *)
Merge == EndWith("raised")

(* poll_cfg, when nothing comes for these keys, asks for the next.         *)
ReadValues(answer) ==
  \/ answer.type = "CFG-VALGET" /\ Merge
  \/ answer.type = "SILENCE" /\ Go
  \/ Skip(answer, {"CFG-VALGET", "SILENCE"})

(* poll_one_by_id                                                          *)
ReadValue(answer) ==
  \/ answer.type = "CFG-VALGET" /\ Merge
  \/ answer.type = "ACK-NAK" /\ EndWith("raised")
  \/ answer.type = "SILENCE" /\ Go
  \/ Skip(answer, {"CFG-VALGET", "ACK-NAK", "SILENCE"})

Answer(message, answer) ==
  CASE message.type = "CFG-VALSET" -> AwaitAck(answer)
    [] message.type = "MON-VER" -> ReadModel(answer)
    [] message.type = "SEC-UNIQID" -> ReadUid(answer)
    [] message.type = "CFG-VALGET" -> ReadValues(answer)
    [] message.type = "ONE-VALGET" -> ReadValue(answer)

Read ==
  /\ Waiting /\ line.from # <<>>
  /\ Answer(host.sent[1], Head(line.from))
  /\ line' = [line EXCEPT !.from = Tail(@)]
  /\ UNCHANGED <<plan, receiver>>

TimeOut ==
  /\ Waiting /\ line.from = <<>>
  /\ Answer(host.sent[1], Silence)
  /\ UNCHANGED <<plan, line, receiver>>

-----------------------------------------------------------------------------
(* The receiver                                                            *)

Reply(types) ==
  line' = [to |-> Tail(line.to),
           from |-> line.from \o [i \in DOMAIN types |-> [type |-> types[i], model |-> receiver.model]]]

(* A transaction is started, continued and committed, or lost.             *)
Accepted(message) ==
  LET held == receiver.transaction \cup message.items
  IN  receiver' = [receiver EXCEPT
        !.verdicts = Append(@, TRUE),
        !.registers = CASE message.tx = 0 -> @ \cup message.items
                        [] message.tx = 3 -> @ \cup held
                        [] OTHER -> @,
        !.transaction = IF message.tx \in {1, 2} THEN held ELSE {}]

Refused == receiver' = [receiver EXCEPT !.verdicts = Append(@, FALSE), !.transaction = {}]

(* An answer after the host has stopped waiting is late.                   *)
Respond ==
  /\ line.to # <<>> /\ receiver.alive
  /\ LET message == Head(line.to)
     IN  \/ /\ message.type \in {"MON-VER", "SEC-UNIQID"}
            /\ Reply(<<message.type>>) /\ UNCHANGED receiver
         \/ /\ message.type \in {"CFG-VALGET", "ONE-VALGET"}
            /\ Reply(<<"CFG-VALGET", "ACK-ACK">>) \/ Reply(<<"ACK-NAK">>)
            /\ UNCHANGED receiver
         \/ /\ message.type = "CFG-VALSET"
            /\ message.tx \in {2, 3} => receiver.transaction # {}
            /\ Reply(<<"ACK-ACK">>) /\ Accepted(message)
         \/ /\ message.type = "CFG-VALSET"
            /\ Reply(<<"ACK-NAK">>) /\ Refused
  /\ host' = [host EXCEPT !.late = @ \/ ~Waiting \/ Len(line.to) > 1]
  /\ UNCHANGED plan

(* It is unplugged, and answers nothing any more.                          *)
Unplug ==
  /\ host.at # "idle" /\ receiver.alive
  /\ receiver' = [receiver EXCEPT !.alive = FALSE]
  /\ UNCHANGED <<plan, host, line>>

After ==
  /\ \/ AfterModel \/ AfterUid \/ AfterBefore \/ AfterProbe \/ AfterSend \/ AfterVerify
  /\ UNCHANGED <<plan, line, receiver>>

F9tNext ==
  \/ \E p \in Plans : Start(p)
  \/ After \/ Send \/ Read \/ TimeOut \/ Respond \/ Unplug

F9tSpec == F9tInit /\ [][F9tNext]_f9t

-----------------------------------------------------------------------------
Wanted == ToSet(Signal) \cup ToSet(Other)

(* However many messages a group of settings takes, and whichever of them  *)
(* the receiver refuses or never gets, the receiver has all of the group   *)
(* or none, so that its engine restarts once.  When all is acknowledged,   *)
(* and no answer was late, it has every setting, and the position it has   *)
(* is the one asked for, also west or south of zero.  Each acknowledgement *)
(* is the verdict on its message unless an answer was late: a late one     *)
(* counts for the message after it.  A plan that is only printed or probed *)
(* changes nothing, and a receiver that is no F9T gets no position.        *)
ConfigTrue ==
  /\ \A group \in {Signal, Other} : receiver.registers \cap ToSet(group) \in {{}, ToSet(group)}
  /\ host.at \in {"verify", "verified", "mismatch"} /\ FALSE \notin ToSet(host.acks) /\ ~host.late =>
       receiver.registers = Wanted
  /\ ~host.late =>
       \A i \in DOMAIN host.acks : host.acks[i] = (i <= Len(receiver.verdicts) /\ receiver.verdicts[i])
  /\ \A high, low \in receiver.registers :
       high[1] = "TMODE_LAT" /\ low[1] = "TMODE_LAT_HP" =>
         <<high[2] * 100 + low[2]>> = plan.position /\ low[2] \in 0..99
  /\ plan.dry_run \/ plan.probe_only => receiver.verdicts = <<>>
  /\ (\E item \in receiver.registers : item[1] = "TMODE_MODE") => receiver.model = "ZED-F9T"
=============================================================================
