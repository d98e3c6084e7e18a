-------------------------- MODULE TelemetryProofs --------------------------
(***************************************************************************)
(* Proofs about telemetry: the status of devices (DeviceStatus), for any   *)
(* number of devices, clients, reports, lost connections and restarts, and *)
(* the way of a log record (LogPath), for any number of records, outages   *)
(* and restarts and any sizes of the queue and the batch.                  *)
(***************************************************************************)
EXTENDS DeviceStatus, LogPath, SequenceTheorems, FiniteSetTheorems, TLAPS

(* The type of a record in Redis.                                          *)
RecordSet == [of : 0..MaxReports, expires : BOOLEAN]

(* The type of a report.                                                   *)
ReportSet ==
  [key : Keys, expires : BOOLEAN, at : {"executing", "success", "rejected", "error"},
   command : {"none", "sent", "applied"}, overlaps : SUBSET Numbers]

(* The fields of a record come from a report of its own key, and so does   *)
(* its lifetime.                                                           *)
RecordKnown ==
  \A k \in Keys : record[k].of # 0 =>
    /\ record[k].of \in Begun
    /\ report[record[k].of].key = k
    /\ record[k].expires = report[record[k].of].expires

(* What never expires is production data, under a key of its device.       *)
KeptIsProduction == \A r \in Begun : report[r].key[1] = "sandbox" => report[r].expires

(* A handler waits for a command that is on its way, and an answer of      *)
(* success is that of a command Redis has carried out.                     *)
CommandKnown ==
  \A r \in Begun : /\ report[r].at = "executing" => report[r].command = "sent"
                   /\ report[r].at = "success" => report[r].command = "applied"

(* A command on its way was so when any later report of its key began: no  *)
(* command is sent again once it has been answered or has failed.          *)
OverlapsKnown ==
  \A q, r \in Begun :
    q < r /\ report[q].key = report[r].key /\ report[q].command = "sent" => q \in report[r].overlaps

(* The inductive invariant: NoRollback needs to know which commands may    *)
(* still arrive.                                                           *)
IInv ==
  /\ TypeOK
  /\ record \in [Keys -> RecordSet] /\ report \in [Begun -> ReportSet]
  /\ RecordKnown /\ KeptIsProduction /\ CommandKnown /\ OverlapsKnown /\ NoRollback

-----------------------------------------------------------------------------
(* The bounds are numbers.                                                 *)
LEMMA Bounds == MaxReports \in Nat /\ MaxFaults \in Nat
BY StatusAssumption

(* Without reports and records there is nothing to know.                   *)
LEMMA InitHolds == Init => IInv
<1>. SUFFICES ASSUME Init PROVE IInv
  OBVIOUS
<1>1. Begun = {} /\ reports = 0 /\ report = <<>>
  BY DEF Init, Begun
<1>2. record \in [Keys -> RecordSet] /\ \A k \in Keys : record[k].of = 0
  BY Bounds DEF Init, NoRecord, RecordSet
<1>3. report \in [Begun -> ReportSet]
  BY <1>1
<1>4. TypeOK
  BY <1>1, <1>2, Bounds DEF TypeOK, RecordSet, Init
<1>. QED BY <1>1, <1>2, <1>3, <1>4
      DEF IInv, RecordKnown, KeptIsProduction, CommandKnown, OverlapsKnown, NoRollback

(* One report changes its state, none its key, lifetime or overlaps, and   *)
(* no command comes back on its way: what that keeps.                      *)
ReportsStay ==
  /\ reports' = reports /\ report' \in [Begun -> ReportSet]
  /\ \A r \in Begun :
       /\ report'[r].key = report[r].key /\ report'[r].expires = report[r].expires
       /\ report'[r].overlaps = report[r].overlaps
       /\ report'[r].command = "sent" => report[r].command = "sent"
       /\ report'[r].at = "executing" => report'[r].command = "sent"
       /\ report'[r].at = "success" => report'[r].command = "applied"

(* Reports that stay keep what was known of them.                          *)
LEMMA ReportsKeep ==
  ASSUME IInv, ReportsStay
  PROVE  (KeptIsProduction /\ CommandKnown /\ OverlapsKnown)' /\ Begun' = Begun
<1>1. Begun' = Begun
  BY DEF Begun, ReportsStay
<1>. QED BY <1>1 DEF IInv, ReportsStay, KeptIsProduction, CommandKnown, OverlapsKnown

(* Steps that send nothing and leave the records.                          *)
LEMMA RecordsStay ==
  ASSUME IInv, ReportsStay, record' = record, TypeOK',
         \A r \in Begun : report'[r].at = "success" => report[r].at = "success"
  PROVE  IInv'
<1>1. Begun' = Begun /\ (KeptIsProduction /\ CommandKnown /\ OverlapsKnown)'
  BY ReportsKeep
<1>2. RecordKnown'
  BY <1>1 DEF IInv, ReportsStay, RecordKnown
<1>3. NoRollback'
  BY <1>1 DEF IInv, ReportsStay, NoRollback
<1>. QED BY <1>1, <1>2, <1>3 DEF IInv, ReportsStay

(* A report begins: its own overlaps are all the commands of its key that  *)
(* are on their way.                                                       *)
LEMMA ReportStatusKeeps ==
  ASSUME IInv, NEW t \in Types, NEW rejected \in BOOLEAN, ReportStatus(t, rejected)
  PROVE  IInv'
<1>1. PICK n \in Numbers : n = reports + 1
  BY Bounds DEF IInv, TypeOK, ReportStatus, Numbers
<1>2. PICK key \in Keys : key = GetRedisKey(t) /\ (key[1] = "sandbox" => Expires(t))
  <2>1. CASE t \in devices
    <3>1. GetRedisKey(t) = <<"device", t>> /\ <<"device", t>> \in Keys
      BY <2>1 DEF GetRedisKey, Keys
    <3>. QED BY <3>1
  <2>2. CASE t \notin devices
    <3>1. GetRedisKey(t) = <<"sandbox", t>> /\ <<"sandbox", t>> \in Keys /\ Expires(t)
      BY <2>2 DEF GetRedisKey, Keys, Expires
    <3>. QED BY <3>1
  <2>. QED BY <2>1, <2>2
<1>3. PICK e \in BOOLEAN : e = Expires(t)
  BY DEF Expires
<1>4. PICK o \in SUBSET Numbers :
        o = {q \in Begun : report[q].key = key /\ report[q].command = "sent"}
  <2>1. \A q \in Begun : q \in Numbers
    BY Bounds DEF Begun, Numbers, IInv, TypeOK
  <2>2. {q \in Begun : report[q].key = key /\ report[q].command = "sent"} \subseteq Numbers
    BY <2>1
  <2>. QED BY <2>2
<1>5. PICK new \in ReportSet :
        new = [key |-> key, expires |-> e,
               at |-> IF rejected THEN "rejected" ELSE "executing",
               command |-> IF rejected THEN "none" ELSE "sent", overlaps |-> o]
  BY DEF ReportSet
<1>6. /\ report' = [r \in 1..n |-> IF r < n THEN report[r] ELSE new]
      /\ reports' = n /\ record' = record /\ devices' = devices /\ server' = server
      /\ faults' = faults
  BY <1>1, <1>2, <1>3, <1>4, <1>5 DEF ReportStatus
<1>7. /\ Begun' = 1..n /\ n \in 1..n /\ n \notin Begun
      /\ \A r \in 1..n : r \in Begun \/ r = n
      /\ \A r \in Begun : r \in 1..n /\ r < n
  BY <1>1, <1>6, Bounds DEF Begun, IInv, TypeOK, Numbers
<1>8. /\ report'[n] = new /\ \A r \in Begun : report'[r] = report[r]
  BY <1>6, <1>7
<1>9. report' \in [Begun' -> ReportSet]
  BY <1>6, <1>7, <1>8 DEF IInv
<1>10. TypeOK'
  BY <1>1, <1>6, <1>7, <1>9, Bounds DEF IInv, TypeOK, ReportSet, Numbers
<1>11. RecordKnown'
  BY <1>6, <1>7, <1>8 DEF IInv, RecordKnown
<1>12. KeptIsProduction'
  BY <1>2, <1>3, <1>5, <1>7, <1>8 DEF IInv, KeptIsProduction
<1>13. CommandKnown'
  BY <1>5, <1>7, <1>8 DEF IInv, CommandKnown
<1>14. OverlapsKnown'
  <2>1. ASSUME NEW q \in 1..n, NEW r \in 1..n, q < r, report'[q].key = report'[r].key,
               report'[q].command = "sent"
        PROVE  q \in report'[r].overlaps
    <3>1. q \in Begun
      BY <2>1, <1>1, <1>7 DEF Numbers
    <3>2. CASE r \in Begun
      BY <2>1, <3>1, <3>2, <1>8 DEF IInv, OverlapsKnown
    <3>3. CASE r = n
      BY <2>1, <3>1, <3>3, <1>4, <1>5, <1>8
    <3>. QED BY <3>2, <3>3, <1>7
  <2>. QED BY <2>1, <1>7 DEF OverlapsKnown
<1>15. NoRollback'
  <2>1. new.at # "success"
    BY <1>5
  <2>. QED BY <2>1, <1>6, <1>7, <1>8 DEF IInv, NoRollback
<1>. QED BY <1>6, <1>9, <1>10, <1>11, <1>12, <1>13, <1>14, <1>15 DEF IInv

(* Redis carries out a command: a report that was answered success before  *)
(* it is earlier, or the command was on its way when it began.             *)
LEMMA ApplyKeeps ==
  ASSUME IInv, NEW r \in Numbers, Apply(r)
  PROVE  IInv'
<1>1. r \in Begun /\ report[r] \in ReportSet /\ report[r].command = "sent" /\ r # 0
  BY DEF IInv, Apply, Numbers
<1>2. PICK old \in ReportSet : old = report[r]
  BY <1>1
<1>3. PICK k \in Keys : k = old.key
  BY <1>2 DEF ReportSet
<1>4. PICK new \in RecordSet : new = [of |-> r, expires |-> old.expires]
  <2>1. r \in 0..MaxReports
    BY Bounds DEF Numbers
  <2>2. old.expires \in BOOLEAN
    BY DEF ReportSet
  <2>. QED BY <2>1, <2>2 DEF RecordSet
<1>5. new.of = r /\ new.expires = old.expires
  BY <1>4
<1>6. /\ record' = [record EXCEPT ![k] = new] /\ reports' = reports
      /\ devices' = devices /\ server' = server
  BY <1>2, <1>3, <1>4 DEF Apply, Transaction
<1>7. /\ record' \in [Keys -> RecordSet] /\ record'[k] = new
      /\ \A j \in Keys \ {k} : record'[j] = record[j]
  BY <1>6 DEF IInv
<1>8. /\ ReportsStay /\ faults' \in 0..MaxFaults
      /\ \A q \in Begun \ {r} : report'[q].at = report[q].at
  <2>1. CASE /\ report' = [report EXCEPT ![r].command = "applied",
                             ![r].at = IF @ = "executing" THEN "success" ELSE @]
             /\ faults' = faults
    <3>1. PICK upd \in ReportSet :
            upd = [old EXCEPT !.command = "applied",
                              !.at = IF old.at = "executing" THEN "success" ELSE old.at]
      BY DEF ReportSet
    <3>2. /\ upd.command = "applied" /\ upd.key = old.key /\ upd.expires = old.expires
          /\ upd.overlaps = old.overlaps /\ upd.at # "executing"
      BY <3>1 DEF ReportSet
    <3>3. report' = [report EXCEPT ![r] = upd]
      BY <1>1, <1>2, <2>1, <3>1 DEF IInv
    <3>4. /\ report' \in [Begun -> ReportSet] /\ report'[r] = upd
          /\ \A q \in Begun \ {r} : report'[q] = report[q]
      BY <1>1, <3>3 DEF IInv
    <3>. QED BY <1>1, <1>2, <1>6, <2>1, <3>2, <3>4 DEF ReportsStay, IInv, CommandKnown, TypeOK
  <2>2. CASE report' = report /\ faults' = faults + 1 /\ faults < MaxFaults
    BY <1>6, <2>2, Bounds DEF ReportsStay, IInv, CommandKnown, TypeOK
  <2>. QED BY <2>1, <2>2 DEF Apply
<1>9. Begun' = Begun /\ (KeptIsProduction /\ CommandKnown /\ OverlapsKnown)'
  BY <1>8, ReportsKeep
<1>10. RecordKnown'
  <2>1. ASSUME NEW j \in Keys, record'[j].of # 0
        PROVE  /\ record'[j].of \in Begun /\ report'[record'[j].of].key = j
               /\ record'[j].expires = report'[record'[j].of].expires
    <3>1. CASE j = k
      BY <1>1, <1>2, <1>3, <1>5, <1>7, <1>8, <3>1 DEF ReportsStay
    <3>2. CASE j # k
      BY <1>7, <1>8, <2>1, <3>2 DEF ReportsStay, IInv, RecordKnown
    <3>. QED BY <3>1, <3>2
  <2>. QED BY <1>9, <2>1 DEF RecordKnown
<1>11. NoRollback'
  <2>1. ASSUME NEW q \in Begun, report'[q].at = "success", record'[report'[q].key].of # 0
        PROVE  record'[report'[q].key].of >= q \/ record'[report'[q].key].of \in report'[q].overlaps
    <3>1. PICK j \in Keys : j = report[q].key /\ j = report'[q].key
      BY <2>1, <1>8 DEF IInv, ReportSet, ReportsStay
    <3>2. q \in Nat /\ r \in Nat /\ q \in Numbers
      BY Bounds DEF Begun, Numbers, IInv, TypeOK
    <3>3. CASE q = r
      <4>1. record'[j].of = r
        BY <1>2, <1>3, <1>5, <1>7, <3>1, <3>3
      <4>2. r >= q
        BY <3>2, <3>3
      <4>. QED BY <3>1, <4>1, <4>2
    <3>4. CASE q # r /\ j # k
      BY <1>7, <1>8, <2>1, <3>1, <3>4 DEF IInv, NoRollback, ReportsStay
    <3>5. CASE q # r /\ j = k
      <4>1. record'[j].of = r
        BY <1>5, <1>7, <3>5
      <4>2. r > q \/ r < q
        BY <3>2, <3>5
      <4>3. r < q => r \in report[q].overlaps
        BY <1>1, <1>2, <1>3, <3>1, <3>5 DEF IInv, OverlapsKnown
      <4>. QED BY <1>8, <3>1, <3>2, <4>1, <4>2, <4>3 DEF ReportsStay
    <3>. QED BY <3>3, <3>4, <3>5
  <2>. QED BY <1>9, <2>1 DEF NoRollback
<1>12. TypeOK'
  BY <1>6, <1>7, <1>8, <1>9 DEF IInv, TypeOK, ReportsStay, ReportSet, RecordSet
<1>. QED BY <1>7, <1>8, <1>9, <1>10, <1>11, <1>12 DEF IInv, ReportsStay

(* A handler fails, or a command is lost: no answer of success, and no     *)
(* command on its way that was not.                                        *)
LEMMA LossKeeps ==
  ASSUME IInv, NEW r \in Numbers, Fail(r) \/ Vanish(r)
  PROVE  IInv'
<1>1. r \in Begun /\ report[r] \in ReportSet /\ report[r].command = "sent"
  BY DEF IInv, Fail, Vanish, Waiting, CommandKnown
<1>2. PICK old \in ReportSet : old = report[r]
  BY <1>1
<1>3. PICK at \in {"success", "rejected", "error"}, command \in {"sent", "none"} :
        /\ report' = [report EXCEPT ![r] = [old EXCEPT !.at = at, !.command = command]]
        /\ at = "success" => old.at = "success" /\ command = "none"
  <2>1. CASE Fail(r)
    <3>1. PICK command \in {"sent", "none"} :
            report' = [report EXCEPT ![r].at = "error", ![r].command = command]
      BY <2>1 DEF Fail
    <3>2. report' = [report EXCEPT ![r] = [old EXCEPT !.at = "error", !.command = command]]
      BY <1>1, <1>2, <3>1 DEF IInv
    <3>. QED BY <3>2
  <2>2. CASE Vanish(r)
    <3>1. PICK at : at = old.at
      OBVIOUS
    <3>2. at \in {"success", "rejected", "error"}
      BY <1>2, <2>2, <3>1 DEF Vanish, Waiting, ReportSet
    <3>3. [old EXCEPT !.command = "none"] = [old EXCEPT !.at = at, !.command = "none"]
      BY <3>1 DEF ReportSet
    <3>4. report' = [report EXCEPT ![r] = [old EXCEPT !.command = "none"]]
      BY <1>1, <1>2, <2>2 DEF Vanish, IInv
    <3>. QED BY <3>1, <3>2, <3>3, <3>4
  <2>. QED BY <2>1, <2>2
<1>4. PICK upd \in ReportSet : upd = [old EXCEPT !.at = at, !.command = command]
  BY DEF ReportSet
<1>5. /\ upd.at = at /\ upd.command = command /\ upd.key = old.key /\ upd.expires = old.expires
      /\ upd.overlaps = old.overlaps
  BY <1>4 DEF ReportSet
<1>6. /\ report' \in [Begun -> ReportSet] /\ report'[r] = upd
      /\ \A q \in Begun \ {r} : report'[q] = report[q]
  BY <1>1, <1>3, <1>4 DEF IInv
<1>7. /\ record' = record /\ reports' = reports /\ devices' = devices /\ server' = server
      /\ faults' \in 0..MaxFaults
  BY Bounds DEF Fail, Vanish, IInv, TypeOK
<1>8. report[r].at # "success"
  BY <1>1 DEF IInv, CommandKnown
<1>9. ReportsStay /\ \A q \in Begun : report'[q].at = "success" => report[q].at = "success"
  BY <1>1, <1>2, <1>3, <1>5, <1>6, <1>7, <1>8 DEF ReportsStay, IInv, CommandKnown
<1>10. TypeOK'
  BY <1>6, <1>7 DEF IInv, TypeOK, Begun, ReportSet, RecordSet
<1>. QED BY <1>7, <1>9, <1>10, RecordsStay

(* The server exits: handlers that wait are gone, their commands are not.  *)
LEMMA ExitKeeps ==
  ASSUME IInv, Exit
  PROVE  IInv'
<1>1. ASSUME NEW q \in Begun
      PROVE  /\ report'[q] \in ReportSet
             /\ report'[q].key = report[q].key /\ report'[q].expires = report[q].expires
             /\ report'[q].overlaps = report[q].overlaps /\ report'[q].command = report[q].command
             /\ report'[q].at = "success" => report[q].at = "success"
             /\ report'[q].at # "executing"
  <2>1. PICK old \in ReportSet : old = report[q]
    BY DEF IInv
  <2>2. CASE old.at = "executing"
    <3>1. report'[q] = [old EXCEPT !.at = "error"]
      BY <2>1, <2>2 DEF Exit, Waiting
    <3>. QED BY <2>1, <3>1 DEF ReportSet
  <2>3. CASE old.at # "executing"
    <3>1. report'[q] = old
      BY <2>1, <2>3 DEF Exit, Waiting
    <3>. QED BY <2>1, <2>3, <3>1
  <2>. QED BY <2>2, <2>3
<1>2. report' \in [Begun -> ReportSet]
  BY <1>1 DEF Exit
<1>3. reports' = reports /\ record' = record /\ devices' = devices /\ server' = "down"
      /\ faults' \in 0..MaxFaults
  BY Bounds DEF Exit, IInv, TypeOK
<1>4. ReportsStay /\ \A q \in Begun : report'[q].at = "success" => report[q].at = "success"
  BY <1>1, <1>2, <1>3 DEF ReportsStay, IInv, CommandKnown
<1>5. TypeOK'
  BY <1>2, <1>3 DEF IInv, TypeOK, Begun, ReportSet, RecordSet
<1>. QED BY <1>3, <1>4, <1>5, RecordsStay

(* A restart, an expired record and a stuttering step.                     *)
LEMMA IdleKeeps ==
  ASSUME IInv, Start \/ (\E k \in Keys : Expire(k)) \/ UNCHANGED vars
  PROVE  IInv'
<1>1. report' = report /\ reports' = reports /\ Begun' = Begun /\ faults' = faults
  BY DEF Start, Expire, vars, Begun
<1>2. ReportsStay
  BY <1>1 DEF ReportsStay, IInv, CommandKnown
<1>3. CASE Start \/ UNCHANGED vars
  <2>1. record' = record
    BY <1>3 DEF Start, vars
  <2>2. TypeOK'
    BY <1>1, <1>3, <2>1 DEF Start, vars, IInv, TypeOK
  <2>. QED BY <1>1, <1>2, <2>1, <2>2, RecordsStay
<1>4. ASSUME NEW k \in Keys, Expire(k) PROVE IInv'
  <2>1. NoRecord \in RecordSet /\ NoRecord.of = 0
    BY Bounds DEF NoRecord, RecordSet
  <2>2. /\ record' \in [Keys -> RecordSet] /\ record'[k].of = 0
        /\ \A j \in Keys \ {k} : record'[j] = record[j]
        /\ devices' = devices /\ server' = server
    BY <1>4, <2>1 DEF Expire, IInv
  <2>3. RecordKnown'
    BY <1>1, <2>2 DEF RecordKnown, IInv
  <2>4. NoRollback'
    <3>1. ASSUME NEW q \in Begun PROVE report[q].key \in Keys
      BY DEF IInv, ReportSet
    <3>. QED BY <1>1, <2>2, <3>1 DEF NoRollback, IInv
  <2>5. TypeOK'
    BY <1>1, <2>2 DEF IInv, TypeOK, RecordSet
  <2>6. (KeptIsProduction /\ CommandKnown /\ OverlapsKnown)'
    BY <1>2, ReportsKeep
  <2>. QED BY <1>1, <2>2, <2>3, <2>4, <2>5, <2>6 DEF IInv
<1>. QED BY <1>3, <1>4

(* The inductive invariant holds of every reachable state.                 *)
THEOREM StatusInvariant == Spec => []IInv
<1>1. Init => IInv
  BY InitHolds
<1>2. IInv /\ [Next]_vars => IInv'
  BY ReportStatusKeeps, ApplyKeeps, LossKeeps, ExitKeeps, IdleKeeps DEF Next
<1>. QED BY <1>1, <1>2, PTL DEF Spec

(* For any number of devices, clients, lost connections and restarts: a    *)
(* record in Redis has the lifetime of the report whose fields it holds,   *)
(* what is not production data expires, and a report that was answered     *)
(* success is never replaced by an earlier one that had been answered when *)
(* it began.                                                               *)
THEOREM StatusIsTrue == Spec => []StatusTrue
<1>1. IInv => StatusTrue
  BY DEF IInv, StatusTrue, LifetimeMatches, RecordKnown, KeptIsProduction
<1>. QED BY <1>1, StatusInvariant, PTL

-----------------------------------------------------------------------------
(* The way of a log record: sequences                                      *)

(* No record is twice in q.                                                *)
OneToOne(q) == \A i, j \in 1..Len(q) : q[i] = q[j] => i = j

(* What the batcher holds, the batch b and the queue c behind it, is the   *)
(* end of what was accepted, from the n-th on.                             *)
EndFrom(n, b, c, a) ==
  /\ n + Len(b) + Len(c) = Len(a)
  /\ \A i \in 1..Len(b) : n + i \in 1..Len(a) /\ b[i] = a[n + i]
  /\ \A i \in 1..Len(c) : n + Len(b) + i \in 1..Len(a) /\ c[i] = a[n + Len(b) + i]

(* ... from some record on.                                                *)
Latest(b, c, a) == \E n \in Nat : EndFrom(n, b, c, a)

(* y was accepted after x.                                                 *)
Later(x, y, a) == \E i, j \in 1..Len(a) : a[i] = x /\ a[j] = y /\ i < j

(* In the order of acceptance, but for what has been there before: the     *)
(* records r of Redis, followed by the batch b that is being pushed.       *)
Ordered(r, b, a) ==
  /\ ToSet(r) \subseteq ToSet(a)
  /\ \A i, j \in 1..Len(r) : i < j => Later(r[i], r[j], a) \/ \E k \in 1..i : r[k] = r[j]
  /\ \A i \in 1..Len(r), j \in 1..Len(b) : Later(r[i], b[j], a) \/ \E k \in 1..i : r[k] = b[j]

(* The records of a sequence.                                              *)
LEMMA InSequence ==
  ASSUME NEW S, NEW q \in Seq(S)
  PROVE  /\ ToSet(q) \subseteq S
         /\ \A i \in 1..Len(q) : q[i] \in ToSet(q)
         /\ \A x \in ToSet(q) : \E i \in 1..Len(q) : q[i] = x
BY DEF ToSet

(* ... of one that grows, ...                                              *)
LEMMA InAppended ==
  ASSUME NEW S, NEW q \in Seq(S), NEW x \in S
  PROVE  ToSet(Append(q, x)) = ToSet(q) \cup {x}
<1>1. /\ Len(q) \in Nat /\ Append(q, x) \in Seq(S) /\ Len(Append(q, x)) = Len(q) + 1
      /\ Append(q, x)[Len(q) + 1] = x /\ \A i \in 1..Len(q) : Append(q, x)[i] = q[i]
  OBVIOUS
<1> DEFINE z == Append(q, x)
<1> HIDE DEF z
<1>2. z \in Seq(S) /\ \A i \in 1..Len(q) : i \in 1..Len(z) /\ z[i] = q[i]
  BY <1>1 DEF z
<1>3. Len(q) + 1 \in 1..Len(z) /\ z[Len(q) + 1] = x /\ \A i \in 1..Len(z) : i \in 1..Len(q) \/ i = Len(q) + 1
  BY <1>1 DEF z
<1>4. ASSUME NEW y \in ToSet(z) PROVE y \in ToSet(q) \cup {x}
  <2>1. PICK i \in 1..Len(z) : z[i] = y
    BY <1>2, <1>4, InSequence
  <2> QED BY <1>2, <1>3, <2>1, InSequence
<1>5. ASSUME NEW y \in ToSet(q) PROVE y \in ToSet(z)
  <2>1. PICK i \in 1..Len(q) : q[i] = y
    BY <1>5, InSequence
  <2> QED BY <1>2, <2>1, InSequence
<1>6. x \in ToSet(z)
  BY <1>2, <1>3, InSequence
<1> QED BY <1>4, <1>5, <1>6 DEF z

(* ... of one that loses its first record, ...                             *)
LEMMA InTail ==
  ASSUME NEW S, NEW q \in Seq(S), q # <<>>
  PROVE  /\ ToSet(q) = {Head(q)} \cup ToSet(Tail(q))
         /\ OneToOne(q) => OneToOne(Tail(q)) /\ Head(q) \notin ToSet(Tail(q))
<1> DEFINE z == Tail(q)
<1>1. /\ Len(q) \in Nat /\ z \in Seq(S) /\ Len(z) \in Nat /\ Len(z) = Len(q) - 1 /\ 1 \in 1..Len(q) /\ Head(q) = q[1]
      /\ \A i \in 1..Len(z) : z[i] = q[i + 1] /\ i + 1 \in 1..Len(q)
      /\ \A i \in 1..Len(q) : i # 1 => i - 1 \in 1..Len(z) /\ z[i - 1] = q[i]
  OBVIOUS
<1> HIDE DEF z
<1>2. ASSUME NEW y \in ToSet(z) PROVE y \in ToSet(q)
  <2>1. PICK i \in 1..Len(z) : z[i] = y
    BY <1>1, <1>2, InSequence
  <2> QED BY <1>1, <2>1, InSequence
<1>3. ASSUME NEW y \in ToSet(q), y # Head(q) PROVE y \in ToSet(z)
  <2>1. PICK i \in 1..Len(q) : q[i] = y
    BY <1>3, InSequence
  <2>2. i - 1 \in 1..Len(z) /\ z[i - 1] = y
    BY <1>1, <1>3, <2>1
  <2> QED BY <1>1, <2>2, InSequence
<1>4. Head(q) \in ToSet(q)
  BY <1>1, InSequence
<1>5. ASSUME OneToOne(q) PROVE OneToOne(z) /\ Head(q) \notin ToSet(z)
  <2>1. OneToOne(z)
    <3> SUFFICES ASSUME NEW i \in 1..Len(z), NEW j \in 1..Len(z), z[i] = z[j] PROVE i = j
      BY DEF OneToOne
    <3>1. i + 1 \in 1..Len(q) /\ j + 1 \in 1..Len(q) /\ q[i + 1] = q[j + 1]
      BY <1>1
    <3>2. i + 1 = j + 1
      BY <1>5, <3>1 DEF OneToOne
    <3> QED BY <3>2
  <2>2. Head(q) \notin ToSet(z)
    <3> SUFFICES ASSUME Head(q) \in ToSet(z) PROVE FALSE
      OBVIOUS
    <3>1. PICK i \in 1..Len(z) : z[i] = Head(q)
      BY <1>1, InSequence
    <3>2. i + 1 \in 1..Len(q) /\ q[i + 1] = q[1]
      BY <1>1, <3>1
    <3>3. i + 1 = 1
      BY <1>1, <1>5, <3>2 DEF OneToOne
    <3> QED BY <3>3
  <2> QED BY <2>1, <2>2
<1> QED BY <1>2, <1>3, <1>4, <1>5 DEF z

(* ... of two in a row, and of one cut in two.                             *)
LEMMA InBoth ==
  ASSUME NEW S, NEW q \in Seq(S), NEW r \in Seq(S)
  PROVE  /\ q \o r \in Seq(S) /\ Len(q \o r) = Len(q) + Len(r)
         /\ \A i \in 1..Len(q) : i \in 1..Len(q \o r) /\ (q \o r)[i] = q[i]
         /\ \A i \in 1..Len(r) : Len(q) + i \in 1..Len(q \o r) /\ (q \o r)[Len(q) + i] = r[i]
         /\ \A i \in 1..Len(q \o r) : i \in 1..Len(q) \/ i - Len(q) \in 1..Len(r)
         /\ ToSet(q \o r) = ToSet(q) \cup ToSet(r)
<1> DEFINE z == q \o r
<1>1. /\ Len(q) \in Nat /\ Len(r) \in Nat /\ z \in Seq(S) /\ Len(z) = Len(q) + Len(r)
  OBVIOUS
<1>2. \A i \in 1..Len(q) : i \in 1..Len(z) /\ z[i] = q[i]
  OBVIOUS
<1>3. \A i \in 1..Len(r) : Len(q) + i \in 1..Len(z) /\ z[Len(q) + i] = r[i]
  OBVIOUS
<1> HIDE DEF z
<1>4. \A i \in 1..Len(z) : i \in 1..Len(q) \/ (i - Len(q) \in 1..Len(r) /\ z[i] = r[i - Len(q)])
  <2> TAKE i \in 1..Len(z)
  <2>1. CASE i \notin 1..Len(q)
    <3>1. i - Len(q) \in 1..Len(r) /\ Len(q) + (i - Len(q)) = i
      BY <1>1, <2>1
    <3> QED BY <1>3, <3>1
  <2> QED BY <2>1
<1>5. ASSUME NEW y \in ToSet(z) PROVE y \in ToSet(q) \cup ToSet(r)
  <2>1. PICK i \in 1..Len(z) : z[i] = y
    BY <1>1, <1>5, InSequence
  <2> QED BY <1>2, <1>4, <2>1, InSequence
<1>6. ASSUME NEW y \in ToSet(q) PROVE y \in ToSet(z)
  <2>1. PICK i \in 1..Len(q) : q[i] = y
    BY <1>6, InSequence
  <2> QED BY <1>1, <1>2, <2>1, InSequence
<1>7. ASSUME NEW y \in ToSet(r) PROVE y \in ToSet(z)
  <2>1. PICK i \in 1..Len(r) : r[i] = y
    BY <1>7, InSequence
  <2> QED BY <1>1, <1>3, <2>1, InSequence
<1>8. ToSet(z) = ToSet(q) \cup ToSet(r)
  BY <1>5, <1>6, <1>7
<1> QED BY <1>1, <1>2, <1>3, <1>4, <1>8 DEF z

(* A sequence cut in two.                                                  *)
LEMMA InHalves ==
  ASSUME NEW S, NEW q \in Seq(S), NEW n \in 1..Len(q)
  PROVE  LET u == SubSeq(q, 1, n)
             v == SubSeq(q, n + 1, Len(q))
         IN  /\ u \in Seq(S) /\ v \in Seq(S) /\ Len(u) = n /\ Len(v) = Len(q) - n
             /\ \A i \in 1..Len(u) : i \in 1..Len(q) /\ u[i] = q[i]
             /\ \A i \in 1..Len(v) : n + i \in 1..Len(q) /\ v[i] = q[n + i]
             /\ ToSet(u) \cup ToSet(v) = ToSet(q)
<1> DEFINE u == SubSeq(q, 1, n)
           v == SubSeq(q, n + 1, Len(q))
<1>1. /\ Len(q) \in Nat /\ n \in Nat /\ u \in Seq(S) /\ v \in Seq(S) /\ Len(u) = n /\ Len(v) = Len(q) - n
      /\ \A i \in 1..Len(u) : i \in 1..Len(q) /\ u[i] = q[i]
      /\ \A i \in 1..Len(v) : n + i \in 1..Len(q) /\ v[i] = q[n + i]
  BY SubSeqProperties
<1> HIDE DEF u, v
<1>2. ASSUME NEW y \in ToSet(u) PROVE y \in ToSet(q)
  <2>1. PICK i \in 1..Len(u) : u[i] = y
    BY <1>1, <1>2, InSequence
  <2> QED BY <1>1, <2>1, InSequence
<1>3. ASSUME NEW y \in ToSet(v) PROVE y \in ToSet(q)
  <2>1. PICK i \in 1..Len(v) : v[i] = y
    BY <1>1, <1>3, InSequence
  <2> QED BY <1>1, <2>1, InSequence
<1>4. ASSUME NEW y \in ToSet(q) PROVE y \in ToSet(u) \cup ToSet(v)
  <2>1. PICK i \in 1..Len(q) : q[i] = y
    BY <1>4, InSequence
  <2>2. CASE i <= n
    <3>1. i \in 1..Len(u)
      BY <1>1, <2>2
    <3> QED BY <1>1, <2>1, <3>1, InSequence
  <2>3. CASE ~(i <= n)
    <3>1. i - n \in 1..Len(v) /\ n + (i - n) = i
      BY <1>1, <2>3
    <3>2. v[i - n] = y
      BY <1>1, <2>1, <3>1
    <3> QED BY <1>1, <3>1, <3>2, InSequence
  <2> QED BY <2>2, <2>3
<1>5. ToSet(u) \cup ToSet(v) = ToSet(q)
  BY <1>2, <1>3, <1>4
<1> QED BY <1>1, <1>5 DEF u, v

(* A new record keeps a sequence one to one.                               *)
LEMMA StillOneToOne ==
  ASSUME NEW S, NEW q \in Seq(S), NEW x \in S, OneToOne(q), x \notin ToSet(q)
  PROVE  OneToOne(Append(q, x))
<1> DEFINE z == Append(q, x)
<1>1. /\ Len(q) \in Nat /\ Len(z) = Len(q) + 1 /\ z[Len(q) + 1] = x
      /\ \A i \in 1..Len(q) : z[i] = q[i]
      /\ \A i \in 1..Len(z) : i \in 1..Len(q) \/ i = Len(q) + 1
  OBVIOUS
<1> HIDE DEF z
<1>2. \A i \in 1..Len(q) : q[i] # x
  BY InSequence
<1>3. OneToOne(z)
  <2> SUFFICES ASSUME NEW i \in 1..Len(z), NEW j \in 1..Len(z), z[i] = z[j] PROVE i = j
    BY DEF OneToOne
  <2>1. CASE i \in 1..Len(q) /\ j \in 1..Len(q)
    BY <1>1, <2>1 DEF OneToOne
  <2>2. CASE i = Len(q) + 1 \/ j = Len(q) + 1
    BY <1>1, <1>2, <2>2
  <2> QED BY <1>1, <2>1, <2>2
<1> QED BY <1>3 DEF z

(* What is the end of a one-to-one sequence is in no two places.           *)
LEMMA LatestParts ==
  ASSUME NEW S, NEW a \in Seq(S), NEW b \in Seq(S), NEW c \in Seq(S),
         OneToOne(a), Latest(b, c, a)
  PROVE  /\ OneToOne(b) /\ OneToOne(c) /\ ToSet(b) \cap ToSet(c) = {}
         /\ ToSet(b) \cup ToSet(c) \subseteq ToSet(a)
<1>1. Len(a) \in Nat /\ Len(b) \in Nat /\ Len(c) \in Nat
  OBVIOUS
<1>2. PICK n \in Nat :
        /\ n + Len(b) + Len(c) = Len(a)
        /\ \A i \in 1..Len(b) : n + i \in 1..Len(a) /\ b[i] = a[n + i]
        /\ \A i \in 1..Len(c) : n + Len(b) + i \in 1..Len(a) /\ c[i] = a[n + Len(b) + i]
  BY DEF Latest, EndFrom
<1>3. OneToOne(b)
  <2> SUFFICES ASSUME NEW i \in 1..Len(b), NEW j \in 1..Len(b), b[i] = b[j] PROVE i = j
    BY DEF OneToOne
  <2>1. n + i = n + j
    BY <1>2 DEF OneToOne
  <2> QED BY <1>2, <2>1
<1>4. OneToOne(c)
  <2> SUFFICES ASSUME NEW i \in 1..Len(c), NEW j \in 1..Len(c), c[i] = c[j] PROVE i = j
    BY DEF OneToOne
  <2> DEFINE k == n + Len(b) + i
             l == n + Len(b) + j
  <2>1. k \in 1..Len(a) /\ l \in 1..Len(a) /\ a[k] = a[l]
    BY <1>2
  <2>2. k = l
    BY <2>1 DEF OneToOne
  <2> QED BY <1>1, <1>2, <2>2
<1>5. ToSet(b) \cap ToSet(c) = {}
  <2> SUFFICES ASSUME NEW x \in ToSet(b), x \in ToSet(c) PROVE FALSE
    OBVIOUS
  <2>1. PICK i \in 1..Len(b) : b[i] = x
    BY InSequence
  <2>2. PICK j \in 1..Len(c) : c[j] = x
    BY InSequence
  <2> DEFINE k == n + i
             l == n + Len(b) + j
  <2>3. k \in 1..Len(a) /\ l \in 1..Len(a) /\ a[k] = a[l]
    BY <1>2, <2>1, <2>2
  <2>4. k = l
    BY <2>3 DEF OneToOne
  <2> QED BY <1>1, <1>2, <2>4
<1>6. ASSUME NEW x \in ToSet(b) PROVE x \in ToSet(a)
  <2>1. PICK i \in 1..Len(b) : b[i] = x
    BY <1>6, InSequence
  <2>2. n + i \in 1..Len(a) /\ a[n + i] = x
    BY <1>2, <2>1
  <2> QED BY <2>2, InSequence
<1>7. ASSUME NEW x \in ToSet(c) PROVE x \in ToSet(a)
  <2>1. PICK i \in 1..Len(c) : c[i] = x
    BY <1>7, InSequence
  <2>2. n + Len(b) + i \in 1..Len(a) /\ a[n + Len(b) + i] = x
    BY <1>2, <2>1
  <2> QED BY <2>2, InSequence
<1> QED BY <1>3, <1>4, <1>5, <1>6, <1>7

(* A record is accepted; a batch is taken; a batch is done.                *)
LEMMA LatestPut ==
  ASSUME NEW S, NEW a \in Seq(S), NEW b \in Seq(S), NEW c \in Seq(S), NEW x \in S, Latest(b, c, a)
  PROVE  Latest(b, Append(c, x), Append(a, x))
<1> DEFINE d == Append(c, x)
           e == Append(a, x)
<1>1. /\ Len(a) \in Nat /\ Len(b) \in Nat /\ Len(c) \in Nat /\ Len(d) = Len(c) + 1 /\ Len(e) = Len(a) + 1
      /\ \A i \in 1..Len(c) : d[i] = c[i]
      /\ \A i \in 1..Len(a) : i \in 1..Len(e) /\ e[i] = a[i]
      /\ d[Len(c) + 1] = x /\ e[Len(a) + 1] = x
      /\ \A i \in 1..Len(d) : i \in 1..Len(c) \/ i = Len(c) + 1
      /\ d \in Seq(S) /\ e \in Seq(S)
  OBVIOUS
<1>2. PICK n \in Nat :
        /\ n + Len(b) + Len(c) = Len(a)
        /\ \A i \in 1..Len(b) : n + i \in 1..Len(a) /\ b[i] = a[n + i]
        /\ \A i \in 1..Len(c) : n + Len(b) + i \in 1..Len(a) /\ c[i] = a[n + Len(b) + i]
  BY DEF Latest, EndFrom
<1> HIDE DEF d, e
<1>3. \A i \in 1..Len(b) : n + i \in 1..Len(e) /\ b[i] = e[n + i]
  BY <1>1, <1>2
<1>4. \A i \in 1..Len(d) : n + Len(b) + i \in 1..Len(e) /\ d[i] = e[n + Len(b) + i]
  <2> TAKE i \in 1..Len(d)
  <2>1. CASE i \in 1..Len(c)
    BY <1>1, <1>2, <2>1
  <2>2. CASE i = Len(c) + 1
    <3>1. n + Len(b) + i = Len(a) + 1
      BY <1>1, <1>2, <2>2
    <3> QED BY <1>1, <2>2, <3>1
  <2> QED BY <1>1, <2>1, <2>2
<1>5. n + Len(b) + Len(d) = Len(e)
  BY <1>1, <1>2
<1>6. Latest(b, d, e)
  BY <1>3, <1>4, <1>5 DEF Latest, EndFrom
<1> QED BY <1>6 DEF d, e

(* ... with nothing in front of it ...                                     *)
LEMMA LatestTake ==
  ASSUME NEW S, NEW a \in Seq(S), NEW q \in Seq(S), NEW n \in 1..Len(q), Latest(<<>>, q, a)
  PROVE  Latest(SubSeq(q, 1, n), SubSeq(q, n + 1, Len(q)), a)
<1> DEFINE b == SubSeq(q, 1, n)
           c == SubSeq(q, n + 1, Len(q))
<1>1. /\ b \in Seq(S) /\ c \in Seq(S) /\ Len(b) = n /\ Len(c) = Len(q) - n
      /\ \A i \in 1..Len(b) : i \in 1..Len(q) /\ b[i] = q[i]
      /\ \A i \in 1..Len(c) : n + i \in 1..Len(q) /\ c[i] = q[n + i]
  BY InHalves
<1>2. Len(a) \in Nat /\ Len(q) \in Nat /\ n \in Nat /\ <<>> \in Seq(S) /\ Len(<<>>) = 0
  OBVIOUS
<1> HIDE DEF b, c
<1>3. PICK p \in Nat : EndFrom(p, <<>>, q, a)
  BY DEF Latest
<1>4. p + Len(q) = Len(a) /\ \A i \in 1..Len(q) : p + i \in 1..Len(a) /\ q[i] = a[p + i]
  BY <1>2, <1>3 DEF EndFrom
<1>5. \A i \in 1..Len(b) : p + i \in 1..Len(a) /\ b[i] = a[p + i]
  BY <1>1, <1>4
<1>6. \A i \in 1..Len(c) : p + Len(b) + i \in 1..Len(a) /\ c[i] = a[p + Len(b) + i]
  <2> TAKE i \in 1..Len(c)
  <2>1. n + i \in 1..Len(q) /\ p + (n + i) = p + Len(b) + i
    BY <1>1, <1>2
  <2> QED BY <1>1, <1>4, <2>1
<1>7. p + Len(b) + Len(c) = Len(a)
  <2>1. p + Len(q) = Len(a) /\ Len(b) = n /\ Len(c) = Len(q) - n
    BY <1>1, <1>4
  <2>2. Len(q) \in Nat /\ n \in Nat
    BY <1>2
  <2> HIDE DEF b, c
  <2>3. p + n + (Len(q) - n) = p + Len(q)
    BY <2>2
  <2> QED BY <2>1, <2>3
<1>8. Latest(b, c, a)
  BY <1>5, <1>6, <1>7 DEF Latest, EndFrom
<1> QED BY <1>8 DEF b, c

(* ... and when it has been pushed or given up.                            *)
LEMMA LatestDone ==
  ASSUME NEW S, NEW a \in Seq(S), NEW b \in Seq(S), NEW c \in Seq(S), Latest(b, c, a)
  PROVE  Latest(<<>>, c, a) /\ Latest(<<>>, <<>>, a)
<1>1. Len(a) \in Nat /\ Len(b) \in Nat /\ Len(c) \in Nat /\ Len(<<>>) = 0
  OBVIOUS
<1>2. PICK n \in Nat : EndFrom(n, b, c, a)
  BY DEF Latest
<1> DEFINE m == n + Len(b)
<1>3. m \in Nat /\ m + 0 + Len(c) = Len(a)
      /\ \A i \in 1..Len(c) : m + 0 + i \in 1..Len(a) /\ c[i] = a[m + 0 + i]
  BY <1>1, <1>2 DEF EndFrom
<1> HIDE DEF m
<1>4. \A i \in 1..0 : FALSE
  OBVIOUS
<1>5. EndFrom(m, <<>>, c, a)
  BY <1>1, <1>3, <1>4 DEF EndFrom
<1>6. EndFrom(Len(a), <<>>, <<>>, a)
  BY <1>1, <1>4 DEF EndFrom
<1> QED BY <1>1, <1>3, <1>5, <1>6 DEF Latest

(* The order survives a record that is accepted and a batch that is done.  *)
LEMMA OrderKept ==
  ASSUME NEW S, NEW a \in Seq(S), NEW b \in Seq(S), NEW r \in Seq(S), NEW x \in S, Ordered(r, b, a)
  PROVE  Ordered(r, b, Append(a, x)) /\ Ordered(r, <<>>, a)
<1> DEFINE e == Append(a, x)
<1>1. ToSet(a) \subseteq ToSet(e)
  BY InAppended
<1>2. Len(a) \in Nat /\ \A i \in 1..Len(a) : i \in 1..Len(e) /\ e[i] = a[i]
  OBVIOUS
<1> HIDE DEF e
<1>3. \A y, z : Later(y, z, a) => Later(y, z, e)
  BY <1>2 DEF Later
<1>4. Ordered(r, b, e)
  BY <1>1, <1>3 DEF Ordered
<1>5. Ordered(r, <<>>, a)
  <2>1. \A j \in 1..Len(<<>>) : FALSE
    OBVIOUS
  <2> QED BY <2>1 DEF Ordered
<1> QED BY <1>4, <1>5 DEF e

(* A batch goes to Redis, for good or to be sent again.                    *)
LEMMA OrderPushed ==
  ASSUME NEW S, NEW a \in Seq(S), NEW b \in Seq(S), NEW c \in Seq(S), NEW r \in Seq(S),
         OneToOne(a), Latest(b, c, a), Ordered(r, b, a)
  PROVE  Ordered(r \o b, b, a)
<1> DEFINE s == r \o b
<1>1. /\ Len(r) \in Nat /\ Len(b) \in Nat
      /\ \A i \in 1..Len(r) : i \in 1..Len(s) /\ s[i] = r[i]
      /\ \A i \in 1..Len(b) : Len(r) + i \in 1..Len(s) /\ s[Len(r) + i] = b[i]
      /\ \A i \in 1..Len(s) : i \in 1..Len(r) \/ i - Len(r) \in 1..Len(b)
      /\ ToSet(s) = ToSet(r) \cup ToSet(b) /\ Len(s) = Len(r) + Len(b)
  BY InBoth
<1>2. ToSet(s) \subseteq ToSet(a)
  BY <1>1, LatestParts DEF Ordered
<1>3. PICK n \in Nat : \A i \in 1..Len(b) : n + i \in 1..Len(a) /\ b[i] = a[n + i]
  BY DEF Latest, EndFrom
<1> HIDE DEF s
<1>4. \A i, j \in 1..Len(b) : i < j => Later(b[i], b[j], a)
  <2> TAKE i, j \in 1..Len(b)
  <2>1. ASSUME i < j PROVE n + i < n + j
    BY <1>3, <2>1
  <2> QED BY <1>3, <2>1 DEF Later
<1>5. \A i \in 1..Len(s) : \/ i \in 1..Len(r) /\ s[i] = r[i]
                          \/ \E k \in 1..Len(b) : i = Len(r) + k /\ s[i] = b[k]
  <2> TAKE i \in 1..Len(s)
  <2>1. CASE i \in 1..Len(r)
    BY <1>1, <2>1
  <2>2. CASE i - Len(r) \in 1..Len(b)
    <3>1. i = Len(r) + (i - Len(r))
      BY <1>1
    <3> QED BY <1>1, <2>2, <3>1
  <2> QED BY <1>1, <2>1, <2>2
<1>6. ASSUME NEW i \in 1..Len(s), NEW j \in 1..Len(b)
      PROVE  Later(s[i], b[j], a) \/ \E k \in 1..i : s[k] = b[j]
  <2>1. CASE i \in 1..Len(r)
    <3>1. s[i] = r[i] /\ \A k \in 1..i : k \in 1..Len(r) /\ s[k] = r[k]
      BY <1>1, <2>1
    <3>2. Later(r[i], b[j], a) \/ \E k \in 1..i : r[k] = b[j]
      BY <2>1 DEF Ordered
    <3> QED BY <3>1, <3>2
  <2>2. ASSUME NEW k \in 1..Len(b), i = Len(r) + k, s[i] = b[k] 
        PROVE  Later(s[i], b[j], a) \/ \E l \in 1..i : s[l] = b[j]
    <3>1. CASE k < j
      BY <1>4, <2>2, <3>1
    <3>2. CASE ~(k < j)
      <4>1. Len(r) + j \in 1..i /\ s[Len(r) + j] = b[j]
        BY <1>1, <2>2, <3>2
      <4> QED BY <4>1
    <3> QED BY <3>1, <3>2
  <2> QED BY <1>5, <2>1, <2>2
<1>7. ASSUME NEW i \in 1..Len(s), NEW j \in 1..Len(s), i < j
      PROVE  Later(s[i], s[j], a) \/ \E k \in 1..i : s[k] = s[j]
  <2>1. CASE j \in 1..Len(r)
    <3>1. i \in 1..Len(r) /\ \A k \in 1..i : k \in 1..Len(r)
      BY <1>1, <1>7, <2>1
    <3>2. s[j] = r[j] /\ s[i] = r[i] /\ \A k \in 1..i : s[k] = r[k]
      BY <1>1, <2>1, <3>1
    <3>3. Later(r[i], r[j], a) \/ \E k \in 1..i : r[k] = r[j]
      BY <1>7, <2>1, <3>1 DEF Ordered
    <3> QED BY <3>2, <3>3
  <2>2. ASSUME NEW l \in 1..Len(b), j = Len(r) + l, s[j] = b[l]
        PROVE  Later(s[i], s[j], a) \/ \E k \in 1..i : s[k] = s[j]
    BY <1>6, <2>2
  <2> QED BY <1>5, <2>1, <2>2
<1>8. Ordered(s, b, a)
  BY <1>2, <1>6, <1>7 DEF Ordered
<1> QED BY <1>8 DEF s

(* What is in Redis was accepted before what is queued.                    *)
LEMMA BeforeQueued ==
  ASSUME NEW S, NEW a \in Seq(S), NEW b \in Seq(S), NEW c \in Seq(S), NEW x \in ToSet(a),
         Latest(b, c, a), x \notin ToSet(c), NEW j \in 1..Len(c)
  PROVE  Later(x, c[j], a)
<1>0. PICK n \in Nat :
        /\ \A i \in 1..Len(c) : n + Len(b) + i \in 1..Len(a) /\ c[i] = a[n + Len(b) + i]
        /\ n + Len(b) + Len(c) = Len(a)
  BY DEF Latest, EndFrom
<1>1. Len(a) \in Nat /\ Len(b) \in Nat /\ Len(c) \in Nat
  OBVIOUS
<1>2. PICK i \in 1..Len(a) : a[i] = x
  BY InSequence
<1>3. i <= n + Len(b)
  <2> SUFFICES ASSUME ~(i <= n + Len(b)) PROVE FALSE
    OBVIOUS
  <2> DEFINE k == i - n - Len(b)
  <2>1. k \in 1..Len(c) /\ n + Len(b) + k = i
    BY <1>0, <1>1
  <2>2. c[k] = x
    BY <1>0, <1>2, <2>1
  <2> QED BY <2>1, <2>2, InSequence
<1>4. i < n + Len(b) + j
  BY <1>0, <1>1, <1>3
<1> QED BY <1>0, <1>2, <1>4 DEF Later

(* A batch is taken.                                                       *)
LEMMA OrderTaken ==
  ASSUME NEW S, NEW a \in Seq(S), NEW q \in Seq(S), NEW r \in Seq(S), NEW n \in 1..Len(q),
         Latest(<<>>, q, a), Ordered(r, <<>>, a), ToSet(r) \cap ToSet(q) = {}
  PROVE  Ordered(r, SubSeq(q, 1, n), a)
<1> DEFINE b == SubSeq(q, 1, n)
<1>1. \A i \in 1..Len(b) : i \in 1..Len(q) /\ b[i] = q[i]
  BY InHalves
<1> HIDE DEF b
<1>0. <<>> \in Seq(S)
  OBVIOUS
<1>2. ASSUME NEW i \in 1..Len(r), NEW j \in 1..Len(b) PROVE Later(r[i], b[j], a)
  <2>1. r[i] \in ToSet(r) /\ r[i] \in ToSet(a) /\ r[i] \notin ToSet(q)
    BY InSequence DEF Ordered
  <2>2. Later(r[i], q[j], a)
    BY <1>0, <1>1, <2>1, BeforeQueued
  <2> QED BY <1>1, <2>2
<1>3. Ordered(r, b, a)
  BY <1>2 DEF Ordered
<1> QED BY <1>3 DEF b

(* The records z are in the order of acceptance, but for what has been     *)
(* there before.                                                           *)
InOrder(z, a) ==
  \A i, j \in 1..Len(z) : i < j => Later(z[i], z[j], a) \/ \E k \in 1..i : z[k] = z[j]

(* Redis, the batch and the queue in a row.                                *)
LEMMA AllOrdered ==
  ASSUME NEW S, NEW a \in Seq(S), NEW b \in Seq(S), NEW c \in Seq(S), NEW r \in Seq(S),
         OneToOne(a), Latest(b, c, a), Ordered(r, b, a), ToSet(r) \cap ToSet(c) = {},
         NEW z, z = (r \o b) \o c
  PROVE  /\ z \in Seq(S)
         /\ InOrder(z, a)
<1> DEFINE s == r \o b
<1>0. z = s \o c
  OBVIOUS
<1>1. s \in Seq(S) /\ ToSet(s) = ToSet(r) \cup ToSet(b) /\ Ordered(s, b, a)
  BY InBoth, OrderPushed
<1> HIDE DEF s
<1>2. /\ z \in Seq(S) /\ Len(s) \in Nat /\ Len(c) \in Nat /\ Len(z) = Len(s) + Len(c)
      /\ \A i \in 1..Len(s) : i \in 1..Len(z) /\ z[i] = s[i]
      /\ \A i \in 1..Len(c) : Len(s) + i \in 1..Len(z) /\ z[Len(s) + i] = c[i]
      /\ \A i \in 1..Len(z) : i \in 1..Len(s) \/ i - Len(s) \in 1..Len(c)
  BY <1>0, <1>1, InBoth
<1>3. \A i \in 1..Len(s) : s[i] \in ToSet(a) /\ s[i] \notin ToSet(c)
  <2> TAKE i \in 1..Len(s)
  <2>1. s[i] \in ToSet(s)
    BY <1>1, InSequence
  <2>2. ToSet(b) \cap ToSet(c) = {}
    BY LatestParts
  <2> QED BY <1>1, <2>1, <2>2 DEF Ordered
<1>4. \A i \in 1..Len(z) : \/ i \in 1..Len(s) /\ z[i] = s[i]
                          \/ \E k \in 1..Len(c) : i = Len(s) + k /\ z[i] = c[k]
  <2> TAKE i \in 1..Len(z)
  <2>1. CASE i \in 1..Len(s)
    BY <1>2, <2>1
  <2>2. CASE i - Len(s) \in 1..Len(c)
    <3>1. i = Len(s) + (i - Len(s))
      BY <1>2
    <3> QED BY <1>2, <2>2, <3>1
  <2> QED BY <1>2, <2>1, <2>2
<1>5. ASSUME NEW i \in 1..Len(z), NEW j \in 1..Len(z), i < j
      PROVE  Later(z[i], z[j], a) \/ \E k \in 1..i : z[k] = z[j]
  <2>1. CASE j \in 1..Len(s)
    <3>1. i \in 1..Len(s) /\ \A k \in 1..i : k \in 1..Len(s)
      BY <1>2, <1>5, <2>1
    <3>2. z[j] = s[j] /\ z[i] = s[i] /\ \A k \in 1..i : z[k] = s[k]
      BY <1>2, <2>1, <3>1
    <3>3. Later(s[i], s[j], a) \/ \E k \in 1..i : s[k] = s[j]
      BY <1>1, <1>5, <2>1, <3>1 DEF Ordered
    <3> QED BY <3>2, <3>3
  <2>2. ASSUME NEW l \in 1..Len(c), j = Len(s) + l, z[j] = c[l] PROVE Later(z[i], z[j], a)
    <3>1. CASE i \in 1..Len(s)
      <4>1. z[i] \in ToSet(a) /\ z[i] \notin ToSet(c)
        BY <1>2, <1>3, <3>1
      <4> QED BY <2>2, <4>1, BeforeQueued
    <3>2. ASSUME NEW k \in 1..Len(c), i = Len(s) + k, z[i] = c[k] PROVE Later(z[i], z[j], a)
      <4>1. k < l
        BY <1>2, <1>5, <2>2, <3>2
      <4>2. PICK n \in Nat : \A m \in 1..Len(c) : n + Len(b) + m \in 1..Len(a) /\ c[m] = a[n + Len(b) + m]
        BY DEF Latest, EndFrom
      <4>3. n + Len(b) + k < n + Len(b) + l
        <5>1. Len(b) \in Nat
          OBVIOUS
        <5> QED BY <4>1, <5>1
      <4> QED BY <2>2, <3>2, <4>2, <4>3 DEF Later
    <3> QED BY <1>4, <3>1, <3>2
  <2> QED BY <1>4, <2>1, <2>2
<1> QED BY <1>2, <1>5 DEF InOrder

-----------------------------------------------------------------------------
(* The way of a log record: its invariant                                  *)

(* The records.                                                            *)
LogRecords == 1..Logs

(* The types, with those of the sequences.                                 *)
LogTypes ==
  /\ LogTypeOK
  /\ handlerQ \in Seq(LogRecords) /\ batchQ \in Seq(LogRecords) /\ batch \in Seq(LogRecords)
  /\ redis \in Seq(LogRecords) /\ file \in Seq(LogRecords) /\ arrived \in Seq(LogRecords)
  /\ wire \in SUBSET LogRecords

(* A record is in the handler's queue, in a call or accepted, and once.    *)
HandedOver ==
  /\ OneToOne(handlerQ) /\ OneToOne(arrived)
  /\ ToSet(handlerQ) \cap wire = {}
  /\ (ToSet(handlerQ) \cup wire) \cap ToSet(arrived) = {}
  /\ ToSet(handlerQ) \cup wire \cup ToSet(arrived) \subseteq 1..emitted

(* None is missing, and only a batch may be stored or lost already.        *)
Places ==
  /\ 1..emitted = OnTheWay \cup Stored \cup gone
  /\ (OnTheWay \ ToSet(batch)) \cap (Stored \cup gone) = {}

(* The inductive invariant behind LogsAccounted: what the batcher holds is *)
(* the end of what was accepted, so that its order is the one of Redis.    *)
LogInv ==
  /\ LogTypes /\ HandedOver /\ Places
  /\ Latest(batch, batchQ, arrived)
  /\ Ordered(redis, batch, arrived)

(* What the steps use of it.                                               *)
LEMMA LogFacts ==
  ASSUME LogInv
  PROVE  /\ LogTypeOK /\ Logs \in Nat /\ emitted \in Nat /\ emitted <= Logs
         /\ handlerQ \in Seq(LogRecords) /\ batchQ \in Seq(LogRecords) /\ batch \in Seq(LogRecords)
         /\ redis \in Seq(LogRecords) /\ file \in Seq(LogRecords) /\ arrived \in Seq(LogRecords)
         /\ wire \in SUBSET LogRecords /\ gone \in SUBSET LogRecords
         /\ ToSet(batch) \cap ToSet(batchQ) = {}
         /\ ToSet(batch) \cup ToSet(batchQ) \subseteq ToSet(arrived)
         /\ ToSet(redis) \cap ToSet(batchQ) = {}
         /\ ToSet(arrived) \subseteq LogRecords /\ ToSet(handlerQ) \subseteq LogRecords
<1>1. /\ LogTypeOK /\ Logs \in Nat /\ emitted \in Nat /\ emitted <= Logs
      /\ handlerQ \in Seq(LogRecords) /\ batchQ \in Seq(LogRecords) /\ batch \in Seq(LogRecords)
      /\ redis \in Seq(LogRecords) /\ file \in Seq(LogRecords) /\ arrived \in Seq(LogRecords)
      /\ wire \in SUBSET LogRecords /\ gone \in SUBSET LogRecords
  BY LogPathAssumption DEF LogInv, LogTypes, LogTypeOK, LogRecords
<1>2. ToSet(batch) \cap ToSet(batchQ) = {} /\ ToSet(batch) \cup ToSet(batchQ) \subseteq ToSet(arrived)
  BY <1>1, LatestParts DEF LogInv, HandedOver
<1>3. ToSet(redis) \cap ToSet(batchQ) = {}
  BY <1>2 DEF LogInv, Places, OnTheWay, Stored
<1>4. ToSet(arrived) \subseteq LogRecords /\ ToSet(handlerQ) \subseteq LogRecords
  BY <1>1, InSequence
<1> QED BY <1>1, <1>2, <1>3, <1>4

(* A step that moves no record.                                            *)
LEMMA LogSame ==
  ASSUME LogInv, LogTypeOK', UNCHANGED <<handlerQ, wire, batchQ, batch, redis, file, gone, arrived, emitted>>
  PROVE  LogInv'
<1>1. UNCHANGED <<handlerQ, wire, batchQ, batch, redis, file, gone, arrived, emitted>>
  OBVIOUS
<1> QED BY <1>1 DEF LogInv, LogTypes, HandedOver, Places, OnTheWay, Stored

(* The empty sequence.                                                     *)
LEMMA NoRecords == ToSet(<<>>) = {} /\ OneToOne(<<>>) /\ \A S : <<>> \in Seq(S)
BY DEF ToSet, OneToOne

(* A record is emitted.                                                    *)
LEMMA EmitAccounted == LogInv /\ Emit => LogInv'
<1> SUFFICES ASSUME LogInv, Emit PROVE LogInv'
  OBVIOUS
<1> DEFINE x == emitted + 1
<1>0. LogTypeOK /\ HandedOver /\ Places
  BY DEF LogInv, LogTypes
<1>1. /\ emitted' = x /\ x \in LogRecords /\ x \in Nat /\ x \notin 1..emitted
      /\ 1..x = (1..emitted) \cup {x} /\ x \in 0..Logs
      /\ UNCHANGED <<client, wire, process, batchQ, batch, store, arrived>>
  BY LogFacts DEF Emit, LogRecords
<1>2. x \notin ToSet(handlerQ) \cup wire \cup ToSet(batchQ) \cup ToSet(batch) \cup Stored \cup gone \cup ToSet(arrived)
  BY <1>0, <1>1 DEF Places, OnTheWay, HandedOver
<1> HIDE DEF x
<1>3. CASE Len(handlerQ) < QueueSize /\ handlerQ' = Append(handlerQ, x) /\ UNCHANGED gone
  <2>1. ToSet(handlerQ') = ToSet(handlerQ) \cup {x} /\ OneToOne(handlerQ') /\ handlerQ' \in Seq(LogRecords)
    BY <1>0, <1>1, <1>2, <1>3, LogFacts, InAppended, StillOneToOne DEF HandedOver
  <2>2. Len(handlerQ') <= QueueSize
    <3>1. Len(handlerQ') = Len(handlerQ) + 1 /\ Len(handlerQ) \in Nat
      BY <1>3, LogFacts
    <3>2. QueueSize \in Nat
      BY LogPathAssumption
    <3> QED BY <1>3, <3>1, <3>2
  <2>3. LogTypes'
    BY <1>0, <1>1, <1>3, <2>1, <2>2, LogFacts DEF LogTypes, LogTypeOK, LogInv, client, process, store
  <2>4. HandedOver'
    BY <1>0, <1>1, <1>2, <2>1 DEF HandedOver
  <2>5. Places'
    BY <1>0, <1>1, <1>2, <1>3, <2>1 DEF Places, OnTheWay, Stored, store
  <2> QED BY <1>1, <2>3, <2>4, <2>5 DEF LogInv, store
<1>4. CASE gone' = gone \cup {x} /\ UNCHANGED handlerQ
  <2>1. LogTypes'
    BY <1>0, <1>1, <1>4, LogFacts DEF LogTypes, LogTypeOK, LogInv, client, process, store, LogRecords
  <2>2. HandedOver'
    BY <1>0, <1>1, <1>2, <1>4 DEF HandedOver
  <2>3. Places'
    BY <1>0, <1>1, <1>2, <1>4 DEF Places, OnTheWay, Stored, store
  <2> QED BY <1>1, <2>1, <2>2, <2>3 DEF LogInv, store
<1> QED BY <1>1, <1>3, <1>4 DEF Emit, Lose

(* Its call begins.                                                        *)
LEMMA ShipAccounted == LogInv /\ Ship => LogInv'
<1> SUFFICES ASSUME LogInv, Ship PROVE LogInv'
  OBVIOUS
<1> DEFINE x == Head(handlerQ)
           rest == Tail(handlerQ)
<1>0. LogTypeOK /\ HandedOver /\ Places
  BY DEF LogInv, LogTypes
<1>1. /\ handlerQ # <<>> /\ wire' = wire \cup {x} /\ handlerQ' = rest
      /\ UNCHANGED <<client, process, batchQ, batch, store, gone, arrived, emitted>>
  BY DEF Ship
<1>2. /\ ToSet(handlerQ) = {x} \cup ToSet(rest) /\ OneToOne(rest) /\ x \notin ToSet(rest)
      /\ rest \in Seq(LogRecords) /\ Len(rest) <= Len(handlerQ) /\ x \in LogRecords
  <2>1. ToSet(handlerQ) = {x} \cup ToSet(rest) /\ OneToOne(rest) /\ x \notin ToSet(rest)
    BY <1>0, <1>1, LogFacts, InTail DEF HandedOver
  <2>2. rest \in Seq(LogRecords) /\ Len(rest) <= Len(handlerQ) /\ x \in LogRecords
    BY <1>1, LogFacts
  <2> QED BY <2>1, <2>2
<1> HIDE DEF x, rest
<1>3. Len(rest) <= QueueSize
  <2>1. Len(rest) \in Nat /\ Len(handlerQ) \in Nat /\ QueueSize \in Nat
    BY <1>2, LogFacts, LogPathAssumption
  <2> QED BY <1>0, <1>2, <2>1 DEF LogTypeOK
<1>4. LogTypes'
  BY <1>0, <1>1, <1>2, <1>3, LogFacts DEF LogTypes, LogTypeOK, LogInv, client, process, store
<1>5. HandedOver'
  BY <1>0, <1>1, <1>2 DEF HandedOver
<1>6. Places'
  BY <1>0, <1>1, <1>2 DEF Places, OnTheWay, Stored, store
<1> QED BY <1>1, <1>4, <1>5, <1>6 DEF LogInv, store

(* Its call fails or is rejected.                                          *)
LEMMA LossAccounted ==
  ASSUME LogInv, NEW x \in wire, wire' = wire \ {x}, gone' = gone \cup {x},
         UNCHANGED <<client, handlerQ, process, batchQ, batch, store, arrived, emitted>>
  PROVE  LogInv'
<1>0. LogTypeOK /\ HandedOver /\ Places
  BY DEF LogInv, LogTypes
<1>1. /\ wire' = wire \ {x} /\ gone' = gone \cup {x} /\ x \in LogRecords
      /\ UNCHANGED <<client, handlerQ, process, batchQ, batch, store, arrived, emitted>>
  BY LogFacts
<1>2. x \notin ToSet(handlerQ) \cup ToSet(arrived) \cup ToSet(batch) \cup ToSet(batchQ) 
  BY <1>0, LogFacts DEF HandedOver
<1>3. LogTypes'
  BY <1>0, <1>1, LogFacts DEF LogTypes, LogTypeOK, LogInv, client, process, store, LogRecords
<1>4. HandedOver'
  BY <1>0, <1>1 DEF HandedOver
<1>5. Places'
  BY <1>0, <1>1, <1>2 DEF Places, OnTheWay, Stored, store
<1> QED BY <1>1, <1>3, <1>4, <1>5 DEF LogInv, store

(* It is accepted.                                                         *)
LEMMA AddAccounted ==
  ASSUME LogInv, NEW x \in wire, wire' = wire \ {x}, batchQ' = Append(batchQ, x),
         arrived' = Append(arrived, x),
         UNCHANGED <<client, handlerQ, process, batch, store, gone, emitted>>
  PROVE  LogInv'
<1>0. LogTypeOK /\ HandedOver /\ Places
  BY DEF LogInv, LogTypes
<1>1. /\ wire' = wire \ {x} /\ batchQ' = Append(batchQ, x) /\ arrived' = Append(arrived, x) /\ x \in LogRecords
      /\ UNCHANGED <<client, handlerQ, process, batch, store, gone, emitted>>
  BY LogFacts
<1>2. x \notin ToSet(handlerQ) \cup ToSet(arrived) \cup ToSet(batch) \cup ToSet(batchQ) \cup Stored \cup gone
  BY <1>0, LogFacts DEF HandedOver, Places, OnTheWay
<1>3. /\ ToSet(batchQ') = ToSet(batchQ) \cup {x} /\ ToSet(arrived') = ToSet(arrived) \cup {x}
      /\ batchQ' \in Seq(LogRecords) /\ arrived' \in Seq(LogRecords) /\ OneToOne(arrived')
  BY <1>0, <1>1, <1>2, LogFacts, InAppended, StillOneToOne DEF HandedOver
<1>4. LogTypes'
  BY <1>0, <1>1, <1>3, LogFacts DEF LogTypes, LogTypeOK, LogInv, client, process, store
<1>5. HandedOver'
  BY <1>0, <1>1, <1>2, <1>3 DEF HandedOver
<1>6. Places'
  BY <1>0, <1>1, <1>2, <1>3 DEF Places, OnTheWay, Stored, store
<1>7. Latest(batch', batchQ', arrived')
  BY <1>1, LogFacts, LatestPut DEF LogInv
<1>8. Ordered(redis', batch', arrived')
  BY <1>1, LogFacts, OrderKept DEF LogInv, store
<1> QED BY <1>4, <1>5, <1>6, <1>7, <1>8 DEF LogInv

(* A batch is taken.                                                       *)
LEMMA TakeAccounted == LogInv /\ Take => LogInv'
<1> SUFFICES ASSUME LogInv, Take PROVE LogInv'
  OBVIOUS
<1> DEFINE n == IF Len(batchQ) < BatchSize THEN Len(batchQ) ELSE BatchSize
           u == SubSeq(batchQ, 1, n)
           v == SubSeq(batchQ, n + 1, Len(batchQ))
<1>0. LogTypeOK /\ HandedOver /\ Places
  BY DEF LogInv, LogTypes
<1>1. /\ batch = <<>> /\ batchQ # <<>> /\ batch' = u /\ batchQ' = v
      /\ UNCHANGED <<client, handlerQ, wire, process, store, gone, arrived, emitted>>
  BY DEF Take
<1>2. n \in 1..Len(batchQ) /\ n <= BatchSize
  <2>1. Len(batchQ) \in Nat /\ Len(batchQ) > 0
    BY <1>1, LogFacts
  <2>2. BatchSize \in Nat /\ BatchSize > 0
    BY LogPathAssumption
  <2> QED BY <2>1, <2>2
<1> HIDE DEF n
<1>3. /\ u \in Seq(LogRecords) /\ v \in Seq(LogRecords) /\ Len(u) = n
      /\ ToSet(u) \cup ToSet(v) = ToSet(batchQ)
  BY <1>2, LogFacts, InHalves
<1>4. Latest(u, v, arrived)
  BY <1>1, <1>2, LogFacts, LatestTake DEF LogInv
<1>5. Ordered(redis, u, arrived)
  BY <1>1, <1>2, LogFacts, OrderTaken DEF LogInv
<1> HIDE DEF u, v
<1>6. LogTypes'
  BY <1>0, <1>1, <1>2, <1>3, LogFacts DEF LogTypes, LogTypeOK, LogInv, client, process, store
<1>7. HandedOver'
  BY <1>0, <1>1 DEF HandedOver
<1>8. Places'
  BY <1>0, <1>1, <1>3, NoRecords DEF Places, OnTheWay, Stored, store
<1> QED BY <1>1, <1>4, <1>5, <1>6, <1>7, <1>8 DEF LogInv, store

(* What is done with a batch: S is lost of it.                             *)
LEMMA BatchAccounted ==
  ASSUME LogInv, redis' \in {redis, redis \o batch}, file' \in {file, file \o batch},
         NEW S \in SUBSET ToSet(batch), gone' = gone \cup S,
         ToSet(batch) \subseteq ToSet(redis') \cup ToSet(file') \cup S,
         batch' = <<>>, LogTypeOK',
         UNCHANGED <<handlerQ, wire, batchQ, arrived, emitted>>
  PROVE  LogInv'
<1>0. LogTypeOK /\ HandedOver /\ Places
  BY DEF LogInv, LogTypes
<1>1. /\ batch' = <<>> /\ gone' = gone \cup S /\ ToSet(batch') = {}
      /\ UNCHANGED <<handlerQ, wire, batchQ, arrived, emitted>>
  BY NoRecords
<1>2. /\ redis' \in Seq(LogRecords) /\ file' \in Seq(LogRecords)
      /\ ToSet(redis') \subseteq ToSet(redis) \cup ToSet(batch) /\ ToSet(redis) \subseteq ToSet(redis')
      /\ ToSet(file') \subseteq ToSet(file) \cup ToSet(batch) /\ ToSet(file) \subseteq ToSet(file')
  <2>1. redis \o batch \in Seq(LogRecords) /\ ToSet(redis \o batch) = ToSet(redis) \cup ToSet(batch)
    BY LogFacts, InBoth
  <2>2. file \o batch \in Seq(LogRecords) /\ ToSet(file \o batch) = ToSet(file) \cup ToSet(batch)
    BY LogFacts, InBoth
  <2> QED BY <2>1, <2>2, LogFacts
<1>3. LogTypes'
  BY <1>1, <1>2, LogFacts, NoRecords DEF LogTypes
<1>4. HandedOver'
  BY <1>0, <1>1 DEF HandedOver
<1>5. Places'
  <2>1. (ToSet(handlerQ) \cup wire \cup ToSet(batchQ)) \cap ToSet(batch) = {}
    BY <1>0, LogFacts DEF HandedOver
  <2>2. ToSet(batch) \subseteq Stored' \cup gone'
    BY <1>1 DEF Stored
  <2> QED BY <1>0, <1>1, <1>2, <2>1, <2>2 DEF Places, OnTheWay, Stored
<1>6. Latest(batch', batchQ', arrived')
  BY <1>1, LogFacts, LatestDone DEF LogInv
<1>7. Ordered(redis', batch', arrived')
  <2>1. Ordered(redis \o batch, batch, arrived) /\ redis \o batch \in Seq(LogRecords)
    BY LogFacts, OrderPushed, InBoth DEF LogInv, HandedOver
  <2>2. Ordered(redis, batch, arrived)
    BY DEF LogInv
  <2>3. Ordered(redis', batch, arrived)
    BY <2>1, <2>2
  <2>4. Logs \in Nat => \A r \in Seq(LogRecords) : Ordered(r, batch, arrived) => Ordered(r, <<>>, arrived)
    <3>1. \A j \in 1..Len(<<>>) : FALSE
      OBVIOUS
    <3> QED BY <3>1 DEF Ordered
  <2> QED BY <1>1, <1>2, <2>3, <2>4, LogFacts
<1> QED BY <1>3, <1>4, <1>5, <1>6, <1>7 DEF LogInv

(* A batch is pushed, or not.                                              *)
LEMMA PushAccounted == LogInv /\ Push => LogInv'
<1> SUFFICES ASSUME LogInv, Push PROVE LogInv'
  OBVIOUS
<1>1. /\ batch' = <<>>
      /\ UNCHANGED <<client, handlerQ, wire, process, redisUp, outages, arrived, emitted>>
  BY DEF Push
<1>2. /\ ToSet(redis \o batch) = ToSet(redis) \cup ToSet(batch)
      /\ ToSet(file \o batch) = ToSet(file) \cup ToSet(batch) /\ ToSet(batch) \subseteq LogRecords
      /\ Len(<<>>) <= BatchSize
  <2>1. ToSet(redis \o batch) = ToSet(redis) \cup ToSet(batch)
    BY LogFacts, InBoth
  <2>2. ToSet(file \o batch) = ToSet(file) \cup ToSet(batch) /\ ToSet(batch) \subseteq LogRecords
    BY LogFacts, InBoth, InSequence
  <2> QED BY <2>1, <2>2, LogPathAssumption
<1>3. CASE redis' = redis \o batch /\ UNCHANGED <<batchQ, file, gone>>
  <2>1. LogTypeOK'
    BY <1>1, <1>2, <1>3, LogFacts DEF LogTypeOK, client, process
  <2>2. {} \in SUBSET ToSet(batch) /\ gone' = gone \cup {}
    BY <1>3
  <2> QED BY <1>1, <1>2, <1>3, <2>1, <2>2, BatchAccounted
<1>4. ASSUME NEW applied \in BOOLEAN, Fallback(applied) PROVE LogInv'
  <2>1. redis' \in {redis, redis \o batch} /\ UNCHANGED batchQ
    BY <1>4 DEF Fallback
  <2>2. CASE file' = file \o batch /\ UNCHANGED gone
    <3>1. LogTypeOK'
      BY <1>1, <1>2, <2>1, <2>2, LogFacts DEF LogTypeOK, client, process
    <3>2. {} \in SUBSET ToSet(batch) /\ gone' = gone \cup {}
      BY <2>2
    <3> QED BY <1>1, <1>2, <2>1, <2>2, <3>1, <3>2, BatchAccounted
  <2>3. CASE gone' = gone \cup ToSet(batch) /\ UNCHANGED file
    <3>1. LogTypeOK'
      BY <1>1, <1>2, <2>1, <2>3, LogFacts DEF LogTypeOK, client, process, LogRecords
    <3> QED BY <1>1, <1>2, <2>1, <2>3, <3>1, BatchAccounted
  <2> QED BY <1>4, <2>2, <2>3 DEF Fallback, Lose
<1> QED BY <1>3, <1>4 DEF Push

(* ... and sent again.                                                     *)
LEMMA PushAgainAccounted == LogInv /\ PushAgain => LogInv'
<1> SUFFICES ASSUME LogInv, PushAgain PROVE LogInv'
  OBVIOUS
<1>0. LogTypeOK /\ HandedOver /\ Places
  BY DEF LogInv, LogTypes
<1>1. /\ redis' = redis \o batch
      /\ UNCHANGED <<client, handlerQ, wire, process, batchQ, batch, redisUp, file, gone, arrived, emitted>>
  BY DEF PushAgain
<1>2. redis' \in Seq(LogRecords) /\ ToSet(redis') = ToSet(redis) \cup ToSet(batch)
  BY <1>1, LogFacts, InBoth
<1>3. LogTypes'
  BY <1>0, <1>1, <1>2, LogFacts DEF LogTypes, LogTypeOK, client, process
<1>4. HandedOver'
  BY <1>0, <1>1 DEF HandedOver
<1>5. Places'
  <2>1. (ToSet(handlerQ) \cup wire \cup ToSet(batchQ)) \cap ToSet(batch) = {}
    BY <1>0, LogFacts DEF HandedOver
  <2> QED BY <1>0, <1>1, <1>2, <2>1 DEF Places, OnTheWay, Stored
<1>6. Ordered(redis', batch', arrived')
  BY <1>1, LogFacts, OrderPushed DEF LogInv, HandedOver
<1> QED BY <1>1, <1>3, <1>4, <1>5, <1>6 DEF LogInv

(* The server ends.                                                        *)
LEMMA ExitAccounted == LogInv /\ ServerExits => LogInv'
<1> SUFFICES ASSUME LogInv, ServerExits PROVE LogInv'
  OBVIOUS
<1>0. LogTypeOK /\ HandedOver /\ Places
  BY DEF LogInv, LogTypes
<1>1. /\ telemetry' = "down" /\ batch' = <<>> /\ batchQ' = <<>>
      /\ UNCHANGED <<client, handlerQ, wire, redisUp, file, outages, arrived, emitted>>
      /\ \/ gone' = gone \cup ToSet(batch \o batchQ) /\ UNCHANGED redis
         \/ gone' = gone \cup ToSet(batchQ) /\ redis' = redis \o batch
  BY DEF ServerExits, Lose
<1>2. /\ ToSet(redis \o batch) = ToSet(redis) \cup ToSet(batch)
      /\ ToSet(batch \o batchQ) = ToSet(batch) \cup ToSet(batchQ)
      /\ redis \o batch \in Seq(LogRecords)
      /\ ToSet(batch) \subseteq LogRecords /\ ToSet(batchQ) \subseteq LogRecords
  <2>1. ToSet(redis \o batch) = ToSet(redis) \cup ToSet(batch) /\ redis \o batch \in Seq(LogRecords)
    BY LogFacts, InBoth
  <2>2. ToSet(batch \o batchQ) = ToSet(batch) \cup ToSet(batchQ)
    BY LogFacts, InBoth
  <2> QED BY <2>1, <2>2, LogFacts, InSequence
<1>3. /\ redis' \in Seq(LogRecords) /\ gone' \in SUBSET LogRecords /\ Len(<<>>) <= BatchSize
      /\ ToSet(redis') \cup gone' = ToSet(redis) \cup gone \cup ToSet(batch) \cup ToSet(batchQ)
  <2>1. Len(<<>>) <= BatchSize
    BY LogPathAssumption
  <2>2. redis \in Seq(LogRecords) /\ gone \in SUBSET LogRecords
    BY LogFacts
  <2>3. CASE gone' = gone \cup ToSet(batch \o batchQ) /\ redis' = redis
    BY <1>2, <2>1, <2>2, <2>3
  <2>4. CASE gone' = gone \cup ToSet(batchQ) /\ redis' = redis \o batch
    <3>1. redis' \in Seq(LogRecords) /\ gone' \in SUBSET LogRecords
      BY <1>2, <2>2, <2>4
    <3>2. ToSet(redis') = ToSet(redis) \cup ToSet(batch)
      BY <1>2, <2>4
    <3> QED BY <2>1, <2>4, <3>1, <3>2
  <2> QED BY <1>1, <2>3, <2>4
<1>4. LogTypes'
  BY <1>0, <1>1, <1>3, LogFacts, NoRecords DEF LogTypes, LogTypeOK, client, LogRecords
<1>5. HandedOver'
  BY <1>0, <1>1 DEF HandedOver
<1>6. Places'
  <2>1. (ToSet(handlerQ) \cup wire) \cap (ToSet(batch) \cup ToSet(batchQ)) = {}
    BY <1>0, LogFacts DEF HandedOver
  <2>2. ToSet(batch') = {} /\ ToSet(batchQ') = {}
    BY <1>1, NoRecords
  <2> QED BY <1>0, <1>1, <1>3, <2>1, <2>2 DEF Places, OnTheWay, Stored
<1>7. Latest(batch', batchQ', arrived')
  BY <1>1, LogFacts, LatestDone DEF LogInv
<1>8. Ordered(redis', batch', arrived')
  <2>1. Ordered(redis \o batch, batch, arrived)
    BY LogFacts, OrderPushed DEF LogInv, HandedOver
  <2>2. \A r : Ordered(r, batch, arrived) => Ordered(r, <<>>, arrived)
    <3>1. \A j \in 1..Len(<<>>) : FALSE
      OBVIOUS
    <3> QED BY <3>1 DEF Ordered
  <2>3. Ordered(redis', batch, arrived)
    BY <1>1, <2>1 DEF LogInv
  <2> QED BY <1>1, <2>2, <2>3
<1> QED BY <1>4, <1>5, <1>6, <1>7, <1>8 DEF LogInv

(* No step breaks it.                                                      *)
LEMMA LogStep == LogInv /\ [LogNext]_logpath => LogInv'
<1> SUFFICES ASSUME LogInv, [LogNext]_logpath PROVE LogInv'
  OBVIOUS
<1>0. LogTypeOK
  BY LogFacts
<1>1. ASSUME NEW s \in Loggers, GetLogger(s) PROVE LogInv'
  <2>1. UNCHANGED <<handlerQ, wire, batchQ, batch, redis, file, gone, arrived, emitted>>
    BY <1>1 DEF GetLogger, store
  <2>2. LogTypeOK'
    BY <1>0, <1>1 DEF GetLogger, LogTypeOK, store, process
  <2> QED BY <2>1, <2>2, LogSame
<1>2. CASE ThreadEnds
  <2>1. UNCHANGED <<handlerQ, wire, batchQ, batch, redis, file, gone, arrived, emitted>>
    BY <1>2 DEF ThreadEnds, store
  <2>2. LogTypeOK'
    BY <1>0, <1>2 DEF ThreadEnds, LogTypeOK, store, process
  <2> QED BY <2>1, <2>2, LogSame
<1>3. CASE RedisFails \/ RedisReturns
  <2>1. UNCHANGED <<handlerQ, wire, batchQ, batch, redis, file, gone, arrived, emitted>>
    BY <1>3 DEF RedisFails, RedisReturns
  <2>2. LogTypeOK'
    BY <1>0, <1>3 DEF RedisFails, RedisReturns, LogTypeOK, client, process
  <2> QED BY <2>1, <2>2, LogSame
<1>4. CASE Stop \/ ServerStarts
  <2>1. UNCHANGED <<handlerQ, wire, batchQ, batch, redis, file, gone, arrived, emitted>>
    BY <1>4 DEF Stop, ServerStarts, store
  <2>2. LogTypeOK'
    BY <1>0, <1>4 DEF Stop, ServerStarts, LogTypeOK, client, store
  <2> QED BY <2>1, <2>2, LogSame
<1>5. CASE UNCHANGED logpath
  <2>1. UNCHANGED <<handlerQ, wire, batchQ, batch, redis, file, gone, arrived, emitted>>
    BY <1>5 DEF logpath, store
  <2>2. LogTypeOK'
    BY <1>0, <1>5 DEF logpath, LogTypeOK, client, store, process
  <2> QED BY <2>1, <2>2, LogSame
<1>6. ASSUME NEW l \in 1..Logs, CallExpires(l) PROVE LogInv'
  BY <1>6, LossAccounted DEF CallExpires, Lose
<1>7. ASSUME NEW l \in 1..Logs, Log(l) PROVE LogInv'
  <2>1. CASE l \in Invalid
    BY <1>7, <2>1, LossAccounted DEF Log, Lose
  <2>2. CASE l \notin Invalid
    BY <1>7, <2>2, AddAccounted DEF Log, Add
  <2> QED BY <2>1, <2>2
<1> QED
  BY <1>1, <1>2, <1>3, <1>4, <1>5, <1>6, <1>7, EmitAccounted, ShipAccounted, TakeAccounted,
     PushAccounted, PushAgainAccounted, ExitAccounted DEF LogNext

(* As many places as records.                                              *)
LEMMA OneToOneCount ==
  ASSUME NEW S, NEW q \in Seq(S), OneToOne(q)
  PROVE  IsFiniteSet(ToSet(q)) /\ Cardinality(ToSet(q)) = Len(q) /\ Len(q) \in Nat
<1>1. Len(q) \in Nat /\ q \in [1..Len(q) -> ToSet(q)]
  BY DEF ToSet
<1>2. \A x \in ToSet(q) : \E i \in 1..Len(q) : q[i] = x
  BY InSequence
<1>3. q \in Bijection(1..Len(q), ToSet(q))
  BY <1>1, <1>2 DEF Bijection, Injection, Surjection, IsInjective, OneToOne
<1>4. IsFiniteSet(1..Len(q)) /\ Cardinality(1..Len(q)) = Len(q)
  BY <1>1, FS_Interval
<1> QED BY <1>1, <1>3, <1>4, FS_Bijection DEF ExistsBijection

(* Disjoint sets.                                                          *)
LEMMA CountBoth ==
  ASSUME NEW S, NEW T, IsFiniteSet(S), IsFiniteSet(T), S \cap T = {}
  PROVE  IsFiniteSet(S \cup T) /\ Cardinality(S \cup T) = Cardinality(S) + Cardinality(T)
<1>1. Cardinality(S) \in Nat /\ Cardinality(T) \in Nat
  BY FS_CardinalityType
<1>2. Cardinality(S \cap T) = 0
  BY FS_EmptySet
<1>3. /\ IsFiniteSet(S \cup T)
      /\ Cardinality(S \cup T) = Cardinality(S) + Cardinality(T) - Cardinality(S \cap T)
  BY FS_Union
<1>4. \A i, j \in Nat : i + j - 0 = i + j
  OBVIOUS
<1> QED BY <1>1, <1>2, <1>3, <1>4

(* The position of a record among those accepted.                          *)
LEMMA PositionLater ==
  ASSUME LogInv, NEW x, NEW y, Later(x, y, arrived)
  PROVE  Position(x) < Position(y)
<1>1. DOMAIN arrived = 1..Len(arrived) /\ OneToOne(arrived)
  BY LogFacts DEF LogInv, HandedOver
<1>2. PICK i \in 1..Len(arrived), j \in 1..Len(arrived) : arrived[i] = x /\ arrived[j] = y /\ i < j
  BY DEF Later
<1>3. Position(x) = i
  BY <1>1, <1>2 DEF Position, OneToOne
<1>4. Position(y) = j
  BY <1>1, <1>2 DEF Position, OneToOne
<1> QED BY <1>2, <1>3, <1>4

(* Every record that was emitted is on its way, stored or lost for a       *)
(* reason the code has, and in one place; logs:ingress holds the records   *)
(* in the order in which Log accepted them: for any number of records,     *)
(* loggers, outages of Redis and restarts of the server, any length of the *)
(* handler's queue and any size of a batch.                                *)
THEOREM NoRecordForgotten == LogSpec => []LogsAccounted
<1>1. LogInit => LogInv
  <2> SUFFICES ASSUME LogInit PROVE LogInv
    OBVIOUS
  <2>1. Logs \in Nat /\ QueueSize \in Nat /\ BatchSize \in Nat /\ 1..0 = {}
    BY LogPathAssumption
  <2>2. LogTypes
    <3>1. Len(<<>>) = 0 /\ Len(<<>>) <= QueueSize /\ Len(<<>>) <= BatchSize /\ 0 \in 0..Logs
      BY <2>1
    <3>2. LogTypeOK
      BY <3>1 DEF LogInit, LogTypeOK
    <3>3. <<>> \in Seq(LogRecords) /\ {} \in SUBSET LogRecords
      BY NoRecords
    <3> QED BY <3>2, <3>3 DEF LogInit, LogTypes
  <2>3. HandedOver /\ Places
    BY <2>1, NoRecords DEF LogInit, HandedOver, Places, OnTheWay, Stored
  <2>4. Latest(<<>>, <<>>, <<>>) /\ Ordered(<<>>, <<>>, <<>>)
    <3>1. Len(<<>>) = 0 /\ \A i \in 1..0 : FALSE
      OBVIOUS
    <3>2. EndFrom(0, <<>>, <<>>, <<>>)
      BY <3>1 DEF EndFrom
    <3> QED BY <3>1, <3>2 DEF Latest, Ordered
  <2> QED BY <2>2, <2>3, <2>4 DEF LogInit, LogInv
<1>2. LogInv => LogsAccounted
  <2> SUFFICES ASSUME LogInv PROVE LogsAccounted
    OBVIOUS
  <2>0. HandedOver /\ Places /\ LogTypeOK
    BY DEF LogInv, LogTypes
  <2>1. OneToOne(batch) /\ OneToOne(batchQ) /\ OneToOne(handlerQ)
    BY LogFacts, LatestParts DEF LogInv, HandedOver
  <2>2. IsFiniteSet(wire)
    <3>1. IsFiniteSet(LogRecords)
      BY LogFacts, FS_Interval DEF LogRecords
    <3> QED BY <3>1, LogFacts, FS_Subset
  <2>3. Len(handlerQ) + Cardinality(wire) + Len(batchQ) + Len(batch) = Cardinality(OnTheWay)
    <3> DEFINE H == ToSet(handlerQ)
               C == ToSet(batchQ)
               B == ToSet(batch)
    <3>1. /\ IsFiniteSet(H) /\ Cardinality(H) = Len(handlerQ)
          /\ IsFiniteSet(C) /\ Cardinality(C) = Len(batchQ)
          /\ IsFiniteSet(B) /\ Cardinality(B) = Len(batch)
      BY <2>1, LogFacts, OneToOneCount
    <3>2. H \cap wire = {} /\ (H \cup wire) \cap C = {} /\ (H \cup wire \cup C) \cap B = {}
      BY <2>0, LogFacts DEF HandedOver
    <3> HIDE DEF H, C, B
    <3>3. IsFiniteSet(H \cup wire) /\ Cardinality(H \cup wire) = Cardinality(H) + Cardinality(wire)
      BY <2>2, <3>1, <3>2, CountBoth
    <3>4. /\ IsFiniteSet(H \cup wire \cup C)
          /\ Cardinality(H \cup wire \cup C) = Cardinality(H \cup wire) + Cardinality(C)
      BY <3>1, <3>2, <3>3, CountBoth
    <3>5. Cardinality(H \cup wire \cup C \cup B) = Cardinality(H \cup wire \cup C) + Cardinality(B)
      BY <3>1, <3>2, <3>4, CountBoth
    <3>6. OnTheWay = H \cup wire \cup C \cup B
      BY DEF OnTheWay, H, C, B
    <3> QED BY <3>1, <3>3, <3>4, <3>5, <3>6
  <2>4. EachInOnePlace
    BY <2>0, <2>3 DEF EachInOnePlace, Places
  <2>5. IngressInOrder
    <3> DEFINE z == redis \o batch \o batchQ
    <3>1. /\ z \in Seq(LogRecords)
          /\ InOrder(z, arrived)
      <4>1. /\ OneToOne(arrived) /\ ToSet(redis) \cap ToSet(batchQ) = {}
            /\ Latest(batch, batchQ, arrived) /\ Ordered(redis, batch, arrived)
        BY LogFacts DEF LogInv, HandedOver
      <4>2. /\ arrived \in Seq(LogRecords) /\ batch \in Seq(LogRecords)
            /\ batchQ \in Seq(LogRecords) /\ redis \in Seq(LogRecords)
        BY LogFacts
      <4>3. z = (redis \o batch) \o batchQ
        OBVIOUS
      <4> HIDE DEF z
      <4> QED BY <4>1, <4>2, <4>3, AllOrdered
    <3>2. DOMAIN z = 1..Len(z)
      BY <3>1
    <3> HIDE DEF z
    <3>3. \A i, j \in DOMAIN z : i < j => Position(z[i]) < Position(z[j]) \/ \E k \in 1..i : z[k] = z[j]
      BY <3>1, <3>2, PositionLater DEF InOrder
    <3> QED BY <3>3 DEF IngressInOrder, z
  <2> QED BY <2>0, <2>4, <2>5 DEF LogsAccounted
<1> QED BY <1>1, <1>2, LogStep, PTL DEF LogSpec
=============================================================================
