---------------------------- MODULE DeviceStatus ----------------------------
(***************************************************************************)
(* The status of devices in the telemetry server: ReportStatus             *)
(* (telemetry/server.py) finds the Redis key of a device and the lifetime  *)
(* of its record in the configuration (telemetry/config.py), validates     *)
(* what production devices send, and stores the fields and the lifetime    *)
(* with one MULTI/EXEC.  A client (telemetry/client.py) sends one report   *)
(* at a time; several clients may report the same device.                  *)
(*                                                                         *)
(* A report is its number, in the order in which the handlers began, which *)
(* is the order of Computer_UTC.  Commands of different handlers travel on *)
(* connections of their own: Redis takes them in any order, also when the  *)
(* handler, or the server, is gone; the Redis client sends a command again *)
(* when its reply is lost.  One device of each type is modelled.           *)
(***************************************************************************)
EXTENDS Naturals, FiniteSets

CONSTANTS
  MaxClients,  (* bound: clients that call at a time                       *)
  Production,  (* device types with an entry of mode "production" (ttl 0)  *)
  Experimental,(* device types with an entry of mode "experimental"        *)
  MaxReports,  (* bound: reports                                           *)
  MaxFaults    (* bound: lost connections and restarts                     *)

Types == Production \cup Experimental

ASSUME StatusAssumption ==
  /\ Production \cap Experimental = {} /\ IsFiniteSet(Types)
  /\ {MaxClients, MaxReports, MaxFaults} \subseteq Nat

VARIABLES
  devices,  (* the types in the configuration that is loaded               *)
  server,   (* up or down                                                  *)
  record,   (* per key: the report its fields come from (0: none) and whether it expires *)
  report,   (* per report: its key, its lifetime, where its handler and its command are, and,   *)
            (* as a history, the reports of its key on their way to Redis when it began *)
  reports,  (* how many there are                                          *)
  faults    (* how many there were                                         *)

vars == <<devices, server, record, report, reports, faults>>

Numbers == 1..MaxReports
Begun == 1..reports
NoRecord == [of |-> 0, expires |-> FALSE]
Keys == {"device", "sandbox"} \X Types
Waiting == {r \in Begun : report[r].at = "executing"}

Init ==
  /\ devices \in SUBSET Types
  /\ server = "up"
  /\ record = [k \in Keys |-> NoRecord]
  /\ report = <<>>
  /\ reports = 0 /\ faults = 0

-----------------------------------------------------------------------------
(* The configuration                                                       *)

(* An unknown type goes to SANDBOX:<type>:<id>.                            *)
GetRedisKey(t) == <<IF t \in devices THEN "device" ELSE "sandbox", t>>

(* get_ttl(t) > 0: unknown types live an hour, experimental ones as their  *)
(* entry says.                                                             *)
Expires(t) == t \notin devices \cap Production

(* Only production types have a schema, whatever payload they come in.     *)
MayBeRejected(t) == t \in devices \cap Production

-----------------------------------------------------------------------------
(* The handler rejects the report, or sends the pipeline to Redis, without *)
(* suspension.                                                             *)
ReportStatus(t, rejected) ==
  LET n == reports + 1
      key == GetRedisKey(t)
  IN  /\ server = "up" /\ reports < MaxReports /\ Cardinality(Waiting) < MaxClients
      /\ rejected => MayBeRejected(t)
      /\ reports' = n
      /\ report' = [r \in 1..n |-> IF r < n THEN report[r] ELSE
           [key |-> key, expires |-> Expires(t),
            at |-> IF rejected THEN "rejected" ELSE "executing",
            command |-> IF rejected THEN "none" ELSE "sent",
            overlaps |-> {q \in Begun : report[q].key = key /\ report[q].command = "sent"}]]
      /\ UNCHANGED <<devices, server, record, faults>>

(* Mutation: pipeline(transaction=False): the fields may get through       *)
(* without the lifetime.                                                   *)
TransactionSplit(r, old) == {[of |-> r, expires |-> e] : e \in {old.expires, report[r].expires}}

(* Redis carries out the transaction: the fields of the report are set     *)
(* (others stay), the lifetime is renewed or removed.                      *)
Transaction(r, old) == {[of |-> r, expires |-> report[r].expires]}

(* With the reply the handler answers success.  When the reply is lost the *)
(* command may be carried out once more.                                   *)
Apply(r) ==
  LET k == report[r].key IN
  /\ r \in Begun /\ report[r].command = "sent"
  /\ \E new \in Transaction(r, record[k]) : record' = [record EXCEPT ![k] = new]
  /\ \/ /\ report' = [report EXCEPT ![r].command = "applied",
                         ![r].at = IF @ = "executing" THEN "success" ELSE @]
        /\ UNCHANGED faults
     \/ /\ r \in Waiting /\ faults < MaxFaults
        /\ faults' = faults + 1
        /\ UNCHANGED report
  /\ UNCHANGED <<devices, server, reports>>

(* Redis cannot be reached, or the client breaks off: INTERNAL, or nobody  *)
(* to answer; the command may have got through, or still be on its way.    *)
Fail(r) ==
  /\ r \in Waiting /\ faults < MaxFaults
  /\ faults' = faults + 1
  /\ \E command \in {"sent", "none"} :
       report' = [report EXCEPT ![r].at = "error", ![r].command = command]
  /\ UNCHANGED <<devices, server, record, reports>>

(* A command on the connection of a handler that is gone may not arrive.   *)
Vanish(r) ==
  /\ r \in Begun \ Waiting /\ report[r].command = "sent"
  /\ report' = [report EXCEPT ![r].command = "none"]
  /\ UNCHANGED <<devices, server, record, reports, faults>>

(* The server stops or crashes ...                                         *)
Exit ==
  /\ server = "up" /\ faults < MaxFaults
  /\ server' = "down" /\ faults' = faults + 1
  /\ report' = [r \in Begun |-> IF r \in Waiting THEN [report[r] EXCEPT !.at = "error"]
                                ELSE report[r]]
  /\ UNCHANGED <<devices, record, reports>>

(* ... and starts with the configuration file as it is by then; an entry   *)
(* that is not valid is left out.                                          *)
Start ==
  /\ server = "down"
  /\ server' = "up"
  /\ devices' \in SUBSET Types
  /\ UNCHANGED <<record, report, reports, faults>>

(* Redis removes a record whose lifetime is over.                          *)
Expire(k) ==
  /\ record[k].expires
  /\ record' = [record EXCEPT ![k] = NoRecord]
  /\ UNCHANGED <<devices, server, report, reports, faults>>

Next ==
  \/ \E t \in Types, rejected \in BOOLEAN : ReportStatus(t, rejected)
  \/ \E r \in Numbers : Apply(r) \/ Fail(r) \/ Vanish(r)
  \/ \E k \in Keys : Expire(k)
  \/ Exit \/ Start

(* A lifetime ends some time after its last renewal.                       *)
Spec == Init /\ [][Next]_vars /\ \A k \in Keys : WF_vars(Expire(k))

-----------------------------------------------------------------------------
TypeOK ==
  /\ devices \subseteq Types /\ server \in {"up", "down"}
  /\ record \in [Keys -> [of : 0..MaxReports, expires : BOOLEAN]]
  /\ reports \in 0..MaxReports /\ faults \in 0..MaxFaults
  /\ \A r \in Begun : /\ report[r].key \in Keys
                      /\ report[r].at \in {"executing", "success", "rejected", "error"}
                      /\ report[r].command \in {"none", "sent", "applied"}

(* A record has the lifetime of the report that wrote it: no crash, lost   *)
(* connection or change of the configuration leaves production data that   *)
(* expire or other data that never do.                                     *)
LifetimeMatches ==
  \A k \in Keys : record[k].of # 0 =>
    /\ record[k].expires = report[record[k].of].expires
    /\ k[1] = "sandbox" => record[k].expires

(* A report that was answered success is not replaced by an earlier one,   *)
(* unless that one was still on its way to Redis when the report began:    *)
(* a device whose client waits for its answers is never shown an old       *)
(* status.                                                                 *)
NoRollback ==
  \A r \in Begun : LET k == report[r].key IN
    report[r].at = "success" /\ record[k].of # 0 =>
      record[k].of >= r \/ record[k].of \in report[r].overlaps

StatusTrue == TypeOK /\ LifetimeMatches /\ NoRollback

=============================================================================
