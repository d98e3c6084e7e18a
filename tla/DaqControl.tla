----------------------------- MODULE DaqControl -----------------------------
(***************************************************************************)
(* DaqControlServicer (daq_control/server.py): StartDaq, StopDaq,          *)
(* StatusDaq, CleanupData and GenerateManifest around one external         *)
(* process, hashpipe, which outlives the server.                           *)
(*                                                                         *)
(* The handlers run on one event loop and lose it at each await: a scan of *)
(* the process table in a thread (asyncio.to_thread) is one action, what   *)
(* the handler does with its result is another.  All calls are about one   *)
(* run; its directories are numbered in the order CleanupData visits them, *)
(* the root directory, where the manifest is, first.                       *)
(*                                                                         *)
(* Left out: requests that fail validation before the first await (they    *)
(* change nothing), the reuse of a pid by the operating system, the branch *)
(* of CleanupData for a hashpipe_pid that is no integer (none is stored),  *)
(* manifests by several algorithms.  The other manifest calls are in       *)
(* ManifestTransfer.                                                       *)
(***************************************************************************)
EXTENDS Naturals, FiniteSets

CONSTANTS
  Callers,      (* RPCs in progress at a time                              *)
  Pids,         (* bound: hashpipe processes started                       *)
  NumDirs,      (* the root and module directories of the run              *)
  Manifests,    (* bound: contents a manifest can have                     *)
  Digests,      (* bound: manifests whose digests clients send             *)
  MaxCalls,     (* bound: RPCs accepted                                    *)
  MaxRestarts,  (* bound: restarts of the server                           *)
  None          (* nobody                                                  *)

ASSUME DaqControlAssumption ==
  /\ Pids \subseteq Nat \ {0} /\ IsFiniteSet(Pids) /\ None \notin Callers
  /\ NumDirs \in Nat \ {0} /\ None \notin Manifests \cup Digests
  /\ MaxCalls \in Nat /\ MaxRestarts \in Nat

VARIABLES
  proc,     (* per pid: the state of the process                           *)
  tracked,  (* hashpipe_pid, 0 for -1                                      *)
  lock,     (* holder of _lock                                             *)
  dirs,     (* per directory: absent, without or with files to delete      *)
  manifest, (* the manifest in the root directory, or None                 *)
  rpc,      (* per caller: the await it is suspended in; the last scan of the process table; *)
            (* its own process; hashpipe_pid when it looked; its request; the directory it is *)
            (* at; what was alive when it came and the manifest, if it is still that; its answer *)
  bounds    (* calls accepted, restarts, whether it has been told to stop  *)

vars == <<proc, tracked, lock, dirs, manifest, rpc, bounds>>

Dirs == 1..NumDirs
ProcStates == {"none", "running", "killed", "zombie", "gone"}
DirStates == {"absent", "empty", "data"}
Modes == {"full", "selective", "dry"}
StartAwaits == {"startLock", "startFiles", "startSpawn", "startAbort", "startPoll"}
StopAwaits == {"stopFirst", "stopWait", "stopFinal", "stopReap", "stopSidecar", "stopVerify"}
CleanAwaits == {"cleanScan", "cleanDigest", "cleanNext"}
Awaits == StartAwaits \cup StopAwaits \cup CleanAwaits \cup {"status", "transferPid", "transferDirs", "manifest", "replace"}
Answers == {"none", "success", "failure"}

(* _get_pids_by_name finds zombies too, is_hashpipe_running does not.      *)
Alive == {p \in Pids : proc[p] \in {"running", "killed"}}
Found == {p \in Pids : proc[p] \in {"running", "killed", "zombie"}}

Idle(answer) ==
  [at |-> "idle", scanned |-> FALSE, pids |-> {}, pid |-> 0, parsed |-> 0, mode |-> "full",
   force |-> FALSE, digest |-> None, dir |-> 1, before |-> {}, first |-> None, answer |-> answer]

Lowest(pids) == CHOOSE p \in pids : \A q \in pids : p <= q

(* A server starts: a hashpipe that outlived an earlier one may run, a run *)
(* that was recorded may be there.                                         *)
Init ==
  /\ tracked \in {0} \cup (IF Pids = {} THEN {} ELSE {Lowest(Pids)})
  /\ proc = [p \in Pids |-> IF p = tracked THEN "running" ELSE "none"]
  /\ lock = None
  /\ \E contents \in DirStates : dirs = [d \in Dirs |-> contents]
  /\ manifest \in Manifests \cup {None} /\ (dirs[1] = "absent" => manifest = None)
  /\ rpc = [c \in Callers |-> Idle("none")]
  /\ bounds = [calls |-> 0, restarts |-> 0, stopping |-> FALSE]

-----------------------------------------------------------------------------
(* Fragments                                                               *)

Answer(c, answer) == rpc' = [rpc EXCEPT ![c] = Idle(answer)]
(* To the next await; a scan has to be made anew.                          *)
Go(c, at) == rpc' = [rpc EXCEPT ![c].at = at, ![c].scanned = FALSE, ![c].pids = {}]

(* The calls, when the manifest becomes m: it is not what they met.        *)
Meeting(m) == [c \in Callers |-> IF m = manifest THEN rpc[c] ELSE [rpc[c] EXCEPT !.first = None]]

Call(c, request) ==
  /\ rpc[c].at = "idle" /\ bounds.calls < MaxCalls /\ ~bounds.stopping
  /\ bounds' = [bounds EXCEPT !.calls = @ + 1]
  /\ rpc' = [rpc EXCEPT ![c] = request]

(* _get_pids_by_name in a thread.                                          *)
Scan(c) ==
  /\ rpc[c].at \in {"stopFirst", "stopWait", "stopFinal", "stopVerify", "cleanScan", "status"}
  /\ ~rpc[c].scanned
  /\ rpc' = [rpc EXCEPT ![c].scanned = TRUE, ![c].pids = Found]
  /\ UNCHANGED <<proc, tracked, lock, dirs, manifest, bounds>>

Resumes(c, at) == rpc[c].at = at /\ rpc[c].scanned

-----------------------------------------------------------------------------
(* StartDaq                                                                *)

Spawning == {c \in Callers : rpc[c].at \in {"startLock", "startFiles"}}
Unused == {p \in Pids : proc[p] = "none"}
NextPid == Lowest(Unused)

StartDaq(c) ==
  /\ Cardinality(Spawning) < Cardinality(Unused)
  /\ Call(c, [Idle("none") EXCEPT !.at = "startLock"])
  /\ UNCHANGED <<proc, tracked, lock, dirs, manifest>>

(* Mutation: the lock is not taken.                                        *)
NoLock == TRUE

LockFree == lock = None

(* Under the lock: a hashpipe that is found, or an invalid request, makes  *)
(* the call fail; validation makes the root directory.                     *)
StartEnter(c) ==
  /\ rpc[c].at = "startLock"
  /\ LockFree
  /\ \/ Answer(c, "failure") /\ UNCHANGED <<lock, dirs>>
     \/ /\ Found = {}
        /\ lock' = c
        /\ dirs' = [dirs EXCEPT ![1] = IF @ = "absent" THEN "empty" ELSE @]
        /\ Go(c, "startFiles")
  /\ UNCHANGED <<proc, tracked, manifest, bounds>>

Made == [d \in Dirs |-> IF dirs[d] = "absent" THEN "empty" ELSE dirs[d]]

(* The plugin has been looked for: the directories are made and hashpipe   *)
(* is spawned, or something raises.                                        *)
StartSpawn(c) ==
  /\ rpc[c].at = "startFiles"
  /\ \/ /\ proc' = [proc EXCEPT ![NextPid] = "running"]
        /\ dirs' = Made
        /\ rpc' = [rpc EXCEPT ![c].at = "startSpawn", ![c].pid = NextPid]
        /\ UNCHANGED lock
     \/ /\ Answer(c, "failure")
        /\ lock' = None
        /\ dirs' \in {dirs, Made}
        /\ UNCHANGED proc
  /\ UNCHANGED <<tracked, manifest, bounds>>

(* The pid is tracked, the lock released and the process looked at, with   *)
(* no await in between.                                                    *)
StartSpawned(c) ==
  /\ rpc[c].at = "startSpawn"
  /\ tracked' = rpc[c].pid
  /\ lock' = None
  /\ IF rpc[c].pid \in Alive THEN Answer(c, "success") ELSE Go(c, "startPoll")
  /\ UNCHANGED <<proc, dirs, manifest, bounds>>

(* A poll of hashpipe_pid, whoever has set it since; the last one after    *)
(* 5 s ends the call.                                                      *)
StartPoll(c) ==
  /\ rpc[c].at = "startPoll"
  /\ Answer(c, IF tracked \in Alive THEN "success" ELSE "failure")
  /\ UNCHANGED <<proc, tracked, lock, dirs, manifest, bounds>>

(* Cancelled while the pipes are connected, the transport has killed the   *)
(* process and waits for it.                                               *)
StartAborted(c) ==
  /\ rpc[c].at = "startAbort"
  /\ proc[rpc[c].pid] = "gone"
  /\ Answer(c, "failure")
  /\ lock' = None
  /\ UNCHANGED <<proc, tracked, dirs, manifest, bounds>>

-----------------------------------------------------------------------------
(* StopDaq, which does not take the lock                                   *)

StopDaq(c) ==
  /\ Call(c, [Idle("none") EXCEPT !.at = "stopFirst", !.before = Alive])
  /\ UNCHANGED <<proc, tracked, lock, dirs, manifest>>

(* Nothing found, or SIGINT to what was found: what that does is left to   *)
(* the process.                                                            *)
StopSignal(c) ==
  /\ Resumes(c, "stopFirst")
  /\ IF rpc[c].pids = {} THEN tracked' = 0 /\ Answer(c, "success")
     ELSE Go(c, "stopWait") /\ UNCHANGED tracked
  /\ UNCHANGED <<proc, lock, dirs, manifest, bounds>>

(* Nothing is left, or 10 s are over ...                                   *)
StopWait(c) ==
  /\ Resumes(c, "stopWait")
  /\ Go(c, "stopFinal")
  /\ UNCHANGED <<proc, tracked, lock, dirs, manifest, bounds>>

(* ... otherwise look again after 1 s.                                     *)
StopWaitOn(c) ==
  /\ Resumes(c, "stopWait") /\ rpc[c].pids # {}
  /\ rpc' = [rpc EXCEPT ![c].pids = Found]
  /\ UNCHANGED <<proc, tracked, lock, dirs, manifest, bounds>>

Kill(pids) == [p \in Pids |-> IF p \in pids /\ proc[p] = "running" THEN "killed" ELSE proc[p]]

StopKill(c) ==
  /\ Resumes(c, "stopFinal")
  /\ proc' = Kill(rpc[c].pids)
  /\ Go(c, IF rpc[c].pids = {} THEN "stopSidecar" ELSE "stopReap")
  /\ UNCHANGED <<tracked, lock, dirs, manifest, bounds>>

StopReap(c) ==
  /\ rpc[c].at = "stopReap"
  /\ Go(c, "stopSidecar")
  /\ UNCHANGED <<proc, tracked, lock, dirs, manifest, bounds>>

(* kill_hk_recorder raises when it meets a zombie or a process that ends.  *)
StopSidecar(c) ==
  /\ rpc[c].at = "stopSidecar"
  /\ Go(c, "stopVerify") \/ Answer(c, "failure")
  /\ UNCHANGED <<proc, tracked, lock, dirs, manifest, bounds>>

(* Mutation: the last scan is not looked at.                               *)
StopAssumed(pids) == TRUE

StopSucceeded(pids) == pids = {}

StopVerify(c) ==
  /\ Resumes(c, "stopVerify")
  /\ tracked' = 0
  /\ Answer(c, IF StopSucceeded(rpc[c].pids) THEN "success" ELSE "failure")
  /\ UNCHANGED <<proc, lock, dirs, manifest, bounds>>

-----------------------------------------------------------------------------
(* StatusDaq                                                               *)

StatusDaq(c) ==
  /\ Call(c, [Idle("none") EXCEPT !.at = "status"])
  /\ UNCHANGED <<proc, tracked, lock, dirs, manifest>>

(* A single process found is tracked again when none is.                   *)
StatusSeen(c) ==
  /\ Resumes(c, "status")
  /\ tracked' = IF tracked = 0 /\ Cardinality(rpc[c].pids) = 1
                THEN CHOOSE p \in rpc[c].pids : TRUE ELSE tracked
  /\ Answer(c, "success")
  /\ UNCHANGED <<proc, lock, dirs, manifest, bounds>>

-----------------------------------------------------------------------------
(* GetTransferStatus                                                       *)

(* hashpipe_pid is read, or the data directory is not there.               *)
GetTransferStatus(c) ==
  /\ \E answer \in {"none", "failure"} :
       Call(c, [Idle(answer) EXCEPT !.at = IF answer = "none" THEN "transferPid" ELSE "idle",
                                    !.parsed = IF answer = "none" THEN tracked ELSE 0])
  /\ UNCHANGED <<proc, tracked, lock, dirs, manifest>>

(* The process with that pid is looked at, then, one await after the other,*)
(* the directories of the run and the manifests in them.                   *)
TransferLook(c) ==
  /\ rpc[c].at = "transferPid"
  /\ rpc' = [rpc EXCEPT ![c].at = "transferDirs", ![c].pids = {rpc[c].parsed} \cap Alive]
  /\ UNCHANGED <<proc, tracked, lock, dirs, manifest, bounds>>

TransferSeen(c) ==
  /\ rpc[c].at = "transferDirs"
  /\ Answer(c, "success")
  /\ UNCHANGED <<proc, tracked, lock, dirs, manifest, bounds>>

TransferStep(c) == TransferLook(c) \/ TransferSeen(c)

-----------------------------------------------------------------------------
(* CleanupData                                                             *)

(* os.kill(hashpipe_pid, 0) succeeds for zombies too: the call is refused; *)
(* otherwise the process table is scanned.  Force only matters when a pid  *)
(* was tracked.                                                            *)
CleanupData(c, mode, force, digest) ==
  /\ Call(c, IF tracked \in Found THEN Idle("failure")
             ELSE [Idle("none") EXCEPT !.at = "cleanScan", !.parsed = tracked, !.mode = mode,
                                       !.force = force /\ tracked # 0, !.digest = digest,
                                       !.before = Alive, !.first = IF digest = None THEN None ELSE manifest])
  /\ UNCHANGED <<proc, tracked, lock, dirs, manifest>>

(* Mutation: only the tracked pid is asked after.                          *)
CleanupTrusting(c) == FALSE

(* The name scan has found a hashpipe, tracked or not.                     *)
HashpipeFound(c) == rpc[c].pids # {}

CleanupRefused(c) ==
  /\ Resumes(c, "cleanScan")
  /\ \/ /\ HashpipeFound(c)
        /\ tracked' = IF Cardinality(rpc[c].pids) = 1
                      THEN CHOOSE p \in rpc[c].pids : TRUE ELSE tracked
     \/ /\ ~HashpipeFound(c) /\ rpc[c].parsed # 0 /\ ~rpc[c].force
        /\ UNCHANGED tracked
  /\ Answer(c, "failure")
  /\ UNCHANGED <<proc, lock, dirs, manifest, bounds>>

(* _cleanup_dir_selective over all directories, without an await.          *)
DeleteFiles(mode) ==
  dirs' = [d \in Dirs |-> IF mode = "selective" /\ dirs[d] = "data" THEN "empty" ELSE dirs[d]]

(* _cleanup_dir of one directory: rmtree; the manifest goes with the root. *)
DeleteDir(c, d) ==
  /\ dirs' = [dirs EXCEPT ![d] = "absent"]
  /\ manifest' = IF d = 1 THEN None ELSE manifest
  /\ rpc' = [Meeting(manifest') EXCEPT ![c].at = "cleanNext", ![c].scanned = FALSE, ![c].pids = {}, ![c].dir = d]

(* rmtree raises half way: a file was written where it had been.           *)
RaiseInDir(c, d) ==
  /\ dirs[d] # "absent"
  /\ dirs' \in {dirs, [dirs EXCEPT ![d] = "empty"]}
  /\ manifest' \in {manifest, IF d = 1 THEN None ELSE manifest}
  /\ rpc' = [Meeting(manifest') EXCEPT ![c] = Idle("failure")]

(* No hashpipe is found: a dead one is forgotten, given force, and the     *)
(* work begins.                                                            *)
CleanupAllowed(c) ==
  /\ Resumes(c, "cleanScan")
  /\ ~HashpipeFound(c)
  /\ rpc[c].parsed = 0 \/ rpc[c].force
  /\ tracked' = IF rpc[c].parsed # 0 THEN 0 ELSE tracked
  /\ \/ /\ rpc[c].mode = "full"
        /\ DeleteDir(c, 1) \/ RaiseInDir(c, 1)
     \/ /\ rpc[c].mode # "full" /\ rpc[c].digest = None
        /\ DeleteFiles(rpc[c].mode)
        /\ Answer(c, "success")
        /\ UNCHANGED manifest
     \/ /\ rpc[c].mode # "full" /\ rpc[c].digest # None
        /\ Go(c, "cleanDigest")
        /\ UNCHANGED <<dirs, manifest>>
  /\ UNCHANGED <<proc, lock, bounds>>

(* The directory has been seen to be gone or back; on to the next one.     *)
CleanupNext(c) ==
  /\ rpc[c].at = "cleanNext"
  /\ \/ /\ rpc[c].dir = NumDirs
        /\ \E answer \in {"success", "failure"} : Answer(c, answer)
        /\ UNCHANGED <<dirs, manifest>>
     \/ /\ rpc[c].dir < NumDirs
        /\ DeleteDir(c, rpc[c].dir + 1) \/ RaiseInDir(c, rpc[c].dir + 1)
  /\ UNCHANGED <<proc, tracked, lock, bounds>>

(* Mutation: the digests are not compared.                                 *)
DigestIgnored(c) == TRUE

(* A directory without a manifest passes.                                  *)
DigestMatches(c) == rpc[c].dir # 1 \/ manifest \in {None, rpc[c].digest}

MorePaths(c) == rpc[c].dir < NumDirs

(* The manifests of one directory have been looked for: a different one    *)
(* refuses the call, after the last directory the files are deleted.       *)
CleanupDigest(c) ==
  /\ rpc[c].at = "cleanDigest"
  /\ \/ /\ ~DigestMatches(c)
        /\ Answer(c, "failure")
        /\ UNCHANGED dirs
     \/ /\ DigestMatches(c) /\ MorePaths(c)
        /\ rpc' = [rpc EXCEPT ![c].dir = @ + 1]
        /\ UNCHANGED dirs
     \/ /\ DigestMatches(c) /\ ~MorePaths(c)
        /\ DeleteFiles(rpc[c].mode)
        /\ Answer(c, "success")
  /\ UNCHANGED <<proc, tracked, lock, manifest, bounds>>

-----------------------------------------------------------------------------
(* GenerateManifest                                                        *)

GenerateManifest(c) ==
  /\ Call(c, [Idle("none") EXCEPT !.at = "manifest"])
  /\ UNCHANGED <<proc, tracked, lock, dirs, manifest>>

(* The root directory is there: the thread digests the files; or it is not *)
(* there for 5 s.                                                          *)
ManifestBegin(c) ==
  /\ rpc[c].at = "manifest"
  /\ \/ dirs[1] # "absent" /\ Go(c, "replace")
     \/ dirs[1] = "absent" /\ Answer(c, "failure")
  /\ UNCHANGED <<proc, tracked, lock, dirs, manifest, bounds>>

(* os.replace, unless a directory or file has gone under the thread; what  *)
(* the manifest says depends on the files.                                 *)
ManifestEnd(c) ==
  /\ rpc[c].at = "replace"
  /\ \/ /\ dirs[1] # "absent"
        /\ manifest' \in Manifests
        /\ rpc' = [Meeting(manifest') EXCEPT ![c] = Idle("success")]
     \/ Answer(c, "failure") /\ UNCHANGED manifest
  /\ UNCHANGED <<proc, tracked, lock, dirs, bounds>>

-----------------------------------------------------------------------------
(* Processes, clients that give up, and the server itself                  *)

(* hashpipe writes files where its directories are.                        *)
Write(p) ==
  /\ proc[p] = "running"
  /\ dirs' = [d \in Dirs |-> IF dirs[d] = "absent" THEN "absent" ELSE "data"]
  /\ UNCHANGED <<proc, tracked, lock, manifest, rpc, bounds>>

(* It ends, by a signal or by itself ...                                   *)
Exit(p) ==
  /\ p \in Alive
  /\ proc' = [proc EXCEPT ![p] = "zombie"]
  /\ UNCHANGED <<tracked, lock, dirs, manifest, rpc, bounds>>

(* ... and is reaped.                                                      *)
Reap(p) ==
  /\ proc[p] = "zombie"
  /\ proc' = [proc EXCEPT ![p] = "gone"]
  /\ UNCHANGED <<tracked, lock, dirs, manifest, rpc, bounds>>

(* Mutation: a cancelled StartDaq keeps the lock.                          *)
KeepLock(c) == lock

(* async with self._lock ends.                                             *)
ReleaseLock(c) == IF lock = c THEN None ELSE lock

(* CancelledError at the await; what runs in a thread is finished there.   *)
Cancel(c) ==
  /\ rpc[c].at \notin {"idle", "startAbort", "replace"}
  /\ \/ /\ rpc[c].at = "startSpawn"
        /\ rpc' = [rpc EXCEPT ![c].at = "startAbort"]
        /\ proc' = [proc EXCEPT ![rpc[c].pid] = IF @ = "running" THEN "killed" ELSE @]
        /\ UNCHANGED lock
     \/ /\ rpc[c].at # "startSpawn"
        /\ Answer(c, "failure")
        /\ lock' = ReleaseLock(c)
        /\ UNCHANGED proc
  /\ UNCHANGED <<tracked, dirs, manifest, bounds>>

(* A signal: the server takes no more calls, gives those in progress 5 s,  *)
(* then cancels them.                                                      *)
Terminate ==
  /\ bounds.restarts < MaxRestarts /\ ~bounds.stopping
  /\ bounds' = [bounds EXCEPT !.stopping = TRUE]
  /\ UNCHANGED <<proc, tracked, lock, dirs, manifest, rpc>>

(* The server has ended, with its RPCs, in this way or by itself, and      *)
(* starts again; hashpipe is in a session of its own and stays.  A single  *)
(* one is tracked, several get SIGINT.                                     *)
Restart ==
  /\ bounds.restarts < MaxRestarts
  /\ bounds' = [bounds EXCEPT !.restarts = @ + 1, !.stopping = FALSE]
  /\ rpc' = [c \in Callers |-> Idle("none")]
  /\ lock' = None
  /\ proc' = [p \in Pids |-> IF proc[p] = "zombie" THEN "gone" ELSE proc[p]]
  /\ tracked' = IF Cardinality(Alive) = 1 THEN CHOOSE p \in Alive : TRUE ELSE 0
  /\ UNCHANGED <<dirs, manifest>>

StartStep(c) ==
  StartEnter(c) \/ StartSpawn(c) \/ StartSpawned(c) \/ StartPoll(c) \/ StartAborted(c)
StopStep(c) ==
  StopSignal(c) \/ StopWait(c) \/ StopKill(c) \/ StopReap(c) \/ StopSidecar(c) \/ StopVerify(c)
CleanupStep(c) ==
  CleanupRefused(c) \/ CleanupAllowed(c) \/ CleanupNext(c) \/ CleanupDigest(c)

Request(c) ==
  \/ StartDaq(c) \/ StopDaq(c) \/ StatusDaq(c) \/ GetTransferStatus(c) \/ GenerateManifest(c)
  \/ \E mode \in Modes, force \in BOOLEAN, digest \in Digests \cup {None} :
       (mode = "full" => digest = None) /\ CleanupData(c, mode, force, digest)

Progress(c) ==
  \/ Scan(c) \/ StartStep(c) \/ StopStep(c) \/ StatusSeen(c) \/ TransferStep(c) \/ CleanupStep(c)
  \/ ManifestBegin(c) \/ ManifestEnd(c)

Next ==
  \/ \E c \in Callers : Request(c) \/ Progress(c) \/ StopWaitOn(c) \/ Cancel(c)
  \/ \E p \in Pids : Write(p) \/ Exit(p) \/ Reap(p)
  \/ Terminate \/ Restart

Spec == Init /\ [][Next]_vars

(* The event loop runs what is ready, timers bound the loops (10 s after   *)
(* SIGINT), a process that is killed ends and is reaped; the lock is served*)
(* in order, which weak fairness says as the number of calls is bounded.   *)
(* Not assumed: that hashpipe heeds SIGINT.                                *)
Fairness ==
  /\ \A c \in Callers : WF_vars(Progress(c))
  /\ WF_vars(\E p \in Pids : Reap(p) \/ (proc[p] = "killed" /\ Exit(p)))

FairSpec == Spec /\ Fairness

-----------------------------------------------------------------------------
(* Properties                                                              *)

Rpcs ==
  [at : Awaits \cup {"idle"}, scanned : BOOLEAN, pids : SUBSET Pids, pid : Pids \cup {0},
   parsed : Pids \cup {0}, mode : Modes, force : BOOLEAN, digest : Digests \cup {None},
   dir : Dirs, before : SUBSET Pids, first : Manifests \cup {None}, answer : Answers]

(* The variables keep their types.                                         *)
TypeOK ==
  /\ proc \in [Pids -> ProcStates]
  /\ tracked \in Pids \cup {0}
  /\ lock \in Callers \cup {None}
  /\ dirs \in [Dirs -> DirStates]
  /\ manifest \in Manifests \cup {None}
  /\ rpc \in [Callers -> Rpcs]
  /\ bounds \in [calls : 0..MaxCalls, restarts : 0..MaxRestarts, stopping : BOOLEAN]

(* "Fails immediately if a Hashpipe process is already running": there are *)
(* never two, however StartDaq calls overlap each other, cancellations,    *)
(* StopDaq and restarts of the server.                                     *)
OneHashpipe == TypeOK /\ Cardinality(Alive) <= 1

(* StopDaq answers success only when nothing that ran when it was called   *)
(* runs any more, whatever it found, killed and lost sight of on the way.  *)
StopStops ==
  [][\A c \in Callers :
       rpc[c].at \in StopAwaits /\ rpc'[c].answer = "success" => rpc[c].before \cap Alive = {}]_vars

Deletes(c) ==
  /\ \E d \in Dirs : dirs[d] = "data" /\ dirs'[d] # "data"
  /\ rpc'[c].at # rpc[c].at \/ rpc'[c].dir # rpc[c].dir

(* CleanupData finds a hashpipe that the server has lost track of, by a    *)
(* restart or by a StopDaq that reset the pid: nothing is deleted under a  *)
(* process that has run since before the call.                             *)
CleanupFindsLost ==
  [][\A c \in Callers :
       Deletes(c) => rpc[c].before \cap Alive = {}]_vars

(* A selective clean-up with the digest of another manifest deletes        *)
(* nothing, when the manifest has been there unchanged since the call.     *)
DigestGuards ==
  [][\A c \in Callers :
       (/\ Deletes(c)
        /\ rpc[c].mode = "selective" /\ rpc[c].digest # None
        /\ rpc[c].first # None)
         => rpc[c].first = rpc[c].digest]_vars

(* Every call is answered, also while others are cancelled with the lock   *)
(* held and hashpipe ignores SIGINT.                                       *)
CallsAnswered == \A c \in Callers : rpc[c].at # "idle" ~> rpc[c].at = "idle"
=============================================================================
