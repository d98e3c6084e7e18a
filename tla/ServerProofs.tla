---------------------------- MODULE ServerProofs ----------------------------
(***************************************************************************)
(* Proofs about DaqControl, for any number of calls, processes,            *)
(* directories, manifests and restarts; about MLBroker, for any number of  *)
(* subscriptions and predictions and any length of a queue; and about      *)
(* UnifiedServer, for any number of calls and edges.                       *)
(***************************************************************************)
EXTENDS DaqControl, MLBroker, UnifiedServer,
        SequenceTheorems, FiniteSetTheorems, WellFoundedInduction, TLAPS

(* The awaits at which StartDaq holds the lock.                            *)
Holding == {"startFiles", "startSpawn", "startAbort"}

(* What the handlers rely on without locking anything.  A hashpipe that ran*)
(* when StopDaq or CleanupData came, and still runs, is in the scan they   *)
(* have made; those that have begun to delete met none.  A digest that was *)
(* compared with a manifest that is still there is that manifest's.        *)
Sound(r) ==
  /\ r.at # "idle" => r.answer = "none"
  /\ r.at \in {"startSpawn", "startAbort"} => r.pid \in Pids
  /\ \A p \in r.before : proc[p] # "none"
  /\ r.at \in StopAwaits \cup {"cleanScan"} /\ r.scanned => r.before \cap Alive \subseteq r.pids
  /\ r.at \in {"cleanDigest", "cleanNext"} => r.before \cap Alive = {}
  /\ r.at = "cleanNext" => r.mode = "full"
  /\ r.at = "cleanDigest" => r.digest # None
  /\ r.at = "cleanScan" => r.dir = 1
  /\ r.first # None => r.first = manifest
  /\ r.at = "cleanDigest" /\ r.dir > 1 /\ r.first # None => r.first = r.digest

(* The lock is held by the one StartDaq between its check and the end of   *)
(* the spawn ...                                                           *)
LockOwned == \A c \in Callers : rpc[c].at \in Holding <=> lock = c

(* ... and until the spawn nothing runs.                                   *)
NothingRuns == \A c \in Callers : rpc[c].at = "startFiles" => Alive = {}

(* OneHashpipe without counting.                                           *)
AtMostOne == \A p, q \in Alive : p = q

(* There is a process for every StartDaq accepted.                         *)
EnoughPids == IsFiniteSet(Spawning) /\ Cardinality(Spawning) <= Cardinality(Unused)

(* The inductive invariant: that there is one hashpipe needs the lock (no  *)
(* second spawn), what the check under it found (no first one) and a pid   *)
(* that was not used.                                                      *)
Inv1 == TypeOK /\ LockOwned /\ NothingRuns /\ AtMostOne /\ EnoughPids

(* ... and what every call relies on.                                      *)
IInv == Inv1 /\ \A c \in Callers : Sound(rpc[c])

-----------------------------------------------------------------------------
(* Processes                                                               *)

(* The next pid exists.                                                    *)
LEMMA LowestIn ==
  ASSUME NEW S, S \subseteq Pids, S # {}
  PROVE  Lowest(S) \in S
<1> DEFINE upto(p) == {q \in S : q <= p}
           T == {upto(p) : p \in S}
           R == StrictSubsetOrdering(S)
<1>1. IsFiniteSet(S) /\ S \subseteq Nat
  BY FS_Subset, DaqControlAssumption
<1>2. IsWellFoundedOn(R, SUBSET S)
  BY <1>1, FS_StrictSubsetOrderingWellFounded, FS_FiniteSubsetsOfFinite
<1>3. T \subseteq SUBSET S /\ T # {}
  OBVIOUS
<1>4. PICK t \in T : \A u \in T : ~ (<<u, t>> \in R)
  <2> HIDE DEF T, R
  <2> QED BY <1>2, <1>3, WFMin
<1>5. PICK p \in S : t = upto(p)
  OBVIOUS
<1>6. ASSUME NEW q \in S, ~ (p <= q) PROVE FALSE
  <2>1. p \in Nat /\ q \in Nat /\ q < p /\ q <= p
    BY <1>1, <1>6
  <2>2. ASSUME NEW x \in upto(q) PROVE x \in upto(p)
    BY <1>1, <2>1, <2>2
  <2>3. p \in upto(p) /\ p \notin upto(q)
    BY <2>1
  <2>4. <<upto(q), t>> \in R
    BY <1>5, <2>2, <2>3 DEF StrictSubsetOrdering
  <2>. QED BY <1>4, <2>4
<1>. QED BY <1>6 DEF Lowest

(* A hashpipe that has ended never runs again.                             *)
NoRevival ==
  /\ proc' \in [Pids -> ProcStates]
  /\ \A p \in Pids : proc[p] # "none" => proc'[p] # "none"
  /\ \A p \in Pids : proc[p] # "none" /\ p \in Alive' => p \in Alive

(* What a call relies on is not disturbed by what others do.               *)
LEMMA SoundStays ==
  ASSUME TypeOK, NoRevival, NEW r \in Rpcs, Sound(r), NEW s,
         \/ s = r /\ manifest' = manifest
         \/ s = [r EXCEPT !.first = None]
  PROVE  Sound(s)'
<1>1. /\ s.at = r.at /\ s.answer = r.answer /\ s.pid = r.pid /\ s.before = r.before
      /\ s.scanned = r.scanned /\ s.pids = r.pids /\ s.mode = r.mode
      /\ s.digest = r.digest /\ s.dir = r.dir
  BY DEF Rpcs
<1>2. s.first = None \/ (s.first = r.first /\ manifest' = manifest)
  BY DEF Rpcs
<1>3. \A p \in r.before : p \in Pids /\ proc[p] # "none" /\ proc'[p] # "none"
  BY DEF Rpcs, Sound, NoRevival
<1>4. r.before \cap Alive' \subseteq r.before \cap Alive
  BY <1>3 DEF NoRevival
<1>. QED
  BY <1>1, <1>2, <1>3, <1>4 DEF Sound

(* What an answered call leaves is well typed ...                          *)
LEMMA IdleType == ASSUME NEW a \in Answers PROVE Idle(a) \in Rpcs
BY DaqControlAssumption DEF Idle, Rpcs, Dirs, Modes, Awaits

(* ... and relies on nothing.                                              *)
LEMMA IdleSound == ASSUME NEW a \in Answers PROVE Sound(Idle(a))'
BY DEF Sound, Idle, StopAwaits

-----------------------------------------------------------------------------
(* Calls other than those of StartDaq under the lock                       *)

(* The variables that are not about processes and calls.                   *)
Rest == /\ tracked' \in Pids \cup {0} /\ dirs' \in [Dirs -> DirStates]
        /\ manifest' \in Manifests \cup {None}
        /\ bounds' \in [calls : 0..MaxCalls, restarts : 0..MaxRestarts, stopping : BOOLEAN]

(* The call c becomes r.                                                   *)
Becomes(c, r) == rpc' = [Meeting(manifest') EXCEPT ![c] = r]

(* A step that leaves the manifest alone is seen by its own call only.     *)
LEMMA BecomesAlone ==
  ASSUME TypeOK, NEW c \in Callers, NEW r, rpc' = [rpc EXCEPT ![c] = r], manifest' = manifest
  PROVE  Becomes(c, r)
BY DEF Becomes, Meeting, TypeOK

(* One call goes on, the others may see the manifest change.               *)
LEMMA OneMoves ==
  ASSUME TypeOK, NEW c \in Callers, NEW r \in Rpcs, Becomes(c, r)
  PROVE  /\ rpc' \in [Callers -> Rpcs] /\ rpc'[c] = r
         /\ \A x \in Callers \ {c} :
              /\ rpc'[x].at = rpc[x].at
              /\ \/ rpc'[x] = rpc[x] /\ manifest' = manifest
                 \/ rpc'[x] = [rpc[x] EXCEPT !.first = None]
<1>1. \A x \in Callers : rpc[x] \in Rpcs /\ [rpc[x] EXCEPT !.first = None] \in Rpcs
  BY DEF TypeOK, Rpcs
<1>2. Meeting(manifest') \in [Callers -> Rpcs]
  BY <1>1 DEF Meeting
<1>3. \A x \in Callers : [rpc[x] EXCEPT !.first = None].at = rpc[x].at
  BY <1>1 DEF Rpcs
<1>. QED
  BY <1>1, <1>2, <1>3 DEF Becomes, Meeting

(* So what the others rely on stays true.                                  *)
LEMMA OthersSound ==
  ASSUME IInv, NEW c \in Callers, NEW r \in Rpcs, Becomes(c, r), NoRevival, Sound(r)'
  PROVE  \A x \in Callers : Sound(rpc[x])'
<1>1. TypeOK /\ \A x \in Callers : rpc[x] \in Rpcs /\ Sound(rpc[x])
  BY DEF IInv, Inv1, TypeOK
<1>2. ASSUME NEW x \in Callers \ {c} PROVE Sound(rpc[x])'
  BY <1>1, OneMoves, SoundStays
<1>3. rpc'[c] = r
  BY <1>1, OneMoves
<1>4. Sound(rpc[c])'
  BY <1>3 DEF Sound
<1>. QED
  BY <1>2, <1>4

(* The waiting StartDaq calls and the unused pids can be counted.          *)
LEMMA SpawningFinite ==
  ASSUME EnoughPids
  PROVE  /\ IsFiniteSet(Spawning) /\ Cardinality(Spawning) \in Nat
         /\ IsFiniteSet(Unused) /\ Cardinality(Unused) \in Nat
BY FS_CardinalityType, FS_Subset, DaqControlAssumption DEF EnoughPids, Unused

(* A StartDaq that no longer waits to spawn needs no process.              *)
LEMMA FewerSpawning ==
  ASSUME EnoughPids, Unused' = Unused, Spawning' \subseteq Spawning
  PROVE  EnoughPids'
<1>1. IsFiniteSet(Spawning') /\ Cardinality(Spawning') <= Cardinality(Spawning)
      /\ Cardinality(Spawning') \in Nat
  BY SpawningFinite, FS_Subset, FS_CardinalityType
<1>2. Cardinality(Unused') = Cardinality(Unused) /\ Cardinality(Spawning) <= Cardinality(Unused)
  BY DEF EnoughPids
<1>. QED BY <1>1, <1>2, SpawningFinite DEF EnoughPids

(* A step of a call that does not hold the lock keeps the invariant, if    *)
(* what the call relies on afterwards is true.                             *)
LEMMA CallMoves ==
  ASSUME IInv, NEW c \in Callers, NEW r \in Rpcs, Becomes(c, r), UNCHANGED lock, Rest,
         NoRevival, Unused' = Unused, Alive' \subseteq Alive,
         Sound(r)', rpc[c].at \notin Holding, r.at \notin Holding \cup {"startLock"}
  PROVE  IInv'
<1>1. TypeOK'
  BY OneMoves DEF IInv, Inv1, TypeOK, Rest, NoRevival
<1>2. \A x \in Callers \ {c} : rpc'[x].at = rpc[x].at
  BY OneMoves DEF IInv, Inv1
<1>3. rpc'[c].at = r.at
  BY OneMoves DEF IInv, Inv1
<1>4. LockOwned'
  BY <1>2, <1>3 DEF LockOwned, IInv, Inv1
<1>5. NothingRuns' /\ AtMostOne'
  BY <1>2, <1>3 DEF NothingRuns, AtMostOne, IInv, Inv1, Holding
<1>6. EnoughPids'
  BY <1>2, <1>3, FewerSpawning DEF IInv, Inv1, Spawning, Holding
<1>7. \A x \in Callers : Sound(rpc[x])'
  BY OthersSound
<1>. QED
  BY <1>1, <1>4, <1>5, <1>6, <1>7 DEF IInv, Inv1

(* A step that leaves the processes alone revives none.                    *)
LEMMA SameProcesses ==
  ASSUME TypeOK, UNCHANGED proc
  PROVE  NoRevival /\ Unused' = Unused /\ Alive' = Alive /\ Found' = Found
BY DEF TypeOK, NoRevival, Unused, Alive, Found

(* A call is answered.                                                     *)
LEMMA Answered ==
  ASSUME IInv, NEW c \in Callers, NEW a \in Answers, Becomes(c, Idle(a)),
         UNCHANGED <<proc, lock>>, Rest, rpc[c].at \notin Holding
  PROVE  IInv'
<1>1. Idle(a).at \notin Holding \cup {"startLock"}
  BY DEF Idle, Holding
<1>. QED
  BY <1>1, IdleType, IdleSound, SameProcesses, CallMoves DEF IInv, Inv1

(* A call that goes on to another await.                                   *)
Moved(r, where) == [r EXCEPT !.at = where, !.scanned = FALSE, !.pids = {}]

(* Go, seen as a change of one record.                                     *)
LEMMA GoMoves ==
  ASSUME TypeOK, NEW c \in Callers, NEW where \in Awaits, Go(c, where)
  PROVE  rpc' = [rpc EXCEPT ![c] = Moved(rpc[c], where)] /\ Moved(rpc[c], where) \in Rpcs
<1>1. rpc[c] \in Rpcs
  BY DEF TypeOK
<1>2. Moved(rpc[c], where) \in Rpcs
  BY <1>1 DEF Rpcs, Moved
<1>. QED
  BY <1>2 DEF Go, Moved, TypeOK

(* A call goes on to an await before which it has nothing to rely on.      *)
LEMMA Goes ==
  ASSUME IInv, NEW c \in Callers, Go(c, "startPoll") \/ (\E where \in StopAwaits : Go(c, where)) \/ Go(c, "replace"),
         NoRevival, Unused' = Unused, Alive' \subseteq Alive,
         UNCHANGED <<lock, manifest>>, Rest, rpc[c].at \notin Holding \cup {"idle"}
  PROVE  IInv'
<1>1. PICK where \in StopAwaits \cup {"startPoll", "replace"} : Go(c, where)
  OBVIOUS
<1>2. TypeOK /\ where \in Awaits /\ where \notin Holding \cup {"startLock", "idle", "cleanScan", "cleanDigest", "cleanNext"}
  BY DEF IInv, Inv1, Awaits, StartAwaits, StopAwaits, Holding
<1>3. Becomes(c, Moved(rpc[c], where)) /\ Moved(rpc[c], where) \in Rpcs
  BY <1>1, <1>2, GoMoves, BecomesAlone
<1>4. PICK r \in Rpcs : Becomes(c, r) /\ r = Moved(rpc[c], where)
  BY <1>3
<1>5. r.at = where /\ r.scanned = FALSE /\ r.before = rpc[c].before /\ r.first = rpc[c].first
      /\ r.answer = rpc[c].answer
  BY <1>2, <1>4 DEF Moved, TypeOK, Rpcs
<1>6. Sound(rpc[c]) /\ rpc[c] \in Rpcs
  BY DEF IInv, Inv1, TypeOK
<1>7. \A p \in r.before : proc'[p] # "none"
  BY <1>5, <1>6 DEF Sound, Rpcs, NoRevival
<1>8. Sound(r)'
  BY <1>2, <1>5, <1>6, <1>7 DEF Sound, Holding
<1>. QED
  BY <1>2, <1>4, <1>5, <1>8, CallMoves

-----------------------------------------------------------------------------
(* Steps of StopDaq, StatusDaq, GetTransferStatus and GenerateManifest     *)

(* The parts of the invariant.                                             *)
LEMMA IInvFacts ==
  ASSUME IInv
  PROVE  /\ TypeOK /\ LockOwned /\ NothingRuns /\ AtMostOne /\ EnoughPids
         /\ \A c \in Callers : rpc[c] \in Rpcs /\ Sound(rpc[c])
BY DEF IInv, Inv1, TypeOK

(* What leaves the other variables alone leaves their types alone.         *)
LEMMA RestSame == ASSUME TypeOK, UNCHANGED <<dirs, manifest, bounds>>, tracked' \in Pids \cup {0} PROVE Rest
BY DEF TypeOK, Rest

(* A single process found.                                                 *)
LEMMA OneFound == ASSUME NEW S, S \subseteq Pids, Cardinality(S) = 1 PROVE (CHOOSE p \in S : TRUE) \in Pids
<1>1. IsFiniteSet(S)
  BY FS_Subset, DaqControlAssumption
<1>2. S # {}
  BY FS_EmptySet
<1>. QED BY <1>2

(* Answer, seen as a change of one record.                                 *)
LEMMA AnswerBecomes ==
  ASSUME TypeOK, NEW c \in Callers, NEW a, Answer(c, a), UNCHANGED manifest
  PROVE  Becomes(c, Idle(a))
BY BecomesAlone DEF Answer

(* A scan of the process table finds everything that is alive.             *)
LEMMA ScanInv == ASSUME IInv, NEW c \in Callers, Scan(c) PROVE IInv'
<1>1. rpc[c] \in Rpcs /\ Found \in SUBSET Pids /\ TypeOK
  BY IInvFacts DEF Found
<1>2. [rpc[c] EXCEPT !.scanned = TRUE, !.pids = Found] \in Rpcs
  BY <1>1 DEF Rpcs
<1>3. rpc' = [rpc EXCEPT ![c] = [rpc[c] EXCEPT !.scanned = TRUE, !.pids = Found]]
  BY <1>1 DEF Scan, TypeOK
<1>4. PICK r \in Rpcs : r = [rpc[c] EXCEPT !.scanned = TRUE, !.pids = Found] /\ Becomes(c, r)
  BY <1>1, <1>2, <1>3, BecomesAlone DEF Scan
<1>5. /\ r.at = rpc[c].at /\ r.pids = Found /\ r.before = rpc[c].before /\ r.answer = rpc[c].answer
      /\ r.first = rpc[c].first /\ r.dir = rpc[c].dir
  BY <1>1, <1>4 DEF Rpcs
<1>6. r.at \in {"stopFirst", "stopWait", "stopFinal", "stopVerify", "cleanScan", "status"}
  BY <1>5 DEF Scan
<1>7. Alive \subseteq Found
  BY DEF Alive, Found
<1>8. Sound(r)
  BY <1>5, <1>6, <1>7, IInvFacts DEF Sound
<1>9. Sound(r)'
  BY <1>1, <1>8, SameProcesses, SoundStays DEF Scan
<1>. QED
  BY <1>1, <1>4, <1>5, <1>6, <1>9, CallMoves, SameProcesses, RestSame DEF Scan, TypeOK, Holding

(* So does a scan of the wait for the processes.                           *)
LEMMA StopWaitOnInv == ASSUME IInv, NEW c \in Callers, StopWaitOn(c) PROVE IInv'
<1>1. rpc[c] \in Rpcs /\ Found \in SUBSET Pids /\ TypeOK
  BY IInvFacts DEF Found
<1>2. [rpc[c] EXCEPT !.pids = Found] \in Rpcs
  BY <1>1 DEF Rpcs
<1>3. rpc' = [rpc EXCEPT ![c] = [rpc[c] EXCEPT !.pids = Found]]
  BY <1>1 DEF StopWaitOn, TypeOK
<1>4. PICK r \in Rpcs : r = [rpc[c] EXCEPT !.pids = Found] /\ Becomes(c, r)
  BY <1>1, <1>2, <1>3, BecomesAlone DEF StopWaitOn
<1>5. /\ r.at = "stopWait" /\ r.pids = Found /\ r.before = rpc[c].before /\ r.answer = rpc[c].answer
      /\ r.first = rpc[c].first /\ r.dir = rpc[c].dir
  BY <1>1, <1>4 DEF Rpcs, StopWaitOn, Resumes
<1>6. Alive \subseteq Found
  BY DEF Alive, Found
<1>7. Sound(r)
  BY <1>1, <1>5, <1>6, IInvFacts DEF Sound, StopWaitOn, Resumes
<1>8. Sound(r)'
  BY <1>1, <1>7, SameProcesses, SoundStays DEF StopWaitOn
<1>. QED
  BY <1>1, <1>4, <1>5, <1>8, CallMoves, SameProcesses, RestSame DEF StopWaitOn, TypeOK, Holding, Resumes

(* A call comes in.                                                        *)
LEMMA Called ==
  ASSUME IInv, NEW c \in Callers, NEW r \in Rpcs, Call(c, r),
         UNCHANGED <<proc, tracked, lock, dirs, manifest>>,
         r.at \notin Holding \cup {"startLock"}, Sound(r)
  PROVE  IInv'
<1>1. TypeOK
  BY IInvFacts
<1>2. bounds' \in [calls : 0..MaxCalls, restarts : 0..MaxRestarts, stopping : BOOLEAN]
  BY <1>1, DaqControlAssumption DEF Call, TypeOK
<1>3. Rest
  BY <1>1, <1>2 DEF Rest, TypeOK
<1>4. Becomes(c, r)
  BY <1>1, BecomesAlone DEF Call
<1>5. Sound(r)'
  BY <1>1, SameProcesses, SoundStays
<1>6. rpc[c].at \notin Holding
  BY DEF Call, Holding
<1>. QED
  BY <1>1, <1>3, <1>4, <1>5, <1>6, SameProcesses, CallMoves

(* A fresh request relies on nothing that is not true when it comes.       *)
LEMMA RequestInv ==
  ASSUME IInv, NEW c \in Callers, StopDaq(c) \/ StatusDaq(c) \/ GetTransferStatus(c) \/ GenerateManifest(c)
  PROVE  IInv'
<1>0. TypeOK
  BY IInvFacts
<1>1. CASE StopDaq(c)
  <2>1. PICK r : r = [Idle("none") EXCEPT !.at = "stopFirst", !.before = Alive] /\ Call(c, r)
    BY <1>1 DEF StopDaq
  <2>2a. /\ r.at = "stopFirst" /\ r.before = Alive /\ r.answer = "none" /\ r.scanned = FALSE
        /\ r.first = None
    BY <2>1 DEF Idle
  <2>2b. Idle("none") \in Rpcs /\ Idle("failure") \in Rpcs
    BY IdleType DEF Answers
  <2>2. r \in Rpcs
    BY <1>0, <2>1, <2>2b DEF Rpcs, Awaits, StopAwaits, CleanAwaits, Alive, TypeOK
  <2>3. Sound(r)
    BY <2>2a DEF Sound, Alive
  <2>. QED BY <1>1, <2>1, <2>2a, <2>2, <2>3, Called DEF StopDaq, Holding
<1>2. CASE StatusDaq(c)
  <2>1. PICK r : r = [Idle("none") EXCEPT !.at = "status"] /\ Call(c, r)
    BY <1>2 DEF StatusDaq
  <2>2a. /\ r.at = "status" /\ r.before = {} /\ r.answer = "none" /\ r.scanned = FALSE
        /\ r.first = None
    BY <2>1 DEF Idle
  <2>2b. Idle("none") \in Rpcs /\ Idle("failure") \in Rpcs
    BY IdleType DEF Answers
  <2>2. r \in Rpcs
    BY <1>0, <2>1, <2>2b DEF Rpcs, Awaits, StopAwaits, CleanAwaits, Alive, TypeOK
  <2>3. Sound(r)
    BY <2>2a DEF Sound, StopAwaits
  <2>. QED BY <1>2, <2>1, <2>2a, <2>2, <2>3, Called DEF StatusDaq, Holding
<1>3. CASE GetTransferStatus(c)
  <2>1. PICK answer \in {"none", "failure"} :
          Call(c, [Idle(answer) EXCEPT !.at = IF answer = "none" THEN "transferPid" ELSE "idle",
                                       !.parsed = IF answer = "none" THEN tracked ELSE 0])
    BY <1>3 DEF GetTransferStatus
  <2>2. PICK r : r = [Idle(answer) EXCEPT !.at = IF answer = "none" THEN "transferPid" ELSE "idle",
                                          !.parsed = IF answer = "none" THEN tracked ELSE 0] /\ Call(c, r)
    BY <2>1
  <2>3a. /\ r.at \in {"transferPid", "idle"} /\ r.before = {} /\ r.answer = answer /\ r.scanned = FALSE
        /\ r.first = None /\ (r.at = "idle" \/ answer = "none")
    BY <1>0, <2>2 DEF Idle
  <2>3b. Idle("none") \in Rpcs /\ Idle("failure") \in Rpcs
    BY IdleType DEF Answers
  <2>3. r \in Rpcs
    <3>1. CASE answer = "none"
      <4>1. "transferPid" \in Awaits \cup {"idle"} /\ tracked \in Pids \cup {0}
        BY <1>0 DEF Awaits, TypeOK
      <4>. QED BY <2>2, <2>3b, <3>1, <4>1 DEF Rpcs
    <3>2. CASE answer = "failure"
      <4>1. r = [Idle("failure") EXCEPT !.at = "idle", !.parsed = 0]
        BY <2>2, <3>2
      <4>. QED BY <4>1, <2>3b DEF Rpcs
    <3>. QED BY <3>1, <3>2
  <2>4. Sound(r)
    BY <2>3a DEF Sound, StopAwaits
  <2>. QED BY <1>3, <2>2, <2>3a, <2>3, <2>4, Called DEF GetTransferStatus, Holding
<1>4. CASE GenerateManifest(c)
  <2>1. PICK r : r = [Idle("none") EXCEPT !.at = "manifest"] /\ Call(c, r)
    BY <1>4 DEF GenerateManifest
  <2>2a. /\ r.at = "manifest" /\ r.before = {} /\ r.answer = "none" /\ r.scanned = FALSE
        /\ r.first = None
    BY <2>1 DEF Idle
  <2>2b. Idle("none") \in Rpcs /\ Idle("failure") \in Rpcs
    BY IdleType DEF Answers
  <2>2. r \in Rpcs
    BY <1>0, <2>1, <2>2b DEF Rpcs, Awaits, StopAwaits, CleanAwaits, Alive, TypeOK
  <2>3. Sound(r)
    BY <2>2a DEF Sound, StopAwaits
  <2>. QED BY <1>4, <2>1, <2>2a, <2>2, <2>3, Called DEF GenerateManifest, Holding
<1>. QED BY <1>1, <1>2, <1>3, <1>4

(* CleanupData comes in: refused, or it remembers what is alive.           *)
LEMMA CleanupDataInv ==
  ASSUME IInv, NEW c \in Callers, NEW mode \in Modes, NEW force \in BOOLEAN,
         NEW digest \in Digests \cup {None}, CleanupData(c, mode, force, digest)
  PROVE  IInv'
<1>0. TypeOK
  BY IInvFacts
<1>1. CASE tracked \in Found
  BY <1>1, Called, IdleType DEF CleanupData, Idle, Holding, Sound, Answers, StopAwaits
<1>2. CASE tracked \notin Found
  <2>1. PICK r : r = [Idle("none") EXCEPT !.at = "cleanScan", !.parsed = tracked, !.mode = mode,
                        !.force = force /\ tracked # 0, !.digest = digest,
                        !.before = Alive, !.first = IF digest = None THEN None ELSE manifest] /\ Call(c, r)
    BY <1>2 DEF CleanupData
  <2>2a. /\ r.at = "cleanScan" /\ r.before = Alive /\ r.answer = "none" /\ r.scanned = FALSE /\ r.dir = 1
        /\ r.first \in {None, manifest}
    BY <1>0, <2>1 DEF Idle
  <2>2b. Idle("none") \in Rpcs /\ Idle("failure") \in Rpcs
    BY IdleType DEF Answers
  <2>2. r \in Rpcs
    <3>1. PICK alive \in SUBSET Pids, forced \in BOOLEAN, first \in Manifests \cup {None} :
            alive = Alive /\ forced = (force /\ tracked # 0)
            /\ first = IF digest = None THEN None ELSE manifest
      BY <1>0 DEF Alive, TypeOK
    <3>2. "cleanScan" \in Awaits /\ tracked \in Pids \cup {0}
      BY <1>0 DEF Awaits, CleanAwaits, TypeOK
    <3>3. r = [at |-> "cleanScan", scanned |-> FALSE, pids |-> {}, pid |-> 0, parsed |-> tracked,
               mode |-> mode, force |-> forced, digest |-> digest, dir |-> 1, before |-> alive,
               first |-> first, answer |-> "none"]
      BY <2>1, <3>1 DEF Idle
    <3>. QED BY <3>1, <3>2, <3>3, DaqControlAssumption DEF Rpcs, Dirs, Answers
  <2>3. Sound(r)
    BY <2>2a DEF Sound, Alive
  <2>. QED BY <1>2, <2>1, <2>2a, <2>2, <2>3, Called DEF CleanupData, Holding
<1>. QED BY <1>1, <1>2

(* Steps of StopDaq.                                                       *)
LEMMA StopInv ==
  ASSUME IInv, NEW c \in Callers, StopStep(c)
  PROVE  IInv'
<1>0. TypeOK /\ rpc[c] \in Rpcs
  BY IInvFacts
<1>1. CASE StopSignal(c)
  <2>1. Rest /\ rpc[c].at \notin Holding \cup {"idle"}
    BY <1>0, <1>1, RestSame DEF StopSignal, Resumes, Holding, TypeOK
  <2>2. CASE rpc[c].pids = {}
    BY <1>0, <1>1, <2>1, <2>2, AnswerBecomes, Answered DEF StopSignal, Answers
  <2>3. CASE rpc[c].pids # {}
    BY <1>0, <1>1, <2>1, <2>3, Goes, SameProcesses DEF StopSignal, StopAwaits
  <2>. QED BY <2>2, <2>3
<1>2. CASE StopWait(c) \/ StopReap(c)
  <2>1. Rest /\ rpc[c].at \notin Holding \cup {"idle"}
    BY <1>0, <1>2, RestSame DEF StopWait, StopReap, Resumes, Holding, TypeOK
  <2>. QED BY <1>0, <1>2, <2>1, Goes, SameProcesses DEF StopWait, StopReap, StopAwaits
<1>3. CASE StopKill(c)
  <2>1. Rest /\ rpc[c].at \notin Holding \cup {"idle"}
    BY <1>0, <1>3, RestSame DEF StopKill, Resumes, Holding, TypeOK
  <2>2. NoRevival /\ Unused' = Unused /\ Alive' \subseteq Alive
    BY <1>0, <1>3 DEF StopKill, Kill, TypeOK, ProcStates, NoRevival, Unused, Alive
  <2>. QED BY <1>3, <2>1, <2>2, Goes DEF StopKill, StopAwaits
<1>4. CASE StopSidecar(c)
  <2>1. Rest /\ rpc[c].at \notin Holding \cup {"idle"}
    BY <1>0, <1>4, RestSame DEF StopSidecar, Holding, TypeOK
  <2>2. CASE Go(c, "stopVerify")
    BY <1>0, <1>4, <2>1, <2>2, Goes, SameProcesses DEF StopSidecar, StopAwaits
  <2>3. CASE Answer(c, "failure")
    BY <1>0, <1>4, <2>1, <2>3, AnswerBecomes, Answered DEF StopSidecar, Answers
  <2>. QED BY <1>4, <2>2, <2>3 DEF StopSidecar
<1>5. CASE StopVerify(c)
  <2>1. Rest /\ rpc[c].at \notin Holding
    BY <1>0, <1>5, RestSame DEF StopVerify, Resumes, Holding
  <2>. QED BY <1>0, <1>5, <2>1, AnswerBecomes, Answered DEF StopVerify, Answers
<1>. QED BY <1>1, <1>2, <1>3, <1>4, <1>5 DEF StopStep

(* StatusDaq, GetTransferStatus, the poll of StartDaq.                     *)
LEMMA LookInv ==
  ASSUME IInv, NEW c \in Callers, StatusSeen(c) \/ TransferStep(c) \/ StartPoll(c)
  PROVE  IInv'
<1>0. TypeOK /\ rpc[c] \in Rpcs
  BY IInvFacts
<1>1. CASE StatusSeen(c)
  <2>1. rpc[c].pids \in SUBSET Pids
    BY <1>0 DEF Rpcs
  <2>2. tracked' \in Pids \cup {0}
    BY <1>0, <1>1, <2>1, OneFound DEF StatusSeen, TypeOK
  <2>3. Rest /\ rpc[c].at \notin Holding
    BY <1>0, <1>1, <2>2, RestSame DEF StatusSeen, Resumes, Holding
  <2>. QED BY <1>0, <1>1, <2>3, AnswerBecomes, Answered DEF StatusSeen, Answers
<1>2. CASE TransferLook(c)
  <2>1. PICK r : r = [rpc[c] EXCEPT !.at = "transferDirs", !.pids = {rpc[c].parsed} \cap Alive]
    OBVIOUS
  <2>2. r \in Rpcs
    <3>1. {rpc[c].parsed} \cap Alive \in SUBSET Pids
      BY DEF Alive
    <3>. QED BY <1>0, <2>1, <3>1 DEF Rpcs, Awaits
  <2>3. Becomes(c, r)
    BY <1>0, <1>2, <2>1, BecomesAlone DEF TransferLook, TypeOK
  <2>4. r.at = "transferDirs" /\ r.before = rpc[c].before /\ r.answer = rpc[c].answer /\ r.first = rpc[c].first
    BY <1>0, <2>1 DEF Rpcs
  <2>5. Sound(r)
    BY <1>2, <2>4, IInvFacts DEF Sound, TransferLook, StopAwaits
  <2>6. Sound(r)'
    BY <1>0, <1>2, <2>2, <2>5, SameProcesses, SoundStays DEF TransferLook
  <2>. QED
    BY <1>0, <1>2, <2>2, <2>3, <2>4, <2>6, CallMoves, SameProcesses, RestSame DEF TransferLook, TypeOK, Holding
<1>3. CASE TransferSeen(c) \/ StartPoll(c)
  <2>1. Rest /\ rpc[c].at \notin Holding
    BY <1>0, <1>3, RestSame DEF TransferSeen, StartPoll, TypeOK, Holding
  <2>. QED BY <1>0, <1>3, <2>1, AnswerBecomes, Answered DEF TransferSeen, StartPoll, Answers
<1>. QED BY <1>1, <1>2, <1>3 DEF TransferStep

(* GenerateManifest                                                        *)
LEMMA ManifestInv ==
  ASSUME IInv, NEW c \in Callers, ManifestBegin(c) \/ ManifestEnd(c)
  PROVE  IInv'
<1>0. TypeOK /\ rpc[c] \in Rpcs
  BY IInvFacts
<1>1. CASE ManifestBegin(c)
  <2>1. Rest /\ rpc[c].at \notin Holding \cup {"idle"}
    BY <1>0, <1>1, RestSame DEF ManifestBegin, TypeOK, Holding
  <2>2. CASE Go(c, "replace")
    BY <1>0, <1>1, <2>1, <2>2, Goes, SameProcesses DEF ManifestBegin
  <2>3. CASE Answer(c, "failure")
    BY <1>0, <1>1, <2>1, <2>3, AnswerBecomes, Answered DEF ManifestBegin, Answers
  <2>. QED BY <1>1, <2>2, <2>3 DEF ManifestBegin
<1>2. CASE ManifestEnd(c)
  <2>1. Rest /\ rpc[c].at \notin Holding
    BY <1>0, <1>2 DEF ManifestEnd, Rest, TypeOK, Holding
  <2>2. Becomes(c, Idle("success")) \/ Becomes(c, Idle("failure"))
    BY <1>0, <1>2, AnswerBecomes DEF ManifestEnd, Becomes
  <2>. QED BY <1>2, <2>1, <2>2, Answered DEF ManifestEnd, Answers
<1>. QED BY <1>1, <1>2

(* CleanupData                                                             *)

(* One directory goes: the call goes on, or it fails.                      *)
LEMMA DirInv ==
  ASSUME IInv, NEW c \in Callers, NEW d \in Dirs, DeleteDir(c, d) \/ RaiseInDir(c, d),
         UNCHANGED <<proc, lock, bounds>>, tracked' \in Pids \cup {0},
         rpc[c].at \in {"cleanScan", "cleanNext"}, rpc[c].mode = "full", rpc[c].before \cap Alive = {}
  PROVE  IInv'
<1>0. TypeOK /\ rpc[c] \in Rpcs /\ rpc[c].at \notin Holding
  BY IInvFacts DEF Holding
<1>1. Rest
  <2>1. dirs' \in [Dirs -> DirStates]
    BY <1>0 DEF DeleteDir, RaiseInDir, TypeOK, DirStates
  <2>2. manifest' \in Manifests \cup {None}
    BY <1>0 DEF DeleteDir, RaiseInDir, TypeOK
  <2>. QED BY <1>0, <2>1, <2>2 DEF Rest, TypeOK
<1>2. CASE RaiseInDir(c, d)
  <2>1. Becomes(c, Idle("failure"))
    BY <1>2 DEF RaiseInDir, Becomes
  <2>. QED BY <1>0, <1>1, <2>1, Answered DEF Answers
<1>3. CASE DeleteDir(c, d)
  <2>1. PICK q \in Rpcs : /\ q = Meeting(manifest')[c]
                          /\ q = [rpc[c] EXCEPT !.first = None] \/ (q = rpc[c] /\ manifest' = manifest)
    BY <1>0 DEF Meeting, Rpcs
  <2>2. PICK r : r = [q EXCEPT !.at = "cleanNext", !.scanned = FALSE, !.pids = {}, !.dir = d]
    OBVIOUS
  <2>3. r \in Rpcs
    <3>1. "cleanNext" \in Awaits \cup {"idle"}
      BY DEF Awaits, CleanAwaits
    <3>2. {} \in SUBSET Pids /\ FALSE \in BOOLEAN
      OBVIOUS
    <3>. QED BY <2>2, <3>1, <3>2 DEF Rpcs
  <2>4. Becomes(c, r)
    BY <1>3, <2>1, <2>2 DEF DeleteDir, Becomes, Meeting
  <2>5. /\ r.at = "cleanNext" /\ r.before = q.before /\ r.answer = q.answer /\ r.first = q.first
        /\ r.mode = q.mode
    BY <2>1, <2>2 DEF Rpcs
  <2>6. /\ q.before = rpc[c].before /\ q.answer = rpc[c].answer /\ q.mode = rpc[c].mode
        /\ q.first = None \/ (q.first = rpc[c].first /\ manifest' = manifest)
    BY <1>0, <2>1 DEF Rpcs
  <2>7. NoRevival /\ Alive' = Alive /\ Unused' = Unused
    BY <1>0, SameProcesses
  <2>8. rpc[c].answer = "none" /\ (\A p \in rpc[c].before : proc[p] # "none")
        /\ (rpc[c].first # None => rpc[c].first = manifest)
    BY IInvFacts DEF Sound
  <2>9. Sound(r)'
    BY <2>5, <2>6, <2>7, <2>8 DEF Sound, StopAwaits
  <2>. QED
    BY <1>0, <1>1, <2>3, <2>4, <2>5, <2>7, <2>9, CallMoves DEF Holding
<1>. QED BY <1>2, <1>3

(* A clean-up goes on only when its scan found nothing, and deletes by     *)
(* digest only after it was compared.                                      *)
LEMMA CleanupInv ==
  ASSUME IInv, NEW c \in Callers, CleanupStep(c)
  PROVE  IInv'
<1>0. TypeOK /\ rpc[c] \in Rpcs /\ Sound(rpc[c])
  BY IInvFacts
<1>1. CASE CleanupRefused(c)
  <2>1. tracked' \in Pids \cup {0}
    BY <1>0, <1>1, OneFound DEF CleanupRefused, TypeOK, Rpcs
  <2>2. Rest /\ rpc[c].at \notin Holding
    BY <1>0, <1>1, <2>1, RestSame DEF CleanupRefused, Resumes, Holding
  <2>. QED BY <1>0, <1>1, <2>2, AnswerBecomes, Answered DEF CleanupRefused, Answers
<1>2. CASE CleanupAllowed(c)
  <2>1. /\ rpc[c].at = "cleanScan" /\ rpc[c].scanned /\ rpc[c].pids = {} /\ rpc[c].dir = 1
        /\ rpc[c].answer = "none" /\ tracked' \in Pids \cup {0} /\ UNCHANGED <<proc, lock, bounds>>
    BY <1>0, <1>2 DEF CleanupAllowed, Resumes, HashpipeFound, Sound, TypeOK
  <2>2. rpc[c].before \cap Alive = {}
    BY <1>0, <2>1 DEF Sound
  <2>3. CASE rpc[c].mode = "full"
    <3>1. 1 \in Dirs
      BY DaqControlAssumption DEF Dirs
    <3>. QED BY <1>2, <2>1, <2>2, <2>3, <3>1, DirInv DEF CleanupAllowed
  <2>4. CASE rpc[c].mode # "full" /\ rpc[c].digest = None
    <3>1. Rest
      BY <1>0, <1>2, <2>1, <2>4 DEF CleanupAllowed, DeleteFiles, Rest, TypeOK, DirStates
    <3>. QED BY <1>0, <1>2, <2>1, <2>4, <3>1, AnswerBecomes, Answered DEF CleanupAllowed, Answers, Holding
  <2>5. CASE rpc[c].mode # "full" /\ rpc[c].digest # None
    <3>1. Go(c, "cleanDigest") /\ UNCHANGED <<dirs, manifest>>
      BY <1>2, <2>5 DEF CleanupAllowed
    <3>2. "cleanDigest" \in Awaits
      BY DEF Awaits, CleanAwaits
    <3>3. PICK r \in Rpcs : r = Moved(rpc[c], "cleanDigest") /\ Becomes(c, r)
      BY <1>0, <3>1, <3>2, GoMoves, BecomesAlone
    <3>4. /\ r.at = "cleanDigest" /\ r.before = rpc[c].before /\ r.answer = rpc[c].answer
          /\ r.first = rpc[c].first /\ r.digest = rpc[c].digest /\ r.dir = rpc[c].dir
      BY <1>0, <3>3 DEF Moved, Rpcs
    <3>5. Sound(r)
      BY <1>0, <2>1, <2>2, <2>5, <3>4 DEF Sound, StopAwaits
    <3>6. Sound(r)'
      BY <1>0, <2>1, <3>1, <3>5, SameProcesses, SoundStays
    <3>. QED BY <1>0, <2>1, <3>1, <3>3, <3>4, <3>6, CallMoves, SameProcesses, RestSame DEF Holding
  <2>. QED BY <2>3, <2>4, <2>5
<1>3. CASE CleanupNext(c)
  <2>1. /\ rpc[c].at = "cleanNext" /\ rpc[c].mode = "full" /\ rpc[c].before \cap Alive = {}
        /\ UNCHANGED <<proc, tracked, lock, bounds>>
    BY <1>0, <1>3 DEF CleanupNext, Sound
  <2>2. CASE rpc[c].dir = NumDirs
    <3>1. \E a \in {"success", "failure"} : Answer(c, a) /\ UNCHANGED <<dirs, manifest>>
      BY <1>3, <2>2, DaqControlAssumption DEF CleanupNext
    <3>2. Rest
      BY <1>0, <2>1, <3>1, RestSame DEF TypeOK
    <3>. QED BY <1>0, <2>1, <3>1, <3>2, AnswerBecomes, Answered DEF Answers, Holding
  <2>3. CASE rpc[c].dir # NumDirs
    <3>1. rpc[c].dir + 1 \in Dirs
      BY <1>0, <1>3, <2>3, DaqControlAssumption DEF CleanupNext, Rpcs, Dirs
    <3>2. DeleteDir(c, rpc[c].dir + 1) \/ RaiseInDir(c, rpc[c].dir + 1)
      BY <1>3, <2>3 DEF CleanupNext
    <3>3. PICK d \in Dirs : DeleteDir(c, d) \/ RaiseInDir(c, d)
      BY <3>1, <3>2
    <3>. QED BY <1>0, <2>1, <3>3, DirInv DEF TypeOK
  <2>. QED BY <2>2, <2>3
<1>4. CASE CleanupDigest(c)
  <2>1. rpc[c].at = "cleanDigest" /\ UNCHANGED <<proc, tracked, lock, manifest, bounds>> /\ rpc[c].at \notin Holding
    BY <1>4 DEF CleanupDigest, Holding
  <2>2. CASE ~DigestMatches(c) \/ ~MorePaths(c)
    <3>1. Rest
      BY <1>0, <1>4, <2>1, <2>2 DEF CleanupDigest, DeleteFiles, Rest, TypeOK, DirStates
    <3>2. Answer(c, "failure") \/ Answer(c, "success")
      BY <1>4, <2>2 DEF CleanupDigest
    <3>. QED BY <1>0, <2>1, <3>1, <3>2, AnswerBecomes, Answered DEF Answers
  <2>3. CASE DigestMatches(c) /\ MorePaths(c)
    <3>1. rpc' = [rpc EXCEPT ![c] = [rpc[c] EXCEPT !.dir = @ + 1]] /\ UNCHANGED dirs
      BY <1>0, <1>4, <2>3 DEF CleanupDigest, TypeOK
    <3>2. rpc[c].dir + 1 \in Dirs
      BY <1>0, <2>3, DaqControlAssumption DEF MorePaths, Rpcs, Dirs
    <3>3. [rpc[c] EXCEPT !.dir = @ + 1] \in Rpcs
      BY <1>0, <3>2 DEF Rpcs
    <3>4. PICK r \in Rpcs : r = [rpc[c] EXCEPT !.dir = @ + 1] /\ Becomes(c, r)
      BY <1>0, <2>1, <3>1, <3>3, BecomesAlone
    <3>5. /\ r.at = "cleanDigest" /\ r.before = rpc[c].before /\ r.answer = rpc[c].answer
          /\ r.first = rpc[c].first /\ r.digest = rpc[c].digest
      BY <1>0, <2>1, <3>4 DEF Rpcs
    <3>6. r.first # None => r.first = r.digest
      <4>1. CASE rpc[c].dir = 1
        BY <1>0, <2>3, <3>5, <4>1 DEF DigestMatches, Sound
      <4>2. CASE rpc[c].dir # 1
        <5>1. rpc[c].dir > 1
          BY <1>0, <4>2, DaqControlAssumption DEF Rpcs, Dirs
        <5>. QED BY <1>0, <2>1, <3>5, <5>1 DEF Sound
      <4>. QED BY <4>1, <4>2
    <3>7. Sound(r)
      BY <1>0, <2>1, <3>5, <3>6 DEF Sound, StopAwaits
    <3>8. Sound(r)'
      BY <1>0, <2>1, <3>7, SameProcesses, SoundStays
    <3>9. Rest
      BY <1>0, <2>1, <3>1, RestSame DEF TypeOK
    <3>. QED BY <1>0, <2>1, <3>4, <3>5, <3>8, <3>9, CallMoves, SameProcesses DEF Holding
  <2>. QED BY <2>2, <2>3
<1>. QED BY <1>1, <1>2, <1>3, <1>4 DEF CleanupStep

-----------------------------------------------------------------------------
(* StartDaq                                                                *)

(* A StartDaq comes in: there is a process for it.                         *)
LEMMA StartDaqInv ==
  ASSUME IInv, NEW c \in Callers, StartDaq(c)
  PROVE  IInv'
<1>0. TypeOK /\ EnoughPids
  BY IInvFacts
<1>1. PICK r : r = [Idle("none") EXCEPT !.at = "startLock"] /\ Call(c, r)
  BY DEF StartDaq
<1>2. /\ r.at = "startLock" /\ r.before = {} /\ r.answer = "none" /\ r.scanned = FALSE
      /\ r.first = None
  BY <1>1 DEF Idle
<1>3. Idle("none") \in Rpcs
  BY IdleType DEF Answers
<1>4. r \in Rpcs
  BY <1>1, <1>3 DEF Rpcs, Awaits, StartAwaits
<1>5. Sound(r)'
  BY <1>2 DEF Sound, StopAwaits
<1>6. Becomes(c, r)
  BY <1>0, <1>1, BecomesAlone DEF Call, StartDaq
<1>7. bounds' \in [calls : 0..MaxCalls, restarts : 0..MaxRestarts, stopping : BOOLEAN]
  BY <1>0, DaqControlAssumption DEF StartDaq, Call, TypeOK
<1>8. TypeOK'
  BY <1>0, <1>4, <1>6, <1>7, OneMoves DEF TypeOK, StartDaq
<1>9. NoRevival /\ Alive' = Alive /\ Unused' = Unused
  BY <1>0, SameProcesses DEF StartDaq
<1>10. \A x \in Callers : Sound(rpc[x])'
  BY <1>4, <1>5, <1>6, <1>9, OthersSound
<1>11. rpc'[c].at = "startLock" /\ \A x \in Callers \ {c} : rpc'[x].at = rpc[x].at
  BY <1>0, <1>2, <1>4, <1>6, OneMoves
<1>12. LockOwned' /\ NothingRuns' /\ AtMostOne'
  BY <1>9, <1>11, IInvFacts DEF LockOwned, NothingRuns, AtMostOne, StartDaq, Call, Holding
<1>13. EnoughPids'
  <2>1. Spawning' = Spawning \cup {c}
    BY <1>11 DEF Spawning
  <2>2. IsFiniteSet(Spawning') /\ Cardinality(Spawning') <= Cardinality(Spawning) + 1
        /\ Cardinality(Spawning') \in Nat
    <3>1. IsFiniteSet(Spawning') /\ (Cardinality(Spawning') = Cardinality(Spawning)
                                     \/ Cardinality(Spawning') = Cardinality(Spawning) + 1)
      BY <1>0, <2>1, SpawningFinite, FS_AddElement
    <3>. QED BY <1>0, <3>1, SpawningFinite, FS_CardinalityType
  <2>. QED BY <1>0, <1>9, <2>2, SpawningFinite DEF EnoughPids, StartDaq
<1>. QED BY <1>8, <1>10, <1>12, <1>13 DEF IInv, Inv1

(* It takes the lock when nothing was found.                               *)
LEMMA StartEnterInv ==
  ASSUME IInv, NEW c \in Callers, StartEnter(c)
  PROVE  IInv'
<1>0. TypeOK /\ rpc[c] \in Rpcs /\ Sound(rpc[c]) /\ rpc[c].at = "startLock" /\ rpc[c].at \notin Holding
  BY IInvFacts DEF StartEnter, Holding
<1>1. CASE Answer(c, "failure") /\ UNCHANGED <<lock, dirs>>
  BY <1>0, <1>1, RestSame, AnswerBecomes, Answered DEF StartEnter, Answers, TypeOK
<1>2. CASE /\ Found = {} /\ lock' = c /\ Go(c, "startFiles")
           /\ dirs' = [dirs EXCEPT ![1] = IF @ = "absent" THEN "empty" ELSE @]
  <2>1. Rest
    BY <1>0, <1>2, DaqControlAssumption DEF StartEnter, Rest, TypeOK, Dirs, DirStates
  <2>2. NoRevival /\ Alive' = Alive /\ Unused' = Unused
    BY <1>0, SameProcesses DEF StartEnter
  <2>3. "startFiles" \in Awaits
    BY DEF Awaits, StartAwaits
  <2>4. PICK r \in Rpcs : r = Moved(rpc[c], "startFiles") /\ Becomes(c, r)
    BY <1>0, <1>2, <2>3, GoMoves, BecomesAlone DEF StartEnter
  <2>5. /\ r.at = "startFiles" /\ r.before = rpc[c].before /\ r.answer = rpc[c].answer /\ r.first = rpc[c].first
    BY <1>0, <2>4 DEF Moved, Rpcs
  <2>6. Sound(r)
    BY <1>0, <2>5 DEF Sound, StopAwaits
  <2>7. Sound(r)'
    BY <1>0, <2>2, <2>6, SoundStays DEF StartEnter
  <2>8. \A x \in Callers : Sound(rpc[x])'
    BY <2>2, <2>4, <2>7, OthersSound
  <2>9. rpc'[c].at = "startFiles" /\ \A x \in Callers \ {c} : rpc'[x].at = rpc[x].at
    BY <1>0, <2>4, <2>5, OneMoves
  <2>10. TypeOK'
    BY <1>0, <1>2, <2>1, <2>4, OneMoves DEF TypeOK, StartEnter, Rest
  <2>11. lock = None /\ None \notin Callers /\ Alive = {}
    BY <1>2, DaqControlAssumption DEF StartEnter, LockFree, Alive, Found
  <2>12. LockOwned' /\ NothingRuns' /\ AtMostOne'
    BY <1>2, <2>2, <2>9, <2>11, IInvFacts DEF LockOwned, NothingRuns, AtMostOne, Holding
  <2>13. EnoughPids'
    <3>1. Spawning' \subseteq Spawning
      BY <1>0, <2>9 DEF Spawning
    <3>. QED BY <2>2, <3>1, IInvFacts, FewerSpawning
  <2>. QED BY <2>8, <2>10, <2>12, <2>13 DEF IInv, Inv1
<1>. QED BY <1>1, <1>2 DEF StartEnter

(* The lock is released, by an answer, an exception or a cancellation.     *)
LEMMA Releases ==
  ASSUME IInv, NEW c \in Callers, NEW r \in Rpcs, rpc[c].at \in Holding,
         Becomes(c, r), Sound(r)', r.at \notin Holding \cup {"startLock"},
         lock' = None, UNCHANGED proc, Rest
  PROVE  IInv'
<1>0. TypeOK
  BY IInvFacts
<1>1. NoRevival /\ Alive' = Alive /\ Unused' = Unused
  BY <1>0, SameProcesses
<1>2. \A x \in Callers : Sound(rpc[x])'
  BY <1>1, OthersSound
<1>3. rpc'[c].at = r.at /\ \A x \in Callers \ {c} : rpc'[x].at = rpc[x].at
  BY <1>0, OneMoves
<1>4. TypeOK'
  BY <1>0, OneMoves DEF TypeOK, Rest
<1>5. LockOwned' /\ NothingRuns' /\ AtMostOne'
  BY <1>1, <1>3, IInvFacts, DaqControlAssumption DEF LockOwned, NothingRuns, AtMostOne, Holding
<1>6. Spawning' \subseteq Spawning
  BY <1>3 DEF Spawning, Holding
<1>. QED BY <1>1, <1>2, <1>4, <1>5, <1>6, FewerSpawning, IInvFacts DEF IInv, Inv1

(* It spawns, alone; or something raises and the lock is released.         *)
LEMMA StartSpawnInv ==
  ASSUME IInv, NEW c \in Callers, StartSpawn(c)
  PROVE  IInv'
<1>0. TypeOK /\ rpc[c] \in Rpcs /\ Sound(rpc[c]) /\ rpc[c].at = "startFiles" /\ rpc[c].at \in Holding
  BY IInvFacts DEF StartSpawn, Holding
<1>1. CASE Answer(c, "failure") /\ lock' = None /\ dirs' \in {dirs, Made} /\ UNCHANGED proc
  <2>1. Rest
    BY <1>0, <1>1 DEF StartSpawn, Rest, TypeOK, Made, DirStates
  <2>2. "failure" \in Answers /\ Idle("failure").at = "idle"
    BY DEF Answers, Idle
  <2>3. Becomes(c, Idle("failure"))
    BY <1>0, <1>1, AnswerBecomes DEF StartSpawn
  <2>. QED BY <1>0, <1>1, <2>1, <2>2, <2>3, IdleType, IdleSound, Releases DEF Holding
<1>2. CASE /\ proc' = [proc EXCEPT ![NextPid] = "running"] /\ dirs' = Made
           /\ rpc' = [rpc EXCEPT ![c].at = "startSpawn", ![c].pid = NextPid]
           /\ UNCHANGED lock
  <2>1. Unused # {} /\ c \in Spawning
    <3>1. c \in Spawning
      BY <1>0 DEF Spawning
    <3>2. Cardinality(Spawning) # 0 /\ Cardinality(Spawning) <= Cardinality(Unused)
      BY <3>1, SpawningFinite, IInvFacts, FS_EmptySet DEF EnoughPids
    <3>. QED BY <3>1, <3>2, SpawningFinite, IInvFacts, FS_EmptySet
  <2>2. PICK n : n = NextPid /\ n \in Pids /\ proc[n] = "none" /\ n \in Unused
    BY <2>1, LowestIn DEF NextPid, Unused
  <2>3. Alive = {} /\ Alive' = {n} /\ Unused' = Unused \ {n}
    BY <1>0, <1>2, <2>2, IInvFacts DEF NothingRuns, Alive, TypeOK, Unused
  <2>4. NoRevival
    BY <1>0, <1>2, <2>2, <2>3 DEF NoRevival, TypeOK, ProcStates
  <2>5. Rest
    BY <1>0, <1>2 DEF StartSpawn, Rest, TypeOK, Made, DirStates
  <2>6. rpc' = [rpc EXCEPT ![c] = [rpc[c] EXCEPT !.at = "startSpawn", !.pid = n]]
    BY <1>0, <1>2, <2>2 DEF TypeOK
  <2>7. [rpc[c] EXCEPT !.at = "startSpawn", !.pid = n] \in Rpcs
    BY <1>0, <2>2 DEF Rpcs, Awaits, StartAwaits
  <2>8. PICK r \in Rpcs : r = [rpc[c] EXCEPT !.at = "startSpawn", !.pid = n] /\ Becomes(c, r)
    BY <1>0, <2>6, <2>7, BecomesAlone DEF StartSpawn
  <2>9. /\ r.at = "startSpawn" /\ r.pid = n /\ r.before = rpc[c].before /\ r.answer = rpc[c].answer
        /\ r.first = rpc[c].first
    BY <1>0, <2>8 DEF Rpcs
  <2>10. Sound(r)
    BY <1>0, <2>2, <2>9 DEF Sound, StopAwaits
  <2>11. Sound(r)'
    BY <1>0, <2>4, <2>10, SoundStays DEF StartSpawn
  <2>12. \A x \in Callers : Sound(rpc[x])'
    BY <2>4, <2>8, <2>11, OthersSound
  <2>13. rpc'[c].at = "startSpawn" /\ \A x \in Callers \ {c} : rpc'[x].at = rpc[x].at
    BY <1>0, <2>8, <2>9, OneMoves
  <2>14. TypeOK'
    BY <1>0, <1>2, <2>4, <2>5, <2>8, OneMoves DEF TypeOK, StartSpawn, Rest, NoRevival
  <2>15. LockOwned' /\ NothingRuns' /\ AtMostOne'
    BY <1>0, <1>2, <2>3, <2>13, IInvFacts DEF LockOwned, NothingRuns, AtMostOne, Holding
  <2>16. EnoughPids'
    <3>1. Spawning' = Spawning \ {c}
      BY <2>13 DEF Spawning
    <3>2. Cardinality(Spawning') = Cardinality(Spawning) - 1 /\ IsFiniteSet(Spawning')
      BY <2>1, <3>1, SpawningFinite, IInvFacts, FS_RemoveElement
    <3>3. Cardinality(Unused') = Cardinality(Unused) - 1
      BY <2>2, <2>3, SpawningFinite, IInvFacts, FS_RemoveElement
    <3>. QED BY <3>2, <3>3, SpawningFinite, IInvFacts DEF EnoughPids
  <2>. QED BY <2>12, <2>14, <2>15, <2>16 DEF IInv, Inv1
<1>. QED BY <1>1, <1>2 DEF StartSpawn

(* It tracks the pid, or was cancelled, and releases the lock.             *)
LEMMA StartEndInv ==
  ASSUME IInv, NEW c \in Callers, StartSpawned(c) \/ StartAborted(c)
  PROVE  IInv'
<1>0. TypeOK /\ rpc[c] \in Rpcs /\ Sound(rpc[c]) /\ rpc[c].at \in Holding
  BY IInvFacts DEF StartSpawned, StartAborted, Holding
<1>1. Rest /\ lock' = None /\ UNCHANGED <<proc, manifest>>
  BY <1>0, RestSame DEF StartSpawned, StartAborted, TypeOK, Rpcs
<1>2. CASE \E a \in {"success", "failure"} : Answer(c, a)
  <2>1. PICK a \in Answers : Answer(c, a) /\ Idle(a).at = "idle"
    BY <1>2 DEF Answers, Idle
  <2>. QED BY <1>0, <1>1, <2>1, AnswerBecomes, IdleType, IdleSound, Releases DEF Holding
<1>3. CASE Go(c, "startPoll")
  <2>1. "startPoll" \in Awaits
    BY DEF Awaits, StartAwaits
  <2>2. PICK r \in Rpcs : r = Moved(rpc[c], "startPoll") /\ Becomes(c, r)
    BY <1>0, <1>1, <1>3, <2>1, GoMoves, BecomesAlone
  <2>3. /\ r.at = "startPoll" /\ r.before = rpc[c].before /\ r.answer = rpc[c].answer /\ r.first = rpc[c].first
    BY <1>0, <2>2 DEF Moved, Rpcs
  <2>4. Sound(r)
    BY <1>0, <2>3 DEF Sound, StopAwaits, Holding
  <2>5. Sound(r)'
    BY <1>0, <1>1, <2>4, SameProcesses, SoundStays
  <2>. QED BY <1>0, <1>1, <2>2, <2>3, <2>5, Releases DEF Holding
<1>. QED BY <1>2, <1>3 DEF StartSpawned, StartAborted

-----------------------------------------------------------------------------
(* Cancellations, processes and the server                                 *)

(* A cancelled call fails; one that is spawning keeps the lock until the   *)
(* transport has ended the process.                                        *)
LEMMA CancelInv ==
  ASSUME IInv, NEW c \in Callers, Cancel(c)
  PROVE  IInv'
<1>0. TypeOK /\ rpc[c] \in Rpcs /\ Sound(rpc[c]) /\ LockOwned
  BY IInvFacts
<1>1. Rest /\ UNCHANGED manifest
  BY <1>0, RestSame DEF Cancel, TypeOK
<1>2. CASE /\ rpc[c].at # "startSpawn" /\ Answer(c, "failure")
           /\ lock' = ReleaseLock(c) /\ UNCHANGED proc
  <2>1. Becomes(c, Idle("failure")) /\ "failure" \in Answers /\ Idle("failure").at = "idle"
    BY <1>0, <1>1, <1>2, AnswerBecomes DEF Answers, Idle
  <2>2. CASE rpc[c].at = "startFiles"
    <3>1. lock' = None
      BY <1>0, <1>2, <2>2 DEF LockOwned, ReleaseLock, Holding
    <3>. QED BY <1>0, <1>1, <1>2, <2>1, <2>2, <3>1, IdleType, IdleSound, Releases DEF Holding
  <2>3. CASE rpc[c].at # "startFiles"
    <3>1. rpc[c].at \notin Holding /\ UNCHANGED lock
      BY <1>0, <1>2, <2>3 DEF LockOwned, ReleaseLock, Holding, Cancel
    <3>. QED BY <1>1, <1>2, <2>1, <3>1, Answered
  <2>. QED BY <2>2, <2>3
<1>3. CASE /\ rpc[c].at = "startSpawn"
           /\ rpc' = [rpc EXCEPT ![c].at = "startAbort"]
           /\ proc' = [proc EXCEPT ![rpc[c].pid] = IF @ = "running" THEN "killed" ELSE @]
           /\ UNCHANGED lock
  <2>1. NoRevival /\ Alive' = Alive /\ Unused' = Unused
    BY <1>0, <1>3 DEF NoRevival, Alive, Unused, TypeOK, ProcStates, Sound
  <2>2. [rpc[c] EXCEPT !.at = "startAbort"] \in Rpcs
    BY <1>0 DEF Rpcs, Awaits, StartAwaits
  <2>3. rpc' = [rpc EXCEPT ![c] = [rpc[c] EXCEPT !.at = "startAbort"]]
    BY <1>0, <1>3 DEF TypeOK
  <2>4. PICK r \in Rpcs : r = [rpc[c] EXCEPT !.at = "startAbort"] /\ Becomes(c, r)
    BY <1>0, <1>1, <2>2, <2>3, BecomesAlone
  <2>5. /\ r.at = "startAbort" /\ r.before = rpc[c].before /\ r.answer = rpc[c].answer
        /\ r.first = rpc[c].first /\ r.pid = rpc[c].pid
    BY <1>0, <2>4 DEF Rpcs
  <2>6. Sound(r)
    BY <1>0, <1>3, <2>5 DEF Sound, StopAwaits
  <2>7. Sound(r)'
    BY <1>0, <1>1, <2>1, <2>6, SoundStays
  <2>8. \A x \in Callers : Sound(rpc[x])'
    BY <2>1, <2>4, <2>7, OthersSound
  <2>9. rpc'[c].at = "startAbort" /\ \A x \in Callers \ {c} : rpc'[x].at = rpc[x].at
    BY <1>0, <2>4, <2>5, OneMoves
  <2>10. TypeOK'
    BY <1>0, <1>1, <1>3, <2>1, <2>4, OneMoves DEF TypeOK, Rest, NoRevival
  <2>11. LockOwned' /\ NothingRuns' /\ AtMostOne'
    BY <1>3, <2>1, <2>9, IInvFacts DEF LockOwned, NothingRuns, AtMostOne, Holding
  <2>12. Spawning' \subseteq Spawning
    BY <2>9 DEF Spawning
  <2>. QED BY <2>1, <2>8, <2>10, <2>11, <2>12, FewerSpawning, IInvFacts DEF IInv, Inv1
<1>. QED BY <1>2, <1>3 DEF Cancel

(* What happens outside the calls.                                         *)
LEMMA OutsideInv ==
  ASSUME IInv, UNCHANGED <<rpc, lock, manifest>>, Rest, NoRevival, Unused' = Unused, Alive' \subseteq Alive
  PROVE  IInv'
<1>1. TypeOK'
  BY IInvFacts DEF TypeOK, Rest, NoRevival
<1>2. LockOwned' /\ NothingRuns' /\ AtMostOne'
  BY IInvFacts DEF LockOwned, NothingRuns, AtMostOne
<1>3. EnoughPids'
  BY IInvFacts, FewerSpawning DEF Spawning
<1>4. ASSUME NEW c \in Callers PROVE Sound(rpc[c])'
  <2>1. PICK r \in Rpcs : r = rpc[c] /\ r = rpc'[c]
    BY IInvFacts
  <2>2. Sound(r)'
    BY <2>1, IInvFacts, SoundStays
  <2>. QED BY <2>1, <2>2 DEF Sound
<1>. QED BY <1>1, <1>2, <1>3, <1>4 DEF IInv, Inv1

(* Processes write, end and are reaped.                                    *)
LEMMA ProcessInv ==
  ASSUME IInv, NEW p \in Pids, Write(p) \/ Exit(p) \/ Reap(p)
  PROVE  IInv'
<1>0. TypeOK
  BY IInvFacts
<1>1. CASE Write(p)
  <2>1. Rest
    BY <1>0, <1>1 DEF Write, Rest, TypeOK, DirStates
  <2>. QED BY <1>0, <1>1, <2>1, SameProcesses, OutsideInv DEF Write
<1>2. CASE Exit(p) \/ Reap(p)
  <2>1. NoRevival /\ Unused' = Unused /\ Alive' \subseteq Alive
    BY <1>0, <1>2 DEF Exit, Reap, NoRevival, Unused, Alive, TypeOK, ProcStates
  <2>2. Rest
    BY <1>0, <1>2, RestSame DEF Exit, Reap, TypeOK
  <2>. QED BY <1>2, <2>1, <2>2, OutsideInv DEF Exit, Reap
<1>. QED BY <1>1, <1>2

(* A signal changes nothing yet.                                           *)
LEMMA TerminateInv ==
  ASSUME IInv, Terminate
  PROVE  IInv'
<1>1. TypeOK
  BY IInvFacts
<1>2. Rest
  BY <1>1 DEF Terminate, Rest, TypeOK
<1>. QED BY <1>1, <1>2, SameProcesses, OutsideInv DEF Terminate

(* After a start of the server nobody is in a call or holds the lock.      *)
NobodyThere == TypeOK /\ AtMostOne /\ rpc = [c \in Callers |-> Idle("none")] /\ lock = None

(* Then the invariant needs no more than one process.                      *)
LEMMA NobodyThereInv == NobodyThere => IInv
<1>. SUFFICES ASSUME NobodyThere PROVE IInv
  OBVIOUS
<1>. USE DEF NobodyThere
<1>1. \A c \in Callers : rpc[c] = Idle("none") /\ rpc[c].at = "idle"
  BY DEF Idle
<1>2. LockOwned /\ NothingRuns
  BY <1>1, DaqControlAssumption DEF LockOwned, NothingRuns, Holding
<1>3. EnoughPids
  <2>1. Spawning = {}
    BY <1>1 DEF Spawning
  <2>2. IsFiniteSet(Unused)
    BY FS_Subset, DaqControlAssumption DEF Unused
  <2>. QED BY <2>1, <2>2, FS_EmptySet, FS_CardinalityType DEF EnoughPids
<1>4. \A c \in Callers : Sound(rpc[c])
  BY <1>1 DEF Sound, Idle, StopAwaits
<1>. QED BY <1>2, <1>3, <1>4 DEF IInv, Inv1

(* A restart ends all calls and lets hashpipe run.                         *)
LEMMA RestartInv ==
  ASSUME IInv, Restart
  PROVE  IInv'
<1>0. TypeOK /\ AtMostOne
  BY IInvFacts
<1>1. Alive' = Alive
  BY <1>0 DEF Restart, TypeOK, Alive, ProcStates
<1>2. tracked' \in Pids \cup {0}
  BY OneFound DEF Restart, Alive
<1>3. bounds' \in [calls : 0..MaxCalls, restarts : 0..MaxRestarts, stopping : BOOLEAN]
  <2>1. bounds.restarts + 1 \in 0..MaxRestarts
    BY <1>0, DaqControlAssumption DEF Restart, TypeOK
  <2>. QED BY <1>0, <2>1 DEF Restart, TypeOK
<1>4. rpc' = [c \in Callers |-> Idle("none")] /\ lock' = None /\ Idle("none") \in Rpcs
  BY IdleType DEF Restart, Answers
<1>5. proc' \in [Pids -> ProcStates]
  BY <1>0 DEF Restart, TypeOK, ProcStates
<1>6. TypeOK'
  BY <1>0, <1>2, <1>3, <1>4, <1>5 DEF Restart, TypeOK
<1>7. AtMostOne'
  BY <1>0, <1>1 DEF AtMostOne
<1>8. NobodyThere'
  BY <1>4, <1>6, <1>7 DEF NobodyThere
<1>. QED BY <1>8, NobodyThereInv, PTL

(* The first start finds one hashpipe at most.                             *)
LEMMA InitInv == ASSUME Init PROVE IInv
<1>1. tracked \in Pids \cup {0}
  BY LowestIn DEF Init
<1>2. \A p \in Alive : p = tracked
  BY DEF Init, Alive
<1>3. AtMostOne
  BY <1>2 DEF AtMostOne
<1>4. Idle("none") \in Rpcs
  BY IdleType DEF Answers
<1>5. TypeOK
  BY <1>1, <1>4, DaqControlAssumption DEF Init, TypeOK, ProcStates, DirStates
<1>. QED BY <1>3, <1>5, NobodyThereInv DEF Init, NobodyThere

(* Every step keeps the invariant.                                         *)
LEMMA NextInv == ASSUME IInv, [Next]_vars PROVE IInv'
<1>1. ASSUME NEW c \in Callers, Request(c) PROVE IInv'
  BY <1>1, StartDaqInv, RequestInv, CleanupDataInv DEF Request
<1>2. ASSUME NEW c \in Callers, Progress(c) PROVE IInv'
  BY <1>2, ScanInv, StartEnterInv, StartSpawnInv, StartEndInv, LookInv, StopInv, CleanupInv, ManifestInv
     DEF Progress, StartStep
<1>3. ASSUME NEW c \in Callers, StopWaitOn(c) \/ Cancel(c) PROVE IInv'
  BY <1>3, StopWaitOnInv, CancelInv
<1>4. ASSUME UNCHANGED vars PROVE IInv'
  BY <1>4, SameProcesses, OutsideInv, IInvFacts DEF vars, Rest, TypeOK
<1>. QED
  BY <1>1, <1>2, <1>3, <1>4, ProcessInv, TerminateInv, RestartInv DEF Next

(* The invariant holds in every state.                                     *)
THEOREM DaqInvariant == Spec => []IInv
BY InitInv, NextInv, PTL DEF Spec

(* There is never more than one hashpipe, however StartDaq calls overlap   *)
(* each other, cancellations, StopDaq and restarts of the server.          *)
THEOREM NeverTwoHashpipes == Spec => []OneHashpipe
<1>1. IInv => OneHashpipe
  <2>1. SUFFICES ASSUME IInv PROVE Cardinality(Alive) <= 1
    BY IInvFacts DEF OneHashpipe
  <2>2. CASE Alive = {}
    BY <2>2, FS_EmptySet
  <2>3. CASE Alive # {}
    <3>1. PICK p : Alive = {p}
      BY <2>1, <2>3, IInvFacts DEF AtMostOne
    <3>2. Cardinality(Alive) = 1
      BY <3>1, FS_Singleton
    <3>. QED BY <3>2
  <2>. QED BY <2>2, <2>3
<1>. QED BY <1>1, DaqInvariant, PTL

-----------------------------------------------------------------------------
(* What a step may never do                                                *)

(* The steps of one call.                                                  *)
Acts(c) == Request(c) \/ Progress(c) \/ StopWaitOn(c) \/ Cancel(c)

(* A step of one call only lets the others see the manifest change.        *)
LEMMA OthersKeep ==
  ASSUME TypeOK, NEW x \in Callers, Acts(x), NEW c \in Callers, c # x
  PROVE  rpc'[c].at = rpc[c].at /\ rpc'[c].dir = rpc[c].dir /\ rpc'[c].answer = rpc[c].answer
<1>1. CASE rpc'[c] = rpc[c]
  BY <1>1
<1>2. CASE \E m : rpc'[c] = Meeting(m)[c]
  <2>1. rpc[c] \in Rpcs
    BY DEF TypeOK
  <2>. QED BY <1>2, <2>1 DEF Meeting, Rpcs
<1>3. CASE CleanupAllowed(x)
  BY <1>1, <1>2, <1>3 DEF CleanupAllowed, DeleteDir, RaiseInDir, Answer, Go, TypeOK, Meeting
<1>4. CASE CleanupNext(x)
  BY <1>1, <1>2, <1>4 DEF CleanupNext, DeleteDir, RaiseInDir, Answer, TypeOK, Meeting
<1>5. CASE ManifestEnd(x)
  BY <1>1, <1>2, <1>5 DEF ManifestEnd, Answer, TypeOK, Meeting
<1>6. CASE Request(x)
  BY <1>1, <1>6 DEF Request, StartDaq, StopDaq, StatusDaq, GetTransferStatus, GenerateManifest,
     CleanupData, Call, TypeOK
<1>7. CASE Scan(x) \/ StartStep(x) \/ StopWaitOn(x) \/ Cancel(x)
  BY <1>1, <1>7 DEF Scan, StartStep, StartEnter, StartSpawn, StartSpawned, StartPoll, StartAborted,
     StopWaitOn, Cancel, Answer, Go, TypeOK
<1>8. CASE StopStep(x) \/ StatusSeen(x) \/ TransferStep(x) \/ ManifestBegin(x)
  BY <1>1, <1>8 DEF StopStep, StopSignal, StopWait, StopKill, StopReap, StopSidecar, StopVerify,
     StatusSeen, TransferStep, TransferLook, TransferSeen, ManifestBegin, Answer, Go, TypeOK
<1>9. CASE CleanupRefused(x) \/ CleanupDigest(x)
  BY <1>1, <1>9 DEF CleanupRefused, CleanupDigest, Answer, TypeOK
<1>. QED
  BY <1>3, <1>4, <1>5, <1>6, <1>7, <1>8, <1>9 DEF Acts, Progress, CleanupStep

(* No call goes on, and none but the server's start answers any.           *)
LEMMA OutsideKeep ==
  ASSUME TypeOK, NEW c \in Callers,
         UNCHANGED vars \/ Terminate \/ Restart \/ \E p \in Pids : Write(p) \/ Exit(p) \/ Reap(p)
  PROVE  rpc'[c] = rpc[c] \/ (rpc'[c].answer = "none" /\ UNCHANGED dirs)
<1>1. CASE Restart
  BY <1>1 DEF Restart, Idle
<1>2. CASE ~Restart
  BY <1>2 DEF vars, Terminate, Write, Exit, Reap
<1>. QED BY <1>1, <1>2

(* A StopDaq answers success when its first or its last scan was empty.    *)
LEMMA StopStepTrue ==
  ASSUME IInv, [Next]_vars, NEW c \in Callers, rpc[c].at \in StopAwaits, rpc'[c].answer = "success"
  PROVE  rpc[c].before \cap Alive = {}
<1>0. TypeOK /\ rpc[c] \in Rpcs /\ Sound(rpc[c]) /\ rpc[c].answer = "none"
  BY IInvFacts DEF Sound, StopAwaits
<1>1. Acts(c)
  BY <1>0, OthersKeep, OutsideKeep DEF Next, Acts
<1>2. CASE StopSignal(c)
  BY <1>0, <1>2 DEF StopSignal, Resumes, Go, TypeOK, Sound, Rpcs
<1>3. CASE StopVerify(c)
  BY <1>0, <1>3 DEF StopVerify, StopSucceeded, Resumes, Answer, Idle, TypeOK, Sound
<1>4. CASE Scan(c) \/ StopWaitOn(c)
  <2>1. rpc'[c].answer = rpc[c].answer
    <3>1. \E f : rpc' = [rpc EXCEPT ![c] = f] /\ f.answer = rpc[c].answer
      <4>1. CASE Scan(c)
        <5>1. rpc' = [rpc EXCEPT ![c] = [rpc[c] EXCEPT !.scanned = TRUE, !.pids = Found]]
          BY <4>1 DEF Scan
        <5>2. [rpc[c] EXCEPT !.scanned = TRUE, !.pids = Found].answer = rpc[c].answer
          BY <1>0 DEF Rpcs
        <5> QED BY <5>1, <5>2
      <4>2. CASE StopWaitOn(c)
        <5>1. rpc' = [rpc EXCEPT ![c] = [rpc[c] EXCEPT !.pids = Found]]
          BY <4>2 DEF StopWaitOn
        <5>2. [rpc[c] EXCEPT !.pids = Found].answer = rpc[c].answer
          BY <1>0 DEF Rpcs
        <5> QED BY <5>1, <5>2
      <4> QED BY <1>4, <4>1, <4>2
    <3> QED BY <1>0, <3>1 DEF TypeOK
  <2> QED BY <1>0, <2>1
<1>5. CASE StopWait(c) \/ StopKill(c) \/ StopReap(c)
  <2>1. \E where : Go(c, where)
    BY <1>5 DEF StopWait, StopKill, StopReap
  <2>2. rpc'[c].answer = rpc[c].answer
    BY <1>0, <2>1 DEF Go, TypeOK, Rpcs
  <2>. QED BY <1>0, <2>2
<1>6. CASE StopSidecar(c) \/ Cancel(c)
  BY <1>0, <1>6 DEF StopSidecar, Cancel, Answer, Go, Idle, TypeOK, Rpcs, StopAwaits
<1>7. CASE Request(c)
  BY <1>7 DEF Request, StartDaq, StopDaq, StatusDaq, GetTransferStatus, GenerateManifest,
     CleanupData, Call, StopAwaits
<1>8. CASE StartStep(c) \/ StatusSeen(c) \/ TransferStep(c) \/ ManifestBegin(c) \/ ManifestEnd(c)
  BY <1>8 DEF StartStep, StartEnter, StartSpawn, StartSpawned, StartPoll, StartAborted, StatusSeen,
     TransferStep, TransferLook, TransferSeen, ManifestBegin, ManifestEnd, StopAwaits, Resumes
<1>9. CASE CleanupStep(c)
  BY <1>9 DEF CleanupStep, CleanupRefused, CleanupAllowed, CleanupNext, CleanupDigest, Resumes, StopAwaits
<1>. QED
  BY <1>1, <1>2, <1>3, <1>4, <1>5, <1>6, <1>7, <1>8, <1>9 DEF Acts, Progress, StopStep

(* A success of StopDaq is true: nothing that ran when it came runs on.    *)
THEOREM StopSuccessTrue == Spec => StopStops
<1>1. IInv /\ [Next]_vars =>
        \A c \in Callers :
          rpc[c].at \in StopAwaits /\ rpc'[c].answer = "success" => rpc[c].before \cap Alive = {}
  BY StopStepTrue
<1>. QED BY <1>1, DaqInvariant, PTL DEF Spec, StopStops

(* Files disappear in the three steps of CleanupData that delete.          *)
LEMMA OnlyCleanupDeletes ==
  ASSUME IInv, [Next]_vars, NEW c \in Callers, Deletes(c)
  PROVE  CleanupAllowed(c) \/ CleanupNext(c) \/ CleanupDigest(c)
<1>0. TypeOK
  BY IInvFacts
<1>1. dirs' # dirs /\ ~(rpc'[c] = rpc[c])
  BY DEF Deletes
<1>2. Acts(c)
  BY <1>0, <1>1, OthersKeep, OutsideKeep DEF Next, Acts, Deletes
<1>3. ~StartEnter(c) /\ ~StartSpawn(c)
  BY <1>0 DEF StartEnter, StartSpawn, Made, Deletes, TypeOK
<1>4. ~Request(c) /\ ~Scan(c) /\ ~StopWaitOn(c) /\ ~Cancel(c)
  BY <1>1 DEF Request, StartDaq, StopDaq, StatusDaq, GetTransferStatus, GenerateManifest, CleanupData,
     Scan, StopWaitOn, Cancel
<1>5. ~StartSpawned(c) /\ ~StartPoll(c) /\ ~StartAborted(c) /\ ~StopStep(c) /\ ~StatusSeen(c)
  BY <1>1 DEF StartSpawned, StartPoll, StartAborted, StopStep, StopSignal, StopWait, StopKill, StopReap,
     StopSidecar, StopVerify, StatusSeen
<1>6. ~TransferStep(c) /\ ~ManifestBegin(c) /\ ~ManifestEnd(c) /\ ~CleanupRefused(c)
  BY <1>1 DEF TransferStep, TransferLook, TransferSeen, ManifestBegin, ManifestEnd, CleanupRefused
<1>. QED
  BY <1>2, <1>3, <1>4, <1>5, <1>6 DEF Acts, Progress, StartStep, CleanupStep

(* Nothing is deleted under a hashpipe that has run since before the call, *)
(* tracked or not.                                                         *)
THEOREM LostHashpipeFound == Spec => CleanupFindsLost
<1>1. ASSUME IInv, [Next]_vars, NEW c \in Callers, Deletes(c)
      PROVE  rpc[c].before \cap Alive = {}
  BY <1>1, OnlyCleanupDeletes, IInvFacts
     DEF CleanupAllowed, CleanupNext, CleanupDigest, Resumes, HashpipeFound, Sound
<1>2. IInv /\ [Next]_vars => \A c \in Callers : Deletes(c) => rpc[c].before \cap Alive = {}
  BY <1>1
<1>. QED BY <1>2, DaqInvariant, PTL DEF Spec, CleanupFindsLost

(* A selective clean-up does not delete under the manifest it met when the *)
(* client's digest is of another one.                                      *)
THEOREM DigestChecked == Spec => DigestGuards
<1>1. ASSUME IInv, [Next]_vars, NEW c \in Callers, Deletes(c), rpc[c].mode = "selective",
             rpc[c].digest # None, rpc[c].first # None
      PROVE  rpc[c].first = rpc[c].digest
  <2>0. rpc[c] \in Rpcs /\ Sound(rpc[c])
    BY <1>1, IInvFacts
  <2>1. ~CleanupNext(c)
    BY <1>1, <2>0 DEF CleanupNext, Sound
  <2>2. ~CleanupAllowed(c)
    BY <1>1 DEF CleanupAllowed, Deletes
  <2>3. CleanupDigest(c) /\ DigestMatches(c)
    BY <1>1, <2>1, <2>2, OnlyCleanupDeletes DEF CleanupDigest, Deletes
  <2>4. CASE rpc[c].dir = 1
    BY <1>1, <2>0, <2>3, <2>4 DEF DigestMatches, Sound
  <2>5. CASE rpc[c].dir # 1
    <3>1. rpc[c].dir > 1
      BY <2>0, <2>5, DaqControlAssumption DEF Rpcs, Dirs
    <3>. QED BY <1>1, <2>0, <2>3, <3>1 DEF Sound, CleanupDigest
  <2>. QED BY <2>4, <2>5
<1>2. IInv /\ [Next]_vars =>
        \A c \in Callers :
          (/\ Deletes(c)
           /\ rpc[c].mode = "selective" /\ rpc[c].digest # None
           /\ rpc[c].first # None)
            => rpc[c].first = rpc[c].digest
  BY <1>1
<1>. QED BY <1>2, DaqInvariant, PTL DEF Spec, DigestGuards

-----------------------------------------------------------------------------
(* The ML broker.                                                          *)

(* q is the newest part of the predictions S that were sent, g what has    *)
(* been yielded of them, in their order.                                   *)
Newest(q, g, S) ==
  /\ \A i, j \in 1..Len(q) : i < j => q[i] < q[j]
  /\ \A i \in 1..Len(q) : q[i] \in S
  /\ \A p \in S : (\A i \in 1..Len(q) : q[i] # p) => \A i \in 1..Len(q) : p < q[i]
  /\ \A i, j \in 1..Len(g) : i < j => g[i] < g[j]
  /\ \A i \in 1..Len(g) : g[i] \in S /\ \A j \in 1..Len(q) : g[i] < q[j]

(* What the handler has yielded, read or not.                              *)
Yielded(s) == IF item[s] = 0 THEN got[s] ELSE Append(got[s], item[s])

(* The predictions there will be.                                          *)
Preds == 1..NumPreds

(* The types of the broker's state.                                        *)
BrokerTypes ==
  /\ at \in [Subs -> {"idle", "refused", "taking", "yielding", "ended", "failed"}]
  /\ queue \in [Subs -> Seq(Preds)] /\ got \in [Subs -> Seq(Preds)]
  /\ \A s \in Subs : Len(queue[s]) <= QueueSize
  /\ item \in [Subs -> 0..NumPreds] /\ since \in [Subs -> 0..NumPreds]
  /\ connected \in SUBSET Subs /\ emitted \in 0..NumPreds

(* The inductive invariant behind NewestKept.                              *)
BrokerInv ==
  /\ BrokerTypes
  /\ \A s \in Subs : since[s] <= emitted
  /\ \A s \in Subs : at[s] = "yielding" <=> item[s] # 0
  /\ \A s \in Subs : at[s] = "idle" => queue[s] = <<>> /\ got[s] = <<>>
  /\ \A s \in Registered : Newest(queue[s], Yielded(s), Sent(s))

(* A sequence is one to one when it ascends.                               *)
LEMMA Ascending ==
  ASSUME NEW q \in Seq(Nat), \A i, j \in 1..Len(q) : i < j => q[i] < q[j]
  PROVE  Cardinality(ToSet(q)) = Len(q)
<1>1. Len(q) \in Nat /\ DOMAIN q = 1..Len(q) /\ q \in [1..Len(q) -> ToSet(q)]
  BY DEF ToSet
<1>2. \A i, j \in 1..Len(q) : q[i] = q[j] => i = j
  <2> SUFFICES ASSUME NEW i \in 1..Len(q), NEW j \in 1..Len(q), q[i] = q[j], i # j PROVE FALSE
    OBVIOUS
  <2>1. q[i] \in Nat /\ q[j] \in Nat
    BY <1>1
  <2>2. i < j \/ j < i
    BY <1>1
  <2> QED BY <2>1, <2>2
<1>3. \A x \in ToSet(q) : \E i \in 1..Len(q) : q[i] = x
  BY <1>1 DEF ToSet
<1>4. q \in Bijection(1..Len(q), ToSet(q))
  BY <1>1, <1>2, <1>3 DEF Bijection, Injection, Surjection, IsInjective
<1>5. IsFiniteSet(1..Len(q)) /\ Cardinality(1..Len(q)) = Len(q)
  BY <1>1, FS_Interval
<1> QED BY <1>4, <1>5, FS_Bijection DEF ExistsBijection

(* A new prediction.                                                       *)
LEMMA PutNewest ==
  ASSUME NEW q \in Seq(Nat), NEW g \in Seq(Nat), NEW S \in SUBSET Nat, NEW p \in Nat,
         Newest(q, g, S), \A x \in S : x < p
  PROVE  Newest(Append(q, p), g, S \cup {p})
<1> DEFINE r == Append(q, p)
<1>1. /\ Len(q) \in Nat /\ Len(r) = Len(q) + 1 /\ r[Len(q) + 1] = p
      /\ \A i \in 1..Len(q) : r[i] = q[i] /\ i \in 1..Len(r)
      /\ \A i \in 1..Len(r) : i \in 1..Len(q) \/ i = Len(q) + 1
      /\ Len(q) + 1 \in 1..Len(r)
  OBVIOUS
<1> HIDE DEF r
<1>2. \A i, j \in 1..Len(r) : i < j => r[i] < r[j]
  <2> SUFFICES ASSUME NEW i \in 1..Len(r), NEW j \in 1..Len(r), i < j PROVE r[i] < r[j]
    OBVIOUS
  <2>1. i \in 1..Len(q)
    BY <1>1
  <2>2. CASE j \in 1..Len(q)
    BY <1>1, <2>1, <2>2 DEF Newest
  <2>3. CASE j = Len(q) + 1
    BY <1>1, <2>1, <2>3 DEF Newest
  <2> QED BY <1>1, <2>2, <2>3
<1>3. \A i \in 1..Len(r) : r[i] \in S \cup {p}
  BY <1>1 DEF Newest
<1>4. \A x \in S \cup {p} : (\A i \in 1..Len(r) : r[i] # x) => \A i \in 1..Len(r) : x < r[i]
  <2> SUFFICES ASSUME NEW x \in S \cup {p}, \A i \in 1..Len(r) : r[i] # x, NEW i \in 1..Len(r)
               PROVE  x < r[i]
    OBVIOUS
  <2>1. x # p /\ x \in S
    BY <1>1
  <2>2. CASE i \in 1..Len(q)
    BY <1>1, <2>1, <2>2 DEF Newest
  <2>3. CASE i = Len(q) + 1
    BY <1>1, <2>1, <2>3
  <2> QED BY <1>1, <2>2, <2>3
<1>5. \A i \in 1..Len(g) : g[i] \in S \cup {p} /\ \A j \in 1..Len(r) : g[i] < r[j]
  <2> SUFFICES ASSUME NEW i \in 1..Len(g), NEW j \in 1..Len(r) PROVE g[i] \in S /\ g[i] < r[j]
    BY DEF Newest
  <2>1. g[i] \in S
    BY DEF Newest
  <2>2. CASE j \in 1..Len(q)
    BY <1>1, <2>1, <2>2 DEF Newest
  <2>3. CASE j = Len(q) + 1
    BY <1>1, <2>1, <2>3
  <2> QED BY <1>1, <2>1, <2>2, <2>3
<1>6. Newest(r, g, S \cup {p})
  BY <1>2, <1>3, <1>4, <1>5 DEF Newest
<1> QED BY <1>6 DEF r

(* The oldest is dropped, or taken and yielded: z is g or g with the head. *)
LEMMA TailNewest ==
  ASSUME NEW q \in Seq(Nat), NEW g \in Seq(Nat), NEW S \in SUBSET Nat, Newest(q, g, S), q # <<>>
  PROVE  Newest(Tail(q), g, S) /\ Newest(Tail(q), Append(g, Head(q)), S)
<1> DEFINE r == Tail(q)
           h == Head(q)
           z == Append(g, h)
<1>1. /\ Len(q) \in Nat /\ Len(r) \in Nat /\ Len(r) = Len(q) - 1 /\ 1 \in 1..Len(q) /\ h = q[1]
      /\ \A i \in 1..Len(r) : i + 1 \in 1..Len(q) /\ r[i] = q[i + 1] /\ 1 < i + 1
      /\ \A i \in 1..Len(q) : i # 1 => i - 1 \in 1..Len(r) /\ r[i - 1] = q[i]
  OBVIOUS
<1>2. /\ Len(g) \in Nat /\ Len(z) = Len(g) + 1 /\ z[Len(g) + 1] = h
      /\ \A i \in 1..Len(g) : z[i] = g[i]
      /\ \A i \in 1..Len(z) : i \in 1..Len(g) \/ i = Len(g) + 1
  OBVIOUS
<1> HIDE DEF r, h, z
<1>3. \A i, j \in 1..Len(r) : i < j => r[i] < r[j]
  <2> SUFFICES ASSUME NEW i \in 1..Len(r), NEW j \in 1..Len(r), i < j PROVE r[i] < r[j]
    OBVIOUS
  <2>1. i + 1 \in 1..Len(q) /\ j + 1 \in 1..Len(q) /\ i + 1 < j + 1 /\ r[i] = q[i + 1] /\ r[j] = q[j + 1]
    BY <1>1
  <2> QED BY <2>1 DEF Newest
<1>4. \A i \in 1..Len(r) : r[i] \in S /\ h < r[i]
  BY <1>1 DEF Newest
<1>5. \A x \in S : (\A i \in 1..Len(r) : r[i] # x) => \A i \in 1..Len(r) : x < r[i]
  <2> SUFFICES ASSUME NEW x \in S, \A i \in 1..Len(r) : r[i] # x, NEW i \in 1..Len(r)
               PROVE  x < r[i]
    OBVIOUS
  <2>1. CASE x = h
    BY <1>4, <2>1
  <2>2. CASE x # h
    <3>1. \A j \in 1..Len(q) : q[j] # x
      BY <1>1, <2>2
    <3> QED BY <1>1, <3>1 DEF Newest
  <2> QED BY <2>1, <2>2
<1>6. \A i \in 1..Len(g) : g[i] \in S /\ g[i] < h /\ \A j \in 1..Len(r) : g[i] < r[j]
  BY <1>1 DEF Newest
<1>7. h \in S
  BY <1>1 DEF Newest
<1>8. \A i, j \in 1..Len(z) : i < j => z[i] < z[j]
  <2> SUFFICES ASSUME NEW i \in 1..Len(z), NEW j \in 1..Len(z), i < j PROVE z[i] < z[j]
    OBVIOUS
  <2>1. i \in 1..Len(g)
    BY <1>2
  <2>2. CASE j \in 1..Len(g)
    BY <1>2, <2>1, <2>2 DEF Newest
  <2>3. CASE j = Len(g) + 1
    BY <1>2, <1>6, <2>1, <2>3
  <2> QED BY <1>2, <2>2, <2>3
<1>9. \A i \in 1..Len(z) : z[i] \in S /\ \A j \in 1..Len(r) : z[i] < r[j]
  BY <1>2, <1>4, <1>6, <1>7
<1>10. Newest(r, g, S)
  BY <1>3, <1>4, <1>5, <1>6 DEF Newest
<1>11. Newest(r, z, S)
  BY <1>3, <1>4, <1>5, <1>8, <1>9 DEF Newest
<1> QED BY <1>10, <1>11 DEF r, h, z

(* put_nowait into a queue with or without room.                           *)
LEMMA PutStep ==
  ASSUME NEW q \in Seq(Preds), Len(q) <= QueueSize, NEW g \in Seq(Nat), NEW S \in SUBSET Nat,
         NEW p \in Preds, Newest(q, g, S), \A x \in S : x < p
  PROVE  Put(q, p) \in Seq(Preds) /\ Len(Put(q, p)) <= QueueSize /\ Newest(Put(q, p), g, S \cup {p})
<1>1. QueueSize \in Nat /\ QueueSize > 0 /\ NumPreds \in Nat
  BY MLBrokerAssumption
<1>2. Preds \in SUBSET Nat /\ p \in Nat
  BY <1>1 DEF Preds
<1>3. CASE Len(q) < QueueSize
  <2>1. Put(q, p) = Append(q, p)
    BY <1>3 DEF Put
  <2>2. Append(q, p) \in Seq(Preds) /\ Len(Append(q, p)) <= QueueSize
    BY <1>1, <1>3
  <2>3. q \in Seq(Nat)
    BY Zenon, <1>2, SeqMonotonic
  <2>4. Newest(Append(q, p), g, S \cup {p})
    BY <1>2, <2>3, PutNewest
  <2> QED BY <2>1, <2>2, <2>4
<1>4. CASE ~(Len(q) < QueueSize)
  <2>1. Put(q, p) = Append(Tail(q), p) /\ q # <<>>
    BY <1>1, <1>4 DEF Put
  <2>2. /\ Tail(q) \in Seq(Preds) /\ Len(Tail(q)) = Len(q) - 1
        /\ q \in Seq(Nat) /\ Tail(q) \in Seq(Nat)
    <3>1. Tail(q) \in Seq(Preds) /\ Len(Tail(q)) = Len(q) - 1
      BY <2>1
    <3> QED BY Zenon, <1>2, <3>1, SeqMonotonic
  <2>3. Append(Tail(q), p) \in Seq(Preds) /\ Len(Append(Tail(q), p)) <= QueueSize
    BY <1>1, <2>2
  <2>4. Newest(Tail(q), g, S)
    BY <2>1, <2>2, TailNewest
  <2>5. Newest(Append(Tail(q), p), g, S \cup {p})
    BY <1>2, <2>2, <2>4, PutNewest
  <2> QED BY <2>1, <2>3, <2>5
<1> QED BY <1>3, <1>4

(* The sequences and sets of the lemmas above.                             *)
LEMMA BrokerTyped ==
  ASSUME BrokerInv, NEW s \in Subs
  PROVE  /\ Preds \in SUBSET Nat /\ NumPreds \in Nat /\ emitted \in Nat
         /\ queue[s] \in Seq(Preds) /\ queue[s] \in Seq(Nat) /\ Len(queue[s]) <= QueueSize
         /\ got[s] \in Seq(Preds) /\ item[s] \in 0..NumPreds
         /\ Yielded(s) \in Seq(Preds) /\ Yielded(s) \in Seq(Nat)
         /\ Sent(s) \in SUBSET Nat /\ since[s] \in 0..NumPreds
         /\ Sent(s) \subseteq 1..emitted /\ Sent(s) \subseteq Preds
<1>1. NumPreds \in Nat /\ emitted \in Nat /\ emitted <= NumPreds
  BY MLBrokerAssumption DEF BrokerInv, BrokerTypes
<1>2. Preds \in SUBSET Nat
  BY <1>1 DEF Preds
<1>3. /\ queue[s] \in Seq(Preds) /\ got[s] \in Seq(Preds) /\ item[s] \in 0..NumPreds
      /\ Len(queue[s]) <= QueueSize /\ since[s] \in 0..NumPreds
  BY DEF BrokerInv, BrokerTypes
<1>4. Yielded(s) \in Seq(Preds)
  <2>1. CASE item[s] = 0
    BY <1>3, <2>1 DEF Yielded
  <2>2. CASE item[s] # 0
    <3>1. item[s] \in Preds
      BY <1>1, <1>3, <2>2 DEF Preds
    <3> QED BY <1>3, <2>2, <3>1 DEF Yielded
  <2> QED BY <2>1, <2>2
<1>5. Sent(s) \in SUBSET Nat /\ Sent(s) \subseteq 1..emitted /\ Sent(s) \subseteq Preds
  BY <1>1, <1>3 DEF Sent, Preds
<1>6. queue[s] \in Seq(Nat) /\ Yielded(s) \in Seq(Nat)
  BY Zenon, <1>2, <1>3, <1>4, SeqMonotonic
<1> QED BY <1>1, <1>2, <1>3, <1>4, <1>5, <1>6

(* A step of one handler.                                                  *)
LEMMA BrokerOne ==
  ASSUME BrokerInv, NEW s \in Subs, BrokerTypes', emitted' = emitted,
         \A r \in Subs \ {s} : /\ at'[r] = at[r] /\ queue'[r] = queue[r] /\ item'[r] = item[r]
                               /\ got'[r] = got[r] /\ since'[r] = since[r],
         since'[s] <= emitted, at'[s] # "idle", (at'[s] = "yielding") <=> (item'[s] # 0),
         at'[s] \in {"taking", "yielding"} => Newest(queue'[s], Yielded(s)', Sent(s)')
  PROVE  BrokerInv'
<1>1. ASSUME NEW r \in Registered' PROVE Newest(queue'[r], Yielded(r)', Sent(r)')
  <2>1. r \in Subs /\ at'[r] \in {"taking", "yielding"}
    BY DEF Registered
  <2>2. CASE r = s
    BY <2>1, <2>2
  <2>3. CASE r # s
    <3>1. r \in Registered /\ Yielded(r)' = Yielded(r) /\ Sent(r)' = Sent(r)
      BY <2>1, <2>3 DEF Registered, Yielded, Sent
    <3> QED BY <2>1, <2>3, <3>1 DEF BrokerInv
  <2> QED BY <2>2, <2>3
<1>2. \A r \in Subs : /\ since'[r] <= emitted'
                      /\ at'[r] = "yielding" <=> item'[r] # 0
                      /\ at'[r] = "idle" => queue'[r] = <<>> /\ got'[r] = <<>>
  <2> TAKE r \in Subs
  <2>1. CASE r = s
    BY <2>1
  <2>2. CASE r # s
    BY <2>2 DEF BrokerInv
  <2> QED BY <2>1, <2>2
<1> QED BY <1>1, <1>2 DEF BrokerInv

(* A look at the context: the handler goes on with the queue q or has      *)
(* unregistered.                                                           *)
LEMMA BrokerLoop ==
  ASSUME BrokerInv, NEW s \in Subs, NEW q \in Seq(Preds), Len(q) <= QueueSize, LoopTop(s, q)
  PROVE  /\ at' \in [Subs -> {"idle", "refused", "taking", "yielding", "ended", "failed"}]
         /\ queue' \in [Subs -> Seq(Preds)] /\ item' \in [Subs -> 0..NumPreds]
         /\ \A r \in Subs : Len(queue'[r]) <= QueueSize
         /\ \A r \in Subs \ {s} : at'[r] = at[r] /\ queue'[r] = queue[r] /\ item'[r] = item[r]
         /\ item'[s] = 0 /\ at'[s] \in {"taking", "ended", "failed"}
         /\ at'[s] = "taking" => queue'[s] = q
<1>1. BrokerTypes /\ 0 \in 0..NumPreds /\ <<>> \in Seq(Preds) /\ Len(<<>>) <= QueueSize
  BY MLBrokerAssumption DEF BrokerInv
<1>2. PICK c \in {"true", "false", "raises"} :
        /\ at' = [at EXCEPT ![s] = CASE c = "true" -> "taking"
                                    [] c = "false" -> "ended"
                                    [] c = "raises" -> "failed"]
        /\ queue' = [queue EXCEPT ![s] = IF c = "true" THEN q ELSE <<>>]
        /\ item' = [item EXCEPT ![s] = 0]
  BY MLBrokerAssumption DEF LoopTop, Outcomes
<1>3. CASE c = "true"
  <2>1. /\ at' = [at EXCEPT ![s] = "taking"] /\ queue' = [queue EXCEPT ![s] = q]
        /\ item' = [item EXCEPT ![s] = 0]
    BY <1>2, <1>3
  <2> QED BY <1>1, <2>1 DEF BrokerTypes
<1>4. CASE c # "true"
  <2>1. /\ queue' = [queue EXCEPT ![s] = <<>>] /\ item' = [item EXCEPT ![s] = 0]
        /\ at' = [at EXCEPT ![s] = "ended"] \/ at' = [at EXCEPT ![s] = "failed"]
    BY <1>2, <1>4
  <2> QED BY <1>1, <2>1 DEF BrokerTypes
<1> QED BY <1>3, <1>4

(* No step breaks it.                                                      *)
LEMMA BrokerStep ==
  ASSUME BrokerInv, [BrokerNext]_broker
  PROVE  BrokerInv'
<1>0. /\ BrokerTypes /\ NumPreds \in Nat /\ QueueSize \in Nat /\ Streams \subseteq Subs
      /\ \A s \in Subs : Matching[s] \in SUBSET Preds
  BY MLBrokerAssumption DEF BrokerInv, Subs, Preds
<1>1. CASE EmitPrediction
  <2> DEFINE p == emitted + 1
  <2>1. /\ emitted' = p /\ p \in Preds /\ p \in Nat /\ p \in 0..NumPreds /\ emitted \in Nat
        /\ UNCHANGED <<at, item, got, since, connected>>
        /\ queue' = [s \in Subs |-> IF s \in Receivers(p) THEN Put(queue[s], p) ELSE queue[s]]
    BY <1>0, <1>1 DEF EmitPrediction, Preds, BrokerTypes
  <2> HIDE DEF p
  <2>2. ASSUME NEW s \in Registered
        PROVE  /\ Newest(queue'[s], Yielded(s), Sent(s)') /\ queue'[s] \in Seq(Preds)
               /\ Len(queue'[s]) <= QueueSize
    <3>1. s \in Subs /\ Newest(queue[s], Yielded(s), Sent(s)) /\ since[s] <= emitted
      BY DEF Registered, BrokerInv
    <3>2. /\ queue[s] \in Seq(Preds) /\ Len(queue[s]) <= QueueSize /\ Yielded(s) \in Seq(Nat)
          /\ Sent(s) \in SUBSET Nat /\ since[s] \in 0..NumPreds
      BY <3>1, BrokerTyped
    <3>3. \A x \in Sent(s) : x < p
      BY <2>1, <3>1, BrokerTyped DEF p
    <3>4. CASE s \in Receivers(p)
      <4>1. Sent(s)' = Sent(s) \cup {p}
        BY <2>1, <3>1, <3>2, <3>4 DEF Sent, Receivers, p
      <4>2. queue'[s] = Put(queue[s], p)
        BY <2>1, <3>1, <3>4
      <4>3. p \in Preds
        BY <2>1 DEF p, Preds
      <4> HIDE DEF p
      <4>4. /\ Newest(Put(queue[s], p), Yielded(s), Sent(s) \cup {p})
            /\ Put(queue[s], p) \in Seq(Preds) /\ Len(Put(queue[s], p)) <= QueueSize
        BY <3>1, <3>2, <3>3, <4>3, PutStep
      <4> QED BY <4>1, <4>2, <4>4
    <3>5. CASE s \notin Receivers(p)
      <4>1. Sent(s)' = Sent(s)
        BY <2>1, <3>1, <3>2, <3>5 DEF Sent, Receivers, p
      <4>2. queue'[s] = queue[s]
        BY <2>1, <3>1, <3>5
      <4> QED BY <3>1, <3>2, <4>1, <4>2
    <3> QED BY <3>4, <3>5
  <2>3. \A s \in Subs : s \notin Registered => queue'[s] = queue[s]
    BY <2>1 DEF Receivers
  <2>4. BrokerTypes'
    <3>1. \A s \in Subs : queue'[s] \in Seq(Preds) /\ Len(queue'[s]) <= QueueSize
      BY <1>0, <2>2, <2>3 DEF BrokerTypes
    <3>2. queue' = [s \in Subs |-> queue'[s]]
      BY <2>1
    <3> QED BY <1>0, <2>1, <3>1, <3>2 DEF BrokerTypes
  <2>5. \A s \in Subs : since'[s] <= emitted'
    BY <2>1, <1>0 DEF BrokerInv, BrokerTypes, p
  <2>6. \A s \in Subs : at'[s] = "idle" => queue'[s] = <<>> /\ got'[s] = <<>>
    BY <2>1, <2>3 DEF BrokerInv, Registered
  <2>7. Registered' = Registered /\ \A s \in Subs : Yielded(s)' = Yielded(s)
    BY <2>1 DEF Registered, Yielded
  <2>8. \A s \in Subs : at'[s] = "yielding" <=> item'[s] # 0
    BY <2>1 DEF BrokerInv
  <2>9. \A s \in Registered' : Newest(queue'[s], Yielded(s)', Sent(s)')
    BY <2>2, <2>7 DEF Registered
  <2> QED BY <2>4, <2>5, <2>6, <2>8, <2>9 DEF BrokerInv
<1>2. ASSUME NEW s \in Subs, Subscribe(s) PROVE BrokerInv'
  <2>1. /\ at[s] = "idle" /\ UNCHANGED <<got, connected, emitted>>
        /\ since' = [since EXCEPT ![s] = emitted]
    BY <1>2 DEF Subscribe
  <2>2. /\ since' \in [Subs -> 0..NumPreds] /\ since'[s] = emitted /\ emitted \in Nat
        /\ \A r \in Subs \ {s} : since'[r] = since[r]
    BY <1>0, <2>1 DEF BrokerTypes
  <2>3. queue[s] = <<>> /\ got[s] = <<>> /\ item[s] = 0
    BY <2>1 DEF BrokerInv
  <2>4. CASE LoopTop(s, <<>>)
    <3>1. <<>> \in Seq(Preds) /\ Len(<<>>) <= QueueSize
      BY <1>0
    <3>2. /\ at' \in [Subs -> {"idle", "refused", "taking", "yielding", "ended", "failed"}]
          /\ queue' \in [Subs -> Seq(Preds)] /\ item' \in [Subs -> 0..NumPreds]
          /\ \A r \in Subs : Len(queue'[r]) <= QueueSize
          /\ \A r \in Subs \ {s} : at'[r] = at[r] /\ queue'[r] = queue[r] /\ item'[r] = item[r]
          /\ item'[s] = 0 /\ at'[s] \in {"taking", "ended", "failed"}
          /\ at'[s] = "taking" => queue'[s] = <<>>
      BY <2>4, <3>1, BrokerLoop
    <3>3. BrokerTypes'
      BY <1>0, <2>1, <2>2, <3>2 DEF BrokerTypes
    <3>4. Sent(s)' = {} /\ Yielded(s)' = <<>>
      BY <2>1, <2>2, <2>3, <3>2 DEF Sent, Yielded
    <3>5. at'[s] \in {"taking", "yielding"} => Newest(queue'[s], Yielded(s)', Sent(s)')
      BY <3>2, <3>4 DEF Newest
    <3> QED BY <2>1, <2>2, <3>2, <3>3, <3>5, BrokerOne
  <2>5. CASE at' = [at EXCEPT ![s] = "refused"] /\ UNCHANGED <<queue, item>>
    <3>1. BrokerTypes'
      BY <1>0, <2>1, <2>2, <2>5 DEF BrokerTypes
    <3>2. at'[s] = "refused" /\ \A r \in Subs \ {s} : at'[r] = at[r]
      BY <1>0, <2>5 DEF BrokerTypes
    <3> QED BY <2>1, <2>2, <2>3, <2>5, <3>1, <3>2, BrokerOne
  <2> QED BY <1>2, <2>4, <2>5 DEF Subscribe
<1>3. ASSUME NEW s \in Subs, Take(s) PROVE BrokerInv'
  <2> DEFINE h == Head(queue[s])
  <2>1. at[s] = "taking" /\ queue[s] # <<>> /\ UNCHANGED <<got, since, connected, emitted>>
    BY <1>3 DEF Take
  <2>2. /\ queue[s] \in Seq(Preds) /\ queue[s] \in Seq(Nat) /\ Len(queue[s]) <= QueueSize
        /\ Yielded(s) \in Seq(Nat) /\ Sent(s) \in SUBSET Nat
    BY BrokerTyped
  <2>3. s \in Registered /\ item[s] = 0 /\ Yielded(s) = got[s] /\ since[s] <= emitted
    BY <1>0, <2>1 DEF Registered, BrokerInv, BrokerTypes, Yielded
  <2>4. /\ Newest(Tail(queue[s]), Yielded(s), Sent(s))
        /\ Newest(Tail(queue[s]), Append(Yielded(s), h), Sent(s))
    BY <2>1, <2>2, <2>3, TailNewest DEF BrokerInv
  <2>5. Tail(queue[s]) \in Seq(Preds) /\ Len(Tail(queue[s])) <= QueueSize /\ h \in Preds
    BY <1>0, <2>1, <2>2
  <2>6. h \in 0..NumPreds /\ h # 0
    BY <1>0, <2>5 DEF Preds
  <2>7. Sent(s)' = Sent(s)
    BY <2>1 DEF Sent
  <2>8. CASE LoopTop(s, Tail(queue[s]))
    <3>1. /\ at' \in [Subs -> {"idle", "refused", "taking", "yielding", "ended", "failed"}]
          /\ queue' \in [Subs -> Seq(Preds)] /\ item' \in [Subs -> 0..NumPreds]
          /\ \A r \in Subs : Len(queue'[r]) <= QueueSize
          /\ \A r \in Subs \ {s} : at'[r] = at[r] /\ queue'[r] = queue[r] /\ item'[r] = item[r]
          /\ item'[s] = 0 /\ at'[s] \in {"taking", "ended", "failed"}
          /\ at'[s] = "taking" => queue'[s] = Tail(queue[s])
      BY <2>5, <2>8, BrokerLoop
    <3>2. BrokerTypes'
      BY <1>0, <2>1, <3>1 DEF BrokerTypes
    <3>3. Yielded(s)' = Yielded(s)
      BY <2>1, <2>3, <3>1 DEF Yielded
    <3> QED BY <2>1, <2>3, <2>4, <2>7, <3>1, <3>2, <3>3, BrokerOne
  <2>9. CASE /\ at' = [at EXCEPT ![s] = "yielding"] /\ item' = [item EXCEPT ![s] = h]
             /\ queue' = [queue EXCEPT ![s] = Tail(queue[s])]
    <3> HIDE DEF h
    <3>1. BrokerTypes'
      BY <1>0, <2>1, <2>5, <2>6, <2>9 DEF BrokerTypes
    <3>2. /\ \A r \in Subs \ {s} : queue'[r] = queue[r] /\ item'[r] = item[r] /\ at'[r] = at[r]
          /\ queue'[s] = Tail(queue[s]) /\ at'[s] = "yielding" /\ item'[s] = h
      BY <1>0, <2>9 DEF BrokerTypes
    <3>3. Yielded(s)' = Append(Yielded(s), h)
      BY <2>1, <2>3, <2>6, <3>2 DEF Yielded
    <3> QED BY <2>1, <2>3, <2>4, <2>6, <2>7, <3>1, <3>2, <3>3, BrokerOne
  <2> QED BY <1>3, <2>8, <2>9 DEF Take
<1>4. ASSUME NEW s \in Subs, Read(s) PROVE BrokerInv'
  <2>1. /\ at[s] = "yielding" /\ UNCHANGED <<since, connected, emitted>>
        /\ got' = [got EXCEPT ![s] = Append(got[s], item[s])]
        /\ LoopTop(s, queue[s])
    BY <1>4 DEF Read
  <2>2. item[s] # 0 /\ Yielded(s) = Append(got[s], item[s])
    BY <2>1 DEF BrokerInv, Yielded
  <2>3. /\ Append(got[s], item[s]) \in Seq(Preds) /\ queue[s] \in Seq(Preds)
        /\ Len(queue[s]) <= QueueSize
    BY <2>2, BrokerTyped
  <2>4. /\ at' \in [Subs -> {"idle", "refused", "taking", "yielding", "ended", "failed"}]
        /\ queue' \in [Subs -> Seq(Preds)] /\ item' \in [Subs -> 0..NumPreds]
        /\ \A r \in Subs : Len(queue'[r]) <= QueueSize
        /\ \A r \in Subs \ {s} : at'[r] = at[r] /\ queue'[r] = queue[r] /\ item'[r] = item[r]
        /\ item'[s] = 0 /\ at'[s] \in {"taking", "ended", "failed"}
        /\ at'[s] = "taking" => queue'[s] = queue[s]
    BY <2>1, <2>3, BrokerLoop
  <2>5. BrokerTypes'
    BY <1>0, <2>1, <2>3, <2>4 DEF BrokerTypes
  <2>6. /\ \A r \in Subs \ {s} : got'[r] = got[r]
        /\ got'[s] = Append(got[s], item[s])
    BY <1>0, <2>1 DEF BrokerTypes
  <2>7. Yielded(s)' = Yielded(s) /\ Sent(s)' = Sent(s)
    BY <2>1, <2>2, <2>4, <2>6 DEF Yielded, Sent
  <2>8. Newest(queue[s], Yielded(s), Sent(s)) /\ since[s] <= emitted
    BY <2>1 DEF BrokerInv, Registered
  <2> QED BY <2>1, <2>4, <2>5, <2>6, <2>7, <2>8, BrokerOne
<1>5. ASSUME NEW s \in Subs, Leave(s) PROVE BrokerInv'
  <2>1. UNCHANGED <<at, queue, item, got, since, emitted>> /\ connected' \in SUBSET Subs
    BY <1>0, <1>5 DEF Leave, BrokerTypes
  <2>2. BrokerTypes'
    BY <1>0, <2>1 DEF BrokerTypes
  <2> QED BY <2>1, <2>2 DEF BrokerInv, Registered, Sent, Yielded
<1>6. ASSUME NEW s \in Subs, End(s) PROVE BrokerInv'
  <2>1. /\ UNCHANGED <<got, since, connected, emitted>> /\ at' = [at EXCEPT ![s] = "ended"]
        /\ queue' = [queue EXCEPT ![s] = <<>>] /\ item' = [item EXCEPT ![s] = 0]
    BY <1>6 DEF End
  <2>2. 0 \in 0..NumPreds /\ <<>> \in Seq(Preds) /\ Len(<<>>) <= QueueSize
    BY <1>0
  <2>3. BrokerTypes'
    BY <1>0, <2>1, <2>2 DEF BrokerTypes
  <2>4. /\ \A r \in Subs \ {s} : queue'[r] = queue[r] /\ item'[r] = item[r] /\ at'[r] = at[r]
        /\ item'[s] = 0 /\ at'[s] = "ended" /\ since[s] <= emitted
    BY <1>0, <2>1 DEF BrokerTypes, BrokerInv
  <2> QED BY <2>1, <2>3, <2>4, BrokerOne
<1>7. ASSUME NEW s \in Subs, TimeOut(s) PROVE BrokerInv'
  <2>1. /\ at[s] = "taking" /\ queue[s] = <<>> /\ UNCHANGED <<got, since, connected, emitted>>
        /\ LoopTop(s, <<>>)
    BY <1>7 DEF TimeOut
  <2>2. <<>> \in Seq(Preds) /\ Len(<<>>) <= QueueSize
    BY <1>0
  <2>3. /\ at' \in [Subs -> {"idle", "refused", "taking", "yielding", "ended", "failed"}]
        /\ queue' \in [Subs -> Seq(Preds)] /\ item' \in [Subs -> 0..NumPreds]
        /\ \A r \in Subs : Len(queue'[r]) <= QueueSize
        /\ \A r \in Subs \ {s} : at'[r] = at[r] /\ queue'[r] = queue[r] /\ item'[r] = item[r]
        /\ item'[s] = 0 /\ at'[s] \in {"taking", "ended", "failed"}
        /\ at'[s] = "taking" => queue'[s] = <<>>
    BY <2>1, <2>2, BrokerLoop
  <2>4. BrokerTypes'
    BY <1>0, <2>1, <2>3 DEF BrokerTypes
  <2>5. /\ Newest(queue[s], Yielded(s), Sent(s)) /\ item[s] = 0 /\ since[s] <= emitted
    BY <2>1 DEF BrokerInv, Registered
  <2>6. Yielded(s)' = Yielded(s) /\ Sent(s)' = Sent(s)
    BY <2>1, <2>3, <2>5 DEF Yielded, Sent
  <2> QED BY <2>1, <2>3, <2>4, <2>5, <2>6, BrokerOne
<1>8. CASE UNCHANGED broker
  <2>1. BrokerTypes'
    BY <1>0, <1>8 DEF BrokerTypes, broker
  <2> QED BY <1>8, <2>1 DEF BrokerInv, Registered, Sent, Yielded, broker
<1> QED BY <1>1, <1>2, <1>3, <1>4, <1>5, <1>6, <1>7, <1>8 DEF BrokerNext

(* The inductive invariant of the broker.                                  *)
LEMMA BrokerInvariant == BrokerSpec => []BrokerInv
<1>1. BrokerInit => BrokerInv
  <2> SUFFICES ASSUME BrokerInit PROVE BrokerInv
    OBVIOUS
  <2>1. NumPreds \in Nat /\ QueueSize \in Nat /\ 0 \in 0..NumPreds /\ <<>> \in Seq(Preds) /\ Len(<<>>) = 0
    BY MLBrokerAssumption
  <2>2. BrokerTypes
    BY <2>1 DEF BrokerInit, BrokerTypes
  <2>3. Registered = {}
    BY DEF BrokerInit, Registered
  <2> QED BY <2>1, <2>2, <2>3 DEF BrokerInit, BrokerInv
<1>2. BrokerInv /\ [BrokerNext]_broker => BrokerInv'
  BY BrokerStep
<1> QED BY <1>1, <1>2, PTL DEF BrokerSpec

(* EmitPrediction and the subscriptions: a subscriber reads predictions in *)
(* the order of their emission, each once, and a full queue loses its      *)
(* oldest item: what is queued is always the newest of what was sent, for  *)
(* any number of subscriptions and predictions and any length of a queue.  *)
THEOREM OldestDropped == BrokerSpec => []NewestKept
<1>1. BrokerInv => NewestKept
  <2> SUFFICES ASSUME BrokerInv PROVE NewestKept
    OBVIOUS
  <2>1. BrokerTypes
    BY DEF BrokerInv
  <2>2. BrokerTypeOK
    <3>1. \A s \in Subs : Len(queue[s]) <= QueueSize /\ ToSet(queue[s]) \cup ToSet(got[s]) \subseteq 1..NumPreds
      <4> TAKE s \in Subs
      <4>1. queue[s] \in Seq(Preds) /\ got[s] \in Seq(Preds) /\ Len(queue[s]) <= QueueSize
        BY BrokerTyped
      <4>2. \A q \in Seq(Preds) : ToSet(q) \subseteq Preds
        BY DEF ToSet
      <4>3. ToSet(queue[s]) \subseteq Preds /\ ToSet(got[s]) \subseteq Preds
        BY <4>1, <4>2
      <4> QED BY <4>1, <4>3 DEF Preds
    <3> QED BY <2>1, <3>1 DEF BrokerTypes, BrokerTypeOK
  <2>3. ASSUME NEW s \in Registered
        PROVE  LET inQueue == ToSet(queue[s])
                   before == Sent(s) \ inQueue
               IN  /\ Newer(inQueue, before)
                   /\ Cardinality(inQueue) = Len(queue[s])
                   /\ \A i \in 1..Len(got[s]) - 1 : got[s][i] < got[s][i + 1]
                   /\ item[s] # 0 => Newer(inQueue, {item[s]}) /\ Newer({item[s]}, ToSet(got[s]))
    <3> DEFINE q == queue[s]
               g == Yielded(s)
    <3>1. s \in Subs /\ Newest(q, g, Sent(s))
      BY DEF Registered, BrokerInv
    <3>2. /\ q \in Seq(Nat) /\ g \in Seq(Nat) /\ Sent(s) \in SUBSET Nat /\ item[s] \in Nat
          /\ got[s] \in Seq(Nat)
      <4>1. Preds \in SUBSET Nat /\ got[s] \in Seq(Preds) /\ item[s] \in 0..NumPreds
        BY <3>1, BrokerTyped
      <4>2. got[s] \in Seq(Nat)
        BY Zenon, <4>1, SeqMonotonic
      <4>3. item[s] \in Nat
        BY <4>1
      <4>4. queue[s] \in Seq(Nat) /\ Yielded(s) \in Seq(Nat) /\ Sent(s) \in SUBSET Nat
        BY <3>1, BrokerTyped
      <4> QED BY <4>2, <4>3, <4>4
    <3>3. \A x \in ToSet(q) : \E i \in 1..Len(q) : q[i] = x
      BY <3>2 DEF ToSet
    <3>4. \A i \in 1..Len(q) : q[i] \in ToSet(q)
      BY <3>2 DEF ToSet
    <3>5. Cardinality(ToSet(q)) = Len(q)
      BY <3>1, <3>2, Ascending DEF Newest
    <3>6. /\ Len(got[s]) \in Nat /\ \A i \in 1..Len(got[s]) : i \in 1..Len(g) /\ g[i] = got[s][i] /\ g[i] \in Nat
          /\ item[s] # 0 => /\ Len(got[s]) + 1 \in 1..Len(g) /\ g[Len(got[s]) + 1] = item[s]
      <4>1. got[s] \in Seq(Nat) /\ item[s] \in Nat
        BY <3>2
      <4>2. CASE item[s] = 0
        <5>1. g = got[s]
          BY <4>2 DEF Yielded
        <5> QED BY <4>1, <4>2, <5>1
      <4>3. CASE item[s] # 0
        <5>1. g = Append(got[s], item[s])
          BY <4>3 DEF Yielded
        <5> HIDE DEF g
        <5> QED BY <4>1, <5>1
      <4> QED BY <4>2, <4>3
    <3>7. \A x \in ToSet(got[s]) : \E i \in 1..Len(got[s]) : got[s][i] = x
      <4>1. got[s] \in Seq(Nat)
        BY <3>2
      <4> QED BY <4>1 DEF ToSet
    <3> HIDE DEF q, g
    <3>8. Newer(ToSet(q), Sent(s) \ ToSet(q))
      <4> SUFFICES ASSUME NEW x \in ToSet(q), NEW y \in Sent(s) \ ToSet(q) PROVE x > y
        BY DEF Newer
      <4>1. PICK i \in 1..Len(q) : q[i] = x
        BY <3>3
      <4>2. y < q[i]
        BY <3>1, <3>4 DEF Newest
      <4>3. q[i] \in Nat /\ y \in Nat
        BY <3>2
      <4> QED BY <4>1, <4>2, <4>3
    <3>9. \A i \in 1..Len(got[s]) - 1 : got[s][i] < got[s][i + 1]
      <4> TAKE i \in 1..Len(got[s]) - 1
      <4>1. i \in 1..Len(got[s]) /\ i + 1 \in 1..Len(got[s]) /\ i < i + 1
        BY <3>6
      <4> QED BY <3>1, <3>6, <4>1 DEF Newest
    <3>10. ASSUME item[s] # 0 PROVE Newer(ToSet(q), {item[s]}) /\ Newer({item[s]}, ToSet(got[s]))
      <4> DEFINE n == Len(got[s])
      <4>1. n + 1 \in 1..Len(g) /\ g[n + 1] = item[s]
        BY <3>6, <3>10
      <4>2. ASSUME NEW x \in ToSet(q) PROVE x > item[s]
        <5>1. PICK i \in 1..Len(q) : q[i] = x
          BY <3>3
        <5>2. item[s] < q[i] /\ q[i] \in Nat
          BY <3>1, <3>2, <4>1 DEF Newest
        <5> QED BY <3>2, <5>1, <5>2
      <4>3. ASSUME NEW y \in ToSet(got[s]) PROVE item[s] > y
        <5>1. PICK i \in 1..n : got[s][i] = y
          BY <3>7
        <5>2. i < n + 1 /\ i \in 1..Len(g) /\ g[i] = y /\ y \in Nat
          BY <3>6, <5>1
        <5>3. y < item[s]
          BY <3>1, <4>1, <5>2 DEF Newest
        <5> QED BY <3>2, <5>2, <5>3
      <4> QED BY <4>2, <4>3 DEF Newer
    <3> QED BY <3>5, <3>8, <3>9, <3>10 DEF q
  <2> QED BY <2>2, <2>3 DEF NewestKept
<1> QED BY <1>1, BrokerInvariant, PTL

-----------------------------------------------------------------------------
(* The unified server.                                                     *)

(* The services, by name.                                                  *)
LEMMA ServicesNamed == Services = {"telemetry", "daq_data", "daq_control", "ml_inference"}
<1>1. DOMAIN INIT_ORDER = {1, 2, 3, 4}
  BY DEF INIT_ORDER
<1> QED BY <1>1 DEF Services, ToSet, INIT_ORDER

(* What is left to create is in INIT_ORDER.                                *)
ServerRuns ==
  /\ cfg \in [services : SUBSET Services, role : {"edge", "gateway"}]
  /\ next \in Seq(Services)

(* The inductive invariant behind ServingWhenIdle.                         *)
UnifiedInv == ServerRuns /\ ServingWhenIdle

(* The services of methods.                                                *)
LEMMA ServiceKnown == \A method \in Methods : ServiceOf(method) \in Services
BY ServicesNamed DEF ServiceOf

(* What a step that leaves the health and the calls alone needs.           *)
LEMMA ServerStep ==
  ASSUME UnifiedInv, UNCHANGED <<health, call, active>>, UnifiedTypeOK', ServerRuns',
         phase \notin {"creating", "failed"} \/ phase' \in {"creating", "failed"}
  PROVE  UnifiedInv'
BY DEF UnifiedInv, ServingWhenIdle, Working

(* No step breaks it.                                                      *)
LEMMA UnifiedStep ==
  ASSUME UnifiedInv, [UnifiedNext]_unified
  PROVE  UnifiedInv'
<1> USE DEF UnifiedInv
<1>0. /\ UnifiedTypeOK /\ ServerRuns /\ phase \in Phases /\ active \in Seq(Services)
      /\ todo \subseteq HaveShutdown /\ channels \subseteq Edges
      /\ task \in Over \cup {"reading", "readingNetwork"}
      /\ health \in [Services -> {"UNKNOWN", "SERVING", "NOT_SERVING"}]
      /\ call \in [Calls -> [method : Methods, at : {"idle", "waiting", "inside"}]]
  BY DEF ServingWhenIdle, UnifiedTypeOK
<1>1. CASE Signal
  <2>1. UnifiedTypeOK' /\ ServerRuns' /\ phase' = phase /\ UNCHANGED <<health, call, active>>
    BY <1>0, <1>1 DEF Signal, UnifiedTypeOK, ServerRuns
  <2> QED BY <2>1, ServerStep
<1>2. CASE Create
  <2>1. UNCHANGED <<cfg, todo, task, channels, health, call>> /\ next # <<>> /\ phase' \in {"creating", "failed"}
    BY <1>2 DEF Create
  <2>2. Head(next) \in Services /\ Tail(next) \in Seq(Services)
    BY <1>0, <2>1 DEF ServerRuns
  <2>3. active' \in Seq(Services) /\ next' \in Seq(Services)
    <3>1. Append(active, Head(next)) \in Seq(Services)
      BY <1>0, <2>2
    <3>2. active' \in {active, Append(active, Head(next))} /\ next' \in {next, Tail(next)}
      BY <1>2 DEF Create
    <3> QED BY <1>0, <2>2, <3>1, <3>2 DEF ServerRuns
  <2>4. UnifiedTypeOK' /\ ServerRuns'
    BY <1>0, <2>1, <2>3 DEF UnifiedTypeOK, ServerRuns, Phases
  <2> QED BY <2>1, <2>4 DEF ServingWhenIdle
<1>3. CASE GoLive
  <2>1. /\ UNCHANGED <<cfg, next, active, todo, channels, call>> /\ phase' = "live"
        /\ health' = [s \in Services |-> IF s \in ToSet(active) THEN "SERVING" ELSE "UNKNOWN"]
        /\ task' \in {"reading", "none"}
    BY <1>3 DEF GoLive
  <2>2. UnifiedTypeOK' /\ ServerRuns'
    BY <1>0, <2>1 DEF UnifiedTypeOK, ServerRuns, Phases, Over
  <2>3. \A s \in ToSet(active) : s \in Services
    BY <1>0 DEF ToSet
  <2> QED BY <2>1, <2>2, <2>3 DEF ServingWhenIdle
<1>4. CASE TaskStep
  <2>1. UNCHANGED <<cfg, phase, next, active, todo, health, call>> /\ channels' \subseteq Edges
        /\ task' \in Over \cup {"reading", "readingNetwork"}
    BY <1>0, <1>4 DEF TaskStep, progress, Over
  <2>2. UnifiedTypeOK' /\ ServerRuns'
    BY <1>0, <2>1 DEF UnifiedTypeOK, ServerRuns
  <2> QED BY <2>1, <2>2, ServerStep
<1>5. ASSUME NEW c \in Calls, NEW method \in Methods, Begin(c, method) PROVE UnifiedInv'
  <2> DEFINE where == IF method = "StopDaq" THEN "inside" ELSE "waiting"
  <2>1. /\ UNCHANGED <<cfg, phase, next, active, todo, task, channels>>
        /\ health' = [health EXCEPT ![ServiceOf(method)] = "NOT_SERVING"]
        /\ call' = [call EXCEPT ![c] = [method |-> method, at |-> where]] /\ ~Working(c)
    BY <1>5 DEF Begin, progress
  <2>2. where \in {"idle", "waiting", "inside"} /\ where # "idle"
    OBVIOUS
  <2> HIDE DEF where
  <2>3. UnifiedTypeOK' /\ ServerRuns'
    BY <1>0, <2>1, <2>2 DEF UnifiedTypeOK, ServerRuns
  <2>4. call'[c].method = method /\ Working(c)' /\ \A d \in Calls : d # c => call'[d] = call[d]
    BY <1>0, <2>1, <2>2 DEF Working
  <2>5. \A s \in ToSet(active) : s # ServiceOf(method) => health'[s] = health[s]
    BY <1>0, <2>1
  <2>6. ASSUME NEW s \in ToSet(active), phase \notin {"creating", "failed"},
               \A d \in Calls : Working(d)' => ServiceOf(call'[d].method) # s
        PROVE  health'[s] = "SERVING"
    <3>1. s # ServiceOf(method)
      BY <2>4, <2>6
    <3>2. \A d \in Calls : Working(d) => ServiceOf(call[d].method) # s
      BY <2>1, <2>4, <2>6 DEF Working
    <3> QED BY <2>5, <2>6, <3>1, <3>2 DEF ServingWhenIdle
  <2> QED BY <2>1, <2>3, <2>6 DEF ServingWhenIdle
<1>6. ASSUME NEW c \in Calls, Enter(c) PROVE UnifiedInv'
  <2>1. /\ UNCHANGED <<cfg, phase, next, active, todo, task, channels, health>>
        /\ call' = [call EXCEPT ![c].at = "inside"] /\ call[c].at = "waiting"
    BY <1>6 DEF Enter, progress
  <2>2. UnifiedTypeOK' /\ ServerRuns'
    BY <1>0, <2>1 DEF UnifiedTypeOK, ServerRuns
  <2>3. \A d \in Calls : call'[d].method = call[d].method /\ (Working(d)' <=> Working(d))
    BY <1>0, <2>1 DEF Working
  <2> QED BY <2>1, <2>2, <2>3 DEF ServingWhenIdle
<1>7. ASSUME NEW c \in Calls, Finish(c) PROVE UnifiedInv'
  <2> DEFINE gone == ServiceOf(call[c].method)
  <2>1. /\ UNCHANGED <<cfg, phase, next, active, todo, task, channels>>
        /\ health' = [health EXCEPT ![gone] = "SERVING"] /\ call' = [call EXCEPT ![c] = IdleCall]
    BY <1>7 DEF Finish, HealthAfter, progress
  <2>2. IdleCall \in [method : Methods, at : {"idle", "waiting", "inside"}]
    BY DEF IdleCall, Methods
  <2>3. gone \in Services
    BY <1>0, ServiceKnown
  <2> HIDE DEF gone
  <2>4. UnifiedTypeOK' /\ ServerRuns'
    BY <1>0, <2>1, <2>2 DEF UnifiedTypeOK, ServerRuns
  <2>5. \A d \in Calls : d # c => call'[d] = call[d] /\ (Working(d)' <=> Working(d))
    BY <1>0, <2>1 DEF Working
  <2>6. ASSUME NEW s \in ToSet(active), phase \notin {"creating", "failed"},
               \A d \in Calls : Working(d)' => ServiceOf(call'[d].method) # s
        PROVE  health'[s] = "SERVING"
    <3>1. CASE s = gone
      BY <1>0, <2>1, <2>3, <3>1
    <3>2. CASE s # gone
      <4>1. \A d \in Calls : Working(d) => ServiceOf(call[d].method) # s
        BY <2>5, <2>6, <3>2 DEF gone
      <4>2. health'[s] = health[s]
        BY <1>0, <2>1, <3>2 DEF ToSet
      <4> QED BY <2>6, <4>1, <4>2 DEF ServingWhenIdle
    <3> QED BY <3>1, <3>2
  <2> QED BY <2>1, <2>4, <2>6 DEF ServingWhenIdle
<1>8. CASE StopServer
  <2>1. UnifiedTypeOK' /\ ServerRuns' /\ phase = "live" /\ UNCHANGED <<health, call, active>>
    BY <1>0, <1>8 DEF StopServer, UnifiedTypeOK, ServerRuns, Phases
  <2> QED BY <2>1, ServerStep
<1>9. ASSUME NEW rest \in SUBSET HaveShutdown, Continue(rest)
      PROVE  todo' \subseteq HaveShutdown /\ phase' \in Phases /\ task' \in Over \cup {"reading", "readingNetwork"}
  BY <1>0, <1>9 DEF Continue, Phases, Cancelled, Over
<1>10. CASE ServerStopped
  <2>1. UNCHANGED <<cfg, next, active, channels, health, call>> /\ phase = "stopping"
        /\ Continue(ToSet(active) \cap HaveShutdown)
    BY <1>10 DEF ServerStopped
  <2>2. UnifiedTypeOK' /\ ServerRuns'
    BY <1>0, <1>9, <2>1 DEF UnifiedTypeOK, ServerRuns
  <2> QED BY <2>1, <2>2, ServerStep
<1>11. CASE ShutdownNext
  <2>1. UNCHANGED <<cfg, next, active, health, call>> /\ phase = "shutting" /\ channels' \subseteq Edges
        /\ (Continue(todo \ {Current}) \/ UNCHANGED <<todo, phase, task>>)
    BY <1>0, <1>11 DEF ShutdownNext
  <2>2. UnifiedTypeOK' /\ ServerRuns'
    BY <1>0, <1>9, <2>1 DEF UnifiedTypeOK, ServerRuns
  <2> QED BY <2>1, <2>2, ServerStep
<1>12. CASE Joined
  <2>1. UnifiedTypeOK' /\ ServerRuns' /\ phase = "joining" /\ UNCHANGED <<health, call, active>>
    BY <1>0, <1>12 DEF Joined, UnifiedTypeOK, ServerRuns, Phases
  <2> QED BY <2>1, ServerStep
<1>13. CASE UNCHANGED unified
  <2>1. UnifiedTypeOK' /\ ServerRuns' /\ phase' = phase /\ UNCHANGED <<health, call, active>>
    BY <1>0, <1>13 DEF unified, progress, UnifiedTypeOK, ServerRuns
  <2> QED BY <2>1, ServerStep
<1> QED
  BY <1>1, <1>2, <1>3, <1>4, <1>5, <1>6, <1>7, <1>8, <1>10, <1>11, <1>12, <1>13 DEF UnifiedNext, CallNext

(* grpc.health.v1 answers SERVING for every service that no reconfiguring  *)
(* call is at work on, from the moment the server is live, however such    *)
(* calls overlap, wait, fail or are cancelled, for any number of them.     *)
THEOREM HealthComesBack == UnifiedSpec => []ServingWhenIdle
<1>1. UnifiedInit => UnifiedInv
  <2> SUFFICES ASSUME UnifiedInit PROVE UnifiedInv
    OBVIOUS
  <2>1. INIT_ORDER \in Seq(Services)
    BY ServicesNamed DEF INIT_ORDER
  <2>2. <<>> \in Seq(Services) /\ ToSet(<<>>) = {}
    BY DEF ToSet
  <2>3. IdleCall \in [method : Methods, at : {"idle", "waiting", "inside"}]
    BY DEF IdleCall, Methods
  <2> QED BY <2>1, <2>2, <2>3
    DEF UnifiedInit, UnifiedInv, ServerRuns, ServingWhenIdle, UnifiedTypeOK, Phases, Over
<1>2. UnifiedInv /\ [UnifiedNext]_unified => UnifiedInv'
  BY UnifiedStep
<1>3. UnifiedInv => ServingWhenIdle
  BY DEF UnifiedInv
<1> QED BY <1>1, <1>2, <1>3, PTL DEF UnifiedSpec
=============================================================================
