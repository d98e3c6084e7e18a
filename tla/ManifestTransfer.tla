-------------------------- MODULE ManifestTransfer --------------------------
(***************************************************************************)
(* The transfer of a finished run to a head node, as the manifest calls of *)
(* DaqControlServicer (daq_control/server.py, manifest.py) and their client*)
(* (daq_control/client.py, grpc_utils) provide for it: GenerateManifest,   *)
(* GetManifest, RetryFailedTransfer, GetManifestDigest and a selective     *)
(* CleanupData.  The head nodes' daemon is not in the repository: a head   *)
(* uses the calls in the order of docs/daq_control_service.md and deletes  *)
(* once all it was told of is copied.  Heads may overlap.                  *)
(*                                                                         *)
(* The run has stopped (see DaqControl), so that the files only disappear. *)
(* Each of them is in a module directory of its own and matches both the   *)
(* include and the delete patterns.  A unary call that gets UNAVAILABLE is *)
(* sent again by the channel (build_retry_service_config), while the first *)
(* attempt may go on in the server: a thread is never cancelled.           *)
(*                                                                         *)
(* An inode is a file of the root directory, named by the attempt whose    *)
(* temporary file it is.  Left out: more than one algorithm, the legacy    *)
(* manifests, the wait for a directory to appear, the checks for hashpipe. *)
(***************************************************************************)
EXTENDS Naturals, Sequences, SequencesExt, FiniteSets

CONSTANTS
  Heads,        (* head nodes                                              *)
  NumFiles,     (* the files, in the order in which os.walk finds them     *)
  MaxAttempts,  (* maxAttempts of the retry policy: 3                      *)
  MaxFaults,    (* bound: connections that break and crashes of the server *)
  None

ASSUME TransferAssumption ==
  /\ IsFiniteSet(Heads) /\ None \notin Heads
  /\ NumFiles \in Nat /\ MaxAttempts \in Nat \ {0}
  /\ MaxFaults \in Nat

Files == 1..NumFiles
Attempts == Heads \X (1..MaxAttempts)
Earlier == <<None, 0>>   (* a manifest of an earlier time, when the run had one file *)

VARIABLES
  disk,      (* the files that are there                                   *)
  inode,     (* per inode: the lines in it                                 *)
  manifest,  (* the inode under the name of the manifest, or None          *)
  thread,    (* per attempt of GenerateManifest: where its thread is, the file it is at, its entries *)
  cleanup,   (* per attempt of CleanupData: where its handler is           *)
  head,      (* per head: the step it is at, the attempt of the current call, the inode it       *)
             (* streams, the lines it got, the files it has copied and verified, the digest      *)
  lost,      (* files deleted before any head had verified a copy          *)
  faults     (* how many there were                                        *)

vars == <<disk, inode, manifest, thread, cleanup, head, lost, faults>>

Unary == {"generating", "digesting", "cleaning"}
Over == {"done", "failed"}
Verified == UNION {head[h].verified : h \in Heads}

IdleHead == [at |-> "idle", attempt |-> 1, source |-> None, lines |-> <<>>,
             verified |-> {}, digest |-> <<>>]

(* A transfer that is over keeps what was copied.                          *)
Ended(h, at) == [IdleHead EXCEPT !.at = at, !.verified = head[h].verified]

Init ==
  /\ disk = Files
  /\ inode = [i \in Attempts \cup {Earlier} |-> IF i = Earlier THEN <<1>> ELSE <<>>]
  /\ manifest \in {Earlier, None}
  /\ thread = [a \in Attempts |-> [at |-> "none", file |-> 1, entries |-> <<>>]]
  /\ cleanup = [a \in Attempts |-> "none"]
  /\ head = [h \in Heads |-> IdleHead]
  /\ lost = {} /\ faults = 0

-----------------------------------------------------------------------------
(* GenerateManifest: compute_manifest in a thread                          *)

ThreadBecomes(a, at) == thread' = [thread EXCEPT ![a].at = at]
Attempt(h) == <<h, head[h].attempt>>

Generate(h) ==
  /\ head[h].at = "idle"
  /\ head' = [head EXCEPT ![h].at = "generating"]
  /\ ThreadBecomes(<<h, 1>>, "listing")
  /\ UNCHANGED <<disk, inode, manifest, cleanup, lost, faults>>

(* os.walk lists a directory; a directory without the file is passed over. *)
ThreadList(a) ==
  /\ thread[a].at = "listing"
  /\ IF thread[a].file > NumFiles THEN thread' = [thread EXCEPT ![a].at = "writing", ![a].file = 1]
     ELSE IF thread[a].file \in disk THEN ThreadBecomes(a, "reading")
     ELSE thread' = [thread EXCEPT ![a].file = @ + 1]
  /\ UNCHANGED <<disk, inode, manifest, cleanup, head, lost, faults>>

(* stat and read_bytes raise when the file has gone meanwhile.             *)
ThreadRead(a) ==
  /\ thread[a].at = "reading"
  /\ IF thread[a].file \notin disk THEN ThreadBecomes(a, "raised")
     ELSE thread' = [thread EXCEPT ![a] = [at |-> "listing", file |-> @.file + 1,
                                           entries |-> Append(@.entries, @.file)]]
  /\ UNCHANGED <<disk, inode, manifest, cleanup, head, lost, faults>>

(* Mutation: the manifest is opened and written in place.                  *)
TargetInPlace(a) == IF manifest = None THEN a ELSE manifest

(* mkstemp                                                                 *)
Target(a) == a

(* The temporary file is written line by line, then renamed.               *)
ThreadWrite(a) ==
  /\ thread[a].at = "writing" /\ thread[a].file <= Len(thread[a].entries)
  /\ inode' = [inode EXCEPT ![Target(a)] =
       IF thread[a].file = 1 THEN <<thread[a].entries[1]>>
       ELSE Append(@, thread[a].entries[thread[a].file])]
  /\ thread' = [thread EXCEPT ![a].file = @ + 1]
  /\ UNCHANGED <<disk, manifest, cleanup, head, lost, faults>>

ThreadReplace(a) ==
  /\ thread[a].at = "writing" /\ thread[a].file > Len(thread[a].entries)
  /\ manifest' = Target(a)
  /\ ThreadBecomes(a, "done")
  /\ UNCHANGED <<disk, inode, cleanup, head, lost, faults>>

(* Mutation: the handler answers only when the thread returns.             *)
GenerateReplyDone(h) ==
  /\ head[h].at = "generating" /\ thread[Attempt(h)].at = "done"
  /\ head' = [head EXCEPT ![h].at = "opening", ![h].attempt = 1]
  /\ UNCHANGED <<disk, inode, manifest, thread, cleanup, lost, faults>>

(* success, or the exception as INTERNAL                                   *)
GenerateReply(h) ==
  /\ head[h].at = "generating"
  /\ \/ thread[Attempt(h)].at = "done" /\ head' = [head EXCEPT ![h].at = "opening", ![h].attempt = 1]
     \/ thread[Attempt(h)].at = "raised" /\ head' = [head EXCEPT ![h] = Ended(h, "failed")]
  /\ UNCHANGED <<disk, inode, manifest, thread, cleanup, lost, faults>>

-----------------------------------------------------------------------------
(* GetManifest: a stream of the lines of the file that was opened          *)

(* The manifest is looked for 10 times.                                    *)
Open(h) ==
  /\ head[h].at = "opening"
  /\ head' = [head EXCEPT ![h] =
       IF manifest = None THEN Ended(h, "failed")
       ELSE [@ EXCEPT !.at = "streaming", !.source = manifest]]
  /\ UNCHANGED <<disk, inode, manifest, thread, cleanup, lost, faults>>

(* Mutation: the file is found again by its name for every line.           *)
SourceByName(h) == manifest

Source(h) == head[h].source

StreamLine(h) ==
  /\ head[h].at = "streaming"
  /\ LET got == Len(head[h].lines)
         lines == inode[Source(h)]
     IN  IF got < Len(lines) THEN head' = [head EXCEPT ![h].lines = Append(@, lines[got + 1])]
         ELSE head' = [head EXCEPT ![h].at = "copying"]
  /\ UNCHANGED <<disk, inode, manifest, thread, cleanup, lost, faults>>

-----------------------------------------------------------------------------
(* The head copies (rsync) and verifies against the lines it got.          *)

Listed(h) == ToSet(head[h].lines)

CopyGood(h) ==
  /\ head[h].at = "copying"
  /\ \E f \in (Listed(h) \cap disk) \ head[h].verified :
       head' = [head EXCEPT ![h].verified = @ \cup {f}]
  /\ UNCHANGED <<disk, inode, manifest, thread, cleanup, lost, faults>>

(* A copy that does not match: RetryFailedTransfer gives the digest of the *)
(* file for another try, or tells that there is no such file.              *)
RetryFailedTransfer(h) ==
  /\ head[h].at = "copying"
  /\ Listed(h) \ (head[h].verified \cup disk) # {}
  /\ head' = [head EXCEPT ![h] = Ended(h, "failed")]
  /\ UNCHANGED <<disk, inode, manifest, thread, cleanup, lost, faults>>

AllVerified(h) ==
  /\ head[h].at = "copying" /\ Listed(h) \subseteq head[h].verified
  /\ head' = [head EXCEPT ![h].at = "digesting", ![h].attempt = 1]
  /\ UNCHANGED <<disk, inode, manifest, thread, cleanup, lost, faults>>

-----------------------------------------------------------------------------
(* GetManifestDigest and CleanupData                                       *)

GetManifestDigest(h) ==
  /\ head[h].at = "digesting"
  /\ head' = [head EXCEPT ![h] =
       IF manifest = None THEN Ended(h, "failed")
       ELSE [@ EXCEPT !.at = "cleaning", !.attempt = 1, !.lines = <<>>, !.digest = inode[manifest]]]
  /\ UNCHANGED <<disk, inode, manifest, thread, cleanup, lost, faults>>

(* The digest of the manifest is compared; without one nothing is.         *)
CleanupCheck(h) ==
  /\ head[h].at = "cleaning" /\ cleanup[Attempt(h)] = "none"
  /\ IF manifest = None \/ inode[manifest] = head[h].digest
     THEN cleanup' = [cleanup EXCEPT ![Attempt(h)] = "checked"] /\ UNCHANGED head
     ELSE head' = [head EXCEPT ![h] = Ended(h, "failed")] /\ UNCHANGED cleanup
  /\ UNCHANGED <<disk, inode, manifest, thread, lost, faults>>

(* After the awaits for the other directories everything that matches the  *)
(* delete patterns is removed, by an earlier attempt too.                  *)
CleanupDelete(a) ==
  /\ cleanup[a] = "checked"
  /\ cleanup' = [cleanup EXCEPT ![a] = "done"]
  /\ disk' = {}
  /\ lost' = lost \cup (disk \ Verified)
  /\ UNCHANGED <<inode, manifest, thread, head, faults>>

CleanupReply(h) ==
  /\ head[h].at = "cleaning" /\ cleanup[Attempt(h)] = "done"
  /\ head' = [head EXCEPT ![h] = Ended(h, "done")]
  /\ UNCHANGED <<disk, inode, manifest, thread, cleanup, lost, faults>>

-----------------------------------------------------------------------------
(* Faults                                                                  *)

(* UNAVAILABLE: a unary call is sent again, a stream that has begun is not.*)
Unavailable(h) ==
  LET again == head[h].at \in Unary /\ head[h].attempt < MaxAttempts
      next == <<h, head[h].attempt + 1>>
  IN  /\ IF again THEN head' = [head EXCEPT ![h].attempt = @ + 1]
         ELSE head' = [head EXCEPT ![h] = Ended(h, "failed")]
      /\ thread' = IF again /\ head[h].at = "generating"
                   THEN [thread EXCEPT ![next].at = "listing"] ELSE thread

(* The connection breaks; the handler of a CleanupData may be cancelled.   *)
Drop(h) ==
  /\ faults < MaxFaults
  /\ head[h].at \in Unary \cup {"opening", "streaming"}
  /\ faults' = faults + 1
  /\ Unavailable(h)
  /\ \/ UNCHANGED cleanup
     \/ /\ head[h].at = "cleaning" /\ cleanup[Attempt(h)] = "checked"
        /\ cleanup' = [cleanup EXCEPT ![Attempt(h)] = "cancelled"]
  /\ UNCHANGED <<disk, inode, manifest, lost>>

(* The server dies with all threads and handlers, and is started again.    *)
Crash ==
  /\ faults < MaxFaults
  /\ faults' = faults + 1
  /\ thread' = [a \in Attempts |->
       IF thread[a].at \in {"listing", "reading", "writing"}
       THEN [thread[a] EXCEPT !.at = "dead"] ELSE thread[a]]
  /\ cleanup' = [a \in Attempts |-> IF cleanup[a] = "checked" THEN "cancelled" ELSE cleanup[a]]
  /\ head' = [h \in Heads |->
       IF head[h].at = "streaming" THEN Ended(h, "failed") ELSE head[h]]
  /\ UNCHANGED <<disk, inode, manifest, lost>>

(* The call of an attempt that died with the server or was cancelled.      *)
AnswerLost(h) ==
  \/ head[h].at = "generating" /\ thread[Attempt(h)].at = "dead"
  \/ head[h].at = "cleaning" /\ cleanup[Attempt(h)] = "cancelled"

Notice(h) ==
  /\ AnswerLost(h)
  /\ Unavailable(h)
  /\ UNCHANGED <<disk, inode, manifest, cleanup, lost, faults>>

-----------------------------------------------------------------------------
HeadStep(h) ==
  \/ GenerateReply(h) \/ Open(h) \/ StreamLine(h) \/ CopyGood(h) \/ RetryFailedTransfer(h)
  \/ AllVerified(h) \/ GetManifestDigest(h) \/ CleanupCheck(h) \/ CleanupReply(h) \/ Notice(h)

ServerStep(a) ==
  ThreadList(a) \/ ThreadRead(a) \/ ThreadWrite(a) \/ ThreadReplace(a) \/ CleanupDelete(a)

Next ==
  \/ \E h \in Heads : Generate(h) \/ HeadStep(h) \/ Drop(h)
  \/ \E a \in Attempts : ServerStep(a)
  \/ Crash

Fairness ==
  /\ \A h \in Heads : WF_vars(HeadStep(h))
  /\ \A a \in Attempts : WF_vars(ServerStep(a))

Spec == Init /\ [][Next]_vars /\ Fairness

-----------------------------------------------------------------------------
ThreadStates == {"none", "listing", "reading", "writing", "raised", "done", "dead"}
CleanupStates == {"none", "checked", "done", "cancelled"}
HeadStates == Unary \cup Over \cup {"idle", "opening", "streaming", "copying"}

TypeOK ==
  /\ disk \subseteq Files /\ lost \subseteq Files /\ faults \in 0..MaxFaults
  /\ manifest \in Attempts \cup {Earlier, None}
  /\ inode \in [Attempts \cup {Earlier} -> Seq(Files \cup {1})]
  /\ thread \in [Attempts -> [at : ThreadStates, file : 1..NumFiles + 1, entries : Seq(Files)]]
  /\ cleanup \in [Attempts -> CleanupStates]
  /\ head \in [Heads -> [at : HeadStates, attempt : 1..MaxAttempts, source : Attempts \cup {Earlier, None},
                        lines : Seq(Files), verified : SUBSET Files, digest : Seq(Files \cup {1})]]

(* "No deletion without verified integrity" (server.py:666): whatever heads*)
(* do at the same time, and whatever breaks, a file that is deleted has    *)
(* been copied and verified by one of them.                                *)
NoUnverifiedDeletion == TypeOK /\ lost = {}

(* A stream that ends well has delivered all lines of a manifest that was  *)
(* written as a whole, also when it was replaced meanwhile.                *)
StreamWhole ==
  \A h \in Heads : head[h].at = "copying" =>
    \E a \in Attempts : thread[a].at = "done" /\ head[h].lines = thread[a].entries

(* Every transfer that was begun ends.                                     *)
TransferEnds == \A h \in Heads : head[h].at = "generating" ~> head[h].at \in Over
=============================================================================
