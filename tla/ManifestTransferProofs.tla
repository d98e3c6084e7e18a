----------------------- MODULE ManifestTransferProofs -----------------------
(***************************************************************************)
(* Proofs about ManifestTransfer, for any number of heads, files, attempts *)
(* and faults.                                                             *)
(***************************************************************************)
EXTENDS ManifestTransfer, SequenceTheorems, TLAPS

(* Files only disappear, so that what a thread has listed covers what is   *)
(* left of the directories it has passed ...                               *)
Lists(a) ==
  /\ thread[a].at = "none" => thread[a].file = 1 /\ thread[a].entries = <<>>
  /\ thread[a].at \in {"none", "listing", "reading"} =>
       /\ inode[a] = <<>>
       /\ \A f \in disk : f < thread[a].file => f \in ToSet(thread[a].entries)
  /\ thread[a].at \in {"none", "listing", "reading"} => Len(thread[a].entries) < thread[a].file
  /\ thread[a].at = "reading" => thread[a].file <= NumFiles
  /\ thread[a].at = "writing" => Len(thread[a].entries) <= NumFiles
  /\ thread[a].at \in {"writing", "done"} => disk \subseteq ToSet(thread[a].entries)

(* ... and its temporary file holds what it has written of it.             *)
Writes(a) ==
  /\ thread[a].at = "writing" =>
       /\ inode[a] \in Seq(Files) /\ Len(inode[a]) = thread[a].file - 1
       /\ \A i \in 1..Len(inode[a]) : i <= Len(thread[a].entries) /\ inode[a][i] = thread[a].entries[i]
  /\ thread[a].at = "done" => inode[a] = thread[a].entries

(* The manifest of the run is complete.                                    *)
Replaced ==
  \/ manifest \in {Earlier, None} /\ \A a \in Attempts : thread[a].at # "done"
  \/ manifest \in Attempts /\ thread[manifest].at = "done"

(* An attempt has a thread of its own ...                                  *)
Fresh(h) ==
  /\ head[h].at = "idle" => head[h].attempt = 1 /\ \A n \in 1..MaxAttempts : thread[<<h, n>>].at = "none"
  /\ head[h].at = "generating" =>
       \A n \in 1..MaxAttempts : n > head[h].attempt => thread[<<h, n>>].at = "none"
  /\ head[h].at \in {"idle", "generating", "opening"} => head[h].lines = <<>>

(* ... whose manifest is there when the call is answered; a stream is of   *)
(* one manifest that is complete ...                                       *)
Streams(h) ==
  /\ head[h].at \in {"opening", "streaming"} => \E a \in Attempts : thread[a].at = "done"
  /\ head[h].at = "streaming" =>
       /\ head[h].source \in Attempts /\ thread[head[h].source].at = "done"
       /\ Len(head[h].lines) <= Len(inode[head[h].source])
       /\ \A i \in 1..Len(head[h].lines) : head[h].lines[i] = inode[head[h].source][i]

(* A head copies by all lines of a manifest that a thread has finished ... *)
Copies(h) ==
  head[h].at = "copying" => \E a \in Attempts : thread[a].at = "done" /\ head[h].lines = thread[a].entries

(* ... and a head that has verified what was listed has verified what is   *)
(* left.                                                                   *)
Verifies(h) ==
  /\ head[h].at \in {"digesting", "cleaning"} => disk \subseteq head[h].verified
  /\ \A n \in 1..MaxAttempts : cleanup[<<h, n>>] = "checked" => disk \subseteq head[h].verified

(* What every head can rely on.                                            *)
HeadSees(h) == Fresh(h) /\ Streams(h) /\ Copies(h) /\ Verifies(h)

(* The inductive invariant: that nothing is deleted unverified needs that  *)
(* a listing covers what is left (Lists), that the manifest keeps the      *)
(* listing (Writes, Replaced), that a head has all of one manifest         *)
(* (Streams, Copies) and that it has verified it when it deletes           *)
(* (Verifies).                                                             *)
IInv ==
  /\ TypeOK /\ lost = {} /\ Replaced
  /\ \A a \in Attempts : Lists(a) /\ Writes(a)
  /\ \A h \in Heads : HeadSees(h)

-----------------------------------------------------------------------------
(* The parts of the invariant.                                             *)
LEMMA IInvFacts ==
  ASSUME IInv
  PROVE  /\ TypeOK /\ lost = {} /\ Replaced
         /\ \A a \in Attempts : Lists(a) /\ Writes(a)
         /\ \A h \in Heads : HeadSees(h)
BY DEF IInv

(* What a thread remembers.                                                *)
ThreadSet == [at : ThreadStates, file : 1..NumFiles + 1, entries : Seq(Files)]
(* What a head remembers.                                                  *)
HeadSet == [at : HeadStates, attempt : 1..MaxAttempts, source : Attempts \cup {Earlier, None},
            lines : Seq(Files), verified : SUBSET Files, digest : Seq(Files \cup {1})]

(* A sequence with one more element.                                       *)
LEMMA Appended ==
  ASSUME NEW S, NEW s \in Seq(S), NEW x \in S
  PROVE  /\ Append(s, x) \in Seq(S) /\ Len(Append(s, x)) = Len(s) + 1
         /\ \A i \in 1..Len(s) : Append(s, x)[i] = s[i]
         /\ Append(s, x)[Len(s) + 1] = x
         /\ ToSet(Append(s, x)) = ToSet(s) \cup {x}
<1>1. /\ Append(s, x) \in Seq(S) /\ Len(Append(s, x)) = Len(s) + 1
      /\ \A i \in 1..Len(s) : Append(s, x)[i] = s[i]
      /\ Append(s, x)[Len(s) + 1] = x
  OBVIOUS
<1>2. DOMAIN s = 1..Len(s) /\ DOMAIN Append(s, x) = 1..Len(s) + 1 /\ Len(s) \in Nat
  OBVIOUS
<1>3. 1..Len(s) + 1 = (1..Len(s)) \cup {Len(s) + 1}
  BY <1>2
<1>4. ToSet(Append(s, x)) = ToSet(s) \cup {x}
  BY <1>1, <1>2, <1>3 DEF ToSet
<1>. QED BY <1>1, <1>4

(* Nothing has begun.                                                      *)
LEMMA InitInv == ASSUME Init PROVE IInv
<1>1. <<>> \in Seq(Files) /\ <<>> \in Seq(Files \cup {1}) /\ <<1>> \in Seq(Files \cup {1})
  OBVIOUS
<1>2. 1 \in 1..MaxAttempts /\ 1 \in 1..NumFiles + 1 /\ 0 \in 0..MaxFaults
  BY TransferAssumption
<1>3. TypeOK
  BY <1>1, <1>2 DEF Init, TypeOK, ThreadStates, CleanupStates, HeadStates, IdleHead
<1>4. Replaced
  BY DEF Init, Replaced
<1>5. ASSUME NEW a \in Attempts PROVE Lists(a) /\ Writes(a)
  <2>1. a # Earlier
    BY TransferAssumption DEF Attempts, Earlier
  <2>2. inode[a] = <<>> /\ thread[a] = [at |-> "none", file |-> 1, entries |-> <<>>]
    BY <2>1 DEF Init
  <2>3. \A f \in disk : ~(f < 1)
    BY TransferAssumption DEF Init, Files
  <2>. QED BY <2>2, <2>3 DEF Lists, Writes
<1>6. ASSUME NEW h \in Heads PROVE HeadSees(h)
  <2>1. head[h] = IdleHead /\ \A n \in 1..MaxAttempts : <<h, n>> \in Attempts
    BY DEF Init, Attempts
  <2>. QED BY <2>1 DEF HeadSees, Fresh, Streams, Copies, Verifies, Init, IdleHead
<1>. QED BY <1>3, <1>4, <1>5, <1>6 DEF IInv, Init

-----------------------------------------------------------------------------
(* Frames                                                                  *)

(* A file that is gone disturbs no thread ...                              *)
LEMMA ThreadStays ==
  ASSUME NEW a \in Attempts, Lists(a), Writes(a), disk' \subseteq disk,
         thread'[a] = thread[a], inode'[a] = inode[a]
  PROVE  Lists(a)' /\ Writes(a)'
BY DEF Lists, Writes

(* A finished listing and its file stay.                                   *)
DoneStays ==
  \A a \in Attempts : thread[a].at = "done" => thread'[a] = thread[a] /\ inode'[a] = inode[a]

(* ... nor any head, and neither does a thread or a cleanup that is not    *)
(* its own.                                                                *)
LEMMA HeadStays ==
  ASSUME NEW h \in Heads, HeadSees(h), head'[h] = head[h], disk' \subseteq disk, DoneStays,
         \A n \in 1..MaxAttempts :
            /\ thread[<<h, n>>].at = "none" => thread'[<<h, n>>].at = "none"
            /\ cleanup'[<<h, n>>] = "checked" => cleanup[<<h, n>>] = "checked"
  PROVE  HeadSees(h)'
<1>1. Fresh(h)'
  BY DEF HeadSees, Fresh
<1>2. Streams(h)'
  <2>1. (\E a \in Attempts : thread[a].at = "done") => \E a \in Attempts : thread'[a].at = "done"
    BY DEF DoneStays
  <2>2. head[h].at = "streaming" => /\ thread'[head[h].source].at = "done"
                                    /\ inode'[head[h].source] = inode[head[h].source]
    BY DEF HeadSees, Streams, DoneStays
  <2>. QED BY <2>1, <2>2 DEF HeadSees, Streams
<1>3. Copies(h)'
  BY DEF HeadSees, Copies, DoneStays
<1>4. Verifies(h)'
  BY DEF HeadSees, Verifies
<1>. QED
  BY <1>1, <1>2, <1>3, <1>4 DEF HeadSees

(* The manifest stays complete when no thread ends.                        *)
LEMMA ReplacedStays ==
  ASSUME Replaced, UNCHANGED manifest, DoneStays,
         \A a \in Attempts : thread'[a].at = "done" => thread[a].at = "done"
  PROVE  Replaced'
BY DEF Replaced, DoneStays

-----------------------------------------------------------------------------
(* Threads                                                                 *)

(* One thread moves, not from or to the end, and at most its own file is   *)
(* written.                                                                *)
LEMMA OneThread ==
  ASSUME IInv, NEW a \in Attempts, NEW t \in ThreadSet, thread' = [thread EXCEPT ![a] = t],
         thread[a].at \notin {"none", "done"}, t.at # "done",
         inode' = inode \/ \E l \in Seq(Files) : inode' = [inode EXCEPT ![a] = l],
         UNCHANGED <<disk, manifest, cleanup, head, lost, faults>>,
         Lists(a)' /\ Writes(a)'
  PROVE  IInv'
<1>0. TypeOK /\ lost = {} /\ Replaced
  BY IInvFacts
<1>1. \A b \in Attempts \ {a} : thread'[b] = thread[b] /\ inode'[b] = inode[b]
  BY <1>0 DEF TypeOK
<1>2. thread'[a] = t
  BY <1>0 DEF TypeOK
<1>3. DoneStays
  BY <1>1 DEF DoneStays
<1>4. TypeOK'
  <2>1. thread' \in [Attempts -> ThreadSet]
    BY <1>0 DEF TypeOK, ThreadSet
  <2>2. inode' \in [Attempts \cup {Earlier} -> Seq(Files \cup {1})]
    <3>1. Seq(Files) \subseteq Seq(Files \cup {1})
      OBVIOUS
    <3>. QED BY <1>0, <3>1 DEF TypeOK
  <2>. QED BY <1>0, <2>1, <2>2 DEF TypeOK, ThreadSet
<1>5. \A b \in Attempts : thread'[b].at = "done" => thread[b].at = "done"
  BY <1>1, <1>2
<1>6. Replaced'
  BY <1>0, <1>3, <1>5, ReplacedStays
<1>7. ASSUME NEW b \in Attempts PROVE Lists(b)' /\ Writes(b)'
  BY <1>1, IInvFacts, ThreadStays
<1>8. ASSUME NEW h \in Heads PROVE HeadSees(h)'
  <2>1. \A n \in 1..MaxAttempts : thread[<<h, n>>].at = "none" => thread'[<<h, n>>].at = "none"
    BY <1>1 DEF Attempts
  <2>. QED BY <1>3, <2>1, IInvFacts, HeadStays
<1>. QED BY <1>0, <1>4, <1>6, <1>7, <1>8 DEF IInv

(* A file that has gone is passed over: it is not among those that are     *)
(* left.                                                                   *)
LEMMA ThreadListInv == ASSUME IInv, NEW a \in Attempts, ThreadList(a) PROVE IInv'
<1>0. TypeOK /\ Lists(a) /\ Writes(a) /\ thread[a] \in ThreadSet /\ thread[a].at = "listing"
  BY IInvFacts DEF TypeOK, ThreadSet, ThreadList
<1>1. NumFiles \in Nat /\ thread[a].file \in Nat /\ disk \subseteq Files
  BY <1>0, TransferAssumption DEF TypeOK, ThreadSet
<1>2. CASE thread[a].file > NumFiles
  <2>1. PICK t \in ThreadSet : t = [thread[a] EXCEPT !.at = "writing", !.file = 1]
    <3>1. 1 \in 1..NumFiles + 1 /\ "writing" \in ThreadStates
      BY <1>1 DEF ThreadStates
    <3>. QED BY <1>0, <3>1 DEF ThreadSet
  <2>2. t.at = "writing" /\ t.file = 1 /\ t.entries = thread[a].entries
    BY <1>0, <2>1 DEF ThreadSet
  <2>3. thread' = [thread EXCEPT ![a] = t] /\ thread'[a] = t
    BY <1>0, <1>2, <2>1 DEF ThreadList, ThreadBecomes, TypeOK
  <2>4. disk \subseteq ToSet(t.entries)
    <3>1. ASSUME NEW f \in disk PROVE f \in ToSet(t.entries)
      <4>1. f \in Files /\ f < thread[a].file
        BY <1>1, <1>2 DEF Files
      <4>. QED BY <1>0, <2>2, <4>1 DEF Lists
    <3>. QED BY <3>1
  <2>5. inode[a] = <<>> /\ Len(inode[a]) = 0
    BY <1>0 DEF Lists
  <2>7. Len(t.entries) \in Nat /\ thread[a].file <= NumFiles + 1 /\ Len(thread[a].entries) < thread[a].file
    BY <1>0, <1>1, <2>1 DEF ThreadSet, Lists
  <2>6. Lists(a)' /\ Writes(a)'
    <3>1. <<>> \in Seq(Files) /\ inode[a] = <<>>
      BY <2>5
    <3>. QED BY <1>0, <1>1, <1>2, <2>2, <2>3, <2>4, <2>5, <2>7, <3>1 DEF Lists, Writes, ThreadList
  <2>. QED BY <1>0, <2>2, <2>3, <2>6, OneThread DEF ThreadList
<1>3. CASE thread[a].file <= NumFiles /\ thread[a].file \in disk
  <2>1. PICK t \in ThreadSet : t = [thread[a] EXCEPT !.at = "reading"]
    BY <1>0, <1>1 DEF ThreadSet, ThreadStates
  <2>2. t.at = "reading" /\ t.file = thread[a].file /\ t.entries = thread[a].entries
    BY <1>0, <2>1 DEF ThreadSet
  <2>0. thread' = [thread EXCEPT ![a].at = "reading"]
    BY <1>1, <1>3 DEF ThreadList, ThreadBecomes
  <2>3. thread' = [thread EXCEPT ![a] = t] /\ thread'[a] = t
    BY <1>0, <2>0, <2>1 DEF TypeOK
  <2>4. Lists(a)' /\ Writes(a)'
    BY <1>0, <1>3, <2>2, <2>3 DEF Lists, Writes, ThreadList
  <2>. QED BY <1>0, <2>2, <2>3, <2>4, OneThread DEF ThreadList
<1>4. CASE thread[a].file <= NumFiles /\ thread[a].file \notin disk
  <2>0. thread' = [thread EXCEPT ![a].file = @ + 1]
    BY <1>1, <1>4 DEF ThreadList, ThreadBecomes
  <2>1. PICK t \in ThreadSet : t = [thread[a] EXCEPT !.file = @ + 1]
    <3>1. thread[a].file + 1 \in 1..NumFiles + 1
      BY <1>0, <1>1, <1>4 DEF ThreadSet
    <3>. QED BY <1>0, <3>1 DEF ThreadSet
  <2>2. t.at = "listing" /\ t.file = thread[a].file + 1 /\ t.entries = thread[a].entries
    BY <1>0, <2>1 DEF ThreadSet
  <2>3. thread' = [thread EXCEPT ![a] = t] /\ thread'[a] = t
    BY <1>0, <2>0, <2>1 DEF TypeOK
  <2>4. \A f \in disk : f < t.file => f \in ToSet(t.entries)
    <3>1. ASSUME NEW f \in disk, f < t.file PROVE f \in ToSet(t.entries)
      <4>1. f \in Nat /\ f # thread[a].file
        BY <1>1, <1>4 DEF Files
      <4>2. f < thread[a].file
        BY <1>1, <2>2, <3>1, <4>1
      <4>. QED BY <1>0, <2>2, <4>2 DEF Lists
    <3>. QED BY <3>1
  <2>5. Len(t.entries) \in Nat /\ Len(t.entries) < t.file
    BY <1>0, <1>1, <2>2 DEF Lists, ThreadSet
  <2>6. Lists(a)' /\ Writes(a)'
    BY <1>0, <2>2, <2>3, <2>4, <2>5 DEF Lists, Writes, ThreadList
  <2>. QED BY <1>0, <2>2, <2>3, <2>6, OneThread DEF ThreadList
<1>. QED BY <1>1, <1>2, <1>3, <1>4

(* A file that was read is listed.                                         *)
LEMMA ThreadReadInv == ASSUME IInv, NEW a \in Attempts, ThreadRead(a) PROVE IInv'
<1>0. TypeOK /\ Lists(a) /\ Writes(a) /\ thread[a] \in ThreadSet /\ thread[a].at = "reading"
  BY IInvFacts DEF TypeOK, ThreadSet, ThreadRead
<1>1. /\ NumFiles \in Nat /\ thread[a].file \in Nat /\ disk \subseteq Files
      /\ thread[a].file <= NumFiles /\ thread[a].file \in Files
  BY <1>0, TransferAssumption DEF TypeOK, ThreadSet, Lists, Files
<1>2. CASE thread[a].file \notin disk
  <2>1. PICK t \in ThreadSet : t = [thread[a] EXCEPT !.at = "raised"]
    BY <1>0 DEF ThreadSet, ThreadStates
  <2>2. t.at = "raised"
    BY <1>0, <2>1 DEF ThreadSet
  <2>3. thread' = [thread EXCEPT ![a] = t] /\ thread'[a] = t
    BY <1>0, <1>2, <2>1 DEF ThreadRead, ThreadBecomes, TypeOK
  <2>4. Lists(a)' /\ Writes(a)'
    BY <2>2, <2>3 DEF Lists, Writes
  <2>. QED BY <1>0, <2>2, <2>3, <2>4, OneThread DEF ThreadRead
<1>3. CASE thread[a].file \in disk
  <2>0. thread[a].entries \in Seq(Files)
    BY <1>0 DEF ThreadSet
  <2>1. PICK t : t = [at |-> "listing", file |-> thread[a].file + 1,
                      entries |-> Append(thread[a].entries, thread[a].file)]
    OBVIOUS
  <2>2. /\ t.at = "listing" /\ t.file = thread[a].file + 1
        /\ t.entries = Append(thread[a].entries, thread[a].file)
    BY <2>1
  <2>3. t \in ThreadSet
    BY <1>1, <2>0, <2>1, Appended DEF ThreadSet, ThreadStates
  <2>4. thread' = [thread EXCEPT ![a] = t] /\ thread'[a] = t
    BY <1>0, <1>3, <2>1 DEF ThreadRead, ThreadBecomes, TypeOK
  <2>5. ToSet(t.entries) = ToSet(thread[a].entries) \cup {thread[a].file}
    BY <1>1, <2>0, <2>2, Appended
  <2>6. \A f \in disk : f < t.file => f \in ToSet(t.entries)
    <3>1. ASSUME NEW f \in disk, f < t.file PROVE f \in ToSet(t.entries)
      <4>1. f = thread[a].file \/ f < thread[a].file
        BY <1>1, <2>2, <3>1 DEF Files
      <4>. QED BY <1>0, <2>5, <4>1 DEF Lists
    <3>. QED BY <3>1
  <2>8. Len(t.entries) < t.file
    BY <1>0, <1>1, <2>0, <2>2, Appended DEF Lists
  <2>7. Lists(a)' /\ Writes(a)'
    BY <1>0, <2>2, <2>4, <2>6, <2>8 DEF Lists, Writes, ThreadRead
  <2>. QED BY <1>0, <2>2, <2>3, <2>4, <2>7, OneThread DEF ThreadRead
<1>. QED BY <1>2, <1>3

(* The temporary file is a prefix of the listing ...                       *)
LEMMA ThreadWriteInv == ASSUME IInv, NEW a \in Attempts, ThreadWrite(a) PROVE IInv'
<1>0. /\ TypeOK /\ Lists(a) /\ Writes(a) /\ thread[a] \in ThreadSet /\ thread[a].at = "writing"
      /\ thread[a].file <= Len(thread[a].entries)
  BY IInvFacts DEF TypeOK, ThreadSet, ThreadWrite
<1> DEFINE n == thread[a].file
           e == thread[a].entries
<1>1. n \in Nat /\ n >= 1 /\ e \in Seq(Files) /\ Len(e) \in Nat /\ n <= Len(e) /\ e[n] \in Files
  BY <1>0, TransferAssumption DEF ThreadSet
<1>2. PICK t : t = [thread[a] EXCEPT !.file = @ + 1]
  OBVIOUS
<1>3. t.at = "writing" /\ t.file = n + 1 /\ t.entries = e
  BY <1>0, <1>2 DEF ThreadSet
<1>4. n + 1 \in 1..NumFiles + 1
  BY <1>0, <1>1, TransferAssumption DEF Lists
<1>5. t \in ThreadSet
  BY <1>0, <1>2, <1>4 DEF ThreadSet
<1>6. thread' = [thread EXCEPT ![a] = t] /\ thread'[a] = t
  BY <1>0, <1>2 DEF ThreadWrite, TypeOK
<1>7. /\ inode[a] \in Seq(Files \cup {1}) /\ Len(inode[a]) = n - 1
      /\ \A i \in 1..n - 1 : inode[a][i] = e[i]
  BY <1>0 DEF TypeOK, Writes
<1>8. inode[a] \in Seq(Files)
  BY <1>0 DEF Writes
<1>9. PICK l \in Seq(Files) : /\ inode' = [inode EXCEPT ![a] = l]
                             /\ Len(l) = n /\ \A i \in 1..n : l[i] = e[i]
  <2>1. CASE n = 1
    <3>1. PICK l : l = <<e[1]>>
      OBVIOUS
    <3>2. l \in Seq(Files) /\ Len(l) = 1 /\ l[1] = e[1]
      BY <1>1, <2>1, <3>1
    <3>3. \A i \in 1..n : l[i] = e[i]
      BY <2>1, <3>2
    <3>4. inode' = [inode EXCEPT ![a] = l]
      BY <2>1, <3>1 DEF ThreadWrite, Target
    <3>. QED BY <2>1, <3>2, <3>3, <3>4
  <2>2. CASE n # 1
    <3>1. PICK l : l = Append(inode[a], e[n])
      OBVIOUS
    <3>2. l \in Seq(Files) /\ Len(l) = n /\ (\A i \in 1..n - 1 : l[i] = e[i]) /\ l[n] = e[n]
      BY <1>1, <1>7, <1>8, <3>1, Appended
    <3>3. \A i \in 1..n : l[i] = e[i]
      BY <1>1, <3>2
    <3>. QED BY <1>0, <2>2, <3>1, <3>2, <3>3 DEF ThreadWrite, Target, TypeOK
  <2>. QED BY <2>1, <2>2
<1>10. inode'[a] = l
  BY <1>0, <1>9 DEF TypeOK
<1>11. Lists(a)' /\ Writes(a)'
  <2>1. Lists(a)'
    BY <1>0, <1>3, <1>6 DEF Lists, ThreadWrite
  <2>2. Writes(a)'
    BY <1>1, <1>3, <1>6, <1>9, <1>10 DEF Writes
  <2>. QED BY <2>1, <2>2
<1>. QED
  BY <1>0, <1>3, <1>5, <1>6, <1>9, <1>11, OneThread DEF ThreadWrite

(* ... and all of it when it is renamed.                                   *)
LEMMA ThreadReplaceInv == ASSUME IInv, NEW a \in Attempts, ThreadReplace(a) PROVE IInv'
<1>0. /\ TypeOK /\ lost = {} /\ Replaced /\ Lists(a) /\ Writes(a) /\ thread[a] \in ThreadSet
      /\ thread[a].at = "writing" /\ thread[a].file > Len(thread[a].entries)
  BY IInvFacts DEF TypeOK, ThreadSet, ThreadReplace
<1>1. PICK t : t = [thread[a] EXCEPT !.at = "done"]
  OBVIOUS
<1>2. t \in ThreadSet /\ t.at = "done" /\ t.entries = thread[a].entries
  BY <1>0, <1>1 DEF ThreadSet, ThreadStates
<1>3. thread' = [thread EXCEPT ![a] = t] /\ thread'[a] = t /\ \A b \in Attempts \ {a} : thread'[b] = thread[b]
  BY <1>0, <1>1 DEF ThreadReplace, ThreadBecomes, TypeOK
<1>4. manifest' = a /\ UNCHANGED <<disk, inode, cleanup, head, lost, faults>>
  BY DEF ThreadReplace, Target
<1>5. inode[a] = thread[a].entries
  <2>1. thread[a].entries \in Seq(Files) /\ Len(thread[a].entries) \in Nat /\ thread[a].file \in Nat
    BY <1>0, TransferAssumption DEF ThreadSet
  <2>2. inode[a] \in Seq(Files) /\ Len(inode[a]) \in Nat /\ Len(inode[a]) = thread[a].file - 1
    BY <1>0 DEF Writes
  <2>3. \A i \in 1..Len(inode[a]) : i <= Len(thread[a].entries) /\ inode[a][i] = thread[a].entries[i]
    BY <1>0 DEF Writes
  <2>4. Len(inode[a]) = Len(thread[a].entries)
    <3>1. PICK m, n, k \in Nat : m = Len(inode[a]) /\ n = Len(thread[a].entries) /\ k = thread[a].file
      BY <2>1, <2>2
    <3>2. m = k - 1 /\ k > n /\ (m \in 1..m => m <= n)
      BY <1>0, <2>2, <2>3, <3>1
    <3>3. m = n
      BY <3>1, <3>2
    <3>. QED BY <3>1, <3>3
  <2>. QED BY <2>1, <2>2, <2>3, <2>4, SeqEqual
<1>6. TypeOK'
  <2>1. thread' \in [Attempts -> ThreadSet]
    BY <1>0, <1>2, <1>3 DEF TypeOK, ThreadSet
  <2>. QED BY <1>0, <1>4, <2>1 DEF TypeOK, ThreadSet
<1>7. Replaced'
  BY <1>2, <1>3, <1>4 DEF Replaced
<1>8. ASSUME NEW b \in Attempts PROVE Lists(b)' /\ Writes(b)'
  <2>1. CASE b = a
    BY <1>0, <1>2, <1>3, <1>4, <1>5, <2>1 DEF Lists, Writes
  <2>2. CASE b # a
    BY <1>3, <1>4, <2>2, IInvFacts, ThreadStays
  <2>. QED BY <2>1, <2>2
<1>9. ASSUME NEW h \in Heads PROVE HeadSees(h)'
  <2>1. \A n \in 1..MaxAttempts : thread[<<h, n>>].at = "none" => thread'[<<h, n>>].at = "none"
    BY <1>0, <1>3 DEF Attempts
  <2>2. DoneStays
    BY <1>0, <1>3, <1>4 DEF DoneStays
  <2>. QED BY <1>4, <2>1, <2>2, IInvFacts, HeadStays
<1>. QED BY <1>0, <1>4, <1>6, <1>7, <1>8, <1>9 DEF IInv

-----------------------------------------------------------------------------
(* Heads                                                                   *)

(* A call, or a call that is sent again, starts a thread that was not      *)
(* there.                                                                  *)
Starts(h) ==
  \E n \in 1..MaxAttempts :
    thread[<<h, n>>].at = "none" /\ thread' = [thread EXCEPT ![<<h, n>>].at = "listing"]

(* The threads after that.                                                 *)
LEMMA StartsFacts ==
  ASSUME TypeOK, NEW h \in Heads, thread' = thread \/ Starts(h)
  PROVE  /\ thread' \in [Attempts -> ThreadSet]
         /\ \A a \in Attempts : \/ thread'[a] = thread[a]
                                \/ /\ a[1] = h /\ thread[a].at = "none"
                                   /\ thread'[a] = [thread[a] EXCEPT !.at = "listing"]
<1>1. thread \in [Attempts -> ThreadSet]
  BY DEF TypeOK, ThreadSet
<1>2. CASE thread' = thread
  BY <1>1, <1>2
<1>3. CASE Starts(h)
  <2>1. PICK n \in 1..MaxAttempts :
          thread[<<h, n>>].at = "none" /\ thread' = [thread EXCEPT ![<<h, n>>].at = "listing"]
    BY <1>3 DEF Starts
  <2>2. <<h, n>> \in Attempts /\ <<h, n>>[1] = h
    BY DEF Attempts
  <2>3. [thread[<<h, n>>] EXCEPT !.at = "listing"] \in ThreadSet
    BY <1>1, <2>2 DEF ThreadSet, ThreadStates
  <2>. QED BY <1>1, <2>1, <2>2, <2>3
<1>. QED BY <1>2, <1>3

(* A thread that starts has listed nothing, and passed nothing.            *)
LEMMA ThreadStarts ==
  ASSUME NEW a \in Attempts, Lists(a), Writes(a), thread[a] \in ThreadSet, thread[a].at = "none",
         UNCHANGED disk, thread'[a] = [thread[a] EXCEPT !.at = "listing"], inode'[a] = inode[a]
  PROVE  Lists(a)' /\ Writes(a)'
<1>1. /\ thread'[a].at = "listing" /\ thread'[a].file = thread[a].file
      /\ thread'[a].entries = thread[a].entries
  BY DEF ThreadSet
<1>. QED BY <1>1 DEF Lists, Writes

(* One head moves: the others see nothing of it.                           *)
LEMMA OneHead ==
  ASSUME IInv, NEW h \in Heads, NEW r \in HeadSet, head' = [head EXCEPT ![h] = r],
         thread' = thread \/ Starts(h),
         cleanup' \in [Attempts -> CleanupStates],
         \A a \in Attempts : cleanup'[a] = "checked" => cleanup[a] = "checked" \/ a[1] = h,
         UNCHANGED <<disk, inode, manifest, lost>>, faults' \in 0..MaxFaults, HeadSees(h)'
  PROVE  IInv'
<1>0. TypeOK /\ lost = {} /\ Replaced
  BY IInvFacts
<1>1. /\ thread' \in [Attempts -> ThreadSet]
      /\ \A a \in Attempts : \/ thread'[a] = thread[a]
                             \/ /\ a[1] = h /\ thread[a].at = "none"
                                /\ thread'[a] = [thread[a] EXCEPT !.at = "listing"]
  BY <1>0, StartsFacts
<1>2. \A a \in Attempts : thread[a] \in ThreadSet /\ thread'[a] \in ThreadSet
  BY <1>0, <1>1 DEF TypeOK, ThreadSet
<1>3. DoneStays
  BY <1>1 DEF DoneStays
<1>4. TypeOK'
  <2>1. head' \in [Heads -> HeadSet]
    BY <1>0 DEF TypeOK, HeadSet
  <2>. QED BY <1>0, <1>1, <2>1 DEF TypeOK, HeadSet, ThreadSet
<1>5. ASSUME NEW a \in Attempts PROVE thread'[a].at = "done" => thread[a].at = "done"
  BY <1>1, <1>2 DEF ThreadSet
<1>6. Replaced'
  BY <1>0, <1>3, <1>5, ReplacedStays
<1>7. ASSUME NEW a \in Attempts PROVE Lists(a)' /\ Writes(a)'
  <2>1. CASE thread'[a] = thread[a]
    BY <2>1, IInvFacts, ThreadStays
  <2>2. CASE thread[a].at = "none" /\ thread'[a] = [thread[a] EXCEPT !.at = "listing"]
    BY <1>2, <2>2, IInvFacts, ThreadStarts
  <2>. QED BY <1>1, <2>1, <2>2
<1>8. ASSUME NEW g \in Heads PROVE HeadSees(g)'
  <2>1. CASE g # h
    <3>1. \A n \in 1..MaxAttempts : <<g, n>> \in Attempts /\ <<g, n>>[1] # h
      BY <2>1 DEF Attempts
    <3>2. head'[g] = head[g]
      BY <1>0, <2>1 DEF TypeOK
    <3>. QED BY <1>1, <1>3, <3>1, <3>2, IInvFacts, HeadStays
  <2>. QED BY <2>1
<1>. QED BY <1>0, <1>4, <1>6, <1>7, <1>8 DEF IInv

(* What is known of one head.                                              *)
LEMMA HeadFacts ==
  ASSUME IInv, NEW h \in Heads
  PROVE  /\ head[h] \in HeadSet /\ Fresh(h) /\ Streams(h) /\ Copies(h) /\ Verifies(h)
         /\ Attempt(h) \in Attempts /\ Attempt(h)[1] = h /\ head[h].attempt \in Nat
<1>1. head[h] \in HeadSet /\ HeadSees(h)
  BY IInvFacts DEF TypeOK, HeadSet
<1>2. head[h].attempt \in 1..MaxAttempts
  BY <1>1 DEF HeadSet
<1>. QED BY <1>1, <1>2, TransferAssumption DEF HeadSees, Attempt, Attempts

(* A transfer that is over keeps what was verified ...                     *)
LEMMA EndedFacts ==
  ASSUME IInv, NEW h \in Heads, NEW at \in Over
  PROVE  /\ Ended(h, at) \in HeadSet /\ Ended(h, at).at = at
         /\ Ended(h, at).verified = head[h].verified
<1>1. /\ <<>> \in Seq(Files) /\ <<>> \in Seq(Files \cup {1}) /\ 1 \in 1..MaxAttempts
      /\ at \in HeadStates
  BY TransferAssumption DEF HeadStates
<1>2. head[h].verified \in SUBSET Files
  BY HeadFacts DEF HeadSet
<1>. QED BY <1>1, <1>2 DEF Ended, IdleHead, HeadSet

(* ... which a cleanup that goes on without it relies on.                  *)
LEMMA EndedSees ==
  ASSUME IInv, NEW h \in Heads, NEW at \in Over, head'[h] = Ended(h, at), UNCHANGED disk,
         \A n \in 1..MaxAttempts : cleanup'[<<h, n>>] = "checked" => cleanup[<<h, n>>] = "checked"
  PROVE  HeadSees(h)'
<1>1. head'[h].at \in Over /\ head'[h].verified = head[h].verified
  BY EndedFacts
<1>2. Verifies(h)
  BY HeadFacts
<1>. QED BY <1>1, <1>2 DEF HeadSees, Fresh, Streams, Copies, Verifies, Over

(* A transfer may end at any time.                                         *)
LEMMA EndInv ==
  ASSUME IInv, NEW h \in Heads, NEW at \in Over, head' = [head EXCEPT ![h] = Ended(h, at)],
         cleanup' \in [Attempts -> CleanupStates],
         \A a \in Attempts : cleanup'[a] = "checked" => cleanup[a] = "checked",
         UNCHANGED <<disk, inode, manifest, thread, lost>>, faults' \in 0..MaxFaults
  PROVE  IInv'
<1>1. head'[h] = Ended(h, at) /\ \A n \in 1..MaxAttempts : <<h, n>> \in Attempts
  BY IInvFacts DEF TypeOK, Attempts
<1>2. HeadSees(h)'
  BY <1>1, EndedSees
<1>. QED BY <1>2, EndedFacts, OneHead

(* The first attempt starts a thread.                                      *)
LEMMA GenerateInv == ASSUME IInv, NEW h \in Heads, Generate(h) PROVE IInv'
<1>0. /\ head[h] \in HeadSet /\ Fresh(h) /\ Verifies(h) /\ head[h].at = "idle" /\ TypeOK
      /\ 1 \in 1..MaxAttempts
  BY HeadFacts, IInvFacts, TransferAssumption DEF Generate
<1>1. PICK r : r = [head[h] EXCEPT !.at = "generating"]
  OBVIOUS
<1>2. /\ r \in HeadSet /\ r.at = "generating" /\ r.attempt = 1 /\ r.lines = <<>>
      /\ r.verified = head[h].verified
  BY <1>0, <1>1 DEF HeadSet, HeadStates, Unary, Fresh
<1>3. head' = [head EXCEPT ![h] = r] /\ head'[h] = r
  BY <1>0, <1>1 DEF Generate, TypeOK
<1>4. Starts(h)
  BY <1>0 DEF Starts, Fresh, Generate, ThreadBecomes
<1>5. \A n \in 1..MaxAttempts : n > 1 => thread'[<<h, n>>].at = "none"
  BY <1>0 DEF Fresh, Generate, ThreadBecomes, TypeOK, Attempts
<1>6. HeadSees(h)'
  BY <1>0, <1>2, <1>3, <1>5 DEF HeadSees, Fresh, Streams, Copies, Verifies, Generate
<1>. QED BY <1>0, <1>2, <1>3, <1>4, <1>6, OneHead DEF Generate, TypeOK

(* The answer of GenerateManifest tells that a manifest was written, or    *)
(* fails the transfer.                                                     *)
LEMMA GenerateReplyInv == ASSUME IInv, NEW h \in Heads, GenerateReply(h) PROVE IInv'
<1>0. /\ head[h] \in HeadSet /\ Fresh(h) /\ Verifies(h) /\ Attempt(h) \in Attempts
      /\ head[h].at = "generating" /\ TypeOK /\ 1 \in 1..MaxAttempts
  BY HeadFacts, IInvFacts, TransferAssumption DEF GenerateReply
<1>1. CASE /\ thread[Attempt(h)].at = "done"
           /\ head' = [head EXCEPT ![h].at = "opening", ![h].attempt = 1]
  <2>1. PICK r : r = [head[h] EXCEPT !.at = "opening", !.attempt = 1]
    OBVIOUS
  <2>2. /\ r \in HeadSet /\ r.at = "opening" /\ r.lines = <<>> /\ r.verified = head[h].verified
    BY <1>0, <2>1 DEF HeadSet, HeadStates, Fresh
  <2>3. head' = [head EXCEPT ![h] = r] /\ head'[h] = r
    BY <1>0, <1>1, <2>1 DEF TypeOK
  <2>4. HeadSees(h)'
    BY <1>0, <1>1, <2>2, <2>3 DEF HeadSees, Fresh, Streams, Copies, Verifies, GenerateReply
  <2>. QED BY <1>0, <2>2, <2>3, <2>4, OneHead DEF GenerateReply, TypeOK
<1>2. CASE head' = [head EXCEPT ![h] = Ended(h, "failed")]
  BY <1>0, <1>2, EndInv DEF GenerateReply, TypeOK, Over
<1>. QED BY <1>1, <1>2 DEF GenerateReply

(* So the manifest that is opened is complete, though it may be of another *)
(* head by now.                                                            *)
LEMMA OpenInv == ASSUME IInv, NEW h \in Heads, Open(h) PROVE IInv'
<1>0. /\ head[h] \in HeadSet /\ Fresh(h) /\ Streams(h) /\ Verifies(h) /\ head[h].at = "opening"
      /\ TypeOK /\ Replaced
  BY HeadFacts, IInvFacts DEF Open
<1>1. CASE manifest # None
  <2>0. PICK m : m = manifest
    OBVIOUS
  <2>1. PICK r : r = [head[h] EXCEPT !.at = "streaming", !.source = m]
    OBVIOUS
  <2>2. m \in Attempts /\ thread[m].at = "done" /\ inode[m] \in Seq(Files \cup {1})
    BY <1>0, <2>0 DEF Streams, Replaced, TypeOK
  <2>3. /\ r \in HeadSet /\ r.at = "streaming" /\ r.source = m /\ r.lines = <<>>
        /\ r.verified = head[h].verified
    BY <1>0, <2>1, <2>2 DEF HeadSet, HeadStates, Fresh
  <2>4. head' = [head EXCEPT ![h] = r] /\ head'[h] = r
    BY <1>0, <1>1, <2>0, <2>1 DEF TypeOK, Open
  <2>5. Len(r.lines) = 0 /\ Len(inode[m]) \in Nat
    BY <2>2, <2>3
  <2>6. Streams(h)'
    <3>1. inode' = inode /\ thread' = thread
      BY DEF Open
    <3>2. head'[h].at = "streaming" /\ head'[h].source = m /\ head'[h].lines = r.lines
      BY <2>3, <2>4
    <3>3. 0 <= Len(inode[m]) /\ \A i \in 1..0 : r.lines[i] = inode[m][i]
      BY <2>5
    <3>. QED BY <2>2, <2>5, <3>1, <3>2, <3>3 DEF Streams
  <2>7. HeadSees(h)'
    BY <1>0, <2>3, <2>4, <2>6 DEF HeadSees, Fresh, Copies, Verifies, Open
  <2>. QED BY <1>0, <2>3, <2>4, <2>7, OneHead DEF Open, TypeOK
<1>2. CASE manifest = None
  <2>1. head' = [head EXCEPT ![h] = Ended(h, "failed")]
    BY <1>2 DEF Open
  <2>. QED BY <1>0, <2>1, EndInv DEF Open, TypeOK, Over
<1>. QED BY <1>1, <1>2

(* The lines come from the file that was opened: it does not change when   *)
(* the manifest is replaced.                                               *)
LEMMA StreamLineInv == ASSUME IInv, NEW h \in Heads, StreamLine(h) PROVE IInv'
<1>0. /\ head[h] \in HeadSet /\ Fresh(h) /\ Streams(h) /\ Verifies(h) /\ head[h].at = "streaming"
      /\ TypeOK
  BY HeadFacts, IInvFacts DEF StreamLine
<1>1. PICK a : a = head[h].source
  OBVIOUS
<1>2. PICK got, s, l : got = Len(head[h].lines) /\ s = inode[a] /\ l = head[h].lines
  OBVIOUS
<1>3. a \in Attempts /\ thread[a].at = "done" /\ s = thread[a].entries /\ s \in Seq(Files) /\ l \in Seq(Files)
  <2>1. a \in Attempts /\ thread[a].at = "done"
    BY <1>0, <1>1 DEF Streams
  <2>2. Writes(a) /\ thread[a] \in ThreadSet
    BY <1>0, <2>1, IInvFacts DEF TypeOK, ThreadSet
  <2>. QED BY <1>0, <1>2, <2>1, <2>2 DEF Writes, ThreadSet, HeadSet
<1>4. got \in Nat /\ Len(s) \in Nat /\ got = Len(l) /\ got <= Len(s) /\ \A i \in 1..got : l[i] = s[i]
  BY <1>0, <1>1, <1>2, <1>3 DEF Streams
<1>5. CASE got < Len(s)
  <2>1. PICK r : r = [head[h] EXCEPT !.lines = Append(l, s[got + 1])]
    OBVIOUS
  <2>2. s[got + 1] \in Files
    BY <1>3, <1>4, <1>5
  <2>3. /\ Append(l, s[got + 1]) \in Seq(Files) /\ Len(Append(l, s[got + 1])) = got + 1
        /\ \A i \in 1..got + 1 : Append(l, s[got + 1])[i] = s[i]
    BY <1>3, <1>4, <2>2, Appended
  <2>4. /\ r \in HeadSet /\ r.at = "streaming" /\ r.source = a /\ r.lines = Append(l, s[got + 1])
        /\ r.verified = head[h].verified
    BY <1>0, <1>1, <2>1, <2>3 DEF HeadSet
  <2>5. head' = [head EXCEPT ![h] = r] /\ head'[h] = r
    BY <1>0, <1>1, <1>2, <1>5, <2>1 DEF TypeOK, StreamLine, Source
  <2>6. Streams(h)'
    <3>1. inode' = inode /\ thread' = thread
      BY DEF StreamLine
    <3>2. head'[h].at = "streaming" /\ head'[h].source = a /\ head'[h].lines = Append(l, s[got + 1])
      BY <2>4, <2>5
    <3>3. got + 1 <= Len(s)
      BY <1>4, <1>5
    <3>. QED BY <1>2, <1>3, <2>3, <3>1, <3>2, <3>3 DEF Streams
  <2>7. HeadSees(h)'
    BY <1>0, <2>4, <2>5, <2>6 DEF HeadSees, Fresh, Copies, Verifies, StreamLine
  <2>. QED BY <1>0, <2>4, <2>5, <2>7, OneHead DEF StreamLine, TypeOK
<1>6. CASE ~(got < Len(s))
  <2>1. PICK r : r = [head[h] EXCEPT !.at = "copying"]
    OBVIOUS
  <2>2. l = s
    BY <1>3, <1>4, <1>6, SeqEqual
  <2>3. r \in HeadSet /\ r.at = "copying" /\ r.lines = s /\ r.verified = head[h].verified
    BY <1>0, <1>2, <2>1, <2>2 DEF HeadSet, HeadStates
  <2>4. head' = [head EXCEPT ![h] = r] /\ head'[h] = r
    BY <1>0, <1>1, <1>2, <1>6, <2>1 DEF TypeOK, StreamLine, Source
  <2>5. HeadSees(h)'
    BY <1>0, <1>3, <2>3, <2>4 DEF HeadSees, Fresh, Streams, Copies, Verifies, StreamLine
  <2>. QED BY <1>0, <2>3, <2>4, <2>5, OneHead DEF StreamLine, TypeOK
<1>. QED BY <1>5, <1>6

(* One more file is verified.                                              *)
LEMMA CopyGoodInv == ASSUME IInv, NEW h \in Heads, CopyGood(h) PROVE IInv'
<1>0. head[h] \in HeadSet /\ Copies(h) /\ Verifies(h) /\ head[h].at = "copying" /\ TypeOK
  BY HeadFacts, IInvFacts DEF CopyGood
<1>1. PICK f \in disk : head' = [head EXCEPT ![h].verified = @ \cup {f}]
  BY DEF CopyGood
<1>2. PICK r : r = [head[h] EXCEPT !.verified = @ \cup {f}]
  OBVIOUS
<1>3. f \in Files
  BY <1>0 DEF TypeOK
<1>4. /\ r \in HeadSet /\ r.at = "copying" /\ r.lines = head[h].lines
      /\ r.verified = head[h].verified \cup {f}
  BY <1>0, <1>2, <1>3 DEF HeadSet
<1>5. head' = [head EXCEPT ![h] = r] /\ head'[h] = r
  BY <1>0, <1>1, <1>2 DEF TypeOK
<1>6. HeadSees(h)'
  BY <1>0, <1>4, <1>5 DEF HeadSees, Fresh, Streams, Copies, Verifies, CopyGood
<1>. QED BY <1>0, <1>4, <1>5, <1>6, OneHead DEF CopyGood, TypeOK

(* A file that is gone fails the transfer.                                 *)
LEMMA RetryFailedTransferInv == ASSUME IInv, NEW h \in Heads, RetryFailedTransfer(h) PROVE IInv'
BY IInvFacts, EndInv DEF RetryFailedTransfer, TypeOK, Over

(* What was listed is verified, which covers what is left.                 *)
LEMMA AllVerifiedInv == ASSUME IInv, NEW h \in Heads, AllVerified(h) PROVE IInv'
<1>0. head[h] \in HeadSet /\ Copies(h) /\ Verifies(h) /\ head[h].at = "copying" /\ TypeOK
  BY HeadFacts, IInvFacts DEF AllVerified
<1>1. PICK r : r = [head[h] EXCEPT !.at = "digesting", !.attempt = 1]
  OBVIOUS
<1>2. r \in HeadSet /\ r.at = "digesting" /\ r.verified = head[h].verified
  <2>1. 1 \in 1..MaxAttempts
    BY TransferAssumption
  <2>. QED BY <1>0, <1>1, <2>1 DEF HeadSet, HeadStates, Unary
<1>3. head' = [head EXCEPT ![h] = r] /\ head'[h] = r
  BY <1>0, <1>1 DEF AllVerified, TypeOK
<1>4. disk \subseteq r.verified
  <2>1. PICK a \in Attempts : thread[a].at = "done" /\ head[h].lines = thread[a].entries
    BY <1>0 DEF Copies
  <2>2. Lists(a)
    BY IInvFacts
  <2>. QED BY <1>2, <2>1, <2>2 DEF Lists, AllVerified, Listed
<1>5. HeadSees(h)'
  BY <1>0, <1>2, <1>3, <1>4 DEF HeadSees, Fresh, Streams, Copies, Verifies, AllVerified
<1>. QED BY <1>0, <1>2, <1>3, <1>5, OneHead DEF AllVerified, TypeOK

(* The digest is of whatever is the manifest by now.                       *)
LEMMA GetManifestDigestInv == ASSUME IInv, NEW h \in Heads, GetManifestDigest(h) PROVE IInv'
<1>0. head[h] \in HeadSet /\ Verifies(h) /\ head[h].at = "digesting" /\ TypeOK
  BY HeadFacts, IInvFacts DEF GetManifestDigest
<1>1. CASE manifest # None
  <2>1. PICK r : r = [head[h] EXCEPT !.at = "cleaning", !.attempt = 1, !.lines = <<>>,
                                     !.digest = inode[manifest]]
    OBVIOUS
  <2>2. inode[manifest] \in Seq(Files \cup {1}) /\ <<>> \in Seq(Files) /\ 1 \in 1..MaxAttempts
    BY <1>0, <1>1, TransferAssumption DEF TypeOK
  <2>3. r \in HeadSet /\ r.at = "cleaning" /\ r.verified = head[h].verified
    BY <1>0, <2>1, <2>2 DEF HeadSet, HeadStates, Unary
  <2>4. head' = [head EXCEPT ![h] = r] /\ head'[h] = r
    BY <1>0, <1>1, <2>1 DEF GetManifestDigest, TypeOK
  <2>5. HeadSees(h)'
    BY <1>0, <2>3, <2>4 DEF HeadSees, Fresh, Streams, Copies, Verifies, GetManifestDigest
  <2>. QED BY <1>0, <2>3, <2>4, <2>5, OneHead DEF GetManifestDigest, TypeOK
<1>2. CASE manifest = None
  <2>1. head' = [head EXCEPT ![h] = Ended(h, "failed")]
    BY <1>2 DEF GetManifestDigest
  <2>. QED BY <1>0, <2>1, EndInv DEF GetManifestDigest, TypeOK, Over
<1>. QED BY <1>1, <1>2

(* An attempt that is checked belongs to a head that is cleaning, so all   *)
(* that is left is verified.                                               *)
LEMMA CleanupCheckInv == ASSUME IInv, NEW h \in Heads, CleanupCheck(h) PROVE IInv'
<1>0. /\ head[h] \in HeadSet /\ HeadSees(h) /\ Verifies(h) /\ head[h].at = "cleaning" /\ TypeOK
      /\ Attempt(h) \in Attempts /\ Attempt(h)[1] = h
  BY HeadFacts, IInvFacts DEF CleanupCheck
<1>1. CASE cleanup' = [cleanup EXCEPT ![Attempt(h)] = "checked"] /\ UNCHANGED head
  <2>1. head' = [head EXCEPT ![h] = head[h]] /\ head'[h] = head[h]
    BY <1>0, <1>1 DEF TypeOK
  <2>2. cleanup' \in [Attempts -> CleanupStates]
    BY <1>0, <1>1 DEF TypeOK, CleanupStates
  <2>3. \A a \in Attempts : cleanup'[a] = "checked" => cleanup[a] = "checked" \/ a[1] = h
    BY <1>0, <1>1 DEF TypeOK
  <2>4. HeadSees(h)'
    BY <1>0, <2>1 DEF HeadSees, Fresh, Streams, Copies, Verifies, CleanupCheck
  <2>. QED BY <1>0, <2>1, <2>2, <2>3, <2>4, OneHead DEF CleanupCheck, TypeOK
<1>2. CASE head' = [head EXCEPT ![h] = Ended(h, "failed")] /\ UNCHANGED cleanup
  BY <1>0, <1>2, EndInv DEF CleanupCheck, TypeOK, Over
<1>. QED BY <1>1, <1>2 DEF CleanupCheck

(* The answer of CleanupData ends the transfer.                            *)
LEMMA CleanupReplyInv == ASSUME IInv, NEW h \in Heads, CleanupReply(h) PROVE IInv'
BY IInvFacts, EndInv DEF CleanupReply, TypeOK, Over

(* What a checked cleanup deletes has been verified by its head.           *)
LEMMA CleanupDeleteInv == ASSUME IInv, NEW a \in Attempts, CleanupDelete(a) PROVE IInv'
<1>0. TypeOK /\ lost = {} /\ Replaced /\ disk' = {}
  BY IInvFacts DEF CleanupDelete
<1>1. PICK h \in Heads, n \in 1..MaxAttempts : a = <<h, n>>
  BY DEF Attempts
<1>2. disk \subseteq Verified
  <2>1. disk \subseteq head[h].verified
    BY <1>1, HeadFacts DEF Verifies, CleanupDelete
  <2>. QED BY <2>1 DEF Verified
<1>3. lost' = {}
  BY <1>0, <1>2 DEF CleanupDelete
<1>4. TypeOK'
  BY <1>0, <1>3 DEF TypeOK, CleanupDelete, CleanupStates
<1>5. DoneStays
  BY DEF DoneStays, CleanupDelete
<1>6. Replaced'
  BY <1>0, <1>5, ReplacedStays DEF CleanupDelete
<1>7. ASSUME NEW b \in Attempts PROVE Lists(b)' /\ Writes(b)'
  BY <1>0, IInvFacts, ThreadStays DEF CleanupDelete
<1>8. ASSUME NEW g \in Heads PROVE HeadSees(g)'
  <2>1. \A b \in Attempts : cleanup'[b] = "checked" => cleanup[b] = "checked"
    BY <1>0 DEF CleanupDelete, TypeOK
  <2>2. \A k \in 1..MaxAttempts : <<g, k>> \in Attempts
    BY DEF Attempts
  <2>. QED BY <1>0, <1>5, <2>1, <2>2, IInvFacts, HeadStays DEF CleanupDelete
<1>. QED BY <1>3, <1>4, <1>6, <1>7, <1>8 DEF IInv

-----------------------------------------------------------------------------
(* Faults                                                                  *)

(* A call that is sent again has a thread of its own.                      *)
LEMMA UnavailableInv ==
  ASSUME IInv, NEW h \in Heads, Unavailable(h),
         cleanup' \in [Attempts -> CleanupStates],
         \A a \in Attempts : cleanup'[a] = "checked" => cleanup[a] = "checked",
         UNCHANGED <<disk, inode, manifest, lost>>, faults' \in 0..MaxFaults
  PROVE  IInv'
<1>0. /\ head[h] \in HeadSet /\ Fresh(h) /\ Streams(h) /\ Copies(h) /\ Verifies(h) /\ TypeOK
      /\ head[h].attempt \in Nat /\ head[h].attempt >= 1 /\ MaxAttempts \in Nat
  BY HeadFacts, IInvFacts, TransferAssumption DEF HeadSet
<1>1. CASE head[h].at \in Unary /\ head[h].attempt < MaxAttempts
  <2>0. PICK n : n = head[h].attempt + 1
    OBVIOUS
  <2>1. PICK r : r = [head[h] EXCEPT !.attempt = n]
    OBVIOUS
  <2>2. n \in 1..MaxAttempts
    BY <1>0, <1>1, <2>0
  <2>3. /\ r \in HeadSet /\ r.at = head[h].at /\ r.attempt = n /\ r.lines = head[h].lines
        /\ r.verified = head[h].verified
    BY <1>0, <2>1, <2>2 DEF HeadSet
  <2>4. head' = [head EXCEPT ![h] = r] /\ head'[h] = r
    BY <1>0, <1>1, <2>0, <2>1 DEF Unavailable, TypeOK
  <2>5. CASE head[h].at = "generating"
    <3>1. thread' = [thread EXCEPT ![<<h, n>>].at = "listing"]
      BY <1>1, <2>0, <2>5 DEF Unavailable
    <3>2. thread[<<h, n>>].at = "none"
      BY <1>0, <2>0, <2>2, <2>5 DEF Fresh
    <3>3. Starts(h)
      BY <2>2, <3>1, <3>2 DEF Starts
    <3>4. \A k \in 1..MaxAttempts : k > n => thread'[<<h, k>>].at = "none"
      <4>1. ASSUME NEW k \in 1..MaxAttempts, k > n PROVE thread'[<<h, k>>].at = "none"
        <5>1. k > head[h].attempt /\ <<h, k>> # <<h, n>> /\ <<h, k>> \in Attempts
          BY <1>0, <2>0, <2>2, <4>1 DEF Attempts
        <5>2. thread'[<<h, k>>] = thread[<<h, k>>]
          BY <1>0, <3>1, <5>1 DEF TypeOK
        <5>. QED BY <1>0, <2>5, <5>1, <5>2 DEF Fresh
      <4>. QED BY <4>1
    <3>5. HeadSees(h)'
      <4>1. \A k \in 1..MaxAttempts : <<h, k>> \in Attempts
        BY DEF Attempts
      <4>. QED BY <1>0, <2>3, <2>4, <2>5, <3>4, <4>1 DEF HeadSees, Fresh, Streams, Copies, Verifies
    <3>. QED BY <2>3, <2>4, <3>3, <3>5, OneHead
  <2>6. CASE head[h].at # "generating"
    <3>1. UNCHANGED thread
      BY <2>6 DEF Unavailable
    <3>2. HeadSees(h)'
      <4>1. \A k \in 1..MaxAttempts : <<h, k>> \in Attempts
        BY DEF Attempts
      <4>. QED BY <1>0, <1>1, <2>3, <2>4, <2>6, <4>1 DEF HeadSees, Fresh, Streams, Copies, Verifies, Unary
    <3>. QED BY <2>3, <2>4, <3>1, <3>2, OneHead
  <2>. QED BY <2>5, <2>6
<1>2. CASE ~(head[h].at \in Unary /\ head[h].attempt < MaxAttempts)
  <2>1. head' = [head EXCEPT ![h] = Ended(h, "failed")] /\ UNCHANGED thread
    BY <1>2 DEF Unavailable
  <2>. QED BY <2>1, EndInv DEF Over
<1>. QED BY <1>1, <1>2

(* A connection breaks.                                                    *)
LEMMA DropInv == ASSUME IInv, NEW h \in Heads, Drop(h) PROVE IInv'
<1>0. TypeOK
  BY IInvFacts
<1>1. faults' \in 0..MaxFaults
  BY <1>0, TransferAssumption DEF TypeOK, Drop
<1>2. /\ cleanup' \in [Attempts -> CleanupStates]
      /\ \A a \in Attempts : cleanup'[a] = "checked" => cleanup[a] = "checked"
  BY <1>0 DEF TypeOK, Drop, CleanupStates
<1>. QED BY <1>1, <1>2, UnavailableInv DEF Drop

(* An attempt that died is noticed.                                        *)
LEMMA NoticeInv == ASSUME IInv, NEW h \in Heads, Notice(h) PROVE IInv'
BY IInvFacts, UnavailableInv DEF Notice, TypeOK

(* The server dies: threads and cleanups end, a listing that was finished  *)
(* stays.                                                                  *)
LEMMA CrashInv == ASSUME IInv, Crash PROVE IInv'
<1>0. TypeOK /\ lost = {} /\ Replaced /\ UNCHANGED <<disk, inode, manifest, lost>>
  BY IInvFacts DEF Crash
<1>1. faults' \in 0..MaxFaults
  BY <1>0, TransferAssumption DEF TypeOK, Crash
<1>2. ASSUME NEW a \in Attempts
      PROVE  /\ thread[a] \in ThreadSet /\ thread'[a] \in ThreadSet
             /\ \/ thread'[a] = thread[a]
                \/ thread[a].at \notin {"none", "done"} /\ thread'[a].at = "dead"
  <2>1. thread[a] \in ThreadSet
    BY <1>0 DEF TypeOK, ThreadSet
  <2>2. /\ [thread[a] EXCEPT !.at = "dead"] \in ThreadSet
        /\ [thread[a] EXCEPT !.at = "dead"].at = "dead"
    BY <2>1 DEF ThreadSet, ThreadStates
  <2>. QED BY <2>1, <2>2 DEF Crash
<1>3. ASSUME NEW h \in Heads
      PROVE  head'[h] \in HeadSet /\ (head'[h] = head[h] \/ head'[h] = Ended(h, "failed"))
  <2>1. Ended(h, "failed") \in HeadSet /\ head[h] \in HeadSet
    BY EndedFacts, HeadFacts DEF Over
  <2>. QED BY <2>1 DEF Crash
<1>4. /\ cleanup' \in [Attempts -> CleanupStates]
      /\ \A a \in Attempts : cleanup'[a] = "checked" => cleanup[a] = "checked"
  BY <1>0 DEF TypeOK, Crash, CleanupStates
<1>5. thread' \in [Attempts -> ThreadSet]
  BY <1>2 DEF Crash
<1>6. head' \in [Heads -> HeadSet]
  BY <1>3 DEF Crash
<1>7. TypeOK'
  BY <1>0, <1>1, <1>4, <1>5, <1>6 DEF TypeOK, ThreadSet, HeadSet
<1>8. DoneStays
  BY <1>0, <1>2 DEF DoneStays
<1>9. Replaced'
  BY <1>0, <1>2, <1>8, ReplacedStays
<1>10. ASSUME NEW a \in Attempts PROVE Lists(a)' /\ Writes(a)'
  <2>1. CASE thread'[a] = thread[a]
    BY <1>0, <2>1, IInvFacts, ThreadStays
  <2>2. CASE thread'[a].at = "dead"
    BY <2>2 DEF Lists, Writes
  <2>. QED BY <1>2, <2>1, <2>2
<1>11. ASSUME NEW h \in Heads PROVE HeadSees(h)'
  <2>1. \A k \in 1..MaxAttempts : <<h, k>> \in Attempts
    BY DEF Attempts
  <2>2. CASE head'[h] = head[h]
    <3>1. \A k \in 1..MaxAttempts :
            /\ thread[<<h, k>>].at = "none" => thread'[<<h, k>>].at = "none"
            /\ cleanup'[<<h, k>>] = "checked" => cleanup[<<h, k>>] = "checked"
      <4>1. ASSUME NEW a \in Attempts, thread[a].at = "none" PROVE thread'[a].at = "none"
        BY <1>2, <4>1
      <4>2. ASSUME NEW k \in 1..MaxAttempts, thread[<<h, k>>].at = "none"
            PROVE  thread'[<<h, k>>].at = "none"
        BY <2>1, <4>1, <4>2
      <4>3. ASSUME NEW k \in 1..MaxAttempts, cleanup'[<<h, k>>] = "checked"
            PROVE  cleanup[<<h, k>>] = "checked"
        BY <1>4, <2>1, <4>3
      <4>. QED BY <4>2, <4>3
    <3>. QED BY <1>0, <1>8, <2>2, <3>1, IInvFacts, HeadStays
  <2>3. CASE head'[h] = Ended(h, "failed")
    BY <1>0, <1>4, <2>1, <2>3, EndedSees DEF Over
  <2>. QED BY <1>3, <2>2, <2>3
<1>. QED BY <1>0, <1>7, <1>9, <1>10, <1>11 DEF IInv

-----------------------------------------------------------------------------
(* Nothing happens.                                                        *)
LEMMA StutterInv == ASSUME IInv, UNCHANGED vars PROVE IInv'
<1>0. UNCHANGED <<disk, inode, manifest, thread, cleanup, head, lost, faults>>
  BY DEF vars
<1>1. TypeOK' /\ Replaced' /\ lost' = {}
  BY <1>0, IInvFacts DEF TypeOK, Replaced
<1>2. ASSUME NEW a \in Attempts PROVE Lists(a)' /\ Writes(a)'
  BY <1>0, IInvFacts, ThreadStays
<1>3. ASSUME NEW h \in Heads PROVE HeadSees(h)'
  BY <1>0, IInvFacts, HeadStays DEF DoneStays
<1>. QED BY <1>1, <1>2, <1>3 DEF IInv

(* The invariant is inductive.                                             *)
LEMMA NextInv == ASSUME IInv, [Next]_vars PROVE IInv'
<1>1. ASSUME NEW h \in Heads, Generate(h) \/ HeadStep(h) \/ Drop(h) PROVE IInv'
  BY <1>1, GenerateInv, GenerateReplyInv, OpenInv, StreamLineInv, CopyGoodInv,
     RetryFailedTransferInv, AllVerifiedInv, GetManifestDigestInv, CleanupCheckInv,
     CleanupReplyInv, NoticeInv, DropInv DEF HeadStep
<1>2. ASSUME NEW a \in Attempts, ServerStep(a) PROVE IInv'
  BY <1>2, ThreadListInv, ThreadReadInv, ThreadWriteInv, ThreadReplaceInv, CleanupDeleteInv
     DEF ServerStep
<1>. QED BY <1>1, <1>2, CrashInv, StutterInv DEF Next

(* The invariant holds, for any number of heads that retry and overlap,    *)
(* and any faults.                                                         *)
THEOREM TransferInvariant == Spec => []IInv
<1>. QED BY InitInv, NextInv, PTL DEF Spec

(* No file is deleted that no head has copied and verified, whatever heads *)
(* do at the same time and whatever breaks (CleanupData, server.py). The   *)
(* proof does not use the digest: a run that has stopped only loses files, *)
(* so the listing a head has verified covers all that is left when its own *)
(* cleanup deletes.                                                        *)
THEOREM NothingDeletedUnverified == Spec => []NoUnverifiedDeletion
<1>1. IInv => NoUnverifiedDeletion
  BY DEF IInv, NoUnverifiedDeletion
<1>. QED BY <1>1, TransferInvariant, PTL

(* A stream that ends well has given all lines of a manifest that was      *)
(* written as a whole, also when it was replaced meanwhile (GetManifest,   *)
(* manifest.py).                                                           *)
THEOREM StreamIsWhole == Spec => []StreamWhole
<1>1. IInv => StreamWhole
  BY DEF IInv, HeadSees, Copies, StreamWhole
<1>. QED BY <1>1, TransferInvariant, PTL
=============================================================================
