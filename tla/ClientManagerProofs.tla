------------------------ MODULE ClientManagerProofs ------------------------
(***************************************************************************)
(* Proofs about ClientManager, for any number of readers, writers and      *)
(* slots.                                                                  *)
(***************************************************************************)
EXTENDS ClientManager, FiniteSetTheorems, FunctionTheorems, TLAPS

(* The writer lock is held exactly by the writer inside the section.       *)
LockOwned ==
  \A w \in Writers : writer[w] \in {"refusing", "configuring"} <=> writerLock = w

(* The inductive invariant.  The accounting needs nothing but the types;   *)
(* that readers are quiet needs the accounting (a writer that counts no    *)
(* reader enters alone), the lock (no second writer clears the event under *)
(* the first) and the event (a late reader sees it set).                   *)
IInv == TypeOK /\ LockOwned /\ SlotsAccounted /\ CancelEventOwned /\ QuietUnlessForced

-----------------------------------------------------------------------------
(* Slots                                                                   *)

(* There are MaxClients slots, and the allocated ones are a finite set.    *)
LEMMA SlotsFinite ==
  /\ IsFiniteSet(Slots) /\ Cardinality(Slots) = MaxClients
  /\ IsFiniteSet(Allocated) /\ Cardinality(Allocated) \in Nat
<1>1. IsFiniteSet(Slots) /\ Cardinality(Slots) = MaxClients
  BY FS_Interval, ClientsAssumption DEF Slots
<1>2. Allocated \in SUBSET Slots
  BY DEF Allocated
<1>3. IsFiniteSet(Allocated)
  BY <1>1, <1>2, FS_Subset
<1>. QED
  BY <1>1, <1>3, FS_CardinalityType

(* Allocating one free slot to a reader that is outside keeps the          *)
(* accounting: Allocate, seen from the variables it changes.               *)
LEMMA AllocateAccounted ==
  ASSUME TypeOK, SlotsAccounted,
         NEW r \in Readers, r \notin Holding, Allocate(r)
  PROVE  SlotsAccounted'
<1>. PICK s \in Free : slot' = [slot EXCEPT ![s] = r]
  BY DEF Allocate
<1>1. s \in Slots /\ s \notin Allocated /\ r # None
  BY ClientsAssumption DEF Free
<1>2. Allocated' = Allocated \cup {s}
  BY <1>1 DEF Allocated, TypeOK, Slots
<1>3. Cardinality(Allocated') = Cardinality(Allocated) + 1
  BY <1>1, <1>2, SlotsFinite, FS_AddElement
<1>4. Holding' = Holding \cup {r}
  BY DEF Allocate, FirstAwait, Holding, TypeOK
<1>5. ASSUME NEW t \in Allocated' PROVE slot'[t] \in Holding'
  BY <1>1, <1>2, <1>4 DEF SlotsAccounted, TypeOK, Allocated
<1>6. ASSUME NEW q \in Holding' PROVE \E t \in Slots : SlotsOf(q)' = {t}
  <2>1. CASE q = r
    <3>1. \A t \in Slots : slot[t] # r
      BY <1>1 DEF SlotsAccounted, Allocated
    <3>2. SlotsOf(q)' = {s}
      BY <2>1, <3>1, <1>1 DEF SlotsOf, TypeOK
    <3>. QED BY <3>2, <1>1
  <2>2. CASE q # r
    <3>1. q \in Holding
      BY <1>4, <1>6, <2>2
    <3>2. PICK t \in Slots : SlotsOf(q) = {t}
      BY <3>1 DEF SlotsAccounted
    <3>3. q # None
      BY <3>1, ClientsAssumption DEF Holding
    <3>4. SlotsOf(q)' = {t}
      BY <1>1, <2>2, <3>2, <3>3 DEF SlotsOf, TypeOK, Allocated
    <3>. QED BY <3>4
  <2>. QED BY <2>1, <2>2
<1>7. activeReaders' = Cardinality(Allocated')
  BY <1>3 DEF Allocate, SlotsAccounted
<1>. QED
  BY <1>5, <1>6, <1>7 DEF SlotsAccounted

(* Giving the slot of a leaving reader back keeps the accounting, and the  *)
(* count stays a natural number.                                           *)
LEMMA LeaveAccounted ==
  ASSUME TypeOK, SlotsAccounted, NEW r \in Readers, Leave(r)
  PROVE  SlotsAccounted' /\ activeReaders' \in Nat /\ slot' \in [Slots -> Readers \cup {None}]
<1>. USE DEF Leave, Release
<1>0. r \in Holding /\ r # None
  BY ClientsAssumption DEF Holding
<1>1. PICK s \in Slots : SlotsOf(r) = {s}
  BY <1>0 DEF SlotsAccounted
<1>2. slot' = [slot EXCEPT ![s] = None] /\ slot[s] = r
  BY <1>1 DEF SlotsOf
<1>3. Allocated' = Allocated \ {s} /\ s \in Allocated
  BY <1>0, <1>2 DEF Allocated, TypeOK
<1>4. Cardinality(Allocated') = Cardinality(Allocated) - 1
  BY <1>3, SlotsFinite, FS_RemoveElement
<1>5. IsFiniteSet(Allocated')
  BY <1>3, SlotsFinite, FS_RemoveElement
<1>6. activeReaders' = Cardinality(Allocated') /\ activeReaders' \in Nat
  BY <1>4, <1>5, FS_CardinalityType DEF SlotsAccounted
<1>7. Holding' = Holding \ {r}
  BY DEF Holding, TypeOK
<1>8. ASSUME NEW t \in Allocated' PROVE slot'[t] \in Holding'
  <2>1. t \in Slots /\ t # s /\ slot'[t] = slot[t] /\ slot[t] \in Holding
    BY <1>2, <1>3 DEF Allocated, SlotsAccounted, TypeOK
  <2>2. slot[t] # r
    BY <2>1, <1>1 DEF SlotsOf
  <2>. QED BY <2>1, <2>2, <1>7
<1>9. ASSUME NEW q \in Holding' PROVE \E t \in Slots : SlotsOf(q)' = {t}
  <2>1. q \in Holding /\ q # r /\ q # None
    BY <1>7, ClientsAssumption DEF Holding
  <2>2. PICK t \in Slots : SlotsOf(q) = {t}
    BY <2>1 DEF SlotsAccounted
  <2>3. SlotsOf(q)' = {t}
    BY <1>2, <2>1, <2>2 DEF SlotsOf, TypeOK
  <2>. QED BY <2>3
<1>10. slot' \in [Slots -> Readers \cup {None}]
  BY <1>2 DEF TypeOK
<1>. QED
  BY <1>6, <1>8, <1>9, <1>10 DEF SlotsAccounted

(* What does not touch the slots, the count and the set of the readers     *)
(* inside does not touch the accounting.                                   *)
LEMMA FrameAccounted ==
  ASSUME SlotsAccounted, UNCHANGED <<slot, activeReaders>>, Holding' = Holding
  PROVE  SlotsAccounted'
BY DEF SlotsAccounted, Allocated, SlotsOf

-----------------------------------------------------------------------------
(* The parts of the invariant that do not count.                           *)
Quiet == LockOwned /\ CancelEventOwned /\ QuietUnlessForced

(* A reader that takes a slot while a writer configures is on its way out, *)
(* because the event is set; nothing else TakeSlot does concerns a writer. *)
LEMMA TakeSlotInvariant ==
  ASSUME TypeOK, SlotsAccounted, Quiet, NEW r \in Readers, r \notin Holding,
         TakeSlot(r),
         UNCHANGED <<writerLock, cancelReaders, shutdown, writer, force, hpValid>>
  PROVE  IInv'
<1>1. CASE Refuse(r)
  <2>1. TypeOK'
    BY <1>1 DEF Refuse, TypeOK, ReaderStates
  <2>2. Holding' = Holding
    BY <1>1 DEF Refuse, Holding, TypeOK
  <2>3. SlotsAccounted'
    BY <1>1, <2>2, FrameAccounted DEF Refuse
  <2>4. Quiet'
    BY <1>1 DEF Refuse, Quiet, LockOwned, CancelEventOwned, QuietUnlessForced, TypeOK
  <2>. QED
    BY <2>1, <2>3, <2>4 DEF IInv, Quiet
<1>2. CASE Allocate(r)
  <2>. PICK s \in Free : slot' = [slot EXCEPT ![s] = r]
    BY <1>2 DEF Allocate
  <2>0. slot' \in [Slots -> Readers \cup {None}]
    BY DEF TypeOK, Free
  <2>1. TypeOK'
    BY <1>2, <2>0 DEF Allocate, FirstAwait, TypeOK, ReaderStates
  <2>2. SlotsAccounted'
    BY <1>2, AllocateAccounted
  <2>3. Quiet'
    BY <1>2 DEF Allocate, FirstAwait, Quiet, LockOwned, CancelEventOwned,
                QuietUnlessForced, TypeOK
  <2>. QED
    BY <2>1, <2>2, <2>3 DEF IInv, Quiet
<1>. QED
  BY <1>1, <1>2 DEF TakeSlot

(* Every step of a reader keeps the invariant.                             *)
LEMMA ReaderInvariant ==
  ASSUME IInv, NEW r \in Readers, ReaderStep(r)
  PROVE  IInv'
<1>. USE DEF Quiet
<1>0. TypeOK /\ SlotsAccounted /\ Quiet
  BY DEF IInv
<1>1. CASE Arrive(r)
  <2>1. r \notin Holding
    BY <1>1 DEF Arrive, Holding
  <2>2. CASE TakeSlot(r)
    BY <1>0, <1>1, <2>1, <2>2, TakeSlotInvariant DEF Arrive
  <2>3. CASE UNCHANGED <<slot, activeReaders, readersLock, reader>>
    <3>1. UNCHANGED vars
      BY <1>1, <2>3 DEF Arrive, vars
    <3>. QED
      BY <1>0, <3>1 DEF vars, IInv, TypeOK, LockOwned, SlotsAccounted, CancelEventOwned,
                        QuietUnlessForced, Allocated, Holding, SlotsOf
  <2>4. CASE /\ reader' = [reader EXCEPT ![r] = "queued"]
             /\ UNCHANGED <<slot, activeReaders, readersLock>>
    <3>1. TypeOK'
      BY <1>0, <1>1, <2>4 DEF Arrive, TypeOK, ReaderStates
    <3>2. Holding' = Holding
      BY <1>0, <2>1, <2>4 DEF Holding, TypeOK
    <3>3. SlotsAccounted'
      BY <1>0, <2>4, <3>2, FrameAccounted
    <3>4. Quiet'
      BY <1>0, <1>1, <2>4 DEF Arrive, LockOwned, CancelEventOwned, QuietUnlessForced, TypeOK
    <3>. QED
      BY <3>1, <3>3, <3>4 DEF IInv
  <2>. QED
    BY <1>1, <2>2, <2>3, <2>4 DEF Arrive
<1>2. CASE Resume(r)
  <2>1. r \notin Holding
    BY <1>2 DEF Resume, Holding
  <2>. QED
    BY <1>0, <1>2, <2>1, TakeSlotInvariant DEF Resume
<1>3. CASE Leave(r)
  <2>1. SlotsAccounted' /\ activeReaders' \in Nat /\ slot' \in [Slots -> Readers \cup {None}]
    BY <1>0, <1>3, LeaveAccounted
  <2>2. TypeOK'
    BY <1>0, <1>3, <2>1 DEF Leave, TypeOK, ReaderStates
  <2>3. Quiet'
    BY <1>0, <1>3 DEF Leave, LockOwned, CancelEventOwned, QuietUnlessForced, TypeOK
  <2>. QED
    BY <2>1, <2>2, <2>3 DEF IInv
<1>4. CASE Refused(r) \/ Wake(r) \/ Sent(r) \/ Disconnect(r)
  <2>. USE DEF Refused, UnlockReaders, Wake, Sent, Disconnect
  <2>1. TypeOK'
    BY <1>0, <1>4 DEF TypeOK, ReaderStates
  <2>2. Holding' = Holding
    BY <1>0, <1>4 DEF Holding, TypeOK
  <2>3. SlotsAccounted'
    BY <1>0, <1>4, <2>2, FrameAccounted
  <2>4. LockOwned' /\ CancelEventOwned'
    BY <1>0, <1>4 DEF LockOwned, CancelEventOwned
  <2>5. QuietUnlessForced'
    BY <1>0, <1>4 DEF QuietUnlessForced, TypeOK
  <2>. QED
    BY <2>1, <2>3, <2>4, <2>5 DEF IInv
<1>. QED
  BY <1>1, <1>2, <1>3, <1>4 DEF ReaderStep

(* Every step of a writer keeps the invariant.                             *)
LEMMA WriterInvariant ==
  ASSUME IInv, NEW w \in Writers, WriterStep(w)
  PROVE  IInv'
<1>0. TypeOK /\ LockOwned /\ SlotsAccounted /\ CancelEventOwned /\ QuietUnlessForced
  BY DEF IInv
<1>. w # None
  BY ClientsAssumption
<1>1. Holding' = Holding /\ UNCHANGED <<slot, activeReaders>>
  BY DEF WriterStep, RequestWrite, EnterWrite, ExitWrite, AbandonWrite, Holding
<1>2. SlotsAccounted'
  BY <1>0, <1>1, FrameAccounted
<1>3. ASSUME NEW f \in BOOLEAN, RequestWrite(w, f) PROVE IInv'
  <2>. USE <1>3 DEF RequestWrite
  <2>1. TypeOK'
    BY <1>0 DEF TypeOK, WriterStates
  <2>2. LockOwned' /\ CancelEventOwned'
    BY <1>0 DEF LockOwned, CancelEventOwned, TypeOK
  <2>3. QuietUnlessForced'
    BY <1>0 DEF QuietUnlessForced, TypeOK
  <2>. QED
    BY <1>2, <2>1, <2>2, <2>3 DEF IInv
<1>4. CASE EnterWrite(w)
  <2>. USE <1>4 DEF EnterWrite
  <2>1. TypeOK'
    BY <1>0 DEF TypeOK, WriterStates
  <2>2. LockOwned'
    <3>1. \A v \in Writers : writer[v] \notin {"refusing", "configuring"}
      BY <1>0, ClientsAssumption DEF LockOwned
    <3>2. \A v \in Writers : v # w => writer'[v] = writer[v]
      BY <1>0 DEF TypeOK
    <3>3. writer'[w] \in {"refusing", "configuring"}
      BY <1>0 DEF TypeOK
    <3>. QED
      BY <3>1, <3>2, <3>3 DEF LockOwned
  <2>3. CancelEventOwned'
    BY <1>0 DEF CancelEventOwned, LockOwned, TypeOK
  <2>4. ASSUME activeReaders = 0 PROVE Holding = {}
    <3>1. Allocated = {}
      BY <1>0, <2>4, SlotsFinite, FS_EmptySet DEF SlotsAccounted
    <3>. QED
      BY <1>0, <3>1, ClientsAssumption DEF SlotsAccounted, SlotsOf, Allocated, Holding
  <2>5. ASSUME NEW v \in Writers, writer'[v] = "configuring", ~force'[v], NEW r \in Readers
        PROVE  reader'[r] \notin {"asleep", "sending"}
    <3>1. CASE v = w
      BY <1>0, <2>4, <2>5, <3>1 DEF TypeOK, Holding
    <3>2. CASE v # w
      BY <1>0, <2>5, <3>2 DEF QuietUnlessForced, TypeOK
    <3>. QED BY <3>1, <3>2
  <2>6. QuietUnlessForced'
    BY <2>5 DEF QuietUnlessForced
  <2>. QED
    BY <1>2, <2>1, <2>2, <2>3, <2>6 DEF IInv
<1>5. CASE ExitWrite(w)
  <2>. USE <1>5 DEF ExitWrite, ClearCancel, Unlock
  <2>1. TypeOK'
    BY <1>0 DEF TypeOK, WriterStates
  <2>2. LockOwned' /\ CancelEventOwned'
    BY <1>0, ClientsAssumption DEF LockOwned, CancelEventOwned, TypeOK
  <2>3. QuietUnlessForced'
    BY <1>0 DEF QuietUnlessForced, TypeOK
  <2>. QED
    BY <1>2, <2>1, <2>2, <2>3 DEF IInv
<1>6. CASE AbandonWrite(w)
  <2>. USE <1>6 DEF AbandonWrite
  <2>1. TypeOK'
    BY <1>0 DEF TypeOK, WriterStates
  <2>2. LockOwned' /\ CancelEventOwned'
    BY <1>0 DEF LockOwned, CancelEventOwned, TypeOK
  <2>3. QuietUnlessForced'
    BY <1>0 DEF QuietUnlessForced, TypeOK
  <2>. QED
    BY <1>2, <2>1, <2>2, <2>3 DEF IInv
<1>. QED
  BY <1>3, <1>4, <1>5, <1>6 DEF WriterStep

(* The invariant is inductive.                                             *)
LEMMA InitInvariant == Init => IInv
<1>. SUFFICES ASSUME Init PROVE IInv
  OBVIOUS
<1>1. TypeOK
  BY ClientsAssumption DEF Init, TypeOK, ReaderStates, WriterStates
<1>2. Allocated = {} /\ Holding = {}
  BY DEF Init, Allocated, Holding
<1>3. SlotsAccounted
  BY <1>2, FS_EmptySet DEF Init, SlotsAccounted
<1>4. LockOwned /\ CancelEventOwned /\ QuietUnlessForced
  BY ClientsAssumption DEF Init, LockOwned, CancelEventOwned, QuietUnlessForced
<1>. QED
  BY <1>1, <1>3, <1>4 DEF IInv

LEMMA NextInvariant == IInv /\ [Next]_vars => IInv'
<1>. SUFFICES ASSUME IInv, [Next]_vars PROVE IInv'
  OBVIOUS
<1>0. TypeOK /\ LockOwned /\ SlotsAccounted /\ CancelEventOwned /\ QuietUnlessForced
  BY DEF IInv
<1>1. ASSUME NEW r \in Readers, ReaderStep(r) PROVE IInv'
  BY <1>1, ReaderInvariant
<1>2. ASSUME NEW w \in Writers, WriterStep(w) PROVE IInv'
  BY <1>2, WriterInvariant
<1>3. CASE HpIoChanges \/ Shutdown \/ UNCHANGED vars
  <2>. USE <1>0, <1>3 DEF HpIoChanges, Shutdown, vars
  <2>1. TypeOK'
    BY DEF TypeOK
  <2>2. SlotsAccounted'
    BY FrameAccounted DEF Holding
  <2>3. LockOwned' /\ CancelEventOwned'
    BY DEF LockOwned, CancelEventOwned
  <2>4. QuietUnlessForced'
    BY DEF QuietUnlessForced
  <2>. QED
    BY <2>1, <2>2, <2>3, <2>4 DEF IInv
<1>. QED
  BY <1>1, <1>2, <1>3 DEF Next

LEMMA Invariant == Spec => []IInv
BY InitInvariant, NextInvariant, PTL DEF Spec

-----------------------------------------------------------------------------
(* Results                                                                 *)

(* The variables keep their types: in particular _active_readers, which    *)
(* the release lowers without a test, never becomes negative.              *)
THEOREM TypeCorrect == Spec => []TypeOK
<1>1. IInv => TypeOK
  BY DEF IInv
<1>. QED
  BY <1>1, Invariant, PTL

(* The count, the allocated slots and the streams inside always agree.     *)
THEOREM Accounting == Spec => []SlotsAccounted
<1>1. IInv => SlotsAccounted
  BY DEF IInv
<1>. QED
  BY <1>1, Invariant, PTL

(* The INTERNAL branch of get_reader_access is never reached.              *)
THEOREM SlotSearch == Spec => []SlotSearchSucceeds
<1>1. IInv => SlotSearchSucceeds
  <2>. SUFFICES ASSUME IInv, activeReaders < MaxClients, Free = {} PROVE FALSE
    BY DEF SlotSearchSucceeds
  <2>1. Allocated = Slots
    BY DEF Free, Allocated
  <2>2. activeReaders = MaxClients
    BY <2>1, SlotsFinite DEF IInv, SlotsAccounted
  <2>. QED
    BY <2>2, ClientsAssumption
<1>. QED
  BY <1>1, Invariant, PTL

(* The cancel event is set by a writer that configures or by shutdown, and *)
(* without force hp_io is never reconfigured under a stream.               *)
THEOREM QuietReconfiguration == Spec => []WriterExclusive
<1>1. IInv => WriterExclusive
  BY DEF IInv, WriterExclusive
<1>. QED
  BY <1>1, Invariant, PTL

-----------------------------------------------------------------------------
(* The bounded pool                                                        *)

(* The slots map the allocated ones onto the readers inside.               *)
LEMMA HoldingBounded ==
  ASSUME TypeOK, SlotsAccounted
  PROVE  IsFiniteSet(Holding) /\ Cardinality(Holding) <= activeReaders
<1>. DEFINE owner == [s \in Allocated |-> slot[s]]
<1>1. owner \in [Allocated -> Holding]
  BY DEF SlotsAccounted
<1>2. ASSUME NEW r \in Holding PROVE \E s \in Allocated : owner[s] = r
  <2>1. PICK s \in Slots : SlotsOf(r) = {s}
    BY DEF SlotsAccounted
  <2>2. s \in Allocated /\ slot[s] = r
    BY <2>1, ClientsAssumption DEF SlotsOf, Allocated, Holding
  <2>. QED BY <2>2
<1>3. owner \in Surjection(Allocated, Holding)
  BY <1>1, <1>2, Fun_IsSurj
<1>. QED
  BY <1>3, SlotsFinite, FS_Surjection DEF SlotsAccounted

(* Taking a slot is entering the pool, or being refused.                   *)
LEMMA TakeSlotEnters ==
  ASSUME TypeOK, SlotsAccounted, NEW r \in Readers, r \notin Holding,
         TakeSlot(r), UNCHANGED shutdown
  PROVE  [Pool!Next]_<<Holding, shutdown>>
<1>1. CASE Refuse(r)
  <2>1. Holding' = Holding
    BY <1>1 DEF Refuse, Holding, TypeOK
  <2>. QED BY <2>1
<1>2. CASE ~shutdown /\ activeReaders < MaxClients /\ Allocate(r)
  <2>1. Holding' = Holding \cup {r}
    BY <1>2 DEF Allocate, FirstAwait, Holding, TypeOK
  <2>2. Cardinality(Holding) \in Nat /\ Cardinality(Holding) < MaxClients
    <3>1. IsFiniteSet(Holding) /\ Cardinality(Holding) <= activeReaders
      BY HoldingBounded
    <3>. QED
      BY <1>2, <3>1, FS_CardinalityType, ClientsAssumption DEF TypeOK
  <2>3. Pool!Cardinality(Holding) = Cardinality(Holding)
    BY DEF Pool!Cardinality, Cardinality
  <2>4. Pool!Enter(r)
    BY <1>2, <2>1, <2>2, <2>3 DEF Pool!Enter
  <2>. QED
    BY <2>4 DEF Pool!Next
<1>. QED
  BY <1>1, <1>2 DEF TakeSlot

(* Every step is a step of the pool or leaves it alone.                    *)
LEMMA PoolStep ==
  ASSUME IInv, [Next]_vars
  PROVE  [Pool!Next]_<<Holding, shutdown>>
<1>0. TypeOK /\ SlotsAccounted
  BY DEF IInv
<1>1. ASSUME NEW r \in Readers, Arrive(r) \/ Resume(r)
      PROVE  [Pool!Next]_<<Holding, shutdown>>
  <2>1. r \notin Holding
    BY <1>1 DEF Arrive, Resume, Holding
  <2>2. CASE TakeSlot(r)
    BY <1>0, <1>1, <2>1, <2>2, TakeSlotEnters DEF Arrive, Resume
  <2>3. CASE ~TakeSlot(r)
    <3>1. Holding' = Holding /\ UNCHANGED shutdown
      BY <1>0, <1>1, <2>1, <2>3 DEF Arrive, Resume, Holding, TypeOK
    <3>. QED BY <3>1
  <2>. QED BY <2>2, <2>3
<1>2. ASSUME NEW r \in Readers, Leave(r) PROVE [Pool!Next]_<<Holding, shutdown>>
  <2>1. Pool!Exit(r)
    BY <1>0, <1>2 DEF Leave, Holding, TypeOK, Pool!Exit
  <2>. QED BY <2>1 DEF Pool!Next
<1>3. ASSUME NEW r \in Readers, Refused(r) \/ Wake(r) \/ Sent(r) \/ Disconnect(r)
      PROVE  [Pool!Next]_<<Holding, shutdown>>
  <2>1. Holding' = Holding /\ UNCHANGED shutdown
    BY <1>0, <1>3 DEF Refused, Wake, Sent, Disconnect, Holding, TypeOK
  <2>. QED BY <2>1
<1>4. ASSUME NEW w \in Writers, WriterStep(w) PROVE [Pool!Next]_<<Holding, shutdown>>
  <2>1. Holding' = Holding /\ UNCHANGED shutdown
    BY <1>4 DEF WriterStep, RequestWrite, EnterWrite, ExitWrite, AbandonWrite, Holding
  <2>. QED BY <2>1
<1>5. CASE Shutdown
  <2>1. Pool!Close
    BY <1>0, <1>5 DEF Shutdown, Holding, Pool!Close
  <2>. QED BY <2>1 DEF Pool!Next
<1>6. CASE HpIoChanges \/ UNCHANGED vars
  <2>1. Holding' = Holding /\ UNCHANGED shutdown
    BY <1>6 DEF HpIoChanges, vars, Holding
  <2>. QED BY <2>1
<1>. QED
  BY <1>1, <1>2, <1>3, <1>4, <1>5, <1>6 DEF Next, ReaderStep

(* get_reader_access implements the pool: never more than                  *)
(* max_concurrent_rpcs streams, and none admitted after shutdown.          *)
THEOREM Refinement == Spec => ImplementsReaderPool
<1>1. Init => Pool!Init
  BY DEF Init, Holding, Pool!Init
<1>2. IInv /\ [Next]_vars => [Pool!Next]_<<Holding, shutdown>>
  BY PoolStep
<1>. QED
  BY <1>1, <1>2, Invariant, PTL DEF Spec, ImplementsReaderPool, Pool!Spec
=============================================================================
