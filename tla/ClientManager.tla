--------------------------- MODULE ClientManager ---------------------------
(***************************************************************************)
(* Reader and writer access to the daq_data edge server: ClientManager of  *)
(* daq_data/managers.py together with the parts of DaqDataServicer that    *)
(* use it (the StreamImages loop, the writer section of InitHpIo and       *)
(* shutdown, daq_data/server.py).                                          *)
(*                                                                         *)
(* The server is one asyncio event loop, so code between two awaits is one *)
(* action.  A reader is a StreamImages RPC, a writer an InitHpIo RPC; when *)
(* an RPC has ended its process is idle again and may call once more.      *)
(* hp_io is visible here only through is_valid(): hpValid changes whenever *)
(* the HpIoTaskManager, modelled in HpIoLifecycle, may change it.          *)
(***************************************************************************)
EXTENDS Naturals, FiniteSets

CONSTANTS
  Readers,     (* StreamImages callers                                     *)
  Writers,     (* InitHpIo callers                                         *)
  MaxClients,  (* max_concurrent_rpcs: the number of ReaderState slots     *)
  None         (* no holder, no client                                     *)

ASSUME ClientsAssumption ==
  /\ Readers \cap Writers = {}
  /\ None \notin Readers \cup Writers
  /\ MaxClients \in Nat \ {0}

VARIABLES
  slot,           (* _readers: slot[s] is the client the slot serves, None if not is_allocated *)
  activeReaders,  (* _active_readers                                       *)
  writerLock,     (* holder of _writer_lock                                *)
  readersLock,    (* holder of _readers_lock across an await               *)
  cancelReaders,  (* _cancel_readers_event                                 *)
  shutdown,       (* _shutdown_event                                       *)
  reader,         (* where each StreamImages RPC is suspended              *)
  writer,         (* where each InitHpIo RPC is suspended                  *)
  force,          (* the force flag of each InitHpIo request               *)
  hpValid         (* HpIoTaskManager.is_valid()                            *)

vars == <<slot, activeReaders, writerLock, readersLock, cancelReaders, shutdown,
          reader, writer, force, hpValid>>

Slots == 1..MaxClients
ReaderStates == {"idle", "queued", "refusing", "asleep", "sending", "leaving"}
WriterStates == {"idle", "waiting", "refusing", "configuring"}

(* The readers that own a slot: inside the async with of StreamImages.     *)
Holding == {r \in Readers : reader[r] \in {"asleep", "sending", "leaving"}}
Allocated == {s \in Slots : slot[s] # None}
SlotsOf(r) == {s \in Slots : slot[s] = r}
Free == Slots \ Allocated

Init ==
  /\ slot = [s \in Slots |-> None]
  /\ activeReaders = 0
  /\ writerLock = None
  /\ readersLock = None
  /\ cancelReaders = FALSE
  /\ shutdown = FALSE
  /\ reader = [r \in Readers |-> "idle"]
  /\ writer = [w \in Writers |-> "idle"]
  /\ force = [w \in Writers |-> FALSE]
  /\ hpValid \in BOOLEAN

-----------------------------------------------------------------------------
(* StreamImages: admission                                                 *)

(* abort under _readers_lock: the lock stays held while abort is awaited.  *)
Refuse(r) ==
  /\ reader' = [reader EXCEPT ![r] = "refusing"]
  /\ readersLock' = r
  /\ UNCHANGED <<slot, activeReaders>>

(* Where a new stream is at its first await: the loop head looks at the    *)
(* cancel event before anything is sent.                                   *)
FirstAwait == IF cancelReaders THEN "leaving" ELSE "asleep"

(* The first free slot is taken and the loop runs to its first await.      *)
Allocate(r) ==
  \E s \in Free :
    /\ \A t \in Free : s <= t
    /\ slot' = [slot EXCEPT ![s] = r]
    /\ activeReaders' = activeReaders + 1
    /\ reader' = [reader EXCEPT ![r] = FirstAwait]
    /\ UNCHANGED readersLock

(* Mutation: the shutdown test is dropped.                                 *)
TakeSlotAfterShutdown(r) ==
  \/ ~hpValid /\ Refuse(r)
  \/ hpValid /\ activeReaders >= MaxClients /\ Refuse(r)
  \/ hpValid /\ activeReaders < MaxClients /\ Allocate(r)

(* The body of the async with self._readers_lock block, its early returns  *)
(* in order: CANCELLED, FAILED_PRECONDITION, RESOURCE_EXHAUSTED.  The last *)
(* one, INTERNAL when no slot is free, is what SlotSearchSucceeds excludes.*)
TakeSlot(r) ==
  \/ shutdown /\ Refuse(r)
  \/ ~shutdown /\ ~hpValid /\ Refuse(r)
  \/ ~shutdown /\ hpValid /\ activeReaders >= MaxClients /\ Refuse(r)
  \/ ~shutdown /\ hpValid /\ activeReaders < MaxClients /\ Allocate(r)

ReadersLockFree == readersLock = None

(* A new call: turned away while a writer holds its lock or the cancel     *)
(* event is set; otherwise it takes _readers_lock at once when it is free, *)
(* without an await in between, and queues for it when it is not.          *)
Arrive(r) ==
  /\ reader[r] = "idle"
  /\ \/ /\ writerLock # None \/ cancelReaders
        /\ UNCHANGED <<slot, activeReaders, readersLock, reader>>
     \/ /\ writerLock = None /\ ~cancelReaders
        /\ ReadersLockFree
        /\ TakeSlot(r)
     \/ /\ writerLock = None /\ ~cancelReaders
        /\ ~ReadersLockFree
        /\ reader' = [reader EXCEPT ![r] = "queued"]
        /\ UNCHANGED <<slot, activeReaders, readersLock>>
  /\ UNCHANGED <<writerLock, cancelReaders, shutdown, writer, force, hpValid>>

(* A queued call resumes under the lock: the writer test is not repeated.  *)
Resume(r) ==
  /\ reader[r] = "queued"
  /\ ReadersLockFree
  /\ TakeSlot(r)
  /\ UNCHANGED <<writerLock, cancelReaders, shutdown, writer, force, hpValid>>

(* Mutation: the lock is not released when abort raises.                   *)
KeepReadersLock == UNCHANGED readersLock

UnlockReaders == readersLock' = None

(* abort returns by raising: the lock is released.                         *)
Refused(r) ==
  /\ reader[r] = "refusing"
  /\ reader' = [reader EXCEPT ![r] = "idle"]
  /\ UnlockReaders
  /\ UNCHANGED <<slot, activeReaders, writerLock, cancelReaders, shutdown, writer,
                 force, hpValid>>

-----------------------------------------------------------------------------
(* StreamImages: the loop and the release                                  *)

(* Mutation: the loop head looks at the cancel event only.                 *)
CancelRequested == cancelReaders

StopRequested == cancelReaders \/ shutdown

(* The loop head after a sleep: leave when an event is set, otherwise send *)
(* fresh images, go back to sleep, or give up after reader_timeout.        *)
Wake(r) ==
  /\ reader[r] = "asleep"
  /\ \/ /\ StopRequested
        /\ reader' = [reader EXCEPT ![r] = "leaving"]
     \/ /\ ~StopRequested
        /\ reader' = [reader EXCEPT ![r] = "sending"]
     \/ /\ ~StopRequested
        /\ reader' = [reader EXCEPT ![r] = "leaving"]
  /\ UNCHANGED <<slot, activeReaders, writerLock, readersLock, cancelReaders, shutdown,
                 writer, force, hpValid>>

(* The last yield of a batch returns; the loop sleeps without a new test.  *)
Sent(r) ==
  /\ reader[r] = "sending"
  /\ reader' = [reader EXCEPT ![r] = "asleep"]
  /\ UNCHANGED <<slot, activeReaders, writerLock, readersLock, cancelReaders, shutdown,
                 writer, force, hpValid>>

(* Mutation: the count is not lowered with the slot.                       *)
ReleaseUncounted(r) ==
  /\ \E s \in SlotsOf(r) : slot' = [slot EXCEPT ![s] = None]
  /\ UNCHANGED activeReaders

(* ReaderState.reset and the count.                                        *)
Release(r) ==
  /\ \E s \in SlotsOf(r) : slot' = [slot EXCEPT ![s] = None]
  /\ activeReaders' = activeReaders - 1

(* finally of get_reader_access: the slot goes back under _readers_lock.   *)
Leave(r) ==
  /\ reader[r] = "leaving"
  /\ ReadersLockFree
  /\ reader' = [reader EXCEPT ![r] = "idle"]
  /\ Release(r)
  /\ UNCHANGED <<writerLock, readersLock, cancelReaders, shutdown, writer, force,
                 hpValid>>

(* The client cancels or its connection drops: CancelledError at the await *)
(* the RPC is suspended in; inside the async with the slot is given back.  *)
Disconnect(r) ==
  /\ \/ /\ reader[r] \in {"asleep", "sending"}
        /\ reader' = [reader EXCEPT ![r] = "leaving"]
     \/ /\ reader[r] = "queued"
        /\ reader' = [reader EXCEPT ![r] = "idle"]
  /\ UNCHANGED <<slot, activeReaders, writerLock, readersLock, cancelReaders, shutdown,
                 writer, force, hpValid>>

-----------------------------------------------------------------------------
(* InitHpIo: the writer section                                            *)

(* The request has passed its validation and waits for _writer_lock.       *)
RequestWrite(w, f) ==
  /\ writer[w] = "idle"
  /\ writer' = [writer EXCEPT ![w] = "waiting"]
  /\ force' = [force EXCEPT ![w] = f]
  /\ UNCHANGED <<slot, activeReaders, writerLock, readersLock, cancelReaders, shutdown,
                 reader, hpValid>>

(* The lock is granted: without force a streaming client makes the call    *)
(* fail; otherwise every reader is told to leave.                          *)
EnterWrite(w) ==
  /\ writer[w] = "waiting"
  /\ writerLock = None
  /\ writerLock' = w
  /\ \/ /\ activeReaders > 0 /\ ~force[w]
        /\ writer' = [writer EXCEPT ![w] = "refusing"]
        /\ UNCHANGED cancelReaders
     \/ /\ activeReaders = 0 \/ force[w]
        /\ writer' = [writer EXCEPT ![w] = "configuring"]
        /\ cancelReaders' = TRUE
  /\ UNCHANGED <<slot, activeReaders, readersLock, shutdown, reader, force, hpValid>>

(* Mutation: the event is left as it is when the section ends by raising.  *)
ClearCancelOnSuccess == cancelReaders' \in {FALSE, cancelReaders}

(* The finally clause clears the event whoever set it.                     *)
ClearCancel == cancelReaders' = FALSE

(* Leaving the async with self._writer_lock block.                         *)
Unlock(w) == writerLock' = None

(* The writer section ends: success, failure, abort or a cancelled RPC.    *)
ExitWrite(w) ==
  /\ writer[w] \in {"refusing", "configuring"}
  /\ writer' = [writer EXCEPT ![w] = "idle"]
  /\ ClearCancel
  /\ Unlock(w)
  /\ UNCHANGED <<slot, activeReaders, readersLock, shutdown, reader, force, hpValid>>

(* The client of a waiting InitHpIo cancels it.                            *)
AbandonWrite(w) ==
  /\ writer[w] = "waiting"
  /\ writer' = [writer EXCEPT ![w] = "idle"]
  /\ UNCHANGED <<slot, activeReaders, writerLock, readersLock, cancelReaders, shutdown,
                 reader, force, hpValid>>

-----------------------------------------------------------------------------
(* hp_io and shutdown                                                      *)

(* The hp_io task becomes valid (initial task, a writer) or stops being so *)
(* (reconfiguration, shutdown, failure of a data source).                  *)
HpIoChanges ==
  /\ hpValid' = ~hpValid
  /\ UNCHANGED <<slot, activeReaders, writerLock, readersLock, cancelReaders, shutdown,
                 reader, writer, force>>

(* shutdown(): both events are set without an await in between.            *)
Shutdown ==
  /\ ~shutdown
  /\ shutdown' = TRUE
  /\ cancelReaders' = TRUE
  /\ UNCHANGED <<slot, activeReaders, writerLock, readersLock, reader, writer, force,
                 hpValid>>

ReaderStep(r) ==
  \/ Arrive(r) \/ Resume(r) \/ Refused(r)
  \/ Wake(r) \/ Sent(r) \/ Leave(r) \/ Disconnect(r)

WriterStep(w) ==
  \/ \E f \in BOOLEAN : RequestWrite(w, f)
  \/ EnterWrite(w) \/ ExitWrite(w) \/ AbandonWrite(w)

Next ==
  \/ \E r \in Readers : ReaderStep(r)
  \/ \E w \in Writers : WriterStep(w)
  \/ HpIoChanges
  \/ Shutdown

Spec == Init /\ [][Next]_vars

(* The writer section of a call that is turned away ends with its abort.   *)
EndRefusal(w) == writer[w] = "refusing" /\ ExitWrite(w)

(* The event loop runs every ready callback; sleeps and sends end (timers, *)
(* keepalive); asyncio.Lock serves waiters in arrival order, which strong  *)
(* fairness of each waiter abstracts.  That a writer which configures ever *)
(* leaves is not assumed: start() reads a queue without a time-out.        *)
Fairness ==
  /\ \A r \in Readers :
       /\ SF_vars(Resume(r)) /\ WF_vars(Refused(r))
       /\ WF_vars(Wake(r)) /\ WF_vars(Sent(r)) /\ SF_vars(Leave(r))
  /\ \A w \in Writers : SF_vars(EnterWrite(w)) /\ WF_vars(EndRefusal(w))

FairSpec == Spec /\ Fairness

-----------------------------------------------------------------------------
(* Properties                                                              *)

(* The variables keep their types; the readers count never goes negative.  *)
TypeOK ==
  /\ slot \in [Slots -> Readers \cup {None}]
  /\ activeReaders \in Nat
  /\ writerLock \in Writers \cup {None}
  /\ readersLock \in Readers \cup {None}
  /\ cancelReaders \in BOOLEAN
  /\ shutdown \in BOOLEAN
  /\ reader \in [Readers -> ReaderStates]
  /\ writer \in [Writers -> WriterStates]
  /\ force \in [Writers -> BOOLEAN]
  /\ hpValid \in BOOLEAN

(* _active_readers, the is_allocated flags and the suspended streams tell  *)
(* the same story at every await: the count is the number of allocated     *)
(* slots, every stream inside get_reader_access owns exactly one slot, and *)
(* no slot belongs to a call that is outside.                              *)
SlotsAccounted ==
  /\ activeReaders = Cardinality(Allocated)
  /\ \A s \in Allocated : slot[s] \in Holding
  /\ \A r \in Holding : \E s \in Slots : SlotsOf(r) = {s}

(* The branch of get_reader_access that finds no slot although the count   *)
(* is below the maximum is dead code: a client that passes the count test  *)
(* is never answered INTERNAL.                                             *)
SlotSearchSucceeds == activeReaders < MaxClients => Free # {}

(* The shared cancel event is set exactly while a writer configures, or    *)
(* after shutdown until a writer that was inside clears it: a stuck event  *)
(* would turn every later StreamImages away with UNAVAILABLE.              *)
CancelEventOwned ==
  /\ cancelReaders => shutdown \/ \E w \in Writers : writer[w] = "configuring"
  /\ \A w \in Writers : writer[w] = "configuring" => cancelReaders

(* InitHpIo without force never reconfigures hp_io under a stream: even a  *)
(* reader that slipped past the writer test while queued leaves before it  *)
(* sends anything.                                                         *)
QuietUnlessForced ==
  \A w \in Writers :
    writer[w] = "configuring" /\ ~force[w]
      => \A r \in Readers : reader[r] \notin {"asleep", "sending"}

(* A writer has the readers to itself.                                     *)
WriterExclusive == CancelEventOwned /\ QuietUnlessForced

(* get_reader_access implements the bounded pool that shutdown closes.     *)
Pool == INSTANCE ReaderPool WITH Clients <- Readers, Capacity <- MaxClients,
                                 inside <- Holding, closed <- shutdown
ImplementsReaderPool == Pool!Spec

(* After shutdown every stream ends and gives its slot back, even when a   *)
(* writer that was inside clears the cancel event again.                   *)
ShutdownDrains == shutdown ~> [](Holding = {})

(* Nobody waits for ever.  A StreamImages that queued for the readers lock *)
(* is answered, even while a writer configures without end.  An InitHpIo   *)
(* gets the writer lock or an answer, unless one that has it configures    *)
(* for ever: callers kept apart do not (HpIoLifecycle!WritersAnswered),    *)
(* but the initial task, started without the lock, may make one of them.   *)
Served ==
  /\ \A w \in Writers :
       writer[w] = "waiting"
         ~> (writer[w] # "waiting" \/ \E v \in Writers : [](writer[v] = "configuring"))
  /\ \A r \in Readers : reader[r] = "queued" ~> reader[r] # "queued"
=============================================================================
