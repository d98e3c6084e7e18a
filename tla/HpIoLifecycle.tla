--------------------------- MODULE HpIoLifecycle ---------------------------
(***************************************************************************)
(* The life of the hp_io task of the daq_data edge server: HpIoTaskManager *)
(* (managers.py), HpIoManager.run (hp_io_manager.py), the start and stop   *)
(* of the simulation (simulate.py) and their three kinds of callers: the   *)
(* initial task, InitHpIo, and the shutdown by the standalone serve() or   *)
(* by PanosetiServer.run of the unified server (server.py).                *)
(*                                                                         *)
(* Each start() creates a new HpIoManager, numbered by generation, while   *)
(* one stop event and one valid event serve all generations.  InitHpIo     *)
(* calls exclude each other by the writer lock, held exactly while the     *)
(* caller is in start(); the initial task and the shutdown do not take it. *)
(* One action is the code between two awaits of one coroutine.             *)
(***************************************************************************)
EXTENDS Naturals, FiniteSets

CONSTANTS
  Writers,     (* InitHpIo callers                                         *)
  Boot,        (* start_initial_task                                       *)
  Closer,      (* the coroutine that shuts the server down: serve() or run() *)
  Configs,     (* hp_io configurations                                     *)
  SimConfigs,  (* those with simulate_daq                                  *)
  DefaultConfig, (* what the initial task starts; None without init_from_default *)
  Settings,    (* bound: the settings checked                              *)
  MaxCalls,    (* bound: InitHpIo calls served                             *)
  None         (* no configuration                                         *)

ASSUME LifecycleAssumption ==
  /\ Boot # Closer /\ Boot \notin Writers /\ Closer \notin Writers /\ IsFiniteSet(Writers)
  /\ SimConfigs \subseteq Configs /\ Configs # {} /\ None \notin Configs
  /\ DefaultConfig \in Configs \cup {None} /\ MaxCalls \in Nat
  /\ Settings \subseteq [unified : BOOLEAN, serial : BOOLEAN, configs : SUBSET Configs]

Callers == Writers \cup {Boot, Closer}
(* A call creates a task for its request and perhaps one to restore the    *)
(* previous configuration; the initial task creates one.                   *)
Gens == 1..(2 * MaxCalls + 1)

VARIABLES
  setting,  (* never changes: whether PanosetiServer.run shuts down, whether the callers of     *)
            (* start() and stop() are kept apart, what InitHpIo asks for                        *)
  mgr,      (* HpIoTaskManager: the tracked task (0: None), hp_io_cfg, the valid and stop    *)
            (* events, the simulation loop, whether a simulation strategy exists             *)
  runs,     (* per generation: where run() is, whether its sources and its processing loop   *)
            (* run, whether the stop event has released the sources, whether its product     *)
            (* queue holds an item, its simulation set-up task, its configuration            *)
  call,     (* per caller: the await it is suspended in, what follows the stop() it is in,   *)
            (* the generation it waits for, the configuration asked for, the one it starts,  *)
            (* the one to restore, whether it restores, whether the valid event woke it, its *)
            (* last answer             *)
  created,  (* generations created                                         *)
  calls     (* InitHpIo calls accepted                                     *)

vars == <<mgr, runs, call, created, calls>>

Unified == setting.unified
(* FALSE is the code; TRUE keeps the callers of start() and stop() apart,  *)
(* as if all of them held the writer lock.                                 *)
Serial == setting.serial

RunStates == {"none", "new", "waiting", "up", "closing", "done"}
SetupStates == {"none", "pending", "connecting", "up", "failed"}
SimStates == {"none", "running", "done"}
StopAwaits == {"stopSim", "stopTask", "stopClean"}
StartAwaits == {"waitValid", "waitProducts", "waitSetup", "cleanSetup", "waitLoop"}
Answers == {"none", "success", "failure", "error"}
CallStates == StopAwaits \cup StartAwaits
                \cup {"idle", "waiting", "ended", "stopped", "closed", "joining", "exited"}

Alive(g) == runs[g].at \notin {"none", "done"}
Live == {g \in Gens : Alive(g)}
Busy(c) == call[c].at \in StopAwaits \cup StartAwaits
IsValid == mgr.task # 0 /\ Alive(mgr.task) /\ mgr.valid
MayEnter == Serial => \A c \in Callers : ~Busy(c)

Outside(where, answer) ==
  [at |-> where, after |-> "create", gen |-> 0, asked |-> None, cfg |-> None, prior |-> None,
   retry |-> FALSE, woken |-> FALSE, answer |-> answer]

Init ==
  /\ setting \in Settings
  /\ mgr = [task |-> 0, cfg |-> None, valid |-> FALSE, stop |-> FALSE,
            sim |-> "none", strategy |-> FALSE]
  /\ runs = [g \in Gens |-> [at |-> "none", sources |-> FALSE, loop |-> FALSE, told |-> FALSE,
                             item |-> FALSE, setup |-> "none", cfg |-> None]]
  /\ call = [c \in Callers |->
               IF c # Boot THEN Outside("idle", "none")
               ELSE IF DefaultConfig = None THEN Outside("ended", "none")
               ELSE [Outside("idle", "none") EXCEPT !.cfg = DefaultConfig]]
  /\ created = 0
  /\ calls = 0

-----------------------------------------------------------------------------
(* Fragments: the code from one await to the next.  k is the caller's own  *)
(* record and m the manager's state, as the code before left them.         *)

Suspend(c, k, where, m) ==
  /\ call' = [call EXCEPT ![c] = [k EXCEPT !.at = where]]
  /\ mgr' = m
  /\ UNCHANGED <<runs, created>>

(* A caller leaves start(): the end of InitHpIo, which releases the writer *)
(* lock, or of start_initial_task.                                         *)
Finish(c, m, answer) ==
  /\ call' = [call EXCEPT ![c] = Outside(IF c = Boot THEN "ended" ELSE "idle", answer)]
  /\ mgr' = m
  /\ UNCHANGED <<runs, created>>

(* start() after its stop(): the new manager, its run() task and, for a    *)
(* simulation, the set-up task, up to the wait for the valid event.        *)
Launch(c, k, m) ==
  LET g == created + 1 IN
  /\ created' = g
  /\ mgr' = [m EXCEPT !.task = g, !.cfg = k.cfg]
  /\ runs' = [runs EXCEPT ![g] = [@ EXCEPT !.at = "new", !.cfg = k.cfg,
                 !.setup = IF k.cfg \in SimConfigs THEN "pending" ELSE "none"]]
  /\ call' = [call EXCEPT ![c] = [k EXCEPT !.at = "waitValid", !.gen = g, !.woken = FALSE]]

(* InitHpIo restores the configuration it replaced, once, when there is one*)
CanRestore(k) == k.prior # None /\ ~k.retry
Restoring(k) == [k EXCEPT !.cfg = k.prior, !.retry = TRUE, !.after = "create"]

(* start() has called stop() and returns False.  The stop() of the start() *)
(* that restores finds nothing left but a simulation loop of another caller*)
StartFailed(c, k, m) ==
  IF ~CanRestore(k) THEN Finish(c, m, "failure")
  ELSE IF m.sim = "running" THEN Suspend(c, Restoring(k), "stopSim", m)
  ELSE Launch(c, Restoring(k), m)

(* Mutation: the stop event is left set.                                   *)
ForgetTask(m) == [m EXCEPT !.task = 0, !.valid = FALSE]

(* The end of stop(): the task is forgotten and both events are cleared.   *)
Forget(m) == [m EXCEPT !.task = 0, !.valid = FALSE, !.stop = FALSE]

AfterStop(c, k, m) ==
  CASE k.after = "create" -> Launch(c, k, Forget(m))
    [] k.after = "fail"   -> StartFailed(c, k, Forget(m))
    [] k.after = "close"  -> Suspend(c, k, "stopped", Forget(m))

StopClean(c, k, m) ==
  IF m.strategy THEN Suspend(c, k, "stopClean", m) ELSE AfterStop(c, k, m)

(* Mutation: the stop event is set and the task is not awaited.            *)
StopTaskUnawaited(c, k, m) == StopClean(c, k, [m EXCEPT !.stop = TRUE])

(* stop_event.set() releases the sources that wait on it, those of every   *)
(* running generation; the processing loops only poll it.                  *)
StopTask(c, k, m) ==
  IF m.task # 0 /\ Alive(m.task)
  THEN /\ mgr' = [m EXCEPT !.stop = TRUE]
       /\ runs' = [g \in Gens |-> [runs[g] EXCEPT !.told = @ \/ runs[g].at = "up"]]
       /\ call' = [call EXCEPT ![c] = [k EXCEPT !.at = "stopTask", !.gen = m.task]]
       /\ UNCHANGED created
  ELSE StopClean(c, k, m)

(* stop() from its first line.                                             *)
Stop(c, k, m) ==
  IF m.sim = "running" THEN Suspend(c, k, "stopSim", m) ELSE StopTask(c, k, m)

StopAndFail(c, m) == Stop(c, [call[c] EXCEPT !.after = "fail"], m)

(* Mutation: the answer is that of the restored configuration.             *)
ReturnRestored(c) ==
  LET k == call[c] IN
  IF ~IsValid /\ CanRestore(k)
  THEN Stop(c, Restoring(k), mgr)
  ELSE Finish(c, mgr, IF IsValid THEN "success" ELSE "failure")

(* The last line of start().                                               *)
ReturnIsValid(c) ==
  LET k == call[c] IN
  IF ~IsValid /\ CanRestore(k)
  THEN Stop(c, Restoring(k), mgr)
  ELSE Finish(c, mgr, IF IsValid /\ ~k.retry THEN "success" ELSE "failure")

-----------------------------------------------------------------------------
(* Callers: stop() resumed                                                 *)

(* The loop has ended, by itself, by its event or cancelled after 2 s.     *)
SimStopped(c) ==
  /\ call[c].at = "stopSim"
  /\ StopTask(c, call[c], [mgr EXCEPT !.sim = "none"])
  /\ UNCHANGED calls

TaskStopped(c) ==
  /\ call[c].at = "stopTask"
  /\ ~Alive(call[c].gen)
  /\ StopClean(c, call[c], mgr)
  /\ UNCHANGED calls

StrategyCleaned(c) ==
  /\ call[c].at = "stopClean"
  /\ AfterStop(c, call[c], [mgr EXCEPT !.strategy = FALSE])
  /\ UNCHANGED calls

(* wait_for gives up after 2 s, or the client cancels InitHpIo: run() is   *)
(* cancelled and still awaited.  run() swallows the CancelledError, so the *)
(* await returns normally either way and stop() goes on.                   *)
CancelRun(c) ==
  /\ call[c].at = "stopTask"
  /\ runs[call[c].gen].at \in {"waiting", "up"}
  /\ runs' = [runs EXCEPT ![call[c].gen].at = "closing"]
  /\ UNCHANGED <<mgr, call, created, calls>>

-----------------------------------------------------------------------------
(* Callers: start() resumed                                                *)

(* The first product set of the caller's own generation has been taken     *)
(* from its queue: without a simulation, start() is done.                  *)
AfterProducts(c) ==
  IF call[c].cfg \in SimConfigs
  THEN Suspend(c, call[c], "waitSetup", mgr)
  ELSE ReturnIsValid(c)

(* The valid event woke the caller; the queue is read without a timeout.   *)
ValidSeen(c) ==
  /\ call[c].at = "waitValid"
  /\ call[c].woken
  /\ IF runs[call[c].gen].item
     THEN AfterProducts(c)
     ELSE Suspend(c, call[c], "waitProducts", mgr)
  /\ UNCHANGED calls

ProductsArrive(c) ==
  /\ call[c].at = "waitProducts"
  /\ runs[call[c].gen].item
  /\ AfterProducts(c)
  /\ UNCHANGED calls

(* Mutation: the event is awaited without a timeout.                       *)
NeverTimeout(c) == FALSE

(* wait_for(hp_io_valid_event.wait(), 10.0) times out: long after the task *)
(* has begun.                                                              *)
ValidTimeout(c) ==
  /\ call[c].at = "waitValid"
  /\ ~call[c].woken
  /\ runs[call[c].gen].at # "new"
  /\ StopAndFail(c, mgr)
  /\ UNCHANGED calls

(* The set-up task has ended: start the loop and sleep 0.2 s, or clean up  *)
(* and stop.  Without a strategy nothing is left to clean or to start.     *)
SetupEnded(c) ==
  LET setup == runs[call[c].gen].setup IN
  /\ call[c].at = "waitSetup"
  /\ setup \in {"up", "failed"}
  /\ \/ /\ setup = "up" /\ mgr.strategy
        /\ Suspend(c, call[c], "waitLoop", [mgr EXCEPT !.sim = "running"])
     \/ /\ setup = "failed" /\ mgr.strategy
        /\ Suspend(c, call[c], "cleanSetup", mgr)
     \/ /\ ~mgr.strategy
        /\ StopAndFail(c, mgr)
  /\ UNCHANGED calls

SetupCleaned(c) ==
  /\ call[c].at = "cleanSetup"
  /\ StopAndFail(c, [mgr EXCEPT !.strategy = FALSE])
  /\ UNCHANGED calls

(* After the 0.2 s a loop that has ended counts as started too, since      *)
(* strategy.run handles its own exceptions.  When another caller's stop()  *)
(* has set sim_task to None, start() raises.                               *)
LoopStarted(c) ==
  /\ call[c].at = "waitLoop"
  /\ IF mgr.sim = "none" THEN Finish(c, mgr, "error") ELSE ReturnIsValid(c)
  /\ UNCHANGED calls

-----------------------------------------------------------------------------
(* Callers: the beginnings and the ends                                    *)

(* start_initial_task, once the default configuration has been read ...    *)
BootStart ==
  /\ call[Boot].at = "idle"
  /\ MayEnter
  /\ Stop(Boot, call[Boot], mgr)
  /\ UNCHANGED calls

(* ... or when it cannot be read.                                          *)
BootFails ==
  /\ call[Boot].at = "idle"
  /\ Finish(Boot, mgr, "error")
  /\ UNCHANGED calls

Accepting ==
  IF Unified THEN call[Closer].at = "idle" ELSE call[Closer].at \notin {"closed", "exited"}

(* A validated InitHpIo, accepted until server.stop(), waits for the lock. *)
RequestInit(w, cfg) ==
  /\ calls < MaxCalls
  /\ call[w].at = "idle"
  /\ Accepting
  /\ Suspend(w, [Outside("waiting", "none") EXCEPT !.asked = cfg, !.cfg = cfg], "waiting", mgr)
  /\ calls' = calls + 1

(* The writer lock is granted: hp_io_cfg is kept for a restore.            *)
EnterInit(w) ==
  /\ call[w].at = "waiting"
  /\ MayEnter /\ \A v \in Writers : ~Busy(v)
  /\ Stop(w, [call[w] EXCEPT !.prior = mgr.cfg], mgr)
  /\ UNCHANGED calls

(* The client cancels InitHpIo, or server.stop() does after the grace      *)
(* period: CancelledError at the await, no clean-up but that of the await  *)
(* itself (sim_task is cleared, a set-up task waited for is cancelled).    *)
AbandonInit(w) ==
  /\ call[w].at \in ({"waiting"} \cup StopAwaits \cup StartAwaits) \ {"stopTask"}
  /\ call' = [call EXCEPT ![w] = Outside("idle", "error")]
  /\ mgr' = [mgr EXCEPT !.sim = IF call[w].at = "stopSim" THEN "none" ELSE @]
  /\ runs' = IF call[w].at = "waitSetup" /\ runs[call[w].gen].setup # "up"
             THEN [runs EXCEPT ![call[w].gen].setup = "failed"] ELSE runs
  /\ UNCHANGED <<created, calls>>

(* The signal: serve() calls servicer.shutdown() first, which ends in      *)
(* stop() ...                                                              *)
BeginShutdown ==
  /\ call[Closer].at = IF Unified THEN "closed" ELSE "idle"
  /\ MayEnter
  /\ Stop(Closer, [call[Closer] EXCEPT !.after = "close"], mgr)
  /\ UNCHANGED calls

(* ... and then server.stop(), which refuses new calls; run() has the      *)
(* other order.  After the grace period the calls left are cancelled.      *)
StopServer ==
  /\ call[Closer].at = IF Unified THEN "idle" ELSE "stopped"
  /\ Suspend(Closer, call[Closer], "closed", mgr)
  /\ UNCHANGED calls

(* Mutation: run() awaits the initial task without cancelling it.          *)
BootLeft ==
  /\ Unified /\ call[Closer].at = "stopped"
  /\ Suspend(Closer, call[Closer], "joining", mgr)
  /\ UNCHANGED calls

(* run() cancels the initial task.  In stop(), where it awaits a run() that*)
(* swallows the CancelledError, it only hurries that run(), and goes on.   *)
CancelBoot ==
  LET k == call[Boot] IN
  /\ Unified /\ call[Closer].at = "stopped"
  /\ k.at = "stopTask" => runs[k.gen].at # "new"
  /\ call' = [call EXCEPT ![Closer].at = "joining",
                 ![Boot] = IF k.at \in {"stopTask", "ended"} THEN @ ELSE Outside("ended", "error")]
  /\ mgr' = [mgr EXCEPT !.sim = IF k.at = "stopSim" THEN "none" ELSE @]
  /\ runs' = CASE k.at = "waitSetup" /\ runs[k.gen].setup # "up"
                    -> [runs EXCEPT ![k.gen].setup = "failed"]
               [] k.at = "stopTask" /\ runs[k.gen].at \in {"waiting", "up"}
                    -> [runs EXCEPT ![k.gen].at = "closing"]
               [] OTHER -> runs
  /\ UNCHANGED <<created, calls>>

(* Both return once the initial task has ended.                            *)
JoinBoot ==
  /\ call[Closer].at = IF Unified THEN "joining" ELSE "closed"
  /\ call[Boot].at = "ended"
  /\ Suspend(Closer, call[Closer], "exited", mgr)
  /\ UNCHANGED calls

-----------------------------------------------------------------------------
(* HpIoManager.run() and the simulation                                    *)

(* run() begins: the shared valid event is cleared; without data sources   *)
(* it returns at once.                                                     *)
RunStart(g) ==
  /\ runs[g].at = "new"
  /\ \/ runs' = [runs EXCEPT ![g].at = "waiting", ![g].sources = TRUE, ![g].loop = TRUE]
     \/ runs' = [runs EXCEPT ![g].at = "closing"]
  /\ mgr' = [mgr EXCEPT !.valid = FALSE]
  /\ UNCHANGED <<call, created, calls>>

(* Every source is ready: a product set is queued and the shared valid     *)
(* event wakes whoever waits for it.                                       *)
RunReady(g) ==
  /\ runs[g].at = "waiting"
  /\ runs' = [runs EXCEPT ![g].at = "up", ![g].item = TRUE, ![g].told = mgr.stop]
  /\ mgr' = [mgr EXCEPT !.valid = TRUE]
  /\ call' = [c \in Callers |-> [call[c] EXCEPT !.woken = @ \/ call[c].at = "waitValid"]]
  /\ UNCHANGED <<created, calls>>

(* The sources are not ready within 10 s, or a task of the group raises:   *)
(* the group cancels the others.                                           *)
RunFails(g) ==
  /\ runs[g].at \in {"waiting", "up"}
  /\ runs' = [runs EXCEPT ![g].at = "closing"]
  /\ UNCHANGED <<mgr, call, created, calls>>

(* The sources see the stop event even after it has been cleared again ... *)
SourcesEnd(g) ==
  /\ runs[g].at = "up" /\ runs[g].sources /\ runs[g].told
  /\ runs' = [runs EXCEPT ![g].sources = FALSE]
  /\ UNCHANGED <<mgr, call, created, calls>>

(* ... the processing loop only while it is set.                           *)
LoopEnds(g) ==
  /\ runs[g].at \in {"waiting", "up"} /\ runs[g].loop /\ mgr.stop
  /\ runs' = [runs EXCEPT ![g].loop = FALSE]
  /\ UNCHANGED <<mgr, call, created, calls>>

(* The task group has no task left: run() clears the shared valid event.   *)
RunEnds(g) ==
  /\ \/ runs[g].at = "closing"
     \/ runs[g].at = "up" /\ ~runs[g].sources /\ ~runs[g].loop
  /\ runs' = [runs EXCEPT ![g] = [@ EXCEPT !.at = "done", !.sources = FALSE, !.loop = FALSE,
                                            !.told = FALSE, !.cfg = None]]
  /\ mgr' = [mgr EXCEPT !.valid = FALSE]
  /\ UNCHANGED <<call, created, calls>>

(* setup_environment: it fails without its section of the configuration,   *)
(* or makes a strategy that connects to the sockets of the sources.        *)
SetupStep(g) ==
  /\ \/ /\ runs[g].setup = "pending"
        /\ runs' = [runs EXCEPT ![g].setup = "connecting"]
        /\ mgr' = [mgr EXCEPT !.strategy = TRUE]
     \/ /\ runs[g].setup = "pending"
        /\ runs' = [runs EXCEPT ![g].setup = "failed"]
        /\ UNCHANGED mgr
     \/ /\ runs[g].setup = "connecting"
        /\ \E result \in {"up", "failed"} : runs' = [runs EXCEPT ![g].setup = result]
        /\ UNCHANGED mgr
  /\ UNCHANGED <<call, created, calls>>

(* The simulation loop ends: frame limit reached, or an error.             *)
SimEnds ==
  /\ mgr.sim = "running"
  /\ mgr' = [mgr EXCEPT !.sim = "done"]
  /\ UNCHANGED <<runs, call, created, calls>>

StopStep(c) == SimStopped(c) \/ TaskStopped(c) \/ StrategyCleaned(c) \/ CancelRun(c)
StartStep(c) ==
  \/ ValidSeen(c) \/ ProductsArrive(c) \/ ValidTimeout(c)
  \/ SetupEnded(c) \/ SetupCleaned(c) \/ LoopStarted(c)
InitStep(w) == (\E cfg \in setting.configs : RequestInit(w, cfg)) \/ EnterInit(w) \/ AbandonInit(w)
RunStep(g) ==
  \/ RunStart(g) \/ RunReady(g) \/ RunFails(g)
  \/ SourcesEnd(g) \/ LoopEnds(g) \/ RunEnds(g) \/ SetupStep(g)

Step ==
  \/ \E c \in Callers : StopStep(c)
  \/ \E c \in Writers \cup {Boot} : StartStep(c)
  \/ \E w \in Writers : InitStep(w)
  \/ BootStart \/ BootFails \/ BeginShutdown \/ StopServer \/ CancelBoot \/ JoinBoot
  \/ \E g \in Gens : RunStep(g)
  \/ SimEnds

Next == Step /\ UNCHANGED setting

Spec == Init /\ [][Next]_<<setting, vars>>

(* Timers fire, awaited tasks that end wake their waiters, and the event   *)
(* loop runs what is ready.  Not assumed: that product sets arrive, that a *)
(* simulation ends, that anyone calls, cancels or shuts down.              *)
RunProgress(g) ==
  \/ RunStart(g) \/ SourcesEnd(g) \/ LoopEnds(g) \/ RunEnds(g)
  \/ runs[g].at = "waiting" /\ (RunReady(g) \/ RunFails(g))

Fairness ==
  /\ \A w \in Writers : WF_vars(StopStep(w) \/ StartStep(w)) /\ SF_vars(EnterInit(w))
  /\ WF_vars(StopStep(Boot) \/ StartStep(Boot)) /\ SF_vars(BootStart \/ BootFails)
  /\ WF_vars(StopStep(Closer) \/ CancelBoot \/ JoinBoot)
  /\ SF_vars(Unified /\ BeginShutdown) /\ WF_vars(~Unified /\ StopServer)
  /\ \A g \in Gens : WF_vars(RunProgress(g)) /\ WF_vars(SetupStep(g))

FairSpec == Spec /\ Fairness

-----------------------------------------------------------------------------
(* Properties.  What overlapping callers cost is said in the README; the   *)
(* properties hold when the callers are kept apart, and where Serial is not*)
(* named also when they overlap.                                           *)

(* The variables keep their types; a call starts at most two generations.  *)
TypeOK ==
  /\ mgr \in [task : {0} \cup Gens, cfg : Configs \cup {None}, valid : BOOLEAN,
              stop : BOOLEAN, sim : SimStates, strategy : BOOLEAN]
  /\ runs \in [Gens -> [at : RunStates, sources : BOOLEAN, loop : BOOLEAN, told : BOOLEAN,
                       item : BOOLEAN, setup : SetupStates, cfg : Configs \cup {None}]]
  /\ call \in [Callers ->
       [at : CallStates, after : {"create", "fail", "close"}, gen : {0} \cup Gens,
        asked : Configs \cup {None}, cfg : Configs \cup {None}, prior : Configs \cup {None},
        retry : BOOLEAN, woken : BOOLEAN, answer : Answers]]
  /\ calls \in 0..MaxCalls
  /\ created \in 0..(2 * calls + 1)

(* One HpIoManager at a time owns the sockets and fills a cache,           *)
(* and it is the tracked one: start() leaves no earlier task running, not  *)
(* even after timeouts, failed restores and cancelled calls.               *)
OneLiveTask == TypeOK /\ (Serial => Live \subseteq {mgr.task})

(* One stop event and one valid event serve all generations.  A stop event *)
(* that nobody is waiting on any more is never left in front of a running  *)
(* tracked task, however the callers overlap.  Kept apart, no new task ever*)
(* starts under the event of an earlier stop(), and the valid event that   *)
(* Status and StreamImages look at belongs to the tracked task, never to   *)
(* one that is being started or has ended.                                 *)
EventsOwned ==
  /\ mgr.stop => \/ \E c \in Callers : call[c].at \in {"stopTask", "stopClean"}
                 \/ mgr.task = 0 \/ ~Alive(mgr.task)
  /\ Serial =>
       /\ mgr.stop => \A g \in Live :
            \E c \in Callers : call[c].at = "stopTask" /\ call[c].gen = g
       /\ mgr.valid => mgr.task # 0 /\ runs[mgr.task].at \in {"up", "closing"}

(* InitHpIo answers success only while the configuration it asked for is   *)
(* served; after a failure what is served, if anything, is the      *)
(* configuration that was there before.                                    *)
AnswersTrue ==
  [][\A w \in Writers :
       Serial /\ Busy(w) /\ call'[w].at = "idle" =>
         /\ call'[w].answer = "success" => IsValid' /\ runs'[mgr'.task].cfg = call[w].asked
         /\ call'[w].answer = "failure" /\ IsValid' => runs'[mgr'.task].cfg = call[w].prior
    ]_vars

(* Every InitHpIo is answered.                                             *)
WritersAnswered ==
  \A w \in Writers : Serial /\ call[w].at = "waiting" ~> call[w].at = "idle"

(* The program returns after the signal, with the callers of start() and   *)
(* stop() kept apart (serve()), or when they overlap but the initial task  *)
(* is cancelled before it is waited for (PanosetiServer.run).              *)
ShutdownReturns == call[Closer].at # "idle" ~> call[Closer].at = "exited"
=============================================================================
