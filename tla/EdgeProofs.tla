----------------------------- MODULE EdgeProofs -----------------------------
(***************************************************************************)
(* Proofs about the daq_data edge server: about HpIoLifecycle, for any     *)
(* number of InitHpIo callers, calls and configurations, and about         *)
(* FrameStream, for any number of modules, products, connections, frames   *)
(* and readers.                                                            *)
(***************************************************************************)
EXTENDS HpIoLifecycle, FrameStream, FiniteSetTheorems, SequenceTheorems, WellFoundedInduction, TLAPS

-----------------------------------------------------------------------------
(* The lifecycle of hp_io                                                  *)

(* The types of the manager's state, of a run and of a caller's record.    *)
MgrSet == [task : {0} \cup Gens, cfg : Configs \cup {None}, valid : BOOLEAN,
           stop : BOOLEAN, sim : SimStates, strategy : BOOLEAN]
RunSet == [at : RunStates, sources : BOOLEAN, loop : BOOLEAN, told : BOOLEAN,
           item : BOOLEAN, setup : SetupStates, cfg : Configs \cup {None}]
CallSet ==
  [at : CallStates, after : {"create", "fail", "close"}, gen : {0} \cup Gens,
   asked : Configs \cup {None}, cfg : Configs \cup {None}, prior : Configs \cup {None},
   retry : BOOLEAN, woken : BOOLEAN, answer : Answers]

(* The generations the caller c may still create, once in stop() and from  *)
(* its present await: two for InitHpIo, one for the initial task.          *)
Owed(c, k) ==
  IF k.after = "close" THEN 0
  ELSE (IF k.after = "create" THEN 1 ELSE 0) + (IF k.retry \/ c = Boot THEN 0 ELSE 1)

(* The generations the caller c may still create, wherever it is.          *)
Need(c, k) ==
  IF k.at \in StopAwaits THEN Owed(c, k)
  ELSE IF k.at \in StartAwaits THEN (IF k.retry \/ c = Boot THEN 0 ELSE 1)
  ELSE IF k.at = "waiting" THEN 2
  ELSE IF k.at = "idle" /\ c = Boot THEN 1 ELSE 0

(* The rights to create a generation that are out, one pair for each;      *)
(* those of all callers but c; and the budget: with the generations        *)
(* created they stay within the two of each call and the one of the        *)
(* initial task.                                                           *)
Tokens == {t \in Callers \X {1, 2} : t[2] <= Need(t[1], call[t[1]])}
Others(c) == {t \in Tokens : t[1] # c}
Budget == created + Cardinality(Tokens) <= 2 * calls + 1

(* A record of a caller that is in start() or stop().                      *)
BusyAt(k) == k.at \in StopAwaits \cup StartAwaits

(* What a caller's record tells of the caller.                             *)
Suits(c, k) ==
  /\ c = Closer <=> k.after = "close"
  /\ c = Boot => k.prior = None /\ ~k.retry
  /\ c \in Writers => k.cfg = IF k.retry THEN k.prior ELSE k.asked
(* A caller's record fits where the caller is: what InitHpIo asks for it   *)
(* starts or restores, only the closer closes, and only the others start.  *)
Fits(c, k) ==
  /\ BusyAt(k) => Suits(c, k)
  /\ k.at = "idle" /\ c = Boot => k.after = "create" /\ k.prior = None /\ ~k.retry
  /\ k.at = "waiting" => k.after = "create" /\ ~k.retry /\ k.cfg = k.asked /\ c \in Writers
  /\ k.at \in StartAwaits => c # Closer
  /\ k.at \in StartAwaits \cup {"stopTask"} => k.gen \in Gens

(* With the callers kept apart: the caller that is in start() or stop()    *)
(* waits for the tracked task, which was started with its configuration.   *)
Stands(c) ==
  /\ call[c].at = "stopTask" => call[c].gen = mgr.task
  /\ call[c].at = "stopClean" => \A g \in Gens : ~Alive(g)
  /\ call[c].at \in StartAwaits =>
       call[c].gen = mgr.task /\ (Alive(mgr.task) => runs[mgr.task].cfg = call[c].cfg)

(* No generation runs but the tracked one; the valid event is the tracked  *)
(* task's, and it is up or closing.                                        *)
OnlyTracked == \A g \in Gens : Alive(g) => g = mgr.task
ValidOwned == mgr.valid => mgr.task # 0 /\ runs[mgr.task].at \in {"up", "closing"}

(* What holds when the callers are kept apart: one at a time is in start() *)
(* or stop(), and it stands where the tracked task lets it.                *)
Apart ==
  /\ \A c, d \in Callers : Busy(c) /\ Busy(d) => c = d
  /\ \A c \in Callers : Stands(c)
  /\ OnlyTracked /\ ValidOwned

(* Whoever set the stop event waits for the tracked task, or it has ended. *)
StopOwned ==
  mgr.stop => \/ \E c \in Callers : call[c].at = "stopTask" /\ call[c].gen = mgr.task
              \/ mgr.task = 0 \/ ~Alive(mgr.task)

(* The inductive invariant. The type invariant's bound on the generations  *)
(* needs the budget; the answers need to know which configuration the      *)
(* tracked task was started with.                                          *)
IInv ==
  /\ setting \in Settings /\ TypeOK /\ Budget
  /\ \A c \in Callers : Fits(c, call[c])
  /\ Serial => Apart
  /\ StopOwned

-----------------------------------------------------------------------------
(* The parts of the invariant, in the form in which the steps use them.    *)
LEMMA Facts ==
  ASSUME IInv
  PROVE  /\ mgr \in MgrSet /\ runs \in [Gens -> RunSet] /\ call \in [Callers -> CallSet]
         /\ calls \in 0..MaxCalls /\ created \in 0..(2 * calls + 1)
         /\ setting \in Settings /\ Budget /\ (Serial => Apart) /\ StopOwned
         /\ \A c \in Callers : Fits(c, call[c]) /\ call[c] \in CallSet
BY DEF IInv, TypeOK, MgrSet, RunSet, CallSet

(* What the assumption on the constants says of the callers and the        *)
(* generations.                                                            *)
LEMMA Numbers ==
  /\ MaxCalls \in Nat /\ Gens = 1..(2 * MaxCalls + 1) /\ 0 \notin Gens /\ IsFiniteSet(Callers)
  /\ Boot # Closer /\ Boot \notin Writers /\ Closer \notin Writers
  /\ Boot \in Callers /\ Closer \in Callers /\ Writers \subseteq Callers
<1>1. IsFiniteSet(Writers \cup {Boot, Closer})
  <2>1. IsFiniteSet(Writers \cup {Boot})
    BY LifecycleAssumption, FS_AddElement
  <2>2. IsFiniteSet((Writers \cup {Boot}) \cup {Closer})
    BY <2>1, FS_AddElement
  <2>3. Writers \cup {Boot, Closer} = (Writers \cup {Boot}) \cup {Closer}
    OBVIOUS
  <2>. QED BY <2>2, <2>3
<1>. QED BY <1>1, LifecycleAssumption DEF Callers, Gens

(* An addend of a bounded sum is bounded.                                  *)
LEMMA SumBounds ==
  ASSUME NEW a \in Nat, NEW n \in Nat, NEW q \in Nat, NEW b \in Nat, a + n + q <= 2 * b + 1
  PROVE  a \in 0..(2 * b + 1)
OBVIOUS

(* A caller may create two generations at most.                            *)
LEMMA NeedRange ==
  ASSUME NEW c, NEW k PROVE Need(c, k) \in 0..2 /\ Owed(c, k) \in 0..2
BY DEF Need, Owed

(* The tokens of one caller and those of the others add up.                *)
LEMMA TokensSplit ==
  ASSUME NEW c \in Callers
  PROVE  /\ Cardinality(Others(c)) \in Nat
         /\ Cardinality(Tokens) = Cardinality(Others(c)) + Need(c, call[c])
<1>1. IsFiniteSet(Callers \X {1, 2})
  <2>1. IsFiniteSet({1}) /\ {1, 2} = {1} \cup {2}
    BY FS_Singleton
  <2>2. IsFiniteSet({1, 2})
    BY <2>1, FS_AddElement
  <2>. QED BY <2>2, Numbers, FS_Product
<1>2. IsFiniteSet(Tokens) /\ IsFiniteSet(Others(c))
  BY <1>1, FS_Subset DEF Tokens, Others
<1>3. PICK n \in 0..2 : n = Need(c, call[c])
  BY NeedRange
<1>4. PICK O : O = Others(c) /\ IsFiniteSet(O) /\ Cardinality(O) \in Nat
  BY <1>2, FS_CardinalityType
<1>5. <<c, 1>> \notin O /\ <<c, 2>> \notin O
  BY <1>4 DEF Others
<1>6. \A t \in Tokens : t \in O \/ t = <<c, 1>> \/ t = <<c, 2>>
  BY <1>4 DEF Tokens, Others
<1>7. O \subseteq Tokens
  BY <1>4 DEF Others
<1>8. <<c, 1>> \in Tokens <=> 1 <= n
  BY <1>3 DEF Tokens
<1>9. <<c, 2>> \in Tokens <=> 2 <= n
  BY <1>3 DEF Tokens
<1>10. CASE n = 0
  <2>1. Tokens = O
    BY <1>6, <1>7, <1>8, <1>9, <1>10
  <2>. QED BY <1>3, <1>4, <1>10, <2>1
<1>11. CASE n = 1
  <2>1. Tokens = O \cup {<<c, 1>>}
    BY <1>6, <1>7, <1>8, <1>9, <1>11
  <2>2. Cardinality(Tokens) = Cardinality(O) + 1
    BY <1>4, <1>5, <2>1, FS_AddElement
  <2>. QED BY <1>3, <1>4, <1>11, <2>2
<1>12. CASE n = 2
  <2>1. Tokens = (O \cup {<<c, 1>>}) \cup {<<c, 2>>}
    BY <1>6, <1>7, <1>8, <1>9, <1>12
  <2>2. PICK P : P = O \cup {<<c, 1>>}
    OBVIOUS
  <2>3. IsFiniteSet(P) /\ Cardinality(P) = Cardinality(O) + 1
    BY <1>4, <1>5, <2>2, FS_AddElement
  <2>4. <<c, 2>> \notin P
    BY <1>5, <2>2
  <2>5. Cardinality(P \cup {<<c, 2>>}) = Cardinality(P) + 1
    BY <2>3, <2>4, FS_AddElement
  <2>6. Cardinality(Tokens) = Cardinality(P) + 1
    BY <2>1, <2>2, <2>5
  <2>7. Cardinality(Tokens) = Cardinality(O) + 2
    BY <1>4, <2>3, <2>6
  <2>. QED BY <1>3, <1>4, <1>12, <2>7
<1>. QED BY <1>10, <1>11, <1>12

(* The budget, as one caller sees it.                                      *)
LEMMA BudgetOf ==
  ASSUME IInv, NEW c \in Callers
  PROVE  created + Cardinality(Others(c)) + Need(c, call[c]) <= 2 * calls + 1
<1>1. PICK p \in Nat : p = Cardinality(Others(c))
  BY TokensSplit
<1>2. PICK q \in 0..2 : q = Need(c, call[c])
  BY NeedRange
<1>3. Cardinality(Tokens) = p + q
  BY <1>1, <1>2, TokensSplit
<1>4. PICK a \in Nat, b \in Nat : a = created /\ b = calls
  BY Facts, Numbers
<1>5. a + (p + q) <= 2 * b + 1
  BY <1>3, <1>4, Facts DEF Budget
<1>6. a + p + q <= 2 * b + 1
  BY <1>2, <1>5
<1>. QED BY <1>1, <1>2, <1>4, <1>6

(* The tokens of one caller and of the others add up in the next state.    *)
LEMMA SplitNext ==
  ASSUME NEW c \in Callers
  PROVE  (/\ Cardinality(Others(c)) \in Nat
          /\ Cardinality(Tokens) = Cardinality(Others(c)) + Need(c, call[c]))'
BY TokensSplit, PTL

(* What a caller's step leaves of another caller: all but that a broadcast *)
(* may wake it, and that the closer goes on to wait for the initial task.  *)
Alike(k, l) ==
  /\ l.after = k.after /\ l.gen = k.gen /\ l.asked = k.asked /\ l.cfg = k.cfg
  /\ l.prior = k.prior /\ l.retry = k.retry
  /\ l.at = k.at \/ {k.at, l.at} \subseteq {"stopped", "joining"}

(* No other caller moves.                                                  *)
OthersStay(c) == \A d \in Callers \ {c} : Alike(call[d], call'[d])

(* No generation comes to life.                                            *)
Fade ==
  \A g \in Gens : Alive(g)' => Alive(g) /\ runs'[g].cfg = runs[g].cfg

(* The step keeps the types and the setting.                               *)
Typed ==
  /\ mgr' \in MgrSet /\ runs' \in [Gens -> RunSet] /\ call' \in [Callers -> CallSet]
  /\ calls' \in 0..MaxCalls /\ created' \in Nat /\ setting' = setting

(* A caller that does not move keeps what the invariant says of its        *)
(* record.                                                                 *)
LEMMA AlikeFits ==
  ASSUME NEW c \in Callers, NEW k \in CallSet, NEW l \in CallSet, Alike(k, l)
  PROVE  /\ Fits(c, k) => Fits(c, l)
         /\ Need(c, k) = Need(c, l)
         /\ BusyAt(l) => l.at = k.at /\ BusyAt(k)
         /\ l.at = "idle" => k.at = "idle"
BY Numbers DEF Alike, Fits, Suits, Need, Owed, BusyAt, StopAwaits, StartAwaits

(* A step of c leaves the tokens of the others as they are.                *)
LEMMA OthersSame ==
  ASSUME IInv, NEW c \in Callers, call' \in [Callers -> CallSet], OthersStay(c)
  PROVE  Others(c)' = Others(c)
<1>1. \A d \in Callers \ {c} : Need(d, call'[d]) = Need(d, call[d])
  <2>1. ASSUME NEW d \in Callers \ {c} PROVE Need(d, call'[d]) = Need(d, call[d])
    <3>1. PICK k \in CallSet : k = call[d]
      BY Facts
    <3>2. PICK l \in CallSet : l = call'[d]
      OBVIOUS
    <3>3. Alike(k, l)
      BY <3>1, <3>2 DEF OthersStay
    <3>. QED BY <3>1, <3>2, <3>3, AlikeFits
  <2>. QED BY <2>1
<1>2. \A t : t \in Others(c)' <=> t \in Others(c)
  BY <1>1 DEF Others, Tokens
<1>. QED BY <1>2

(* One caller has moved to the record r: what has to be shown of its step. *)
LEMMA Settle ==
  ASSUME IInv, Typed, NEW c \in Callers, OthersStay(c),
         NEW r \in CallSet, call'[c] = r, Fits(c, r),
         created' + Cardinality(Others(c)) + Need(c, r) <= 2 * calls' + 1,
         Serial => \/ \A d \in Callers \ {c} : ~Busy(d)
                   \/ Fade /\ mgr'.task = mgr.task /\ (BusyAt(r) => Busy(c)),
         Serial => (OnlyTracked /\ ValidOwned /\ Stands(c))',
         StopOwned'
  PROVE  IInv'
<1>1. Others(c)' = Others(c)
  BY OthersSame DEF Typed
<1>2. Budget'
  <2>1. Cardinality(Tokens)' = Cardinality(Others(c)) + Need(c, r) /\ Cardinality(Others(c)) \in Nat
    BY <1>1, SplitNext, TokensSplit
  <2>. QED BY <2>1, NeedRange, Facts DEF Budget, Typed
<1>3. \A d \in Callers : Fits(d, call'[d])
  <2>1. ASSUME NEW d \in Callers, d # c PROVE Fits(d, call'[d])
    <3>1. PICK k \in CallSet : k = call[d] /\ Fits(d, k)
      BY Facts
    <3>2. PICK l \in CallSet : l = call'[d]
      BY DEF Typed
    <3>3. Alike(k, l)
      BY <2>1, <3>1, <3>2 DEF OthersStay
    <3>. QED BY <3>1, <3>2, <3>3, AlikeFits
  <2>. QED BY <2>1
<1>4. created' \in 0..(2 * calls' + 1)
  <2>1. PICK n \in Nat : n = Cardinality(Others(c))
    BY TokensSplit
  <2>2. PICK q \in 0..2 : q = Need(c, r)
    BY NeedRange
  <2>3. PICK a \in Nat, b \in Nat : a = created' /\ b = calls'
    BY Numbers DEF Typed
  <2>4. a + n + q <= 2 * b + 1
    BY <2>1, <2>2, <2>3
  <2>5. a \in 0..(2 * b + 1)
    BY <2>4, SumBounds
  <2>. QED BY <2>3, <2>5
<1>5. TypeOK'
  BY <1>4 DEF TypeOK, Typed, MgrSet, RunSet, CallSet
<1>6. ASSUME Serial, NEW d \in Callers, d # c, Busy(d)'
      PROVE  Busy(d) /\ call'[d].at = call[d].at /\ call'[d].gen = call[d].gen
             /\ call'[d].cfg = call[d].cfg
  <2>1. PICK k \in CallSet : k = call[d]
    BY Facts
  <2>2. PICK l \in CallSet : l = call'[d]
    BY DEF Typed
  <2>3. Alike(k, l)
    BY <1>6, <2>1, <2>2 DEF OthersStay
  <2>4. BusyAt(l)
    BY <1>6, <2>2 DEF Busy, BusyAt
  <2>5. l.at = k.at /\ BusyAt(k)
    BY <2>1, <2>2, <2>3, <2>4, AlikeFits
  <2>. QED BY <2>1, <2>2, <2>3, <2>5 DEF Busy, BusyAt, Alike
<1>7. Serial => Apart'
  <2>. SUFFICES ASSUME Serial PROVE Apart'
    OBVIOUS
  <2>1. Apart
    BY Facts
  <2>2. ASSUME NEW d \in Callers PROVE Stands(d)'
    <3>1. CASE d = c
      BY <3>1
    <3>2. CASE d # c /\ ~Busy(d)'
      BY <3>2 DEF Stands, Busy, StopAwaits, StartAwaits
    <3>3. CASE d # c /\ Busy(d)'
      <4>1. Busy(d) /\ call'[d].at = call[d].at /\ call'[d].gen = call[d].gen
            /\ call'[d].cfg = call[d].cfg
        BY <3>3, <1>6
      <4>2. Fade /\ mgr'.task = mgr.task
        BY <3>3, <4>1
      <4>3. Stands(d)
        BY <2>1 DEF Apart
      <4>4. mgr.task \in {0} \cup Gens
        BY Facts DEF MgrSet
      <4>5. call[d].at \in StartAwaits => call[d].gen \in Gens
        BY Facts DEF Fits
      <4>. QED BY <4>1, <4>2, <4>3, <4>4, <4>5 DEF Stands, Fade
    <3>. QED BY <3>1, <3>2, <3>3
  <2>3. ASSUME NEW d \in Callers, NEW e \in Callers, Busy(d)', Busy(e)' PROVE d = e
    <3>1. Busy(c)' => BusyAt(r)
      BY DEF Busy, BusyAt
    <3>2. CASE d # c /\ e # c
      BY <1>6, <2>1, <2>3, <3>2 DEF Apart
    <3>3. CASE d = c /\ e # c
      <4>1. Busy(e)
        BY <1>6, <2>3, <3>3
      <4>. QED BY <2>1, <2>3, <3>1, <3>3, <4>1 DEF Apart
    <3>4. CASE d # c /\ e = c
      <4>1. Busy(d)
        BY <1>6, <2>3, <3>4
      <4>. QED BY <2>1, <2>3, <3>1, <3>4, <4>1 DEF Apart
    <3>. QED BY <3>2, <3>3, <3>4
  <2>. QED BY <2>2, <2>3 DEF Apart
<1>8. Serial' <=> Serial
  BY DEF Serial, Typed
<1>9. setting' \in Settings
  BY Facts DEF Typed
<1>. QED BY <1>2, <1>3, <1>5, <1>7, <1>8, <1>9 DEF IInv

-----------------------------------------------------------------------------
(* With the callers kept apart, c is alone in start() or stop(), only the  *)
(* task that m tracks runs, and the valid event is that task's.            *)
Alone(c, m) ==
  Serial => /\ \A d \in Callers \ {c} : ~Busy(d)
            /\ \A g \in Gens : Alive(g) => g = m.task
            /\ m.valid => m.task # 0 /\ runs[m.task].at \in {"up", "closing"}

(* Another caller waits for the task that m tracks to stop, or it has.     *)
Stopping(c, m) ==
  m.stop => \/ \E d \in Callers \ {c} : call[d].at = "stopTask" /\ call[d].gen = m.task
            \/ m.task = 0 \/ ~Alive(m.task)

(* Inside the step of the caller c: its record and the manager's state are *)
(* k and m as the code before left them, and n generations are left to it. *)
Mid(c, k, m, n) ==
  /\ Suits(c, k)
  /\ created + Cardinality(Others(c)) + n <= 2 * calls + 1
  /\ Alone(c, m)
  /\ Stopping(c, m)

(* With the callers kept apart, nothing runs: stop() has ended the tracked *)
(* task.                                                                   *)
Quiet == Serial => \A g \in Gens : ~Alive(g)

(* A step within one call leaves the number of calls and the setting.      *)
Same == UNCHANGED <<setting, calls>>

(* What the caller c is answered when its step ends the call k.            *)
Honest(c, k) ==
  Serial /\ c \in Writers /\ call'[c].at = "idle" =>
    /\ call'[c].answer = "success" => IsValid' /\ runs'[mgr'.task].cfg = k.asked
    /\ call'[c].answer = "failure" /\ IsValid' => runs'[mgr'.task].cfg = k.prior

(* A step that replaces one caller's record leaves the others in place.    *)
LEMMA MoveOne ==
  ASSUME IInv, NEW c \in Callers, NEW r \in CallSet, call' = [call EXCEPT ![c] = r]
  PROVE  /\ call' \in [Callers -> CallSet] /\ call'[c] = r /\ OthersStay(c)
         /\ \A d \in Callers \ {c} : call'[d] = call[d]
<1>1. call \in [Callers -> CallSet]
  BY Facts
<1>. QED BY <1>1 DEF OthersStay, Alike

(* A fragment that ends in an await keeps the invariant, and it answers    *)
(* nobody.                                                                 *)
LEMMA SuspendKeeps ==
  ASSUME IInv, Same, NEW c \in Callers, NEW k \in CallSet, NEW m \in MgrSet, NEW n \in Nat,
         Mid(c, k, m, n), NEW where \in CallStates, Suspend(c, k, where, m),
         NEW r \in CallSet, r = [k EXCEPT !.at = where], Fits(c, r), Need(c, r) <= n,
         where # "stopTask", where # "idle",
         Serial => /\ where = "stopClean" => \A g \in Gens : ~Alive(g)
                   /\ where \in StartAwaits =>
                        k.gen = m.task /\ (Alive(m.task) => runs[m.task].cfg = k.cfg)
  PROVE  IInv' /\ Honest(c, k)
<1>2. r.at = where /\ r.gen = k.gen /\ r.cfg = k.cfg
  BY DEF CallSet
<1>3. /\ call' = [call EXCEPT ![c] = r] /\ mgr' = m /\ runs' = runs /\ created' = created
      /\ calls' = calls /\ setting' = setting
  BY DEF Suspend, Same
<1>4. /\ call' \in [Callers -> CallSet] /\ call'[c] = r /\ OthersStay(c)
      /\ \A d \in Callers \ {c} : call'[d] = call[d]
  BY <1>3, MoveOne
<1>5. Typed
  BY <1>3, <1>4, Facts DEF Typed
<1>6. created' + Cardinality(Others(c)) + Need(c, r) <= 2 * calls' + 1
  <2>1. PICK p \in Nat : p = Cardinality(Others(c))
    BY TokensSplit
  <2>2. PICK q \in 0..2 : q = Need(c, r)
    BY NeedRange
  <2>3. q <= n /\ created + p + n <= 2 * calls + 1 /\ created \in Nat /\ calls \in Nat
    BY <2>1, <2>2, Facts, Numbers DEF Mid
  <2>4. created + p + q <= 2 * calls + 1
    BY <2>1, <2>2, <2>3
  <2>. QED BY <1>3, <2>1, <2>2, <2>4
<1>7. Serial => (OnlyTracked /\ ValidOwned /\ Stands(c))'
  BY <1>2, <1>3, <1>4 DEF Mid, Alone, OnlyTracked, ValidOwned, Stands, Alive, StartAwaits
<1>8. StopOwned'
  BY <1>3, <1>4 DEF Mid, Stopping, StopOwned, Alive
<1>9. IInv'
  BY <1>4, <1>5, <1>6, <1>7, <1>8, Settle DEF Mid, Alone
<1>. QED BY <1>2, <1>4, <1>9 DEF Honest

(* A caller outside of start() and stop() fits there, and has no           *)
(* generation to create.                                                   *)
LEMMA OutsideFits ==
  ASSUME NEW c \in Callers, NEW where \in {"idle", "ended"}, NEW answer \in Answers,
         where = "idle" => c # Boot
  PROVE  /\ Outside(where, answer) \in CallSet /\ Fits(c, Outside(where, answer))
         /\ Need(c, Outside(where, answer)) = 0
         /\ Outside(where, answer).at = where /\ Outside(where, answer).answer = answer
BY DEF Outside, CallSet, Fits, Need, Owed, BusyAt, StopAwaits, StartAwaits, CallStates

(* The end of start() keeps the invariant.                                 *)
LEMMA FinishKeeps ==
  ASSUME IInv, Same, NEW c \in Callers, NEW k \in CallSet, NEW m \in MgrSet, NEW n \in Nat,
         Mid(c, k, m, n), NEW answer \in Answers, Finish(c, m, answer)
  PROVE  /\ IInv' /\ mgr' = m /\ runs' = runs
         /\ call'[c].at = (IF c = Boot THEN "ended" ELSE "idle") /\ call'[c].answer = answer
<1>1. PICK where \in {"idle", "ended"} : where = IF c = Boot THEN "ended" ELSE "idle"
  OBVIOUS
<1>2. PICK r \in CallSet : r = Outside(where, answer)
  BY <1>1, OutsideFits
<1>3. Fits(c, r) /\ Need(c, r) = 0 /\ r.at = where /\ r.answer = answer
  BY <1>1, <1>2, OutsideFits
<1>4. /\ call' = [call EXCEPT ![c] = r] /\ mgr' = m /\ runs' = runs /\ created' = created
      /\ calls' = calls /\ setting' = setting
  BY <1>1, <1>2 DEF Finish, Same
<1>5. /\ call' \in [Callers -> CallSet] /\ call'[c] = r /\ OthersStay(c)
      /\ \A d \in Callers \ {c} : call'[d] = call[d]
  BY <1>4, MoveOne
<1>6. Typed
  BY <1>4, <1>5, Facts DEF Typed
<1>7. created' + Cardinality(Others(c)) + Need(c, r) <= 2 * calls' + 1
  <2>1. PICK p \in Nat : p = Cardinality(Others(c))
    BY TokensSplit
  <2>2. created + p + n <= 2 * calls + 1 /\ created \in Nat /\ calls \in Nat
    BY <2>1, Facts, Numbers DEF Mid
  <2>3. created + p + 0 <= 2 * calls + 1
    BY <2>1, <2>2
  <2>. QED BY <1>3, <1>4, <2>1, <2>3
<1>8. Serial => (OnlyTracked /\ ValidOwned /\ Stands(c))'
  BY <1>1, <1>3, <1>4, <1>5 DEF Mid, Alone, OnlyTracked, ValidOwned, Stands, Alive, StartAwaits
<1>9. StopOwned'
  BY <1>4, <1>5 DEF Mid, Stopping, StopOwned, Alive
<1>10. IInv'
  BY <1>2, <1>3, <1>5, <1>6, <1>7, <1>8, <1>9, Settle DEF Mid, Alone
<1>. QED BY <1>1, <1>3, <1>4, <1>5, <1>10

(* The end of a stop() that goes on to create: nothing runs, the events    *)
(* are clear, and a generation is left to the caller, so the new one has a *)
(* number and is the only one.                                             *)
LEMMA LaunchKeeps ==
  ASSUME IInv, Same, NEW c \in Callers, NEW k \in CallSet, NEW m \in MgrSet, NEW n \in Nat,
         Mid(c, k, m, n), Quiet, ~m.stop, ~m.valid, c # Closer,
         n = 1 + (IF k.retry \/ c = Boot THEN 0 ELSE 1), Launch(c, k, m)
  PROVE  IInv' /\ Honest(c, k)
<1>1. PICK g \in Gens : g = created + 1
  <2>1. PICK p \in Nat : p = Cardinality(Others(c))
    BY TokensSplit
  <2>2. created + p + n <= 2 * calls + 1 /\ created \in Nat /\ calls \in 0..MaxCalls
        /\ MaxCalls \in Nat
    BY <2>1, Facts, Numbers DEF Mid
  <2>3. n >= 1
    OBVIOUS
  <2>4. created + 1 \in 1..(2 * MaxCalls + 1)
    BY <2>1, <2>2, <2>3
  <2>. QED BY <2>4, Numbers
<1>2. PICK r \in CallSet : r = [k EXCEPT !.at = "waitValid", !.gen = g, !.woken = FALSE]
  BY DEF CallSet, CallStates, StartAwaits
<1>3. /\ r.at = "waitValid" /\ r.gen = g /\ r.cfg = k.cfg /\ r.after = k.after
      /\ r.prior = k.prior /\ r.retry = k.retry /\ r.asked = k.asked
  BY <1>2 DEF CallSet
<1>4. PICK m2 \in MgrSet : m2 = [m EXCEPT !.task = g, !.cfg = k.cfg]
  BY DEF MgrSet, CallSet
<1>5. m2.task = g /\ m2.stop = m.stop /\ m2.valid = m.valid
  BY <1>4 DEF MgrSet
<1>6. PICK q \in RunSet : q = [runs[g] EXCEPT !.at = "new", !.cfg = k.cfg,
                 !.setup = IF k.cfg \in SimConfigs THEN "pending" ELSE "none"]
  <2>1. runs[g] \in RunSet
    BY Facts
  <2>. QED BY <2>1 DEF RunSet, RunStates, SetupStates, CallSet
<1>7. q.at = "new" /\ q.cfg = k.cfg
  <2>1. runs[g] \in RunSet
    BY Facts
  <2>. QED BY <1>6, <2>1 DEF RunSet
<1>8. /\ call' = [call EXCEPT ![c] = r] /\ mgr' = m2 /\ created' = g
      /\ runs' = [runs EXCEPT ![g] = q] /\ calls' = calls /\ setting' = setting
  BY <1>1, <1>2, <1>4, <1>6 DEF Launch, Same
<1>9. /\ call' \in [Callers -> CallSet] /\ call'[c] = r /\ OthersStay(c)
      /\ \A d \in Callers \ {c} : call'[d] = call[d]
  BY <1>8, MoveOne
<1>10. /\ runs' \in [Gens -> RunSet] /\ runs'[g] = q
       /\ \A h \in Gens \ {g} : runs'[h] = runs[h]
  <2>1. runs \in [Gens -> RunSet]
    BY Facts
  <2>. QED BY <1>8, <2>1
<1>11. Typed
  BY <1>8, <1>9, <1>10, Facts, Numbers DEF Typed
<1>12. Fits(c, r)
  BY <1>3, Numbers DEF Mid, Fits, Suits, BusyAt, StartAwaits, StopAwaits
<1>13. created' + Cardinality(Others(c)) + Need(c, r) <= 2 * calls' + 1
  <2>1. PICK p \in Nat : p = Cardinality(Others(c))
    BY TokensSplit
  <2>2. created + p + n <= 2 * calls + 1 /\ created \in Nat /\ calls \in Nat
    BY <2>1, Facts, Numbers DEF Mid
  <2>3. Need(c, r) = IF k.retry \/ c = Boot THEN 0 ELSE 1
    BY <1>3 DEF Need, StartAwaits, StopAwaits
  <2>4. PICK q2 \in 0..2 : q2 = Need(c, r)
    BY NeedRange
  <2>5. n = 1 + q2
    BY <2>3, <2>4
  <2>6. (created + 1) + p + q2 <= 2 * calls + 1
    BY <2>1, <2>2, <2>4, <2>5
  <2>. QED BY <1>1, <1>8, <2>1, <2>4, <2>6
<1>14. Serial => (OnlyTracked /\ ValidOwned /\ Stands(c))'
  BY <1>3, <1>5, <1>7, <1>8, <1>9, <1>10
     DEF Quiet, OnlyTracked, ValidOwned, Stands, Alive, StartAwaits
<1>15. StopOwned'
  BY <1>5, <1>8 DEF StopOwned
<1>16. IInv'
  BY <1>9, <1>11, <1>12, <1>13, <1>14, <1>15, Settle DEF Mid, Alone
<1>. QED BY <1>3, <1>9, <1>16 DEF Honest

(* An answer is honest to a call whatever start() has changed in the       *)
(* record in between.                                                      *)
LEMMA HonestSame ==
  ASSUME NEW c \in Callers, NEW k, NEW l, Honest(c, l), l.asked = k.asked, l.prior = k.prior
  PROVE  Honest(c, k)
BY DEF Honest

(* Only an InitHpIo restores, and then it has one generation to create.    *)
LEMMA RestoringFacts ==
  ASSUME NEW c \in Callers, NEW k \in CallSet, CanRestore(k), Suits(c, k), c # Closer
  PROVE  \E l \in CallSet : /\ l = Restoring(k) /\ Suits(c, l) /\ Owed(c, l) = 1
                            /\ l.asked = k.asked /\ l.prior = k.prior /\ l.retry
                            /\ l.after = "create" /\ c \in Writers /\ ~k.retry
<1>1. PICK l \in CallSet : l = Restoring(k)
  BY DEF Restoring, CallSet
<1>2. /\ l.cfg = k.prior /\ l.retry = TRUE /\ l.after = "create"
      /\ l.asked = k.asked /\ l.prior = k.prior
  BY <1>1 DEF Restoring, CallSet
<1>3. c \in Writers /\ ~k.retry
  BY DEF CanRestore, Suits, Callers
<1>4. Suits(c, l)
  BY <1>2, <1>3, Numbers DEF Suits
<1>5. Owed(c, l) = 1
  BY <1>2 DEF Owed
<1>. QED BY <1>1, <1>2, <1>3, <1>4, <1>5

(* A start() that has stopped everything answers failure, or restores;     *)
(* either way nothing is valid.                                            *)
LEMMA StartFailedKeeps ==
  ASSUME IInv, Same, NEW c \in Callers, NEW k \in CallSet, NEW m \in MgrSet,
         Mid(c, k, m, Owed(c, k)), Quiet, m.task = 0, ~m.stop, ~m.valid, k.after = "fail",
         StartFailed(c, k, m)
  PROVE  IInv' /\ Honest(c, k)
<1>1. PICK n \in Nat : n = Owed(c, k)
  BY NeedRange
<1>2. c # Closer /\ Suits(c, k)
  BY DEF Mid, Suits
<1>3. CASE ~CanRestore(k)
  <2>1. Finish(c, m, "failure")
    BY <1>3 DEF StartFailed
  <2>2. /\ IInv' /\ mgr' = m /\ runs' = runs /\ call'[c].answer = "failure"
    BY <1>1, <2>1, FinishKeeps DEF Answers
  <2>. QED BY <2>2 DEF Honest, IsValid
<1>4. CASE CanRestore(k)
  <2>1. PICK l \in CallSet : /\ l = Restoring(k) /\ Suits(c, l) /\ Owed(c, l) = 1
                            /\ l.asked = k.asked /\ l.prior = k.prior /\ l.retry
                            /\ l.after = "create" /\ c \in Writers /\ ~k.retry
    BY <1>2, <1>4, RestoringFacts
  <2>2. Owed(c, k) = 1
    BY <1>2, <2>1, Numbers DEF Owed
  <2>3. Mid(c, l, m, 1)
    BY <2>1, <2>2 DEF Mid
  <2>4. CASE m.sim = "running"
    <3>1. Suspend(c, l, "stopSim", m)
      BY <1>4, <2>1, <2>4 DEF StartFailed
    <3>2. PICK r \in CallSet : r = [l EXCEPT !.at = "stopSim"]
      <4>1. "stopSim" \in CallStates
        BY DEF CallStates, StopAwaits
      <4>. QED BY <4>1 DEF CallSet
    <3>3. /\ r.at = "stopSim" /\ r.after = l.after /\ r.retry = l.retry /\ r.cfg = l.cfg
          /\ r.asked = l.asked /\ r.prior = l.prior
      BY <3>2 DEF CallSet
    <3>4. Fits(c, r)
      BY <2>1, <3>3 DEF Fits, Suits, StartAwaits
    <3>5. Need(c, r) = 1
      BY <2>1, <3>3 DEF Need, Owed, StopAwaits
    <3>6. "stopSim" \in CallStates /\ "stopSim" \notin StartAwaits
      BY DEF CallStates, StartAwaits, StopAwaits
    <3>7. Need(c, r) <= 1
      BY <3>5
    <3>8. IInv' /\ Honest(c, l)
      BY <2>3, <3>1, <3>2, <3>4, <3>6, <3>7, SuspendKeeps
    <3>. QED BY <2>1, <3>8, HonestSame
  <2>5. CASE m.sim # "running"
    <3>1. Launch(c, l, m)
      BY <1>4, <2>1, <2>5 DEF StartFailed
    <3>2. IInv' /\ Honest(c, l)
      BY <1>2, <2>1, <2>3, <3>1, LaunchKeeps
    <3>. QED BY <2>1, <3>2, HonestSame
  <2>. QED BY <2>4, <2>5
<1>. QED BY <1>3, <1>4

(* What follows a stop() that left nothing running keeps the invariant.    *)
LEMMA AfterStopKeeps ==
  ASSUME IInv, Same, NEW c \in Callers, NEW k \in CallSet, NEW m \in MgrSet,
         Mid(c, k, m, Owed(c, k)), Quiet, AfterStop(c, k, m)
  PROVE  IInv' /\ Honest(c, k)
<1>1. PICK f \in MgrSet : f = Forget(m)
  BY DEF MgrSet, Forget
<1>2. f.task = 0 /\ ~f.valid /\ ~f.stop
  BY <1>1 DEF MgrSet, Forget
<1>3. Mid(c, k, f, Owed(c, k))
  BY <1>2 DEF Mid, Alone, Stopping, Quiet
<1>4. PICK n \in Nat : n = Owed(c, k)
  BY NeedRange
<1>5. k.after \in {"create", "fail", "close"}
  BY DEF CallSet
<1>6. CASE k.after = "create"
  <2>1. Launch(c, k, f)
    BY <1>1, <1>6 DEF AfterStop
  <2>2. c # Closer
    BY <1>3, <1>6 DEF Mid, Suits
  <2>3. n = 1 + (IF k.retry \/ c = Boot THEN 0 ELSE 1)
    BY <1>4, <1>6 DEF Owed
  <2>. QED BY <1>2, <1>3, <1>4, <2>1, <2>2, <2>3, LaunchKeeps
<1>7. CASE k.after = "fail"
  <2>1. StartFailed(c, k, f)
    BY <1>1, <1>7 DEF AfterStop
  <2>. QED BY <1>2, <1>3, <1>7, <2>1, StartFailedKeeps
<1>8. CASE k.after = "close"
  <2>1. Suspend(c, k, "stopped", f)
    BY <1>1, <1>8 DEF AfterStop
  <2>2. PICK r \in CallSet : r = [k EXCEPT !.at = "stopped"]
    BY DEF CallSet, CallStates
  <2>3. r.at = "stopped"
    BY <2>2 DEF CallSet
  <2>4. Fits(c, r) /\ Need(c, r) = 0
    BY <2>3 DEF Fits, BusyAt, StartAwaits, StopAwaits, Need
  <2>5. "stopped" \in CallStates /\ "stopped" \notin StartAwaits
    BY DEF CallStates, StartAwaits
  <2>6. Mid(c, k, f, n)
    BY <1>3, <1>4
  <2>7. Need(c, r) <= n
    BY <2>4
  <2>. QED BY <2>1, <2>2, <2>4, <2>5, <2>6, <2>7, SuspendKeeps
<1>. QED BY <1>5, <1>6, <1>7, <1>8

(* The clean-up of the strategy keeps the invariant, once nothing runs.    *)
LEMMA StopCleanKeeps ==
  ASSUME IInv, Same, NEW c \in Callers, NEW k \in CallSet, NEW m \in MgrSet,
         Mid(c, k, m, Owed(c, k)), Quiet, StopClean(c, k, m)
  PROVE  IInv' /\ Honest(c, k)
<1>1. CASE m.strategy
  <2>1. Suspend(c, k, "stopClean", m)
    BY <1>1 DEF StopClean
  <2>2. PICK n \in Nat : n = Owed(c, k)
    BY NeedRange
  <2>3. PICK r \in CallSet : r = [k EXCEPT !.at = "stopClean"]
    BY DEF CallSet, CallStates, StopAwaits
  <2>4. /\ r.at = "stopClean" /\ r.after = k.after /\ r.retry = k.retry /\ r.cfg = k.cfg
        /\ r.asked = k.asked /\ r.prior = k.prior
    BY <2>3 DEF CallSet
  <2>5. Fits(c, r) /\ Need(c, r) = n
    BY <2>2, <2>4 DEF Fits, Suits, BusyAt, StartAwaits, StopAwaits, Need, Owed, Mid
  <2>6. "stopClean" \in CallStates /\ "stopClean" \notin StartAwaits
    BY DEF CallStates, StartAwaits, StopAwaits
  <2>7. Mid(c, k, m, n) /\ Need(c, r) <= n
    BY <2>2, <2>5
  <2>. QED BY <2>1, <2>3, <2>5, <2>6, <2>7, SuspendKeeps DEF Quiet
<1>2. CASE ~m.strategy
  BY <1>2, AfterStopKeeps DEF StopClean
<1>. QED BY <1>1, <1>2

(* Where stop() looks at the tracked task: it sets the event and waits for *)
(* it, or nothing runs.                                                    *)
LEMMA StopTaskKeeps ==
  ASSUME IInv, Same, NEW c \in Callers, NEW k \in CallSet, NEW m \in MgrSet,
         Mid(c, k, m, Owed(c, k)), StopTask(c, k, m)
  PROVE  IInv' /\ Honest(c, k)
<1>1. CASE ~(m.task # 0 /\ Alive(m.task))
  <2>1. Quiet
    BY <1>1, Numbers DEF Quiet, Mid, Alone
  <2>. QED BY <1>1, <2>1, StopCleanKeeps DEF StopTask
<1>2. CASE m.task # 0 /\ Alive(m.task)
  <2>1. PICK t \in Gens : t = m.task
    BY <1>2 DEF MgrSet
  <2>2. PICK n \in Nat : n = Owed(c, k)
    BY NeedRange
  <2>3. PICK r \in CallSet : r = [k EXCEPT !.at = "stopTask", !.gen = t]
    BY DEF CallSet, CallStates, StopAwaits
  <2>4. /\ r.at = "stopTask" /\ r.after = k.after /\ r.retry = k.retry /\ r.cfg = k.cfg
        /\ r.asked = k.asked /\ r.prior = k.prior /\ r.gen = t
    BY <2>3 DEF CallSet
  <2>5. PICK m2 \in MgrSet : m2 = [m EXCEPT !.stop = TRUE]
    BY DEF MgrSet
  <2>6. m2.task = t /\ m2.valid = m.valid
    BY <2>1, <2>5 DEF MgrSet
  <2>7. /\ call' = [call EXCEPT ![c] = r] /\ mgr' = m2 /\ created' = created
        /\ runs' = [g \in Gens |-> [runs[g] EXCEPT !.told = runs[g].told \/ runs[g].at = "up"]]
        /\ calls' = calls /\ setting' = setting
    BY <1>2, <2>1, <2>3, <2>5 DEF StopTask, Same
  <2>8. /\ call' \in [Callers -> CallSet] /\ call'[c] = r /\ OthersStay(c)
        /\ \A d \in Callers \ {c} : call'[d] = call[d]
    BY <2>7, MoveOne
  <2>9. ASSUME NEW g \in Gens PROVE runs'[g] \in RunSet /\ runs'[g].at = runs[g].at
    <3>1. PICK q \in RunSet : q = runs[g]
      BY Facts
    <3>2. runs'[g] = [q EXCEPT !.told = q.told \/ q.at = "up"]
      BY <2>7, <3>1
    <3>3. [q EXCEPT !.told = q.told \/ q.at = "up"] \in RunSet
      BY DEF RunSet
    <3>4. [q EXCEPT !.told = q.told \/ q.at = "up"].at = q.at
      BY DEF RunSet
    <3>. QED BY <3>1, <3>2, <3>3, <3>4
  <2>10. Typed
    <3>1. runs' \in [Gens -> RunSet]
      BY <2>7, <2>9
    <3>. QED BY <2>7, <2>8, <3>1, Facts DEF Typed
  <2>11. Fits(c, r) /\ Need(c, r) = n
    BY <2>2, <2>4 DEF Fits, Suits, BusyAt, StartAwaits, StopAwaits, Need, Owed, Mid
  <2>12. created' + Cardinality(Others(c)) + Need(c, r) <= 2 * calls' + 1
    BY <2>2, <2>7, <2>11 DEF Mid
  <2>13. Serial => (OnlyTracked /\ ValidOwned /\ Stands(c))'
    <3>1. mgr'.task = t /\ mgr'.valid = m.valid /\ m.task = t /\ \A g \in Gens : runs'[g].at = runs[g].at
      BY <2>1, <2>6, <2>7, <2>9
    <3>2. Serial => (OnlyTracked /\ ValidOwned)'
      BY <2>1, <3>1 DEF Mid, Alone, OnlyTracked, ValidOwned, Alive
    <3>3. Stands(c)'
      BY <2>4, <2>8, <3>1 DEF Stands, StartAwaits
    <3>. QED BY <3>2, <3>3
  <2>14. StopOwned'
    BY <2>4, <2>6, <2>7, <2>8 DEF StopOwned
  <2>15. IInv'
    BY <2>8, <2>10, <2>11, <2>12, <2>13, <2>14, Settle DEF Mid, Alone
  <2>. QED BY <2>4, <2>8, <2>15 DEF Honest
<1>. QED BY <1>1, <1>2

(* stop() keeps the invariant up to its first await, or to its end.        *)
LEMMA StopKeeps ==
  ASSUME IInv, Same, NEW c \in Callers, NEW k \in CallSet, NEW m \in MgrSet,
         Mid(c, k, m, Owed(c, k)), Stop(c, k, m)
  PROVE  IInv' /\ Honest(c, k)
<1>1. CASE m.sim = "running"
  <2>1. Suspend(c, k, "stopSim", m)
    BY <1>1 DEF Stop
  <2>2. PICK n \in Nat : n = Owed(c, k)
    BY NeedRange
  <2>3. PICK r \in CallSet : r = [k EXCEPT !.at = "stopSim"]
    BY DEF CallSet, CallStates, StopAwaits
  <2>4. /\ r.at = "stopSim" /\ r.after = k.after /\ r.retry = k.retry /\ r.cfg = k.cfg
        /\ r.asked = k.asked /\ r.prior = k.prior
    BY <2>3 DEF CallSet
  <2>5. Fits(c, r) /\ Need(c, r) = n
    BY <2>2, <2>4 DEF Fits, Suits, BusyAt, StartAwaits, StopAwaits, Need, Owed, Mid
  <2>6. "stopSim" \in CallStates /\ "stopSim" \notin StartAwaits
    BY DEF CallStates, StartAwaits, StopAwaits
  <2>7. Mid(c, k, m, n) /\ Need(c, r) <= n
    BY <2>2, <2>5
  <2>. QED BY <2>1, <2>3, <2>5, <2>6, <2>7, SuspendKeeps
<1>2. CASE m.sim # "running"
  BY <1>2, StopTaskKeeps DEF Stop
<1>. QED BY <1>1, <1>2

(* A caller that resumes: what the invariant says of it.                   *)
LEMMA MidBusy ==
  ASSUME IInv, NEW c \in Callers, Busy(c),
         call[c].at = "stopTask" => ~Alive(call[c].gen),
         NEW m \in MgrSet, m.task = mgr.task, m.valid = mgr.valid, m.stop = mgr.stop
  PROVE  Mid(c, call[c], m, Need(c, call[c]))
<1>1. Suits(c, call[c])
  BY Facts DEF Fits, Busy, BusyAt
<1>2. created + Cardinality(Others(c)) + Need(c, call[c]) <= 2 * calls + 1
  BY BudgetOf
<1>3. Alone(c, m)
  BY Facts DEF Alone, Apart, OnlyTracked, ValidOwned
<1>4. Stopping(c, m)
  <2>1. StopOwned
    BY Facts
  <2>. QED BY <2>1 DEF Stopping, StopOwned
<1>5. PICK k : k = call[c]
  OBVIOUS
<1>6. PICK n \in Nat : n = Need(c, k)
  BY NeedRange
<1>7. Mid(c, k, m, n)
  <2>1. Suits(c, k)
    BY <1>1, <1>5
  <2>2. created + Cardinality(Others(c)) + n <= 2 * calls + 1
    BY <1>2, <1>5, <1>6
  <2>. QED BY <2>1, <2>2, <1>3, <1>4 DEF Mid
<1>. QED BY <1>5, <1>6, <1>7

(* A caller that enters start() or stop().                                 *)
LEMMA MidEnter ==
  ASSUME IInv, NEW c \in Callers, MayEnter, ~Busy(c), NEW k, Suits(c, k),
         Owed(c, k) = Need(c, call[c])
  PROVE  Mid(c, k, mgr, Owed(c, k))
<1>1. created + Cardinality(Others(c)) + Need(c, call[c]) <= 2 * calls + 1
  BY BudgetOf
<1>2. Alone(c, mgr)
  BY Facts DEF Alone, MayEnter, Apart, OnlyTracked, ValidOwned
<1>3. Stopping(c, mgr)
  <2>1. StopOwned
    BY Facts
  <2>2. call[c].at # "stopTask"
    BY DEF Busy, StopAwaits
  <2>. QED BY <2>1, <2>2 DEF Stopping, StopOwned
<1>4. PICK n \in Nat : n = Owed(c, k)
  BY NeedRange
<1>5. Mid(c, k, mgr, n)
  BY <1>1, <1>2, <1>3, <1>4 DEF Mid
<1>. QED BY <1>4, <1>5

(* The last line of start() keeps the invariant, and its answer is honest: *)
(* what is valid is the tracked task, started with the configuration of    *)
(* this very call.                                                         *)
LEMMA ReturnKeeps ==
  ASSUME IInv, Same, NEW c \in Callers, call[c].at \in StartAwaits, ReturnIsValid(c)
  PROVE  IInv' /\ Honest(c, call[c])
<1>1. PICK k \in CallSet : k = call[c]
  BY Facts
<1>2. Busy(c) /\ call[c].at # "stopTask" /\ Fits(c, k) /\ Suits(c, k) /\ c # Closer
      /\ mgr \in MgrSet
  BY <1>1, Facts DEF Busy, StartAwaits, Fits, BusyAt
<1>3. Mid(c, k, mgr, Need(c, k))
  BY <1>1, <1>2, MidBusy
<1>4. CASE ~IsValid /\ CanRestore(k)
  <2>1. Stop(c, Restoring(k), mgr)
    BY <1>1, <1>4 DEF ReturnIsValid
  <2>2. PICK l \in CallSet : /\ l = Restoring(k) /\ Suits(c, l) /\ Owed(c, l) = 1
                            /\ l.asked = k.asked /\ l.prior = k.prior /\ l.retry
                            /\ l.after = "create" /\ c \in Writers /\ ~k.retry
    BY <1>2, <1>4, RestoringFacts
  <2>3. Need(c, k) = 1
    BY <1>1, <2>2, Numbers DEF Need, StartAwaits, StopAwaits
  <2>4. Mid(c, l, mgr, Owed(c, l))
    BY <1>3, <2>2, <2>3 DEF Mid
  <2>5. IInv' /\ Honest(c, l)
    BY <1>2, <2>1, <2>2, <2>4, StopKeeps
  <2>. QED BY <1>1, <2>2, <2>5, HonestSame
<1>5. CASE ~(~IsValid /\ CanRestore(k))
  <2>1. PICK answer \in Answers : answer = IF IsValid /\ ~k.retry THEN "success" ELSE "failure"
    BY DEF Answers
  <2>2. Finish(c, mgr, answer)
    BY <1>1, <1>5, <2>1 DEF ReturnIsValid
  <2>3. PICK n \in Nat : n = Need(c, k)
    BY NeedRange
  <2>4. /\ IInv' /\ mgr' = mgr /\ runs' = runs /\ call'[c].answer = answer
    BY <1>2, <1>3, <2>2, <2>3, FinishKeeps
  <2>5. IsValid' <=> IsValid
    BY <2>4 DEF IsValid, Alive
  <2>6. Serial => Stands(c)
    BY Facts DEF Apart
  <2>7. Serial /\ IsValid => runs[mgr.task].cfg = k.cfg
    BY <1>1, <2>6 DEF Stands, IsValid
  <2>8. c \in Writers => k.cfg = IF k.retry THEN k.prior ELSE k.asked
    BY <1>2 DEF Suits
  <2>. QED BY <1>1, <2>1, <2>4, <2>5, <2>7, <2>8 DEF Honest
<1>. QED BY <1>4, <1>5

(* start() goes on to its next await.                                      *)
LEMMA GoOnKeeps ==
  ASSUME IInv, Same, NEW c \in Callers, call[c].at \in StartAwaits, NEW where \in StartAwaits,
         NEW m \in MgrSet, m.task = mgr.task, m.valid = mgr.valid, m.stop = mgr.stop,
         Suspend(c, call[c], where, m)
  PROVE  IInv' /\ Honest(c, call[c])
<1>1. PICK k \in CallSet : k = call[c]
  BY Facts
<1>2. Busy(c) /\ call[c].at # "stopTask" /\ Fits(c, k)
  BY <1>1, Facts DEF Busy, StartAwaits
<1>3. PICK n \in Nat : n = Need(c, k)
  BY NeedRange
<1>4. Mid(c, k, m, n)
  BY <1>1, <1>2, <1>3, MidBusy
<1>5. where \in CallStates /\ where # "stopTask" /\ where # "idle" /\ where # "stopClean"
  BY DEF CallStates, StartAwaits
<1>6. PICK r \in CallSet : r = [k EXCEPT !.at = where]
  BY <1>5 DEF CallSet
<1>7. /\ r.at = where /\ r.after = k.after /\ r.retry = k.retry /\ r.cfg = k.cfg
      /\ r.asked = k.asked /\ r.prior = k.prior /\ r.gen = k.gen
  BY <1>6 DEF CallSet
<1>8. Fits(c, r) /\ Need(c, r) <= n
  <2>1. Need(c, r) = Need(c, k)
    BY <1>1, <1>7 DEF Need, StartAwaits, StopAwaits
  <2>2. Fits(c, r)
    BY <1>1, <1>2, <1>7 DEF Fits, Suits, BusyAt, StartAwaits, StopAwaits
  <2>. QED BY <1>3, <2>1, <2>2
<1>9. Serial => k.gen = m.task /\ (Alive(m.task) => runs[m.task].cfg = k.cfg)
  <2>1. Serial => Stands(c)
    BY Facts DEF Apart
  <2>. QED BY <1>1, <2>1 DEF Stands
<1>. QED BY <1>1, <1>4, <1>5, <1>6, <1>8, <1>9, SuspendKeeps

(* The stop() of a start() that fails keeps the invariant.                 *)
LEMMA StopAndFailKeeps ==
  ASSUME IInv, Same, NEW c \in Callers, call[c].at \in StartAwaits,
         NEW m \in MgrSet, m.task = mgr.task, m.valid = mgr.valid, m.stop = mgr.stop,
         StopAndFail(c, m)
  PROVE  IInv' /\ Honest(c, call[c])
<1>1. PICK k \in CallSet : k = call[c]
  BY Facts
<1>2. Busy(c) /\ call[c].at # "stopTask" /\ Fits(c, k) /\ c # Closer
  BY <1>1, Facts DEF Busy, StartAwaits, Fits
<1>3. Mid(c, k, m, Need(c, k))
  BY <1>1, <1>2, MidBusy
<1>4. PICK l \in CallSet : l = [k EXCEPT !.after = "fail"]
  BY DEF CallSet
<1>5. /\ l.after = "fail" /\ l.retry = k.retry /\ l.cfg = k.cfg
      /\ l.asked = k.asked /\ l.prior = k.prior
  BY <1>4 DEF CallSet
<1>6. Owed(c, l) = Need(c, k)
  BY <1>1, <1>5 DEF Need, Owed, StartAwaits, StopAwaits
<1>7. Suits(c, l)
  BY <1>2, <1>3, <1>5 DEF Mid, Suits
<1>8. Mid(c, l, m, Owed(c, l))
  BY <1>3, <1>6, <1>7 DEF Mid
<1>9. Stop(c, l, m)
  BY <1>1, <1>4 DEF StopAndFail
<1>10. IInv' /\ Honest(c, l)
  BY <1>8, <1>9, StopKeeps
<1>. QED BY <1>1, <1>5, <1>10, HonestSame

-----------------------------------------------------------------------------
(* What AnswersTrue says of one step.                                      *)
Truthful ==
  \A w \in Writers :
    Serial /\ Busy(w) /\ call'[w].at = "idle" =>
      /\ call'[w].answer = "success" => IsValid' /\ runs'[mgr'.task].cfg = call[w].asked
      /\ call'[w].answer = "failure" /\ IsValid' => runs'[mgr'.task].cfg = call[w].prior

(* Only the record of c changes.                                           *)
Mine(c) == \E r : call' = [call EXCEPT ![c] = r]

(* stop() and what follows it change the record of their own caller only.  *)
LEMMA StopIsMine ==
  ASSUME NEW c \in Callers
  PROVE  \A k, m : Stop(c, k, m) \/ StopTask(c, k, m) \/ StopClean(c, k, m) \/ AfterStop(c, k, m)
                   => (k.after \in {"create", "fail", "close"} => Mine(c))
<1>1. ASSUME NEW k, NEW m, NEW where, Suspend(c, k, where, m) PROVE Mine(c)
  BY <1>1 DEF Suspend, Mine
<1>2. ASSUME NEW k, NEW m, Launch(c, k, m) PROVE Mine(c)
  BY <1>2 DEF Launch, Mine
<1>3. ASSUME NEW m, NEW answer, Finish(c, m, answer) PROVE Mine(c)
  BY <1>3 DEF Finish, Mine
<1>4. ASSUME NEW k, NEW m, StartFailed(c, k, m) PROVE Mine(c)
  BY <1>1, <1>2, <1>3, <1>4 DEF StartFailed
<1>5. ASSUME NEW k, NEW m, AfterStop(c, k, m), k.after \in {"create", "fail", "close"} PROVE Mine(c)
  <2>1. CASE k.after = "create"
    BY <1>2, <1>5, <2>1 DEF AfterStop
  <2>2. CASE k.after = "fail"
    BY <1>4, <1>5, <2>2 DEF AfterStop
  <2>3. CASE k.after = "close"
    BY <1>1, <1>5, <2>3 DEF AfterStop
  <2>. QED BY <1>5, <2>1, <2>2, <2>3
<1>6. ASSUME NEW k, NEW m, StopClean(c, k, m), k.after \in {"create", "fail", "close"} PROVE Mine(c)
  BY <1>1, <1>5, <1>6 DEF StopClean
<1>7. ASSUME NEW k, NEW m, StopTask(c, k, m), k.after \in {"create", "fail", "close"} PROVE Mine(c)
  <2>1. CASE m.task # 0 /\ Alive(m.task)
    BY <1>7, <2>1 DEF StopTask, Mine
  <2>. QED BY <1>6, <1>7, <2>1 DEF StopTask
<1>8. ASSUME NEW k, NEW m, Stop(c, k, m), k.after \in {"create", "fail", "close"} PROVE Mine(c)
  BY <1>1, <1>7, <1>8 DEF Stop
<1>. QED BY <1>5, <1>6, <1>7, <1>8

(* When only c moves, the step is truthful if the answer c gets is honest. *)
LEMMA TruthfulOne ==
  ASSUME IInv, NEW c \in Callers, Mine(c), Busy(c) => Honest(c, call[c])
  PROVE  Truthful
<1>. SUFFICES ASSUME NEW w \in Writers, Serial, Busy(w), call'[w].at = "idle"
     PROVE  /\ call'[w].answer = "success" => IsValid' /\ runs'[mgr'.task].cfg = call[w].asked
            /\ call'[w].answer = "failure" /\ IsValid' => runs'[mgr'.task].cfg = call[w].prior
  BY DEF Truthful
<1>1. CASE w = c
  BY <1>1 DEF Honest
<1>2. CASE w # c
  <2>1. w \in Callers /\ call \in [Callers -> CallSet]
    BY Numbers, Facts
  <2>2. call'[w] = call[w]
    BY <1>2, <2>1 DEF Mine
  <2>. QED BY <2>2 DEF Busy, StopAwaits, StartAwaits
<1>. QED BY <1>1, <1>2

(* A step that answers nobody, but with an error, is truthful.             *)
LEMMA TruthfulNone ==
  ASSUME IInv, call' \in [Callers -> CallSet],
         \A w \in Writers : Busy(w) => call'[w].at # "idle" \/ call'[w].answer = "error"
  PROVE  Truthful
BY DEF Truthful

(* The runs and the manager's state go on by themselves.                   *)
LEMMA NobodyMoves ==
  ASSUME IInv, Same, created' = created,
         mgr' \in MgrSet, runs' \in [Gens -> RunSet], call' \in [Callers -> CallSet],
         \A d \in Callers : Alike(call[d], call'[d]),
         Fade, mgr'.task = mgr.task, mgr'.stop = mgr.stop, Serial => ValidOwned',
         \A d \in Callers : call[d].at = "stopTask" => call'[d].at = "stopTask"
  PROVE  IInv' /\ Truthful
<1>1. Typed
  BY Facts DEF Typed, Same
<1>2. PICK k \in CallSet : k = call[Boot] /\ Fits(Boot, k)
  BY Facts, Numbers
<1>3. PICK r \in CallSet : r = call'[Boot]
  BY Numbers
<1>4. Alike(k, r)
  BY <1>2, <1>3, Numbers
<1>5. Fits(Boot, r) /\ Need(Boot, r) = Need(Boot, k) /\ (BusyAt(r) => r.at = k.at /\ BusyAt(k))
  BY <1>2, <1>4, AlikeFits, Numbers
<1>6. BusyAt(r) => Busy(Boot)
  BY <1>2, <1>5 DEF Busy, BusyAt
<1>7. created' + Cardinality(Others(Boot)) + Need(Boot, r) <= 2 * calls' + 1
  BY <1>2, <1>5, BudgetOf, Numbers DEF Same
<1>8. Serial => (OnlyTracked /\ ValidOwned /\ Stands(Boot))'
  <2>. SUFFICES ASSUME Serial PROVE OnlyTracked' /\ Stands(Boot)'
    OBVIOUS
  <2>1. OnlyTracked /\ Stands(Boot)
    BY Facts, Numbers DEF Apart
  <2>2. OnlyTracked'
    BY <2>1 DEF OnlyTracked, Fade
  <2>3. CASE ~BusyAt(r)
    BY <1>3, <2>2, <2>3 DEF Stands, BusyAt, StartAwaits, StopAwaits
  <2>4. CASE BusyAt(r)
    <3>1. r.at = k.at /\ r.gen = k.gen /\ r.cfg = k.cfg
      BY <1>4, <1>5, <2>4 DEF Alike
    <3>2. mgr.task \in {0} \cup Gens
      BY Facts DEF MgrSet
    <3>3. k.at \in StartAwaits => k.gen \in Gens
      BY <1>2 DEF Fits
    <3>. QED BY <1>2, <1>3, <2>1, <2>2, <3>1, <3>2, <3>3 DEF Stands, Fade
  <2>. QED BY <2>3, <2>4
<1>9. StopOwned'
  <2>1. StopOwned
    BY Facts
  <2>2. ASSUME NEW d \in Callers PROVE call'[d].gen = call[d].gen
    BY DEF Alike
  <2>3. PICK t \in {0} \cup Gens : t = mgr.task
    BY Facts DEF MgrSet
  <2>4. t # 0 => (Alive(t)' => Alive(t))
    BY DEF Fade
  <2>. QED BY <2>1, <2>2, <2>3, <2>4 DEF StopOwned, Alive
<1>10. OthersStay(Boot)
  BY DEF OthersStay
<1>11. IInv'
  BY <1>1, <1>3, <1>5, <1>6, <1>7, <1>8, <1>9, <1>10, Numbers, Settle
<1>12. Truthful
  <2>1. ASSUME NEW w \in Writers, Busy(w) PROVE call'[w].at # "idle"
    <3>1. PICK x \in CallSet : x = call[w]
      BY Facts, Numbers
    <3>2. PICK y \in CallSet : y = call'[w]
      BY Numbers
    <3>3. Alike(x, y)
      BY <3>1, <3>2, Numbers
    <3>4. x.at # "idle"
      BY <2>1, <3>1 DEF Busy, StopAwaits, StartAwaits
    <3>. QED BY <3>2, <3>3, <3>4, AlikeFits, Numbers
  <2>. QED BY <2>1, TruthfulNone
<1>. QED BY <1>11, <1>12

(* A step of the simulation's set-up task starts and ends no run.          *)
LEMMA SetSetup ==
  ASSUME IInv, NEW g \in Gens, NEW x \in SetupStates, runs' = [runs EXCEPT ![g].setup = x]
  PROVE  /\ runs' \in [Gens -> RunSet] /\ Fade
         /\ \A h \in Gens : runs'[h].at = runs[h].at
<1>1. runs \in [Gens -> RunSet]
  BY Facts
<1>2. PICK q \in RunSet : q = runs[g]
  BY <1>1
<1>3. PICK p \in RunSet : p = [q EXCEPT !.setup = x]
  BY DEF RunSet
<1>4. p.at = q.at /\ p.cfg = q.cfg
  BY <1>3 DEF RunSet
<1>5. runs' = [runs EXCEPT ![g] = p]
  BY <1>1, <1>2, <1>3
<1>6. \A h \in Gens : runs'[h].at = runs[h].at /\ runs'[h].cfg = runs[h].cfg
  BY <1>1, <1>2, <1>4, <1>5
<1>7. runs' \in [Gens -> RunSet]
  BY <1>1, <1>5
<1>. QED BY <1>6, <1>7 DEF Fade, Alive

(* A run that is cancelled or fails closes, and no run comes to life.      *)
LEMMA SetClosing ==
  ASSUME IInv, NEW g \in Gens, runs[g].at \in {"waiting", "up", "new"},
         runs' = [runs EXCEPT ![g].at = "closing"]
  PROVE  /\ runs' \in [Gens -> RunSet] /\ Fade
         /\ \A h \in Gens : runs'[h].at = runs[h].at \/ runs'[h].at = "closing"
<1>1. runs \in [Gens -> RunSet]
  BY Facts
<1>2. PICK q \in RunSet : q = runs[g]
  BY <1>1
<1>3. PICK p \in RunSet : p = [q EXCEPT !.at = "closing"]
  BY DEF RunSet, RunStates
<1>4. p.at = "closing" /\ p.cfg = q.cfg
  BY <1>3 DEF RunSet
<1>5. runs' = [runs EXCEPT ![g] = p]
  BY <1>1, <1>2, <1>3
<1>6. runs' \in [Gens -> RunSet] /\ runs'[g] = p /\ \A h \in Gens \ {g} : runs'[h] = runs[h]
  BY <1>1, <1>5
<1>7. ASSUME NEW h \in Gens PROVE runs'[h].at = runs[h].at \/ (h = g /\ runs'[h].at = "closing")
  <2>1. CASE h = g
    BY <1>4, <1>6, <2>1
  <2>2. CASE h # g
    BY <1>6, <2>2
  <2>. QED BY <2>1, <2>2
<1>8. \A h \in Gens : runs'[h].cfg = runs[h].cfg
  BY <1>2, <1>4, <1>6
<1>. QED BY <1>6, <1>7, <1>8 DEF Fade, Alive

(* The valid event stays the tracked task's while no run begins or ends.   *)
LEMMA ValidStays ==
  ASSUME IInv, mgr'.task = mgr.task, mgr'.valid = mgr.valid,
         \A h \in Gens : runs'[h].at = runs[h].at \/ runs'[h].at = "closing"
  PROVE  Serial => ValidOwned'
<1>1. mgr.task \in {0} \cup Gens
  BY Facts DEF MgrSet
<1>2. Serial => ValidOwned
  BY Facts DEF Apart
<1>. QED BY <1>1, <1>2 DEF ValidOwned

(* A caller leaves, or waits where it disturbs nobody.                     *)
LEMMA Leave ==
  ASSUME IInv, Typed, NEW c \in Callers, OthersStay(c), NEW r \in CallSet, call'[c] = r,
         ~BusyAt(r), Fits(c, r), call[c].at # "stopTask",
         \A d \in Callers \ {c} : call[d].at = "stopTask" => call'[d].at = "stopTask",
         created' + Cardinality(Others(c)) + Need(c, r) <= 2 * calls' + 1,
         Fade, \A h \in Gens : runs'[h].at = runs[h].at \/ runs'[h].at = "closing",
         mgr'.task = mgr.task, mgr'.stop = mgr.stop, mgr'.valid = mgr.valid
  PROVE  IInv'
<1>1. Serial => (OnlyTracked /\ ValidOwned /\ Stands(c))'
  <2>1. Serial => OnlyTracked
    BY Facts DEF Apart
  <2>2. Serial => OnlyTracked'
    BY <2>1 DEF OnlyTracked, Fade
  <2>3. Stands(c)'
    BY DEF Stands, BusyAt, StartAwaits, StopAwaits
  <2>. QED BY <2>2, <2>3, ValidStays
<1>2. StopOwned'
  <2>1. StopOwned
    BY Facts
  <2>2. ASSUME NEW d \in Callers \ {c} PROVE call'[d].gen = call[d].gen
    BY DEF OthersStay, Alike
  <2>3. PICK t \in {0} \cup Gens : t = mgr.task
    BY Facts DEF MgrSet
  <2>4. t # 0 => (Alive(t)' => Alive(t))
    BY DEF Fade
  <2>. QED BY <2>1, <2>2, <2>3, <2>4 DEF StopOwned, Alive
<1>. QED BY <1>1, <1>2, Settle

-----------------------------------------------------------------------------
(* One lemma for each kind of step.                                        *)

(* The steps of a caller in stop(): the simulation loop stopped, the task  *)
(* stopped, the strategy cleaned, the run cancelled.                       *)
LEMMA StopStepKeeps ==
  ASSUME IInv, setting' = setting, NEW c \in Callers, StopStep(c)
  PROVE  IInv' /\ Truthful
<1>1. PICK k \in CallSet : k = call[c]
  BY Facts
<1>2. k.after \in {"create", "fail", "close"} /\ mgr \in MgrSet
  BY Facts DEF CallSet
<1>3. ASSUME k.at \in StopAwaits, k.at = "stopTask" => ~Alive(k.gen),
             NEW m \in MgrSet, m.task = mgr.task, m.valid = mgr.valid, m.stop = mgr.stop
      PROVE  Busy(c) /\ Mid(c, k, m, Owed(c, k))
  <2>1. Busy(c)
    BY <1>1, <1>3 DEF Busy
  <2>2. Owed(c, k) = Need(c, k)
    BY <1>3 DEF Need
  <2>. QED BY <1>1, <1>3, <2>1, <2>2, MidBusy
<1>4. CASE SimStopped(c)
  <2>1. PICK m \in MgrSet : m = [mgr EXCEPT !.sim = "none"]
    BY <1>2 DEF MgrSet, SimStates
  <2>2. m.task = mgr.task /\ m.valid = mgr.valid /\ m.stop = mgr.stop
    BY <1>2, <2>1 DEF MgrSet
  <2>3. Same /\ StopTask(c, k, m) /\ k.at = "stopSim"
    BY <1>1, <1>4, <2>1 DEF SimStopped, Same
  <2>4. Mid(c, k, m, Owed(c, k))
    BY <1>3, <2>2, <2>3 DEF StopAwaits
  <2>5. IInv' /\ Honest(c, k)
    BY <2>3, <2>4, StopTaskKeeps
  <2>6. Mine(c)
    BY <1>2, <2>3, StopIsMine
  <2>. QED BY <1>1, <2>5, <2>6, TruthfulOne
<1>5. CASE TaskStopped(c)
  <2>1. Same /\ StopClean(c, k, mgr) /\ k.at = "stopTask" /\ ~Alive(k.gen)
    BY <1>1, <1>5 DEF TaskStopped, Same
  <2>2. Mid(c, k, mgr, Owed(c, k))
    BY <1>2, <1>3, <2>1 DEF StopAwaits
  <2>3. Quiet
    BY <1>1, <2>1, Facts DEF Quiet, Apart, Stands, OnlyTracked
  <2>4. IInv' /\ Honest(c, k)
    BY <1>2, <2>1, <2>2, <2>3, StopCleanKeeps
  <2>5. Mine(c)
    BY <1>2, <2>1, StopIsMine
  <2>. QED BY <1>1, <2>4, <2>5, TruthfulOne
<1>6. CASE StrategyCleaned(c)
  <2>1. PICK m \in MgrSet : m = [mgr EXCEPT !.strategy = FALSE]
    BY <1>2 DEF MgrSet
  <2>2. m.task = mgr.task /\ m.valid = mgr.valid /\ m.stop = mgr.stop
    BY <1>2, <2>1 DEF MgrSet
  <2>3. Same /\ AfterStop(c, k, m) /\ k.at = "stopClean"
    BY <1>1, <1>6, <2>1 DEF StrategyCleaned, Same
  <2>4. Mid(c, k, m, Owed(c, k))
    BY <1>3, <2>2, <2>3 DEF StopAwaits
  <2>5. Quiet
    BY <1>1, <2>3, Facts DEF Quiet, Apart, Stands
  <2>6. IInv' /\ Honest(c, k)
    BY <2>3, <2>4, <2>5, AfterStopKeeps
  <2>7. Mine(c)
    BY <1>2, <2>3, StopIsMine
  <2>. QED BY <1>1, <2>6, <2>7, TruthfulOne
<1>7. CASE CancelRun(c)
  <2>1. PICK g \in Gens : g = k.gen
    BY <1>1, <1>7, Facts DEF CancelRun, Fits
  <2>2. /\ runs[g].at \in {"waiting", "up", "new"}
        /\ runs' = [runs EXCEPT ![g].at = "closing"]
        /\ mgr' = mgr /\ call' = call /\ created' = created /\ Same
    BY <1>1, <1>7, <2>1 DEF CancelRun, Same
  <2>3. /\ runs' \in [Gens -> RunSet] /\ Fade
        /\ \A h \in Gens : runs'[h].at = runs[h].at \/ runs'[h].at = "closing"
    BY <2>2, SetClosing
  <2>4. Serial => ValidOwned'
    BY <2>2, <2>3, ValidStays
  <2>5. \A d \in Callers : Alike(call[d], call'[d])
    BY <2>2 DEF Alike
  <2>. QED BY <2>2, <2>3, <2>4, <2>5, Facts, NobodyMoves
<1>. QED BY <1>4, <1>5, <1>6, <1>7 DEF StopStep

(* The last line of start() changes its own caller's record only.          *)
LEMMA ReturnIsMine ==
  ASSUME IInv, NEW c \in Callers, ReturnIsValid(c)
  PROVE  Mine(c)
<1>1. PICK k \in CallSet : k = call[c]
  BY Facts
<1>2. CASE ~IsValid /\ CanRestore(k)
  <2>1. Stop(c, Restoring(k), mgr)
    BY <1>1, <1>2 DEF ReturnIsValid
  <2>2. PICK l \in CallSet : l = Restoring(k)
    BY DEF Restoring, CallSet
  <2>3. l.after = "create"
    BY <2>2 DEF Restoring, CallSet
  <2>. QED BY <2>1, <2>2, <2>3, StopIsMine
<1>3. CASE ~(~IsValid /\ CanRestore(k))
  BY <1>1, <1>3 DEF ReturnIsValid, Finish, Mine
<1>. QED BY <1>2, <1>3

(* So does a stop() after a failure.                                       *)
LEMMA StopAndFailIsMine ==
  ASSUME IInv, NEW c \in Callers, NEW m, StopAndFail(c, m)
  PROVE  Mine(c)
<1>1. PICK k \in CallSet : k = call[c]
  BY Facts
<1>2. PICK l \in CallSet : l = [k EXCEPT !.after = "fail"]
  BY DEF CallSet
<1>3. l.after = "fail"
  BY <1>2 DEF CallSet
<1>4. Stop(c, l, m)
  BY <1>1, <1>2 DEF StopAndFail
<1>. QED BY <1>3, <1>4, StopIsMine

(* The steps of a caller in start(): the valid event seen or timed out,    *)
(* the products, the set-up, the loop.                                     *)
LEMMA StartStepKeeps ==
  ASSUME IInv, setting' = setting, NEW c \in Writers \cup {Boot}, StartStep(c)
  PROVE  IInv' /\ Truthful
<1>1. c \in Callers /\ mgr \in MgrSet
  BY Numbers, Facts
<1>2. ASSUME Same, call[c].at \in StartAwaits, NEW where \in StartAwaits, NEW m \in MgrSet,
             m.task = mgr.task, m.valid = mgr.valid, m.stop = mgr.stop,
             Suspend(c, call[c], where, m)
      PROVE  IInv' /\ Truthful
  <2>1. Mine(c)
    BY <1>2 DEF Suspend, Mine
  <2>2. IInv' /\ Honest(c, call[c])
    BY <1>1, <1>2, GoOnKeeps
  <2>. QED BY <1>1, <2>1, <2>2, TruthfulOne
<1>3. ASSUME Same, call[c].at \in StartAwaits, ReturnIsValid(c)
      PROVE  IInv' /\ Truthful
  BY <1>1, <1>3, ReturnKeeps, ReturnIsMine, TruthfulOne
<1>4. ASSUME Same, call[c].at \in StartAwaits, NEW m \in MgrSet,
             m.task = mgr.task, m.valid = mgr.valid, m.stop = mgr.stop, StopAndFail(c, m)
      PROVE  IInv' /\ Truthful
  BY <1>1, <1>4, StopAndFailKeeps, StopAndFailIsMine, TruthfulOne
<1>5. ASSUME Same, call[c].at \in StartAwaits, AfterProducts(c)
      PROVE  IInv' /\ Truthful
  <2>1. CASE call[c].cfg \in SimConfigs
    BY <1>1, <1>2, <1>5, <2>1 DEF AfterProducts, StartAwaits
  <2>2. CASE call[c].cfg \notin SimConfigs
    BY <1>3, <1>5, <2>2 DEF AfterProducts
  <2>. QED BY <2>1, <2>2
<1>6. CASE ValidSeen(c)
  <2>1. Same /\ call[c].at \in StartAwaits
    BY <1>6 DEF ValidSeen, Same, StartAwaits
  <2>2. CASE runs[call[c].gen].item
    BY <1>5, <1>6, <2>1, <2>2 DEF ValidSeen
  <2>3. CASE ~runs[call[c].gen].item
    BY <1>1, <1>2, <1>6, <2>1, <2>3 DEF ValidSeen, StartAwaits
  <2>. QED BY <2>2, <2>3
<1>7. CASE ProductsArrive(c)
  BY <1>5, <1>7 DEF ProductsArrive, Same, StartAwaits
<1>8. CASE ValidTimeout(c)
  BY <1>1, <1>4, <1>8 DEF ValidTimeout, Same, StartAwaits
<1>9. CASE SetupEnded(c)
  <2>1. Same /\ call[c].at \in StartAwaits
    BY <1>9 DEF SetupEnded, Same, StartAwaits
  <2>2. CASE Suspend(c, call[c], "waitLoop", [mgr EXCEPT !.sim = "running"])
    <3>1. PICK m \in MgrSet : m = [mgr EXCEPT !.sim = "running"]
      BY <1>1 DEF MgrSet, SimStates
    <3>2. m.task = mgr.task /\ m.valid = mgr.valid /\ m.stop = mgr.stop
      BY <1>1, <3>1 DEF MgrSet
    <3>. QED BY <1>2, <2>1, <2>2, <3>1, <3>2 DEF StartAwaits
  <2>3. CASE Suspend(c, call[c], "cleanSetup", mgr)
    BY <1>1, <1>2, <2>1, <2>3 DEF StartAwaits
  <2>4. CASE StopAndFail(c, mgr)
    BY <1>1, <1>4, <2>1, <2>4
  <2>. QED BY <1>9, <2>2, <2>3, <2>4 DEF SetupEnded
<1>10. CASE SetupCleaned(c)
  <2>1. Same /\ call[c].at \in StartAwaits
    BY <1>10 DEF SetupCleaned, Same, StartAwaits
  <2>2. PICK m \in MgrSet : m = [mgr EXCEPT !.strategy = FALSE]
    BY <1>1 DEF MgrSet
  <2>3. m.task = mgr.task /\ m.valid = mgr.valid /\ m.stop = mgr.stop
    BY <1>1, <2>2 DEF MgrSet
  <2>4. StopAndFail(c, m)
    BY <1>10, <2>2 DEF SetupCleaned
  <2>. QED BY <1>4, <2>1, <2>3, <2>4
<1>11. CASE LoopStarted(c)
  <2>1. Same /\ call[c].at \in StartAwaits
    BY <1>11 DEF LoopStarted, Same, StartAwaits
  <2>2. CASE mgr.sim = "none"
    <3>1. Finish(c, mgr, "error")
      BY <1>11, <2>2 DEF LoopStarted
    <3>2. PICK k \in CallSet : k = call[c]
      BY <1>1, Facts
    <3>3. Busy(c) /\ k.at # "stopTask"
      BY <2>1, <3>2 DEF Busy, StartAwaits
    <3>4. PICK n \in Nat : n = Need(c, k)
      BY NeedRange
    <3>5. Mid(c, k, mgr, n)
      BY <1>1, <3>2, <3>3, <3>4, MidBusy
    <3>6. IInv' /\ call'[c].answer = "error"
      BY <1>1, <2>1, <3>1, <3>5, FinishKeeps DEF Answers
    <3>7. Mine(c)
      BY <3>1 DEF Finish, Mine
    <3>. QED BY <1>1, <3>6, <3>7, TruthfulOne DEF Honest
  <2>3. CASE mgr.sim # "none"
    BY <1>3, <1>11, <2>1, <2>3 DEF LoopStarted
  <2>. QED BY <2>2, <2>3
<1>. QED BY <1>6, <1>7, <1>8, <1>9, <1>10, <1>11 DEF StartStep

(* A step of one run: no other changes and none comes to life.             *)
LEMMA RunChanges ==
  ASSUME IInv, NEW g \in Gens, NEW p \in RunSet, runs' = [runs EXCEPT ![g] = p], Alive(g),
         p.at # "none", p.at = "done" \/ p.cfg = runs[g].cfg
  PROVE  /\ runs' \in [Gens -> RunSet] /\ Fade
         /\ runs'[g] = p /\ \A h \in Gens \ {g} : runs'[h] = runs[h]
<1>1. runs \in [Gens -> RunSet]
  BY Facts
<1>2. runs' \in [Gens -> RunSet] /\ runs'[g] = p /\ \A h \in Gens \ {g} : runs'[h] = runs[h]
  BY <1>1
<1>3. ASSUME NEW h \in Gens, Alive(h)' PROVE Alive(h) /\ runs'[h].cfg = runs[h].cfg
  <2>1. CASE h = g
    BY <1>2, <1>3, <2>1 DEF Alive
  <2>2. CASE h # g
    BY <1>2, <1>3, <2>2 DEF Alive
  <2>. QED BY <2>1, <2>2
<1>. QED BY <1>2, <1>3 DEF Fade

(* A step of a run: it leaves the callers where they are.                  *)
LEMMA RunMoves ==
  ASSUME IInv, Same, created' = created, NEW g \in Gens, Alive(g),
         NEW p \in RunSet, runs' = [runs EXCEPT ![g] = p],
         p.at # "none", p.at = "done" \/ p.cfg = runs[g].cfg,
         NEW m \in MgrSet, mgr' = m, m.task = mgr.task, m.stop = mgr.stop,
         m.valid => p.at = "up" \/ (mgr.valid /\ (p.at = runs[g].at \/ p.at = "closing")),
         call' \in [Callers -> CallSet],
         \A d \in Callers : Alike(call[d], call'[d]) /\ call'[d].at = call[d].at
  PROVE  IInv' /\ Truthful
<1>1. /\ runs' \in [Gens -> RunSet] /\ Fade
      /\ runs'[g] = p /\ \A h \in Gens \ {g} : runs'[h] = runs[h]
  BY RunChanges
<1>2. ASSUME Serial PROVE ValidOwned'
  <2>1. g = mgr.task /\ ValidOwned
    BY <1>2, Facts DEF Apart, OnlyTracked
  <2>2. mgr.task # 0
    BY <2>1, Numbers
  <2>. QED BY <1>1, <2>1, <2>2 DEF ValidOwned
<1>. QED BY <1>1, <1>2, NobodyMoves

(* The steps of run() and of the simulation's set-up.                      *)
LEMMA RunStepKeeps ==
  ASSUME IInv, setting' = setting, NEW g \in Gens, RunStep(g)
  PROVE  IInv' /\ Truthful
<1>1. PICK q \in RunSet : q = runs[g]
  BY Facts
<1>2. mgr \in MgrSet /\ call \in [Callers -> CallSet] /\ runs \in [Gens -> RunSet]
  BY Facts
<1>3. call' = call => /\ call' \in [Callers -> CallSet]
                      /\ \A d \in Callers : Alike(call[d], call'[d]) /\ call'[d].at = call[d].at
  BY <1>2 DEF Alike
<1>4. PICK down \in MgrSet : down = [mgr EXCEPT !.valid = FALSE]
  BY <1>2 DEF MgrSet
<1>5. down.task = mgr.task /\ down.stop = mgr.stop /\ ~down.valid
  BY <1>2, <1>4 DEF MgrSet
<1>6. CASE RunStart(g)
  <2>1. Same /\ created' = created /\ call' = call /\ mgr' = down /\ Alive(g)
    BY <1>4, <1>6 DEF RunStart, Same, Alive
  <2>2. CASE runs' = [runs EXCEPT ![g].at = "waiting", ![g].sources = TRUE, ![g].loop = TRUE]
    <3>1. PICK p \in RunSet : p = [q EXCEPT !.at = "waiting", !.sources = TRUE, !.loop = TRUE]
      BY DEF RunSet, RunStates
    <3>2. p.at = "waiting" /\ p.cfg = q.cfg
      BY <3>1 DEF RunSet
    <3>3. runs' = [runs EXCEPT ![g] = p]
      BY <1>1, <1>2, <2>2, <3>1
    <3>. QED BY <1>1, <1>3, <1>5, <2>1, <3>2, <3>3, RunMoves
  <2>3. CASE runs' = [runs EXCEPT ![g].at = "closing"]
    <3>1. PICK p \in RunSet : p = [q EXCEPT !.at = "closing"]
      BY DEF RunSet, RunStates
    <3>2. p.at = "closing" /\ p.cfg = q.cfg
      BY <3>1 DEF RunSet
    <3>3. runs' = [runs EXCEPT ![g] = p]
      BY <1>1, <1>2, <2>3, <3>1
    <3>. QED BY <1>1, <1>3, <1>5, <2>1, <3>2, <3>3, RunMoves
  <2>. QED BY <1>6, <2>2, <2>3 DEF RunStart
<1>7. CASE RunReady(g)
  <2>1. PICK p \in RunSet : p = [q EXCEPT !.at = "up", !.item = TRUE, !.told = mgr.stop]
    BY <1>2 DEF RunSet, RunStates, MgrSet
  <2>2. p.at = "up" /\ p.cfg = q.cfg
    BY <2>1 DEF RunSet
  <2>3. runs' = [runs EXCEPT ![g] = p]
    BY <1>1, <1>2, <1>7, <2>1 DEF RunReady
  <2>4. PICK m \in MgrSet : m = [mgr EXCEPT !.valid = TRUE]
    BY <1>2 DEF MgrSet
  <2>5. m.task = mgr.task /\ m.stop = mgr.stop
    BY <1>2, <2>4 DEF MgrSet
  <2>6. Same /\ created' = created /\ mgr' = m /\ Alive(g)
        /\ call' = [c \in Callers |->
                     [call[c] EXCEPT !.woken = call[c].woken \/ call[c].at = "waitValid"]]
    BY <1>7, <2>4 DEF RunReady, Same, Alive
  <2>7. ASSUME NEW d \in Callers
        PROVE  /\ call'[d] \in CallSet
               /\ Alike(call[d], call'[d]) /\ call'[d].at = call[d].at
    <3>1. PICK k \in CallSet : k = call[d]
      BY <1>2
    <3>2. PICK b \in BOOLEAN : b = (k.woken \/ k.at = "waitValid")
      OBVIOUS
    <3>3. PICK l \in CallSet : l = [k EXCEPT !.woken = b]
      BY DEF CallSet
    <3>4. call'[d] = l
      BY <2>6, <3>1, <3>2, <3>3
    <3>5. /\ l.at = k.at /\ l.after = k.after /\ l.gen = k.gen /\ l.asked = k.asked
          /\ l.cfg = k.cfg /\ l.prior = k.prior /\ l.retry = k.retry
      BY <3>3 DEF CallSet
    <3>. QED BY <3>1, <3>4, <3>5 DEF Alike
  <2>8. call' \in [Callers -> CallSet]
    BY <2>6, <2>7
  <2>. QED BY <1>1, <2>2, <2>3, <2>5, <2>6, <2>7, <2>8, RunMoves
<1>8. CASE RunFails(g)
  <2>1. PICK p \in RunSet : p = [q EXCEPT !.at = "closing"]
    BY DEF RunSet, RunStates
  <2>2. p.at = "closing" /\ p.cfg = q.cfg
    BY <2>1 DEF RunSet
  <2>3. runs' = [runs EXCEPT ![g] = p]
    BY <1>1, <1>2, <1>8, <2>1 DEF RunFails
  <2>4. Same /\ created' = created /\ call' = call /\ mgr' = mgr /\ Alive(g)
    BY <1>8 DEF RunFails, Same, Alive
  <2>. QED BY <1>1, <1>2, <1>3, <2>2, <2>3, <2>4, RunMoves
<1>9. CASE SourcesEnd(g)
  <2>1. PICK p \in RunSet : p = [q EXCEPT !.sources = FALSE]
    BY DEF RunSet
  <2>2. p.at = q.at /\ p.cfg = q.cfg
    BY <2>1 DEF RunSet
  <2>3. runs' = [runs EXCEPT ![g] = p]
    BY <1>1, <1>2, <1>9, <2>1 DEF SourcesEnd
  <2>4. Same /\ created' = created /\ call' = call /\ mgr' = mgr /\ Alive(g) /\ q.at = "up"
    BY <1>1, <1>9 DEF SourcesEnd, Same, Alive
  <2>. QED BY <1>1, <1>2, <1>3, <2>2, <2>3, <2>4, RunMoves
<1>10. CASE LoopEnds(g)
  <2>1. PICK p \in RunSet : p = [q EXCEPT !.loop = FALSE]
    BY DEF RunSet
  <2>2. p.at = q.at /\ p.cfg = q.cfg
    BY <2>1 DEF RunSet
  <2>3. runs' = [runs EXCEPT ![g] = p]
    BY <1>1, <1>2, <1>10, <2>1 DEF LoopEnds
  <2>4. Same /\ created' = created /\ call' = call /\ mgr' = mgr /\ Alive(g)
        /\ q.at \in {"waiting", "up"}
    BY <1>1, <1>10 DEF LoopEnds, Same, Alive
  <2>. QED BY <1>1, <1>2, <1>3, <2>2, <2>3, <2>4, RunMoves
<1>11. CASE RunEnds(g)
  <2>1. PICK p \in RunSet : p = [q EXCEPT !.at = "done", !.sources = FALSE, !.loop = FALSE,
                                         !.told = FALSE, !.cfg = None]
    BY DEF RunSet, RunStates
  <2>2. p.at = "done"
    BY <2>1 DEF RunSet
  <2>3. runs' = [runs EXCEPT ![g] = p]
    BY <1>1, <1>2, <1>11, <2>1 DEF RunEnds
  <2>4. Same /\ created' = created /\ call' = call /\ mgr' = down /\ Alive(g)
    BY <1>4, <1>11 DEF RunEnds, Same, Alive
  <2>. QED BY <1>1, <1>3, <1>5, <2>2, <2>3, <2>4, RunMoves
<1>12. CASE SetupStep(g)
  <2>1. PICK x \in SetupStates : runs' = [runs EXCEPT ![g].setup = x]
    BY <1>12 DEF SetupStep, SetupStates
  <2>2. /\ runs' \in [Gens -> RunSet] /\ Fade
        /\ \A h \in Gens : runs'[h].at = runs[h].at
    BY <2>1, SetSetup
  <2>3. mgr' = mgr \/ mgr' = [mgr EXCEPT !.strategy = TRUE]
    BY <1>12 DEF SetupStep
  <2>4. PICK m \in MgrSet : m = mgr'
    BY <1>2, <2>3 DEF MgrSet
  <2>5. mgr'.task = mgr.task /\ mgr'.stop = mgr.stop /\ mgr'.valid = mgr.valid
    BY <1>2, <2>3 DEF MgrSet
  <2>6. Same /\ created' = created /\ call' = call
    BY <1>12 DEF SetupStep, Same
  <2>7. Serial => ValidOwned'
    BY <2>2, <2>5, ValidStays
  <2>. QED BY <1>3, <2>2, <2>4, <2>5, <2>6, <2>7, NobodyMoves
<1>. QED BY <1>6, <1>7, <1>8, <1>9, <1>10, <1>11, <1>12 DEF RunStep

(* The end of the simulation loop.                                         *)
LEMMA SimEndsKeeps ==
  ASSUME IInv, setting' = setting, SimEnds
  PROVE  IInv' /\ Truthful
<1>1. mgr \in MgrSet /\ call \in [Callers -> CallSet] /\ runs \in [Gens -> RunSet]
  BY Facts
<1>2. PICK m \in MgrSet : m = [mgr EXCEPT !.sim = "done"]
  BY <1>1 DEF MgrSet, SimStates
<1>3. m.task = mgr.task /\ m.stop = mgr.stop /\ m.valid = mgr.valid
  BY <1>1, <1>2 DEF MgrSet
<1>4. Same /\ created' = created /\ call' = call /\ runs' = runs /\ mgr' = m
  BY <1>2 DEF SimEnds, Same
<1>5. Fade /\ \A d \in Callers : Alike(call[d], call'[d])
  BY <1>4 DEF Fade, Alive, Alike
<1>6. Serial => ValidOwned'
  BY <1>3, <1>4, ValidStays
<1>. QED BY <1>1, <1>3, <1>4, <1>5, <1>6, NobodyMoves

(* A caller whose new record has no more generations to create.            *)
LEMMA BudgetKept ==
  ASSUME IInv, NEW c \in Callers, NEW r, Need(c, r) <= Need(c, call[c])
  PROVE  created + Cardinality(Others(c)) + Need(c, r) <= 2 * calls + 1
<1>1. PICK p \in Nat : p = Cardinality(Others(c))
  BY TokensSplit
<1>2. PICK q \in 0..2 : q = Need(c, call[c])
  BY NeedRange
<1>3. PICK s \in 0..2 : s = Need(c, r)
  BY NeedRange
<1>4. PICK a \in Nat, b \in Nat : a = created /\ b = calls
  BY Facts, Numbers
<1>5. a + p + q <= 2 * b + 1
  BY <1>1, <1>2, <1>4, BudgetOf
<1>6. s <= q
  BY <1>2, <1>3
<1>7. a + p + s <= 2 * b + 1
  BY <1>5, <1>6
<1>. QED BY <1>1, <1>3, <1>4, <1>7

(* InitHpIo is called: the call brings the two generations it may create.  *)
LEMMA RequestInitKeeps ==
  ASSUME IInv, setting' = setting, NEW w \in Writers, NEW cfg \in setting.configs,
         RequestInit(w, cfg)
  PROVE  IInv' /\ Truthful
<1>1. w \in Callers /\ w # Boot /\ w # Closer
  BY Numbers
<1>2. cfg \in Configs
  BY Facts, LifecycleAssumption
<1>3. PICK r \in CallSet : r = [[Outside("waiting", "none") EXCEPT !.asked = cfg, !.cfg = cfg]
                                  EXCEPT !.at = "waiting"]
  BY <1>2 DEF Outside, CallSet, CallStates, Answers
<1>4. r.at = "waiting" /\ r.after = "create" /\ ~r.retry /\ r.asked = cfg /\ r.cfg = cfg
  BY <1>3 DEF Outside
<1>5. /\ call' = [call EXCEPT ![w] = r] /\ mgr' = mgr /\ runs' = runs /\ created' = created
      /\ calls' = calls + 1 /\ calls < MaxCalls /\ call[w].at = "idle"
  BY <1>3 DEF RequestInit, Suspend
<1>6. /\ call' \in [Callers -> CallSet] /\ call'[w] = r /\ OthersStay(w)
      /\ \A d \in Callers \ {w} : call'[d] = call[d]
  BY <1>1, <1>5, MoveOne
<1>7. Typed
  BY <1>5, <1>6, Facts, Numbers DEF Typed
<1>8. ~BusyAt(r) /\ Fits(w, r)
  BY <1>4 DEF Fits, BusyAt, StartAwaits, StopAwaits
<1>9. created' + Cardinality(Others(w)) + Need(w, r) <= 2 * calls' + 1
  <2>1. PICK p \in Nat : p = Cardinality(Others(w))
    BY <1>1, TokensSplit
  <2>2. Need(w, call[w]) = 0
    BY <1>1, <1>5 DEF Need, StartAwaits, StopAwaits
  <2>3. Need(w, r) = 2
    BY <1>4 DEF Need, StartAwaits, StopAwaits
  <2>4. PICK a \in Nat, b \in Nat : a = created /\ b = calls
    BY Facts, Numbers
  <2>5. a + p + 0 <= 2 * b + 1
    BY <1>1, <2>1, <2>2, <2>4, BudgetOf
  <2>6. a + p + 2 <= 2 * (b + 1) + 1
    BY <2>5
  <2>. QED BY <1>5, <2>1, <2>3, <2>4, <2>6
<1>10. Fade /\ \A h \in Gens : runs'[h].at = runs[h].at
  BY <1>5 DEF Fade, Alive
<1>11. IInv'
  BY <1>1, <1>5, <1>6, <1>7, <1>8, <1>9, <1>10, Leave
<1>12. Mine(w) /\ ~Busy(w)
  BY <1>5 DEF Mine, Busy, StartAwaits, StopAwaits
<1>. QED BY <1>1, <1>11, <1>12, TruthfulOne

(* InitHpIo enters start() with the writer lock, and remembers the         *)
(* configuration to restore.                                               *)
LEMMA EnterInitKeeps ==
  ASSUME IInv, setting' = setting, NEW w \in Writers, EnterInit(w)
  PROVE  IInv' /\ Truthful
<1>1. w \in Callers /\ w # Boot /\ w # Closer /\ mgr \in MgrSet
  BY Numbers, Facts
<1>2. PICK k \in CallSet : k = call[w] /\ Fits(w, k)
  BY <1>1, Facts
<1>3. PICK l \in CallSet : l = [k EXCEPT !.prior = mgr.cfg]
  BY <1>1 DEF CallSet, MgrSet
<1>4. /\ l.after = k.after /\ l.retry = k.retry /\ l.cfg = k.cfg /\ l.asked = k.asked
      /\ l.prior = mgr.cfg
  BY <1>3 DEF CallSet
<1>5. k.at = "waiting" /\ MayEnter /\ Stop(w, l, mgr) /\ Same
  BY <1>2, <1>3 DEF EnterInit, Same
<1>6. k.after = "create" /\ ~k.retry /\ k.cfg = k.asked
  BY <1>2, <1>5 DEF Fits
<1>7. Suits(w, l)
  BY <1>1, <1>4, <1>6 DEF Suits
<1>8. Owed(w, l) = Need(w, k)
  BY <1>1, <1>4, <1>5, <1>6 DEF Need, Owed, StopAwaits, StartAwaits
<1>9. ~Busy(w)
  BY <1>2, <1>5 DEF Busy, StopAwaits, StartAwaits
<1>10. Mid(w, l, mgr, Owed(w, l))
  BY <1>1, <1>2, <1>5, <1>7, <1>8, <1>9, MidEnter
<1>11. IInv' /\ Mine(w)
  BY <1>1, <1>4, <1>5, <1>6, <1>10, StopKeeps, StopIsMine
<1>. QED BY <1>1, <1>9, <1>11, TruthfulOne

(* InitHpIo is cancelled wherever it waits: what it started stays tracked. *)
LEMMA AbandonInitKeeps ==
  ASSUME IInv, setting' = setting, NEW w \in Writers, AbandonInit(w)
  PROVE  IInv' /\ Truthful
<1>1. w \in Callers /\ w # Boot /\ w # Closer /\ mgr \in MgrSet
  BY Numbers, Facts
<1>2. PICK k \in CallSet : k = call[w] /\ Fits(w, k)
  BY <1>1, Facts
<1>3. PICK r \in CallSet : r = Outside("idle", "error")
  BY <1>1, OutsideFits DEF Answers
<1>4. Fits(w, r) /\ Need(w, r) = 0 /\ r.at = "idle" /\ r.answer = "error"
  BY <1>1, <1>3, OutsideFits DEF Answers
<1>5. /\ call' = [call EXCEPT ![w] = r] /\ created' = created /\ calls' = calls
      /\ k.at # "stopTask"
  BY <1>2, <1>3 DEF AbandonInit
<1>6. PICK x \in SimStates : mgr' = [mgr EXCEPT !.sim = x]
  <2>1. k.at = "stopSim" => mgr' = [mgr EXCEPT !.sim = "none"]
    BY <1>2 DEF AbandonInit
  <2>2. k.at # "stopSim" => mgr' = [mgr EXCEPT !.sim = mgr.sim]
    BY <1>2 DEF AbandonInit
  <2>. QED BY <1>1, <2>1, <2>2 DEF SimStates, MgrSet
<1>7. mgr' \in MgrSet /\ mgr'.task = mgr.task /\ mgr'.stop = mgr.stop /\ mgr'.valid = mgr.valid
  BY <1>1, <1>6 DEF MgrSet
<1>8. /\ runs' \in [Gens -> RunSet] /\ Fade
      /\ \A h \in Gens : runs'[h].at = runs[h].at
  <2>1. CASE runs' = runs
    BY <2>1, Facts DEF Fade, Alive
  <2>2. CASE k.at = "waitSetup" /\ runs' = [runs EXCEPT ![k.gen].setup = "failed"]
    <3>1. k.gen \in Gens
      BY <1>2, <2>2 DEF Fits, StartAwaits
    <3>. QED BY <2>2, <3>1, SetSetup DEF SetupStates
  <2>. QED BY <1>2, <2>1, <2>2 DEF AbandonInit
<1>9. /\ call' \in [Callers -> CallSet] /\ call'[w] = r /\ OthersStay(w)
      /\ \A d \in Callers \ {w} : call'[d] = call[d]
  BY <1>1, <1>5, MoveOne
<1>10. Typed
  BY <1>5, <1>7, <1>8, <1>9, Facts DEF Typed
<1>11. created' + Cardinality(Others(w)) + Need(w, r) <= 2 * calls' + 1
  <2>1. PICK q \in 0..2 : q = Need(w, call[w])
    BY NeedRange
  <2>2. Need(w, r) <= Need(w, call[w])
    BY <1>4, <2>1
  <2>. QED BY <1>1, <1>5, <2>2, BudgetKept
<1>12. ~BusyAt(r)
  BY <1>4 DEF BusyAt, StartAwaits, StopAwaits
<1>13. IInv'
  BY <1>1, <1>2, <1>4, <1>5, <1>7, <1>8, <1>9, <1>10, <1>11, <1>12, Leave
<1>14. Mine(w)
  BY <1>5 DEF Mine
<1>. QED BY <1>1, <1>4, <1>9, <1>13, <1>14, TruthfulOne DEF Honest

(* The initial task enters start().                                        *)
LEMMA BootStartKeeps ==
  ASSUME IInv, setting' = setting, BootStart
  PROVE  IInv' /\ Truthful
<1>1. Boot \in Callers /\ Boot # Closer /\ Boot \notin Writers /\ mgr \in MgrSet
  BY Numbers, Facts
<1>2. PICK k \in CallSet : k = call[Boot] /\ Fits(Boot, k)
  BY <1>1, Facts
<1>3. k.at = "idle" /\ MayEnter /\ Stop(Boot, k, mgr) /\ Same
  BY <1>2 DEF BootStart, Same
<1>4. k.after = "create" /\ k.prior = None /\ ~k.retry
  BY <1>2, <1>3 DEF Fits
<1>5. Suits(Boot, k)
  BY <1>1, <1>4 DEF Suits
<1>6. Owed(Boot, k) = Need(Boot, k)
  BY <1>3, <1>4 DEF Need, Owed, StopAwaits, StartAwaits
<1>7. ~Busy(Boot)
  BY <1>2, <1>3 DEF Busy, StopAwaits, StartAwaits
<1>8. Mid(Boot, k, mgr, Owed(Boot, k))
  BY <1>1, <1>2, <1>3, <1>5, <1>6, <1>7, MidEnter
<1>9. IInv' /\ Mine(Boot)
  BY <1>1, <1>3, <1>4, <1>8, StopKeeps, StopIsMine
<1>. QED BY <1>1, <1>7, <1>9, TruthfulOne

(* The shutdown enters stop().                                             *)
LEMMA BeginShutdownKeeps ==
  ASSUME IInv, setting' = setting, BeginShutdown
  PROVE  IInv' /\ Truthful
<1>1. Closer \in Callers /\ Boot # Closer /\ Closer \notin Writers /\ mgr \in MgrSet
  BY Numbers, Facts
<1>2. PICK k \in CallSet : k = call[Closer]
  BY <1>1, Facts
<1>3. PICK l \in CallSet : l = [k EXCEPT !.after = "close"]
  BY DEF CallSet
<1>4. l.after = "close"
  BY <1>3 DEF CallSet
<1>5. k.at \in {"idle", "closed"} /\ MayEnter /\ Stop(Closer, l, mgr) /\ Same
  BY <1>2, <1>3 DEF BeginShutdown, Same
<1>6. Suits(Closer, l)
  BY <1>1, <1>4 DEF Suits
<1>7. Owed(Closer, l) = Need(Closer, k)
  BY <1>1, <1>4, <1>5 DEF Need, Owed, StopAwaits, StartAwaits
<1>8. ~Busy(Closer)
  BY <1>2, <1>5 DEF Busy, StopAwaits, StartAwaits
<1>9. Mid(Closer, l, mgr, Owed(Closer, l))
  BY <1>1, <1>2, <1>5, <1>6, <1>7, <1>8, MidEnter
<1>10. IInv' /\ Mine(Closer)
  BY <1>1, <1>4, <1>5, <1>9, StopKeeps, StopIsMine
<1>. QED BY <1>1, <1>8, <1>10, TruthfulOne

(* The initial task or the closer moves to a place where it disturbs nobody*)
LEMMA StepAside ==
  ASSUME IInv, Same, NEW c \in Callers, NEW r \in CallSet, call' = [call EXCEPT ![c] = r],
         UNCHANGED <<mgr, runs, created>>, ~Busy(c), ~BusyAt(r), Fits(c, r), Need(c, r) = 0
  PROVE  IInv' /\ Truthful
<1>1. /\ call' \in [Callers -> CallSet] /\ call'[c] = r /\ OthersStay(c)
      /\ \A d \in Callers \ {c} : call'[d] = call[d]
  BY MoveOne
<1>2. Typed
  BY <1>1, Facts DEF Typed, Same
<1>3. created' + Cardinality(Others(c)) + Need(c, r) <= 2 * calls' + 1
  <2>1. PICK q \in 0..2 : q = Need(c, call[c])
    BY NeedRange
  <2>2. Need(c, r) <= Need(c, call[c])
    BY <2>1
  <2>. QED BY <2>2, BudgetKept DEF Same
<1>4. Fade /\ call[c].at # "stopTask"
  BY DEF Fade, Alive, Busy, StopAwaits
<1>5. IInv'
  BY <1>1, <1>2, <1>3, <1>4, Leave
<1>6. Mine(c)
  BY DEF Mine
<1>. QED BY <1>5, <1>6, TruthfulOne

(* The initial task fails to read its configuration.                       *)
LEMMA BootFailsKeeps ==
  ASSUME IInv, setting' = setting, BootFails
  PROVE  IInv' /\ Truthful
<1>1. Boot \in Callers
  BY Numbers
<1>2. PICK r \in CallSet : r = Outside("ended", "error")
  BY <1>1, OutsideFits DEF Answers
<1>3. Fits(Boot, r) /\ Need(Boot, r) = 0 /\ r.at = "ended"
  BY <1>1, <1>2, OutsideFits DEF Answers
<1>4. /\ call' = [call EXCEPT ![Boot] = r] /\ UNCHANGED <<mgr, runs, created>> /\ Same
      /\ call[Boot].at = "idle"
  BY <1>2 DEF BootFails, Finish, Same
<1>. QED BY <1>1, <1>3, <1>4, StepAside DEF Busy, BusyAt, StartAwaits, StopAwaits

(* The server stops taking calls; the program exits.                       *)
LEMMA CloserKeeps ==
  ASSUME IInv, setting' = setting, StopServer \/ JoinBoot
  PROVE  IInv' /\ Truthful
<1>1. Closer \in Callers /\ Closer # Boot
  BY Numbers
<1>2. PICK k \in CallSet : k = call[Closer]
  BY <1>1, Facts
<1>3. PICK where \in {"closed", "exited"} : Suspend(Closer, k, where, mgr)
  BY <1>2 DEF StopServer, JoinBoot
<1>4. PICK r \in CallSet : r = [k EXCEPT !.at = where]
  BY DEF CallSet, CallStates
<1>5. r.at = where
  BY <1>4 DEF CallSet
<1>6. /\ call' = [call EXCEPT ![Closer] = r] /\ UNCHANGED <<mgr, runs, created>> /\ Same
      /\ k.at \in {"idle", "stopped", "joining", "closed"}
  BY <1>2, <1>3, <1>4 DEF StopServer, JoinBoot, Suspend, Same
<1>7. Fits(Closer, r) /\ Need(Closer, r) = 0 /\ ~BusyAt(r) /\ ~Busy(Closer)
  BY <1>1, <1>2, <1>5, <1>6 DEF Fits, Need, Busy, BusyAt, StartAwaits, StopAwaits
<1>. QED BY <1>1, <1>6, <1>7, StepAside

(* PanosetiServer.run cancels the initial task: it leaves start(), or its  *)
(* stop() goes on hurried.                                                 *)
LEMMA CancelBootKeeps ==
  ASSUME IInv, setting' = setting, CancelBoot
  PROVE  IInv' /\ Truthful
<1>1. /\ Boot \in Callers /\ Closer \in Callers /\ Boot # Closer /\ mgr \in MgrSet
      /\ call \in [Callers -> CallSet] /\ Boot \notin Writers /\ Closer \notin Writers
      /\ Writers \subseteq Callers
  BY Numbers, Facts
<1>2. PICK k \in CallSet : k = call[Boot] /\ Fits(Boot, k)
  BY <1>1, Facts
<1>3. PICK e \in CallSet : e = call[Closer]
  BY <1>1
<1>4. PICK f \in CallSet : f = [e EXCEPT !.at = "joining"]
  <2>1. "joining" \in CallStates
    BY DEF CallStates
  <2>. QED BY <2>1 DEF CallSet
<1>5. e.at = "stopped" /\ Same /\ created' = created
  BY <1>3 DEF CancelBoot, Same
<1>6. Alike(e, f)
  BY <1>4, <1>5 DEF Alike, CallSet
<1>7. PICK r \in CallSet : r = IF k.at \in {"stopTask", "ended"} THEN k
                              ELSE Outside("ended", "error")
  BY <1>1, OutsideFits DEF Answers
<1>8. call' = [[call EXCEPT ![Closer] = f] EXCEPT ![Boot] = r]
  BY <1>1, <1>2, <1>3, <1>4, <1>7 DEF CancelBoot
<1>9. /\ call' \in [Callers -> CallSet] /\ call'[Boot] = r /\ call'[Closer] = f
      /\ \A d \in Callers \ {Boot, Closer} : call'[d] = call[d]
  BY <1>1, <1>8
<1>10. PICK x \in SimStates : mgr' = [mgr EXCEPT !.sim = x]
  <2>1. k.at = "stopSim" => mgr' = [mgr EXCEPT !.sim = "none"]
    BY <1>2 DEF CancelBoot
  <2>2. k.at # "stopSim" => mgr' = [mgr EXCEPT !.sim = mgr.sim]
    BY <1>2 DEF CancelBoot
  <2>. QED BY <1>1, <2>1, <2>2 DEF SimStates, MgrSet
<1>11. mgr' \in MgrSet /\ mgr'.task = mgr.task /\ mgr'.stop = mgr.stop /\ mgr'.valid = mgr.valid
  BY <1>1, <1>10 DEF MgrSet
<1>12. /\ runs' \in [Gens -> RunSet] /\ Fade
       /\ \A h \in Gens : runs'[h].at = runs[h].at \/ runs'[h].at = "closing"
  <2>1. k.at \in {"waitSetup", "stopTask"} => k.gen \in Gens
    BY <1>2 DEF Fits, StartAwaits
  <2>2. CASE runs' = runs
    BY <2>2, Facts DEF Fade, Alive
  <2>3. CASE k.at = "waitSetup" /\ runs' = [runs EXCEPT ![k.gen].setup = "failed"]
    BY <2>1, <2>3, SetSetup DEF SetupStates
  <2>4. CASE /\ k.at = "stopTask" /\ runs[k.gen].at \in {"waiting", "up"}
             /\ runs' = [runs EXCEPT ![k.gen].at = "closing"]
    <3>1. PICK g \in Gens : g = k.gen
      BY <2>1, <2>4
    <3>. QED BY <2>4, <3>1, SetClosing
  <2>. QED BY <1>2, <2>2, <2>3, <2>4 DEF CancelBoot
<1>13. CASE k.at \in {"stopTask", "ended"}
  <2>1. \A d \in Callers : Alike(call[d], call'[d])
    BY <1>2, <1>3, <1>6, <1>7, <1>9, <1>13 DEF Alike
  <2>2. \A d \in Callers : call[d].at = "stopTask" => call'[d].at = "stopTask"
    BY <1>2, <1>3, <1>5, <1>7, <1>9, <1>13
  <2>3. Serial => ValidOwned'
    BY <1>11, <1>12, ValidStays
  <2>. QED BY <1>5, <1>9, <1>11, <1>12, <2>1, <2>2, <2>3, NobodyMoves
<1>14. CASE k.at \notin {"stopTask", "ended"}
  <2>1. /\ Fits(Boot, r) /\ Need(Boot, r) = 0 /\ r.at = "ended"
    BY <1>1, <1>7, <1>14, OutsideFits DEF Answers
  <2>2. ~BusyAt(r)
    BY <2>1 DEF BusyAt, StartAwaits, StopAwaits
  <2>3. OthersStay(Boot)
    BY <1>3, <1>6, <1>9 DEF OthersStay, Alike
  <2>4. Typed
    BY <1>5, <1>9, <1>11, <1>12, Facts DEF Typed, Same
  <2>5. created' + Cardinality(Others(Boot)) + Need(Boot, r) <= 2 * calls' + 1
    <3>1. PICK q \in 0..2 : q = Need(Boot, call[Boot])
      BY NeedRange
    <3>2. Need(Boot, r) <= Need(Boot, call[Boot])
      BY <2>1, <3>1
    <3>. QED BY <1>1, <1>5, <3>2, BudgetKept DEF Same
  <2>6. \A d \in Callers \ {Boot} : call[d].at = "stopTask" => call'[d].at = "stopTask"
    BY <1>3, <1>5, <1>9
  <2>7. IInv'
    BY <1>1, <1>2, <1>9, <1>11, <1>12, <1>14, <2>1, <2>2, <2>3, <2>4, <2>5, <2>6, Leave
  <2>8. \A w \in Writers : Busy(w) => call'[w].at # "idle" \/ call'[w].answer = "error"
    BY <1>1, <1>9 DEF Busy, StopAwaits, StartAwaits
  <2>. QED BY <1>9, <2>7, <2>8, TruthfulNone
<1>. QED BY <1>13, <1>14

-----------------------------------------------------------------------------
(* The server before its first call: only the initial task has a           *)
(* generation to create.                                                   *)
LEMMA InitHolds == Init => IInv
<1>. SUFFICES ASSUME Init PROVE IInv
  OBVIOUS
<1>1. /\ Boot \in Callers /\ Boot # Closer /\ MaxCalls \in Nat
      /\ DefaultConfig \in Configs \cup {None} /\ None \notin Configs
  BY Numbers, LifecycleAssumption
<1>2. mgr \in MgrSet /\ runs \in [Gens -> RunSet]
  BY DEF Init, MgrSet, RunSet, SimStates, RunStates, SetupStates
<1>3. PICK i \in CallSet : i = Outside("idle", "none")
  BY DEF Outside, CallSet, CallStates, Answers
<1>4. PICK n \in CallSet : n = Outside("ended", "none")
  BY DEF Outside, CallSet, CallStates, Answers
<1>5. PICK b \in CallSet : b = [i EXCEPT !.cfg = DefaultConfig]
  BY <1>1 DEF CallSet
<1>6. /\ i.at = "idle" /\ n.at = "ended" /\ b.at = "idle"
      /\ b.after = "create" /\ b.prior = None /\ ~b.retry
  BY <1>3, <1>4, <1>5 DEF Outside
<1>7. call = [c \in Callers |-> IF c # Boot THEN i ELSE IF DefaultConfig = None THEN n ELSE b]
  BY <1>3, <1>4, <1>5 DEF Init
<1>8. /\ call \in [Callers -> CallSet] /\ \A c \in Callers : call[c].at \in {"idle", "ended"}
      /\ \A c \in Callers \ {Boot} : call[c] = i
  BY <1>6, <1>7
<1>9. ASSUME NEW c \in Callers PROVE Fits(c, call[c])
  <2>1. CASE c # Boot
    BY <1>6, <1>8, <2>1 DEF Fits, BusyAt, StartAwaits, StopAwaits
  <2>2. CASE c = Boot /\ DefaultConfig = None
    BY <1>1, <1>6, <1>7, <2>2 DEF Fits, BusyAt, StartAwaits, StopAwaits
  <2>3. CASE c = Boot /\ DefaultConfig # None
    BY <1>1, <1>6, <1>7, <2>3 DEF Fits, BusyAt, StartAwaits, StopAwaits
  <2>. QED BY <2>1, <2>2, <2>3
<1>10. created = 0 /\ calls = 0 /\ setting \in Settings
  BY DEF Init
<1>11. Budget
  <2>1. ASSUME NEW t \in Tokens PROVE t \in {<<Boot, 1>>}
    <3>1. PICK c \in Callers, j \in {1, 2} : t = <<c, j>> /\ j <= Need(c, call[c])
      BY DEF Tokens
    <3>2. PICK q \in 0..2 : q = Need(c, call[c])
      BY NeedRange
    <3>3. c # Boot => q = 0
      BY <1>6, <1>8, <3>2 DEF Need, StartAwaits, StopAwaits
    <3>4. q <= 1
      BY <1>8, <3>2 DEF Need, StartAwaits, StopAwaits
    <3>. QED BY <3>1, <3>2, <3>3, <3>4
  <2>2. IsFiniteSet({<<Boot, 1>>}) /\ Cardinality({<<Boot, 1>>}) = 1
    BY FS_Singleton
  <2>3. Cardinality(Tokens) \in Nat /\ Cardinality(Tokens) <= 1
    BY <2>1, <2>2, FS_Subset, FS_CardinalityType
  <2>. QED BY <1>10, <2>3 DEF Budget
<1>12. TypeOK
  BY <1>1, <1>2, <1>8, <1>10 DEF TypeOK, MgrSet, RunSet, CallSet
<1>13. \A g \in Gens : ~Alive(g)
  BY DEF Init, Alive
<1>14. ~mgr.valid /\ ~mgr.stop
  BY DEF Init
<1>15. \A c \in Callers : ~Busy(c) /\ Stands(c)
  BY <1>8 DEF Busy, Stands, StartAwaits, StopAwaits
<1>16. Apart
  BY <1>13, <1>14, <1>15 DEF Apart, OnlyTracked, ValidOwned
<1>17. StopOwned
  BY <1>14 DEF StopOwned
<1>. QED BY <1>9, <1>10, <1>11, <1>12, <1>16, <1>17 DEF IInv

(* Every step keeps the invariant, and answers truthfully.                 *)
LEMMA StepKeeps ==
  ASSUME IInv, [Next]_<<setting, vars>>
  PROVE  IInv' /\ Truthful
<1>1. CASE UNCHANGED <<setting, vars>>
  <2>1. /\ Same /\ created' = created /\ mgr' = mgr /\ runs' = runs /\ call' = call
    BY <1>1 DEF vars, Same
  <2>2. Fade /\ \A d \in Callers : Alike(call[d], call'[d])
    BY <2>1 DEF Fade, Alive, Alike
  <2>3. Serial => ValidOwned'
    BY <2>1, ValidStays
  <2>. QED BY <2>1, <2>2, <2>3, Facts, NobodyMoves
<1>2. CASE Step /\ UNCHANGED setting
  <2>1. ASSUME NEW c \in Callers, StopStep(c) PROVE IInv' /\ Truthful
    BY <1>2, <2>1, StopStepKeeps
  <2>2. ASSUME NEW c \in Writers \cup {Boot}, StartStep(c) PROVE IInv' /\ Truthful
    BY <1>2, <2>2, StartStepKeeps
  <2>3. ASSUME NEW w \in Writers, InitStep(w) PROVE IInv' /\ Truthful
    BY <1>2, <2>3, RequestInitKeeps, EnterInitKeeps, AbandonInitKeeps DEF InitStep
  <2>4. ASSUME BootStart \/ BootFails \/ BeginShutdown \/ StopServer \/ CancelBoot \/ JoinBoot
        PROVE  IInv' /\ Truthful
    BY <1>2, <2>4, BootStartKeeps, BootFailsKeeps, BeginShutdownKeeps, CloserKeeps, CancelBootKeeps
  <2>5. ASSUME NEW g \in Gens, RunStep(g) PROVE IInv' /\ Truthful
    BY <1>2, <2>5, RunStepKeeps
  <2>6. ASSUME SimEnds PROVE IInv' /\ Truthful
    BY <1>2, <2>6, SimEndsKeeps
  <2>. QED BY <1>2, <2>1, <2>2, <2>3, <2>4, <2>5, <2>6 DEF Step
<1>. QED BY <1>1, <1>2 DEF Next

(* The inductive invariant holds of every reachable state.                 *)
THEOREM LifecycleInvariant == Spec => []IInv
<1>1. Init => IInv
  BY InitHolds
<1>2. IInv /\ [Next]_<<setting, vars>> => IInv'
  BY StepKeeps
<1>. QED BY <1>1, <1>2, PTL DEF Spec

(* With the callers kept apart, the only HpIoManager that runs is the      *)
(* tracked one: start() leaves no earlier task behind, through timeouts,   *)
(* failed restores and cancelled calls, for any number of callers. And a   *)
(* call creates at most two of them.                                       *)
THEOREM OnlyTrackedLives == Spec => []OneLiveTask
<1>1. IInv => OneLiveTask
  <2>. SUFFICES ASSUME IInv PROVE OneLiveTask
    OBVIOUS
  <2>. QED BY DEF IInv, Apart, OnlyTracked, OneLiveTask, Live
<1>. QED BY <1>1, LifecycleInvariant, PTL

(* However the callers overlap, a stop event that is set has a stop() that *)
(* waits for the tracked task, or no such task runs; kept apart, no new    *)
(* task starts under the event of an earlier stop(), and the valid event   *)
(* belongs to the tracked task.                                            *)
THEOREM EventsHaveOwners == Spec => []EventsOwned
<1>1. IInv => EventsOwned
  <2>. SUFFICES ASSUME IInv PROVE EventsOwned
    OBVIOUS
  <2>1. mgr.stop => \/ \E c \in Callers : call[c].at = "stopTask" /\ call[c].gen = mgr.task
                    \/ mgr.task = 0 \/ ~Alive(mgr.task)
    BY DEF IInv, StopOwned
  <2>2. ASSUME Serial, mgr.stop, NEW g \in Live
        PROVE  \E c \in Callers : call[c].at = "stopTask" /\ call[c].gen = g
    <3>1. g \in Gens /\ Alive(g) /\ g = mgr.task
      BY <2>2 DEF Live, IInv, Apart, OnlyTracked
    <3>. QED BY <2>1, <2>2, <3>1, Numbers
  <2>3. Serial => ValidOwned
    BY DEF IInv, Apart
  <2>. QED BY <2>1, <2>2, <2>3 DEF EventsOwned, ValidOwned
<1>. QED BY <1>1, LifecycleInvariant, PTL

(* With the callers kept apart, InitHpIo answers success only while the    *)
(* configuration it asked for is served, and after a failure only the      *)
(* configuration from before is.                                           *)
THEOREM InitAnswersTrue == Spec => AnswersTrue
<1>1. IInv /\ [Next]_<<setting, vars>> =>
        [\A w \in Writers :
           Serial /\ Busy(w) /\ call'[w].at = "idle" =>
             /\ call'[w].answer = "success" => IsValid' /\ runs'[mgr'.task].cfg = call[w].asked
             /\ call'[w].answer = "failure" /\ IsValid' => runs'[mgr'.task].cfg = call[w].prior
        ]_vars
  BY StepKeeps DEF Truthful
<1>. QED BY <1>1, LifecycleInvariant, PTL DEF Spec, AnswersTrue

-----------------------------------------------------------------------------
(* The frames of the edge: sets and sequences                              *)

(* A set of numbers has a smallest one.                                    *)
LEMMA SmallestNumber ==
  ASSUME NEW U \in SUBSET Nat, U # {}
  PROVE  \E x \in U : \A y \in U : x <= y
<1> DEFINE less == OpToRel(<, Nat)
<1>1. \A x, y \in Nat : x < y => <<x, y>> \in less
  BY DEF OpToRel
<1>2. IsWellFoundedOn(less, Nat)
  BY NatLessThanWellFounded
<1> HIDE DEF less
<1>3. PICK x \in U : \A y \in U : ~(<<y, x>> \in less)
  BY <1>2, WFMin
<1>4. \A y \in U : x <= y
  <2> TAKE y \in U
  <2>1. x \in Nat /\ y \in Nat
    OBVIOUS
  <2>2. ~(y < x)
    BY <1>1, <1>3, <2>1
  <2> QED BY <2>1, <2>2
<1> QED BY <1>4

(* A set of positions has a last one.                                      *)
LEMMA LastPosition ==
  ASSUME NEW N \in Nat, NEW T \in SUBSET (1..N), T # {}
  PROVE  \E i \in T : \A j \in T : j <= i
<1> DEFINE U == {N - i : i \in T}
<1>1. \A i \in T : N - i \in Nat
  OBVIOUS
<1>2. U \in SUBSET Nat /\ U # {}
  BY <1>1
<1> HIDE DEF U
<1>3. PICK x \in U : \A y \in U : x <= y
  BY <1>2, SmallestNumber
<1>4. PICK i \in T : x = N - i
  BY DEF U
<1>5. \A j \in T : j <= i
  <2> TAKE j \in T
  <2>1. N - i <= N - j
    BY <1>3, <1>4 DEF U
  <2>2. i \in Nat /\ j \in Nat
    OBVIOUS
  <2> QED BY <2>1, <2>2
<1> QED BY <1>5

(* The numbers of the frames in a sequence.                                *)
LEMMA NumberOf ==
  ASSUME NEW q \in Seq(Frames), NEW c, NEW m, NEW n
  PROVE  n \in FrameNumbers(q, c, m) <=> \E i \in 1..Len(q) : IsOf(q[i], c, m) /\ q[i].number = n
BY DEF FrameNumbers, ToSet

(* ... are natural numbers.                                                *)
LEMMA NumbersNat ==
  ASSUME NEW q \in Seq(Frames), NEW c, NEW m
  PROVE  FrameNumbers(q, c, m) \subseteq Nat
<1> SUFFICES ASSUME NEW n \in FrameNumbers(q, c, m) PROVE n \in Nat
  OBVIOUS
<1>1. PICK i \in 1..Len(q) : q[i].number = n
  BY NumberOf
<1>2. q[i] \in Frames
  OBVIOUS
<1> QED BY <1>1, <1>2 DEF Frames

(* A frame is put behind q.                                                *)
LEMMA FrameAppended ==
  ASSUME NEW q \in Seq(Frames), NEW f \in Frames, NEW c, NEW m
  PROVE  /\ Append(q, f) \in Seq(Frames)
         /\ ~IsOf(f, c, m) => FrameNumbers(Append(q, f), c, m) = FrameNumbers(q, c, m)
         /\ IsOf(f, c, m) => FrameNumbers(Append(q, f), c, m) = FrameNumbers(q, c, m) \cup {f.number}
         /\ Rising(q, c, m) /\ (IsOf(f, c, m) => \A n \in FrameNumbers(q, c, m) : n < f.number)
              => Rising(Append(q, f), c, m)
<1> DEFINE z == Append(q, f)
<1>1. /\ Len(q) \in Nat /\ z \in Seq(Frames) /\ Len(z) = Len(q) + 1 /\ z[Len(q) + 1] = f
      /\ \A i \in 1..Len(q) : z[i] = q[i]
  OBVIOUS
<1> HIDE DEF z
<1>2. /\ Len(q) + 1 \in 1..Len(z) /\ \A i \in 1..Len(q) : i \in 1..Len(z)
      /\ \A i \in 1..Len(z) : i \in 1..Len(q) \/ i = Len(q) + 1
  BY <1>1
<1>3. \A n : n \in FrameNumbers(q, c, m) => n \in FrameNumbers(z, c, m)
  BY <1>1, <1>2, NumberOf
<1>4. ASSUME NEW n, n \in FrameNumbers(z, c, m)
      PROVE  n \in FrameNumbers(q, c, m) \/ (IsOf(f, c, m) /\ n = f.number)
  <2>1. PICK i \in 1..Len(z) : IsOf(z[i], c, m) /\ z[i].number = n
    BY <1>1, <1>4, NumberOf
  <2>2. CASE i \in 1..Len(q)
    BY <1>1, <2>1, <2>2, NumberOf
  <2>3. CASE i = Len(q) + 1
    BY <1>1, <2>1, <2>3
  <2> QED BY <1>2, <2>2, <2>3
<1>5. IsOf(f, c, m) => f.number \in FrameNumbers(z, c, m)
  BY <1>1, <1>2, NumberOf
<1>6. ASSUME Rising(q, c, m), IsOf(f, c, m) => \A n \in FrameNumbers(q, c, m) : n < f.number
      PROVE  Rising(z, c, m)
  <2> SUFFICES ASSUME NEW i \in 1..Len(z), NEW j \in 1..Len(z), i < j, IsOf(z[i], c, m), IsOf(z[j], c, m)
               PROVE  z[i].number < z[j].number
    BY <1>1 DEF Rising
  <2>1. i \in 1..Len(q)
    BY <1>1, <1>2
  <2>2. CASE j \in 1..Len(q)
    BY <1>1, <1>6, <2>1, <2>2 DEF Rising
  <2>3. CASE j = Len(q) + 1
    <3>1. q[i].number \in FrameNumbers(q, c, m)
      BY <1>1, <2>1, NumberOf
    <3> QED BY <1>1, <1>6, <2>1, <2>3, <3>1
  <2> QED BY <1>2, <2>2, <2>3
<1> QED BY <1>1, <1>3, <1>4, <1>5, <1>6 DEF z

(* The first frame of q is taken.                                          *)
LEMMA FrameTaken ==
  ASSUME NEW q \in Seq(Frames), q # <<>>, NEW c, NEW m
  PROVE  /\ Tail(q) \in Seq(Frames) /\ Head(q) \in Frames
         /\ ~IsOf(Head(q), c, m) => FrameNumbers(Tail(q), c, m) = FrameNumbers(q, c, m)
         /\ IsOf(Head(q), c, m) =>
              FrameNumbers(q, c, m) = FrameNumbers(Tail(q), c, m) \cup {Head(q).number}
         /\ Rising(q, c, m) =>
              /\ Rising(Tail(q), c, m)
              /\ IsOf(Head(q), c, m) => \A n \in FrameNumbers(Tail(q), c, m) : Head(q).number < n
<1> DEFINE z == Tail(q)
           f == Head(q)
<1>1. /\ Len(q) \in Nat /\ Len(q) > 0 /\ z \in Seq(Frames) /\ Len(z) = Len(q) - 1 /\ q[1] = f /\ f \in Frames
      /\ \A i \in 1..Len(z) : z[i] = q[i + 1]
  OBVIOUS
<1> HIDE DEF z, f
<1>2. /\ 1 \in 1..Len(q) /\ \A i \in 1..Len(z) : i + 1 \in 1..Len(q)
      /\ \A i \in 1..Len(q) : i = 1 \/ (i - 1 \in 1..Len(z) /\ z[i - 1] = q[i])
  <2>1. 1 \in 1..Len(q) /\ \A i \in 1..Len(z) : i + 1 \in 1..Len(q)
    BY <1>1
  <2>2. ASSUME NEW i \in 1..Len(q), i # 1 PROVE i - 1 \in 1..Len(z) /\ z[i - 1] = q[i]
    <3>1. i - 1 \in 1..Len(z) /\ (i - 1) + 1 = i
      BY <1>1, <2>2
    <3> QED BY <1>1, <3>1
  <2> QED BY <2>1, <2>2
<1>3. ASSUME NEW n, n \in FrameNumbers(z, c, m) PROVE n \in FrameNumbers(q, c, m)
  <2>1. PICK i \in 1..Len(z) : IsOf(z[i], c, m) /\ z[i].number = n
    BY <1>1, <1>3, NumberOf
  <2> QED BY <1>1, <1>2, <2>1, NumberOf
<1>4. ASSUME NEW n, n \in FrameNumbers(q, c, m)
      PROVE  n \in FrameNumbers(z, c, m) \/ (IsOf(f, c, m) /\ n = f.number)
  <2>1. PICK i \in 1..Len(q) : IsOf(q[i], c, m) /\ q[i].number = n
    BY <1>4, NumberOf
  <2>2. CASE i # 1
    <3>1. i - 1 \in 1..Len(z) /\ IsOf(z[i - 1], c, m) /\ z[i - 1].number = n
      BY <1>2, <2>1, <2>2
    <3>2. \E k \in 1..Len(z) : IsOf(z[k], c, m) /\ z[k].number = n
      BY <3>1
    <3> QED BY <1>1, <3>2, NumberOf
  <2>3. CASE i = 1
    BY <1>1, <2>1, <2>3
  <2> QED BY <2>2, <2>3
<1>5. IsOf(f, c, m) => f.number \in FrameNumbers(q, c, m)
  BY <1>1, <1>2, NumberOf
<1>6. ASSUME Rising(q, c, m) PROVE Rising(z, c, m)
  <2> SUFFICES ASSUME NEW i \in 1..Len(z), NEW j \in 1..Len(z), i < j, IsOf(z[i], c, m), IsOf(z[j], c, m)
               PROVE  z[i].number < z[j].number
    BY <1>1 DEF Rising
  <2>1. i + 1 \in 1..Len(q) /\ j + 1 \in 1..Len(q) /\ i + 1 < j + 1 /\ z[i] = q[i + 1] /\ z[j] = q[j + 1]
    BY <1>1, <1>2
  <2> QED BY <1>6, <2>1 DEF Rising
<1>7. ASSUME Rising(q, c, m), IsOf(f, c, m), NEW n \in FrameNumbers(z, c, m) PROVE f.number < n
  <2>1. PICK i \in 1..Len(z) : IsOf(z[i], c, m) /\ z[i].number = n
    BY <1>1, <1>7, NumberOf
  <2>2. i + 1 \in 1..Len(q) /\ 1 \in 1..Len(q) /\ 1 < i + 1 /\ z[i] = q[i + 1]
    BY <1>1, <1>2
  <2>3. IsOf(q[1], c, m) /\ IsOf(q[i + 1], c, m) /\ q[1].number = f.number /\ q[i + 1].number = n
    BY <1>1, <1>7, <2>1, <2>2
  <2>4. DOMAIN q = 1..Len(q)
    OBVIOUS
  <2>5. q[1].number < q[i + 1].number
    BY <1>7, <2>2, <2>3, <2>4 DEF Rising
  <2> QED BY <2>3, <2>5
<1> QED BY <1>1, <1>3, <1>4, <1>5, <1>6, <1>7 DEF z, f

(* Two sequences in a row.                                                 *)
LEMMA FramesJoined ==
  ASSUME NEW q \in Seq(Frames), NEW r \in Seq(Frames), NEW c, NEW m,
         Rising(q, c, m), Rising(r, c, m),
         \A x \in FrameNumbers(q, c, m), y \in FrameNumbers(r, c, m) : x < y
  PROVE  /\ Rising(q \o r, c, m)
         /\ FrameNumbers(q \o r, c, m) = FrameNumbers(q, c, m) \cup FrameNumbers(r, c, m)
<1> DEFINE z == q \o r
<1>1. /\ Len(q) \in Nat /\ Len(r) \in Nat /\ z \in Seq(Frames) /\ Len(z) = Len(q) + Len(r)
  OBVIOUS
<1>2. \A i \in 1..Len(q) : i \in 1..Len(z) /\ z[i] = q[i]
  OBVIOUS
<1>3. \A i \in 1..Len(r) : Len(q) + i \in 1..Len(z) /\ z[Len(q) + i] = r[i]
  OBVIOUS
<1> HIDE DEF z
<1>4. \A i \in 1..Len(z) : i \in 1..Len(q) \/ (i - Len(q) \in 1..Len(r) /\ z[i] = r[i - Len(q)])
  <2> TAKE i \in 1..Len(z)
  <2>1. CASE i \notin 1..Len(q)
    <3>1. i - Len(q) \in 1..Len(r) /\ Len(q) + (i - Len(q)) = i
      BY <1>1, <2>1
    <3> QED BY <1>3, <3>1
  <2> QED BY <2>1
<1>5. ASSUME NEW n, n \in FrameNumbers(z, c, m) PROVE n \in FrameNumbers(q, c, m) \cup FrameNumbers(r, c, m)
  <2>1. PICK i \in 1..Len(z) : IsOf(z[i], c, m) /\ z[i].number = n
    BY <1>1, <1>5, NumberOf
  <2> QED BY <1>2, <1>4, <2>1, NumberOf
<1>6. ASSUME NEW n, n \in FrameNumbers(q, c, m) \/ n \in FrameNumbers(r, c, m) PROVE n \in FrameNumbers(z, c, m)
  <2>1. CASE n \in FrameNumbers(q, c, m)
    <3>1. PICK i \in 1..Len(q) : IsOf(q[i], c, m) /\ q[i].number = n
      BY <2>1, NumberOf
    <3> QED BY <1>1, <1>2, <3>1, NumberOf
  <2>2. CASE n \in FrameNumbers(r, c, m)
    <3>1. PICK i \in 1..Len(r) : IsOf(r[i], c, m) /\ r[i].number = n
      BY <2>2, NumberOf
    <3> QED BY <1>1, <1>3, <3>1, NumberOf
  <2> QED BY <1>6, <2>1, <2>2
<1>7. Rising(z, c, m)
  <2> SUFFICES ASSUME NEW i \in 1..Len(z), NEW j \in 1..Len(z), i < j, IsOf(z[i], c, m), IsOf(z[j], c, m)
               PROVE  z[i].number < z[j].number
    BY <1>1 DEF Rising
  <2>1. CASE j \in 1..Len(q)
    <3>1. i \in 1..Len(q)
      BY <1>1, <2>1
    <3> QED BY <1>2, <2>1, <3>1 DEF Rising
  <2>2. CASE i \notin 1..Len(q)
    <3>1. /\ i - Len(q) \in 1..Len(r) /\ j - Len(q) \in 1..Len(r) /\ i - Len(q) < j - Len(q)
          /\ z[i] = r[i - Len(q)] /\ z[j] = r[j - Len(q)]
      <4>1. j \notin 1..Len(q)
        BY <1>1, <2>2
      <4>2. i \in Nat /\ j \in Nat /\ Len(q) \in Nat
        BY <1>1
      <4>3. i - Len(q) < j - Len(q)
        BY <4>2
      <4> QED BY <1>4, <2>2, <4>1, <4>3
    <3> QED BY <3>1 DEF Rising
  <2>3. CASE i \in 1..Len(q) /\ j \notin 1..Len(q)
    <3>1. z[i].number \in FrameNumbers(q, c, m)
      BY <1>2, <2>3, NumberOf
    <3>2. z[j].number \in FrameNumbers(r, c, m)
      BY <1>4, <2>3, NumberOf
    <3> QED BY <3>1, <3>2
  <2> QED BY <2>1, <2>2, <2>3
<1> QED BY <1>5, <1>6, <1>7 DEF z

(* Nothing.                                                                *)
LEMMA NoFrames ==
  ASSUME NEW c, NEW m
  PROVE  /\ <<>> \in Seq(Frames) /\ FrameNumbers(<<>>, c, m) = {} /\ Rising(<<>>, c, m)
         /\ <<>> \o <<>> = <<>>
<1>1. <<>> \in Seq(Frames) /\ Len(<<>>) = 0 /\ DOMAIN <<>> = {} /\ 1..0 = {} /\ <<>> \o <<>> = <<>>
  OBVIOUS
<1>2. FrameNumbers(<<>>, c, m) = {}
  BY <1>1, NumberOf
<1> QED BY <1>1, <1>2 DEF Rising

-----------------------------------------------------------------------------
(* The frames of the edge: their flow                                      *)

(* The frames of connection c and module m in the queue q and behind it in *)
(* what the handler holds, h, are those after the first ones up to the last*)
(* one, in order.                                                          *)
Flow(q, h, c, m, first, end) ==
  /\ Rising(q, c, m) /\ Rising(h, c, m)
  /\ \A x \in FrameNumbers(q, c, m), y \in FrameNumbers(h, c, m) : x < y
  /\ FrameNumbers(q, c, m) \cup FrameNumbers(h, c, m) = (first + 1)..end

(* A frame is written.                                                     *)
LEMMA FlowWrite ==
  ASSUME NEW q \in Seq(Frames), NEW h \in Seq(Frames), NEW f \in Frames, NEW c, NEW m,
         NEW end \in Nat, NEW first \in 0..end, Flow(q, h, c, m, first, end)
  PROVE  /\ IsOf(f, c, m) /\ f.number = end + 1 => Flow(q, Append(h, f), c, m, first, end + 1)
         /\ ~IsOf(f, c, m) => Flow(q, Append(h, f), c, m, first, end)
<1> DEFINE Q == FrameNumbers(q, c, m)
           H == FrameNumbers(h, c, m)
           z == Append(h, f)
           Z == FrameNumbers(z, c, m)
<1>1. Rising(q, c, m) /\ Rising(h, c, m) /\ (\A x \in Q, y \in H : x < y) /\ Q \cup H = (first + 1)..end
  BY DEF Flow
<1>2. CASE ~IsOf(f, c, m)
  <2>1. Z = H /\ Rising(z, c, m)
    BY <1>1, <1>2, FrameAppended
  <2> HIDE DEF Q, H, z, Z
  <2>2. (\A x \in Q, y \in Z : x < y) /\ Q \cup Z = (first + 1)..end
    BY <1>1, <2>1
  <2> QED BY <1>1, <1>2, <2>1, <2>2 DEF Flow, Q, H, Z, z
<1>3. CASE IsOf(f, c, m) /\ f.number = end + 1
  <2>0. \A n \in Q \cup H : n \in Nat /\ n < end + 1
    BY <1>1
  <2>1. Z = H \cup {end + 1} /\ Rising(z, c, m)
    BY <1>1, <1>3, <2>0, FrameAppended
  <2> HIDE DEF Q, H, z, Z
  <2>2. \A x \in Q, y \in Z : x < y
    BY <1>1, <2>0, <2>1
  <2>3. Q \cup Z = (first + 1)..(end + 1)
    <3>1. (first + 1)..(end + 1) = ((first + 1)..end) \cup {end + 1}
      OBVIOUS
    <3> QED BY <1>1, <2>1, <3>1
  <2> QED BY <1>1, <1>3, <2>1, <2>2, <2>3 DEF Flow, Q, H, Z, z
<1> QED BY <1>2, <1>3

(* The handler puts its first frame into the queue.                        *)
LEMMA FlowMove ==
  ASSUME NEW q \in Seq(Frames), NEW h \in Seq(Frames), h # <<>>, NEW c, NEW m,
         NEW end \in Nat, NEW first \in 0..end, Flow(q, h, c, m, first, end)
  PROVE  Flow(Append(q, Head(h)), Tail(h), c, m, first, end)
<1> DEFINE Q == FrameNumbers(q, c, m)
           H == FrameNumbers(h, c, m)
           f == Head(h)
           z == Append(q, f)
           Z == FrameNumbers(z, c, m)
           T == FrameNumbers(Tail(h), c, m)
<1>1. Rising(q, c, m) /\ Rising(h, c, m) /\ (\A x \in Q, y \in H : x < y) /\ Q \cup H = (first + 1)..end
  BY DEF Flow
<1>2. f \in Frames /\ Rising(Tail(h), c, m) /\ (IsOf(f, c, m) => \A n \in T : f.number < n)
  BY <1>1, FrameTaken
<1>3. CASE ~IsOf(f, c, m)
  <2>1. T = H
    BY <1>3, FrameTaken
  <2>2. Z = Q /\ Rising(z, c, m)
    BY <1>1, <1>2, <1>3, FrameAppended
  <2> HIDE DEF Q, H, z, Z, T
  <2>3. (\A x \in Z, y \in T : x < y) /\ Z \cup T = (first + 1)..end
    BY <1>1, <2>1, <2>2
  <2> QED BY <1>2, <2>2, <2>3 DEF Flow, Q, H, Z, z, T
<1>4. CASE IsOf(f, c, m)
  <2>1. H = T \cup {f.number}
    BY <1>4, FrameTaken
  <2>2. Z = Q \cup {f.number} /\ Rising(z, c, m)
    BY <1>1, <1>2, <1>4, <2>1, FrameAppended
  <2> HIDE DEF Q, H, z, Z, T
  <2>3. \A x \in Z, y \in T : x < y
    BY <1>1, <1>2, <1>4, <2>1, <2>2
  <2>4. Z \cup T = (first + 1)..end
    BY <1>1, <2>1, <2>2
  <2> QED BY <1>2, <2>2, <2>3, <2>4 DEF Flow, Q, H, Z, z, T
<1> QED BY <1>3, <1>4

(* A frame of another connection or module gets into the queue.            *)
LEMMA FlowForeign ==
  ASSUME NEW q \in Seq(Frames), NEW h, NEW f \in Frames, NEW c, NEW m, NEW first, NEW end,
         ~IsOf(f, c, m), Flow(q, h, c, m, first, end)
  PROVE  Flow(Append(q, f), h, c, m, first, end)
<1>1. FrameNumbers(Append(q, f), c, m) = FrameNumbers(q, c, m) /\ Rising(Append(q, f), c, m)
  BY FrameAppended DEF Flow
<1> QED BY <1>1 DEF Flow

(* The processing loop takes the first frame of the queue.                 *)
LEMMA FlowTake ==
  ASSUME NEW q \in Seq(Frames), NEW h \in Seq(Frames), q # <<>>, NEW c, NEW m,
         NEW end \in Nat, NEW first \in 0..end, Flow(q, h, c, m, first, end)
  PROVE  /\ IsOf(Head(q), c, m) => /\ Head(q).number = first + 1 /\ first + 1 \in 0..end
                                   /\ Flow(Tail(q), h, c, m, first + 1, end)
         /\ ~IsOf(Head(q), c, m) => Flow(Tail(q), h, c, m, first, end)
<1> DEFINE Q == FrameNumbers(q, c, m)
           H == FrameNumbers(h, c, m)
           f == Head(q)
           T == FrameNumbers(Tail(q), c, m)
<1>1. Rising(q, c, m) /\ Rising(h, c, m) /\ (\A x \in Q, y \in H : x < y) /\ Q \cup H = (first + 1)..end
  BY DEF Flow
<1>2. f \in Frames /\ Rising(Tail(q), c, m) /\ (IsOf(f, c, m) => \A n \in T : f.number < n)
  BY <1>1, FrameTaken
<1>3. CASE ~IsOf(f, c, m)
  <2>1. T = Q
    BY <1>3, FrameTaken
  <2> QED BY <1>1, <1>2, <1>3, <2>1 DEF Flow
<1>4. CASE IsOf(f, c, m)
  <2>1. Q = T \cup {f.number}
    BY <1>4, FrameTaken
  <2>2. f.number \in Nat
    BY <1>2 DEF Frames
  <2> DEFINE n == f.number
  <2> HIDE DEF Q, H, T, n
  <2>3. n \in Nat /\ Q = T \cup {n} /\ \A x \in T \cup H : n < x
    BY <1>1, <1>2, <1>4, <2>1, <2>2 DEF n
  <2>4. n \in (first + 1)..end /\ first + 1 \in Q \cup H
    <3>1. n \in (first + 1)..end
      BY <1>1, <2>3
    <3>2. first + 1 \in (first + 1)..end
      BY <3>1
    <3> QED BY <1>1, <3>1, <3>2
  <2>5. n = first + 1
    BY <2>3, <2>4
  <2>6. T \cup H = (first + 2)..end
    <3>1. \A x \in T \cup H : x \in (first + 1)..end /\ x # first + 1
      BY <1>1, <2>3, <2>5
    <3>2. \A x \in (first + 2)..end : x \in (first + 1)..end /\ x # n
      BY <2>5
    <3>3. \A x \in (first + 1)..end : x = n \/ x \in (first + 2)..end
      BY <2>5
    <3> QED BY <1>1, <2>3, <2>5, <3>1, <3>2, <3>3
  <2>7. (first + 1) + 1 = first + 2
    OBVIOUS
  <2>8. \A x \in T, y \in H : x < y
    BY <1>1, <2>3
  <2>9. Flow(Tail(q), h, c, m, first + 1, end)
    BY <1>1, <1>2, <2>6, <2>7, <2>8 DEF Flow, T, H
  <2> QED BY <1>4, <2>4, <2>5, <2>9 DEF n
<1> QED BY <1>3, <1>4

(* Nothing is on its way.                                                  *)
LEMMA FlowNone ==
  ASSUME NEW c, NEW m, NEW end \in Nat
  PROVE  Flow(<<>>, <<>>, c, m, end, end)
<1>1. (end + 1)..end = {}
  OBVIOUS
<1> QED BY <1>1, NoFrames DEF Flow

-----------------------------------------------------------------------------
(* The frames of the edge: the invariant                                   *)

(* The types.                                                              *)
ConnSet == [at : {"unused", "open", "closed", "done"}, product : Products,
            wire : Seq(Frames), pending : {q \in Seq(Frames) : Len(q) <= 1}]
CacheSet == {Nothing} \cup [id : Nat \ {0}, frame : {{f} : f \in Frames}]
WantSet == {[modules |-> <<>>, types |-> {}]} \cup Requests

(* The types of the variables.                                             *)
StreamTypes ==
  /\ listening \subseteq Products
  /\ conn \in [Conns -> ConnSet]
  /\ sent \in [Conns \X Modules -> Nat]
  /\ queue \in Seq(Frames) /\ Len(queue) <= QueueSize
  /\ counter \in Nat /\ inits \in 0..MaxInits
  /\ cache \in [Entries -> CacheSet]
  /\ found \in Seq(Modules) /\ products \subseteq Modules \X Products
  /\ streaming \in [Readers -> BOOLEAN]
  /\ wanted \in [Readers -> WantSet]
  /\ last \in [Readers -> [Types -> Nat \cup {-1}]]
  /\ since \in [Readers -> 0..MaxInits]
  /\ got \in [Readers -> [Entries -> SUBSET Frames]]

(* What a handler holds is of its own connection, and a frame anywhere is  *)
(* of a connection that was made.                                          *)
Made(c) == conn[c].at # "unused"
Owners ==
  /\ \A c \in Conns : \A i \in 1..Len(Held(c)) : Held(c)[i].conn = c
  /\ \A c \in Conns : Held(c) # <<>> => conn[c].at \in {"open", "closed"}
  /\ \A i \in 1..Len(queue) : Made(queue[i].conn)

(* seen[<<c, m>>] is the number of the last frame of c and m the processing    *)
(* loop has taken or a reconfiguration has dropped; what follows is on its *)
(* way.                                                                    *)
Flowing(seen) ==
  \A c \in Conns, m \in Modules :
    /\ seen[<<c, m>>] \in 0..sent[<<c, m>>]
    /\ Flow(queue, Held(c), c, m, seen[<<c, m>>], sent[<<c, m>>])

(* A cached frame is the last one taken, under the key that is its own.    *)
Cached(seen) ==
  \A e \in Entries : \A f \in cache[e].frame :
    /\ f.number = seen[<<f.conn, f.module>>]
    /\ Made(f.conn) /\ EntryOf(f) = e
    /\ <<f.module, conn[f.conn].product>> \in products

(* Ids tell entries apart.                                                 *)
Ids ==
  \A d, e \in Entries :
    cache[d] # Nothing => cache[d].id \in 1..counter /\ (cache[d].id = cache[e].id => d = e)

(* What a stream was sent last for a module and type is what is cached,    *)
(* under an id that will not be sent again, or older.                      *)
Newer(old, new) == old.conn = new.conn => old.number < new.number
Delivered(seen) ==
  \A r \in Readers, e \in Entries : \A old \in got[r][e] :
    /\ streaming[r] /\ old.module = e[1] /\ old.number <= seen[<<old.conn, old.module>>]
    /\ \A new \in cache[e].frame : (old = new /\ cache[e].id <= last[r][e[2]]) \/ Newer(old, new)

(* All of it, for one count of the frames taken.                           *)
FrameInv(seen) ==
  /\ seen \in [Conns \X Modules -> Nat]
  /\ StreamTypes /\ Owners /\ Flowing(seen) /\ Cached(seen) /\ Ids /\ Delivered(seen)

(* The inductive invariant of the frames.                                  *)
StreamInv == \E seen \in [Conns \X Modules -> Nat] : FrameInv(seen)

(* An image tells its product.                                             *)
LEMMA ProductTold ==
  ASSUME NEW p \in Products
  PROVE  DpName(Props(p)) = p
<1>1. Products \subseteq DataProduct
  BY StreamAssumption
<1>2. <<16, 16>> # <<32, 32>>
  OBVIOUS
<1>3. \A x, y \in DataProduct : Props(x) = Props(y) => x = y
  <2> SUFFICES ASSUME NEW x \in DataProduct, NEW y \in DataProduct, Props(x) = Props(y) PROVE x = y
    OBVIOUS
  <2>1. /\ Props(x).ph = Props(y).ph /\ Props(x).shape = Props(y).shape
        /\ Props(x).bytes_per_pixel = Props(y).bytes_per_pixel
    OBVIOUS
  <2>2. /\ IsPh(x) = IsPh(y)
        /\ (x = "ph256") = (y = "ph256")
        /\ (x = "img8") = (y = "img8")
    BY <1>2, <2>1 DEF Props, IsPh, DataProduct
  <2> QED BY <2>2 DEF IsPh, DataProduct
<1> QED BY <1>1, <1>3 DEF DpName

(* What the steps use of the types.                                        *)
LEMMA FrameFacts ==
  ASSUME NEW seen, FrameInv(seen)
  PROVE  /\ \A c \in Conns :
              /\ conn[c] \in ConnSet /\ Held(c) \in Seq(Frames)
              /\ conn[c].wire \in Seq(Frames) /\ conn[c].pending \in Seq(Frames) /\ Len(conn[c].pending) <= 1
              /\ \A m \in Modules : sent[<<c, m>>] \in Nat
         /\ QueueSize \in Nat \ {0} /\ Len(queue) \in Nat
<1>1. conn \in [Conns -> ConnSet] /\ sent \in [Conns \X Modules -> Nat] /\ queue \in Seq(Frames)
  BY DEF FrameInv, StreamTypes
<1>2. ASSUME NEW c \in Conns
      PROVE  /\ conn[c] \in ConnSet
             /\ conn[c].wire \in Seq(Frames) /\ conn[c].pending \in Seq(Frames) /\ Len(conn[c].pending) <= 1
             /\ \A m \in Modules : sent[<<c, m>>] \in Nat
  BY <1>1 DEF ConnSet
<1>3. ASSUME NEW c \in Conns PROVE Held(c) \in Seq(Frames)
  BY <1>2 DEF Held
<1> QED BY <1>1, <1>2, <1>3, StreamAssumption

(* ... and of the frames.                                                  *)
LEMMA QueuedFrames ==
  ASSUME StreamTypes
  PROVE  /\ \A i \in 1..Len(queue) : queue[i] \in Frames /\ queue[i].conn \in Conns /\ queue[i].module \in Modules
         /\ \A e \in Entries : \A f \in cache[e].frame :
              f \in Frames /\ f.conn \in Conns /\ f.module \in Modules /\ f.number \in Nat /\ cache[e].frame = {f}
         /\ \A r \in Readers, e \in Entries : \A f \in got[r][e] :
              f \in Frames /\ f.conn \in Conns /\ f.module \in Modules /\ f.number \in Nat
<1>1. queue \in Seq(Frames) /\ cache \in [Entries -> CacheSet] /\ got \in [Readers -> [Entries -> SUBSET Frames]]
  BY DEF StreamTypes
<1>2. \A f \in Frames : f.conn \in Conns /\ f.module \in Modules /\ f.number \in Nat
  BY DEF Frames
<1>3. \A i \in 1..Len(queue) : queue[i] \in Frames
  BY <1>1
<1>4. ASSUME NEW e \in Entries, NEW f \in cache[e].frame PROVE f \in Frames /\ cache[e].frame = {f}
  <2>1. cache[e] \in CacheSet
    BY <1>1
  <2> QED BY <2>1 DEF CacheSet, Nothing
<1>5. ASSUME NEW r \in Readers, NEW e \in Entries, NEW f \in got[r][e] PROVE f \in Frames
  BY <1>1
<1> QED BY <1>2, <1>3, <1>4, <1>5

(* A step that moves no frame.                                             *)
LEMMA FramesStay ==
  ASSUME NEW seen, FrameInv(seen), StreamTypes',
         UNCHANGED <<sent, queue, counter, cache, products, streaming, last, got>>,
         \A c \in Conns : /\ Held(c)' = Held(c)
                          /\ Held(c) # <<>> => conn'[c].at \in {"open", "closed"}
                          /\ Made(c) => Made(c)' /\ conn'[c].product = conn[c].product
  PROVE  FrameInv(seen)'
<1>1. StreamTypes /\ Owners /\ Flowing(seen) /\ Cached(seen) /\ Ids /\ Delivered(seen)
  BY DEF FrameInv
<1>2. queue' = queue /\ cache' = cache /\ sent' = sent /\ products' = products
  OBVIOUS
<1>3. Owners'
  <2>1. \A i \in 1..Len(queue) : queue[i].conn \in Conns
    BY <1>1, QueuedFrames
  <2>2. \A i \in 1..Len(queue) : Made(queue[i].conn)'
    BY <1>1, <2>1 DEF Owners
  <2> QED BY <1>1, <1>2, <2>2 DEF Owners, Made
<1>4. Flowing(seen)'
  BY <1>1, <1>2 DEF Flowing
<1>5. Cached(seen)'
  <2> SUFFICES ASSUME NEW e \in Entries, NEW f \in cache[e].frame
               PROVE  /\ f.number = seen[<<f.conn, f.module>>] /\ Made(f.conn)' /\ EntryOf(f)' = e
                      /\ <<f.module, conn'[f.conn].product>> \in products
    BY <1>2 DEF Cached
  <2>1. f.conn \in Conns
    BY <1>1 DEF StreamTypes, CacheSet, Frames, Nothing
  <2>2. f.number = seen[<<f.conn, f.module>>] /\ Made(f.conn) /\ EntryOf(f) = e
        /\ <<f.module, conn[f.conn].product>> \in products
    BY <1>1 DEF Cached
  <2>3. conn'[f.conn].product = conn[f.conn].product /\ Made(f.conn)'
    BY <2>1, <2>2
  <2>4. EntryOf(f)' = EntryOf(f)
    BY <2>3 DEF EntryOf
  <2> QED BY <2>2, <2>3, <2>4
<1>6. Ids' /\ Delivered(seen)'
  BY <1>1 DEF Ids, Delivered
<1>7. seen \in [Conns \X Modules -> Nat]
  BY DEF FrameInv
<1> QED BY <1>3, <1>4, <1>5, <1>6, <1>7 DEF FrameInv

(* Steps of the sources that move no frame.                                *)
LEMMA ListenKept ==
  ASSUME NEW seen, FrameInv(seen), NEW p \in Products, Listen(p)
  PROVE  FrameInv(seen)'
<1>1. /\ listening' = listening \cup {p}
      /\ UNCHANGED <<conn, sent, queue, counter, cache, found, products, inits, streaming, wanted, last, since, got>>
  BY DEF Listen, hpio, clients
<1>2. StreamTypes'
  BY <1>1 DEF FrameInv, StreamTypes
<1>3. \A c \in Conns : Held(c)' = Held(c) /\ (Made(c) => Made(c)' /\ conn'[c].product = conn[c].product)
  BY <1>1 DEF Held, Made
<1>4. \A c \in Conns : Held(c) # <<>> => conn'[c].at \in {"open", "closed"}
  BY <1>1 DEF FrameInv, Owners
<1> QED BY <1>1, <1>2, <1>3, <1>4, FramesStay

(* A connection is made.                                                   *)
LEMMA ConnectKept ==
  ASSUME NEW seen, FrameInv(seen), NEW p \in Products, NEW c \in Conns, Connect(c, p)
  PROVE  FrameInv(seen)'
<1> DEFINE new == Connection("open", p)
<1>1. /\ conn[c].at = "unused" /\ conn' = [conn EXCEPT ![c] = new]
      /\ UNCHANGED <<listening, sent, queue, counter, cache, found, products, inits, streaming, wanted, last, since, got>>
  BY DEF Connect, hpio, clients
<1>2. new \in ConnSet /\ new.at = "open" /\ new.wire = <<>> /\ new.pending = <<>>
  <2>1. new = [at |-> "open", product |-> p, wire |-> <<>>, pending |-> <<>>]
    BY DEF Connection
  <2>2. <<>> \in {q \in Seq(Frames) : Len(q) <= 1} /\ <<>> \in Seq(Frames)
    OBVIOUS
  <2>3. [at |-> "open", product |-> p, wire |-> <<>>, pending |-> <<>>] \in ConnSet
    BY <2>2 DEF ConnSet
  <2> HIDE DEF new
  <2> QED BY <2>1, <2>3
<1> HIDE DEF new
<1>3. conn \in [Conns -> ConnSet]
  BY DEF FrameInv, StreamTypes
<1>4. /\ conn' \in [Conns -> ConnSet] /\ conn'[c] = new
      /\ \A d \in Conns : d # c => conn'[d] = conn[d]
  BY <1>1, <1>2, <1>3
<1>5. StreamTypes'
  BY <1>1, <1>4 DEF FrameInv, StreamTypes
<1>6. Held(c) = <<>> /\ ~Made(c)
  BY <1>1 DEF FrameInv, Owners, Made
<1>7. Held(c)' = <<>>
  BY <1>2, <1>4 DEF Held
<1>8. ASSUME NEW d \in Conns
      PROVE  /\ Held(d)' = Held(d)
             /\ Held(d) # <<>> => conn'[d].at \in {"open", "closed"}
             /\ Made(d) => Made(d)' /\ conn'[d].product = conn[d].product
  <2>1. CASE d = c
    BY <1>6, <1>7, <2>1
  <2>2. CASE d # c
    BY <1>4, <2>2 DEF FrameInv, Owners, Held, Made
  <2> QED BY <2>1, <2>2
<1> QED BY <1>1, <1>5, <1>8, FramesStay

(* Hashpipe closes it, or its handler ends.                                *)
LEMMA EndKept ==
  ASSUME NEW seen, FrameInv(seen), NEW c \in Conns, Disconnect(c) \/ HandlerEnds(c)
  PROVE  FrameInv(seen)'
<1>1. UNCHANGED <<listening, sent, queue, counter, cache, found, products, inits, streaming, wanted, last, since, got>>
  BY DEF Disconnect, HandlerEnds, hpio, clients
<1>2. /\ conn[c].at \in {"open", "closed"}
      /\ \/ conn' = [conn EXCEPT ![c].at = "closed"]
         \/ conn' = [conn EXCEPT ![c].at = "done"] /\ Held(c) = <<>>
  <2>1. ASSUME HandlerEnds(c) PROVE Held(c) = <<>>
    <3>1. conn[c].wire \o conn[c].pending = <<>>
      BY <2>1 DEF HandlerEnds
    <3>2. conn[c].wire \in Seq(Frames) /\ conn[c].pending \in Seq(Frames)
      BY FrameFacts
    <3>3. conn[c].wire = <<>> /\ conn[c].pending = <<>>
      BY <3>1, <3>2
    <3> QED BY <3>3 DEF Held
  <2> QED BY <2>1 DEF Disconnect, HandlerEnds
<1>3. conn \in [Conns -> ConnSet]
  BY DEF FrameInv, StreamTypes
<1>4. /\ conn' \in [Conns -> ConnSet]
      /\ \A d \in Conns : d # c => conn'[d] = conn[d]
      /\ conn'[c].wire = conn[c].wire /\ conn'[c].pending = conn[c].pending /\ conn'[c].product = conn[c].product
      /\ conn'[c].at \in {"closed", "done"} /\ (conn'[c].at = "closed" \/ Held(c) = <<>>)
  <2>1. conn[c] \in ConnSet
    BY <1>3
  <2>2. CASE conn' = [conn EXCEPT ![c].at = "closed"]
    BY <1>3, <2>1, <2>2 DEF ConnSet
  <2>3. CASE conn' = [conn EXCEPT ![c].at = "done"] /\ Held(c) = <<>>
    BY <1>3, <2>1, <2>3 DEF ConnSet
  <2> QED BY <1>2, <2>2, <2>3
<1>5. StreamTypes'
  BY <1>1, <1>4 DEF FrameInv, StreamTypes
<1>6. ASSUME NEW d \in Conns
      PROVE  /\ Held(d)' = Held(d)
             /\ Held(d) # <<>> => conn'[d].at \in {"open", "closed"}
             /\ Made(d) => Made(d)' /\ conn'[d].product = conn[d].product
  <2>1. CASE d = c
    BY <1>4, <2>1 DEF Held, Made
  <2>2. CASE d # c
    BY <1>4, <2>2 DEF FrameInv, Owners, Held, Made
  <2> QED BY <2>1, <2>2
<1> QED BY <1>1, <1>5, <1>6, FramesStay

(* Steps that change what handlers hold and the queue, but take no frame.  *)
LEMMA FramesMove ==
  ASSUME NEW seen, FrameInv(seen), StreamTypes', Owners', Flowing(seen)',
         UNCHANGED <<counter, cache, products, streaming, last, got>>,
         \A c \in Conns : Made(c) => Made(c)' /\ conn'[c].product = conn[c].product
  PROVE  FrameInv(seen)'
<1>1. StreamTypes /\ Cached(seen) /\ Ids /\ Delivered(seen) /\ seen \in [Conns \X Modules -> Nat]
  BY DEF FrameInv
<1>2. Cached(seen)'
  <2> SUFFICES ASSUME NEW e \in Entries, NEW f \in cache[e].frame
               PROVE  /\ f.number = seen[<<f.conn, f.module>>] /\ Made(f.conn)' /\ EntryOf(f)' = e
                      /\ <<f.module, conn'[f.conn].product>> \in products
    BY DEF Cached
  <2>1. f.conn \in Conns
    BY <1>1, QueuedFrames
  <2>2. f.number = seen[<<f.conn, f.module>>] /\ Made(f.conn) /\ EntryOf(f) = e
        /\ <<f.module, conn[f.conn].product>> \in products
    BY <1>1 DEF Cached
  <2>3. conn'[f.conn].product = conn[f.conn].product /\ Made(f.conn)'
    BY <2>1, <2>2
  <2>4. EntryOf(f)' = EntryOf(f)
    BY <2>3 DEF EntryOf
  <2> QED BY <2>2, <2>3, <2>4
<1>3. Ids' /\ Delivered(seen)'
  BY <1>1 DEF Ids, Delivered
<1> QED BY <1>1, <1>2, <1>3 DEF FrameInv

(* A first frame and the others.                                           *)
LEMMA FirstAndRest ==
  ASSUME NEW x \in Frames, NEW w \in Seq(Frames)
  PROVE  /\ <<x>> \o w \in Seq(Frames) /\ <<x>> \o w # <<>>
         /\ Head(<<x>> \o w) = x /\ Tail(<<x>> \o w) = w
         /\ <<>> \o w = w
<1> DEFINE z == <<x>> \o w
<1>1. z \in Seq(Frames) /\ Len(z) = Len(w) + 1 /\ Len(w) \in Nat /\ z[1] = x /\ \A i \in 1..Len(w) : z[i + 1] = w[i]
  OBVIOUS
<1>2. z # <<>> /\ Head(z) = x
  BY <1>1
<1> HIDE DEF z
<1>3. Tail(z) \in Seq(Frames) /\ Len(Tail(z)) = Len(w) /\ \A i \in 1..Len(w) : Tail(z)[i] = w[i]
  BY <1>1, <1>2
<1>4. Tail(z) = w
  BY <1>3, SeqEqual
<1>5. <<>> \o w = w
  OBVIOUS
<1> QED BY <1>1, <1>2, <1>4, <1>5 DEF z

(* ... taken apart and put together.                                       *)
LEMMA TakenApart ==
  ASSUME NEW w \in Seq(Frames), w # <<>>
  PROVE  /\ <<Head(w)>> \o Tail(w) = w /\ Head(w) \in Frames /\ Tail(w) \in Seq(Frames)
         /\ Len(w) <= 1 => w = <<Head(w)>>
<1> DEFINE z == <<Head(w)>> \o Tail(w)
<1>1. /\ Len(w) \in Nat /\ Len(w) > 0 /\ Head(w) \in Frames /\ Tail(w) \in Seq(Frames) /\ Len(Tail(w)) = Len(w) - 1
      /\ Head(w) = w[1] /\ \A i \in 1..Len(Tail(w)) : Tail(w)[i] = w[i + 1]
  OBVIOUS
<1>2. /\ z \in Seq(Frames) /\ Len(z) = Len(Tail(w)) + 1 /\ z[1] = Head(w)
      /\ \A i \in 1..Len(Tail(w)) : z[i + 1] = Tail(w)[i]
  BY <1>1
<1> HIDE DEF z
<1>3. ASSUME NEW i \in 1..Len(w) PROVE z[i] = w[i]
  <2>1. CASE i = 1
    BY <1>1, <1>2, <2>1
  <2>2. CASE i # 1
    <3>1. i - 1 \in 1..Len(Tail(w)) /\ (i - 1) + 1 = i
      BY <1>1, <2>2
    <3> QED BY <1>1, <1>2, <3>1
  <2> QED BY <2>1, <2>2
<1>4. Len(z) = Len(w)
  BY <1>1, <1>2
<1>5. z = w
  BY <1>2, <1>3, <1>4, SeqEqual
<1>6. ASSUME Len(w) <= 1 PROVE w = <<Head(w)>>
  <2>1. Len(w) = 1
    BY <1>1, <1>6
  <2>2. <<Head(w)>> \in Seq(Frames) /\ Len(<<Head(w)>>) = 1 /\ <<Head(w)>>[1] = w[1]
    BY <1>1
  <2>3. \A i \in 1..1 : i = 1
    OBVIOUS
  <2> QED BY <2>1, <2>2, <2>3, SeqEqual
<1> QED BY <1>1, <1>5, <1>6 DEF z

(* What is appended to the end of two is appended to both.                 *)
LEMMA AppendedToBoth ==
  ASSUME NEW p \in Seq(Frames), NEW w \in Seq(Frames), NEW x \in Frames
  PROVE  p \o Append(w, x) = Append(p \o w, x) /\ p \o <<x>> = Append(p, x)
<1> DEFINE u == p \o Append(w, x)
           v == Append(p \o w, x)
<1>1. /\ Len(p) \in Nat /\ Len(w) \in Nat
      /\ u \in Seq(Frames) /\ v \in Seq(Frames) /\ Len(u) = Len(p) + Len(w) + 1 /\ Len(v) = Len(p) + Len(w) + 1
  OBVIOUS
<1>2. ASSUME NEW i \in 1..Len(u) PROVE u[i] = v[i]
  <2>1. CASE i \in 1..Len(p)
    BY <1>1, <2>1
  <2>2. CASE i - Len(p) \in 1..Len(w)
    BY <1>1, <2>2
  <2>3. CASE i = Len(p) + Len(w) + 1
    BY <1>1, <2>3
  <2> QED BY <1>1, <2>1, <2>2, <2>3
<1>3. u = v
  <2> HIDE DEF u, v
  <2> QED BY <1>1, <1>2, SeqEqual
<1>4. p \o <<x>> = Append(p, x)
  OBVIOUS
<1> QED BY <1>3, <1>4

(* The handler of c puts its first frame into the queue.                   *)
LEMMA MoveKept ==
  ASSUME NEW seen, FrameInv(seen), NEW c \in Conns, StreamTypes', Held(c) # <<>>,
         queue' = Append(queue, Head(Held(c))), Held(c)' = Tail(Held(c)),
         UNCHANGED <<sent, counter, cache, products, streaming, last, got>>,
         \A d \in Conns : /\ d # c => Held(d)' = Held(d)
                          /\ conn'[d].at = conn[d].at /\ conn'[d].product = conn[d].product
  PROVE  FrameInv(seen)'
<1> DEFINE f == Head(Held(c))
<1>1. StreamTypes /\ Owners /\ Flowing(seen)
  BY DEF FrameInv
<1>2. /\ queue \in Seq(Frames) /\ Held(c) \in Seq(Frames) /\ f \in Frames /\ queue' = Append(queue, f)
      /\ sent' = sent /\ \A d \in Conns : Held(d) \in Seq(Frames) /\ \A m \in Modules : sent[<<d, m>>] \in Nat
  BY <1>1, FrameFacts, TakenApart DEF StreamTypes
<1>3. f.conn = c /\ Made(c) /\ conn[c].at \in {"open", "closed"}
  <2>1. Len(Held(c)) \in Nat /\ Len(Held(c)) > 0 /\ f = Held(c)[1]
    BY <1>2
  <2>2. 1 \in 1..Len(Held(c))
    BY <2>1
  <2> QED BY <1>1, <2>1, <2>2 DEF Owners, Made
<1>4. \A d \in Conns : (Made(d) <=> Made(d)')
  BY DEF Made
<1>5. Owners'
  <2>1. \A d \in Conns : \A i \in 1..Len(Held(d)') : Held(d)'[i].conn = d
    <3> SUFFICES ASSUME NEW d \in Conns, NEW i \in 1..Len(Held(d)') PROVE Held(d)'[i].conn = d
      OBVIOUS
    <3>1. CASE d # c
      BY <1>1, <3>1 DEF Owners
    <3>2. CASE d = c
      <4>1. i + 1 \in 1..Len(Held(c)) /\ Held(c)'[i] = Held(c)[i + 1]
        BY <1>2, <3>2
      <4> QED BY <1>1, <3>2, <4>1 DEF Owners
    <3> QED BY <3>1, <3>2
  <2>2. \A d \in Conns : Held(d)' # <<>> => conn'[d].at \in {"open", "closed"}
    <3> SUFFICES ASSUME NEW d \in Conns, Held(d)' # <<>> PROVE conn'[d].at \in {"open", "closed"}
      OBVIOUS
    <3>1. CASE d # c
      BY <1>1, <3>1 DEF Owners
    <3>2. CASE d = c
      BY <1>3, <3>2
    <3> QED BY <3>1, <3>2
  <2>3. \A i \in 1..Len(queue') : conn'[queue'[i].conn].at # "unused"
    <3>1. \A i \in 1..Len(queue') : (i \in 1..Len(queue) /\ queue'[i] = queue[i]) \/ queue'[i] = f
      BY <1>2
    <3>2. \A i \in 1..Len(queue) : queue[i].conn \in Conns /\ Made(queue[i].conn)
      BY <1>1, QueuedFrames DEF Owners
    <3>3. SUFFICES ASSUME NEW i \in 1..Len(queue') PROVE conn'[queue'[i].conn].at # "unused"
      OBVIOUS
    <3>4. queue'[i].conn \in Conns /\ Made(queue'[i].conn)
      BY <1>3, <3>1, <3>2
    <3> QED BY <3>4 DEF Made
  <2> QED BY <2>1, <2>2, <2>3 DEF Owners, Made
<1>6. Flowing(seen)'
  <2> SUFFICES ASSUME NEW d \in Conns, NEW m \in Modules
               PROVE  /\ seen[<<d, m>>] \in 0..sent[<<d, m>>]
                      /\ Flow(queue', Held(d)', d, m, seen[<<d, m>>], sent[<<d, m>>])
    BY <1>2 DEF Flowing
  <2>1. seen[<<d, m>>] \in 0..sent[<<d, m>>] /\ Flow(queue, Held(d), d, m, seen[<<d, m>>], sent[<<d, m>>])
    BY <1>1 DEF Flowing
  <2>2. CASE d = c
    BY <1>2, <2>1, <2>2, FlowMove
  <2>3. CASE d # c
    <3>1. ~IsOf(f, d, m)
      BY <1>3, <2>3 DEF IsOf
    <3> QED BY <1>2, <2>1, <2>3, <3>1, FlowForeign
  <2> QED BY <2>2, <2>3
<1> QED BY <1>4, <1>5, <1>6, FramesMove

(* The handler reads a frame, or goes on with the one it was blocked with. *)
LEMMA HandlerKept ==
  ASSUME NEW seen, FrameInv(seen), NEW c \in Conns, Handler(c)
  PROVE  FrameInv(seen)'
<1> DEFINE wire == conn[c].wire
           pending == conn[c].pending
<1>1. /\ conn \in [Conns -> ConnSet] /\ conn[c] \in ConnSet /\ queue \in Seq(Frames)
      /\ wire \in Seq(Frames) /\ pending \in Seq(Frames) /\ Len(pending) <= 1
      /\ Len(queue) \in Nat /\ QueueSize \in Nat
  BY FrameFacts DEF FrameInv, StreamTypes
<1>2. UNCHANGED <<listening, sent, counter, cache, found, products, inits, streaming, wanted, last, since, got>>
  BY DEF Handler, Receive, Unblock, clients
<1>3. CASE wire # <<>> /\ pending = <<>> /\ Room /\ queue' = Append(queue, Head(wire))
           /\ conn' = [conn EXCEPT ![c].wire = Tail(@)]
  <2>1. Head(wire) \in Frames /\ Tail(wire) \in Seq(Frames)
    BY <1>1, <1>3, TakenApart
  <2>2. /\ conn' \in [Conns -> ConnSet]
        /\ \A d \in Conns : d # c => conn'[d] = conn[d]
        /\ conn'[c].wire = Tail(wire) /\ conn'[c].pending = <<>>
        /\ conn'[c].at = conn[c].at /\ conn'[c].product = conn[c].product
    BY <1>1, <1>3, <2>1 DEF ConnSet
  <2>3. queue' \in Seq(Frames) /\ Len(queue') <= QueueSize
    <3>1. queue' = Append(queue, Head(wire)) /\ Len(queue) < QueueSize
      BY <1>3 DEF Room
    <3>2. /\ Append(queue, Head(wire)) \in Seq(Frames)
          /\ Len(Append(queue, Head(wire))) = Len(queue) + 1
      BY <1>1, <2>1
    <3>3. \A i \in Nat : i < QueueSize => i + 1 <= QueueSize
      BY <1>1
    <3> QED BY <1>1, <3>1, <3>2, <3>3
  <2>4. StreamTypes'
    BY <1>2, <2>2, <2>3 DEF FrameInv, StreamTypes
  <2>5. Held(c) = wire /\ Held(c)' = Tail(wire)
    <3>1. Held(c) = <<>> \o wire /\ Held(c)' = <<>> \o Tail(wire)
      BY <1>3, <2>2 DEF Held
    <3> QED BY <1>1, <2>1, <3>1, FirstAndRest
  <2>6. \A d \in Conns : /\ d # c => Held(d)' = Held(d)
                        /\ conn'[d].at = conn[d].at /\ conn'[d].product = conn[d].product
    BY <2>2 DEF Held
  <2> QED BY <1>2, <1>3, <2>4, <2>5, <2>6, MoveKept
<1>4. CASE wire # <<>> /\ pending = <<>> /\ UNCHANGED queue
           /\ conn' = [conn EXCEPT ![c].wire = Tail(@), ![c].pending = <<Head(wire)>>]
  <2>1. Head(wire) \in Frames /\ Tail(wire) \in Seq(Frames) /\ <<Head(wire)>> \o Tail(wire) = wire
    BY <1>1, <1>4, TakenApart
  <2>2. <<Head(wire)>> \in Seq(Frames) /\ Len(<<Head(wire)>>) = 1
    BY <2>1
  <2>3. /\ conn' \in [Conns -> ConnSet]
        /\ \A d \in Conns : d # c => conn'[d] = conn[d]
        /\ conn'[c].wire = Tail(wire) /\ conn'[c].pending = <<Head(wire)>>
        /\ conn'[c].at = conn[c].at /\ conn'[c].product = conn[c].product
    <3> DEFINE first == Head(wire)
               others == Tail(wire)
    <3>0. /\ first \in Frames /\ others \in Seq(Frames) /\ <<first>> \in {q \in Seq(Frames) : Len(q) <= 1}
          /\ conn' = [conn EXCEPT ![c].wire = others, ![c].pending = <<first>>]
      BY <1>4, <2>1, <2>2
    <3> HIDE DEF first, others
    <3>1. /\ \A d \in Conns : d # c => conn'[d] = conn[d]
          /\ conn'[c] = [conn[c] EXCEPT !.wire = others, !.pending = <<first>>]
          /\ DOMAIN conn' = Conns /\ conn' = [d \in Conns |-> conn'[d]]
      BY <1>1, <3>0
    <3>2. /\ conn'[c].wire = others /\ conn'[c].pending = <<first>>
          /\ conn'[c].at = conn[c].at /\ conn'[c].product = conn[c].product
      BY <1>1, <3>1 DEF ConnSet
    <3>3. conn'[c] \in ConnSet
      BY <1>1, <3>0, <3>1 DEF ConnSet
    <3>4. conn' \in [Conns -> ConnSet]
      BY <1>1, <3>1, <3>3
    <3> QED BY <3>1, <3>2, <3>4 DEF first, others
  <2>4. StreamTypes'
    BY <1>2, <1>4, <2>3 DEF FrameInv, StreamTypes
  <2>5. Held(c)' = Held(c)
    BY <1>1, <1>4, <2>1, <2>3 DEF Held
  <2>6. ASSUME NEW d \in Conns
        PROVE  /\ Held(d)' = Held(d)
               /\ Held(d) # <<>> => conn'[d].at \in {"open", "closed"}
               /\ Made(d) => Made(d)' /\ conn'[d].product = conn[d].product
    <3>1. Held(d)' = Held(d)
      BY <2>3, <2>5 DEF Held
    <3>2. conn'[d].at = conn[d].at /\ conn'[d].product = conn[d].product
      BY <2>3
    <3> QED BY <3>1, <3>2 DEF FrameInv, Owners, Made
  <2> QED BY <1>2, <1>4, <2>4, <2>6, FramesStay
<1>5. CASE pending # <<>> /\ Room /\ queue' = queue \o pending /\ conn' = [conn EXCEPT ![c].pending = <<>>]
  <2> DEFINE x == Head(pending)
  <2>1. x \in Frames /\ pending = <<x>>
    BY <1>1, <1>5, TakenApart
  <2> HIDE DEF x
  <2>2. queue' = Append(queue, x)
    BY <1>1, <1>5, <2>1, AppendedToBoth
  <2>3. <<>> \in {q \in Seq(Frames) : Len(q) <= 1}
    OBVIOUS
  <2>4. /\ conn' \in [Conns -> ConnSet]
        /\ \A d \in Conns : d # c => conn'[d] = conn[d]
        /\ conn'[c].wire = wire /\ conn'[c].pending = <<>>
        /\ conn'[c].at = conn[c].at /\ conn'[c].product = conn[c].product
    BY <1>1, <1>5, <2>3 DEF ConnSet
  <2>5. queue' \in Seq(Frames) /\ Len(queue') <= QueueSize
    BY <1>1, <1>5, <2>1, <2>2 DEF Room
  <2>6. StreamTypes'
    BY <1>2, <2>4, <2>5 DEF FrameInv, StreamTypes
  <2>7. Held(c) # <<>> /\ Head(Held(c)) = x /\ Tail(Held(c)) = wire /\ Held(c)' = wire
    BY <1>1, <2>1, <2>4, FirstAndRest DEF Held
  <2>8. \A d \in Conns : /\ d # c => Held(d)' = Held(d)
                        /\ conn'[d].at = conn[d].at /\ conn'[d].product = conn[d].product
    BY <2>4 DEF Held
  <2> QED BY <1>2, <2>2, <2>6, <2>7, <2>8, MoveKept
<1> QED BY <1>3, <1>4, <1>5 DEF Handler, Receive, Unblock, Put

(* Hashpipe writes a frame.                                                *)
LEMMA WriteKept ==
  ASSUME NEW seen, FrameInv(seen), NEW c \in Conns, NEW m \in Modules, Write(c, m)
  PROVE  FrameInv(seen)'
<1> DEFINE f == [module |-> m, conn |-> c, number |-> sent[<<c, m>>] + 1]
           wire == conn[c].wire
<1>1. /\ conn[c].at = "open"
      /\ sent' = [sent EXCEPT ![<<c, m>>] = @ + 1]
      /\ conn' = [conn EXCEPT ![c].wire = Append(@, f)]
      /\ UNCHANGED <<listening, queue, counter, cache, found, products, inits, streaming, wanted, last, since, got>>
  BY DEF Write, hpio, clients
<1>2. /\ conn \in [Conns -> ConnSet] /\ sent \in [Conns \X Modules -> Nat] /\ queue \in Seq(Frames)
      /\ wire \in Seq(Frames) /\ conn[c].pending \in Seq(Frames) /\ conn[c] \in ConnSet
      /\ \A d \in Conns : Held(d) \in Seq(Frames)
      /\ StreamTypes /\ Owners /\ Flowing(seen)
  BY FrameFacts DEF FrameInv, StreamTypes
<1>3. /\ sent' \in [Conns \X Modules -> Nat] /\ sent'[<<c, m>>] = sent[<<c, m>>] + 1 /\ sent[<<c, m>>] \in Nat
      /\ \A k \in Conns \X Modules : k # <<c, m>> => sent'[k] = sent[k]
  BY <1>1, <1>2
<1>4. f \in Frames /\ f.conn = c /\ f.module = m /\ f.number = sent[<<c, m>>] + 1
  BY <1>3 DEF Frames
<1> HIDE DEF f
<1>5. /\ conn' \in [Conns -> ConnSet]
      /\ \A d \in Conns : d # c => conn'[d] = conn[d]
      /\ conn'[c].wire = Append(wire, f) /\ conn'[c].pending = conn[c].pending
      /\ conn'[c].at = conn[c].at /\ conn'[c].product = conn[c].product
  <2>1. Append(wire, f) \in Seq(Frames)
    BY <1>2, <1>4
  <2> QED BY <1>1, <1>2, <2>1 DEF ConnSet
<1>6. Held(c)' = Append(Held(c), f) /\ \A d \in Conns : d # c => Held(d)' = Held(d)
  <2>1. Held(c)' = conn'[c].pending \o conn'[c].wire /\ Held(c) = conn[c].pending \o wire
    BY DEF Held
  <2>2. conn[c].pending \o Append(wire, f) = Append(conn[c].pending \o wire, f)
    <3> DEFINE held == conn[c].pending
    <3>1. held \in Seq(Frames) /\ wire \in Seq(Frames) /\ f \in Frames
      BY <1>2, <1>4
    <3> HIDE DEF held, wire
    <3>2. held \o Append(wire, f) = Append(held \o wire, f)
      BY <3>1, AppendedToBoth
    <3> QED BY <3>2 DEF held
  <2>3. \A d \in Conns : d # c => Held(d)' = Held(d)
    BY <1>5 DEF Held
  <2>4. conn'[c].pending \o conn'[c].wire = conn[c].pending \o Append(wire, f)
    BY <1>5
  <2> QED BY <2>1, <2>2, <2>3, <2>4
<1>7. StreamTypes'
  BY <1>1, <1>2, <1>3, <1>5 DEF StreamTypes
<1>8. \A d \in Conns : Made(d) => Made(d)' /\ conn'[d].product = conn[d].product
  BY <1>5 DEF Made
<1>9. Owners'
  <2>1. \A d \in Conns : \A i \in 1..Len(Held(d)') : Held(d)'[i].conn = d
    <3> SUFFICES ASSUME NEW d \in Conns, NEW i \in 1..Len(Held(d)') PROVE Held(d)'[i].conn = d
      OBVIOUS
    <3>1. CASE d # c
      BY <1>2, <1>6, <3>1 DEF Owners
    <3>2. CASE d = c
      <4>1. (i \in 1..Len(Held(c)) /\ Held(c)'[i] = Held(c)[i]) \/ Held(c)'[i] = f
        BY <1>2, <1>4, <1>6, <3>2
      <4> QED BY <1>2, <1>4, <3>2, <4>1 DEF Owners
    <3> QED BY <3>1, <3>2
  <2>2. \A d \in Conns : Held(d)' # <<>> => conn'[d].at \in {"open", "closed"}
    <3> SUFFICES ASSUME NEW d \in Conns, Held(d)' # <<>> PROVE conn'[d].at \in {"open", "closed"}
      OBVIOUS
    <3>1. CASE d # c
      BY <1>2, <1>5, <1>6, <3>1 DEF Owners
    <3>2. CASE d = c
      BY <1>1, <1>5, <3>2
    <3> QED BY <3>1, <3>2
  <2>3. \A i \in 1..Len(queue') : conn'[queue'[i].conn].at # "unused"
    <3> SUFFICES ASSUME NEW i \in 1..Len(queue) PROVE conn'[queue[i].conn].at # "unused"
      BY <1>1
    <3>1. queue[i].conn \in Conns /\ Made(queue[i].conn)
      BY <1>2, QueuedFrames DEF Owners
    <3> QED BY <1>5, <3>1 DEF Made
  <2> QED BY <2>1, <2>2, <2>3 DEF Owners, Made
<1>10. Flowing(seen)'
  <2> SUFFICES ASSUME NEW d \in Conns, NEW n \in Modules
               PROVE  /\ seen[<<d, n>>] \in 0..sent'[<<d, n>>]
                      /\ Flow(queue, Held(d)', d, n, seen[<<d, n>>], sent'[<<d, n>>])
    BY <1>1 DEF Flowing
  <2>1. seen[<<d, n>>] \in 0..sent[<<d, n>>] /\ Flow(queue, Held(d), d, n, seen[<<d, n>>], sent[<<d, n>>])
    BY <1>2 DEF Flowing
  <2>2. sent[<<d, n>>] \in Nat
    BY <1>2
  <2>3. CASE d # c
    <3>1. <<d, n>> # <<c, m>> /\ <<d, n>> \in Conns \X Modules
      BY <2>3
    <3>2. Held(d)' = Held(d) /\ sent'[<<d, n>>] = sent[<<d, n>>]
      BY <1>3, <1>6, <2>3, <3>1
    <3> QED BY <2>1, <3>2
  <2>4. CASE d = c /\ n # m
    <3>1. <<d, n>> # <<c, m>> /\ <<d, n>> \in Conns \X Modules
      BY <2>4
    <3>2. sent'[<<d, n>>] = sent[<<d, n>>] /\ ~IsOf(f, d, n)
      BY <1>3, <1>4, <2>4, <3>1 DEF IsOf
    <3>3. Flow(queue, Append(Held(d), f), d, n, seen[<<d, n>>], sent[<<d, n>>])
      BY <1>2, <1>4, <2>1, <2>2, <3>2, FlowWrite
    <3> QED BY <1>6, <2>1, <2>4, <3>2, <3>3
  <2>5. CASE d = c /\ n = m
    <3>1. IsOf(f, c, m) /\ f.number = sent[<<c, m>>] + 1
      BY <1>4 DEF IsOf
    <3>2. Flow(queue, Append(Held(c), f), c, m, seen[<<c, m>>], sent[<<c, m>>] + 1)
      BY <1>2, <1>4, <2>1, <2>2, <2>5, <3>1, FlowWrite
    <3>3. seen[<<c, m>>] \in 0..(sent[<<c, m>>] + 1)
      BY <2>1, <2>2, <2>5
    <3> QED BY <1>3, <1>6, <2>5, <3>2, <3>3
  <2> QED BY <2>3, <2>4, <2>5
<1> QED BY <1>1, <1>7, <1>8, <1>9, <1>10, FramesMove

(* The cache key of a frame.                                               *)
LEMMA EntryTypes ==
  ASSUME StreamTypes, NEW f \in Frames
  PROVE  EntryOf(f) \in Entries /\ EntryOf(f)[1] = f.module /\ conn[f.conn].product \in Products
<1>1. f.conn \in Conns /\ f.module \in Modules
  BY DEF Frames
<1>2. conn[f.conn].product \in Products
  BY <1>1 DEF StreamTypes, ConnSet
<1> QED BY <1>1, <1>2 DEF EntryOf, Entries, Types

(* The processing loop takes the first frame.                              *)
LEMMA ProcessKept ==
  ASSUME NEW seen, FrameInv(seen), Process
  PROVE  StreamInv'
<1> DEFINE f == Head(queue)
           k == <<f.conn, f.module>>
           entry == EntryOf(f)
           image == [id |-> counter + 1, frame |-> {f}]
<1>1. /\ queue # <<>> /\ queue' = Tail(queue)
      /\ products' = products \cup {<<f.module, DpName(Props(conn[f.conn].product))>>}
      /\ counter' = counter + 1
      /\ cache' = [cache EXCEPT ![entry] = image]
      /\ found' = IF Contains(found, f.module) THEN found ELSE Append(found, f.module)
      /\ UNCHANGED <<listening, conn, sent, inits, streaming, wanted, last, since, got>>
  BY DEF Process, Discover, CacheImage, NextId, sources, clients
<1>2. /\ StreamTypes /\ Owners /\ Flowing(seen) /\ Cached(seen) /\ Ids /\ Delivered(seen)
      /\ seen \in [Conns \X Modules -> Nat]
      /\ queue \in Seq(Frames) /\ Len(queue) <= QueueSize /\ QueueSize \in Nat /\ Len(queue) \in Nat
      /\ counter \in Nat /\ cache \in [Entries -> CacheSet] /\ found \in Seq(Modules)
      /\ products \subseteq Modules \X Products
      /\ \A d \in Conns : Held(d) \in Seq(Frames) /\ \A n \in Modules : sent[<<d, n>>] \in Nat
  BY FrameFacts DEF FrameInv, StreamTypes
<1>3. f \in Frames /\ f = queue[1] /\ 1 \in 1..Len(queue) /\ Tail(queue) \in Seq(Frames) /\ Len(Tail(queue)) = Len(queue) - 1
  BY <1>1, <1>2
<1>4. f.conn \in Conns /\ f.module \in Modules /\ k \in Conns \X Modules /\ Made(f.conn)
  BY <1>2, <1>3 DEF Frames, Owners
<1>5. entry \in Entries /\ conn[f.conn].product \in Products
  BY <1>2, <1>3, EntryTypes
<1>6. f.number = seen[k] + 1 /\ seen[k] \in Nat
  <2>1. /\ seen[<<f.conn, f.module>>] \in 0..sent[<<f.conn, f.module>>]
        /\ Flow(queue, Held(f.conn), f.conn, f.module, seen[<<f.conn, f.module>>], sent[<<f.conn, f.module>>])
    BY <1>2, <1>4 DEF Flowing
  <2>2. IsOf(f, f.conn, f.module)
    BY DEF IsOf
  <2>3. f.number = seen[<<f.conn, f.module>>] + 1
    BY <1>1, <1>2, <1>4, <2>1, <2>2, FlowTake
  <2> QED BY <1>2, <1>4, <2>3
<1>7. PICK taken \in [Conns \X Modules -> Nat] :
        /\ taken[k] = seen[k] + 1
        /\ \A x \in Conns \X Modules : x # k => taken[x] = seen[x]
  <2>1. [seen EXCEPT ![k] = @ + 1] \in [Conns \X Modules -> Nat]
    BY <1>2, <1>4, <1>6
  <2> QED BY <1>2, <1>4, <2>1
<1>8. products' = products \cup {<<f.module, conn[f.conn].product>>}
  BY <1>1, <1>5, ProductTold
<1>9. image \in CacheSet /\ image.id = counter + 1 /\ image.frame = {f} /\ image # Nothing
  BY <1>2, <1>3 DEF CacheSet, Nothing
<1>10. cache' \in [Entries -> CacheSet] /\ cache'[entry] = image /\ \A e \in Entries : e # entry => cache'[e] = cache[e]
  BY <1>1, <1>2, <1>5, <1>9
<1> HIDE DEF f, k, entry, image
<1>11. StreamTypes'
  <2>1. found' \in Seq(Modules)
    BY <1>1, <1>2, <1>4
  <2>2. queue' \in Seq(Frames) /\ Len(queue') <= QueueSize
    BY <1>1, <1>2, <1>3
  <2>3. products' \subseteq Modules \X Products
    BY <1>2, <1>4, <1>5, <1>8
  <2>4. counter' \in Nat
    BY <1>1, <1>2
  <2> QED BY <1>1, <1>2, <1>10, <2>1, <2>2, <2>3, <2>4 DEF StreamTypes
<1>12. \A d \in Conns : Held(d)' = Held(d) /\ (Made(d)' <=> Made(d))
  BY <1>1 DEF Held, Made
<1>13. Owners'
  <2>1. \A i \in 1..Len(queue') : conn'[queue'[i].conn].at # "unused"
    <3> SUFFICES ASSUME NEW i \in 1..Len(queue') PROVE conn[queue'[i].conn].at # "unused"
      BY <1>1
    <3>1. i + 1 \in 1..Len(queue) /\ queue'[i] = queue[i + 1]
      BY <1>1, <1>2, <1>3
    <3> QED BY <1>2, <3>1 DEF Owners, Made
  <2> QED BY <1>1, <1>2, <1>12, <2>1 DEF Owners, Made
<1>14. Flowing(taken)'
  <2> SUFFICES ASSUME NEW d \in Conns, NEW n \in Modules
               PROVE  /\ taken[<<d, n>>] \in 0..sent[<<d, n>>]
                      /\ Flow(Tail(queue), Held(d), d, n, taken[<<d, n>>], sent[<<d, n>>])
    BY <1>1, <1>12 DEF Flowing
  <2>1. seen[<<d, n>>] \in 0..sent[<<d, n>>] /\ Flow(queue, Held(d), d, n, seen[<<d, n>>], sent[<<d, n>>])
    BY <1>2 DEF Flowing
  <2>2. CASE <<d, n>> = k
    <3>1. IsOf(Head(queue), d, n)
      BY <2>2 DEF IsOf, k, f
    <3>2. /\ seen[<<d, n>>] + 1 \in 0..sent[<<d, n>>]
          /\ Flow(Tail(queue), Held(d), d, n, seen[<<d, n>>] + 1, sent[<<d, n>>])
      BY <1>1, <1>2, <2>1, <3>1, FlowTake
    <3> QED BY <1>7, <2>2, <3>2
  <2>3. CASE <<d, n>> # k
    <3>1. ~IsOf(Head(queue), d, n)
      BY <2>3 DEF IsOf, k, f
    <3>2. Flow(Tail(queue), Held(d), d, n, seen[<<d, n>>], sent[<<d, n>>])
      BY <1>1, <1>2, <2>1, <3>1, FlowTake
    <3>3. taken[<<d, n>>] = seen[<<d, n>>]
      BY <1>7, <2>3
    <3> QED BY <2>1, <3>2, <3>3
  <2> QED BY <2>2, <2>3
<1>15. Cached(taken)'
  <2> SUFFICES ASSUME NEW e \in Entries, NEW g \in cache'[e].frame
               PROVE  /\ g.number = taken[<<g.conn, g.module>>] /\ Made(g.conn) /\ EntryOf(g) = e
                      /\ <<g.module, conn[g.conn].product>> \in products'
    BY <1>1 DEF Cached, Made, EntryOf
  <2>1. CASE e = entry
    <3>1. g = f
      BY <1>9, <1>10, <2>1
    <3> QED BY <1>4, <1>6, <1>7, <1>8, <2>1, <3>1 DEF k, entry
  <2>2. CASE e # entry
    <3>1. g \in cache[e].frame
      BY <1>10, <2>2
    <3>2. /\ g.number = seen[<<g.conn, g.module>>] /\ Made(g.conn) /\ EntryOf(g) = e
          /\ <<g.module, conn[g.conn].product>> \in products
      BY <1>2, <3>1 DEF Cached
    <3>3. g.conn \in Conns /\ g.module \in Modules
      BY <1>2, <3>1, QueuedFrames
    <3>4. <<g.conn, g.module>> # k
      BY <2>2, <3>2 DEF k, entry, EntryOf
    <3> QED BY <1>7, <1>8, <3>2, <3>3, <3>4
  <2> QED BY <2>1, <2>2
<1>16. Ids'
  <2>1. \A d \in Entries : cache[d] = Nothing \/ cache[d].id \in 1..counter
    BY <1>2 DEF Ids
  <2>2. Nothing.id = -1
    BY DEF Nothing
  <2> SUFFICES ASSUME NEW d \in Entries, NEW e \in Entries, cache'[d] # Nothing
               PROVE  cache'[d].id \in 1..(counter + 1) /\ (cache'[d].id = cache'[e].id => d = e)
    BY <1>1 DEF Ids
  <2>3. CASE d = entry
    <3>1. cache'[d].id = counter + 1
      BY <1>9, <1>10, <2>3
    <3>2. counter + 1 \in 1..(counter + 1)
      BY <1>2
    <3>3. ASSUME e # entry PROVE cache'[e].id # counter + 1
      <4>1. cache'[e] = cache[e]
        BY <1>10, <3>3
      <4>2. CASE cache[e] = Nothing
        BY <1>2, <2>2, <4>1, <4>2
      <4>3. CASE cache[e].id \in 1..counter
        BY <1>2, <4>1, <4>3
      <4> QED BY <2>1, <4>2, <4>3
    <3> QED BY <2>3, <3>1, <3>2, <3>3
  <2>4. CASE d # entry
    <3>1. cache'[d] = cache[d] /\ cache[d].id \in 1..counter
      BY <1>10, <2>1, <2>4
    <3>2. CASE e = entry
      <4>1. cache'[e].id = counter + 1
        BY <1>9, <1>10, <3>2
      <4> QED BY <1>2, <3>1, <4>1
    <3>3. CASE e # entry
      BY <1>2, <1>10, <3>1, <3>3 DEF Ids
    <3> QED BY <3>2, <3>3
  <2> QED BY <2>3, <2>4
<1>17. Delivered(taken)'
  <2> SUFFICES ASSUME NEW r \in Readers, NEW e \in Entries, NEW old \in got[r][e]
               PROVE  /\ streaming[r] /\ old.module = e[1] /\ old.number <= taken[<<old.conn, old.module>>]
                      /\ \A new \in cache'[e].frame :
                           (old = new /\ cache'[e].id <= last[r][e[2]]) \/ Newer(old, new)
    BY <1>1 DEF Delivered
  <2>1. /\ streaming[r] /\ old.module = e[1] /\ old.number <= seen[<<old.conn, old.module>>]
        /\ \A new \in cache[e].frame : (old = new /\ cache[e].id <= last[r][e[2]]) \/ Newer(old, new)
    BY <1>2 DEF Delivered
  <2>2. old.conn \in Conns /\ old.module \in Modules /\ old.number \in Nat
    BY <1>2, QueuedFrames
  <2>3. old.number <= taken[<<old.conn, old.module>>]
    <3>1. <<old.conn, old.module>> \in Conns \X Modules
      BY <2>2
    <3>2. CASE <<old.conn, old.module>> = k
      BY <1>6, <1>7, <2>1, <2>2, <3>2
    <3>3. CASE <<old.conn, old.module>> # k
      BY <1>7, <2>1, <3>1, <3>3
    <3> QED BY <3>2, <3>3
  <2>4. CASE e # entry
    BY <1>10, <2>1, <2>3, <2>4
  <2>5. CASE e = entry
    <3>1. e[1] = f.module
      BY <2>5 DEF entry, EntryOf
    <3>2. Newer(old, f)
      <4> SUFFICES ASSUME old.conn = f.conn PROVE old.number < f.number
        BY DEF Newer
      <4>1. <<old.conn, old.module>> = k
        BY <2>1, <3>1 DEF k
      <4> QED BY <1>6, <2>1, <2>2, <4>1
    <3>3. cache'[e].frame = {f}
      BY <1>9, <1>10, <2>5
    <3> QED BY <2>1, <2>3, <3>2, <3>3
  <2> QED BY <2>4, <2>5
<1>18. FrameInv(taken)'
  BY <1>7, <1>11, <1>13, <1>14, <1>15, <1>16, <1>17 DEF FrameInv
<1> QED BY <1>7, <1>18 DEF StreamInv

(* A reconfiguration drops everything that is on its way.                  *)
LEMMA ReconfigureKept ==
  ASSUME NEW seen, FrameInv(seen), Reconfigure
  PROVE  StreamInv'
<1>1. /\ listening' = {} /\ queue' = <<>> /\ counter' = 0 /\ found' = <<>> /\ products' = {}
      /\ conn' = [c \in Conns |-> IF conn[c].at = "unused" THEN Unused ELSE Connection("done", conn[c].product)]
      /\ cache' = [e \in Entries |-> Nothing]
      /\ inits < MaxInits /\ inits' = inits + 1
      /\ UNCHANGED <<sent, streaming, wanted, last, since, got>>
  BY DEF Reconfigure, CloseSources, clients
<1>2. /\ StreamTypes /\ Delivered(seen) /\ conn \in [Conns -> ConnSet] /\ sent \in [Conns \X Modules -> Nat]
      /\ inits \in 0..MaxInits /\ MaxInits \in Nat
  BY StreamAssumption DEF FrameInv, StreamTypes
<1>3. PICK dropped \in [Conns \X Modules -> Nat] : dropped = sent
  BY <1>2
<1>4. \A p \in Products : /\ Connection("unused", p) \in ConnSet /\ Connection("done", p) \in ConnSet
                          /\ Connection("unused", p).wire = <<>> /\ Connection("unused", p).pending = <<>>
                          /\ Connection("done", p).wire = <<>> /\ Connection("done", p).pending = <<>>
  <2>1. <<>> \in Seq(Frames) /\ <<>> \in {q \in Seq(Frames) : Len(q) <= 1}
    OBVIOUS
  <2> QED BY <2>1 DEF Connection, ConnSet
<1>5. Unused \in ConnSet /\ Unused.wire = <<>> /\ Unused.pending = <<>>
  <2>1. (CHOOSE p \in Products : TRUE) \in Products
    BY StreamAssumption
  <2> QED BY <1>4, <2>1 DEF Unused
<1>6. ASSUME NEW c \in Conns
      PROVE  conn'[c] \in ConnSet /\ conn'[c].wire = <<>> /\ conn'[c].pending = <<>>
  <2>1. conn[c].product \in Products
    BY <1>2 DEF ConnSet
  <2>2. conn'[c] = Unused \/ conn'[c] = Connection("done", conn[c].product)
    BY <1>1
  <2> QED BY <1>4, <1>5, <2>1, <2>2
<1>7. conn' \in [Conns -> ConnSet] /\ \A c \in Conns : Held(c)' = <<>>
  <2>1. conn' \in [Conns -> ConnSet]
    BY <1>1, <1>6
  <2>2. ASSUME NEW c \in Conns PROVE Held(c)' = <<>>
    <3>1. Held(c)' = conn'[c].pending \o conn'[c].wire
      BY DEF Held
    <3>2. <<>> \o <<>> = <<>>
      OBVIOUS
    <3> QED BY <1>6, <3>1, <3>2
  <2> QED BY <2>1, <2>2
<1>8. \A e \in Entries : cache'[e] = Nothing /\ cache'[e].frame = {}
  BY <1>1 DEF Nothing
<1>9. StreamTypes'
  <2>1. cache' \in [Entries -> CacheSet] /\ inits' \in 0..MaxInits
    BY <1>1, <1>2 DEF CacheSet
  <2>2. queue' \in Seq(Frames) /\ Len(queue') <= QueueSize /\ found' \in Seq(Modules)
    BY <1>1, StreamAssumption
  <2> QED BY <1>1, <1>2, <1>7, <2>1, <2>2 DEF StreamTypes
<1>10. Owners'
  <2>1. Len(<<>>) = 0 /\ 1..0 = {}
    OBVIOUS
  <2>2. \A c \in Conns : \A i \in 1..Len(Held(c)') : Held(c)'[i].conn = c
    BY <1>7, <2>1
  <2>3. \A i \in 1..Len(queue') : conn'[queue'[i].conn].at # "unused"
    BY <1>1, <2>1
  <2> QED BY <1>7, <2>2, <2>3 DEF Owners, Made
<1>11. Flowing(dropped)'
  <2> SUFFICES ASSUME NEW c \in Conns, NEW m \in Modules
               PROVE  /\ dropped[<<c, m>>] \in 0..sent[<<c, m>>]
                      /\ Flow(<<>>, <<>>, c, m, dropped[<<c, m>>], sent[<<c, m>>])
    BY <1>1, <1>7 DEF Flowing
  <2>1. sent[<<c, m>>] \in Nat /\ dropped[<<c, m>>] = sent[<<c, m>>]
    BY <1>2, <1>3
  <2> QED BY <2>1, FlowNone
<1>12. Cached(dropped)' /\ Ids'
  BY <1>8 DEF Cached, Ids
<1>13. Delivered(dropped)'
  <2> SUFFICES ASSUME NEW r \in Readers, NEW e \in Entries, NEW old \in got[r][e]
               PROVE  streaming[r] /\ old.module = e[1] /\ old.number <= dropped[<<old.conn, old.module>>]
    BY <1>1, <1>8 DEF Delivered
  <2>1. streaming[r] /\ old.module = e[1] /\ old.number <= seen[<<old.conn, old.module>>]
    BY <1>2 DEF Delivered
  <2>2. old.conn \in Conns /\ old.module \in Modules /\ old.number \in Nat
    BY <1>2, QueuedFrames
  <2>3. seen[<<old.conn, old.module>>] \in 0..sent[<<old.conn, old.module>>]
    BY <2>2 DEF FrameInv, Flowing
  <2>4. dropped[<<old.conn, old.module>>] = sent[<<old.conn, old.module>>]
        /\ sent[<<old.conn, old.module>>] \in Nat
    BY <1>2, <1>3, <2>2
  <2> QED BY <2>1, <2>2, <2>3, <2>4
<1>14. FrameInv(dropped)'
  BY <1>9, <1>10, <1>11, <1>12, <1>13 DEF FrameInv
<1> QED BY <1>14 DEF StreamInv

(* Steps of the readers leave the frames on their way and the cache alone. *)
LEMMA ReadersMove ==
  ASSUME NEW seen, FrameInv(seen), StreamTypes', Delivered(seen)',
         UNCHANGED <<conn, sent, queue, counter, cache, products>>
  PROVE  FrameInv(seen)'
<1>1. Owners /\ Flowing(seen) /\ Cached(seen) /\ Ids /\ seen \in [Conns \X Modules -> Nat]
  BY DEF FrameInv
<1>2. \A c \in Conns : Held(c)' = Held(c)
  BY DEF Held
<1>3. Owners'
  BY <1>1, <1>2 DEF Owners, Made
<1>4. Flowing(seen)'
  BY <1>1, <1>2 DEF Flowing
<1>5. Cached(seen)' /\ Ids'
  BY <1>1 DEF Cached, Ids, Made, EntryOf
<1> QED BY <1>1, <1>3, <1>4, <1>5 DEF FrameInv

(* A stream opens.                                                         *)
LEMMA OpenKept ==
  ASSUME NEW seen, FrameInv(seen), NEW r \in Readers, NEW request \in Requests, Open(r, request)
  PROVE  FrameInv(seen)'
<1>1. /\ streaming' = [streaming EXCEPT ![r] = TRUE]
      /\ wanted' = [wanted EXCEPT ![r] = request]
      /\ since' = [since EXCEPT ![r] = inits]
      /\ UNCHANGED <<listening, conn, sent, queue, counter, cache, found, products, inits, last, got>>
  BY DEF Open, sources, hpio
<1>2. StreamTypes /\ Delivered(seen) /\ streaming \in [Readers -> BOOLEAN] /\ wanted \in [Readers -> WantSet]
  BY DEF FrameInv, StreamTypes
<1>3. streaming' \in [Readers -> BOOLEAN] /\ wanted' \in [Readers -> WantSet]
  BY <1>1, <1>2 DEF WantSet
<1>4. StreamTypes'
  <2>1. since' \in [Readers -> 0..MaxInits]
    BY <1>1, <1>2 DEF StreamTypes
  <2> QED BY <1>1, <1>2, <1>3, <2>1 DEF StreamTypes
<1>5. \A x \in Readers : streaming[x] => streaming'[x]
  BY <1>1, <1>2
<1>6. Delivered(seen)'
  <2> SUFFICES ASSUME NEW x \in Readers, NEW e \in Entries, NEW old \in got'[x][e]
               PROVE  /\ streaming'[x] /\ old.module = e[1] /\ old.number <= seen[<<old.conn, old.module>>]
                      /\ \A new \in cache'[e].frame :
                           (old = new /\ cache'[e].id <= last'[x][e[2]]) \/ Newer(old, new)
    BY DEF Delivered, Newer
  <2>1. cache' = cache /\ last' = last /\ got' = got
    BY <1>1
  <2> QED BY <1>2, <1>5, <2>1 DEF Delivered
<1> QED BY <1>1, <1>4, <1>6, ReadersMove

(* A stream ends.                                                          *)
LEMMA CloseKept ==
  ASSUME NEW seen, FrameInv(seen), NEW r \in Readers, Close(r)
  PROVE  FrameInv(seen)'
<1>1. /\ streaming' = [streaming EXCEPT ![r] = FALSE]
      /\ wanted' = [wanted EXCEPT ![r] = [modules |-> <<>>, types |-> {}]]
      /\ last' = [last EXCEPT ![r] = [t \in Types |-> -1]]
      /\ since' = [since EXCEPT ![r] = 0]
      /\ got' = [got EXCEPT ![r] = [e \in Entries |-> {}]]
      /\ UNCHANGED <<listening, conn, sent, queue, counter, cache, found, products, inits>>
  BY DEF Close, sources, hpio
<1>2. /\ StreamTypes /\ Delivered(seen) /\ streaming \in [Readers -> BOOLEAN] /\ wanted \in [Readers -> WantSet]
      /\ last \in [Readers -> [Types -> Nat \cup {-1}]] /\ got \in [Readers -> [Entries -> SUBSET Frames]]
  BY DEF FrameInv, StreamTypes
<1>3. /\ streaming' \in [Readers -> BOOLEAN] /\ wanted' \in [Readers -> WantSet]
      /\ last' \in [Readers -> [Types -> Nat \cup {-1}]] /\ got' \in [Readers -> [Entries -> SUBSET Frames]]
  <2>1. [t \in Types |-> -1] \in [Types -> Nat \cup {-1}]
    OBVIOUS
  <2>2. [e \in Entries |-> {}] \in [Entries -> SUBSET Frames]
    OBVIOUS
  <2>3. [modules |-> <<>>, types |-> {}] \in WantSet
    BY DEF WantSet
  <2> QED BY <1>1, <1>2, <2>1, <2>2, <2>3
<1>4. StreamTypes'
  <2>1. since' \in [Readers -> 0..MaxInits]
    BY <1>1, <1>2, StreamAssumption DEF StreamTypes
  <2> QED BY <1>1, <1>2, <1>3, <2>1 DEF StreamTypes
<1>5. /\ \A x \in Readers : x # r => streaming'[x] = streaming[x] /\ last'[x] = last[x] /\ got'[x] = got[x]
      /\ \A e \in Entries : got'[r][e] = {}
  BY <1>1, <1>2
<1>6. Delivered(seen)'
  <2> SUFFICES ASSUME NEW x \in Readers, NEW e \in Entries, NEW old \in got'[x][e]
               PROVE  /\ streaming'[x] /\ old.module = e[1] /\ old.number <= seen[<<old.conn, old.module>>]
                      /\ \A new \in cache'[e].frame :
                           (old = new /\ cache'[e].id <= last'[x][e[2]]) \/ Newer(old, new)
    BY DEF Delivered, Newer
  <2>1. x # r
    BY <1>5
  <2>2. cache' = cache /\ streaming'[x] = streaming[x] /\ last'[x] = last[x] /\ got'[x] = got[x]
    BY <1>1, <1>5, <2>1
  <2> QED BY <1>2, <2>2 DEF Delivered
<1> QED BY <1>1, <1>4, <1>6, ReadersMove

(* What a poll finds.                                                      *)
LEMMA PollFacts ==
  ASSUME StreamTypes, NEW r \in Readers, NEW t \in Types
  PROVE  /\ Order(r) \in Seq(Modules) /\ Len(Order(r)) \in Nat /\ DOMAIN Order(r) = 1..Len(Order(r))
         /\ \A i \in 1..Len(Order(r)) :
              /\ IdAt(r, i, t) \in Nat \cup {-1}
              /\ \A e \in Entries : e[2] = t /\ Order(r)[i] = e[1] => IdAt(r, i, t) = cache[e].id
         /\ Sent(r, t) \in SUBSET (1..Len(Order(r)))
         /\ last[r][t] \in Nat \cup {-1}
<1>1. /\ wanted[r] \in WantSet /\ found \in Seq(Modules) /\ cache \in [Entries -> CacheSet]
      /\ last[r][t] \in Nat \cup {-1}
  BY DEF StreamTypes
<1>2. wanted[r].modules \in Seq(Modules)
  <2>1. CASE wanted[r] \in Requests
    BY <2>1, StreamAssumption
  <2>2. CASE wanted[r] = [modules |-> <<>>, types |-> {}]
    <3>1. wanted[r].modules = <<>> /\ <<>> \in Seq(Modules)
      BY <2>2
    <3> QED BY <3>1
  <2> QED BY <1>1, <2>1, <2>2 DEF WantSet
<1>3. Order(r) \in Seq(Modules)
  BY <1>1, <1>2 DEF Order
<1>4. Len(Order(r)) \in Nat /\ DOMAIN Order(r) = 1..Len(Order(r))
  BY <1>3
<1>5. ASSUME NEW i \in 1..Len(Order(r))
      PROVE  /\ IdAt(r, i, t) \in Nat \cup {-1}
             /\ \A e \in Entries : e[2] = t /\ Order(r)[i] = e[1] => IdAt(r, i, t) = cache[e].id
  <2>1. Order(r)[i] \in Modules
    BY <1>3
  <2>2. <<Order(r)[i], t>> \in Entries
    BY <2>1 DEF Entries
  <2>3. cache[<<Order(r)[i], t>>] \in CacheSet
    BY <1>1, <2>2
  <2>4. \A x \in CacheSet : x.id \in Nat \cup {-1}
    BY DEF CacheSet, Nothing
  <2>5. \A e \in Entries : e = <<e[1], e[2]>>
    BY DEF Entries
  <2> QED BY <2>3, <2>4, <2>5 DEF IdAt
<1>6. Sent(r, t) \in SUBSET (1..Len(Order(r)))
  BY <1>4 DEF Sent
<1> QED BY <1>1, <1>3, <1>4, <1>5, <1>6

(* A stream polls: its last id becomes that of the last frame it sends,    *)
(* the newest of them.                                                     *)
LEMMA LastRaised ==
  ASSUME StreamTypes, NEW r \in Readers, NEW t \in Types, Poll(r)
  PROVE  /\ last'[r][t] \in Nat \cup {-1} /\ last[r][t] <= last'[r][t]
         /\ \A i \in Sent(r, t) : IdAt(r, i, t) <= last'[r][t]
<1> DEFINE S == Sent(r, t)
           N == Len(Order(r))
           newest == CHOOSE i \in S : \A j \in S : j <= i
<1>1. last'[r][t] = IF S = {} THEN last[r][t] ELSE IdAt(r, newest, t)
  <2>1. last \in [Readers -> [Types -> Nat \cup {-1}]]
    BY DEF StreamTypes
  <2> QED BY <2>1 DEF Poll
<1>2. /\ N \in Nat /\ S \in SUBSET (1..N) /\ last[r][t] \in Nat \cup {-1}
      /\ \A i \in 1..N : IdAt(r, i, t) \in Nat \cup {-1}
  BY PollFacts
<1>3. \A i \in S : IdAt(r, i, t) > last[r][t] /\ \A j \in 1..(i - 1) : IdAt(r, j, t) < IdAt(r, i, t)
  BY DEF Sent
<1>4. CASE S = {}
  BY <1>1, <1>2, <1>4
<1>5. CASE S # {}
  <2> HIDE DEF S, N
  <2>1. \E i \in S : \A j \in S : j <= i
    BY <1>2, <1>5, LastPosition
  <2>2. newest \in S /\ \A j \in S : j <= newest
    BY <2>1
  <2> HIDE DEF newest
  <2>3. ASSUME NEW i \in S PROVE IdAt(r, i, t) <= IdAt(r, newest, t)
    <3>1. i \in 1..N /\ newest \in 1..N /\ i <= newest
      BY <1>2, <2>2
    <3>2. i = newest \/ i \in 1..(newest - 1)
      BY <1>2, <3>1
    <3>3. IdAt(r, i, t) \in Nat \cup {-1} /\ IdAt(r, newest, t) \in Nat \cup {-1}
      BY <1>2, <3>1
    <3>4. i = newest \/ IdAt(r, i, t) < IdAt(r, newest, t)
      BY <1>3, <2>2, <3>2
    <3> QED BY <3>3, <3>4
  <2>4. IdAt(r, newest, t) \in Nat \cup {-1} /\ IdAt(r, newest, t) > last[r][t]
    BY <1>2, <1>3, <2>2
  <2>5. last[r][t] <= IdAt(r, newest, t)
    BY <1>2, <2>4
  <2> QED BY <1>1, <1>5, <2>3, <2>4, <2>5 DEF S
<1> QED BY <1>4, <1>5

(* A stream polls.                                                         *)
LEMMA PollKept ==
  ASSUME NEW seen, FrameInv(seen), NEW r \in Readers, Poll(r)
  PROVE  FrameInv(seen)'
<1> DEFINE Sends(e) == \E i \in Sent(r, e[2]) : Order(r)[i] = e[1]
<1>1. /\ streaming[r]
      /\ got' = [got EXCEPT ![r] = [e \in Entries |-> IF Sends(e) THEN cache[e].frame ELSE got[r][e]]]
      /\ \E raised : last' = [last EXCEPT ![r] = [t \in Types |-> raised[t]]]
      /\ UNCHANGED <<listening, conn, sent, queue, counter, cache, found, products, inits, streaming, wanted, since>>
  <2>1. /\ streaming[r]
        /\ got' = [got EXCEPT ![r] = [e \in Entries |-> IF Sends(e) THEN cache[e].frame ELSE got[r][e]]]
        /\ UNCHANGED <<listening, conn, sent, queue, counter, cache, found, products, inits, streaming, wanted, since>>
    BY DEF Poll, sources, hpio
  <2> DEFINE raised == [t \in Types |-> IF Sent(r, t) = {} THEN last[r][t]
                          ELSE LET i == CHOOSE i \in Sent(r, t) : \A j \in Sent(r, t) : j <= i IN IdAt(r, i, t)]
  <2>2. last' = [last EXCEPT ![r] = raised]
    BY DEF Poll
  <2>3. raised = [t \in Types |-> raised[t]]
    OBVIOUS
  <2> HIDE DEF raised
  <2> QED BY <2>1, <2>2, <2>3
<1>2. /\ StreamTypes /\ Delivered(seen) /\ Cached(seen) /\ cache \in [Entries -> CacheSet]
      /\ last \in [Readers -> [Types -> Nat \cup {-1}]] /\ got \in [Readers -> [Entries -> SUBSET Frames]]
      /\ seen \in [Conns \X Modules -> Nat]
  BY DEF FrameInv, StreamTypes
<1>3. /\ \A e \in Entries : got'[r][e] = IF Sends(e) THEN cache[e].frame ELSE got[r][e]
      /\ \A x \in Readers : x # r => got'[x] = got[x] /\ last'[x] = last[x]
  BY <1>1, <1>2
<1> HIDE DEF Sends
<1>4. \A t \in Types : /\ last'[r][t] \in Nat \cup {-1} /\ last[r][t] <= last'[r][t]
                       /\ last[r][t] \in Nat \cup {-1}
                       /\ \A i \in Sent(r, t) : IdAt(r, i, t) <= last'[r][t]
  BY <1>2, LastRaised, PollFacts
<1>5. last' \in [Readers -> [Types -> Nat \cup {-1}]]
  BY <1>1, <1>2, <1>4
<1>6. got' \in [Readers -> [Entries -> SUBSET Frames]]
  <2>1. \A e \in Entries : cache[e].frame \in SUBSET Frames
    BY <1>2 DEF CacheSet, Nothing
  <2>2. [e \in Entries |-> IF Sends(e) THEN cache[e].frame ELSE got[r][e]] \in [Entries -> SUBSET Frames]
    BY <1>2, <2>1
  <2> QED BY <1>1, <1>2, <2>2
<1>7. StreamTypes'
  BY <1>1, <1>2, <1>5, <1>6 DEF StreamTypes
<1>8. Delivered(seen)'
  <2> SUFFICES ASSUME NEW x \in Readers, NEW e \in Entries, NEW old \in got'[x][e]
               PROVE  /\ streaming'[x] /\ old.module = e[1] /\ old.number <= seen[<<old.conn, old.module>>]
                      /\ \A new \in cache'[e].frame :
                           (old = new /\ cache'[e].id <= last'[x][e[2]]) \/ Newer(old, new)
    BY DEF Delivered, Newer
  <2>0. cache' = cache /\ streaming' = streaming
    BY <1>1
  <2>1. CASE x # r
    BY <1>2, <1>3, <2>0, <2>1 DEF Delivered
  <2>2. CASE x = r /\ Sends(e)
    <3>1. old \in cache[e].frame
      BY <1>3, <2>2
    <3>2. old.number = seen[<<old.conn, old.module>>] /\ EntryOf(old) = e
      BY <1>2, <3>1 DEF Cached
    <3>3. old.conn \in Conns /\ old.module \in Modules /\ cache[e].frame = {old}
      BY <1>2, <3>1, QueuedFrames
    <3>4. old.module = e[1] /\ old.number <= seen[<<old.conn, old.module>>]
      <4>1. seen[<<old.conn, old.module>>] \in Nat
        BY <1>2, <3>3
      <4> QED BY <3>2, <4>1 DEF EntryOf
    <3>5. e[2] \in Types
      BY DEF Entries
    <3>6. PICK i \in Sent(r, e[2]) : Order(r)[i] = e[1]
      BY <2>2 DEF Sends
    <3>7. IdAt(r, i, e[2]) = cache[e].id
      BY <1>2, <3>5, <3>6, PollFacts
    <3>8. cache[e].id <= last'[r][e[2]]
      BY <1>4, <3>5, <3>6, <3>7
    <3> QED BY <1>1, <2>0, <2>2, <3>3, <3>4, <3>8
  <2>3. CASE x = r /\ ~Sends(e)
    <3>1. old \in got[r][e]
      BY <1>3, <2>3
    <3>2. /\ streaming[r] /\ old.module = e[1] /\ old.number <= seen[<<old.conn, old.module>>]
          /\ \A new \in cache[e].frame : (old = new /\ cache[e].id <= last[r][e[2]]) \/ Newer(old, new)
      BY <1>2, <3>1 DEF Delivered
    <3>3. e[2] \in Types
      BY DEF Entries
    <3>4. cache[e].id \in Nat \cup {-1}
      BY <1>2 DEF CacheSet, Nothing
    <3>5. cache[e].id <= last[r][e[2]] => cache[e].id <= last'[r][e[2]]
      <4>1. \A a, b, d \in Nat \cup {-1} : a <= b /\ b <= d => a <= d
        OBVIOUS
      <4> QED BY <1>4, <3>3, <3>4, <4>1
    <3> QED BY <2>0, <2>3, <3>2, <3>5
  <2> QED BY <2>1, <2>2, <2>3
<1> QED BY <1>1, <1>7, <1>8, ReadersMove

(* At the start nothing has been written.                                  *)
LEMMA StreamStart ==
  ASSUME StreamInit
  PROVE  StreamInv
<1> DEFINE none == [k \in Conns \X Modules |-> 0]
<1>1. none \in [Conns \X Modules -> Nat] /\ \A k \in Conns \X Modules : none[k] = 0
  OBVIOUS
<1>2. /\ listening = {} /\ conn = [c \in Conns |-> Unused] /\ sent = none /\ queue = <<>> /\ counter = 0
      /\ cache = [e \in Entries |-> Nothing] /\ found = <<>> /\ products = {} /\ inits = 0
      /\ streaming = [r \in Readers |-> FALSE]
      /\ wanted = [r \in Readers |-> [modules |-> <<>>, types |-> {}]]
      /\ last = [r \in Readers |-> [t \in Types |-> -1]]
      /\ since = [r \in Readers |-> 0]
      /\ got = [r \in Readers |-> [e \in Entries |-> {}]]
  BY DEF StreamInit
<1> HIDE DEF none
<1>3. Unused \in ConnSet /\ Unused.wire = <<>> /\ Unused.pending = <<>>
  <2>1. (CHOOSE p \in Products : TRUE) \in Products
    BY StreamAssumption
  <2>2. <<>> \in Seq(Frames) /\ <<>> \in {q \in Seq(Frames) : Len(q) <= 1}
    OBVIOUS
  <2> QED BY <2>1, <2>2 DEF Unused, Connection, ConnSet
<1>4. \A c \in Conns : Held(c) = <<>>
  <2>1. \A c \in Conns : Held(c) = <<>> \o <<>>
    BY <1>2, <1>3 DEF Held
  <2> QED BY <2>1
<1>5. Len(<<>>) = 0 /\ 1..0 = {}
  OBVIOUS
<1>6. StreamTypes
  <2>1. listening \subseteq Products /\ products \subseteq Modules \X Products /\ counter \in Nat
    BY <1>2
  <2>2. conn \in [Conns -> ConnSet] /\ cache \in [Entries -> CacheSet] /\ sent \in [Conns \X Modules -> Nat]
    BY <1>1, <1>2, <1>3 DEF CacheSet
  <2>3. queue \in Seq(Frames) /\ Len(queue) <= QueueSize /\ found \in Seq(Modules) /\ inits \in 0..MaxInits
    BY <1>2, StreamAssumption
  <2>4. streaming \in [Readers -> BOOLEAN] /\ wanted \in [Readers -> WantSet]
    BY <1>2 DEF WantSet
  <2>5. last \in [Readers -> [Types -> Nat \cup {-1}]] /\ got \in [Readers -> [Entries -> SUBSET Frames]]
    BY <1>2
  <2>6. since \in [Readers -> 0..MaxInits]
    BY <1>2, StreamAssumption
  <2> QED BY <2>1, <2>2, <2>3, <2>4, <2>5, <2>6 DEF StreamTypes
<1>7. Owners
  BY <1>2, <1>4, <1>5 DEF Owners
<1>8. Flowing(none)
  <2> SUFFICES ASSUME NEW c \in Conns, NEW m \in Modules
               PROVE  none[<<c, m>>] \in 0..none[<<c, m>>] /\ Flow(<<>>, <<>>, c, m, none[<<c, m>>], none[<<c, m>>])
    BY <1>2, <1>4 DEF Flowing
  <2>1. none[<<c, m>>] = 0
    BY <1>1
  <2> QED BY <2>1, FlowNone
<1>9. Cached(none) /\ Ids /\ Delivered(none)
  <2>1. \A e \in Entries : cache[e] = Nothing /\ cache[e].frame = {}
    BY <1>2 DEF Nothing
  <2>2. \A r \in Readers, e \in Entries : got[r][e] = {}
    BY <1>2
  <2> QED BY <2>1, <2>2 DEF Cached, Ids, Delivered
<1>10. FrameInv(none)
  BY <1>1, <1>6, <1>7, <1>8, <1>9 DEF FrameInv
<1> QED BY <1>1, <1>10 DEF StreamInv

(* Every step keeps it.                                                    *)
LEMMA StreamStep ==
  ASSUME StreamInv, [StreamNext]_stream
  PROVE  StreamInv'
<1>1. PICK seen \in [Conns \X Modules -> Nat] : FrameInv(seen)
  BY DEF StreamInv
<1>2. ASSUME FrameInv(seen)' PROVE StreamInv'
  BY <1>2 DEF StreamInv
<1>3. CASE UNCHANGED stream
  <2>1. UNCHANGED <<listening, conn, sent, queue, counter, cache, found, products, inits, streaming, wanted, last, since, got>>
    BY <1>3 DEF stream, sources, hpio, clients
  <2>2. StreamTypes'
    BY <1>1, <2>1 DEF FrameInv, StreamTypes
  <2>3. Delivered(seen)'
    BY <1>1, <2>1 DEF FrameInv, Delivered
  <2> QED BY <1>1, <1>2, <2>1, <2>2, <2>3, ReadersMove
<1>4. ASSUME NEW p \in Products, Listen(p) PROVE StreamInv'
  BY <1>1, <1>2, <1>4, ListenKept
<1>5. ASSUME NEW p \in Products, NEW c \in Conns, Connect(c, p) PROVE StreamInv'
  BY <1>1, <1>2, <1>5, ConnectKept
<1>6. ASSUME NEW c \in Conns, Disconnect(c) \/ HandlerEnds(c) PROVE StreamInv'
  BY <1>1, <1>2, <1>6, EndKept
<1>7. ASSUME NEW c \in Conns, Handler(c) PROVE StreamInv'
  BY <1>1, <1>2, <1>7, HandlerKept
<1>8. ASSUME NEW c \in Conns, NEW m \in Modules, Write(c, m) PROVE StreamInv'
  BY <1>1, <1>2, <1>8, WriteKept
<1>9. CASE Process
  BY <1>1, <1>9, ProcessKept
<1>10. CASE Reconfigure
  BY <1>1, <1>10, ReconfigureKept
<1>11. ASSUME NEW r \in Readers, Poll(r) PROVE StreamInv'
  BY <1>1, <1>2, <1>11, PollKept
<1>12. ASSUME NEW r \in Readers, Close(r) PROVE StreamInv'
  BY <1>1, <1>2, <1>12, CloseKept
<1>13. ASSUME NEW r \in Readers, NEW request \in Requests, Open(r, request) PROVE StreamInv'
  BY <1>1, <1>2, <1>13, OpenKept
<1> QED BY <1>3, <1>4, <1>5, <1>6, <1>7, <1>8, <1>9, <1>10, <1>11, <1>12, <1>13 DEF StreamNext

(* ... so it holds throughout.                                             *)
THEOREM StreamInvariant == StreamSpec => []StreamInv
<1>1. StreamInit => StreamInv
  BY StreamStart
<1>2. StreamInv /\ [StreamNext]_stream => StreamInv'
  BY StreamStep
<1> QED BY <1>1, <1>2, PTL DEF StreamSpec

(* The types of the model follow from those of the invariant.              *)
LEMMA StreamTypesOK ==
  ASSUME StreamTypes
  PROVE  StreamTypeOK
<1>1. ASSUME NEW c \in Conns
      PROVE  /\ conn[c].at \in {"unused", "open", "closed", "done"} /\ conn[c].product \in Products
             /\ conn[c].wire \in Seq(Frames)
             /\ conn[c].pending \in Seq(Frames) /\ Len(conn[c].pending) <= 1
  BY DEF StreamTypes, ConnSet
<1>2. ASSUME NEW e \in Entries PROVE cache[e].id \in Nat \cup {-1} /\ cache[e].frame \subseteq Frames
  <2>1. cache[e] \in CacheSet
    BY DEF StreamTypes
  <2> QED BY <2>1 DEF CacheSet, Nothing
<1> QED BY <1>1, <1>2 DEF StreamTypes, StreamTypeOK

(* A frame keeps its place between a connection and the cache, and no      *)
(* other gets it: the ids tell the cached frames apart.                    *)
THEOREM FramesInOrder == StreamSpec => []PipelineInOrder
<1>1. StreamInv => PipelineInOrder
  <2> SUFFICES ASSUME NEW seen, FrameInv(seen) PROVE PipelineInOrder
    BY DEF StreamInv
  <2>1. /\ StreamTypes /\ Flowing(seen) /\ Cached(seen) /\ Ids /\ queue \in Seq(Frames)
        /\ \A c \in Conns : Held(c) \in Seq(Frames)
    BY FrameFacts DEF FrameInv, StreamTypes
  <2>2. ASSUME NEW c \in Conns, NEW m \in Modules
        PROVE  /\ seen[<<c, m>>] \in 0..sent[<<c, m>>]
               /\ Rising(queue \o Held(c), c, m)
               /\ FrameNumbers(queue \o Held(c), c, m) = (seen[<<c, m>>] + 1)..sent[<<c, m>>]
               /\ \A f \in cache[<<m, TypeOf(conn[c].product)>>].frame :
                    f.conn = c => f.module = m /\ f.number = seen[<<c, m>>] /\ <<m, conn[c].product>> \in products
    <3>1. seen[<<c, m>>] \in 0..sent[<<c, m>>] /\ Flow(queue, Held(c), c, m, seen[<<c, m>>], sent[<<c, m>>])
      BY <2>1 DEF Flowing
    <3>2. /\ Rising(queue, c, m) /\ Rising(Held(c), c, m)
          /\ \A x \in FrameNumbers(queue, c, m), y \in FrameNumbers(Held(c), c, m) : x < y
          /\ FrameNumbers(queue, c, m) \cup FrameNumbers(Held(c), c, m) = (seen[<<c, m>>] + 1)..sent[<<c, m>>]
      BY <3>1 DEF Flow
    <3>3. /\ Rising(queue \o Held(c), c, m)
          /\ FrameNumbers(queue \o Held(c), c, m) = (seen[<<c, m>>] + 1)..sent[<<c, m>>]
      <4> DEFINE h == Held(c)
      <4>1. queue \in Seq(Frames) /\ h \in Seq(Frames)
        BY <2>1
      <4>2. /\ Rising(queue, c, m) /\ Rising(h, c, m)
            /\ \A x \in FrameNumbers(queue, c, m), y \in FrameNumbers(h, c, m) : x < y
        BY <3>2
      <4> HIDE DEF h
      <4>3. /\ Rising(queue \o h, c, m)
            /\ FrameNumbers(queue \o h, c, m) = FrameNumbers(queue, c, m) \cup FrameNumbers(h, c, m)
        BY <4>1, <4>2, FramesJoined
      <4> QED BY <3>2, <4>3 DEF h
    <3>4. <<m, TypeOf(conn[c].product)>> \in Entries
      BY <2>1 DEF StreamTypes, ConnSet, Entries, Types
    <3>5. ASSUME NEW f \in cache[<<m, TypeOf(conn[c].product)>>].frame, f.conn = c
          PROVE  f.module = m /\ f.number = seen[<<c, m>>] /\ <<m, conn[c].product>> \in products
      <4>1. /\ f.number = seen[<<f.conn, f.module>>] /\ EntryOf(f) = <<m, TypeOf(conn[c].product)>>
            /\ <<f.module, conn[f.conn].product>> \in products
        BY <2>1, <3>4 DEF Cached
      <4>2. f.module = m
        BY <4>1 DEF EntryOf
      <4> QED BY <3>5, <4>1, <4>2
    <3> QED BY <3>1, <3>3, <3>5
  <2>3. StreamTypeOK
    BY <2>1, StreamTypesOK
  <2>4. \A c \in Conns, m \in Modules : \E first \in 0..sent[<<c, m>>] :
          /\ Rising(queue \o Held(c), c, m)
          /\ FrameNumbers(queue \o Held(c), c, m) = (first + 1)..sent[<<c, m>>]
          /\ \A f \in cache[<<m, TypeOf(conn[c].product)>>].frame :
               f.conn = c => f.module = m /\ f.number = first /\ <<m, conn[c].product>> \in products
    <3> TAKE c \in Conns, m \in Modules
    <3>1. seen[<<c, m>>] \in 0..sent[<<c, m>>]
      BY <2>2
    <3> WITNESS seen[<<c, m>>] \in 0..sent[<<c, m>>]
    <3> QED BY <2>2
  <2> QED BY <2>1, <2>3, <2>4 DEF PipelineInOrder, Ids
<1> QED BY <1>1, StreamInvariant, PTL

(* What one poll sends is newer than what the stream has sent.             *)
LEMMA PollNewer ==
  ASSUME StreamInv, NEW r \in Readers, NEW e \in Entries, Poll(r),
         NEW i \in Sent(r, e[2]), Order(r)[i] = e[1], NEW new \in got'[r][e]
  PROVE  /\ e[2] \in wanted[r].types
         /\ \A old \in got[r][e] : old # new /\ (old.conn = new.conn => old.number < new.number)
<1>1. PICK seen \in [Conns \X Modules -> Nat] : FrameInv(seen)
  BY DEF StreamInv
<1>2. /\ StreamTypes /\ Delivered(seen) /\ got \in [Readers -> [Entries -> SUBSET Frames]]
      /\ cache \in [Entries -> CacheSet]
  BY <1>1 DEF FrameInv, StreamTypes
<1>3. new \in cache[e].frame
  <2>1. \E j \in Sent(r, e[2]) : Order(r)[j] = e[1]
    OBVIOUS
  <2> QED BY <1>2, <2>1 DEF Poll
<1>4. e[2] \in Types /\ cache[e].id \in Nat \cup {-1}
  BY <1>2 DEF Entries, CacheSet, Nothing
<1>5. e[2] \in wanted[r].types /\ IdAt(r, i, e[2]) > last[r][e[2]]
  BY DEF Sent
<1>6. IdAt(r, i, e[2]) = cache[e].id /\ last[r][e[2]] \in Nat \cup {-1}
  BY <1>2, <1>4, PollFacts
<1>7. ~(cache[e].id <= last[r][e[2]])
  BY <1>4, <1>5, <1>6
<1>8. ASSUME NEW old \in got[r][e] PROVE old # new /\ (old.conn = new.conn => old.number < new.number)
  <2>1. Newer(old, new)
    BY <1>2, <1>3, <1>7 DEF Delivered
  <2>2. old.number \in Nat
    BY <1>2, QueuedFrames
  <2> QED BY <2>1, <2>2 DEF Newer
<1> QED BY <1>5, <1>8

(* A stream sends no frame twice and none that is older than one it sent,  *)
(* and nothing it did not ask for.                                         *)
THEOREM FramesOnce == StreamSpec => NeverTwice
<1> DEFINE Told == \A r \in Readers, e \in Entries :
                     streaming[r] /\ Poll(r) /\ (\E i \in Sent(r, e[2]) : Order(r)[i] = e[1]) =>
                       \A new \in got'[r][e] :
                         /\ e[2] \in wanted[r].types
                         /\ \A old \in got[r][e] : old # new /\ (old.conn = new.conn => old.number < new.number)
<1>1. StreamInv => [Told]_stream
  <2> SUFFICES ASSUME StreamInv PROVE Told
    OBVIOUS
  <2> QED BY PollNewer
<1> QED BY <1>1, StreamInvariant, PTL DEF NeverTwice
=============================================================================
