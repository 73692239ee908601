------------------------- MODULE OrchestratorProofs -------------------------
(***************************************************************************)
(* Proofs about the clock, for any limits, number of starts and number of  *)
(* errors a run is given: every run publishes its ticks once each and in   *)
(* order, and until a start overtakes a waiting stop there is one loop.    *)
(***************************************************************************)
EXTENDS Orchestrator, SimulationLifecycle, FiniteSetTheorems, TLAPS

(* The ticks a loop published are those before the one it is at; a loop     *)
(* that is over publishes no more, one that never began has not.            *)
Counted(l) ==
  /\ published[l] = [i \in 1..Len(published[l]) |-> i - 1]
  /\ limit # 0 => Len(published[l]) <= limit
  /\ loop[l].at \in {"none", "ready", "paused"} => Len(published[l]) = loop[l].tick
  /\ loop[l].at = "asleep" => Len(published[l]) = loop[l].tick + 1

(* A stop that waits, waits for the only task there is, which it cancelled. *)
Single ==
  ~overtaken =>
    /\ Live \subseteq {task}
    /\ running => Live = {task} /\ waiting = {} /\ ~loop[task].cancelled
    /\ waiting = {} \/ waiting = {task}
    /\ ~running /\ waiting = {} => Live = {}

(* The task is one that began, and only those are ever cancelled. *)
Begun ==
  /\ task # 0 => task \in Started
  /\ \A l \in Loops : loop[l].at = "none" => ~loop[l].cancelled

CountInv == TypeOK /\ \A l \in Loops : Counted(l)
IInv == CountInv /\ Begun /\ Single

LEMMA LoopsAreNumbers == ASSUME OrchestratorAssumption PROVE Loops \subseteq Nat \ {0}
  BY DEF OrchestratorAssumption, Loops

LEMMA InitIInv == ASSUME OrchestratorAssumption, Init PROVE IInv
<1>1. TypeOK
  <2>1. MaxErrors - 1 \in Nat /\ 0 \in 0..(MaxErrors - 1)
    BY DEF OrchestratorAssumption
  <2>2. NoLoop \in Locals
    BY <2>1 DEF NoLoop, Locals
  <2>3. limit \in Nat /\ published \in [Loops -> Seq(Nat)]
    BY DEF Init, OrchestratorAssumption
  <2> QED BY <2>2, <2>3 DEF Init, TypeOK
<1>2. ASSUME NEW l \in Loops PROVE Counted(l)
  <2>1. published[l] = <<>> /\ loop[l].at = "none" /\ loop[l].tick = 0
    BY DEF Init, NoLoop
  <2>2. limit \in Nat
    BY DEF Init, OrchestratorAssumption
  <2> QED BY <2>1, <2>2 DEF Counted
<1>3. Live = {}
  BY DEF Init, Live, Started, NoLoop
<1>4. Single
  BY <1>3 DEF Init, Single
<1>5. Begun
  BY DEF Init, Begun, NoLoop
<1> QED BY <1>1, <1>2, <1>4, <1>5 DEF IInv, CountInv
-----------------------------------------------------------------------------
(* One step of a loop on the counts: the other loops and theirs are as they *)
(* were, its own are kept or grow by the tick that comes next.              *)
LEMMA AfterSleepCounts ==
  ASSUME OrchestratorAssumption, CountInv, NEW l \in Loops, l \in Live
  PROVE  AfterSleep(l) \in Nat /\ AfterSleep(l) = Len(published[l])
<1>1. loop[l] \in Locals /\ published[l] \in Seq(Nat) /\ Counted(l)
  BY DEF CountInv, TypeOK
<1>2. loop[l].at \in {"ready", "asleep", "paused"}
  BY <1>1 DEF Live, Started, Locals
<1> QED BY <1>1, <1>2 DEF AfterSleep, Counted, Locals

LEMMA EndsCount ==
  ASSUME OrchestratorAssumption, CountInv, NEW l \in Loops, l \in Live, Ends(l),
         running' \in BOOLEAN, UNCHANGED <<current, published, limit, task, waiting, overtaken>>
  PROVE  CountInv'
<1>1. loop' = [loop EXCEPT ![l].at = "done"] /\ loop \in [Loops -> Locals]
  BY DEF Ends, CountInv, TypeOK
<1>2. loop' \in [Loops -> Locals]
  BY <1>1 DEF Locals
<1>3. TypeOK'
  BY <1>2 DEF CountInv, TypeOK
<1>4. ASSUME NEW k \in Loops PROVE Counted(k)'
  <2>1. CASE k = l
    BY <1>1, <2>1 DEF CountInv, Counted, Locals
  <2>2. CASE k # l
    BY <1>1, <2>2 DEF CountInv, Counted
  <2> QED BY <2>1, <2>2
<1> QED BY <1>3, <1>4 DEF CountInv

LEMMA SleepsType ==
  ASSUME OrchestratorAssumption, CountInv, NEW l \in Loops, l \in Live,
         NEW place \in {"asleep", "paused"}, NEW errors \in 0..(MaxErrors - 1),
         SleepsAt(l, place, errors)
  PROVE  /\ loop' \in [Loops -> Locals]
         /\ loop'[l].at = place /\ loop'[l].tick = AfterSleep(l) /\ ~loop'[l].cancelled
         /\ \A k \in Loops : k # l => loop'[k] = loop[k]
<1>1. [at |-> place, tick |-> AfterSleep(l), errors |-> errors, cancelled |-> FALSE] \in Locals
  BY AfterSleepCounts DEF Locals
<1>2. loop \in [Loops -> Locals]
  BY DEF CountInv, TypeOK
<1> QED BY <1>1, <1>2 DEF SleepsAt

LEMMA PublishesCount ==
  ASSUME OrchestratorAssumption, CountInv, NEW l \in Loops, l \in Live, Publishes(l),
         UNCHANGED <<limit, task, waiting, overtaken>>
  PROVE  CountInv'
<1>1. /\ SleepsAt(l, "asleep", 0) /\ Continues(l) /\ UNCHANGED running
      /\ published' = [published EXCEPT ![l] = Append(@, AfterSleep(l))]
      /\ current' = AfterSleep(l) + 1
  BY DEF Publishes, Tries
<1>2. AfterSleep(l) \in Nat /\ AfterSleep(l) = Len(published[l])
  BY AfterSleepCounts
<1>3. 0 \in 0..(MaxErrors - 1)
  BY DEF OrchestratorAssumption
<1>4. /\ loop' \in [Loops -> Locals]
      /\ loop'[l].at = "asleep" /\ loop'[l].tick = AfterSleep(l)
      /\ \A k \in Loops : k # l => loop'[k] = loop[k]
  BY <1>1, <1>3, SleepsType
<1>5. published \in [Loops -> Seq(Nat)] /\ limit \in Nat
  BY DEF CountInv, TypeOK, OrchestratorAssumption
<1>6. /\ published'[l] = Append(published[l], AfterSleep(l))
      /\ published' \in [Loops -> Seq(Nat)]
      /\ \A k \in Loops : k # l => published'[k] = published[k]
  BY <1>1, <1>2, <1>5
<1>7. TypeOK'
  BY <1>1, <1>2, <1>4, <1>6 DEF CountInv, TypeOK
<1>8. Counted(l)'
  <2>1. Counted(l)
    BY DEF CountInv
  <2>2. Len(published'[l]) = Len(published[l]) + 1 /\ Len(published[l]) \in Nat
    BY <1>5, <1>6
  <2>3. published'[l] = [i \in 1..Len(published'[l]) |-> i - 1]
    BY <1>2, <1>5, <1>6, <2>1, <2>2 DEF Counted
  <2>4. limit' # 0 => Len(published'[l]) <= limit'
    BY <1>1, <1>2, <1>5, <2>2 DEF Continues
  <2> QED BY <1>2, <1>4, <2>2, <2>3, <2>4 DEF Counted
<1>9. ASSUME NEW k \in Loops, k # l PROVE Counted(k)'
  BY <1>4, <1>6, <1>9 DEF CountInv, Counted
<1> QED BY <1>7, <1>8, <1>9 DEF CountInv

LEMMA BacksOffCount ==
  ASSUME OrchestratorAssumption, CountInv, NEW l \in Loops, l \in Live, BacksOff(l),
         UNCHANGED <<limit, task, waiting, overtaken>>
  PROVE  CountInv'
<1>1. loop[l].errors \in 0..(MaxErrors - 1) /\ MaxErrors \in Nat
  BY DEF CountInv, TypeOK, Locals, OrchestratorAssumption
<1>2. /\ SleepsAt(l, "paused", loop[l].errors + 1)
      /\ loop[l].errors + 1 \in 0..(MaxErrors - 1)
      /\ UNCHANGED <<running, current, published>>
  BY <1>1 DEF BacksOff
<1>3. AfterSleep(l) = Len(published[l])
  BY AfterSleepCounts
<1>4. /\ loop' \in [Loops -> Locals]
      /\ loop'[l].at = "paused" /\ loop'[l].tick = AfterSleep(l)
      /\ \A k \in Loops : k # l => loop'[k] = loop[k]
  BY <1>2, SleepsType
<1>5. TypeOK'
  BY <1>2, <1>4 DEF CountInv, TypeOK
<1>6. ASSUME NEW k \in Loops PROVE Counted(k)'
  <2>1. CASE k = l
    BY <1>2, <1>3, <1>4, <2>1 DEF CountInv, Counted
  <2>2. CASE k # l
    BY <1>2, <1>4, <2>2 DEF CountInv, Counted
  <2> QED BY <2>1, <2>2
<1> QED BY <1>5, <1>6 DEF CountInv

LEMMA StartCount == ASSUME OrchestratorAssumption, CountInv, Start PROVE CountInv'
<1>1. PICK l \in Loops \ Started : loop' = [loop EXCEPT ![l].at = "ready"] /\ task' = l
  BY DEF Start
<1>2. /\ running' = TRUE /\ overtaken' = (overtaken \/ waiting # {})
      /\ UNCHANGED <<limit, current, waiting, published>>
  BY DEF Start
<1>3. loop' \in [Loops -> Locals] /\ loop[l].at = "none"
  BY <1>1 DEF CountInv, TypeOK, Locals, Started
<1>4. TypeOK'
  BY <1>1, <1>2, <1>3 DEF CountInv, TypeOK
<1>5. ASSUME NEW k \in Loops PROVE Counted(k)'
  <2>1. CASE k = l
    BY <1>1, <1>2, <1>3, <2>1 DEF CountInv, Counted, TypeOK, Locals
  <2>2. CASE k # l
    BY <1>1, <1>2, <2>2 DEF CountInv, Counted, TypeOK
  <2> QED BY <2>1, <2>2
<1> QED BY <1>4, <1>5 DEF CountInv

LEMMA StopCount == ASSUME OrchestratorAssumption, CountInv, Stop PROVE CountInv'
<1>1. running' = FALSE /\ UNCHANGED <<limit, task, current, published, overtaken>>
  BY DEF Stop
<1>2. CASE task = 0
  BY <1>1, <1>2 DEF Stop, CountInv, TypeOK, Counted
<1>3. CASE task # 0
  <2>1. /\ loop' = [loop EXCEPT ![task].cancelled = TRUE] /\ waiting' = waiting \cup {task}
        /\ task \in Loops /\ loop \in [Loops -> Locals]
    BY <1>3 DEF Stop, CountInv, TypeOK
  <2>2. loop' \in [Loops -> Locals]
    BY <2>1 DEF Locals
  <2>3. \A k \in Loops : loop'[k].at = loop[k].at /\ loop'[k].tick = loop[k].tick
    BY <2>1 DEF Locals
  <2>4. TypeOK'
    BY <1>1, <2>1, <2>2 DEF CountInv, TypeOK
  <2>5. ASSUME NEW k \in Loops PROVE Counted(k)'
    BY <1>1, <2>3 DEF CountInv, Counted
  <2> QED BY <2>4, <2>5 DEF CountInv
<1> QED BY <1>2, <1>3

LEMMA StepCount == ASSUME OrchestratorAssumption, CountInv, [Next]_vars PROVE CountInv'
<1>1. CASE Start
  BY <1>1, StartCount
<1>2. CASE Stop
  BY <1>2, StopCount
<1>3. CASE StopReturns
  <2>1. PICK l \in waiting : waiting' = waiting \ {l}
    BY <1>3 DEF StopReturns
  <2>2. task' = 0 /\ UNCHANGED <<limit, running, loop, current, published, overtaken>>
    BY <1>3 DEF StopReturns
  <2> QED BY <2>1, <2>2 DEF CountInv, TypeOK, Counted
<1>4. ASSUME NEW l \in Loops, LoopStep(l) PROVE CountInv'
  <2>1. l \in Live /\ UNCHANGED <<limit, task, waiting, overtaken>>
    BY <1>4 DEF LoopStep
  <2>2. CASE Publishes(l)
    BY <2>1, <2>2, PublishesCount
  <2>3. CASE BacksOff(l)
    BY <2>1, <2>3, BacksOffCount
  <2>4. CASE Ends(l) /\ running' \in BOOLEAN /\ UNCHANGED <<current, published>>
    BY <2>1, <2>4, EndsCount
  <2>5. running \in BOOLEAN
    BY DEF CountInv, TypeOK
  <2>6. CASE IsCancelled(l)
    BY <2>4, <2>5, <2>6 DEF IsCancelled
  <2>7. CASE RunsOut(l)
    BY <2>4, <2>7 DEF RunsOut
  <2>8. ASSUME NEW b \in BOOLEAN, GivesUp(l, b) PROVE CountInv'
    BY <2>4, <2>8 DEF GivesUp
  <2> QED BY <1>4, <2>2, <2>3, <2>6, <2>7, <2>8 DEF LoopStep
<1>5. CASE UNCHANGED vars
  BY <1>5 DEF vars, CountInv, TypeOK, Counted
<1> QED BY <1>1, <1>2, <1>3, <1>4, <1>5 DEF Next
-----------------------------------------------------------------------------
(* One loop at a time. *)
LEMMA StartSingle == ASSUME OrchestratorAssumption, IInv, Start PROVE Single'
<1>1. PICK l \in Loops \ Started : loop' = [loop EXCEPT ![l].at = "ready"] /\ task' = l
  BY DEF Start
<1>2. /\ ~running /\ running' = TRUE /\ overtaken' = (overtaken \/ waiting # {})
      /\ UNCHANGED waiting
  BY DEF Start
<1>3. loop \in [Loops -> Locals] /\ loop[l].at = "none"
  BY <1>1 DEF IInv, CountInv, TypeOK, Started
<1>4. SUFFICES ASSUME ~overtaken' PROVE /\ Live' = {l} /\ waiting' = {} /\ ~loop'[l].cancelled
  BY <1>1, <1>2 DEF Single
<1>5. Live = {} /\ waiting' = {}
  BY <1>2, <1>4 DEF IInv, Single
<1>6. loop'[l].at = "ready" /\ \A k \in Loops : k # l => loop'[k] = loop[k]
  BY <1>1, <1>3 DEF Locals
<1>7. Live' = {l}
  BY <1>5, <1>6 DEF Live, Started
<1>8. ~loop[l].cancelled /\ loop'[l].cancelled = loop[l].cancelled
  BY <1>1, <1>3 DEF IInv, Begun, Locals
<1> QED BY <1>5, <1>7, <1>8

(* The steps of a loop that end it. *)
LEMMA EndsSingle ==
  ASSUME IInv, NEW l \in Loops, l \in Live, Ends(l),
         \/ loop[l].cancelled /\ UNCHANGED running
         \/ running' = FALSE,
         UNCHANGED <<task, waiting, overtaken>>
  PROVE  Single'
<1>1. SUFFICES ASSUME ~overtaken
      PROVE  Live' = {} /\ ~running' /\ (waiting' = {} \/ waiting' = {task'})
  BY DEF Single
<1>2. /\ loop' = [loop EXCEPT ![l].at = "done"] /\ loop \in [Loops -> Locals]
      /\ Live \subseteq {task} /\ l = task
  BY <1>1 DEF Ends, IInv, CountInv, TypeOK, Single
<1>3. loop'[l].at = "done" /\ \A k \in Loops : k # l => loop'[k] = loop[k]
  BY <1>2 DEF Locals
<1>4. Live' = {}
  BY <1>2, <1>3 DEF Live, Started
<1>5. ~running'
  BY <1>1, <1>2 DEF IInv, Single
<1>6. waiting' = {} \/ waiting' = {task'}
  BY <1>1 DEF IInv, Single
<1> QED BY <1>4, <1>5, <1>6

(* The steps after which it sleeps. *)
LEMMA SleepsSingle ==
  ASSUME OrchestratorAssumption, IInv, NEW l \in Loops, l \in Live,
         NEW place \in {"asleep", "paused"}, NEW errors \in 0..(MaxErrors - 1),
         SleepsAt(l, place, errors), UNCHANGED <<running, task, waiting, overtaken>>
  PROVE  Single'
<1>1. /\ loop'[l].at = place /\ ~loop'[l].cancelled
      /\ \A k \in Loops : k # l => loop'[k] = loop[k]
  BY SleepsType DEF IInv
<1>2. Live' = Live
  BY <1>1 DEF Live, Started
<1>3. SUFFICES ASSUME ~overtaken PROVE running => ~loop'[task].cancelled
  BY <1>2 DEF IInv, Single
<1>4. l = task
  BY <1>3 DEF IInv, Single
<1> QED BY <1>1, <1>4

LEMMA StopSingle == ASSUME OrchestratorAssumption, IInv, Stop PROVE Single'
<1>1. running /\ running' = FALSE /\ UNCHANGED <<task, overtaken>>
  BY DEF Stop
<1>2. SUFFICES ASSUME ~overtaken
      PROVE  Live' \subseteq {task} /\ waiting' = {task}
  BY <1>1 DEF Single
<1>3. Live = {task} /\ waiting = {}
  BY <1>1, <1>2 DEF IInv, Single
<1>4. task \in Loops /\ task # 0
  BY <1>3, LoopsAreNumbers DEF Live, Started
<1>5. loop' = [loop EXCEPT ![task].cancelled = TRUE] /\ waiting' = waiting \cup {task}
  BY <1>4 DEF Stop
<1>6. \A k \in Loops : loop'[k].at = loop[k].at
  BY <1>5 DEF IInv, CountInv, TypeOK, Locals
<1>7. Live' = Live
  BY <1>6 DEF Live, Started
<1> QED BY <1>3, <1>5, <1>7

LEMMA StopReturnsSingle == ASSUME OrchestratorAssumption, IInv, StopReturns PROVE Single'
<1>1. PICK l \in waiting : loop[l].at = "done" /\ waiting' = waiting \ {l}
  BY DEF StopReturns
<1>2. task' = 0 /\ UNCHANGED <<running, loop, overtaken>>
  BY DEF StopReturns
<1>3. SUFFICES ASSUME ~overtaken PROVE Live' = {} /\ ~running /\ waiting' = {}
  BY <1>2 DEF Single
<1>4. waiting = {task} /\ l = task /\ ~running /\ Live \subseteq {task}
  BY <1>1, <1>3 DEF IInv, Single
<1>5. Live = {}
  BY <1>1, <1>4 DEF Live
<1>6. Live' = Live
  BY <1>2 DEF Live, Started
<1> QED BY <1>1, <1>4, <1>5, <1>6

LEMMA StepSingle == ASSUME OrchestratorAssumption, IInv, [Next]_vars PROVE Single'
<1>1. ASSUME NEW l \in Loops, LoopStep(l) PROVE Single'
  <2>1. l \in Live /\ UNCHANGED <<limit, task, waiting, overtaken>>
    BY <1>1 DEF LoopStep
  <2>2. CASE Publishes(l)
    <3>1. 0 \in 0..(MaxErrors - 1) /\ "asleep" \in {"asleep", "paused"}
      BY DEF OrchestratorAssumption
    <3>2. SleepsAt(l, "asleep", 0) /\ UNCHANGED running
      BY <2>2 DEF Publishes
    <3> QED BY <2>1, <3>1, <3>2, SleepsSingle
  <2>3. CASE BacksOff(l)
    <3>1. loop[l].errors \in 0..(MaxErrors - 1) /\ MaxErrors \in Nat
      BY DEF IInv, CountInv, TypeOK, Locals, OrchestratorAssumption
    <3>2. /\ SleepsAt(l, "paused", loop[l].errors + 1) /\ UNCHANGED running
          /\ loop[l].errors + 1 \in 0..(MaxErrors - 1)
      BY <2>3, <3>1 DEF BacksOff
    <3> QED BY <2>1, <3>2, SleepsSingle
  <2>4. CASE IsCancelled(l)
    BY <2>1, <2>4, EndsSingle DEF IsCancelled
  <2>5. CASE RunsOut(l)
    BY <2>1, <2>5, EndsSingle DEF RunsOut
  <2>6. ASSUME NEW b \in BOOLEAN, GivesUp(l, b) PROVE Single'
    BY <2>1, <2>6, EndsSingle DEF GivesUp
  <2> QED BY <1>1, <2>2, <2>3, <2>4, <2>5, <2>6 DEF LoopStep
<1>2. CASE UNCHANGED vars
  <2>1. Live' = Live
    BY <1>2 DEF vars, Live, Started
  <2> QED BY <1>2, <2>1 DEF vars, IInv, Single
<1> QED BY <1>1, <1>2, StartSingle, StopSingle, StopReturnsSingle DEF Next

LEMMA StepBegun == ASSUME OrchestratorAssumption, IInv, [Next]_vars PROVE Begun'
<1>0. loop \in [Loops -> Locals] /\ Begun /\ task \in Loops \cup {0}
  BY DEF IInv, CountInv, TypeOK
<1>1. CASE Start
  <2>1. PICK l \in Loops \ Started : loop' = [loop EXCEPT ![l].at = "ready"] /\ task' = l
    BY <1>1 DEF Start
  <2>2. loop'[l].at = "ready" /\ \A k \in Loops : k # l => loop'[k] = loop[k]
    BY <1>0, <2>1 DEF Locals
  <2> QED BY <1>0, <2>1, <2>2 DEF Begun, Started
<1>2. CASE Stop
  <2>1. UNCHANGED task /\ (task # 0 => loop' = [loop EXCEPT ![task].cancelled = TRUE])
        /\ (task = 0 => UNCHANGED loop)
    BY <1>2 DEF Stop
  <2>2. \A k \in Loops : /\ loop'[k].at = loop[k].at
                         /\ k # task => loop'[k].cancelled = loop[k].cancelled
    BY <1>0, <2>1 DEF Locals
  <2>3. task' # 0 => task' \in Started'
    BY <1>0, <2>1, <2>2 DEF Begun, Started
  <2>4. ASSUME NEW k \in Loops, loop'[k].at = "none" PROVE ~loop'[k].cancelled
    <3>1. loop[k].at = "none" /\ ~loop[k].cancelled
      BY <1>0, <2>2, <2>4 DEF Begun
    <3>2. k # task
      BY <1>0, <3>1, LoopsAreNumbers DEF Begun, Started
    <3> QED BY <2>2, <3>1, <3>2
  <2> QED BY <2>3, <2>4 DEF Begun
<1>3. CASE StopReturns
  BY <1>0, <1>3 DEF StopReturns, Begun
<1>4. ASSUME NEW l \in Loops, LoopStep(l) PROVE Begun'
  <2>1. loop'[l].at # "none" /\ (\A k \in Loops : k # l => loop'[k] = loop[k]) /\ UNCHANGED task
    <3>1. CASE Ends(l)
      BY <1>0, <1>4, <3>1 DEF Ends, LoopStep, Locals
    <3>2. ASSUME NEW place \in {"asleep", "paused"}, NEW n, SleepsAt(l, place, n)
          PROVE  loop'[l].at # "none" /\ \A k \in Loops : k # l => loop'[k] = loop[k]
      BY <1>0, <3>2 DEF SleepsAt
    <3>3. Ends(l) \/ SleepsAt(l, "asleep", 0) \/ SleepsAt(l, "paused", loop[l].errors + 1)
      BY <1>4 DEF LoopStep, IsCancelled, RunsOut, Publishes, BacksOff, GivesUp
    <3> QED BY <1>4, <3>1, <3>2, <3>3 DEF LoopStep
  <2> QED BY <1>0, <2>1 DEF Begun, Started
<1>5. CASE UNCHANGED vars
  BY <1>0, <1>5 DEF vars, Begun, Started
<1> QED BY <1>1, <1>2, <1>3, <1>4, <1>5 DEF Next
-----------------------------------------------------------------------------
(* What the status says.  Runs begin one after the other, one that did not  *)
(* begin has published nothing, and the one that is live began last.        *)
Latest ==
  /\ \A k \in Started : \A j \in Loops : j < k => j \in Started
  /\ \A l \in Loops : loop[l].at = "none" => published[l] = <<>>
  /\ ~overtaken => \A l \in Live : \A k \in Started : k <= l

StatusInv == Latest /\ StatusHonest

LEMMA InitStatus == ASSUME OrchestratorAssumption, Init PROVE StatusInv
<1>1. Started = {} /\ Live = {} /\ \A l \in Loops : published[l] = <<>>
  BY DEF Init, NoLoop, Started, Live
<1> QED BY <1>1 DEF StatusInv, Latest, StatusHonest

LEMMA StartStatus == ASSUME OrchestratorAssumption, IInv, StatusInv, Start PROVE StatusInv'
<1>1. PICK l \in Loops \ Started : /\ \A k \in 1..(l - 1) : k \in Started
                                  /\ loop' = [loop EXCEPT ![l].at = "ready"]
  BY DEF Start
<1>2. /\ ~running /\ overtaken' = (overtaken \/ waiting # {})
      /\ UNCHANGED <<current, waiting, published>>
  BY DEF Start
<1>3. loop \in [Loops -> Locals] /\ loop[l].at = "none"
  BY <1>1 DEF IInv, CountInv, TypeOK, Started
<1>4. loop'[l].at = "ready" /\ \A k \in Loops : k # l => loop'[k] = loop[k]
  BY <1>1, <1>3 DEF Locals
<1>5. Started' = Started \cup {l}
  BY <1>4 DEF Started
<1>6. MaxStarts \in Nat /\ \A k \in Started : k < l
  BY <1>1 DEF OrchestratorAssumption, StatusInv, Latest, Started, Loops
<1>7. \A k \in Started' : \A j \in Loops : j < k => j \in Started'
  BY <1>1, <1>5, <1>6 DEF StatusInv, Latest, Loops
<1>8. ASSUME ~overtaken' PROVE \A j \in Live' : \A k \in Started' : k <= j
  <2>1. Live = {}
    BY <1>2, <1>8 DEF IInv, Single
  <2>2. Live' = {l}
    BY <1>4, <2>1 DEF Live, Started
  <2>3. Started \cup {l} \subseteq Nat
    BY <1>6 DEF Started, Loops
  <2> QED BY <1>5, <1>6, <2>2, <2>3
<1>9. Latest'
  BY <1>2, <1>4, <1>7, <1>8 DEF StatusInv, Latest
<1> QED BY <1>2, <1>9 DEF StatusInv, StatusHonest

(* A step that publishes nothing and begins nothing. *)
LEMMA QuietStatus ==
  ASSUME StatusInv, UNCHANGED <<current, published, overtaken>>,
         Started' = Started, Live' \subseteq Live,
         \A l \in Loops : loop'[l].at = "none" => loop[l].at = "none"
  PROVE  StatusInv'
  BY DEF StatusInv, Latest, StatusHonest

LEMMA PublishesStatus ==
  ASSUME OrchestratorAssumption, IInv, StatusInv, NEW l \in Loops, l \in Live,
         Publishes(l), UNCHANGED <<limit, task, waiting, overtaken>>
  PROVE  StatusInv'
<1>1. /\ SleepsAt(l, "asleep", 0)
      /\ published' = [published EXCEPT ![l] = Append(@, AfterSleep(l))]
      /\ current' = AfterSleep(l) + 1
  BY DEF Publishes
<1>2. AfterSleep(l) \in Nat /\ AfterSleep(l) = Len(published[l]) /\ 0 \in 0..(MaxErrors - 1)
  BY AfterSleepCounts DEF IInv, OrchestratorAssumption
<1>3. loop'[l].at = "asleep" /\ \A k \in Loops : k # l => loop'[k] = loop[k]
  BY <1>1, <1>2, SleepsType DEF IInv
<1>4. Started' = Started /\ Live' = Live
  BY <1>3 DEF Started, Live
<1>5. published \in [Loops -> Seq(Nat)]
  BY DEF IInv, CountInv, TypeOK
<1>6. /\ Len(published'[l]) = Len(published[l]) + 1 /\ published'[l] # <<>>
      /\ \A k \in Loops : k # l => published'[k] = published[k]
  BY <1>1, <1>2, <1>5
<1>7. Latest'
  BY <1>3, <1>4, <1>6 DEF StatusInv, Latest
<1>8. ASSUME ~overtaken, NEW j \in Loops, published'[j] # <<>>,
             \A k \in (j + 1)..MaxStarts : published'[k] = <<>>
      PROVE  current' = Len(published'[j])
  <2>1. MaxStarts \in Nat /\ j \in Nat /\ l \in Nat /\ l <= MaxStarts
    BY DEF OrchestratorAssumption, Loops
  <2>2. ~(j < l)
    BY <1>6, <1>8, <2>1
  <2>3. ~(l < j)
    <3>1. j \in Started => j <= l
      BY <1>8 DEF StatusInv, Latest
    <3>2. j \notin Started => j # l /\ published[j] = <<>>
      BY DEF StatusInv, Latest, Live, Started
    <3> QED BY <1>6, <1>8, <2>1, <3>1, <3>2
  <2> QED BY <1>1, <1>2, <1>6, <2>1, <2>2, <2>3
<1> QED BY <1>7, <1>8 DEF StatusInv, StatusHonest

LEMMA StepStatus == ASSUME OrchestratorAssumption, IInv, StatusInv, [Next]_vars PROVE StatusInv'
<1>0. loop \in [Loops -> Locals] /\ task \in Loops \cup {0}
  BY DEF IInv, CountInv, TypeOK
<1>1. CASE Stop
  <2>1. UNCHANGED <<current, published, overtaken>>
        /\ \A k \in Loops : loop'[k].at = loop[k].at
    BY <1>0, <1>1 DEF Stop, Locals
  <2>2. Started' = Started /\ Live' = Live
    BY <2>1 DEF Started, Live
  <2> QED BY <2>1, <2>2, QuietStatus
<1>2. CASE StopReturns \/ UNCHANGED vars
  <2>1. UNCHANGED <<loop, current, published, overtaken>>
    BY <1>2 DEF StopReturns, vars
  <2>2. Started' = Started /\ Live' = Live
    BY <2>1 DEF Started, Live
  <2> QED BY <2>1, <2>2, QuietStatus
<1>3. ASSUME NEW l \in Loops, LoopStep(l) PROVE StatusInv'
  <2>1. l \in Live /\ UNCHANGED <<limit, task, waiting, overtaken>>
    BY <1>3 DEF LoopStep
  <2>2. CASE Publishes(l)
    BY <2>1, <2>2, PublishesStatus
  <2>3. CASE ~Publishes(l)
    <3>1. /\ UNCHANGED <<current, published>>
          /\ Ends(l) \/ SleepsAt(l, "paused", loop[l].errors + 1)
      BY <1>3, <2>3 DEF LoopStep, IsCancelled, RunsOut, BacksOff, GivesUp
    <3>2. loop'[l].at \in {"done", "paused"} /\ \A k \in Loops : k # l => loop'[k] = loop[k]
      BY <1>0, <3>1 DEF Ends, SleepsAt, Locals
    <3>3. Started' = Started /\ Live' \subseteq Live
      BY <2>1, <3>2 DEF Started, Live
    <3> QED BY <2>1, <3>1, <3>2, <3>3, QuietStatus
  <2> QED BY <2>2, <2>3
<1> QED BY <1>1, <1>2, <1>3, StartStatus DEF Next
-----------------------------------------------------------------------------
(* The inductive invariant of the clock holds in every behaviour of the code's *)
(* loops, starts and stops.                                                    *)
THEOREM ClockInvariant == Spec => []IInv
<1>1. Init => IInv
  BY OrchestratorAssumption, InitIInv
<1>2. IInv /\ [Next]_vars => IInv'
  BY OrchestratorAssumption, StepCount, StepBegun, StepSingle DEF IInv
<1> QED BY <1>1, <1>2, PTL DEF Spec

(* The variables of the orchestrator keep their types. *)
THEOREM Typing == Spec => []TypeOK
<1>1. IInv => TypeOK
  BY DEF IInv, CountInv
<1> QED BY <1>1, ClockInvariant, PTL

(* Whatever fails and whoever stops or starts it, a run publishes ticks 0, 1,  *)
(* 2, ... once each and never one beyond its limit (_run_loop).                *)
THEOREM TicksOnce == Spec => []EveryTickOnce
<1>1. IInv => EveryTickOnce
  BY DEF IInv, CountInv, Counted, EveryTickOnce
<1> QED BY <1>1, ClockInvariant, PTL

(* Until a start overtakes a waiting stop, one task publishes at most, it is   *)
(* the one stop would cancel, and none is left when stop has returned.         *)
THEOREM SingleLoop == Spec => []OneLoop
<1>1. ASSUME IInv PROVE OneLoop
  <2>1. SUFFICES ASSUME ~overtaken PROVE Cardinality(Live) <= 1
    BY <1>1 DEF IInv, Single, OneLoop
  <2>2. Live = {} \/ Live = {task}
    BY <1>1, <2>1 DEF IInv, Single
  <2> QED BY <2>2, FS_EmptySet, FS_Singleton
<1> QED BY <1>1, ClockInvariant, PTL

(* Until a start overtakes a waiting stop, what get_status reports is the      *)
(* number of ticks the last run to publish has published (_run_loop).          *)
THEOREM StatusIsTheCount == Spec => []StatusHonest
<1>1. Init => StatusInv
  BY OrchestratorAssumption, InitStatus
<1>2. IInv /\ StatusInv /\ [Next]_vars => StatusInv'
  BY OrchestratorAssumption, StepStatus
<1>3. StatusInv => StatusHonest
  BY DEF StatusInv
<1> QED BY <1>1, <1>2, <1>3, ClockInvariant, PTL DEF Spec
-----------------------------------------------------------------------------
(* The life of a run, for any number of requests of each kind.                 *)

RunnerStates == [running : BOOLEAN, status : {"pending", "running", "completed", "stopped"}]
Active(r) == run[r] \in {"scheduled", "polling", "failing"}
AtWork(r) == run[r] \in {"polling", "failing"}

(* A clock ticks for a task that polls, under a runner that is up; and a stop  *)
(* that waits for a clock has found one.                                       *)
Attended ==
  /\ \A r \in Ticking : run[r] = "polling" /\ runner[r].running /\ runner[r].status = "running"
  /\ \A q \in Stops : stop[q] = "stopping" => target[q] \in Runs

(* Without a race of runs one task is on its way or at work, and one that is   *)
(* at work is registered with the routes.                                      *)
Alone ==
  ~raced =>
    /\ \A r, k \in Runs : Active(r) /\ Active(k) => r = k
    /\ \A r \in Runs : AtWork(r) => routes = r

(* Without a race of a run and a stop either, the clock that ticks is found    *)
(* under its id; and from the moment a stop has looked none ticks and none is  *)
(* on its way.                                                                 *)
Found ==
  ~raced /\ ~missed =>
    /\ Ticking \subseteq {registry}
    /\ status = "stopped" \/ (\E q \in Stops : Stopping(q)) =>
         Ticking = {} /\ \A r \in Runs : ~OnTheWay(r)

LifecycleInv == LifecycleTypeOK /\ Attended /\ Alone /\ Found

LEMMA InitLifecycleInv == ASSUME LifecycleInit PROVE LifecycleInv
<1>1. LifecycleTypeOK
  BY DEF LifecycleInit, LifecycleTypeOK
<1>2. Ticking = {} /\ Attended
  BY DEF LifecycleInit, Ticking, Attended
<1>3. Alone
  BY DEF LifecycleInit, Alone, Active, AtWork
<1>4. Found
  BY <1>2 DEF LifecycleInit, Found, Stopping
<1> QED BY <1>1, <1>2, <1>3, <1>4 DEF LifecycleInv

LEMMA LifecycleTypeStep ==
  ASSUME LifecycleTypeOK, Attended, [LifecycleNext]_lifecycleVars
  PROVE  LifecycleTypeOK'
<1> USE DEF requests, dicts, runners, history
<1>1. CASE UNCHANGED lifecycleVars
  BY <1>1 DEF LifecycleTypeOK, lifecycleVars
<1>2. ASSUME NEW s \in Starts, StartReads(s) \/ StartWrites(s) PROVE LifecycleTypeOK'
  BY <1>2 DEF LifecycleTypeOK, StartReads, StartWrites
<1>3. ASSUME NEW r \in Runs, RunReads(r) \/ RunChecks(r) PROVE LifecycleTypeOK'
  BY <1>3 DEF LifecycleTypeOK, RunReads, RunChecks, OnTheWay, Stopping
<1>4. ASSUME NEW r \in Runs, TaskStep(r) PROVE LifecycleTypeOK'
  <2>1. CASE TaskBegins(r)
    <3>1. [running |-> TRUE, status |-> "running"] \in RunnerStates
      BY DEF RunnerStates
    <3>2. runner' \in [Runs -> RunnerStates]
      BY <2>1, <3>1 DEF LifecycleTypeOK, TaskBegins, RunnerStates
    <3> QED BY <2>1, <3>2 DEF LifecycleTypeOK, TaskBegins, RunnerStates
  <2>2. CASE TaskFails(r)
    BY <2>2 DEF LifecycleTypeOK, TaskFails
  <2>3. CASE TaskEnds(r)
    BY <2>3 DEF LifecycleTypeOK, TaskEnds
  <2> QED BY <1>4, <2>1, <2>2, <2>3 DEF TaskStep
<1>5. ASSUME NEW r \in Runs, MonitorStep(r) \/ ClockStep(r) PROVE LifecycleTypeOK'
  <2>1. CASE MonitorFindsEnd(r)
    <3>1. runner[r] \in RunnerStates
      BY DEF LifecycleTypeOK, RunnerStates
    <3>2. [runner[r] EXCEPT !.status = "completed"] \in RunnerStates
      BY <3>1 DEF RunnerStates
    <3>3. runner' \in [Runs -> RunnerStates]
      BY <2>1, <3>2 DEF LifecycleTypeOK, MonitorFindsEnd, RunnerStates
    <3> QED BY <2>1, <3>3 DEF LifecycleTypeOK, MonitorFindsEnd, RunnerStates
  <2>2. CASE MonitorEnds(r)
    BY <2>2 DEF LifecycleTypeOK, MonitorEnds
  <2>3. CASE ClockEnds(r) \/ ClockCancelled(r)
    BY <2>3 DEF LifecycleTypeOK, ClockEnds, ClockCancelled
  <2> QED BY <1>5, <2>1, <2>2, <2>3 DEF MonitorStep, ClockStep
<1>6. ASSUME NEW q \in Stops, StopReads(q) \/ StopWrites(q) PROVE LifecycleTypeOK'
  BY <1>6 DEF LifecycleTypeOK, StopReads, StopWrites
<1>7. ASSUME NEW q \in Stops, StopLooks(q) PROVE LifecycleTypeOK'
  <2>1. CASE registry # None /\ runner[registry].running
    <3>1. registry \in Runs /\ runner[registry] \in RunnerStates
      BY <2>1 DEF LifecycleTypeOK, RunnerStates
    <3>2. [runner[registry] EXCEPT !.running = FALSE] \in RunnerStates
      BY <3>1 DEF RunnerStates
    <3>3. runner' \in [Runs -> RunnerStates]
      BY <1>7, <2>1, <3>2 DEF LifecycleTypeOK, StopLooks, RunnerStates
    <3>4. clock' \in [Runs -> {"off", "ticking", "cancelled", "over"}]
      BY <1>7, <2>1 DEF LifecycleTypeOK, StopLooks
    <3>5. stop' \in [Stops -> {"idle", "read", "refused", "stopping", "writing", "done"}]
      BY <1>7, <2>1 DEF LifecycleTypeOK, StopLooks
    <3>6. target' \in [Stops -> Runs \cup {None}] /\ missed' \in BOOLEAN
      BY <1>7 DEF LifecycleTypeOK, StopLooks
    <3>7. UNCHANGED <<status, start, run, routes, registry, monitor, raced>>
      BY <1>7, <2>1 DEF StopLooks
    <3> QED BY <3>3, <3>4, <3>5, <3>6, <3>7 DEF LifecycleTypeOK, RunnerStates
  <2>2. CASE ~(registry # None /\ runner[registry].running)
    BY <1>7, <2>2 DEF LifecycleTypeOK, StopLooks
  <2> QED BY <2>1, <2>2
<1>8. ASSUME NEW q \in Stops, StopFinishes(q) PROVE LifecycleTypeOK'
  BY <1>8 DEF LifecycleTypeOK, Attended, StopFinishes
<1> QED
  BY <1>1, <1>2, <1>3, <1>4, <1>5, <1>6, <1>7, <1>8 DEF LifecycleNext, RequestStep

LEMMA AttendedStep ==
  ASSUME LifecycleTypeOK, Attended, [LifecycleNext]_lifecycleVars
  PROVE  Attended'
<1> USE DEF requests, dicts, runners, history, Ticking
<1>1. CASE UNCHANGED lifecycleVars
  BY <1>1 DEF Attended, lifecycleVars
<1>2. ASSUME NEW s \in Starts, StartReads(s) \/ StartWrites(s) PROVE Attended'
  BY <1>2 DEF Attended, StartReads, StartWrites
<1>3. ASSUME NEW r \in Runs, RunReads(r) \/ RunChecks(r) PROVE Attended'
  BY <1>3 DEF LifecycleTypeOK, Attended, RunReads, RunChecks
<1>4. ASSUME NEW r \in Runs, TaskStep(r) PROVE Attended'
  BY <1>4 DEF LifecycleTypeOK, Attended, TaskStep, TaskBegins, TaskFails, TaskEnds
<1>5. ASSUME NEW r \in Runs, MonitorStep(r) \/ ClockStep(r) PROVE Attended'
  BY <1>5 DEF LifecycleTypeOK, Attended, MonitorStep, MonitorFindsEnd, MonitorEnds, ClockStep,
              ClockEnds, ClockCancelled
<1>6. ASSUME NEW q \in Stops, StopReads(q) \/ StopWrites(q) PROVE Attended'
  BY <1>6 DEF LifecycleTypeOK, Attended, StopReads, StopWrites
<1>7. ASSUME NEW q \in Stops, StopLooks(q) PROVE Attended'
  <2>1. registry # None => registry \in Runs
    BY DEF LifecycleTypeOK
  <2> QED BY <1>7, <2>1 DEF LifecycleTypeOK, Attended, StopLooks
<1>8. ASSUME NEW q \in Stops, StopFinishes(q) PROVE Attended'
  BY <1>8 DEF LifecycleTypeOK, Attended, StopFinishes
<1> QED
  BY <1>1, <1>2, <1>3, <1>4, <1>5, <1>6, <1>7, <1>8 DEF LifecycleNext, RequestStep

LEMMA AloneStep ==
  ASSUME LifecycleTypeOK, Alone, [LifecycleNext]_lifecycleVars
  PROVE  Alone'
<1> USE DEF requests, dicts, runners, history
<1>1. CASE UNCHANGED <<run, routes, raced>>
  BY <1>1 DEF Alone, Active, AtWork
<1>2. ASSUME NEW r \in Runs, RunReads(r) PROVE Alone'
  BY <1>2 DEF LifecycleTypeOK, Alone, Active, AtWork, RunReads
<1>3. ASSUME NEW r \in Runs, RunChecks(r) PROVE Alone'
  <2>1. CASE routes # None
    BY <1>3, <2>1 DEF LifecycleTypeOK, Alone, Active, AtWork, RunChecks
  <2>2. CASE routes = None /\ ~raced'
    <3>1. ~raced /\ \A k \in Runs : ~Active(k)
      BY <1>3, <2>2, LifecycleAssumption DEF Alone, Active, AtWork, RunChecks, OnTheWay,
         LifecycleTypeOK
    <3> QED BY <1>3, <2>2, <3>1 DEF LifecycleTypeOK, Alone, Active, AtWork, RunChecks
  <2> QED BY <2>1, <2>2 DEF Alone
<1>4. ASSUME NEW r \in Runs, TaskBegins(r) \/ TaskFails(r) PROVE Alone'
  BY <1>4 DEF LifecycleTypeOK, Alone, Active, AtWork, TaskBegins, TaskFails
<1>5. ASSUME NEW r \in Runs, TaskEnds(r) PROVE Alone'
  BY <1>5 DEF LifecycleTypeOK, Alone, Active, AtWork, TaskEnds
<1> QED
  BY <1>1, <1>2, <1>3, <1>4, <1>5 DEF LifecycleNext, TaskStep, MonitorStep, ClockStep, RequestStep,
     StartReads, StartWrites, MonitorFindsEnd, MonitorEnds, ClockEnds, ClockCancelled, StopReads,
     StopLooks, StopFinishes, StopWrites, lifecycleVars

LEMMA FoundStep ==
  ASSUME LifecycleInv, [LifecycleNext]_lifecycleVars
  PROVE  Found'
<1> USE DEF requests, dicts, runners, history
<1>0. SUFFICES ASSUME ~raced', ~missed'
               PROVE  /\ Ticking' \subseteq {registry'}
                      /\ status' = "stopped" \/ (\E q \in Stops : Stopping(q)') =>
                           Ticking' = {} /\ \A r \in Runs : ~OnTheWay(r)'
  BY DEF Found
<1>1. ~raced /\ ~missed
  <2>1. CASE UNCHANGED history
    BY <1>0, <2>1
  <2>2. ASSUME NEW r \in Runs, RunChecks(r) PROVE ~raced /\ ~missed
    BY <1>0, <2>2 DEF RunChecks
  <2>3. ASSUME NEW q \in Stops, StopLooks(q) PROVE ~raced /\ ~missed
    BY <1>0, <2>3 DEF StopLooks
  <2>4. CASE UNCHANGED lifecycleVars
    BY <2>1, <2>4 DEF lifecycleVars
  <2>5. ASSUME NEW r \in Runs, RunReads(r) \/ TaskStep(r) \/ MonitorStep(r) \/ ClockStep(r)
        PROVE  UNCHANGED history
    BY <2>5 DEF RunReads, TaskStep, TaskBegins, TaskFails, TaskEnds, MonitorStep, MonitorFindsEnd,
       MonitorEnds, ClockStep, ClockEnds, ClockCancelled
  <2>6. ASSUME NEW q \in Stops, StopReads(q) \/ StopFinishes(q) \/ StopWrites(q)
        PROVE  UNCHANGED history
    BY <2>6 DEF StopReads, StopFinishes, StopWrites
  <2>7. ASSUME NEW s \in Starts, StartReads(s) \/ StartWrites(s) PROVE UNCHANGED history
    BY <2>7 DEF StartReads, StartWrites
  <2> QED
    BY <2>1, <2>2, <2>3, <2>4, <2>5, <2>6, <2>7 DEF LifecycleNext, RequestStep
<1>2. /\ Ticking \subseteq {registry}
      /\ status = "stopped" \/ (\E q \in Stops : Stopping(q)) =>
           Ticking = {} /\ \A r \in Runs : ~OnTheWay(r)
  BY <1>1 DEF LifecycleInv, Found
\* Whoever ticks is the one task there is.
<1>3. \A r, k \in Runs : Active(r) /\ k \in Ticking => r = k
  BY <1>1 DEF LifecycleInv, Alone, Attended, Active, Ticking
<1>4. CASE UNCHANGED <<status, stop, run, registry>> /\ Ticking' \subseteq Ticking
  BY <1>2, <1>4 DEF Stopping, OnTheWay
<1>5. ASSUME NEW s \in Starts, StartReads(s) \/ StartWrites(s)
      PROVE  /\ Ticking' \subseteq {registry'}
             /\ status' = "stopped" \/ (\E q \in Stops : Stopping(q)') =>
                  Ticking' = {} /\ \A r \in Runs : ~OnTheWay(r)'
  BY <1>2, <1>5 DEF StartReads, StartWrites, Stopping, OnTheWay, Ticking
<1>6. ASSUME NEW r \in Runs, RunReads(r) \/ RunChecks(r)
      PROVE  /\ Ticking' \subseteq {registry'}
             /\ status' = "stopped" \/ (\E q \in Stops : Stopping(q)') =>
                  Ticking' = {} /\ \A k \in Runs : ~OnTheWay(k)'
  <2>1. UNCHANGED <<status, stop, registry>> /\ Ticking' = Ticking
    BY <1>6 DEF RunReads, RunChecks, Ticking
  <2>2. \A q \in Stops : Stopping(q)' = Stopping(q)
    BY <2>1 DEF Stopping
  <2>3. CASE \A k \in Runs : OnTheWay(k)' => OnTheWay(k)
    BY <1>2, <2>1, <2>2, <2>3
  <2>4. CASE RunReads(r) \/ routes # None
    <3>1. \A k \in Runs : OnTheWay(k)' => OnTheWay(k)
      BY <1>6, <2>4 DEF RunReads, RunChecks, OnTheWay, LifecycleInv, LifecycleTypeOK
    <3> QED BY <2>3, <3>1
  <2>5. CASE RunChecks(r) /\ routes = None
    <3>1. status = "running" /\ \A q \in Stops : ~Stopping(q)
      BY <1>0, <2>5 DEF RunChecks
    <3> QED BY <1>2, <2>1, <2>2, <3>1
  <2> QED BY <1>6, <2>4, <2>5
<1>7. ASSUME NEW r \in Runs, TaskBegins(r)
      PROVE  /\ Ticking' \subseteq {registry'}
             /\ status' = "stopped" \/ (\E q \in Stops : Stopping(q)') =>
                  Ticking' = {} /\ \A k \in Runs : ~OnTheWay(k)'
  <2>1. Ticking' \subseteq {r} /\ registry' = r
    BY <1>3, <1>7 DEF TaskBegins, Active, Ticking, LifecycleInv, LifecycleTypeOK
  <2>2. status' # "stopped" /\ \A q \in Stops : ~Stopping(q)'
    BY <1>2, <1>7 DEF TaskBegins, OnTheWay, Stopping
  <2> QED BY <2>1, <2>2
<1>8. ASSUME NEW r \in Runs, TaskFails(r) \/ TaskEnds(r)
      PROVE  /\ Ticking' \subseteq {registry'}
             /\ status' = "stopped" \/ (\E q \in Stops : Stopping(q)') =>
                  Ticking' = {} /\ \A k \in Runs : ~OnTheWay(k)'
  <2>1. r \notin Ticking
    BY <1>8 DEF TaskFails, TaskEnds, LifecycleInv, Attended
  <2>2. Ticking' = {}
    BY <1>3, <1>8, <2>1 DEF TaskFails, TaskEnds, Active, Ticking
  <2>3. \A k \in Runs : OnTheWay(k)' => OnTheWay(k)
    BY <1>8 DEF TaskFails, TaskEnds, OnTheWay, LifecycleInv, LifecycleTypeOK
  <2>4. status' = status /\ \A q \in Stops : Stopping(q)' = Stopping(q)
    BY <1>8 DEF TaskFails, TaskEnds, Stopping
  <2> QED BY <1>2, <2>2, <2>3, <2>4
<1>9. ASSUME NEW r \in Runs, MonitorStep(r) \/ ClockStep(r)
      PROVE  UNCHANGED <<status, stop, run, registry>> /\ Ticking' \subseteq Ticking
  BY <1>9 DEF MonitorStep, ClockStep, MonitorFindsEnd, MonitorEnds, ClockEnds, ClockCancelled,
     Ticking, LifecycleInv, LifecycleTypeOK
<1>10. ASSUME NEW q \in Stops, StopReads(q)
       PROVE  /\ Ticking' \subseteq {registry'}
              /\ status' = "stopped" \/ (\E p \in Stops : Stopping(p)') =>
                   Ticking' = {} /\ \A k \in Runs : ~OnTheWay(k)'
  BY <1>2, <1>10 DEF StopReads, Stopping, OnTheWay, Ticking, LifecycleInv, LifecycleTypeOK
<1>11. ASSUME NEW q \in Stops, StopLooks(q)
       PROVE  Ticking' = {} /\ \A k \in Runs : ~OnTheWay(k)'
  <2>1. \A k \in Runs : ~OnTheWay(k)'
    BY <1>0, <1>11 DEF StopLooks, OnTheWay
  <2>2. CASE registry # None /\ runner[registry].running
    <3>1. registry \in Runs /\ clock' = [clock EXCEPT ![registry] = IF @ = "ticking" THEN "cancelled" ELSE @]
      BY <1>11, <2>2 DEF StopLooks, LifecycleInv, LifecycleTypeOK
    <3>2. Ticking' = {}
      BY <1>2, <3>1 DEF Ticking, LifecycleInv, LifecycleTypeOK
    <3> QED BY <2>1, <3>2
  <2>3. CASE ~(registry # None /\ runner[registry].running)
    <3>1. Ticking = {}
      BY <1>2, <2>3, LifecycleAssumption DEF LifecycleInv, Attended, Ticking
    <3>2. Ticking' = Ticking
      BY <1>11, <2>3 DEF StopLooks, Ticking
    <3> QED BY <2>1, <3>1, <3>2
  <2> QED BY <2>2, <2>3
<1>12. ASSUME NEW q \in Stops, StopFinishes(q) \/ StopWrites(q)
       PROVE  Ticking' = {} /\ \A k \in Runs : ~OnTheWay(k)'
  <2>1. Stopping(q)
    BY <1>12 DEF StopFinishes, StopWrites, Stopping
  <2>2. Ticking' = Ticking /\ \A k \in Runs : OnTheWay(k)' = OnTheWay(k)
    BY <1>12 DEF StopFinishes, StopWrites, Ticking, OnTheWay
  <2> QED BY <1>2, <2>1, <2>2
<1>13. CASE UNCHANGED lifecycleVars
  BY <1>4, <1>13 DEF lifecycleVars, Ticking
<1> QED
  BY <1>4, <1>5, <1>6, <1>7, <1>8, <1>9, <1>10, <1>11, <1>12, <1>13
     DEF LifecycleNext, TaskStep, RequestStep

(* The inductive invariant of one simulation's requests, tasks and registries. *)
THEOREM LifecycleInvariant == LifecycleSpec => []LifecycleInv
<1>1. LifecycleInit => LifecycleInv
  BY InitLifecycleInv
<1>2. LifecycleInv /\ [LifecycleNext]_lifecycleVars => LifecycleInv'
  BY LifecycleTypeStep, AttendedStep, AloneStep, FoundStep DEF LifecycleInv
<1> QED BY <1>1, <1>2, PTL DEF LifecycleSpec

(* However many requests to run a simulation come, two clocks tick for it only *)
(* after one request passed its check while the task of another had not begun  *)
(* (run_simulation, _run_real_simulation).                                     *)
THEOREM RunsExclude == LifecycleSpec => []OneRunner
<1>1. ASSUME LifecycleInv, ~raced PROVE Cardinality(Ticking) <= 1
  <2>1. \A r, k \in Ticking : r = k
    BY <1>1 DEF LifecycleInv, Alone, Attended, Active, Ticking
  <2>2. CASE Ticking = {}
    BY <2>2, FS_EmptySet
  <2>3. ASSUME NEW r \in Ticking PROVE Cardinality(Ticking) <= 1
    <3>1. Ticking = {r}
      BY <2>1, <2>3
    <3> QED BY <3>1, FS_Singleton
  <2> QED BY <2>2, <2>3
<1>2. LifecycleInv => OneRunner
  BY <1>1 DEF OneRunner
<1> QED BY <1>2, LifecycleInvariant, PTL

(* Unless a run and a stop passed each other, no clock ticks for a simulation  *)
(* whose row says stopped (stop_simulation, cleanup_simulation).               *)
THEOREM StoppingSilences == LifecycleSpec => []StoppedIsQuiet
<1>1. LifecycleInv => StoppedIsQuiet
  BY DEF LifecycleInv, Found, StoppedIsQuiet
<1> QED BY <1>1, LifecycleInvariant, PTL

(* ... and a clock that ticks is found under the simulation's id               *)
(* (register_simulation, unregister_simulation).                               *)
THEOREM TickingIsFound == LifecycleSpec => []LiveIsRegistered
<1>1. LifecycleInv => LiveIsRegistered
  BY DEF LifecycleInv, Found, LiveIsRegistered
<1> QED BY <1>1, LifecycleInvariant, PTL
=============================================================================
