---------------------------- MODULE Orchestrator ----------------------------
(***************************************************************************)
(* SimulationOrchestrator: the task that publishes one TickEvent after     *)
(* another, and the calls that start and stop it.                          *)
(*                                                                         *)
(* The loop suspends only in its two sleeps: publish puts the event on a   *)
(* bus that is running.  stop suspends while it waits for the task it      *)
(* cancelled.  A step of a loop runs from one sleep to the next.           *)
(***************************************************************************)
EXTENDS Integers, Sequences, FiniteSets

CONSTANTS Limits,    \* values of max_ticks; 0 stands for none
          MaxErrors, \* consecutive errors before a run is given up
          MaxStarts, \* bound: calls of start that take effect
          MaxTicks   \* bound: ticks of a run without a limit

ASSUME OrchestratorAssumption ==
         /\ Limits \subseteq Nat /\ MaxErrors \in Nat \ {0}
         /\ MaxStarts \in Nat /\ MaxTicks \in Nat

Loops == 1..MaxStarts

VARIABLES limit,     \* max_ticks of the configuration
          running,   \* _is_running
          task,      \* _runner_task: a loop, or 0 for None
          loop,      \* the loops: where they are, and their locals
          current,   \* _current_tick
          waiting,   \* the loops that a suspended stop waits for
          published, \* history: the tick numbers each loop published
          overtaken  \* history: a start came while a stop was waiting

vars == <<limit, running, task, loop, current, waiting, published, overtaken>>

NoLoop == [at |-> "none", tick |-> 0, errors |-> 0, cancelled |-> FALSE]

Started == {l \in Loops : loop[l].at # "none"}
Live == {l \in Started : loop[l].at # "done"}

Init ==
  /\ limit \in Limits
  /\ running = FALSE /\ task = 0 /\ current = 0 /\ waiting = {}
  /\ loop = [l \in Loops |-> NoLoop]
  /\ published = [l \in Loops |-> <<>>]
  /\ overtaken = FALSE

-----------------------------------------------------------------------------
\* start on a running orchestrator returns at once.
Start ==
  /\ ~running
  /\ \E l \in Loops \ Started :
       /\ \A k \in 1..(l - 1) : k \in Started
       /\ loop' = [loop EXCEPT ![l].at = "ready"]
       /\ task' = l
  /\ running' = TRUE
  /\ overtaken' = (overtaken \/ waiting # {})
  /\ UNCHANGED <<limit, current, waiting, published>>

(* Variants named ...Bug are the mistakes the properties are there to      *)
(* catch; no specification uses them.                                      *)
StopBug ==
  /\ running
  /\ running' = FALSE
  /\ task' = 0
  /\ UNCHANGED <<limit, loop, current, waiting, published, overtaken>>
\* stop when nothing runs returns at once; with no task it has nobody to wait
\* for, and only takes down the flag.
Stop ==
  /\ running
  /\ running' = FALSE
  /\ IF task = 0 THEN UNCHANGED <<loop, waiting>>
     ELSE /\ loop' = [loop EXCEPT ![task].cancelled = TRUE]
          /\ waiting' = waiting \cup {task}
  /\ UNCHANGED <<limit, task, current, published, overtaken>>

\* The task a stop waits for is over: whatever task it finds by then, it drops.
StopReturns ==
  /\ \E l \in waiting : loop[l].at = "done" /\ waiting' = waiting \ {l}
  /\ task' = 0
  /\ UNCHANGED <<limit, running, loop, current, published, overtaken>>

-----------------------------------------------------------------------------
Ends(l) == loop' = [loop EXCEPT ![l].at = "done"]

\* The CancelledError of the sleep the loop is in, or of a task not yet begun.
IsCancelled(l) ==
  /\ loop[l].cancelled
  /\ Ends(l)
  /\ UNCHANGED <<running, current, published>>

AfterSleepBug(l) == loop[l].tick + (IF loop[l].at = "ready" THEN 0 ELSE 1)
\* A sleep between ticks advances the tick, the pause after an error does not.
AfterSleep(l) == loop[l].tick + (IF loop[l].at = "asleep" THEN 1 ELSE 0)

Continues(l) == running /\ (limit = 0 \/ AfterSleep(l) < limit)

RunsOut(l) ==
  /\ ~loop[l].cancelled /\ ~Continues(l)
  /\ Ends(l)
  /\ running' = FALSE
  /\ UNCHANGED <<current, published>>

\* The loop makes the event of its next tick and publishes it.
Tries(l) == ~loop[l].cancelled /\ Continues(l)

SleepsAt(l, place, errors) ==
  loop' = [loop EXCEPT ![l] =
            [at |-> place, tick |-> AfterSleep(l), errors |-> errors, cancelled |-> FALSE]]

PublishesBug(l) ==
  /\ Tries(l) /\ (limit # 0 \/ AfterSleep(l) < MaxTicks)
  /\ SleepsAt(l, "asleep", 0)
  /\ published' = [published EXCEPT ![l] = Append(@, AfterSleep(l))]
  /\ current' = AfterSleep(l)
  /\ UNCHANGED running
Publishes(l) ==
  /\ Tries(l) /\ (limit # 0 \/ AfterSleep(l) < MaxTicks)
  /\ SleepsAt(l, "asleep", 0)
  /\ published' = [published EXCEPT ![l] = Append(@, AfterSleep(l))]
  /\ current' = AfterSleep(l) + 1
  /\ UNCHANGED running

BacksOffBug(l) ==   \* at the limit the count of errors starts over
  /\ Tries(l)
  /\ SleepsAt(l, "paused", (loop[l].errors + 1) % MaxErrors)
  /\ UNCHANGED <<running, current, published>>
\* publish fails, but not for an error of the program itself: the same tick
\* again after a pause.
BacksOff(l) ==
  /\ Tries(l) /\ loop[l].errors + 1 < MaxErrors
  /\ SleepsAt(l, "paused", loop[l].errors + 1)
  /\ UNCHANGED <<running, current, published>>

\* One failure too many in a row, or one of the program itself (NameError,
\* TypeError, ...), which is not tried again.
GivesUp(l, ofTheProgram) ==
  /\ Tries(l) /\ (ofTheProgram \/ loop[l].errors + 1 >= MaxErrors)
  /\ Ends(l)
  /\ running' = FALSE
  /\ UNCHANGED <<current, published>>

LoopStep(l) ==
  /\ l \in Live
  /\ \/ IsCancelled(l) \/ RunsOut(l) \/ Publishes(l) \/ BacksOff(l)
     \/ \E ofTheProgram \in BOOLEAN : GivesUp(l, ofTheProgram)
  /\ UNCHANGED <<limit, task, waiting, overtaken>>

Next == Start \/ Stop \/ StopReturns \/ \E l \in Loops : LoopStep(l)

Spec == Init /\ [][Next]_vars

\* Sleeps end and the event loop runs what is ready.
FairSpec ==
  /\ Spec
  /\ WF_vars(StopReturns)
  /\ \A l \in Loops : WF_vars(LoopStep(l))

-----------------------------------------------------------------------------
Locals == [at : {"none", "ready", "asleep", "paused", "done"}, tick : Nat,
           errors : 0..(MaxErrors - 1), cancelled : BOOLEAN]

\* The type of every variable.
TypeOK ==
  /\ limit \in Limits /\ running \in BOOLEAN /\ task \in Loops \cup {0}
  /\ loop \in [Loops -> Locals] /\ current \in Nat /\ waiting \subseteq Loops
  /\ published \in [Loops -> Seq(Nat)] /\ overtaken \in BOOLEAN

\* While the flag is up exactly one task publishes, and it is the one that stop
\* would cancel; none is left once the flag is down and stop has returned.  A
\* start that overtakes a waiting stop loses this: the stop drops the new task,
\* which no later stop can cancel (start, stop, _run_loop).
OneLoop ==
  ~overtaken =>
  /\ Cardinality(Live) <= 1
  /\ running => Live = {task}
  /\ ~running /\ waiting = {} => Live = {}

\* Through errors, retries, stops and restarts a run publishes the ticks 0, 1,
\* 2, ... once each and in order, and never one beyond its limit (_run_loop).
EveryTickOnce ==
  \A l \in Loops :
    /\ published[l] = [i \in 1..Len(published[l]) |-> i - 1]
    /\ limit # 0 => Len(published[l]) <= limit

\* What get_status reports is the number of ticks of the run that published
\* last: the monitor of a run reads its length from it (_run_loop).
StatusHonest ==
  ~overtaken => \A l \in Loops :
    published[l] # <<>> /\ (\A k \in (l + 1)..MaxStarts : published[k] = <<>>)
      => current = Len(published[l])

\* A run with a limit ends, by itself or by stop, however often publishing
\* fails; its monitor polls for that (_run_loop).
EveryRunEnds ==
  \A l \in Loops : limit # 0 /\ l \in Live ~> l \notin Live
=============================================================================
