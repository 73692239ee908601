------------------------ MODULE SimulationLifecycle ------------------------
(***************************************************************************)
(* The life of one simulation: the routes that start, run and stop it, the *)
(* background task of a run, RealSimulationRunner with its monitor, and    *)
(* the two registries in which routes and runners are looked up by the     *)
(* simulation's id.  The clock is the orchestrator's loop, of which only   *)
(* the life is kept (Orchestrator has the rest).                           *)
(*                                                                         *)
(* A route suspends at the database, so a status it has read may be old    *)
(* when it acts on it.  A background task does not suspend from its        *)
(* beginning until its first poll: nothing it awaits there does I/O.       *)
(***************************************************************************)
EXTENDS Naturals, FiniteSets

CONSTANTS Starts, \* the requests to /start
          Runs,   \* the requests to /run; a run's task and runner go by its name
          Stops,  \* the requests to /stop
          None

ASSUME LifecycleAssumption == None \notin Runs

VARIABLES status,   \* the status in the simulation's row
          start,    \* where each request to /start is
          run,      \* where each request to /run, and then its task, is
          stop,     \* where each request to /stop is
          target,   \* the runner a request to /stop found
          routes,   \* _running_simulations of the routes
          registry, \* _running_simulations of the runners
          runner,   \* what a runner keeps: its flag and its status
          clock,    \* the loop of its orchestrator
          monitor,  \* its monitoring task
          raced,    \* history: a run passed its check with another on the way
          missed    \* history: a run and a stop passed each other

requests == <<status, start, target>>
dicts == <<routes, registry>>
runners == <<runner, clock, monitor>>
history == <<raced, missed>>
lifecycleVars == <<requests, run, stop, dicts, runners, history>>

LifecycleInit ==
  /\ status = "pending"
  /\ start = [s \in Starts |-> "idle"] /\ run = [r \in Runs |-> "idle"]
  /\ stop = [q \in Stops |-> "idle"] /\ target = [q \in Stops |-> None]
  /\ routes = None /\ registry = None
  /\ runner = [r \in Runs |-> [running |-> FALSE, status |-> "pending"]]
  /\ clock = [r \in Runs |-> "off"] /\ monitor = [r \in Runs |-> "off"]
  /\ raced = FALSE /\ missed = FALSE

\* A run that passed its check and whose runner is not yet to be found.
OnTheWay(r) == run[r] = "scheduled"
\* A stop that has looked for a runner and not yet written the row.
Stopping(q) == stop[q] \in {"stopping", "writing"}
\* A runner whose clock ticks.
Ticking == {r \in Runs : clock[r] = "ticking"}

-----------------------------------------------------------------------------
(* /start                                                                   *)
StartReads(s) ==
  /\ start[s] = "idle"
  /\ start' = [start EXCEPT ![s] = IF status = "pending" THEN "read" ELSE "refused"]
  /\ UNCHANGED <<status, target, run, stop, dicts, runners, history>>

StartWrites(s) ==
  /\ start[s] = "read"
  /\ status' = "running"
  /\ start' = [start EXCEPT ![s] = "done"]
  /\ UNCHANGED <<target, run, stop, dicts, runners, history>>

-----------------------------------------------------------------------------
(* /run                                                                     *)
RunReads(r) ==
  /\ run[r] = "idle"
  /\ run' = [run EXCEPT ![r] = IF status = "running" THEN "read" ELSE "refused"]
  /\ UNCHANGED <<requests, stop, dicts, runners, history>>

(* Variants named ...Bug are the mistakes the properties are there to      *)
(* catch; no specification uses them.                                      *)
RunChecksBug(r) ==
  /\ run[r] = "read"
  /\ run' = [run EXCEPT ![r] = "scheduled"]
  /\ raced' = (raced \/ \E k \in Runs : OnTheWay(k))
  /\ missed' = (missed \/ status # "running" \/ \E q \in Stops : Stopping(q))
  /\ UNCHANGED <<requests, stop, dicts, runners>>
\* "Simulation already running", or a task to be started after the answer.
RunChecks(r) ==
  /\ run[r] = "read"
  /\ IF routes # None
     THEN run' = [run EXCEPT ![r] = "already"] /\ UNCHANGED history
     ELSE /\ run' = [run EXCEPT ![r] = "scheduled"]
          /\ raced' = (raced \/ \E k \in Runs : OnTheWay(k))
          /\ missed' = (missed \/ status # "running" \/ \E q \in Stops : Stopping(q))
  /\ UNCHANGED <<requests, stop, dicts, runners>>

TaskBeginsBug(r) ==
  /\ run[r] = "scheduled"
  /\ run' = [run EXCEPT ![r] = "polling"]
  /\ routes' = r
  /\ runner' = [runner EXCEPT ![r] = [running |-> TRUE, status |-> "running"]]
  /\ clock' = [clock EXCEPT ![r] = "ticking"]
  /\ monitor' = [monitor EXCEPT ![r] = "polling"]
  /\ UNCHANGED <<requests, stop, registry, history>>
\* _run_real_simulation up to its first poll: the runner is registered, set up
\* and started.
TaskBegins(r) ==
  /\ run[r] = "scheduled"
  /\ run' = [run EXCEPT ![r] = "polling"]
  /\ routes' = r /\ registry' = r
  /\ runner' = [runner EXCEPT ![r] = [running |-> TRUE, status |-> "running"]]
  /\ clock' = [clock EXCEPT ![r] = "ticking"]
  /\ monitor' = [monitor EXCEPT ![r] = "polling"]
  /\ UNCHANGED <<requests, stop, history>>

\* The runner cannot be set up; the task publishes the error before it ends.
TaskFails(r) ==
  /\ run[r] = "scheduled"
  /\ run' = [run EXCEPT ![r] = "failing"]
  /\ routes' = r /\ registry' = r
  /\ UNCHANGED <<requests, stop, runners, history>>

\* The task takes out what is registered under the id, its own or another's.
TaskEnds(r) ==
  /\ \/ run[r] = "failing"
     \/ run[r] = "polling" /\ runner[r].status # "running"
  /\ run' = [run EXCEPT ![r] = "done"]
  /\ routes' = None /\ registry' = None
  /\ UNCHANGED <<requests, stop, runners, history>>

-----------------------------------------------------------------------------
(* The runner between its start and its end.                                *)

\* The orchestrator reaches its limit or gives up.
ClockEnds(r) ==
  /\ clock[r] = "ticking"
  /\ clock' = [clock EXCEPT ![r] = "over"]
  /\ UNCHANGED <<requests, run, stop, dicts, runner, monitor, history>>

\* The loop takes its cancellation.
ClockCancelled(r) ==
  /\ clock[r] = "cancelled"
  /\ clock' = [clock EXCEPT ![r] = "over"]
  /\ UNCHANGED <<requests, run, stop, dicts, runner, monitor, history>>

MonitorFindsEndBug(r) ==
  /\ monitor[r] = "polling"
  /\ clock[r] # "ticking"
  /\ runner' = [runner EXCEPT ![r].running = FALSE]
  /\ monitor' = [monitor EXCEPT ![r] = "publishing"]
  /\ UNCHANGED <<requests, run, stop, dicts, clock, history>>
\* "Simulation completed naturally": the clock is over, or a stop took the flag
\* down and has not yet got to the monitor.
MonitorFindsEnd(r) ==
  /\ monitor[r] = "polling"
  /\ ~runner[r].running \/ clock[r] # "ticking"
  /\ runner' = [runner EXCEPT ![r].status = "completed"]
  /\ monitor' = [monitor EXCEPT ![r] = "publishing"]
  /\ UNCHANGED <<requests, run, stop, dicts, clock, history>>

MonitorEnds(r) ==
  /\ monitor[r] = "publishing"
  /\ monitor' = [monitor EXCEPT ![r] = "done"]
  /\ UNCHANGED <<requests, run, stop, dicts, runner, clock, history>>

-----------------------------------------------------------------------------
(* /stop                                                                    *)
StopReads(q) ==
  /\ stop[q] = "idle"
  /\ stop' = [stop EXCEPT ![q] = IF status = "running" THEN "read" ELSE "refused"]
  /\ UNCHANGED <<requests, run, dicts, runners, history>>

StopLooksBug(q) ==
  /\ stop[q] = "read"
  /\ target' = [target EXCEPT ![q] = registry]
  /\ missed' = (missed \/ \E r \in Runs : OnTheWay(r))
  /\ stop' = [stop EXCEPT ![q] = "writing"]
  /\ runner' = IF registry = None THEN runner
               ELSE [runner EXCEPT ![registry].running = FALSE]
  /\ registry' = None
  /\ UNCHANGED <<status, start, run, routes, clock, monitor, raced>>
\* What a runner's stop does at once: without its flag up it returns, and the
\* id is taken out of the runners' registry; else the flag goes down and the
\* clock, if it ticks, is cancelled.
StopLooks(q) ==
  /\ stop[q] = "read"
  /\ target' = [target EXCEPT ![q] = registry]
  /\ missed' = (missed \/ \E r \in Runs : OnTheWay(r))
  /\ IF registry # None /\ runner[registry].running
     THEN /\ stop' = [stop EXCEPT ![q] = "stopping"]
          /\ runner' = [runner EXCEPT ![registry].running = FALSE]
          /\ clock' = [clock EXCEPT ![registry] = IF @ = "ticking" THEN "cancelled" ELSE @]
          /\ UNCHANGED registry
     ELSE /\ stop' = [stop EXCEPT ![q] = "writing"]
          /\ registry' = None
          /\ UNCHANGED <<runner, clock>>
  /\ UNCHANGED <<status, start, run, routes, monitor, raced>>

\* The clock is over: the monitor is cancelled, if it still runs, and the id
\* taken out of the registry.
StopFinishes(q) ==
  LET r == target[q] IN
  /\ stop[q] = "stopping" /\ clock[r] = "over"
  /\ monitor' = [monitor EXCEPT ![r] = "done"]
  /\ runner' = [runner EXCEPT ![r].status = "stopped"]
  /\ registry' = None
  /\ stop' = [stop EXCEPT ![q] = "writing"]
  /\ UNCHANGED <<requests, run, routes, clock, history>>

StopWrites(q) ==
  /\ stop[q] = "writing"
  /\ status' = "stopped"
  /\ stop' = [stop EXCEPT ![q] = "done"]
  /\ UNCHANGED <<start, target, run, dicts, runners, history>>

-----------------------------------------------------------------------------
TaskStep(r) == TaskBegins(r) \/ TaskFails(r) \/ TaskEnds(r)
MonitorStep(r) == MonitorFindsEnd(r) \/ MonitorEnds(r)
ClockStep(r) == ClockEnds(r) \/ ClockCancelled(r)
RequestStep(q) == StopLooks(q) \/ StopFinishes(q) \/ StopWrites(q)

LifecycleNext ==
  \/ \E s \in Starts : StartReads(s) \/ StartWrites(s)
  \/ \E r \in Runs : \/ RunReads(r) \/ RunChecks(r)
                     \/ TaskStep(r) \/ MonitorStep(r) \/ ClockStep(r)
  \/ \E q \in Stops : StopReads(q) \/ RequestStep(q)

LifecycleSpec == LifecycleInit /\ [][LifecycleNext]_lifecycleVars

\* Tasks that are ready run, a request under way is answered, and a clock has a
\* limit (EveryRunEnds of Orchestrator).  Nobody has to ask.
LifecycleFairSpec ==
  /\ LifecycleSpec
  /\ \A r \in Runs : /\ WF_lifecycleVars(TaskStep(r))
                     /\ WF_lifecycleVars(MonitorStep(r))
                     /\ WF_lifecycleVars(ClockStep(r))
  /\ \A q \in Stops : WF_lifecycleVars(RequestStep(q))

-----------------------------------------------------------------------------
\* The type of every variable.
LifecycleTypeOK ==
  /\ status \in {"pending", "running", "stopped"}
  /\ start \in [Starts -> {"idle", "read", "refused", "done"}]
  /\ run \in [Runs -> {"idle", "read", "refused", "already", "scheduled", "polling",
                       "failing", "done"}]
  /\ stop \in [Stops -> {"idle", "read", "refused", "stopping", "writing", "done"}]
  /\ target \in [Stops -> Runs \cup {None}]
  /\ routes \in Runs \cup {None} /\ registry \in Runs \cup {None}
  /\ runner \in [Runs -> [running : BOOLEAN,
                          status : {"pending", "running", "completed", "stopped"}]]
  /\ clock \in [Runs -> {"off", "ticking", "cancelled", "over"}]
  /\ monitor \in [Runs -> {"off", "polling", "publishing", "done"}]
  /\ raced \in BOOLEAN /\ missed \in BOOLEAN

\* One simulation has one runner: a second run is told that it is running
\* already.  The only way to two is a request that passes its check while the
\* task of another has not begun (run_simulation, _run_real_simulation).
OneRunner == ~raced => Cardinality(Ticking) <= 1

\* A stopped simulation is quiet: once /stop has written the row no clock ticks,
\* and none begins to, save where a run and a stop passed each other: the stop
\* looked before the run's task began, or the run checked a status it had read
\* before the stop (stop_simulation, cleanup_simulation, run_simulation).
StoppedIsQuiet == (status = "stopped" /\ ~raced /\ ~missed) => Ticking = {}

\* No runner is lost while it ticks: /stop finds it under its id
\* (register_simulation, unregister_simulation).
LiveIsRegistered == ~raced /\ ~missed => Ticking \subseteq {registry}

\* Nothing stays behind: whatever ends a run (its limit, a stop, a failure), its
\* task ends and takes the id out, so that the simulation can be run again
\* (_run_real_simulation, _monitor_completion).
RunsAreCleanedUp == \A r \in Runs : run[r] = "scheduled" ~> run[r] = "done" /\ routes # r
=============================================================================
