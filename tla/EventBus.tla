------------------------------ MODULE EventBus ------------------------------
(***************************************************************************)
(* InMemoryEventBus: a queue of published events, a runner task that turns *)
(* each of them into one task per matching handler, direct dispatch when   *)
(* the runner is gone, a sentinel that ends the runner on stop, and the    *)
(* bounded recording.                                                      *)
(*                                                                         *)
(* All callers share one asyncio loop.  publish, subscribe and the         *)
(* recording switches never suspend, so each is one action; stop suspends  *)
(* on the runner and on the handlers, so it is three, and several calls of *)
(* stop may be under way at once.  A call that was overtaken by a release  *)
(* and a restart releases the restarted bus as well, under its new runner; *)
(* the model follows the bus up to and with that step (stale), not beyond. *)
(*                                                                         *)
(* The queue is                                                            *)
(* unbounded and its get suspends only when it is empty: once the runner   *)
(* has the loop it drains the queue before anything else runs (draining).  *)
(* Tasks get the loop in the order they were created, which turn records.  *)
(***************************************************************************)
EXTENDS Integers, Sequences, FiniteSets

CONSTANTS
  Handler,         \* handler functions
  Class,           \* event classes
  NameOf,          \* class -> its __name__; two modules may define the same name
  Supers,          \* class -> the classes its instances are instances of
  Unsummarised,    \* classes whose summary raises ValueError
  RecordingMax,    \* EVENT_RECORDING_MAX
  MaxEvents,       \* bound: calls of publish
  MaxSubs,         \* bound: calls of subscribe
  MaxSwitches      \* bound: recording switched on, off or cleared; calls of stop

Names    == {NameOf[c] : c \in Class}
Selector == Class \cup Names
Event    == 1..MaxEvents                \* the n-th accepted publication
Stop     == 0                           \* the sentinel

ASSUME BusAssumption ==
  /\ NameOf \in [Class -> Names]
  /\ Supers \in [Class -> SUBSET Class]
  /\ \A c \in Class : c \in Supers[c]
  /\ Names \cap Class = {}
  /\ Unsummarised \subseteq Class
  /\ RecordingMax \in Nat \ {0} /\ MaxEvents \in Nat
  /\ MaxSubs \in Nat /\ MaxSwitches \in Nat

VARIABLES
  logging,      \* EVENT_LOGGING_ENABLED, as the process was started
  subscribers,  \* selector -> handler -> times it is in the selector's list
  handles,      \* handles returned and not yet given back, counted alike
  started,      \* _started
  queue,        \* _queue: events, and sentinels; empty while it is None
  runner,       \* the runner task: "none", "running", "done", "crashed"
  draining,     \* the runner has the loop
  tasks,        \* handler tasks created and not yet begun
  active,       \* handler tasks begun and suspended
  processed,    \* _events_processed
  log,          \* classes of the accepted events, in order; _events_published
  recordingOn,  \* _recording_enabled
  recorded,     \* _recorded
  truncated,    \* _recording_truncated
  heard,        \* history: events dispatched while recording, since the last clear
  stopping,     \* the calls of stop under way
  era,          \* calls up to this number wait for a runner of before the last start
  last,         \* handler -> the last event it began
  dropped,      \* history: events that went with a queue that stop let go
  stale,        \* history: a stop released a bus that was started after its call
  subs, switches  \* calls made, against the bounds

busVars == <<started, queue, runner, draining, tasks, active, processed>>
recVars == <<recordingOn, recorded, truncated, heard>>
histVars == <<last, dropped, stale>>
vars == <<logging, subscribers, handles, busVars, log, recVars, stopping, era, histVars, subs, switches>>

Task == [h: Handler, e: Event, turn: Nat, tracked: BOOLEAN]
(* A call of stop: its number among the switches; what it awaits, the runner *)
(* or the handler tasks created by turn upto; the events accepted before it. *)
Call == [n: Nat, at: {"runner", "handlers"}, marked: Nat, upto: Nat]
-----------------------------------------------------------------------------
(* Handlers under the event's class name, and under every class it is an   *)
(* instance of, each once.                                                 *)
MatchingHandlers(c) ==
  {h \in Handler : \/ subscribers[NameOf[c]][h] > 0
                   \/ \E k \in Supers[c] : subscribers[k][h] > 0}

NoneOf == [s \in Selector |-> [h \in Handler |-> 0]]
Add(f, s, h, n) == [f EXCEPT ![s][h] = @ + n]

Init ==
  /\ logging \in BOOLEAN
  /\ subscribers = NoneOf /\ handles = NoneOf
  /\ started = FALSE /\ queue = <<>> /\ runner = "none" /\ draining = FALSE
  /\ tasks = {} /\ active = {} /\ processed = 0 /\ log = <<>>
  /\ recordingOn = FALSE /\ recorded = <<>> /\ truncated = FALSE /\ heard = {}
  /\ stopping = {} /\ era = 0
  /\ last = [h \in Handler |-> 0] /\ dropped = 0 /\ stale = FALSE
  /\ subs = 0 /\ switches = 0
-----------------------------------------------------------------------------
(* The loop is free for others than the runner, within what is modelled.   *)
Free == ~draining /\ ~stale

(* A class selector registers the handler under the class's name as well.  *)
Subscribe(h, s) ==
  /\ Free /\ subs < MaxSubs
  /\ subs' = subs + 1
  /\ subscribers' = IF s \in Class THEN Add(Add(subscribers, s, h, 1), NameOf[s], h, 1)
                                   ELSE Add(subscribers, s, h, 1)
  /\ handles' = Add(handles, s, h, 1)
  /\ UNCHANGED <<logging, busVars, log, recVars, stopping, era, histVars, switches>>

(* The handler leaves the list of the handle's selector, and no other.     *)
Unsubscribe(h, s) ==
  /\ Free /\ handles[s][h] > 0
  /\ handles' = Add(handles, s, h, -1)
  /\ subscribers' = IF subscribers[s][h] > 0 THEN Add(subscribers, s, h, -1) ELSE subscribers
  /\ UNCHANGED <<logging, busVars, log, recVars, stopping, era, histVars, subs, switches>>

SwitchRecording ==
  /\ Free /\ switches < MaxSwitches
  /\ switches' = switches + 1
  /\ \/ recordingOn' = ~recordingOn /\ UNCHANGED <<recorded, truncated, heard>>
     \/ recorded' = <<>> /\ truncated' = FALSE /\ heard' = {} /\ UNCHANGED recordingOn
  /\ UNCHANGED <<logging, subscribers, handles, busVars, log, stopping, era, histVars, subs>>

(* Recording an event of class c that is dispatched: kept below the cap,   *)
(* else the mark; one without a summary leaves neither.                    *)
RecordBug(e, c) ==              \* the mark is only set once the cap is passed
  /\ heard' = IF recordingOn THEN heard \cup {e} ELSE heard
  /\ recorded' = IF recordingOn /\ Len(recorded) < RecordingMax /\ c \notin Unsummarised
                 THEN Append(recorded, e) ELSE recorded
  /\ truncated' = (truncated \/ (recordingOn /\ Len(recorded) > RecordingMax))
  /\ UNCHANGED recordingOn

Record(e, c) ==
  LET room == Len(recorded) < RecordingMax
  IN /\ heard' = IF recordingOn THEN heard \cup {e} ELSE heard
     /\ recorded' = IF recordingOn /\ room /\ c \notin Unsummarised
                    THEN Append(recorded, e) ELSE recorded
     /\ truncated' = (truncated \/ (recordingOn /\ ~room))
     /\ UNCHANGED recordingOn

(* One task per matching handler, all created in one go; tracked when the   *)
(* runner creates them, so that stop waits for them.                        *)
Dispatch(e, c, tracked) ==
  [h: MatchingHandlers(c), e: {e}, turn: {processed + 1}, tracked: {tracked}]

(* start, called or implied by publish: a fresh runner, and no call of stop *)
(* so far waits for it.                                                     *)
EnsureStarted ==
  /\ started' = TRUE
  /\ runner' = IF started THEN runner ELSE "running"
  /\ era' = IF started THEN era ELSE switches

Start ==
  /\ Free /\ ~started
  /\ EnsureStarted
  /\ UNCHANGED <<logging, subscribers, handles, queue, draining, tasks, active, processed, log,
                 recVars, stopping, histVars, subs, switches>>
-----------------------------------------------------------------------------
(* Variants named ...Bug are the mistakes the properties are there to catch; *)
(* no specification uses them.                                              *)
Enqueue(e) ==
  /\ queue' = Append(queue, e)
  /\ UNCHANGED <<tasks, processed, recVars>>

DispatchNowBug(e, c) ==         \* direct dispatch is not counted as processed
  /\ Record(e, c)
  /\ tasks' = tasks \cup Dispatch(e, c, FALSE)
  /\ UNCHANGED <<queue, processed>>

DispatchNow(e, c) ==
  /\ Record(e, c)
  /\ processed' = processed + 1
  /\ tasks' = tasks \cup Dispatch(e, c, FALSE)
  /\ UNCHANGED queue

(* The event goes to the runner; or straight to the handlers when the      *)
(* runner's task is over.                                                  *)
Accept(c) ==
  /\ log' = Append(log, c)
  /\ IF ~started \/ runner = "running"
     THEN Enqueue(Len(log) + 1)
     ELSE DispatchNow(Len(log) + 1, c)

(* With logging on, an event that has no summary never gets past log_event: *)
(* its except clause names an unbound variable and publish raises.          *)
Publish(c) ==
  /\ Free /\ Len(log) < MaxEvents
  /\ EnsureStarted
  /\ IF logging /\ c \in Unsummarised
     THEN UNCHANGED <<queue, tasks, processed, recVars, log>>
     ELSE Accept(c)
  /\ UNCHANGED <<logging, subscribers, handles, draining, active, stopping, histVars, subs, switches>>

RunnerTakesBug ==               \* an event nobody handles ends the runner
  /\ runner = "running" /\ queue # <<>> /\ Head(queue) # Stop
  /\ queue' = Tail(queue) /\ processed' = processed + 1
  /\ runner' = IF MatchingHandlers(log[Head(queue)]) = {} THEN "done" ELSE "running"
  /\ draining' = (runner' = "running" /\ Len(queue) > 1)
  /\ Record(Head(queue), log[Head(queue)])
  /\ tasks' = tasks \cup Dispatch(Head(queue), log[Head(queue)], TRUE)
  /\ UNCHANGED <<logging, subscribers, handles, started, active, log, stopping, era, histVars, subs, switches>>

(* The runner keeps the loop while there is something left to take.  An     *)
(* event it should record and that has no summary ends it, undispatched.   *)
RunnerTakes ==
  /\ runner = "running" /\ queue # <<>> /\ Head(queue) # Stop
  /\ queue' = Tail(queue)
  /\ processed' = processed + 1
  /\ LET e == Head(queue)
         crash == /\ recordingOn /\ Len(recorded) < RecordingMax
                  /\ log[e] \in Unsummarised
     IN /\ runner' = IF crash THEN "crashed" ELSE "running"
        /\ draining' = (~crash /\ Len(queue) > 1)
        /\ IF crash
           THEN UNCHANGED <<tasks, recVars>>
           ELSE Record(e, log[e]) /\ tasks' = tasks \cup Dispatch(e, log[e], TRUE)
  /\ UNCHANGED <<logging, subscribers, handles, started, active, log, stopping, era, histVars, subs, switches>>

RunnerStops ==
  /\ runner = "running" /\ queue # <<>> /\ Head(queue) = Stop
  /\ queue' = Tail(queue)
  /\ runner' = "done" /\ draining' = FALSE
  /\ UNCHANGED <<logging, subscribers, handles, started, tasks, active, processed, log, recVars,
                 stopping, era, histVars, subs, switches>>
-----------------------------------------------------------------------------
(* A handler begins, then finishes at once or suspends.  What it publishes *)
(* or subscribes is a call of its own; what it raises is swallowed or ends *)
(* its task, which is the same to the bus.                                 *)
NextTaskBug(t) == t \in tasks       \* tasks get the loop in any order
NextTask(t) == \A u \in tasks : u.turn >= t.turn

Begin(t) ==
  /\ Free /\ t \in tasks /\ NextTask(t)
  /\ tasks' = tasks \ {t}
  /\ last' = [last EXCEPT ![t.h] = t.e]
  /\ \/ active' = active
     \/ active' = active \cup {t}
  /\ UNCHANGED <<logging, subscribers, handles, started, queue, runner, draining, processed, log,
                 recVars, stopping, era, dropped, stale, subs, switches>>

Finish(t) ==
  /\ Free /\ t \in active
  /\ active' = active \ {t}
  /\ UNCHANGED <<logging, subscribers, handles, started, queue, runner, draining, tasks, processed,
                 log, recVars, stopping, era, histVars, subs, switches>>
-----------------------------------------------------------------------------
NewCall == [n |-> switches + 1, at |-> "runner", marked |-> Len(log), upto |-> 0]

StopCallBug ==                  \* the sentinel overtakes what is queued
  /\ Free /\ started /\ switches < MaxSwitches
  /\ switches' = switches + 1
  /\ queue' = <<Stop>> \o queue
  /\ stopping' = stopping \cup {NewCall}
  /\ UNCHANGED <<logging, subscribers, handles, started, runner, draining, tasks, active, processed,
                 log, recVars, era, histVars, subs>>

StopCallBug2 ==                 \* no sentinel
  /\ Free /\ started /\ switches < MaxSwitches
  /\ switches' = switches + 1
  /\ stopping' = stopping \cup {NewCall}
  /\ UNCHANGED <<logging, subscribers, handles, started, queue, runner, draining, tasks, active,
                 processed, log, recVars, era, histVars, subs>>

(* stop: its sentinel goes behind everything published so far, whoever else *)
(* is stopping the bus.                                                     *)
StopCall ==
  /\ Free /\ started /\ switches < MaxSwitches
  /\ switches' = switches + 1
  /\ queue' = Append(queue, Stop)
  /\ stopping' = stopping \cup {NewCall}
  /\ UNCHANGED <<logging, subscribers, handles, started, runner, draining, tasks, active, processed,
                 log, recVars, era, histVars, subs>>

Queued  == {queue[i] : i \in DOMAIN queue} \ {Stop}
Pending == {t \in tasks \cup active : t.tracked}

(* The runner that call k waits for met a sentinel, its own or another's.  *)
Ended(k) == k.n <= era \/ runner \in {"none", "done"}

(* The queue goes with whatever is still in it, whosever it is by now.     *)
Release(k) ==
  /\ queue' = <<>> /\ runner' = "none" /\ started' = FALSE
  /\ stopping' = stopping \ {k}
  /\ dropped' = dropped + Cardinality(Queued)
  /\ stale' = (started /\ k.n <= era)

(* The runner has ended; a crashed one raises out of stop, which cleans up *)
(* nothing.                                                                *)
StopAfterRunner(k) ==
  /\ Free /\ k.at = "runner"
  /\ \/ /\ ~Ended(k) /\ runner = "crashed" /\ stopping' = stopping \ {k}
        /\ UNCHANGED <<queue, runner, started, dropped, stale>>
     \/ /\ Ended(k) /\ Pending # {}
        /\ stopping' = (stopping \ {k}) \cup {[k EXCEPT !.at = "handlers", !.upto = processed]}
        /\ UNCHANGED <<queue, runner, started, dropped, stale>>
     \/ Ended(k) /\ Pending = {} /\ Release(k)
  /\ UNCHANGED <<logging, subscribers, handles, draining, tasks, active, processed, log, recVars,
                 era, last, subs, switches>>

(* The handlers that were pending then are done, or a quarter of a second   *)
(* is over and the stragglers among them go.                                *)
StopAfterHandlers(k) ==
  /\ Free /\ k.at = "handlers"
  /\ LET stragglers == {t \in Pending : t.turn <= k.upto}
     IN tasks' = tasks \ stragglers /\ active' = active \ stragglers
  /\ Release(k)
  /\ UNCHANGED <<logging, subscribers, handles, draining, processed, log, recVars, era, last, subs, switches>>
-----------------------------------------------------------------------------
Next ==
  \/ \E h \in Handler, s \in Selector : Subscribe(h, s) \/ Unsubscribe(h, s)
  \/ SwitchRecording
  \/ Start
  \/ \E c \in Class : Publish(c)
  \/ RunnerTakes
  \/ RunnerStops
  \/ \E t \in tasks : Begin(t)
  \/ \E t \in active : Finish(t)
  \/ StopCall
  \/ \E k \in stopping : StopAfterRunner(k)
  \/ \E k \in stopping : StopAfterHandlers(k)

Spec == Init /\ [][Next]_vars

(* The loop runs every ready task; a handler may stay suspended for ever.  *)
Fairness ==
  /\ WF_vars(RunnerTakes) /\ WF_vars(RunnerStops)
  /\ WF_vars(\E t \in tasks : Begin(t))
  /\ WF_vars(\E k \in stopping : StopAfterRunner(k))
  /\ WF_vars(\E k \in stopping : StopAfterHandlers(k))
FairSpec == Spec /\ Fairness
-----------------------------------------------------------------------------
TypeOK ==
  /\ logging \in BOOLEAN
  /\ subscribers \in [Selector -> [Handler -> Nat]]
  /\ handles \in [Selector -> [Handler -> Nat]]
  /\ started \in BOOLEAN /\ draining \in BOOLEAN
  /\ queue \in Seq(Event \cup {Stop})
  /\ runner \in {"none", "running", "done", "crashed"}
  /\ tasks \subseteq Task /\ active \subseteq Task
  /\ processed \in Nat /\ log \in Seq(Class) /\ Len(log) <= MaxEvents
  /\ recordingOn \in BOOLEAN /\ recorded \in Seq(Event) /\ truncated \in BOOLEAN
  /\ heard \subseteq Event
  /\ stopping \subseteq Call /\ era \in Nat
  /\ last \in [Handler -> 0..MaxEvents] /\ dropped \in Nat /\ stale \in BOOLEAN
  /\ subs \in 0..MaxSubs /\ switches \in 0..MaxSwitches

(* A handler begins the events it is given in the order they were published, *)
(* and none of them twice, whichever of its selectors matched and whether    *)
(* the runner or publish itself dispatched it (bus.py _runner, publish).     *)
InOrder == \A t \in tasks : t \notin tasks' => t.e > last[t.h]
OrderedDelivery == [][InOrder]_vars

(* The counters of get_stats account for every publication, on the queue and *)
(* on the direct path, across stops, restarts and crashes of the runner, up  *)
(* to the events that went with a released queue (bus.py publish, _runner).  *)
CountersAddUp == Len(log) = processed + Cardinality(Queued) + dropped

(* Whenever the bus lets go of its queue, some call of stop under way has    *)
(* seen everything dispatched that was published before it: what is dropped  *)
(* was published later.  It need not be the call that lets go: with two      *)
(* calls under way, what was published between them may be dropped, and the  *)
(* second returns all the same (bus.py stop, _runner).                       *)
DrainsBeforeStop ==
  [][started /\ ~started' =>
       \E k \in stopping : \A e \in Queued : e > k.marked]_vars

(* The recording is bounded and in order and holds only what was dispatched  *)
(* while it was on; and unless it is marked as truncated, the only events it *)
(* leaves out are those whose summary raises: dispatched directly, such an   *)
(* event leaves neither record nor mark (_runner, publish,                   *)
(* get_recording_stats).                                                     *)
InRecording == {recorded[i] : i \in DOMAIN recorded}
RecordingHonest ==
  /\ Len(recorded) <= RecordingMax
  /\ \A i, j \in DOMAIN recorded : i < j => recorded[i] < recorded[j]
  /\ InRecording \subseteq heard
  /\ truncated \/ \A e \in heard \ InRecording : log[e] \in Unsummarised

(* Every call of stop comes back, also when others stop the bus meanwhile:   *)
(* the runner reaches a sentinel, and a handler that hangs is cancelled.  As *)
(* the calls are finitely many, that is: at some time none is under way      *)
(* (bus.py stop).                                                            *)
StopReturns == stopping # {} ~> (stopping = {} \/ stale)

(* Every event in the queue is dispatched unless stop or a crash of the      *)
(* runner takes the queue away; the publications being finitely many, that   *)
(* is: at some time none is queued (bus.py _runner).                         *)
EventuallyDispatched == Queued # {} ~> (Queued = {} \/ runner = "crashed")

(* The inductive invariant behind OrderedDelivery. *)
TurnsOrdered ==      \* tasks of an earlier turn carry an earlier event
  \A t, u \in tasks : /\ t.turn < u.turn => t.e < u.e
                      /\ t.turn = u.turn => t.e = u.e /\ t.tracked = u.tracked
OneTaskEach ==       \* no handler waits twice for the same event
  \A t, u \in tasks : t.h = u.h /\ t.e = u.e => t = u
TasksBehind ==       \* what waits is later than what began, and was accepted
  /\ \A t \in tasks : last[t.h] < t.e /\ t.e <= Len(log) /\ t.turn <= processed
  /\ \A h \in Handler : last[h] <= Len(log)
QueueOrdered ==      \* the queue holds accepted events, oldest first
  /\ \A i \in DOMAIN queue : queue[i] <= Len(log)
  /\ \A i, j \in DOMAIN queue :
       i < j /\ queue[i] # Stop /\ queue[j] # Stop => queue[i] < queue[j]
QueueAhead ==        \* what a live runner will still take is later than all of it
  runner = "running" => \A i \in DOMAIN queue : queue[i] # Stop =>
    /\ \A t \in tasks : t.e < queue[i]
    /\ \A h \in Handler : last[h] < queue[i]
RunnerState ==       \* a stopped bus has neither runner nor queue
  /\ started <=> runner # "none"
  /\ runner = "none" => queue = <<>>
BusInv ==
  TypeOK /\ TurnsOrdered /\ OneTaskEach /\ TasksBehind /\ QueueOrdered /\ QueueAhead /\ RunnerState
=============================================================================
