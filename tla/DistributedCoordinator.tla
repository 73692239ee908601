----------------------- MODULE DistributedCoordinator -----------------------
(***************************************************************************)
(* DistributedCoordinator and the DistributedEventBus it publishes on: a   *)
(* barrier that moves a global tick on when all registered workers have    *)
(* acknowledged the present one, with a time-out for those that do not and *)
(* a monitor that removes those that have gone silent.                     *)
(*                                                                         *)
(* With the in-memory bus the synchronisation loop suspends in two places: *)
(* its sleep, and publish_event while handlers of subscribers run.  The    *)
(* monitor suspends only in its sleep.  Workers are processes of their     *)
(* own: they may die, and their messages may come late or repeatedly.      *)
(***************************************************************************)
EXTENDS Naturals, FiniteSets

CONSTANTS Worker,    \* the ids spawn_worker may give; each is given once
          MaxTick,   \* bound: the tick at which the loop stops advancing
          MaxStarts  \* bound: calls of start that take effect

ASSUME CoordinatorAssumption == MaxTick \in Nat /\ MaxStarts \in Nat

Ticks == 0..MaxTick

VARIABLES workers, \* _workers: the registered ids
          silent,  \* those whose last heartbeat is older than the monitor allows
          acks,    \* _tick_acknowledgements
          tick,    \* _global_current_tick
          running, \* _running; the monitor lives as long as it holds
          at,      \* where the synchronisation task is
          waited,  \* its wait for the present tick has reached the time-out
          starts,  \* history: calls of start that took effect
          spawned, \* history: the ids given
          joined,  \* history: the tick at which each was spawned
          sent,    \* history: who acknowledged each tick
          lost     \* history: acknowledgements of the present tick thrown away

vars == <<workers, silent, acks, tick, running, at, waited, starts, spawned, joined, sent, lost>>
owner == <<running, starts>>
clock == <<tick, at, waited>>
pool == <<workers, silent, spawned, joined>>
mail == <<acks, sent, lost>>

Init ==
  /\ workers = {} /\ silent = {} /\ spawned = {} /\ joined = [w \in Worker |-> 0]
  /\ acks = [t \in Ticks |-> {}] /\ sent = [t \in Ticks |-> {}] /\ lost = {}
  /\ tick = 0 /\ running = FALSE /\ at = "off" /\ waited = FALSE /\ starts = 0

-----------------------------------------------------------------------------
(* The owner of the coordinator; it does not start it again while its own   *)
(* call of stop is waiting.                                                 *)
Start ==
  /\ ~running /\ at = "off" /\ starts < MaxStarts
  /\ running' = TRUE /\ at' = "ready" /\ starts' = starts + 1
  /\ UNCHANGED <<tick, waited, pool, mail>>

\* The monitor is in its sleep and ends there; the loop goes on meanwhile.
StopCall ==
  /\ running
  /\ running' = FALSE
  /\ UNCHANGED <<starts, clock, pool, mail>>

\* The loop is cancelled where it is; an announcement it was making takes its
\* handlers with it, and what was to follow it is left out.
StopReturns ==
  /\ ~running /\ at # "off"
  /\ at' = "off"
  /\ UNCHANGED <<owner, tick, waited, pool, mail>>

SpawnWorker(w) ==
  /\ w \notin spawned
  /\ spawned' = spawned \cup {w}
  /\ workers' = workers \cup {w}
  /\ joined' = [joined EXCEPT ![w] = tick]
  /\ UNCHANGED <<silent, owner, clock, mail>>

-----------------------------------------------------------------------------
(* Messages of workers.  Nothing asks whether the worker is registered, or  *)
(* whether the tick is the present one.                                     *)
HandleTickAcknowledgement(w, t) ==
  /\ w \in spawned /\ t <= tick
  /\ acks' = [acks EXCEPT ![t] = @ \cup {w}]
  /\ sent' = [sent EXCEPT ![t] = @ \cup {w}]
  /\ UNCHANGED <<lost, owner, clock, pool>>

HandleWorkerHeartbeat(w) ==
  /\ w \in workers /\ w \in silent
  /\ silent' = silent \ {w}
  /\ UNCHANGED <<workers, spawned, joined, owner, clock, mail>>

\* A registered worker's last heartbeat grows old.
FallsSilent(w) ==
  /\ w \in workers /\ w \notin silent
  /\ silent' = silent \cup {w}
  /\ UNCHANGED <<workers, spawned, joined, owner, clock, mail>>

\* handle_worker_failure and the removal from the registry, in one go.
Removed(gone) ==
  /\ workers' = workers \ gone
  /\ silent' = silent \ gone
  /\ UNCHANGED <<spawned, joined>>

\* One round of the monitor.
MonitorWorkerHealth ==
  /\ running /\ silent # {}
  /\ Removed(silent)
  /\ UNCHANGED <<owner, clock, mail>>

-----------------------------------------------------------------------------
(* The synchronisation loop, coordinate_tick_progression.                   *)
(* Variants named ...Bug are the mistakes the properties are there to      *)
(* catch; no specification uses them.                                      *)
CompleteBug == workers \cap acks[tick] # {}
CompleteBug2 ==    \* as many as there are workers, whosever they are
  workers # {} /\ Cardinality(acks[tick]) >= Cardinality(workers)
Complete == workers # {} /\ acks[tick] = workers
MissingAcks == workers \ acks[tick]

\* What follows the announcement of tick t: the acknowledgements it has by then
\* are forgotten, and those of the tick before.
Announced(t) ==
  /\ acks' = [u \in Ticks |-> IF u = t \/ (t > 1 /\ u = t - 1) THEN {} ELSE acks[u]]
  /\ at' = "asleep" /\ waited' = FALSE

Awake == running /\ at \in {"ready", "asleep"}
TimeIsUp == at = "asleep" /\ waited

LoopEnds ==
  /\ ~running /\ at \in {"ready", "asleep"}
  /\ at' = "off"
  /\ UNCHANGED <<owner, tick, waited, pool, mail>>

\* Nobody has to acknowledge, or some still have time: the timer stays.
KeepsWaiting ==
  /\ Awake /\ ~Complete /\ (TimeIsUp => MissingAcks = {})
  /\ at' = "asleep" /\ waited' = TimeIsUp
  /\ UNCHANGED <<owner, tick, pool, mail>>

AdvanceTick ==
  /\ Awake /\ Complete /\ tick < MaxTick
  /\ tick' = tick + 1
  /\ lost' = {}
  /\ \/ at' = "advancing" /\ UNCHANGED <<acks, waited>>  \* handlers suspend
     \/ Announced(tick + 1)
  /\ UNCHANGED <<owner, pool, sent>>

\* The handlers of the announcement are done; acknowledgements may have come.
AdvanceAnnounced ==
  /\ at = "advancing"
  /\ Announced(tick)
  /\ lost' = lost \cup acks[tick]
  /\ UNCHANGED <<owner, tick, pool, sent>>

AckTimeoutBug ==   \* the whole pool instead of those that are missing
  /\ Awake /\ TimeIsUp /\ MissingAcks # {}
  /\ Removed(workers)
  /\ at' = "asleep" /\ waited' = FALSE
  /\ UNCHANGED <<owner, tick, mail>>
AckTimeoutBug2 ==  \* only once a first acknowledgement is there
  /\ Awake /\ TimeIsUp /\ MissingAcks # {} /\ acks[tick] # {}
  /\ Removed(MissingAcks)
  /\ at' = "asleep" /\ waited' = FALSE
  /\ UNCHANGED <<owner, tick, mail>>
\* The wait is over: whoever is missing is removed, however late it joined.
AckTimeout ==
  /\ Awake /\ TimeIsUp /\ MissingAcks # {}
  /\ Removed(MissingAcks)
  /\ at' = "asleep" /\ waited' = FALSE
  /\ UNCHANGED <<owner, tick, mail>>

\* The time-out passes while the loop sleeps and wakes.
TimePasses ==
  /\ at = "asleep" /\ ~waited
  /\ waited' = TRUE
  /\ UNCHANGED <<owner, tick, at, pool, mail>>

SyncStep == LoopEnds \/ KeepsWaiting \/ AdvanceTick \/ AdvanceAnnounced \/ AckTimeout

Next ==
  \/ Start \/ StopCall \/ StopReturns
  \/ \E w \in Worker :
       \/ SpawnWorker(w) \/ HandleWorkerHeartbeat(w) \/ FallsSilent(w)
       \/ \E t \in Ticks : HandleTickAcknowledgement(w, t)
  \/ MonitorWorkerHealth \/ SyncStep \/ TimePasses

Spec == Init /\ [][Next]_vars

\* The event loop runs its tasks, time passes, and the handlers of the bus
\* return.  No worker is assumed to answer.
FairSpec == Spec /\ WF_vars(SyncStep) /\ WF_vars(TimePasses)

-----------------------------------------------------------------------------
\* The type of every variable.
TypeOK ==
  /\ workers \subseteq spawned /\ silent \subseteq workers /\ spawned \subseteq Worker
  /\ joined \in [Worker -> Nat] /\ tick \in Ticks
  /\ acks \in [Ticks -> SUBSET Worker] /\ sent \in [Ticks -> SUBSET Worker]
  /\ lost \subseteq Worker
  /\ running \in BOOLEAN /\ waited \in BOOLEAN /\ starts \in 0..MaxStarts
  /\ at \in {"off", "ready", "asleep", "advancing"}

\* "All active workers must acknowledge a tick before advancing": a registered
\* worker that was there at the tick before has acknowledged it, through
\* removals, late joiners, stops and repeated or late messages
\* (coordinate_tick_progression).
NobodyLeftBehind ==
  \A w \in workers : joined[w] < tick => w \in sent[tick - 1]

\* Nobody is taken for dead who is not: a worker leaves the registry when its
\* heartbeats stopped, or when its acknowledgement of the present tick never
\* came, or came while the tick was being announced and was thrown away
\* (coordinate_tick_progression, monitor_worker_health).
RemovedForCause ==
  [][\A w \in workers \ workers' :
       \/ w \in silent
       \/ waited /\ w \notin sent[tick] \ lost]_vars

\* Nobody that acknowledged the tick has left the registry since.
NoGhosts == acks[tick] \subseteq workers

\* The time-out keeps a dead worker from holding up the others: while the
\* coordinator runs the tick moves on or nobody is left to wait for, unless one
\* who acknowledged it has been removed (coordinate_tick_progression).
TicksMoveOn ==
  \A t \in 0..(MaxTick - 1) :
    running /\ workers # {} /\ tick = t
      ~> ~running \/ workers = {} \/ tick > t \/ ~NoGhosts

\* The coordinator is a barrier of its workers: a round of Barrier is a tick, and
\* a worker arrives when its acknowledgement of the tick does, also one that the
\* loop then throws away (coordinate_tick_progression).
B == INSTANCE Barrier WITH
       Member <- Worker, members <- workers, arrived <- sent[tick], round <- tick
ImplementsBarrier == B!Spec
=============================================================================
