--------------------------- MODULE EventBusProofs ---------------------------
(***************************************************************************)
(* Ordered delivery of the event bus, for any classes, handlers and bounds. *)
(***************************************************************************)
EXTENDS EventBus, FiniteSetTheorems, TLAPS

(* The initial state satisfies the invariant. *)
LEMMA InitInv == ASSUME Init PROVE BusInv
<1>1. subscribers \in [Selector -> [Handler -> Nat]] /\ handles \in [Selector -> [Handler -> Nat]]
  BY DEF Init, NoneOf
<1>2. MaxEvents \in Nat /\ MaxSubs \in Nat /\ MaxSwitches \in Nat
  BY BusAssumption
<1>3. last \in [Handler -> 0..MaxEvents] /\ subs \in 0..MaxSubs /\ switches \in 0..MaxSwitches
  BY <1>2 DEF Init
<1>4. queue \in Seq(Event \cup {Stop}) /\ recorded \in Seq(Event) /\ log \in Seq(Class)
      /\ Len(log) <= MaxEvents
  BY <1>2 DEF Init
<1>5. stopping \subseteq Call /\ era \in Nat /\ dropped \in Nat /\ stale \in BOOLEAN
  BY DEF Init
<1>6. TypeOK
  BY <1>1, <1>3, <1>4, <1>5 DEF Init, TypeOK
<1> QED BY <1>6 DEF Init, BusInv, TurnsOrdered, OneTaskEach, TasksBehind, QueueOrdered, QueueAhead, RunnerState

(* One registration more or fewer. *)
LEMMA AddType ==
  ASSUME NEW f \in [Selector -> [Handler -> Nat]], NEW s \in Selector, NEW h \in Handler,
         NEW n \in Int, f[s][h] + n \in Nat
  PROVE  Add(f, s, h, n) \in [Selector -> [Handler -> Nat]]
<1>1. [f[s] EXCEPT ![h] = @ + n] \in [Handler -> Nat]
  OBVIOUS
<1> QED BY <1>1 DEF Add

(* Recording an event leaves a recording. *)
LEMMA RecordType ==
  ASSUME TypeOK, NEW e \in Event, NEW c, Record(e, c)
  PROVE  /\ recordingOn' \in BOOLEAN /\ recorded' \in Seq(Event) /\ truncated' \in BOOLEAN
         /\ heard' \subseteq Event
<1>1. recorded' \in Seq(Event) /\ heard' \subseteq Event
  BY DEF TypeOK, Record
<1>2. recordingOn' \in BOOLEAN /\ truncated' \in BOOLEAN
  BY Zenon DEF TypeOK, Record
<1> QED BY <1>1, <1>2

(* The tasks of a dispatch, one per matching handler. *)
LEMMA DispatchType ==
  ASSUME TypeOK, NEW e \in Event, NEW c, NEW b \in BOOLEAN
  PROVE  /\ Dispatch(e, c, b) \subseteq Task
         /\ \A t \in Dispatch(e, c, b) : t.e = e /\ t.turn = processed + 1 /\ t.tracked = b
         /\ \A t, u \in Dispatch(e, c, b) : t.h = u.h => t = u
<1>1. processed + 1 \in Nat /\ MatchingHandlers(c) \subseteq Handler
  BY DEF TypeOK, MatchingHandlers
<1>2. ASSUME NEW t \in Dispatch(e, c, b)
      PROVE  t \in Task /\ t.e = e /\ t.turn = processed + 1 /\ t.tracked = b
             /\ t = [h |-> t.h, e |-> e, turn |-> processed + 1, tracked |-> b]
  BY <1>1 DEF Dispatch, Task
<1>3. ASSUME NEW t \in Dispatch(e, c, b), NEW u \in Dispatch(e, c, b), t.h = u.h PROVE t = u
  <2>1. t = [h |-> t.h, e |-> e, turn |-> processed + 1, tracked |-> b] BY <1>2
  <2>2. u = [h |-> u.h, e |-> e, turn |-> processed + 1, tracked |-> b] BY <1>2
  <2> QED BY <1>3, <2>1, <2>2
<1> QED BY <1>2, <1>3, Zenon

(* What is queued can be counted. *)
LEMMA QueuedFinite ==
  ASSUME TypeOK
  PROVE  IsFiniteSet(Queued) /\ Cardinality(Queued) \in Nat
<1>1. DOMAIN queue = 1..Len(queue) /\ Len(queue) \in Nat
  BY DEF TypeOK
<1>2. IsFiniteSet(DOMAIN queue)
  BY <1>1, FS_Interval
<1> DEFINE members == {queue[i] : i \in DOMAIN queue}
<1>3. IsFiniteSet(members)
  <2>1. queue \in Surjection(DOMAIN queue, members)
    BY <1>1 DEF TypeOK, Surjection
  <2> QED BY <1>2, <2>1, FS_Surjection
<1>4. IsFiniteSet(Queued)
  BY <1>3, FS_Difference DEF Queued
<1> QED BY <1>4, FS_CardinalityType

(* A call of stop that lets the queue go. *)
LEMMA ReleaseType ==
  ASSUME TypeOK, NEW k, Release(k)
  PROVE  /\ queue' \in Seq(Event \cup {Stop}) /\ runner' = "none" /\ started' = FALSE
         /\ stopping' \subseteq Call /\ dropped' \in Nat /\ stale' \in BOOLEAN
<1>1. dropped' \in Nat
  BY QueuedFinite DEF Release, TypeOK
<1>2. stale' \in BOOLEAN
  BY Zenon DEF Release
<1> QED BY <1>1, <1>2 DEF Release, TypeOK

(* Every step keeps the types. *)
LEMMA StepType == ASSUME BusInv, [Next]_vars PROVE TypeOK'
<1>0. TypeOK BY DEF BusInv
<1>1. ASSUME NEW h \in Handler, NEW s \in Selector, Subscribe(h, s) PROVE TypeOK'
  <2>1. subscribers' \in [Selector -> [Handler -> Nat]] /\ handles' \in [Selector -> [Handler -> Nat]]
    <3>1. handles[s][h] + 1 \in Nat /\ subscribers[s][h] + 1 \in Nat BY <1>0 DEF TypeOK
    <3> 1 \in Int OBVIOUS
    <3>t. /\ subscribers \in [Selector -> [Handler -> Nat]]
          /\ handles \in [Selector -> [Handler -> Nat]]
      BY <1>0 DEF TypeOK
    <3>2. Add(handles, s, h, 1) \in [Selector -> [Handler -> Nat]]
      BY <3>1, <3>t, AddType, Zenon
    <3>3. Add(subscribers, s, h, 1) \in [Selector -> [Handler -> Nat]]
      BY <3>1, <3>t, AddType, Zenon
    <3>4. CASE s \in Class
      <4>1. NameOf[s] \in Selector BY <3>4, BusAssumption DEF Selector, Names
      <4>2. Add(subscribers, s, h, 1)[NameOf[s]][h] + 1 \in Nat BY <3>3, <4>1
      <4>3. Add(Add(subscribers, s, h, 1), NameOf[s], h, 1) \in [Selector -> [Handler -> Nat]]
        BY <3>3, <4>1, <4>2, AddType, Zenon
      <4> QED BY <1>1, <3>2, <3>4, <4>3 DEF Subscribe
    <3>5. CASE s \notin Class BY <1>1, <3>2, <3>3, <3>5 DEF Subscribe
    <3> QED BY <3>4, <3>5
  <2>2. subs' \in 0..MaxSubs BY <1>0, <1>1, BusAssumption DEF TypeOK, Subscribe
  <2> QED BY <1>0, <1>1, <2>1, <2>2 DEF TypeOK, Subscribe, busVars, recVars, histVars
<1>2. ASSUME NEW h \in Handler, NEW s \in Selector, Unsubscribe(h, s) PROVE TypeOK'
  <2>1. handles' \in [Selector -> [Handler -> Nat]]
    <3>1. handles[s][h] + (-1) \in Nat /\ -1 \in Int BY <1>0, <1>2 DEF TypeOK, Unsubscribe
    <3>2. handles \in [Selector -> [Handler -> Nat]] BY <1>0 DEF TypeOK
    <3>3. Add(handles, s, h, -1) \in [Selector -> [Handler -> Nat]]
      BY <3>1, <3>2, AddType, Zenon
    <3> QED BY <1>2, <3>3 DEF Unsubscribe
  <2>2. subscribers' \in [Selector -> [Handler -> Nat]]
    <3>1. CASE subscribers[s][h] > 0
      <4>1. subscribers[s][h] + (-1) \in Nat /\ -1 \in Int BY <1>0, <3>1 DEF TypeOK
      <4>2. subscribers \in [Selector -> [Handler -> Nat]] BY <1>0 DEF TypeOK
      <4>3. Add(subscribers, s, h, -1) \in [Selector -> [Handler -> Nat]]
        BY <4>1, <4>2, AddType, Zenon
      <4> QED BY <1>2, <3>1, <4>3 DEF Unsubscribe
    <3>2. CASE ~(subscribers[s][h] > 0) BY <1>0, <1>2, <3>2 DEF TypeOK, Unsubscribe
    <3> QED BY <3>1, <3>2
  <2> QED BY <1>0, <1>2, <2>1, <2>2 DEF TypeOK, Unsubscribe, busVars, recVars, histVars
<1>3. CASE SwitchRecording
  <2>1. recordingOn' \in BOOLEAN /\ truncated' \in BOOLEAN
    BY <1>0, <1>3, Zenon DEF TypeOK, SwitchRecording
  <2>2. recorded' \in Seq(Event) /\ heard' \subseteq Event
    <3>1. (recorded' = recorded /\ heard' = heard) \/ (recorded' = <<>> /\ heard' = {})
      BY <1>3, Zenon DEF SwitchRecording
    <3>2. recorded \in Seq(Event) /\ heard \subseteq Event BY <1>0 DEF TypeOK
    <3>3. CASE recorded' = recorded /\ heard' = heard BY <3>2, <3>3, Zenon
    <3>4. CASE recorded' = <<>> /\ heard' = {} BY <3>4
    <3> QED BY <3>1, <3>3, <3>4
  <2>3. switches' \in 0..MaxSwitches
    BY <1>0, <1>3, BusAssumption DEF TypeOK, SwitchRecording
  <2> QED BY <1>0, <1>3, <2>1, <2>2, <2>3 DEF TypeOK, SwitchRecording, busVars, histVars
<1>s. ASSUME EnsureStarted PROVE started' \in BOOLEAN /\ runner' \in {"none", "running", "done", "crashed"} /\ era' \in Nat
  BY <1>0, <1>s, BusAssumption DEF TypeOK, EnsureStarted
<1>4. CASE Start BY <1>0, <1>4, <1>s DEF TypeOK, Start, recVars, histVars
<1>5. ASSUME NEW c \in Class, Publish(c) PROVE TypeOK'
  <2>0. started' \in BOOLEAN /\ runner' \in {"none", "running", "done", "crashed"} /\ era' \in Nat
    BY <1>5, <1>s DEF Publish
  <2>1. CASE logging /\ c \in Unsummarised
    BY <1>0, <1>5, <2>0, <2>1 DEF TypeOK, Publish, recVars, histVars
  <2>2. CASE ~(logging /\ c \in Unsummarised)
    <3> DEFINE n == Len(log) + 1
    <3>1. n \in Event /\ Accept(c) BY <1>0, <1>5, <2>2, BusAssumption DEF TypeOK, Publish, Event
    <3>2. log' \in Seq(Class) /\ Len(log') <= MaxEvents
      <4>1. log' = Append(log, c) /\ Len(log) < MaxEvents BY <1>5, <3>1 DEF Publish, Accept
      <4>2. log \in Seq(Class) BY <1>0 DEF TypeOK
      <4> QED BY <4>1, <4>2, BusAssumption
    <3>3. CASE ~started \/ runner = "running"
      <4>1. queue' = Append(queue, n) /\ UNCHANGED <<tasks, processed, recVars>>
        BY <3>1, <3>3 DEF Accept, Enqueue
      <4>2. queue' \in Seq(Event \cup {Stop}) BY <1>0, <3>1, <4>1 DEF TypeOK
      <4> QED BY <1>0, <1>5, <2>0, <2>2, <3>2, <4>1, <4>2 DEF TypeOK, Publish, recVars, histVars
    <3>4. CASE ~(~started \/ runner = "running")
      <4>1. /\ Record(n, c) /\ tasks' = tasks \cup Dispatch(n, c, FALSE)
            /\ processed' = processed + 1 /\ queue' = queue
        BY <3>1, <3>4 DEF Accept, DispatchNow
      <4>2. /\ recordingOn' \in BOOLEAN /\ recorded' \in Seq(Event) /\ truncated' \in BOOLEAN
            /\ heard' \subseteq Event
        BY <1>0, <3>1, <4>1, RecordType
      <4>3. tasks' \subseteq Task BY <1>0, <3>1, <4>1, DispatchType DEF TypeOK
      <4>4. UNCHANGED <<logging, subscribers, handles, draining, active, stopping, last, dropped,
                        stale, subs, switches>>
        BY <1>5 DEF Publish, histVars
      <4>5. processed' \in Nat /\ queue' \in Seq(Event \cup {Stop})
        BY <1>0, <4>1 DEF TypeOK
      <4> HIDE DEF n
      <4> QED BY <1>0, <2>0, <3>2, <4>2, <4>3, <4>4, <4>5 DEF TypeOK
    <3> QED BY <3>3, <3>4
  <2> QED BY <2>1, <2>2
<1>6. CASE RunnerTakes
  <2> DEFINE e == Head(queue)
  <2>1. e \in Event /\ queue' \in Seq(Event \cup {Stop}) BY <1>0, <1>6 DEF TypeOK, RunnerTakes
  <2>2. /\ recordingOn' \in BOOLEAN /\ recorded' \in Seq(Event) /\ truncated' \in BOOLEAN
        /\ heard' \subseteq Event
    <3>1. CASE Record(e, log[e]) BY <1>0, <2>1, <3>1, RecordType
    <3>2. CASE UNCHANGED recVars
      <4>1. UNCHANGED <<recordingOn, recorded, truncated, heard>> BY <3>2 DEF recVars
      <4> QED BY <1>0, <4>1 DEF TypeOK
    <3> QED BY <1>6, <3>1, <3>2 DEF RunnerTakes
  <2>3. tasks' \subseteq Task
    <3>1. Dispatch(e, log[e], TRUE) \subseteq Task BY <1>0, <2>1, DispatchType
    <3>2. tasks' = tasks \/ tasks' = tasks \cup Dispatch(e, log[e], TRUE) BY <1>6 DEF RunnerTakes
    <3> QED BY <1>0, <3>1, <3>2 DEF TypeOK
  <2>4. runner' \in {"running", "crashed"} BY <1>6 DEF RunnerTakes
  <2>5. draining' \in BOOLEAN BY <1>6, Zenon DEF RunnerTakes
  <2>6. /\ processed' = processed + 1
        /\ UNCHANGED <<logging, subscribers, handles, started, active, log, stopping, era, last,
                       dropped, stale, subs, switches>>
    BY <1>6 DEF RunnerTakes, histVars
  <2> QED BY <1>0, <2>1, <2>2, <2>3, <2>4, <2>5, <2>6 DEF TypeOK
<1>7. CASE RunnerStops
  <2>1. queue' \in Seq(Event \cup {Stop})
    <3>1. queue' = Tail(queue) /\ queue # <<>> BY <1>7 DEF RunnerStops
    <3> QED BY <1>0, <3>1 DEF TypeOK
  <2> QED BY <1>0, <1>7, <2>1 DEF TypeOK, RunnerStops, recVars, histVars
<1>8. ASSUME NEW t \in tasks, Begin(t) PROVE TypeOK'
  <2>1. t \in Task BY <1>0 DEF TypeOK
  <2>2. last' \in [Handler -> 0..MaxEvents]
    <3>1. t.e \in 0..MaxEvents BY <2>1, BusAssumption DEF Task, Event
    <3> QED BY <1>0, <1>8, <2>1, <3>1 DEF TypeOK, Begin, Task
  <2>3. tasks' \subseteq Task /\ active' \subseteq Task BY <1>0, <1>8, <2>1 DEF TypeOK, Begin
  <2> QED BY <1>0, <1>8, <2>2, <2>3 DEF TypeOK, Begin, recVars
<1>9. ASSUME NEW t \in active, Finish(t) PROVE TypeOK'
  BY <1>0, <1>9 DEF TypeOK, Finish, recVars, histVars
<1>10. CASE StopCall
  <2>1. queue' \in Seq(Event \cup {Stop})
    <3>1. Stop \in Event \cup {Stop} /\ queue' = Append(queue, Stop) BY <1>10 DEF StopCall
    <3>2. queue \in Seq(Event \cup {Stop}) BY <1>0 DEF TypeOK
    <3> QED BY <3>1, <3>2
  <2>2. switches' \in 0..MaxSwitches BY <1>0, <1>10, BusAssumption DEF TypeOK, StopCall
  <2>3. stopping' \subseteq Call
    <3>1. NewCall \in Call BY <1>0, BusAssumption DEF TypeOK, NewCall, Call
    <3> QED BY <1>0, <1>10, <3>1 DEF TypeOK, StopCall
  <2> QED BY <1>0, <1>10, <2>1, <2>2, <2>3 DEF TypeOK, StopCall, recVars, histVars
<1>11. ASSUME NEW k \in stopping, StopAfterRunner(k) PROVE TypeOK'
  <2>1. UNCHANGED <<logging, subscribers, handles, draining, tasks, active, processed, log,
                    recVars, era, last, subs, switches>>
    BY <1>11 DEF StopAfterRunner
  <2>2. CASE Release(k) BY <1>0, <2>1, <2>2, ReleaseType DEF TypeOK, recVars
  <2>3. CASE UNCHANGED <<queue, runner, started, dropped, stale>> /\ stopping' \subseteq Call
    BY <1>0, <2>1, <2>3 DEF TypeOK, recVars
  <2>4. [k EXCEPT !.at = "handlers", !.upto = processed] \in Call /\ stopping \ {k} \subseteq Call
    BY <1>0 DEF TypeOK, Call
  <2> QED BY <1>11, <2>2, <2>3, <2>4 DEF StopAfterRunner
<1>12. ASSUME NEW k \in stopping, StopAfterHandlers(k) PROVE TypeOK'
  <2>1. /\ Release(k) /\ tasks' \subseteq tasks /\ active' \subseteq active
        /\ UNCHANGED <<logging, subscribers, handles, draining, processed, log,
                       recVars, era, last, subs, switches>>
    BY <1>12 DEF StopAfterHandlers
  <2> QED BY <1>0, <2>1, ReleaseType DEF TypeOK, recVars
<1>13. CASE UNCHANGED vars BY <1>0, <1>13 DEF TypeOK, vars, busVars, recVars, histVars
<1> QED
  BY <1>1, <1>2, <1>3, <1>4, <1>5, <1>6, <1>7, <1>8, <1>9, <1>10, <1>11, <1>12, <1>13 DEF Next

-----------------------------------------------------------------------------
(* The steps that touch neither queue, tasks nor what handlers began. *)
OrderInv ==
  TurnsOrdered /\ OneTaskEach /\ TasksBehind /\ QueueOrdered /\ QueueAhead /\ RunnerState
QuietVars == <<started, queue, runner, tasks, processed, log, last>>
LEMMA QuietStep ==
  ASSUME BusInv, UNCHANGED QuietVars
  PROVE  OrderInv'
BY DEF BusInv, OrderInv, QuietVars, TurnsOrdered, OneTaskEach, TasksBehind, QueueOrdered, QueueAhead, RunnerState

(* Every accepted event is later than all that is queued, waiting or begun. *)
LEMMA AcceptStep ==
  ASSUME BusInv, NEW c \in Class, Accept(c), EnsureStarted, UNCHANGED last, Len(log) + 1 \in Event
  PROVE  OrderInv'
<1> DEFINE n == Len(log) + 1
<1>1. /\ TypeOK /\ TurnsOrdered /\ OneTaskEach /\ TasksBehind /\ QueueOrdered /\ QueueAhead /\ RunnerState
  BY DEF BusInv
<1>2. n \in Nat /\ n # Stop /\ Len(log') = n /\ queue \in Seq(Event \cup {Stop})
  BY <1>1 DEF TypeOK, Accept, Stop
<1>3. \A i \in DOMAIN queue : queue[i] \in Nat /\ queue[i] < n
  BY <1>1, <1>2, BusAssumption DEF QueueOrdered, Event, Stop
<1>4. /\ \A t \in tasks : t.e \in Nat /\ t.e < n /\ t.turn \in Nat /\ t.turn <= processed
      /\ \A h \in Handler : last[h] \in Nat /\ last[h] < n
      /\ processed \in Nat
  BY <1>1, <1>2, BusAssumption DEF TasksBehind, TypeOK, Task, Event
<1>5. CASE ~started \/ runner = "running"
  <2>1. /\ queue' = Append(queue, n) /\ started' = TRUE /\ runner' = "running"
        /\ tasks' = tasks /\ processed' = processed
    BY <1>1, <1>5 DEF Accept, Enqueue, EnsureStarted, RunnerState
  <2>2. /\ DOMAIN queue' = 1..(Len(queue) + 1) /\ DOMAIN queue = 1..Len(queue)
        /\ Len(queue) \in Nat
        /\ queue'[Len(queue) + 1] = n
        /\ \A i \in DOMAIN queue : queue'[i] = queue[i]
    BY <1>2, <2>1
  <2>3. TurnsOrdered' /\ OneTaskEach' /\ TasksBehind'
    BY <1>1, <1>2, <1>4, <2>1 DEF TurnsOrdered, OneTaskEach, TasksBehind, Accept
  <2>4. QueueOrdered'
    <3>1. \A i \in DOMAIN queue' : queue'[i] <= n BY <1>2, <1>3, <2>2
    <3>2. ASSUME NEW i \in DOMAIN queue', NEW j \in DOMAIN queue', i < j, queue'[i] # Stop,
                 queue'[j] # Stop
          PROVE  queue'[i] < queue'[j]
      <4>1. i \in DOMAIN queue BY <2>2, <3>2
      <4>2. CASE j \in DOMAIN queue BY <1>1, <2>2, <3>2, <4>1, <4>2 DEF QueueOrdered
      <4>3. CASE j = Len(queue) + 1 BY <1>3, <2>2, <4>1, <4>3
      <4> QED BY <2>2, <4>2, <4>3
    <3> QED BY <1>2, <3>1, <3>2 DEF QueueOrdered
  <2>5. QueueAhead'
    <3>1. CASE runner = "running"
      BY <1>1, <1>2, <1>4, <2>1, <2>2, <3>1 DEF QueueAhead
    <3>2. CASE runner # "running"
      <4>1. queue = <<>> BY <1>1, <1>5, <3>2 DEF RunnerState
      <4> QED BY <1>4, <2>1, <2>2, <4>1 DEF QueueAhead
    <3> QED BY <3>1, <3>2
  <2>6. RunnerState' BY <2>1 DEF RunnerState
  <2> QED BY <2>3, <2>4, <2>5, <2>6 DEF OrderInv
<1>6. CASE ~(~started \/ runner = "running")
  <2> DEFINE new == Dispatch(n, c, FALSE)
  <2>1. /\ queue' = queue /\ started' = started /\ runner' = runner
        /\ tasks' = tasks \cup new /\ processed' = processed + 1
    BY <1>6 DEF Accept, DispatchNow, EnsureStarted
  <2>2. /\ new \subseteq Task
        /\ \A t \in new : t.e = n /\ t.turn = processed + 1 /\ t.tracked = FALSE
        /\ \A t, u \in new : t.h = u.h => t = u
    BY <1>1, DispatchType
  <2> HIDE DEF new
  <2>3. TurnsOrdered'
    <3>1. ASSUME NEW t \in tasks', NEW u \in tasks'
          PROVE  /\ t.turn < u.turn => t.e < u.e
                 /\ t.turn = u.turn => t.e = u.e /\ t.tracked = u.tracked
      <4>1. CASE t \in tasks /\ u \in tasks BY <1>1, <4>1, Zenon DEF TurnsOrdered
      <4>2. CASE t \in tasks /\ u \in new BY <1>4, <2>2, <4>2
      <4>3. CASE t \in new /\ u \in tasks BY <1>4, <2>2, <4>3
      <4>4. CASE t \in new /\ u \in new
        <5>1. t.turn = u.turn /\ t.e = u.e /\ t.tracked = u.tracked BY <2>2, <4>4, Zenon
        <5>2. ~(t.turn < u.turn) BY <1>4, <2>2, <4>4
        <5> QED BY <5>1, <5>2, Zenon
      <4> QED BY <2>1, <4>1, <4>2, <4>3, <4>4
    <3> QED BY <3>1, Zenon DEF TurnsOrdered
  <2>7. OneTaskEach'
    BY <1>1, <1>2, <1>4, <2>1, <2>2 DEF OneTaskEach
  <2>4. TasksBehind'
    BY <1>1, <1>2, <1>4, <2>1, <2>2 DEF TasksBehind, Task
  <2>5. QueueOrdered'
    BY <1>1, <1>2, <1>3, <2>1 DEF QueueOrdered
  <2>6. QueueAhead' /\ RunnerState'
    BY <1>1, <1>6, <2>1 DEF QueueAhead, RunnerState
  <2> QED BY <2>3, <2>4, <2>5, <2>6, <2>7 DEF OrderInv
<1> QED BY <1>5, <1>6

(* The runner's next event is later than all that waits or began, and earlier *)
(* than what stays in the queue.                                              *)
LEMMA TakeStep ==
  ASSUME BusInv, RunnerTakes
  PROVE  OrderInv'
<1> DEFINE e == Head(queue)
           new == Dispatch(e, log[e], TRUE)
<1>1. /\ TypeOK /\ TurnsOrdered /\ OneTaskEach /\ TasksBehind /\ QueueOrdered /\ QueueAhead /\ RunnerState
  BY DEF BusInv
<1>2. /\ queue # <<>> /\ e # Stop /\ queue' = Tail(queue) /\ processed' = processed + 1
      /\ runner = "running" /\ runner' \in {"running", "crashed"} /\ started' = started
      /\ log' = log /\ last' = last
      /\ tasks' = tasks \/ tasks' = tasks \cup new
  BY DEF RunnerTakes, histVars
<1>3. queue \in Seq(Event \cup {Stop}) /\ processed \in Nat BY <1>1 DEF TypeOK
<1>4. /\ 1 \in DOMAIN queue /\ e = queue[1] /\ e \in Event /\ e \in Nat
      /\ DOMAIN queue = 1..Len(queue) /\ Len(queue) \in Nat
      /\ DOMAIN queue' = 1..(Len(queue) - 1)
      /\ \A i \in DOMAIN queue' : i + 1 \in DOMAIN queue /\ queue'[i] = queue[i + 1]
  BY <1>2, <1>3, BusAssumption DEF Event
<1>5. /\ new \subseteq Task
      /\ \A t \in new : t.e = e /\ t.turn = processed + 1 /\ t.tracked = TRUE
      /\ \A t, u \in new : t.h = u.h => t = u
  BY <1>1, <1>4, DispatchType
<1> HIDE DEF new
<1>6. /\ \A t \in tasks : t.e < e /\ t.e \in Nat /\ t.turn \in Nat /\ t.turn <= processed
      /\ \A h \in Handler : last[h] < e
      /\ e <= Len(log)
  <2>1. \A t \in tasks : t.e \in Nat /\ t.turn \in Nat
    BY <1>1, BusAssumption DEF TypeOK, Task, Event
  <2>2. \A t \in tasks : t.turn <= processed
    BY <1>1 DEF TasksBehind
  <2>3. (\A t \in tasks : t.e < e) /\ \A h \in Handler : last[h] < e
    BY <1>1, <1>2, <1>4 DEF QueueAhead
  <2>4. e <= Len(log)
    BY <1>1, <1>4 DEF QueueOrdered
  <2> QED BY <2>1, <2>2, <2>3, <2>4
<1>7. TurnsOrdered'
  <2>1. ASSUME NEW t \in tasks', NEW u \in tasks'
        PROVE  /\ t.turn < u.turn => t.e < u.e
               /\ t.turn = u.turn => t.e = u.e /\ t.tracked = u.tracked
    <3>1. CASE t \in tasks /\ u \in tasks BY <1>1, <3>1, Zenon DEF TurnsOrdered
    <3>2. CASE t \in tasks /\ u \in new BY <1>3, <1>5, <1>6, <3>2
    <3>3. CASE t \in new /\ u \in tasks BY <1>3, <1>5, <1>6, <3>3
    <3>4. CASE t \in new /\ u \in new
      <4>1. t.turn = u.turn /\ t.e = u.e /\ t.tracked = u.tracked BY <1>5, <3>4, Zenon
      <4>2. ~(t.turn < u.turn) BY <1>3, <1>5, <3>4
      <4> QED BY <4>1, <4>2, Zenon
    <3> QED BY <1>2, <3>1, <3>2, <3>3, <3>4
  <2> QED BY <2>1, Zenon DEF TurnsOrdered
<1>12. OneTaskEach'
  BY <1>1, <1>2, <1>4, <1>5, <1>6 DEF OneTaskEach
<1>8. TasksBehind'
  BY <1>1, <1>2, <1>3, <1>4, <1>5, <1>6 DEF TasksBehind, Task
<1>9. QueueOrdered'
  <2>1. \A i \in DOMAIN queue' : queue'[i] <= Len(log) BY <1>1, <1>4 DEF QueueOrdered
  <2>2. ASSUME NEW i \in DOMAIN queue', NEW j \in DOMAIN queue', i < j, queue'[i] # Stop,
               queue'[j] # Stop
        PROVE  queue'[i] < queue'[j]
    <3>1. i + 1 \in DOMAIN queue /\ j + 1 \in DOMAIN queue /\ i + 1 < j + 1
      BY <1>4, <2>2
    <3>2. queue'[i] = queue[i + 1] /\ queue'[j] = queue[j + 1] BY <1>4
    <3> QED BY <1>1, <2>2, <3>1, <3>2 DEF QueueOrdered
  <2> QED BY <1>2, <2>1, <2>2 DEF QueueOrdered
<1>10. QueueAhead'
  <2>1. SUFFICES ASSUME NEW i \in DOMAIN queue', queue'[i] # Stop
                 PROVE  /\ \A t \in tasks' : t.e < queue'[i]
                        /\ \A h \in Handler : last'[h] < queue'[i]
    BY DEF QueueAhead
  <2>2. i + 1 \in DOMAIN queue /\ queue'[i] = queue[i + 1] /\ 1 < i + 1 BY <1>4
  <2>3. e < queue'[i] BY <1>1, <1>2, <1>4, <2>1, <2>2 DEF QueueOrdered
  <2>4. /\ \A t \in tasks : t.e < queue'[i]
        /\ \A h \in Handler : last[h] < queue'[i]
    BY <1>1, <1>2, <2>1, <2>2 DEF QueueAhead
  <2> QED BY <1>2, <1>5, <2>3, <2>4
<1>11. RunnerState' BY <1>1, <1>2 DEF RunnerState
<1> QED BY <1>7, <1>8, <1>9, <1>10, <1>11, <1>12 DEF OrderInv

(* The task that begins carries the earliest waiting event of its handler. *)
LEMMA BeginStep ==
  ASSUME BusInv, NEW t \in tasks, Begin(t)
  PROVE  OrderInv'
<1>1. /\ TypeOK /\ TurnsOrdered /\ OneTaskEach /\ TasksBehind /\ QueueOrdered /\ QueueAhead /\ RunnerState
  BY DEF BusInv
<1>2. /\ tasks' = tasks \ {t} /\ last' = [last EXCEPT ![t.h] = t.e]
      /\ UNCHANGED <<started, queue, runner, processed, log>>
      /\ \A u \in tasks : u.turn >= t.turn
  BY DEF Begin, NextTask
<1>3. /\ \A u \in tasks : u.h \in Handler /\ u.e \in Nat /\ u.turn \in Nat
      /\ last \in [Handler -> 0..MaxEvents] /\ MaxEvents \in Nat /\ Len(log) \in Nat
  BY <1>1, BusAssumption DEF TypeOK, Task, Event
<1>4. \A h \in Handler : last'[h] = IF h = t.h THEN t.e ELSE last[h]
  BY <1>2, <1>3
<1>5. TurnsOrdered' /\ OneTaskEach' BY <1>1, <1>2 DEF TurnsOrdered, OneTaskEach
<1>6. TasksBehind'
  <2>1. ASSUME NEW u \in tasks' PROVE last'[u.h] < u.e /\ u.e <= Len(log) /\ u.turn <= processed
    <3>1. u \in tasks /\ u # t BY <1>2
    <3>2. u.e <= Len(log) /\ u.turn <= processed /\ last[u.h] < u.e BY <1>1, <3>1 DEF TasksBehind
    <3>3. CASE u.h = t.h
      <4>1. t.turn < u.turn \/ t.turn = u.turn BY <1>2, <1>3, <3>1
      <4>2. t.e < u.e \/ t.e = u.e BY <1>1, <3>1, <4>1 DEF TurnsOrdered
      <4>3. t.e # u.e BY <1>1, <3>1, <3>3 DEF OneTaskEach
      <4> QED BY <1>3, <1>4, <3>1, <3>2, <3>3, <4>2, <4>3
    <3>4. CASE u.h # t.h BY <1>3, <1>4, <3>1, <3>2, <3>4
    <3> QED BY <3>3, <3>4
  <2>2. \A h \in Handler : last'[h] <= Len(log) BY <1>1, <1>3, <1>4 DEF TasksBehind
  <2> QED BY <1>2, <2>1, <2>2 DEF TasksBehind
<1>7. QueueOrdered' BY <1>1, <1>2 DEF QueueOrdered
<1>8. QueueAhead' BY <1>1, <1>2, <1>4 DEF QueueAhead
<1>9. RunnerState' BY <1>1, <1>2 DEF RunnerState
<1> QED BY <1>5, <1>6, <1>7, <1>8, <1>9 DEF OrderInv

(* The end of the runner drops the sentinel, the end of stop the whole queue. *)
LEMMA StopStep ==
  ASSUME BusInv,
         \/ RunnerStops \/ StopCall
         \/ \E k \in stopping : StopAfterRunner(k) \/ StopAfterHandlers(k)
  PROVE  OrderInv'
<1>1. /\ TypeOK /\ TurnsOrdered /\ OneTaskEach /\ TasksBehind /\ QueueOrdered /\ QueueAhead
      /\ RunnerState
  BY DEF BusInv
<1>2. queue \in Seq(Event \cup {Stop}) /\ Len(log) \in Nat BY <1>1 DEF TypeOK
<1>3. CASE RunnerStops
  <2>1. /\ queue # <<>> /\ queue' = Tail(queue) /\ runner = "running" /\ runner' = "done"
        /\ UNCHANGED <<started, tasks, processed, log, last>>
    BY <1>3 DEF RunnerStops, histVars
  <2>2. \A i \in DOMAIN queue' : i \in Nat /\ i + 1 \in DOMAIN queue /\ queue'[i] = queue[i + 1]
    BY <1>2, <2>1
  <2>3. QueueOrdered'
    <3>1. ASSUME NEW i \in DOMAIN queue', NEW j \in DOMAIN queue', i < j, queue'[i] # Stop,
                 queue'[j] # Stop
          PROVE  queue'[i] < queue'[j]
      <4>1. i + 1 \in DOMAIN queue /\ j + 1 \in DOMAIN queue /\ i + 1 < j + 1 BY <2>2, <3>1
      <4> QED BY <1>1, <2>2, <3>1, <4>1 DEF QueueOrdered
    <3>2. \A i \in DOMAIN queue' : queue'[i] <= Len(log) BY <1>1, <2>2 DEF QueueOrdered
    <3> QED BY <2>1, <3>1, <3>2 DEF QueueOrdered
  <2>4. TurnsOrdered' /\ OneTaskEach' /\ TasksBehind'
    BY <1>1, <2>1 DEF TurnsOrdered, OneTaskEach, TasksBehind
  <2>5. QueueAhead' /\ RunnerState' BY <1>1, <2>1 DEF QueueAhead, RunnerState
  <2> QED BY <2>3, <2>4, <2>5 DEF OrderInv
<1>4. CASE StopCall
  <2>1. /\ queue' = Append(queue, Stop) /\ started
        /\ UNCHANGED <<started, runner, tasks, processed, log, last>>
    BY <1>4 DEF StopCall, histVars
  <2>2. /\ \A i \in DOMAIN queue' : i \in DOMAIN queue \/ i = Len(queue) + 1
        /\ queue'[Len(queue) + 1] = Stop
        /\ \A i \in DOMAIN queue : queue'[i] = queue[i]
    BY <1>2, <2>1
  <2>3. QueueOrdered'
    <3>1. \A i \in DOMAIN queue' : queue'[i] <= Len(log)
      BY <1>1, <1>2, <2>2 DEF QueueOrdered, Stop
    <3>2. ASSUME NEW i \in DOMAIN queue', NEW j \in DOMAIN queue', i < j, queue'[i] # Stop,
                 queue'[j] # Stop
          PROVE  queue'[i] < queue'[j]
      BY <1>1, <2>2, <3>2 DEF QueueOrdered
    <3> QED BY <2>1, <3>1, <3>2 DEF QueueOrdered
  <2>4. TurnsOrdered' /\ OneTaskEach' /\ TasksBehind'
    BY <1>1, <2>1 DEF TurnsOrdered, OneTaskEach, TasksBehind
  <2>5. QueueAhead' BY <1>1, <2>1, <2>2 DEF QueueAhead
  <2>6. RunnerState' BY <1>1, <2>1 DEF RunnerState
  <2> QED BY <2>3, <2>4, <2>5, <2>6 DEF OrderInv
<1>5. ASSUME NEW k \in stopping, StopAfterRunner(k) \/ StopAfterHandlers(k) PROVE OrderInv'
  <2>1. /\ tasks' \subseteq tasks /\ UNCHANGED <<processed, log, last>>
        /\ \/ UNCHANGED <<queue, runner, started>>
           \/ queue' = <<>> /\ runner' = "none" /\ started' = FALSE
    BY <1>5 DEF StopAfterRunner, StopAfterHandlers, Release
  <2>2. TurnsOrdered' /\ OneTaskEach' /\ TasksBehind'
    BY <1>1, <2>1 DEF TurnsOrdered, OneTaskEach, TasksBehind
  <2>3. CASE UNCHANGED <<queue, runner, started>>
    <3>1. QueueOrdered' /\ QueueAhead' /\ RunnerState'
      BY <1>1, <2>1, <2>3 DEF QueueOrdered, QueueAhead, RunnerState
    <3> QED BY <2>2, <3>1 DEF OrderInv
  <2>4. CASE queue' = <<>> /\ runner' = "none" /\ started' = FALSE
    <3>1. QueueOrdered' /\ QueueAhead' /\ RunnerState'
      BY <2>4 DEF QueueOrdered, QueueAhead, RunnerState
    <3> QED BY <2>2, <3>1 DEF OrderInv
  <2> QED BY <2>1, <2>3, <2>4
<1> QED BY <1>3, <1>4, <1>5
-----------------------------------------------------------------------------
(* Every step keeps the invariant. *)
LEMMA StepInv == ASSUME BusInv, [Next]_vars PROVE BusInv'
<1>1. TypeOK' BY StepType
<1>2. OrderInv'
  <2>1. ASSUME NEW h \in Handler, NEW s \in Selector, Subscribe(h, s) \/ Unsubscribe(h, s)
        PROVE  OrderInv'
    <3>1. UNCHANGED QuietVars BY <2>1 DEF Subscribe, Unsubscribe, busVars, histVars, QuietVars
    <3> QED BY <3>1, QuietStep
  <2>2. CASE SwitchRecording
    <3>1. UNCHANGED QuietVars BY <2>2 DEF SwitchRecording, busVars, histVars, QuietVars
    <3> QED BY <3>1, QuietStep
  <2>3. CASE Start
    <3>1. TypeOK /\ OrderInv BY DEF BusInv, OrderInv
    <3>2. queue = <<>> BY <2>3, <3>1 DEF Start, OrderInv, RunnerState
    <3>3. /\ started' = TRUE /\ runner' = "running"
          /\ UNCHANGED <<queue, tasks, processed, log, last>>
      BY <2>3 DEF Start, EnsureStarted, histVars
    <3>4. TurnsOrdered' /\ OneTaskEach' /\ TasksBehind' /\ QueueOrdered'
      BY <3>1, <3>3 DEF OrderInv, TurnsOrdered, OneTaskEach, TasksBehind, QueueOrdered
    <3>5. QueueAhead' /\ RunnerState' BY <3>2, <3>3 DEF QueueAhead, RunnerState
    <3> QED BY <3>4, <3>5 DEF OrderInv
  <2>4. ASSUME NEW c \in Class, Publish(c) PROVE OrderInv'
    <3>1. TypeOK /\ OrderInv BY DEF BusInv, OrderInv
    <3>2. CASE logging /\ c \in Unsummarised
      <4>1. /\ started' = TRUE /\ runner' = (IF started THEN runner ELSE "running")
            /\ UNCHANGED <<queue, tasks, processed, log, last>>
        BY <2>4, <3>2 DEF Publish, EnsureStarted, histVars
      <4>2. TurnsOrdered' /\ OneTaskEach' /\ TasksBehind' /\ QueueOrdered'
        BY <3>1, <4>1 DEF OrderInv, TurnsOrdered, OneTaskEach, TasksBehind, QueueOrdered
      <4>3. QueueAhead' /\ RunnerState'
        <5>1. CASE started BY <3>1, <4>1, <5>1 DEF OrderInv, QueueAhead, RunnerState
        <5>2. CASE ~started BY <3>1, <4>1, <5>2 DEF OrderInv, QueueAhead, RunnerState
        <5> QED BY <5>1, <5>2
      <4> QED BY <4>2, <4>3 DEF OrderInv
    <3>3. CASE ~(logging /\ c \in Unsummarised)
      <4>1. Accept(c) /\ EnsureStarted /\ UNCHANGED last /\ Len(log) < MaxEvents
        BY <2>4, <3>3 DEF Publish, histVars
      <4>2. Len(log) + 1 \in Event BY <3>1, <4>1, BusAssumption DEF TypeOK, Event
      <4> QED BY <4>1, <4>2, AcceptStep
    <3> QED BY <3>2, <3>3
  <2>5. CASE RunnerTakes BY <2>5, TakeStep
  <2>6. ASSUME NEW t \in tasks, Begin(t) PROVE OrderInv' BY <2>6, BeginStep
  <2>7. ASSUME NEW t \in active, Finish(t) PROVE OrderInv'
    <3>1. UNCHANGED QuietVars BY <2>7 DEF Finish, histVars, QuietVars
    <3> QED BY <3>1, QuietStep
  <2>8. CASE \/ RunnerStops \/ StopCall
             \/ \E k \in stopping : StopAfterRunner(k) \/ StopAfterHandlers(k)
    BY <2>8, StopStep
  <2>9. CASE UNCHANGED vars
    <3>1. UNCHANGED QuietVars BY <2>9 DEF vars, busVars, histVars, QuietVars
    <3> QED BY <3>1, QuietStep
  <2> QED BY <2>1, <2>2, <2>3, <2>4, <2>5, <2>6, <2>7, <2>8, <2>9 DEF Next
<1> QED BY <1>1, <1>2 DEF BusInv, OrderInv

-----------------------------------------------------------------------------
(* What a step may do to the queue, given the order it keeps.               *)
LEMMA Appended ==
  ASSUME TypeOK, NEW e \in Event \cup {Stop}, queue' = Append(queue, e)
  PROVE  /\ DOMAIN queue' = 1..(Len(queue) + 1) /\ DOMAIN queue = 1..Len(queue)
         /\ Len(queue) \in Nat /\ queue'[Len(queue) + 1] = e
         /\ \A i \in DOMAIN queue : queue'[i] = queue[i]
  BY DEF TypeOK

LEMMA Taken ==
  ASSUME TypeOK, queue # <<>>, queue' = Tail(queue)
  PROVE  /\ 1 \in DOMAIN queue /\ Head(queue) = queue[1]
         /\ Len(queue) \in Nat /\ Len(queue') = Len(queue) - 1
         /\ \A i \in DOMAIN queue' : /\ i \in Nat /\ i + 1 \in DOMAIN queue
                                     /\ 1 < i + 1 /\ queue'[i] = queue[i + 1]
  BY DEF TypeOK

(* What was published after the call of k.                                  *)
Later(k, e) == e # Stop => e > k.marked

(* Behind every sentinel is what was published after some call that is still *)
(* under way and waits for this runner; once the runner has met a sentinel,  *)
(* that is all there is.  To the calls of before the last start everything   *)
(* is later.                                                                 *)
Drained ==
  /\ era <= switches
  /\ \A k \in stopping : k.marked <= Len(log) /\ k.n <= switches
  /\ \A k \in stopping : k.at = "handlers" /\ k.n > era => runner \in {"none", "done"}
  /\ runner = "running" => \A i \in DOMAIN queue : queue[i] = Stop =>
       \E k \in stopping : k.n > era /\ \A j \in DOMAIN queue : i < j => Later(k, queue[j])
  /\ runner = "done" =>
       \E k \in stopping : k.n > era /\ \A j \in DOMAIN queue : Later(k, queue[j])
  /\ started => \A k \in stopping : k.n <= era =>
       \A j \in DOMAIN queue : Later(k, queue[j])

(* A call's marks stay where they are. *)
LEMMA CallFacts ==
  ASSUME TypeOK, NEW k \in stopping
  PROVE  k.n \in Nat /\ k.marked \in Nat /\ k \in Call /\ switches \in Nat /\ era \in Nat
         /\ Len(log) \in Nat
  BY BusAssumption DEF TypeOK, Call

LEMMA AcceptDrained ==
  ASSUME BusInv, Drained, NEW c \in Class, Accept(c), EnsureStarted, Len(log) + 1 \in Event,
         UNCHANGED <<stopping, switches>>
  PROVE  Drained'
<1> DEFINE n == Len(log) + 1
<1>1. TypeOK /\ RunnerState /\ Len(log) \in Nat /\ Len(log') = n /\ era \in Nat /\ switches \in Nat
  BY BusAssumption DEF BusInv, TypeOK, Accept
<1>2. n # Stop /\ \A k \in stopping : k.marked \in Nat /\ k.n \in Nat /\ k.marked <= n /\ Later(k, n)
  BY <1>1, CallFacts DEF Drained, Stop, Later
<1>3. /\ era' <= switches' /\ era' \in Nat /\ (started => era' = era) /\ (~started => era' = switches)
      /\ \A k \in stopping' : k.marked <= Len(log') /\ k.n <= switches'
  BY <1>1, <1>2 DEF Drained, EnsureStarted
<1>4. CASE ~started \/ runner = "running"
  <2>1. queue' = Append(queue, n) /\ runner' = "running"
    BY <1>1, <1>4 DEF Accept, Enqueue, EnsureStarted, RunnerState
  <2>2. /\ DOMAIN queue' = 1..(Len(queue) + 1) /\ DOMAIN queue = 1..Len(queue)
        /\ Len(queue) \in Nat /\ queue'[Len(queue) + 1] = n
        /\ \A i \in DOMAIN queue : queue'[i] = queue[i]
    BY <1>1, <2>1, Appended
  <2>3. CASE ~started
    <3>1. queue = <<>>
      BY <1>1, <2>3 DEF RunnerState
    <3>2. \A j \in DOMAIN queue' : queue'[j] = n
      BY <2>2, <3>1
    <3>3. \A k \in stopping' : ~(k.n > era')
      BY <1>1, <1>2, <1>3, <2>3
    <3> QED BY <1>2, <1>3, <2>1, <3>2, <3>3 DEF Drained
  <2>4. CASE started
    <3>1. runner = "running" /\ era' = era
      BY <1>3, <1>4, <2>4
    <3>2. \A k \in stopping' : ~(k.at = "handlers" /\ k.n > era')
      BY <3>1 DEF Drained
    <3>3. ASSUME NEW i \in DOMAIN queue', queue'[i] = Stop
          PROVE  \E k \in stopping' : k.n > era' /\ \A j \in DOMAIN queue' : i < j => Later(k, queue'[j])
      <4>1. i \in DOMAIN queue /\ queue[i] = Stop
        BY <1>2, <2>2, <3>3
      <4>2. PICK k \in stopping : k.n > era /\ \A j \in DOMAIN queue : i < j => Later(k, queue[j])
        BY <3>1, <4>1 DEF Drained
      <4>3. \A j \in DOMAIN queue' : i < j => Later(k, queue'[j])
        BY <1>2, <2>2, <4>2
      <4> QED BY <3>1, <4>2, <4>3
    <3>4. ASSUME NEW k \in stopping', k.n <= era', NEW j \in DOMAIN queue'
          PROVE  Later(k, queue'[j])
      BY <1>2, <2>2, <2>4, <3>1, <3>4 DEF Drained
    <3> QED BY <1>3, <2>1, <3>2, <3>3, <3>4 DEF Drained
  <2> QED BY <2>3, <2>4
<1>5. CASE ~(~started \/ runner = "running")
  <2>1. UNCHANGED <<queue, runner, started, era>>
    BY <1>5 DEF Accept, DispatchNow, EnsureStarted
  <2> QED BY <1>3, <1>5, <2>1 DEF Drained, Later
<1> QED BY <1>4, <1>5

(* A call of stop that goes on. *)
LEMMA StopDrained ==
  ASSUME BusInv, Drained, NEW k \in stopping, StopAfterRunner(k) \/ StopAfterHandlers(k)
  PROVE  Drained'
<1>1. TypeOK /\ RunnerState /\ UNCHANGED <<log, switches, era>>
  BY DEF BusInv, StopAfterRunner, StopAfterHandlers
<1>2. CASE Release(k)
  <2>1. stopping' \subseteq stopping /\ runner' = "none" /\ started' = FALSE
    BY <1>2 DEF Release
  <2> QED BY <1>1, <2>1 DEF Drained
<1>3. CASE ~Ended(k) /\ runner = "crashed" /\ stopping' = stopping \ {k}
           /\ UNCHANGED <<queue, runner, started>>
  <2>1. stopping' \subseteq stopping
    BY <1>3
  <2>2. \A m \in stopping' : m.at = "handlers" /\ m.n > era' => runner' \in {"none", "done"}
    BY <1>1, <1>3, <2>1 DEF Drained
  <2>3. \A m \in stopping' : m.marked <= Len(log') /\ m.n <= switches'
    BY <1>1, <2>1 DEF Drained
  <2>4. started' => \A m \in stopping' : m.n <= era' => \A j \in DOMAIN queue' : Later(m, queue'[j])
    BY <1>1, <1>3, <2>1 DEF Drained
  <2> QED BY <1>1, <1>3, <2>2, <2>3, <2>4 DEF Drained
<1>4. CASE Ended(k) /\ UNCHANGED <<queue, runner, started>>
           /\ stopping' = (stopping \ {k}) \cup {[k EXCEPT !.at = "handlers", !.upto = processed]}
  <2> DEFINE m == [k EXCEPT !.at = "handlers", !.upto = processed]
  <2>1. m.n = k.n /\ m.marked = k.marked /\ k.n \in Nat /\ era \in Nat
    BY <1>1, CallFacts DEF Call
  <2>m. stopping' = (stopping \ {k}) \cup {m}
    BY <1>4
  <2> HIDE DEF m
  <2>2. \A x \in stopping' : \E y \in stopping : x.n = y.n /\ x.marked = y.marked
                                               /\ (x = y \/ (x = m /\ y = k))
    <3>1. ASSUME NEW x \in stopping' PROVE x \in stopping \/ x = m
      BY <2>m
    <3>2. k \in stopping
      OBVIOUS
    <3>3. ASSUME NEW x \in stopping'
          PROVE  \E y \in stopping : x.n = y.n /\ x.marked = y.marked /\ (x = y \/ (x = m /\ y = k))
      <4>1. CASE x \in stopping
        BY <4>1
      <4>2. CASE x = m
        BY <2>1, <3>2, <4>2
      <4> QED BY <3>1, <4>1, <4>2
    <3> QED BY <3>3
  <2>3. \A y \in stopping : \E x \in stopping' : x.n = y.n /\ x.marked = y.marked
    BY <2>m, <2>1
  <2>4. \A x \in stopping' : x.marked <= Len(log') /\ x.n <= switches'
    BY <1>1, <2>2 DEF Drained
  <2>5. \A x \in stopping' : x.at = "handlers" /\ x.n > era' => runner' \in {"none", "done"}
    <3>1. k.n > era => runner \in {"none", "done"}
      BY <1>4, <2>1 DEF Ended
    <3> QED BY <1>1, <1>4, <2>1, <2>2, <3>1 DEF Drained
  <2>6. runner' = "running" => \A i \in DOMAIN queue' : queue'[i] = Stop =>
          \E x \in stopping' : x.n > era' /\ \A j \in DOMAIN queue' : i < j => Later(x, queue'[j])
    BY <1>1, <1>4, <2>3 DEF Drained, Later
  <2>7. runner' = "done" =>
          \E x \in stopping' : x.n > era' /\ \A j \in DOMAIN queue' : Later(x, queue'[j])
    BY <1>1, <1>4, <2>3 DEF Drained, Later
  <2>8. started' => \A x \in stopping' : x.n <= era' =>
          \A j \in DOMAIN queue' : Later(x, queue'[j])
    BY <1>1, <1>4, <2>2 DEF Drained, Later
  <2> QED BY <1>1, <2>4, <2>5, <2>6, <2>7, <2>8 DEF Drained
<1> QED BY <1>2, <1>3, <1>4 DEF StopAfterRunner, StopAfterHandlers

(* A new call of stop. *)
LEMMA CallDrained == ASSUME BusInv, Drained, StopCall PROVE Drained'
<1>1. TypeOK /\ RunnerState /\ Len(log) \in Nat /\ switches \in Nat /\ era \in Nat
  BY BusAssumption DEF BusInv, TypeOK
<1>2. /\ started /\ queue' = Append(queue, Stop) /\ switches' = switches + 1
      /\ stopping' = stopping \cup {NewCall} /\ UNCHANGED <<runner, log, era, started>>
  BY DEF StopCall
<1>3. /\ DOMAIN queue' = 1..(Len(queue) + 1) /\ DOMAIN queue = 1..Len(queue)
      /\ Len(queue) \in Nat /\ queue'[Len(queue) + 1] = Stop
      /\ \A i \in DOMAIN queue : queue'[i] = queue[i]
  BY <1>1, <1>2, Appended
<1>4. NewCall.n = switches + 1 /\ NewCall.marked = Len(log) /\ NewCall.at = "runner"
  BY DEF NewCall
<1>5. NewCall.n > era
  BY <1>1, <1>4 DEF Drained
<1>6. \A k : Later(k, queue'[Len(queue) + 1])
  BY <1>3 DEF Later
<1>7. \A k \in stopping' : k.marked <= Len(log') /\ k.n <= switches'
  BY <1>1, <1>2, <1>4, CallFacts DEF Drained
<1>8. \A k \in stopping' : k.at = "handlers" /\ k.n > era' => runner' \in {"none", "done"}
  BY <1>2, <1>4 DEF Drained
<1>9. ASSUME runner' = "running", NEW i \in DOMAIN queue', queue'[i] = Stop
      PROVE  \E k \in stopping' : k.n > era' /\ \A j \in DOMAIN queue' : i < j => Later(k, queue'[j])
  <2>1. CASE i \in DOMAIN queue
    <3>1. PICK k \in stopping : k.n > era /\ \A j \in DOMAIN queue : i < j => Later(k, queue[j])
      BY <1>2, <1>3, <1>9, <2>1 DEF Drained
    <3>2. \A j \in DOMAIN queue' : i < j => Later(k, queue'[j])
      BY <1>3, <1>6, <3>1
    <3> QED BY <1>2, <3>1, <3>2
  <2>2. CASE i = Len(queue) + 1
    <3>1. \A j \in DOMAIN queue' : ~(i < j)
      BY <1>3, <2>2
    <3> QED BY <1>2, <1>5, <3>1
  <2> QED BY <1>3, <2>1, <2>2
<1>10. ASSUME runner' = "done"
       PROVE  \E k \in stopping' : k.n > era' /\ \A j \in DOMAIN queue' : Later(k, queue'[j])
  <2>1. PICK k \in stopping : k.n > era /\ \A j \in DOMAIN queue : Later(k, queue[j])
    BY <1>2, <1>10 DEF Drained
  <2>2. \A j \in DOMAIN queue' : Later(k, queue'[j])
    BY <1>3, <1>6, <2>1
  <2> QED BY <1>2, <2>1, <2>2
<1>11. ASSUME NEW k \in stopping', k.n <= era', NEW j \in DOMAIN queue' PROVE Later(k, queue'[j])
  <2>1. k \in stopping
    BY <1>1, <1>2, <1>4, <1>5, <1>11
  <2> QED BY <1>2, <1>3, <1>6, <1>11, <2>1 DEF Drained
<1>12. era' <= switches'
  BY <1>1, <1>2 DEF Drained
<1> QED BY <1>7, <1>8, <1>9, <1>10, <1>11, <1>12 DEF Drained

LEMMA StepDrained == ASSUME BusInv, Drained, [Next]_vars PROVE Drained'
<1>0. TypeOK /\ RunnerState /\ Len(log) \in Nat /\ switches \in Nat /\ era \in Nat
  BY BusAssumption DEF BusInv, TypeOK
<1>1. ASSUME UNCHANGED <<queue, runner, started, log, stopping, era>>, switches' \in Nat,
             switches <= switches'
      PROVE  Drained'
  <2>1. era' <= switches' /\ \A k \in stopping' : k.n <= switches'
    BY <1>0, <1>1, CallFacts DEF Drained
  <2> QED BY <1>1, <2>1 DEF Drained, Later
<1>2. ASSUME NEW h \in Handler, NEW s \in Selector, Subscribe(h, s) \/ Unsubscribe(h, s)
      PROVE  Drained'
  BY <1>0, <1>1, <1>2 DEF Subscribe, Unsubscribe, busVars
<1>3. CASE SwitchRecording \/ UNCHANGED vars
  BY <1>0, <1>1, <1>3 DEF SwitchRecording, busVars, vars
<1>4. ASSUME UNCHANGED <<queue, log, stopping, switches>>, ~started, EnsureStarted
      PROVE  Drained'
  <2>1. queue = <<>>
    BY <1>0, <1>4 DEF RunnerState
  <2>2. runner' = "running" /\ era' = switches
    BY <1>4 DEF EnsureStarted
  <2>3. \A k \in stopping : ~(k.n > era') /\ k.n \in Nat
    BY <1>0, <2>2, CallFacts DEF Drained
  <2>4. DOMAIN queue' = {}
    BY <1>4, <2>1
  <2> QED BY <1>0, <1>4, <2>2, <2>3, <2>4 DEF Drained
<1>5. CASE Start
  BY <1>4, <1>5 DEF Start
<1>6. ASSUME NEW c \in Class, Publish(c) PROVE Drained'
  <2>1. CASE logging /\ c \in Unsummarised
    <3>1. EnsureStarted /\ UNCHANGED <<queue, log, stopping, switches>>
      BY <1>6, <2>1 DEF Publish
    <3>2. started => UNCHANGED <<runner, started, era>>
      BY <3>1 DEF EnsureStarted
    <3> QED BY <1>0, <1>1, <1>4, <3>1, <3>2
  <2>2. CASE ~(logging /\ c \in Unsummarised)
    <3>1. Accept(c) /\ EnsureStarted /\ UNCHANGED <<stopping, switches>> /\ Len(log) < MaxEvents
      BY <1>6, <2>2 DEF Publish
    <3>2. Len(log) + 1 \in Event
      BY <1>0, <3>1, BusAssumption DEF Event
    <3> QED BY <3>1, <3>2, AcceptDrained
  <2> QED BY <2>1, <2>2
<1>7. CASE RunnerTakes \/ RunnerStops
  <2>1. /\ queue # <<>> /\ queue' = Tail(queue) /\ runner = "running"
        /\ UNCHANGED <<log, stopping, switches, era, started>>
    BY <1>7 DEF RunnerTakes, RunnerStops
  <2>2. /\ 1 \in DOMAIN queue /\ Head(queue) = queue[1]
        /\ \A i \in DOMAIN queue' : /\ i \in Nat /\ i + 1 \in DOMAIN queue
                                    /\ 1 < i + 1 /\ queue'[i] = queue[i + 1]
    BY <1>0, <2>1, Taken
  <2>3. \A k \in stopping' : ~(k.at = "handlers" /\ k.n > era')
    BY <2>1 DEF Drained
  <2>4. \A k \in stopping' : k.n <= era' => \A j \in DOMAIN queue' : Later(k, queue'[j])
    <3>1. started
      BY <1>0, <2>1 DEF RunnerState
    <3> QED BY <2>1, <2>2, <3>1 DEF Drained
  <2>5. ASSUME NEW i \in DOMAIN queue', queue'[i] = Stop
        PROVE  \E k \in stopping' : k.n > era' /\ \A j \in DOMAIN queue' : i < j => Later(k, queue'[j])
    <3>1. i + 1 \in DOMAIN queue /\ queue[i + 1] = Stop
      BY <2>2, <2>5
    <3>2. PICK k \in stopping : k.n > era /\ \A j \in DOMAIN queue : i + 1 < j => Later(k, queue[j])
      BY <2>1, <3>1 DEF Drained
    <3>3. \A j \in DOMAIN queue' : i < j => j + 1 \in DOMAIN queue /\ i + 1 < j + 1
      BY <2>2
    <3> QED BY <2>1, <2>2, <3>2, <3>3
  <2>6. era' <= switches' /\ \A k \in stopping' : k.marked <= Len(log') /\ k.n <= switches'
    BY <2>1 DEF Drained
  <2>7. CASE RunnerTakes
    <3>1. runner' \in {"running", "crashed"}
      BY <2>7 DEF RunnerTakes
    <3> QED BY <2>3, <2>4, <2>5, <2>6, <3>1 DEF Drained
  <2>8. CASE RunnerStops
    <3>1. queue[1] = Stop /\ runner' = "done"
      BY <2>2, <2>8 DEF RunnerStops
    <3>2. PICK k \in stopping : k.n > era /\ \A j \in DOMAIN queue : 1 < j => Later(k, queue[j])
      BY <2>1, <2>2, <3>1 DEF Drained
    <3>3. \A i \in DOMAIN queue' : Later(k, queue'[i])
      BY <2>2, <3>2
    <3>4. \E m \in stopping' : m.n > era' /\ \A j \in DOMAIN queue' : Later(m, queue'[j])
      BY <2>1, <3>2, <3>3
    <3> QED BY <2>3, <2>4, <2>6, <3>1, <3>4 DEF Drained
  <2> QED BY <1>7, <2>7, <2>8
<1>8. ASSUME NEW t \in tasks, Begin(t) PROVE Drained'
  BY <1>0, <1>1, <1>8 DEF Begin
<1>9. ASSUME NEW t \in active, Finish(t) PROVE Drained'
  BY <1>0, <1>1, <1>9 DEF Finish
<1> QED BY <1>2, <1>3, <1>5, <1>6, <1>7, <1>8, <1>9, CallDrained, StopDrained DEF Next
-----------------------------------------------------------------------------
(* The bus keeps its types and its order: what the queue holds is later than *)
(* what waits for a handler, and that later than what the handler began.     *)
THEOREM BusInvariant == Spec => []BusInv
<1>1. Init => BusInv BY InitInv
<1>2. BusInv /\ [Next]_vars => BusInv' BY StepInv
<1> QED BY <1>1, <1>2, PTL DEF Spec

(* The types of the bus. *)
THEOREM Typing == Spec => []TypeOK
<1>1. BusInv => TypeOK BY DEF BusInv
<1> QED BY <1>1, BusInvariant, PTL

(* Each handler begins its events in the order of their publication, and no *)
(* event twice, on the queue and on the direct path, across stops and        *)
(* crashes of the runner (bus.py _runner, publish, stop).                    *)
THEOREM OrderedDeliveryHolds == Spec => OrderedDelivery
<1>1. BusInv => \A t \in tasks : last[t.h] < t.e BY DEF BusInv, TasksBehind
<1>2. ASSUME BusInv PROVE InOrder
  <2>1. ASSUME NEW t \in tasks PROVE t.e > last[t.h]
    <3>1. last[t.h] < t.e BY <1>1, <1>2
    <3>2. t.e \in Nat /\ last[t.h] \in Nat
      BY <1>2, BusAssumption DEF BusInv, TypeOK, Task, Event
    <3> QED BY <3>1, <3>2
  <2> QED BY <2>1 DEF InOrder
<1> QED BY <1>2, BusInvariant, PTL DEF OrderedDelivery

(* The queue is ready for every stop, and for no other end of the runner. *)
LEMMA AlwaysDrained == Spec => []Drained
<1>1. Init => Drained
  BY DEF Init, Drained
<1>2. BusInv /\ Drained /\ [Next]_vars => Drained'
  BY StepDrained
<1> QED BY <1>1, <1>2, BusInvariant, PTL DEF Spec

(* The bus lets go of its queue only when what is left in it was published   *)
(* after the call of a stop that is under way, however many calls of stop    *)
(* overlap, also when the bus was restarted under one of them, whatever is   *)
(* published while they wait, and when a runner crashed before (bus.py stop). *)
THEOREM StopDrains == Spec => DrainsBeforeStop
<1>1. ASSUME BusInv, Drained, [Next]_vars, started, ~started'
      PROVE  \E k \in stopping : \A e \in Queued : e > k.marked
  <2>1. PICK k \in stopping : (StopAfterRunner(k) \/ StopAfterHandlers(k)) /\ Release(k)
    BY <1>1 DEF Next, vars, busVars, Subscribe, Unsubscribe, SwitchRecording, Start, Publish,
                EnsureStarted, RunnerTakes, RunnerStops, Begin, Finish, StopCall,
                StopAfterRunner, StopAfterHandlers
  <2>2. TypeOK /\ k.n \in Nat /\ era \in Nat /\ runner # "none"
    BY <1>1, CallFacts DEF BusInv, RunnerState
  <2>3. PICK m \in stopping : \A j \in DOMAIN queue : Later(m, queue[j])
    <3>1. CASE k.n <= era
      BY <1>1, <3>1 DEF Drained
    <3>2. CASE k.n > era
      <4>1. runner = "done"
        <5>1. CASE StopAfterHandlers(k)
          BY <1>1, <2>2, <3>2, <5>1 DEF StopAfterHandlers, Drained
        <5>2. CASE StopAfterRunner(k)
          <6>1. CASE Ended(k)
            BY <2>2, <3>2, <6>1 DEF Ended
          <6>2. CASE UNCHANGED started
            BY <1>1, <6>2
          <6> QED BY <5>2, <6>1, <6>2 DEF StopAfterRunner
        <5> QED BY <2>1, <5>1, <5>2
      <4> QED BY <1>1, <4>1 DEF Drained
    <3> QED BY <2>2, <3>1, <3>2
  <2> QED BY <2>3 DEF Queued, Later
<1>2. BusInv /\ Drained /\ [Next]_vars =>
        [started /\ ~started' => \E k \in stopping : \A e \in Queued : e > k.marked]_vars
  BY <1>1
<1> QED BY <1>2, BusInvariant, AlwaysDrained, PTL DEF Spec, DrainsBeforeStop
-----------------------------------------------------------------------------
(* The recording.  What it or its history holds was accepted, and a live     *)
(* runner has yet to take what is later.                                     *)
Recorded ==
  /\ heard \subseteq 1..Len(log)
  /\ runner = "running" => \A i \in DOMAIN recorded : \A k \in DOMAIN queue :
       queue[k] # Stop => recorded[i] < queue[k]
  /\ RecordingHonest

LEMMA RecordsOne ==
  ASSUME TypeOK, RecordingHonest, NEW e \in Event, NEW c, Record(e, c),
         log'[e] = c, \A x \in heard : log'[x] = log[x],
         \A i \in DOMAIN recorded : recorded[i] < e
  PROVE  /\ RecordingHonest' /\ heard' \subseteq heard \cup {e}
         /\ \A i \in DOMAIN recorded' :
              recorded'[i] = e \/ \E j \in DOMAIN recorded : recorded'[i] = recorded[j]
<1>1. recorded \in Seq(Event) /\ Len(recorded) \in Nat /\ RecordingMax \in Nat
  BY BusAssumption DEF TypeOK
<1>2. heard \subseteq heard' /\ heard' \subseteq heard \cup {e} /\ (truncated => truncated')
  BY DEF Record
<1>3. CASE recorded' = recorded
  <2>0. Append(recorded, e) # recorded
    BY <1>1
  <2>1. heard' = heard \/ c \in Unsummarised \/ truncated'
    BY <1>3, <2>0 DEF Record
  <2>2. InRecording' = InRecording
    BY <1>3 DEF InRecording
  <2>3. truncated' \/ \A x \in heard' \ InRecording' : log'[x] \in Unsummarised
    <3>1. CASE truncated'
      BY <3>1
    <3>2. CASE ~truncated'
      <4>1. \A x \in heard \ InRecording : log'[x] \in Unsummarised
        BY <1>2, <3>2 DEF RecordingHonest
      <4>2. \A x \in heard' \ heard : log'[x] \in Unsummarised
        BY <1>2, <2>1, <3>2
      <4> QED BY <2>2, <4>1, <4>2
    <3> QED BY <3>1, <3>2
  <2>4. Len(recorded') <= RecordingMax
        /\ \A i, j \in DOMAIN recorded' : i < j => recorded'[i] < recorded'[j]
    BY <1>3 DEF RecordingHonest
  <2>5. InRecording' \subseteq heard'
    BY <1>2, <2>2 DEF RecordingHonest
  <2>6. RecordingHonest'
    BY <2>3, <2>4, <2>5 DEF RecordingHonest
  <2> QED BY <1>2, <1>3, <2>6
<1>4. CASE recorded' # recorded
  <2>1. Len(recorded) < RecordingMax /\ recorded' = Append(recorded, e) /\ heard' = heard \cup {e}
    BY <1>4 DEF Record
  <2>2. /\ DOMAIN recorded' = 1..(Len(recorded) + 1) /\ Len(recorded') = Len(recorded) + 1
        /\ DOMAIN recorded = 1..Len(recorded) /\ recorded'[Len(recorded) + 1] = e
        /\ \A i \in DOMAIN recorded : recorded'[i] = recorded[i]
    BY <1>1, <2>1
  <2>3. Len(recorded') <= RecordingMax
    BY <1>1, <2>1, <2>2
  <2>4. InRecording' = InRecording \cup {e}
    BY <1>1, <2>2 DEF InRecording
  <2>5. InRecording' \subseteq heard'
    BY <2>1, <2>4 DEF RecordingHonest
  <2>6. truncated' \/ \A x \in heard' \ InRecording' : log'[x] \in Unsummarised
    <3>1. \A x \in heard' \ InRecording' : x \in heard \ InRecording
      BY <2>1, <2>4
    <3> QED BY <1>2, <3>1 DEF RecordingHonest
  <2>7. ASSUME NEW i \in DOMAIN recorded', NEW j \in DOMAIN recorded', i < j
        PROVE  recorded'[i] < recorded'[j]
    <3>1. i \in DOMAIN recorded
      BY <1>1, <2>2, <2>7
    <3>2. CASE j \in DOMAIN recorded
      BY <2>2, <2>7, <3>1, <3>2 DEF RecordingHonest
    <3>3. CASE j = Len(recorded) + 1
      BY <2>2, <3>1, <3>3
    <3> QED BY <2>2, <3>2, <3>3
  <2>8. \A i \in DOMAIN recorded' :
          recorded'[i] = e \/ \E j \in DOMAIN recorded : recorded'[i] = recorded[j]
    BY <1>1, <2>2
  <2> QED BY <1>2, <2>3, <2>5, <2>6, <2>7, <2>8 DEF RecordingHonest
<1> QED BY <1>3, <1>4

(* What is in the recording was accepted. *)
LEMMA RecordedBefore ==
  ASSUME TypeOK, Recorded
  PROVE  \A i \in DOMAIN recorded : recorded[i] \in Nat /\ recorded[i] <= Len(log)
BY BusAssumption DEF TypeOK, Recorded, RecordingHonest, InRecording, Event

LEMMA AcceptRecorded ==
  ASSUME BusInv, Recorded, NEW c \in Class, Accept(c), EnsureStarted, Len(log) + 1 \in Event
  PROVE  Recorded'
<1> DEFINE n == Len(log) + 1
<1>1. /\ TypeOK /\ RunnerState /\ Len(log) \in Nat /\ Len(log') = n
      /\ log'[n] = c /\ \A x \in 1..Len(log) : log'[x] = log[x]
  BY DEF BusInv, TypeOK, Accept
<1>2. \A i \in DOMAIN recorded : recorded[i] \in Nat /\ recorded[i] < n
  BY <1>1, RecordedBefore
<1>3. heard \subseteq 1..n /\ \A x \in heard : log'[x] = log[x]
  BY <1>1 DEF Recorded
<1>4. CASE ~started \/ runner = "running"
  <2>1. queue' = Append(queue, n) /\ runner' = "running" /\ UNCHANGED <<recorded, truncated, heard>>
    BY <1>1, <1>4 DEF Accept, Enqueue, EnsureStarted, RunnerState, recVars
  <2>2. /\ DOMAIN queue' = 1..(Len(queue) + 1) /\ DOMAIN queue = 1..Len(queue)
        /\ Len(queue) \in Nat /\ queue'[Len(queue) + 1] = n
        /\ \A i \in DOMAIN queue : queue'[i] = queue[i]
    BY <1>1, <2>1, Appended
  <2>3. ASSUME NEW i \in DOMAIN recorded, NEW k \in DOMAIN queue', queue'[k] # Stop
        PROVE  recorded[i] < queue'[k]
    <3>1. CASE k \in DOMAIN queue
      <4>1. runner = "running"
        BY <1>1, <1>4, <3>1 DEF RunnerState
      <4> QED BY <2>2, <2>3, <3>1, <4>1 DEF Recorded
    <3>2. CASE k = Len(queue) + 1
      BY <1>2, <2>2, <3>2
    <3> QED BY <2>2, <3>1, <3>2
  <2>4. RecordingHonest'
    BY <1>3, <2>1 DEF Recorded, RecordingHonest, InRecording
  <2> QED BY <1>1, <1>3, <2>1, <2>3, <2>4 DEF Recorded
<1>5. CASE ~(~started \/ runner = "running")
  <2>1. Record(n, c) /\ UNCHANGED runner
    BY <1>5 DEF Accept, DispatchNow, EnsureStarted
  <2>2. RecordingHonest' /\ heard' \subseteq heard \cup {n}
    BY <1>1, <1>2, <1>3, <2>1, RecordsOne DEF Recorded
  <2> QED BY <1>1, <1>3, <1>5, <2>1, <2>2 DEF Recorded
<1> QED BY <1>4, <1>5

LEMMA TakeRecorded == ASSUME BusInv, Recorded, RunnerTakes PROVE Recorded'
<1> DEFINE e == Head(queue)
<1>1. /\ TypeOK /\ QueueOrdered /\ queue # <<>> /\ e # Stop /\ queue' = Tail(queue)
      /\ runner = "running" /\ UNCHANGED log /\ (Record(e, log[e]) \/ UNCHANGED recVars)
  BY DEF BusInv, RunnerTakes
<1>2. /\ 1 \in DOMAIN queue /\ e = queue[1]
      /\ \A i \in DOMAIN queue' : /\ i \in Nat /\ i + 1 \in DOMAIN queue
                                  /\ 1 < i + 1 /\ queue'[i] = queue[i + 1]
  BY <1>1, Taken
<1>3. e \in Event /\ e \in 1..Len(log)
  BY <1>1, <1>2, BusAssumption DEF TypeOK, QueueOrdered, Event
<1>4. \A i \in DOMAIN recorded : recorded[i] < e
  BY <1>1, <1>2 DEF Recorded
<1>5. CASE UNCHANGED recVars
  <2>1. UNCHANGED <<recorded, truncated, heard>>
    BY <1>5 DEF recVars
  <2>2. \A i \in DOMAIN recorded' : \A k \in DOMAIN queue' : queue'[k] # Stop => recorded'[i] < queue'[k]
    BY <1>1, <1>2, <2>1 DEF Recorded
  <2>3. RecordingHonest'
    BY <1>1, <2>1 DEF Recorded, RecordingHonest, InRecording
  <2> QED BY <1>1, <2>1, <2>2, <2>3 DEF Recorded
<1>6. CASE Record(e, log[e])
  <2>1. /\ RecordingHonest' /\ heard' \subseteq heard \cup {e}
        /\ \A i \in DOMAIN recorded' :
             recorded'[i] = e \/ \E j \in DOMAIN recorded : recorded'[i] = recorded[j]
    BY <1>1, <1>3, <1>4, <1>6, RecordsOne DEF Recorded
  <2>2. \A k \in DOMAIN queue' : queue'[k] # Stop => e < queue'[k]
    BY <1>1, <1>2 DEF QueueOrdered
  <2>3. ASSUME NEW i \in DOMAIN recorded', NEW k \in DOMAIN queue', queue'[k] # Stop
        PROVE  recorded'[i] < queue'[k]
    <3>1. CASE recorded'[i] = e
      BY <2>2, <2>3, <3>1
    <3>2. ASSUME NEW j \in DOMAIN recorded, recorded'[i] = recorded[j]
          PROVE  recorded'[i] < queue'[k]
      BY <1>1, <1>2, <2>3, <3>2 DEF Recorded
    <3> QED BY <2>1, <3>1, <3>2
  <2>4. heard' \subseteq 1..Len(log')
    BY <1>1, <1>3, <2>1 DEF Recorded
  <2> QED BY <2>1, <2>3, <2>4 DEF Recorded
<1> QED BY <1>1, <1>5, <1>6

LEMMA StepRecorded == ASSUME BusInv, Recorded, [Next]_vars PROVE Recorded'
<1>0. TypeOK /\ RunnerState
  BY DEF BusInv
<1>1. ASSUME UNCHANGED <<recorded, truncated, heard, log>>,
             runner' = "running" => runner = "running",
             runner' = "running" => \A k \in DOMAIN queue' : queue'[k] # Stop =>
                                       \E m \in DOMAIN queue : queue'[k] = queue[m]
      PROVE  Recorded'
  BY <1>1 DEF Recorded, RecordingHonest, InRecording
<1>2. ASSUME NEW h \in Handler, NEW s \in Selector, Subscribe(h, s) \/ Unsubscribe(h, s)
      PROVE  Recorded'
  <2>1. UNCHANGED <<recorded, truncated, heard, log, queue, runner>>
    BY <1>2 DEF Subscribe, Unsubscribe, busVars, recVars
  <2> QED BY <1>1, <2>1
<1>3. CASE SwitchRecording
  <2>1. UNCHANGED <<log, queue, runner>>
    BY <1>3 DEF SwitchRecording, busVars
  <2>2. CASE UNCHANGED <<recorded, truncated, heard>>
    BY <1>1, <2>1, <2>2
  <2>3. CASE recorded' = <<>> /\ heard' = {}
    <3>1. RecordingHonest'
      BY <2>3, BusAssumption DEF RecordingHonest, InRecording
    <3> QED BY <2>1, <2>3, <3>1 DEF Recorded
  <2> QED BY <1>3, <2>2, <2>3 DEF SwitchRecording
<1>4. ASSUME UNCHANGED <<recorded, truncated, heard, log, queue>>, ~started PROVE Recorded'
  <2>1. DOMAIN queue' = {}
    BY <1>0, <1>4 DEF RunnerState
  <2> QED BY <1>4, <2>1 DEF Recorded, RecordingHonest, InRecording
<1>5. CASE Start
  BY <1>4, <1>5 DEF Start, recVars
<1>6. ASSUME NEW c \in Class, Publish(c) PROVE Recorded'
  <2>1. CASE logging /\ c \in Unsummarised
    <3>1. /\ UNCHANGED <<recorded, truncated, heard, log, queue>>
          /\ started => UNCHANGED runner
      BY <1>6, <2>1 DEF Publish, EnsureStarted, recVars
    <3> QED BY <1>1, <1>4, <3>1
  <2>2. CASE ~(logging /\ c \in Unsummarised)
    <3>1. Accept(c) /\ EnsureStarted /\ Len(log) < MaxEvents
      BY <1>6, <2>2 DEF Publish
    <3>2. Len(log) + 1 \in Event
      BY <1>0, <3>1, BusAssumption DEF TypeOK, Event
    <3> QED BY <3>1, <3>2, AcceptRecorded
  <2> QED BY <2>1, <2>2
<1>7. CASE RunnerStops
  <2>1. runner' = "done" /\ UNCHANGED <<recorded, truncated, heard, log>>
    BY <1>7 DEF RunnerStops, recVars
  <2> QED BY <1>1, <2>1
<1>8. ASSUME UNCHANGED <<recorded, truncated, heard, log, queue, runner>> PROVE Recorded'
  BY <1>1, <1>8
<1>9. ASSUME NEW t \in tasks, Begin(t) PROVE Recorded'
  BY <1>8, <1>9 DEF Begin, recVars
<1>10. ASSUME NEW t \in active, Finish(t) PROVE Recorded'
  BY <1>8, <1>10 DEF Finish, recVars
<1>11. CASE StopCall
  <2>1. queue' = Append(queue, Stop) /\ UNCHANGED <<recorded, truncated, heard, log, runner>>
    BY <1>11 DEF StopCall, recVars
  <2>2. \A k \in DOMAIN queue' : queue'[k] # Stop => k \in DOMAIN queue /\ queue'[k] = queue[k]
    BY <1>0, <2>1, Appended
  <2> QED BY <1>1, <2>1, <2>2
<1>12. ASSUME NEW k \in stopping, StopAfterRunner(k) \/ StopAfterHandlers(k) PROVE Recorded'
  <2>1. UNCHANGED <<recorded, truncated, heard, log>> /\ (runner' = "none" \/ UNCHANGED <<queue, runner>>)
    BY <1>12 DEF StopAfterRunner, StopAfterHandlers, Release, recVars
  <2> QED BY <1>1, <2>1
<1>13. CASE UNCHANGED vars
  BY <1>8, <1>13 DEF vars, recVars, busVars
<1> QED BY <1>2, <1>3, <1>5, <1>6, <1>7, <1>9, <1>10, <1>11, <1>12, <1>13, TakeRecorded DEF Next

(* The recording is bounded and in order and holds nothing that was not       *)
(* dispatched while it was on; unmarked, it lacks nothing dispatched since it *)
(* was last cleared but events whose summary raises, which the direct path    *)
(* dispatches and leaves out without a mark (bus.py _runner, publish,         *)
(* get_recording_stats).                                                      *)
THEOREM RecordingIsHonest == Spec => []RecordingHonest
<1>1. ASSUME Init PROVE Recorded
  <2>1. RecordingHonest
    BY <1>1, BusAssumption DEF Init, RecordingHonest, InRecording
  <2> QED BY <1>1, <2>1 DEF Init, Recorded
<1>2. BusInv /\ Recorded /\ [Next]_vars => Recorded'
  BY StepRecorded
<1>3. Recorded => RecordingHonest
  BY DEF Recorded
<1> QED BY <1>1, <1>2, <1>3, BusInvariant, PTL DEF Spec
-----------------------------------------------------------------------------
(* The counters, step by step: an event that joins the queue, and one that   *)
(* leaves it.                                                                *)
LEMMA QueuedLess ==
  ASSUME TypeOK, QueueOrdered, queue # <<>>, queue' = Tail(queue)
  PROVE  /\ Head(queue) = Stop => Queued' = Queued
         /\ Head(queue) # Stop => Head(queue) \in Queued /\ Queued' = Queued \ {Head(queue)}
<1>1. queue \in Seq(Event \cup {Stop}) /\ MaxEvents \in Nat
  BY BusAssumption DEF TypeOK
<1>2. /\ DOMAIN queue = 1..Len(queue) /\ Len(queue) \in Nat /\ Head(queue) = queue[1]
      /\ 1 \in DOMAIN queue /\ DOMAIN queue' = 1..(Len(queue) - 1)
      /\ \A i \in DOMAIN queue' : queue'[i] = queue[i + 1]
  BY <1>1
<1>3. \A e : (\E i \in DOMAIN queue' : queue'[i] = e) <=> (\E j \in DOMAIN queue : j # 1 /\ queue[j] = e)
  <2>1. \A i \in DOMAIN queue' : i + 1 \in DOMAIN queue /\ i + 1 # 1
    BY <1>2
  <2>2. \A j \in DOMAIN queue : j # 1 => j - 1 \in DOMAIN queue' /\ queue'[j - 1] = queue[j]
    BY <1>2
  <2>3. ASSUME NEW e, NEW i \in DOMAIN queue', queue'[i] = e
        PROVE  \E j \in DOMAIN queue : j # 1 /\ queue[j] = e
    BY <1>2, <2>1, <2>3
  <2>4. ASSUME NEW e, NEW j \in DOMAIN queue, j # 1, queue[j] = e
        PROVE  \E i \in DOMAIN queue' : queue'[i] = e
    BY <2>2, <2>4
  <2> QED BY <2>3, <2>4, Zenon
<1>4. ASSUME NEW j \in DOMAIN queue, j # 1, queue[j] = queue[1] PROVE queue[1] = Stop
  <2>1. 1 < j /\ queue[j] \in Int
    BY <1>1, <1>2, <1>4 DEF Event, Stop
  <2> QED BY <1>2, <1>4, <2>1 DEF QueueOrdered
<1>5. \A e : e \in Queued <=> e # Stop /\ \E j \in DOMAIN queue : queue[j] = e
  BY DEF Queued
<1>6. \A e : e \in Queued' <=> e # Stop /\ \E j \in DOMAIN queue' : queue'[j] = e
  BY DEF Queued
<1>7. CASE Head(queue) = Stop
  <2>1. \A e : e \in Queued' <=> e \in Queued
    BY <1>2, <1>3, <1>5, <1>6, <1>7, Zenon
  <2> QED BY <1>7, <2>1, Zenon
<1>8. CASE Head(queue) # Stop
  <2>1. Head(queue) \in Queued
    BY <1>2, <1>5, <1>8
  <2>2. \A e : e \in Queued' <=> e \in Queued /\ e # Head(queue)
    <3>1. ASSUME NEW e \in Queued' PROVE e \in Queued /\ e # Head(queue)
      <4>1. PICK j \in DOMAIN queue : j # 1 /\ queue[j] = e
        BY <1>3, <1>6
      <4> QED BY <1>2, <1>4, <1>5, <1>6, <1>8, <4>1
    <3>2. ASSUME NEW e \in Queued, e # Head(queue) PROVE e \in Queued'
      BY <1>2, <1>3, <1>5, <1>6, <3>2
    <3> QED BY <3>1, <3>2
  <2> QED BY <1>8, <2>1, <2>2
<1> QED BY <1>7, <1>8

LEMMA QueuedMore ==
  ASSUME TypeOK, NEW e \in Event \cup {Stop}, queue' = Append(queue, e)
  PROVE  Queued' = Queued \cup ({e} \ {Stop})
<1>1. /\ DOMAIN queue' = 1..(Len(queue) + 1) /\ DOMAIN queue = 1..Len(queue)
      /\ Len(queue) \in Nat /\ queue'[Len(queue) + 1] = e
      /\ \A i \in DOMAIN queue : queue'[i] = queue[i]
  BY Appended
<1>2. {queue'[i] : i \in DOMAIN queue'} = {queue[i] : i \in DOMAIN queue} \cup {e}
  BY <1>1
<1> QED BY <1>2 DEF Queued

LEMMA StepCounted == ASSUME BusInv, CountersAddUp, [Next]_vars PROVE CountersAddUp'
<1>0. /\ TypeOK /\ QueueOrdered /\ RunnerState
      /\ processed \in Nat /\ dropped \in Nat /\ Len(log) \in Nat /\ MaxEvents \in Nat
  BY BusAssumption DEF BusInv, TypeOK
<1>q. IsFiniteSet(Queued) /\ Cardinality(Queued) \in Nat
  BY <1>0, QueuedFinite
<1>1. ASSUME UNCHANGED <<log, processed, queue, dropped>> PROVE CountersAddUp'
  BY <1>1 DEF CountersAddUp, Queued
<1>2. ASSUME NEW h \in Handler, NEW s \in Selector, Subscribe(h, s) \/ Unsubscribe(h, s)
      PROVE  CountersAddUp'
  BY <1>1, <1>2 DEF Subscribe, Unsubscribe, busVars, histVars
<1>3. CASE SwitchRecording \/ Start \/ UNCHANGED vars
  BY <1>1, <1>3 DEF SwitchRecording, Start, vars, busVars, histVars
<1>4. CASE StopCall
  <2>1. queue' = Append(queue, Stop) /\ UNCHANGED <<log, processed, dropped>>
    BY <1>4 DEF StopCall, histVars
  <2>2. Queued' = Queued
    <3>1. Stop \in Event \cup {Stop}
      OBVIOUS
    <3>2. Queued' = Queued \cup ({Stop} \ {Stop})
      BY <1>0, <2>1, <3>1, QueuedMore
    <3> QED BY <3>2
  <2> QED BY <2>1, <2>2 DEF CountersAddUp
<1>5. ASSUME NEW c \in Class, Publish(c) PROVE CountersAddUp'
  <2>1. CASE logging /\ c \in Unsummarised
    BY <1>1, <1>5, <2>1 DEF Publish, histVars
  <2>2. CASE ~(logging /\ c \in Unsummarised)
    <3> DEFINE n == Len(log) + 1
    <3>1. Accept(c) /\ UNCHANGED dropped /\ Len(log) < MaxEvents
      BY <1>5, <2>2 DEF Publish, histVars
    <3>2. n \in Event /\ n # Stop /\ Len(log') = n
      BY <1>0, <3>1 DEF TypeOK, Event, Stop, Accept
    <3>3. CASE queue' = Append(queue, n) /\ processed' = processed
      <4>1. Queued' = Queued \cup {n}
        <5>1. n \in Event \cup {Stop}
          BY <3>2
        <5>2. Queued' = Queued \cup ({n} \ {Stop})
          BY <1>0, <3>3, <5>1, QueuedMore
        <5> QED BY <3>2, <5>2
      <4>2. n \notin Queued
        <5>1. \A i \in DOMAIN queue : queue[i] <= Len(log)
          BY <1>0 DEF QueueOrdered
        <5>2. ~(n <= Len(log))
          BY <1>0
        <5> QED BY <5>1, <5>2 DEF Queued
      <4>3. Cardinality(Queued \cup {n}) = Cardinality(Queued) + 1
        BY <1>q, <4>2, FS_AddElement
      <4> QED BY <1>0, <1>q, <3>1, <3>2, <3>3, <4>1, <4>3 DEF CountersAddUp
    <3>4. CASE queue' = queue /\ processed' = processed + 1
      <4>1. Queued' = Queued
        BY <3>4 DEF Queued
      <4> QED BY <1>0, <1>q, <3>1, <3>2, <3>4, <4>1 DEF CountersAddUp
    <3> QED BY <3>1, <3>3, <3>4 DEF Accept, Enqueue, DispatchNow
  <2> QED BY <2>1, <2>2
<1>6. CASE RunnerTakes
  <2>1. /\ queue # <<>> /\ queue' = Tail(queue) /\ Head(queue) # Stop /\ processed' = processed + 1
        /\ UNCHANGED <<log, dropped>>
    BY <1>6 DEF RunnerTakes, histVars
  <2>2. Head(queue) \in Queued /\ Queued' = Queued \ {Head(queue)}
    BY <1>0, <2>1, QueuedLess
  <2>3. Cardinality(Queued \ {Head(queue)}) = Cardinality(Queued) - 1
    BY <1>q, <2>2, FS_RemoveElement
  <2> QED BY <1>0, <1>q, <2>1, <2>2, <2>3 DEF CountersAddUp
<1>7. CASE RunnerStops
  <2>1. /\ queue # <<>> /\ Head(queue) = Stop /\ queue' = Tail(queue)
        /\ UNCHANGED <<log, processed, dropped>>
    BY <1>7 DEF RunnerStops, histVars
  <2>2. Queued' = Queued
    BY <1>0, <2>1, QueuedLess
  <2> QED BY <2>1, <2>2 DEF CountersAddUp
<1>8. ASSUME NEW t \in tasks, Begin(t) PROVE CountersAddUp'
  BY <1>1, <1>8 DEF Begin
<1>9. ASSUME NEW t \in active, Finish(t) PROVE CountersAddUp'
  BY <1>1, <1>9 DEF Finish, histVars
<1>10. ASSUME NEW k \in stopping, StopAfterRunner(k) \/ StopAfterHandlers(k) PROVE CountersAddUp'
  <2>1. UNCHANGED <<log, processed>> /\ (UNCHANGED <<queue, dropped>> \/ Release(k))
    BY <1>10 DEF StopAfterRunner, StopAfterHandlers
  <2>2. CASE Release(k)
    <3>1. queue' = <<>> /\ dropped' = dropped + Cardinality(Queued)
      BY <2>2 DEF Release
    <3>2. Queued' = {}
      BY <3>1 DEF Queued
    <3>3. Cardinality(Queued') = 0
      BY <3>2, FS_EmptySet
    <3> QED BY <1>0, <1>q, <2>1, <3>1, <3>3 DEF CountersAddUp
  <2> QED BY <1>1, <2>1, <2>2
<1> QED BY <1>2, <1>3, <1>4, <1>5, <1>6, <1>7, <1>8, <1>9, <1>10 DEF Next

(* At every moment each accepted event is queued, or was taken off the queue *)
(* or dispatched directly, or went with a queue that stop let go: through     *)
(* recordings, stops, restarts and crashes of the runner (bus.py publish,     *)
(* _runner, stop, get_stats).                                                 *)
THEOREM CountersAccount == Spec => []CountersAddUp
<1>1. ASSUME Init PROVE CountersAddUp
  <2>1. Queued = {} /\ Len(log) = 0 /\ processed = 0 /\ dropped = 0
    BY <1>1 DEF Init, Queued
  <2>2. Cardinality(Queued) = 0
    BY <2>1, FS_EmptySet
  <2> QED BY <2>1, <2>2 DEF CountersAddUp
<1>2. BusInv /\ CountersAddUp /\ [Next]_vars => CountersAddUp'
  BY StepCounted
<1> QED BY <1>1, <1>2, BusInvariant, PTL DEF Spec
=============================================================================
