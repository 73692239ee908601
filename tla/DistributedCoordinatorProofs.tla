-------------------- MODULE DistributedCoordinatorProofs --------------------
(***************************************************************************)
(* Proofs about the coordinator's barrier, for any number of workers and   *)
(* ticks: no registered worker is left behind, and none is removed without *)
(* cause.                                                                  *)
(***************************************************************************)
EXTENDS DistributedCoordinator, TLAPS

(* The books of the loop against what workers sent: it holds nothing that   *)
(* was not sent and, for the present tick, all that was not thrown away;    *)
(* nobody acknowledges a tick that has not come.                            *)
AcksKept ==
  /\ \A t \in Ticks : acks[t] \subseteq sent[t]
  /\ sent[tick] \ lost \subseteq acks[tick]
  /\ \A t \in Ticks : t > tick => sent[t] = {}

IInv == TypeOK /\ AcksKept /\ NobodyLeftBehind

LEMMA InitIInv == ASSUME CoordinatorAssumption, Init PROVE IInv
<1>1. 0 \in Ticks /\ 0 \in 0..MaxStarts
  BY DEF CoordinatorAssumption, Ticks
<1>2. TypeOK
  BY <1>1 DEF Init, TypeOK
<1>3. AcksKept
  BY <1>1 DEF Init, AcksKept
<1>4. NobodyLeftBehind
  BY DEF Init, NobodyLeftBehind
<1> QED BY <1>2, <1>3, <1>4 DEF IInv
-----------------------------------------------------------------------------
(* The calls and tasks that touch neither the clock nor the mail.           *)
OwnerOrTime == Start \/ StopCall \/ StopReturns \/ LoopEnds \/ KeepsWaiting \/ TimePasses

LEMMA OwnerOrTimeKeepsIInv ==
  ASSUME CoordinatorAssumption, IInv, OwnerOrTime
  PROVE  IInv' /\ workers' = workers
<1>1. UNCHANGED <<tick, pool, mail>>
  BY DEF OwnerOrTime, Start, StopCall, StopReturns, LoopEnds, KeepsWaiting, TimePasses,
         clock, owner, pool, mail
<1>2. at' \in {"off", "ready", "asleep", "advancing"} /\ waited' \in BOOLEAN
  BY DEF OwnerOrTime, Start, StopCall, StopReturns, LoopEnds, KeepsWaiting, TimePasses,
         clock, IInv, TypeOK, TimeIsUp
<1>0. running' \in BOOLEAN /\ starts' \in 0..MaxStarts
  <2>1. starts \in 0..MaxStarts /\ running \in BOOLEAN /\ MaxStarts \in Nat
    BY DEF IInv, TypeOK, CoordinatorAssumption
  <2>4. starts' \in 0..MaxStarts
    <3>1. CASE starts' = starts
      BY <2>1, <3>1
    <3>2. CASE Start
      BY <2>1, <3>2 DEF Start
    <3> QED BY <3>1, <3>2 DEF OwnerOrTime, StopCall, StopReturns, LoopEnds, KeepsWaiting,
                              TimePasses, owner
  <2>3. running' = running \/ running' = TRUE \/ running' = FALSE
    BY DEF OwnerOrTime, Start, StopCall, StopReturns, LoopEnds, KeepsWaiting, TimePasses, owner
  <2> QED BY <2>1, <2>3, <2>4
<1>3. TypeOK'
  BY <1>1, <1>2, <1>0 DEF IInv, TypeOK, pool, mail
<1>4. AcksKept' /\ NobodyLeftBehind'
  BY <1>1 DEF IInv, AcksKept, NobodyLeftBehind, pool, mail
<1> QED BY <1>1, <1>3, <1>4 DEF IInv, pool

LEMMA SpawnKeepsIInv ==
  ASSUME CoordinatorAssumption, IInv, NEW w \in Worker, SpawnWorker(w)
  PROVE  IInv' /\ workers \subseteq workers'
<1>1. tick \in Nat
  BY DEF IInv, TypeOK, Ticks, CoordinatorAssumption
<1>2. TypeOK'
  BY <1>1 DEF SpawnWorker, owner, clock, mail, IInv, TypeOK
<1>3. AcksKept'
  BY DEF SpawnWorker, clock, mail, IInv, AcksKept
<1>4. NobodyLeftBehind'
  <2> SUFFICES ASSUME NEW v \in workers', joined'[v] < tick' PROVE v \in sent'[tick' - 1]
    BY DEF NobodyLeftBehind
  <2>1. v # w
    BY <1>1 DEF SpawnWorker, clock, IInv, TypeOK
  <2>2. v \in workers /\ joined[v] < tick
    BY <2>1 DEF SpawnWorker, clock, IInv, TypeOK
  <2> QED BY <2>2 DEF SpawnWorker, clock, mail, IInv, NobodyLeftBehind
<1> QED BY <1>2, <1>3, <1>4 DEF IInv, SpawnWorker

LEMMA AcknowledgementKeepsIInv ==
  ASSUME CoordinatorAssumption, IInv,
         NEW w \in Worker, NEW t \in Ticks, HandleTickAcknowledgement(w, t)
  PROVE  IInv' /\ workers' = workers
<1>1. tick \in Nat /\ t \in Nat /\ tick \in Ticks /\ Ticks \subseteq Nat
  BY DEF IInv, TypeOK, Ticks, CoordinatorAssumption
<1>2. \A u \in Ticks : /\ acks'[u] = IF u = t THEN acks[u] \cup {w} ELSE acks[u]
                       /\ sent'[u] = IF u = t THEN sent[u] \cup {w} ELSE sent[u]
  BY DEF HandleTickAcknowledgement, IInv, TypeOK
<1>3. TypeOK'
  BY DEF HandleTickAcknowledgement, owner, clock, pool, IInv, TypeOK
<1>4. AcksKept'
  <2>1. tick' = tick /\ lost' = lost /\ t <= tick
    BY DEF HandleTickAcknowledgement, clock
  <2>2. \A u \in Ticks : acks'[u] \subseteq sent'[u]
    BY <1>2 DEF IInv, AcksKept
  <2>3. sent'[tick'] \ lost' \subseteq acks'[tick']
    BY <1>1, <1>2, <2>1 DEF IInv, AcksKept
  <2>4. ASSUME NEW u \in Ticks, u > tick' PROVE sent'[u] = {}
    <3>1. u # t /\ u > tick
      BY <1>1, <2>1, <2>4
    <3> QED BY <1>2, <3>1 DEF IInv, AcksKept
  <2> QED BY <2>2, <2>3, <2>4 DEF AcksKept
<1>5. NobodyLeftBehind'
  <2> SUFFICES ASSUME NEW v \in workers, joined[v] < tick PROVE v \in sent'[tick - 1]
    BY DEF HandleTickAcknowledgement, clock, pool, NobodyLeftBehind
  <2>1. v \in sent[tick - 1] /\ joined[v] \in Nat
    BY DEF IInv, NobodyLeftBehind, TypeOK
  <2>2. tick - 1 \in Ticks
    BY <1>1, <2>1 DEF Ticks
  <2> QED BY <1>2, <2>1, <2>2
<1> QED BY <1>3, <1>4, <1>5 DEF IInv, HandleTickAcknowledgement, pool

LEMMA RemovalKeepsIInv ==
  ASSUME CoordinatorAssumption, IInv, NEW gone, Removed(gone), UNCHANGED <<owner, tick, mail>>,
         at' \in {"off", "ready", "asleep", "advancing"}, waited' \in BOOLEAN
  PROVE  IInv'
<1>1. TypeOK'
  BY DEF Removed, owner, mail, IInv, TypeOK
<1>2. AcksKept'
  BY DEF mail, IInv, AcksKept
<1>3. NobodyLeftBehind'
  BY DEF Removed, mail, IInv, NobodyLeftBehind
<1> QED BY <1>1, <1>2, <1>3 DEF IInv

LEMMA HeartbeatKeepsIInv ==
  ASSUME IInv, NEW w \in Worker, HandleWorkerHeartbeat(w) \/ FallsSilent(w)
  PROVE  IInv' /\ workers' = workers
<1>1. UNCHANGED <<workers, spawned, joined, owner, clock, mail>> /\ silent' \subseteq workers
  BY DEF HandleWorkerHeartbeat, FallsSilent, IInv, TypeOK
<1>2. TypeOK'
  BY <1>1 DEF owner, clock, mail, IInv, TypeOK
<1>3. AcksKept' /\ NobodyLeftBehind'
  BY <1>1 DEF clock, mail, IInv, AcksKept, NobodyLeftBehind
<1> QED BY <1>1, <1>2, <1>3 DEF IInv
-----------------------------------------------------------------------------
(* The announcement of a tick: its acknowledgements are dropped and noted.  *)
LEMMA AnnouncedKeepsBooks ==
  ASSUME CoordinatorAssumption, IInv, NEW t \in Ticks, Announced(t)
  PROVE  /\ acks' \in [Ticks -> SUBSET Worker]
         /\ acks'[t] = {}
         /\ \A u \in Ticks : acks'[u] \subseteq acks[u]
  BY DEF IInv, TypeOK, Announced

LEMMA AnnouncementKeepsIInv ==
  ASSUME CoordinatorAssumption, IInv, AdvanceAnnounced
  PROVE  IInv' /\ workers' = workers
<1>1. tick \in Ticks /\ Announced(tick)
  BY DEF IInv, TypeOK, AdvanceAnnounced
<1>2. /\ acks' \in [Ticks -> SUBSET Worker] /\ acks'[tick] = {}
      /\ \A u \in Ticks : acks'[u] \subseteq acks[u]
  BY <1>1, AnnouncedKeepsBooks
<1>3. lost' = lost \cup acks[tick] /\ tick' = tick /\ sent' = sent /\ workers' = workers
      /\ UNCHANGED <<owner, pool>>
  BY DEF AdvanceAnnounced, pool
<1>4. TypeOK'
  BY <1>1, <1>2, <1>3 DEF Announced, owner, pool, IInv, TypeOK
<1>5. AcksKept'
  BY <1>1, <1>2, <1>3 DEF IInv, AcksKept
<1>6. NobodyLeftBehind'
  BY <1>3 DEF pool, IInv, NobodyLeftBehind
<1> QED BY <1>3, <1>4, <1>5, <1>6 DEF IInv

(* An advance: all registered workers have acknowledged the tick it leaves, *)
(* and nobody the one it enters.                                            *)
LEMMA AdvanceKeepsIInv ==
  ASSUME CoordinatorAssumption, IInv, AdvanceTick
  PROVE  IInv' /\ workers' = workers
<1>1. tick \in Ticks /\ tick \in Nat /\ tick + 1 \in Ticks /\ Ticks \subseteq Nat
  BY DEF IInv, TypeOK, AdvanceTick, Ticks, CoordinatorAssumption
<1>2. tick' = tick + 1 /\ lost' = {} /\ sent' = sent /\ UNCHANGED <<owner, pool>>
      /\ workers = acks[tick]
  BY DEF AdvanceTick, Complete
<1>3. /\ acks' \in [Ticks -> SUBSET Worker]
      /\ \A u \in Ticks : acks'[u] \subseteq acks[u]
      /\ at' \in {"asleep", "advancing"} /\ waited' \in BOOLEAN
  <2>1. CASE Announced(tick + 1)
    BY <1>1, <2>1, AnnouncedKeepsBooks DEF Announced
  <2>2. CASE at' = "advancing" /\ UNCHANGED <<acks, waited>>
    BY <2>2 DEF IInv, TypeOK
  <2> QED BY <2>1, <2>2 DEF AdvanceTick
<1>4. TypeOK'
  BY <1>1, <1>2, <1>3 DEF owner, pool, IInv, TypeOK
<1>5. sent[tick + 1] = {}
  BY <1>1 DEF IInv, AcksKept
<1>6. AcksKept'
  <2>1. \A u \in Ticks : acks'[u] \subseteq sent'[u]
    BY <1>2, <1>3 DEF IInv, AcksKept
  <2>2. sent'[tick'] \ lost' \subseteq acks'[tick']
    BY <1>2, <1>5
  <2>3. \A u \in Ticks : u > tick' => sent'[u] = {}
    BY <1>1, <1>2 DEF IInv, AcksKept
  <2> QED BY <2>1, <2>2, <2>3 DEF AcksKept
<1>7. NobodyLeftBehind'
  <2>1. workers \subseteq sent[tick]
    BY <1>1, <1>2 DEF IInv, AcksKept
  <2>2. tick' - 1 = tick
    BY <1>1, <1>2
  <2> QED BY <1>2, <2>1, <2>2 DEF pool, NobodyLeftBehind
<1> QED BY <1>2, <1>4, <1>6, <1>7 DEF IInv, pool
-----------------------------------------------------------------------------
(* What one step may do to the registry. *)
ForCause ==
  \A w \in workers \ workers' :
    \/ w \in silent
    \/ waited /\ w \notin sent[tick] \ lost

LEMMA StepKeepsIInv ==
  ASSUME CoordinatorAssumption, IInv, [Next]_vars
  PROVE  IInv' /\ ForCause
<1>1. CASE OwnerOrTime
  BY <1>1, OwnerOrTimeKeepsIInv DEF ForCause
<1>2. ASSUME NEW w \in Worker, SpawnWorker(w) PROVE IInv' /\ ForCause
  BY <1>2, SpawnKeepsIInv DEF ForCause
<1>3. ASSUME NEW w \in Worker, HandleWorkerHeartbeat(w) \/ FallsSilent(w)
      PROVE  IInv' /\ ForCause
  BY <1>3, HeartbeatKeepsIInv DEF ForCause
<1>4. ASSUME NEW w \in Worker, NEW t \in Ticks, HandleTickAcknowledgement(w, t)
      PROVE  IInv' /\ ForCause
  BY <1>4, AcknowledgementKeepsIInv DEF ForCause
<1>5. CASE MonitorWorkerHealth
  <2>1. Removed(silent) /\ UNCHANGED <<owner, clock, mail>>
    BY <1>5 DEF MonitorWorkerHealth
  <2>2. IInv'
    BY <2>1, RemovalKeepsIInv DEF clock, IInv, TypeOK
  <2> QED BY <2>1, <2>2 DEF Removed, ForCause
<1>6. CASE AckTimeout
  <2>1. Removed(MissingAcks) /\ waited
    BY <1>6 DEF AckTimeout, TimeIsUp
  <2>2. IInv'
    BY <1>6, <2>1, RemovalKeepsIInv DEF AckTimeout
  <2>3. \A w \in workers \ workers' : w \notin acks[tick]
    BY <2>1 DEF Removed, MissingAcks
  <2> QED BY <2>1, <2>2, <2>3 DEF IInv, AcksKept, ForCause
<1>7. CASE AdvanceTick
  BY <1>7, AdvanceKeepsIInv DEF ForCause
<1>8. CASE AdvanceAnnounced
  BY <1>8, AnnouncementKeepsIInv DEF ForCause
<1>9. CASE UNCHANGED vars
  BY <1>9 DEF vars, IInv, TypeOK, AcksKept, NobodyLeftBehind, ForCause
<1> QED BY <1>1, <1>2, <1>3, <1>4, <1>5, <1>6, <1>7, <1>8, <1>9
        DEF Next, SyncStep, OwnerOrTime
-----------------------------------------------------------------------------
(* The inductive invariant of the coordinator: types, the books of the      *)
(* acknowledgements, the barrier.                                           *)
THEOREM CoordinatorInvariant == Spec => []IInv
<1>1. Init => IInv
  BY InitIInv, CoordinatorAssumption
<1>2. IInv /\ [Next]_vars => IInv'
  BY StepKeepsIInv, CoordinatorAssumption
<1> QED BY <1>1, <1>2, PTL DEF Spec

(* The barrier: at any tick, every registered worker that was there at the  *)
(* tick before acknowledged it (coordinate_tick_progression).               *)
THEOREM BarrierHolds == Spec => []NobodyLeftBehind
<1>1. IInv => NobodyLeftBehind
  BY DEF IInv
<1> QED BY <1>1, CoordinatorInvariant, PTL

(* No worker is removed without cause, whatever the time-out, the monitor,  *)
(* late messages and restarts do (coordinate_tick_progression,              *)
(* monitor_worker_health).                                                  *)
THEOREM RemovalHasCause == Spec => RemovedForCause
<1>1. IInv /\ [Next]_vars => [ForCause]_vars
  BY StepKeepsIInv, CoordinatorAssumption
<1> QED BY <1>1, CoordinatorInvariant, PTL DEF Spec, RemovedForCause, ForCause

-----------------------------------------------------------------------------
(* The refinement: every step of the coordinator is a step of Barrier, or   *)
(* changes nothing Barrier speaks of.                                       *)
LEMMA InitIsBarrierInit == ASSUME CoordinatorAssumption, Init PROVE B!Init
<1>1. 0 \in Ticks
  BY DEF CoordinatorAssumption, Ticks
<1> QED BY <1>1 DEF Init, B!Init

LEMMA StepIsBarrierStep ==
  ASSUME CoordinatorAssumption, IInv, [Next]_vars PROVE [B!Next]_(B!barrier)
<1> USE DEF B!barrier
<1>0. /\ tick \in Ticks /\ sent \in [Ticks -> SUBSET Worker] /\ workers \subseteq Worker
      /\ \A t \in Ticks : acks[t] \subseteq sent[t]
      /\ \A t \in Ticks : t > tick => sent[t] = {}
  BY DEF IInv, TypeOK, AcksKept
<1>1. CASE Start \/ StopCall \/ StopReturns \/ LoopEnds \/ KeepsWaiting
           \/ AdvanceAnnounced \/ TimePasses
  BY <1>1 DEF Start, StopCall, StopReturns, LoopEnds, KeepsWaiting, AdvanceAnnounced,
              TimePasses, owner, clock, pool, mail
<1>2. ASSUME NEW w \in Worker, SpawnWorker(w) PROVE [B!Next]_(B!barrier)
  <2>1. w \notin workers
    BY <1>2 DEF SpawnWorker, IInv, TypeOK
  <2>2. B!Join(w)
    BY <1>2, <2>1 DEF SpawnWorker, B!Join, clock, mail
  <2> QED BY <2>2 DEF B!Next
<1>3. ASSUME NEW w \in Worker, HandleWorkerHeartbeat(w) \/ FallsSilent(w)
      PROVE [B!Next]_(B!barrier)
  BY <1>3 DEF HandleWorkerHeartbeat, FallsSilent, clock, mail
<1>4. ASSUME NEW w \in Worker, NEW t \in Ticks, HandleTickAcknowledgement(w, t)
      PROVE [B!Next]_(B!barrier)
  <2>1. workers' = workers /\ tick' = tick /\ sent' = [sent EXCEPT ![t] = @ \cup {w}]
    BY <1>4 DEF HandleTickAcknowledgement, clock, pool
  <2>2. CASE t = tick
    <3>1. sent'[tick'] = sent[tick] \cup {w}
      BY <1>0, <2>1, <2>2
    <3>2. B!Arrive(w)
      BY <2>1, <3>1 DEF B!Arrive
    <3> QED BY <3>2 DEF B!Next
  <2>3. CASE t # tick
    BY <1>0, <2>1, <2>3
  <2> QED BY <2>2, <2>3
<1>5. ASSUME NEW gone, gone \subseteq Worker, Removed(gone), tick' = tick, sent' = sent
      PROVE [B!Next]_(B!barrier)
  <2>1. B!Leave(gone)
    BY <1>5 DEF Removed, B!Leave
  <2> QED BY <1>5, <2>1 DEF B!Next
<1>6. CASE MonitorWorkerHealth
  <2>1. silent \subseteq Worker
    BY <1>0 DEF IInv, TypeOK
  <2> QED BY <1>5, <1>6, <2>1 DEF MonitorWorkerHealth, clock, mail
<1>7. CASE AckTimeout
  <2>1. MissingAcks \subseteq Worker
    BY <1>0 DEF MissingAcks
  <2> QED BY <1>5, <1>7, <2>1 DEF AckTimeout, mail
<1>8. CASE AdvanceTick
  <2>1. /\ tick' = tick + 1 /\ tick < MaxTick /\ workers' = workers /\ sent' = sent
        /\ workers # {} /\ acks[tick] = workers
    BY <1>8 DEF AdvanceTick, Complete, pool
  <2>2. workers \subseteq sent[tick]
    BY <1>0, <2>1
  <2>3. sent'[tick'] = {}
    <3>1. tick + 1 \in Ticks /\ tick + 1 > tick
      BY <1>0, <2>1, CoordinatorAssumption DEF Ticks, CoordinatorAssumption
    <3> QED BY <1>0, <2>1, <3>1
  <2>4. B!Advance
    BY <2>1, <2>2, <2>3 DEF B!Advance
  <2> QED BY <2>4 DEF B!Next
<1>9. CASE UNCHANGED vars
  BY <1>9 DEF vars
<1> QED BY <1>1, <1>2, <1>3, <1>4, <1>6, <1>7, <1>8, <1>9 DEF Next, SyncStep

(* The coordinator implements a barrier, for any number of workers, ticks    *)
(* and restarts, whatever messages come late or twice and whoever is removed *)
(* (coordinate_tick_progression, monitor_worker_health).                     *)
THEOREM IsABarrier == Spec => ImplementsBarrier
<1>1. Init => B!Init
  BY InitIsBarrierInit, CoordinatorAssumption
<1>2. IInv /\ [Next]_vars => [B!Next]_(B!barrier)
  BY StepIsBarrierStep, CoordinatorAssumption
<1> QED BY <1>1, <1>2, CoordinatorInvariant, PTL DEF Spec, ImplementsBarrier, B!Spec
=============================================================================
