---------------------------- MODULE AgentManager ----------------------------
(***************************************************************************)
(* AgentManager and AgentRegistry: on every tick the active agents first   *)
(* consolidate their memory of the tick before and are then asked for a    *)
(* decision.  Every tick has a handler task of its own, and a handler      *)
(* waits for memories and for decisions: handlers of several ticks are     *)
(* under way at once, and share the tick counter, the registry, the tool   *)
(* calls and the mark of the last consolidation.  Registering and          *)
(* deregistering do not suspend and may come at any of those waits.        *)
(***************************************************************************)
EXTENDS Integers, FiniteSets

CONSTANTS Agent,      \* ids agents are registered under
          Threshold,  \* AGENT_TIMEOUT_THRESHOLD
          Keep,       \* AGENT_EVENT_HISTORY_TICKS
          MaxTick,    \* bound: the last tick published
          MaxGen      \* bound: registrations

ASSUME AgentAssumption ==
  Threshold \in Nat /\ Keep \in Nat \ {0} /\ MaxTick \in Nat /\ MaxGen \in Nat

Ticks == 0..MaxTick
Gens  == 1..MaxGen

VARIABLES
  registry,  \* AgentRegistry._agents; gen tells registrations of one id apart
  gens,      \* registrations so far
  started,   \* subscribed to ticks
  starting,  \* registrations whose runner start has yet to initialise
  tick,      \* _current_tick
  buffered,  \* the ticks _events_by_tick has an entry for
  toolCalls, \* _tool_calls_by_tick: by tick and agent, whose answer is kept
  last,      \* _last_memory_consolidation_tick
  phase,     \* where the handler of each tick is
  asked,     \* the registrations a handler waits for or has yet to deal with
  about,     \* the tick of the context a handler asks its decisions with
  newest     \* history: by tick asked about and agent, the last answer dealt with

vars == <<registry, gens, started, starting, tick, buffered, toolCalls, last, phase, asked,
          about, newest>>
books    == <<tick, buffered, toolCalls, last>>
handlers == <<phase, asked, about>>
roster   == <<registry, gens>>
owner    == <<started, starting>>

\* An answer with calls is named by the handler that dealt with it; an empty
\* answer, and the absence of one, leave nothing to remember.
Nothing == -1
Entries == Ticks \cup {Nothing}
Blank   == [t \in Ticks |-> [a \in Agent |-> Nothing]]

Absent == [gen |-> 0, runner |-> FALSE, active |-> FALSE, timeouts |-> 0]

Registered(a) == registry[a] # Absent
Active   == {a \in Agent : registry[a].active}     \* active_agents
Group(S) == {<<a, registry[a].gen>> : a \in S}

Init ==
  /\ registry = [a \in Agent |-> Absent] /\ gens = 0
  /\ started = FALSE /\ starting = {}
  /\ tick = 0 /\ buffered = {} /\ last = -1
  /\ toolCalls = Blank /\ newest = Blank
  /\ phase = [t \in Ticks |-> "none"] /\ asked = [t \in Ticks |-> {}]
  /\ about = [t \in Ticks |-> t]

-----------------------------------------------------------------------------
(* add_agent writes over whatever the id has.                              *)
AddAgent(a, ok) ==
  /\ gens < MaxGen
  /\ gens' = gens + 1
  /\ registry' = [registry EXCEPT ![a] =
                    [gen |-> gens + 1, runner |-> ok, active |-> ok, timeouts |-> 0]]
  /\ UNCHANGED <<owner, books, handlers, newest>>

\* register_agent: a registration that failed has no runner and may be
\* replaced, any other stands.
Register(a, ok) == ~registry[a].runner /\ AddAgent(a, ok)

\* create_agent asks nobody: it replaces a live registration as well.
CreateAgent(a) == AddAgent(a, TRUE)

\* deregister_agent, remove_agent: what the agent was asked goes on.
Deregister(a) ==
  /\ Registered(a)
  /\ registry' = [registry EXCEPT ![a] = Absent]
  /\ UNCHANGED <<gens, owner, books, handlers, newest>>

\* mark_agent_as_failed, and mark_agent_timeout: by id, whatever now has it.
MarkFailed(a) ==
  registry' = IF Registered(a) THEN [registry EXCEPT ![a].active = FALSE] ELSE registry

Limit == IF Threshold > 1 THEN Threshold ELSE 1
Expired(count)    == count >= Limit
Charged(r) ==
  LET c == [r EXCEPT !.timeouts = @ + 1]
  IN  IF Expired(c.timeouts) THEN [c EXCEPT !.active = FALSE] ELSE c
MarkTimeout(a) ==
  registry' = IF Registered(a) THEN [registry EXCEPT ![a] = Charged(registry[a])] ELSE registry

-----------------------------------------------------------------------------
(* start subscribes first and initialises the runners then. *)
Start ==
  /\ ~started /\ starting = {}
  /\ started' = TRUE
  /\ starting' = Group({a \in Agent : registry[a].runner})
  /\ UNCHANGED <<roster, books, handlers, newest>>

\* A runner that cannot be initialised is marked; any other exception ends
\* the call with the remaining runners as they are.
Initialises(a, g) ==
  /\ <<a, g>> \in starting
  /\ \/ starting' = starting \ {<<a, g>>} /\ (UNCHANGED registry \/ MarkFailed(a))
     \/ starting' = {} /\ UNCHANGED registry
  /\ UNCHANGED <<started, gens, books, handlers, newest>>

Stop ==
  /\ started /\ starting = {}
  /\ started' = FALSE
  /\ UNCHANGED <<starting, roster, books, handlers, newest>>

-----------------------------------------------------------------------------
(* run_decision_cycle up to its gather.  Whoever is active has a runner. *)
Asks(n, now) ==
  /\ about' = [about EXCEPT ![n] = now]
  /\ asked' = [asked EXCEPT ![n] = Group(Active)]
  /\ phase' = [phase EXCEPT ![n] = IF Active = {} THEN "done" ELSE "deciding"]

Kept(n) == {t \in buffered : t >= n - Keep}

\* _maybe_consolidate_memory_for_previous_tick up to its gather.
Consolidates(n) ==
  /\ toolCalls' = [t \in Ticks |-> IF t \in buffered \ Kept(n) THEN Blank[t] ELSE toolCalls[t]]
  /\ buffered' = Kept(n) \cup {n}
  /\ IF n - 1 \in Kept(n) /\ Active # {}
     THEN /\ phase' = [phase EXCEPT ![n] = "gathering"]
          /\ asked' = [asked EXCEPT ![n] = Group(Active)]
          /\ UNCHANGED <<last, about>>
     ELSE last' = n - 1 /\ Asks(n, n)

Due(n) == n > 0 /\ n - 1 > last

\* The handler runs to its first wait; the tick's own event is buffered next.
TickArrives(n) ==
  /\ started /\ phase[n] = "none" /\ \A m \in 0..(n - 1) : phase[m] # "none"
  /\ tick' = n
  /\ \/ Due(n) /\ Consolidates(n)
     \/ ~Due(n) /\ Asks(n, n) /\ buffered' = buffered \cup {n} /\ UNCHANGED <<toolCalls, last>>
  /\ UNCHANGED <<roster, owner, newest>>

CallsToRemember(n, a) == toolCalls[n - 1][a]
AskedBy(n) == {a \in Agent : \E g \in Gens : <<a, g>> \in asked[n]}

\* The tasks of the gather begin: each reads its agent's calls of the tick
\* before and hands them to its runner.
Recalls(n) ==
  /\ phase[n] = "gathering"
  /\ phase' = [phase EXCEPT ![n] = "remembering"]
  /\ UNCHANGED <<asked, about, newest, roster, owner, books>>

RemembersBug(n) ==       \* the context is of the tick the handler began with
  /\ phase[n] = "remembering"
  /\ last' = n - 1
  /\ Asks(n, n)
  /\ UNCHANGED <<tick, buffered, toolCalls, newest, roster, owner>>
\* The runners are done; the decision cycle looks at the tick counter itself.
Remembers(n) ==
  /\ phase[n] = "remembering"
  /\ last' = n - 1
  /\ Asks(n, tick)
  /\ UNCHANGED <<tick, buffered, toolCalls, newest, roster, owner>>

Answered(n) ==
  /\ phase[n] = "deciding"
  /\ phase' = [phase EXCEPT ![n] = "acting"]
  /\ UNCHANGED <<asked, about, roster, owner, books, newest>>

-----------------------------------------------------------------------------
(* _process_decision_result, once for every agent asked. *)
DealtWith(n, a, g) ==
  /\ phase[n] = "acting" /\ <<a, g>> \in asked[n]
  /\ asked' = [asked EXCEPT ![n] = @ \ {<<a, g>>}]
  /\ phase' = [phase EXCEPT ![n] = IF asked[n] = {<<a, g>>} THEN "done" ELSE @]
  /\ UNCHANGED <<about, gens, owner, tick, buffered, last>>

ActsBug(n, a, g, calls) ==   \* the calls are kept under the present tick
  /\ DealtWith(n, a, g)
  /\ toolCalls' = [toolCalls EXCEPT ![tick][a] = calls]
  /\ newest' = [newest EXCEPT ![about[n]][a] = calls]
  /\ UNCHANGED registry
\* The decision event and the commands are published, registered or not, and
\* the calls take the place of any the agent has under that tick.  An error
\* that _get_agent_decision swallows is an empty answer.
Acts(n, a, g, calls) ==
  /\ DealtWith(n, a, g)
  /\ toolCalls' = [toolCalls EXCEPT ![about[n]][a] = calls]
  /\ newest' = [newest EXCEPT ![about[n]][a] = calls]
  /\ UNCHANGED registry

TimesOut(n, a, g) ==
  /\ DealtWith(n, a, g)
  /\ MarkTimeout(a)
  /\ UNCHANGED <<toolCalls, newest>>

\* Any other exception than those _get_agent_decision turns into an answer.
Fails(n, a, g) ==
  /\ DealtWith(n, a, g)
  /\ MarkFailed(a)
  /\ UNCHANGED <<toolCalls, newest>>

\* A result the decision event cannot carry (parameters json cannot write, no
\* list at all), or one whose dispatch raises what is not caught there, ends the
\* cycle, and this and the other results are lost.
Raises(n) ==
  /\ phase[n] = "acting"
  /\ phase' = [phase EXCEPT ![n] = "done"] /\ asked' = [asked EXCEPT ![n] = {}]
  /\ UNCHANGED <<about, roster, owner, books, newest>>

HandlerStep(n) ==
  \/ Recalls(n) \/ Remembers(n) \/ Answered(n) \/ Raises(n)
  \/ \E a \in Agent, g \in Gens : TimesOut(n, a, g) \/ Fails(n, a, g)
  \/ \E a \in Agent, g \in Gens, calls \in {n, Nothing} : Acts(n, a, g, calls)

Next ==
  \/ \E a \in Agent, ok \in BOOLEAN : Register(a, ok)
  \/ \E a \in Agent : CreateAgent(a) \/ Deregister(a)
  \/ \E a \in Agent, g \in Gens : Initialises(a, g)
  \/ Start \/ Stop
  \/ \E n \in Ticks : TickArrives(n) \/ HandlerStep(n)

Spec == Init /\ [][Next]_vars

-----------------------------------------------------------------------------
\* The type of every variable.
TypeOK ==
  /\ registry \in [Agent -> [gen : 0..MaxGen, runner : BOOLEAN, active : BOOLEAN,
                             timeouts : Nat]]
  /\ gens \in 0..MaxGen /\ started \in BOOLEAN /\ starting \subseteq Agent \X Gens
  /\ tick \in Ticks /\ buffered \subseteq Ticks /\ last \in -1..MaxTick
  /\ toolCalls \in [Ticks -> [Agent -> Entries]]
  /\ phase \in [Ticks -> {"none", "gathering", "remembering", "deciding", "acting", "done"}]
  /\ asked \in [Ticks -> SUBSET (Agent \X Gens)] /\ about \in [Ticks -> Ticks]
  /\ newest \in [Ticks -> [Agent -> Entries]]

HasAsked(n) == phase[n] \in {"deciding", "acting", "done"}

\* Agents live through the days in order: once a handler has asked about a day,
\* no handler asks about an earlier one, however late it comes back from its
\* wait for memories (_build_shared_context reads the counter anew).
QuestionsInOrder ==
  [][\A n \in Ticks : ~HasAsked(n) /\ HasAsked(n)' =>
       \A m \in Ticks : HasAsked(m) => about[m] <= about'[n]]_vars

\* What an agent is given to remember of a tick within the retention window is
\* the last it did then: whatever handlers are still at work, and whichever of
\* them asked about that tick, nothing is trimmed, misfiled or out of date.
MemoryComplete ==
  [][\A n \in Ticks : Recalls(n) /\ n - 1 >= tick - Keep =>
       \A a \in AskedBy(n) : CallsToRemember(n, a) = newest[n - 1][a]]_vars

\* One decision per simulated day, sequentially (submission_kit.md): no agent is
\* asked by two handlers for its decision of one tick (run_decision_cycle).
OneDecisionPerDay ==
  \A m, n \in Ticks :
    /\ {phase[m], phase[n]} \subseteq {"deciding", "acting"}
    /\ about[m] = about[n] /\ AskedBy(m) \cap AskedBy(n) # {}
    => m = n
=============================================================================
