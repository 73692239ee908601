------------------------------- MODULE Budget -------------------------------
(***************************************************************************)
(* Metering of model calls: BudgetEnforcer with a dictionary configuration,*)
(* and the two ways to it.  A bot asks the AgentGateway before the call and*)
(* reports after it; the in-loop benchmark only reports, and stops when it *)
(* is told that a limit is exceeded.                                       *)
(*                                                                         *)
(* Nothing in the enforcer suspends: its only await is publish on a bus    *)
(* that is running.  The model call between preprocess_request and         *)
(* postprocess_response does, so that an agent whose ticks overlap may     *)
(* have several calls in flight, all admitted on the same counters.        *)
(*                                                                         *)
(* usage[agent][window] holds counters of the agent and, per tool, of the  *)
(* tool: used[agent][account][window][metric] has both, the agent's own    *)
(* under the account Overall.  A limit is the set of its values: empty if  *)
(* none is configured.                                                     *)
(***************************************************************************)
EXTENDS Integers, FiniteSetsExt

CONSTANTS Gated,        \* agents that go through the gateway
          Direct,       \* agents that only report
          Tools,
          Overall,      \* the account every call is charged to
          Prompts,      \* token counts of prompts
          Completions,  \* token counts of responses
          LeastPrompt, MostPrompt, MostResponse, \* their extremes
          TokensPerCent,\* 1000 / (token_cost_per_1k * 100)
          Limits,       \* limits of an account, window and metric
          Slots         \* calls an agent may have in flight

Agents == Gated \cup Direct
Accounts == Tools \cup {Overall}
Windows == {"tick", "run"}
Metrics == {"calls", "tokens", "cost"}

ASSUME BudgetAssumption ==
         /\ Gated \cap Direct = {} /\ Overall \notin Tools /\ IsFiniteSet(Tools)
         /\ LeastPrompt \in Nat /\ MostPrompt \in Nat /\ MostResponse \in Nat
         /\ LeastPrompt <= MostPrompt
         /\ Prompts \subseteq LeastPrompt..MostPrompt /\ Completions \subseteq 0..MostResponse
         /\ TokensPerCent \in Nat \ {0} /\ Slots \in Nat \ {0}
         /\ Limits \in [Accounts -> [Windows -> [Metrics -> SUBSET Nat]]]
         /\ \A w \in Windows : Limits[Overall][w]["calls"] = {} \* there is no such limit

VARIABLES used,     \* usage
          inflight, \* calls admitted and not answered, per agent
          halted,   \* agents that gave up when told of an exceeded limit
          listening \* start has subscribed the enforcer to TickEvent

meteringVars == <<used, inflight, halted, listening>>

Zero == [acc \in Accounts |-> [w \in Windows |-> [m \in Metrics |-> 0]]]

MeteringInit ==
  /\ used = [a \in Agents |-> Zero]
  /\ inflight = [a \in Agents |-> {}]
  /\ halted = {} /\ listening = FALSE

-----------------------------------------------------------------------------
Fits(a, acc, w, m, n) == \A lim \in Limits[acc][w][m] : used[a][acc][w][m] + n <= lim

(* Variants named ...Bug are the mistakes the properties are there to      *)
(* catch; no specification uses them.                                      *)
CanAffordBug(a, t, prompt) ==
  /\ Fits(a, Overall, "tick", "tokens", prompt) /\ Fits(a, Overall, "tick", "cost", 0)
  /\ Fits(a, t, "tick", "calls", 1) /\ Fits(a, t, "tick", "tokens", prompt)
\* The estimate is the prompt alone, its cost is taken for zero, and the cost
\* limits of a tool are not looked at.
CanAfford(a, t, prompt) ==
  \A w \in Windows :
    /\ Fits(a, Overall, w, "tokens", prompt) /\ Fits(a, Overall, w, "cost", 0)
    /\ Fits(a, t, w, "calls", 1) /\ Fits(a, t, w, "tokens", prompt)

\* Whole cents: a call cheaper than one cent costs nothing.
CostOf(tokens) == tokens \div TokensPerCent

Charge(tokens) == [calls |-> 1, tokens |-> tokens, cost |-> CostOf(tokens)]

UpdateCountersBug(a, t, tokens) ==
  used' = [used EXCEPT ![a] =
    [acc \in Accounts |-> [w \in Windows |-> [m \in Metrics |->
      used[a][acc][w][m]
        + IF acc = t \/ (acc = Overall /\ m # "calls") THEN Charge(tokens)[m] ELSE 0]]]]
UpdateCounters(a, t, tokens) ==
  used' = [used EXCEPT ![a] =
    [acc \in Accounts |-> [w \in Windows |-> [m \in Metrics |->
      used[a][acc][w][m] + IF acc \in {t, Overall} THEN Charge(tokens)[m] ELSE 0]]]]

\* What meter_api_call finds after the update: all limits of the tool and the
\* token and cost limits of the agent.
Exceeded(a, t) ==
  \E acc \in {t, Overall}, w \in Windows, m \in Metrics :
    \E lim \in Limits[acc][w][m] : used[a][acc][w][m] > lim

-----------------------------------------------------------------------------
\* A call that is refused leaves everything as it is.
PreprocessRequest(a, t, prompt) ==
  /\ CanAfford(a, t, prompt)
  /\ \E slot \in (1..Slots) \ {r.slot : r \in inflight[a]} :
       inflight' = [inflight EXCEPT ![a] = @ \cup {[slot |-> slot, tool |-> t, prompt |-> prompt]}]
  /\ UNCHANGED <<used, halted, listening>>

CallOver(a, r) == inflight' = [inflight EXCEPT ![a] = @ \ {r}]

\* A bot drops the answer of meter_api_call.
PostprocessResponse(a, r, completion) ==
  /\ CallOver(a, r)
  /\ UpdateCounters(a, r.tool, r.prompt + completion)
  /\ UNCHANGED <<halted, listening>>

\* The model call, or reading its response, raises: nothing is reported.
CallFails(a, r) == CallOver(a, r) /\ UNCHANGED <<used, halted, listening>>

\* The in-loop benchmark reports and breaks out of its loop if told so.
MeterDirectly(a, t, prompt, completion) ==
  /\ a \notin halted
  /\ UpdateCounters(a, t, prompt + completion)
  /\ halted' = IF Exceeded(a, t)' THEN halted \cup {a} ELSE halted
  /\ UNCHANGED <<inflight, listening>>

StartListening == ~listening /\ listening' = TRUE /\ UNCHANGED <<used, inflight, halted>>

Reset(a, window) == [acc \in Accounts |-> [used[a][acc] EXCEPT ![window] = Zero[acc][window]]]

ResetTickBug(a) == [used[a] EXCEPT ![Overall]["tick"] = Zero[Overall]["tick"]]
ResetTick(a) == Reset(a, "tick")

Tick ==
  /\ listening
  /\ used' = [a \in Agents |-> ResetTick(a)]
  /\ UNCHANGED <<inflight, halted, listening>>

\* For one agent or for all of them; the counters of the tick stay.
ResetRun(S) ==
  /\ used' = [a \in Agents |-> IF a \in S THEN Reset(a, "run") ELSE used[a]]
  /\ UNCHANGED <<inflight, halted, listening>>

MeteringNext ==
  \/ \E a \in Gated, t \in Tools, prompt \in Prompts : PreprocessRequest(a, t, prompt)
  \/ \E a \in Gated : \E r \in inflight[a] :
       \/ \E completion \in Completions : PostprocessResponse(a, r, completion)
       \/ CallFails(a, r)
  \/ \E a \in Direct, t \in Tools, prompt \in Prompts, completion \in Completions :
       MeterDirectly(a, t, prompt, completion)
  \/ StartListening
  \/ Tick
  \/ \E S \in {Agents} \cup {{a} : a \in Agents} : ResetRun(S)

MeteringSpec == MeteringInit /\ [][MeteringNext]_meteringVars

\* The clock goes on once the enforcer listens; a model call comes back or
\* fails, at the latest with the client's timeout.
MeteringFairness ==
  /\ WF_meteringVars(Tick)
  /\ \A a \in Gated : WF_meteringVars(\E r \in inflight[a] :
       CallFails(a, r) \/ \E completion \in Completions : PostprocessResponse(a, r, completion))

MeteringFairSpec == MeteringSpec /\ MeteringFairness

-----------------------------------------------------------------------------
Calls == [slot : 1..Slots, tool : Tools, prompt : Prompts]

\* The type of every variable.
MeteringTypeOK ==
  /\ used \in [Agents -> [Accounts -> [Windows -> [Metrics -> Nat]]]]
  /\ inflight \in [Agents -> SUBSET Calls]
  /\ halted \subseteq Direct
  /\ listening \in BOOLEAN

\* What an agent used is what it used of its tools, in the tick and in the
\* run, through every reset (_update_counters, _reset_tick, _reset_run).
ToolsAddUp ==
  \A a \in Agents, w \in Windows, m \in Metrics :
    used[a][Overall][w][m] = SumFunction([t \in Tools |-> used[a][t][w][m]])

\* What can_afford looks at: not the calls of the agent, for which there is no
\* limit, and not the cost of a tool.
Looked(acc) == IF acc = Overall THEN {"tokens", "cost"} ELSE {"calls", "tokens"}

MostTokens == MostPrompt + MostResponse
Most == [calls |-> 1, tokens |-> MostTokens, cost |-> CostOf(MostTokens)]
Least == [calls |-> 1, tokens |-> LeastPrompt, cost |-> 0]

\* However calls, ticks and resets interleave, an agent behind the gateway
\* exceeds a limit that can_afford looks at by less than its calls in flight
\* can use: with one call at a time the number of calls is exact, and the
\* tokens are off by one response at most.  A direct agent exceeds it once, by
\* one call (preprocess_request, postprocess_response, meter_api_call).
OvershootBounded ==
  \A a \in Agents, acc \in Accounts, w \in Windows :
    \A m \in Looked(acc) : \A lim \in Limits[acc][w][m] :
      used[a][acc][w][m] <= lim + IF a \in Gated THEN Slots * Most[m] - Least[m] ELSE Most[m]

RunAffords(a, t, prompt) ==
  /\ Fits(a, Overall, "run", "tokens", prompt) /\ Fits(a, Overall, "run", "cost", 0)
  /\ Fits(a, t, "run", "calls", 1) /\ Fits(a, t, "run", "tokens", prompt)

TickAllows(t, prompt) ==
  /\ \A lim \in Limits[Overall]["tick"]["tokens"] \cup Limits[t]["tick"]["tokens"] : prompt <= lim
  /\ \A lim \in Limits[t]["tick"]["calls"] : 1 <= lim

\* The limits of the tick hold a call back no longer than the tick: once the
\* enforcer listens, a prompt the run can pay, and an unused tick, is admitted
\* again, or the run has meanwhile used up what it had (start, can_afford).
TickHoldsBackBriefly ==
  \A a \in Gated, t \in Tools, prompt \in Prompts :
    listening /\ TickAllows(t, prompt) /\ RunAffords(a, t, prompt)
      ~> CanAfford(a, t, prompt) \/ ~RunAffords(a, t, prompt)
=============================================================================
