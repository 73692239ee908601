# FBA-Bench Enterprise: a TLA+ verification project

FBA-Bench simulates an Amazon FBA marketplace tick by tick. An orchestrator publishes
`TickEvent`s on an in-memory asyncio event bus; services (world store, supply chain, market
simulator, ledger, budget enforcer) react to events and publish more; a simulation runner ties
them together behind a FastAPI control plane. Paths below are relative to the repository; most
of the program lies under `src/src`.

Modules are checked with `tlc -config <cfg> <MC module>` and proofs with `tlapm <...Proofs>.tla`.
`PROJECT.json` lists components, runs, hazards, findings and theorems, and maps each definition
to the lines it models.

## 1. Inventory

Everything runs on one asyncio event loop. A coroutine gives up control only where it truly
suspends: an empty queue's `get`, `gather`, `sleep`, I/O. Publishing on a started bus, taking an
uncontended `asyncio.Lock` and putting on an unbounded queue never suspend. The models rely on
this: one action is the code between two suspension points.

| Component | State | Operations | Hard behaviour | What makes it correct |
|---|---|---|---|---|
| Ledger, `services/ledger` | chart, balances, journal, unposted list | post, handle sale, adjust, inject capital, post all, start | refused postings, duplicates, listing before posting | books balance, all or nothing, the journal explains the balances |
| Event bus, `fba_events/bus.py` | queue, runner task, subscriptions, recording, handler tasks | publish, subscribe, unsubscribe, start, stop, record | publishing while stopping, a sentinel in the queue, a runner that crashes | each event reaches each handler once and in order; stop drains; a recording says when it is cut |
| World store, `services/world_store` | products (price, stock, version), per-tick ids and log | price command, inventory update, tick, save, load, reset | commands of one tick racing, exceptions after the write | one accepted price change per product and tick, bounded drift |
| Snapshots, `services/world_store/persistence.py` | files or dictionaries, live state | save, load, crash, restart | torn writes, shared dictionaries, conversions | what is loaded is what was saved |
| Supply chain, `services/supply_chain_service.py` | orders in flight, disruption | place order, process tick, disrupt | reads a quantity and publishes an absolute one that is applied later | units ordered are units received, on time |
| Market, `services/market_simulator.py` | reference prices | process one product | read, compute, gather the publishes | units sold are units removed |
| Budget, `constraints` | usage per agent, tool and window | can_afford, meter call, tick and run reset | check before the model call, charge after it | limits hold but for what is in flight |
| Clock, `fba_bench_core/simulation_orchestrator.py` | flag, task, tick, errors | start, stop, loop | retry in mid-loop, stop against start | ticks consecutive, one loop, it ends |
| Runner, `fba_bench_api/core/simulation_runner.py` | counters, restock schedule, run flag | start, tick handler, monitor, stop | tick handlers overlapping, monitor against stop | counters equal the sales published |
| Lifecycle, `fba_bench_api/api/routes/simulation.py` | database status, runner registry, background task | create, start, run, stop, get | check-then-act across awaits | one runner per simulation; stop stops it |
| Coordinator, `infrastructure/distributed_coordinator.py` | workers, acknowledgements, tick | spawn, acknowledge, heartbeat, advance, time out | a worker removed after it acknowledged | the tick advances; a healthy worker stays |
| Disputes, `services/dispute_service.py` | disputes and their status | open, refund, reject, write off | a posting that is refused between check and status, and tried again | one resolution, one posting |
| Agents, `agent_runners` | registry, tick counter, tool calls and events by tick, consolidation mark | register, deregister, start, stop, tick handler | handlers of several ticks at work at once, ids taken over while answers are out, time-outs and failures charged by id | days asked about in order, each remembered as it was last answered |

How they interact: the orchestrator *publishes* ticks on the bus; the world store, supply chain,
budget enforcer, ledger and agents *subscribe*. Agents publish commands (`SetPriceCommand`,
`PlaceOrderCommand`) which the world store and supply chain handle; the supply chain and the
market *read* the world store directly and *publish* `InventoryUpdate`, which the world store
handles; the market publishes `SaleOccurred`, which the ledger handles. Disputes *post* to the
ledger. The agent manager *asks* its runners on every tick and publishes what they answer. Bots
*call* the gateway around each model call. The runner owns one of each, and the API owns a registry
of runners. The coordinator keeps a tick of its own, which workers acknowledge over a bus.
The remaining parts, with the reason each is left out, are in `PROJECT.json`.

## 2. Modules and their order

1. `Ledger`: core, events handler and service in one module, since they share state and one
   call crosses all three.
2. `EventBus`: every other module takes from it that events are delivered once, in order, and
   that a handler without suspension is atomic.
3. `WorldStore` for the decisions, `WorldSnapshots` for what survives a restart. They are two
   modules because nothing in the first depends on a file and nothing in the second on a
   decision: together their states would multiply and no property spans both.
4. `Inventory`, the abstract promise that units are conserved, and `SupplyChain`, which composes
   supply chain service, bus, store and market and implements it.
5. `Budget`: enforcer, gateway and both kinds of callers.
6. `Orchestrator`: the clock.

7. `Barrier`, the abstract promise of a round that ends when all its members have arrived, and
   `DistributedCoordinator`, which implements it.
8. `SimulationLifecycle`: routes, background task, runner and monitor over the life of a clock.
   Of `Orchestrator` it keeps whether a loop ticks; that a loop ends is checked there
   (`EveryRunEnds`) and assumed here as fairness.
9. `Disputes`, which extends `Ledger`: its settlements are postings among all the others.
10. `AgentManager`: registry, tick handlers and time-out policy.

The `...Proofs` modules extend the modules they prove about: `LedgerProofs` `Ledger` and
`Disputes`, `WorldStoreProofs` `WorldStore` and `WorldSnapshots`, `OrchestratorProofs`
`Orchestrator` and `SimulationLifecycle`, `AgentProofs` `Budget` and `AgentManager`, the others the
one they are named after. Modules that are proved about together do not share a name: the
specifications of `Disputes`, `WorldSnapshots`, `SimulationLifecycle` and `Budget` are
`DisputesSpec`, `SnapshotSpec`, `LifecycleSpec` and `MeteringSpec`. `Sums` has the lemmas on sums
over finite sets that three of them rest on. The `MC...` modules give constants their values. Two of
them hold two machines that do not interact, of which a behaviour runs one (`half`): `MCWorldStore`
has `WorldStore` and `WorldSnapshots`, `MCAgents` has `Budget` and `AgentManager`.
`MCAgentTimeouts` adds to `AgentManager` the history of timeouts in a row (`streak`) that a finding
is stated with.

What the plan has left: `LLMBatcher` (every request is answered once), the runner's tick handler,
and an abstract life that `SimulationLifecycle` refines.

## 3. How each module corresponds to the code

**Ledger.** `accounts`, `balance`, `posted`, `unposted` are `LedgerCore`'s dictionaries and
lists; `drain` is the copy that `post_all_unposted_transactions` walks over. `Post` is
`post_transaction`: `Validated` is its validation phase, `Applied` its posting phase. Its `except`
branch and trial check are left out of the step: nothing between the two updates raises once a
transaction is validated, and the check cannot fail (`TrialCheckNeverFires`). A transaction is a total per account rather than a list of
entries, with the marks a total would hide (a negative entry, an account outside the chart).
`HandleSaleOccurred`, `HandleInventoryAdjusted` and `Start` are the events handler's methods;
`ServicePost` asks `LedgerValidator` first. Creation stamps (`at`) keep two transactions with
the same content apart, as their timestamps do. `MarketSale` is the event the market publishes.

**EventBus.** `queue`, `runner`, `started` are the bus's fields. `tasks` are handler tasks that
have not begun and `active` those that suspended; `turn` is the order in which asyncio will run
them. `draining` says that the runner has the loop: `queue.get` on a non-empty queue does not
suspend, so the runner dispatches everything queued before any handler begins. `logging` is the
environment switch under which publishing an event without a summary raises before it is queued.
`Accept` has both paths of `publish`, `Enqueue` and `DispatchNow`; `RunnerTakes` is one pass of the
runner. `StopCall`, `StopAfterRunner` and `StopAfterHandlers` are `stop` between its awaits; any
number of calls may be under way (`stopping`), each with a sentinel of its own in the queue, because
`stop` looks at the flag only, which the first call clears at its end. A call that was overtaken by
another and by a new start (`n <= era`) still releases the bus, which then has a new runner: the model
takes that step (`stale`) and ends there, since what the orphaned runner does is no promise of
anybody's. `_events_processed` counts what was taken from the queue, the event whose recording
ended the runner included. `heard` (dispatched while recording), `last`, `dropped`, `stale` and a
call's `marked` are history.

**WorldStore.** One action per handler; a price command has five outcomes (`Duplicate`,
`Reject`, `Accept`, `AcceptInSilence`, `Unknown`), the last two being exceptions raised in the
middle of it. `opening`, `changes`, `handled` and `crashed` are history.

**WorldSnapshots.** `heap` and `cell` model the metadata dictionaries by reference, because the
in-memory backend keeps the reference and the JSON backend a copy. `TornSave` ends a
`json.dump` half-way, with or without the process. `Restart` loads the newest file, as `start`
does. The JSON backend is reached only by passing it in: the factory's default (factory.py:32)
raises before it makes one.

**SupplyChain.** `pending`, `active`, `extra`, `rate`, `now` are the service's fields. `Dispatch`
hands the oldest event of the bus to its handlers: `OnTick` (with `ProcessTick`), `OnPlaceOrder`,
and the store's `OnInventoryUpdate`. `subscribed` is all that is left of the number of starts: the bus
calls equal handlers once for an event (bus.py:700-709), so that a service started again schedules
each order once, and one that was stopped goes on hearing events. `Sell` and `PublishSale` are the
market's `process_for_asin` before and after its `gather`. `Inventory` is stated product by product:
`KeepsEveryUnit` says that a step which meets at most one new quantity of a product on its way to
the store, and leaves at most one (`Alone`), is a step of it. A rate is a whole
percentage, and the units of a partial delivery are cut exactly, where the code multiplies floats.

**Budget.** `used` has the enforcer's nested dictionary, the agent's own counters under the
account `Overall`. `PreprocessRequest` and `PostprocessResponse` are the gateway's two methods
with the model call between them (`inflight`), `CallFails` a call that raises. `MeterDirectly` is
the in-loop benchmark, which only reports; the cost of its calls is taken as the gateway's.

**Orchestrator.** `loop` has each task of `_run_loop` with its locals; a step runs from one
sleep to the next. `Stop` and `StopReturns` are `stop` before and after it waits for the task.

**DistributedCoordinator.** `SyncStep` is one pass of `coordinate_tick_progression` from one sleep
to the next, `advancing` the one place in it that suspends, the announcement of a tick, during which
acknowledgements arrive that are cleared behind it (`lost`). `waited` is the timer, which belongs to
the tick and not to a worker. `MonitorWorkerHealth` is a round of the monitor. A worker acknowledges
only ticks that were announced to it; the handler itself would take any number. `sent` and `joined`
are history, and `sent` is what the refinement maps to the barrier's `arrived`: what the loop throws
away has arrived all the same.

**SimulationLifecycle.** Each request is where it suspended: a status it read may be old when it
acts on it (`StartReads` and `StartWrites`, `RunReads` and `RunChecks`, `StopReads`, `StopLooks`,
`StopFinishes`, `StopWrites`). `TaskBegins` is the background task up to its first poll, which does
not suspend. `routes` and `registry` are the two dictionaries called `_running_simulations`.
`raced` and `missed` record the two windows the code leaves open.

**Disputes.** A settlement is the check of the record, the ledger's `ServicePost`, and the record's
new status unless that raised. `off` is history.

**AgentManager.** Each tick has a handler task: `TickArrives` runs to its first wait, `Recalls` is
the consolidation that reads the calls of the tick before, `Remembers` the end of that gather and the
beginning of the next, `Answered` the end of that, and `Acts`, `TimesOut`, `Fails` one result each;
`Raises` is a result that ends the whole cycle. `about` is the tick in the context the handler builds
from the shared counter. A registration is an id with a generation, because results are charged by
id: `register_agent` leaves one with a runner alone (`Register`), `create_agent` writes over it
(`CreateAgent`). The calls of a tick are one entry per agent, which a later answer for the same tick
overwrites, also with nothing (agent_manager.py:661). An error that `_get_agent_decision` swallows is
an answer without calls; `Fails` is any other exception. `newest`, the last answer dealt with for a
tick, is the only history.

## 4. Runs

| Run | Instance | What it shows |
|---|---|---|
| `ledger` | 2 event ids, sales, adjustments, capital, callers' transactions, 1 dispute, 4 transactions | In every order, with and without a chart: books balance, postings are whole and unique, balances are the sum of the journal, a walk that does not raise empties the list, a dispute is settled once in the record as in the journal |
| `ledger_market` | sales as the market makes them | A sale of one unit is refused (finding) |
| `bus` | class, subclass, 1 handler that may hang, 3 events, cap of 2, 2 switches or stops | Order and once-only delivery over both dispatch paths; a recording leaves out unmarked only what has no summary; counters add up; what a stop drops was published after a stop was called; every stop returns; queued events are dispatched |
| `world` | 1 product, 5 prices, 3 commands, 3 ticks, 2 snapshots; or both backends, 2 products, 2 snapshots | One change per tick, drift within a half, statistics account for every command that did not end in an exception. Products and stock come back on both backends, metadata on disk, through torn writes and crashes |
| `supply` | 2 products, 2 orders, 1 sale, 3 ticks, stops and starts | Orders conserved and never overdue; a disruption cuts an order once; a step that meets and leaves at most one move of a product is one of `Inventory` |
| `supply_lost` | 1 order, 1 sale, 4 ticks | When two moves of a product overlap, delivered units are overwritten (finding) |
| `orchestrator` | 3 starts, limit of 2 ticks or none, third error ends | One loop, ticks 0, 1, 2, ... once, status honest, runs end |
| `lifecycle` | 2 requests each to start, run and stop | Outside two named windows one runner ticks, under its id, and none once the simulation is stopped; every run is cleaned up |
| `coordinator` | 2 workers, 2 ticks, 2 starts | The coordinator implements `Barrier`; no worker left behind or removed without a cause; the tick moves on past the dead unless one of them had acknowledged it (`NoGhosts`) |
| `agents` | 1 gated agent with 2 calls in flight, 1 direct agent, 2 tools; or 1 id registered twice, 4 ticks, 2 time-outs allowed, history of 1 tick | Tools add up; limits are passed by what is in flight at most; a tick limit holds a call back no longer than the tick. Days are asked about in order, and of a day the last answer is remembered |
| `agents_days` | 1 registration, 3 ticks | One day is decided twice (finding) |
| `agents_timeouts` | 1 registration, 3 ticks | Time-outs need not be consecutive (finding) |

The type invariants are left to the proofs (section 5), which have them for every instance at once.

### Bounds

* Ledger: refused, duplicate and accepted postings need two transactions of one id and one of
  another; a walk that is cut short needs a refused one between two others; four transactions
  have all of it.
* EventBus: order is a matter of two events on two paths; the third is published while the
  first two are queued and waiting. Handlers meet in nothing the properties speak of but the order
  of tasks, so one suffices, and the proofs are for any number. A recording cap of 2 is met, and
  passed, by three events. Two switches are two overlapping stops, or a recording with a stop, or a
  recording that is cleared; the crashed runner, which recording makes possible, needs no stop.
* WorldStore: products meet only in the set of seen ids, so one product with two ids has every
  case; 4 to 6 to 9 are two legal steps whose sum is not, 1 and 13 lie outside the thresholds.
* WorldSnapshots: two snapshots share a dictionary with each other and with the live state; a
  third adds no new sharing.
* SupplyChain: an order cut at half rate, one that brings nothing, a rest due at the next tick,
  and an arrival while a sale is in flight all fit in three ticks with two orders (four
  in `supply_lost`, whose one order arrives later). A supplier
  without lead time and a low variance give the sum below one that the code floors. With two
  products a move of one is under way while the other moves; starts and stops are not bounded.
* Budget: limits are met, missed by one and passed by one with calls of 2 or 3 tokens.
* Orchestrator: three starts let a start overtake a stop that waits, and another come after.
* SimulationLifecycle: a race needs two runs, a run and a stop that pass each other one of each; a
  second of each kind comes before, between or after them.
* DistributedCoordinator: one worker that answers and one that does not, at one tick that was
  announced to both and one a late worker joined.
* AgentManager: a handler that was overtaken, the one that overtook it and asked about the same
  tick, and the one that consolidates that tick are three, and the fourth trims it. A second
  registration of an id is what an answer can be charged to by mistake; it comes before the last tick
  (`BeforeTheLast`), so that there is a tick for it to matter at. Results are dealt with agent by
  agent, and the tables have an entry for each, so one id suffices; the proofs are for any number.
  In `agents_days` and `agents_timeouts` three ticks and one registration are more than the
  counterexamples need.

Deadlock is not checked: the machines stop at their bounds, and with no caller they may stop
wherever callers do. What must go on is stated as liveness.

### Fairness

* EventBus: the event loop runs every ready task, so the runner and handler tasks that are ready
  are weakly fair, and so are the resumptions of `stop`, whose wait on handlers has a timeout. A
  handler that suspended is not: it may hang for ever.
* Budget (`MeteringFairness`): the clock goes on once the enforcer listens, and a model call comes
  back or fails, at the latest with its client's timeout. No agent is assumed to ask.
* Orchestrator: sleeps end, and a ready task runs. No start or stop is assumed. Publishing may
  fail at every attempt.
* SimulationLifecycle: tasks, monitors and clocks that are ready run, and a stop under way is
  answered. That a clock ends is what `EveryRunEnds` shows of one with a limit. Nobody has to ask.
* DistributedCoordinator: the loop runs and time passes. No worker is assumed to answer.
* AgentManager: none, and no liveness is claimed. The gathers have no time limit, and neither have
  the calls of the runners (crewai_runner.py:424, langchain_runner.py:477): a handler may wait for ever.

## 5. Proofs

All theorems hold for every value of the constants that the named assumption of the module
admits; TLC evaluates these assumptions in the runs. They are proved from an inductive invariant
with one lemma per group of actions. Every invariant and every action property of the passing runs,
and both refinements, are stated by a theorem; what TLC alone shows is liveness.

* `Sums`. A sum over a finite set is the community modules' `SumFunctionOnSet`, which is defined by
  recursion over subsets. Its lemmas (adding an element, adding two functions, disjoint unions,
  sums of sums, renaming the index set) need induction over data, and the library's induction
  theorems, which take a predicate, cannot be used. `NatSets` says the same of a *set* of numbers
  that has 0 and with each number the next, from the well-foundedness of `<`, and
  `SubsetInduction` carries it to finite sets; both are used with the set of all that the wanted
  property holds of. `TotalsExist` shows that the recursion defines a function at all.

* `LedgerProofs` (`LedgerAssumption`). `LedgerInv` strengthens the accounting equation: the trial
  balance; no amounts without a chart (else building the chart, which zeroes balances, would
  unbalance nothing but lose postings); everything held is older than the clock, so a new
  transaction is never one that is already listed; the list repeats nothing and shares nothing
  with the journal. `SaleBalanced` and `AppliedKeepsTrialBalance` carry the arithmetic: any sale,
  whatever its breakdown, makes a balanced transaction, and posting one keeps the totals equal.
  From these follow `Integrity`, `Atomicity`, `ListedNotPosted` and `TrialCheckNeverFires`.
  `Journal` (balances are the sum of what was posted) rests on `AllOrNothing`: a step adds one
  transaction to a finite journal and its `Net` to the balances, or neither. `CleanDrain` rests on
  `WalkInStep`: while the walk lasts, what it has to do yet is what the list still holds, so a
  removal from the list and a step of the walk never part, and a walk that comes to its end has
  emptied both.
* `LedgerProofs` also has all of that for `DisputesSpec`, which the run checks: a settlement is one
  of the ledger's own steps (`DisputesIntegrity`, `DisputesAtomicity`, `DisputesJournal`,
  `DisputesCleanDrain`, `DisputesListedNotPosted`), and `DisputesSettleOnce`, because its
  transaction's id names the dispute and nobody else posts under that id (`QueuesOfOthers`).
* `EventBusProofs` (`BusAssumption`). `OrderedDelivery` is not inductive: direct dispatch could
  overtake the queue. `BusInv` says why it cannot: what a live runner will still take is later
  than all that waits and all that began (`QueueAhead`), and a runner that is over never takes
  anything again. `TurnsOrdered` and `OneTaskEach` carry it to the tasks. The other theorems rest on
  `BusInv` and one more invariant each. `Drained`, for any number of overlapping stops: behind every
  sentinel is only what was published after some call that is still under way and waits for this
  runner; once the runner met one, that is all there is; and to a call of before the last start
  everything is later. `Recorded`: a live runner has yet to take what is later than the recording.
  `CountersAccount` needs that queued events are told apart, which is `QueueOrdered`.
* `WorldStoreProofs` (`WorldAssumption`). One price change per tick follows from: an asin
  without an entry in the tick's log has had no change, and one with it at most one. Bounded
  drift follows with: a product without a change stands at its opening price or had none.
* `WorldStoreProofs` on `WorldSnapshots` (`SnapshotAssumption`). `RestoredGoods` is not inductive: a load must find in the
  file what was noted when it was saved, however much happened since. `Recorded` says that it does,
  stock on both backends, metadata on disk; `AsLoaded` that the live state stays what the file has
  until something is written; `OwnCells` that with the JSON backend no two products ever share a
  dictionary with a snapshot. `GoodsComeBack` and `MetadataComesBack` follow for any products,
  amounts and number of snapshots, crashes and torn writes included.
* `SupplyChainProofs` (`SupplyAssumption`). Pending orders are finitely many, all arrive after
  `now`, and a rest is due exactly one tick after its cut; `now` is moved by a tick that takes
  everything due. Ticks may come in any order here: `NothingOverdue` is about the last one.
  `NoUnitLost` adds that orders are told apart by their ids (`DistinctOrders`), so that a requeued
  rest replaces its order in the sum and nothing else. It holds of any starts and stops.
* `SupplyRefinesInventory` is the refinement of `Inventory`, product by product and step by step. What
  is on hand of a product is the new stock that a sale or the last update in flight carries, or else
  the store's. The hypothesis is about the two states of the step only: one new quantity of this
  product at most is on its way before it and after it (`Alone`). Whatever else the bus holds, and
  whatever happened before, a tick then is `Deliver`, an order `Place`, a sale `Sell`, and
  publishing a sale or taking an update off the bus changes nothing: `HandKept` says that the hand
  depends on the product's own moves, wherever they stand in the queue (`TailKeeps`,
  `ConcatKeeps`). A tick at which two orders of one product arrive does not fall under it, nor a
  sale that meets an arrival: those are the steps that lose units. `TickUnits`, `BroughtBySole`
  and `BroughtByNone` do the arithmetic of a tick that delivers several orders in whole and in part.
* `AgentProofs` on `Budget` (`BudgetAssumption`). Usage plus the most the calls in flight can add stays
  within the bound: an admission adds a call only while there is room, an answer moves its part
  from "in flight" to "used". Slots are distinct, which bounds their number. `AccountsAddUp`: a
  charge changes one tool's figure and the agent's by the same amount, and a reset clears the
  window of every tool with the agent's.
* `OrchestratorProofs` (`OrchestratorAssumption`). The ticks a task published are exactly those
  before the one it is at (`Counted`), which ties the history to the loop's local counter through
  errors and pauses. `Single`: a stop that waits, waits for the only task there is, which it
  cancelled; a new start in between is what `overtaken` records.
* `OrchestratorProofs` on `SimulationLifecycle` (`LifecycleAssumption`; any sets of requests). `Attended`:
  a clock ticks for a task that polls, and a stop that waits has found one. `Alone`: unless two runs
  raced, one task is on its way or at work, and the routes have it. `Found`: unless a run and a stop
  passed each other either, the ticking clock is the registered one, and from the moment a stop has
  looked nothing ticks and nothing is on its way. From these `RunsExclude`, `StoppingSilences` and
  `TickingIsFound`, however many requests there are.
* `DistributedCoordinatorProofs` (`CoordinatorAssumption`). `AcksKept` ties the loop's books to what
  was sent: they hold nothing that was not, and of the present tick all but what was thrown away;
  nobody acknowledges a tick to come. From it `NobodyLeftBehind`, `RemovedForCause` and, step by
  step, the refinement `IsABarrier`.
* `AgentProofs` on `AgentManager` (`AgentAssumption`). `Order` says in which order ticks arrive and that
  no handler has asked about one that has not come: so whoever asks about the present one asks about
  none earlier (`DaysInOrder`). `Runners`: whoever is active is a registration with a runner.
  `MemoriesComplete` rests on `Tables`: within the retention window the table of a tick is the last
  answers given for it, since a trim only touches what is older and an answer for an older tick
  never lands in the window.

The clock's `StatusHonest` rests on `Latest`: the live run is the last to have begun.

Only model-checked: liveness (`StopReturns`, `EventuallyDispatched`, `TickHoldsBackBriefly`,
`EveryRunEnds`, `RunsAreCleanedUp`, `TicksMoveOn`), which under fairness is out of the prover's
reach, since `ENABLED` is.

## 6. Findings

Four runs end in a counterexample to what the repository says of itself:

* `ledger_market`: market_simulator.py:512-530 counts fees twice in the breakdown of a sale; the
  residual the ledger books is negative, and strict validation refuses the sale. "Every penny is
  accounted for" (docs/ledger_system.md:7) fails for every sale of one unit with fees.
* `supply_lost`: the supply chain and the market publish absolute quantities; of two in flight,
  the earlier is lost (docs/simulation_services.md:59 says that arrivals update the inventory);
* `agents_days`: a handler takes the tick of its context from the shared counter after its wait for
  memories (agent_manager.py:633). When the next tick arrived in that wait, two handlers ask for a
  decision of the same day, and the day before gets none, against "One decision per simulated day,
  sequentially" (docs/press/submission_kit.md:16; README.md:39 says the same). What does hold is
  `QuestionsInOrder`;
* `agents_timeouts`: mark_agent_timeout counts over the whole life of a registration
  (agent_registry.py:104) and no answer resets it, although "consecutive" is said at line 96
  and at agent_manager.py:164.

Seen while modelling, each visible without exploration and therefore without a run of its own:

* unsubscribe removes a handler from its class but not from the class's name, under which
  subscribe had put it too (bus.py:436 against 429);
* an event whose summary raises ends the runner while recording, because the except clause names
  an unbound variable (bus.py:639). On the direct path, which the runner's end opens, the same event
  is dispatched, not recorded, and leaves no mark of truncation (bus.py:313-330, "mirror runner
  behavior"): an unmarked recording may have gaps, of events without a summary and no others
  (`RecordingHonest`);
* stop has no guard against another stop under way (bus.py:174-184). What is published between two
  calls may go with the queue the first one drops, though the second was called after it
  (`DrainsBeforeStop` holds a release to one of the calls under way, not to each); and a call that waits
  while another one ends and the bus is started again releases the restarted bus: its queue is
  lost and its runner forgotten (lines 216-229);
* the ledger service never awaits the building of its chart (ledger/\_\_init\_\_.py:58), so that it
  posts nothing until somebody else builds it;
* one refused transaction keeps all later ones of the list from being posted (core.py:354);
* a price command for an unknown product ends in a NameError (arbitration.py:227), one for a
  product without a price takes effect and is counted as a rejection (arbitration.py:211), and the
  statistic of conflicts never moves (arbitration.py:98);
* prices are saved as the text of a Money, with its currency code, and read without one; a loaded
  product costs nothing (models.py:35, `MoneyFromSerializable`);
* the in-memory backend's snapshots share metadata with the live state (models.py:104);
* a torn snapshot file makes every start raise until it is removed (persistence.py:202);
* a stopped supply chain keeps handling events (supply_chain_service.py:138), and two of its
  counters never move (line 128). Starting it again schedules nothing twice, as the bus calls equal
  handlers once (bus.py:700-709);
* can_afford does not look at a tool's cost limit (budget_enforcer.py:323), although
  docs/budget_constraints.md:20 promises one; costs are cut to whole cents per call
  (agent_gateway.py:106); with a configuration object can_afford raises (line 420);
* an enforcer that was never started does not hear of ticks, so its counters are never reset
  (budget_enforcer.py:182): a limit of the tick then holds an agent back for good.
  `TickHoldsBackBriefly` speaks of an enforcer that listens;
* a start that overtakes a waiting stop leaves a loop nobody can cancel
  (simulation_orchestrator.py:88), so that two may publish. `OneLoop` and `StatusHonest` are stated up
  to that point (`overtaken`), and the model goes on past it;
* the status keeps the tick of the run before until the new one publishes
  (simulation_orchestrator.py:190), and the monitor takes any end of the clock, also one by errors,
  for a completion (simulation_runner.py:489-502). `StatusHonest` is of the last run that published;
* the coordinator's tick advances when the acknowledgements *equal* the workers (line 228). One of a
  worker removed since makes them unequal with nobody missing, and neither the advance nor the
  time-out is taken again, against "to avoid deadlock if a worker fails to ack" (line 190).
  `TicksMoveOn` makes the exception explicit (`NoGhosts`);
* acknowledgements of ticks to come are accepted and counted when they come (line 399), and a worker
  that joins late inherits the timer of the tick (line 222);
* the routes leave two windows. Two run requests may both find no runner before either's task begins,
  and two runners then tick under one id (`raced`, simulation.py:279); a stop may look for a runner
  between a run's check and its task's registration, finds none, marks the simulation stopped, and
  the runner ticks on to its end (`missed`, line 157). `OneRunner`, `StoppedIsQuiet` and
  `LiveIsRegistered` are false of these windows and say that they are the only ones;
  `RunsAreCleanedUp` holds in them as well;
* the routes, too: reading a simulation raises on its dates, its row never becomes "completed", a start
  under way can overwrite "stopped" with "running", and a stop whose wait lets the monitor wake
  publishes "completed" before "stopped";
* the time-out policy of the agents is hardly ever reached: base_runner.py:338-352 turns what a
  runner's decision raises, a time-out included, into an `AgentRunnerDecisionError`,
  agent_manager.py:787-799 swallows that one and answers with no calls, and nothing in the repository
  raises `AgentRunnerTimeoutError` itself. Only a runner with a `decide` of its own gets there; an
  agent fails only for an exception of none of the kinds named in those lines;
* the calls of a tick are kept one entry per agent (agent_manager.py:661, "what did I do today?"): of
  a day that was decided twice the first answer is forgotten, also when the second is empty;
* an answer, a time-out or a failure is charged by id (agent_manager.py:681): when an agent
  is dropped while asked and its id registered anew, the successor has it on its account;
* the agents' legacy mirror goes inactive at the first time-out; parameters with
  a Money raise out of the whole cycle (`Raises`); start subscribes before the runners are ready; a
  history of 0 ticks ends consolidation; the commands of an agent deregistered meanwhile are still
  published; and the consolidation mark survives into the next run of the manager.

Hazards that no property covers, because one call or one reading shows them: unsubscribing
(bus.py:436), a tool's cost limit (budget_enforcer.py:323), an update of the experiment store that
reads, awaits and writes back whole (experiment_store.py:151), a batched request whose id is pending,
whose first caller is never called back, as are those pending when the batcher stops
(llm_batcher.py:84 and 69-79), and tick handlers of one runner that overlap and clear each other's
counter (simulation_runner.py:252).

## 7. Not modelled

The map covers a few per cent of the repository's lines. Most of the others have no state that
actors share: benchmark drivers and validators that run one after the other and score with floats,
scenario tables, research extensions, scripts, generated and user-interface code, tests and docs.
Of the long files, `benchmarking/core/engine.py` runs scenarios in sequence (its bounded gather at
1200 only limits how many results are read at once), and `run_grok_proper_sim.py`, the templates, the
comparative analysis and the memory validator compute figures from finished runs.

Demand, fees, auctions, rankings and scores are numeric and have no interaction to explore.
What agents decide and models answer are inputs. The financial statements iterate over a coroutine
that is never awaited and raise before they keep anything. Database and Redis are left to their own
guarantees. Of modelled components these parts are left out: the runner's tick handler and restocks
(its sale is in `SupplyChain`), the skills pipeline and its arbitration, the registry's legacy
mirror, the rule-based decision on a dispute, aggregation across the coordinator's partitions, the
older budget API. Text (summaries, redaction, log lines) is left out, save the text of a price, which
decides whether it can be read back.
