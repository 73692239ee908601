---------------------------- MODULE SupplyChain ----------------------------
(***************************************************************************)
(* Inbound orders and the stock they end up in: SupplyChainService, the    *)
(* bus it hears of ticks and orders on, the stock WorldStore keeps, and    *)
(* the MarketSimulationService that takes units out of it.                 *)
(*                                                                         *)
(* The bus is the FIFO that module EventBus shows it to be: handlers begin *)
(* in publication order and those below do not suspend.  A handler reads   *)
(* the stock and publishes the new absolute quantity; the store applies it *)
(* when the event reaches the head of the queue.  Between the two anybody  *)
(* may read the stock again.                                               *)
(*                                                                         *)
(* Black swans enter as the multiplier they amount to when an order comes, *)
(* in tenths; the fulfilment rate is in percent.                           *)
(***************************************************************************)
EXTENDS Integers, Sequences, FiniteSetsExt

CONSTANTS Asins,        \* products
          Quantities,   \* units a PlaceOrderCommand may ask for
          Demands,      \* units customers may ask for in one tick
          Rates,        \* fulfillment_rate, percent
          BaseLead,     \* base_lead_time
          SupplierLeads,\* lead times of the suppliers in the store's catalogue
          Variances,    \* what the normal distribution may yield
          Extras,       \* lead_time_increase
          Multipliers,  \* product of the active black swans, tenths
          InitialStock, \* stock of every product at the start
          MaxTick, MaxOrders, MaxSales  \* bounds

ASSUME SupplyAssumption ==
         /\ Quantities \subseteq Nat \ {0} /\ Demands \subseteq Nat
         /\ Rates \subseteq 0..100 /\ Extras \subseteq Nat
         /\ BaseLead \in Nat /\ SupplierLeads \subseteq Nat /\ Variances \subseteq Int
         /\ Multipliers \subseteq Nat /\ InitialStock \in Nat
         /\ MaxTick \in Nat /\ MaxOrders \in Nat /\ MaxSales \in Nat

VARIABLES pending,     \* _pending: its list order is that of the orders' ids;
                       \* "cut" is history, the tick at which one was cut
          active, extra, rate,  \* the disruption
          now,         \* _current_tick
          started,     \* _started
          subscribed,  \* both handlers are on the bus
          stock,       \* the store's inventory_quantity
          queue,       \* the bus
          selling,     \* sales read from the stock whose update is not yet published
          ticks,       \* number of the next tick published
          placed,      \* orders published so far; an order's id
          sales,       \* calls of process_for_asin so far
          lastId,      \* history: id of the newest pending order
          ordered, delivered, sold  \* history: units, per product

service == <<pending, active, extra, rate, now, started, subscribed, lastId>>
vars == <<service, stock, queue, selling, ticks, placed, sales, ordered, delivered, sold>>

Tick(n) == [kind |-> "tick", number |-> n]
Order(a, n) == [kind |-> "order", asin |-> a, quantity |-> n]
Update(a, new, previous) ==
  [kind |-> "update", asin |-> a, new |-> new, previous |-> previous]

Init ==
  /\ pending = {} /\ active = FALSE /\ extra = 0 /\ rate = 100
  /\ now = 0 /\ started = FALSE /\ subscribed = FALSE /\ lastId = 0
  /\ stock = [a \in Asins |-> InitialStock]
  /\ queue = <<>> /\ selling = {} /\ ticks = 0 /\ placed = 0 /\ sales = 0
  /\ ordered = [a \in Asins |-> 0] /\ delivered = ordered /\ sold = ordered

-----------------------------------------------------------------------------
\* A second start puts the same handlers on the bus again; the bus calls equal
\* handlers once for an event (_matching_handlers).
Start ==
  /\ ~started
  /\ started' = TRUE
  /\ subscribed' = TRUE
  /\ UNCHANGED <<pending, active, extra, rate, now, lastId, stock, queue, selling,
                 ticks, placed, sales, ordered, delivered, sold>>

\* The handlers stay on the bus, and do not look at the flag.
Stop ==
  /\ started /\ started' = FALSE
  /\ UNCHANGED <<pending, active, extra, rate, now, subscribed, lastId, stock, queue,
                 selling, ticks, placed, sales, ordered, delivered, sold>>

SetDisruption(on, lead, percent) ==
  /\ active' = on /\ extra' = lead /\ rate' = percent
  /\ UNCHANGED <<pending, now, started, subscribed, lastId, stock, queue, selling,
                 ticks, placed, sales, ordered, delivered, sold>>

AtLeast(floor, n) == IF n < floor THEN floor ELSE n

(* Variants named ...Bug are the mistakes the properties are there to      *)
(* catch; no specification uses them.                                      *)
LeadTimeBug(base, multiplier, variance) ==
  ((base + IF active THEN extra ELSE 0) * multiplier) \div 10
    + AtLeast(1 - BaseLead, variance)
\* The variance is floored by the base lead time of the service, the result
\* at one tick; the lead time it is added to may be the supplier's.
LeadTime(base, multiplier, variance) ==
  AtLeast(1, ((base + IF active THEN extra ELSE 0) * multiplier) \div 10
               + AtLeast(1 - BaseLead, variance))

LeadTimes ==
  { LeadTime(base, multiplier, variance) :
      base \in {BaseLead} \cup SupplierLeads, multiplier \in Multipliers,
      variance \in Variances }

\* One order, however often the service was started; none before that.
OnPlaceOrder(event) ==
  /\ IF subscribed
     THEN /\ \E lead \in LeadTimes :
               pending' = pending \cup
                 {[id |-> lastId + 1, asin |-> event.asin, quantity |-> event.quantity,
                   arrival |-> now + lead, partial |-> FALSE, cut |-> 0]}
          /\ lastId' = lastId + 1
          /\ ordered' = [ordered EXCEPT ![event.asin] = @ + event.quantity]
     ELSE UNCHANGED <<pending, lastId, ordered>>
  /\ UNCHANGED <<active, extra, rate, now, started, subscribed, stock, delivered, sold>>

-----------------------------------------------------------------------------
(* process_tick, at tick t, with the bus holding the events of base. *)

Due(t) == {o \in pending : o.arrival <= t}

\* While a disruption lasts an order is cut once; what is left comes in full.
DeliveredBug(o) == IF active THEN (o.quantity * rate) \div 100 ELSE o.quantity
Delivered(o) ==
  IF active /\ ~o.partial THEN (o.quantity * rate) \div 100 ELSE o.quantity

RequeuedBug(t) ==
  { [o EXCEPT !.arrival = t + 1, !.partial = o.partial \/ active,
              !.cut = IF o.partial THEN o.cut ELSE t]
    : o \in {x \in Due(t) : Delivered(x) < x.quantity} }
Requeued(t) ==
  { [o EXCEPT !.quantity = o.quantity - Delivered(o),
              !.arrival = t + 1, !.partial = o.partial \/ active,
              !.cut = IF o.partial THEN o.cut ELSE t]
    : o \in {x \in Due(t) : Delivered(x) < x.quantity} }

\* One update per order that brings something, in the order of the list; all
\* of them add to the stock as the store has it at this moment.
Arriving(t) == {o \in Due(t) : Delivered(o) > 0}
InOrder(S) ==
  {s \in [1..Cardinality(S) -> S] :
     \A i, j \in 1..Cardinality(S) : i < j => s[i].id < s[j].id}
Arrival(o) == Update(o.asin, stock[o.asin] + Delivered(o), stock[o.asin])

ProcessTick(t, base) ==
  /\ pending' = (pending \ Due(t)) \cup Requeued(t)
  /\ \E s \in InOrder(Arriving(t)) :
       queue' = base \o [k \in 1..Cardinality(Arriving(t)) |-> Arrival(s[k])]
  /\ delivered' = [a \in Asins |->
       delivered[a] + SumFunction([o \in {x \in Due(t) : x.asin = a} |-> Delivered(o)])]

\* The disruption scenario calls process_tick once more between ticks: what the
\* handler left is due at t + 1 at the earliest, so that it finds nothing to do.
OnTick(event) ==
  /\ IF subscribed
     THEN now' = event.number /\ ProcessTick(event.number, Tail(queue))
     ELSE queue' = Tail(queue) /\ UNCHANGED <<now, pending, delivered>>
  /\ UNCHANGED <<active, extra, rate, started, subscribed, lastId, stock, ordered, sold>>

OnInventoryUpdateBug(event) ==
  /\ stock' = [stock EXCEPT ![event.asin] = @ + event.new]
  /\ UNCHANGED <<service, ordered, delivered, sold>>
\* handle_inventory_update of the store.
OnInventoryUpdate(event) ==
  /\ stock' = [stock EXCEPT ![event.asin] = event.new]
  /\ UNCHANGED <<service, ordered, delivered, sold>>

\* The bus delivers its oldest event.
Dispatch ==
  /\ queue # <<>>
  /\ \/ Head(queue).kind = "tick" /\ OnTick(Head(queue))
     \/ Head(queue).kind = "order" /\ OnPlaceOrder(Head(queue)) /\ queue' = Tail(queue)
     \/ Head(queue).kind = "update" /\ OnInventoryUpdate(Head(queue)) /\ queue' = Tail(queue)
  /\ UNCHANGED <<selling, ticks, placed, sales>>

-----------------------------------------------------------------------------
(* Who puts events on the bus. *)

PublishTick ==
  /\ ticks < MaxTick
  /\ queue' = Append(queue, Tick(ticks))
  /\ ticks' = ticks + 1
  /\ UNCHANGED <<service, stock, selling, placed, sales, ordered, delivered, sold>>

PublishOrder(a, n) ==
  /\ placed < MaxOrders
  /\ placed' = placed + 1
  /\ queue' = Append(queue, Order(a, n))
  /\ UNCHANGED <<service, stock, selling, ticks, sales, ordered, delivered, sold>>

\* process_for_asin reads the stock and decides the sale ...
Sell(a, demand) ==
  /\ sales < MaxSales
  /\ LET units == Min({demand, stock[a]}) IN
     /\ selling' = selling \cup
          {[id |-> sales, asin |-> a, new |-> stock[a] - units, previous |-> stock[a]]}
     /\ sold' = [sold EXCEPT ![a] = @ + units]
  /\ sales' = sales + 1
  /\ UNCHANGED <<service, stock, queue, ticks, placed, ordered, delivered>>

\* ... and the gathered publish puts the update on the bus a loop turn later.
PublishSale(s) ==
  /\ selling' = selling \ {s}
  /\ queue' = Append(queue, Update(s.asin, s.new, s.previous))
  /\ UNCHANGED <<service, stock, ticks, placed, sales, ordered, delivered, sold>>

Next ==
  \/ Start
  \/ Stop
  \/ \E on \in BOOLEAN, lead \in Extras, percent \in Rates : SetDisruption(on, lead, percent)
  \/ Dispatch
  \/ PublishTick
  \/ \E a \in Asins, n \in Quantities : PublishOrder(a, n)
  \/ \E a \in Asins, demand \in Demands : Sell(a, demand)
  \/ \E s \in selling : PublishSale(s)

Spec == Init /\ [][Next]_vars

-----------------------------------------------------------------------------
Orders == [id : Nat, asin : Asins, quantity : Nat, arrival : Nat, partial : BOOLEAN, cut : Nat]
Events ==
  [kind : {"tick"}, number : Nat]
    \cup [kind : {"order"}, asin : Asins, quantity : Quantities]
    \cup [kind : {"update"}, asin : Asins, new : Nat, previous : Nat]

ServiceTypeOK ==
  /\ pending \subseteq Orders /\ lastId \in Nat
  /\ active \in BOOLEAN /\ extra \in Nat /\ rate \in 0..100
  /\ now \in Nat /\ started \in BOOLEAN /\ subscribed \in BOOLEAN
  /\ stock \in [Asins -> Nat] /\ queue \in Seq(Events)
  /\ selling \subseteq [id : Nat, asin : Asins, new : Nat, previous : Nat]
  /\ ticks \in Nat /\ placed \in Nat /\ sales \in Nat

\* The type of every variable.
TypeOK ==
  /\ ServiceTypeOK
  /\ ordered \in [Asins -> Nat] /\ delivered \in [Asins -> Nat] /\ sold \in [Asins -> Nat]

Outstanding(a) == SumFunction([o \in {x \in pending : x.asin = a} |-> o.quantity])

\* Cut, requeued, delayed or disrupted, and however often the service is stopped
\* and started: what was ordered of it is on its way or has been delivered, to
\* the unit (process_tick, _on_place_order).
OrdersConserved == \A a \in Asins : ordered[a] = delivered[a] + Outstanding(a)

\* Whatever the lead time came to, after a tick nothing is left that was due
\* at it (_on_place_order, process_tick).
NothingOverdue == \A o \in pending : o.arrival > now

\* A disruption holds an order back by one tick at most, however long it lasts
\* and whatever its rate: one tick after an order was cut, all of it has come
\* (partial_applied).
CutOnce == \A o \in pending : o.partial => now <= o.cut

(* The services as Inventory: an update in flight counts as done when it is  *)
(* published, a sale when it is decided.                                     *)
SalesOf(a) == {s \in selling : s.asin = a}
UpdatesOf(a) == {k \in DOMAIN queue : queue[k].kind = "update" /\ queue[k].asin = a}
OnHand(a) ==
  IF SalesOf(a) # {} THEN (CHOOSE s \in SalesOf(a) : TRUE).new
  ELSE IF UpdatesOf(a) # {} THEN queue[Max(UpdatesOf(a))].new
  ELSE stock[a]

Abstract == INSTANCE Inventory WITH
  outstanding <- [a \in Asins |-> Outstanding(a)],
  onhand      <- [a \in Asins |-> OnHand(a)]

\* At most one new quantity of the product is on its way to the store.
Alone(a) ==
  /\ \A s, r \in SalesOf(a) : s = r
  /\ \A i, j \in UpdatesOf(a) : i = j
  /\ SalesOf(a) = {} \/ UpdatesOf(a) = {}

\* Each step keeps the units of every product of which it meets no two moves,
\* nor leaves two, whatever else is under way: other events on the bus, moves
\* of other products, any number of orders, a disruption switched or the service
\* stopped and started.  A unit that arrives comes off an order, and one that
\* goes is sold (process_tick, handle_inventory_update, process_for_asin).
KeepsEveryUnit ==
  /\ Abstract!Init
  /\ [][\A a \in Asins : Alone(a) /\ Alone(a)' => Abstract!Step(a)]_vars

-----------------------------------------------------------------------------
(* What the code says and does not do. *)

\* docs/simulation_services.md:59 "When orders arrive, it publishes
\* InventoryUpdate events to update canonical inventory": once every update
\* has been applied, what arrived and was not sold is in stock.
ArrivalsReachTheStock ==
  queue = <<>> /\ selling = {} => \A a \in Asins : stock[a] = InitialStock + delivered[a] - sold[a]
=============================================================================
