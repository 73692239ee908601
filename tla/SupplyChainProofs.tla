-------------------------- MODULE SupplyChainProofs --------------------------
(***************************************************************************)
(* For every product, quantity, rate, lead time and multiplier: types,     *)
(* that no order outstays the tick it is due at, nor one that was cut the  *)
(* tick after, that no unit ordered is lost, and that the services         *)
(* implement Inventory, of every product, step by step, except where two   *)
(* of its moves are on their way at once.                                  *)
(***************************************************************************)
EXTENDS SupplyChain, Sums

\* What is left of a cut order is due at the next tick.
RestIsNext == \A o \in pending : o.partial => o.arrival <= o.cut + 1

IInv == ServiceTypeOK /\ IsFiniteSet(pending) /\ NothingOverdue /\ CutOnce /\ RestIsNext

-----------------------------------------------------------------------------
(* Arithmetic. *)

\* A share of up to a hundred percent, rounded down, is a natural number.
LEMMA Percent == ASSUME NEW q \in Nat, NEW r \in 0..100 PROVE (q * r) \div 100 \in Nat
<1>1. q * r \in Nat
  OBVIOUS
<1>2. \A x \in Nat : x \div 100 \in Nat
  OBVIOUS
<1> QED
  BY <1>1, <1>2

LEMMA AtLeastType ==
  ASSUME NEW floor \in Int, NEW n \in Int
  PROVE  AtLeast(floor, n) \in Int /\ AtLeast(floor, n) >= floor
BY DEF AtLeast

\* Every lead time is at least one tick, whoever supplied its parts.
LEMMA LeadTimesArePositive ==
  ASSUME SupplyAssumption, ServiceTypeOK, NEW lead \in LeadTimes
  PROVE  lead \in Nat /\ lead >= 1
<1>1. PICK base \in {BaseLead} \cup SupplierLeads, m \in Multipliers, v \in Variances :
        lead = LeadTime(base, m, v)
  BY DEF LeadTimes
<1>2. base \in Nat /\ m \in Nat /\ v \in Int /\ 1 - BaseLead \in Int
  BY DEF SupplyAssumption
<1>3. (IF active THEN extra ELSE 0) \in Nat
  BY DEF ServiceTypeOK
<1>4. base + (IF active THEN extra ELSE 0) \in Nat
  BY <1>2, <1>3
<1>5. (base + (IF active THEN extra ELSE 0)) * m \in Nat
  BY <1>2, <1>4
<1>6. ((base + (IF active THEN extra ELSE 0)) * m) \div 10 \in Int
  BY <1>5
<1>7. AtLeast(1 - BaseLead, v) \in Int
  BY <1>2, AtLeastType
<1>8. ((base + (IF active THEN extra ELSE 0)) * m) \div 10 + AtLeast(1 - BaseLead, v) \in Int
  BY <1>6, <1>7
<1>9. lead \in Int /\ lead >= 1
  BY <1>1, <1>8, AtLeastType DEF LeadTime
<1> QED
  BY <1>9

LEMMA MinOfTwo ==
  ASSUME NEW x \in Nat, NEW y \in Nat
  PROVE  Min({x, y}) \in {x, y} /\ Min({x, y}) <= y
<1>1. \E m \in {x, y} : \A z \in {x, y} : m <= z
  OBVIOUS
<1>2. /\ Min({x, y}) \in {x, y}
      /\ \A z \in {x, y} : Min({x, y}) <= z
  BY <1>1 DEF Min
<1> QED
  BY <1>2

-----------------------------------------------------------------------------
(* One call of process_tick at tick t. *)

LEMMA DeliveredType ==
  ASSUME ServiceTypeOK, NEW o \in pending
  PROVE  Delivered(o) \in Nat
<1>1. o \in Orders /\ rate \in 0..100
  BY DEF ServiceTypeOK
<1>2. o.quantity \in Nat
  BY <1>1 DEF Orders
<1>3. (o.quantity * rate) \div 100 \in Nat
  BY <1>1, <1>2, Percent
<1> QED
  BY <1>2, <1>3 DEF Delivered

\* What is requeued was cut at this very tick.
LEMMA RequeuedOrders ==
  ASSUME ServiceTypeOK, NEW t \in Nat, NEW o \in Requeued(t)
  PROVE  o \in Orders /\ o.arrival = t + 1 /\ o.cut = t
<1>1. PICK x \in Due(t) : /\ Delivered(x) < x.quantity
                          /\ o = [x EXCEPT !.quantity = x.quantity - Delivered(x),
                                           !.arrival = t + 1, !.partial = x.partial \/ active,
                                           !.cut = IF x.partial THEN x.cut ELSE t]
  BY DEF Requeued
<1>2. x \in pending /\ x \in Orders
  BY DEF Due, ServiceTypeOK
<1>3. Delivered(x) \in Nat
  BY <1>2, DeliveredType
<1>4. ~x.partial
  BY <1>1, <1>2, <1>3 DEF Delivered, Orders
<1>5. x.quantity - Delivered(x) \in Nat
  BY <1>1, <1>2, <1>3 DEF Orders
<1>6. (x.partial \/ active) \in BOOLEAN
  BY DEF ServiceTypeOK
<1> DEFINE q == x.quantity - Delivered(x)
           p == x.partial \/ active
<1>7. o = [id |-> x.id, asin |-> x.asin, quantity |-> q, arrival |-> t + 1,
           partial |-> p, cut |-> t]
  BY <1>1, <1>2, <1>4 DEF Orders
<1>8. x.id \in Nat /\ x.asin \in Asins
  BY <1>2 DEF Orders
<1>9. q \in Nat /\ p \in BOOLEAN
  BY <1>5, <1>6
<1> HIDE DEF q, p
<1>10. o \in Orders
  BY <1>7, <1>8, <1>9 DEF Orders
<1> QED
  BY <1>7, <1>10

\* The orders after process_tick, whatever tick it is called with.
LEMMA TickOrders ==
  ASSUME IInv, NEW t \in Nat, pending' = (pending \ Due(t)) \cup Requeued(t), now' = t
  PROVE  pending' \subseteq Orders /\ NothingOverdue' /\ CutOnce' /\ RestIsNext'
<1>1. ASSUME NEW o \in pending'
      PROVE  /\ o \in Orders /\ o.arrival > t
             /\ o.partial => t <= o.cut /\ o.arrival <= o.cut + 1
  <2>1. CASE o \in Requeued(t)
    <3>1. o \in Orders /\ o.arrival = t + 1 /\ o.cut = t
      BY <2>1, RequeuedOrders DEF IInv
    <3> QED
      BY <3>1
  <2>2. CASE o \in pending \ Due(t)
    <3>1. o \in Orders
      BY <2>2 DEF IInv, ServiceTypeOK
    <3>2. o.arrival > t
      BY <2>2, <3>1 DEF Due, Orders
    <3>3. o.partial => o.arrival <= o.cut + 1
      BY <2>2 DEF IInv, RestIsNext
    <3> QED
      BY <3>1, <3>2, <3>3 DEF Orders
  <2> QED
    BY <1>1, <2>1, <2>2
<1>2. pending' \subseteq Orders
  BY <1>1
<1>3. NothingOverdue'
  BY <1>1 DEF NothingOverdue
<1>4. CutOnce'
  BY <1>1 DEF CutOnce
<1>5. RestIsNext'
  BY <1>1 DEF RestIsNext
<1> QED
  BY <1>2, <1>3, <1>4, <1>5

LEMMA TickFinite ==
  ASSUME IsFiniteSet(pending), NEW t, pending' = (pending \ Due(t)) \cup Requeued(t)
  PROVE  IsFiniteSet(pending')
<1> DEFINE S == {x \in Due(t) : Delivered(x) < x.quantity}
           rest(o) == [o EXCEPT !.quantity = o.quantity - Delivered(o),
                                !.arrival = t + 1, !.partial = o.partial \/ active,
                                !.cut = IF o.partial THEN o.cut ELSE t]
           f == [o \in S |-> rest(o)]
<1>1. IsFiniteSet(S)
  BY FS_Subset DEF Due
<1>2. f \in Surjection(S, Requeued(t))
  BY DEF Requeued, Surjection
<1>3. IsFiniteSet(Requeued(t))
  BY <1>1, <1>2, FS_Surjection DEF ExistsSurjection
<1>4. IsFiniteSet(pending \ Due(t))
  BY FS_Difference
<1> QED
  BY <1>3, <1>4, FS_Union

LEMMA TickQueue ==
  ASSUME ServiceTypeOK, IsFiniteSet(pending), NEW t \in Nat, NEW base \in Seq(Events),
         ProcessTick(t, base)
  PROVE  queue' \in Seq(Events)
<1> DEFINE S == Arriving(t)
           n == Cardinality(S)
<1>1. n \in Nat
  BY FS_Subset, FS_CardinalityType DEF Arriving, Due
<1>2. PICK s \in [1..n -> S] : queue' = base \o [k \in 1..n |-> Arrival(s[k])]
  BY DEF ProcessTick, InOrder
<1>3. ASSUME NEW k \in 1..n PROVE Arrival(s[k]) \in Events
  <2>1. s[k] \in pending /\ s[k] \in Orders
    BY <1>2, <1>3 DEF Arriving, Due, ServiceTypeOK
  <2>2. Delivered(s[k]) \in Nat
    BY <2>1, DeliveredType
  <2>3. s[k].asin \in Asins
    BY <2>1 DEF Orders
  <2>4. stock[s[k].asin] \in Nat
    BY <2>3 DEF ServiceTypeOK
  <2>5. stock[s[k].asin] + Delivered(s[k]) \in Nat
    BY <2>2, <2>4
  <2>6. Arrival(s[k]) \in [kind : {"update"}, asin : Asins, new : Nat, previous : Nat]
    BY <2>3, <2>4, <2>5 DEF Arrival, Update
  <2> QED
    BY <2>6 DEF Events
<1> DEFINE u == [k \in 1..n |-> Arrival(s[k])]
<1>4. u \in Seq(Events)
  BY <1>1, <1>3
<1>5. queue' = base \o u
  BY <1>2
<1> HIDE DEF u
<1>6. base \o u \in Seq(Events)
  BY <1>4
<1> QED
  BY <1>5, <1>6

-----------------------------------------------------------------------------
(* The steps. *)

LEMMA OrderEvent == ASSUME NEW e \in Events, e.kind = "order"
                    PROVE  e.asin \in Asins /\ e.quantity \in Quantities
BY DEF Events

LEMMA TickEvent == ASSUME NEW e \in Events, e.kind = "tick" PROVE e.number \in Nat
BY DEF Events

LEMMA UpdateEvent == ASSUME NEW e \in Events, e.kind = "update"
                     PROVE  e.asin \in Asins /\ e.new \in Nat
BY DEF Events

\* A step that leaves the orders and the tick alone.
LEMMA QuietStep ==
  ASSUME IInv, UNCHANGED <<pending, now>>
  PROVE  IsFiniteSet(pending') /\ NothingOverdue' /\ CutOnce' /\ RestIsNext'
BY DEF IInv, NothingOverdue, CutOnce, RestIsNext

\* The order a handler schedules.
Placed(e, lead) ==
  [id |-> lastId + 1, asin |-> e.asin, quantity |-> e.quantity,
   arrival |-> now + lead, partial |-> FALSE, cut |-> 0]

\* A new order falls due after the current tick and was never cut.
LEMMA PlaceStep ==
  ASSUME SupplyAssumption, IInv, NEW e \in Events, e.kind = "order", OnPlaceOrder(e),
         queue' \in Seq(Events), UNCHANGED <<selling, ticks, placed, sales>>
  PROVE  IInv'
<1>2. ServiceTypeOK /\ IsFiniteSet(pending)
  BY DEF IInv
<1>3. lastId \in Nat /\ now \in Nat /\ now' = now
  BY <1>2 DEF ServiceTypeOK, OnPlaceOrder
<1>4. e.asin \in Asins /\ e.quantity \in Nat
  BY OrderEvent DEF SupplyAssumption
<1>0. CASE ~subscribed
  <2>1. UNCHANGED <<pending, now, lastId>>
    BY <1>0, <1>3 DEF OnPlaceOrder
  <2>2. ServiceTypeOK'
    BY <1>2, <2>1 DEF ServiceTypeOK, OnPlaceOrder
  <2> QED
    BY <2>1, <2>2, QuietStep DEF IInv
<1>1. SUFFICES ASSUME subscribed PROVE IInv'
  BY <1>0
<1>5. PICK lead \in LeadTimes : pending' = pending \cup {Placed(e, lead)}
  BY <1>1 DEF OnPlaceOrder, Placed
<1> DEFINE o == Placed(e, lead)
<1>6. o \in Orders /\ o.arrival > now /\ ~o.partial
  <2>1. lead \in Nat /\ lead >= 1
    BY <1>2, LeadTimesArePositive
  <2>2. lastId + 1 \in Nat /\ now + lead \in Nat
    BY <1>3, <2>1
  <2> QED
    BY <1>3, <1>4, <2>1, <2>2 DEF Orders, Placed
<1>7. lastId' \in Nat
  BY <1>1, <1>3 DEF OnPlaceOrder
<1> HIDE DEF o
<1>8. IsFiniteSet(pending')
  <2>1. IsFiniteSet({o})
    BY FS_Singleton
  <2>2. pending' = pending \cup {o}
    BY <1>5 DEF o
  <2> QED BY <1>2, <2>1, <2>2, FS_Union
<1>9. pending' = pending \cup {o} /\ pending' \subseteq Orders
  BY <1>2, <1>5, <1>6 DEF ServiceTypeOK, o
<1>10. ServiceTypeOK'
  BY <1>2, <1>3, <1>7, <1>9 DEF ServiceTypeOK, OnPlaceOrder
<1>11. NothingOverdue'
  BY <1>3, <1>6, <1>9 DEF IInv, NothingOverdue
<1>12. CutOnce'
  BY <1>3, <1>6, <1>9 DEF IInv, CutOnce
<1>13. RestIsNext'
  BY <1>6, <1>9 DEF IInv, RestIsNext
<1> QED
  BY <1>8, <1>10, <1>11, <1>12, <1>13 DEF IInv

\* The bus hands over its oldest event.
LEMMA DispatchStep == ASSUME SupplyAssumption, IInv, Dispatch PROVE IInv'
<1>1. queue \in Seq(Events) /\ queue # <<>> /\ ServiceTypeOK
  BY DEF IInv, ServiceTypeOK, Dispatch
<1>2. Head(queue) \in Events /\ Tail(queue) \in Seq(Events)
  BY <1>1
<1>3. UNCHANGED <<selling, ticks, placed, sales>>
  BY DEF Dispatch
<1> DEFINE e == Head(queue)
<1>4. CASE e.kind = "tick" /\ OnTick(e)
  <2>1. e.number \in Nat
    BY <1>2, <1>4, TickEvent
  <2>2. UNCHANGED <<active, extra, rate, started, subscribed, lastId, stock>>
    BY <1>4 DEF OnTick
  <2>3. CASE subscribed
    <3>1. /\ now' = e.number /\ ProcessTick(e.number, Tail(queue))
          /\ pending' = (pending \ Due(e.number)) \cup Requeued(e.number)
      BY <1>4, <2>3 DEF OnTick, ProcessTick
    <3> HIDE DEF e
    <3>2. IsFiniteSet(pending)
      BY DEF IInv
    <3>3. queue' \in Seq(Events)
      BY <1>1, <1>2, <2>1, <3>1, <3>2, TickQueue
    <3>4. pending' \subseteq Orders /\ NothingOverdue' /\ CutOnce' /\ RestIsNext'
      BY <2>1, <3>1, TickOrders
    <3>5. IsFiniteSet(pending')
      BY <3>1, <3>2, TickFinite
    <3>6. ServiceTypeOK'
      BY <1>1, <1>3, <2>1, <2>2, <3>1, <3>3, <3>4 DEF ServiceTypeOK
    <3> QED
      BY <3>4, <3>5, <3>6 DEF IInv
  <2>4. CASE ~subscribed
    <3>1. queue' = Tail(queue) /\ UNCHANGED <<now, pending>>
      BY <1>4, <2>4 DEF OnTick
    <3>2. ServiceTypeOK'
      BY <1>1, <1>2, <1>3, <2>2, <3>1 DEF ServiceTypeOK
    <3> QED
      BY <3>1, <3>2, QuietStep DEF IInv
  <2> QED
    BY <2>3, <2>4
<1>5. CASE e.kind = "order" /\ OnPlaceOrder(e) /\ queue' = Tail(queue)
  BY <1>2, <1>3, <1>5, PlaceStep
<1>6. CASE e.kind = "update" /\ OnInventoryUpdate(e) /\ queue' = Tail(queue)
  <2>1. e.asin \in Asins /\ e.new \in Nat
    BY <1>2, <1>6, UpdateEvent
  <2>2. UNCHANGED service /\ stock' = [stock EXCEPT ![e.asin] = e.new]
    BY <1>6 DEF OnInventoryUpdate
  <2> HIDE DEF e
  <2>3. stock' \in [Asins -> Nat]
    BY <1>1, <2>1, <2>2 DEF ServiceTypeOK
  <2>4. ServiceTypeOK'
    BY <1>1, <1>2, <1>3, <1>6, <2>2, <2>3 DEF ServiceTypeOK, service
  <2>5. UNCHANGED <<pending, now>>
    BY <2>2 DEF service
  <2> QED
    BY <2>4, <2>5, QuietStep DEF IInv
<1> QED
  BY <1>4, <1>5, <1>6 DEF Dispatch

\* Putting an event at the end of the queue.
LEMMA AppendEvent == ASSUME NEW q \in Seq(Events), NEW e \in Events
                     PROVE  Append(q, e) \in Seq(Events)
OBVIOUS

LEMMA StepIInv == ASSUME SupplyAssumption, IInv, [Next]_vars PROVE IInv'
<1>0. ServiceTypeOK /\ queue \in Seq(Events)
  BY DEF IInv, ServiceTypeOK
<1>1. CASE Start \/ Stop
  <2>1. /\ UNCHANGED <<pending, active, extra, rate, now, lastId>>
        /\ UNCHANGED <<stock, queue, selling, ticks, placed, sales>>
    BY <1>1 DEF Start, Stop
  <2>2. subscribed' \in BOOLEAN
    BY <1>0, <1>1 DEF ServiceTypeOK, Start, Stop
  <2>3. started' \in BOOLEAN
    BY <1>1 DEF Start, Stop
  <2>4. ServiceTypeOK'
    BY <1>0, <2>1, <2>2, <2>3 DEF ServiceTypeOK
  <2> QED
    BY <2>1, <2>4, QuietStep DEF IInv
<1>2. ASSUME NEW on \in BOOLEAN, NEW lead \in Extras, NEW percent \in Rates,
             SetDisruption(on, lead, percent)
      PROVE  IInv'
  <2>1. lead \in Nat /\ percent \in 0..100
    BY DEF SupplyAssumption
  <2>2. ServiceTypeOK'
    BY <1>0, <1>2, <2>1 DEF ServiceTypeOK, SetDisruption
  <2> QED
    BY <1>2, <2>2, QuietStep DEF IInv, SetDisruption
<1>3. CASE Dispatch
  BY <1>3, DispatchStep
<1>4. CASE PublishTick
  <2>1. Tick(ticks) \in Events
    BY <1>0 DEF ServiceTypeOK, Tick, Events
  <2>2. queue' \in Seq(Events)
    BY <1>0, <1>4, <2>1, AppendEvent DEF PublishTick
  <2>3. ServiceTypeOK' /\ UNCHANGED <<pending, now>>
    BY <1>0, <1>4, <2>2 DEF PublishTick, ServiceTypeOK, service
  <2> QED
    BY <2>3, QuietStep DEF IInv
<1>5. ASSUME NEW a \in Asins, NEW n \in Quantities, PublishOrder(a, n) PROVE IInv'
  <2>1. Order(a, n) \in Events
    BY DEF Order, Events
  <2>2. queue' \in Seq(Events)
    BY <1>0, <1>5, <2>1, AppendEvent DEF PublishOrder
  <2>3. ServiceTypeOK' /\ UNCHANGED <<pending, now>>
    BY <1>0, <1>5, <2>2 DEF PublishOrder, ServiceTypeOK, service
  <2> QED
    BY <2>3, QuietStep DEF IInv
<1>6. ASSUME NEW a \in Asins, NEW d \in Demands, Sell(a, d) PROVE IInv'
  <2> DEFINE units == Min({d, stock[a]})
             s == [id |-> sales, asin |-> a, new |-> stock[a] - units, previous |-> stock[a]]
  <2>1. stock[a] \in Nat /\ sales \in Nat /\ d \in Nat
    BY <1>0 DEF ServiceTypeOK, SupplyAssumption
  <2>2. units \in {d, stock[a]} /\ units <= stock[a]
    BY <2>1, MinOfTwo
  <2>3. stock[a] - units \in Nat
    BY <2>1, <2>2
  <2>4. selling' = selling \cup {s} /\ sales' = sales + 1
    BY <1>6 DEF Sell
  <2>5. UNCHANGED <<service, stock, queue, ticks, placed>>
    BY <1>6 DEF Sell
  <2>6. s \in [id : Nat, asin : Asins, new : Nat, previous : Nat]
    BY <2>1, <2>3
  <2> HIDE DEF s
  <2>7. ServiceTypeOK' /\ UNCHANGED <<pending, now>>
    BY <1>0, <2>1, <2>4, <2>5, <2>6 DEF ServiceTypeOK, service
  <2> QED
    BY <2>7, QuietStep DEF IInv
<1>7. ASSUME NEW s \in selling, PublishSale(s) PROVE IInv'
  <2>1. s.asin \in Asins /\ s.new \in Nat /\ s.previous \in Nat
    BY <1>0 DEF ServiceTypeOK
  <2>2. Update(s.asin, s.new, s.previous)
          \in [kind : {"update"}, asin : Asins, new : Nat, previous : Nat]
    BY <2>1 DEF Update
  <2>3. Update(s.asin, s.new, s.previous) \in Events
    BY <2>2 DEF Events
  <2>4. queue' \in Seq(Events)
    BY <1>0, <1>7, <2>3, AppendEvent DEF PublishSale
  <2>5. ServiceTypeOK' /\ UNCHANGED <<pending, now>>
    BY <1>0, <1>7, <2>4 DEF PublishSale, ServiceTypeOK, service
  <2> QED
    BY <2>5, QuietStep DEF IInv
<1>8. CASE UNCHANGED vars
  <2>1. ServiceTypeOK' /\ UNCHANGED <<pending, now>>
    BY <1>0, <1>8 DEF vars, service, ServiceTypeOK
  <2> QED
    BY <2>1, QuietStep DEF IInv
<1> QED
  BY <1>1, <1>2, <1>3, <1>4, <1>5, <1>6, <1>7, <1>8 DEF Next

LEMMA InitIInv == ASSUME SupplyAssumption, Init PROVE IInv
<1>1. ServiceTypeOK
  <2>1. queue \in Seq(Events)
    BY DEF Init
  <2>2. stock \in [Asins -> Nat]
    BY DEF Init, SupplyAssumption
  <2>3. active \in BOOLEAN /\ started \in BOOLEAN /\ subscribed \in BOOLEAN
    BY DEF Init
  <2>4. /\ pending \subseteq Orders /\ lastId \in Nat
        /\ extra \in Nat /\ rate \in 0..100 /\ now \in Nat
        /\ selling \subseteq [id : Nat, asin : Asins, new : Nat, previous : Nat]
        /\ ticks \in Nat /\ placed \in Nat /\ sales \in Nat
    BY DEF Init
  <2> QED
    BY <2>1, <2>2, <2>3, <2>4 DEF ServiceTypeOK
<1>2. IsFiniteSet(pending)
  BY FS_EmptySet DEF Init
<1>3. NothingOverdue /\ CutOnce /\ RestIsNext
  BY DEF Init, NothingOverdue, CutOnce, RestIsNext
<1> QED
  BY <1>1, <1>2, <1>3 DEF IInv

\* The inductive invariant holds in every behaviour of the services.
THEOREM SupplyInvariant == Spec => []IInv
<1>1. Init => IInv
  BY InitIInv, SupplyAssumption
<1>2. IInv /\ [Next]_vars => IInv'
  BY StepIInv, SupplyAssumption
<1> QED
  BY <1>1, <1>2, PTL DEF Spec

\* After a tick, no order is left that was due at it.
THEOREM Punctual == Spec => []NothingOverdue
<1>1. IInv => NothingOverdue
  BY DEF IInv
<1> QED
  BY <1>1, SupplyInvariant, PTL

\* One tick after an order was cut, all of it has come.
THEOREM CutAtMostOnce == Spec => []CutOnce
<1>1. IInv => CutOnce
  BY DEF IInv
<1> QED
  BY <1>1, SupplyInvariant, PTL

-----------------------------------------------------------------------------
(* The units on order.  An order keeps its id for as long as anything of it *)
(* is to come, and no two share one, so that what a tick cuts never falls   *)
(* together with another order in the set.                                  *)

DistinctOrders ==
  /\ \A o \in pending : o.id <= lastId
  /\ \A o, p \in pending : o.id = p.id => o = p

Of(S, a) == {o \in S : o.asin = a}
Units(S) == SumFunction([o \in S |-> o.quantity])
Brought(S) == SumFunction([o \in S |-> Delivered(o)])

\* Units are counted alike in a set and in any larger one.
LEMMA UnitsWithin ==
  ASSUME NEW S, IsFiniteSet(S), \A o \in S : o.quantity \in Int, NEW f,
         \A o \in S : f[o] = o.quantity
  PROVE  Units(S) = SumFunctionOnSet(f, S) /\ Units(S) \in Int
<1> DEFINE g == [o \in S |-> o.quantity]
<1>1. \A o \in S : f[o] \in Int /\ g[o] = f[o]
  OBVIOUS
<1>2. Units(S) = SumFunctionOnSet(g, S)
  BY DEF Units, SumFunction
<1> HIDE DEF g
<1>3. SumFunctionOnSet(g, S) = SumFunctionOnSet(f, S)
  BY <1>1, SumOfEquals
<1>4. SumFunctionOnSet(f, S) \in Int
  BY <1>1, SumStep
<1> QED
  BY <1>2, <1>3, <1>4

LEMMA UnitsOfUnion ==
  ASSUME NEW S, IsFiniteSet(S), NEW U, IsFiniteSet(U), S \cap U = {},
         \A o \in S \cup U : o.quantity \in Int
  PROVE  Units(S \cup U) = Units(S) + Units(U)
<1> DEFINE f == [o \in S \cup U |-> o.quantity]
<1>1. \A o \in S \cup U : f[o] \in Int /\ f[o] = o.quantity
  OBVIOUS
<1>2. IsFiniteSet(S \cup U)
  BY FS_Union
<1> HIDE DEF f
<1>3. Units(S) = SumFunctionOnSet(f, S) /\ Units(U) = SumFunctionOnSet(f, U)
  BY <1>1, UnitsWithin
<1>4. Units(S \cup U) = SumFunctionOnSet(f, S \cup U)
  BY <1>1, <1>2, UnitsWithin
<1>5. SumFunctionOnSet(f, S \cup U) = SumFunctionOnSet(f, S) + SumFunctionOnSet(f, U)
  BY <1>1, SumOfUnion
<1> QED
  BY <1>3, <1>4, <1>5

LEMMA UnitsOfOne ==
  ASSUME NEW o, o.quantity \in Int
  PROVE  Units({}) = 0 /\ Units({o}) = o.quantity
<1> DEFINE f == [x \in {o} |-> x.quantity]
           g == [x \in {} |-> x.quantity]
<1>1. f[o] = o.quantity /\ \A y \in {} \cup {o} : f[y] \in Int
  OBVIOUS
<1>2. Units({}) = SumFunctionOnSet(g, {}) /\ Units({o}) = SumFunctionOnSet(f, {o})
  BY DEF Units, SumFunction
<1> HIDE DEF f, g
<1>3. SumFunctionOnSet(g, {}) = 0 /\ SumFunctionOnSet(f, {}) = 0
  BY SumOfNothing
<1>4. SumFunctionOnSet(f, {} \cup {o}) = f[o] + SumFunctionOnSet(f, {})
  BY <1>1, FS_EmptySet, SumAdd
<1>5. {} \cup {o} = {o}
  OBVIOUS
<1> QED
  BY <1>1, <1>2, <1>3, <1>4, <1>5

LEMMA QuantitiesAreNumbers ==
  ASSUME IInv, NEW a
  PROVE  /\ \A o \in pending : o.quantity \in Nat
         /\ Outstanding(a) = Units(Of(pending, a)) /\ Outstanding(a) \in Nat
<1>1. IsFiniteSet(pending) /\ \A o \in pending : o.quantity \in Nat
  BY DEF IInv, ServiceTypeOK, Orders
<1> DEFINE S == Of(pending, a)
           f == [o \in S |-> o.quantity]
<1>2. S \subseteq pending /\ Outstanding(a) = SumFunctionOnSet(f, S) /\ Outstanding(a) = Units(S)
      /\ \A o \in S : f[o] \in Nat
  BY <1>1 DEF Of, Outstanding, Units, SumFunction
<1> HIDE DEF S, f
<1>3. IsFiniteSet(S)
  BY <1>1, <1>2, FS_Subset
<1>4. SumFunctionOnSet(f, S) \in Nat
  BY <1>2, <1>3, SumNat
<1> QED
  BY <1>1, <1>2, <1>4 DEF S

\* The same of the state a step leads to.
LEMMA OutstandingNext == ASSUME IInv', NEW a PROVE Outstanding(a)' \in Nat
<1> DEFINE S == Of(pending', a)
           f == [o \in S |-> o.quantity]
<1>1. Outstanding(a)' = SumFunctionOnSet(f, S)
  BY DEF Outstanding, Of, SumFunction
<1>2. IsFiniteSet(S) /\ \A o \in S : f[o] \in Nat
  <2>1. IsFiniteSet(pending') /\ \A o \in pending' : o.quantity \in Nat
    BY DEF IInv, ServiceTypeOK, Orders
  <2>2. S \subseteq pending'
    BY DEF Of
  <2> QED BY <2>1, <2>2, FS_Subset
<1> HIDE DEF f
<1> QED
  BY <1>1, <1>2, SumNat

\* A rate of at most a hundred percent brings no more than was ordered.
LEMMA DeliveredAtMost ==
  ASSUME ServiceTypeOK, NEW o \in pending
  PROVE  Delivered(o) <= o.quantity
<1>1. o.quantity \in Nat /\ rate \in 0..100
  BY DEF ServiceTypeOK, Orders
<1> DEFINE q == o.quantity
           x == q * rate
<1>2. x \in Nat /\ x <= q * 100
  BY <1>1
<1>3. \A n, k \in Nat : n <= k * 100 => n \div 100 <= k
  OBVIOUS
<1>4. x \div 100 <= q
  <2> HIDE DEF x
  <2> QED BY <1>1, <1>2, <1>3
<1> QED
  BY <1>1, <1>4 DEF Delivered

\* What a tick leaves of an order.
Rest(o, t) ==
  [o EXCEPT !.quantity = o.quantity - Delivered(o),
            !.arrival = t + 1, !.partial = o.partial \/ active,
            !.cut = IF o.partial THEN o.cut ELSE t]

LEMMA RestFields ==
  ASSUME ServiceTypeOK, NEW o \in pending, NEW t
  PROVE  /\ Rest(o, t).id = o.id /\ Rest(o, t).asin = o.asin
         /\ Rest(o, t).quantity = o.quantity - Delivered(o)
BY DEF ServiceTypeOK, Orders, Rest

\* After a tick no two orders share an id: what is left of one takes its place.
LEMMA TickKeepsDistinct ==
  ASSUME ServiceTypeOK, DistinctOrders, NEW t,
         pending' = (pending \ Due(t)) \cup Requeued(t), lastId' = lastId
  PROVE  /\ DistinctOrders'
         /\ \A o \in pending' : \E x \in pending : o.id = x.id /\ o.asin = x.asin
<1>1. \A o \in Requeued(t) : \E x \in Due(t) : x \in pending /\ o = Rest(x, t)
  BY DEF Requeued, Rest, Due
<1>2. \A o \in Requeued(t) : \E x \in Due(t) : x \in pending /\ o = Rest(x, t)
                             /\ o.id = x.id /\ o.asin = x.asin
  BY <1>1, RestFields
<1>3. \A o \in pending' : \E x \in pending : o.id = x.id /\ o.asin = x.asin
  BY <1>2
<1>4. \A o \in pending' : o.id <= lastId
  BY <1>3 DEF DistinctOrders
<1>5. \A o, p \in pending' : o.id = p.id => o = p
  BY <1>2 DEF DistinctOrders
<1> QED
  BY <1>3, <1>4, <1>5 DEF DistinctOrders

\* What a tick brings of a product is what it takes off the orders: what is
\* due splits into the units that come and the rest that is requeued.
LEMMA TickUnits ==
  ASSUME IInv, DistinctOrders, NEW t \in Nat, NEW a,
         pending' = (pending \ Due(t)) \cup Requeued(t), IInv'
  PROVE  /\ Brought(Of(Due(t), a)) \in Nat
         /\ Outstanding(a) = Outstanding(a)' + Brought(Of(Due(t), a))
<1> DEFINE D == Of(Due(t), a)
           K == {x \in D : Delivered(x) < x.quantity}
           L == D \ K
           W == Of(pending \ Due(t), a)
           R == Of(Requeued(t), a)
<1>0. ServiceTypeOK /\ IsFiniteSet(pending) /\ IsFiniteSet(pending')
  BY DEF IInv
<1>1. /\ D \subseteq pending /\ K \subseteq D /\ L \subseteq D /\ W \subseteq pending
      /\ R \subseteq pending' /\ Of(pending, a) = D \cup W /\ D \cap W = {}
      /\ Of(pending, a)' = W \cup R /\ K \cup L = D /\ K \cap L = {}
  BY DEF Of, Due
<1>2. \A o \in D : /\ o.quantity \in Nat /\ Delivered(o) \in Nat
                   /\ Delivered(o) <= o.quantity
                   /\ (o \in L => o.quantity - Delivered(o) = 0)
                   /\ Rest(o, t).id = o.id /\ Rest(o, t).asin = a
                   /\ Rest(o, t).quantity = o.quantity - Delivered(o)
  <2> TAKE o \in D
  <2>1. o \in pending /\ o.asin = a
    BY <1>1 DEF Of
  <2>2. o.quantity \in Nat /\ Delivered(o) \in Nat /\ Delivered(o) <= o.quantity
    BY <1>0, <2>1, QuantitiesAreNumbers, DeliveredType, DeliveredAtMost
  <2>3. /\ Rest(o, t).id = o.id /\ Rest(o, t).asin = o.asin
        /\ Rest(o, t).quantity = o.quantity - Delivered(o)
    BY <1>0, <2>1, RestFields
  <2>4. o \in L => ~(Delivered(o) < o.quantity)
    OBVIOUS
  <2> HIDE DEF L
  <2> QED BY <2>1, <2>2, <2>3, <2>4
<1>3. R = {Rest(x, t) : x \in K}
  <2> DEFINE C == {x \in Due(t) : Delivered(x) < x.quantity}
  <2>1. Requeued(t) = {Rest(x, t) : x \in C}
    BY DEF Requeued, Rest
  <2>2. K = Of(C, a) /\ \A x \in C : Rest(x, t).asin = x.asin
    BY <1>0, RestFields DEF Of, Due
  <2> HIDE DEF C, K
  <2> QED BY <2>1, <2>2 DEF Of
<1>4. W \cap R = {}
  BY <1>1, <1>2, <1>3 DEF DistinctOrders, Of
<1>5. \A x, y \in K : Rest(x, t) = Rest(y, t) => x = y
  BY <1>1, <1>2 DEF DistinctOrders
<1>6. /\ \A o \in W : o.quantity \in Nat
      /\ \A o \in R : o.quantity \in Nat
  BY <1>1, QuantitiesAreNumbers DEF IInv, ServiceTypeOK, Orders
<1>7. IsFiniteSet(D) /\ IsFiniteSet(K) /\ IsFiniteSet(L) /\ IsFiniteSet(W) /\ IsFiniteSet(R)
  <2> HIDE DEF D, K, L, W, R
  <2>1. IsFiniteSet(D) /\ IsFiniteSet(W) /\ IsFiniteSet(R)
    BY <1>0, <1>1, FS_Subset
  <2> QED BY <1>1, <2>1, FS_Subset
<1> DEFINE q   == [o \in D |-> o.quantity]
           del == [o \in D |-> Delivered(o)]
           rem == [o \in D |-> o.quantity - Delivered(o)]
           h   == [o \in K |-> Rest(o, t)]
           f   == [o \in R |-> o.quantity]
<1>8. \A o \in D : /\ del[o] \in Int /\ rem[o] \in Int /\ q[o] = del[o] + rem[o]
                   /\ q[o] = o.quantity /\ del[o] \in Nat
  BY <1>2
<1>9. /\ \A o \in L : rem[o] = 0
      /\ \A o \in K : f[h[o]] \in Int /\ rem[o] = f[h[o]]
      /\ \A x, y \in K : h[x] = h[y] => x = y
      /\ R = {h[x] : x \in K}
      /\ \A o \in R : f[o] = o.quantity /\ o.quantity \in Int
  <2>1. \A o \in L : rem[o] = 0
    BY <1>1, <1>2
  <2>2. (\A x \in K : h[x] = Rest(x, t)) /\ R = {h[x] : x \in K}
    BY <1>3
  <2>3. \A x, y \in K : h[x] = h[y] => x = y
    BY <1>5
  <2>4. \A o \in R : f[o] = o.quantity /\ o.quantity \in Int
    BY <1>6
  <2>5. \A o \in K : rem[o] = Rest(o, t).quantity
    BY <1>1, <1>2
  <2> HIDE DEF h, f, rem, R, K
  <2> QED BY <2>1, <2>2, <2>3, <2>4, <2>5
<1>10. Outstanding(a) = Units(D \cup W) /\ Outstanding(a)' = Units(W \cup R)
  <2>1. Outstanding(a) = Units(Of(pending, a)) /\ Outstanding(a)' = Units(Of(pending, a)')
    BY DEF Outstanding, Units, Of
  <2> QED BY <1>1, <2>1
<1>11. Brought(D) = SumFunctionOnSet(del, D)
  BY DEF Brought, SumFunction
<1> HIDE DEF D, K, L, W, R, q, del, rem, h, f
<1>12. Units(D \cup W) = Units(D) + Units(W) /\ Units(W \cup R) = Units(W) + Units(R)
  BY <1>1, <1>2, <1>4, <1>6, <1>7, UnitsOfUnion
<1>13. Units(D) = SumFunctionOnSet(q, D) /\ Units(R) = SumFunctionOnSet(f, R)
  BY <1>2, <1>6, <1>7, <1>8, <1>9, UnitsWithin
<1>14. SumFunctionOnSet(q, D) = SumFunctionOnSet(del, D) + SumFunctionOnSet(rem, D)
  BY <1>7, <1>8, SumOfSums
<1>15. SumFunctionOnSet(rem, D) = SumFunctionOnSet(rem, K) + SumFunctionOnSet(rem, L)
  <2>1. \A y \in K \cup L : rem[y] \in Int
    BY <1>1, <1>8
  <2> QED BY <1>1, <1>7, <2>1, SumOfUnion
<1>16. SumFunctionOnSet(rem, L) = 0
  BY <1>7, <1>9, SumOfZeros
<1>17. SumFunctionOnSet(f, R) = SumFunctionOnSet(rem, K)
  BY <1>7, <1>9, SumOfImage
<1>18. SumFunctionOnSet(del, D) \in Nat
  BY <1>7, <1>8, SumNat
<1>19. Units(W) \in Int /\ Units(R) \in Int
  <2> DEFINE g == [o \in W |-> o.quantity]
  <2>1. \A o \in W : o.quantity \in Int /\ g[o] = o.quantity
    BY <1>6
  <2> HIDE DEF g
  <2> QED BY <1>6, <1>7, <1>9, <2>1, UnitsWithin
<1> DEFINE b == SumFunctionOnSet(del, D)
           u == Units(W)
           r == Units(R)
<1>20. Units(D) = b + r /\ b \in Nat /\ u \in Int /\ r \in Int
  <2>1. SumFunctionOnSet(rem, K) = r /\ r \in Int
    BY <1>13, <1>17, <1>19
  <2> QED BY <1>13, <1>14, <1>15, <1>16, <1>18, <1>19, <2>1
<1>21. Outstanding(a) = Units(D) + u /\ Outstanding(a)' = u + r /\ Brought(D) = b
  BY <1>10, <1>11, <1>12
<1> HIDE DEF b, u, r
<1>22. Outstanding(a) = Outstanding(a)' + Brought(D) /\ Brought(D) \in Nat
  BY <1>20, <1>21
<1> QED
  BY <1>22 DEF D

\* A handler places one order, of what was asked for, once it is subscribed.
LEMMA PlaceUnits ==
  ASSUME SupplyAssumption, IInv, DistinctOrders,
         NEW e \in Events, e.kind = "order", OnPlaceOrder(e), IInv'
  PROVE  \A a \in Asins :
              Outstanding(a)' = Outstanding(a) +
                IF subscribed /\ a = e.asin THEN e.quantity ELSE 0
<1>0. e.asin \in Asins /\ e.quantity \in Nat /\ lastId \in Nat
  BY OrderEvent DEF SupplyAssumption, IInv, ServiceTypeOK
<1>2. CASE ~subscribed
  <2>1. pending' = pending
    BY <1>2 DEF OnPlaceOrder
  <2>2. \A a \in Asins : Outstanding(a)' = Outstanding(a) /\ Outstanding(a) \in Nat
    BY <2>1, QuantitiesAreNumbers DEF Outstanding
  <2> QED
    BY <1>2, <2>1, <2>2
<1>3. CASE subscribed
  <2>0. PICK lead \in LeadTimes : pending' = pending \cup {Placed(e, lead)}
    BY <1>3 DEF OnPlaceOrder, Placed
  <2> DEFINE o == Placed(e, lead)
  <2>1. pending' = pending \cup {o}
    BY <2>0
  <2>2. o.asin = e.asin /\ o.quantity = e.quantity /\ o.id = lastId + 1
    BY DEF Placed
  <2> HIDE DEF o
  <2>3. o \notin pending
    BY <1>0, <2>2 DEF DistinctOrders
  <2>4. ASSUME NEW a \in Asins
        PROVE  Outstanding(a)' = Outstanding(a) + IF a = e.asin THEN e.quantity ELSE 0
    <3> DEFINE S == Of(pending, a)
    <3>1. Outstanding(a)' = Units(Of(pending', a)) /\ Outstanding(a) = Units(S)
          /\ Outstanding(a) \in Nat
      <4>1. Outstanding(a)' = Units(Of(pending', a))
        BY DEF Outstanding, Units, Of
      <4> QED BY <4>1, QuantitiesAreNumbers
    <3>2. /\ IsFiniteSet(S) /\ IsFiniteSet({o})
          /\ o \notin S /\ (\A x \in S \cup {o} : x.quantity \in Int)
      <4>1. IsFiniteSet(pending) /\ S \subseteq pending /\ o \notin S
        BY <2>3 DEF IInv, Of
      <4>2. \A x \in S : x.quantity \in Int
        BY <4>1, QuantitiesAreNumbers
      <4> HIDE DEF S
      <4>3. IsFiniteSet(S)
        BY <4>1, FS_Subset
      <4>4. IsFiniteSet({o})
        BY FS_Singleton
      <4> QED BY <1>0, <2>2, <4>1, <4>2, <4>3, <4>4
    <3>3. CASE a = e.asin
      <4>1. Of(pending', a) = S \cup {o}
        BY <2>1, <2>2, <3>3 DEF Of
      <4> HIDE DEF S
      <4>2. Units(S \cup {o}) = Units(S) + Units({o})
        BY <3>2, UnitsOfUnion
      <4>3. Units({o}) = e.quantity
        BY <1>0, <2>2, UnitsOfOne
      <4> QED BY <3>1, <3>3, <4>1, <4>2, <4>3
    <3>4. CASE a # e.asin
      <4>1. Of(pending', a) = S
        BY <2>1, <2>2, <3>4 DEF Of
      <4> HIDE DEF S
      <4> QED BY <3>1, <3>4, <4>1
    <3> QED BY <3>3, <3>4
  <2> QED
    BY <1>3, <2>4
<1> QED
  BY <1>2, <1>3

\* A new order is numbered on from the newest.
LEMMA PlaceKeepsDistinct ==
  ASSUME IInv, DistinctOrders, NEW e \in Events, OnPlaceOrder(e)
  PROVE  DistinctOrders'
<1>0. lastId \in Nat /\ \A o \in pending : o.id \in Nat
  BY DEF IInv, ServiceTypeOK, Orders
<1>1. CASE ~subscribed
  BY <1>1 DEF OnPlaceOrder, DistinctOrders
<1>2. CASE subscribed
  <2>1. PICK lead \in LeadTimes : pending' = pending \cup {Placed(e, lead)}
    BY <1>2 DEF OnPlaceOrder, Placed
  <2> DEFINE o == Placed(e, lead)
  <2>2. pending' = pending \cup {o} /\ o.id = lastId + 1 /\ lastId' = lastId + 1
    BY <1>2, <2>1 DEF OnPlaceOrder, Placed
  <2> HIDE DEF o
  <2>3. \A p \in pending' : p.id <= lastId'
    BY <1>0, <2>2 DEF DistinctOrders
  <2>4. \A p, q \in pending' : p.id = q.id => p = q
    BY <1>0, <2>2 DEF DistinctOrders
  <2> QED BY <2>3, <2>4 DEF DistinctOrders
<1> QED
  BY <1>1, <1>2

\* What the bus delivers, as far as orders are concerned.
Deliveries ==
  \/ UNCHANGED <<pending, lastId, ordered, delivered>>
  \/ /\ UNCHANGED <<lastId, ordered>>
     /\ \E t \in Nat : ProcessTick(t, Tail(queue))
  \/ /\ UNCHANGED delivered
     /\ \E e \in Events : e.kind = "order" /\ OnPlaceOrder(e)

LEMMA StepDelivers == ASSUME IInv, [Next]_vars PROVE Deliveries
<1>0. queue \in Seq(Events)
  BY DEF IInv, ServiceTypeOK
<1>2. CASE Dispatch
  <2> DEFINE e == Head(queue)
  <2>1. e \in Events
    BY <1>0, <1>2 DEF Dispatch
  <2>2. CASE e.kind = "tick" /\ OnTick(e)
    <3>1. e.number \in Nat /\ UNCHANGED <<lastId, ordered>>
      BY <2>1, <2>2, TickEvent DEF OnTick
    <3>2. CASE subscribed
      BY <2>2, <3>1, <3>2 DEF OnTick, Deliveries
    <3>3. CASE ~subscribed
      BY <2>2, <3>1, <3>3 DEF OnTick, Deliveries
    <3> QED BY <3>2, <3>3
  <2>3. CASE e.kind = "order" /\ OnPlaceOrder(e)
    BY <2>1, <2>3 DEF OnPlaceOrder, Deliveries
  <2>4. CASE e.kind = "update" /\ OnInventoryUpdate(e)
    BY <2>4 DEF OnInventoryUpdate, service, Deliveries
  <2> QED
    BY <1>2, <2>2, <2>3, <2>4 DEF Dispatch
<1>3. CASE UNCHANGED <<pending, lastId, ordered, delivered>>
  BY <1>3 DEF Deliveries
<1> QED
  BY <1>2, <1>3 DEF Next, vars, service, Start, Stop, SetDisruption, PublishTick, PublishOrder,
     Sell, PublishSale

CountsTyped == ordered \in [Asins -> Nat] /\ delivered \in [Asins -> Nat]

\* The invariant conservation rests on.
CountInv == IInv /\ DistinctOrders /\ CountsTyped /\ OrdersConserved

LEMMA StepCounts == ASSUME SupplyAssumption, CountInv, [Next]_vars PROVE CountInv'
<1>0. IInv /\ IInv' /\ DistinctOrders /\ CountsTyped
  BY StepIInv DEF CountInv
<1>1. CASE UNCHANGED <<pending, lastId, ordered, delivered>>
  <2>1. DistinctOrders' /\ CountsTyped'
    BY <1>0, <1>1 DEF DistinctOrders, CountsTyped
  <2>2. OrdersConserved'
    BY <1>1 DEF CountInv, OrdersConserved, Outstanding
  <2> QED BY <1>0, <2>1, <2>2 DEF CountInv
<1>2. ASSUME UNCHANGED <<lastId, ordered>>,
             NEW t \in Nat, ProcessTick(t, Tail(queue))
      PROVE  CountInv'
  <2>1. /\ pending' = (pending \ Due(t)) \cup Requeued(t)
        /\ delivered' = [a \in Asins |-> delivered[a] + Brought(Of(Due(t), a))]
    BY <1>2 DEF ProcessTick, Brought, Of
  <2>2. DistinctOrders'
    BY <1>0, <1>2, <2>1, TickKeepsDistinct DEF IInv
  <2>3. \A a \in Asins : /\ Brought(Of(Due(t), a)) \in Nat
                         /\ Outstanding(a) = Outstanding(a)' + Brought(Of(Due(t), a))
                         /\ Outstanding(a)' \in Nat
    <3> TAKE a \in Asins
    <3>1. Outstanding(a)' \in Nat
      BY <1>0, OutstandingNext
    <3> QED BY <1>0, <2>1, <3>1, TickUnits
  <2>4. CountsTyped'
    BY <1>0, <1>2, <2>1, <2>3 DEF CountsTyped
  <2>5. OrdersConserved'
    <3> SUFFICES ASSUME NEW a \in Asins
                 PROVE  ordered[a] = delivered'[a] + Outstanding(a)'
      BY <1>2 DEF OrdersConserved
    <3>1. ordered[a] = delivered[a] + Outstanding(a)
      BY DEF CountInv, OrdersConserved
    <3>2. delivered'[a] = delivered[a] + Brought(Of(Due(t), a)) /\ delivered[a] \in Nat
      BY <1>0, <2>1 DEF CountsTyped
    <3> QED BY <2>3, <3>1, <3>2
  <2> QED BY <1>0, <2>2, <2>4, <2>5 DEF CountInv
<1>3. ASSUME UNCHANGED delivered,
             NEW e \in Events, e.kind = "order", OnPlaceOrder(e)
      PROVE  CountInv'
  <2>1. DistinctOrders'
    BY <1>0, <1>3, PlaceKeepsDistinct
  <2>2. /\ e.asin \in Asins /\ e.quantity \in Nat
        /\ ordered' = IF subscribed
                      THEN [ordered EXCEPT ![e.asin] = @ + e.quantity] ELSE ordered
    BY <1>3, OrderEvent DEF OnPlaceOrder, SupplyAssumption
  <2>3. CountsTyped'
    BY <1>0, <1>3, <2>2 DEF CountsTyped
  <2>4. OrdersConserved'
    <3> SUFFICES ASSUME NEW a \in Asins
                 PROVE  ordered'[a] = delivered[a] + Outstanding(a)'
      BY <1>3 DEF OrdersConserved
    <3>1. ordered[a] = delivered[a] + Outstanding(a)
      BY DEF CountInv, OrdersConserved
    <3>2. Outstanding(a)' = Outstanding(a) +
                IF subscribed /\ a = e.asin THEN e.quantity ELSE 0
      BY <1>0, <1>3, PlaceUnits
    <3>3. ordered'[a] = ordered[a] +
                IF subscribed /\ a = e.asin THEN e.quantity ELSE 0
      BY <1>0, <2>2 DEF CountsTyped
    <3>4. Outstanding(a) \in Nat /\ delivered[a] \in Nat
      BY <1>0, QuantitiesAreNumbers DEF CountsTyped
    <3> QED BY <2>2, <3>1, <3>2, <3>3, <3>4
  <2> QED BY <1>0, <2>1, <2>3, <2>4 DEF CountInv
<1> QED
  BY <1>0, <1>1, <1>2, <1>3, StepDelivers DEF Deliveries

LEMMA InitCounts == ASSUME SupplyAssumption, Init PROVE CountInv
<1>1. \A a \in Asins : Outstanding(a) = 0
  <2> TAKE a \in Asins
  <2> DEFINE f == [o \in {x \in pending : x.asin = a} |-> o.quantity]
  <2>1. {x \in pending : x.asin = a} = {}
    BY DEF Init
  <2>2. Outstanding(a) = SumFunctionOnSet(f, {})
    BY <2>1 DEF Outstanding, SumFunction
  <2> HIDE DEF f
  <2> QED BY <2>2, SumOfNothing
<1>2. DistinctOrders /\ CountsTyped
  BY DEF Init, DistinctOrders, CountsTyped
<1>3. OrdersConserved
  BY <1>1 DEF Init, OrdersConserved
<1> QED
  BY <1>2, <1>3, InitIInv DEF CountInv

LEMMA CountsHold == Spec => []CountInv
<1>1. Init => CountInv
  BY InitCounts, SupplyAssumption
<1>2. CountInv /\ [Next]_vars => CountInv'
  BY StepCounts, SupplyAssumption
<1> QED
  BY <1>1, <1>2, PTL DEF Spec

\* Cut, requeued, delayed or disrupted: every unit ordered is on its way or
\* has been delivered (process_tick, _on_place_order).
THEOREM NoUnitLost == Spec => []OrdersConserved
<1>1. CountInv => OrdersConserved
  BY DEF CountInv
<1> QED
  BY <1>1, CountsHold, PTL

SoldTyped == sold \in [Asins -> Nat]

LEMMA StepSold ==
  ASSUME SupplyAssumption, CountInv, SoldTyped, [Next]_vars
  PROVE  SoldTyped'
<1>1. CASE \E a \in Asins, demand \in Demands : Sell(a, demand)
  <2>1. PICK a \in Asins, demand \in Demands : Sell(a, demand)
    BY <1>1
  <2>2. demand \in Nat /\ stock[a] \in Nat /\ sold[a] \in Nat
    BY DEF CountInv, IInv, ServiceTypeOK, SupplyAssumption, SoldTyped
  <2>3. Min({demand, stock[a]}) \in Nat
    BY <2>2, MinOfTwo
  <2>4. sold' = [sold EXCEPT ![a] = sold[a] + Min({demand, stock[a]})]
    BY <2>1 DEF Sell
  <2>5. sold[a] + Min({demand, stock[a]}) \in Nat
    BY <2>2, <2>3
  <2> QED
    BY <2>4, <2>5 DEF SoldTyped
<1>2. CASE ~\E a \in Asins, demand \in Demands : Sell(a, demand)
  <2>1. sold' = sold
    BY <1>2 DEF Next, vars, Start, Stop, SetDisruption, Dispatch, OnTick, OnPlaceOrder,
       OnInventoryUpdate, ProcessTick, PublishTick, PublishOrder, PublishSale
  <2> QED
    BY <2>1 DEF SoldTyped
<1> QED
  BY <1>1, <1>2

\* Type correctness, the history of what was ordered, delivered and sold included.
THEOREM Typing == Spec => []TypeOK
<1>1. Init => CountInv /\ SoldTyped
  <2>1. [a \in Asins |-> 0] \in [Asins -> Nat]
    OBVIOUS
  <2> QED
    BY <2>1, InitCounts, SupplyAssumption DEF Init, SoldTyped
<1>2. CountInv /\ SoldTyped /\ [Next]_vars => (CountInv /\ SoldTyped)'
  BY StepCounts, StepSold, SupplyAssumption
<1>3. CountInv /\ SoldTyped => TypeOK
  BY DEF CountInv, IInv, CountsTyped, SoldTyped, TypeOK
<1> QED
  BY <1>1, <1>2, <1>3, PTL DEF Spec

-----------------------------------------------------------------------------
(* The refinement, product by product.  What is on hand of a product is     *)
(* told by the one quantity on its way, if there is one, and by the store   *)
(* otherwise; a step that meets one at most and leaves one at most hands    *)
(* over what it takes.                                                      *)

Upd(e, a) == e.kind = "update" /\ e.asin = a
SalesIn(sell, a) == {s \in sell : s.asin = a}
UpdatesIn(q, a) == {k \in DOMAIN q : Upd(q[k], a)}

\* OnHand and Alone, of any sales, queue and stock.
Hand(sell, q, st, a) ==
  IF SalesIn(sell, a) # {} THEN (CHOOSE s \in SalesIn(sell, a) : TRUE).new
  ELSE IF UpdatesIn(q, a) # {} THEN q[Max(UpdatesIn(q, a))].new
  ELSE st[a]

Single(sell, q, a) ==
  /\ \A s, r \in SalesIn(sell, a) : s = r
  /\ \A i, j \in UpdatesIn(q, a) : i = j
  /\ SalesIn(sell, a) = {} \/ UpdatesIn(q, a) = {}

LEMMA OnHandIsHand ==
  ASSUME NEW a
  PROVE  /\ OnHand(a) = Hand(selling, queue, stock, a)
         /\ OnHand(a)' = Hand(selling', queue', stock', a)
BY DEF OnHand, Hand, UpdatesOf, SalesOf, UpdatesIn, SalesIn, Upd

LEMMA AloneIsSingle ==
  ASSUME NEW a
  PROVE  /\ Alone(a) => Single(selling, queue, a)
         /\ Alone(a)' => Single(selling', queue', a)
BY DEF Alone, Single, UpdatesOf, SalesOf, UpdatesIn, SalesIn, Upd

LEMMA HandSale ==
  ASSUME NEW sell, NEW q, NEW st, NEW a, NEW s \in SalesIn(sell, a),
         \A r \in SalesIn(sell, a) : r = s
  PROVE  Hand(sell, q, st, a) = s.new
BY DEF Hand

LEMMA HandUpdate ==
  ASSUME NEW sell, NEW q, NEW st, NEW a, SalesIn(sell, a) = {},
         NEW k \in UpdatesIn(q, a), \A j \in UpdatesIn(q, a) : j = k
  PROVE  Hand(sell, q, st, a) = q[k].new
<1>1. UpdatesIn(q, a) = {k}
  OBVIOUS
<1>2. Max({k}) = k
  BY DEF Max
<1> QED
  BY <1>1, <1>2 DEF Hand

LEMMA HandStock ==
  ASSUME NEW sell, NEW q, NEW st, NEW a, SalesIn(sell, a) = {}, UpdatesIn(q, a) = {}
  PROVE  Hand(sell, q, st, a) = st[a]
BY DEF Hand

\* The same updates of a product, wherever they stand in the queue.
Kept(q, q2, a) ==
  /\ \A k \in UpdatesIn(q, a) : \E j \in UpdatesIn(q2, a) : q2[j] = q[k]
  /\ \A j \in UpdatesIn(q2, a) : \E k \in UpdatesIn(q, a) : q[k] = q2[j]

\* What happens to other events and other products does not change the hand.
LEMMA HandKept ==
  ASSUME NEW sell, NEW q, NEW st, NEW sell2, NEW q2, NEW st2, NEW a,
         Single(sell, q, a), Single(sell2, q2, a),
         SalesIn(sell2, a) = SalesIn(sell, a), st2[a] = st[a],
         Kept(q, q2, a)
  PROVE  Hand(sell2, q2, st2, a) = Hand(sell, q, st, a)
<1>1. CASE SalesIn(sell, a) # {}
  BY <1>1 DEF Hand
<1>2. CASE SalesIn(sell, a) = {} /\ UpdatesIn(q, a) # {}
  <2>1. PICK k \in UpdatesIn(q, a), j \in UpdatesIn(q2, a) : q2[j] = q[k]
    BY <1>2 DEF Kept
  <2>2. \A i \in UpdatesIn(q, a) : i = k
    BY DEF Single
  <2>3. \A i \in UpdatesIn(q2, a) : i = j
    BY DEF Single
  <2>4. Hand(sell, q, st, a) = q[k].new
    BY <1>2, <2>2, HandUpdate
  <2>5. SalesIn(sell2, a) = {}
    BY <1>2
  <2>6. Hand(sell2, q2, st2, a) = q2[j].new
    BY <2>3, <2>5, HandUpdate
  <2> QED BY <2>1, <2>4, <2>6
<1>3. CASE SalesIn(sell, a) = {} /\ UpdatesIn(q, a) = {}
  <2>1. SalesIn(sell2, a) = {} /\ UpdatesIn(q2, a) = {}
    BY <1>3 DEF Kept
  <2> QED BY <1>3, <2>1, HandStock
<1> QED
  BY <1>1, <1>2, <1>3

(* Where the updates of a product are in a queue. *)
LEMMA TailAt ==
  ASSUME NEW q \in Seq(Events), q # <<>>
  PROVE  /\ Tail(q) \in Seq(Events) /\ Len(Tail(q)) = Len(q) - 1 /\ Len(q) \in Nat \ {0}
         /\ DOMAIN q = 1..Len(q) /\ DOMAIN Tail(q) = 1..(Len(q) - 1)
         /\ Head(q) = q[1] /\ \A i \in 1..(Len(q) - 1) : Tail(q)[i] = q[i + 1]
OBVIOUS

LEMMA UpdatesOfTail ==
  ASSUME NEW q \in Seq(Events), q # <<>>, NEW a
  PROVE  \A i : i \in UpdatesIn(Tail(q), a) <=> i \in 1..(Len(q) - 1) /\ i + 1 \in UpdatesIn(q, a)
<1> DEFINE t == Tail(q)
<1>1. /\ DOMAIN t = 1..(Len(q) - 1) /\ DOMAIN q = 1..Len(q) /\ Len(q) \in Nat
      /\ \A i \in 1..(Len(q) - 1) : t[i] = q[i + 1]
  BY TailAt
<1> HIDE DEF t
<1>2. \A i : i \in UpdatesIn(t, a) <=> i \in 1..(Len(q) - 1) /\ i + 1 \in UpdatesIn(q, a)
  BY <1>1 DEF UpdatesIn
<1> QED
  BY <1>2 DEF t

\* Taking off the oldest event leaves a product's updates, but for its own.
LEMMA TailKeeps ==
  ASSUME NEW q \in Seq(Events), q # <<>>, NEW a, ~Upd(Head(q), a)
  PROVE  Kept(q, Tail(q), a)
<1>1. \A i \in 1..(Len(q) - 1) : Tail(q)[i] = q[i + 1]
  BY TailAt
<1>2. Len(q) \in Nat \ {0} /\ DOMAIN q = 1..Len(q) /\ Head(q) = q[1]
  BY TailAt
<1>3. \A i : i \in UpdatesIn(Tail(q), a) <=> i \in 1..(Len(q) - 1) /\ i + 1 \in UpdatesIn(q, a)
  BY UpdatesOfTail
<1>4. ASSUME NEW k \in UpdatesIn(q, a)
      PROVE  \E j \in UpdatesIn(Tail(q), a) : Tail(q)[j] = q[k]
  <2>1. k \in 1..Len(q) /\ k # 1
    BY <1>2 DEF UpdatesIn
  <2>2. k - 1 \in 1..(Len(q) - 1) /\ (k - 1) + 1 = k
    BY <1>2, <2>1
  <2>3. k - 1 \in UpdatesIn(Tail(q), a)
    BY <1>3, <2>2
  <2>4. Tail(q)[k - 1] = q[k]
    BY <1>1, <2>2
  <2> QED BY <2>3, <2>4
<1>5. ASSUME NEW j \in UpdatesIn(Tail(q), a)
      PROVE  \E k \in UpdatesIn(q, a) : q[k] = Tail(q)[j]
  BY <1>1, <1>3
<1> QED
  BY <1>4, <1>5 DEF Kept

\* Putting events at the end leaves a product's updates, unless they are its own.
LEMMA ConcatAt ==
  ASSUME NEW q \in Seq(Events), NEW u \in Seq(Events)
  PROVE  /\ q \o u \in Seq(Events) /\ DOMAIN (q \o u) = 1..(Len(q) + Len(u))
         /\ Len(q) \in Nat /\ Len(u) \in Nat /\ DOMAIN q = 1..Len(q) /\ DOMAIN u = 1..Len(u)
         /\ \A i \in 1..Len(q) : (q \o u)[i] = q[i]
         /\ \A i \in 1..Len(u) : (q \o u)[Len(q) + i] = u[i]
OBVIOUS

LEMMA ConcatKeeps ==
  ASSUME NEW q \in Seq(Events), NEW u \in Seq(Events), NEW a, UpdatesIn(u, a) = {}
  PROVE  Kept(q, q \o u, a)
<1> DEFINE c == q \o u
<1>1. /\ DOMAIN c = 1..(Len(q) + Len(u)) /\ Len(q) \in Nat /\ Len(u) \in Nat
      /\ DOMAIN q = 1..Len(q) /\ DOMAIN u = 1..Len(u)
      /\ \A i \in 1..Len(q) : c[i] = q[i]
      /\ \A i \in 1..Len(u) : c[Len(q) + i] = u[i]
  BY ConcatAt
<1> HIDE DEF c
<1>2. ASSUME NEW k \in UpdatesIn(q, a) PROVE k \in UpdatesIn(c, a) /\ c[k] = q[k]
  BY <1>1 DEF UpdatesIn
<1>3. ASSUME NEW j \in UpdatesIn(c, a) PROVE j \in UpdatesIn(q, a) /\ c[j] = q[j]
  <2>1. j \in 1..(Len(q) + Len(u)) /\ Upd(c[j], a)
    BY <1>1 DEF UpdatesIn
  <2>2. CASE j \in 1..Len(q)
    BY <1>1, <2>1, <2>2 DEF UpdatesIn
  <2>3. CASE j \notin 1..Len(q)
    <3>1. j - Len(q) \in 1..Len(u) /\ Len(q) + (j - Len(q)) = j
      BY <1>1, <2>1, <2>3
    <3>2. j - Len(q) \in UpdatesIn(u, a)
      BY <1>1, <2>1, <3>1 DEF UpdatesIn
    <3> QED BY <3>2
  <2> QED BY <2>2, <2>3
<1>4. Kept(q, c, a)
  BY <1>2, <1>3 DEF Kept
<1> QED
  BY <1>4 DEF c

LEMMA AppendIsConcat ==
  ASSUME NEW q \in Seq(Events), NEW e \in Events
  PROVE  Append(q, e) = q \o <<e>> /\ <<e>> \in Seq(Events)
OBVIOUS

LEMMA AppendKeeps ==
  ASSUME NEW q \in Seq(Events), NEW e \in Events, NEW a, ~Upd(e, a)
  PROVE  Kept(q, Append(q, e), a)
<1>1. UpdatesIn(<<e>>, a) = {}
  BY DEF UpdatesIn
<1>2. Append(q, e) = q \o <<e>> /\ <<e>> \in Seq(Events)
  BY AppendIsConcat
<1> QED
  BY <1>1, <1>2, ConcatKeeps

(* The abstract steps of a product. *)
LEMMA AbstractPlace ==
  ASSUME NEW a \in Asins, Outstanding(a)' >= Outstanding(a), OnHand(a)' = OnHand(a)
  PROVE  Abstract!Step(a)
BY DEF Abstract!Step, Abstract!Place

LEMMA AbstractDeliver ==
  ASSUME NEW a \in Asins, Outstanding(a)' <= Outstanding(a),
         OnHand(a)' - OnHand(a) = Outstanding(a) - Outstanding(a)'
  PROVE  Abstract!Step(a)
BY DEF Abstract!Step, Abstract!Deliver

LEMMA AbstractSell ==
  ASSUME NEW a \in Asins, Outstanding(a)' = Outstanding(a), OnHand(a)' \in 0..OnHand(a)
  PROVE  Abstract!Step(a)
BY DEF Abstract!Step, Abstract!Sell

-----------------------------------------------------------------------------
(* The steps.  Seen of a product: that it is met and left by one move at most. *)

Seen(a) == Alone(a) /\ Alone(a)'

LEMMA KeptSame == ASSUME NEW q, NEW a PROVE Kept(q, q, a)
BY DEF Kept

LEMMA KeptTwice ==
  ASSUME NEW q, NEW r, NEW v, NEW a, Kept(q, r, a), Kept(r, v, a)
  PROVE  Kept(q, v, a)
<1>1. ASSUME NEW k \in UpdatesIn(q, a) PROVE \E j \in UpdatesIn(v, a) : v[j] = q[k]
  <2>1. PICK i \in UpdatesIn(r, a) : r[i] = q[k]
    BY DEF Kept
  <2> QED BY <2>1 DEF Kept
<1>2. ASSUME NEW j \in UpdatesIn(v, a) PROVE \E k \in UpdatesIn(q, a) : q[k] = v[j]
  <2>1. PICK i \in UpdatesIn(r, a) : r[i] = v[j]
    BY DEF Kept
  <2> QED BY <2>1 DEF Kept
<1> QED
  BY <1>1, <1>2 DEF Kept

LEMMA KeptHand ==
  ASSUME NEW a, Seen(a), SalesIn(selling', a) = SalesIn(selling, a), stock'[a] = stock[a],
         Kept(queue, queue', a)
  PROVE  OnHand(a)' = OnHand(a)
<1>1. Single(selling, queue, a) /\ Single(selling', queue', a)
  BY AloneIsSingle DEF Seen
<1>2. Hand(selling', queue', stock', a) = Hand(selling, queue, stock, a)
  BY <1>1, HandKept
<1> QED
  BY <1>2, OnHandIsHand

\* The steps that move no units of the product: nothing changes but who carries it.
LEMMA SameUnits ==
  ASSUME IInv, NEW a \in Asins, pending' = pending, OnHand(a)' = OnHand(a)
  PROVE  Abstract!Step(a)
<1>1. Outstanding(a)' = Outstanding(a) /\ Outstanding(a) \in Nat
  BY QuantitiesAreNumbers DEF Outstanding
<1>2. Outstanding(a)' >= Outstanding(a)
  BY <1>1
<1> QED
  BY <1>2, AbstractPlace

\* A tick or an order put on the bus, however busy.
LEMMA PublishKeeps ==
  ASSUME IInv, NEW a \in Asins, Seen(a), NEW e \in Events, e.kind # "update",
         queue' = Append(queue, e), UNCHANGED <<pending, stock, selling>>
  PROVE  Abstract!Step(a)
<1>1. queue \in Seq(Events) /\ ~Upd(e, a)
  BY DEF IInv, ServiceTypeOK, Upd
<1>2. Kept(queue, Append(queue, e), a)
  BY ONLY <1>1, e \in Events, AppendKeeps
<1>3. Kept(queue, queue', a)
  BY <1>2
<1>4. OnHand(a)' = OnHand(a)
  BY <1>3, KeptHand
<1> QED
  BY <1>4, SameUnits

\* A sale takes units from the hand at once; its update comes later.
LEMMA SellKeeps ==
  ASSUME SupplyAssumption, IInv, NEW a \in Asins, Seen(a),
         NEW b \in Asins, NEW d \in Demands, Sell(b, d)
  PROVE  Abstract!Step(a)
<1> DEFINE units == Min({d, stock[b]})
           s == [id |-> sales, asin |-> b, new |-> stock[b] - units, previous |-> stock[b]]
<1>1. stock[b] \in Nat /\ d \in Nat
  BY DEF IInv, ServiceTypeOK, SupplyAssumption
<1>2. units \in {d, stock[b]} /\ units <= stock[b]
  BY <1>1, MinOfTwo
<1>3. selling' = selling \cup {s} /\ UNCHANGED <<service, stock, queue>>
  BY DEF Sell
<1>4. s.asin = b /\ s.new = stock[b] - units
  OBVIOUS
<1>5. s.new \in 0..stock[b]
  BY <1>1, <1>2, <1>4
<1> HIDE DEF s
<1>6. pending' = pending /\ queue' = queue /\ stock' = stock
  BY <1>3 DEF service
<1>7. CASE a # b \/ s \in selling
  <2>1. SalesIn(selling', a) = SalesIn(selling, a)
    BY <1>3, <1>4, <1>7 DEF SalesIn
  <2>2. Kept(queue, queue', a)
    BY <1>6, KeptSame
  <2>3. OnHand(a)' = OnHand(a)
    BY <1>6, <2>1, <2>2, KeptHand
  <2> QED BY <1>6, <2>3, SameUnits
<1>8. CASE a = b /\ s \notin selling
  <2>1. Single(selling', queue', a) /\ s \in SalesIn(selling', a)
    BY <1>3, <1>4, <1>8, AloneIsSingle DEF Seen, SalesIn
  <2>2. \A r \in SalesIn(selling', a) : r = s
    BY <2>1 DEF Single
  <2>3. SalesIn(selling, a) = {} /\ UpdatesIn(queue, a) = {}
    BY <1>3, <1>6, <1>8, <2>1, <2>2 DEF Single, SalesIn
  <2>4. OnHand(a) = stock[a]
    BY <2>3, HandStock, OnHandIsHand
  <2>5. OnHand(a)' = s.new
    <3>1. Hand(selling', queue', stock', a) = s.new
      BY <2>1, <2>2, HandSale
    <3> QED BY <3>1, OnHandIsHand
  <2>6. OnHand(a)' \in 0..OnHand(a)
    BY <1>5, <1>8, <2>4, <2>5
  <2>7. Outstanding(a)' = Outstanding(a)
    BY <1>6 DEF Outstanding
  <2> QED BY <2>6, <2>7, AbstractSell
<1> QED
  BY <1>7, <1>8

\* Its update carries on what was on hand.
LEMMA PublishSaleKeeps ==
  ASSUME IInv, NEW a \in Asins, Seen(a), NEW s \in selling, PublishSale(s)
  PROVE  Abstract!Step(a)
<1> DEFINE e == Update(s.asin, s.new, s.previous)
<1>1. e.kind = "update" /\ e.asin = s.asin /\ e.new = s.new
  BY DEF Update
<1>2. /\ queue' = Append(queue, e) /\ selling' = selling \ {s}
      /\ stock' = stock /\ pending' = pending
  BY DEF PublishSale, service
<1>3. e \in Events /\ queue \in Seq(Events)
  <2>1. s.asin \in Asins /\ s.new \in Nat /\ s.previous \in Nat
    BY DEF IInv, ServiceTypeOK
  <2>2. e \in [kind : {"update"}, asin : Asins, new : Nat, previous : Nat]
    BY <2>1 DEF Update
  <2> QED BY <2>2 DEF Events, IInv, ServiceTypeOK
<1> HIDE DEF e
<1>4. CASE a # s.asin
  <2>1. SalesIn(selling', a) = SalesIn(selling, a)
    BY <1>2, <1>4 DEF SalesIn
  <2>2. ~Upd(e, a)
    BY <1>1, <1>4 DEF Upd
  <2>3. Kept(queue, Append(queue, e), a)
    BY ONLY <1>3, <2>2, AppendKeeps
  <2>4. Kept(queue, queue', a)
    BY <1>2, <2>3
  <2>5. OnHand(a)' = OnHand(a)
    BY <1>2, <2>1, <2>4, KeptHand
  <2> QED BY <1>2, <2>5, SameUnits
<1>5. CASE a = s.asin
  <2>1. Single(selling, queue, a) /\ s \in SalesIn(selling, a)
    BY <1>5, AloneIsSingle DEF Seen, SalesIn
  <2>2. \A r \in SalesIn(selling, a) : r = s
    BY <2>1 DEF Single
  <2>3. OnHand(a) = s.new
    BY <2>1, <2>2, HandSale, OnHandIsHand
  <2>4. SalesIn(selling', a) = {}
    BY <1>2, <2>2 DEF SalesIn
  <2> DEFINE c == queue \o <<e>>
             k == Len(queue) + 1
  <2>5. c = queue' /\ <<e>> \in Seq(Events)
    <3>1. Append(queue, e) = queue \o <<e>> /\ <<e>> \in Seq(Events)
      BY ONLY <1>3, AppendIsConcat
    <3> QED BY <1>2, <3>1
  <2>6. k \in DOMAIN c /\ c[k] = e
    <3>1. /\ DOMAIN c = 1..(Len(queue) + Len(<<e>>)) /\ Len(queue) \in Nat
          /\ \A i \in 1..Len(<<e>>) : c[Len(queue) + i] = <<e>>[i]
      BY ONLY <1>3, <2>5, ConcatAt
    <3>2. Len(<<e>>) = 1 /\ <<e>>[1] = e
      OBVIOUS
    <3> HIDE DEF c
    <3> QED BY <3>1, <3>2
  <2> HIDE DEF c, k
  <2>7. k \in UpdatesIn(queue', a) /\ queue'[k].new = s.new
    BY <1>1, <1>5, <2>5, <2>6 DEF UpdatesIn, Upd
  <2>8. \A j \in UpdatesIn(queue', a) : j = k
    <3>1. Single(selling', queue', a)
      BY AloneIsSingle DEF Seen
    <3> QED BY <2>7, <3>1 DEF Single
  <2>9. Hand(selling', queue', stock', a) = queue'[k].new
    BY ONLY <2>4, <2>7, <2>8, HandUpdate
  <2>10. OnHand(a)' = OnHand(a)
    BY <2>3, <2>7, <2>9, OnHandIsHand
  <2> QED BY <1>2, <2>10, SameUnits
<1> QED
  BY <1>4, <1>5

\* An order adds to what is to come of its product, to nothing else.
LEMMA OrderKeeps ==
  ASSUME SupplyAssumption, CountInv, CountInv', NEW a \in Asins, Seen(a),
         queue # <<>>, queue' = Tail(queue), UNCHANGED selling,
         Head(queue).kind = "order", OnPlaceOrder(Head(queue))
  PROVE  Abstract!Step(a)
<1> DEFINE e == Head(queue)
<1>1. IInv /\ IInv' /\ DistinctOrders /\ queue \in Seq(Events)
  BY DEF CountInv, IInv, ServiceTypeOK
<1>2. e \in Events /\ e.kind = "order" /\ OnPlaceOrder(e)
  BY <1>1
<1>3. ~Upd(Head(queue), a) /\ stock' = stock
  BY DEF Upd, OnPlaceOrder
<1>4. Kept(queue, Tail(queue), a)
  BY ONLY <1>1, <1>3, queue # <<>>, TailKeeps
<1>5. OnHand(a)' = OnHand(a)
  BY <1>3, <1>4, KeptHand
<1> HIDE DEF e
<1>6. Outstanding(a)' = Outstanding(a) + IF subscribed /\ a = e.asin THEN e.quantity ELSE 0
  BY <1>1, <1>2, PlaceUnits
<1>7. e.quantity \in Nat /\ Outstanding(a) \in Nat
  BY <1>1, <1>2, OrderEvent, QuantitiesAreNumbers DEF SupplyAssumption
<1>8. Outstanding(a)' >= Outstanding(a)
  BY <1>6, <1>7
<1> QED
  BY <1>5, <1>8, AbstractPlace

\* The store applies what was on hand already.
LEMMA UpdateKeeps ==
  ASSUME IInv, NEW a \in Asins, Seen(a), queue # <<>>, queue' = Tail(queue), UNCHANGED selling,
         Head(queue).kind = "update", OnInventoryUpdate(Head(queue))
  PROVE  Abstract!Step(a)
<1> DEFINE e == Head(queue)
<1>1. queue \in Seq(Events) /\ e \in Events /\ e.kind = "update" /\ stock \in [Asins -> Nat]
  BY DEF IInv, ServiceTypeOK
<1>2. e.asin \in Asins
  BY <1>1, UpdateEvent
<1>3. stock' = [stock EXCEPT ![e.asin] = e.new] /\ pending' = pending
  BY DEF OnInventoryUpdate, service
<1>4. SalesIn(selling', a) = SalesIn(selling, a)
  OBVIOUS
<1>5. CASE a # e.asin
  <2>1. ~Upd(Head(queue), a)
    BY <1>5 DEF Upd
  <2>2. Kept(queue, Tail(queue), a)
    BY ONLY <1>1, <2>1, queue # <<>>, TailKeeps
  <2>3. stock'[a] = stock[a]
    BY <1>1, <1>3, <1>5
  <2>4. OnHand(a)' = OnHand(a)
    BY <1>4, <2>2, <2>3, KeptHand
  <2> QED BY <1>3, <2>4, SameUnits
<1>6. CASE a = e.asin
  <2>1. 1 \in DOMAIN queue /\ queue[1] = e
    BY <1>1
  <2>2. 1 \in UpdatesIn(queue, a)
    BY <1>1, <1>6, <2>1 DEF UpdatesIn, Upd
  <2>3. Single(selling, queue, a)
    BY AloneIsSingle DEF Seen
  <2>4. (\A j \in UpdatesIn(queue, a) : j = 1) /\ SalesIn(selling, a) = {}
    BY <2>2, <2>3 DEF Single
  <2>5. Hand(selling, queue, stock, a) = queue[1].new
    BY ONLY <2>2, <2>4, HandUpdate
  <2>6. UpdatesIn(Tail(queue), a) = {}
    <3>1. \A i : i \in UpdatesIn(Tail(queue), a)
                   <=> i \in 1..(Len(queue) - 1) /\ i + 1 \in UpdatesIn(queue, a)
      BY ONLY <1>1, queue # <<>>, UpdatesOfTail
    <3>2. \A i \in 1..(Len(queue) - 1) : i + 1 # 1
      BY <1>1
    <3> QED BY <2>4, <3>1, <3>2
  <2>7. UpdatesIn(queue', a) = {} /\ SalesIn(selling', a) = {}
    BY <1>4, <2>4, <2>6
  <2>8. Hand(selling', queue', stock', a) = stock'[a]
    BY ONLY <2>7, HandStock
  <2>9. stock'[a] = e.new
    BY <1>1, <1>2, <1>3, <1>6
  <2>10. OnHand(a)' = OnHand(a)
    BY <2>1, <2>5, <2>8, <2>9, OnHandIsHand
  <2> QED BY <1>3, <2>10, SameUnits
<1> QED
  BY <1>5, <1>6

\* The units of a tick, when no order of the product but one brings any.
LEMMA BroughtBySole ==
  ASSUME IInv, NEW t, NEW a, NEW o \in Due(t), o.asin = a,
         \A x \in Due(t) : x.asin = a /\ x # o => Delivered(x) = 0
  PROVE  Brought(Of(Due(t), a)) = Delivered(o)
<1> DEFINE D == Of(Due(t), a)
           R == D \ {o}
           f == [x \in D |-> Delivered(x)]
<1>1. \A x \in D : x \in pending /\ x \in Due(t) /\ x.asin = a /\ Delivered(x) \in Nat
  BY DeliveredType DEF Due, Of, IInv
<1>2. IsFiniteSet(pending) /\ D \subseteq pending
  BY <1>1 DEF IInv
<1>3. Brought(D) = SumFunctionOnSet(f, D)
  BY DEF Brought, SumFunction
<1>4. o \in D /\ D = R \cup {o} /\ o \notin R
  BY DEF Of
<1>5. (\A x \in R : f[x] = 0) /\ (\A x \in R \cup {o} : f[x] \in Int) /\ f[o] = Delivered(o)
  BY <1>1, <1>4
<1> HIDE DEF D, f
<1>6. IsFiniteSet(R)
  <2>1. R \subseteq pending
    BY <1>2
  <2> QED BY <1>2, <2>1, FS_Subset
<1> HIDE DEF R
<1>7. SumFunctionOnSet(f, R) = 0
  BY <1>5, <1>6, SumOfZeros
<1>8. SumFunctionOnSet(f, R \cup {o}) = f[o] + SumFunctionOnSet(f, R)
  BY <1>4, <1>5, <1>6, SumAdd
<1>9. Delivered(o) \in Nat
  BY <1>1, <1>4
<1> QED
  BY <1>3, <1>4, <1>5, <1>7, <1>8, <1>9 DEF D

LEMMA BroughtByNone ==
  ASSUME IInv, NEW t, NEW a, \A x \in Due(t) : x.asin = a => Delivered(x) = 0
  PROVE  Brought(Of(Due(t), a)) = 0
<1> DEFINE D == Of(Due(t), a)
           f == [x \in D |-> Delivered(x)]
<1>1. IsFiniteSet(pending) /\ D \subseteq pending
  BY DEF IInv, Of, Due
<1>2. Brought(D) = SumFunctionOnSet(f, D)
  BY DEF Brought, SumFunction
<1>3. \A x \in D : f[x] = 0
  BY DEF Of
<1> HIDE DEF D, f
<1>4. IsFiniteSet(D)
  BY <1>1, FS_Subset
<1> QED
  BY <1>2, <1>3, <1>4, SumOfZeros DEF D

\* The updates of a tick: one for each order that brings something.
LEMMA ArrivalsInOrder ==
  ASSUME ServiceTypeOK, IsFiniteSet(pending), DistinctOrders, NEW t,
         NEW s \in InOrder(Arriving(t))
  PROVE  LET n == Cardinality(Arriving(t))
         IN  /\ n \in Nat /\ s \in [1..n -> Arriving(t)]
             /\ \A i, j \in 1..n : s[i] = s[j] => i = j
             /\ \A o \in Arriving(t) : \E i \in 1..n : s[i] = o
<1> DEFINE S == Arriving(t)
           n == Cardinality(S)
<1>1. S \subseteq pending /\ \A o \in S : o.id \in Nat
  BY DEF Arriving, Due, ServiceTypeOK, Orders
<1>2. s \in [1..n -> S] /\ \A i, j \in 1..n : i < j => s[i].id < s[j].id
  BY DEF InOrder
<1> HIDE DEF S
<1>3. IsFiniteSet(S)
  BY <1>1, FS_Subset
<1>4. n \in Nat
  BY <1>3, FS_CardinalityType
<1> HIDE DEF n
<1>5. \A i, j \in 1..n : s[i] = s[j] => i = j
  <2> TAKE i, j \in 1..n
  <2>1. i \in Int /\ j \in Int /\ s[i].id \in Nat /\ s[j].id \in Nat
    BY <1>1, <1>2, <1>4
  <2> QED BY <1>2, <2>1
<1>6. s \in Injection(1..n, S)
  BY <1>2, <1>5 DEF Injection, IsInjective
<1>7. Cardinality(1..n) = Cardinality(S)
  <2>1. Cardinality(1..n) = n
    BY <1>4, FS_Interval
  <2> QED BY <2>1 DEF n
<1>8. s \in Surjection(1..n, S)
  BY <1>3, <1>6, <1>7, FS_Injection
<1>9. \A o \in S : \E i \in 1..n : s[i] = o
  BY <1>8 DEF Surjection
<1> QED
  BY <1>2, <1>4, <1>5, <1>9 DEF S, n

LEMMA ArrivalEvent ==
  ASSUME ServiceTypeOK, NEW t, NEW o \in Arriving(t)
  PROVE  /\ Arrival(o) \in Events /\ Arrival(o).kind = "update" /\ Arrival(o).asin = o.asin
         /\ Arrival(o).new = stock[o.asin] + Delivered(o)
         /\ stock[o.asin] \in Nat /\ Delivered(o) \in Nat
<1>1. o \in pending /\ o \in Orders
  BY DEF Arriving, Due, ServiceTypeOK
<1>2. o.asin \in Asins /\ Delivered(o) \in Nat
  BY <1>1, DeliveredType DEF Orders
<1>3. stock[o.asin] \in Nat
  BY <1>2 DEF ServiceTypeOK
<1>4. stock[o.asin] + Delivered(o) \in Nat
  BY <1>2, <1>3
<1>5. Arrival(o) \in [kind : {"update"}, asin : Asins, new : Nat, previous : Nat]
  BY <1>2, <1>3, <1>4 DEF Arrival, Update
<1> QED
  BY <1>2, <1>3, <1>5 DEF Events, Arrival, Update

\* A tick hands over what it takes off the orders: if it leaves one update of
\* the product at most, that one tells how much.
LEMMA TickKeeps ==
  ASSUME SupplyAssumption, CountInv, CountInv', NEW a \in Asins, Seen(a), queue # <<>>,
         Head(queue).kind = "tick", NEW t \in Nat, ProcessTick(t, Tail(queue)),
         UNCHANGED <<stock, selling>>
  PROVE  Abstract!Step(a)
<1> DEFINE A == Arriving(t)
           n == Cardinality(A)
           T == Tail(queue)
<1>0. /\ IInv /\ IInv' /\ DistinctOrders /\ ServiceTypeOK /\ IsFiniteSet(pending)
      /\ queue \in Seq(Events) /\ stock' = stock
      /\ SalesIn(selling', a) = SalesIn(selling, a)
  BY DEF CountInv, IInv, ServiceTypeOK
<1>1. ~Upd(Head(queue), a)
  BY DEF Upd
<1>2. T \in Seq(Events) /\ Kept(queue, T, a)
  BY ONLY <1>0, <1>1, queue # <<>>, TailAt, TailKeeps
<1>3. pending' = (pending \ Due(t)) \cup Requeued(t)
  BY DEF ProcessTick
<1>4. PICK s \in InOrder(A) : queue' = T \o [k \in 1..n |-> Arrival(s[k])]
  BY DEF ProcessTick
<1>5. /\ n \in Nat /\ s \in [1..n -> A]
      /\ \A i, j \in 1..n : s[i] = s[j] => i = j
      /\ \A o \in A : \E i \in 1..n : s[i] = o
  BY <1>0, ArrivalsInOrder
<1> DEFINE u == [k \in 1..n |-> Arrival(s[k])]
<1>6. /\ \A k \in 1..n : /\ s[k] \in A /\ u[k] \in Events
                         /\ u[k].kind = "update" /\ u[k].asin = s[k].asin
                         /\ u[k].new = stock[s[k].asin] + Delivered(s[k])
      /\ DOMAIN u = 1..n
  BY <1>0, <1>5, ArrivalEvent
<1>7. u \in Seq(Events) /\ Len(u) = n
  <2>1. u \in [1..n -> Events]
    BY <1>6
  <2> HIDE DEF u, n
  <2> QED BY <1>5, <2>1
<1>8. queue' = T \o u
  BY <1>4
<1> HIDE DEF u, n, T
<1>9. /\ Brought(Of(Due(t), a)) \in Nat
      /\ Outstanding(a) = Outstanding(a)' + Brought(Of(Due(t), a))
  BY <1>0, <1>3, TickUnits
<1>10. Outstanding(a) \in Nat /\ Outstanding(a)' \in Nat
  BY <1>0, QuantitiesAreNumbers, OutstandingNext
<1>11. Single(selling, queue, a) /\ Single(selling', queue', a)
  BY AloneIsSingle DEF Seen
<1>12. \A o \in Due(t) : Delivered(o) \in Nat /\ (Delivered(o) # 0 => o \in A)
  BY <1>0, DeliveredType DEF Due, Arriving
<1>13. CASE \A o \in A : o.asin # a
  <2>1. UpdatesIn(u, a) = {}
    BY <1>6, <1>13 DEF UpdatesIn, Upd
  <2>2. Kept(T, T \o u, a)
    BY ONLY <1>2, <1>7, <2>1, ConcatKeeps
  <2>6. Kept(T, queue', a)
    BY <1>8, <2>2
  <2>3. Kept(queue, queue', a)
    BY ONLY <1>2, <2>6, KeptTwice
  <2>4. OnHand(a)' = OnHand(a)
    BY <1>0, <2>3, KeptHand
  <2>5. Brought(Of(Due(t), a)) = 0
    <3>1. \A x \in Due(t) : x.asin = a => Delivered(x) = 0
      BY <1>12, <1>13
    <3> QED BY <1>0, <3>1, BroughtByNone
  <2>7. Outstanding(a)' >= Outstanding(a)
    BY <1>9, <1>10, <2>5
  <2> QED BY <2>4, <2>7, AbstractPlace
<1>14. ASSUME NEW o \in A, o.asin = a PROVE Abstract!Step(a)
  <2>0. PICK k \in 1..n : s[k] = o
    BY <1>5
  <2> DEFINE c == T \o u
             at(i) == Len(T) + i
  <2>1. /\ Len(T) \in Nat /\ DOMAIN c = 1..(Len(T) + n) /\ DOMAIN T = 1..Len(T)
        /\ \A i \in 1..n : c[at(i)] = u[i]
        /\ \A i \in 1..Len(T) : c[i] = T[i]
    BY ONLY <1>2, <1>7, ConcatAt
  <2> HIDE DEF c
  <2>2. c = queue'
    BY <1>8 DEF c
  <2>3. \A i \in 1..n : s[i].asin = a => at(i) \in UpdatesIn(c, a)
    <3> TAKE i \in 1..n
    <3>1. at(i) \in DOMAIN c
      BY <1>5, <2>1
    <3> QED BY <1>6, <2>1, <3>1 DEF UpdatesIn, Upd
  <2>4. at(k) \in UpdatesIn(c, a)
    BY <1>14, <2>0, <2>3
  <2>5. (\A j \in UpdatesIn(c, a) : j = at(k)) /\ SalesIn(selling', a) = {}
    BY <1>11, <2>2, <2>4 DEF Single
  <2>6. \A x \in A : x.asin = a => x = o
    <3> SUFFICES ASSUME NEW x \in A, x.asin = a PROVE x = o
      OBVIOUS
    <3>1. PICK i \in 1..n : s[i] = x
      BY <1>5
    <3>2. at(i) = at(k)
      BY <2>3, <2>5, <3>1
    <3>3. i = k
      BY <1>5, <2>1, <3>2
    <3> QED BY <2>0, <3>1, <3>3
  <2>7. UpdatesIn(T, a) = {}
    <3> SUFFICES ASSUME NEW i \in UpdatesIn(T, a) PROVE FALSE
      OBVIOUS
    <3>1. i \in 1..Len(T) /\ Upd(T[i], a)
      BY <2>1 DEF UpdatesIn
    <3>2. i \in DOMAIN c /\ Upd(c[i], a)
      BY <1>5, <2>1, <3>1
    <3>3. i = at(k)
      BY <2>5, <3>2 DEF UpdatesIn
    <3> QED BY <1>5, <2>1, <3>1, <3>3
  <2>8. UpdatesIn(queue, a) = {} /\ SalesIn(selling, a) = {}
    BY <1>0, <1>2, <2>5, <2>7 DEF Kept
  <2>9. OnHand(a) = stock[a]
    BY <2>8, HandStock, OnHandIsHand
  <2>10. Hand(selling', c, stock', a) = c[at(k)].new
    BY ONLY <2>4, <2>5, HandUpdate
  <2>11. OnHand(a)' = Hand(selling', queue', stock', a)
    BY OnHandIsHand
  <2>12. c[at(k)].new = stock[a] + Delivered(o)
    BY <1>6, <1>14, <2>0, <2>1
  <2>13. Brought(Of(Due(t), a)) = Delivered(o)
    <3>1. o \in Due(t) /\ \A x \in Due(t) : x.asin = a /\ x # o => Delivered(x) = 0
      BY <1>12, <2>6 DEF Arriving
    <3> QED BY <1>0, <1>14, <3>1, BroughtBySole
  <2> DEFINE b == Brought(Of(Due(t), a))
             x == Outstanding(a)
             y == Outstanding(a)'
             h == OnHand(a)
             g == OnHand(a)'
  <2>14. h = stock[a] /\ g = stock[a] + b /\ stock[a] \in Nat
    BY <1>0, <2>2, <2>9, <2>10, <2>11, <2>12, <2>13 DEF ServiceTypeOK
  <2>15. b \in Nat /\ x \in Nat /\ y \in Nat /\ x = y + b
    BY <1>9, <1>10
  <2> HIDE DEF b, x, y, h, g
  <2>16. y <= x /\ g - h = x - y
    BY <2>14, <2>15
  <2> QED BY <2>16, AbstractDeliver DEF x, y, h, g
<1> QED
  BY <1>13, <1>14

LEMMA DispatchKeeps ==
  ASSUME SupplyAssumption, CountInv, CountInv', NEW a \in Asins, Seen(a), Dispatch
  PROVE  Abstract!Step(a)
<1> DEFINE e == Head(queue)
<1>0. queue # <<>> /\ UNCHANGED selling /\ IInv /\ queue \in Seq(Events)
  BY DEF Dispatch, CountInv, IInv, ServiceTypeOK
<1>1. e \in Events
  BY <1>0
<1>2. CASE e.kind = "tick" /\ OnTick(e)
  <2>1. e.number \in Nat /\ UNCHANGED <<stock, selling>>
    BY <1>0, <1>1, <1>2, TickEvent DEF OnTick
  <2>2. CASE subscribed
    <3>1. ProcessTick(e.number, Tail(queue))
      BY <1>2, <2>2 DEF OnTick
    <3> QED BY <1>0, <1>2, <2>1, <3>1, TickKeeps
  <2>3. CASE ~subscribed
    <3>1. queue' = Tail(queue) /\ pending' = pending
      BY <1>2, <2>3 DEF OnTick
    <3>2. ~Upd(Head(queue), a)
      BY <1>2 DEF Upd
    <3>3. Kept(queue, Tail(queue), a)
      BY ONLY <1>0, <3>2, TailKeeps
    <3>4. OnHand(a)' = OnHand(a)
      BY <2>1, <3>1, <3>3, KeptHand
    <3> QED BY <1>0, <3>1, <3>4, SameUnits
  <2> QED BY <2>2, <2>3
<1>3. CASE e.kind = "order" /\ OnPlaceOrder(e) /\ queue' = Tail(queue)
  BY <1>0, <1>3, OrderKeeps
<1>4. CASE e.kind = "update" /\ OnInventoryUpdate(e) /\ queue' = Tail(queue)
  BY <1>0, <1>4, UpdateKeeps
<1> QED
  BY <1>2, <1>3, <1>4 DEF Dispatch

LEMMA StepKeeps ==
  ASSUME SupplyAssumption, CountInv, [Next]_vars, NEW a \in Asins, Alone(a), Alone(a)'
  PROVE  Abstract!Step(a)
<1>0. CountInv /\ CountInv' /\ IInv /\ Seen(a)
  BY StepCounts DEF CountInv, Seen
<1>1. CASE UNCHANGED <<pending, queue, selling, stock>>
  <2>1. Kept(queue, queue', a)
    BY <1>1, KeptSame
  <2>2. OnHand(a)' = OnHand(a)
    BY <1>0, <1>1, <2>1, KeptHand
  <2> QED BY <1>0, <1>1, <2>2, SameUnits
<1>2. CASE Dispatch
  BY <1>0, <1>2, DispatchKeeps
<1>3. CASE PublishTick
  <2> DEFINE e == Tick(ticks)
  <2>1. e \in Events /\ e.kind = "tick"
    BY <1>0 DEF IInv, ServiceTypeOK, Tick, Events
  <2>2. queue' = Append(queue, e) /\ UNCHANGED <<pending, stock, selling>>
    BY <1>3 DEF PublishTick, service
  <2> HIDE DEF e
  <2> QED BY <1>0, <2>1, <2>2, PublishKeeps
<1>4. ASSUME NEW b \in Asins, NEW q \in Quantities, PublishOrder(b, q) PROVE Abstract!Step(a)
  <2> DEFINE e == Order(b, q)
  <2>1. e \in Events /\ e.kind = "order"
    BY DEF Order, Events
  <2>2. queue' = Append(queue, e) /\ UNCHANGED <<pending, stock, selling>>
    BY <1>4 DEF PublishOrder, service
  <2> HIDE DEF e
  <2> QED BY <1>0, <2>1, <2>2, PublishKeeps
<1>5. ASSUME NEW b \in Asins, NEW d \in Demands, Sell(b, d) PROVE Abstract!Step(a)
  BY <1>0, <1>5, SellKeeps
<1>6. ASSUME NEW s \in selling, PublishSale(s) PROVE Abstract!Step(a)
  BY <1>0, <1>6, PublishSaleKeeps
<1>7. CASE Start \/ Stop \/ UNCHANGED vars
  BY <1>1, <1>7 DEF Start, Stop, vars, service
<1>8. ASSUME NEW on, NEW lead, NEW percent, SetDisruption(on, lead, percent)
      PROVE  Abstract!Step(a)
  BY <1>1, <1>8 DEF SetDisruption
<1> QED
  BY <1>2, <1>3, <1>4, <1>5, <1>6, <1>7, <1>8 DEF Next

LEMMA InitKeeps == ASSUME SupplyAssumption, Init PROVE Abstract!Init
<1>1. CountInv
  BY InitCounts
<1>2. stock \in [Asins -> Nat] /\ selling = {} /\ queue = <<>>
  BY DEF Init, SupplyAssumption
<1>3. \A a \in Asins : OnHand(a) = stock[a]
  <2> TAKE a \in Asins
  <2>1. SalesIn(selling, a) = {} /\ UpdatesIn(queue, a) = {}
    BY <1>2 DEF SalesIn, UpdatesIn
  <2> QED BY <2>1, HandStock, OnHandIsHand
<1>4. \A a \in Asins : Outstanding(a) \in Nat /\ OnHand(a) \in Nat
  BY <1>1, <1>2, <1>3, QuantitiesAreNumbers DEF CountInv
<1> QED
  BY <1>4 DEF Abstract!Init

\* The bus, the store's handler, the supply chain and the market's sale: a step
\* that meets at most one new quantity of a product on its way to the store, and
\* leaves at most one, is a step of Inventory for that product, whatever happens
\* to the others, to the bus and to the service (process_tick,
\* handle_inventory_update, process_for_asin).
THEOREM SupplyRefinesInventory == Spec => KeepsEveryUnit
<1>1. Init => CountInv /\ Abstract!Init
  BY InitKeeps, InitCounts, SupplyAssumption
<1>2. CountInv /\ [Next]_vars => CountInv'
  BY StepCounts, SupplyAssumption
<1>3. CountInv /\ [Next]_vars =>
        [\A a \in Asins : Alone(a) /\ Alone(a)' => Abstract!Step(a)]_vars
  BY StepKeeps, SupplyAssumption
<1> QED
  BY <1>1, <1>2, <1>3, PTL DEF Spec, KeepsEveryUnit
=============================================================================
