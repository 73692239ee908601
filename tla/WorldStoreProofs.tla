-------------------------- MODULE WorldStoreProofs --------------------------
(***************************************************************************)
(* For every set of products, commands and prices, and for every pair of   *)
(* thresholds: the types of WorldStore, one published price change per     *)
(* product and tick, and the bound on how far a price moves in a tick.     *)
(* Of WorldSnapshots: what a load brings back is what was saved.           *)
(***************************************************************************)
EXTENDS WorldStore, WorldSnapshots, TLAPS

(* One published change and an entry in the pending commands are the same  *)
(* thing; a product that has none still stands where its tick began,       *)
(* unless it began without a price.                                        *)
ChangesAreTaken == \A a \in Asins : changes[a] = IF a \in taken THEN 1 ELSE 0
StillAtOpening ==
  \A a \in products \ taken : opening[a] > 0 => price[a] = opening[a]

IInv == TypeOK /\ ChangesAreTaken /\ StillAtOpening /\ PriceDriftPerTick

LEMMA NoneType == None \in [Asins -> Nat]
BY DEF None

\* The snapshot of a well-typed state is well typed.
LEMMA SnapshotType == ASSUME TypeOK PROVE Snapshot \in Snapshots
BY DEF TypeOK, Snapshot, Snapshots

LEMMA InitTypeOK == Init => TypeOK
<1>1. SUFFICES ASSUME Init PROVE TypeOK
  OBVIOUS
<1>2. None \in [Asins -> Nat]
  BY NoneType
<1> QED
  BY <1>1, <1>2 DEF Init, TypeOK

\* Every handler of a price command keeps the types.
LEMMA CommandTypeOK ==
  ASSUME WorldAssumption, TypeOK, NEW id \in Ids, NEW a \in Asins, NEW p \in Prices,
         HandleSetPriceCommand(id, a, p)
  PROVE  TypeOK'
<1>1. p \in Nat
  BY DEF WorldAssumption
<1>2. handled' \in Nat /\ tick' = tick /\ snapshots' = snapshots
  BY DEF HandleSetPriceCommand, TypeOK
<1>3. CASE Duplicate(id)
  BY <1>2, <1>3 DEF Duplicate, Refused, TypeOK, state
<1>4. CASE Reject(id, a, p)
  BY <1>2, <1>4 DEF Reject, Refused, TypeOK, state
<1>5. CASE Accept(id, a, p)
  BY <1>1, <1>2, <1>5 DEF Accept, TypeOK
<1>6. CASE AcceptInSilence(id, a, p)
  BY <1>1, <1>2, <1>6 DEF AcceptInSilence, Refused, TypeOK
<1>7. CASE Unknown(id, a, p)
  BY <1>2, <1>7 DEF Unknown, TypeOK, state, arbitration
<1> QED
  BY <1>3, <1>4, <1>5, <1>6, <1>7 DEF HandleSetPriceCommand

\* So does writing a product.
LEMMA PutTypeOK ==
  ASSUME TypeOK, NEW a \in Asins, NEW p \in Nat, NEW q \in Nat, Put(a, p, q)
  PROVE  TypeOK'
BY DEF Put, TypeOK, arbitration

LEMMA TickTypeOK ==
  ASSUME TypeOK, HandleTickEvent
  PROVE  TypeOK'
<1>1. Snapshot \in Snapshots
  BY SnapshotType
<1>2. None \in [Asins -> Nat]
  BY NoneType
<1>3. snapshots' = Append(snapshots, Snapshot) \/ snapshots' = snapshots
  BY DEF HandleTickEvent
<1>4. snapshots' \in Seq(Snapshots)
  <2>1. snapshots \in Seq(Snapshots)
    BY DEF TypeOK
  <2>2. Append(snapshots, Snapshot) \in Seq(Snapshots)
    BY <1>1, <2>1
  <2> QED
    BY <1>3, <2>1, <2>2
<1>5. tick' \in Nat
  BY DEF HandleTickEvent, TypeOK
<1>6. /\ UNCHANGED <<products, price, stock, version>>
      /\ UNCHANGED <<processed, rejected, conflicts, history, handled, crashed>>
      /\ taken' = {} /\ seen' = {} /\ opening' = price /\ changes' = None
  BY DEF HandleTickEvent, ResetTickState, state
<1> QED
  BY <1>2, <1>4, <1>5, <1>6 DEF TypeOK

LEMMA LoadTypeOK ==
  ASSUME TypeOK, NEW i \in DOMAIN snapshots, LoadStateSnapshot(i)
  PROVE  TypeOK'
<1>1. snapshots[i] \in Snapshots
  BY DEF TypeOK
<1>2. None \in [Asins -> Nat]
  BY NoneType
<1> QED
  BY <1>1, <1>2 DEF LoadStateSnapshot, TypeOK, Snapshots, arbitration

\* The four kinds of step that write one product and nothing else.
LEMMA Writers ==
  ASSUME WorldAssumption,
         NEW a \in Asins, NEW p \in Prices, NEW q \in Quantities,
         \/ CreateStub(a) \/ InitializeProduct(a, p, q) \/ SetProductState(a, p, q)
  PROVE  \E pp, qq \in Nat : Put(a, pp, qq)
BY DEF WorldAssumption, CreateStub, InitializeProduct, SetProductState

LEMMA StepTypeOK == ASSUME WorldAssumption, TypeOK, [Next]_vars PROVE TypeOK'
<1>1. ASSUME NEW id \in Ids, NEW a \in Asins, NEW p \in Prices,
             HandleSetPriceCommand(id, a, p)
      PROVE  TypeOK'
  BY <1>1, CommandTypeOK
<1>2. ASSUME NEW a \in Asins, NEW q \in Quantities, HandleInventoryUpdate(a, q)
      PROVE  TypeOK'
  <2>1. q \in Nat
    BY DEF WorldAssumption
  <2>2. CASE Put(a, 0, q)
    BY <2>1, <2>2, PutTypeOK
  <2>3. CASE UNCHANGED <<products, price, version, arbitration, tick, snapshots, ghosts>>
             /\ stock' = [stock EXCEPT ![a] = q]
    BY <2>1, <2>3 DEF TypeOK, arbitration, ghosts
  <2> QED
    BY <1>2, <2>2, <2>3 DEF HandleInventoryUpdate
<1>3. ASSUME NEW a \in Asins, CreateStub(a) PROVE TypeOK'
  <2>1. Put(a, 0, 0)
    BY <1>3 DEF CreateStub
  <2> QED
    BY <2>1, PutTypeOK
<1>4. ASSUME NEW a \in Asins, NEW p \in Prices, NEW q \in Quantities,
             InitializeProduct(a, p, q) \/ SetProductState(a, p, q)
      PROVE  TypeOK'
  <2>1. Put(a, p, q) /\ p \in Nat /\ q \in Nat
    BY <1>4 DEF InitializeProduct, SetProductState, WorldAssumption
  <2> QED
    BY <2>1, PutTypeOK
<1>5. CASE HandleTickEvent
  BY <1>5, TickTypeOK
<1>6. CASE SaveStateSnapshot
  <2>1. Snapshot \in Snapshots
    BY SnapshotType
  <2> QED
    BY <1>6, <2>1 DEF SaveStateSnapshot, TypeOK, state, arbitration, ghosts
<1>7. ASSUME NEW i \in DOMAIN snapshots, LoadStateSnapshot(i) PROVE TypeOK'
  BY <1>7, LoadTypeOK
<1>8. CASE ResetState
  <2>1. None \in [Asins -> Nat]
    BY NoneType
  <2> QED
    BY <1>8, <2>1 DEF ResetState, ResetTickState, TypeOK
<1>9. CASE UNCHANGED vars
  BY <1>9 DEF vars, TypeOK, state, arbitration, ghosts
<1> QED
  BY <1>1, <1>2, <1>3, <1>4, <1>5, <1>6, <1>7, <1>8, <1>9 DEF Next

-----------------------------------------------------------------------------
LEMMA InitIInv == Init => IInv
<1>1. Init => TypeOK
  BY InitTypeOK
<1>2. Init => ChangesAreTaken /\ StillAtOpening /\ PriceDriftPerTick
  BY DEF Init, None, ChangesAreTaken, StillAtOpening, PriceDriftPerTick
<1> QED
  BY <1>1, <1>2 DEF IInv

\* A price that has not moved is within half of itself.
LEMMA WithinHalfRefl == ASSUME NEW x \in Nat PROVE WithinHalf(x, x)
BY DEF WithinHalf

\* A command that touches no price, no pending command and no tick.
LEMMA QuietStep ==
  ASSUME IInv, UNCHANGED <<products, price, taken, opening, changes>>
  PROVE  ChangesAreTaken' /\ StillAtOpening' /\ PriceDriftPerTick'
BY DEF IInv, ChangesAreTaken, StillAtOpening, PriceDriftPerTick

\* An accepted command starts from the opening price: the product was not
\* taken, so the ratio test measured the whole change of the tick.
LEMMA AcceptStep ==
  ASSUME WorldAssumption, IInv, NEW id \in Ids, NEW a \in Asins, NEW p \in Prices,
         Accept(id, a, p)
  PROVE  ChangesAreTaken' /\ StillAtOpening' /\ PriceDriftPerTick'
<1>1. /\ price \in [Asins -> Nat] /\ opening \in [Asins -> Nat]
      /\ changes \in [Asins -> Nat] /\ p \in Nat /\ products \subseteq Asins
  BY DEF IInv, TypeOK, WorldAssumption
<1>2. /\ a \in products /\ a \notin taken /\ WithinHalf(price[a], p)
      /\ price' = [price EXCEPT ![a] = p] /\ taken' = taken \cup {a}
      /\ changes' = [changes EXCEPT ![a] = @ + 1]
      /\ products' = products /\ opening' = opening
  BY DEF Accept, Allowed, Moderate
<1>3. ChangesAreTaken'
  BY <1>1, <1>2 DEF IInv, ChangesAreTaken
<1>4. StillAtOpening'
  BY <1>1, <1>2 DEF IInv, StillAtOpening
<1>5. PriceDriftPerTick'
  <2>1. SUFFICES ASSUME NEW b \in products, opening[b] > 0
                 PROVE  WithinHalf(opening[b], price'[b])
    BY <1>2 DEF PriceDriftPerTick
  <2>2. CASE b = a
    <3>1. price[a] = opening[a]
      BY <1>2, <2>1, <2>2 DEF IInv, StillAtOpening
    <3>2. price'[a] = p
      BY <1>1, <1>2
    <3> QED
      BY <1>2, <2>2, <3>1, <3>2
  <2>3. CASE b # a
    <3>1. price'[b] = price[b]
      BY <1>1, <1>2, <2>3
    <3> QED
      BY <2>1, <3>1 DEF IInv, PriceDriftPerTick
  <2> QED
    BY <2>2, <2>3
<1> QED
  BY <1>3, <1>4, <1>5

\* A price written in silence belongs to a product that opened without one.
LEMMA SilentStep ==
  ASSUME WorldAssumption, IInv, NEW id \in Ids, NEW a \in Asins, NEW p \in Prices,
         AcceptInSilence(id, a, p)
  PROVE  ChangesAreTaken' /\ StillAtOpening' /\ PriceDriftPerTick'
<1>1. /\ price \in [Asins -> Nat] /\ opening \in [Asins -> Nat]
      /\ p \in Nat /\ products \subseteq Asins
  BY DEF IInv, TypeOK, WorldAssumption
<1>2. /\ a \in products /\ a \notin taken /\ price[a] = 0
      /\ price' = [price EXCEPT ![a] = p]
      /\ taken' = taken /\ changes' = changes
      /\ products' = products /\ opening' = opening
  BY DEF AcceptInSilence, Allowed
<1>3. opening[a] = 0
  BY <1>1, <1>2 DEF IInv, StillAtOpening
<1>4. \A b \in products : b # a => price'[b] = price[b]
  BY <1>1, <1>2
<1> QED
  BY <1>1, <1>2, <1>3, <1>4 DEF IInv, ChangesAreTaken, StillAtOpening, PriceDriftPerTick

LEMMA PutStep ==
  ASSUME IInv, NEW a \in Asins, NEW p \in Nat, NEW q \in Nat, Put(a, p, q)
  PROVE  ChangesAreTaken' /\ StillAtOpening' /\ PriceDriftPerTick'
<1>1. /\ price \in [Asins -> Nat] /\ opening \in [Asins -> Nat] /\ products \subseteq Asins
  BY DEF IInv, TypeOK
<1>2. /\ price' = [price EXCEPT ![a] = p] /\ opening' = [opening EXCEPT ![a] = p]
      /\ taken' = taken /\ changes' = changes /\ products' = products \cup {a}
  BY DEF Put, arbitration
<1>3. ChangesAreTaken'
  BY <1>2 DEF IInv, ChangesAreTaken
<1>4. price'[a] = p /\ opening'[a] = p
  BY <1>1, <1>2
<1>5. \A b \in Asins : b # a => price'[b] = price[b] /\ opening'[b] = opening[b]
  BY <1>1, <1>2
<1>6. StillAtOpening'
  BY <1>1, <1>2, <1>4, <1>5 DEF IInv, StillAtOpening
<1>7. PriceDriftPerTick'
  <2>1. SUFFICES ASSUME NEW b \in products \cup {a}, opening'[b] > 0
                 PROVE  WithinHalf(opening'[b], price'[b])
    BY <1>2 DEF PriceDriftPerTick
  <2>2. CASE b = a
    BY <1>4, <2>2, WithinHalfRefl
  <2>3. CASE b # a
    BY <1>1, <1>5, <2>1, <2>3 DEF IInv, PriceDriftPerTick
  <2> QED
    BY <2>2, <2>3
<1> QED
  BY <1>3, <1>6, <1>7

\* A step after which every known product stands at its opening price and no
\* command is pending or none is counted.
LEMMA ReopenStep ==
  ASSUME products' \subseteq Asins, price' \in [Asins -> Nat], opening' = price'
  PROVE  StillAtOpening' /\ PriceDriftPerTick'
<1>1. StillAtOpening'
  BY DEF StillAtOpening
<1>2. ASSUME NEW b \in products' PROVE WithinHalf(opening'[b], price'[b])
  <2>1. price'[b] \in Nat /\ opening'[b] = price'[b]
    BY <1>2
  <2> QED
    BY <2>1, WithinHalfRefl
<1>3. PriceDriftPerTick'
  BY <1>2 DEF PriceDriftPerTick
<1> QED
  BY <1>1, <1>3

LEMMA StepIInv == ASSUME WorldAssumption, IInv, [Next]_vars PROVE IInv'
<1>0. TypeOK'
  BY StepTypeOK DEF IInv
<1>t. products' \subseteq Asins /\ price' \in [Asins -> Nat]
  BY <1>0 DEF TypeOK
<1>1. SUFFICES ChangesAreTaken' /\ StillAtOpening' /\ PriceDriftPerTick'
  BY <1>0 DEF IInv
<1>2. ASSUME NEW id \in Ids, NEW a \in Asins, NEW p \in Prices,
             HandleSetPriceCommand(id, a, p)
      PROVE  ChangesAreTaken' /\ StillAtOpening' /\ PriceDriftPerTick'
  <2>1. CASE Duplicate(id)
    BY <2>1, QuietStep DEF Duplicate, state
  <2>2. CASE Reject(id, a, p)
    BY <2>2, QuietStep DEF Reject, state
  <2>3. CASE Accept(id, a, p)
    BY <2>3, AcceptStep
  <2>4. CASE AcceptInSilence(id, a, p)
    BY <2>4, SilentStep
  <2>5. CASE Unknown(id, a, p)
    BY <2>5, QuietStep DEF Unknown, state, arbitration
  <2> QED
    BY <1>2, <2>1, <2>2, <2>3, <2>4, <2>5 DEF HandleSetPriceCommand
<1>3. ASSUME NEW a \in Asins, NEW q \in Quantities, HandleInventoryUpdate(a, q)
      PROVE  ChangesAreTaken' /\ StillAtOpening' /\ PriceDriftPerTick'
  <2>1. CASE Put(a, 0, q)
    <3>1. q \in Nat
      BY DEF WorldAssumption
    <3> QED
      BY <2>1, <3>1, PutStep
  <2>2. CASE UNCHANGED <<products, price, version, arbitration, tick, snapshots, ghosts>>
    BY <2>2, QuietStep DEF arbitration, ghosts
  <2> QED
    BY <1>3, <2>1, <2>2 DEF HandleInventoryUpdate
<1>4. ASSUME NEW a \in Asins, CreateStub(a)
      PROVE  ChangesAreTaken' /\ StillAtOpening' /\ PriceDriftPerTick'
  <2>1. Put(a, 0, 0)
    BY <1>4 DEF CreateStub
  <2> QED
    BY <2>1, PutStep
<1>5. ASSUME NEW a \in Asins, NEW p \in Prices, NEW q \in Quantities,
             InitializeProduct(a, p, q) \/ SetProductState(a, p, q)
      PROVE  ChangesAreTaken' /\ StillAtOpening' /\ PriceDriftPerTick'
  <2>1. Put(a, p, q) /\ p \in Nat /\ q \in Nat
    BY <1>5 DEF InitializeProduct, SetProductState, WorldAssumption
  <2> QED
    BY <2>1, PutStep
<1>6. CASE HandleTickEvent
  <2>1. taken' = {} /\ changes' = None /\ opening' = price'
    BY <1>6 DEF HandleTickEvent, ResetTickState, state
  <2>2. ChangesAreTaken'
    BY <2>1 DEF ChangesAreTaken, None
  <2> QED
    BY <1>t, <2>1, <2>2, ReopenStep
<1>7. CASE SaveStateSnapshot
  BY <1>7, QuietStep DEF SaveStateSnapshot, state, arbitration, ghosts
<1>8. ASSUME NEW i \in DOMAIN snapshots, LoadStateSnapshot(i)
      PROVE  ChangesAreTaken' /\ StillAtOpening' /\ PriceDriftPerTick'
  <2>1. taken' = taken /\ changes' = changes /\ opening' = price'
    BY <1>8 DEF LoadStateSnapshot, arbitration
  <2>2. ChangesAreTaken'
    BY <2>1 DEF IInv, ChangesAreTaken
  <2> QED
    BY <1>t, <2>1, <2>2, ReopenStep
<1>9. CASE ResetState
  <2>1. taken' = {} /\ changes' = None /\ opening' = price'
    BY <1>9 DEF ResetState, ResetTickState
  <2>2. ChangesAreTaken'
    BY <2>1 DEF ChangesAreTaken, None
  <2> QED
    BY <1>t, <2>1, <2>2, ReopenStep
<1>10. CASE UNCHANGED vars
  BY <1>10, QuietStep DEF vars, state, arbitration, ghosts
<1> QED
  BY <1>2, <1>3, <1>4, <1>5, <1>6, <1>7, <1>8, <1>9, <1>10 DEF Next

\* The inductive invariant holds in every behaviour of the store.
THEOREM StoreInvariant == Spec => []IInv
<1>1. Init => IInv
  BY InitIInv
<1>2. IInv /\ [Next]_vars => IInv'
  BY StepIInv, WorldAssumption
<1> QED
  BY <1>1, <1>2, PTL DEF Spec

\* The variables of the store keep their types.
THEOREM Typing == Spec => []TypeOK
<1>1. IInv => TypeOK
  BY DEF IInv
<1> QED
  BY <1>1, StoreInvariant, PTL

\* At most one price update of a product is published between two ticks.
THEOREM OneUpdate == Spec => []OneUpdatePerTick
<1>1. IInv => OneUpdatePerTick
  BY DEF IInv, ChangesAreTaken, OneUpdatePerTick
<1> QED
  BY <1>1, StoreInvariant, PTL

\* No sequence of commands moves a price by more than half in one tick.
THEOREM BoundedDrift == Spec => []PriceDriftPerTick
<1>1. IInv => PriceDriftPerTick
  BY DEF IInv
<1> QED
  BY <1>1, StoreInvariant, PTL

(* A step that handles no command keeps what was counted, or starts anew. *)
LEMMA StepStatistics ==
  ASSUME TypeOK, StatisticsAddUp, [Next]_vars PROVE StatisticsAddUp'
<1>0. /\ processed \in Nat /\ rejected \in Nat /\ history \in Nat
      /\ handled \in Nat /\ crashed \in Nat
  BY DEF TypeOK
<1>1. ASSUME UNCHANGED <<processed, rejected, history, handled, crashed>>
      PROVE  StatisticsAddUp'
  BY <1>1 DEF StatisticsAddUp
<1>2. ASSUME NEW id \in Ids, NEW a \in Asins, NEW p \in Prices, HandleSetPriceCommand(id, a, p)
      PROVE  StatisticsAddUp'
  <2>1. handled' = handled + 1
    BY <1>2 DEF HandleSetPriceCommand
  <2>2. CASE Duplicate(id)
    BY <1>0, <2>1, <2>2 DEF Duplicate, Refused, StatisticsAddUp
  <2>3. CASE Reject(id, a, p)
    BY <1>0, <2>1, <2>3 DEF Reject, Refused, StatisticsAddUp
  <2>4. CASE Accept(id, a, p)
    BY <1>0, <2>1, <2>4 DEF Accept, StatisticsAddUp
  <2>5. CASE AcceptInSilence(id, a, p)
    BY <1>0, <2>1, <2>5 DEF AcceptInSilence, Refused, StatisticsAddUp
  <2>6. CASE Unknown(id, a, p)
    BY <1>0, <2>1, <2>6 DEF Unknown, arbitration, StatisticsAddUp
  <2> QED BY <1>2, <2>2, <2>3, <2>4, <2>5, <2>6 DEF HandleSetPriceCommand
<1>3. ASSUME NEW a \in Asins, NEW p, NEW q, Put(a, p, q) PROVE StatisticsAddUp'
  BY <1>1, <1>3 DEF Put, arbitration
<1>4. ASSUME NEW a \in Asins, NEW q \in Quantities, HandleInventoryUpdate(a, q)
      PROVE  StatisticsAddUp'
  BY <1>1, <1>3, <1>4 DEF HandleInventoryUpdate, arbitration, ghosts
<1>5. CASE HandleTickEvent
  BY <1>1, <1>5 DEF HandleTickEvent
<1>6. CASE SaveStateSnapshot \/ UNCHANGED vars
  BY <1>1, <1>6 DEF SaveStateSnapshot, vars, arbitration, ghosts
<1>7. ASSUME NEW i \in DOMAIN snapshots, LoadStateSnapshot(i) PROVE StatisticsAddUp'
  BY <1>1, <1>7 DEF LoadStateSnapshot, arbitration
<1>8. CASE ResetState
  BY <1>8 DEF ResetState, StatisticsAddUp
<1> QED BY <1>2, <1>3, <1>4, <1>5, <1>6, <1>7, <1>8
        DEF Next, CreateStub, InitializeProduct, SetProductState

(* The arbitrator's statistics account for every command that did not end in *)
(* a NameError, and none is accepted without its entry in the history        *)
(* (get_statistics).                                                         *)
THEOREM StatisticsAccount == Spec => []StatisticsAddUp
<1>1. Init => StatisticsAddUp
  BY DEF Init, StatisticsAddUp
<1>2. TypeOK /\ StatisticsAddUp /\ [Next]_vars => StatisticsAddUp'
  BY StepStatistics
<1> QED BY <1>1, <1>2, Typing, PTL DEF Spec
-----------------------------------------------------------------------------
(* Saving and loading, for any number of snapshots, products and values.       *)

(* What a snapshot's file keeps of a product is what was live when it was      *)
(* taken: in memory without the metadata, of which it has the address.         *)
Recorded ==
  \A i \in DOMAIN files :
    /\ DOMAIN saved[i] = files[i].products
    /\ \A a \in files[i].products : saved[i][a].stock = files[i].stock[a]
    /\ IF backend = "json"
       THEN /\ files[i].look \in [Items -> Looks]
            /\ \A a \in files[i].products : saved[i][a].look = files[i].look[a]
       ELSE files[i].look \in [Items -> Cells]

(* After a load, until the next write, the file's content is what is live.     *)
AsLoaded ==
  restored # 0 =>
    /\ known = files[restored].products /\ units = files[restored].stock
    /\ backend = "json" => \A a \in Items : heap[a][0] = files[restored].look[a]

\* Only the in-memory backend shares dictionaries.
OwnCells == backend = "json" => cell = Zero

SnapshotInv == SnapshotTypeOK /\ Recorded /\ AsLoaded /\ OwnCells

LEMMA BlankLook == Blank \in Looks
BY SnapshotAssumption DEF Blank

LEMMA ZeroTypes ==
  /\ Zero \in [Items -> Cells]
  /\ Zero \in [Items -> Amounts \cup {0}] /\ Zero \in [Items -> Levels \cup {0}]
BY SnapshotAssumption DEF Zero, Cells

LEMMA InitSnapshotInv == ASSUME SnapshotInit PROVE SnapshotInv
<1>1. SnapshotTypeOK
  BY BlankLook, ZeroTypes DEF SnapshotInit, SnapshotTypeOK
<1>2. Recorded
  BY DEF SnapshotInit, Recorded
<1>3. AsLoaded /\ OwnCells
  BY DEF SnapshotInit, AsLoaded, OwnCells
<1> QED BY <1>1, <1>2, <1>3 DEF SnapshotInv

\* The process has lost what it held; the types of the rest are kept.
LEMMA NothingLiveStep ==
  ASSUME SnapshotInv, NothingLive, backend' = backend,
         up' \in {"up", "down", "failed"},
         \/ UNCHANGED <<files, saved>>
         \/ files' = <<>> /\ saved' = <<>>
  PROVE  SnapshotInv'
<1>1. SnapshotTypeOK'
  <2>1. heap' \in [Items -> [Cells -> Looks]] /\ restored' = 0 /\ known' = {}
    BY BlankLook DEF NothingLive
  <2>2. money' \in [Items -> Amounts \cup {0}] /\ units' \in [Items -> Levels \cup {0}]
        /\ cell' \in [Items -> Cells]
    BY ZeroTypes DEF NothingLive
  <2>3. files' \in Seq(Files) /\ saved' \in Seq(Takes) /\ Len(saved') = Len(files')
    <3>1. CASE UNCHANGED <<files, saved>>
      BY <3>1 DEF SnapshotInv, SnapshotTypeOK
    <3>2. CASE files' = <<>> /\ saved' = <<>>
      BY <3>2
    <3> QED BY <3>1, <3>2
  <2> QED BY <2>1, <2>2, <2>3 DEF SnapshotInv, SnapshotTypeOK
<1>2. Recorded'
  <2>1. CASE UNCHANGED <<files, saved>>
    BY <2>1 DEF SnapshotInv, Recorded
  <2>2. CASE files' = <<>>
    BY <2>2 DEF Recorded
  <2> QED BY <2>1, <2>2
<1>3. AsLoaded' /\ OwnCells'
  BY DEF NothingLive, AsLoaded, OwnCells
<1> QED BY <1>1, <1>2, <1>3 DEF SnapshotInv

\* Whether the process is up is the only thing that changes.
LEMMA QuietSnapshot ==
  ASSUME SnapshotInv, up' \in {"up", "down", "failed"},
         UNCHANGED <<backend, known, money, units, cell, heap, files, saved, restored>>
  PROVE  SnapshotInv'
<1>1. SnapshotTypeOK'
  BY DEF SnapshotInv, SnapshotTypeOK
<1>2. Recorded'
  BY DEF SnapshotInv, Recorded
<1>3. AsLoaded' /\ OwnCells'
  BY DEF SnapshotInv, AsLoaded, OwnCells
<1> QED BY <1>1, <1>2, <1>3 DEF SnapshotInv

\* A load of snapshot i, also by a new process.
LEMMA PopulateStep ==
  ASSUME SnapshotInv, NEW i \in DOMAIN files, PopulateFrom(i), backend' = backend,
         up' \in {"up", "down", "failed"}, UNCHANGED <<files, saved>>
  PROVE  SnapshotInv'
<1>1. Recorded'
  BY DEF SnapshotInv, Recorded
<1>2. CASE LoadedNothing
  BY <1>2, QuietSnapshot DEF LoadedNothing, live
<1>3. CASE Populate(i)
  <2>1. files[i] \in Files /\ i \in 1..Len(files)
    BY DEF SnapshotInv, SnapshotTypeOK
  <2>2. known' \subseteq Items /\ units' \in [Items -> Levels \cup {0}]
    BY <1>3, <2>1 DEF Populate, Files
  <2>3. money' \in [Items -> Amounts \cup {0}]
    BY <1>3 DEF Populate, PricesOf, MoneyFromSerializable
  <2>4. CASE backend = "memory"
    <3>1. cell' \in [Items -> Cells] /\ UNCHANGED heap
      BY <1>3, <2>4 DEF Populate, SnapshotInv, Recorded
    <3>2. SnapshotTypeOK'
      BY <1>3, <2>1, <2>2, <2>3, <3>1 DEF SnapshotInv, SnapshotTypeOK, Populate
    <3>3. AsLoaded' /\ OwnCells'
      BY <1>3, <2>4 DEF Populate, AsLoaded, OwnCells
    <3> QED BY <1>1, <3>2, <3>3 DEF SnapshotInv
  <2>5. CASE backend = "json"
    <3>1. files[i].look \in [Items -> Looks]
      BY <2>5 DEF SnapshotInv, Recorded
    <3>2. /\ heap' = [a \in Items |-> [heap[a] EXCEPT ![0] = files[i].look[a]]]
          /\ UNCHANGED cell
      BY <1>3, <2>5 DEF Populate
    <3>3. heap' \in [Items -> [Cells -> Looks]]
      BY <3>1, <3>2 DEF SnapshotInv, SnapshotTypeOK
    <3>4. \A a \in Items : heap'[a][0] = files[i].look[a]
      BY <3>2, SnapshotAssumption DEF SnapshotInv, SnapshotTypeOK, Cells
    <3>5. SnapshotTypeOK'
      BY <1>3, <2>1, <2>2, <2>3, <3>2, <3>3 DEF SnapshotInv, SnapshotTypeOK, Populate
    <3>6. AsLoaded' /\ OwnCells'
      BY <1>3, <3>2, <3>4 DEF SnapshotInv, Populate, AsLoaded, OwnCells
    <3> QED BY <1>1, <3>5, <3>6 DEF SnapshotInv
  <2> QED BY <2>4, <2>5, SnapshotAssumption DEF SnapshotInv, SnapshotTypeOK
<1> QED BY <1>2, <1>3 DEF PopulateFrom

(* What a snapshot is taken of, and the file, whole or torn, made of it.       *)
LEMMA TakenStep ==
  ASSUME SnapshotInv, Len(files) < MaxSaves, NEW f, f.products = known, f.stock = units,
         f.look = File.look, f \in Files, backend' = backend,
         files' = Append(files, f), saved' = Append(saved, Values)
  PROVE  /\ files' \in Seq(Files) /\ saved' \in Seq(Takes) /\ Len(saved') = Len(files')
         /\ Recorded'
         /\ \A i \in DOMAIN files : files'[i] = files[i]
<1>1. \A a \in Items : Look(a) \in Looks
  BY DEF SnapshotInv, SnapshotTypeOK, Look
<1>2. Values \in Takes
  <2>1. Values \in [known -> [money : Amounts \cup {0}, stock : Levels \cup {0}, look : Looks]]
    BY <1>1 DEF SnapshotInv, SnapshotTypeOK, Values
  <2>2. known \in SUBSET Items
    BY DEF SnapshotInv, SnapshotTypeOK
  <2> QED BY <2>1, <2>2 DEF Takes
<1>3. /\ files' \in Seq(Files) /\ saved' \in Seq(Takes)
      /\ Len(files') = Len(files) + 1 /\ Len(saved') = Len(files) + 1
      /\ \A i \in 1..Len(files) : files'[i] = files[i] /\ saved'[i] = saved[i]
      /\ files'[Len(files) + 1] = f /\ saved'[Len(files) + 1] = Values
  BY <1>2 DEF SnapshotInv, SnapshotTypeOK
<1>4. /\ DOMAIN Values = f.products
      /\ \A a \in known : Values[a].stock = f.stock[a] /\ Values[a].look = Look(a)
  BY DEF Values
<1>5. CASE backend = "json"
  <2>1. f.look = [a \in Items |-> Look(a)]
    BY <1>5 DEF File
  <2>2. f.look \in [Items -> Looks] /\ \A a \in known : f.look[a] = Look(a)
    BY <1>1, <2>1 DEF SnapshotInv, SnapshotTypeOK
  <2>3. Recorded'
    <3> SUFFICES ASSUME NEW i \in DOMAIN files'
                 PROVE  /\ DOMAIN saved'[i] = files'[i].products
                        /\ \A a \in files'[i].products : saved'[i][a].stock = files'[i].stock[a]
                        /\ files'[i].look \in [Items -> Looks]
                        /\ \A a \in files'[i].products : saved'[i][a].look = files'[i].look[a]
      BY <1>5 DEF Recorded
    <3>1. CASE i \in 1..Len(files)
      BY <1>3, <1>5, <3>1 DEF SnapshotInv, SnapshotTypeOK, Recorded
    <3>2. CASE i = Len(files) + 1
      BY <1>3, <1>4, <2>2, <3>2
    <3> QED BY <1>3, <3>1, <3>2 DEF SnapshotInv, SnapshotTypeOK
  <2> QED BY <1>3, <2>3 DEF SnapshotInv, SnapshotTypeOK
<1>6. CASE backend = "memory"
  <2>1. f.look = [a \in Items |-> Owner(a)]
    BY <1>6 DEF File
  <2>2. f.look \in [Items -> Cells]
    BY <1>6, <2>1, SnapshotAssumption DEF SnapshotInv, SnapshotTypeOK, Owner, Cells
  <2>3. Recorded'
    <3> SUFFICES ASSUME NEW i \in DOMAIN files'
                 PROVE  /\ DOMAIN saved'[i] = files'[i].products
                        /\ \A a \in files'[i].products : saved'[i][a].stock = files'[i].stock[a]
                        /\ files'[i].look \in [Items -> Cells]
      BY <1>6 DEF Recorded
    <3>1. CASE i \in 1..Len(files)
      BY <1>3, <1>6, <3>1 DEF SnapshotInv, SnapshotTypeOK, Recorded
    <3>2. CASE i = Len(files) + 1
      BY <1>3, <1>4, <2>2, <3>2
    <3> QED BY <1>3, <3>1, <3>2 DEF SnapshotInv, SnapshotTypeOK
  <2> QED BY <1>3, <2>3 DEF SnapshotInv, SnapshotTypeOK
<1> QED BY <1>5, <1>6, SnapshotAssumption DEF SnapshotInv, SnapshotTypeOK

\* The file of a well-typed state is well typed.
LEMMA FileType ==
  ASSUME SnapshotInv, Len(files) < MaxSaves
  PROVE  /\ File \in Files /\ \A a \in Items : Owner(a) \in Cells
         /\ [File EXCEPT !.torn = TRUE] \in Files
<1>1. \A a \in Items : Owner(a) \in Cells
  BY SnapshotAssumption DEF SnapshotInv, SnapshotTypeOK, Owner, Cells
<1>2. [a \in Items |-> IF backend = "memory" THEN Owner(a) ELSE Look(a)]
        \in [Items -> Cells \cup Looks]
  BY <1>1 DEF SnapshotInv, SnapshotTypeOK, Look
<1> QED BY <1>1, <1>2 DEF SnapshotInv, SnapshotTypeOK, File, Files

LEMMA SaveStep == ASSUME SnapshotInv, Save, backend' = backend PROVE SnapshotInv'
<1>1. /\ files' \in Seq(Files) /\ saved' \in Seq(Takes) /\ Len(saved') = Len(files')
      /\ Recorded'
      /\ \A i \in DOMAIN files : files'[i] = files[i]
  BY FileType, TakenStep DEF Save, File
<1>2. cell' \in [Items -> Cells]
  BY FileType DEF Save
<1>3. heap' \in [Items -> [Cells -> Looks]]
  BY BlankLook DEF Save, SnapshotInv, SnapshotTypeOK, Look
<1>4. Len(files') = Len(files) + 1
  BY DEF Save, SnapshotInv, SnapshotTypeOK
<1>5. SnapshotTypeOK'
  BY <1>1, <1>2, <1>3, <1>4 DEF Save, SnapshotInv, SnapshotTypeOK
<1>6. backend = "json" => \A a \in Items : Owner(a) = 0 /\ cell[a] = 0
  BY DEF SnapshotInv, OwnCells, Owner, Zero
<1>7. OwnCells'
  BY <1>6 DEF Save, OwnCells, Zero
<1>8. AsLoaded'
  <2>1. backend = "json" => \A a \in Items : heap'[a][0] = heap[a][0]
    BY <1>6, SnapshotAssumption DEF Save, Look, Cells
  <2>2. restored' = restored /\ restored \in 0..Len(files)
    BY DEF Save, SnapshotInv, SnapshotTypeOK
  <2>3. restored # 0 => files'[restored] = files[restored]
    BY <1>1, <2>2 DEF SnapshotInv, SnapshotTypeOK
  <2> QED BY <2>1, <2>2, <2>3 DEF Save, SnapshotInv, AsLoaded
<1> QED BY <1>1, <1>5, <1>7, <1>8 DEF SnapshotInv

LEMMA TornStep ==
  ASSUME SnapshotInv, NEW dies \in BOOLEAN, TornSave(dies), backend' = backend
  PROVE  SnapshotInv'
<1> DEFINE f == [File EXCEPT !.torn = TRUE]
<1>1. f \in Files /\ f.products = known /\ f.stock = units /\ f.look = File.look
  BY FileType DEF TornSave, File
<1>2. /\ files' \in Seq(Files) /\ saved' \in Seq(Takes) /\ Len(saved') = Len(files')
      /\ Recorded'
      /\ \A i \in DOMAIN files : files'[i] = files[i]
  BY <1>1, TakenStep DEF TornSave
<1>3. Len(files') = Len(files) + 1
  BY DEF TornSave, SnapshotInv, SnapshotTypeOK
<1>4. CASE dies
  <2>1. NothingLive /\ up' = "down"
    BY <1>4 DEF TornSave
  <2>2. SnapshotTypeOK'
    BY <1>2, <1>3, <2>1, BlankLook, ZeroTypes DEF SnapshotInv, SnapshotTypeOK, NothingLive
  <2>3. AsLoaded' /\ OwnCells'
    BY <2>1 DEF NothingLive, AsLoaded, OwnCells
  <2> QED BY <1>2, <2>2, <2>3 DEF SnapshotInv
<1>5. CASE ~dies
  <2>1. UNCHANGED <<known, money, units, cell, heap, up, restored>>
    BY <1>5 DEF TornSave, live
  <2>2. SnapshotTypeOK'
    <3>1. restored' \in 0..Len(files')
      BY <1>3, <2>1 DEF SnapshotInv, SnapshotTypeOK
    <3>2. UNCHANGED <<backend, known, money, units, cell, heap, up>>
      BY <2>1
    <3> QED BY <1>2, <3>1, <3>2 DEF SnapshotInv, SnapshotTypeOK
  <2>3. restored # 0 => files'[restored] = files[restored]
    <3>1. restored \in 0..Len(files) /\ files \in Seq(Files)
      BY DEF SnapshotInv, SnapshotTypeOK
    <3>2. restored # 0 => restored \in DOMAIN files
      BY <3>1
    <3> QED BY <1>2, <3>2
  <2>4. AsLoaded' /\ OwnCells'
    BY <2>1, <2>3 DEF SnapshotInv, AsLoaded, OwnCells
  <2> QED BY <1>2, <2>2, <2>4 DEF SnapshotInv
<1> QED BY <1>4, <1>5

(* A write to the live state; it ends what a load has brought back.            *)
LEMMA WriteStep ==
  ASSUME SnapshotInv, backend' = backend,
         \/ \E a \in Items, m \in Amounts, q \in Levels, v \in Looks : Create(a, m, q, v)
         \/ \E a \in Items, m \in Amounts, q \in Levels : Update(a, m, q)
         \/ \E a \in Items, v \in Looks : SetLook(a, v)
  PROVE  SnapshotInv'
<1>1. ASSUME NEW a \in Items, NEW m \in Amounts, NEW q \in Levels, NEW v \in Looks,
             Create(a, m, q, v)
      PROVE  SnapshotTypeOK' /\ OwnCells' /\ restored' = 0 /\ UNCHANGED <<files, saved>>
  <2>1. heap' \in [Items -> [Cells -> Looks]]
    BY <1>1 DEF Create, SnapshotInv, SnapshotTypeOK
  <2>2. cell' \in [Items -> Cells]
    BY <1>1, SnapshotAssumption DEF Create, SnapshotInv, SnapshotTypeOK, Cells
  <2>3. known' \subseteq Items /\ money' \in [Items -> Amounts \cup {0}]
        /\ units' \in [Items -> Levels \cup {0}]
    BY <1>1 DEF Create, SnapshotInv, SnapshotTypeOK
  <2>4. SnapshotTypeOK'
    BY <1>1, <2>1, <2>2, <2>3 DEF Create, SnapshotInv, SnapshotTypeOK
  <2>5. OwnCells'
    BY <1>1 DEF Create, SnapshotInv, OwnCells, Zero
  <2> QED BY <1>1, <2>4, <2>5 DEF Create
<1>2. ASSUME NEW a \in Items, NEW m \in Amounts, NEW q \in Levels, Update(a, m, q)
      PROVE  SnapshotTypeOK' /\ OwnCells' /\ restored' = 0 /\ UNCHANGED <<files, saved>>
  BY <1>2 DEF Update, SnapshotInv, SnapshotTypeOK, OwnCells
<1>3. ASSUME NEW a \in Items, NEW v \in Looks, SetLook(a, v)
      PROVE  SnapshotTypeOK' /\ OwnCells' /\ restored' = 0 /\ UNCHANGED <<files, saved>>
  BY <1>3 DEF SetLook, SnapshotInv, SnapshotTypeOK, OwnCells
<1>4. SnapshotTypeOK' /\ OwnCells' /\ restored' = 0 /\ UNCHANGED <<files, saved>>
  BY <1>1, <1>2, <1>3
<1>5. Recorded'
  BY <1>4 DEF SnapshotInv, Recorded
<1> QED BY <1>4, <1>5 DEF SnapshotInv, AsLoaded

LEMMA StepSnapshotInv ==
  ASSUME SnapshotInv, [SnapshotNext]_snapshotVars
  PROVE  SnapshotInv'
<1>1. CASE UNCHANGED snapshotVars
  <2>1. up' \in {"up", "down", "failed"}
    BY <1>1 DEF snapshotVars, SnapshotInv, SnapshotTypeOK
  <2> QED BY <1>1, <2>1, QuietSnapshot DEF snapshotVars, live
<1>2. CASE SnapshotNext
  <2>1. backend' = backend
    BY <1>2 DEF SnapshotNext
  <2>2. CASE Save
    BY <2>1, <2>2, SaveStep
  <2>3. ASSUME NEW dies \in BOOLEAN, TornSave(dies) PROVE SnapshotInv'
    BY <2>1, <2>3, TornStep
  <2>4. ASSUME NEW i \in DOMAIN files, Load(i) PROVE SnapshotInv'
    <3>1. CASE Readable(i)
      BY <2>1, <2>4, <3>1, PopulateStep DEF Load
    <3>2. CASE ~Readable(i)
      BY <2>1, <2>4, <3>2, QuietSnapshot DEF Load, LoadedNothing, live
    <3> QED BY <3>1, <3>2
  <2>5. CASE Crash
    BY <2>1, <2>5, NothingLiveStep DEF Crash
  <2>6. CASE Restart
    <3>1. CASE NothingLive /\ files' = <<>> /\ saved' = <<>> /\ up' = "up"
      BY <2>1, <3>1, NothingLiveStep
    <3>2. CASE up' = "failed" /\ UNCHANGED <<live, files, saved, restored>>
      BY <2>1, <3>2, QuietSnapshot DEF live
    <3>3. CASE files # <<>> /\ up' = "up" /\ PopulateFrom(Latest) /\ UNCHANGED <<files, saved>>
      <4>1. Latest \in DOMAIN files
        BY <3>3 DEF Latest, SnapshotInv, SnapshotTypeOK
      <4> QED BY <2>1, <3>3, <4>1, PopulateStep
    <3> QED BY <2>6, <3>1, <3>2, <3>3 DEF Restart
  <2> QED BY <1>2, <2>1, <2>2, <2>3, <2>4, <2>5, <2>6, WriteStep DEF SnapshotNext
<1> QED BY <1>1, <1>2

(* The inductive invariant of both backends under saves, torn writes, loads,   *)
(* crashes and restarts.                                                       *)
THEOREM SnapshotInvariant == SnapshotSpec => []SnapshotInv
<1>1. SnapshotInit => SnapshotInv
  BY InitSnapshotInv
<1>2. SnapshotInv /\ [SnapshotNext]_snapshotVars => SnapshotInv'
  BY StepSnapshotInv
<1> QED BY <1>1, <1>2, PTL DEF SnapshotSpec

(* Products and stock come back as they were when the snapshot was taken, on   *)
(* either backend, whatever was written, saved or loaded since                 *)
(* (load_state_from_dict, start).                                              *)
THEOREM GoodsComeBack == SnapshotSpec => []RestoredGoods
<1>1. ASSUME SnapshotInv, restored # 0
      PROVE  /\ known = DOMAIN saved[restored]
             /\ \A a \in known : units[a] = saved[restored][a].stock
  <2>1. restored \in DOMAIN files
    BY <1>1 DEF SnapshotInv, SnapshotTypeOK
  <2> QED BY <1>1, <2>1 DEF SnapshotInv, AsLoaded, Recorded
<1>2. SnapshotInv => RestoredGoods
  BY <1>1 DEF RestoredGoods
<1> QED BY <1>2, SnapshotInvariant, PTL

(* On disk the metadata comes back too, also after a crash and a restart       *)
(* (from_dict, JsonFileStorageBackend).                                        *)
THEOREM MetadataComesBack == SnapshotSpec => []RestoredMetadata
<1>1. ASSUME SnapshotInv, restored # 0, backend = "json", NEW a \in known
      PROVE  Look(a) = saved[restored][a].look
  <2>1. restored \in DOMAIN files /\ a \in Items
    BY <1>1 DEF SnapshotInv, SnapshotTypeOK
  <2>2. Look(a) = heap[a][0]
    BY <1>1, <2>1 DEF SnapshotInv, OwnCells, Look, Zero
  <2>3. heap[a][0] = files[restored].look[a]
    BY <1>1, <2>1 DEF SnapshotInv, AsLoaded
  <2>4. a \in files[restored].products
    BY <1>1 DEF SnapshotInv, AsLoaded
  <2> QED BY <1>1, <2>1, <2>2, <2>3, <2>4 DEF SnapshotInv, Recorded
<1>2. SnapshotInv => RestoredMetadata
  BY <1>1 DEF RestoredMetadata
<1> QED BY <1>2, SnapshotInvariant, PTL
=============================================================================
