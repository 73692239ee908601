---------------------------- MODULE WorldStore ----------------------------
(***************************************************************************)
(* The canonical product state of a simulation and the arbitration of      *)
(* price commands: services/world_store (WorldStore, CommandArbitrator,    *)
(* WorldStateManager).                                                     *)
(*                                                                         *)
(* Every handler runs to its end without giving up the event loop: the     *)
(* only awaits it reaches, publish on a started bus and the in-memory      *)
(* backend, do not suspend.  A handler is therefore one action, and the    *)
(* order in which the bus delivers events is the only nondeterminism.      *)
(* What a backend keeps between runs is in module WorldSnapshots.          *)
(*                                                                         *)
(* Amounts are cents.  The ratio test of the code, on floats, is exact at  *)
(* its limit of one half for every price below the maximum, so it is       *)
(* written on integers.                                                    *)
(***************************************************************************)
EXTENDS Integers, Sequences, FiniteSets

CONSTANTS Asins,          \* products the events name
          Ids,            \* event ids of the commands; an id may come again
          Prices,         \* prices a command or an initialisation may carry
          Quantities,     \* stock levels an InventoryUpdate may carry
          MinPrice,       \* min_price_threshold
          MaxPrice,       \* max_price_threshold
          SnapshotEvery,  \* a snapshot is saved at the ticks this divides
          MaxTick,        \* bound: ticks are numbered below it
          MaxHandled,     \* bound: commands handled
          MaxSnapshots    \* bound: snapshots kept

ASSUME WorldAssumption ==
         /\ Prices \subseteq Nat \ {0}
         /\ Quantities \subseteq Nat
         /\ MinPrice \in Nat \ {0} /\ MaxPrice \in Nat
         /\ SnapshotEvery \in Nat \ {0}
         /\ MaxTick \in Nat /\ MaxHandled \in Nat /\ MaxSnapshots \in Nat

VARIABLES products,   \* keys of _product_state
          price,      \* ProductState.price of each product, 0 for none
          stock,      \* ProductState.inventory_quantity
          version,    \* ProductState.version
          taken,      \* asins with an entry in _pending_commands_by_asin_this_tick
          seen,       \* _processed_command_ids_this_tick
          processed, rejected, conflicts,  \* the arbitrator's statistics
          history,    \* length of _command_history
          tick,       \* number of the next TickEvent
          snapshots,  \* the backend's snapshots, oldest first
          opening,    \* history: a product's price when its tick began
          changes,    \* history: price updates of an asin published in this tick
          handled,    \* history: commands delivered since the last reset
          crashed     \* history: of these, how many ended in a NameError

state == <<products, price, stock, version>>
arbitration == <<taken, seen, processed, rejected, conflicts, history>>
ghosts == <<opening, changes, handled, crashed>>
vars == <<state, arbitration, tick, snapshots, ghosts>>

None == [a \in Asins |-> 0]

Init ==
  /\ products = {} /\ price = None /\ stock = None /\ version = None
  /\ taken = {} /\ seen = {}
  /\ processed = 0 /\ rejected = 0 /\ conflicts = 0 /\ history = 0
  /\ tick = 0 /\ snapshots = <<>>
  /\ opening = None /\ changes = None /\ handled = 0 /\ crashed = 0

-----------------------------------------------------------------------------
(* Arbitration of one SetPriceCommand. *)

WithinHalf(old, new) == 2 * (new - old) <= old /\ 2 * (old - new) <= old

InBounds(p) == MinPrice <= p /\ p <= MaxPrice

(* Variants named ...Bug are the mistakes the properties are there to      *)
(* catch; no specification uses them.                                      *)
ModerateBug(a, p) == price[a] > 0 => 2 * (p - price[a]) <= price[a]
Moderate(a, p) == price[a] > 0 => WithinHalf(price[a], p)

AllowedBug(a, p) == InBounds(p) /\ (a \in products => Moderate(a, p))
Allowed(a, p) ==
  InBounds(p) /\ (a \in products => Moderate(a, p) /\ a \notin taken)

Refused == rejected' = rejected + 1

\* An id already accepted in this tick is counted and dropped.
Duplicate(id) ==
  /\ id \in seen
  /\ Refused
  /\ UNCHANGED <<state, taken, seen, processed, conflicts, history>>
  /\ UNCHANGED <<opening, changes, crashed>>

\* The reason for a clash reads "already accepted for this tick"; the
\* statistics look for another text, so conflicts never moves.
Reject(id, a, p) ==
  /\ id \notin seen
  /\ ~Allowed(a, p)
  /\ Refused
  /\ history' = history + 1
  /\ UNCHANGED <<state, taken, seen, processed, conflicts>>
  /\ UNCHANGED <<opening, changes, crashed>>

AcceptBug(id, a, p) ==
  /\ id \notin seen
  /\ Allowed(a, p) /\ a \in products /\ price[a] > 0
  /\ price' = [price EXCEPT ![a] = p]
  /\ version' = [version EXCEPT ![a] = @ + 1]
  /\ processed' = processed + 1
  /\ Refused
  /\ history' = history + 1
  /\ seen' = seen \cup {id} /\ taken' = taken \cup {a}
  /\ changes' = [changes EXCEPT ![a] = @ + 1]
  /\ UNCHANGED <<products, stock, conflicts, opening, crashed>>
\* The price is written, then the update is published, then counted.
Accept(id, a, p) ==
  /\ id \notin seen
  /\ Allowed(a, p) /\ a \in products /\ price[a] > 0
  /\ price' = [price EXCEPT ![a] = p]
  /\ version' = [version EXCEPT ![a] = @ + 1]
  /\ processed' = processed + 1
  /\ history' = history + 1
  /\ seen' = seen \cup {id} /\ taken' = taken \cup {a}
  /\ changes' = [changes EXCEPT ![a] = @ + 1]
  /\ UNCHANGED <<products, stock, rejected, conflicts, opening, crashed>>

\* A product without a price: the price is written, then ProductPriceUpdated
\* refuses a previous price of zero with ValueError, which the handler counts
\* as a rejection.  The command blocks nothing and no subscriber hears of it.
AcceptInSilence(id, a, p) ==
  /\ id \notin seen
  /\ Allowed(a, p) /\ a \in products /\ price[a] = 0
  /\ price' = [price EXCEPT ![a] = p]
  /\ version' = [version EXCEPT ![a] = @ + 1]
  /\ Refused
  /\ UNCHANGED <<products, stock, taken, seen, processed, conflicts, history>>
  /\ UNCHANGED <<opening, changes, crashed>>

\* A product the store does not know: _apply_price_change names ProductState,
\* which its module does not import, and no except clause takes a NameError.
Unknown(id, a, p) ==
  /\ id \notin seen
  /\ Allowed(a, p) /\ a \notin products
  /\ crashed' = crashed + 1
  /\ UNCHANGED <<state, arbitration, opening, changes>>

HandleSetPriceCommand(id, a, p) ==
  /\ handled < MaxHandled
  /\ handled' = handled + 1
  /\ \/ Duplicate(id)
     \/ Reject(id, a, p)
     \/ Accept(id, a, p)
     \/ AcceptInSilence(id, a, p)
     \/ Unknown(id, a, p)
  /\ UNCHANGED <<tick, snapshots>>

-----------------------------------------------------------------------------
(* The other writers of the product state. *)

\* A new ProductState object for a, with this price and stock.
Put(a, p, q) ==
  /\ products' = products \cup {a}
  /\ price' = [price EXCEPT ![a] = p]
  /\ stock' = [stock EXCEPT ![a] = q]
  /\ version' = [version EXCEPT ![a] = 1]
  /\ opening' = [opening EXCEPT ![a] = p]
  /\ UNCHANGED <<arbitration, tick, snapshots, changes, handled, crashed>>

HandleInventoryUpdate(a, q) ==
  \/ /\ a \in products
     /\ stock' = [stock EXCEPT ![a] = q]
     /\ UNCHANGED <<products, price, version, arbitration, tick, snapshots, ghosts>>
  \/ a \notin products /\ Put(a, 0, q)

\* set_marketing_visibility and set_reputation_score create a product without
\* a price; of a known one they touch the metadata only.
CreateStub(a) == a \notin products /\ Put(a, 0, 0)

InitializeProduct(a, p, q) == a \notin products /\ Put(a, p, q)

\* set_product_state replaces whatever was there.
SetProductState(a, p, q) == Put(a, p, q)

Snapshot == [products |-> products, stock |-> stock, version |-> version]

ResetTickState == taken' = {} /\ seen' = {}

HandleTickEvent ==
  /\ tick < MaxTick
  /\ tick' = tick + 1
  /\ ResetTickState
  /\ opening' = price /\ changes' = None
  /\ IF tick % SnapshotEvery = 0
     THEN Len(snapshots) < MaxSnapshots /\ snapshots' = Append(snapshots, Snapshot)
     ELSE UNCHANGED snapshots
  /\ UNCHANGED <<state, processed, rejected, conflicts, history>>
  /\ UNCHANGED <<handled, crashed>>

SaveStateSnapshot ==
  /\ Len(snapshots) < MaxSnapshots
  /\ snapshots' = Append(snapshots, Snapshot)
  /\ UNCHANGED <<state, arbitration, tick, ghosts>>

\* An empty snapshot counts as none.  A saved price, "$20.00 USD", does not
\* parse and comes back as zero.
LoadStateSnapshot(i) ==
  /\ snapshots[i].products # {}
  /\ products' = snapshots[i].products
  /\ stock' = snapshots[i].stock
  /\ version' = snapshots[i].version
  /\ price' = None
  /\ opening' = price'
  /\ UNCHANGED <<arbitration, tick, snapshots, changes, handled, crashed>>

ResetState ==
  /\ products' = {} /\ price' = None /\ stock' = None /\ version' = None
  /\ ResetTickState
  /\ processed' = 0 /\ rejected' = 0 /\ conflicts' = 0 /\ history' = 0
  /\ opening' = None /\ changes' = None /\ handled' = 0 /\ crashed' = 0
  /\ UNCHANGED <<tick, snapshots>>

Next ==
  \/ \E id \in Ids, a \in Asins, p \in Prices : HandleSetPriceCommand(id, a, p)
  \/ \E a \in Asins, q \in Quantities : HandleInventoryUpdate(a, q)
  \/ \E a \in Asins : CreateStub(a)
  \/ \E a \in Asins, p \in Prices, q \in Quantities : InitializeProduct(a, p, q)
  \/ \E a \in Asins, p \in Prices, q \in Quantities : SetProductState(a, p, q)
  \/ HandleTickEvent
  \/ SaveStateSnapshot
  \/ \E i \in DOMAIN snapshots : LoadStateSnapshot(i)
  \/ ResetState

Spec == Init /\ [][Next]_vars

-----------------------------------------------------------------------------
Snapshots == [products : SUBSET Asins, stock : [Asins -> Nat], version : [Asins -> Nat]]

\* The type of every variable of the store.
TypeOK ==
  /\ products \subseteq Asins /\ taken \subseteq Asins /\ seen \subseteq Ids
  /\ price \in [Asins -> Nat] /\ stock \in [Asins -> Nat] /\ version \in [Asins -> Nat]
  /\ processed \in Nat /\ rejected \in Nat /\ conflicts \in Nat /\ history \in Nat
  /\ tick \in Nat /\ snapshots \in Seq(Snapshots)
  /\ opening \in [Asins -> Nat] /\ changes \in [Asins -> Nat]
  /\ handled \in Nat /\ crashed \in Nat

\* However many agents name a product in a tick, and in whatever order with
\* the other writers, at most one update of its price is published
\* (_arbitrate_price_command, rule 3).
OneUpdatePerTick == \A a \in Asins : changes[a] <= 1

\* Commands move a price by at most half of what it was when the tick began,
\* not by half at every command (max_price_change_per_tick).
PriceDriftPerTick ==
  \A a \in products : opening[a] > 0 => WithinHalf(opening[a], price[a])

\* The statistics account for every command that did not end in a NameError,
\* and every accepted command is in the history (get_statistics).
StatisticsAddUp ==
  /\ handled = processed + rejected + crashed
  /\ processed <= history /\ history <= processed + rejected

=============================================================================
