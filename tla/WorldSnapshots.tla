--------------------------- MODULE WorldSnapshots ---------------------------
(***************************************************************************)
(* Saving and loading the canonical state: the two backends of             *)
(* services/world_store/persistence.py, ProductState.to_dict / from_dict   *)
(* and what a crash leaves of them.  What decides the writes is in module  *)
(* WorldStore; here any product may be written at any time.                *)
(*                                                                         *)
(* A product's metadata is a dictionary that to_dict and from_dict pass on *)
(* by reference.  The in-memory backend keeps the reference, the JSON      *)
(* backend a copy.  heap[a] holds the dictionaries of product a, each at   *)
(* the number of the snapshot that first referred to it, at 0 while none   *)
(* does; cell[a] says which of them its ProductState holds.                *)
(***************************************************************************)
EXTENDS Integers, Sequences, FiniteSets

CONSTANTS Items,     \* products
          Amounts,   \* positive prices, in cents
          Levels,    \* stock levels
          Looks,     \* values of the metadata
          Backends,  \* "memory", "json" or both
          MaxSaves   \* bound: snapshots ever begun

ASSUME SnapshotAssumption ==
         /\ Amounts \subseteq Nat \ {0} /\ Levels \subseteq Nat
         /\ Looks # {}
         /\ Backends \subseteq {"memory", "json"} /\ MaxSaves \in Nat

VARIABLES backend,  \* the store's, chosen when it is built
          known, money, units, cell, \* _product_state
          heap,     \* the metadata dictionaries
          files,    \* the snapshots the backend holds, oldest first
          up,       \* "up", "down" after a crash, "failed" when start raised
          saved,    \* history: the product values each complete snapshot was taken of
          restored  \* history: the snapshot loaded last, while nothing else was written

live == <<known, money, units, cell, heap>>
snapshotVars == <<backend, live, files, up, saved, restored>>

Zero == [a \in Items |-> 0]
Cells == 0..MaxSaves
Blank == CHOOSE v \in Looks : TRUE
Look(a) == heap[a][cell[a]]
Values == [a \in known |-> [money |-> money[a], stock |-> units[a], look |-> Look(a)]]

SnapshotInit ==
  /\ backend \in Backends
  /\ known = {} /\ money = Zero /\ units = Zero /\ cell = Zero
  /\ heap = [a \in Items |-> [c \in Cells |-> Blank]]
  /\ files = <<>> /\ up = "up" /\ saved = <<>> /\ restored = 0

-----------------------------------------------------------------------------
\* A new ProductState with a dictionary of its own: set_product_state,
\* initialize_product, and the stubs of the inventory and metadata setters.
Create(a, m, q, v) ==
  /\ up = "up"
  /\ cell' = [cell EXCEPT ![a] = 0]
  /\ heap' = [heap EXCEPT ![a][0] = v]
  /\ known' = known \cup {a}
  /\ money' = [money EXCEPT ![a] = m]
  /\ units' = [units EXCEPT ![a] = q]
  /\ restored' = 0
  /\ UNCHANGED <<files, up, saved>>

\* An accepted price command or an InventoryUpdate writes the object in place.
Update(a, m, q) ==
  /\ up = "up" /\ a \in known
  /\ money' = [money EXCEPT ![a] = m]
  /\ units' = [units EXCEPT ![a] = q]
  /\ restored' = 0
  /\ UNCHANGED <<known, cell, heap, files, up, saved>>

\* set_marketing_visibility, set_reputation_score: the dictionary in place.
SetLook(a, v) ==
  /\ up = "up" /\ a \in known
  /\ heap' = [heap EXCEPT ![a][cell[a]] = v]
  /\ restored' = 0
  /\ UNCHANGED <<known, money, units, cell, files, up, saved>>

\* The address of a's dictionary once the snapshot being taken refers to it.
Owner(a) ==
  IF backend = "memory" /\ a \in known /\ cell[a] = 0 THEN Len(files) + 1
  ELSE cell[a]

File == [products |-> known, money |-> money, stock |-> units, torn |-> FALSE,
         look |-> [a \in Items |-> IF backend = "memory" THEN Owner(a) ELSE Look(a)]]

Save ==
  /\ up = "up" /\ Len(files) < MaxSaves
  /\ files' = Append(files, File)
  /\ saved' = Append(saved, Values)
  /\ cell' = [a \in Items |-> Owner(a)]
  /\ heap' = [a \in Items |-> [c \in Cells |->
                IF c = Owner(a) THEN Look(a) ELSE IF c = 0 THEN Blank ELSE heap[a][c]]]
  /\ UNCHANGED <<known, money, units, up, restored>>

\* The process is gone, and what it held in memory.
NothingLive ==
  /\ known' = {} /\ money' = Zero /\ units' = Zero /\ cell' = Zero
  /\ heap' = [a \in Items |-> [c \in Cells |-> Blank]]
  /\ restored' = 0

\* The JSON file is written in place: an error or the end of the process in
\* the middle of json.dump leaves the newest file unreadable.
TornSave(dies) ==
  /\ backend = "json" /\ up = "up" /\ Len(files) < MaxSaves
  /\ files' = Append(files, [File EXCEPT !.torn = TRUE])
  /\ saved' = Append(saved, Values)
  /\ \/ dies /\ up' = "down" /\ NothingLive
     \/ ~dies /\ UNCHANGED <<live, up, restored>>

(* Variants named ...Bug are the mistakes the properties are there to      *)
(* catch; no specification uses them.                                      *)
\* A saved amount is the text of str(Money), "$20.00 USD"; from_dollars gets
\* "20.00 USD", which is no number, and falls back to zero cents.
MoneyFromSerializable(m) == 0
PricesOf(f) == [a \in Items |-> MoneyFromSerializable(f.money[a])]

PopulateBug(i) ==
  LET f == files[i] IN
  /\ known' = known \cup f.products /\ units' = f.stock
  /\ money' = PricesOf(f)
  /\ IF backend = "memory" THEN cell' = f.look /\ UNCHANGED heap
     ELSE heap' = [a \in Items |-> [heap[a] EXCEPT ![0] = f.look[a]]] /\ UNCHANGED cell
  /\ restored' = i
PopulateBug2(i) ==
  LET f == files[i] IN
  /\ known' = f.products /\ units' = f.stock
  /\ money' = PricesOf(f)
  /\ restored' = i
  /\ UNCHANGED <<cell, heap>>
\* ProductState.from_dict for every product of a readable, non-empty file.
Populate(i) ==
  LET f == files[i] IN
  /\ known' = f.products /\ units' = f.stock
  /\ money' = PricesOf(f)
  /\ IF backend = "memory" THEN cell' = f.look /\ UNCHANGED heap
     ELSE heap' = [a \in Items |-> [heap[a] EXCEPT ![0] = f.look[a]]] /\ UNCHANGED cell
  /\ restored' = i

LoadedNothing == UNCHANGED <<live, restored>>

PopulateFrom(i) ==
  IF files[i].products = {} THEN LoadedNothing ELSE Populate(i)

(* The file load_state_by_id can read; and what a new process takes for the  *)
(* latest, the file modified last.                                           *)
Readable(i) == ~files[i].torn
Latest == Len(files)

\* load_state_snapshot.  On a torn file json.load raises a ValueError, which no
\* except clause on the way names: the call raises, nothing is loaded.
Load(i) ==
  /\ up = "up"
  /\ IF Readable(i) THEN PopulateFrom(i) ELSE LoadedNothing
  /\ UNCHANGED <<files, up, saved>>

Crash ==
  /\ up = "up" /\ up' = "down"
  /\ NothingLive
  /\ UNCHANGED <<files, saved>>

\* A new process: a new store, and of the backend what is on disk.
Restart ==
  /\ up \in {"down", "failed"}
  /\ \/ /\ backend = "memory" \/ files = <<>>
        /\ files' = <<>> /\ saved' = <<>>
        /\ up' = "up" /\ NothingLive
     \/ /\ backend = "json" /\ files # <<>> /\ ~Readable(Latest)
        /\ up' = "failed"
        /\ UNCHANGED <<live, files, saved, restored>>
     \/ /\ backend = "json" /\ files # <<>> /\ Readable(Latest)
        /\ up' = "up"
        /\ PopulateFrom(Latest)
        /\ UNCHANGED <<files, saved>>

SnapshotNext ==
  /\ UNCHANGED backend
  /\ \/ \E a \in Items, m \in Amounts, q \in Levels, v \in Looks : Create(a, m, q, v)
     \/ \E a \in Items, m \in Amounts, q \in Levels : Update(a, m, q)
     \/ \E a \in Items, v \in Looks : SetLook(a, v)
     \/ Save
     \/ \E dies \in BOOLEAN : TornSave(dies)
     \/ \E i \in DOMAIN files : Load(i)
     \/ Crash
     \/ Restart

SnapshotSpec == SnapshotInit /\ [][SnapshotNext]_snapshotVars

-----------------------------------------------------------------------------
Files == [products : SUBSET Items, money : [Items -> Amounts \cup {0}],
          stock : [Items -> Levels \cup {0}], torn : BOOLEAN,
          look : [Items -> Cells \cup Looks]]
Takes == UNION {[S -> [money : Amounts \cup {0}, stock : Levels \cup {0}, look : Looks]]
                  : S \in SUBSET Items}

\* The type of every variable.
SnapshotTypeOK ==
  /\ known \subseteq Items
  /\ money \in [Items -> Amounts \cup {0}] /\ units \in [Items -> Levels \cup {0}]
  /\ cell \in [Items -> Cells] /\ heap \in [Items -> [Cells -> Looks]]
  /\ files \in Seq(Files) /\ saved \in Seq(Takes) /\ Len(saved) = Len(files)
  /\ up \in {"up", "down", "failed"} /\ backend \in Backends
  /\ restored \in 0..Len(files)

\* Between a load and the next write the store holds the products and the
\* stock it held when the snapshot was taken, whatever was written, saved or
\* loaded since (load_state_from_dict, on either backend).
RestoredGoods ==
  restored # 0 =>
    /\ known = DOMAIN saved[restored]
    /\ \A a \in known : units[a] = saved[restored][a].stock

\* On disk the metadata comes back as well, also after a crash and a restart
\* from the newest file (from_dict, start).  In memory it does not: the
\* snapshot and the live state write the same dictionary.
RestoredMetadata ==
  restored # 0 /\ backend = "json" =>
    \A a \in known : Look(a) = saved[restored][a].look
=============================================================================
