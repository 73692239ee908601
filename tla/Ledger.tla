------------------------------- MODULE Ledger -------------------------------
(***************************************************************************)
(* The double-entry ledger: LedgerCore (chart of accounts, posting), its   *)
(* EventsHandler (sales and inventory adjustments turned into              *)
(* transactions) and the DoubleEntryLedgerService that owns both.          *)
(*                                                                         *)
(* No method of these classes suspends between its first read and its last *)
(* write: post_transaction awaits nothing inside its lock, so a call runs  *)
(* to its end before the event loop takes another task.  One action is     *)
(* therefore one call, except for post_all_unposted_transactions, whose    *)
(* loop is taken one transaction at a time with every other action held    *)
(* back (drain # <<>>), because an exception may cut it short.             *)
(***************************************************************************)
EXTENDS Integers, Sequences, FiniteSets, Functions

CONSTANTS
  EventId,      \* identities carried by events and by callers' transactions
  Manual,       \* transactions a caller may hand to post_transaction
  Sales,        \* SaleOccurred events that may be delivered
  Adjustments,  \* inventory adjustments that may be reported
  Capital,      \* configured initial capital, in cents
  MaxTx         \* bound: transactions created in a behaviour

Assets      == {"cash", "inventory", "accounts_receivable", "prepaid_expenses"}
Liabilities == {"accounts_payable", "accrued_liabilities", "unearned_revenue"}
Equity      == {"owner_equity", "retained_earnings"}
Revenue     == {"sales_revenue", "other_revenue"}
Expenses    == {"cost_of_goods_sold", "fulfillment_fees", "referral_fees",
                "storage_fees", "advertising_expense", "other_expenses"}

Chart        == Assets \cup Liabilities \cup Equity \cup Revenue \cup Expenses
DebitNormal  == Assets \cup Expenses
Unlisted     == "unlisted"              \* an account id that no chart holds
AccountId    == Chart \cup {Unlisted}

(***************************************************************************)
(* A transaction keeps, per account, the total of its debit entries (dr)   *)
(* and of its credit entries (cr); the accounts its entries name; and      *)
(* whether some single entry is negative, or not positive, which the       *)
(* totals would hide.  at stands for the creation timestamp.               *)
(***************************************************************************)
TxId == {"manual", "sale", "inv_adj", "equity", "refund", "writeoff"} \X (EventId \cup Nat)
Tx   == [id: TxId, at: Nat, dr: [Chart -> Int], cr: [Chart -> Int],
         neg: BOOLEAN, nonpos: BOOLEAN, named: SUBSET AccountId]

(* An account carries an amount only if an entry names it. *)
WellFormed(t) == \A a \in Chart : a \notin t.named => t.dr[a] = 0 /\ t.cr[a] = 0

FeeKind == {"referral", "fba", "storage", "advertising", "unmapped"}
Sale    == [id: EventId, revenue: Int, fees: Int, cost: Int,
            breakdown: [FeeKind -> Int]]
Adjustment == [id: EventId, type: {"write_up", "write_down", "other"}, cost: Int]

ASSUME LedgerAssumption ==
  /\ Manual \subseteq Tx
  /\ \A t \in Manual : t.id[1] = "manual" /\ WellFormed(t)
  /\ Sales \subseteq Sale
  /\ Adjustments \subseteq Adjustment
  /\ Capital \subseteq Int
  /\ MaxTx \in Nat

VARIABLES
  accounts,    \* ids present in LedgerCore.accounts
  balance,     \* account.balance, for every id of the chart
  posted,      \* LedgerCore.transactions
  unposted,    \* LedgerCore.unposted_transactions, oldest first
  drain,       \* what is left of the copy post_all_unposted walks over
  subscribed,  \* EventsHandler.start has subscribed the sale handler
  created,     \* transactions created so far; the clock of their timestamps
  raised       \* whether the last call ended in an exception

vars == <<accounts, balance, posted, unposted, drain, subscribed, created, raised>>
-----------------------------------------------------------------------------
(* Sums over the accounts of one type, and the two totals of the trial balance. *)
SumAssets(f)      == f["cash"] + f["inventory"] + f["accounts_receivable"]
                       + f["prepaid_expenses"]
SumLiabilities(f) == f["accounts_payable"] + f["accrued_liabilities"]
                       + f["unearned_revenue"]
SumEquity(f)      == f["owner_equity"] + f["retained_earnings"]
SumRevenue(f)     == f["sales_revenue"] + f["other_revenue"]
SumExpenses(f)    == f["cost_of_goods_sold"] + f["fulfillment_fees"]
                       + f["referral_fees"] + f["storage_fees"]
                       + f["advertising_expense"] + f["other_expenses"]

TotalDebits(f)  == SumAssets(f) + SumExpenses(f)
TotalCredits(f) == SumLiabilities(f) + SumEquity(f) + SumRevenue(f)
Total(f)        == TotalDebits(f) + TotalCredits(f)

IsTrialBalanceBalanced(b) == TotalDebits(b) = TotalCredits(b)
VerifyIntegrity(b) ==
  SumAssets(b) = SumLiabilities(b) + SumEquity(b) + SumRevenue(b) - SumExpenses(b)

IsBalanced(t) == Total(t.dr) = Total(t.cr)

(* Amounts given for some accounts, nothing on the others. *)
Nothing == [a \in Chart |-> 0]
On(f) == [a \in Chart |-> IF a \in DOMAIN f THEN f[a] ELSE 0]
-----------------------------------------------------------------------------
(* Variants named ...Bug are the mistakes the properties are there to catch; *)
(* no specification uses them.                                              *)
ValidatedBug1(t, strict) ==     \* the balance check is gone
  (\A p \in posted : p.id # t.id) /\ t.named \subseteq accounts /\ (strict => ~t.neg)
ValidatedBug2(t, strict) ==     \* the duplicate check is gone
  IsBalanced(t) /\ t.named \subseteq accounts /\ (strict => ~t.neg)

(* The validation phase of post_transaction. *)
Validated(t, strict) ==
  /\ \A p \in posted : p.id # t.id
  /\ IsBalanced(t)
  /\ t.named \subseteq accounts
  /\ strict => ~t.neg

(* The posting phase: debits then credits, each in the account's own direction. *)
ApplyDebits(b, t) ==
  [a \in Chart |-> IF a \in DebitNormal THEN b[a] + t.dr[a] ELSE b[a] - t.dr[a]]
ApplyCredits(b, t) ==
  [a \in Chart |-> IF a \in DebitNormal THEN b[a] - t.cr[a] ELSE b[a] + t.cr[a]]
Applied(b, t) == ApplyCredits(ApplyDebits(b, t), t)

(* post_transaction succeeds when validation and the trial balance do; any *)
(* exception restores the balances it had changed and is raised again.     *)
Accepted(t, strict) ==
  Validated(t, strict) /\ (strict => IsTrialBalanceBalanced(Applied(balance, t)))

(* transactions[id] = t: a dictionary, in which a second one of an id would *)
(* replace the first.                                                      *)
Stored(t) == {p \in posted : p.id # t.id} \cup {t}

WithoutBug(s, t) == s           \* never removed from the list
(* list.remove: the entry equal to t, if there is one; creation stamps keep *)
(* entries apart, so there is never a second one.                          *)
Without(s, t) ==
  IF \A i \in 1..Len(s) : s[i] # t THEN s
  ELSE LET k == CHOOSE i \in 1..Len(s) : s[i] = t
       IN  [i \in 1..(Len(s) - 1) |-> IF i < k THEN s[i] ELSE s[i + 1]]

(* The effect of post_transaction when queue is the unposted list it sees. *)
Post(t, strict, queue) ==
  IF Accepted(t, strict)
  THEN /\ balance'  = Applied(balance, t)
       /\ posted'   = Stored(t)
       /\ unposted' = Without(queue, t)
       /\ raised'   = FALSE
  ELSE /\ unposted' = queue
       /\ raised'   = TRUE
       /\ UNCHANGED <<balance, posted>>
-----------------------------------------------------------------------------
Init ==
  /\ accounts = {}
  /\ balance = Nothing
  /\ posted = {}
  /\ unposted = <<>>
  /\ drain = <<>>
  /\ subscribed = FALSE
  /\ created = 0
  /\ raised = FALSE

Idle   == drain = <<>>
Create == Idle /\ created < MaxTx /\ created' = created + 1

(* Awaited once by whoever builds a LedgerCore; add_account starts at zero. *)
InitializeChartOfAccounts ==
  /\ Idle
  /\ accounts = {}
  /\ accounts' = Chart
  /\ balance' = Nothing
  /\ raised' = FALSE
  /\ UNCHANGED <<posted, unposted, drain, subscribed, created>>

Stamp(t) == [t EXCEPT !.at = created]

(* LedgerCore.post_transaction called directly, with either validation level. *)
PostTransaction(t, strict) ==
  /\ Create
  /\ Post(Stamp(t), strict, unposted)
  /\ UNCHANGED <<accounts, drain, subscribed>>

(* LedgerValidator.validate_transaction. *)
PassesValidator(t) == IsBalanced(t) /\ ~t.nonpos /\ t.named \subseteq accounts

(* DoubleEntryLedgerService.post_transaction: what the validator refuses is *)
(* raised before the core is reached.                                      *)
ServicePost(t) ==
  /\ Create
  /\ IF PassesValidator(t)
     THEN Post(Stamp(t), TRUE, unposted)
     ELSE raised' = TRUE /\ UNCHANGED <<balance, posted, unposted>>
  /\ UNCHANGED <<accounts, drain, subscribed>>

EquityTx(amount) ==
  [id |-> <<"equity", created>>, at |-> created,
   dr |-> On([cash |-> amount]), cr |-> On([owner_equity |-> amount]),
   neg |-> amount < 0, nonpos |-> amount <= 0, named |-> {"cash", "owner_equity"}]

InjectEquity(amount) ==
  /\ Create
  /\ Post(EquityTx(amount), TRUE, unposted)
  /\ UNCHANGED <<accounts, drain, subscribed>>

(* EventsHandler.start: subscribe, then inject the configured capital.  An *)
(* exception of the injection is swallowed.                                *)
Start(amount) ==
  /\ Create
  /\ ~subscribed
  /\ subscribed' = TRUE
  /\ IF amount > 0 /\ Accepted(EquityTx(amount), TRUE)
     THEN Post(EquityTx(amount), TRUE, unposted)
     ELSE raised' = FALSE /\ UNCHANGED <<balance, posted, unposted>>
  /\ UNCHANGED <<accounts, drain>>
-----------------------------------------------------------------------------
(* Fees of a sale by account: the breakdown by kind, and whatever the       *)
(* breakdown leaves of the total (negative when it exceeds it) on          *)
(* other_expenses.  A sale without fees books none of its breakdown.       *)
Residual(e) ==
  e.fees - (e.breakdown["referral"] + e.breakdown["fba"] + e.breakdown["storage"]
              + e.breakdown["advertising"] + e.breakdown["unmapped"])

FeeDebits(e) ==
  IF e.fees = 0 THEN Nothing
  ELSE On([referral_fees       |-> e.breakdown["referral"],
           fulfillment_fees    |-> e.breakdown["fba"],
           storage_fees        |-> e.breakdown["storage"],
           advertising_expense |-> e.breakdown["advertising"],
           other_expenses      |-> e.breakdown["unmapped"] + Residual(e)])

SaleTx(e) ==
  LET fees == FeeDebits(e)
      own  == On([accounts_receivable |-> e.revenue - e.fees,
                  cost_of_goods_sold  |-> e.cost])
      amounts == {e.revenue - e.fees, e.cost, e.revenue} \cup
                 (IF e.fees = 0 THEN {}
                  ELSE {Residual(e)} \cup {e.breakdown[k] : k \in FeeKind})
      dr   == [a \in Chart |-> fees[a] + own[a]]
      cr   == On([sales_revenue |-> e.revenue, inventory |-> e.cost])
  IN  [id |-> <<"sale", e.id>>, at |-> created, dr |-> dr, cr |-> cr,
       neg    |-> \E x \in amounts : x < 0,
       nonpos |-> e.revenue <= e.fees \/ \E x \in amounts : x < 0,
       named  |-> {"accounts_receivable"}
                    \cup {a \in Chart : dr[a] # 0 \/ cr[a] # 0}]

(* The handler appends the transaction to the unposted list and only then  *)
(* posts it: one that is refused stays in the list.                        *)
HandleSaleOccurred(e) ==
  /\ subscribed
  /\ Create
  /\ Post(SaleTx(e), TRUE, Append(unposted, SaleTx(e)))
  /\ UNCHANGED <<accounts, drain, subscribed>>

AdjustmentTx(e) ==
  LET up == e.type = "write_up"
      dr == CASE e.type = "write_up"   -> On([inventory |-> e.cost])
              [] e.type = "write_down" -> On([other_expenses |-> e.cost])
              [] OTHER                 -> Nothing
      cr == CASE e.type = "write_up"   -> On([other_revenue |-> e.cost])
              [] e.type = "write_down" -> On([inventory |-> e.cost])
              [] OTHER                 -> Nothing
  IN  [id |-> <<"inv_adj", e.id>>, at |-> created, dr |-> dr, cr |-> cr,
       neg    |-> e.type # "other" /\ e.cost < 0,
       nonpos |-> e.type # "other" /\ e.cost <= 0,
       named  |-> IF e.type = "other" THEN {}
                  ELSE {"inventory", IF up THEN "other_revenue" ELSE "other_expenses"}]

(* Adjustments are only listed, to be posted by post_all or by stop. *)
HandleInventoryAdjusted(e) ==
  /\ Create
  /\ unposted' = Append(unposted, AdjustmentTx(e))
  /\ raised' = FALSE
  /\ UNCHANGED <<accounts, balance, posted, drain, subscribed>>

(* post_all_unposted_transactions, also what EventsHandler.stop runs: walk *)
(* a copy of the list; the first refusal raises out of the loop.           *)
PostAllUnposted ==
  /\ Idle
  /\ unposted # <<>>
  /\ drain' = unposted
  /\ raised' = FALSE
  /\ UNCHANGED <<accounts, balance, posted, unposted, subscribed, created>>

DrainStepBug ==                 \* a refusal does not stop the walk
  /\ drain # <<>>
  /\ Post(Head(drain), TRUE, unposted)
  /\ drain' = Tail(drain)
  /\ UNCHANGED <<accounts, subscribed, created>>

DrainStep ==
  /\ drain # <<>>
  /\ Post(Head(drain), TRUE, unposted)
  /\ drain' = IF Accepted(Head(drain), TRUE) THEN Tail(drain) ELSE <<>>
  /\ UNCHANGED <<accounts, subscribed, created>>

(* The sale the market simulator publishes for units of a product: total    *)
(* fees for all units, but a breakdown holding the fees of ONE unit, once  *)
(* as their total and again by kind, under names the ledger does not map.  *)
MarketSale(id, units, price, unitFees, unitCost) ==
  [id |-> id, revenue |-> price * units,
   fees |-> (unitFees.referral + unitFees.fba + unitFees.rest) * units,
   cost |-> unitCost * units,
   breakdown |-> [k \in FeeKind |->
                    IF k = "unmapped"
                    THEN 2 * (unitFees.referral + unitFees.fba) + unitFees.rest
                    ELSE 0]]

Handlers ==
  \/ \E e \in Sales : HandleSaleOccurred(e)
  \/ \E e \in Adjustments : HandleInventoryAdjusted(e)
  \/ \E c \in Capital : Start(c)
  \/ PostAllUnposted
  \/ DrainStep

(* The core on its own and under the service.  DoubleEntryLedgerService     *)
(* calls initialize_chart_of_accounts without awaiting it: a ledger of the *)
(* service is one that never takes the first action.                       *)
Next ==
  \/ InitializeChartOfAccounts
  \/ \E t \in Manual, strict \in BOOLEAN : PostTransaction(t, strict)
  \/ \E t \in Manual : ServicePost(t)
  \/ \E c \in Capital : InjectEquity(c)
  \/ Handlers

Spec == Init /\ [][Next]_vars
-----------------------------------------------------------------------------
(* Properties *)

(* Every variable has its type; at most MaxTx transactions exist. *)
TypeOK ==
  /\ accounts \in {{}, Chart}
  /\ balance \in [Chart -> Int]
  /\ posted \subseteq Tx
  /\ unposted \in Seq(Tx)
  /\ drain \in Seq(Tx)
  /\ subscribed \in BOOLEAN
  /\ created \in 0..MaxTx
  /\ raised \in BOOLEAN

(* A transaction the ledger holds: well formed, and created before now. *)
Held(t) == WellFormed(t) /\ t.at < created

(* What every step keeps, and all the safety properties follow from: the    *)
(* trial balance; no amounts without a chart; held transactions are older  *)
(* than the clock, so a new one is never mistaken for one already held;    *)
(* the unposted list repeats nothing and shares nothing with the journal.  *)
LedgerInv ==
  /\ IsTrialBalanceBalanced(balance)
  /\ accounts = {} => balance = Nothing
  /\ \A t \in posted : t.at < created
  /\ \A i \in 1..Len(unposted) : Held(unposted[i]) /\ unposted[i] \notin posted
  /\ \A i \in 1..Len(drain) : Held(drain[i])
  /\ \A i, j \in 1..Len(unposted) : i # j => unposted[i].at # unposted[j].at

(* verify_integrity never fails: Assets = Liabilities + Equity, profit and  *)
(* loss included, after every call, accepted or refused.                   *)
IntegrityHolds == VerifyIntegrity(balance)

(* Balances move only together with the journal: a step that changes any    *)
(* balance or the set of posted transactions posts exactly one new         *)
(* transaction, all of its entries, and never touches one already posted.  *)
OnePosting ==
  \/ posted' = posted /\ balance' = balance
  \/ \E t \in posted' :
       /\ t \notin posted
       /\ posted' = posted \cup {t}
       /\ \A p \in posted : p.id # t.id
       /\ balance' = Applied(balance, t)

AllOrNothing == [][OnePosting]_vars

(* What a transaction moves on each account. *)
Net(t) == Applied(Nothing, t)

(* Each balance is exactly what the posted transactions add up to: no posting *)
(* is lost, applied twice or half applied over the whole history of           *)
(* post_transaction.                                                          *)

JournalExplainsBalances ==
  \A a \in Chart : balance[a] = SumFunction([t \in posted |-> Net(t)[a]])

(* The trial-balance check inside post_transaction never has anything to    *)
(* roll back: what passes validation cannot unbalance the books, so the    *)
(* AccountingError of the posting phase is unreachable.                    *)
ValidationSuffices ==
  \A t \in Manual \cup {SaleTx(e) : e \in Sales} \cup {EquityTx(c) : c \in Capital} :
    Validated(t, TRUE) => IsTrialBalanceBalanced(Applied(balance, t))

(* A transaction still listed as unposted has not reached the journal: the  *)
(* handler that lists first and posts second never leaves one in both.     *)
ListedIsNotPosted == \A i \in 1..Len(unposted) : unposted[i] \notin posted

(* When the walk of post_all_unposted ends without an exception, nothing is *)
(* left unposted (nothing is skipped while the list shrinks under it).     *)
CleanDrainEmptiesList ==
  [][drain # <<>> /\ drain' = <<>> /\ ~raised' => unposted' = <<>>]_vars

(* "Every penny is accounted for" (docs/ledger_system.md:7): with the chart *)
(* in place, no sale that was delivered stays out of the journal.          *)
EverySaleBooked ==
  accounts = Chart =>
    \A i \in DOMAIN unposted :
      unposted[i].id[1] = "sale" => \E p \in posted : p.id = unposted[i].id
=============================================================================
