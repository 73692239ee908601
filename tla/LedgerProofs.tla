---------------------------- MODULE LedgerProofs ----------------------------
(***************************************************************************)
(* What holds of the ledger for every chart amount, every set of sales,    *)
(* adjustments, callers' transactions and capital.  The argument: every    *)
(* transaction the handlers build is balanced entry by entry (SaleBalanced, *)
(* AdjustmentBalanced, EquityBalanced), posting a balanced transaction     *)
(* moves both sides of the trial balance by the same amount               *)
(* (AppliedKeepsTrialBalance), and posting is the only way a balance       *)
(* changes (PostEffect).  Disputes post through the same path, under ids of *)
(* their own (OthersPostTheirOwn).                                         *)
(***************************************************************************)
EXTENDS Disputes, Sums

Balances == [Chart -> Int]

USE DEF Balances

(* The accounts of each type, and no others, are in the chart. *)
LEMMA ChartParts ==
  /\ Assets \subseteq Chart /\ Liabilities \subseteq Chart /\ Equity \subseteq Chart
  /\ Revenue \subseteq Chart /\ Expenses \subseteq Chart
BY DEF Chart

(* Posting a transaction yields integer balances again. *)
LEMMA AppliedType ==
  ASSUME NEW b \in Balances, NEW t \in Tx
  PROVE  Applied(b, t) \in Balances
BY DEF Applied, ApplyCredits, ApplyDebits, Tx

(* The heart of double entry: a transaction whose debits equal its credits  *)
(* leaves debit-normal and credit-normal accounts in step, whatever        *)
(* accounts it names and whatever the signs of its amounts.                *)
THEOREM AppliedKeepsTrialBalance ==
  ASSUME NEW b \in Balances, NEW t \in Tx,
         IsTrialBalanceBalanced(b), IsBalanced(t)
  PROVE  IsTrialBalanceBalanced(Applied(b, t))
<1> DEFINE c == Applied(b, t)
<1>1. \A a \in Assets \cup Expenses : c[a] = b[a] + t.dr[a] - t.cr[a]
  BY DEF Applied, ApplyCredits, ApplyDebits, DebitNormal, Chart, Tx
<1>2. \A a \in Liabilities \cup Equity \cup Revenue : c[a] = b[a] - t.dr[a] + t.cr[a]
  BY DEF Applied, ApplyCredits, ApplyDebits, DebitNormal, Chart, Tx,
         Assets, Liabilities, Equity, Revenue, Expenses
<1>3. /\ t.dr \in Balances /\ t.cr \in Balances
  BY DEF Tx
<1>4. c \in Balances
  BY AppliedType
<1>5. TotalDebits(c) = TotalDebits(b) + TotalDebits(t.dr) - TotalDebits(t.cr)
  <2>1. SumAssets(c) = SumAssets(b) + SumAssets(t.dr) - SumAssets(t.cr)
    BY <1>1, <1>3, ChartParts DEF SumAssets, Assets
  <2>2. SumExpenses(c) = SumExpenses(b) + SumExpenses(t.dr) - SumExpenses(t.cr)
    BY <1>1, <1>3, ChartParts DEF SumExpenses, Expenses
  <2>3. \A f \in Balances : SumAssets(f) \in Int /\ SumExpenses(f) \in Int
    BY ChartParts DEF SumAssets, SumExpenses, Assets, Expenses
  <2> HIDE DEF c
  <2> QED BY <2>1, <2>2, <2>3, <1>3, <1>4 DEF TotalDebits
<1>6. TotalCredits(c) = TotalCredits(b) - TotalCredits(t.dr) + TotalCredits(t.cr)
  <2>1. SumLiabilities(c) = SumLiabilities(b) - SumLiabilities(t.dr) + SumLiabilities(t.cr)
    BY <1>2, <1>3, ChartParts DEF SumLiabilities, Liabilities
  <2>2. SumEquity(c) = SumEquity(b) - SumEquity(t.dr) + SumEquity(t.cr)
    BY <1>2, <1>3, ChartParts DEF SumEquity, Equity
  <2>3. SumRevenue(c) = SumRevenue(b) - SumRevenue(t.dr) + SumRevenue(t.cr)
    BY <1>2, <1>3, ChartParts DEF SumRevenue, Revenue
  <2>4. \A f \in Balances : /\ SumLiabilities(f) \in Int
                            /\ SumEquity(f) \in Int
                            /\ SumRevenue(f) \in Int
    BY ChartParts DEF SumLiabilities, SumEquity, SumRevenue, Liabilities, Equity, Revenue
  <2> HIDE DEF c
  <2> QED BY <2>1, <2>2, <2>3, <2>4, <1>3, <1>4 DEF TotalCredits
<1>7. \A f \in Balances : TotalDebits(f) \in Int /\ TotalCredits(f) \in Int
  BY ChartParts DEF TotalDebits, TotalCredits, SumAssets, SumExpenses, SumLiabilities,
     SumEquity, SumRevenue, Assets, Expenses, Liabilities, Equity, Revenue
<1> HIDE DEF c
<1> QED
  BY <1>3, <1>4, <1>5, <1>6, <1>7 DEF IsTrialBalanceBalanced, IsBalanced, Total, c
-----------------------------------------------------------------------------
(* What the code can hand to post_transaction. *)
Postable(t) == t \in Tx /\ WellFormed(t)

(* EventsHandler builds a well-formed, balanced transaction from every sale: *)
(* net receivable, cost and fees on one side, revenue and inventory on the   *)
(* other, the residual making up for any breakdown that does not add up.     *)
THEOREM SaleBalanced ==
  ASSUME NEW e \in Sale, created \in Nat
  PROVE  Postable(SaleTx(e)) /\ IsBalanced(SaleTx(e)) /\ SaleTx(e).at = created
<1> DEFINE t == SaleTx(e)
           own == On([accounts_receivable |-> e.revenue - e.fees,
                      cost_of_goods_sold  |-> e.cost])
<1>1. /\ e.id \in EventId /\ e.revenue \in Int /\ e.fees \in Int /\ e.cost \in Int
      /\ \A k \in FeeKind : e.breakdown[k] \in Int
  BY DEF Sale
<1>2. Residual(e) \in Int
  BY <1>1 DEF Residual, FeeKind
<1>3. FeeDebits(e) \in Balances /\ own \in Balances
  BY <1>1, <1>2 DEF FeeDebits, FeeKind, On, Nothing
<1>4. /\ t.dr = [a \in Chart |-> FeeDebits(e)[a] + own[a]]
      /\ t.cr = On([sales_revenue |-> e.revenue, inventory |-> e.cost])
      /\ t.named = {"accounts_receivable"}
                     \cup {a \in Chart : t.dr[a] # 0 \/ t.cr[a] # 0}
      /\ t.at = created /\ t.id = <<"sale", e.id>>
      /\ t.neg \in BOOLEAN /\ t.nonpos \in BOOLEAN
  BY DEF SaleTx
<1>5. t.dr \in Balances /\ t.cr \in Balances
  BY <1>1, <1>3, <1>4 DEF On
<1>6. Postable(t)
  <2>1. t.named \in SUBSET AccountId
    BY <1>4, ChartParts DEF AccountId, Assets
  <2>2. t.id \in TxId
    BY <1>1, <1>4 DEF TxId
  <2>3. t = [id |-> t.id, at |-> t.at, dr |-> t.dr, cr |-> t.cr, neg |-> t.neg,
             nonpos |-> t.nonpos, named |-> t.named]
    BY DEF SaleTx
  <2>4. t \in Tx
    BY <1>4, <1>5, <2>1, <2>2, <2>3 DEF Tx
  <2>5. WellFormed(t)
    BY <1>4 DEF WellFormed
  <2> QED BY <2>4, <2>5 DEF Postable
<1>7. Total(t.cr) = e.revenue + e.cost
  BY <1>1, <1>4 DEF Total, TotalDebits, TotalCredits, SumAssets, SumExpenses,
     SumLiabilities, SumEquity, SumRevenue, On, Nothing, Chart, Assets, Liabilities, Equity,
     Revenue, Expenses
<1>8. Total(t.dr) = (e.revenue - e.fees) + e.cost + e.fees
  <2>1. Total(own) = (e.revenue - e.fees) + e.cost
    BY <1>1 DEF Total, TotalDebits, TotalCredits, SumAssets, SumExpenses,
       SumLiabilities, SumEquity, SumRevenue, On, Nothing, Chart, Assets, Liabilities, Equity,
       Revenue, Expenses
  <2>2. Total(FeeDebits(e)) = e.fees
    BY <1>1, <1>2 DEF Residual, FeeKind, FeeDebits, Total, TotalDebits, TotalCredits,
       SumAssets, SumExpenses, SumLiabilities, SumEquity, SumRevenue, On, Nothing, Chart, Assets,
       Liabilities, Equity, Revenue, Expenses
  <2>3. \A a \in Chart : t.dr[a] = FeeDebits(e)[a] + own[a]
    BY <1>4
  <2>4. Total(t.dr) = Total(FeeDebits(e)) + Total(own)
    <3> HIDE DEF t, own
    <3> QED
      BY <1>3, <1>5, <2>3 DEF Total, TotalDebits, TotalCredits, SumAssets, SumExpenses,
         SumLiabilities, SumEquity, SumRevenue, Chart, Assets, Liabilities, Equity,
         Revenue, Expenses
  <2> QED BY <1>1, <2>1, <2>2, <2>4
<1> QED
  BY <1>1, <1>4, <1>6, <1>7, <1>8 DEF IsBalanced

(* The same of inventory adjustments, of every type. *)
LEMMA AdjustmentBalanced ==
  ASSUME NEW e \in Adjustment, created \in Nat
  PROVE  Postable(AdjustmentTx(e)) /\ IsBalanced(AdjustmentTx(e))
           /\ AdjustmentTx(e).at = created
<1>1. /\ e.id \in EventId /\ e.cost \in Int
      /\ e.type \in {"write_up", "write_down", "other"}
  BY DEF Adjustment
<1> USE DEF AdjustmentTx, Postable, WellFormed, Tx, TxId, On, Nothing, IsBalanced, Total,
            TotalDebits, TotalCredits, SumAssets, SumExpenses, SumLiabilities, SumEquity,
            SumRevenue, Chart, Assets, Liabilities, Equity, Revenue, Expenses, AccountId
<1>2. CASE e.type = "write_up"
  BY <1>1, <1>2
<1>3. CASE e.type = "write_down"
  BY <1>1, <1>3
<1>4. CASE e.type = "other"
  BY <1>1, <1>4
<1> QED BY <1>1, <1>2, <1>3, <1>4

(* ... and of capital injections. *)
LEMMA EquityBalanced ==
  ASSUME NEW n \in Int, created \in Nat
  PROVE  Postable(EquityTx(n)) /\ IsBalanced(EquityTx(n)) /\ EquityTx(n).at = created
BY DEF EquityTx, Postable, WellFormed, Tx, TxId, On, IsBalanced, Total, TotalDebits,
       TotalCredits, SumAssets, SumExpenses, SumLiabilities, SumEquity, SumRevenue, Chart,
       Assets, Liabilities, Equity, Revenue, Expenses, AccountId

(* Removing an entry keeps a sequence of transactions one, adds nothing to   *)
(* it, and when no two entries are alike leaves no copy of what was removed. *)
\* Every entry of u is one of s.
DrawnFrom(u, s) == \A i \in 1..Len(u) : \E j \in 1..Len(s) : u[i] = s[j]

LEMMA WithoutProperties ==
  ASSUME NEW s \in Seq(Tx), NEW t
  PROVE  /\ Without(s, t) \in Seq(Tx)
         /\ Len(Without(s, t)) <= Len(s)
         /\ DrawnFrom(Without(s, t), s)
         /\ (\A i, j \in 1..Len(s) : i # j => s[i].at # s[j].at) =>
              /\ \A i \in 1..Len(Without(s, t)) : Without(s, t)[i] # t
              /\ \A i, j \in 1..Len(Without(s, t)) :
                   i # j => Without(s, t)[i].at # Without(s, t)[j].at
<1> DEFINE w == Without(s, t)
<1>1. CASE \A i \in 1..Len(s) : s[i] # t
  <2>1. w = s
    BY <1>1 DEF Without
  <2> QED BY <1>1, <2>1 DEF DrawnFrom
<1>2. CASE \E i \in 1..Len(s) : s[i] = t
  <2> DEFINE k == CHOOSE i \in 1..Len(s) : s[i] = t
  <2>2. k \in 1..Len(s) /\ s[k] = t
    BY <1>2
  <2>3. w = [i \in 1..(Len(s) - 1) |-> IF i < k THEN s[i] ELSE s[i + 1]]
    BY <1>2 DEF Without
  <2> HIDE DEF k, w
  <2>4. w \in Seq(Tx) /\ Len(w) = Len(s) - 1
    BY <2>2, <2>3
  <2>5. \A i \in 1..Len(w) : w[i] = IF i < k THEN s[i] ELSE s[i + 1]
    BY <2>3, <2>4
  <2>6. \A i \in 1..Len(w) : \E j \in 1..Len(s) : w[i] = s[j] /\ j # k
    BY <2>2, <2>4, <2>5
  <2>7. ASSUME \A i, j \in 1..Len(s) : i # j => s[i].at # s[j].at
        PROVE  /\ \A i \in 1..Len(w) : w[i] # t
               /\ \A i, j \in 1..Len(w) : i # j => w[i].at # w[j].at
    <3>1. \A i \in 1..Len(w) : w[i] # t
      BY <2>2, <2>6, <2>7
    <3>2. \A i, j \in 1..Len(w) : i # j => w[i].at # w[j].at
      BY <2>2, <2>4, <2>5, <2>7
    <3> QED BY <3>1, <3>2
  <2>8. DrawnFrom(w, s)
    BY <2>6 DEF DrawnFrom
  <2> QED BY <2>4, <2>7, <2>8 DEF w
<1> QED BY <1>1, <1>2
-----------------------------------------------------------------------------
IInv == TypeOK /\ LedgerInv

(* The journal's dictionary gains an entry under an id it does not hold.     *)
LEMMA StoredNew ==
  ASSUME NEW t, \A p \in posted : p.id # t.id
  PROVE  Stored(t) = posted \cup {t}
BY DEF Stored

(* What a posting attempt leaves behind, accepted or refused, for a          *)
(* transaction t that is new or held and a queue that may already list it.   *)
LEMMA PostEffect ==
  ASSUME IInv, NEW t, NEW strict \in BOOLEAN, NEW q \in Seq(Tx),
         Postable(t), t.at < created', created' \in Nat, created <= created',
         \A i \in 1..Len(q) : /\ WellFormed(q[i]) /\ q[i].at < created'
                              /\ (q[i] \notin posted \/ q[i] = t),
         t.at >= created \/ \A i \in 1..Len(q) : q[i] \notin posted,
         \A i, j \in 1..Len(q) : i # j => q[i].at # q[j].at,
         accounts' = accounts,
         Post(t, strict, q)
  PROVE  /\ balance' \in Balances
         /\ posted' \subseteq Tx
         /\ unposted' \in Seq(Tx)
         /\ raised' \in BOOLEAN
         /\ IsTrialBalanceBalanced(balance')
         /\ accounts = {} => balance' = Nothing
         /\ \A p \in posted' : p.at < created'
         /\ \A i \in 1..Len(unposted') : /\ WellFormed(unposted'[i])
                                         /\ unposted'[i].at < created'
                                         /\ unposted'[i] \notin posted'
         /\ \A i, j \in 1..Len(unposted') : i # j => unposted'[i].at # unposted'[j].at
         /\ \/ posted' = posted /\ balance' = balance
            \/ /\ t \notin posted
               /\ posted' = posted \cup {t}
               /\ \A p \in posted : p.id # t.id
               /\ balance' = Applied(balance, t)
<1> USE DEF IInv, TypeOK, LedgerInv, Postable
<1>1. CASE Accepted(t, strict)
  <2>2. Validated(t, strict)
    BY <1>1 DEF Accepted
  <2>3. t \notin posted /\ \A p \in posted : p.id # t.id
    BY <2>2 DEF Validated
  <2>1. /\ balance' = Applied(balance, t) /\ posted' = posted \cup {t}
        /\ unposted' = Without(q, t) /\ raised' = FALSE
    BY <1>1, <2>3, StoredNew DEF Post
  <2>4. IsTrialBalanceBalanced(balance') /\ balance' \in Balances
    BY <2>1, <2>2, AppliedKeepsTrialBalance, AppliedType DEF Validated
  <2>5. accounts = {} => balance' = Nothing
    <3>1. SUFFICES ASSUME accounts = {} PROVE Applied(balance, t) = Nothing
      BY <2>1
    <3>2. t.named = {}
      BY <2>2, <3>1 DEF Validated, Tx
    <3>3. \A a \in Chart : t.dr[a] = 0 /\ t.cr[a] = 0
      BY <3>2 DEF WellFormed
    <3> QED BY <3>1, <3>3 DEF Applied, ApplyCredits, ApplyDebits, Nothing
  <2>6. \A p \in posted' : p.at < created'
    BY <2>1 DEF Tx
  <2>7. /\ unposted' \in Seq(Tx)
        /\ \A i \in 1..Len(unposted') : \E j \in 1..Len(q) : unposted'[i] = q[j]
        /\ \A i \in 1..Len(unposted') : unposted'[i] # t
        /\ \A i, j \in 1..Len(unposted') : i # j => unposted'[i].at # unposted'[j].at
    <3> DEFINE w == Without(q, t)
    <3>1. /\ w \in Seq(Tx)
          /\ \A i \in 1..Len(w) : \E j \in 1..Len(q) : w[i] = q[j]
          /\ \A i \in 1..Len(w) : w[i] # t
          /\ \A i, j \in 1..Len(w) : i # j => w[i].at # w[j].at
      BY WithoutProperties DEF DrawnFrom
    <3>2. unposted' = w
      BY <2>1
    <3> HIDE DEF w
    <3> QED BY <3>1, <3>2
  <2>8. \A i \in 1..Len(unposted') : /\ WellFormed(unposted'[i])
                                         /\ unposted'[i].at < created'
                                         /\ unposted'[i] \notin posted'
    <3> TAKE i \in 1..Len(unposted')
    <3>1. PICK j \in 1..Len(q) : unposted'[i] = q[j]
      BY <2>7
    <3>2. unposted'[i] # t
      BY <2>7
    <3> QED BY <2>1, <3>1, <3>2 DEF Held
  <2> QED BY <2>1, <2>3, <2>4, <2>5, <2>6, <2>7, <2>8
<1>2. CASE ~Accepted(t, strict)
  <2>1. /\ balance' = balance /\ posted' = posted /\ unposted' = q /\ raised' = TRUE
    BY <1>2 DEF Post
  <2> QED BY <2>1 DEF Tx, Held
<1> QED BY <1>1, <1>2

(* Nothing the ledger holds is as recent as the clock, now or later.         *)
LEMMA HeldIsOld ==
  ASSUME IInv, created' \in Nat, created <= created'
  PROVE  /\ created \in Nat
         /\ \A i \in 1..Len(unposted) : /\ unposted[i] \in Tx
                                        /\ WellFormed(unposted[i])
                                        /\ unposted[i].at < created'
                                        /\ unposted[i].at # created
                                        /\ unposted[i] \notin posted
         /\ \A i \in 1..Len(drain) : /\ drain[i] \in Tx
                                     /\ WellFormed(drain[i])
                                     /\ drain[i].at < created'
         /\ \A p \in posted : p.at < created' /\ p.at # created
<1>1. created \in Nat
  BY LedgerAssumption DEF IInv, TypeOK
<1>0. \A t \in Tx : t.at \in Nat
  BY DEF Tx
<1>2. \A i \in 1..Len(unposted) : unposted[i] \in Tx /\ unposted[i].at \in Nat
  BY <1>0 DEF IInv, TypeOK
<1>3. \A i \in 1..Len(drain) : drain[i] \in Tx /\ drain[i].at \in Nat
  BY <1>0 DEF IInv, TypeOK
<1>4. \A p \in posted : p.at \in Nat
  BY <1>0 DEF IInv, TypeOK
<1> QED BY <1>1, <1>2, <1>3, <1>4 DEF IInv, LedgerInv, Held

(* A transaction just built is posted, or refused, with the list as it was.  *)
LEMMA PostNew ==
  ASSUME IInv, NEW t, NEW strict \in BOOLEAN, Postable(t), t.at = created,
         Create, Post(t, strict, unposted), UNCHANGED <<accounts, drain>>,
         subscribed' \in BOOLEAN
  PROVE  IInv'
<1>1. created' = created + 1 /\ created' \in Nat /\ created <= created' /\ created' \in 0..MaxTx
  BY LedgerAssumption DEF Create, IInv, TypeOK
<1>7. /\ created \in Nat /\ t.at < created'
      /\ \A i \in 1..Len(unposted) : /\ WellFormed(unposted[i])
                                     /\ unposted[i].at < created'
                                     /\ unposted[i] \notin posted
  BY <1>1, HeldIsOld
<1>8. /\ unposted \in Seq(Tx)
      /\ \A i, j \in 1..Len(unposted) : i # j => unposted[i].at # unposted[j].at
  BY DEF IInv, TypeOK, LedgerInv
<1>2. /\ IsTrialBalanceBalanced(balance') /\ balance' \in Balances
      /\ posted' \subseteq Tx /\ unposted' \in Seq(Tx) /\ raised' \in BOOLEAN
      /\ accounts = {} => balance' = Nothing
      /\ \A p \in posted' : p.at < created'
      /\ \A i \in 1..Len(unposted') : /\ WellFormed(unposted'[i])
                                      /\ unposted'[i].at < created'
                                      /\ unposted'[i] \notin posted'
      /\ \A i, j \in 1..Len(unposted') : i # j => unposted'[i].at # unposted'[j].at
  BY <1>1, <1>7, <1>8, PostEffect
<1>3. /\ \A i \in 1..Len(drain) : WellFormed(drain[i]) /\ drain[i].at < created'
  BY <1>1, HeldIsOld
<1> QED BY <1>1, <1>2, <1>3 DEF IInv, TypeOK, LedgerInv, Held

(* The same when the handler lists the transaction before posting it.        *)
LEMMA PostListed ==
  ASSUME IInv, NEW t, Postable(t), t.at = created,
         Create, Post(t, TRUE, Append(unposted, t)), UNCHANGED <<accounts, drain, subscribed>>
  PROVE  IInv'
<1> DEFINE q == Append(unposted, t)
<1>1. created' = created + 1 /\ created' \in Nat /\ created <= created' /\ created' \in 0..MaxTx
  BY LedgerAssumption DEF Create, IInv, TypeOK
<1>2. /\ q \in Seq(Tx) /\ Len(q) = Len(unposted) + 1
      /\ \A i \in 1..Len(unposted) : q[i] = unposted[i]
      /\ q[Len(q)] = t
  BY DEF Postable, IInv, TypeOK
<1>3. Post(t, TRUE, q)
  OBVIOUS
<1> HIDE DEF q
<1>7. /\ created \in Nat /\ t.at < created' /\ t.at >= created
      /\ \A i \in 1..Len(unposted) : /\ WellFormed(unposted[i])
                                     /\ unposted[i].at < created'
                                     /\ unposted[i].at # created
                                     /\ unposted[i] \notin posted
  BY <1>1, HeldIsOld
<1>8. \A i \in 1..Len(drain) : WellFormed(drain[i]) /\ drain[i].at < created'
  BY <1>1, HeldIsOld
<1>4. \A i \in 1..Len(q) : /\ WellFormed(q[i]) /\ q[i].at < created'
                           /\ (q[i] \notin posted \/ q[i] = t)
  BY <1>1, <1>2, <1>7 DEF Postable
<1>5. \A i, j \in 1..Len(q) : i # j => q[i].at # q[j].at
  BY <1>1, <1>2, <1>7 DEF IInv, LedgerInv
<1>6. /\ IsTrialBalanceBalanced(balance') /\ balance' \in Balances
      /\ posted' \subseteq Tx /\ unposted' \in Seq(Tx) /\ raised' \in BOOLEAN
      /\ accounts = {} => balance' = Nothing
      /\ \A p \in posted' : p.at < created'
      /\ \A i \in 1..Len(unposted') : /\ WellFormed(unposted'[i])
                                      /\ unposted'[i].at < created'
                                      /\ unposted'[i] \notin posted'
      /\ \A i, j \in 1..Len(unposted') : i # j => unposted'[i].at # unposted'[j].at
  BY <1>1, <1>2, <1>3, <1>4, <1>5, <1>7, PostEffect
<1> QED BY <1>1, <1>6, <1>8 DEF IInv, TypeOK, LedgerInv, Held

LEMMA InitIInv == Init => IInv
<1> SUFFICES ASSUME Init PROVE IInv
  OBVIOUS
<1>1. TypeOK
  <2>1. balance \in [Chart -> Int]
    BY DEF Init, Nothing
  <2>2. created \in 0..MaxTx
    BY LedgerAssumption DEF Init
  <2>3. unposted \in Seq(Tx) /\ drain \in Seq(Tx)
    BY DEF Init
  <2>4. accounts \in {{}, Chart} /\ posted \subseteq Tx
    BY DEF Init
  <2>5. subscribed \in BOOLEAN /\ raised \in BOOLEAN
    BY DEF Init
  <2> QED BY <2>1, <2>2, <2>3, <2>4, <2>5 DEF TypeOK
<1>2. IsTrialBalanceBalanced(balance)
  BY DEF Init, Nothing, IsTrialBalanceBalanced, TotalDebits, TotalCredits, SumAssets,
     SumExpenses, SumLiabilities, SumEquity, SumRevenue, Chart, Assets, Liabilities,
     Equity, Revenue, Expenses
<1> QED BY <1>1, <1>2 DEF Init, IInv, LedgerInv

(* The handlers keep the invariant. *)
LEMMA HandlersKeepIInv == IInv /\ Handlers => IInv'
<1> SUFFICES ASSUME IInv, Handlers PROVE IInv'
  OBVIOUS
<1> USE LedgerAssumption
<1>0. created \in Nat
  BY DEF IInv, TypeOK
<1>1. ASSUME NEW e \in Sales, HandleSaleOccurred(e) PROVE IInv'
  BY <1>0, <1>1, SaleBalanced, PostListed DEF HandleSaleOccurred
<1>2. ASSUME NEW e \in Adjustments, HandleInventoryAdjusted(e) PROVE IInv'
  <2> DEFINE t == AdjustmentTx(e)
  <2>1. Postable(t) /\ t.at = created
    BY <1>0, AdjustmentBalanced
  <2>2. /\ unposted' = Append(unposted, t) /\ created' = created + 1 /\ created' \in 0..MaxTx
        /\ UNCHANGED <<accounts, balance, posted, drain, subscribed>> /\ raised' = FALSE
    BY <1>0, <1>2 DEF HandleInventoryAdjusted, Create
  <2> HIDE DEF t
  <2>3. /\ unposted' \in Seq(Tx) /\ Len(unposted') = Len(unposted) + 1
        /\ \A i \in 1..Len(unposted) : unposted'[i] = unposted[i]
        /\ unposted'[Len(unposted')] = t
    BY <2>1, <2>2 DEF Postable, IInv, TypeOK
  <2>4. t \notin posted
    BY <2>1 DEF IInv, LedgerInv, Postable, Tx
  <2>5. created' \in Nat /\ created <= created'
    BY <1>0, <2>2
  <2> USE HeldIsOld
  <2>6. \A i \in 1..Len(unposted') : /\ WellFormed(unposted'[i])
                                     /\ unposted'[i].at < created'
                                     /\ unposted'[i] \notin posted'
    BY <2>1, <2>2, <2>3, <2>4, <2>5 DEF Postable
  <2>7. \A i, j \in 1..Len(unposted') : i # j => unposted'[i].at # unposted'[j].at
    BY <2>1, <2>2, <2>3, <2>5 DEF IInv, LedgerInv
  <2> QED BY <2>2, <2>3, <2>5, <2>6, <2>7 DEF IInv, TypeOK, LedgerInv, Held
<1>3. ASSUME NEW c \in Capital, Start(c) PROVE IInv'
  <2>1. CASE c > 0 /\ Accepted(EquityTx(c), TRUE)
    BY <1>0, <1>3, <2>1, EquityBalanced, PostNew DEF Start
  <2>2. CASE ~(c > 0 /\ Accepted(EquityTx(c), TRUE))
    <3>1. /\ created' = created + 1 /\ created' \in 0..MaxTx /\ created' \in Nat
          /\ created <= created'
      BY <1>0, <1>3 DEF Start, Create
    <3>2. /\ UNCHANGED <<accounts, balance, posted, unposted, drain>>
          /\ subscribed' = TRUE /\ raised' = FALSE
      BY <1>3, <2>2, Zenon DEF Start
    <3> QED BY <3>1, <3>2, HeldIsOld DEF IInv, TypeOK, LedgerInv, Held
  <2> QED BY <2>1, <2>2
<1>4. CASE PostAllUnposted
  BY <1>4 DEF PostAllUnposted, IInv, TypeOK, LedgerInv, Held
<1>5. CASE DrainStep
  <2> DEFINE t == Head(drain)
  <2>1. /\ Len(drain) > 0 /\ t = drain[1] /\ t \in Tx /\ Tail(drain) \in Seq(Tx)
        /\ Len(Tail(drain)) = Len(drain) - 1
        /\ \A i \in 1..Len(Tail(drain)) : Tail(drain)[i] = drain[i + 1]
    BY <1>5 DEF DrainStep, IInv, TypeOK
  <2>2. Postable(t) /\ t.at < created
    BY <2>1 DEF IInv, LedgerInv, Held, Postable
  <2>3. /\ Post(t, TRUE, unposted) /\ created' = created
        /\ accounts' = accounts /\ subscribed' = subscribed
    BY <1>5 DEF DrainStep
  <2>4. drain' \in Seq(Tx) /\ \A i \in 1..Len(drain') : Held(drain[i])'
    <3>1. CASE drain' = <<>>
      BY <3>1
    <3>2. CASE drain' = Tail(drain)
      BY <2>1, <2>3, <3>2 DEF IInv, LedgerInv, Held
    <3> QED BY <1>5, <3>1, <3>2 DEF DrainStep
  <2>5. created' \in Nat /\ created <= created'
    BY <1>0, <2>3
  <2> HIDE DEF t
  <2> USE HeldIsOld
  <2>6. /\ IsTrialBalanceBalanced(balance') /\ balance' \in Balances
        /\ posted' \subseteq Tx /\ unposted' \in Seq(Tx) /\ raised' \in BOOLEAN
        /\ accounts = {} => balance' = Nothing
        /\ \A p \in posted' : p.at < created'
        /\ \A i \in 1..Len(unposted') : /\ WellFormed(unposted'[i])
                                        /\ unposted'[i].at < created'
                                        /\ unposted'[i] \notin posted'
        /\ \A i, j \in 1..Len(unposted') : i # j => unposted'[i].at # unposted'[j].at
    BY <2>2, <2>3, <2>5, PostEffect DEF IInv, TypeOK, LedgerInv
  <2> QED BY <2>3, <2>4, <2>6 DEF IInv, TypeOK, LedgerInv, Held
<1> QED BY <1>1, <1>2, <1>3, <1>4, <1>5 DEF Handlers

(* Callers' transactions are postable, stamped with the clock or not.        *)
LEMMA ManualPostable ==
  ASSUME NEW t \in Manual, created \in Nat
  PROVE  Postable(Stamp(t)) /\ Stamp(t).at = created
<1>1. t \in Tx /\ WellFormed(t)
  BY LedgerAssumption
<1>2. /\ Stamp(t).named = t.named /\ Stamp(t).dr = t.dr /\ Stamp(t).cr = t.cr
      /\ Stamp(t).at = created /\ Stamp(t) \in Tx
  BY <1>1 DEF Stamp, Tx
<1> QED BY <1>1, <1>2 DEF Postable, WellFormed

(* Capital can be injected at any time, with and without a chart. *)
LEMMA InjectKeepsIInv ==
  ASSUME IInv, NEW c \in Capital, InjectEquity(c)
  PROVE  IInv'
<1>1. created \in Nat /\ c \in Int /\ subscribed \in BOOLEAN
  BY LedgerAssumption DEF IInv, TypeOK
<1>2. Postable(EquityTx(c)) /\ EquityTx(c).at = created
  BY <1>1, EquityBalanced
<1>3. /\ Create /\ Post(EquityTx(c), TRUE, unposted)
      /\ UNCHANGED <<accounts, drain>> /\ subscribed' = subscribed
  BY DEF InjectEquity
<1> QED BY <1>1, <1>2, <1>3, PostNew

(* A posting through the service, passed on to the core or refused before.   *)
LEMMA ServicePostKeepsIInv ==
  ASSUME IInv, NEW t, Postable(Stamp(t)), Stamp(t).at = created, ServicePost(t)
  PROVE  IInv'
<1>0. created \in Nat /\ subscribed \in BOOLEAN
  BY LedgerAssumption DEF IInv, TypeOK
<1>1. /\ Create /\ UNCHANGED <<accounts, drain>> /\ subscribed' = subscribed
  BY DEF ServicePost
<1>2. CASE Post(Stamp(t), TRUE, unposted)
  BY <1>0, <1>1, <1>2, PostNew
<1>3. CASE raised' = TRUE /\ UNCHANGED <<balance, posted, unposted>>
  <2>1. /\ created' = created + 1 /\ created' \in 0..MaxTx /\ created' \in Nat
        /\ created <= created'
    BY LedgerAssumption, <1>0, <1>1 DEF Create
  <2> QED BY <1>1, <1>3, <2>1, HeldIsOld DEF IInv, TypeOK, LedgerInv, Held
<1>4. IF PassesValidator(t) THEN Post(Stamp(t), TRUE, unposted)
      ELSE raised' = TRUE /\ UNCHANGED <<balance, posted, unposted>>
  BY DEF ServicePost
<1> QED BY <1>2, <1>3, <1>4

LEMMA NextKeepsIInv == IInv /\ [Next]_vars => IInv'
<1> SUFFICES ASSUME IInv, [Next]_vars PROVE IInv'
  OBVIOUS
<1>0. created \in Nat /\ subscribed \in BOOLEAN
  BY LedgerAssumption DEF IInv, TypeOK
<1>1. CASE InitializeChartOfAccounts
  <2>1. /\ accounts' = Chart /\ balance' = Nothing /\ raised' = FALSE
        /\ UNCHANGED <<posted, unposted, drain, subscribed, created>>
    BY <1>1 DEF InitializeChartOfAccounts
  <2>2. Nothing \in [Chart -> Int]
    BY DEF Nothing
  <2>3. IsTrialBalanceBalanced(Nothing)
    BY DEF Nothing, IsTrialBalanceBalanced, TotalDebits, TotalCredits, SumAssets,
       SumExpenses, SumLiabilities, SumEquity, SumRevenue, Chart, Assets, Liabilities,
       Equity, Revenue, Expenses
  <2> QED BY <2>1, <2>2, <2>3 DEF IInv, TypeOK, LedgerInv, Held
<1>2. ASSUME NEW t \in Manual, NEW strict \in BOOLEAN, PostTransaction(t, strict) PROVE IInv'
  <2>1. /\ Create /\ Post(Stamp(t), strict, unposted)
        /\ UNCHANGED <<accounts, drain>> /\ subscribed' = subscribed
    BY <1>2 DEF PostTransaction
  <2> QED BY <1>0, <2>1, ManualPostable, PostNew
<1>6. ASSUME NEW t \in Manual, ServicePost(t) PROVE IInv'
  BY <1>0, <1>6, ManualPostable, ServicePostKeepsIInv
<1>3. ASSUME NEW c \in Capital, InjectEquity(c) PROVE IInv'
  BY <1>3, InjectKeepsIInv
<1>4. CASE Handlers
  BY <1>4, HandlersKeepIInv
<1>5. CASE UNCHANGED vars
  BY <1>5 DEF vars, IInv, TypeOK, LedgerInv, Held
<1> QED BY <1>1, <1>2, <1>3, <1>4, <1>5, <1>6 DEF Next

(* The strengthened invariant of the ledger, for any bound on its length.    *)
THEOREM LedgerInvariant == Spec => [](TypeOK /\ LedgerInv)
BY InitIInv, NextKeepsIInv, PTL DEF Spec, IInv

(* Type correctness. *)
THEOREM Typing == Spec => []TypeOK
<1>1. TypeOK /\ LedgerInv => TypeOK
  OBVIOUS
<1> QED BY <1>1, LedgerInvariant, PTL

(* A balanced trial balance is the accounting equation.                      *)
LEMMA IntegrityFollows == TypeOK /\ LedgerInv => IntegrityHolds
<1> SUFFICES ASSUME TypeOK, LedgerInv PROVE IntegrityHolds
  OBVIOUS
<1>1. /\ SumAssets(balance) \in Int /\ SumLiabilities(balance) \in Int
      /\ SumEquity(balance) \in Int /\ SumRevenue(balance) \in Int
      /\ SumExpenses(balance) \in Int
  <2>1. balance \in Balances
    BY DEF TypeOK
  <2> QED BY <2>1, ChartParts DEF SumAssets, SumExpenses, SumLiabilities, SumEquity, SumRevenue,
     Assets, Expenses, Liabilities, Equity, Revenue
<1>2. IsTrialBalanceBalanced(balance)
  BY DEF LedgerInv
<1> HIDE DEF TypeOK, LedgerInv
<1> QED BY ONLY <1>1, <1>2 DEF IsTrialBalanceBalanced, TotalDebits, TotalCredits,
                             IntegrityHolds, VerifyIntegrity

(* verify_integrity, the "panic button", never fires: whatever sales,        *)
(* adjustments, capital and callers' transactions come, in whatever order.   *)
THEOREM Integrity == Spec => []IntegrityHolds
BY IntegrityFollows, LedgerInvariant, PTL

(* A transaction is never both waiting in the unposted list and posted.      *)
THEOREM ListedNotPosted == Spec => []ListedIsNotPosted
<1>1. TypeOK /\ LedgerInv => ListedIsNotPosted
  BY DEF LedgerInv, ListedIsNotPosted
<1> QED BY <1>1, LedgerInvariant, PTL

(* AccountingError is unreachable: validation alone keeps the books balanced. *)
THEOREM TrialCheckNeverFires == Spec => []ValidationSuffices
<1>1. TypeOK /\ LedgerInv => ValidationSuffices
  <2> SUFFICES ASSUME TypeOK, LedgerInv,
                      NEW t \in Manual \cup {SaleTx(e) : e \in Sales}
                                       \cup {EquityTx(c) : c \in Capital},
                      Validated(t, TRUE)
               PROVE  IsTrialBalanceBalanced(Applied(balance, t))
    BY DEF ValidationSuffices
  <2>1. created \in Nat
    BY LedgerAssumption DEF TypeOK
  <2>2. t \in Tx
    <3>1. CASE t \in Manual
      BY <3>1, LedgerAssumption
    <3>2. CASE \E e \in Sales : t = SaleTx(e)
      BY <2>1, <3>2, LedgerAssumption, SaleBalanced DEF Postable
    <3>3. CASE \E c \in Capital : t = EquityTx(c)
      BY <2>1, <3>3, LedgerAssumption, EquityBalanced DEF Postable
    <3> QED BY <3>1, <3>2, <3>3
  <2> QED BY <2>2, AppliedKeepsTrialBalance DEF Validated, TypeOK, LedgerInv
<1> QED BY <1>1, LedgerInvariant, PTL

(* A posting attempt either changes neither journal nor balances or posts    *)
(* one whole new transaction.                                                *)
LEMMA PostIsOnePosting ==
  ASSUME TypeOK, LedgerInv, NEW t, NEW strict, NEW q, Post(t, strict, q)
  PROVE  OnePosting
<1>1. CASE Accepted(t, strict)
  <2>2. \A p \in posted : p.id # t.id
    BY <1>1 DEF Accepted, Validated
  <2>1. posted' = posted \cup {t} /\ balance' = Applied(balance, t)
    BY <1>1, <2>2, StoredNew DEF Post
  <2> QED BY <2>1, <2>2 DEF OnePosting
<1>2. CASE ~Accepted(t, strict)
  BY <1>2 DEF Post, OnePosting
<1> QED BY <1>1, <1>2

(* ... which is all a step of the ledger does to the books.                  *)
LEMMA StepIsOnePosting == IInv /\ [Next]_vars => OnePosting
<1>0. CASE UNCHANGED vars
  BY <1>0 DEF vars, OnePosting
<1>1. CASE Next
  <2> SUFFICES ASSUME TypeOK, LedgerInv, Next PROVE OnePosting
    BY <1>1 DEF IInv
  <2>1. CASE InitializeChartOfAccounts
    BY <2>1 DEF InitializeChartOfAccounts, LedgerInv, OnePosting
  <2>2. ASSUME NEW t \in Manual, NEW strict \in BOOLEAN, PostTransaction(t, strict)
        PROVE  OnePosting
    BY <2>2, PostIsOnePosting DEF PostTransaction
  <2>9. ASSUME NEW t \in Manual, ServicePost(t) PROVE OnePosting
    <3>1. CASE Post(Stamp(t), TRUE, unposted)
      BY <3>1, PostIsOnePosting
    <3>2. CASE UNCHANGED <<balance, posted, unposted>>
      BY <3>2 DEF OnePosting
    <3> QED BY <2>9, <3>1, <3>2, Zenon DEF ServicePost
  <2>3. ASSUME NEW c \in Capital, InjectEquity(c) PROVE OnePosting
    BY <2>3, PostIsOnePosting DEF InjectEquity
  <2>4. ASSUME NEW e \in Sales, HandleSaleOccurred(e) PROVE OnePosting
    BY <2>4, PostIsOnePosting DEF HandleSaleOccurred
  <2>5. ASSUME NEW e \in Adjustments, HandleInventoryAdjusted(e) PROVE OnePosting
    BY <2>5 DEF HandleInventoryAdjusted, OnePosting
  <2>6. ASSUME NEW c \in Capital, Start(c) PROVE OnePosting
    <3>1. CASE Post(EquityTx(c), TRUE, unposted)
      BY <3>1, PostIsOnePosting
    <3>2. CASE UNCHANGED <<balance, posted, unposted>>
      BY <3>2 DEF OnePosting
    <3> QED BY <2>6, <3>1, <3>2, Zenon DEF Start
  <2>7. CASE PostAllUnposted
    BY <2>7 DEF PostAllUnposted, OnePosting
  <2>8. CASE DrainStep
    BY <2>8, PostIsOnePosting DEF DrainStep
  <2> QED BY <2>1, <2>2, <2>3, <2>4, <2>5, <2>6, <2>7, <2>8, <2>9 DEF Next, Handlers
<1> QED BY <1>0, <1>1 DEF IInv

(* Transactions are all or nothing, posted once, and never revised.          *)
THEOREM Atomicity == Spec => AllOrNothing
<1>1. IInv /\ [Next]_vars => [OnePosting]_vars
  BY StepIsOnePosting
<1> QED BY <1>1, InitIInv, NextKeepsIInv, PTL DEF Spec, AllOrNothing

(* A balance moves by what the transaction posted moves on an empty chart.    *)
LEMMA AppliedAddsNet ==
  ASSUME NEW b \in Balances, NEW t \in Tx, NEW a \in Chart
  PROVE  Applied(b, t)[a] = Net(t)[a] + b[a] /\ Net(t)[a] \in Int
BY DEF Net, Nothing, Applied, ApplyCredits, ApplyDebits, Tx

(* The journal is finite, and the balances are its sums.                     *)
JournalInv == IsFiniteSet(posted) /\ JournalExplainsBalances

(* One posting adds one term to every sum.                                   *)
LEMMA OnePostingKeepsJournal ==
  ASSUME IInv, IInv', JournalInv, OnePosting
  PROVE  JournalInv'
<1>1. CASE posted' = posted /\ balance' = balance
  BY <1>1 DEF JournalInv, JournalExplainsBalances
<1>2. ASSUME NEW t \in posted', t \notin posted, posted' = posted \cup {t},
             balance' = Applied(balance, t)
      PROVE  JournalInv'
  <2>1. /\ posted \subseteq Tx /\ t \in Tx /\ balance \in Balances
        /\ IsFiniteSet(posted) /\ JournalExplainsBalances
    BY <1>2 DEF IInv, TypeOK, JournalInv
  <2>2. IsFiniteSet(posted')
    BY <1>2, <2>1, FS_AddElement
  <2>3. ASSUME NEW a \in Chart
        PROVE  balance'[a] = SumFunction([p \in posted' |-> Net(p)[a]])
    <3> DEFINE f == [p \in posted |-> Net(p)[a]]
               g == [p \in posted' |-> Net(p)[a]]
    <3>1. (\A p \in posted : f[p] \in Int /\ g[p] = f[p]) /\ g[t] = Net(t)[a]
          /\ (\A p \in posted \cup {t} : g[p] \in Int)
      BY <1>2, <2>1, AppliedAddsNet
    <3>2. SumFunction(f) = SumFunctionOnSet(f, posted)
          /\ SumFunction(g) = SumFunctionOnSet(g, posted \cup {t})
      BY <1>2 DEF SumFunction
    <3> HIDE DEF f, g
    <3>3. SumFunctionOnSet(g, posted \cup {t}) = g[t] + SumFunctionOnSet(g, posted)
      BY <1>2, <2>1, <3>1, SumAdd
    <3>4. SumFunctionOnSet(g, posted) = SumFunctionOnSet(f, posted)
      BY <2>1, <3>1, SumOfEquals
    <3>5. balance[a] = SumFunction(f)
      BY <2>1 DEF f, JournalExplainsBalances
    <3>6. balance'[a] = Net(t)[a] + balance[a]
      BY <1>2, <2>1, AppliedAddsNet
    <3>7. balance'[a] = SumFunction(g)
      BY <3>1, <3>2, <3>3, <3>4, <3>5, <3>6
    <3> QED BY <3>7 DEF g
  <2> QED BY <2>2, <2>3 DEF JournalInv, JournalExplainsBalances
<1> QED BY <1>1, <1>2 DEF OnePosting

LEMMA InitJournal == Init => JournalInv
<1> SUFFICES ASSUME Init PROVE JournalInv
  OBVIOUS
<1>1. IsFiniteSet(posted)
  BY FS_EmptySet DEF Init
<1>2. ASSUME NEW a \in Chart
      PROVE  balance[a] = SumFunction([p \in posted |-> Net(p)[a]])
  BY SumOfNothing DEF Init, Nothing, SumFunction
<1> QED BY <1>1, <1>2 DEF JournalInv, JournalExplainsBalances

(* Over its whole history the ledger loses no posting and applies none twice *)
(* or by half (post_transaction): every balance is the sum of the journal.   *)
THEOREM Journal == Spec => []JournalExplainsBalances
<1>1. IInv /\ JournalInv /\ [Next]_vars => (IInv /\ JournalInv)'
  BY StepIsOnePosting, NextKeepsIInv, OnePostingKeepsJournal
<1>2. JournalInv => JournalExplainsBalances
  BY DEF JournalInv
<1> QED BY <1>1, <1>2, InitIInv, InitJournal, PTL DEF Spec
-----------------------------------------------------------------------------
(* The walk over the unposted list.  Nothing else runs while it lasts, and    *)
(* what it has posted it has also taken off the list: the two are the same   *)
(* until a refusal ends the walk.                                            *)
WalkInStep == drain = <<>> \/ drain = unposted

(* The head, taken out of a list that repeats nothing, leaves the tail.       *)
LEMMA WithoutHead ==
  ASSUME NEW s \in Seq(Tx), s # <<>>,
         \A i, j \in 1..Len(s) : i # j => s[i].at # s[j].at
  PROVE  Without(s, Head(s)) = Tail(s)
<1> DEFINE k == CHOOSE i \in 1..Len(s) : s[i] = s[1]
<1>1. 1 \in 1..Len(s) /\ Head(s) = s[1] /\ Len(s) \in Nat
  OBVIOUS
<1>2. k \in 1..Len(s) /\ s[k] = s[1]
  BY <1>1
<1>3. k = 1
  BY <1>1, <1>2
<1>4. Without(s, Head(s)) = [i \in 1..(Len(s) - 1) |-> IF i < k THEN s[i] ELSE s[i + 1]]
  BY <1>1 DEF Without
<1> DEFINE w == Without(s, Head(s))
<1>5. /\ w \in Seq(Tx) /\ Len(w) = Len(s) - 1
      /\ \A i \in 1..(Len(s) - 1) : w[i] = s[i + 1]
  <2>1. w \in Seq(Tx)
    BY WithoutProperties
  <2>2. w = [i \in 1..(Len(s) - 1) |-> IF i < 1 THEN s[i] ELSE s[i + 1]]
    BY <1>3, <1>4
  <2> HIDE DEF w
  <2> QED BY <2>1, <2>2
<1>6. /\ Tail(s) \in Seq(Tx) /\ Len(Tail(s)) = Len(s) - 1
      /\ \A i \in 1..(Len(s) - 1) : Tail(s)[i] = s[i + 1]
  OBVIOUS
<1> HIDE DEF w
<1>7. w = Tail(s)
  BY <1>5, <1>6
<1> QED BY <1>7 DEF w

(* A step of the walk takes the same off both, or is refused and ends it.     *)
LEMMA WalkStep ==
  ASSUME IInv, WalkInStep, DrainStep
  PROVE  WalkInStep' /\ (drain' = <<>> /\ ~raised' => unposted' = <<>>)
<1>1. /\ drain # <<>> /\ drain = unposted /\ Post(Head(drain), TRUE, unposted)
      /\ drain' = IF Accepted(Head(drain), TRUE) THEN Tail(drain) ELSE <<>>
  BY DEF DrainStep, WalkInStep
<1>2. CASE Accepted(Head(drain), TRUE)
  <2>1. unposted' = Without(unposted, Head(unposted)) /\ drain' = Tail(unposted)
    BY <1>1, <1>2 DEF Post
  <2>2. unposted' = Tail(unposted)
    BY <1>1, <2>1, WithoutHead DEF IInv, TypeOK, LedgerInv
  <2> QED BY <2>1, <2>2 DEF WalkInStep
<1>3. CASE ~Accepted(Head(drain), TRUE)
  BY <1>1, <1>3 DEF Post, WalkInStep
<1> QED BY <1>2, <1>3

(* Every other step waits for the walk to end.                               *)
LEMMA OthersWait ==
  ASSUME Next
  PROVE  DrainStep \/ (drain = <<>> /\ (drain' = <<>> \/ drain' = unposted'))
BY DEF Next, Handlers, InitializeChartOfAccounts, PostTransaction, ServicePost,
       InjectEquity, HandleSaleOccurred, HandleInventoryAdjusted, Start, PostAllUnposted,
       Create, Idle

(* A walk that ends without raising has emptied the list.                    *)
CleanStep == drain # <<>> /\ drain' = <<>> /\ ~raised' => unposted' = <<>>

LEMMA WalkKeepsStep ==
  ASSUME IInv, WalkInStep, [Next]_vars
  PROVE  WalkInStep' /\ (UNCHANGED vars \/ CleanStep)
BY WalkStep, OthersWait DEF WalkInStep, CleanStep, vars

(* post_all_unposted_transactions, shrinking the list it walks a copy of,    *)
(* skips nothing: ended without an exception, it leaves nothing unposted.    *)
THEOREM CleanDrain == Spec => CleanDrainEmptiesList
<1>1. IInv /\ WalkInStep /\ [Next]_vars => (IInv /\ WalkInStep)'
  BY NextKeepsIInv, WalkKeepsStep
<1>2. IInv /\ WalkInStep /\ [Next]_vars => [CleanStep]_vars
  BY WalkKeepsStep
<1>3. Init => WalkInStep
  BY DEF Init, WalkInStep
<1>4. [][CleanStep]_vars => CleanDrainEmptiesList
  BY PTL DEF CleanStep, CleanDrainEmptiesList
<1> QED BY <1>1, <1>2, <1>3, <1>4, InitIInv, PTL DEF Spec
-----------------------------------------------------------------------------
(* Disputes.  Their transactions are told from all others by their kind, so   *)
(* the journal holds one exactly when a settlement posted it, and the record  *)
(* is written exactly then.                                                   *)
DisputeInv == IInv /\ RecordsTypeOK

(* What is stamped with the clock stays postable.                             *)
LEMMA StampPostable ==
  ASSUME NEW t \in Tx, WellFormed(t), created \in Nat
  PROVE  Postable(Stamp(t)) /\ Stamp(t).at = created /\ Stamp(t).id = t.id
<1>1. /\ Stamp(t).named = t.named /\ Stamp(t).dr = t.dr /\ Stamp(t).cr = t.cr
      /\ Stamp(t).at = created /\ Stamp(t).id = t.id /\ Stamp(t) \in Tx
  BY DEF Stamp, Tx
<1> QED BY <1>1 DEF Postable, WellFormed

LEMMA RefundPostable ==
  ASSUME DisputeInv, NEW d \in DisputeId
  PROVE  LET t == Stamp(RefundTx(d))
         IN  Postable(t) /\ t.at = created /\ t.id = <<"refund", d>>
<1>1. claim[d].refund \in Int /\ claim[d].cogs \in Int /\ claim[d].returned \in BOOLEAN
  <2>1. claim[d] \in Claims \/ claim[d] = NoClaim
    BY DEF DisputeInv, RecordsTypeOK
  <2>2. NoClaim \in Claim
    BY DEF Claim, NoClaim
  <2>3. claim[d] \in Claim
    BY <2>1, <2>2, DisputeAssumption
  <2> QED BY <2>3 DEF Claim
<1>2. created \in Nat /\ d \in EventId
  BY LedgerAssumption, DisputeAssumption DEF DisputeInv, IInv, TypeOK
<1>3. RefundTx(d) \in Tx /\ WellFormed(RefundTx(d)) /\ RefundTx(d).id = <<"refund", d>>
  BY <1>1, <1>2 DEF RefundTx, WellFormed, Tx, TxId, On, Chart, Assets,
     Liabilities, Equity, Revenue, Expenses, AccountId
<1> QED BY <1>2, <1>3, StampPostable

LEMMA WriteOffPostable ==
  ASSUME DisputeInv, NEW d \in DisputeId, NEW n \in Int
  PROVE  LET t == Stamp(WriteOffTx(d, n))
         IN  Postable(t) /\ t.at = created /\ t.id = <<"writeoff", d>>
<1>1. created \in Nat /\ d \in EventId
  BY LedgerAssumption, DisputeAssumption DEF DisputeInv, IInv, TypeOK
<1>2. /\ WriteOffTx(d, n) \in Tx /\ WellFormed(WriteOffTx(d, n))
      /\ WriteOffTx(d, n).id = <<"writeoff", d>>
  BY <1>1 DEF WriteOffTx, WellFormed, Tx, TxId, On, Chart, Assets,
     Liabilities, Equity, Revenue, Expenses, AccountId
<1> QED BY <1>1, <1>2, StampPostable

(* Settling a dispute keeps the ledger's invariant and the records' types.   *)
LEMMA DisputesKeepInv == DisputeInv /\ [DisputesNext]_dvars => DisputeInv'
<1> SUFFICES ASSUME DisputeInv, [DisputesNext]_dvars PROVE DisputeInv'
  OBVIOUS
<1> USE DisputeAssumption
<1>1. CASE Next /\ UNCHANGED records
  BY <1>1, NextKeepsIInv DEF DisputeInv, RecordsTypeOK, records
<1>2. CASE UNCHANGED dvars
  <2>1. UNCHANGED vars /\ UNCHANGED records
    BY <1>2 DEF dvars
  <2> QED BY <2>1, NextKeepsIInv DEF DisputeInv, RecordsTypeOK, records
<1>3. ASSUME NEW d \in DisputeId, NEW c \in Claims, CreateDispute(d, c) PROVE DisputeInv'
  <2>1. [Next]_vars
    BY <1>3 DEF CreateDispute
  <2>2. RecordsTypeOK'
    BY <1>3 DEF CreateDispute, DisputeInv, RecordsTypeOK
  <2> QED BY <2>1, <2>2, NextKeepsIInv DEF DisputeInv
<1>4. ASSUME NEW d \in DisputeId, ResolveRefund(d) PROVE DisputeInv'
  <2>1. IInv'
    BY <1>4, RefundPostable, ServicePostKeepsIInv DEF ResolveRefund, DisputeInv
  <2>2. RecordsTypeOK'
    BY <1>4 DEF ResolveRefund, DisputeInv, RecordsTypeOK
  <2> QED BY <2>1, <2>2 DEF DisputeInv
<1>5. ASSUME NEW d \in DisputeId, ResolveReject(d) PROVE DisputeInv'
  <2>1. [Next]_vars
    BY <1>5 DEF ResolveReject
  <2>2. RecordsTypeOK'
    BY <1>5 DEF ResolveReject, DisputeInv, RecordsTypeOK
  <2> QED BY <2>1, <2>2, NextKeepsIInv DEF DisputeInv
<1>6. ASSUME NEW d \in DisputeId, NEW n \in Amounts, WriteOff(d, n) PROVE DisputeInv'
  <2>1. IInv'
    <3>1. CASE UNCHANGED vars
      BY <3>1, NextKeepsIInv DEF DisputeInv
    <3>2. CASE ServicePost(WriteOffTx(d, n))
      BY <3>2, WriteOffPostable, ServicePostKeepsIInv DEF DisputeInv
    <3> QED BY <1>6, <3>1, <3>2 DEF WriteOff
  <2>2. RecordsTypeOK'
    BY <1>6 DEF WriteOff, WrittenOff, DisputeInv, RecordsTypeOK
  <2> QED BY <2>1, <2>2 DEF DisputeInv
<1> QED BY <1>1, <1>2, <1>3, <1>4, <1>5, <1>6 DEF DisputesNext, DisputesStep

LEMMA DisputesInitInv == DisputesInit => DisputeInv
<1> SUFFICES ASSUME DisputesInit PROVE DisputeInv
  OBVIOUS
<1>1. IInv
  BY InitIInv DEF DisputesInit
<1>2. RecordsTypeOK
  BY DEF DisputesInit, RecordsTypeOK
<1> QED BY <1>1, <1>2 DEF DisputeInv

(* verify_integrity holds with disputes settled in between, too.             *)
THEOREM DisputesIntegrity == DisputesSpec => []IntegrityHolds
<1>1. DisputeInv => IntegrityHolds
  BY IntegrityFollows DEF DisputeInv, IInv
<1> QED BY <1>1, DisputesInitInv, DisputesKeepInv, PTL DEF DisputesSpec

(* A dispute does nothing to the books that another caller could not do.     *)
LEMMA DisputesPostAsOthers ==
  ASSUME [DisputesNext]_dvars
  PROVE  [Next]_vars \/ \E t : ServicePost(t)
BY DEF DisputesNext, DisputesStep, CreateDispute, ResolveRefund, ResolveReject, WriteOff,
       vars, dvars

LEMMA ServicePostIsOnePosting ==
  ASSUME IInv, NEW t, ServicePost(t)
  PROVE  OnePosting /\ drain = <<>> /\ drain' = <<>>
<1>1. drain = <<>> /\ drain' = <<>>
  BY DEF ServicePost, Create, Idle
<1>2. CASE Post(Stamp(t), TRUE, unposted)
  BY <1>1, <1>2, PostIsOnePosting DEF IInv
<1>3. CASE UNCHANGED <<balance, posted, unposted>>
  BY <1>1, <1>3 DEF OnePosting
<1> QED BY <1>2, <1>3, Zenon DEF ServicePost

LEMMA DisputesKeepBooks ==
  ASSUME DisputeInv, [DisputesNext]_dvars
  PROVE  /\ OnePosting
         /\ JournalInv => JournalInv'
         /\ WalkInStep => WalkInStep' /\ (UNCHANGED vars \/ CleanStep)
<1>1. IInv /\ IInv'
  BY DisputesKeepInv DEF DisputeInv
<1>2. CASE [Next]_vars
  BY <1>1, <1>2, StepIsOnePosting, OnePostingKeepsJournal, WalkKeepsStep
<1>3. ASSUME NEW t, ServicePost(t)
      PROVE  OnePosting /\ (JournalInv => JournalInv') /\ WalkInStep' /\ CleanStep
  <2>1. OnePosting /\ drain = <<>> /\ drain' = <<>>
    BY <1>1, <1>3, ServicePostIsOnePosting
  <2>2. WalkInStep' /\ CleanStep
    BY <2>1 DEF WalkInStep, CleanStep
  <2> QED BY <1>1, <2>1, <2>2, OnePostingKeepsJournal
<1> QED BY <1>2, <1>3, DisputesPostAsOthers

(* With disputes settled in between, too, every step posts nothing or one    *)
(* whole new transaction (post_transaction) ...                              *)
THEOREM DisputesAtomicity == DisputesSpec => AllOrNothing
<1>1. DisputeInv /\ [DisputesNext]_dvars => [OnePosting]_vars
  BY DisputesKeepBooks
<1> QED BY <1>1, DisputesInitInv, DisputesKeepInv, PTL DEF DisputesSpec, AllOrNothing

(* ... every balance is the sum of the journal (post_transaction) ...        *)
THEOREM DisputesJournal == DisputesSpec => []JournalExplainsBalances
<1>1. DisputeInv /\ JournalInv /\ [DisputesNext]_dvars => (DisputeInv /\ JournalInv)'
  BY DisputesKeepBooks, DisputesKeepInv
<1>2. JournalInv => JournalExplainsBalances
  BY DEF JournalInv
<1>3. DisputesInit => JournalInv
  BY InitJournal DEF DisputesInit
<1> QED BY <1>1, <1>2, <1>3, DisputesInitInv, PTL DEF DisputesSpec

(* ... and a walk of post_all_unposted that does not raise leaves nothing.   *)
THEOREM DisputesCleanDrain == DisputesSpec => CleanDrainEmptiesList
<1>1. DisputeInv /\ WalkInStep /\ [DisputesNext]_dvars => (DisputeInv /\ WalkInStep)'
  BY DisputesKeepBooks, DisputesKeepInv
<1>2. DisputeInv /\ WalkInStep /\ [DisputesNext]_dvars => [CleanStep]_vars
  BY DisputesKeepBooks
<1>3. DisputesInit => WalkInStep
  BY DEF DisputesInit, Init, WalkInStep
<1>4. [][CleanStep]_vars => CleanDrainEmptiesList
  BY PTL DEF CleanStep, CleanDrainEmptiesList
<1> QED BY <1>1, <1>2, <1>3, <1>4, DisputesInitInv, PTL DEF DisputesSpec

(* No transaction is both waiting and posted, with disputes, too.            *)
THEOREM DisputesListedNotPosted == DisputesSpec => []ListedIsNotPosted
<1>1. DisputeInv => ListedIsNotPosted
  BY DEF DisputeInv, IInv, LedgerInv, ListedIsNotPosted
<1> QED BY <1>1, DisputesInitInv, DisputesKeepInv, PTL DEF DisputesSpec

(* The disputes' transactions reach the journal only by a settlement: what    *)
(* others post, and what waits to be posted, is of another kind.             *)
OfOthers(t) == t.id[1] \notin {"refund", "writeoff"}

QueuesOfOthers ==
  /\ \A i \in 1..Len(unposted) : OfOthers(unposted[i])
  /\ \A i \in 1..Len(drain) : OfOthers(drain[i])

LEMMA PostTellsApart ==
  ASSUME NEW t, NEW strict, NEW q \in Seq(Tx), Post(t, strict, q)
  PROVE  /\ \/ raised' = FALSE /\ posted' = posted \cup {t} /\ \A p \in posted : p.id # t.id
            \/ raised' = TRUE /\ posted' = posted
         /\ (\A i \in 1..Len(q) : OfOthers(q[i]))
              => \A i \in 1..Len(unposted') : OfOthers(unposted'[i])
<1>0. q \in Seq(Tx)
  OBVIOUS
<1>1. \A i \in 1..Len(Without(q, t)) : \E j \in 1..Len(q) : Without(q, t)[i] = q[j]
  <2>1. DrawnFrom(Without(q, t), q)
    BY ONLY <1>0, WithoutProperties
  <2> QED BY <2>1 DEF DrawnFrom
<1>2. unposted' = q \/ unposted' = Without(q, t)
  BY DEF Post
<1>3. \/ raised' = FALSE /\ posted' = posted \cup {t} /\ \A p \in posted : p.id # t.id
      \/ raised' = TRUE /\ posted' = posted
  <2>1. CASE Accepted(t, strict)
    <3>1. \A p \in posted : p.id # t.id
      BY <2>1 DEF Accepted, Validated
    <3> QED BY <2>1, <3>1, StoredNew DEF Post
  <2>2. CASE ~Accepted(t, strict)
    BY <2>2 DEF Post
  <2> QED BY <2>1, <2>2
<1> QED BY <1>1, <1>2, <1>3

(* What the journal gains by a step that settles no dispute.                 *)
OthersPost ==
  \/ posted' = posted
  \/ \E t : /\ OfOthers(t) /\ posted' = posted \cup {t}
            /\ \A p \in posted : p.id # t.id

LEMMA OthersPostTheirOwn ==
  ASSUME IInv, QueuesOfOthers, [Next]_vars
  PROVE  QueuesOfOthers' /\ OthersPost
<1> USE DEF QueuesOfOthers, OthersPost
<1>0. created \in Nat /\ unposted \in Seq(Tx) /\ drain \in Seq(Tx)
  BY LedgerAssumption DEF IInv, TypeOK
<1>1. ASSUME NEW t, NEW strict, OfOthers(t), Post(t, strict, unposted), drain' = drain
      PROVE  QueuesOfOthers' /\ OthersPost
  BY <1>0, <1>1, PostTellsApart
<1>2. ASSUME NEW t \in Manual PROVE OfOthers(Stamp(t))
  BY LedgerAssumption DEF OfOthers, Stamp, Tx
<1>3. ASSUME NEW n PROVE OfOthers(EquityTx(n))
  BY DEF OfOthers, EquityTx
<1>4. CASE InitializeChartOfAccounts
  BY <1>4 DEF InitializeChartOfAccounts
<1>5. ASSUME NEW t \in Manual, NEW strict \in BOOLEAN, PostTransaction(t, strict)
      PROVE  QueuesOfOthers' /\ OthersPost
  BY <1>1, <1>2, <1>5 DEF PostTransaction
<1>6. ASSUME NEW t \in Manual, ServicePost(t) PROVE QueuesOfOthers' /\ OthersPost
  <2>1. CASE Post(Stamp(t), TRUE, unposted)
    BY <1>1, <1>2, <1>6, <2>1 DEF ServicePost
  <2>2. CASE UNCHANGED <<balance, posted, unposted>>
    BY <1>6, <2>2 DEF ServicePost
  <2> QED BY <1>6, <2>1, <2>2, Zenon DEF ServicePost
<1>7. ASSUME NEW c \in Capital, InjectEquity(c) PROVE QueuesOfOthers' /\ OthersPost
  BY <1>1, <1>3, <1>7 DEF InjectEquity
<1>8. ASSUME NEW e \in Sales, HandleSaleOccurred(e) PROVE QueuesOfOthers' /\ OthersPost
  <2> DEFINE t == SaleTx(e)
             q == Append(unposted, t)
  <2>1. Post(t, TRUE, q) /\ drain' = drain
    BY <1>8 DEF HandleSaleOccurred
  <2>2. OfOthers(t) /\ t \in Tx
    BY <1>0, LedgerAssumption, SaleBalanced DEF OfOthers, SaleTx, Postable
  <2> HIDE DEF t
  <2>3. q \in Seq(Tx) /\ \A i \in 1..Len(q) : OfOthers(q[i])
    BY <1>0, <2>2
  <2> HIDE DEF q
  <2> QED BY <2>1, <2>2, <2>3, PostTellsApart
<1>9. ASSUME NEW e \in Adjustments, HandleInventoryAdjusted(e)
      PROVE  QueuesOfOthers' /\ OthersPost
  <2> DEFINE t == AdjustmentTx(e)
  <2>1. unposted' = Append(unposted, t) /\ UNCHANGED <<posted, drain>>
    BY <1>9 DEF HandleInventoryAdjusted
  <2>2. OfOthers(t) /\ t \in Tx
    BY <1>0, LedgerAssumption, AdjustmentBalanced DEF OfOthers, AdjustmentTx, Postable
  <2> HIDE DEF t
  <2> QED BY <1>0, <2>1, <2>2
<1>10. ASSUME NEW c \in Capital, Start(c) PROVE QueuesOfOthers' /\ OthersPost
  <2>1. CASE Post(EquityTx(c), TRUE, unposted)
    BY <1>1, <1>3, <1>10, <2>1 DEF Start
  <2>2. CASE UNCHANGED <<balance, posted, unposted>>
    BY <1>10, <2>2 DEF Start
  <2> QED BY <1>10, <2>1, <2>2, Zenon DEF Start
<1>11. CASE PostAllUnposted
  BY <1>11 DEF PostAllUnposted
<1>12. CASE DrainStep
  <2>1. /\ Post(Head(drain), TRUE, unposted) /\ drain # <<>>
        /\ (drain' = Tail(drain) \/ drain' = <<>>)
    BY <1>12 DEF DrainStep
  <2>2. OfOthers(Head(drain)) /\ \A i \in 1..Len(drain') : OfOthers(drain'[i])
    BY <1>0, <2>1
  <2> QED BY <1>0, <2>1, <2>2, PostTellsApart
<1>13. CASE UNCHANGED vars
  BY <1>13 DEF vars
<1> QED
  BY <1>4, <1>5, <1>6, <1>7, <1>8, <1>9, <1>10, <1>11, <1>12, <1>13 DEF Next, Handlers

LEMMA SettlementPosts ==
  ASSUME DisputeInv, QueuesOfOthers, NEW t, ServicePost(t)
  PROVE  /\ QueuesOfOthers'
         /\ \/ raised' = FALSE /\ posted' = posted \cup {Stamp(t)}
                 /\ \A p \in posted : p.id # Stamp(t).id
            \/ raised' = TRUE /\ posted' = posted
<1>1. unposted \in Seq(Tx) /\ drain' = drain
  BY DEF DisputeInv, IInv, TypeOK, ServicePost
<1>2. CASE Post(Stamp(t), TRUE, unposted)
  BY <1>1, <1>2, PostTellsApart DEF QueuesOfOthers
<1>3. CASE raised' = TRUE /\ UNCHANGED <<balance, posted, unposted>>
  BY <1>1, <1>3 DEF QueuesOfOthers
<1>4. IF PassesValidator(t) THEN Post(Stamp(t), TRUE, unposted)
      ELSE raised' = TRUE /\ UNCHANGED <<balance, posted, unposted>>
  BY DEF ServicePost
<1> QED BY <1>2, <1>3, <1>4

(* Records and journal stay in step: the invariant SettledOnce rests on.     *)
SettledInv == DisputeInv /\ QueuesOfOthers /\ SettledOnce

LEMMA SettledStep == SettledInv /\ [DisputesNext]_dvars => SettledInv'
<1> SUFFICES ASSUME SettledInv, [DisputesNext]_dvars PROVE SettledInv'
  OBVIOUS
<1>0. DisputeInv'
  BY DisputesKeepInv DEF SettledInv
<1>1. ASSUME [Next]_vars, UNCHANGED <<status, off>> PROVE SettledInv'
  <2>1. QueuesOfOthers' /\ OthersPost
    BY <1>1, OthersPostTheirOwn DEF SettledInv, DisputeInv
  <2>2. SettledOnce'
    <3>1. CASE posted' = posted
      BY <1>1, <3>1 DEF SettledInv, SettledOnce, Booked
    <3>2. ASSUME NEW t, OfOthers(t), posted' = posted \cup {t},
                 \A p \in posted : p.id # t.id
          PROVE  SettledOnce'
      <4>1. \A d \in DisputeId : t.id # <<"refund", d>> /\ t.id # <<"writeoff", d>>
        BY <3>2 DEF OfOthers
      <4> QED BY <1>1, <3>2, <4>1 DEF SettledInv, SettledOnce, Booked
    <3> QED BY <2>1, <3>1, <3>2 DEF OthersPost
  <2> QED BY <1>0, <2>1, <2>2 DEF SettledInv
<1>2. ASSUME NEW d \in DisputeId, NEW s \in {"open", "resolved_reject"},
             status[d] \in {"none", "open"},
             status' = [status EXCEPT ![d] = s], UNCHANGED <<vars, off>>
      PROVE  SettledInv'
  <2>1. QueuesOfOthers'
    BY <1>2 DEF vars, SettledInv, QueuesOfOthers
  <2>2. SettledOnce'
    BY <1>2 DEF vars, SettledInv, DisputeInv, RecordsTypeOK, SettledOnce, Booked
  <2> QED BY <1>0, <2>1, <2>2 DEF SettledInv
<1>3. ASSUME NEW d \in DisputeId, ResolveRefund(d) PROVE SettledInv'
  <2> DEFINE t == Stamp(RefundTx(d))
  <2>1. /\ QueuesOfOthers'
        /\ \/ raised' = FALSE /\ posted' = posted \cup {t} /\ \A p \in posted : p.id # t.id
           \/ raised' = TRUE /\ posted' = posted
    BY <1>3, SettlementPosts DEF ResolveRefund, SettledInv
  <2>2. t.id = <<"refund", d>>
    BY RefundPostable DEF SettledInv
  <2> HIDE DEF t
  <2>3. CASE raised' = TRUE /\ posted' = posted
    BY <1>0, <1>3, <2>1, <2>3 DEF ResolveRefund, SettledInv, SettledOnce, Booked
  <2>4. CASE raised' = FALSE /\ posted' = posted \cup {t} /\ \A p \in posted : p.id # t.id
    <3>1. /\ status' = [status EXCEPT ![d] = "resolved_refund"] /\ off' = off
          /\ status[d] = "open" /\ DOMAIN status = DisputeId
      BY <1>3, <2>4 DEF ResolveRefund, SettledInv, DisputeInv, RecordsTypeOK
    <3>2. ASSUME NEW e \in DisputeId
          PROVE  /\ Booked("refund", e)' <=> Booked("refund", e) \/ e = d
                 /\ Booked("writeoff", e)' <=> Booked("writeoff", e)
      BY <2>2, <2>4 DEF Booked
    <3>3. SettledOnce'
      <4>1. \A p, q \in posted' : p.id = q.id => p = q
        BY <2>4 DEF SettledInv, SettledOnce
      <4> QED BY <3>1, <3>2, <4>1 DEF SettledInv, SettledOnce
    <3> QED BY <1>0, <2>1, <3>3 DEF SettledInv
  <2> QED BY <2>1, <2>3, <2>4
<1>4. ASSUME NEW d \in DisputeId, NEW n \in Amounts, WriteOff(d, n) PROVE SettledInv'
  <2> DEFINE t == Stamp(WriteOffTx(d, n))
  <2>0. /\ status[d] = "open" /\ n \in Int /\ DOMAIN status = DisputeId
        /\ DOMAIN off = DisputeId
    BY <1>4, DisputeAssumption DEF WriteOff, SettledInv, DisputeInv, RecordsTypeOK
  <2>1. t.id = <<"writeoff", d>>
    BY <2>0, WriteOffPostable DEF SettledInv
  <2>2. CASE n = 0 /\ WrittenOff(d, n) /\ UNCHANGED vars
    <3>1. QueuesOfOthers'
      BY <2>2 DEF vars, SettledInv, QueuesOfOthers
    <3>2. SettledOnce'
      BY <2>0, <2>2 DEF vars, WrittenOff, SettledInv, SettledOnce, Booked
    <3> QED BY <1>0, <3>1, <3>2 DEF SettledInv
  <2>3. CASE /\ n # 0 /\ ServicePost(WriteOffTx(d, n))
             /\ IF raised' THEN UNCHANGED <<status, off>> ELSE WrittenOff(d, n)
    <3>1. /\ QueuesOfOthers'
          /\ \/ raised' = FALSE /\ posted' = posted \cup {t} /\ \A p \in posted : p.id # t.id
             \/ raised' = TRUE /\ posted' = posted
      BY <2>3, SettlementPosts DEF SettledInv
    <3> HIDE DEF t
    <3>2. CASE raised' = TRUE /\ posted' = posted
      BY <1>0, <2>3, <3>1, <3>2 DEF SettledInv, SettledOnce, Booked
    <3>3. CASE raised' = FALSE /\ posted' = posted \cup {t} /\ \A p \in posted : p.id # t.id
      <4>1. /\ status' = [status EXCEPT ![d] = "written_off"]
            /\ off' = [off EXCEPT ![d] = n]
        BY <2>3, <3>3 DEF WrittenOff
      <4>2. ASSUME NEW e \in DisputeId
            PROVE  /\ Booked("writeoff", e)' <=> Booked("writeoff", e) \/ e = d
                   /\ Booked("refund", e)' <=> Booked("refund", e)
        BY <2>1, <3>3 DEF Booked
      <4>3. \A p, q \in posted' : p.id = q.id => p = q
        BY <3>3 DEF SettledInv, SettledOnce
      <4>4. SettledOnce'
        BY <2>0, <2>3, <4>1, <4>2, <4>3 DEF SettledInv, SettledOnce
      <4> QED BY <1>0, <3>1, <4>4 DEF SettledInv
    <3> QED BY <3>1, <3>2, <3>3
  <2> QED BY <1>4, <2>2, <2>3 DEF WriteOff
<1>5. ASSUME NEW d \in DisputeId, NEW c \in Claims, CreateDispute(d, c) PROVE SettledInv'
  BY <1>2, <1>5 DEF CreateDispute
<1>6. ASSUME NEW d \in DisputeId, ResolveReject(d) PROVE SettledInv'
  BY <1>2, <1>6 DEF ResolveReject
<1>7. CASE UNCHANGED dvars
  BY <1>1, <1>7 DEF dvars, records
<1>8. CASE Next /\ UNCHANGED records
  BY <1>1, <1>8 DEF records
<1> QED BY <1>3, <1>4, <1>5, <1>6, <1>7, <1>8 DEF DisputesNext, DisputesStep

(* A dispute is settled in the journal exactly as its record says, and once, *)
(* for any number of disputes, claims and amounts, and whatever the service  *)
(* refused in between (resolve_refund, write_off).                           *)
THEOREM DisputesSettleOnce == DisputesSpec => []SettledOnce
<1>1. DisputesInit => SettledInv
  BY DisputesInitInv DEF DisputesInit, Init, SettledInv, QueuesOfOthers, SettledOnce, Booked
<1>2. SettledInv => SettledOnce
  BY DEF SettledInv
<1> QED BY <1>1, <1>2, SettledStep, PTL DEF DisputesSpec
=============================================================================
