------------------------------ MODULE MCLedger ------------------------------
(* A small ledger: two event identities, a profitable and a loss-making sale, *)
(* adjustments both ways, and callers' transactions that are good, unbalanced, *)
(* negative, or name an account outside the chart.                             *)
EXTENDS Disputes

CONSTANTS e1, e2

ManualTx(id, dr, cr, neg, extra) ==
  [id |-> <<"manual", id>>, at |-> 0, dr |-> On(dr), cr |-> On(cr), neg |-> neg,
   nonpos |-> neg, named |-> DOMAIN dr \cup DOMAIN cr \cup extra]

MCManual ==
  { ManualTx(e1, [inventory |-> 3], [cash |-> 1, accounts_payable |-> 2], FALSE, {}),
    ManualTx(e2, [inventory |-> 3], [cash |-> 1], FALSE, {}),
    ManualTx(e2, [cash |-> -1], [sales_revenue |-> -1], TRUE, {}),
    ManualTx(e2, [cash |-> 1], [sales_revenue |-> 1], FALSE, {Unlisted}) }

FeesOf(kind, n, m) ==
  [k \in FeeKind |-> IF k = kind THEN n ELSE IF k = "unmapped" THEN m ELSE 0]

MCSales ==
  { [id |-> e1, revenue |-> 9, fees |-> 4, cost |-> 2, breakdown |-> FeesOf("referral", 1, 2)],
    [id |-> e1, revenue |-> 5, fees |-> 2, cost |-> 1, breakdown |-> FeesOf("fba", 2, 0)],
    [id |-> e2, revenue |-> 3, fees |-> 4, cost |-> 2, breakdown |-> FeesOf("storage", 0, 0)] }

(* What the market publishes for one and for two units of the same product. *)
MCMarketSales ==
  { MarketSale(e1, n, 10, [referral |-> 2, fba |-> 3, rest |-> 1], 1) : n \in 0..2 }

MCAdjustments ==
  { [id |-> e1, type |-> "write_up", cost |-> 2],
    [id |-> e2, type |-> "write_down", cost |-> 1],
    [id |-> e2, type |-> "other", cost |-> 1] }

MCCapital == {0, 5}
MCNone == {}

(* A dispute whose units come back, and one that asks for nothing.           *)
MCClaims == { [refund |-> 4, cogs |-> 1, returned |-> TRUE],
              [refund |-> 0, cogs |-> 1, returned |-> FALSE] }
MCAmounts == {0, 2}
=============================================================================
