------------------------------ MODULE Disputes ------------------------------
(***************************************************************************)
(* DisputeService on top of the ledger: a dispute is opened, and settled   *)
(* by a refund, a rejection or a write-off.  A settlement checks the       *)
(* record, posts and only then writes the record; the posting may raise,   *)
(* and leaves the dispute open for another attempt.  posting does not      *)
(* suspend (see Ledger), so a call is one step.                            *)
(***************************************************************************)
EXTENDS Ledger

CONSTANTS DisputeId, \* ids create_dispute may give
          Claims,    \* units at price and at cost, and whether they come back
          Amounts    \* amounts of write-offs

Claim == [refund : Int, cogs : Int, returned : BOOLEAN]

ASSUME DisputeAssumption ==
  DisputeId \subseteq EventId /\ Claims \subseteq Claim /\ Amounts \subseteq Int

VARIABLES status,  \* the status of each record; "none" while there is none
          claim,   \* what the record was created with
          off      \* history: the amount it was written off with

records == <<status, claim, off>>
dvars == <<vars, records>>

NoClaim == [refund |-> 0, cogs |-> 0, returned |-> FALSE]

DisputesInit ==
  /\ Init
  /\ status = [d \in DisputeId |-> "none"]
  /\ claim = [d \in DisputeId |-> NoClaim]
  /\ off = [d \in DisputeId |-> 0]

CreateDispute(d, c) ==
  /\ Idle /\ status[d] = "none"
  /\ status' = [status EXCEPT ![d] = "open"]
  /\ claim' = [claim EXCEPT ![d] = c]
  /\ UNCHANGED <<vars, off>>

-----------------------------------------------------------------------------
\* Revenue taken back against cash; and, if the units return to stock, their
\* cost moved from expense to inventory.
RefundTx(d) ==
  LET c     == claim[d]
      goods == IF c.returned THEN c.cogs ELSE 0
  IN  [id |-> <<"refund", d>>, at |-> 0,
       dr |-> On([sales_revenue |-> c.refund, inventory |-> goods]),
       cr |-> On([cash |-> c.refund, cost_of_goods_sold |-> goods]),
       neg |-> c.refund < 0 \/ goods < 0, nonpos |-> c.refund <= 0 \/ goods < 0,
       named |-> {"sales_revenue", "cash"}
                   \cup (IF goods = 0 THEN {} ELSE {"inventory", "cost_of_goods_sold"})]

WriteOffTx(d, amount) ==
  [id |-> <<"writeoff", d>>, at |-> 0,
   dr |-> On([sales_revenue |-> amount]), cr |-> On([other_expenses |-> amount]),
   neg |-> amount < 0, nonpos |-> amount <= 0,
   named |-> {"sales_revenue", "other_expenses"}]

(* Variants named ...Bug are the mistakes the properties are there to      *)
(* catch; no specification uses them.                                      *)
ResolveRefundBug(d) ==   \* the record is written first
  /\ status[d] = "open"
  /\ ServicePost(RefundTx(d))
  /\ status' = [status EXCEPT ![d] = "resolved_refund"]
  /\ UNCHANGED <<claim, off>>
\* resolve_refund: what the ledger raises leaves the record as it is.
ResolveRefund(d) ==
  /\ status[d] = "open"
  /\ ServicePost(RefundTx(d))
  /\ status' = IF raised' THEN status ELSE [status EXCEPT ![d] = "resolved_refund"]
  /\ UNCHANGED <<claim, off>>

ResolveReject(d) ==
  /\ Idle /\ status[d] = "open"
  /\ status' = [status EXCEPT ![d] = "resolved_reject"]
  /\ UNCHANGED <<vars, claim, off>>

WrittenOff(d, amount) ==
  /\ status' = [status EXCEPT ![d] = "written_off"]
  /\ off' = [off EXCEPT ![d] = amount]

\* write_off: nothing is posted for an amount of zero.
WriteOff(d, amount) ==
  /\ status[d] = "open" /\ UNCHANGED claim
  /\ \/ /\ amount = 0 /\ Idle
        /\ WrittenOff(d, amount) /\ UNCHANGED vars
     \/ /\ amount # 0
        /\ ServicePost(WriteOffTx(d, amount))
        /\ IF raised' THEN UNCHANGED <<status, off>> ELSE WrittenOff(d, amount)

DisputesStep ==
  \E d \in DisputeId :
    \/ \E c \in Claims : CreateDispute(d, c)
    \/ ResolveRefund(d)
    \/ ResolveReject(d)
    \/ \E amount \in Amounts : WriteOff(d, amount)

\* The ledger goes on serving sales, adjustments and other callers.
DisputesNext == (Next /\ UNCHANGED records) \/ DisputesStep

DisputesSpec == DisputesInit /\ [][DisputesNext]_dvars

-----------------------------------------------------------------------------
\* The type of every variable.
RecordsTypeOK ==
  /\ status \in [DisputeId -> {"none", "open", "resolved_refund", "resolved_reject",
                               "written_off"}]
  /\ claim \in [DisputeId -> Claims \cup {NoClaim}]
  /\ off \in [DisputeId -> Int]

Booked(kind, d) == \E p \in posted : p.id = <<kind, d>>

\* Records and journal agree, whatever was refused and tried again: a dispute
\* is refunded in the journal exactly when its record says so, written off
\* exactly when the record does with some amount, and never both; and what it
\* was settled with is booked once (resolve_refund, write_off).
SettledOnce ==
  /\ \A d \in DisputeId :
       /\ Booked("refund", d) <=> status[d] = "resolved_refund"
       /\ Booked("writeoff", d) <=> status[d] = "written_off" /\ off[d] # 0
  /\ \A p, q \in posted : p.id = q.id => p = q
=============================================================================
