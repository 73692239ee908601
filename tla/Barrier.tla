------------------------------ MODULE Barrier ------------------------------
(***************************************************************************)
(* What DistributedCoordinator promises its workers: rounds that are over  *)
(* when everybody who is a member then has arrived, late joiners included. *)
(* Members may leave, for whatever reason, and what those who left did     *)
(* holds nobody up and stands in for nobody.                               *)
(***************************************************************************)
EXTENDS Naturals

CONSTANT Member

VARIABLES members, \* who takes part
          arrived, \* who has arrived in this round, members or not
          round

barrier == <<members, arrived, round>>

Init == members = {} /\ arrived = {} /\ round = 0

Join(m) ==
  /\ m \notin members
  /\ members' = members \cup {m}
  /\ UNCHANGED <<arrived, round>>

Leave(gone) ==
  /\ members' = members \ gone
  /\ UNCHANGED <<arrived, round>>

Arrive(m) ==
  /\ arrived' = arrived \cup {m}
  /\ UNCHANGED <<members, round>>

\* The new round begins with nobody arrived.
Advance ==
  /\ members # {} /\ members \subseteq arrived
  /\ round' = round + 1 /\ arrived' = {}
  /\ UNCHANGED members

Next ==
  \/ \E m \in Member : Join(m) \/ Arrive(m)
  \/ \E gone \in SUBSET Member : Leave(gone)
  \/ Advance

Spec == Init /\ [][Next]_barrier
=============================================================================
