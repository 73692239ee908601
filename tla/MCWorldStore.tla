---- MODULE MCWorldStore ----
(* Small instances of the two machines of the store, WorldStore and         *)
(* WorldSnapshots: a behaviour is one of either, the other half stays as it *)
(* began.                                                                   *)
(*                                                                          *)
(* WorldStore: from 4 a command may reach 6 and from there 9, but not 9     *)
(* from 4 in one tick; 1 and 13 lie outside the thresholds.                 *)
(* WorldSnapshots: what is loaded may differ from what is live in the       *)
(* products, in their stock and in their metadata.                          *)
EXTENDS WorldStore, WorldSnapshots, TLC
CONSTANTS b1, b2
MCSymmetry == Permutations({b1, b2})
MCPrices == {1, 4, 6, 9, 13}
MCLooks == {11, 12}

VARIABLE half

allVars == <<half, vars, snapshotVars>>

MCInit ==
  /\ Init /\ SnapshotInit
  /\ half \in {"arbitration", "persistence"}
  /\ half = "arbitration" => backend = "memory"

MCNext ==
  \/ half = "arbitration" /\ Next /\ UNCHANGED <<half, snapshotVars>>
  \/ half = "persistence" /\ SnapshotNext /\ UNCHANGED <<half, vars>>

MCSpec == MCInit /\ [][MCNext]_allVars
=============================================================================
