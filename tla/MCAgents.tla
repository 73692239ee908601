------------------------------- MODULE MCAgents -------------------------------
(* What agents may use and when they are asked are two machines: a behaviour *)
(* of an instance is one of Budget or one of AgentManager, the other half    *)
(* stays as it began.                                                        *)
(*                                                                           *)
(* Budget: a prompt of 1 and a response of 1 or 2 tokens at two tokens a     *)
(* cent: one call costs one cent, and the limits are met, missed by one and  *)
(* passed by one.  AgentManager: one id, asked by the handlers of four ticks *)
(* so that a tick two handlers asked about is remembered by a third, and     *)
(* registered a second time, if at all, before the last of them.             *)
EXTENDS Budget, AgentManager

None == [m \in Metrics |-> {}]
MCLimits ==
  [acc \in Accounts |->
     IF acc = Overall
     THEN [tick |-> [None EXCEPT !.tokens = {3}], run |-> [None EXCEPT !.tokens = {5}, !.cost = {2}]]
     ELSE [tick |-> [None EXCEPT !.calls = {1}], run |-> [None EXCEPT !.tokens = {4}, !.cost = {1}]]]

VARIABLE half

allVars == <<half, vars, meteringVars>>

BeforeTheLast == gens > 0 /\ gens' > gens => tick < MaxTick

MCInit == half \in {"metering", "deciding"} /\ MeteringInit /\ Init

MCNext ==
  \/ half = "metering" /\ MeteringNext /\ UNCHANGED <<half, vars>>
  \/ half = "deciding" /\ Next /\ BeforeTheLast /\ UNCHANGED <<half, meteringVars>>

MCSpec == MCInit /\ [][MCNext]_allVars /\ MeteringFairness
=============================================================================
