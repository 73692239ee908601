--------------------------- MODULE MCAgentTimeouts ---------------------------
(* AgentManager with the length of the present row of timeouts of every      *)
(* registration's runner: a timeout makes it longer, an answer ends it.      *)
EXTENDS AgentManager

VARIABLE streak

RowInit == Init /\ streak = [g \in Gens |-> 0]

RowNext ==
  /\ Next
  /\ streak' = [g \in Gens |->
       IF \E n \in Ticks, a \in Agent : TimesOut(n, a, g) THEN streak[g] + 1
       ELSE IF \E n \in Ticks, a \in Agent, calls \in Entries : Acts(n, a, g, calls) THEN 0
       ELSE streak[g]]

RowSpec == RowInit /\ [][RowNext]_<<vars, streak>>

\* A timeout makes the registration it is charged to inactive only after as many
\* timeouts of its runner in a row as the policy says (mark_agent_timeout).
ConsecutiveTimeouts ==
  [][\A n \in Ticks, a \in Agent, g \in Gens :
       TimesOut(n, a, g) /\ registry[a].active /\ ~registry'[a].active
         => streak'[registry[a].gen] >= Limit]_<<vars, streak>>
=============================================================================
