----------------------------- MODULE AgentProofs -----------------------------
(***************************************************************************)
(* What is proved of the agents: of Budget, type correctness, the bound on *)
(* what an agent can use beyond a limit and that its account is the sum of *)
(* its tools', for any agents, tools, limits and sizes of calls.           *)
(*                                                                         *)
(* Of AgentManager, for any number of agents, ticks and registrations:     *)
(* agents are asked about the days in order, and are given to remember of  *)
(* a day the last they did then.  The first rests on ticks coming in order *)
(* and no handler having asked about one that has not come (Order), the    *)
(* second on the tables holding the last answers within the retention      *)
(* window (Tables).                                                        *)
(***************************************************************************)
EXTENDS Budget, AgentManager, Sums

-----------------------------------------------------------------------------
(* Budget. *)

\* The slots of the calls of a that will be charged to an account.
Flying(a, acc) ==
  {i \in 1..Slots : \E r \in inflight[a] : r.slot = i /\ acc \in {r.tool, Overall}}

\* No two calls of an agent share a slot.
SlotsDiffer == \A a \in Agents : \A r, s \in inflight[a] : r.slot = s.slot => r = s

\* Each call in flight has the room to be as large as a call can be.
RoomForFlying ==
  \A a \in Gated, acc \in Accounts, w \in Windows :
    \A m \in Looked(acc) : \A lim \in Limits[acc][w][m] :
      used[a][acc][w][m] + Cardinality(Flying(a, acc)) * Most[m]
        <= lim + Slots * Most[m] - Least[m]

\* A direct agent passes a limit once, by one call, and then no more.
DirectStops ==
  \A a \in Direct, acc \in Accounts, w \in Windows, m \in Metrics :
    \A lim \in Limits[acc][w][m] :
      /\ a \notin halted => used[a][acc][w][m] <= lim
      /\ used[a][acc][w][m] <= lim + Most[m]

MeteringInv == MeteringTypeOK /\ SlotsDiffer /\ RoomForFlying /\ DirectStops

-----------------------------------------------------------------------------
(* Arithmetic. *)

LEMMA DivMonotone == ASSUME NEW x \in Nat, NEW y \in Nat, NEW k \in Nat \ {0}, x <= y
                     PROVE  x \div k <= y \div k /\ x \div k \in Nat
<1> DEFINE p == x \div k
           q == y \div k
<1>1. p \in Int /\ q \in Int /\ p >= 0
  OBVIOUS
<1>2. k * p <= x /\ y < k * q + k
  OBVIOUS
<1>3. ASSUME p >= q + 1 PROVE FALSE
  <2> HIDE DEF p, q
  <2>1. k * p >= k * (q + 1)
    BY <1>1, <1>3
  <2>2. k * (q + 1) = k * q + k
    BY <1>1
  <2> QED BY <1>1, <1>2, <2>1, <2>2
<1> QED BY <1>1, <1>3

\* A call costs between nothing and the most a call can cost, in each metric.
LEMMA ChargeBounded == ASSUME BudgetAssumption, NEW n \in 0..MostTokens, NEW m \in Metrics
                       PROVE  Charge(n)[m] \in Nat /\ Most[m] \in Nat /\ Charge(n)[m] <= Most[m]
<1>1. n \in Nat /\ MostTokens \in Nat /\ n <= MostTokens /\ TokensPerCent \in Nat \ {0}
  BY DEF MostTokens, BudgetAssumption
<1>2. CostOf(n) <= CostOf(MostTokens) /\ CostOf(n) \in Nat /\ CostOf(MostTokens) \in Nat
  BY <1>1, DivMonotone DEF CostOf
<1> QED BY <1>1, <1>2 DEF Charge, Most, Metrics

LEMMA LeastBounded == ASSUME BudgetAssumption, NEW m \in Metrics
                      PROVE  /\ Most[m] \in Nat /\ Least[m] \in Nat /\ Least[m] <= Most[m]
                             /\ Slots * Most[m] \in Nat /\ Most[m] <= Slots * Most[m]
<1>1. 0 \in 0..MostTokens
  BY DEF MostTokens, BudgetAssumption
<1>2. Most[m] \in Nat
  BY <1>1, ChargeBounded
<1>3. Least[m] \in Nat /\ Least[m] <= Most[m]
  BY <1>2 DEF BudgetAssumption, Least, Most, MostTokens, Metrics
<1>4. Slots \in Nat /\ Slots >= 1
  BY DEF BudgetAssumption
<1>5. Slots * Most[m] \in Nat /\ Most[m] <= Slots * Most[m]
  BY <1>2, <1>4
<1> QED BY <1>2, <1>3, <1>5

-----------------------------------------------------------------------------
(* What the operations do to one counter. *)

Used == [Agents -> [Accounts -> [Windows -> [Metrics -> Nat]]]]

LEMMA CountersAfterUpdate ==
  ASSUME BudgetAssumption, used \in Used, NEW a \in Agents, NEW t \in Tools,
         NEW n \in 0..MostTokens, UpdateCounters(a, t, n)
  PROVE  /\ used' \in Used
         /\ \A b \in Agents, acc \in Accounts, w \in Windows, m \in Metrics :
              used'[b][acc][w][m] = used[b][acc][w][m]
                + IF b = a /\ acc \in {t, Overall} THEN Charge(n)[m] ELSE 0
<1>1. \A m \in Metrics : Charge(n)[m] \in Nat
  BY ChargeBounded
<1> DEFINE new == [acc \in Accounts |-> [w \in Windows |-> [m \in Metrics |->
      used[a][acc][w][m] + IF acc \in {t, Overall} THEN Charge(n)[m] ELSE 0]]]
<1>2. used' = [used EXCEPT ![a] = new]
  BY DEF UpdateCounters
<1>3. \A acc \in Accounts, w \in Windows, m \in Metrics :
        used[a][acc][w][m] \in Nat
  BY DEF Used
<1>4. new \in [Accounts -> [Windows -> [Metrics -> Nat]]]
  BY <1>1, <1>3
<1>5. \A acc \in Accounts, w \in Windows, m \in Metrics :
        new[acc][w][m] = used[a][acc][w][m]
          + IF acc \in {t, Overall} THEN Charge(n)[m] ELSE 0
  OBVIOUS
<1> HIDE DEF new
<1>6. used' \in Used
  BY <1>2, <1>4 DEF Used
<1>7. used'[a] = new /\ \A b \in Agents : b # a => used'[b] = used[b]
  BY <1>2 DEF Used
<1>8. ASSUME NEW b \in Agents, NEW acc \in Accounts, NEW w \in Windows, NEW m \in Metrics
      PROVE  used'[b][acc][w][m] = used[b][acc][w][m]
               + IF b = a /\ acc \in {t, Overall} THEN Charge(n)[m] ELSE 0
  <2>1. CASE b = a
    BY <1>5, <1>7, <2>1
  <2>2. CASE b # a
    <3>1. used[b][acc][w][m] \in Nat
      BY DEF Used
    <3> QED BY <1>7, <2>2, <3>1
  <2> QED BY <2>1, <2>2
<1> QED BY <1>6, <1>8

\* A reset puts counters to zero or leaves them.
LEMMA CountersAfterReset ==
  ASSUME used \in Used, NEW a \in Agents, NEW window \in Windows
  PROVE  /\ Reset(a, window) \in [Accounts -> [Windows -> [Metrics -> Nat]]]
         /\ \A acc \in Accounts, w \in Windows, m \in Metrics :
              Reset(a, window)[acc][w][m] \in {0, used[a][acc][w][m]}
<1>1. ASSUME NEW acc \in Accounts
      PROVE  /\ Reset(a, window)[acc] = [used[a][acc] EXCEPT ![window] = [m \in Metrics |-> 0]]
             /\ used[a][acc] \in [Windows -> [Metrics -> Nat]]
  BY DEF Reset, Zero, Used
<1>2. \A acc \in Accounts : Reset(a, window)[acc] \in [Windows -> [Metrics -> Nat]]
  <2> SUFFICES ASSUME NEW acc \in Accounts
               PROVE  Reset(a, window)[acc] \in [Windows -> [Metrics -> Nat]]
    OBVIOUS
  <2>1. [m \in Metrics |-> 0] \in [Metrics -> Nat]
    OBVIOUS
  <2> QED BY <1>1, <2>1
<1>3. ASSUME NEW acc \in Accounts, NEW w \in Windows, NEW m \in Metrics
      PROVE  Reset(a, window)[acc][w][m] \in {0, used[a][acc][w][m]}
  <2>1. CASE w = window
    <3>1. Reset(a, window)[acc][w] = [k \in Metrics |-> 0]
      BY <1>1, <2>1
    <3> QED BY <3>1
  <2>2. CASE w # window
    <3>1. Reset(a, window)[acc][w] = used[a][acc][w]
      BY <1>1, <2>2
    <3> QED BY <3>1
  <2> QED BY <2>1, <2>2
<1>4. Reset(a, window) \in [Accounts -> [Windows -> [Metrics -> Nat]]]
  BY <1>2 DEF Reset
<1> QED BY <1>3, <1>4

\* Steps that change no counter but to put it to zero.
NoCharge ==
  /\ used' \in Used
  /\ \A a \in Agents, acc \in Accounts, w \in Windows, m \in Metrics :
       used'[a][acc][w][m] \in {0, used[a][acc][w][m]}

LEMMA ResetsCharge0 == ASSUME used \in Used, Tick \/ \E S \in SUBSET Agents : ResetRun(S)
                       PROVE  NoCharge
<1>1. CASE Tick
  <2>1. used' = [a \in Agents |-> Reset(a, "tick")]
    BY <1>1 DEF Tick, ResetTick
  <2>2. \A a \in Agents : used'[a] = Reset(a, "tick")
    BY <2>1
  <2>3. "tick" \in Windows
    BY DEF Windows
  <2>4. used' \in Used
    <3>1. \A a \in Agents : Reset(a, "tick") \in [Accounts -> [Windows -> [Metrics -> Nat]]]
      BY <2>3, CountersAfterReset
    <3> QED BY <2>1, <3>1 DEF Used
  <2>5. \A a \in Agents, acc \in Accounts, w \in Windows, m \in Metrics :
          Reset(a, "tick")[acc][w][m] \in {0, used[a][acc][w][m]}
    BY <2>3, CountersAfterReset
  <2> QED BY <2>2, <2>4, <2>5 DEF NoCharge
<1>2. ASSUME NEW S \in SUBSET Agents, ResetRun(S) PROVE NoCharge
  <2>1. used' = [a \in Agents |-> IF a \in S THEN Reset(a, "run") ELSE used[a]]
    BY <1>2 DEF ResetRun
  <2>2. \A a \in Agents : used'[a] = Reset(a, "run") \/ used'[a] = used[a]
    BY <2>1
  <2>3. "run" \in Windows
    BY DEF Windows
  <2>4. used' \in Used
    <3>1. \A a \in Agents : Reset(a, "run") \in [Accounts -> [Windows -> [Metrics -> Nat]]]
      BY <2>3, CountersAfterReset
    <3> QED BY <2>1, <3>1 DEF Used
  <2>5. \A a \in Agents, acc \in Accounts, w \in Windows, m \in Metrics :
          Reset(a, "run")[acc][w][m] \in {0, used[a][acc][w][m]}
    BY <2>3, CountersAfterReset
  <2> SUFFICES ASSUME NEW a \in Agents, NEW acc \in Accounts, NEW w \in Windows, NEW m \in Metrics
               PROVE  used'[a][acc][w][m] \in {0, used[a][acc][w][m]}
    BY <2>4 DEF NoCharge
  <2> QED BY <2>2, <2>5
<1> QED BY <1>1, <1>2

\* The number of calls in flight is one the slots allow.
LEMMA FlyingCount ==
  ASSUME BudgetAssumption, NEW S, S \subseteq 1..Slots
  PROVE  IsFiniteSet(S) /\ Cardinality(S) \in 0..Slots
<1>1. Slots \in Nat
  BY DEF BudgetAssumption
<1>2. IsFiniteSet(1..Slots) /\ Cardinality(1..Slots) = Slots
  BY <1>1, FS_Interval
<1>3. IsFiniteSet(S) /\ Cardinality(S) <= Slots
  <2> DEFINE I == 1..Slots
  <2>1. IsFiniteSet(I) /\ S \in SUBSET I /\ Cardinality(I) = Slots
    BY <1>2
  <2> HIDE DEF I
  <2>2. IsFiniteSet(S) /\ Cardinality(S) <= Cardinality(I)
    BY <2>1, FS_Subset
  <2> QED BY <2>1, <2>2
<1>4. Cardinality(S) \in Nat
  BY <1>3, FS_CardinalityType
<1> QED BY <1>1, <1>3, <1>4

LEMMA FlyingTyped ==
  ASSUME BudgetAssumption, NEW a \in Agents, NEW acc \in Accounts
  PROVE  /\ IsFiniteSet(Flying(a, acc)) /\ Cardinality(Flying(a, acc)) \in 0..Slots
         /\ IsFiniteSet(Flying(a, acc)') /\ Cardinality(Flying(a, acc)') \in 0..Slots
<1>1. Flying(a, acc) \subseteq 1..Slots /\ Flying(a, acc)' \subseteq 1..Slots
  BY DEF Flying
<1> HIDE DEF Flying
<1> QED BY <1>1, FlyingCount

LEMMA Multiples ==
  ASSUME NEW k \in Nat, NEW K \in Nat, NEW M \in Nat, k <= K
  PROVE  k * M \in Nat /\ k * M <= K * M /\ (k + 1) * M = k * M + M
<1>1. (K - k) * M >= 0 /\ (K - k) * M = K * M - k * M
  OBVIOUS
<1> QED BY <1>1

\* The types of the parts of RoomForFlying and DirectStops.
LEMMA PartsTyped ==
  ASSUME BudgetAssumption, NEW acc \in Accounts, NEW w \in Windows, NEW m \in Metrics,
         NEW lim \in Limits[acc][w][m]
  PROVE  lim \in Nat
<1>1. Limits \in [Accounts -> [Windows -> [Metrics -> SUBSET Nat]]]
  BY DEF BudgetAssumption
<1>2. Limits[acc][w][m] \in SUBSET Nat
  BY <1>1
<1> QED BY <1>2

LEMMA LookedMetric == ASSUME NEW acc, NEW m \in Looked(acc) PROVE m \in Metrics
BY DEF Looked, Metrics

-----------------------------------------------------------------------------
(* The steps. *)

LEMMA InitEstablishes == ASSUME BudgetAssumption, MeteringInit PROVE MeteringInv
<1>1. \A a \in Agents : inflight[a] = {}
  BY DEF MeteringInit
<1>2. \A a \in Agents, acc \in Accounts, w \in Windows, m \in Metrics : used[a][acc][w][m] = 0
  BY DEF MeteringInit, Zero
<1>3. MeteringTypeOK
  BY DEF MeteringInit, Zero, MeteringTypeOK
<1>4. SlotsDiffer
  BY <1>1 DEF SlotsDiffer
<1>5. RoomForFlying
  <2> SUFFICES ASSUME NEW a \in Gated, NEW acc \in Accounts, NEW w \in Windows,
                      NEW m \in Looked(acc), NEW lim \in Limits[acc][w][m]
               PROVE  used[a][acc][w][m] + Cardinality(Flying(a, acc)) * Most[m]
                        <= lim + Slots * Most[m] - Least[m]
    BY DEF RoomForFlying
  <2>1. m \in Metrics /\ a \in Agents
    BY LookedMetric DEF Agents
  <2>2. lim \in Nat
    BY <2>1, PartsTyped
  <2>3. Flying(a, acc) = {}
    BY <1>1, <2>1 DEF Flying
  <2>4. Cardinality(Flying(a, acc)) = 0
    BY <2>3, FS_EmptySet
  <2>5. /\ Most[m] \in Nat /\ Least[m] \in Nat /\ Least[m] <= Most[m]
        /\ Slots * Most[m] \in Nat /\ Most[m] <= Slots * Most[m]
    BY <2>1, LeastBounded
  <2>6. 0 * Most[m] = 0
    BY <2>5
  <2> QED BY <1>2, <2>1, <2>2, <2>4, <2>5, <2>6
<1>6. DirectStops
  <2> SUFFICES ASSUME NEW a \in Direct, NEW acc \in Accounts, NEW w \in Windows,
                      NEW m \in Metrics, NEW lim \in Limits[acc][w][m]
               PROVE  used[a][acc][w][m] <= lim /\ used[a][acc][w][m] <= lim + Most[m]
    BY DEF DirectStops
  <2>1. lim \in Nat /\ Most[m] \in Nat
    BY PartsTyped, LeastBounded
  <2> QED BY <1>2, <2>1 DEF Agents
<1> QED BY <1>3, <1>4, <1>5, <1>6 DEF MeteringInv

\* What can_afford checks leaves room for the least a call uses.
LEMMA AdmissionLeavesRoom ==
  ASSUME BudgetAssumption, MeteringTypeOK, NEW a \in Gated, NEW t \in Tools, NEW prompt \in Prompts,
         CanAfford(a, t, prompt), NEW acc \in {t, Overall}, NEW w \in Windows,
         NEW m \in Looked(acc), NEW lim \in Limits[acc][w][m]
  PROVE  used[a][acc][w][m] + Least[m] <= lim
<1>1. a \in Agents /\ acc \in Accounts /\ m \in Metrics /\ t # Overall
  BY LookedMetric DEF Agents, Accounts, BudgetAssumption
<1>2. lim \in Nat
  BY <1>1, PartsTyped
<1>3. used[a][acc][w][m] \in Nat
  BY <1>1 DEF MeteringTypeOK
<1>4. prompt \in Nat /\ LeastPrompt \in Nat /\ LeastPrompt <= prompt
  BY DEF BudgetAssumption
<1>5. CASE acc = Overall /\ m = "tokens"
  <2>1. used[a][acc][w][m] + prompt <= lim
    BY <1>5 DEF CanAfford, Fits
  <2> QED BY <1>2, <1>3, <1>4, <1>5, <2>1 DEF Least
<1>6. CASE acc = Overall /\ m = "cost"
  <2>1. used[a][acc][w][m] + 0 <= lim
    BY <1>6 DEF CanAfford, Fits
  <2> QED BY <1>2, <1>3, <1>6, <2>1 DEF Least
<1>7. CASE acc = t /\ m = "calls"
  <2>1. used[a][acc][w][m] + 1 <= lim
    BY <1>7 DEF CanAfford, Fits
  <2> QED BY <1>2, <1>3, <1>7, <2>1 DEF Least
<1>8. CASE acc = t /\ m = "tokens"
  <2>1. used[a][acc][w][m] + prompt <= lim
    BY <1>8 DEF CanAfford, Fits
  <2> QED BY <1>2, <1>3, <1>4, <1>8, <2>1 DEF Least
<1> QED BY <1>1, <1>5, <1>6, <1>7, <1>8 DEF Looked

LEMMA StepPreprocess ==
  ASSUME BudgetAssumption, MeteringInv, NEW a \in Gated, NEW t \in Tools, NEW prompt \in Prompts,
         PreprocessRequest(a, t, prompt)
  PROVE  MeteringInv'
<1>1. MeteringTypeOK /\ SlotsDiffer /\ RoomForFlying /\ DirectStops /\ a \in Agents
  BY DEF MeteringInv, Agents
<1>2. PICK slot \in (1..Slots) \ {r.slot : r \in inflight[a]} :
        inflight' = [inflight EXCEPT ![a] = @ \cup {[slot |-> slot, tool |-> t, prompt |-> prompt]}]
  BY DEF PreprocessRequest
<1> DEFINE new == [slot |-> slot, tool |-> t, prompt |-> prompt]
<1>3. new \in Calls /\ new.slot = slot /\ new.tool = t /\ slot \in 1..Slots
  BY <1>2 DEF Calls
<1>4. \A r \in inflight[a] : r.slot # slot
  BY <1>2
<1>5. inflight \in [Agents -> SUBSET Calls]
  BY <1>1 DEF MeteringTypeOK
<1>6. inflight' = [inflight EXCEPT ![a] = inflight[a] \cup {new}]
  BY <1>2
<1> HIDE DEF new
<1>7. inflight' \in [Agents -> SUBSET Calls]
  BY <1>1, <1>3, <1>5, <1>6
<1>8. inflight'[a] = inflight[a] \cup {new}
      /\ \A b \in Agents : b # a => inflight'[b] = inflight[b]
  BY <1>1, <1>5, <1>6
<1>9. used' = used /\ halted' = halted /\ listening' = listening
  BY DEF PreprocessRequest
<1>10. MeteringTypeOK'
  BY <1>1, <1>7, <1>9 DEF MeteringTypeOK
<1>11. SlotsDiffer'
  <2> SUFFICES ASSUME NEW b \in Agents, NEW r \in inflight'[b], NEW s \in inflight'[b], r.slot = s.slot
               PROVE  r = s
    BY DEF SlotsDiffer
  <2>1. CASE b = a
    BY <1>1, <1>3, <1>4, <1>8, <2>1 DEF SlotsDiffer
  <2>2. CASE b # a
    BY <1>1, <1>8, <2>2 DEF SlotsDiffer
  <2> QED BY <2>1, <2>2
<1>12. RoomForFlying'
  <2> SUFFICES ASSUME NEW b \in Gated, NEW acc \in Accounts, NEW w \in Windows,
                      NEW m \in Looked(acc), NEW lim \in Limits[acc][w][m]
               PROVE  used'[b][acc][w][m] + Cardinality(Flying(b, acc)') * Most[m]
                        <= lim + Slots * Most[m] - Least[m]
    BY DEF RoomForFlying
  <2>1. b \in Agents /\ m \in Metrics
    BY LookedMetric DEF Agents
  <2>2. used[b][acc][w][m] + Cardinality(Flying(b, acc)) * Most[m]
          <= lim + Slots * Most[m] - Least[m]
    BY <1>1 DEF RoomForFlying
  <2>3. CASE b = a /\ acc \in {t, Overall}
    <3>1. used[a][acc][w][m] + Least[m] <= lim
      BY <1>1, <2>3, AdmissionLeavesRoom DEF PreprocessRequest
    <3>2. Cardinality(Flying(a, acc)') \in 0..Slots /\ Slots \in Nat
      BY <1>1, FlyingTyped DEF BudgetAssumption
    <3>3. Most[m] \in Nat /\ Least[m] \in Nat
      BY <2>1, LeastBounded
    <3>4. /\ Cardinality(Flying(a, acc)') * Most[m] \in Nat
          /\ Cardinality(Flying(a, acc)') * Most[m] <= Slots * Most[m]
      <4> DEFINE k == Cardinality(Flying(a, acc)')
      <4>1. k \in Nat /\ k <= Slots
        BY <3>2
      <4> HIDE DEF k
      <4>2. k * Most[m] \in Nat /\ k * Most[m] <= Slots * Most[m]
        BY <3>2, <3>3, <4>1, Multiples
      <4> QED BY <4>2 DEF k
    <3>5. used[a][acc][w][m] \in Nat /\ lim \in Nat /\ Slots * Most[m] \in Nat
      BY <1>1, <2>1, PartsTyped, LeastBounded DEF MeteringTypeOK
    <3> QED BY <1>9, <2>3, <3>1, <3>3, <3>4, <3>5
  <2>4. CASE ~(b = a /\ acc \in {t, Overall})
    <3>1. Flying(b, acc)' = Flying(b, acc)
      BY <1>3, <1>8, <2>1, <2>4 DEF Flying
    <3> QED BY <1>9, <2>2, <3>1
  <2> QED BY <2>3, <2>4
<1>13. DirectStops'
  BY <1>1, <1>9 DEF DirectStops
<1> QED BY <1>10, <1>11, <1>12, <1>13 DEF MeteringInv

\* A call that is answered frees its slot, and no other.
LEMMA Answers ==
  ASSUME BudgetAssumption, MeteringInv, NEW a \in Gated, NEW r \in inflight[a], CallOver(a, r)
  PROVE  /\ inflight' \in [Agents -> SUBSET Calls]
         /\ SlotsDiffer'
         /\ \A b \in Gated, acc \in Accounts :
              Cardinality(Flying(b, acc)') =
                Cardinality(Flying(b, acc)) - IF b = a /\ acc \in {r.tool, Overall} THEN 1 ELSE 0
<1>1. SlotsDiffer /\ inflight \in [Agents -> SUBSET Calls] /\ a \in Agents
  BY DEF MeteringInv, MeteringTypeOK, Agents
<1>2. inflight' = [inflight EXCEPT ![a] = inflight[a] \ {r}]
  BY DEF CallOver
<1>3. inflight' \in [Agents -> SUBSET Calls]
  BY <1>1, <1>2
<1>4. inflight'[a] = inflight[a] \ {r}
      /\ \A b \in Agents : b # a => inflight'[b] = inflight[b]
  BY <1>1, <1>2
<1>5. SlotsDiffer'
  BY <1>1, <1>4 DEF SlotsDiffer
<1>6. r.slot \in 1..Slots
  BY <1>1 DEF Calls
<1>7. ASSUME NEW b \in Gated, NEW acc \in Accounts
      PROVE  Cardinality(Flying(b, acc)') =
               Cardinality(Flying(b, acc)) - IF b = a /\ acc \in {r.tool, Overall} THEN 1 ELSE 0
  <2>1. b \in Agents
    BY DEF Agents
  <2>2. IsFiniteSet(Flying(b, acc)) /\ Cardinality(Flying(b, acc)) \in 0..Slots
    BY <2>1, FlyingTyped
  <2>3. CASE b = a /\ acc \in {r.tool, Overall}
    <3>1. r.slot \in Flying(a, acc)
      BY <1>6, <2>3 DEF Flying
    <3>2. Flying(a, acc)' = Flying(a, acc) \ {r.slot}
      BY <1>1, <1>4 DEF Flying, SlotsDiffer
    <3>3. Cardinality(Flying(a, acc) \ {r.slot}) = Cardinality(Flying(a, acc)) - 1
      BY <2>2, <2>3, <3>1, FS_RemoveElement
    <3> QED BY <2>3, <3>2, <3>3
  <2>4. CASE ~(b = a /\ acc \in {r.tool, Overall})
    <3>1. Flying(b, acc)' = Flying(b, acc)
      BY <1>4, <2>1, <2>4 DEF Flying
    <3> QED BY <2>2, <2>4, <3>1
  <2> QED BY <2>3, <2>4
<1> QED BY <1>3, <1>5, <1>7

LEMMA StepPostprocess ==
  ASSUME BudgetAssumption, MeteringInv, NEW a \in Gated, NEW r \in inflight[a],
         NEW completion \in Completions, PostprocessResponse(a, r, completion)
  PROVE  MeteringInv'
<1>1. MeteringTypeOK /\ RoomForFlying /\ DirectStops /\ a \in Agents
  BY DEF MeteringInv, Agents
<1>2. r \in Calls /\ r.tool \in Tools /\ r.prompt \in Prompts
  BY <1>1 DEF MeteringTypeOK, Calls
<1>3. r.prompt + completion \in 0..MostTokens
  <2>1. r.prompt \in LeastPrompt..MostPrompt /\ completion \in 0..MostResponse
    BY <1>2 DEF BudgetAssumption
  <2>2. LeastPrompt \in Nat /\ MostPrompt \in Nat /\ MostResponse \in Nat
    BY DEF BudgetAssumption
  <2> QED BY <2>1, <2>2 DEF MostTokens
<1> DEFINE n == r.prompt + completion
<1>4. UpdateCounters(a, r.tool, n) /\ CallOver(a, r)
      /\ halted' = halted /\ listening' = listening
  BY DEF PostprocessResponse
<1>5. used \in Used
  BY <1>1 DEF MeteringTypeOK, Used
<1> HIDE DEF n
<1>6. /\ used' \in Used
      /\ \A b \in Agents, acc \in Accounts, w \in Windows, m \in Metrics :
           used'[b][acc][w][m] = used[b][acc][w][m]
             + IF b = a /\ acc \in {r.tool, Overall} THEN Charge(n)[m] ELSE 0
  BY <1>1, <1>2, <1>3, <1>4, <1>5, CountersAfterUpdate DEF n
<1>7. /\ inflight' \in [Agents -> SUBSET Calls]
      /\ SlotsDiffer'
      /\ \A b \in Gated, acc \in Accounts :
           Cardinality(Flying(b, acc)') =
             Cardinality(Flying(b, acc)) - IF b = a /\ acc \in {r.tool, Overall} THEN 1 ELSE 0
  BY <1>4, Answers
<1>8. MeteringTypeOK'
  BY <1>1, <1>4, <1>6, <1>7 DEF MeteringTypeOK, Used
<1>9. RoomForFlying'
  <2> SUFFICES ASSUME NEW b \in Gated, NEW acc \in Accounts, NEW w \in Windows,
                      NEW m \in Looked(acc), NEW lim \in Limits[acc][w][m]
               PROVE  used'[b][acc][w][m] + Cardinality(Flying(b, acc)') * Most[m]
                        <= lim + Slots * Most[m] - Least[m]
    BY DEF RoomForFlying
  <2>1. b \in Agents /\ m \in Metrics
    BY LookedMetric DEF Agents
  <2>2. used[b][acc][w][m] + Cardinality(Flying(b, acc)) * Most[m]
          <= lim + Slots * Most[m] - Least[m]
    BY <1>1 DEF RoomForFlying
  <2> DEFINE k == Cardinality(Flying(b, acc))
             k2 == Cardinality(Flying(b, acc)')
             u == used[b][acc][w][m]
             room == lim + Slots * Most[m] - Least[m]
  <2>3. k \in Nat /\ k2 \in Nat
    BY <2>1, FlyingTyped DEF BudgetAssumption
  <2>4. Most[m] \in Nat /\ Charge(n)[m] \in Nat /\ Charge(n)[m] <= Most[m]
    BY <1>3, <2>1, ChargeBounded DEF n
  <2>5. u \in Nat /\ room \in Int
    <3>1. lim \in Nat /\ Slots * Most[m] \in Nat /\ Least[m] \in Nat
      BY <2>1, PartsTyped, LeastBounded
    <3> QED BY <1>1, <2>1, <3>1 DEF MeteringTypeOK
  <2>6. u + k * Most[m] <= room
    BY <2>2
  <2>7. CASE b = a /\ acc \in {r.tool, Overall}
    <3>1. k2 = k - 1 /\ used'[b][acc][w][m] = u + Charge(n)[m]
      BY <1>6, <1>7, <2>1, <2>7
    <3> HIDE DEF k, k2, u, room
    <3>2. k * Most[m] = k2 * Most[m] + Most[m] /\ k2 * Most[m] \in Nat
      BY <2>3, <2>4, <3>1
    <3>3. used'[b][acc][w][m] + k2 * Most[m] <= room
      BY <2>4, <2>5, <2>6, <3>1, <3>2
    <3> QED BY <3>3 DEF k2, room
  <2>8. CASE ~(b = a /\ acc \in {r.tool, Overall})
    <3>1. used'[b][acc][w][m] = u + 0 /\ k2 = k - 0
      BY <1>6, <1>7, <2>1, <2>8
    <3> HIDE DEF k, k2, u, room
    <3>2. used'[b][acc][w][m] + k2 * Most[m] <= room
      BY <2>3, <2>4, <2>5, <2>6, <3>1
    <3> QED BY <3>2 DEF k2, room
  <2> QED BY <2>7, <2>8
<1>10. DirectStops'
  <2> SUFFICES ASSUME NEW b \in Direct, NEW acc \in Accounts, NEW w \in Windows,
                      NEW m \in Metrics, NEW lim \in Limits[acc][w][m]
               PROVE  /\ b \notin halted' => used'[b][acc][w][m] <= lim
                      /\ used'[b][acc][w][m] <= lim + Most[m]
    BY DEF DirectStops
  <2>1. b \in Agents /\ b # a
    BY DEF Agents, BudgetAssumption
  <2>2. used[b][acc][w][m] \in Nat
    BY <1>1, <2>1 DEF MeteringTypeOK
  <2>3. used'[b][acc][w][m] = used[b][acc][w][m]
    BY <1>6, <2>1, <2>2
  <2> QED BY <1>1, <1>4, <2>3 DEF DirectStops
<1> QED BY <1>7, <1>8, <1>9, <1>10 DEF MeteringInv

\* Steps after which no counter is higher and no more calls are in flight.
LEMMA StepNoCharge ==
  ASSUME BudgetAssumption, MeteringInv, NoCharge, inflight' \in [Agents -> SUBSET Calls], SlotsDiffer',
         \A b \in Gated, acc \in Accounts :
           Cardinality(Flying(b, acc)') <= Cardinality(Flying(b, acc)),
         halted' = halted, listening' \in BOOLEAN
  PROVE  MeteringInv'
<1>1. MeteringTypeOK /\ RoomForFlying /\ DirectStops
  BY DEF MeteringInv
<1>2. MeteringTypeOK'
  BY <1>1 DEF MeteringTypeOK, NoCharge, Used
<1>3. RoomForFlying'
  <2> SUFFICES ASSUME NEW b \in Gated, NEW acc \in Accounts, NEW w \in Windows,
                      NEW m \in Looked(acc), NEW lim \in Limits[acc][w][m]
               PROVE  used'[b][acc][w][m] + Cardinality(Flying(b, acc)') * Most[m]
                        <= lim + Slots * Most[m] - Least[m]
    BY DEF RoomForFlying
  <2>1. b \in Agents /\ m \in Metrics
    BY LookedMetric DEF Agents
  <2> DEFINE k == Cardinality(Flying(b, acc))
             k2 == Cardinality(Flying(b, acc)')
             u == used[b][acc][w][m]
             room == lim + Slots * Most[m] - Least[m]
  <2>2. u + k * Most[m] <= room
    BY <1>1 DEF RoomForFlying
  <2>3. k \in Nat /\ k2 \in Nat /\ k2 <= k
    BY <2>1, FlyingTyped DEF BudgetAssumption
  <2>4. u \in Nat /\ room \in Int /\ Most[m] \in Nat
    <3>1. lim \in Nat /\ Slots * Most[m] \in Nat /\ Least[m] \in Nat /\ Most[m] \in Nat
      BY <2>1, PartsTyped, LeastBounded
    <3> QED BY <1>1, <2>1, <3>1 DEF MeteringTypeOK
  <2>5. used'[b][acc][w][m] \in {0, u}
    BY <2>1 DEF NoCharge
  <2> HIDE DEF k, k2, u, room
  <2>6. k2 * Most[m] \in Nat /\ k2 * Most[m] <= k * Most[m] /\ k * Most[m] \in Nat
    BY <2>3, <2>4, Multiples
  <2>7. used'[b][acc][w][m] + k2 * Most[m] <= room
    BY <2>2, <2>4, <2>5, <2>6
  <2> QED BY <2>7 DEF k2, room
<1>4. DirectStops'
  <2> SUFFICES ASSUME NEW b \in Direct, NEW acc \in Accounts, NEW w \in Windows,
                      NEW m \in Metrics, NEW lim \in Limits[acc][w][m]
               PROVE  /\ b \notin halted' => used'[b][acc][w][m] <= lim
                      /\ used'[b][acc][w][m] <= lim + Most[m]
    BY DEF DirectStops
  <2>1. b \in Agents
    BY DEF Agents
  <2>2. /\ b \notin halted => used[b][acc][w][m] <= lim
        /\ used[b][acc][w][m] <= lim + Most[m]
    BY <1>1 DEF DirectStops
  <2>3. lim \in Nat /\ Most[m] \in Nat
    BY PartsTyped, LeastBounded
  <2>4. used'[b][acc][w][m] \in {0, used[b][acc][w][m]}
    BY <2>1 DEF NoCharge
  <2> QED BY <2>2, <2>3, <2>4
<1> QED BY <1>2, <1>3, <1>4 DEF MeteringInv

LEMMA StepCallFails ==
  ASSUME BudgetAssumption, MeteringInv, NEW a \in Gated, NEW r \in inflight[a], CallFails(a, r)
  PROVE  MeteringInv'
<1>1. CallOver(a, r) /\ used' = used /\ halted' = halted /\ listening' = listening /\ MeteringTypeOK
  BY DEF CallFails, MeteringInv
<1>2. /\ inflight' \in [Agents -> SUBSET Calls]
      /\ SlotsDiffer'
      /\ \A b \in Gated, acc \in Accounts :
           Cardinality(Flying(b, acc)') =
             Cardinality(Flying(b, acc)) - IF b = a /\ acc \in {r.tool, Overall} THEN 1 ELSE 0
  BY <1>1, Answers
<1>3. \A b \in Gated, acc \in Accounts :
        Cardinality(Flying(b, acc)') <= Cardinality(Flying(b, acc))
  <2> SUFFICES ASSUME NEW b \in Gated, NEW acc \in Accounts
               PROVE  Cardinality(Flying(b, acc)') <= Cardinality(Flying(b, acc))
    OBVIOUS
  <2>1. Cardinality(Flying(b, acc)) \in 0..Slots /\ Slots \in Nat
    BY FlyingTyped DEF Agents, BudgetAssumption
  <2> QED BY <1>2, <2>1
<1>4. NoCharge
  BY <1>1 DEF NoCharge, MeteringTypeOK, Used
<1> QED BY <1>1, <1>2, <1>3, <1>4, StepNoCharge DEF MeteringTypeOK

\* A start, a tick or a reset of the run.
LEMMA StepReset ==
  ASSUME BudgetAssumption, MeteringInv, StartListening \/ Tick \/ \E S \in SUBSET Agents : ResetRun(S)
  PROVE  MeteringInv'
<1>1. MeteringTypeOK /\ SlotsDiffer
  BY DEF MeteringInv
<1>2. inflight' = inflight /\ halted' = halted /\ listening' \in BOOLEAN
  BY <1>1 DEF StartListening, Tick, ResetRun, MeteringTypeOK
<1>3. inflight' \in [Agents -> SUBSET Calls] /\ SlotsDiffer'
  BY <1>1, <1>2 DEF MeteringTypeOK, SlotsDiffer
<1>4. \A b \in Gated, acc \in Accounts :
        Cardinality(Flying(b, acc)') <= Cardinality(Flying(b, acc))
  <2> SUFFICES ASSUME NEW b \in Gated, NEW acc \in Accounts
               PROVE  Cardinality(Flying(b, acc)') <= Cardinality(Flying(b, acc))
    OBVIOUS
  <2>1. Cardinality(Flying(b, acc)) \in 0..Slots /\ Slots \in Nat
    BY FlyingTyped DEF Agents, BudgetAssumption
  <2>2. Flying(b, acc)' = Flying(b, acc)
    BY <1>2 DEF Flying
  <2> QED BY <2>1, <2>2
<1>5. used \in Used
  BY <1>1 DEF MeteringTypeOK, Used
<1>6. NoCharge
  <2>1. CASE StartListening
    BY <1>5, <2>1 DEF StartListening, NoCharge
  <2>2. CASE Tick \/ \E S \in SUBSET Agents : ResetRun(S)
    BY <1>5, <2>2, ResetsCharge0
  <2> QED BY <2>1, <2>2
<1> QED BY <1>2, <1>3, <1>4, <1>6, StepNoCharge

LEMMA StepMeterDirectly ==
  ASSUME BudgetAssumption, MeteringInv, NEW a \in Direct, NEW t \in Tools, NEW prompt \in Prompts,
         NEW completion \in Completions, MeterDirectly(a, t, prompt, completion)
  PROVE  MeteringInv'
<1>1. MeteringTypeOK /\ SlotsDiffer /\ RoomForFlying /\ DirectStops /\ a \in Agents
  BY DEF MeteringInv, Agents
<1> DEFINE n == prompt + completion
<1>2. n \in 0..MostTokens
  BY DEF BudgetAssumption, MostTokens
<1>3. /\ UpdateCounters(a, t, n) /\ a \notin halted
      /\ inflight' = inflight /\ listening' = listening
      /\ halted' = (IF Exceeded(a, t)' THEN halted \cup {a} ELSE halted)
  BY DEF MeterDirectly
<1>4. used \in Used
  BY <1>1 DEF MeteringTypeOK, Used
<1> HIDE DEF n
<1>5. /\ used' \in Used
      /\ \A b \in Agents, acc \in Accounts, w \in Windows, m \in Metrics :
           used'[b][acc][w][m] = used[b][acc][w][m]
             + IF b = a /\ acc \in {t, Overall} THEN Charge(n)[m] ELSE 0
  BY <1>1, <1>2, <1>3, <1>4, CountersAfterUpdate
<1>6. halted \subseteq halted' /\ halted' \subseteq halted \cup {a}
  BY <1>3
<1>7. MeteringTypeOK'
  BY <1>1, <1>3, <1>5, <1>6 DEF MeteringTypeOK, Used
<1>8. SlotsDiffer'
  BY <1>1, <1>3 DEF SlotsDiffer
<1>9. RoomForFlying'
  <2> SUFFICES ASSUME NEW b \in Gated, NEW acc \in Accounts, NEW w \in Windows,
                      NEW m \in Looked(acc), NEW lim \in Limits[acc][w][m]
               PROVE  used'[b][acc][w][m] + Cardinality(Flying(b, acc)') * Most[m]
                        <= lim + Slots * Most[m] - Least[m]
    BY DEF RoomForFlying
  <2>1. b \in Agents /\ m \in Metrics /\ b # a
    BY LookedMetric DEF Agents, BudgetAssumption
  <2>2. used[b][acc][w][m] \in Nat
    BY <1>1, <2>1 DEF MeteringTypeOK
  <2>3. used'[b][acc][w][m] = used[b][acc][w][m]
    BY <1>5, <2>1, <2>2
  <2>4. Flying(b, acc)' = Flying(b, acc)
    BY <1>3 DEF Flying
  <2> QED BY <1>1, <2>3, <2>4 DEF RoomForFlying
<1>10. DirectStops'
  <2> SUFFICES ASSUME NEW b \in Direct, NEW acc \in Accounts, NEW w \in Windows,
                      NEW m \in Metrics, NEW lim \in Limits[acc][w][m]
               PROVE  /\ b \notin halted' => used'[b][acc][w][m] <= lim
                      /\ used'[b][acc][w][m] <= lim + Most[m]
    BY DEF DirectStops
  <2>1. b \in Agents
    BY DEF Agents
  <2>2. /\ b \notin halted => used[b][acc][w][m] <= lim
        /\ used[b][acc][w][m] <= lim + Most[m]
    BY <1>1 DEF DirectStops
  <2>3. used[b][acc][w][m] \in Nat /\ lim \in Nat
    BY <1>1, <2>1, PartsTyped DEF MeteringTypeOK
  <2>4. CASE b = a /\ acc \in {t, Overall}
    <3>1. used'[b][acc][w][m] = used[b][acc][w][m] + Charge(n)[m]
      BY <1>5, <2>1, <2>4
    <3>2. Charge(n)[m] \in Nat /\ Most[m] \in Nat /\ Charge(n)[m] <= Most[m]
      BY <1>2, ChargeBounded
    <3>3. used'[b][acc][w][m] <= lim + Most[m]
      BY <1>3, <2>2, <2>3, <2>4, <3>1, <3>2
    <3>4. ASSUME b \notin halted' PROVE used'[b][acc][w][m] <= lim
      <4>1. ~Exceeded(a, t)'
        BY <1>3, <2>4, <3>4
      <4>2. ~(used'[b][acc][w][m] > lim)
        BY <2>4, <4>1 DEF Exceeded
      <4>3. used'[b][acc][w][m] \in Nat
        BY <2>3, <3>1, <3>2
      <4> QED BY <2>3, <4>2, <4>3
    <3> QED BY <3>3, <3>4
  <2>5. CASE ~(b = a /\ acc \in {t, Overall})
    <3>1. used'[b][acc][w][m] = used[b][acc][w][m] + 0
      BY <1>5, <2>1, <2>5
    <3>2. used'[b][acc][w][m] = used[b][acc][w][m]
      BY <2>3, <3>1
    <3> QED BY <1>6, <2>2, <3>2
  <2> QED BY <2>4, <2>5
<1> QED BY <1>7, <1>8, <1>9, <1>10 DEF MeteringInv

LEMMA StepPreserves == ASSUME BudgetAssumption, MeteringInv, [MeteringNext]_meteringVars PROVE MeteringInv'
<1>1. ASSUME NEW a \in Gated, NEW t \in Tools, NEW prompt \in Prompts,
             PreprocessRequest(a, t, prompt)
      PROVE  MeteringInv'
  BY <1>1, StepPreprocess
<1>2. ASSUME NEW a \in Gated, NEW r \in inflight[a], NEW completion \in Completions,
             PostprocessResponse(a, r, completion)
      PROVE  MeteringInv'
  BY <1>2, StepPostprocess
<1>3. ASSUME NEW a \in Gated, NEW r \in inflight[a], CallFails(a, r) PROVE MeteringInv'
  BY <1>3, StepCallFails
<1>4. ASSUME NEW a \in Direct, NEW t \in Tools, NEW prompt \in Prompts,
             NEW completion \in Completions, MeterDirectly(a, t, prompt, completion)
      PROVE  MeteringInv'
  BY <1>4, StepMeterDirectly
<1>5. CASE StartListening \/ Tick \/ \E S \in SUBSET Agents : ResetRun(S)
  BY <1>5, StepReset
<1>6. CASE UNCHANGED meteringVars
  <2>1. used' = used /\ inflight' = inflight /\ halted' = halted /\ listening' = listening
    BY <1>6 DEF meteringVars
  <2>2. MeteringTypeOK' /\ SlotsDiffer' /\ DirectStops'
    BY <2>1 DEF MeteringInv, MeteringTypeOK, SlotsDiffer, DirectStops
  <2>3. \A a \in Gated, acc \in Accounts : Flying(a, acc)' = Flying(a, acc)
    BY <2>1 DEF Flying
  <2>4. RoomForFlying'
    BY <2>1, <2>3 DEF MeteringInv, RoomForFlying
  <2> QED BY <2>2, <2>4 DEF MeteringInv
<1>7. \A S \in {Agents} \cup {{a} : a \in Agents} : S \in SUBSET Agents
  OBVIOUS
<1> QED BY <1>1, <1>2, <1>3, <1>4, <1>5, <1>6, <1>7 DEF MeteringNext

-----------------------------------------------------------------------------
(* The theorems. *)

\* Calls in flight hold distinct slots, each with room for the largest call,
\* and a direct agent is within its limits until it is told otherwise.
THEOREM BudgetInvariant == MeteringSpec => []MeteringInv
<1>1. BudgetAssumption
  BY BudgetAssumption
<1>2. MeteringInit => MeteringInv
  BY <1>1, InitEstablishes
<1>3. MeteringInv /\ [MeteringNext]_meteringVars => MeteringInv'
  BY <1>1, StepPreserves
<1> QED BY <1>2, <1>3, PTL DEF MeteringSpec

\* Every variable keeps its type.
THEOREM MeteringTyping == MeteringSpec => []MeteringTypeOK
<1>1. MeteringInv => MeteringTypeOK
  BY DEF MeteringInv
<1> QED BY <1>1, BudgetInvariant, PTL

\* An agent exceeds a limit by less than its calls in flight can use, whatever
\* the limits, the sizes of the calls and their number (can_afford,
\* meter_api_call).
THEOREM Overshoot == MeteringSpec => []OvershootBounded
<1>1. MeteringInv => OvershootBounded
  <2> SUFFICES ASSUME MeteringInv, NEW a \in Agents, NEW acc \in Accounts, NEW w \in Windows,
                      NEW m \in Looked(acc), NEW lim \in Limits[acc][w][m]
               PROVE  used[a][acc][w][m]
                        <= lim + IF a \in Gated THEN Slots * Most[m] - Least[m] ELSE Most[m]
    BY DEF OvershootBounded
  <2>1. m \in Metrics
    BY LookedMetric
  <2>2. CASE a \in Gated
    <3>1. used[a][acc][w][m] + Cardinality(Flying(a, acc)) * Most[m]
            <= lim + Slots * Most[m] - Least[m]
      BY <2>2 DEF MeteringInv, RoomForFlying
    <3>2. Cardinality(Flying(a, acc)) \in 0..Slots /\ Slots \in Nat /\ BudgetAssumption
      BY BudgetAssumption, FlyingTyped DEF BudgetAssumption
    <3>3. /\ Most[m] \in Nat /\ Least[m] \in Nat /\ Slots * Most[m] \in Nat
          /\ lim \in Nat /\ used[a][acc][w][m] \in Nat
      BY <2>1, <3>2, LeastBounded, PartsTyped DEF MeteringInv, MeteringTypeOK
    <3>4. Cardinality(Flying(a, acc)) * Most[m] \in Nat
      BY <3>2, <3>3, Multiples
    <3> QED BY <2>2, <3>1, <3>3, <3>4
  <2>3. CASE a \in Direct
    <3>1. a \notin Gated
      BY <2>3, BudgetAssumption DEF BudgetAssumption
    <3> QED BY <2>1, <2>3, <3>1 DEF MeteringInv, DirectStops
  <2> QED BY <2>2, <2>3 DEF Agents
<1> QED BY <1>1, BudgetInvariant, PTL
(* The accounts of an agent add up through every charge and every reset.       *)

\* Of agent b, window w and metric m: what its tools' accounts have.
OfTools(b, w, m) == [t \in Tools |-> used[b][t][w][m]]

\* A charge goes to the agent's account and to the account of one tool.
LEMMA ChargeAddsUp ==
  ASSUME BudgetAssumption, MeteringTypeOK, ToolsAddUp, NEW a \in Agents, NEW t \in Tools,
         NEW n \in 0..MostTokens, UpdateCounters(a, t, n)
  PROVE  ToolsAddUp'
<1>1. used \in Used
  BY DEF MeteringTypeOK, Used
<1>2. /\ used' \in Used
      /\ \A b \in Agents, acc \in Accounts, w \in Windows, m \in Metrics :
           used'[b][acc][w][m] = used[b][acc][w][m]
             + IF b = a /\ acc \in {t, Overall} THEN Charge(n)[m] ELSE 0
  BY <1>1, CountersAfterUpdate
<1>3. ASSUME NEW b \in Agents, NEW w \in Windows, NEW m \in Metrics
      PROVE  used'[b][Overall][w][m] = SumFunction(OfTools(b, w, m)')
  <2> DEFINE f == OfTools(b, w, m)
             e == OfTools(b, w, m)'
  <2>1. IsFiniteSet(Tools) /\ DOMAIN f = Tools /\ DOMAIN e = Tools
        /\ Overall \notin Tools /\ Overall \in Accounts /\ Tools \subseteq Accounts
    BY DEF OfTools, BudgetAssumption, Accounts
  <2>2. \A x \in Tools : f[x] = used[b][x][w][m] /\ e[x] = used'[b][x][w][m]
    BY DEF OfTools
  <2>4. used[b][Overall][w][m] = SumFunctionOnSet(f, Tools)
    BY <2>1 DEF ToolsAddUp, SumFunction, OfTools
  <2> HIDE DEF e, f
  <2>3. \A x \in Tools : f[x] \in Nat /\ e[x] \in Nat
    BY <1>1, <1>2, <2>1, <2>2 DEF Used
  <2>5. ASSUME NEW x \in Tools, x # t PROVE e[x] = f[x]
    <3>1. x \in Accounts /\ x \notin {t, Overall}
      BY <2>1, <2>5
    <3>2. used'[b][x][w][m] = used[b][x][w][m] + 0
      BY <1>2, <3>1
    <3> QED BY <2>2, <2>3, <3>2
  <2>6. SumFunctionOnSet(e, Tools) = SumFunctionOnSet(f, Tools) + (e[t] - f[t])
    BY <2>1, <2>3, <2>5, SumChange
  <2>7. used'[b][Overall][w][m] = used[b][Overall][w][m] + (e[t] - f[t])
    <3>1. Charge(n)[m] \in Nat /\ used[b][Overall][w][m] \in Nat
      BY <1>1, <2>1, ChargeBounded DEF Used
    <3>2. /\ e[t] = f[t] + IF b = a THEN Charge(n)[m] ELSE 0
          /\ used'[b][Overall][w][m]
               = used[b][Overall][w][m] + IF b = a THEN Charge(n)[m] ELSE 0
      <4>1. t \in Accounts /\ t \in {t, Overall} /\ Overall \in {t, Overall}
        BY <2>1
      <4>2. /\ used'[b][t][w][m] = used[b][t][w][m] + IF b = a THEN Charge(n)[m] ELSE 0
            /\ used'[b][Overall][w][m]
                 = used[b][Overall][w][m] + IF b = a THEN Charge(n)[m] ELSE 0
        BY <1>2, <2>1, <4>1
      <4> QED BY <2>2, <4>2
    <3> QED BY <2>3, <3>1, <3>2
  <2>8. used'[b][Overall][w][m] = SumFunctionOnSet(e, Tools)
    BY <2>4, <2>6, <2>7
  <2> QED BY <2>1, <2>8 DEF SumFunction, e
<1> QED BY <1>3 DEF ToolsAddUp, OfTools

\* A window is reset on all accounts of an agent or on none.
LEMMA ResetAddsUp ==
  ASSUME BudgetAssumption, MeteringTypeOK, ToolsAddUp,
         NEW R \in SUBSET Agents, NEW window \in Windows,
         used' = [a \in Agents |-> IF a \in R THEN Reset(a, window) ELSE used[a]]
  PROVE  ToolsAddUp'
<1>1. used \in Used
  BY DEF MeteringTypeOK, Used
<1>2. ASSUME NEW b \in Agents, NEW w \in Windows, NEW m \in Metrics
      PROVE  used'[b][Overall][w][m] = SumFunction(OfTools(b, w, m)')
  <2>1. /\ IsFiniteSet(Tools) /\ Overall \in Accounts /\ Tools \subseteq Accounts
        /\ DOMAIN OfTools(b, w, m)' = Tools
    BY DEF BudgetAssumption, Accounts, OfTools
  <2>2. CASE b \in R /\ w = window
    <3>1. ASSUME NEW acc \in Accounts PROVE used'[b][acc][w][m] = 0
      <4>1. used'[b][acc] = [used[b][acc] EXCEPT ![window] = [k \in Metrics |-> 0]]
        BY <2>2 DEF Reset, Zero
      <4>2. used[b][acc] \in [Windows -> [Metrics -> Nat]]
        BY <1>1 DEF Used
      <4>3. used'[b][acc][w] = [k \in Metrics |-> 0]
        BY <2>2, <4>1, <4>2
      <4> QED BY <4>3
    <3>2. \A t \in Tools : (OfTools(b, w, m)')[t] = 0
      BY <2>1, <3>1 DEF OfTools
    <3>3. SumFunctionOnSet(OfTools(b, w, m)', Tools) = 0
      BY <2>1, <3>2, SumOfZeros
    <3> QED BY <2>1, <3>1, <3>3 DEF SumFunction
  <2>3. CASE ~(b \in R /\ w = window)
    <3>1. ASSUME NEW acc \in Accounts PROVE used'[b][acc][w][m] = used[b][acc][w][m]
      <4>1. CASE b \notin R
        BY <4>1
      <4>2. CASE b \in R /\ w # window
        <5>1. used'[b][acc] = [used[b][acc] EXCEPT ![window] = Zero[acc][window]]
          BY <4>2 DEF Reset
        <5>2. used[b][acc] \in [Windows -> [Metrics -> Nat]]
          BY <1>1 DEF Used
        <5>3. used'[b][acc][w] = used[b][acc][w]
          BY <4>2, <5>1, <5>2
        <5> QED BY <5>3
      <4> QED BY <2>3, <4>1, <4>2
    <3>2. OfTools(b, w, m)' = OfTools(b, w, m)
      BY <2>1, <3>1 DEF OfTools
    <3>3. used[b][Overall][w][m] = SumFunction(OfTools(b, w, m))
      BY DEF ToolsAddUp, OfTools
    <3> QED BY <2>1, <3>1, <3>2, <3>3
  <2> QED BY <2>2, <2>3
<1> QED BY <1>2 DEF ToolsAddUp, OfTools

LEMMA ToolsStep ==
  ASSUME BudgetAssumption, MeteringInv, ToolsAddUp, [MeteringNext]_meteringVars
  PROVE  ToolsAddUp'
<1>1. MeteringTypeOK
  BY DEF MeteringInv
<1>2. CASE UNCHANGED used
  BY <1>2 DEF ToolsAddUp
<1>3. \A t \in Tools, prompt \in Prompts, completion \in Completions :
        prompt + completion \in 0..MostTokens
  BY DEF BudgetAssumption, MostTokens
<1>4. ASSUME NEW a \in Gated, NEW r \in inflight[a], NEW completion \in Completions,
             PostprocessResponse(a, r, completion)
      PROVE  ToolsAddUp'
  <2>1. a \in Agents /\ r.tool \in Tools /\ r.prompt \in Prompts
    BY <1>1 DEF MeteringTypeOK, Calls, Agents
  <2>2. r.prompt + completion \in 0..MostTokens
    BY <1>3, <2>1
  <2> QED BY <1>1, <1>4, <2>1, <2>2, ChargeAddsUp DEF PostprocessResponse
<1>5. ASSUME NEW a \in Direct, NEW t \in Tools, NEW prompt \in Prompts,
             NEW completion \in Completions, MeterDirectly(a, t, prompt, completion)
      PROVE  ToolsAddUp'
  <2>1. a \in Agents /\ prompt + completion \in 0..MostTokens
    BY <1>3 DEF Agents
  <2> QED BY <1>1, <1>5, <2>1, ChargeAddsUp DEF MeterDirectly
<1>6. CASE Tick
  <2>1. used' = [a \in Agents |-> IF a \in Agents THEN Reset(a, "tick") ELSE used[a]]
    BY <1>6 DEF Tick, ResetTick
  <2>2. "tick" \in Windows
    BY DEF Windows
  <2> QED BY <1>1, <2>1, <2>2, ResetAddsUp
<1>7. ASSUME NEW R \in SUBSET Agents, ResetRun(R) PROVE ToolsAddUp'
  <2>1. "run" \in Windows
    BY DEF Windows
  <2> QED BY <1>1, <1>7, <2>1, ResetAddsUp DEF ResetRun
<1>8. \A R \in {Agents} \cup {{a} : a \in Agents} : R \in SUBSET Agents
  OBVIOUS
<1>9. CASE \/ UNCHANGED meteringVars \/ StartListening
           \/ \E a \in Gated, t \in Tools, prompt \in Prompts : PreprocessRequest(a, t, prompt)
           \/ \E a \in Gated : \E r \in inflight[a] : CallFails(a, r)
  <2>1. UNCHANGED used
    BY <1>9 DEF meteringVars, StartListening, PreprocessRequest, CallFails
  <2> QED BY <1>2, <2>1
<1> QED BY <1>4, <1>5, <1>6, <1>7, <1>8, <1>9 DEF MeteringNext

(* What an agent used is what it used of its tools, in the tick and in the     *)
(* run, whatever is charged and reset (_update_counters, _reset_tick,          *)
(* _reset_run), for any set of tools.                                          *)
THEOREM AccountsAddUp == MeteringSpec => []ToolsAddUp
<1>1. BudgetAssumption
  BY BudgetAssumption
<1>2. ASSUME MeteringInit PROVE ToolsAddUp
  <2> SUFFICES ASSUME NEW a \in Agents, NEW w \in Windows, NEW m \in Metrics
               PROVE  used[a][Overall][w][m] = SumFunction(OfTools(a, w, m))
    BY DEF ToolsAddUp, OfTools
  <2>1. /\ used[a][Overall][w][m] = 0 /\ DOMAIN OfTools(a, w, m) = Tools
        /\ \A t \in Tools : OfTools(a, w, m)[t] = 0
    BY <1>2 DEF MeteringInit, Zero, OfTools, Accounts
  <2>2. SumFunctionOnSet(OfTools(a, w, m), Tools) = 0
    BY <1>1, <2>1, SumOfZeros DEF BudgetAssumption
  <2> QED BY <2>1, <2>2 DEF SumFunction
<1>3. MeteringInv /\ ToolsAddUp /\ [MeteringNext]_meteringVars => ToolsAddUp'
  BY <1>1, ToolsStep
<1> QED BY <1>2, <1>3, BudgetInvariant, PTL DEF MeteringSpec
-----------------------------------------------------------------------------
(* AgentManager. *)

(* Ticks come in order, no handler has asked about a tick that has not come, *)
(* and the handler of tick 0 has nothing to consolidate.                     *)
Order ==
  /\ \A n \in Ticks : phase[n] # "none" => n <= tick
  /\ \A m, n \in Ticks : m < n /\ phase[n] # "none" => phase[m] # "none"
  /\ phase[tick] = "none" => tick = 0
  /\ \A n \in Ticks : HasAsked(n) => about[n] <= tick
  /\ \A n \in Ticks : phase[n] \in {"gathering", "remembering"} => n > 0

(* Whoever is active has a runner, whoever has a runner a registration.      *)
Runners ==
  \A a \in Agent : /\ registry[a].active => registry[a].runner
                   /\ registry[a].runner => registry[a].gen \in 1..gens

(* Within the retention window the tables hold the last answers.             *)
Tables == \A t \in Ticks : t >= tick - Keep => toolCalls[t] = newest[t]

IInv == TypeOK /\ Order /\ Runners /\ Tables

LEMMA TicksAreNumbers == /\ Ticks \subseteq Nat /\ 0 \in Ticks
                         /\ \A n \in Ticks : n # 0 => n - 1 \in Ticks
                         /\ \A n \in Ticks : 0..(n - 1) \subseteq Ticks
BY AgentAssumption DEF Ticks

(* The type invariant by the groups of variables actions leave alone.        *)
Rec    == [gen : 0..MaxGen, runner : BOOLEAN, active : BOOLEAN, timeouts : Nat]
Phases == {"none", "gathering", "remembering", "deciding", "acting", "done"}

RosterOK   == registry \in [Agent -> Rec] /\ gens \in 0..MaxGen
OwnerOK    == started \in BOOLEAN /\ starting \subseteq Agent \X Gens
CallsOK    == toolCalls \in [Ticks -> [Agent -> Entries]]
ClockOK    == tick \in Ticks /\ buffered \subseteq Ticks /\ last \in -1..MaxTick
HandlersOK == phase \in [Ticks -> Phases] /\ asked \in [Ticks -> SUBSET (Agent \X Gens)]
                /\ about \in [Ticks -> Ticks]
NewestOK   == newest \in [Ticks -> [Agent -> Entries]]

Parts == RosterOK /\ OwnerOK /\ CallsOK /\ ClockOK /\ HandlersOK /\ NewestOK

LEMMA TypeParts == TypeOK <=> Parts
BY DEF TypeOK, Parts, RosterOK, OwnerOK, CallsOK, ClockOK, HandlersOK, NewestOK, Rec, Phases

LEMMA BlankType == Blank \in [Ticks -> [Agent -> Entries]]
BY DEF Blank, Entries

LEMMA InitIInv == ASSUME Init PROVE IInv
<1> USE AgentAssumption, TicksAreNumbers
<1>1. Parts
  <2>1. RosterOK
    BY DEF Init, RosterOK, Rec, Absent
  <2>2. OwnerOK
    BY DEF Init, OwnerOK
  <2>3. CallsOK /\ NewestOK
    BY BlankType DEF Init, CallsOK, NewestOK
  <2>4. ClockOK
    <3>1. -1 \in -1..MaxTick
      OBVIOUS
    <3> QED BY <3>1 DEF Init, ClockOK
  <2>5. HandlersOK
    BY DEF Init, HandlersOK, Phases
  <2> QED BY <2>1, <2>2, <2>3, <2>4, <2>5 DEF Parts
<1>2. Order
  BY DEF Init, Order, HasAsked
<1>3. Runners
  BY DEF Init, Runners, Absent
<1>4. Tables
  BY DEF Init, Tables
<1> QED BY <1>1, <1>2, <1>3, <1>4, TypeParts DEF IInv
-----------------------------------------------------------------------------
LEMMA GroupType ==
  ASSUME Parts, Runners, NEW S \in SUBSET Agent, \A a \in S : registry[a].runner
  PROVE  Group(S) \subseteq Agent \X Gens
<1>1. \A a \in S : registry[a].gen \in Gens
  BY AgentAssumption DEF Parts, RosterOK, Runners, Gens
<1> QED BY <1>1 DEF Group

LEMMA AsksType ==
  ASSUME Parts, Runners, NEW n \in Ticks, NEW now \in Ticks, Asks(n, now)
  PROVE  HandlersOK'
<1>1. Group(Active) \subseteq Agent \X Gens
  BY GroupType DEF Active, Runners
<1> QED BY <1>1 DEF Parts, HandlersOK, Asks, Phases

LEMMA MarkType ==
  ASSUME RosterOK, Runners, NEW a \in Agent, MarkFailed(a) \/ MarkTimeout(a), UNCHANGED gens
  PROVE  RosterOK' /\ Runners'
<1>1. registry[a] \in Rec
  BY DEF RosterOK
<1>2. [registry[a] EXCEPT !.active = FALSE] \in Rec
  BY <1>1 DEF Rec
<1>3. Charged(registry[a]) \in Rec
  <2>1. \A r \in Rec : [r EXCEPT !.timeouts = @ + 1] \in Rec
    BY DEF Rec
  <2>2. \A c \in Rec : [c EXCEPT !.active = FALSE] \in Rec
    BY DEF Rec
  <2> QED BY <1>1, <2>1, <2>2 DEF Charged
<1>4. /\ Charged(registry[a]).runner = registry[a].runner
      /\ Charged(registry[a]).gen = registry[a].gen
      /\ Charged(registry[a]).active => registry[a].active
  BY <1>1 DEF Charged, Rec
<1>5. \/ registry' = registry
      \/ registry' = [registry EXCEPT ![a] = [registry[a] EXCEPT !.active = FALSE]]
      \/ registry' = [registry EXCEPT ![a] = Charged(registry[a])]
  BY DEF MarkFailed, MarkTimeout
<1>6. RosterOK'
  BY <1>2, <1>3, <1>5 DEF RosterOK
<1>7. ASSUME NEW b \in Agent
      PROVE  /\ registry'[b].active => registry[b].active
             /\ registry'[b].runner = registry[b].runner
             /\ registry'[b].gen = registry[b].gen
  <2>1. CASE b # a
    BY <1>5, <2>1 DEF RosterOK
  <2>2. CASE b = a
    BY <1>1, <1>4, <1>5, <2>2 DEF RosterOK, Rec
  <2> QED BY <2>1, <2>2
<1> QED BY <1>6, <1>7 DEF Runners

(* A registration added, and one removed, leave the others alone.            *)
LEMMA AddType ==
  ASSUME Parts, Runners, NEW a \in Agent, NEW ok \in BOOLEAN, AddAgent(a, ok)
  PROVE  RosterOK' /\ Runners'
<1>1. /\ gens' = gens + 1 /\ gens' \in 1..MaxGen /\ gens \in Nat
      /\ registry' = [registry EXCEPT ![a] =
           [gen |-> gens + 1, runner |-> ok, active |-> ok, timeouts |-> 0]]
  BY AgentAssumption DEF AddAgent, Parts, RosterOK
<1>2. RosterOK'
  BY <1>1 DEF Parts, RosterOK, Rec
<1>3. Runners'
  BY <1>1 DEF Parts, RosterOK, Runners
<1> QED BY <1>2, <1>3

LEMMA RemoveType ==
  ASSUME Parts, Runners, NEW a \in Agent, Deregister(a)
  PROVE  RosterOK' /\ Runners'
<1>1. RosterOK'
  BY AgentAssumption DEF Deregister, Parts, RosterOK, Rec, Absent
<1>2. Runners'
  BY DEF Deregister, Parts, RosterOK, Runners, Absent
<1> QED BY <1>1, <1>2

LEMMA TypeStep == ASSUME Parts, Runners, [Next]_vars PROVE Parts' /\ Runners'
<1> USE AgentAssumption, TicksAreNumbers DEF Parts
<1> USE DEF owner, books, handlers, roster
<1>1. ASSUME NEW a \in Agent, NEW ok \in BOOLEAN, AddAgent(a, ok) PROVE Parts' /\ Runners'
  <2>1. RosterOK' /\ Runners'
    BY <1>1, AddType
  <2> QED
    BY <1>1, <2>1 DEF AddAgent, OwnerOK, CallsOK, ClockOK, HandlersOK, NewestOK
<1>2. ASSUME NEW a \in Agent, Deregister(a) PROVE Parts' /\ Runners'
  <2>1. RosterOK' /\ Runners'
    BY <1>2, RemoveType
  <2> QED
    BY <1>2, <2>1 DEF Deregister, OwnerOK, CallsOK, ClockOK, HandlersOK, NewestOK
<1>3. CASE Start \/ Stop
  <2>1. Group({a \in Agent : registry[a].runner}) \subseteq Agent \X Gens
    BY GroupType
  <2>2. OwnerOK'
    BY <1>3, <2>1 DEF Start, Stop, OwnerOK
  <2> QED
    BY <1>3, <2>2 DEF Start, Stop, RosterOK, CallsOK, ClockOK, HandlersOK, NewestOK, Runners
<1>4. ASSUME NEW a \in Agent, NEW g \in Gens, Initialises(a, g) PROVE Parts' /\ Runners'
  <2>1. RosterOK' /\ Runners'
    <3>1. CASE MarkFailed(a)
      BY <1>4, <3>1, MarkType DEF Initialises
    <3>2. CASE UNCHANGED registry
      BY <1>4, <3>2 DEF Initialises, RosterOK, Runners
    <3> QED BY <1>4, <3>1, <3>2 DEF Initialises
  <2>2. OwnerOK'
    BY <1>4 DEF Initialises, OwnerOK
  <2> QED
    BY <1>4, <2>1, <2>2 DEF Initialises, CallsOK, ClockOK, HandlersOK, NewestOK
<1>5. ASSUME NEW n \in Ticks, TickArrives(n) PROVE Parts' /\ Runners'
  <2>1. ClockOK'
    <3>1. n \in Nat /\ (Due(n) => n - 1 \in -1..MaxTick) /\ Kept(n) \subseteq buffered
      BY DEF Due, Kept, Ticks
    <3>2. /\ tick' = n
          /\ buffered' = Kept(n) \cup {n} \/ buffered' = buffered \cup {n}
      BY <1>5 DEF TickArrives, Consolidates, ClockOK
    <3>3. last' = last \/ (Due(n) /\ last' = n - 1)
      BY <1>5 DEF TickArrives, Consolidates
    <3> QED BY <3>1, <3>2, <3>3 DEF ClockOK
  <2>2. CallsOK'
    <3>1. \/ toolCalls' = toolCalls
          \/ toolCalls' = [t \in Ticks |->
                             IF t \in buffered \ Kept(n) THEN Blank[t] ELSE toolCalls[t]]
      BY <1>5 DEF TickArrives, Consolidates
    <3> QED BY <3>1, BlankType DEF CallsOK
  <2>3. HandlersOK'
    <3>1. CASE Asks(n, n)
      BY <3>1, AsksType
    <3>2. CASE /\ phase' = [phase EXCEPT ![n] = "gathering"]
               /\ asked' = [asked EXCEPT ![n] = Group(Active)] /\ UNCHANGED about
      <4>1. Group(Active) \subseteq Agent \X Gens
        BY GroupType DEF Active, Runners
      <4> QED BY <3>2, <4>1 DEF HandlersOK, Phases
    <3> QED BY <1>5, <3>1, <3>2 DEF TickArrives, Consolidates
  <2> QED
    BY <1>5, <2>1, <2>2, <2>3 DEF TickArrives, RosterOK, OwnerOK, NewestOK, Runners
<1>6. ASSUME NEW n \in Ticks, HandlerStep(n) PROVE Parts' /\ Runners'
  <2>1. CASE Remembers(n)
    <3>1. HandlersOK'
      BY <2>1, AsksType DEF Remembers, ClockOK
    <3>2. ClockOK'
      BY <2>1 DEF Remembers, ClockOK, Ticks
    <3> QED
      BY <2>1, <3>1, <3>2 DEF Remembers, RosterOK, OwnerOK, CallsOK, NewestOK, Runners
  <2>2. CASE Recalls(n) \/ Answered(n) \/ Raises(n)
    <3>1. HandlersOK'
      BY <2>2 DEF Recalls, Answered, Raises, HandlersOK, Phases
    <3> QED
      BY <2>2, <3>1 DEF Recalls, Answered, Raises, RosterOK, OwnerOK, CallsOK, ClockOK,
         NewestOK, Runners
  <2>3. ASSUME NEW a \in Agent, NEW g \in Gens, TimesOut(n, a, g) \/ Fails(n, a, g)
        PROVE  Parts' /\ Runners'
    <3>1. DealtWith(n, a, g) /\ UNCHANGED <<toolCalls, newest>>
      BY <2>3 DEF TimesOut, Fails
    <3>2. HandlersOK' /\ OwnerOK' /\ ClockOK' /\ CallsOK' /\ NewestOK'
      BY <3>1 DEF DealtWith, HandlersOK, Phases, OwnerOK, ClockOK, CallsOK, NewestOK
    <3>3. RosterOK' /\ Runners'
      BY <2>3, <3>1, MarkType DEF TimesOut, Fails, DealtWith
    <3> QED BY <3>2, <3>3
  <2>4. ASSUME NEW a \in Agent, NEW g \in Gens, NEW calls \in {n, Nothing}, Acts(n, a, g, calls)
        PROVE  Parts' /\ Runners'
    <3>1. DealtWith(n, a, g) /\ UNCHANGED registry
      BY <2>4 DEF Acts
    <3>2. HandlersOK' /\ OwnerOK' /\ ClockOK' /\ RosterOK' /\ Runners'
      BY <3>1 DEF DealtWith, HandlersOK, Phases, OwnerOK, ClockOK, RosterOK, Runners
    <3>3. calls \in Entries /\ about[n] \in Ticks
      BY DEF Entries, HandlersOK
    <3>4. CallsOK' /\ NewestOK'
      BY <2>4, <3>3 DEF Acts, CallsOK, NewestOK
    <3> QED BY <3>2, <3>4
  <2> QED BY <1>6, <2>1, <2>2, <2>3, <2>4 DEF HandlerStep
<1>7. CASE UNCHANGED vars
  BY <1>7 DEF vars, RosterOK, OwnerOK, CallsOK, ClockOK, HandlersOK, NewestOK, Runners
<1> QED BY <1>1, <1>2, <1>3, <1>4, <1>5, <1>6, <1>7 DEF Next, Register, CreateAgent
-----------------------------------------------------------------------------
(* A tick that arrives is not before the counter.                            *)
LEMMA TicksComeInOrder ==
  ASSUME Parts, Order, NEW n \in Ticks, TickArrives(n)
  PROVE  tick <= n /\ tick' = n /\ \A m \in Ticks : phase[m] # "none" => m < n
<1>0. Ticks \subseteq Nat /\ tick \in Ticks
  BY TicksAreNumbers DEF Parts, ClockOK
<1>1. phase[n] = "none" /\ tick' = n
  BY DEF TickArrives
<1>2. \A m \in Ticks : phase[m] # "none" => m < n
  BY <1>0, <1>1 DEF Order
<1> QED BY <1>0, <1>1, <1>2 DEF Order

LEMMA OrderStep == ASSUME Parts, Order, [Next]_vars PROVE Order'
<1> USE DEF Parts, ClockOK, HandlersOK
<1>0. tick \in Ticks /\ Ticks \subseteq Nat
  BY TicksAreNumbers
(* Steps that move one handler on from a place where it had asked, or had    *)
(* not, with the clock and the contexts as they are.                         *)
<1>1. ASSUME UNCHANGED <<about, tick>>,
             \A m \in Ticks : /\ phase'[m] = "none" <=> phase[m] = "none"
                              /\ HasAsked(m)' <=> HasAsked(m)
                              /\ phase'[m] \in {"gathering", "remembering"}
                                   => phase[m] \in {"gathering", "remembering"}
      PROVE  Order'
  BY <1>0, <1>1 DEF Order
<1>2. ASSUME NEW n \in Ticks, NEW ph \in Phases, UNCHANGED <<about, tick>>,
             phase' = [phase EXCEPT ![n] = ph],
             \/ HasAsked(n) /\ ph \in {"acting", "done"}
             \/ phase[n] = "gathering" /\ ph = "remembering"
             \/ ph = phase[n]
      PROVE  Order'
  <2>1. \A m \in Ticks : /\ phase'[m] = "none" <=> phase[m] = "none"
                         /\ HasAsked(m)' <=> HasAsked(m)
                         /\ phase'[m] \in {"gathering", "remembering"}
                              => phase[m] \in {"gathering", "remembering"}
    BY <1>2 DEF HasAsked, Phases
  <2> QED BY <1>1, <1>2, <2>1
<1>3. ASSUME NEW n \in Ticks, Remembers(n) PROVE Order'
  <2>1. /\ phase[n] = "remembering" /\ UNCHANGED tick
        /\ about' = [about EXCEPT ![n] = tick]
        /\ phase'[n] \in {"done", "deciding"}
        /\ \A m \in Ticks \ {n} : phase'[m] = phase[m]
    BY <1>3 DEF Remembers, Asks
  <2>2. /\ \A m \in Ticks : HasAsked(m)' <=> HasAsked(m) \/ m = n
        /\ \A m \in Ticks : phase'[m] = "none" <=> phase[m] = "none"
        /\ \A m \in Ticks \ {n} : about'[m] = about[m]
        /\ about'[n] = tick
    BY <2>1 DEF HasAsked
  <2> QED BY <1>0, <2>1, <2>2 DEF Order
<1>4. ASSUME NEW n \in Ticks, TickArrives(n) PROVE Order'
  <2>1. /\ phase[n] = "none" /\ \A m \in 0..(n - 1) : phase[m] # "none"
        /\ phase'[n] \in {"gathering", "done", "deciding"}
        /\ phase'[n] = "gathering" => n > 0
        /\ phase'[n] = "gathering" \/ about'[n] = n
        /\ \A m \in Ticks \ {n} : phase'[m] = phase[m] /\ about'[m] = about[m]
    BY <1>4 DEF TickArrives, Consolidates, Asks, Due
  <2>2. tick <= n /\ tick' = n /\ \A m \in Ticks : phase[m] # "none" => m < n
    BY <1>4, TicksComeInOrder
  <2>3. \A m \in Ticks : HasAsked(m)' => (m = n /\ about'[n] = n) \/ (HasAsked(m) /\ m # n)
    BY <2>1 DEF HasAsked
  <2>4. \A m \in Ticks : phase'[m] # "none" => m <= n
    BY <1>0, <2>1, <2>2
  <2>5. \A k, m \in Ticks : k < m /\ phase'[m] # "none" => phase'[k] # "none"
    <3> SUFFICES ASSUME NEW k \in Ticks, NEW m \in Ticks, k < m, phase'[m] # "none"
                 PROVE  phase'[k] # "none"
      OBVIOUS
    <3>1. k < n /\ k \in 0..(n - 1)
      BY <1>0, <2>4
    <3> QED BY <1>0, <2>1, <3>1
  <2>6. \A m \in Ticks : HasAsked(m)' => about'[m] <= tick'
    <3> SUFFICES ASSUME NEW m \in Ticks, HasAsked(m)' PROVE about'[m] <= n
      BY <2>2
    <3>1. CASE m = n
      BY <1>0, <2>3, <3>1
    <3>2. CASE m # n
      <4>1. about'[m] = about[m] /\ about[m] <= tick /\ about[m] \in Nat
        BY <1>0, <2>1, <2>3, <3>2 DEF Order
      <4> QED BY <1>0, <2>2, <4>1
    <3> QED BY <3>1, <3>2
  <2>7. \A m \in Ticks : phase'[m] \in {"gathering", "remembering"} => m > 0
    BY <2>1 DEF Order
  <2>8. phase'[tick'] # "none"
    BY <2>1, <2>2
  <2> QED BY <2>2, <2>4, <2>5, <2>6, <2>7, <2>8 DEF Order
<1>5. ASSUME NEW n \in Ticks,
             \/ Recalls(n) \/ Answered(n) \/ Raises(n)
             \/ \E a \in Agent, g \in Gens : DealtWith(n, a, g)
      PROVE  Order'
  <2>1. UNCHANGED <<about, tick>>
    BY <1>5 DEF Recalls, Answered, Raises, DealtWith, books
  <2>2. \/ HasAsked(n) /\ \E ph \in {"acting", "done"} : phase' = [phase EXCEPT ![n] = ph]
        \/ phase[n] = "gathering" /\ phase' = [phase EXCEPT ![n] = "remembering"]
    <3>1. CASE Recalls(n)
      BY <3>1 DEF Recalls
    <3>2. CASE Answered(n) \/ Raises(n)
      BY <3>2 DEF Answered, Raises, HasAsked
    <3>3. CASE \E a \in Agent, g \in Gens : DealtWith(n, a, g)
      BY <3>3 DEF DealtWith, HasAsked
    <3> QED BY <1>5, <3>1, <3>2, <3>3
  <2> QED BY <1>2, <2>1, <2>2 DEF Phases
<1>6. CASE UNCHANGED <<phase, about, tick>>
  <2>1. \A m \in Ticks : HasAsked(m)' <=> HasAsked(m)
    BY <1>6 DEF HasAsked
  <2> QED BY <1>1, <1>6, <2>1
<1>7. ASSUME NEW n \in Ticks, HandlerStep(n), ~Remembers(n)
      PROVE  \/ Recalls(n) \/ Answered(n) \/ Raises(n)
             \/ \E a \in Agent, g \in Gens : DealtWith(n, a, g)
  BY <1>7 DEF HandlerStep, TimesOut, Fails, Acts
<1>8. CASE \/ UNCHANGED vars \/ Start \/ Stop
           \/ \E a \in Agent, ok \in BOOLEAN : AddAgent(a, ok)
           \/ \E a \in Agent : Deregister(a)
           \/ \E a \in Agent, g \in Gens : Initialises(a, g)
  BY <1>6, <1>8 DEF vars, Start, Stop, AddAgent, Deregister, Initialises, books, handlers
<1> QED BY <1>3, <1>4, <1>5, <1>7, <1>8 DEF Next, Register, CreateAgent
-----------------------------------------------------------------------------
LEMMA TablesStep == ASSUME Parts, Order, Tables, [Next]_vars PROVE Tables'
<1> USE AgentAssumption DEF Parts
<1>0. Ticks \subseteq Nat /\ tick \in Ticks
  BY TicksAreNumbers DEF ClockOK
<1>1. CASE UNCHANGED <<tick, toolCalls, newest>>
  BY <1>1 DEF Tables
<1>2. ASSUME NEW n \in Ticks, TickArrives(n) PROVE Tables'
  <2>1. tick <= n /\ tick' = n /\ UNCHANGED newest
    BY <1>2, TicksComeInOrder DEF TickArrives
  <2>2. \A t \in Ticks : t >= n - Keep => toolCalls'[t] = toolCalls[t]
    BY <1>2 DEF TickArrives, Consolidates, Kept, CallsOK
  <2>3. \A t \in Ticks : t >= n - Keep => t >= tick - Keep
    BY <1>0, <2>1
  <2> QED BY <2>1, <2>2, <2>3 DEF Tables
<1>3. ASSUME NEW n \in Ticks, NEW a \in Agent, NEW g \in Gens, NEW calls, Acts(n, a, g, calls)
      PROVE  Tables'
  <2>1. /\ UNCHANGED tick
        /\ toolCalls' = [toolCalls EXCEPT ![about[n]][a] = calls]
        /\ newest' = [newest EXCEPT ![about[n]][a] = calls]
    BY <1>3 DEF Acts, DealtWith
  <2>2. ASSUME NEW t \in Ticks, t >= tick - Keep PROVE toolCalls'[t] = newest'[t]
    <3>1. toolCalls[t] = newest[t]
      BY <2>2 DEF Tables
    <3>2. CASE t = about[n]
      BY <2>1, <3>1, <3>2 DEF CallsOK, NewestOK
    <3>3. CASE t # about[n]
      BY <2>1, <3>1, <3>3 DEF CallsOK, NewestOK
    <3> QED BY <3>2, <3>3
  <2> QED BY <2>1, <2>2 DEF Tables
<1>4. ASSUME NEW n \in Ticks, HandlerStep(n) PROVE Tables'
  <2>1. CASE Recalls(n) \/ Remembers(n) \/ Answered(n) \/ Raises(n)
    BY <1>1, <2>1 DEF Recalls, Remembers, Answered, Raises, books
  <2>2. CASE \E a \in Agent, g \in Gens : TimesOut(n, a, g) \/ Fails(n, a, g)
    BY <1>1, <2>2 DEF TimesOut, Fails, DealtWith
  <2> QED BY <1>3, <1>4, <2>1, <2>2 DEF HandlerStep
<1>5. CASE \/ UNCHANGED vars \/ Start \/ Stop
           \/ \E a \in Agent, ok \in BOOLEAN : AddAgent(a, ok)
           \/ \E a \in Agent : Deregister(a)
           \/ \E a \in Agent, g \in Gens : Initialises(a, g)
  BY <1>1, <1>5 DEF vars, Start, Stop, AddAgent, Deregister, Initialises, books
<1> QED BY <1>2, <1>4, <1>5 DEF Next, Register, CreateAgent

LEMMA NextKeepsIInv == IInv /\ [Next]_vars => IInv'
<1>1. IInv <=> Parts /\ Order /\ Runners /\ Tables
  BY TypeParts DEF IInv
<1>2. IInv' <=> (Parts /\ Order /\ Runners /\ Tables)'
  BY <1>1, TypeParts DEF IInv, TypeOK, Parts, RosterOK, OwnerOK, CallsOK,
     ClockOK, HandlersOK, NewestOK, Rec, Phases
<1> QED BY <1>1, <1>2, TypeStep, OrderStep, TablesStep

(* The strengthened invariant.                                               *)
THEOREM AgentsInvariant == Spec => []IInv
<1>1. Init => IInv
  BY InitIInv
<1> QED BY <1>1, NextKeepsIInv, PTL DEF Spec

(* Type correctness. *)
THEOREM Typing == Spec => []TypeOK
<1>1. IInv => TypeOK
  BY DEF IInv
<1> QED BY <1>1, AgentsInvariant, PTL
-----------------------------------------------------------------------------
(* No handler asks about a day before one that was asked about already,      *)
(* however many are at work and however late they come back                  *)
(* (_handle_tick_event_for_decision_cycle, _build_shared_context).           *)
THEOREM DaysInOrder == Spec => QuestionsInOrder
<1>1. ASSUME IInv, [Next]_vars, NEW n \in Ticks, ~HasAsked(n), HasAsked(n)',
             NEW m \in Ticks, HasAsked(m)
      PROVE  about[m] <= about'[n]
  <2>1. Parts /\ Order /\ about[m] <= tick
    BY <1>1, TypeParts DEF IInv, Order
  <2>2. about[m] \in Nat /\ tick \in Nat /\ Ticks \subseteq Nat
    BY <2>1, TicksAreNumbers DEF Parts, ClockOK, HandlersOK
  <2>3. CASE \E k \in Ticks : TickArrives(k)
    <3>1. PICK k \in Ticks : TickArrives(k)
      BY <2>3
    <3>2. k = n
      BY <1>1, <2>1, <3>1 DEF TickArrives, Consolidates, Asks, HasAsked, Parts, HandlersOK
    <3>3. tick <= n
      BY <2>1, <3>1, <3>2, TicksComeInOrder
    <3>4. about'[n] = n
      BY <1>1, <2>1, <3>1, <3>2 DEF TickArrives, Consolidates, Asks, HasAsked, Parts, HandlersOK
    <3> QED BY <2>1, <2>2, <3>3, <3>4
  <2>4. CASE \E k \in Ticks : HandlerStep(k)
    <3>1. PICK k \in Ticks : HandlerStep(k)
      BY <2>4
    <3>2. CASE Remembers(k)
      <4>1. k = n
        BY <1>1, <2>1, <3>2 DEF Remembers, Asks, HasAsked, Parts, HandlersOK
      <4> QED BY <2>1, <3>2, <4>1 DEF Remembers, Asks, Parts, HandlersOK
    <3>3. CASE Recalls(k)
      BY <1>1, <2>1, <3>3 DEF Recalls, HasAsked, Parts, HandlersOK
    <3>4. CASE Answered(k) \/ Raises(k)
      BY <1>1, <2>1, <3>4 DEF Answered, Raises, HasAsked, Parts, HandlersOK
    <3>5. CASE \E a \in Agent, g \in Gens : DealtWith(k, a, g)
      BY <1>1, <2>1, <3>5 DEF DealtWith, HasAsked, Parts, HandlersOK
    <3> QED BY <3>1, <3>2, <3>3, <3>4, <3>5 DEF HandlerStep, TimesOut, Fails, Acts
  <2>5. CASE UNCHANGED phase
    BY <1>1, <2>5 DEF HasAsked
  <2>6. CASE \/ UNCHANGED vars \/ Start \/ Stop
             \/ \E a \in Agent, ok \in BOOLEAN : AddAgent(a, ok)
             \/ \E a \in Agent : Deregister(a)
             \/ \E a \in Agent, g \in Gens : Initialises(a, g)
    BY <2>5, <2>6 DEF vars, Start, Stop, AddAgent, Deregister, Initialises, handlers
  <2> QED BY <1>1, <2>3, <2>4, <2>6 DEF Next, Register, CreateAgent
<1>2. IInv /\ [Next]_vars =>
        [\A n \in Ticks : ~HasAsked(n) /\ HasAsked(n)' =>
           \A m \in Ticks : HasAsked(m) => about[m] <= about'[n]]_vars
  BY <1>1
<1> QED BY <1>2, AgentsInvariant, PTL DEF Spec, QuestionsInOrder

(* An agent is given to remember of a tick the last it did then, for any     *)
(* number of handlers at work, any retention, and whoever asked              *)
(* (_maybe_consolidate_memory_for_previous_tick, _trim_event_history,        *)
(* _process_decision_result).                                                *)
THEOREM MemoriesComplete == Spec => MemoryComplete
<1>1. ASSUME IInv, NEW n \in Ticks, Recalls(n), n - 1 >= tick - Keep, NEW a \in AskedBy(n)
      PROVE  CallsToRemember(n, a) = newest[n - 1][a]
  <2>1. n > 0 /\ n - 1 \in Ticks
    BY <1>1, TicksAreNumbers DEF IInv, Order, Recalls
  <2> QED BY <1>1, <2>1 DEF IInv, Tables, CallsToRemember
<1>2. IInv => [\A n \in Ticks : Recalls(n) /\ n - 1 >= tick - Keep =>
                 \A a \in AskedBy(n) : CallsToRemember(n, a) = newest[n - 1][a]]_vars
  BY <1>1
<1> QED BY <1>2, AgentsInvariant, PTL DEF Spec, MemoryComplete
=============================================================================
