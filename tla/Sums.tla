-------------------------------- MODULE Sums --------------------------------
(***************************************************************************)
(* Lemmas about SumFunctionOnSet(f, S), the sum of the values of f over a  *)
(* finite set S, for the proofs about books, stocks and counters.          *)
(*                                                                         *)
(* The sum is defined by recursion over the subsets of S, so its lemmas    *)
(* rest on induction.  The induction theorems of the library are about an  *)
(* arbitrary predicate, which the provers cannot instantiate; NatSets and  *)
(* SubsetInduction below say the same of a set, the set of everything the  *)
(* predicate holds of, and follow from the well-foundedness of < on Nat.   *)
(***************************************************************************)
EXTENDS FiniteSetsExt, FiniteSetTheorems, WellFoundedInduction, TLAPS

(* Induction on the natural numbers, said of the set T of those for which   *)
(* something holds: a least number outside T would have its predecessor in T. *)
LEMMA NatSets ==
  ASSUME NEW T \in SUBSET Nat, 0 \in T, \A n \in T : n + 1 \in T
  PROVE  T = Nat
<1>1. SUFFICES ASSUME Nat \ T # {} PROVE FALSE
  OBVIOUS
<1>2. PICK m \in Nat \ T : \A n \in Nat \ T : ~(<<n, m>> \in OpToRel(<, Nat))
  <2>1. IsWellFoundedOn(OpToRel(<, Nat), Nat)
    BY NatLessThanWellFounded
  <2>2. QED
    BY <1>1, <2>1, WFMin
<1>3. m # 0 /\ m - 1 \in Nat /\ (m - 1) + 1 = m
  OBVIOUS
<1>4. m - 1 \in Nat \ T
  BY <1>3
<1>5. <<m - 1, m>> \in OpToRel(<, Nat)
  BY <1>3, <1>4 DEF OpToRel
<1>6. QED
  BY <1>2, <1>4, <1>5

(* Induction on the subsets of a finite set, one element at a time.          *)
LEMMA SubsetInduction ==
  ASSUME NEW S, IsFiniteSet(S), NEW Q, {} \in Q,
         \A U \in SUBSET S, x \in S : U \in Q /\ x \notin U => U \cup {x} \in Q
  PROVE  SUBSET S \subseteq Q
<1> DEFINE T == {n \in Nat : \A U \in SUBSET S : Cardinality(U) = n => U \in Q}
<1>1. \A U \in SUBSET S : IsFiniteSet(U) /\ Cardinality(U) \in Nat
  BY FS_Subset, FS_CardinalityType
<1>2. 0 \in T
  BY <1>1, FS_EmptySet
<1>3. ASSUME NEW n \in T PROVE n + 1 \in T
  <2>1. SUFFICES ASSUME NEW U \in SUBSET S, Cardinality(U) = n + 1
                 PROVE  U \in Q
    BY <1>3
  <2>2. PICK x \in U : TRUE
    BY <2>1, FS_EmptySet
  <2>3. Cardinality(U \ {x}) = n
    BY <1>1, <2>1, <2>2, FS_RemoveElement
  <2>4. U \ {x} \in Q
    BY <1>3, <2>3
  <2>5. QED
    BY <2>2, <2>4, (U \ {x}) \cup {x} = U
<1>4. T = Nat
  <2> HIDE DEF T
  <2>1. T \in SUBSET Nat
    BY DEF T
  <2>2. QED
    BY <1>2, <1>3, <2>1, NatSets
<1>5. QED
  BY <1>1, <1>4

(* The element a recursive sum takes out of s first. *)
Pick(s) == CHOOSE x \in s : TRUE

(* g has the sum of f over every set of R, by the defining recursion. *)
Totals(R, f, g) ==
  g = [s \in R |-> IF s = {} THEN 0 ELSE f[Pick(s)] + g[s \ {Pick(s)}]]

(* What SumFunctionOnSet stands for: the totals of all subsets, and of these  *)
(* the last.                                                               *)
LEMMA Unfold ==
  ASSUME NEW f, NEW S
  PROVE  SumFunctionOnSet(f, S) = (CHOOSE g : Totals(SUBSET S, f, g))[S]
BY DEF SumFunctionOnSet, FoldFunctionOnSet, MapThenFoldSet, Totals, Pick

(* Taken out of a set is one of its elements. *)
LEMMA PickIn == \A s : s # {} => Pick(s) \in s
BY DEF Pick

(* A finite set without one of its elements. *)
LEMMA LessOne ==
  ASSUME NEW s, IsFiniteSet(s), NEW x \in s
  PROVE  /\ IsFiniteSet(s \ {x}) /\ Cardinality(s \ {x}) \in Nat
         /\ Cardinality(s) = Cardinality(s \ {x}) + 1
<1>1. /\ IsFiniteSet(s \ {x})
      /\ Cardinality(s \ {x}) = Cardinality(s) - 1
  BY FS_RemoveElement
<1>2. Cardinality(s \ {x}) \in Nat /\ Cardinality(s) \in Nat
  BY <1>1, FS_CardinalityType
<1>3. QED
  BY <1>1, <1>2

(* The subsets of S of at most n elements. *)
Small(S, n) == {s \in SUBSET S : Cardinality(s) <= n}

(* The recursion defines something: totals of the subsets of at most n         *)
(* elements extend to those of n + 1.                                       *)
LEMMA TotalsExist ==
  ASSUME NEW S, IsFiniteSet(S), NEW f
  PROVE  \E g : Totals(SUBSET S, f, g)
<1> DEFINE T == {n \in Nat : \E g : Totals(Small(S, n), f, g)}
<1>1. 0 \in T
  <2>1. \A s \in Small(S, 0) : s = {}
    BY FS_Subset, FS_EmptySet, FS_CardinalityType DEF Small
  <2>2. Totals(Small(S, 0), f, [s \in Small(S, 0) |-> 0])
    BY <2>1 DEF Totals
  <2>3. QED
    BY <2>2
<1>2. ASSUME NEW n \in T PROVE n + 1 \in T
  <2>1. PICK g : Totals(Small(S, n), f, g)
    OBVIOUS
  <2> DEFINE h == [s \in Small(S, n + 1) |->
                     IF s = {} THEN 0 ELSE f[Pick(s)] + g[s \ {Pick(s)}]]
  <2>2. ASSUME NEW s \in Small(S, n + 1), s # {}
        PROVE  s \ {Pick(s)} \in Small(S, n)
    BY <2>2, PickIn, LessOne, FS_Subset, FS_CardinalityType DEF Small
  <2>3. ASSUME NEW s \in Small(S, n) PROVE s \in Small(S, n + 1) /\ h[s] = g[s]
    <3>1. s \in Small(S, n + 1)
      BY FS_Subset, FS_CardinalityType DEF Small
    <3>2. h[s] = IF s = {} THEN 0 ELSE f[Pick(s)] + g[s \ {Pick(s)}]
      BY <3>1
    <3>3. g[s] = IF s = {} THEN 0 ELSE f[Pick(s)] + g[s \ {Pick(s)}]
      BY <2>1 DEF Totals
    <3>4. QED
      BY <3>1, <3>2, <3>3
  <2>4. Totals(Small(S, n + 1), f, h)
    <3>1. \A s \in Small(S, n + 1) :
            (IF s = {} THEN 0 ELSE f[Pick(s)] + g[s \ {Pick(s)}])
              = (IF s = {} THEN 0 ELSE f[Pick(s)] + h[s \ {Pick(s)}])
      BY <2>2, <2>3
    <3> HIDE DEF h
    <3>2. h = [s \in Small(S, n + 1) |->
                     IF s = {} THEN 0 ELSE f[Pick(s)] + g[s \ {Pick(s)}]]
      BY DEF h
    <3>3. QED
      BY <3>1, <3>2 DEF Totals
  <2>5. QED
    BY <2>4
<1>3. T = Nat
  BY <1>1, <1>2, NatSets
<1>4. Cardinality(S) \in Nat /\ Small(S, Cardinality(S)) = SUBSET S
  BY FS_CardinalityType, FS_Subset DEF Small
<1>5. \E g : Totals(Small(S, Cardinality(S)), f, g)
  <2>1. Cardinality(S) \in T
    BY <1>3, <1>4
  <2>2. QED
    BY <2>1
<1>6. QED
  BY <1>4, <1>5

(* What the totals do: the empty sum is zero, and any element of s, not only *)
(* the one the recursion takes, adds its value to the sum over the others.   *)
Steps(S, f, g) ==
  /\ g[{}] = 0
  /\ \A s \in SUBSET S : g[s] \in Int /\ \A x \in s : g[s] = f[x] + g[s \ {x}]

(* The same, adding an element. *)
LEMMA StepsUp ==
  ASSUME NEW S, NEW f, NEW g, Steps(S, f, g), NEW s \in SUBSET S, NEW x \in S, x \notin s
  PROVE  g[s \cup {x}] = f[x] + g[s]
<1>1. (s \cup {x}) \ {x} = s /\ s \cup {x} \in SUBSET S
  OBVIOUS
<1>2. QED
  BY <1>1 DEF Steps

(* Which element the recursion takes does not matter: two that are taken one  *)
(* after the other may change places.                                       *)
LEMMA TotalsStep ==
  ASSUME NEW S, IsFiniteSet(S), NEW f, \A x \in S : f[x] \in Int,
         NEW g, Totals(SUBSET S, f, g)
  PROVE  Steps(S, f, g)
<1> DEFINE Good(s) == g[s] \in Int /\ \A x \in s : g[s] = f[x] + g[s \ {x}]
<1> DEFINE T == {n \in Nat : \A s \in Small(S, n) : Good(s)}
<1>0. \A s \in SUBSET S : g[s] = IF s = {} THEN 0 ELSE f[Pick(s)] + g[s \ {Pick(s)}]
  BY DEF Totals
<1>1. \A s \in SUBSET S : IsFiniteSet(s) /\ Cardinality(s) \in Nat
  BY FS_Subset, FS_CardinalityType
<1>2. 0 \in T
  BY <1>0, <1>1, FS_EmptySet DEF Small
<1>3. ASSUME NEW n \in T PROVE n + 1 \in T
  <2>1. SUFFICES ASSUME NEW s \in Small(S, n + 1), s # {} PROVE Good(s)
    BY <1>0
  <2>2. \A x \in s : s \ {x} \in Small(S, n)
    BY <1>1, <2>1, LessOne DEF Small
  <2>3. g[s] = f[Pick(s)] + g[s \ {Pick(s)}] /\ Pick(s) \in s
    BY <1>0, <2>1, PickIn DEF Small
  <2>4. \A x \in s : g[s \ {x}] \in Int /\ f[x] \in Int
    BY <2>2 DEF Small
  <2>5. ASSUME NEW x \in s, x # Pick(s) PROVE g[s] = f[x] + g[s \ {x}]
    <3> DEFINE c == Pick(s)
    <3>0. c \in s /\ g[s] = f[c] + g[s \ {c}] /\ c # x
      BY <2>3, <2>5
    <3> HIDE DEF c
    <3>1. g[s \ {c}] = f[x] + g[(s \ {c}) \ {x}]
      <4>1. Good(s \ {c})
        BY <2>2, <3>0
      <4>2. QED
        BY <3>0, <4>1
    <3>2. g[s \ {x}] = f[c] + g[(s \ {x}) \ {c}]
      <4>1. Good(s \ {x})
        BY <2>2
      <4>2. QED
        BY <3>0, <4>1
    <3>3. (s \ {x}) \ {c} = (s \ {c}) \ {x}
      OBVIOUS
    <3>4. (s \ {x}) \ {c} \in Small(S, n)
      <4>1. s \ {x} \in SUBSET S /\ Cardinality(s \ {x}) <= n /\ IsFiniteSet(s \ {x})
        BY <1>1, <2>2 DEF Small
      <4>2. Cardinality((s \ {x}) \ {c}) <= Cardinality(s \ {x})
        BY <4>1, FS_Subset
      <4>3. (s \ {x}) \ {c} \in SUBSET S
        BY <4>1
      <4>4. QED
        BY <1>1, <4>1, <4>2, <4>3 DEF Small
    <3>5. g[(s \ {x}) \ {c}] \in Int
      <4>1. Good((s \ {x}) \ {c})
        BY <3>4
      <4>2. QED
        BY <4>1
    <3>6. f[x] \in Int /\ f[c] \in Int
      BY <2>4, <3>0
    <3> DEFINE rest == g[(s \ {x}) \ {c}]
    <3>7. rest \in Int /\ g[s] = f[c] + (f[x] + rest) /\ g[s \ {x}] = f[c] + rest
      BY <3>0, <3>1, <3>2, <3>3, <3>5
    <3> HIDE DEF rest
    <3>8. QED
      BY <3>6, <3>7
  <2>6. g[s] \in Int
    <3>1. f[Pick(s)] \in Int /\ g[s \ {Pick(s)}] \in Int
      BY <2>3, <2>4
    <3>2. QED
      BY <2>3, <3>1
  <2>7. QED
    BY <2>3, <2>5, <2>6
<1>4. T = Nat
  <2> HIDE DEF T
  <2>1. T \in SUBSET Nat
    BY DEF T
  <2>2. QED
    BY <1>2, <1>3, <2>1, NatSets
<1>5. QED
  <2>1. SUFFICES ASSUME NEW s \in SUBSET S PROVE Good(s)
    BY <1>0 DEF Steps
  <2>2. s \in Small(S, Cardinality(s))
    BY <1>1 DEF Small
  <2>3. QED
    BY <1>1, <1>4, <2>2

(* The totals that SumFunctionOnSet goes by ... *)
LEMMA TotalsOfSum ==
  ASSUME NEW S, IsFiniteSet(S), NEW f
  PROVE  \E g : Totals(SUBSET S, f, g) /\ SumFunctionOnSet(f, S) = g[S]
<1>1. \E g : Totals(SUBSET S, f, g)
  BY TotalsExist
<1>2. Totals(SUBSET S, f, CHOOSE g : Totals(SUBSET S, f, g))
  BY <1>1
<1>3. QED
  BY <1>2, Unfold

(* The sum over no elements. *)
LEMMA SumOfNothing == ASSUME NEW f PROVE SumFunctionOnSet(f, {}) = 0
BY TotalsOfSum, FS_EmptySet DEF Totals

(* ... and what they do for a function of integers. *)
LEMMA StepsOfSum ==
  ASSUME NEW S, IsFiniteSet(S), NEW f, \A x \in S : f[x] \in Int
  PROVE  \E g : Steps(S, f, g) /\ SumFunctionOnSet(f, S) = g[S]
<1>1. PICK g : Totals(SUBSET S, f, g) /\ SumFunctionOnSet(f, S) = g[S]
  BY TotalsOfSum
<1>2. QED
  BY <1>1, TotalsStep

(* Totals of f have the sum of every function that agrees with f, over every  *)
(* subset: sums do not depend on what the recursion ranges over.            *)
LEMMA StepsAreSums ==
  ASSUME NEW S, IsFiniteSet(S), NEW f, \A x \in S : f[x] \in Int,
         NEW g, Steps(S, f, g),
         NEW U \in SUBSET S, NEW e, \A x \in U : e[x] = f[x]
  PROVE  SumFunctionOnSet(e, U) = g[U]
<1>1. IsFiniteSet(U) /\ \A x \in U : e[x] \in Int
  BY FS_Subset
<1>2. PICK h : Steps(U, e, h) /\ SumFunctionOnSet(e, U) = h[U]
  BY <1>1, StepsOfSum
<1> DEFINE Q == {s \in SUBSET U : h[s] = g[s]}
<1>3. {} \in Q
  BY <1>2 DEF Steps
<1>4. ASSUME NEW s \in Q, NEW x \in U, x \notin s PROVE s \cup {x} \in Q
  <2>1. h[s \cup {x}] = e[x] + h[s]
    BY <1>2, <1>4, StepsUp
  <2>2. g[s \cup {x}] = f[x] + g[s]
    BY <1>4, StepsUp
  <2>3. QED
    BY <2>1, <2>2
<1>5. SUBSET U \subseteq Q
  <2> HIDE DEF Q
  <2>1. QED
    BY <1>1, <1>3, <1>4, SubsetInduction
<1>6. QED
  BY <1>2, <1>5

(* A sum of integers is one, and taking any element out takes its value off. *)
LEMMA SumStep ==
  ASSUME NEW S, IsFiniteSet(S), NEW f, \A y \in S : f[y] \in Int
  PROVE  /\ SumFunctionOnSet(f, S) \in Int
         /\ \A x \in S : SumFunctionOnSet(f, S) = f[x] + SumFunctionOnSet(f, S \ {x})
<1>1. PICK g : Steps(S, f, g) /\ SumFunctionOnSet(f, S) = g[S]
  BY StepsOfSum
<1>2. \A U \in SUBSET S : SumFunctionOnSet(f, U) = g[U]
  BY <1>1, StepsAreSums
<1>3. g[S] \in Int /\ \A x \in S : g[S] = f[x] + g[S \ {x}]
  BY <1>1 DEF Steps
<1>4. QED
  BY <1>1, <1>2, <1>3

(* The sum depends on nothing but the values summed. *)
LEMMA SumOfEquals ==
  ASSUME NEW S, IsFiniteSet(S), NEW f, NEW e, \A x \in S : f[x] \in Int /\ e[x] = f[x]
  PROVE  SumFunctionOnSet(e, S) = SumFunctionOnSet(f, S)
<1>1. PICK g : Steps(S, f, g) /\ SumFunctionOnSet(f, S) = g[S]
  BY StepsOfSum
<1>2. SumFunctionOnSet(e, S) = g[S]
  BY <1>1, StepsAreSums
<1>3. QED
  BY <1>1, <1>2

(* One element more. *)
LEMMA SumAdd ==
  ASSUME NEW S, IsFiniteSet(S), NEW x, x \notin S, NEW f,
         \A y \in S \cup {x} : f[y] \in Int
  PROVE  SumFunctionOnSet(f, S \cup {x}) = f[x] + SumFunctionOnSet(f, S)
<1>1. IsFiniteSet(S \cup {x})
  BY FS_AddElement
<1>2. (S \cup {x}) \ {x} = S
  OBVIOUS
<1>3. QED
  BY <1>1, <1>2, SumStep

(* A sum of naturals is one. *)
LEMMA SumNat ==
  ASSUME NEW S, IsFiniteSet(S), NEW f, \A y \in S : f[y] \in Nat
  PROVE  SumFunctionOnSet(f, S) \in Nat
<1> DEFINE Q == {s \in SUBSET S : SumFunctionOnSet(f, s) \in Nat}
<1>1. {} \in Q
  BY SumOfNothing
<1>2. ASSUME NEW s \in Q, NEW x \in S, x \notin s PROVE s \cup {x} \in Q
  BY <1>2, SumAdd, FS_Subset
<1>3. SUBSET S \subseteq Q
  <2> HIDE DEF Q
  <2>1. QED
    BY <1>1, <1>2, SubsetInduction
<1>4. QED
  BY <1>3

(* The sum over two disjoint sets. *)
LEMMA SumOfUnion ==
  ASSUME NEW S, IsFiniteSet(S), NEW U, IsFiniteSet(U), S \cap U = {}, NEW f,
         \A y \in S \cup U : f[y] \in Int
  PROVE  SumFunctionOnSet(f, S \cup U) = SumFunctionOnSet(f, S) + SumFunctionOnSet(f, U)
<1> DEFINE Q == {s \in SUBSET U :
       SumFunctionOnSet(f, S \cup s) = SumFunctionOnSet(f, S) + SumFunctionOnSet(f, s)}
<1>1. {} \in Q
  BY SumOfNothing, SumStep, S \cup {} = S
<1>2. ASSUME NEW s \in Q, NEW x \in U, x \notin s PROVE s \cup {x} \in Q
  <2>1. IsFiniteSet(s) /\ IsFiniteSet(S \cup s)
    BY FS_Subset, FS_Union
  <2>2. SumFunctionOnSet(f, s \cup {x}) = f[x] + SumFunctionOnSet(f, s)
    BY <1>2, <2>1, SumAdd
  <2>3. SumFunctionOnSet(f, (S \cup s) \cup {x}) = f[x] + SumFunctionOnSet(f, S \cup s)
    <3>1. x \notin S \cup s /\ \A y \in (S \cup s) \cup {x} : f[y] \in Int
      BY <1>2
    <3>2. QED
      BY <2>1, <3>1, SumAdd
  <2>4. /\ SumFunctionOnSet(f, s) \in Int /\ SumFunctionOnSet(f, S) \in Int
    BY <2>1, SumStep
  <2>5. (S \cup s) \cup {x} = S \cup (s \cup {x}) /\ f[x] \in Int
    OBVIOUS
  <2>6. SumFunctionOnSet(f, S \cup (s \cup {x}))
          = f[x] + (SumFunctionOnSet(f, S) + SumFunctionOnSet(f, s))
    BY <2>3, <2>5
  <2>7. QED
    BY <2>2, <2>4, <2>5, <2>6
<1>3. SUBSET U \subseteq Q
  <2> HIDE DEF Q
  <2>1. QED
    BY <1>1, <1>2, SubsetInduction
<1>4. QED
  BY <1>3

(* The sum of two functions, value by value. *)
LEMMA SumOfSums ==
  ASSUME NEW S, IsFiniteSet(S), NEW f, NEW e, NEW h,
         \A y \in S : f[y] \in Int /\ e[y] \in Int /\ h[y] = f[y] + e[y]
  PROVE  SumFunctionOnSet(h, S) = SumFunctionOnSet(f, S) + SumFunctionOnSet(e, S)
<1> DEFINE Q == {s \in SUBSET S :
       SumFunctionOnSet(h, s) = SumFunctionOnSet(f, s) + SumFunctionOnSet(e, s)}
<1>1. {} \in Q
  BY SumOfNothing
<1>2. ASSUME NEW s \in Q, NEW x \in S, x \notin s PROVE s \cup {x} \in Q
  <2>1. IsFiniteSet(s)
    BY FS_Subset
  <2>2. /\ SumFunctionOnSet(h, s \cup {x}) = h[x] + SumFunctionOnSet(h, s)
        /\ SumFunctionOnSet(f, s \cup {x}) = f[x] + SumFunctionOnSet(f, s)
        /\ SumFunctionOnSet(e, s \cup {x}) = e[x] + SumFunctionOnSet(e, s)
    <3>1. /\ \A y \in s \cup {x} : h[y] \in Int
          /\ \A y \in s \cup {x} : f[y] \in Int
          /\ \A y \in s \cup {x} : e[y] \in Int
      OBVIOUS
    <3>2. QED
      BY <1>2, <2>1, <3>1, SumAdd
  <2>3. SumFunctionOnSet(f, s) \in Int /\ SumFunctionOnSet(e, s) \in Int
    BY <2>1, SumStep
  <2>4. QED
    BY <2>2, <2>3
<1>3. SUBSET S \subseteq Q
  <2> HIDE DEF Q
  <2>1. QED
    BY <1>1, <1>2, SubsetInduction
<1>4. QED
  BY <1>3

(* Zeros add up to zero: their sum is twice itself. *)
LEMMA SumOfZeros ==
  ASSUME NEW S, IsFiniteSet(S), NEW f, \A y \in S : f[y] = 0
  PROVE  SumFunctionOnSet(f, S) = 0
<1>1. SumFunctionOnSet(f, S) \in Int
  BY SumStep
<1>2. SumFunctionOnSet(f, S) = SumFunctionOnSet(f, S) + SumFunctionOnSet(f, S)
  <2>1. \A y \in S : f[y] \in Int /\ f[y] \in Int /\ f[y] = f[y] + f[y]
    OBVIOUS
  <2> QED BY <2>1, SumOfSums
<1>3. \A n \in Int : n = n + n => n = 0
  OBVIOUS
<1> QED BY <1>1, <1>2, <1>3

(* What is summed may go by other names. *)
LEMMA SumOfImage ==
  ASSUME NEW S, IsFiniteSet(S), NEW h, \A x, y \in S : h[x] = h[y] => x = y,
         NEW f, NEW e, \A x \in S : f[h[x]] \in Int /\ e[x] = f[h[x]]
  PROVE  /\ IsFiniteSet({h[x] : x \in S})
         /\ SumFunctionOnSet(f, {h[x] : x \in S}) = SumFunctionOnSet(e, S)
<1> DEFINE Im(U) == {h[x] : x \in U}
           Q == {U \in SUBSET S : /\ IsFiniteSet(Im(U))
                                  /\ SumFunctionOnSet(f, Im(U)) = SumFunctionOnSet(e, U)}
<1>1. {} \in Q
  <2>1. Im({}) = {}
    OBVIOUS
  <2> HIDE DEF Im
  <2> QED BY <2>1, SumOfNothing, FS_EmptySet
<1>2. ASSUME NEW U \in Q, NEW x \in S, x \notin U PROVE U \cup {x} \in Q
  <2>1. IsFiniteSet(U) /\ IsFiniteSet(Im(U))
    BY FS_Subset
  <2>2. Im(U \cup {x}) = Im(U) \cup {h[x]} /\ h[x] \notin Im(U)
    BY <1>2
  <2>3. \A y \in Im(U) \cup {h[x]} : f[y] \in Int
    OBVIOUS
  <2>4. \A y \in U \cup {x} : e[y] \in Int
    OBVIOUS
  <2> DEFINE I == Im(U)
  <2>5. IsFiniteSet(I) /\ h[x] \notin I /\ \A y \in I \cup {h[x]} : f[y] \in Int
    BY <2>1, <2>2, <2>3
  <2>6. SumFunctionOnSet(f, I) = SumFunctionOnSet(e, U)
    OBVIOUS
  <2> HIDE DEF I
  <2>7. SumFunctionOnSet(f, I \cup {h[x]}) = f[h[x]] + SumFunctionOnSet(f, I)
    BY <2>5, SumAdd
  <2>8. SumFunctionOnSet(e, U \cup {x}) = e[x] + SumFunctionOnSet(e, U)
    BY <1>2, <2>1, <2>4, SumAdd
  <2>9. IsFiniteSet(I \cup {h[x]})
    BY <2>5, FS_AddElement
  <2>10. Im(U \cup {x}) = I \cup {h[x]}
    BY <2>2 DEF I
  <2> HIDE DEF Im
  <2> QED BY <2>6, <2>7, <2>8, <2>9, <2>10
<1>3. SUBSET S \subseteq Q
  <2> HIDE DEF Q
  <2>1. QED
    BY <1>1, <1>2, SubsetInduction
<1>4. QED
  BY <1>3

(* One value changed. *)
LEMMA SumChange ==
  ASSUME NEW S, IsFiniteSet(S), NEW x \in S, NEW f, NEW e,
         \A y \in S : f[y] \in Int /\ e[y] \in Int,
         \A y \in S : y # x => e[y] = f[y]
  PROVE  SumFunctionOnSet(e, S) = SumFunctionOnSet(f, S) + (e[x] - f[x])
<1>1. IsFiniteSet(S \ {x})
  BY FS_RemoveElement
<1>2. SumFunctionOnSet(e, S \ {x}) = SumFunctionOnSet(f, S \ {x})
  BY <1>1, SumOfEquals
<1>3. /\ SumFunctionOnSet(e, S) = e[x] + SumFunctionOnSet(e, S \ {x})
      /\ SumFunctionOnSet(f, S) = f[x] + SumFunctionOnSet(f, S \ {x})
  <2>1. (\A y \in S : f[y] \in Int) /\ (\A y \in S : e[y] \in Int)
    OBVIOUS
  <2>2. QED
    BY <2>1, SumStep
<1>4. SumFunctionOnSet(f, S \ {x}) \in Int /\ f[x] \in Int /\ e[x] \in Int
  BY <1>1, SumStep
<1>5. QED
  BY <1>2, <1>3, <1>4
=============================================================================
