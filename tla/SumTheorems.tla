---------------------------- MODULE SumTheorems ----------------------------
(***************************************************************************)
(* The sum of a function over a finite set, as the folds of the library    *)
(* compute it: what it is for a set that gains or loses a member, and for  *)
(* a function that changes at one point.                                   *)
(*                                                                         *)
(* The library's fold is a recursive function on the subsets of the set,   *)
(* chosen by CHOOSE.  No induction theorem is needed to reason about it:   *)
(* the subsets of a finite set are well founded under inclusion, so that a *)
(* claim about all of them fails, if at all, at a smallest one             *)
(* (SmallestSet), and at a smallest one the recursion refutes it.          *)
(***************************************************************************)
EXTENDS Integers, FiniteSets, FiniteSetsExt, FiniteSetTheorems, TLAPS

(* The fold of the library for a function given as a value.                *)
SumOver(f, S) == MapThenSumSet(LAMBDA x : f[x], S)

(* The member of a set the fold takes next.                                *)
Pick(s) == CHOOSE x \in s : TRUE

(* g is a solution of the fold's recursion on the subsets of S.            *)
Adds(g, f, S) ==
  g = [s \in SUBSET S |-> IF s = {} THEN 0 ELSE f[Pick(s)] + g[s \ {Pick(s)}]]

(* Any family of subsets of a finite set has a smallest one.               *)
LEMMA SmallestSet ==
  ASSUME NEW S, IsFiniteSet(S), NEW Q, Q \subseteq SUBSET S, Q # {}
  PROVE  \E T \in Q : \A U \in Q : U \subseteq T => U = T
<1>1. Q \subseteq FiniteSubsetsOf(S)
  BY FS_FiniteSubsetsOfFinite
<1>2. PICK T \in Q : \A U \in Q : ~(<<U, T>> \in StrictSubsetOrdering(S))
  BY <1>1, FS_StrictSubsetOrderingWellFounded, WFMin
<1> QED
  BY <1>2 DEF StrictSubsetOrdering

(* A set that is not empty gives one of its own members.                   *)
LEMMA PickMember == \A s : s # {} => Pick(s) \in s
BY DEF Pick

(* The recursion at one subset.                                            *)
LEMMA AddsAt ==
  ASSUME NEW f, NEW S, NEW g, Adds(g, f, S), NEW s \in SUBSET S
  PROVE  /\ s = {} => g[s] = 0
         /\ s # {} => g[s] = f[Pick(s)] + g[s \ {Pick(s)}]
BY DEF Adds

(* Two solutions of the recursion agree.                                   *)
LEMMA AddsOnce ==
  ASSUME NEW f, NEW S, IsFiniteSet(S), NEW g, NEW h, Adds(g, f, S), Adds(h, f, S)
  PROVE  g = h
<1> DEFINE Q == {s \in SUBSET S : g[s] # h[s]}
<1>1. ASSUME Q # {} PROVE FALSE
  <2>1. Q \subseteq SUBSET S
    OBVIOUS
  <2> HIDE DEF Q
  <2>2. PICK T \in Q : \A U \in Q : U \subseteq T => U = T
    BY <1>1, <2>1, SmallestSet
  <2> USE DEF Q
  <2>3. T # {}
    BY <2>2, AddsAt
  <2>4. g[T] = f[Pick(T)] + g[T \ {Pick(T)}] /\ h[T] = f[Pick(T)] + h[T \ {Pick(T)}]
    BY <2>2, <2>3, AddsAt
  <2>5. T \ {Pick(T)} \notin Q
    BY <2>2, <2>3, PickMember
  <2> QED
    BY <2>2, <2>4, <2>5
<1>2. g = [s \in SUBSET S |-> g[s]] /\ h = [s \in SUBSET S |-> h[s]]
  BY DEF Adds
<1> QED
  BY <1>1, <1>2

(* A solution on S is one on every subset of S.                            *)
LEMMA AddsBelow ==
  ASSUME NEW f, NEW S, NEW T \in SUBSET S, NEW g, Adds(g, f, S)
  PROVE  Adds([s \in SUBSET T |-> g[s]], f, T)
<1> DEFINE h == [s \in SUBSET T |-> g[s]]
<1>1. ASSUME NEW s \in SUBSET T
      PROVE  h[s] = IF s = {} THEN 0 ELSE f[Pick(s)] + h[s \ {Pick(s)}]
  BY AddsAt
<1> HIDE DEF h
<1>2. h = [s \in SUBSET T |-> IF s = {} THEN 0 ELSE f[Pick(s)] + h[s \ {Pick(s)}]]
  <2>1. h = [s \in SUBSET T |-> h[s]]
    BY DEF h
  <2> QED
    BY <1>1, <2>1
<1> QED
  BY <1>2 DEF h, Adds

(* The recursion has a solution: on a smallest set without one, the        *)
(* solutions below it make one.                                            *)
LEMMA AddsExists ==
  ASSUME NEW f, NEW S, IsFiniteSet(S)
  PROVE  \E g : Adds(g, f, S)
<1> DEFINE Q == {T \in SUBSET S : ~ \E g : Adds(g, f, T)}
<1>1. ASSUME Q # {} PROVE FALSE
  <2>1. Q \subseteq SUBSET S
    OBVIOUS
  <2> HIDE DEF Q
  <2>2. PICK T \in Q : \A U \in Q : U \subseteq T => U = T
    BY <1>1, <2>1, SmallestSet
  <2> USE DEF Q
  <2> DEFINE G(U) == CHOOSE g : Adds(g, f, U)
             h == [U \in SUBSET T |-> IF U = {} THEN 0
                                      ELSE f[Pick(U)] + G(U \ {Pick(U)})[U \ {Pick(U)}]]
  <2>3. ASSUME NEW U \in SUBSET T, U # T PROVE Adds(G(U), f, U)
    <3>1. \E g : Adds(g, f, U)
      BY <2>2, <2>3
    <3> QED
      BY <3>1
  <2> HIDE DEF G
  <2>4. ASSUME NEW V \in SUBSET T, V # T, NEW U \in SUBSET V PROVE G(V)[U] = G(U)[U]
    <3>1. Adds(G(V), f, V) /\ Adds(G(U), f, U)
      BY <2>3, <2>4
    <3>2. Adds([s \in SUBSET U |-> G(V)[s]], f, U)
      BY <3>1, AddsBelow
    <3>3. IsFiniteSet(U)
      BY <2>2, FS_Subset
    <3>4. [s \in SUBSET U |-> G(V)[s]] = G(U)
      BY <3>1, <3>2, <3>3, AddsOnce
    <3> QED
      BY <3>4
  <2>5. ASSUME NEW W \in SUBSET T, W # T PROVE G(W)[W] = h[W]
    <3>1. Adds(G(W), f, W)
      BY <2>3, <2>5
    <3>2. CASE W = {}
      <4>1. G(W)[W] = 0
        BY <3>1, <3>2, AddsAt
      <4>2. h[W] = 0
        BY <3>2
      <4> QED
        BY <4>1, <4>2
    <3>3. CASE W # {}
      <4>1. G(W)[W] = f[Pick(W)] + G(W)[W \ {Pick(W)}]
        BY <3>1, <3>3, AddsAt
      <4>2. G(W)[W \ {Pick(W)}] = G(W \ {Pick(W)})[W \ {Pick(W)}]
        BY <2>4, <2>5
      <4> QED
        BY <3>3, <4>1, <4>2
    <3> QED
      BY <3>2, <3>3
  <2>6. ASSUME NEW U \in SUBSET T
        PROVE  h[U] = IF U = {} THEN 0 ELSE f[Pick(U)] + h[U \ {Pick(U)}]
    <3>1. CASE U = {}
      BY <3>1
    <3>2. CASE U # {}
      <4>1. U \ {Pick(U)} \in SUBSET T /\ U \ {Pick(U)} # T
        BY <3>2, PickMember
      <4>2. G(U \ {Pick(U)})[U \ {Pick(U)}] = h[U \ {Pick(U)}]
        BY <2>5, <4>1
      <4>3. h[U] = f[Pick(U)] + G(U \ {Pick(U)})[U \ {Pick(U)}]
        BY <3>2
      <4> QED
        BY <3>2, <4>2, <4>3
    <3> QED
      BY <3>1, <3>2
  <2>7. h = [U \in SUBSET T |-> h[U]]
    OBVIOUS
  <2> HIDE DEF h
  <2>8. Adds(h, f, T)
    BY <2>6, <2>7 DEF Adds
  <2> QED
    BY <2>2, <2>8
<1> QED
  BY <1>1

(* The fold is what any solution says, on all subsets.                     *)
LEMMA SumSolves ==
  ASSUME NEW f, NEW S, IsFiniteSet(S), NEW g, Adds(g, f, S), NEW T \in SUBSET S
  PROVE  SumOver(f, T) = g[T]
<1> DEFINE k == CHOOSE h : h = [s \in SUBSET T |-> IF s = {} THEN 0
                                                  ELSE f[CHOOSE x \in s : TRUE] + h[s \ {CHOOSE x \in s : TRUE}]]
<1>1. SumOver(f, T) = k[T]
  BY DEF SumOver, MapThenSumSet, MapThenFoldSet
<1>2. Adds([s \in SUBSET T |-> g[s]], f, T)
  BY AddsBelow
<1>3. Adds(k, f, T)
  BY <1>2 DEF Adds, Pick
<1>4. IsFiniteSet(T)
  BY FS_Subset
<1> HIDE DEF k
<1>5. k = [s \in SUBSET T |-> g[s]]
  BY <1>2, <1>3, <1>4, AddsOnce
<1> QED
  BY <1>1, <1>5

(* The fold of the empty set, and the step of the fold.                    *)
LEMMA SumStep ==
  ASSUME NEW f, NEW S, IsFiniteSet(S)
  PROVE  /\ S = {} => SumOver(f, S) = 0
         /\ S # {} => SumOver(f, S) = f[Pick(S)] + SumOver(f, S \ {Pick(S)})
<1>1. PICK g : Adds(g, f, S)
  BY AddsExists
<1>2. \A T \in SUBSET S : SumOver(f, T) = g[T]
  BY <1>1, SumSolves
<1> QED
  BY <1>1, <1>2, AddsAt

(* Functions that agree on the set have the same sum.                      *)
LEMMA SumSame ==
  ASSUME NEW f, NEW h, NEW S, IsFiniteSet(S), \A x \in S : f[x] = h[x]
  PROVE  SumOver(f, S) = SumOver(h, S)
<1>1. PICK g : Adds(g, f, S)
  BY AddsExists
<1>2. ASSUME NEW s \in SUBSET S
      PROVE  g[s] = IF s = {} THEN 0 ELSE h[Pick(s)] + g[s \ {Pick(s)}]
  BY <1>1, AddsAt, PickMember
<1>3. g = [s \in SUBSET S |-> g[s]]
  BY <1>1 DEF Adds
<1>4. Adds(g, h, S)
  BY <1>2, <1>3 DEF Adds
<1> QED
  BY <1>1, <1>4, SumSolves

(* A sum of natural numbers is one.                                        *)
LEMMA SumType ==
  ASSUME NEW f, NEW S, IsFiniteSet(S), \A x \in S : f[x] \in Nat
  PROVE  SumOver(f, S) \in Nat
<1> DEFINE Q == {T \in SUBSET S : SumOver(f, T) \notin Nat}
<1>1. ASSUME Q # {} PROVE FALSE
  <2>1. Q \subseteq SUBSET S
    OBVIOUS
  <2> HIDE DEF Q
  <2>2. PICK T \in Q : \A U \in Q : U \subseteq T => U = T
    BY <1>1, <2>1, SmallestSet
  <2> USE DEF Q
  <2>3. IsFiniteSet(T)
    BY <2>2, FS_Subset
  <2>4. T # {} /\ SumOver(f, T) = f[Pick(T)] + SumOver(f, T \ {Pick(T)})
    <3>1. SumOver(f, T) \notin Nat
      BY <2>2
    <3> HIDE DEF Q
    <3>2. ASSUME T = {} PROVE FALSE
      <4>1. SumOver(f, T) = 0
        BY <2>3, <3>2, SumStep
      <4> QED
        BY <3>1, <4>1
    <3> QED
      BY <2>3, <3>2, SumStep
  <2>5. Pick(T) \in T
    BY <2>4, PickMember
  <2>6. SumOver(f, T \ {Pick(T)}) \in Nat /\ f[Pick(T)] \in Nat
    BY <2>2, <2>5
  <2> QED
    BY <2>2, <2>4, <2>6
<1> QED
  BY <1>1

(* Any member, not only the one the fold picks, can be taken out first.    *)
LEMMA SumMember ==
  ASSUME NEW f, NEW S, IsFiniteSet(S), \A x \in S : f[x] \in Nat, NEW a \in S
  PROVE  SumOver(f, S) = f[a] + SumOver(f, S \ {a})
<1> DEFINE Q == {T \in SUBSET S : \E x \in T : SumOver(f, T) # f[x] + SumOver(f, T \ {x})}
<1>1. ASSUME Q # {} PROVE FALSE
  <2>1. Q \subseteq SUBSET S
    OBVIOUS
  <2> HIDE DEF Q
  <2>2. PICK T \in Q : \A U \in Q : U \subseteq T => U = T
    BY <1>1, <2>1, SmallestSet
  <2>3. PICK x \in T : SumOver(f, T) # f[x] + SumOver(f, T \ {x})
    BY <2>2 DEF Q
  <2> DEFINE p == Pick(T)
  <2>4. IsFiniteSet(T) /\ T \subseteq S
    BY <2>2, FS_Subset DEF Q
  <2>5. p \in T /\ SumOver(f, T) = f[p] + SumOver(f, T \ {p})
    BY <2>3, <2>4, SumStep, PickMember
  <2> HIDE DEF p
  <2>6. x # p
    BY <2>3, <2>5
  <2>7. SumOver(f, T \ {p}) = f[x] + SumOver(f, (T \ {p}) \ {x})
    <3>1. T \ {p} \notin Q
      BY <2>2, <2>5
    <3> QED
      BY <2>3, <2>4, <2>6, <3>1 DEF Q
  <2>8. SumOver(f, T \ {x}) = f[p] + SumOver(f, (T \ {x}) \ {p})
    <3>1. T \ {x} \notin Q
      BY <2>2, <2>3
    <3> QED
      BY <2>4, <2>5, <2>6, <3>1 DEF Q
  <2>9. (T \ {p}) \ {x} = (T \ {x}) \ {p}
    OBVIOUS
  <2>10. f[x] \in Nat /\ f[p] \in Nat /\ SumOver(f, (T \ {x}) \ {p}) \in Nat
    <3>1. IsFiniteSet((T \ {x}) \ {p})
      BY <2>4, FS_Subset
    <3>2. SumOver(f, (T \ {x}) \ {p}) \in Nat
      BY <2>4, <3>1, SumType
    <3> QED
      BY <2>3, <2>4, <2>5, <3>2
  <2> QED
    BY <2>3, <2>5, <2>7, <2>8, <2>9, <2>10
<1> QED
  BY <1>1

(* A change of one summand changes the sum by as much.                     *)
LEMMA SumUpdate ==
  ASSUME NEW f, NEW h, NEW S, IsFiniteSet(S), NEW a \in S,
         \A x \in S : f[x] \in Nat /\ h[x] \in Nat,
         \A x \in S \ {a} : h[x] = f[x]
  PROVE  SumOver(h, S) = SumOver(f, S) - f[a] + h[a]
<1>1. IsFiniteSet(S \ {a})
  BY FS_Subset
<1>2. SumOver(f, S) = f[a] + SumOver(f, S \ {a}) /\ SumOver(h, S) = h[a] + SumOver(h, S \ {a})
  BY SumMember
<1>3. SumOver(h, S \ {a}) = SumOver(f, S \ {a})
  BY <1>1, SumSame
<1>4. SumOver(f, S \ {a}) \in Nat
  BY <1>1, SumType
<1> QED
  BY <1>2, <1>3, <1>4

(* No summand is above the sum.                                            *)
LEMMA SumBound ==
  ASSUME NEW f, NEW S, IsFiniteSet(S), \A x \in S : f[x] \in Nat, NEW a \in S
  PROVE  f[a] <= SumOver(f, S)
<1>1. IsFiniteSet(S \ {a})
  BY FS_Subset
<1>2. SumOver(f, S) = f[a] + SumOver(f, S \ {a})
  BY SumMember
<1>3. SumOver(f, S \ {a}) \in Nat
  BY <1>1, SumType
<1> QED
  BY <1>2, <1>3

(* A sum of natural numbers over a larger set is not smaller.              *)
LEMMA SumSubset ==
  ASSUME NEW f, NEW S, IsFiniteSet(S), \A x \in S : f[x] \in Nat, NEW T \in SUBSET S
  PROVE  SumOver(f, T) <= SumOver(f, S)
<1> DEFINE Q == {U \in SUBSET S : T \subseteq U /\ ~(SumOver(f, T) <= SumOver(f, U))}
<1>1. ASSUME NEW U \in SUBSET S PROVE IsFiniteSet(U) /\ SumOver(f, U) \in Nat
  <2>1. IsFiniteSet(U)
    BY FS_Subset
  <2> QED
    BY <2>1, SumType
<1>2. ASSUME Q # {} PROVE FALSE
  <2>1. Q \subseteq SUBSET S
    OBVIOUS
  <2> HIDE DEF Q
  <2>2. PICK U \in Q : \A V \in Q : V \subseteq U => V = U
    BY <1>2, <2>1, SmallestSet
  <2>3. U \in SUBSET S /\ T \subseteq U /\ ~(SumOver(f, T) <= SumOver(f, U))
    BY <2>2 DEF Q
  <2>4. U # T
    BY <1>1, <2>3
  <2>5. PICK a \in U : a \notin T
    BY <2>3, <2>4
  <2>6. SumOver(f, T) <= SumOver(f, U \ {a})
    <3>1. U \ {a} \notin Q
      BY <2>2, <2>5
    <3> QED
      BY <2>3, <2>5, <3>1 DEF Q
  <2>7. SumOver(f, U) = f[a] + SumOver(f, U \ {a})
    <3>1. IsFiniteSet(U) /\ \A x \in U : f[x] \in Nat
      BY <1>1, <2>3
    <3> QED
      BY <2>5, <3>1, SumMember
  <2>8. f[a] \in Nat /\ SumOver(f, U \ {a}) \in Nat /\ SumOver(f, T) \in Nat
    BY <1>1, <2>3, <2>5
  <2> QED
    BY <2>3, <2>6, <2>7, <2>8
<1>3. S \notin Q
  BY <1>2
<1> QED
  BY <1>3

(* Where every summand counts at least one, the sum counts the members.    *)
LEMMA SumCounts ==
  ASSUME NEW f, NEW S, IsFiniteSet(S), \A x \in S : f[x] \in Nat /\ f[x] >= 1
  PROVE  Cardinality(S) <= SumOver(f, S)
<1> DEFINE Q == {T \in SUBSET S : ~(Cardinality(T) <= SumOver(f, T))}
<1>1. ASSUME Q # {} PROVE FALSE
  <2>1. Q \subseteq SUBSET S
    OBVIOUS
  <2> HIDE DEF Q
  <2>2. PICK T \in Q : \A U \in Q : U \subseteq T => U = T
    BY <1>1, <2>1, SmallestSet
  <2>3. T \in SUBSET S /\ IsFiniteSet(T) /\ ~(Cardinality(T) <= SumOver(f, T))
    BY <2>2, FS_Subset DEF Q
  <2>4. T # {}
    <3>1. ASSUME T = {} PROVE FALSE
      <4>1. SumOver(f, T) = 0
        BY <2>3, <3>1, SumStep
      <4>2. Cardinality(T) = 0
        BY <3>1, FS_EmptySet
      <4> QED
        BY <2>3, <4>1, <4>2
    <3> QED
      BY <3>1
  <2>5. PICK a \in T : TRUE
    BY <2>4
  <2>6. Cardinality(T \ {a}) <= SumOver(f, T \ {a})
    <3>1. T \ {a} \notin Q
      BY <2>2, <2>5
    <3> QED
      BY <2>3, <3>1 DEF Q
  <2>7. IsFiniteSet(T \ {a}) /\ Cardinality(T \ {a}) = Cardinality(T) - 1
    BY <2>3, <2>5, FS_RemoveElement
  <2>8. Cardinality(T) \in Nat /\ Cardinality(T \ {a}) \in Nat
    BY <2>3, <2>7, FS_CardinalityType
  <2>9. SumOver(f, T) = f[a] + SumOver(f, T \ {a})
    <3>1. \A x \in T : f[x] \in Nat
      BY <2>3
    <3> QED
      BY <2>3, <2>5, <3>1, SumMember
  <2>10. SumOver(f, T \ {a}) \in Nat /\ f[a] \in Nat /\ f[a] >= 1
    <3>1. \A x \in T \ {a} : f[x] \in Nat
      BY <2>3
    <3> QED
      BY <2>3, <2>5, <2>7, <3>1, SumType
  <2> QED
    BY <2>3, <2>6, <2>7, <2>8, <2>9, <2>10
<1>2. S \notin Q
  BY <1>1
<1> QED
  BY <1>2
=============================================================================
