------------------------------ MODULE NatSets ------------------------------
(* Sets of natural numbers: least and greatest elements, and the ranks of *)
(* the elements of a finite set.                                           *)
EXTENDS Integers, FiniteSetsExt, FiniteSetTheorems, FunctionTheorems, WellFoundedInduction, TLAPS

Less == {ss \in Nat \X Nat : ss[1] < ss[2]}

\* The order of the naturals is well founded.
LEMMA LessWellFounded == IsWellFoundedOn(Less, Nat)
BY NatLessThanWellFounded DEF OpToRel, Less

\* What Less holds of.
LEMMA LessDef == \A x, y \in Nat : <<x, y>> \in Less <=> x < y
BY DEF Less

\* A non-empty set of naturals contains the value Min chooses.
LEMMA MinInSet ==
    ASSUME NEW S, S \subseteq Nat, S # {}
    PROVE  Min(S) \in S /\ \A y \in S : Min(S) <= y
<1>1. PICK x \in S : \A y \in S : ~(<<y, x>> \in Less)
    BY LessWellFounded, WFMin
<1>2. ASSUME NEW y \in S PROVE x <= y
  <2>1. x \in Nat /\ y \in Nat
      OBVIOUS
  <2>2. ~(y < x)
      BY <1>1, <2>1, LessDef
  <2> QED BY <2>1, <2>2
<1> QED BY <1>2 DEF Min

\* A non-empty set of naturals with an upper bound contains the value Max chooses.
LEMMA MaxInSet ==
    ASSUME NEW S, S \subseteq Nat, S # {}, NEW bound \in Nat, \A y \in S : y <= bound
    PROVE  Max(S) \in S /\ \A y \in S : y <= Max(S)
<1> DEFINE U == {n \in Nat : \A y \in S : y <= n}
<1>1. Min(U) \in U /\ \A n \in U : Min(U) <= n
    BY MinInSet
<1>2. Min(U) \in S
  <2>1. SUFFICES ASSUME Min(U) \notin S PROVE FALSE
      OBVIOUS
  <2>2. PICK z \in S : TRUE
      OBVIOUS
  <2>3. \A y \in S : y < Min(U)
      BY <1>1, <2>1
  <2>4. Min(U) - 1 \in U
      BY <1>1, <2>2, <2>3
  <2> QED BY <1>1, <2>4
<1>3. \E x \in S : \A y \in S : x >= y
    BY <1>1, <1>2
<1> HIDE DEF U
<1> QED BY <1>3 DEF Max

-----------------------------------------------------------------------------
(* Ranks.                                                                  *)

\* The elements of I up to j; their number is the rank of j.
Upto(I, j) == {k \in I : k <= j}

\* Ranks are the numbers from 1 to the size of the set, each once, in order.
LEMMA UptoRanks ==
    ASSUME NEW I, I \subseteq Nat, IsFiniteSet(I)
    PROVE  /\ Cardinality(I) \in Nat
           /\ \A j \in I : Cardinality(Upto(I, j)) \in 1 .. Cardinality(I)
           /\ \A j, k \in I : Cardinality(Upto(I, j)) = Cardinality(Upto(I, k)) => j = k
           /\ \A j, k \in I : j < k => Cardinality(Upto(I, j)) < Cardinality(Upto(I, k))
           /\ \A n \in 1 .. Cardinality(I) : \E j \in I : Cardinality(Upto(I, j)) = n
<1> DEFINE N == Cardinality(I)
           f == [j \in I |-> Cardinality(Upto(I, j))]
<1>1. N \in Nat
    BY FS_CardinalityType
<1>2. \A j \in I : /\ IsFiniteSet(Upto(I, j))
                   /\ Cardinality(Upto(I, j)) \in Nat
                   /\ Cardinality(Upto(I, j)) <= N
                   /\ Cardinality(Upto(I, j)) # 0
  <2> TAKE j \in I
  <2>1. Upto(I, j) \in SUBSET I /\ j \in Upto(I, j)
      BY DEF Upto
  <2>2. IsFiniteSet(Upto(I, j)) /\ Cardinality(Upto(I, j)) <= N
      BY <2>1, FS_Subset
  <2>3. Cardinality(Upto(I, j)) \in Nat /\ (Cardinality(Upto(I, j)) = 0 <=> Upto(I, j) = {})
      BY <2>2, FS_CardinalityType, FS_EmptySet
  <2> QED BY <2>1, <2>2, <2>3
<1>3. ASSUME NEW j \in I, NEW k \in I, j < k
      PROVE  Cardinality(Upto(I, j)) < Cardinality(Upto(I, k))
  <2>1. j \in Nat /\ k \in Nat
      OBVIOUS
  <2>2. (\A n \in I : n <= j => n <= k) /\ k <= k /\ ~(k <= j)
      BY <1>3, <2>1
  <2>3. Upto(I, j) \in SUBSET Upto(I, k) /\ k \in Upto(I, k) /\ k \notin Upto(I, j)
      BY <2>2, Zenon DEF Upto
  <2>4. IsFiniteSet(Upto(I, k))
      BY <1>2
  <2>5. Cardinality(Upto(I, j)) <= Cardinality(Upto(I, k))
        /\ Cardinality(Upto(I, j)) # Cardinality(Upto(I, k))
      BY <2>3, <2>4, FS_Subset
  <2> QED BY <1>2, <2>5
<1>4. \A j, k \in I : Cardinality(Upto(I, j)) = Cardinality(Upto(I, k)) => j = k
  <2> TAKE j, k \in I
  <2>1. j < k \/ k < j \/ j = k
      OBVIOUS
  <2> QED BY <1>2, <1>3, <2>1
<1>5. f \in [I -> 1 .. N] /\ \A j, k \in I : f[j] = f[k] => j = k
    BY <1>1, <1>2, <1>4
<1> HIDE DEF f
<1>6. f \in Injection(I, 1 .. N)
    BY <1>5, Fun_IsInj
<1>7. IsFiniteSet(1 .. N) /\ Cardinality(1 .. N) = N
    BY <1>1, FS_Interval
<1>8. f \in Surjection(I, 1 .. N)
    BY <1>6, <1>7, FS_Injection
<1>9. \A n \in 1 .. N : \E j \in I : f[j] = n
    BY <1>8, Fun_SurjectionProperties
<1>10. \A n \in 1 .. N : \E j \in I : Cardinality(Upto(I, j)) = n
    BY <1>9 DEF f
<1> QED BY <1>1, <1>2, <1>3, <1>4, <1>10
=============================================================================
