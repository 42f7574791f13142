----------------------------- MODULE CountingLemmas -----------------------------
(***************************************************************************)
(* Facts about natural numbers and finite sets that several proofs need.    *)
(* The provers have no rule of induction; that a set of natural numbers has *)
(* a least member is what takes its place.                                  *)
(***************************************************************************)
EXTENDS Integers, FiniteSets, FiniteSetTheorems, WellFoundedInduction, TLAPS

(* A set of natural numbers that is not empty has a least member: of the sets *)
(* 0..n for its members n, one has no proper subset among them.               *)
LEMMA LeastMember ==
    ASSUME NEW T \in SUBSET Nat, T # {}
    PROVE  \E x \in T : \A y \in T : x <= y
<1> DEFINE Below(n) == 0 .. n
           U == {Below(n) : n \in T}
<1>1. U \subseteq FiniteSubsetsOf(Nat)
  <2> SUFFICES ASSUME NEW n \in T PROVE Below(n) \in FiniteSubsetsOf(Nat)
    OBVIOUS
  <2>1. IsFiniteSet(Below(n))
    BY FS_Interval
  <2> QED
    BY <2>1 DEF FiniteSubsetsOf
<1>2. U # {}
  OBVIOUS
<1>3. IsWellFoundedOn(StrictSubsetOrdering(Nat), FiniteSubsetsOf(Nat))
  BY FS_StrictSubsetOrderingWellFounded
<1> HIDE DEF U
<1>4. PICK b \in U : \A c \in U : ~(<<c, b>> \in StrictSubsetOrdering(Nat))
  BY <1>1, <1>2, <1>3, WFMin
<1>5. PICK x \in T : b = Below(x)
  BY <1>4 DEF U
<1>6. ASSUME NEW y \in T, y < x PROVE FALSE
  <2>1. x \in Below(x) /\ x \notin Below(y)
    BY <1>6
  <2>2. Below(y) \subseteq Below(x) /\ Below(y) # Below(x)
    BY <1>6, <2>1
  <2>3. <<Below(y), Below(x)>> \in (SUBSET Nat) \X (SUBSET Nat)
    OBVIOUS
  <2>4. Below(y) \in U
    BY DEF U
  <2> QED
    BY <1>4, <1>5, <2>2, <2>3, <2>4 DEF StrictSubsetOrdering
<1> QED
  BY <1>6

(* What is taken out of a finite set makes it smaller by at least one, if it *)
(* is not nothing.                                                           *)
LEMMA SmallerByOne ==
    ASSUME NEW S, IsFiniteSet(S), NEW R \in SUBSET S, R # {}
    PROVE  IsFiniteSet(S \ R) /\ Cardinality(S \ R) <= Cardinality(S) - 1
<1>1. PICK x \in R : TRUE
  OBVIOUS
<1>2. IsFiniteSet(S \ {x}) /\ Cardinality(S \ {x}) = Cardinality(S) - 1
  BY FS_RemoveElement
<1>3. S \ R \in SUBSET (S \ {x})
  OBVIOUS
<1> QED
  BY <1>2, <1>3, FS_Subset

-----------------------------------------------------------------------------
(* The members of a finite set of numbers in their order *)

(* How many members come before i. *)
Rank(J, i) == Cardinality({j \in J : j < i})

(* A rank is less than the number of members, *)
LEMMA RankRange ==
    ASSUME NEW J \in SUBSET Nat, IsFiniteSet(J), NEW i \in J
    PROVE  Rank(J, i) \in Nat /\ Cardinality(J) \in Nat /\ Rank(J, i) < Cardinality(J)
<1> DEFINE B == {j \in J : j < i}
<1>1. B \in SUBSET J /\ B # J
  <2>1. i \notin B
    OBVIOUS
  <2> QED
    BY <2>1
<1>2. /\ IsFiniteSet(B) /\ Cardinality(B) <= Cardinality(J)
      /\ Cardinality(B) # Cardinality(J)
  BY <1>1, FS_Subset
<1>3. Cardinality(B) \in Nat /\ Cardinality(J) \in Nat
  BY <1>2, FS_CardinalityType
<1> QED
  BY <1>2, <1>3 DEF Rank

(* it grows with the member, *)
LEMMA RankGrows ==
    ASSUME NEW J \in SUBSET Nat, IsFiniteSet(J), NEW i \in J, NEW k \in J, i < k
    PROVE  Rank(J, i) < Rank(J, k)
<1> DEFINE B == {j \in J : j < i}
           C == {j \in J : j < k}
<1>1. B \in SUBSET C /\ B # C
  <2>1. i \notin B /\ i \in C
    OBVIOUS
  <2>2. \A j \in J : j < i => j < k
    OBVIOUS
  <2> QED
    BY <2>1, <2>2
<1>2. IsFiniteSet(C)
  BY FS_Subset
<1>3. /\ IsFiniteSet(B) /\ Cardinality(B) <= Cardinality(C)
      /\ Cardinality(B) # Cardinality(C)
  BY <1>1, <1>2, FS_Subset
<1>4. Cardinality(B) \in Nat /\ Cardinality(C) \in Nat
  BY <1>2, <1>3, FS_CardinalityType
<1> QED
  BY <1>3, <1>4 DEF Rank

(* so that no two members share one, *)
LEMMA RankUnique ==
    ASSUME NEW J \in SUBSET Nat, IsFiniteSet(J), NEW i \in J, NEW k \in J,
           Rank(J, i) = Rank(J, k)
    PROVE  i = k
<1>1. CASE i < k
  BY <1>1, RankGrows, RankRange
<1>2. CASE k < i
  BY <1>2, RankGrows, RankRange
<1> QED
  BY <1>1, <1>2

(* the ranks of a part of the members are as many as they are, *)
LEMMA RanksOf ==
    ASSUME NEW J \in SUBSET Nat, IsFiniteSet(J), NEW P \in SUBSET J
    PROVE  /\ IsFiniteSet({Rank(J, i) : i \in P})
           /\ Cardinality({Rank(J, i) : i \in P}) = Cardinality(P)
<1> DEFINE R == {Rank(J, i) : i \in P}
           f == [i \in P |-> Rank(J, i)]
<1>1. IsFiniteSet(P)
  BY FS_Subset
<1>2. f \in Bijection(P, R)
  <2>1. \A i, k \in P : Rank(J, i) = Rank(J, k) => i = k
    BY RankUnique
  <2> HIDE DEF R
  <2>2. f \in [P -> R]
    BY DEF R
  <2>3. \A r \in R : \E i \in P : f[i] = r
    BY DEF R
  <2> QED
    BY <2>1, <2>2, <2>3 DEF Bijection, Injection, Surjection, IsInjective
<1> QED
  BY <1>1, <1>2, FS_Bijection DEF ExistsBijection

(* and every number below the number of members is the rank of one. *)
LEMMA RankOnto ==
    ASSUME NEW J \in SUBSET Nat, IsFiniteSet(J), NEW n \in Nat, n < Cardinality(J)
    PROVE  \E i \in J : Rank(J, i) = n
<1> DEFINE R == {Rank(J, i) : i \in J}
           N == 0 .. (Cardinality(J) - 1)
<1>1. Cardinality(J) \in Nat
  BY FS_CardinalityType
<1>2. IsFiniteSet(N) /\ Cardinality(N) = Cardinality(J)
  <2>1. 0 \in Int /\ Cardinality(J) - 1 \in Int /\ ~(0 > Cardinality(J) - 1)
    BY <1>1
  <2>2. /\ IsFiniteSet(N)
        /\ Cardinality(N) = IF 0 > Cardinality(J) - 1 THEN 0 ELSE Cardinality(J) - 1 - 0 + 1
    BY <2>1, FS_Interval
  <2> QED
    BY <1>1, <2>1, <2>2
<1>3. R \in SUBSET N
  BY <1>1, RankRange
<1>4. Cardinality(R) = Cardinality(N)
  BY <1>2, RanksOf
<1>5. R = N
  BY <1>2, <1>3, <1>4, FS_Subset
<1>6. n \in N
  BY <1>1
<1> QED
  BY <1>5, <1>6

-----------------------------------------------------------------------------
(* What an iteration reaches: for every function there is the sequence of its *)
(* iterates, put together from its finite beginnings.                         *)
Iteration(f, S, next, c) ==
    f \in [Nat -> S] /\ f[0] = c /\ \A n \in Nat : f[n + 1] = next[f[n]]

LEMMA Iterates ==
    ASSUME NEW S, NEW next \in [S -> S], NEW c \in S
    PROVE  \E f : Iteration(f, S, next, c)
<1> DEFINE Begin(n) == {g \in [0 .. n -> S] :
                           g[0] = c /\ \A i \in 0 .. n : i + 1 \in 0 .. n => g[i + 1] = next[g[i]]}
           None == {n \in Nat : Begin(n) = {}}
<1>1. None = {}
  <2> SUFFICES ASSUME None # {} PROVE FALSE
    OBVIOUS
  <2>1. PICK n \in None : \A m \in None : n <= m
    <3>1. None \in SUBSET Nat
      OBVIOUS
    <3> HIDE DEF None
    <3> QED
      BY <3>1, LeastMember
  <2>2. n # 0
    <3>1. [i \in 0 .. 0 |-> c] \in Begin(0)
      OBVIOUS
    <3> QED
      BY <3>1
  <2>3. n \in Nat /\ n - 1 \in Nat /\ n - 1 \notin None
    <3>1. n \in Nat /\ \A m \in None : n <= m
      BY <2>1
    <3> HIDE DEF None
    <3> QED
      BY <2>2, <3>1
  <2>4. PICK g \in Begin(n - 1) : TRUE
    BY <2>3
  <2> DEFINE h == [i \in 0 .. n |-> IF i = n THEN next[g[n - 1]] ELSE g[i]]
  <2>5. g \in [0 .. n - 1 -> S] /\ n - 1 \in 0 .. n - 1 /\ 0 \in 0 .. n - 1
    BY <2>3, <2>4
  <2>6. h \in [0 .. n -> S] /\ h[0] = c
    BY <2>2, <2>3, <2>4, <2>5
  <2>7. ASSUME NEW i \in 0 .. n, i + 1 \in 0 .. n PROVE h[i + 1] = next[h[i]]
    <3>1. CASE i + 1 = n
      <4>1. i \in 0 .. n /\ n \in 0 .. n /\ i = n - 1 /\ i # n
        BY <3>1, <2>3, <2>7
      <4>2. h[n] = next[g[n - 1]] /\ h[i] = g[i]
        BY <4>1
      <4> QED
        BY <3>1, <4>1, <4>2
    <3>2. CASE i + 1 # n
      <4>1. i \in 0 .. n - 1 /\ i + 1 \in 0 .. n - 1 /\ i # n
        BY <3>2, <2>3, <2>7
      <4>2. g[i + 1] = next[g[i]]
        BY <4>1, <2>4
      <4> QED
        BY <4>1, <4>2, <3>2, <2>7
    <3> QED
      BY <3>1, <3>2
  <2>8. h \in Begin(n)
    BY <2>6, <2>7
  <2> QED
    BY <2>1, <2>8
<1>2. ASSUME NEW n \in Nat, NEW m \in Nat, NEW g \in Begin(n), NEW h \in Begin(m),
             NEW k \in Nat, k <= n, k <= m
      PROVE  g[k] = h[k]
  <2> DEFINE D == {i \in Nat : i <= n /\ i <= m /\ g[i] # h[i]}
  <2> SUFFICES ASSUME D # {} PROVE FALSE
    BY <1>2
  <2>1. PICK i \in D : \A j \in D : i <= j
    <3>1. D \in SUBSET Nat
      OBVIOUS
    <3> HIDE DEF D
    <3> QED
      BY <3>1, LeastMember
  <2>2. i # 0
    BY <2>1
  <2>3. i - 1 \in 0 .. n /\ i - 1 \in 0 .. m /\ (i - 1) + 1 = i /\ i \in 0 .. n /\ i \in 0 .. m
    BY <2>1, <2>2
  <2>4. g[i - 1] = h[i - 1]
    <3>1. i - 1 \notin D
      BY <2>1, <2>3
    <3> QED
      BY <3>1, <2>3
  <2>5. g[i] = next[g[i - 1]] /\ h[i] = next[h[i - 1]]
    BY <2>3
  <2> QED
    BY <2>1, <2>4, <2>5
<1> DEFINE first(n) == CHOOSE g \in Begin(n) : TRUE
           f == [n \in Nat |-> first(n)[n]]
<1>3. \A n \in Nat : first(n) \in Begin(n)
  BY <1>1
<1> HIDE DEF first
<1>4. f \in [Nat -> S] /\ f[0] = c
  <2>1. \A n \in Nat : first(n)[n] \in S
    BY <1>3
  <2> QED
    BY <2>1, <1>3
<1>5. ASSUME NEW n \in Nat PROVE f[n + 1] = next[f[n]]
  <2>1. n \in 0 .. n + 1 /\ n + 1 \in 0 .. n + 1 /\ n + 1 \in Nat
    OBVIOUS
  <2>2. first(n + 1) \in Begin(n + 1) /\ first(n) \in Begin(n)
    BY <2>1, <1>3
  <2>3. first(n + 1)[n + 1] = next[first(n + 1)[n]]
    BY <2>1, <2>2
  <2>4. first(n + 1)[n] = first(n)[n]
    <3> HIDE DEF Begin
    <3> QED
      BY <2>1, <2>2, <1>2
  <2> QED
    BY <2>1, <2>3, <2>4
<1> QED
  BY <1>4, <1>5 DEF Iteration

-----------------------------------------------------------------------------
(* What a number of steps reach, each by a function of its own.               *)
Steps(f, N, S, step, c) ==
    f \in [0 .. N -> S] /\ f[0] = c /\ \A k \in 1 .. N : f[k] = step[k][f[k - 1]]

LEMMA InSteps ==
    ASSUME NEW N \in Nat, NEW S, NEW step \in [1 .. N -> [S -> S]], NEW c \in S
    PROVE  \E f : Steps(f, N, S, step, c)
<1> DEFINE Begin(n) == {g \in [0 .. n -> S] :
                           g[0] = c /\ \A k \in 1 .. n : g[k] = step[k][g[k - 1]]}
           None == {n \in Nat : n <= N /\ Begin(n) = {}}
<1>1. None = {}
  <2> SUFFICES ASSUME None # {} PROVE FALSE
    OBVIOUS
  <2>1. PICK n \in None : \A m \in None : n <= m
    <3>1. None \in SUBSET Nat
      OBVIOUS
    <3> HIDE DEF None
    <3> QED
      BY <3>1, LeastMember
  <2>2. n # 0
    <3>1. [i \in 0 .. 0 |-> c] \in Begin(0)
      OBVIOUS
    <3> QED
      BY <3>1
  <2>3. n \in Nat /\ n - 1 \in Nat /\ n - 1 \notin None
    <3>1. n \in Nat /\ \A m \in None : n <= m
      BY <2>1
    <3> HIDE DEF None
    <3> QED
      BY <2>2, <3>1
  <2>4. n <= N /\ n \in 1 .. N
    BY <2>1, <2>2, <2>3
  <2>5. PICK g \in Begin(n - 1) : TRUE
    BY <2>3, <2>4
  <2> DEFINE h == [i \in 0 .. n |-> IF i = n THEN step[n][g[n - 1]] ELSE g[i]]
  <2>6. g \in [0 .. n - 1 -> S] /\ n - 1 \in 0 .. n - 1 /\ 0 \in 0 .. n - 1
    BY <2>3, <2>5
  <2>7. step[n][g[n - 1]] \in S
    BY <2>4, <2>6
  <2>8. h \in [0 .. n -> S] /\ h[0] = c
    BY <2>2, <2>3, <2>5, <2>6, <2>7
  <2>9. ASSUME NEW k \in 1 .. n PROVE h[k] = step[k][h[k - 1]]
    <3>1. CASE k = n
      <4>1. n \in 0 .. n /\ n - 1 \in 0 .. n /\ n - 1 # n
        BY <2>3
      <4>2. h[n] = step[n][g[n - 1]] /\ h[n - 1] = g[n - 1]
        BY <4>1
      <4> QED
        BY <3>1, <4>2
    <3>2. CASE k # n
      <4>1. k \in 1 .. n - 1 /\ k \in 0 .. n /\ k - 1 \in 0 .. n /\ k - 1 # n
        BY <3>2, <2>3, <2>9
      <4>2. g[k] = step[k][g[k - 1]]
        BY <4>1, <2>5
      <4> QED
        BY <4>1, <4>2, <3>2
    <3> QED
      BY <3>1, <3>2
  <2>10. h \in Begin(n)
    BY <2>8, <2>9
  <2> QED
    BY <2>1, <2>10
<1>2. PICK f \in Begin(N) : TRUE
  <2>1. N \notin None
    <3> HIDE DEF None
    <3> QED
      BY <1>1
  <2>2. N <= N
    OBVIOUS
  <2>3. Begin(N) # {}
    <3> HIDE DEF Begin
    <3> QED
      BY <2>1, <2>2
  <2> QED
    BY <2>3
<1> QED
  BY <1>2 DEF Steps
=============================================================================
