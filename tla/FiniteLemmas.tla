---- MODULE FiniteLemmas ----
(***************************************************************************)
(* Facts about numbers, finite sets and sums that the proofs of several    *)
(* components use.  An induction is carried out as the search for a least  *)
(* counterexample: the set of counterexamples is a set, and a nonempty one *)
(* has a least element.                                                    *)
(***************************************************************************)
EXTENDS Integers, FiniteSetTheorems, WellFoundedInduction, TLAPS

-----------------------------------------------------------------------------
(* Least elements.                                                         *)

LEMMA LeastOf ==
    ASSUME NEW T, T \subseteq Nat, T # {}
    PROVE  \E x \in T : \A y \in T : x <= y
<1> DEFINE R == {r \in Nat \X Nat : r[1] < r[2]}
<1>1. R = OpToRel(<, Nat)
  BY Zenon DEF OpToRel
<1>2. IsWellFoundedOn(R, Nat)
  BY <1>1, NatLessThanWellFounded, Zenon
<1>3. \A x, y \in Nat : x < y => <<x, y>> \in R
  BY SMT
<1> HIDE DEF R
<1>4. PICK x \in T : \A y \in T : ~(<<y, x>> \in R)
  BY <1>2, WFMin
<1>5. \A y \in T : ~(y < x)
  BY <1>3, <1>4
<1> QED BY <1>5

\* Among sets of elements of a finite set, one that contains no other.
LEMMA LeastSubset ==
    ASSUME NEW S, IsFiniteSet(S), NEW C, C \subseteq SUBSET S, C # {}
    PROVE  \E T \in C : \A U \in C : U \subseteq T => U = T
<1> DEFINE sizes == {Cardinality(T) : T \in C}
<1>1. \A T \in C : IsFiniteSet(T) /\ Cardinality(T) \in Nat
  BY FS_Subset, FS_CardinalityType
<1>2. sizes \subseteq Nat /\ sizes # {}
  BY <1>1
<1> HIDE DEF sizes
<1>3. PICK n \in sizes : \A m \in sizes : n <= m
  BY <1>2, LeastOf
<1>4. PICK T \in C : n = Cardinality(T)
  BY <1>3 DEF sizes
<1>5. ASSUME NEW U \in C, U \subseteq T PROVE U = T
  <2>1. Cardinality(U) \in sizes
    BY DEF sizes
  <2>2. Cardinality(T) <= Cardinality(U) /\ Cardinality(U) <= Cardinality(T)
    BY <1>1, <1>3, <1>4, <1>5, <2>1, FS_Subset
  <2>3. Cardinality(T) = Cardinality(U)
    BY <1>1, <2>2
  <2> QED BY <1>1, <1>5, <2>3, FS_Subset
<1> QED BY <1>5

-----------------------------------------------------------------------------
(* Sums.  MapThenSumSet of the community modules is a recursive function   *)
(* of the subsets of its set, and takes the elements in an order of its    *)
(* own; what is shown here is that neither matters.                        *)

First(T) == CHOOSE x \in T : TRUE

SumStep(it, f, T) == IF T = {} THEN 0 ELSE f[First(T)] + it[T \ {First(T)}]

IsSum(it, f, S) == it = [T \in SUBSET S |-> SumStep(it, f, T)]

LEMMA FirstIn == ASSUME NEW T, T # {} PROVE First(T) \in T
BY DEF First

\* There is such a function: one that is right for all sets with at most n
\* elements gives one for n + 1.
LEMMA SumExists ==
    ASSUME NEW S, IsFiniteSet(S), NEW f
    PROVE  \E it : IsSum(it, f, S)
<1> DEFINE RightTo(n, it) == \A T \in SUBSET S :
               Cardinality(T) <= n => it[T] = SumStep(it, f, T)
           C == {n \in Nat : ~\E it : RightTo(n, it)}
<1>1. \A T \in SUBSET S : IsFiniteSet(T) /\ Cardinality(T) \in Nat
                          /\ Cardinality(T) <= Cardinality(S)
  BY FS_Subset, FS_CardinalityType
<1>2. Cardinality(S) \in Nat
  BY FS_CardinalityType
<1>3. C = {}
  <2> SUFFICES ASSUME C # {} PROVE FALSE
    OBVIOUS
  <2>1. PICK n \in C : \A m \in C : n <= m
    BY LeastOf
  <2>2. CASE n = 0
    <3> DEFINE it == [T \in SUBSET S |-> 0]
    <3>1. ASSUME NEW T \in SUBSET S, Cardinality(T) <= 0 PROVE it[T] = SumStep(it, f, T)
      <4>1. T = {}
        BY <1>1, <3>1, FS_EmptySet
      <4> QED BY <4>1 DEF SumStep
    <3> QED BY <2>2, <3>1
  <2>3. CASE n # 0
    <3>1. n - 1 \in Nat /\ n - 1 \notin C
      BY <2>1, <2>3
    <3>2. PICK it : RightTo(n - 1, it)
      BY <3>1
    <3> DEFINE new == [T \in SUBSET S |-> SumStep(it, f, T)]
    <3>3. ASSUME NEW T \in SUBSET S, Cardinality(T) <= n PROVE new[T] = SumStep(new, f, T)
      <4>1. CASE T = {}
        BY <4>1 DEF SumStep
      <4>2. CASE T # {}
        <5> DEFINE U == T \ {First(T)}
        <5>1. U \in SUBSET S /\ First(T) \in T
          BY <4>2, FirstIn
        <5>2. Cardinality(U) = Cardinality(T) - 1
          BY <1>1, <5>1, FS_RemoveElement
        <5>3. Cardinality(U) <= n - 1
          BY <1>1, <3>3, <5>2
        <5>4. it[U] = SumStep(it, f, U)
          BY <3>2, <5>1, <5>3
        <5>5. new[U] = it[U]
          BY <5>1, <5>4
        <5> QED BY <4>2, <5>5 DEF SumStep
      <4> QED BY <4>1, <4>2
    <3> QED BY <2>1, <3>3
  <2> QED BY <2>2, <2>3
<1>4. PICK it : RightTo(Cardinality(S), it)
  BY <1>2, <1>3
<1> DEFINE sum == [T \in SUBSET S |-> it[T]]
<1>5. ASSUME NEW T \in SUBSET S PROVE sum[T] = SumStep(sum, f, T)
  <2>1. it[T] = SumStep(it, f, T)
    BY <1>1, <1>4
  <2>2. T \ {First(T)} \in SUBSET S
    OBVIOUS
  <2> QED BY <2>1, <2>2 DEF SumStep
<1>6. sum = [T \in SUBSET S |-> SumStep(sum, f, T)]
  BY <1>5
<1> QED BY <1>6 DEF IsSum

\* The sum of f over S.
SumOver(f, S) == (CHOOSE it : IsSum(it, f, S))[S]

\* Whatever functions compute them, the sums of equal terms are equal.
LEMMA SumSame ==
    ASSUME NEW S, IsFiniteSet(S), NEW R, NEW T, T \subseteq S, T \subseteq R,
           NEW f, NEW g, \A x \in T : f[x] = g[x],
           NEW it, IsSum(it, f, S), NEW jt, IsSum(jt, g, R)
    PROVE  it[T] = jt[T]
<1> DEFINE C == {U \in SUBSET T : it[U] # jt[U]}
<1>0. IsFiniteSet(T)
  BY FS_Subset
<1>i. \A U \in SUBSET T : it[U] = SumStep(it, f, U) /\ jt[U] = SumStep(jt, g, U)
  BY DEF IsSum
<1>1. C = {}
  <2> SUFFICES ASSUME C # {} PROVE FALSE
    OBVIOUS
  <2>0. C \subseteq SUBSET T /\ C # {}
    OBVIOUS
  <2>1. PICK U \in C : \A V \in C : V \subseteq U => V = U
    <3> HIDE DEF C
    <3> QED BY <1>0, <2>0, LeastSubset
  <2>2. U # {}
    BY <1>i, <2>1 DEF SumStep
  <2> DEFINE V == U \ {First(U)}
  <2>3. First(U) \in U /\ V \subseteq U /\ V # U
    BY <2>2, FirstIn
  <2>4. it[V] = jt[V]
    BY <2>1, <2>3
  <2> QED BY <1>i, <2>1, <2>2, <2>3, <2>4 DEF SumStep
<1> QED BY <1>1

\* The sums of subsets are numbers, if the terms are.
LEMMA SumType ==
    ASSUME NEW S, IsFiniteSet(S), NEW f, \A x \in S : f[x] \in Nat,
           NEW it, IsSum(it, f, S), NEW T \in SUBSET S
    PROVE  it[T] \in Nat
<1> DEFINE C == {U \in SUBSET S : it[U] \notin Nat}
<1>i. \A U \in SUBSET S : it[U] = SumStep(it, f, U)
  BY DEF IsSum
<1>1. C = {}
  <2> SUFFICES ASSUME C # {} PROVE FALSE
    OBVIOUS
  <2>0. C \subseteq SUBSET S /\ C # {}
    OBVIOUS
  <2>1. PICK U \in C : \A V \in C : V \subseteq U => V = U
    <3> HIDE DEF C
    <3> QED BY <2>0, LeastSubset
  <2>2. U # {}
    <3>1. ASSUME U = {} PROVE it[U] = 0
      BY <1>i, <3>1 DEF SumStep
    <3>2. it[U] \notin Nat
      BY <2>1
    <3> QED BY <3>1, <3>2
  <2> DEFINE V == U \ {First(U)}
  <2>3. First(U) \in U /\ V \subseteq U /\ V # U
    BY <2>2, FirstIn
  <2>4. it[V] \in Nat
    BY <2>1, <2>3
  <2> QED BY <1>i, <2>1, <2>2, <2>3, <2>4 DEF SumStep
<1> QED BY <1>1

\* An element counts once, whenever its turn comes.
LEMMA SumInsert ==
    ASSUME NEW S, IsFiniteSet(S), NEW f, \A x \in S : f[x] \in Nat,
           NEW it, IsSum(it, f, S), NEW T \in SUBSET S, NEW x \in S \ T
    PROVE  it[T \cup {x}] = it[T] + f[x]
<1> DEFINE C == {U \in SUBSET S : \E y \in S \ U : it[U \cup {y}] # it[U] + f[y]}
<1>i. \A U \in SUBSET S : it[U] = SumStep(it, f, U) /\ it[U] \in Nat
  BY SumType DEF IsSum
<1>1. C = {}
  <2> SUFFICES ASSUME C # {} PROVE FALSE
    OBVIOUS
  <2>0. C \subseteq SUBSET S /\ C # {}
    OBVIOUS
  <2>1. PICK U \in C : \A V \in C : V \subseteq U => V = U
    <3> HIDE DEF C
    <3> QED BY <2>0, LeastSubset
  <2>2. PICK y \in S \ U : it[U \cup {y}] # it[U] + f[y]
    BY <2>1
  <2> DEFINE W == U \cup {y}
             z == First(W)
             V == U \ {z}
  <2>3. z \in W /\ W \in SUBSET S /\ W # {}
    BY <2>2, FirstIn
  <2>4. it[W] = f[z] + it[W \ {z}]
    BY <1>i, <2>3 DEF SumStep
  <2> HIDE DEF z
  <2>5. CASE z = y
    <3>1. W \ {z} = U
      BY <2>2, <2>5
    <3>2. it[W] = f[y] + it[U]
      BY <2>4, <2>5, <3>1
    <3>3. it[U] \in Nat /\ f[y] \in Nat
      BY <1>i, <2>2
    <3> HIDE DEF C
    <3> QED BY <2>2, <3>2, <3>3
  <2>6. CASE z # y
    <3>1. z \in U /\ V \subseteq U /\ V # U /\ V \in SUBSET S
      BY <2>3, <2>6
    <3>2. W \ {z} = V \cup {y} /\ V \cup {z} = U /\ y \in S \ V /\ z \in S \ V
      BY <2>2, <2>6, <3>1
    <3>3. V \notin C
      BY <2>1, <3>1
    <3>4. it[V \cup {y}] = it[V] + f[y] /\ it[V \cup {z}] = it[V] + f[z]
      BY <3>1, <3>2, <3>3
    <3>5. it[V] \in Nat /\ f[y] \in Nat /\ f[z] \in Nat
      BY <1>i, <3>1, <3>2
    <3>6. it[W] = f[z] + (it[V] + f[y])
      BY <2>4, <3>2, <3>4
    <3>7. it[U] = it[V] + f[z]
      BY <3>2, <3>4
    <3> HIDE DEF C, V
    <3> QED BY <2>2, <3>5, <3>6, <3>7
  <2> QED BY <2>5, <2>6
<1> QED BY <1>1

\* The same facts about SumOver.
LEMMA SumOverIs ==
    ASSUME NEW S, IsFiniteSet(S), NEW f
    PROVE  IsSum(CHOOSE it : IsSum(it, f, S), f, S)
BY SumExists

LEMMA SumOverType ==
    ASSUME NEW S, IsFiniteSet(S), NEW f, \A x \in S : f[x] \in Nat
    PROVE  SumOver(f, S) \in Nat
BY SumOverIs, SumType DEF SumOver

LEMMA SumOverSame ==
    ASSUME NEW S, IsFiniteSet(S), NEW f, NEW g, \A x \in S : f[x] = g[x]
    PROVE  SumOver(f, S) = SumOver(g, S)
<1> DEFINE it == CHOOSE jt : IsSum(jt, f, S)
           jt == CHOOSE kt : IsSum(kt, g, S)
<1>1. IsSum(it, f, S) /\ IsSum(jt, g, S)
  BY SumOverIs
<1>2. SumOver(f, S) = it[S] /\ SumOver(g, S) = jt[S]
  BY DEF SumOver
<1> HIDE DEF it, jt
<1>3. it[S] = jt[S]
  BY <1>1, SumSame
<1> QED BY <1>2, <1>3

LEMMA SumOverEmpty ==
    ASSUME NEW f
    PROVE  SumOver(f, {}) = 0
<1> DEFINE it == CHOOSE jt : IsSum(jt, f, {})
<1>1. IsSum(it, f, {})
  BY FS_EmptySet, SumOverIs
<1> HIDE DEF it
<1>2. it[{}] = SumStep(it, f, {})
  BY <1>1 DEF IsSum
<1> QED BY <1>2 DEF SumOver, SumStep, it

LEMMA SumOverInsert ==
    ASSUME NEW S, IsFiniteSet(S), NEW f, NEW x, x \notin S, \A y \in S \cup {x} : f[y] \in Nat
    PROVE  SumOver(f, S \cup {x}) = SumOver(f, S) + f[x]
<1> DEFINE R == S \cup {x}
           it == CHOOSE jt : IsSum(jt, f, S)
           jt == CHOOSE kt : IsSum(kt, f, R)
<1>1. IsFiniteSet(R)
  BY FS_AddElement
<1>2. IsSum(it, f, S) /\ IsSum(jt, f, R)
  BY <1>1, SumOverIs
<1>3. SumOver(f, S) = it[S] /\ SumOver(f, R) = jt[R]
  BY DEF SumOver
<1> HIDE DEF it, jt
<1>4. it[S] = jt[S]
  BY <1>2, SumSame
<1>5. jt[S \cup {x}] = jt[S] + f[x]
  BY <1>1, <1>2, SumInsert
<1> QED BY <1>3, <1>4, <1>5

\* Whoever chooses a function that sums has the sum.
LEMMA SumOfChosen ==
    ASSUME NEW S, IsFiniteSet(S), NEW f, NEW sum,
           (\E it : IsSum(it, f, S)) => IsSum(sum, f, S)
    PROVE  sum[S] = SumOver(f, S)
<1> DEFINE jt == CHOOSE kt : IsSum(kt, f, S)
<1>1. IsSum(jt, f, S) /\ SumOver(f, S) = jt[S]
  BY SumOverIs DEF SumOver
<1>2. IsSum(sum, f, S)
  BY SumExists
<1> HIDE DEF jt
<1>3. sum[S] = jt[S]
  BY <1>1, <1>2, SumSame
<1> QED BY <1>1, <1>3

\* More terms give no smaller sum.
LEMMA SumOverSubset ==
    ASSUME NEW S, IsFiniteSet(S), NEW f, \A x \in S : f[x] \in Nat, NEW T, T \subseteq S
    PROVE  SumOver(f, T) <= SumOver(f, S)
<1> DEFINE C == {U \in SUBSET S : T \subseteq U /\ ~(SumOver(f, T) <= SumOver(f, U))}
<1>0. \A U \in SUBSET S : IsFiniteSet(U) /\ SumOver(f, U) \in Nat
  BY FS_Subset, SumOverType
<1>1. C = {}
  <2> SUFFICES ASSUME C # {} PROVE FALSE
    OBVIOUS
  <2>0. C \subseteq SUBSET S
    OBVIOUS
  <2>1. PICK U \in C : \A V \in C : V \subseteq U => V = U
    <3> HIDE DEF C
    <3> QED BY <2>0, LeastSubset
  <2>2. U \in SUBSET S /\ T \subseteq U /\ T # U
    BY <1>0, <2>1
  <2>3. PICK x \in U : x \notin T
    BY <2>2
  <2> DEFINE V == U \ {x}
  <2>4. /\ V \in SUBSET S /\ V \cup {x} = U /\ V \notin C /\ T \subseteq V
        /\ IsFiniteSet(V) /\ x \notin V /\ \A y \in V \cup {x} : f[y] \in Nat
    BY <1>0, <2>1, <2>2, <2>3
  <2>5. SumOver(f, T) <= SumOver(f, V)
    BY <2>4
  <2> HIDE DEF V, C
  <2>6. SumOver(f, V \cup {x}) = SumOver(f, V) + f[x]
    BY <2>4, SumOverInsert
  <2>7. /\ SumOver(f, T) \in Nat /\ SumOver(f, V) \in Nat /\ f[x] \in Nat
        /\ SumOver(f, U) = SumOver(f, V) + f[x]
    BY <1>0, <2>2, <2>4, <2>6
  <2>8. SumOver(f, T) <= SumOver(f, U)
    BY <2>5, <2>7
  <2> QED BY <2>1, <2>8 DEF C
<1> QED BY <1>1

\* Sums over two sets whose elements correspond one to one.
LEMMA SumOverMap ==
    ASSUME NEW S, IsFiniteSet(S), NEW f, \A x \in S : f[x] \in Nat,
           NEW h, \A x, y \in S : h[x] = h[y] => x = y,
           NEW g, \A x \in S : g[h[x]] = f[x]
    PROVE  SumOver(f, S) = SumOver(g, {h[x] : x \in S})
<1> DEFINE Image(U) == {h[x] : x \in U}
           C == {U \in SUBSET S : SumOver(f, U) # SumOver(g, Image(U))}
<1>0. \A U \in SUBSET S : IsFiniteSet(U)
  BY FS_Subset
<1>1. C = {}
  <2> SUFFICES ASSUME C # {} PROVE FALSE
    OBVIOUS
  <2>0. C \subseteq SUBSET S /\ C # {}
    OBVIOUS
  <2>1. PICK U \in C : \A V \in C : V \subseteq U => V = U
    <3> HIDE DEF C
    <3> QED BY <2>0, LeastSubset
  <2>2. U # {}
    <3>1. ASSUME U = {} PROVE FALSE
      <4>1. Image(U) = {}
        BY <3>1
      <4> QED BY <2>1, <3>1, <4>1, SumOverEmpty
    <3> QED BY <3>1
  <2>3. PICK x \in U : TRUE
    BY <2>2
  <2> DEFINE V == U \ {x}
  <2>4. V \subseteq U /\ V # U /\ V \in SUBSET S /\ x \in S /\ x \notin V /\ V \cup {x} = U
    BY <2>3
  <2>5. SumOver(f, V) = SumOver(g, Image(V))
    BY <2>1, <2>4
  <2>6. SumOver(f, U) = SumOver(f, V) + f[x]
    <3>1. IsFiniteSet(V) /\ \A y \in V \cup {x} : f[y] \in Nat
      BY <1>0, <2>4
    <3>2. SumOver(f, V \cup {x}) = SumOver(f, V) + f[x]
      <4>1. x \notin V
        BY <2>4
      <4> HIDE DEF V, C
      <4> QED BY <3>1, <4>1, SumOverInsert
    <3> QED BY <2>4, <3>2
  <2>7. SumOver(g, Image(U)) = SumOver(g, Image(V)) + g[h[x]]
    <3>1. Image(U) = Image(V) \cup {h[x]} /\ h[x] \notin Image(V)
      BY <2>4
    <3>2. \A y \in Image(V) \cup {h[x]} : g[y] \in Nat
      BY <2>4
    <3>3. IsFiniteSet(Image(V))
      <4> DEFINE k == [y \in V |-> h[y]]
      <4>1. k \in Surjection(V, Image(V))
        BY DEF Surjection
      <4> HIDE DEF k, Image, V
      <4> QED BY <1>0, <2>4, <4>1, FS_Surjection
    <3>4. SumOver(g, Image(V) \cup {h[x]}) = SumOver(g, Image(V)) + g[h[x]]
      <4> DEFINE T == Image(V)
                 y == h[x]
      <4>1. y \notin T /\ IsFiniteSet(T) /\ \A z \in T \cup {y} : g[z] \in Nat
        BY <3>1, <3>2, <3>3
      <4> HIDE DEF T, y
      <4>2. SumOver(g, T \cup {y}) = SumOver(g, T) + g[y]
        BY <4>1, SumOverInsert
      <4> QED BY <4>2 DEF T, y
    <3> QED BY <3>1, <3>4
  <2> QED BY <2>1, <2>4, <2>5, <2>6, <2>7
<1> QED BY <1>1

-----------------------------------------------------------------------------
(* Searches.  A breadth-first search that goes as many rounds as there are *)
(* nodes has found everything: what it has is the least set that holds the *)
(* start and is closed under the steps.                                    *)

Onwards(R, next) == UNION {next[m] : m \in R}

IsSearch(seen, n, next, K) ==
    seen = [k \in 0..K |-> IF k = 0 THEN {n} ELSE seen[k - 1] \cup Onwards(seen[k - 1], next)]

LEMMA SearchExists ==
    ASSUME NEW K \in Nat, NEW n, NEW next
    PROVE  \E seen : IsSearch(seen, n, next, K)
<1> DEFINE Round(seen, k) == IF k = 0 THEN {n} ELSE seen[k - 1] \cup Onwards(seen[k - 1], next)
           RightTo(i, seen) == \A k \in 0..i : seen[k] = Round(seen, k)
           C == {i \in Nat : ~\E seen : RightTo(i, seen)}
<1>1. C = {}
  <2> SUFFICES ASSUME C # {} PROVE FALSE
    OBVIOUS
  <2>0. C \subseteq Nat
    OBVIOUS
  <2>1. PICK i \in C : \A j \in C : i <= j
    <3> HIDE DEF C
    <3> QED BY <2>0, LeastOf
  <2>2. CASE i = 0
    <3> DEFINE seen == [k \in 0..0 |-> {n}]
    <3>1. RightTo(0, seen)
      OBVIOUS
    <3> QED BY <2>1, <2>2, <3>1
  <2>3. CASE i # 0
    <3>0. i \in Nat
      BY <2>0, <2>1
    <3>1. i - 1 \in Nat /\ i - 1 \notin C
      <4> HIDE DEF C
      <4>1. i - 1 \in Nat /\ ~(i <= i - 1)
        BY <2>3, <3>0
      <4> QED BY <2>1, <4>1
    <3>2. PICK seen : RightTo(i - 1, seen)
      BY <3>1
    <3> DEFINE new == [k \in 0..i |-> Round(seen, k)]
    <3>3. ASSUME NEW k \in 0..i PROVE new[k] = Round(new, k)
      <4>1. CASE k = 0
        BY <4>1
      <4>2. CASE k # 0
        <5>1. k - 1 \in 0..(i - 1) /\ k - 1 \in 0..i
          BY <4>2
        <5>2. seen[k - 1] = Round(seen, k - 1)
          BY <3>2, <5>1
        <5>3. new[k - 1] = seen[k - 1]
          BY <5>1, <5>2
        <5> QED BY <4>2, <5>3
      <4> QED BY <4>1, <4>2
    <3> QED BY <2>1, <3>3
  <2> QED BY <2>2, <2>3
<1>2. PICK seen : RightTo(K, seen)
  BY <1>1
<1> DEFINE new == [k \in 0..K |-> seen[k]]
<1>3. ASSUME NEW k \in 0..K PROVE new[k] = Round(new, k)
  <2>1. seen[k] = Round(seen, k)
    BY <1>2
  <2>2. k # 0 => k - 1 \in 0..K
    OBVIOUS
  <2> QED BY <2>1, <2>2
<1>4. new = [k \in 0..K |-> Round(new, k)]
  BY <1>3
<1> QED BY <1>4 DEF IsSearch

LEMMA SearchRounds ==
    ASSUME NEW K \in Nat, NEW n, NEW next, NEW seen, IsSearch(seen, n, next, K)
    PROVE  /\ seen[0] = {n}
           /\ \A k \in 0..K : k # 0 =>
                 k - 1 \in 0..K /\ seen[k] = seen[k - 1] \cup Onwards(seen[k - 1], next)
<1> DEFINE Round(k) == IF k = 0 THEN {n} ELSE seen[k - 1] \cup Onwards(seen[k - 1], next)
<1>1. seen = [k \in 0..K |-> Round(k)]
  BY DEF IsSearch
<1> HIDE DEF Round
<1>2. \A k \in 0..K : seen[k] = Round(k)
  BY <1>1
<1>3. 0 \in 0..K /\ \A k \in 0..K : k # 0 => k - 1 \in 0..K
  OBVIOUS
<1>4. Round(0) = {n}
  BY DEF Round
<1>5. \A k \in 0..K : k # 0 => Round(k) = seen[k - 1] \cup Onwards(seen[k - 1], next)
  BY DEF Round
<1> QED BY <1>2, <1>3, <1>4, <1>5

\* What is found is in every set that holds the start and is closed.
LEMMA SearchStays ==
    ASSUME NEW K \in Nat, NEW n, NEW next, NEW seen, IsSearch(seen, n, next, K),
           NEW R, n \in R, \A m \in R : next[m] \subseteq R
    PROVE  \A k \in 0..K : seen[k] \subseteq R
<1> DEFINE C == {k \in 0..K : ~(seen[k] \subseteq R)}
<1>1. C = {}
  <2> SUFFICES ASSUME C # {} PROVE FALSE
    OBVIOUS
  <2>0. C \subseteq Nat
    OBVIOUS
  <2>1. PICK k \in C : \A j \in C : k <= j
    <3> HIDE DEF C
    <3> QED BY <2>0, LeastOf
  <2>2. k # 0
    BY <2>1, SearchRounds
  <2>3. k - 1 \in 0..K /\ k - 1 \notin C
    BY <2>1, <2>2
  <2>4. seen[k - 1] \subseteq R
    BY <2>3
  <2>5. Onwards(seen[k - 1], next) \subseteq R
    BY <2>4 DEF Onwards
  <2>6. seen[k] = seen[k - 1] \cup Onwards(seen[k - 1], next)
    BY <2>1, <2>2, SearchRounds
  <2> QED BY <2>1, <2>4, <2>5, <2>6
<1> QED BY <1>1

\* The start is never lost.
LEMMA SearchKeeps ==
    ASSUME NEW K \in Nat, NEW n, NEW next, NEW seen, IsSearch(seen, n, next, K)
    PROVE  \A k \in 0..K : n \in seen[k]
<1> DEFINE C == {k \in 0..K : n \notin seen[k]}
<1>1. C = {}
  <2> SUFFICES ASSUME C # {} PROVE FALSE
    OBVIOUS
  <2>0. C \subseteq Nat
    OBVIOUS
  <2>1. PICK k \in C : \A j \in C : k <= j
    <3> HIDE DEF C
    <3> QED BY <2>0, LeastOf
  <2>2. k # 0
    BY <2>1, SearchRounds
  <2>3. k - 1 \in 0..K /\ k - 1 \notin C
    BY <2>1, <2>2
  <2>4. seen[k - 1] \subseteq seen[k]
    BY <2>1, <2>2, SearchRounds
  <2> QED BY <2>1, <2>3, <2>4
<1> QED BY <1>1

\* A round that finds nothing new has a closed set; one that does has more
\* nodes than the one before it, which K nodes allow at most K - 1 times.
LEMMA SearchCloses ==
    ASSUME NEW S, IsFiniteSet(S), NEW n \in S, NEW next, \A m \in S : next[m] \subseteq S,
           NEW seen, IsSearch(seen, n, next, Cardinality(S))
    PROVE  LET found == seen[Cardinality(S)] IN
           /\ n \in found /\ found \subseteq S
           /\ \A m \in found : next[m] \subseteq found
<1> DEFINE K == Cardinality(S)
           Stable(R) == \A m \in R : next[m] \subseteq R
           C == {k \in 0..K : ~(k < Cardinality(seen[k]) \/ Stable(seen[k]))}
<1>1. K \in Nat
  BY FS_CardinalityType
<1>2. \A k \in 0..K : seen[k] \subseteq S
  BY <1>1, SearchStays
<1>3. \A k \in 0..K : /\ IsFiniteSet(seen[k]) /\ Cardinality(seen[k]) \in Nat
                      /\ Cardinality(seen[k]) <= K
  BY <1>2, FS_Subset, FS_CardinalityType
<1> HIDE DEF K
<1>4. /\ seen[0] = {n}
      /\ \A k \in 0..K : k # 0 =>
            k - 1 \in 0..K /\ seen[k] = seen[k - 1] \cup Onwards(seen[k - 1], next)
  BY <1>1, SearchRounds DEF K
<1>5. C = {}
  <2> SUFFICES ASSUME C # {} PROVE FALSE
    OBVIOUS
  <2>0. C \subseteq Nat
    OBVIOUS
  <2>1. PICK k \in C : \A j \in C : k <= j
    <3> HIDE DEF C
    <3> QED BY <2>0, LeastOf
  <2>2. k # 0
    <3> SUFFICES ASSUME k = 0 PROVE FALSE
      OBVIOUS
    <3>1. Cardinality({n}) = 1
      BY FS_Singleton
    <3>2. Cardinality(seen[k]) = 1
      BY <1>4, <3>1
    <3> QED BY <2>1, <3>2
  <2> DEFINE R == seen[k - 1]
  <2>3. k - 1 \in 0..K /\ k - 1 \notin C /\ seen[k] = R \cup Onwards(R, next)
    BY <1>1, <1>4, <2>1, <2>2
  <2>4. CASE Stable(R)
    <3>1. Onwards(R, next) \subseteq R
      BY <2>4 DEF Onwards
    <3>2. seen[k] = R
      BY <2>3, <3>1
    <3> QED BY <2>1, <2>4, <3>2
  <2>5. CASE ~Stable(R)
    <3>1. k - 1 < Cardinality(R)
      BY <2>3, <2>5
    <3>2. PICK m \in R : ~(next[m] \subseteq R)
      BY <2>5
    <3>3. PICK x \in next[m] : x \notin R
      BY <3>2
    <3>4. R \cup {x} \subseteq seen[k]
      BY <2>3, <3>3 DEF Onwards
    <3>a. IsFiniteSet(R) /\ Cardinality(R) \in Nat
      BY <1>3, <2>3
    <3>b. k \in 0..K /\ IsFiniteSet(seen[k]) /\ Cardinality(seen[k]) \in Nat
      BY <1>3, <2>1
    <3> HIDE DEF R, C
    <3>5. Cardinality(R \cup {x}) = Cardinality(R) + 1
      BY <3>3, <3>a, FS_AddElement
    <3>6. Cardinality(R \cup {x}) <= Cardinality(seen[k])
      BY <3>4, <3>b, FS_Subset
    <3>7. k < Cardinality(seen[k])
      BY <1>1, <3>1, <3>5, <3>6, <3>a, <3>b
    <3> QED BY <2>1, <3>7 DEF C
  <2> QED BY <2>4, <2>5
<1>6. K \in 0..K
  BY <1>1
<1>7. Stable(seen[K])
  BY <1>1, <1>3, <1>5, <1>6
<1>8. n \in seen[K]
  BY <1>1, <1>6, SearchKeeps DEF K
<1> QED BY <1>2, <1>6, <1>7, <1>8 DEF K
====
