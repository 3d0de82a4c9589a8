-------------------------------- MODULE Sums --------------------------------
(***************************************************************************)
(* Facts about least and greatest elements, and about the sum of a         *)
(* function over a finite set: the recursion behind SumFunctionOnSet has a *)
(* solution and only one, by smallest counterexample, and what follows of  *)
(* adding and comparing sums.                                              *)
(***************************************************************************)
EXTENDS Integers, FiniteSets, FiniteSetsExt, FiniteSetTheorems, WellFoundedInduction, TLAPS

-----------------------------------------------------------------------------
(* Least and greatest                                                      *)

\* A set of naturals has a least element.
LEMMA LeastOf ==
  ASSUME NEW S, S \subseteq Nat, S # {}
  PROVE  Min(S) \in S /\ \A y \in S : Min(S) <= y
<1> DEFINE Less == {ss \in Nat \X Nat : ss[1] < ss[2]}
<1>1. \E x \in S : \A y \in S : ~(<<y, x>> \in Less)
  <2>1. IsWellFoundedOn(Less, Nat)
    BY NatLessThanWellFounded DEF OpToRel
  <2> HIDE DEF Less
  <2> QED BY <2>1, WFMin
<1>2. \E x \in S : \A y \in S : x <= y
  <2>1. PICK x \in S : \A y \in S : ~(<<y, x>> \in Less)
    BY <1>1
  <2>2. ASSUME NEW y \in S PROVE x <= y
    <3>1. x \in Nat /\ y \in Nat /\ ~(<<y, x>> \in Less)
      BY <2>1
    <3> QED BY <3>1
  <2> QED BY <2>2
<1> QED BY <1>2 DEF Min

\* So has a bounded one a greatest.
LEMMA GreatestOf ==
  ASSUME NEW S, S \subseteq Nat, S # {}, NEW m \in Nat, \A x \in S : x <= m
  PROVE  Max(S) \in S /\ \A y \in S : y <= Max(S)
<1> DEFINE Above == {n \in Nat : \A x \in S : x <= n}
<1>1. Min(Above) \in Above /\ \A n \in Above : Min(Above) <= n
  <2>1. Above \subseteq Nat /\ m \in Above
    OBVIOUS
  <2> HIDE DEF Above
  <2> QED BY <2>1, LeastOf
<1>2. PICK k \in Nat : k = Min(Above)
  BY <1>1
<1>3. (\A x \in S : x <= k) /\ \A n \in Nat : (\A x \in S : x <= n) => k <= n
  BY <1>1, <1>2
<1>4. k \in S
  <2> SUFFICES ASSUME k \notin S PROVE FALSE
    OBVIOUS
  <2>1. \A x \in S : x <= k - 1 /\ k - 1 \in Nat
    BY <1>3
  <2>2. k - 1 \in Nat
    BY <2>1
  <2> QED BY <1>3, <2>1, <2>2
<1>5. \E x \in S : \A y \in S : y <= x
  BY <1>3, <1>4
<1> QED BY <1>5 DEF Max

-----------------------------------------------------------------------------
(* The recursion                                                           *)

Pick(S) == CHOOSE x \in S : TRUE

IsTotal(it, f, S) ==
  it = [s \in SUBSET S |-> IF s = {} THEN 0 ELSE f[Pick(s)] + it[s \ {Pick(s)}]]

\* Of some sets of a finite set's members, one holds no other.
LEMMA SmallestSet ==
  ASSUME NEW S, IsFiniteSet(S), NEW Bad \in SUBSET SUBSET S, Bad # {}
  PROVE  \E T \in Bad : \A U \in Bad : U \subseteq T => U = T
<1>1. IsWellFoundedOn(StrictSubsetOrdering(S), SUBSET S)
  BY FS_StrictSubsetOrderingWellFounded, FS_FiniteSubsetsOfFinite
<1>2. PICK T \in Bad : \A U \in Bad : ~(<<U, T>> \in StrictSubsetOrdering(S))
  BY <1>1, WFMin
<1>3. ASSUME NEW U \in Bad, U \subseteq T PROVE U = T
  BY <1>2, <1>3 DEF StrictSubsetOrdering
<1> QED BY <1>3

LEMMA PickIn == ASSUME NEW S, S # {} PROVE Pick(S) \in S
BY DEF Pick

LEMMA TotalNone ==
  ASSUME NEW f, NEW S, NEW it, IsTotal(it, f, S)
  PROVE  it[{}] = 0
<1> DEFINE Rhs == [u \in SUBSET S |-> IF u = {} THEN 0 ELSE f[Pick(u)] + it[u \ {Pick(u)}]]
<1>1. it = Rhs
  BY DEF IsTotal
<1>2. Rhs[{}] = 0
  OBVIOUS
<1> HIDE DEF Rhs
<1> QED BY <1>1, <1>2

LEMMA TotalSome ==
  ASSUME NEW f, NEW S, NEW it, IsTotal(it, f, S), NEW s, s \subseteq S, s # {}
  PROVE  it[s] = f[Pick(s)] + it[s \ {Pick(s)}]
<1> DEFINE Rhs == [u \in SUBSET S |-> IF u = {} THEN 0 ELSE f[Pick(u)] + it[u \ {Pick(u)}]]
<1>1. it = Rhs
  BY DEF IsTotal
<1>2. Rhs[s] = f[Pick(s)] + it[s \ {Pick(s)}]
  OBVIOUS
<1> HIDE DEF Rhs
<1> QED BY <1>1, <1>2

LEMMA TotalUnique ==
  ASSUME NEW f, NEW S, IsFiniteSet(S), NEW g, IsTotal(g, f, S), NEW h, IsTotal(h, f, S)
  PROVE  g = h
<1> DEFINE Bad == {s \in SUBSET S : g[s] # h[s]}
<1>1. Bad = {}
  <2> SUFFICES ASSUME Bad # {} PROVE FALSE
    OBVIOUS
  <2>1. PICK T \in Bad : \A U \in Bad : U \subseteq T => U = T
    <3>1. Bad \in SUBSET SUBSET S
      OBVIOUS
    <3> HIDE DEF Bad
    <3> QED BY <3>1, SmallestSet
  <2> T \in SUBSET S
    OBVIOUS
  <2> HIDE DEF Bad
  <2>1a. T # {}
    BY <2>1, TotalNone DEF Bad
  <2>2. g[T] = f[Pick(T)] + g[T \ {Pick(T)}]
    BY <2>1a, TotalSome
  <2>3. h[T] = f[Pick(T)] + h[T \ {Pick(T)}]
    BY <2>1a, TotalSome
  <2>4. T # {} /\ g[T \ {Pick(T)}] # h[T \ {Pick(T)}]
    BY <2>1, <2>1a, <2>2, <2>3 DEF Bad
  <2>5. T \ {Pick(T)} \in Bad /\ T \ {Pick(T)} # T
    BY <2>4, PickIn DEF Bad
  <2> QED BY <2>1, <2>5
<1>2. \A s \in SUBSET S : g[s] = h[s]
  BY <1>1
<1>3. g = [s \in SUBSET S |-> g[s]] /\ h = [s \in SUBSET S |-> h[s]]
  BY DEF IsTotal
<1> QED BY <1>2, <1>3

\* A solution on a set is one on each of its subsets.
LEMMA TotalWithin ==
  ASSUME NEW f, NEW S, NEW it, IsTotal(it, f, S), NEW U \in SUBSET S
  PROVE  IsTotal([s \in SUBSET U |-> it[s]], f, U)
<1> DEFINE part == [s \in SUBSET U |-> it[s]]
<1>1. ASSUME NEW s \in SUBSET U
      PROVE  part[s] = IF s = {} THEN 0 ELSE f[Pick(s)] + part[s \ {Pick(s)}]
  <2>1. part[s] = it[s] /\ part[s \ {Pick(s)}] = it[s \ {Pick(s)}]
    OBVIOUS
  <2>2. CASE s = {}
    BY <2>1, <2>2, TotalNone
  <2>3. CASE s # {}
    <3>1. s \subseteq S
      OBVIOUS
    <3>2. it[s] = f[Pick(s)] + it[s \ {Pick(s)}]
      BY <2>3, <3>1, TotalSome
    <3> QED BY <2>1, <2>3, <3>2
  <2> QED BY <2>2, <2>3
<1>2. part = [s \in SUBSET U |-> part[s]]
  OBVIOUS
<1>3. [s \in SUBSET U |-> part[s]] =
        [s \in SUBSET U |-> IF s = {} THEN 0 ELSE f[Pick(s)] + part[s \ {Pick(s)}]]
  <2> HIDE DEF part
  <2> QED BY <1>1
<1>4. IsTotal(part, f, U)
  <2> HIDE DEF part
  <2> QED BY <1>2, <1>3 DEF IsTotal
<1> QED BY <1>4

TotalOf(f, S) == CHOOSE it : IsTotal(it, f, S)

LEMMA TotalExists ==
  ASSUME NEW f, NEW S, IsFiniteSet(S)
  PROVE  IsTotal(TotalOf(f, S), f, S)
<1> DEFINE Bad == {s \in SUBSET S : ~IsTotal(TotalOf(f, s), f, s)}
<1>1. Bad = {}
  <2> SUFFICES ASSUME Bad # {} PROVE FALSE
    OBVIOUS
  <2>1. PICK T \in Bad : \A U \in Bad : U \subseteq T => U = T
    <3>1. Bad \in SUBSET SUBSET S
      OBVIOUS
    <3> HIDE DEF Bad
    <3> QED BY <3>1, SmallestSet
  <2>2. ~IsTotal(TotalOf(f, T), f, T)
    OBVIOUS
  <2>3. ASSUME NEW U \in SUBSET T, U # T PROVE IsTotal(TotalOf(f, U), f, U)
    BY <2>1, <2>3
  <2> DEFINE value(s) == IF s = {} THEN 0
                         ELSE f[Pick(s)] + TotalOf(f, s \ {Pick(s)})[s \ {Pick(s)}]
             it == [s \in SUBSET T |-> value(s)]
  <2> HIDE DEF Bad
  <2>4. IsFiniteSet(T) /\ \A U \in SUBSET T : IsFiniteSet(U)
    <3>1. T \in SUBSET S
      BY DEF Bad
    <3> QED BY <3>1, FS_Subset
  <2>5. ASSUME NEW s \in SUBSET T, s # {}
        PROVE  it[s \ {Pick(s)}] = TotalOf(f, s \ {Pick(s)})[s \ {Pick(s)}]
    <3> DEFINE u == s \ {Pick(s)}
    <3>1. u \in SUBSET T /\ u # T
      BY <2>5, PickIn
    <3>2. it[u] = value(u)
      BY <3>1
    <3>3. CASE u = {}
      <4>1. TotalOf(f, u)[u] = 0
        BY <3>1, <2>3, <3>3, TotalNone
      <4> QED BY <4>1, <3>2, <3>3
    <3>4. CASE u # {}
      <4> DEFINE v == u \ {Pick(u)}
      <4>1. v \in SUBSET u /\ v \in SUBSET T /\ v # T
        BY <3>1
      <4>2. IsTotal(TotalOf(f, u), f, u) /\ IsTotal(TotalOf(f, v), f, v)
        BY <3>1, <4>1, <2>3
      <4>3. TotalOf(f, u)[u] = f[Pick(u)] + TotalOf(f, u)[v]
        <5> HIDE DEF u
        <5> QED BY <3>4, <4>2, TotalSome
      <4>4. IsTotal([r \in SUBSET v |-> TotalOf(f, u)[r]], f, v)
        BY <4>1, <4>2, TotalWithin
      <4>5. TotalOf(f, v) = [r \in SUBSET v |-> TotalOf(f, u)[r]]
        BY <4>1, <4>2, <4>4, <2>4, TotalUnique
      <4>6. TotalOf(f, v)[v] = TotalOf(f, u)[v]
        BY <4>5
      <4> QED BY <3>2, <3>4, <4>3, <4>6
    <3> QED BY <3>3, <3>4
  <2>6. ASSUME NEW s \in SUBSET T
        PROVE  value(s) = IF s = {} THEN 0 ELSE f[Pick(s)] + it[s \ {Pick(s)}]
    BY <2>5
  <2>7. IsTotal(it, f, T)
    <3>1. it = [s \in SUBSET T |-> IF s = {} THEN 0 ELSE f[Pick(s)] + it[s \ {Pick(s)}]]
      <4>1. it = [s \in SUBSET T |-> value(s)]
        OBVIOUS
      <4> HIDE DEF it, value
      <4> QED BY <4>1, <2>6
    <3> HIDE DEF it
    <3> QED BY <3>1 DEF IsTotal
  <2>8. IsTotal(TotalOf(f, T), f, T)
    <3> HIDE DEF it
    <3> QED BY <2>7 DEF TotalOf
  <2> QED BY <2>2, <2>8
<1> QED BY <1>1

LEMMA SumIs ==
  ASSUME NEW f, NEW S
  PROVE  SumFunctionOnSet(f, S) = TotalOf(f, S)[S]
BY Zenon DEF SumFunctionOnSet, FoldFunctionOnSet, MapThenFoldSet, TotalOf, IsTotal, Pick

LEMMA SumOfNone == ASSUME NEW f PROVE SumFunctionOnSet(f, {}) = 0
BY SumIs, TotalExists, TotalNone, FS_EmptySet

LEMMA SumOfPick ==
  ASSUME NEW f, NEW S, IsFiniteSet(S), S # {}
  PROVE  SumFunctionOnSet(f, S) = f[Pick(S)] + SumFunctionOnSet(f, S \ {Pick(S)})
<1> DEFINE rest == S \ {Pick(S)}
<1>1. IsFiniteSet(rest) /\ rest \in SUBSET S
  BY FS_Subset
<1>2. IsTotal(TotalOf(f, S), f, S) /\ IsTotal(TotalOf(f, rest), f, rest)
  BY <1>1, TotalExists
<1>3. TotalOf(f, S)[S] = f[Pick(S)] + TotalOf(f, S)[rest]
  BY <1>2, TotalSome
<1>4. TotalOf(f, rest) = [r \in SUBSET rest |-> TotalOf(f, S)[r]]
  <2>1. IsTotal([r \in SUBSET rest |-> TotalOf(f, S)[r]], f, rest)
    BY <1>1, <1>2, TotalWithin
  <2> HIDE DEF rest
  <2> QED BY <1>1, <1>2, <2>1, TotalUnique
<1>5. TotalOf(f, rest)[rest] = TotalOf(f, S)[rest]
  BY <1>4
<1> QED BY <1>3, <1>5, SumIs

-----------------------------------------------------------------------------
(* Adding and comparing                                                    *)

LEMMA SumInt ==
  ASSUME NEW f, NEW S, IsFiniteSet(S), \A x \in S : f[x] \in Int
  PROVE  SumFunctionOnSet(f, S) \in Int
<1> DEFINE Bad == {s \in SUBSET S : SumFunctionOnSet(f, s) \notin Int}
<1>1. Bad = {}
  <2> SUFFICES ASSUME Bad # {} PROVE FALSE
    OBVIOUS
  <2>1. PICK T \in Bad : \A U \in Bad : U \subseteq T => U = T
    <3>1. Bad \in SUBSET SUBSET S
      OBVIOUS
    <3> HIDE DEF Bad
    <3> QED BY <3>1, SmallestSet
  <2>2. T \subseteq S /\ IsFiniteSet(T)
    BY FS_Subset
  <2>3. T # {}
    BY SumOfNone
  <2>4. Pick(T) \in T /\ SumFunctionOnSet(f, T) = f[Pick(T)] + SumFunctionOnSet(f, T \ {Pick(T)})
    BY <2>2, <2>3, SumOfPick, PickIn
  <2>5. SumFunctionOnSet(f, T \ {Pick(T)}) \in Int
    BY <2>1, <2>2, <2>4
  <2> QED BY <2>2, <2>4, <2>5
<1> QED BY <1>1

\* The sum of a sum.
LEMMA SumAdds ==
  ASSUME NEW f, NEW g, NEW h, NEW S, IsFiniteSet(S),
         \A x \in S : f[x] \in Int /\ g[x] \in Int /\ h[x] = f[x] + g[x]
  PROVE  SumFunctionOnSet(h, S) = SumFunctionOnSet(f, S) + SumFunctionOnSet(g, S)
<1> DEFINE Bad == {s \in SUBSET S : SumFunctionOnSet(h, s) #
                                      SumFunctionOnSet(f, s) + SumFunctionOnSet(g, s)}
<1>1. Bad = {}
  <2> SUFFICES ASSUME Bad # {} PROVE FALSE
    OBVIOUS
  <2>1. PICK T \in Bad : \A U \in Bad : U \subseteq T => U = T
    <3>1. Bad \in SUBSET SUBSET S
      OBVIOUS
    <3> HIDE DEF Bad
    <3> QED BY <3>1, SmallestSet
  <2>2. T \subseteq S /\ IsFiniteSet(T)
    BY FS_Subset
  <2>3. T # {}
    <3>1. SumFunctionOnSet(f, {}) = 0 /\ SumFunctionOnSet(g, {}) = 0 /\ SumFunctionOnSet(h, {}) = 0
      BY SumOfNone
    <3>2. SumFunctionOnSet(h, {}) = SumFunctionOnSet(f, {}) + SumFunctionOnSet(g, {})
      BY <3>1
    <3>3. SumFunctionOnSet(h, T) # SumFunctionOnSet(f, T) + SumFunctionOnSet(g, T)
      OBVIOUS
    <3> HIDE DEF Bad
    <3> QED BY <3>2, <3>3
  <2> DEFINE rest == T \ {Pick(T)}
  <2>4. Pick(T) \in T /\ rest \subseteq S /\ IsFiniteSet(rest)
    BY <2>2, <2>3, PickIn, FS_Subset
  <2>5. /\ SumFunctionOnSet(f, T) = f[Pick(T)] + SumFunctionOnSet(f, rest)
        /\ SumFunctionOnSet(g, T) = g[Pick(T)] + SumFunctionOnSet(g, rest)
        /\ SumFunctionOnSet(h, T) = h[Pick(T)] + SumFunctionOnSet(h, rest)
    BY <2>2, <2>3, SumOfPick
  <2>6. SumFunctionOnSet(h, rest) = SumFunctionOnSet(f, rest) + SumFunctionOnSet(g, rest)
    BY <2>1, <2>4
  <2>7. SumFunctionOnSet(f, rest) \in Int /\ SumFunctionOnSet(g, rest) \in Int
    <3> HIDE DEF rest
    <3> QED BY <2>4, SumInt
  <2>8. SumFunctionOnSet(h, T) = SumFunctionOnSet(f, T) + SumFunctionOnSet(g, T)
    <3> HIDE DEF rest
    <3> QED BY <2>2, <2>4, <2>5, <2>6, <2>7
  <2> QED BY <2>8
<1> QED BY <1>1

LEMMA SumMonotone ==
  ASSUME NEW f, NEW g, NEW S, IsFiniteSet(S),
         \A x \in S : f[x] \in Int /\ g[x] \in Int /\ f[x] <= g[x]
  PROVE  SumFunctionOnSet(f, S) <= SumFunctionOnSet(g, S)
<1> DEFINE Bad == {s \in SUBSET S : ~(SumFunctionOnSet(f, s) <= SumFunctionOnSet(g, s))}
<1>1. Bad = {}
  <2> SUFFICES ASSUME Bad # {} PROVE FALSE
    OBVIOUS
  <2>1. PICK T \in Bad : \A U \in Bad : U \subseteq T => U = T
    <3>1. Bad \in SUBSET SUBSET S
      OBVIOUS
    <3> HIDE DEF Bad
    <3> QED BY <3>1, SmallestSet
  <2>2. T \subseteq S /\ IsFiniteSet(T)
    BY FS_Subset
  <2>3. T # {}
    BY SumOfNone
  <2> DEFINE rest == T \ {Pick(T)}
  <2>4. Pick(T) \in T /\ rest \subseteq S /\ IsFiniteSet(rest)
    BY <2>2, <2>3, PickIn, FS_Subset
  <2>5. /\ SumFunctionOnSet(f, T) = f[Pick(T)] + SumFunctionOnSet(f, rest)
        /\ SumFunctionOnSet(g, T) = g[Pick(T)] + SumFunctionOnSet(g, rest)
    BY <2>2, <2>3, SumOfPick
  <2>6. SumFunctionOnSet(f, rest) <= SumFunctionOnSet(g, rest)
    BY <2>1, <2>4
  <2>7. SumFunctionOnSet(f, rest) \in Int /\ SumFunctionOnSet(g, rest) \in Int
    <3> HIDE DEF rest
    <3> QED BY <2>4, SumInt
  <2>8. SumFunctionOnSet(f, T) <= SumFunctionOnSet(g, T)
    <3> HIDE DEF rest
    <3> QED BY <2>2, <2>4, <2>5, <2>6, <2>7
  <2> QED BY <2>8
<1> QED BY <1>1

LEMMA SumSame ==
  ASSUME NEW f, NEW g, NEW S, IsFiniteSet(S), \A x \in S : f[x] = g[x]
  PROVE  SumFunctionOnSet(f, S) = SumFunctionOnSet(g, S)
<1> DEFINE Bad == {s \in SUBSET S : SumFunctionOnSet(f, s) # SumFunctionOnSet(g, s)}
<1>1. Bad = {}
  <2> SUFFICES ASSUME Bad # {} PROVE FALSE
    OBVIOUS
  <2>1. PICK T \in Bad : \A U \in Bad : U \subseteq T => U = T
    <3>1. Bad \in SUBSET SUBSET S
      OBVIOUS
    <3> HIDE DEF Bad
    <3> QED BY <3>1, SmallestSet
  <2>2. T \subseteq S /\ IsFiniteSet(T)
    BY FS_Subset
  <2>3. T # {}
    BY SumOfNone
  <2>4. Pick(T) \in T
    BY <2>3, PickIn
  <2>5. /\ SumFunctionOnSet(f, T) = f[Pick(T)] + SumFunctionOnSet(f, T \ {Pick(T)})
        /\ SumFunctionOnSet(g, T) = g[Pick(T)] + SumFunctionOnSet(g, T \ {Pick(T)})
    BY <2>2, <2>3, SumOfPick
  <2> QED BY <2>1, <2>2, <2>4, <2>5
<1> QED BY <1>1

\* Any member can be taken first.
LEMMA SumRemoves ==
  ASSUME NEW f, NEW S, IsFiniteSet(S), \A x \in S : f[x] \in Int, NEW a \in S
  PROVE  SumFunctionOnSet(f, S) = f[a] + SumFunctionOnSet(f, S \ {a})
<1> DEFINE Bad == {s \in SUBSET S : \E x \in s : SumFunctionOnSet(f, s) #
                                                   f[x] + SumFunctionOnSet(f, s \ {x})}
<1>1. Bad = {}
  <2> SUFFICES ASSUME Bad # {} PROVE FALSE
    OBVIOUS
  <2>1. PICK T \in Bad : \A U \in Bad : U \subseteq T => U = T
    <3>1. Bad \in SUBSET SUBSET S
      OBVIOUS
    <3> HIDE DEF Bad
    <3> QED BY <3>1, SmallestSet
  <2>2. PICK x \in T : SumFunctionOnSet(f, T) # f[x] + SumFunctionOnSet(f, T \ {x})
    OBVIOUS
  <2>3. T \subseteq S /\ IsFiniteSet(T)
    BY FS_Subset
  <2> DEFINE p == Pick(T)
  <2>4. p \in T /\ SumFunctionOnSet(f, T) = f[p] + SumFunctionOnSet(f, T \ {p})
    BY <2>2, <2>3, SumOfPick, PickIn
  <2>5. p # x
    BY <2>2, <2>4
  <2> HIDE DEF p
  <2>6. SumFunctionOnSet(f, T \ {p}) = f[x] + SumFunctionOnSet(f, (T \ {p}) \ {x})
    <3>1. T \ {p} \notin Bad
      <4>1. T \ {p} # T /\ T \ {p} \subseteq T
        BY <2>4
      <4> HIDE DEF Bad
      <4> QED BY <2>1, <4>1
    <3> QED BY <3>1, <2>2, <2>3, <2>5
  <2>7. SumFunctionOnSet(f, T \ {x}) = f[p] + SumFunctionOnSet(f, (T \ {x}) \ {p})
    <3>1. T \ {x} \notin Bad
      <4>1. T \ {x} # T /\ T \ {x} \subseteq T
        OBVIOUS
      <4> HIDE DEF Bad
      <4> QED BY <2>1, <4>1
    <3> QED BY <3>1, <2>3, <2>4, <2>5
  <2>8. (T \ {p}) \ {x} = (T \ {x}) \ {p}
    OBVIOUS
  <2>9. SumFunctionOnSet(f, (T \ {x}) \ {p}) \in Int
    <3>1. IsFiniteSet((T \ {x}) \ {p}) /\ \A y \in (T \ {x}) \ {p} : f[y] \in Int
      BY <2>3, FS_Subset
    <3> QED BY <3>1, SumInt
  <2>10. f[x] \in Int /\ f[p] \in Int
    BY <2>3, <2>4
  <2>11. SumFunctionOnSet(f, T \ {p}) = f[x] + SumFunctionOnSet(f, (T \ {x}) \ {p})
    BY <2>6, <2>8
  <2>12. SumFunctionOnSet(f, T) = f[x] + SumFunctionOnSet(f, T \ {x})
    <3> HIDE DEF Bad
    <3> QED BY <2>4, <2>7, <2>9, <2>10, <2>11
  <2> QED BY <2>2, <2>12
<1> QED BY <1>1

\* What is left out of a sum of naturals makes it no smaller.
LEMMA SumWithin ==
  ASSUME NEW f, NEW S, IsFiniteSet(S), \A x \in S : f[x] \in Nat, NEW U \in SUBSET S
  PROVE  SumFunctionOnSet(f, U) <= SumFunctionOnSet(f, S)
<1> DEFINE Bad == {s \in SUBSET S : U \subseteq s /\ ~(SumFunctionOnSet(f, U) <= SumFunctionOnSet(f, s))}
<1>1. Bad = {}
  <2> SUFFICES ASSUME Bad # {} PROVE FALSE
    OBVIOUS
  <2>1. PICK T \in Bad : \A V \in Bad : V \subseteq T => V = T
    <3>1. Bad \in SUBSET SUBSET S
      OBVIOUS
    <3> HIDE DEF Bad
    <3> QED BY <3>1, SmallestSet
  <2>2. T \subseteq S /\ IsFiniteSet(T) /\ IsFiniteSet(U)
    BY FS_Subset
  <2>3. SumFunctionOnSet(f, U) \in Int
    BY <2>2, SumInt
  <2>4. PICK x \in T : x \notin U
    BY <2>3
  <2>5. SumFunctionOnSet(f, T) = f[x] + SumFunctionOnSet(f, T \ {x})
    BY <2>2, SumRemoves
  <2>6. SumFunctionOnSet(f, U) <= SumFunctionOnSet(f, T \ {x})
    BY <2>1, <2>2, <2>4
  <2>7. SumFunctionOnSet(f, T \ {x}) \in Int
    <3>1. IsFiniteSet(T \ {x}) /\ \A y \in T \ {x} : f[y] \in Int
      BY <2>2, FS_Subset
    <3> QED BY <3>1, SumInt
  <2>8. f[x] \in Nat
    BY <2>2
  <2>9. SumFunctionOnSet(f, U) <= SumFunctionOnSet(f, T)
    BY <2>3, <2>5, <2>6, <2>7, <2>8
  <2> QED BY <2>9
<1> QED BY <1>1

\* A sum of terms at most k is at most k for each of them.
LEMMA SumAtMost ==
  ASSUME NEW f, NEW S, IsFiniteSet(S), NEW k \in Int, \A x \in S : f[x] \in Int /\ f[x] <= k
  PROVE  SumFunctionOnSet(f, S) <= Cardinality(S) * k
<1> DEFINE Bad == {s \in SUBSET S : ~(SumFunctionOnSet(f, s) <= Cardinality(s) * k)}
<1>1. Bad = {}
  <2> SUFFICES ASSUME Bad # {} PROVE FALSE
    OBVIOUS
  <2>1. PICK T \in Bad : \A U \in Bad : U \subseteq T => U = T
    <3>1. Bad \in SUBSET SUBSET S
      OBVIOUS
    <3> HIDE DEF Bad
    <3> QED BY <3>1, SmallestSet
  <2>2. T \subseteq S /\ IsFiniteSet(T)
    BY FS_Subset
  <2>3. T # {}
    BY SumOfNone, FS_EmptySet
  <2> DEFINE rest == T \ {Pick(T)}
  <2>4. Pick(T) \in T /\ SumFunctionOnSet(f, T) = f[Pick(T)] + SumFunctionOnSet(f, rest)
    BY <2>2, <2>3, SumOfPick, PickIn
  <2>5. rest \subseteq T /\ rest # T /\ IsFiniteSet(rest)
    BY <2>2, <2>4, FS_Subset
  <2>6. SumFunctionOnSet(f, rest) <= Cardinality(rest) * k
    BY <2>1, <2>2, <2>5
  <2>7. SumFunctionOnSet(f, rest) \in Int
    BY <2>2, <2>5, SumInt
  <2>8. PICK n \in Nat : n = Cardinality(rest) /\ Cardinality(T) = n + 1
    BY <2>2, <2>4, <2>5, FS_RemoveElement, FS_CardinalityType
  <2>9. (n + 1) * k = k + n * k /\ n * k \in Int
    OBVIOUS
  <2>10. f[Pick(T)] \in Int /\ f[Pick(T)] <= k
    BY <2>2, <2>4
  <2> HIDE DEF rest
  <2>11. SumFunctionOnSet(f, T) <= k + n * k
    BY <2>4, <2>6, <2>7, <2>8, <2>9, <2>10
  <2> QED BY <2>8, <2>9, <2>11
<1> QED BY <1>1

\* What is zero adds nothing.
LEMMA SumOnly ==
  ASSUME NEW f, NEW S, IsFiniteSet(S), \A x \in S : f[x] \in Int, NEW U \in SUBSET S,
         \A x \in S \ U : f[x] = 0
  PROVE  SumFunctionOnSet(f, U) = SumFunctionOnSet(f, S)
<1> DEFINE Bad == {s \in SUBSET S : U \subseteq s /\ SumFunctionOnSet(f, U) # SumFunctionOnSet(f, s)}
<1>1. Bad = {}
  <2> SUFFICES ASSUME Bad # {} PROVE FALSE
    OBVIOUS
  <2>1. PICK T \in Bad : \A V \in Bad : V \subseteq T => V = T
    <3>1. Bad \in SUBSET SUBSET S
      OBVIOUS
    <3> HIDE DEF Bad
    <3> QED BY <3>1, SmallestSet
  <2>2. T \subseteq S /\ IsFiniteSet(T)
    BY FS_Subset
  <2>3. PICK x \in T : x \notin U
    OBVIOUS
  <2>4. SumFunctionOnSet(f, T) = f[x] + SumFunctionOnSet(f, T \ {x})
    BY <2>2, SumRemoves
  <2>5. SumFunctionOnSet(f, T \ {x}) \in Int
    <3>1. IsFiniteSet(T \ {x}) /\ \A y \in T \ {x} : f[y] \in Int
      BY <2>2, FS_Subset
    <3> QED BY <3>1, SumInt
  <2>6. f[x] = 0
    BY <2>2, <2>3
  <2>7. SumFunctionOnSet(f, T) = SumFunctionOnSet(f, T \ {x})
    BY <2>4, <2>5, <2>6
  <2>8. SumFunctionOnSet(f, U) = SumFunctionOnSet(f, T \ {x})
    BY <2>1, <2>2, <2>3
  <2> QED BY <2>7, <2>8
<1> QED BY <1>1

LEMMA SumScales ==
  ASSUME NEW c \in Int, NEW f, NEW g, NEW S, IsFiniteSet(S),
         \A x \in S : f[x] \in Int /\ g[x] = f[x] * c
  PROVE  SumFunctionOnSet(g, S) = SumFunctionOnSet(f, S) * c
<1> DEFINE Bad == {s \in SUBSET S : SumFunctionOnSet(g, s) # SumFunctionOnSet(f, s) * c}
<1>1. Bad = {}
  <2> SUFFICES ASSUME Bad # {} PROVE FALSE
    OBVIOUS
  <2>1. PICK T \in Bad : \A U \in Bad : U \subseteq T => U = T
    <3>1. Bad \in SUBSET SUBSET S
      OBVIOUS
    <3> HIDE DEF Bad
    <3> QED BY <3>1, SmallestSet
  <2>2. T \subseteq S /\ IsFiniteSet(T)
    BY FS_Subset
  <2>3. SumFunctionOnSet(g, T) # SumFunctionOnSet(f, T) * c
    OBVIOUS
  <2>4. T # {}
    <3>1. SumFunctionOnSet(f, {}) = 0 /\ SumFunctionOnSet(g, {}) = 0
      BY SumOfNone
    <3>2. SumFunctionOnSet(g, {}) = SumFunctionOnSet(f, {}) * c
      BY <3>1
    <3> HIDE DEF Bad
    <3> QED BY <2>3, <3>2
  <2> DEFINE rest == T \ {Pick(T)}
  <2>5. Pick(T) \in T /\ rest \subseteq S /\ IsFiniteSet(rest)
    BY <2>2, <2>4, PickIn, FS_Subset
  <2>6. /\ SumFunctionOnSet(f, T) = f[Pick(T)] + SumFunctionOnSet(f, rest)
        /\ SumFunctionOnSet(g, T) = g[Pick(T)] + SumFunctionOnSet(g, rest)
    BY <2>2, <2>4, SumOfPick
  <2>7. SumFunctionOnSet(g, rest) = SumFunctionOnSet(f, rest) * c
    BY <2>1, <2>5
  <2> HIDE DEF rest, Bad
  <2>8. SumFunctionOnSet(f, rest) \in Int /\ f[Pick(T)] \in Int /\ g[Pick(T)] = f[Pick(T)] * c
    BY <2>2, <2>5, SumInt
  <2>9. \A a, b \in Int : (a + b) * c = a * c + b * c
    OBVIOUS
  <2> QED BY <2>3, <2>6, <2>7, <2>8, <2>9
<1> QED BY <1>1
=============================================================================
