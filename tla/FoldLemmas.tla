----------------------------- MODULE FoldLemmas -----------------------------
(***************************************************************************)
(* What the proofs need of finite sets and sums.  Induction over a finite  *)
(* set is stated with the set of the subsets for which something holds, so *)
(* that it can be used without instantiating an operator; from it follow   *)
(* the least member of a set and the laws of SumFunction, a fold that      *)
(* takes the members in an order nobody knows.                             *)
(***************************************************************************)
EXTENDS Integers, FiniteSets, FiniteSetsExt, FiniteSetTheorems, WellFoundedInduction, TLAPS

\* Induction over the subsets of a finite set, with the sets of which it holds as a set.
LEMMA SubsetInduction ==
  ASSUME NEW S, IsFiniteSet(S), NEW Good,
         \A T \in SUBSET S : (\A U \in SUBSET T : U # T => U \in Good) => T \in Good
  PROVE  SUBSET S \subseteq Good
<1> DEFINE Bad == (SUBSET S) \ Good
<1>1. SUFFICES ASSUME Bad # {} PROVE FALSE
  OBVIOUS
<1>2. /\ IsWellFoundedOn(StrictSubsetOrdering(S), FiniteSubsetsOf(S))
      /\ FiniteSubsetsOf(S) = SUBSET S
  BY FS_StrictSubsetOrderingWellFounded, FS_FiniteSubsetsOfFinite
<1>3. PICK T \in Bad : \A U \in Bad : <<U, T>> \notin StrictSubsetOrdering(S)
  <2> HIDE DEF Bad
  <2>1. Bad \subseteq FiniteSubsetsOf(S)
    BY <1>2 DEF Bad
  <2> QED
    BY <1>1, <1>2, <2>1, WFMin
<1>4. \A U \in SUBSET T : U # T => U \in Good
  BY <1>3 DEF StrictSubsetOrdering
<1> QED
  BY <1>3, <1>4

\* The least member of a finite set of naturals.
LEMMA LeastMember ==
  ASSUME NEW S \in SUBSET Nat, IsFiniteSet(S), S # {}
  PROVE  Min(S) \in S /\ \A n \in S : Min(S) <= n
<1> DEFINE Good == {T \in SUBSET S : T = {} \/ \E x \in T : \A y \in T : x <= y}
<1>1. ASSUME NEW T \in SUBSET S, \A U \in SUBSET T : U # T => U \in Good
      PROVE  T \in Good
  <2>1. SUFFICES ASSUME T # {} PROVE \E x \in T : \A y \in T : x <= y
    OBVIOUS
  <2>2. PICK x \in T : TRUE
    BY <2>1
  <2>3. T \ {x} \in Good
    BY <1>1, <2>2
  <2>4. CASE T \ {x} = {}
    BY <2>2, <2>4
  <2>5. CASE \E z \in T \ {x} : \A y \in T \ {x} : z <= y
    <3>1. PICK z \in T \ {x} : \A y \in T \ {x} : z <= y
      BY <2>5
    <3>2. x \in Nat /\ z \in Nat /\ z \in T /\ T \subseteq Nat
      OBVIOUS
    <3>3. (\A y \in T : x <= y) \/ (\A y \in T : z <= y)
      BY <3>1, <3>2
    <3> QED
      BY <3>3, <3>2
  <2> QED
    BY <2>3, <2>4, <2>5
<1>2. S \in Good
  <2> HIDE DEF Good
  <2> QED
    BY <1>1, SubsetInduction
<1>3. \E x \in S : \A y \in S : x <= y
  BY <1>2
<1> QED
  BY <1>3 DEF Min

-----------------------------------------------------------------------------
(* SumFunction, the fold by which the money is added up.                   *)

\* The member a fold takes first.
FirstTaken(s) == CHOOSE x \in s : TRUE

\* g holds the sum of f over every subset of S.
SumsOver(g, S, f) ==
  g = [s \in SUBSET S |-> IF s = {} THEN 0 ELSE f[FirstTaken(s)] + g[s \ {FirstTaken(s)}]]

Part(f, S) == [x \in S |-> f[x]]
SumOn(f, S) == SumFunction(Part(f, S))

LEMMA SumDef ==
  ASSUME NEW f
  PROVE  SumFunction(f) = (CHOOSE g : SumsOver(g, DOMAIN f, f))[DOMAIN f]
<1>1. SumFunction(f)
        = (CHOOSE g : g = [s \in SUBSET (DOMAIN f) |->
             IF s = {} THEN 0
             ELSE LET x == CHOOSE x \in s : TRUE IN f[x] + g[s \ {x}]])[DOMAIN f]
  BY Zenon DEF SumFunction, SumFunctionOnSet, FoldFunctionOnSet, MapThenFoldSet
<1> QED
  BY <1>1 DEF SumsOver, FirstTaken

\* Two tables of sums agree where both are defined.
LEMMA SumsUnique ==
  ASSUME NEW S, IsFiniteSet(S), NEW T \in SUBSET S, NEW f, NEW e,
         \A x \in T : e[x] = f[x],
         NEW g, NEW h, SumsOver(g, S, f), SumsOver(h, T, e)
  PROVE  \A s \in SUBSET T : g[s] = h[s]
<1> DEFINE Good == {s \in SUBSET T : g[s] = h[s]}
<1>1. IsFiniteSet(T)
  BY FS_Subset
<1>2. ASSUME NEW U \in SUBSET T, \A V \in SUBSET U : V # U => V \in Good
      PROVE  U \in Good
  <2>1. CASE U = {}
    BY <2>1 DEF SumsOver
  <2>2. CASE U # {}
    <3>1. FirstTaken(U) \in U
      BY <2>2 DEF FirstTaken
    <3>2. U \ {FirstTaken(U)} \in Good
      BY <1>2, <3>1
    <3>3. g[U] = f[FirstTaken(U)] + g[U \ {FirstTaken(U)}]
      BY <2>2 DEF SumsOver
    <3>4. h[U] = e[FirstTaken(U)] + h[U \ {FirstTaken(U)}]
      BY <2>2 DEF SumsOver
    <3> QED
      BY <3>1, <3>2, <3>3, <3>4
  <2> QED
    BY <2>1, <2>2
<1>3. SUBSET T \subseteq Good
  <2> HIDE DEF Good
  <2> QED
    BY <1>1, <1>2, SubsetInduction
<1> QED
  BY <1>3

LEMMA SumsExist ==
  ASSUME NEW S, IsFiniteSet(S), NEW f
  PROVE  \A T \in SUBSET S : \E g : SumsOver(g, T, f)
<1> DEFINE Good == {T \in SUBSET S : \E g : SumsOver(g, T, f)}
           Table(T) == CHOOSE g : SumsOver(g, T, f)
<1>1. ASSUME NEW T \in SUBSET S, \A U \in SUBSET T : U # T => U \in Good
      PROVE  T \in Good
  <2> DEFINE Sum(U) == IF U = {} THEN 0 ELSE f[FirstTaken(U)] + Table(U \ {FirstTaken(U)})[U \ {FirstTaken(U)}]
             g == [U \in SUBSET T |-> Sum(U)]
  <2>1. ASSUME NEW U \in SUBSET T, U # T
        PROVE  SumsOver(Table(U), U, f)
    BY <1>1, <2>1
  <2>2. ASSUME NEW U \in SUBSET T, U # T
        PROVE  Table(U)[U] = Sum(U)
    <3>1. CASE U = {}
      <4>1. SumsOver(Table(U), U, f)
        BY <2>1, <2>2
      <4> HIDE DEF Table
      <4> QED
        BY <3>1, <4>1 DEF SumsOver
    <3>2. CASE U # {}
      <4> DEFINE V == U \ {FirstTaken(U)}
      <4>1. FirstTaken(U) \in U
        BY <3>2 DEF FirstTaken
      <4>2. V \in SUBSET U /\ V \in SUBSET T /\ V # T
        BY <4>1
      <4>3. SumsOver(Table(U), U, f) /\ SumsOver(Table(V), V, f)
        BY <2>1, <2>2, <4>2
      <4>4. IsFiniteSet(U)
        BY FS_Subset
      <4>5. Table(U)[V] = Table(V)[V]
        <5> HIDE DEF Table, V
        <5> QED
          BY <4>2, <4>3, <4>4, SumsUnique
      <4>6. Table(U)[U] = f[FirstTaken(U)] + Table(U)[V]
        <5> HIDE DEF Table
        <5> QED
          BY <3>2, <4>3 DEF SumsOver
      <4> QED
        BY <3>2, <4>5, <4>6
    <3> QED
      BY <3>1, <3>2
  <2>3. ASSUME NEW U \in SUBSET T, U # {}
        PROVE  g[U] = f[FirstTaken(U)] + g[U \ {FirstTaken(U)}]
    <3> DEFINE V == U \ {FirstTaken(U)}
    <3>1. FirstTaken(U) \in U
      BY <2>3 DEF FirstTaken
    <3>2. V \in SUBSET T /\ V # T
      BY <3>1
    <3>3. Table(V)[V] = Sum(V)
      <4> HIDE DEF Table, Sum, V
      <4> QED
        BY <2>2, <3>2
    <3>4. g[U] = f[FirstTaken(U)] + Table(V)[V]
      BY <2>3
    <3>5. g[V] = Sum(V)
      <4> HIDE DEF Sum, V
      <4> QED
        BY <3>2
    <3> QED
      BY <3>3, <3>4, <3>5
  <2>4. g[{}] = 0
    OBVIOUS
  <2>5. SumsOver(g, T, f)
    <3>1. g = [U \in SUBSET T |-> g[U]]
      OBVIOUS
    <3> HIDE DEF g
    <3> QED
      BY <2>3, <2>4, <3>1 DEF SumsOver
  <2> QED
    BY <2>5
<1>2. SUBSET S \subseteq Good
  <2> HIDE DEF Good
  <2> QED
    BY <1>1, SubsetInduction
<1> QED
  BY <1>2

\* A sum, by the member the fold takes first.
LEMMA SumStep ==
  ASSUME NEW S, IsFiniteSet(S), NEW f
  PROVE  SumFunction(Part(f, S)) =
           IF S = {} THEN 0 ELSE f[FirstTaken(S)] + SumFunction(Part(f, S \ {FirstTaken(S)}))
<1> DEFINE Table(T) == CHOOSE g : SumsOver(g, T, Part(f, T))
           R == S \ {FirstTaken(S)}
<1>1. ASSUME NEW T \in SUBSET S
      PROVE  SumsOver(Table(T), T, Part(f, T)) /\ SumFunction(Part(f, T)) = Table(T)[T]
  <2>1. IsFiniteSet(T)
    BY FS_Subset
  <2>2. \E g : SumsOver(g, T, Part(f, T))
    BY <2>1, SumsExist
  <2>3. DOMAIN Part(f, T) = T
    BY DEF Part
  <2>4. SumFunction(Part(f, T)) = (CHOOSE g : SumsOver(g, T, Part(f, T)))[T]
    BY <2>3, SumDef
  <2> QED
    BY <2>2, <2>4
<1> HIDE DEF Table
<1>2. CASE S = {}
  BY <1>1, <1>2 DEF SumsOver
<1>3. CASE S # {}
  <2>1. FirstTaken(S) \in S
    BY <1>3 DEF FirstTaken
  <2>2. SumsOver(Table(S), S, Part(f, S)) /\ SumsOver(Table(R), R, Part(f, R))
    BY <1>1
  <2>3. Table(S)[R] = Table(R)[R]
    <3>1. \A x \in R : Part(f, R)[x] = Part(f, S)[x]
      BY DEF Part
    <3> HIDE DEF R
    <3>2. R \in SUBSET S
      BY DEF R
    <3> QED
      BY <2>2, <3>1, <3>2, SumsUnique
  <2>4. Table(S)[S] = f[FirstTaken(S)] + Table(S)[R]
    BY <1>3, <2>1, <2>2 DEF SumsOver, Part
  <2> QED
    BY <1>1, <1>3, <2>3, <2>4
<1> QED
  BY <1>2, <1>3

\* A sum of integers is one, of naturals too.
LEMMA SumType ==
  ASSUME NEW S, IsFiniteSet(S)
  PROVE  /\ \A f \in [S -> Int] : \A T \in SUBSET S : SumFunction(Part(f, T)) \in Int
         /\ \A f \in [S -> Nat] : \A T \in SUBSET S : SumFunction(Part(f, T)) \in Nat
<1>1. ASSUME NEW Num \in {Int, Nat}, NEW f \in [S -> Num]
      PROVE  \A T \in SUBSET S : SumFunction(Part(f, T)) \in Num
  <2> DEFINE Good == {T \in SUBSET S : SumFunction(Part(f, T)) \in Num}
  <2>1. ASSUME NEW T \in SUBSET S, \A U \in SUBSET T : U # T => U \in Good
        PROVE  T \in Good
    <3>1. IsFiniteSet(T)
      BY FS_Subset
    <3>2. CASE T = {}
      <4>1. SumFunction(Part(f, T)) = 0
        BY <3>1, <3>2, SumStep
      <4> QED
        BY <4>1
    <3>3. CASE T # {}
      <4>1. FirstTaken(T) \in T
        BY <3>3 DEF FirstTaken
      <4>2. f[FirstTaken(T)] \in Num /\ SumFunction(Part(f, T \ {FirstTaken(T)})) \in Num
        BY <2>1, <4>1
      <4>3. SumFunction(Part(f, T)) = f[FirstTaken(T)] + SumFunction(Part(f, T \ {FirstTaken(T)}))
        BY <3>1, <3>3, SumStep
      <4> QED
        BY <4>2, <4>3
    <3> QED
      BY <3>2, <3>3
  <2>2. SUBSET S \subseteq Good
    <3> HIDE DEF Good
    <3> QED
      BY <2>1, SubsetInduction
  <2> QED
    BY <2>2
<1> QED
  BY <1>1

\* The sum does not depend on the order: any member may be taken out.
LEMMA SumTakeOut ==
  ASSUME NEW S, IsFiniteSet(S), NEW f \in [S -> Int]
  PROVE  \A T \in SUBSET S : \A x \in T :
           SumOn(f, T) = f[x] + SumOn(f, T \ {x})
<1> DEFINE Sum(T) == SumOn(f, T)
           Good == {T \in SUBSET S : \A x \in T : Sum(T) = f[x] + Sum(T \ {x})}
<1>1. \A T \in SUBSET S : Sum(T) \in Int
  BY SumType DEF SumOn
<1>2. ASSUME NEW T \in SUBSET S, T # {}
      PROVE  FirstTaken(T) \in T /\ Sum(T) = f[FirstTaken(T)] + Sum(T \ {FirstTaken(T)})
  <2>1. IsFiniteSet(T)
    BY FS_Subset
  <2> QED
    BY <1>2, <2>1, SumStep DEF FirstTaken, SumOn
<1> HIDE DEF Sum
<1>3. ASSUME NEW T \in SUBSET S, \A U \in SUBSET T : U # T => U \in Good,
             NEW x \in T
      PROVE  Sum(T) = f[x] + Sum(T \ {x})
  <2> DEFINE y == FirstTaken(T)
  <2>1. y \in T /\ Sum(T) = f[y] + Sum(T \ {y})
    BY <1>2
  <2> HIDE DEF y
  <2>2. CASE x # y
    <3>1. T \ {x} \in Good /\ T \ {y} \in Good
      BY <1>3, <2>1
    <3>2. Sum(T \ {y}) = f[x] + Sum((T \ {y}) \ {x})
      BY <2>2, <3>1
    <3>3. Sum(T \ {x}) = f[y] + Sum((T \ {x}) \ {y})
      BY <2>1, <2>2, <3>1
    <3>4. (T \ {x}) \ {y} = (T \ {y}) \ {x}
      OBVIOUS
    <3>5. Sum((T \ {y}) \ {x}) \in Int /\ f[x] \in Int /\ f[y] \in Int
      BY <1>1, <2>1
    <3>6. Sum(T) = f[y] + (f[x] + Sum((T \ {y}) \ {x}))
      BY <2>1, <3>2
    <3>7. Sum(T \ {x}) = f[y] + Sum((T \ {y}) \ {x})
      BY <3>3, <3>4
    <3> QED
      BY <3>5, <3>6, <3>7
  <2> QED
    BY <2>1, <2>2
<1>4. SUBSET S \subseteq Good
  <2>1. \A T \in SUBSET S : (\A U \in SUBSET T : U # T => U \in Good) => T \in Good
    BY <1>3
  <2> HIDE DEF Good
  <2> QED
    BY <2>1, SubsetInduction
<1> QED
  BY <1>4 DEF Sum

LEMMA WholePart ==
  ASSUME NEW S, NEW V, NEW f \in [S -> V]
  PROVE  Part(f, S) = f
  BY DEF Part

LEMMA SumIsNat ==
  ASSUME NEW S, IsFiniteSet(S), NEW f \in [S -> Nat]
  PROVE  SumFunction(f) \in Nat
<1>1. Part(f, S) = f /\ S \in SUBSET S
  BY WholePart
<1>2. SumFunction(Part(f, S)) \in Nat
  BY <1>1, SumType
<1> QED
  BY <1>1, <1>2

LEMMA SumEmpty == ASSUME NEW f PROVE SumFunction(Part(f, {})) = 0
  BY SumStep, FS_EmptySet

\* A new member adds its own value.
LEMMA SumInsert ==
  ASSUME NEW S, IsFiniteSet(S), NEW x, x \notin S, NEW f \in [S \cup {x} -> Int]
  PROVE  SumFunction(f) = f[x] + SumFunction(Part(f, S))
<1> DEFINE T == S \cup {x}
<1>1. IsFiniteSet(T)
  BY FS_AddElement
<1>2. T \ {x} = S /\ x \in T /\ T \in SUBSET T /\ f \in [T -> Int]
  OBVIOUS
<1>3. Part(f, T) = f
  BY <1>2, WholePart
<1> HIDE DEF T
<1>4. SumFunction(Part(f, T)) = f[x] + SumFunction(Part(f, T \ {x}))
  BY <1>1, <1>2, SumTakeOut DEF SumOn
<1> QED
  BY <1>2, <1>3, <1>4

\* Sums are linear.
LEMMA SumLinear ==
  ASSUME NEW S, IsFiniteSet(S), NEW f \in [S -> Int], NEW g \in [S -> Int],
         NEW a \in Int, NEW b \in Int
  PROVE  SumFunction([x \in S |-> a * f[x] + b * g[x]]) = a * SumFunction(f) + b * SumFunction(g)
<1> DEFINE h == [x \in S |-> a * f[x] + b * g[x]]
<1>0. h \in [S -> Int] /\ \A x \in S : h[x] = a * f[x] + b * g[x]
  OBVIOUS
<1> HIDE DEF h
<1> DEFINE F(T) == SumOn(f, T)
           G(T) == SumOn(g, T)
           H(T) == SumOn(h, T)
           Good == {T \in SUBSET S : H(T) = a * F(T) + b * G(T)}
<1>1. \A T \in SUBSET S : F(T) \in Int /\ G(T) \in Int
  BY SumType DEF SumOn
<1>2. ASSUME NEW T \in SUBSET S, NEW x \in T
      PROVE  F(T) = f[x] + F(T \ {x}) /\ G(T) = g[x] + G(T \ {x}) /\ H(T) = h[x] + H(T \ {x})
  BY <1>0, SumTakeOut
<1>3. F({}) = 0 /\ G({}) = 0 /\ H({}) = 0
  BY SumEmpty DEF SumOn
<1>4. F(S) = SumFunction(f) /\ G(S) = SumFunction(g) /\ H(S) = SumFunction(h)
  BY <1>0, WholePart DEF SumOn
<1> HIDE DEF F, G, H
<1>5. ASSUME NEW T \in SUBSET S, \A U \in SUBSET T : U # T => U \in Good
      PROVE  H(T) = a * F(T) + b * G(T)
  <2>1. CASE T = {}
    BY <1>3, <2>1
  <2>2. CASE T # {}
    <3>1. PICK x \in T : TRUE
      BY <2>2
    <3> DEFINE R == T \ {x}
    <3>2. H(R) = a * F(R) + b * G(R)
      BY <1>5, <3>1
    <3>3. F(R) \in Int /\ G(R) \in Int /\ f[x] \in Int /\ g[x] \in Int
      BY <1>1, <3>1
    <3>4. F(T) = f[x] + F(R) /\ G(T) = g[x] + G(R) /\ H(T) = (a * f[x] + b * g[x]) + H(R)
      BY <1>0, <1>2, <3>1
    <3> HIDE DEF R
    <3>5. \A i, j, k, l \in Int : (a * i + b * j) + (a * k + b * l) = a * (i + k) + b * (j + l)
      OBVIOUS
    <3> QED
      BY <3>2, <3>3, <3>4, <3>5
  <2> QED
    BY <2>1, <2>2
<1>6. SUBSET S \subseteq Good
  <2>1. \A T \in SUBSET S : (\A U \in SUBSET T : U # T => U \in Good) => T \in Good
    BY <1>5
  <2> HIDE DEF Good
  <2> QED
    BY <2>1, SubsetInduction
<1> QED
  BY <1>4, <1>6 DEF h

\* A sum of larger values is larger.
LEMMA SumMonotone ==
  ASSUME NEW S, IsFiniteSet(S), NEW f \in [S -> Int], NEW g \in [S -> Int],
         \A x \in S : f[x] <= g[x]
  PROVE  SumFunction(f) <= SumFunction(g)
<1> DEFINE h == [x \in S |-> g[x] - f[x]]
           one == 1
           minus == -1
<1>1. h \in [S -> Nat] /\ h \in [S -> Int] /\ one \in Int /\ minus \in Int
  OBVIOUS
<1>2. h = [x \in S |-> one * g[x] + minus * f[x]]
  OBVIOUS
<1>3. SumFunction(f) \in Int /\ SumFunction(g) \in Int
  BY SumType, WholePart
<1> HIDE DEF h, one, minus
<1>4. SumFunction(h) \in Nat
  BY <1>1, SumType, WholePart
<1>5. SumFunction(h) = one * SumFunction(g) + minus * SumFunction(f)
  BY <1>1, <1>2, SumLinear
<1> QED
  BY <1>3, <1>4, <1>5 DEF one, minus

\* Members that add nothing may be left out.
LEMMA SumSupport ==
  ASSUME NEW S, IsFiniteSet(S), NEW U \in SUBSET S, NEW f \in [S -> Int], \A x \in S \ U : f[x] = 0
  PROVE  SumFunction(f) = SumFunction(Part(f, U))
<1> DEFINE F(T) == SumOn(f, T)
           Good == {T \in SUBSET S : F(T) = F(T \cap U)}
<1>1. \A T \in SUBSET S : F(T) \in Int
  BY SumType DEF SumOn
<1>2. ASSUME NEW T \in SUBSET S, NEW x \in T
      PROVE  F(T) = f[x] + F(T \ {x})
  BY SumTakeOut
<1>3. F(S) = SumFunction(f)
  BY WholePart DEF SumOn
<1> HIDE DEF F
<1>4. ASSUME NEW T \in SUBSET S, \A V \in SUBSET T : V # T => V \in Good
      PROVE  F(T) = F(T \cap U)
  <2>1. CASE T \subseteq U
    <3>1. T \cap U = T
      BY <2>1
    <3> QED
      BY <3>1
  <2>2. CASE ~(T \subseteq U)
    <3>1. PICK x \in T : x \notin U
      BY <2>2
    <3>2. F(T \ {x}) = F((T \ {x}) \cap U)
      BY <1>4, <3>1
    <3>3. (T \ {x}) \cap U = T \cap U
      BY <3>1
    <3>4. F(T) = f[x] + F(T \ {x}) /\ f[x] = 0 /\ F(T \ {x}) \in Int
      BY <1>1, <1>2, <3>1
    <3>5. F(T) = F(T \ {x})
      BY <3>4
    <3> QED
      BY <3>2, <3>3, <3>5
  <2> QED
    BY <2>1, <2>2
<1>5. SUBSET S \subseteq Good
  <2>1. \A T \in SUBSET S : (\A V \in SUBSET T : V # T => V \in Good) => T \in Good
    BY <1>4
  <2> HIDE DEF Good
  <2> QED
    BY <2>1, SubsetInduction
<1>6. S \cap U = U
  OBVIOUS
<1> QED
  BY <1>3, <1>5, <1>6 DEF F, SumOn

\* A constant is added as often as there are members.
LEMMA SumConstant ==
  ASSUME NEW S, IsFiniteSet(S), NEW k \in Int, NEW f \in [S -> Int], \A x \in S : f[x] = k
  PROVE  SumFunction(f) = k * Cardinality(S)
<1> DEFINE F(T) == SumOn(f, T)
           Good == {T \in SUBSET S : F(T) = k * Cardinality(T)}
<1>2. ASSUME NEW T \in SUBSET S, NEW x \in T
      PROVE  F(T) = f[x] + F(T \ {x})
  BY SumTakeOut
<1>3. F(S) = SumFunction(f) /\ F({}) = 0
  BY WholePart, SumEmpty DEF SumOn
<1> HIDE DEF F
<1>4. ASSUME NEW T \in SUBSET S, \A V \in SUBSET T : V # T => V \in Good
      PROVE  F(T) = k * Cardinality(T)
  <2>1. CASE T = {}
    BY <1>3, <2>1, FS_EmptySet
  <2>2. CASE T # {}
    <3>1. PICK x \in T : TRUE
      BY <2>2
    <3> DEFINE n == Cardinality(T \ {x})
    <3>2. IsFiniteSet(T) /\ IsFiniteSet(T \ {x})
      BY FS_Subset
    <3>3. Cardinality(T) \in Nat /\ n \in Nat /\ n = Cardinality(T) - 1
      BY <3>1, <3>2, FS_RemoveElement, FS_CardinalityType
    <3>4. F(T \ {x}) = k * n
      BY <1>4, <3>1
    <3>5. F(T) = k + F(T \ {x})
      BY <1>2, <3>1
    <3> HIDE DEF n
    <3>6. k + k * n = k * Cardinality(T)
      BY <3>3
    <3> QED
      BY <3>4, <3>5, <3>6
  <2> QED
    BY <2>1, <2>2
<1>5. SUBSET S \subseteq Good
  <2>1. \A T \in SUBSET S : (\A V \in SUBSET T : V # T => V \in Good) => T \in Good
    BY <1>4
  <2> HIDE DEF Good
  <2> QED
    BY <2>1, SubsetInduction
<1> QED
  BY <1>3, <1>5

\* A sum does not change when its members are renamed.
LEMMA SumRenamed ==
  ASSUME NEW S, IsFiniteSet(S), NEW P, IsFiniteSet(P), NEW f \in [S -> Int], NEW g \in [P -> Int],
         NEW m \in [S -> P], \A x, y \in S : m[x] = m[y] => x = y, \A x \in S : g[m[x]] = f[x],
         NEW Q, Q = {m[x] : x \in S}
  PROVE  SumOn(g, Q) = SumFunction(f)
<1> DEFINE New(T) == {m[x] : x \in T}
           Good == {T \in SUBSET S : SumOn(g, New(T)) = SumOn(f, T)}
<1>1. ASSUME NEW T \in SUBSET S, NEW x \in T
      PROVE  New(T) \in SUBSET P /\ m[x] \in New(T) /\ New(T) \ {m[x]} = New(T \ {x})
  OBVIOUS
<1>2. New({}) = {}
  OBVIOUS
<1> HIDE DEF New, Good
<1>3. ASSUME NEW T \in SUBSET S, NEW x \in T PROVE SumOn(f, T) = f[x] + SumOn(f, T \ {x})
  BY SumTakeOut
<1>4. ASSUME NEW V \in SUBSET P, NEW y \in V PROVE SumOn(g, V) = g[y] + SumOn(g, V \ {y})
  BY SumTakeOut
<1>5. ASSUME NEW T \in SUBSET S, \A U \in SUBSET T : U # T => U \in Good
      PROVE  T \in Good
  <2>1. CASE T = {}
    <3>1. SumOn(g, {}) = SumOn(f, {})
      BY SumEmpty DEF SumOn
    <3> QED BY <2>1, <3>1, <1>2 DEF Good
  <2>2. CASE T # {}
    <3>1. PICK x \in T : TRUE
      BY <2>2
    <3>2. T \ {x} \in Good
      BY <1>5, <3>1
    <3>3. SumOn(g, New(T \ {x})) = SumOn(f, T \ {x})
      BY <3>2 DEF Good
    <3>4. SumOn(g, New(T)) = g[m[x]] + SumOn(g, New(T \ {x}))
      <4>1. New(T) \in SUBSET P /\ m[x] \in New(T) /\ New(T) \ {m[x]} = New(T \ {x})
        BY <3>1, <1>1
      <4>2. SumOn(g, New(T)) = g[m[x]] + SumOn(g, New(T) \ {m[x]})
        BY <4>1, <1>4
      <4> QED BY <4>1, <4>2
    <3>5. SumOn(f, T) = f[x] + SumOn(f, T \ {x})
      BY <3>1, <1>3
    <3> QED BY <3>1, <3>3, <3>4, <3>5 DEF Good
  <2> QED BY <2>1, <2>2
<1>6. SUBSET S \subseteq Good
  BY <1>5, SubsetInduction
<1>7. SumOn(g, New(S)) = SumOn(f, S)
  BY <1>6 DEF Good
<1> QED BY <1>7, WholePart DEF New, SumOn

\* One value in front of a sequence of numbers, S and P the places before and after.
Fronted(S, P, f, g) ==
  /\ S \in SUBSET Int /\ IsFiniteSet(S) /\ IsFiniteSet(P) /\ f \in [S -> Int] /\ g \in [P -> Int]
  /\ 1 \in P /\ P \ {1} = {k + 1 : k \in S} /\ \A k \in S : g[k + 1] = f[k]

\* A sequence with a value put in front adds up to what it did and that value.
LEMMA SumFronted ==
  ASSUME NEW S, NEW P, NEW f, NEW g, Fronted(S, P, f, g)
  PROVE  SumFunction(g) = g[1] + SumFunction(f)
<1> DEFINE m == [k \in S |-> k + 1]
<1>1. m \in [S -> P] /\ (\A j, k \in S : m[j] = m[k] => j = k) /\ \A k \in S : g[m[k]] = f[k]
  <2>1. S \in SUBSET Int /\ (\A k \in S : g[k + 1] = f[k]) /\ \A k \in S : k + 1 \in P
    BY DEF Fronted
  <2> QED BY <2>1
<1>2. {m[k] : k \in S} = P \ {1}
  BY DEF Fronted
<1> HIDE DEF m
<1>q. PICK Q : Q = P \ {1} /\ Q = {m[k] : k \in S}
  BY <1>2
<1>3. SumOn(g, Q) = SumFunction(f)
  BY <1>1, <1>q, SumRenamed DEF Fronted
<1>4. SumOn(g, P) = g[1] + SumOn(g, P \ {1})
  <2>1. P \in SUBSET P
    OBVIOUS
  <2> QED BY <2>1, SumTakeOut DEF Fronted
<1>5. Part(g, P) = g
  BY WholePart DEF Fronted
<1> QED BY <1>q, <1>3, <1>4, <1>5 DEF SumOn

=============================================================================
