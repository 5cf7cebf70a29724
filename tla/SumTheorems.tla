----------------------------- MODULE SumTheorems -----------------------------
(***************************************************************************)
(* Sums over finite sets of rows.  SumFunctionOnSet is a recursive function *)
(* over the subsets of its index set that picks an element by CHOOSE.  That *)
(* there is such a function, and that it does not matter which element is   *)
(* picked first, is proved here once for all ledgers.  The induction is by  *)
(* a least counterexample.                                                  *)
(***************************************************************************)
EXTENDS Functions, FiniteSetTheorems, WellFoundedInduction, TLAPS

\* A set of numbers with 0 and every successor has them all.
LEMMA AllNumbers ==
  ASSUME NEW T \in SUBSET Nat, 0 \in T, \A n \in T : n + 1 \in T
  PROVE  T = Nat
<1> SUFFICES ASSUME Nat \ T # {} PROVE FALSE
  OBVIOUS
<1>1. \E x \in Nat \ T : \A y \in Nat \ T : ~ (<<y, x>> \in OpToRel(<, Nat))
  BY NatLessThanWellFounded, WFMin
<1>2. PICK x \in Nat : x \notin T /\ \A y \in Nat \ T : ~ (y < x)
  BY <1>1 DEF OpToRel
<1>3. x # 0
  BY <1>2
<1>4. x - 1 \in Nat /\ x - 1 < x /\ (x - 1) + 1 = x
  BY <1>3
<1>5. x - 1 \in T
  BY <1>2, <1>4
<1> QED BY <1>2, <1>4, <1>5

Picked(s) == CHOOSE x \in s : TRUE

\* Taking an element out of a set.
Smaller(s, S) ==
  /\ IsFiniteSet(s) /\ Cardinality(s) \in Nat
  /\ Cardinality(s) = 0 <=> s = {}
  /\ s # {} => Picked(s) \in s
  /\ \A x \in s : /\ s \ {x} \in SUBSET S
                  /\ Cardinality(s \ {x}) = Cardinality(s) - 1

\* A proper subset of a finite set is smaller.
LEMMA SubsetsShrink ==
  ASSUME NEW S, IsFiniteSet(S), NEW s \in SUBSET S PROVE Smaller(s, S)
<1>1. IsFiniteSet(s) /\ Cardinality(s) \in Nat
  BY FS_Subset, FS_CardinalityType
<1>2. Cardinality(s) = 0 <=> s = {}
  BY <1>1, FS_EmptySet
<1>3. s # {} => Picked(s) \in s
  BY DEF Picked
<1>4. \A x \in s : Cardinality(s \ {x}) = Cardinality(s) - 1
  BY <1>1, FS_RemoveElement
<1> QED BY <1>1, <1>2, <1>3, <1>4 DEF Smaller

\* A set of subsets of S that a set is in when it is in without any one element.
Inductive(S, T) == \A s \in SUBSET S : (\A x \in s : s \ {x} \in T) => s \in T

\* Induction over the subsets of a finite set, for a set T of them.
LEMMA SubsetInduction ==
  ASSUME NEW S, IsFiniteSet(S), NEW T, Inductive(S, T)
  PROVE  SUBSET S \subseteq T
<1> DEFINE N == {n \in Nat : \A s \in SUBSET S : Cardinality(s) <= n => s \in T}
<1>1. \A s \in SUBSET S : Smaller(s, S)
  BY SubsetsShrink
<1>2. 0 \in N
  <2>1. ASSUME NEW s \in SUBSET S, Cardinality(s) <= 0 PROVE s \in T
    <3>1. Cardinality(s) \in Nat /\ (Cardinality(s) = 0 => s = {})
      BY <1>1 DEF Smaller
    <3> QED BY <2>1, <3>1 DEF Inductive
  <2> QED BY <2>1
<1>3. ASSUME NEW n \in N PROVE n + 1 \in N
  <2>1. n \in Nat /\ n + 1 \in Nat
    OBVIOUS
  <2>2. ASSUME NEW s \in SUBSET S, Cardinality(s) <= n + 1 PROVE s \in T
    <3>1. ASSUME NEW x \in s PROVE s \ {x} \in T
      <4>1. /\ s \ {x} \in SUBSET S
            /\ Cardinality(s) \in Nat
            /\ Cardinality(s \ {x}) = Cardinality(s) - 1
        BY <1>1, <3>1 DEF Smaller
      <4>2. Cardinality(s \ {x}) <= n
        BY <2>1, <2>2, <4>1
      <4> QED BY <1>3, <4>1, <4>2
    <3> QED BY <3>1 DEF Inductive
  <2> QED BY <2>1, <2>2
<1>4. N = Nat
  <2>1. N \in SUBSET Nat
    OBVIOUS
  <2> HIDE DEF N
  <2> QED BY <1>2, <1>3, <2>1, AllNumbers
<1> SUFFICES ASSUME NEW s \in SUBSET S PROVE s \in T
  OBVIOUS
<1>5. Cardinality(s) \in Nat
  BY <1>1 DEF Smaller
<1>6. Cardinality(s) \in N /\ Cardinality(s) <= Cardinality(s)
  <2>1. Cardinality(s) <= Cardinality(s)
    BY ONLY <1>5
  <2> QED BY <1>4, <1>5, <2>1
<1> QED BY <1>6

\* What SumFunctionOnSet says of the sum g over a set s.
Unfolds(g, f, s) ==
  g[s] = IF s = {} THEN 0 ELSE f[Picked(s)] + g[s \ {Picked(s)}]

\* There is a function that unfolds everywhere.
LEMMA SumExists ==
  ASSUME NEW S, IsFiniteSet(S), NEW f, \A x \in S : f[x] \in Nat
  PROVE  \E g \in [SUBSET S -> Nat] : \A s \in SUBSET S : Unfolds(g, f, s)
<1> DEFINE UpTo(n, g) == \A s \in SUBSET S : Cardinality(s) <= n => Unfolds(g, f, s)
           T == {n \in Nat : \E g \in [SUBSET S -> Nat] : UpTo(n, g)}
<1>1. \A s \in SUBSET S : Smaller(s, S)
  BY SubsetsShrink
<1>2. 0 \in T
  <2> DEFINE g == [s \in SUBSET S |-> 0]
  <2>1. ASSUME NEW s \in SUBSET S, Cardinality(s) <= 0 PROVE Unfolds(g, f, s)
    <3>1. Cardinality(s) \in Nat /\ (Cardinality(s) = 0 => s = {})
      BY <1>1 DEF Smaller
    <3>2. s = {}
      BY <2>1, <3>1
    <3> QED BY <3>2 DEF Unfolds
  <2>2. g \in [SUBSET S -> Nat] /\ UpTo(0, g)
    BY <2>1
  <2> HIDE DEF g
  <2> QED BY <2>2
<1>3. ASSUME NEW n \in T PROVE n + 1 \in T
  <2>1. PICK g \in [SUBSET S -> Nat] : UpTo(n, g)
    BY <1>3
  <2> DEFINE h == [s \in SUBSET S |-> IF s = {} THEN 0 ELSE f[Picked(s)] + g[s \ {Picked(s)}]]
  <2>2. h \in [SUBSET S -> Nat]
    <3>1. ASSUME NEW s \in SUBSET S, s # {} PROVE f[Picked(s)] + g[s \ {Picked(s)}] \in Nat
      <4>1. f[Picked(s)] \in Nat /\ g[s \ {Picked(s)}] \in Nat
        BY <1>1, <3>1 DEF Smaller
      <4> QED BY <4>1
    <3> QED BY <3>1
  <2>3. \A s \in SUBSET S : Cardinality(s) <= n => h[s] = g[s]
    BY <2>1 DEF Unfolds
  <2>4. ASSUME NEW s \in SUBSET S, Cardinality(s) <= n + 1 PROVE Unfolds(h, f, s)
    <3>1. CASE s = {}
      BY <3>1 DEF Unfolds
    <3>2. CASE s # {}
      <4>1. /\ s \ {Picked(s)} \in SUBSET S /\ Cardinality(s) \in Nat
            /\ Cardinality(s \ {Picked(s)}) = Cardinality(s) - 1
        BY <1>1, <3>2 DEF Smaller
      <4>3. Cardinality(s \ {Picked(s)}) <= n
        BY <1>3, <2>4, <4>1
      <4>2. h[s \ {Picked(s)}] = g[s \ {Picked(s)}]
        BY <2>3, <4>1, <4>3
      <4> QED BY <3>2, <4>2 DEF Unfolds
    <3> QED BY <3>1, <3>2
  <2>5. UpTo(n + 1, h)
    BY <2>4
  <2>6. n + 1 \in Nat
    BY <1>3
  <2> HIDE DEF h
  <2> QED BY <2>2, <2>5, <2>6
<1>4. T = Nat
  <2> HIDE DEF T
  <2>1. T \in SUBSET Nat
    BY DEF T
  <2> QED BY <1>2, <1>3, <2>1, AllNumbers
<1>5. Cardinality(S) \in T
  BY <1>1, <1>4 DEF Smaller
<1>6. \A s \in SUBSET S : Cardinality(s) <= Cardinality(S)
  BY FS_Subset
<1> QED BY <1>5, <1>6

\* And there is only one.
LEMMA SumUnique ==
  ASSUME NEW S, IsFiniteSet(S), NEW f, NEW e, \A x \in S : f[x] = e[x],
         NEW g, NEW h, \A s \in SUBSET S : Unfolds(g, f, s) /\ Unfolds(h, e, s)
  PROVE  \A s \in SUBSET S : g[s] = h[s]
<1> DEFINE T == {s \in SUBSET S : g[s] = h[s]}
<1>1. ASSUME NEW s \in SUBSET S, \A x \in s : s \ {x} \in T PROVE s \in T
  <2>1. CASE s = {}
    BY <2>1 DEF Unfolds
  <2>2. CASE s # {}
    <3>1. Picked(s) \in s
      BY <2>2 DEF Picked
    <3>2. g[s \ {Picked(s)}] = h[s \ {Picked(s)}]
      BY <1>1, <3>1
    <3>3. f[Picked(s)] = e[Picked(s)]
      BY <3>1
    <3> QED BY <2>2, <3>2, <3>3 DEF Unfolds
  <2> QED BY <2>1, <2>2
<1>2. Inductive(S, T)
  BY <1>1 DEF Inductive
<1>3. SUBSET S \subseteq T
  <2> HIDE DEF T
  <2> QED BY <1>2, SubsetInduction
<1> QED BY <1>3

\* The sum is the value of that function.
LEMMA SumUnfolds ==
  ASSUME NEW S, IsFiniteSet(S), NEW f, \A x \in S : f[x] \in Nat
  PROVE  \E g \in [SUBSET S -> Nat] :
           (\A s \in SUBSET S : Unfolds(g, f, s)) /\ SumFunctionOnSet(f, S) = g[S]
<1> DEFINE Solves(g) ==
      g = [s \in SUBSET S |-> IF s = {} THEN 0 ELSE f[Picked(s)] + g[s \ {Picked(s)}]]
           iter == CHOOSE g : Solves(g)
<1>1. SumFunctionOnSet(f, S) = iter[S]
  BY DEF SumFunctionOnSet, FoldFunctionOnSet, MapThenFoldSet, Picked
<1>2. PICK g \in [SUBSET S -> Nat] : \A s \in SUBSET S : Unfolds(g, f, s)
  BY SumExists
<1>3. Solves(g)
  BY <1>2 DEF Unfolds
<1>4. Solves(iter)
  BY <1>3
<1>5. \A s \in SUBSET S : Unfolds(iter, f, s)
  BY <1>4 DEF Unfolds
<1>6. iter[S] = g[S]
  <2> HIDE DEF iter
  <2> QED BY <1>2, <1>5, SumUnique
<1> QED BY <1>1, <1>2, <1>6

\* An empty sum is 0.
LEMMA SumEmpty ==
  ASSUME NEW f PROVE SumFunctionOnSet(f, {}) = 0
<1>1. IsFiniteSet({})
  BY FS_EmptySet
<1>2. PICK g \in [SUBSET {} -> Nat] :
        (\A s \in SUBSET {} : Unfolds(g, f, s)) /\ SumFunctionOnSet(f, {}) = g[{}]
  BY <1>1, SumUnfolds
<1> QED BY <1>2 DEF Unfolds

\* A sum of numbers is a number.
LEMMA SumType ==
  ASSUME NEW S, IsFiniteSet(S), NEW f, \A x \in S : f[x] \in Nat
  PROVE  SumFunctionOnSet(f, S) \in Nat
<1>1. PICK g \in [SUBSET S -> Nat] : SumFunctionOnSet(f, S) = g[S]
  BY SumUnfolds
<1> QED BY <1>1

\* A sum depends on the values over its index set only.
LEMMA SumSame ==
  ASSUME NEW S, IsFiniteSet(S), NEW f, NEW e, \A x \in S : f[x] \in Nat /\ e[x] = f[x]
  PROVE  SumFunctionOnSet(e, S) = SumFunctionOnSet(f, S)
<1>1. PICK g \in [SUBSET S -> Nat] :
        (\A s \in SUBSET S : Unfolds(g, f, s)) /\ SumFunctionOnSet(f, S) = g[S]
  BY SumUnfolds
<1>2. PICK h \in [SUBSET S -> Nat] :
        (\A s \in SUBSET S : Unfolds(h, e, s)) /\ SumFunctionOnSet(e, S) = h[S]
  <2>1. \A x \in S : e[x] \in Nat
    OBVIOUS
  <2> QED BY <2>1, SumUnfolds
<1>3. \A s \in SUBSET S : g[s] = h[s]
  BY <1>1, <1>2, SumUnique
<1> QED BY <1>1, <1>2, <1>3

\* The value over a set is that of any one element and of the others.
AddsUp(g, f, S) == \A s \in SUBSET S : \A x \in s : g[s] = f[x] + g[s \ {x}]

\* The function that unfolds adds up element by element, whichever is last.
LEMMA UnfoldsAnywhere ==
  ASSUME NEW S, IsFiniteSet(S), NEW f, \A x \in S : f[x] \in Nat,
         NEW g \in [SUBSET S -> Nat], \A s \in SUBSET S : Unfolds(g, f, s)
  PROVE  AddsUp(g, f, S)
<1> DEFINE T == {s \in SUBSET S : \A x \in s : g[s] = f[x] + g[s \ {x}]}
<1>1. ASSUME NEW s \in SUBSET S, \A x \in s : s \ {x} \in T PROVE s \in T
  <2>1. ASSUME NEW x \in s PROVE g[s] = f[x] + g[s \ {x}]
    <3>1. PICK y \in s : g[s] = f[y] + g[s \ {y}]
      BY <2>1, Picked(s) \in s DEF Unfolds, Picked
    <3>2. CASE x = y
      BY <3>1, <3>2
    <3>3. CASE x # y
      <4>1. g[s \ {y}] = f[x] + g[(s \ {y}) \ {x}]
        BY <1>1, <3>3
      <4>2. g[s \ {x}] = f[y] + g[(s \ {x}) \ {y}]
        BY <1>1, <3>3
      <4>3. (s \ {x}) \ {y} = (s \ {y}) \ {x}
        OBVIOUS
      <4>4. f[x] \in Nat /\ f[y] \in Nat /\ g[(s \ {y}) \ {x}] \in Nat
        OBVIOUS
      <4>5. \A a, b, c \in Nat : a + (b + c) = b + (a + c)
        OBVIOUS
      <4>6. f[y] + (f[x] + g[(s \ {y}) \ {x}]) = f[x] + (f[y] + g[(s \ {y}) \ {x}])
        BY <4>4, <4>5
      <4> QED BY <3>1, <4>1, <4>2, <4>3, <4>6
    <3> QED BY <3>2, <3>3
  <2> QED BY <2>1
<1>2. Inductive(S, T)
  BY <1>1 DEF Inductive
<1>3. SUBSET S \subseteq T
  <2> HIDE DEF T
  <2> QED BY <1>2, SubsetInduction
<1> QED BY <1>3 DEF AddsUp

\* Taking one row out of a sum takes its value out.
LEMMA SumRemove ==
  ASSUME NEW S, IsFiniteSet(S), NEW f, \A x \in S : f[x] \in Nat, NEW x \in S
  PROVE  SumFunctionOnSet(f, S) = f[x] + SumFunctionOnSet(f, S \ {x})
<1>1. PICK g \in [SUBSET S -> Nat] :
        (\A s \in SUBSET S : Unfolds(g, f, s)) /\ SumFunctionOnSet(f, S) = g[S]
  BY SumUnfolds
<1> DEFINE R == S \ {x}
<1>2. IsFiniteSet(R) /\ R \in SUBSET S
  BY FS_Subset
<1>3. PICK h \in [SUBSET R -> Nat] :
        (\A s \in SUBSET R : Unfolds(h, f, s)) /\ SumFunctionOnSet(f, R) = h[R]
  <2> HIDE DEF R
  <2>1. \A y \in R : f[y] \in Nat
    BY <1>2
  <2> QED BY <1>2, <2>1, SumUnfolds
<1>4. \A s \in SUBSET R : g[s] = h[s]
  <2> HIDE DEF R
  <2>1. \A s \in SUBSET R : Unfolds(g, f, s) /\ Unfolds(h, f, s)
    BY <1>1, <1>2, <1>3
  <2> QED BY <1>2, <2>1, SumUnique
<1>5. g[S] = f[x] + g[R]
  <2>1. AddsUp(g, f, S)
    BY <1>1, UnfoldsAnywhere
  <2> QED BY <2>1 DEF AddsUp
<1> QED BY <1>1, <1>3, <1>4, <1>5

\* Adding a row adds its value.
LEMMA SumAdd ==
  ASSUME NEW S, IsFiniteSet(S), NEW x, x \notin S, NEW f,
         \A y \in S \cup {x} : f[y] \in Nat
  PROVE  SumFunctionOnSet(f, S \cup {x}) = f[x] + SumFunctionOnSet(f, S)
<1> DEFINE R == S \cup {x}
<1>1. IsFiniteSet(R) /\ x \in R /\ R \ {x} = S
  BY FS_AddElement
<1> HIDE DEF R
<1>2. \A y \in R : f[y] \in Nat
  BY DEF R
<1>3. SumFunctionOnSet(f, R) = f[x] + SumFunctionOnSet(f, R \ {x})
  BY <1>1, <1>2, SumRemove
<1> QED BY <1>1, <1>3 DEF R

\* Changing one row changes the sum by the difference.
LEMMA SumChange ==
  ASSUME NEW S, IsFiniteSet(S), NEW x \in S, NEW f, NEW e,
         \A y \in S : f[y] \in Nat /\ e[y] \in Nat,
         \A y \in S \ {x} : e[y] = f[y]
  PROVE  SumFunctionOnSet(e, S) + f[x] = SumFunctionOnSet(f, S) + e[x]
<1> DEFINE R == S \ {x}
<1>1. IsFiniteSet(R)
  BY FS_Subset
<1>2. SumFunctionOnSet(f, S) = f[x] + SumFunctionOnSet(f, R)
  BY SumRemove
<1>3. SumFunctionOnSet(e, S) = e[x] + SumFunctionOnSet(e, R)
  BY SumRemove
<1>4. SumFunctionOnSet(e, R) = SumFunctionOnSet(f, R)
  <2>1. \A y \in R : f[y] \in Nat /\ e[y] = f[y]
    OBVIOUS
  <2> HIDE DEF R
  <2> QED BY <1>1, <2>1, SumSame
<1>5. SumFunctionOnSet(f, R) \in Nat
  <2>1. \A y \in R : f[y] \in Nat
    OBVIOUS
  <2> HIDE DEF R
  <2> QED BY <1>1, <2>1, SumType
<1>6. f[x] \in Nat /\ e[x] \in Nat
  OBVIOUS
<1> QED BY <1>2, <1>3, <1>4, <1>5, <1>6

\* A row is at most the sum.
LEMMA SumMember ==
  ASSUME NEW S, IsFiniteSet(S), NEW x \in S, NEW f, \A y \in S : f[y] \in Nat
  PROVE  f[x] <= SumFunctionOnSet(f, S)
<1> DEFINE R == S \ {x}
<1>1. IsFiniteSet(R)
  BY FS_Subset
<1>2. SumFunctionOnSet(f, S) = f[x] + SumFunctionOnSet(f, R)
  BY SumRemove
<1>3. SumFunctionOnSet(f, R) \in Nat
  <2>1. \A y \in R : f[y] \in Nat
    OBVIOUS
  <2> HIDE DEF R
  <2> QED BY <1>1, <2>1, SumType
<1>4. f[x] \in Nat
  OBVIOUS
<1> QED BY <1>2, <1>3, <1>4

\* A sum of smaller values is not larger.
LEMMA SumMonotone ==
  ASSUME NEW S, IsFiniteSet(S), NEW f, NEW e,
         \A y \in S : f[y] \in Nat /\ e[y] \in Nat /\ e[y] <= f[y]
  PROVE  SumFunctionOnSet(e, S) <= SumFunctionOnSet(f, S)
<1> DEFINE T == {s \in SUBSET S : SumFunctionOnSet(e, s) <= SumFunctionOnSet(f, s)}
<1>1. ASSUME NEW s \in SUBSET S, \A x \in s : s \ {x} \in T PROVE s \in T
  <2>1. CASE s = {}
    BY <2>1, SumEmpty
  <2>2. CASE s # {}
    <3>1. PICK x \in s : TRUE
      BY <2>2
    <3> DEFINE R == s \ {x}
    <3>2. IsFiniteSet(s) /\ IsFiniteSet(R)
      BY FS_Subset
    <3>3. \A y \in s : f[y] \in Nat /\ e[y] \in Nat
      OBVIOUS
    <3>4. /\ SumFunctionOnSet(e, s) = e[x] + SumFunctionOnSet(e, R)
          /\ SumFunctionOnSet(f, s) = f[x] + SumFunctionOnSet(f, R)
      BY <3>2, <3>3, SumRemove
    <3>5. SumFunctionOnSet(e, R) <= SumFunctionOnSet(f, R)
      BY <1>1
    <3>6. \A y \in R : f[y] \in Nat /\ e[y] \in Nat
      BY <3>3
    <3> HIDE DEF R
    <3>7. SumFunctionOnSet(e, R) \in Nat /\ SumFunctionOnSet(f, R) \in Nat
      BY <3>2, <3>6, SumType
    <3>8. f[x] \in Nat /\ e[x] \in Nat /\ e[x] <= f[x]
      OBVIOUS
    <3>9. SumFunctionOnSet(e, s) <= SumFunctionOnSet(f, s)
      BY <3>4, <3>5, <3>7, <3>8
    <3> QED BY <3>9
  <2> QED BY <2>1, <2>2
<1>2. Inductive(S, T)
  BY <1>1 DEF Inductive
<1>3. SUBSET S \subseteq T
  <2> HIDE DEF T
  <2> QED BY <1>2, SubsetInduction
<1> QED BY <1>3

\* A sum of zeros is zero.
LEMMA SumZero ==
  ASSUME NEW S, IsFiniteSet(S), NEW f, \A y \in S : f[y] = 0
  PROVE  SumFunctionOnSet(f, S) = 0
<1> DEFINE T == {s \in SUBSET S : SumFunctionOnSet(f, s) = 0}
<1>1. ASSUME NEW s \in SUBSET S, \A x \in s : s \ {x} \in T PROVE s \in T
  <2>1. CASE s = {}
    BY <2>1, SumEmpty
  <2>2. CASE s # {}
    <3>1. PICK x \in s : TRUE
      BY <2>2
    <3>2. IsFiniteSet(s) /\ \A y \in s : f[y] \in Nat
      BY FS_Subset
    <3>3. SumFunctionOnSet(f, s) = f[x] + SumFunctionOnSet(f, s \ {x})
      BY <3>2, SumRemove
    <3>4. f[x] = 0 /\ SumFunctionOnSet(f, s \ {x}) = 0
      BY <1>1
    <3> QED BY <3>3, <3>4
  <2> QED BY <2>1, <2>2
<1>2. Inductive(S, T)
  BY <1>1 DEF Inductive
<1>3. SUBSET S \subseteq T
  <2> HIDE DEF T
  <2> QED BY <1>2, SubsetInduction
<1> QED BY <1>3

\* The same for the sum of a function over its domain.
LEMMA SumFunctionType ==
  ASSUME NEW S, IsFiniteSet(S), NEW f \in [S -> Nat]
  PROVE  SumFunction(f) \in Nat
<1>1. SumFunction(f) = SumFunctionOnSet(f, S)
  BY DEF SumFunction
<1> QED BY <1>1, SumType

\* The sum of no values is zero.
LEMMA SumFunctionEmpty ==
  ASSUME NEW f, DOMAIN f = {} PROVE SumFunction(f) = 0
BY SumEmpty DEF SumFunction

\* One more row in the domain.
LEMMA SumFunctionGrows ==
  ASSUME NEW S, IsFiniteSet(S), NEW x, x \notin S,
         NEW f \in [S -> Nat], NEW e \in [S \cup {x} -> Nat], \A y \in S : e[y] = f[y]
  PROVE  SumFunction(e) = e[x] + SumFunction(f)
<1>1. SumFunction(e) = SumFunctionOnSet(e, S \cup {x}) /\ SumFunction(f) = SumFunctionOnSet(f, S)
  BY DEF SumFunction
<1>2. SumFunctionOnSet(e, S \cup {x}) = e[x] + SumFunctionOnSet(e, S)
  <2>1. \A y \in S \cup {x} : e[y] \in Nat
    OBVIOUS
  <2> QED BY <2>1, SumAdd
<1>3. SumFunctionOnSet(e, S) = SumFunctionOnSet(f, S)
  <2>1. \A y \in S : f[y] \in Nat /\ e[y] = f[y]
    OBVIOUS
  <2> QED BY <2>1, SumSame
<1> QED BY <1>1, <1>2, <1>3
=============================================================================
