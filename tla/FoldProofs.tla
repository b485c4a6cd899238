------------------------------ MODULE FoldProofs ------------------------------
(***************************************************************************)
(* Sums and loops, for the proofs of the modules that count: the cost of a *)
(* pipeline, the counters of the load client, the lengths in a file of     *)
(* samples.                                                                *)
(*                                                                         *)
(* The sums of the community modules are defined by recursion over the     *)
(* subsets of a finite set, with CHOOSE.  FoldExists gives the function    *)
(* that CHOOSE is asked for; the lemmas on sums then follow by induction.  *)
(* Induction is over a set Good, not over a predicate: a lemma with an     *)
(* operator for a parameter could not be used by the provers.              *)
(***************************************************************************)
EXTENDS FiniteSetsExt, FiniteSetTheorems, TLAPS

\* What holds of a set whenever it holds of its proper subsets holds of all subsets of
\* a finite set.
LEMMA SubsetInduction ==
  ASSUME NEW S, IsFiniteSet(S), NEW Good,
         \A T \in SUBSET S : (\A U \in SUBSET T : U # T => U \in Good) => T \in Good
  PROVE  \A T \in SUBSET S : T \in Good
<1> DEFINE Bad == (SUBSET S) \ Good
<1> SUFFICES ASSUME Bad # {} PROVE FALSE
  OBVIOUS
<1>1. IsWellFoundedOn(StrictSubsetOrdering(S), SUBSET S)
  <2>1. IsWellFoundedOn(StrictSubsetOrdering(S), FiniteSubsetsOf(S))
    BY FS_StrictSubsetOrderingWellFounded
  <2>2. FiniteSubsetsOf(S) = SUBSET S
    BY FS_FiniteSubsetsOfFinite
  <2> QED BY <2>1, <2>2, Zenon
<1>2. Bad \subseteq SUBSET S
  OBVIOUS
<1> HIDE DEF Bad
<1>3. PICK T \in Bad : \A U \in Bad : ~(<<U, T>> \in StrictSubsetOrdering(S))
  BY <1>1, <1>2, WFMin
<1>4. \A U \in SUBSET T : U # T => U \notin Bad
  BY <1>2, <1>3 DEF StrictSubsetOrdering
<1> QED BY <1>2, <1>3, <1>4 DEF Bad

\* What holds of 0 and of the next number whenever it holds of a number below N holds
\* up to N.
LEMMA UpTo ==
  ASSUME NEW N \in Nat, NEW Good, 0 \in Good,
         \A n \in 0 .. N - 1 : n \in Good => n + 1 \in Good
  PROVE  \A n \in 0 .. N : n \in Good
<1> DEFINE Fine == {T \in SUBSET (1 .. N) : \A n \in 0 .. N : T = 1 .. n => n \in Good}
<1>1. IsFiniteSet(1 .. N)
  BY FS_Interval
<1>2. ASSUME NEW T \in SUBSET (1 .. N), \A U \in SUBSET T : U # T => U \in Fine
      PROVE  T \in Fine
  <2> SUFFICES ASSUME NEW n \in 0 .. N, T = 1 .. n, n # 0 PROVE n \in Good
    OBVIOUS
  <2>1. 1 .. n - 1 \in SUBSET T /\ 1 .. n - 1 # T
    <3>1. n \in T /\ n \notin 1 .. n - 1
      OBVIOUS
    <3> QED BY <3>1
  <2>2. n - 1 \in 0 .. N - 1 /\ n - 1 \in 0 .. N
    OBVIOUS
  <2>3. n - 1 \in Good
    BY <1>2, <2>1, <2>2
  <2> QED BY <2>2, <2>3
<1> HIDE DEF Fine
<1>3. \A T \in SUBSET (1 .. N) : T \in Fine
  BY <1>1, <1>2, SubsetInduction
<1> SUFFICES ASSUME NEW n \in 0 .. N PROVE n \in Good
  OBVIOUS
<1>4. 1 .. n \in SUBSET (1 .. N)
  OBVIOUS
<1> QED BY <1>3, <1>4 DEF Fine

-----------------------------------------------------------------------------
(* Functions defined by recursion over the subsets of a finite set *)

\* g is the function that takes one element of a set after the other.
Folds(g, S, base, pick, step) ==
  \A T \in SUBSET S :
    g[T] = IF T = {} THEN base ELSE step[<<pick[T], g[T \ {pick[T]}]>>]

\* There is such a function, whatever the step and the choice of the next element.
LEMMA FoldExists ==
  ASSUME NEW S, IsFiniteSet(S), NEW V, NEW base \in V,
         NEW pick, \A T \in SUBSET S : T # {} => pick[T] \in T,
         NEW step, \A x \in S, v \in V : step[<<x, v>>] \in V
  PROVE  \E g \in [SUBSET S -> V] : Folds(g, S, base, pick, step)
<1> DEFINE N == Cardinality(S)
           Next(g) == [T \in SUBSET S |->
                         IF T = {} THEN base ELSE step[<<pick[T], g[T \ {pick[T]}]>>]]
           Right(g, T) == g[T] = Next(g)[T]
           Good == {n \in Nat : \E g \in [SUBSET S -> V] :
                                  \A T \in SUBSET S : Cardinality(T) <= n => Right(g, T)}
<1>0. N \in Nat /\ \A T \in SUBSET S : IsFiniteSet(T) /\ Cardinality(T) \in Nat /\ Cardinality(T) <= N
  BY FS_CardinalityType, FS_Subset
<1>1. 0 \in Good
  <2> DEFINE g == [T \in SUBSET S |-> base]
  <2>1. g \in [SUBSET S -> V]
    OBVIOUS
  <2>2. \A T \in SUBSET S : Cardinality(T) <= 0 => T = {}
    BY <1>0, FS_EmptySet
  <2>3. \A T \in SUBSET S : Cardinality(T) <= 0 => Right(g, T)
    BY <2>2
  <2> HIDE DEF g, Right
  <2> QED BY <2>1, <2>3
<1>2. ASSUME NEW n \in 0 .. N - 1, n \in Good
      PROVE  n + 1 \in Good
  <2>1. PICK g \in [SUBSET S -> V] : \A T \in SUBSET S : Cardinality(T) <= n => Right(g, T)
    BY <1>2
  <2> DEFINE h == Next(g)
  <2>2. \A T \in SUBSET S : T # {} => /\ T \ {pick[T]} \in SUBSET S
                                     /\ Cardinality(T \ {pick[T]}) = Cardinality(T) - 1
    BY <1>0, FS_RemoveElement
  <2>3. h \in [SUBSET S -> V]
    OBVIOUS
  <2>4. \A T \in SUBSET S : Cardinality(T) <= n => h[T] = g[T]
    BY <2>1
  <2>5. ASSUME NEW T \in SUBSET S, Cardinality(T) <= n + 1
        PROVE  Right(h, T)
    <3>1. CASE T = {}
      BY <3>1
    <3>2. CASE T # {}
      <4>1. h[T \ {pick[T]}] = g[T \ {pick[T]}]
        <5>1. Cardinality(T) - 1 <= n
          BY <1>0, <1>2, <2>5
        <5> QED BY <2>2, <2>4, <3>2, <5>1
      <4> QED BY <3>2, <4>1
    <3> QED BY <3>1, <3>2
  <2> HIDE DEF h, Right
  <2>6. n + 1 \in Nat
    OBVIOUS
  <2> QED BY <2>3, <2>5, <2>6
<1>3. N \in Good
  <2> HIDE DEF Good
  <2>1. \A n \in 0 .. N : n \in Good
    BY <1>0, <1>1, <1>2, UpTo
  <2> QED BY <2>1, <1>0
<1> QED BY <1>0, <1>3 DEF Folds

-----------------------------------------------------------------------------
(* Sums *)

\* The element that the sums of module Functions take out next.
Chosen(T) == CHOOSE x \in T : TRUE

\* g adds up f over every subset of S.
SumSteps(g, S, f) ==
  \A T \in SUBSET S : g[T] = IF T = {} THEN 0 ELSE f[Chosen(T)] + g[T \ {Chosen(T)}]

\* What the definition of a sum says, opened up.
LEMMA SumIsFold ==
  ASSUME NEW S, IsFiniteSet(S), NEW f, \A x \in S : f[x] \in Int
  PROVE  \E g \in [SUBSET S -> Int] :
           SumSteps(g, S, f) /\ SumFunctionOnSet(f, S) = g[S]
<1> DEFINE pick == [T \in SUBSET S |-> CHOOSE x \in T : TRUE]
           step == [p \in S \X Int |-> f[p[1]] + p[2]]
           Body(g) == [s \in SUBSET S |->
                         IF s = {} THEN 0
                         ELSE f[CHOOSE x \in s : TRUE] + g[s \ {CHOOSE x \in s : TRUE}]]
           iter == CHOOSE g : g = Body(g)
<1>1. \A T \in SUBSET S : T # {} => pick[T] \in T
  OBVIOUS
<1>2. \A x \in S, v \in Int : step[<<x, v>>] = f[x] + v /\ step[<<x, v>>] \in Int
  OBVIOUS
<1>3. PICK g \in [SUBSET S -> Int] : Folds(g, S, 0, pick, step)
  <2>1. \A x \in S, v \in Int : step[<<x, v>>] \in Int
    BY <1>2
  <2> HIDE DEF pick, step, Body
  <2>2. 0 \in Int
    OBVIOUS
  <2> QED BY <1>1, <2>1, <2>2, FoldExists, Zenon
<1>4. g = Body(g)
  <2>1. \A T \in SUBSET S : g[T] = Body(g)[T]
    <3> SUFFICES ASSUME NEW T \in SUBSET S PROVE g[T] = Body(g)[T]
      OBVIOUS
    <3>1. CASE T = {}
      BY <1>3, <3>1 DEF Folds
    <3>2. CASE T # {}
      <4> DEFINE c == CHOOSE x \in T : TRUE
      <4>1. pick[T] = c /\ c \in S /\ T \ {c} \in SUBSET S
        BY <1>1, <3>2
      <4>2. g[T] = step[<<c, g[T \ {c}]>>]
        BY <1>3, <3>2, <4>1 DEF Folds
      <4>3. g[T \ {c}] \in Int
        BY <4>1
      <4>4. g[T] = f[c] + g[T \ {c}]
        BY <1>2, <4>1, <4>2, <4>3
      <4> QED BY <3>2, <4>4
    <3> QED BY <3>1, <3>2
  <2> HIDE DEF pick, step
  <2> QED BY <2>1
<1>5. iter = Body(iter)
  <2> HIDE DEF Body
  <2> QED BY <1>4
<1>6. SumFunctionOnSet(f, S) = iter[S]
  BY DEF SumFunctionOnSet, FoldFunctionOnSet, MapThenFoldSet
<1> HIDE DEF iter
<1>7. \A h : h = Body(h) =>
        \A T \in SUBSET S : h[T] = IF T = {} THEN 0
                                   ELSE f[CHOOSE x \in T : TRUE] + h[T \ {CHOOSE x \in T : TRUE}]
  OBVIOUS
<1>8. \A T \in SUBSET S : iter[T] \in Int
  <2> DEFINE Good == {T \in SUBSET S : iter[T] \in Int}
  <2>1. ASSUME NEW T \in SUBSET S, \A U \in SUBSET T : U # T => U \in Good
        PROVE  T \in Good
    <3>1. CASE T = {}
      BY <1>5, <1>7, <3>1
    <3>2. CASE T # {}
      <4> DEFINE c == CHOOSE x \in T : TRUE
      <4>1. c \in T
        BY <3>2
      <4> HIDE DEF c
      <4>2. T \ {c} \in SUBSET T /\ T \ {c} # T
        BY <4>1
      <4>3. iter[T \ {c}] \in Int
        BY <2>1, <4>2
      <4>4. iter[T] = f[c] + iter[T \ {c}]
        BY <1>5, <1>7, <3>2 DEF c
      <4> QED BY <4>1, <4>3, <4>4
    <3> QED BY <3>1, <3>2
  <2> HIDE DEF Good
  <2>2. \A T \in SUBSET S : T \in Good
    BY <2>1, SubsetInduction
  <2> QED BY <2>2 DEF Good
<1>9. iter \in [SUBSET S -> Int]
  <2>1. iter = [T \in SUBSET S |-> iter[T]]
    BY <1>5
  <2> QED BY <1>8, <2>1
<1> QED BY <1>5, <1>6, <1>7, <1>9 DEF SumSteps, Chosen

\* The type of a sum, the empty sum, and one element taken out: the one the definition
\* chooses.
LEMMA SumOneOut ==
  ASSUME NEW S, IsFiniteSet(S), NEW f, \A x \in S : f[x] \in Int
  PROVE  /\ SumFunctionOnSet(f, S) \in Int
         /\ S = {} => SumFunctionOnSet(f, S) = 0
         /\ S # {} => \E c \in S : SumFunctionOnSet(f, S) = f[c] + SumFunctionOnSet(f, S \ {c})
<1>1. PICK g \in [SUBSET S -> Int] : SumSteps(g, S, f) /\ SumFunctionOnSet(f, S) = g[S]
  BY SumIsFold
<1>2. \A T : T # {} => Chosen(T) \in T
  BY DEF Chosen
<1>3. ASSUME NEW T \in SUBSET S PROVE SumFunctionOnSet(f, T) = g[T]
  <2>1. IsFiniteSet(T) /\ \A x \in T : f[x] \in Int
    BY FS_Subset
  <2>2. PICK h \in [SUBSET T -> Int] : SumSteps(h, T, f) /\ SumFunctionOnSet(f, T) = h[T]
    BY <2>1, SumIsFold
  <2> DEFINE Good == {U \in SUBSET T : h[U] = g[U]}
  <2>3. ASSUME NEW U \in SUBSET T, \A V \in SUBSET U : V # U => V \in Good
        PROVE  U \in Good
    <3>1. /\ h[U] = IF U = {} THEN 0 ELSE f[Chosen(U)] + h[U \ {Chosen(U)}]
          /\ g[U] = IF U = {} THEN 0 ELSE f[Chosen(U)] + g[U \ {Chosen(U)}]
      BY <1>1, <2>2 DEF SumSteps
    <3>2. CASE U # {}
      <4>1. U \ {Chosen(U)} \in SUBSET U /\ U \ {Chosen(U)} # U
        BY <1>2, <3>2
      <4> QED BY <2>3, <3>1, <4>1
    <3> QED BY <3>1, <3>2
  <2> HIDE DEF Good
  <2>4. \A U \in SUBSET T : U \in Good
    BY <2>1, <2>3, SubsetInduction
  <2> QED BY <2>2, <2>4 DEF Good
<1>4. SumFunctionOnSet(f, S) \in Int
  BY <1>1
<1>5. S = {} => SumFunctionOnSet(f, S) = 0
  BY <1>1 DEF SumSteps
<1>6. CASE S # {}
  <2>1. Chosen(S) \in S /\ S \ {Chosen(S)} \in SUBSET S
    BY <1>2, <1>6
  <2>2. g[S] = f[Chosen(S)] + g[S \ {Chosen(S)}]
    BY <1>1, <1>6 DEF SumSteps
  <2>3. SumFunctionOnSet(f, S) = f[Chosen(S)] + SumFunctionOnSet(f, S \ {Chosen(S)})
    BY <1>1, <1>3, <1>6, <2>1, <2>2
  <2> QED BY <1>4, <1>6, <2>1, <2>3
<1> QED BY <1>4, <1>5, <1>6

\* Any element may be taken out.
LEMMA SumRemove ==
  ASSUME NEW S, IsFiniteSet(S), NEW f, \A x \in S : f[x] \in Int, NEW a \in S
  PROVE  SumFunctionOnSet(f, S) = f[a] + SumFunctionOnSet(f, S \ {a})
<1> DEFINE Sum(T) == SumFunctionOnSet(f, T)
           Good == {T \in SUBSET S : \A x \in T : Sum(T) = f[x] + Sum(T \ {x})}
<1>1. \A T \in SUBSET S : IsFiniteSet(T) /\ \A x \in T : f[x] \in Int
  BY FS_Subset
<1>2. \A T \in SUBSET S : Sum(T) \in Int /\ (T # {} => \E c \in T : Sum(T) = f[c] + Sum(T \ {c}))
  BY <1>1, SumOneOut
<1> HIDE DEF Sum
<1>3. ASSUME NEW T \in SUBSET S, \A U \in SUBSET T : U # T => U \in Good
      PROVE  T \in Good
  <2> SUFFICES ASSUME NEW x \in T PROVE Sum(T) = f[x] + Sum(T \ {x})
    OBVIOUS
  <2>1. PICK c \in T : Sum(T) = f[c] + Sum(T \ {c})
    BY <1>2
  <2>2. CASE c # x
    <3>1. /\ T \ {c} \in SUBSET T /\ T \ {c} # T /\ x \in T \ {c}
          /\ T \ {x} \in SUBSET T /\ T \ {x} # T /\ c \in T \ {x}
          /\ (T \ {c}) \ {x} = (T \ {x}) \ {c}
      BY <2>2
    <3>2. Sum(T \ {c}) = f[x] + Sum((T \ {c}) \ {x})
      BY <1>3, <3>1
    <3>3. Sum(T \ {x}) = f[c] + Sum((T \ {x}) \ {c})
      BY <1>3, <3>1
    <3>4. f[x] \in Int /\ f[c] \in Int /\ Sum((T \ {x}) \ {c}) \in Int
      BY <1>2
    <3>5. Sum(T) = f[c] + (f[x] + Sum((T \ {x}) \ {c}))
      BY <2>1, <3>1, <3>2, Zenon
    <3>6. f[c] + (f[x] + Sum((T \ {x}) \ {c})) = f[x] + (f[c] + Sum((T \ {x}) \ {c}))
      BY <3>4
    <3> QED BY <3>3, <3>5, <3>6, Zenon
  <2> QED BY <2>1, <2>2
<1> HIDE DEF Good
<1>4. \A T \in SUBSET S : T \in Good
  BY <1>3, SubsetInduction
<1>5. S \in SUBSET S
  OBVIOUS
<1>6. Sum(S) = f[a] + Sum(S \ {a})
  BY <1>4, <1>5 DEF Good
<1> QED BY <1>6 DEF Sum

\* A sum depends on the values over its set alone.
LEMMA SumEqual ==
  ASSUME NEW S, IsFiniteSet(S), NEW f, NEW g, \A x \in S : f[x] \in Int /\ g[x] = f[x]
  PROVE  SumFunctionOnSet(g, S) = SumFunctionOnSet(f, S)
<1> DEFINE Good == {T \in SUBSET S : SumFunctionOnSet(g, T) = SumFunctionOnSet(f, T)}
<1>1. ASSUME NEW T \in SUBSET S, \A U \in SUBSET T : U # T => U \in Good
      PROVE  T \in Good
  <2>1. IsFiniteSet(T) /\ (\A x \in T : f[x] \in Int) /\ (\A x \in T : g[x] \in Int)
    BY FS_Subset
  <2>2. CASE T = {}
    BY <2>1, <2>2, SumOneOut
  <2>3. ASSUME NEW x \in T PROVE T \in Good
    <3>1. T \ {x} \in SUBSET T /\ T \ {x} # T /\ g[x] = f[x]
      OBVIOUS
    <3>2. SumFunctionOnSet(g, T \ {x}) = SumFunctionOnSet(f, T \ {x})
      BY <1>1, <3>1
    <3>3. SumFunctionOnSet(f, T) = f[x] + SumFunctionOnSet(f, T \ {x})
      BY <2>1, SumRemove
    <3>4. SumFunctionOnSet(g, T) = g[x] + SumFunctionOnSet(g, T \ {x})
      BY <2>1, SumRemove
    <3> QED BY <3>1, <3>2, <3>3, <3>4
  <2> QED BY <2>2, <2>3
<1> HIDE DEF Good
<1>2. \A T \in SUBSET S : T \in Good
  BY <1>1, SubsetInduction
<1> QED BY <1>2 DEF Good

\* More non-negative terms make no smaller sum.
LEMMA SumGrows ==
  ASSUME NEW S, IsFiniteSet(S), NEW f, \A x \in S : f[x] \in Nat
  PROVE  \A T \in SUBSET S : /\ SumFunctionOnSet(f, T) \in Nat
                             /\ SumFunctionOnSet(f, T) <= SumFunctionOnSet(f, S)
<1> DEFINE Sum(T) == SumFunctionOnSet(f, T)
           Good == {T \in SUBSET S : \A U \in SUBSET T : Sum(U) \in Nat /\ Sum(U) <= Sum(T)}
<1>1. \A T \in SUBSET S : IsFiniteSet(T) /\ \A x \in T : f[x] \in Int
  BY FS_Subset
<1>2. /\ \A T \in SUBSET S : Sum(T) \in Int /\ (T = {} => Sum(T) = 0)
      /\ \A T \in SUBSET S : \A x \in T : Sum(T) = f[x] + Sum(T \ {x})
  BY <1>1, SumOneOut, SumRemove
<1> HIDE DEF Sum
<1>3. ASSUME NEW T \in SUBSET S, \A U \in SUBSET T : U # T => U \in Good
      PROVE  T \in Good
  <2>1. Sum(T) \in Nat
    <3>1. CASE T = {}
      BY <1>2, <3>1
    <3>2. ASSUME NEW x \in T PROVE Sum(T) \in Nat
      <4>1. T \ {x} \in SUBSET T /\ T \ {x} # T
        OBVIOUS
      <4>2. Sum(T \ {x}) \in Nat
        BY <1>3, <4>1
      <4> QED BY <1>2, <3>2, <4>2
    <3> QED BY <3>1, <3>2
  <2>2. ASSUME NEW U \in SUBSET T, U # T PROVE Sum(U) \in Nat /\ Sum(U) <= Sum(T)
    <3>1. PICK x \in T : x \notin U
      BY <2>2
    <3>2. T \ {x} \in SUBSET T /\ T \ {x} # T /\ U \in SUBSET (T \ {x})
      BY <3>1
    <3>3. Sum(U) \in Nat /\ Sum(U) <= Sum(T \ {x})
      BY <1>3, <3>2
    <3>4. Sum(T) = f[x] + Sum(T \ {x}) /\ f[x] \in Nat /\ Sum(T \ {x}) \in Int
      BY <1>2, <3>2
    <3> QED BY <3>3, <3>4
  <2> QED BY <2>1, <2>2
<1> HIDE DEF Good
<1>4. \A T \in SUBSET S : T \in Good
  BY <1>3, SubsetInduction
<1>5. S \in SUBSET S
  OBVIOUS
<1> QED BY <1>4, <1>5 DEF Good, Sum

\* One term more by one.
LEMMA SumIncrement ==
  ASSUME NEW S, IsFiniteSet(S), NEW f, NEW g, NEW a \in S, g[a] = f[a] + 1,
         \A x \in S : f[x] \in Int, \A x \in S \ {a} : g[x] = f[x]
  PROVE  SumFunctionOnSet(g, S) = SumFunctionOnSet(f, S) + 1
<1>1. IsFiniteSet(S \ {a}) /\ \A x \in S \ {a} : f[x] \in Int /\ g[x] = f[x]
  BY FS_RemoveElement
<1>2. \A x \in S : g[x] \in Int
  <2>1. \A x \in S : x = a \/ x \in S \ {a}
    OBVIOUS
  <2> QED BY <2>1
<1>3. SumFunctionOnSet(g, S \ {a}) = SumFunctionOnSet(f, S \ {a})
  BY <1>1, SumEqual
<1>4. SumFunctionOnSet(f, S \ {a}) \in Int
  BY <1>1, SumOneOut
<1>5. /\ SumFunctionOnSet(f, S) = f[a] + SumFunctionOnSet(f, S \ {a})
      /\ SumFunctionOnSet(g, S) = g[a] + SumFunctionOnSet(g, S \ {a})
  BY <1>2, SumRemove
<1> QED BY <1>3, <1>4, <1>5

\* Terms that are all 0.
LEMMA SumOfZeros ==
  ASSUME NEW S, IsFiniteSet(S), NEW f, \A x \in S : f[x] = 0
  PROVE  SumFunctionOnSet(f, S) = 0
<1> DEFINE Good == {T \in SUBSET S : SumFunctionOnSet(f, T) = 0}
<1>1. ASSUME NEW T \in SUBSET S, \A U \in SUBSET T : U # T => U \in Good
      PROVE  T \in Good
  <2>1. IsFiniteSet(T) /\ \A x \in T : f[x] = 0 /\ f[x] \in Int
    BY FS_Subset
  <2>2. CASE T = {}
    BY <2>1, <2>2, SumOneOut
  <2>3. CASE T # {}
    <3>1. PICK x \in T : SumFunctionOnSet(f, T) = f[x] + SumFunctionOnSet(f, T \ {x})
      BY <2>1, <2>3, SumOneOut
    <3>2. T \ {x} \in SUBSET T /\ T \ {x} # T
      OBVIOUS
    <3>3. SumFunctionOnSet(f, T \ {x}) = 0
      BY <1>1, <3>2
    <3> QED BY <2>1, <3>1, <3>3
  <2> QED BY <2>2, <2>3
<1> HIDE DEF Good
<1>2. \A T \in SUBSET S : T \in Good
  BY <1>1, SubsetInduction
<1> QED BY <1>2 DEF Good

=============================================================================
