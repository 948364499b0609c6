---------------------------- MODULE SumTheorems ----------------------------
(***************************************************************************)
(* Sums of functions over finite sets (SumFunctionOnSet of Functions).     *)
(*                                                                         *)
(* A sum is a fold, and a fold a recursive function that takes one element *)
(* away after the other.  That this function exists, and that the order of *)
(* the elements does not matter, is proved here by induction; both         *)
(* inductions are over sets of counterexamples, of which a well-founded    *)
(* ordering has a smallest.                                                *)
(***************************************************************************)
EXTENDS FiniteSetTheorems, TLAPS

\* Induction over the subsets of a finite set: a set of subsets that holds one whenever it
\* holds its smaller ones holds all.
LEMMA SubsetInduction ==
  ASSUME NEW S, IsFiniteSet(S), NEW Good,
         \A T \in SUBSET S : (\A U \in SUBSET T : U # T => U \in Good) => T \in Good
  PROVE  SUBSET S \subseteq Good
<1> DEFINE Bad == (SUBSET S) \ Good
           R == StrictSubsetOrdering(S)
<1> SUFFICES ASSUME Bad # {} PROVE FALSE
  OBVIOUS
<1>1. IsWellFoundedOn(R, SUBSET S)
  <2>1. IsWellFoundedOn(R, FiniteSubsetsOf(S)) /\ FiniteSubsetsOf(S) = SUBSET S
    BY FS_StrictSubsetOrderingWellFounded, FS_FiniteSubsetsOfFinite
  <2> HIDE DEF R
  <2> QED
    BY <2>1
<1>2. PICK T \in Bad : \A U \in Bad : <<U, T>> \notin R
  <2>1. Bad \subseteq SUBSET S
    OBVIOUS
  <2> HIDE DEF R, Bad
  <2> QED
    BY <1>1, <2>1, WFMin
<1>3. ASSUME NEW U \in SUBSET T, U # T PROVE U \in Good
  BY <1>2, <1>3 DEF StrictSubsetOrdering
<1> QED
  BY <1>3

\* Induction over the naturals.
LEMMA SetInduction ==
  ASSUME NEW T, 0 \in T, \A k \in Nat : k \in T => k + 1 \in T
  PROVE  Nat \subseteq T
<1> SUFFICES ASSUME NEW n \in Nat PROVE n \in T
  OBVIOUS
<1> DEFINE Good == {U \in SUBSET (1..n) : \A k \in 0..n : U = 1..k => k \in T}
<1>1. ASSUME NEW V \in SUBSET (1..n), \A U \in SUBSET V : U # V => U \in Good PROVE V \in Good
  <2> SUFFICES ASSUME NEW k \in 0..n, V = 1..k PROVE k \in T
    OBVIOUS
  <2>1. CASE k = 0
    BY <2>1
  <2>2. CASE k # 0
    <3>1. 1..(k - 1) \in SUBSET V /\ 1..(k - 1) # V /\ k - 1 \in 0..n
      BY <2>2
    <3>2. k - 1 \in T
      BY <1>1, <3>1
    <3> QED
      BY <2>2, <3>2
  <2> QED
    BY <2>1, <2>2
<1>2. SUBSET (1..n) \subseteq Good
  <2> DEFINE S == 1..n
  <2>1. IsFiniteSet(S)
    BY FS_Interval
  <2>2. \A V \in SUBSET S : (\A U \in SUBSET V : U # V => U \in Good) => V \in Good
    BY <1>1
  <2> HIDE DEF Good, S
  <2>3. SUBSET S \subseteq Good
    BY <2>1, <2>2, SubsetInduction
  <2> QED
    BY <2>3 DEF S
<1>3. 1..n \in Good
  BY <1>2
<1>4. n \in 0..n
  OBVIOUS
<1> QED
  BY <1>3, <1>4
-----------------------------------------------------------------------------
(* The fold                                                                *)

\* The element a fold takes next, and one turn of it.
Pick(s) == CHOOSE x \in s : TRUE
Turn(f, g, s) == IF s = {} THEN 0 ELSE f[Pick(s)] + g[s \ {Pick(s)}]

\* The recursive function that a sum is the last value of.
Iter(f, S) == CHOOSE g : g = [s \in SUBSET S |-> Turn(f, g, s)]

\* A sum is the last value of that function.
LEMMA SumIsIter == ASSUME NEW f, NEW S PROVE SumFunctionOnSet(f, S) = Iter(f, S)[S]
  BY DEF SumFunctionOnSet, FoldFunctionOnSet, MapThenFoldSet, Iter, Turn, Pick

\* The recursion is well founded: there is a function that satisfies it.
LEMMA IterExists ==
  ASSUME NEW f, NEW S, IsFiniteSet(S)
  PROVE  \E g : g = [s \in SUBSET S |-> Turn(f, g, s)]
<1> DEFINE Upto(g, n) == [s \in SUBSET S |-> IF Cardinality(s) <= n THEN Turn(f, g, s) ELSE 0]
           Levels == {n \in Nat : \E g : g = Upto(g, n)}
<1>1. \A s \in SUBSET S :
        /\ Cardinality(s) \in Nat /\ Cardinality(s) <= Cardinality(S) /\ Cardinality(S) \in Nat
        /\ Cardinality(s) = 0 <=> s = {}
        /\ s # {} => /\ s \ {Pick(s)} \in SUBSET S
                     /\ Cardinality(s \ {Pick(s)}) = Cardinality(s) - 1
  <2> SUFFICES ASSUME NEW s \in SUBSET S
               PROVE  /\ Cardinality(s) \in Nat /\ Cardinality(s) <= Cardinality(S) /\ Cardinality(S) \in Nat
                      /\ Cardinality(s) = 0 <=> s = {}
                      /\ s # {} => /\ s \ {Pick(s)} \in SUBSET S
                                   /\ Cardinality(s \ {Pick(s)}) = Cardinality(s) - 1
    OBVIOUS
  <2>1. IsFiniteSet(s) /\ Cardinality(s) <= Cardinality(S)
    BY FS_Subset
  <2>2. s # {} => Pick(s) \in s
    BY DEF Pick
  <2> QED
    BY <2>1, <2>2, FS_CardinalityType, FS_EmptySet, FS_RemoveElement
<1>2. 0 \in Levels
  <2> DEFINE g == [s \in SUBSET S |-> 0]
  <2>1. ASSUME NEW s \in SUBSET S, Cardinality(s) <= 0 PROVE Turn(f, g, s) = 0
    <3>1. Cardinality(s) \in Nat /\ (Cardinality(s) = 0 => s = {})
      BY <1>1
    <3>2. s = {}
      BY <2>1, <3>1
    <3> QED
      BY <3>2 DEF Turn
  <2>2. g = Upto(g, 0)
    BY <2>1
  <2> QED
    BY <2>2
<1>3. ASSUME NEW n \in Nat, n \in Levels PROVE n + 1 \in Levels
  <2> PICK g : g = Upto(g, n)
    BY <1>3
  <2> DEFINE h == Upto(g, n + 1)
  <2>1. ASSUME NEW s \in SUBSET S, Cardinality(s) <= n + 1 PROVE Turn(f, g, s) = Turn(f, h, s)
    <3>1. CASE s = {}
      BY <3>1 DEF Turn
    <3>2. CASE s # {}
      <4> DEFINE r == s \ {Pick(s)}
      <4>1. r \in SUBSET S /\ Cardinality(r) \in Nat /\ Cardinality(r) <= n
        BY <1>1, <2>1, <3>2
      <4> HIDE DEF r
      <4>2. g[r] = Turn(f, g, r) /\ h[r] = Turn(f, g, r)
        BY <4>1
      <4> QED
        BY <3>2, <4>2 DEF Turn, r
    <3> QED
      BY <3>1, <3>2
  <2>2. h = Upto(h, n + 1)
    BY <2>1
  <2> HIDE DEF h, Upto
  <2>3. \E k : k = Upto(k, n + 1)
    BY <2>2
  <2> QED
    BY <2>3
<1>4. Cardinality(S) \in Levels
  <2>1. Nat \subseteq Levels
    <3> HIDE DEF Levels
    <3> QED
      BY <1>2, <1>3, SetInduction
  <2> QED
    BY <1>1, <2>1, FS_CardinalityType
<1>5. PICK g : g = Upto(g, Cardinality(S))
  BY <1>4
<1>6. g = [s \in SUBSET S |-> Turn(f, g, s)]
  BY <1>1, <1>5
<1> QED
  BY <1>6

\* So the chosen function satisfies the recursion.
LEMMA IterUnfolds ==
  ASSUME NEW f, NEW S, IsFiniteSet(S), NEW s \in SUBSET S
  PROVE  Iter(f, S)[s] = Turn(f, Iter(f, S), s)
<1>1. Iter(f, S) = [t \in SUBSET S |-> Turn(f, Iter(f, S), t)]
  BY IterExists DEF Iter
<1> QED
  BY <1>1

\* It does not matter from which larger set a fold came down to a set.
LEMMA IterSame ==
  ASSUME NEW f, NEW S, IsFiniteSet(S), NEW T \in SUBSET S
  PROVE  Iter(f, S)[T] = Iter(f, T)[T]
<1> DEFINE Good == {U \in SUBSET T : Iter(f, S)[U] = Iter(f, T)[U]}
<1>1. IsFiniteSet(T)
  BY FS_Subset
<1>2. ASSUME NEW V \in SUBSET T, \A U \in SUBSET V : U # V => U \in Good PROVE V \in Good
  <2>1. Iter(f, S)[V] = Turn(f, Iter(f, S), V) /\ Iter(f, T)[V] = Turn(f, Iter(f, T), V)
    BY <1>1, IterUnfolds
  <2>2. V # {} => V \ {Pick(V)} \in Good
    BY <1>2 DEF Pick
  <2> QED
    BY <2>1, <2>2 DEF Turn
<1>3. SUBSET T \subseteq Good
  <2> HIDE DEF Good
  <2> QED
    BY <1>1, <1>2, SubsetInduction
<1> QED
  BY <1>3
-----------------------------------------------------------------------------
(* Sums                                                                    *)

\* The two cases of the fold.
LEMMA SumFolds ==
  ASSUME NEW f, NEW S, IsFiniteSet(S)
  PROVE  SumFunctionOnSet(f, S) =
           IF S = {} THEN 0 ELSE f[Pick(S)] + SumFunctionOnSet(f, S \ {Pick(S)})
<1>1. SumFunctionOnSet(f, S) = Turn(f, Iter(f, S), S)
  BY SumIsIter, IterUnfolds
<1>2. Iter(f, S)[S \ {Pick(S)}] = SumFunctionOnSet(f, S \ {Pick(S)})
  BY SumIsIter, IterSame
<1> QED
  BY <1>1, <1>2 DEF Turn

\* A sum of naturals is a natural.
LEMMA SumType ==
  ASSUME NEW f, NEW S, IsFiniteSet(S), \A x \in S : f[x] \in Nat
  PROVE  SumFunctionOnSet(f, S) \in Nat
<1> DEFINE Good == {T \in SUBSET S : SumFunctionOnSet(f, T) \in Nat}
<1>1. ASSUME NEW T \in SUBSET S, \A U \in SUBSET T : U # T => U \in Good PROVE T \in Good
  <2>1. T # {} => Pick(T) \in T /\ T \ {Pick(T)} \in Good
    BY <1>1 DEF Pick
  <2>2. IsFiniteSet(T)
    BY FS_Subset
  <2> QED
    BY <2>1, <2>2, SumFolds
<1>2. SUBSET S \subseteq Good
  <2> HIDE DEF Good
  <2> QED
    BY <1>1, SubsetInduction
<1> QED
  BY <1>2

\* Any element may be the first that is taken.
LEMMA SumRemove ==
  ASSUME NEW f, NEW S, IsFiniteSet(S), \A x \in S : f[x] \in Nat, NEW y \in S
  PROVE  SumFunctionOnSet(f, S) = f[y] + SumFunctionOnSet(f, S \ {y})
<1> DEFINE Total(T) == SumFunctionOnSet(f, T)
           Good == {T \in SUBSET S : \A x \in T : Total(T) = f[x] + Total(T \ {x})}
<1>1. ASSUME NEW T \in SUBSET S PROVE IsFiniteSet(T) /\ Total(T) \in Nat
  BY FS_Subset, SumType
<1>2. ASSUME NEW T \in SUBSET S, \A U \in SUBSET T : U # T => U \in Good PROVE T \in Good
  <2> SUFFICES ASSUME NEW x \in T PROVE Total(T) = f[x] + Total(T \ {x})
    OBVIOUS
  <2> DEFINE c == Pick(T)
  <2>1. c \in T
    BY DEF Pick
  <2>2. Total(T) = f[c] + Total(T \ {c})
    BY <1>1, SumFolds
  <2> HIDE DEF c, Total
  <2>3. CASE x = c
    BY <2>2, <2>3
  <2>4. CASE x # c
    <3>1. T \ {c} \in Good /\ T \ {x} \in Good
      BY <1>2, <2>1
    <3>2. Total(T \ {c}) = f[x] + Total((T \ {c}) \ {x})
      BY <2>4, <3>1
    <3>3. Total(T \ {x}) = f[c] + Total((T \ {x}) \ {c})
      BY <2>1, <2>4, <3>1
    <3>4. (T \ {x}) \ {c} = (T \ {c}) \ {x}
      OBVIOUS
    <3>5. Total((T \ {c}) \ {x}) \in Nat /\ f[x] \in Nat /\ f[c] \in Nat
      BY <1>1, <2>1
    <3> QED
      BY <2>2, <3>2, <3>3, <3>4, <3>5
  <2> QED
    BY <2>3, <2>4
<1>3. SUBSET S \subseteq Good
  <2> HIDE DEF Good
  <2> QED
    BY <1>2, SubsetInduction
<1> QED
  BY <1>3

\* Smaller summands, smaller sum.
LEMMA SumMonotone ==
  ASSUME NEW f, NEW g, NEW S, IsFiniteSet(S), \A x \in S : f[x] \in Nat /\ g[x] \in Nat /\ f[x] <= g[x]
  PROVE  SumFunctionOnSet(f, S) <= SumFunctionOnSet(g, S)
<1> DEFINE Good == {T \in SUBSET S : SumFunctionOnSet(f, T) <= SumFunctionOnSet(g, T)}
<1>1. ASSUME NEW T \in SUBSET S, \A U \in SUBSET T : U # T => U \in Good PROVE T \in Good
  <2> DEFINE c == Pick(T)
  <2>1. IsFiniteSet(T) /\ (T # {} => c \in T /\ T \ {c} \in SUBSET S /\ T \ {c} \in Good)
    BY <1>1, FS_Subset DEF Pick
  <2>2. T = {} => SumFunctionOnSet(f, T) = 0 /\ SumFunctionOnSet(g, T) = 0
    BY <2>1, SumFolds
  <2>3. T # {} => /\ SumFunctionOnSet(f, T) = f[c] + SumFunctionOnSet(f, T \ {c})
                  /\ SumFunctionOnSet(g, T) = g[c] + SumFunctionOnSet(g, T \ {c})
    BY <2>1, SumFolds
  <2>4. SumFunctionOnSet(f, T \ {c}) \in Nat /\ SumFunctionOnSet(g, T \ {c}) \in Nat
    BY FS_Subset, SumType
  <2> HIDE DEF c
  <2> QED
    BY <2>1, <2>2, <2>3, <2>4
<1>2. SUBSET S \subseteq Good
  <2> HIDE DEF Good
  <2> QED
    BY <1>1, SubsetInduction
<1> QED
  BY <1>2

\* Equal summands, equal sum.
LEMMA SumEqual ==
  ASSUME NEW f, NEW g, NEW S, IsFiniteSet(S), \A x \in S : f[x] \in Nat /\ f[x] = g[x]
  PROVE  SumFunctionOnSet(f, S) = SumFunctionOnSet(g, S)
<1>1. SumFunctionOnSet(f, S) <= SumFunctionOnSet(g, S) /\ SumFunctionOnSet(g, S) <= SumFunctionOnSet(f, S)
  BY SumMonotone
<1>2. SumFunctionOnSet(f, S) \in Nat /\ SumFunctionOnSet(g, S) \in Nat
  BY SumType
<1> QED
  BY <1>1, <1>2

\* One summand changes.
LEMMA SumChange ==
  ASSUME NEW f, NEW g, NEW S, IsFiniteSet(S), NEW y \in S,
         \A x \in S : f[x] \in Nat /\ g[x] \in Nat, \A x \in S \ {y} : f[x] = g[x]
  PROVE  SumFunctionOnSet(g, S) = SumFunctionOnSet(f, S) - f[y] + g[y]
<1>1. SumFunctionOnSet(f, S) = f[y] + SumFunctionOnSet(f, S \ {y})
  BY SumRemove
<1>2. SumFunctionOnSet(g, S) = g[y] + SumFunctionOnSet(g, S \ {y})
  BY SumRemove
<1>3. IsFiniteSet(S \ {y})
  BY FS_RemoveElement
<1>4. SumFunctionOnSet(f, S \ {y}) = SumFunctionOnSet(g, S \ {y}) /\ SumFunctionOnSet(f, S \ {y}) \in Nat
  BY <1>3, SumEqual, SumType
<1> QED
  BY <1>1, <1>2, <1>4

\* No summand exceeds the sum.
LEMMA SumCovers ==
  ASSUME NEW f, NEW S, IsFiniteSet(S), \A x \in S : f[x] \in Nat, NEW y \in S
  PROVE  f[y] <= SumFunctionOnSet(f, S)
<1>1. IsFiniteSet(S \ {y})
  BY FS_RemoveElement
<1>2. SumFunctionOnSet(f, S \ {y}) \in Nat
  BY <1>1, SumType
<1> QED
  BY <1>2, SumRemove

\* One summand more.
LEMMA SumAdd ==
  ASSUME NEW f, NEW S, IsFiniteSet(S), NEW y, y \notin S, \A x \in S \cup {y} : f[x] \in Nat
  PROVE  SumFunctionOnSet(f, S \cup {y}) = SumFunctionOnSet(f, S) + f[y]
<1>1. IsFiniteSet(S \cup {y}) /\ (S \cup {y}) \ {y} = S
  BY FS_AddElement
<1>2. SumFunctionOnSet(f, S) \in Nat
  BY SumType
<1> QED
  BY <1>1, <1>2, SumRemove

\* A sum of zeros is zero.
LEMMA SumZero ==
  ASSUME NEW f, NEW S, IsFiniteSet(S), \A x \in S : f[x] = 0
  PROVE  SumFunctionOnSet(f, S) = 0
<1> DEFINE Good == {T \in SUBSET S : SumFunctionOnSet(f, T) = 0}
<1>1. ASSUME NEW T \in SUBSET S, \A U \in SUBSET T : U # T => U \in Good PROVE T \in Good
  <2>1. IsFiniteSet(T) /\ (T # {} => Pick(T) \in T /\ T \ {Pick(T)} \in Good)
    BY <1>1, FS_Subset DEF Pick
  <2> QED
    BY <2>1, SumFolds
<1>2. SUBSET S \subseteq Good
  <2> HIDE DEF Good
  <2> QED
    BY <1>1, SubsetInduction
<1> QED
  BY <1>2

\* A sequence of summands grows by one.
LEMMA SumAppend ==
  ASSUME NEW n \in Nat, NEW f, NEW g, DOMAIN f = 1..n, DOMAIN g = 1..(n + 1),
         \A i \in 1..(n + 1) : g[i] \in Nat, \A i \in 1..n : f[i] = g[i]
  PROVE  /\ SumFunction(f) \in Nat
         /\ SumFunction(g) = SumFunction(f) + g[n + 1]
<1> DEFINE S == 1..n
<1>1. IsFiniteSet(S) /\ n + 1 \notin S /\ 1..(n + 1) = S \cup {n + 1}
  <2>1. IsFiniteSet(S)
    BY FS_Interval
  <2>2. n + 1 \notin S
    OBVIOUS
  <2>3. 1..(n + 1) = S \cup {n + 1}
    OBVIOUS
  <2> QED
    BY <2>1, <2>2, <2>3
<1>2. \A i \in S : f[i] \in Nat /\ f[i] = g[i]
  OBVIOUS
<1>3. \A i \in S \cup {n + 1} : g[i] \in Nat
  BY <1>1
<1> HIDE DEF S
<1>4. SumFunctionOnSet(g, S \cup {n + 1}) = SumFunctionOnSet(g, S) + g[n + 1]
  BY <1>1, <1>3, SumAdd
<1>5. SumFunctionOnSet(f, S) = SumFunctionOnSet(g, S) /\ SumFunctionOnSet(f, S) \in Nat
  BY <1>1, <1>2, SumEqual, SumType
<1>6. DOMAIN f = S /\ DOMAIN g = S \cup {n + 1}
  BY <1>1 DEF S
<1>7. SumFunction(f) = SumFunctionOnSet(f, S) /\ SumFunction(g) = SumFunctionOnSet(g, S \cup {n + 1})
  BY <1>6 DEF SumFunction
<1> QED
  BY <1>4, <1>5, <1>7
=============================================================================
