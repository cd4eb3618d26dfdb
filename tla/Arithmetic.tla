----------------------------- MODULE Arithmetic -----------------------------
(***************************************************************************)
(* Facts about the arithmetic of the contracts.  Solidity's truncating     *)
(* division of unsigned numbers, which every index, share and rate         *)
(* computation relies on; and the sum of a mapping's values, which is what *)
(* a running total kept beside the mapping is compared with.               *)
(*                                                                         *)
(* The sum is SumFunction of the community modules, defined by recursion   *)
(* over the subsets of the domain.  Its laws are shown by taking a minimal *)
(* counterexample, which exists because proper inclusion between subsets   *)
(* of a finite set is well founded.                                        *)
(*                                                                         *)
(* And the lists a contract keeps beside a mapping to walk its keys: what  *)
(* appending and swap-and-pop do to the set of names, and why walking such *)
(* a list adds up the mapping.                                             *)
(***************************************************************************)
EXTENDS Integers, Sequences, Functions, FiniteSets, FiniteSetTheorems, TLAPS

(* A quotient is an unsigned number that brackets its dividend. *)
LEMMA DivBounds ==
  ASSUME NEW a \in Nat, NEW c \in Nat \ {0}
  PROVE  /\ a \div c \in Nat
         /\ (a \div c) * c <= a
         /\ a < (a \div c) * c + c
  OBVIOUS

(* Dividing what was just multiplied gives it back: re-reading a balance at *)
(* the index it was stored at loses nothing.                                *)
LEMMA DivExact ==
  ASSUME NEW a \in Nat, NEW c \in Nat \ {0}
  PROVE  (a * c) \div c = a
  OBVIOUS

(* A larger dividend never has a smaller quotient. *)
LEMMA DivMonotone ==
  ASSUME NEW a \in Nat, NEW b \in Nat, NEW c \in Nat \ {0}, a <= b
  PROVE  a \div c <= b \div c
  OBVIOUS

(* The quotient is the only number whose multiple brackets the dividend. *)
LEMMA DivUnique ==
  ASSUME NEW a \in Nat, NEW q \in Nat, NEW c \in Nat \ {0},
         q * c <= a, a < q * c + c
  PROVE  a \div c = q
  OBVIOUS

(* Products of unsigned numbers are unsigned and monotone. *)
LEMMA MulMonotone ==
  ASSUME NEW a \in Nat, NEW b \in Nat, NEW c \in Nat, a <= b
  PROVE  a * c \in Nat /\ a * c <= b * c /\ c * a <= c * b
  OBVIOUS

(* Scaling by at least one never shrinks: if f >= c then a * f / c >= a. *)
LEMMA ScaleUp ==
  ASSUME NEW a \in Nat, NEW f \in Nat, NEW c \in Nat \ {0}, c <= f
  PROVE  (a * f) \div c \in Nat /\ a <= (a * f) \div c
<1>1. a * c <= a * f /\ a * c \in Nat /\ a * f \in Nat
  BY MulMonotone
<1>2. (a * c) \div c <= (a * f) \div c
  BY <1>1, DivMonotone
<1>3. QED
  BY <1>1, <1>2, DivExact, DivBounds

-----------------------------------------------------------------------------
(* Sums.  OneOf(s) is the member that the recursion takes out of s first;  *)
(* IsSum(f, g, S) says that g takes each subset of S to the sum of f over  *)
(* it.                                                                     *)
OneOf(s) == CHOOSE x \in s : TRUE
SumStep(f, g, s) == IF s = {} THEN 0 ELSE f[OneOf(s)] + g[s \ {OneOf(s)}]
IsSum(f, g, S) == g = [s \in SUBSET S |-> SumStep(f, g, s)]

(* The library's sum is the value, at the whole set, of the function that *)
(* this step determines.                                                  *)
LEMMA SumIsIter ==
  ASSUME NEW f, NEW S
  PROVE  SumFunctionOnSet(f, S) = (CHOOSE g : IsSum(f, g, S))[S]
  BY DEF SumFunctionOnSet, FoldFunctionOnSet, MapThenFoldSet, IsSum, SumStep, OneOf

(* What OneOf picks from a set that is not empty is a member of it. *)
LEMMA OneOfIsMember == ASSUME NEW s, s # {} PROVE OneOf(s) \in s
  BY DEF OneOf

(* Every nonempty set of subsets of a finite set has a minimal one. *)
LEMMA MinimalSubset ==
  ASSUME NEW S, IsFiniteSet(S), NEW W \in SUBSET (SUBSET S), W # {}
  PROVE  \E T \in W : \A U \in SUBSET T : U # T => U \notin W
<1>1. IsWellFoundedOn(StrictSubsetOrdering(S), FiniteSubsetsOf(S))
  BY FS_StrictSubsetOrderingWellFounded
<1>2. FiniteSubsetsOf(S) = SUBSET S
  BY FS_FiniteSubsetsOfFinite
<1>3. PICK T \in W : \A U \in W : ~ (<<U, T>> \in StrictSubsetOrdering(S))
  <2>1. IsWellFoundedOn(StrictSubsetOrdering(S), SUBSET S)
    BY <1>1, <1>2
  <2>2. QED
    BY <2>1, WFMin
<1>4. ASSUME NEW U \in SUBSET T, U # T, U \in W PROVE FALSE
  <2>1. <<U, T>> \in StrictSubsetOrdering(S)
    BY <1>4 DEF StrictSubsetOrdering
  <2>2. QED
    BY <1>3, <1>4, <2>1
<1>5. QED
  BY <1>4

(* The step determines that function: two that satisfy it are equal.  A   *)
(* least set on which they differed would differ in a smaller one.        *)
LEMMA SumsAgree ==
  ASSUME NEW S, IsFiniteSet(S), NEW f, NEW g, NEW h, IsSum(f, g, S), IsSum(f, h, S)
  PROVE  g = h
<1> DEFINE W == {s \in SUBSET S : g[s] # h[s]}
<1>1. \A s \in SUBSET S : g[s] = SumStep(f, g, s) /\ h[s] = SumStep(f, h, s)
  BY DEF IsSum
<1>2. ASSUME W # {} PROVE FALSE
  <2>1. PICK T \in W : \A U \in SUBSET T : U # T => U \notin W
    <3>1. W \in SUBSET (SUBSET S)
      OBVIOUS
    <3> HIDE DEF W
    <3>2. QED
      BY <1>2, <3>1, MinimalSubset
  <2>2. CASE T = {}
    BY <1>1, <2>1, <2>2 DEF SumStep
  <2>3. CASE T # {}
    <3>1. OneOf(T) \in T
      BY <2>3, OneOfIsMember
    <3>2. T \ {OneOf(T)} \in SUBSET T /\ T \ {OneOf(T)} # T
      BY <3>1
    <3>3. g[T \ {OneOf(T)}] = h[T \ {OneOf(T)}]
      BY <2>1, <3>2
    <3>4. QED
      BY <1>1, <2>1, <2>3, <3>3 DEF SumStep
  <2>4. QED
    BY <2>2, <2>3
<1>3. \A s \in SUBSET S : g[s] = h[s]
  BY <1>2
<1>4. g = [s \in SUBSET S |-> g[s]] /\ h = [s \in SUBSET S |-> h[s]]
  BY DEF IsSum
<1>5. QED
  BY <1>3, <1>4

(* Cut down to the subsets of a subset it is still the function of sums. *)
LEMMA SumRestricts ==
  ASSUME NEW S, NEW T \in SUBSET S, NEW f, NEW g, IsSum(f, g, S)
  PROVE  IsSum(f, [s \in SUBSET T |-> g[s]], T)
<1> DEFINE h == [s \in SUBSET T |-> g[s]]
<1>1. ASSUME NEW s \in SUBSET T PROVE h[s] = SumStep(f, h, s)
  <2>1. h[s] = g[s] /\ g[s] = SumStep(f, g, s)
    BY DEF IsSum
  <2>2. h[s \ {OneOf(s)}] = g[s \ {OneOf(s)}]
    OBVIOUS
  <2>3. SumStep(f, h, s) = SumStep(f, g, s)
    BY <2>2 DEF SumStep
  <2>4. QED
    BY <2>1, <2>3
<1>2. h = [s \in SUBSET T |-> SumStep(f, h, s)]
  BY <1>1
<1>3. QED
  BY <1>2 DEF IsSum

(* There is such a function: a least set without one would get it from    *)
(* those of its proper subsets, which agree where they overlap.           *)
LEMMA SumExists ==
  ASSUME NEW S, IsFiniteSet(S), NEW f
  PROVE  \E g : IsSum(f, g, S)
<1> DEFINE W == {T \in SUBSET S : ~ \E g : IsSum(f, g, T)}
<1>1. ASSUME W # {} PROVE FALSE
  <2>1. PICK T \in W : \A U \in SUBSET T : U # T => U \notin W
    <3>1. W \in SUBSET (SUBSET S)
      OBVIOUS
    <3> HIDE DEF W
    <3>2. QED
      BY <1>1, <3>1, MinimalSubset
  <2>2. T \in SUBSET S /\ ~ \E g : IsSum(f, g, T)
    BY <2>1
  <2>3. \A U \in SUBSET T : U # T => \E g : IsSum(f, g, U)
    BY <2>1, <2>2
  <2> DEFINE of(U) == CHOOSE g : IsSum(f, g, U)
             below == [s \in SUBSET T |-> IF s = T THEN 0 ELSE of(s)[s]]
             sum == [s \in SUBSET T |-> IF s = T THEN SumStep(f, below, T) ELSE of(s)[s]]
  <2>4. \A U \in SUBSET T : U # T => IsSum(f, of(U), U)
    BY <2>3
  <2> HIDE DEF of
  <2>5. ASSUME NEW s \in SUBSET T, s # {}
        PROVE  s \ {OneOf(s)} \in SUBSET T /\ s \ {OneOf(s)} # T /\ s \ {OneOf(s)} # s
    BY <2>5, OneOfIsMember
  <2>6. ASSUME NEW s \in SUBSET T PROVE sum[s] = SumStep(f, sum, s)
    <3>1. CASE s = T
      <4>1. s # {} => sum[s \ {OneOf(s)}] = below[s \ {OneOf(s)}]
        BY <2>5
      <4>2. SumStep(f, sum, T) = SumStep(f, below, T)
        BY <3>1, <4>1 DEF SumStep
      <4>3. QED
        BY <3>1, <4>2
    <3>2. CASE s # T
      <4>1. sum[s] = of(s)[s] /\ IsSum(f, of(s), s)
        BY <2>4, <3>2
      <4>2. of(s)[s] = SumStep(f, of(s), s)
        BY <4>1 DEF IsSum
      <4>3. CASE s = {}
        BY <4>1, <4>2, <4>3 DEF SumStep
      <4>4. CASE s # {}
        <5> DEFINE r == s \ {OneOf(s)}
        <5>1. r \in SUBSET T /\ r # T /\ r \in SUBSET s
          BY <2>5, <4>4
        <5>2. sum[r] = of(r)[r] /\ IsSum(f, of(r), r)
          BY <2>4, <5>1
        <5>3. IsSum(f, [q \in SUBSET r |-> of(s)[q]], r)
          BY <4>1, <5>1, SumRestricts
        <5>4. IsFiniteSet(r)
          BY <2>2, <5>1, FS_Subset
        <5>5. of(r) = [q \in SUBSET r |-> of(s)[q]]
          BY <5>2, <5>3, <5>4, SumsAgree
        <5>6. of(r)[r] = of(s)[r]
          <6> HIDE DEF r
          <6> QED
            BY <5>5
        <5>7. QED
          BY <4>1, <4>2, <4>4, <5>2, <5>6 DEF SumStep
      <4>5. QED
        BY <4>3, <4>4
    <3>3. QED
      BY <3>1, <3>2
  <2>7. sum = [s \in SUBSET T |-> sum[s]]
    OBVIOUS
  <2> HIDE DEF sum
  <2>8. IsSum(f, sum, T)
    BY <2>6, <2>7 DEF IsSum
  <2>9. QED
    BY <2>2, <2>8
<1>2. QED
  BY <1>1

(* A sum over a finite set, one element at a time.                         *)
LEMMA SumUnfolds ==
  ASSUME NEW S, IsFiniteSet(S), NEW f
  PROVE  SumFunctionOnSet(f, S) =
           IF S = {} THEN 0 ELSE f[OneOf(S)] + SumFunctionOnSet(f, S \ {OneOf(S)})
<1> DEFINE of(T) == CHOOSE g : IsSum(f, g, T)
           r == S \ {OneOf(S)}
<1>1. SumFunctionOnSet(f, S) = of(S)[S] /\ SumFunctionOnSet(f, r) = of(r)[r]
  BY SumIsIter
<1>2. IsFiniteSet(r) /\ r \in SUBSET S
  BY FS_Subset
<1>3. IsSum(f, of(S), S) /\ IsSum(f, of(r), r)
  <2>1. (\E g : IsSum(f, g, S)) /\ (\E g : IsSum(f, g, r))
    BY <1>2, SumExists
  <2>2. QED
    BY <2>1
<1> HIDE DEF of, r
<1>4. of(S)[S] = SumStep(f, of(S), S)
  BY <1>3 DEF IsSum
<1>5. of(r) = [q \in SUBSET r |-> of(S)[q]]
  <2>1. IsSum(f, [q \in SUBSET r |-> of(S)[q]], r)
    <3> DEFINE g == of(S)
    <3>1. IsSum(f, g, S)
      BY <1>3
    <3> HIDE DEF g
    <3>2. IsSum(f, [q \in SUBSET r |-> g[q]], r)
      BY <1>2, <3>1, SumRestricts
    <3>3. QED
      BY <3>2 DEF g
  <2>2. QED
    BY <1>2, <1>3, <2>1, SumsAgree
<1>6. of(r)[r] = of(S)[r]
  BY <1>5
<1>7. QED
  BY <1>1, <1>4, <1>6 DEF SumStep, r

(* Sums of numbers from a set that is closed under addition are in it.     *)
LEMMA SumIsIn ==
  ASSUME NEW S, IsFiniteSet(S), NEW V, 0 \in V, \A a, b \in V : a + b \in V,
         NEW f, \A x \in S : f[x] \in V
  PROVE  SumFunctionOnSet(f, S) \in V
<1> DEFINE W == {T \in SUBSET S : SumFunctionOnSet(f, T) \notin V}
<1>1. W \in SUBSET (SUBSET S)
  OBVIOUS
<1>2. ASSUME W # {} PROVE FALSE
  <2>1. PICK T \in W : \A U \in SUBSET T : U # T => U \notin W
    <3> HIDE DEF W
    <3> QED
      BY <1>1, <1>2, MinimalSubset
  <2>2. T \in SUBSET S /\ IsFiniteSet(T) /\ SumFunctionOnSet(f, T) \notin V
    BY <2>1, FS_Subset
  <2>3. T # {}
    <3>1. SumFunctionOnSet(f, {}) = 0
      BY FS_EmptySet, SumUnfolds
    <3>2. QED
      BY <2>2, <3>1
  <2>4. OneOf(T) \in T
    BY <2>3, OneOfIsMember
  <2>5. SumFunctionOnSet(f, T \ {OneOf(T)}) \in V
    BY <2>1, <2>2, <2>4
  <2>6. SumFunctionOnSet(f, T) = f[OneOf(T)] + SumFunctionOnSet(f, T \ {OneOf(T)})
    BY <2>2, <2>3, SumUnfolds
  <2>7. QED
    BY <2>2, <2>4, <2>5, <2>6
<1>3. QED
  BY <1>2

LEMMA SumTypes ==
  ASSUME NEW S, IsFiniteSet(S), NEW f
  PROVE  /\ (\A x \in S : f[x] \in Int) => SumFunctionOnSet(f, S) \in Int
         /\ (\A x \in S : f[x] \in Nat) => SumFunctionOnSet(f, S) \in Nat
         /\ (\A x \in S : f[x] = 0) => SumFunctionOnSet(f, S) = 0
<1>1. ASSUME \A x \in S : f[x] \in Int PROVE SumFunctionOnSet(f, S) \in Int
  BY <1>1, SumIsIn, 0 \in Int, \A a, b \in Int : a + b \in Int
<1>2. ASSUME \A x \in S : f[x] \in Nat PROVE SumFunctionOnSet(f, S) \in Nat
  BY <1>2, SumIsIn, 0 \in Nat, \A a, b \in Nat : a + b \in Nat
<1>3. ASSUME \A x \in S : f[x] = 0 PROVE SumFunctionOnSet(f, S) = 0
  <2>1. 0 \in {0} /\ (\A a, b \in {0} : a + b \in {0}) /\ \A x \in S : f[x] \in {0}
    BY <1>3
  <2>2. SumFunctionOnSet(f, S) \in {0}
    BY <2>1, SumIsIn
  <2>3. QED
    BY <2>2
<1>4. QED
  BY <1>1, <1>2, <1>3

(* Sums of functions that agree on the set are the same. *)
LEMMA SumsOfEquals ==
  ASSUME NEW S, IsFiniteSet(S), NEW f, NEW h, \A x \in S : f[x] = h[x]
  PROVE  SumFunctionOnSet(f, S) = SumFunctionOnSet(h, S)
<1> DEFINE W == {T \in SUBSET S : SumFunctionOnSet(f, T) # SumFunctionOnSet(h, T)}
<1>1. W \in SUBSET (SUBSET S)
  OBVIOUS
<1>2. ASSUME W # {} PROVE FALSE
  <2>1. PICK T \in W : \A U \in SUBSET T : U # T => U \notin W
    <3> HIDE DEF W
    <3> QED
      BY <1>1, <1>2, MinimalSubset
  <2>2. T \in SUBSET S /\ IsFiniteSet(T)
    BY <2>1, FS_Subset
  <2>3. T # {}
    <3>1. SumFunctionOnSet(f, {}) = 0 /\ SumFunctionOnSet(h, {}) = 0
      BY FS_EmptySet, SumUnfolds
    <3>2. QED
      BY <2>1, <3>1
  <2>4. OneOf(T) \in T
    BY <2>3, OneOfIsMember
  <2>5. SumFunctionOnSet(f, T \ {OneOf(T)}) = SumFunctionOnSet(h, T \ {OneOf(T)})
    BY <2>1, <2>2, <2>4
  <2>6. /\ SumFunctionOnSet(f, T) = f[OneOf(T)] + SumFunctionOnSet(f, T \ {OneOf(T)})
        /\ SumFunctionOnSet(h, T) = h[OneOf(T)] + SumFunctionOnSet(h, T \ {OneOf(T)})
    BY <2>2, <2>3, SumUnfolds
  <2>7. QED
    BY <2>1, <2>2, <2>4, <2>5, <2>6
<1>3. QED
  BY <1>2

(* Any member of the set may be the first to be added. *)
LEMMA SumTakesOut ==
  ASSUME NEW S, IsFiniteSet(S), NEW f, \A x \in S : f[x] \in Int, NEW u \in S
  PROVE  SumFunctionOnSet(f, S) = f[u] + SumFunctionOnSet(f, S \ {u})
<1> DEFINE W == {T \in SUBSET S : \E y \in T :
                   SumFunctionOnSet(f, T) # f[y] + SumFunctionOnSet(f, T \ {y})}
<1>1. W \in SUBSET (SUBSET S)
  OBVIOUS
<1>2. ASSUME W # {} PROVE FALSE
  <2>1. PICK T \in W : \A U \in SUBSET T : U # T => U \notin W
    <3> HIDE DEF W
    <3> QED
      BY <1>1, <1>2, MinimalSubset
  <2>2. T \in SUBSET S /\ IsFiniteSet(T)
    BY <2>1, FS_Subset
  <2>3. PICK y \in T : SumFunctionOnSet(f, T) # f[y] + SumFunctionOnSet(f, T \ {y})
    BY <2>1
  <2> DEFINE h == OneOf(T)
  <2>4. h \in T
    BY <2>3, OneOfIsMember
  <2>5. SumFunctionOnSet(f, T) = f[h] + SumFunctionOnSet(f, T \ {h})
    BY <2>2, <2>3, SumUnfolds
  <2> HIDE DEF h
  <2>6. h # y
    BY <2>3, <2>5
  <2>7. SumFunctionOnSet(f, T \ {h}) = f[y] + SumFunctionOnSet(f, (T \ {h}) \ {y})
    <3>1. T \ {h} \in SUBSET T /\ T \ {h} # T /\ y \in T \ {h} /\ T \ {h} \in SUBSET S
      BY <2>2, <2>4, <2>6
    <3>2. T \ {h} \notin W
      BY <2>1, <3>1
    <3>3. QED
      BY <3>1, <3>2
  <2>8. SumFunctionOnSet(f, T \ {y}) = f[h] + SumFunctionOnSet(f, (T \ {y}) \ {h})
    <3>1. T \ {y} \in SUBSET T /\ T \ {y} # T /\ h \in T \ {y} /\ T \ {y} \in SUBSET S
      BY <2>2, <2>4, <2>6
    <3>2. T \ {y} \notin W
      BY <2>1, <3>1
    <3>3. QED
      BY <3>1, <3>2
  <2>9. (T \ {h}) \ {y} = (T \ {y}) \ {h}
    OBVIOUS
  <2>10. SumFunctionOnSet(f, (T \ {y}) \ {h}) \in Int
    <3>1. IsFiniteSet((T \ {y}) \ {h}) /\ \A x \in (T \ {y}) \ {h} : f[x] \in Int
      BY <2>2, FS_Subset
    <3>2. QED
      BY <3>1, SumTypes
  <2>11. f[h] \in Int /\ f[y] \in Int
    BY <2>2, <2>4
  <2> DEFINE rest == SumFunctionOnSet(f, (T \ {y}) \ {h})
             a == f[h]
             b == f[y]
  <2>12. SumFunctionOnSet(f, T) = a + (b + rest) /\ SumFunctionOnSet(f, T) # b + (a + rest)
    BY <2>3, <2>5, <2>7, <2>8, <2>9
  <2>13. a \in Int /\ b \in Int /\ rest \in Int
    BY <2>10, <2>11
  <2> HIDE DEF a, b, rest
  <2>14. QED
    BY <2>12, <2>13
<1>3. QED
  BY <1>2

(* The sum of a mapping of numbers is a number, of unsigned ones unsigned, *)
(* and of zeros zero.                                                      *)
LEMMA SumOfMapping ==
  ASSUME NEW S, IsFiniteSet(S), NEW f \in [S -> Int]
  PROVE  /\ SumFunction(f) \in Int
         /\ f \in [S -> Nat] => SumFunction(f) \in Nat
         /\ (\A x \in S : f[x] = 0) => SumFunction(f) = 0
<1>1. SumFunction(f) = SumFunctionOnSet(f, S)
  BY DEF SumFunction
<1>2. \A x \in S : f[x] \in Int
  OBVIOUS
<1>3. f \in [S -> Nat] => \A x \in S : f[x] \in Nat
  OBVIOUS
<1>4. QED
  BY <1>1, <1>2, <1>3, SumTypes

(* Changing one value changes the sum by as much. *)
LEMMA SumChanges ==
  ASSUME NEW S, IsFiniteSet(S), NEW f \in [S -> Int], NEW h \in [S -> Int], NEW u \in S,
         \A x \in S : x # u => h[x] = f[x]
  PROVE  /\ SumFunction(f) \in Int
         /\ SumFunction(h) = SumFunction(f) - f[u] + h[u]
<1>1. /\ SumFunction(f) = SumFunctionOnSet(f, S)
      /\ SumFunction(h) = SumFunctionOnSet(h, S)
  BY DEF SumFunction
<1>2. /\ SumFunctionOnSet(f, S) = f[u] + SumFunctionOnSet(f, S \ {u})
      /\ SumFunctionOnSet(h, S) = h[u] + SumFunctionOnSet(h, S \ {u})
  BY SumTakesOut
<1>3. IsFiniteSet(S \ {u})
  BY FS_Subset
<1>4. SumFunctionOnSet(f, S \ {u}) = SumFunctionOnSet(h, S \ {u})
  BY <1>3, SumsOfEquals
<1>5. SumFunctionOnSet(f, S \ {u}) \in Int
  BY <1>3, SumTypes
<1>6. QED
  BY <1>1, <1>2, <1>4, <1>5

(* No value of an unsigned mapping exceeds the sum. *)
LEMMA MemberOfSum ==
  ASSUME NEW S, IsFiniteSet(S), NEW f \in [S -> Nat], NEW u \in S
  PROVE  f[u] <= SumFunction(f)
<1>1. SumFunction(f) = SumFunctionOnSet(f, S)
  BY DEF SumFunction
<1>2. (\A x \in S : f[x] \in Int) /\ f[u] \in Nat
  OBVIOUS
<1>3. SumFunctionOnSet(f, S) = f[u] + SumFunctionOnSet(f, S \ {u})
  BY <1>2, SumTakesOut
<1>4. IsFiniteSet(S \ {u}) /\ \A x \in S \ {u} : f[x] \in Nat
  BY FS_Subset
<1>5. SumFunctionOnSet(f, S \ {u}) \in Nat
  BY <1>4, SumTypes
<1>6. QED
  BY <1>1, <1>2, <1>3, <1>5

(* A common factor can be taken out of a sum. *)
LEMMA SumScales ==
  ASSUME NEW S, IsFiniteSet(S), NEW f \in [S -> Int], NEW h \in [S -> Int], NEW c \in Int,
         \A x \in S : h[x] = c * f[x]
  PROVE  SumFunction(h) = c * SumFunction(f)
<1>1. SumFunction(f) = SumFunctionOnSet(f, S) /\ SumFunction(h) = SumFunctionOnSet(h, S)
  BY DEF SumFunction
<1> DEFINE W == {T \in SUBSET S : SumFunctionOnSet(h, T) # c * SumFunctionOnSet(f, T)}
<1>2. W \in SUBSET (SUBSET S)
  OBVIOUS
<1>3. ASSUME W # {} PROVE FALSE
  <2>1. PICK T \in W : \A U \in SUBSET T : U # T => U \notin W
    <3> HIDE DEF W
    <3> QED
      BY <1>2, <1>3, MinimalSubset
  <2>2. T \in SUBSET S /\ IsFiniteSet(T)
    BY <2>1, FS_Subset
  <2>3. T # {}
    <3>1. SumFunctionOnSet(f, {}) = 0 /\ SumFunctionOnSet(h, {}) = 0
      BY FS_EmptySet, SumUnfolds
    <3>2. c * 0 = 0
      OBVIOUS
    <3>3. {} \notin W
      BY <3>1, <3>2
    <3>4. QED
      BY <2>1, <3>3
  <2> DEFINE x == OneOf(T)
             a == f[x]
             b == h[x]
             sf == SumFunctionOnSet(f, T \ {x})
             sh == SumFunctionOnSet(h, T \ {x})
  <2>4. x \in T
    BY <2>3, OneOfIsMember
  <2>5. sh = c * sf
    BY <2>1, <2>2, <2>4
  <2>6. SumFunctionOnSet(f, T) = a + sf /\ SumFunctionOnSet(h, T) = b + sh
    BY <2>2, <2>3, SumUnfolds
  <2>7. sf \in Int
    <3>1. IsFiniteSet(T \ {x}) /\ \A y \in T \ {x} : f[y] \in Int
      BY <2>2, FS_Subset
    <3>2. QED
      BY <3>1, SumTypes
  <2>8. a \in Int /\ b = c * a
    BY <2>2, <2>4
  <2>9. b + sh # c * (a + sf)
    BY <2>1, <2>6
  <2> HIDE DEF x, a, b, sf, sh
  <2>10. QED
    BY <2>5, <2>7, <2>8, <2>9
<1>4. QED
  BY <1>1, <1>3

(* Larger values have a larger sum. *)
LEMMA SumMonotone ==
  ASSUME NEW S, IsFiniteSet(S), NEW f \in [S -> Int], NEW h \in [S -> Int],
         \A x \in S : f[x] <= h[x]
  PROVE  SumFunction(f) <= SumFunction(h)
<1>1. SumFunction(f) = SumFunctionOnSet(f, S) /\ SumFunction(h) = SumFunctionOnSet(h, S)
  BY DEF SumFunction
<1> DEFINE W == {T \in SUBSET S : ~(SumFunctionOnSet(f, T) <= SumFunctionOnSet(h, T))}
<1>2. W \in SUBSET (SUBSET S)
  OBVIOUS
<1>3. ASSUME W # {} PROVE FALSE
  <2>1. PICK T \in W : \A U \in SUBSET T : U # T => U \notin W
    <3> HIDE DEF W
    <3> QED
      BY <1>2, <1>3, MinimalSubset
  <2>2. T \in SUBSET S /\ IsFiniteSet(T)
    BY <2>1, FS_Subset
  <2>3. T # {}
    <3>1. SumFunctionOnSet(f, {}) = 0 /\ SumFunctionOnSet(h, {}) = 0
      BY FS_EmptySet, SumUnfolds
    <3>2. {} \notin W
      BY <3>1, 0 <= 0
    <3>3. QED
      BY <2>1, <3>2
  <2> DEFINE x == OneOf(T)
             sf == SumFunctionOnSet(f, T \ {x})
             sh == SumFunctionOnSet(h, T \ {x})
  <2>4. x \in T
    BY <2>3, OneOfIsMember
  <2>5. sf <= sh
    BY <2>1, <2>2, <2>4
  <2>6. SumFunctionOnSet(f, T) = f[x] + sf /\ SumFunctionOnSet(h, T) = h[x] + sh
    BY <2>2, <2>3, SumUnfolds
  <2>7. sf \in Int /\ sh \in Int
    <3>1. IsFiniteSet(T \ {x}) /\ \A y \in T \ {x} : f[y] \in Int /\ h[y] \in Int
      BY <2>2, FS_Subset
    <3>2. QED
      BY <3>1, SumTypes
  <2>8. f[x] \in Int /\ h[x] \in Int /\ f[x] <= h[x]
    BY <2>2, <2>4
  <2>9. ~(f[x] + sf <= h[x] + sh)
    BY <2>1, <2>6
  <2> HIDE DEF x, sf, sh
  <2>10. QED
    BY <2>5, <2>7, <2>8, <2>9
<1>4. QED
  BY <1>1, <1>3

(* Counting round a ring of n places. *)
LEMMA ModWraps ==
  ASSUME NEW n \in Nat \ {0}, NEW x \in Nat, x < 2 * n
  PROVE  x % n = IF x < n THEN x ELSE x - n
  OBVIOUS

(* A finite set of integers that is not empty has a least member. *)
LEMMA LeastExists ==
  ASSUME NEW S, IsFiniteSet(S), S \subseteq Int, S # {}
  PROVE  \E m \in S : \A k \in S : m <= k
<1> DEFINE upTo(m) == {k \in S : k <= m}
           W == {upTo(m) : m \in S}
<1>1. W \in SUBSET (SUBSET S) /\ W # {}
  OBVIOUS
<1>2. PICK T \in W : \A U \in SUBSET T : U # T => U \notin W
  <2> HIDE DEF W
  <2> QED
    BY <1>1, MinimalSubset
<1>3. PICK m \in S : T = upTo(m)
  OBVIOUS
<1>4. ASSUME NEW k \in S, ~(m <= k) PROVE FALSE
  <2>1. upTo(k) \in SUBSET T /\ m \in T /\ m \notin upTo(k)
    <3>1. m \in Int /\ k \in Int /\ m <= m /\ \A j \in S : j \in Int
      OBVIOUS
    <3>2. \A j \in S : j <= k => j <= m
      BY <1>4, <3>1
    <3>3. QED
      BY <1>3, <1>4, <3>1, <3>2
  <2>2. upTo(k) \in W
    OBVIOUS
  <2>3. QED
    BY <1>2, <2>1, <2>2
<1>5. QED
  BY <1>4

(* Induction, with a set of numbers for a property of them.                *)
LEMMA CountsUp ==
  ASSUME NEW P \in SUBSET Nat, 0 \in P, \A n \in P : n + 1 \in P
  PROVE  P = Nat
<1>1. ASSUME NEW w \in Nat, w \notin P PROVE FALSE
  <2> DEFINE W == {k \in 0..w : k \notin P}
  <2>1. IsFiniteSet(W) /\ W \subseteq Int /\ W # {}
    <3>1. IsFiniteSet(0..w)
      BY FS_Interval
    <3>2. W \subseteq 0..w /\ w \in W
      BY <1>1
    <3>3. QED
      BY <3>1, <3>2, FS_Subset
  <2>2. PICK n \in W : \A m \in W : n <= m
    <3> HIDE DEF W
    <3> QED
      BY <2>1, LeastExists
  <2>3. n - 1 \in 0..w /\ n - 1 \notin W
    BY <2>2
  <2>4. n \in P
    BY <2>2, <2>3
  <2>5. QED
    BY <2>2, <2>4
<1>2. QED
  BY <1>1

(* How the size of a finite set changes when a member comes or goes.       *)
LEMMA SizeChanges ==
  ASSUME NEW S, IsFiniteSet(S), NEW x
  PROVE  /\ Cardinality(S) \in Nat
         /\ IsFiniteSet(S \cup {x}) /\ Cardinality(S \cup {x}) \in Nat
         /\ Cardinality(S \cup {x}) <= Cardinality(S) + 1
         /\ IsFiniteSet(S \ {x}) /\ Cardinality(S \ {x}) \in Nat
         /\ x \in S => Cardinality(S \ {x}) = Cardinality(S) - 1
         /\ x \notin S => Cardinality(S \cup {x}) = Cardinality(S) + 1
<1>1. Cardinality(S) \in Nat
  BY FS_CardinalityType
<1>2. /\ IsFiniteSet(S \cup {x})
      /\ x \notin S => Cardinality(S \cup {x}) = Cardinality(S) + 1
      /\ x \in S => S \cup {x} = S
  BY FS_AddElement
<1>3. /\ IsFiniteSet(S \ {x})
      /\ x \in S => Cardinality(S \ {x}) = Cardinality(S) - 1
  BY FS_RemoveElement
<1>4. Cardinality(S \cup {x}) \in Nat /\ Cardinality(S \ {x}) \in Nat
  BY <1>2, <1>3, FS_CardinalityType
<1>5. QED
  BY <1>1, <1>2, <1>3, <1>4

-----------------------------------------------------------------------------
(* Lists without repetition, taken for the set of what they name.          *)
Names(list, x) == \E i \in DOMAIN list : list[i] = x
Distinct(list) == \A i, j \in DOMAIN list : list[i] = list[j] => i = j

(* A new name at the end.                                                  *)
LEMMA AppendedName ==
  ASSUME NEW S, NEW list \in Seq(S), NEW x \in S, Distinct(list), ~Names(list, x)
  PROVE  /\ Append(list, x) \in Seq(S)
         /\ Distinct(Append(list, x))
         /\ \A y : Names(Append(list, x), y) <=> Names(list, y) \/ y = x
<1> DEFINE new == Append(list, x)
<1>1. /\ Len(list) \in Nat /\ DOMAIN list = 1..Len(list)
      /\ new \in Seq(S) /\ DOMAIN new = 1..(Len(list) + 1)
      /\ new[Len(list) + 1] = x
      /\ \A i \in 1..Len(list) : new[i] = list[i]
  OBVIOUS
<1>2. Distinct(new)
  BY <1>1 DEF Distinct, Names
<1>3. ASSUME NEW y PROVE Names(new, y) <=> Names(list, y) \/ y = x
  <2>1. ASSUME Names(new, y) PROVE Names(list, y) \/ y = x
    BY <1>1, <2>1 DEF Names
  <2>2. ASSUME Names(list, y) PROVE Names(new, y)
    BY <1>1, <2>2 DEF Names
  <2>3. Len(list) + 1 \in DOMAIN new
    BY <1>1
  <2>4. QED
    BY <1>1, <2>1, <2>2, <2>3 DEF Names
<1>4. QED
  BY <1>1, <1>2, <1>3

(* Swap and pop: the entry at i goes, and the last one, moved to its       *)
(* place, stays.                                                           *)
LEMMA PoppedName ==
  ASSUME NEW S, NEW list \in Seq(S), Distinct(list), NEW at \in DOMAIN list, NEW new,
         new = [j \in 1..(Len(list) - 1) |-> IF j = at THEN list[Len(list)] ELSE list[j]]
  PROVE  /\ new \in Seq(S)
         /\ Distinct(new)
         /\ \A y : Names(new, y) <=> Names(list, y) /\ y # list[at]
<1> DEFINE len == Len(list)
<1>1. /\ len \in Nat /\ DOMAIN list = 1..len /\ len >= 1 /\ len - 1 \in Nat
      /\ \A i \in 1..len : list[i] \in S
  OBVIOUS
<1>2. /\ DOMAIN new = 1..(len - 1)
      /\ \A j \in 1..(len - 1) : new[j] = IF j = at THEN list[len] ELSE list[j]
  OBVIOUS
<1>3. new \in Seq(S)
  BY <1>1
<1> HIDE DEF len
<1>4. \A a, b \in 1..len : list[a] = list[b] => a = b
  BY <1>1 DEF Distinct
<1>5. Distinct(new)
  <2>1. SUFFICES ASSUME NEW j \in 1..(len - 1), NEW k \in 1..(len - 1), new[j] = new[k]
                 PROVE  j = k
    BY <1>2 DEF Distinct
  <2>2. j \in 1..len /\ k \in 1..len /\ len \in 1..len /\ j # len /\ k # len
    BY <1>1
  <2>3. QED
    BY <1>2, <1>4, <2>1, <2>2
<1>6. ASSUME NEW y, Names(new, y) PROVE Names(list, y) /\ y # list[at]
  <2>1. PICK j \in 1..(len - 1) : new[j] = y
    BY <1>2, <1>6 DEF Names
  <2>2. j \in 1..len /\ len \in 1..len /\ j # len /\ at \in 1..len
    BY <1>1
  <2>3. CASE j = at
    BY <1>1, <1>2, <1>4, <2>1, <2>2, <2>3 DEF Names
  <2>4. CASE j # at
    BY <1>1, <1>2, <1>4, <2>1, <2>2, <2>4 DEF Names
  <2>5. QED
    BY <2>3, <2>4
<1>7. ASSUME NEW y, Names(list, y), y # list[at] PROVE Names(new, y)
  <2>1. PICK j \in 1..len : list[j] = y
    BY <1>1, <1>7 DEF Names
  <2>2. j # at
    BY <1>7, <2>1
  <2>3. CASE j = len
    <3>1. at \in 1..(len - 1)
      BY <1>1, <2>2, <2>3
    <3>2. QED
      BY <1>2, <2>1, <2>3, <3>1 DEF Names
  <2>4. CASE j # len
    <3>1. j \in 1..(len - 1)
      BY <1>1, <2>4
    <3>2. QED
      BY <1>2, <2>1, <2>2, <3>1 DEF Names
  <2>5. QED
    BY <2>3, <2>4
<1>8. QED
  BY <1>3, <1>5, <1>6, <1>7

(* A sum may leave out what adds nothing.                                  *)
LEMMA SumIgnoresZeros ==
  ASSUME NEW S, IsFiniteSet(S), NEW f, \A x \in S : f[x] \in Int, NEW T \in SUBSET S,
         \A x \in S \ T : f[x] = 0
  PROVE  SumFunctionOnSet(f, S) = SumFunctionOnSet(f, T)
<1> DEFINE W == {U \in SUBSET (S \ T) : SumFunctionOnSet(f, T \cup U) # SumFunctionOnSet(f, T)}
<1>1. W \in SUBSET (SUBSET (S \ T)) /\ IsFiniteSet(S \ T) /\ IsFiniteSet(T)
  BY FS_Subset
<1>2. ASSUME W # {} PROVE FALSE
  <2>1. PICK U \in W : \A R \in SUBSET U : R # U => R \notin W
    <3> HIDE DEF W
    <3> QED
      BY <1>1, <1>2, MinimalSubset
  <2>2. U # {}
    <3>1. T \cup {} = T
      OBVIOUS
    <3>2. QED
      BY <2>1, <3>1
  <2>3. PICK x \in U : TRUE
    BY <2>2
  <2>4. x \in S \ T /\ T \cup (U \ {x}) = (T \cup U) \ {x} /\ x \in T \cup U
    BY <2>1, <2>3
  <2>5. IsFiniteSet(T \cup U) /\ (\A y \in T \cup U : f[y] \in Int) /\ T \cup U \in SUBSET S
    BY <2>1, FS_Subset
  <2>6. SumFunctionOnSet(f, T \cup U) = f[x] + SumFunctionOnSet(f, (T \cup U) \ {x})
    BY <2>4, <2>5, SumTakesOut
  <2>7. SumFunctionOnSet(f, (T \cup U) \ {x}) = SumFunctionOnSet(f, T)
    <3>1. U \ {x} \in SUBSET U /\ U \ {x} # U /\ U \ {x} \in SUBSET (S \ T)
      BY <2>1, <2>3
    <3>2. U \ {x} \notin W
      BY <2>1, <3>1
    <3>3. QED
      BY <2>4, <3>1, <3>2
  <2>8. SumFunctionOnSet(f, T) \in Int
    BY <1>1, SumTypes
  <2>9. f[x] = 0
    BY <2>4
  <2>10. SumFunctionOnSet(f, T \cup U) = SumFunctionOnSet(f, T)
    BY <2>6, <2>7, <2>8, <2>9
  <2>11. QED
    BY <2>1, <2>10
<1>3. T \cup (S \ T) = S /\ (S \ T) \in SUBSET (S \ T)
  OBVIOUS
<1>4. S \ T \notin W
  BY <1>2
<1>5. SumFunctionOnSet(f, T \cup (S \ T)) = SumFunctionOnSet(f, T)
  BY <1>3, <1>4
<1>6. QED
  BY <1>3, <1>5

(* Walking a list that names every key with a value, and none twice, adds  *)
(* up the mapping.                                                         *)
LEMMA WalkAddsUp ==
  ASSUME NEW S, IsFiniteSet(S), NEW list \in Seq(S), Distinct(list), NEW f \in [S -> Int],
         \A x \in S : ~Names(list, x) => f[x] = 0,
         NEW g \in [DOMAIN list -> Int], \A i \in DOMAIN list : g[i] = f[list[i]]
  PROVE  SumFunction(g) = SumFunction(f)
<1> DEFINE D == DOMAIN list
           at(T) == {list[i] : i \in T}
           W == {T \in SUBSET D : SumFunctionOnSet(g, T) # SumFunctionOnSet(f, at(T))}
<1>1. /\ D = 1..Len(list) /\ Len(list) \in Nat /\ \A i \in D : list[i] \in S
      /\ W \in SUBSET (SUBSET D)
  OBVIOUS
<1>2. IsFiniteSet(D)
  <2>1. IsFiniteSet(1..Len(list))
    BY <1>1, FS_Interval, 1 \in Int, Len(list) \in Int
  <2>2. QED
    BY <1>1, <2>1
<1>3. \A i, j \in D : list[i] = list[j] => i = j
  BY DEF Distinct
<1>4. \A x \in S : f[x] \in Int
  OBVIOUS
<1>5. ASSUME W # {} PROVE FALSE
  <2>1. PICK T \in W : \A U \in SUBSET T : U # T => U \notin W
    <3> HIDE DEF W
    <3> QED
      BY <1>1, <1>2, <1>5, MinimalSubset
  <2>2. /\ T \in SUBSET D /\ IsFiniteSet(T)
        /\ SumFunctionOnSet(g, T) # SumFunctionOnSet(f, at(T))
    BY <1>2, <2>1, FS_Subset
  <2>3. T # {}
    <3>1. SumFunctionOnSet(g, {}) = 0 /\ SumFunctionOnSet(f, {}) = 0
      BY FS_EmptySet, SumUnfolds
    <3>2. at({}) = {}
      OBVIOUS
    <3>3. QED
      BY <2>2, <3>1, <3>2
  <2> DEFINE i == OneOf(T)
  <2>4. i \in T /\ i \in D
    BY <2>2, <2>3, OneOfIsMember
  <2>5. SumFunctionOnSet(g, T) = g[i] + SumFunctionOnSet(g, T \ {i})
    BY <2>2, <2>3, SumUnfolds
  <2> HIDE DEF i
  <2>6. SumFunctionOnSet(g, T \ {i}) = SumFunctionOnSet(f, at(T \ {i}))
    <3>1. T \ {i} \in SUBSET T /\ T \ {i} # T /\ T \ {i} \in SUBSET D
      BY <2>2, <2>4
    <3>2. T \ {i} \notin W
      BY <2>1, <3>1
    <3>3. QED
      BY <3>1, <3>2
  <2>7. at(T) \in SUBSET S /\ list[i] \in at(T) /\ at(T) \ {list[i]} = at(T \ {i})
    BY <1>1, <1>3, <2>2, <2>4
  <2>8. SumFunctionOnSet(f, at(T)) = f[list[i]] + SumFunctionOnSet(f, at(T) \ {list[i]})
    <3> DEFINE A == at(T)
    <3>1. A \in SUBSET S /\ list[i] \in A
      BY <2>7
    <3> HIDE DEF A
    <3>2. IsFiniteSet(A) /\ \A x \in A : f[x] \in Int
      BY <1>4, <3>1, FS_Subset
    <3>3. SumFunctionOnSet(f, A) = f[list[i]] + SumFunctionOnSet(f, A \ {list[i]})
      BY <3>1, <3>2, SumTakesOut
    <3>4. QED
      BY <3>3 DEF A
  <2>9. g[i] = f[list[i]]
    BY <2>4
  <2>10. QED
    BY <2>2, <2>5, <2>6, <2>7, <2>8, <2>9
<1>6. SumFunctionOnSet(g, D) = SumFunctionOnSet(f, at(D))
  <2>1. D \in SUBSET D
    OBVIOUS
  <2>2. QED
    BY <1>5, <2>1
<1>7. SumFunctionOnSet(f, S) = SumFunctionOnSet(f, at(D))
  <2>1. at(D) \in SUBSET S
    BY <1>1
  <2>2. \A x \in S \ at(D) : f[x] = 0
    BY DEF Names
  <2> HIDE DEF at
  <2>3. QED
    BY <1>4, <2>1, <2>2, SumIgnoresZeros
<1>8. SumFunction(g) = SumFunctionOnSet(g, D) /\ SumFunction(f) = SumFunctionOnSet(f, S)
  BY DEF SumFunction
<1>9. QED
  BY <1>6, <1>7, <1>8
=============================================================================
