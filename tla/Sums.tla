-------------------------------- MODULE Sums --------------------------------
(***************************************************************************)
(* Lemmas about the sums of the community module Functions: that the       *)
(* recursion behind SumFunctionOnSet has a solution on every finite set,   *)
(* and what a sum becomes when the function changes at one argument or     *)
(* loses one.                                                              *)
(*                                                                         *)
(* Induction is over sets, of numbers and of subsets, that hold the cases  *)
(* shown: the least number and the least subset outside lead to a          *)
(* contradiction.                                                          *)
(***************************************************************************)
EXTENDS Integers, FiniteSets, Functions, FiniteSetTheorems, WellFoundedInduction, TLAPS

(* Every number is shown, if zero is and each leads to the next.           *)
LEMMA NumberInduction ==
    ASSUME NEW P, 0 \in P, \A n \in Nat : n \in P => n + 1 \in P
    PROVE  Nat \subseteq P
<1> SUFFICES ASSUME Nat \ P # {} PROVE FALSE
  OBVIOUS
<1>1. PICK n \in Nat \ P : \A m \in Nat \ P : <<m, n>> \notin OpToRel(<, Nat)
  BY NatLessThanWellFounded, WFMin
<1>2. n # 0 /\ n - 1 \in Nat /\ (n - 1) + 1 = n
  OBVIOUS
<1>3. <<n - 1, n>> \in OpToRel(<, Nat)
  BY <1>2 DEF OpToRel
<1> QED BY <1>1, <1>2, <1>3

(* Every subset of a finite set is shown, if each is whose own subsets are.*)
LEMMA SubsetInduction ==
    ASSUME NEW S, IsFiniteSet(S), NEW P,
           \A s \in SUBSET S : (\A u \in (SUBSET s) \ {s} : u \in P) => s \in P
    PROVE  SUBSET S \subseteq P
<1> SUFFICES ASSUME (SUBSET S) \ P # {} PROVE FALSE
  OBVIOUS
<1> DEFINE R == StrictSubsetOrdering(S)
           T == (SUBSET S) \ P
<1>1. IsWellFoundedOn(R, SUBSET S)
  <2>1. IsWellFoundedOn(R, FiniteSubsetsOf(S))
    BY FS_StrictSubsetOrderingWellFounded
  <2>2. FiniteSubsetsOf(S) = SUBSET S
    BY FS_FiniteSubsetsOfFinite
  <2> QED BY <2>1, <2>2
<1>2. T \subseteq SUBSET S /\ T # {}
  OBVIOUS
<1>3. \E s \in T : \A u \in T : ~(<<u, s>> \in R)
  <2> HIDE DEF T, R
  <2> QED BY <1>1, <1>2, WFMin
<1>4. PICK s \in T : \A u \in T : ~(<<u, s>> \in R)
  BY <1>3
<1>5. PICK u \in (SUBSET s) \ {s} : u \notin P
  OBVIOUS
<1>6. u \in T
  BY <1>5
<1>7. <<u, s>> \in R
  <2>1. /\ <<u, s>> \in (SUBSET S) \X (SUBSET S)
        /\ <<u, s>>[1] \subseteq <<u, s>>[2] /\ <<u, s>>[1] # <<u, s>>[2]
    BY <1>6
  <2> QED BY <2>1 DEF StrictSubsetOrdering
<1> QED BY <1>4, <1>6, <1>7

-----------------------------------------------------------------------------
(* The recursion of MapThenFoldSet, as SumFunctionOnSet uses it: the sum   *)
(* over s is made of a member of s and the sum g over the rest.            *)
First(s) == CHOOSE x \in s : TRUE
Rest(s) == s \ {First(s)}
SumStep(f, g, s) == IF s = {} THEN 0 ELSE f[First(s)] + g[Rest(s)]
PartialSums(f, S) == CHOOSE g : g = [s \in SUBSET S |-> SumStep(f, g, s)]

LEMMA SumIsPartialSum ==
    ASSUME NEW f, NEW S
    PROVE  SumFunctionOnSet(f, S) = PartialSums(f, S)[S]
  BY DEF SumFunctionOnSet, FoldFunctionOnSet, MapThenFoldSet, PartialSums, SumStep, Rest, First

LEMMA RestFacts ==
    ASSUME NEW S, IsFiniteSet(S), NEW s \in SUBSET S, s # {}
    PROVE  /\ First(s) \in s /\ Rest(s) \in (SUBSET s) \ {s} /\ Rest(s) \in SUBSET S
           /\ Cardinality(s) \in Nat /\ Cardinality(Rest(s)) = Cardinality(s) - 1
<1>1. First(s) \in s
  BY DEF First
<1>2. IsFiniteSet(s)
  BY FS_Subset
<1>3. Cardinality(s) \in Nat /\ Cardinality(Rest(s)) = Cardinality(s) - 1
  BY <1>1, <1>2, FS_CardinalityType, FS_RemoveElement DEF Rest
<1> QED BY <1>1, <1>3 DEF Rest

(* The recursion has a solution: one for the sets of n members leads to    *)
(* one for the sets of n + 1.                                              *)
LEMMA PartialSumStep ==
    ASSUME NEW f, NEW S, IsFiniteSet(S)
    PROVE  \A s \in SUBSET S : PartialSums(f, S)[s] = SumStep(f, PartialSums(f, S), s)
<1> DEFINE Level(n) == {s \in SUBSET S : Cardinality(s) <= n}
           Solution(g, n) == g = [s \in Level(n) |-> SumStep(f, g, s)]
           P == {n \in Nat : \E g : Solution(g, n)}
<1>1. 0 \in P
  <2> DEFINE g == [s \in Level(0) |-> 0]
  <2>1. \A s \in Level(0) : s = {}
    <3> SUFFICES ASSUME NEW s \in SUBSET S, Cardinality(s) <= 0 PROVE s = {}
      OBVIOUS
    <3>1. IsFiniteSet(s) /\ Cardinality(s) \in Nat
      BY FS_Subset, FS_CardinalityType
    <3> QED BY <3>1, FS_EmptySet
  <2>2. \A s \in Level(0) : SumStep(f, g, s) = 0
    BY <2>1 DEF SumStep
  <2>3. Solution(g, 0)
    <3> HIDE DEF Level
    <3> QED BY <2>2
  <2> QED BY <2>3
<1>2. ASSUME NEW n \in Nat, n \in P PROVE n + 1 \in P
  <2>1. PICK g : Solution(g, n)
    BY <1>2
  <2> DEFINE h == [s \in Level(n + 1) |-> SumStep(f, g, s)]
  <2>2. ASSUME NEW s \in Level(n) PROVE h[s] = g[s]
    <3>1. s \in Level(n + 1)
      <4>1. Cardinality(s) \in Nat
        BY FS_Subset, FS_CardinalityType
      <4> QED BY <4>1
    <3> HIDE DEF Level
    <3> QED BY <2>1, <3>1
  <2>3. ASSUME NEW s \in Level(n + 1), s # {} PROVE Rest(s) \in Level(n)
    BY <2>3, RestFacts
  <2>4. ASSUME NEW s \in Level(n + 1) PROVE SumStep(f, g, s) = SumStep(f, h, s)
    <3> HIDE DEF Level, h
    <3> QED BY <2>2, <2>3 DEF SumStep
  <2>5. Solution(h, n + 1)
    <3> HIDE DEF Level
    <3>1. h = [s \in Level(n + 1) |-> SumStep(f, h, s)]
      <4> DEFINE k == h
      <4>1. \A s \in Level(n + 1) : SumStep(f, g, s) = SumStep(f, k, s)
        BY <2>4
      <4>2. k = [s \in Level(n + 1) |-> SumStep(f, g, s)]
        OBVIOUS
      <4> HIDE DEF k
      <4>3. k = [s \in Level(n + 1) |-> SumStep(f, k, s)]
        BY <4>1, <4>2
      <4> QED BY <4>3 DEF k
    <3> QED BY <3>1
  <2>6. n + 1 \in Nat
    OBVIOUS
  <2> HIDE DEF Solution, h
  <2> QED BY <2>5, <2>6
<1>3. Nat \subseteq P
  <2> HIDE DEF P
  <2> QED BY <1>1, <1>2, NumberInduction
<1>4. Cardinality(S) \in P
  BY <1>3, FS_CardinalityType
<1>5. Level(Cardinality(S)) = SUBSET S
  <2>1. \A s \in SUBSET S : Cardinality(s) <= Cardinality(S)
    BY FS_Subset
  <2> QED BY <2>1
<1>6. PICK g : g = [s \in SUBSET S |-> SumStep(f, g, s)]
  <2> HIDE DEF Level
  <2> QED BY <1>4, <1>5
<1> DEFINE p == PartialSums(f, S)
<1>7. p = [s \in SUBSET S |-> SumStep(f, p, s)]
  BY <1>6 DEF PartialSums
<1>8. \A s \in SUBSET S : p[s] = SumStep(f, p, s)
  <2> HIDE DEF p
  <2> QED BY <1>7
<1> QED BY <1>8

-----------------------------------------------------------------------------
(* A sum of naturals is a natural.  It changes by as much as the function  *)
(* does where it changes.                                                  *)
LEMMA SumChanges ==
    ASSUME NEW S, IsFiniteSet(S), NEW f, NEW g, NEW t, NEW d \in Int,
           \A x \in S : f[x] \in Nat,
           \A x \in S \ {t} : g[x] = f[x],
           t \in S => g[t] = f[t] + d
    PROVE  /\ SumFunctionOnSet(f, S) \in Nat
           /\ SumFunctionOnSet(g, S) = SumFunctionOnSet(f, S) + (IF t \in S THEN d ELSE 0)
<1> DEFINE p == PartialSums(f, S)
           q == PartialSums(g, S)
           Change(s) == IF t \in s THEN d ELSE 0
           P == {s \in SUBSET S : p[s] \in Nat /\ q[s] = p[s] + Change(s)}
<1>1. ASSUME NEW s \in SUBSET S, \A u \in (SUBSET s) \ {s} : u \in P
      PROVE  s \in P
  <2>1. p[s] = SumStep(f, p, s) /\ q[s] = SumStep(g, q, s)
    BY PartialSumStep
  <2> HIDE DEF p, q
  <2>2. CASE s = {}
    BY <2>1, <2>2 DEF SumStep
  <2>3. CASE s # {}
    <3> DEFINE x == First(s)
               r == Rest(s)
    <3>1. x \in s /\ x \in S /\ r \in (SUBSET s) \ {s}
      BY <2>3, RestFacts
    <3>2. p[r] \in Nat /\ q[r] = p[r] + Change(r)
      BY <1>1, <3>1
    <3>3. p[s] = f[x] + p[r] /\ q[s] = g[x] + q[r]
      BY <2>1, <2>3 DEF SumStep
    <3>4. f[x] \in Nat
      BY <3>1
    <3>5. g[x] = f[x] + (IF t = x THEN d ELSE 0)
      BY <3>1, <3>4
    <3>6. Change(s) = (IF t = x THEN d ELSE 0) + Change(r)
      BY <3>1 DEF Rest
    <3> HIDE DEF x, r, Change
    <3>7. Change(r) \in Int /\ (IF t = x THEN d ELSE 0) \in Int
      BY DEF Change
    <3>8. p[s] \in Nat /\ q[s] = p[s] + Change(s)
      BY <3>2, <3>3, <3>4, <3>5, <3>6, <3>7
    <3> QED BY <3>8
  <2> QED BY <2>2, <2>3
<1>2. S \in P
  <2> HIDE DEF P
  <2>1. SUBSET S \subseteq P
    BY <1>1, SubsetInduction
  <2> QED BY <2>1
<1> QED BY <1>2, SumIsPartialSum

LEMMA SumsDiffer ==
    ASSUME NEW S, IsFiniteSet(S), NEW f, NEW g, NEW t \in S, NEW d \in Int,
           DOMAIN f = S, DOMAIN g = S,
           \A x \in S : f[x] \in Nat,
           \A x \in S \ {t} : g[x] = f[x],
           g[t] = f[t] + d
    PROVE  /\ SumFunction(f) \in Nat
           /\ SumFunction(g) = SumFunction(f) + d
<1>1. /\ SumFunctionOnSet(f, S) \in Nat
      /\ SumFunctionOnSet(g, S) = SumFunctionOnSet(f, S) + d
  BY SumChanges
<1> QED BY <1>1 DEF SumFunction

LEMMA SumIsNat ==
    ASSUME NEW S, IsFiniteSet(S), NEW f, \A x \in S : f[x] \in Nat
    PROVE  SumFunctionOnSet(f, S) \in Nat
<1>1. PICK t : t \notin S
  BY NoSetContainsEverything
<1>2. \A x \in S \ {t} : f[x] = f[x]
  OBVIOUS
<1>3. 0 \in Int
  OBVIOUS
<1> QED BY <1>1, <1>2, <1>3, SumChanges

(* A sum of zeros is zero.                                                 *)
LEMMA SumOfZeros ==
    ASSUME NEW S, IsFiniteSet(S), NEW f, \A x \in S : f[x] = 0
    PROVE  SumFunctionOnSet(f, S) = 0
<1> DEFINE p == PartialSums(f, S)
           P == {s \in SUBSET S : p[s] = 0}
<1>1. ASSUME NEW s \in SUBSET S, \A u \in (SUBSET s) \ {s} : u \in P
      PROVE  s \in P
  <2>1. p[s] = SumStep(f, p, s)
    BY PartialSumStep
  <2> HIDE DEF p
  <2>2. CASE s = {}
    BY <2>1, <2>2 DEF SumStep
  <2>3. CASE s # {}
    <3>1. First(s) \in S /\ Rest(s) \in (SUBSET s) \ {s}
      BY <2>3, RestFacts
    <3>2. p[Rest(s)] = 0 /\ f[First(s)] = 0
      BY <1>1, <3>1
    <3> QED BY <2>1, <2>3, <3>2 DEF SumStep
  <2> QED BY <2>2, <2>3
<1>2. S \in P
  <2> HIDE DEF P
  <2>1. SUBSET S \subseteq P
    BY <1>1, SubsetInduction
  <2> QED BY <2>1
<1> QED BY <1>2, SumIsPartialSum

-----------------------------------------------------------------------------
(* Any member may be taken out first, and the sum over the rest may be     *)
(* that of a function which agrees with f there.                           *)
LEMMA SumSplits ==
    ASSUME NEW S, IsFiniteSet(S), NEW f, \A x \in S : f[x] \in Nat, NEW y \in S,
           NEW g, \A x \in S \ {y} : g[x] = f[x]
    PROVE  SumFunctionOnSet(f, S) = f[y] + SumFunctionOnSet(g, S \ {y})
<1> DEFINE p == PartialSums(f, S)
           T == S \ {y}
           q == PartialSums(g, T)
           P == {s \in SUBSET S : p[s] \in Nat /\ \A x \in s : p[s] = f[x] + p[s \ {x}]}
           Q == {s \in SUBSET T : q[s] = p[s]}
<1>1. ASSUME NEW s \in SUBSET S, \A u \in (SUBSET s) \ {s} : u \in P
      PROVE  s \in P
  <2>1. p[s] = SumStep(f, p, s)
    BY PartialSumStep
  <2> HIDE DEF p
  <2>2. CASE s = {}
    BY <2>1, <2>2 DEF SumStep
  <2>3. CASE s # {}
    <3> DEFINE z == First(s)
               r == s \ {z}
    <3>1. z \in s /\ z \in S /\ r \in (SUBSET s) \ {s}
      BY <2>3, RestFacts DEF Rest
    <3>2. p[s] = f[z] + p[r]
      BY <2>1, <2>3 DEF SumStep, Rest
    <3>3. p[r] \in Nat /\ \A x \in r : p[r] = f[x] + p[r \ {x}]
      BY <1>1, <3>1
    <3>4. ASSUME NEW x \in s, x # z PROVE p[s] = f[x] + p[s \ {x}]
      <4> DEFINE t == s \ {x}
                 b == r \ {x}
      <4>1. /\ t \in (SUBSET s) \ {s} /\ b \in (SUBSET s) \ {s} /\ z \in t /\ x \in r
            /\ t \ {z} = b
        <5>1. z \in t /\ x \in r
          BY <3>1, <3>4
        <5>2. t \in (SUBSET s) \ {s}
          BY <3>4
        <5>3. b \in (SUBSET s) \ {s}
          <6>1. b \in SUBSET s /\ x \notin b
            OBVIOUS
          <6> QED BY <3>4, <6>1
        <5>4. t \ {z} = b
          OBVIOUS
        <5> QED BY <5>1, <5>2, <5>3, <5>4
      <4>2. p[t] = f[z] + p[b] /\ p[t] \in Nat /\ p[b] \in Nat
        <5>1. t \in P /\ b \in P
          <6> HIDE DEF P, t, b
          <6> QED BY <1>1, <4>1
        <5>2. /\ p[t] \in Nat /\ p[b] \in Nat
              /\ \A v \in t : p[t] = f[v] + p[t \ {v}]
          BY <5>1
        <5> HIDE DEF t, b
        <5> QED BY <4>1, <5>2
      <4>3. p[r] = f[x] + p[b]
        BY <3>3, <4>1
      <4>4. f[x] \in Nat /\ f[z] \in Nat
        BY <3>1
      <4> HIDE DEF z, r, t, b
      <4>5. p[s] = f[x] + p[t]
        BY <3>2, <4>2, <4>3, <4>4
      <4> QED BY <4>5 DEF t
    <3>5. p[s] \in Nat
      <4>1. f[z] \in Nat
        BY <3>1
      <4> HIDE DEF z, r
      <4> QED BY <3>2, <3>3, <4>1
    <3> QED BY <3>2, <3>4, <3>5
  <2> QED BY <2>2, <2>3
<1>2. S \in P
  <2> HIDE DEF P
  <2>1. SUBSET S \subseteq P
    BY <1>1, SubsetInduction
  <2> QED BY <2>1
<1>3. IsFiniteSet(T)
  BY FS_Subset
<1>4. ASSUME NEW s \in SUBSET T, \A u \in (SUBSET s) \ {s} : u \in Q
      PROVE  s \in Q
  <2>1. p[s] = SumStep(f, p, s)
    BY PartialSumStep
  <2>2. q[s] = SumStep(g, q, s)
    <3> HIDE DEF T
    <3> QED BY <1>3, PartialSumStep
  <2> HIDE DEF p, q
  <2>3. CASE s = {}
    BY <2>1, <2>2, <2>3 DEF SumStep
  <2>4. CASE s # {}
    <3>1. First(s) \in s /\ Rest(s) \in (SUBSET s) \ {s}
      BY <2>4, RestFacts
    <3>2. q[Rest(s)] = p[Rest(s)]
      BY <1>4, <3>1
    <3>3. g[First(s)] = f[First(s)]
      BY <3>1
    <3> QED BY <2>1, <2>2, <2>4, <3>2, <3>3 DEF SumStep
  <2> QED BY <2>3, <2>4
<1>5. T \in Q
  <2> HIDE DEF Q, T
  <2>1. SUBSET T \subseteq Q
    BY <1>3, <1>4, SubsetInduction
  <2> QED BY <2>1
<1>6. p[S] = f[y] + p[T] /\ q[T] = p[T]
  <2> HIDE DEF p, q
  <2> QED BY <1>2, <1>5
<1>7. SumFunctionOnSet(f, S) = p[S] /\ SumFunctionOnSet(g, T) = q[T]
  BY SumIsPartialSum
<1> QED BY <1>6, <1>7

-----------------------------------------------------------------------------
(* How many members of T are in s, and in s without its first.             *)
CountIn(T, s) == Cardinality(T \cap s)

LEMMA CountRest ==
    ASSUME NEW S, IsFiniteSet(S), NEW T, NEW s \in SUBSET S, s # {}
    PROVE  /\ CountIn(T, Rest(s)) \in Nat
           /\ CountIn(T, s) = CountIn(T, Rest(s)) + (IF First(s) \in T THEN 1 ELSE 0)
<1> USE DEF CountIn
<1> DEFINE r == T \cap Rest(s)
           z == First(s)
<1>1. z \in s /\ Rest(s) = s \ {z}
  BY RestFacts DEF Rest
<1>2. IsFiniteSet(r)
  <2>1. r \in SUBSET S
    BY DEF Rest
  <2> QED BY <2>1, FS_Subset
<1>3. z \notin r
  BY <1>1
<1>4. /\ Cardinality(r) \in Nat
      /\ IsFiniteSet(r \cup {z}) /\ Cardinality(r \cup {z}) = Cardinality(r) + 1
  <2> HIDE DEF r, z
  <2> QED BY <1>2, <1>3, FS_AddElement, FS_CardinalityType
<1>5. CASE z \in T
  <2>1. T \cap s = r \cup {z}
    BY <1>1, <1>5
  <2> QED BY <1>4, <1>5, <2>1
<1>6. CASE z \notin T
  <2>1. T \cap s = r
    BY <1>1, <1>6
  <2>2. Cardinality(T \cap s) = Cardinality(r)
    BY <2>1
  <2> HIDE DEF r
  <2>3. Cardinality(T \cap s) = Cardinality(r) + 0
    BY <1>4, <2>2
  <2> QED BY <1>4, <1>6, <2>3 DEF r
<1> QED BY <1>5, <1>6

(* A sum is at least c for each member of a set on which f is; and at most *)
(* d for each argument, and one more for each on which f is d + 1.         *)
LEMMA SumBounds ==
    ASSUME NEW S, IsFiniteSet(S), NEW T \in SUBSET S, NEW f, NEW c \in Nat, NEW d \in Nat,
           \A x \in S : f[x] \in Nat /\ f[x] <= d + (IF x \in T THEN 1 ELSE 0),
           NEW U \in SUBSET S, \A x \in U : c <= f[x]
    PROVE  /\ c * Cardinality(U) <= SumFunctionOnSet(f, S)
           /\ SumFunctionOnSet(f, S) <= d * Cardinality(S) + Cardinality(T)
<1> DEFINE p == PartialSums(f, S)
           P == {s \in SUBSET S :
                   /\ p[s] \in Nat
                   /\ c * CountIn(U, s) <= p[s]
                   /\ p[s] <= d * Cardinality(s) + CountIn(T, s)}
<1>1. ASSUME NEW s \in SUBSET S, \A u \in (SUBSET s) \ {s} : u \in P
      PROVE  s \in P
  <2>1. p[s] = SumStep(f, p, s)
    BY PartialSumStep
  <2> HIDE DEF p
  <2>2. CASE s = {}
    <3>1. U \cap s = {} /\ T \cap s = {} /\ p[s] = 0
      BY <2>1, <2>2 DEF SumStep
    <3>2. Cardinality(s) = 0 /\ CountIn(U, s) = 0 /\ CountIn(T, s) = 0
      BY <2>2, <3>1, FS_EmptySet DEF CountIn
    <3> QED BY <3>1, <3>2
  <2>3. CASE s # {}
    <3>1. PICK z, r : z = First(s) /\ r = Rest(s)
      OBVIOUS
    <3>2. z \in S /\ r \in (SUBSET s) \ {s} /\ Cardinality(s) \in Nat /\ Cardinality(r) = Cardinality(s) - 1
      BY <2>3, <3>1, RestFacts
    <3>3. p[s] = f[z] + p[r]
      BY <2>1, <2>3, <3>1 DEF SumStep
    <3>4. /\ p[r] \in Nat /\ c * CountIn(U, r) <= p[r]
          /\ p[r] <= d * Cardinality(r) + CountIn(T, r)
      BY <1>1, <3>2
    <3>5. /\ CountIn(U, r) \in Nat
          /\ CountIn(U, s) = CountIn(U, r) + (IF z \in U THEN 1 ELSE 0)
      BY <2>3, <3>1, CountRest
    <3>6. /\ CountIn(T, r) \in Nat
          /\ CountIn(T, s) = CountIn(T, r) + (IF z \in T THEN 1 ELSE 0)
      BY <2>3, <3>1, CountRest
    <3>7. f[z] \in Nat /\ f[z] <= d + (IF z \in T THEN 1 ELSE 0) /\ (z \in U => c <= f[z])
      BY <3>2
    <3>8. c * CountIn(U, s) <= p[s]
      <4>1. CASE z \in U
        <5>1. c * (CountIn(U, r) + 1) = c * CountIn(U, r) + c
          BY <3>5
        <5> QED BY <3>3, <3>4, <3>5, <3>7, <4>1, <5>1
      <4>2. CASE z \notin U
        BY <3>3, <3>4, <3>5, <3>7, <4>2
      <4> QED BY <4>1, <4>2
    <3>9. p[s] <= d * Cardinality(s) + CountIn(T, s)
      <4>1. Cardinality(r) \in Int /\ Cardinality(s) = Cardinality(r) + 1
        BY <3>2
      <4>2. d * (Cardinality(r) + 1) = d * Cardinality(r) + d
        BY <4>1
      <4> QED BY <3>3, <3>4, <3>6, <3>7, <4>1, <4>2
    <3> QED BY <3>3, <3>4, <3>7, <3>8, <3>9
  <2> QED BY <2>2, <2>3
<1>2. S \in P
  <2> HIDE DEF P
  <2>1. SUBSET S \subseteq P
    BY <1>1, SubsetInduction
  <2> QED BY <2>1
<1>3. CountIn(U, S) = Cardinality(U) /\ CountIn(T, S) = Cardinality(T)
  <2>1. U \cap S = U /\ T \cap S = T
    OBVIOUS
  <2> QED BY <2>1 DEF CountIn
<1>4. SumFunctionOnSet(f, S) = p[S]
  BY SumIsPartialSum
<1> HIDE DEF p
<1> QED BY <1>2, <1>3, <1>4
=============================================================================
