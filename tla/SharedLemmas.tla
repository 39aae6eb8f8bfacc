---------------------------- MODULE SharedLemmas ----------------------------
(***************************************************************************)
(* Lemmas that the proofs of several components rest on: what the status   *)
(* graph of a meal slot says, what holds of products and of whole-number   *)
(* division, that some numbers have a least one, and how a sum over a      *)
(* finite set (SumFunctionOnSet) is taken apart.  The library              *)
(* defines that sum by a recursive function; that there is such a function *)
(* and that all of them agree is shown here, by induction on cardinality.  *)
(***************************************************************************)
EXTENDS Lifecycle, FiniteSetsExt, FiniteSetTheorems, WellFoundedInduction, TLAPS

\* The states each guard of assertTransition lets a slot come from: a target
\* state has one predecessor, except the three that may also be cancelled,
\* forecast or approved again.
LEMMA TransitionFacts ==
  ASSUME NEW s \in Status
  PROVE  /\ CanTransition(s, "OPEN") <=> s = "DRAFT"
         /\ CanTransition(s, "LOCKED") <=> s = "OPEN"
         /\ CanTransition(s, "FORECAST_READY") <=>
              s \in {"LOCKED", "FORECAST_READY"}
         /\ CanTransition(s, "APPROVED") <=>
              s \in {"LOCKED", "FORECAST_READY", "APPROVED"}
         /\ CanTransition(s, "IN_SERVICE") <=> s = "APPROVED"
         /\ CanTransition(s, "SERVICE_CLOSED") <=> s = "IN_SERVICE"
         /\ CanTransition(s, "RECONCILED") <=> s = "SERVICE_CLOSED"
         /\ CanTransition(s, "CANCELLED") <=>
              s \in {"DRAFT", "OPEN", "LOCKED", "FORECAST_READY", "APPROVED"}
BY DEF CanTransition, Transitions, Status

-----------------------------------------------------------------------------
\* Division by a number that is not known leaves a remainder below it.
LEMMA DivBounds ==
  ASSUME NEW x \in Nat, NEW p \in Nat \ {0}
  PROVE  /\ x \div p \in Nat
         /\ (x \div p) * p <= x
         /\ x < (x \div p) * p + p
OBVIOUS

\* Whole packs are a multiple of the pack.
LEMMA MultipleMod ==
  ASSUME NEW k \in Nat, NEW p \in Nat \ {0}
  PROVE  (k * p) % p = 0
OBVIOUS

\* Multiples of one number that are less than it apart are in order.
LEMMA MultiplesOrdered ==
  ASSUME NEW j \in Nat, NEW k \in Nat, NEW p \in Nat \ {0}, j * p < k * p + p
  PROVE  j * p <= k * p
OBVIOUS

\* What is left by a division is below the divisor.
LEMMA RemainderBelow ==
  ASSUME NEW m \in Nat, NEW n \in Nat \ {0}
  PROVE  m % n \in 0..(n - 1)
OBVIOUS

\* A number is its quotient and what is left.
LEMMA Remainder ==
  ASSUME NEW m \in Nat, NEW n \in Nat \ {0}
  PROVE  /\ m = (m \div n) * n + (m % n)
         /\ m \div n \in Nat
<1>1. m % n \in 0..(n - 1)
  OBVIOUS
<1>2. m % n = m - n * (m \div n)
  OBVIOUS
<1>3. m \div n \in Nat
  BY DivBounds
<1> DEFINE q == m \div n
           r == m % n
<1>4. q \in Nat /\ r = m - n * q /\ r \in Int
  BY <1>1, <1>2, <1>3
<1> HIDE DEF q, r
<1>5. m = q * n + r
  BY <1>4
<1> QED
  BY <1>1, <1>3, <1>5 DEF q, r

\* Natural numbers that are not 0 have a product that is not.
LEMMA Products ==
  ASSUME NEW a \in Nat, NEW b \in Nat
  PROVE  a * b \in Nat /\ (a # 0 /\ b # 0 => a * b # 0)
OBVIOUS

\* An inequality may be multiplied.
LEMMA Scale ==
  ASSUME NEW i \in Int, NEW j \in Int, i <= j, NEW k \in Nat
  PROVE  i * k <= j * k
OBVIOUS

\* A factor that is not 0 can be taken away from both sides.
LEMMA Cancel ==
  ASSUME NEW k \in Nat \ {0}, NEW x \in Int, NEW y \in Int, k * x <= k * y
  PROVE  x <= y
OBVIOUS

LEMMA CancelEqual ==
  ASSUME NEW k \in Nat \ {0}, NEW x \in Int, NEW y \in Int, k * x = k * y
  PROVE  x = y
BY Cancel

\* A multiple is divided exactly.
LEMMA ExactQuotient ==
  ASSUME NEW k \in Nat, NEW p \in Nat \ {0}
  PROVE  (k * p) \div p = k
<1> DEFINE q == (k * p) \div p
<1>1. k * p \in Nat
  OBVIOUS
<1>2. q \in Nat /\ q * p <= k * p /\ k * p < q * p + p
  BY <1>1, DivBounds
<1> HIDE DEF q
<1>3. k * p <= q * p
  BY <1>2, MultiplesOrdered
<1>4. p * q = p * k
  BY <1>2, <1>3
<1>5. q = k
  BY <1>2, <1>4, CancelEqual
<1> QED
  BY <1>5 DEF q

-----------------------------------------------------------------------------
\* Induction over the naturals, the property given as the set of those that have it.
LEMMA NatSetInduction ==
  ASSUME NEW T, 0 \in T, \A n \in T \cap Nat : n + 1 \in T
  PROVE  Nat \subseteq T
<1> SUFFICES ASSUME Nat \ T # {}
             PROVE  FALSE
  OBVIOUS
<1> DEFINE Less == {ss \in Nat \X Nat : ss[1] < ss[2]}
<1>1. PICK n \in Nat \ T : \A m \in Nat \ T : ~(<<m, n>> \in Less)
  <2>1. IsWellFoundedOn(Less, Nat)
    BY NatLessThanWellFounded DEF OpToRel
  <2> HIDE DEF Less
  <2> QED
    BY <2>1, WFMin
<1>2. n # 0 /\ n - 1 \in Nat
  OBVIOUS
<1>3. <<n - 1, n>> \in Less
  BY <1>2
<1> HIDE DEF Less
<1>4. n - 1 \in T
  BY <1>1, <1>2, <1>3
<1>5. (n - 1) + 1 \in T
  BY <1>2, <1>4
<1> QED
  BY <1>5

-----------------------------------------------------------------------------
(* Sums over finite sets. *)

AnyOf(s) == CHOOSE x \in s : TRUE
Accumulated(f, g, s) == IF s = {} THEN 0 ELSE f[AnyOf(s)] + g[s \ {AnyOf(s)}]

\* The function SumFunctionOnSet is a value of.
Accumulates(f, S, g) == g = [s \in SUBSET S |-> Accumulated(f, g, s)]

\* The library's definition, unfolded.
LEMMA SumIsAccumulated ==
  \A f, S : SumFunctionOnSet(f, S) = (CHOOSE g : Accumulates(f, S, g))[S]
BY DEF SumFunctionOnSet, FoldFunctionOnSet, MapThenFoldSet, Accumulates, Accumulated, AnyOf

SameOn(f, e, R) == \A x \in R : f[x] = e[x]

\* The subsets of at most n elements.
UpTo(S, n) == {s \in SUBSET S : Cardinality(s) <= n}

\* A subset with an element taken out.
LEMMA Smaller ==
  ASSUME NEW S, IsFiniteSet(S), NEW s \in SUBSET S, s # {}
  PROVE  /\ AnyOf(s) \in s
         /\ s \ {AnyOf(s)} \in SUBSET S
         /\ IsFiniteSet(s)
         /\ Cardinality(s) \in Nat \ {0}
         /\ Cardinality(s \ {AnyOf(s)}) = Cardinality(s) - 1
<1>1. AnyOf(s) \in s
  BY DEF AnyOf
<1>2. IsFiniteSet(s)
  BY FS_Subset
<1>3. Cardinality(s) \in Nat \ {0}
  BY <1>2, FS_CardinalityType, FS_EmptySet
<1>4. Cardinality(s \ {AnyOf(s)}) = Cardinality(s) - 1
  BY <1>1, <1>2, FS_RemoveElement
<1> QED
  BY <1>1, <1>2, <1>3, <1>4

\* The recursion defines a function: on subsets of at most n elements, for every n.
LEMMA AccumulatorExists ==
  ASSUME NEW f, NEW S, IsFiniteSet(S)
  PROVE  \E g : Accumulates(f, S, g)
<1> DEFINE Upto(n, g) == g = [s \in UpTo(S, n) |-> Accumulated(f, g, s)]
           T == {n \in Nat : \E g : Upto(n, g)}
<1>1. 0 \in T
  <2> DEFINE g == [s \in UpTo(S, 0) |-> 0]
  <2>1. \A s \in UpTo(S, 0) : s = {}
    <3> SUFFICES ASSUME NEW s \in UpTo(S, 0)
                 PROVE  s = {}
      OBVIOUS
    <3>1. s \in SUBSET S /\ Cardinality(s) <= 0
      BY DEF UpTo
    <3>2. s # {} => Cardinality(s) \in Nat \ {0}
      BY <3>1, Smaller
    <3> QED
      BY <3>1, <3>2
  <2>2. g = [s \in UpTo(S, 0) |-> Accumulated(f, g, s)]
    BY <2>1 DEF Accumulated
  <2> QED
    BY <2>2
<1>2. ASSUME NEW n \in T \cap Nat
      PROVE  n + 1 \in T
  <2>1. PICK g : g = [s \in UpTo(S, n) |-> Accumulated(f, g, s)]
    BY <1>2
  <2> DEFINE h == [s \in UpTo(S, n + 1) |-> Accumulated(f, g, s)]
  <2>2. ASSUME NEW s \in UpTo(S, n + 1)
        PROVE  Accumulated(f, g, s) = Accumulated(f, h, s)
    <3>1. CASE s = {}
      BY <3>1 DEF Accumulated
    <3>2. CASE s # {}
      <4> DEFINE t == s \ {AnyOf(s)}
      <4>1. t \in UpTo(S, n) /\ t \in UpTo(S, n + 1)
        BY <3>2, Smaller DEF UpTo
      <4>2. h[t] = g[t]
        BY <2>1, <4>1
      <4> HIDE DEF h
      <4> QED
        BY <3>2, <4>2 DEF Accumulated
    <3> QED
      BY <3>1, <3>2
  <2>3. h = [s \in UpTo(S, n + 1) |-> Accumulated(f, h, s)]
    BY <2>2
  <2> HIDE DEF h
  <2> QED
    BY <2>3
<1>3. Nat \subseteq T
  <2> HIDE DEF T
  <2> QED
    BY <1>1, <1>2, NatSetInduction
<1>4. Cardinality(S) \in Nat
  BY FS_CardinalityType
<1>5. PICK g : Upto(Cardinality(S), g)
  BY <1>3, <1>4
<1>6. UpTo(S, Cardinality(S)) = SUBSET S
  BY FS_Subset DEF UpTo
<1> QED
  BY <1>5, <1>6 DEF Accumulates

\* Any two of them agree where their values do.
LEMMA AccumulatorsAgree ==
  ASSUME NEW S, IsFiniteSet(S), NEW R \in SUBSET S, NEW f, NEW e,
         SameOn(f, e, R),
         NEW g, Accumulates(f, S, g),
         NEW h, Accumulates(e, R, h)
  PROVE  \A s \in SUBSET R : g[s] = h[s]
<1> DEFINE T == {n \in Nat : \A s \in SUBSET R : Cardinality(s) = n => g[s] = h[s]}
<1>0. \A s \in SUBSET R : g[s] = Accumulated(f, g, s) /\ h[s] = Accumulated(e, h, s)
  BY DEF Accumulates
<1>1. 0 \in T
  <2> SUFFICES ASSUME NEW s \in SUBSET R, Cardinality(s) = 0
               PROVE  g[s] = h[s]
    OBVIOUS
  <2>1. s = {}
    BY Smaller
  <2> QED
    BY <1>0, <2>1 DEF Accumulated
<1>2. ASSUME NEW n \in T \cap Nat
      PROVE  n + 1 \in T
  <2> SUFFICES ASSUME NEW s \in SUBSET R, Cardinality(s) = n + 1
               PROVE  g[s] = h[s]
    OBVIOUS
  <2>1. s # {}
    BY FS_EmptySet
  <2> DEFINE t == s \ {AnyOf(s)}
  <2>2. AnyOf(s) \in R /\ t \in SUBSET R /\ Cardinality(t) = n
    BY <2>1, Smaller
  <2>3. g[t] = h[t]
    BY <1>2, <2>2
  <2> QED
    BY <1>0, <2>1, <2>2, <2>3 DEF Accumulated, SameOn
<1>3. Nat \subseteq T
  <2> HIDE DEF T
  <2> QED
    BY <1>1, <1>2, NatSetInduction
<1> SUFFICES ASSUME NEW s \in SUBSET R
             PROVE  g[s] = h[s]
  OBVIOUS
<1>4. IsFiniteSet(s)
  BY FS_Subset
<1> QED
  BY <1>3, <1>4, FS_CardinalityType

\* A sum is the value of one element and the sum of the others.
LEMMA SumUnfolds ==
  ASSUME NEW S, IsFiniteSet(S), NEW f
  PROVE  /\ SumFunctionOnSet(f, {}) = 0
         /\ S # {} => SumFunctionOnSet(f, S) =
              f[AnyOf(S)] + SumFunctionOnSet(f, S \ {AnyOf(S)})
<1> DEFINE G(R) == CHOOSE g : Accumulates(f, R, g)
<1>1. ASSUME NEW R, IsFiniteSet(R)
      PROVE  Accumulates(f, R, G(R)) /\ SumFunctionOnSet(f, R) = G(R)[R]
  BY <1>1, AccumulatorExists, SumIsAccumulated
<1>2. SumFunctionOnSet(f, {}) = 0
  BY <1>1, FS_EmptySet DEF Accumulates, Accumulated
<1>3. ASSUME S # {}
      PROVE  SumFunctionOnSet(f, S) = f[AnyOf(S)] + SumFunctionOnSet(f, S \ {AnyOf(S)})
  <2> DEFINE R == S \ {AnyOf(S)}
  <2>1. IsFiniteSet(R)
    BY FS_Subset
  <2>2. R \in SUBSET S /\ R \in SUBSET R /\ S \in SUBSET S
    OBVIOUS
  <2> HIDE DEF G, R
  <2>3. Accumulates(f, S, G(S)) /\ Accumulates(f, R, G(R))
    BY <1>1, <2>1
  <2>4. G(S)[R] = G(R)[R]
    BY <2>2, <2>3, AccumulatorsAgree DEF SameOn
  <2>5. G(S)[S] = f[AnyOf(S)] + G(S)[R]
    BY <1>3, <2>2, <2>3 DEF Accumulates, Accumulated, R
  <2>6. SumFunctionOnSet(f, S) = f[AnyOf(S)] + SumFunctionOnSet(f, R)
    BY <1>1, <2>1, <2>4, <2>5
  <2> QED
    BY <2>6 DEF R
<1> QED
  BY <1>2, <1>3

\* A sum depends on the values in it only.
LEMMA SumSame ==
  ASSUME NEW S, IsFiniteSet(S), NEW f, NEW e, \A x \in S : f[x] = e[x]
  PROVE  SumFunctionOnSet(f, S) = SumFunctionOnSet(e, S)
<1> DEFINE G(a) == CHOOSE g : Accumulates(a, S, g)
<1>1. ASSUME NEW a
      PROVE  Accumulates(a, S, G(a)) /\ SumFunctionOnSet(a, S) = G(a)[S]
  BY AccumulatorExists, SumIsAccumulated
<1> HIDE DEF G
<1>2. SameOn(f, e, S) /\ S \in SUBSET S
  BY DEF SameOn
<1>3. Accumulates(f, S, G(f)) /\ Accumulates(e, S, G(e))
  BY <1>1
<1>4. \A s \in SUBSET S : G(f)[s] = G(e)[s]
  BY <1>2, <1>3, AccumulatorsAgree
<1> QED
  BY <1>1, <1>2, <1>4

\* A sum of naturals is one.
LEMMA SumNat ==
  ASSUME NEW S, IsFiniteSet(S), NEW f, \A x \in S : f[x] \in Nat
  PROVE  SumFunctionOnSet(f, S) \in Nat
<1> DEFINE T == {n \in Nat : \A s \in SUBSET S : Cardinality(s) = n =>
                               SumFunctionOnSet(f, s) \in Nat}
<1>1. 0 \in T
  <2> SUFFICES ASSUME NEW s \in SUBSET S, Cardinality(s) = 0
               PROVE  SumFunctionOnSet(f, s) \in Nat
    OBVIOUS
  <2>1. s = {}
    BY Smaller
  <2> QED
    BY <2>1, FS_EmptySet, SumUnfolds
<1>2. ASSUME NEW n \in T \cap Nat
      PROVE  n + 1 \in T
  <2> SUFFICES ASSUME NEW s \in SUBSET S, Cardinality(s) = n + 1
               PROVE  SumFunctionOnSet(f, s) \in Nat
    OBVIOUS
  <2>1. s # {}
    BY FS_EmptySet
  <2> DEFINE t == s \ {AnyOf(s)}
  <2>2. /\ AnyOf(s) \in S /\ t \in SUBSET S /\ Cardinality(t) = n
        /\ IsFiniteSet(s)
    BY <2>1, Smaller
  <2>3. SumFunctionOnSet(f, t) \in Nat
    BY <1>2, <2>2
  <2>4. SumFunctionOnSet(f, s) = f[AnyOf(s)] + SumFunctionOnSet(f, t)
    BY <2>1, <2>2, SumUnfolds
  <2> QED
    BY <2>2, <2>3, <2>4
<1>3. Nat \subseteq T
  <2> HIDE DEF T
  <2> QED
    BY <1>1, <1>2, NatSetInduction
<1> QED
  BY <1>3, FS_CardinalityType

\* Whichever element is taken out first.
LEMMA SumRemoves ==
  ASSUME NEW S, IsFiniteSet(S), NEW f, \A y \in S : f[y] \in Nat, NEW x \in S
  PROVE  SumFunctionOnSet(f, S) = f[x] + SumFunctionOnSet(f, S \ {x})
<1> DEFINE Sum(s) == SumFunctionOnSet(f, s)
           T == {n \in Nat : \A s \in SUBSET S : Cardinality(s) = n =>
                               \A y \in s : Sum(s) = f[y] + Sum(s \ {y})}
<1>1. 0 \in T
  <2> SUFFICES ASSUME NEW s \in SUBSET S, Cardinality(s) = 0
               PROVE  s = {}
    OBVIOUS
  <2> QED
    BY Smaller
<1>2. ASSUME NEW n \in T \cap Nat
      PROVE  n + 1 \in T
  <2> SUFFICES ASSUME NEW s \in SUBSET S, Cardinality(s) = n + 1, NEW y \in s
               PROVE  Sum(s) = f[y] + Sum(s \ {y})
    OBVIOUS
  <2> DEFINE z == AnyOf(s)
             t == s \ {z}
  <2>1. /\ z \in s /\ t \in SUBSET S /\ Cardinality(t) = n
        /\ IsFiniteSet(s)
    BY Smaller
  <2>2. Sum(s) = f[z] + Sum(t)
    BY <2>1, SumUnfolds
  <2>3. CASE y = z
    BY <2>2, <2>3
  <2>4. CASE y # z
    <3> DEFINE u == s \ {y}
    <3>1. y \in t /\ z \in u /\ t \ {y} = u \ {z} /\ u \in SUBSET S
      BY <2>1, <2>4
    <3>2. Cardinality(u) = n
      BY <2>1, FS_RemoveElement
    <3>3. Sum(t) = f[y] + Sum(t \ {y}) /\ Sum(u) = f[z] + Sum(u \ {z})
      BY <1>2, <2>1, <3>1, <3>2
    <3>4. IsFiniteSet(u \ {z}) /\ \A w \in u \ {z} : f[w] \in Nat
      BY <2>1, FS_RemoveElement
    <3>5. Sum(u \ {z}) \in Nat
      BY <3>4, SumNat
    <3>6. f[y] \in Nat /\ f[z] \in Nat
      BY <2>1
    <3> HIDE DEF Sum, u, t, z
    <3>7. Sum(s) = f[y] + Sum(u)
      BY <2>2, <3>1, <3>3, <3>5, <3>6
    <3> QED
      BY <3>7 DEF u
  <2> QED
    BY <2>3, <2>4
<1>3. Nat \subseteq T
  <2> HIDE DEF T
  <2> QED
    BY <1>1, <1>2, NatSetInduction
<1>4. Cardinality(S) \in Nat
  BY FS_CardinalityType
<1> QED
  BY <1>3, <1>4

\* No element has more than the sum.
LEMMA SumCovers ==
  ASSUME NEW S, IsFiniteSet(S), NEW f, \A y \in S : f[y] \in Nat, NEW x \in S
  PROVE  f[x] <= SumFunctionOnSet(f, S)
<1>1. SumFunctionOnSet(f, S) = f[x] + SumFunctionOnSet(f, S \ {x})
  BY SumRemoves
<1>2. IsFiniteSet(S \ {x}) /\ \A y \in S \ {x} : f[y] \in Nat
  BY FS_RemoveElement
<1>3. SumFunctionOnSet(f, S \ {x}) \in Nat
  BY <1>2, SumNat
<1> QED
  BY <1>1, <1>3

\* Sums are in the order of their values.
LEMMA SumOrdered ==
  ASSUME NEW S, IsFiniteSet(S), NEW f, NEW e,
         \A x \in S : f[x] \in Nat /\ e[x] \in Nat /\ f[x] <= e[x]
  PROVE  SumFunctionOnSet(f, S) <= SumFunctionOnSet(e, S)
<1> DEFINE T == {n \in Nat : \A s \in SUBSET S : Cardinality(s) = n =>
                               SumFunctionOnSet(f, s) <= SumFunctionOnSet(e, s)}
<1>1. 0 \in T
  <2> SUFFICES ASSUME NEW s \in SUBSET S, Cardinality(s) = 0
               PROVE  SumFunctionOnSet(f, s) <= SumFunctionOnSet(e, s)
    OBVIOUS
  <2>1. s = {}
    BY Smaller
  <2> QED
    BY <2>1, FS_EmptySet, SumUnfolds
<1>2. ASSUME NEW n \in T \cap Nat
      PROVE  n + 1 \in T
  <2> SUFFICES ASSUME NEW s \in SUBSET S, Cardinality(s) = n + 1
               PROVE  SumFunctionOnSet(f, s) <= SumFunctionOnSet(e, s)
    OBVIOUS
  <2>1. s # {}
    BY FS_EmptySet
  <2> DEFINE t == s \ {AnyOf(s)}
  <2>2. /\ AnyOf(s) \in S /\ t \in SUBSET S /\ Cardinality(t) = n
        /\ IsFiniteSet(s) /\ IsFiniteSet(t)
    BY <2>1, Smaller, FS_Subset
  <2>3. SumFunctionOnSet(f, t) <= SumFunctionOnSet(e, t)
    BY <1>2, <2>2
  <2>4. SumFunctionOnSet(f, t) \in Nat /\ SumFunctionOnSet(e, t) \in Nat
    BY <2>2, SumNat
  <2>5. /\ SumFunctionOnSet(f, s) = f[AnyOf(s)] + SumFunctionOnSet(f, t)
        /\ SumFunctionOnSet(e, s) = e[AnyOf(s)] + SumFunctionOnSet(e, t)
    BY <2>1, <2>2, SumUnfolds
  <2> QED
    BY <2>2, <2>3, <2>4, <2>5
<1>3. Nat \subseteq T
  <2> HIDE DEF T
  <2> QED
    BY <1>1, <1>2, NatSetInduction
<1> QED
  BY <1>3, FS_CardinalityType

\* Values that are below multiples but for c each have a sum that is below the
\* multiple of the sum but for as often c.
LEMMA SumScaled ==
  ASSUME NEW S, IsFiniteSet(S), NEW f, NEW e, NEW y \in Nat, NEW c \in Nat,
         \A x \in S : f[x] \in Nat /\ e[x] \in Nat /\ f[x] <= (e[x] + c) * y
  PROVE  SumFunctionOnSet(f, S) <= (SumFunctionOnSet(e, S) + c * Cardinality(S)) * y
<1> DEFINE T == {n \in Nat : \A s \in SUBSET S : Cardinality(s) = n =>
                    SumFunctionOnSet(f, s) <= (SumFunctionOnSet(e, s) + c * n) * y}
<1>1. 0 \in T
  <2> SUFFICES ASSUME NEW s \in SUBSET S, Cardinality(s) = 0
               PROVE  SumFunctionOnSet(f, s) <= (SumFunctionOnSet(e, s) + c * 0) * y
    OBVIOUS
  <2>1. s = {}
    BY Smaller
  <2>2. SumFunctionOnSet(f, s) = 0 /\ SumFunctionOnSet(e, s) = 0
    BY <2>1, FS_EmptySet, SumUnfolds
  <2> QED
    BY <2>2
<1>2. ASSUME NEW n \in T \cap Nat
      PROVE  n + 1 \in T
  <2> SUFFICES ASSUME NEW s \in SUBSET S, Cardinality(s) = n + 1
               PROVE  SumFunctionOnSet(f, s) <= (SumFunctionOnSet(e, s) + c * (n + 1)) * y
    OBVIOUS
  <2>1. s # {}
    <3>1. n + 1 # 0
      OBVIOUS
    <3> HIDE DEF T
    <3> QED
      BY <3>1, FS_EmptySet
  <2> DEFINE t == s \ {AnyOf(s)}
             F == SumFunctionOnSet(f, t)
             E == SumFunctionOnSet(e, t)
             g == f[AnyOf(s)]
             h == e[AnyOf(s)]
  <2>2. /\ AnyOf(s) \in S /\ t \in SUBSET S /\ Cardinality(t) = n
        /\ IsFiniteSet(s) /\ IsFiniteSet(t)
    BY <2>1, Smaller, FS_Subset
  <2>3. F <= (E + c * n) * y
    BY <1>2, <2>2
  <2>4. F \in Nat /\ E \in Nat
    BY <2>2, SumNat
  <2>5. /\ SumFunctionOnSet(f, s) = g + F
        /\ SumFunctionOnSet(e, s) = h + E
    BY <2>1, <2>2, SumUnfolds
  <2>6. g \in Nat /\ h \in Nat /\ g <= (h + c) * y
    BY <2>2
  <2> HIDE DEF F, E, g, h, t
  <2>7. (h + c) * y + (E + c * n) * y = (h + E + c * (n + 1)) * y
    BY <2>4, <2>6
  <2>8. (h + c) * y \in Nat /\ (E + c * n) * y \in Nat
    BY <2>4, <2>6
  <2> QED
    BY <2>3, <2>4, <2>5, <2>6, <2>7, <2>8
<1>3. Nat \subseteq T
  <2> HIDE DEF T
  <2> QED
    BY <1>1, <1>2, NatSetInduction
<1> QED
  BY <1>3, FS_CardinalityType

-----------------------------------------------------------------------------
\* Some numbers have a least one.
LEMMA LeastOf ==
  ASSUME NEW S \in SUBSET Nat, S # {}
  PROVE  Min(S) \in S /\ \A y \in S : Min(S) <= y
<1> DEFINE Less == {ss \in Nat \X Nat : ss[1] < ss[2]}
<1>1. PICK n \in S : \A m \in S : ~(<<m, n>> \in Less)
  <2>1. IsWellFoundedOn(Less, Nat)
    BY NatLessThanWellFounded DEF OpToRel
  <2> HIDE DEF Less
  <2> QED
    BY <2>1, WFMin
<1>2. \A m \in S : n <= m
  <2> SUFFICES ASSUME NEW m \in S, m < n
               PROVE  FALSE
    OBVIOUS
  <2>1. <<m, n>> \in Less
    OBVIOUS
  <2> QED
    BY <1>1, <2>1
<1> QED
  BY <1>2 DEF Min
=============================================================================
