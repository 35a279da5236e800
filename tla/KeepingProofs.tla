---------------------------- MODULE KeepingProofs ----------------------------
(***************************************************************************)
(* Proofs about the components that keep something in step with a clock or *)
(* a count: the limiter, the cron manager, the requests of a service, the  *)
(* guard, the records and wake on LAN, for every value of their constants. *)
(* Each has an inductive invariant; PanelProofs carries them to the panel. *)
(***************************************************************************)
EXTENDS Limiter, Cron, SiteRequests, Bans, Journal, Wol,
        FiniteSetTheorems, WellFoundedInduction, SequenceTheorems, TLAPS

-----------------------------------------------------------------------------
(* Sums over finite sets and a little arithmetic. Induction is over the finite *)
(* sets themselves: a set of counterexamples would have a least one.       *)

\* Induction over a finite set: a family of its subsets that is not empty has a least one.
LEMMA LeastSubset ==
    ASSUME NEW S, IsFiniteSet(S), NEW Bad, Bad \subseteq SUBSET S, Bad # {}
    PROVE  \E T \in Bad : \A U \in SUBSET T : U # T => U \notin Bad
<1>1. Bad \subseteq FiniteSubsetsOf(S)
  BY FS_Subset DEF FiniteSubsetsOf
<1>2. PICK T \in Bad : \A U \in Bad : <<U, T>> \notin StrictSubsetOrdering(S)
  <2>1. IsWellFoundedOn(StrictSubsetOrdering(S), FiniteSubsetsOf(S))
    BY FS_StrictSubsetOrderingWellFounded
  <2> QED BY <1>1, <2>1, WFMin
<1> QED BY <1>2 DEF StrictSubsetOrdering

\* Sums as cardinalities
Heap(f, S) == UNION {{x} \X (1..f[x]) : x \in S}

\* Taking one element away takes its part of the heap away.
LEMMA HeapAdd ==
    ASSUME NEW S, IsFiniteSet(S), NEW f, \A x \in S : f[x] \in Nat, NEW x \in S
    PROVE  /\ IsFiniteSet(Heap(f, S))
           /\ Cardinality(Heap(f, S)) = f[x] + Cardinality(Heap(f, S \ {x}))
<1>0. \A U \in SUBSET S : IsFiniteSet(Heap(f, U))
  <2> TAKE U \in SUBSET S
  <2>0. IsFiniteSet(U) BY FS_Subset
  <2>1. IsFiniteSet({{y} \X (1..f[y]) : y \in U})
    <3> DEFINE g == [y \in U |-> {y} \X (1..f[y])]
    <3>1. g \in Surjection(U, {{y} \X (1..f[y]) : y \in U})
      BY DEF Surjection
    <3> QED BY <3>1, <2>0, FS_Surjection
  <2>2. \A T \in {{y} \X (1..f[y]) : y \in U} : IsFiniteSet(T)
    <3> SUFFICES ASSUME NEW y \in U PROVE IsFiniteSet({y} \X (1..f[y]))
      OBVIOUS
    <3>1. f[y] \in Nat OBVIOUS
    <3>2. IsFiniteSet(1..f[y])
      BY <3>1, FS_Interval
    <3>3. IsFiniteSet({y})
      BY FS_Singleton
    <3> QED BY <3>2, <3>3, FS_Product
  <2> QED BY <2>1, <2>2, FS_UNION DEF Heap
<1>1. Heap(f, S) = Heap(f, S \ {x}) \cup ({x} \X (1..f[x]))
  BY DEF Heap
<1>2. Heap(f, S \ {x}) \cap ({x} \X (1..f[x])) = {}
  BY DEF Heap
<1>3. IsFiniteSet({x} \X (1..f[x])) /\ Cardinality({x} \X (1..f[x])) = f[x]
  <2>1. f[x] \in Nat OBVIOUS
  <2>2. IsFiniteSet(1..f[x]) /\ Cardinality(1..f[x]) = f[x]
    BY <2>1, FS_Interval
  <2>3. IsFiniteSet({x}) /\ Cardinality({x}) = 1
    BY FS_Singleton
  <2>4. Cardinality({x} \X (1..f[x])) = 1 * f[x]
    BY <2>2, <2>3, FS_Product
  <2> QED BY <2>1, <2>2, <2>3, <2>4, FS_Product
<1>4. IsFiniteSet(Heap(f, S \ {x}))
  BY <1>0
<1>5. Cardinality(Heap(f, S)) = Cardinality(Heap(f, S \ {x})) + f[x] - Cardinality({})
  BY <1>1, <1>2, <1>3, <1>4, FS_Union
<1> QED BY <1>0, <1>4, <1>5, FS_EmptySet, FS_CardinalityType

\* A sum of naturals over a finite set is the number of pairs in its heap: the
\* fold the community module defines, for every finite set.
LEMMA SumIsHeap ==
    ASSUME NEW S, IsFiniteSet(S), NEW f, \A x \in S : f[x] \in Nat
    PROVE  SumFunctionOnSet(f, S) = Cardinality(Heap(f, S))
<1> DEFINE step(g) == [s \in SUBSET S |-> IF s = {} THEN 0
                          ELSE LET x == CHOOSE x \in s : TRUE IN f[x] + g[s \ {x}]]
           iter == CHOOSE g : g = step(g)
           h == [s \in SUBSET S |-> Cardinality(Heap(f, s))]
<1>1. SumFunctionOnSet(f, S) = iter[S]
  BY DEF SumFunctionOnSet, FoldFunctionOnSet, MapThenFoldSet
<1>2. h = step(h)
  <2>1. \A s \in SUBSET S : h[s] = step(h)[s]
    <3> TAKE s \in SUBSET S
    <3>1. CASE s = {}
      <4>1. Heap(f, {}) = {} BY DEF Heap
      <4> QED BY <3>1, <4>1, FS_EmptySet
    <3>2. CASE s # {}
      <4> DEFINE x == CHOOSE x \in s : TRUE
      <4>1. x \in s BY <3>2
      <4>2. IsFiniteSet(s) BY FS_Subset
      <4> HIDE DEF x
      <4>3. Cardinality(Heap(f, s)) = f[x] + Cardinality(Heap(f, s \ {x}))
        BY <4>1, <4>2, HeapAdd
      <4> QED BY <3>2, <4>1, <4>3 DEF x
    <3> QED BY <3>1, <3>2
  <2> QED BY <2>1
<1>3. iter = step(iter)
  <2> HIDE DEF h, step
  <2> QED BY <1>2
<1> HIDE DEF iter
<1>4. \A s \in SUBSET S : iter[s] = h[s]
  <2> DEFINE Bad == {s \in SUBSET S : iter[s] # h[s]}
  <2> SUFFICES ASSUME Bad # {} PROVE FALSE
    OBVIOUS
  <2>1. PICK T \in Bad : \A U \in SUBSET T : U # T => U \notin Bad
    <3>1. Bad \subseteq SUBSET S
      OBVIOUS
    <3> HIDE DEF Bad
    <3> QED BY <3>1, LeastSubset
  <2>2. T # {}
    BY <1>2, <1>3
  <2> DEFINE x == CHOOSE x \in T : TRUE
  <2>3. x \in T BY <2>2
  <2>4. iter[T] = f[x] + iter[T \ {x}] /\ h[T] = f[x] + h[T \ {x}]
    <3> HIDE DEF h
    <3> QED BY <1>2, <1>3, <2>2, <2>3
  <2>5. iter[T \ {x}] = h[T \ {x}]
    BY <2>1, <2>3
  <2> QED BY <2>1, <2>4, <2>5
<1> QED BY <1>1, <1>4

\* A sum over no elements, and over one more: any element may go first.
LEMMA SumEmpty ==
    ASSUME NEW f
    PROVE  SumFunctionOnSet(f, {}) = 0
<1>1. Heap(f, {}) = {}
  BY DEF Heap
<1> QED BY <1>1, SumIsHeap, FS_EmptySet

\* It is a natural number.
LEMMA SumNatural ==
    ASSUME NEW S, IsFiniteSet(S), NEW f, \A x \in S : f[x] \in Nat
    PROVE  /\ SumFunctionOnSet(f, S) \in Nat
           /\ IsFiniteSet(Heap(f, S))
<1>1. IsFiniteSet(Heap(f, S))
  <2>1. CASE S = {}
    BY <2>1, FS_EmptySet DEF Heap
  <2>2. CASE S # {}
    BY <2>2, HeapAdd
  <2> QED BY <2>1, <2>2
<1> QED BY <1>1, SumIsHeap, FS_CardinalityType

\* One element counts what the function gives it.
LEMMA SumStep ==
    ASSUME NEW S, IsFiniteSet(S), NEW f, \A x \in S : f[x] \in Nat, NEW x \in S
    PROVE  SumFunctionOnSet(f, S) = f[x] + SumFunctionOnSet(f, S \ {x})
<1>1. IsFiniteSet(S \ {x})
  BY FS_RemoveElement
<1> QED BY <1>1, SumIsHeap, HeapAdd

\* The sum is that of the values, of a part it is no more, and parts add up.
LEMMA SumSame ==
    ASSUME NEW S, IsFiniteSet(S), NEW f, NEW g, \A x \in S : f[x] \in Nat /\ f[x] = g[x]
    PROVE  SumFunctionOnSet(f, S) = SumFunctionOnSet(g, S)
<1>1. Heap(f, S) = Heap(g, S)
  BY DEF Heap
<1> QED BY <1>1, SumIsHeap

\* A part of the set, each element counting no more, sums to no more.
LEMMA SumLess ==
    ASSUME NEW S, IsFiniteSet(S), NEW T \in SUBSET S, NEW f, NEW g,
           \A x \in S : f[x] \in Nat /\ g[x] \in Nat, \A x \in T : f[x] <= g[x]
    PROVE  SumFunctionOnSet(f, T) <= SumFunctionOnSet(g, S)
<1>1. IsFiniteSet(T)
  BY FS_Subset
<1>2. Heap(f, T) \subseteq Heap(g, S)
  BY DEF Heap
<1>3. IsFiniteSet(Heap(g, S))
  BY SumNatural
<1>4. Cardinality(Heap(f, T)) <= Cardinality(Heap(g, S))
  BY <1>2, <1>3, FS_Subset
<1> QED BY <1>1, <1>4, SumIsHeap

\* The sum over two sets that share nothing is the sum of their sums.
LEMMA SumParts ==
    ASSUME NEW S, NEW T, IsFiniteSet(S), IsFiniteSet(T), S \cap T = {},
           NEW f, \A x \in S \cup T : f[x] \in Nat
    PROVE  SumFunctionOnSet(f, S \cup T) = SumFunctionOnSet(f, S) + SumFunctionOnSet(f, T)
<1>1. IsFiniteSet(S \cup T)
  BY FS_Union
<1>2. Heap(f, S \cup T) = Heap(f, S) \cup Heap(f, T)
  BY DEF Heap
<1>3. Heap(f, S) \cap Heap(f, T) = {}
  BY DEF Heap
<1>4. IsFiniteSet(Heap(f, S)) /\ IsFiniteSet(Heap(f, T))
  BY SumNatural
<1>5. Cardinality(Heap(f, S \cup T)) = Cardinality(Heap(f, S)) + Cardinality(Heap(f, T)) - Cardinality({})
  <2> DEFINE A == Heap(f, S)
             B == Heap(f, T)
  <2>1. IsFiniteSet(A) /\ IsFiniteSet(B) /\ A \cap B = {}
    BY <1>3, <1>4
  <2> HIDE DEF A, B
  <2>2. Cardinality(A \cup B) = Cardinality(A) + Cardinality(B) - Cardinality({})
    BY <2>1, FS_Union
  <2> QED BY <1>2, <2>2 DEF A, B
<1>6. Cardinality(Heap(f, S)) \in Nat /\ Cardinality(Heap(f, T)) \in Nat
  BY <1>4, FS_CardinalityType
<1>7. Cardinality(Heap(f, S \cup T)) = Cardinality(Heap(f, S)) + Cardinality(Heap(f, T))
  BY <1>5, <1>6, FS_EmptySet
<1> QED BY <1>1, <1>7, SumIsHeap

\* The sum of one value everywhere is a product.
LEMMA SumConstant ==
    ASSUME NEW S, IsFiniteSet(S), NEW f, NEW n \in Nat, \A x \in S : f[x] = n
    PROVE  SumFunctionOnSet(f, S) = Cardinality(S) * n
<1>1. Heap(f, S) = S \X (1..n)
  BY DEF Heap
<1>2. IsFiniteSet(1..n) /\ Cardinality(1..n) = n
  BY FS_Interval
<1>3. Cardinality(S \X (1..n)) = Cardinality(S) * n
  BY <1>2, FS_Product
<1> QED BY <1>1, <1>3, SumIsHeap

\* What is counted is a natural number, one more or one less by one element.
LEMMA SizeOf ==
    ASSUME NEW S, IsFiniteSet(S), NEW x
    PROVE  /\ Cardinality(S) \in Nat
           /\ Cardinality(S) = 0 <=> S = {}
           /\ IsFiniteSet(S \union {x}) /\ IsFiniteSet(S \ {x})
           /\ Cardinality(S \union {x}) = IF x \in S THEN Cardinality(S) ELSE Cardinality(S) + 1
           /\ Cardinality(S \ {x}) = IF x \in S THEN Cardinality(S) - 1 ELSE Cardinality(S)
<1>1. Cardinality(S) \in Nat /\ (Cardinality(S) = 0 <=> S = {})
  BY FS_CardinalityType, FS_EmptySet
<1>2. /\ IsFiniteSet(S \union {x})
      /\ Cardinality(S \union {x}) = IF x \in S THEN Cardinality(S) ELSE Cardinality(S) + 1
  BY FS_AddElement
<1>3. /\ IsFiniteSet(S \ {x})
      /\ Cardinality(S \ {x}) = IF x \in S THEN Cardinality(S) - 1 ELSE Cardinality(S)
  BY FS_RemoveElement
<1> QED BY <1>1, <1>2, <1>3

\* A finite set of numbers that is not empty has a largest and a smallest one.
LEMMA MostOf ==
    ASSUME NEW S, IsFiniteSet(S), S # {}, S \subseteq Int
    PROVE  Max(S) \in S /\ \A y \in S : y <= Max(S)
<1> DEFINE Bad == {T \in SUBSET S : T # {} /\ ~\E m \in T : \A y \in T : y <= m}
<1>1. Bad = {}
  <2> SUFFICES ASSUME Bad # {} PROVE FALSE
    OBVIOUS
  <2>1. PICK T \in Bad : \A U \in SUBSET T : U # T => U \notin Bad
    <3>1. Bad \subseteq SUBSET S
      OBVIOUS
    <3> HIDE DEF Bad
    <3> QED BY <3>1, LeastSubset
  <2>2. PICK x \in T : TRUE
    BY <2>1
  <2>3. T \ {x} # {}
    BY <2>1, <2>2
  <2>4. PICK m \in T \ {x} : \A y \in T \ {x} : y <= m
    BY <2>1, <2>2, <2>3
  <2>5. x \in Int /\ m \in Int /\ \A y \in T : y \in Int
    BY <2>1, <2>2, <2>4
  <2>6. CASE x <= m
    BY <2>1, <2>4, <2>5, <2>6
  <2>7. CASE m <= x
    <3>1. \A y \in T : y <= x
      BY <2>4, <2>5, <2>7
    <3> QED BY <2>1, <2>2, <3>1
  <2> QED BY <2>5, <2>6, <2>7
<1>2. \E m \in S : \A y \in S : y <= m
  BY <1>1
<1>3. PICK m \in S : \A y \in S : m >= y
  BY <1>2
<1>4. \E m1 \in S : \A y \in S : m1 >= y
  BY <1>3
<1>5. /\ (CHOOSE x \in S : \A y \in S : x >= y) \in S
      /\ \A y \in S : (CHOOSE x \in S : \A z \in S : x >= z) >= y
  BY <1>4
<1> QED BY <1>5 DEF Max

\* Of two numbers.
LEMMA LeastOf ==
    ASSUME NEW S, IsFiniteSet(S), S # {}, S \subseteq Int
    PROVE  Min(S) \in S /\ \A y \in S : Min(S) <= y
<1> DEFINE Bad == {T \in SUBSET S : T # {} /\ ~\E m \in T : \A y \in T : m <= y}
<1>1. Bad = {}
  <2> SUFFICES ASSUME Bad # {} PROVE FALSE
    OBVIOUS
  <2>1. PICK T \in Bad : \A U \in SUBSET T : U # T => U \notin Bad
    <3>1. Bad \subseteq SUBSET S
      OBVIOUS
    <3> HIDE DEF Bad
    <3> QED BY <3>1, LeastSubset
  <2>2. PICK x \in T : TRUE
    BY <2>1
  <2>3. T \ {x} # {}
    BY <2>1, <2>2
  <2>4. PICK m \in T \ {x} : \A y \in T \ {x} : m <= y
    BY <2>1, <2>2, <2>3
  <2>5. x \in Int /\ m \in Int /\ \A y \in T : y \in Int
    BY <2>1, <2>2, <2>4
  <2>6. CASE m <= x
    BY <2>1, <2>4, <2>5, <2>6
  <2>7. CASE x <= m
    <3>1. \A y \in T : x <= y
      BY <2>4, <2>5, <2>7
    <3> QED BY <2>1, <2>2, <3>1
  <2> QED BY <2>5, <2>6, <2>7
<1>2. \E m \in S : \A y \in S : m <= y
  BY <1>1
<1>3. /\ (CHOOSE x \in S : \A y \in S : x <= y) \in S
      /\ \A y \in S : (CHOOSE x \in S : \A z \in S : x <= z) <= y
  BY <1>2
<1> QED BY <1>3 DEF Min

\* The smaller of two numbers.
LEMMA MinOfTwo ==
    ASSUME NEW a \in Int, NEW b \in Int
    PROVE  Min({a, b}) = IF a <= b THEN a ELSE b
BY DEF Min

\* The larger of two numbers.
LEMMA MaxOfTwo ==
    ASSUME NEW a \in Int, NEW b \in Int
    PROVE  Max({a, b}) = IF a >= b THEN a ELSE b
BY DEF Max

\* A number is its quotient times the divisor and its remainder.
LEMMA Divided ==
    ASSUME NEW n \in Nat, NEW l \in Nat \ {0}
    PROVE  /\ n \div l \in Nat /\ n % l \in 0..(l - 1) /\ n = (n \div l) * l + (n % l)
<1>1. n % l \in 0..(l - 1)
  OBVIOUS
<1>2. n \div l \in Int
  OBVIOUS
<1>3. n = (n \div l) * l + (n % l)
  OBVIOUS
<1>4. n \div l \in Nat
  OBVIOUS
<1> QED BY <1>1, <1>2, <1>3, <1>4

\* There is one quotient and one remainder.
LEMMA DividedOnly ==
    ASSUME NEW n \in Nat, NEW l \in Nat \ {0}, NEW q \in Nat, NEW r \in 0..(l - 1), n = q * l + r
    PROVE  n \div l = q /\ n % l = r
<1>1. n \div l = q
  OBVIOUS
<1>2. n % l = r
  OBVIOUS
<1> QED BY <1>1, <1>2

\* An index that ran past the end at most once is taken back once.
LEMMA Wraps ==
    ASSUME NEW n \in Nat \ {0}, NEW x \in 0..(2 * n - 1)
    PROVE  x % n = IF x < n THEN x ELSE x - n
<1>1. CASE x < n
  <2>1. x \in Nat /\ x \in 0..(n - 1) /\ x = 0 * n + x
    BY <1>1
  <2> QED BY <1>1, <2>1, DividedOnly
<1>2. CASE ~(x < n)
  <2>1. x \in Nat /\ x - n \in 0..(n - 1) /\ x = 1 * n + (x - n)
    BY <1>2
  <2> DEFINE r == x - n
  <2>2. x \in Nat /\ r \in 0..(n - 1) /\ x = 1 * n + r
    BY <2>1
  <2> HIDE DEF r
  <2>3. x % n = r
    BY <2>2, DividedOnly
  <2> QED BY <1>2, <2>3 DEF r
<1> QED BY <1>1, <1>2

-----------------------------------------------------------------------------
(* The buckets of the rate limiter.                                        *)

\* A bucket, and the most a limit allows.
LimBucket == [tokens : Nat, last : 0..limClock]
LimMost == Max(LimLimits)

\* The table is finite and within its bound, the clocks are in their order.
LimTablesInv ==
    /\ limTable \in [LimSources -> LimBucket \union {LimNone}]
    /\ limClock \in 0..LimHorizon /\ limCollected \in 0..limClock
    /\ limGiven \in [LimSources -> [n : 0..(LimMaxGiven + 1), from : 0..limClock, now : Nat]]
    /\ IsFiniteSet(LimHas(limTable)) /\ LimIsBounded
    /\ limUnfair = {}

\* What a source was given and what its bucket still holds is what its limit
\* allows until the bucket was last filled; in one moment, what the limit allows.
LimGrantsInv ==
    \A s \in LimSources :
        LET b == limTable[s] IN
        /\ b # LimNone =>
              /\ b.tokens <= LimMost
              /\ limGiven[s].n + b.tokens <= LimMost * (1 + b.last - limGiven[s].from)
              /\ limGiven[s].from <= b.last
              /\ limGiven[s].now + (IF b.last = limClock THEN b.tokens ELSE 0) <= LimMost
              /\ b.last < limClock => limGiven[s].now = 0
        /\ b = LimNone =>
              /\ limGiven[s].n + LimMost <= LimMost * (1 + limClock - limGiven[s].from)
              /\ limGiven[s].now = 0

\* The inductive invariant of the limiter.
LimInv == LimTablesInv /\ LimGrantsInv

\* What the assumptions say of the limits.
LEMMA LimConstants ==
    /\ LimMaxEntries \in Nat \ {0} /\ LimBatch \in Nat \ {0} /\ LimIdle \in Nat \ {0}
    /\ LimHorizon \in Nat /\ LimMaxGiven \in Nat
    /\ LimMost \in Nat \ {0} /\ \A l \in LimLimits : l \in Nat \ {0} /\ l <= LimMost
<1>1. LimMost \in LimLimits /\ \A l \in LimLimits : l <= LimMost
  <2>1. IsFiniteSet(LimLimits) /\ LimLimits # {} /\ LimLimits \subseteq Int
    BY LimAssumption
  <2> QED BY <2>1, MostOf DEF LimMost
<1> QED BY <1>1, LimAssumption

\* The table begins empty, and nobody was given anything.
LEMMA LimInitInv == LimInit => LimInv
<1> SUFFICES ASSUME LimInit PROVE LimInv
  OBVIOUS
<1>1. LimHas(limTable) = {}
  BY DEF LimInit, LimHas
<1>2. LimTablesInv
  BY <1>1, LimConstants, FS_EmptySet DEF LimInit, LimTablesInv, LimIsBounded, LimNone
<1>3. LimGrantsInv
  BY LimConstants DEF LimInit, LimGrantsInv
<1> QED BY <1>2, <1>3 DEF LimInv

\* What a collection leaves: a bucket that goes was idle for a unit of time.
LEMMA LimSweptTable ==
    ASSUME LimInv
    PROVE  /\ LimSwept \in [LimSources -> LimBucket \union {LimNone}]
           /\ LimHas(LimSwept) \subseteq LimHas(limTable)
           /\ IsFiniteSet(LimHas(LimSwept)) /\ Cardinality(LimHas(LimSwept)) \in Nat
           /\ Cardinality(LimHas(LimSwept)) <= LimMaxEntries
           /\ \A s \in LimSources :
                 \/ LimSwept[s] = limTable[s]
                 \/ LimSwept[s] = LimNone /\ limTable[s] # LimNone /\ limTable[s].last < limClock
<1> USE LimConstants
<1>1. LimSwept \in [LimSources -> LimBucket \union {LimNone}]
  BY DEF LimInv, LimTablesInv, LimSwept, LimWithout
<1>2. LimHas(LimSwept) \subseteq LimHas(limTable)
  BY DEF LimHas, LimSwept, LimWithout
<1>3. /\ IsFiniteSet(LimHas(LimSwept))
      /\ Cardinality(LimHas(LimSwept)) <= Cardinality(LimHas(limTable))
  BY <1>2, FS_Subset DEF LimInv, LimTablesInv
<1>4. Cardinality(LimHas(LimSwept)) \in Nat /\ Cardinality(LimHas(limTable)) \in Nat
  BY <1>3, FS_CardinalityType DEF LimInv, LimTablesInv
<1>5. ASSUME NEW s \in LimSources, LimSwept[s] # limTable[s]
      PROVE  LimSwept[s] = LimNone /\ limTable[s] # LimNone /\ limTable[s].last < limClock
  <2>1. s \in LimCollectable(limTable) /\ LimSwept[s] = LimNone
    BY <1>5 DEF LimSwept, LimWithout, LimInv, LimTablesInv
  <2>2. limTable[s] # LimNone /\ limClock - limTable[s].last >= LimIdle
    BY <2>1 DEF LimCollectable, LimHas, LimIdleFor
  <2>3. limTable[s] \in LimBucket /\ limClock \in Nat
    BY <2>2 DEF LimInv, LimTablesInv
  <2> QED BY <2>1, <2>2, <2>3 DEF LimBucket
<1> QED BY <1>1, <1>2, <1>3, <1>4, <1>5 DEF LimInv, LimTablesInv, LimIsBounded

\* An eviction from a table takes at least one, and never the one asked for last.
LEMMA LimEvictionsGone ==
    ASSUME LimInv, NEW t \in [LimSources -> LimBucket \union {LimNone}],
           IsFiniteSet(LimHas(t)), LimHas(t) # {}, NEW gone \in LimEvictions(t)
    PROVE  /\ gone \subseteq LimHas(t) /\ gone # {}
           /\ Cardinality(LimHas(t)) > 1 => gone \intersect LimNewest(t) = {}
<1> USE LimConstants
<1> DEFINE H == LimHas(t)
           idle == [s \in LimSources |-> LimIdleFor(t[s])]
           n == Cardinality(H)
<1>1. n \in Nat \ {0}
  BY FS_CardinalityType, FS_EmptySet
<1>2. \A s \in H : s \in LimSources /\ t[s] \in LimBucket /\ idle[s] \in Nat /\ idle[s] = limClock - t[s].last
  BY DEF LimHas, LimBucket, LimIdleFor, LimInv, LimTablesInv
<1>a. \A s \in H : t[s].last \in Nat /\ limClock \in Nat /\ t[s].last <= limClock
  <2> TAKE s \in H
  <2>1. t[s] \in [tokens : Nat, last : 0..limClock] /\ limClock \in 0..LimHorizon
    BY <1>2 DEF LimBucket, LimInv, LimTablesInv
  <2> QED BY <2>1
<1>3. LimIdleTotal(t) = SumFunctionOnSet(idle, H)
  BY DEF LimIdleTotal
<1>4. LimEvictable(t) \subseteq H /\ IsFiniteSet(LimEvictable(t))
  BY FS_Subset DEF LimEvictable
<1>5. \A s \in LimEvictable(t) : idle[s] * n >= SumFunctionOnSet(idle, H)
  BY <1>2, <1>3 DEF LimEvictable
<1>6. LimEvictable(t) # {}
  <2> DEFINE V == {idle[s] : s \in H}
  <2>1. IsFiniteSet(V)
    <3> DEFINE f == [s \in H |-> idle[s]]
    <3>1. f \in Surjection(H, V)
      BY DEF Surjection
    <3> HIDE DEF f, V, idle
    <3> QED BY <3>1, FS_Surjection
  <2>2. V # {} /\ V \subseteq Int
    <3> HIDE DEF idle
    <3> QED BY <1>2
  <2>3. Max(V) \in V /\ \A y \in V : y <= Max(V)
    <3> HIDE DEF V
    <3> QED BY <2>1, <2>2, MostOf
  <2>4. PICK s \in H : idle[s] = Max(V)
    BY <2>3
  <2>5. \A o \in H : idle[o] <= idle[s]
    BY <2>3, <2>4
  <2> DEFINE c == [o \in H |-> idle[s]]
  <2>6. SumFunctionOnSet(c, H) = n * idle[s]
    <3>1. \A o \in H : c[o] = idle[s]
      OBVIOUS
    <3>2. idle[s] \in Nat
      BY <1>2
    <3> HIDE DEF c, idle
    <3> QED BY <3>1, <3>2, SumConstant
  <2>7. SumFunctionOnSet(idle, H) <= SumFunctionOnSet(c, H)
    <3>1. \A o \in H : idle[o] \in Nat /\ c[o] \in Nat /\ idle[o] <= c[o]
      BY <1>2, <2>5
    <3> HIDE DEF c, idle
    <3> QED BY <3>1, SumLess
  <2>8. idle[s] * n >= LimIdleTotal(t)
    <3>1. idle[s] \in Nat
      BY <1>2
    <3>2. SumFunctionOnSet(idle, H) \in Nat
      <4>1. \A o \in H : idle[o] \in Nat
        BY <1>2
      <4> HIDE DEF idle
      <4> QED BY <4>1, SumNatural
    <3>3. idle[s] * n = n * idle[s]
      BY <1>1, <3>1
    <3> HIDE DEF idle, n, c
    <3> QED BY <1>1, <1>3, <2>6, <2>7, <3>1, <3>2, <3>3
  <2>9. s \in LimEvictable(t)
    BY <1>2, <2>8 DEF LimEvictable
  <2> QED BY <2>9
<1>7. gone \subseteq LimEvictable(t) /\ Cardinality(gone) = Min({LimBatch, Cardinality(LimEvictable(t))})
  BY DEF LimEvictions, kSubset
<1>8. Cardinality(LimEvictable(t)) \in Nat \ {0}
  BY <1>4, <1>6, FS_CardinalityType, FS_EmptySet
<1>9. Cardinality(gone) # 0
  <2>1. LimBatch \in Int /\ LimBatch # 0 /\ Cardinality(LimEvictable(t)) \in Int
    BY <1>8
  <2> QED BY <1>7, <1>8, <2>1, MinOfTwo
<1>10. gone # {}
  BY <1>9, FS_EmptySet
<1>11. ASSUME n > 1, NEW s \in gone, s \in LimNewest(t)
       PROVE  FALSE
  <2>1. s \in H /\ idle[s] * n >= SumFunctionOnSet(idle, H)
    BY <1>4, <1>5, <1>7
  <2>2. \A o \in H \ {s} : idle[o] >= idle[s] + 1
    <3> TAKE o \in H \ {s}
    <3>1. t[o].last < t[s].last
      BY <1>11 DEF LimNewest
    <3>2. t[o].last \in Nat /\ t[s].last \in Nat /\ limClock \in Nat
      BY <1>a, <2>1
    <3>3. idle[o] = limClock - t[o].last /\ idle[s] = limClock - t[s].last
      BY <1>2, <2>1
    <3> HIDE DEF idle, H
    <3> QED BY <3>1, <3>2, <3>3
  <2>3. IsFiniteSet(H \ {s}) /\ Cardinality(H \ {s}) = n - 1
    BY <2>1, SizeOf
  <2>4. SumFunctionOnSet(idle, H) = idle[s] + SumFunctionOnSet(idle, H \ {s})
    <3>1. \A o \in H : idle[o] \in Nat
      BY <1>2
    <3> HIDE DEF idle
    <3> QED BY <2>1, <3>1, SumStep
  <2> DEFINE c == [o \in H |-> idle[s] + 1]
  <2>5. SumFunctionOnSet(c, H \ {s}) = (n - 1) * (idle[s] + 1)
    <3>1. \A o \in H \ {s} : c[o] = idle[s] + 1
      OBVIOUS
    <3>2. idle[s] + 1 \in Nat
      BY <1>2, <2>1
    <3> HIDE DEF c, idle, n
    <3> QED BY <2>3, <3>1, <3>2, SumConstant
  <2>6. SumFunctionOnSet(c, H \ {s}) <= SumFunctionOnSet(idle, H \ {s})
    <3>1. \A o \in H \ {s} : idle[o] \in Nat /\ c[o] \in Nat /\ c[o] <= idle[o]
      <4>1. \A o \in H \ {s} : c[o] = idle[s] + 1
        OBVIOUS
      <4> HIDE DEF idle, c
      <4> QED BY <1>2, <2>1, <2>2, <4>1
    <3> HIDE DEF c, idle
    <3> QED BY <2>3, <3>1, SumLess
  <2>7. SumFunctionOnSet(idle, H \ {s}) \in Nat /\ idle[s] \in Nat
    <3>1. \A o \in H : idle[o] \in Nat
      BY <1>2
    <3> HIDE DEF idle
    <3> QED BY <2>1, <2>3, <3>1, SumNatural
  <2>8. (n - 1) * (idle[s] + 1) = idle[s] * n - idle[s] + n - 1
    <3> HIDE DEF idle, n
    <3> QED BY <1>1, <2>7
  <2>9. idle[s] * n \in Nat
    <3> HIDE DEF idle, n
    <3> QED BY <1>1, <2>7
  <2> HIDE DEF idle, n, c
  <2> QED BY <1>1, <1>11, <2>1, <2>4, <2>5, <2>6, <2>7, <2>8, <2>9
<1> QED BY <1>4, <1>7, <1>10, <1>11

\* What is due to the one who asks: no more than its limit, nor than what it had
\* and what elapsed.
LEMMA LimFilledBounds ==
    ASSUME LimInv, NEW b \in LimBucket, NEW limit \in LimLimits, b.tokens <= LimMost
    PROVE  /\ LimFilled(b, limit) \in Nat /\ LimFilled(b, limit) <= LimMost
           /\ LimFilled(b, limit) <= b.tokens + LimMost * (limClock - b.last)
           /\ b.last = limClock => LimFilled(b, limit) <= b.tokens
<1> DEFINE d == limClock - b.last
<1>1. b.tokens \in Nat /\ d \in Nat /\ limClock \in Nat /\ b.last \in Nat
  <2>1. limClock \in 0..LimHorizon
    BY DEF LimInv, LimTablesInv
  <2> QED BY <2>1, LimConstants DEF LimBucket
<1>2. limit \in Nat \ {0} /\ limit <= LimMost /\ LimMost \in Nat
  BY LimConstants
<1>3. d * limit \in Nat /\ d * limit <= LimMost * d
  <2> HIDE DEF d
  <2>1. d * limit <= d * LimMost
    BY <1>1, <1>2
  <2>2. d * LimMost = LimMost * d
    BY <1>1, <1>2
  <2> QED BY <1>1, <1>2, <2>1, <2>2
<1>4. LimFilled(b, limit) = IF b.tokens + d * limit <= limit THEN b.tokens + d * limit ELSE limit
  <2>1. b.tokens + d * limit \in Int /\ limit \in Int
    BY <1>1, <1>2, <1>3
  <2>2. LimFilled(b, limit) = Min({b.tokens + d * limit, limit})
    BY DEF LimFilled, LimIdleFor
  <2> HIDE DEF d
  <2> QED BY <2>1, <2>2, MinOfTwo
<1>5. b.last = limClock => d = 0
  BY <1>1
<1>6. d = 0 => d * limit = 0
  BY <1>2
<1>7. LimMost * d \in Nat
  BY <1>1, <1>2
<1>8. limClock - b.last = d
  OBVIOUS
<1> DEFINE p == d * limit
           q == LimMost * d
           h == b.tokens
           f == LimFilled(b, limit)
<1>9. f = IF h + p <= limit THEN h + p ELSE limit
  BY <1>4
<1>10. h \in Nat /\ p \in Nat /\ q \in Nat /\ p <= q /\ (b.last = limClock => p = 0)
  BY <1>1, <1>3, <1>5, <1>6, <1>7
<1>11. f \in Nat /\ f <= LimMost /\ f <= h + q /\ (b.last = limClock => f <= h)
  <2> HIDE DEF d, p, q, f, h
  <2>1. CASE h + p <= limit
    BY <1>2, <1>9, <1>10, <2>1
  <2>2. CASE ~(h + p <= limit)
    BY <1>2, <1>9, <1>10, <2>2
  <2> QED BY <2>1, <2>2
<1> QED BY <1>8, <1>11

\* A request asks: the table may be collected or lose its oldest, the bucket is
\* made, refilled or found, and the request is let through or not.
LEMMA LimAllowInv ==
    ASSUME LimInv, NEW s \in LimSources, NEW limit \in LimLimits, LimAllow(s, limit)
    PROVE  LimInv'
<1> USE LimConstants
<1> DEFINE T == LimSwept
           Gones == IF s \in LimHas(LimSwept) \/ Cardinality(LimHas(LimSwept)) < LimMaxEntries
                    THEN {{}} ELSE LimEvictions(LimSwept)
<1>0. PICK gone \in Gones :
         LET room == LimWithout(LimSwept, gone)
             b == IF s \in LimHas(room) THEN room[s] ELSE [tokens |-> limit, last |-> limClock]
             tokens == LimFilled(b, limit)
             granted == tokens >= 1
             given == [o \in LimSources |-> IF o \in gone THEN [n |-> 0, from |-> limClock, now |-> 0]
                                                        ELSE limGiven[o]] IN
         /\ limGiven[s].n < LimMaxGiven
         /\ limTable' = [room EXCEPT ![s] =
               [tokens |-> IF granted THEN tokens - 1 ELSE tokens, last |-> limClock]]
         /\ limGiven' = IF granted THEN [given EXCEPT ![s].n = @ + 1, ![s].now = @ + 1] ELSE given
         /\ limCollected' = IF LimDue THEN limClock ELSE limCollected
         /\ limUnfair' = limUnfair \union
              (IF Cardinality(LimHas(LimSwept)) > 1 THEN gone \intersect LimNewest(LimSwept) ELSE {})
         /\ UNCHANGED limClock
  BY DEF LimAllow
<1> DEFINE room == LimWithout(T, gone)
           b == IF s \in LimHas(room) THEN room[s] ELSE [tokens |-> limit, last |-> limClock]
           tokens == LimFilled(b, limit)
           left == IF tokens >= 1 THEN tokens - 1 ELSE tokens
           given == [o \in LimSources |-> IF o \in gone THEN [n |-> 0, from |-> limClock, now |-> 0]
                                                        ELSE limGiven[o]]
<1>1. /\ T \in [LimSources -> LimBucket \union {LimNone}]
      /\ IsFiniteSet(LimHas(T)) /\ Cardinality(LimHas(T)) \in Nat
      /\ Cardinality(LimHas(T)) <= LimMaxEntries
      /\ \A o \in LimSources :
                 \/ T[o] = limTable[o]
                 \/ T[o] = LimNone /\ limTable[o] # LimNone /\ limTable[o].last < limClock
  BY LimSweptTable
<1>2. /\ gone \subseteq LimHas(T) /\ s \notin gone
      /\ Cardinality(LimHas(T)) > 1 => gone \intersect LimNewest(T) = {}
      /\ s \in LimHas(T) \/ Cardinality(LimHas(T)) < LimMaxEntries \/ gone # {}
  <2>1. CASE s \in LimHas(T) \/ Cardinality(LimHas(T)) < LimMaxEntries
    BY <2>1
  <2>2. CASE ~(s \in LimHas(T) \/ Cardinality(LimHas(T)) < LimMaxEntries)
    <3>1. Cardinality(LimHas(T)) # 0
      BY <1>1, <2>2
    <3>2. LimHas(T) # {}
      BY <3>1, FS_EmptySet
    <3>3. gone \in LimEvictions(T)
      BY <2>2
    <3> HIDE DEF T
    <3> QED BY <1>1, <2>2, <3>2, <3>3, LimEvictionsGone
  <2> QED BY <2>1, <2>2
<1> HIDE DEF T, Gones
<1>3. room \in [LimSources -> LimBucket \union {LimNone}] /\ LimHas(room) = LimHas(T) \ gone
  BY <1>1 DEF LimWithout, LimHas
<1>4. limClock \in Nat /\ limClock <= LimHorizon
  <2>1. limClock \in 0..LimHorizon
    BY DEF LimInv, LimTablesInv
  <2> QED BY <2>1
<1>5. limit \in Nat \ {0} /\ limit <= LimMost /\ LimMost \in Nat
  OBVIOUS
<1>6. /\ b \in LimBucket /\ b.tokens <= LimMost
      /\ s \in LimHas(T) => b = limTable[s] /\ limTable[s] # LimNone
      /\ s \notin LimHas(T) => b = [tokens |-> limit, last |-> limClock]
  <2>1. CASE s \in LimHas(T)
    <3>1. s \in LimHas(room) /\ room[s] = T[s] /\ T[s] # LimNone
      BY <1>2, <1>3, <2>1 DEF LimWithout, LimHas
    <3>2. T[s] = limTable[s]
      BY <1>1, <3>1
    <3>3. b = limTable[s] /\ limTable[s] # LimNone /\ b \in LimBucket
      BY <1>3, <3>1, <3>2
    <3> QED BY <2>1, <3>3 DEF LimInv, LimGrantsInv
  <2>2. CASE s \notin LimHas(T)
    <3>1. b = [tokens |-> limit, last |-> limClock]
      BY <1>3, <2>2
    <3> QED BY <2>2, <3>1, <1>4, <1>5 DEF LimBucket
  <2> QED BY <2>1, <2>2
<1> HIDE DEF b
<1>7. /\ tokens \in Nat /\ tokens <= LimMost
      /\ tokens <= b.tokens + LimMost * (limClock - b.last)
      /\ b.last = limClock => tokens <= b.tokens
  BY <1>6, LimFilledBounds
<1> HIDE DEF tokens
<1>8. left \in Nat /\ left <= tokens /\ (tokens >= 1 => left + 1 = tokens) /\ left <= LimMost
  BY <1>5, <1>7
<1>9. limTable' = [room EXCEPT ![s] = [tokens |-> left, last |-> limClock]]
  BY <1>0 DEF T, b, tokens
<1>10. limGiven' = IF tokens >= 1 THEN [given EXCEPT ![s].n = @ + 1, ![s].now = @ + 1] ELSE given
  BY <1>0 DEF T, b, tokens
<1>11. limClock' = limClock /\ limCollected' \in {limClock, limCollected} /\ limGiven[s].n < LimMaxGiven
  BY <1>0
<1>12. limUnfair' = {}
  BY <1>0, <1>2 DEF T, LimInv, LimTablesInv
<1> HIDE DEF left, given, room
<1>13. LimHas(limTable') = (LimHas(T) \ gone) \union {s}
  <2>1. [tokens |-> left, last |-> limClock] # LimNone
    BY <1>8 DEF LimNone
  <2> QED BY <1>3, <1>9, <2>1 DEF LimHas
<1>14. IsFiniteSet(LimHas(limTable')) /\ Cardinality(LimHas(limTable')) <= LimMaxEntries
  <2> DEFINE R == LimHas(T) \ gone
  <2>1. IsFiniteSet(R) /\ Cardinality(R) <= Cardinality(LimHas(T)) /\ Cardinality(R) \in Nat
    BY <1>1, FS_Subset, FS_CardinalityType
  <2>2. /\ IsFiniteSet(R \union {s})
        /\ Cardinality(R \union {s}) = IF s \in R THEN Cardinality(R) ELSE Cardinality(R) + 1
    <3> HIDE DEF R
    <3> QED BY <2>1, SizeOf
  <2>3. s \in R \/ Cardinality(R) < LimMaxEntries
    <3>1. CASE gone # {}
      <4>1. R # LimHas(T) /\ R \subseteq LimHas(T)
        BY <1>2, <3>1
      <4>2. Cardinality(R) # Cardinality(LimHas(T))
        <5> HIDE DEF R
        <5> QED BY <1>1, <4>1, FS_Subset
      <4> QED BY <1>1, <2>1, <4>2
    <3>2. CASE s \in LimHas(T)
      BY <1>2, <3>2
    <3>3. CASE Cardinality(LimHas(T)) < LimMaxEntries
      BY <1>1, <2>1, <3>3
    <3> QED BY <1>2, <3>1, <3>2, <3>3
  <2> HIDE DEF R
  <2> QED BY <1>1, <1>13, <2>1, <2>2, <2>3 DEF R
<1>15. limGiven \in [LimSources -> [n : 0..(LimMaxGiven + 1), from : 0..limClock, now : Nat]]
  BY DEF LimInv, LimTablesInv
<1>16. given \in [LimSources -> [n : 0..(LimMaxGiven + 1), from : 0..limClock, now : Nat]]
  BY <1>4, <1>15 DEF given
<1>17. given[s] = limGiven[s]
  BY <1>2 DEF given
<1>18. limGiven' \in [LimSources -> [n : 0..(LimMaxGiven + 1), from : 0..limClock, now : Nat]]
  <2>1. CASE tokens >= 1
    <3>1. limGiven' = [given EXCEPT ![s] = [n |-> given[s].n + 1, from |-> given[s].from, now |-> given[s].now + 1]]
      BY <1>10, <1>16, <2>1
    <3>2. given[s].n + 1 \in 0..(LimMaxGiven + 1)
      BY <1>11, <1>16, <1>17
    <3> QED BY <1>16, <3>1, <3>2
  <2> QED BY <1>10, <1>16, <2>1
<1>19. LimTablesInv'
  <2>1. limTable' \in [LimSources -> LimBucket' \union {LimNone}]
    <3>1. [tokens |-> left, last |-> limClock] \in LimBucket
      BY <1>4, <1>8 DEF LimBucket
    <3>2. LimBucket' = LimBucket
      BY <1>11 DEF LimBucket
    <3> QED BY <1>3, <1>9, <3>1, <3>2
  <2>2. LimHas(limTable)' = LimHas(limTable')
    BY DEF LimHas
  <2>3. limCollected' \in 0..limClock'
    BY <1>4, <1>11 DEF LimInv, LimTablesInv
  <2> QED BY <1>4, <1>11, <1>12, <1>14, <1>18, <2>1, <2>2, <2>3 DEF LimTablesInv, LimIsBounded
<1>20. ASSUME NEW o \in LimSources
       PROVE  /\ limTable'[o] # LimNone =>
                    /\ limTable'[o].tokens <= LimMost
                    /\ limGiven'[o].n + limTable'[o].tokens
                          <= LimMost * (1 + limTable'[o].last - limGiven'[o].from)
                    /\ limGiven'[o].from <= limTable'[o].last
                    /\ limGiven'[o].now
                          + (IF limTable'[o].last = limClock THEN limTable'[o].tokens ELSE 0) <= LimMost
                    /\ limTable'[o].last < limClock => limGiven'[o].now = 0
              /\ limTable'[o] = LimNone =>
                    /\ limGiven'[o].n + LimMost <= LimMost * (1 + limClock - limGiven'[o].from)
                    /\ limGiven'[o].now = 0
  <2>0. /\ limGiven[o].n \in Nat /\ limGiven[o].from \in Nat /\ limGiven[o].now \in Nat
        /\ limGiven[o].from <= limClock
    BY <1>4, <1>15
  <2>1. CASE o = s
    <3>1. limTable'[s] = [tokens |-> left, last |-> limClock]
      BY <1>3, <1>9
    <3>2. limTable'[s] # LimNone
      BY <1>8, <3>1 DEF LimNone
    <3>3. /\ limGiven'[s].from = limGiven[s].from
          /\ limGiven'[s].n + left <= limGiven[s].n + tokens
          /\ limGiven'[s].now + left <= limGiven[s].now + tokens
      <4>1. CASE tokens >= 1
        <5>1. limGiven' = [given EXCEPT ![s] = [n |-> given[s].n + 1, from |-> given[s].from, now |-> given[s].now + 1]]
          BY <1>10, <1>16, <4>1
        <5> QED BY <1>7, <1>8, <1>16, <1>17, <4>1, <5>1, <2>0, <2>1
      <4>2. CASE ~(tokens >= 1)
        BY <1>7, <1>8, <1>10, <1>17, <4>2, <2>0, <2>1
      <4> QED BY <4>1, <4>2
    <3>a. limGiven'[s].n \in Nat /\ limGiven'[s].now \in Nat
      BY <1>18
    <3>4. /\ limGiven[s].n + tokens <= LimMost * (1 + limClock - limGiven[s].from)
          /\ limGiven[s].now + tokens <= LimMost
      <4>1. CASE s \in LimHas(T)
        <5>1. b = limTable[s] /\ limTable[s] # LimNone
          BY <1>6, <4>1
        <5>2. /\ limGiven[s].n + b.tokens <= LimMost * (1 + b.last - limGiven[s].from)
              /\ limGiven[s].from <= b.last
              /\ limGiven[s].now + (IF b.last = limClock THEN b.tokens ELSE 0) <= LimMost
              /\ b.last < limClock => limGiven[s].now = 0
          BY <5>1 DEF LimInv, LimGrantsInv
        <5>3. b.tokens \in Nat /\ b.last \in Nat /\ b.last <= limClock
          BY <1>4, <1>6 DEF LimBucket
        <5> DEFINE x == 1 + b.last - limGiven[s].from
                   y == limClock - b.last
        <5>4. x \in Nat /\ y \in Nat /\ 1 + limClock - limGiven[s].from = x + y
          BY <1>4, <2>0, <2>1, <5>2, <5>3
        <5>5. LimMost * (1 + limClock - limGiven[s].from) = LimMost * x + LimMost * y
          <6> HIDE DEF x, y
          <6> QED BY <1>5, <5>4
        <5>6. tokens <= b.tokens + LimMost * y
          BY <1>7
        <5>7. LimMost * x \in Nat /\ LimMost * y \in Nat
          <6> HIDE DEF x, y
          <6> QED BY <1>5, <5>4
        <5>8. limGiven[s].n + b.tokens <= LimMost * x
          BY <5>2
        <5>9. limGiven[s].n + tokens <= LimMost * (1 + limClock - limGiven[s].from)
          <6> HIDE DEF x, y
          <6> QED BY <1>7, <2>0, <2>1, <5>3, <5>5, <5>6, <5>7, <5>8
        <5>10. limGiven[s].now + tokens <= LimMost
          <6>1. limGiven[s].now \in Nat /\ tokens \in Nat /\ b.tokens \in Nat /\ LimMost \in Nat
            BY <1>5, <1>7, <2>0, <2>1, <5>3
          <6>2. CASE b.last = limClock
            <7>1. tokens <= b.tokens /\ limGiven[s].now + b.tokens <= LimMost
              BY <1>7, <5>2, <6>2
            <7> QED BY <6>1, <7>1
          <6>3. CASE b.last # limClock
            <7>1. limGiven[s].now = 0
              BY <1>4, <5>2, <5>3, <6>3
            <7> QED BY <1>7, <6>1, <7>1
          <6> QED BY <6>2, <6>3
        <5> QED BY <5>9, <5>10
      <4>2. CASE s \notin LimHas(T)
        <5>1. T[s] = LimNone
          BY <4>2 DEF LimHas
        <5>2. \/ limTable[s] = LimNone
              \/ limTable[s] # LimNone /\ limTable[s].last < limClock
          BY <1>1, <5>1
        <5>3. /\ limGiven[s].n + LimMost <= LimMost * (1 + limClock - limGiven[s].from)
              /\ limGiven[s].now = 0
          <6>1. CASE limTable[s] = LimNone
            BY <6>1 DEF LimInv, LimGrantsInv
          <6>2. CASE limTable[s] # LimNone /\ limTable[s].last < limClock
            <7> DEFINE l == limTable[s].last
                       f == limGiven[s].from
            <7>1. limTable[s] \in LimBucket
              BY <6>2 DEF LimInv, LimTablesInv
            <7>2. limTable[s].tokens \in Nat /\ l \in Nat
              BY <7>1 DEF LimBucket
            <7>3. /\ limGiven[s].n + limTable[s].tokens <= LimMost * (1 + l - f)
                  /\ f <= l /\ limGiven[s].now = 0
              BY <6>2 DEF LimInv, LimGrantsInv
            <7>4. LimMost * (1 + l - f) + LimMost <= LimMost * (1 + limClock - f)
              <8> HIDE DEF l, f
              <8>1. f \in Nat /\ l + 1 <= limClock
                BY <1>4, <2>0, <2>1, <6>2, <7>2 DEF f, l
              <8>2. 2 + l - f \in Nat /\ 1 + limClock - f \in Nat /\ 2 + l - f <= 1 + limClock - f
                BY <1>4, <7>2, <7>3, <8>1
              <8>3. LimMost * (2 + l - f) <= LimMost * (1 + limClock - f)
                BY <1>5, <8>2
              <8>4. LimMost * (1 + l - f) + LimMost = LimMost * (2 + l - f)
                BY <1>5, <7>2, <8>1
              <8> QED BY <8>3, <8>4
            <7>5. LimMost * (1 + l - f) \in Int /\ LimMost * (1 + limClock - f) \in Int
              BY <1>4, <1>5, <2>0, <2>1, <7>2
            <7> HIDE DEF l
            <7> QED BY <1>5, <2>0, <2>1, <7>2, <7>3, <7>4, <7>5
          <6> QED BY <5>2, <6>1, <6>2
        <5>4. LimMost * (1 + limClock - limGiven[s].from) \in Int
          BY <1>4, <1>5, <2>0, <2>1
        <5> QED BY <1>5, <1>7, <2>0, <2>1, <5>3, <5>4
      <4> QED BY <4>1, <4>2
    <3>5. LimMost * (1 + limClock - limGiven[s].from) \in Int
      BY <1>4, <1>5, <2>0, <2>1
    <3>6. limGiven'[s].n + left <= LimMost * (1 + limClock - limGiven[s].from)
      BY <1>7, <1>8, <2>0, <2>1, <3>3, <3>4, <3>5, <3>a
    <3>7. limGiven'[s].now + left <= LimMost
      BY <1>5, <1>7, <1>8, <2>0, <2>1, <3>3, <3>4, <3>a
    <3> QED BY <1>4, <1>8, <2>0, <2>1, <3>1, <3>2, <3>3, <3>6, <3>7
  <2>2. CASE o # s /\ o \in gone
    <3>1. limTable'[o] = LimNone
      BY <1>3, <1>9, <2>2 DEF room, LimWithout
    <3>2. limGiven'[o] = [n |-> 0, from |-> limClock, now |-> 0]
      BY <1>10, <1>16, <2>2 DEF given
    <3>3. LimMost * (1 + limClock - limClock) = LimMost
      BY <1>4, <1>5
    <3> QED BY <1>5, <3>1, <3>2, <3>3
  <2>3. CASE o # s /\ o \notin gone
    <3>1. limTable'[o] = T[o]
      BY <1>3, <1>9, <2>3 DEF room, LimWithout
    <3>2. limGiven'[o] = limGiven[o]
      BY <1>10, <1>16, <2>3 DEF given
    <3>3. CASE T[o] = limTable[o]
      BY <3>1, <3>2, <3>3 DEF LimInv, LimGrantsInv
    <3>4. CASE T[o] = LimNone /\ limTable[o] # LimNone /\ limTable[o].last < limClock
      <4> DEFINE l == limTable[o].last
                 f == limGiven[o].from
      <4>1. limTable[o] \in LimBucket
        BY <3>4 DEF LimInv, LimTablesInv
      <4>2. limTable[o].tokens \in Nat /\ l \in Nat
        BY <4>1 DEF LimBucket
      <4>3. /\ limGiven[o].n + limTable[o].tokens <= LimMost * (1 + l - f)
            /\ f <= l /\ limGiven[o].now = 0
        BY <3>4 DEF LimInv, LimGrantsInv
      <4>4. LimMost * (1 + l - f) + LimMost <= LimMost * (1 + limClock - f)
        <5> HIDE DEF l, f
        <5>1. f \in Nat /\ l + 1 <= limClock
          BY <1>4, <2>0, <3>4, <4>2 DEF f, l
        <5>2. 2 + l - f \in Nat /\ 1 + limClock - f \in Nat /\ 2 + l - f <= 1 + limClock - f
          BY <1>4, <4>2, <4>3, <5>1
        <5>3. LimMost * (2 + l - f) <= LimMost * (1 + limClock - f)
          BY <1>5, <5>2
        <5>4. LimMost * (1 + l - f) + LimMost = LimMost * (2 + l - f)
          BY <1>5, <4>2, <5>1
        <5> QED BY <5>3, <5>4
      <4>5. LimMost * (1 + l - f) \in Int /\ LimMost * (1 + limClock - f) \in Int
        BY <1>4, <1>5, <2>0, <4>2
      <4>6. limGiven[o].n + LimMost <= LimMost * (1 + limClock - f)
        <5> HIDE DEF l
        <5> QED BY <1>5, <2>0, <4>2, <4>3, <4>4, <4>5
      <4> QED BY <3>1, <3>2, <3>4, <4>3, <4>6
    <3> QED BY <1>1, <3>3, <3>4
  <2> QED BY <2>1, <2>2, <2>3
<1>21. LimGrantsInv'
  BY <1>11, <1>20 DEF LimGrantsInv
<1> QED BY <1>19, <1>21 DEF LimInv

\* A second passes: nobody was given anything in the new one.
LEMMA LimTimePassesInv == ASSUME LimInv, LimTimePasses PROVE LimInv'
<1> USE LimConstants
<1>1. limClock \in 0..LimHorizon /\ limClock < LimHorizon /\ limClock' = limClock + 1
  BY DEF LimInv, LimTablesInv, LimTimePasses
<1>2. limGiven \in [LimSources -> [n : 0..(LimMaxGiven + 1), from : 0..limClock, now : Nat]]
  BY DEF LimInv, LimTablesInv
<1>3. /\ limGiven' = [s \in LimSources |-> [limGiven[s] EXCEPT !.now = 0]]
      /\ limTable' = limTable /\ limCollected' = limCollected /\ limUnfair' = limUnfair
  BY DEF LimTimePasses
<1>4. limGiven' \in [LimSources -> [n : 0..(LimMaxGiven + 1), from : 0..limClock', now : Nat]]
  BY <1>1, <1>2, <1>3
<1>5. LimTablesInv'
  <2>1. LimBucket \subseteq LimBucket'
    BY <1>1 DEF LimBucket
  <2>2. limTable' \in [LimSources -> LimBucket' \union {LimNone}]
    BY <1>3, <2>1 DEF LimInv, LimTablesInv
  <2>3. limCollected' \in 0..limClock'
    BY <1>1, <1>3 DEF LimInv, LimTablesInv
  <2>4. limClock' \in 0..LimHorizon
    BY <1>1
  <2> QED BY <1>3, <1>4, <2>2, <2>3, <2>4 DEF LimInv, LimTablesInv, LimIsBounded, LimHas
<1>6. LimGrantsInv'
  <2> SUFFICES ASSUME NEW s \in LimSources
               PROVE  LET b == limTable[s] IN
        /\ b # LimNone =>
              /\ b.tokens <= LimMost
              /\ limGiven[s].n + b.tokens <= LimMost * (1 + b.last - limGiven[s].from)
              /\ limGiven[s].from <= b.last
              /\ 0 + (IF b.last = limClock + 1 THEN b.tokens ELSE 0) <= LimMost
        /\ b = LimNone =>
              /\ limGiven[s].n + LimMost <= LimMost * (1 + (limClock + 1) - limGiven[s].from)
    BY <1>1, <1>2, <1>3 DEF LimGrantsInv
  <2>1. CASE limTable[s] # LimNone
    <3>1. limTable[s].tokens \in Nat
      BY <2>1 DEF LimInv, LimTablesInv, LimBucket
    <3> QED BY <2>1, <3>1 DEF LimInv, LimGrantsInv
  <2>2. CASE limTable[s] = LimNone
    <3> DEFINE x == 1 + limClock - limGiven[s].from
    <3>1. limGiven[s].n + LimMost <= LimMost * x
      BY <2>2 DEF LimInv, LimGrantsInv
    <3>2. x \in Int /\ 1 + (limClock + 1) - limGiven[s].from = x + 1 /\ limGiven[s].n \in Nat
      BY <1>1, <1>2
    <3>3. LimMost * (x + 1) = LimMost * x + LimMost /\ LimMost * x \in Int
      <4> HIDE DEF x
      <4> QED BY <3>2
    <3>4. limGiven[s].n + LimMost <= LimMost * (x + 1)
      <4> HIDE DEF x
      <4> QED BY <3>1, <3>2, <3>3
    <3> QED BY <2>2, <3>2, <3>4
  <2> QED BY <2>1, <2>2
<1> QED BY <1>5, <1>6 DEF LimInv

\* Every step of the limiter keeps its invariant.
LEMMA LimStepInv == ASSUME LimInv, [LimNext]_limVars PROVE LimInv'
<1>1. CASE UNCHANGED limVars
  BY <1>1 DEF limVars, LimInv, LimTablesInv, LimGrantsInv, LimBucket, LimHas, LimIsBounded
<1>2. CASE LimNext
  BY <1>2, LimAllowInv, LimTimePassesInv DEF LimNext
<1> QED BY <1>1, <1>2

\* And the invariant says what the run checks.
LEMMA LimShows == LimInv => LimTypeOK /\ LimitsHold
<1> SUFFICES ASSUME LimInv PROVE LimTypeOK /\ LimitsHold
  OBVIOUS
<1> USE LimConstants
<1>1. limClock \in Nat /\ limGiven \in [LimSources -> [n : 0..(LimMaxGiven + 1), from : 0..limClock, now : Nat]]
  BY DEF LimInv, LimTablesInv
<1>2. LimTypeOK
  <2>1. \A s \in LimHas(limTable) : limTable[s] \in LimBucket /\ limTable[s].tokens <= LimMost
    BY DEF LimHas, LimInv, LimTablesInv, LimGrantsInv
  <2> QED BY <1>1, <2>1 DEF LimTypeOK, LimInv, LimTablesInv, LimBucket, LimMost
<1>3. ASSUME NEW s \in LimSources
      PROVE  /\ limGiven[s].n <= LimMost * (1 + limClock - limGiven[s].from)
             /\ limGiven[s].now <= LimMost
  <2>0. limGiven[s].n \in Nat /\ limGiven[s].from \in Nat /\ limGiven[s].now \in Nat
    BY <1>1
  <2>1. CASE limTable[s] # LimNone
    <3> DEFINE l == limTable[s].last
               f == limGiven[s].from
    <3>1. limTable[s] \in LimBucket
      BY <2>1 DEF LimInv, LimTablesInv
    <3>2. limTable[s].tokens \in Nat /\ l \in Nat /\ l <= limClock
      BY <1>1, <3>1 DEF LimBucket
    <3>3. /\ limGiven[s].n + limTable[s].tokens <= LimMost * (1 + l - f)
          /\ f <= l /\ limGiven[s].now + (IF l = limClock THEN limTable[s].tokens ELSE 0) <= LimMost
      BY <2>1 DEF LimInv, LimGrantsInv
    <3> HIDE DEF l
    <3>4. 1 + l - f \in Nat /\ 1 + limClock - f \in Nat /\ 1 + l - f <= 1 + limClock - f
      BY <1>1, <2>0, <3>2, <3>3
    <3>5. LimMost * (1 + l - f) <= LimMost * (1 + limClock - f)
      <4> HIDE DEF f
      <4> QED BY <3>4
    <3>6. LimMost * (1 + l - f) \in Nat /\ LimMost * (1 + limClock - f) \in Nat
      <4> HIDE DEF f
      <4> QED BY <3>4
    <3>7. limGiven[s].n <= LimMost * (1 + limClock - f)
      <4> HIDE DEF f
      <4> QED BY <2>0, <3>2, <3>3, <3>5, <3>6
    <3> QED BY <2>0, <3>2, <3>3, <3>7
  <2>2. CASE limTable[s] = LimNone
    <3>1. /\ limGiven[s].n + LimMost <= LimMost * (1 + limClock - limGiven[s].from)
          /\ limGiven[s].now = 0
      BY <2>2 DEF LimInv, LimGrantsInv
    <3>2. LimMost * (1 + limClock - limGiven[s].from) \in Int
      BY <1>1, <2>0
    <3> QED BY <2>0, <3>1, <3>2
  <2> QED BY <2>1, <2>2
<1>4. LimAllowanceIsKept
  BY <1>3 DEF LimAllowanceIsKept, LimMost
<1> QED BY <1>2, <1>4 DEF LimitsHold, LimInv, LimTablesInv, LimBusyStay

-----------------------------------------------------------------------------
(* The cron manager.                                                       *)

\* The shapes of the manager's state.
CronCountSet == [gens : Nat, edits : Nat, runs : Nat]
CronJobSet == [id : Nat, task : CronTasks, copy : CronTaskSet, gen : Nat,
               at : {"new", "works", "writes", "ends"}]

CronShapes ==
    /\ cronCfg \in [CronTasks -> CronTaskSet] /\ cronNext \in [CronTasks -> Int]
    /\ cronDue \in BOOLEAN
    /\ cronFailed \subseteq CronTasks /\ cronRunning \subseteq CronTasks
    /\ cronLate \subseteq CronTasks
    /\ cronJobs \subseteq CronJobSet /\ cronCount \in CronCountSet
    /\ cronScheduler \in [gen : Nat, cfg : [CronTasks -> CronTaskSet]]
    /\ cronReload \in [at : {"idle", "waits", "started", "kept"}, old : Nat,
                       cfg : [CronTasks -> CronTaskSet], next : [CronTasks -> Int]]

\* An execution has its number to itself, its task while it is past its claim,
\* and "running" is exactly those tasks.
CronJobsInv ==
    /\ \A j \in cronJobs : j.id < cronCount.runs
    /\ \A j, o \in cronJobs : j.id = o.id => j = o
    /\ \A j, o \in cronJobs : j # o /\ j.task = o.task => "new" \in {j.at, o.at}
    /\ cronRunning = {j.task : j \in {k \in cronJobs : k.at # "new"}}
    /\ cronScheduler.gen \in {0, cronCount.gens}

\* While a reload is under way and no other change waits, what it read is what is
\* saved, and every next time that is shown is one it read or the one to be.
CronNextInv ==
    /\ \A t \in CronTasks : ~cronCfg[t].there => cronNext[t] = 0
    /\ cronReload.at # "idle" /\ ~cronDue =>
          /\ cronReload.cfg = cronCfg
          /\ \A t \in CronTasks \ cronLate :
                cronNext[t] \in {cronReload.next[t], CronWant(cronCfg)[t]}
    /\ cronReload.at = "idle" /\ ~cronDue =>
          \A t \in CronTasks \ cronLate : cronNext[t] = CronWant(cronCfg)[t]
    /\ cronReload.at \in {"idle", "kept"} /\ ~cronDue =>
          \A t \in cronFailed \ cronLate : cronCfg[t].there

\* The inductive invariant of the manager.
CronInv == CronShapes /\ CronJobsInv /\ CronNextInv

\* What a task of the configuration is.
LEMMA CronTasksOf ==
    /\ CronNone \in CronTaskSet
    /\ \A task \in CronTaskSet : task.there \in BOOLEAN /\ task.on \in BOOLEAN /\ task.spec \in Nat
    /\ \A task \in CronTaskSet : ~task.there => ~task.on
<1>1. CronNone \in CronTaskSet /\ CronNone = [there |-> FALSE, on |-> FALSE, spec |-> 1]
  BY DEF CronTaskSet, CronNone
<1>2. ASSUME NEW task \in CronTaskSet
      PROVE  /\ task.there \in BOOLEAN /\ task.on \in BOOLEAN /\ task.spec \in Nat
             /\ ~task.there => ~task.on
  <2>1. CASE task = CronNone
    BY <1>1, <2>1
  <2>2. CASE task \in [there : {TRUE}, on : BOOLEAN, spec : CronSpecs]
    BY <2>2, CronAssumption
  <2> QED BY <2>1, <2>2 DEF CronTaskSet
<1> QED BY <1>1, <1>2

\* The manager begins with nothing to run.
LEMMA CronInitInv == CronInit => CronInv
<1> SUFFICES ASSUME CronInit PROVE CronInv
  OBVIOUS
<1>1. CronShapes
  <2>1. [t \in CronTasks |-> CronNone] \in [CronTasks -> CronTaskSet]
    BY CronTasksOf
  <2>2. cronCfg \in [CronTasks -> CronTaskSet]
    BY CronAssumption DEF CronInit, CronTaskSet
  <2>3. cronNext \in [CronTasks -> Int]
    BY DEF CronInit
  <2> QED BY <2>1, <2>2, <2>3 DEF CronInit, CronShapes, CronStopped, CronNoReload, CronCountSet
<1>2. CronJobsInv
  BY DEF CronInit, CronJobsInv, CronStopped
<1>3. CronNextInv
  BY DEF CronInit, CronNextInv, CronNoReload
<1> QED BY <1>1, <1>2, <1>3 DEF CronInv

\* What the configuration wants of each task is a time.
LEMMA CronWantType ==
    ASSUME NEW cfg \in [CronTasks -> CronTaskSet]
    PROVE  CronWant(cfg) \in [CronTasks -> Nat]
<1> SUFFICES ASSUME NEW t \in CronTasks
             PROVE  (IF t \in CronScheduled(cfg) THEN cfg[t].spec ELSE 0) \in Nat
  BY DEF CronWant
<1> QED BY CronTasksOf

\* A save of a task: the configuration changes, and a reload is due.
LEMMA CronEditInv ==
    ASSUME CronInv, NEW t \in CronTasks, NEW task \in CronTaskSet, CronEdit(t, task)
    PROVE  CronInv'
<1>1. CronShapes'
  BY DEF CronInv, CronShapes, CronEdit, CronCountSet
<1>2. CronJobsInv'
  BY DEF CronInv, CronShapes, CronJobsInv, CronEdit, CronCountSet
<1>3. CronNextInv'
  <2>1. cronDue' = TRUE
    BY DEF CronEdit
  <2>2. \A o \in CronTasks : ~cronCfg'[o].there => cronNext'[o] = 0
    BY DEF CronInv, CronShapes, CronNextInv, CronEdit
  <2> QED BY <2>1, <2>2 DEF CronNextInv
<1> QED BY <1>1, <1>2, <1>3 DEF CronInv

\* A reload, begun, done or given up, and the write of the next run.
LEMMA CronReloadInv ==
    ASSUME CronInv,
           \/ CronReloadBegins \/ CronReloadStarts(TRUE) \/ CronReloadStarts(FALSE)
           \/ CronReloadKeeps \/ CronPersists
    PROVE  CronInv'
<1>0. [t \in CronTasks |-> CronNone] \in [CronTasks -> CronTaskSet]
  BY CronTasksOf
<1>1. CASE CronReloadBegins
  <2>1. CronShapes'
    BY <1>0, <1>1 DEF CronInv, CronShapes, CronReloadBegins, CronStopped
  <2>2. CronJobsInv'
    BY <1>1 DEF CronInv, CronShapes, CronJobsInv, CronReloadBegins, CronStopped
  <2>3. CronNextInv'
    BY <1>1 DEF CronInv, CronShapes, CronNextInv, CronReloadBegins
  <2> QED BY <2>1, <2>2, <2>3 DEF CronInv
<1>2. ASSUME NEW timeout \in BOOLEAN, CronReloadStarts(timeout)
      PROVE  CronInv'
  <2>1. CronShapes'
    BY <1>2 DEF CronInv, CronShapes, CronReloadStarts, CronCountSet
  <2>2. CronJobsInv'
    BY <1>2 DEF CronInv, CronShapes, CronJobsInv, CronReloadStarts, CronCountSet
  <2>3. CronNextInv'
    BY <1>2 DEF CronInv, CronShapes, CronNextInv, CronReloadStarts, CronWant, CronScheduled
  <2> QED BY <2>1, <2>2, <2>3 DEF CronInv
<1>3. CASE CronReloadKeeps
  <2>1. CronShapes'
    BY <1>3 DEF CronInv, CronShapes, CronReloadKeeps
  <2>2. CronJobsInv'
    BY <1>3 DEF CronInv, CronShapes, CronJobsInv, CronReloadKeeps
  <2>3. CronNextInv'
    BY <1>3 DEF CronInv, CronShapes, CronNextInv, CronReloadKeeps, CronWant, CronScheduled
  <2> QED BY <2>1, <2>2, <2>3 DEF CronInv
<1>4. CASE CronPersists
  <2>1. CronWant(cronReload.cfg) \in [CronTasks -> Nat]
    BY CronWantType DEF CronInv, CronShapes
  <2>2. cronNext' \in [CronTasks -> Int]
    BY <1>4, <2>1 DEF CronInv, CronShapes, CronPersists
  <2>3. CronShapes'
    BY <1>0, <1>4, <2>2 DEF CronInv, CronShapes, CronPersists, CronNoReload
  <2>4. CronJobsInv'
    BY <1>4 DEF CronInv, CronShapes, CronJobsInv, CronPersists
  <2>5. CronNextInv'
    <3>1. /\ cronReload' = CronNoReload /\ cronCfg' = cronCfg /\ cronDue' = cronDue
          /\ cronFailed' = cronFailed /\ cronLate' = cronLate /\ cronReload.at = "kept"
          /\ cronReload'.at = "idle"
      BY <1>4 DEF CronPersists, CronNoReload
    <3>2. \A t \in CronTasks : ~cronCfg[t].there => cronNext'[t] = 0
      BY <1>4 DEF CronInv, CronShapes, CronNextInv, CronPersists
    <3>3. ~cronDue => \A t \in CronTasks \ cronLate : cronNext'[t] = CronWant(cronCfg)[t]
      <4> SUFFICES ASSUME ~cronDue, NEW t \in CronTasks \ cronLate
                   PROVE  cronNext'[t] = CronWant(cronCfg)[t]
        OBVIOUS
      <4>1. /\ cronReload.cfg = cronCfg
            /\ cronNext[t] \in {cronReload.next[t], CronWant(cronCfg)[t]}
        BY <3>1 DEF CronInv, CronNextInv
      <4>2. CASE cronReload.next = CronWant(cronReload.cfg)
        BY <1>4, <4>1, <4>2 DEF CronPersists
      <4>3. CASE cronReload.next # CronWant(cronReload.cfg) /\ cronCfg[t].there
        BY <1>4, <4>1, <4>3 DEF CronPersists
      <4>4. CASE cronReload.next # CronWant(cronReload.cfg) /\ ~cronCfg[t].there
        <5>1. ~cronCfg[t].on
          BY <4>4, CronTasksOf DEF CronInv, CronShapes
        <5>2. CronWant(cronCfg)[t] = 0
          BY <5>1 DEF CronWant, CronScheduled
        <5> QED BY <3>2, <4>4, <5>2
      <4> QED BY <4>2, <4>3, <4>4
    <3>4. ~cronDue => \A t \in cronFailed \ cronLate : cronCfg[t].there
      BY <3>1 DEF CronInv, CronNextInv
    <3>5. CronWant(cronCfg)' = CronWant(cronCfg)
      BY <3>1 DEF CronWant, CronScheduled
    <3> QED BY <3>1, <3>2, <3>3, <3>4, <3>5 DEF CronNextInv
  <2> QED BY <2>3, <2>4, <2>5 DEF CronInv
<1> QED BY <1>1, <1>2, <1>3, <1>4

\* An execution that begins has a number of its own.
LEMMA CronBeginsInv ==
    ASSUME CronInv, NEW t \in CronTasks, NEW task \in CronTaskSet, NEW gen \in Nat,
           CronBegins(t, task, gen)
    PROVE  CronInv'
<1> DEFINE new == [id |-> cronCount.runs, task |-> t, copy |-> task, gen |-> gen, at |-> "new"]
<1>1. /\ cronJobs' = cronJobs \union {new} /\ cronCount' = [cronCount EXCEPT !.runs = @ + 1]
      /\ UNCHANGED <<cronCfg, cronNext, cronDue, cronFailed, cronRunning, cronScheduler, cronReload,
                     cronLate>>
  BY DEF CronBegins
<1>2. new \in CronJobSet
  BY DEF CronInv, CronShapes, CronCountSet, CronJobSet
<1>3. /\ \A j \in cronJobs : j.id \in Nat /\ j.id < cronCount.runs /\ j.id # new.id
      /\ new.at = "new" /\ new.id = cronCount.runs
  BY DEF CronInv, CronShapes, CronCountSet, CronJobSet, CronJobsInv
<1> HIDE DEF new
<1>4. CronShapes'
  BY <1>1, <1>2 DEF CronInv, CronShapes, CronCountSet
<1>5. CronJobsInv'
  <2>1. /\ cronCount'.runs = cronCount.runs + 1 /\ cronCount'.gens = cronCount.gens
        /\ cronCount.runs \in Nat
    BY <1>1 DEF CronInv, CronShapes, CronCountSet
  <2>2. \A j \in cronJobs' : j.id < cronCount'.runs
    BY <1>1, <1>3, <2>1
  <2>3. \A j, o \in cronJobs' : j.id = o.id => j = o
    BY <1>1, <1>3 DEF CronInv, CronJobsInv
  <2>4. \A j, o \in cronJobs' : j # o /\ j.task = o.task => "new" \in {j.at, o.at}
    BY <1>1, <1>3 DEF CronInv, CronJobsInv
  <2>5. {k \in cronJobs' : k.at # "new"} = {k \in cronJobs : k.at # "new"}
    BY <1>1, <1>3
  <2> QED BY <1>1, <2>1, <2>2, <2>3, <2>4, <2>5 DEF CronInv, CronJobsInv
<1>6. CronNextInv'
  BY <1>1 DEF CronInv, CronNextInv, CronWant, CronScheduled
<1> QED BY <1>4, <1>5, <1>6 DEF CronInv

\* An execution claims its task, marks it, runs it and ends.
LEMMA CronExecutionInv ==
    ASSUME CronInv, NEW j \in cronJobs,
           CronClaims(j) \/ CronWrites(j) \/ CronEnds(j)
              \/ \E failed \in BOOLEAN : CronMarks(j, failed)
    PROVE  CronInv'
<1>0. /\ j \in CronJobSet /\ j.task \in CronTasks /\ j.copy \in CronTaskSet
      /\ \A k \in cronJobs : k \in CronJobSet
      /\ j.at \in {"new", "works", "writes", "ends"} /\ cronNext \in [CronTasks -> Int]
  BY DEF CronInv, CronShapes, CronJobSet
<1>1. ASSUME NEW at \in {"works", "writes", "ends"}
      PROVE  LET m == [j EXCEPT !.at = at] IN
             /\ m \in CronJobSet /\ m.at = at /\ m.task = j.task /\ m.id = j.id
  BY <1>0 DEF CronJobSet
<1>2. CASE CronClaims(j) /\ ~CronFree(j)
  <2>1. /\ cronJobs' = cronJobs \ {j} /\ j.at = "new"
        /\ UNCHANGED <<cronCfg, cronNext, cronDue, cronFailed, cronRunning, cronScheduler, cronReload,
                       cronCount, cronLate>>
    BY <1>2 DEF CronClaims
  <2>2. CronShapes'
    BY <2>1 DEF CronInv, CronShapes
  <2>3. CronJobsInv'
    BY <2>1 DEF CronInv, CronJobsInv
  <2>4. CronNextInv'
    BY <2>1 DEF CronInv, CronNextInv, CronWant, CronScheduled
  <2> QED BY <2>2, <2>3, <2>4 DEF CronInv
<1>3. CASE CronClaims(j) /\ CronFree(j)
  <2> DEFINE m == [j EXCEPT !.at = "works"]
  <2>1. /\ cronJobs' = (cronJobs \ {j}) \union {m} /\ j.at = "new"
        /\ cronRunning' = cronRunning \union {j.task} /\ j.task \notin cronRunning
        /\ UNCHANGED <<cronCfg, cronNext, cronDue, cronFailed, cronScheduler, cronReload,
                       cronCount, cronLate>>
    BY <1>3 DEF CronClaims, CronFree, CronStep
  <2>2. m \in CronJobSet /\ m.at = "works" /\ m.task = j.task /\ m.id = j.id
    BY <1>1
  <2> HIDE DEF m
  <2>3. CronShapes'
    BY <1>0, <2>1, <2>2 DEF CronInv, CronShapes
  <2>4. CronJobsInv'
    <3>1. \A k \in cronJobs : k.task = j.task => k.at = "new"
      BY <2>1 DEF CronInv, CronJobsInv
    <3>2. \A k, o \in cronJobs' : k # o /\ k.task = o.task => "new" \in {k.at, o.at}
      BY <2>1, <2>2, <3>1 DEF CronInv, CronJobsInv
    <3>3. \A k, o \in cronJobs' : k.id = o.id => k = o
      BY <2>1, <2>2 DEF CronInv, CronJobsInv
    <3>4. \A k \in cronJobs' : k.id < cronCount.runs
      BY <2>1, <2>2 DEF CronInv, CronJobsInv
    <3>5. {k \in cronJobs' : k.at # "new"} = {k \in cronJobs : k.at # "new"} \union {m}
      BY <2>1, <2>2
    <3>6. cronRunning' = {k.task : k \in {k \in cronJobs' : k.at # "new"}}
      BY <2>1, <2>2, <3>5 DEF CronInv, CronJobsInv
    <3> QED BY <2>1, <3>2, <3>3, <3>4, <3>6 DEF CronInv, CronJobsInv
  <2>5. CronNextInv'
    BY <2>1 DEF CronInv, CronNextInv, CronWant, CronScheduled
  <2> QED BY <2>3, <2>4, <2>5 DEF CronInv
<1>4. ASSUME NEW at \in {"writes", "ends"}, j.at # "new", CronStep(j, at),
             UNCHANGED <<cronRunning, cronCount, cronScheduler>>
      PROVE  CronJobsInv' /\ cronJobs' \subseteq CronJobSet
  <2> DEFINE m == [j EXCEPT !.at = at]
  <2>1. cronJobs' = (cronJobs \ {j}) \union {m}
    BY <1>4 DEF CronStep
  <2>2. m \in CronJobSet /\ m.at = at /\ m.task = j.task /\ m.id = j.id
    BY <1>1
  <2> HIDE DEF m
  <2>3. \A k, o \in cronJobs' : k # o /\ k.task = o.task => "new" \in {k.at, o.at}
    BY <1>4, <2>1, <2>2 DEF CronInv, CronJobsInv
  <2>4. \A k, o \in cronJobs' : k.id = o.id => k = o
    BY <2>1, <2>2 DEF CronInv, CronJobsInv
  <2>5. \A k \in cronJobs' : k.id < cronCount.runs
    BY <2>1, <2>2 DEF CronInv, CronJobsInv
  <2>6. {k \in cronJobs' : k.at # "new"} = ({k \in cronJobs : k.at # "new"} \ {j}) \union {m}
    BY <1>4, <2>1, <2>2
  <2>7. j \in {k \in cronJobs : k.at # "new"}
    BY <1>4
  <2>8. cronRunning' = {k.task : k \in {k \in cronJobs' : k.at # "new"}}
    BY <1>4, <2>2, <2>6, <2>7 DEF CronInv, CronJobsInv
  <2> QED BY <1>0, <1>4, <2>1, <2>2, <2>3, <2>4, <2>5, <2>8 DEF CronInv, CronJobsInv
<1>5. ASSUME NEW failed \in BOOLEAN, CronMarks(j, failed)
      PROVE  CronInv'
  <2>1. /\ CronStep(j, "writes") /\ j.at = "works"
        /\ cronFailed' = IF failed THEN cronFailed \union {j.task} ELSE cronFailed \ {j.task}
        /\ cronLate' = IF cronCfg[j.task].there THEN cronLate ELSE cronLate \union {j.task}
        /\ UNCHANGED <<cronCfg, cronNext, cronDue, cronRunning, cronScheduler, cronReload, cronCount>>
    BY <1>5 DEF CronMarks
  <2>2. CronJobsInv' /\ cronJobs' \subseteq CronJobSet
    BY <1>4, <2>1
  <2>3. CronShapes'
    BY <1>0, <2>1, <2>2 DEF CronInv, CronShapes
  <2>4. CronNextInv'
    BY <1>0, <2>1 DEF CronInv, CronShapes, CronNextInv, CronWant, CronScheduled
  <2> QED BY <2>2, <2>3, <2>4 DEF CronInv
<1>6. CASE CronWrites(j)
  <2>1. /\ CronStep(j, "ends") /\ j.at = "writes"
        /\ cronNext' = IF cronCfg[j.task].there THEN [cronNext EXCEPT ![j.task] = CronNextOf(j.copy)]
                       ELSE cronNext
        /\ cronLate' = IF j.copy # cronCfg[j.task] \/ CronNextOf(j.copy) = -1
                       THEN cronLate \union {j.task} ELSE cronLate
        /\ UNCHANGED <<cronCfg, cronDue, cronFailed, cronRunning, cronScheduler, cronReload, cronCount>>
    BY <1>6 DEF CronWrites
  <2>2. CronJobsInv' /\ cronJobs' \subseteq CronJobSet
    BY <1>4, <2>1
  <2>3. CronNextOf(j.copy) \in Int
    <3>1. j.copy.spec \in Nat
      BY <1>0, CronTasksOf
    <3> QED BY <3>1 DEF CronNextOf
  <2>4. CronShapes'
    BY <1>0, <2>1, <2>2, <2>3 DEF CronInv, CronShapes
  <2>5. \A t \in CronTasks \ cronLate' : cronNext'[t] \in {cronNext[t], CronWant(cronCfg)[t]}
    <3> SUFFICES ASSUME NEW t \in CronTasks \ cronLate', cronNext'[t] # cronNext[t]
                 PROVE  cronNext'[t] = CronWant(cronCfg)[t]
      OBVIOUS
    <3>1. t = j.task /\ cronNext'[t] = CronNextOf(j.copy)
      BY <1>0, <2>1
    <3>2. j.copy = cronCfg[t] /\ CronNextOf(j.copy) # -1
      BY <2>1, <3>1
    <3> QED BY <3>1, <3>2 DEF CronNextOf, CronWant, CronScheduled
  <2>6. \A t \in CronTasks : ~cronCfg[t].there => cronNext'[t] = cronNext[t]
    BY <1>0, <2>1
  <2>7. cronLate \subseteq cronLate'
    BY <2>1
  <2>8. CronNextInv'
    BY <2>1, <2>5, <2>6, <2>7 DEF CronInv, CronNextInv, CronWant, CronScheduled
  <2> QED BY <2>2, <2>4, <2>8 DEF CronInv
<1>7. CASE CronEnds(j)
  <2>1. /\ cronJobs' = cronJobs \ {j} /\ j.at = "ends" /\ cronRunning' = cronRunning \ {j.task}
        /\ UNCHANGED <<cronCfg, cronNext, cronDue, cronFailed, cronScheduler, cronReload, cronCount,
                       cronLate>>
    BY <1>7 DEF CronEnds
  <2>2. CronShapes'
    BY <2>1 DEF CronInv, CronShapes
  <2>3. CronJobsInv'
    <3>1. \A k \in cronJobs \ {j} : k.at # "new" => k.task # j.task
      BY <2>1 DEF CronInv, CronJobsInv
    <3>2. {k \in cronJobs' : k.at # "new"} = {k \in cronJobs : k.at # "new"} \ {j}
      BY <2>1
    <3>3. cronRunning' = {k.task : k \in {k \in cronJobs' : k.at # "new"}}
      BY <2>1, <3>1, <3>2 DEF CronInv, CronJobsInv
    <3> QED BY <2>1, <3>3 DEF CronInv, CronJobsInv
  <2>4. CronNextInv'
    BY <2>1 DEF CronInv, CronNextInv, CronWant, CronScheduled
  <2> QED BY <2>2, <2>3, <2>4 DEF CronInv
<1> QED BY <1>2, <1>3, <1>5, <1>6, <1>7

\* Every step of the manager keeps its invariant.
LEMMA CronStepInv == ASSUME CronInv, [CronNextStep]_cronVars PROVE CronInv'
<1>1. CASE UNCHANGED cronVars
  BY <1>1 DEF cronVars, CronInv, CronShapes, CronJobsInv, CronNextInv, CronWant, CronScheduled
<1>2. ASSUME NEW t \in CronTasks, CronFires(t) PROVE CronInv'
  <2>1. cronScheduler.cfg[t] \in CronTaskSet /\ cronScheduler.gen \in Nat
    BY DEF CronInv, CronShapes
  <2> QED BY <1>2, <2>1, CronBeginsInv DEF CronFires
<1>3. ASSUME NEW t \in CronTasks, CronRunByHand(t) PROVE CronInv'
  <2>1. cronCfg[t] \in CronTaskSet
    BY DEF CronInv, CronShapes
  <2> QED BY <1>3, <2>1, CronBeginsInv DEF CronRunByHand
<1>4. CASE CronNextStep
  BY <1>2, <1>3, <1>4, CronEditInv, CronReloadInv, CronExecutionInv DEF CronNextStep
<1> QED BY <1>1, <1>4

\* And the invariant says what the run checks.
LEMMA CronShows == CronInv => CronTypeOK /\ CronIsTrue
<1> SUFFICES ASSUME CronInv PROVE CronTypeOK /\ CronIsTrue
  OBVIOUS
<1>1. CronTypeOK
  BY DEF CronInv, CronShapes, CronJobSet, CronTypeOK
<1>2. CronIsTrue
  BY DEF CronInv, CronShapes, CronJobsInv, CronNextInv, CronIsTrue
<1> QED BY <1>1, <1>2

-----------------------------------------------------------------------------
(* The requests of a web service: passwords, verdicts and backends.        *)

\* The shapes of the requests' state.
SteAts == {"new", "looks", "waits", "computes", "proxies", "backend", "ends", "done"}
SteOuts == {"open", "refused", "wrong", "served", "failed", "gone"}
SteAtSet == [at : SteAts, key : SteKeys, awaits : SteRequests \union {SteNobody}, out : SteOuts]
StePendingSet == [is : {"pending"}, by : SteRequests]
SteKeptSet == [is : {"kept"}, ok : BOOLEAN, until : Nat]
SteTableSet == [SteKeys -> {SteNone} \union StePendingSet \union SteKeptSet]

SteShapes ==
    /\ steAt \in [SteRequests -> SteAtSet] /\ steTable \in SteTableSet
    /\ steTokens \in 0..SteBudget /\ steClock \in Nat /\ stePanics \in Nat
    /\ steIndex \in 0..(SteWrap - 1) /\ steKnown \in Nat
    /\ steSince \in [DOMAIN SteWeights -> Nat]

\* Being served is being counted.
SteInside == {r \in SteRequests : steAt[r].at \notin {"new", "done"}}
SteCountInv == steActive = Cardinality(SteInside)

\* Who computes is who is entered; a verdict that is kept is the credential's, and
\* so is one that was given; the site's own is kept as long as it is known.
SteVerdictsInv ==
    /\ SteOneComputes /\ SteNobodyIsStuck /\ SteVerdictsAreTrue
    /\ \A r \in SteRequests : steAt[r].at # "ends" => steAt[r].out = "open"
    /\ \A k \in SteKeys : steTable[k].is = "kept" => (steTable[k].ok <=> k = SteGood)
    /\ steClock < steKnown =>
          steTable[SteGood].is = "kept" /\ steTable[SteGood].ok /\ steTable[SteGood].until = steKnown

\* How many of the first r places of the ring are a backend's.
StePart(r, b) ==
    IF r <= SteEnd(b - 1) THEN 0
    ELSE IF r <= SteEnd(b) THEN r - SteEnd(b - 1) ELSE SteWeights[b]

\* What the backends got since the counter wrapped is what the counter says: its
\* whole rounds of the ring, and the places it went on from there.
SteGot == SumFunctionOnSet(steSince, DOMAIN SteWeights)
SteSharesInv ==
    /\ steIndex # 0 => SteGot = steIndex
    /\ \A b \in DOMAIN SteWeights :
          steSince[b] = (SteGot \div SteLength) * SteWeights[b] + StePart(SteGot % SteLength, b)

\* The inductive invariant of the requests.
SteInv == SteShapes /\ SteCountInv /\ SteVerdictsInv /\ SteSharesInv

\* What the assumptions say of the passwords, the wheel and the cache.
LEMMA SteConstants ==
    /\ SteGood \notin SteBad /\ SteGood \in SteKeys /\ IsFiniteSet(SteRequests)
    /\ SteBudget \in Nat \ {0} /\ SteGoodFor \in Nat \ {0} /\ SteBadFor \in Nat \ {0}
    /\ SteWrap \in Nat \ {0}
    /\ Len(SteWeights) \in Nat \ {0} /\ DOMAIN SteWeights = 1..Len(SteWeights)
    /\ \A b \in 1..Len(SteWeights) : SteWeights[b] \in Nat \ {0}
<1>1. SteWeights \in Seq(Nat \ {0}) /\ SteWeights # <<>>
  BY SteAssumption
<1>2. Len(SteWeights) \in Nat /\ DOMAIN SteWeights = 1..Len(SteWeights) /\ Len(SteWeights) # 0
  BY <1>1
<1>3. \A b \in 1..Len(SteWeights) : SteWeights[b] \in Nat \ {0}
  BY <1>1
<1> QED BY <1>2, <1>3, SteAssumption DEF SteKeys

\* The places of a backend come after those of the ones before it.
LEMMA SteEnds1 ==
    /\ SteEnd(0) = 0
    /\ \A b \in 0..Len(SteWeights) : SteEnd(b) \in Nat
    /\ \A b \in 1..Len(SteWeights) : SteEnd(b) = SteEnd(b - 1) + SteWeights[b]
    /\ \A b, c \in 0..Len(SteWeights) : b <= c => SteEnd(b) <= SteEnd(c)
<1> USE SteConstants
<1>0. \A n \in Nat : IsFiniteSet(1..n)
  BY FS_Interval
<1>1. SteEnd(0) = 0
  <2>1. 1..0 = {}
    OBVIOUS
  <2> QED BY <2>1, SumEmpty DEF SteEnd
<1>2. ASSUME NEW b \in 0..Len(SteWeights)
      PROVE  /\ IsFiniteSet(1..b) /\ SteEnd(b) \in Nat /\ \A x \in 1..b : SteWeights[x] \in Nat
  <2>1. IsFiniteSet(1..b) /\ \A x \in 1..b : SteWeights[x] \in Nat
    BY <1>0
  <2> QED BY <2>1, SumNatural DEF SteEnd
<1>3. ASSUME NEW b \in 1..Len(SteWeights)
      PROVE  SteEnd(b) = SteEnd(b - 1) + SteWeights[b]
  <2>1. b \in 0..Len(SteWeights) /\ b - 1 \in 0..Len(SteWeights) /\ b \in 1..b
    OBVIOUS
  <2>2. (1..b) \ {b} = 1..(b - 1)
    OBVIOUS
  <2>3. SteEnd(b) = SteWeights[b] + SumFunctionOnSet(SteWeights, (1..b) \ {b})
    BY <1>2, <2>1, SumStep DEF SteEnd
  <2>4. SteEnd(b) = SteWeights[b] + SteEnd(b - 1)
    BY <2>2, <2>3 DEF SteEnd
  <2>5. SteWeights[b] \in Nat /\ SteEnd(b - 1) \in Nat
    BY <1>2, <2>1
  <2> QED BY <2>4, <2>5
<1>4. ASSUME NEW b \in 0..Len(SteWeights), NEW c \in 0..Len(SteWeights), b <= c
      PROVE  SteEnd(b) <= SteEnd(c)
  <2>1. 1..b \subseteq 1..c
    BY <1>4
  <2>2. /\ IsFiniteSet(1..c) /\ \A x \in 1..c : SteWeights[x] \in Nat /\ SteWeights[x] \in Nat
        /\ \A x \in 1..b : SteWeights[x] <= SteWeights[x]
    BY <1>2, <2>1
  <2> QED BY <2>1, <2>2, SumLess DEF SteEnd
<1> QED BY <1>1, <1>2, <1>3, <1>4

\* A place of the ring is that of the one backend whose places it is among.
LEMMA SteRingPlaces ==
    /\ SteLength \in Nat \ {0}
    /\ \A i \in 1..SteLength :
          /\ SteRing[i] \in 1..Len(SteWeights)
          /\ \A b \in 1..Len(SteWeights) : SteEnd(b - 1) < i /\ i <= SteEnd(b) <=> b = SteRing[i]
<1> USE SteConstants
<1>1. SteLength \in Nat \ {0}
  <2>1. Len(SteWeights) \in 1..Len(SteWeights) /\ Len(SteWeights) - 1 \in 0..Len(SteWeights)
    OBVIOUS
  <2>2. SteEnd(Len(SteWeights)) = SteEnd(Len(SteWeights) - 1) + SteWeights[Len(SteWeights)]
    BY <2>1, SteEnds1
  <2>3. SteEnd(Len(SteWeights) - 1) \in Nat /\ SteWeights[Len(SteWeights)] \in Nat \ {0}
    BY <2>1, SteEnds1
  <2> QED BY <2>2, <2>3 DEF SteLength
<1>2. ASSUME NEW i \in 1..SteLength
      PROVE  \E b \in 1..Len(SteWeights) : SteEnd(b - 1) < i /\ i <= SteEnd(b)
  <2> DEFINE B == {b \in 0..Len(SteWeights) : SteEnd(b) < i}
  <2>1. IsFiniteSet(B) /\ B \subseteq Int
    <3>1. IsFiniteSet(0..Len(SteWeights)) /\ B \subseteq 0..Len(SteWeights)
      BY FS_Interval
    <3> QED BY <3>1, FS_Subset
  <2>2. 0 \in B
    BY SteEnds1
  <2>3. PICK m \in B : \A y \in B : y <= m
    <3> HIDE DEF B
    <3> QED BY <2>1, <2>2, MostOf
  <2>4. m # Len(SteWeights)
    <3> SUFFICES ASSUME m = Len(SteWeights) PROVE FALSE
      OBVIOUS
    <3>1. SteLength < i
      BY <2>3 DEF SteLength
    <3>2. i \in Nat /\ i <= SteLength
      BY <1>1
    <3> QED BY <1>1, <3>1, <3>2
  <2>5. m + 1 \in 1..Len(SteWeights) /\ m + 1 \in 0..Len(SteWeights) /\ (m + 1) - 1 = m
    <3> DEFINE k == Len(SteWeights)
    <3>1. m \in 0..k /\ m # k /\ k \in Nat
      BY <2>3, <2>4
    <3> HIDE DEF B, k
    <3>2. m + 1 \in 1..k /\ m + 1 \in 0..k /\ (m + 1) - 1 = m
      BY <3>1
    <3> QED BY <3>2 DEF k
  <2>6. ~(SteEnd(m + 1) < i)
    BY <2>3, <2>5
  <2>7. SteEnd(m + 1) \in Nat /\ i \in Nat
    BY <1>1, <2>5, SteEnds1
  <2> QED BY <2>3, <2>5, <2>6, <2>7
<1>3. ASSUME NEW i \in 1..SteLength
      PROVE  /\ SteRing[i] \in 1..Len(SteWeights)
             /\ SteEnd(SteRing[i] - 1) < i /\ i <= SteEnd(SteRing[i])
  BY <1>2, <1>3 DEF SteRing
<1>4. ASSUME NEW i \in 1..SteLength, NEW b \in 1..Len(SteWeights), SteEnd(b - 1) < i, i <= SteEnd(b)
      PROVE  b = SteRing[i]
  <2> DEFINE c == SteRing[i]
  <2>1. c \in 1..Len(SteWeights) /\ SteEnd(c - 1) < i /\ i <= SteEnd(c)
    BY <1>3
  <2> HIDE DEF c
  <2>2. /\ b \in 0..Len(SteWeights) /\ b - 1 \in 0..Len(SteWeights)
        /\ c \in 0..Len(SteWeights) /\ c - 1 \in 0..Len(SteWeights) /\ i \in Nat
    BY <1>1, <2>1
  <2>3. /\ SteEnd(b) \in Nat /\ SteEnd(b - 1) \in Nat /\ SteEnd(c) \in Nat /\ SteEnd(c - 1) \in Nat
    BY <2>2, SteEnds1
  <2>4. ~(b <= c - 1)
    <3> SUFFICES ASSUME b <= c - 1 PROVE FALSE
      OBVIOUS
    <3>1. SteEnd(b) <= SteEnd(c - 1)
      BY <2>2, SteEnds1
    <3> QED BY <1>4, <2>1, <2>2, <2>3, <3>1
  <2>5. ~(c <= b - 1)
    <3> SUFFICES ASSUME c <= b - 1 PROVE FALSE
      OBVIOUS
    <3>1. SteEnd(c) <= SteEnd(b - 1)
      BY <2>2, SteEnds1
    <3> QED BY <1>4, <2>1, <2>2, <2>3, <3>1
  <2>6. b = c
    BY <2>2, <2>4, <2>5
  <2> QED BY <2>6 DEF c
<1> QED BY <1>1, <1>3, <1>4

\* One place further is one more for the backend whose place it is.
LEMMA SteRingStep ==
    ASSUME NEW n \in Nat, NEW c \in 1..Len(SteWeights)
    PROVE  /\ StePick(n) \in 1..Len(SteWeights)
           /\ ((n + 1) \div SteLength) * SteWeights[c] + StePart((n + 1) % SteLength, c)
                 = (n \div SteLength) * SteWeights[c] + StePart(n % SteLength, c)
                      + (IF c = StePick(n) THEN 1 ELSE 0)
<1> USE SteConstants
<1> DEFINE l == SteLength
           q == n \div l
           r == n % l
           w == SteWeights[c]
           e == SteEnd(c - 1)
           m == n + 1
           b == StePick(n)
<1>1. /\ l \in Nat \ {0} /\ q \in Nat /\ r \in Nat /\ r < l /\ n = q * l + r
      /\ r \in 0..(l - 1)
  <2>1. l \in Nat \ {0}
    BY SteRingPlaces
  <2>2. q \in Nat /\ r \in 0..(l - 1) /\ n = q * l + r
    <3> HIDE DEF l
    <3> QED BY <2>1, Divided
  <2> HIDE DEF l, q, r
  <2> QED BY <2>1, <2>2
<1>2. r + 1 \in 1..l /\ b = SteRing[r + 1]
  BY <1>1 DEF StePick
<1>3. b \in 1..Len(SteWeights) /\ (c = b <=> e < r + 1 /\ r + 1 <= SteEnd(c))
  BY <1>2, SteRingPlaces
<1>4. e \in Nat /\ w \in Nat \ {0} /\ SteEnd(c) = e + w /\ SteEnd(c) <= l
  <2>1. c - 1 \in 0..Len(SteWeights) /\ c \in 0..Len(SteWeights) /\ Len(SteWeights) \in 0..Len(SteWeights)
        /\ c <= Len(SteWeights)
    OBVIOUS
  <2> QED BY <2>1, SteEnds1 DEF SteLength
<1>5. StePart(r, c) = IF r <= e THEN 0 ELSE IF r <= e + w THEN r - e ELSE w
  BY <1>4 DEF StePart
<1>6. CASE r + 1 < l
  <2> DEFINE k == r + 1
  <2>1. m \in Nat /\ m = q * l + k /\ k \in 0..(l - 1) /\ k = r + 1 /\ k \in Int
    <3> HIDE DEF q, r, l
    <3>1. q * l \in Nat
      BY <1>1
    <3> QED BY <1>1, <1>6, <3>1
  <2> HIDE DEF k
  <2>2. m \div l = q /\ m % l = k
    <3> HIDE DEF q, r, l, m
    <3> QED BY <1>1, <2>1, DividedOnly
  <2>3. StePart(k, c) = IF k <= e THEN 0 ELSE IF k <= e + w THEN k - e ELSE w
    BY <1>4, <2>1 DEF StePart
  <2>a. c = b <=> e < k /\ k <= e + w
    <3> HIDE DEF q, r, l, m, b, e, w
    <3> QED BY <1>3, <1>4, <2>1
  <2>4. StePart(k, c) = StePart(r, c) + (IF c = b THEN 1 ELSE 0)
    <3> HIDE DEF q, r, l, m, b, e, w
    <3> QED BY <1>1, <1>4, <1>5, <2>1, <2>3, <2>a
  <2>5. q * w \in Nat /\ StePart(r, c) \in Nat
    <3> HIDE DEF q, r, l, m, b, e, w
    <3> QED BY <1>1, <1>4, <1>5
  <2>6. (m \div l) * w + StePart(m % l, c) = q * w + StePart(r, c) + (IF c = b THEN 1 ELSE 0)
    <3> HIDE DEF q, r, l, m, b, e, w
    <3> QED BY <2>2, <2>4, <2>5
  <2> QED BY <1>3, <2>6
<1>7. CASE ~(r + 1 < l)
  <2>1. r + 1 = l
    <3> HIDE DEF q, r, l
    <3> QED BY <1>1, <1>7
  <2>2. m \in Nat /\ m = (q + 1) * l + 0 /\ 0 \in 0..(l - 1) /\ q + 1 \in Nat
    <3> HIDE DEF q, r, l
    <3>1. (q + 1) * l = q * l + l /\ q * l \in Nat
      BY <1>1
    <3> QED BY <1>1, <2>1, <3>1
  <2>3. m \div l = q + 1 /\ m % l = 0
    <3> HIDE DEF q, r, l, m
    <3> QED BY <1>1, <2>2, DividedOnly
  <2>4. StePart(0, c) = 0
    BY <1>4 DEF StePart
  <2>5. StePart(r, c) + (IF c = b THEN 1 ELSE 0) = w
    <3> HIDE DEF q, r, l, m, b, e, w
    <3> QED BY <1>1, <1>3, <1>4, <1>5, <2>1
  <2>6. (q + 1) * w = q * w + w /\ q * w \in Nat /\ StePart(r, c) \in Nat
    <3> HIDE DEF q, r, l, m, b, e, w
    <3> QED BY <1>1, <1>4, <1>5
  <2>7. (m \div l) * w + StePart(m % l, c) = q * w + StePart(r, c) + (IF c = b THEN 1 ELSE 0)
    <3> HIDE DEF q, r, l, m, b, e, w
    <3> QED BY <1>4, <2>3, <2>4, <2>5, <2>6
  <2> QED BY <1>3, <2>7
<1> QED BY <1>6, <1>7

\* What the backends got together is a sum of naturals.
LEMMA SteGotIs ==
    ASSUME SteShapes
    PROVE  SteGot \in Nat /\ SumFunction(steSince) = SteGot
<1>1. IsFiniteSet(DOMAIN SteWeights)
  BY SteConstants, FS_Interval
<1>2. \A b \in DOMAIN SteWeights : steSince[b] \in Nat
  BY DEF SteShapes
<1>3. DOMAIN steSince = DOMAIN SteWeights
  BY DEF SteShapes
<1> QED BY <1>1, <1>2, <1>3, SumNatural DEF SteGot, SumFunction

\* What one backend gets of a part of a round.
LEMMA StePartIs ==
    ASSUME NEW r \in Nat, NEW b \in 1..Len(SteWeights)
    PROVE  StePart(r, b) \in 0..SteWeights[b] /\ StePart(0, b) = 0
<1> DEFINE e == SteEnd(b - 1)
           w == SteWeights[b]
<1>1. b - 1 \in 0..Len(SteWeights) /\ b \in 0..Len(SteWeights)
  BY SteConstants
<1>2. e \in Nat /\ w \in Nat /\ SteEnd(b) = e + w
  BY <1>1, SteConstants, SteEnds1
<1>3. ASSUME NEW k \in Nat
      PROVE  StePart(k, b) = IF k <= e THEN 0 ELSE IF k <= e + w THEN k - e ELSE w
  BY <1>2 DEF StePart
<1> HIDE DEF e
<1>4. StePart(r, b) \in 0..w
  <2> HIDE DEF w
  <2> QED BY <1>2, <1>3
<1>5. StePart(0, b) = 0
  BY <1>2, <1>3
<1> QED BY <1>4, <1>5

\* From the place in the round the shares follow.
LEMMA SteSharesShow == ASSUME SteShapes, SteSharesInv PROVE SteSharesAreKept
<1> USE SteConstants
<1> DEFINE q == SteGot \div SteLength
           r == SteGot % SteLength
<1>1. SumFunction(steSince) = SteGot /\ SteGot \in Nat /\ SteLength \in Nat \ {0}
  BY SteGotIs, SteRingPlaces
<1>2. q \in Nat /\ r \in Nat
  <2>1. q \in Nat /\ r \in 0..(SteLength - 1)
    BY <1>1, Divided
  <2> QED BY <1>1, <2>1
<1>3. ASSUME NEW b \in DOMAIN SteWeights
      PROVE  steSince[b] \in (q * SteWeights[b])..((q + 1) * SteWeights[b])
  <2> DEFINE w == SteWeights[b]
             p == StePart(r, b)
  <2>1. steSince[b] = q * w + p
    BY DEF SteSharesInv
  <2>2. p \in 0..w /\ w \in Nat
    <3> HIDE DEF r
    <3> QED BY <1>2, StePartIs
  <2> HIDE DEF q, w, p
  <2>3. q * w \in Nat /\ (q + 1) * w = q * w + w
    BY <1>2, <2>2
  <2>4. steSince[b] \in (q * w)..((q + 1) * w)
    BY <2>1, <2>2, <2>3
  <2> QED BY <2>4 DEF w
<1> QED BY <1>1, <1>3 DEF SteSharesAreKept

\* Backends that got nothing got nothing together.
LEMMA SteNoneGot ==
    ASSUME NEW f, \A b \in DOMAIN SteWeights : f[b] = 0
    PROVE  SumFunctionOnSet(f, DOMAIN SteWeights) = 0
<1>1. IsFiniteSet(DOMAIN SteWeights) /\ Cardinality(DOMAIN SteWeights) \in Nat
  BY SteConstants, FS_Interval, FS_CardinalityType
<1>2. SumFunctionOnSet(f, DOMAIN SteWeights) = Cardinality(DOMAIN SteWeights) * 0
  BY <1>1, SumConstant
<1> QED BY <1>1, <1>2

\* A service begins with an empty cache, its whole budget and its first backend.
LEMMA SteInitInv == SteInit => SteInv
<1> SUFFICES ASSUME SteInit PROVE SteInv
  OBVIOUS
<1> USE SteConstants
<1>1. SteShapes
  BY DEF SteInit, SteShapes, SteAtSet, SteTableSet, SteFresh, SteAts, SteOuts, SteNobody
<1>2. SteCountInv
  <2>1. SteInside = {}
    BY DEF SteInit, SteInside, SteFresh
  <2> QED BY <2>1, FS_EmptySet DEF SteInit, SteCountInv
<1>3. SteVerdictsInv
  BY DEF SteInit, SteVerdictsInv, SteOneComputes, SteNobodyIsStuck, SteVerdictsAreTrue, SteFresh,
         SteNone
<1>4. SteSharesInv
  <2>1. SteGot = 0
    BY SteNoneGot DEF SteInit, SteGot
  <2>2. SteLength \in Nat \ {0}
    BY SteRingPlaces
  <2>3. 0 \div SteLength = 0 /\ 0 % SteLength = 0
    BY <2>2, DividedOnly
  <2>4. ASSUME NEW b \in DOMAIN SteWeights
        PROVE  steSince[b] = (SteGot \div SteLength) * SteWeights[b] + StePart(SteGot % SteLength, b)
    <3>1. StePart(0, b) = 0 /\ steSince[b] = 0 /\ SteWeights[b] \in Nat
      BY StePartIs DEF SteInit
    <3> QED BY <2>1, <2>3, <3>1
  <2> QED BY <2>1, <2>4 DEF SteInit, SteSharesInv
<1> QED BY <1>1, <1>2, <1>3, <1>4 DEF SteInv

\* What a sweep leaves out was kept, and run out or a refusal.
LEMMA SteSweptTable ==
    ASSUME NEW t \in SteTableSet, steClock \in Nat
    PROVE  /\ SteSwept(t) \in SteTableSet
           /\ \A k \in SteKeys : \/ SteSwept(t)[k] = t[k]
                                 \/ /\ SteSwept(t)[k] = SteNone /\ t[k].is = "kept"
                                    /\ steClock > t[k].until \/ ~t[k].ok
<1> DEFINE run == {k \in SteEntries(t) : t[k].is = "kept" /\ steClock > t[k].until}
           valid == SteWithout(t, run)
           few == SteWithout(valid, SteDropped(valid))
<1>1. SteSwept(t) \in {t, valid, few}
  BY DEF SteSwept
<1>2. /\ valid \in SteTableSet
      /\ \A k \in SteKeys : \/ valid[k] = t[k]
                            \/ valid[k] = SteNone /\ t[k].is = "kept" /\ steClock > t[k].until
  BY DEF SteWithout, SteTableSet
<1> HIDE DEF valid
<1>3. /\ few \in SteTableSet
      /\ \A k \in SteKeys : \/ few[k] = valid[k]
                            \/ few[k] = SteNone /\ valid[k].is = "kept" /\ ~valid[k].ok
  BY <1>2 DEF SteWithout, SteTableSet, SteDropped
<1> HIDE DEF few
<1>4. ASSUME NEW k \in SteKeys, few[k] # t[k]
      PROVE  few[k] = SteNone /\ t[k].is = "kept" /\ (steClock > t[k].until \/ ~t[k].ok)
  <2>1. CASE valid[k] = t[k]
    BY <1>3, <1>4, <2>1
  <2>2. CASE valid[k] # t[k]
    BY <1>2, <1>3, <2>2 DEF SteNone
  <2> QED BY <2>1, <2>2
<1> QED BY <1>1, <1>2, <1>3, <1>4

\* A step that moves a request within the site leaves the count.
LEMMA SteCountStays ==
    ASSUME SteInv, steActive' = steActive,
           \A r \in SteRequests : steAt'[r].at \in {"new", "done"} <=> steAt[r].at \in {"new", "done"}
    PROVE  SteCountInv'
<1>1. SteInside' = SteInside
  BY DEF SteInside
<1> QED BY <1>1 DEF SteInv, SteCountInv

\* A step that picks no backend leaves the shares alone.
LEMMA SteSharesStay ==
    ASSUME SteInv, steIndex' = steIndex, steSince' = steSince
    PROVE  SteSharesInv'
<1>1. SteGot' = SteGot
  BY DEF SteGot
<1> QED BY <1>1 DEF SteInv, SteSharesInv

\* A request goes to a place that asks nothing of the table.
LEMMA SteGoesInv ==
    ASSUME SteInv, NEW r \in SteRequests, NEW new \in SteAtSet,
           steAt' = [steAt EXCEPT ![r] = new],
           steAt[r].at # "computes", new.at # "computes",
           new.at \in {"proxies", "backend"} => new.key = SteGood,
           new.out = "wrong" => new.key # SteGood,
           new.at # "ends" => new.out = "open",
           UNCHANGED <<steTable, steClock, stePanics, steIndex, steSince, steKnown>>,
           steTokens' = steTokens,
           \/ steActive' = steActive /\ steAt[r].at \in {"new", "done"} /\ new.at \in {"new", "done"}
           \/ steActive' = steActive /\ steAt[r].at \notin {"new", "done"} /\ new.at \notin {"new", "done"}
           \/ steActive' = steActive + 1 /\ steAt[r].at = "new" /\ new.at \notin {"new", "done"}
           \/ steActive' = steActive - 1 /\ steAt[r].at = "ends" /\ new.at = "done"
    PROVE  SteInv'
<1> USE SteConstants
<1>0. /\ steAt \in [SteRequests -> SteAtSet] /\ steAt'[r] = new
      /\ \A o \in SteRequests \ {r} : steAt'[o] = steAt[o]
  BY DEF SteInv, SteShapes
<1>1. SteShapes'
  BY DEF SteInv, SteShapes
<1>2. SteVerdictsInv'
  <2>1. SteOneComputes'
    BY <1>0 DEF SteInv, SteVerdictsInv, SteOneComputes
  <2>2. SteNobodyIsStuck'
    <3> SUFFICES ASSUME NEW k \in SteKeys, steTable[k].is = "pending"
                 PROVE  steAt'[steTable[k].by].at = "computes" /\ steAt'[steTable[k].by].key = k
      BY DEF SteNobodyIsStuck
    <3>1. steAt[steTable[k].by].at = "computes" /\ steAt[steTable[k].by].key = k
      BY DEF SteInv, SteVerdictsInv, SteNobodyIsStuck
    <3>2. steTable[k] \in {SteNone} \union StePendingSet \union SteKeptSet
      BY DEF SteInv, SteShapes, SteTableSet
    <3>3. steTable[k] \in StePendingSet
      BY <3>2 DEF SteNone, SteKeptSet
    <3>4. steTable[k].by \in SteRequests
      BY <3>3 DEF StePendingSet
    <3> QED BY <1>0, <3>1, <3>4
  <2>3. SteVerdictsAreTrue'
    BY <1>0 DEF SteInv, SteVerdictsInv, SteVerdictsAreTrue
  <2>4. \A o \in SteRequests : steAt'[o].at # "ends" => steAt'[o].out = "open"
    BY <1>0 DEF SteInv, SteVerdictsInv
  <2> QED BY <2>1, <2>2, <2>3, <2>4 DEF SteInv, SteVerdictsInv
<1>3. SteCountInv'
  <2>1. CASE steActive' = steActive
    <3>1. \A o \in SteRequests : steAt'[o].at \in {"new", "done"} <=> steAt[o].at \in {"new", "done"}
      <4>1. steActive \in Nat
        <5>1. IsFiniteSet(SteInside)
          BY FS_Subset DEF SteInside
        <5> QED BY <5>1, FS_CardinalityType DEF SteInv, SteCountInv
      <4>2. steActive' # steActive + 1 /\ steActive' # steActive - 1
        BY <2>1, <4>1
      <4> QED BY <1>0, <4>2
    <3> QED BY <2>1, <3>1, SteCountStays
  <2>2. CASE steActive' = steActive + 1 /\ steAt[r].at = "new" /\ new.at \notin {"new", "done"}
    <3>1. SteInside' = SteInside \union {r} /\ r \notin SteInside
      BY <1>0, <2>2 DEF SteInside
    <3>2. IsFiniteSet(SteInside)
      BY FS_Subset DEF SteInside
    <3>3. Cardinality(SteInside \union {r}) = Cardinality(SteInside) + 1
      BY <3>1, <3>2, SizeOf
    <3> QED BY <2>2, <3>1, <3>3 DEF SteInv, SteCountInv
  <2>3. CASE steActive' = steActive - 1 /\ steAt[r].at = "ends" /\ new.at = "done"
    <3>1. SteInside' = SteInside \ {r} /\ r \in SteInside
      BY <1>0, <2>3 DEF SteInside
    <3>2. IsFiniteSet(SteInside)
      BY FS_Subset DEF SteInside
    <3>3. Cardinality(SteInside \ {r}) = Cardinality(SteInside) - 1
      BY <3>1, <3>2, SizeOf
    <3> QED BY <2>3, <3>1, <3>3 DEF SteInv, SteCountInv
  <2> QED BY <2>1, <2>2, <2>3
<1>4. SteSharesInv'
  BY SteSharesStay
<1> QED BY <1>1, <1>2, <1>3, <1>4 DEF SteInv

\* The requests after one went on, or ended.
SteOnwards(r, at) == [steAt EXCEPT ![r].at = at]
SteEnded(r, at, out) == [steAt EXCEPT ![r].at = at, ![r].out = out]
SteHaving(r, a) == [steAt EXCEPT ![r] = a]

\* What a request carries, whatever its place.
LEMMA SteCarries ==
    ASSUME SteInv, NEW r \in SteRequests, NEW at \in SteAts, NEW out \in SteOuts
    PROVE  \E a \in SteAtSet :
           /\ a.at = at /\ a.out = out /\ a.key = steAt[r].key
           /\ SteEnded(r, at, out) = SteHaving(r, a)
           /\ steAt[r].out = out => SteOnwards(r, at) = SteHaving(r, a)
<1>1. steAt \in [SteRequests -> SteAtSet] /\ steAt[r] \in SteAtSet
  BY DEF SteInv, SteShapes
<1>2. steAt[r] = [at |-> steAt[r].at, key |-> steAt[r].key, awaits |-> steAt[r].awaits, out |-> steAt[r].out]
  BY <1>1 DEF SteAtSet
<1> DEFINE a == [steAt[r] EXCEPT !.at = at, !.out = out]
<1>3. a \in SteAtSet /\ a.at = at /\ a.out = out /\ a.key = steAt[r].key
  BY <1>1 DEF SteAtSet
<1>4. SteEnded(r, at, out) = SteHaving(r, a)
  BY <1>1 DEF SteAtSet, SteEnded, SteHaving
<1>5. steAt[r].out = out => SteOnwards(r, at) = SteHaving(r, a)
  BY <1>1, <1>2 DEF SteAtSet, SteOnwards, SteHaving
<1> HIDE DEF a
<1> QED BY <1>3, <1>4, <1>5

\* A request comes, finds an answer, waits for one, is answered or leaves.
LEMMA SteWayInv ==
    ASSUME SteInv, NEW r \in SteRequests,
           \/ SteUnknownHost(r) \/ SteArrives(r) \/ SteAnswered(r) \/ SteLeaves(r) \/ SteWakes(r)
           \/ SteWaits(r) \/ SteHits(r)
    PROVE  SteInv'
<1> USE SteConstants DEF SteAts, SteOuts
<1>0. /\ steAt \in [SteRequests -> SteAtSet] /\ steAt[r] \in SteAtSet
      /\ steAt[r].at # "ends" => steAt[r].out = "open"
      /\ steAt[r].at \in {"proxies", "backend"} => steAt[r].key = SteGood
      /\ steAt[r].key \in SteKeys
  BY DEF SteInv, SteShapes, SteVerdictsInv, SteVerdictsAreTrue, SteAtSet
<1>1. CASE SteUnknownHost(r)
  <2>0. PICK a \in SteAtSet :
           /\ a.at = "done" /\ a.out = "open" /\ a.key = steAt[r].key
           /\ SteEnded(r, "done", "open") = SteHaving(r, a)
           /\ steAt[r].out = "open" => SteOnwards(r, "done") = SteHaving(r, a)
    <3>1. "done" \in SteAts /\ "open" \in SteOuts
      OBVIOUS
    <3> HIDE DEF SteAts, SteOuts
    <3> QED BY <3>1, SteCarries
  <2>1. /\ a \in SteAtSet /\ a.at = "done" /\ a.out = "open"
        /\ steAt' = [steAt EXCEPT ![r] = a] /\ steAt[r].at = "new"
    BY <1>0, <1>1, <2>0 DEF SteUnknownHost, SteOnwards, SteEnded, SteHaving
  <2> QED BY <1>1, <2>1, SteGoesInv DEF SteUnknownHost
<1>2. CASE SteArrives(r) /\ SteEnds(r, "refused")
  <2>0. PICK a \in SteAtSet :
           /\ a.at = "ends" /\ a.out = "refused" /\ a.key = steAt[r].key
           /\ SteEnded(r, "ends", "refused") = SteHaving(r, a)
           /\ steAt[r].out = "refused" => SteOnwards(r, "ends") = SteHaving(r, a)
    <3>1. "ends" \in SteAts /\ "refused" \in SteOuts
      OBVIOUS
    <3> HIDE DEF SteAts, SteOuts
    <3> QED BY <3>1, SteCarries
  <2>1. /\ a \in SteAtSet /\ a.at = "ends" /\ a.out = "refused"
        /\ steAt' = [steAt EXCEPT ![r] = a] /\ steAt[r].at = "new"
    BY <1>0, <1>2, <2>0 DEF SteArrives, SteEnds, SteOnwards, SteEnded, SteHaving
  <2> QED BY <1>2, <2>1, SteGoesInv DEF SteArrives
<1>3. ASSUME NEW key \in SteKeys, SteArrives(r),
             steAt' = [steAt EXCEPT ![r].at = "looks", ![r].key = key]
      PROVE  SteInv'
  <2> DEFINE a == [steAt[r] EXCEPT !.at = "looks", !.key = key]
  <2>1. /\ a \in SteAtSet /\ a.at = "looks" /\ a.out = "open"
        /\ steAt' = [steAt EXCEPT ![r] = a] /\ steAt[r].at = "new"
    BY <1>0, <1>3 DEF SteArrives, SteAtSet
  <2> HIDE DEF a
  <2> QED BY <1>3, <2>1, SteGoesInv DEF SteArrives
<1>4. ASSUME NEW out \in {"served", "failed", "gone"}, SteAnswered(r), SteEnds(r, out)
      PROVE  SteInv'
  <2>0. PICK a \in SteAtSet :
           /\ a.at = "ends" /\ a.out = out /\ a.key = steAt[r].key
           /\ SteEnded(r, "ends", out) = SteHaving(r, a)
           /\ steAt[r].out = out => SteOnwards(r, "ends") = SteHaving(r, a)
    <3>1. "ends" \in SteAts /\ out \in SteOuts
      OBVIOUS
    <3> HIDE DEF SteAts, SteOuts
    <3> QED BY <3>1, SteCarries
  <2>1. /\ a \in SteAtSet /\ a.at = "ends" /\ a.out = out
        /\ steAt' = [steAt EXCEPT ![r] = a] /\ steAt[r].at = "backend"
    BY <1>0, <1>4, <2>0 DEF SteAnswered, SteEnds, SteOnwards, SteEnded, SteHaving
  <2> QED BY <1>4, <2>1, SteGoesInv DEF SteAnswered
<1>5. CASE SteLeaves(r)
  <2> DEFINE a == [SteFresh EXCEPT !.at = "done"]
  <2>1. a \in SteAtSet /\ a.at = "done" /\ a.out = "open"
    BY DEF SteFresh, SteAtSet, SteNobody
  <2>2. steAt' = [steAt EXCEPT ![r] = a] /\ steAt[r].at = "ends"
    BY <1>5 DEF SteLeaves
  <2> HIDE DEF a
  <2> QED BY <1>5, <2>1, <2>2, SteGoesInv DEF SteLeaves
<1>6. CASE SteWakes(r)
  <2>0. PICK a \in SteAtSet :
           /\ a.at = "looks" /\ a.out = "open" /\ a.key = steAt[r].key
           /\ SteEnded(r, "looks", "open") = SteHaving(r, a)
           /\ steAt[r].out = "open" => SteOnwards(r, "looks") = SteHaving(r, a)
    <3>1. "looks" \in SteAts /\ "open" \in SteOuts
      OBVIOUS
    <3> HIDE DEF SteAts, SteOuts
    <3> QED BY <3>1, SteCarries
  <2>1. /\ a \in SteAtSet /\ a.at = "looks" /\ a.out = "open"
        /\ steAt' = [steAt EXCEPT ![r] = a] /\ steAt[r].at = "waits"
    BY <1>0, <1>6, <2>0 DEF SteWakes, SteGo, SteOnwards, SteEnded, SteHaving
  <2> QED BY <1>6, <2>1, SteGoesInv DEF SteWakes
<1>7. CASE SteWaits(r)
  <2> DEFINE by == steTable[steAt[r].key].by
             a == [steAt[r] EXCEPT !.at = "waits", !.awaits = by]
  <2>1. by \in SteRequests
    <3>1. steTable[steAt[r].key] \in {SteNone} \union StePendingSet \union SteKeptSet
      BY <1>0 DEF SteInv, SteShapes, SteTableSet
    <3>2. steTable[steAt[r].key] \in StePendingSet
      BY <1>7, <3>1 DEF SteWaits, SteNone, SteKeptSet
    <3> QED BY <3>2 DEF StePendingSet
  <2>2. steAt' = [steAt EXCEPT ![r].at = "waits", ![r].awaits = by] /\ steAt[r].at = "looks"
    BY <1>7 DEF SteWaits
  <2> HIDE DEF by
  <2>3. /\ a \in SteAtSet /\ a.at = "waits" /\ a.out = "open"
        /\ steAt' = [steAt EXCEPT ![r] = a]
    BY <1>0, <2>1, <2>2 DEF SteAtSet
  <2> HIDE DEF a
  <2> QED BY <1>7, <2>2, <2>3, SteGoesInv DEF SteWaits
<1>8. CASE SteHits(r) /\ steTable[steAt[r].key].ok
  <2>0. PICK a \in SteAtSet :
           /\ a.at = "proxies" /\ a.out = "open" /\ a.key = steAt[r].key
           /\ SteEnded(r, "proxies", "open") = SteHaving(r, a)
           /\ steAt[r].out = "open" => SteOnwards(r, "proxies") = SteHaving(r, a)
    <3>1. "proxies" \in SteAts /\ "open" \in SteOuts
      OBVIOUS
    <3> HIDE DEF SteAts, SteOuts
    <3> QED BY <3>1, SteCarries
  <2>1. steAt[r].key = SteGood
    BY <1>0, <1>8 DEF SteInv, SteVerdictsInv, SteHits, SteKept
  <2>2. /\ a \in SteAtSet /\ a.at = "proxies" /\ a.out = "open" /\ a.key = SteGood
        /\ steAt' = [steAt EXCEPT ![r] = a] /\ steAt[r].at = "looks"
    BY <1>0, <1>8, <2>1, <2>0 DEF SteHits, SteVerdict, SteGo, SteOnwards, SteEnded, SteHaving
  <2> QED BY <1>8, <2>2, SteGoesInv DEF SteHits
<1>9. CASE SteHits(r) /\ ~steTable[steAt[r].key].ok
  <2>0. PICK a \in SteAtSet :
           /\ a.at = "ends" /\ a.out = "wrong" /\ a.key = steAt[r].key
           /\ SteEnded(r, "ends", "wrong") = SteHaving(r, a)
           /\ steAt[r].out = "wrong" => SteOnwards(r, "ends") = SteHaving(r, a)
    <3>1. "ends" \in SteAts /\ "wrong" \in SteOuts
      OBVIOUS
    <3> HIDE DEF SteAts, SteOuts
    <3> QED BY <3>1, SteCarries
  <2>1. steAt[r].key # SteGood
    BY <1>0, <1>9 DEF SteInv, SteVerdictsInv, SteHits, SteKept
  <2>2. /\ a \in SteAtSet /\ a.at = "ends" /\ a.out = "wrong" /\ a.key = steAt[r].key
        /\ steAt' = [steAt EXCEPT ![r] = a] /\ steAt[r].at = "looks"
    BY <1>0, <1>9, <2>0 DEF SteHits, SteVerdict, SteEnds, SteOnwards, SteEnded, SteHaving
  <2> QED BY <1>9, <2>1, <2>2, SteGoesInv DEF SteHits
<1>10. CASE SteArrives(r)
  BY <1>2, <1>3, <1>10 DEF SteArrives
<1>11. CASE SteAnswered(r)
  BY <1>4, <1>11 DEF SteAnswered
<1> QED BY <1>1, <1>5, <1>6, <1>7, <1>8, <1>9, <1>10, <1>11

\* The entry of a credential has the shape of one.
LEMMA SteEntryOf ==
    ASSUME SteInv, NEW k \in SteKeys
    PROVE  /\ steTable[k].is \in {"none", "pending", "kept"}
           /\ steTable[k].is = "pending" => steTable[k] = [is |-> "pending", by |-> steTable[k].by]
                                            /\ steTable[k].by \in SteRequests
           /\ steTable[k].is = "kept" => steTable[k].ok \in BOOLEAN /\ steTable[k].until \in Nat
<1>1. steTable[k] \in {SteNone} \union StePendingSet \union SteKeptSet
  BY DEF SteInv, SteShapes, SteTableSet
<1>2. CASE steTable[k] = SteNone
  BY <1>2 DEF SteNone
<1>3. CASE steTable[k] \in StePendingSet
  BY <1>3 DEF StePendingSet
<1>4. CASE steTable[k] \in SteKeptSet
  BY <1>4 DEF SteKeptSet
<1> QED BY <1>1, <1>2, <1>3, <1>4

\* A request takes a token and puts its own pending entry in the cache.
LEMMA SteStartsInv == ASSUME SteInv, NEW r \in SteRequests, SteStarts(r) PROVE SteInv'
<1> USE SteConstants
<1> DEFINE key == steAt[r].key
<1>0. /\ steAt \in [SteRequests -> SteAtSet] /\ key \in SteKeys /\ steAt[r].out = "open"
      /\ steAt[r].at = "looks" /\ steTable[key].is # "pending" /\ ~SteKept(key)
  BY DEF SteInv, SteShapes, SteVerdictsInv, SteAtSet, SteStarts
<1> HIDE DEF key
<1>1. CASE steTokens = 0
  <2>0. "ends" \in SteAts /\ "refused" \in SteOuts
    BY DEF SteAts, SteOuts
  <2>1. PICK a \in SteAtSet :
           /\ a.at = "ends" /\ a.out = "refused"
           /\ SteEnded(r, "ends", "refused") = SteHaving(r, a)
    BY <2>0, SteCarries
  <2>2. /\ steAt' = [steAt EXCEPT ![r] = a]
        /\ UNCHANGED <<steTable, steTokens, steClock, stePanics, steIndex, steActive, steSince, steKnown>>
    BY <1>1, <2>1 DEF SteStarts, SteEnds, SteEnded, SteHaving
  <2> QED BY <1>0, <2>1, <2>2, SteGoesInv
<1>2. CASE steTokens # 0
  <2>0. "computes" \in SteAts /\ "open" \in SteOuts
    BY DEF SteAts, SteOuts
  <2>1. PICK a \in SteAtSet :
           /\ a.at = "computes" /\ a.out = "open" /\ a.key = key
           /\ SteOnwards(r, "computes") = SteHaving(r, a)
    BY <1>0, <2>0, SteCarries DEF key
  <2> DEFINE e == [is |-> "pending", by |-> r]
  <2>2. /\ steAt' = [steAt EXCEPT ![r] = a] /\ steTokens' = steTokens - 1
        /\ steTable' = [steTable EXCEPT ![key] = e]
        /\ UNCHANGED <<steClock, stePanics, steIndex, steActive, steSince, steKnown>>
    BY <1>2, <2>1 DEF SteStarts, SteGo, SteOnwards, SteHaving, key
  <2>3. e \in StePendingSet /\ e.is = "pending" /\ e.by = r
    BY DEF StePendingSet
  <2> HIDE DEF e
  <2>4. /\ steAt'[r] = a /\ \A o \in SteRequests \ {r} : steAt'[o] = steAt[o]
        /\ steTable'[key] = e /\ \A k \in SteKeys \ {key} : steTable'[k] = steTable[k]
    BY <1>0, <2>2 DEF SteInv, SteShapes, SteTableSet
  <2>5. SteShapes'
    <3>1. steAt' \in [SteRequests -> SteAtSet] /\ steTable' \in SteTableSet
      BY <1>0, <2>2, <2>3 DEF SteInv, SteShapes, SteTableSet
    <3>2. steTokens' \in 0..SteBudget
      BY <1>2, <2>2 DEF SteInv, SteShapes
    <3> QED BY <2>2, <3>1, <3>2 DEF SteInv, SteShapes
  <2>6. SteCountInv'
    BY <1>0, <2>1, <2>2, <2>4, SteCountStays
  <2>7. SteVerdictsInv'
    <3>1. SteOneComputes'
      <4> SUFFICES ASSUME NEW o \in SteRequests, steAt'[o].at = "computes"
                   PROVE  steTable'[steAt'[o].key] = [is |-> "pending", by |-> o]
        BY DEF SteOneComputes
      <4>1. CASE o = r
        BY <2>1, <2>4, <4>1 DEF e
      <4>2. CASE o # r
        <5>1. steTable[steAt[o].key] = [is |-> "pending", by |-> o] /\ steAt'[o] = steAt[o]
          BY <2>4, <4>2 DEF SteInv, SteVerdictsInv, SteOneComputes
        <5>2. steAt[o].key # key /\ steAt[o].key \in SteKeys
          BY <1>0, <5>1 DEF SteAtSet
        <5> QED BY <2>4, <5>1, <5>2
      <4> QED BY <4>1, <4>2
    <3>2. SteNobodyIsStuck'
      <4> SUFFICES ASSUME NEW k \in SteKeys, steTable'[k].is = "pending"
                   PROVE  steAt'[steTable'[k].by].at = "computes" /\ steAt'[steTable'[k].by].key = k
        BY DEF SteNobodyIsStuck
      <4>1. CASE k = key
        BY <2>1, <2>3, <2>4, <4>1
      <4>2. CASE k # key
        <5>1. steTable'[k] = steTable[k] /\ steTable[k].by \in SteRequests
          BY <2>4, <4>2, SteEntryOf
        <5>2. steAt[steTable[k].by].at = "computes" /\ steAt[steTable[k].by].key = k
          BY <5>1 DEF SteInv, SteVerdictsInv, SteNobodyIsStuck
        <5> QED BY <1>0, <2>4, <5>1, <5>2
      <4> QED BY <4>1, <4>2
    <3>3. SteVerdictsAreTrue'
      BY <2>1, <2>4 DEF SteInv, SteVerdictsInv, SteVerdictsAreTrue
    <3>4. \A o \in SteRequests : steAt'[o].at # "ends" => steAt'[o].out = "open"
      BY <2>1, <2>4 DEF SteInv, SteVerdictsInv
    <3>5. \A k \in SteKeys : steTable'[k].is = "kept" => (steTable'[k].ok <=> k = SteGood)
      BY <2>3, <2>4 DEF SteInv, SteVerdictsInv
    <3>6. steClock' < steKnown' =>
             steTable'[SteGood].is = "kept" /\ steTable'[SteGood].ok /\ steTable'[SteGood].until = steKnown'
      <4> SUFFICES ASSUME steClock < steKnown
                   PROVE  /\ steTable'[SteGood].is = "kept" /\ steTable'[SteGood].ok
                          /\ steTable'[SteGood].until = steKnown
        BY <2>2
      <4>1. steTable[SteGood].is = "kept" /\ steTable[SteGood].ok /\ steTable[SteGood].until = steKnown
        BY DEF SteInv, SteVerdictsInv
      <4>2. key # SteGood
        BY <1>0, <4>1 DEF SteKept
      <4> QED BY <2>4, <4>1, <4>2
    <3> QED BY <3>1, <3>2, <3>3, <3>4, <3>5, <3>6 DEF SteVerdictsInv
  <2>8. SteSharesInv'
    BY <2>2, SteSharesStay
  <2> QED BY <2>5, <2>6, <2>7, <2>8 DEF SteInv
<1> QED BY <1>1, <1>2

\* A computation that is through leaves its entry to what the table becomes.
LEMMA SteThroughInv ==
    ASSUME SteInv, NEW r \in SteRequests, NEW new \in SteAtSet, steAt[r].at = "computes",
           steAt' = [steAt EXCEPT ![r] = new], new.at \in {"proxies", "ends"},
           new.at = "proxies" => new.key = SteGood /\ new.out = "open",
           new.out = "wrong" => new.key # SteGood,
           steTable' \in SteTableSet, steTable'[steAt[r].key].is # "pending",
           \A k \in SteKeys \ {steAt[r].key} :
              \/ steTable'[k] = steTable[k]
              \/ /\ steTable'[k] = SteNone /\ steTable[k].is = "kept"
                 /\ k = SteGood => steClock > steTable[k].until,
           steTable'[steAt[r].key].is = "kept" =>
              (steTable'[steAt[r].key].ok <=> steAt[r].key = SteGood),
           \/ steKnown' = steKnown
           \/ /\ steKnown' \in Nat /\ steTable'[SteGood].is = "kept" /\ steTable'[SteGood].ok
              /\ steTable'[SteGood].until = steKnown',
           stePanics' \in Nat,
           UNCHANGED <<steTokens, steClock, steIndex, steActive, steSince>>
    PROVE  SteInv'
<1> USE SteConstants
<1> DEFINE key == steAt[r].key
<1>0. /\ steAt \in [SteRequests -> SteAtSet] /\ key \in SteKeys /\ steAt'[r] = new
      /\ \A o \in SteRequests \ {r} : steAt'[o] = steAt[o]
      /\ steTable[key] = [is |-> "pending", by |-> r]
  BY DEF SteInv, SteShapes, SteAtSet, SteVerdictsInv, SteOneComputes
<1> HIDE DEF key
<1>1. SteShapes'
  BY DEF SteInv, SteShapes
<1>2. SteCountInv'
  BY <1>0, SteCountStays
<1>3. SteSharesInv'
  BY SteSharesStay
<1>4. SteOneComputes'
  <2> SUFFICES ASSUME NEW o \in SteRequests, steAt'[o].at = "computes"
               PROVE  steTable'[steAt'[o].key] = [is |-> "pending", by |-> o]
    BY DEF SteOneComputes
  <2>1. o # r /\ steAt'[o] = steAt[o]
    BY <1>0
  <2>2. steTable[steAt[o].key] = [is |-> "pending", by |-> o]
    BY <2>1 DEF SteInv, SteVerdictsInv, SteOneComputes
  <2>3. steAt[o].key \in SteKeys
    BY <1>0 DEF SteAtSet
  <2>4. steAt[o].key # key
    BY <1>0, <2>1, <2>2
  <2> QED BY <2>1, <2>2, <2>3, <2>4 DEF key
<1>5. SteNobodyIsStuck'
  <2> SUFFICES ASSUME NEW k \in SteKeys, steTable'[k].is = "pending"
               PROVE  steAt'[steTable'[k].by].at = "computes" /\ steAt'[steTable'[k].by].key = k
    BY DEF SteNobodyIsStuck
  <2>1. k # key /\ steTable'[k] = steTable[k]
    BY DEF key, SteNone
  <2>2. steTable[k].by \in SteRequests
    BY <2>1, SteEntryOf
  <2>3. steAt[steTable[k].by].at = "computes" /\ steAt[steTable[k].by].key = k
    BY <2>1 DEF SteInv, SteVerdictsInv, SteNobodyIsStuck
  <2>4. steTable[k].by # r
    BY <2>1, <2>3 DEF key
  <2> QED BY <1>0, <2>1, <2>2, <2>3, <2>4
<1>6. SteVerdictsAreTrue'
  BY <1>0 DEF SteInv, SteVerdictsInv, SteVerdictsAreTrue
<1>7. \A o \in SteRequests : steAt'[o].at # "ends" => steAt'[o].out = "open"
  BY <1>0 DEF SteInv, SteVerdictsInv
<1>8. \A k \in SteKeys : steTable'[k].is = "kept" => (steTable'[k].ok <=> k = SteGood)
  <2> TAKE k \in SteKeys
  <2>1. CASE k = key
    BY <2>1 DEF key
  <2>2. CASE k # key
    BY <2>2 DEF key, SteInv, SteVerdictsInv, SteNone
  <2> QED BY <2>1, <2>2
<1>9. steClock' < steKnown' =>
         steTable'[SteGood].is = "kept" /\ steTable'[SteGood].ok /\ steTable'[SteGood].until = steKnown'
  <2> SUFFICES ASSUME steClock < steKnown, steKnown' = steKnown
               PROVE  /\ steTable'[SteGood].is = "kept" /\ steTable'[SteGood].ok
                      /\ steTable'[SteGood].until = steKnown
    OBVIOUS
  <2>1. steTable[SteGood].is = "kept" /\ steTable[SteGood].ok /\ steTable[SteGood].until = steKnown
    BY DEF SteInv, SteVerdictsInv
  <2>2. SteGood # key
    BY <1>0, <2>1
  <2>3. steClock \in Nat /\ steKnown \in Nat /\ ~(steClock > steKnown)
    BY DEF SteInv, SteShapes
  <2>4. steTable'[SteGood] = steTable[SteGood]
    BY <2>1, <2>2, <2>3 DEF key
  <2> QED BY <2>1, <2>4
<1> QED BY <1>1, <1>2, <1>3, <1>4, <1>5, <1>6, <1>7, <1>8, <1>9 DEF SteInv, SteVerdictsInv

\* A comparison ends: its verdict replaces the pending entry.
LEMMA SteComputesInv == ASSUME SteInv, NEW r \in SteRequests, SteComputes(r) PROVE SteInv'
<1> USE SteConstants
<1> DEFINE key == steAt[r].key
           ok == key = SteGood
           until == steClock + (IF ok THEN SteGoodFor ELSE SteBadFor)
           e == [is |-> "kept", ok |-> ok, until |-> until]
           t == [steTable EXCEPT ![key] = e]
<1>0. /\ steAt \in [SteRequests -> SteAtSet] /\ key \in SteKeys /\ steAt[r].out = "open"
      /\ steAt[r].at = "computes" /\ steClock \in Nat /\ steTable \in SteTableSet
  BY DEF SteInv, SteShapes, SteVerdictsInv, SteAtSet, SteComputes
<1>1. until \in Nat /\ until > steClock
  BY <1>0
<1>2. e \in SteKeptSet /\ e.is = "kept" /\ (e.ok <=> key = SteGood) /\ e.until = until
  BY <1>1 DEF SteKeptSet
<1>3. /\ steTable' = SteSwept(t) /\ SteVerdict(r, ok)
      /\ steKnown' = IF ok THEN until ELSE steKnown
      /\ UNCHANGED <<steTokens, steClock, stePanics, steIndex, steActive, steSince>>
  BY DEF SteComputes
<1> HIDE DEF e
<1>4. t \in SteTableSet /\ t[key] = e /\ \A k \in SteKeys \ {key} : t[k] = steTable[k]
  BY <1>0, <1>2 DEF SteTableSet
<1> HIDE DEF t, until
<1>5. /\ steTable' \in SteTableSet
      /\ \A k \in SteKeys : \/ steTable'[k] = t[k]
                            \/ /\ steTable'[k] = SteNone /\ t[k].is = "kept"
                               /\ steClock > t[k].until \/ ~t[k].ok
  BY <1>0, <1>3, <1>4, SteSweptTable
<1>6. steTable'[key].is # "pending" /\ (steTable'[key].is = "kept" => (steTable'[key].ok <=> key = SteGood))
  BY <1>0, <1>2, <1>4, <1>5 DEF SteNone
<1>7. \A k \in SteKeys \ {key} :
         \/ steTable'[k] = steTable[k]
         \/ /\ steTable'[k] = SteNone /\ steTable[k].is = "kept"
            /\ k = SteGood => steClock > steTable[k].until
  BY <1>4, <1>5 DEF SteInv, SteVerdictsInv
<1>8. \/ steKnown' = steKnown
      \/ /\ steKnown' \in Nat /\ steTable'[SteGood].is = "kept" /\ steTable'[SteGood].ok
         /\ steTable'[SteGood].until = steKnown'
  <2>1. CASE ok
    <3>1. steKnown' = until /\ key = SteGood
      BY <1>3, <2>1
    <3>2. t[key].ok /\ t[key].until = until /\ ~(steClock > until)
      BY <1>0, <1>1, <1>2, <1>4, <3>1
    <3>3. steTable'[key] = e
      BY <1>0, <1>4, <1>5, <3>2
    <3> QED BY <1>1, <1>2, <3>1, <3>3
  <2>2. CASE ~ok
    BY <1>3, <2>2
  <2> QED BY <2>1, <2>2
<1>9. \E a \in SteAtSet :
         /\ steAt' = [steAt EXCEPT ![r] = a] /\ a.at \in {"proxies", "ends"}
         /\ a.at = "proxies" => a.key = SteGood /\ a.out = "open"
         /\ a.out = "wrong" => a.key # SteGood
  <2>0. {"proxies", "ends"} \subseteq SteAts /\ {"open", "wrong"} \subseteq SteOuts
    BY DEF SteAts, SteOuts
  <2>1. CASE ok
    <3>1. PICK a \in SteAtSet :
             /\ a.at = "proxies" /\ a.out = "open" /\ a.key = key
             /\ SteOnwards(r, "proxies") = SteHaving(r, a)
      BY <1>0, <2>0, SteCarries
    <3>2. steAt' = [steAt EXCEPT ![r] = a]
      BY <1>3, <2>1, <3>1 DEF SteVerdict, SteGo, SteOnwards, SteHaving
    <3> QED BY <2>1, <3>1, <3>2
  <2>2. CASE ~ok
    <3>1. PICK a \in SteAtSet :
             /\ a.at = "ends" /\ a.out = "wrong" /\ a.key = key
             /\ SteEnded(r, "ends", "wrong") = SteHaving(r, a)
      BY <1>0, <2>0, SteCarries
    <3>2. steAt' = [steAt EXCEPT ![r] = a]
      BY <1>3, <2>2, <3>1 DEF SteVerdict, SteEnds, SteEnded, SteHaving
    <3> QED BY <2>2, <3>1, <3>2
  <2> QED BY <2>1, <2>2
<1>10. stePanics' \in Nat
  BY <1>3 DEF SteInv, SteShapes
<1> HIDE DEF ok
<1> QED BY <1>0, <1>3, <1>5, <1>6, <1>7, <1>8, <1>9, <1>10, SteThroughInv

\* A comparison panics: its pending entry goes, and the request with it.
LEMMA StePanicsInv == ASSUME SteInv, NEW r \in SteRequests, StePanics(r) PROVE SteInv'
<1> USE SteConstants
<1> DEFINE key == steAt[r].key
<1>0. /\ steAt \in [SteRequests -> SteAtSet] /\ key \in SteKeys
      /\ steAt[r].at = "computes" /\ steTable \in SteTableSet
  BY DEF SteInv, SteShapes, SteAtSet, StePanics
<1>1. steTable[key] = [is |-> "pending", by |-> r]
  BY <1>0 DEF SteInv, SteVerdictsInv, SteOneComputes
<1>2. /\ steTable' = [steTable EXCEPT ![key] = SteNone] /\ SteEnds(r, "failed")
      /\ stePanics' = stePanics + 1
      /\ UNCHANGED <<steTokens, steClock, steIndex, steActive, steSince, steKnown>>
  BY <1>1 DEF StePanics, StePanicClears
<1>3. /\ steTable' \in SteTableSet /\ steTable'[key] = SteNone
      /\ \A k \in SteKeys \ {key} : steTable'[k] = steTable[k]
  BY <1>0, <1>2 DEF SteTableSet
<1>4. "ends" \in SteAts /\ "failed" \in SteOuts
  BY DEF SteAts, SteOuts
<1>5. PICK a \in SteAtSet :
         /\ a.at = "ends" /\ a.out = "failed" /\ a.key = key
         /\ SteEnded(r, "ends", "failed") = SteHaving(r, a)
  BY <1>4, SteCarries
<1>6. steAt' = [steAt EXCEPT ![r] = a]
  BY <1>2, <1>5 DEF SteEnds, SteEnded, SteHaving
<1>7. stePanics' \in Nat
  BY <1>2 DEF SteInv, SteShapes
<1>8. steTable'[key].is = "none"
  BY <1>3 DEF SteNone
<1> QED BY <1>0, <1>2, <1>3, <1>5, <1>6, <1>7, <1>8, SteThroughInv

\* A request is let through to the next backend of the wheel.
LEMMA SteProxiesInv == ASSUME SteInv, NEW r \in SteRequests, SteProxies(r) PROVE SteInv'
<1> USE SteConstants
<1>0. /\ steAt \in [SteRequests -> SteAtSet] /\ steAt[r].out = "open" /\ steAt[r].at = "proxies"
      /\ steAt[r].key = SteGood /\ steAt[r].key \in SteKeys
  BY DEF SteInv, SteShapes, SteVerdictsInv, SteVerdictsAreTrue, SteAtSet, SteProxies
<1> DEFINE got == IF steIndex = 0 THEN [i \in DOMAIN SteWeights |-> 0] ELSE steSince
           b == StePick(steIndex)
           n == SumFunctionOnSet(got, DOMAIN SteWeights)
<1>1. /\ steIndex' = (steIndex + 1) % SteWrap /\ steSince' = [got EXCEPT ![b] = @ + 1]
      /\ SteGo(r, "backend")
      /\ UNCHANGED <<steTable, steTokens, steClock, stePanics, steActive, steKnown>>
  BY DEF SteProxies
<1>2. steIndex \in Nat /\ steIndex < SteWrap /\ got \in [DOMAIN SteWeights -> Nat]
  BY DEF SteInv, SteShapes
<1>3. b \in DOMAIN SteWeights
  <2>1. 1 \in 1..Len(SteWeights)
    OBVIOUS
  <2> QED BY <1>2, <2>1, SteRingStep
<1>4. n = steIndex
  <2>1. CASE steIndex = 0
    BY <2>1, SteNoneGot
  <2>2. CASE steIndex # 0
    BY <2>2 DEF SteInv, SteSharesInv, SteGot
  <2> QED BY <2>1, <2>2
<1>5. ASSUME NEW c \in DOMAIN SteWeights
      PROVE  got[c] = (n \div SteLength) * SteWeights[c] + StePart(n % SteLength, c)
  <2>1. CASE steIndex = 0
    <3>1. n = 0 /\ SteLength \in Nat \ {0}
      BY <1>4, <2>1, SteRingPlaces
    <3>2. 0 \div SteLength = 0 /\ 0 % SteLength = 0
      BY <3>1, DividedOnly
    <3>3. StePart(0, c) = 0 /\ SteWeights[c] \in Nat
      BY StePartIs
    <3>4. got[c] = 0
      BY <2>1
    <3> HIDE DEF n, got
    <3> QED BY <3>1, <3>2, <3>3, <3>4
  <2>2. CASE steIndex # 0
    BY <2>2 DEF SteInv, SteSharesInv, SteGot
  <2> QED BY <2>1, <2>2
<1> HIDE DEF got, b
<1>6. steSince' \in [DOMAIN SteWeights -> Nat]
  BY <1>1, <1>2, <1>3
<1>7. SteGot' = n + 1
  <2>1. IsFiniteSet(DOMAIN SteWeights)
    BY FS_Interval
  <2>2. \A c \in DOMAIN SteWeights : got[c] \in Nat /\ steSince'[c] \in Nat
    BY <1>2, <1>6
  <2>3. n = got[b] + SumFunctionOnSet(got, DOMAIN SteWeights \ {b})
    BY <1>3, <2>1, <2>2, SumStep
  <2>4. SumFunctionOnSet(steSince', DOMAIN SteWeights)
           = steSince'[b] + SumFunctionOnSet(steSince', DOMAIN SteWeights \ {b})
    BY <1>3, <2>1, <2>2, SumStep
  <2>5. SumFunctionOnSet(steSince', DOMAIN SteWeights \ {b}) = SumFunctionOnSet(got, DOMAIN SteWeights \ {b})
    <3>1. IsFiniteSet(DOMAIN SteWeights \ {b})
      BY <2>1, FS_Subset
    <3>2. \A c \in DOMAIN SteWeights \ {b} : steSince'[c] \in Nat /\ steSince'[c] = got[c]
      BY <1>1, <1>2, <2>2
    <3> QED BY <3>1, <3>2, SumSame
  <2>6. SumFunctionOnSet(got, DOMAIN SteWeights \ {b}) \in Nat
    <3>1. IsFiniteSet(DOMAIN SteWeights \ {b})
      BY <2>1, FS_Subset
    <3> QED BY <2>2, <3>1, SumNatural
  <2>7. steSince'[b] = got[b] + 1 /\ got[b] \in Nat
    BY <1>1, <1>2, <1>3
  <2> QED BY <2>3, <2>4, <2>5, <2>6, <2>7 DEF SteGot
<1> HIDE DEF n
<1>8. SteSharesInv'
  <2>1. steIndex' # 0 => SteGot' = steIndex'
    <3>1. CASE steIndex + 1 < SteWrap
      <4>1. (steIndex + 1) % SteWrap = steIndex + 1
        <5>1. steIndex + 1 \in 0..(SteWrap - 1) /\ steIndex + 1 \in Nat /\ steIndex + 1 = 0 * SteWrap + (steIndex + 1)
          BY <1>2, <3>1
        <5> QED BY <5>1, DividedOnly
      <4> QED BY <1>1, <1>4, <1>7, <4>1
    <3>2. CASE ~(steIndex + 1 < SteWrap)
      <4>1. steIndex + 1 = SteWrap
        BY <1>2, <3>2
      <4>2. (steIndex + 1) % SteWrap = 0
        <5>1. SteWrap \in Nat \ {0} /\ SteWrap = 1 * SteWrap + 0 /\ 0 \in 0..(SteWrap - 1)
          OBVIOUS
        <5>2. SteWrap % SteWrap = 0
          BY <5>1, DividedOnly
        <5> QED BY <4>1, <5>2
      <4> QED BY <1>1, <4>2
    <3> QED BY <3>1, <3>2
  <2>2. ASSUME NEW c \in DOMAIN SteWeights
        PROVE  steSince'[c] = (SteGot' \div SteLength) * SteWeights[c] + StePart(SteGot' % SteLength, c)
    <3> DEFINE before == (n \div SteLength) * SteWeights[c] + StePart(n % SteLength, c)
               after == ((n + 1) \div SteLength) * SteWeights[c] + StePart((n + 1) % SteLength, c)
    <3>1. after = before + (IF c = b THEN 1 ELSE 0)
      BY <1>2, <1>4, SteRingStep DEF b
    <3>2. got[c] = before /\ got[c] \in Nat
      BY <1>2, <1>5
    <3>3. steSince'[c] = IF c = b THEN got[c] + 1 ELSE got[c]
      BY <1>1, <1>2
    <3> HIDE DEF before, after
    <3>4. steSince'[c] = after
      BY <3>1, <3>2, <3>3
    <3> QED BY <1>7, <3>4 DEF after
  <2>3. SteLength' = SteLength /\ \A k, c : StePart(k, c)' = StePart(k, c)
    BY DEF SteLength, StePart, SteEnd
  <2> QED BY <2>1, <2>2, <2>3 DEF SteSharesInv
<1>9. "backend" \in SteAts /\ "open" \in SteOuts
  BY DEF SteAts, SteOuts
<1>10. PICK a \in SteAtSet :
          /\ a.at = "backend" /\ a.out = "open" /\ a.key = SteGood
          /\ SteOnwards(r, "backend") = SteHaving(r, a)
  BY <1>0, <1>9, SteCarries
<1>11. steAt' = [steAt EXCEPT ![r] = a]
  BY <1>1, <1>10 DEF SteGo, SteOnwards, SteHaving
<1>12. /\ steAt'[r] = a /\ \A o \in SteRequests \ {r} : steAt'[o] = steAt[o]
  BY <1>0, <1>11
<1>13. SteShapes'
  <2>1. steIndex' \in 0..(SteWrap - 1)
    BY <1>1, <1>2, Divided
  <2> QED BY <1>0, <1>1, <1>6, <1>11, <2>1 DEF SteInv, SteShapes
<1>14. SteCountInv'
  BY <1>0, <1>1, <1>10, <1>12, SteCountStays
<1>15. SteVerdictsInv'
  <2>1. SteOneComputes'
    BY <1>1, <1>10, <1>12 DEF SteInv, SteVerdictsInv, SteOneComputes
  <2>2. SteNobodyIsStuck'
    <3> SUFFICES ASSUME NEW k \in SteKeys, steTable[k].is = "pending"
                 PROVE  steAt'[steTable[k].by].at = "computes" /\ steAt'[steTable[k].by].key = k
      BY <1>1 DEF SteNobodyIsStuck
    <3>1. steAt[steTable[k].by].at = "computes" /\ steAt[steTable[k].by].key = k
      BY DEF SteInv, SteVerdictsInv, SteNobodyIsStuck
    <3>2. steTable[k].by \in SteRequests
      BY SteEntryOf
    <3> QED BY <1>0, <1>12, <3>1, <3>2
  <2>3. SteVerdictsAreTrue'
    BY <1>0, <1>10, <1>12 DEF SteInv, SteVerdictsInv, SteVerdictsAreTrue
  <2>4. \A o \in SteRequests : steAt'[o].at # "ends" => steAt'[o].out = "open"
    BY <1>10, <1>12 DEF SteInv, SteVerdictsInv
  <2> QED BY <1>1, <2>1, <2>2, <2>3, <2>4 DEF SteInv, SteVerdictsInv
<1> QED BY <1>8, <1>13, <1>14, <1>15 DEF SteInv

\* Time passes: tokens come back, and entries grow old.
LEMMA SteTimePassesInv == ASSUME SteInv, SteTimePasses PROVE SteInv'
<1>1. /\ steClock' = steClock + 1 /\ steTokens' = SteBudget
      /\ UNCHANGED <<steAt, steTable, stePanics, steIndex, steActive, steSince, steKnown>>
  BY DEF SteTimePasses
<1>2. SteShapes'
  BY <1>1, SteConstants DEF SteInv, SteShapes
<1>3. SteCountInv' /\ SteSharesInv'
  BY <1>1, SteCountStays, SteSharesStay
<1>4. SteVerdictsInv'
  <2>1. steClock \in Nat /\ steKnown \in Nat
    BY DEF SteInv, SteShapes
  <2>2. steClock' < steKnown' => steClock < steKnown
    BY <1>1, <2>1
  <2> QED BY <1>1, <2>2 DEF SteInv, SteVerdictsInv, SteOneComputes, SteNobodyIsStuck, SteVerdictsAreTrue
<1> QED BY <1>2, <1>3, <1>4 DEF SteInv

\* Every step of the requests keeps their invariant.
LEMMA SteStepInv == ASSUME SteInv, [SteNext]_steVars PROVE SteInv'
<1>1. CASE UNCHANGED steVars
  <2>1. SteShapes' /\ SteVerdictsInv'
    BY <1>1 DEF steVars, SteInv, SteShapes, SteVerdictsInv, SteOneComputes, SteNobodyIsStuck,
                SteVerdictsAreTrue
  <2>2. SteCountInv' /\ SteSharesInv'
    BY <1>1, SteCountStays, SteSharesStay DEF steVars
  <2> QED BY <2>1, <2>2 DEF SteInv
<1>2. CASE SteNext
  BY <1>2, SteWayInv, SteStartsInv, SteComputesInv, StePanicsInv, SteProxiesInv, SteTimePassesInv
     DEF SteNext
<1> QED BY <1>1, <1>2

\* A request's visitor is served as promised: what the invariant is for.
LEMMA SteShows == SteInv => SteTypeOK /\ VisitorsAreServed
<1> SUFFICES ASSUME SteInv PROVE SteTypeOK /\ VisitorsAreServed
  OBVIOUS
<1>1. SteTypeOK
  <2>1. \A k \in SteKeys : steTable[k].is \in {"none", "pending", "kept"}
    BY SteEntryOf
  <2>2. steActive = Cardinality({r \in SteRequests : steAt[r].at \notin {"new", "done"}})
    BY DEF SteInv, SteCountInv, SteInside
  <2> QED BY <2>1, <2>2 DEF SteInv, SteShapes, SteTypeOK, SteAtSet, SteAts, SteOuts
<1>2. SteGoodIsKept
  BY DEF SteInv, SteVerdictsInv, SteGoodIsKept, SteKept
<1>3. SteSharesAreKept
  BY SteSharesShow DEF SteInv
<1> QED BY <1>1, <1>2, <1>3 DEF SteInv, SteVerdictsInv, VisitorsAreServed

-----------------------------------------------------------------------------
(* The guard: lists, bans and saves.                                       *)

\* The shapes of the guard's state.
BanEntrySet == [first : Int, strikes : Nat, burstAt : Int, bursts : Nat,
                until : -1..(BanHorizon + BanFor), seen : Int]
BanHitsSet == [0..BanHorizon -> Nat]
BanConfSet == [deny : SUBSET BanSources, allow : SUBSET BanSources, mode : {"all", "lan"}]

BanShapes ==
    /\ banKind \in BanKinds \union {"none"} /\ banNow \in 0..BanHorizon /\ banSwept \in 0..BanHorizon
    /\ banTable \in [BanSources -> BanEntrySet] /\ banHot \in -1..(BanHorizon + BanFor)
    /\ banConf \in BanConfSet
    /\ banMove = BanIdle \/ banMove \in [step : {"update", "unban"}, who : SUBSET BanSources]
    /\ banSave = BanIdle \/ banSave \in [step : {"update"}, conf : BanConfSet]
    /\ banCount \in [hits : Nat, asks : Nat]
    /\ banHits \in [BanSources -> BanHitsSet] /\ banDue \in [BanSources -> Int]
    /\ banUnearned = {} /\ banLost \subseteq BanSources
    /\ Cardinality(BanTaken(banTable)) <= BanCap

\* Whom nobody let go is on the list, or banned as long as is due.
BanListsInv ==
    /\ banKind # "services" => banLost = {} /\ banMove = BanIdle /\ banSave = BanIdle
    /\ banKind \notin {"services", "panel"} => banConf.deny = {} /\ banConf.allow = {}
    /\ banKind = "none" =>
          \A s \in BanSources : banTable[s] = BanFree /\ banHits[s] = BanNoHits
    /\ \A s \in BanSources \ (banLost \union banConf.deny) :
          banDue[s] <= banTable[s].until \/ banDue[s] <= banNow
    /\ banMove.step = "unban" => banMove.who \subseteq banConf.deny \union banLost
    /\ \A s \in BanSources : banTable[s].until <= banHot

\* The strikes of a source that ended without a ban, as its entry counts them.
BanCounted(e) == IF e.strikes < BanLimit THEN e.strikes ELSE 0

\* What an entry counts are strikes since its window began, and all of them that
\* no ban answered; those of the window before are fewer than earn a ban. Without
\* an entry a window has gone by, or the strikes were forgiven.
BanEntryCounts(e, h, kind) ==
    /\ e.strikes <= BanSince(h, e.first) /\ e.bursts <= BanSince(h, e.burstAt)
    /\ kind # "site" => e.strikes < BanLimit
    /\ kind # "services" => e.bursts = 0
    /\ kind = "site" => BanSince(h, e.seen + 1) = 0
    /\ \A x \in Int : x > e.first /\ (kind = "site" => x >= e.until) =>
          BanSince(h, x) <= BanCounted(e)
    /\ \A x \in Int : x > e.first - BanWindow /\ (kind = "site" => x >= e.until) =>
          BanSince(h, x) <= BanLimit - 1 + BanCounted(e)

BanEntryAt(e, h, now, kind) ==
    /\ \A x \in Int : x > now => BanSince(h, x) = 0
    /\ e # BanFree =>
          /\ e.first \in 0..now /\ e.burstAt \in 0..now /\ e.seen \in 0..now
          /\ BanEntryCounts(e, h, kind)
    /\ e = BanFree =>
          \A x \in Int : x > now - BanWindow => BanSince(h, x) <= BanLimit - 1

BanEntryInv(e, h) == BanEntryAt(e, h, banNow, banKind)

BanCountsInv == \A s \in BanSources : BanEntryInv(banTable[s], banHits[s])

\* The inductive invariant of the guard.
BanInv == BanShapes /\ BanListsInv /\ BanCountsInv

\* What the assumptions say of the limits and the clock.
LEMMA BanConstants ==
    /\ BanLocal \subseteq BanNear /\ BanNear \subseteq BanSources /\ IsFiniteSet(BanSources)
    /\ BanCap \in Nat \ {0} /\ BanDenyMax \in Nat \ {0} /\ BanBurstLimit \in Nat \ {0}
    /\ BanSweepEvery \in Nat \ {0} /\ BanEvictBatch \in Nat \ {0} /\ BanFor \in Nat \ {0}
    /\ BanLimit \in Nat /\ BanLimit >= 2
    /\ BanWindow \in Nat /\ BanBurst \in Nat /\ BanHorizon \in Nat
BY BanAssumption

\* Strikes since a moment: fewer since a later one, one more with one more.
LEMMA BanSinceIs ==
    ASSUME NEW h \in BanHitsSet, NEW x \in Int
    PROVE  /\ BanSince(h, x) \in Nat /\ BanSince(BanNoHits, x) = 0
           /\ \A y \in Int : x <= y => BanSince(h, y) <= BanSince(h, x)
           /\ x > BanHorizon => BanSince(h, x) = 0
<1> USE BanConstants
<1> DEFINE S(y) == {m \in 0..BanHorizon : m >= y}
<1>1. ASSUME NEW y \in Int
      PROVE  IsFiniteSet(S(y)) /\ \A m \in S(y) : h[m] \in Nat /\ BanNoHits[m] = 0
  <2>1. IsFiniteSet(0..BanHorizon) /\ S(y) \subseteq 0..BanHorizon
    BY FS_Interval
  <2>2. IsFiniteSet(S(y))
    BY <2>1, FS_Subset
  <2> QED BY <2>2 DEF BanHitsSet, BanNoHits
<1>2. \A g, y : BanSince(g, y) = SumFunctionOnSet(g, S(y))
  BY DEF BanSince
<1> HIDE DEF S
<1>3. BanSince(h, x) \in Nat
  BY <1>1, <1>2, SumNatural
<1>4. BanSince(BanNoHits, x) = 0
  <2>1. Cardinality(S(x)) \in Nat
    BY <1>1, FS_CardinalityType
  <2>2. SumFunctionOnSet(BanNoHits, S(x)) = Cardinality(S(x)) * 0
    BY <1>1, SumConstant
  <2> QED BY <1>2, <2>1, <2>2
<1>5. ASSUME NEW y \in Int, x <= y PROVE BanSince(h, y) <= BanSince(h, x)
  <2>1. S(y) \subseteq S(x)
    BY <1>5 DEF S
  <2>2. \A m \in S(x) : h[m] \in Nat /\ h[m] \in Nat
    BY <1>1
  <2>3. \A m \in S(y) : h[m] <= h[m]
    BY <2>1, <2>2
  <2> QED BY <1>1, <1>2, <2>1, <2>2, <2>3, SumLess
<1>6. x > BanHorizon => BanSince(h, x) = 0
  <2>1. x > BanHorizon => S(x) = {}
    BY DEF S
  <2> QED BY <1>2, <2>1, SumEmpty
<1> QED BY <1>3, <1>4, <1>5, <1>6

\* One more hit in this moment.
BanMore(h, now) == [h EXCEPT ![now] = @ + 1]

\* One more hit counts in every span that reaches to now.
LEMMA BanSinceMore ==
    ASSUME NEW h \in BanHitsSet, NEW now \in 0..BanHorizon, NEW x \in Int
    PROVE  /\ BanMore(h, now) \in BanHitsSet
           /\ BanSince(BanMore(h, now), x) = BanSince(h, x) + (IF x <= now THEN 1 ELSE 0)
<1> USE BanConstants
<1> DEFINE S == {m \in 0..BanHorizon : m >= x}
           g == BanMore(h, now)
<1>1. IsFiniteSet(S)
  <2>1. IsFiniteSet(0..BanHorizon) /\ S \subseteq 0..BanHorizon
    BY FS_Interval
  <2> QED BY <2>1, FS_Subset
<1>2. \A f : BanSince(f, x) = SumFunctionOnSet(f, S)
  BY DEF BanSince
<1>3. /\ \A m \in S : h[m] \in Nat /\ g[m] \in Nat
      /\ \A m \in S : m # now => g[m] = h[m]
      /\ now \in S => g[now] = h[now] + 1
      /\ now \in S <=> x <= now
      /\ g \in BanHitsSet
  BY DEF BanHitsSet, BanMore
<1> HIDE DEF S, g
<1>4. CASE now \in S
  <2>1. SumFunctionOnSet(g, S) = g[now] + SumFunctionOnSet(g, S \ {now})
    BY <1>1, <1>3, <1>4, SumStep
  <2>2. SumFunctionOnSet(h, S) = h[now] + SumFunctionOnSet(h, S \ {now})
    BY <1>1, <1>3, <1>4, SumStep
  <2>3. IsFiniteSet(S \ {now}) /\ \A m \in S \ {now} : g[m] \in Nat /\ g[m] = h[m]
    BY <1>1, <1>3, FS_Subset
  <2>4. SumFunctionOnSet(g, S \ {now}) = SumFunctionOnSet(h, S \ {now})
    BY <2>3, SumSame
  <2>5. SumFunctionOnSet(h, S \ {now}) \in Nat
    <3>1. \A m \in S \ {now} : h[m] \in Nat
      BY <1>3
    <3> QED BY <2>3, <3>1, SumNatural
  <2>6. h[now] \in Nat
    BY <1>3, <1>4
  <2>7. SumFunctionOnSet(g, S) = SumFunctionOnSet(h, S) + 1
    BY <1>3, <1>4, <2>1, <2>2, <2>4, <2>5, <2>6
  <2> QED BY <1>2, <1>3, <1>4, <2>7 DEF g
<1>5. CASE now \notin S
  <2>1. \A m \in S : g[m] \in Nat /\ g[m] = h[m]
    BY <1>3, <1>5
  <2>2. SumFunctionOnSet(g, S) = SumFunctionOnSet(h, S)
    BY <1>1, <2>1, SumSame
  <2>3. BanSince(g, x) = BanSince(h, x) /\ ~(x <= now)
    BY <1>2, <1>3, <1>5, <2>2
  <2> QED BY <1>3, <2>3, BanSinceIs DEF g
<1> QED BY <1>4, <1>5

\* No strike earns anything.
LEMMA BanForgiven ==
    ASSUME NEW now \in Int, NEW kind
    PROVE  BanEntryAt(BanFree, BanNoHits, now, kind) /\ BanNoHits \in BanHitsSet
<1>1. BanNoHits \in BanHitsSet
  BY DEF BanNoHits, BanHitsSet
<1>2. \A x \in Int : BanSince(BanNoHits, x) = 0
  BY <1>1, BanSinceIs
<1> QED BY <1>1, <1>2, BanConstants DEF BanEntryAt

\* An entry that is stale has nothing left that counts.
LEMMA BanStaleGoes ==
    ASSUME BanShapes, NEW e \in BanEntrySet, NEW h \in BanHitsSet, BanEntryInv(e, h), e # BanFree,
           \/ banKind # "site" /\ banNow > e.until /\ banNow - e.first >= BanWindow
           \/ banKind = "site" /\ BanSiteStale(e)
    PROVE  BanEntryInv(BanFree, h)
<1> USE BanConstants
<1>1. banNow \in Nat /\ e.first \in 0..banNow /\ e.seen \in 0..banNow /\ e.strikes \in Nat
  BY DEF BanShapes, BanEntryInv, BanEntryAt, BanEntryCounts, BanEntrySet
<1>2. ASSUME NEW x \in Int, x > banNow - BanWindow
      PROVE  BanSince(h, x) <= BanLimit - 1
  <2>1. BanCounted(e) \in Nat /\ BanCounted(e) <= BanLimit - 1
    BY <1>1 DEF BanCounted
  <2>2. BanSince(h, x) \in Nat
    BY BanSinceIs
  <2>3. CASE banKind # "site" /\ banNow - e.first >= BanWindow
    <3>1. x > e.first
      BY <1>1, <1>2, <2>3
    <3>2. BanSince(h, x) <= BanCounted(e)
      BY <2>3, <3>1 DEF BanEntryInv, BanEntryAt, BanEntryCounts
    <3> QED BY <2>1, <2>2, <3>2
  <2>4. CASE banKind = "site" /\ banNow - e.seen >= BanWindow
    <3>1. e.seen + 1 <= x /\ e.seen + 1 \in Int
      BY <1>1, <1>2, <2>4
    <3>2. BanSince(h, x) <= BanSince(h, e.seen + 1)
      BY <3>1, BanSinceIs
    <3>3. BanSince(h, e.seen + 1) = 0
      BY <2>4 DEF BanEntryInv, BanEntryAt, BanEntryCounts
    <3> QED BY <2>2, <3>2, <3>3
  <2> QED BY <2>3, <2>4 DEF BanSiteStale
<1> QED BY <1>2 DEF BanEntryInv, BanEntryAt, BanEntryCounts

\* Time only makes less of what is recent.
LEMMA BanEntryWaits ==
    ASSUME BanShapes, NEW e \in BanEntrySet, NEW h \in BanHitsSet, BanEntryInv(e, h),
           banNow' = banNow + 1, banKind' = banKind
    PROVE  BanEntryInv(e, h)'
<1> USE BanConstants
<1>1. banNow \in Nat
  BY DEF BanShapes
<1> DEFINE k == banNow + 1
<1>2. k \in Int /\ k > banNow
  BY <1>1
<1>3. BanEntryAt(e, h, banNow, banKind)
  BY DEF BanEntryInv
<1>4. banNow' = k
  OBVIOUS
<1> HIDE DEF k
<1>5. \A x \in Int : x > k => BanSince(h, x) = 0
  BY <1>1, <1>2, <1>3 DEF BanEntryAt
<1>6. e # BanFree =>
      /\ e.first \in 0..k /\ e.burstAt \in 0..k /\ e.seen \in 0..k
      /\ BanEntryCounts(e, h, banKind)
  BY <1>1, <1>2, <1>3 DEF BanEntryAt
<1>7. e = BanFree => \A x \in Int : x > k - BanWindow => BanSince(h, x) <= BanLimit - 1
  BY <1>1, <1>2, <1>3 DEF BanEntryAt
<1>8. BanEntryAt(e, h, k, banKind)
  BY <1>5, <1>6, <1>7 DEF BanEntryAt
<1> QED BY <1>4, <1>8 DEF BanEntryInv

\* A new entry takes over what the one before left to count.
LEMMA BanFreshInv ==
    ASSUME BanShapes, NEW h \in BanHitsSet, BanEntryInv(BanFree, h)
    PROVE  BanEntryInv(BanFresh, h) /\ BanFresh \in BanEntrySet /\ BanFresh # BanFree
           /\ BanFresh.until = -1
<1> USE BanConstants
<1>1. banNow \in Nat
  BY DEF BanShapes
<1>2. /\ BanFresh = [first |-> banNow, strikes |-> 0, burstAt |-> banNow, bursts |-> 0,
                     until |-> -1, seen |-> banNow]
  BY DEF BanFresh
<1>3. BanFresh \in BanEntrySet /\ BanFresh # BanFree
  BY <1>1, <1>2 DEF BanEntrySet, BanFree
<1>4. BanCounted(BanFresh) = 0
  BY <1>2 DEF BanCounted
<1>5. BanSince(h, banNow) \in Nat
  BY <1>1, BanSinceIs
<1>6. BanSince(h, banNow + 1) = 0
  BY <1>1 DEF BanEntryInv, BanEntryAt, BanEntryCounts
<1> QED BY <1>1, <1>2, <1>3, <1>4, <1>5, <1>6 DEF BanEntryInv, BanEntryAt, BanEntryCounts

\* One more strike: what the entry becomes, and what it counts.
LEMMA BanStruckInv ==
    ASSUME BanShapes, banKind # "none", NEW e \in BanEntrySet, NEW h \in BanHitsSet,
           BanEntryInv(e, h), e # BanFree
    PROVE  LET a == BanStruck(e) IN
           /\ a \in BanEntrySet /\ a # BanFree
           /\ BanEntryInv(a, IF a.strikes = 0 THEN BanNoHits ELSE BanMore(h, banNow))
           /\ a.until = e.until \/ (a.until = banNow + BanFor /\ e.until <= banNow)
           /\ a.until > e.until => BanEarned(BanMore(h, banNow))
<1> USE BanConstants
<1> DEFINE a == BanStruck(e)
           m == BanMore(h, banNow)
           late == IF banKind = "site" THEN banNow - e.first >= BanWindow ELSE banNow - e.first > BanWindow
           strikes == IF late THEN 1 ELSE e.strikes + 1
           first == IF late THEN banNow ELSE e.first
           bursts == IF banNow - e.burstAt > BanBurst THEN 1 ELSE e.bursts + 1
           burstAt == IF banNow - e.burstAt > BanBurst THEN banNow ELSE e.burstAt
<1>1. /\ banNow \in Nat /\ banNow <= BanHorizon /\ banNow \in 0..BanHorizon
      /\ e.first \in 0..banNow /\ e.burstAt \in 0..banNow /\ e.seen \in 0..banNow
      /\ e.strikes \in Nat /\ e.bursts \in Nat /\ e.until \in -1..(BanHorizon + BanFor)
  BY DEF BanShapes, BanEntryInv, BanEntryAt, BanEntryCounts, BanEntrySet
<1>2. /\ m \in BanHitsSet
      /\ \A x \in Int : BanSince(m, x) = BanSince(h, x) + (IF x <= banNow THEN 1 ELSE 0)
      /\ \A x \in Int : BanSince(h, x) \in Nat
      /\ \A x \in Int : x > banNow => BanSince(h, x) = 0
  <2>1. \A x \in Int : x > banNow => BanSince(h, x) = 0
    BY DEF BanEntryInv, BanEntryAt, BanEntryCounts
  <2>2. ASSUME NEW x \in Int
        PROVE  /\ BanSince(m, x) = BanSince(h, x) + (IF x <= banNow THEN 1 ELSE 0)
               /\ BanSince(h, x) \in Nat /\ m \in BanHitsSet
    BY <1>1, BanSinceIs, BanSinceMore
  <2> HIDE DEF m
  <2> QED BY <2>1, <2>2
<1>3. e = [first |-> e.first, strikes |-> e.strikes, burstAt |-> e.burstAt, bursts |-> e.bursts,
           until |-> e.until, seen |-> e.seen]
  BY DEF BanEntrySet
<1>4. /\ e.strikes <= BanSince(h, e.first) /\ e.bursts <= BanSince(h, e.burstAt)
      /\ banKind # "site" => e.strikes < BanLimit
      /\ banKind # "services" => e.bursts = 0
      /\ \A x \in Int : x > e.first /\ (banKind = "site" => x >= e.until) =>
            BanSince(h, x) <= BanCounted(e)
      /\ \A x \in Int : x > e.first - BanWindow /\ (banKind = "site" => x >= e.until) =>
            BanSince(h, x) <= BanLimit - 1 + BanCounted(e)
  BY DEF BanEntryInv, BanEntryAt, BanEntryCounts
<1>5. BanLive(e) <=> banNow < e.until
  BY DEF BanLive

\* What begins a ban, or lets one go on: nothing counts.
<1>6. ASSUME NEW b \in BanEntrySet, b.strikes = 0, b.bursts = 0, b.first = banNow,
             b.burstAt \in 0..banNow, b.seen \in 0..banNow
      PROVE  b # BanFree /\ BanEntryInv(b, BanNoHits)
  <2>1. \A x \in Int : BanSince(BanNoHits, x) = 0
    BY <1>1, BanSinceIs
  <2>2. BanCounted(b) = 0
    BY <1>6 DEF BanCounted
  <2>3. b # BanFree
    BY <1>1, <1>6 DEF BanFree
  <2> QED BY <1>1, <1>6, <2>1, <2>2, <2>3 DEF BanEntryInv, BanEntryAt, BanEntryCounts

\* What goes on counting.
<1>7. ASSUME NEW b \in BanEntrySet, b.strikes = strikes, b.first = first, b.until = e.until,
             b.seen = (IF banKind = "site" THEN banNow ELSE e.seen),
             \/ b.bursts = bursts /\ b.burstAt = burstAt /\ banKind = "services"
             \/ b.bursts = e.bursts /\ b.burstAt = e.burstAt /\ banKind # "services",
             \/ strikes < BanLimit
             \/ banKind = "site" /\ banNow < e.until
      PROVE  b # BanFree /\ b.strikes # 0 /\ BanEntryInv(b, m)
  <2>1. b.strikes \in Nat /\ b.strikes # 0 /\ b.first \in 0..banNow /\ b.burstAt \in 0..banNow
        /\ b.seen \in 0..banNow /\ b.until = e.until
    BY <1>1, <1>7
  <2>2. b # BanFree
    BY <2>1 DEF BanFree
  <2>3. \A x \in Int : x > banNow => BanSince(m, x) = 0
    BY <1>1, <1>2
  <2>4. b.strikes <= BanSince(m, b.first)
    <3>1. CASE late
      <4>1. b.strikes = 1 /\ b.first = banNow
        BY <1>7, <3>1
      <4> QED BY <1>1, <1>2, <4>1
    <3>2. CASE ~late
      <4>1. b.strikes = e.strikes + 1 /\ b.first = e.first
        BY <1>7, <3>2
      <4> QED BY <1>1, <1>2, <1>4, <4>1
    <3> QED BY <3>1, <3>2
  <2>5. b.bursts <= BanSince(m, b.burstAt)
    <3>1. CASE banKind = "services" /\ banNow - e.burstAt > BanBurst
      <4>1. b.bursts = 1 /\ b.burstAt = banNow
        BY <1>7, <3>1
      <4> QED BY <1>1, <1>2, <4>1
    <3>2. CASE banKind = "services" /\ ~(banNow - e.burstAt > BanBurst)
      <4>1. b.bursts = e.bursts + 1 /\ b.burstAt = e.burstAt
        BY <1>7, <3>2
      <4> QED BY <1>1, <1>2, <1>4, <4>1
    <3>3. CASE banKind # "services"
      <4>1. b.bursts = e.bursts /\ b.burstAt = e.burstAt
        BY <1>7, <3>3
      <4> QED BY <1>1, <1>2, <1>4, <4>1
    <3> QED BY <3>1, <3>2, <3>3
  <2>6. banKind # "site" => b.strikes < BanLimit
    BY <1>7
  <2>7. banKind # "services" => b.bursts = 0
    BY <1>4, <1>7
  <2>8. banKind = "site" => BanSince(m, b.seen + 1) = 0
    BY <1>1, <1>7, <2>3
  <2>9. CASE strikes < BanLimit
    <3>1. BanCounted(b) = strikes /\ strikes \in Nat
      BY <1>1, <1>7, <2>9 DEF BanCounted
    <3>2. ~late => e.strikes < BanLimit /\ BanCounted(e) = e.strikes /\ strikes = e.strikes + 1
      BY <1>1, <2>9 DEF BanCounted
    <3>3. ASSUME NEW x \in Int, x > b.first, banKind = "site" => x >= b.until
          PROVE  BanSince(m, x) <= BanCounted(b)
      <4>1. CASE late
        <5>1. x > banNow
          BY <1>7, <3>3, <4>1
        <5> QED BY <2>3, <3>1, <5>1
      <4>2. CASE ~late
        <5>1. BanSince(h, x) <= e.strikes
          BY <1>4, <1>7, <3>2, <3>3, <4>2
        <5>2. BanSince(m, x) <= BanSince(h, x) + 1 /\ BanSince(h, x) \in Nat
          BY <1>2
        <5>3. BanSince(m, x) \in Nat
          BY <2>1, <1>2, BanSinceIs
        <5> QED BY <1>1, <3>1, <3>2, <4>2, <5>1, <5>2, <5>3
      <4> QED BY <4>1, <4>2
    <3>4. ASSUME NEW x \in Int, x > b.first - BanWindow, banKind = "site" => x >= b.until
          PROVE  BanSince(m, x) <= BanLimit - 1 + BanCounted(b)
      <4>0. BanSince(m, x) <= BanSince(h, x) + 1 /\ BanSince(h, x) \in Nat /\ BanSince(m, x) \in Nat
        BY <1>2, BanSinceIs
      <4>1. CASE late
        <5>1. strikes = 1 /\ b.first = banNow /\ banNow - e.first >= BanWindow
          BY <1>1, <1>7, <4>1
        <5>2. x > e.first
          BY <1>1, <3>4, <5>1
        <5>3. BanSince(h, x) <= BanCounted(e)
          BY <1>4, <1>7, <3>4, <5>2
        <5>4. BanCounted(e) \in Nat /\ BanCounted(e) <= BanLimit - 1
          BY <1>1 DEF BanCounted
        <5> QED BY <3>1, <4>0, <5>1, <5>3, <5>4
      <4>2. CASE ~late
        <5>1. BanSince(h, x) <= BanLimit - 1 + e.strikes
          BY <1>4, <1>7, <3>2, <3>4, <4>2
        <5> QED BY <1>1, <3>1, <3>2, <4>0, <4>2, <5>1
      <4> QED BY <4>1, <4>2
    <3> HIDE DEF late, strikes, first, bursts, burstAt, m
    <3> QED BY <2>1, <2>2, <2>3, <2>4, <2>5, <2>6, <2>7, <2>8, <3>3, <3>4 DEF BanEntryInv, BanEntryAt, BanEntryCounts
  <2>10. CASE ~(strikes < BanLimit)
    <3>1. banKind = "site" /\ banNow < b.until
      BY <1>7, <2>10
    <3>2. \A x \in Int : x >= b.until => BanSince(m, x) = 0
      BY <1>1, <2>1, <2>3, <3>1
    <3>3. BanCounted(b) \in Nat
      BY <2>1 DEF BanCounted
    <3> HIDE DEF late, strikes, first, bursts, burstAt, m
    <3> QED BY <2>1, <2>2, <2>3, <2>4, <2>5, <2>6, <2>7, <2>8, <3>1, <3>2, <3>3 DEF BanEntryInv, BanEntryAt, BanEntryCounts
  <2> QED BY <2>2, <2>1, <2>9, <2>10

\* A ban that the strikes of the window, or of the burst, earn.
<1>8. strikes >= BanLimit => BanEarned(m)
  <2> SUFFICES ASSUME strikes >= BanLimit PROVE BanSince(m, banNow - BanWindow) >= BanLimit
    BY DEF BanEarned
  <2>1. ~late /\ strikes = e.strikes + 1
    OBVIOUS
  <2>2. banNow - BanWindow <= e.first /\ banNow - BanWindow \in Int /\ e.first \in Int
    BY <1>1, <2>1
  <2>3. BanSince(h, e.first) <= BanSince(h, banNow - BanWindow)
    BY <2>2, BanSinceIs
  <2>4. BanSince(m, banNow - BanWindow) = BanSince(h, banNow - BanWindow) + 1
    BY <1>1, <1>2, <2>2
  <2>5. BanSince(h, e.first) \in Nat /\ BanSince(h, banNow - BanWindow) \in Nat
    BY <1>2, <2>2
  <2> QED BY <1>1, <1>4, <2>1, <2>3, <2>4, <2>5
<1>9. banKind = "services" /\ bursts >= BanBurstLimit => BanEarned(m)
  <2> SUFFICES ASSUME banKind = "services", bursts >= BanBurstLimit
               PROVE  BanSince(m, banNow - BanBurst) >= BanBurstLimit
    BY DEF BanEarned
  <2>1. banNow - BanBurst \in Int /\ banNow - BanBurst <= banNow
    BY <1>1
  <2>2. BanSince(m, banNow - BanBurst) = BanSince(h, banNow - BanBurst) + 1
        /\ BanSince(h, banNow - BanBurst) \in Nat
    BY <1>2, <2>1
  <2>3. CASE banNow - e.burstAt > BanBurst
    BY <2>2, <2>3
  <2>4. CASE ~(banNow - e.burstAt > BanBurst)
    <3>1. banNow - BanBurst <= e.burstAt /\ e.burstAt \in Int /\ bursts = e.bursts + 1
      BY <1>1, <2>4
    <3>2. BanSince(h, e.burstAt) <= BanSince(h, banNow - BanBurst) /\ BanSince(h, e.burstAt) \in Nat
      BY <2>1, <3>1, BanSinceIs
    <3> QED BY <1>1, <1>4, <2>2, <3>1, <3>2
  <2> QED BY <2>3, <2>4
<1>10. strikes \in Nat /\ bursts \in Nat /\ first \in 0..banNow /\ burstAt \in 0..banNow /\ strikes # 0
  BY <1>1
<1>11. banNow + BanFor \in -1..(BanHorizon + BanFor) /\ banNow \in Int
  BY <1>1
<1>12. CASE banKind = "services"
  <2>1. a = BanNoted(e)
    BY <1>12 DEF BanStruck
  <2>2. CASE BanLive(e)
    <3>1. a = [first |-> banNow, strikes |-> 0, burstAt |-> banNow, bursts |-> 0,
               until |-> e.until, seen |-> e.seen]
      BY <1>3, <2>1, <2>2 DEF BanNoted
    <3>2. a \in BanEntrySet
      BY <1>1, <3>1 DEF BanEntrySet
    <3> HIDE DEF a, m
    <3>3. a # BanFree /\ BanEntryInv(a, BanNoHits)
      BY <1>1, <1>6, <3>1, <3>2
    <3> QED BY <1>1, <3>1, <3>2, <3>3 DEF a, m
  <2>3. CASE ~BanLive(e) /\ (bursts >= BanBurstLimit \/ strikes >= BanLimit)
    <3>1. a = [first |-> banNow, strikes |-> 0, burstAt |-> banNow, bursts |-> 0,
               until |-> banNow + BanFor, seen |-> e.seen]
      BY <1>3, <1>12, <2>1, <2>3 DEF BanNoted, BanBegun
    <3>2. a \in BanEntrySet
      BY <1>1, <1>11, <3>1 DEF BanEntrySet
    <3> HIDE DEF a, m, bursts, strikes
    <3>3. a # BanFree /\ BanEntryInv(a, BanNoHits)
      BY <1>1, <1>6, <3>1, <3>2
    <3>4. BanEarned(m)
      BY <1>8, <1>9, <1>12, <2>3
    <3> QED BY <1>1, <1>5, <2>3, <3>1, <3>2, <3>3, <3>4 DEF a, m
  <2>4. CASE ~BanLive(e) /\ ~(bursts >= BanBurstLimit \/ strikes >= BanLimit)
    <3>1. a = [first |-> first, strikes |-> strikes, burstAt |-> burstAt, bursts |-> bursts,
               until |-> e.until, seen |-> e.seen]
      BY <1>3, <1>12, <2>1, <2>4 DEF BanNoted, BanBegun
    <3>2. a \in BanEntrySet
      <4> HIDE DEF bursts, strikes, first, burstAt
      <4> QED BY <1>1, <1>10, <3>1 DEF BanEntrySet
    <3>3. strikes < BanLimit
      <4> HIDE DEF bursts, strikes
      <4> QED BY <1>10, <2>4
    <3> HIDE DEF a, m, bursts, strikes, first, burstAt, late
    <3>4. a # BanFree /\ a.strikes # 0 /\ BanEntryInv(a, m)
      BY <1>1, <1>7, <1>12, <3>1, <3>2, <3>3
    <3> QED BY <1>1, <3>1, <3>2, <3>4 DEF a, m
  <2> QED BY <2>2, <2>3, <2>4
<1>13. CASE banKind = "panel"
  <2>1. a = BanPanelStruck(e)
    BY <1>13 DEF BanStruck
  <2>2. CASE BanLive(e)
    <3>1. a = [first |-> banNow, strikes |-> 0, burstAt |-> e.burstAt, bursts |-> e.bursts,
               until |-> e.until, seen |-> e.seen]
      BY <1>3, <2>1, <2>2 DEF BanPanelStruck
    <3>2. a \in BanEntrySet
      BY <1>1, <3>1 DEF BanEntrySet
    <3> HIDE DEF a, m
    <3>3. a # BanFree /\ BanEntryInv(a, BanNoHits)
      BY <1>1, <1>4, <1>6, <1>13, <3>1, <3>2
    <3> QED BY <1>1, <3>1, <3>2, <3>3 DEF a, m
  <2>3. CASE ~BanLive(e) /\ strikes >= BanLimit
    <3>1. a = [first |-> banNow, strikes |-> 0, burstAt |-> e.burstAt, bursts |-> e.bursts,
               until |-> banNow + BanFor, seen |-> e.seen]
      BY <1>3, <1>13, <2>1, <2>3 DEF BanPanelStruck
    <3>2. a \in BanEntrySet
      BY <1>1, <1>11, <3>1 DEF BanEntrySet
    <3> HIDE DEF a, m, strikes
    <3>3. a # BanFree /\ BanEntryInv(a, BanNoHits)
      BY <1>1, <1>4, <1>6, <1>13, <3>1, <3>2
    <3>4. BanEarned(m)
      BY <1>8, <2>3
    <3> QED BY <1>1, <1>5, <2>3, <3>1, <3>2, <3>3, <3>4 DEF a, m
  <2>4. CASE ~BanLive(e) /\ ~(strikes >= BanLimit)
    <3>1. a = [first |-> first, strikes |-> strikes, burstAt |-> e.burstAt, bursts |-> e.bursts,
               until |-> e.until, seen |-> e.seen]
      BY <1>3, <1>13, <2>1, <2>4 DEF BanPanelStruck
    <3>2. a \in BanEntrySet
      <4> HIDE DEF strikes, first
      <4> QED BY <1>1, <1>10, <3>1 DEF BanEntrySet
    <3>3. strikes < BanLimit
      <4> HIDE DEF bursts, strikes
      <4> QED BY <1>10, <2>4
    <3> HIDE DEF a, m, bursts, strikes, first, burstAt, late
    <3>4. a # BanFree /\ a.strikes # 0 /\ BanEntryInv(a, m)
      BY <1>1, <1>7, <1>13, <3>1, <3>2, <3>3
    <3> QED BY <1>1, <3>1, <3>2, <3>4 DEF a, m
  <2> QED BY <2>2, <2>3, <2>4
<1>14. CASE banKind = "site"
  <2>1. a = BanSiteStruck(e)
    BY <1>14 DEF BanStruck
  <2>2. CASE strikes < BanLimit \/ BanLive(e)
    <3>1. a = [first |-> first, strikes |-> strikes, burstAt |-> e.burstAt, bursts |-> e.bursts,
               until |-> e.until, seen |-> banNow]
      BY <1>3, <1>14, <2>1, <2>2 DEF BanSiteStruck
    <3>2. a \in BanEntrySet
      <4> HIDE DEF strikes, first
      <4> QED BY <1>1, <1>10, <3>1 DEF BanEntrySet
    <3>3. strikes < BanLimit \/ banNow < e.until
      BY <1>5, <2>2
    <3> HIDE DEF a, m, bursts, strikes, first, burstAt, late
    <3>4. a # BanFree /\ a.strikes # 0 /\ BanEntryInv(a, m)
      BY <1>1, <1>7, <1>14, <3>1, <3>2, <3>3
    <3> QED BY <1>1, <3>1, <3>2, <3>4 DEF a, m
  <2>3. CASE ~(strikes < BanLimit \/ BanLive(e))
    <3>1. a = [first |-> banNow, strikes |-> 0, burstAt |-> e.burstAt, bursts |-> e.bursts,
               until |-> banNow + BanFor, seen |-> banNow]
      BY <1>3, <1>14, <2>1, <2>3 DEF BanSiteStruck
    <3>2. a \in BanEntrySet
      BY <1>1, <1>11, <3>1 DEF BanEntrySet
    <3> HIDE DEF a, m, strikes
    <3>3. a # BanFree /\ BanEntryInv(a, BanNoHits)
      BY <1>1, <1>4, <1>6, <1>14, <3>1, <3>2
    <3>4. BanEarned(m)
      BY <1>8, <1>10, <2>3
    <3> QED BY <1>1, <1>5, <2>3, <3>1, <3>2, <3>3, <3>4 DEF a, m
  <2> QED BY <2>2, <2>3
<1> QED BY <1>12, <1>13, <1>14 DEF BanShapes, BanKinds

\* The guard begins with no entry, no ban and no hit.
LEMMA BanInitInv == BanInit => BanInv
<1> SUFFICES ASSUME BanInit PROVE BanInv
  OBVIOUS
<1> USE BanConstants
<1>1. BanTaken(banTable) = {} /\ Cardinality({}) = 0
  BY FS_EmptySet DEF BanInit, BanTaken
<1>2. BanFree \in BanEntrySet /\ BanNoHits \in BanHitsSet
  BY BanForgiven DEF BanEntrySet, BanFree
<1>3. BanShapes
  BY <1>1, <1>2 DEF BanInit, BanShapes, BanConfSet
<1>4. BanListsInv
  BY DEF BanInit, BanListsInv, BanIdle, BanFree
<1>5. BanCountsInv
  BY BanForgiven DEF BanInit, BanCountsInv, BanEntryInv
<1> QED BY <1>3, <1>4, <1>5 DEF BanInv

\* What leaves the table and the hits alone leaves what they say of each other.
LEMMA BanCountsKept ==
    ASSUME BanCountsInv, UNCHANGED <<banKind, banNow, banTable, banHits>>
    PROVE  BanCountsInv'
BY DEF BanCountsInv, BanEntryInv

\* Fewer sources are remembered.
LEMMA BanFewer ==
    ASSUME BanShapes, NEW t, BanTaken(t) \subseteq BanTaken(banTable)
    PROVE  /\ IsFiniteSet(BanTaken(t)) /\ Cardinality(BanTaken(t)) <= BanCap
           /\ Cardinality(BanTaken(t)) \in Nat
<1>1. BanTaken(banTable) \subseteq BanSources
  BY DEF BanTaken
<1>2. IsFiniteSet(BanTaken(banTable))
  BY <1>1, BanConstants, FS_Subset
<1>3. /\ IsFiniteSet(BanTaken(t)) /\ Cardinality(BanTaken(t)) <= Cardinality(BanTaken(banTable))
      /\ Cardinality(BanTaken(t)) \in Nat /\ Cardinality(BanTaken(banTable)) \in Nat
  BY <1>2, FS_Subset, FS_CardinalityType
<1>4. Cardinality(BanTaken(banTable)) <= BanCap /\ BanCap \in Nat
  BY BanConstants DEF BanShapes
<1> QED BY <1>3, <1>4

\* Whoever is released is forgiven.
LEMMA BanReleasedInv ==
    ASSUME BanShapes, BanCountsInv, NEW out, BanReleased(out), UNCHANGED <<banKind, banNow>>
    PROVE  /\ BanCountsInv'
           /\ banTable' \in [BanSources -> BanEntrySet] /\ banHits' \in [BanSources -> BanHitsSet]
           /\ Cardinality(BanTaken(banTable')) <= BanCap
           /\ \A s \in BanSources : banTable'[s].until = (IF s \in out THEN -1 ELSE banTable[s].until)
<1> USE BanConstants
<1>1. /\ banTable' = [s \in BanSources |-> IF s \in out THEN BanFree ELSE banTable[s]]
      /\ banHits' = [s \in BanSources |-> IF s \in out THEN BanNoHits ELSE banHits[s]]
  BY DEF BanReleased, BanWithout
<1>2. BanFree \in BanEntrySet /\ BanNoHits \in BanHitsSet /\ BanFree.until = -1 /\ banNow \in Int
  <2>1. banNow \in Int
    BY DEF BanShapes
  <2> QED BY <2>1, BanForgiven DEF BanEntrySet, BanFree
<1>3. banTable' \in [BanSources -> BanEntrySet] /\ banHits' \in [BanSources -> BanHitsSet]
  BY <1>1, <1>2 DEF BanShapes
<1>4. BanTaken(banTable') \subseteq BanTaken(banTable)
  BY <1>1 DEF BanTaken
<1>5. BanCountsInv'
  <2> SUFFICES ASSUME NEW s \in BanSources
               PROVE  BanEntryAt(banTable'[s], banHits'[s], banNow, banKind)
    BY DEF BanCountsInv, BanEntryInv
  <2>1. CASE s \in out
    BY <1>1, <1>2, <2>1, BanForgiven
  <2>2. CASE s \notin out
    <3>1. BanEntryAt(banTable[s], banHits[s], banNow, banKind)
      BY DEF BanCountsInv, BanEntryInv
    <3> QED BY <1>1, <2>2, <3>1
  <2> QED BY <2>1, <2>2
<1>6. \A s \in BanSources : banTable'[s].until = (IF s \in out THEN -1 ELSE banTable[s].until)
  BY <1>1, <1>2
<1> QED BY <1>3, <1>4, <1>5, <1>6, BanFewer

\* Sweeping drops what is stale, and nothing else.
LEMMA BanSweepDrops ==
    ASSUME BanInv, banKind # "none", NEW t \in [BanSources -> BanEntrySet], NEW o \in BanSources,
           t[o] # BanFree => BanEntryInv(t[o], banHits[o])
    PROVE  /\ BanDropStale(t)[o] \in BanEntrySet
           /\ \/ BanDropStale(t)[o] = t[o]
              \/ /\ BanDropStale(t)[o] = BanFree /\ t[o].until <= banNow
                 /\ BanEntryInv(BanFree, banHits[o])
<1> USE BanConstants
<1>1. BanShapes /\ BanFree \in BanEntrySet /\ banHits[o] \in BanHitsSet /\ t[o] \in BanEntrySet
      /\ banNow \in Nat /\ t[o].until \in Int
  BY DEF BanInv, BanShapes, BanEntrySet, BanFree
<1>2. CASE banKind \in {"services", "panel"}
  <2>1. BanDropStale(t)[o] = IF t[o] # BanFree /\ BanStale(t[o]) THEN BanFree ELSE t[o]
    BY <1>2 DEF BanDropStale, BanSwept, BanPanelSwept, BanPanelStale, BanStale, BanWithout, BanTaken
  <2>2. CASE t[o] # BanFree /\ BanStale(t[o])
    <3>1. banNow > t[o].until /\ banNow - t[o].first >= BanWindow
      BY <2>2 DEF BanStale
    <3>2. BanEntryInv(BanFree, banHits[o])
      BY <1>1, <1>2, <2>2, <3>1, BanStaleGoes
    <3> QED BY <1>1, <2>1, <2>2, <3>1, <3>2
  <2> QED BY <1>1, <2>1, <2>2
<1>3. CASE banKind = "site"
  <2>1. BanDropStale(t)[o] = IF t[o] # BanFree /\ BanSiteStale(t[o]) THEN BanFree ELSE t[o]
    BY <1>3 DEF BanDropStale, BanSiteSwept, BanWithout, BanTaken
  <2>2. CASE t[o] # BanFree /\ BanSiteStale(t[o])
    <3>1. t[o].until <= banNow
      BY <1>1, <2>2 DEF BanSiteStale, BanLive
    <3>2. BanEntryInv(BanFree, banHits[o])
      BY <1>1, <1>3, <2>2, BanStaleGoes
    <3> QED BY <1>1, <2>1, <2>2, <3>1, <3>2
  <2> QED BY <1>1, <2>1, <2>2
<1> QED BY <1>1, <1>2, <1>3 DEF BanShapes, BanKinds

\* What a table may lose: entries that are not live, with what they count.
BanLess(t, g) ==
    \A o \in BanSources :
        /\ t[o] \in BanEntrySet /\ g[o] \in BanHitsSet /\ BanEntryInv(t[o], g[o])
        /\ \/ t[o] = banTable[o]
           \/ t[o] = BanFree /\ banTable[o].until <= banNow

\* A sweep only takes entries away.
LEMMA BanSweepLess ==
    ASSUME BanInv, banKind # "none"
    PROVE  BanLess(BanAfterSweep, banHits) /\ BanAfterSweep \in [BanSources -> BanEntrySet]
<1>1. banTable \in [BanSources -> BanEntrySet] /\ banHits \in [BanSources -> BanHitsSet]
      /\ \A o \in BanSources : BanEntryInv(banTable[o], banHits[o])
  BY DEF BanInv, BanShapes, BanCountsInv
<1>2. ASSUME NEW o \in BanSources
      PROVE  /\ BanDropStale(banTable)[o] \in BanEntrySet
             /\ \/ BanDropStale(banTable)[o] = banTable[o]
                \/ /\ BanDropStale(banTable)[o] = BanFree /\ banTable[o].until <= banNow
                   /\ BanEntryInv(BanFree, banHits[o])
  BY <1>1, BanSweepDrops
<1>3. BanDropStale(banTable) = [o \in BanSources |-> BanDropStale(banTable)[o]]
  BY DEF BanDropStale, BanSwept, BanPanelSwept, BanSiteSwept, BanWithout
<1>4. CASE BanDueSweep
  <2>1. BanAfterSweep = BanDropStale(banTable)
    BY <1>4 DEF BanAfterSweep
  <2> QED BY <1>1, <1>2, <1>3, <2>1 DEF BanLess
<1>5. CASE ~BanDueSweep
  <2>1. BanAfterSweep = banTable
    BY <1>5 DEF BanAfterSweep
  <2> QED BY <1>1, <2>1 DEF BanLess
<1> QED BY <1>4, <1>5

\* Making room drops entries that no ban keeps.
LEMMA BanRoomLess ==
    ASSUME BanInv, banKind # "none", NEW s \in BanSources, NEW t \in BanRoom(BanAfterSweep, s)
    PROVE  LET g == [o \in BanSources |->
                        IF t[o] = BanFree /\ BanAfterSweep[o] # BanFree /\ banKind = "site"
                        THEN BanNoHits ELSE banHits[o]]
           IN  BanLess(t, g) /\ g[s] = banHits[s] /\ t \in [BanSources -> BanEntrySet]
<1> USE BanConstants
<1> DEFINE w == BanAfterSweep
           g == [o \in BanSources |->
                        IF t[o] = BanFree /\ w[o] # BanFree /\ banKind = "site"
                        THEN BanNoHits ELSE banHits[o]]
<1>1. /\ BanLess(w, banHits) /\ w \in [BanSources -> BanEntrySet]
      /\ banHits \in [BanSources -> BanHitsSet] /\ banTable \in [BanSources -> BanEntrySet]
      /\ banNow \in Nat /\ BanShapes /\ banKind \in BanKinds
  BY BanSweepLess DEF BanInv, BanShapes
<1>2. BanFree \in BanEntrySet /\ BanNoHits \in BanHitsSet /\ BanEntryInv(BanFree, BanNoHits)
  <2>1. banNow \in Int
    BY <1>1
  <2> QED BY <2>1, BanForgiven DEF BanEntryInv, BanEntrySet, BanFree
<1>3. CASE t = w
  <2>1. g = banHits
    BY <1>1, <1>3
  <2> QED BY <1>1, <1>3, <2>1
<1>4. CASE banKind # "site" /\ t = BanDropStale(w)
  <2>1. g = banHits
    BY <1>1, <1>4
  <2>2. ASSUME NEW o \in BanSources
        PROVE  /\ t[o] \in BanEntrySet /\ BanEntryInv(t[o], banHits[o])
               /\ \/ t[o] = banTable[o]
                  \/ t[o] = BanFree /\ banTable[o].until <= banNow
    <3>1. BanEntryInv(w[o], banHits[o])
          /\ (w[o] = banTable[o] \/ (w[o] = BanFree /\ banTable[o].until <= banNow))
      <4> HIDE DEF w
      <4> QED BY <1>1 DEF BanLess
    <3>2. /\ t[o] \in BanEntrySet
          /\ \/ t[o] = w[o]
             \/ t[o] = BanFree /\ w[o].until <= banNow /\ BanEntryInv(BanFree, banHits[o])
      BY <1>1, <1>4, <3>1, BanSweepDrops
    <3> QED BY <3>1, <3>2
  <2>3. t = [o \in BanSources |-> t[o]]
    BY <1>4 DEF BanDropStale, BanSwept, BanPanelSwept, BanSiteSwept, BanWithout
  <2> HIDE DEF g
  <2> QED BY <1>1, <2>1, <2>2, <2>3 DEF BanLess, g
<1>5. CASE banKind = "site" /\ t \in BanSiteEvicted(w) /\ s \notin BanTaken(w)
  <2>1. PICK gone \in SUBSET BanSiteEvictable(w) : t = BanWithout(w, gone)
    BY <1>5 DEF BanSiteEvicted
  <2>2. \A o \in gone : o \in BanTaken(w) /\ ~BanLive(w[o])
    BY <2>1 DEF BanSiteEvictable
  <2>3. t = [o \in BanSources |-> IF o \in gone THEN BanFree ELSE w[o]]
    BY <2>1 DEF BanWithout
  <2>4. t \in [BanSources -> BanEntrySet]
    BY <1>1, <1>2, <2>3
  <2>5. ASSUME NEW o \in BanSources
        PROVE  /\ t[o] \in BanEntrySet /\ g[o] \in BanHitsSet /\ BanEntryInv(t[o], g[o])
               /\ \/ t[o] = banTable[o]
                  \/ t[o] = BanFree /\ banTable[o].until <= banNow
    <3>1. BanEntryInv(w[o], banHits[o]) /\ banTable[o].until \in Int
          /\ (w[o] = banTable[o] \/ (w[o] = BanFree /\ banTable[o].until <= banNow))
      <4> HIDE DEF w
      <4>1. banTable[o].until \in Int
        BY <1>1 DEF BanEntrySet
      <4> QED BY <1>1, <4>1 DEF BanLess
    <3>2. CASE o \in gone
      <4>1. t[o] = BanFree /\ w[o] # BanFree /\ g[o] = BanNoHits
        BY <1>5, <2>2, <2>3, <3>2 DEF BanTaken
      <4>2. ~BanLive(w[o])
        BY <2>2, <3>2
      <4>3. banTable[o].until <= banNow
        BY <1>1, <3>1, <4>1, <4>2 DEF BanLive
      <4> QED BY <1>2, <4>1, <4>3
    <3>3. CASE o \notin gone
      <4>1. t[o] = w[o] /\ g[o] = banHits[o]
        BY <2>3, <3>3
      <4> QED BY <1>1, <3>1, <4>1
    <3> QED BY <3>2, <3>3
  <2>6. g[s] = banHits[s]
    BY <1>5 DEF BanTaken
  <2> HIDE DEF g
  <2> QED BY <2>4, <2>5, <2>6 DEF BanLess, g
<1> QED BY <1>3, <1>4, <1>5 DEF BanRoom

\* A refused request strikes: the entry is found or made, counted, and banned
\* when its limit or its burst is reached.
LEMMA BanStrikeInv == ASSUME BanInv, NEW s \in BanSources, BanStrike(s) PROVE BanInv'
<1> USE BanConstants
<1> DEFINE w == BanAfterSweep
           cut(t) == [o \in BanSources |->
                        IF t[o] = BanFree /\ w[o] # BanFree /\ banKind = "site"
                        THEN BanNoHits ELSE banHits[o]]
           in(t) == s \in BanTaken(t) \/ ~BanFull(t)
           before(t) == IF s \in BanTaken(t) THEN t[s] ELSE BanFresh
           after(t) == BanStruck(before(t))
           begun(t) == in(t) /\ after(t).until > before(t).until
           hits == [banHits[s] EXCEPT ![banNow] = @ + 1]
<1>1. /\ banKind # "none" /\ UNCHANGED <<banKind, banNow, banConf, banMove, banSave, banLost>>
      /\ banCount' \in [hits : Nat, asks : Nat] /\ banSwept' \in 0..BanHorizon
  BY DEF BanStrike, BanSweeps, BanInv, BanShapes
<1>2. PICK t \in BanRoom(w, s) :
        /\ banTable' = IF in(t) THEN [t EXCEPT ![s] = after(t)] ELSE t
        /\ banHot' = IF begun(t) THEN Max({banHot, after(t).until}) ELSE banHot
        /\ banHits' = [o \in BanSources |->
              IF o = s /\ in(t) THEN IF after(t).strikes = 0 THEN BanNoHits ELSE hits
              ELSE IF t[o] = BanFree /\ w[o] # BanFree /\ banKind = "site"
              THEN BanNoHits ELSE banHits[o]]
        /\ banDue' = IF begun(t) THEN [banDue EXCEPT ![s] = Max({@, after(t).until})] ELSE banDue
        /\ banUnearned' = IF begun(t) /\ ~BanEarned(hits)
                          THEN banUnearned \union {s} ELSE banUnearned
  BY DEF BanStrike
<1> DEFINE g == cut(t)
           e == before(t)
           a == after(t)
<1>3. BanLess(t, g) /\ g[s] = banHits[s] /\ t \in [BanSources -> BanEntrySet]
  BY <1>1, BanRoomLess
<1>4. /\ BanShapes /\ BanListsInv /\ BanCountsInv /\ banNow \in 0..BanHorizon
      /\ banHits \in [BanSources -> BanHitsSet] /\ banTable \in [BanSources -> BanEntrySet]
      /\ banDue \in [BanSources -> Int] /\ banHot \in -1..(BanHorizon + BanFor)
      /\ banUnearned = {} /\ IsFiniteSet(BanSources) /\ banHits[s] \in BanHitsSet
  BY DEF BanInv, BanShapes
<1>5. hits = BanMore(banHits[s], banNow) /\ hits \in BanHitsSet
  BY <1>4, BanSinceMore DEF BanMore
<1>6. /\ e \in BanEntrySet /\ e # BanFree /\ BanEntryInv(e, banHits[s])
      /\ e.until = -1 \/ e = banTable[s]
  <2>1. t[s] \in BanEntrySet /\ BanEntryInv(t[s], banHits[s])
        /\ (t[s] = banTable[s] \/ t[s] = BanFree)
    BY <1>3 DEF BanLess
  <2>2. CASE s \in BanTaken(t)
    BY <2>1, <2>2 DEF BanTaken
  <2>3. CASE s \notin BanTaken(t)
    <3>1. t[s] = BanFree /\ BanEntryInv(BanFree, banHits[s])
      BY <2>1, <2>3 DEF BanTaken
    <3> QED BY <1>4, <2>3, <3>1, BanFreshInv
  <2> QED BY <2>2, <2>3
<1>7. /\ a \in BanEntrySet /\ a # BanFree
      /\ BanEntryInv(a, IF a.strikes = 0 THEN BanNoHits ELSE hits)
      /\ a.until = e.until \/ (a.until = banNow + BanFor /\ e.until <= banNow)
      /\ a.until > e.until => BanEarned(hits)
  <2>1. a = BanStruck(e)
    OBVIOUS
  <2> HIDE DEF hits, e, a
  <2> QED BY <1>1, <1>4, <1>5, <1>6, <2>1, BanStruckInv
<1>8. BanTaken(t) \subseteq BanTaken(banTable)
  BY <1>3 DEF BanLess, BanTaken
<1>9. BanNoHits \in BanHitsSet
  BY BanForgiven
<1>10. e.until \in -1..(BanHorizon + BanFor) /\ a.until \in -1..(BanHorizon + BanFor)
  <2> HIDE DEF e, a
  <2> QED BY <1>6, <1>7 DEF BanEntrySet
<1> DEFINE got == in(t)
           won == begun(t)
<1>11. won <=> got /\ a.until > e.until
  OBVIOUS
<1>12. ASSUME NEW o \in BanSources
       PROVE  /\ banTable'[o] = IF o = s /\ got THEN a ELSE t[o]
              /\ banHits'[o] = IF o = s /\ got THEN (IF a.strikes = 0 THEN BanNoHits ELSE hits) ELSE g[o]
              /\ banDue'[o] = IF o = s /\ won THEN Max({banDue[s], a.until}) ELSE banDue[o]
              /\ banTable'[o] \in BanEntrySet /\ banHits'[o] \in BanHitsSet
              /\ t[o] \in BanEntrySet /\ BanEntryInv(t[o], g[o])
              /\ t[o] = banTable[o] \/ (t[o] = BanFree /\ banTable[o].until <= banNow)
  <2>1. /\ t[o] \in BanEntrySet /\ g[o] \in BanHitsSet /\ BanEntryInv(t[o], g[o])
        /\ t[o] = banTable[o] \/ (t[o] = BanFree /\ banTable[o].until <= banNow)
    <3> HIDE DEF g
    <3> QED BY <1>3 DEF BanLess
  <2>2. banTable'[o] = IF o = s /\ got THEN a ELSE t[o]
    <3> HIDE DEF a
    <3> QED BY <1>2, <1>3 DEF a
  <2>3. banHits'[o] = IF o = s /\ got THEN (IF a.strikes = 0 THEN BanNoHits ELSE hits) ELSE g[o]
    BY <1>2
  <2>4. banDue'[o] = IF o = s /\ won THEN Max({banDue[s], a.until}) ELSE banDue[o]
    BY <1>2, <1>4
  <2> HIDE DEF a, hits, g
  <2> QED BY <1>5, <1>7, <1>9, <2>1, <2>2, <2>3, <2>4
<1>13. /\ banTable' \in [BanSources -> BanEntrySet] /\ banHits' \in [BanSources -> BanHitsSet]
  <2>1. banTable' = [o \in BanSources |-> banTable'[o]] /\ banHits' = [o \in BanSources |-> banHits'[o]]
    BY <1>2, <1>3
  <2> QED BY <1>12, <2>1
<1>14. /\ banDue' \in [BanSources -> Int] /\ banHot' \in -1..(BanHorizon + BanFor)
       /\ banHot' = IF won THEN Max({banHot, a.until}) ELSE banHot
       /\ banHot <= banHot' /\ (won => a.until <= banHot' /\ a.until <= banDue'[s] /\ banDue[s] <= banDue'[s])
       /\ won => banDue'[s] = a.until \/ banDue'[s] = banDue[s]
  <2>1. banDue' = [o \in BanSources |-> banDue'[o]]
    BY <1>2, <1>4
  <2>2. banHot' = IF won THEN Max({banHot, a.until}) ELSE banHot
    BY <1>2
  <2>3. \A o \in BanSources : banDue'[o] = IF o = s /\ won THEN Max({banDue[s], a.until}) ELSE banDue[o]
    BY <1>12
  <2> HIDE DEF a, e, won
  <2>4. a.until \in Int /\ banHot \in Int /\ banDue[s] \in Int
    BY <1>4, <1>10
  <2>5. /\ Max({banDue[s], a.until}) = IF banDue[s] >= a.until THEN banDue[s] ELSE a.until
        /\ Max({banHot, a.until}) = IF banHot >= a.until THEN banHot ELSE a.until
    BY <2>4, MaxOfTwo
  <2>6. banDue' \in [BanSources -> Int]
    BY <1>4, <2>1, <2>3, <2>4, <2>5
  <2> QED BY <1>4, <1>10, <2>2, <2>3, <2>4, <2>5, <2>6
<1>15. banUnearned' = {}
  <2> HIDE DEF hits
  <2> QED BY <1>2, <1>4, <1>7, <1>11
<1> HIDE DEF a, e, g, hits, got, won
<1>16. Cardinality(BanTaken(banTable')) <= BanCap
  <2>1. IsFiniteSet(BanTaken(t)) /\ Cardinality(BanTaken(t)) <= BanCap /\ Cardinality(BanTaken(t)) \in Nat
    BY <1>4, <1>8, BanFewer
  <2>2. CASE ~got
    <3>1. banTable' = t
      BY <1>2, <2>2 DEF got
    <3> QED BY <2>1, <3>1
  <2>3. CASE got
    <3>1. BanTaken(banTable') = BanTaken(t) \union {s}
      BY <1>7, <1>12, <2>3 DEF BanTaken
    <3>2. s \in BanTaken(t) \/ Cardinality(BanTaken(t)) < BanCap
      BY <2>1, <2>3 DEF got, BanFull
    <3>3. Cardinality(BanTaken(t) \union {s})
          = IF s \in BanTaken(t) THEN Cardinality(BanTaken(t)) ELSE Cardinality(BanTaken(t)) + 1
      BY <2>1, SizeOf
    <3> QED BY <2>1, <3>1, <3>2, <3>3
  <2> QED BY <2>2, <2>3
<1>17. BanShapes'
  BY <1>1, <1>4, <1>13, <1>14, <1>15, <1>16 DEF BanShapes
<1>18. BanCountsInv'
  <2> SUFFICES ASSUME NEW o \in BanSources
               PROVE  BanEntryInv(banTable'[o], banHits'[o])
    BY <1>1 DEF BanCountsInv, BanEntryInv
  <2>1. CASE o = s /\ got
    BY <1>7, <1>12, <2>1
  <2>2. CASE ~(o = s /\ got)
    BY <1>12, <2>2
  <2> QED BY <2>1, <2>2
<1>19. BanListsInv'
  <2>1. ASSUME NEW o \in BanSources
        PROVE  /\ o \notin banLost \union banConf.deny =>
                     banDue'[o] <= banTable'[o].until \/ banDue'[o] <= banNow
               /\ banTable'[o].until <= banHot'
    <3>1. /\ banTable[o].until \in Int /\ banDue[o] \in Int /\ banHot \in Int /\ banHot' \in Int
          /\ banTable[o].until <= banHot /\ banNow \in Int /\ -1 <= banHot
          /\ BanFree.until = -1
          /\ o \notin banLost \union banConf.deny =>
                     banDue[o] <= banTable[o].until \/ banDue[o] <= banNow
      BY <1>4, <1>14 DEF BanListsInv, BanEntrySet, BanFree
    <3>2. CASE o = s /\ won
      <4>1. banTable'[o] = a /\ a.until > e.until
        BY <1>11, <1>12, <3>2
      <4>2. a.until = banNow + BanFor
        BY <1>7, <1>10, <4>1
      <4>3. e.until = -1 \/ e = banTable[o]
        BY <1>6, <3>2
      <4>4. banDue'[o] = a.until \/ banDue'[o] = banDue[o]
        BY <1>14, <3>2
      <4>5. e.until <= banNow /\ e.until \in Int
        BY <1>4, <1>7, <1>10, <4>1
      <4>6. t[o] = banTable[o] \/ banTable[o].until <= banNow
        BY <1>12
      <4>7. a.until <= banHot'
        BY <1>14, <3>2
      <4>8. banTable[o].until <= banNow
        <5>1. e = t[s] \/ t[s] = BanFree
          BY <1>12 DEF e, BanTaken
        <5> QED BY <3>1, <3>2, <4>3, <4>5, <4>6, <5>1
      <4> QED BY <3>1, <4>1, <4>2, <4>4, <4>7, <4>8
    <3>3. CASE o = s /\ got /\ ~won
      <4>1. banTable'[o] = a /\ banDue'[o] = banDue[o] /\ a.until = e.until
        <5>1. ~(a.until > e.until)
          BY <1>11, <3>3
        <5> QED BY <1>4, <1>7, <1>10, <1>12, <3>3, <5>1
      <4>2. e = banTable[o] \/ (e.until = -1 /\ t[s] = BanFree)
        BY <1>6, <1>12, <3>3 DEF e, BanTaken
      <4>3. t[o] = banTable[o] \/ banTable[o].until <= banNow
        BY <1>12
      <4> QED BY <1>14, <3>1, <3>3, <4>1, <4>2, <4>3
    <3>4. CASE ~(o = s /\ got)
      <4>1. banTable'[o] = t[o] /\ banDue'[o] = banDue[o]
        BY <1>11, <1>12, <3>4
      <4>2. t[o] = banTable[o] \/ (t[o] = BanFree /\ banTable[o].until <= banNow)
        BY <1>12
      <4> QED BY <1>14, <3>1, <4>1, <4>2
    <3> QED BY <3>2, <3>3, <3>4
  <2> QED BY <1>1, <1>4, <2>1 DEF BanListsInv
<1> QED BY <1>17, <1>18, <1>19 DEF BanInv

\* A guard is chosen and its lists are set up.
LEMMA BanStartInv == ASSUME BanInv, NEW k \in BanKinds, NEW mode \in {"all", "lan"}, BanStart(k, mode) PROVE BanInv'
<1>1. banKind = "none" /\ banKind' = k /\ banConf' = [banConf EXCEPT !.mode = mode]
      /\ UNCHANGED <<banNow, banTable, banSwept, banHot, banMove, banSave, banCount, banHits,
                     banDue, banUnearned, banLost>>
  BY DEF BanStart
<1>2. BanShapes'
  BY <1>1 DEF BanInv, BanShapes, BanConfSet
<1>3. /\ \A s \in BanSources : banTable[s] = BanFree /\ banHits[s] = BanNoHits
      /\ banConf.deny = {} /\ banConf.allow = {} /\ banLost = {} /\ banMove = BanIdle /\ banSave = BanIdle
      /\ banConf'.deny = {} /\ banConf'.allow = {} /\ banNow \in Int /\ k # "none"
  BY <1>1 DEF BanInv, BanListsInv, BanShapes, BanConfSet, BanKinds
<1>4. BanListsInv'
  BY <1>1, <1>3 DEF BanInv, BanListsInv, BanIdle
<1>5. BanCountsInv'
  BY <1>1, <1>3, BanForgiven DEF BanCountsInv, BanEntryInv
<1> QED BY <1>2, <1>4, <1>5 DEF BanInv

\* A request comes, and is let through, refused by the lists, or strikes.
LEMMA BanArrivesInv == ASSUME BanInv, NEW s \in BanSources, BanArrives(s) PROVE BanInv'
<1>1. /\ banKind # "none" /\ banTable' = BanAfterSweep /\ BanSweeps
      /\ UNCHANGED <<banKind, banNow, banHot, banConf, banMove, banSave, banCount, banHits,
                     banDue, banUnearned, banLost>>
  BY DEF BanArrives
<1>2. BanLess(banTable', banHits) /\ banTable' \in [BanSources -> BanEntrySet]
  BY <1>1, BanSweepLess
<1>3. BanShapes /\ banSwept' \in 0..BanHorizon
  BY <1>1 DEF BanInv, BanShapes, BanSweeps
<1>4. BanTaken(banTable') \subseteq BanTaken(banTable)
  BY <1>2 DEF BanLess, BanTaken
<1>5. BanShapes'
  <2>1. Cardinality(BanTaken(banTable')) <= BanCap
    BY <1>3, <1>4, BanFewer
  <2> QED BY <1>1, <1>2, <1>3, <2>1 DEF BanShapes
<1>6. BanCountsInv'
  BY <1>1, <1>2 DEF BanLess, BanCountsInv, BanEntryInv
<1>7. BanListsInv'
  <2>1. ASSUME NEW o \in BanSources
        PROVE  /\ o \notin banLost \union banConf.deny =>
                     banDue'[o] <= banTable'[o].until \/ banDue'[o] <= banNow
               /\ banTable'[o].until <= banHot'
    <3>1. /\ banTable[o].until \in Int /\ banDue[o] \in Int /\ banHot \in Int
          /\ banTable[o].until <= banHot /\ banNow \in Int /\ -1 <= banHot
          /\ BanFree.until = -1
          /\ o \notin banLost \union banConf.deny =>
                     banDue[o] <= banTable[o].until \/ banDue[o] <= banNow
      BY <1>3 DEF BanInv, BanShapes, BanListsInv, BanEntrySet, BanFree
    <3>2. banTable'[o] = banTable[o] \/ (banTable'[o] = BanFree /\ banTable[o].until <= banNow)
      BY <1>2 DEF BanLess
    <3> QED BY <1>1, <3>1, <3>2
  <2> QED BY <1>1, <2>1 DEF BanInv, BanListsInv
<1> QED BY <1>5, <1>6, <1>7 DEF BanInv

\* Time passes, with a sweep when one is due.
LEMMA BanTimeInv == ASSUME BanInv, BanTimePasses PROVE BanInv'
<1>1. /\ banNow < BanHorizon /\ banNow' = banNow + 1
      /\ UNCHANGED <<banKind, banTable, banSwept, banHot, banConf, banMove, banSave, banCount,
                     banHits, banDue, banUnearned, banLost>>
  BY DEF BanTimePasses
<1>2. banNow \in Nat /\ banNow \in Int /\ BanShapes
  BY DEF BanInv, BanShapes
<1>3. BanShapes'
  <2>1. banNow' \in 0..BanHorizon
    BY <1>1, <1>2, BanConstants
  <2> QED BY <1>1, <1>2, <2>1 DEF BanShapes, BanTaken
<1>4. BanCountsInv'
  <2> SUFFICES ASSUME NEW s \in BanSources PROVE BanEntryInv(banTable[s], banHits[s])'
    BY DEF BanCountsInv
  <2>1. banTable[s] \in BanEntrySet /\ banHits[s] \in BanHitsSet
    BY <1>2 DEF BanShapes
  <2>2. BanEntryInv(banTable[s], banHits[s])
    BY DEF BanInv, BanCountsInv
  <2>3. \A e \in BanEntrySet, h \in BanHitsSet : BanEntryInv(e, h) => BanEntryInv(e, h)'
    BY <1>1, <1>2, BanEntryWaits
  <2>4. banTable'[s] = banTable[s] /\ banHits'[s] = banHits[s]
    BY <1>1
  <2> QED BY <2>1, <2>2, <2>3, <2>4 DEF BanEntryInv
<1>5. BanListsInv'
  <2>1. \A s \in BanSources : banDue[s] \in Int /\ (banDue[s] <= banNow => banDue[s] <= banNow')
    BY <1>1, <1>2 DEF BanShapes
  <2> QED BY <1>1, <2>1 DEF BanInv, BanListsInv
<1> QED BY <1>3, <1>4, <1>5 DEF BanInv

\* Bans are cleared.
LEMMA BanClearInv == ASSUME BanInv, NEW out \in SUBSET BanSources, BanClear(out) PROVE BanInv'
<1>1. /\ BanReleased(out) /\ banKind # "none" /\ BanAsked
      /\ banDue' = [s \in BanSources |-> IF s \in out \ banConf.deny THEN -1 ELSE banDue[s]]
      /\ UNCHANGED <<banKind, banNow, banSwept, banHot, banConf, banMove, banSave, banUnearned, banLost>>
  BY DEF BanClear, BanAsksMore
<1>2. /\ BanCountsInv'
      /\ banTable' \in [BanSources -> BanEntrySet] /\ banHits' \in [BanSources -> BanHitsSet]
      /\ Cardinality(BanTaken(banTable')) <= BanCap
      /\ \A s \in BanSources : banTable'[s].until = (IF s \in out THEN -1 ELSE banTable[s].until)
  BY <1>1, BanReleasedInv DEF BanInv
<1>3. BanShapes'
  BY <1>1, <1>2 DEF BanInv, BanShapes, BanAsked
<1>4. BanListsInv'
  <2>1. \A s \in BanSources : banTable[s].until <= banHot /\ -1 <= banHot
    BY DEF BanInv, BanShapes, BanListsInv
  <2>2. \A s \in BanSources \ (banLost \union banConf.deny) :
           banDue'[s] <= banTable'[s].until \/ banDue'[s] <= banNow
    <3> SUFFICES ASSUME NEW s \in BanSources, s \notin banLost, s \notin banConf.deny
                 PROVE  banDue'[s] <= banTable'[s].until \/ banDue'[s] <= banNow
      OBVIOUS
    <3>1. banDue[s] <= banTable[s].until \/ banDue[s] <= banNow
      BY DEF BanInv, BanListsInv
    <3> QED BY <1>1, <1>2, <3>1
  <2> QED BY <1>1, <1>2, <2>1, <2>2 DEF BanInv, BanListsInv
<1> QED BY <1>2, <1>3, <1>4 DEF BanInv

\* A move to the permanent list: it is read, saved, and the bans it replaces go.
LEMMA BanMoveInv ==
    ASSUME BanInv, BanMoveBegins \/ BanMoveUpdates \/ BanMoveFails \/ BanMoveUnbans
    PROVE  BanInv'
<1>0. BanShapes /\ BanListsInv /\ BanCountsInv /\ "update" # "unban" /\ "idle" # "unban" /\ "idle" # "update"
  BY DEF BanInv
<1>1. CASE BanMoveBegins
  <2>1. /\ banKind = "services" /\ BanAsked
        /\ banMove' = [step |-> "update", who |-> {s \in BanSources : BanLive(banTable[s])}]
        /\ UNCHANGED <<banKind, banNow, banTable, banSwept, banHot, banConf, banSave, banHits,
                       banDue, banUnearned, banLost>>
    BY <1>1 DEF BanMoveBegins
  <2>2. BanShapes'
    <3>1. banMove' \in [step : {"update", "unban"}, who : SUBSET BanSources]
      BY <2>1
    <3>2. banCount' \in [hits : Nat, asks : Nat]
      BY <1>0, <2>1 DEF BanShapes, BanAsked
    <3> QED BY <1>0, <2>1, <3>1, <3>2 DEF BanShapes, BanTaken
  <2>3. BanListsInv'
    <3>1. banMove'.step = "update"
      BY <2>1
    <3> QED BY <1>0, <2>1, <3>1 DEF BanListsInv
  <2> QED BY <1>0, <2>1, <2>2, <2>3, BanCountsKept DEF BanInv
<1>2. CASE BanMoveUpdates
  <2>1. PICK new \in SUBSET (banMove.who \ banConf.deny) :
          /\ banConf' = [banConf EXCEPT !.deny = banConf.deny \union new]
          /\ banMove' = [step |-> "unban", who |-> BanApplied(banConf.deny \union new, banMove.who)]
          /\ banDue' = [s \in BanSources |-> IF s \in new THEN BanForever ELSE banDue[s]]
          /\ banLost' = banLost \ new
    BY <1>2 DEF BanMoveUpdates
  <2>2. /\ banMove.step = "update"
        /\ UNCHANGED <<banKind, banNow, banTable, banSwept, banHot, banSave, banCount, banHits, banUnearned>>
    BY <1>2 DEF BanMoveUpdates
  <2>3. banMove \in [step : {"update", "unban"}, who : SUBSET BanSources] /\ banKind = "services"
    BY <1>0, <2>2 DEF BanShapes, BanListsInv, BanIdle
  <2>4. /\ banMove'.step = "unban" /\ banMove'.who = banMove.who \intersect (banConf.deny \union new)
        /\ new \subseteq BanSources
        /\ banConf'.deny = banConf.deny \union new /\ banConf' \in BanConfSet
        /\ banMove' \in [step : {"update", "unban"}, who : SUBSET BanSources]
    BY <1>0, <2>1, <2>3 DEF BanApplied, BanShapes, BanConfSet
  <2>5. BanShapes'
    <3>1. banDue' \in [BanSources -> Int] /\ banLost' \subseteq BanSources
      BY <1>0, <2>1, BanConstants DEF BanShapes, BanForever
    <3> QED BY <1>0, <2>2, <2>4, <3>1 DEF BanShapes, BanTaken
  <2>6. BanListsInv'
    <3>1. \A s \in BanSources \ (banLost' \union banConf'.deny) :
             banDue'[s] <= banTable[s].until \/ banDue'[s] <= banNow
      BY <1>0, <2>1, <2>4 DEF BanListsInv
    <3> QED BY <1>0, <2>2, <2>3, <2>4, <3>1 DEF BanListsInv
  <2> QED BY <1>0, <2>2, <2>5, <2>6, BanCountsKept DEF BanInv
<1>3. CASE BanMoveFails
  <2>1. /\ banMove' = BanIdle
        /\ UNCHANGED <<banKind, banNow, banTable, banSwept, banHot, banConf, banSave, banCount,
                       banHits, banDue, banUnearned, banLost>>
    BY <1>3 DEF BanMoveFails
  <2>2. BanShapes'
    BY <1>0, <2>1 DEF BanShapes, BanTaken
  <2>3. BanListsInv'
    <3>1. banMove'.step = "idle"
      BY <2>1 DEF BanIdle
    <3> QED BY <1>0, <2>1, <3>1 DEF BanListsInv
  <2> QED BY <1>0, <2>1, <2>2, <2>3, BanCountsKept DEF BanInv
<1>4. CASE BanMoveUnbans
  <2>1. /\ banMove.step = "unban"
        /\ UNCHANGED <<banKind, banNow, banSwept, banHot, banConf, banSave, banCount, banDue,
                       banUnearned, banLost>>
    BY <1>4 DEF BanMoveUnbans
  <2>2. banMove \in [step : {"update", "unban"}, who : SUBSET BanSources] /\ banKind = "services"
        /\ banMove.who \subseteq banConf.deny \union banLost
    BY <1>0, <2>1 DEF BanShapes, BanListsInv, BanIdle
  <2>3. CASE banMove.who = {}
    <3>1. banMove' = BanIdle /\ UNCHANGED <<banTable, banHits>>
      BY <1>4, <2>3 DEF BanMoveUnbans
    <3>2. BanShapes'
      BY <1>0, <2>1, <3>1 DEF BanShapes, BanTaken
    <3>3. BanListsInv'
      <4>1. banMove'.step = "idle"
        BY <3>1 DEF BanIdle
      <4> QED BY <1>0, <2>1, <3>1, <4>1 DEF BanListsInv
    <3> QED BY <1>0, <2>1, <3>1, <3>2, <3>3, BanCountsKept DEF BanInv
  <2>4. CASE banMove.who # {}
    <3>1. PICK s \in banMove.who : BanReleased({s}) /\ banMove' = [banMove EXCEPT !.who = @ \ {s}]
      BY <1>4, <2>4 DEF BanMoveUnbans
    <3>2. /\ BanCountsInv'
          /\ banTable' \in [BanSources -> BanEntrySet] /\ banHits' \in [BanSources -> BanHitsSet]
          /\ Cardinality(BanTaken(banTable')) <= BanCap
          /\ \A o \in BanSources : banTable'[o].until = (IF o \in {s} THEN -1 ELSE banTable[o].until)
      BY <1>0, <2>1, <3>1, BanReleasedInv
    <3>3. /\ banMove' \in [step : {"update", "unban"}, who : SUBSET BanSources]
          /\ banMove'.who \subseteq banMove.who
      BY <2>2, <3>1
    <3>4. BanShapes'
      BY <1>0, <2>1, <3>2, <3>3 DEF BanShapes
    <3>5. BanListsInv'
      <4>1. \A o \in BanSources : banTable'[o].until <= banHot
        BY <1>0, <3>2 DEF BanShapes, BanListsInv
      <4>2. s \in banConf.deny \union banLost
        BY <2>2, <3>1
      <4>3. \A o \in BanSources \ (banLost \union banConf.deny) :
               banDue[o] <= banTable'[o].until \/ banDue[o] <= banNow
        BY <1>0, <3>2, <4>2 DEF BanListsInv
      <4> QED BY <1>0, <2>1, <2>2, <3>3, <4>1, <4>3 DEF BanListsInv
    <3> QED BY <3>2, <3>4, <3>5 DEF BanInv
  <2> QED BY <2>3, <2>4
<1> QED BY <1>1, <1>2, <1>3, <1>4

\* A source is put on a list, or taken from one.
LEMMA BanListInv ==
    ASSUME BanInv, NEW s \in BanSources, NEW list \in {"deny", "allow"},
           BanListed(list, s) \/ BanUnlisted(list, s)
    PROVE  BanInv'
<1>0. BanShapes /\ BanListsInv /\ BanCountsInv /\ banConf \in BanConfSet /\ banTable[s].until \in Int
  BY DEF BanInv, BanShapes, BanEntrySet
<1>1. CASE BanListed(list, s)
  <2>1. /\ banKind \in {"services", "panel"} /\ BanAsked
        /\ banConf' = [banConf EXCEPT ![list] = @ \union {s}]
        /\ banDue' = IF list = "deny" THEN [banDue EXCEPT ![s] = BanForever] ELSE banDue
        /\ banLost' = IF list = "deny" THEN banLost \ {s} ELSE banLost
        /\ UNCHANGED <<banKind, banNow, banTable, banSwept, banHot, banMove, banSave, banHits, banUnearned>>
    BY <1>1 DEF BanListed, BanAsksMore
  <2>2. banConf' \in BanConfSet /\ banConf'.deny = IF list = "deny" THEN banConf.deny \union {s} ELSE banConf.deny
    BY <1>0, <2>1 DEF BanConfSet
  <2>3. BanShapes'
    <3>1. banDue' \in [BanSources -> Int] /\ banLost' \subseteq BanSources
      BY <1>0, <2>1, BanConstants DEF BanShapes, BanForever
    <3>2. banCount' \in [hits : Nat, asks : Nat]
      BY <1>0, <2>1 DEF BanShapes, BanAsked
    <3> QED BY <1>0, <2>1, <2>2, <3>1, <3>2 DEF BanShapes, BanTaken
  <2>4. BanListsInv'
    <3>1. \A o \in BanSources \ (banLost' \union banConf'.deny) :
             banDue'[o] <= banTable[o].until \/ banDue'[o] <= banNow
      <4> SUFFICES ASSUME NEW o \in BanSources, o \notin banLost', o \notin banConf'.deny
                   PROVE  banDue'[o] <= banTable[o].until \/ banDue'[o] <= banNow
        OBVIOUS
      <4>1. o \notin banLost /\ o \notin banConf.deny /\ banDue'[o] = banDue[o]
        BY <1>0, <2>1, <2>2 DEF BanShapes
      <4> QED BY <1>0, <4>1 DEF BanListsInv
    <3>2. banConf.deny \union banLost \subseteq banConf'.deny \union banLost'
      BY <2>1, <2>2
    <3>3. banKind # "services" => banLost' = {}
      BY <1>0, <2>1 DEF BanListsInv, BanIdle
    <3> QED BY <1>0, <2>1, <3>1, <3>2, <3>3 DEF BanListsInv
  <2> QED BY <1>0, <2>1, <2>3, <2>4, BanCountsKept DEF BanInv
<1>2. CASE BanUnlisted(list, s)
  <2>1. /\ banKind \in {"services", "panel"} /\ BanAsked
        /\ banConf' = [banConf EXCEPT ![list] = @ \ {s}]
        /\ banDue' = IF list = "deny" THEN [banDue EXCEPT ![s] = banTable[s].until] ELSE banDue
        /\ banLost' = IF banMove.step = "unban" /\ s \in banMove.who THEN banLost \union {s} ELSE banLost
        /\ UNCHANGED <<banKind, banNow, banTable, banSwept, banHot, banMove, banSave, banHits, banUnearned>>
    BY <1>2 DEF BanUnlisted, BanAsksMore
  <2>2. banConf' \in BanConfSet /\ banConf'.deny = IF list = "deny" THEN banConf.deny \ {s} ELSE banConf.deny
    BY <1>0, <2>1 DEF BanConfSet
  <2>3. BanShapes'
    <3>1. banDue' \in [BanSources -> Int] /\ banLost' \subseteq BanSources
      BY <1>0, <2>1 DEF BanShapes
    <3>2. banCount' \in [hits : Nat, asks : Nat]
      BY <1>0, <2>1 DEF BanShapes, BanAsked
    <3> QED BY <1>0, <2>1, <2>2, <3>1, <3>2 DEF BanShapes, BanTaken
  <2>4. BanListsInv'
    <3>1. \A o \in BanSources \ (banLost' \union banConf'.deny) :
             banDue'[o] <= banTable[o].until \/ banDue'[o] <= banNow
      <4> SUFFICES ASSUME NEW o \in BanSources, o \notin banLost', o \notin banConf'.deny
                   PROVE  banDue'[o] <= banTable[o].until \/ banDue'[o] <= banNow
        OBVIOUS
      <4>1. CASE o = s /\ list = "deny"
        <5>1. banDue'[o] = banTable[o].until
          BY <1>0, <2>1, <4>1 DEF BanShapes
        <5> QED BY <1>0, <4>1, <5>1
      <4>2. CASE ~(o = s /\ list = "deny")
        <5>1. o \notin banLost /\ o \notin banConf.deny /\ banDue'[o] = banDue[o]
          BY <1>0, <2>1, <2>2, <4>2 DEF BanShapes
        <5> QED BY <1>0, <5>1 DEF BanListsInv
      <4> QED BY <4>1, <4>2
    <3>2. banMove.step = "unban" => banMove.who \subseteq banConf'.deny \union banLost'
      BY <1>0, <2>1, <2>2 DEF BanListsInv
    <3>3. banKind # "services" => banLost' = {}
      BY <1>0, <2>1 DEF BanListsInv, BanIdle
    <3> QED BY <1>0, <2>1, <3>1, <3>2, <3>3 DEF BanListsInv
  <2> QED BY <1>0, <2>1, <2>3, <2>4, BanCountsKept DEF BanInv
<1> QED BY <1>1, <1>2

\* A save of the lists begins, and reaches the guard.
LEMMA BanSaveInv == ASSUME BanInv, BanSaveBegins \/ BanSaveUpdates PROVE BanInv'
<1>0. BanShapes /\ BanListsInv /\ BanCountsInv /\ banConf \in BanConfSet /\ "idle" # "update"
  BY DEF BanInv, BanShapes
<1>1. CASE BanSaveBegins
  <2>1. /\ banKind = "services" /\ BanAsked /\ banSave' = [step |-> "update", conf |-> banConf]
        /\ UNCHANGED <<banKind, banNow, banTable, banSwept, banHot, banConf, banMove, banHits,
                       banDue, banUnearned, banLost>>
    BY <1>1 DEF BanSaveBegins
  <2>2. BanShapes'
    <3>1. banSave' \in [step : {"update"}, conf : BanConfSet]
      BY <1>0, <2>1
    <3>2. banCount' \in [hits : Nat, asks : Nat]
      BY <1>0, <2>1 DEF BanShapes, BanAsked
    <3> QED BY <1>0, <2>1, <3>1, <3>2 DEF BanShapes, BanTaken
  <2>3. BanListsInv'
    BY <1>0, <2>1 DEF BanListsInv
  <2> QED BY <1>0, <2>1, <2>2, <2>3, BanCountsKept DEF BanInv
<1>2. CASE BanSaveUpdates
  <2>1. /\ banSave.step = "update" /\ banSave' = BanIdle /\ banConf' = banSave.conf
        /\ banLost' = (banLost \union (banConf.deny \ banSave.conf.deny)) \ banSave.conf.deny
        /\ banDue' = [s \in BanSources |-> IF s \in banSave.conf.deny THEN BanForever ELSE banDue[s]]
        /\ UNCHANGED <<banKind, banNow, banTable, banSwept, banHot, banMove, banCount, banHits, banUnearned>>
    BY <1>2 DEF BanSaveUpdates
  <2>2. banSave \in [step : {"update"}, conf : BanConfSet] /\ banKind = "services"
    BY <1>0, <2>1 DEF BanShapes, BanListsInv, BanIdle
  <2>3. banConf' \in BanConfSet
    BY <2>1, <2>2
  <2>4. BanShapes'
    <3>1. banDue' \in [BanSources -> Int]
      BY <1>0, <2>1, BanConstants DEF BanShapes, BanForever
    <3>2. banLost' \subseteq BanSources
      BY <1>0, <2>1 DEF BanShapes, BanConfSet
    <3> QED BY <1>0, <2>1, <2>3, <3>1, <3>2 DEF BanShapes, BanTaken
  <2>5. BanListsInv'
    <3>1. \A o \in BanSources \ (banLost' \union banConf'.deny) :
             banDue'[o] <= banTable[o].until \/ banDue'[o] <= banNow
      <4> SUFFICES ASSUME NEW o \in BanSources, o \notin banLost', o \notin banConf'.deny
                   PROVE  banDue'[o] <= banTable[o].until \/ banDue'[o] <= banNow
        OBVIOUS
      <4>1. o \notin banLost /\ o \notin banConf.deny /\ banDue'[o] = banDue[o]
        BY <2>1
      <4> QED BY <1>0, <4>1 DEF BanListsInv
    <3>2. banMove.step = "unban" => banMove.who \subseteq banConf'.deny \union banLost'
      BY <1>0, <2>1 DEF BanListsInv
    <3> QED BY <1>0, <2>1, <2>2, <3>1, <3>2 DEF BanListsInv
  <2> QED BY <1>0, <2>1, <2>4, <2>5, BanCountsKept DEF BanInv
<1> QED BY <1>1, <1>2

\* Every step of the guard keeps its invariant.
LEMMA BanStepInv == ASSUME BanInv, [BanNext]_banVars PROVE BanInv'
<1>1. CASE UNCHANGED banVars
  BY <1>1 DEF banVars, BanInv, BanShapes, BanListsInv, BanCountsInv, BanEntryInv
<1>2. CASE BanNext
  BY <1>2, BanStartInv, BanArrivesInv, BanStrikeInv, BanTimeInv, BanClearInv, BanMoveInv, BanListInv,
     BanSaveInv DEF BanNext, BanKinds
<1> QED BY <1>1, <1>2

\* And the invariant says what the run checks.
LEMMA BanShows == ASSUME BanInv PROVE BanTypeOK /\ BansHold
<1> USE BanConstants
<1>0. BanShapes /\ BanListsInv /\ BanCountsInv /\ banNow \in Nat
  BY DEF BanInv, BanShapes
<1>1. BanTypeOK
  BY <1>0 DEF BanShapes, BanTypeOK, BanEntrySet, BanConfSet
<1>2. BanIsEarned
  BY <1>0 DEF BanShapes, BanIsEarned
<1>3. BanKeepsOut
  <2> SUFFICES ASSUME NEW s \in BanSources, banNow < banDue[s], s \notin banLost,
                      s \in banConf.deny \/ s \notin BanExempt \union banConf.allow
               PROVE  BanVerdict(s) # "pass"
    BY DEF BanKeepsOut
  <2>1. /\ banTable[s].until \in Int /\ banDue[s] \in Int /\ banHot \in Int /\ banTable[s].until <= banHot
        /\ s \notin banConf.deny => banNow < banTable[s].until
        /\ banKind \notin {"services", "panel"} => banConf.deny = {}
        /\ banKind \in BanKinds \union {"none"}
    BY <1>0 DEF BanShapes, BanListsInv, BanEntrySet
  <2>2. CASE s \in banConf.deny
    BY <2>1, <2>2 DEF BanVerdict, BanServicesVerdict, BanPanelVerdict
  <2>3. CASE s \notin banConf.deny
    <3>1. BanLive(banTable[s]) /\ banHot > banNow /\ s \notin BanExempt \union banConf.allow
      BY <1>0, <2>1, <2>3 DEF BanLive
    <3> QED BY <2>1, <2>3, <3>1 DEF BanVerdict, BanServicesVerdict, BanPanelVerdict, BanSiteVerdict,
                                   BanExempt
  <2> QED BY <2>2, <2>3
<1>4. BanIsGiven
  <2> SUFFICES ASSUME NEW s \in BanSources
               PROVE  BanSince(banHits[s], Max({banNow - BanWindow + 1, banTable[s].until})) <= 2 * (BanLimit - 1)
    BY DEF BanIsGiven
  <2> DEFINE e == banTable[s]
             h == banHits[s]
             x == Max({banNow - BanWindow + 1, e.until})
  <2>1. e \in BanEntrySet /\ h \in BanHitsSet /\ e.until \in Int /\ e.strikes \in Nat
    BY <1>0 DEF BanShapes, BanEntrySet
  <2>2. BanEntryAt(e, h, banNow, banKind)
    BY <1>0 DEF BanCountsInv, BanEntryInv
  <2>3. x \in Int /\ x >= banNow - BanWindow + 1 /\ x >= e.until
    <3>1. banNow - BanWindow + 1 \in Int
      BY <1>0
    <3> HIDE DEF e
    <3> QED BY <1>0, <2>1, <3>1, MaxOfTwo
  <2>4. BanSince(h, x) \in Nat
    BY <2>1, <2>3, BanSinceIs
  <2> HIDE DEF e, h, x
  <2>5. ASSUME e = BanFree PROVE BanSince(h, x) <= 2 * (BanLimit - 1)
    <3>1. x > banNow - BanWindow
      BY <1>0, <2>3
    <3>2. BanSince(h, x) <= BanLimit - 1
      BY <2>2, <2>3, <2>5, <3>1 DEF BanEntryAt
    <3> QED BY <2>4, <3>2
  <2>6. ASSUME e # BanFree PROVE BanSince(h, x) <= 2 * (BanLimit - 1)
    <3>1. e.first \in 0..banNow /\ BanEntryCounts(e, h, banKind)
      BY <2>2, <2>6 DEF BanEntryAt
    <3>2. x > e.first - BanWindow
      BY <1>0, <2>3, <3>1
    <3>3. BanSince(h, x) <= BanLimit - 1 + BanCounted(e)
      BY <2>3, <3>1, <3>2 DEF BanEntryCounts
    <3>4. BanCounted(e) \in Nat /\ BanCounted(e) <= BanLimit - 1
      BY <2>1 DEF BanCounted
    <3> QED BY <2>4, <3>3, <3>4
  <2> QED BY <2>5, <2>6 DEF e, h, x
<1> QED BY <1>1, <1>2, <1>3, <1>4 DEF BansHold

-----------------------------------------------------------------------------
(* The log, the access records and the statistics.                         *)

\* The last n of a sequence.
LEMMA LatestIs ==
    ASSUME NEW S, NEW s \in Seq(S), NEW n \in Nat
    PROVE  LET k == IF n <= Len(s) THEN n ELSE Len(s)
           IN  /\ JrnLatest(s, n) \in Seq(S) /\ Len(JrnLatest(s, n)) = k
               /\ \A i \in 1..k : JrnLatest(s, n)[i] = s[Len(s) - k + i]
<1> DEFINE k == IF n <= Len(s) THEN n ELSE Len(s)
<1>1. Len(s) \in Nat /\ \A i \in 1..Len(s) : s[i] \in S
  BY LenProperties, ElementOfSeq
<1>2. Min({n, Len(s)}) = k /\ k \in Nat /\ k <= Len(s)
  BY <1>1, MinOfTwo
<1> HIDE DEF k
<1> DEFINE a == Len(s) - k + 1
<1>3. JrnLatest(s, n) = SubSeq(s, a, Len(s)) /\ a \in Int /\ Len(s) \in Int
  <2>1. JrnLatest(s, n) = SubSeq(s, Len(s) - Min({n, Len(s)}) + 1, Len(s))
    BY DEF JrnLatest
  <2>2. Len(s) - Min({n, Len(s)}) + 1 = a
    BY <1>2
  <2> HIDE DEF a
  <2>3. JrnLatest(s, n) = SubSeq(s, a, Len(s))
    BY <2>1, <2>2
  <2> QED BY <1>1, <1>2, <2>3 DEF a
<1>4. \A i \in a..Len(s) : s[i] \in S
  BY <1>1, <1>2
<1>5. /\ SubSeq(s, a, Len(s)) \in Seq(S)
      /\ Len(SubSeq(s, a, Len(s))) = IF a <= Len(s) THEN Len(s) - a + 1 ELSE 0
      /\ \A i \in 1..(Len(s) - a + 1) : SubSeq(s, a, Len(s))[i] = s[a + i - 1]
  <2> HIDE DEF a
  <2> QED BY <1>3, <1>4, SubSeqProperties
<1>6. Len(SubSeq(s, a, Len(s))) = k
  BY <1>1, <1>2, <1>5
<1>7. \A i \in 1..k : SubSeq(s, a, Len(s))[i] = s[Len(s) - k + i]
  BY <1>1, <1>2, <1>5
<1> QED BY <1>3, <1>5, <1>6, <1>7 DEF k

\* A ring, the entries it shows, and where they are.
JrnRingOK(r) ==
    /\ r \in [buf : Seq(Int), next : Nat, filled : BOOLEAN]
    /\ Len(r.buf) \in Nat \ {0} /\ r.next < Len(r.buf)
JrnShown(r) == IF r.filled THEN Len(r.buf) ELSE r.next
JrnPlace(r, i) == IF ~r.filled THEN i
                  ELSE IF r.next + i <= Len(r.buf) THEN r.next + i ELSE r.next + i - Len(r.buf)

\* What a ring shows, entry by entry.
LEMMA JrnRingShows ==
    ASSUME NEW r, JrnRingOK(r)
    PROVE  /\ JrnSnapshot(r) \in Seq(Int) /\ Len(JrnSnapshot(r)) = JrnShown(r)
           /\ JrnShown(r) \in Nat /\ JrnShown(r) <= Len(r.buf)
           /\ \A i \in 1..JrnShown(r) :
                 JrnPlace(r, i) \in 1..Len(r.buf) /\ JrnSnapshot(r)[i] = r.buf[JrnPlace(r, i)]
<1> DEFINE b == r.buf
           n == r.next
<1>1. b \in Seq(Int) /\ n \in Nat /\ Len(b) \in Nat \ {0} /\ n < Len(b) /\ r.filled \in BOOLEAN
  BY DEF JrnRingOK
<1>2. \A i \in 1..Len(b) : b[i] \in Int
  BY <1>1, ElementOfSeq
<1>3. JrnSnapshot(r) = IF r.filled THEN SubSeq(b, n + 1, Len(b)) \o SubSeq(b, 1, n) ELSE SubSeq(b, 1, n)
  BY DEF JrnSnapshot, JrnFrom
<1>0. JrnShown(r) = (IF r.filled THEN Len(b) ELSE n)
      /\ \A i : JrnPlace(r, i) = IF ~r.filled THEN i ELSE IF n + i <= Len(b) THEN n + i ELSE n + i - Len(b)
  BY DEF JrnShown, JrnPlace
<1> HIDE DEF b, n
<1>4. /\ SubSeq(b, 1, n) \in Seq(Int) /\ Len(SubSeq(b, 1, n)) = n
      /\ \A i \in 1..n : SubSeq(b, 1, n)[i] = b[i]
  <2>1. \A i \in 1..n : b[i] \in Int
    BY <1>1, <1>2
  <2>2. /\ SubSeq(b, 1, n) \in Seq(Int)
        /\ Len(SubSeq(b, 1, n)) = IF 1 <= n THEN n - 1 + 1 ELSE 0
        /\ \A i \in 1..(n - 1 + 1) : SubSeq(b, 1, n)[i] = b[1 + i - 1]
    BY <1>1, <2>1, SubSeqProperties
  <2> QED BY <1>1, <2>2
<1> DEFINE k == n + 1
<1>5. /\ SubSeq(b, k, Len(b)) \in Seq(Int) /\ Len(SubSeq(b, k, Len(b))) = Len(b) - n
      /\ \A i \in 1..(Len(b) - n) : SubSeq(b, k, Len(b))[i] = b[n + i]
  <2>1. \A i \in k..Len(b) : b[i] \in Int
    BY <1>1, <1>2
  <2>2. k \in Int /\ Len(b) \in Int
    BY <1>1
  <2>3. /\ SubSeq(b, k, Len(b)) \in Seq(Int)
        /\ Len(SubSeq(b, k, Len(b))) = IF k <= Len(b) THEN Len(b) - k + 1 ELSE 0
        /\ \A i \in 1..(Len(b) - k + 1) : SubSeq(b, k, Len(b))[i] = b[k + i - 1]
    <3> HIDE DEF k
    <3> QED BY <2>1, <2>2, SubSeqProperties
  <2> QED BY <1>1, <2>3
<1>6. CASE r.filled
  <2> DEFINE s == SubSeq(b, k, Len(b))
             t == SubSeq(b, 1, n)
  <2>1. JrnSnapshot(r) = s \o t
    BY <1>3, <1>6
  <2> HIDE DEF s, t, k
  <2>2. s \in Seq(Int) /\ Len(s) = Len(b) - n /\ (\A i \in 1..(Len(b) - n) : s[i] = b[n + i])
        /\ t \in Seq(Int) /\ Len(t) = n /\ (\A i \in 1..n : t[i] = b[i])
    BY <1>4, <1>5 DEF s, t
  <2>3. /\ s \o t \in Seq(Int) /\ Len(s \o t) = Len(s) + Len(t)
        /\ \A i \in 1..(Len(s) + Len(t)) : (s \o t)[i] = IF i <= Len(s) THEN s[i] ELSE t[i - Len(s)]
    BY <2>2, ConcatProperties
  <2>4. ASSUME NEW i \in 1..Len(b)
        PROVE  JrnPlace(r, i) \in 1..Len(b) /\ (s \o t)[i] = b[JrnPlace(r, i)]
    <3>0. Len(s) = Len(b) - n /\ Len(t) = n /\ i \in 1..(Len(s) + Len(t))
      BY <1>1, <2>2
    <3>3. (s \o t)[i] = IF i <= Len(s) THEN s[i] ELSE t[i - Len(s)]
      BY <2>3, <3>0
    <3>1. CASE n + i <= Len(b)
      <4>1. i \in 1..(Len(b) - n) /\ i <= Len(s) /\ n + i \in 1..Len(b)
        BY <1>1, <3>0, <3>1
      <4>2. (s \o t)[i] = b[n + i]
        BY <2>2, <3>3, <4>1
      <4> QED BY <1>0, <1>6, <3>1, <4>1, <4>2
    <3>2. CASE ~(n + i <= Len(b))
      <4> DEFINE j == n + i - Len(b)
      <4>1. j \in 1..n /\ i - Len(s) = j /\ ~(i <= Len(s)) /\ j \in 1..Len(b)
        BY <1>1, <3>0, <3>2
      <4>3. JrnPlace(r, i) = j
        BY <1>0, <1>6, <3>2
      <4> HIDE DEF j
      <4>2. (s \o t)[i] = b[j]
        BY <2>2, <3>3, <4>1
      <4> QED BY <4>1, <4>2, <4>3
    <3> QED BY <3>1, <3>2
  <2>5. JrnShown(r) = Len(b) /\ Len(s \o t) = Len(b) /\ s \o t \in Seq(Int) /\ Len(b) \in Nat
    BY <1>0, <1>1, <1>6, <2>2, <2>3
  <2>6. \A i \in 1..JrnShown(r) : JrnPlace(r, i) \in 1..Len(b) /\ JrnSnapshot(r)[i] = b[JrnPlace(r, i)]
    BY <2>1, <2>4, <2>5
  <2> QED BY <2>1, <2>5, <2>6 DEF b
<1>7. CASE ~r.filled
  <2>1. JrnSnapshot(r) = SubSeq(b, 1, n)
    BY <1>3, <1>7
  <2> QED BY <1>0, <1>1, <1>4, <1>7, <2>1 DEF b
<1> QED BY <1>6, <1>7

\* One more entry: the ring shows the latest it has room for.
LEMMA JrnRingPushed ==
    ASSUME NEW r, JrnRingOK(r), NEW e \in Int
    PROVE  /\ JrnRingOK(JrnPushed(r, e)) /\ Len(JrnPushed(r, e).buf) = Len(r.buf)
           /\ JrnSnapshot(JrnPushed(r, e)) = JrnLatest(Append(JrnSnapshot(r), e), Len(r.buf))
<1> DEFINE b == r.buf
           n == r.next
           L == Len(b)
           q == JrnPushed(r, e)
           m == IF n + 1 = L THEN 0 ELSE n + 1
           k == n + 1
<1>1. b \in Seq(Int) /\ n \in Nat /\ L \in Nat \ {0} /\ n < L /\ r.filled \in BOOLEAN
  BY DEF JrnRingOK
<1>2. (n + 1) % L = m
  <2> HIDE DEF b, n, L
  <2>1. k \in 0..(2 * L - 1) /\ (k < L \/ k = L) /\ k - L = k - L
    BY <1>1
  <2>2. k % L = IF k < L THEN k ELSE k - L
    <3> HIDE DEF k
    <3> QED BY <1>1, <2>1, Wraps
  <2> QED BY <1>1, <2>1, <2>2
<1>3. q = [buf |-> [b EXCEPT ![k] = e], next |-> m, filled |-> (r.filled \/ m = 0)]
  BY <1>2 DEF JrnPushed
<1> DEFINE c == [b EXCEPT ![k] = e]
<1>4. c \in Seq(Int) /\ Len(c) = L /\ \A j \in 1..L : c[j] = IF j = k THEN e ELSE b[j]
  <2>1. k \in 1..Len(b)
    BY <1>1
  <2> HIDE DEF b, k
  <2> QED BY <1>1, <2>1, ExceptSeq
<1>5. q.buf = c /\ q.next = m /\ q.filled = (r.filled \/ m = 0)
      /\ q \in [buf : Seq(Int), next : Nat, filled : BOOLEAN]
  <2>1. m \in Nat /\ (r.filled \/ m = 0) \in BOOLEAN
    BY <1>1
  <2> HIDE DEF q, c, m
  <2> QED BY <1>3, <1>4, <2>1 DEF c
<1>6. JrnRingOK(q)
  <2>1. m < L
    BY <1>1
  <2> HIDE DEF q, c, m, b, L
  <2> QED BY <1>1, <1>4, <1>5, <2>1 DEF JrnRingOK
<1> HIDE DEF q
<1> DEFINE s == JrnSnapshot(r)
           t == JrnSnapshot(q)
           u == Append(s, e)
<1>7. /\ s \in Seq(Int) /\ Len(s) = JrnShown(r) /\ JrnShown(r) \in Nat /\ JrnShown(r) <= L
      /\ \A i \in 1..JrnShown(r) : JrnPlace(r, i) \in 1..L /\ s[i] = b[JrnPlace(r, i)]
  BY JrnRingShows
<1>8. /\ t \in Seq(Int) /\ Len(t) = JrnShown(q)
      /\ \A i \in 1..JrnShown(q) : JrnPlace(q, i) \in 1..L /\ t[i] = c[JrnPlace(q, i)]
  <2> HIDE DEF c, L
  <2> QED BY <1>4, <1>5, <1>6, JrnRingShows
<1>9. u \in Seq(Int) /\ Len(u) = Len(s) + 1 /\ \A i \in 1..Len(u) : u[i] = IF i <= Len(s) THEN s[i] ELSE e
  <2> HIDE DEF s
  <2> QED BY <1>7, AppendProperties
<1> HIDE DEF s, t, u
<1> DEFINE v == JrnLatest(u, L)
           d == IF L <= Len(u) THEN L ELSE Len(u)
<1>10. /\ v \in Seq(Int) /\ Len(v) = d /\ \A i \in 1..d : v[i] = u[Len(u) - d + i]
  <2> HIDE DEF L
  <2> QED BY <1>1, <1>9, LatestIs
<1> HIDE DEF v, b, c, n, L
<1>11. JrnShown(q) = IF r.filled \/ m = 0 THEN L ELSE m
  BY <1>4, <1>5 DEF JrnShown
<1>12. JrnShown(r) = IF r.filled THEN L ELSE n
  BY DEF JrnShown, b, n, L
<1>13. Len(t) = d
  BY <1>1, <1>7, <1>8, <1>9, <1>11, <1>12
<1>14. ASSUME NEW i \in 1..d PROVE t[i] = v[i]
  <2> DEFINE p == Len(u) - d + i
  <2>1. p \in 1..Len(u) /\ v[i] = u[p] /\ i \in 1..JrnShown(q) /\ d \in Nat /\ Len(u) = JrnShown(r) + 1
    <3>1. JrnShown(q) = d /\ Len(u) = JrnShown(r) + 1 /\ JrnShown(r) \in Nat /\ Len(u) \in Nat
      BY <1>7, <1>8, <1>9, <1>13
    <3>2. d \in Nat /\ d <= Len(u) /\ i \in 1..d
      BY <1>1, <3>1
    <3>3. v[i] = u[p]
      BY <1>10
    <3> HIDE DEF d
    <3> QED BY <3>1, <3>2, <3>3
  <2>2. t[i] = c[JrnPlace(q, i)] /\ JrnPlace(q, i) \in 1..L
    BY <1>8, <2>1
  <2>3. JrnPlace(q, i) = IF ~(r.filled \/ m = 0) THEN i ELSE IF m + i <= L THEN m + i ELSE m + i - L
    BY <1>4, <1>5 DEF JrnPlace
  <2>4. c[JrnPlace(q, i)] = IF JrnPlace(q, i) = k THEN e ELSE b[JrnPlace(q, i)]
    BY <1>4, <2>2
  <2>5. CASE i = d
    <3>1. p = Len(s) + 1
      BY <1>7, <1>9, <2>1, <2>5
    <3>2. u[p] = e
      BY <1>7, <1>9, <2>1, <3>1
    <3>3. JrnPlace(q, i) = k
      <4>1. CASE r.filled
        <5>1. i = L
          BY <1>1, <1>7, <1>9, <1>12, <2>1, <2>5, <4>1
        <5> QED BY <1>1, <2>3, <4>1, <5>1
      <4>2. CASE ~r.filled
        <5>1. i = k
          BY <1>1, <1>7, <1>9, <1>12, <2>1, <2>5, <4>2
        <5> QED BY <1>1, <2>3, <4>2, <5>1
      <4> QED BY <1>1, <4>1, <4>2
    <3> QED BY <2>1, <2>2, <2>4, <3>2, <3>3
  <2>6. CASE i # d
    <3>1. i < d /\ p <= Len(s) /\ p \in 1..JrnShown(r)
      BY <1>7, <1>9, <2>1, <2>6
    <3>2. u[p] = s[p] /\ s[p] = b[JrnPlace(r, p)]
      BY <1>7, <1>9, <2>1, <3>1
    <3>3. JrnPlace(r, p) = IF ~r.filled THEN p ELSE IF n + p <= L THEN n + p ELSE n + p - L
      BY DEF JrnPlace, n, L, b
    <3>4. JrnPlace(q, i) = JrnPlace(r, p) /\ JrnPlace(q, i) # k
      <4>1. CASE r.filled
        <5>1. d = L /\ p = i + 1
          BY <1>1, <1>7, <1>9, <1>12, <2>1, <4>1
        <5> QED BY <1>1, <2>1, <2>3, <3>1, <3>3, <4>1, <5>1
      <4>2. CASE ~r.filled
        <5>1. d = n + 1 /\ p = i
          BY <1>1, <1>7, <1>9, <1>12, <2>1, <4>2
        <5> QED BY <1>1, <2>1, <2>3, <3>1, <3>3, <4>2, <5>1
      <4> QED BY <1>1, <4>1, <4>2
    <3> QED BY <2>1, <2>2, <2>4, <3>2, <3>4
  <2> QED BY <2>5, <2>6
<1>15. t = v
  BY <1>8, <1>10, <1>13, <1>14, SeqEqual
<1> QED BY <1>4, <1>5, <1>6, <1>15 DEF q, t, v, u, s, L, b

\* A ring that changes its size shows the last entries of what it showed.
LEMMA JrnRingResized ==
    ASSUME NEW r, JrnRingOK(r), NEW n \in Nat \ {0}
    PROVE  /\ JrnRingOK(JrnResized(r, n)) /\ Len(JrnResized(r, n).buf) = n
           /\ JrnSnapshot(JrnResized(r, n)) = JrnLatest(JrnSnapshot(r), n)
<1> DEFINE cur == JrnLatest(JrnSnapshot(r), n)
           L == Len(cur)
           b == [i \in 1..n |-> IF i <= L THEN cur[i] ELSE 0]
           m == IF L = n THEN 0 ELSE L
           q == JrnResized(r, n)
<1>1. JrnSnapshot(r) \in Seq(Int)
  BY JrnRingShows
<1>2. cur \in Seq(Int) /\ L \in Nat /\ L <= n /\ \A i \in 1..L : cur[i] \in Int
  <2>1. Len(JrnSnapshot(r)) \in Nat
    BY <1>1, LenProperties
  <2>2. cur \in Seq(Int) /\ Len(cur) = IF n <= Len(JrnSnapshot(r)) THEN n ELSE Len(JrnSnapshot(r))
    BY <1>1, LatestIs
  <2> HIDE DEF cur
  <2> QED BY <2>1, <2>2, ElementOfSeq
<1>3. L % n = m
  <2> HIDE DEF L
  <2>1. L \in 0..(2 * n - 1)
    BY <1>2
  <2>2. L % n = IF L < n THEN L ELSE L - n
    BY <2>1, Wraps
  <2>3. L < n \/ L = n
    BY <1>2
  <2> QED BY <1>2, <2>2, <2>3
<1>4. q = [buf |-> b, next |-> m, filled |-> (L = n)]
  BY <1>3 DEF JrnResized
<1> HIDE DEF cur, q
<1>5. b \in Seq(Int) /\ Len(b) = n /\ \A i \in 1..L : b[i] = cur[i]
  <2>1. \A i \in 1..n : b[i] \in Int
    BY <1>2
  <2>2. b \in [1..n -> Int]
    BY <2>1
  <2> QED BY <1>2, <2>2
<1>6. q.buf = b /\ q.next = m /\ q.filled = (L = n) /\ m \in Nat /\ m < n
      /\ q \in [buf : Seq(Int), next : Nat, filled : BOOLEAN]
  <2>1. m \in Nat /\ m < n
    BY <1>2
  <2> HIDE DEF b, m
  <2> QED BY <1>4, <1>5, <2>1
<1>7. JrnRingOK(q)
  <2> HIDE DEF b, m
  <2> QED BY <1>5, <1>6 DEF JrnRingOK
<1> DEFINE t == JrnSnapshot(q)
<1> HIDE DEF b
<1>8. JrnShown(q) = L
  BY <1>2, <1>5, <1>6 DEF JrnShown
<1>9. t \in Seq(Int) /\ Len(t) = L /\ \A i \in 1..L : t[i] = b[JrnPlace(q, i)]
  BY <1>5, <1>6, <1>7, <1>8, JrnRingShows
<1>10. ASSUME NEW i \in 1..L PROVE JrnPlace(q, i) = i
  BY <1>2, <1>5, <1>6 DEF JrnPlace
<1>11. t = cur
  <2> HIDE DEF t
  <2> QED BY <1>2, <1>5, <1>9, <1>10, SeqEqual
<1> QED BY <1>5, <1>6, <1>7, <1>11 DEF q, cur

\* A new ring shows nothing.
LEMMA JrnRingEmpty ==
    ASSUME NEW n \in Nat \ {0}
    PROVE  JrnRingOK(JrnEmpty(n)) /\ Len(JrnEmpty(n).buf) = n /\ JrnSnapshot(JrnEmpty(n)) = <<>>
<1> DEFINE b == [i \in 1..n |-> 0]
<1>1. b \in Seq(Int) /\ Len(b) = n
  OBVIOUS
<1>2. JrnEmpty(n) = [buf |-> b, next |-> 0, filled |-> FALSE]
  BY DEF JrnEmpty
<1> HIDE DEF b
<1>3. JrnRingOK(JrnEmpty(n))
  BY <1>1, <1>2 DEF JrnRingOK
<1>4. JrnShown(JrnEmpty(n)) = 0
  BY <1>2 DEF JrnShown
<1>5. JrnSnapshot(JrnEmpty(n)) \in Seq(Int) /\ Len(JrnSnapshot(JrnEmpty(n))) = 0
  BY <1>3, <1>4, JrnRingShows
<1>6. JrnSnapshot(JrnEmpty(n)) = <<>>
  BY <1>5, EmptySeq
<1> QED BY <1>1, <1>2, <1>3, <1>6

JrnLineSet == [id : Nat, bytes : {1, 2}]
JrnFileSet == [open : BOOLEAN, count : Nat, bytes : Nat]
JrnGaps == {"none", "lost", "stuck", "cleared"}
JrnWriterSet == [at : {"idle", "ring", "file"}, id : Nat, level : {"info", "debug"}, bytes : {1, 2}]

JrnTrue(file, disk) == file.open => file.count = Len(disk) /\ file.bytes = JrnBytes(disk)

JrnRingInv ==
    JrnRingOK(jrnRing) /\ Len(jrnRing.buf) \in JrnSizes /\ jrnKept = JrnSnapshot(jrnRing)

JrnFileInv ==
    /\ jrnFile \in JrnFileSet /\ jrnDisk \in Seq(JrnLineSet) /\ jrnLimit \in JrnLimits
    /\ JrnTrue(jrnFile, jrnDisk)
    /\ jrnGap \in JrnGaps /\ (jrnGap = "lost" => jrnFile.count + 1 > jrnLimit)
    /\ jrnWrong = {}

\* The inductive invariant of the log.
JrnInv ==
    /\ JrnRingInv /\ JrnFileInv
    /\ jrnLevels \subseteq {"info", "debug"}
    /\ jrnWriter \in [JrnWriters -> JrnWriterSet]
    /\ jrnCount \in [lines : Nat, troubles : Nat, asks : Nat]

\* What the assumptions say of the sizes and limits.
LEMMA JrnConstants ==
    /\ JrnSizes \subseteq Nat \ {0} /\ JrnLimits \subseteq Nat \ {0} /\ AccCaps \subseteq Nat \ {0}
    /\ IsFiniteSet(JrnSizes) /\ JrnSizes # {} /\ JrnLimits # {} /\ IsFiniteSet(AccCaps) /\ AccCaps # {}
    /\ AccInitial \in Nat \ {0} /\ MtrSize \in Nat \ {0} /\ JrnMaxBytes \in Nat /\ JrnMaxBytes >= 2
    /\ IsFiniteSet(JrnLimits)
BY JrnAssumption

\* The bytes of a file, and of one with a line more.
LEMMA JrnBytesAre ==
    ASSUME NEW disk \in Seq(JrnLineSet), NEW line \in JrnLineSet
    PROVE  /\ JrnBytes(disk) \in Nat /\ JrnBytes(<<>>) = 0
           /\ JrnBytes(Append(disk, line)) = JrnBytes(disk) + line.bytes
           /\ Append(disk, line) \in Seq(JrnLineSet) /\ Len(Append(disk, line)) = Len(disk) + 1
           /\ Len(disk) \in Nat
<1> DEFINE more == Append(disk, line)
           n == Len(disk)
           k == n + 1
           f == [i \in 1..n |-> disk[i].bytes]
           g == [i \in 1..k |-> more[i].bytes]
<1>1. n \in Nat /\ DOMAIN disk = 1..n /\ (\A i \in 1..n : disk[i] \in JrnLineSet)
      /\ more \in Seq(JrnLineSet) /\ Len(more) = k /\ DOMAIN more = 1..k
      /\ \A i \in 1..k : more[i] = IF i = k THEN line ELSE disk[i]
  <2>1. n \in Nat /\ DOMAIN disk = 1..n /\ \A i \in 1..n : disk[i] \in JrnLineSet
    BY LenProperties, ElementOfSeq
  <2>2. more \in Seq(JrnLineSet) /\ Len(more) = Len(disk) + 1 /\ more[Len(disk) + 1] = line
        /\ \A i \in 1..Len(disk) : more[i] = disk[i]
    BY AppendProperties
  <2>3. DOMAIN more = 1..Len(more)
    BY <2>2, LenProperties
  <2> HIDE DEF more
  <2> QED BY <2>1, <2>2, <2>3
<1>2. JrnBytes(disk) = SumFunctionOnSet(f, 1..n) /\ JrnBytes(more) = SumFunctionOnSet(g, 1..k)
  <2>1. DOMAIN f = 1..n /\ DOMAIN g = 1..k
    OBVIOUS
  <2>2. JrnBytes(disk) = SumFunction(f) /\ JrnBytes(more) = SumFunction(g)
    <3> HIDE DEF more, n, k
    <3> QED BY <1>1 DEF JrnBytes
  <2> HIDE DEF f, g, more, n, k
  <2> QED BY <2>1, <2>2 DEF SumFunction
<1>3. /\ \A i \in 1..n : f[i] \in Nat /\ g[i] \in Nat /\ g[i] = f[i]
      /\ \A i \in 1..k : g[i] \in Nat
      /\ g[k] = line.bytes /\ k \in 1..k /\ (1..k) \ {k} = 1..n
  <2> HIDE DEF more, n
  <2>1. k \in Nat /\ \A i \in 1..n : i # k /\ i \in 1..k
    BY <1>1
  <2>2. \A i \in 1..k : more[i] \in JrnLineSet
    BY <1>1, <2>1
  <2> QED BY <1>1, <2>1, <2>2 DEF JrnLineSet
<1>4. IsFiniteSet(1..n) /\ IsFiniteSet(1..k)
  BY <1>1, FS_Interval
<1> HIDE DEF f, g, n, k
<1>5. SumFunctionOnSet(g, 1..k) = g[k] + SumFunctionOnSet(g, (1..k) \ {k})
  BY <1>3, <1>4, SumStep
<1>6. SumFunctionOnSet(g, 1..n) = SumFunctionOnSet(f, 1..n) /\ SumFunctionOnSet(f, 1..n) \in Nat
  BY <1>3, <1>4, SumSame, SumNatural
<1>7. JrnBytes(<<>>) = 0
  <2> DEFINE z == [i \in DOMAIN <<>> |-> (<<>>)[i].bytes]
  <2>1. DOMAIN z = {} /\ JrnBytes(<<>>) = SumFunction(z)
    BY DEF JrnBytes
  <2> HIDE DEF z
  <2> QED BY <2>1, SumEmpty DEF SumFunction
<1>8. line.bytes \in Nat
  BY DEF JrnLineSet
<1> HIDE DEF more
<1>9. JrnBytes(disk) \in Nat /\ JrnBytes(more) = JrnBytes(disk) + line.bytes
  <2>1. SumFunctionOnSet(g, (1..k) \ {k}) = SumFunctionOnSet(g, 1..n)
    <3>1. (1..k) \ {k} = 1..n
      BY <1>3
    <3> QED BY <3>1, Zenon
  <2> QED BY <1>2, <1>3, <1>5, <1>6, <1>8, <2>1
<1> QED BY <1>1, <1>7, <1>9 DEF n, k, more

\* The log begins with an empty file and an empty ring.
LEMMA JrnInitInv == JrnInit => JrnInv
<1> SUFFICES ASSUME JrnInit PROVE JrnInv
  OBVIOUS
<1> USE JrnConstants
<1>1. Max(JrnSizes) \in JrnSizes /\ Min(JrnLimits) \in JrnLimits
  <2>1. JrnSizes \subseteq Int /\ JrnLimits \subseteq Int
    OBVIOUS
  <2>2. Max(JrnSizes) \in JrnSizes
    BY <2>1, MostOf
  <2>3. Min(JrnLimits) \in JrnLimits
    BY <2>1, LeastOf
  <2> QED BY <2>2, <2>3
<1>2. JrnRingOK(JrnEmpty(Max(JrnSizes))) /\ Len(JrnEmpty(Max(JrnSizes)).buf) = Max(JrnSizes)
      /\ JrnSnapshot(JrnEmpty(Max(JrnSizes))) = <<>>
  BY <1>1, JrnRingEmpty
<1>3. JrnRingInv
  BY <1>1, <1>2 DEF JrnInit, JrnRingInv
<1>4. JrnBytes(<<>>) = 0
  <2>1. <<>> \in Seq(JrnLineSet) /\ [id |-> 1, bytes |-> 1] \in JrnLineSet
    BY DEF JrnLineSet
  <2> QED BY <2>1, JrnBytesAre
<1>5. JrnFileInv
  BY <1>1, <1>4 DEF JrnInit, JrnFileInv, JrnFileSet, JrnTrue, JrnGaps
<1>6. jrnWriter \in [JrnWriters -> JrnWriterSet]
  BY DEF JrnInit, JrnWriterSet
<1> QED BY <1>3, <1>5, <1>6 DEF JrnInit, JrnInv

\* One line: the file that took it is counted, and within its limits when
\* nothing went wrong.
LEMMA JrnPutInv == ASSUME JrnInv, NEW w \in JrnWriters, JrnPut(w) PROVE JrnInv'
<1> USE JrnConstants
<1> DEFINE line == JrnLine(w)
           bytes == jrnWriter[w].bytes
<1>1. /\ JrnRingInv' /\ jrnLevels' \subseteq {"info", "debug"} /\ jrnLimit' = jrnLimit
      /\ jrnWriter' \in [JrnWriters -> JrnWriterSet] /\ jrnWriter[w] \in JrnWriterSet
  BY DEF JrnPut, JrnInv, JrnRingInv, JrnWriterSet
<1>2. line \in JrnLineSet /\ line.bytes = bytes /\ bytes \in {1, 2}
  BY <1>1 DEF JrnLine, JrnLineSet, JrnWriterSet
<1>3. /\ jrnFile \in JrnFileSet /\ jrnDisk \in Seq(JrnLineSet) /\ jrnLimit \in Nat \ {0}
      /\ jrnLimit \in JrnLimits /\ JrnTrue(jrnFile, jrnDisk)
      /\ jrnGap \in JrnGaps /\ (jrnGap = "lost" => jrnFile.count + 1 > jrnLimit) /\ jrnWrong = {}
      /\ jrnCount \in [lines : Nat, troubles : Nat, asks : Nat]
      /\ jrnFile.count \in Nat /\ jrnFile.bytes \in Nat /\ jrnFile.open \in BOOLEAN
  BY DEF JrnInv, JrnFileInv, JrnFileSet
<1>4. CASE jrnWriter[w].level \notin jrnLevels
  <2>1. UNCHANGED <<jrnFile, jrnDisk, jrnCount, jrnGap, jrnWrong>>
    BY <1>4 DEF JrnPut
  <2> QED BY <1>1, <1>3, <2>1 DEF JrnInv, JrnFileInv
<1>5. CASE jrnWriter[w].level \in jrnLevels
  <2> DEFINE due == JrnDue(bytes)
             from == IF due THEN JrnRotations
                     ELSE {[file |-> jrnFile, disk |-> jrnDisk, failed |-> "no"]}
  <2>1. PICK r \in from :
              /\ IF r.failed = "open" THEN jrnFile' = r.file /\ jrnDisk' = r.disk
                 ELSE JrnWritten(line, r.file, r.disk)
              /\ JrnTrouble(r.failed)
              /\ jrnGap' = IF r.failed = "open" THEN (IF JrnManyLines THEN "lost" ELSE "stuck")
                           ELSE IF jrnFile'.open THEN "none" ELSE jrnGap
              /\ jrnWrong' = jrnWrong
                   \union (IF r.failed = "no" /\ jrnGap = "lost" /\ ~jrnFile'.open
                           THEN {"dropped"} ELSE {})
                   \union (IF r.failed = "no" /\ jrnFile'.open
                              /\ (Len(jrnDisk') > jrnLimit \/ JrnBytes(jrnDisk') > JrnMaxBytes)
                           THEN {"over"} ELSE {})
    BY <1>5 DEF JrnPut
  <2>2. due <=> jrnFile.count + 1 > jrnLimit \/ jrnFile.bytes + bytes > JrnMaxBytes
    BY DEF JrnDue, JrnOver, JrnManyLines
  <2>3. /\ JrnBytes(<<>>) = 0 /\ Len(<<>>) = 0 /\ <<>> \in Seq(JrnLineSet)
        /\ JrnBytes(jrnDisk) \in Nat /\ Len(jrnDisk) \in Nat
    BY <1>2, <1>3, JrnBytesAre
  <2>4. /\ r.file \in JrnFileSet /\ r.disk \in Seq(JrnLineSet) /\ JrnTrue(r.file, r.disk)
        /\ r.failed \in {"no", "open", "rename"}
        /\ r.failed = "open" => r.file.count = jrnFile.count /\ ~r.file.open
        /\ r.failed = "rename" => r.file.open
        /\ r.failed = "no" => \/ due /\ r.file.open /\ r.file.count = 0 /\ r.file.bytes = 0
                              \/ ~due /\ r.file = jrnFile
    <3>1. CASE ~due
      <4>1. r = [file |-> jrnFile, disk |-> jrnDisk, failed |-> "no"]
        BY <2>1, <3>1
      <4> QED BY <1>3, <3>1, <4>1
    <3>2. CASE due
      <4> DEFINE lost == [file |-> JrnClosed, disk |-> jrnDisk, failed |-> "open"]
      <4>1. \/ r = [file |-> JrnOpened(<<>>), disk |-> <<>>, failed |-> "no"]
            \/ r = [lost EXCEPT !.disk = <<>>] \/ r = lost
            \/ r = [file |-> JrnOpened(jrnDisk), disk |-> jrnDisk, failed |-> "rename"]
        <5>1. r \in JrnRotations
          BY <2>1, <3>2
        <5> QED BY <5>1 DEF JrnRotations
      <4>2. [lost EXCEPT !.disk = <<>>] = [file |-> JrnClosed, disk |-> <<>>, failed |-> "open"]
        OBVIOUS
      <4>3. JrnOpened(<<>>) = [open |-> TRUE, count |-> 0, bytes |-> 0]
        BY <2>3 DEF JrnOpened
      <4>4. JrnOpened(jrnDisk) = [open |-> TRUE, count |-> Len(jrnDisk), bytes |-> JrnBytes(jrnDisk)]
        BY DEF JrnOpened
      <4>5. JrnClosed \in JrnFileSet /\ JrnClosed.count = jrnFile.count /\ ~JrnClosed.open
        BY <1>3 DEF JrnClosed, JrnFileSet
      <4>6. CASE r = [file |-> JrnOpened(<<>>), disk |-> <<>>, failed |-> "no"]
        <5>1. r.file = JrnOpened(<<>>) /\ r.failed = "no" /\ r.disk = <<>>
          BY <4>6
        <5>2. /\ r.file \in JrnFileSet /\ r.file.count = 0 /\ r.file.bytes = 0 /\ r.file.open
          <6>1. JrnOpened(<<>>) \in JrnFileSet
            <7> DEFINE o == JrnOpened(<<>>)
            <7> HIDE DEF o
            <7>1. o = [open |-> TRUE, count |-> 0, bytes |-> 0]
              BY <4>3 DEF o
            <7>2. o \in JrnFileSet
              BY <7>1 DEF JrnFileSet
            <7> QED BY <7>2 DEF o
          <6>2. JrnOpened(<<>>).count = 0 /\ JrnOpened(<<>>).bytes = 0 /\ JrnOpened(<<>>).open
            BY <4>3
          <6> QED BY <5>1, <6>1, <6>2
        <5> QED BY <2>3, <3>2, <5>1, <5>2 DEF JrnTrue
      <4>7. CASE r = [file |-> JrnClosed, disk |-> <<>>, failed |-> "open"] \/ r = lost
        <5>1. r.file = JrnClosed /\ r.failed = "open" /\ (r.disk = <<>> \/ r.disk = jrnDisk)
          BY <4>7
        <5> QED BY <1>3, <2>3, <4>5, <5>1 DEF JrnTrue
      <4>8. CASE r = [file |-> JrnOpened(jrnDisk), disk |-> jrnDisk, failed |-> "rename"]
        <5>1. r.file = JrnOpened(jrnDisk) /\ r.failed = "rename" /\ r.disk = jrnDisk
          BY <4>8
        <5> QED BY <1>3, <2>3, <4>4, <5>1 DEF JrnTrue, JrnFileSet
      <4> QED BY <4>1, <4>2, <4>6, <4>7, <4>8
    <3> QED BY <3>1, <3>2
  <2> HIDE DEF due, from, line, bytes
  <2>5. jrnCount' \in [lines : Nat, troubles : Nat, asks : Nat]
    BY <1>3, <2>1 DEF JrnTrouble
  <2>6. CASE r.failed = "open"
    <3>1. jrnFile' = r.file /\ jrnDisk' = r.disk /\ jrnGap' = (IF JrnManyLines THEN "lost" ELSE "stuck")
      BY <2>1, <2>6
    <3>2. jrnWrong' = {}
      BY <1>3, <2>1, <2>6
    <3>3. jrnGap' \in JrnGaps /\ (jrnGap' = "lost" => jrnFile'.count + 1 > jrnLimit)
      BY <2>4, <2>6, <3>1 DEF JrnGaps, JrnManyLines
    <3>4. JrnTrue(jrnFile, jrnDisk)'
      BY <2>4, <3>1 DEF JrnTrue
    <3> QED BY <1>1, <1>3, <2>4, <2>5, <3>1, <3>2, <3>3, <3>4 DEF JrnInv, JrnFileInv
  <2>7. CASE r.failed # "open"
    <3>0. JrnWritten(line, r.file, r.disk) /\ jrnGap' = IF jrnFile'.open THEN "none" ELSE jrnGap
      BY <2>1, <2>7
    <3>1. CASE r.file.open
      <4>1. jrnFile' = [open |-> TRUE, count |-> r.file.count + 1, bytes |-> r.file.bytes + line.bytes]
            /\ jrnDisk' = Append(r.disk, line)
        BY <3>0, <3>1 DEF JrnWritten
      <4>2. jrnFile' \in JrnFileSet /\ jrnFile'.open /\ jrnFile'.count = r.file.count + 1
            /\ jrnFile'.bytes = r.file.bytes + line.bytes
        <5>1. line.bytes \in Nat
          BY <1>2
        <5>2. r.file.count \in Nat /\ r.file.bytes \in Nat
          BY <2>4 DEF JrnFileSet
        <5> QED BY <4>1, <5>1, <5>2 DEF JrnFileSet
      <4>3. /\ jrnDisk' \in Seq(JrnLineSet) /\ Len(jrnDisk') = Len(r.disk) + 1
            /\ JrnBytes(jrnDisk') = JrnBytes(r.disk) + line.bytes
        BY <1>2, <2>4, <4>1, JrnBytesAre
      <4>4. r.file.count = Len(r.disk) /\ r.file.bytes = JrnBytes(r.disk)
        BY <2>4, <3>1 DEF JrnTrue
      <4>5. JrnTrue(jrnFile, jrnDisk)'
        BY <4>2, <4>3, <4>4 DEF JrnTrue
      <4>6. r.failed = "no" => ~(Len(jrnDisk') > jrnLimit \/ JrnBytes(jrnDisk') > JrnMaxBytes)
        <5>1. CASE due /\ r.file.count = 0 /\ r.file.bytes = 0
          <6>1. Len(jrnDisk') = 1 /\ JrnBytes(jrnDisk') = line.bytes
            BY <1>2, <4>3, <4>4, <5>1
          <6> QED BY <1>2, <1>3, <6>1
        <5>2. CASE ~due /\ r.file = jrnFile
          BY <1>2, <1>3, <2>2, <4>3, <4>4, <5>2
        <5> QED BY <2>4, <5>1, <5>2
      <4>7. jrnWrong' = {}
        BY <1>3, <2>1, <4>2, <4>6
      <4>8. jrnGap' = "none"
        BY <3>0, <4>2
      <4> QED BY <1>1, <1>3, <2>5, <4>2, <4>3, <4>5, <4>7, <4>8 DEF JrnInv, JrnFileInv, JrnGaps
    <3>2. CASE ~r.file.open
      <4>1. jrnFile' = r.file /\ jrnDisk' = r.disk
        BY <3>0, <3>2 DEF JrnWritten
      <4>2. r.failed = "no" /\ ~due /\ r.file = jrnFile
        BY <2>4, <2>7, <3>2
      <4>3. jrnGap # "lost" /\ jrnGap' = jrnGap
        BY <1>3, <2>2, <3>0, <3>2, <4>1, <4>2
      <4>4. jrnWrong' = {}
        BY <1>3, <2>1, <3>2, <4>1, <4>3
      <4>5. JrnTrue(jrnFile, jrnDisk)'
        BY <2>4, <4>1 DEF JrnTrue
      <4> QED BY <1>1, <1>3, <2>4, <2>5, <4>1, <4>3, <4>4, <4>5 DEF JrnInv, JrnFileInv
    <3> QED BY <3>1, <3>2
  <2> QED BY <2>6, <2>7
<1> QED BY <1>4, <1>5

\* A writer puts its record in the ring, or the ring changes its size.
LEMMA JrnRingMoves ==
    ASSUME JrnInv,
           \/ \E w \in JrnWriters : JrnHandle(w)
           \/ \E n \in JrnSizes : JrnSetMaxEntries(n)
    PROVE  JrnInv'
<1> USE JrnConstants
<1>0. JrnRingOK(jrnRing) /\ Len(jrnRing.buf) \in JrnSizes /\ jrnKept = JrnSnapshot(jrnRing)
      /\ jrnCount \in [lines : Nat, troubles : Nat, asks : Nat] /\ jrnWriter \in [JrnWriters -> JrnWriterSet]
  BY DEF JrnInv, JrnRingInv
<1>1. ASSUME NEW w \in JrnWriters, JrnHandle(w) PROVE JrnInv'
  <2>1. jrnWriter' = [jrnWriter EXCEPT ![w].at = "file"] /\ UNCHANGED <<jrnLevels, jrnLimit, jrnFile, jrnDisk,
          jrnCount, jrnGap, jrnWrong>>
    BY <1>1 DEF JrnHandle
  <2>2. jrnWriter' \in [JrnWriters -> JrnWriterSet] /\ jrnWriter[w].id \in Int
    BY <1>0, <2>1 DEF JrnWriterSet
  <2>3. JrnRingInv'
    <3>1. CASE jrnWriter[w].level \in jrnLevels
      <4>1. jrnRing' = JrnPushed(jrnRing, jrnWriter[w].id)
            /\ jrnKept' = JrnLatest(Append(jrnKept, jrnWriter[w].id), Len(jrnRing.buf))
        BY <1>1, <3>1 DEF JrnHandle
      <4> QED BY <1>0, <2>2, <4>1, JrnRingPushed DEF JrnRingInv
    <3>2. CASE jrnWriter[w].level \notin jrnLevels
      BY <1>0, <1>1, <3>2 DEF JrnHandle, JrnRingInv
    <3> QED BY <3>1, <3>2
  <2> QED BY <2>1, <2>2, <2>3 DEF JrnInv, JrnFileInv, JrnTrue
<1>2. ASSUME NEW n \in JrnSizes, JrnSetMaxEntries(n) PROVE JrnInv'
  <2>1. /\ jrnRing' = JrnResized(jrnRing, n) /\ jrnKept' = JrnLatest(jrnKept, n)
        /\ jrnCount' = [jrnCount EXCEPT !.asks = @ + 1]
        /\ UNCHANGED <<jrnLevels, jrnLimit, jrnFile, jrnDisk, jrnWriter, jrnGap, jrnWrong>>
    BY <1>2 DEF JrnSetMaxEntries, JrnAsk
  <2>2. JrnRingInv'
    BY <1>0, <2>1, JrnRingResized DEF JrnRingInv
  <2>3. jrnCount' \in [lines : Nat, troubles : Nat, asks : Nat]
    BY <1>0, <2>1
  <2>4. JrnFileInv'
    BY <2>1 DEF JrnInv, JrnFileInv, JrnTrue
  <2> QED BY <1>0, <2>1, <2>2, <2>3, <2>4 DEF JrnInv
<1> QED BY <1>1, <1>2

\* Time passes, and the throttle of warnings is reset.
LEMMA JrnResetInv == ASSUME JrnInv, JrnReset PROVE JrnInv'
<1> USE JrnConstants
<1>0. /\ JrnRingOK(jrnRing) /\ Len(jrnRing.buf) \in JrnSizes /\ jrnKept = JrnSnapshot(jrnRing)
      /\ jrnCount \in [lines : Nat, troubles : Nat, asks : Nat] /\ jrnWriter \in [JrnWriters -> JrnWriterSet]
      /\ jrnFile \in JrnFileSet /\ jrnDisk \in Seq(JrnLineSet)
  BY DEF JrnInv, JrnRingInv, JrnFileInv
<1>1. /\ jrnCount' = [jrnCount EXCEPT !.asks = @ + 1]
      /\ UNCHANGED <<jrnLevels, jrnLimit, jrnWriter, jrnWrong>>
  BY DEF JrnReset, JrnAsk
<1>2. CASE jrnFile' = JrnOpened(<<>>) /\ jrnDisk' = <<>> /\ jrnGap' = "none"
           /\ jrnRing' = JrnEmpty(Len(jrnRing.buf)) /\ jrnKept' = <<>>
  <2>1. JrnRingInv'
    BY <1>0, <1>2, JrnRingEmpty DEF JrnRingInv
  <2>2. JrnBytes(<<>>) = 0
    <3>1. <<>> \in Seq(JrnLineSet) /\ [id |-> 1, bytes |-> 1] \in JrnLineSet
      BY DEF JrnLineSet
    <3> QED BY <3>1, JrnBytesAre
  <2>3. jrnFile' = [open |-> TRUE, count |-> 0, bytes |-> 0]
    BY <1>2, <2>2 DEF JrnOpened
  <2>4. JrnFileInv'
    <3>1. jrnFile' \in JrnFileSet /\ jrnFile'.count = 0 /\ jrnFile'.bytes = 0
      BY <2>3 DEF JrnFileSet
    <3>2. <<>> \in Seq(JrnLineSet) /\ Len(<<>>) = 0
      OBVIOUS
    <3>3. JrnTrue(jrnFile, jrnDisk)'
      BY <1>2, <2>2, <3>1, <3>2 DEF JrnTrue
    <3> QED BY <1>1, <1>2, <3>1, <3>2, <3>3 DEF JrnInv, JrnFileInv, JrnGaps
  <2> QED BY <1>0, <1>1, <2>1, <2>4 DEF JrnInv
<1>3. CASE jrnFile' = JrnClosed /\ jrnDisk' \in {<<>>, jrnDisk} /\ jrnGap' = "cleared"
           /\ UNCHANGED <<jrnRing, jrnKept>>
  <2>1. jrnFile' \in JrnFileSet /\ ~jrnFile'.open /\ jrnDisk' \in Seq(JrnLineSet)
    <3>1. JrnClosed \in JrnFileSet /\ ~JrnClosed.open
      BY <1>0 DEF JrnClosed, JrnFileSet
    <3>2. <<>> \in Seq(JrnLineSet)
      OBVIOUS
    <3> QED BY <1>0, <1>3, <3>1, <3>2
  <2>2. JrnFileInv'
    BY <1>1, <1>3, <2>1 DEF JrnInv, JrnFileInv, JrnTrue, JrnGaps
  <2> QED BY <1>0, <1>1, <1>3, <2>2 DEF JrnInv, JrnRingInv
<1> QED BY <1>2, <1>3 DEF JrnReset

\* Every step of the log keeps its invariant.
LEMMA JrnStepInv == ASSUME JrnInv, [JrnNext]_jrnVars PROVE JrnInv'
<1> USE JrnConstants
<1>0. /\ jrnCount \in [lines : Nat, troubles : Nat, asks : Nat] /\ jrnWriter \in [JrnWriters -> JrnWriterSet]
      /\ jrnLimit \in JrnLimits
  BY DEF JrnInv, JrnFileInv
<1>1. CASE UNCHANGED jrnVars
  BY <1>1 DEF jrnVars, JrnInv, JrnRingInv, JrnFileInv, JrnTrue
<1>2. ASSUME NEW w \in JrnWriters, NEW level \in {"info", "debug"}, NEW bytes \in {1, 2}, JrnLog(w, level, bytes)
      PROVE  JrnInv'
  <2>1. /\ jrnCount' = [jrnCount EXCEPT !.lines = @ + 1]
        /\ jrnWriter' = [jrnWriter EXCEPT ![w] =
              [at |-> "ring", id |-> jrnCount.lines + 1, level |-> level, bytes |-> bytes]]
        /\ UNCHANGED <<jrnRing, jrnKept, jrnLevels, jrnLimit, jrnFile, jrnDisk, jrnGap, jrnWrong>>
    BY <1>2 DEF JrnLog
  <2>2. [at |-> "ring", id |-> jrnCount.lines + 1, level |-> level, bytes |-> bytes] \in JrnWriterSet
    BY <1>0 DEF JrnWriterSet
  <2> QED BY <1>0, <2>1, <2>2 DEF JrnInv, JrnRingInv, JrnFileInv, JrnTrue
<1>3. ASSUME NEW levels \in {{"info"}, {"info", "debug"}}, JrnSetLevels(levels) PROVE JrnInv'
  BY <1>0, <1>3 DEF JrnSetLevels, JrnAsk, JrnInv, JrnRingInv, JrnFileInv, JrnTrue
<1>4. ASSUME NEW n \in JrnLimits, JrnSetLimit(n) PROVE JrnInv'
  <2>1. /\ jrnCount' = [jrnCount EXCEPT !.asks = @ + 1] /\ jrnLimit' = n
        /\ jrnGap' = (IF jrnGap = "lost" /\ n > jrnLimit THEN "stuck" ELSE jrnGap)
        /\ UNCHANGED <<jrnRing, jrnKept, jrnLevels, jrnFile, jrnDisk, jrnWriter, jrnWrong>>
    BY <1>4 DEF JrnSetLimit, JrnAsk
  <2>2. n \in Nat /\ jrnLimit \in Nat /\ jrnFile.count \in Nat
    BY <1>0 DEF JrnInv, JrnFileInv, JrnFileSet
  <2>3. jrnGap' \in JrnGaps /\ (jrnGap' = "lost" => jrnFile'.count + 1 > jrnLimit')
    BY <2>1, <2>2 DEF JrnInv, JrnFileInv, JrnGaps
  <2> QED BY <1>0, <2>1, <2>3 DEF JrnInv, JrnRingInv, JrnFileInv, JrnTrue
<1>5. CASE JrnNext
  BY <1>2, <1>3, <1>4, <1>5, JrnPutInv, JrnRingMoves, JrnResetInv DEF JrnNext
<1> QED BY <1>1, <1>5

\* A ring of access events, and where the i-th of the latest k of them is.
AccPlace(at, k, i, n) == IF at - k + i <= 0 THEN at - k + i + n ELSE at - k + i
AccShows(r, kept) ==
    /\ r \in [ring : Seq(Int), len : Nat, at : Nat] /\ r.len <= Len(r.ring)
    /\ IF Len(r.ring) = 0 THEN r.at = 0 ELSE r.at < Len(r.ring)
    /\ kept \in Seq(Int) /\ Len(kept) = r.len
    /\ \A i \in 1..r.len : kept[i] = r.ring[AccPlace(r.at, r.len, i, Len(r.ring))]

\* The inductive invariant of the access records.
AccInv ==
    /\ accCap \in AccCaps /\ Len(accRing) <= accCap
    /\ AccShows(AccNow, accKept)
    /\ accCount \in [events : Nat, saves : Nat]

\* All of a sequence that is not longer than what is asked for.
LEMMA LatestIsAll ==
    ASSUME NEW S, NEW s \in Seq(S), NEW n \in Nat, Len(s) <= n
    PROVE  JrnLatest(s, n) = s
<1>1. Len(s) \in Nat
  BY LenProperties
<1>2. JrnLatest(s, n) \in Seq(S) /\ Len(JrnLatest(s, n)) = Len(s)
      /\ \A i \in 1..Len(s) : JrnLatest(s, n)[i] = s[i]
  <2> DEFINE k == IF n <= Len(s) THEN n ELSE Len(s)
  <2>1. /\ JrnLatest(s, n) \in Seq(S) /\ Len(JrnLatest(s, n)) = k
        /\ \A i \in 1..k : JrnLatest(s, n)[i] = s[Len(s) - k + i]
    BY LatestIs
  <2>2. k = Len(s)
    BY <1>1
  <2> HIDE DEF k
  <2> QED BY <1>1, <2>1, <2>2
<1> QED BY <1>2, SeqEqual

\* The latest k of the ring are the latest k of what it shows.
LEMMA AccLatestIs ==
    ASSUME NEW kept, AccShows(AccNow, kept), NEW k \in 1..accLen
    PROVE  AccLatest(k) = JrnLatest(kept, k)
<1> DEFINE n == Len(accRing)
<1>1. /\ accRing \in Seq(Int) /\ accLen \in Nat /\ accAt \in Nat /\ accLen <= n /\ n \in Nat \ {0}
      /\ accAt < n /\ kept \in Seq(Int) /\ Len(kept) = accLen
      /\ \A i \in 1..accLen : kept[i] = accRing[AccPlace(accAt, accLen, i, n)]
  <2>1. accRing \in Seq(Int) /\ accLen \in Nat /\ accAt \in Nat
    BY DEF AccShows, AccNow
  <2>2. Len(accRing) \in Nat
    BY <2>1, LenProperties
  <2> QED BY <2>1, <2>2 DEF AccShows, AccNow
<1> HIDE DEF n
<1>2. k \in Nat /\ k <= accLen /\ k >= 1
  BY <1>1
<1>3. JrnLatest(kept, k) \in Seq(Int) /\ Len(JrnLatest(kept, k)) = k
      /\ \A i \in 1..k : JrnLatest(kept, k)[i] = kept[accLen - k + i]
  BY <1>1, <1>2, LatestIs
<1>4. ASSUME NEW i \in 1..k
      PROVE  kept[accLen - k + i] = accRing[((accAt - k + i - 1 + n) % n) + 1]
  <2> DEFINE x == accAt - k + i - 1 + n
             j == accLen - k + i
  <2>1. x \in 0..(2 * n - 1) /\ j \in 1..accLen /\ accAt - accLen + j = x + 1 - n
    BY <1>1, <1>2
  <2>2. x % n = IF x < n THEN x ELSE x - n
    <3> HIDE DEF x
    <3> QED BY <1>1, <2>1, Wraps
  <2> HIDE DEF x, j
  <2>5. AccPlace(accAt, accLen, j, n) = IF accAt - accLen + j <= 0 THEN accAt - accLen + j + n ELSE accAt - accLen + j
    BY DEF AccPlace
  <2>6. x \in Nat /\ n \in Nat /\ j \in Nat /\ accAt \in Nat /\ accLen \in Nat /\ accAt - accLen + j = x + 1 - n
    BY <1>1, <2>1
  <2>3. AccPlace(accAt, accLen, j, n) = (x % n) + 1
   <3>7. CASE x < n
    <4>1. accAt - accLen + j <= 0 /\ accAt - accLen + j + n = x + 1
      BY <2>6, <3>7
    <4> QED BY <2>2, <2>5, <3>7, <4>1
   <3>8. CASE ~(x < n)
    <4>1. ~(accAt - accLen + j <= 0) /\ accAt - accLen + j = (x - n) + 1
      BY <2>6, <3>8
    <4> QED BY <2>2, <2>5, <3>8, <4>1
   <3> QED BY <3>7, <3>8
  <2>4. kept[j] = accRing[AccPlace(accAt, accLen, j, n)]
    BY <1>1, <2>1
  <2> QED BY <2>3, <2>4 DEF x, j
<1>5. AccLatest(k) = [i \in 1..k |-> accRing[((accAt - k + i - 1 + n) % n) + 1]]
  BY DEF AccLatest, n
<1> DEFINE f == [i \in 1..k |-> kept[accLen - k + i]]
<1>6. AccLatest(k) = f
  BY <1>4, <1>5
<1>7. f = JrnLatest(kept, k)
  <2>1. \A i \in 1..k : f[i] \in Int
    <3>1. \A i \in 1..k : accLen - k + i \in 1..Len(kept)
      BY <1>1, <1>2
    <3> QED BY <1>1, <3>1, ElementOfSeq
  <2>2. f \in [1..k -> Int]
    BY <2>1
  <2>3. f \in Seq(Int) /\ Len(f) = k
    BY <1>2, <2>2
  <2>4. \A i \in 1..k : f[i] = JrnLatest(kept, k)[i]
    BY <1>3
  <2> HIDE DEF f
  <2> QED BY <1>3, <2>3, <2>4, SeqEqual
<1> QED BY <1>6, <1>7

\* A ring that is rebuilt shows the latest it has room for.
LEMMA AccResizedShows ==
    ASSUME NEW kept, AccShows(AccNow, kept), NEW c \in Nat \ {0}
    PROVE  AccShows(AccResized(c), JrnLatest(kept, c)) /\ Len(AccResized(c).ring) = c
<1> DEFINE keep == IF accLen <= c THEN accLen ELSE c
           old == JrnLatest(kept, c)
           b == [i \in 1..c |-> IF i <= keep THEN old[i] ELSE 0]
           m == IF keep = c THEN 0 ELSE keep
           q == AccResized(c)
<1>1. accLen \in Nat /\ kept \in Seq(Int) /\ Len(kept) = accLen
  BY DEF AccShows, AccNow
<1>2. keep \in Nat /\ keep <= c /\ keep <= accLen /\ Min({accLen, c}) = keep
  BY <1>1, MinOfTwo
<1>3. keep % c = m
  <2> HIDE DEF keep
  <2>1. keep \in 0..(2 * c - 1) /\ (keep < c \/ keep = c)
    BY <1>2
  <2>2. keep % c = IF keep < c THEN keep ELSE keep - c
    BY <2>1, Wraps
  <2> QED BY <1>2, <2>1, <2>2
<1>4. old \in Seq(Int) /\ Len(old) = keep /\ \A i \in 1..keep : old[i] \in Int
  <2>1. old \in Seq(Int) /\ Len(old) = IF c <= Len(kept) THEN c ELSE Len(kept)
    BY <1>1, LatestIs
  <2>2. Len(old) = keep
    <3> HIDE DEF old
    <3> QED BY <1>1, <2>1
  <2> HIDE DEF keep, old
  <2> QED BY <2>1, <2>2, ElementOfSeq
<1>5. ASSUME keep # 0 PROVE AccLatest(keep) = old
  <2>1. keep \in 1..accLen
    BY <1>1, <1>2, <1>5
  <2>2. AccLatest(keep) = JrnLatest(kept, keep)
    <3> HIDE DEF keep
    <3> QED BY <2>1, AccLatestIs
  <2>3. JrnLatest(kept, keep) = old
    <3>1. CASE keep = c
      BY <3>1
    <3>2. CASE keep # c
      <4>1. keep = accLen /\ accLen <= c
        BY <1>1, <1>2, <3>2
      <4>2. JrnLatest(kept, accLen) = kept /\ old = kept
        BY <1>1, <4>1, LatestIsAll
      <4> QED BY <4>1, <4>2
    <3> QED BY <3>1, <3>2
  <2> QED BY <2>2, <2>3
<1>6. q = [ring |-> b, len |-> keep, at |-> m]
  <2> HIDE DEF old
  <2>1. AccResized(c) = [ring |-> [i \in 1..c |-> IF i <= keep THEN (IF keep = 0 THEN <<>> ELSE AccLatest(keep))[i] ELSE 0],
                         len |-> keep, at |-> m]
    <3> HIDE DEF keep, m
    <3> QED BY <1>2, <1>3 DEF AccResized
  <2>2. CASE keep = 0
    <3>1. \A i \in 1..c : ~(i <= keep)
      BY <2>2
    <3> HIDE DEF keep
    <3> QED BY <2>1, <3>1
  <2>3. CASE keep # 0
    <3>1. AccLatest(keep) = old
      BY <1>5, <2>3
    <3> HIDE DEF keep
    <3> QED BY <2>1, <2>3, <3>1
  <2> QED BY <2>2, <2>3
<1> HIDE DEF q, old
<1>7. b \in Seq(Int) /\ Len(b) = c /\ \A i \in 1..keep : b[i] = old[i]
  <2> HIDE DEF keep
  <2>1. \A i \in 1..c : b[i] \in Int
    BY <1>2, <1>4
  <2>2. b \in [1..c -> Int]
    BY <2>1
  <2> QED BY <1>2, <2>2
<1>8. m \in Nat /\ m < c
  BY <1>2
<1> HIDE DEF b
<1>9. \A i \in 1..keep : AccPlace(m, keep, i, c) = i
  BY <1>2 DEF AccPlace
<1> HIDE DEF keep, m
<1>10. q.ring = b /\ q.len = keep /\ q.at = m /\ q \in [ring : Seq(Int), len : Nat, at : Nat]
  BY <1>2, <1>6, <1>7, <1>8
<1>11. AccShows(q, old)
  BY <1>2, <1>4, <1>7, <1>8, <1>9, <1>10 DEF AccShows
<1> QED BY <1>7, <1>10, <1>11 DEF q, old

\* One event more.
AccPut(r, e) == [ring |-> [r.ring EXCEPT ![r.at + 1] = e],
                 at |-> IF r.at + 1 = Len(r.ring) THEN 0 ELSE r.at + 1,
                 len |-> Min({r.len + 1, Len(r.ring)})]

\* A ring of records with one more shows the last of them.
LEMMA AccPutShows ==
    ASSUME NEW r, NEW kept, AccShows(r, kept), Len(r.ring) > 0, NEW e \in Int
    PROVE  /\ AccShows(AccPut(r, e), JrnLatest(Append(kept, e), Len(r.ring)))
           /\ Len(AccPut(r, e).ring) = Len(r.ring)
<1> DEFINE q == AccPut(r, e)
           b == r.ring
           n == Len(b)
           at == r.at
           len == r.len
           k == at + 1
           m == IF k = n THEN 0 ELSE k
           d == IF len + 1 <= n THEN len + 1 ELSE n
           c == [b EXCEPT ![k] = e]
           u == Append(kept, e)
           v == JrnLatest(u, n)
<1>1. /\ b \in Seq(Int) /\ n \in Nat \ {0} /\ at \in Nat /\ at < n /\ len \in Nat /\ len <= n
      /\ kept \in Seq(Int) /\ Len(kept) = len
      /\ \A i \in 1..len : kept[i] = b[AccPlace(at, len, i, n)]
  <2>1. b \in Seq(Int)
    BY DEF AccShows
  <2>2. Len(r.ring) \in Nat
    BY <2>1, LenProperties
  <2> QED BY <2>1, <2>2 DEF AccShows
<1>2. q = [ring |-> c, at |-> m, len |-> d]
  <2>1. Min({len + 1, n}) = d
    <3> DEFINE l == len + 1
    <3>1. l \in Int /\ n \in Int
      BY <1>1
    <3> HIDE DEF l, n
    <3>2. Min({l, n}) = IF l <= n THEN l ELSE n
      BY <3>1, MinOfTwo
    <3> QED BY <3>2 DEF l
  <2> QED BY <2>1 DEF AccPut
<1> HIDE DEF b, at, len, q
<1>3. c \in Seq(Int) /\ Len(c) = n /\ \A j \in 1..n : c[j] = IF j = k THEN e ELSE b[j]
  <2>1. k \in 1..Len(b)
    BY <1>1
  <2> HIDE DEF k
  <2> QED BY <1>1, <2>1, ExceptSeq
<1>4. u \in Seq(Int) /\ Len(u) = len + 1 /\ \A i \in 1..(len + 1) : u[i] = IF i <= len THEN kept[i] ELSE e
  BY <1>1, AppendProperties
<1> HIDE DEF c, u
<1>5. v \in Seq(Int) /\ Len(v) = d /\ \A i \in 1..d : v[i] = u[len + 1 - d + i]
  <2> DEFINE x == IF n <= Len(u) THEN n ELSE Len(u)
  <2>1. v \in Seq(Int) /\ Len(v) = x /\ \A i \in 1..x : v[i] = u[Len(u) - x + i]
    BY <1>1, <1>4, LatestIs
  <2>2. x = d /\ Len(u) = len + 1
    BY <1>1, <1>4
  <2>0. d \in Nat
    BY <1>1
  <2> HIDE DEF x, v, d
  <2>4. \A i \in 1..d : Len(u) - d + i = len + 1 - d + i
    BY <1>1, <2>0, <2>2
  <2>3. v \in Seq(Int) /\ Len(v) = d /\ \A i \in 1..d : v[i] = u[Len(u) - d + i]
    BY <2>1, <2>2
  <2> QED BY <2>3, <2>4
<1>6. d \in Nat /\ m \in Nat /\ m < n /\ d <= n
  BY <1>1
<1> HIDE DEF v, n
<1>7. ASSUME NEW i \in 1..d PROVE v[i] = c[AccPlace(m, d, i, n)]
  <2> DEFINE p == len + 1 - d + i
             z == AccPlace(m, d, i, n)
  <2>1. v[i] = u[p] /\ p \in 1..(len + 1) /\ u[p] = IF p <= len THEN kept[p] ELSE e
    <3>1. p \in 1..(len + 1)
      BY <1>1
    <3> QED BY <1>4, <1>5, <3>1
  <2>2. z = IF m - d + i <= 0 THEN m - d + i + n ELSE m - d + i
    BY DEF AccPlace
  <2>3. z \in 1..n
    BY <1>1, <2>2
  <2>4. CASE i = d
    <3>1. p = len + 1
      BY <1>1, <2>4
    <3>2. z = k
      BY <1>1, <2>2, <2>4
    <3>3. v[i] = e
      BY <1>1, <2>1, <3>1
    <3>4. c[z] = e
      <4> HIDE DEF z
      <4> QED BY <1>3, <2>3, <3>2
    <3> QED BY <3>3, <3>4
  <2>5. CASE i # d
    <3>1. p \in 1..len /\ i < d
      BY <1>1, <2>5
    <3>2. AccPlace(at, len, p, n) = IF at - len + p <= 0 THEN at - len + p + n ELSE at - len + p
      BY DEF AccPlace
    <3>3. z = AccPlace(at, len, p, n)
      <4>1. n \in Nat /\ at \in Nat /\ len \in Nat /\ d \in Nat /\ i \in Int /\ at < n /\ len <= n
        BY <1>1
      <4>2. CASE len + 1 <= n
        <5>1. p = i /\ d = len + 1
          BY <4>1, <4>2
        <5> QED BY <4>1, <4>2, <2>2, <3>1, <3>2, <5>1
      <4>3. CASE ~(len + 1 <= n)
        <5>1. p = i + 1 /\ d = n /\ len = n
          BY <4>1, <4>3
        <5> QED BY <4>1, <4>3, <2>2, <3>1, <3>2, <5>1
      <4> QED BY <4>2, <4>3
    <3>4. z # k
      BY <1>1, <2>2, <3>1
    <3>5. v[i] = kept[p] /\ kept[p] = b[AccPlace(at, len, p, n)]
      BY <1>1, <2>1, <3>1
    <3>6. c[z] = b[z]
      <4> HIDE DEF z, k
      <4> QED BY <1>3, <2>3, <3>4
    <3> QED BY <3>3, <3>5, <3>6
  <2> QED BY <2>4, <2>5
<1> HIDE DEF m, d
<1>8. q.ring = c /\ q.at = m /\ q.len = d /\ q \in [ring : Seq(Int), len : Nat, at : Nat]
  <2>1. q.ring = c /\ q.at = m /\ q.len = d
    BY <1>2
  <2> QED BY <1>2, <1>3, <1>6
<1>9. AccShows(q, v) /\ Len(q.ring) = n
  <2>1. q.len <= Len(q.ring) /\ Len(q.ring) = n /\ q.at < Len(q.ring) /\ Len(q.ring) # 0 /\ Len(v) = q.len
    BY <1>1, <1>3, <1>5, <1>6, <1>8
  <2>2. \A i \in 1..q.len : v[i] = q.ring[AccPlace(q.at, q.len, i, Len(q.ring))]
    BY <1>7, <1>8, <2>1
  <2> QED BY <1>5, <1>8, <2>1, <2>2 DEF AccShows
<1> QED BY <1>9 DEF v, u, n, b, q

\* The records begin empty.
LEMMA AccInitInv == AccInit => AccInv
<1> SUFFICES ASSUME AccInit PROVE AccInv
  OBVIOUS
<1>1. AccCaps \subseteq Int /\ AccCaps \subseteq Nat
  BY JrnConstants
<1>2. Max(AccCaps) \in AccCaps
  BY <1>1, JrnConstants, MostOf
<1>3. AccNow = [ring |-> <<>>, len |-> 0, at |-> 0] /\ accKept = <<>> /\ accRing = <<>>
  BY DEF AccInit, AccNow
<1>4. AccShows(AccNow, accKept)
  BY <1>3 DEF AccShows
<1>5. accCap = Max(AccCaps) /\ accCount = [events |-> 0, saves |-> 0]
  BY DEF AccInit
<1>6. Len(accRing) = 0 /\ accCap \in Nat
  BY <1>1, <1>2, <1>3, <1>5
<1> QED BY <1>2, <1>4, <1>5, <1>6 DEF AccInv

\* A request is recorded.
LEMMA AccRecordInv == ASSUME AccInv, AccRecord PROVE AccInv'
<1> DEFINE n == Len(accRing)
           e == accCount.events + 1
           r == AccGrown
           g == Min({Max({2 * n, AccInitial}), accCap})
           q == AccPut(r, e)
<1>1. /\ accCap \in AccCaps /\ accCap \in Nat \ {0} /\ n \in Nat /\ n <= accCap /\ e \in Int
      /\ AccShows(AccNow, accKept) /\ accCount \in [events : Nat, saves : Nat]
      /\ accLen \in Nat /\ accLen <= n /\ accKept \in Seq(Int) /\ Len(accKept) = accLen
  <2>1. accRing \in Seq(Int) /\ accLen \in Nat /\ accLen <= Len(accRing) /\ accKept \in Seq(Int)
        /\ Len(accKept) = accLen
    BY DEF AccInv, AccShows, AccNow
  <2>2. Len(accRing) \in Nat
    BY <2>1, LenProperties
  <2> QED BY <2>1, <2>2, JrnConstants DEF AccInv
<1>2. ASSUME n < accCap PROVE g \in Nat \ {0} /\ g <= accCap /\ n < g
  <2> HIDE DEF n
  <2> DEFINE x == 2 * n
             y == Max({x, AccInitial})
  <2>1. x \in Int /\ AccInitial \in Nat \ {0} /\ x = 2 * n
    BY <1>1, JrnConstants
  <2> HIDE DEF x
  <2>2. y = IF x >= AccInitial THEN x ELSE AccInitial
    BY <2>1, MaxOfTwo
  <2>3. y \in Int /\ y > n /\ y > 0
    BY <1>1, <2>1, <2>2
  <2> HIDE DEF y
  <2>4. Min({y, accCap}) = IF y <= accCap THEN y ELSE accCap
    BY <1>1, <2>3, MinOfTwo
  <2>5. g = Min({y, accCap})
    BY DEF x, y
  <2> QED BY <1>1, <1>2, <2>3, <2>4, <2>5
<1> HIDE DEF g
<1>3. AccShows(r, accKept) /\ Len(r.ring) > 0 /\ Len(r.ring) <= accCap /\ Len(r.ring) \in Nat
      /\ (Len(r.ring) = accCap \/ accLen < Len(r.ring))
  <2>1. CASE accLen = n /\ n < accCap
    <3>1. r = AccResized(g) /\ g \in Nat \ {0} /\ g <= accCap /\ n < g
      BY <1>2, <2>1 DEF AccGrown, g
    <3>2. AccShows(AccResized(g), JrnLatest(accKept, g)) /\ Len(AccResized(g).ring) = g
      BY <1>1, <3>1, AccResizedShows
    <3>3. JrnLatest(accKept, g) = accKept
      BY <1>1, <2>1, <3>1, LatestIsAll
    <3> HIDE DEF r, n
    <3> QED BY <1>1, <2>1, <3>1, <3>2, <3>3
  <2>2. CASE ~(accLen = n /\ n < accCap)
    <3>1. r = AccNow /\ r.ring = accRing
      BY <2>2 DEF AccGrown, AccNow
    <3> HIDE DEF r
    <3> QED BY <1>1, <2>2, <3>1
  <2> QED BY <2>1, <2>2
<1>4. /\ AccNow' = q /\ accKept' = JrnLatest(Append(accKept, e), accCap) /\ accCap' = accCap
      /\ accRing' = q.ring /\ accCount' \in [events : Nat, saves : Nat]
  BY <1>1 DEF AccRecord, AccSet, AccNow, AccPut
<1> HIDE DEF r, n, e
<1>5. AccShows(q, JrnLatest(Append(accKept, e), Len(r.ring))) /\ Len(q.ring) = Len(r.ring)
  BY <1>1, <1>3, AccPutShows
<1> HIDE DEF q
<1>6. JrnLatest(Append(accKept, e), Len(r.ring)) = JrnLatest(Append(accKept, e), accCap)
  <2>1. CASE Len(r.ring) = accCap
    BY <2>1
  <2>2. CASE Len(r.ring) # accCap
    <3> DEFINE u == Append(accKept, e)
    <3>1. u \in Seq(Int) /\ Len(u) = accLen + 1
      BY <1>1, AppendProperties
    <3>2. accLen < Len(r.ring)
      BY <1>3, <2>2
    <3> HIDE DEF u
    <3>3. Len(u) <= Len(r.ring) /\ Len(u) <= accCap /\ accCap \in Nat
      BY <1>1, <1>3, <3>1, <3>2
    <3>4. JrnLatest(u, Len(r.ring)) = u /\ JrnLatest(u, accCap) = u
      BY <1>3, <3>1, <3>3, LatestIsAll
    <3> QED BY <3>4 DEF u
  <2> QED BY <2>1, <2>2
<1> QED BY <1>1, <1>3, <1>4, <1>5, <1>6 DEF AccInv

\* Every step of the records keeps their invariant.
LEMMA AccStepInv == ASSUME AccInv, [AccNext]_accVars PROVE AccInv'
<1>1. CASE UNCHANGED accVars
  BY <1>1 DEF accVars, AccInv, AccShows, AccNow, AccPlace
<1>2. ASSUME NEW c \in AccCaps, AccSetCap(c) PROVE AccInv'
  <2>1. c \in Nat \ {0} /\ AccShows(AccNow, accKept) /\ accCount \in [events : Nat, saves : Nat]
    BY JrnConstants DEF AccInv
  <2>2. accCap' = c /\ accKept' = JrnLatest(accKept, c) /\ accCount' \in [events : Nat, saves : Nat]
    BY <1>2, <2>1 DEF AccSetCap
  <2>3. CASE AccShrinks(c)
    <3>1. AccShows(AccResized(c), JrnLatest(accKept, c)) /\ Len(AccResized(c).ring) = c
      BY <2>1, AccResizedShows
    <3>2. accRing' = AccResized(c).ring /\ accLen' = AccResized(c).len /\ accAt' = AccResized(c).at
      BY <1>2, <2>3 DEF AccSetCap, AccSet
    <3>3. AccNow' = AccResized(c)
      BY <3>1, <3>2 DEF AccNow, AccShows
    <3> QED BY <2>1, <2>2, <3>1, <3>2, <3>3 DEF AccInv
  <2>4. CASE ~AccShrinks(c)
    <3>1. accRing' = accRing /\ accLen' = accLen /\ accAt' = accAt
      BY <1>2, <2>4 DEF AccSetCap, AccSet, AccNow
    <3>2. accKept \in Seq(Int) /\ Len(accKept) <= c /\ Len(accRing) <= c
      <4>1. accRing \in Seq(Int) /\ accLen \in Nat /\ accLen <= Len(accRing) /\ accKept \in Seq(Int)
            /\ Len(accKept) = accLen
        BY DEF AccInv, AccShows, AccNow
      <4>2. Len(accRing) \in Nat
        BY <4>1, LenProperties
      <4> QED BY <2>1, <2>4, <4>1, <4>2 DEF AccShrinks
    <3>3. JrnLatest(accKept, c) = accKept
      BY <2>1, <3>2, LatestIsAll
    <3>4. AccNow' = AccNow
      BY <3>1 DEF AccNow
    <3> QED BY <2>1, <2>2, <3>1, <3>2, <3>3, <3>4 DEF AccInv
  <2> QED BY <2>3, <2>4
<1>3. CASE AccRecord
  BY <1>3, AccRecordInv
<1> QED BY <1>1, <1>2, <1>3 DEF AccNext

\* The events are shown as they are kept.
LEMMA AccShowsAll == AccInv => AccLogs = Reverse(accKept)
<1> SUFFICES ASSUME AccInv PROVE AccLogs = Reverse(accKept)
  OBVIOUS
<1>1. AccShows(AccNow, accKept) /\ accKept \in Seq(Int) /\ Len(accKept) = accLen /\ accLen \in Nat
  BY DEF AccInv, AccShows, AccNow
<1>2. CASE accLen = 0
  <2>1. accKept = <<>>
    BY <1>1, <1>2, EmptySeq
  <2>2. Reverse(<<>>) = <<>>
    BY DEF Reverse
  <2> QED BY <1>2, <2>1, <2>2 DEF AccLogs
<1>3. CASE accLen # 0
  <2>1. accLen \in 1..accLen
    BY <1>1, <1>3
  <2>2. AccLatest(accLen) = JrnLatest(accKept, accLen)
    BY <1>1, <2>1, AccLatestIs
  <2>3. JrnLatest(accKept, accLen) = accKept
    BY <1>1, LatestIsAll
  <2> QED BY <1>3, <2>2, <2>3 DEF AccLogs
<1> QED BY <1>2, <1>3

\* The samples up to the one of the moment last, as many as there is room for.
MtrRun(s, last) ==
    /\ s \in Seq(Int) /\ last \in Nat
    /\ Len(s) = IF last <= MtrSize THEN last ELSE MtrSize
    /\ \A i \in 1..Len(s) : s[i] = last - Len(s) + i

MtrR == [buf |-> mtrRing, next |-> mtrAt, filled |-> mtrFilled]

\* What was received since it was last read.
MtrUnread(wire, last) == IF wire >= last THEN wire - last ELSE 0

MtrClockInv ==
    "clock" \notin mtrExcuse =>
       /\ MtrRun(mtrSeen, mtrClock - 1)
       /\ mtrPage # <<>> => \E p \in 1..(mtrClock - 1) : MtrRun(mtrPage, p)

\* The inductive invariant of the statistics.
MtrInv ==
    /\ JrnRingOK(MtrR) /\ Len(mtrRing) = MtrSize /\ mtrSeen = JrnSnapshot(MtrR)
    /\ mtrLast \in Nat /\ mtrTotal \in Nat /\ mtrWire \in Nat /\ mtrClock \in Nat \ {0}
    /\ mtrCount \in [troubles : Nat, wire : Nat]
    /\ MtrClockInv
    /\ "unread" \notin mtrExcuse => mtrTotal + MtrUnread(mtrWire, mtrLast) <= mtrCount.wire

\* There is one run of samples that ends at a number.
LEMMA MtrRunOnly ==
    ASSUME NEW s, NEW t, NEW last, MtrRun(s, last), MtrRun(t, last)
    PROVE  s = t
<1>1. s \in Seq(Int) /\ t \in Seq(Int) /\ Len(s) = Len(t) /\ \A i \in 1..Len(s) : s[i] = t[i]
  BY DEF MtrRun
<1> QED BY <1>1, SeqEqual

\* A run with the next samples behind it, cut to its size, is a run.
LEMMA MtrRunMore ==
    ASSUME NEW s, NEW p, MtrRun(s, p), NEW t \in Seq(Int), NEW c \in Nat, Len(t) = c,
           \A i \in 1..c : t[i] = p + i
    PROVE  MtrRun(JrnLatest(s \o t, MtrSize), p + c)
<1> DEFINE n == Len(s)
           u == s \o t
           v == JrnLatest(u, MtrSize)
           d == IF MtrSize <= n + c THEN MtrSize ELSE n + c
<1>1. s \in Seq(Int) /\ p \in Nat /\ n = (IF p <= MtrSize THEN p ELSE MtrSize) /\ MtrSize \in Nat \ {0}
      /\ (\A i \in 1..n : s[i] = p - n + i) /\ n \in Nat
  BY JrnConstants DEF MtrRun
<1>2. u \in Seq(Int) /\ Len(u) = n + c /\ \A i \in 1..(n + c) : u[i] = IF i <= n THEN s[i] ELSE t[i - n]
  BY <1>1, ConcatProperties
<1> HIDE DEF u, n
<1>3. \A i \in 1..(n + c) : u[i] = p - n + i
  <2> TAKE i \in 1..(n + c)
  <2>1. CASE i <= n
    <3>1. i \in 1..n
      BY <1>1, <2>1
    <3> QED BY <1>1, <1>2, <2>1, <3>1
  <2>2. CASE ~(i <= n)
    <3> DEFINE j == i - n
    <3>1. j \in 1..c /\ p + j = p - n + i
      BY <1>1, <2>2
    <3>2. u[i] = t[j]
      BY <1>2, <2>2
    <3> HIDE DEF j
    <3> QED BY <3>1, <3>2
  <2> QED BY <2>1, <2>2
<1>4. v \in Seq(Int) /\ Len(v) = d /\ \A i \in 1..d : v[i] = u[n + c - d + i]
  <2> DEFINE x == IF MtrSize <= Len(u) THEN MtrSize ELSE Len(u)
  <2>1. v \in Seq(Int) /\ Len(v) = x /\ \A i \in 1..x : v[i] = u[Len(u) - x + i]
    BY <1>1, <1>2, LatestIs
  <2>2. x = d /\ Len(u) = n + c /\ d \in Nat
    BY <1>1, <1>2
  <2> HIDE DEF x, v, d
  <2>3. v \in Seq(Int) /\ Len(v) = d /\ \A i \in 1..d : v[i] = u[Len(u) - d + i]
    BY <2>1, <2>2
  <2>4. \A i \in 1..d : Len(u) - d + i = n + c - d + i
    BY <1>1, <2>2
  <2> QED BY <2>3, <2>4
<1>5. d = (IF p + c <= MtrSize THEN p + c ELSE MtrSize) /\ d \in Nat /\ p + c \in Nat /\ d <= n + c
  BY <1>1
<1> HIDE DEF v, d
<1>6. \A i \in 1..d : v[i] = p + c - d + i
  <2> TAKE i \in 1..d
  <2> DEFINE j == n + c - d + i
  <2>1. j \in 1..(n + c) /\ p - n + j = p + c - d + i
    BY <1>1, <1>5
  <2>2. v[i] = u[j]
    BY <1>4
  <2> HIDE DEF j
  <2> QED BY <1>3, <2>1, <2>2
<1>7. MtrRun(v, p + c)
  <2> DEFINE q == p + c
  <2>1. v \in Seq(Int) /\ Len(v) = d
    BY <1>4
  <2>3. d = (IF q <= MtrSize THEN q ELSE MtrSize) /\ q \in Nat
    BY <1>5
  <2>4. \A i \in 1..d : v[i] = q - d + i
    BY <1>1, <1>5, <1>6
  <2> HIDE DEF q
  <2>5. \A i \in 1..Len(v) : v[i] = q - Len(v) + i
    BY <2>1, <2>4
  <2>2. MtrRun(v, q)
    BY <2>1, <2>3, <2>5 DEF MtrRun
  <2> QED BY <2>2 DEF q
<1> QED BY <1>7 DEF v, u

\* One sample more.
LEMMA MtrRunNext ==
    ASSUME NEW s, NEW e \in Nat \ {0}, MtrRun(s, e - 1)
    PROVE  MtrRun(JrnLatest(Append(s, e), MtrSize), e)
<1> DEFINE t == <<e>>
           p == e - 1
<1>1. t \in Seq(Int) /\ Len(t) = 1 /\ p \in Nat /\ p + 1 = e /\ \A i \in 1..1 : t[i] = p + i
  OBVIOUS
<1>2. s \in Seq(Int) /\ s \o t = Append(s, e)
  <2>1. s \in Seq(Int) /\ Len(s) \in Nat
    BY LenProperties DEF MtrRun
  <2>2. /\ s \o t \in Seq(Int) /\ Len(s \o t) = Len(s) + 1
        /\ \A i \in 1..(Len(s) + 1) : (s \o t)[i] = IF i <= Len(s) THEN s[i] ELSE t[i - Len(s)]
    <3>1. t \in Seq(Int) /\ Len(t) = 1
      BY <1>1
    <3> HIDE DEF t
    <3>2. /\ s \o t \in Seq(Int) /\ Len(s \o t) = Len(s) + Len(t)
          /\ \A i \in 1..(Len(s) + Len(t)) : (s \o t)[i] = IF i <= Len(s) THEN s[i] ELSE t[i - Len(s)]
      BY <2>1, <3>1, ConcatProperties
    <3> QED BY <3>1, <3>2
  <2>3. /\ Append(s, e) \in Seq(Int) /\ Len(Append(s, e)) = Len(s) + 1
        /\ \A i \in 1..(Len(s) + 1) : Append(s, e)[i] = IF i <= Len(s) THEN s[i] ELSE e
    BY <2>1, AppendProperties
  <2>4. \A i \in 1..(Len(s) + 1) : (s \o t)[i] = Append(s, e)[i]
    <3> TAKE i \in 1..(Len(s) + 1)
    <3>1. i <= Len(s) \/ i - Len(s) = 1
      BY <2>1
    <3> QED BY <1>1, <2>1, <2>2, <2>3, <3>1
  <2> HIDE DEF t
  <2> QED BY <2>1, <2>2, <2>3, <2>4, SeqEqual
<1> HIDE DEF t, p
<1>3. MtrRun(s, p)
  BY DEF p
<1>4. MtrRun(JrnLatest(s \o t, MtrSize), p + 1)
  BY <1>1, <1>3, MtrRunMore
<1> QED BY <1>1, <1>2, <1>4

\* What the metrics show are the samples of the ring.
LEMMA MtrShows ==
    ASSUME JrnRingOK(MtrR), Len(mtrRing) = MtrSize
    PROVE  /\ MtrSnapshot = JrnSnapshot(MtrR) /\ MtrNumber = JrnShown(MtrR) /\ MtrNumber \in Nat
           /\ MtrNumber <= MtrSize /\ Len(JrnSnapshot(MtrR)) = MtrNumber
           /\ JrnSnapshot(MtrR) \in Seq(Int)
           /\ \A i \in 0..(MtrNumber - 1) : MtrAt(i) = JrnSnapshot(MtrR)[i + 1]
<1> DEFINE s == JrnSnapshot(MtrR)
           n == MtrNumber
<1>1. MtrR.buf = mtrRing /\ MtrR.next = mtrAt /\ MtrR.filled = mtrFilled
  BY DEF MtrR
<1>2. mtrAt \in Nat /\ MtrSize \in Nat \ {0} /\ mtrAt < MtrSize /\ mtrFilled \in BOOLEAN
  BY <1>1, JrnConstants DEF JrnRingOK
<1>3. s \in Seq(Int) /\ Len(s) = JrnShown(MtrR) /\ \A i \in 1..JrnShown(MtrR) : s[i] = mtrRing[JrnPlace(MtrR, i)]
  BY <1>1, JrnRingShows
<1>4. n = JrnShown(MtrR) /\ n \in Nat /\ n <= MtrSize
  BY <1>1, <1>2 DEF JrnShown, MtrNumber
<1> HIDE DEF n, s
<1>5. ASSUME NEW i \in 0..(n - 1) PROVE MtrAt(i) = s[i + 1]
  <2> DEFINE j == i + 1
             x == mtrAt + i
  <2>1. j \in 1..n /\ x \in 0..(2 * MtrSize - 1)
    BY <1>2, <1>4
  <2>2. s[j] = mtrRing[JrnPlace(MtrR, j)]
    <3> HIDE DEF j
    <3> QED BY <1>3, <1>4, <2>1
  <2>3. JrnPlace(MtrR, j) = IF ~mtrFilled THEN j ELSE IF mtrAt + j <= MtrSize THEN mtrAt + j ELSE mtrAt + j - MtrSize
    BY <1>1 DEF JrnPlace
  <2>4. CASE mtrFilled
    <3>1. x % MtrSize = IF x < MtrSize THEN x ELSE x - MtrSize
      <4> HIDE DEF x
      <4> QED BY <1>2, <2>1, Wraps
    <3>2. MtrAt(i) = mtrRing[(x % MtrSize) + 1]
      BY <2>4 DEF MtrAt
    <3>3. JrnPlace(MtrR, j) = (x % MtrSize) + 1
      <4>0. mtrAt + j = x + 1 /\ x \in Nat /\ j \in Nat
        BY <1>2
      <4> HIDE DEF x, j
      <4>1. CASE x < MtrSize
        BY <1>2, <2>3, <2>4, <3>1, <4>0, <4>1
      <4>2. CASE ~(x < MtrSize)
        <5>1. ~(mtrAt + j <= MtrSize) /\ mtrAt + j - MtrSize = (x - MtrSize) + 1
          BY <1>2, <4>0, <4>2
        <5> QED BY <2>3, <2>4, <3>1, <4>2, <5>1
      <4> QED BY <4>1, <4>2
    <3> HIDE DEF x
    <3> QED BY <2>2, <3>2, <3>3
  <2>5. CASE ~mtrFilled
    <3>1. MtrAt(i) = mtrRing[j] /\ JrnPlace(MtrR, j) = j
      BY <2>3, <2>5 DEF MtrAt
    <3> QED BY <2>2, <3>1
  <2> QED BY <1>2, <2>4, <2>5
<1>6. MtrSnapshot = s
  <2> DEFINE f == [i \in 1..n |-> MtrAt(i - 1)]
  <2>1. MtrSnapshot = f
    BY DEF MtrSnapshot, n
  <2>2. \A i \in 1..n : f[i] = s[i]
    <3> TAKE i \in 1..n
    <3> DEFINE j == i - 1
    <3>1. j \in 0..(n - 1) /\ j + 1 = i /\ f[i] = MtrAt(j)
      BY <1>4
    <3> HIDE DEF j, f
    <3> QED BY <1>5, <3>1
  <2>3. \A i \in 1..n : s[i] \in Int
    BY <1>3, <1>4, ElementOfSeq
  <2>4. f \in [1..n -> Int]
    <3>1. f = [i \in 1..n |-> f[i]]
      OBVIOUS
    <3> HIDE DEF f
    <3> QED BY <2>2, <2>3, <3>1
  <2>5. f \in Seq(Int) /\ Len(f) = n
    <3> HIDE DEF f
    <3>1. f \in Seq(Int) /\ DOMAIN f = 1..n
      BY <1>4, <2>4
    <3> QED BY <1>4, <2>4, <3>1
  <2> HIDE DEF f
  <2>6. f = s
    BY <1>3, <1>4, <2>2, <2>5, SeqEqual
  <2> QED BY <2>1, <2>6
<1> QED BY <1>3, <1>4, <1>5, <1>6 DEF n, s

\* A page that asks for what is newer than the last sample it has gets what it lacks.
LEMMA MtrAnswered ==
    ASSUME MtrInv, "clock" \notin mtrExcuse, mtrPage # <<>>, ~MtrSince(Last(mtrPage)).full
    PROVE  JrnLatest(mtrPage \o MtrSince(Last(mtrPage)).series, MtrSize) = mtrSeen
<1> DEFINE n == MtrNumber
           last == mtrClock - 1
           since == Last(mtrPage)
<1>1. MtrRun(mtrSeen, last) /\ mtrClock \in Nat \ {0} /\ mtrSeen = JrnSnapshot(MtrR)
      /\ MtrSize \in Nat \ {0} /\ last \in Nat
  BY JrnConstants DEF MtrInv, MtrClockInv
<1>2. n \in Nat /\ Len(mtrSeen) = n /\ \A i \in 0..(n - 1) : MtrAt(i) = mtrSeen[i + 1]
  BY <1>1, MtrShows DEF MtrInv
<1>3. PICK p \in 1..last : MtrRun(mtrPage, p)
  BY DEF MtrInv, MtrClockInv
<1> HIDE DEF n, last
<1>4. since = p
  <2>1. since = mtrPage[Len(mtrPage)] /\ Len(mtrPage) \in Nat /\ Len(mtrPage) # 0
    BY <1>1, <1>3 DEF Last, MtrRun
  <2>2. Len(mtrPage) \in 1..Len(mtrPage)
    BY <2>1
  <2>3. mtrPage[Len(mtrPage)] = p - Len(mtrPage) + Len(mtrPage)
    BY <1>3, <2>2 DEF MtrRun
  <2> QED BY <1>1, <2>1, <2>3
<1>5. \A i \in 0..(n - 1) : MtrAt(i) = last - n + i + 1
  <2> TAKE i \in 0..(n - 1)
  <2> DEFINE j == i + 1
  <2>1. j \in 1..n /\ MtrAt(i) = mtrSeen[j]
    BY <1>2
  <2>2. mtrSeen[j] = last - n + j
    <3> HIDE DEF j
    <3> QED BY <1>1, <1>2, <2>1 DEF MtrRun
  <2> QED BY <1>1, <1>2, <2>1, <2>2
<1> DEFINE newer == {i \in 0..(n - 1) : \A j \in i..(n - 1) : MtrAt(j) > p}
           c == last - p
<1>6. /\ ~(n = 0) /\ ~(p <= 0) /\ ~(p < MtrAt(0))
      /\ MtrSince(p) = [full |-> FALSE,
              series |-> [i \in 1..Cardinality(newer) |-> MtrAt(n - Cardinality(newer) + i - 1)]]
  <2> HIDE DEF newer
  <2>1. MtrSince(p) = IF n = 0 \/ p <= 0 \/ p < MtrAt(0) THEN [full |-> TRUE, series |-> MtrSnapshot]
           ELSE [full |-> FALSE,
              series |-> [i \in 1..Cardinality(newer) |-> MtrAt(n - Cardinality(newer) + i - 1)]]
    BY DEF MtrSince, newer, n
  <2>2. ~MtrSince(p).full
    BY <1>4
  <2> HIDE DEF n
  <2>3. ~(n = 0 \/ p <= 0 \/ p < MtrAt(0))
    <3> SUFFICES ASSUME n = 0 \/ p <= 0 \/ p < MtrAt(0) PROVE FALSE
      OBVIOUS
    <3>1. MtrSince(p) = [full |-> TRUE, series |-> MtrSnapshot]
      BY <2>1
    <3>2. MtrSince(p).full = TRUE
      BY <3>1
    <3> QED BY <2>2, <3>2
  <2> QED BY <2>1, <2>3
<1>7. p \in Nat /\ p <= last /\ last - n + 1 <= p /\ n # 0 /\ c \in Nat /\ c <= n - 1
  <2>1. 0 \in 0..(n - 1)
    BY <1>2, <1>6
  <2>2. MtrAt(0) = last - n + 0 + 1
    BY <1>5, <2>1
  <2> QED BY <1>1, <1>2, <1>3, <1>6, <2>2
<1>8. newer = (n - c)..(n - 1)
  <2>1. ASSUME NEW i \in newer PROVE i \in (n - c)..(n - 1)
    <3>1. i \in 0..(n - 1) /\ i \in i..(n - 1)
      BY <1>2
    <3>2. MtrAt(i) > p
      BY <3>1
    <3>3. MtrAt(i) = last - n + i + 1
      BY <1>5, <3>1
    <3> HIDE DEF newer
    <3> QED BY <1>1, <1>2, <1>7, <3>1, <3>2, <3>3
  <2>2. ASSUME NEW i \in (n - c)..(n - 1) PROVE i \in newer
    <3>1. i \in 0..(n - 1)
      BY <1>2, <1>7
    <3>2. ASSUME NEW j \in i..(n - 1) PROVE MtrAt(j) > p
      <4>1. j \in 0..(n - 1) /\ j \in Int /\ j >= n - c
        BY <1>2, <1>7, <3>1
      <4>2. MtrAt(j) = last - n + j + 1
        BY <1>5, <4>1
      <4> QED BY <1>1, <1>2, <1>7, <4>1, <4>2
    <3> QED BY <3>1, <3>2
  <2> HIDE DEF newer
  <2> QED BY <2>1, <2>2
<1>9. Cardinality(newer) = c
  <2> DEFINE a == n - c
             b == n - 1
  <2>1. a \in Int /\ b \in Int /\ (IF a > b THEN 0 ELSE b - a + 1) = c
    BY <1>2, <1>7
  <2> HIDE DEF a, b, newer, c
  <2>2. Cardinality(a..b) = IF a > b THEN 0 ELSE b - a + 1
    BY <2>1, FS_Interval
  <2> QED BY <1>8, <2>1, <2>2 DEF a, b
<1> DEFINE t == [i \in 1..c |-> MtrAt(n - c + i - 1)]
<1>10. MtrSince(p).series = t
  <2> HIDE DEF newer, c
  <2> QED BY <1>6, <1>9
<1>11. \A i \in 1..c : t[i] = p + i
  <2> TAKE i \in 1..c
  <2> DEFINE j == n - c + i - 1
  <2>1. j \in 0..(n - 1) /\ last - n + j + 1 = p + i
    BY <1>1, <1>2, <1>7
  <2>2. t[i] = MtrAt(j)
    OBVIOUS
  <2> HIDE DEF j, t
  <2> QED BY <1>5, <2>1, <2>2
<1>12. t \in Seq(Int) /\ Len(t) = c
  <2>1. t = [i \in 1..c |-> t[i]]
    OBVIOUS
  <2> HIDE DEF t, c
  <2>2. t \in [1..c -> Int]
    BY <1>7, <1>11, <2>1
  <2> QED BY <1>7, <2>2
<1> HIDE DEF t, newer
<1>13. MtrRun(JrnLatest(mtrPage \o t, MtrSize), p + c)
  <2> HIDE DEF c
  <2> QED BY <1>3, <1>7, <1>11, <1>12, MtrRunMore
<1>14. p + c = last
  BY <1>1, <1>7
<1>15. JrnLatest(mtrPage \o t, MtrSize) = mtrSeen
  BY <1>1, <1>13, <1>14, MtrRunOnly
<1> QED BY <1>4, <1>10, <1>15

\* What the counter grew by is a natural number.
LEMMA MtrUnreadIs ==
    ASSUME NEW w \in Nat, NEW l \in Nat
    PROVE  MtrUnread(w, l) \in Nat
BY DEF MtrUnread

\* The statistics begin with no sample and no count.
LEMMA MtrInitInv == MtrInit => MtrInv
<1> SUFFICES ASSUME MtrInit PROVE MtrInv
  OBVIOUS
<1> DEFINE b == [i \in 1..MtrSize |-> 0]
<1>0. MtrSize \in Nat \ {0}
  BY JrnConstants
<1>1. b \in Seq(Int) /\ Len(b) = MtrSize
  <2>1. b \in [1..MtrSize -> Int]
    OBVIOUS
  <2> QED BY <1>0, <2>1
<1>2. MtrR = JrnEmpty(MtrSize) /\ mtrRing = b
  BY DEF MtrInit, MtrR, JrnEmpty
<1> HIDE DEF b
<1>3. JrnRingOK(MtrR) /\ JrnSnapshot(MtrR) = <<>>
  BY <1>0, <1>2, JrnRingEmpty
<1>4. MtrRun(<<>>, 0)
  BY <1>0 DEF MtrRun
<1>5. MtrClockInv
  <2>1. mtrClock - 1 = 0 /\ mtrSeen = <<>> /\ mtrPage = <<>>
    BY DEF MtrInit
  <2> QED BY <1>4, <2>1 DEF MtrClockInv
<1>6. mtrLast \in Nat /\ mtrTotal \in Nat /\ mtrWire \in Nat /\ mtrClock \in Nat \ {0}
      /\ mtrCount \in [troubles : Nat, wire : Nat] /\ mtrSeen = <<>>
      /\ mtrTotal + MtrUnread(mtrWire, mtrLast) <= mtrCount.wire
  BY DEF MtrInit, MtrUnread
<1> QED BY <1>1, <1>2, <1>3, <1>5, <1>6 DEF MtrInv

\* A step that leaves the samples alone.
LEMMA MtrQuietInv ==
    ASSUME MtrInv, UNCHANGED <<mtrRing, mtrAt, mtrFilled, mtrSeen>>,
           mtrLast' = mtrLast, mtrTotal' = mtrTotal, mtrWire' \in Nat, mtrClock' \in Nat \ {0},
           mtrCount' \in [troubles : Nat, wire : Nat], mtrExcuse \subseteq mtrExcuse',
           MtrClockInv', MtrUnread(mtrWire', mtrLast') <= MtrUnread(mtrWire, mtrLast) + (mtrCount'.wire - mtrCount.wire)
    PROVE  MtrInv'
<1>1. MtrR' = MtrR
  BY DEF MtrR
<1>2. JrnRingOK(MtrR)' /\ (Len(mtrRing) = MtrSize)' /\ (mtrSeen = JrnSnapshot(MtrR))'
  BY <1>1 DEF MtrInv
<1>3. ("unread" \notin mtrExcuse => mtrTotal + MtrUnread(mtrWire, mtrLast) <= mtrCount.wire)'
  <2> SUFFICES ASSUME "unread" \notin mtrExcuse' PROVE (mtrTotal + MtrUnread(mtrWire, mtrLast) <= mtrCount.wire)'
    OBVIOUS
  <2>1. mtrTotal + MtrUnread(mtrWire, mtrLast) <= mtrCount.wire /\ mtrTotal \in Nat /\ mtrCount.wire \in Nat
        /\ mtrCount'.wire \in Nat /\ mtrLast \in Nat /\ mtrWire \in Nat
    BY DEF MtrInv
  <2>2. MtrUnread(mtrWire, mtrLast) \in Nat
    BY <2>1 DEF MtrUnread, MtrDelta
  <2>4. MtrUnread(mtrWire', mtrLast') \in Nat
    <3>1. mtrLast' \in Nat /\ mtrWire' \in Nat
      BY <2>1
    <3> QED BY <3>1, MtrUnreadIs
  <2> QED BY <2>1, <2>2, <2>4
<1> QED BY <1>2, <1>3 DEF MtrInv

\* A sample is taken, with the counters read or not.
LEMMA MtrSampleInv == ASSUME MtrInv, NEW read \in BOOLEAN, MtrSample(read) PROVE MtrInv'
<1>0. MtrSize \in Nat \ {0}
  BY JrnConstants
<1>1. /\ mtrAt \in Nat /\ mtrAt < MtrSize /\ mtrFilled \in BOOLEAN /\ mtrRing \in Seq(Int)
      /\ Len(mtrRing) = MtrSize /\ mtrClock \in Nat \ {0} /\ JrnRingOK(MtrR)
      /\ mtrCount \in [troubles : Nat, wire : Nat]
      /\ mtrLast \in Nat /\ mtrTotal \in Nat /\ mtrWire \in Nat
  <2>1. MtrR.buf = mtrRing /\ MtrR.next = mtrAt /\ MtrR.filled = mtrFilled
    BY DEF MtrR
  <2> QED BY <2>1 DEF MtrInv, JrnRingOK
<1> DEFINE k == mtrAt + 1
<1>2. k % MtrSize = IF k = MtrSize THEN 0 ELSE k
  <2>1. k \in 0..(2 * MtrSize - 1) /\ k <= MtrSize /\ k \in Nat
    BY <1>0, <1>1
  <2> HIDE DEF k
  <2>2. k % MtrSize = IF k < MtrSize THEN k ELSE k - MtrSize
    BY <1>0, <2>1, Wraps
  <2> QED BY <1>0, <2>1, <2>2
<1>3. MtrR' = JrnPushed(MtrR, mtrClock)
  <2>1. MtrR.buf = mtrRing /\ MtrR.next = mtrAt /\ MtrR.filled = mtrFilled
    BY DEF MtrR
  <2>2. JrnPushed(MtrR, mtrClock) = [buf |-> [mtrRing EXCEPT ![k] = mtrClock], next |-> k % MtrSize,
           filled |-> mtrFilled \/ k % MtrSize = 0]
    BY <1>1, <2>1 DEF JrnPushed
  <2>3. mtrRing' = [mtrRing EXCEPT ![k] = mtrClock] /\ mtrAt' = (IF k = MtrSize THEN 0 ELSE k)
        /\ mtrFilled' = (mtrFilled \/ k = MtrSize)
    BY DEF MtrSample
  <2>4. (k % MtrSize = 0) = (k = MtrSize)
    BY <1>1, <1>2
  <2>5. MtrR' = [buf |-> mtrRing', next |-> mtrAt', filled |-> mtrFilled']
    BY DEF MtrR
  <2> HIDE DEF k
  <2> QED BY <1>2, <2>2, <2>3, <2>4, <2>5
<1>4. JrnRingOK(MtrR)' /\ Len(mtrRing)' = MtrSize /\ mtrSeen' = JrnSnapshot(MtrR)'
  <2>0. mtrClock \in Int
    BY <1>1
  <2>1. JrnRingOK(JrnPushed(MtrR, mtrClock)) /\ Len(JrnPushed(MtrR, mtrClock).buf) = Len(MtrR.buf)
        /\ JrnSnapshot(JrnPushed(MtrR, mtrClock)) = JrnLatest(Append(JrnSnapshot(MtrR), mtrClock), Len(MtrR.buf))
    BY <1>1, <2>0, JrnRingPushed
  <2>2. MtrR.buf = mtrRing /\ MtrR'.buf = mtrRing'
    BY DEF MtrR
  <2>3. mtrSeen = JrnSnapshot(MtrR) /\ mtrSeen' = JrnLatest(Append(mtrSeen, mtrClock), MtrSize)
    BY DEF MtrInv, MtrSample
  <2> QED BY <1>1, <1>3, <2>1, <2>2, <2>3
<1>5. mtrClock' = mtrClock + 1 /\ mtrPage' = mtrPage /\ mtrWire' = mtrWire /\ mtrExcuse \subseteq mtrExcuse'
      /\ mtrCount' \in [troubles : Nat, wire : Nat] /\ mtrCount'.wire = mtrCount.wire
  <2>1. mtrCount' = IF read THEN mtrCount ELSE [mtrCount EXCEPT !.troubles = mtrCount.troubles + 1]
    BY DEF MtrSample
  <2>2. mtrCount' \in [troubles : Nat, wire : Nat] /\ mtrCount'.wire = mtrCount.wire
    BY <1>1, <2>1
  <2> QED BY <2>2 DEF MtrSample
<1>6. MtrClockInv'
  <2> SUFFICES ASSUME "clock" \notin mtrExcuse'
               PROVE  (MtrRun(mtrSeen, mtrClock - 1))' /\ (mtrPage # <<>> => \E p \in 1..(mtrClock - 1) : MtrRun(mtrPage, p))'
    BY DEF MtrClockInv
  <2>1. MtrRun(mtrSeen, mtrClock - 1) /\ (mtrPage # <<>> => \E p \in 1..(mtrClock - 1) : MtrRun(mtrPage, p))
    BY <1>5 DEF MtrInv, MtrClockInv
  <2>2. MtrRun(mtrSeen', mtrClock)
    <3>1. mtrSeen' = JrnLatest(Append(mtrSeen, mtrClock), MtrSize)
      BY DEF MtrSample
    <3> QED BY <1>1, <2>1, <3>1, MtrRunNext
  <2>3. mtrClock' - 1 = mtrClock
    BY <1>1, <1>5
  <2>4. mtrPage' # <<>> => \E p \in 1..mtrClock : MtrRun(mtrPage', p)
    BY <1>1, <1>5, <2>1
  <2>5. MtrRun(mtrSeen', mtrClock' - 1) /\ (mtrPage' # <<>> => \E p \in 1..(mtrClock' - 1) : MtrRun(mtrPage', p))
    BY <2>2, <2>3, <2>4
  <2> QED BY <2>5 DEF MtrRun
<1>7. mtrTotal' \in Nat /\ mtrLast' \in Nat
      /\ ("unread" \notin mtrExcuse => mtrTotal + MtrUnread(mtrWire, mtrLast) <= mtrCount.wire)'
  <2>0. ~read => "unread" \in mtrExcuse'
    BY DEF MtrSample
  <2>1. mtrLast' = (IF read THEN mtrWire ELSE 0) /\ mtrTotal' = mtrTotal + MtrUnread(IF read THEN mtrWire ELSE 0, mtrLast)
    BY DEF MtrSample, MtrDelta, MtrUnread
  <2>2. MtrUnread(IF read THEN mtrWire ELSE 0, mtrLast) \in Nat /\ MtrUnread(mtrWire, mtrLast) \in Nat
    BY <1>1 DEF MtrUnread, MtrDelta
  <2>3. mtrTotal' \in Nat /\ mtrLast' \in Nat
    BY <1>1, <2>1, <2>2
  <2>4. ASSUME read, "unread" \notin mtrExcuse' PROVE (mtrTotal + MtrUnread(mtrWire, mtrLast) <= mtrCount.wire)'
    <3>1. mtrTotal + MtrUnread(mtrWire, mtrLast) <= mtrCount.wire
      BY <1>5, <2>4 DEF MtrInv
    <3>2. MtrUnread(mtrWire', mtrLast') = 0
      BY <1>1, <1>5, <2>1, <2>4 DEF MtrUnread, MtrDelta
    <3>3. mtrTotal' = mtrTotal + MtrUnread(mtrWire, mtrLast)
      BY <2>1, <2>4
    <3> QED BY <1>1, <1>5, <2>2, <3>1, <3>2, <3>3
  <2> QED BY <2>0, <2>3, <2>4
<1> QED BY <1>1, <1>4, <1>5, <1>6, <1>7 DEF MtrInv

\* A page asks for the samples it has not seen.
LEMMA MtrPollInv == ASSUME MtrInv, MtrPoll PROVE MtrInv'
<1>1. MtrClockInv'
  <2> SUFFICES ASSUME "clock" \notin mtrExcuse
               PROVE  MtrRun(mtrSeen, mtrClock - 1)
                      /\ (mtrPage' # <<>> => \E p \in 1..(mtrClock - 1) : MtrRun(mtrPage', p))
    BY DEF MtrClockInv, MtrPoll, MtrRun
  <2>1. MtrRun(mtrSeen, mtrClock - 1) /\ mtrClock \in Nat \ {0}
    BY DEF MtrInv, MtrClockInv
  <2>2. MtrSnapshot = mtrSeen
    BY MtrShows DEF MtrInv
  <2> DEFINE since == IF mtrPage = <<>> THEN 0 ELSE Last(mtrPage)
             answer == MtrSince(since)
  <2>3. mtrPage' = IF answer.full THEN answer.series ELSE JrnLatest(mtrPage \o answer.series, MtrSize)
    BY DEF MtrPoll
  <2>4. answer.full => answer.series = MtrSnapshot
    BY DEF MtrSince
  <2>5. mtrPage' = mtrSeen
    <3>1. CASE answer.full
      BY <2>2, <2>3, <2>4, <3>1
    <3>2. CASE ~answer.full
      <4>1. mtrPage # <<>>
        BY <3>2 DEF MtrSince
      <4>2. answer = MtrSince(Last(mtrPage))
        BY <4>1
      <4>3. JrnLatest(mtrPage \o MtrSince(Last(mtrPage)).series, MtrSize) = mtrSeen
        <5> HIDE DEF answer
        <5> QED BY <3>2, <4>1, <4>2, MtrAnswered
      <4> HIDE DEF answer
      <4> QED BY <2>3, <3>2, <4>2, <4>3
    <3> QED BY <3>1, <3>2
  <2> DEFINE q == mtrClock - 1
  <2>6. q \in Nat /\ MtrRun(mtrPage', q)
    BY <2>1, <2>5
  <2>7. ASSUME mtrPage' # <<>> PROVE q \in 1..q
    <3> HIDE DEF q
    <3>1. q # 0
      <4> SUFFICES ASSUME q = 0 PROVE FALSE
        OBVIOUS
      <4>0. 0 <= MtrSize
        BY JrnConstants
      <4>1. mtrPage' \in Seq(Int) /\ Len(mtrPage') = 0
        BY <2>6, <4>0 DEF MtrRun
      <4> QED BY <2>7, <4>1, EmptySeq
    <3> QED BY <2>6, <3>1
  <2> QED BY <2>1, <2>6, <2>7
<1>2. MtrUnread(mtrWire', mtrLast') = MtrUnread(mtrWire, mtrLast) /\ MtrUnread(mtrWire, mtrLast) \in Nat /\ mtrCount' = mtrCount
      /\ mtrCount.wire \in Nat /\ mtrCount \in [troubles : Nat, wire : Nat]
  BY DEF MtrUnread, MtrUnread, MtrPoll, MtrInv
<1>3. MtrUnread(mtrWire', mtrLast') <= MtrUnread(mtrWire, mtrLast) + (mtrCount'.wire - mtrCount.wire)
  BY <1>2
<1> QED BY <1>1, <1>2, <1>3, MtrQuietInv DEF MtrPoll, MtrInv

\* Every step of the statistics keeps their invariant.
LEMMA MtrStepInv == ASSUME MtrInv, [MtrNext]_mtrVars PROVE MtrInv'
<1>0. mtrLast \in Nat /\ mtrWire \in Nat /\ mtrCount \in [troubles : Nat, wire : Nat] /\ mtrClock \in Nat \ {0}
      /\ mtrCount.wire \in Nat /\ mtrCount.troubles \in Nat
  BY DEF MtrInv
<1>1. CASE UNCHANGED mtrVars
  BY <1>1 DEF mtrVars, MtrInv, MtrClockInv, MtrRun, MtrR, MtrUnread
<1>2. CASE MtrSample(TRUE) \/ MtrSample(FALSE)
  BY <1>2, MtrSampleInv
<1>3. CASE MtrTraffic
  <2>1. MtrClockInv'
    BY <1>3 DEF MtrTraffic, MtrInv, MtrClockInv, MtrRun
  <2>2. mtrWire' = mtrWire + 1 /\ mtrLast' = mtrLast /\ mtrCount'.wire = mtrCount.wire + 1
        /\ mtrCount' \in [troubles : Nat, wire : Nat]
    BY <1>0, <1>3 DEF MtrTraffic
  <2>3. MtrUnread(mtrWire', mtrLast') <= MtrUnread(mtrWire, mtrLast) + (mtrCount'.wire - mtrCount.wire)
    BY <1>0, <2>2 DEF MtrUnread, MtrDelta
  <2> QED BY <1>0, <1>3, <2>1, <2>2, <2>3, MtrQuietInv DEF MtrTraffic
<1>4. CASE MtrReplug
  <2>1. MtrClockInv'
    BY <1>4 DEF MtrReplug, MtrInv, MtrClockInv, MtrRun
  <2>2. mtrWire' = 0 /\ mtrLast' = mtrLast /\ mtrCount'.wire = mtrCount.wire
        /\ mtrCount' \in [troubles : Nat, wire : Nat]
    BY <1>0, <1>4 DEF MtrReplug
  <2>3. MtrUnread(mtrWire', mtrLast') <= MtrUnread(mtrWire, mtrLast) + (mtrCount'.wire - mtrCount.wire)
    BY <1>0, <2>2 DEF MtrUnread, MtrDelta
  <2> QED BY <1>0, <1>4, <2>1, <2>2, <2>3, MtrQuietInv DEF MtrReplug
<1>5. CASE MtrClockBack
  <2>1. MtrClockInv'
    BY <1>5 DEF MtrClockBack, MtrClockInv
  <2>2. mtrWire' = mtrWire /\ mtrLast' = mtrLast /\ mtrCount'.wire = mtrCount.wire
        /\ mtrCount' \in [troubles : Nat, wire : Nat] /\ mtrClock' \in Nat \ {0}
    BY <1>0, <1>5 DEF MtrClockBack
  <2>3. MtrUnread(mtrWire', mtrLast') <= MtrUnread(mtrWire, mtrLast) + (mtrCount'.wire - mtrCount.wire)
    BY <1>0, <2>2 DEF MtrUnread, MtrDelta
  <2> QED BY <1>0, <1>5, <2>1, <2>2, <2>3, MtrQuietInv DEF MtrClockBack
<1>6. CASE MtrPoll
  BY <1>6, MtrPollInv
<1> QED BY <1>1, <1>2, <1>3, <1>4, <1>5, <1>6 DEF MtrNext

\* A page that has asked has the whole series, and the traffic counted is not more than there was.
LEMMA MtrShowsAll == MtrInv => MtrIsComplete /\ MtrSnapshot = mtrSeen
<1> SUFFICES ASSUME MtrInv PROVE MtrIsComplete /\ MtrSnapshot = mtrSeen
  OBVIOUS
<1>1. MtrSnapshot = mtrSeen
  BY MtrShows DEF MtrInv
<1>2. ASSUME "clock" \notin mtrExcuse, mtrPage # <<>>, ~MtrSince(Last(mtrPage)).full
      PROVE  JrnLatest(mtrPage \o MtrSince(Last(mtrPage)).series, MtrSize) = MtrSnapshot
  BY <1>1, <1>2, MtrAnswered
<1>3. "unread" \notin mtrExcuse => mtrTotal <= mtrCount.wire
  <2>1. mtrTotal \in Nat /\ mtrCount.wire \in Nat /\ mtrLast \in Nat /\ mtrWire \in Nat
    BY DEF MtrInv
  <2>2. MtrUnread(mtrWire, mtrLast) \in Nat
    BY <2>1 DEF MtrUnread, MtrDelta
  <2> QED BY <2>1, <2>2 DEF MtrInv
<1> QED BY <1>1, <1>2, <1>3 DEF MtrIsComplete

\* The inductive invariants of the three kinds of record.
RecordsInv == JrnInv /\ AccInv /\ MtrInv

\* And the three invariants say what the run checks.
LEMMA RecordsShow == RecordsInv => JrnTypeOK /\ RecordsAreTrue
<1> SUFFICES ASSUME RecordsInv PROVE JrnTypeOK /\ RecordsAreTrue
  OBVIOUS
<1>0. JrnInv /\ AccInv /\ MtrInv
  BY DEF RecordsInv
<1>1. jrnRing.next \in 0..(Len(jrnRing.buf) - 1) /\ Len(jrnRing.buf) \in JrnSizes
      /\ jrnLevels \subseteq {"info", "debug"} /\ jrnLimit \in JrnLimits
      /\ jrnFile.open \in BOOLEAN /\ jrnGap \in {"none", "lost", "stuck", "cleared"}
  <2>1. JrnRingOK(jrnRing) /\ Len(jrnRing.buf) \in JrnSizes
    BY <1>0 DEF JrnInv, JrnRingInv
  <2>2. jrnRing.next \in 0..(Len(jrnRing.buf) - 1)
    BY <2>1 DEF JrnRingOK
  <2> QED BY <1>0, <2>1, <2>2 DEF JrnInv, JrnFileInv, JrnFileSet, JrnGaps
<1>2. accCap \in AccCaps /\ accLen \in 0..accCap /\ Len(accRing) <= accCap
  <2>1. accCap \in AccCaps /\ Len(accRing) <= accCap /\ accLen \in Nat /\ accLen <= Len(accRing)
        /\ accRing \in Seq(Int)
    BY <1>0 DEF AccInv, AccShows, AccNow
  <2>2. Len(accRing) \in Nat /\ accCap \in Nat
    BY <2>1, LenProperties, JrnConstants
  <2> QED BY <2>1, <2>2
<1>3. mtrAt \in 0..(MtrSize - 1) /\ mtrFilled \in BOOLEAN /\ mtrTotal \in Nat
  <2>1. MtrR.buf = mtrRing /\ MtrR.next = mtrAt /\ MtrR.filled = mtrFilled
    BY DEF MtrR
  <2>2. JrnRingOK(MtrR) /\ Len(mtrRing) = MtrSize /\ mtrTotal \in Nat
    BY <1>0 DEF MtrInv
  <2>3. mtrAt \in Nat /\ mtrAt < MtrSize /\ mtrFilled \in BOOLEAN
    BY <2>1, <2>2 DEF JrnRingOK
  <2> QED BY <2>2, <2>3, JrnConstants
<1>4. JrnTypeOK
  BY <1>1, <1>2, <1>3 DEF JrnTypeOK
<1>5. AccLogs = Reverse(accKept) /\ MtrIsComplete /\ MtrSnapshot = mtrSeen
  BY <1>0, AccShowsAll, MtrShowsAll
<1>6. JrnSnapshot(jrnRing) = jrnKept /\ JrnFileIsTrue
  BY <1>0 DEF JrnInv, JrnRingInv, JrnFileInv, JrnTrue, JrnFileIsTrue
<1> QED BY <1>4, <1>5, <1>6 DEF RecordsAreTrue, JrnRingsShowTheLatest

-----------------------------------------------------------------------------
(* Wake on LAN: the calendar, the plans and the wakes by hand.             *)

\* What the assumptions say of the calendar and the limits.
LEMMA WolConstants ==
    /\ WolDayLength \in Nat \ {0} /\ WolDays \in Nat \ {0} /\ WolBurst \in Nat \ {0}
    /\ WolMaxGens \in Nat /\ WolMaxTroubles \in Nat /\ WolTtl \in Nat /\ WolIdleTtl \in Nat
    /\ WolHorizon \in Nat
BY WolAssumption

\* Every day has its first reading and its last.
LEMMA WolClocksAre ==
    ASSUME NEW d
    PROVE  /\ IsFiniteSet(WolClocks(d)) /\ Cardinality(WolClocks(d)) \in Nat
           /\ WolClocks(d) \subseteq 0..(WolDayLength - 1)
           /\ 0 \in WolClocks(d) /\ (WolDayLength - 1) \in WolClocks(d)
           /\ Cardinality(WolClocks(d)) >= 1 /\ Cardinality(WolClocks(d)) <= WolDayLength
<1> USE WolConstants
<1>1. WolClocks(d) \subseteq 0..(WolDayLength - 1)
  BY DEF WolClocks
<1>2. 0 \in WolClocks(d) /\ (WolDayLength - 1) \in WolClocks(d)
  <2>1. \A h : <<d, h>> \in WolMissing => h \in 1..(WolDayLength - 2)
    BY WolAssumption
  <2>2. <<d, 0>> \notin WolMissing /\ <<d, WolDayLength - 1>> \notin WolMissing
    BY <2>1
  <2> QED BY <2>2 DEF WolClocks
<1>3. IsFiniteSet(0..(WolDayLength - 1)) /\ Cardinality(0..(WolDayLength - 1)) = WolDayLength
  <2> DEFINE m == WolDayLength - 1
  <2>1. m \in Int /\ 0 \in Int /\ m >= 0
    OBVIOUS
  <2> HIDE DEF m
  <2>2. IsFiniteSet(0..m) /\ Cardinality(0..m) = IF 0 > m THEN 0 ELSE m - 0 + 1
    BY <2>1, FS_Interval
  <2>3. Cardinality(0..m) = m + 1
    BY <2>1, <2>2
  <2> QED BY <2>2, <2>3 DEF m
<1>4. IsFiniteSet(WolClocks(d)) /\ Cardinality(WolClocks(d)) <= WolDayLength
  BY <1>1, <1>3, FS_Subset
<1>5. Cardinality(WolClocks(d)) \in Nat /\ Cardinality(WolClocks(d)) # 0
  BY <1>2, <1>4, FS_CardinalityType, FS_EmptySet
<1> QED BY <1>1, <1>2, <1>4, <1>5

\* Every day begins where the one before it ended.
LEMMA WolStartIs ==
    /\ WolStart[0] = 0
    /\ \A d \in 0..(WolDays + 1) : WolStart[d] \in Nat
    /\ \A d \in 0..WolDays : /\ WolStart[d + 1] = WolStart[d] + Cardinality(WolClocks(d))
                             /\ WolStart[d] < WolStart[d + 1]
                             /\ WolStart[d + 1] <= WolStart[d] + WolDayLength
<1> USE WolConstants
<1>1. \A d \in 0..WolDays : WolReadings[d] \in Nat /\ WolReadings[d] = Cardinality(WolClocks(d))
  BY WolClocksAre DEF WolReadings
<1>2. \A d \in 0..(WolDays + 1) : WolStart[d] = SumFunctionOnSet(WolReadings, 0..(d - 1))
  BY DEF WolStart
<1>3. ASSUME NEW d \in 0..(WolDays + 1) PROVE IsFiniteSet(0..(d - 1)) /\ WolStart[d] \in Nat
  <2> DEFINE m == d - 1
  <2>1. m \in Int /\ \A x \in 0..m : WolReadings[x] \in Nat
    BY <1>1
  <2>2. WolStart[d] = SumFunctionOnSet(WolReadings, 0..m)
    BY <1>2
  <2> HIDE DEF m
  <2>3. IsFiniteSet(0..m)
    BY <2>1, FS_Interval
  <2> QED BY <2>1, <2>2, <2>3, SumNatural DEF m
<1>4. ASSUME NEW d \in 0..WolDays
      PROVE  WolStart[d + 1] = WolStart[d] + Cardinality(WolClocks(d))
  <2> DEFINE e == d + 1
             S == 0..d
  <2>1. e \in 0..(WolDays + 1) /\ d \in 0..(WolDays + 1) /\ e - 1 = d
    OBVIOUS
  <2>2. WolStart[e] = SumFunctionOnSet(WolReadings, S)
    <3>1. WolStart[e] = SumFunctionOnSet(WolReadings, 0..(e - 1))
      <4> HIDE DEF e
      <4> QED BY <1>2, <2>1
    <3>2. 0..(e - 1) = S
      BY <2>1
    <3> HIDE DEF e, S
    <3> QED BY <3>1, <3>2
  <2>3. IsFiniteSet(S) /\ d \in S /\ \A x \in S : WolReadings[x] \in Nat
    BY <1>1, FS_Interval
  <2>4. S \ {d} = 0..(d - 1)
    OBVIOUS
  <2> HIDE DEF S, e
  <2>5. SumFunctionOnSet(WolReadings, S) = WolReadings[d] + SumFunctionOnSet(WolReadings, S \ {d})
    BY <2>3, SumStep
  <2>6. SumFunctionOnSet(WolReadings, S \ {d}) = WolStart[d]
    <3>1. WolStart[d] = SumFunctionOnSet(WolReadings, 0..(d - 1))
      BY <1>2, <2>1
    <3> QED BY <2>4, <3>1
  <2>7. WolStart[d] \in Nat /\ WolReadings[d] \in Nat
    BY <1>1, <1>3, <2>1
  <2>8. WolStart[e] = WolStart[d] + WolReadings[d]
    BY <2>2, <2>5, <2>6, <2>7
  <2> QED BY <1>1, <2>8 DEF e
<1>5. WolStart[0] = 0
  <2>1. 0..(0 - 1) = {} /\ 0 \in 0..(WolDays + 1)
    OBVIOUS
  <2>2. WolStart[0] = SumFunctionOnSet(WolReadings, 0..(0 - 1))
    BY <1>2, <2>1
  <2> QED BY <2>1, <2>2, SumEmpty
<1>6. ASSUME NEW d \in 0..WolDays
      PROVE  WolStart[d] < WolStart[d + 1] /\ WolStart[d + 1] <= WolStart[d] + WolDayLength
  <2>1. d \in 0..(WolDays + 1)
    OBVIOUS
  <2>2. WolStart[d] \in Nat /\ Cardinality(WolClocks(d)) \in Nat /\ Cardinality(WolClocks(d)) >= 1
        /\ Cardinality(WolClocks(d)) <= WolDayLength
    BY <1>3, <2>1, WolClocksAre
  <2> QED BY <1>4, <2>2
<1> QED BY <1>3, <1>4, <1>5, <1>6

\* Later days begin later.
LEMMA WolStartGrows ==
    ASSUME NEW d \in 0..(WolDays + 1), NEW e \in 0..(WolDays + 1)
    PROVE  /\ WolStart[d] \in Nat /\ WolStart[e] \in Nat
           /\ d < e => WolStart[d] < WolStart[e]
           /\ d <= e => WolStart[d] <= WolStart[e]
<1> USE WolConstants
<1>1. WolStart[d] \in Nat /\ WolStart[e] \in Nat
  BY WolStartIs
<1>2. ASSUME d < e PROVE WolStart[d] < WolStart[e]
  <2> DEFINE Bad == {x \in 0..(WolDays + 1) : d < x /\ ~(WolStart[d] < WolStart[x])}
  <2>1. Bad = {}
    <3> SUFFICES ASSUME Bad # {} PROVE FALSE
      OBVIOUS
    <3>1. IsFiniteSet(Bad) /\ Bad \subseteq Int
      <4> DEFINE n == WolDays + 1
      <4>1. IsFiniteSet(0..n)
        <5>1. n \in Int
          OBVIOUS
        <5> HIDE DEF n
        <5> QED BY <5>1, FS_Interval
      <4>2. Bad \subseteq 0..n
        OBVIOUS
      <4> QED BY <4>1, <4>2, FS_Subset
    <3> DEFINE m == Min(Bad)
    <3>2. m \in Bad /\ \A y \in Bad : m <= y
      <4> HIDE DEF Bad
      <4> QED BY <3>1, LeastOf
    <3> HIDE DEF m
    <3> DEFINE k == m - 1
    <3>3. k \in 0..WolDays /\ k + 1 = m /\ d <= k /\ k \in 0..(WolDays + 1)
      BY <3>2
    <3>4. k \notin Bad
      <4> HIDE DEF Bad
      <4> QED BY <3>2, <3>3
    <3>5. d = k \/ WolStart[d] < WolStart[k]
      BY <3>3, <3>4
    <3> HIDE DEF k
    <3>6. WolStart[k] < WolStart[m] /\ WolStart[k] \in Nat /\ WolStart[m] \in Nat
      <4>1. WolStart[k] < WolStart[k + 1]
        BY <3>3, WolStartIs
      <4>2. m \in 0..(WolDays + 1)
        BY <3>2
      <4> QED BY <3>3, <4>1, <4>2, WolStartIs
    <3> QED BY <1>1, <3>2, <3>5, <3>6
  <2> QED BY <1>2, <2>1
<1> QED BY <1>1, <1>2

\* A reading is of the day whose span it is in.
LEMMA WolDayOfIs ==
    ASSUME NEW d \in 0..WolDays, NEW t \in Int, WolStart[d] <= t, t < WolStart[d + 1]
    PROVE  WolDayOf(t) = d
<1> USE WolConstants
<1>1. ASSUME NEW e \in 0..WolDays, WolStart[e] <= t /\ t < WolStart[e + 1], e # d
      PROVE  FALSE
  <2>0. d \in 0..(WolDays + 1) /\ e \in 0..(WolDays + 1) /\ d + 1 \in 0..(WolDays + 1) /\ e + 1 \in 0..(WolDays + 1)
    OBVIOUS
  <2>1. CASE e < d
    <3> DEFINE x == e + 1
    <3>1. x \in 0..(WolDays + 1) /\ x <= d
      BY <2>1
    <3>2. WolStart[x] <= WolStart[d] /\ WolStart[x] \in Nat /\ WolStart[d] \in Nat
      <4> HIDE DEF x
      <4> QED BY <2>0, <3>1, WolStartGrows
    <3> QED BY <1>1, <3>2
  <2>2. CASE d < e
    <3> DEFINE x == d + 1
    <3>1. x \in 0..(WolDays + 1) /\ x <= e
      BY <2>2
    <3>2. WolStart[x] <= WolStart[e] /\ WolStart[x] \in Nat /\ WolStart[e] \in Nat
      <4> HIDE DEF x
      <4> QED BY <2>0, <3>1, WolStartGrows
    <3> QED BY <1>1, <3>2
  <2> QED BY <1>1, <2>1, <2>2
<1> QED BY <1>1 DEF WolDayOf

\* Every reading is of a day.
LEMMA WolDayExists ==
    ASSUME NEW t \in Nat, t < WolStart[WolDays]
    PROVE  /\ WolDayOf(t) \in 0..(WolDays - 1)
           /\ WolStart[WolDayOf(t)] <= t /\ t < WolStart[WolDayOf(t) + 1]
           /\ WolStart[WolDayOf(t)] \in Nat /\ WolStart[WolDayOf(t) + 1] \in Nat
<1> USE WolConstants
<1> DEFINE S == {d \in 0..WolDays : WolStart[d] <= t}
           m == Max(S)
<1>1. IsFiniteSet(S) /\ S # {} /\ S \subseteq Int
  <2>1. IsFiniteSet(0..WolDays) /\ S \subseteq 0..WolDays
    BY FS_Interval
  <2>2. 0 \in S
    BY WolStartIs
  <2>3. S \subseteq Int
    OBVIOUS
  <2> HIDE DEF S
  <2> QED BY <2>1, <2>2, <2>3, FS_Subset
<1>2. m \in S /\ \A y \in S : y <= m
  <2> HIDE DEF S
  <2> QED BY <1>1, MostOf
<1> HIDE DEF m
<1>3. m # WolDays /\ m \in 0..WolDays /\ WolStart[m] <= t
  BY <1>2, WolStartIs
<1> DEFINE k == m + 1
<1>4. k \in 0..WolDays /\ ~(k <= m) /\ k \notin S
  <2>1. k \in 0..WolDays /\ ~(k <= m)
    BY <1>3
  <2> HIDE DEF S, k
  <2> QED BY <1>2, <2>1
<1>5. t < WolStart[k] /\ WolStart[k] \in Nat /\ WolStart[m] \in Nat
  <2>1. ~(WolStart[k] <= t)
    BY <1>4
  <2>2. k \in 0..(WolDays + 1) /\ m \in 0..(WolDays + 1)
    BY <1>3
  <2>3. WolStart[k] \in Nat /\ WolStart[m] \in Nat
    <3> HIDE DEF k
    <3> QED BY <2>2, WolStartIs
  <2> QED BY <2>1, <2>3
<1>6. WolDayOf(t) = m
  BY <1>3, <1>5, WolDayOfIs
<1> QED BY <1>3, <1>5, <1>6

\* The schedules a generation may run, and what the plan of a day looks like.
WolAll == WolSchedules \union {WolOff}
WolPlanOn(p, d) ==
    /\ p \in [from : Nat, to : Nat, every : Nat \ {0}]
    /\ d \in 0..(WolDays - 1) /\ WolStart[d] <= p.from /\ p.from <= p.to /\ p.to < WolStart[d + 1]

WolOnGrid(t, p) == \E k \in Nat : t = p.from + k * p.every

\* The clock, and the spans it jumped over.
WolSpans(now, troubles) ==
    /\ now \in Nat /\ now < WolStart[WolDays] /\ IsFiniteSet(troubles)
    /\ \A s \in troubles : s \in [from : Nat, to : Nat] /\ s.from < s.to /\ s.to <= now

\* An instant that came while the machine, or the loop, was held up.
WolCovered(troubles, t) == \E s \in troubles : s.from <= t /\ t <= s.to + WolDayLength
WolExcusedBy(troubles, t) ==
    \E s \in troubles : s.from <= t /\ WolStart[WolDayOf(t)] <= s.to + WolDayLength

\* The ticks before an instant were fired, or are excused.
WolFired(sent, t) == \E s \in sent : s.tick = t
WolDone(live, since, sent, troubles, limit) ==
    \A d \in 0..(WolDays - 1) : \A t \in WolTicks(WolPlan(live, d)) :
        since <= t /\ t < limit => WolFired(sent, t) \/ WolExcusedBy(troubles, t)

\* A timer for an instant: it ends no earlier, and later only because the
\* machine was suspended; no instant passes between that is not covered.
WolHeld(now, left, troubles, due) ==
    /\ due <= now + left /\ now + left - due <= WolSuspended(troubles)
    /\ due < now + left => \E s \in troubles : s.from <= now /\ now + left <= s.to + WolDayLength
    /\ \A t \in due..(now - 1) : WolCovered(troubles, t)

\* The moment is of the day of the plan, or a suspension explains why not.
WolNear(now, troubles, d) ==
    WolStart[d + 1] <= now =>
        \E s \in troubles : s.from <= now /\ WolStart[WolDayOf(now)] <= s.to + WolDayLength

\* How late the next tick is.
WolPunctual(now, since, troubles, at, every) ==
    \/ now - at <= WolSuspended(troubles)
    \/ at < since /\ since <= at + every /\ now - since <= WolSuspended(troubles)
WolPassed(now, sent, plan, at) ==
    \A t \in WolTicks(plan) : t < at => t < now \/ WolFired(sent, t)

WolClockInv ==
    /\ WolSpans(wolNow, wolTroubles)
    /\ wolSince \in Nat /\ wolSince <= wolNow /\ wolGen \in 0..WolMaxGens

WolLifeInv ==
    /\ wolConf \in WolAll /\ wolLive \in WolAll
    /\ wolCancelled \in BOOLEAN /\ wolClosed \in BOOLEAN /\ wolLife \in {"free", "reload", "close"}
    /\ wolCancelled => wolLive = WolOff
    /\ ~wolCancelled => /\ wolLive = wolConf /\ wolLife = "free" /\ ~wolClosed
                        /\ wolLoop.pc = "none" <=> ~wolConf.on
    /\ wolLife = "free" /\ wolCancelled => wolLoop.pc = "none"
    /\ wolLife = "free" /\ ~wolClosed /\ wolGen > 0 => ~wolCancelled
    /\ wolLife = "reload" => wolGen < WolMaxGens
    /\ wolLife = "close" => wolClosed

WolSentInv ==
    /\ IsFiniteSet(wolSent)
    /\ \A s \in wolSent : /\ s \in [tick : Nat, when : Nat] /\ s.tick <= s.when /\ s.when <= wolNow
                          /\ s.tick < WolStart[WolDays]
    /\ \A s, o \in wolSent : o.tick = s.tick => o = s

\* What the loop has ahead of it, whether it is cancelled or not.
WolLoopInv ==
    LET D == WolDayOf(wolLoop.plan.from) IN
    /\ wolLoop \in [pc : {"none", "day", "plan", "wait", "fire", "sleep"}, left : 0..WolDayLength,
                    at : Nat, plan : [from : Nat, to : Nat, every : Nat \ {0}]]
    /\ WolPlanOn(wolLoop.plan, D)
    /\ wolLoop.pc = "day" => \A s \in wolSent : s.tick < WolStart[WolDayOf(wolNow)]
    /\ wolLoop.pc \in {"plan", "wait", "fire", "sleep"} =>
          /\ WolStart[D] <= wolNow /\ wolLoop.plan.from <= wolLoop.at
          /\ WolOnGrid(wolLoop.at, wolLoop.plan)
          /\ \A s \in wolSent : s.tick < wolLoop.at /\ s.tick < WolStart[D + 1]
    /\ wolLoop.pc = "fire" => wolLoop.at <= wolNow /\ wolLoop.at <= wolLoop.plan.to
    /\ wolLoop.pc = "wait" => wolLoop.at <= wolLoop.plan.to
                              /\ WolHeld(wolNow, wolLoop.left, wolTroubles, wolLoop.at)
    /\ wolLoop.pc = "sleep" =>
          \E e \in (D + 1)..WolDays :
             /\ WolHeld(wolNow, wolLoop.left, wolTroubles, WolStart[e])
             /\ ~wolCancelled => WolDone(wolLive, wolSince, wolSent, wolTroubles, WolStart[e])

\* Ticks fired later than an interval, and the one that is to be.
WolLateOnes(sent, every) == {s \in sent : s.when > s.tick + every}
WolHeldUp ==
    \/ wolLoop.pc = "wait" /\ wolNow + wolLoop.left > wolLoop.at + wolLoop.plan.every
    \/ wolLoop.pc = "fire" /\ wolNow > wolLoop.at + wolLoop.plan.every

\* What a schedule that runs has served.
WolServedInv == ~wolCancelled =>
    LET D == WolDayOf(wolLoop.plan.from) IN
    /\ wolLoop.pc \in {"plan", "wait", "fire", "sleep"} => wolLoop.plan = WolPlan(wolLive, D)
    /\ wolLoop.pc \in {"day", "plan", "fire"} =>
          WolDone(wolLive, wolSince, wolSent, wolTroubles, wolNow)
    /\ wolLoop.pc = "wait" => WolDone(wolLive, wolSince, wolSent, wolTroubles, wolLoop.at)
    /\ wolLoop.pc = "day" =>
          \/ wolNow - wolSince <= WolSuspended(wolTroubles)
          \/ wolNow - WolStart[WolDayOf(wolNow)] <= WolSuspended(wolTroubles)
    /\ wolLoop.pc \in {"plan", "fire"} =>
          /\ WolNear(wolNow, wolTroubles, D)
          /\ WolPunctual(wolNow, wolSince, wolTroubles, wolLoop.at, wolLoop.plan.every)
          /\ WolPassed(wolNow, wolSent, wolLoop.plan, wolLoop.at)
    /\ \A s \in wolSent : WolPunctual(s.when, wolSince, wolTroubles, s.tick, wolLive.every)
    /\ Cardinality(WolLateOnes(wolSent, wolLive.every)) + (IF WolHeldUp THEN 1 ELSE 0)
          <= Cardinality(wolTroubles)

\* The inductive invariant of the plans.
WolInv == WolClockInv /\ WolLifeInv /\ WolSentInv /\ WolLoopInv /\ WolServedInv

-----------------------------------------------------------------------------

\* A clock time of a day is a reading of that day, also when the day skips it.
LEMMA WolAtIs ==
    ASSUME NEW d \in 0..WolDays, NEW h \in 0..(WolDayLength - 1)
    PROVE  WolAt(d, h) \in Nat /\ WolStart[d] <= WolAt(d, h) /\ WolAt(d, h) < WolStart[d + 1]
<1> USE WolConstants
<1> DEFINE C == WolClocks(d)
           P == {x \in C : x < h}
           z == WolDayLength - 1
<1>1. IsFiniteSet(C) /\ Cardinality(C) \in Nat /\ C \subseteq 0..z /\ z \in C
  BY WolClocksAre
<1>2. P \subseteq C \ {z}
  BY <1>1
<1>3. IsFiniteSet(C \ {z}) /\ Cardinality(C \ {z}) = Cardinality(C) - 1
  <2> HIDE DEF C, z
  <2> QED BY <1>1, SizeOf
<1>4. IsFiniteSet(P) /\ Cardinality(P) <= Cardinality(C \ {z}) /\ Cardinality(P) \in Nat
  <2> HIDE DEF C, z, P
  <2> QED BY <1>2, <1>3, FS_Subset, FS_CardinalityType
<1>5. WolStart[d] \in Nat /\ WolStart[d + 1] = WolStart[d] + Cardinality(C)
  <2>1. d \in 0..(WolDays + 1)
    OBVIOUS
  <2> QED BY <2>1, WolStartIs
<1>6. WolAt(d, h) = WolStart[d] + Cardinality(P)
  BY DEF WolAt
<1> HIDE DEF C, P, z
<1> QED BY <1>1, <1>3, <1>4, <1>5, <1>6

\* What a schedule is.
LEMMA WolAllAre ==
    ASSUME NEW s \in WolAll
    PROVE  s \in [on : BOOLEAN, from : 0..(WolDayLength - 1), to : 0..(WolDayLength - 1),
                  every : Nat \ {0}]
<1>1. CASE s \in WolSchedules
  BY <1>1, WolAssumption
<1>2. CASE s = WolOff
  <2>1. 0 \in 0..(WolDayLength - 1)
    BY WolConstants
  <2> QED BY <1>2, <2>1 DEF WolOff
<1> QED BY <1>1, <1>2 DEF WolAll

\* The plan of a day is a window of that day.
LEMMA WolPlanIs ==
    ASSUME NEW s \in WolAll, NEW d \in 0..(WolDays - 1)
    PROVE  /\ WolPlanOn(WolPlan(s, d), d) /\ WolPlan(s, d).every = s.every
           /\ WolDayOf(WolPlan(s, d).from) = d
<1> USE WolConstants
<1> DEFINE a == WolAt(d, s.from)
           b == WolAt(d, s.to)
<1>1. s.from \in 0..(WolDayLength - 1) /\ s.to \in 0..(WolDayLength - 1) /\ s.every \in Nat \ {0}
  BY WolAllAre
<1>2. d \in 0..WolDays
  OBVIOUS
<1>3. a \in Nat /\ WolStart[d] <= a /\ a < WolStart[d + 1]
      /\ b \in Nat /\ WolStart[d] <= b /\ b < WolStart[d + 1]
  BY <1>1, <1>2, WolAtIs
<1>4. WolPlan(s, d) = [from |-> a, to |-> IF b > a THEN b ELSE a, every |-> s.every]
  BY DEF WolPlan
<1>5. WolDayOf(a) = d
  <2> HIDE DEF a, b
  <2> QED BY <1>2, <1>3, WolDayOfIs
<1> HIDE DEF a, b
<1>6. WolPlan(s, d) \in [from : Nat, to : Nat, every : Nat \ {0}]
  BY <1>1, <1>3, <1>4
<1>7. WolPlan(s, d).from = a /\ WolPlan(s, d).to = (IF b > a THEN b ELSE a)
      /\ WolPlan(s, d).every = s.every
  BY <1>4
<1> QED BY <1>3, <1>5, <1>6, <1>7 DEF WolPlanOn

\* A plan lies in the day of its start.
LEMMA WolPlanDay ==
    ASSUME NEW p, NEW d, WolPlanOn(p, d)
    PROVE  /\ d \in 0..(WolDays - 1) /\ d \in 0..WolDays /\ WolDayOf(p.from) = d
           /\ WolStart[d] \in Nat /\ WolStart[d + 1] \in Nat
           /\ WolStart[d] < WolStart[d + 1] /\ WolStart[d + 1] <= WolStart[d] + WolDayLength
           /\ WolStart[d + 1] <= WolStart[WolDays]
<1> USE WolConstants
<1>1. d \in 0..(WolDays - 1) /\ p.from \in Nat /\ p.to \in Nat
      /\ WolStart[d] <= p.from /\ p.from <= p.to /\ p.to < WolStart[d + 1]
  BY DEF WolPlanOn
<1>2. d \in 0..WolDays /\ d \in 0..(WolDays + 1)
  BY <1>1
<1> DEFINE e == d + 1
<1>3. e \in 0..(WolDays + 1) /\ e <= WolDays /\ WolDays \in 0..(WolDays + 1)
  BY <1>1
<1>4. WolStart[e] \in Nat /\ WolStart[e] <= WolStart[WolDays]
  <2> HIDE DEF e
  <2> QED BY <1>3, WolStartGrows
<1>5. WolStart[d] \in Nat /\ WolStart[d] < WolStart[d + 1] /\ WolStart[d + 1] <= WolStart[d] + WolDayLength
  BY <1>2, WolStartIs
<1>6. p.from < WolStart[d + 1]
  BY <1>1, <1>4
<1>7. WolDayOf(p.from) = d
  BY <1>1, <1>2, <1>6, WolDayOfIs
<1> QED BY <1>1, <1>2, <1>4, <1>5, <1>7

-----------------------------------------------------------------------------
(* The grid of a plan.                                                      *)
LEMMA WolGrid ==
    ASSUME NEW a \in Nat, NEW b \in Nat, NEW l \in Nat \ {0}, a * l < b * l
    PROVE  a * l + l <= b * l
<1>1. a < b
  <2> SUFFICES ASSUME b <= a PROVE FALSE
    OBVIOUS
  <2> DEFINE c == a - b
  <2>1. c \in Nat /\ a = b + c
    OBVIOUS
  <2> HIDE DEF c
  <2>2. (b + c) * l = b * l + c * l /\ c * l \in Nat /\ b * l \in Nat
    BY <2>1
  <2> QED BY <2>1, <2>2
<1> DEFINE c == b - a - 1
<1>2. c \in Nat /\ b = a + 1 + c
  BY <1>1
<1> HIDE DEF c
<1>3. (a + 1 + c) * l = a * l + l + c * l /\ c * l \in Nat
  BY <1>2
<1> QED BY <1>2, <1>3

\* Two instants of a grid are at least one step apart.
LEMMA WolGridSteps ==
    ASSUME NEW p \in [from : Nat, to : Nat, every : Nat \ {0}], NEW t \in Int, NEW f \in Int,
           WolOnGrid(t, p), WolOnGrid(f, p), t < f
    PROVE  t + p.every <= f
<1>1. PICK k \in Nat : t = p.from + k * p.every
  BY DEF WolOnGrid
<1>2. PICK m \in Nat : f = p.from + m * p.every
  BY DEF WolOnGrid
<1> DEFINE e == p.every
           b == p.from
<1>3. e \in Nat \ {0} /\ b \in Nat /\ t = b + k * e /\ f = b + m * e
  BY <1>1, <1>2
<1> HIDE DEF e, b
<1>4. k * e \in Nat /\ m * e \in Nat
  BY <1>3
<1>5. k * e < m * e
  BY <1>3, <1>4
<1>6. k * e + e <= m * e
  BY <1>3, <1>5, WolGrid
<1>7. t + e <= f
  BY <1>3, <1>4, <1>6
<1> QED BY <1>7 DEF e

\* The instants of a plan lie in its window and on its grid.
LEMMA WolTicksOnGrid ==
    ASSUME NEW p \in [from : Nat, to : Nat, every : Nat \ {0}], NEW t \in WolTicks(p)
    PROVE  t \in Nat /\ p.from <= t /\ t <= p.to /\ WolOnGrid(t, p)
<1>1. t \in p.from..p.to /\ (t - p.from) % p.every = 0
  BY DEF WolTicks
<1> DEFINE n == t - p.from
           e == p.every
<1>2. n \in Nat /\ e \in Nat \ {0} /\ n % e = 0 /\ t = p.from + n
  BY <1>1
<1> HIDE DEF n, e
<1>3. n \div e \in Nat /\ n = (n \div e) * e
  <2>1. n \div e \in Nat /\ n = (n \div e) * e + (n % e)
    BY <1>2, Divided
  <2> DEFINE q == n \div e
             x == q * e
  <2>2. x \in Nat
    BY <1>2, <2>1
  <2>3. n = x + 0
    BY <1>2, <2>1
  <2> HIDE DEF x
  <2>4. n = x
    BY <2>2, <2>3
  <2> QED BY <2>1, <2>4 DEF x
<1>4. t = p.from + (n \div e) * p.every
  <2>1. t = p.from + (n \div e) * e
    BY <1>2, <1>3
  <2> QED BY <2>1 DEF e
<1> QED BY <1>1, <1>3, <1>4 DEF WolOnGrid

\* firstTickAfter: the first point of the grid that is not before the instant.
LEMMA WolFirstTickIs ==
    ASSUME NEW p \in [from : Nat, to : Nat, every : Nat \ {0}], NEW t \in Int
    PROVE  /\ WolFirstTick(p, t) \in Nat /\ p.from <= WolFirstTick(p, t)
           /\ t <= WolFirstTick(p, t) /\ WolOnGrid(WolFirstTick(p, t), p)
           /\ WolFirstTick(p, t) = p.from \/ WolFirstTick(p, t) < t + p.every
<1>1. CASE p.from >= t
  <2>1. WolFirstTick(p, t) = p.from
    BY <1>1 DEF WolFirstTick
  <2>2. p.from = p.from + 0 * p.every
    OBVIOUS
  <2> QED BY <1>1, <2>1, <2>2 DEF WolOnGrid
<1>2. CASE ~(p.from >= t)
  <2> DEFINE e == p.every
             n == t - p.from
             m == n + e - 1
             q == m \div e
             x == q * e
             r == m % e
  <2>1. e \in Nat \ {0} /\ n \in Nat /\ n >= 1 /\ m \in Nat /\ t = p.from + n /\ m = n + e - 1
    BY <1>2
  <2>2. WolFirstTick(p, t) = p.from + p.every * q
    BY <1>2 DEF WolFirstTick, WolCeil
  <2> HIDE DEF m, n, e
  <2>3. q \in Nat /\ r \in 0..(e - 1) /\ m = x + r
    BY <2>1, Divided
  <2>4. x \in Nat /\ e * q = x
    BY <2>1, <2>3
  <2>5. WolFirstTick(p, t) = p.from + x
    BY <2>2, <2>4 DEF e
  <2>6. WolOnGrid(WolFirstTick(p, t), p)
    <3>1. WolFirstTick(p, t) = p.from + q * p.every
      BY <2>5 DEF e
    <3> QED BY <2>3, <3>1 DEF WolOnGrid
  <2> HIDE DEF x, r
  <2>7. n <= x /\ x < n + e
    BY <2>1, <2>3, <2>4
  <2>8. p.from \in Nat
    OBVIOUS
  <2>9. WolFirstTick(p, t) < t + e /\ t <= WolFirstTick(p, t) /\ p.from <= WolFirstTick(p, t)
        /\ WolFirstTick(p, t) \in Nat
    BY <2>1, <2>4, <2>5, <2>7, <2>8
  <2> QED BY <2>6, <2>9 DEF e
<1> QED BY <1>1, <1>2

-----------------------------------------------------------------------------
(* Suspensions.                                                             *)
LEMMA WolSuspendedIs ==
    ASSUME NEW now, NEW troubles, WolSpans(now, troubles)
    PROVE  WolSuspended(troubles) \in Nat /\ Cardinality(troubles) \in Nat
<1> DEFINE f == [s \in troubles |-> s.to - s.from]
<1>1. \A s \in troubles : f[s] \in Nat
  BY DEF WolSpans
<1>2. WolSuspended(troubles) = SumFunctionOnSet(f, troubles)
  BY DEF WolSuspended, SumFunction, SumFunctionOnSet, FoldFunction
<1>3. IsFiniteSet(troubles)
  BY DEF WolSpans
<1> HIDE DEF f
<1> QED BY <1>1, <1>2, <1>3, SumNatural, FS_CardinalityType

\* One suspension more adds its length.
LEMMA WolSuspendedGrows ==
    ASSUME NEW now, NEW troubles, WolSpans(now, troubles), NEW k \in Nat \ {0}
    PROVE  LET more == troubles \union {[from |-> now, to |-> now + k]} IN
           /\ WolSuspended(more) = WolSuspended(troubles) + k
           /\ Cardinality(more) = Cardinality(troubles) + 1 /\ IsFiniteSet(more)
<1> DEFINE x == [from |-> now, to |-> now + k]
           more == troubles \union {x}
           f == [s \in troubles |-> s.to - s.from]
           g == [s \in more |-> s.to - s.from]
<1>1. now \in Nat /\ IsFiniteSet(troubles)
      /\ \A s \in troubles : s \in [from : Nat, to : Nat] /\ s.from < s.to /\ s.to <= now
  BY DEF WolSpans
<1>2. x \notin troubles
  <2>1. x.to = now + k
    OBVIOUS
  <2> QED BY <1>1, <2>1
<1>3. g[x] = k /\ \A s \in troubles : f[s] = g[s] /\ g[s] \in Nat
  BY <1>1
<1>4. WolSuspended(troubles) = SumFunctionOnSet(f, troubles)
      /\ WolSuspended(more) = SumFunctionOnSet(g, more)
  BY DEF WolSuspended, SumFunction, SumFunctionOnSet, FoldFunction
<1>5. IsFiniteSet(more) /\ Cardinality(more) = Cardinality(troubles) + 1
  <2> HIDE DEF x
  <2> QED BY <1>1, <1>2, SizeOf
<1>6. \A s \in more : g[s] \in Nat
  BY <1>3
<1>7. more \ {x} = troubles /\ x \in more
  BY <1>2
<1> HIDE DEF f, g, x, more
<1>8. SumFunctionOnSet(g, more) = k + SumFunctionOnSet(g, troubles)
  <2>1. SumFunctionOnSet(g, more) = g[x] + SumFunctionOnSet(g, more \ {x})
    BY <1>5, <1>6, <1>7, SumStep
  <2> QED BY <1>3, <1>7, <2>1
<1>9. SumFunctionOnSet(f, troubles) = SumFunctionOnSet(g, troubles)
      /\ SumFunctionOnSet(f, troubles) \in Nat
  BY <1>1, <1>3, SumSame, SumNatural
<1>10. WolSuspended(more) = WolSuspended(troubles) + k
  BY <1>4, <1>8, <1>9
<1> QED BY <1>5, <1>10 DEF more, x

\* A sleep is due when it is over.
LEMMA WolHeldStarts ==
    ASSUME NEW now, NEW troubles, WolSpans(now, troubles), NEW left \in Nat
    PROVE  WolHeld(now, left, troubles, now + left)
<1>1. now \in Nat
  BY DEF WolSpans
<1>2. WolSuspended(troubles) \in Nat
  BY WolSuspendedIs
<1> QED BY <1>1, <1>2 DEF WolHeld

\* It stays due then while time passes.
LEMMA WolHeldPasses ==
    ASSUME NEW now \in Nat, NEW troubles, NEW left \in Nat \ {0}, NEW due \in Nat,
           \A s \in troubles : s.from \in Nat /\ s.to \in Nat,
           WolHeld(now, left, troubles, due)
    PROVE  WolHeld(now + 1, left - 1, troubles, due)
<1> DEFINE n == now + 1
           l == left - 1
<1>1. n \in Nat /\ l \in Nat /\ n + l = now + left /\ n - 1 = now /\ now <= n
  OBVIOUS
<1>2. due <= now + left /\ now + left - due <= WolSuspended(troubles)
  BY DEF WolHeld
<1>3. due < now + left => \E s \in troubles : s.from <= now /\ now + left <= s.to + WolDayLength
  BY DEF WolHeld
<1>4. \A t \in due..(now - 1) : WolCovered(troubles, t)
  BY DEF WolHeld
<1>5. due <= now => WolCovered(troubles, now)
  <2> SUFFICES ASSUME due <= now PROVE WolCovered(troubles, now)
    OBVIOUS
  <2>1. PICK s \in troubles : s.from <= now /\ now + left <= s.to + WolDayLength
    BY <1>3
  <2>2. now <= s.to + WolDayLength
    BY <2>1, WolConstants
  <2> QED BY <2>1, <2>2 DEF WolCovered
<1>6. \A t \in due..now : WolCovered(troubles, t)
  <2> TAKE t \in due..now
  <2>1. t = now \/ t \in due..(now - 1)
    OBVIOUS
  <2> QED BY <1>4, <1>5, <2>1
<1>7. due < n + l => \E s \in troubles : s.from <= n /\ n + l <= s.to + WolDayLength
  <2> SUFFICES ASSUME due < now + left
               PROVE  \E s \in troubles : s.from <= n /\ now + left <= s.to + WolDayLength
    BY <1>1
  <2>1. PICK s \in troubles : s.from <= now /\ now + left <= s.to + WolDayLength
    BY <1>3
  <2>2. s.from <= n
    BY <2>1
  <2> QED BY <2>1, <2>2
<1>8. due <= n + l /\ n + l - due <= WolSuspended(troubles)
  BY <1>1, <1>2
<1>9. \A t \in due..(n - 1) : WolCovered(troubles, t)
  BY <1>1, <1>6
<1>10. WolHeld(n, l, troubles, due)
  <2> HIDE DEF n, l
  <2> QED BY <1>7, <1>8, <1>9 DEF WolHeld
<1> QED BY <1>10

\* It ends no earlier for a suspension, and all it ends later is covered by one.
LEMMA WolHeldSuspends ==
    ASSUME NEW now, NEW troubles, WolSpans(now, troubles), NEW left \in 0..WolDayLength,
           NEW due \in Nat, WolHeld(now, left, troubles, due), NEW k \in Nat \ {0}
    PROVE  WolHeld(now + k, left, troubles \union {[from |-> now, to |-> now + k]}, due)
<1> USE WolConstants
<1> DEFINE x == [from |-> now, to |-> now + k]
           more == troubles \union {x}
           n == now + k
<1>0. now \in Nat /\ n \in Nat /\ x.from = now /\ x.to = n /\ now <= n /\ x \in more /\ n = now + k
  BY DEF WolSpans
<1>1. WolSuspended(more) = WolSuspended(troubles) + k /\ WolSuspended(troubles) \in Nat
  BY WolSuspendedGrows, WolSuspendedIs
<1>2. due <= now + left /\ now + left - due <= WolSuspended(troubles)
  BY DEF WolHeld
<1>3. \A t \in due..(now - 1) : WolCovered(troubles, t)
  BY DEF WolHeld
<1> HIDE DEF x, n
<1>4. \A t \in due..(n - 1) : WolCovered(more, t)
  <2> TAKE t \in due..(n - 1)
  <2>1. CASE t < now
    <3>1. t \in due..(now - 1)
      BY <1>0, <2>1
    <3>2. PICK s \in troubles : s.from <= t /\ t <= s.to + WolDayLength
      BY <1>3, <3>1 DEF WolCovered
    <3> QED BY <3>2 DEF WolCovered
  <2>2. CASE ~(t < now)
    <3>1. x.from <= t /\ t <= x.to + WolDayLength
      BY <1>0, <2>2
    <3> QED BY <1>0, <3>1 DEF WolCovered
  <2> QED BY <2>1, <2>2
<1>5. x.from <= n /\ n + left <= x.to + WolDayLength
  BY <1>0
<1>6. due <= n + left /\ n + left - due <= WolSuspended(more)
  BY <1>0, <1>1, <1>2
<1>7. WolHeld(n, left, more, due)
  <2> HIDE DEF more
  <2> QED BY <1>0, <1>4, <1>5, <1>6 DEF WolHeld
<1> QED BY <1>7 DEF n, x

-----------------------------------------------------------------------------
(* What was served stays served, and what is covered is excused.            *)
LEMMA WolDoneMore ==
    ASSUME NEW live, NEW since, NEW sent, NEW troubles, NEW limit,
           NEW more, NEW spans, sent \subseteq more, troubles \subseteq spans,
           WolDone(live, since, sent, troubles, limit)
    PROVE  WolDone(live, since, more, spans, limit)
BY DEF WolDone, WolFired, WolExcusedBy

\* A tick of a plan is an instant of the day.
LEMMA WolTickOfDay ==
    ASSUME NEW live \in WolAll, NEW d \in 0..(WolDays - 1), NEW t \in WolTicks(WolPlan(live, d))
    PROVE  /\ t \in Nat /\ WolDayOf(t) = d /\ WolStart[d] \in Nat /\ WolStart[d] <= t
           /\ WolStart[d + 1] \in Nat /\ t < WolStart[d + 1]
<1> USE WolConstants
<1> DEFINE p == WolPlan(live, d)
<1>1. WolPlanOn(p, d)
  BY WolPlanIs
<1>2. p \in [from : Nat, to : Nat, every : Nat \ {0}] /\ WolStart[d] <= p.from /\ p.to < WolStart[d + 1]
  BY <1>1 DEF WolPlanOn
<1>3. t \in Nat /\ p.from <= t /\ t <= p.to
  BY <1>2, WolTicksOnGrid
<1> HIDE DEF p
<1>4. WolStart[d] \in Nat /\ WolStart[d + 1] \in Nat /\ d \in 0..WolDays
  BY <1>1, WolPlanDay
<1>5. WolStart[d] <= t /\ t < WolStart[d + 1]
  BY <1>2, <1>3, <1>4
<1> QED BY <1>3, <1>4, <1>5, WolDayOfIs

\* What is done until a sleep was due is done until now, when suspensions cover
\* the rest.
LEMMA WolDoneHeld ==
    ASSUME NEW live \in WolAll, NEW since, NEW sent, NEW troubles, NEW due \in Nat,
           NEW now \in Nat, \A s \in troubles : s.from \in Nat /\ s.to \in Nat,
           WolDone(live, since, sent, troubles, due),
           \A t \in due..(now - 1) : WolCovered(troubles, t)
    PROVE  WolDone(live, since, sent, troubles, now)
<1> USE WolConstants
<1> SUFFICES ASSUME NEW d \in 0..(WolDays - 1), NEW t \in WolTicks(WolPlan(live, d)),
                    since <= t, t < now
             PROVE  WolFired(sent, t) \/ WolExcusedBy(troubles, t)
  BY DEF WolDone
<1>1. t \in Nat /\ WolDayOf(t) = d /\ WolStart[d] \in Nat /\ WolStart[d] <= t
  BY WolTickOfDay
<1>2. CASE t < due
  BY <1>2 DEF WolDone
<1>3. CASE ~(t < due)
  <2>1. t \in due..(now - 1)
    BY <1>1, <1>3
  <2>2. PICK s \in troubles : s.from <= t /\ t <= s.to + WolDayLength
    BY <2>1 DEF WolCovered
  <2>3. WolStart[WolDayOf(t)] <= s.to + WolDayLength
    BY <1>1, <2>2
  <2> QED BY <2>2, <2>3 DEF WolExcusedBy
<1> QED BY <1>2, <1>3

\* The ticks ahead of the loop, up to one that is still of the plan.
LEMMA WolDoneAhead ==
    ASSUME NEW live \in WolAll, NEW since, NEW sent, NEW troubles, NEW now \in Nat,
           NEW D \in 0..(WolDays - 1), NEW at \in Nat,
           WolDone(live, since, sent, troubles, now),
           WolStart[D] <= now, at <= WolPlan(live, D).to,
           WolPassed(now, sent, WolPlan(live, D), at)
    PROVE  WolDone(live, since, sent, troubles, at)
<1> USE WolConstants
<1> DEFINE p == WolPlan(live, D)
<1>0. WolPlanOn(p, D)
  BY WolPlanIs
<1> SUFFICES ASSUME NEW d \in 0..(WolDays - 1), NEW t \in WolTicks(WolPlan(live, d)),
                    since <= t, t < at
             PROVE  WolFired(sent, t) \/ WolExcusedBy(troubles, t)
  BY DEF WolDone
<1>1. t \in Nat /\ WolDayOf(t) = d
  BY WolTickOfDay
<1>2. CASE t < now
  BY <1>2 DEF WolDone
<1>3. CASE ~(t < now)
  <2>1. p.to \in Nat /\ p.to < WolStart[D + 1] /\ at <= p.to
    BY <1>0 DEF WolPlanOn
  <2>2. WolStart[D] \in Nat /\ WolStart[D + 1] \in Nat /\ D \in 0..WolDays
    BY <1>0, WolPlanDay
  <2>3. WolStart[D] <= t /\ t < WolStart[D + 1]
    BY <1>1, <1>3, <2>1, <2>2
  <2>4. WolDayOf(t) = D
    BY <1>1, <2>2, <2>3, WolDayOfIs
  <2>5. t \in WolTicks(WolPlan(live, D))
    BY <1>1, <2>4
  <2> QED BY <1>3, <2>5 DEF WolPassed
<1> QED BY <1>2, <1>3

\* And when the plan is over, all of the day the loop is in.
LEMMA WolDoneToday ==
    ASSUME NEW live \in WolAll, NEW since, NEW sent, NEW troubles, NEW now \in Nat,
           now < WolStart[WolDays], \A s \in troubles : s.from \in Nat /\ s.to \in Nat,
           NEW D \in 0..(WolDays - 1), NEW at \in Nat,
           WolDone(live, since, sent, troubles, now),
           WolStart[D] <= now, at > WolPlan(live, D).to,
           WolPassed(now, sent, WolPlan(live, D), at), WolNear(now, troubles, D)
    PROVE  WolDone(live, since, sent, troubles, WolStart[WolDayOf(now) + 1])
<1> USE WolConstants
<1> DEFINE p == WolPlan(live, D)
           E == WolDayOf(now)
<1>0. WolPlanOn(p, D)
  BY WolPlanIs
<1>1. E \in 0..(WolDays - 1) /\ E \in 0..WolDays /\ WolStart[E] <= now /\ now < WolStart[E + 1]
      /\ WolStart[E] \in Nat /\ WolStart[E + 1] \in Nat
  BY WolDayExists
<1> HIDE DEF E
<1> SUFFICES ASSUME NEW d \in 0..(WolDays - 1), NEW t \in WolTicks(WolPlan(live, d)),
                    since <= t, t < WolStart[E + 1]
             PROVE  WolFired(sent, t) \/ WolExcusedBy(troubles, t)
  BY DEF WolDone, E
<1>2. t \in Nat /\ WolDayOf(t) = d
  BY WolTickOfDay
<1>3. CASE t < now
  BY <1>3 DEF WolDone
<1>4. CASE ~(t < now)
  <2>1. WolStart[E] <= t
    BY <1>1, <1>2, <1>4
  <2>2. WolDayOf(t) = E
    BY <1>1, <1>2, <2>1, WolDayOfIs
  <2>3. CASE WolStart[D + 1] <= now
    <3>1. PICK s \in troubles : s.from <= now /\ WolStart[E] <= s.to + WolDayLength
      BY <2>3 DEF WolNear, E
    <3>2. s.from <= t /\ WolStart[WolDayOf(t)] <= s.to + WolDayLength
      BY <1>2, <1>4, <2>2, <3>1
    <3> QED BY <3>2 DEF WolExcusedBy
  <2>4. CASE ~(WolStart[D + 1] <= now)
    <3>1. WolStart[D] \in Nat /\ WolStart[D + 1] \in Nat /\ D \in 0..WolDays
      BY <1>0, WolPlanDay
    <3>2. now < WolStart[D + 1]
      BY <2>4, <3>1
    <3>3. E = D
      BY <3>1, <3>2, WolDayOfIs DEF E
    <3>4. t \in WolTicks(p)
      BY <1>2, <2>2, <3>3
    <3>5. p \in [from : Nat, to : Nat, every : Nat \ {0}]
      BY <1>0 DEF WolPlanOn
    <3>6. t <= p.to /\ p.to \in Nat
      <4> HIDE DEF p
      <4> QED BY <3>4, <3>5, WolTicksOnGrid
    <3>7. t < at
      BY <1>2, <3>6
    <3> QED BY <1>4, <3>4, <3>7 DEF WolPassed
  <2> QED BY <2>3, <2>4
<1> QED BY <1>3, <1>4

\* The plans begin with no loop and no schedule.
LEMMA WolInitInv ==
    ASSUME WolInit PROVE WolInv
<1> USE WolConstants DEF WolInit
<1> DEFINE p == WolPlan(WolOff, 0)
<1>1. WolOff \in WolAll /\ 0 \in 0..(WolDays - 1) /\ ~WolOff.on
  BY DEF WolAll, WolOff
<1>2. WolPlanOn(p, 0) /\ WolDayOf(p.from) = 0
  BY <1>1, WolPlanIs
<1>3. wolLoop = [pc |-> "none", left |-> 0, at |-> 0, plan |-> p]
  BY DEF WolNone
<1> HIDE DEF p
<1>4. WolStart[0] = 0 /\ WolStart[0] < WolStart[1] /\ WolStart[1] <= WolStart[WolDays]
      /\ WolStart[1] \in Nat /\ WolStart[WolDays] \in Nat
  BY <1>2, WolPlanDay, WolStartIs
<1>5. WolClockInv
  BY <1>4, FS_EmptySet DEF WolClockInv, WolSpans
<1>6. WolLifeInv
  <2>1. wolLoop.pc = "none" /\ ~(wolGen > 0)
    BY <1>3
  <2> QED BY <1>1, <2>1 DEF WolLifeInv
<1>7. WolSentInv
  BY FS_EmptySet DEF WolSentInv
<1>8. WolLoopInv
  <2>1. wolLoop.pc = "none" /\ wolLoop.plan = p
    BY <1>3
  <2>2. wolLoop \in [pc : {"none", "day", "plan", "wait", "fire", "sleep"}, left : 0..WolDayLength,
                     at : Nat, plan : [from : Nat, to : Nat, every : Nat \ {0}]]
    BY <1>2, <1>3 DEF WolPlanOn
  <2> QED BY <1>2, <2>1, <2>2 DEF WolLoopInv
<1>9. WolServedInv
  BY DEF WolServedInv
<1> QED BY <1>5, <1>6, <1>7, <1>8, <1>9 DEF WolInv

-----------------------------------------------------------------------------
(* What an invariant state gives each step.                                 *)
LEMMA WolStateIs ==
    ASSUME WolInv
    PROVE  LET D == WolDayOf(wolLoop.plan.from) E == WolDayOf(wolNow) IN
           /\ WolSpans(wolNow, wolTroubles) /\ wolNow \in Nat /\ wolNow < WolStart[WolDays]
           /\ \A s \in wolTroubles : s.from \in Nat /\ s.to \in Nat
           /\ WolSuspended(wolTroubles) \in Nat /\ Cardinality(wolTroubles) \in Nat
           /\ wolSince \in Nat /\ wolSince <= wolNow
           /\ wolLive \in WolAll /\ wolConf \in WolAll
           /\ wolLoop.pc \in {"none", "day", "plan", "wait", "fire", "sleep"}
           /\ wolLoop.left \in 0..WolDayLength /\ wolLoop.at \in Nat
           /\ wolLoop.plan \in [from : Nat, to : Nat, every : Nat \ {0}]
           /\ wolLoop.plan.from \in Nat /\ wolLoop.plan.to \in Nat
           /\ wolLoop.plan.every \in Nat \ {0}
           /\ WolPlanOn(wolLoop.plan, D) /\ D \in 0..(WolDays - 1) /\ D \in 0..WolDays
           /\ WolStart[D] \in Nat /\ WolStart[D + 1] \in Nat
           /\ WolStart[D + 1] <= WolStart[D] + WolDayLength
           /\ wolLoop.plan.to < WolStart[D + 1]
           /\ E \in 0..(WolDays - 1) /\ WolStart[E] \in Nat /\ WolStart[E + 1] \in Nat
           /\ WolStart[E] <= wolNow /\ wolNow < WolStart[E + 1]
           /\ WolStart[E + 1] <= WolStart[E] + WolDayLength
           /\ wolLoop = [pc |-> wolLoop.pc, left |-> wolLoop.left, at |-> wolLoop.at,
                         plan |-> wolLoop.plan]
<1> DEFINE D == WolDayOf(wolLoop.plan.from)
           E == WolDayOf(wolNow)
<1>1. WolSpans(wolNow, wolTroubles) /\ wolSince \in Nat /\ wolSince <= wolNow
  BY DEF WolInv, WolClockInv
<1>2. wolNow \in Nat /\ wolNow < WolStart[WolDays]
      /\ \A s \in wolTroubles : s.from \in Nat /\ s.to \in Nat
  BY <1>1 DEF WolSpans
<1>3. WolSuspended(wolTroubles) \in Nat /\ Cardinality(wolTroubles) \in Nat
  BY <1>1, WolSuspendedIs
<1>4. wolLive \in WolAll /\ wolConf \in WolAll
  BY DEF WolInv, WolLifeInv
<1>5. wolLoop \in [pc : {"none", "day", "plan", "wait", "fire", "sleep"}, left : 0..WolDayLength,
                   at : Nat, plan : [from : Nat, to : Nat, every : Nat \ {0}]]
      /\ WolPlanOn(wolLoop.plan, D)
  BY DEF WolInv, WolLoopInv
<1>6. D \in 0..(WolDays - 1) /\ D \in 0..WolDays /\ WolStart[D] \in Nat /\ WolStart[D + 1] \in Nat
      /\ WolStart[D + 1] <= WolStart[D] + WolDayLength
  <2> HIDE DEF D
  <2> QED BY <1>5, WolPlanDay
<1>7. wolLoop.plan.to < WolStart[D + 1]
  <2> HIDE DEF D
  <2> QED BY <1>5 DEF WolPlanOn
<1>8. E \in 0..(WolDays - 1) /\ WolStart[E] \in Nat /\ WolStart[E + 1] \in Nat
      /\ WolStart[E] <= wolNow /\ wolNow < WolStart[E + 1]
  BY <1>2, WolDayExists
<1>9. WolStart[E + 1] <= WolStart[E] + WolDayLength
  <2> HIDE DEF E
  <2>1. E \in 0..WolDays
    BY <1>8, WolConstants
  <2> QED BY <2>1, WolStartIs
<1>10. wolLoop.pc \in {"none", "day", "plan", "wait", "fire", "sleep"}
       /\ wolLoop.left \in 0..WolDayLength /\ wolLoop.at \in Nat
       /\ wolLoop.plan \in [from : Nat, to : Nat, every : Nat \ {0}]
       /\ wolLoop = [pc |-> wolLoop.pc, left |-> wolLoop.left, at |-> wolLoop.at,
                     plan |-> wolLoop.plan]
  BY <1>5
<1>11. wolLoop.plan.from \in Nat /\ wolLoop.plan.to \in Nat /\ wolLoop.plan.every \in Nat \ {0}
  BY <1>10
<1> HIDE DEF D, E
<1>12. /\ WolSpans(wolNow, wolTroubles) /\ wolNow \in Nat /\ wolNow < WolStart[WolDays]
       /\ \A s \in wolTroubles : s.from \in Nat /\ s.to \in Nat
       /\ WolSuspended(wolTroubles) \in Nat /\ Cardinality(wolTroubles) \in Nat
       /\ wolSince \in Nat /\ wolSince <= wolNow
       /\ wolLive \in WolAll /\ wolConf \in WolAll
       /\ WolPlanOn(wolLoop.plan, D) /\ D \in 0..(WolDays - 1) /\ D \in 0..WolDays
       /\ WolStart[D] \in Nat /\ WolStart[D + 1] \in Nat
       /\ WolStart[D + 1] <= WolStart[D] + WolDayLength
       /\ wolLoop.plan.to < WolStart[D + 1]
       /\ E \in 0..(WolDays - 1) /\ WolStart[E] \in Nat /\ WolStart[E + 1] \in Nat
       /\ WolStart[E] <= wolNow /\ wolNow < WolStart[E + 1]
       /\ WolStart[E + 1] <= WolStart[E] + WolDayLength
  BY <1>1, <1>2, <1>3, <1>4, <1>5, <1>6, <1>7, <1>8, <1>9
<1> QED BY <1>10, <1>11, <1>12 DEF D, E

\* The day of an instant does not go back, and every instant of a day counts.
LEMMA WolDaysGo ==
    ASSUME NEW d \in 0..WolDays, NEW t \in Nat, t < WolStart[WolDays], WolStart[d] <= t
    PROVE  d <= WolDayOf(t) /\ WolStart[d] <= WolStart[WolDayOf(t)] /\ WolStart[d] \in Nat
<1> USE WolConstants
<1> DEFINE E == WolDayOf(t)
           e == E + 1
<1>1. E \in 0..(WolDays - 1) /\ t < WolStart[e] /\ WolStart[E] \in Nat /\ WolStart[e] \in Nat
  BY WolDayExists
<1>2. E \in 0..(WolDays + 1) /\ e \in 0..(WolDays + 1) /\ d \in 0..(WolDays + 1)
  BY <1>1
<1>3. e <= d => WolStart[e] <= WolStart[d]
  <2> HIDE DEF e
  <2> QED BY <1>2, WolStartGrows
<1>4. WolStart[d] \in Nat
  BY <1>2, WolStartIs
<1>5. d <= E
  <2>1. ~(e <= d)
    <3> HIDE DEF e
    <3> QED BY <1>1, <1>3, <1>4
  <2> QED BY <1>1, <2>1
<1> HIDE DEF E
<1> QED BY <1>2, <1>4, <1>5, WolStartGrows DEF E

\* The loop looks at the day and makes its plan.
LEMMA WolDayStep ==
    ASSUME WolInv, WolDay PROVE WolInv'
<1> USE WolConstants
<1> DEFINE E == WolDayOf(wolNow)
           p == WolPlan(wolLive, E)
           f == WolFirstTick(p, wolNow - p.every)
<1>1. /\ WolSpans(wolNow, wolTroubles) /\ wolNow \in Nat /\ wolSince \in Nat /\ wolSince <= wolNow
      /\ WolSuspended(wolTroubles) \in Nat
      /\ wolLive \in WolAll /\ wolLoop.left \in 0..WolDayLength
      /\ E \in 0..(WolDays - 1) /\ WolStart[E] \in Nat /\ WolStart[E + 1] \in Nat
      /\ WolStart[E] <= wolNow /\ wolNow < WolStart[E + 1]
      /\ wolLoop = [pc |-> wolLoop.pc, left |-> wolLoop.left, at |-> wolLoop.at,
                    plan |-> wolLoop.plan]
  BY WolStateIs
<1>2. /\ wolLoop.pc = "day"
      /\ wolLoop' = [wolLoop EXCEPT !.pc = "plan", !.plan = p, !.at = f]
      /\ UNCHANGED <<wolNow, wolSent, wolTroubles, wolConf, wolLive, wolClosed, wolLife, wolGen,
                     wolSince, wolCancelled>>
  BY DEF WolDay, WolRest, WolLoopAt
<1>3. WolPlanOn(p, E) /\ WolDayOf(p.from) = E /\ p.every = wolLive.every
  <2> HIDE DEF E
  <2> QED BY <1>1, WolPlanIs
<1>4. p \in [from : Nat, to : Nat, every : Nat \ {0}] /\ p.from \in Nat /\ p.every \in Nat \ {0}
      /\ WolStart[E] <= p.from
  <2> HIDE DEF E, p
  <2> QED BY <1>3 DEF WolPlanOn
<1>5. /\ f \in Nat /\ p.from <= f /\ wolNow - p.every <= f /\ WolOnGrid(f, p)
      /\ f = p.from \/ f < wolNow
  <2> HIDE DEF E, p
  <2>1. wolNow - p.every \in Int /\ wolNow - p.every + p.every = wolNow
    BY <1>1, <1>4
  <2>2. /\ f \in Nat /\ p.from <= f /\ wolNow - p.every <= f /\ WolOnGrid(f, p)
        /\ f = p.from \/ f < (wolNow - p.every) + p.every
    BY <1>4, <2>1, WolFirstTickIs
  <2> QED BY <2>1, <2>2
<1>6. wolLoop' = [pc |-> "plan", left |-> wolLoop.left, at |-> f, plan |-> p]
  <2> HIDE DEF p, f
  <2> QED BY <1>1, <1>2
<1> HIDE DEF f
<1>7. wolLoop'.pc = "plan" /\ wolLoop'.left = wolLoop.left /\ wolLoop'.at = f /\ wolLoop'.plan = p
  <2> HIDE DEF p
  <2> QED BY <1>6
<1>8. WolClockInv' /\ WolSentInv'
  BY <1>2 DEF WolInv, WolClockInv, WolSentInv
<1>9. WolLifeInv'
  <2>1. WolLifeInv
    BY DEF WolInv
  <2> QED BY <1>2, <1>7, <2>1 DEF WolLifeInv
<1>10. \A s \in wolSent : s.tick \in Nat /\ s.tick < WolStart[E]
  BY <1>2 DEF WolInv, WolLoopInv, WolSentInv
<1>11. \A s \in wolSent : s.tick < f /\ s.tick < WolStart[E + 1]
  <2> HIDE DEF E, p
  <2> QED BY <1>1, <1>4, <1>5, <1>10
<1>12. WolLoopInv'
  <2> HIDE DEF E, p
  <2>1. wolLoop' \in [pc : {"none", "day", "plan", "wait", "fire", "sleep"}, left : 0..WolDayLength,
                      at : Nat, plan : [from : Nat, to : Nat, every : Nat \ {0}]]
    BY <1>1, <1>4, <1>5, <1>6
  <2> QED BY <1>1, <1>2, <1>3, <1>4, <1>5, <1>7, <1>11, <2>1 DEF WolLoopInv
<1>13. ASSUME ~wolCancelled
       PROVE  /\ WolDone(wolLive, wolSince, wolSent, wolTroubles, wolNow)
              /\ WolNear(wolNow, wolTroubles, E)
              /\ WolPunctual(wolNow, wolSince, wolTroubles, f, p.every)
              /\ WolPassed(wolNow, wolSent, p, f)
  <2>1. /\ WolDone(wolLive, wolSince, wolSent, wolTroubles, wolNow)
        /\ \/ wolNow - wolSince <= WolSuspended(wolTroubles)
           \/ wolNow - WolStart[E] <= WolSuspended(wolTroubles)
    BY <1>2, <1>13 DEF WolInv, WolServedInv
  <2> HIDE DEF E, p
  <2>2. WolNear(wolNow, wolTroubles, E)
    BY <1>1 DEF WolNear
  <2>3. WolPunctual(wolNow, wolSince, wolTroubles, f, p.every)
    BY <1>1, <1>4, <1>5, <2>1 DEF WolPunctual
  <2>4. WolPassed(wolNow, wolSent, p, f)
    <3> SUFFICES ASSUME NEW t \in WolTicks(p), t < f PROVE t < wolNow
      BY DEF WolPassed
    <3>1. t \in Nat /\ p.from <= t
      BY <1>4, WolTicksOnGrid
    <3> QED BY <1>1, <1>4, <1>5, <3>1
  <2> QED BY <2>1, <2>2, <2>3, <2>4
<1>14. WolServedInv'
  <2> HIDE DEF E, p
  <2>1. SUFFICES ASSUME ~wolCancelled PROVE WolServedInv'
    BY <1>2 DEF WolServedInv
  <2>2. /\ \A s \in wolSent : WolPunctual(s.when, wolSince, wolTroubles, s.tick, wolLive.every)
        /\ Cardinality(WolLateOnes(wolSent, wolLive.every)) + (IF WolHeldUp THEN 1 ELSE 0)
             <= Cardinality(wolTroubles)
    BY <2>1 DEF WolInv, WolServedInv
  <2>3. ~WolHeldUp /\ ~WolHeldUp'
    BY <1>2, <1>7 DEF WolHeldUp
  <2>4. Cardinality(WolLateOnes(wolSent, wolLive.every)) + 0 <= Cardinality(wolTroubles)
    BY <2>2, <2>3
  <2>5. (Cardinality(WolLateOnes(wolSent, wolLive.every)) + (IF WolHeldUp THEN 1 ELSE 0)
             <= Cardinality(wolTroubles))'
    <3>1. (Cardinality(WolLateOnes(wolSent, wolLive.every)) + 0 <= Cardinality(wolTroubles))'
      BY <1>2, <2>4
    <3> QED BY <2>3, <3>1
  <2>6. wolLoop'.plan = WolPlan(wolLive, WolDayOf(wolLoop'.plan.from))
    BY <1>3, <1>7 DEF p
  <2>7. WolDayOf(wolLoop'.plan.from) = E
    BY <1>3, <1>7
  <2> QED BY <1>2, <1>7, <1>13, <2>1, <2>2, <2>5, <2>6, <2>7 DEF WolServedInv
<1> QED BY <1>8, <1>9, <1>12, <1>14 DEF WolInv

\* A loop that is cancelled ends.
LEMMA WolEnds ==
    ASSUME WolInv, wolCancelled, wolLoop' = WolNone,
           UNCHANGED <<wolNow, wolSent, wolTroubles, wolConf, wolLive, wolClosed, wolLife, wolGen,
                       wolSince, wolCancelled>>
    PROVE  WolInv'
<1> USE WolConstants
<1> DEFINE o == WolPlan(WolOff, 0)
<1>1. WolPlanOn(o, 0) /\ WolDayOf(o.from) = 0
  <2>1. WolOff \in WolAll /\ 0 \in 0..(WolDays - 1)
    BY DEF WolAll
  <2> QED BY <2>1, WolPlanIs
<1>2. wolLoop' = [pc |-> "none", left |-> 0, at |-> 0, plan |-> o]
  BY DEF WolNone
<1> HIDE DEF o
<1>3. wolLoop'.pc = "none" /\ wolLoop'.plan = o
  BY <1>2
<1>4. wolLoop' \in [pc : {"none", "day", "plan", "wait", "fire", "sleep"}, left : 0..WolDayLength,
                    at : Nat, plan : [from : Nat, to : Nat, every : Nat \ {0}]]
  BY <1>1, <1>2 DEF WolPlanOn
<1>5. WolLoopInv'
  BY <1>1, <1>3, <1>4 DEF WolLoopInv
<1>6. WolLifeInv'
  <2>1. WolLifeInv
    BY DEF WolInv
  <2> QED BY <1>3, <2>1 DEF WolLifeInv
<1>7. WolServedInv'
  BY DEF WolServedInv
<1>8. WolClockInv' /\ WolSentInv'
  BY DEF WolInv, WolClockInv, WolSentInv
<1> QED BY <1>5, <1>6, <1>7, <1>8 DEF WolInv

\* The loop looks at its next tick.
LEMMA WolTickStep ==
    ASSUME WolInv, WolTick PROVE WolInv'
<1> USE WolConstants
<1> DEFINE D == WolDayOf(wolLoop.plan.from)
           E == WolDayOf(wolNow)
           p == wolLoop.plan
           x == wolLoop.at
           z == E + 1
<1>1. /\ WolSpans(wolNow, wolTroubles) /\ wolNow \in Nat /\ wolSince \in Nat /\ wolSince <= wolNow
      /\ wolNow < WolStart[WolDays] /\ \A s \in wolTroubles : s.from \in Nat /\ s.to \in Nat
      /\ WolSuspended(wolTroubles) \in Nat /\ wolLive \in WolAll
      /\ wolLoop.left \in 0..WolDayLength /\ x \in Nat
      /\ p \in [from : Nat, to : Nat, every : Nat \ {0}]
      /\ p.from \in Nat /\ p.to \in Nat /\ p.every \in Nat \ {0}
      /\ WolPlanOn(p, D) /\ D \in 0..(WolDays - 1) /\ D \in 0..WolDays
      /\ WolStart[D] \in Nat /\ WolStart[D + 1] \in Nat
      /\ WolStart[D + 1] <= WolStart[D] + WolDayLength /\ p.to < WolStart[D + 1]
      /\ E \in 0..(WolDays - 1) /\ WolStart[E] \in Nat /\ WolStart[z] \in Nat
      /\ WolStart[E] <= wolNow /\ wolNow < WolStart[z]
      /\ WolStart[z] <= WolStart[E] + WolDayLength
      /\ wolLoop = [pc |-> wolLoop.pc, left |-> wolLoop.left, at |-> x, plan |-> p]
  BY WolStateIs
<1>2. /\ wolLoop.pc = "plan"
      /\ UNCHANGED <<wolNow, wolSent, wolTroubles, wolConf, wolLive, wolClosed, wolLife, wolGen,
                     wolSince, wolCancelled>>
  BY DEF WolTick, WolRest, WolLoopAt
<1>3. /\ WolStart[D] <= wolNow /\ p.from <= x /\ WolOnGrid(x, p)
      /\ \A s \in wolSent : s.tick < x /\ s.tick < WolStart[D + 1]
  BY <1>2 DEF WolInv, WolLoopInv
<1>4. ~wolCancelled =>
         /\ p = WolPlan(wolLive, D)
         /\ WolDone(wolLive, wolSince, wolSent, wolTroubles, wolNow)
         /\ WolNear(wolNow, wolTroubles, D)
         /\ WolPunctual(wolNow, wolSince, wolTroubles, x, p.every)
         /\ WolPassed(wolNow, wolSent, p, x)
         /\ \A s \in wolSent : WolPunctual(s.when, wolSince, wolTroubles, s.tick, wolLive.every)
         /\ Cardinality(WolLateOnes(wolSent, wolLive.every)) <= Cardinality(wolTroubles)
  <2> SUFFICES ASSUME ~wolCancelled
               PROVE  /\ p = WolPlan(wolLive, D)
                      /\ WolDone(wolLive, wolSince, wolSent, wolTroubles, wolNow)
                      /\ WolNear(wolNow, wolTroubles, D)
                      /\ WolPunctual(wolNow, wolSince, wolTroubles, x, p.every)
                      /\ WolPassed(wolNow, wolSent, p, x)
                      /\ \A s \in wolSent : WolPunctual(s.when, wolSince, wolTroubles, s.tick, wolLive.every)
                      /\ Cardinality(WolLateOnes(wolSent, wolLive.every)) <= Cardinality(wolTroubles)
    OBVIOUS
  <2>1. WolServedInv
    BY DEF WolInv
  <2>2. ~WolHeldUp
    BY <1>2 DEF WolHeldUp
  <2>3. IsFiniteSet(WolLateOnes(wolSent, wolLive.every))
    <3>1. IsFiniteSet(wolSent) /\ WolLateOnes(wolSent, wolLive.every) \subseteq wolSent
      BY DEF WolInv, WolSentInv, WolLateOnes
    <3> QED BY <3>1, FS_Subset
  <2>4. Cardinality(WolLateOnes(wolSent, wolLive.every)) \in Nat
    BY <2>3, FS_CardinalityType
  <2>5. Cardinality(WolLateOnes(wolSent, wolLive.every)) + (IF WolHeldUp THEN 1 ELSE 0)
          <= Cardinality(wolTroubles)
    BY <2>1 DEF WolServedInv
  <2>6. Cardinality(WolLateOnes(wolSent, wolLive.every)) + 0 <= Cardinality(wolTroubles)
    BY <2>2, <2>5
  <2>7. Cardinality(WolLateOnes(wolSent, wolLive.every)) <= Cardinality(wolTroubles)
    BY <2>4, <2>6
  <2> QED BY <1>2, <2>1, <2>7 DEF WolServedInv
<1>5. WolClockInv' /\ WolSentInv'
  BY <1>2 DEF WolInv, WolClockInv, WolSentInv
<1>6. ASSUME wolLoop'.pc # "none" PROVE WolLifeInv'
  <2>1. WolLifeInv /\ wolLoop.pc # "none"
    BY <1>2 DEF WolInv
  <2> QED BY <1>2, <1>6, <2>1 DEF WolLifeInv

\* What a step owes that leaves a plan loop with some timer and some next tick.
<1>7. ASSUME NEW q \in {"plan", "wait", "fire", "sleep"}, NEW l \in 0..WolDayLength, NEW y \in Nat,
             wolLoop' = [pc |-> q, left |-> l, at |-> y, plan |-> p],
             x <= y, WolOnGrid(y, p),
             q = "fire" => y <= wolNow /\ y <= p.to,
             q = "wait" => y <= p.to /\ WolHeld(wolNow, l, wolTroubles, y),
             q = "sleep" =>
               \E e \in (D + 1)..WolDays :
                  /\ WolHeld(wolNow, l, wolTroubles, WolStart[e])
                  /\ ~wolCancelled => WolDone(wolLive, wolSince, wolSent, wolTroubles, WolStart[e]),
             ~wolCancelled /\ q = "wait" => WolDone(wolLive, wolSince, wolSent, wolTroubles, y),
             ~wolCancelled /\ q \in {"plan", "fire"} =>
                /\ WolPunctual(wolNow, wolSince, wolTroubles, y, p.every)
                /\ WolPassed(wolNow, wolSent, p, y),
             q = "wait" => ~(wolNow + l > y + p.every),
             q = "fire" => ~(wolNow > y + p.every)
      PROVE  WolInv'
  <2>1. wolLoop'.pc = q /\ wolLoop'.left = l /\ wolLoop'.at = y /\ wolLoop'.plan = p
    BY <1>7
  <2>2. \A s \in wolSent : s.tick < y /\ s.tick < WolStart[D + 1]
    <3>1. \A s \in wolSent : s.tick \in Nat
      BY DEF WolInv, WolSentInv
    <3> QED BY <1>1, <1>3, <1>7, <3>1
  <2>3. p.from <= y
    BY <1>1, <1>3, <1>7
  <2>4. D = WolDayOf(wolLoop'.plan.from)
    BY <2>1
  <2> HIDE DEF D, E, p, x, z
  <2>5. wolLoop' \in [pc : {"none", "day", "plan", "wait", "fire", "sleep"}, left : 0..WolDayLength,
                      at : Nat, plan : [from : Nat, to : Nat, every : Nat \ {0}]]
    BY <1>1, <1>7
  <2>6. WolLoopInv'
    <3>1. q = "sleep" =>
            (\E e \in (D + 1)..WolDays :
               /\ WolHeld(wolNow, wolLoop.left, wolTroubles, WolStart[e])
               /\ ~wolCancelled => WolDone(wolLive, wolSince, wolSent, wolTroubles, WolStart[e]))'
      BY <1>2, <1>7, <2>1 DEF D, p
    <3>2. q = "wait" => (WolHeld(wolNow, wolLoop.left, wolTroubles, wolLoop.at))'
      BY <1>2, <1>7, <2>1
    <3> QED BY <1>1, <1>2, <1>3, <1>7, <2>1, <2>2, <2>3, <2>4, <2>5, <3>1, <3>2 DEF WolLoopInv
  <2>7. ~WolHeldUp'
    BY <1>2, <1>7, <2>1 DEF WolHeldUp
  <2>8. WolServedInv'
    <3>1. SUFFICES ASSUME ~wolCancelled PROVE WolServedInv'
      BY <1>2 DEF WolServedInv
    <3>2. (Cardinality(WolLateOnes(wolSent, wolLive.every)) + (IF WolHeldUp THEN 1 ELSE 0)
             <= Cardinality(wolTroubles))'
      <4>1. Cardinality(WolLateOnes(wolSent, wolLive.every)) \in Nat
        <5>1. IsFiniteSet(wolSent) /\ WolLateOnes(wolSent, wolLive.every) \subseteq wolSent
          BY DEF WolInv, WolSentInv, WolLateOnes
        <5> QED BY <5>1, FS_Subset, FS_CardinalityType
      <4>2. Cardinality(WolLateOnes(wolSent, wolLive.every)) + 0 <= Cardinality(wolTroubles)
        BY <1>4, <3>1, <4>1
      <4>3. (Cardinality(WolLateOnes(wolSent, wolLive.every)) + 0 <= Cardinality(wolTroubles))'
        BY <1>2, <4>2
      <4> QED BY <2>7, <4>3
    <3>3. (wolLoop.plan = WolPlan(wolLive, WolDayOf(wolLoop.plan.from)))'
      BY <1>2, <1>4, <2>1, <2>4, <3>1
    <3>4. WolNear(wolNow, wolTroubles, D)' /\ WolDone(wolLive, wolSince, wolSent, wolTroubles, wolNow)'
          /\ (\A s \in wolSent : WolPunctual(s.when, wolSince, wolTroubles, s.tick, wolLive.every))'
      <4>1. WolNear(wolNow, wolTroubles, D) /\ WolDone(wolLive, wolSince, wolSent, wolTroubles, wolNow)
            /\ (\A s \in wolSent : WolPunctual(s.when, wolSince, wolTroubles, s.tick, wolLive.every))
        BY <1>4, <3>1
      <4>2. D' = D
        BY <2>1 DEF D, p
      <4> QED BY <1>2, <4>1, <4>2
    <3>5. q # "day" /\ q \in {"plan", "wait", "fire", "sleep"}
      BY <1>7
    <3>6. q = "wait" => WolDone(wolLive, wolSince, wolSent, wolTroubles, wolLoop.at)'
      BY <1>2, <1>7, <2>1, <3>1
    <3>7. q \in {"plan", "fire"} =>
             /\ WolPunctual(wolNow, wolSince, wolTroubles, wolLoop.at, wolLoop.plan.every)'
             /\ WolPassed(wolNow, wolSent, wolLoop.plan, wolLoop.at)'
      BY <1>2, <1>7, <2>1, <3>1
    <3>8. (WolNear(wolNow, wolTroubles, WolDayOf(wolLoop.plan.from)))'
      BY <3>4 DEF D, p
    <3> QED BY <2>1, <3>2, <3>3, <3>4, <3>5, <3>6, <3>7, <3>8 DEF WolServedInv
  <2>9. WolLifeInv'
    BY <1>6, <1>7, <2>1
  <2> QED BY <1>5, <2>6, <2>8, <2>9 DEF WolInv
<1>8. CASE x > p.to
  <2> DEFINE l == WolStart[z] - wolNow
  <2>1. l \in 0..WolDayLength /\ wolNow + l = WolStart[z]
    <3> HIDE DEF E, z
    <3> QED BY <1>1
  <2>2. wolLoop' = [wolLoop EXCEPT !.pc = "sleep", !.left = WolTomorrow - wolNow]
    BY <1>8 DEF WolTick
  <2>3. WolTomorrow - wolNow = l
    BY DEF WolTomorrow
  <2> HIDE DEF l
  <2>4. wolLoop' = [pc |-> "sleep", left |-> l, at |-> x, plan |-> p]
    <3>1. wolLoop' = [wolLoop EXCEPT !.pc = "sleep", !.left = l]
      BY <2>2, <2>3
    <3>2. wolLoop = [pc |-> wolLoop.pc, left |-> wolLoop.left, at |-> x, plan |-> p]
      BY <1>1
    <3> DEFINE c == wolLoop.pc
               m == wolLoop.left
    <3>3. wolLoop = [pc |-> c, left |-> m, at |-> x, plan |-> p]
      BY <3>2
    <3> HIDE DEF x, p, c, m
    <3> QED BY <3>1, <3>3
  <2>5. z \in (D + 1)..WolDays
    <3>1. D <= E
      <4> HIDE DEF D
      <4> QED BY <1>1, <1>3, WolDaysGo
    <3> HIDE DEF D, E
    <3> QED BY <1>1, <3>1 DEF z
  <2>6. WolHeld(wolNow, l, wolTroubles, WolStart[z])
    BY <1>1, <2>1, WolHeldStarts
  <2>7. ~wolCancelled => WolDone(wolLive, wolSince, wolSent, wolTroubles, WolStart[z])
    <3> SUFFICES ASSUME ~wolCancelled
                 PROVE  WolDone(wolLive, wolSince, wolSent, wolTroubles, WolStart[z])
      OBVIOUS
    <3> HIDE DEF D, p, x
    <3>1. x > WolPlan(wolLive, D).to /\ WolPassed(wolNow, wolSent, WolPlan(wolLive, D), x)
      BY <1>4, <1>8
    <3> QED BY <1>1, <1>3, <1>4, <3>1, WolDoneToday
  <2> QED
    <3> HIDE DEF D, p, x, z
    <3> QED BY <1>1, <1>3, <1>7, <2>1, <2>4, <2>5, <2>6, <2>7
<1>9. CASE ~(x > p.to) /\ wolCancelled
  <2>1. wolLoop' = WolNone
    BY <1>9 DEF WolTick
  <2> QED BY <1>2, <1>9, <2>1, WolEnds
<1>10. CASE ~(x > p.to) /\ ~wolCancelled /\ WolLate
  <2> DEFINE q == [p EXCEPT !.from = x]
             f == WolFirstTick(q, wolNow)
  <2>1. wolLoop' = [wolLoop EXCEPT !.at = WolRealigned]
    BY <1>10 DEF WolTick
  <2>2. WolRealigned = f
    BY DEF WolRealigned
  <2>3. q \in [from : Nat, to : Nat, every : Nat \ {0}] /\ q.from = x /\ q.every = p.every
    <3> HIDE DEF p, x
    <3> QED BY <1>1
  <2>4. /\ f \in Nat /\ x <= f /\ wolNow <= f /\ WolOnGrid(f, q)
        /\ f = x \/ f < wolNow + p.every
    <3> HIDE DEF p, x, q
    <3>1. wolNow \in Int
      BY <1>1
    <3> QED BY <2>3, <3>1, WolFirstTickIs
  <2> HIDE DEF f
  <2>5. WolOnGrid(f, p)
    <3>1. PICK k \in Nat : x = p.from + k * p.every
      BY <1>3 DEF WolOnGrid
    <3>2. PICK j \in Nat : f = x + j * p.every
      BY <2>3, <2>4 DEF WolOnGrid
    <3> DEFINE e == p.every
               b == p.from
    <3>3. e \in Nat /\ b \in Nat /\ x = b + k * e /\ f = x + j * e
      BY <1>1, <3>1, <3>2
    <3> HIDE DEF e, b, x
    <3>4. k * e \in Nat /\ j * e \in Nat /\ (k + j) * e = k * e + j * e
      BY <3>3
    <3>5. f = b + (k + j) * e /\ k + j \in Nat
      BY <3>3, <3>4
    <3>6. f = p.from + (k + j) * p.every
      BY <3>5 DEF e, b
    <3> QED BY <3>5, <3>6 DEF WolOnGrid
  <2>6. wolLoop' = [pc |-> "plan", left |-> wolLoop.left, at |-> f, plan |-> p]
    <3>1. wolLoop' = [wolLoop EXCEPT !.at = f]
      BY <2>1, <2>2
    <3> HIDE DEF p, x
    <3> QED BY <1>1, <1>2, <3>1
  <2>7. WolPunctual(wolNow, wolSince, wolTroubles, f, p.every)
    <3> HIDE DEF p
    <3> QED BY <1>1, <2>4 DEF WolPunctual
  <2>8. WolPassed(wolNow, wolSent, p, f)
    <3> SUFFICES ASSUME NEW t \in WolTicks(p), t < f PROVE t < wolNow \/ WolFired(wolSent, t)
      BY DEF WolPassed
    <3> HIDE DEF p, x
    <3>1. t \in Nat /\ p.from <= t /\ WolOnGrid(t, p)
      BY <1>1, WolTicksOnGrid
    <3>2. t + p.every <= f
      BY <1>1, <2>4, <2>5, <3>1, WolGridSteps
    <3>3. CASE f = x
      BY <1>4, <1>10, <3>3 DEF WolPassed
    <3>4. CASE f < wolNow + p.every
      BY <1>1, <2>4, <3>1, <3>2, <3>4
    <3> QED BY <2>4, <3>3, <3>4
  <2> QED
    <3> HIDE DEF p, x, D
    <3> QED BY <1>1, <1>7, <2>4, <2>5, <2>6, <2>7, <2>8
<1>11. CASE ~(x > p.to) /\ ~wolCancelled /\ ~WolLate /\ x - wolNow > 0
  <2> DEFINE l == x - wolNow
  <2>1. l \in 0..WolDayLength /\ wolNow + l = x /\ x <= p.to
    <3> HIDE DEF D, p, x
    <3> QED BY <1>1, <1>3, <1>11
  <2>2. wolLoop' = [wolLoop EXCEPT !.pc = "wait", !.left = l]
    BY <1>11 DEF WolTick
  <2> HIDE DEF l
  <2>3. wolLoop' = [pc |-> "wait", left |-> l, at |-> x, plan |-> p]
    <3> DEFINE c == wolLoop.pc
               m == wolLoop.left
    <3>1. wolLoop = [pc |-> c, left |-> m, at |-> x, plan |-> p]
      BY <1>1
    <3> HIDE DEF x, p, c, m
    <3> QED BY <2>2, <3>1
  <2>4. WolHeld(wolNow, l, wolTroubles, x)
    <3> HIDE DEF x
    <3> QED BY <1>1, <2>1, WolHeldStarts
  <2>5. WolDone(wolLive, wolSince, wolSent, wolTroubles, x)
    <3> HIDE DEF D, p, x
    <3>1. x <= WolPlan(wolLive, D).to /\ WolPassed(wolNow, wolSent, WolPlan(wolLive, D), x)
      BY <1>4, <1>11, <2>1
    <3> QED BY <1>1, <1>3, <1>4, <1>11, <3>1, WolDoneAhead
  <2> QED
    <3> HIDE DEF D, p, x
    <3>1. ~(wolNow + l > x + p.every)
      BY <1>1, <2>1
    <3> QED BY <1>1, <1>3, <1>7, <2>1, <2>3, <2>4, <2>5, <3>1
<1>12. CASE ~(x > p.to) /\ ~wolCancelled /\ ~WolLate /\ ~(x - wolNow > 0)
  <2>1. wolLoop' = [wolLoop EXCEPT !.pc = "fire"]
    BY <1>12 DEF WolTick
  <2>2. wolLoop' = [pc |-> "fire", left |-> wolLoop.left, at |-> x, plan |-> p]
    <3> HIDE DEF p, x
    <3> QED BY <1>1, <2>1
  <2>3. x <= wolNow /\ x <= p.to /\ ~(wolNow > x + p.every)
    <3>1. ~(x - wolNow < -p.every)
      BY <1>12 DEF WolLate
    <3> HIDE DEF p, x
    <3> QED BY <1>1, <1>12, <3>1
  <2> QED
    <3> HIDE DEF D, p, x
    <3> QED BY <1>1, <1>3, <1>4, <1>7, <1>12, <2>2, <2>3
<1> QED BY <1>8, <1>9, <1>10, <1>11, <1>12

\* A sleep is over: the tick is due, or the day is.
LEMMA WolWokenStep ==
    ASSUME WolInv, WolWoken PROVE WolInv'
<1> USE WolConstants
<1> DEFINE D == WolDayOf(wolLoop.plan.from)
           E == WolDayOf(wolNow)
           p == wolLoop.plan
           x == wolLoop.at
<1>1. /\ WolSpans(wolNow, wolTroubles) /\ wolNow \in Nat /\ wolSince \in Nat /\ wolSince <= wolNow
      /\ wolNow < WolStart[WolDays] /\ \A s \in wolTroubles : s.from \in Nat /\ s.to \in Nat
      /\ WolSuspended(wolTroubles) \in Nat /\ wolLive \in WolAll
      /\ wolLoop.left \in 0..WolDayLength /\ x \in Nat
      /\ p \in [from : Nat, to : Nat, every : Nat \ {0}]
      /\ p.from \in Nat /\ p.to \in Nat /\ p.every \in Nat \ {0}
      /\ WolPlanOn(p, D) /\ D \in 0..(WolDays - 1) /\ D \in 0..WolDays
      /\ WolStart[D] \in Nat /\ WolStart[D + 1] \in Nat /\ p.to < WolStart[D + 1]
      /\ E \in 0..(WolDays - 1) /\ WolStart[E] \in Nat /\ WolStart[E] <= wolNow
      /\ wolLoop = [pc |-> wolLoop.pc, left |-> wolLoop.left, at |-> x, plan |-> p]
  BY WolStateIs
<1>2. UNCHANGED <<wolNow, wolSent, wolTroubles, wolConf, wolLive, wolClosed, wolLife, wolGen,
                  wolSince, wolCancelled>>
  BY DEF WolWoken, WolRest
<1>3. CASE wolCancelled /\ wolLoop' = WolNone
  BY <1>2, <1>3, WolEnds
<1>4. wolLoop.pc \in {"wait", "sleep"} => WolStart[D] <= wolNow /\ p.from <= x /\ WolOnGrid(x, p)
      /\ \A s \in wolSent : s.tick < x /\ s.tick < WolStart[D + 1]
  BY DEF WolInv, WolLoopInv
<1>5. \A s \in wolSent : s.tick \in Nat
  BY DEF WolInv, WolSentInv
<1>6. WolClockInv' /\ WolSentInv'
  BY <1>2 DEF WolInv, WolClockInv, WolSentInv
<1>7. CASE wolLoop.pc = "wait" /\ wolLoop.left <= 0
           /\ wolLoop' = [wolLoop EXCEPT !.pc = IF @ = "wait" THEN "fire" ELSE "day"]
  <2>0. wolLoop.left = 0
    BY <1>1, <1>7
  <2>1. wolLoop' = [pc |-> "fire", left |-> 0, at |-> x, plan |-> p]
    <3> DEFINE c == wolLoop.pc
               m == wolLoop.left
    <3>1. wolLoop = [pc |-> c, left |-> m, at |-> x, plan |-> p] /\ c = "wait" /\ m = 0
      BY <1>1, <1>7, <2>0
    <3>2. wolLoop' = [wolLoop EXCEPT !.pc = IF @ = "wait" THEN "fire" ELSE "day"]
      BY <1>7
    <3> HIDE DEF x, p, c, m
    <3> QED BY <3>1, <3>2
  <2>2. wolLoop'.pc = "fire" /\ wolLoop'.left = 0 /\ wolLoop'.at = x /\ wolLoop'.plan = p
    BY <2>1
  <2>3. x <= p.to /\ WolHeld(wolNow, wolLoop.left, wolTroubles, x)
    BY <1>7 DEF WolInv, WolLoopInv
  <2>4. /\ x <= wolNow /\ wolNow - x <= WolSuspended(wolTroubles)
        /\ x < wolNow => \E s \in wolTroubles : s.from <= wolNow /\ wolNow <= s.to + WolDayLength
        /\ \A t \in x..(wolNow - 1) : WolCovered(wolTroubles, t)
    <3> DEFINE n == wolNow + wolLoop.left
    <3>1. /\ x <= n /\ n - x <= WolSuspended(wolTroubles)
          /\ x < n => \E s \in wolTroubles : s.from <= wolNow /\ n <= s.to + WolDayLength
          /\ \A t \in x..(wolNow - 1) : WolCovered(wolTroubles, t)
      <4> DEFINE m == wolLoop.left
      <4>1. /\ x <= wolNow + m /\ wolNow + m - x <= WolSuspended(wolTroubles)
            /\ x < wolNow + m => \E s \in wolTroubles : s.from <= wolNow /\ wolNow + m <= s.to + WolDayLength
            /\ \A t \in x..(wolNow - 1) : WolCovered(wolTroubles, t)
        BY <2>3 DEF WolHeld
      <4>2. m \in Nat /\ wolNow \in Nat /\ x \in Nat
        BY <1>1
      <4>3. wolNow + m - x = n - x
        <5> HIDE DEF m, x
        <5>1. n = wolNow + m
          BY DEF m
        <5> HIDE DEF n
        <5> QED BY <4>2, <5>1
      <4> HIDE DEF x
      <4> QED BY <4>1, <4>3
    <3>2. n = wolNow
      BY <1>1, <2>0
    <3> HIDE DEF x, n
    <3> QED BY <3>1, <3>2
  <2>5. wolLoop' \in [pc : {"none", "day", "plan", "wait", "fire", "sleep"}, left : 0..WolDayLength,
                      at : Nat, plan : [from : Nat, to : Nat, every : Nat \ {0}]]
    <3> HIDE DEF x, p
    <3> QED BY <1>1, <2>1
  <2>6. D = WolDayOf(wolLoop'.plan.from)
    BY <2>2
  <2>7. WolLoopInv'
    <3> HIDE DEF D, p, x
    <3> QED BY <1>1, <1>2, <1>4, <1>7, <2>2, <2>3, <2>4, <2>5, <2>6 DEF WolLoopInv
  <2>8. WolLifeInv'
    <3>1. WolLifeInv /\ wolLoop.pc # "none"
      BY <1>7 DEF WolInv
    <3> QED BY <1>2, <2>2, <3>1 DEF WolLifeInv
  <2>9. ASSUME ~wolCancelled
        PROVE  /\ p = WolPlan(wolLive, D)
               /\ WolDone(wolLive, wolSince, wolSent, wolTroubles, x)
               /\ \A s \in wolSent : WolPunctual(s.when, wolSince, wolTroubles, s.tick, wolLive.every)
               /\ Cardinality(WolLateOnes(wolSent, wolLive.every)) + (IF WolHeldUp THEN 1 ELSE 0)
                    <= Cardinality(wolTroubles)
    BY <1>7, <2>9 DEF WolInv, WolServedInv
  <2>10. ASSUME ~wolCancelled
         PROVE  /\ WolDone(wolLive, wolSince, wolSent, wolTroubles, wolNow)
                /\ WolNear(wolNow, wolTroubles, D)
                /\ WolPunctual(wolNow, wolSince, wolTroubles, x, p.every)
                /\ WolPassed(wolNow, wolSent, p, x)
    <3> HIDE DEF D, p, x, E
    <3>1. WolDone(wolLive, wolSince, wolSent, wolTroubles, wolNow)
      BY <1>1, <2>4, <2>9, <2>10, WolDoneHeld
    <3>2. WolNear(wolNow, wolTroubles, D)
      <4> SUFFICES ASSUME WolStart[D + 1] <= wolNow
                   PROVE  \E s \in wolTroubles : s.from <= wolNow /\ WolStart[E] <= s.to + WolDayLength
        BY DEF WolNear, E
      <4>1. x < wolNow
        BY <1>1, <2>3
      <4>2. PICK s \in wolTroubles : s.from <= wolNow /\ wolNow <= s.to + WolDayLength
        BY <2>4, <4>1
      <4>3. WolStart[E] <= s.to + WolDayLength
        BY <1>1, <4>2
      <4> QED BY <4>2, <4>3
    <3>3. WolPunctual(wolNow, wolSince, wolTroubles, x, p.every)
      BY <2>4 DEF WolPunctual
    <3>4. WolPassed(wolNow, wolSent, p, x)
      <4> SUFFICES ASSUME NEW t \in WolTicks(p), t < x PROVE t < wolNow
        BY DEF WolPassed
      <4>1. t \in Nat
        BY <1>1, WolTicksOnGrid
      <4> QED BY <1>1, <2>4, <4>1
    <3> QED BY <3>1, <3>2, <3>3, <3>4
  <2>11. WolHeldUp' = WolHeldUp
    <3>1. WolHeldUp = (wolNow > x + p.every)
      <4> DEFINE m == wolLoop.left
                 c == wolLoop.pc
      <4>1. WolHeldUp = ((c = "wait" /\ wolNow + m > x + p.every) \/ (c = "fire" /\ wolNow > x + p.every))
        BY DEF WolHeldUp
      <4>2. m = 0 /\ c = "wait" /\ wolNow + m = wolNow
        BY <1>1, <1>7, <2>0
      <4> HIDE DEF m, c, x, p
      <4> QED BY <4>1, <4>2
    <3>2. WolHeldUp' = (wolNow > x + p.every)
      <4>1. WolHeldUp' = (wolLoop'.pc = "fire" /\ wolNow > x + p.every)
        BY <1>2, <2>2 DEF WolHeldUp
      <4> QED BY <2>2, <4>1
    <3> QED BY <3>1, <3>2
  <2>12. WolServedInv'
    <3>1. SUFFICES ASSUME ~wolCancelled PROVE WolServedInv'
      BY <1>2 DEF WolServedInv
    <3>2. (Cardinality(WolLateOnes(wolSent, wolLive.every)) + (IF WolHeldUp THEN 1 ELSE 0)
             <= Cardinality(wolTroubles))'
      BY <1>2, <2>9, <2>11, <3>1
    <3>3. (wolLoop.plan = WolPlan(wolLive, WolDayOf(wolLoop.plan.from)))'
      BY <1>2, <2>2, <2>6, <2>9, <3>1
    <3>4. D' = D /\ p' = p /\ x' = x
      BY <2>2
    <3> HIDE DEF D, p, x
    <3>5. (/\ WolDone(wolLive, wolSince, wolSent, wolTroubles, wolNow)
           /\ WolNear(wolNow, wolTroubles, D)
           /\ WolPunctual(wolNow, wolSince, wolTroubles, x, p.every)
           /\ WolPassed(wolNow, wolSent, p, x)
           /\ \A s \in wolSent : WolPunctual(s.when, wolSince, wolTroubles, s.tick, wolLive.every))'
      BY <1>2, <2>9, <2>10, <3>1, <3>4
    <3> QED BY <2>2, <3>2, <3>3, <3>5 DEF WolServedInv, D, p, x
  <2> QED BY <1>6, <2>7, <2>8, <2>12 DEF WolInv
<1>8. CASE wolLoop.pc = "sleep" /\ wolLoop.left <= 0
           /\ wolLoop' = [wolLoop EXCEPT !.pc = IF @ = "wait" THEN "fire" ELSE "day"]
  <2>0. wolLoop.left = 0
    BY <1>1, <1>8
  <2>1. wolLoop' = [pc |-> "day", left |-> 0, at |-> x, plan |-> p]
    <3> DEFINE c == wolLoop.pc
               m == wolLoop.left
    <3>1. wolLoop = [pc |-> c, left |-> m, at |-> x, plan |-> p] /\ c = "sleep" /\ m = 0
      BY <1>1, <1>8, <2>0
    <3>2. wolLoop' = [wolLoop EXCEPT !.pc = IF @ = "wait" THEN "fire" ELSE "day"]
      BY <1>8
    <3> HIDE DEF x, p, c, m
    <3> QED BY <3>1, <3>2
  <2>2. wolLoop'.pc = "day" /\ wolLoop'.left = 0 /\ wolLoop'.at = x /\ wolLoop'.plan = p
    BY <2>1
  <2>3. PICK e \in (D + 1)..WolDays :
             /\ WolHeld(wolNow, wolLoop.left, wolTroubles, WolStart[e])
             /\ ~wolCancelled => WolDone(wolLive, wolSince, wolSent, wolTroubles, WolStart[e])
    BY <1>8 DEF WolInv, WolLoopInv
  <2> DEFINE u == WolStart[e]
  <2>4. /\ u <= wolNow /\ wolNow - u <= WolSuspended(wolTroubles)
        /\ \A t \in u..(wolNow - 1) : WolCovered(wolTroubles, t)
    <3> DEFINE n == wolNow + wolLoop.left
    <3>1. /\ u <= n /\ n - u <= WolSuspended(wolTroubles)
          /\ \A t \in u..(wolNow - 1) : WolCovered(wolTroubles, t)
      <4> DEFINE m == wolLoop.left
      <4>1. /\ u <= wolNow + m /\ wolNow + m - u <= WolSuspended(wolTroubles)
            /\ \A t \in u..(wolNow - 1) : WolCovered(wolTroubles, t)
        BY <2>3 DEF WolHeld
      <4>2. m \in Nat /\ wolNow \in Nat /\ u \in Nat
        BY <1>1, <2>3, WolStartIs
      <4>3. wolNow + m - u = n - u
        <5> HIDE DEF m, u
        <5>1. n = wolNow + m
          BY DEF m
        <5> HIDE DEF n
        <5> QED BY <4>2, <5>1
      <4> HIDE DEF u
      <4> QED BY <4>1, <4>3
    <3>2. n = wolNow
      BY <1>1, <2>0
    <3> HIDE DEF u, n
    <3> QED BY <3>1, <3>2
  <2>5. wolLoop' \in [pc : {"none", "day", "plan", "wait", "fire", "sleep"}, left : 0..WolDayLength,
                      at : Nat, plan : [from : Nat, to : Nat, every : Nat \ {0}]]
    <3> HIDE DEF x, p
    <3> QED BY <1>1, <2>1
  <2>6. D = WolDayOf(wolLoop'.plan.from)
    BY <2>2
  <2>7. u <= WolStart[E] /\ u \in Nat /\ WolStart[D + 1] <= u
    <3>1. e \in 0..WolDays /\ e \in 0..(WolDays + 1) /\ (D + 1) \in 0..(WolDays + 1) /\ D + 1 <= e
      <4> HIDE DEF D
      <4> QED BY <1>1, <2>3
    <3>2. u <= WolStart[E] /\ u \in Nat
      BY <1>1, <2>4, <3>1, WolDaysGo
    <3> DEFINE z == D + 1
    <3>3. WolStart[z] <= WolStart[e]
      <4> HIDE DEF z
      <4> QED BY <3>1, WolStartGrows DEF z
    <3> QED BY <3>2, <3>3
  <2>8. \A s \in wolSent : s.tick < WolStart[E]
    <3> HIDE DEF D, E, u, p, x
    <3> QED BY <1>1, <1>4, <1>5, <1>8, <2>7
  <2>9. WolLoopInv'
    <3>1. (\A s \in wolSent : s.tick < WolStart[WolDayOf(wolNow)])'
      BY <1>2, <2>8
    <3>2. (WolPlanOn(wolLoop.plan, WolDayOf(wolLoop.plan.from)))'
      BY <1>1, <2>2
    <3> QED BY <2>2, <2>5, <3>1, <3>2 DEF WolLoopInv
  <2>10. WolLifeInv'
    <3>1. WolLifeInv /\ wolLoop.pc # "none"
      BY <1>8 DEF WolInv
    <3> QED BY <1>2, <2>2, <3>1 DEF WolLifeInv
  <2>11. ASSUME ~wolCancelled
         PROVE  /\ WolDone(wolLive, wolSince, wolSent, wolTroubles, u)
                /\ \A s \in wolSent : WolPunctual(s.when, wolSince, wolTroubles, s.tick, wolLive.every)
                /\ Cardinality(WolLateOnes(wolSent, wolLive.every)) + (IF WolHeldUp THEN 1 ELSE 0)
                     <= Cardinality(wolTroubles)
    BY <1>8, <2>3, <2>11 DEF WolInv, WolServedInv
  <2>12. ASSUME ~wolCancelled PROVE WolDone(wolLive, wolSince, wolSent, wolTroubles, wolNow)
    <3> HIDE DEF u
    <3> QED BY <1>1, <2>4, <2>7, <2>11, <2>12, WolDoneHeld
  <2>13. wolNow - WolStart[E] <= WolSuspended(wolTroubles)
    <3> HIDE DEF u, E
    <3> QED BY <1>1, <2>4, <2>7
  <2>14. ~WolHeldUp /\ ~WolHeldUp'
    BY <1>8, <2>2 DEF WolHeldUp
  <2>15. WolServedInv'
    <3>1. SUFFICES ASSUME ~wolCancelled PROVE WolServedInv'
      BY <1>2 DEF WolServedInv
    <3>2. (Cardinality(WolLateOnes(wolSent, wolLive.every)) + (IF WolHeldUp THEN 1 ELSE 0)
             <= Cardinality(wolTroubles))'
      <4>1. (IF WolHeldUp THEN 1 ELSE 0) = 0 /\ (IF WolHeldUp THEN 1 ELSE 0)' = 0
        BY <2>14
      <4> QED BY <1>2, <2>11, <3>1, <4>1
    <3>3. (wolNow - WolStart[WolDayOf(wolNow)] <= WolSuspended(wolTroubles))'
      BY <1>2, <2>13
    <3>4. (/\ WolDone(wolLive, wolSince, wolSent, wolTroubles, wolNow)
           /\ \A s \in wolSent : WolPunctual(s.when, wolSince, wolTroubles, s.tick, wolLive.every))'
      BY <1>2, <2>11, <2>12, <3>1
    <3> QED BY <2>2, <3>2, <3>3, <3>4 DEF WolServedInv
  <2> QED BY <1>6, <2>9, <2>10, <2>15 DEF WolInv
<1> QED BY <1>3, <1>7, <1>8 DEF WolWoken

\* A tick is fired, and the next one that is still to come is waited for.
LEMMA WolFireStep ==
    ASSUME WolInv, WolFire PROVE WolInv'
<1> USE WolConstants
<1> DEFINE D == WolDayOf(wolLoop.plan.from)
           p == wolLoop.plan
           x == wolLoop.at
           o == [tick |-> x, when |-> wolNow]
           more == wolSent \union {o}
           y == x + p.every
           e == wolLive.every
           old == WolLateOnes(wolSent, e)
           new == WolLateOnes(more, e)
<1>1. /\ WolSpans(wolNow, wolTroubles) /\ wolNow \in Nat /\ wolSince \in Nat /\ wolSince <= wolNow
      /\ wolNow < WolStart[WolDays] /\ WolStart[WolDays] \in Nat
      /\ WolSuspended(wolTroubles) \in Nat /\ Cardinality(wolTroubles) \in Nat
      /\ wolLive \in WolAll
      /\ wolLoop.left \in 0..WolDayLength /\ x \in Nat
      /\ p \in [from : Nat, to : Nat, every : Nat \ {0}]
      /\ p.from \in Nat /\ p.to \in Nat /\ p.every \in Nat \ {0}
      /\ WolPlanOn(p, D) /\ D \in 0..(WolDays - 1)
      /\ WolStart[D] \in Nat /\ WolStart[D + 1] \in Nat /\ p.to < WolStart[D + 1]
      /\ wolLoop = [pc |-> wolLoop.pc, left |-> wolLoop.left, at |-> x, plan |-> p]
  <2>1. WolDays \in 0..(WolDays + 1)
    OBVIOUS
  <2> QED BY <2>1, WolStateIs, WolStartIs
<1>2. /\ wolLoop.pc = "fire" /\ wolSent' = more
      /\ UNCHANGED <<wolNow, wolTroubles, wolConf, wolLive, wolClosed, wolLife, wolGen,
                     wolSince, wolCancelled>>
  BY DEF WolFire, WolRest, WolLoopAt
<1>3. wolLoop' = [pc |-> "plan", left |-> wolLoop.left, at |-> y, plan |-> p]
  <2>1. wolLoop' = [wolLoop EXCEPT !.pc = "plan", !.at = @ + wolLoop.plan.every]
    BY DEF WolFire
  <2> DEFINE c == wolLoop.pc
             m == wolLoop.left
             i == wolLoop.plan.every
  <2>2. wolLoop = [pc |-> c, left |-> m, at |-> x, plan |-> p]
    BY <1>1
  <2>3. wolLoop' = [wolLoop EXCEPT !.pc = "plan", !.at = @ + i]
    BY <2>1
  <2>4. wolLoop' = [pc |-> "plan", left |-> m, at |-> x + i, plan |-> p]
    <3> HIDE DEF x, p, c, m, i
    <3> QED BY <2>2, <2>3
  <2> QED BY <2>4
<1>4. wolLoop'.pc = "plan" /\ wolLoop'.left = wolLoop.left /\ wolLoop'.at = y /\ wolLoop'.plan = p
  <2> HIDE DEF p, y
  <2> QED BY <1>3
<1>5. /\ WolStart[D] <= wolNow /\ p.from <= x /\ WolOnGrid(x, p)
      /\ \A s \in wolSent : s.tick < x /\ s.tick < WolStart[D + 1]
      /\ x <= wolNow /\ x <= p.to
  BY <1>2 DEF WolInv, WolLoopInv
<1>6. y \in Nat /\ x < y /\ p.from <= y /\ x < WolStart[D + 1] /\ x < WolStart[WolDays]
  <2>1. y \in Nat /\ x < y /\ p.from <= y
    <3> DEFINE i == p.every
    <3> HIDE DEF x, i
    <3> QED BY <1>1, <1>5 DEF i
  <2>2. WolStart[D + 1] <= WolStart[WolDays]
    BY <1>1, WolPlanDay
  <2> HIDE DEF x, y, D, p
  <2> QED BY <1>1, <1>5, <2>1, <2>2
<1>7. WolOnGrid(y, p)
  <2>1. PICK k \in Nat : x = p.from + k * p.every
    BY <1>5 DEF WolOnGrid
  <2> DEFINE i == p.every
             b == p.from
             j == k + 1
  <2>2. i \in Nat /\ b \in Nat /\ x = b + k * i /\ y = x + i
    BY <1>1, <2>1
  <2> HIDE DEF i, b, x, y
  <2>3. k * i \in Nat /\ (k + 1) * i = k * i + i
    BY <2>2
  <2>4. y = b + (k + 1) * i /\ k + 1 \in Nat
    BY <2>2, <2>3
  <2>5. y = p.from + j * p.every /\ j \in Nat
    BY <2>4 DEF i, b
  <2> QED BY <2>5 DEF WolOnGrid
<1>8. IsFiniteSet(wolSent) /\ (\A s \in wolSent : s \in [tick : Nat, when : Nat] /\ s.tick <= s.when
         /\ s.when <= wolNow /\ s.tick < WolStart[WolDays] /\ s.tick \in Nat /\ s.when \in Nat)
      /\ (\A s, u \in wolSent : u.tick = s.tick => u = s)
  BY DEF WolInv, WolSentInv
<1>9. o.tick = x /\ o.when = wolNow /\ o \in [tick : Nat, when : Nat] /\ o \notin wolSent
  <2>1. o.tick = x /\ o.when = wolNow
    OBVIOUS
  <2>2. o \in [tick : Nat, when : Nat]
    BY <1>1
  <2>3. o \notin wolSent
    <3> HIDE DEF o, x
    <3> QED BY <1>1, <1>5, <2>1
  <2> QED BY <2>1, <2>2, <2>3
<1> HIDE DEF o
<1>10. WolSentInv'
  <2>1. IsFiniteSet(more)
    BY <1>8, SizeOf
  <2>2. \A s \in more : /\ s \in [tick : Nat, when : Nat] /\ s.tick <= s.when /\ s.when <= wolNow
                        /\ s.tick < WolStart[WolDays]
    <3> HIDE DEF x
    <3> QED BY <1>1, <1>5, <1>6, <1>8, <1>9
  <2>3. \A s, u \in more : u.tick = s.tick => u = s
    <3> HIDE DEF x
    <3> QED BY <1>1, <1>5, <1>8, <1>9
  <2> HIDE DEF more
  <2> QED BY <1>2, <2>1, <2>2, <2>3 DEF WolSentInv
<1>11. WolClockInv'
  BY <1>2 DEF WolInv, WolClockInv
<1>12. WolLifeInv'
  <2>1. WolLifeInv /\ wolLoop.pc # "none"
    BY <1>2 DEF WolInv
  <2> QED BY <1>2, <1>4, <2>1 DEF WolLifeInv
<1>13. WolLoopInv'
  <2>1. \A s \in more : s.tick < y /\ s.tick < WolStart[D + 1]
    <3> HIDE DEF x, y, D
    <3> QED BY <1>1, <1>5, <1>6, <1>8, <1>9
  <2>2. wolLoop' \in [pc : {"none", "day", "plan", "wait", "fire", "sleep"}, left : 0..WolDayLength,
                      at : Nat, plan : [from : Nat, to : Nat, every : Nat \ {0}]]
    <3> HIDE DEF y, p
    <3> QED BY <1>1, <1>3, <1>6
  <2>3. D = WolDayOf(wolLoop'.plan.from)
    BY <1>4
  <2> HIDE DEF D, p, y, x, more
  <2> QED BY <1>1, <1>2, <1>4, <1>5, <1>6, <1>7, <2>1, <2>2, <2>3 DEF WolLoopInv
<1>14. SUFFICES ASSUME ~wolCancelled PROVE WolServedInv'
  <2>1. CASE wolCancelled
    <3>1. WolServedInv'
      BY <1>2, <2>1 DEF WolServedInv
    <3> QED BY <1>10, <1>11, <1>12, <1>13, <3>1 DEF WolInv
  <2>2. CASE ~wolCancelled
    <3>1. WolServedInv'
      BY <1>14, <2>2
    <3> QED BY <1>10, <1>11, <1>12, <1>13, <3>1 DEF WolInv
  <2> QED BY <2>1, <2>2
<1>15. /\ p = WolPlan(wolLive, D)
       /\ WolDone(wolLive, wolSince, wolSent, wolTroubles, wolNow)
       /\ WolNear(wolNow, wolTroubles, D)
       /\ WolPunctual(wolNow, wolSince, wolTroubles, x, p.every)
       /\ WolPassed(wolNow, wolSent, p, x)
       /\ \A s \in wolSent : WolPunctual(s.when, wolSince, wolTroubles, s.tick, e)
       /\ Cardinality(old) + (IF WolHeldUp THEN 1 ELSE 0) <= Cardinality(wolTroubles)
  BY <1>2, <1>14 DEF WolInv, WolServedInv
<1>16. p.every = e /\ e \in Nat \ {0}
  <2> HIDE DEF D, p
  <2>1. WolPlan(wolLive, D).every = wolLive.every
    BY <1>1, WolPlanIs
  <2> QED BY <1>1, <1>15, <2>1
<1> HIDE DEF e
<1>17. WolDone(wolLive, wolSince, more, wolTroubles, wolNow)
  BY <1>15, WolDoneMore
<1>18. WolPunctual(wolNow, wolSince, wolTroubles, y, p.every)
  <2> DEFINE i == p.every
  <2>1. i \in Nat /\ y = x + i
    BY <1>1
  <2>2. WolPunctual(wolNow, wolSince, wolTroubles, x, i)
    BY <1>15
  <2> HIDE DEF i, x, y
  <2>3. WolPunctual(wolNow, wolSince, wolTroubles, y, i)
    BY <1>1, <2>1, <2>2 DEF WolPunctual
  <2> QED BY <2>3 DEF i
<1>19. WolPassed(wolNow, more, p, y)
  <2> SUFFICES ASSUME NEW t \in WolTicks(p), t < y PROVE t < wolNow \/ WolFired(more, t)
    BY DEF WolPassed
  <2>1. t \in Nat /\ WolOnGrid(t, p)
    <3> HIDE DEF p
    <3> QED BY <1>1, WolTicksOnGrid
  <2>2. CASE t < x
    <3>1. t < wolNow
      <4> HIDE DEF x
      <4> QED BY <1>1, <1>5, <2>1, <2>2
    <3> QED BY <3>1
  <2>3. CASE t = x
    BY <1>9, <2>3 DEF WolFired
  <2>4. CASE x < t
    <3>1. x + p.every <= t
      <4> HIDE DEF x, p
      <4> QED BY <1>1, <1>5, <2>1, <2>4, WolGridSteps
    <3>2. FALSE
      <4> DEFINE i == p.every
      <4>1. y = x + i /\ x + i <= t
        BY <3>1
      <4> HIDE DEF i, x, y
      <4> QED BY <1>6, <2>1, <4>1
    <3> QED BY <3>2
  <2> HIDE DEF x
  <2> QED BY <1>1, <2>1, <2>2, <2>3, <2>4
<1>20. \A s \in more : WolPunctual(s.when, wolSince, wolTroubles, s.tick, e)
  <2>1. WolPunctual(o.when, wolSince, wolTroubles, o.tick, e)
    BY <1>9, <1>15, <1>16
  <2> HIDE DEF x
  <2> QED BY <1>15, <2>1
<1>21. Cardinality(new) <= Cardinality(wolTroubles) /\ Cardinality(new) \in Nat
  <2>1. IsFiniteSet(old) /\ Cardinality(old) \in Nat
    <3>1. old \subseteq wolSent
      BY DEF WolLateOnes
    <3> QED BY <1>8, <3>1, FS_Subset, FS_CardinalityType
  <2>2. CASE wolNow > x + e
    <3>1. WolHeldUp
      BY <1>2, <1>16, <2>2 DEF WolHeldUp
    <3>2. new = old \union {o}
      BY <1>9, <2>2 DEF WolLateOnes
    <3>3. Cardinality(old) + 1 <= Cardinality(wolTroubles)
      BY <1>15, <3>1
    <3> HIDE DEF old, new
    <3>4. IsFiniteSet(new) /\ Cardinality(new) <= Cardinality(old) + 1
      BY <2>1, <3>2, SizeOf
    <3>5. Cardinality(new) \in Nat
      BY <3>4, FS_CardinalityType
    <3> DEFINE a == Cardinality(old)
               b == Cardinality(new)
               c == Cardinality(wolTroubles)
    <3>6. a \in Nat /\ b \in Nat /\ c \in Nat /\ a + 1 <= c /\ b <= a + 1
      BY <1>1, <2>1, <3>3, <3>4, <3>5
    <3> HIDE DEF a, b, c
    <3>7. b <= c /\ b \in Nat
      BY <3>6
    <3> QED BY <3>7 DEF b, c
  <2>3. CASE ~(wolNow > x + e)
    <3>1. new = old
      BY <1>9, <2>3 DEF WolLateOnes
    <3>2. (IF WolHeldUp THEN 1 ELSE 0) \in Nat
      OBVIOUS
    <3> HIDE DEF old, new
    <3> QED BY <1>1, <1>15, <2>1, <3>1, <3>2
  <2> QED BY <2>2, <2>3
<1>22. ~WolHeldUp'
  BY <1>4 DEF WolHeldUp
<1>23. (Cardinality(WolLateOnes(wolSent, wolLive.every)) + (IF WolHeldUp THEN 1 ELSE 0)
          <= Cardinality(wolTroubles))'
  <2>2. Cardinality(WolLateOnes(wolSent', wolLive'.every)) = Cardinality(new)
    BY <1>2 DEF e
  <2> HIDE DEF new
  <2>3. Cardinality(WolLateOnes(wolSent', wolLive'.every)) + 0 <= Cardinality(wolTroubles')
    BY <1>2, <1>21, <2>2
  <2> QED BY <1>22, <2>3
<1>24. D' = D /\ p' = p
  BY <1>4
<1>25. (/\ WolDone(wolLive, wolSince, wolSent, wolTroubles, wolNow)
        /\ WolNear(wolNow, wolTroubles, D)
        /\ WolPunctual(wolNow, wolSince, wolTroubles, wolLoop.at, p.every)
        /\ WolPassed(wolNow, wolSent, p, wolLoop.at)
        /\ \A s \in wolSent : WolPunctual(s.when, wolSince, wolTroubles, s.tick, wolLive.every))'
  <2>1. wolLive'.every = e
    BY <1>2 DEF e
  <2> HIDE DEF D, p, y, more
  <2> QED BY <1>2, <1>4, <1>15, <1>17, <1>18, <1>19, <1>20, <1>24, <2>1
<1>26. (wolLoop.plan = WolPlan(wolLive, WolDayOf(wolLoop.plan.from)))'
  BY <1>2, <1>4, <1>15
<1> HIDE DEF D, p, y, x, more, new, old
<1> QED BY <1>4, <1>23, <1>25, <1>26 DEF WolServedInv, D, p

\* Time passes for the clock and for the sleep.
LEMMA WolPassStep ==
    ASSUME WolInv, WolPass PROVE WolInv'
<1> USE WolConstants
<1> DEFINE D == WolDayOf(wolLoop.plan.from)
           p == wolLoop.plan
           x == wolLoop.at
           c == wolLoop.pc
           m == wolLoop.left
           n == wolNow + 1
           l == IF m > 0 THEN m - 1 ELSE 0
<1>1. /\ WolSpans(wolNow, wolTroubles) /\ wolNow \in Nat /\ wolSince \in Nat /\ wolSince <= wolNow
      /\ \A s \in wolTroubles : s.from \in Nat /\ s.to \in Nat
      /\ wolLive \in WolAll
      /\ m \in 0..WolDayLength /\ x \in Nat
      /\ p \in [from : Nat, to : Nat, every : Nat \ {0}]
      /\ p.every \in Nat /\ c \in {"none", "day", "plan", "wait", "fire", "sleep"}
      /\ WolPlanOn(p, D) /\ D \in 0..(WolDays - 1) /\ WolStart[D] \in Nat
      /\ wolLoop = [pc |-> c, left |-> m, at |-> x, plan |-> p]
  BY WolStateIs
<1>2. /\ n < WolStart[WolDays] /\ wolNow' = n /\ wolSent' = wolSent
      /\ c = "none" \/ (c \in {"wait", "sleep"} /\ m > 0)
      /\ UNCHANGED <<wolTroubles, wolConf, wolLive, wolClosed, wolLife, wolGen, wolSince,
                     wolCancelled>>
  BY DEF WolPass, WolRest, WolLoopAt
<1>3. wolLoop' = [pc |-> c, left |-> l, at |-> x, plan |-> p]
  <2>1. wolLoop' = [wolLoop EXCEPT !.left = IF @ > 0 THEN @ - 1 ELSE 0]
    BY DEF WolPass
  <2>2. wolLoop = [pc |-> c, left |-> m, at |-> x, plan |-> p]
    BY <1>1
  <2> HIDE DEF p, x, c, m
  <2> QED BY <2>1, <2>2
<1>4. n \in Nat /\ wolNow <= n /\ l \in 0..WolDayLength
  <2> HIDE DEF m
  <2> QED BY <1>1
<1> HIDE DEF l
<1>5. wolLoop'.pc = c /\ wolLoop'.left = l /\ wolLoop'.at = x /\ wolLoop'.plan = p
  <2> HIDE DEF p, x, c
  <2> QED BY <1>3
<1>6. WolClockInv'
  <2>1. \A s \in wolTroubles : s \in [from : Nat, to : Nat] /\ s.from < s.to /\ s.to <= n /\ IsFiniteSet(wolTroubles)
    <3>1. \A s \in wolTroubles : s \in [from : Nat, to : Nat] /\ s.from < s.to /\ s.to <= wolNow /\ IsFiniteSet(wolTroubles)
      BY <1>1 DEF WolSpans
    <3> HIDE DEF n
    <3> QED BY <1>1, <1>4, <3>1
  <2>2. IsFiniteSet(wolTroubles) /\ wolGen \in 0..WolMaxGens /\ wolSince <= n
    BY <1>1 DEF WolInv, WolClockInv, WolSpans
  <2> HIDE DEF n
  <2> QED BY <1>1, <1>2, <1>4, <2>1, <2>2 DEF WolClockInv, WolSpans
<1>7. WolLifeInv'
  <2>1. WolLifeInv
    BY DEF WolInv
  <2> QED BY <1>2, <1>5, <2>1 DEF WolLifeInv
<1>8. WolSentInv'
  <2>1. \A s \in wolSent : s.when \in Nat /\ s.when <= wolNow
    BY DEF WolInv, WolSentInv
  <2>2. \A s \in wolSent : s.when <= n
    <3> HIDE DEF n
    <3> QED BY <1>1, <1>4, <2>1
  <2>3. WolSentInv
    BY DEF WolInv
  <2> HIDE DEF n
  <2> QED BY <1>2, <2>2, <2>3 DEF WolSentInv
<1>9. ASSUME m > 0, NEW due \in Nat, WolHeld(wolNow, m, wolTroubles, due)
      PROVE  WolHeld(n, l, wolTroubles, due)
  <2>1. l = m - 1 /\ m \in Nat \ {0}
    BY <1>1, <1>9 DEF l
  <2>2. WolHeld(wolNow + 1, m - 1, wolTroubles, due)
    <3> HIDE DEF m
    <3> QED BY <1>1, <1>9, <2>1, WolHeldPasses
  <2> QED BY <2>1, <2>2
<1>10. WolLoopInv'
  <2>1. wolLoop' \in [pc : {"none", "day", "plan", "wait", "fire", "sleep"}, left : 0..WolDayLength,
                      at : Nat, plan : [from : Nat, to : Nat, every : Nat \ {0}]]
    <3> HIDE DEF x, p, c
    <3> QED BY <1>1, <1>3, <1>4
  <2>2. D' = D /\ p' = p /\ x' = x /\ c' = c
    BY <1>5
  <2>3. c \in {"wait", "sleep"} =>
           /\ WolStart[D] <= wolNow /\ p.from <= x /\ WolOnGrid(x, p)
           /\ \A s \in wolSent : s.tick < x /\ s.tick < WolStart[D + 1]
    BY DEF WolInv, WolLoopInv
  <2>4. c \in {"wait", "sleep"} => WolStart[D] <= n
    <3> HIDE DEF n, D, c
    <3> QED BY <1>1, <1>4, <2>3
  <2>5. c = "wait" => x <= p.to /\ WolHeld(n, l, wolTroubles, x)
    <3>1. c = "wait" => x <= p.to /\ WolHeld(wolNow, m, wolTroubles, x)
      BY DEF WolInv, WolLoopInv
    <3> HIDE DEF c, x, p, n, m
    <3> QED BY <1>1, <1>2, <1>9, <3>1
  <2>6. c = "sleep" =>
          \E e \in (D + 1)..WolDays :
             /\ WolHeld(n, l, wolTroubles, WolStart[e])
             /\ ~wolCancelled => WolDone(wolLive, wolSince, wolSent, wolTroubles, WolStart[e])
    <3> SUFFICES ASSUME c = "sleep"
                 PROVE  \E e \in (D + 1)..WolDays :
                          /\ WolHeld(n, l, wolTroubles, WolStart[e])
                          /\ ~wolCancelled => WolDone(wolLive, wolSince, wolSent, wolTroubles, WolStart[e])
      OBVIOUS
    <3>1. PICK e \in (D + 1)..WolDays :
             /\ WolHeld(wolNow, m, wolTroubles, WolStart[e])
             /\ ~wolCancelled => WolDone(wolLive, wolSince, wolSent, wolTroubles, WolStart[e])
      BY DEF WolInv, WolLoopInv
    <3>2. e \in 0..(WolDays + 1)
      <4> HIDE DEF D
      <4> QED BY <1>1, <3>1
    <3>3. WolStart[e] \in Nat
      BY <3>2, WolStartIs
    <3> HIDE DEF c, x, p, n, m, D
    <3>4. WolHeld(n, l, wolTroubles, WolStart[e])
      BY <1>2, <1>9, <3>1, <3>3
    <3> QED BY <3>1, <3>4
  <2>7. c \in {"none", "wait", "sleep"}
    BY <1>2
  <2>8. (c = "sleep" =>
          \E e \in (D + 1)..WolDays :
             /\ WolHeld(wolNow, m, wolTroubles, WolStart[e])
             /\ ~wolCancelled => WolDone(wolLive, wolSince, wolSent, wolTroubles, WolStart[e]))'
    <3> HIDE DEF c, x, p, n, D
    <3> QED BY <1>2, <1>5, <2>2, <2>6
  <2>9. (/\ WolPlanOn(p, D)
         /\ c \in {"wait", "sleep"} =>
              /\ WolStart[D] <= wolNow /\ p.from <= x /\ WolOnGrid(x, p)
              /\ \A s \in wolSent : s.tick < x /\ s.tick < WolStart[D + 1]
         /\ c = "wait" => x <= p.to /\ WolHeld(wolNow, m, wolTroubles, x))'
    <3> HIDE DEF c, x, p, n, D
    <3> QED BY <1>1, <1>2, <1>5, <2>2, <2>3, <2>4, <2>5
  <2>10. (c \in {"none", "wait", "sleep"})'
    <3> HIDE DEF c
    <3> QED BY <2>2, <2>7
  <2> QED BY <2>1, <2>8, <2>9, <2>10 DEF WolLoopInv
<1>11. WolHeldUp' = WolHeldUp
  <2>1. n + l = wolNow + m \/ c = "none"
    <3> HIDE DEF m, c
    <3> QED BY <1>1, <1>2 DEF l
  <2>2. WolHeldUp = (c = "wait" /\ wolNow + m > x + p.every)
    BY <1>2 DEF WolHeldUp
  <2>3. WolHeldUp' = (c = "wait" /\ n + l > x + p.every)
    <3> HIDE DEF n
    <3> QED BY <1>2, <1>5 DEF WolHeldUp
  <2> HIDE DEF c, x, p, m, n
  <2> QED BY <2>1, <2>2, <2>3
<1>12. WolServedInv'
  <2> SUFFICES ASSUME ~wolCancelled PROVE WolServedInv'
    BY <1>2 DEF WolServedInv
  <2>1. /\ c \in {"wait", "sleep"} => p = WolPlan(wolLive, D)
        /\ c = "wait" => WolDone(wolLive, wolSince, wolSent, wolTroubles, x)
        /\ \A s \in wolSent : WolPunctual(s.when, wolSince, wolTroubles, s.tick, wolLive.every)
        /\ Cardinality(WolLateOnes(wolSent, wolLive.every)) + (IF WolHeldUp THEN 1 ELSE 0)
             <= Cardinality(wolTroubles)
    BY DEF WolInv, WolServedInv
  <2>2. D' = D /\ p' = p /\ x' = x /\ c' = c
    BY <1>5
  <2>3. (/\ c \in {"wait", "sleep"} => p = WolPlan(wolLive, D)
         /\ c = "wait" => WolDone(wolLive, wolSince, wolSent, wolTroubles, x)
         /\ \A s \in wolSent : WolPunctual(s.when, wolSince, wolTroubles, s.tick, wolLive.every)
         /\ Cardinality(WolLateOnes(wolSent, wolLive.every)) + (IF WolHeldUp THEN 1 ELSE 0)
              <= Cardinality(wolTroubles))'
    <3> HIDE DEF c, x, p, D
    <3> QED BY <1>2, <1>11, <2>1, <2>2
  <2>4. c' \in {"none", "wait", "sleep"}
    <3> HIDE DEF c
    <3> QED BY <1>2, <2>2
  <2> QED BY <2>3, <2>4 DEF WolServedInv
<1> QED BY <1>6, <1>7, <1>8, <1>10, <1>12 DEF WolInv

\* The machine is suspended: the clock jumps, and the sleep does not run.
LEMMA WolSuspendStep ==
    ASSUME WolInv, NEW k \in 1..WolDayLength, WolSuspend(k) PROVE WolInv'
<1> USE WolConstants
<1> DEFINE D == WolDayOf(wolLoop.plan.from)
           E == WolDayOf(wolNow)
           p == wolLoop.plan
           x == wolLoop.at
           c == wolLoop.pc
           m == wolLoop.left
           n == wolNow + k
           F == WolDayOf(n)
           o == [from |-> wolNow, to |-> n]
           more == wolTroubles \union {o}
           S == WolSuspended(wolTroubles)
           T == WolSuspended(more)
<1>1. /\ WolSpans(wolNow, wolTroubles) /\ wolNow \in Nat /\ wolSince \in Nat /\ wolSince <= wolNow
      /\ \A s \in wolTroubles : s.from \in Nat /\ s.to \in Nat
      /\ wolLive \in WolAll /\ S \in Nat /\ Cardinality(wolTroubles) \in Nat
      /\ m \in 0..WolDayLength /\ x \in Nat
      /\ p.every \in Nat \ {0} /\ c \in {"none", "day", "plan", "wait", "fire", "sleep"}
      /\ WolPlanOn(p, D) /\ D \in 0..(WolDays - 1) /\ WolStart[D] \in Nat
      /\ E \in 0..(WolDays - 1) /\ WolStart[E] \in Nat /\ WolStart[E] <= wolNow
  BY WolStateIs
<1>2. /\ n < WolStart[WolDays] /\ wolNow' = n /\ wolTroubles' = more
      /\ UNCHANGED <<wolConf, wolLive, wolCancelled, wolClosed, wolLife, wolGen, wolSince,
                     wolLoop, wolSent>>
  BY DEF WolSuspend
<1>3. n \in Nat /\ wolNow < n /\ k \in Nat \ {0} /\ n = wolNow + k
  BY <1>1
<1>4. T = S + k /\ Cardinality(more) = Cardinality(wolTroubles) + 1 /\ IsFiniteSet(more)
  BY <1>1, <1>3, WolSuspendedGrows
<1>5. o.from = wolNow /\ o.to = n /\ o \in [from : Nat, to : Nat] /\ o \in more
  BY <1>1, <1>3
<1>6. F \in 0..(WolDays - 1) /\ WolStart[F] <= n /\ WolStart[F] \in Nat /\ WolStart[E] <= WolStart[F]
  <2>1. F \in 0..(WolDays - 1) /\ WolStart[F] <= n /\ WolStart[F] \in Nat
    <3> HIDE DEF n
    <3> QED BY <1>2, <1>3, WolDayExists
  <2>2. WolStart[E] <= n /\ E \in 0..WolDays
    <3> HIDE DEF n, E
    <3> QED BY <1>1, <1>3
  <2>3. WolStart[E] <= WolStart[F]
    <3> HIDE DEF n, E
    <3> QED BY <1>2, <1>3, <2>2, WolDaysGo
  <2> QED BY <2>1, <2>3
<1> HIDE DEF o, n, F
<1>7. WolClockInv'
  <2>1. \A s \in more : s \in [from : Nat, to : Nat] /\ s.from < s.to /\ s.to <= n
    <3>1. \A s \in wolTroubles : s \in [from : Nat, to : Nat] /\ s.from < s.to /\ s.to <= wolNow
      BY <1>1 DEF WolSpans
    <3> QED BY <1>1, <1>3, <1>5, <3>1
  <2>2. wolGen \in 0..WolMaxGens /\ wolSince <= n
    BY <1>1, <1>3 DEF WolInv, WolClockInv
  <2> HIDE DEF more
  <2> QED BY <1>1, <1>2, <1>3, <1>4, <2>1, <2>2 DEF WolClockInv, WolSpans
<1>8. WolLifeInv'
  <2>1. WolLifeInv
    BY DEF WolInv
  <2> QED BY <1>2, <2>1 DEF WolLifeInv
<1>9. WolSentInv'
  <2>1. \A s \in wolSent : s.when \in Nat /\ s.when <= wolNow
    BY DEF WolInv, WolSentInv
  <2>2. \A s \in wolSent : s.when <= n
    BY <1>1, <1>3, <2>1
  <2>3. WolSentInv
    BY DEF WolInv
  <2> QED BY <1>2, <2>2, <2>3 DEF WolSentInv
<1>10. ASSUME NEW due \in Nat, WolHeld(wolNow, m, wolTroubles, due)
       PROVE  WolHeld(n, m, more, due)
  <2> HIDE DEF m
  <2> QED BY <1>1, <1>3, <1>10, WolHeldSuspends DEF n, o
<1>11. ASSUME NEW limit, WolDone(wolLive, wolSince, wolSent, wolTroubles, limit)
       PROVE  WolDone(wolLive, wolSince, wolSent, more, limit)
  BY <1>11, WolDoneMore
<1>12. ASSUME WolDone(wolLive, wolSince, wolSent, wolTroubles, wolNow)
       PROVE  WolDone(wolLive, wolSince, wolSent, more, n)
  <2>1. WolDone(wolLive, wolSince, wolSent, more, wolNow)
    BY <1>11, <1>12
  <2>2. \A s \in more : s.from \in Nat /\ s.to \in Nat
    BY <1>1, <1>3, <1>5
  <2>3. \A t \in wolNow..(n - 1) : WolCovered(more, t)
    <3> TAKE t \in wolNow..(n - 1)
    <3>1. o.from <= t /\ t <= o.to + WolDayLength
      BY <1>1, <1>3, <1>5
    <3> QED BY <1>5, <3>1 DEF WolCovered
  <2> HIDE DEF more
  <2> QED BY <1>1, <1>3, <2>1, <2>2, <2>3, WolDoneHeld
<1>13. ASSUME NEW at \in Nat, NEW every \in Nat, NEW t \in Nat, t <= n, NEW u \in Nat, u <= wolNow,
              t = u \/ (u = wolNow /\ t = n), WolPunctual(u, wolSince, wolTroubles, at, every)
       PROVE  WolPunctual(t, wolSince, more, at, every)
  <2>1. t - u <= k
    BY <1>1, <1>3, <1>13
  <2>2. \/ u - at <= S
        \/ at < wolSince /\ wolSince <= at + every /\ u - wolSince <= S
    BY <1>13 DEF WolPunctual
  <2>3. \/ t - at <= T
        \/ at < wolSince /\ wolSince <= at + every /\ t - wolSince <= T
    <3> HIDE DEF S, T
    <3> QED BY <1>1, <1>3, <1>4, <2>1, <2>2
  <2> QED BY <2>3 DEF WolPunctual
<1>14. WolNear(n, more, D)
  <2>1. o.from <= n /\ WolStart[F] <= o.to + WolDayLength
    BY <1>1, <1>3, <1>5, <1>6
  <2> QED BY <1>5, <2>1 DEF WolNear, F
<1>15. WolLoopInv'
  <2>1. c = "wait" => x <= p.to /\ WolHeld(n, m, more, x)
    <3>1. c = "wait" => x <= p.to /\ WolHeld(wolNow, m, wolTroubles, x)
      BY DEF WolInv, WolLoopInv
    <3> HIDE DEF x, m, more, c, p
    <3> QED BY <1>1, <1>10, <3>1
  <2>2. c = "sleep" =>
          \E e \in (D + 1)..WolDays :
             /\ WolHeld(n, m, more, WolStart[e])
             /\ ~wolCancelled => WolDone(wolLive, wolSince, wolSent, more, WolStart[e])
    <3> SUFFICES ASSUME c = "sleep"
                 PROVE  \E e \in (D + 1)..WolDays :
                          /\ WolHeld(n, m, more, WolStart[e])
                          /\ ~wolCancelled => WolDone(wolLive, wolSince, wolSent, more, WolStart[e])
      OBVIOUS
    <3>1. PICK e \in (D + 1)..WolDays :
             /\ WolHeld(wolNow, m, wolTroubles, WolStart[e])
             /\ ~wolCancelled => WolDone(wolLive, wolSince, wolSent, wolTroubles, WolStart[e])
      BY DEF WolInv, WolLoopInv
    <3>2. e \in 0..(WolDays + 1)
      <4> HIDE DEF D
      <4> QED BY <1>1, <3>1
    <3>3. WolStart[e] \in Nat
      BY <3>2, WolStartIs
    <3> HIDE DEF c, x, p, m, D, more
    <3>4. WolHeld(n, m, more, WolStart[e])
      BY <1>10, <3>1, <3>3
    <3> QED BY <1>11, <3>1, <3>4
  <2>3. c = "day" => \A s \in wolSent : s.tick < WolStart[F]
    <3>1. c = "day" => \A s \in wolSent : s.tick < WolStart[E]
      BY DEF WolInv, WolLoopInv
    <3>2. \A s \in wolSent : s.tick \in Nat
      BY DEF WolInv, WolSentInv
    <3> HIDE DEF c, E
    <3> QED BY <1>1, <1>6, <3>1, <3>2
  <2>4. c \in {"plan", "wait", "fire", "sleep"} =>
          /\ WolStart[D] <= n /\ p.from <= x /\ WolOnGrid(x, p)
          /\ \A s \in wolSent : s.tick < x /\ s.tick < WolStart[D + 1]
    <3>1. c \in {"plan", "wait", "fire", "sleep"} =>
          /\ WolStart[D] <= wolNow /\ p.from <= x /\ WolOnGrid(x, p)
          /\ \A s \in wolSent : s.tick < x /\ s.tick < WolStart[D + 1]
      BY DEF WolInv, WolLoopInv
    <3> HIDE DEF c, D, p, x
    <3> QED BY <1>1, <1>3, <3>1
  <2>5. c = "fire" => x <= n /\ x <= p.to
    <3>1. c = "fire" => x <= wolNow /\ x <= p.to
      BY DEF WolInv, WolLoopInv
    <3> HIDE DEF c, p, x
    <3> QED BY <1>1, <1>3, <3>1
  <2>6. wolLoop \in [pc : {"none", "day", "plan", "wait", "fire", "sleep"}, left : 0..WolDayLength,
                     at : Nat, plan : [from : Nat, to : Nat, every : Nat \ {0}]]
    BY DEF WolInv, WolLoopInv
  <2>7. D' = D /\ p' = p /\ x' = x /\ c' = c /\ m' = m
    BY <1>2
  <2>8. (/\ wolLoop \in [pc : {"none", "day", "plan", "wait", "fire", "sleep"}, left : 0..WolDayLength,
                         at : Nat, plan : [from : Nat, to : Nat, every : Nat \ {0}]]
         /\ WolPlanOn(p, D)
         /\ c = "day" => \A s \in wolSent : s.tick < WolStart[WolDayOf(wolNow)]
         /\ c \in {"plan", "wait", "fire", "sleep"} =>
              /\ WolStart[D] <= wolNow /\ p.from <= x /\ WolOnGrid(x, p)
              /\ \A s \in wolSent : s.tick < x /\ s.tick < WolStart[D + 1]
         /\ c = "fire" => x <= wolNow /\ x <= p.to
         /\ c = "wait" => x <= p.to /\ WolHeld(wolNow, m, wolTroubles, x)
         /\ c = "sleep" =>
              \E e \in (D + 1)..WolDays :
                /\ WolHeld(wolNow, m, wolTroubles, WolStart[e])
                /\ ~wolCancelled => WolDone(wolLive, wolSince, wolSent, wolTroubles, WolStart[e]))'
    <3> HIDE DEF c, D, p, x, m, more
    <3> QED BY <1>1, <1>2, <2>1, <2>2, <2>3, <2>4, <2>5, <2>6, <2>7 DEF F
  <2> QED BY <2>8 DEF WolLoopInv
<1>16. WolServedInv'
  <2> SUFFICES ASSUME ~wolCancelled PROVE WolServedInv'
    BY <1>2 DEF WolServedInv
  <2>1. /\ c \in {"plan", "wait", "fire", "sleep"} => p = WolPlan(wolLive, D)
        /\ c \in {"day", "plan", "fire"} =>
             WolDone(wolLive, wolSince, wolSent, wolTroubles, wolNow)
        /\ c = "wait" => WolDone(wolLive, wolSince, wolSent, wolTroubles, x)
        /\ c = "day" => wolNow - wolSince <= S \/ wolNow - WolStart[E] <= S
        /\ c \in {"plan", "fire"} =>
             /\ WolPunctual(wolNow, wolSince, wolTroubles, x, p.every)
             /\ WolPassed(wolNow, wolSent, p, x)
        /\ \A s \in wolSent : WolPunctual(s.when, wolSince, wolTroubles, s.tick, wolLive.every)
        /\ Cardinality(WolLateOnes(wolSent, wolLive.every)) + (IF WolHeldUp THEN 1 ELSE 0)
             <= Cardinality(wolTroubles)
    BY DEF WolInv, WolServedInv
  <2>2. c \in {"day", "plan", "fire"} => WolDone(wolLive, wolSince, wolSent, more, n)
    BY <1>12, <2>1
  <2>3. c = "wait" => WolDone(wolLive, wolSince, wolSent, more, x)
    BY <1>11, <2>1
  <2>4. c = "day" => n - wolSince <= T \/ n - WolStart[F] <= T
    <3>1. c = "day" => wolNow - wolSince <= S \/ wolNow - WolStart[E] <= S
      BY <2>1
    <3> HIDE DEF c, E, S, T
    <3> QED BY <1>1, <1>3, <1>4, <1>6, <3>1
  <2>5. c \in {"plan", "fire"} =>
             /\ WolPunctual(n, wolSince, more, x, p.every)
             /\ WolPassed(n, wolSent, p, x)
    <3> SUFFICES ASSUME c \in {"plan", "fire"}
                 PROVE  /\ WolPunctual(n, wolSince, more, x, p.every)
                        /\ WolPassed(n, wolSent, p, x)
      OBVIOUS
    <3>1. WolPunctual(wolNow, wolSince, wolTroubles, x, p.every) /\ WolPassed(wolNow, wolSent, p, x)
      BY <2>1
    <3> HIDE DEF x, p, more, c
    <3>2. wolNow <= wolNow /\ n <= n
      BY <1>1, <1>3
    <3>3. WolPunctual(n, wolSince, more, x, p.every)
      BY <1>1, <1>3, <1>13, <3>1, <3>2
    <3>4. WolPassed(n, wolSent, p, x)
      <4>1. p \in [from : Nat, to : Nat, every : Nat \ {0}]
        BY <1>1 DEF WolPlanOn
      <4> SUFFICES ASSUME NEW t \in WolTicks(p), t < x PROVE t < n \/ WolFired(wolSent, t)
        BY DEF WolPassed
      <4>2. t \in Nat
        BY <4>1, WolTicksOnGrid
      <4>3. t < wolNow \/ WolFired(wolSent, t)
        BY <3>1 DEF WolPassed
      <4> QED BY <1>1, <1>3, <4>2, <4>3
    <3> QED BY <3>3, <3>4
  <2>6. \A s \in wolSent : WolPunctual(s.when, wolSince, more, s.tick, wolLive.every)
    <3> TAKE s \in wolSent
    <3>1. s.when \in Nat /\ s.when <= wolNow /\ s.tick \in Nat
      BY DEF WolInv, WolSentInv
    <3>2. wolLive.every \in Nat
      BY <1>1, WolAllAre
    <3>3. s.when <= n
      BY <1>1, <1>3, <3>1
    <3> HIDE DEF more
    <3> QED BY <1>13, <2>1, <3>1, <3>2, <3>3
  <2>7. Cardinality(WolLateOnes(wolSent, wolLive.every)) + 1 <= Cardinality(more)
        /\ Cardinality(WolLateOnes(wolSent, wolLive.every)) \in Nat
    <3> DEFINE a == Cardinality(WolLateOnes(wolSent, wolLive.every))
               b == Cardinality(wolTroubles)
               d == Cardinality(more)
               g == IF WolHeldUp THEN 1 ELSE 0
    <3>1. a \in Nat
      <4>1. IsFiniteSet(wolSent) /\ WolLateOnes(wolSent, wolLive.every) \subseteq wolSent
        BY DEF WolInv, WolSentInv, WolLateOnes
      <4> QED BY <4>1, FS_Subset, FS_CardinalityType
    <3>2. a + g <= b /\ g \in Nat /\ b \in Nat /\ d = b + 1
      BY <1>1, <1>4, <2>1
    <3> HIDE DEF a, b, d, g
    <3>3. a + 1 <= d
      BY <3>1, <3>2
    <3> QED BY <3>1, <3>3 DEF a, d
  <2>8. (Cardinality(WolLateOnes(wolSent, wolLive.every)) + (IF WolHeldUp THEN 1 ELSE 0)
           <= Cardinality(wolTroubles))'
    <3> DEFINE a == Cardinality(WolLateOnes(wolSent, wolLive.every))
               d == Cardinality(more)
    <3>1. a' = a /\ wolTroubles' = more
      BY <1>2
    <3>2. a \in Nat /\ a + 1 <= d /\ d \in Nat
      <4>1. d \in Nat
        BY <1>4, FS_CardinalityType
      <4> QED BY <2>7, <4>1
    <3> HIDE DEF a, d
    <3>3. a + 0 <= d /\ a + 1 <= d
      BY <3>2
    <3>4. (a + (IF WolHeldUp THEN 1 ELSE 0) <= Cardinality(wolTroubles))'
      <4>1. Cardinality(wolTroubles)' = d
        BY <3>1 DEF d
      <4> QED BY <3>1, <3>3, <4>1
    <3> QED BY <3>4 DEF a
  <2>9. D' = D /\ p' = p /\ x' = x /\ c' = c
    BY <1>2
  <2>10. (/\ c \in {"plan", "wait", "fire", "sleep"} => p = WolPlan(wolLive, D)
          /\ c \in {"day", "plan", "fire"} =>
               WolDone(wolLive, wolSince, wolSent, wolTroubles, wolNow)
          /\ c = "wait" => WolDone(wolLive, wolSince, wolSent, wolTroubles, x)
          /\ c = "day" =>
               \/ wolNow - wolSince <= WolSuspended(wolTroubles)
               \/ wolNow - WolStart[WolDayOf(wolNow)] <= WolSuspended(wolTroubles)
          /\ c \in {"plan", "fire"} =>
               /\ WolNear(wolNow, wolTroubles, D)
               /\ WolPunctual(wolNow, wolSince, wolTroubles, x, p.every)
               /\ WolPassed(wolNow, wolSent, p, x)
          /\ \A s \in wolSent : WolPunctual(s.when, wolSince, wolTroubles, s.tick, wolLive.every))'
    <3> HIDE DEF c, D, p, x, more
    <3> QED BY <1>2, <1>14, <2>1, <2>2, <2>3, <2>4, <2>5, <2>6, <2>9 DEF F, T
  <2> QED BY <2>8, <2>10 DEF WolServedInv
<1> QED BY <1>7, <1>8, <1>9, <1>15, <1>16 DEF WolInv

-----------------------------------------------------------------------------

\* A reload cancels the loop and leaves a new schedule.
LEMMA WolReloadBeginsStep ==
    ASSUME WolInv, NEW s \in WolSchedules, WolReloadBegins(s) PROVE WolInv'
<1>1. /\ wolLife = "free" /\ wolGen < WolMaxGens /\ wolConf' = s
      /\ UNCHANGED <<wolNow, wolTroubles, wolLoop, wolSent, wolClosed, wolGen, wolSince>>
  BY DEF WolReloadBegins, WolGoOn
<1>2. WolClockInv' /\ WolSentInv'
  BY <1>1 DEF WolInv, WolClockInv, WolSentInv
<1>3. s \in WolAll /\ WolOff \in WolAll
  BY DEF WolAll
<1>4. WolLifeInv
  BY DEF WolInv
<1>5. CASE ~wolClosed /\ ~wolCancelled /\ s = wolLive
           /\ UNCHANGED <<wolLive, wolCancelled, wolLife>>
  <2>1. wolConf' = wolConf
    BY <1>1, <1>4, <1>5 DEF WolLifeInv
  <2>2. WolLifeInv'
    BY <1>1, <1>4, <1>5, <2>1 DEF WolLifeInv
  <2>3. WolLoopInv' /\ WolServedInv'
    BY <1>1, <1>5 DEF WolInv, WolLoopInv, WolServedInv, WolHeldUp
  <2> QED BY <1>2, <2>2, <2>3 DEF WolInv
<1>6. CASE wolLive' = WolOff /\ wolCancelled' = TRUE /\ wolLife' = "reload"
  <2>1. WolLifeInv'
    BY <1>1, <1>3, <1>4, <1>6 DEF WolLifeInv
  <2>2. WolServedInv'
    BY <1>6 DEF WolServedInv
  <2>3. WolLoopInv'
    BY <1>1, <1>6 DEF WolInv, WolLoopInv
  <2> QED BY <1>2, <2>1, <2>2, <2>3 DEF WolInv
<1> QED BY <1>5, <1>6 DEF WolReloadBegins

\* A reload waits for the old loop and starts the new one.
LEMMA WolReloadEndsStep ==
    ASSUME WolInv, WolReloadEnds PROVE WolInv'
<1> USE WolConstants
<1>1. /\ wolLife = "reload" /\ wolLoop.pc = "none" /\ wolLife' = "free"
      /\ UNCHANGED <<wolNow, wolTroubles, wolConf, wolClosed>>
  BY DEF WolReloadEnds, WolGone, WolLoopAt
<1>2. WolLifeInv /\ wolCancelled
  BY <1>1 DEF WolInv, WolLifeInv
<1>3. CASE wolClosed /\ UNCHANGED <<wolLive, wolCancelled, wolGen, wolSince, wolLoop, wolSent>>
  <2>1. WolLifeInv'
    BY <1>1, <1>2, <1>3 DEF WolLifeInv
  <2>2. WolClockInv' /\ WolSentInv' /\ WolLoopInv'
    BY <1>1, <1>3 DEF WolInv, WolClockInv, WolSentInv, WolLoopInv
  <2>3. WolServedInv'
    BY <1>2, <1>3 DEF WolServedInv
  <2> QED BY <2>1, <2>2, <2>3 DEF WolInv
<1>4. CASE /\ ~wolClosed
           /\ wolLive' = wolConf /\ wolCancelled' = FALSE
           /\ wolGen' = wolGen + 1 /\ wolSince' = wolNow /\ wolSent' = {}
           /\ wolLoop' = IF wolConf.on THEN [WolNone EXCEPT !.pc = "day"] ELSE wolLoop
  <2>1. wolNow \in Nat /\ wolConf \in WolAll /\ WolSpans(wolNow, wolTroubles)
        /\ Cardinality(wolTroubles) \in Nat /\ WolSuspended(wolTroubles) \in Nat
    BY WolStateIs
  <2>2. wolConf.on \in BOOLEAN
    BY <2>1, WolAllAre
  <2> DEFINE o == WolPlan(WolOff, 0)
  <2>3. WolPlanOn(o, 0) /\ WolDayOf(o.from) = 0
    <3>1. WolOff \in WolAll /\ 0 \in 0..(WolDays - 1)
      BY DEF WolAll
    <3> QED BY <3>1, WolPlanIs
  <2>4. [WolNone EXCEPT !.pc = "day"] = [pc |-> "day", left |-> 0, at |-> 0, plan |-> o]
    <3>1. WolNone = [pc |-> "none", left |-> 0, at |-> 0, plan |-> o]
      BY DEF WolNone
    <3> HIDE DEF o
    <3> QED BY <3>1
  <2> HIDE DEF o
  <2>5. wolConf.on => wolLoop' = [pc |-> "day", left |-> 0, at |-> 0, plan |-> o]
                      /\ wolLoop'.pc = "day" /\ wolLoop'.plan = o
    BY <1>4, <2>4
  <2>6. ~wolConf.on => wolLoop' = wolLoop /\ wolLoop'.pc = "none"
    BY <1>1, <1>4
  <2>7. WolClockInv'
    <3>1. wolGen \in 0..WolMaxGens /\ wolGen < WolMaxGens
      BY <1>1 DEF WolInv, WolClockInv, WolLifeInv
    <3>2. wolNow <= wolNow /\ wolGen + 1 \in 0..WolMaxGens
      BY <2>1, <3>1
    <3> QED BY <1>1, <1>4, <2>1, <3>2 DEF WolClockInv
  <2>8. WolSentInv'
    BY <1>4, FS_EmptySet DEF WolSentInv
  <2>9. WolLifeInv'
    <3>1. wolLoop'.pc = "none" <=> ~wolConf.on
      BY <2>2, <2>5, <2>6
    <3> QED BY <1>1, <1>2, <1>4, <2>1, <3>1 DEF WolLifeInv
  <2>10. WolLoopInv'
    <3>1. CASE wolConf.on
      <4>1. wolLoop' \in [pc : {"none", "day", "plan", "wait", "fire", "sleep"}, left : 0..WolDayLength,
                          at : Nat, plan : [from : Nat, to : Nat, every : Nat \ {0}]]
        BY <2>3, <2>5, <3>1 DEF WolPlanOn
      <4> QED BY <1>4, <2>3, <2>5, <3>1, <4>1 DEF WolLoopInv
    <3>2. CASE ~wolConf.on
      <4>1. WolLoopInv
        BY DEF WolInv
      <4> QED BY <1>1, <2>6, <3>2, <4>1 DEF WolLoopInv
    <3> QED BY <3>1, <3>2
  <2>11. WolServedInv'
    <3>1. wolLoop'.pc \in {"none", "day"}
      BY <2>2, <2>5, <2>6
    <3>2. \A live : WolDone(live, wolNow, {}, wolTroubles, wolNow)
      <4> SUFFICES ASSUME NEW live, NEW d \in 0..(WolDays - 1), NEW t \in WolTicks(WolPlan(live, d)),
                          wolNow <= t, t < wolNow
                   PROVE  FALSE
        BY DEF WolDone
      <4>1. t \in Int
        BY DEF WolTicks
      <4> QED BY <2>1, <4>1
    <3>3. wolNow - wolNow <= WolSuspended(wolTroubles)
      BY <2>1
    <3>4. (/\ WolDone(wolLive, wolSince, wolSent, wolTroubles, wolNow)
           /\ wolNow - wolSince <= WolSuspended(wolTroubles))'
      BY <1>1, <1>4, <3>2, <3>3
    <3>5. ~WolHeldUp'
      BY <3>1 DEF WolHeldUp
    <3>6. WolLateOnes({}, wolLive'.every) = {}
      BY DEF WolLateOnes
    <3>7. (Cardinality(WolLateOnes(wolSent, wolLive.every)) + (IF WolHeldUp THEN 1 ELSE 0)
             <= Cardinality(wolTroubles))'
      <4>1. Cardinality(WolLateOnes(wolSent', wolLive'.every)) = 0
        BY <1>4, <3>6, FS_EmptySet
      <4> QED BY <1>1, <2>1, <3>5, <4>1
    <3> QED BY <1>4, <3>1, <3>4, <3>7 DEF WolServedInv
  <2> QED BY <2>7, <2>8, <2>9, <2>10, <2>11 DEF WolInv
<1> QED BY <1>3, <1>4 DEF WolReloadEnds

\* A close cancels the loop, and returns when it ended.
LEMMA WolCloseStep ==
    ASSUME WolInv, WolCloseBegins \/ WolCloseReturns PROVE WolInv'
<1>1. UNCHANGED <<wolNow, wolTroubles, wolLoop, wolSent, wolConf, wolGen, wolSince>>
  BY DEF WolCloseBegins, WolCloseReturns, WolGoOn
<1>2. WolClockInv' /\ WolSentInv'
  BY <1>1 DEF WolInv, WolClockInv, WolSentInv
<1>3. WolLifeInv /\ WolOff \in WolAll
  BY DEF WolInv, WolAll
<1>4. CASE WolCloseBegins
  <2>1. wolLife = "free" /\ ~wolClosed
        /\ wolClosed' = TRUE /\ wolLive' = WolOff /\ wolCancelled' = TRUE /\ wolLife' = "close"
    BY <1>4 DEF WolCloseBegins
  <2>2. WolLifeInv'
    BY <1>1, <1>3, <2>1 DEF WolLifeInv
  <2>3. WolLoopInv' /\ WolServedInv'
    BY <1>1, <2>1 DEF WolInv, WolLoopInv, WolServedInv
  <2> QED BY <1>2, <2>2, <2>3 DEF WolInv
<1>5. CASE WolCloseReturns
  <2>1. wolLife = "close" /\ wolLoop.pc = "none" /\ wolLife' = "free"
        /\ UNCHANGED <<wolLive, wolCancelled, wolClosed>>
    BY <1>5 DEF WolCloseReturns, WolGone, WolLoopAt
  <2>2. WolLifeInv'
    BY <1>1, <1>3, <2>1 DEF WolLifeInv
  <2>3. WolLoopInv' /\ WolServedInv'
    BY <1>1, <2>1 DEF WolInv, WolLoopInv, WolServedInv, WolHeldUp
  <2> QED BY <1>2, <2>2, <2>3 DEF WolInv
<1> QED BY <1>4, <1>5

\* Every step of the plans keeps their invariant.
LEMMA WolStepInv ==
    ASSUME WolInv, [WolNext]_wolVars PROVE WolInv'
<1>1. CASE UNCHANGED wolVars
  BY <1>1 DEF wolVars, WolInv, WolClockInv, WolLifeInv, WolSentInv, WolLoopInv, WolServedInv, WolHeldUp
<1>2. CASE WolNext
  BY <1>2, WolDayStep, WolTickStep, WolWokenStep, WolFireStep, WolPassStep, WolSuspendStep,
     WolReloadBeginsStep, WolReloadEndsStep, WolCloseStep DEF WolNext
<1> QED BY <1>1, <1>2

\* What a bucket has to give, and what a device was given in a span.
WolAvail(b, now) == IF b.last < 0 THEN WolBurst ELSE WolMin(WolBurst, b.tokens + (now - b.last))
WolSpent(g, a, b) == SumFunctionOnSet(g, a..b)

\* What a bucket and the grants of a device say of each other.
WolBucketInv(b, now) == b \in [tokens : 0..WolBurst, last : -1..now]
WolGrantsInv(b, g, now) ==
    /\ g \in [0..WolHorizon -> Nat] /\ \A t \in (now + 1)..WolHorizon : g[t] = 0
    /\ \A a \in 0..now : WolSpent(g, a, now) + WolAvail(b, now) <= WolBurst + (now - a)
    /\ \A a, c \in 0..now : a <= c => WolSpent(g, a, c) <= WolBurst + (c - a)

\* The inductive invariant of the wakes by hand.
WolHandInv ==
    /\ wolClock \in 0..WolHorizon /\ wolUp \subseteq WolNics
    /\ wolCache \in [list : SUBSET WolNics, at : 0..WolHorizon]
    /\ wolLastGC \in 0..WolHorizon
    /\ DOMAIN wolBucket = WolDevices /\ wolBucket = [d \in WolDevices |-> wolBucket[d]]
    /\ DOMAIN wolGrants = WolDevices /\ wolGrants = [d \in WolDevices |-> wolGrants[d]]
    /\ \A d \in WolDevices : /\ WolBucketInv(wolBucket[d], wolClock)
                             /\ WolGrantsInv(wolBucket[d], wolGrants[d], wolClock)
    /\ wolAnswer \in [of : WolDevices \union {"auto"}, ok : BOOLEAN, up : SUBSET WolNics]
    /\ WolStaleOnce

-----------------------------------------------------------------------------

\* What was granted in a span is a sum of naturals.
LEMMA WolSpentIs ==
    ASSUME NEW g \in [0..WolHorizon -> Nat], NEW a \in Nat, NEW b \in Int, b <= WolHorizon
    PROVE  /\ WolSpent(g, a, b) \in Nat /\ IsFiniteSet(a..b)
           /\ \A t \in a..b : g[t] \in Nat
           /\ a > b => WolSpent(g, a, b) = 0
<1> USE WolConstants
<1>1. IsFiniteSet(a..b)
  BY FS_Interval
<1>2. \A t \in a..b : g[t] \in Nat
  OBVIOUS
<1>3. a > b => a..b = {}
  OBVIOUS
<1>4. SumFunctionOnSet(g, a..b) \in Nat
  <2> DEFINE s == a..b
  <2>1. IsFiniteSet(s) /\ \A t \in s : g[t] \in Nat
    BY <1>1, <1>2
  <2> HIDE DEF s
  <2> QED BY <2>1, SumNatural DEF s
<1>5. a > b => WolSpent(g, a, b) = 0
  BY <1>3, SumEmpty DEF WolSpent
<1> QED BY <1>1, <1>2, <1>4, <1>5 DEF WolSpent

\* One more grant at an instant.
WolMore(g, c) == [g EXCEPT ![c] = @ + 1]

\* One grant more counts in the spans it is in.
LEMMA WolSpentPlus ==
    ASSUME NEW g \in [0..WolHorizon -> Nat], NEW c \in 0..WolHorizon, NEW a \in Nat, NEW b \in Int,
           b <= WolHorizon
    PROVE  /\ WolMore(g, c) \in [0..WolHorizon -> Nat]
           /\ a <= c /\ c <= b => WolSpent(WolMore(g, c), a, b) = WolSpent(g, a, b) + 1
           /\ ~(a <= c /\ c <= b) => WolSpent(WolMore(g, c), a, b) = WolSpent(g, a, b)
<1> USE WolConstants
<1> DEFINE s == a..b
           h == WolMore(g, c)
<1>1. h \in [0..WolHorizon -> Nat] /\ h[c] = g[c] + 1 /\ \A t \in 0..WolHorizon : t # c => h[t] = g[t]
  BY DEF WolMore
<1>2. IsFiniteSet(s) /\ s \subseteq 0..WolHorizon
  <2>1. IsFiniteSet(s)
    BY WolSpentIs
  <2>2. s \subseteq 0..WolHorizon
    OBVIOUS
  <2> QED BY <2>1, <2>2
<1> HIDE DEF s, h
<1>3. CASE c \in s
  <2>1. SumFunctionOnSet(h, s) = h[c] + SumFunctionOnSet(h, s \ {c})
        /\ SumFunctionOnSet(g, s) = g[c] + SumFunctionOnSet(g, s \ {c})
    BY <1>1, <1>2, <1>3, SumStep
  <2>2. IsFiniteSet(s \ {c}) /\ \A t \in s \ {c} : h[t] \in Nat /\ h[t] = g[t]
    BY <1>1, <1>2, <1>3, FS_RemoveElement
  <2>3. SumFunctionOnSet(h, s \ {c}) = SumFunctionOnSet(g, s \ {c})
        /\ SumFunctionOnSet(h, s \ {c}) \in Nat
    BY <2>2, SumSame, SumNatural
  <2>4. g[c] \in Nat
    OBVIOUS
  <2>5. SumFunctionOnSet(h, s) = SumFunctionOnSet(g, s) + 1
    BY <1>1, <2>1, <2>3, <2>4
  <2> QED BY <1>1, <1>3, <2>5 DEF WolSpent, s, h
<1>4. CASE c \notin s
  <2>1. \A t \in s : h[t] \in Nat /\ h[t] = g[t]
    BY <1>1, <1>2, <1>4
  <2>2. SumFunctionOnSet(h, s) = SumFunctionOnSet(g, s) /\ SumFunctionOnSet(g, s) \in Nat
    BY <1>2, <2>1, SumSame, SumNatural
  <2>3. SumFunctionOnSet(h, s) = SumFunctionOnSet(g, s) + 0
    BY <2>2
  <2>4. ~(a <= c /\ c <= b)
    BY <1>4 DEF s
  <2>5. SumFunctionOnSet(h, s) = SumFunctionOnSet(g, s)
    BY <2>2
  <2> QED BY <1>1, <2>4, <2>5 DEF WolSpent, s, h
<1> QED BY <1>3, <1>4

\* Nothing was granted in the time that is to come.
LEMMA WolSpentTail ==
    ASSUME NEW g \in [0..WolHorizon -> Nat], NEW now \in 0..WolHorizon,
           \A t \in (now + 1)..WolHorizon : g[t] = 0,
           NEW a \in 0..now, NEW b \in now..WolHorizon
    PROVE  WolSpent(g, a, b) = WolSpent(g, a, now)
<1> USE WolConstants
<1> DEFINE s == a..now
           n == now + 1
           u == n..b
<1>1. a..b = s \union u /\ s \intersect u = {}
  OBVIOUS
<1>2. IsFiniteSet(s) /\ s \subseteq 0..WolHorizon
  <2>1. a \in Nat /\ now \in Int /\ now <= WolHorizon
    OBVIOUS
  <2>2. IsFiniteSet(s)
    BY <2>1, WolSpentIs
  <2>3. s \subseteq 0..WolHorizon
    OBVIOUS
  <2> QED BY <2>2, <2>3
<1>3. IsFiniteSet(u) /\ u \subseteq 0..WolHorizon /\ \A t \in u : g[t] = 0
  <2>1. n \in Nat /\ b \in Int /\ b <= WolHorizon
    OBVIOUS
  <2>2. u \subseteq 0..WolHorizon /\ \A t \in u : g[t] = 0
    OBVIOUS
  <2>3. IsFiniteSet(u)
    <3>1. n \in Int /\ b \in Int
      BY <2>1
    <3> HIDE DEF n
    <3> QED BY <3>1, FS_Interval
  <2> QED BY <2>2, <2>3
<1> HIDE DEF s, u, n
<1>4. SumFunctionOnSet(g, s \union u) = SumFunctionOnSet(g, s) + SumFunctionOnSet(g, u)
      /\ SumFunctionOnSet(g, s) \in Nat
  BY <1>1, <1>2, <1>3, SumParts, SumNatural
<1>5. SumFunctionOnSet(g, u) = 0
  <2>1. SumFunctionOnSet(g, u) = Cardinality(u) * 0 /\ Cardinality(u) \in Nat
    BY <1>3, SumConstant, FS_CardinalityType
  <2> QED BY <2>1
<1>6. SumFunctionOnSet(g, s \union u) = SumFunctionOnSet(g, s)
  BY <1>4, <1>5
<1> QED BY <1>1, <1>6 DEF WolSpent, s

\* What a bucket has to give.
LEMMA WolAvailIs ==
    ASSUME NEW now \in Nat, NEW b, WolBucketInv(b, now)
    PROVE  /\ WolAvail(b, now) \in 0..WolBurst
           /\ WolAvail(b, now) = IF b.last < 0 THEN WolBurst
                                 ELSE IF WolBurst < b.tokens + (now - b.last) THEN WolBurst
                                 ELSE b.tokens + (now - b.last)
<1> USE WolConstants
<1>1. b.tokens \in 0..WolBurst /\ b.last \in -1..now
  BY DEF WolBucketInv
<1> QED BY <1>1 DEF WolAvail, WolMin

\* Wakes by hand begin with no grant and no bucket.
LEMMA WolHandInitInv ==
    ASSUME WolHandInit PROVE WolHandInv
<1> USE WolConstants DEF WolHandInit
<1> DEFINE g == [t \in 0..WolHorizon |-> 0]
           b == [tokens |-> 0, last |-> -1]
<1>1. WolBucketInv(b, 0)
  BY DEF WolBucketInv
<1>2. WolGrantsInv(b, g, 0)
  <2>1. g \in [0..WolHorizon -> Nat] /\ \A t \in (0 + 1)..WolHorizon : g[t] = 0
    OBVIOUS
  <2>2. WolAvail(b, 0) = WolBurst
    BY DEF WolAvail
  <2>3. WolSpent(g, 0, 0) = 0
    <3>1. 0..0 = {0} /\ g[0] = 0
      OBVIOUS
    <3>2. SumFunctionOnSet(g, {0}) = Cardinality({0}) * 0 /\ Cardinality({0}) = 1
      <4>1. IsFiniteSet({0}) /\ \A x \in {0} : g[x] = 0
        BY <3>1, FS_Singleton
      <4> HIDE DEF g
      <4> QED BY <4>1, SumConstant, FS_Singleton
    <3> HIDE DEF g
    <3> QED BY <3>1, <3>2 DEF WolSpent
  <2> HIDE DEF g, b
  <2> QED BY <2>1, <2>2, <2>3 DEF WolGrantsInv
<1> QED BY <1>1, <1>2 DEF WolHandInv, WolStaleOnce, WolNoCache

-----------------------------------------------------------------------------

\* A second passes.
LEMMA WolHandPassStep ==
    ASSUME WolHandInv, WolHandPass PROVE WolHandInv'
<1> USE WolConstants
<1> DEFINE n == wolClock + 1
<1>1. /\ wolClock' = n
      /\ UNCHANGED <<wolUp, wolCache, wolBucket, wolLastGC, wolGrants, wolAnswer>>
  BY DEF WolHandPass
<1>2. wolClock \in Nat /\ n \in 0..WolHorizon /\ wolClock \in 0..WolHorizon /\ wolClock < n
  BY DEF WolHandInv, WolHandPass
<1>3. ASSUME NEW d \in WolDevices
      PROVE  WolBucketInv(wolBucket[d], n) /\ WolGrantsInv(wolBucket[d], wolGrants[d], n)
  <2> DEFINE b == wolBucket[d]
             g == wolGrants[d]
  <2>1. WolBucketInv(b, wolClock) /\ WolGrantsInv(b, g, wolClock)
    BY DEF WolHandInv
  <2> HIDE DEF b, g
  <2>2. WolBucketInv(b, n)
    BY <1>2, <2>1 DEF WolBucketInv
  <2>3. g \in [0..WolHorizon -> Nat] /\ \A t \in (wolClock + 1)..WolHorizon : g[t] = 0
    BY <2>1 DEF WolGrantsInv
  <2>4. WolAvail(b, n) <= WolAvail(b, wolClock) + 1 /\ WolAvail(b, n) \in 0..WolBurst
        /\ WolAvail(b, wolClock) \in 0..WolBurst
    <3>1. b.tokens \in 0..WolBurst /\ b.last \in -1..wolClock
      BY <2>1 DEF WolBucketInv
    <3> QED BY <1>2, <2>1, <2>2, <3>1, WolAvailIs
  <2>5. ASSUME NEW a \in 0..wolClock PROVE WolSpent(g, a, n) = WolSpent(g, a, wolClock)
        /\ WolSpent(g, a, n) \in Nat
    <3>1. n \in wolClock..WolHorizon
      BY <1>2
    <3>2. a \in Nat /\ n \in Int /\ n <= WolHorizon
      BY <1>2
    <3> HIDE DEF n
    <3> QED BY <1>2, <2>3, <3>1, <3>2, WolSpentTail, WolSpentIs
  <2>6. WolSpent(g, n, n) = 0
    <3>1. n..n = {n} /\ g[n] = 0
      BY <1>2, <2>3
    <3> HIDE DEF n
    <3>2. IsFiniteSet({n}) /\ Cardinality({n}) = 1 /\ \A x \in {n} : g[x] = 0
      BY <3>1, FS_Singleton
    <3>3. SumFunctionOnSet(g, {n}) = Cardinality({n}) * 0
      BY <3>2, SumConstant
    <3> QED BY <3>1, <3>2, <3>3 DEF WolSpent
  <2>7. \A t \in (n + 1)..WolHorizon : g[t] = 0
    BY <1>2, <2>3
  <2>8. ASSUME NEW a \in 0..n PROVE WolSpent(g, a, n) + WolAvail(b, n) <= WolBurst + (n - a)
    <3>1. CASE a = n
      <4>1. WolSpent(g, a, n) = 0
        BY <2>6, <3>1
      <4> HIDE DEF n
      <4> QED BY <1>2, <2>4, <3>1, <4>1
    <3>2. CASE a # n
      <4>1. a \in 0..wolClock
        BY <1>2, <3>2
      <4>2. WolSpent(g, a, wolClock) + WolAvail(b, wolClock) <= WolBurst + (wolClock - a)
        BY <2>1, <4>1 DEF WolGrantsInv
      <4>3. WolSpent(g, a, n) = WolSpent(g, a, wolClock) /\ WolSpent(g, a, n) \in Nat
        BY <2>5, <4>1
      <4> QED BY <1>2, <2>4, <4>1, <4>2, <4>3
    <3> QED BY <3>1, <3>2
  <2>9. ASSUME NEW a \in 0..n, NEW c \in 0..n, a <= c PROVE WolSpent(g, a, c) <= WolBurst + (c - a)
    <3>1. CASE c = n
      <4>1. WolSpent(g, a, n) + WolAvail(b, n) <= WolBurst + (n - a)
        BY <2>8
      <4>2. WolSpent(g, a, n) \in Nat
        <5>1. n \in Int /\ n <= WolHorizon /\ a \in Nat
          BY <1>2
        <5> HIDE DEF n
        <5> QED BY <2>3, <5>1, WolSpentIs
      <4> HIDE DEF n
      <4> QED BY <1>2, <2>4, <3>1, <4>1, <4>2
    <3>2. CASE c # n
      <4>1. a \in 0..wolClock /\ c \in 0..wolClock
        BY <1>2, <2>9, <3>2
      <4> QED BY <2>1, <2>9, <4>1 DEF WolGrantsInv
    <3> QED BY <3>1, <3>2
  <2>10. WolGrantsInv(b, g, n)
    <3> HIDE DEF n
    <3> QED BY <2>3, <2>7, <2>8, <2>9 DEF WolGrantsInv
  <2> QED BY <2>2, <2>10 DEF b, g
<1> HIDE DEF n
<1> QED BY <1>1, <1>2, <1>3 DEF WolHandInv, WolStaleOnce

\* An interface goes up or down.
LEMMA WolNicChangeStep ==
    ASSUME WolHandInv, NEW n \in WolNics, WolNicChange(n) PROVE WolHandInv'
<1>1. /\ wolUp' \subseteq WolNics
      /\ UNCHANGED <<wolClock, wolCache, wolBucket, wolLastGC, wolGrants, wolAnswer>>
  BY DEF WolNicChange, WolHandInv
<1> QED BY <1>1 DEF WolHandInv, WolStaleOnce

-----------------------------------------------------------------------------

\* What a request leaves of a bucket, and what it was granted.
LEMMA WolTokensTaken ==
    ASSUME WolHandInv, NEW d \in WolDevices
    PROVE  LET granted == WolTokens(d) >= 1
               rest == IF granted THEN WolTokens(d) - 1 ELSE WolTokens(d)
               left == [tokens |-> rest, last |-> wolClock]
               g == wolGrants[d]
               h == IF granted THEN [g EXCEPT ![wolClock] = @ + 1] ELSE g IN
           /\ WolBucketInv(left, wolClock) /\ WolGrantsInv(left, h, wolClock)
<1> USE WolConstants
<1> DEFINE v == WolTokens(d)
           rest == IF v >= 1 THEN v - 1 ELSE v
           left == [tokens |-> rest, last |-> wolClock]
           g == wolGrants[d]
           h == IF v >= 1 THEN [g EXCEPT ![wolClock] = @ + 1] ELSE g
           b == wolBucket[d]
<1>1. wolClock \in Nat /\ wolClock \in 0..WolHorizon /\ WolBucketInv(b, wolClock) /\ WolGrantsInv(b, g, wolClock)
  BY DEF WolHandInv
<1>2. v = WolAvail(b, wolClock)
  BY DEF WolTokens, WolAvail, WolFilled
<1> HIDE DEF v, b
<1>3. v \in 0..WolBurst
  BY <1>1, <1>2, WolAvailIs
<1>4. rest \in 0..WolBurst /\ v = rest + (IF v >= 1 THEN 1 ELSE 0)
  BY <1>3
<1> HIDE DEF rest
<1>5. WolBucketInv(left, wolClock) /\ left.tokens = rest /\ left.last = wolClock
  BY <1>1, <1>4 DEF WolBucketInv
<1>6. WolAvail(left, wolClock) = rest
  <2> HIDE DEF left
  <2> QED BY <1>1, <1>4, <1>5, WolAvailIs
<1> HIDE DEF left, g
<1>7. g \in [0..WolHorizon -> Nat] /\ (\A t \in (wolClock + 1)..WolHorizon : g[t] = 0)
      /\ (\A a \in 0..wolClock : WolSpent(g, a, wolClock) + v <= WolBurst + (wolClock - a))
      /\ (\A a, c \in 0..wolClock : a <= c => WolSpent(g, a, c) <= WolBurst + (c - a))
  BY <1>1, <1>2 DEF WolGrantsInv
<1>8. h \in [0..WolHorizon -> Nat] /\ (\A t \in (wolClock + 1)..WolHorizon : h[t] = 0)
  BY <1>1, <1>7
<1>9. ASSUME NEW a \in 0..wolClock, NEW c \in 0..wolClock
      PROVE  /\ WolSpent(h, a, c) = WolSpent(g, a, c)
                    + (IF v >= 1 /\ a <= wolClock /\ c = wolClock THEN 1 ELSE 0)
             /\ WolSpent(g, a, c) \in Nat
  <2>1. a \in Nat /\ c \in Int /\ c <= WolHorizon
    BY <1>1
  <2>2. WolSpent(g, a, c) \in Nat
    BY <1>7, <2>1, WolSpentIs
  <2>3. CASE v >= 1
    <3>1. /\ a <= wolClock /\ wolClock <= c => WolSpent(h, a, c) = WolSpent(g, a, c) + 1
          /\ ~(a <= wolClock /\ wolClock <= c) => WolSpent(h, a, c) = WolSpent(g, a, c)
      <4>1. h = WolMore(g, wolClock)
        BY <2>3 DEF WolMore
      <4> DEFINE k == wolClock
      <4>2. k \in 0..WolHorizon /\ g \in [0..WolHorizon -> Nat] /\ a \in Nat /\ c \in Int /\ c <= WolHorizon
        BY <1>1, <1>7, <2>1
      <4> HIDE DEF h, k
      <4>3. /\ a <= k /\ k <= c => WolSpent(WolMore(g, k), a, c) = WolSpent(g, a, c) + 1
            /\ ~(a <= k /\ k <= c) => WolSpent(WolMore(g, k), a, c) = WolSpent(g, a, c)
        BY <4>2, WolSpentPlus
      <4> QED BY <4>1, <4>3 DEF k
    <3>2. wolClock <= c <=> c = wolClock
      BY <1>1
    <3> HIDE DEF h
    <3> QED BY <2>2, <2>3, <3>1, <3>2
  <2>4. CASE ~(v >= 1)
    <3>1. h = g
      BY <2>4
    <3> HIDE DEF h
    <3> QED BY <2>2, <2>4, <3>1
  <2> QED BY <2>3, <2>4
<1> HIDE DEF h
<1>10. ASSUME NEW a \in 0..wolClock PROVE WolSpent(h, a, wolClock) + rest <= WolBurst + (wolClock - a)
  <2>1. wolClock \in 0..wolClock /\ a <= wolClock
    BY <1>1
  <2>2. WolSpent(h, a, wolClock) = WolSpent(g, a, wolClock) + (IF v >= 1 THEN 1 ELSE 0)
        /\ WolSpent(g, a, wolClock) \in Nat
    BY <1>9, <2>1
  <2>3. WolSpent(g, a, wolClock) + v <= WolBurst + (wolClock - a)
    BY <1>7
  <2>4. WolSpent(h, a, wolClock) + rest = WolSpent(g, a, wolClock) + v
    BY <1>3, <1>4, <2>2
  <2> QED BY <2>3, <2>4
<1>11. ASSUME NEW a \in 0..wolClock, NEW c \in 0..wolClock, a <= c
       PROVE  WolSpent(h, a, c) <= WolBurst + (c - a)
  <2>1. CASE c = wolClock
    <3>1. WolSpent(h, a, c) + rest <= WolBurst + (c - a)
      BY <1>10, <2>1
    <3>2. WolSpent(h, a, c) \in Nat
      <4>1. a \in Nat /\ c \in Int /\ c <= WolHorizon
        BY <1>1
      <4> QED BY <1>8, <4>1, WolSpentIs
    <3> QED BY <1>1, <1>4, <3>1, <3>2
  <2>2. CASE c # wolClock
    <3>1. WolSpent(h, a, c) = WolSpent(g, a, c) + 0 /\ WolSpent(g, a, c) \in Nat
      BY <1>9, <2>2
    <3>2. WolSpent(g, a, c) <= WolBurst + (c - a)
      BY <1>7, <1>11
    <3> QED BY <3>1, <3>2
  <2> QED BY <2>1, <2>2
<1>12. WolGrantsInv(left, h, wolClock)
  BY <1>6, <1>8, <1>10, <1>11 DEF WolGrantsInv
<1> QED BY <1>5, <1>12 DEF left, h, g, rest, v

\* Forgetting a device whose tokens are all back changes nothing of what it may.
LEMMA WolForgotten ==
    ASSUME NEW b, NEW g, WolHandInv, WolBucketInv(b, wolClock), WolGrantsInv(b, g, wolClock),
           b.last >= 0, WolForgets(b)
    PROVE  LET none == [tokens |-> 0, last |-> -1] IN
           WolBucketInv(none, wolClock) /\ WolGrantsInv(none, g, wolClock)
<1> USE WolConstants
<1> DEFINE none == [tokens |-> 0, last |-> -1]
<1>1. wolClock \in Nat
  BY DEF WolHandInv
<1>2. WolBucketInv(none, wolClock) /\ none.last = -1
  BY <1>1 DEF WolBucketInv
<1>3. WolAvail(none, wolClock) = WolBurst
  BY <1>2 DEF WolAvail
<1>4. WolAvail(b, wolClock) = WolBurst
  <2>1. b.tokens \in 0..WolBurst /\ b.last \in -1..wolClock
    BY DEF WolBucketInv
  <2> QED BY <1>1, <2>1, WolAvailIs DEF WolForgets
<1> HIDE DEF none
<1> QED BY <1>2, <1>3, <1>4 DEF WolGrantsInv, none

\* A wake by hand: the list of interfaces is read or taken from the cache, and
\* the bucket of the device is made, refilled and asked.
LEMMA WolByHandStep ==
    ASSUME WolHandInv, NEW d \in WolDevices, WolByHand(d) PROVE WolHandInv'
<1> USE WolConstants
<1> DEFINE granted == WolTokens(d) >= 1
           rest == IF granted THEN WolTokens(d) - 1 ELSE WolTokens(d)
           left == [tokens |-> rest, last |-> wolClock]
           bs == [wolBucket EXCEPT ![d] = left]
           hs == IF granted THEN [wolGrants EXCEPT ![d][wolClock] = @ + 1] ELSE wolGrants
<1>1. /\ wolBucket' = WolSwept(bs) /\ wolLastGC' \in {wolLastGC, wolClock}
      /\ wolGrants' = hs /\ wolClock' = wolClock /\ wolUp' = wolUp
      /\ granted => WolWake(d)
      /\ ~granted => UNCHANGED <<wolCache, wolAnswer>>
  BY DEF WolByHand
<1>2. wolClock \in 0..WolHorizon /\ wolUp \subseteq WolNics
      /\ DOMAIN wolBucket = WolDevices /\ wolBucket = [o \in WolDevices |-> wolBucket[o]]
      /\ DOMAIN wolGrants = WolDevices /\ wolGrants = [o \in WolDevices |-> wolGrants[o]]
      /\ wolCache \in [list : SUBSET WolNics, at : 0..WolHorizon]
  BY DEF WolHandInv
<1>3. WolBucketInv(left, wolClock) /\ WolGrantsInv(left, hs[d], wolClock)
  <2> DEFINE g == wolGrants[d]
             h == IF granted THEN [g EXCEPT ![wolClock] = @ + 1] ELSE g
  <2>1. WolBucketInv(left, wolClock) /\ WolGrantsInv(left, h, wolClock)
    BY WolTokensTaken
  <2>2. hs[d] = h
    BY <1>2
  <2> HIDE DEF left, h, hs
  <2> QED BY <2>1, <2>2
<1>4. bs[d] = left /\ (\A o \in WolDevices \ {d} : bs[o] = wolBucket[o])
  BY <1>2
<1>5. \A o \in WolDevices \ {d} : hs[o] = wolGrants[o]
  BY <1>2
<1>6. DOMAIN hs = WolDevices /\ hs = [o \in WolDevices |-> hs[o]]
  BY <1>2
<1>7. DOMAIN bs = WolDevices /\ bs = [o \in WolDevices |-> bs[o]]
  BY <1>2
<1> HIDE DEF left, bs, hs, granted
<1>8. \A o \in WolDevices : WolBucketInv(bs[o], wolClock) /\ WolGrantsInv(bs[o], hs[o], wolClock)
  <2> TAKE o \in WolDevices
  <2>1. CASE o = d
    BY <1>3, <1>4, <2>1
  <2>2. CASE o # d
    BY <1>4, <1>5, <2>2 DEF WolHandInv
  <2> QED BY <2>1, <2>2
<1> DEFINE ns == WolSwept(bs)
<1>9. DOMAIN ns = WolDevices /\ ns = [o \in WolDevices |-> ns[o]]
  BY <1>7 DEF WolSwept
<1>10. \A o \in WolDevices : WolBucketInv(ns[o], wolClock) /\ WolGrantsInv(ns[o], hs[o], wolClock)
  <2> TAKE o \in WolDevices
  <2>1. WolBucketInv(bs[o], wolClock) /\ WolGrantsInv(bs[o], hs[o], wolClock)
    BY <1>8
  <2>2. CASE ns[o] = bs[o]
    <3> HIDE DEF ns
    <3> QED BY <2>1, <2>2
  <2>3. CASE ns[o] # bs[o]
    <3>1. ns[o] = [tokens |-> 0, last |-> -1] /\ bs[o].last >= 0 /\ WolForgets(bs[o])
      BY <2>3 DEF WolSwept
    <3> HIDE DEF ns
    <3> QED BY <2>1, <3>1, WolForgotten
  <2> QED BY <2>2, <2>3
<1> HIDE DEF ns
<1>11. wolCache' \in [list : SUBSET WolNics, at : 0..WolHorizon]
       /\ wolAnswer' \in [of : WolDevices \union {"auto"}, ok : BOOLEAN, up : SUBSET WolNics]
       /\ WolStaleOnce'
  <2>1. CASE ~granted
    BY <1>1, <2>1 DEF WolHandInv, WolStaleOnce
  <2>2. CASE granted
    <3> DEFINE asked == WolAsked(d)
               ok == WolSelect(asked.list, d) \cap wolUp # {}
    <3>1. /\ wolCache' = IF ok \/ WolSelect(asked.list, d) = {} THEN asked ELSE WolNoCache
          /\ wolAnswer' = [of |-> d, ok |-> ok, up |-> wolUp]
      BY <1>1, <2>2 DEF WolWake
    <3>2. \A c : c \in [list : SUBSET WolNics, at : 0..WolHorizon] =>
                   WolListed(c) \in [list : SUBSET WolNics, at : 0..WolHorizon]
      BY <1>2 DEF WolListed
    <3>3. WolNoCache \in [list : SUBSET WolNics, at : 0..WolHorizon] /\ WolNoCache.list = {}
      BY DEF WolNoCache
    <3>4. asked \in [list : SUBSET WolNics, at : 0..WolHorizon]
      BY <1>2, <3>2, <3>3 DEF WolAsked
    <3>5. WolSelect(asked.list, d) = {} => WolSelect(wolUp, d) = {}
      <4> SUFFICES ASSUME WolSelect(asked.list, d) = {} PROVE WolSelect(wolUp, d) = {}
        OBVIOUS
      <4>1. asked = WolListed(WolNoCache)
        BY DEF WolAsked
      <4>2. WolListed(WolNoCache) = [list |-> wolUp, at |-> wolClock]
        BY <3>3 DEF WolListed, WolFresh
      <4>3. asked.list = wolUp
        BY <4>1, <4>2
      <4> HIDE DEF asked
      <4> QED BY <4>3
    <3> HIDE DEF asked
    <3>6. ok \in BOOLEAN
      OBVIOUS
    <3>7. WolStaleOnce'
      <4>1. wolAnswer'.of = d /\ wolAnswer'.ok = ok /\ wolAnswer'.up = wolUp
        BY <3>1
      <4> SUFFICES ASSUME ~wolAnswer'.ok, WolSelect(wolAnswer'.up, wolAnswer'.of) # {}
                   PROVE  wolCache' = WolNoCache
        BY DEF WolStaleOnce
      <4>2. ~ok /\ WolSelect(wolUp, d) # {}
        BY <4>1
      <4> QED BY <3>1, <3>5, <4>2
    <3>8. wolAnswer' \in [of : WolDevices \union {"auto"}, ok : BOOLEAN, up : SUBSET WolNics]
      <4> HIDE DEF ok
      <4> QED BY <1>2, <3>1, <3>6
    <3>9. wolCache' \in [list : SUBSET WolNics, at : 0..WolHorizon]
      BY <3>1, <3>3, <3>4
    <3> QED BY <3>7, <3>8, <3>9
  <2> QED BY <2>1, <2>2
<1>12. wolLastGC' \in 0..WolHorizon
  BY <1>1, <1>2 DEF WolHandInv
<1>13. wolBucket' = ns
  BY <1>1 DEF ns
<1> QED BY <1>1, <1>2, <1>6, <1>9, <1>10, <1>11, <1>12, <1>13 DEF WolHandInv

\* Every step of the wakes by hand keeps their invariant.
LEMMA WolHandStepInv ==
    ASSUME WolHandInv, [WolHandNext]_wolHandVars PROVE WolHandInv'
<1>1. CASE UNCHANGED wolHandVars
  BY <1>1 DEF wolHandVars, WolHandInv, WolStaleOnce
<1>2. CASE WolHandNext
  BY <1>2, WolByHandStep, WolHandPassStep, WolNicChangeStep DEF WolHandNext
<1> QED BY <1>1, <1>2

\* The invariant of the plans says what the run checks of them.
LEMMA WolServedShows ==
    ASSUME WolInv
    PROVE  /\ WolTicksServed /\ WolTicksTimely /\ WolNoCatchUp /\ WolClosedIsQuiet /\ WolRunsConf
<1> USE WolConstants
<1> DEFINE D == WolDayOf(wolLoop.plan.from)
           x == wolLoop.at
<1>1. /\ wolNow \in Nat /\ wolSince \in Nat /\ wolLive \in WolAll /\ x \in Nat
      /\ \A s \in wolTroubles : s.from \in Nat /\ s.to \in Nat
      /\ D \in 0..(WolDays - 1)
  BY WolStateIs
<1>2. WolLifeInv /\ WolOff \in WolAll /\ ~WolOff.on
  BY DEF WolInv, WolAll, WolOff
<1>3. WolTicksServed
  <2> SUFFICES ASSUME wolLoop.pc \in {"wait", "sleep"}, ~wolCancelled
               PROVE  WolDone(wolLive, wolSince, wolSent, wolTroubles, wolNow)
    BY DEF WolTicksServed, WolDone, WolFired, WolExcused, WolExcusedBy
  <2>1. CASE wolLoop.pc = "wait"
    <3>1. WolDone(wolLive, wolSince, wolSent, wolTroubles, x)
      BY <2>1 DEF WolInv, WolServedInv
    <3>2. WolHeld(wolNow, wolLoop.left, wolTroubles, x)
      BY <2>1 DEF WolInv, WolLoopInv
    <3>3. \A t \in x..(wolNow - 1) : WolCovered(wolTroubles, t)
      BY <3>2 DEF WolHeld
    <3> HIDE DEF x
    <3> QED BY <1>1, <3>1, <3>3, WolDoneHeld
  <2>2. CASE wolLoop.pc = "sleep"
    <3>1. PICK e \in (D + 1)..WolDays :
             /\ WolHeld(wolNow, wolLoop.left, wolTroubles, WolStart[e])
             /\ WolDone(wolLive, wolSince, wolSent, wolTroubles, WolStart[e])
      BY <2>2 DEF WolInv, WolLoopInv
    <3> DEFINE u == WolStart[e]
    <3>2. u \in Nat
      <4>1. e \in 0..(WolDays + 1)
        <5> HIDE DEF D
        <5> QED BY <1>1, <3>1
      <4> QED BY <4>1, WolStartIs
    <3>3. \A t \in u..(wolNow - 1) : WolCovered(wolTroubles, t)
      BY <3>1 DEF WolHeld
    <3>4. WolDone(wolLive, wolSince, wolSent, wolTroubles, u)
      BY <3>1
    <3> HIDE DEF u
    <3> QED BY <1>1, <3>2, <3>3, <3>4, WolDoneHeld
  <2> QED BY <2>1, <2>2
<1>4. wolLive.on => ~wolCancelled
  BY <1>2 DEF WolLifeInv
<1>5. \A s \in wolSent : s.tick \in Nat /\ s.when \in Nat /\ s.tick <= s.when
  BY DEF WolInv, WolSentInv
<1>6. WolTicksTimely
  <2>1. wolLive.on => \A s \in wolSent : WolPunctual(s.when, wolSince, wolTroubles, s.tick, wolLive.every)
    BY <1>4 DEF WolInv, WolServedInv
  <2>2. wolLive.on => \A s \in wolSent :
           \/ s.when - s.tick <= WolSuspended(wolTroubles)
           \/ s.tick < wolSince /\ wolSince <= s.tick + wolLive.every
    BY <2>1 DEF WolPunctual
  <2>3. \A s, o \in wolSent : o.tick = s.tick => o = s
    BY DEF WolInv, WolSentInv
  <2> QED BY <1>5, <2>2, <2>3 DEF WolTicksTimely
<1>7. WolNoCatchUp
  <2> DEFINE L == {s \in wolSent : s.when > s.tick + wolLive.every}
             g == IF WolHeldUp THEN 1 ELSE 0
             n == Cardinality(wolTroubles)
  <2> SUFFICES ASSUME wolLive.on PROVE Cardinality(L) <= n
    BY DEF WolNoCatchUp
  <2>1. Cardinality(L) + g <= n
    BY <1>4 DEF WolInv, WolServedInv, WolLateOnes
  <2>2. IsFiniteSet(L)
    <3>1. IsFiniteSet(wolSent) /\ L \subseteq wolSent
      BY DEF WolInv, WolSentInv
    <3> HIDE DEF L
    <3> QED BY <3>1, FS_Subset
  <2>3. Cardinality(L) \in Nat /\ n \in Nat /\ g \in Nat
    <3>1. g \in Nat
      OBVIOUS
    <3>2. n \in Nat
      BY WolStateIs
    <3> HIDE DEF L, g, n
    <3> QED BY <2>2, <3>1, <3>2, FS_CardinalityType
  <2> HIDE DEF L, g, n
  <2> QED BY <2>1, <2>3
<1>8. WolClosedIsQuiet /\ WolRunsConf
  BY <1>2 DEF WolLifeInv, WolClosedIsQuiet, WolRunsConf, WolLoopAt
<1> QED BY <1>3, <1>6, <1>7, <1>8

\* The invariant of the wakes by hand says what the run checks of them.
LEMMA WolHandShows ==
    ASSUME WolHandInv PROVE WolLimited /\ WolStaleOnce
<1> USE WolConstants
<1> SUFFICES ASSUME NEW d \in WolDevices, NEW a \in 0..WolHorizon, NEW b \in 0..WolHorizon, a <= b
             PROVE  WolSpent(wolGrants[d], a, b) <= WolBurst + (b - a)
  BY DEF WolLimited, WolHandInv, WolSpent
<1> DEFINE g == wolGrants[d]
<1>1. wolClock \in Nat /\ wolClock \in 0..WolHorizon /\ WolGrantsInv(wolBucket[d], g, wolClock)
  BY DEF WolHandInv
<1> HIDE DEF g
<1>2. /\ g \in [0..WolHorizon -> Nat] /\ \A t \in (wolClock + 1)..WolHorizon : g[t] = 0
      /\ \A x, c \in 0..wolClock : x <= c => WolSpent(g, x, c) <= WolBurst + (c - x)
  BY <1>1 DEF WolGrantsInv
<1>3. CASE b <= wolClock
  <2>1. a \in 0..wolClock /\ b \in 0..wolClock
    BY <1>1, <1>3
  <2> QED BY <1>2, <2>1 DEF g
<1>4. CASE b > wolClock /\ a <= wolClock
  <2>1. a \in 0..wolClock /\ b \in wolClock..WolHorizon /\ wolClock \in 0..wolClock /\ a <= wolClock
    BY <1>1, <1>4
  <2>2. WolSpent(g, a, b) = WolSpent(g, a, wolClock)
    BY <1>1, <1>2, <2>1, WolSpentTail
  <2>3. WolSpent(g, a, wolClock) <= WolBurst + (wolClock - a)
    BY <1>2, <2>1
  <2>4. WolSpent(g, a, wolClock) \in Nat
    <3>1. a \in Nat /\ wolClock \in Int /\ wolClock <= WolHorizon
      BY <1>1
    <3> QED BY <1>2, <3>1, WolSpentIs
  <2>5. WolSpent(g, a, b) <= WolBurst + (b - a)
    BY <1>1, <1>4, <2>2, <2>3, <2>4
  <2> QED BY <2>5 DEF g
<1>5. CASE a > wolClock
  <2> DEFINE s == a..b
  <2>1. IsFiniteSet(s) /\ \A t \in s : g[t] = 0
    <3>1. a \in Nat /\ b \in Int /\ b <= WolHorizon
      OBVIOUS
    <3>2. IsFiniteSet(s)
      BY <1>2, <3>1, WolSpentIs
    <3>3. \A t \in s : t \in (wolClock + 1)..WolHorizon
      BY <1>1, <1>5
    <3> QED BY <1>2, <3>2, <3>3
  <2> HIDE DEF s
  <2>2. SumFunctionOnSet(g, s) = Cardinality(s) * 0 /\ Cardinality(s) \in Nat
    BY <2>1, SumConstant, FS_CardinalityType
  <2>3. SumFunctionOnSet(g, s) = 0
    BY <2>2
  <2>4. WolSpent(g, a, b) = 0
    BY <2>3 DEF WolSpent, s
  <2> QED BY <2>4 DEF g
<1> QED BY <1>1, <1>3, <1>4, <1>5

\* Together they are the type invariant.
LEMMA WolTyped ==
    ASSUME WolInv, WolHandInv PROVE WolTypeOK
<1> USE WolConstants
<1> DEFINE D == WolDayOf(wolLoop.plan.from)
           z == WolDays + 1
           p == wolLoop.plan
<1>1. /\ wolNow \in Nat /\ wolNow < WolStart[WolDays] /\ wolSince \in Nat /\ wolSince <= wolNow
      /\ WolPlanOn(p, D) /\ WolStart[D + 1] \in Nat
  BY WolStateIs
<1>2. WolStart[WolDays] \in Nat /\ WolStart[z] \in Nat /\ WolStart[WolDays] < WolStart[z]
  <2>1. WolDays \in 0..(WolDays + 1) /\ z \in 0..(WolDays + 1) /\ WolDays \in 0..WolDays
    OBVIOUS
  <2>2. WolStart[z] \in Nat
    <3> HIDE DEF z
    <3> QED BY <2>1, WolStartIs
  <2> QED BY <2>1, <2>2, WolStartIs
<1>3. WolSpan = 0..WolStart[z]
  BY DEF WolSpan
<1>4. \A t \in Nat : t < WolStart[WolDays] => t \in WolSpan
  <2> HIDE DEF z
  <2> QED BY <1>2, <1>3
<1>5. wolNow \in WolSpan /\ wolSince \in WolSpan
  BY <1>1, <1>2, <1>4
<1>6. wolTroubles \subseteq [from : WolSpan, to : WolSpan]
  <2> SUFFICES ASSUME NEW s \in wolTroubles PROVE s \in [from : WolSpan, to : WolSpan]
    OBVIOUS
  <2>1. s \in [from : Nat, to : Nat] /\ s.from < s.to /\ s.to <= wolNow
    BY DEF WolInv, WolClockInv, WolSpans
  <2>2. s.from \in WolSpan /\ s.to \in WolSpan
    BY <1>1, <1>2, <1>4, <2>1
  <2> QED BY <2>1, <2>2
<1>7. wolSent \subseteq [tick : WolSpan, when : WolSpan]
  <2> SUFFICES ASSUME NEW s \in wolSent PROVE s \in [tick : WolSpan, when : WolSpan]
    OBVIOUS
  <2>1. s \in [tick : Nat, when : Nat] /\ s.when <= wolNow /\ s.tick < WolStart[WolDays]
    BY DEF WolInv, WolSentInv
  <2>2. s.tick \in WolSpan /\ s.when \in WolSpan
    BY <1>1, <1>2, <1>4, <2>1
  <2> QED BY <2>1, <2>2
<1>8. p \in [from : WolSpan, to : WolSpan, every : Nat \ {0}]
  <2>1. p \in [from : Nat, to : Nat, every : Nat \ {0}] /\ p.from <= p.to /\ p.to < WolStart[D + 1]
    BY <1>1 DEF WolPlanOn
  <2>2. WolStart[D + 1] <= WolStart[WolDays]
    BY <1>1, WolPlanDay
  <2>3. p.from \in WolSpan /\ p.to \in WolSpan
    <3> HIDE DEF D, p
    <3> QED BY <1>1, <1>2, <1>4, <2>1, <2>2
  <2> HIDE DEF p
  <2> QED BY <2>1, <2>3
<1>9. wolLoop \in [pc : {"none", "day", "plan", "wait", "fire", "sleep"}, left : 0..2 * WolDayLength,
                   at : Nat, plan : [from : WolSpan, to : WolSpan, every : Nat \ {0}]]
  <2>1. wolLoop \in [pc : {"none", "day", "plan", "wait", "fire", "sleep"}, left : 0..WolDayLength,
                     at : Nat, plan : [from : Nat, to : Nat, every : Nat \ {0}]]
    BY DEF WolInv, WolLoopInv
  <2>2. \A n \in 0..WolDayLength : n \in 0..2 * WolDayLength
    OBVIOUS
  <2> QED BY <1>8, <2>1, <2>2
<1>10. /\ {wolConf, wolLive} \subseteq WolSchedules \union {WolOff}
       /\ {wolCancelled, wolClosed} \subseteq BOOLEAN
       /\ wolLife \in {"free", "reload", "close"} /\ wolGen \in 0..WolMaxGens
  BY DEF WolInv, WolLifeInv, WolAll, WolClockInv
<1>11. /\ wolClock \in 0..WolHorizon /\ wolUp \subseteq WolNics
       /\ wolCache \in [list : SUBSET WolNics, at : 0..WolHorizon]
       /\ wolLastGC \in 0..WolHorizon
       /\ wolAnswer \in [of : WolDevices \union {"auto"}, ok : BOOLEAN, up : SUBSET WolNics]
  BY DEF WolHandInv
<1>12. wolBucket \in [WolDevices -> [tokens : 0..WolBurst, last : -1..WolHorizon]]
  <2>1. \A d \in WolDevices : wolBucket[d] \in [tokens : 0..WolBurst, last : -1..WolHorizon]
    <3> TAKE d \in WolDevices
    <3>1. wolBucket[d] \in [tokens : 0..WolBurst, last : -1..wolClock]
      BY DEF WolHandInv, WolBucketInv
    <3>2. \A n \in -1..wolClock : n \in -1..WolHorizon
      BY <1>11
    <3> QED BY <3>1, <3>2
  <2>2. wolBucket = [d \in WolDevices |-> wolBucket[d]]
    BY DEF WolHandInv
  <2> QED BY <2>1, <2>2
<1>13. wolGrants \in [WolDevices -> [0..WolHorizon -> Nat]]
  <2>1. \A d \in WolDevices : wolGrants[d] \in [0..WolHorizon -> Nat]
    BY DEF WolHandInv, WolGrantsInv
  <2>2. wolGrants = [d \in WolDevices |-> wolGrants[d]]
    BY DEF WolHandInv
  <2> QED BY <2>1, <2>2
<1> QED BY <1>5, <1>6, <1>7, <1>9, <1>10, <1>11, <1>12, <1>13 DEF WolTypeOK

\* And what the run checks.
LEMMA WolShows ==
    ASSUME WolInv, WolHandInv PROVE WolTypeOK /\ WakesAreServed
BY WolServedShows, WolHandShows, WolTyped DEF WakesAreServed
=============================================================================
