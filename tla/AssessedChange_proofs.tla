------------------------- MODULE AssessedChange_proofs -------------------------
(***************************************************************************)
(* Theorems about AssessedChange for every set of identities, offers and   *)
(* drafts, every bound of the clock and of the observations, and every     *)
(* limit of the report.                                                    *)
(***************************************************************************)
EXTENDS AssessedChange, FiniteSetTheorems, SequenceTheorems, TLAPS

-----------------------------------------------------------------------------
(* Numbers *)

\* Natural numbers are well founded, so a set of them that has an element has a
\* least one.
LEMMA LeastNatural ==
    ASSUME NEW T, T \subseteq Nat, T # {}
    PROVE  \E n \in T : \A m \in T : n <= m
<1> DEFINE R == OpToRel(<, Nat)
<1>1. IsWellFoundedOn(R, Nat)
  BY NatLessThanWellFounded
<1>2. \A U \in SUBSET Nat : U # {} => \E x \in U : \A y \in U : ~(<<y, x>> \in R)
  <2> HIDE DEF R
  <2> SUFFICES ASSUME NEW U \in SUBSET Nat, U # {}
               PROVE  \E x \in U : \A y \in U : ~(<<y, x>> \in R)
    OBVIOUS
  <2>1. QED
    BY <1>1, WFMin
<1>3. \A x, y \in Nat : y < x => <<y, x>> \in R
  BY DEF OpToRel
<1> HIDE DEF R
<1>4. PICK x \in T : \A y \in T : ~(<<y, x>> \in R)
  BY <1>2
<1>5. ASSUME NEW y \in T
      PROVE  x <= y
  <2>1. x \in Nat /\ y \in Nat
    OBVIOUS
  <2>2. ~(y < x)
    BY <2>1, <1>3, <1>4
  <2>3. QED
    BY <2>1, <2>2
<1>6. QED
  BY <1>5

\* What Min and Max of the library give on the sets they are used on.
LEMMA MinOfNaturals ==
    ASSUME NEW T, T \subseteq Nat, T # {}
    PROVE  Min(T) \in T /\ \A m \in T : Min(T) <= m
BY LeastNatural DEF Min

LEMMA MinOfTwo ==
    ASSUME NEW a \in Int, NEW b \in Int
    PROVE  Min({a, b}) = IF a <= b THEN a ELSE b
<1> DEFINE m == IF a <= b THEN a ELSE b
<1>1. m \in {a, b} /\ \A x \in {a, b} : m <= x
  OBVIOUS
<1>2. \A y \in {a, b} : (\A x \in {a, b} : y <= x) => y = m
  OBVIOUS
<1>3. QED
  BY <1>1, <1>2 DEF Min

LEMMA MaxOfTwo ==
    ASSUME NEW a \in Int, NEW b \in Int
    PROVE  Max({a, b}) = IF a <= b THEN b ELSE a
<1> DEFINE m == IF a <= b THEN b ELSE a
<1>1. m \in {a, b} /\ \A x \in {a, b} : m >= x
  OBVIOUS
<1>2. \A y \in {a, b} : (\A x \in {a, b} : y >= x) => y = m
  OBVIOUS
<1>3. QED
  BY <1>1, <1>2 DEF Max

\* Division by a positive number is monotone, and a part is at most 100 percent.
LEMMA Product ==
    ASSUME NEW n \in Nat, NEW q \in Int, NEW r \in Int, r < q
    PROVE  n * r + n <= n * q
<1>1. PICK k \in Nat : q = r + 1 + k
  <2>1. q - r - 1 \in Nat /\ q = r + 1 + (q - r - 1)
    OBVIOUS
  <2>2. QED
    BY <2>1
<1>2. n * q = n * r + n + n * k
  BY <1>1
<1>3. n * k \in Nat /\ n * r \in Int
  BY <1>1
<1>4. QED
  BY <1>2, <1>3

LEMMA Quotient ==
    ASSUME NEW a \in Nat, NEW n \in Nat \ {0}
    PROVE  /\ a \div n \in Nat
           /\ n * (a \div n) <= a
           /\ a < n * (a \div n) + n
OBVIOUS

LEMMA DivMonotone ==
    ASSUME NEW a \in Nat, NEW b \in Nat, NEW n \in Nat \ {0}, a <= b
    PROVE  a \div n <= b \div n
<1> DEFINE q == a \div n
           r == b \div n
<1>1. q \in Nat /\ n * q <= a
  BY Quotient
<1>2. r \in Nat /\ b < n * r + n
  BY Quotient
<1> HIDE DEF q, r
<1>3. ~(r < q)
  <2> SUFFICES ASSUME r < q PROVE FALSE
    OBVIOUS
  <2>1. n * r + n <= n * q
    BY <1>1, <1>2, Product
  <2>2. n * r \in Int /\ n * q \in Int
    BY <1>1, <1>2
  <2>3. QED
    BY <1>1, <1>2, <2>1, <2>2
<1>4. QED
  BY <1>1, <1>2, <1>3 DEF q, r

LEMMA Percent ==
    ASSUME NEW a \in Nat, NEW n \in Nat \ {0}, a <= n
    PROVE  (100 * a) \div n \in 0..100
<1> DEFINE q == (100 * a) \div n
<1>1. q \in Nat /\ n * q <= 100 * a
  BY Quotient
<1> HIDE DEF q
<1>2. ~(100 < q)
  <2> SUFFICES ASSUME 100 < q PROVE FALSE
    OBVIOUS
  <2>1. n * 100 + n <= n * q
    BY <1>1, Product
  <2>2. n * q \in Int
    BY <1>1
  <2>3. QED
    BY <1>1, <2>1, <2>2
<1>3. QED
  BY <1>1, <1>2 DEF q

-----------------------------------------------------------------------------
(* Finite sets and the sequences made of them *)

\* A function that tells the members of a finite set apart counts them.
LEMMA SameSize ==
    ASSUME NEW S, NEW T, IsFiniteSet(S), NEW f \in [S -> T],
           \A x, y \in S : f[x] = f[y] => x = y, \A t \in T : \E x \in S : t = f[x]
    PROVE  IsFiniteSet(T) /\ Cardinality(T) = Cardinality(S)
<1>1. f \in Surjection(S, T)
  BY DEF Surjection
<1>2. f \in Injection(S, T)
  BY DEF Injection, IsInjective
<1>3. QED
  BY <1>1, <1>2, FS_Surjection

LEMMA ImageIsFinite ==
    ASSUME NEW S, NEW T, IsFiniteSet(S), NEW f \in [S -> T], \A t \in T : \E x \in S : t = f[x]
    PROVE  IsFiniteSet(T)
<1>1. f \in Surjection(S, T)
  BY DEF Surjection
<1>2. QED
  BY <1>1, FS_Surjection

\* SetToSeq lists every member once.
LEMMA Listed ==
    ASSUME NEW S, IsFiniteSet(S)
    PROVE  /\ SetToSeq(S) \in Seq(S)
           /\ Len(SetToSeq(S)) = Cardinality(S)
           /\ ToSet(SetToSeq(S)) = S
<1> DEFINE n == Cardinality(S)
           s == SetToSeq(S)
<1>1. n \in Nat /\ ExistsBijection(1..n, S)
  BY FS_CardinalityType
<1>2. \E f \in [1..n -> S] : IsInjective(f)
  <2>1. PICK f : f \in Bijection(1..n, S)
    BY <1>1 DEF ExistsBijection
  <2>2. f \in [1..n -> S] /\ IsInjective(f)
    BY <2>1 DEF Bijection, Injection, Surjection, IsInjective
  <2>3. QED
    BY <2>2
<1>3. s \in [1..n -> S] /\ IsInjective(s)
  BY <1>2 DEF SetToSeq
<1> HIDE DEF s, n
<1>4. s \in Injection(1..n, S)
  BY <1>3 DEF Injection, IsInjective
<1>5. Cardinality(1..n) = n
  BY <1>1, FS_Interval
<1>6. s \in Surjection(1..n, S)
  BY <1>4, <1>5, FS_Injection DEF n
<1>7. ToSet(s) = S
  BY <1>6, <1>3 DEF Surjection, ToSet
<1>8. s \in Seq(S) /\ Len(s) = n
  BY <1>1, <1>3
<1>9. QED
  BY <1>7, <1>8 DEF s, n

\* Sequences of one element, and the elements of a concatenation.
LEMMA Single ==
    ASSUME NEW S, NEW x \in S
    PROVE  << x >> \in Seq(S) /\ Len(<< x >>) = 1 /\ ToSet(<< x >>) = {x}
<1>1. << x >> = [i \in 1..1 |-> x]
  OBVIOUS
<1>2. << x >> \in [1..1 -> S]
  BY <1>1
<1>3. QED
  BY <1>1, <1>2 DEF ToSet

LEMMA Concatenated ==
    ASSUME NEW S, NEW s \in Seq(S), NEW t \in Seq(S)
    PROVE  /\ s \o t \in Seq(S)
           /\ Len(s \o t) = Len(s) + Len(t)
           /\ ToSet(s \o t) = ToSet(s) \cup ToSet(t)
<1>1. Len(s) \in Nat /\ Len(t) \in Nat /\ DOMAIN s = 1..Len(s) /\ DOMAIN t = 1..Len(t)
  OBVIOUS
<1>2. /\ s \o t \in Seq(S)
      /\ Len(s \o t) = Len(s) + Len(t)
      /\ DOMAIN (s \o t) = 1..(Len(s) + Len(t))
      /\ \A i \in 1..(Len(s) + Len(t)) :
             (s \o t)[i] = IF i <= Len(s) THEN s[i] ELSE t[i - Len(s)]
  BY ConcatProperties
<1>3. ASSUME NEW x \in ToSet(s \o t)
      PROVE  x \in ToSet(s) \cup ToSet(t)
  <2>1. PICK i \in 1..(Len(s) + Len(t)) : x = (s \o t)[i]
    BY <1>2 DEF ToSet
  <2>2. CASE i <= Len(s)
    BY <1>1, <1>2, <2>1, <2>2 DEF ToSet
  <2>3. CASE ~(i <= Len(s))
    <3>1. i - Len(s) \in 1..Len(t) /\ x = t[i - Len(s)]
      BY <1>1, <1>2, <2>1, <2>3
    <3>2. QED
      BY <1>1, <3>1 DEF ToSet
  <2>4. QED
    BY <2>2, <2>3
<1>4. ASSUME NEW x \in ToSet(s)
      PROVE  x \in ToSet(s \o t)
  <2>1. PICK i \in 1..Len(s) : x = s[i]
    BY <1>1 DEF ToSet
  <2>2. i \in 1..(Len(s) + Len(t)) /\ (s \o t)[i] = x
    BY <1>1, <1>2, <2>1
  <2>3. QED
    BY <1>2, <2>2 DEF ToSet
<1>5. ASSUME NEW x \in ToSet(t)
      PROVE  x \in ToSet(s \o t)
  <2>1. PICK i \in 1..Len(t) : x = t[i]
    BY <1>1 DEF ToSet
  <2>2. i + Len(s) \in 1..(Len(s) + Len(t)) /\ ~(i + Len(s) <= Len(s)) /\ (i + Len(s)) - Len(s) = i
    BY <1>1, <2>1
  <2>3. (s \o t)[i + Len(s)] = x
    BY <1>2, <2>1, <2>2
  <2>4. QED
    BY <1>2, <2>2, <2>3 DEF ToSet
<1>6. QED
  BY <1>2, <1>3, <1>4, <1>5

-----------------------------------------------------------------------------
(* One entry of the aggregate for each identity *)

\* What can arrive.
Arrivable == [key : {o.key : o \in Offers}, status : {o.status : o \in Offers},
              collected : Int, until : Int,
              confidence : {o.confidence : o \in Offers}, code : {o.code : o \in Offers}]

\* The observation of an identity, and what the aggregate makes of it.
Heard(arr, k) == \E x \in ToSet(arr) : x.key = k

Word(arr, k) == CHOOSE x \in ToSet(arr) : x.key = k

Entry(arr, at, k) ==
    IF Heard(arr, k) THEN Projected(Word(arr, k), at) ELSE Unavailable(k, at, "MISSING")

\* by_key holds all that arrived, as no identity arrived twice.
LEMMA AllObserved ==
    ASSUME NEW arr \in Seq(Arrivable), Aggregable(arr)
    PROVE  /\ Observed(arr) = ToSet(arr)
           /\ \A x, y \in ToSet(arr) : x.key = y.key => x = y
           /\ \A x \in ToSet(arr) : x \in Arrivable /\ ValidEvidence(x) /\ x.key \in Keys
<1>1. DOMAIN arr \subseteq Nat /\ \A i \in DOMAIN arr : arr[i] \in Arrivable
  OBVIOUS
<1>2. \A i, j \in DOMAIN arr : arr[i].key = arr[j].key => i = j
  BY DEF Aggregable
<1>3. {j \in DOMAIN arr : \A k \in DOMAIN arr : arr[k].key = arr[j].key => k <= j} = DOMAIN arr
  <2>1. ASSUME NEW j \in DOMAIN arr, NEW k \in DOMAIN arr, arr[k].key = arr[j].key
        PROVE  k <= j
    BY <1>1, <1>2, <2>1
  <2>2. QED
    BY <2>1
<1>4. Observed(arr) = ToSet(arr)
  BY <1>3 DEF Observed, ToSet
<1>5. QED
  BY <1>1, <1>2, <1>4 DEF ToSet, Aggregable

LEMMA HeardWord ==
    ASSUME NEW arr \in Seq(Arrivable), Aggregable(arr), NEW x \in ToSet(arr)
    PROVE  Heard(arr, x.key) /\ Word(arr, x.key) = x
BY AllObserved DEF Heard, Word

LEMMA KeyOfEntry ==
    ASSUME NEW arr, NEW at, NEW k
    PROVE  Entry(arr, at, k).key = k
<1>1. CASE Heard(arr, k)
  <2>1. Word(arr, k).key = k
    BY <1>1 DEF Heard, Word
  <2>2. QED
    BY <1>1, <2>1 DEF Entry, Projected, Unavailable
<1>2. CASE ~Heard(arr, k)
  BY <1>2 DEF Entry, Unavailable
<1>3. QED
  BY <1>1, <1>2

LEMMA AggregateIsEntries ==
    ASSUME NEW arr \in Seq(Arrivable), Aggregable(arr), NEW at
    PROVE  Aggregate(arr, at) = {Entry(arr, at, k) : k \in Keys}
<1>1. ASSUME NEW e \in Aggregate(arr, at)
      PROVE  \E k \in Keys : e = Entry(arr, at, k)
  <2>1. CASE \E x \in ToSet(arr) : e = Projected(x, at)
    <3>1. PICK x \in ToSet(arr) : e = Projected(x, at)
      BY <2>1
    <3>2. x.key \in Keys /\ e = Entry(arr, at, x.key)
      BY <3>1, AllObserved, HeardWord DEF Entry
    <3>3. QED
      BY <3>2
  <2>2. CASE \E k \in Keys \ {x.key : x \in ToSet(arr)} : e = Unavailable(k, at, "MISSING")
    BY <2>2 DEF Entry, Heard
  <2>3. QED
    BY <2>1, <2>2, AllObserved DEF Aggregate
<1>2. ASSUME NEW k \in Keys
      PROVE  Entry(arr, at, k) \in Aggregate(arr, at)
  <2>1. CASE Heard(arr, k)
    <3>1. Word(arr, k) \in ToSet(arr)
      BY <2>1 DEF Heard, Word
    <3>2. QED
      BY <2>1, <3>1, AllObserved DEF Aggregate, Entry
  <2>2. CASE ~Heard(arr, k)
    BY <2>2, AllObserved DEF Aggregate, Entry, Heard
  <2>3. QED
    BY <2>1, <2>2
<1>3. QED
  BY <1>1, <1>2

-----------------------------------------------------------------------------
(* The order in which observations arrive *)

\* What an assessment says depends on its evidence only through the aggregate.
LEMMA SameAggregateSameContract ==
    ASSUME NEW d, NEW at, NEW a, NEW b, Aggregate(a, at) = Aggregate(b, at)
    PROVE  /\ Contract(d, a, at) = Contract(d, b, at)
           /\ Aggregable(a) /\ Accepted(d, b, at) => Accepted(d, a, at)
BY DEF Contract, Accepted

\* Any order of the same observations is taken as well, and aggregates the same.
LEMMA Reordered ==
    ASSUME NEW arr \in Seq(Arrivable), Aggregable(arr), NEW p \in Bijection(DOMAIN arr, DOMAIN arr), NEW at
    PROVE  LET again == [i \in DOMAIN arr |-> arr[p[i]]] IN
           Aggregable(again) /\ Aggregate(again, at) = Aggregate(arr, at)
<1> DEFINE D == DOMAIN arr
           again == [i \in D |-> arr[p[i]]]
<1>1. p \in [D -> D] /\ \A w \in D : \E v \in D : p[v] = w
  BY DEF Bijection, Surjection
<1>2. \A i, j \in D : p[i] = p[j] => i = j
  BY DEF Bijection, Injection, IsInjective
<1>3. again \in Seq(Arrivable) /\ DOMAIN again = D
  <2>1. D = 1..Len(arr) /\ Len(arr) \in Nat /\ \A i \in D : arr[p[i]] \in Arrivable
    BY <1>1
  <2> HIDE DEF D
  <2>2. QED
    BY <2>1
<1>4. ToSet(again) = ToSet(arr)
  BY <1>1 DEF ToSet
<1>5. Aggregable(again)
  BY <1>1, <1>2 DEF Aggregable
<1>6. Observed(again) = Observed(arr)
  BY <1>3, <1>4, <1>5, AllObserved
<1>7. QED
  BY <1>5, <1>6 DEF Aggregate

-----------------------------------------------------------------------------
(* What is kept of an assessment *)

Typed ==
    /\ clock \in Nat /\ draft \in Drafts
    /\ arrived \in Seq(Arrivable)

\* The assessment is the contract of the draft and of all that arrived, at an
\* instant that has passed: neither changes while there is one.
Justified ==
    assessment # Nothing =>
        /\ assessment.at \in 0..clock
        /\ Accepted(draft, arrived, assessment.at)
        /\ assessment = Contract(draft, arrived, assessment.at)

AssessedInv == Typed /\ Justified

LEMMA InitAssessed == Init => AssessedInv
BY DEF Init, AssessedInv, Typed, Justified

LEMMA InstantOfContract ==
    ASSUME NEW d, NEW arr, NEW at
    PROVE  Contract(d, arr, at).at = at
BY DEF Contract, Evaluate

LEMMA NextAssessed == AssessedInv /\ [Next]_vars => AssessedInv'
<1> SUFFICES ASSUME AssessedInv, [Next]_vars
             PROVE  AssessedInv'
  OBVIOUS
<1> USE DEF AssessedInv, Typed, Justified
<1>1. CASE Tick
  <2>1. Typed'
    BY <1>1 DEF Tick
  <2>2. Justified'
    BY <1>1 DEF Tick
  <2>3. QED
    BY <2>1, <2>2
<1>2. CASE Collect
  <2>1. PICK o \in Offers : arrived' = Append(arrived, Observation(o))
    BY <1>2 DEF Collect
  <2>2. Observation(o) \in Arrivable
    BY OffersAssumption DEF Observation, Arrivable
  <2>3. arrived' \in Seq(Arrivable)
    BY <2>1, <2>2
  <2>4. QED
    BY <1>2, <2>3 DEF Collect
<1>3. CASE Assess
  BY <1>3, InstantOfContract DEF Assess
<1>4. CASE Refuse
  BY <1>4 DEF Refuse
<1>5. CASE UNCHANGED vars
  BY <1>5 DEF vars
<1>6. QED
  BY <1>1, <1>2, <1>3, <1>4, <1>5 DEF Next

\* Whatever is assessed, and however often, the assessment in hand is the one of
\* this draft and of all the evidence that arrived.
THEOREM Invariance == Spec => []AssessedInv
<1>1. QED
  BY InitAssessed, NextAssessed, PTL DEF Spec

\* The order in which evidence arrives makes no difference to what is said of
\* the change, nor to whether it is assessed at all.
THEOREM OrderIsIrrelevant == Spec => []ArrivalOrderIrrelevant
<1>1. AssessedInv => ArrivalOrderIrrelevant
  <2> SUFFICES ASSUME AssessedInv, assessment # Nothing,
                      NEW p \in Bijection(DOMAIN arrived, DOMAIN arrived)
               PROVE  LET again == [i \in DOMAIN arrived |-> arrived[p[i]]] IN
                      /\ Accepted(draft, again, assessment.at)
                      /\ Contract(draft, again, assessment.at) = assessment
    BY DEF ArrivalOrderIrrelevant
  <2> DEFINE again == [i \in DOMAIN arrived |-> arrived[p[i]]]
             at == assessment.at
  <2>1. arrived \in Seq(Arrivable) /\ Aggregable(arrived)
    BY DEF AssessedInv, Typed, Justified, Accepted
  <2>2. Aggregable(again) /\ Aggregate(again, at) = Aggregate(arrived, at)
    BY <2>1, Reordered
  <2>3. QED
    BY <2>2, SameAggregateSameContract DEF AssessedInv, Justified
<1>2. QED
  BY <1>1, Invariance, PTL

-----------------------------------------------------------------------------
(* The findings of a draft *)

\* Induction over the places of a sequence.
LEMMA IntervalInduction ==
    ASSUME NEW n \in Nat, NEW T, 0 \in T, \A k \in 1..n : k - 1 \in T => k \in T
    PROVE  \A k \in 0..n : k \in T
<1> DEFINE Out == {k \in 0..n : k \notin T}
<1>1. SUFFICES ASSUME Out # {} PROVE FALSE
  OBVIOUS
<1>2. PICK m \in Out : \A k \in Out : m <= k
  <2>1. Out \subseteq Nat
    OBVIOUS
  <2>2. QED
    BY <1>1, <2>1, LeastNatural
<1>3. m \in 1..n /\ m - 1 \in 0..n /\ ~(m <= m - 1)
  BY <1>2
<1>4. m - 1 \in T
  BY <1>2, <1>3
<1>5. QED
  BY <1>2, <1>3, <1>4

\* A function may be defined from place to place.
Recursive(f, n, a, step) ==
    f = [i \in 0..n |-> IF i = 0 THEN a ELSE step[<<f[i - 1], i>>]]

LEMMA Recursion ==
    ASSUME NEW n \in Nat, NEW V, NEW a \in V, NEW step \in [V \X (1..n) -> V]
    PROVE  \E f \in [0..n -> V] : Recursive(f, n, a, step)
<1> DEFINE Steps(f, k) == f[0] = a /\ \A i \in 1..k : f[i] = step[<<f[i - 1], i>>]
           T == {k \in 0..n : \E f \in [0..k -> V] : Steps(f, k)}
<1>1. 0 \in T
  <2> DEFINE f == [i \in 0..0 |-> a]
  <2>1. f \in [0..0 -> V] /\ Steps(f, 0)
    OBVIOUS
  <2> HIDE DEF f, Steps
  <2>2. QED
    BY <2>1
<1>2. ASSUME NEW k \in 1..n, k - 1 \in T
      PROVE  k \in T
  <2>1. PICK g \in [0..(k - 1) -> V] : Steps(g, k - 1)
    BY <1>2
  <2> DEFINE f == [i \in 0..k |-> IF i = k THEN step[<<g[k - 1], k>>] ELSE g[i]]
  <2>2. k - 1 \in 0..(k - 1) /\ g[k - 1] \in V /\ step[<<g[k - 1], k>>] \in V
    BY <2>1
  <2>3. \A i \in 0..k : i # k => i \in 0..(k - 1) /\ g[i] \in V
    BY <2>1
  <2>4. f \in [0..k -> V]
    BY <2>2, <2>3
  <2>5. ASSUME NEW i \in 1..k
        PROVE  f[i] = step[<<f[i - 1], i>>]
    <3>1. i - 1 \in 0..k /\ i - 1 # k /\ f[i - 1] = g[i - 1]
      OBVIOUS
    <3>2. CASE i = k
      BY <3>1, <3>2
    <3>3. CASE i # k
      <4>1. i \in 1..(k - 1)
        BY <3>3
      <4>2. f[i] = g[i] /\ g[i] = step[<<g[i - 1], i>>]
        BY <2>1, <3>3, <4>1
      <4>3. QED
        BY <3>1, <4>2
    <3>4. QED
      BY <3>2, <3>3
  <2>6. f[0] = a
    <3>1. 0 # k /\ 0 \in 0..k
      OBVIOUS
    <3>2. QED
      BY <2>1, <3>1
  <2> HIDE DEF f
  <2>7. Steps(f, k)
    BY <2>5, <2>6
  <2> HIDE DEF Steps
  <2>8. QED
    BY <2>4, <2>7
<1>3. n \in T
  <2> HIDE DEF T
  <2>1. \A k \in 0..n : k \in T
    BY <1>1, <1>2, IntervalInduction
  <2>2. QED
    BY <2>1
<1>4. PICK f \in [0..n -> V] : Steps(f, n)
  BY <1>3
<1>5. \A i \in 0..n : f[i] = IF i = 0 THEN a ELSE step[<<f[i - 1], i>>]
  BY <1>4
<1>6. f = [i \in 0..n |-> f[i]]
  BY <1>4
<1>7. Recursive(f, n, a, step)
  BY <1>5, <1>6 DEF Recursive
<1>8. QED
  BY <1>7

\* The library's concatenation of a sequence of sequences.
LEMMA Flattened ==
    ASSUME NEW X, NEW ss \in Seq(Seq(X))
    PROVE  FlattenSeq(ss) \in Seq(X)
<1> DEFINE n == Len(ss)
           step == [p \in Seq(X) \X (1..n) |-> p[1] \o ss[p[2]]]
           F == CHOOSE f : f = [i \in 1..n |-> IF i = 1 THEN ss[i] ELSE f[i - 1] \o ss[i]]
<1>1. n \in Nat /\ \A i \in 1..n : ss[i] \in Seq(X)
  OBVIOUS
<1>2. CASE n = 0
  <2>1. ss = <<>>
    BY <1>2, EmptySeq
  <2>2. FlattenSeq(ss) = <<>>
    BY <1>2, <2>1 DEF FlattenSeq
  <2>3. QED
    BY <2>2
<1>3. CASE n # 0
  <2>1. FlattenSeq(ss) = F[n]
    BY <1>3 DEF FlattenSeq
  <2> HIDE DEF n
  <2>2. PICK f \in [0..n -> Seq(X)] : Recursive(f, n, <<>>, step)
    <3>1. step \in [Seq(X) \X (1..n) -> Seq(X)]
      BY <1>1
    <3>2. <<>> \in Seq(X)
      OBVIOUS
    <3> HIDE DEF step
    <3>3. QED
      BY <1>1, <3>1, <3>2, Recursion
  <2>3. /\ f[0] = <<>>
        /\ \A i \in 1..n : f[i] = f[i - 1] \o ss[i] /\ f[i - 1] \in Seq(X)
    <3>1. \A i \in 0..n : f[i] = IF i = 0 THEN <<>> ELSE step[<<f[i - 1], i>>]
      BY <2>2 DEF Recursive
    <3>2. \A i \in 1..n : i \in 0..n /\ i # 0 /\ i - 1 \in 0..n
      BY <1>1
    <3>3. \A i \in 1..n : f[i - 1] \in Seq(X)
      BY <3>2
    <3>4. \A i \in 1..n : f[i - 1] \in Seq(X) => step[<<f[i - 1], i>>] = f[i - 1] \o ss[i]
      OBVIOUS
    <3>5. 0 \in 0..n
      BY <1>1
    <3> HIDE DEF step
    <3>6. QED
      BY <3>1, <3>2, <3>3, <3>4, <3>5
  <2> DEFINE g == [i \in 1..n |-> f[i]]
  <2>4. g = [i \in 1..n |-> IF i = 1 THEN ss[i] ELSE g[i - 1] \o ss[i]]
    <3>1. ASSUME NEW i \in 1..n
          PROVE  g[i] = IF i = 1 THEN ss[i] ELSE g[i - 1] \o ss[i]
      <4>1. g[i] = f[i - 1] \o ss[i] /\ ss[i] \in Seq(X)
        BY <1>1, <2>3
      <4>2. CASE i = 1
        <5>1. f[i - 1] = <<>>
          BY <2>3, <4>2
        <5>2. g[i] = ss[i]
          BY <4>1, <5>1
        <5>3. QED
          BY <4>2, <5>2
      <4>3. CASE i # 1
        <5>1. i - 1 \in 1..n
          BY <1>1, <4>3
        <5>2. g[i - 1] = f[i - 1]
          BY <5>1
        <5>3. QED
          BY <4>1, <4>3, <5>2
      <4>4. QED
        BY <4>2, <4>3
    <3>2. g = [i \in 1..n |-> g[i]]
      OBVIOUS
    <3> HIDE DEF g
    <3>3. QED
      BY <3>1, <3>2
  <2>5. F = [i \in 1..n |-> IF i = 1 THEN ss[i] ELSE F[i - 1] \o ss[i]]
    <3> HIDE DEF g
    <3>1. QED
      BY <2>4
  <2> HIDE DEF F, g
  <2> DEFINE T == {i \in 0..n : i = 0 \/ F[i] \in Seq(X)}
  <2>6. ASSUME NEW k \in 1..n, k - 1 \in T
        PROVE  k \in T
    <3>1. k \in 0..n /\ F[k] = IF k = 1 THEN ss[k] ELSE F[k - 1] \o ss[k]
      <4>1. k \in 0..n
        BY <1>1
      <4>2. F[k] = IF k = 1 THEN ss[k] ELSE F[k - 1] \o ss[k]
        BY <2>5
      <4>3. QED
        BY <4>1, <4>2
    <3>2. ss[k] \in Seq(X) /\ (k # 1 => F[k - 1] \in Seq(X))
      BY <1>1, <2>6
    <3>3. F[k] \in Seq(X)
      <4>1. CASE k = 1
        BY <3>1, <3>2, <4>1
      <4>2. CASE k # 1
        <5>1. F[k - 1] \in Seq(X) /\ F[k] = F[k - 1] \o ss[k]
          BY <3>1, <3>2, <4>2
        <5>2. QED
          BY <3>2, <5>1
      <4>3. QED
        BY <4>1, <4>2
    <3>4. QED
      BY <3>1, <3>3
  <2>7. 0 \in T
    BY <1>1
  <2>8. n \in T
    <3> HIDE DEF T
    <3>1. \A k \in 0..n : k \in T
      BY <1>1, <2>6, <2>7, IntervalInduction
    <3>2. QED
      BY <1>1, <3>1
  <2>9. QED
    BY <1>3, <2>1, <2>8
<1>4. QED
  BY <1>2, <1>3

\* A finding has the id of a rule and a weight: the engine's rules, the
\* validators', the monitoring's, and whatever the scanners have found.
OwnIds ==
    {"production-change", "critical-service", "missing-owner", "missing-runbook",
     "missing-business-impact", "missing-rollback-plan", "missing-monitoring-plan",
     "missing-validation-plan", "database-change", "security-change", "network-change",
     "infrastructure-change", "monitoring-invalid-dashboard-url",
     "monitoring-reference-not-found", "monitoring-reference-disabled",
     "monitoring-insufficient-coverage", "monitoring-required-provider-missing"}

RuleIds == OwnIds \cup {f.id : f \in UNION {ToSet(d.scanned) : d \in Drafts}}

Found == [id : RuleIds, score : Nat]

FoundIn(d) == FindingsOf(d, Resolve(Bundle, PolicyContext(d)))

LEMMA OneFinding ==
    ASSUME NEW id \in RuleIds, NEW score \in Nat
    PROVE  Finding(id, score) \in Found /\ << Finding(id, score) >> \in Seq(Found)
<1>1. Finding(id, score) \in Found
  BY DEF Finding, Found
<1>2. QED
  BY <1>1, Single

LEMMA NoFinding == <<>> \in Seq(Found)
OBVIOUS

LEMMA OwnRuleIds ==
    OwnIds \subseteq RuleIds
BY DEF RuleIds

LEMMA KindsAreFindings ==
    ASSUME NEW kind \in DOMAIN KindRule
    PROVE  << KindRule[kind] >> \in Seq(Found)
<1>1. KindRule[kind] \in {Finding("database-change", 25), Finding("security-change", 25),
                          Finding("network-change", 25), Finding("infrastructure-change", 20)}
  BY DEF KindRule
<1>2. {"database-change", "security-change", "network-change", "infrastructure-change"} \subseteq RuleIds
  BY OwnRuleIds DEF OwnIds
<1>3. KindRule[kind] \in Found
  BY <1>1, <1>2, OneFinding
<1>4. QED
  BY <1>3, Single

LEMMA ServiceRulesAreFindings ==
    ASSUME NEW service, NEW change
    PROVE  ServiceRules(service, change) \in Seq(Found)
<1> DEFINE kind == IF change.kind \in DOMAIN KindRule THEN << KindRule[change.kind] >> ELSE <<>>
           w1 == When(change.production, "production-change", 20)
           w2 == When(service.critical, "critical-service", 25)
           w3 == When(~service.owner, "missing-owner", 25)
           w4 == When(~service.runbook, "missing-runbook", 15)
           w5 == When(~service.impact, "missing-business-impact", 10)
           w6 == When(BadRollback(change), "missing-rollback-plan", 30)
           w7 == When(IncompleteMonitoring(change), "missing-monitoring-plan", 20)
           w8 == When(~change.validation, "missing-validation-plan", 15)
<1>1. kind \in Seq(Found)
  BY KindsAreFindings, NoFinding
<1>2. \A s, t \in Seq(Found) : s \o t \in Seq(Found)
  OBVIOUS
<1>3. w1 \in Seq(Found) /\ w2 \in Seq(Found)
  BY OwnRuleIds, OneFinding, NoFinding DEF When, OwnIds
<1>4. w3 \in Seq(Found) /\ w4 \in Seq(Found)
  BY OwnRuleIds, OneFinding, NoFinding DEF When, OwnIds
<1>5. w5 \in Seq(Found) /\ w6 \in Seq(Found)
  BY OwnRuleIds, OneFinding, NoFinding DEF When, OwnIds
<1>6. w7 \in Seq(Found) /\ w8 \in Seq(Found)
  BY OwnRuleIds, OneFinding, NoFinding DEF When, OwnIds
<1>7. ServiceRules(service, change) = w1 \o w2 \o w3 \o w4 \o w5 \o w6 \o w7 \o w8 \o kind
  BY DEF ServiceRules, kind
<1> HIDE DEF w1, w2, w3, w4, w5, w6, w7, w8, kind
<1>8. QED
  BY <1>1, <1>2, <1>3, <1>4, <1>5, <1>6, <1>7

LEMMA ReferencesAreFindings ==
    ASSUME NEW ids \in Seq(STRING), NEW inventory
    PROVE  ReferenceFindings(ids, inventory) \in Seq(Found)
<1> DEFINE enabledIds == {m.id : m \in Enabled(inventory)}
           Of(i) == When(ids[i] \notin KnownIds(inventory), "monitoring-reference-not-found", 20)
                    \o When(ids[i] \in KnownIds(inventory) \ enabledIds, "monitoring-reference-disabled", 20)
           ss == [i \in DOMAIN ids |-> Of(i)]
<1>1. ASSUME NEW i \in DOMAIN ids
      PROVE  Of(i) \in Seq(Found)
  <2> DEFINE v == When(ids[i] \notin KnownIds(inventory), "monitoring-reference-not-found", 20)
             w == When(ids[i] \in KnownIds(inventory) \ enabledIds, "monitoring-reference-disabled", 20)
  <2>1. v \in Seq(Found) /\ w \in Seq(Found)
    BY OwnRuleIds, OneFinding, NoFinding DEF When, OwnIds
  <2> HIDE DEF v, w
  <2>2. v \o w \in Seq(Found)
    BY <2>1
  <2>3. QED
    BY <2>2 DEF v, w
<1>2. ReferenceFindings(ids, inventory) = FlattenSeq(ss)
  BY DEF ReferenceFindings
<1> HIDE DEF Of
<1>3. ss \in Seq(Seq(Found))
  BY <1>1
<1>4. QED
  BY <1>2, <1>3, Flattened

LEMMA MonitoringFindingsAreFindings ==
    ASSUME NEW d \in Drafts
    PROVE  MonitoringFindings(d.change, d.inventory, Resolve(Bundle, PolicyContext(d))) \in Seq(Found)
<1> DEFINE policy == Resolve(Bundle, PolicyContext(d))
           absent == policy[Providers] \ {m.provider : m \in Enabled(d.inventory)}
           many == IF ValidationEnabled(d.change, d.inventory, policy) THEN d.change.badDashboards ELSE 0
           s1 == [i \in 1..many |-> Finding("monitoring-invalid-dashboard-url", 15)]
           s2 == ReferenceFindings(d.change.monitorIds, d.inventory)
           s3 == When(Cardinality(Enabled(d.inventory)) < policy[Minimum], "monitoring-insufficient-coverage", 25)
           s4 == [i \in 1..Cardinality(absent) |-> Finding("monitoring-required-provider-missing", 25)]
<1>1. many \in Nat /\ Cardinality(absent) \in Nat
  <2>1. many \in Nat
    BY DraftsAssumption
  <2>2. IsFiniteSet(policy[Providers])
    BY DraftsAssumption
  <2>3. Cardinality(absent) \in Nat
    BY <2>2, FS_Subset, FS_CardinalityType
  <2>4. QED
    BY <2>1, <2>3
<1>2. MonitoringFindings(d.change, d.inventory, policy) = s1 \o s2 \o s3 \o s4
  BY DEF MonitoringFindings
<1>3. Finding("monitoring-invalid-dashboard-url", 15) \in Found
      /\ Finding("monitoring-required-provider-missing", 25) \in Found
  BY OwnRuleIds, OneFinding DEF OwnIds
<1>4. s2 \in Seq(Found)
  BY ReferencesAreFindings, DraftsAssumption
<1>5. s3 \in Seq(Found)
  BY OwnRuleIds, OneFinding, NoFinding DEF When, OwnIds
<1> HIDE DEF many, absent, s2, s3
<1>6. s1 \in Seq(Found) /\ s4 \in Seq(Found)
  BY <1>1, <1>3
<1> HIDE DEF s1, s4
<1>7. s1 \o s2 \o s3 \o s4 \in Seq(Found)
  BY <1>4, <1>5, <1>6
<1>8. QED
  BY <1>2, <1>7

LEMMA FindingsAreFindings ==
    ASSUME NEW d \in Drafts
    PROVE  FoundIn(d) \in Seq(Found)
<1> DEFINE policy == Resolve(Bundle, PolicyContext(d))
           s1 == ServiceRules(d.service, d.change)
           s3 == MonitoringFindings(d.change, d.inventory, policy)
<1>1. s1 \in Seq(Found) /\ s3 \in Seq(Found)
  BY ServiceRulesAreFindings, MonitoringFindingsAreFindings
<1>2. d.scanned \in Seq(Found)
  <2>1. d.scanned \in Seq([id : STRING, score : Nat])
    BY DraftsAssumption
  <2>2. ASSUME NEW i \in 1..Len(d.scanned)
        PROVE  d.scanned[i] \in Found
    <3>1. d.scanned[i] \in ToSet(d.scanned)
      BY <2>1 DEF ToSet
    <3>2. d.scanned[i].id \in RuleIds
      BY <3>1 DEF RuleIds
    <3>3. d.scanned[i] \in [id : STRING, score : Nat]
      BY <2>1, ElementOfSeq
    <3>4. QED
      BY <3>2, <3>3 DEF Found
  <2>3. QED
    BY <2>1, <2>2
<1>3. FoundIn(d) = s1 \o d.scanned \o s3
  BY DEF FoundIn, FindingsOf, Findings
<1> HIDE DEF s1, s3
<1>4. QED
  BY <1>1, <1>2, <1>3

\* What is weighed are the same findings with the policy's weights.
Weighed(d) ==
    LET policy == Resolve(Bundle, PolicyContext(d)) IN
    [i \in DOMAIN FoundIn(d) |-> Weighted(FoundIn(d)[i], policy)]

LEMMA WeighedAreFindings ==
    ASSUME NEW d \in Drafts
    PROVE  /\ Weighed(d) \in Seq(Found)
           /\ DOMAIN Weighed(d) = DOMAIN FoundIn(d)
           /\ Len(Weighed(d)) = Len(FoundIn(d))
<1> DEFINE policy == Resolve(Bundle, PolicyContext(d))
           W(i) == Weighted(FoundIn(d)[i], policy)
<1>1. FoundIn(d) \in Seq(Found)
  BY FindingsAreFindings
<1>2. ASSUME NEW i \in DOMAIN FoundIn(d)
      PROVE  W(i) \in Found
  <2>1. FoundIn(d)[i] \in Found
    BY <1>1
  <2>2. ASSUME NEW r
        PROVE  Weight(r) \in DOMAIN policy => policy[Weight(r)] \in Nat
    <3>1. Weight(r)[1] = "risk_weights"
      BY DEF Weight
    <3>2. QED
      BY <3>1, DraftsAssumption
  <2> HIDE DEF policy
  <2>3. Get(policy, Weight(FoundIn(d)[i].id), FoundIn(d)[i].score) \in Nat
    BY <2>1, <2>2 DEF Get, Found
  <2>4. QED
    BY <2>1, <2>3 DEF Weighted, Finding, Found
<1>3. Weighed(d) = [i \in DOMAIN FoundIn(d) |-> W(i)]
  BY DEF Weighed
<1> HIDE DEF W
<1>4. QED
  BY <1>1, <1>2, <1>3

-----------------------------------------------------------------------------
(* The controls of an assessment *)

MissingIn(d) == {Weighed(d)[i].id : i \in DOMAIN Weighed(d)} \cap MissingRules

MonitoringSays(d) ==
    IF MonitoringFindings(d.change, d.inventory, Resolve(Bundle, PolicyContext(d))) = <<>>
    THEN "PASS" ELSE "FAIL"

ScoreOf(d) == Score(Weighed(d))

LevelOf(d) == Level(ScoreOf(d), Resolve(Bundle, PolicyContext(d)))

\* The risk report of a draft is the same at all instants but for its date.
LEMMA RiskOfDraft ==
    ASSUME NEW d, NEW at
    PROVE  /\ AssessRisk(d, Bundle, at).rules = Weighed(d)
           /\ AssessRisk(d, Bundle, at).missing = MissingIn(d)
           /\ AssessRisk(d, Bundle, at).monitoring = MonitoringSays(d)
           /\ AssessRisk(d, Bundle, at).score = ScoreOf(d)
           /\ AssessRisk(d, Bundle, at).level = LevelOf(d)
BY DEF AssessRisk, Weighed, FoundIn, MissingIn, MonitoringSays, ScoreOf, LevelOf

LEMMA LevelOfDraft ==
    ASSUME NEW d
    PROVE  LevelOf(d) \in Levels
BY DEF LevelOf, Level, Levels

\* What the adapter itself observes.
RuleControls(d, at) ==
    {SeenNow(<<"rule", f.id>>, "FAIL", f.score, at, ValidFor, TRUE) : f \in ToSet(Weighed(d))}

MissingControls(d, at) ==
    {SeenNow(<<"missing", m>>, "FAIL", 0, at, ValidFor, TRUE) : m \in MissingIn(d)}

MonitoringControl(d, at) ==
    SeenNow(<<"monitoring">>, MonitoringStatus(MonitoringSays(d)), 0, at, ValidFor, TRUE)

OwnControls(d, at) == RuleControls(d, at) \cup MissingControls(d, at) \cup {MonitoringControl(d, at)}

AllControls(d, arr, at) == OwnControls(d, at) \cup ProviderControls(Aggregate(arr, at), at)

LEMMA MissingIsFinite ==
    ASSUME NEW d \in Drafts
    PROVE  IsFiniteSet(MissingIn(d))
<1> DEFINE D == DOMAIN Weighed(d)
           Ids == {Weighed(d)[i].id : i \in D}
           f == [i \in D |-> Weighed(d)[i].id]
<1>1. IsFiniteSet(D)
  <2>1. Weighed(d) \in Seq(Found)
    BY WeighedAreFindings
  <2>2. D = 1..Len(Weighed(d)) /\ Len(Weighed(d)) \in Nat
    BY <2>1
  <2>3. QED
    BY <2>2, FS_Interval
<1>2. f \in [D -> Ids] /\ \A t \in Ids : \E i \in D : t = f[i]
  OBVIOUS
<1> HIDE DEF f, D, Ids
<1>3. IsFiniteSet(Ids)
  BY <1>1, <1>2, ImageIsFinite
<1>4. MissingIn(d) \in SUBSET Ids
  BY DEF MissingIn, Ids, D
<1>5. QED
  BY <1>3, <1>4, FS_Subset

LEMMA AggregateIsFinite ==
    ASSUME NEW arr \in Seq(Arrivable), Aggregable(arr), NEW at
    PROVE  IsFiniteSet(Aggregate(arr, at))
<1> DEFINE agg == {Entry(arr, at, k) : k \in Keys}
           f == [k \in Keys |-> Entry(arr, at, k)]
<1>1. f \in [Keys -> agg] /\ \A e \in agg : \E k \in Keys : e = f[k]
  OBVIOUS
<1>2. IsFiniteSet(agg)
  BY <1>1, KeysAssumption, ImageIsFinite
<1>3. QED
  BY <1>2, AggregateIsEntries

\* The control that is made of an entry of the aggregate.
Vouched(e, at) ==
    [id |-> <<"provider", e.key>>, status |-> ControlStatus(e, at), points |-> 0,
     collected |-> e.collected, until |-> e.until, pinned |-> TRUE]

LEMMA ProviderControlsAre ==
    ASSUME NEW arr \in Seq(Arrivable), Aggregable(arr), NEW at
    PROVE  ProviderControls(Aggregate(arr, at), at) = {Vouched(Entry(arr, at, k), at) : k \in Keys}
BY AggregateIsEntries DEF ProviderControls, Vouched

LEMMA ProviderControlsAreFinite ==
    ASSUME NEW arr \in Seq(Arrivable), Aggregable(arr), NEW at
    PROVE  IsFiniteSet(ProviderControls(Aggregate(arr, at), at))
<1> DEFINE cs == {Vouched(Entry(arr, at, k), at) : k \in Keys}
           f == [k \in Keys |-> Vouched(Entry(arr, at, k), at)]
<1>1. f \in [Keys -> cs] /\ \A c \in cs : \E k \in Keys : c = f[k]
  OBVIOUS
<1>2. IsFiniteSet(cs)
  BY <1>1, KeysAssumption, ImageIsFinite
<1>3. QED
  BY <1>2, ProviderControlsAre

\* The controls the kernel is given are the adapter's and the providers'.
LEMMA ControlsOfDraft ==
    ASSUME NEW d \in Drafts, NEW arr \in Seq(Arrivable), Aggregable(arr), NEW at
    PROVE  LET given == Controls(d, Aggregate(arr, at), at) IN
           /\ given \in Seq(AllControls(d, arr, at))
           /\ ToSet(given) = AllControls(d, arr, at)
<1> DEFINE S == AllControls(d, arr, at)
           See(id, status, points) == SeenNow(id, status, points, at, ValidFor, TRUE)
           rules == [i \in DOMAIN Weighed(d) |-> See(<<"rule", Weighed(d)[i].id>>, "FAIL", Weighed(d)[i].score)]
           missing == SetToSeq({See(<<"missing", m>>, "FAIL", 0) : m \in MissingIn(d)})
           monitoring == << See(<<"monitoring">>, MonitoringStatus(MonitoringSays(d)), 0) >>
           provided == SetToSeq(ProviderControls(Aggregate(arr, at), at))
<1>1. Controls(d, Aggregate(arr, at), at) = (rules \o missing \o monitoring) \o provided
  BY RiskOfDraft DEF Controls, AdaptedControls, LegacyControls
<1>2. rules \in Seq(S) /\ ToSet(rules) = RuleControls(d, at)
  <2>1. DOMAIN Weighed(d) = 1..Len(Weighed(d)) /\ Len(Weighed(d)) \in Nat
    BY WeighedAreFindings
  <2>2. ASSUME NEW i \in DOMAIN Weighed(d)
        PROVE  rules[i] \in RuleControls(d, at)
    BY DEF RuleControls, ToSet
  <2>3. \A c \in RuleControls(d, at) : \E i \in DOMAIN Weighed(d) : c = rules[i]
    BY DEF RuleControls, ToSet
  <2>4. RuleControls(d, at) \subseteq S
    BY DEF AllControls, OwnControls
  <2>5. DOMAIN rules = DOMAIN Weighed(d) /\ rules = [i \in DOMAIN Weighed(d) |-> rules[i]]
    OBVIOUS
  <2> HIDE DEF rules, S
  <2>6. ToSet(rules) = RuleControls(d, at)
    BY <2>2, <2>3, <2>5 DEF ToSet
  <2>7. rules \in Seq(S)
    BY <2>1, <2>2, <2>4, <2>5
  <2>8. QED
    BY <2>6, <2>7
<1>3. missing \in Seq(S) /\ ToSet(missing) = MissingControls(d, at)
  <2> DEFINE M == MissingIn(d)
             T == {See(<<"missing", m>>, "FAIL", 0) : m \in M}
             f == [m \in M |-> See(<<"missing", m>>, "FAIL", 0)]
  <2>1. f \in [M -> T] /\ \A t \in T : \E m \in M : t = f[m]
    OBVIOUS
  <2>2. T = MissingControls(d, at)
    BY DEF MissingControls
  <2> HIDE DEF M, T, f
  <2>3. IsFiniteSet(T)
    BY <2>1, MissingIsFinite, ImageIsFinite DEF M
  <2>4. SetToSeq(T) \in Seq(T) /\ ToSet(SetToSeq(T)) = T
    BY <2>3, Listed
  <2>5. T \subseteq S
    BY <2>2 DEF AllControls, OwnControls
  <2> HIDE DEF S
  <2>6. SetToSeq(T) \in Seq(S)
    BY <2>4, <2>5, SeqMonotonic
  <2>7. QED
    BY <2>2, <2>4, <2>6 DEF T, M
<1>4. monitoring \in Seq(S) /\ ToSet(monitoring) = {MonitoringControl(d, at)}
  <2>1. monitoring = << MonitoringControl(d, at) >> /\ MonitoringControl(d, at) \in S
    BY DEF MonitoringControl, AllControls, OwnControls
  <2> HIDE DEF monitoring, S
  <2>2. QED
    BY <2>1, Single
<1>5. provided \in Seq(S) /\ ToSet(provided) = ProviderControls(Aggregate(arr, at), at)
  <2> DEFINE T == ProviderControls(Aggregate(arr, at), at)
  <2>1. SetToSeq(T) \in Seq(T) /\ ToSet(SetToSeq(T)) = T
    BY ProviderControlsAreFinite, Listed
  <2>2. T \subseteq S
    BY DEF AllControls
  <2> HIDE DEF T, S
  <2>3. SetToSeq(T) \in Seq(S)
    BY <2>1, <2>2, SeqMonotonic
  <2>4. QED
    BY <2>1, <2>3 DEF T
<1> DEFINE first == rules \o missing
           legacy == first \o monitoring
<1> HIDE DEF rules, missing, monitoring, provided, S
<1>6. first \in Seq(S) /\ ToSet(first) = RuleControls(d, at) \cup MissingControls(d, at)
  BY <1>2, <1>3, Concatenated
<1> HIDE DEF first
<1>7. legacy \in Seq(S) /\ ToSet(legacy) = OwnControls(d, at)
  <2>1. legacy \in Seq(S) /\ ToSet(legacy) = ToSet(first) \cup ToSet(monitoring)
    BY <1>4, <1>6, Concatenated
  <2>2. QED
    BY <1>4, <1>6, <2>1 DEF OwnControls
<1> HIDE DEF legacy
<1>8. legacy \o provided \in Seq(S) /\ ToSet(legacy \o provided) = S
  <2>1. legacy \o provided \in Seq(S) /\ ToSet(legacy \o provided) = ToSet(legacy) \cup ToSet(provided)
    BY <1>5, <1>7, Concatenated
  <2>2. QED
    BY <1>5, <1>7, <2>1 DEF AllControls, S
<1>9. QED
  BY <1>1, <1>8 DEF S, legacy, first

LEMMA ControlsAreFinite ==
    ASSUME NEW d \in Drafts, NEW arr \in Seq(Arrivable), Aggregable(arr), NEW at
    PROVE  IsFiniteSet(AllControls(d, arr, at))
<1> DEFINE s == Controls(d, Aggregate(arr, at), at)
           D == 1..Len(s)
           S == AllControls(d, arr, at)
<1>1. s \in Seq(S) /\ ToSet(s) = S
  BY ControlsOfDraft
<1> HIDE DEF s, S
<1>2. Len(s) \in Nat /\ s \in [D -> S] /\ \A c \in S : \E i \in D : c = s[i]
  BY <1>1 DEF ToSet
<1>3. IsFiniteSet(D)
  BY <1>2, FS_Interval
<1>4. QED
  BY <1>2, <1>3, ImageIsFinite DEF S

-----------------------------------------------------------------------------
(* What becomes of a control *)

\* What the adapter observes itself is current, and says pass or fail.
LEMMA OwnControl ==
    ASSUME NEW d \in Drafts, NEW at \in Int, NEW o \in OwnControls(d, at)
    PROVE  /\ o.status \in {"PASS", "FAIL"} /\ o.points \in Nat /\ o.pinned = TRUE
           /\ o.collected = at /\ o.until = at + ValidFor
           /\ Sound(o, at) /\ FinalStatus(o, at) = o.status
           /\ o \in RuleControls(d, at) => o.status = "FAIL"
<1>1. /\ o.status \in {"PASS", "FAIL"} /\ o.points \in Nat /\ o.pinned = TRUE
      /\ o.collected = at /\ o.until = at + ValidFor
      /\ o \in RuleControls(d, at) => o.status = "FAIL"
  <2>1. CASE o \in RuleControls(d, at)
    <3>1. PICK f \in ToSet(Weighed(d)) : o = SeenNow(<<"rule", f.id>>, "FAIL", f.score, at, ValidFor, TRUE)
      BY <2>1 DEF RuleControls
    <3>2. f.score \in Nat
      <4>1. PICK i \in DOMAIN Weighed(d) : f = Weighed(d)[i]
        BY DEF ToSet
      <4>2. Weighed(d) \in Seq(Found)
        BY WeighedAreFindings
      <4>3. f \in Found
        BY <4>1, <4>2
      <4>4. QED
        BY <4>3 DEF Found
    <3>3. QED
      BY <3>1, <3>2 DEF SeenNow
  <2>2. CASE o \notin RuleControls(d, at) /\ o \in MissingControls(d, at)
    BY <2>2 DEF MissingControls, SeenNow
  <2>3. CASE o \notin RuleControls(d, at) /\ o = MonitoringControl(d, at)
    BY <2>3 DEF MonitoringControl, SeenNow, MonitoringStatus, MonitoringSays
  <2>4. QED
    BY <2>1, <2>2, <2>3 DEF OwnControls
<1>2. at + ValidFor \in Int /\ at < at + ValidFor
  BY ValidForAssumption
<1>3. Sound(o, at)
  BY <1>1, <1>2, NoLimitAssumption DEF Sound, Freshness
<1>4. FinalStatus(o, at) = o.status
  BY <1>1, <1>3 DEF FinalStatus, FromFuture, Downgraded
<1>5. QED
  BY <1>1, <1>3, <1>4

\* An entry is an observation that arrived, current or explicit, or stands for
\* what is not known.
Missed(e, at) ==
    e.status = "UNKNOWN" /\ e.collected = at /\ e.until = at + 1 /\ e.confidence = 0

Explicit(e, at) == Current(e, at) \/ e.status \in {"ERROR", "FAIL"}

LEMMA EntryIs ==
    ASSUME NEW arr \in Seq(Arrivable), Aggregable(arr), NEW at \in Int, NEW k \in Keys
    PROVE  LET e == Entry(arr, at, k) IN
           /\ e.key = k /\ e.collected \in Int /\ e.until \in Int /\ e.collected < e.until
           /\ e.status \in ProviderStatuses /\ e.confidence \in 0..100
           /\ \/ e \in ToSet(arr) /\ ValidEvidence(e) /\ Explicit(e, at) /\ e = Word(arr, k)
              \/ Missed(e, at)
<1> DEFINE e == Entry(arr, at, k)
<1>1. e.key = k
  BY KeyOfEntry
<1>2. CASE Heard(arr, k) /\ Explicit(Word(arr, k), at)
  <2>1. e = Word(arr, k) /\ e \in ToSet(arr)
    BY <1>2 DEF Entry, Heard, Word, Projected, Explicit
  <2>2. e \in Arrivable /\ ValidEvidence(e)
    BY <2>1, AllObserved
  <2>3. QED
    BY <1>1, <1>2, <2>1, <2>2 DEF Arrivable, ValidEvidence
<1>3. CASE ~(Heard(arr, k) /\ Explicit(Word(arr, k), at))
  <2>1. \E key, code : e = Unavailable(key, at, code)
    BY <1>3 DEF Entry, Projected, Explicit
  <2>2. Missed(e, at)
    BY <2>1 DEF Unavailable, Missed
  <2> HIDE DEF e
  <2>3. QED
    BY <1>1, <2>2 DEF Missed, ProviderStatuses, e
<1>4. QED
  BY <1>2, <1>3

\* The status the kernel gives the control of an entry.
LEMMA VouchedFinal ==
    ASSUME NEW arr \in Seq(Arrivable), Aggregable(arr), NEW at \in Int, NEW k \in Keys
    PROVE  LET e == Entry(arr, at, k)
               c == Vouched(e, at) IN
           /\ FinalStatus(c, at) =
                  IF e.status = "PASS" THEN "PASS"
                  ELSE IF e.status = "ERROR" \/ at < e.collected THEN "ERROR"
                  ELSE IF e.status = "FAIL" THEN "FAIL" ELSE "UNKNOWN"
           /\ e.status = "PASS" => Current(e, at)
           /\ Sound(c, at) <=> e.collected <= at /\ at <= e.until
<1> DEFINE e == Entry(arr, at, k)
           c == Vouched(e, at)
<1>1. /\ e.collected \in Int /\ e.until \in Int /\ e.status \in ProviderStatuses
      /\ Explicit(e, at) \/ Missed(e, at)
  BY EntryIs
<1>2. c.status = ControlStatus(e, at) /\ c.collected = e.collected /\ c.until = e.until /\ c.pinned = TRUE
  BY DEF Vouched
<1> HIDE DEF e, c
<1>3. Sound(c, at) <=> e.collected <= at /\ at <= e.until
  BY <1>1, <1>2, NoLimitAssumption DEF Sound, Freshness
<1>4. Missed(e, at) => e.status = "UNKNOWN" /\ e.collected = at /\ Current(e, at)
  BY DEF Missed, Current
<1>5. Explicit(e, at)
  BY <1>1, <1>4 DEF Explicit
<1>6. ControlStatus(e, at) = IF e.status = "NOT_APPLICABLE" THEN "UNKNOWN" ELSE e.status
  BY <1>1, <1>5 DEF ControlStatus, EffectiveStatus, Explicit
<1>7. e.status = "PASS" => Current(e, at)
  BY <1>5 DEF Explicit
<1>8. e.status # "PASS" => ~Downgraded(c, at)
  BY <1>2, <1>6 DEF Downgraded
<1>9. e.status = "PASS" => ~Downgraded(c, at) /\ ~FromFuture(c, at)
  BY <1>1, <1>2, <1>3, <1>7 DEF Downgraded, FromFuture, Current
<1>10. e.status \in {"NOT_APPLICABLE", "UNKNOWN"} => ~FromFuture(c, at)
  BY <1>1, <1>2, <1>5 DEF FromFuture, Current, Explicit
<1>11. FinalStatus(c, at) =
                  IF e.status = "PASS" THEN "PASS"
                  ELSE IF e.status = "ERROR" \/ at < e.collected THEN "ERROR"
                  ELSE IF e.status = "FAIL" THEN "FAIL" ELSE "UNKNOWN"
  BY <1>1, <1>2, <1>6, <1>8, <1>9, <1>10 DEF FinalStatus, FromFuture, ProviderStatuses
<1>12. QED
  BY <1>3, <1>7, <1>11 DEF c, e

\* Every control ends in a status of the contract.
LEMMA FinalIsAStatus ==
    ASSUME NEW d \in Drafts, NEW arr \in Seq(Arrivable), Aggregable(arr), NEW at \in Int,
           NEW o \in AllControls(d, arr, at)
    PROVE  /\ FinalStatus(o, at) \in Statuses /\ o.pinned = TRUE /\ o.points \in Nat
           /\ o.collected \in Int /\ o.until \in Int /\ o.collected <= o.until
<1>1. CASE o \in OwnControls(d, at)
  <2>1. at + ValidFor \in Int /\ at <= at + ValidFor
    BY ValidForAssumption
  <2>2. o.collected = at /\ o.until = at + ValidFor /\ o.points \in Nat /\ o.pinned = TRUE
    BY <1>1, OwnControl
  <2>3. FinalStatus(o, at) = o.status /\ o.status \in {"PASS", "FAIL"}
    BY <1>1, OwnControl
  <2>4. QED
    BY <2>1, <2>2, <2>3 DEF Statuses
<1>2. CASE o \in ProviderControls(Aggregate(arr, at), at)
  <2>1. PICK k \in Keys : o = Vouched(Entry(arr, at, k), at)
    BY <1>2, ProviderControlsAre
  <2> DEFINE e == Entry(arr, at, k)
  <2>2. e.collected \in Int /\ e.until \in Int /\ e.collected < e.until
    BY EntryIs
  <2>3. FinalStatus(o, at) \in Statuses
    BY <2>1, VouchedFinal DEF Statuses
  <2> HIDE DEF e
  <2>4. o.pinned = TRUE /\ o.points = 0 /\ o.collected = e.collected /\ o.until = e.until
    BY <2>1 DEF Vouched, e
  <2>5. QED
    BY <2>2, <2>3, <2>4
<1>3. QED
  BY <1>1, <1>2 DEF AllControls

-----------------------------------------------------------------------------
(* What an assessment says *)

\* The contract in terms of the controls.
Verdicts(d, arr, at) == Verdict(StatusesOf(AllControls(d, arr, at), at), LevelOf(d))

LEMMA ContractSays ==
    ASSUME NEW d \in Drafts, NEW arr \in Seq(Arrivable), Aggregable(arr), NEW at \in Int
    PROVE  LET c == Contract(d, arr, at)
               os == AllControls(d, arr, at) IN
           /\ c.at = at /\ c.score = ScoreOf(d) /\ c.level = LevelOf(d)
           /\ c.verdict = Verdicts(d, arr, at)
           /\ c.action = Action(Verdicts(d, arr, at), LevelOf(d))
           /\ c.confidence = Confidence(os, at, AdaptedCap(ConfidenceCap(Aggregate(arr, at), at)))
           /\ c.controls = {[id |-> o.id, status |-> FinalStatus(o, at), points |-> o.points,
                             evidence |-> IF o.pinned THEN {o.id} ELSE {}] : o \in os}
           /\ c.evidence = {[control |-> o.id, collected |-> o.collected, until |-> o.until,
                             freshness |-> Freshness(o, at)] : o \in {p \in os : p.pinned}}
           /\ c.blockers = Blockers(os, at) /\ c.warnings = Warnings(os, at) /\ c.errors = Errors(os, at)
           /\ c.passed = {o.id : o \in {p \in os : FinalStatus(p, at) = "PASS"}}
<1>1. ToSet(Controls(d, Aggregate(arr, at), at)) = AllControls(d, arr, at)
  BY ControlsOfDraft
<1>2. AssessRisk(d, Bundle, at).score = ScoreOf(d) /\ AssessRisk(d, Bundle, at).level = LevelOf(d)
  BY RiskOfDraft
<1>3. QED
  BY <1>1, <1>2 DEF Contract, Evaluate, Verdicts

\* The controls of an accepted assessment have different ids.
LEMMA IdsAreUnique ==
    ASSUME NEW d \in Drafts, NEW arr \in Seq(Arrivable), NEW at, Accepted(d, arr, at)
    PROVE  \A o, p \in AllControls(d, arr, at) : o.id = p.id => o = p
<1> DEFINE s == Controls(d, Aggregate(arr, at), at)
<1>1. \A i, j \in DOMAIN s : s[i].id = s[j].id => i = j
  BY DEF Accepted, Evaluable
<1>2. ToSet(s) = AllControls(d, arr, at)
  BY ControlsOfDraft DEF Accepted
<1> HIDE DEF s
<1>3. QED
  BY <1>1, <1>2 DEF ToSet

-----------------------------------------------------------------------------
(* A recommendation to proceed *)

\* Only controls that all pass give one, on a risk that is neither high nor critical.
LEMMA ProceedsOnPasses ==
    ASSUME NEW d \in Drafts, NEW arr \in Seq(Arrivable), Aggregable(arr), NEW at \in Int,
           Action(Verdicts(d, arr, at), LevelOf(d)) \in {"PROCEED", "PROCEED_WITH_CAUTION"}
    PROVE  /\ \A o \in AllControls(d, arr, at) : FinalStatus(o, at) = "PASS"
           /\ LevelOf(d) \in {"LOW", "MEDIUM"}
<1> DEFINE os == AllControls(d, arr, at)
<1>1. Verdicts(d, arr, at) \notin {"INDETERMINATE", "BLOCK", "REVIEW_REQUIRED"}
  BY DEF Action
<1>2. /\ {"ERROR", "UNKNOWN"} \cap StatusesOf(os, at) = {} /\ "FAIL" \notin StatusesOf(os, at)
      /\ LevelOf(d) \notin {"CRITICAL", "HIGH"}
  BY <1>1 DEF Verdicts, Verdict
<1>3. LevelOf(d) \in {"LOW", "MEDIUM"}
  BY <1>2, LevelOfDraft DEF Levels
<1>4. ASSUME NEW o \in os
      PROVE  FinalStatus(o, at) = "PASS"
  <2>1. FinalStatus(o, at) \in StatusesOf(os, at)
    BY DEF StatusesOf
  <2>2. FinalStatus(o, at) \in Statuses
    BY FinalIsAStatus
  <2> HIDE DEF os
  <2>3. QED
    BY <1>2, <2>1, <2>2 DEF Statuses
<1>5. QED
  BY <1>3, <1>4

\* A change may proceed only on a current PASS that arrived for every identity
\* that was expected, with no finding and a low or medium risk.
THEOREM ProceedingIsEarned == Spec => []ProceedIsEarned
<1>1. AssessedInv => ProceedIsEarned
  <2> SUFFICES ASSUME AssessedInv, assessment # Nothing,
                      assessment.action \in {"PROCEED", "PROCEED_WITH_CAUTION"}
               PROVE  /\ \A k \in Keys : \E e \in ToSet(arrived) :
                             /\ e.key = k /\ e.status = "PASS"
                             /\ e.collected <= assessment.at /\ assessment.at < e.until
                      /\ assessment.level \in {"LOW", "MEDIUM"}
                      /\ FindingsOf(draft, Resolve(Bundle, PolicyContext(draft))) = <<>>
    BY DEF ProceedIsEarned
  <2> DEFINE at == assessment.at
             os == AllControls(draft, arrived, at)
  <2>1. /\ draft \in Drafts /\ arrived \in Seq(Arrivable) /\ Aggregable(arrived) /\ at \in Int
        /\ Accepted(draft, arrived, at) /\ assessment = Contract(draft, arrived, at)
    BY DEF AssessedInv, Typed, Justified, Accepted
  <2>2. /\ assessment.level = LevelOf(draft)
        /\ assessment.action = Action(Verdicts(draft, arrived, at), LevelOf(draft))
    BY <2>1, ContractSays
  <2> HIDE DEF at
  <2>3. \A o \in os : FinalStatus(o, at) = "PASS"
    BY <2>1, <2>2, ProceedsOnPasses
  <2>4. LevelOf(draft) \in {"LOW", "MEDIUM"}
    BY <2>1, <2>2, ProceedsOnPasses
  <2>5. ASSUME NEW k \in Keys
        PROVE  \E e \in ToSet(arrived) :
                   e.key = k /\ e.status = "PASS" /\ e.collected <= at /\ at < e.until
    <3> DEFINE e == Entry(arrived, at, k)
               c == Vouched(e, at)
    <3>1. c \in os
      BY <2>1, ProviderControlsAre DEF AllControls
    <3>2. FinalStatus(c, at) = "PASS"
      BY <2>3, <3>1
    <3>3. e.status = "PASS" /\ Current(e, at)
      BY <2>1, <3>2, VouchedFinal
    <3>4. e.key = k /\ e \in ToSet(arrived)
      BY <2>1, <3>3, EntryIs DEF Missed
    <3>5. QED
      BY <3>3, <3>4 DEF Current
  <2>6. FoundIn(draft) = <<>>
    <3> SUFFICES ASSUME FoundIn(draft) # <<>> PROVE FALSE
      OBVIOUS
    <3>1. FoundIn(draft) \in Seq(Found)
      BY <2>1, FindingsAreFindings
    <3>2. 1 \in DOMAIN Weighed(draft)
      BY <2>1, <3>1, EmptySeq, WeighedAreFindings
    <3> DEFINE f == Weighed(draft)[1]
               c == SeenNow(<<"rule", f.id>>, "FAIL", f.score, at, ValidFor, TRUE)
    <3>3. f \in ToSet(Weighed(draft))
      BY <3>2 DEF ToSet
    <3>4. c \in RuleControls(draft, at)
      BY <3>3 DEF RuleControls
    <3> HIDE DEF f, c
    <3>5. c \in OwnControls(draft, at) /\ c \in os
      BY <3>4 DEF OwnControls, AllControls
    <3>6. FinalStatus(c, at) = "FAIL"
      BY <2>1, <3>4, <3>5, OwnControl
    <3>7. QED
      BY <2>3, <3>5, <3>6
  <2>7. QED
    BY <2>2, <2>4, <2>5, <2>6 DEF FoundIn, at
<1>2. QED
  BY <1>1, Invariance, PTL

-----------------------------------------------------------------------------
(* Evidence as it ages *)

\* None of the evidence is from the future.
NoneAhead(arr, at) == \A e \in ToSet(arr) : e.collected <= at

\* As time passes an entry stays what it is, or turns into what is not known,
\* unless it is an explicit error or failure.
LEMMA EntryAges ==
    ASSUME NEW arr \in Seq(Arrivable), Aggregable(arr), NEW at \in Int, NEW now \in Int, at <= now,
           NoneAhead(arr, at), NEW k \in Keys
    PROVE  LET e1 == Entry(arr, at, k)
               e2 == Entry(arr, now, k) IN
           /\ ~(at < e1.collected) /\ ~(now < e2.collected)
           /\ \/ e1 = e2 /\ e1 \in ToSet(arr) /\ (Current(e2, now) => Current(e1, at))
              \/ /\ Missed(e2, now)
                 /\ e1.status \in {"PASS", "UNKNOWN", "NOT_APPLICABLE"}
<1> DEFINE e1 == Entry(arr, at, k)
           e2 == Entry(arr, now, k)
           w == Word(arr, k)
<1>1. ASSUME Heard(arr, k)
      PROVE  w \in ToSet(arr) /\ w.collected <= at /\ w.collected <= now /\ w.status \in ProviderStatuses
  <2>1. w \in ToSet(arr)
    BY <1>1 DEF Heard, Word
  <2>2. w \in Arrivable /\ ValidEvidence(w)
    BY <2>1, AllObserved
  <2> HIDE DEF w
  <2>3. w.collected <= at /\ w.collected \in Int
    BY <2>1, <2>2 DEF NoneAhead, Arrivable
  <2>4. QED
    BY <2>1, <2>2, <2>3 DEF ValidEvidence
<1>2. ASSUME Heard(arr, k), Explicit(w, now)
      PROVE  e2 = w /\ e1 = w /\ (Current(w, now) => Current(w, at))
  <2>1. w \in Arrivable
    BY <1>1, <1>2, AllObserved
  <2>2. Current(w, now) => Current(w, at)
    BY <1>1, <1>2, <2>1 DEF Current, Arrivable
  <2>3. Explicit(w, at)
    BY <1>2, <2>2 DEF Explicit
  <2>4. QED
    BY <1>2, <2>2, <2>3 DEF Entry, Projected, Explicit
<1>3. ASSUME ~(Heard(arr, k) /\ Explicit(w, now))
      PROVE  /\ Missed(e2, now)
             /\ Missed(e1, at) \/ (e1 = w /\ Heard(arr, k) /\ e1.status \notin {"ERROR", "FAIL"})
  <2>1. Missed(e2, now)
    BY <1>3 DEF Entry, Projected, Explicit, Unavailable, Missed
  <2>2. CASE Heard(arr, k) /\ Explicit(w, at)
    <3>1. e1 = w
      BY <2>2 DEF Entry, Projected, Explicit
    <3>2. w.status \notin {"ERROR", "FAIL"}
      BY <1>3, <2>2 DEF Explicit
    <3> HIDE DEF e1, e2, w
    <3>3. QED
      BY <2>1, <2>2, <3>1, <3>2
  <2>3. CASE ~(Heard(arr, k) /\ Explicit(w, at))
    <3>1. Missed(e1, at)
      BY <2>3 DEF Entry, Projected, Explicit, Unavailable, Missed
    <3> HIDE DEF e1, e2, w
    <3>2. QED
      BY <2>1, <3>1
  <2>4. QED
    BY <2>1, <2>2, <2>3
<1> HIDE DEF e1, e2, w
<1>4. CASE Heard(arr, k) /\ Explicit(w, now)
  <2>1. e1 = w /\ e2 = w /\ w \in ToSet(arr) /\ (Current(w, now) => Current(w, at))
    BY <1>1, <1>2, <1>4
  <2>2. w.collected <= at /\ w.collected <= now /\ w.collected \in Int
    BY <1>1, <1>4, AllObserved DEF Arrivable
  <2>3. ~(at < w.collected) /\ ~(now < w.collected)
    BY <2>2
  <2>4. QED
    BY <2>1, <2>3 DEF e1, e2
<1>5. CASE ~(Heard(arr, k) /\ Explicit(w, now))
  <2>1. Missed(e2, now) /\ ~(now < e2.collected)
    BY <1>3, <1>5 DEF Missed
  <2>2. CASE Missed(e1, at)
    BY <2>1, <2>2 DEF Missed, e1, e2
  <2>3. CASE e1 = w /\ Heard(arr, k) /\ e1.status \notin {"ERROR", "FAIL"}
    <3>1. w.collected <= at /\ w.collected \in Int /\ w.status \in ProviderStatuses
      BY <1>1, <2>3, AllObserved DEF Arrivable
    <3>2. ~(at < e1.collected) /\ e1.status \in {"PASS", "UNKNOWN", "NOT_APPLICABLE"}
      BY <2>3, <3>1 DEF ProviderStatuses
    <3>3. QED
      BY <2>1, <3>2 DEF e1, e2
  <2>4. QED
    BY <1>3, <1>5, <2>2, <2>3
<1>6. QED
  BY <1>4, <1>5

\* What the kernel makes of an identity never gets better.
Inconclusive == {"ERROR", "UNKNOWN"}

LEMMA VouchedAges ==
    ASSUME NEW arr \in Seq(Arrivable), Aggregable(arr), NEW at \in Int, NEW now \in Int, at <= now,
           NoneAhead(arr, at), NEW k \in Keys
    PROVE  LET c1 == Vouched(Entry(arr, at, k), at)
               c2 == Vouched(Entry(arr, now, k), now) IN
           /\ FinalStatus(c1, at) \in Inconclusive => FinalStatus(c2, now) \in Inconclusive
           /\ FinalStatus(c1, at) = "FAIL" => FinalStatus(c2, now) = "FAIL"
           /\ Conclusive(c2, now) => Conclusive(c1, at)
<1> DEFINE e1 == Entry(arr, at, k)
           e2 == Entry(arr, now, k)
           c1 == Vouched(e1, at)
           c2 == Vouched(e2, now)
           Final(e) == IF e.status = "PASS" THEN "PASS" ELSE IF e.status = "ERROR" THEN "ERROR"
                       ELSE IF e.status = "FAIL" THEN "FAIL" ELSE "UNKNOWN"
<1>1. /\ ~(at < e1.collected) /\ ~(now < e2.collected)
      /\ \/ e1 = e2 /\ e1 \in ToSet(arr) /\ (Current(e2, now) => Current(e1, at))
         \/ Missed(e2, now) /\ e1.status \in {"PASS", "UNKNOWN", "NOT_APPLICABLE"}
  BY EntryAges
<1>2. FinalStatus(c1, at) = Final(e1) /\ FinalStatus(c2, now) = Final(e2)
  BY <1>1, VouchedFinal
<1>3. /\ Sound(c1, at) <=> e1.collected <= at /\ at <= e1.until
      /\ Sound(c2, now) <=> e2.collected <= now /\ now <= e2.until
  BY VouchedFinal
<1>4. e1.collected \in Int /\ e1.until \in Int
  BY EntryIs
<1> HIDE DEF e1, e2, c1, c2
<1>5. CASE e1 = e2
  <2>1. Sound(c2, now) => Sound(c1, at)
    BY <1>1, <1>3, <1>4, <1>5
  <2>2. QED
    BY <1>2, <1>5, <2>1 DEF Conclusive, Inconclusive, e1, e2, c1, c2
<1>6. CASE Missed(e2, now) /\ e1.status \in {"PASS", "UNKNOWN", "NOT_APPLICABLE"}
  <2>1. FinalStatus(c2, now) = "UNKNOWN" /\ FinalStatus(c1, at) # "FAIL"
    BY <1>2, <1>6 DEF Missed
  <2>2. QED
    BY <2>1 DEF Conclusive, Inconclusive, e1, e2, c1, c2
<1>7. QED
  BY <1>1, <1>5, <1>6

\* What the adapter observes says the same at all times.
LEMMA OwnAges ==
    ASSUME NEW d \in Drafts, NEW at \in Int, NEW now \in Int, NEW o \in OwnControls(d, at)
    PROVE  \E p \in OwnControls(d, now) :
               p.id = o.id /\ FinalStatus(p, now) = FinalStatus(o, at)
<1>1. FinalStatus(o, at) = o.status
  BY OwnControl
<1>2. \E p \in OwnControls(d, now) : p.id = o.id /\ p.status = o.status
  <2>1. CASE o \in RuleControls(d, at)
    <3>1. PICK f \in ToSet(Weighed(d)) : o = SeenNow(<<"rule", f.id>>, "FAIL", f.score, at, ValidFor, TRUE)
      BY <2>1 DEF RuleControls
    <3> DEFINE p == SeenNow(<<"rule", f.id>>, "FAIL", f.score, now, ValidFor, TRUE)
    <3>2. p \in OwnControls(d, now)
      BY DEF OwnControls, RuleControls
    <3>3. QED
      BY <3>1, <3>2 DEF SeenNow
  <2>2. CASE o \in MissingControls(d, at)
    <3>1. PICK m \in MissingIn(d) : o = SeenNow(<<"missing", m>>, "FAIL", 0, at, ValidFor, TRUE)
      BY <2>2 DEF MissingControls
    <3> DEFINE p == SeenNow(<<"missing", m>>, "FAIL", 0, now, ValidFor, TRUE)
    <3>2. p \in OwnControls(d, now)
      BY DEF OwnControls, MissingControls
    <3>3. QED
      BY <3>1, <3>2 DEF SeenNow
  <2>3. CASE o = MonitoringControl(d, at)
    <3> DEFINE p == MonitoringControl(d, now)
    <3>1. p.id = o.id /\ p.status = o.status
      BY <2>3 DEF MonitoringControl, SeenNow
    <3>2. p \in OwnControls(d, now)
      BY DEF OwnControls
    <3>3. QED
      BY <3>1, <3>2
  <2>4. QED
    BY <2>1, <2>2, <2>3 DEF OwnControls
<1>3. PICK p \in OwnControls(d, now) : p.id = o.id /\ p.status = o.status
  BY <1>2
<1>4. FinalStatus(p, now) = p.status
  BY OwnControl
<1>5. QED
  BY <1>1, <1>3, <1>4

\* The same two facts of all controls: a bad one stays bad, and one that is
\* conclusive was conclusive before.
LEMMA ControlsAge ==
    ASSUME NEW d \in Drafts, NEW arr \in Seq(Arrivable), Aggregable(arr),
           NEW at \in Int, NEW now \in Int, at <= now, NoneAhead(arr, at)
    PROVE  /\ \A o \in AllControls(d, arr, at) : \E p \in AllControls(d, arr, now) :
                  /\ p.id = o.id
                  /\ FinalStatus(o, at) \in Inconclusive => FinalStatus(p, now) \in Inconclusive
                  /\ FinalStatus(o, at) = "FAIL" => FinalStatus(p, now) = "FAIL"
           /\ \A p \in AllControls(d, arr, now) : \E o \in AllControls(d, arr, at) :
                  o.id = p.id /\ (Conclusive(p, now) => Conclusive(o, at))
<1>1. ASSUME NEW o \in AllControls(d, arr, at)
      PROVE  \E p \in AllControls(d, arr, now) :
                  /\ p.id = o.id
                  /\ FinalStatus(o, at) \in Inconclusive => FinalStatus(p, now) \in Inconclusive
                  /\ FinalStatus(o, at) = "FAIL" => FinalStatus(p, now) = "FAIL"
  <2>1. CASE o \in OwnControls(d, at)
    <3>1. PICK p \in OwnControls(d, now) : p.id = o.id /\ FinalStatus(p, now) = FinalStatus(o, at)
      BY <2>1, OwnAges
    <3>2. p \in AllControls(d, arr, now)
      BY DEF AllControls
    <3>3. QED
      BY <3>1, <3>2
  <2>2. CASE o \in ProviderControls(Aggregate(arr, at), at)
    <3>1. PICK k \in Keys : o = Vouched(Entry(arr, at, k), at)
      BY <2>2, ProviderControlsAre
    <3> DEFINE p == Vouched(Entry(arr, now, k), now)
    <3>2. p \in AllControls(d, arr, now)
      BY ProviderControlsAre DEF AllControls
    <3>3. p.id = o.id
      BY <3>1, KeyOfEntry DEF Vouched
    <3>4. /\ FinalStatus(o, at) \in Inconclusive => FinalStatus(p, now) \in Inconclusive
          /\ FinalStatus(o, at) = "FAIL" => FinalStatus(p, now) = "FAIL"
      BY <3>1, VouchedAges
    <3>5. QED
      BY <3>2, <3>3, <3>4
  <2>3. QED
    BY <2>1, <2>2 DEF AllControls
<1>2. ASSUME NEW p \in AllControls(d, arr, now)
      PROVE  \E o \in AllControls(d, arr, at) :
                  o.id = p.id /\ (Conclusive(p, now) => Conclusive(o, at))
  <2>1. CASE p \in OwnControls(d, now)
    <3>1. PICK o \in OwnControls(d, at) : o.id = p.id /\ FinalStatus(o, at) = FinalStatus(p, now)
      BY <2>1, OwnAges
    <3>2. Conclusive(o, at)
      <4>1. Sound(o, at) /\ FinalStatus(o, at) = o.status /\ o.status \in {"PASS", "FAIL"}
        BY OwnControl
      <4>2. QED
        BY <4>1 DEF Conclusive
    <3>3. QED
      BY <3>1, <3>2 DEF AllControls
  <2>2. CASE p \in ProviderControls(Aggregate(arr, now), now)
    <3>1. PICK k \in Keys : p = Vouched(Entry(arr, now, k), now)
      BY <2>2, ProviderControlsAre
    <3> DEFINE o == Vouched(Entry(arr, at, k), at)
    <3>2. o \in AllControls(d, arr, at)
      BY ProviderControlsAre DEF AllControls
    <3>3. o.id = p.id
      BY <3>1, KeyOfEntry DEF Vouched
    <3>4. Conclusive(p, now) => Conclusive(o, at)
      BY <3>1, VouchedAges
    <3>5. QED
      BY <3>2, <3>3, <3>4
  <2>3. QED
    BY <2>1, <2>2 DEF AllControls
<1>3. QED
  BY <1>1, <1>2

\* The verdict gets no better.
LEMMA VerdictAges ==
    ASSUME NEW d \in Drafts, NEW arr \in Seq(Arrivable), Aggregable(arr),
           NEW at \in Int, NEW now \in Int, at <= now, NoneAhead(arr, at)
    PROVE  Favour[Verdicts(d, arr, now)] <= Favour[Verdicts(d, arr, at)]
<1> DEFINE s1 == StatusesOf(AllControls(d, arr, at), at)
           s2 == StatusesOf(AllControls(d, arr, now), now)
           level == LevelOf(d)
<1>1. Inconclusive \cap s1 # {} => Inconclusive \cap s2 # {}
  <2> SUFFICES ASSUME Inconclusive \cap s1 # {} PROVE Inconclusive \cap s2 # {}
    OBVIOUS
  <2>1. PICK o \in AllControls(d, arr, at) : FinalStatus(o, at) \in Inconclusive
    BY DEF StatusesOf
  <2>2. PICK p \in AllControls(d, arr, now) : FinalStatus(p, now) \in Inconclusive
    BY <2>1, ControlsAge
  <2>3. QED
    BY <2>2 DEF StatusesOf
<1>2. "FAIL" \in s1 => "FAIL" \in s2
  <2> SUFFICES ASSUME "FAIL" \in s1 PROVE "FAIL" \in s2
    OBVIOUS
  <2>1. PICK o \in AllControls(d, arr, at) : FinalStatus(o, at) = "FAIL"
    BY DEF StatusesOf
  <2>2. PICK p \in AllControls(d, arr, now) :
            /\ p.id = o.id
            /\ FinalStatus(o, at) \in Inconclusive => FinalStatus(p, now) \in Inconclusive
            /\ FinalStatus(o, at) = "FAIL" => FinalStatus(p, now) = "FAIL"
    BY ControlsAge
  <2>3. FinalStatus(p, now) = "FAIL"
    BY <2>1, <2>2
  <2>4. QED
    BY <2>3 DEF StatusesOf
<1> HIDE DEF s1, s2
<1>3. Favour[Verdict(s2, level)] <= Favour[Verdict(s1, level)]
  <2>1. /\ Favour["READY_FOR_HUMAN_REVIEW"] = 3 /\ Favour["REVIEW_REQUIRED"] = 2
        /\ Favour["BLOCK"] = 1 /\ Favour["INDETERMINATE"] = 0
    BY DEF Favour
  <2>2. CASE Inconclusive \cap s2 # {}
    <3>1. Verdict(s2, level) = "INDETERMINATE"
      BY <2>2 DEF Verdict, Inconclusive
    <3>2. Verdict(s1, level) \in {"READY_FOR_HUMAN_REVIEW", "REVIEW_REQUIRED", "BLOCK", "INDETERMINATE"}
      BY DEF Verdict
    <3>3. QED
      BY <2>1, <3>1, <3>2
  <2>3. CASE Inconclusive \cap s2 = {}
    <3>1. Inconclusive \cap s1 = {}
      BY <1>1, <2>3
    <3>2. CASE level = "CRITICAL"
      BY <2>1, <2>3, <3>1, <3>2 DEF Verdict, Inconclusive
    <3>3. CASE level # "CRITICAL" /\ ("FAIL" \in s2 \/ level = "HIGH")
      <4>1. Verdict(s2, level) = "REVIEW_REQUIRED"
        BY <2>3, <3>3 DEF Verdict, Inconclusive
      <4>2. Verdict(s1, level) \in {"READY_FOR_HUMAN_REVIEW", "REVIEW_REQUIRED"}
        BY <3>1, <3>3 DEF Verdict, Inconclusive
      <4>3. QED
        BY <2>1, <4>1, <4>2
    <3>4. CASE level # "CRITICAL" /\ ~("FAIL" \in s2 \/ level = "HIGH")
      <4>1. Verdict(s1, level) = "READY_FOR_HUMAN_REVIEW" /\ Verdict(s2, level) = "READY_FOR_HUMAN_REVIEW"
        BY <1>2, <2>3, <3>1, <3>4 DEF Verdict, Inconclusive
      <4>2. QED
        BY <2>1, <4>1
    <3>5. QED
      BY <3>2, <3>3, <3>4
  <2>4. QED
    BY <2>2, <2>3
<1>4. QED
  BY <1>3 DEF Verdicts, s1, s2

\* Distinct ids count the controls.
LEMMA IdsCount ==
    ASSUME NEW X, IsFiniteSet(X), \A x, y \in X : x.id = y.id => x = y
    PROVE  /\ IsFiniteSet({x.id : x \in X})
           /\ Cardinality({x.id : x \in X}) = Cardinality(X)
<1> DEFINE T == {x.id : x \in X}
           f == [x \in X |-> x.id]
<1>1. /\ f \in [X -> T] /\ \A x, y \in X : f[x] = f[y] => x = y
      /\ \A t \in T : \E x \in X : t = f[x]
  OBVIOUS
<1> HIDE DEF T, f
<1>2. QED
  BY <1>1, SameSize DEF T

ConclusiveOnes(os, at) == {o \in os : Conclusive(o, at)}

\* No more controls are conclusive, out of as many.
LEMMA ConclusiveAges ==
    ASSUME NEW d \in Drafts, NEW arr \in Seq(Arrivable), NEW at \in Int, NEW now \in Int,
           Accepted(d, arr, at), Accepted(d, arr, now), at <= now, NoneAhead(arr, at)
    PROVE  LET os == AllControls(d, arr, at)
               ps == AllControls(d, arr, now) IN
           /\ Cardinality(ps) = Cardinality(os)
           /\ Cardinality(ConclusiveOnes(ps, now)) <= Cardinality(ConclusiveOnes(os, at))
<1> DEFINE os == AllControls(d, arr, at)
           ps == AllControls(d, arr, now)
           co == ConclusiveOnes(os, at)
           cp == ConclusiveOnes(ps, now)
<1>1. Aggregable(arr)
  BY DEF Accepted
<1>2. IsFiniteSet(os) /\ IsFiniteSet(ps)
  BY <1>1, ControlsAreFinite
<1>3. /\ \A x, y \in os : x.id = y.id => x = y
      /\ \A x, y \in ps : x.id = y.id => x = y
  BY IdsAreUnique
<1>4. \A p \in ps : \E o \in os : o.id = p.id /\ (Conclusive(p, now) => Conclusive(o, at))
  BY <1>1, ControlsAge
<1>5. \A o \in os : \E p \in ps : p.id = o.id
  BY <1>1, ControlsAge
<1>6. co \in SUBSET os /\ cp \in SUBSET ps
  BY DEF ConclusiveOnes
<1>7. \A p \in cp : \E o \in co : o.id = p.id
  BY <1>4 DEF ConclusiveOnes
<1>8. IsFiniteSet(co) /\ IsFiniteSet(cp)
  BY <1>2, <1>6, FS_Subset
<1> HIDE DEF os, ps, co, cp
<1>9. Cardinality(ps) = Cardinality(os)
  <2>1. {p.id : p \in ps} = {o.id : o \in os}
    BY <1>4, <1>5
  <2>2. /\ Cardinality({p.id : p \in ps}) = Cardinality(ps)
        /\ Cardinality({o.id : o \in os}) = Cardinality(os)
    BY <1>2, <1>3, IdsCount
  <2>3. QED
    BY <2>1, <2>2
<1>10. Cardinality(cp) <= Cardinality(co)
  <2> DEFINE I == {p.id : p \in cp}
             J == {o.id : o \in co}
  <2>1. Cardinality(I) = Cardinality(cp)
    BY <1>3, <1>6, <1>8, IdsCount
  <2>2. Cardinality(J) = Cardinality(co) /\ IsFiniteSet(J)
    BY <1>3, <1>6, <1>8, IdsCount
  <2>3. I \in SUBSET J
    BY <1>7
  <2> HIDE DEF I, J
  <2>4. Cardinality(I) <= Cardinality(J)
    BY <2>2, <2>3, FS_Subset
  <2>5. QED
    BY <2>1, <2>2, <2>4
<1>11. QED
  BY <1>9, <1>10 DEF os, ps, co, cp

\* The confidence the aggregate allows.
Trust(e, at) == IF Current(e, at) THEN e.confidence ELSE 0

LEMMA TrustIs ==
    ASSUME NEW e, NEW at, e.confidence \in 0..100
    PROVE  /\ Trust(e, at) \in 0..100 /\ Trust(e, at) \in Int
           /\ 0 <= Trust(e, at)
           /\ e.confidence = 0 => Trust(e, at) = 0
           /\ Current(e, at) => Trust(e, at) = e.confidence
           /\ ~Current(e, at) => Trust(e, at) = 0
<1>1. CASE Current(e, at)
  BY <1>1 DEF Trust
<1>2. CASE ~Current(e, at)
  BY <1>2 DEF Trust
<1>3. QED
  BY <1>1, <1>2

Applicable(arr, at) == {e \in Aggregate(arr, at) : e.status # "NOT_APPLICABLE"}

LEMMA CapIs ==
    ASSUME NEW arr \in Seq(Arrivable), Aggregable(arr), NEW at \in Int
    PROVE  LET cap == ConfidenceCap(Aggregate(arr, at), at) IN
           /\ cap \in 0..100
           /\ \A e \in Applicable(arr, at) : cap <= Trust(e, at)
           /\ \/ Applicable(arr, at) = {} /\ cap = 0
              \/ \E e \in Applicable(arr, at) : cap = Trust(e, at)
<1> DEFINE T == {Trust(e, at) : e \in Applicable(arr, at)}
           cap == ConfidenceCap(Aggregate(arr, at), at)
<1>1. ASSUME NEW e \in Applicable(arr, at)
      PROVE  Trust(e, at) \in 0..100
  <2>1. PICK k \in Keys : e = Entry(arr, at, k)
    BY AggregateIsEntries DEF Applicable
  <2>2. e.confidence \in 0..100
    BY <2>1, EntryIs
  <2>3. QED
    BY <2>2 DEF Trust
<1>2. cap = IF Applicable(arr, at) = {} THEN 0 ELSE Min(T)
  BY DEF ConfidenceCap, Applicable, Trust
<1>3. CASE Applicable(arr, at) = {}
  BY <1>2, <1>3
<1>4. CASE Applicable(arr, at) # {}
  <2>1. T \subseteq 0..100 /\ T # {}
    BY <1>1, <1>4
  <2> HIDE DEF T
  <2>2. T \subseteq Nat
    BY <2>1
  <2>3. Min(T) \in T /\ \A m \in T : Min(T) <= m
    BY <2>1, <2>2, MinOfNaturals
  <2>4. cap = Min(T)
    BY <1>2, <1>4 DEF T
  <2> HIDE DEF cap
  <2>5. QED
    BY <2>1, <2>3, <2>4 DEF T, cap
<1>5. QED
  BY <1>3, <1>4

\* It gets no greater.
LEMMA CapAges ==
    ASSUME NEW arr \in Seq(Arrivable), Aggregable(arr), NEW at \in Int, NEW now \in Int, at <= now,
           NoneAhead(arr, at)
    PROVE  ConfidenceCap(Aggregate(arr, now), now) <= ConfidenceCap(Aggregate(arr, at), at)
<1> DEFINE cap1 == ConfidenceCap(Aggregate(arr, at), at)
           cap2 == ConfidenceCap(Aggregate(arr, now), now)
<1>1. cap1 \in 0..100 /\ cap2 \in 0..100
  BY CapIs
<1>2. (Applicable(arr, at) = {} /\ cap1 = 0) \/ \E e \in Applicable(arr, at) : cap1 = Trust(e, at)
  BY CapIs
<1>3. \A e \in Applicable(arr, now) : cap2 <= Trust(e, now)
  BY CapIs
<1>4. cap2 = 0 \/ \E e \in Applicable(arr, now) : cap2 = Trust(e, now)
  BY CapIs
<1>5. ASSUME NEW k \in Keys
      PROVE  LET e1 == Entry(arr, at, k)
                 e2 == Entry(arr, now, k) IN
             /\ Trust(e2, now) <= Trust(e1, at)
             /\ e1.status # "NOT_APPLICABLE" => e2.status # "NOT_APPLICABLE"
             /\ e1.status = "NOT_APPLICABLE" => Trust(e2, now) = 0
  <2> DEFINE e1 == Entry(arr, at, k)
             e2 == Entry(arr, now, k)
  <2>1. e1.confidence \in 0..100 /\ (e1 \in ToSet(arr) => ValidEvidence(e1))
    BY EntryIs, AllObserved
  <2>2. \/ e1 = e2 /\ e1 \in ToSet(arr) /\ (Current(e2, now) => Current(e1, at))
        \/ /\ Missed(e2, now)
           /\ e1.status \in {"PASS", "UNKNOWN", "NOT_APPLICABLE"}
    BY EntryAges
  <2> HIDE DEF e1, e2
  <2>3. CASE e1 = e2 /\ e1 \in ToSet(arr) /\ (Current(e2, now) => Current(e1, at))
    <3>1. e1.status = "NOT_APPLICABLE" => e1.confidence = 0
      BY <2>1, <2>3 DEF ValidEvidence
    <3>2. Trust(e2, now) <= Trust(e1, at) /\ (e1.status = "NOT_APPLICABLE" => Trust(e2, now) = 0)
      BY <2>1, <2>3, <3>1, TrustIs
    <3>3. QED
      BY <2>3, <3>2 DEF e1, e2
  <2>4. CASE Missed(e2, now)
    <3>1. Trust(e2, now) = 0 /\ e2.status # "NOT_APPLICABLE"
      BY <2>4, TrustIs DEF Missed, Trust
    <3>2. Trust(e1, at) \in 0..100
      BY <2>1, TrustIs
    <3>3. Trust(e2, now) <= Trust(e1, at)
      BY <2>1, <3>1, TrustIs
    <3>4. QED
      BY <3>1, <3>3 DEF e1, e2
  <2>5. QED
    BY <2>2, <2>3, <2>4
<1> HIDE DEF cap1, cap2
<1>6. CASE Applicable(arr, at) = {} /\ cap1 = 0
  <2>1. CASE cap2 = 0
    BY <1>6, <2>1 DEF cap1, cap2
  <2>2. CASE \E e \in Applicable(arr, now) : cap2 = Trust(e, now)
    <3>1. PICK e \in Applicable(arr, now) : cap2 = Trust(e, now)
      BY <2>2
    <3>2. PICK k \in Keys : e = Entry(arr, now, k)
      BY AggregateIsEntries DEF Applicable
    <3>3. Entry(arr, at, k) \in Aggregate(arr, at)
      BY AggregateIsEntries
    <3>4. Entry(arr, at, k).status = "NOT_APPLICABLE"
      BY <1>6, <3>3 DEF Applicable
    <3>5. Trust(e, now) = 0
      BY <1>5, <3>2, <3>4
    <3>6. QED
      BY <1>6, <3>1, <3>5 DEF cap1, cap2
  <2>3. QED
    BY <1>4, <2>1, <2>2
<1>7. CASE \E e \in Applicable(arr, at) : cap1 = Trust(e, at)
  <2>1. PICK e \in Applicable(arr, at) : cap1 = Trust(e, at)
    BY <1>7
  <2>2. PICK k \in Keys : e = Entry(arr, at, k)
    BY AggregateIsEntries DEF Applicable
  <2> DEFINE e2 == Entry(arr, now, k)
  <2>3. Trust(e2, now) <= cap1 /\ e2.status # "NOT_APPLICABLE"
    BY <1>5, <2>1, <2>2 DEF Applicable
  <2>4. e2 \in Applicable(arr, now)
    BY <2>3, AggregateIsEntries DEF Applicable
  <2>5. cap2 <= Trust(e2, now)
    BY <1>3, <2>4
  <2>6. e2.confidence \in 0..100
    BY EntryIs
  <2> HIDE DEF e2
  <2>7. Trust(e2, now) \in Int
    BY <2>6, TrustIs
  <2>8. cap2 <= cap1
    BY <1>1, <2>3, <2>5, <2>7
  <2>9. QED
    BY <2>8 DEF cap1, cap2
<1>8. QED
  BY <1>2, <1>6, <1>7

\* The confidence is the percentage of conclusive controls, up to the cap.
Percentage(d, arr, at) ==
    (100 * Cardinality(ConclusiveOnes(AllControls(d, arr, at), at))) \div Cardinality(AllControls(d, arr, at))

LEMMA Counts ==
    ASSUME NEW d \in Drafts, NEW arr \in Seq(Arrivable), Aggregable(arr), NEW at \in Int
    PROVE  LET n == Cardinality(AllControls(d, arr, at))
               m == Cardinality(ConclusiveOnes(AllControls(d, arr, at), at)) IN
           n \in Nat \ {0} /\ m \in Nat /\ m <= n
<1> DEFINE os == AllControls(d, arr, at)
           co == ConclusiveOnes(os, at)
<1>1. IsFiniteSet(os)
  BY ControlsAreFinite
<1>2. os # {}
  BY DEF AllControls, OwnControls
<1>3. co \in SUBSET os
  BY DEF ConclusiveOnes
<1> HIDE DEF os, co
<1>4. Cardinality(os) \in Nat /\ Cardinality(os) # 0
  BY <1>1, <1>2, FS_CardinalityType, FS_EmptySet
<1>5. IsFiniteSet(co) /\ Cardinality(co) <= Cardinality(os)
  BY <1>1, <1>3, FS_Subset
<1>6. Cardinality(co) \in Nat
  BY <1>5, FS_CardinalityType
<1>7. QED
  BY <1>4, <1>5, <1>6 DEF os, co

LEMMA ConfidenceIs ==
    ASSUME NEW d \in Drafts, NEW arr \in Seq(Arrivable), Aggregable(arr), NEW at \in Int
    PROVE  LET cap == ConfidenceCap(Aggregate(arr, at), at)
               least == IF 80 <= cap THEN 80 ELSE cap
               part == Percentage(d, arr, at) IN
           /\ part \in 0..100 /\ cap \in 0..100
           /\ Confidence(AllControls(d, arr, at), at, AdaptedCap(cap)) = IF least <= part THEN least ELSE part
<1> DEFINE cap == ConfidenceCap(Aggregate(arr, at), at)
           least == IF 80 <= cap THEN 80 ELSE cap
           part == Percentage(d, arr, at)
<1>1. cap \in 0..100
  BY CapIs
<1>2. part \in 0..100
  <2> DEFINE n == Cardinality(AllControls(d, arr, at))
             m == Cardinality(ConclusiveOnes(AllControls(d, arr, at), at))
  <2>1. n \in Nat \ {0} /\ m \in Nat /\ m <= n
    BY Counts
  <2>2. part = (100 * m) \div n
    BY DEF Percentage
  <2> HIDE DEF n, m, part
  <2>3. QED
    BY <2>1, <2>2, Percent
<1>3. Confidence(AllControls(d, arr, at), at, AdaptedCap(cap)) = Min({AdaptedCap(cap), part})
  BY DEF Confidence, Percentage, ConclusiveOnes
<1> HIDE DEF cap, part
<1>4. AdaptedCap(cap) = least
  <2>1. 80 \in Int /\ cap \in Int
    BY <1>1
  <2>2. QED
    BY <2>1, MinOfTwo DEF AdaptedCap
<1>5. least \in Int /\ part \in Int
  BY <1>1, <1>2
<1> HIDE DEF least
<1>6. Min({least, part}) = IF least <= part THEN least ELSE part
  BY <1>5, MinOfTwo
<1>7. QED
  BY <1>1, <1>2, <1>3, <1>4, <1>6 DEF cap, part, least

\* It gets no greater.
LEMMA ConfidenceAges ==
    ASSUME NEW d \in Drafts, NEW arr \in Seq(Arrivable), NEW at \in Int, NEW now \in Int,
           Accepted(d, arr, at), Accepted(d, arr, now), at <= now, NoneAhead(arr, at)
    PROVE  Contract(d, arr, now).confidence <= Contract(d, arr, at).confidence
<1> DEFINE cap1 == ConfidenceCap(Aggregate(arr, at), at)
           cap2 == ConfidenceCap(Aggregate(arr, now), now)
           least1 == IF 80 <= cap1 THEN 80 ELSE cap1
           least2 == IF 80 <= cap2 THEN 80 ELSE cap2
           part1 == Percentage(d, arr, at)
           part2 == Percentage(d, arr, now)
<1>1. Aggregable(arr)
  BY DEF Accepted
<1>2. cap2 <= cap1 /\ cap1 \in 0..100 /\ cap2 \in 0..100
  BY <1>1, CapAges, ConfidenceIs
<1>3. part2 <= part1
  <2> DEFINE n1 == Cardinality(AllControls(d, arr, at))
             m1 == Cardinality(ConclusiveOnes(AllControls(d, arr, at), at))
             n2 == Cardinality(AllControls(d, arr, now))
             m2 == Cardinality(ConclusiveOnes(AllControls(d, arr, now), now))
  <2>1. n1 \in Nat \ {0} /\ m1 \in Nat /\ m2 \in Nat
    BY <1>1, Counts
  <2>2. n2 = n1 /\ m2 <= m1
    BY ConclusiveAges
  <2>3. part1 = (100 * m1) \div n1 /\ part2 = (100 * m2) \div n2
    BY DEF Percentage
  <2> HIDE DEF n1, m1, n2, m2, part1, part2
  <2>4. 100 * m2 <= 100 * m1 /\ 100 * m1 \in Nat /\ 100 * m2 \in Nat
    BY <2>1, <2>2
  <2>5. (100 * m2) \div n1 <= (100 * m1) \div n1
    BY <2>1, <2>4, DivMonotone
  <2>6. QED
    BY <2>2, <2>3, <2>5
<1>4. part1 \in 0..100 /\ part2 \in 0..100
  BY <1>1, ConfidenceIs
<1>5. Contract(d, arr, at).confidence = IF least1 <= part1 THEN least1 ELSE part1
  BY <1>1, ContractSays, ConfidenceIs
<1>6. Contract(d, arr, now).confidence = IF least2 <= part2 THEN least2 ELSE part2
  BY <1>1, ContractSays, ConfidenceIs
<1> HIDE DEF cap1, cap2, part1, part2
<1>7. least2 <= least1 /\ least1 \in Int /\ least2 \in Int
  BY <1>2
<1> HIDE DEF least1, least2
<1>8. QED
  BY <1>3, <1>4, <1>5, <1>6, <1>7

\* Assessing again on the same evidence gives no better verdict and no more
\* confidence, however often, unless the evidence came from the future.
THEOREM Decay == Spec => DecayIsMonotone
<1>1. AssessedInv /\ [Next]_vars =>
          [/\ assessment # Nothing /\ assessment' # Nothing
           /\ \A e \in ToSet(arrived) : e.collected <= assessment.at
           => /\ Favour[assessment'.verdict] <= Favour[assessment.verdict]
              /\ assessment'.confidence <= assessment.confidence]_vars
  <2> SUFFICES ASSUME AssessedInv, [Next]_vars, assessment # Nothing, assessment' # Nothing,
                      \A e \in ToSet(arrived) : e.collected <= assessment.at
               PROVE  /\ Favour[assessment'.verdict] <= Favour[assessment.verdict]
                      /\ assessment'.confidence <= assessment.confidence
    OBVIOUS
  <2> DEFINE at == assessment.at
  <2>1. /\ draft \in Drafts /\ arrived \in Seq(Arrivable) /\ at \in Int /\ at <= clock /\ clock \in Int
        /\ Accepted(draft, arrived, at) /\ assessment = Contract(draft, arrived, at)
    BY DEF AssessedInv, Typed, Justified
  <2>2. \E now \in Int : /\ at <= now /\ Accepted(draft, arrived, now)
                         /\ assessment' = Contract(draft, arrived, now)
    <3>1. CASE Assess
      BY <2>1, <3>1 DEF Assess
    <3>2. CASE assessment' = assessment
      BY <2>1, <3>2
    <3>3. QED
      BY <3>1, <3>2 DEF Next, Tick, Collect, Refuse, vars
  <2>3. PICK now \in Int : /\ at <= now /\ Accepted(draft, arrived, now)
                           /\ assessment' = Contract(draft, arrived, now)
    BY <2>2
  <2>4. NoneAhead(arrived, at) /\ Aggregable(arrived)
    BY <2>1 DEF NoneAhead, Accepted
  <2> HIDE DEF at
  <2>5. Favour[Verdicts(draft, arrived, now)] <= Favour[Verdicts(draft, arrived, at)]
    BY <2>1, <2>3, <2>4, VerdictAges
  <2>6. /\ assessment.verdict = Verdicts(draft, arrived, at)
        /\ assessment'.verdict = Verdicts(draft, arrived, now)
    BY <2>1, <2>3, <2>4, ContractSays
  <2>7. assessment'.confidence <= assessment.confidence
    BY <2>1, <2>3, <2>4, ConfidenceAges
  <2>8. QED
    BY <2>5, <2>6, <2>7
<1>2. QED
  BY <1>1, Invariance, PTL DEF DecayIsMonotone, Spec

-----------------------------------------------------------------------------
(* The score of a draft *)

\* The total of weighed findings is a natural number.
LEMMA TotalIsNatural ==
    ASSUME NEW fs \in Seq(Found)
    PROVE  Total(fs) \in Nat
<1> DEFINE n == Len(fs)
           step == [p \in Nat \X (1..n) |-> p[1] + fs[p[2]].score]
           F == CHOOSE f : f = [i \in 0..n |-> IF i = 0 THEN 0 ELSE f[i - 1] + fs[i].score]
<1>1. n \in Nat /\ \A i \in 1..n : fs[i].score \in Nat
  <2>1. n \in Nat /\ \A i \in 1..n : fs[i] \in Found
    OBVIOUS
  <2>2. QED
    BY <2>1 DEF Found
<1>2. Total(fs) = F[n]
  BY DEF Total
<1> HIDE DEF n
<1>3. step \in [Nat \X (1..n) -> Nat]
  BY <1>1
<1>4. PICK f \in [0..n -> Nat] : f = [i \in 0..n |-> IF i = 0 THEN 0 ELSE step[<<f[i - 1], i>>]]
  <2> HIDE DEF step
  <2>1. 0 \in Nat
    OBVIOUS
  <2>2. \E f \in [0..n -> Nat] : Recursive(f, n, 0, step)
    BY <1>1, <1>3, <2>1, Recursion
  <2>3. QED
    BY <2>2 DEF Recursive
<1>5. \A i \in 0..n : f[i] = IF i = 0 THEN 0 ELSE f[i - 1] + fs[i].score
  <2>1. \A i \in 0..n : i # 0 => i \in 1..n /\ f[i - 1] \in Nat
    <3>1. \A i \in 0..n : i # 0 => i \in 1..n /\ i - 1 \in 0..n
      BY <1>1
    <3>2. \A i \in 0..n : f[i] \in Nat
      OBVIOUS
    <3>3. QED
      BY <3>1, <3>2
  <2>2. \A i \in 1..n : f[i - 1] \in Nat => step[<<f[i - 1], i>>] = f[i - 1] + fs[i].score
    OBVIOUS
  <2> HIDE DEF step
  <2>3. QED
    BY <1>4, <2>1, <2>2
<1>6. f = [i \in 0..n |-> IF i = 0 THEN 0 ELSE f[i - 1] + fs[i].score]
  <2>1. f = [i \in 0..n |-> f[i]]
    BY <1>4
  <2>2. QED
    BY <1>5, <2>1
<1>7. F = [i \in 0..n |-> IF i = 0 THEN 0 ELSE F[i - 1] + fs[i].score]
  BY <1>6
<1> HIDE DEF F
<1> DEFINE T == {i \in 0..n : F[i] \in Nat}
<1>8. \A i \in 0..n : F[i] = IF i = 0 THEN 0 ELSE F[i - 1] + fs[i].score
  BY <1>7
<1>9. 0 \in T
  BY <1>1, <1>8
<1>10. ASSUME NEW k \in 1..n, k - 1 \in T
       PROVE  k \in T
  <2>1. k \in 0..n /\ k # 0 /\ F[k - 1] \in Nat /\ fs[k].score \in Nat
    BY <1>1, <1>10
  <2>2. F[k] = F[k - 1] + fs[k].score
    BY <1>8, <2>1
  <2>3. QED
    BY <2>1, <2>2
<1>11. \A i \in 0..n : F[i] \in Nat
  <2> HIDE DEF T
  <2>1. \A i \in 0..n : i \in T
    BY <1>1, <1>9, <1>10, IntervalInduction
  <2>2. QED
    BY <2>1 DEF T
<1>12. n \in 0..n
  BY <1>1
<1>13. QED
  BY <1>2, <1>11, <1>12

LEMMA ScoreIsBounded ==
    ASSUME NEW d \in Drafts
    PROVE  ScoreOf(d) \in 0..100
<1>1. Total(Weighed(d)) \in Nat
  BY WeighedAreFindings, TotalIsNatural
<1>2. Min({100, Total(Weighed(d))}) = IF 100 <= Total(Weighed(d)) THEN 100 ELSE Total(Weighed(d))
  BY <1>1, MinOfTwo
<1>3. QED
  BY <1>1, <1>2 DEF ScoreOf, Score

-----------------------------------------------------------------------------
(* What the report shows *)

\* The controls that end in a status.
Ending(d, arr, at, status) == {o \in AllControls(d, arr, at) : FinalStatus(o, at) = status}

IdsOf(os) == {o.id : o \in os}

\* What is assessed at an instant, and accepted.
Assessable(d, arr, at) ==
    /\ d \in Drafts /\ arr \in Seq(Arrivable) /\ at \in Int
    /\ Accepted(d, arr, at)

LEMMA AssessableControls ==
    ASSUME NEW d, NEW arr, NEW at, Assessable(d, arr, at)
    PROVE  LET os == AllControls(d, arr, at) IN
           /\ d \in Drafts /\ arr \in Seq(Arrivable) /\ at \in Int /\ Aggregable(arr)
           /\ IsFiniteSet(os) /\ os # {}
           /\ \A o, p \in os : o.id = p.id => o = p
           /\ \A o \in os : /\ FinalStatus(o, at) \in Statuses /\ o.pinned = TRUE /\ o.points \in Nat
                            /\ o.collected \in Int /\ o.until \in Int /\ o.collected <= o.until
<1>1. d \in Drafts /\ arr \in Seq(Arrivable) /\ at \in Int /\ Accepted(d, arr, at) /\ Aggregable(arr)
  BY DEF Assessable, Accepted
<1>2. AllControls(d, arr, at) # {}
  BY DEF AllControls, OwnControls
<1>3. IsFiniteSet(AllControls(d, arr, at))
  BY <1>1, ControlsAreFinite
<1>4. \A o, p \in AllControls(d, arr, at) : o.id = p.id => o = p
  BY <1>1, IdsAreUnique
<1>5. QED
  BY <1>1, <1>2, <1>3, <1>4, FinalIsAStatus

\* A category of the report has the controls that ended in its status.
LEMMA CategoryIs ==
    ASSUME NEW d, NEW arr, NEW at, Assessable(d, arr, at), NEW s
    PROVE  /\ Having(Contract(d, arr, at), s) = IdsOf(Ending(d, arr, at, s))
           /\ IsFiniteSet(Ending(d, arr, at, s))
           /\ IsFiniteSet(IdsOf(Ending(d, arr, at, s)))
           /\ Cardinality(IdsOf(Ending(d, arr, at, s))) = Cardinality(Ending(d, arr, at, s))
<1> DEFINE os == AllControls(d, arr, at)
           c == Contract(d, arr, at)
           Shown(o) == [id |-> o.id, status |-> FinalStatus(o, at), points |-> o.points,
                        evidence |-> IF o.pinned THEN {o.id} ELSE {}]
           E == Ending(d, arr, at, s)
<1>1. IsFiniteSet(os) /\ \A o, p \in os : o.id = p.id => o = p
  BY AssessableControls
<1>2. c.controls = {Shown(o) : o \in os}
  <2>1. d \in Drafts /\ arr \in Seq(Arrivable) /\ at \in Int /\ Aggregable(arr)
    BY AssessableControls
  <2>2. QED
    BY <2>1, ContractSays
<1>3. \A o \in os : Shown(o).id = o.id /\ Shown(o).status = FinalStatus(o, at)
  OBVIOUS
<1>4. E \in SUBSET os
  BY DEF Ending
<1>5. \A o \in os : o \in E <=> FinalStatus(o, at) = s
  BY DEF Ending
<1> HIDE DEF os, c, Shown, E
<1>6. Having(c, s) = IdsOf(E)
  <2>1. ASSUME NEW i \in Having(c, s)
        PROVE  i \in IdsOf(E)
    <3>1. PICK x \in c.controls : x.status = s /\ i = x.id
      BY DEF Having
    <3>2. PICK o \in os : x = Shown(o)
      BY <1>2, <3>1
    <3>3. o \in E /\ i = o.id
      BY <1>3, <1>5, <3>1, <3>2
    <3>4. QED
      BY <3>3 DEF IdsOf
  <2>2. ASSUME NEW i \in IdsOf(E)
        PROVE  i \in Having(c, s)
    <3>1. PICK o \in E : i = o.id
      BY DEF IdsOf
    <3>2. Shown(o) \in c.controls /\ Shown(o).id = i /\ Shown(o).status = s
      BY <1>2, <1>3, <1>4, <1>5, <3>1
    <3>3. QED
      BY <3>2 DEF Having
  <2>3. QED
    BY <2>1, <2>2
<1>7. IsFiniteSet(E)
  BY <1>1, <1>4, FS_Subset
<1>8. \A o, p \in E : o.id = p.id => o = p
  BY <1>1, <1>4
<1>9. IsFiniteSet(IdsOf(E)) /\ Cardinality(IdsOf(E)) = Cardinality(E)
  BY <1>7, <1>8, IdsCount DEF IdsOf
<1>10. QED
  BY <1>6, <1>7, <1>9 DEF E, c

\* A blocker for each control that did not pass.
Open(d, arr, at) ==
    Cardinality(Ending(d, arr, at, "FAIL")) + Cardinality(Ending(d, arr, at, "UNKNOWN"))
    + Cardinality(Ending(d, arr, at, "ERROR"))

LEMMA DisjointUnion ==
    ASSUME NEW S, NEW T, IsFiniteSet(S), IsFiniteSet(T), S \cap T = {}
    PROVE  IsFiniteSet(S \cup T) /\ Cardinality(S \cup T) = Cardinality(S) + Cardinality(T)
<1>1. /\ IsFiniteSet(S \cup T)
      /\ Cardinality(S \cup T) = Cardinality(S) + Cardinality(T) - Cardinality(S \cap T)
  BY FS_Union
<1>2. Cardinality(S \cap T) = 0
  BY FS_EmptySet
<1>3. Cardinality(S) \in Nat /\ Cardinality(T) \in Nat
  BY FS_CardinalityType
<1>4. QED
  BY <1>1, <1>2, <1>3

LEMMA BlockersAreOpen ==
    ASSUME NEW d, NEW arr, NEW at, Assessable(d, arr, at)
    PROVE  LET b == Contract(d, arr, at).blockers IN
           /\ IsFiniteSet(b) /\ Cardinality(b) = Open(d, arr, at) /\ Open(d, arr, at) \in Nat
           /\ \A i \in b : i.control \in IdsOf(AllControls(d, arr, at))
           /\ \A o \in AllControls(d, arr, at) :
                  FinalStatus(o, at) # "PASS" => \E i \in b : i.control = o.id
<1> DEFINE os == AllControls(d, arr, at)
           b == Contract(d, arr, at).blockers
           N == {o \in os : FinalStatus(o, at) # "PASS"}
           F == Ending(d, arr, at, "FAIL")
           U == Ending(d, arr, at, "UNKNOWN")
           R == Ending(d, arr, at, "ERROR")
           f == [o \in N |-> Issue(StatusCode[FinalStatus(o, at)], o)]
<1>1. /\ IsFiniteSet(os) /\ \A o, p \in os : o.id = p.id => o = p
      /\ \A o \in os : FinalStatus(o, at) \in Statuses
  BY AssessableControls
<1>2. b = {Issue(StatusCode[FinalStatus(o, at)], o) : o \in N}
  <2>1. d \in Drafts /\ arr \in Seq(Arrivable) /\ at \in Int /\ Aggregable(arr)
    BY AssessableControls
  <2>2. b = Blockers(os, at)
    BY <2>1, ContractSays
  <2>3. QED
    BY <2>2 DEF Blockers
<1>3. N = (F \cup U) \cup R /\ F \cap U = {} /\ (F \cup U) \cap R = {}
  BY <1>1 DEF Ending, Statuses
<1>4. IsFiniteSet(F) /\ IsFiniteSet(U) /\ IsFiniteSet(R)
  BY CategoryIs
<1>5. Cardinality(F) \in Nat /\ Cardinality(U) \in Nat /\ Cardinality(R) \in Nat
  BY <1>4, FS_CardinalityType
<1>6. N \in SUBSET os
  OBVIOUS
<1>7. \A o \in os : o \in N <=> FinalStatus(o, at) # "PASS"
  OBVIOUS
<1>8. \A o \in N : f[o].control = o.id
  BY DEF Issue
<1>9. f \in [N -> b] /\ \A i \in b : \E o \in N : i = f[o]
  BY <1>2
<1>10. Open(d, arr, at) = Cardinality(F) + Cardinality(U) + Cardinality(R)
  BY DEF Open
<1> HIDE DEF os, b, N, F, U, R, f
<1>11. Cardinality(N) = Cardinality(F) + Cardinality(U) + Cardinality(R) /\ IsFiniteSet(N)
  <2>1. IsFiniteSet(F \cup U) /\ Cardinality(F \cup U) = Cardinality(F) + Cardinality(U)
    BY <1>3, <1>4, DisjointUnion
  <2>2. IsFiniteSet(N) /\ Cardinality(N) = Cardinality(F \cup U) + Cardinality(R)
    BY <1>3, <1>4, <2>1, DisjointUnion
  <2>3. QED
    BY <2>1, <2>2
<1>12. \A o, p \in N : f[o] = f[p] => o = p
  BY <1>1, <1>6, <1>8
<1>13. IsFiniteSet(b) /\ Cardinality(b) = Cardinality(N)
  BY <1>9, <1>11, <1>12, SameSize
<1>14. \A i \in b : i.control \in IdsOf(os)
  BY <1>6, <1>8, <1>9 DEF IdsOf
<1>15. \A o \in os : FinalStatus(o, at) # "PASS" => \E i \in b : i.control = o.id
  BY <1>7, <1>8, <1>9
<1>16. QED
  BY <1>5, <1>10, <1>11, <1>13, <1>14, <1>15 DEF os, b

\* What a limit leaves of a list is accounted for.
LEMMA BoundedAccounts ==
    ASSUME NEW S, NEW s \in Seq(S), NEW n \in Nat
    PROVE  LET b == Bounded(s, n) IN
           /\ b.total = Len(s)
           /\ b.omitted = Max({0, Len(s) - n})
           /\ b.total = Len(b.items) + b.omitted
<1>1. PICK m \in Nat : Len(s) = m
  OBVIOUS
<1>2. Min({n, m}) = IF n <= m THEN n ELSE m
  BY MinOfTwo
<1>3. Max({0, m - n}) = IF 0 <= m - n THEN m - n ELSE 0
  <2>1. m - n \in Int
    OBVIOUS
  <2>2. QED
    BY <2>1, MaxOfTwo
<1> DEFINE k == IF n <= m THEN n ELSE m
<1>4. k \in 0..m
  OBVIOUS
<1>5. Len(SubSeq(s, 1, k)) = k
  <2>1. k \in Nat /\ k <= Len(s)
    BY <1>1, <1>4
  <2> HIDE DEF k
  <2>2. CASE k = 0
    <3>1. SubSeq(s, 1, k) = <<>>
      BY <2>2, SubSeqEmpty
    <3>2. QED
      BY <2>2, <3>1
  <2>3. CASE k # 0
    <3>1. 1 \in 1..Len(s) + 1 /\ k \in 0..Len(s)
      BY <1>1, <2>1, <2>3
    <3>2. QED
      BY <2>1, <2>3, <3>1, SubSeqProperties
  <2>4. QED
    BY <2>2, <2>3
<1>6. Bounded(s, n).items = SubSeq(s, 1, k) /\ Bounded(s, n).total = m
      /\ Bounded(s, n).omitted = Max({0, m - n})
  BY <1>1, <1>2 DEF Bounded, AtMost
<1>7. QED
  BY <1>1, <1>3, <1>5, <1>6

\* A remedy for each id of a category.
Remedies(code, ids) == {[code |-> code, control |-> id] : id \in ids}

LEMMA RemediesAreListed ==
    ASSUME NEW code, NEW ids, IsFiniteSet(ids)
    PROVE  LET s == SetToSeq(Remedies(code, ids)) IN
           s \in Seq(Remedies(code, ids)) /\ Len(s) = Cardinality(ids) /\ Len(s) \in Nat
<1> DEFINE T == Remedies(code, ids)
           f == [id \in ids |-> [code |-> code, control |-> id]]
<1>1. f \in [ids -> T] /\ \A t \in T : \E id \in ids : t = f[id]
  BY DEF Remedies
<1>2. \A i, j \in ids : f[i] = f[j] => i = j
  <2>1. \A i \in ids : f[i].control = i
    OBVIOUS
  <2> HIDE DEF f
  <2>2. QED
    BY <2>1
<1> HIDE DEF T, f
<1>3. IsFiniteSet(T) /\ Cardinality(T) = Cardinality(ids)
  BY <1>1, <1>2, SameSize
<1>4. SetToSeq(T) \in Seq(T) /\ Len(SetToSeq(T)) = Cardinality(T) /\ Cardinality(T) \in Nat
  BY <1>3, Listed, FS_CardinalityType
<1>5. QED
  BY <1>3, <1>4 DEF T

\* The next actions are one at least, and one at least for each control that is open.
LEMMA ActionsForAll ==
    ASSUME NEW c, \A s \in Statuses : IsFiniteSet(Having(c, s))
    PROVE  \E S : /\ DerivedActions(c) \in Seq(S)
                  /\ Len(DerivedActions(c)) >= 1
                  /\ Len(DerivedActions(c)) >= Cardinality(Having(c, "FAIL"))
                       + Cardinality(Having(c, "UNKNOWN")) + Cardinality(Having(c, "ERROR"))
<1> DEFINE E == Remedies(ActionCode["ERROR"], Having(c, "ERROR"))
           U == Remedies(ActionCode["UNKNOWN"], Having(c, "UNKNOWN"))
           F == Remedies(ActionCode["FAIL"], Having(c, "FAIL"))
           keep == [code |-> "KEEP_CHANGE_BLOCKED", control |-> "assessment:risk"]
           review == [code |-> "REQUEST_AUTHORIZED_HUMAN_REVIEW", control |-> "assessment:decision"]
           S == E \cup U \cup F \cup {keep, review}
           e == SetToSeq(E)
           u == SetToSeq(U)
           f == SetToSeq(F)
           k == IF c.level = "CRITICAL" THEN << keep >> ELSE <<>>
           remedies == ((k \o e) \o u) \o f
<1>1. DerivedActions(c) = IF remedies # <<>> THEN remedies ELSE << review >>
  BY DEF DerivedActions, Remedies
<1>2. /\ e \in Seq(E) /\ Len(e) = Cardinality(Having(c, "ERROR")) /\ Len(e) \in Nat
      /\ u \in Seq(U) /\ Len(u) = Cardinality(Having(c, "UNKNOWN")) /\ Len(u) \in Nat
      /\ f \in Seq(F) /\ Len(f) = Cardinality(Having(c, "FAIL")) /\ Len(f) \in Nat
  BY RemediesAreListed DEF Statuses
<1>3. E \subseteq S /\ U \subseteq S /\ F \subseteq S /\ keep \in S /\ review \in S
  OBVIOUS
<1>4. k = << keep >> \/ k = <<>>
  OBVIOUS
<1> HIDE DEF E, U, F, keep, review, S, e, u, f, k, remedies
<1>5. e \in Seq(S) /\ u \in Seq(S) /\ f \in Seq(S)
  BY <1>2, <1>3, SeqMonotonic
<1>6. k \in Seq(S) /\ Len(k) \in Nat
  <2>1. << keep >> \in Seq(S)
    BY <1>3, Single
  <2>2. <<>> \in Seq(S)
    OBVIOUS
  <2>3. k \in Seq(S)
    BY <1>4, <2>1, <2>2
  <2>4. QED
    BY <2>3
<1> DEFINE ke == k \o e
           keu == ke \o u
<1>7. ke \in Seq(S) /\ Len(ke) = Len(k) + Len(e)
  BY <1>5, <1>6, Concatenated
<1> HIDE DEF ke
<1>8. keu \in Seq(S) /\ Len(keu) = Len(ke) + Len(u)
  BY <1>5, <1>7, Concatenated
<1> HIDE DEF keu
<1>9. remedies \in Seq(S) /\ Len(remedies) = Len(keu) + Len(f)
  <2>1. keu \o f \in Seq(S) /\ Len(keu \o f) = Len(keu) + Len(f)
    BY <1>5, <1>8, Concatenated
  <2>2. QED
    BY <2>1 DEF remedies, keu, ke
<1>10. << review >> \in Seq(S) /\ Len(<< review >>) = 1
  BY <1>3, Single
<1> DEFINE open == Cardinality(Having(c, "FAIL")) + Cardinality(Having(c, "UNKNOWN"))
                       + Cardinality(Having(c, "ERROR"))
<1>11. open = Len(f) + Len(u) + Len(e)
  BY <1>2
<1> HIDE DEF open
<1>12. Len(remedies) \in Nat /\ Len(remedies) >= open /\ open \in Nat
  <2>1. Len(e) \in Nat /\ Len(u) \in Nat /\ Len(f) \in Nat /\ Len(k) \in Nat
    BY <1>2, <1>6
  <2>2. Len(remedies) = ((Len(k) + Len(e)) + Len(u)) + Len(f)
    BY <1>7, <1>8, <1>9
  <2>3. QED
    BY <1>11, <2>1, <2>2
<1>13. CASE remedies # <<>>
  <2>1. Len(remedies) # 0
    BY <1>9, <1>13, EmptySeq
  <2>2. Len(remedies) >= 1
    BY <1>12, <2>1
  <2>3. QED
    BY <1>1, <1>9, <1>12, <1>13, <2>2 DEF open
<1>14. CASE remedies = <<>>
  <2>1. Len(remedies) = 0
    BY <1>14
  <2>2. open <= 1
    BY <1>12, <2>1
  <2>3. DerivedActions(c) = << review >>
    BY <1>1, <1>14
  <2>4. QED
    BY <1>10, <2>2, <2>3 DEF open
<1>15. QED
  BY <1>13, <1>14

\* What a report says of the controls it is made of.
Accounted(report, d, arr, at) ==
    /\ \A s \in Statuses : report.counts[s] = Cardinality(Ending(d, arr, at, s))
    /\ \A s \in Statuses : report.controls[s] = IdsOf(Ending(d, arr, at, s))
    /\ report.topBlockers.total = Open(d, arr, at)
    /\ report.topBlockers.omitted = Max({0, Open(d, arr, at) - TopBlockersLimit})
    /\ report.topBlockers.total = Len(report.topBlockers.items) + report.topBlockers.omitted
    /\ report.nextActions.total \in Nat
    /\ report.nextActions.total >= 1
    /\ report.nextActions.total >= Open(d, arr, at)
    /\ report.nextActions.total = Len(report.nextActions.items) + report.nextActions.omitted

LEMMA ReportAccounts ==
    ASSUME NEW d, NEW arr, NEW at, Assessable(d, arr, at)
    PROVE  Accounted(BuildReport(Contract(d, arr, at)), d, arr, at)
<1> DEFINE c == Contract(d, arr, at)
           report == BuildReport(c)
<1>1. \A s : /\ Having(c, s) = IdsOf(Ending(d, arr, at, s))
             /\ IsFiniteSet(Having(c, s))
             /\ Cardinality(Having(c, s)) = Cardinality(Ending(d, arr, at, s))
  BY CategoryIs
<1>2. IsFiniteSet(c.blockers) /\ Cardinality(c.blockers) = Open(d, arr, at)
  BY BlockersAreOpen
<1> HIDE DEF c
<1>3. /\ report.counts = [s \in Statuses |-> Cardinality(Having(c, s))]
      /\ report.controls = [s \in Statuses |-> Having(c, s)]
      /\ report.topBlockers = Bounded(SetToSeq(c.blockers), TopBlockersLimit)
      /\ report.nextActions = Bounded(DerivedActions(c), NextActionsLimit)
  BY DEF BuildReport
<1> HIDE DEF report
<1>4. \A s \in Statuses : /\ report.counts[s] = Cardinality(Ending(d, arr, at, s))
                          /\ report.controls[s] = IdsOf(Ending(d, arr, at, s))
  BY <1>1, <1>3
<1>5. /\ report.topBlockers.total = Open(d, arr, at)
      /\ report.topBlockers.omitted = Max({0, Open(d, arr, at) - TopBlockersLimit})
      /\ report.topBlockers.total = Len(report.topBlockers.items) + report.topBlockers.omitted
  <2> DEFINE s == SetToSeq(c.blockers)
  <2>1. s \in Seq(c.blockers) /\ Len(s) = Open(d, arr, at)
    BY <1>2, Listed
  <2>2. TopBlockersLimit \in Nat
    BY LimitsAssumption
  <2>3. report.topBlockers = Bounded(s, TopBlockersLimit)
    BY <1>3
  <2> HIDE DEF s
  <2>4. QED
    BY <2>1, <2>2, <2>3, BoundedAccounts
<1>6. /\ report.nextActions.total \in Nat
      /\ report.nextActions.total >= 1 /\ report.nextActions.total >= Open(d, arr, at)
      /\ report.nextActions.total = Len(report.nextActions.items) + report.nextActions.omitted
  <2> DEFINE s == DerivedActions(c)
  <2>1. PICK S : /\ s \in Seq(S)
                 /\ Len(s) >= 1
                 /\ Len(s) >= Cardinality(Having(c, "FAIL"))
                       + Cardinality(Having(c, "UNKNOWN")) + Cardinality(Having(c, "ERROR"))
    BY <1>1, ActionsForAll
  <2>2. Len(s) >= Open(d, arr, at)
    BY <1>1, <2>1 DEF Open
  <2>3. NextActionsLimit \in Nat
    BY LimitsAssumption
  <2>4. report.nextActions = Bounded(s, NextActionsLimit)
    BY <1>3
  <2> HIDE DEF s
  <2>5. Len(s) \in Nat
    BY <2>1
  <2>6. /\ Bounded(s, NextActionsLimit).total = Len(s)
        /\ Bounded(s, NextActionsLimit).total
             = Len(Bounded(s, NextActionsLimit).items) + Bounded(s, NextActionsLimit).omitted
    BY <2>1, <2>3, BoundedAccounts
  <2>7. QED
    BY <2>1, <2>2, <2>4, <2>5, <2>6
<1>7. QED
  BY <1>4, <1>5, <1>6 DEF Accounted, report, c

\* Every expected identity is in a category of the report, and the blockers and
\* the next actions account for all that did not pass, whatever the limits.
THEOREM NothingIsHidden == Spec => []NothingHidden
<1>1. AssessedInv => NothingHidden
  <2> SUFFICES ASSUME AssessedInv, assessment # Nothing
               PROVE  NothingHidden
    BY DEF NothingHidden
  <2> DEFINE at == assessment.at
             report == BuildReport(assessment)
             open == report.counts["FAIL"] + report.counts["UNKNOWN"] + report.counts["ERROR"]
  <2>1. /\ Assessable(draft, arrived, at) /\ at \in Int
        /\ report = BuildReport(Contract(draft, arrived, at))
    BY DEF AssessedInv, Typed, Justified, Assessable
  <2> HIDE DEF at, report
  <2>2. /\ \A s \in Statuses : report.counts[s] = Cardinality(Ending(draft, arrived, at, s))
        /\ \A s \in Statuses : report.controls[s] = IdsOf(Ending(draft, arrived, at, s))
        /\ report.topBlockers.total = Open(draft, arrived, at)
        /\ report.topBlockers.omitted = Max({0, Open(draft, arrived, at) - TopBlockersLimit})
        /\ report.nextActions.total \in Nat
        /\ report.nextActions.total >= 1
        /\ report.nextActions.total >= Open(draft, arrived, at)
    <3>1. Accounted(report, draft, arrived, at)
      BY <2>1, ReportAccounts
    <3>2. QED
      BY <3>1 DEF Accounted
  <2>3. open = Open(draft, arrived, at)
    BY <2>2 DEF Open, Statuses
  <2>4. ASSUME NEW k \in Keys
        PROVE  \E s \in Statuses : <<"provider", k>> \in report.controls[s]
    <3> DEFINE o == Vouched(Entry(arrived, at, k), at)
    <3>1. /\ draft \in Drafts /\ arrived \in Seq(Arrivable) /\ Aggregable(arrived)
          /\ \A p \in AllControls(draft, arrived, at) : FinalStatus(p, at) \in Statuses
      BY <2>1, AssessableControls
    <3>2. o \in AllControls(draft, arrived, at)
      BY <2>1, <3>1, ProviderControlsAre DEF AllControls
    <3>3. o.id = <<"provider", k>>
      BY <2>1, <3>1, EntryIs DEF Vouched
    <3>4. FinalStatus(o, at) \in Statuses
      BY <3>1, <3>2
    <3> HIDE DEF o
    <3>5. o \in Ending(draft, arrived, at, FinalStatus(o, at))
      BY <3>2 DEF Ending
    <3>6. <<"provider", k>> \in IdsOf(Ending(draft, arrived, at, FinalStatus(o, at)))
      BY <3>3, <3>5 DEF IdsOf
    <3>7. QED
      BY <2>2, <3>4, <3>6
  <2> HIDE DEF open
  <2>5. report.nextActions.total >= Max({1, open})
    <3>1. Open(draft, arrived, at) \in Nat
      BY <2>1, BlockersAreOpen
    <3>2. open \in Int
      BY <2>3, <3>1
    <3>3. Max({1, open}) = IF 1 <= open THEN open ELSE 1
      BY <3>2, MaxOfTwo
    <3>4. QED
      BY <2>2, <2>3, <3>3
  <2>6. QED
    BY <2>2, <2>3, <2>4, <2>5 DEF NothingHidden, open, report
<1>2. QED
  BY <1>1, Invariance, PTL

-----------------------------------------------------------------------------
(* What the kernel and the report say passes their validators *)

\* The control and the evidence of an observation as the contract shows them.
Shown(o, at) ==
    [id |-> o.id, status |-> FinalStatus(o, at), points |-> o.points,
     evidence |-> IF o.pinned THEN {o.id} ELSE {}]

Record(o, at) ==
    [control |-> o.id, collected |-> o.collected, until |-> o.until, freshness |-> Freshness(o, at)]

LEMMA ContractShows ==
    ASSUME NEW d, NEW arr, NEW at, Assessable(d, arr, at)
    PROVE  LET c == Contract(d, arr, at)
               os == AllControls(d, arr, at) IN
           /\ c.controls = {Shown(o, at) : o \in os}
           /\ c.evidence = {Record(o, at) : o \in os}
           /\ ControlIds(c) = IdsOf(os)
<1> DEFINE c == Contract(d, arr, at)
           os == AllControls(d, arr, at)
<1>1. d \in Drafts /\ arr \in Seq(Arrivable) /\ at \in Int /\ Aggregable(arr)
  BY AssessableControls
<1>2. c.controls = {Shown(o, at) : o \in os}
  BY <1>1, ContractSays DEF Shown
<1>3. c.evidence = {Record(o, at) : o \in {p \in os : p.pinned}}
  BY <1>1, ContractSays DEF Record
<1>4. {p \in os : p.pinned} = os
  <2>1. \A o \in os : o.pinned = TRUE
    BY AssessableControls
  <2> HIDE DEF os
  <2>2. QED
    BY <2>1
<1>5. \A o : Shown(o, at).id = o.id
  BY DEF Shown
<1> HIDE DEF c, os
<1>6. ControlIds(c) = IdsOf(os)
  BY <1>2, <1>5 DEF ControlIds, IdsOf
<1>7. c.evidence = {Record(o, at) : o \in os}
  BY <1>3, <1>4
<1>8. QED
  BY <1>2, <1>6, <1>7 DEF c, os

LEMMA ControlsAreValid ==
    ASSUME NEW d, NEW arr, NEW at, Assessable(d, arr, at)
    PROVE  ValidControls(Contract(d, arr, at))
<1> DEFINE c == Contract(d, arr, at)
           os == AllControls(d, arr, at)
<1>1. c.controls = {Shown(o, at) : o \in os}
  BY ContractShows
<1>2. /\ os # {}
      /\ \A o, p \in os : o.id = p.id => o = p
      /\ \A o \in os : FinalStatus(o, at) \in Statuses /\ o.points \in Nat
  BY AssessableControls
<1> HIDE DEF c, os
<1>3. \A o : Shown(o, at).id = o.id /\ Shown(o, at).status = FinalStatus(o, at) /\ Shown(o, at).points = o.points
  BY DEF Shown
<1>4. c.controls # {}
  BY <1>1, <1>2
<1>5. ASSUME NEW x \in c.controls, NEW y \in c.controls, x.id = y.id
      PROVE  x = y
  <2>1. PICK o \in os, p \in os : x = Shown(o, at) /\ y = Shown(p, at)
    BY <1>1
  <2>2. o = p
    BY <1>2, <1>3, <1>5, <2>1
  <2>3. QED
    BY <2>1, <2>2
<1>6. ASSUME NEW x \in c.controls
      PROVE  x.status \in Statuses /\ x.points >= 0
  <2>1. PICK o \in os : x = Shown(o, at)
    BY <1>1
  <2>2. x.status = FinalStatus(o, at) /\ x.points = o.points
    BY <1>3, <2>1
  <2>3. FinalStatus(o, at) \in Statuses /\ o.points \in Nat
    BY <1>2
  <2>4. x.points \in Nat
    BY <2>2, <2>3
  <2>5. QED
    BY <2>2, <2>3, <2>4
<1>7. QED
  BY <1>4, <1>5, <1>6 DEF ValidControls, c

LEMMA EvidenceRecordsAreValid ==
    ASSUME NEW d, NEW arr, NEW at, Assessable(d, arr, at)
    PROVE  ValidEvidenceRecords(Contract(d, arr, at))
<1> DEFINE c == Contract(d, arr, at)
           os == AllControls(d, arr, at)
<1>1. /\ c.controls = {Shown(o, at) : o \in os} /\ c.evidence = {Record(o, at) : o \in os}
      /\ ControlIds(c) = IdsOf(os)
  BY ContractShows
<1>2. \A o \in os : o.pinned = TRUE /\ o.collected <= o.until
  BY AssessableControls
<1> HIDE DEF c, os
<1>3. ASSUME NEW e \in c.evidence
      PROVE  e.control \in ControlIds(c) /\ e.collected <= e.until
  <2>1. PICK o \in os : e = Record(o, at)
    BY <1>1
  <2>2. e.control = o.id /\ e.collected = o.collected /\ e.until = o.until
    BY <2>1 DEF Record
  <2>3. o.collected <= o.until
    BY <1>2
  <2>4. o.id \in IdsOf(os)
    BY DEF IdsOf
  <2>5. QED
    BY <1>1, <2>2, <2>3, <2>4
<1>4. ASSUME NEW x \in c.controls
      PROVE  x.evidence \subseteq {e.control : e \in c.evidence}
  <2>1. PICK o \in os : x = Shown(o, at)
    BY <1>1
  <2>2. x.evidence = {o.id}
    BY <1>2, <2>1 DEF Shown
  <2>3. Record(o, at) \in c.evidence /\ Record(o, at).control = o.id
    BY <1>1 DEF Record
  <2>4. o.id \in {e.control : e \in c.evidence}
    BY <2>3
  <2>5. QED
    BY <2>2, <2>4
<1>5. QED
  BY <1>3, <1>4 DEF ValidEvidenceRecords, c

\* The confidence is a percentage, and verdict and action are in the vocabulary.
LEMMA ScoresAreValid ==
    ASSUME NEW d, NEW arr, NEW at, Assessable(d, arr, at)
    PROVE  ValidScores(Contract(d, arr, at))
<1> DEFINE c == Contract(d, arr, at)
           v == Verdicts(d, arr, at)
<1>1. d \in Drafts /\ arr \in Seq(Arrivable) /\ at \in Int /\ Aggregable(arr)
  BY AssessableControls
<1>2. c.score = ScoreOf(d) /\ c.level = LevelOf(d) /\ c.verdict = v /\ c.action = Action(v, LevelOf(d))
  BY <1>1, ContractSays
<1>3. c.confidence \in 0..100
  <2> DEFINE cap == ConfidenceCap(Aggregate(arr, at), at)
             least == IF 80 <= cap THEN 80 ELSE cap
             part == Percentage(d, arr, at)
  <2>1. c.confidence = Confidence(AllControls(d, arr, at), at, AdaptedCap(cap))
    BY <1>1, ContractSays
  <2>2. part \in 0..100 /\ cap \in 0..100
        /\ Confidence(AllControls(d, arr, at), at, AdaptedCap(cap)) = IF least <= part THEN least ELSE part
    BY <1>1, ConfidenceIs
  <2> HIDE DEF c, cap, part
  <2>3. QED
    BY <2>1, <2>2
<1>4. c.score \in 0..100 /\ c.level \in Levels
  BY <1>1, <1>2, ScoreIsBounded, LevelOfDraft
<1>5. v \in {"BLOCK", "INDETERMINATE", "READY_FOR_HUMAN_REVIEW", "REVIEW_REQUIRED"}
  BY DEF Verdicts, Verdict
<1>6. c.action \in {"BLOCK", "DO_NOT_PROCEED", "PROCEED", "PROCEED_WITH_CAUTION", "REVIEW"}
  BY <1>2 DEF Action
<1> HIDE DEF c, v
<1>7. QED
  BY <1>2, <1>3, <1>4, <1>5, <1>6 DEF ValidScores, c

\* Every issue is of a control, and every control that is inconclusive has one.
LEMMA IssuesAreValid ==
    ASSUME NEW d, NEW arr, NEW at, Assessable(d, arr, at)
    PROVE  ValidIssues(Contract(d, arr, at))
<1> DEFINE c == Contract(d, arr, at)
           os == AllControls(d, arr, at)
           all == (c.blockers \cup c.warnings) \cup c.errors
           issues == {i.control : i \in all}
<1>1. d \in Drafts /\ arr \in Seq(Arrivable) /\ at \in Int /\ Aggregable(arr)
  BY AssessableControls
<1>2. c.controls = {Shown(o, at) : o \in os} /\ ControlIds(c) = IdsOf(os)
  BY ContractShows
<1>3. /\ \A i \in c.blockers : i.control \in IdsOf(os)
      /\ \A o \in os : FinalStatus(o, at) # "PASS" => \E i \in c.blockers : i.control = o.id
  BY BlockersAreOpen
<1>4. \A i \in c.warnings \cup c.errors : i.control \in IdsOf(os)
  <2>1. c.warnings = Warnings(os, at) /\ c.errors = Errors(os, at)
    BY <1>1, ContractSays
  <2>2. \A code : \A o \in os : Issue(code, o).control \in IdsOf(os)
    BY DEF Issue, IdsOf
  <2> HIDE DEF c, os
  <2>3. \A i \in Warnings(os, at) : i.control \in IdsOf(os)
    BY <2>2 DEF Warnings
  <2>4. \A i \in Errors(os, at) : i.control \in IdsOf(os)
    BY <2>2 DEF Errors
  <2>5. QED
    BY <2>1, <2>3, <2>4
<1>5. c.passed = {o.id : o \in {p \in os : FinalStatus(p, at) = "PASS"}}
  BY <1>1, ContractSays
<1>6. Having(c, "PASS") = IdsOf(Ending(d, arr, at, "PASS"))
  BY CategoryIs
<1>7. IdsOf(Ending(d, arr, at, "PASS")) = {o.id : o \in {p \in os : FinalStatus(p, at) = "PASS"}}
  BY DEF IdsOf, Ending
<1>8. c.passed = {x.id : x \in {y \in c.controls : y.status = "PASS"}}
  <2> HIDE DEF c, os
  <2>1. QED
    BY <1>5, <1>6, <1>7 DEF Having
<1>9. \A o : Shown(o, at).id = o.id /\ Shown(o, at).status = FinalStatus(o, at)
  BY DEF Shown
<1>10. all = (c.blockers \cup c.warnings) \cup c.errors
  OBVIOUS
<1> HIDE DEF c, os, all
<1>11. issues \subseteq ControlIds(c)
  BY <1>2, <1>3, <1>4, <1>10
<1>12. ASSUME NEW x \in c.controls, x.status \in {"ERROR", "UNKNOWN"}
       PROVE  x.id \in issues
  <2>1. PICK o \in os : x = Shown(o, at)
    BY <1>2
  <2>2. x.id = o.id /\ x.status = FinalStatus(o, at)
    BY <1>9, <2>1
  <2>3. FinalStatus(o, at) # "PASS"
    BY <1>12, <2>2
  <2>4. PICK i \in c.blockers : i.control = o.id
    BY <1>3, <2>3
  <2>5. i \in all
    BY <1>10, <2>4
  <2>6. QED
    BY <2>2, <2>4, <2>5
<1>13. {x.id : x \in {y \in c.controls : y.status \in {"ERROR", "UNKNOWN"}}} \subseteq issues
  BY <1>12
<1>14. QED
  BY <1>8, <1>11, <1>13 DEF ValidIssues, all, c

\* The categories of the report are disjoint, and nothing inconclusive proceeds.
LEMMA CategoriesAreValid ==
    ASSUME NEW d, NEW arr, NEW at, Assessable(d, arr, at)
    PROVE  ValidCategories(BuildReport(Contract(d, arr, at)))
<1> DEFINE c == Contract(d, arr, at)
           r == BuildReport(c)
           os == AllControls(d, arr, at)
<1>1. d \in Drafts /\ arr \in Seq(Arrivable) /\ at \in Int /\ Aggregable(arr)
  BY AssessableControls
<1>2. \A s \in Statuses : r.counts[s] = Cardinality(r.controls[s])
  BY DEF BuildReport
<1>3. /\ \A s \in Statuses : r.counts[s] = Cardinality(Ending(d, arr, at, s))
      /\ \A s \in Statuses : r.controls[s] = IdsOf(Ending(d, arr, at, s))
  BY ReportAccounts DEF Accounted
<1>4. r.verdict = Verdicts(d, arr, at) /\ r.action = Action(Verdicts(d, arr, at), LevelOf(d))
  BY <1>1, ContractSays DEF BuildReport
<1>5. \A o, p \in os : o.id = p.id => o = p
  BY AssessableControls
<1>6. \A s : IsFiniteSet(Ending(d, arr, at, s))
  BY CategoryIs
<1> HIDE DEF c, r
<1>7. ASSUME NEW s \in Statuses, NEW t \in Statuses, s # t
      PROVE  r.controls[s] \cap r.controls[t] = {}
  <2>1. SUFFICES ASSUME NEW i \in IdsOf(Ending(d, arr, at, s)), i \in IdsOf(Ending(d, arr, at, t))
                 PROVE  FALSE
    BY <1>3
  <2>2. PICK o \in Ending(d, arr, at, s) : i = o.id
    BY <2>1 DEF IdsOf
  <2>3. PICK p \in Ending(d, arr, at, t) : i = p.id
    BY <2>1 DEF IdsOf
  <2>4. o \in os /\ p \in os /\ FinalStatus(o, at) = s /\ FinalStatus(p, at) = t
    BY <2>2, <2>3 DEF Ending
  <2> HIDE DEF os
  <2>5. o = p
    BY <1>5, <2>2, <2>3, <2>4
  <2>6. QED
    BY <1>7, <2>4, <2>5
<1>8. ASSUME r.counts["ERROR"] + r.counts["UNKNOWN"] > 0
      PROVE  r.verdict = "INDETERMINATE" /\ r.action = "DO_NOT_PROCEED"
  <2> DEFINE E == Ending(d, arr, at, "ERROR")
             U == Ending(d, arr, at, "UNKNOWN")
  <2>1. r.counts["ERROR"] = Cardinality(E) /\ r.counts["UNKNOWN"] = Cardinality(U)
    BY <1>3 DEF Statuses
  <2>2. (E = {} => Cardinality(E) = 0) /\ (U = {} => Cardinality(U) = 0)
    BY FS_EmptySet
  <2> HIDE DEF E, U
  <2>3. E # {} \/ U # {}
    BY <1>8, <2>1, <2>2
  <2>4. {"ERROR", "UNKNOWN"} \cap StatusesOf(os, at) # {}
    BY <2>3 DEF E, U, Ending, StatusesOf
  <2>5. Verdicts(d, arr, at) = "INDETERMINATE"
    BY <2>4 DEF Verdicts, Verdict
  <2>6. Action("INDETERMINATE", LevelOf(d)) = "DO_NOT_PROCEED"
    BY DEF Action
  <2>7. QED
    BY <1>4, <2>5, <2>6
<1>9. QED
  BY <1>2, <1>7, <1>8 DEF ValidCategories, r, c

LEMMA CountsAreValid ==
    ASSUME NEW d, NEW arr, NEW at, Assessable(d, arr, at)
    PROVE  ValidCounts(BuildReport(Contract(d, arr, at)))
<1> DEFINE c == Contract(d, arr, at)
           r == BuildReport(c)
<1>1. /\ r.topBlockers.total = Len(r.topBlockers.items) + r.topBlockers.omitted
      /\ r.nextActions.total = Len(r.nextActions.items) + r.nextActions.omitted
  BY ReportAccounts DEF Accounted
<1> HIDE DEF c
<1>2. \A f \in DOMAIN r.freshness :
          r.freshness[f] = Cardinality({e \in r.provenance : e.freshness = f})
  BY DEF BuildReport
<1> HIDE DEF r
<1>3. QED
  BY <1>1, <1>2 DEF ValidCounts, r, c

\* Whatever is assessed, neither the validator of the contract nor the one of
\* the report refuses it: the errors they would raise never reach the caller.
THEOREM OutputIsValid == Spec => []OwnOutputIsValid
<1>1. AssessedInv => OwnOutputIsValid
  <2> SUFFICES ASSUME AssessedInv, assessment # Nothing
               PROVE  ValidAssessment(assessment) /\ ValidReport(BuildReport(assessment))
    BY DEF OwnOutputIsValid
  <2> DEFINE c == Contract(draft, arrived, assessment.at)
  <2>1. assessment = c /\ Assessable(draft, arrived, assessment.at)
    BY DEF AssessedInv, Typed, Justified, Assessable
  <2>2. ValidAssessment(c)
    BY <2>1, ControlsAreValid, EvidenceRecordsAreValid, ScoresAreValid, IssuesAreValid DEF ValidAssessment
  <2>3. ValidReport(BuildReport(c))
    BY <2>1, CategoriesAreValid, CountsAreValid DEF ValidReport
  <2> HIDE DEF c
  <2>4. QED
    BY <2>1, <2>2, <2>3
<1>2. QED
  BY <1>1, Invariance, PTL
=============================================================================
