------------------------- MODULE GovernedChange_proofs -------------------------
(***************************************************************************)
(* Theorems about GovernedChange for every set of bundles, drafts and      *)
(* waivers, every scanner input, clock and number of pages.                *)
(***************************************************************************)
EXTENDS GovernedChange, FiniteSetTheorems, SequenceTheorems, TLAPS

-----------------------------------------------------------------------------
(* Sets of natural numbers *)

\* Natural numbers are well founded, so a set of them that has an element has a
\* least one.
LEMMA LeastNumber ==
    ASSUME NEW T, T \subseteq Nat, T # {}
    PROVE  \E n \in T : \A m \in T : n <= m
<1> DEFINE R == OpToRel(<, Nat)
<1>1. IsWellFoundedOn(R, Nat)
  BY NatLessThanWellFounded
<1>2. \A U \in SUBSET Nat : U # {} => \E x \in U : \A y \in U : ~(<<y, x>> \in R)
  <2> HIDE DEF R
  <2> SUFFICES ASSUME NEW U \in SUBSET Nat, U # {}
               PROVE  \E x \in U : \A y \in U : ~(<<y, x>> \in R)
    OBVIOUS
  <2>1. QED
    BY <1>1, WFMin
<1>3. \A x, y \in Nat : y < x => <<y, x>> \in R
  BY DEF OpToRel
<1> HIDE DEF R
<1>4. PICK x \in T : \A y \in T : ~(<<y, x>> \in R)
  BY <1>2
<1>5. ASSUME NEW y \in T
      PROVE  x <= y
  <2>1. x \in Nat /\ y \in Nat
    OBVIOUS
  <2>2. ~(y < x)
    BY <2>1, <1>3, <1>4
  <2>3. QED
    BY <2>1, <2>2
<1>6. QED
  BY <1>5

\* So a set of numbers up to n has a greatest one.
LEMMA GreatestNumber ==
    ASSUME NEW n \in Nat, NEW T \in SUBSET (1..n), T # {}
    PROVE  Max(T) \in T /\ \A m \in T : m <= Max(T)
<1> DEFINE U == {n - m : m \in T}
<1>1. U \subseteq Nat /\ U # {}
  <2>1. \A m \in T : n - m \in Nat
    OBVIOUS
  <2>2. QED
    BY <2>1
<1>2. PICK u \in U : \A v \in U : u <= v
  BY <1>1, LeastNumber
<1>3. PICK l \in T : u = n - l
  BY <1>2
<1>4. \A m \in T : l >= m
  <2> SUFFICES ASSUME NEW m \in T PROVE l >= m
    OBVIOUS
  <2>1. n - l <= n - m
    BY <1>2, <1>3
  <2>2. QED
    BY <2>1
<1>5. QED
  BY <1>4 DEF Max

-----------------------------------------------------------------------------
(* The order of overlays *)

Ordered(T) == \A o \in T : o.id \in Int /\ o.priority \in Int

Sorted(s) == IsInjective(s) /\ \A i, j \in DOMAIN s : i < j => ~Before(s[j], s[i])

Greatest(o, T) == o \in T /\ \A p \in T : ~Before(o, p)

\* Overlays of which there are finitely many have one that none comes after.
LEMMA GreatestExists ==
    ASSUME NEW S, Ordered(S), IsFiniteSet(S), S # {}
    PROVE  \E o \in S : Greatest(o, S)
<1> DEFINE Bad == {T \in SUBSET S : T # {} /\ ~\E o \in T : Greatest(o, T)}
           Sizes == {Cardinality(T) : T \in Bad}
<1>1. SUFFICES ASSUME Bad # {} PROVE FALSE
  OBVIOUS
<1>2. \A T \in SUBSET S : IsFiniteSet(T) /\ Cardinality(T) \in Nat
  BY FS_Subset, FS_CardinalityType
<1>3. PICK n \in Sizes : \A m \in Sizes : n <= m
  <2>1. Sizes \subseteq Nat /\ Sizes # {}
    BY <1>1, <1>2
  <2> HIDE DEF Sizes
  <2>2. QED
    BY <2>1, LeastNumber
<1>4. PICK T \in Bad : n = Cardinality(T)
  BY <1>3
<1>5. PICK x : x \in T
  BY <1>4
<1> DEFINE R == T \ {x}
<1>6. R \in SUBSET S /\ Cardinality(R) = n - 1 /\ n \in Nat /\ n - 1 \in Int
  <2>1. Cardinality(R) = Cardinality(T) - 1
    BY <1>2, <1>4, <1>5, FS_RemoveElement
  <2>2. QED
    BY <1>2, <1>4, <2>1
<1>7. R \notin Bad
  <2> SUFFICES ASSUME R \in Bad PROVE FALSE
    OBVIOUS
  <2>1. n <= n - 1
    BY <1>3, <1>6
  <2>2. QED
    BY <1>6, <2>1
<1>8. CASE R = {}
  <2>1. T = {x}
    BY <1>5, <1>8
  <2>2. Greatest(x, T)
    BY <2>1, <1>4 DEF Greatest, Before, Ordered
  <2>3. QED
    BY <1>4, <1>5, <2>2
<1>9. CASE R # {}
  <2>1. PICK y \in R : Greatest(y, R)
    BY <1>6, <1>7, <1>9
  <2>2. x \in S /\ y \in S /\ T = R \cup {x} /\ \A p \in T : p \in S
    BY <1>4, <1>5
  <2>3. Greatest(y, T) \/ Greatest(x, T)
    <3>1. CASE Before(y, x)
      BY <2>1, <2>2, <3>1 DEF Greatest, Before, Ordered
    <3>2. CASE ~Before(y, x)
      BY <2>1, <2>2, <3>2 DEF Greatest
    <3>3. QED
      BY <3>1, <3>2
  <2>4. QED
    BY <1>4, <1>5, <2>1, <2>3
<1>10. QED
  BY <1>8, <1>9

\* So they can be put in order.
LEMMA OrderExists ==
    ASSUME NEW S, Ordered(S), IsFiniteSet(S)
    PROVE  \E s \in [1..Cardinality(S) -> S] : Sorted(s)
<1> DEFINE Bad == {T \in SUBSET S : ~\E s \in [1..Cardinality(T) -> T] : Sorted(s)}
           Sizes == {Cardinality(T) : T \in Bad}
<1>1. SUFFICES ASSUME Bad # {} PROVE FALSE
  OBVIOUS
<1>2. \A T \in SUBSET S : IsFiniteSet(T) /\ Cardinality(T) \in Nat
  BY FS_Subset, FS_CardinalityType
<1>3. PICK n \in Sizes : \A m \in Sizes : n <= m
  <2>1. Sizes \subseteq Nat /\ Sizes # {}
    BY <1>1, <1>2
  <2> HIDE DEF Sizes
  <2>2. QED
    BY <2>1, LeastNumber
<1>4. PICK T \in Bad : n = Cardinality(T)
  BY <1>3
<1>5. T # {}
  <2> SUFFICES ASSUME T = {} PROVE FALSE
    OBVIOUS
  <2> DEFINE s == [i \in 1..0 |-> {}]
  <2>1. Cardinality(T) = 0
    BY FS_EmptySet
  <2>2. s \in [1..Cardinality(T) -> T] /\ Sorted(s)
    BY <2>1 DEF Sorted, IsInjective
  <2>3. QED
    BY <1>4, <2>2
<1>6. PICK x \in T : Greatest(x, T)
  <2>1. Ordered(T) /\ IsFiniteSet(T)
    BY <1>2, <1>4 DEF Ordered
  <2>2. QED
    BY <1>5, <2>1, GreatestExists
<1> DEFINE R == T \ {x}
<1>7. R \in SUBSET S /\ Cardinality(R) = n - 1 /\ n \in Nat /\ n - 1 \in Nat
  <2>1. Cardinality(R) = Cardinality(T) - 1 /\ R \in SUBSET S
    BY <1>2, <1>4, <1>6, FS_RemoveElement
  <2>2. QED
    BY <1>2, <1>4, <2>1
<1>8. PICK r \in [1..(n - 1) -> R] : Sorted(r)
  <2>1. R \notin Bad
    <3> SUFFICES ASSUME R \in Bad PROVE FALSE
      OBVIOUS
    <3>1. n <= n - 1
      BY <1>3, <1>7
    <3>2. QED
      BY <1>7, <3>1
  <2>2. QED
    BY <1>7, <2>1
<1> DEFINE s == [i \in 1..n |-> IF i = n THEN x ELSE r[i]]
<1>9. \A i \in 1..n : i = n \/ i \in 1..(n - 1)
  BY <1>7
<1>10. s \in [1..n -> T]
  BY <1>6, <1>9
<1>11. Sorted(s)
  <2>1. DOMAIN s = 1..n /\ DOMAIN r = 1..(n - 1)
    OBVIOUS
  <2>2. \A i \in 1..n : IF i = n THEN s[i] = x ELSE i \in 1..(n - 1) /\ s[i] = r[i] /\ s[i] \in R
    BY <1>9
  <2> HIDE DEF s
  <2>3. IsInjective(s)
    BY <1>8, <2>1, <2>2 DEF Sorted, IsInjective
  <2>4. ASSUME NEW i \in 1..n, NEW j \in 1..n, i < j
        PROVE  ~Before(s[j], s[i])
    <3>1. i # n /\ s[i] = r[i] /\ s[i] \in T /\ i \in 1..(n - 1)
      BY <1>7, <2>2, <2>4
    <3>2. CASE j = n
      BY <1>6, <2>2, <3>1, <3>2 DEF Greatest
    <3>3. CASE j # n
      BY <1>8, <2>1, <2>2, <2>4, <3>1, <3>3 DEF Sorted
    <3>4. QED
      BY <3>2, <3>3
  <2>5. QED
    BY <2>1, <2>3, <2>4 DEF Sorted
<1>12. QED
  BY <1>4, <1>10, <1>11

\* What resolution goes through: every overlay that matches, once, in order.
LEMMA InOrderSorts ==
    ASSUME NEW b \in Bundles, NEW context
    PROVE  LET m == Matching(b, context) IN
           /\ IsFiniteSet(m) /\ Cardinality(m) \in Nat
           /\ InOrder(b, context) \in [1..Cardinality(m) -> m]
           /\ Sorted(InOrder(b, context))
           /\ \A o \in m : \E i \in DOMAIN InOrder(b, context) : InOrder(b, context)[i] = o
<1> DEFINE m == Matching(b, context)
           s == InOrder(b, context)
<1>1. m \subseteq b.overlays
  BY DEF Matching
<1>2. Ordered(m) /\ IsFiniteSet(m)
  BY <1>1, BundlesAssumption, FS_Subset DEF Ordered
<1>3. Cardinality(m) \in Nat
  BY <1>2, FS_CardinalityType
<1>4. \E t \in [1..Cardinality(m) -> m] : Sorted(t)
  BY <1>2, OrderExists
<1>5. s = CHOOSE t \in [1..Cardinality(m) -> m] : Sorted(t)
  BY DEF InOrder, Sorted
<1>6. s \in [1..Cardinality(m) -> m] /\ Sorted(s)
  BY <1>4, <1>5
<1> HIDE DEF s, m
<1>7. \A o \in m : \E i \in DOMAIN s : s[i] = o
  <2>1. IsFiniteSet(1..Cardinality(m)) /\ Cardinality(1..Cardinality(m)) = Cardinality(m)
    <3>1. /\ IsFiniteSet(1..Cardinality(m))
          /\ Cardinality(1..Cardinality(m)) =
                 IF 1 > Cardinality(m) THEN 0 ELSE Cardinality(m) - 1 + 1
      BY <1>3, FS_Interval
    <3>2. QED
      BY <1>3, <3>1
  <2>2. s \in Injection(1..Cardinality(m), m)
    BY <1>6 DEF Sorted, Injection
  <2>3. s \in Surjection(1..Cardinality(m), m)
    BY <1>2, <2>1, <2>2, FS_Injection
  <2>4. QED
    BY <1>6, <2>3 DEF Surjection
<1>8. QED
  BY <1>2, <1>3, <1>6, <1>7 DEF s, m

-----------------------------------------------------------------------------
(* What resolution makes of the overlays *)

\* The places in T whose overlay sets the field f.
Setters(s, f, T) == {i \in T : f \in DOMAIN NormalApply(s[i].apply)}

\* Every field has the value of the last overlay that sets it.
Layered(base, s, T) ==
    [f \in DOMAIN base \cup UNION {DOMAIN NormalApply(s[i].apply) : i \in T} |->
        IF Setters(s, f, T) = {} THEN base[f]
        ELSE NormalApply(s[Max(Setters(s, f, T))].apply)[f]]

LEMMA MaxIs ==
    ASSUME NEW n \in Nat, NEW T \in SUBSET (1..n), NEW x \in T, \A y \in T : y <= x
    PROVE  Max(T) = x
<1>1. Max(T) \in T /\ \A m \in T : m <= Max(T)
  BY GreatestNumber
<1> DEFINE g == Max(T)
<1> HIDE DEF g
<1>2. g \in T /\ \A m \in T : m <= g
  BY <1>1 DEF g
<1>3. x \in 1..n /\ g \in 1..n
  BY <1>2
<1>4. x <= g /\ g <= x
  BY <1>2
<1>5. g = x
  BY <1>3, <1>4
<1>6. QED
  BY <1>5 DEF g

\* Another overlay goes on top.
LEMMA OneMoreLayer ==
    ASSUME NEW base, NEW s, NEW n \in Nat, NEW T \in SUBSET (1..n), T # {}
    PROVE  Layered(base, s, T) = Over(NormalApply(s[Max(T)].apply), Layered(base, s, T \ {Max(T)}))
<1> DEFINE x == Max(T)
           R == T \ {x}
           top == NormalApply(s[x].apply)
           rest == Layered(base, s, R)
           all == Layered(base, s, T)
<1>1. x \in T /\ (\A m \in T : m <= x) /\ T = R \cup {x} /\ R \in SUBSET (1..n) /\ x \in 1..n
  BY GreatestNumber
<1> HIDE DEF x, R
<1>2. DOMAIN all = DOMAIN top \cup DOMAIN rest
  BY <1>1 DEF Layered
<1>3. ASSUME NEW f \in DOMAIN all, f \in DOMAIN top
      PROVE  all[f] = top[f]
  <2>1. Setters(s, f, T) \in SUBSET (1..n) /\ x \in Setters(s, f, T)
        /\ \A m \in Setters(s, f, T) : m <= x
    BY <1>1, <1>3 DEF Setters
  <2>2. Max(Setters(s, f, T)) = x
    BY <2>1, MaxIs
  <2>3. QED
    BY <2>1, <2>2 DEF Layered
<1>4. ASSUME NEW f \in DOMAIN all, f \notin DOMAIN top
      PROVE  all[f] = rest[f]
  <2>1. Setters(s, f, T) = Setters(s, f, R)
    BY <1>1, <1>4 DEF Setters
  <2>2. f \in DOMAIN rest
    BY <1>2, <1>4
  <2>3. QED
    BY <2>1, <2>2 DEF Layered
<1>5. all = [f \in DOMAIN all |-> all[f]]
  BY DEF Layered
<1>6. Over(top, rest) = [f \in DOMAIN all |-> IF f \in DOMAIN top THEN top[f] ELSE rest[f]]
  BY <1>2 DEF Over
<1> HIDE DEF all, top, rest
<1>7. all = Over(top, rest)
  BY <1>3, <1>4, <1>5, <1>6
<1>8. QED
  BY <1>7 DEF all, top, rest, x, R

\* The fold over the overlays, for any base and any sequence of overlays.
LEMMA FoldIsLayered ==
    ASSUME NEW base, base = [f \in DOMAIN base |-> base[f]],
           NEW n \in Nat, NEW s, DOMAIN s = 1..n
    PROVE  FoldLeft(LAMBDA policy, o : Over(NormalApply(o.apply), policy), base, s)
               = Layered(base, s, 1..n)
<1> DEFINE D == 1..n
           Over1(T, g) == Over(NormalApply(s[Max(T)].apply), g)
           F == CHOOSE g : g = [T \in SUBSET D |->
                    IF T = {} THEN base ELSE Over1(T, g[T \ {Max(T)}])]
           L == [T \in SUBSET D |-> Layered(base, s, T)]
<1>1. FoldLeft(LAMBDA policy, o : Over(NormalApply(o.apply), policy), base, s) = F[D]
  BY Zenon DEF FoldLeft, MapThenFoldSet
<1>2. Layered(base, s, {}) = base
  <2>1. \A f : Setters(s, f, {}) = {}
    BY DEF Setters
  <2>2. QED
    BY <2>1 DEF Layered
<1>3. L = [T \in SUBSET D |-> IF T = {} THEN base ELSE Over1(T, L[T \ {Max(T)}])]
  <2>1. ASSUME NEW T \in SUBSET D
        PROVE  L[T] = IF T = {} THEN base ELSE Over1(T, L[T \ {Max(T)}])
    <3>1. CASE T = {}
      BY <1>2, <3>1
    <3>2. CASE T # {}
      <4>1. L[T \ {Max(T)}] = Layered(base, s, T \ {Max(T)})
        OBVIOUS
      <4>2. L[T] = Over1(T, L[T \ {Max(T)}])
        BY <3>2, <4>1, OneMoreLayer
      <4>3. QED
        BY <3>2, <4>2
    <3>3. QED
      BY <3>1, <3>2
  <2>2. L = [T \in SUBSET D |-> L[T]]
    OBVIOUS
  <2> HIDE DEF L, Over1
  <2>3. QED
    BY <2>1, <2>2
<1>4. F = [T \in SUBSET D |-> IF T = {} THEN base ELSE Over1(T, F[T \ {Max(T)}])]
  <2> HIDE DEF L, Over1
  <2>1. QED
    BY <1>3
<1> HIDE DEF F, Over1
<1> DEFINE Bad == {T \in SUBSET D : F[T] # L[T]}
           Sizes == {Cardinality(T) : T \in Bad}
<1>5. SUFFICES ASSUME Bad # {} PROVE FALSE
  BY <1>1
<1>6. \A T \in SUBSET D : IsFiniteSet(T) /\ Cardinality(T) \in Nat
  <2>1. IsFiniteSet(D)
    BY FS_Interval
  <2>2. QED
    BY <2>1, FS_Subset, FS_CardinalityType
<1> HIDE DEF L
<1>7. PICK m \in Sizes : \A k \in Sizes : m <= k
  <2>1. Sizes \subseteq Nat /\ Sizes # {}
    BY <1>5, <1>6
  <2> HIDE DEF Sizes
  <2>2. QED
    BY <2>1, LeastNumber
<1>8. PICK T \in Bad : m = Cardinality(T)
  BY <1>7
<1>9. T # {}
  BY <1>3, <1>4, <1>8
<1> DEFINE R == T \ {Max(T)}
<1>10. R \in SUBSET D /\ Cardinality(R) = m - 1 /\ m \in Nat
  <2>1. Max(T) \in T
    BY <1>9, GreatestNumber
  <2>2. QED
    BY <1>6, <1>8, <2>1, FS_RemoveElement
<1>11. F[R] = L[R]
  <2> SUFFICES ASSUME R \in Bad PROVE FALSE
    BY <1>10
  <2>1. m <= m - 1
    BY <1>7, <1>10
  <2>2. QED
    BY <1>10, <2>1
<1>12. F[T] = Over1(T, F[R]) /\ L[T] = Over1(T, L[R])
  BY <1>3, <1>4, <1>8, <1>9
<1>13. QED
  BY <1>8, <1>11, <1>12

\* Resolution gives a field the value of the last overlay in order that sets it.
LEMMA ResolveIsLayered ==
    ASSUME NEW b \in Bundles, NEW context
    PROVE  LET s == InOrder(b, context) IN
           /\ Resolve(b, context) = Layered(NormalBase(b.base), s, DOMAIN s)
           /\ \E n \in Nat : DOMAIN s = 1..n
<1> DEFINE s == InOrder(b, context)
           m == Matching(b, context)
           base == NormalBase(b.base)
<1>1. s \in [1..Cardinality(m) -> m] /\ Cardinality(m) \in Nat
  BY InOrderSorts
<1>2. base = [f \in DOMAIN base |-> base[f]]
  BY DEF NormalBase, Over
<1> HIDE DEF s, m, base
<1>3. PICK n \in Nat : DOMAIN s = 1..n
  BY <1>1
<1>4. FoldLeft(LAMBDA policy, o : Over(NormalApply(o.apply), policy), base, s) = Layered(base, s, 1..n)
  BY <1>2, <1>3, FoldIsLayered
<1>5. Resolve(b, context) = FoldLeft(LAMBDA policy, o : Over(NormalApply(o.apply), policy), base, s)
  BY Zenon DEF Resolve, s, base
<1>6. Resolve(b, context) = Layered(base, s, DOMAIN s)
  BY Zenon, <1>3, <1>4, <1>5
<1>7. QED
  BY <1>3, <1>6 DEF s, base

\* A field is the base's or comes from an overlay that matches; what the base
\* has is there.
LEMMA ResolvedField ==
    ASSUME NEW b \in Bundles, NEW context
    PROVE  LET p == Resolve(b, context) IN
           /\ DOMAIN NormalBase(b.base) \subseteq DOMAIN p
           /\ \A f \in DOMAIN p :
                  \/ /\ f \in DOMAIN NormalBase(b.base) /\ p[f] = NormalBase(b.base)[f]
                     /\ \A o \in Matching(b, context) : f \notin DOMAIN NormalApply(o.apply)
                  \/ \E o \in Matching(b, context) :
                        /\ f \in DOMAIN NormalApply(o.apply) /\ p[f] = NormalApply(o.apply)[f]
                        /\ \A q \in Matching(b, context) :
                               f \in DOMAIN NormalApply(q.apply) => q = o \/ ~Before(o, q)
<1> DEFINE s == InOrder(b, context)
           m == Matching(b, context)
           base == NormalBase(b.base)
           p == Resolve(b, context)
           D == DOMAIN s
<1>1. p = Layered(base, s, D)
  BY ResolveIsLayered
<1>2. PICK n \in Nat : D = 1..n
  BY ResolveIsLayered
<1>3. /\ \A i \in D : s[i] \in m
      /\ Sorted(s)
      /\ \A o \in m : \E i \in D : s[i] = o
  BY InOrderSorts
<1> HIDE DEF s, m, base, p, D
<1>4. DOMAIN base \subseteq DOMAIN p
  BY <1>1 DEF Layered
<1>5. ASSUME NEW f \in DOMAIN p, Setters(s, f, D) = {}
      PROVE  /\ f \in DOMAIN base /\ p[f] = base[f]
             /\ \A o \in m : f \notin DOMAIN NormalApply(o.apply)
  BY <1>1, <1>3, <1>5 DEF Layered, Setters
<1>6. ASSUME NEW f \in DOMAIN p, Setters(s, f, D) # {}
      PROVE  \E o \in m : /\ f \in DOMAIN NormalApply(o.apply) /\ p[f] = NormalApply(o.apply)[f]
                          /\ \A q \in m : f \in DOMAIN NormalApply(q.apply) => q = o \/ ~Before(o, q)
  <2> DEFINE x == Max(Setters(s, f, D))
  <2>1. x \in Setters(s, f, D) /\ \A i \in Setters(s, f, D) : i <= x
    <3>1. Setters(s, f, D) \in SUBSET (1..n)
      BY <1>2 DEF Setters
    <3>2. QED
      BY <1>6, <3>1, GreatestNumber
  <2>2. p[f] = NormalApply(s[x].apply)[f]
    BY <1>1, <1>6 DEF Layered
  <2> HIDE DEF x
  <2>3. x \in D /\ f \in DOMAIN NormalApply(s[x].apply) /\ s[x] \in m
    BY <1>3, <2>1 DEF Setters
  <2>4. ASSUME NEW q \in m, f \in DOMAIN NormalApply(q.apply)
        PROVE  q = s[x] \/ ~Before(s[x], q)
    <3>1. PICK i \in D : s[i] = q
      BY <1>3
    <3>2. i \in Setters(s, f, D)
      BY <2>4, <3>1 DEF Setters
    <3>3. i = x \/ i < x
      BY <1>2, <2>1, <2>3, <3>2
    <3>4. QED
      BY <1>3, <2>3, <3>1, <3>3 DEF Sorted, D
  <2>5. QED
    BY <2>2, <2>3, <2>4
<1>7. QED
  BY <1>4, <1>5, <1>6 DEF s, m, base, p

-----------------------------------------------------------------------------
(* What the assessment and the simulation at hand are of *)

\* The report is of what the run was given, which was accepted.
AssessmentOf(g) ==
    /\ g.bundle \in Bundles /\ g.at \in Times
    /\ Accepted(g.bundle, g.draft, g.waivers, g.at, g.at)
    /\ report = Assessed(g.bundle, g.draft, g.waivers, g.at)

\* The simulation is of two bundles that could be compared.
SimulationOf(b, c, d) ==
    /\ Simulable(b) /\ Simulable(c)
    /\ simulation.weakening = Weakening(PolicyDiff(b, c, PolicyContext(d)))
    /\ simulation.added = {x.field : x \in {y \in PolicyDiff(b, c, PolicyContext(d)) : y.direction = "added"}}
    /\ simulation.before = [score |-> Simulated(d, b).score, level |-> Simulated(d, b).level]
    /\ simulation.after = [score |-> Simulated(d, c).score, level |-> Simulated(d, c).level]

GovernedInv ==
    /\ bundle \in Bundles /\ draft \in Drafts /\ clock \in Times
    /\ report # Nothing \/ given # Nothing => AssessmentOf(given)
    /\ replay # Nothing => replay = report
    /\ simulation # Nothing => \E b, c \in Bundles, d \in Drafts : SimulationOf(b, c, d)

LEMMA InitGoverned == Init => GovernedInv
BY TimeAssumption DEF Init, GovernedInv, Times

\* The instant of a run is one of the clock's, and the same for the policy and
\* the waivers; what is not refused was accepted at it.
LEMMA OutcomeIs ==
    ASSUME clock \in Times, NEW b, NEW d, NEW waivers, NEW asked
    PROVE  LET at == PolicyInstant(asked) IN
           /\ at \in Times /\ (asked \in Times => at = asked)
           /\ Outcome(b, d, waivers, asked) =
                  IF Accepted(b, d, waivers, at, at) THEN Assessed(b, d, waivers, at) ELSE Refused
BY DEF PolicyInstant, WaiverInstant, GovernanceTime, Outcome

LEMMA AssessGoverns ==
    ASSUME GovernedInv, Assess
    PROVE  GovernedInv'
<1>1. PICK explicit \in Explicit : \E d, auto :
        /\ \E waivers \in {w \in SUBSET Waivers : Cardinality(w) <= MaxWaivers},
              asked \in Times \cup {Nothing} :
               LET outcome == Outcome(bundle, d, waivers, asked) IN
               /\ outcome # Refused
               /\ report' = outcome
               /\ given' = [bundle |-> bundle, draft |-> d, waivers |-> waivers,
                            at |-> PolicyInstant(asked), manifest |-> manifest, scope |-> Scope,
                            explicit |-> explicit, warned |-> auto.warned]
        /\ replay' = Nothing /\ simulation' = Nothing
        /\ UNCHANGED <<clock, bundle, draft, discovery>>
  BY DEF Assess
<1>2. PICK d, auto, waivers, asked :
        /\ Outcome(bundle, d, waivers, asked) # Refused
        /\ report' = Outcome(bundle, d, waivers, asked)
        /\ given' = [bundle |-> bundle, draft |-> d, waivers |-> waivers,
                     at |-> PolicyInstant(asked), manifest |-> manifest, scope |-> Scope,
                     explicit |-> explicit, warned |-> auto.warned]
        /\ replay' = Nothing /\ simulation' = Nothing
        /\ UNCHANGED <<clock, bundle, draft, discovery>>
  BY <1>1
<1> DEFINE at == PolicyInstant(asked)
<1>3. /\ given'.bundle = bundle /\ given'.draft = d /\ given'.waivers = waivers
      /\ given'.at = at
  BY <1>2
<1>4. /\ at \in Times
      /\ Accepted(bundle, d, waivers, at, at) /\ report' = Assessed(bundle, d, waivers, at)
  BY <1>2, OutcomeIs DEF GovernedInv
<1>5. AssessmentOf(given)'
  BY <1>3, <1>4 DEF GovernedInv, AssessmentOf
<1>6. QED
  BY <1>2, <1>5 DEF GovernedInv

\* The instant that the report records is the one it was assessed at.
LEMMA InstantIsRecorded ==
    ASSUME GovernedInv, given # Nothing, given.bundle.governed
    PROVE  report.record.evaluatedAt = given.at
<1> DEFINE plain == AssessRisk(given.draft, given.bundle, given.at)
<1>1. report = IF given.waivers = {} THEN plain ELSE ApplyWaivers(plain, given.waivers)
  BY DEF GovernedInv, AssessmentOf, Assessed
<1>2. /\ plain.record.evaluatedAt = Instant(given.bundle, given.at)
      /\ plain = [rules |-> plain.rules, score |-> plain.score, level |-> plain.level,
                  missing |-> plain.missing, monitoring |-> plain.monitoring,
                  policy |-> plain.policy, waived |-> plain.waived, record |-> plain.record]
  BY DEF AssessRisk, DecisionRecord
<1> HIDE DEF plain
<1>3. ApplyWaivers(plain, given.waivers).record.evaluatedAt = plain.record.evaluatedAt
  BY <1>2 DEF ApplyWaivers, DecisionRecord
<1>4. Instant(given.bundle, given.at) = given.at
  BY DEF Instant
<1>5. QED
  BY <1>1, <1>2, <1>3, <1>4

\* So a replay is accepted again and comes out the same.
LEMMA ReplayGoverns ==
    ASSUME GovernedInv, Replay
    PROVE  GovernedInv'
<1>1. /\ given # Nothing /\ given.bundle.governed
      /\ replay' = Outcome(given.bundle, given.draft, given.waivers, report.record.evaluatedAt)
      /\ UNCHANGED <<clock, bundle, draft, given, report, simulation>>
  BY DEF Replay
<1>2. report.record.evaluatedAt = given.at
  BY <1>1, InstantIsRecorded
<1>3. /\ given.at \in Times
      /\ Accepted(given.bundle, given.draft, given.waivers, given.at, given.at)
      /\ report = Assessed(given.bundle, given.draft, given.waivers, given.at)
  BY <1>1 DEF GovernedInv, AssessmentOf
<1>4. replay' = report
  BY <1>1, <1>2, <1>3, OutcomeIs DEF GovernedInv
<1>5. AssessmentOf(given)'
  BY <1>1 DEF GovernedInv, AssessmentOf
<1>6. \A b, c \in Bundles, d \in Drafts : SimulationOf(b, c, d) => SimulationOf(b, c, d)'
  BY <1>1 DEF SimulationOf
<1>7. QED
  BY <1>1, <1>4, <1>5, <1>6 DEF GovernedInv

LEMMA SimulateGoverns ==
    ASSUME GovernedInv, Simulate
    PROVE  GovernedInv'
<1>1. PICK candidate \in Bundles :
        /\ Simulable(bundle) /\ Simulable(candidate)
        /\ simulation' = [
                weakening |-> Weakening(PolicyDiff(bundle, candidate, PolicyContext(draft))),
                added  |-> {c.field : c \in {x \in PolicyDiff(bundle, candidate, PolicyContext(draft)) :
                                                 x.direction = "added"}},
                before |-> [score |-> Simulated(draft, bundle).score,
                            level |-> Simulated(draft, bundle).level],
                after  |-> [score |-> Simulated(draft, candidate).score,
                            level |-> Simulated(draft, candidate).level]]
        /\ given' = Nothing /\ report' = Nothing /\ replay' = Nothing
        /\ UNCHANGED <<clock, bundle, draft, discovery>>
  BY DEF Simulate
<1>2. SimulationOf(bundle, candidate, draft)'
  BY <1>1 DEF SimulationOf
<1>3. QED
  BY <1>1, <1>2 DEF GovernedInv

LEMMA NextGoverned == GovernedInv /\ [Next]_vars => GovernedInv'
<1> SUFFICES ASSUME GovernedInv, [Next]_vars PROVE GovernedInv'
  OBVIOUS
<1>1. CASE Assess
  BY <1>1, AssessGoverns
<1>2. CASE Simulate
  BY <1>2, SimulateGoverns
<1>3. CASE Replay
  BY <1>3, ReplayGoverns
<1>4. CASE Tick \/ Edit \/ Adopt \/ StartFetch \/ FetchPage \/ FetchFails \/ UNCHANGED vars
  <2>1. /\ bundle' \in Bundles /\ draft' \in Drafts
        /\ UNCHANGED output \/ ClearOutput
    BY <1>4 DEF GovernedInv, Tick, Edit, Adopt, StartFetch, FetchPage, FetchFails, vars, output
  <2>2. clock' \in Times
    <3>1. CASE Tick
      BY <3>1, TimeAssumption DEF GovernedInv, Tick, Times
    <3>2. CASE ~Tick
      BY <1>4, <3>2 DEF GovernedInv, Edit, Adopt, StartFetch, FetchPage, FetchFails, vars
    <3>3. QED
      BY <3>1, <3>2
  <2>3. CASE UNCHANGED output
    <3>1. given' = given /\ report' = report /\ replay' = replay /\ simulation' = simulation
      BY <2>3 DEF output
    <3>2. report' # Nothing \/ given' # Nothing => AssessmentOf(given)'
      BY <3>1 DEF GovernedInv, AssessmentOf
    <3>3. \A b, c \in Bundles, d \in Drafts : SimulationOf(b, c, d) => SimulationOf(b, c, d)'
      BY <3>1 DEF SimulationOf
    <3>4. QED
      BY <2>1, <2>2, <3>1, <3>2, <3>3 DEF GovernedInv
  <2>4. CASE ClearOutput
    BY <2>1, <2>2, <2>4 DEF GovernedInv, ClearOutput
  <2>5. QED
    BY <2>1, <2>3, <2>4
<1>5. QED
  BY <1>1, <1>2, <1>3, <1>4 DEF Next

\* What a run reports or a simulation says is of one bundle, one draft and one
\* instant, and was checked before (cli.py:450, policy_governance.py:798).
THEOREM Invariance == Spec => []GovernedInv
<1>1. QED
  BY InitGoverned, NextGoverned, PTL DEF Spec

\* However much later it is made, a replay for the instant a report records is
\* accepted again and reports the same (cli.py:425, policy_governance.py:404).
THEOREM ReplaysReproduce == Spec => []ReplayReproduces
<1>1. GovernedInv => ReplayReproduces
  BY DEF GovernedInv, ReplayReproduces
<1>2. QED
  BY <1>1, Invariance, PTL

\* Every field has the value of the matching overlay of the highest priority that
\* sets it, whatever the overlays are called (policy_governance.py:418).
THEOREM PriorityResolves == Spec => []ResolvedByPriority
<1>1. GovernedInv => ResolvedByPriority
  <2> SUFFICES ASSUME GovernedInv, ~Conflicting(bundle, PolicyContext(draft)),
                      NEW f \in DOMAIN Resolve(bundle, PolicyContext(draft))
               PROVE  LET resolved == Resolve(bundle, PolicyContext(draft))
                          setting == {o \in Matching(bundle, PolicyContext(draft)) :
                                          f \in DOMAIN NormalApply(o.apply)} IN
                      IF setting = {} THEN resolved[f] = NormalBase(bundle.base)[f]
                      ELSE \A o \in setting :
                               (\A p \in setting : p.priority <= o.priority) =>
                                   resolved[f] = NormalApply(o.apply)[f]
    BY DEF ResolvedByPriority
  <2> DEFINE context == PolicyContext(draft)
             resolved == Resolve(bundle, context)
             m == Matching(bundle, context)
             setting == {o \in m : f \in DOMAIN NormalApply(o.apply)}
  <2>1. \A o \in m : o.priority \in Int /\ o.id \in Int
    BY BundlesAssumption DEF Matching, GovernedInv
  <2>2. \/ resolved[f] = NormalBase(bundle.base)[f] /\ setting = {}
        \/ \E o \in setting : /\ resolved[f] = NormalApply(o.apply)[f]
                             /\ \A q \in setting : q = o \/ ~Before(o, q)
    BY ResolvedField DEF GovernedInv
  <2>3. \A o, p \in setting : o.priority = p.priority =>
            NormalApply(o.apply)[f] = NormalApply(p.apply)[f]
    BY DEF Conflicting
  <2> HIDE DEF m, resolved
  <2>4. ASSUME NEW o \in setting, \A p \in setting : p.priority <= o.priority
        PROVE  resolved[f] = NormalApply(o.apply)[f]
    <3>1. PICK x \in setting : /\ resolved[f] = NormalApply(x.apply)[f]
                               /\ \A q \in setting : q = x \/ ~Before(x, q)
      BY <2>2, <2>4
    <3>2. x.priority = o.priority
      <4>1. x.priority \in Int /\ o.priority \in Int /\ x.priority <= o.priority
        BY <2>1, <2>4
      <4>2. x = o \/ ~(x.priority < o.priority)
        BY <3>1 DEF Before
      <4>3. QED
        BY <4>1, <4>2
    <3>3. QED
      BY <2>3, <3>1, <3>2
  <2>5. QED
    BY <2>2, <2>4 DEF m, resolved
<1>2. QED
  BY <1>1, Invariance, PTL

\* With waivers the report has the same findings, score and level as without, it
\* stops exactly where that one stops and records the same instant, and each
\* finding is annotated by the waivers that name its rule
\* (policy_governance.py:673).
THEOREM AnnotationsOnly == Spec => []WaiversOnlyAnnotate
<1>1. GovernedInv => WaiversOnlyAnnotate
  <2> SUFFICES ASSUME GovernedInv, report # Nothing PROVE WaiversOnlyAnnotate
    BY DEF WaiversOnlyAnnotate
  <2> DEFINE plain == AssessRisk(given.draft, given.bundle, given.at)
             covering(r) == {w.id : w \in {v \in given.waivers : r.id \in v.rules}}
  <2>1. report = IF given.waivers = {} THEN plain ELSE ApplyWaivers(plain, given.waivers)
    BY DEF GovernedInv, AssessmentOf, Assessed
  <2>2. /\ plain.record.score = plain.score /\ plain.record.level = plain.level
        /\ plain.waived = [i \in DOMAIN plain.rules |-> {}]
        /\ plain = [rules |-> plain.rules, score |-> plain.score, level |-> plain.level,
                    missing |-> plain.missing, monitoring |-> plain.monitoring,
                    policy |-> plain.policy, waived |-> plain.waived, record |-> plain.record]
    <3>1. plain.record.score = plain.score
      BY DEF AssessRisk, DecisionRecord
    <3>2. plain.record.level = plain.level
      BY DEF AssessRisk, DecisionRecord
    <3>3. plain.waived = [i \in DOMAIN plain.rules |-> {}]
      BY DEF AssessRisk
    <3>4. plain = [rules |-> plain.rules, score |-> plain.score, level |-> plain.level,
                   missing |-> plain.missing, monitoring |-> plain.monitoring,
                   policy |-> plain.policy, waived |-> plain.waived, record |-> plain.record]
      BY DEF AssessRisk
    <3>5. QED
      BY <3>1, <3>2, <3>3, <3>4
  <2> HIDE DEF plain
  <2>3. CASE given.waivers = {}
    <3>1. report = plain
      BY <2>1, <2>3
    <3>2. \A i \in DOMAIN report.rules : report.waived[i] = covering(report.rules[i])
      BY <2>2, <2>3, <3>1
    <3>3. QED
      BY <3>1, <3>2 DEF WaiversOnlyAnnotate, plain
  <2>4. CASE given.waivers # {}
    <3>1. report = ApplyWaivers(plain, given.waivers)
      BY <2>1, <2>4
    <3>2. /\ report.rules = plain.rules /\ report.score = plain.score
          /\ report.level = plain.level /\ report.missing = plain.missing
          /\ report.monitoring = plain.monitoring /\ report.policy = plain.policy
          /\ report.waived = Annotations(plain.rules, given.waivers)
          /\ report.record = DecisionRecord(plain.score, plain.level, Cardinality(given.waivers),
                                  plain.record.disposition, plain.record.evaluatedAt)
      BY <2>2, <3>1 DEF ApplyWaivers
    <3>3. /\ report.record.score = plain.record.score /\ report.record.level = plain.record.level
          /\ report.record.disposition = plain.record.disposition
          /\ report.record.evaluatedAt = plain.record.evaluatedAt
      BY <2>2, <3>2 DEF DecisionRecord
    <3>4. \A i \in DOMAIN report.rules : report.waived[i] = covering(report.rules[i])
      BY <3>2 DEF Annotations, WaiversOf
    <3>5. \A f \in {"rules", "score", "level", "missing", "monitoring", "policy"} : report[f] = plain[f]
      BY <3>2
    <3>6. \A f \in {"score", "level", "disposition", "evaluatedAt"} :
              report.record[f] = plain.record[f]
      BY <3>3
    <3>7. QED
      BY <3>4, <3>5, <3>6 DEF WaiversOnlyAnnotate, plain
  <2>5. QED
    BY <2>3, <2>4
<1>2. QED
  BY <1>1, Invariance, PTL

\* No finding of a mandatory control is scored below the weight the base gives it,
\* whatever overlays match (policy_governance.py:371).
THEOREM FloorsHold == Spec => []FloorHolds
<1>1. GovernedInv => FloorHolds
  <2> SUFFICES ASSUME GovernedInv, report # Nothing,
                      NEW i \in DOMAIN report.rules,
                      report.rules[i].id \in given.bundle.mandatory
               PROVE  report.rules[i].score >= given.bundle.base[Weight(report.rules[i].id)]
    BY DEF FloorHolds
  <2> DEFINE b == given.bundle
             context == PolicyContext(given.draft)
             policy == Resolve(b, context)
             r == report.rules[i].id
             w == Weight(r)
  <2>1. b \in Bundles /\ WellFormed(b)
    BY DEF GovernedInv, AssessmentOf, Accepted, DrivesAssessment
  <2>2. report.rules = AssessRisk(given.draft, b, given.at).rules
    BY DEF GovernedInv, AssessmentOf, Assessed, ApplyWaivers, AssessRisk
  <2>3. PICK f : report.rules[i] = Weighted(f, policy)
    BY <2>2 DEF AssessRisk
  <2>4. report.rules[i].score = Get(policy, w, f.score)
    BY <2>3 DEF Weighted, Finding
  <2>5. r \in b.mandatory /\ r \in RulesOf(b.base)
    BY <2>1 DEF WellFormed
  <2> HIDE DEF r, b, policy, context
  <2>6. w \in DOMAIN b.base /\ b.base[w] \in 0..100
    <3>1. PICK g \in DOMAIN b.base : g[1] = "risk_weights" /\ r = g[2]
      BY <2>5 DEF RulesOf
    <3>2. g = w
      BY <2>1, <3>1, BundlesAssumption DEF Weight
    <3>3. QED
      BY <2>1, <2>5, <3>1, <3>2 DEF WellFormed, ValidContent, ValidWeights
  <2>7. w \in DOMAIN NormalBase(b.base) /\ NormalBase(b.base)[w] = b.base[w]
    BY <2>6 DEF NormalBase, Over
  <2>8. ASSUME NEW o \in Matching(b, context), w \in DOMAIN NormalApply(o.apply)
        PROVE  NormalApply(o.apply)[w] >= b.base[w]
    <3>1. o \in b.overlays /\ KeepsMandatory(o, b)
      BY <2>1 DEF WellFormed, Matching
    <3>2. w \in DOMAIN o.apply /\ NormalApply(o.apply)[w] = o.apply[w]
      BY <2>8 DEF NormalApply, Over, DefaultMonitoring, Minimum, Providers, Weight
    <3>3. r \in RulesOf(o.apply)
      BY <3>2 DEF RulesOf, Weight
    <3>4. QED
      BY <2>5, <3>1, <3>2, <3>3 DEF KeepsMandatory
  <2>9. w \in DOMAIN policy /\ policy[w] >= b.base[w]
    <3>1. /\ w \in DOMAIN policy
          /\ \/ policy[w] = NormalBase(b.base)[w]
             \/ \E o \in Matching(b, context) :
                   w \in DOMAIN NormalApply(o.apply) /\ policy[w] = NormalApply(o.apply)[w]
      BY <2>1, <2>7, ResolvedField DEF policy
    <3>2. QED
      BY <2>6, <2>7, <2>8, <3>1
  <2>10. QED
    BY <2>4, <2>9 DEF Get, r, b
<1>2. QED
  BY <1>1, Invariance, PTL

-----------------------------------------------------------------------------
(* Recursion along a sequence *)

\* Induction over the places of a sequence.
LEMMA IntervalInduction ==
    ASSUME NEW n \in Nat, NEW T, 0 \in T, \A k \in 1..n : k - 1 \in T => k \in T
    PROVE  \A k \in 0..n : k \in T
<1> DEFINE Out == {k \in 0..n : k \notin T}
<1>1. SUFFICES ASSUME Out # {} PROVE FALSE
  OBVIOUS
<1>2. PICK m \in Out : \A k \in Out : m <= k
  <2>1. Out \subseteq Nat
    OBVIOUS
  <2>2. QED
    BY <1>1, <2>1, LeastNumber
<1>3. m \in 1..n /\ m - 1 \in 0..n /\ ~(m <= m - 1)
  BY <1>2
<1>4. m - 1 \in T
  BY <1>2, <1>3
<1>5. QED
  BY <1>2, <1>3, <1>4

\* A function may be defined from place to place.
Recursive(f, n, a, step) ==
    f = [i \in 0..n |-> IF i = 0 THEN a ELSE step[<<f[i - 1], i>>]]

LEMMA Recursion ==
    ASSUME NEW n \in Nat, NEW V, NEW a \in V, NEW step \in [V \X (1..n) -> V]
    PROVE  \E f \in [0..n -> V] : Recursive(f, n, a, step)
<1> DEFINE Steps(f, k) == f[0] = a /\ \A i \in 1..k : f[i] = step[<<f[i - 1], i>>]
           T == {k \in 0..n : \E f \in [0..k -> V] : Steps(f, k)}
<1>1. 0 \in T
  <2> DEFINE f == [i \in 0..0 |-> a]
  <2>1. f \in [0..0 -> V] /\ Steps(f, 0)
    OBVIOUS
  <2> HIDE DEF f, Steps
  <2>2. QED
    BY <2>1
<1>2. ASSUME NEW k \in 1..n, k - 1 \in T
      PROVE  k \in T
  <2>1. PICK g \in [0..(k - 1) -> V] : Steps(g, k - 1)
    BY <1>2
  <2> DEFINE f == [i \in 0..k |-> IF i = k THEN step[<<g[k - 1], k>>] ELSE g[i]]
  <2>2. k - 1 \in 0..(k - 1) /\ g[k - 1] \in V /\ step[<<g[k - 1], k>>] \in V
    BY <2>1
  <2>3. \A i \in 0..k : i # k => i \in 0..(k - 1) /\ g[i] \in V
    BY <2>1
  <2>4. f \in [0..k -> V]
    BY <2>2, <2>3
  <2>5. ASSUME NEW i \in 1..k
        PROVE  f[i] = step[<<f[i - 1], i>>]
    <3>1. i - 1 \in 0..k /\ i - 1 # k /\ f[i - 1] = g[i - 1]
      OBVIOUS
    <3>2. CASE i = k
      BY <3>1, <3>2
    <3>3. CASE i # k
      <4>1. i \in 1..(k - 1)
        BY <3>3
      <4>2. f[i] = g[i] /\ g[i] = step[<<g[i - 1], i>>]
        BY <2>1, <3>3, <4>1
      <4>3. QED
        BY <3>1, <4>2
    <3>4. QED
      BY <3>2, <3>3
  <2>6. f[0] = a
    <3>1. 0 # k /\ 0 \in 0..k
      OBVIOUS
    <3>2. QED
      BY <2>1, <3>1
  <2> HIDE DEF f
  <2>7. Steps(f, k)
    BY <2>5, <2>6
  <2> HIDE DEF Steps
  <2>8. QED
    BY <2>4, <2>7
<1>3. n \in T
  <2> HIDE DEF T
  <2>1. \A k \in 0..n : k \in T
    BY <1>1, <1>2, IntervalInduction
  <2>2. QED
    BY <2>1
<1>4. PICK f \in [0..n -> V] : Steps(f, n)
  BY <1>3
<1>5. \A i \in 0..n : f[i] = IF i = 0 THEN a ELSE step[<<f[i - 1], i>>]
  BY <1>4
<1>6. f = [i \in 0..n |-> f[i]]
  BY <1>4
<1>7. Recursive(f, n, a, step)
  BY <1>5, <1>6 DEF Recursive
<1>8. QED
  BY <1>7

-----------------------------------------------------------------------------
(* Totals *)

Scored(X) == \A x \in X : x.score \in Nat

\* What the sum is after each finding.
Running(P, fs) ==
    /\ P \in [0..Len(fs) -> Nat]
    /\ P[0] = 0
    /\ \A i \in 1..Len(fs) : P[i] = P[i - 1] + fs[i].score
    /\ Total(fs) = P[Len(fs)]

LEMMA TotalRuns ==
    ASSUME NEW X, Scored(X), NEW fs \in Seq(X)
    PROVE  \E P : Running(P, fs)
<1> DEFINE n == Len(fs)
           step == [p \in Nat \X (1..n) |-> p[1] + fs[p[2]].score]
           F == CHOOSE f : f = [i \in 0..n |-> IF i = 0 THEN 0 ELSE f[i - 1] + fs[i].score]
<1>1. n \in Nat /\ \A i \in 1..n : fs[i].score \in Nat
  BY DEF Scored
<1>2. Total(fs) = F[n]
  BY DEF Total
<1> HIDE DEF n
<1>3. step \in [Nat \X (1..n) -> Nat]
  BY <1>1
<1>4. PICK f \in [0..n -> Nat] : f = [i \in 0..n |-> IF i = 0 THEN 0 ELSE step[<<f[i - 1], i>>]]
  <2> HIDE DEF step
  <2>1. 0 \in Nat
    OBVIOUS
  <2>2. \E f \in [0..n -> Nat] : Recursive(f, n, 0, step)
    BY <1>1, <1>3, <2>1, Recursion
  <2>3. QED
    BY <2>2 DEF Recursive
<1>5. \A i \in 0..n : f[i] = IF i = 0 THEN 0 ELSE f[i - 1] + fs[i].score
  <2>1. \A i \in 0..n : i # 0 => i \in 1..n /\ f[i - 1] \in Nat
    <3>1. \A i \in 0..n : i # 0 => i \in 1..n /\ i - 1 \in 0..n
      BY <1>1
    <3>2. \A i \in 0..n : f[i] \in Nat
      OBVIOUS
    <3>3. QED
      BY <3>1, <3>2
  <2>2. \A i \in 1..n : f[i - 1] \in Nat => step[<<f[i - 1], i>>] = f[i - 1] + fs[i].score
    OBVIOUS
  <2> HIDE DEF step
  <2>3. QED
    BY <1>4, <2>1, <2>2
<1>6. f = [i \in 0..n |-> IF i = 0 THEN 0 ELSE f[i - 1] + fs[i].score]
  <2>1. f = [i \in 0..n |-> f[i]]
    BY <1>4
  <2>2. QED
    BY <1>5, <2>1
<1>7. F = [i \in 0..n |-> IF i = 0 THEN 0 ELSE F[i - 1] + fs[i].score]
  BY <1>6
<1> HIDE DEF F
<1> DEFINE T == {i \in 0..n : F[i] \in Nat}
<1>8. \A i \in 0..n : F[i] = IF i = 0 THEN 0 ELSE F[i - 1] + fs[i].score
  BY <1>7
<1>9. 0 \in T
  BY <1>1, <1>8
<1>10. ASSUME NEW k \in 1..n, k - 1 \in T
       PROVE  k \in T
  <2>1. k \in 0..n /\ k # 0 /\ F[k - 1] \in Nat /\ fs[k].score \in Nat
    BY <1>1, <1>10
  <2>2. F[k] = F[k - 1] + fs[k].score
    BY <1>8, <2>1
  <2>3. QED
    BY <2>1, <2>2
<1>11. \A i \in 0..n : F[i] \in Nat
  <2> HIDE DEF T
  <2>1. \A i \in 0..n : i \in T
    BY <1>1, <1>9, <1>10, IntervalInduction
  <2>2. QED
    BY <2>1 DEF T
<1>12. F \in [0..n -> Nat]
  <2>1. F = [i \in 0..n |-> F[i]]
    BY <1>7, <1>8
  <2>2. QED
    BY <1>11, <2>1
<1>13. F[0] = 0 /\ \A i \in 1..n : F[i] = F[i - 1] + fs[i].score
  BY <1>1, <1>8
<1>14. Running(F, fs)
  BY <1>2, <1>12, <1>13 DEF Running, n
<1>15. QED
  BY <1>14

\* More findings of no less weight give no less.
LEMMA TotalGrows ==
    ASSUME NEW X, Scored(X), NEW fs \in Seq(X), NEW gs \in Seq(X), Len(fs) <= Len(gs),
           \A i \in 1..Len(fs) : fs[i].score <= gs[i].score
    PROVE  Total(fs) \in Nat /\ Total(gs) \in Nat /\ Total(fs) <= Total(gs)
<1>1. PICK P : Running(P, fs)
  BY TotalRuns
<1>2. PICK Q : Running(Q, gs)
  BY TotalRuns
<1> DEFINE n == Len(fs)
           m == Len(gs)
           T == {i \in 0..n : P[i] <= Q[i]}
           U == {i \in 0..(m - n) : Q[n] <= Q[n + i]}
<1>3. n \in Nat /\ m \in Nat /\ n <= m /\ m - n \in Nat
  OBVIOUS
<1>4. /\ P \in [0..n -> Nat] /\ P[0] = 0
      /\ \A i \in 1..n : P[i] = P[i - 1] + fs[i].score
      /\ Total(fs) = P[n]
  BY <1>1 DEF Running
<1>5. /\ Q \in [0..m -> Nat] /\ Q[0] = 0
      /\ \A i \in 1..m : Q[i] = Q[i - 1] + gs[i].score
      /\ Total(gs) = Q[m]
  BY <1>2 DEF Running
<1>6. /\ \A i \in 1..n : fs[i].score \in Nat /\ fs[i].score <= gs[i].score
      /\ \A i \in 1..m : gs[i].score \in Nat
  BY DEF Scored
<1> HIDE DEF n, m
<1>7. 0 \in T
  BY <1>3, <1>4, <1>5
<1>8. ASSUME NEW k \in 1..n, k - 1 \in T
      PROVE  k \in T
  <2>1. k \in 1..m /\ k - 1 \in 0..n /\ k - 1 \in 0..m /\ k \in 0..n
    BY <1>3
  <2>2. /\ P[k - 1] \in Nat /\ Q[k - 1] \in Nat /\ P[k - 1] <= Q[k - 1]
        /\ fs[k].score \in Nat /\ gs[k].score \in Nat /\ fs[k].score <= gs[k].score
        /\ P[k] = P[k - 1] + fs[k].score /\ Q[k] = Q[k - 1] + gs[k].score
    BY <1>4, <1>5, <1>6, <1>8, <2>1
  <2>3. P[k] <= Q[k]
    <3>1. \A a, b, c, d \in Nat : a <= b /\ c <= d => a + c <= b + d
      OBVIOUS
    <3>2. QED
      BY <2>2, <3>1
  <2>4. QED
    BY <2>1, <2>3
<1>9. P[n] <= Q[n]
  <2> HIDE DEF T
  <2>1. \A i \in 0..n : i \in T
    BY <1>3, <1>7, <1>8, IntervalInduction
  <2>2. n \in T
    BY <1>3, <2>1
  <2>3. QED
    BY <2>2 DEF T
<1>10. 0 \in U
  <2>1. Q[n] \in Nat /\ n + 0 = n
    BY <1>3, <1>5
  <2>2. QED
    BY <1>3, <2>1
<1>11. ASSUME NEW k \in 1..(m - n), k - 1 \in U
       PROVE  k \in U
  <2>1. n + k \in 1..m /\ (n + k) - 1 = n + (k - 1) /\ n + (k - 1) \in 0..m /\ n \in 0..m
    BY <1>3
  <2>2. /\ Q[n + k] = Q[n + (k - 1)] + gs[n + k].score
        /\ Q[n] \in Nat /\ Q[n + (k - 1)] \in Nat /\ gs[n + k].score \in Nat
        /\ Q[n] <= Q[n + (k - 1)]
    BY <1>5, <1>6, <1>11, <2>1
  <2>3. Q[n] <= Q[n + k] /\ k \in 0..(m - n)
    BY <2>2
  <2>4. QED
    BY <2>3
<1>12. Q[n] <= Q[m]
  <2> HIDE DEF U
  <2>1. \A i \in 0..(m - n) : i \in U
    BY <1>3, <1>10, <1>11, IntervalInduction
  <2>2. m - n \in U /\ n + (m - n) = m
    BY <1>3, <2>1
  <2>3. QED
    BY <2>2 DEF U
<1>13. P[n] \in Nat /\ Q[n] \in Nat /\ Q[m] \in Nat
  BY <1>3, <1>4, <1>5
<1>14. QED
  BY <1>4, <1>5, <1>9, <1>12, <1>13

\* Findings of two kinds add up.
LEMMA TotalJoins ==
    ASSUME NEW X, Scored(X), NEW fs \in Seq(X), NEW gs \in Seq(X)
    PROVE  Total(fs \o gs) = Total(fs) + Total(gs)
<1> DEFINE hs == fs \o gs
<1>1. PICK P : Running(P, fs)
  BY TotalRuns
<1>2. PICK Q : Running(Q, gs)
  BY TotalRuns
<1>3. PICK R : Running(R, hs)
  <2>1. hs \in Seq(X)
    OBVIOUS
  <2> HIDE DEF hs
  <2>2. QED
    BY <2>1, TotalRuns
<1> DEFINE n == Len(fs)
           m == Len(gs)
           T == {i \in 0..n : R[i] = P[i]}
           U == {i \in 0..m : R[n + i] = P[n] + Q[i]}
<1>4. n \in Nat /\ m \in Nat /\ Len(hs) = n + m
  OBVIOUS
<1>5. /\ P \in [0..n -> Nat] /\ P[0] = 0
      /\ \A i \in 1..n : P[i] = P[i - 1] + fs[i].score
      /\ Total(fs) = P[n]
  BY <1>1 DEF Running
<1>6. /\ Q \in [0..m -> Nat] /\ Q[0] = 0
      /\ \A i \in 1..m : Q[i] = Q[i - 1] + gs[i].score
      /\ Total(gs) = Q[m]
  BY <1>2 DEF Running
<1>7. /\ R \in [0..(n + m) -> Nat] /\ R[0] = 0
      /\ \A i \in 1..(n + m) : R[i] = R[i - 1] + hs[i].score
      /\ Total(hs) = R[n + m]
  BY <1>3, <1>4 DEF Running
<1>8. /\ \A i \in 1..n : hs[i] = fs[i]
      /\ \A i \in 1..m : hs[n + i] = gs[i] /\ gs[i].score \in Nat
  BY DEF Scored
<1> HIDE DEF n, m, hs
<1>9. 0 \in T
  BY <1>4, <1>5, <1>7
<1>10. ASSUME NEW k \in 1..n, k - 1 \in T
       PROVE  k \in T
  <2>1. k \in 1..(n + m) /\ k \in 0..n
    BY <1>4
  <2>2. R[k] = R[k - 1] + hs[k].score /\ P[k] = P[k - 1] + fs[k].score
        /\ hs[k] = fs[k] /\ R[k - 1] = P[k - 1]
    BY <1>5, <1>7, <1>8, <1>10, <2>1
  <2>3. QED
    BY <2>1, <2>2
<1>11. R[n] = P[n]
  <2> HIDE DEF T
  <2>1. \A i \in 0..n : i \in T
    BY <1>4, <1>9, <1>10, IntervalInduction
  <2>2. n \in T
    BY <1>4, <2>1
  <2>3. QED
    BY <2>2 DEF T
<1>12. 0 \in U
  <2>1. P[n] \in Nat /\ n + 0 = n
    BY <1>4, <1>5
  <2>2. QED
    BY <1>4, <1>6, <1>11, <2>1
<1>13. ASSUME NEW k \in 1..m, k - 1 \in U
       PROVE  k \in U
  <2>1. n + k \in 1..(n + m) /\ (n + k) - 1 = n + (k - 1) /\ k \in 0..m /\ k - 1 \in 0..m /\ n \in 0..n
    BY <1>4
  <2>2. /\ R[n + k] = R[n + (k - 1)] + hs[n + k].score
        /\ hs[n + k] = gs[k] /\ gs[k].score \in Nat
        /\ R[n + (k - 1)] = P[n] + Q[k - 1]
        /\ Q[k] = Q[k - 1] + gs[k].score
        /\ P[n] \in Nat /\ Q[k - 1] \in Nat
    BY <1>5, <1>6, <1>7, <1>8, <1>13, <2>1
  <2>3. R[n + k] = P[n] + Q[k]
    BY <2>2
  <2>4. QED
    BY <2>1, <2>3
<1>14. R[n + m] = P[n] + Q[m]
  <2> HIDE DEF U
  <2>1. \A i \in 0..m : i \in U
    BY <1>4, <1>12, <1>13, IntervalInduction
  <2>2. m \in U
    BY <1>4, <2>1
  <2>3. QED
    BY <2>2 DEF U
<1>15. QED
  BY <1>5, <1>6, <1>7, <1>14 DEF hs

-----------------------------------------------------------------------------
(* What a resolved policy says *)

Levels == {"low", "medium", "high"}

\* Weights are percentages, thresholds and the minimum integers, and all the
\* fields that an assessment reads are there.
Sound(p) ==
    /\ \A f \in DOMAIN p : f[1] = "risk_weights" => f = Weight(f[2]) /\ p[f] \in 0..100
    /\ \A l \in Levels : Threshold(l) \in DOMAIN p /\ p[Threshold(l)] \in Int
    /\ Minimum \in DOMAIN p /\ p[Minimum] \in Int
    /\ Providers \in DOMAIN p /\ IsFiniteSet(p[Providers])

\* What one content says, with the defaults of the base or of an overlay.
Fitting(content) ==
    \A f \in DOMAIN content :
        /\ f = <<f[1], f[2]>>
        /\ f[1] = "risk_weights" => content[f] \in 0..100
        /\ f[1] = "risk_level_thresholds" \/ f = Minimum => content[f] \in Int
        /\ f = Providers => IsFiniteSet(content[f])

LEMMA DefaultsFit ==
    /\ Fitting(DefaultThresholds) /\ Fitting(DefaultMonitoring)
    /\ DOMAIN DefaultThresholds = {Threshold(l) : l \in Levels}
    /\ DOMAIN DefaultMonitoring = {Minimum, Providers}
<1> DEFINE default == [low |-> 30, medium |-> 60, high |-> 80]
<1>1. DOMAIN default = Levels /\ \A l \in Levels : default[l] \in Int
  BY DEF Levels
<1>2. DefaultThresholds = [t \in {Threshold(l) : l \in DOMAIN default} |-> default[t[2]]]
  BY DEF DefaultThresholds
<1> HIDE DEF default
<1>3. DOMAIN DefaultThresholds = {Threshold(l) : l \in Levels}
  BY <1>1, <1>2
<1>4. Fitting(DefaultThresholds)
  <2> SUFFICES ASSUME NEW f \in DOMAIN DefaultThresholds
               PROVE  /\ f = <<f[1], f[2]>> /\ f[1] = "risk_level_thresholds"
                      /\ f # Providers /\ DefaultThresholds[f] \in Int
    BY DEF Fitting
  <2>1. PICK l \in Levels : f = Threshold(l)
    BY <1>3
  <2>2. f = <<f[1], f[2]>> /\ f[1] = "risk_level_thresholds" /\ f # Providers /\ f[2] = l
    BY <2>1 DEF Threshold, Providers
  <2>3. DefaultThresholds[f] = default[f[2]]
    BY <1>1, <1>2, <1>3
  <2>4. QED
    BY <1>1, <2>2, <2>3
<1>5. DOMAIN DefaultMonitoring = {Minimum, Providers}
  BY DEF DefaultMonitoring
<1>6. Fitting(DefaultMonitoring)
  <2>1. DefaultMonitoring[Minimum] = 0 /\ DefaultMonitoring[Providers] = {}
    BY DEF DefaultMonitoring, Minimum, Providers
  <2>2. IsFiniteSet({})
    BY FS_EmptySet
  <2>3. QED
    BY <1>5, <2>1, <2>2 DEF Fitting, Minimum, Providers
<1>7. QED
  BY <1>3, <1>4, <1>5, <1>6

LEMMA OverFits ==
    ASSUME NEW g, NEW h, Fitting(g), Fitting(h)
    PROVE  Fitting(Over(g, h)) /\ DOMAIN Over(g, h) = DOMAIN g \cup DOMAIN h
BY DEF Fitting, Over

LEMMA BundlesFit ==
    ASSUME NEW b \in Bundles, WellFormed(b)
    PROVE  /\ Fitting(NormalBase(b.base))
           /\ \A o \in b.overlays : Fitting(NormalApply(o.apply))
           /\ {Threshold(l) : l \in Levels} \cup {Minimum, Providers} \subseteq DOMAIN NormalBase(b.base)
<1>1. ASSUME NEW content \in {b.base} \cup {o.apply : o \in b.overlays}
      PROVE  Fitting(content)
  <2>1. ValidWeights(content)
    BY DEF WellFormed, ValidContent
  <2>2. ASSUME NEW f \in DOMAIN content, f[1] = "risk_weights"
        PROVE  content[f] \in 0..100
    <3>1. f[2] \in RulesOf(content)
      BY <2>2 DEF RulesOf
    <3>2. f = Weight(f[2])
      BY <2>2, BundlesAssumption DEF Weight
    <3>3. QED
      BY <2>1, <3>1, <3>2 DEF ValidWeights
  <2>3. QED
    BY <2>2, BundlesAssumption DEF Fitting
<1>2. Fitting(b.base)
  BY <1>1
<1>3. Fitting(NormalBase(b.base))
  BY <1>2, DefaultsFit, OverFits DEF NormalBase
<1>4. {Threshold(l) : l \in Levels} \cup {Minimum, Providers} \subseteq DOMAIN NormalBase(b.base)
  BY <1>2, DefaultsFit, OverFits DEF NormalBase
<1>5. \A o \in b.overlays : Fitting(NormalApply(o.apply))
  BY <1>1, DefaultsFit, OverFits DEF NormalApply
<1>6. QED
  BY <1>3, <1>4, <1>5

LEMMA ResolvedIsSound ==
    ASSUME NEW b \in Bundles, WellFormed(b), NEW context
    PROVE  Sound(Resolve(b, context))
<1> DEFINE p == Resolve(b, context)
           base == NormalBase(b.base)
<1>1. /\ DOMAIN base \subseteq DOMAIN p
      /\ \A f \in DOMAIN p :
             \/ f \in DOMAIN base /\ p[f] = base[f]
             \/ \E o \in Matching(b, context) :
                   f \in DOMAIN NormalApply(o.apply) /\ p[f] = NormalApply(o.apply)[f]
  BY ResolvedField
<1>2. /\ Fitting(base) /\ \A o \in Matching(b, context) : Fitting(NormalApply(o.apply))
      /\ {Threshold(l) : l \in Levels} \cup {Minimum, Providers} \subseteq DOMAIN base
  BY BundlesFit DEF Matching
<1> HIDE DEF p, base
<1>3. Fitting(p)
  BY <1>1, <1>2 DEF Fitting
<1>4. {Threshold(l) : l \in Levels} \cup {Minimum, Providers} \subseteq DOMAIN p
  BY <1>1, <1>2
<1>5. \A f \in DOMAIN p : f[1] = "risk_weights" => f = Weight(f[2]) /\ p[f] \in 0..100
  BY <1>3 DEF Fitting, Weight
<1>6. \A l \in Levels : Threshold(l) \in DOMAIN p /\ p[Threshold(l)] \in Int
  <2> TAKE l \in Levels
  <2>1. Threshold(l) \in DOMAIN p /\ Threshold(l)[1] = "risk_level_thresholds"
    BY <1>4 DEF Threshold
  <2>2. QED
    BY <1>3, <2>1 DEF Fitting
<1>7. QED
  BY <1>3, <1>4, <1>5, <1>6 DEF Sound, Fitting, p

-----------------------------------------------------------------------------
(* What a difference without a weakening means *)

Stricter(p, q) ==
    /\ \A r : \A n \in Nat : Get(p, Weight(r), n) \in Nat /\ Get(q, Weight(r), n) \in Nat
                          /\ Get(p, Weight(r), n) <= Get(q, Weight(r), n)
    /\ \A l \in Levels : p[Threshold(l)] \in Int /\ q[Threshold(l)] \in Int
                       /\ q[Threshold(l)] <= p[Threshold(l)]
    /\ p[Minimum] \in Int /\ q[Minimum] \in Int /\ p[Minimum] <= q[Minimum]
    /\ IsFiniteSet(p[Providers]) /\ IsFiniteSet(q[Providers]) /\ p[Providers] \subseteq q[Providers]

\* All that is checked of the two, between resolved policies.
Tightened(changes) == \A c \in changes : c.direction \notin {"weakened", "removed", "added"}

LEMMA WeightsTighten ==
    ASSUME NEW p, NEW q, Sound(p), Sound(q), Tightened(DiffWeights(p, q)), NEW r, NEW n \in Nat
    PROVE  Get(p, Weight(r), n) \in Nat /\ Get(q, Weight(r), n) \in Nat
           /\ Get(p, Weight(r), n) <= Get(q, Weight(r), n)
<1> DEFINE w == Weight(r)
<1>1. w[1] = "risk_weights" /\ w[2] = r
  BY DEF Weight
<1>2. w \in DOMAIN p => p[w] \in 0..100 /\ r \in RulesOf(p)
  BY <1>1 DEF Sound, RulesOf
<1>3. w \in DOMAIN q => q[w] \in 0..100 /\ r \in RulesOf(q)
  BY <1>1 DEF Sound, RulesOf
<1>4. ASSUME w \in DOMAIN p \/ w \in DOMAIN q, Get(p, w, -1) # Get(q, w, -1)
      PROVE  w \in DOMAIN p /\ w \in DOMAIN q /\ q[w] > p[w]
  <2>1. [field |-> w, direction |-> WeightDirection(p, q, r)] \in DiffWeights(p, q)
    BY <1>2, <1>3, <1>4 DEF DiffWeights
  <2>2. WeightDirection(p, q, r) \notin {"weakened", "removed", "added"}
    BY <2>1 DEF Tightened
  <2>3. QED
    BY <2>2 DEF WeightDirection
<1> HIDE DEF w
<1>5. CASE w \notin DOMAIN p /\ w \notin DOMAIN q
  BY <1>5 DEF Get, w
<1>6. CASE w \in DOMAIN p /\ w \in DOMAIN q
  BY <1>2, <1>3, <1>4, <1>6 DEF Get, w
<1>7. CASE w \in DOMAIN p /\ w \notin DOMAIN q
  BY <1>2, <1>4, <1>7 DEF Get
<1>8. CASE w \notin DOMAIN p /\ w \in DOMAIN q
  BY <1>3, <1>4, <1>8 DEF Get
<1>9. QED
  BY <1>5, <1>6, <1>7, <1>8

LEMMA ThresholdsTighten ==
    ASSUME NEW p, NEW q, Sound(p), Sound(q), Tightened(DiffThresholds(p, q)), NEW l \in Levels
    PROVE  q[Threshold(l)] <= p[Threshold(l)]
<1> DEFINE t == Threshold(l)
<1>1. p[t] \in Int /\ q[t] \in Int
  BY DEF Sound
<1>2. Change(t, p[t] # q[t], q[t] > p[t]) \subseteq DiffThresholds(p, q)
  BY DEF DiffThresholds, Levels
<1> HIDE DEF t
<1>3. ASSUME q[t] > p[t]
      PROVE  FALSE
  <2>1. p[t] # q[t]
    BY <1>1, <1>3
  <2>2. [field |-> t, direction |-> "weakened"] \in Change(t, p[t] # q[t], q[t] > p[t])
    BY <1>3, <2>1 DEF Change
  <2>3. QED
    BY <1>2, <2>2 DEF Tightened
<1>4. QED
  BY <1>1, <1>3 DEF t

LEMMA MonitoringTightens ==
    ASSUME NEW p, NEW q, Sound(p), Sound(q), Tightened(DiffMonitoring(p, q))
    PROVE  p[Minimum] <= q[Minimum] /\ p[Providers] \subseteq q[Providers]
<1>1. p[Minimum] \in Int /\ q[Minimum] \in Int
  BY DEF Sound
<1>2. ASSUME q[Minimum] < p[Minimum]
      PROVE  FALSE
  <2>1. p[Minimum] # q[Minimum]
    BY <1>1, <1>2
  <2>2. [field |-> Minimum, direction |-> "weakened"]
            \in Change(Minimum, p[Minimum] # q[Minimum], q[Minimum] < p[Minimum])
    BY <1>2, <2>1 DEF Change
  <2>3. [field |-> Minimum, direction |-> "weakened"] \in DiffMonitoring(p, q)
    BY <2>2 DEF DiffMonitoring
  <2>4. QED
    BY <2>3 DEF Tightened
<1>3. ASSUME NEW x \in p[Providers], x \notin q[Providers]
      PROVE  FALSE
  <2>1. x \in SymDiff(p[Providers], q[Providers])
    BY <1>3 DEF SymDiff
  <2>2. [field |-> <<"monitoring", "providers", x>>, direction |-> "weakened"]
            \in Change(<<"monitoring", "providers", x>>, TRUE, x \notin q[Providers])
    BY <1>3 DEF Change
  <2>3. [field |-> <<"monitoring", "providers", x>>, direction |-> "weakened"] \in DiffMonitoring(p, q)
    BY <2>1, <2>2 DEF DiffMonitoring
  <2>4. QED
    BY <2>3 DEF Tightened
<1>4. QED
  BY <1>1, <1>2, <1>3

LEMMA NoWeakeningIsStricter ==
    ASSUME NEW b \in Bundles, NEW c \in Bundles, WellFormed(b), WellFormed(c), NEW context,
           Tightened(PolicyDiff(b, c, context))
    PROVE  Stricter(Resolve(b, context), Resolve(c, context))
<1> DEFINE p == Resolve(b, context)
           q == Resolve(c, context)
<1>1. Sound(p) /\ Sound(q)
  BY ResolvedIsSound
<1>2. Tightened(DiffWeights(p, q)) /\ Tightened(DiffThresholds(p, q)) /\ Tightened(DiffMonitoring(p, q))
  BY DEF PolicyDiff, Tightened
<1> HIDE DEF p, q
<1>3. \A r : \A n \in Nat : Get(p, Weight(r), n) \in Nat /\ Get(q, Weight(r), n) \in Nat
                          /\ Get(p, Weight(r), n) <= Get(q, Weight(r), n)
  BY <1>1, <1>2, WeightsTighten
<1>4. \A l \in Levels : q[Threshold(l)] <= p[Threshold(l)]
  BY <1>1, <1>2, ThresholdsTighten
<1>5. p[Minimum] <= q[Minimum] /\ p[Providers] \subseteq q[Providers]
  BY <1>1, <1>2, MonitoringTightens
<1>6. Stricter(p, q)
  BY <1>1, <1>3, <1>4, <1>5 DEF Stricter, Sound
<1>7. QED
  BY <1>6 DEF p, q

-----------------------------------------------------------------------------
(* The findings of a change under two policies *)

\* A finding has the id of a rule: the engine's, or one that a scanner has given.
OwnIds ==
    {"production-change", "critical-service", "missing-owner", "missing-runbook",
     "missing-business-impact", "missing-rollback-plan", "missing-monitoring-plan",
     "missing-validation-plan", "database-change", "security-change", "network-change",
     "infrastructure-change", "monitoring-invalid-dashboard-url",
     "monitoring-reference-not-found", "monitoring-reference-disabled",
     "monitoring-insufficient-coverage", "monitoring-required-provider-missing"}

RuleIds == OwnIds \cup {f.id : f \in UNION {ToSet(d.scanned) : d \in Drafts}}

Found == [id : RuleIds, score : Nat]

LEMMA FoundIsScored == Scored(Found)
BY DEF Scored, Found

LEMMA OneFinding ==
    ASSUME NEW id \in OwnIds, NEW score \in Nat
    PROVE  Finding(id, score) \in Found /\ << Finding(id, score) >> \in Seq(Found)
<1>1. Finding(id, score) \in Found
  BY DEF Finding, Found, RuleIds
<1> DEFINE x == Finding(id, score)
<1> HIDE DEF x
<1>2. DOMAIN << x >> = 1..1 /\ << x >>[1] = x /\ Len(<< x >>) = 1 /\ x \in Found
  BY <1>1 DEF x
<1>3. << x >> \in Seq(Found)
  BY <1>2
<1>4. QED
  BY <1>1, <1>3 DEF x

LEMMA WhenFound ==
    ASSUME NEW holds, NEW id \in OwnIds, NEW score \in Nat
    PROVE  When(holds, id, score) \in Seq(Found)
BY OneFinding DEF When

LEMMA ServiceRulesFound ==
    ASSUME NEW service, NEW change
    PROVE  ServiceRules(service, change) \in Seq(Found)
<1> DEFINE kind == IF change.kind \in DOMAIN KindRule THEN << KindRule[change.kind] >> ELSE <<>>
           w1 == When(change.production, "production-change", 20)
           w2 == When(service.critical, "critical-service", 25)
           w3 == When(~service.owner, "missing-owner", 25)
           w4 == When(~service.runbook, "missing-runbook", 15)
           w5 == When(~service.impact, "missing-business-impact", 10)
           w6 == When(BadRollback(change), "missing-rollback-plan", 30)
           w7 == When(IncompleteMonitoring(change), "missing-monitoring-plan", 20)
           w8 == When(~change.validation, "missing-validation-plan", 15)
<1>1. kind \in Seq(Found)
  <2>1. CASE change.kind \in DOMAIN KindRule
    <3>1. \/ KindRule[change.kind] = Finding("database-change", 25)
          \/ KindRule[change.kind] = Finding("security-change", 25)
          \/ KindRule[change.kind] = Finding("network-change", 25)
          \/ KindRule[change.kind] = Finding("infrastructure-change", 20)
      BY <2>1 DEF KindRule
    <3>2. << KindRule[change.kind] >> \in Seq(Found)
      BY <3>1, OneFinding DEF OwnIds
    <3>3. QED
      BY <2>1, <3>2
  <2>2. QED
    BY <2>1
<1>2. \A s, t \in Seq(Found) : s \o t \in Seq(Found)
  OBVIOUS
<1>3. /\ w1 \in Seq(Found) /\ w2 \in Seq(Found) /\ w3 \in Seq(Found) /\ w4 \in Seq(Found)
      /\ w5 \in Seq(Found) /\ w6 \in Seq(Found) /\ w7 \in Seq(Found) /\ w8 \in Seq(Found)
  BY WhenFound DEF OwnIds
<1>4. ServiceRules(service, change) = w1 \o w2 \o w3 \o w4 \o w5 \o w6 \o w7 \o w8 \o kind
  BY DEF ServiceRules, kind
<1> HIDE DEF w1, w2, w3, w4, w5, w6, w7, w8, kind
<1>5. QED
  BY <1>1, <1>2, <1>3, <1>4

\* The library's concatenation of a sequence of sequences joins them one by one.
JoinedUp(F, ss) == F[0] = <<>> /\ \A i \in 1..Len(ss) : F[i] = F[i - 1] \o ss[i]

LEMMA Flattening ==
    ASSUME NEW X, NEW ss \in Seq(Seq(X))
    PROVE  \E G \in [0..Len(ss) -> Seq(X)] : JoinedUp(G, ss) /\ FlattenSeq(ss) = G[Len(ss)]
<1> DEFINE n == Len(ss)
           step == [p \in Seq(X) \X (1..n) |-> p[1] \o ss[p[2]]]
           F == CHOOSE f : f = [i \in 1..n |-> IF i = 1 THEN ss[i] ELSE f[i - 1] \o ss[i]]
<1>1. n \in Nat /\ \A i \in 1..n : ss[i] \in Seq(X)
  OBVIOUS
<1>2. CASE n = 0
  <2>1. ss = <<>>
    BY <1>2, EmptySeq
  <2>2. FlattenSeq(ss) = <<>>
    BY <1>2, <2>1 DEF FlattenSeq
  <2> DEFINE G == [i \in 0..0 |-> <<>>]
  <2>3. G \in [0..0 -> Seq(X)] /\ G[0] = <<>>
    OBVIOUS
  <2> HIDE DEF G
  <2>4. JoinedUp(G, ss)
    BY <1>2, <2>3 DEF JoinedUp
  <2>5. QED
    BY <1>2, <2>2, <2>3, <2>4
<1>3. CASE n # 0
  <2>1. FlattenSeq(ss) = F[n]
    BY <1>3 DEF FlattenSeq
  <2> HIDE DEF n
  <2>2. PICK f \in [0..n -> Seq(X)] : Recursive(f, n, <<>>, step)
    <3>1. step \in [Seq(X) \X (1..n) -> Seq(X)]
      BY <1>1
    <3>2. <<>> \in Seq(X)
      OBVIOUS
    <3> HIDE DEF step
    <3>3. QED
      BY <1>1, <3>1, <3>2, Recursion
  <2>3. /\ f[0] = <<>>
        /\ \A i \in 1..n : f[i] = f[i - 1] \o ss[i] /\ f[i - 1] \in Seq(X)
    <3>1. \A i \in 0..n : f[i] = IF i = 0 THEN <<>> ELSE step[<<f[i - 1], i>>]
      BY <2>2 DEF Recursive
    <3>2. \A i \in 1..n : i \in 0..n /\ i # 0 /\ i - 1 \in 0..n
      BY <1>1
    <3>3. \A i \in 1..n : f[i - 1] \in Seq(X)
      BY <3>2
    <3>4. \A i \in 1..n : f[i - 1] \in Seq(X) => step[<<f[i - 1], i>>] = f[i - 1] \o ss[i]
      OBVIOUS
    <3>5. 0 \in 0..n
      BY <1>1
    <3> HIDE DEF step
    <3>6. QED
      BY <3>1, <3>2, <3>3, <3>4, <3>5
  <2> DEFINE g == [i \in 1..n |-> f[i]]
  <2>4. g = [i \in 1..n |-> IF i = 1 THEN ss[i] ELSE g[i - 1] \o ss[i]]
    <3>1. ASSUME NEW i \in 1..n
          PROVE  g[i] = IF i = 1 THEN ss[i] ELSE g[i - 1] \o ss[i]
      <4>1. g[i] = f[i - 1] \o ss[i] /\ ss[i] \in Seq(X)
        BY <1>1, <2>3
      <4>2. CASE i = 1
        <5>1. f[i - 1] = <<>>
          BY <2>3, <4>2
        <5>2. g[i] = ss[i]
          BY <4>1, <5>1
        <5>3. QED
          BY <4>2, <5>2
      <4>3. CASE i # 1
        <5>1. i - 1 \in 1..n
          BY <1>1, <4>3
        <5>2. g[i - 1] = f[i - 1]
          BY <5>1
        <5>3. QED
          BY <4>1, <4>3, <5>2
      <4>4. QED
        BY <4>2, <4>3
    <3>2. g = [i \in 1..n |-> g[i]]
      OBVIOUS
    <3> HIDE DEF g
    <3>3. QED
      BY <3>1, <3>2
  <2>5. F = [i \in 1..n |-> IF i = 1 THEN ss[i] ELSE F[i - 1] \o ss[i]]
    <3> HIDE DEF g
    <3>1. QED
      BY <2>4
  <2> HIDE DEF F, g
  <2> DEFINE T == {i \in 0..n : i = 0 \/ F[i] \in Seq(X)}
  <2>6. ASSUME NEW k \in 1..n, k - 1 \in T
        PROVE  k \in T
    <3>1. k \in 0..n /\ F[k] = IF k = 1 THEN ss[k] ELSE F[k - 1] \o ss[k]
      <4>1. k \in 0..n
        BY <1>1
      <4>2. F[k] = IF k = 1 THEN ss[k] ELSE F[k - 1] \o ss[k]
        BY <2>5
      <4>3. QED
        BY <4>1, <4>2
    <3>2. ss[k] \in Seq(X) /\ (k # 1 => F[k - 1] \in Seq(X))
      BY <1>1, <2>6
    <3>3. F[k] \in Seq(X)
      <4>1. CASE k = 1
        BY <3>1, <3>2, <4>1
      <4>2. CASE k # 1
        <5>1. F[k - 1] \in Seq(X) /\ F[k] = F[k - 1] \o ss[k]
          BY <3>1, <3>2, <4>2
        <5>2. QED
          BY <3>2, <5>1
      <4>3. QED
        BY <4>1, <4>2
    <3>4. QED
      BY <3>1, <3>3
  <2>7. 0 \in T
    BY <1>1
  <2>8. \A k \in 0..n : k \in T
    <3> HIDE DEF T
    <3>1. QED
      BY <1>1, <2>6, <2>7, IntervalInduction
  <2> DEFINE G == [i \in 0..n |-> IF i = 0 THEN <<>> ELSE F[i]]
  <2>9. \A k \in 1..n : k \in 0..n /\ k # 0 /\ F[k] \in Seq(X)
    <3> TAKE k \in 1..n
    <3>1. k \in 0..n /\ k # 0
      BY <1>1
    <3>2. k \in T
      BY <2>8, <3>1
    <3>3. QED
      BY <3>1, <3>2
  <2>10. G \in [0..n -> Seq(X)]
    <3>1. \A k \in 0..n : k = 0 \/ k \in 1..n
      BY <1>1
    <3>2. <<>> \in Seq(X)
      OBVIOUS
    <3>3. QED
      BY <2>9, <3>1, <3>2
  <2>11. 0 \in 0..n /\ n \in 1..n
    BY <1>1, <1>3
  <2>12. G[0] = <<>> /\ G[n] = F[n]
    BY <1>3, <2>9, <2>11
  <2>13. ASSUME NEW i \in 1..n
         PROVE  G[i] = G[i - 1] \o ss[i]
    <3>1. G[i] = F[i] /\ ss[i] \in Seq(X)
      BY <1>1, <2>9
    <3>2. CASE i = 1
      <4>1. G[i - 1] = <<>> /\ F[i] = ss[i]
        BY <2>5, <2>12, <3>2
      <4>2. <<>> \o ss[i] = ss[i]
        BY <3>1, ConcatEmptySeq
      <4> HIDE DEF G
      <4>3. QED
        BY <3>1, <4>1, <4>2
    <3>3. CASE i # 1
      <4>1. i - 1 \in 1..n
        BY <1>1, <3>3
      <4>2. G[i - 1] = F[i - 1] /\ F[i] = F[i - 1] \o ss[i]
        BY <2>5, <2>9, <3>3, <4>1
      <4>3. QED
        BY <3>1, <4>2
    <3>4. QED
      BY <3>2, <3>3
  <2> HIDE DEF G
  <2>14. JoinedUp(G, ss)
    BY <2>12, <2>13 DEF JoinedUp, n
  <2>15. QED
    BY <1>3, <2>1, <2>10, <2>12, <2>14 DEF n
<1>4. QED
  BY <1>2, <1>3

LEMMA Flattened ==
    ASSUME NEW X, NEW ss \in Seq(Seq(X))
    PROVE  FlattenSeq(ss) \in Seq(X)
<1>1. Len(ss) \in 0..Len(ss)
  BY LenProperties
<1>2. QED
  BY <1>1, Flattening

LEMMA ReferencesFound ==
    ASSUME NEW ids \in Seq(STRING), NEW inventory
    PROVE  ReferenceFindings(ids, inventory) \in Seq(Found)
<1> DEFINE enabledIds == {m.id : m \in Enabled(inventory)}
           Of(i) == When(ids[i] \notin KnownIds(inventory), "monitoring-reference-not-found", 20)
                    \o When(ids[i] \in KnownIds(inventory) \ enabledIds, "monitoring-reference-disabled", 20)
           ss == [i \in DOMAIN ids |-> Of(i)]
<1>1. ASSUME NEW i \in DOMAIN ids
      PROVE  Of(i) \in Seq(Found)
  <2> DEFINE v == When(ids[i] \notin KnownIds(inventory), "monitoring-reference-not-found", 20)
             w == When(ids[i] \in KnownIds(inventory) \ enabledIds, "monitoring-reference-disabled", 20)
  <2>1. v \in Seq(Found) /\ w \in Seq(Found)
    BY WhenFound DEF OwnIds
  <2> HIDE DEF v, w
  <2>2. v \o w \in Seq(Found)
    BY <2>1
  <2>3. QED
    BY <2>2 DEF v, w
<1>2. ReferenceFindings(ids, inventory) = FlattenSeq(ss)
  BY DEF ReferenceFindings
<1> HIDE DEF Of
<1>3. ss \in Seq(Seq(Found))
  BY <1>1
<1>4. QED
  BY <1>2, <1>3, Flattened

\* The findings with their weights, and what they come to.
WeighedBy(fs, p) == [i \in DOMAIN fs |-> Weighted(fs[i], p)]

Sum(fs, p) == Total(WeighedBy(fs, p))

Weighs(p) == \A r : \A n \in Nat : Get(p, Weight(r), n) \in Nat

LEMMA WeighedFound ==
    ASSUME NEW p, Weighs(p), NEW fs \in Seq(Found)
    PROVE  WeighedBy(fs, p) \in Seq(Found) /\ Len(WeighedBy(fs, p)) = Len(fs)
           /\ \A i \in 1..Len(fs) : WeighedBy(fs, p)[i].score = Get(p, Weight(fs[i].id), fs[i].score)
<1>1. ASSUME NEW i \in DOMAIN fs
      PROVE  Weighted(fs[i], p) \in Found
             /\ Weighted(fs[i], p).score = Get(p, Weight(fs[i].id), fs[i].score)
  <2>0. fs[i] \in Found
    OBVIOUS
  <2>1. fs[i].id \in RuleIds /\ fs[i].score \in Nat
    BY <2>0 DEF Found
  <2>2. Get(p, Weight(fs[i].id), fs[i].score) \in Nat
    BY <2>1 DEF Weighs
  <2>3. QED
    BY <2>1, <2>2 DEF Weighted, Finding, Found
<1>2. DOMAIN fs = 1..Len(fs) /\ Len(fs) \in Nat
  OBVIOUS
<1>3. WeighedBy(fs, p) \in [1..Len(fs) -> Found]
  BY <1>1, <1>2 DEF WeighedBy
<1>4. QED
  BY <1>1, <1>2, <1>3 DEF WeighedBy

LEMMA SumJoins ==
    ASSUME NEW p, Weighs(p), NEW fs \in Seq(Found), NEW gs \in Seq(Found)
    PROVE  Sum(fs \o gs, p) = Sum(fs, p) + Sum(gs, p)
<1> DEFINE v == WeighedBy(fs, p)
           w == WeighedBy(gs, p)
           hs == fs \o gs
<1>1. v \in Seq(Found) /\ w \in Seq(Found) /\ Len(v) = Len(fs) /\ Len(w) = Len(gs)
  BY WeighedFound
<1>2. /\ DOMAIN hs = 1..(Len(fs) + Len(gs))
      /\ \A i \in 1..Len(fs) : hs[i] = fs[i]
      /\ \A i \in 1..(Len(fs) + Len(gs)) : i \notin 1..Len(fs) =>
             hs[i] = gs[i - Len(fs)] /\ i - Len(fs) \in 1..Len(gs)
  OBVIOUS
<1>3. /\ \A i \in 1..Len(fs) : v[i] = Weighted(fs[i], p)
      /\ \A i \in 1..Len(gs) : w[i] = Weighted(gs[i], p)
  BY DEF WeighedBy
<1> DEFINE vw == v \o w
           x == WeighedBy(hs, p)
<1>4. /\ vw \in Seq(Found) /\ Len(vw) = Len(v) + Len(w)
      /\ \A i \in 1..Len(v) : vw[i] = v[i]
      /\ \A i \in 1..(Len(v) + Len(w)) : i \notin 1..Len(v) => vw[i] = w[i - Len(v)]
  <2>1. v \in Seq(Found) /\ w \in Seq(Found)
    BY <1>1
  <2> HIDE DEF v, w
  <2>2. QED
    BY <2>1
<1>5. /\ x \in Seq(Found) /\ Len(x) = Len(fs) + Len(gs)
      /\ \A i \in 1..(Len(fs) + Len(gs)) : x[i] = Weighted(hs[i], p)
  <2>1. hs \in Seq(Found) /\ Len(hs) = Len(fs) + Len(gs)
    OBVIOUS
  <2> HIDE DEF hs
  <2>2. x \in Seq(Found) /\ Len(x) = Len(hs)
    BY <2>1, WeighedFound
  <2>3. \A i \in DOMAIN hs : x[i] = Weighted(hs[i], p)
    BY DEF WeighedBy
  <2>4. QED
    BY <1>2, <2>1, <2>2, <2>3
<1> HIDE DEF hs, v, w, vw, x
<1>6. x = vw
  <2>1. ASSUME NEW i \in 1..(Len(fs) + Len(gs))
        PROVE  x[i] = vw[i]
    <3>1. CASE i \in 1..Len(fs)
      BY <1>1, <1>2, <1>3, <1>4, <1>5, <3>1
    <3>2. CASE i \notin 1..Len(fs)
      <4>1. i - Len(fs) \in 1..Len(gs) /\ hs[i] = gs[i - Len(fs)]
        BY <1>2, <3>2
      <4>2. x[i] = Weighted(gs[i - Len(fs)], p) /\ w[i - Len(fs)] = Weighted(gs[i - Len(fs)], p)
        BY <1>3, <1>5, <4>1
      <4>3. vw[i] = w[i - Len(fs)]
        BY <1>1, <1>4, <3>2
      <4>4. QED
        BY <4>2, <4>3
    <3>3. QED
      BY <3>1, <3>2
  <2>2. Len(x) = Len(fs) + Len(gs) /\ Len(vw) = Len(fs) + Len(gs)
    BY <1>1, <1>4, <1>5
  <2>3. QED
    BY <1>4, <1>5, <2>1, <2>2, SeqEqual
<1>7. Total(vw) = Total(v) + Total(w)
  BY <1>1, FoundIsScored, TotalJoins DEF vw
<1>8. QED
  BY <1>6, <1>7 DEF Sum, hs, v, w, x

LEMMA SumGrows ==
    ASSUME NEW p, NEW q, Stricter(p, q), NEW fs \in Seq(Found), NEW gs \in Seq(Found),
           Len(fs) <= Len(gs), \A i \in 1..Len(fs) : fs[i] = gs[i]
    PROVE  Sum(fs, p) \in Nat /\ Sum(gs, q) \in Nat /\ Sum(fs, p) <= Sum(gs, q)
<1> DEFINE v == WeighedBy(fs, p)
           w == WeighedBy(gs, q)
<1>1. Weighs(p) /\ Weighs(q)
  BY DEF Weighs, Stricter
<1>2. /\ v \in Seq(Found) /\ Len(v) = Len(fs)
      /\ \A i \in 1..Len(fs) : v[i].score = Get(p, Weight(fs[i].id), fs[i].score)
  BY <1>1, WeighedFound
<1>3. /\ w \in Seq(Found) /\ Len(w) = Len(gs)
      /\ \A i \in 1..Len(gs) : w[i].score = Get(q, Weight(gs[i].id), gs[i].score)
  BY <1>1, WeighedFound
<1> HIDE DEF v, w
<1>4. ASSUME NEW i \in 1..Len(fs)
      PROVE  v[i].score <= w[i].score
  <2>1. i \in 1..Len(gs) /\ fs[i] = gs[i] /\ fs[i] \in Found
    OBVIOUS
  <2>2. fs[i].score \in Nat
    BY <2>1 DEF Found
  <2>3. Get(p, Weight(fs[i].id), fs[i].score) <= Get(q, Weight(fs[i].id), fs[i].score)
    BY <2>2 DEF Stricter
  <2>4. QED
    BY <1>2, <1>3, <2>1, <2>3
<1>5. Total(v) \in Nat /\ Total(w) \in Nat /\ Total(v) <= Total(w)
  BY <1>2, <1>3, <1>4, FoundIsScored, TotalGrows
<1>6. QED
  BY <1>5 DEF Sum, v, w

\* A number of equal findings.
LEMMA SameFound ==
    ASSUME NEW n \in Nat, NEW id \in OwnIds, NEW score \in Nat
    PROVE  [i \in 1..n |-> Finding(id, score)] \in Seq(Found)
           /\ Len([i \in 1..n |-> Finding(id, score)]) = n
<1> DEFINE x == Finding(id, score)
           s == [i \in 1..n |-> x]
<1>1. x \in Found
  BY OneFinding
<1> HIDE DEF x
<1>2. s \in Seq(Found) /\ Len(s) = n
  BY <1>1
<1>3. QED
  BY <1>2 DEF x

\* What the monitoring rules find without an inventory.
Dashboards(change, p) ==
    [i \in 1..(IF ValidationEnabled(change, NoInventory, p) THEN change.badDashboards ELSE 0) |->
        Finding("monitoring-invalid-dashboard-url", 15)]

Unmet(p) == When(0 < p[Minimum], "monitoring-insufficient-coverage", 25)

Absent(p) == [i \in 1..Cardinality(p[Providers]) |-> Finding("monitoring-required-provider-missing", 25)]

LEMMA WithoutInventory ==
    ASSUME NEW change, NEW p
    PROVE  MonitoringFindings(change, NoInventory, p)
               = Dashboards(change, p) \o ReferenceFindings(change.monitorIds, NoInventory)
                     \o Unmet(p) \o Absent(p)
<1>1. Enabled(NoInventory) = {}
  BY DEF Enabled
<1>2. {m.provider : m \in Enabled(NoInventory)} = {}
  BY <1>1
<1>3. p[Providers] \ {m.provider : m \in Enabled(NoInventory)} = p[Providers]
  BY <1>2
<1>4. Cardinality(Enabled(NoInventory)) = 0
  BY <1>1, FS_EmptySet
<1>5. QED
  BY <1>3, <1>4 DEF MonitoringFindings, Dashboards, Unmet, Absent

\* Each of the rules finds no less under the stricter policy, and what it finds
\* weighs no less.
LEMMA DashboardsGrow ==
    ASSUME NEW p, NEW q, Stricter(p, q), NEW change, change.badDashboards \in Nat
    PROVE  /\ Dashboards(change, p) \in Seq(Found) /\ Dashboards(change, q) \in Seq(Found)
           /\ Sum(Dashboards(change, p), p) \in Nat /\ Sum(Dashboards(change, q), q) \in Nat
           /\ Sum(Dashboards(change, p), p) <= Sum(Dashboards(change, q), q)
<1> DEFINE m == IF ValidationEnabled(change, NoInventory, p) THEN change.badDashboards ELSE 0
           n == IF ValidationEnabled(change, NoInventory, q) THEN change.badDashboards ELSE 0
           x == Finding("monitoring-invalid-dashboard-url", 15)
           fs == [i \in 1..m |-> x]
           gs == [i \in 1..n |-> x]
<1>1. ValidationEnabled(change, NoInventory, p) => ValidationEnabled(change, NoInventory, q)
  <2>1. /\ p[Minimum] \in Int /\ q[Minimum] \in Int /\ p[Minimum] <= q[Minimum]
        /\ p[Providers] \subseteq q[Providers]
    BY DEF Stricter
  <2>2. p[Minimum] > 0 => q[Minimum] > 0
    BY <2>1
  <2>3. p[Providers] # {} => q[Providers] # {}
    BY <2>1
  <2>4. QED
    BY <2>2, <2>3 DEF ValidationEnabled
<1>2. m \in Nat /\ n \in Nat /\ m <= n
  BY <1>1
<1>3. Dashboards(change, p) = fs /\ Dashboards(change, q) = gs
  BY DEF Dashboards
<1>4. "monitoring-invalid-dashboard-url" \in OwnIds
  BY DEF OwnIds
<1> HIDE DEF m, n
<1>5. fs \in Seq(Found) /\ Len(fs) = m /\ gs \in Seq(Found) /\ Len(gs) = n
  BY <1>2, <1>4, SameFound
<1>6. \A i \in 1..m : fs[i] = gs[i]
  BY <1>2
<1> HIDE DEF fs, gs
<1>7. Sum(fs, p) \in Nat /\ Sum(gs, q) \in Nat /\ Sum(fs, p) <= Sum(gs, q)
  BY <1>2, <1>5, <1>6, SumGrows
<1>8. QED
  BY <1>3, <1>5, <1>7

LEMMA UnmetGrows ==
    ASSUME NEW p, NEW q, Stricter(p, q)
    PROVE  /\ Unmet(p) \in Seq(Found) /\ Unmet(q) \in Seq(Found)
           /\ Sum(Unmet(p), p) \in Nat /\ Sum(Unmet(q), q) \in Nat
           /\ Sum(Unmet(p), p) <= Sum(Unmet(q), q)
<1>1. Unmet(p) \in Seq(Found) /\ Unmet(q) \in Seq(Found)
  BY WhenFound DEF Unmet, OwnIds
<1>2. p[Minimum] \in Int /\ q[Minimum] \in Int /\ p[Minimum] <= q[Minimum]
  BY DEF Stricter
<1>3. Unmet(p) = <<>> \/ Unmet(p) = Unmet(q)
  BY <1>2 DEF Unmet, When
<1>4. Len(Unmet(p)) <= Len(Unmet(q)) /\ \A i \in 1..Len(Unmet(p)) : Unmet(p)[i] = Unmet(q)[i]
  <2>1. CASE Unmet(p) = <<>>
    BY <1>1, <2>1, EmptySeq
  <2>2. CASE Unmet(p) = Unmet(q)
    BY <1>1, <2>2
  <2>3. QED
    BY <1>3, <2>1, <2>2
<1>5. QED
  BY <1>1, <1>4, SumGrows

LEMMA AbsentGrow ==
    ASSUME NEW p, NEW q, Stricter(p, q)
    PROVE  /\ Absent(p) \in Seq(Found) /\ Absent(q) \in Seq(Found)
           /\ Sum(Absent(p), p) \in Nat /\ Sum(Absent(q), q) \in Nat
           /\ Sum(Absent(p), p) <= Sum(Absent(q), q)
<1> DEFINE m == Cardinality(p[Providers])
           n == Cardinality(q[Providers])
           x == Finding("monitoring-required-provider-missing", 25)
           fs == [i \in 1..m |-> x]
           gs == [i \in 1..n |-> x]
<1>1. m \in Nat /\ n \in Nat /\ m <= n
  <2>1. IsFiniteSet(q[Providers]) /\ IsFiniteSet(p[Providers]) /\ p[Providers] \subseteq q[Providers]
    BY DEF Stricter
  <2>2. QED
    BY <2>1, FS_Subset, FS_CardinalityType
<1>2. Absent(p) = fs /\ Absent(q) = gs
  BY DEF Absent
<1>3. "monitoring-required-provider-missing" \in OwnIds
  BY DEF OwnIds
<1> HIDE DEF m, n
<1>4. fs \in Seq(Found) /\ Len(fs) = m /\ gs \in Seq(Found) /\ Len(gs) = n
  BY <1>1, <1>3, SameFound
<1>5. \A i \in 1..m : fs[i] = gs[i]
  BY <1>1
<1> HIDE DEF fs, gs
<1>6. Sum(fs, p) \in Nat /\ Sum(gs, q) \in Nat /\ Sum(fs, p) <= Sum(gs, q)
  BY <1>1, <1>4, <1>5, SumGrows
<1>7. QED
  BY <1>2, <1>4, <1>6

\* The same findings weigh no less.
LEMMA SameGrow ==
    ASSUME NEW p, NEW q, Stricter(p, q), NEW fs \in Seq(Found)
    PROVE  Sum(fs, p) \in Nat /\ Sum(fs, q) \in Nat /\ Sum(fs, p) <= Sum(fs, q)
<1>1. Len(fs) <= Len(fs) /\ \A i \in 1..Len(fs) : fs[i] = fs[i]
  OBVIOUS
<1>2. QED
  BY <1>1, SumGrows

\* And what is joined of parts that weigh no less weighs no less.
LEMMA JoinedGrow ==
    ASSUME NEW p, NEW q, Stricter(p, q),
           NEW f1 \in Seq(Found), NEW f2 \in Seq(Found), NEW g1 \in Seq(Found), NEW g2 \in Seq(Found),
           Sum(f1, p) \in Nat, Sum(g1, q) \in Nat, Sum(f1, p) <= Sum(g1, q),
           Sum(f2, p) \in Nat, Sum(g2, q) \in Nat, Sum(f2, p) <= Sum(g2, q)
    PROVE  /\ f1 \o f2 \in Seq(Found) /\ g1 \o g2 \in Seq(Found)
           /\ Sum(f1 \o f2, p) \in Nat /\ Sum(g1 \o g2, q) \in Nat
           /\ Sum(f1 \o f2, p) <= Sum(g1 \o g2, q)
<1>1. Weighs(p) /\ Weighs(q)
  BY DEF Weighs, Stricter
<1>2. Sum(f1 \o f2, p) = Sum(f1, p) + Sum(f2, p) /\ Sum(g1 \o g2, q) = Sum(g1, q) + Sum(g2, q)
  BY <1>1, SumJoins
<1>3. f1 \o f2 \in Seq(Found) /\ g1 \o g2 \in Seq(Found)
  OBVIOUS
<1>4. \A a, b, c, d \in Nat : a <= b /\ c <= d => a + c \in Nat /\ b + d \in Nat /\ a + c <= b + d
  OBVIOUS
<1>5. QED
  BY <1>2, <1>3, <1>4

LEMMA ScannedFound ==
    ASSUME NEW d \in Drafts
    PROVE  d.scanned \in Seq(Found)
<1>1. d.scanned \in Seq([id : STRING, score : Nat])
  BY DraftsAssumption
<1>2. ASSUME NEW i \in 1..Len(d.scanned)
      PROVE  d.scanned[i] \in Found
  <2>1. d.scanned[i] \in ToSet(d.scanned)
    BY <1>1 DEF ToSet
  <2>2. d.scanned[i].id \in RuleIds
    BY <2>1 DEF RuleIds
  <2>3. d.scanned[i] \in [id : STRING, score : Nat]
    BY <1>1, ElementOfSeq
  <2>4. QED
    BY <2>2, <2>3 DEF Found
<1>3. QED
  BY <1>1, <1>2

LEMMA FindingsGrow ==
    ASSUME NEW p, NEW q, Stricter(p, q), NEW d \in Drafts
    PROVE  LET fs == Findings(d.service, d.change, d.scanned, NoInventory, p)
               gs == Findings(d.service, d.change, d.scanned, NoInventory, q) IN
           Sum(fs, p) \in Nat /\ Sum(gs, q) \in Nat /\ Sum(fs, p) <= Sum(gs, q)
<1> DEFINE a == ServiceRules(d.service, d.change)
           s == d.scanned
           r == ReferenceFindings(d.change.monitorIds, NoInventory)
           d1 == Dashboards(d.change, p)
           d2 == Dashboards(d.change, q)
           u1 == Unmet(p)
           u2 == Unmet(q)
           n1 == Absent(p)
           n2 == Absent(q)
<1>1. a \in Seq(Found) /\ Sum(a, p) \in Nat /\ Sum(a, q) \in Nat /\ Sum(a, p) <= Sum(a, q)
  BY ServiceRulesFound, SameGrow
<1>2. s \in Seq(Found) /\ Sum(s, p) \in Nat /\ Sum(s, q) \in Nat /\ Sum(s, p) <= Sum(s, q)
  BY ScannedFound, SameGrow
<1>3. r \in Seq(Found) /\ Sum(r, p) \in Nat /\ Sum(r, q) \in Nat /\ Sum(r, p) <= Sum(r, q)
  BY DraftsAssumption, ReferencesFound, SameGrow
<1>4. /\ d1 \in Seq(Found) /\ d2 \in Seq(Found)
      /\ Sum(d1, p) \in Nat /\ Sum(d2, q) \in Nat /\ Sum(d1, p) <= Sum(d2, q)
  BY DraftsAssumption, DashboardsGrow
<1>5. /\ u1 \in Seq(Found) /\ u2 \in Seq(Found)
      /\ Sum(u1, p) \in Nat /\ Sum(u2, q) \in Nat /\ Sum(u1, p) <= Sum(u2, q)
  BY UnmetGrows
<1>6. /\ n1 \in Seq(Found) /\ n2 \in Seq(Found)
      /\ Sum(n1, p) \in Nat /\ Sum(n2, q) \in Nat /\ Sum(n1, p) <= Sum(n2, q)
  BY AbsentGrow
<1>7. /\ Findings(d.service, d.change, d.scanned, NoInventory, p) = (a \o s) \o (((d1 \o r) \o u1) \o n1)
      /\ Findings(d.service, d.change, d.scanned, NoInventory, q) = (a \o s) \o (((d2 \o r) \o u2) \o n2)
  BY WithoutInventory DEF Findings
<1> HIDE DEF a, s, r, d1, d2, u1, u2, n1, n2
<1> DEFINE v1 == d1 \o r
           v2 == d2 \o r
           w1 == v1 \o u1
           w2 == v2 \o u2
           x1 == w1 \o n1
           x2 == w2 \o n2
           z == a \o s
<1>8. z \in Seq(Found) /\ Sum(z, p) \in Nat /\ Sum(z, q) \in Nat /\ Sum(z, p) <= Sum(z, q)
  BY <1>1, <1>2, JoinedGrow
<1>9. /\ v1 \in Seq(Found) /\ v2 \in Seq(Found)
      /\ Sum(v1, p) \in Nat /\ Sum(v2, q) \in Nat /\ Sum(v1, p) <= Sum(v2, q)
  BY <1>3, <1>4, JoinedGrow
<1> HIDE DEF v1, v2, z
<1>10. /\ w1 \in Seq(Found) /\ w2 \in Seq(Found)
       /\ Sum(w1, p) \in Nat /\ Sum(w2, q) \in Nat /\ Sum(w1, p) <= Sum(w2, q)
  BY <1>5, <1>9, JoinedGrow
<1> HIDE DEF w1, w2
<1>11. /\ x1 \in Seq(Found) /\ x2 \in Seq(Found)
       /\ Sum(x1, p) \in Nat /\ Sum(x2, q) \in Nat /\ Sum(x1, p) <= Sum(x2, q)
  BY <1>6, <1>10, JoinedGrow
<1> HIDE DEF x1, x2
<1>12. Sum(z \o x1, p) \in Nat /\ Sum(z \o x2, q) \in Nat /\ Sum(z \o x1, p) <= Sum(z \o x2, q)
  BY <1>8, <1>11, JoinedGrow
<1>13. QED
  BY <1>7, <1>12 DEF z, x1, x2, w1, w2, v1, v2

-----------------------------------------------------------------------------
(* The declaration of weakenings *)

LEMMA MinOfTwo ==
    ASSUME NEW a \in Int, NEW b \in Int
    PROVE  Min({a, b}) = IF a <= b THEN a ELSE b
<1> DEFINE m == IF a <= b THEN a ELSE b
<1>1. m \in {a, b} /\ \A x \in {a, b} : m <= x
  OBVIOUS
<1>2. \A y \in {a, b} : (\A x \in {a, b} : y <= x) => y = m
  OBVIOUS
<1>3. QED
  BY <1>1, <1>2 DEF Min

\* A higher score under lower thresholds is no lower a level.
LEMMA LevelGrows ==
    ASSUME NEW p, NEW q, Stricter(p, q), NEW s \in Nat, NEW t \in Nat, s <= t
    PROVE  ~(LevelRank[Level(t, q)] < LevelRank[Level(s, p)])
<1> DEFINE p1 == p[Threshold("low")]
           p2 == p[Threshold("medium")]
           p3 == p[Threshold("high")]
           q1 == q[Threshold("low")]
           q2 == q[Threshold("medium")]
           q3 == q[Threshold("high")]
<1>1. /\ p1 \in Int /\ q1 \in Int /\ q1 <= p1
      /\ p2 \in Int /\ q2 \in Int /\ q2 <= p2
      /\ p3 \in Int /\ q3 \in Int /\ q3 <= p3
  BY DEF Stricter, Levels
<1>2. /\ Level(s, p) = IF s <= p1 THEN "LOW" ELSE IF s <= p2 THEN "MEDIUM"
                       ELSE IF s <= p3 THEN "HIGH" ELSE "CRITICAL"
      /\ Level(t, q) = IF t <= q1 THEN "LOW" ELSE IF t <= q2 THEN "MEDIUM"
                       ELSE IF t <= q3 THEN "HIGH" ELSE "CRITICAL"
  BY DEF Level
<1>3. /\ LevelRank["LOW"] = 0 /\ LevelRank["MEDIUM"] = 1
      /\ LevelRank["HIGH"] = 2 /\ LevelRank["CRITICAL"] = 3
  BY DEF LevelRank
<1> HIDE DEF p1, p2, p3, q1, q2, q3
<1>4. (t <= q1 => s <= p1) /\ (t <= q2 => s <= p2) /\ (t <= q3 => s <= p3)
  BY <1>1
<1> DEFINE j == LevelRank[Level(s, p)]
           k == LevelRank[Level(t, q)]
<1>5. /\ j = IF s <= p1 THEN 0 ELSE IF s <= p2 THEN 1 ELSE IF s <= p3 THEN 2 ELSE 3
      /\ k = IF t <= q1 THEN 0 ELSE IF t <= q2 THEN 1 ELSE IF t <= q3 THEN 2 ELSE 3
  BY <1>2, <1>3
<1> HIDE DEF j, k
<1>6. ~(k < j)
  BY <1>4, <1>5
<1>7. QED
  BY <1>6 DEF j, k

\* What a simulation says of a draft under one policy.
LEMMA SimulatedIs ==
    ASSUME NEW d \in Drafts, NEW b
    PROVE  LET p == Resolve(b, PolicyContext(d))
               s == Min({100, Sum(Findings(d.service, d.change, d.scanned, NoInventory, p), p)}) IN
           Simulated(d, b).score = s /\ Simulated(d, b).level = Level(s, p)
<1> DEFINE m == [d EXCEPT !.inventory = NoInventory]
           p == Resolve(b, PolicyContext(d))
           fs == Findings(d.service, d.change, d.scanned, NoInventory, p)
           s == Min({100, Sum(fs, p)})
<1>1. m.service = d.service /\ m.change = d.change /\ m.scanned = d.scanned /\ m.inventory = NoInventory
  BY DraftsAssumption
<1> HIDE DEF m
<1>2. Resolve(b, PolicyContext(m)) = p
  BY <1>1 DEF PolicyContext
<1>3. FindingsOf(m, p) = fs
  BY <1>1 DEF FindingsOf
<1> HIDE DEF p, fs
<1> DEFINE rules == [i \in DOMAIN fs |-> Weighted(fs[i], p)]
<1>4. Score(rules) = s
  BY DEF Score, Sum, WeighedBy
<1>5. /\ AssessRisk(m, b, 0).score = Score(rules)
      /\ AssessRisk(m, b, 0).level = Level(Score(rules), p)
  BY <1>2, <1>3 DEF AssessRisk
<1>6. QED
  BY <1>4, <1>5 DEF Simulated, m, p, fs

LEMMA StricterIsNotLower ==
    ASSUME NEW d \in Drafts, NEW b, NEW c,
           Stricter(Resolve(b, PolicyContext(d)), Resolve(c, PolicyContext(d)))
    PROVE  /\ ~(Simulated(d, c).score < Simulated(d, b).score)
           /\ ~(LevelRank[Simulated(d, c).level] < LevelRank[Simulated(d, b).level])
<1> DEFINE p == Resolve(b, PolicyContext(d))
           q == Resolve(c, PolicyContext(d))
           x == Sum(Findings(d.service, d.change, d.scanned, NoInventory, p), p)
           y == Sum(Findings(d.service, d.change, d.scanned, NoInventory, q), q)
           s == Min({100, x})
           t == Min({100, y})
<1>1. /\ Simulated(d, b).score = s /\ Simulated(d, b).level = Level(s, p)
      /\ Simulated(d, c).score = t /\ Simulated(d, c).level = Level(t, q)
  BY SimulatedIs
<1>2. Stricter(p, q)
  OBVIOUS
<1> HIDE DEF p, q
<1>3. x \in Nat /\ y \in Nat /\ x <= y
  BY <1>2, FindingsGrow
<1> HIDE DEF x, y
<1>4. s = (IF 100 <= x THEN 100 ELSE x) /\ t = (IF 100 <= y THEN 100 ELSE y)
  BY <1>3, MinOfTwo
<1>5. s \in Nat /\ t \in Nat /\ s <= t
  BY <1>3, <1>4
<1> HIDE DEF s, t
<1>6. ~(LevelRank[Level(t, q)] < LevelRank[Level(s, p)])
  BY <1>2, <1>5, LevelGrows
<1>7. QED
  BY <1>1, <1>5, <1>6

\* A candidate under which the change scores lower, or reaches a lower level, is
\* called a weakening unless it gives weights to rules that had none: of what
\* raises a score, the diff misses nothing (policy_governance.py:460).
THEOREM WeakeningsAreDeclared == Spec => []WeakeningIsDeclared
<1>1. GovernedInv => WeakeningIsDeclared
  <2> SUFFICES ASSUME GovernedInv, simulation # Nothing, simulation.added = {},
                      ~simulation.weakening, Lowered(simulation)
               PROVE  FALSE
    BY DEF WeakeningIsDeclared
  <2>1. PICK b \in Bundles, c \in Bundles, d \in Drafts : SimulationOf(b, c, d)
    BY DEF GovernedInv
  <2> DEFINE context == PolicyContext(d)
             changes == PolicyDiff(b, c, context)
  <2>2. /\ simulation.weakening = Weakening(changes)
        /\ simulation.added = {x.field : x \in {y \in changes : y.direction = "added"}}
    BY <2>1 DEF SimulationOf
  <2>3. Tightened(changes)
    <3> HIDE DEF changes
    <3>1. {y \in changes : y.direction = "added"} = {}
      BY <2>2
    <3>2. QED
      BY <2>2, <3>1 DEF Tightened, Weakening
  <2>4. WellFormed(b) /\ WellFormed(c)
    BY <2>1 DEF SimulationOf, Simulable
  <2>5. Stricter(Resolve(b, context), Resolve(c, context))
    BY <2>3, <2>4, NoWeakeningIsStricter
  <2>6. /\ ~(Simulated(d, c).score < Simulated(d, b).score)
        /\ ~(LevelRank[Simulated(d, c).level] < LevelRank[Simulated(d, b).level])
    BY <2>5, StricterIsNotLower
  <2>7. /\ simulation.after.score = Simulated(d, c).score /\ simulation.after.level = Simulated(d, c).level
        /\ simulation.before.score = Simulated(d, b).score /\ simulation.before.level = Simulated(d, b).level
    BY <2>1 DEF SimulationOf
  <2>8. QED
    BY <2>6, <2>7 DEF Lowered
<1>2. QED
  BY <1>1, Invariance, PTL DEF Spec

-----------------------------------------------------------------------------
(* What lists contain *)

\* A sequence is a list of what it contains.
LEMMA ListOf ==
    ASSUME NEW X, NEW s \in Seq(X)
    PROVE  /\ List(s) /\ ToSet(s) \subseteq X
           /\ Len(s) \in Nat /\ DOMAIN s = 1..Len(s)
<1>1. Len(s) \in Nat /\ DOMAIN s = 1..Len(s) /\ \A i \in 1..Len(s) : s[i] \in X
  BY ElementOfSeq, LenProperties
<1>2. \A i \in 1..Len(s) : s[i] \in ToSet(s)
  BY <1>1 DEF ToSet
<1>3. s \in Seq(ToSet(s))
  BY <1>1, <1>2
<1>4. QED
  BY <1>1, <1>3 DEF List, ToSet

\* A list of what stands at the places from 1 on.
LEMMA ListFrom ==
    ASSUME NEW n \in Nat, NEW s, DOMAIN s = 1..n, s = [i \in 1..n |-> s[i]]
    PROVE  List(s) /\ Len(s) = n
<1>1. \A i \in 1..n : s[i] \in ToSet(s)
  BY DEF ToSet
<1>2. s \in Seq(ToSet(s))
  BY <1>1, IsASeq
<1>3. QED
  BY <1>2, LenProperties DEF List

\* Of two lists one makes one, which has the elements of both.
LEMMA ListsJoin ==
    ASSUME NEW s, NEW t, List(s), List(t)
    PROVE  /\ List(s \o t) /\ ToSet(s \o t) = ToSet(s) \cup ToSet(t)
           /\ DOMAIN s = 1..Len(s) /\ DOMAIN t = 1..Len(t) /\ Len(s) \in Nat /\ Len(t) \in Nat
           /\ DOMAIN (s \o t) = 1..(Len(s) + Len(t))
           /\ \A i \in 1..Len(s) : (s \o t)[i] = s[i]
           /\ \A j \in 1..Len(t) : (s \o t)[Len(s) + j] = t[j]
<1> DEFINE X == ToSet(s) \cup ToSet(t)
<1>1. s \in Seq(X) /\ t \in Seq(X)
  <2>1. /\ Len(s) \in Nat /\ DOMAIN s = 1..Len(s) /\ Len(t) \in Nat /\ DOMAIN t = 1..Len(t)
        /\ s \in Seq(ToSet(s)) /\ t \in Seq(ToSet(t))
    BY ListOf DEF List
  <2>2. ToSet(s) \subseteq X /\ ToSet(t) \subseteq X
    OBVIOUS
  <2> HIDE DEF X
  <2>3. QED
    BY <2>1, <2>2
<1> HIDE DEF X
<1>2. /\ DOMAIN s = 1..Len(s) /\ DOMAIN t = 1..Len(t) /\ Len(s) \in Nat /\ Len(t) \in Nat
      /\ s \o t \in Seq(X) /\ Len(s \o t) = Len(s) + Len(t)
      /\ \A i \in 1..Len(s) : (s \o t)[i] = s[i]
  BY <1>1, LenProperties, ConcatProperties
<1>3. DOMAIN (s \o t) = 1..(Len(s) + Len(t))
  BY <1>2, LenProperties
<1>4. \A j \in 1..Len(t) : (s \o t)[Len(s) + j] = t[j]
  <2> TAKE j \in 1..Len(t)
  <2>1. Len(s) + j \in 1..(Len(s) + Len(t)) /\ ~(Len(s) + j <= Len(s)) /\ (Len(s) + j) - Len(s) = j
    BY <1>2
  <2>2. QED
    BY <1>1, <1>2, <2>1, ConcatProperties
<1> DEFINE u == s \o t
<1>5. ToSet(u) \subseteq ToSet(s) \cup ToSet(t)
  <2> SUFFICES ASSUME NEW x \in ToSet(u) PROVE x \in ToSet(s) \cup ToSet(t)
    OBVIOUS
  <2>1. PICK k \in 1..(Len(s) + Len(t)) : x = u[k]
    BY <1>3 DEF ToSet
  <2>2. CASE k <= Len(s)
    <3>1. k \in 1..Len(s)
      BY <1>2, <2>1, <2>2
    <3>2. QED
      BY <1>2, <2>1, <3>1 DEF ToSet
  <2>3. CASE ~(k <= Len(s))
    <3>1. k - Len(s) \in 1..Len(t) /\ Len(s) + (k - Len(s)) = k
      BY <1>2, <2>1, <2>3
    <3>2. x = t[k - Len(s)]
      BY <1>4, <2>1, <3>1
    <3>3. QED
      BY <1>2, <3>1, <3>2 DEF ToSet
  <2>4. QED
    BY <2>2, <2>3
<1>6. ToSet(s) \cup ToSet(t) \subseteq ToSet(u)
  <2>1. ASSUME NEW i \in 1..Len(s) PROVE s[i] \in ToSet(u)
    <3>1. i \in 1..(Len(s) + Len(t))
      BY <1>2
    <3>2. QED
      BY <1>2, <1>3, <3>1 DEF ToSet
  <2>2. ASSUME NEW j \in 1..Len(t) PROVE t[j] \in ToSet(u)
    <3>1. Len(s) + j \in 1..(Len(s) + Len(t))
      BY <1>2
    <3>2. QED
      BY <1>3, <1>4, <3>1 DEF ToSet
  <2>3. QED
    BY <1>2, <2>1, <2>2 DEF ToSet
<1>7. List(u)
  BY <1>2, ListOf
<1>8. QED
  BY <1>2, <1>3, <1>4, <1>5, <1>6, <1>7

\* One part stands in another list without a gap.
Within(part, s) ==
    \E k \in Nat : \A j \in DOMAIN part : k + j \in DOMAIN s /\ s[k + j] = part[j]

\* Concatenation breaks no part up.
LEMMA WithinJoin ==
    ASSUME NEW s, NEW t, List(s), List(t)
    PROVE  /\ \A part : Within(part, s) => Within(part, s \o t)
           /\ Within(t, s \o t)
<1> DEFINE u == s \o t
<1>1. /\ DOMAIN s = 1..Len(s) /\ DOMAIN t = 1..Len(t) /\ Len(s) \in Nat /\ Len(t) \in Nat
      /\ DOMAIN u = 1..(Len(s) + Len(t))
      /\ \A i \in 1..Len(s) : u[i] = s[i]
      /\ \A j \in 1..Len(t) : u[Len(s) + j] = t[j]
  BY ListsJoin
<1> HIDE DEF u
<1>2. ASSUME NEW part, Within(part, s) PROVE Within(part, u)
  <2>1. \A i \in DOMAIN s : i \in DOMAIN u /\ u[i] = s[i]
    BY <1>1
  <2>2. QED
    BY <1>2, <2>1 DEF Within
<1>3. Within(t, u)
  <2>1. \A j \in DOMAIN t : Len(s) + j \in DOMAIN u /\ u[Len(s) + j] = t[j]
    BY <1>1
  <2>2. QED
    BY <1>1, <2>1 DEF Within
<1>4. QED
  BY <1>2, <1>3 DEF u

\* Of what is joined, each part is kept whole, and nothing else comes with them.
LEMMA FlattenedLists ==
    ASSUME NEW n \in Nat, NEW ss, ss = [i \in 1..n |-> ss[i]], \A i \in 1..n : List(ss[i])
    PROVE  /\ List(FlattenSeq(ss))
           /\ ToSet(FlattenSeq(ss)) = UNION {ToSet(ss[i]) : i \in 1..n}
           /\ \A i \in 1..n : Within(ss[i], FlattenSeq(ss))
<1> DEFINE X == UNION {ToSet(ss[i]) : i \in 1..n}
<1>1. DOMAIN ss = 1..n
  OBVIOUS
<1>2. \A i \in 1..n : ss[i] \in Seq(X)
  <2> SUFFICES ASSUME NEW i \in 1..n PROVE ss[i] \in Seq(X)
    OBVIOUS
  <2>1. ToSet(ss[i]) \subseteq X /\ ss[i] \in Seq(ToSet(ss[i]))
    BY DEF List
  <2> HIDE DEF X
  <2>2. QED
    BY <2>1
<1> HIDE DEF X
<1>3. ss \in Seq(Seq(X)) /\ Len(ss) = n
  <2>1. ss \in Seq(Seq(X))
    BY <1>2, IsASeq
  <2>2. QED
    BY <1>1, <2>1, LenProperties
<1>4. PICK G \in [0..n -> Seq(X)] :
          G[0] = <<>> /\ (\A i \in 1..n : G[i] = G[i - 1] \o ss[i]) /\ FlattenSeq(ss) = G[n]
  BY <1>3, Flattening DEF JoinedUp
<1> DEFINE Whole(k) == /\ ToSet(G[k]) = UNION {ToSet(ss[i]) : i \in 1..k}
                       /\ \A i \in 1..k : Within(ss[i], G[k])
           T == {k \in 0..n : Whole(k)}
<1>5. 0 \in T
  <2>1. 1..0 = {} /\ 0 \in 0..n
    OBVIOUS
  <2>2. ToSet(G[0]) = {}
    BY <1>4 DEF ToSet
  <2>3. QED
    BY <2>1, <2>2
<1>6. ASSUME NEW k \in 1..n, k - 1 \in T
      PROVE  k \in T
  <2>1. k - 1 \in 0..n /\ k \in 0..n /\ 1..k = (1..(k - 1)) \cup {k}
    OBVIOUS
  <2>2. Whole(k - 1)
    BY <1>6
  <2>3. G[k] = G[k - 1] \o ss[k] /\ List(G[k - 1]) /\ List(ss[k])
    <3>1. G[k - 1] \in Seq(X)
      BY <1>4, <2>1
    <3>2. QED
      BY <1>4, <3>1, ListOf
  <2> DEFINE g == G[k - 1]
  <2>4. /\ ToSet(G[k]) = ToSet(g) \cup ToSet(ss[k])
        /\ \A part : Within(part, g) => Within(part, G[k])
        /\ Within(ss[k], G[k])
    <3> HIDE DEF g
    <3>1. QED
      BY <2>3, ListsJoin, WithinJoin DEF g
  <2>5. Whole(k)
    BY <2>1, <2>2, <2>4
  <2> HIDE DEF Whole
  <2>6. QED
    BY <2>1, <2>5
<1>7. Whole(n)
  <2> HIDE DEF Whole
  <2>1. n \in 0..n
    OBVIOUS
  <2> HIDE DEF T
  <2>2. n \in T
    BY <1>5, <1>6, <2>1, IntervalInduction
  <2>3. QED
    BY <2>2 DEF T
<1>8. G[n] \in Seq(X)
  BY <1>4
<1>9. List(G[n])
  BY <1>8, ListOf
<1>10. QED
  BY <1>4, <1>7, <1>9

-----------------------------------------------------------------------------
(* What sorting keeps *)

\* Sorting is a permutation: nothing is lost and nothing added.
LEMMA SortedKeeps ==
    ASSUME NEW s, List(s), NEW field, \A i \in DOMAIN s : s[i][field] \in Int
    PROVE  List(SortedBy(s, field)) /\ ToSet(SortedBy(s, field)) = ToSet(s)
<1> DEFINE n == Len(s)
           Entry(i) == [id |-> i, priority |-> s[i][field]]
           S == {Entry(i) : i \in 1..n}
           Good(p) == /\ IsInjective(p)
                      /\ \A i, j \in DOMAIN s : i < j =>
                             \/ s[p[i]][field] < s[p[j]][field]
                             \/ s[p[i]][field] = s[p[j]][field] /\ p[i] < p[j]
<1>1. n \in Nat /\ DOMAIN s = 1..n
  BY ListOf DEF List
<1> HIDE DEF n
<1>2. IsFiniteSet(1..n) /\ Cardinality(1..n) = n
  <2>1. IsFiniteSet(1..n) /\ Cardinality(1..n) = IF 1 > n THEN 0 ELSE n - 1 + 1
    BY <1>1, FS_Interval
  <2>2. QED
    BY <1>1, <2>1
<1>3. IsFiniteSet(S) /\ Cardinality(S) = n
  <2> DEFINE f == [i \in 1..n |-> Entry(i)]
  <2>1. \A i, j \in 1..n : f[i] = f[j] => i = j
    <3> TAKE i, j \in 1..n
    <3>1. f[i].id = i /\ f[j].id = j
      OBVIOUS
    <3>2. QED
      BY <3>1
  <2>2. f \in Bijection(1..n, S)
    <3>1. f \in [1..n -> S] /\ \A x \in S : \E i \in 1..n : f[i] = x
      OBVIOUS
    <3> HIDE DEF f, S
    <3>2. f \in Injection(1..n, S)
      BY <2>1, <3>1 DEF Injection, IsInjective
    <3>3. f \in Surjection(1..n, S)
      BY <3>1 DEF Surjection
    <3>4. QED
      BY <3>2, <3>3 DEF Bijection
  <2> HIDE DEF f, S
  <2>3. ExistsBijection(1..n, S)
    BY <2>2 DEF ExistsBijection
  <2>4. QED
    BY <1>2, <2>3, FS_Bijection
<1>4. PICK t \in [1..n -> S] : Sorted(t)
  <2>1. Ordered(S)
    BY <1>1 DEF Ordered
  <2> HIDE DEF S
  <2>2. QED
    BY <1>3, <2>1, OrderExists
<1> DEFINE p == [i \in 1..n |-> t[i].id]
<1>5. \A i \in 1..n : p[i] \in 1..n /\ t[i] = Entry(p[i])
  <2> TAKE i \in 1..n
  <2>1. t[i] \in S
    BY <1>4
  <2>2. PICK j \in 1..n : t[i] = Entry(j)
    BY <2>1
  <2>3. t[i].id = j
    BY <2>2
  <2>4. QED
    BY <2>2, <2>3
<1>6. p \in [1..n -> 1..n]
  BY <1>5
<1>7. \A i, j \in 1..n : p[i] = p[j] => i = j
  <2> TAKE i, j \in 1..n
  <2> HAVE p[i] = p[j]
  <2>1. t[i] = t[j]
    BY <1>5
  <2>2. QED
    BY <1>4, <2>1 DEF Sorted, IsInjective
<1>8. ASSUME NEW i \in 1..n, NEW j \in 1..n, i < j
      PROVE  \/ s[p[i]][field] < s[p[j]][field]
             \/ s[p[i]][field] = s[p[j]][field] /\ p[i] < p[j]
  <2>1. ~Before(t[j], t[i])
    BY <1>4, <1>8 DEF Sorted
  <2>2. /\ t[i].priority = s[p[i]][field] /\ t[j].priority = s[p[j]][field]
        /\ t[i].id = p[i] /\ t[j].id = p[j]
    <3>1. t[i] = Entry(p[i]) /\ t[j] = Entry(p[j])
      BY <1>5
    <3>2. QED
      BY <3>1
  <2>3. p[i] # p[j]
    <3>1. i # j
      BY <1>1, <1>8
    <3> HIDE DEF p
    <3>2. QED
      BY <1>7, <3>1
  <2>4. /\ p[i] \in 1..n /\ p[j] \in 1..n
        /\ s[p[i]][field] \in Int /\ s[p[j]][field] \in Int
    BY <1>1, <1>5
  <2> HIDE DEF p
  <2>5. QED
    BY <2>1, <2>2, <2>3, <2>4 DEF Before
<1> HIDE DEF p
<1>9. Good(p)
  BY <1>1, <1>6, <1>7, <1>8 DEF IsInjective
<1> DEFINE order == CHOOSE q \in [DOMAIN s -> DOMAIN s] : Good(q)
<1>10. order \in [1..n -> 1..n] /\ Good(order)
  <2> HIDE DEF Good
  <2>1. p \in [DOMAIN s -> DOMAIN s]
    BY <1>1, <1>6
  <2>2. order \in [DOMAIN s -> DOMAIN s] /\ Good(order)
    BY <1>9, <2>1
  <2>3. QED
    BY <1>1, <2>2
<1>11. SortedBy(s, field) = [i \in 1..n |-> s[order[i]]]
  BY <1>1 DEF SortedBy
<1>12. IsInjective(order)
  BY <1>10
<1> HIDE DEF order, Good
<1>13. \A k \in 1..n : \E i \in 1..n : order[i] = k
  <2>1. order \in Injection(1..n, 1..n)
    BY <1>10, <1>12 DEF Injection
  <2>2. order \in Surjection(1..n, 1..n)
    BY <1>2, <2>1, FS_Injection
  <2>3. QED
    BY <2>2 DEF Surjection
<1> DEFINE sorted == [i \in 1..n |-> s[order[i]]]
<1>14. List(sorted)
  <2>1. DOMAIN sorted = 1..n /\ sorted = [i \in 1..n |-> sorted[i]]
    OBVIOUS
  <2> HIDE DEF sorted
  <2>2. QED
    BY <1>1, <2>1, ListFrom
<1>15. ToSet(sorted) = ToSet(s)
  <2>1. ToSet(sorted) \subseteq ToSet(s)
    BY <1>1, <1>10 DEF ToSet
  <2>2. ASSUME NEW k \in 1..n PROVE s[k] \in ToSet(sorted)
    BY <1>13 DEF ToSet
  <2>3. QED
    BY <1>1, <2>1, <2>2 DEF ToSet
<1>16. QED
  BY <1>11, <1>14, <1>15

-----------------------------------------------------------------------------
(* What the scanners find *)

\* Empty lists, lists of one and optional findings.
LEMMA SmallLists ==
    /\ List(<<>>) /\ ToSet(<<>>) = {}
    /\ \A x : List(<<x>>) /\ ToSet(<<x>>) = {x}
    /\ \A holds, id, score : List(When(holds, id, score))
<1>1. List(<<>>) /\ ToSet(<<>>) = {}
  BY DEF List, ToSet
<1>2. ASSUME NEW x PROVE List(<<x>>) /\ ToSet(<<x>>) = {x}
  <2>1. DOMAIN <<x>> = 1..1 /\ <<x>>[1] = x /\ \A i : i \in 1..1 <=> i = 1
    OBVIOUS
  <2>2. ToSet(<<x>>) = {x}
    BY <2>1 DEF ToSet
  <2>3. <<x>> \in Seq({x})
    OBVIOUS
  <2>4. QED
    BY <2>2, <2>3 DEF List
<1>3. \A holds, id, score : List(When(holds, id, score))
  BY <1>1, <1>2 DEF When
<1>4. QED
  BY <1>1, <1>2, <1>3

LEMMA Joins ==
    \A s, t : List(s) /\ List(t) => List(s \o t) /\ ToSet(s \o t) = ToSet(s) \cup ToSet(t)
BY ListsJoin

\* The findings of one resource are a list, as its attributes are finitely many.
LEMMA ResourceFindingsListed ==
    ASSUME NEW r, IsFiniteSet(r.after)
    PROVE  List(ResourceFindings(r))
<1> DEFINE d == DeleteFindings(r.actions)
           t == IF r.type \in DOMAIN ResourceRule THEN <<ResourceRule[r.type]>> ELSE <<>>
           n == Cardinality(PublicExposures(r))
           e == [i \in 1..n |-> Finding("terraform-public-exposure", 35)]
<1>1. List(d)
  BY SmallLists, Joins DEF DeleteFindings
<1>2. List(t)
  BY SmallLists
<1>3. List(e)
  <2>1. PublicExposures(r) \subseteq r.after
    BY DEF PublicExposures, Unmasked
  <2>2. n \in Nat
    BY <2>1, FS_Subset, FS_CardinalityType
  <2> HIDE DEF n
  <2>3. DOMAIN e = 1..n /\ e = [i \in 1..n |-> e[i]]
    OBVIOUS
  <2> HIDE DEF e
  <2>4. QED
    BY <2>2, <2>3, ListFrom
<1>4. ResourceFindings(r) = d \o (IF r.actions \in NonMutating THEN <<>> ELSE t \o e)
  BY DEF ResourceFindings
<1> HIDE DEF d, t, e
<1>5. List(t \o e) /\ List(<<>>)
  BY <1>2, <1>3, Joins, SmallLists
<1>6. List(IF r.actions \in NonMutating THEN <<>> ELSE t \o e)
  BY <1>5
<1>7. QED
  BY <1>1, <1>4, <1>6, Joins

LEMMA TerraformListed ==
    ASSUME NEW plan, PlanShape(plan), ScanTerraformJson(plan) # ScanError
    PROVE  List(ScanTerraformJson(plan))
<1> DEFINE sorted == ByAddress(plan.changes)
           n == Len(sorted)
           ss == [i \in DOMAIN sorted |-> ResourceFindings(sorted[i])]
<1>1. List(sorted) /\ ToSet(sorted) = ToSet(plan.changes)
  <2>1. \A i \in DOMAIN plan.changes : plan.changes[i]["address"] \in Int
    BY DEF PlanShape, ToSet
  <2>2. QED
    BY <2>1, SortedKeeps DEF ByAddress, PlanShape
<1>2. n \in Nat /\ DOMAIN sorted = 1..n
  BY <1>1, ListOf DEF List
<1>3. \A i \in 1..n : List(ResourceFindings(sorted[i]))
  <2> SUFFICES ASSUME NEW i \in 1..n PROVE List(ResourceFindings(sorted[i]))
    OBVIOUS
  <2> HIDE DEF n, sorted
  <2>1. sorted[i] \in ToSet(plan.changes)
    BY <1>1, <1>2 DEF ToSet
  <2>2. QED
    BY <2>1, ResourceFindingsListed DEF PlanShape
<1>4. ScanTerraformJson(plan) = FlattenSeq(ss)
  BY DEF ScanTerraformJson
<1> HIDE DEF n, sorted
<1>5. ss = [i \in 1..n |-> ss[i]] /\ \A i \in 1..n : List(ss[i])
  BY <1>2, <1>3
<1> HIDE DEF ss
<1>6. QED
  BY <1>2, <1>4, <1>5, FlattenedLists

LEMMA TextListed ==
    ASSUME NEW text
    PROVE  List(ScanTerraform(text))
<1> DEFINE ss == [i \in DOMAIN TextSignals |->
                      When(TextSignals[i][1] \in text, TextSignals[i][2], TextSignals[i][3])]
<1>1. DOMAIN TextSignals = 1..13
  BY DEF TextSignals
<1>2. ss = [i \in 1..13 |-> ss[i]] /\ \A i \in 1..13 : List(ss[i])
  BY <1>1, SmallLists
<1>3. ScanTerraform(text) = FlattenSeq(ss)
  BY DEF ScanTerraform
<1> HIDE DEF ss
<1>4. QED
  BY <1>2, <1>3, FlattenedLists

LEMMA ContainerFindingsListed ==
    ASSUME NEW kind, NEW c
    PROVE  List(ContainerFindings(kind, c))
BY SmallLists, Joins DEF ContainerFindings

LEMMA WorkloadFindingsListed ==
    ASSUME NEW o, List(o.containers)
    PROVE  List(WorkloadFindings(o))
<1> DEFINE n == Len(o.containers)
           ss == [i \in DOMAIN o.containers |-> ContainerFindings(o.kind, o.containers[i])]
           w == When(~\E c \in ToSet(o.containers) : c.app, "kubernetes-missing-containers", 20)
           h == HostFindings(o)
<1>1. n \in Nat /\ DOMAIN o.containers = 1..n
  BY ListOf DEF List
<1>2. ss = [i \in 1..n |-> ss[i]] /\ \A i \in 1..n : List(ss[i])
  BY <1>1, ContainerFindingsListed
<1>3. List(w) /\ List(h)
  BY SmallLists, Joins DEF HostFindings
<1>4. WorkloadFindings(o) = IF o.kind \notin Workloads THEN <<>> ELSE w \o FlattenSeq(ss) \o h
  BY DEF WorkloadFindings
<1> HIDE DEF ss, n, w, h
<1>5. List(FlattenSeq(ss))
  BY <1>1, <1>2, FlattenedLists
<1>6. List(w \o FlattenSeq(ss) \o h)
  BY <1>3, <1>5, Joins
<1>7. QED
  BY <1>4, <1>6, SmallLists

LEMMA ObjectFindingsListed ==
    ASSUME NEW o, List(o.containers)
    PROVE  List(ObjectFindings(o))
<1> DEFINE k == IF o.kind \in DOMAIN ObjectRule THEN <<ObjectRule[o.kind]>> ELSE <<>>
           s == IF o.kind = "service" THEN ServiceFindings(o) ELSE <<>>
           t == StrategyFindings(o)
           w == WorkloadFindings(o)
<1>1. List(k)
  BY SmallLists
<1>2. List(s)
  BY SmallLists, Joins DEF ServiceFindings
<1>3. List(t)
  BY SmallLists, Joins DEF StrategyFindings
<1>4. List(w)
  BY WorkloadFindingsListed
<1>5. ObjectFindings(o) = k \o s \o t \o w
  BY DEF ObjectFindings
<1> HIDE DEF k, s, t, w
<1>6. QED
  BY <1>1, <1>2, <1>3, <1>4, <1>5, Joins

\* The findings of a manifest that is accepted are those of its objects.
LEMMA KubernetesListed ==
    ASSUME NEW objects, ObjectsShape(objects), ValidManifest(objects)
    PROVE  /\ List(ScanKubernetes(objects))
           /\ ToSet(ScanKubernetes(objects)) = UNION {ToSet(ObjectFindings(o)) : o \in ToSet(objects)}
<1> DEFINE sorted == SortedBy(objects, "name")
           n == Len(sorted)
           ss == [i \in DOMAIN sorted |-> ObjectFindings(sorted[i])]
<1>1. List(sorted) /\ ToSet(sorted) = ToSet(objects)
  <2>1. \A i \in DOMAIN objects : objects[i]["name"] \in Int
    BY DEF ObjectsShape, ToSet
  <2>2. QED
    BY <2>1, SortedKeeps DEF ObjectsShape
<1>2. n \in Nat /\ DOMAIN sorted = 1..n
  BY <1>1, ListOf DEF List
<1>3. ScanKubernetes(objects) = FlattenSeq(ss)
  BY DEF ScanKubernetes
<1> HIDE DEF n, sorted
<1>4. \A i \in 1..n : sorted[i] \in ToSet(objects)
  BY <1>1, <1>2 DEF ToSet
<1>5. ss = [i \in 1..n |-> ss[i]] /\ \A i \in 1..n : ss[i] = ObjectFindings(sorted[i])
  BY <1>2
<1>6. \A i \in 1..n : List(ss[i])
  BY <1>4, <1>5, ObjectFindingsListed DEF ObjectsShape
<1> HIDE DEF ss
<1>7. List(FlattenSeq(ss)) /\ ToSet(FlattenSeq(ss)) = UNION {ToSet(ss[i]) : i \in 1..n}
  BY <1>2, <1>5, <1>6, FlattenedLists
<1>8. {ToSet(ss[i]) : i \in 1..n} = {ToSet(ObjectFindings(o)) : o \in ToSet(objects)}
  <2>1. ToSet(objects) = {sorted[i] : i \in 1..n}
    BY <1>1, <1>2 DEF ToSet
  <2>2. QED
    BY <1>5, <2>1
<1>9. QED
  BY <1>3, <1>7, <1>8

LEMMA Accepting ==
    ASSUME NEW objects, ScanKubernetes(objects) # ScanError
    PROVE  ValidManifest(objects)
BY DEF ScanKubernetes

\* A part of a manifest that is accepted is accepted, and nothing is found in it
\* that is not found in the whole.
LEMMA PartIsScanned ==
    ASSUME NEW objects, NEW part, ObjectsShape(objects), ObjectsShape(part), Within(part, objects),
           ScanKubernetes(objects) # ScanError
    PROVE  ToSet(ScanKubernetes(part)) \subseteq ToSet(ScanKubernetes(objects))
<1>1. ValidManifest(objects)
  BY Accepting
<1>2. PICK k \in Nat : \A j \in DOMAIN part : k + j \in DOMAIN objects /\ objects[k + j] = part[j]
  BY DEF Within
<1>3. DOMAIN part = 1..Len(part) /\ Len(part) \in Nat
  BY ListOf DEF ObjectsShape, List
<1>4. ValidManifest(part)
  <2>1. \A i \in DOMAIN part :
            BoundedObject(part[i]) /\ CompleteObject(part[i]) /\ NamedContainers(part[i])
    BY <1>1, <1>2 DEF ValidManifest
  <2>2. ASSUME NEW i \in DOMAIN part, NEW j \in DOMAIN part,
               ObjectIdentity(part[i]) = ObjectIdentity(part[j])
        PROVE  i = j
    <3>1. k + i = k + j
      BY <1>1, <1>2, <2>2 DEF ValidManifest
    <3>2. QED
      BY <1>3, <3>1
  <2>3. QED
    BY <2>1, <2>2 DEF ValidManifest
<1>5. ToSet(part) \subseteq ToSet(objects)
  BY <1>2 DEF ToSet
<1>6. QED
  BY <1>1, <1>4, <1>5, KubernetesListed

-----------------------------------------------------------------------------
(* What discovery finds *)

TreeShape(tree) ==
    \A n \in DOMAIN tree :
        /\ tree[n].type = "plan" => PlanShape(tree[n].plan)
        /\ ObjectsShape(tree[n].objects)

InputsShape(inputs) ==
    /\ inputs.plan # NoPlan => PlanShape(inputs.plan)
    /\ ObjectsShape(inputs.objects)

\* The library lists a finite set, every element once.
LEMMA SetIsListed ==
    ASSUME NEW S, IsFiniteSet(S)
    PROVE  /\ Cardinality(S) \in Nat /\ SetToSeq(S) \in [1..Cardinality(S) -> S]
           /\ \A x \in S : \E i \in 1..Cardinality(S) : SetToSeq(S)[i] = x
<1> DEFINE n == Cardinality(S)
           s == SetToSeq(S)
<1>1. n \in Nat /\ ExistsBijection(1..n, S)
  BY FS_CardinalityType
<1> HIDE DEF n
<1>2. PICK f : f \in Bijection(1..n, S)
  BY <1>1 DEF ExistsBijection
<1>3. f \in [1..n -> S] /\ IsInjective(f)
  BY <1>2 DEF Bijection, Injection
<1>4. s \in [1..n -> S] /\ IsInjective(s)
  BY <1>3 DEF SetToSeq, n
<1> HIDE DEF s
<1>5. IsFiniteSet(1..n) /\ Cardinality(1..n) = n
  <2>1. IsFiniteSet(1..n) /\ Cardinality(1..n) = IF 1 > n THEN 0 ELSE n - 1 + 1
    BY <1>1, FS_Interval
  <2>2. QED
    BY <1>1, <2>1
<1>6. s \in Injection(1..n, S)
  BY <1>4 DEF Injection
<1>7. s \in Surjection(1..n, S)
  BY <1>5, <1>6, FS_Injection DEF n
<1>8. QED
  BY <1>1, <1>4, <1>7 DEF Surjection, n, s

\* The text of all manifests has each of them as a part.
LEMMA JoinedShape ==
    ASSUME NEW M, IsFiniteSet(M), NEW tree, \A m \in M : ObjectsShape(tree[m].objects)
    PROVE  /\ ObjectsShape(Joined(M, tree))
           /\ \A m \in M : Within(tree[m].objects, Joined(M, tree))
<1> DEFINE n == Cardinality(M)
           list == SetToSeq(M)
           ss == [i \in DOMAIN list |-> tree[list[i]].objects]
<1>1. /\ n \in Nat /\ list \in [1..n -> M]
      /\ \A m \in M : \E i \in 1..n : list[i] = m
  BY SetIsListed
<1>2. Joined(M, tree) = FlattenSeq(ss)
  BY DEF Joined
<1> HIDE DEF n, list
<1>3. ss = [i \in 1..n |-> ss[i]] /\ \A i \in 1..n : ss[i] = tree[list[i]].objects /\ list[i] \in M
  BY <1>1
<1> HIDE DEF ss
<1>4. \A i \in 1..n : List(ss[i])
  BY <1>3 DEF ObjectsShape
<1> DEFINE f == FlattenSeq(ss)
<1>5. /\ List(f) /\ ToSet(f) = UNION {ToSet(ss[i]) : i \in 1..n}
      /\ \A i \in 1..n : Within(ss[i], f)
  BY <1>1, <1>3, <1>4, FlattenedLists
<1> HIDE DEF f
<1>6. ObjectsShape(f)
  <2> SUFFICES ASSUME NEW o \in ToSet(f) PROVE o.name \in Int /\ List(o.containers)
    BY <1>5 DEF ObjectsShape
  <2>1. PICK i \in 1..n : o \in ToSet(ss[i])
    BY <1>5
  <2>2. QED
    BY <1>3, <2>1 DEF ObjectsShape
<1>7. QED
  BY <1>1, <1>2, <1>3, <1>5, <1>6 DEF f

LEMMA NamesAreFinite ==
    ASSUME NEW s, List(s)
    PROVE  IsFiniteSet(ToSet(s))
<1>1. DOMAIN s = 1..Len(s) /\ Len(s) \in Nat
  BY ListOf DEF List
<1>2. IsFiniteSet(DOMAIN s)
  BY <1>1, FS_Interval
<1>3. s \in Surjection(DOMAIN s, ToSet(s))
  <2>1. s = [i \in DOMAIN s |-> s[i]]
    BY DEF List
  <2>2. s \in [DOMAIN s -> ToSet(s)]
    BY <2>1 DEF ToSet
  <2>3. QED
    BY <2>2 DEF Surjection, ToSet
<1>4. QED
  BY <1>2, <1>3, FS_Surjection

\* Of a kind that discovery does not know the scanner has nothing to say, but for
\* two.
LEMMA UnknownKinds ==
    ASSUME NEW o, o.kind \notin KubernetesKinds,
           o.kind \notin {"replicaset", "poddisruptionbudget"}
    PROVE  ObjectFindings(o) = <<>>
<1>1. \A id, score : When(FALSE, id, score) = <<>>
  BY DEF When
<1>2. <<>> \o <<>> = <<>>
  OBVIOUS
<1>3. o.kind \notin DOMAIN ObjectRule
  BY DEF ObjectRule, KubernetesKinds
<1>4. o.kind # "service"
  BY DEF KubernetesKinds
<1>5. WorkloadFindings(o) = <<>>
  BY DEF WorkloadFindings, Workloads, KubernetesKinds
<1>6. StrategyFindings(o) = <<>>
  <2> DEFINE k == o.kind
  <2>1. /\ (k \in {"deployment", "statefulset", "replicaset"} /\ o.replicas = "zero") = FALSE
        /\ (k = "deployment" /\ o.strategy = "Recreate") = FALSE
        /\ (k = "deployment" /\ o.maxUnavailable = "all") = FALSE
        /\ (k \in {"statefulset", "daemonset"} /\ o.strategy = "OnDelete") = FALSE
        /\ (k \in {"job", "cronjob"} /\ o.suspended) = FALSE
        /\ (k = "job" /\ o.parallelism = "zero") = FALSE
        /\ (k = "poddisruptionbudget" /\ o.maxUnavailable = "all") = FALSE
        /\ (k = "poddisruptionbudget" /\ o.minAvailable = "zero") = FALSE
    BY DEF KubernetesKinds
  <2>2. QED
    BY <1>1, <1>2, <2>1, Zenon DEF StrategyFindings
<1>7. QED
  BY <1>2, <1>3, <1>4, <1>5, <1>6 DEF ObjectFindings

\* One plan of the checkout is loaded, or the run warns, and every manifest of the
\* checkout is part of the text that is scanned; what is left out is listed
\* without the scanner it would be for.
LEMMA DiscoveryKeeps ==
    ASSUME NEW files, List(files), NEW tree, TreeShape(tree),
           LoadAuto(Classify(files, tree), tree) # ScanError
    PROVE  LET auto == LoadAuto(Classify(files, tree), tree) IN
           /\ InputsShape(auto)
           /\ \A name \in ToSet(files) \cap DOMAIN tree :
                  LET listed == Classify(files, tree).categories IN
                  /\ name \in DOMAIN listed
                  /\ tree[name].type = "plan" /\ name.form \in {"plan", "json"} =>
                         \/ auto.warned \/ auto.plan = tree[name].plan
                         \/ "terraform" \notin listed[name]
                  /\ tree[name].type = "manifest" /\ Yaml(name) =>
                         \/ Within(tree[name].objects, auto.objects)
                         \/ "kubernetes" \notin listed[name] /\ NothingFound(tree[name].objects)
<1> DEFINE scope == Classify(files, tree)
           plans == InCheckout(scope.plans, tree)
           manifests == InCheckout(scope.manifests, tree)
           plan == SelectPlan(plans, tree)
           auto == LoadAuto(scope, tree)
           warned == scope.warned \/ Cardinality(plans) > 1
<1>1. /\ plans = {n \in ToSet(files) \cap DOMAIN tree :
                     TerraformRelated(n) /\ LooksLikeTerraformPlan(n, tree)}
      /\ manifests = {n \in ToSet(files) \cap DOMAIN tree : LooksLikeKubernetes(n, tree)}
  BY DEF Classify, InCheckout
<1>2. /\ plan # ScanError
      /\ auto = [plan |-> plan, objects |-> Joined(manifests, tree),
                 warned |-> warned]
  BY DEF LoadAuto
<1>3. auto.plan = plan /\ auto.objects = Joined(manifests, tree) /\ (Cardinality(plans) > 1 => auto.warned)
  <2>1. Cardinality(plans) > 1 => warned
    OBVIOUS
  <2> HIDE DEF auto, plan, warned, manifests
  <2>2. auto.plan = plan /\ auto.objects = Joined(manifests, tree) /\ auto.warned = warned
    BY <1>2
  <2>3. QED
    BY <2>1, <2>2
<1> DEFINE listed == scope.categories
<1>0. listed = [n \in ToSet(files) |-> Categories(n, tree)]
  BY DEF Classify
<1> HIDE DEF auto, scope, manifests, listed
<1>4. IsFiniteSet(plans) /\ IsFiniteSet(manifests)
  <2>1. IsFiniteSet(ToSet(files))
    BY NamesAreFinite
  <2>2. plans \subseteq ToSet(files) /\ manifests \subseteq ToSet(files)
    BY <1>1
  <2>3. QED
    BY <2>1, <2>2, FS_Subset
<1>5. Cardinality(plans) \in Nat
  BY <1>4, FS_CardinalityType
<1> HIDE DEF plans
<1>6. /\ ObjectsShape(Joined(manifests, tree))
      /\ \A m \in manifests : Within(tree[m].objects, Joined(manifests, tree))
  <2>1. \A m \in manifests : ObjectsShape(tree[m].objects)
    BY <1>1 DEF TreeShape
  <2>2. QED
    BY <1>4, <2>1, JoinedShape
<1>7. ASSUME Cardinality(plans) = 1
      PROVE  /\ InputsShape(auto)
             /\ \A name \in plans : auto.warned \/ auto.plan = tree[name].plan
  <2> DEFINE n == CHOOSE m \in plans : TRUE
  <2>1. PICK p : plans = {p}
    BY <1>4, <1>7, FS_Singleton
  <2>2. n = p /\ p \in plans
    BY <2>1
  <2>3. plan = IF tree[p].type = "plan" THEN tree[p].plan ELSE ScanError
    BY <1>7, <2>2 DEF SelectPlan
  <2>4. tree[p].type = "plan" /\ plan = tree[p].plan /\ PlanShape(plan)
    BY <1>1, <1>2, <2>2, <2>3 DEF TreeShape
  <2>5. InputsShape(auto)
    BY <1>3, <1>6, <2>4 DEF InputsShape
  <2>6. \A name \in plans : auto.plan = tree[name].plan
    BY <1>3, <2>1, <2>4
  <2>7. QED
    BY <2>5, <2>6
<1>8. ASSUME Cardinality(plans) # 1
      PROVE  /\ InputsShape(auto)
             /\ \A name \in plans : auto.warned \/ auto.plan = tree[name].plan
  <2>1. plan = NoPlan
    BY <1>8 DEF SelectPlan
  <2>2. InputsShape(auto)
    BY <1>3, <1>6, <2>1 DEF InputsShape
  <2>3. \A name \in plans : auto.warned
    <3> TAKE name \in plans
    <3>1. Cardinality(plans) # 0
      BY <1>4, FS_EmptySet
    <3>2. QED
      BY <1>3, <1>5, <1>8, <3>1
  <2>4. QED
    BY <2>2, <2>3
<1>9. ASSUME NEW name \in ToSet(files) \cap DOMAIN tree,
             tree[name].type = "plan", name.form \in {"plan", "json"}, TerraformRelated(name)
      PROVE  name \in plans
  <2>1. LooksLikeTerraformPlan(name, tree)
    BY <1>9 DEF LooksLikeTerraformPlan, Unopened
  <2>2. QED
    BY <1>1, <1>9, <2>1
<1>10. ASSUME NEW name \in ToSet(files) \cap DOMAIN tree, Yaml(name), Manifest(tree[name])
       PROVE  Within(tree[name].objects, auto.objects)
  <2>1. LooksLikeKubernetes(name, tree)
    BY <1>10 DEF LooksLikeKubernetes, Unopened, Manifest
  <2>2. QED
    BY <1>1, <1>3, <1>6, <1>10, <2>1
<1>11. /\ InputsShape(auto)
       /\ \A name \in plans : auto.warned \/ auto.plan = tree[name].plan
  BY <1>7, <1>8
<1>12. ASSUME NEW name \in ToSet(files) \cap DOMAIN tree, ~TerraformRelated(name)
       PROVE  "terraform" \notin listed[name]
  BY <1>0, <1>12 DEF Categories
<1>13. ASSUME NEW name \in ToSet(files) \cap DOMAIN tree, tree[name].type = "manifest",
              ~Manifest(tree[name])
       PROVE  "kubernetes" \notin listed[name] /\ NothingFound(tree[name].objects)
  <2>1. ~LooksLikeKubernetes(name, tree)
    BY <1>13 DEF LooksLikeKubernetes, Unopened
  <2>2. "kubernetes" \notin listed[name]
    BY <1>0, <2>1 DEF Categories
  <2>3. \A o \in ToSet(tree[name].objects) : o.spelled => o.kind \notin KubernetesKinds
    BY <1>13 DEF Manifest
  <2>4. QED
    BY <2>2, <2>3, UnknownKinds DEF NothingFound
<1>14. ASSUME NEW name \in ToSet(files) \cap DOMAIN tree
       PROVE  /\ name \in DOMAIN listed
              /\ tree[name].type = "plan" /\ name.form \in {"plan", "json"} =>
                     \/ auto.warned \/ auto.plan = tree[name].plan
                     \/ "terraform" \notin listed[name]
              /\ tree[name].type = "manifest" /\ Yaml(name) =>
                     \/ Within(tree[name].objects, auto.objects)
                     \/ "kubernetes" \notin listed[name] /\ NothingFound(tree[name].objects)
  BY <1>0, <1>9, <1>10, <1>11, <1>12, <1>13
<1>15. QED
  BY <1>11, <1>14 DEF auto, scope, listed

\* What is scanned is a list, in which everything shows that the scanners find in
\* the inputs that are taken.
LEMMA ScanShows ==
    ASSUME NEW auto, InputsShape(auto), NEW explicit, InputsShape(explicit),
           Scanned(auto, explicit) # ScanError
    PROVE  LET plan    == IF explicit.plan # NoPlan THEN explicit.plan ELSE auto.plan
               objects == IF explicit.objects # <<>> THEN explicit.objects ELSE auto.objects
               scanned == Scanned(auto, explicit) IN
           /\ List(scanned)
           /\ plan # NoPlan => ToSet(ScanTerraformJson(plan)) \subseteq ToSet(scanned)
           /\ ScanKubernetes(objects) # ScanError /\ ToSet(ScanKubernetes(objects)) \subseteq ToSet(scanned)
<1> DEFINE plan == IF explicit.plan # NoPlan THEN explicit.plan ELSE auto.plan
           objects == IF explicit.objects # <<>> THEN explicit.objects ELSE auto.objects
           structure == IF plan = NoPlan THEN <<>> ELSE ScanTerraformJson(plan)
           manifests == ScanKubernetes(objects)
           text == ScanTerraform(explicit.text)
<1>1. (plan # NoPlan => PlanShape(plan)) /\ ObjectsShape(objects)
  BY DEF InputsShape
<1> HIDE DEF plan, objects
<1>2. /\ structure # ScanError /\ manifests # ScanError
      /\ Scanned(auto, explicit) = text \o structure \o manifests
  BY DEF Scanned, plan, objects
<1>3. List(structure)
  BY <1>1, <1>2, TerraformListed, SmallLists
<1>4. List(manifests)
  BY <1>1, <1>2, Accepting, KubernetesListed
<1>5. List(text)
  BY TextListed
<1> HIDE DEF structure, text
<1>6. /\ List(text \o structure \o manifests)
      /\ ToSet(text \o structure \o manifests) = ToSet(text) \cup ToSet(structure) \cup ToSet(manifests)
  BY <1>3, <1>4, <1>5, Joins
<1>7. QED
  BY <1>2, <1>6 DEF plan, objects, structure

-----------------------------------------------------------------------------
(* The pages, the manifest and what a run makes of it *)

\* Of the pull request that all pages were of, the files of the pages so far.
PagesKept ==
    fetch # Nothing =>
        /\ fetch.page \in Nat \ {0} /\ List(fetch.files)
        /\ fetch.from # Nothing =>
               /\ List(fetch.from)
               /\ \A i \in DOMAIN fetch.from :
                      i <= (fetch.page - 1) * PerPage => fetch.from[i] \in ToSet(fetch.files)

FilesKept(m) ==
    m # Nothing => List(m.files) /\ (m.from # Nothing => ToSet(m.from) \subseteq ToSet(m.files))

DiscoveredFrom(m, tree) == IF m = Nothing THEN NoAuto ELSE LoadAuto(Classify(m.files, tree), tree)

\* What was given is a draft with the findings in what discovery and the command
\* line name.
RunOn(g, d) ==
    LET auto == DiscoveredFrom(g.manifest, d.tree) IN
    /\ auto # ScanError /\ Scanned(auto, g.explicit) # ScanError
    /\ g.draft = [d EXCEPT !.scanned = Scanned(auto, g.explicit)]
    /\ g.warned = auto.warned
    /\ g.manifest # Nothing => g.scope = Classify(g.manifest.files, d.tree)

DiscoveryInv ==
    /\ PagesKept /\ FilesKept(manifest)
    /\ report # Nothing \/ given # Nothing =>
           /\ FilesKept(given.manifest) /\ given.explicit \in Explicit
           /\ \E d \in Drafts : RunOn(given, d)

\* A page has the files up to the next one, and a short page those up to the end.
LEMMA PageHolds ==
    ASSUME NEW n \in Nat \ {0}, List(draft.pull)
    PROVE  /\ List(Page(n))
           /\ \A i \in DOMAIN draft.pull :
                  (n - 1) * PerPage < i /\ (i <= n * PerPage \/ LastPage(Page(n))) =>
                      draft.pull[i] \in ToSet(Page(n))
           /\ ((n + 1) - 1) * PerPage = n * PerPage
<1> DEFINE pull == draft.pull
           L == Len(pull)
           k == (n - 1) * PerPage
           b == IF k + PerPage <= L THEN k + PerPage ELSE L
           page == SubSeq(pull, k + 1, b)
<1>1. PerPage \in Nat /\ PerPage > 0
  BY PagesAssumption
<1>2. k \in Nat /\ n * PerPage = k + PerPage
  <2>1. n - 1 \in Nat
    OBVIOUS
  <2>2. k \in Nat
    BY <1>1, <2>1
  <2>3. n * PerPage = (n - 1) * PerPage + PerPage
    BY <1>1
  <2>4. QED
    BY <2>2, <2>3
<1>3. L \in Nat /\ DOMAIN pull = 1..L /\ pull \in Seq(ToSet(pull))
  BY ListOf DEF List
<1> HIDE DEF k, L, pull
<1>4. b \in Int /\ b <= L /\ b <= k + PerPage
  BY <1>1, <1>2, <1>3
<1>5. Page(n) = page
  <2>1. Min({k + PerPage, L}) = b
    BY <1>1, <1>2, <1>3, MinOfTwo
  <2>2. Page(n) = SubSeq(pull, k + 1, Min({n * PerPage, L}))
    BY DEF Page, k, L, pull
  <2>3. QED
    BY <1>2, <2>1, <2>2
<1> HIDE DEF b
<1>6. /\ page \in Seq(ToSet(pull)) /\ Len(page) = IF k + 1 <= b THEN b - (k + 1) + 1 ELSE 0
      /\ \A i \in 1..(b - (k + 1) + 1) : page[i] = pull[(k + 1) + i - 1]
  <2>1. \A i \in (k + 1)..b : pull[i] \in ToSet(pull)
    <3> TAKE i \in (k + 1)..b
    <3>1. i \in 1..L
      BY <1>2, <1>3, <1>4
    <3>2. QED
      BY <1>3, <3>1 DEF ToSet
  <2>2. QED
    BY <1>2, <1>4, <2>1, SubSeqProperties
<1> HIDE DEF page
<1>7. List(page) /\ DOMAIN page = 1..Len(page)
  BY <1>6, ListOf
<1>8. Len(page) < PerPage => b = L
  BY <1>1, <1>2, <1>3, <1>6 DEF b
<1>9. ASSUME NEW i \in 1..L, k < i, i <= b
      PROVE  pull[i] \in ToSet(page)
  <2>1. i - k \in 1..(b - (k + 1) + 1) /\ (k + 1) + (i - k) - 1 = i
    BY <1>2, <1>3, <1>4, <1>9
  <2>2. page[i - k] = pull[i]
    BY <1>6, <2>1
  <2>3. i - k \in 1..Len(page)
    BY <1>2, <1>4, <1>6, <1>9, <2>1
  <2>4. QED
    BY <1>7, <2>2, <2>3 DEF ToSet
<1>10. ASSUME NEW i \in 1..L, k < i, i <= k + PerPage \/ LastPage(page)
       PROVE  pull[i] \in ToSet(page)
  <2>1. i <= b
    BY <1>1, <1>2, <1>3, <1>8, <1>10 DEF b, LastPage
  <2>2. QED
    BY <1>9, <1>10, <2>1
<1>11. (n + 1) - 1 = n
  OBVIOUS
<1>12. QED
  BY <1>2, <1>3, <1>5, <1>7, <1>10, <1>11 DEF k, pull

\* So reading a page keeps what has been read.
LEMMA PagesAreKept ==
    ASSUME GovernedInv, DiscoveryInv, FetchPage
    PROVE  PagesKept' /\ FilesKept(manifest)'
<1> DEFINE page == Page(fetch.page)
           files == fetch.files \o page
           from == IF fetch.from = draft.pull THEN draft.pull ELSE Nothing
           n == fetch.page
<1>1. n \in Nat \ {0} /\ List(fetch.files) /\ List(draft.pull)
  BY FilesAssumption DEF GovernedInv, DiscoveryInv, PagesKept, FetchPage
<1>2. /\ List(page)
      /\ \A i \in DOMAIN draft.pull :
             (n - 1) * PerPage < i /\ (i <= n * PerPage \/ LastPage(page)) => draft.pull[i] \in ToSet(page)
      /\ ((n + 1) - 1) * PerPage = n * PerPage
  BY <1>1, PageHolds
<1>3. /\ n - 1 \in Nat /\ PerPage \in Nat /\ (n - 1) * PerPage \in Int /\ n * PerPage \in Int
      /\ DOMAIN draft.pull = 1..Len(draft.pull)
  BY <1>1, PagesAssumption, ListOf DEF List
<1> HIDE DEF page
<1>4. List(files) /\ ToSet(files) = ToSet(fetch.files) \cup ToSet(page)
  BY <1>1, <1>2, Joins
<1>5. ASSUME from # Nothing, NEW i \in DOMAIN from, i <= n * PerPage \/ LastPage(page)
      PROVE  from[i] \in ToSet(files)
  <2>1. from = draft.pull /\ from = fetch.from /\ fetch.from # Nothing
    BY <1>5
  <2>2. fetch # Nothing
    BY DEF FetchPage
  <2>3. i <= (n - 1) * PerPage => from[i] \in ToSet(fetch.files)
    BY <1>5, <2>1, <2>2 DEF DiscoveryInv, PagesKept
  <2>4. i \in Int
    BY <1>3, <1>5, <2>1
  <2>5. ~(i <= (n - 1) * PerPage) => (n - 1) * PerPage < i
    BY <1>3, <2>4
  <2>6. QED
    BY <1>2, <1>4, <1>5, <2>1, <2>3, <2>5
<1>6. /\ \/ LastPage(page) /\ manifest' = [files |-> files, from |-> from] /\ fetch' = Nothing
         \/ manifest' = Nothing /\ fetch' = Nothing
         \/ /\ fetch' = [page |-> n + 1, files |-> files, from |-> from]
            /\ UNCHANGED manifest
  BY DEF FetchPage, page
<1>7. from # Nothing => from = draft.pull
  OBVIOUS
<1> HIDE DEF files, from, n
<1>8. CASE LastPage(page) /\ manifest' = [files |-> files, from |-> from] /\ fetch' = Nothing
  <2>1. manifest'.files = files /\ manifest'.from = from
    BY <1>8
  <2>2. from # Nothing => ToSet(from) \subseteq ToSet(files)
    BY <1>5, <1>8 DEF ToSet
  <2>3. QED
    BY <1>4, <1>8, <2>1, <2>2 DEF PagesKept, FilesKept
<1>9. CASE manifest' = Nothing /\ fetch' = Nothing
  BY <1>9 DEF PagesKept, FilesKept
<1>10. CASE fetch' = [page |-> n + 1, files |-> files, from |-> from] /\ UNCHANGED manifest
  <2>1. fetch'.page = n + 1 /\ fetch'.files = files /\ fetch'.from = from
    BY <1>10
  <2>2. n + 1 \in Nat \ {0}
    BY <1>1 DEF n
  <2>3. ASSUME from # Nothing
        PROVE  /\ List(from)
               /\ \A i \in DOMAIN from : i <= ((n + 1) - 1) * PerPage => from[i] \in ToSet(files)
    BY <1>1, <1>2, <1>5, <1>7, <2>3 DEF n
  <2>4. PagesKept'
    <3>1. fetch'.page \in Nat \ {0} /\ List(fetch'.files)
      BY <1>4, <2>1, <2>2
    <3> DEFINE Held(p, fs, g) ==
                   g # Nothing =>
                       /\ List(g)
                       /\ \A i \in DOMAIN g : i <= (p - 1) * PerPage => g[i] \in ToSet(fs)
    <3>2. Held(n + 1, files, from)
      BY <2>3
    <3>3. Held(fetch'.page, fetch'.files, fetch'.from)
      <4> HIDE DEF Held
      <4>1. QED
        BY <2>1, <3>2
    <3>4. QED
      BY <3>1, <3>3 DEF PagesKept
  <2>5. FilesKept(manifest)'
    BY <1>10 DEF DiscoveryInv, FilesKept
  <2>6. QED
    BY <2>4, <2>5
<1>11. QED
  BY <1>6, <1>8, <1>9, <1>10

\* A run starts from a draft and from what its manifest leads to.
LEMMA RunIsKept ==
    ASSUME GovernedInv, DiscoveryInv, Assess
    PROVE  DiscoveryInv'
<1>1. PICK explicit \in Explicit :
        LET scanned == IF Discovered = ScanError THEN ScanError ELSE Scanned(Discovered, explicit)
            d == [draft EXCEPT !.scanned = scanned] IN
        /\ scanned # ScanError
        /\ \E waivers, asked :
               given' = [bundle |-> bundle, draft |-> d, waivers |-> waivers,
                         at |-> PolicyInstant(asked), manifest |-> manifest, scope |-> Scope,
                         explicit |-> explicit, warned |-> Discovered.warned]
        /\ UNCHANGED <<clock, bundle, draft, discovery>>
  BY DEF Assess
<1> DEFINE auto == Discovered
           warned == auto.warned
<1>2. /\ auto # ScanError /\ Scanned(auto, explicit) # ScanError
      /\ auto = DiscoveredFrom(manifest, draft.tree)
      /\ manifest # Nothing => Scope = Classify(manifest.files, draft.tree)
  BY <1>1 DEF Discovered, DiscoveredFrom, Scope
<1> HIDE DEF warned
<1>3. /\ given'.manifest = manifest /\ given'.explicit = explicit /\ given'.warned = warned
      /\ given'.draft = [draft EXCEPT !.scanned = Scanned(auto, explicit)]
      /\ given'.scope = Scope
  BY <1>1, <1>2 DEF warned
<1>4. RunOn(given', draft)
  BY <1>2, <1>3 DEF RunOn, warned
<1>5. draft \in Drafts /\ fetch' = fetch /\ manifest' = manifest
  BY <1>1 DEF GovernedInv, discovery
<1>6. PagesKept' /\ FilesKept(manifest)'
  BY <1>5 DEF DiscoveryInv, PagesKept, FilesKept
<1>7. FilesKept(given'.manifest)
  BY <1>3 DEF DiscoveryInv
<1>8. \E d \in Drafts : RunOn(given', d)
  BY <1>4, <1>5
<1>9. FilesKept(given.manifest)' /\ (\E d \in Drafts : RunOn(given, d))'
  BY <1>7, <1>8 DEF FilesKept, RunOn
<1>10. QED
  BY <1>3, <1>6, <1>9 DEF DiscoveryInv

LEMMA NextDiscovers == GovernedInv /\ DiscoveryInv /\ [Next]_vars => DiscoveryInv'
<1> SUFFICES ASSUME GovernedInv, DiscoveryInv, [Next]_vars PROVE DiscoveryInv'
  OBVIOUS
<1>1. CASE Assess
  BY <1>1, RunIsKept
<1>2. ASSUME /\ \/ UNCHANGED <<given, report>>
                \/ given' = Nothing /\ report' = Nothing,
             PagesKept' /\ FilesKept(manifest)'
      PROVE  DiscoveryInv'
  <2>1. CASE UNCHANGED <<given, report>>
    <3>1. given' = given /\ report' = report
      BY <2>1
    <3>2. report # Nothing \/ given # Nothing =>
              /\ FilesKept(given.manifest)' /\ given'.explicit \in Explicit
              /\ (\E d \in Drafts : RunOn(given, d))'
      BY <3>1 DEF DiscoveryInv, FilesKept, RunOn
    <3>3. QED
      BY <1>2, <3>1, <3>2 DEF DiscoveryInv
  <2>2. CASE given' = Nothing /\ report' = Nothing
    BY <1>2, <2>2 DEF DiscoveryInv
  <2>3. QED
    BY <1>2, <2>1, <2>2
<1>3. CASE FetchPage
  <2>1. UNCHANGED <<given, report>>
    BY <1>3 DEF FetchPage, output
  <2>2. QED
    BY <1>2, <1>3, <2>1, PagesAreKept
<1>4. CASE StartFetch
  <2>1. given' = Nothing /\ report' = Nothing /\ manifest' = Nothing
    BY <1>4 DEF StartFetch, ClearOutput
  <2> DEFINE first == [page |-> 1, files |-> <<>>, from |-> draft.pull]
  <2>2. fetch' = first /\ first.page = 1 /\ first.files = <<>> /\ first.from = draft.pull
    BY <1>4 DEF StartFetch
  <2>3. /\ List(draft.pull) /\ List(<<>>)
        /\ \A i \in DOMAIN draft.pull : ~(i <= (1 - 1) * PerPage)
    <3>1. List(draft.pull)
      BY FilesAssumption DEF GovernedInv
    <3>2. DOMAIN draft.pull = 1..Len(draft.pull)
      BY <3>1, ListOf DEF List
    <3>3. (1 - 1) * PerPage = 0
      BY PagesAssumption
    <3>4. QED
      BY <3>1, <3>2, <3>3, SmallLists
  <2> HIDE DEF first
  <2>4. PagesKept' /\ FilesKept(manifest)'
    BY <2>1, <2>2, <2>3 DEF PagesKept, FilesKept
  <2>5. QED
    BY <1>2, <2>1, <2>4
<1>5. CASE FetchFails
  <2>1. UNCHANGED <<given, report>> /\ fetch' = Nothing /\ manifest' = Nothing
    BY <1>5 DEF FetchFails, output
  <2>2. PagesKept' /\ FilesKept(manifest)'
    BY <2>1 DEF PagesKept, FilesKept
  <2>3. QED
    BY <1>2, <2>1, <2>2
<1>6. CASE Tick \/ Edit \/ Adopt \/ Replay \/ Simulate \/ UNCHANGED vars
  <2>1. /\ fetch' = fetch /\ manifest' = manifest
        /\ \/ UNCHANGED <<given, report>>
           \/ given' = Nothing /\ report' = Nothing
    BY <1>6 DEF Tick, Edit, Adopt, Replay, Simulate, vars, discovery, output, ClearOutput
  <2>2. PagesKept' /\ FilesKept(manifest)'
    BY <2>1 DEF DiscoveryInv, PagesKept, FilesKept
  <2>3. QED
    BY <1>2, <2>1, <2>2
<1>7. QED
  BY <1>1, <1>3, <1>4, <1>5, <1>6 DEF Next

-----------------------------------------------------------------------------
(* What the report shows *)

\* The findings of monitoring are a list, as providers are finitely many.
LEMMA MonitoringListed ==
    ASSUME NEW change, change.badDashboards \in Nat, change.monitorIds \in Seq(STRING),
           NEW inventory, NEW p, IsFiniteSet(p[Providers])
    PROVE  List(MonitoringFindings(change, inventory, p))
<1> DEFINE absent == p[Providers] \ {m.provider : m \in Enabled(inventory)}
           n == IF ValidationEnabled(change, inventory, p) THEN change.badDashboards ELSE 0
           k == Cardinality(absent)
           d == [i \in 1..n |-> Finding("monitoring-invalid-dashboard-url", 15)]
           r == ReferenceFindings(change.monitorIds, inventory)
           u == When(Cardinality(Enabled(inventory)) < p[Minimum], "monitoring-insufficient-coverage", 25)
           a == [i \in 1..k |-> Finding("monitoring-required-provider-missing", 25)]
<1>1. List(d)
  <2>1. n \in Nat
    OBVIOUS
  <2> HIDE DEF n
  <2>2. DOMAIN d = 1..n /\ d = [i \in 1..n |-> d[i]]
    OBVIOUS
  <2> HIDE DEF d
  <2>3. QED
    BY <2>1, <2>2, ListFrom
<1>2. List(r)
  BY ReferencesFound, ListOf
<1>3. List(u)
  BY SmallLists
<1>4. List(a)
  <2>1. k \in Nat
    <3>1. absent \subseteq p[Providers]
      OBVIOUS
    <3> HIDE DEF absent
    <3>2. QED
      BY <3>1, FS_Subset, FS_CardinalityType
  <2> HIDE DEF k
  <2>2. DOMAIN a = 1..k /\ a = [i \in 1..k |-> a[i]]
    OBVIOUS
  <2> HIDE DEF a
  <2>3. QED
    BY <2>1, <2>2, ListFrom
<1>5. MonitoringFindings(change, inventory, p) = d \o r \o u \o a
  BY DEF MonitoringFindings
<1> HIDE DEF d, r, u, a
<1>6. QED
  BY <1>1, <1>2, <1>3, <1>4, <1>5, Joins

\* Every finding of the scanners is among the rules that are reported.
LEMMA ScannedIsReported ==
    ASSUME GovernedInv, report # Nothing, NEW d \in Drafts,
           given.draft.service = d.service, given.draft.change = d.change,
           given.draft.inventory = d.inventory, List(given.draft.scanned)
    PROVE  Shows(given.draft.scanned, report.rules)
<1> DEFINE b == given.bundle
           p == Resolve(b, PolicyContext(given.draft))
           s == ServiceRules(d.service, d.change)
           m == MonitoringFindings(d.change, d.inventory, p)
           x == given.draft.scanned
           found == s \o x \o m
<1>1. b \in Bundles /\ WellFormed(b)
  BY DEF GovernedInv, AssessmentOf, Accepted, DrivesAssessment
<1>2. report.rules = [i \in DOMAIN found |-> Weighted(found[i], p)]
  <2>1. report.rules = AssessRisk(given.draft, b, given.at).rules
    BY DEF GovernedInv, AssessmentOf, Assessed, ApplyWaivers, AssessRisk
  <2>2. FindingsOf(given.draft, p) = found
    BY DEF FindingsOf, Findings
  <2>3. QED
    BY <2>1, <2>2 DEF AssessRisk
<1>3. List(s)
  BY ServiceRulesFound, ListOf
<1>4. List(m)
  <2>1. Sound(p)
    BY <1>1, ResolvedIsSound
  <2> HIDE DEF p
  <2>2. QED
    BY <2>1, DraftsAssumption, MonitoringListed DEF Sound
<1> HIDE DEF s, m, p, x
<1>5. ToSet(x) \subseteq ToSet(found)
  <2>1. List(x)
    BY DEF x
  <2>2. QED
    BY <1>3, <1>4, <2>1, Joins
<1> HIDE DEF found
<1>6. \A i \in DOMAIN found : report.rules[i].id = found[i].id
  BY <1>2 DEF Weighted, Finding
<1>7. DOMAIN report.rules = DOMAIN found
  BY <1>2
<1>8. ASSUME NEW f \in ToSet(x)
      PROVE  f.id \in {r.id : r \in ToSet(report.rules)}
  <2>1. PICK i \in DOMAIN found : f = found[i]
    BY <1>5 DEF ToSet
  <2>2. report.rules[i] \in ToSet(report.rules) /\ report.rules[i].id = f.id
    BY <1>6, <1>7, <2>1 DEF ToSet
  <2>3. QED
    BY <2>2
<1>9. QED
  BY <1>8 DEF Shows, x

\* Of the pull request that all pages were of no file is lost, and what was given
\* to an assessment is a draft with all that its manifest led to
\* (changed_files.py:233, cli.py:431).
THEOREM DiscoveryInvariance == Spec => [](GovernedInv /\ DiscoveryInv)
<1>1. Init => DiscoveryInv
  BY DEF Init, DiscoveryInv, PagesKept, FilesKept
<1>2. GovernedInv /\ GovernedInv' /\ DiscoveryInv /\ [Next]_vars => DiscoveryInv'
  BY NextDiscovers
<1>3. QED
  BY <1>1, <1>2, Invariance, PTL DEF Spec

\* Nothing that a complete list names is lost between the page loop and the report:
\* each changed plan and manifest shows up with all its findings, unless the run
\* was given another, warns about the plans, or lists the file as none for that
\* scanner; a manifest of the latter has findings for two kinds at most
\* (changed_files.py:18, :193).
THEOREM NothingGoesUnseen == Spec => []NothingUnseen
<1>1. GovernedInv /\ DiscoveryInv => NothingUnseen
  <2> DEFINE m == given.manifest
             e == given.explicit
  <2> SUFFICES ASSUME GovernedInv, DiscoveryInv, report # Nothing, m # Nothing, m.from # Nothing,
                      NEW name \in ToSet(m.from) \cap DOMAIN given.draft.tree
               PROVE  /\ BodyOf(name).type = "plan" /\ name.form \in {"plan", "json"} => PlanSeen(name)
                      /\ BodyOf(name).type = "manifest" /\ Yaml(name) => ManifestSeen(name)
    BY DEF NothingUnseen, FilesListed
  <2>1. PICK d \in Drafts : RunOn(given, d)
    BY DEF DiscoveryInv
  <2> DEFINE tree == d.tree
             auto == LoadAuto(Classify(m.files, tree), tree)
             listed == Classify(m.files, tree).categories
             scanned == Scanned(auto, e)
             plan == IF e.plan # NoPlan THEN e.plan ELSE auto.plan
             objects == IF e.objects # <<>> THEN e.objects ELSE auto.objects
             body == tree[name]
  <2>2. /\ auto # ScanError /\ scanned # ScanError /\ given.warned = auto.warned
        /\ given.draft = [d EXCEPT !.scanned = scanned]
        /\ given.scope.categories = listed
    BY <2>1 DEF RunOn, DiscoveredFrom
  <2>3. List(m.files) /\ ToSet(m.from) \subseteq ToSet(m.files) /\ e \in Explicit
    BY DEF DiscoveryInv, FilesKept
  <2> HIDE DEF auto, scanned, listed
  <2>4. /\ given.draft.service = d.service /\ given.draft.change = d.change
        /\ given.draft.inventory = d.inventory /\ given.draft.tree = tree
        /\ given.draft.scanned = scanned
    BY <2>2, DraftsAssumption
  <2>5. TreeShape(tree) /\ InputsShape(e)
    BY <2>3, FilesAssumption DEF TreeShape, InputsShape
  <2>6. name \in ToSet(m.files) \cap DOMAIN tree
    BY <2>3, <2>4
  <2>7. /\ InputsShape(auto)
        /\ name \in DOMAIN listed
        /\ body.type = "plan" /\ name.form \in {"plan", "json"} =>
               auto.warned \/ auto.plan = body.plan \/ "terraform" \notin listed[name]
        /\ body.type = "manifest" /\ Yaml(name) =>
               \/ Within(body.objects, auto.objects)
               \/ "kubernetes" \notin listed[name] /\ NothingFound(body.objects)
    BY <2>2, <2>3, <2>5, <2>6, DiscoveryKeeps DEF auto, listed
  <2>8. /\ List(scanned)
        /\ plan # NoPlan => ToSet(ScanTerraformJson(plan)) \subseteq ToSet(scanned)
        /\ ScanKubernetes(objects) # ScanError /\ ToSet(ScanKubernetes(objects)) \subseteq ToSet(scanned)
    BY <2>2, <2>5, <2>7, ScanShows DEF scanned
  <2>9. Shows(scanned, report.rules)
    BY <2>1, <2>4, <2>8, ScannedIsReported
  <2>10. \A fs : ToSet(fs) \subseteq ToSet(scanned) => Shows(fs, report.rules)
    BY <2>9 DEF Shows
  <2>11. ASSUME body.type = "plan", e.plan = NoPlan, auto.plan = body.plan
         PROVE  Shows(ScanTerraformJson(body.plan), report.rules)
    <3>1. plan = body.plan
      BY <2>11
    <3>2. body.plan # NoPlan
      BY <2>5, <2>6, <2>11 DEF TreeShape, PlanShape
    <3>3. QED
      BY <2>8, <2>10, <3>1, <3>2
  <2>12. ASSUME Within(body.objects, auto.objects), e.objects = <<>>
         PROVE  Shows(ScanKubernetes(body.objects), report.rules)
    <3>1. objects = auto.objects /\ Within(body.objects, objects)
      BY <2>12
    <3>2. ObjectsShape(objects) /\ ObjectsShape(body.objects)
      BY <2>5, <2>6, <2>7, <3>1 DEF TreeShape, InputsShape
    <3>3. ToSet(ScanKubernetes(body.objects)) \subseteq ToSet(ScanKubernetes(objects))
      BY <2>8, <3>1, <3>2, PartIsScanned
    <3>4. QED
      BY <2>8, <2>10, <3>3
  <2>13. BodyOf(name) = body
    BY <2>4 DEF BodyOf
  <2> HIDE DEF body
  <2>14. body.type = "plan" /\ name.form \in {"plan", "json"} => PlanSeen(name)
    BY <2>2, <2>7, <2>11, <2>13 DEF PlanSeen, ListedWithout
  <2>15. body.type = "manifest" /\ Yaml(name) => ManifestSeen(name)
    BY <2>2, <2>7, <2>12, <2>13 DEF ManifestSeen, ListedWithout
  <2>16. QED
    BY <2>13, <2>14, <2>15
<1>2. QED
  BY <1>1, DiscoveryInvariance, PTL
=============================================================================
