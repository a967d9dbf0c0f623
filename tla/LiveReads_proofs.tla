--------------------------- MODULE LiveReads_proofs ---------------------------
(***************************************************************************)
(* Theorems about LiveReads for every set of worlds and of requests, every *)
(* page size, page limit and retry count, and any number of changes and    *)
(* failures.                                                               *)
(***************************************************************************)
EXTENDS LiveReads, FiniteSetTheorems, TLAPS

-----------------------------------------------------------------------------
(* The invariant *)

\* What has been asked of a provider, and what it can have answered.
Asks(p) == {"discover"} \cup Controls[p]

OwnWorlds == {w \in Worlds : w.provider = provider}

Answers == {Answer(w, q) : w \in Worlds,
                           q \in {"discover", "host", "triggers", "direct", "grouped", "items",
                                  "resource"}}

PageRows == UNION {Rows(w, q) : w \in Worlds, q \in Paged}

\* Types, and that the worlds of a control are of the provider and include the
\* present one.
Typed ==
    /\ world \in during /\ during \subseteq OwnWorlds
    /\ provider \in DOMAIN Controls /\ todo \subseteq Asks(provider)
    /\ attempt \in 0..Retries /\ calls \in Nat
    /\ got \in Seq(Answers) /\ pages \in Seq(SUBSET PageRows)

\* Answers and pages are held of the control at hand only, and of its last query
\* if they are pages.
Underway ==
    /\ todo = {} => got = << >> /\ pages = << >>
    /\ todo # {} /\ got # << >> => Len(got) < Len(Queries(Control))
    /\ todo # {} /\ pages # << >> =>
           /\ Len(got) + 1 = Len(Queries(Control)) /\ Query \in Paged
           /\ Len(pages) < MaxPages

\* The calls the controls may still need.
Cost(control) ==
    CASE control \in {"asset", "metric"} -> MaxPages
      [] control \in {"problems", "events"} -> 2 + MaxPages
      [] control = "maintenance" -> 3
      [] control \in {"triggers", "freshness"} -> 2
      [] control = "identity" -> 0
      [] OTHER -> 1

Share(controls, control) == IF control \in controls THEN Cost(control) ELSE 0

Owed(controls) ==
    Share(controls, "discover") + Share(controls, "host") + Share(controls, "triggers")
    + Share(controls, "maintenance") + Share(controls, "problems") + Share(controls, "events")
    + Share(controls, "freshness") + Share(controls, "asset") + Share(controls, "identity")
    + Share(controls, "metric") + Share(controls, "resource")

Budget == IF provider = "zabbix" THEN 13 + 2 * MaxPages ELSE 2 + 2 * MaxPages

\* What has been called and what is still owed stay within the budget, where the
\* answers that are held have been paid for.
Affordable ==
    /\ calls <= Budget
    /\ ended = "none" => calls + Owed(todo) <= Budget + Len(got) + Len(pages)

\* The answers that are held let the control go on: each was given in a world
\* since then, in which it was favourable.
Supported ==
    todo # {} =>
        /\ Control \in {"triggers", "problems", "events", "freshness"} /\ got # << >>
               => Monitored(during)
        /\ Control \in {"problems", "events"} /\ Len(got) >= 2 => Evaluated(during)
        /\ Control = "maintenance" /\ got # << >>
               => \E w \in during : got[1] = w.host /\ w.host # Absent
        /\ Control = "maintenance" /\ Len(got) >= 2
               => \E w \in during : got[2] = Direct(w.windows)

\* A page that is held is not empty, and its rows were there at one moment.
ReadRows ==
    \A n \in DOMAIN pages :
        pages[n] # {} /\ \E w \in during : pages[n] \subseteq Rows(w, Query)

\* No series that was sampled all the time is missing up to the cursor.
Present(worlds, i) == \A w \in worlds : Sampled(w, i) # {}
Named(all, i) == \E n \in DOMAIN all : \E s \in all[n] : s.name = i
NoneSkipped ==
    todo # {} /\ Control = "metric" =>
        \A i \in Nat : Present(during, i) /\ i <= Cursor => Named(pages, i)

LiveInv == Typed /\ Underway /\ Affordable /\ Supported /\ ReadRows /\ NoneSkipped

-----------------------------------------------------------------------------
(* Least and greatest elements *)

\* A set of naturals that is not empty has a least element.
LEMMA LeastNatural ==
    ASSUME NEW T, T \subseteq Nat, T # {}
    PROVE  \E n \in T : \A m \in T : n <= m
<1> DEFINE R == OpToRel(<, Nat)
<1>1. IsWellFoundedOn(R, Nat)
  BY NatLessThanWellFounded
<1>2. \A U \in SUBSET Nat : U # {} => \E x \in U : \A y \in U : ~(<<y, x>> \in R)
  <2> HIDE DEF R
  <2> SUFFICES ASSUME NEW U \in SUBSET Nat, U # {}
               PROVE  \E x \in U : \A y \in U : ~(<<y, x>> \in R)
    OBVIOUS
  <2>1. QED
    BY <1>1, WFMin
<1>3. \A x, y \in Nat : y < x => <<y, x>> \in R
  BY DEF OpToRel
<1> HIDE DEF R
<1>4. PICK x \in T : \A y \in T : ~(<<y, x>> \in R)
  BY <1>2
<1>5. ASSUME NEW y \in T
      PROVE  x <= y
  <2>1. x \in Nat /\ y \in Nat
    OBVIOUS
  <2>2. ~(y < x)
    BY <2>1, <1>3, <1>4
  <2>3. QED
    BY <2>1, <2>2
<1>6. QED
  BY <1>5

\* So do integers that are bounded below; those that are bounded above have a
\* greatest one.
LEMMA LeastInteger ==
    ASSUME NEW T, T \subseteq Int, T # {}, NEW b \in Int, \A m \in T : b <= m
    PROVE  \E n \in T : \A m \in T : n <= m
<1> DEFINE U == {m - b : m \in T}
<1>1. U \subseteq Nat /\ U # {}
  <2>1. \A m \in T : m - b \in Nat
    OBVIOUS
  <2>2. QED
    BY <2>1
<1>2. PICK u \in U : \A v \in U : u <= v
  BY <1>1, LeastNatural
<1>3. PICK n \in T : u = n - b
  BY <1>2
<1>4. \A m \in T : n <= m
  BY <1>2, <1>3
<1>5. QED
  BY <1>4

LEMMA GreatestInteger ==
    ASSUME NEW T, T \subseteq Int, T # {}, NEW b \in Int, \A m \in T : m <= b
    PROVE  /\ Max(T) \in T
           /\ \A m \in T : m <= Max(T)
<1> DEFINE U == {b - m : m \in T}
<1>1. U \subseteq Nat /\ U # {}
  <2>1. \A m \in T : b - m \in Nat
    OBVIOUS
  <2>2. QED
    BY <2>1
<1>2. PICK u \in U : \A v \in U : u <= v
  BY <1>1, LeastNatural
<1>3. PICK n \in T : u = b - n
  BY <1>2
<1>4. \A m \in T : n >= m
  <2> SUFFICES ASSUME NEW m \in T PROVE n >= m
    OBVIOUS
  <2>1. b - n <= b - m
    BY <1>2, <1>3
  <2>2. QED
    BY <2>1
<1>5. Max(T) \in T /\ \A m \in T : Max(T) >= m
  BY <1>4 DEF Max
<1>6. QED
  BY <1>5

LEMMA MinInteger ==
    ASSUME NEW T, T \subseteq Int, T # {}, NEW b \in Int, \A m \in T : b <= m
    PROVE  /\ Min(T) \in T
           /\ \A m \in T : Min(T) <= m
<1>1. \E n \in T : \A m \in T : n <= m
  BY LeastInteger
<1>2. QED
  BY <1>1 DEF Min

\* A finite set of naturals has a bound.
LEMMA FiniteIsBounded ==
    ASSUME NEW S, S \subseteq Nat, IsFiniteSet(S)
    PROVE  \E b \in Nat : \A m \in S : m <= b
<1> DEFINE Unbounded == {U \in SUBSET S : \A b \in Nat : \E m \in U : m > b}
           Sizes == {Cardinality(U) : U \in Unbounded}
<1> SUFFICES ASSUME S \in Unbounded PROVE FALSE
  OBVIOUS
<1>1. \A U \in Unbounded : IsFiniteSet(U) /\ Cardinality(U) \in Nat
  BY FS_Subset, FS_CardinalityType
<1>2. Sizes \subseteq Nat /\ Sizes # {}
  BY <1>1
<1>3. PICK n \in Sizes : \A k \in Sizes : n <= k
  BY <1>2, LeastNatural
<1>4. PICK U \in Unbounded : n = Cardinality(U)
  BY <1>3
<1>5. PICK x \in U : x > 0
  BY <1>4
<1>6. U \ {x} \notin Unbounded
  <2>1. Cardinality(U \ {x}) = n - 1
    BY <1>1, <1>4, <1>5, FS_RemoveElement
  <2>2. n \in Nat
    BY <1>2, <1>3
  <2>3. ~(n <= n - 1)
    BY <2>2
  <2>4. QED
    BY <1>3, <2>1, <2>3
<1>7. PICK b \in Nat : \A m \in U \ {x} : ~(m > b)
  BY <1>6
<1>8. x \in Nat
  BY <1>5
<1>9. PICK m \in U : m > b + x
  <2>1. b + x \in Nat
    BY <1>8
  <2>2. QED
    BY <1>4, <2>1
<1>10. m \in Nat /\ m # x
  BY <1>8, <1>9
<1>11. QED
  BY <1>7, <1>8, <1>9, <1>10

LEMMA GreatestNatural ==
    ASSUME NEW T, T \subseteq Nat, T # {}, IsFiniteSet(T)
    PROVE  /\ Max(T) \in T
           /\ \A m \in T : m <= Max(T)
<1>1. PICK b \in Nat : \A m \in T : m <= b
  BY FiniteIsBounded
<1>2. T \subseteq Int /\ b \in Int
  OBVIOUS
<1>3. QED
  BY <1>1, <1>2, GreatestInteger

-----------------------------------------------------------------------------
(* Controls and queries *)

\* The control at hand is one of those still to be observed.
LEMMA ControlIsAsked ==
    ASSUME todo # {}, todo \subseteq DOMAIN Rank
    PROVE  Control \in todo
<1> DEFINE T == {Rank[c] : c \in todo}
<1>1. \A c \in DOMAIN Rank : Rank[c] \in Nat
  BY DEF Rank
<1>2. T \subseteq Nat /\ T # {}
  BY <1>1
<1>3. PICK n \in T : \A m \in T : n <= m
  BY <1>2, LeastNatural
<1>4. PICK c \in todo : n = Rank[c]
  BY <1>3
<1>5. \A d \in todo : Rank[c] <= Rank[d]
  BY <1>3, <1>4
<1>6. QED
  BY <1>5 DEF Control

\* The controls of either provider.
LEMMA AsksType ==
    ASSUME NEW p \in DOMAIN Controls
    PROVE  /\ Asks(p) \subseteq DOMAIN Rank
           /\ p \in {"zabbix", "gcp"}
           /\ p = "zabbix" => Asks(p) = {"discover", "host", "triggers", "maintenance",
                                         "problems", "events", "freshness"}
           /\ p = "gcp" => Asks(p) = {"discover", "asset", "identity", "metric", "resource"}
BY DEF Asks, Controls, Rank

\* Where the control at hand is among its queries.
Stages ==
    \/ Control \in {"discover", "host", "asset", "metric", "resource"}
       /\ Len(got) = 0 /\ Query = Control
    \/ Control \in {"triggers", "maintenance", "problems", "events", "freshness"}
       /\ Len(got) = 0 /\ Query = "host"
    \/ Control \in {"triggers", "problems", "events"} /\ Len(got) = 1 /\ Query = "triggers"
    \/ Control = "maintenance" /\ Len(got) = 1 /\ Query = "direct"
    \/ Control = "freshness" /\ Len(got) = 1 /\ Query = "items"
    \/ Control = "maintenance" /\ Len(got) = 2 /\ Query = "grouped"
    \/ Control \in {"problems", "events"} /\ Len(got) = 2 /\ Query = Control

LEMMA StageOfQuery ==
    ASSUME Typed, Underway, todo # {}, Queries(Control) # << >>
    PROVE  /\ Control \in todo /\ Control \in Asks(provider)
           /\ Stages
<1>1. Control \in todo /\ Control \in Asks(provider) /\ Control \in DOMAIN Rank
  BY AsksType, ControlIsAsked DEF Typed
<1>2. Len(got) \in Nat /\ (got = << >> => Len(got) = 0)
  BY DEF Typed
<1>3. Len(Queries(Control)) = 0 <=> Queries(Control) = << >>
  BY <1>1 DEF Rank, Queries
<1>4. Len(got) < Len(Queries(Control))
  <2>1. Len(Queries(Control)) \in Nat
    BY <1>1 DEF Rank, Queries
  <2>2. QED
    BY <1>2, <1>3, <2>1 DEF Underway
<1>5. PICK n \in Nat : Len(got) = n
  BY <1>2
<1>6. n < Len(Queries(Control))
  BY <1>4, <1>5
<1>7. Stages
  <2>1. CASE Control \in {"discover", "host", "asset", "metric", "resource"}
    BY <1>2, <1>4, <2>1 DEF Stages, Query, Queries
  <2>2. CASE Control = "triggers"
    <3>1. Queries(Control) = <<"host", "triggers">>
      BY <2>2 DEF Queries
    <3>2. n = 0 \/ n = 1
      BY <1>6, <2>2 DEF Queries
    <3>3. Query = <<"host", "triggers">>[n + 1]
      BY <1>5, <3>1 DEF Query
    <3>4. CASE n = 0
      BY <1>5, <2>2, <3>3, <3>4 DEF Stages
    <3>5. CASE n = 1
      BY <1>5, <2>2, <3>3, <3>5 DEF Stages
    <3>6. QED
      BY <3>2, <3>4, <3>5
  <2>3. CASE Control = "maintenance"
    <3>1. Queries(Control) = <<"host", "direct", "grouped">>
      BY <2>3 DEF Queries
    <3>2. n = 0 \/ n = 1 \/ n = 2
      BY <1>6, <2>3 DEF Queries
    <3>3. Query = <<"host", "direct", "grouped">>[n + 1]
      BY <1>5, <3>1 DEF Query
    <3>4. CASE n = 0
      BY <1>5, <2>3, <3>3, <3>4 DEF Stages
    <3>5. CASE n = 1
      BY <1>5, <2>3, <3>3, <3>5 DEF Stages
    <3>6. CASE n = 2
      BY <1>5, <2>3, <3>3, <3>6 DEF Stages
    <3>7. QED
      BY <3>2, <3>4, <3>5, <3>6
  <2>4. CASE Control \in {"problems", "events"}
    <3>1. Queries(Control) = <<"host", "triggers", Control>>
      BY <2>4 DEF Queries
    <3>2. n = 0 \/ n = 1 \/ n = 2
      BY <1>6, <2>4 DEF Queries
    <3>3. Query = <<"host", "triggers", Control>>[n + 1]
      BY <1>5, <3>1 DEF Query
    <3>4. CASE n = 0
      BY <1>5, <2>4, <3>3, <3>4 DEF Stages
    <3>5. CASE n = 1
      BY <1>5, <2>4, <3>3, <3>5 DEF Stages
    <3>6. CASE n = 2
      BY <1>5, <2>4, <3>3, <3>6 DEF Stages
    <3>7. QED
      BY <3>2, <3>4, <3>5, <3>6
  <2>5. CASE Control = "freshness"
    <3>1. Queries(Control) = <<"host", "items">>
      BY <2>5 DEF Queries
    <3>2. n = 0 \/ n = 1
      BY <1>6, <2>5 DEF Queries
    <3>3. Query = <<"host", "items">>[n + 1]
      BY <1>5, <3>1 DEF Query
    <3>4. CASE n = 0
      BY <1>5, <2>5, <3>3, <3>4 DEF Stages
    <3>5. CASE n = 1
      BY <1>5, <2>5, <3>3, <3>5 DEF Stages
    <3>6. QED
      BY <3>2, <3>4, <3>5
  <2>6. Control # "identity"
    BY DEF Queries
  <2>7. QED
    BY <1>1, <2>1, <2>2, <2>3, <2>4, <2>5, <2>6 DEF Rank
<1>8. QED
  BY <1>1, <1>7

-----------------------------------------------------------------------------
(* The budget *)

\* A control that is concluded is no longer owed.
LEMMA OwedType ==
    ASSUME NEW S
    PROVE  Owed(S) \in Nat
<1>1. MaxPages \in Nat
  BY BudgetAssumption
<1>2. \A c : Cost(c) \in Nat
  BY <1>1 DEF Cost
<1>3. \A c : Share(S, c) \in Nat
  BY <1>2 DEF Share
<1>4. QED
  BY <1>3 DEF Owed

LEMMA OwedWithout ==
    ASSUME NEW S, NEW c \in S, c \in DOMAIN Rank
    PROVE  /\ Owed(S) = Owed(S \ {c}) + Cost(c)
           /\ Cost(c) \in Nat
<1>1. MaxPages \in Nat
  BY BudgetAssumption
<1>2. \A d : Cost(d) \in Nat
  BY <1>1 DEF Cost
<1>3. \A T, d : Share(T, d) \in Nat
  BY <1>2 DEF Share
<1>4. \A d : d # c => Share(S \ {c}, d) = Share(S, d)
  BY DEF Share
<1>5. Share(S \ {c}, c) = 0 /\ Share(S, c) = Cost(c)
  BY DEF Share
<1>6. c \in {"discover", "host", "triggers", "maintenance", "problems", "events", "freshness",
             "asset", "identity", "metric", "resource"}
  BY DEF Rank
<1>7. QED
  BY <1>2, <1>3, <1>4, <1>5, <1>6 DEF Owed

\* What a provider is asked for is within its budget.
LEMMA OwedAtFirst ==
    ASSUME NEW S, S \subseteq Asks(provider), provider \in DOMAIN Controls
    PROVE  Owed(S) <= Budget
<1>1. MaxPages \in Nat
  BY BudgetAssumption
<1>2. CASE provider = "zabbix"
  <2>1. \A c \in {"asset", "identity", "metric", "resource"} : c \notin S
    BY <1>2, AsksType
  <2>2. QED
    BY <1>1, <1>2, <2>1 DEF Owed, Share, Cost, Budget
<1>3. CASE provider = "gcp"
  <2>1. \A c \in {"host", "triggers", "maintenance", "problems", "events", "freshness"} :
            c \notin S
    BY <1>3, AsksType
  <2>2. QED
    BY <1>1, <1>3, <2>1 DEF Owed, Share, Cost, Budget
<1>4. QED
  BY <1>2, <1>3, AsksType

\* The answers and pages that are held, and one more, were owed.
LEMMA HeldIsOwed ==
    ASSUME Typed, Underway, todo # {}, Queries(Control) # << >>
    PROVE  Len(got) + Len(pages) + 1 <= Cost(Control)
<1>1. Len(got) \in Nat /\ Len(pages) \in Nat /\ (pages = << >> => Len(pages) = 0)
  BY DEF Typed
<1>2. MaxPages \in Nat \ {0}
  BY BudgetAssumption
<1>3. Stages
  BY StageOfQuery
<1>4. CASE pages = << >>
  <2>1. CASE Len(got) = 0
    <3>1. Control # "identity"
      BY <1>3 DEF Stages
    <3>2. QED
      BY <1>1, <1>2, <1>4, <2>1, <3>1 DEF Cost
  <2>2. CASE Len(got) = 1
    <3>1. Control \in {"triggers", "maintenance", "problems", "events", "freshness"}
      BY <1>3, <2>2 DEF Stages
    <3>2. QED
      BY <1>1, <1>2, <1>4, <2>2, <3>1 DEF Cost
  <2>3. CASE Len(got) = 2
    <3>1. Control \in {"maintenance", "problems", "events"}
      BY <1>3, <2>3 DEF Stages
    <3>2. QED
      BY <1>1, <1>2, <1>4, <2>3, <3>1 DEF Cost
  <2>4. QED
    BY <1>3, <2>1, <2>2, <2>3 DEF Stages
<1>5. CASE pages # << >>
  <2>1. Query \in Paged /\ Len(pages) < MaxPages
    BY <1>5 DEF Underway
  <2>2. QED
    BY <1>1, <1>2, <1>3, <2>1 DEF Stages, Paged, Cost
<1>6. QED
  BY <1>4, <1>5

-----------------------------------------------------------------------------
(* What a step leaves behind *)

\* A series has a number from one on.
LEMMA SeriesAreNumbered ==
    ASSUME NEW w \in Worlds, w.provider = "gcp", NEW i, Sampled(w, i) # {}
    PROVE  i \in Nat /\ i > 0
BY WorldsAssumption DEF Sampled

\* Nothing can have been skipped before the first page.
LEMMA NothingSkippedAtFirst ==
    Typed /\ pages = << >> => NoneSkipped
<1> SUFFICES ASSUME Typed, pages = << >>, todo # {}, Control = "metric",
                    NEW i \in Nat, Present(during, i), i <= Cursor
             PROVE  FALSE
  BY DEF NoneSkipped
<1>1. Cursor = 0
  BY DEF Cursor
<1>2. Control \in Asks(provider)
  BY ControlIsAsked, AsksType DEF Typed
<1>3. world \in Worlds /\ world.provider = "gcp"
  BY <1>2, AsksType DEF Typed, OwnWorlds
<1>4. Sampled(world, i) # {}
  BY DEF Present, Typed
<1>5. QED
  BY <1>1, <1>3, <1>4, SeriesAreNumbered

\* The time and the worlds of a step of the provider.
Steady == UNCHANGED <<environment, provider>>

\* At most one more call is made, and that for a query.
Counted == calls' = calls \/ (calls' = calls + 1 /\ Queries(Control) # << >>)

\* A call within the budget, whatever it leads to.
LEMMA CallIsCovered ==
    ASSUME LiveInv, ended = "none", todo # {}, Counted
    PROVE  /\ calls' \in Nat /\ calls' <= Budget
           /\ calls' + Owed(todo \ {Control}) <= Budget
<1>1. /\ calls \in Nat /\ Len(got) \in Nat /\ Len(pages) \in Nat
      /\ (got = << >> => Len(got) = 0) /\ (pages = << >> => Len(pages) = 0)
  BY DEF LiveInv, Typed
<1>2. Control \in todo /\ Control \in DOMAIN Rank
  BY ControlIsAsked, AsksType DEF LiveInv, Typed
<1>3. /\ Owed(todo) = Owed(todo \ {Control}) + Cost(Control)
      /\ Cost(Control) \in Nat /\ Owed(todo \ {Control}) \in Nat
  BY <1>2, OwedWithout, OwedType
<1>4. calls + Owed(todo) <= Budget + Len(got) + Len(pages) /\ Budget \in Nat
  BY BudgetAssumption DEF LiveInv, Affordable, Budget
<1>5. CASE Queries(Control) # << >>
  <2>1. Len(got) + Len(pages) + 1 <= Cost(Control)
    BY <1>5, HeldIsOwed DEF LiveInv
  <2>2. QED
    BY <1>1, <1>3, <1>4, <2>1 DEF Counted
<1>6. CASE Queries(Control) = << >>
  <2>1. PICK n \in Nat : Len(got) = n
    BY <1>1
  <2>2. got = << >> /\ pages = << >>
    <3>1. ~(n < Len(Queries(Control))) /\ n + 1 # Len(Queries(Control))
      BY <1>6
    <3>2. QED
      BY <2>1, <3>1 DEF LiveInv, Underway
  <2>3. QED
    BY <1>1, <1>3, <1>4, <1>6, <2>2 DEF Counted
<1>7. QED
  BY <1>5, <1>6

\* A control that is concluded leaves nothing behind.
LEMMA YieldKeeps ==
    ASSUME LiveInv, ended = "none", todo # {}, NEW o, Yield(o), Steady, Counted
    PROVE  LiveInv'
<1>1. calls' \in Nat /\ calls' <= Budget /\ calls' + Owed(todo \ {Control}) <= Budget
  BY CallIsCovered
<1>2. /\ got' = << >> /\ pages' = << >> /\ attempt' = 0 /\ during' = {world}
      /\ world' = world /\ provider' = provider /\ ended' = ended
      /\ todo' = {} \/ todo' = todo \ {Control}
  BY DEF Yield, Steady, environment
<1>3. Typed'
  BY <1>1, <1>2, BudgetAssumption DEF LiveInv, Typed, OwnWorlds
<1>4. Underway'
  BY <1>2 DEF Underway
<1>5. Affordable'
  <2>1. Owed(todo') <= Owed(todo \ {Control}) /\ Owed(todo') \in Nat /\ Owed(todo \ {Control}) \in Nat
    <3>1. Owed({}) = 0
      BY DEF Owed, Share
    <3>2. Owed(todo') \in Nat /\ Owed(todo \ {Control}) \in Nat
      BY OwedType
    <3>3. Owed(todo') = 0 \/ Owed(todo') = Owed(todo \ {Control})
      BY <1>2, <3>1
    <3>4. QED
      BY <3>2, <3>3
  <2>2. Budget' = Budget /\ Budget \in Nat /\ Len(got') = 0 /\ Len(pages') = 0
    BY <1>2, BudgetAssumption DEF Budget
  <2>3. QED
    BY <1>1, <2>1, <2>2 DEF Affordable
<1>6. Supported'
  BY <1>2 DEF Supported
<1>7. ReadRows'
  BY <1>2 DEF ReadRows
<1>8. NoneSkipped'
  <2>1. (Typed /\ pages = << >> => NoneSkipped)'
    BY NothingSkippedAtFirst, PTL
  <2>2. QED
    BY <1>2, <1>3, <2>1
<1>9. QED
  BY <1>3, <1>4, <1>5, <1>6, <1>7, <1>8 DEF LiveInv

\* An error that ends the collection.
LEMMA RaiseKeeps ==
    ASSUME LiveInv, ended = "none", todo # {}, NEW code, code # "none", Raise(code), Steady, Counted
    PROVE  LiveInv'
<1>1. calls' \in Nat /\ calls' <= Budget
  BY CallIsCovered
<1>2. /\ world' = world /\ provider' = provider /\ ended' # "none"
      /\ UNCHANGED <<todo, got, pages, attempt, during>>
  BY DEF Raise, Steady, environment
<1>3. Control' = Control /\ Query' = Query
  BY <1>2 DEF Control, Query
<1>4. Typed'
  BY <1>1, <1>2 DEF LiveInv, Typed, OwnWorlds
<1>5. Underway'
  BY <1>2, <1>3 DEF LiveInv, Underway
<1>6. Affordable'
  BY <1>1, <1>2 DEF Affordable, Budget
<1>7. Supported'
  BY <1>2, <1>3 DEF LiveInv, Supported
<1>8. ReadRows'
  BY <1>2, <1>3 DEF LiveInv, ReadRows
<1>9. NoneSkipped'
  BY <1>2, <1>3 DEF LiveInv, NoneSkipped, Cursor
<1>10. QED
  BY <1>4, <1>5, <1>6, <1>7, <1>8, <1>9 DEF LiveInv

-----------------------------------------------------------------------------
(* What a single answer leads to *)

\* An observation is not the sign that there is none.
LEMMA ObservationIsOne ==
    ASSUME NEW status \in {"PASS", "FAIL", "UNKNOWN", "ERROR"}, NEW code \in Codes,
           NEW expires \in Int \cup {Never}
    PROVE  Observation(status, code, expires) # NoObservation
BY SpecialAssumption DEF Observation

LEMMA ConcludedIsOne ==
    ASSUME NEW status \in {"PASS", "FAIL", "UNKNOWN", "ERROR"}
    PROVE  Concluded(status) # NoObservation
BY ObservationIsOne DEF Concluded, Codes

LEMMA UnknownIsOne ==
    ASSUME NEW code \in Codes
    PROVE  /\ Unknown(code) # NoObservation /\ Unknown(code).status # "PASS"
           /\ Unobserved(code) # NoObservation /\ Unobserved(code).status # "PASS"
BY ObservationIsOne DEF Unknown, Unobserved, Observation

\* The oldest of the samples that are recent enough.
LEMMA OldestSample ==
    ASSUME NEW w \in Worlds, w.provider = "zabbix", ~Incomplete(w.items),
           NEW clocks, clocks = {w.items[i].clock : i \in DOMAIN w.items},
           \A c \in clocks : EvaluatedAt - c < MaxSampleAge
    PROVE  /\ Min(clocks) \in Int
           /\ \A i \in DOMAIN w.items : w.items[i] # Absent /\ Min(clocks) <= w.items[i].clock
           /\ EvaluatedAt < Min(clocks) + MaxSampleAge
<1>1. /\ \A i \in DOMAIN w.items : w.items[i] # Absent /\ w.items[i].clock \in Nat
      /\ DOMAIN w.items # {}
  <2>1. w.items \in Seq(Range(w.items)) /\ w.items # << >>
    BY WorldsAssumption DEF Incomplete
  <2>2. Len(w.items) \in Nat \ {0} /\ DOMAIN w.items = 1..Len(w.items)
    BY <2>1
  <2>3. 1 \in DOMAIN w.items
    BY <2>2
  <2>4. QED
    BY <2>3, WorldsAssumption DEF Incomplete
<1>2. clocks \subseteq Int /\ clocks # {}
  <2>1. ASSUME NEW c \in clocks PROVE c \in Int
    <3>1. PICK i \in DOMAIN w.items : c = w.items[i].clock
      OBVIOUS
    <3>2. QED
      BY <1>1, <3>1
  <2>2. PICK i \in DOMAIN w.items : TRUE
    BY <1>1
  <2>3. w.items[i].clock \in clocks
    OBVIOUS
  <2>4. QED
    BY <2>1, <2>3
<1>3. EvaluatedAt - MaxSampleAge \in Int /\ \A c \in clocks : EvaluatedAt - MaxSampleAge <= c
  BY <1>2, BudgetAssumption
<1>4. Min(clocks) \in clocks /\ \A c \in clocks : Min(clocks) <= c
  BY <1>2, <1>3, MinInteger
<1>5. QED
  BY <1>1, <1>2, <1>4, BudgetAssumption

LEMMA ItemsConclude ==
    ASSUME NEW w \in Worlds, w.provider = "zabbix"
    PROVE  /\ OfItems(w.items, EvaluatedAt) # NoObservation
           /\ OfItems(w.items, EvaluatedAt).status = "PASS" =>
                  /\ OfItems(w.items, EvaluatedAt).expires \in Int
                  /\ EvaluatedAt < OfItems(w.items, EvaluatedAt).expires
                  /\ \A i \in DOMAIN w.items :
                         /\ w.items[i] # Absent
                         /\ OfItems(w.items, EvaluatedAt).expires
                                <= w.items[i].clock + MaxSampleAge
<1> DEFINE clocks == {w.items[i].clock : i \in DOMAIN w.items}
<1>1. CASE Incomplete(w.items)
  BY <1>1, UnknownIsOne DEF OfItems, Codes
<1>2. CASE ~Incomplete(w.items) /\ \E c \in clocks : c > EvaluatedAt
  BY <1>2, UnknownIsOne DEF OfItems, Codes
<1>3. CASE /\ ~Incomplete(w.items) /\ ~\E c \in clocks : c > EvaluatedAt
           /\ \E c \in clocks : c = 0 \/ EvaluatedAt - c >= MaxSampleAge
  BY <1>3, UnknownIsOne DEF OfItems, Codes
<1>4. CASE /\ ~Incomplete(w.items) /\ ~\E c \in clocks : c > EvaluatedAt
           /\ ~\E c \in clocks : c = 0 \/ EvaluatedAt - c >= MaxSampleAge
  <2>1. \A i \in DOMAIN w.items : w.items[i].clock \in Nat
    BY <1>4, WorldsAssumption DEF Incomplete
  <2>2. \A c \in clocks : EvaluatedAt - c < MaxSampleAge
    BY <1>4, <2>1, BudgetAssumption
  <2>3. /\ Min(clocks) \in Int
        /\ \A i \in DOMAIN w.items : w.items[i] # Absent /\ Min(clocks) <= w.items[i].clock
        /\ EvaluatedAt < Min(clocks) + MaxSampleAge
    BY <1>4, <2>2, OldestSample
  <2>4. \E s \in {"PASS", "FAIL"} :
            OfItems(w.items, EvaluatedAt) = Observation(s, "none", Min(clocks) + MaxSampleAge)
    BY <1>4 DEF OfItems
  <2>5. Min(clocks) + MaxSampleAge \in Int
    BY <2>3, BudgetAssumption
  <2>6. OfItems(w.items, EvaluatedAt).expires = Min(clocks) + MaxSampleAge
    BY <2>4 DEF Observation
  <2>7. OfItems(w.items, EvaluatedAt) # NoObservation
    BY <2>4, <2>5, ObservationIsOne DEF Codes
  <2>8. QED
    <3> HIDE DEF clocks
    <3> QED
      BY <2>1, <2>3, <2>5, <2>6, <2>7, BudgetAssumption
<1>5. QED
  BY <1>1, <1>2, <1>3, <1>4

\* Evidence expires no later than what it was made from, nor before the time it
\* is evaluated at.
LEMMA UntilBound ==
    /\ \A x \in Int :
           Until(x) \in Int /\ Until(x) <= x /\ (EvaluatedAt < x => EvaluatedAt < Until(x))
    /\ EvaluatedAt < Until(Never)
<1>1. EvaluatedAt + Ttl \in Int /\ EvaluatedAt < EvaluatedAt + Ttl /\ EvaluatedAt \in Int
  BY BudgetAssumption
<1>2. ASSUME NEW x \in Int
      PROVE  Until(x) \in Int /\ Until(x) <= x /\ (EvaluatedAt < x => EvaluatedAt < Until(x))
  <2>1. {x, EvaluatedAt + Ttl} \subseteq Int /\ {x, EvaluatedAt + Ttl} # {}
    BY <1>1
  <2>2. \E b \in Int : \A m \in {x, EvaluatedAt + Ttl} : b <= m
    <3>1. CASE x <= EvaluatedAt + Ttl
      BY <1>1, <3>1
    <3>2. CASE ~(x <= EvaluatedAt + Ttl)
      BY <1>1, <3>2
    <3>3. QED
      BY <3>1, <3>2
  <2>3. /\ Min({x, EvaluatedAt + Ttl}) \in {x, EvaluatedAt + Ttl}
        /\ \A m \in {x, EvaluatedAt + Ttl} : Min({x, EvaluatedAt + Ttl}) <= m
    BY <2>1, <2>2, MinInteger
  <2>4. Until(x) = Min({x, EvaluatedAt + Ttl})
    BY SpecialAssumption DEF Until
  <2>5. QED
    BY <1>1, <2>3, <2>4
<1>3. QED
  BY <1>1, <1>2 DEF Until

\* A favourable observation of the control at hand is witnessed.
Supports(o) ==
    o.status = "PASS" =>
        /\ Control # "discover"
        /\ EvaluatedAt < Until(o.expires) /\ Witnessed(Evidence(Control, o))

LEMMA UnknownSupports ==
    ASSUME NEW code \in Codes
    PROVE  Supports(Unknown(code)) /\ Supports(Unobserved(code))
BY UnknownIsOne DEF Supports

\* The answers that let a control go on.
LEMMA Undecided ==
    ASSUME LiveInv, todo # {}, Queries(Control) # << >>, Query \notin Paged,
           Control # "discover", Conclude(Answer(world, Query)) = NoObservation
    PROVE  \/ /\ Query = "host" /\ Len(got) = 0
              /\ Control \in {"triggers", "problems", "events", "freshness"}
              /\ world.host # Absent /\ ~world.host.disabled
           \/ /\ Query = "host" /\ Len(got) = 0 /\ Control = "maintenance"
              /\ world.host # Absent
           \/ /\ Query = "triggers" /\ Len(got) = 1 /\ Control \in {"problems", "events"}
              /\ Evaluated({world})
           \/ Query = "direct" /\ Len(got) = 1 /\ Control = "maintenance"
<1>1. Stages /\ Control \in Asks(provider)
  BY StageOfQuery DEF LiveInv
<1>2. \A code \in {"MISSING", "UNAVAILABLE", "INVALID_RESPONSE"} :
          Unknown(code) # NoObservation /\ Unobserved(code) # NoObservation
  BY UnknownIsOne DEF Codes
<1>3. \A s \in {"PASS", "FAIL"} : Concluded(s) # NoObservation
  BY ConcludedIsOne
<1>4. CASE Query = "host"
  <2>1. Answer(world, Query) = world.host
    BY <1>4 DEF Answer
  <2>2. Control # "host"
    BY <1>2, <1>3, <1>4, <2>1 DEF Conclude, OfHost
  <2>3. CASE Control = "maintenance"
    BY <1>1, <1>2, <1>4, <2>1, <2>3 DEF Conclude, VisibleHost, Stages
  <2>4. CASE Control \in {"triggers", "problems", "events", "freshness"}
    <3>1. EnabledHost(world.host) = NoObservation
      BY <1>4, <2>1, <2>4 DEF Conclude
    <3>2. world.host # Absent /\ ~world.host.disabled
      BY <1>2, <3>1 DEF EnabledHost
    <3>3. QED
      BY <1>1, <1>4, <2>4, <3>2 DEF Stages
  <2>5. QED
    BY <1>1, <1>4, <2>2, <2>3, <2>4 DEF Stages
<1>5. CASE Query = "triggers"
  <2>1. Answer(world, Query) = world.triggers
    BY <1>5 DEF Answer
  <2>2. OfTriggers(world.triggers) # NoObservation
    BY <1>2, <1>3 DEF OfTriggers
  <2>3. EvaluatedTriggers(world.triggers) = NoObservation
        /\ Len(got) + 1 # Len(Queries(Control))
    BY <1>5, <2>1, <2>2 DEF Conclude
  <2>4. PICK n \in Nat : Len(got) = n
    BY DEF LiveInv, Typed
  <2>5. Len(got) = 1 /\ Control \in {"problems", "events"}
    <3>1. Len(got) = 1 /\ Control \in {"triggers", "problems", "events"}
      BY <1>1, <1>5 DEF Stages
    <3>2. Control = "triggers" => n + 1 = Len(Queries(Control))
      BY <2>4, <3>1 DEF Queries
    <3>3. QED
      BY <2>3, <2>4, <3>1, <3>2
  <2>6. Evaluated({world})
    BY <1>2, <2>3 DEF EvaluatedTriggers, Incomplete, Evaluated
  <2>7. QED
    BY <1>5, <2>5, <2>6
<1>6. CASE Query = "direct"
  BY <1>1, <1>6 DEF Stages
<1>7. CASE Query = "grouped"
  BY <1>2, <1>3, <1>7 DEF Conclude, OfMaintenance
<1>8. CASE Query = "items"
  <2>1. world \in Worlds /\ world.provider = "zabbix"
    BY <1>1, <1>8, AsksType DEF LiveInv, Typed, OwnWorlds, Stages
  <2>2. QED
    BY <1>8, <2>1, ItemsConclude DEF Conclude, Answer
<1>9. CASE Query = "resource"
  BY <1>2, <1>3, <1>9 DEF Conclude, OfPolicy
<1>10. QED
  BY <1>1, <1>4, <1>5, <1>6, <1>7, <1>8, <1>9 DEF Stages, Paged

\* A favourable answer is witnessed by the world it was given in and by those
\* that let the control come so far.
LEMMA AnswerSupports ==
    ASSUME LiveInv, todo # {}, Queries(Control) # << >>, Query \notin Paged,
           Conclude(Answer(world, Query)) # NoObservation
    PROVE  Supports(Conclude(Answer(world, Query)))
<1> DEFINE o == Conclude(Answer(world, Query))
<1>1. Stages /\ Control \in Asks(provider)
  BY StageOfQuery DEF LiveInv
<1>2. \A code \in {"MISSING", "UNAVAILABLE", "INVALID_RESPONSE"} :
          Supports(Unknown(code)) /\ Supports(Unobserved(code))
  BY UnknownSupports DEF Codes
<1>3. \A s : Concluded(s).status = s /\ EvaluatedAt < Until(Concluded(s).expires)
  BY UntilBound DEF Concluded, Observation
<1>4. world \in during /\ world \in Worlds /\ world.provider = provider
  BY DEF LiveInv, Typed, OwnWorlds
<1>5. \A x : Evidence(Control, x).control = Control /\ Evidence(Control, x).during = during
             /\ Evidence(Control, x).until = Until(x.expires)
  BY DEF Evidence
<1>6. CASE Query = "discover"
  <2>1. o \in {Unobserved("INVALID_RESPONSE"), Unobserved("UNAVAILABLE"), NoObservation}
    BY <1>6 DEF Conclude, OfProject
  <2>2. QED
    BY <1>2, <2>1
<1>7. CASE Query = "host"
  <2>1. Answer(world, Query) = world.host
    BY <1>7 DEF Answer
  <2>2. CASE Control = "host"
    <3>1. o = OfHost(world.host)
      BY <1>7, <2>1, <2>2 DEF Conclude
    <3>2. CASE world.host = Absent
      BY <1>2, <3>1, <3>2 DEF OfHost
    <3>3. CASE world.host # Absent
      <4>1. o = Concluded(IF world.host.disabled THEN "FAIL" ELSE "PASS")
        BY <3>1, <3>3 DEF OfHost
      <4>2. o.status = "PASS" => ~world.host.disabled
        BY <1>3, <4>1
      <4>3. QED
        BY <1>3, <1>4, <1>5, <2>2, <3>3, <4>1, <4>2 DEF Supports, Witnessed, Monitored
    <3>4. QED
      BY <3>2, <3>3
  <2>3. CASE Control = "maintenance"
    <3>1. o \in {Unknown("MISSING"), NoObservation}
      BY <1>7, <2>1, <2>3 DEF Conclude, VisibleHost
    <3>2. QED
      BY <1>2, <3>1
  <2>4. CASE Control \in {"triggers", "problems", "events", "freshness"}
    <3>1. o \in {Unknown("MISSING"), Unobserved("UNAVAILABLE"), NoObservation}
      BY <1>7, <2>1, <2>4 DEF Conclude, EnabledHost
    <3>2. QED
      BY <1>2, <3>1
  <2>5. QED
    BY <1>1, <1>7, <2>2, <2>3, <2>4 DEF Stages
<1>8. CASE Query = "triggers"
  <2>1. Answer(world, Query) = world.triggers
    BY <1>8 DEF Answer
  <2>2. CASE o = EvaluatedTriggers(world.triggers)
    <3>1. o \in {Unknown("MISSING"), Unknown("UNAVAILABLE"), NoObservation}
      BY <2>2 DEF EvaluatedTriggers
    <3>2. QED
      BY <1>2, <3>1
  <2>3. CASE o = OfTriggers(world.triggers) /\ Len(got) + 1 = Len(Queries(Control))
    <3>1. Control = "triggers"
      <4>1. PICK n \in Nat : Len(got) = n
        BY DEF LiveInv, Typed
      <4>2. n = 1 /\ Control \in {"triggers", "problems", "events"}
        BY <1>1, <1>8, <4>1 DEF Stages
      <4>3. Control \in {"problems", "events"} => n + 1 # Len(Queries(Control))
        BY <4>2 DEF Queries
      <4>4. QED
        BY <2>3, <4>1, <4>2, <4>3
    <3>2. got # << >>
      BY <1>1, <1>8 DEF Stages
    <3>3. Monitored(during)
      BY <3>1, <3>2 DEF LiveInv, Supported
    <3>4. o.status = "PASS" => Evaluated(during)
      <4>1. o \in {Unknown("MISSING"), Unknown("UNAVAILABLE"), Concluded("FAIL")}
            \/ (/\ o = Concluded("PASS") /\ ~Incomplete(world.triggers)
                /\ \A i \in DOMAIN world.triggers :
                       /\ ~world.triggers[i].unknown /\ ~world.triggers[i].disabled)
        BY <2>3 DEF OfTriggers
      <4>2. \A c \in {"MISSING", "UNAVAILABLE"} : Unknown(c).status # "PASS"
        BY UnknownIsOne DEF Codes
      <4>3. QED
        BY <1>3, <1>4, <4>1, <4>2 DEF Evaluated, Incomplete
    <3>5. o.status = "PASS" => EvaluatedAt < Until(o.expires)
      <4>1. o \in {Unknown("MISSING"), Unknown("UNAVAILABLE"), Concluded("FAIL"), Concluded("PASS")}
        BY <2>3 DEF OfTriggers
      <4>2. QED
        BY <4>1, <1>3, UntilBound DEF Unknown, Observation
    <3>6. QED
      BY <1>5, <3>1, <3>3, <3>4, <3>5 DEF Supports, Witnessed
  <2>4. QED
    BY <1>8, <2>1, <2>2, <2>3 DEF Conclude
<1>9. CASE Query = "direct"
  <2>1. o = NoObservation
    BY <1>9 DEF Conclude
  <2>2. QED
    BY <2>1
<1>10. CASE Query = "grouped"
  <2>1. Control = "maintenance" /\ Len(got) = 2 /\ got # << >>
    BY <1>1, <1>10 DEF Stages
  <2>2. PICK v \in during : got[1] = v.host /\ v.host # Absent
    BY <2>1 DEF LiveInv, Supported
  <2>3. PICK u \in during : got[2] = Direct(u.windows)
    BY <2>1 DEF LiveInv, Supported
  <2>4. o = OfMaintenance(v.host, Direct(u.windows), Grouped(world.windows), EvaluatedAt)
    BY <1>10, <2>2, <2>3 DEF Conclude, Answer
  <2>5. o \in {Unobserved("INVALID_RESPONSE"), Unknown("UNAVAILABLE"), Concluded("FAIL")}
        \/ (/\ o = Concluded("PASS") /\ ~v.host.maintained
            /\ \A m \in Direct(u.windows) \cup Grouped(world.windows) : ~Overlaps(m, EvaluatedAt))
    BY <2>4 DEF OfMaintenance
  <2>6. \A c \in {"INVALID_RESPONSE", "UNAVAILABLE"} :
            Unknown(c).status # "PASS" /\ Unobserved(c).status # "PASS"
    BY UnknownIsOne DEF Codes
  <2>7. SUFFICES ASSUME o.status = "PASS"
                 PROVE  EvaluatedAt < Until(o.expires) /\ Witnessed(Evidence(Control, o))
    BY <2>1 DEF Supports
  <2>8. /\ o = Concluded("PASS") /\ ~v.host.maintained
        /\ \A m \in Direct(u.windows) \cup Grouped(world.windows) : ~Overlaps(m, EvaluatedAt)
    BY <1>3, <2>5, <2>6, <2>7
  <2>9. ASSUME NEW m \in Throughout(during, LAMBDA w : w.windows), m.via \cap {"host", "group"} # {}
        PROVE  ~Overlaps(m, EvaluatedAt)
    <3>1. m \in u.windows /\ m \in world.windows
      BY <1>4, <2>9 DEF Throughout
    <3>2. m \in Direct(u.windows) \cup Grouped(world.windows)
      BY <2>9, <3>1 DEF Direct, Grouped
    <3>3. QED
      BY <2>8, <3>2
  <2>10. Witnessed(Evidence(Control, o))
    BY <1>5, <2>1, <2>2, <2>8, <2>9 DEF Witnessed
  <2>11. QED
    BY <1>3, <2>8, <2>10
<1>11. CASE Query = "items"
  <2>1. Control = "freshness" /\ got # << >> /\ provider = "zabbix"
    <3>1. Control = "freshness" /\ Len(got) = 1
      BY <1>1, <1>11 DEF Stages
    <3>2. provider = "zabbix"
      BY <1>1, <3>1, AsksType DEF LiveInv, Typed
    <3>3. QED
      BY <3>1, <3>2
  <2>2. o = OfItems(world.items, EvaluatedAt)
    BY <1>11 DEF Conclude, Answer
  <2>3. Monitored(during)
    BY <2>1 DEF LiveInv, Supported
  <2>4. SUFFICES ASSUME o.status = "PASS"
                 PROVE  EvaluatedAt < Until(o.expires) /\ Witnessed(Evidence(Control, o))
    BY <2>1 DEF Supports
  <2>5. /\ o.expires \in Int /\ EvaluatedAt < o.expires
        /\ \A i \in DOMAIN world.items :
               world.items[i] # Absent /\ o.expires <= world.items[i].clock + MaxSampleAge
    BY <1>4, <2>1, <2>2, <2>4, ItemsConclude
  <2>6. EvaluatedAt < Until(o.expires) /\ Until(o.expires) <= o.expires
    BY <2>5, UntilBound
  <2>7. \A i \in DOMAIN world.items :
            world.items[i] # Absent /\ Until(o.expires) <= world.items[i].clock + MaxSampleAge
    <3> SUFFICES ASSUME NEW i \in DOMAIN world.items
                 PROVE  Until(o.expires) <= world.items[i].clock + MaxSampleAge
      BY <2>5
    <3>1. world.items[i].clock + MaxSampleAge \in Int
      BY <1>4, <2>1, <2>5, WorldsAssumption, BudgetAssumption
    <3>2. Until(o.expires) \in Int
      BY <2>5, UntilBound
    <3>3. QED
      BY <2>5, <2>6, <3>1, <3>2
  <2>8. QED
    BY <1>4, <1>5, <2>1, <2>3, <2>6, <2>7 DEF Witnessed
<1>12. CASE Query = "resource"
  <2>1. Control = "resource" /\ provider = "gcp"
    BY <1>1, <1>12, AsksType DEF Stages, LiveInv, Typed
  <2>2. o = IF world.resource = Absent THEN Unknown("MISSING") ELSE OfPolicy(world.resource)
    BY <1>12 DEF Conclude, Answer
  <2>3. CASE o # Concluded("PASS")
    <3>1. o \in {Unknown("MISSING"), Concluded("FAIL"), Unobserved("INVALID_RESPONSE")}
      BY <2>2, <2>3 DEF OfPolicy
    <3>2. QED
      BY <1>2, <1>3, <3>1 DEF Supports
  <2>4. CASE o = Concluded("PASS")
    <3>1. \A c \in {"MISSING", "INVALID_RESPONSE"} :
              Unknown(c).status # "PASS" /\ Unobserved(c).status # "PASS"
      BY UnknownIsOne DEF Codes
    <3>2. /\ world.resource # Absent /\ world.resource.enabled # "unset"
          /\ world.resource.enabled # "off" /\ world.resource.valid
      BY <1>3, <2>2, <2>4, <3>1 DEF OfPolicy
    <3>3. world.resource.enabled = "on"
      BY <1>4, <2>1, <3>2, WorldsAssumption
    <3>4. QED
      BY <1>3, <1>4, <1>5, <2>1, <2>4, <3>2, <3>3 DEF Supports, Witnessed
  <2>5. QED
    BY <2>3, <2>4
<1>13. QED
  BY <1>1, <1>6, <1>7, <1>8, <1>9, <1>10, <1>11, <1>12 DEF Stages, Paged

-----------------------------------------------------------------------------
(* Pages *)

\* The worlds of the provider that has the rows.
Fits(w, query) ==
    /\ w \in Worlds
    /\ w.provider = IF query \in {"problems", "events"} THEN "zabbix" ELSE "gcp"

LEMMA QueryFits ==
    ASSUME Typed, Stages, Control \in Asks(provider), Query \in Paged, NEW w \in during
    PROVE  Fits(w, Query)
<1>1. Control = Query
  BY DEF Stages, Paged
<1>2. w \in Worlds /\ w.provider = provider
  BY DEF Typed, OwnWorlds
<1>3. CASE Query \in {"problems", "events"}
  BY <1>1, <1>2, <1>3, AsksType DEF Typed, Fits
<1>4. CASE Query \in {"metric", "asset"}
  BY <1>1, <1>2, <1>4, AsksType DEF Typed, Fits
<1>5. QED
  BY <1>3, <1>4 DEF Paged

\* The image of a finite set under Key is finite.
LEMMA FiniteKeys ==
    ASSUME NEW query, NEW S, IsFiniteSet(S)
    PROVE  IsFiniteSet(KeysOf(query, S))
<1> DEFINE f == [r \in S |-> Key(query, r)]
<1>1. f \in Surjection(S, KeysOf(query, S))
  BY DEF Surjection, KeysOf
<1>2. QED
  BY <1>1, FS_Surjection

\* Rows are finitely many, and their keys are positive and their own.
LEMMA RowsAreKeyed ==
    ASSUME NEW query \in Paged, NEW w, Fits(w, query)
    PROVE  /\ IsFiniteSet(Rows(w, query)) /\ Rows(w, query) \subseteq PageRows
           /\ \A r \in Rows(w, query) : Key(query, r) \in Nat \ {0}
           /\ \A r, s \in Rows(w, query) : Key(query, r) = Key(query, s) => r = s
<1>1. w \in Worlds /\ Rows(w, query) \subseteq PageRows
  BY DEF Fits, PageRows
<1>2. CASE query \in {"problems", "events"}
  <2>1. /\ IsFiniteSet(w.events) /\ \A e \in w.events : e.id \in Nat \ {0}
        /\ \A e, f \in w.events : e.id = f.id => e = f
    BY <1>2, WorldsAssumption DEF Fits
  <2>2. Rows(w, query) \in SUBSET w.events
    BY <1>2 DEF Rows
  <2>3. IsFiniteSet(Rows(w, query))
    BY <2>1, <2>2, FS_Subset
  <2>4. QED
    BY <1>1, <1>2, <2>1, <2>2, <2>3 DEF Key
<1>3. CASE query = "asset"
  <2>1. IsFiniteSet(w.assets) /\ w.assets \subseteq Nat \ {0}
    BY <1>3, WorldsAssumption DEF Fits
  <2>2. Rows(w, query) = w.assets
    BY <1>3 DEF Rows
  <2>3. QED
    BY <1>1, <1>3, <2>1, <2>2 DEF Key
<1>4. CASE query = "metric"
  <2> DEFINE ids == {j \in DOMAIN w.series : Sampled(w, j) # {}}
             f == [i \in ids |-> [name |-> i, points |-> Sampled(w, i)]]
  <2>1. w.series \in Seq(SUBSET Nat)
    BY <1>4, WorldsAssumption DEF Fits
  <2>2. DOMAIN w.series = 1..Len(w.series) /\ Len(w.series) \in Nat
    BY <2>1
  <2>3. IsFiniteSet(DOMAIN w.series)
    BY <2>2, FS_Interval
  <2>4. ids \in SUBSET (DOMAIN w.series)
    OBVIOUS
  <2>5. IsFiniteSet(ids)
    BY <2>3, <2>4, FS_Subset
  <2>6. f \in Surjection(ids, Rows(w, query))
    BY <1>4 DEF Rows, Surjection
  <2>7. IsFiniteSet(Rows(w, query))
    BY <2>5, <2>6, FS_Surjection
  <2>8. \A r \in Rows(w, query) :
            r.name \in ids /\ r = [name |-> r.name, points |-> Sampled(w, r.name)]
    BY <1>4 DEF Rows
  <2>9. \A i \in ids : i \in Nat \ {0}
    BY <2>2, <2>4
  <2>10. QED
    <3> HIDE DEF ids
    <3> QED
      BY <1>1, <1>4, <2>7, <2>8, <2>9 DEF Key
<1>5. QED
  BY <1>2, <1>3, <1>4 DEF Paged

\* The key of the last row of a page.
LEMMA LastKey ==
    ASSUME NEW query \in Paged, NEW w, Fits(w, query), NEW page, page # {},
           page \subseteq Rows(w, query)
    PROVE  /\ Max(KeysOf(query, page)) \in Nat \ {0}
           /\ \E r \in page : Key(query, r) = Max(KeysOf(query, page))
           /\ \A r \in page : Key(query, r) <= Max(KeysOf(query, page))
<1> DEFINE keys == KeysOf(query, page)
<1>1. IsFiniteSet(page)
  <2>1. page \in SUBSET Rows(w, query)
    OBVIOUS
  <2>2. QED
    BY <2>1, RowsAreKeyed, FS_Subset
<1>2. keys # {} /\ keys \subseteq Nat \ {0}
  BY RowsAreKeyed DEF KeysOf
<1>3. IsFiniteSet(keys)
  BY <1>1, FiniteKeys
<1>4. Max(keys) \in keys /\ \A m \in keys : m <= Max(keys)
  BY <1>2, <1>3, GreatestNatural
<1>5. QED
  BY <1>2, <1>4 DEF KeysOf

\* A page has the rows after its cursor up to its own last row, and is empty
\* only if there are none.
LEMMA PageIsNext ==
    ASSUME NEW query \in Paged, Fits(world, query), NEW k \in Nat
    PROVE  /\ PageAfter(query, k) \subseteq Rows(world, query)
           /\ PageAfter(query, k) = {} =>
                  \A r \in Rows(world, query) : Key(query, r) <= k
           /\ PageAfter(query, k) # {} =>
                  \A r \in Rows(world, query) :
                      Key(query, r) > k /\ Key(query, r) <= Max(KeysOf(query, PageAfter(query, k)))
                      => r \in PageAfter(query, k)
<1> DEFINE rest == {r \in Rows(world, query) : Key(query, r) > k}
           Below(r) == {s \in rest : Key(query, s) <= Key(query, r)}
           page == PageAfter(query, k)
<1>1. page = {r \in rest : Cardinality(Below(r)) <= PageSize}
  BY DEF PageAfter
<1>2. /\ \A r \in Rows(world, query) : Key(query, r) \in Nat \ {0}
      /\ \A r, s \in Rows(world, query) : Key(query, r) = Key(query, s) => r = s
      /\ IsFiniteSet(rest)
  <2>1. rest \in SUBSET Rows(world, query)
    OBVIOUS
  <2>2. QED
    BY <2>1, RowsAreKeyed, FS_Subset
<1>3. \A r : IsFiniteSet(Below(r)) /\ Cardinality(Below(r)) \in Nat
  <2> SUFFICES ASSUME NEW r PROVE IsFiniteSet(Below(r)) /\ Cardinality(Below(r)) \in Nat
    OBVIOUS
  <2>1. Below(r) \in SUBSET rest
    OBVIOUS
  <2>2. QED
    BY <1>2, <2>1, FS_Subset, FS_CardinalityType
<1>4. ASSUME page = {}, rest # {} PROVE FALSE
  <2> DEFINE T == {Key(query, r) : r \in rest}
  <2>1. T \subseteq Nat /\ T # {}
    BY <1>2, <1>4
  <2>2. PICK n \in T : \A m \in T : n <= m
    BY <2>1, LeastNatural
  <2>3. PICK r \in rest : n = Key(query, r)
    BY <2>2
  <2>4. \A s \in Below(r) : s = r
    <3> SUFFICES ASSUME NEW s \in Below(r) PROVE s = r
      OBVIOUS
    <3>1. s \in rest /\ Key(query, s) <= Key(query, r) /\ Key(query, r) <= Key(query, s)
      BY <2>2, <2>3
    <3>2. Key(query, s) \in Nat /\ Key(query, r) \in Nat
      BY <1>2, <3>1
    <3>3. Key(query, s) = Key(query, r)
      BY <3>1, <3>2
    <3>4. QED
      BY <1>2, <3>1, <3>3
  <2>5. r \in Below(r)
    BY <1>2
  <2>6. Below(r) = {r}
    BY <2>4, <2>5
  <2>7. Cardinality(Below(r)) = 1
    BY <2>6, FS_Singleton
  <2>8. Cardinality(Below(r)) <= PageSize
    BY <2>7, BudgetAssumption
  <2>9. QED
    BY <1>1, <1>4, <2>8
<1>5. ASSUME NEW r \in rest, NEW s \in page, Key(query, r) <= Key(query, s)
      PROVE  r \in page
  <2>1. Below(r) \in SUBSET Below(s)
    <3> SUFFICES ASSUME NEW x \in rest, Key(query, x) <= Key(query, r)
                 PROVE  Key(query, x) <= Key(query, s)
      OBVIOUS
    <3>1. Key(query, x) \in Nat /\ Key(query, r) \in Nat /\ Key(query, s) \in Nat
      BY <1>1, <1>2
    <3>2. QED
      BY <1>5, <3>1
  <2>2. Cardinality(Below(r)) <= Cardinality(Below(s))
    BY <1>3, <2>1, FS_Subset
  <2>3. Cardinality(Below(s)) <= PageSize
    BY <1>1
  <2>4. Cardinality(Below(r)) \in Nat /\ Cardinality(Below(s)) \in Nat /\ PageSize \in Nat
    BY <1>3, BudgetAssumption
  <2>5. Cardinality(Below(r)) <= PageSize
    <3> HIDE DEF Below
    <3> QED BY <2>2, <2>3, <2>4
  <2>6. QED
    BY <1>1, <2>5
<1>6. page \subseteq Rows(world, query)
  BY <1>1
<1>7. page = {} => \A r \in Rows(world, query) : Key(query, r) <= k
  <2> SUFFICES ASSUME page = {}, NEW r \in Rows(world, query) PROVE Key(query, r) <= k
    OBVIOUS
  <2>1. ~(Key(query, r) > k)
    BY <1>4
  <2>2. QED
    BY <1>2, <2>1
<1>8. ASSUME page # {}, NEW r \in Rows(world, query), Key(query, r) > k,
             Key(query, r) <= Max(KeysOf(query, page))
      PROVE  r \in page
  <2>1. PICK s \in page : Key(query, s) = Max(KeysOf(query, page))
    BY <1>6, <1>8, LastKey
  <2>2. r \in rest /\ Key(query, r) <= Key(query, s)
    BY <1>8, <2>1
  <2>3. QED
    BY <1>5, <2>2
<1>9. QED
  BY <1>6, <1>7, <1>8

\* The pages with one more.
LEMMA OneMorePage ==
    ASSUME Typed, NEW page \in SUBSET PageRows
    PROVE  LET all == Append(pages, page) IN
           /\ all \in Seq(SUBSET PageRows) /\ Len(all) = Len(pages) + 1
           /\ DOMAIN all = DOMAIN pages \cup {Len(pages) + 1}
           /\ Len(pages) + 1 \notin DOMAIN pages /\ all[Len(pages) + 1] = page
           /\ \A n \in DOMAIN pages : all[n] = pages[n]
<1>1. pages \in Seq(SUBSET PageRows) /\ Len(pages) \in Nat /\ DOMAIN pages = 1..Len(pages)
  BY DEF Typed
<1>2. QED
  BY <1>1

\* The cursor is the key of a row, or 0 before the first page.
LEMMA CursorType ==
    ASSUME LiveInv, Stages, Control \in Asks(provider), Query \in Paged
    PROVE  Cursor \in Nat
<1>1. CASE pages = << >>
  BY <1>1 DEF Cursor
<1>2. CASE pages # << >>
  <2>1. Len(pages) \in DOMAIN pages
    BY <1>2 DEF LiveInv, Typed
  <2>2. PICK w \in during : pages[Len(pages)] \subseteq Rows(w, Query)
    BY <2>1 DEF LiveInv, ReadRows
  <2>3. pages[Len(pages)] # {}
    BY <2>1 DEF LiveInv, ReadRows
  <2>4. Fits(w, Query)
    BY QueryFits DEF LiveInv
  <2>5. Max(KeysOf(Query, pages[Len(pages)])) \in Nat
    BY <2>2, <2>3, <2>4, LastKey
  <2>6. QED
    BY <1>2, <2>5 DEF Cursor
<1>3. QED
  BY <1>1, <1>2

\* What a page is: the rows after the cursor, or after 0 when it is ignored.
IsPage(page) == \E k \in {0, Cursor} : page = PageAfter(Query, k)

LEMMA PageType ==
    ASSUME LiveInv, Stages, Control \in Asks(provider), Query \in Paged, NEW page, IsPage(page)
    PROVE  /\ page \subseteq Rows(world, Query) /\ page \in SUBSET PageRows
           /\ Fits(world, Query)
<1>1. Fits(world, Query)
  BY QueryFits DEF LiveInv, Typed
<1>2. PICK k \in Nat : page = PageAfter(Query, k)
  BY CursorType DEF IsPage
<1>3. QED
  BY <1>1, <1>2, PageIsNext, RowsAreKeyed

\* Series that are sampled all the time are not skipped by a page.
LEMMA PageSkipsNone ==
    ASSUME LiveInv, Stages, Control \in Asks(provider), Query = "metric", todo # {},
           NEW page, IsPage(page), NEW i \in Nat, Present(during, i)
    PROVE  /\ page # {} /\ i <= Max(KeysOf(Query, page)) => Named(Append(pages, page), i)
           /\ FinalPage(page) => Named(Append(pages, page), i)
<1>1. Query \in Paged /\ Control = "metric"
  BY DEF Paged, Stages
<1>2. page \subseteq Rows(world, Query) /\ page \in SUBSET PageRows /\ Fits(world, Query)
  BY <1>1, PageType
<1>3. PICK k \in {0, Cursor} : page = PageAfter(Query, k)
  BY DEF IsPage
<1>4. k \in Nat
  BY <1>1, <1>3, CursorType
<1>5. world \in during /\ world \in Worlds /\ world.provider = "gcp"
  BY <1>2 DEF LiveInv, Typed, Fits
<1>6. Sampled(world, i) # {} /\ i > 0
  BY <1>5, SeriesAreNumbered DEF Present
<1>7. /\ [name |-> i, points |-> Sampled(world, i)] \in Rows(world, Query)
      /\ Key(Query, [name |-> i, points |-> Sampled(world, i)]) = i
  BY <1>6 DEF Rows, Key, Sampled
<1>8. i <= k => Named(Append(pages, page), i)
  <2> SUFFICES ASSUME i <= k PROVE Named(Append(pages, page), i)
    OBVIOUS
  <2>1. k = Cursor
    BY <1>3, <1>6
  <2>2. Named(pages, i)
    BY <1>1, <2>1 DEF LiveInv, NoneSkipped
  <2>3. PICK n \in DOMAIN pages : \E s \in pages[n] : s.name = i
    BY <2>2 DEF Named
  <2>4. n \in DOMAIN Append(pages, page) /\ Append(pages, page)[n] = pages[n]
    BY <1>2, <2>3, OneMorePage DEF LiveInv
  <2>5. QED
    BY <2>3, <2>4 DEF Named
<1>9. ASSUME page # {}, i <= Max(KeysOf(Query, page))
      PROVE  Named(Append(pages, page), i)
  <2>1. CASE i <= k
    BY <1>8, <2>1
  <2>2. CASE ~(i <= k)
    <3>1. [name |-> i, points |-> Sampled(world, i)] \in page
      BY <1>1, <1>2, <1>3, <1>4, <1>7, <1>9, <2>2, PageIsNext
    <3>2. /\ Len(pages) + 1 \in DOMAIN Append(pages, page)
          /\ Append(pages, page)[Len(pages) + 1] = page
      BY <1>2, OneMorePage DEF LiveInv
    <3>3. QED
      BY <3>1, <3>2 DEF Named
  <2>3. QED
    BY <2>1, <2>2
<1>10. ASSUME FinalPage(page)
       PROVE  Named(Append(pages, page), i)
  <2>1. provider = "gcp"
    BY <1>1, AsksType DEF LiveInv, Typed
  <2>2. CASE page = {}
    <3>1. i <= k
      BY <1>1, <1>2, <1>3, <1>4, <1>7, <2>2, PageIsNext
    <3>2. QED
      BY <1>8, <3>1
  <2>3. CASE page # {}
    <3>1. PageAfter(Query, Max(KeysOf(Query, page))) = {}
      BY <1>10, <2>1, <2>3 DEF FinalPage
    <3>2. Max(KeysOf(Query, page)) \in Nat
      BY <1>1, <1>2, <2>3, LastKey
    <3>3. i <= Max(KeysOf(Query, page))
      BY <1>1, <1>2, <1>7, <3>1, <3>2, PageIsNext
    <3>4. QED
      BY <1>9, <2>3, <3>3
  <2>4. QED
    BY <2>2, <2>3
<1>11. QED
  BY <1>9, <1>10

\* The rows of all pages were there at one moment each.
LEMMA FlatRows ==
    ASSUME LiveInv, NEW page \in SUBSET PageRows, page \subseteq Rows(world, Query)
    PROVE  LET all == Append(pages, page) IN
           /\ \A r \in Flat(all) : \E w \in during : r \in Rows(w, Query)
           /\ \A n \in DOMAIN all : all[n] \subseteq Flat(all)
<1> DEFINE all == Append(pages, page)
<1>1. \A r \in Flat(all) : \E n \in DOMAIN all : r \in all[n]
  BY DEF Flat, Range
<1>2. \A n \in DOMAIN all : all[n] \subseteq Flat(all)
  BY DEF Flat, Range
<1>3. \A n \in DOMAIN all : (n \in DOMAIN pages /\ all[n] = pages[n]) \/ all[n] = page
  BY OneMorePage DEF LiveInv
<1>4. \A n \in DOMAIN all : \E w \in during : all[n] \subseteq Rows(w, Query)
  BY <1>3 DEF LiveInv, ReadRows, Typed
<1>5. QED
  BY <1>1, <1>2, <1>4

\* A metric passes only on a recent sample of each of its series.
LEMMA MetricSupports ==
    ASSUME LiveInv, Stages, Control \in Asks(provider), Query = "metric", todo # {},
           NEW page, IsPage(page), FinalPage(page)
    PROVE  Supports(OfMetric(Append(pages, page), EvaluatedAt))
<1> DEFINE all == Append(pages, page)
           series == Flat(all)
           Points(r) == UNION {s.points : s \in {t \in series : t.name = r.name}}
           latest == {Max(Points(r)) : r \in series}
           o == OfMetric(all, EvaluatedAt)
<1>1. Query \in Paged /\ Control = "metric"
  BY DEF Paged, Stages
<1>2. page \subseteq Rows(world, Query) /\ page \in SUBSET PageRows
  BY <1>1, PageType
<1>3. /\ \A r \in series : \E w \in during : r \in Rows(w, Query)
      /\ \A n \in DOMAIN all : all[n] \subseteq series
  BY <1>2, FlatRows
<1>4. /\ Interval \subseteq Int
      /\ \A p \in Interval : EvaluatedAt - Lookback <= p /\ p <= EvaluatedAt
      /\ EvaluatedAt - Lookback \in Int /\ EvaluatedAt \in Int /\ MaxSampleAge \in Int
  BY BudgetAssumption DEF Interval
<1>5. \A r \in series : \E w \in during :
          r.points = Sampled(w, r.name) /\ r.points \subseteq Interval /\ r.points # {}
  <2> SUFFICES ASSUME NEW r \in series
               PROVE  \E w \in during : r.points = Sampled(w, r.name)
                                        /\ r.points \subseteq Interval /\ r.points # {}
    OBVIOUS
  <2>1. PICK w \in during : r \in Rows(w, "metric")
    BY <1>3
  <2>2. PICK i : r = [name |-> i, points |-> Sampled(w, i)] /\ Sampled(w, i) # {}
    BY <2>1 DEF Rows
  <2>3. Sampled(w, i) \subseteq Interval
    BY DEF Sampled
  <2>4. QED
    BY <2>2, <2>3
<1>6. \A r \in series : /\ Max(Points(r)) \in Points(r) /\ Max(Points(r)) \in Interval
                        /\ \A p \in Points(r) : p <= Max(Points(r))
  <2> SUFFICES ASSUME NEW r \in series
               PROVE  /\ Max(Points(r)) \in Points(r) /\ Max(Points(r)) \in Interval
                      /\ \A p \in Points(r) : p <= Max(Points(r))
    OBVIOUS
  <2>1. Points(r) \subseteq Interval
    BY <1>5
  <2>2. r.points \subseteq Points(r) /\ r.points # {}
    BY <1>5
  <2>3. Points(r) \subseteq Int /\ Points(r) # {} /\ \A p \in Points(r) : p <= EvaluatedAt
    BY <1>4, <2>1, <2>2
  <2> HIDE DEF Points
  <2>4. QED
    BY <1>4, <2>1, <2>3, GreatestInteger
<1>7. SUFFICES ASSUME o.status = "PASS"
               PROVE  /\ EvaluatedAt < Until(o.expires)
                      /\ Witnessed(Evidence(Control, o))
  BY <1>1 DEF Supports
<1>8. /\ o = Observation("PASS", "none", OldestLatest(series) + MaxSampleAge)
      /\ ~(OldestLatest(series) + MaxSampleAge <= EvaluatedAt) /\ series # {}
  <2>1. \A c \in {"MISSING", "FUTURE", "INVALID_RESPONSE", "STALE"} :
            Unknown(c).status # "PASS" /\ Unobserved(c).status # "PASS"
    BY UnknownIsOne DEF Codes
  <2>2. \A points : Trouble(points, EvaluatedAt).status # "PASS"
    BY <2>1 DEF Trouble
  <2> HIDE DEF series
  <2>3. QED
    BY <1>7, <2>1, <2>2 DEF OfMetric, series
<1>9. OldestLatest(series) = Min(latest)
  BY DEF OldestLatest
<1>10. Min(latest) \in Int /\ \A r \in series : Min(latest) <= Max(Points(r))
  <2>1. latest # {} /\ latest \subseteq Interval
    <3> HIDE DEF series, Points
    <3>1. \A m \in latest : \E r \in series : m = Max(Points(r))
      OBVIOUS
    <3>2. PICK r \in series : TRUE
      BY <1>8
    <3>3. Max(Points(r)) \in latest
      OBVIOUS
    <3>4. QED
      BY <1>6, <3>1, <3>3
  <2>2. latest \subseteq Int /\ \A m \in latest : EvaluatedAt - Lookback <= m
    BY <1>4, <2>1
  <2>3. \A r \in series : Max(Points(r)) \in latest
    OBVIOUS
  <2> HIDE DEF latest
  <2>4. Min(latest) \in latest /\ \A m \in latest : Min(latest) <= m
    BY <1>4, <2>1, <2>2, MinInteger
  <2>5. QED
    BY <2>2, <2>3, <2>4
<1>11. o.expires = Min(latest) + MaxSampleAge /\ o.expires \in Int /\ EvaluatedAt < o.expires
  <2>1. o.expires = Min(latest) + MaxSampleAge
    BY <1>8, <1>9 DEF Observation
  <2>2. Min(latest) \in Int /\ ~(Min(latest) + MaxSampleAge <= EvaluatedAt)
    BY <1>8, <1>9, <1>10
  <2> HIDE DEF latest, o
  <2>3. QED
    BY <1>4, <2>1, <2>2
<1>12. Until(o.expires) \in Int /\ Until(o.expires) <= o.expires /\ EvaluatedAt < Until(o.expires)
  BY <1>11, UntilBound
<1>13. ASSUME NEW i \in UNION {DOMAIN w.series : w \in during}, Present(during, i)
       PROVE  \E w \in during : Until(o.expires) <= Max(Sampled(w, i)) + MaxSampleAge
  <2>1. i \in Nat
    <3>1. world \in during /\ world \in Worlds /\ world.provider = "gcp"
      BY <1>1, AsksType DEF LiveInv, Typed, OwnWorlds
    <3>2. QED
      BY <1>13, <3>1, SeriesAreNumbered DEF Present
  <2>2. Named(all, i)
    BY <1>13, <2>1, PageSkipsNone
  <2>3. PICK s \in series : s.name = i
    BY <1>3, <2>2 DEF Named
  <2>4. PICK t \in series : t.name = i /\ Max(Points(s)) \in t.points
    BY <1>6, <2>3
  <2>5. PICK w \in during : t.points = Sampled(w, i)
    BY <1>5, <2>4
  <2>6. Sampled(w, i) \subseteq Interval
    BY DEF Sampled
  <2>7. Max(Points(s)) <= Max(Sampled(w, i)) /\ Max(Sampled(w, i)) \in Int
    <3>1. EvaluatedAt \in Int
      BY <1>4
    <3>2. Sampled(w, i) \subseteq Int /\ Sampled(w, i) # {}
          /\ \A p \in Sampled(w, i) : p <= EvaluatedAt
      BY <1>4, <2>4, <2>5, <2>6
    <3>3. Max(Sampled(w, i)) \in Sampled(w, i)
          /\ \A p \in Sampled(w, i) : p <= Max(Sampled(w, i))
      BY <3>1, <3>2, GreatestInteger
    <3> HIDE DEF Points
    <3>4. QED
      BY <2>4, <2>5, <3>2, <3>3
  <2>8. Min(latest) <= Max(Points(s)) /\ Max(Points(s)) \in Int
    BY <1>4, <1>6, <1>10, <2>3
  <2>9. Until(o.expires) <= Max(Sampled(w, i)) + MaxSampleAge
    <3>1. Min(latest) \in Int /\ MaxSampleAge \in Int
      BY <1>4, <1>10
    <3> HIDE DEF latest, o, Points
    <3>2. QED
      BY <1>11, <1>12, <2>7, <2>8, <3>1
  <2>10. QED
    BY <2>9
<1>14. Witnessed(Evidence(Control, o))
  <2> HIDE DEF o
  <2>1. /\ Evidence(Control, o).control = "metric" /\ Evidence(Control, o).during = during
        /\ Evidence(Control, o).until = Until(o.expires)
    BY <1>1 DEF Evidence
  <2>2. QED
    BY <1>13, <2>1 DEF Witnessed, Present
<1>15. QED
  BY <1>12, <1>14

\* An asset passes only if it was found.
LEMMA AssetSupports ==
    ASSUME LiveInv, Stages, Control \in Asks(provider), Query = "asset",
           NEW page, IsPage(page)
    PROVE  Supports(OfAsset(Append(pages, page), Selected))
<1> DEFINE o == OfAsset(Append(pages, page), Selected)
<1>1. Query \in Paged /\ Control = "asset"
  BY DEF Paged, Stages
<1>2. page \subseteq Rows(world, Query) /\ page \in SUBSET PageRows
  BY <1>1, PageType
<1>3. \A r \in Flat(Append(pages, page)) : \E w \in during : r \in Rows(w, Query)
  BY <1>2, FlatRows
<1>4. \/ o \in {Unobserved("INVALID_RESPONSE"), Unknown("MISSING")}
      \/ o = Concluded("PASS") /\ Selected \in Flat(Append(pages, page))
  BY DEF OfAsset
<1>5. Supports(Unobserved("INVALID_RESPONSE")) /\ Supports(Unknown("MISSING"))
  BY UnknownSupports DEF Codes
<1>6. CASE o = Concluded("PASS") /\ Selected \in Flat(Append(pages, page))
  <2>1. \E w \in during : Selected \in w.assets
    BY <1>3, <1>6 DEF Rows
  <2>2. EvaluatedAt < Until(Concluded("PASS").expires)
    BY UntilBound DEF Concluded, Observation
  <2>3. Evidence(Control, o).control = "asset" /\ Evidence(Control, o).during = during
    BY <1>1 DEF Evidence
  <2>4. QED
    BY <1>1, <1>6, <2>1, <2>2, <2>3 DEF Supports, Witnessed
<1>7. QED
  BY <1>4, <1>5, <1>6

\* There are no problems or events only if the first page was the last, and
\* empty.
LEMMA RecordsSupport ==
    ASSUME LiveInv, Stages, Control \in Asks(provider), Query \in {"problems", "events"},
           todo # {}, NEW page, IsPage(page)
    PROVE  Supports(OfRecords(Flat(Append(pages, page))))
<1> DEFINE all == Append(pages, page)
           o == OfRecords(Flat(all))
<1>1. Query \in Paged /\ Control = Query /\ got # << >> /\ Len(got) >= 2
  BY DEF Paged, Stages
<1>2. page \subseteq Rows(world, Query) /\ page \in SUBSET PageRows /\ Fits(world, Query)
  BY <1>1, PageType
<1>3. \A n \in DOMAIN all : all[n] \subseteq Flat(all)
  BY <1>2, FlatRows
<1>4. CASE Flat(all) # {}
  BY <1>4 DEF OfRecords, Concluded, Observation, Supports
<1>5. CASE Flat(all) = {}
  <2>1. page = {} /\ \A n \in DOMAIN pages : pages[n] = {}
    <3>1. /\ DOMAIN all = DOMAIN pages \cup {Len(pages) + 1}
          /\ all[Len(pages) + 1] = page /\ \A n \in DOMAIN pages : all[n] = pages[n]
      BY <1>2, OneMorePage DEF LiveInv
    <3>2. QED
      BY <1>3, <1>5, <3>1
  <2>2. pages = << >>
    BY <2>1 DEF LiveInv, ReadRows, Typed
  <2>3. page = PageAfter(Query, 0)
    BY <2>2 DEF IsPage, Cursor
  <2>4. Rows(world, Query) = {}
    BY <1>1, <1>2, <2>1, <2>3, PageIsNext, RowsAreKeyed
  <2>5. ASSUME NEW r \in Throughout(during, LAMBDA w : w.events), r.clock \in Interval
        PROVE  Control = "problems" /\ r.resolved
    <3>1. r \in world.events
      BY DEF Throughout, LiveInv, Typed
    <3>2. QED
      BY <1>1, <2>4, <2>5, <3>1 DEF Rows
  <2>6. Monitored(during) /\ Evaluated(during)
    BY <1>1 DEF LiveInv, Supported
  <2>7. o = Concluded("PASS") /\ EvaluatedAt < Until(o.expires)
    BY <1>5, UntilBound DEF OfRecords, Concluded, Observation
  <2>8. Evidence(Control, o).control = Control /\ Evidence(Control, o).during = during
    BY DEF Evidence
  <2>9. QED
    BY <1>1, <2>5, <2>6, <2>7, <2>8 DEF Supports, Witnessed
<1>6. QED
  BY <1>4, <1>5

LEMMA PagesSupport ==
    ASSUME LiveInv, Stages, Control \in Asks(provider), Query \in Paged, todo # {},
           NEW page, IsPage(page), FinalPage(page)
    PROVE  Supports(ConcludePages(Append(pages, page)))
<1>1. CASE Query = "metric"
  BY <1>1, MetricSupports DEF ConcludePages
<1>2. CASE Query = "asset"
  BY <1>2, AssetSupports DEF ConcludePages
<1>3. CASE Query \in {"problems", "events"}
  BY <1>3, RecordsSupport DEF ConcludePages
<1>4. QED
  BY <1>1, <1>2, <1>3 DEF Paged

-----------------------------------------------------------------------------
(* The steps keep the invariant *)

\* The discovery that leads on to the controls.
LEMMA DiscoveredKeeps ==
    ASSUME LiveInv, ended = "none", todo # {}, Control = "discover", Steady, Counted,
           todo' = todo \ {Control}, attempt' = 0, during' = {world},
           UNCHANGED <<got, pages, ended>>
    PROVE  LiveInv'
<1>1. Queries(Control) # << >> /\ Len(Queries(Control)) = 1
  BY DEF Queries
<1>2. Stages /\ Control \in todo
  BY <1>1, StageOfQuery DEF LiveInv
<1>3. got = << >> /\ pages = << >>
  <2>1. Len(got) = 0 /\ Query \notin Paged
    BY <1>2 DEF Stages, Paged
  <2>2. QED
    BY <2>1 DEF LiveInv, Typed, Underway
<1>4. calls' \in Nat /\ calls' <= Budget /\ calls' + Owed(todo \ {Control}) <= Budget
  BY CallIsCovered
<1>5. world' = world /\ provider' = provider /\ got' = << >> /\ pages' = << >>
  BY <1>3 DEF Steady, environment
<1>6. Typed'
  BY <1>3, <1>4, <1>5, BudgetAssumption DEF LiveInv, Typed, OwnWorlds
<1>7. Underway'
  BY <1>5 DEF Underway
<1>8. Affordable'
  <2>1. Budget' = Budget /\ Budget \in Nat /\ Len(got') = 0 /\ Len(pages') = 0
    BY <1>5, BudgetAssumption DEF Budget
  <2>2. QED
    BY <1>4, <2>1 DEF Affordable
<1>9. Supported'
  BY <1>5 DEF Supported
<1>10. ReadRows'
  BY <1>5 DEF ReadRows
<1>11. NoneSkipped'
  <2>1. (Typed /\ pages = << >> => NoneSkipped)'
    BY NothingSkippedAtFirst, PTL
  <2>2. QED
    BY <1>5, <1>6, <2>1
<1>12. QED
  BY <1>6, <1>7, <1>8, <1>9, <1>10, <1>11 DEF LiveInv

\* An answer that leads to the next query.
LEMMA NextQueryKeeps ==
    ASSUME LiveInv, ended = "none", todo # {}, Queries(Control) # << >>, Query \notin Paged,
           Control # "discover", Conclude(Answer(world, Query)) = NoObservation,
           NextQuery(Answer(world, Query)), Steady, calls' = calls + 1
    PROVE  LiveInv'
<1> DEFINE answer == Answer(world, Query)
<1>1. /\ got' = Append(got, answer) /\ attempt' = 0
      /\ UNCHANGED <<world, provider, todo, pages, ended, during>>
  BY DEF NextQuery, Steady, environment
<1>2. \/ /\ Query = "host" /\ Len(got) = 0
         /\ Control \in {"triggers", "problems", "events", "freshness"}
         /\ world.host # Absent /\ ~world.host.disabled
      \/ /\ Query = "host" /\ Len(got) = 0 /\ Control = "maintenance"
         /\ world.host # Absent
      \/ /\ Query = "triggers" /\ Len(got) = 1 /\ Control \in {"problems", "events"}
         /\ Evaluated({world})
      \/ Query = "direct" /\ Len(got) = 1 /\ Control = "maintenance"
  BY Undecided
<1>3. world \in during /\ world \in Worlds /\ got \in Seq(Answers) /\ answer \in Answers
  BY <1>2 DEF LiveInv, Typed, OwnWorlds, Answers
<1>4. PICK n \in Nat : Len(got) = n
  BY <1>3
<1>5. /\ got' \in Seq(Answers) /\ Len(got') = n + 1 /\ got'[n + 1] = answer
      /\ \A m \in 1..n : got'[m] = got[m]
  BY <1>1, <1>3, <1>4
<1>6. Control' = Control
  BY <1>1 DEF Control
<1>7. pages = << >>
  BY DEF LiveInv, Underway
<1>8. calls' \in Nat /\ calls' <= Budget
  BY CallIsCovered DEF Counted
<1>9. Typed'
  BY <1>1, <1>5, <1>8, BudgetAssumption DEF LiveInv, Typed, OwnWorlds
<1>10. Underway'
  <2>1. n + 1 < Len(Queries(Control))
    BY <1>2, <1>4 DEF Queries
  <2>2. QED
    BY <1>1, <1>5, <1>6, <1>7, <2>1 DEF Underway
<1>11. Affordable'
  <2>1. Owed(todo) \in Nat /\ Budget \in Nat /\ Len(pages) \in Nat /\ calls \in Nat
    BY OwedType, BudgetAssumption DEF Budget, LiveInv, Typed
  <2>2. calls + Owed(todo) <= Budget + n + Len(pages)
    BY <1>4 DEF LiveInv, Affordable
  <2>3. Budget' = Budget /\ Owed(todo') = Owed(todo)
    BY <1>1 DEF Budget
  <2>4. QED
    BY <1>1, <1>5, <1>8, <2>1, <2>2, <2>3 DEF Affordable
<1>12. Supported'
  <2>1. Control \in {"triggers", "problems", "events", "freshness"} => Monitored(during)
    <3>1. CASE n = 0
      BY <1>2, <1>3, <1>4, <3>1 DEF Monitored
    <3>2. CASE n # 0
      BY <1>3, <1>4, <3>2 DEF LiveInv, Supported
    <3>3. QED
      BY <3>1, <3>2
  <2>2. Control \in {"problems", "events"} /\ n + 1 >= 2 => Evaluated(during)
    BY <1>2, <1>3, <1>4 DEF Evaluated
  <2>3. Control = "maintenance" => \E w \in during : got'[1] = w.host /\ w.host # Absent
    <3>1. CASE n = 0
      BY <1>2, <1>3, <1>4, <1>5, <3>1 DEF Answer
    <3>2. CASE n # 0
      <4>1. got # << >> /\ got'[1] = got[1]
        BY <1>3, <1>4, <1>5, <3>2
      <4>2. QED
        BY <4>1 DEF LiveInv, Supported
    <3>3. QED
      BY <3>1, <3>2
  <2>4. Control = "maintenance" /\ n + 1 >= 2 => \E w \in during : got'[2] = Direct(w.windows)
    <3> SUFFICES ASSUME Control = "maintenance", n + 1 >= 2
                 PROVE  \E w \in during : got'[2] = Direct(w.windows)
      OBVIOUS
    <3>1. n = 1 /\ Query = "direct"
      BY <1>2, <1>4
    <3>2. got'[2] = answer /\ answer = Direct(world.windows)
      BY <1>5, <3>1 DEF Answer
    <3>3. QED
      BY <1>3, <3>2
  <2>5. QED
    BY <1>1, <1>5, <1>6, <2>1, <2>2, <2>3, <2>4 DEF Supported
<1>13. ReadRows'
  BY <1>1, <1>7 DEF ReadRows
<1>14. NoneSkipped'
  <2>1. (Typed /\ pages = << >> => NoneSkipped)'
    BY NothingSkippedAtFirst, PTL
  <2>2. QED
    BY <1>1, <1>7, <1>9, <2>1
<1>15. QED
  BY <1>9, <1>10, <1>11, <1>12, <1>13, <1>14 DEF LiveInv

\* A page that another follows.
LEMMA NextPageKeeps ==
    ASSUME LiveInv, ended = "none", todo # {}, Queries(Control) # << >>, Query \in Paged,
           NEW page, IsPage(page), ~FinalPage(page), Len(Append(pages, page)) # MaxPages,
           NextPage(page), Steady, calls' = calls + 1
    PROVE  LiveInv'
<1>1. /\ pages' = Append(pages, page) /\ attempt' = 0
      /\ UNCHANGED <<world, provider, todo, got, ended, during>>
  BY DEF NextPage, Steady, environment
<1>2. Stages /\ Control \in Asks(provider)
  BY StageOfQuery DEF LiveInv
<1>3. page \subseteq Rows(world, Query) /\ page \in SUBSET PageRows /\ Fits(world, Query)
  BY <1>2, PageType
<1>4. /\ pages' \in Seq(SUBSET PageRows) /\ Len(pages') = Len(pages) + 1
      /\ DOMAIN pages' = DOMAIN pages \cup {Len(pages) + 1}
      /\ pages'[Len(pages) + 1] = page /\ \A n \in DOMAIN pages : pages'[n] = pages[n]
  BY <1>1, <1>3, OneMorePage DEF LiveInv
<1>5. Control' = Control /\ Query' = Query
  BY <1>1 DEF Control, Query
<1>6. page # {}
  <2>1. CASE provider = "zabbix"
    <3>1. ~(Cardinality(page) < PageSize)
      BY <2>1 DEF FinalPage
    <3>2. Cardinality({}) = 0 /\ 0 < PageSize
      BY FS_EmptySet, BudgetAssumption
    <3>3. QED
      BY <3>1, <3>2
  <2>2. CASE provider # "zabbix"
    BY <2>2 DEF FinalPage
  <2>3. QED
    BY <2>1, <2>2
<1>7. /\ Len(pages) \in Nat /\ Len(got) \in Nat /\ MaxPages \in Nat \ {0}
      /\ Len(pages) < MaxPages
  <2>1. Len(pages) \in Nat /\ Len(got) \in Nat /\ MaxPages \in Nat \ {0}
    BY BudgetAssumption DEF LiveInv, Typed
  <2>2. CASE pages = << >>
    BY <2>1, <2>2
  <2>3. CASE pages # << >>
    BY <2>1, <2>3 DEF LiveInv, Underway
  <2>4. QED
    BY <2>1, <2>2, <2>3
<1>8. calls' \in Nat /\ calls' <= Budget
  BY CallIsCovered DEF Counted
<1>9. Typed'
  BY <1>1, <1>4, <1>8, BudgetAssumption DEF LiveInv, Typed, OwnWorlds
<1>10. Underway'
  <2>1. Len(got) + 1 = Len(Queries(Control))
    <3>1. PICK n \in Nat : Len(got) = n
      BY <1>7
    <3>2. \/ Control \in {"asset", "metric"} /\ n = 0
          \/ Control \in {"problems", "events"} /\ n = 2
      BY <1>2, <3>1 DEF Stages, Paged
    <3>3. n + 1 = Len(Queries(Control))
      <4>1. CASE Control \in {"asset", "metric"}
        BY <3>2, <4>1 DEF Queries
      <4>2. CASE Control \in {"problems", "events"}
        BY <3>2, <4>2 DEF Queries
      <4>3. QED
        BY <3>2, <4>1, <4>2
    <3>4. QED
      BY <3>1, <3>3
  <2>2. Len(pages') < MaxPages
    BY <1>1, <1>4, <1>7
  <2>3. got # << >> => Len(got) < Len(Queries(Control))
    BY DEF LiveInv, Underway
  <2>4. QED
    BY <1>1, <1>5, <2>1, <2>2, <2>3 DEF Underway
<1>11. Affordable'
  <2>1. Owed(todo) \in Nat /\ Budget \in Nat /\ calls \in Nat
    BY OwedType, BudgetAssumption DEF Budget, LiveInv, Typed
  <2>2. calls + Owed(todo) <= Budget + Len(got) + Len(pages)
    BY DEF LiveInv, Affordable
  <2>3. Budget' = Budget /\ Owed(todo') = Owed(todo)
    BY <1>1 DEF Budget
  <2>4. QED
    BY <1>1, <1>4, <1>7, <1>8, <2>1, <2>2, <2>3 DEF Affordable
<1>12. Supported'
  BY <1>1, <1>5 DEF LiveInv, Supported
<1>13. ReadRows'
  BY <1>1, <1>3, <1>4, <1>5, <1>6 DEF LiveInv, ReadRows, Typed
<1>14. NoneSkipped'
  <2>1. Cursor' = Max(KeysOf(Query, page))
    <3>1. pages' # << >>
      BY <1>4, <1>7
    <3>2. QED
      BY <1>4, <1>5, <3>1 DEF Cursor
  <2>2. ASSUME Control = "metric", NEW i \in Nat, Present(during, i), i <= Max(KeysOf(Query, page))
        PROVE  Named(pages', i)
    <3>1. Query = "metric"
      BY <1>2, <2>2 DEF Stages, Paged
    <3>2. QED
      BY <1>1, <1>2, <1>6, <2>2, <3>1, PageSkipsNone
  <2>3. QED
    BY <1>1, <1>5, <2>1, <2>2 DEF NoneSkipped
<1>15. QED
  BY <1>9, <1>10, <1>11, <1>12, <1>13, <1>14 DEF LiveInv

-----------------------------------------------------------------------------
(* The invariant is inductive *)

LiveGood == LiveInv /\ PassIsWitnessed

\* Evidence that is handed over is witnessed if the observation is.
LEMMA YieldGood ==
    ASSUME LiveInv, ended = "none", todo # {}, NEW o, Supports(o), Yield(o), Steady, Counted
    PROVE  LiveGood'
<1>1. LiveInv'
  BY YieldKeeps
<1>2. PassIsWitnessed'
  <2> SUFFICES ASSUME NEW e \in yielded', e.status = "PASS"
               PROVE  EvaluatedAt < e.until /\ Witnessed(e)
    BY DEF PassIsWitnessed
  <2>1. PICK c : e = Evidence(c, o) /\ (Control # "discover" => c = Control)
    BY DEF Yield
  <2>2. e.status = o.status /\ e.until = Until(o.expires)
    BY <2>1 DEF Evidence
  <2>3. Control # "discover" /\ EvaluatedAt < Until(o.expires) /\ Witnessed(Evidence(Control, o))
    BY <2>2 DEF Supports
  <2>4. QED
    BY <2>1, <2>2, <2>3
<1>3. QED
  BY <1>1, <1>2 DEF LiveGood

LEMMA RaiseGood ==
    ASSUME LiveInv, ended = "none", todo # {}, NEW code, code # "none", Raise(code), Steady,
           Counted
    PROVE  LiveGood'
BY RaiseKeeps DEF LiveGood, Raise, PassIsWitnessed

LEMMA FailGood ==
    ASSUME LiveInv, ended = "none", todo # {}, NEW code \in Codes \ {"none"}, Fail(code), Steady,
           Counted
    PROVE  LiveGood'
<1>1. CASE code = "TIMEOUT"
  BY <1>1, RaiseGood DEF Fail
<1>2. CASE code # "TIMEOUT"
  <2>1. Supports(Unobserved(code))
    BY UnknownSupports
  <2>2. QED
    BY <1>2, <2>1, YieldGood DEF Fail
<1>3. QED
  BY <1>1, <1>2

\* The turn of a page.
LEMMA TurnGood ==
    ASSUME LiveInv, Answered, Query \in Paged, NEW page, IsPage(page), Turn(page)
    PROVE  LiveGood'
<1>1. /\ ended = "none" /\ todo # {} /\ Queries(Control) # << >> /\ Steady
      /\ calls' = calls + 1 /\ Counted
  BY DEF Answered, Asked, Asking, Steady, Counted
<1>2. Stages /\ Control \in Asks(provider)
  BY <1>1, StageOfQuery DEF LiveInv
<1>3. CASE NoProgress(page)
  <2>1. Fail("INVALID_RESPONSE")
    BY <1>3 DEF Turn
  <2>2. QED
    BY <1>1, <2>1, FailGood DEF Codes
<1>4. CASE ~NoProgress(page) /\ FinalPage(page)
  <2>1. Yield(ConcludePages(Append(pages, page)))
    BY <1>4 DEF Turn
  <2>2. Supports(ConcludePages(Append(pages, page)))
    BY <1>1, <1>2, <1>4, PagesSupport
  <2>3. QED
    BY <1>1, <2>1, <2>2, YieldGood
<1>5. CASE ~NoProgress(page) /\ ~FinalPage(page) /\ LastAllowed(Len(Append(pages, page)))
  <2>1. Yield(Unobserved("INVALID_RESPONSE"))
    BY <1>5 DEF Turn, Exhausted
  <2>2. Supports(Unobserved("INVALID_RESPONSE"))
    BY UnknownSupports DEF Codes
  <2>3. QED
    BY <1>1, <2>1, <2>2, YieldGood
<1>6. CASE ~NoProgress(page) /\ ~FinalPage(page) /\ ~LastAllowed(Len(Append(pages, page)))
  <2>1. NextPage(page)
    BY <1>6 DEF Turn
  <2>2. LiveInv'
    BY <1>1, <1>6, <2>1, NextPageKeeps DEF LastAllowed
  <2>3. PassIsWitnessed'
    BY <2>1 DEF NextPage, PassIsWitnessed
  <2>4. QED
    BY <2>2, <2>3 DEF LiveGood
<1>7. QED
  BY <1>3, <1>4, <1>5, <1>6

\* A single answer.
LEMMA AnswerGood ==
    ASSUME LiveInv, AnswerOne
    PROVE  LiveGood'
<1> DEFINE o == Conclude(Answer(world, Query))
<1>1. /\ ended = "none" /\ todo # {} /\ Queries(Control) # << >> /\ Steady /\ Query \notin Paged
      /\ calls' = calls + 1 /\ Counted /\ Proceed(Answer(world, Query))
  BY DEF AnswerOne, Answered, Asked, Asking, Steady, Counted
<1>2. CASE o # NoObservation
  <2>1. Yield(o)
    BY <1>1, <1>2 DEF Proceed
  <2>2. Supports(o)
    BY <1>1, <1>2, AnswerSupports
  <2>3. QED
    BY <1>1, <2>1, <2>2, YieldGood
<1>3. CASE o = NoObservation /\ Control = "discover"
  <2>1. /\ todo' = todo \ {Control} /\ attempt' = 0 /\ during' = {world} /\ yielded' = {}
        /\ UNCHANGED <<got, pages, ended>>
    BY <1>1, <1>3 DEF Proceed
  <2>2. LiveInv'
    BY <1>1, <1>3, <2>1, DiscoveredKeeps
  <2>3. QED
    BY <2>1, <2>2 DEF LiveGood, PassIsWitnessed
<1>4. CASE o = NoObservation /\ Control # "discover"
  <2>1. NextQuery(Answer(world, Query))
    BY <1>1, <1>4 DEF Proceed
  <2>2. LiveInv'
    BY <1>1, <1>4, <2>1, NextQueryKeeps
  <2>3. yielded' = {}
    BY <2>1 DEF NextQuery
  <2>4. QED
    BY <2>2, <2>3 DEF LiveGood, PassIsWitnessed
<1>5. QED
  BY <1>2, <1>3, <1>4

\* A step that leaves the control, its answers and its pages alone.
LEMMA IdleKeeps ==
    ASSUME LiveInv, UNCHANGED <<provider, todo, got, pages, calls>>,
           attempt' \in 0..Retries, during \subseteq during', during' \subseteq OwnWorlds,
           world' \in during', ended = "none" \/ ended' = ended
    PROVE  LiveInv'
<1>1. Control' = Control /\ Query' = Query /\ Budget' = Budget /\ OwnWorlds' = OwnWorlds
  BY DEF Control, Query, Budget, OwnWorlds
<1>2. Typed'
  BY <1>1 DEF LiveInv, Typed
<1>3. Underway'
  BY <1>1 DEF LiveInv, Underway
<1>4. Affordable'
  BY <1>1 DEF LiveInv, Affordable
<1>5. Supported'
  <2>1. Monitored(during) => Monitored(during')
    BY DEF Monitored
  <2>2. Evaluated(during) => Evaluated(during')
    BY DEF Evaluated
  <2>3. QED
    BY <1>1, <2>1, <2>2 DEF LiveInv, Supported
<1>6. ReadRows'
  BY <1>1 DEF LiveInv, ReadRows
<1>7. NoneSkipped'
  <2>1. Cursor' = Cursor
    BY <1>1 DEF Cursor
  <2>2. \A i : Present(during', i) => Present(during, i)
    BY DEF Present
  <2>3. QED
    BY <1>1, <2>1, <2>2 DEF LiveInv, NoneSkipped
<1>8. QED
  BY <1>2, <1>3, <1>4, <1>5, <1>6, <1>7 DEF LiveInv

\* A change of the monitored system: what is held is still of moments since the
\* first answer.
LEMMA EditGood ==
    ASSUME LiveGood, Edit
    PROVE  LiveGood'
<1>1. /\ world' \in Worlds /\ world'.provider = provider
      /\ UNCHANGED <<provider, todo, got, pages, calls, attempt, yielded, ended>>
      /\ during' = IF got = << >> /\ pages = << >> THEN {world'} ELSE during \cup {world'}
  BY DEF Edit
<1>2. PassIsWitnessed'
  BY <1>1 DEF LiveGood, PassIsWitnessed
<1>3. CASE ~(got = << >> /\ pages = << >>)
  <2>1. LiveInv'
    BY <1>1, <1>3, IdleKeeps DEF LiveGood, LiveInv, Typed, OwnWorlds
  <2>2. QED
    BY <1>2, <2>1 DEF LiveGood
<1>4. CASE got = << >> /\ pages = << >>
  <2>1. Control' = Control /\ Query' = Query /\ Budget' = Budget /\ OwnWorlds' = OwnWorlds
        /\ got' = << >> /\ pages' = << >> /\ during' = {world'}
    BY <1>1, <1>4 DEF Control, Query, Budget, OwnWorlds
  <2>2. Typed'
    BY <1>1, <2>1 DEF LiveGood, LiveInv, Typed, OwnWorlds
  <2>3. Underway'
    BY <2>1 DEF Underway
  <2>4. Affordable'
    BY <1>1, <2>1 DEF LiveGood, LiveInv, Affordable
  <2>5. Supported'
    BY <2>1 DEF Supported
  <2>6. ReadRows'
    BY <2>1 DEF ReadRows
  <2>7. NoneSkipped'
    <3>1. (Typed /\ pages = << >> => NoneSkipped)'
      BY NothingSkippedAtFirst, PTL
    <3>2. QED
      BY <2>1, <2>2, <3>1
  <2>8. QED
    BY <1>2, <2>2, <2>3, <2>4, <2>5, <2>6, <2>7 DEF LiveGood, LiveInv
<1>5. QED
  BY <1>3, <1>4

\* A step of the provider.
LEMMA CollectGood ==
    ASSUME LiveGood, Collect
    PROVE  LiveGood'
<1>1. LiveInv
  BY DEF LiveGood
<1>2. Asked => ended = "none" /\ todo # {} /\ Queries(Control) # << >> /\ Steady
  BY DEF Asked, Asking, Steady
<1>3. Answered => Asked /\ Counted
  BY <1>2 DEF Answered, Counted
<1>4. CASE AnswerOne
  BY <1>1, <1>4, AnswerGood
<1>5. CASE AnswerPage
  <2>1. Answered /\ Query \in Paged /\ Turn(PageAfter(Query, Cursor))
    BY <1>5 DEF AnswerPage, Page
  <2>2. IsPage(PageAfter(Query, Cursor))
    BY DEF IsPage
  <2>3. QED
    BY <1>1, <2>1, <2>2, TurnGood
<1>6. CASE AnswerStuck
  <2>1. Answered /\ Query \in Paged /\ Turn(PageAfter(Query, 0))
    BY <1>6 DEF AnswerStuck, Page
  <2>2. IsPage(PageAfter(Query, 0))
    BY DEF IsPage
  <2>3. QED
    BY <1>1, <2>1, <2>2, TurnGood
<1>7. CASE Busy
  <2>1. CASE attempt < Retries
    <3>1. /\ attempt' = attempt + 1 /\ yielded' = {}
          /\ UNCHANGED <<provider, world, todo, got, pages, ended, during, calls>>
      BY <1>7, <2>1 DEF Busy, Asked, environment
    <3>2. attempt' \in 0..Retries
      BY <1>1, <2>1, <3>1, BudgetAssumption DEF LiveInv, Typed
    <3>3. LiveInv'
      BY <1>1, <3>1, <3>2, IdleKeeps DEF LiveInv, Typed
    <3>4. QED
      BY <3>1, <3>3 DEF LiveGood, PassIsWitnessed
  <2>2. CASE ~(attempt < Retries)
    <3>1. PICK code \in {"RATE_LIMIT", "UNAVAILABLE"} : Fail(code)
      BY <1>7, <2>2 DEF Busy
    <3>2. Asked /\ Counted
      BY <1>2, <1>7, <2>2 DEF Busy, Counted
    <3>3. QED
      BY <1>1, <1>2, <3>1, <3>2, FailGood DEF Codes
  <2>3. QED
    BY <2>1, <2>2
<1>8. CASE Refused
  <2>1. PICK code \in {"AUTH", "UNAVAILABLE", "INVALID_RESPONSE", "TIMEOUT", "MISSING"} :
            Fail(code)
    BY <1>8 DEF Refused
  <2>2. QED
    BY <1>1, <1>2, <1>3, <1>8, <2>1, FailGood DEF Refused, Codes
<1>9. CASE Unbound
  BY <1>1, <1>2, <1>3, <1>9, RaiseGood DEF Unbound
<1>10. CASE Identify
  <2>1. /\ ended = "none" /\ todo # {} /\ Yield(Unknown("UNAVAILABLE")) /\ Steady /\ Counted
    BY <1>10 DEF Identify, Steady, Counted
  <2>2. Supports(Unknown("UNAVAILABLE"))
    BY UnknownSupports DEF Codes
  <2>3. QED
    BY <1>1, <2>1, <2>2, YieldGood
<1>11. CASE Expire
  <2>1. /\ ended = "none" /\ todo # {} /\ Steady /\ Counted
        /\ \E code \in {"TIMEOUT", "CANCELLED"} : Raise(code)
    BY <1>11 DEF Expire, Steady, Counted
  <2>2. QED
    BY <1>1, <2>1, RaiseGood
<1>12. CASE Finish
  <2>1. /\ UNCHANGED <<provider, world, todo, got, pages, attempt, during, calls>>
        /\ ended = "none" /\ yielded' = {}
    BY <1>12 DEF Finish, environment
  <2>2. LiveInv'
    BY <1>1, <2>1, IdleKeeps DEF LiveInv, Typed
  <2>3. QED
    BY <2>1, <2>2 DEF LiveGood, PassIsWitnessed
<1>13. QED
  BY <1>4, <1>5, <1>6, <1>7, <1>8, <1>9, <1>10, <1>11, <1>12 DEF Collect

LEMMA InitGood == Init => LiveGood
<1> SUFFICES ASSUME Init PROVE LiveGood
  OBVIOUS
<1>1. world \in Worlds /\ provider = world.provider /\ during = {world}
  BY DEF Init
<1>2. provider \in DOMAIN Controls
  BY <1>1, WorldsAssumption
<1>3. PICK controls \in Requests[provider] : todo = {"discover"} \cup controls
  BY DEF Init
<1>4. todo \subseteq Asks(provider)
  BY <1>2, <1>3, RequestsAssumption DEF Asks
<1>5. Typed
  BY <1>1, <1>2, <1>4, BudgetAssumption DEF Init, Typed, OwnWorlds
<1>6. Underway
  BY DEF Init, Underway
<1>7. Affordable
  <2>1. Owed(todo) <= Budget /\ Owed(todo) \in Nat /\ Budget \in Nat
    BY <1>2, <1>4, OwedAtFirst, OwedType, BudgetAssumption DEF Budget
  <2>2. Len(got) = 0 /\ Len(pages) = 0 /\ calls = 0
    BY DEF Init
  <2>3. QED
    BY <2>1, <2>2 DEF Affordable
<1>8. Supported
  BY DEF Init, Supported
<1>9. ReadRows
  BY DEF Init, ReadRows
<1>10. NoneSkipped
  BY <1>5, NothingSkippedAtFirst DEF Init
<1>11. PassIsWitnessed
  BY DEF Init, PassIsWitnessed
<1>12. QED
  BY <1>5, <1>6, <1>7, <1>8, <1>9, <1>10, <1>11 DEF LiveGood, LiveInv

-----------------------------------------------------------------------------
(* The theorems *)

\* The invariant of a collection: what has been paid for, read and answered so
\* far, for the control at hand.
THEOREM Invariance == Spec => []LiveGood
<1>1. Init => LiveGood
  BY InitGood
<1>2. LiveGood /\ [Next]_vars => LiveGood'
  <2> SUFFICES ASSUME LiveGood, [Next]_vars PROVE LiveGood'
    OBVIOUS
  <2>1. CASE Collect
    BY <2>1, CollectGood
  <2>2. CASE Edit
    BY <2>2, EditGood
  <2>3. CASE Tick \/ UNCHANGED vars
    <3>1. /\ UNCHANGED <<provider, world, todo, got, pages, attempt, during, calls, yielded>>
          /\ ended' = ended
      BY <2>3 DEF Tick, vars
    <3>2. LiveInv'
      BY <3>1, IdleKeeps DEF LiveGood, LiveInv, Typed
    <3>3. QED
      BY <3>1, <3>2 DEF LiveGood, PassIsWitnessed
  <2>4. QED
    BY <2>1, <2>2, <2>3 DEF Next
<1>3. QED
  BY <1>1, <1>2, PTL DEF Spec

\* No control is favourable for want of looking, however the monitored system
\* changes between two reads, repeats its pages, refuses or fails.
THEOREM PassesAreWitnessed == Spec => []PassIsWitnessed
<1>1. LiveGood => PassIsWitnessed
  BY DEF LiveGood
<1>2. QED
  BY <1>1, Invariance, PTL

\* A collection makes no more calls than the documents say, of no more attempts
\* than are configured.
THEOREM CallsAreBounded == Spec => []CallBudget
<1>1. LiveGood => CallBudget
  BY BudgetAssumption DEF LiveGood, LiveInv, Typed, Affordable, Budget, CallBudget
<1>2. QED
  BY <1>1, Invariance, PTL

=============================================================================
