------------------------ MODULE ProviderRunner_proofs ------------------------
(***************************************************************************)
(* Theorems about ProviderRunner for any runners, calls, observations,     *)
(* cache capacity, deadlines and failures; that every client is closed is  *)
(* proved for a provider that one runner drives.                           *)
(***************************************************************************)
EXTENDS ProviderRunner, SequenceTheorems, TLAPS

-----------------------------------------------------------------------------
(* The inductive invariant *)

\* Evidence, and answers by control.
Item ==
    [status : Statuses, from : Nat, until : Nat, by : Calls, client : Calls \cup {None},
     context : Calls \cup {None}, code : ErrorCodes]

Answers == UNION {[S -> Item] : S \in SUBSET Controls}

\* What a cache may hold: a complete, conclusive answer for its key.
Entry ==
    {e \in [key : Contexts \X SUBSET Controls, output : Answers] :
        /\ DOMAIN e.output = e.key[2]
        /\ \A k \in e.key[2] : Conclusive(e.output[k]) /\ e.key = Key(e.output[k].by)}

\* Types of the runner, the provider and the calls.
TypeOK ==
    /\ now \in Nat /\ cancelled \subseteq Calls
    /\ holder \in [Runners -> Calls \cup {None}]
    /\ cache \in [Runners -> Seq(Entry)]
    /\ {client, context, request} \subseteq Calls \cup {None} /\ collected \in BOOLEAN
    /\ made \subseteq Calls /\ shut \subseteq Calls /\ mixed \subseteq Calls
    /\ pc \in [Calls -> PCs]
    /\ deadline \in [Calls -> Nat]
    /\ using \in [Calls -> Calls \cup {None}]
    /\ bound \in [Calls -> Calls \cup {None}]
    /\ closing \in [Calls -> Calls \cup {None}]
    /\ got \in [Calls -> Answers]
    /\ error \in [Calls -> ErrorCodes]
    /\ out \in [Calls -> Answers]

\* Evidence a call may give: read for its context and controls, and positive
\* only while it is valid.
GoodItem(c, e) ==
    /\ e \in Item /\ Key(e.by) = Key(c)
    /\ e.status \in {"PASS", "NOT_APPLICABLE"} => Fresh(e, At[c])

GoodAnswer(c, f) ==
    f \in Answers /\ DOMAIN f \subseteq Asked[c] /\ \A k \in DOMAIN f : GoodItem(c, f[k])

\* A complete answer that does not hide the error of its run.
ToldAnswer(c, f, err) ==
    /\ GoodAnswer(c, f) /\ DOMAIN f = Asked[c]
    /\ err # "none" => \E k \in Asked[c] : f[k].code = err

\* Where a call has not failed yet.
Early == {"idle", "lookup", "open", "collect"} \cup Window

\* What a call has collected and answered is its own.
Own(c) ==
    /\ GoodAnswer(c, got[c])
    /\ pc[c] \in Early => error[c] = "none"
    /\ pc[c] = "done" => ToldAnswer(c, out[c], error[c])

\* Evidence of a call that was alone with the provider is read with its own
\* client and credentials.
Lent(e, m) == e.by \notin m => {e.client, e.context} \subseteq {e.by, None}

\* So is all evidence there is: collected, cached and answered.
LentOnly ==
    /\ \A c \in Calls : \A k \in DOMAIN got[c] : Lent(got[c][k], mixed)
    /\ \A u \in Runners : \A i \in DOMAIN cache[u] :
          \A k \in DOMAIN cache[u][i].output : Lent(cache[u][i].output[k], mixed)
    /\ \A c \in Calls : \A k \in DOMAIN out[c] : Lent(out[c][k], mixed)

\* Nobody else opens or captures with a call that is not mixed.
Solo ==
    \A c, d \in Calls : c # d /\ c \notin mixed /\ pc[c] \in Window => pc[d] \notin Window

\* So what such a call has stored is there, or a close has dropped it.
Lone(c) ==
    c \notin mixed =>
        /\ pc[c] \in Window \ {"context"} => context \in {c, None}
        /\ pc[c] \in Window \ {"context", "client"} => client \in {c, None}
        /\ pc[c] \in {"loadContext", "collect"} => using[c] \in {c, None}
        /\ pc[c] = "collect" => bound[c] \in {c, None}

\* A runner is held by the call that is inside run.
Locked == \A c \in Calls : pc[c] \in Holding <=> holder[RunnerOf[c]] = c

\* A cache: bounded, one entry per key.
Bounded(s) == Len(s) <= Capacity /\ \A i, j \in DOMAIN s : s[i].key = s[j].key => i = j

\* The cache has no entry for the key.
Lacks(s, key) == \A i \in DOMAIN s : s[i].key # key

\* From the moment it was missed, a key is not in the cache until its call ends.
Popped(c) == pc[c] \in Holding \ {"lookup"} => Lacks(cache[RunnerOf[c]], Key(c))

\* What every reachable state satisfies and every step preserves.
IInv ==
    /\ TypeOK /\ Locked /\ LentOnly /\ Solo
    /\ \A c \in Calls : Own(c) /\ Popped(c) /\ Lone(c)
    /\ \A u \in Runners : Bounded(cache[u])

\* What a call does with the provider.
Inside(c) ==
    \/ CheckOpen(c) \/ OpenFails(c)
    \/ StoreContext(c) \/ StoreClient(c) \/ StoreRequest(c) \/ ClearCollected(c)
    \/ Look(c) \/ LookFails(c) \/ SetCollected(c) \/ LoadClient(c) \/ LoadContext(c)
    \/ Yield(c) \/ CollectFails(c) \/ EndCollect(c)
    \/ BeginClose(c) \/ DropClient(c) \/ DropRequest(c) \/ DropContext(c) \/ ShutClient(c)

\* What one call, or its caller, does.
CallStep(c) == Acquire(c) \/ Step(c) \/ Cancel(c)

-----------------------------------------------------------------------------
(* The cache *)

\* Taking one entry out of a cache.
LEMMA RemoveAtFacts ==
    ASSUME NEW S, NEW s \in Seq(S), NEW i \in 1..Len(s)
    PROVE  /\ RemoveAt(s, i) \in Seq(S)
           /\ Len(RemoveAt(s, i)) = Len(s) - 1
           /\ \A j \in 1..(Len(s) - 1) : RemoveAt(s, i)[j] = IF j < i THEN s[j] ELSE s[j + 1]
<1>1. Len(s) \in Nat /\ i \in Nat /\ \A j \in 1..Len(s) : s[j] \in S
  BY LenProperties
<1> DEFINE a == SubSeq(s, 1, i - 1)
           b == SubSeq(s, i + 1, Len(s))
<1>2. a \in Seq(S) /\ Len(a) = i - 1 /\ \A j \in 1..(i - 1) : a[j] = s[j]
  <2>1. \A j \in 1..(i - 1) : s[j] \in S
    BY <1>1
  <2>2. /\ SubSeq(s, 1, i - 1) \in Seq(S)
        /\ Len(SubSeq(s, 1, i - 1)) = IF 1 <= i - 1 THEN i - 1 - 1 + 1 ELSE 0
        /\ \A j \in 1..(i - 1 - 1 + 1) : SubSeq(s, 1, i - 1)[j] = s[1 + j - 1]
    BY <1>1, <2>1, SubSeqProperties
  <2>3. QED
    BY <1>1, <2>2
<1>3. b \in Seq(S) /\ Len(b) = Len(s) - i /\ \A j \in 1..(Len(s) - i) : b[j] = s[i + j]
  <2>1. \A j \in (i + 1)..Len(s) : s[j] \in S
    BY <1>1
  <2>2. /\ SubSeq(s, i + 1, Len(s)) \in Seq(S)
        /\ Len(SubSeq(s, i + 1, Len(s))) = IF i + 1 <= Len(s) THEN Len(s) - (i + 1) + 1 ELSE 0
        /\ \A j \in 1..(Len(s) - (i + 1) + 1) : SubSeq(s, i + 1, Len(s))[j] = s[i + 1 + j - 1]
    BY <1>1, <2>1, SubSeqProperties
  <2>3. QED
    BY <1>1, <2>2
<1> HIDE DEF a, b
<1>4. /\ a \o b \in Seq(S) /\ Len(a \o b) = Len(s) - 1
      /\ \A j \in 1..(Len(s) - 1) : (a \o b)[j] = IF j <= Len(a) THEN a[j] ELSE b[j - Len(a)]
  BY <1>1, <1>2, <1>3, ConcatProperties
<1>5. ASSUME NEW j \in 1..(Len(s) - 1)
      PROVE  (a \o b)[j] = IF j < i THEN s[j] ELSE s[j + 1]
  BY <1>1, <1>2, <1>3, <1>4
<1>6. QED
  BY <1>4, <1>5 DEF RemoveAt, a, b

\* A cache stays bounded and without duplicates when an entry is taken out, and
\* the key of the entry is gone.
LEMMA RemoveBounded ==
    ASSUME NEW s \in Seq(Entry), Bounded(s), NEW i \in DOMAIN s
    PROVE  /\ RemoveAt(s, i) \in Seq(Entry) /\ Bounded(RemoveAt(s, i))
           /\ Len(RemoveAt(s, i)) = Len(s) - 1
           /\ Lacks(RemoveAt(s, i), s[i].key)
           /\ \A key : Lacks(s, key) => Lacks(RemoveAt(s, i), key)
           /\ \A j \in DOMAIN RemoveAt(s, i) : \E n \in DOMAIN s : RemoveAt(s, i)[j] = s[n]
<1> DEFINE t == RemoveAt(s, i)
<1>1. i \in 1..Len(s) /\ Len(s) \in Nat /\ DOMAIN s = 1..Len(s)
  BY LenProperties
<1>2. /\ t \in Seq(Entry) /\ Len(t) = Len(s) - 1
      /\ \A j \in 1..(Len(s) - 1) : t[j] = IF j < i THEN s[j] ELSE s[j + 1]
  BY <1>1, RemoveAtFacts
<1>3. DOMAIN t = 1..(Len(s) - 1)
  BY <1>2, LenProperties
<1> HIDE DEF t
<1>4. ASSUME NEW j \in DOMAIN t
      PROVE  LET n == IF j < i THEN j ELSE j + 1
             IN  n \in DOMAIN s /\ n # i /\ t[j] = s[n]
  BY <1>1, <1>2, <1>3
<1>5. \A j, l \in DOMAIN t : t[j].key = t[l].key => j = l
  <2> SUFFICES ASSUME NEW j \in DOMAIN t, NEW l \in DOMAIN t, t[j].key = t[l].key
               PROVE  j = l
    OBVIOUS
  <2>1. (IF j < i THEN j ELSE j + 1) = (IF l < i THEN l ELSE l + 1)
    BY <1>4 DEF Bounded
  <2>2. j \in Int /\ l \in Int /\ i \in Int
    BY <1>1, <1>3
  <2>3. QED
    BY <2>1, <2>2
<1>6. Bounded(t)
  BY <1>1, <1>2, <1>5, BoundsAssumption DEF Bounded
<1>7. Lacks(t, s[i].key) /\ \A key : Lacks(s, key) => Lacks(t, key)
  BY <1>4 DEF Lacks, Bounded
<1>8. \A j \in DOMAIN t : \E n \in DOMAIN s : t[j] = s[n]
  BY <1>4
<1>9. QED
  BY <1>2, <1>6, <1>7, <1>8 DEF t

\* And when an entry with a new key is appended.
LEMMA AppendBounded ==
    ASSUME NEW s \in Seq(Entry), NEW e \in Entry, Lacks(s, e.key),
           \A i, j \in DOMAIN s : s[i].key = s[j].key => i = j
    PROVE  /\ Append(s, e) \in Seq(Entry) /\ Len(Append(s, e)) = Len(s) + 1
           /\ \A i, j \in DOMAIN Append(s, e) :
                  Append(s, e)[i].key = Append(s, e)[j].key => i = j
           /\ \A key : Lacks(s, key) /\ key # e.key => Lacks(Append(s, e), key)
           /\ \A j \in DOMAIN Append(s, e) :
                 Append(s, e)[j] = e \/ \E n \in DOMAIN s : Append(s, e)[j] = s[n]
<1> DEFINE t == Append(s, e)
<1>1. Len(s) \in Nat /\ DOMAIN s = 1..Len(s)
  BY LenProperties
<1>2. /\ t \in Seq(Entry) /\ Len(t) = Len(s) + 1
      /\ (\A i \in 1..Len(s) : t[i] = s[i]) /\ t[Len(s) + 1] = e
  BY AppendProperties
<1>3. DOMAIN t = 1..(Len(s) + 1)
  BY <1>2, LenProperties
<1> HIDE DEF t
<1>4. \A i \in DOMAIN t : (i \in DOMAIN s /\ t[i] = s[i]) \/ (i = Len(s) + 1 /\ t[i] = e)
  BY <1>1, <1>2, <1>3
<1>5. QED
  BY <1>2, <1>4 DEF Lacks, t

\* The cut from the front that keeps a cache within its capacity.
LEMMA StoredBounded ==
    ASSUME TypeOK, NEW u \in Runners, NEW e \in Entry, Bounded(cache[u]), Lacks(cache[u], e.key)
    PROVE  /\ Stored(u, e) \in Seq(Entry) /\ Bounded(Stored(u, e))
           /\ \A j \in DOMAIN Stored(u, e) :
                 Stored(u, e)[j] = e \/ \E n \in DOMAIN cache[u] : Stored(u, e)[j] = cache[u][n]
<1> DEFINE t == Append(cache[u], e)
<1>1. cache[u] \in Seq(Entry) /\ Capacity \in Nat
  BY BoundsAssumption DEF TypeOK
<1>2. /\ t \in Seq(Entry) /\ Len(t) = Len(cache[u]) + 1
      /\ \A i, j \in DOMAIN t : t[i].key = t[j].key => i = j
      /\ \A j \in DOMAIN t : t[j] = e \/ \E n \in DOMAIN cache[u] : t[j] = cache[u][n]
  BY <1>1, AppendBounded DEF Bounded
<1>3. Len(cache[u]) \in Nat /\ Len(cache[u]) <= Capacity
  BY <1>1, LenProperties DEF Bounded
<1> HIDE DEF t
<1>4. /\ t \in Seq(Entry) /\ Len(t) = Len(cache[u]) + 1 /\ Len(t) \in Nat
      /\ \A i, j \in DOMAIN t : t[i].key = t[j].key => i = j
      /\ DOMAIN t = 1..Len(t) /\ \A i \in 1..Len(t) : t[i] \in Entry
  BY <1>2, <1>3, LenProperties
<1>5. CASE Len(t) <= Capacity
  BY <1>1, <1>2, <1>4, <1>5 DEF Stored, Bounded, t
<1>6. CASE Len(t) > Capacity
  <2> DEFINE m == Len(t) - Capacity + 1
             w == SubSeq(t, m, Len(t))
  <2>1. m \in Int /\ \A i \in m..Len(t) : t[i] \in Entry
    BY <1>1, <1>4, <1>6
  <2>2. /\ w \in Seq(Entry) /\ Len(w) = (IF m <= Len(t) THEN Len(t) - m + 1 ELSE 0)
        /\ \A i \in 1..(Len(t) - m + 1) : w[i] = t[m + i - 1]
    <3> HIDE DEF m
    <3>1. QED
      BY <1>4, <2>1, SubSeqProperties
  <2>3. Len(w) = Capacity /\ DOMAIN w = 1..Capacity
    BY <1>1, <1>4, <1>6, <2>2, LenProperties
  <2>4. \A i \in 1..Capacity : w[i] = t[m + i - 1] /\ m + i - 1 \in DOMAIN t
    BY <1>1, <1>4, <1>6, <2>2
  <2>5. Stored(u, e) = w
    BY <1>6 DEF Stored, t
  <2> HIDE DEF w
  <2>6. ASSUME NEW i \in 1..Capacity, NEW j \in 1..Capacity, w[i].key = w[j].key
        PROVE  i = j
    <3>1. m + i - 1 = m + j - 1
      BY <1>4, <2>4, <2>6
    <3>2. QED
      BY <1>1, <1>4, <3>1
  <2>7. \A j \in DOMAIN w : w[j] = e \/ \E n \in DOMAIN cache[u] : w[j] = cache[u][n]
    BY <1>2, <2>3, <2>4
  <2>8. QED
    BY <1>1, <2>2, <2>3, <2>5, <2>6, <2>7 DEF Bounded
<1>7. QED
  BY <1>1, <1>4, <1>5, <1>6

-----------------------------------------------------------------------------
(* Answers *)

\* Answers are functions from some of the controls to evidence.
LEMMA AnswerIntro ==
    ASSUME NEW S \in SUBSET Controls, NEW f \in [S -> Item]
    PROVE  f \in Answers
BY DEF Answers

\* And give evidence for each control they cover.
LEMMA AnswerElim ==
    ASSUME NEW f \in Answers
    PROVE  f \in [DOMAIN f -> Item] /\ DOMAIN f \in SUBSET Controls
BY DEF Answers

\* What a request asks for.
LEMMA AskedControls ==
    ASSUME NEW c \in Calls
    PROVE  /\ Asked[c] \in SUBSET Controls /\ Asked[c] # {} /\ At[c] \in Nat
           /\ Key(c) \in Contexts \X SUBSET Controls /\ Key(c)[2] = Asked[c]
BY CallsAssumption DEF Key

\* What the runner makes up is never positive.
LEMMA FailureIsGood ==
    ASSUME NEW c \in Calls, NEW code \in ErrorCodes
    PROVE  /\ GoodItem(c, Failure(c, code)) /\ Failure(c, code).code = code
           /\ \A m : Lent(Failure(c, code), m)
           /\ code # "MISSING" => Failure(c, code).status = "ERROR"
BY AskedControls DEF GoodItem, Failure, Item, Statuses, Lent

\* Dropping everything leaves an answer that claims nothing.
LEMMA NothingIsGood ==
    ASSUME NEW c \in Calls
    PROVE  GoodAnswer(c, << >>) /\ DOMAIN << >> = {}
<1>1. DOMAIN << >> = {} /\ << >> \in [{} -> Item]
  OBVIOUS
<1>2. QED
  BY <1>1, AnswerIntro DEF GoodAnswer

\* A call that is refused is told so on every control.
LEMMA FailuresAnswer ==
    ASSUME NEW c \in Calls, NEW code \in ErrorCodes
    PROVE  ToldAnswer(c, [k \in Asked[c] |-> Failure(c, code)], "none")
<1> DEFINE f == [k \in Asked[c] |-> Failure(c, code)]
<1>1. DOMAIN f = Asked[c] /\ \A k \in Asked[c] : GoodItem(c, f[k])
  BY FailureIsGood
<1>2. f \in [Asked[c] -> Item]
  BY <1>1 DEF GoodItem
<1>3. f \in Answers
  BY <1>2, AskedControls, AnswerIntro
<1> HIDE DEF f
<1>4. ToldAnswer(c, f, "none")
  BY <1>1, <1>3 DEF ToldAnswer, GoodAnswer
<1>5. QED
  BY <1>4 DEF f

\* What the provider yields is evidence that the call itself has read, with what
\* it captured, normalised to the instant of the request.
LEMMA YieldedIsGood ==
    ASSUME TypeOK, NEW c \in Calls, NEW o \in Observations
    PROVE  LET e == Normalised(c, Evidence(c, o))
           IN  GoodItem(c, e) /\ e.by = c /\ e.client = using[c] /\ e.context = bound[c]
<1>1. /\ o.status \in Statuses /\ o.from \in Nat /\ o.until \in Nat /\ At[c] \in Nat
      /\ {"UNAVAILABLE", "FUTURE", "STALE", "none"} \subseteq ErrorCodes
      /\ {"ERROR", "UNKNOWN"} \subseteq Statuses
      /\ using[c] \in Calls \cup {None} /\ bound[c] \in Calls \cup {None}
  BY ObservationsAssumption, AskedControls DEF ErrorCodes, ExecutionCodes, Statuses, TypeOK
<1> DEFINE e == Evidence(c, o)
<1>2. e \in Item /\ e.by = c /\ e.client = using[c] /\ e.context = bound[c]
  BY <1>1 DEF Evidence, Item
<1> HIDE DEF e
<1>3. CASE Fresh(e, At[c]) \/ e.status \in {"FAIL", "ERROR"}
  BY <1>2, <1>3 DEF Normalised, GoodItem, e
<1>4. CASE ~(Fresh(e, At[c]) \/ e.status \in {"FAIL", "ERROR"})
  <2>1. PICK code \in ErrorCodes :
           Normalised(c, e) = [e EXCEPT !.status = "UNKNOWN", !.code = code]
    BY <1>1, <1>4 DEF Normalised
  <2>2. QED
    BY <1>1, <1>2, <2>1 DEF GoodItem, Item, e
<1>5. QED
  BY <1>3, <1>4

\* Adding it to what has been collected.
With(f, k, e) == [j \in DOMAIN f \cup {k} |-> IF j = k THEN e ELSE f[j]]

LEMMA YieldKeeps ==
    ASSUME NEW c \in Calls, NEW f, GoodAnswer(c, f), NEW k \in Asked[c], NEW e, GoodItem(c, e)
    PROVE  GoodAnswer(c, With(f, k, e))
<1> DEFINE g == With(f, k, e)
<1> USE DEF With
<1>1. DOMAIN g = DOMAIN f \cup {k} /\ DOMAIN g \subseteq Asked[c]
  BY DEF GoodAnswer
<1>2. \A j \in DOMAIN g : GoodItem(c, g[j])
  BY DEF GoodAnswer
<1>3. g \in [DOMAIN g -> Item]
  BY <1>2 DEF GoodItem
<1> HIDE DEF g
<1>4. g \in Answers
  BY <1>1, <1>3, AskedControls, AnswerIntro
<1>5. GoodAnswer(c, g)
  BY <1>1, <1>2, <1>4 DEF GoodAnswer
<1>6. QED
  BY <1>5 DEF g

\* The answer of a run: every control is answered, and an error of the run shows
\* on one that was not.
LEMMA AnswerIsTold ==
    ASSUME NEW c \in Calls, GoodAnswer(c, got[c]), NEW err \in ErrorCodes, NEW failed \in BOOLEAN
    PROVE  LET f == Answer(c, Kept(c, err, failed), err)
           IN  /\ ToldAnswer(c, f, err)
               /\ \A k \in Asked[c] :
                     (k \in DOMAIN got[c] /\ f[k] = got[c][k]) \/ \A m : Lent(f[k], m)
<1> DEFINE kept == Kept(c, err, failed)
           code == IF err = "none" THEN "MISSING" ELSE err
           f == Answer(c, kept, err)
<1>1. kept = << >> \/ (kept = got[c] /\ (err # "none" => DOMAIN got[c] # Asked[c]))
  BY DEF Kept
<1>2. GoodAnswer(c, kept)
  BY <1>1, NothingIsGood
<1>3. DOMAIN kept \subseteq Asked[c] /\ (err # "none" => DOMAIN kept # Asked[c])
  BY <1>1, <1>2, NothingIsGood, AskedControls DEF GoodAnswer
<1> HIDE DEF kept
<1>4. code \in ErrorCodes
  BY DEF ErrorCodes
<1> HIDE DEF code
<1>5. /\ DOMAIN f = Asked[c]
      /\ \A k \in Asked[c] : f[k] = IF k \in DOMAIN kept THEN kept[k] ELSE Failure(c, code)
  BY DEF Answer, code
<1> HIDE DEF f
<1>6. \A k \in Asked[c] : GoodItem(c, f[k])
  BY <1>2, <1>4, <1>5, FailureIsGood DEF GoodAnswer
<1>7. f \in Answers
  <2>1. f \in [Asked[c] -> Item]
    <3>1. f = [k \in Asked[c] |-> f[k]]
      BY <1>5 DEF f, Answer
    <3>2. QED
      BY <1>6, <3>1 DEF GoodItem
  <2>2. QED
    BY <2>1, AskedControls, AnswerIntro
<1>8. err # "none" => \E k \in Asked[c] : f[k].code = err
  <2>1. SUFFICES ASSUME err # "none"
                 PROVE  \E k \in Asked[c] : f[k].code = err
    OBVIOUS
  <2>2. PICK k \in Asked[c] : k \notin DOMAIN kept
    BY <1>3, <2>1
  <2>3. f[k] = Failure(c, code) /\ code = err
    BY <1>5, <2>1, <2>2 DEF code
  <2>4. QED
    BY <1>4, <2>3, FailureIsGood
<1>9. ToldAnswer(c, f, err)
  BY <1>5, <1>6, <1>7, <1>8 DEF ToldAnswer, GoodAnswer
<1>10. \A k \in Asked[c] : (k \in DOMAIN got[c] /\ f[k] = got[c][k]) \/ \A m : Lent(f[k], m)
  BY <1>1, <1>4, <1>5, NothingIsGood, FailureIsGood
<1>11. QED
  BY <1>9, <1>10 DEF f, kept, code

\* A conclusive answer may be cached under the key of its call.
LEMMA CacheableEntry ==
    ASSUME NEW c \in Calls, NEW f, NEW err, ToldAnswer(c, f, err), Cacheable(f, err)
    PROVE  [key |-> Key(c), output |-> f] \in Entry
BY AskedControls DEF ToldAnswer, GoodAnswer, GoodItem, Cacheable, Entry

\* And answers a later one with that key, while all of it is valid.
LEMMA CachedIsTold ==
    ASSUME NEW c \in Calls, NEW e \in Entry, e.key = Key(c), Usable(c, e)
    PROVE  ToldAnswer(c, e.output, "none")
<1>1. e.output \in Answers /\ DOMAIN e.output = Asked[c]
      /\ \A k \in Asked[c] : Key(e.output[k].by) = Key(c)
  BY AskedControls DEF Entry
<1>2. \A k \in Asked[c] : e.output[k] \in Item
  BY <1>1, AnswerElim
<1>3. QED
  BY <1>1, <1>2 DEF ToldAnswer, GoodAnswer, GoodItem, Usable

-----------------------------------------------------------------------------
(* What a step of one call does *)

\* Every run ends in an answer that is told.
LEMMA ReturnEffect ==
    ASSUME IInv, NEW c \in Calls, Return(c)
    PROVE  \E err \in ErrorCodes, f \in Answers :
              /\ ToldAnswer(c, f, err) /\ Reply(c, f) /\ error' = [error EXCEPT ![c] = err]
              /\ \A k \in Asked[c] :
                    (k \in DOMAIN got[c] /\ f[k] = got[c][k]) \/ \A m : Lent(f[k], m)
              /\ cache' = IF Cacheable(f, err)
                          THEN [cache EXCEPT ![RunnerOf[c]] =
                                  Stored(RunnerOf[c], [key |-> Key(c), output |-> f])]
                          ELSE cache
<1> DEFINE errOf(code) == CloseError(c, code)
           failed(code) == code = "INTERNAL"
           answer(code) == Answer(c, Kept(c, errOf(code), failed(code)), errOf(code))
<1>1. PICK code \in CloseCodes :
        /\ error' = [error EXCEPT ![c] = errOf(code)]
        /\ Reply(c, answer(code))
        /\ cache' = IF Cacheable(answer(code), errOf(code))
                    THEN [cache EXCEPT ![RunnerOf[c]] =
                            Stored(RunnerOf[c], [key |-> Key(c), output |-> answer(code)])]
                    ELSE cache
  BY DEF Return
<1>2. errOf(code) \in ErrorCodes
  BY DEF IInv, TypeOK, CloseError, CloseCodes, LateCode, ErrorCodes, ExecutionCodes
<1>3. failed(code) \in BOOLEAN /\ GoodAnswer(c, got[c])
  BY DEF IInv, Own
<1> HIDE DEF errOf, failed
<1>4. /\ ToldAnswer(c, answer(code), errOf(code)) /\ answer(code) \in Answers
      /\ \A k \in Asked[c] : (k \in DOMAIN got[c] /\ answer(code)[k] = got[c][k])
                                \/ \A m : Lent(answer(code)[k], m)
  BY <1>2, <1>3, AnswerIsTold DEF ToldAnswer, GoodAnswer
<1> HIDE DEF answer
<1>5. QED
  BY <1>1, <1>2, <1>4

\* A hit answers with a told answer and moves its entry to the end.
LEMMA HitEffect ==
    ASSUME IInv, NEW c \in Calls, CacheHit(c)
    PROVE  \E i \in DOMAIN cache[RunnerOf[c]] :
              /\ cache[RunnerOf[c]][i].key = Key(c)
              /\ ToldAnswer(c, cache[RunnerOf[c]][i].output, "none")
              /\ Reply(c, cache[RunnerOf[c]][i].output)
              /\ cache' = [cache EXCEPT ![RunnerOf[c]] =
                             Append(RemoveAt(@, i), cache[RunnerOf[c]][i])]
<1>1. PICK i \in Entries(RunnerOf[c], Key(c)) :
        /\ Usable(c, cache[RunnerOf[c]][i])
        /\ cache' = [cache EXCEPT ![RunnerOf[c]] =
                             Append(RemoveAt(@, i), cache[RunnerOf[c]][i])]
        /\ Reply(c, cache[RunnerOf[c]][i].output)
  BY DEF CacheHit
<1>2. i \in DOMAIN cache[RunnerOf[c]] /\ cache[RunnerOf[c]][i].key = Key(c)
  BY DEF Entries
<1>3. cache[RunnerOf[c]] \in Seq(Entry)
  BY CallsAssumption DEF IInv, TypeOK
<1>4. cache[RunnerOf[c]][i] \in Entry
  BY <1>2, <1>3, LenProperties
<1>5. QED
  BY <1>1, <1>2, <1>4, CachedIsTold

\* What a step inside the provider does to the state of the runner and to the
\* locals of its call.
LEMMA InsideEffect ==
    ASSUME TypeOK, NEW c \in Calls, Inside(c)
    PROVE  /\ UNCHANGED <<clock, runner>>
           /\ pc[c] \in Holding \ {"lookup", "closed"}
           /\ \E l \in Holding \ {"lookup"} : pc' = [pc EXCEPT ![c] = l]
           /\ \E v \in Calls \cup {None} : using' = [using EXCEPT ![c] = v]
           /\ \E v \in Calls \cup {None} : bound' = [bound EXCEPT ![c] = v]
           /\ \E v \in Calls \cup {None} : closing' = [closing EXCEPT ![c] = v]
           /\ \E g : got' = [got EXCEPT ![c] = g]
           /\ \E e \in ErrorCodes : error' = [error EXCEPT ![c] = e]
<1>1. /\ pc \in [Calls -> PCs] /\ using \in [Calls -> Calls \cup {None}]
      /\ bound \in [Calls -> Calls \cup {None}] /\ closing \in [Calls -> Calls \cup {None}]
      /\ got \in [Calls -> Answers] /\ error \in [Calls -> ErrorCodes]
      /\ client \in Calls \cup {None} /\ context \in Calls \cup {None}
  BY DEF TypeOK
<1>2. /\ using' = using => \E v \in Calls \cup {None} : using' = [using EXCEPT ![c] = v]
      /\ bound' = bound => \E v \in Calls \cup {None} : bound' = [bound EXCEPT ![c] = v]
      /\ closing' = closing => \E v \in Calls \cup {None} : closing' = [closing EXCEPT ![c] = v]
      /\ got' = got => \E g : got' = [got EXCEPT ![c] = g]
      /\ error' = error => \E e \in ErrorCodes : error' = [error EXCEPT ![c] = e]
      /\ pc[c] \in Holding \ {"lookup"} /\ pc' = pc =>
            \E l \in Holding \ {"lookup"} : pc' = [pc EXCEPT ![c] = l]
  <2>1. /\ using = [using EXCEPT ![c] = using[c]] /\ bound = [bound EXCEPT ![c] = bound[c]]
        /\ closing = [closing EXCEPT ![c] = closing[c]] /\ got = [got EXCEPT ![c] = got[c]]
        /\ error = [error EXCEPT ![c] = error[c]] /\ pc = [pc EXCEPT ![c] = pc[c]]
        /\ using[c] \in Calls \cup {None} /\ bound[c] \in Calls \cup {None}
        /\ closing[c] \in Calls \cup {None} /\ error[c] \in ErrorCodes
    BY <1>1
  <2>2. QED
    BY <2>1
<1> USE DEF Goto, Holding, PCs, Window, Opening, Looking, Capturing, Closing
<1>3. ASSUME NEW code \in ErrorCodes, Fail(c, code), pc[c] \in Holding \ {"lookup", "closed"}
      PROVE  /\ UNCHANGED <<clock, runner>>
             /\ \E l \in Holding \ {"lookup"} : pc' = [pc EXCEPT ![c] = l]
             /\ UNCHANGED <<using, bound, closing>>
             /\ \E g : got' = [got EXCEPT ![c] = g]
             /\ \E e \in ErrorCodes : error' = [error EXCEPT ![c] = e]
  BY <1>1, <1>3 DEF Fail, captured
<1>4. LateCode(c) \in ErrorCodes /\ LateCode(bound[c]) \in ErrorCodes /\ RaisedCodes \subseteq ErrorCodes
      /\ {"INVALID_RESPONSE", "AUTH", "INTERNAL"} \subseteq ErrorCodes
  BY BoundsAssumption DEF LateCode, ErrorCodes, ExecutionCodes
<1>5. CASE OpenFails(c)
  <2>1. PICK code \in ErrorCodes : Fail(c, code) /\ pc[c] \in {"open", "context"}
    BY <1>4, <1>5 DEF OpenFails
  <2>2. QED
    BY <1>2, <1>3, <2>1
<1>6. CASE LookFails(c)
  <2>1. PICK code \in ErrorCodes : Fail(c, code) /\ pc[c] \in Looking
    BY <1>4, <1>6 DEF LookFails
  <2>2. QED
    BY <1>2, <1>3, <2>1
<1>7. CASE CollectFails(c)
  <2>1. PICK code \in ErrorCodes : Fail(c, code) /\ pc[c] = "collect"
    BY <1>4, <1>7 DEF CollectFails
  <2>2. QED
    BY <1>2, <1>3, <2>1
<1>8. CASE Look(c)
  <2>1. AfterLook[pc[c]] \in Holding \ {"lookup"}
    BY <1>8 DEF Look, AfterLook
  <2>2. QED
    BY <1>1, <1>2, <1>8, <2>1 DEF Look, captured
<1>9. CASE CheckOpen(c) \/ StoreContext(c) \/ StoreClient(c) \/ StoreRequest(c) \/ ClearCollected(c)
  BY <1>1, <1>2, <1>9 DEF CheckOpen, StoreContext, StoreClient, StoreRequest, ClearCollected, captured
<1>10. CASE SetCollected(c) \/ LoadClient(c) \/ LoadContext(c) \/ EndCollect(c)
  BY <1>1, <1>2, <1>10 DEF SetCollected, LoadClient, LoadContext, EndCollect, captured
<1>11. CASE Yield(c)
  <2>1. \E g : got' = [got EXCEPT ![c] = g]
    BY <1>11 DEF Yield
  <2>2. QED
    BY <1>1, <1>2, <1>11, <2>1 DEF Yield, captured
<1>12. CASE DropClient(c) \/ DropRequest(c) \/ DropContext(c)
  BY <1>1, <1>2, <1>12 DEF DropClient, DropRequest, DropContext, captured
<1>13. CASE BeginClose(c) \/ ShutClient(c)
  BY <1>1, <1>2, <1>13 DEF BeginClose, ShutClient
<1>14. QED
  BY <1>5, <1>6, <1>7, <1>8, <1>9, <1>10, <1>11, <1>12, <1>13 DEF Inside

\* What a step inside the provider does to it: it stores its own call or drops
\* what is there, and stores only between the check of open and the last store.
LEMMA ProviderEffect ==
    ASSUME TypeOK, NEW c \in Calls, Inside(c)
    PROVE  /\ context' \in {context, None} \/ (context' = c /\ pc[c] = "context")
           /\ client' \in {client, None} \/ (client' = c /\ pc[c] = "client" /\ made' = made \cup {c})
           /\ request' \in {request, None, c} /\ collected' \in BOOLEAN
           /\ made' = made \/ (made' = made \cup {c} /\ pc[c] = "client" /\ client' = c
                               /\ pc' = [pc EXCEPT ![c] = "request"])
           /\ shut \subseteq shut' /\ shut' \subseteq Calls
           /\ mixed' = mixed \/ CheckOpen(c)
           /\ mixed \subseteq mixed' /\ mixed' \subseteq Calls
<1>1. /\ pc \in [Calls -> PCs] /\ closing \in [Calls -> Calls \cup {None}] /\ collected \in BOOLEAN
      /\ mixed \subseteq Calls /\ shut \subseteq Calls
  BY DEF TypeOK
<1> USE DEF slots, clients, provider, Goto
<1>2. CASE OpenFails(c) \/ LookFails(c) \/ CollectFails(c)
  <2>1. UNCHANGED provider
    BY <1>2 DEF OpenFails, LookFails, CollectFails, Fail
  <2>2. QED
    BY <1>1, <2>1
<1>3. CASE CheckOpen(c)
  BY <1>1, <1>3 DEF CheckOpen
<1>4. CASE StoreContext(c) \/ StoreClient(c) \/ StoreRequest(c) \/ ClearCollected(c)
  BY <1>1, <1>4 DEF StoreContext, StoreClient, StoreRequest, ClearCollected
<1>5. CASE Look(c) \/ SetCollected(c) \/ LoadClient(c) \/ LoadContext(c) \/ Yield(c) \/ EndCollect(c)
  BY <1>1, <1>5 DEF Look, SetCollected, LoadClient, LoadContext, Yield, EndCollect
<1>6. CASE BeginClose(c) \/ DropClient(c) \/ DropRequest(c) \/ DropContext(c)
  BY <1>1, <1>6 DEF BeginClose, DropClient, DropRequest, DropContext
<1>7. CASE ShutClient(c)
  BY <1>1, <1>7 DEF ShutClient
<1>8. QED
  BY <1>2, <1>3, <1>4, <1>5, <1>6, <1>7 DEF Inside

\* A step of c leaves the locals of other calls alone.
LEMMA OthersKept ==
    ASSUME TypeOK, NEW c \in Calls, CallStep(c), NEW d \in Calls \ {c}
    PROVE  /\ pc'[d] = pc[d] /\ using'[d] = using[d] /\ bound'[d] = bound[d]
           /\ closing'[d] = closing[d] /\ got'[d] = got[d]
           /\ error'[d] = error[d] /\ out'[d] = out[d]
<1>1. /\ pc \in [Calls -> PCs] /\ using \in [Calls -> Calls \cup {None}] /\ got \in [Calls -> Answers]
      /\ bound \in [Calls -> Calls \cup {None}] /\ closing \in [Calls -> Calls \cup {None}]
      /\ error \in [Calls -> ErrorCodes] /\ out \in [Calls -> Answers]
  BY DEF TypeOK
<1>2. CASE Acquire(c) \/ CacheMiss(c) \/ Cancel(c)
  BY <1>1, <1>2 DEF Acquire, CacheMiss, Cancel, Goto, captured, runner
<1>3. CASE Refuse(c) \/ CacheHit(c) \/ Return(c)
  BY <1>1, <1>3 DEF Refuse, CacheHit, Return, Reply, Goto
<1>4. CASE Inside(c)
  <2>1. /\ \E l \in Holding : pc' = [pc EXCEPT ![c] = l]
        /\ \E v : using' = [using EXCEPT ![c] = v]
        /\ \E v : bound' = [bound EXCEPT ![c] = v]
        /\ \E v : closing' = [closing EXCEPT ![c] = v]
        /\ \E g : got' = [got EXCEPT ![c] = g]
        /\ \E e : error' = [error EXCEPT ![c] = e]
        /\ out' = out
    BY <1>4, InsideEffect DEF runner
  <2>2. QED
    BY <1>1, <2>1
<1>5. QED
  BY <1>2, <1>3, <1>4 DEF CallStep, Step, Inside

\* What a step of c does to the lock: only a free runner is taken.
LEMMA LockEffect ==
    ASSUME IInv, NEW c \in Calls, CallStep(c)
    PROVE  /\ pc'[c] \in Holding <=> holder'[RunnerOf[c]] = c
           /\ \/ holder' = holder
              \/ /\ holder[RunnerOf[c]] \in {None, c} /\ holder'[RunnerOf[c]] \in {None, c}
                 /\ holder' = [holder EXCEPT ![RunnerOf[c]] = holder'[RunnerOf[c]]]
<1>1. /\ holder \in [Runners -> Calls \cup {None}] /\ pc \in [Calls -> PCs] /\ RunnerOf[c] \in Runners
      /\ (pc[c] \in Holding <=> holder[RunnerOf[c]] = c) /\ None # c /\ TypeOK
  BY CallsAssumption DEF IInv, TypeOK, Locked
<1>2. CASE Acquire(c) \/ CacheMiss(c) \/ Cancel(c)
  BY <1>1, <1>2 DEF Acquire, CacheMiss, Cancel, Goto, runner, Holding, PCs
<1>3. CASE Refuse(c) \/ CacheHit(c) \/ Return(c)
  <2>1. PICK f : Reply(c, f)
    BY <1>3 DEF Refuse, CacheHit, Return
  <2>2. pc[c] \in {"lookup", "closed"}
    BY <1>3 DEF Refuse, CacheHit, Return
  <2>3. QED
    BY <1>1, <2>1, <2>2 DEF Reply, Goto, Holding, PCs
<1>4. CASE Inside(c)
  <2>1. holder' = holder /\ pc[c] \in Holding /\ pc'[c] \in Holding
    BY <1>1, <1>4, InsideEffect DEF runner
  <2>2. QED
    BY <1>1, <2>1
<1>5. QED
  BY <1>2, <1>3, <1>4 DEF CallStep, Step, Inside

\* What a step inside the provider makes of the evidence of its call.
LEMMA EvidenceEffect ==
    ASSUME TypeOK, NEW c \in Calls, Inside(c), GoodAnswer(c, got[c])
    PROVE  \/ got' = got
           \/ got' = [got EXCEPT ![c] = << >>]
           \/ /\ pc[c] = "collect"
              /\ \E k \in Asked[c] : \E e :
                    /\ GoodItem(c, e) /\ e.by = c /\ e.client = using[c] /\ e.context = bound[c]
                    /\ got' = [got EXCEPT ![c] = With(got[c], k, e)]
<1>1. got \in [Calls -> Answers]
  BY DEF TypeOK
<1>2. CASE OpenFails(c) \/ LookFails(c) \/ CollectFails(c)
  <2>1. PICK code : Fail(c, code)
    BY <1>2 DEF OpenFails, LookFails, CollectFails
  <2>2. QED
    BY <1>1, <2>1 DEF Fail
<1>3. CASE Yield(c)
  <2>1. PICK k \in Asked[c] \ DOMAIN got[c], o \in Observations :
           got' = [got EXCEPT ![c] =
                     [j \in DOMAIN @ \cup {k} |->
                         IF j = k THEN Normalised(c, Evidence(c, o)) ELSE @[j]]]
    BY <1>3 DEF Yield
  <2> DEFINE e == Normalised(c, Evidence(c, o))
  <2>2. GoodItem(c, e) /\ e.by = c /\ e.client = using[c] /\ e.context = bound[c]
    BY YieldedIsGood
  <2>3. got' = [got EXCEPT ![c] = With(got[c], k, e)]
    BY <1>1, <2>1 DEF With
  <2> HIDE DEF e
  <2>4. QED
    BY <1>3, <2>2, <2>3 DEF Yield
<1>4. CASE CheckOpen(c) \/ StoreContext(c) \/ StoreClient(c) \/ StoreRequest(c) \/ ClearCollected(c)
  BY <1>4 DEF CheckOpen, StoreContext, StoreClient, StoreRequest, ClearCollected
<1>5. CASE Look(c) \/ SetCollected(c) \/ LoadClient(c) \/ LoadContext(c) \/ EndCollect(c)
  BY <1>5 DEF Look, SetCollected, LoadClient, LoadContext, EndCollect
<1>6. CASE BeginClose(c) \/ DropClient(c) \/ DropRequest(c) \/ DropContext(c) \/ ShutClient(c)
  BY <1>6 DEF BeginClose, DropClient, DropRequest, DropContext, ShutClient
<1>7. QED
  BY <1>2, <1>3, <1>4, <1>5, <1>6 DEF Inside

\* A call has no error before it fails.
LEMMA EarlyKept ==
    ASSUME TypeOK, NEW c \in Calls, Inside(c), pc[c] \in Early => error[c] = "none",
           pc'[c] \in Early
    PROVE  error'[c] = "none"
<1>1. pc \in [Calls -> PCs]
  BY DEF TypeOK
<1> USE DEF Goto, Early, Window, Opening, Looking, Capturing, Closing
<1>2. CASE OpenFails(c) \/ LookFails(c) \/ CollectFails(c)
  <2>1. PICK code : Fail(c, code)
    BY <1>2 DEF OpenFails, LookFails, CollectFails
  <2>2. QED
    BY <1>1, <2>1 DEF Fail
<1>3. CASE CheckOpen(c) \/ StoreContext(c) \/ StoreClient(c) \/ StoreRequest(c) \/ ClearCollected(c)
  BY <1>1, <1>3 DEF CheckOpen, StoreContext, StoreClient, StoreRequest, ClearCollected
<1>4. CASE Look(c) \/ SetCollected(c) \/ LoadClient(c) \/ LoadContext(c) \/ Yield(c) \/ EndCollect(c)
  BY <1>1, <1>4 DEF Look, SetCollected, LoadClient, LoadContext, Yield, EndCollect
<1>5. CASE BeginClose(c) \/ DropClient(c) \/ DropRequest(c) \/ DropContext(c) \/ ShutClient(c)
  BY <1>1, <1>5 DEF BeginClose, DropClient, DropRequest, DropContext, ShutClient
<1>6. QED
  BY <1>2, <1>3, <1>4, <1>5 DEF Inside

\* What a step of c makes of its own evidence and answer.
LEMMA OwnKept ==
    ASSUME IInv, NEW c \in Calls, CallStep(c)
    PROVE  Own(c)'
<1>1. /\ pc \in [Calls -> PCs] /\ got \in [Calls -> Answers] /\ TypeOK
      /\ error \in [Calls -> ErrorCodes] /\ out \in [Calls -> Answers]
  BY DEF IInv, TypeOK
<1>2. Own(c) /\ GoodAnswer(c, << >>)
  BY NothingIsGood DEF IInv
<1> USE DEF Own, Early, Window, Opening, Looking, Capturing
<1>3. CASE Acquire(c) \/ CacheMiss(c) \/ Cancel(c)
  BY <1>1, <1>2, <1>3 DEF Acquire, CacheMiss, Cancel, Goto, runner
<1>4. CASE Refuse(c)
  <2>1. LateCode(c) \in ErrorCodes
    BY DEF LateCode, ErrorCodes, ExecutionCodes
  <2>2. ToldAnswer(c, [k \in Asked[c] |-> Failure(c, LateCode(c))], "none")
    BY <2>1, FailuresAnswer
  <2>3. QED
    BY <1>1, <1>2, <1>4, <2>2 DEF Refuse, Reply, Goto
<1>5. CASE CacheHit(c)
  <2>1. PICK i : /\ ToldAnswer(c, cache[RunnerOf[c]][i].output, "none")
                 /\ Reply(c, cache[RunnerOf[c]][i].output)
    BY <1>5, HitEffect
  <2>2. QED
    BY <1>1, <1>2, <1>5, <2>1 DEF CacheHit, Reply, Goto
<1>6. CASE Return(c)
  <2>1. PICK err \in ErrorCodes, f \in Answers :
           ToldAnswer(c, f, err) /\ Reply(c, f) /\ error' = [error EXCEPT ![c] = err]
    BY <1>6, ReturnEffect
  <2>2. QED
    BY <1>1, <1>2, <2>1 DEF Reply, Goto
<1>7. CASE Inside(c)
  <2>1. pc'[c] # "done"
    BY <1>1, <1>7, InsideEffect DEF Holding, PCs
  <2>2. GoodAnswer(c, got'[c])
    <3>1. CASE got' = got \/ got' = [got EXCEPT ![c] = << >>]
      BY <1>1, <1>2, <3>1
    <3>2. ASSUME NEW k \in Asked[c], NEW e, GoodItem(c, e),
                 got' = [got EXCEPT ![c] = With(got[c], k, e)]
          PROVE  GoodAnswer(c, got'[c])
      <4>1. got'[c] = With(got[c], k, e)
        BY <1>1, <3>2
      <4>2. QED
        BY <1>2, <3>2, <4>1, YieldKeeps
    <3>3. QED
      BY <1>1, <1>2, <1>7, <3>1, <3>2, EvidenceEffect
  <2>3. pc'[c] \in Early => error'[c] = "none"
    <3>1. pc[c] \in Early => error[c] = "none"
      BY <1>2
    <3>2. QED
      BY <1>1, <1>7, <3>1, EarlyKept
  <2>4. QED
    BY <2>1, <2>2, <2>3
<1>8. QED
  BY <1>3, <1>4, <1>5, <1>6, <1>7 DEF CallStep, Step, Inside

\* What a step of c does to the caches: only its own, and only while it is held.
LEMMA CacheEffect ==
    ASSUME IInv, NEW c \in Calls, CallStep(c)
    PROVE  /\ cache' \in [Runners -> Seq(Entry)]
           /\ \A u \in Runners : Bounded(cache'[u])
           /\ cache' = cache \/ (pc[c] \in Holding /\ \A u \in Runners \ {RunnerOf[c]} : cache'[u] = cache[u])
           /\ Popped(c)'
<1> DEFINE u == RunnerOf[c]
           t == cache[u]
<1>1. /\ cache \in [Runners -> Seq(Entry)] /\ u \in Runners /\ t \in Seq(Entry)
      /\ pc \in [Calls -> PCs] /\ Bounded(t) /\ TypeOK /\ \A v \in Runners : Bounded(cache[v])
  BY CallsAssumption DEF IInv, TypeOK
<1>2. Popped(c)
  BY DEF IInv
<1>3. Len(t) \in Nat /\ DOMAIN t = 1..Len(t) /\ \A i \in DOMAIN t : t[i] \in Entry
  BY <1>1, LenProperties
<1> HIDE DEF t
<1>4. ASSUME NEW q \in Seq(Entry), Bounded(q), cache' = [cache EXCEPT ![u] = q],
             pc[c] \in Holding, pc'[c] \in Holding \ {"lookup"} => Lacks(q, Key(c))
      PROVE  /\ cache' \in [Runners -> Seq(Entry)]
             /\ \A v \in Runners : Bounded(cache'[v])
             /\ pc[c] \in Holding /\ \A v \in Runners \ {RunnerOf[c]} : cache'[v] = cache[v]
             /\ Popped(c)'
  BY <1>1, <1>4 DEF Popped
<1>5. ASSUME cache' = cache, pc'[c] \in Holding \ {"lookup"} => pc[c] \in Holding \ {"lookup"}
      PROVE  /\ cache' \in [Runners -> Seq(Entry)]
             /\ \A v \in Runners : Bounded(cache'[v])
             /\ cache' = cache
             /\ Popped(c)'
  BY <1>1, <1>2, <1>5 DEF Popped
<1>6. CASE CacheHit(c)
  <2>1. PICK i \in DOMAIN t : /\ t[i].key = Key(c)
                              /\ cache' = [cache EXCEPT ![u] = Append(RemoveAt(t, i), t[i])]
    BY <1>6, HitEffect DEF t
  <2> DEFINE w == RemoveAt(t, i)
             q == Append(w, t[i])
  <2>2. w \in Seq(Entry) /\ Bounded(w) /\ Len(w) = Len(t) - 1 /\ Lacks(w, t[i].key)
    BY <1>1, RemoveBounded
  <2> HIDE DEF w
  <2>3. /\ q \in Seq(Entry) /\ Len(q) = Len(w) + 1
        /\ \A k, l \in DOMAIN q : q[k].key = q[l].key => k = l
    BY <1>3, <2>2, AppendBounded DEF Bounded
  <2> HIDE DEF q
  <2>4. Bounded(q)
    BY <1>1, <1>3, <2>2, <2>3 DEF Bounded
  <2>5. cache' = [cache EXCEPT ![u] = q]
    BY <2>1 DEF q, w
  <2>6. pc[c] \in Holding /\ pc'[c] = "done"
    BY <1>1, <1>6 DEF CacheHit, Reply, Goto, Holding, PCs
  <2>7. QED
    BY <1>4, <2>3, <2>4, <2>5, <2>6 DEF Holding
<1>7. CASE CacheMiss(c)
  <2> DEFINE q == Others(u, Key(c))
  <2>1. cache' = [cache EXCEPT ![u] = q] /\ pc[c] \in Holding
    BY <1>7 DEF CacheMiss, Holding, PCs
  <2>2. q \in Seq(Entry) /\ Bounded(q) /\ Lacks(q, Key(c))
    <3>1. CASE Entries(u, Key(c)) = {}
      BY <1>1, <3>1 DEF Others, Entries, Lacks, t
    <3>2. CASE Entries(u, Key(c)) # {}
      <4>1. PICK i \in Entries(u, Key(c)) : q = RemoveAt(t, i)
        BY <3>2 DEF Others, t
      <4>2. i \in DOMAIN t /\ t[i].key = Key(c)
        BY DEF Entries, t
      <4> HIDE DEF q
      <4>3. QED
        BY <1>1, <4>1, <4>2, RemoveBounded
    <3>3. QED
      BY <3>1, <3>2
  <2> HIDE DEF q
  <2>3. QED
    BY <1>4, <2>1, <2>2
<1>8. CASE Return(c)
  <2>1. PICK err \in ErrorCodes, f \in Answers :
          /\ ToldAnswer(c, f, err) /\ Reply(c, f)
          /\ cache' = IF Cacheable(f, err)
                      THEN [cache EXCEPT ![u] = Stored(u, [key |-> Key(c), output |-> f])]
                      ELSE cache
    BY <1>8, ReturnEffect
  <2>2. pc[c] = "closed" /\ pc'[c] = "done"
    BY <1>1, <1>8, <2>1 DEF Return, Reply, Goto
  <2>3. CASE Cacheable(f, err)
    <3> DEFINE e == [key |-> Key(c), output |-> f]
               q == Stored(u, e)
    <3>1. e \in Entry /\ e.key = Key(c)
      BY <2>1, <2>3, CacheableEntry
    <3>2. Lacks(cache[u], Key(c))
      BY <1>2, <2>2 DEF Popped, Holding, PCs
    <3> HIDE DEF e
    <3>3. q \in Seq(Entry) /\ Bounded(q)
      BY <1>1, <3>1, <3>2, StoredBounded DEF IInv, t
    <3>4. cache' = [cache EXCEPT ![u] = q]
      BY <2>1, <2>3 DEF e
    <3> HIDE DEF q
    <3>5. QED
      BY <1>4, <2>2, <3>3, <3>4 DEF Holding, PCs
  <2>4. CASE ~Cacheable(f, err)
    BY <1>5, <2>1, <2>2, <2>4 DEF Holding
  <2>5. QED
    BY <2>3, <2>4
<1>9. CASE Acquire(c) \/ Refuse(c) \/ Cancel(c)
  BY <1>1, <1>5, <1>9 DEF Acquire, Refuse, Cancel, Reply, Goto, Holding, runner
<1>10. CASE Inside(c)
  <2>1. cache' = cache /\ pc[c] \in Holding \ {"lookup"}
    BY <1>1, <1>10, InsideEffect DEF runner
  <2>2. QED
    BY <1>5, <2>1
<1>11. QED
  BY <1>6, <1>7, <1>8, <1>9, <1>10 DEF CallStep, Step, Inside

\* And what the caches hold afterwards: entries they held, and the answer of c.
LEMMA CacheContents ==
    ASSUME IInv, NEW c \in Calls, CallStep(c), NEW u \in Runners, NEW j \in DOMAIN cache'[u]
    PROVE  (\E i \in DOMAIN cache[u] : cache'[u][j] = cache[u][i]) \/ cache'[u][j].output = out'[c]
<1> DEFINE r == RunnerOf[c]
           t == cache[r]
<1>1. /\ cache \in [Runners -> Seq(Entry)] /\ r \in Runners /\ t \in Seq(Entry) /\ Bounded(t)
      /\ out \in [Calls -> Answers] /\ TypeOK
      /\ Len(t) \in Nat /\ DOMAIN t = 1..Len(t) /\ \A i \in 1..Len(t) : t[i] \in Entry
  BY CallsAssumption, LenProperties DEF IInv, TypeOK
<1> HIDE DEF t
<1>2. ASSUME NEW q \in Seq(Entry), cache' = [cache EXCEPT ![r] = q],
             \A n \in DOMAIN q : (\E i \in DOMAIN t : q[n] = t[i]) \/ q[n].output = out'[c]
      PROVE  (\E i \in DOMAIN cache[u] : cache'[u][j] = cache[u][i]) \/ cache'[u][j].output = out'[c]
  <2>1. CASE u = r
    BY <1>1, <1>2, <2>1 DEF t
  <2>2. CASE u # r
    BY <1>1, <1>2, <2>2
  <2>3. QED
    BY <2>1, <2>2
<1>3. CASE CacheHit(c)
  <2>1. PICK i \in DOMAIN t : cache' = [cache EXCEPT ![r] = Append(RemoveAt(t, i), t[i])]
    BY <1>3, HitEffect DEF t
  <2> DEFINE w == RemoveAt(t, i)
             q == Append(w, t[i])
  <2>2. /\ w \in Seq(Entry) /\ Bounded(w) /\ Lacks(w, t[i].key) /\ t[i] \in Entry
        /\ \A m \in DOMAIN w : \E n \in DOMAIN t : w[m] = t[n]
    BY <1>1, RemoveBounded
  <2>3. q \in Seq(Entry) /\ \A m \in DOMAIN q : q[m] = t[i] \/ \E n \in DOMAIN w : q[m] = w[n]
    <3> HIDE DEF w
    <3>1. QED
      BY <2>2, AppendBounded DEF Bounded
  <2> HIDE DEF w, q
  <2>4. \A m \in DOMAIN q : \E n \in DOMAIN t : q[m] = t[n]
    BY <2>2, <2>3
  <2>5. cache' = [cache EXCEPT ![r] = q]
    BY <2>1 DEF q, w
  <2>6. \A m \in DOMAIN q : (\E n \in DOMAIN t : q[m] = t[n]) \/ q[m].output = out'[c]
    BY <2>4
  <2>7. QED
    BY <1>2, <2>3, <2>5, <2>6
<1>4. CASE CacheMiss(c)
  <2> DEFINE q == Others(r, Key(c))
  <2>1. cache' = [cache EXCEPT ![r] = q]
    BY <1>4 DEF CacheMiss
  <2>2. q \in Seq(Entry) /\ \A m \in DOMAIN q : \E n \in DOMAIN t : q[m] = t[n]
    <3>1. CASE Entries(r, Key(c)) = {}
      BY <1>1, <3>1 DEF Others, t
    <3>2. CASE Entries(r, Key(c)) # {}
      <4>1. PICK i \in Entries(r, Key(c)) : q = RemoveAt(t, i)
        BY <3>2 DEF Others, t
      <4>2. i \in DOMAIN t
        BY DEF Entries, t
      <4> HIDE DEF q
      <4>3. QED
        BY <1>1, <4>1, <4>2, RemoveBounded
    <3>3. QED
      BY <3>1, <3>2
  <2> HIDE DEF q
  <2>3. \A m \in DOMAIN q : (\E n \in DOMAIN t : q[m] = t[n]) \/ q[m].output = out'[c]
    BY <2>2
  <2>4. QED
    BY <1>2, <2>1, <2>2, <2>3
<1>5. CASE Return(c)
  <2>1. PICK err \in ErrorCodes, f \in Answers :
          /\ ToldAnswer(c, f, err) /\ Reply(c, f)
          /\ cache' = IF Cacheable(f, err)
                      THEN [cache EXCEPT ![r] = Stored(r, [key |-> Key(c), output |-> f])]
                      ELSE cache
    BY <1>5, ReturnEffect
  <2>2. out'[c] = f
    BY <1>1, <2>1 DEF Reply
  <2>3. CASE Cacheable(f, err)
    <3> DEFINE e == [key |-> Key(c), output |-> f]
               q == Stored(r, e)
    <3>1. e \in Entry /\ e.key = Key(c) /\ e.output = out'[c]
      BY <2>1, <2>2, <2>3, CacheableEntry
    <3>2. Lacks(cache[r], Key(c))
      BY <1>5 DEF IInv, Popped, Return, Holding, PCs
    <3> HIDE DEF e
    <3>3. q \in Seq(Entry) /\ \A m \in DOMAIN q : q[m] = e \/ \E n \in DOMAIN t : q[m] = t[n]
      BY <1>1, <3>1, <3>2, StoredBounded DEF t
    <3>4. cache' = [cache EXCEPT ![r] = q]
      BY <2>1, <2>3 DEF e
    <3> HIDE DEF q
    <3>5. \A m \in DOMAIN q : (\E n \in DOMAIN t : q[m] = t[n]) \/ q[m].output = out'[c]
      BY <3>1, <3>3
    <3>6. QED
      BY <1>2, <3>3, <3>4, <3>5
  <2>4. CASE ~Cacheable(f, err)
    BY <2>1, <2>4
  <2>5. QED
    BY <2>3, <2>4
<1>6. CASE Acquire(c) \/ Refuse(c) \/ Cancel(c)
  BY <1>6 DEF Acquire, Refuse, Cancel, Reply, runner
<1>7. CASE Inside(c)
  BY <1>1, <1>7, InsideEffect DEF runner
<1>8. QED
  BY <1>3, <1>4, <1>5, <1>6, <1>7 DEF CallStep, Step, Inside

\* A step of a call keeps the types.
LEMMA StepType ==
    ASSUME IInv, NEW c \in Calls, CallStep(c)
    PROVE  TypeOK'
<1>1. TypeOK /\ RunnerOf[c] \in Runners /\ << >> \in Answers
  BY CallsAssumption, NothingIsGood DEF IInv, GoodAnswer
<1>2. /\ holder' \in [Runners -> Calls \cup {None}] /\ cache' \in [Runners -> Seq(Entry)]
      /\ got'[c] \in Answers
  <2>1. holder' \in [Runners -> Calls \cup {None}]
    <3>1. holder \in [Runners -> Calls \cup {None}]
      BY <1>1 DEF TypeOK
    <3>2. \/ holder' = holder
          \/ /\ holder'[RunnerOf[c]] \in {None, c}
             /\ holder' = [holder EXCEPT ![RunnerOf[c]] = holder'[RunnerOf[c]]]
      BY LockEffect
    <3> DEFINE h == holder'[RunnerOf[c]]
    <3>3. holder' = holder \/ (h \in {None, c} /\ holder' = [holder EXCEPT ![RunnerOf[c]] = h])
      BY <3>2
    <3> HIDE DEF h
    <3>4. QED
      BY <1>1, <3>1, <3>3
  <2>2. cache' \in [Runners -> Seq(Entry)]
    BY CacheEffect
  <2>3. Own(c)'
    BY OwnKept
  <2>4. QED
    BY <2>1, <2>2, <2>3 DEF Own, GoodAnswer
<1>3. CASE Acquire(c)
  <2>1. Timeout \in Nat
    BY BoundsAssumption
  <2>2. QED
    BY <1>1, <1>2, <1>3, <2>1 DEF Acquire, Goto, TypeOK, clock, provider, slots, clients, captured, PCs
<1>4. CASE CacheMiss(c)
  BY <1>1, <1>2, <1>4 DEF CacheMiss, Goto, TypeOK, clock, provider, slots, clients, captured, PCs
<1>5. CASE Cancel(c)
  BY <1>1, <1>2, <1>5 DEF Cancel, TypeOK, provider, slots, clients, captured, runner
<1>6. CASE Refuse(c) \/ CacheHit(c) \/ Return(c)
  <2>1. \E f \in Answers : Reply(c, f)
    <3>1. CASE Refuse(c)
      <4>1. LateCode(c) \in ErrorCodes
        BY DEF LateCode, ErrorCodes, ExecutionCodes
      <4>2. [k \in Asked[c] |-> Failure(c, LateCode(c))] \in Answers
        BY <4>1, FailuresAnswer DEF ToldAnswer, GoodAnswer
      <4>3. QED
        BY <3>1, <4>2 DEF Refuse
    <3>2. CASE CacheHit(c)
      BY <3>2, HitEffect DEF ToldAnswer, GoodAnswer
    <3>3. CASE Return(c)
      BY <3>3, ReturnEffect
    <3>4. QED
      BY <1>6, <3>1, <3>2, <3>3
  <2>2. error' \in [Calls -> ErrorCodes]
    <3>1. CASE Return(c)
      <4>1. PICK err \in ErrorCodes : error' = [error EXCEPT ![c] = err]
        BY <3>1, ReturnEffect
      <4>2. QED
        BY <1>1, <4>1 DEF TypeOK
    <3>2. QED
      BY <1>1, <1>6, <3>1 DEF Refuse, CacheHit, TypeOK
  <2>3. QED
    <3>1. PICK f \in Answers : Reply(c, f)
      BY <2>1
    <3>2. UNCHANGED <<now, cancelled, client, context, request, collected, made, shut, mixed,
                      deadline, closing>>
      BY <3>1 DEF Reply, clock, provider, slots, clients
    <3>3. pc' \in [Calls -> PCs] /\ out' \in [Calls -> Answers] /\ got' \in [Calls -> Answers]
      BY <1>1, <3>1 DEF Reply, Goto, TypeOK, PCs
    <3>4. using' \in [Calls -> Calls \cup {None}] /\ bound' \in [Calls -> Calls \cup {None}]
      BY <1>1, <3>1 DEF Reply, TypeOK
    <3>5. QED
      BY <1>1, <1>2, <2>2, <3>2, <3>3, <3>4 DEF TypeOK
<1>7. CASE Inside(c)
  <2>1. /\ UNCHANGED <<clock, runner>>
        /\ \E l \in Holding \ {"lookup"} : pc' = [pc EXCEPT ![c] = l]
        /\ \E v \in Calls \cup {None} : using' = [using EXCEPT ![c] = v]
        /\ \E v \in Calls \cup {None} : bound' = [bound EXCEPT ![c] = v]
        /\ \E v \in Calls \cup {None} : closing' = [closing EXCEPT ![c] = v]
        /\ \E g : got' = [got EXCEPT ![c] = g]
        /\ \E e \in ErrorCodes : error' = [error EXCEPT ![c] = e]
    BY <1>1, <1>7, InsideEffect
  <2>2. /\ {client', context', request'} \subseteq Calls \cup {None} /\ collected' \in BOOLEAN
        /\ made' \subseteq Calls /\ shut' \subseteq Calls /\ mixed' \subseteq Calls
    <3>1. /\ {client, context, request} \subseteq Calls \cup {None} /\ made \subseteq Calls
      BY <1>1 DEF TypeOK
    <3>2. /\ client' \in {client, None, c} /\ context' \in {context, None, c}
          /\ request' \in {request, None, c} /\ collected' \in BOOLEAN
          /\ made' \subseteq made \cup {c} /\ shut' \subseteq Calls /\ mixed' \subseteq Calls
      BY <1>1, <1>7, ProviderEffect
    <3>3. QED
      BY <3>1, <3>2
  <2>3. got' \in [Calls -> Answers]
    BY <1>1, <1>2, <2>1 DEF TypeOK
  <2>4. pc' \in [Calls -> PCs] /\ error' \in [Calls -> ErrorCodes]
    BY <1>1, <2>1 DEF TypeOK, Holding
  <2>5. /\ using' \in [Calls -> Calls \cup {None}] /\ bound' \in [Calls -> Calls \cup {None}]
        /\ closing' \in [Calls -> Calls \cup {None}]
    BY <1>1, <2>1 DEF TypeOK
  <2>6. /\ now' = now /\ cancelled' = cancelled /\ deadline' = deadline /\ out' = out
    BY <2>1 DEF clock, runner
  <2>7. QED
    BY <1>1, <1>2, <2>2, <2>3, <2>4, <2>5, <2>6 DEF TypeOK
<1>8. QED
  BY <1>3, <1>4, <1>5, <1>6, <1>7 DEF CallStep, Step, Inside

\* Only the check of open enters the window, and it marks whom it meets there.
LEMMA WindowEffect ==
    ASSUME TypeOK, NEW c \in Calls, CallStep(c)
    PROVE  /\ mixed \subseteq mixed'
           /\ pc'[c] \in Window =>
                 \/ pc[c] \in Window
                 \/ c \in mixed' /\ \A d \in Calls \ {c} : pc[d] \in Window => d \in mixed'
                 \/ \A d \in Calls \ {c} : pc[d] \notin Window
<1>1. pc \in [Calls -> PCs]
  BY DEF TypeOK
<1> USE DEF Goto, Window, Opening, Looking, Capturing
<1>2. CASE Acquire(c) \/ CacheMiss(c) \/ Cancel(c)
  BY <1>1, <1>2 DEF Acquire, CacheMiss, Cancel, provider, clients
<1>3. CASE Refuse(c) \/ CacheHit(c) \/ Return(c)
  BY <1>1, <1>3 DEF Refuse, CacheHit, Return, Reply, provider, clients
<1>4. CASE CheckOpen(c)
  <2> DEFINE others == {d \in Calls \ {c} : pc[d] \in Window}
  <2>1. mixed' = IF others = {} THEN mixed ELSE mixed \cup others \cup {c}
    BY <1>4 DEF CheckOpen
  <2>2. QED
    BY <2>1
<1>5. CASE Inside(c) /\ ~CheckOpen(c)
  <2>1. mixed' = mixed
    BY <1>5, ProviderEffect
  <2>2. CASE OpenFails(c) \/ LookFails(c) \/ CollectFails(c)
    <3>1. PICK code : Fail(c, code)
      BY <2>2 DEF OpenFails, LookFails, CollectFails
    <3>2. QED
      BY <1>1, <2>1, <3>1 DEF Fail
  <2>3. CASE StoreContext(c) \/ StoreClient(c) \/ StoreRequest(c) \/ ClearCollected(c)
    BY <1>1, <2>1, <2>3 DEF StoreContext, StoreClient, StoreRequest, ClearCollected
  <2>4. CASE Look(c) \/ SetCollected(c) \/ LoadClient(c) \/ LoadContext(c) \/ Yield(c) \/ EndCollect(c)
    BY <1>1, <2>1, <2>4 DEF Look, SetCollected, LoadClient, LoadContext, Yield, EndCollect
  <2>5. CASE BeginClose(c) \/ DropClient(c) \/ DropRequest(c) \/ DropContext(c) \/ ShutClient(c)
    BY <1>1, <2>1, <2>5 DEF BeginClose, DropClient, DropRequest, DropContext, ShutClient
  <2>6. QED
    BY <1>5, <2>2, <2>3, <2>4, <2>5 DEF Inside
<1>6. QED
  BY <1>2, <1>3, <1>4, <1>5 DEF CallStep, Step, Inside

\* A call that is not mixed stays alone in the window.
LEMMA SoloKept ==
    ASSUME IInv, NEW c \in Calls, CallStep(c)
    PROVE  Solo'
<1>1. /\ mixed \subseteq mixed'
      /\ pc'[c] \in Window =>
            \/ pc[c] \in Window
            \/ c \in mixed' /\ \A d \in Calls \ {c} : pc[d] \in Window => d \in mixed'
            \/ \A d \in Calls \ {c} : pc[d] \notin Window
  BY WindowEffect DEF IInv
<1>2. \A d \in Calls \ {c} : pc'[d] = pc[d]
  BY OthersKept DEF IInv
<1>3. Solo
  BY DEF IInv
<1>4. QED
  BY <1>1, <1>2, <1>3 DEF Solo

\* What a call that is not mixed has stored and captured is its own: its own
\* steps,
LEMMA LoneOwn ==
    ASSUME IInv, NEW c \in Calls, CallStep(c)
    PROVE  Lone(c)'
<1>1. pc \in [Calls -> PCs] /\ Lone(c) /\ mixed \subseteq mixed' /\ TypeOK
      /\ using \in [Calls -> Calls \cup {None}] /\ bound \in [Calls -> Calls \cup {None}]
  BY WindowEffect DEF IInv, TypeOK
<1> USE DEF Goto, Window, Opening, Looking, Capturing, Closing, Lone, slots, clients, provider,
            captured
<1>2. CASE Acquire(c) \/ CacheMiss(c) \/ Cancel(c)
  BY <1>1, <1>2 DEF Acquire, CacheMiss, Cancel
<1>3. CASE Refuse(c) \/ CacheHit(c) \/ Return(c)
  BY <1>1, <1>3 DEF Refuse, CacheHit, Return, Reply
<1>4. CASE OpenFails(c) \/ LookFails(c) \/ CollectFails(c)
  <2>1. PICK code : Fail(c, code)
    BY <1>4 DEF OpenFails, LookFails, CollectFails
  <2>2. QED
    BY <1>1, <2>1 DEF Fail
<1>5. CASE CheckOpen(c)
  BY <1>1, <1>5 DEF CheckOpen
<1>6. CASE StoreContext(c) \/ StoreClient(c) \/ StoreRequest(c) \/ ClearCollected(c)
  BY <1>1, <1>6 DEF StoreContext, StoreClient, StoreRequest, ClearCollected
<1>7. CASE Look(c)
  BY <1>1, <1>7 DEF Look, AfterLook
<1>8. CASE SetCollected(c) \/ LoadClient(c) \/ LoadContext(c)
  BY <1>1, <1>8 DEF SetCollected, LoadClient, LoadContext
<1>9. CASE Yield(c) \/ EndCollect(c)
  BY <1>1, <1>9 DEF Yield, EndCollect
<1>10. CASE BeginClose(c) \/ DropClient(c) \/ DropRequest(c) \/ DropContext(c) \/ ShutClient(c)
  BY <1>1, <1>10 DEF BeginClose, DropClient, DropRequest, DropContext, ShutClient
<1>11. QED
  BY <1>2, <1>3, <1>4, <1>5, <1>6, <1>7, <1>8, <1>9, <1>10 DEF CallStep, Step

\* and those of the others, which can only drop it.
LEMMA LoneOther ==
    ASSUME IInv, NEW c \in Calls, CallStep(c), NEW d \in Calls \ {c}
    PROVE  Lone(d)'
<1>1. /\ pc'[d] = pc[d] /\ using'[d] = using[d] /\ bound'[d] = bound[d]
      /\ Lone(d) /\ Solo /\ mixed \subseteq mixed' /\ TypeOK
  BY OthersKept, WindowEffect DEF IInv
<1>2. d \notin mixed /\ pc[d] \in Window => client' \in {client, None} /\ context' \in {context, None}
  <2>1. SUFFICES ASSUME d \notin mixed, pc[d] \in Window
                 PROVE  client' \in {client, None} /\ context' \in {context, None}
    OBVIOUS
  <2>2. pc[c] \notin Window
    BY <1>1, <2>1 DEF Solo
  <2>3. CASE Inside(c)
    BY <1>1, <2>2, <2>3, ProviderEffect DEF Window, Opening
  <2>4. CASE ~Inside(c)
    BY <2>4 DEF CallStep, Step, Inside, Acquire, Cancel, Refuse, CacheHit, CacheMiss, Return, Reply,
       provider, slots
  <2>5. QED
    BY <2>3, <2>4
<1>3. QED
  BY <1>1, <1>2 DEF Lone

\* No evidence is lent by a call that was alone with the provider.
LEMMA LentKept ==
    ASSUME IInv, NEW c \in Calls, CallStep(c)
    PROVE  LentOnly'
<1>1. /\ TypeOK /\ LentOnly /\ Own(c) /\ Lone(c) /\ mixed \subseteq mixed'
      /\ got \in [Calls -> Answers] /\ out \in [Calls -> Answers] /\ RunnerOf[c] \in Runners
  BY WindowEffect, CallsAssumption DEF IInv, TypeOK
<1>2. \A e : Lent(e, mixed) => Lent(e, mixed')
  BY <1>1 DEF Lent
<1>3. \A d \in Calls \ {c} : got'[d] = got[d] /\ out'[d] = out[d]
  BY <1>1, OthersKept
<1>4. \A k \in DOMAIN got'[c] : Lent(got'[c][k], mixed')
  <2>1. CASE Inside(c)
    <3>1. GoodAnswer(c, got[c])
      BY <1>1 DEF Own
    <3>2. CASE got' = got \/ got' = [got EXCEPT ![c] = << >>]
      <4>1. DOMAIN << >> = {} /\ got'[c] \in {got[c], << >>}
        BY <1>1, <3>2
      <4>2. QED
        BY <1>1, <1>2, <4>1 DEF LentOnly
    <3>3. ASSUME pc[c] = "collect", NEW k \in Asked[c], NEW e,
                 e.by = c, e.client = using[c], e.context = bound[c],
                 got' = [got EXCEPT ![c] = With(got[c], k, e)]
          PROVE  \A l \in DOMAIN got'[c] : Lent(got'[c][l], mixed')
      <4>1. Lent(e, mixed)
        BY <1>1, <3>3 DEF Lent, Lone
      <4>2. \A l \in DOMAIN got'[c] : got'[c][l] = e \/ (l \in DOMAIN got[c] /\ got'[c][l] = got[c][l])
        BY <1>1, <3>3 DEF With
      <4>3. QED
        BY <1>1, <1>2, <4>1, <4>2 DEF LentOnly
    <3>4. QED
      BY <1>1, <2>1, <3>1, <3>2, <3>3, EvidenceEffect
  <2>2. CASE ~Inside(c)
    <3>1. got'[c] \in {got[c], << >>}
      BY <1>1, <2>2 DEF CallStep, Step, Inside, Acquire, Cancel, Refuse, CacheHit, CacheMiss, Return, Reply
    <3>2. DOMAIN << >> = {}
      OBVIOUS
    <3>3. QED
      BY <1>1, <1>2, <3>1, <3>2 DEF LentOnly
  <2>3. QED
    BY <2>1, <2>2
<1>5. \A k \in DOMAIN out'[c] : Lent(out'[c][k], mixed')
  <2>1. CASE Refuse(c)
    <3>1. LateCode(c) \in ErrorCodes
      BY DEF LateCode, ErrorCodes, ExecutionCodes
    <3>2. out'[c] = [k \in Asked[c] |-> Failure(c, LateCode(c))]
      BY <1>1, <2>1 DEF Refuse, Reply
    <3>3. QED
      BY <1>2, <3>1, <3>2, FailureIsGood
  <2>2. CASE CacheHit(c)
    <3>1. PICK i \in DOMAIN cache[RunnerOf[c]] : Reply(c, cache[RunnerOf[c]][i].output)
      BY <2>2, HitEffect
    <3>2. out'[c] = cache[RunnerOf[c]][i].output
      BY <1>1, <3>1 DEF Reply
    <3>3. QED
      BY <1>1, <1>2, <3>2 DEF LentOnly
  <2>3. CASE Return(c)
    <3>1. PICK err \in ErrorCodes, f \in Answers :
             /\ ToldAnswer(c, f, err) /\ Reply(c, f)
             /\ \A k \in Asked[c] : (k \in DOMAIN got[c] /\ f[k] = got[c][k]) \/ \A m : Lent(f[k], m)
      BY <2>3, ReturnEffect
    <3>2. out'[c] = f /\ DOMAIN f = Asked[c]
      BY <1>1, <3>1 DEF Reply, ToldAnswer
    <3>3. QED
      BY <1>1, <1>2, <3>1, <3>2 DEF LentOnly
  <2>4. CASE Acquire(c) \/ Cancel(c) \/ CacheMiss(c)
    BY <1>1, <1>2, <2>4 DEF LentOnly, Acquire, Cancel, CacheMiss, runner
  <2>5. CASE Inside(c)
    BY <1>1, <1>2, <2>5, InsideEffect DEF LentOnly, runner
  <2>6. QED
    BY <2>1, <2>2, <2>3, <2>4, <2>5 DEF CallStep, Step, Inside
<1>6. ASSUME NEW u \in Runners, NEW j \in DOMAIN cache'[u], NEW k \in DOMAIN cache'[u][j].output
      PROVE  Lent(cache'[u][j].output[k], mixed')
  <2>1. \/ \E i \in DOMAIN cache[u] : cache'[u][j] = cache[u][i]
        \/ cache'[u][j].output = out'[c]
    BY CacheContents
  <2>2. QED
    BY <1>1, <1>2, <1>5, <1>6, <2>1 DEF LentOnly
<1>7. QED
  BY <1>1, <1>2, <1>3, <1>4, <1>5, <1>6 DEF LentOnly

-----------------------------------------------------------------------------
(* The invariant is inductive *)

\* The runners start unlocked, with empty caches and a closed provider.
LEMMA InitIInv == Init => IInv
<1> SUFFICES ASSUME Init
             PROVE  IInv
  OBVIOUS
<1>1. << >> \in Answers /\ (\A c \in Calls : GoodAnswer(c, << >>)) /\ DOMAIN << >> = {}
  <2>1. << >> \in [{} -> Item]
    OBVIOUS
  <2>2. QED
    BY <2>1, AnswerIntro, NothingIsGood
<1>2. TypeOK
  <2>1. << >> \in Seq(Entry)
    OBVIOUS
  <2>2. QED
    BY <1>1, <2>1 DEF Init, TypeOK, PCs, ErrorCodes, NoOutput
<1>3. Locked
  BY CallsAssumption DEF Init, Locked, Holding
<1>4. LentOnly
  BY <1>1 DEF Init, LentOnly, NoOutput
<1>5. Solo /\ \A c \in Calls : Own(c) /\ Popped(c) /\ Lone(c)
  BY <1>1 DEF Init, Own, Popped, Holding, Solo, Lone, Window, Opening, Looking, Capturing
<1>6. \A u \in Runners : Bounded(cache[u])
  <2>1. \A u \in Runners : cache[u] = << >>
    BY DEF Init
  <2>2. QED
    BY <2>1, BoundsAssumption DEF Bounded
<1>7. QED
  BY <1>2, <1>3, <1>4, <1>5, <1>6 DEF IInv

\* A step of a call or its caller.
LEMMA CallPreserves ==
    ASSUME IInv, NEW c \in Calls, CallStep(c)
    PROVE  IInv'
<1>1. /\ TypeOK' /\ LentOnly' /\ Solo' /\ Own(c)' /\ Popped(c)' /\ \A u \in Runners : Bounded(cache[u])'
      /\ \A d \in Calls : Lone(d)'
  BY StepType, LentKept, SoloKept, OwnKept, CacheEffect, LoneOwn, LoneOther
<1>2. \A d \in Calls \ {c} :
         pc'[d] = pc[d] /\ got'[d] = got[d] /\ error'[d] = error[d] /\ out'[d] = out[d]
  BY OthersKept DEF IInv
<1>3. RunnerOf \in [Calls -> Runners] /\ None \notin Calls
      /\ holder \in [Runners -> Calls \cup {None}] /\ Locked
  BY CallsAssumption DEF IInv, TypeOK
<1>4. Locked'
  BY <1>2, <1>3, LockEffect DEF Locked
<1>5. ASSUME NEW d \in Calls \ {c} PROVE Own(d)' /\ Popped(d)'
  <2>1. Own(d) /\ Popped(d)
    BY DEF IInv
  <2>2. Own(d)'
    BY <1>2, <2>1 DEF Own
  <2>3. Popped(d)'
    <3>1. SUFFICES ASSUME pc[d] \in Holding \ {"lookup"}
                   PROVE  cache'[RunnerOf[d]] = cache[RunnerOf[d]]
      BY <1>2, <2>1 DEF Popped
    <3>2. pc[c] \in Holding => RunnerOf[d] # RunnerOf[c]
      BY <1>3, <3>1 DEF Locked
    <3>3. QED
      BY <1>3, <3>2, CacheEffect
  <2>4. QED
    BY <2>2, <2>3
<1>6. QED
  BY <1>1, <1>4, <1>5 DEF IInv

\* Every step keeps the invariant.
LEMMA NextIInv == IInv /\ [Next]_vars => IInv'
<1> SUFFICES ASSUME IInv, [Next]_vars
             PROVE  IInv'
  OBVIOUS
<1>1. ASSUME NEW c \in Calls, CallStep(c) PROVE IInv'
  BY <1>1, CallPreserves
<1>2. CASE Tick \/ UNCHANGED vars
  <2>1. /\ UNCHANGED <<cancelled, holder, cache, client, context, request, collected, made, shut,
                       mixed, pc, deadline, using, bound, closing, got, error, out>>
        /\ now' \in Nat
    BY <1>2 DEF Tick, vars, clock, provider, slots, clients, captured, runner, IInv, TypeOK
  <2>2. TypeOK'
    BY <2>1 DEF IInv, TypeOK
  <2>3. Locked' /\ Solo' /\ \A u \in Runners : Bounded(cache'[u])
    BY <2>1 DEF IInv, Locked, Solo
  <2>4. LentOnly'
    BY <2>1 DEF IInv, LentOnly, Lent
  <2>5. \A c \in Calls : Own(c)' /\ Popped(c)' /\ Lone(c)'
    BY <2>1 DEF IInv, Own, Popped, Lone
  <2>6. QED
    BY <2>2, <2>3, <2>4, <2>5 DEF IInv
<1>3. QED
  BY <1>1, <1>2 DEF Next, CallStep

-----------------------------------------------------------------------------
(* The theorems *)

\* Every reachable state satisfies the inductive invariant.
THEOREM Invariance == Spec => []IInv
<1>1. Init => IInv
  BY InitIInv
<1>2. IInv /\ [Next]_vars => IInv'
  BY NextIInv
<1>3. QED
  BY <1>1, <1>2, PTL DEF Spec

\* No positive answer is outside its validity at the instant that was asked for.
THEOREM PositiveIsCurrent == Spec => []PassIsCurrent
<1>1. IInv => PassIsCurrent
  BY DEF IInv, Own, ToldAnswer, GoodAnswer, GoodItem, PassIsCurrent
<1>2. QED
  BY <1>1, Invariance, PTL

\* Evidence is read for the request it answers, and with the client and the
\* credentials of its own open unless two opens overlapped, whatever runners
\* share the provider; and no failure of a run disappears.
THEOREM AnswersOwnRequest == Spec => []AnswersTheRequest
<1>1. IInv => AnswersTheRequest
  <2> SUFFICES ASSUME IInv, NEW c \in Calls, pc[c] = "done"
               PROVE  /\ \A k \in Asked[c] : Key(out[c][k].by) = Key(c) /\ Lent(out[c][k], mixed)
                      /\ error[c] # "none" => \E k \in Asked[c] : out[c][k].code = error[c]
    BY DEF AnswersTheRequest, Lent
  <2>1. ToldAnswer(c, out[c], error[c]) /\ LentOnly
    BY DEF IInv, Own
  <2>2. QED
    BY <2>1 DEF ToldAnswer, GoodAnswer, GoodItem, LentOnly
<1>2. QED
  BY <1>1, Invariance, PTL

\* The cache is within its capacity, has one entry per key and holds nothing but
\* complete conclusive answers.
THEOREM CacheStaysSound == Spec => []CacheIsSound
<1>1. IInv => CacheIsSound
  <2> SUFFICES ASSUME IInv, NEW u \in Runners
               PROVE  /\ Len(cache[u]) <= Capacity
                      /\ \A i, j \in DOMAIN cache[u] : cache[u][i].key = cache[u][j].key => i = j
                      /\ \A entry \in ToSet(cache[u]) : \A k \in entry.key[2] :
                            Conclusive(entry.output[k]) /\ entry.key = Key(entry.output[k].by)
    BY DEF CacheIsSound
  <2>1. Bounded(cache[u]) /\ cache[u] \in Seq(Entry)
    BY DEF IInv, TypeOK
  <2>2. \A entry \in ToSet(cache[u]) : entry \in Entry
    BY <2>1, LenProperties DEF ToSet
  <2>3. QED
    BY <2>1, <2>2 DEF Bounded, Entry
<1>2. QED
  BY <1>1, Invariance, PTL

\* Where the client of a call is when no other runner touches the provider: it
\* stays the current one until its own close has loaded it.
Tended ==
    \A c \in made :
        /\ pc[c] \in {"request", "flag", "collect", "close"} \cup Looking \cup Capturing => client = c
        /\ pc[c] \in Closing \ {"close"} => closing[c] = c
        /\ pc[c] \in {"closed", "done"} => c \in shut
        /\ pc[c] \notin {"idle", "lookup", "open", "context", "client"}

\* When one runner drives the provider, a step of a call tends its client.
LEMMA TendedKept ==
    ASSUME \A u, v \in Runners : u = v, IInv, IInv', Tended, NEW c \in Calls, CallStep(c)
    PROVE  Tended'
<1>1. /\ pc \in [Calls -> PCs] /\ TypeOK /\ made \subseteq Calls
      /\ closing \in [Calls -> Calls \cup {None}] /\ None \notin Calls
  BY CallsAssumption DEF IInv, TypeOK
<1>2. ASSUME NEW d \in made, d # c
      PROVE  /\ pc'[d] = pc[d] /\ closing'[d] = closing[d]
             /\ pc[d] \in Holding => client' = client
             /\ shut \subseteq shut'
  <2>1. pc'[d] = pc[d] /\ closing'[d] = closing[d]
    BY <1>1, <1>2, OthersKept
  <2>2. pc[d] \in Holding => pc[c] \notin Holding
    BY <1>1, <1>2, CallsAssumption DEF IInv, Locked
  <2>3. shut \subseteq shut' /\ (pc[c] \notin Holding => client' = client)
    <3>1. CASE Inside(c)
      BY <1>1, <3>1, InsideEffect, ProviderEffect
    <3>2. CASE ~Inside(c)
      BY <3>2 DEF CallStep, Step, Inside, Acquire, Cancel, Refuse, CacheHit, CacheMiss, Return, Reply,
         provider, slots, clients
    <3>3. QED
      BY <3>1, <3>2
  <2>4. QED
    BY <2>1, <2>2, <2>3
<1>3. made' \subseteq made \cup {c}
  <2>1. CASE Inside(c)
    BY <1>1, <2>1, ProviderEffect
  <2>2. CASE ~Inside(c)
    BY <2>2 DEF CallStep, Step, Inside, Acquire, Cancel, Refuse, CacheHit, CacheMiss, Return, Reply,
       provider, clients
  <2>3. QED
    BY <2>1, <2>2
<1>4. ASSUME NEW d \in made', d # c
      PROVE  /\ pc'[d] \in {"request", "flag", "collect", "close"} \cup Looking \cup Capturing => client' = d
             /\ pc'[d] \in Closing \ {"close"} => closing'[d] = d
             /\ pc'[d] \in {"closed", "done"} => d \in shut'
             /\ pc'[d] \notin {"idle", "lookup", "open", "context", "client"}
  <2>1. d \in made
    BY <1>3, <1>4
  <2>2. /\ pc'[d] = pc[d] /\ closing'[d] = closing[d]
        /\ pc[d] \in Holding => client' = client
        /\ shut \subseteq shut'
    BY <1>2, <1>4, <2>1
  <2>3. {"request", "flag", "collect", "close"} \cup Looking \cup Capturing \subseteq Holding
    BY DEF Holding, PCs, Window, Opening, Looking, Capturing, Closing
  <2>4. QED
    BY <2>1, <2>2, <2>3 DEF Tended
<1>5. c \in made' =>
        /\ pc'[c] \in {"request", "flag", "collect", "close"} \cup Looking \cup Capturing => client' = c
        /\ pc'[c] \in Closing \ {"close"} => closing'[c] = c
        /\ pc'[c] \in {"closed", "done"} => c \in shut'
        /\ pc'[c] \notin {"idle", "lookup", "open", "context", "client"}
  <2> USE DEF Goto, Opening, Looking, Capturing, Closing, Tended, slots, clients, provider, captured
  <2>1. CASE Acquire(c) \/ CacheMiss(c) \/ Cancel(c)
    BY <1>1, <2>1 DEF Acquire, CacheMiss, Cancel
  <2>2. CASE Refuse(c) \/ CacheHit(c) \/ Return(c)
    BY <1>1, <2>2 DEF Refuse, CacheHit, Return, Reply
  <2>3. CASE OpenFails(c) \/ LookFails(c) \/ CollectFails(c)
    <3>1. PICK code : Fail(c, code)
      BY <2>3 DEF OpenFails, LookFails, CollectFails
    <3>2. pc[c] \in {"open", "context", "collect"} \cup Looking
      BY <2>3 DEF OpenFails, LookFails, CollectFails
    <3>3. QED
      BY <1>1, <3>1, <3>2 DEF Fail
  <2>4. CASE CheckOpen(c) \/ StoreContext(c)
    BY <1>1, <2>4 DEF CheckOpen, StoreContext
  <2>5. CASE StoreClient(c)
    BY <1>1, <2>5 DEF StoreClient
  <2>6. CASE StoreRequest(c) \/ ClearCollected(c) \/ SetCollected(c) \/ LoadClient(c) \/ LoadContext(c)
    BY <1>1, <2>6 DEF StoreRequest, ClearCollected, SetCollected, LoadClient, LoadContext
  <2>7. CASE Look(c)
    BY <1>1, <2>7 DEF Look, AfterLook
  <2>8. CASE Yield(c) \/ EndCollect(c)
    BY <1>1, <2>8 DEF Yield, EndCollect
  <2>9. CASE BeginClose(c) \/ DropClient(c) \/ DropRequest(c) \/ DropContext(c)
    BY <1>1, <2>9 DEF BeginClose, DropClient, DropRequest, DropContext
  <2>10. CASE ShutClient(c)
    BY <1>1, <2>10 DEF ShutClient
  <2>11. QED
    BY <2>1, <2>2, <2>3, <2>4, <2>5, <2>6, <2>7, <2>8, <2>9, <2>10 DEF CallStep, Step
<1>6. QED
  BY <1>4, <1>5 DEF Tended

\* A provider that one runner drives is left without an open client on every
\* way out of a call, also when its open, its reads or its close fail.
THEOREM ClientIsClosed ==
    ASSUME \A u, v \in Runners : u = v
    PROVE  Spec => []NoLeakedClient
<1>1. Init => Tended
  BY DEF Init, Tended
<1>2. IInv /\ IInv' /\ Tended /\ [Next]_vars => Tended'
  <2> SUFFICES ASSUME IInv, IInv', Tended, [Next]_vars
               PROVE  Tended'
    OBVIOUS
  <2>1. ASSUME NEW c \in Calls, CallStep(c) PROVE Tended'
    BY <2>1, TendedKept
  <2>2. CASE Tick \/ UNCHANGED vars
    BY <2>2 DEF Tick, vars, provider, slots, clients, captured, Tended
  <2>3. QED
    BY <2>1, <2>2 DEF Next, CallStep
<1>3. Tended => NoLeakedClient
  BY DEF Tended, NoLeakedClient
<1>4. QED
  BY <1>1, <1>2, <1>3, Invariance, PTL DEF Spec

\* A call that is late or cancelled while it holds the runner answers nothing
\* conclusive.
THEOREM LateIsInconclusive == Spec => LateNeverCounts
<1> DEFINE A == \A c \in Calls : pc[c] \in Holding /\ Late(c) /\ pc'[c] = "done" =>
                   \A k \in Asked[c] : ~Conclusive(out'[c][k])
<1>1. IInv /\ [Next]_vars => A
  <2> SUFFICES ASSUME IInv, [Next]_vars, NEW c \in Calls,
                      pc[c] \in Holding, Late(c), pc'[c] = "done", NEW k \in Asked[c]
               PROVE  ~Conclusive(out'[c][k])
    OBVIOUS
  <2>1. pc \in [Calls -> PCs] /\ out \in [Calls -> Answers] /\ pc[c] # "done"
    BY DEF IInv, TypeOK, Holding, PCs
  <2>2. CallStep(c)
    <3>1. CASE Tick \/ UNCHANGED vars
      BY <2>1, <3>1 DEF Tick, vars
    <3>2. ASSUME NEW d \in Calls \ {c}, CallStep(d) PROVE FALSE
      BY <2>1, <3>2, OthersKept DEF IInv
    <3>3. QED
      BY <3>1, <3>2 DEF Next, CallStep
  <2>3. Refuse(c) \/ Return(c)
    <3>1. ~Acquire(c) /\ ~CacheMiss(c) /\ ~Cancel(c) /\ ~CacheHit(c)
      BY <2>1 DEF Acquire, CacheMiss, Cancel, CacheHit, Goto
    <3>2. ~Inside(c)
      <4>1. SUFFICES ASSUME Inside(c) PROVE FALSE
        OBVIOUS
      <4>2. PICK l \in Holding : pc' = [pc EXCEPT ![c] = l]
        BY <4>1, InsideEffect DEF IInv
      <4>3. QED
        BY <2>1, <4>2 DEF Holding
    <3>3. QED
      BY <2>2, <3>1, <3>2 DEF CallStep, Step, Inside
  <2>4. CASE Refuse(c)
    <3>1. out'[c][k] = Failure(c, LateCode(c))
      BY <2>1, <2>4 DEF Refuse, Reply
    <3>2. QED
      BY <3>1 DEF Failure, LateCode, Conclusive
  <2>5. CASE Return(c)
    <3>1. PICK code \in CloseCodes :
             LET err == CloseError(c, code)
             IN  Reply(c, Answer(c, Kept(c, err, code = "INTERNAL"), err))
      BY <2>5 DEF Return
    <3> DEFINE err == CloseError(c, code)
    <3>2. err \in {"INTERNAL", "CANCELLED", "TIMEOUT"}
          /\ (err = "INTERNAL" => code = "INTERNAL")
      BY DEF CloseError, LateCode
    <3>3. out'[c] = Answer(c, Kept(c, err, code = "INTERNAL"), err)
      BY <2>1, <3>1 DEF Reply
    <3> HIDE DEF err
    <3>4. Kept(c, err, code = "INTERNAL") = << >>
      BY <3>2 DEF Kept
    <3>5. out'[c][k] = Failure(c, err)
      BY <3>2, <3>3, <3>4, NothingIsGood DEF Answer
    <3>6. QED
      BY <3>2, <3>5 DEF Failure, Conclusive
  <2>6. QED
    BY <2>3, <2>4, <2>5
<1>2. QED
  BY <1>1, Invariance, PTL DEF Spec, LateNeverCounts

==============================================================================
