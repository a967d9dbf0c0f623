--------------------- MODULE ServiceNowDelivery_proofs ---------------------
(***************************************************************************)
(* Theorems about ServiceNowDelivery for every set of runs and plans,      *)
(* every retry policy and every combination of faults, and about the plans *)
(* it starts with (ServiceNowPlan): what their identities cover, for any   *)
(* calls, reports, mappings and alterations of the plans that are held.    *)
(***************************************************************************)
EXTENDS ServiceNowDelivery, ServiceNowPlan, TLAPS

\* Building a result inside execute keeps the types of what it assigns.
LEMMA ReturnType ==
    ASSUME TypeOK, NEW r \in Runs, NEW o \in Outcomes, NEW n \in 0..5,
           NEW c \in Codes, NEW s \in WriteStates, Return(r, o, FALSE, n, c, s)
    PROVE  /\ pc' \in [Runs -> PCs]
           /\ guarded' \in [Runs -> BOOLEAN]
           /\ result' \in [Runs -> Results]
<1>1. [outcome |-> o, verified |-> FALSE, attempts |-> n, code |-> c, state |-> s] \in Results
  BY DEF Results
<1>2. QED
  BY <1>1 DEF Return, Goto, TypeOK, PCs

LEMMA ReturnVerifiedType ==
    ASSUME TypeOK, NEW r \in Runs, NEW o \in Outcomes, NEW n \in 0..5,
           Return(r, o, TRUE, n, "none", "none")
    PROVE  /\ pc' \in [Runs -> PCs]
           /\ guarded' \in [Runs -> BOOLEAN]
           /\ result' \in [Runs -> Results]
<1>1. [outcome |-> o, verified |-> TRUE, attempts |-> n, code |-> "none", state |-> "none"]
        \in Results
  BY DEF Results, Codes, WriteStates
<1>2. QED
  BY <1>1 DEF Return, Goto, TypeOK, PCs

\* So does an error that reaches execute's handler.
LEMMA RaiseType ==
    ASSUME TypeOK, NEW r \in Runs, NEW c \in Codes, NEW s \in WriteStates, Raise(r, c, s)
    PROVE  /\ pc' \in [Runs -> PCs]
           /\ guarded' \in [Runs -> BOOLEAN]
           /\ result' \in [Runs -> Results]
<1>1. CaughtOutcome(c, s) \in Outcomes
  BY DEF CaughtOutcome, Outcomes
<1>2. [outcome |-> CaughtOutcome(c, s), verified |-> FALSE, attempts |-> 0,
       code |-> c, state |-> s] \in Results
  BY <1>1 DEF Results
<1>3. QED
  BY <1>2 DEF Raise, Goto, TypeOK, PCs

LEMMA AnswerType ==
    ASSUME TypeOK, NEW m, NEW s \in Replies, Answer(m, s)
    PROVE  reply' \in [Runs -> Replies]
BY DEF Answer, TypeOK

LEMMA NoResultType == NoResult \in Results
BY DEF NoResult, Results, Outcomes, Codes, WriteStates

\* The gates of execute only build results of the declared shape.
LEMMA GateType ==
    ASSUME TypeOK, NEW r \in Runs, NEW m \in Modes, Gate(r, m)
    PROVE  /\ pc' \in [Runs -> PCs]
           /\ guarded' \in [Runs -> BOOLEAN]
           /\ result' \in [Runs -> Results]
<1>1. /\ {"RESPONSE_INVALID", "UNTRUSTED_DESTINATION", "INVALID_MAPPING", "REPLAY_MISMATCH",
          "none", "MODEL_NOT_ALLOWED", "AUTHORIZATION_DENIED", "AUTHENTICATION_FAILED"}
           \subseteq Codes
      /\ {"none", "NOT_ATTEMPTED"} \subseteq WriteStates
      /\ {"DRY_RUN", "FAILED", "READ_ONLY"} \subseteq Outcomes
  BY DEF Codes, WriteStates, Outcomes
<1>2. CASE \E c \in Codes : Raise(r, c, "NOT_ATTEMPTED")
  BY <1>1, <1>2, RaiseType
<1>3. CASE \E o \in Outcomes, c \in Codes, st \in {"none", "NOT_ATTEMPTED"} :
             Return(r, o, FALSE, 0, c, st)
  <2>1. PICK o \in Outcomes, c \in Codes, st \in {"none", "NOT_ATTEMPTED"} :
               Return(r, o, FALSE, 0, c, st)
    BY <1>3
  <2>2. st \in WriteStates /\ 0 \in 0..5
    BY <1>1
  <2>3. QED
    BY <2>1, <2>2, ReturnType
<1>4. \/ \E c \in Codes : Raise(r, c, "NOT_ATTEMPTED")
      \/ \E o \in Outcomes, c \in Codes, st \in {"none", "NOT_ATTEMPTED"} :
             Return(r, o, FALSE, 0, c, st)
  <2>1. CASE m.plan = "refused"
    BY <1>1, <2>1 DEF Gate
  <2>2. CASE m.plan = "altered"
    BY <1>1, <2>2 DEF Gate
  <2>3. CASE m.plan = "valid"
    BY <1>1, <2>3 DEF Gate
  <2>4. QED
    BY <2>1, <2>2, <2>3 DEF Gate
<1>5. QED
  BY <1>2, <1>3, <1>4

\* A step that fires one of these builders leaves the rest of the state typed.
LEMMA UnknownType ==
    ASSUME TypeOK, NEW r \in Runs, Unknown(r)
    PROVE  /\ pc' \in [Runs -> PCs]
           /\ guarded' \in [Runs -> BOOLEAN]
           /\ result' \in [Runs -> Results]
<1>1. /\ attempt[r] \in 0..5
      /\ "PARTIAL_FAILURE_UNKNOWN" \in Outcomes
      /\ "PARTIAL_FAILURE_UNKNOWN" \in Codes
      /\ "UNKNOWN" \in WriteStates
  BY AttemptsAssumption DEF TypeOK, Outcomes, Codes, WriteStates
<1>2. QED
  BY <1>1, ReturnType DEF Unknown

LEMMA ReadType ==
    ASSUME TypeOK, NEW r \in Runs, NEW label \in PCs, Read(r, label)
    PROVE  /\ pc' \in [Runs -> PCs]
           /\ tries' \in [Runs -> 0..Attempts]
BY AttemptsAssumption DEF Read, Goto, TypeOK

-----------------------------------------------------------------------------
(* Type correctness *)

LEMMA InitType == Init => TypeOK
<1> SUFFICES ASSUME Init PROVE TypeOK
  OBVIOUS
<1>1. NoMode \in ModeSpace
  BY DEF NoMode, ModeSpace
<1>2. /\ attempt \in [Runs -> 0..Attempts]
      /\ tries \in [Runs -> 0..Attempts]
  BY AttemptsAssumption DEF Init
<1>3. events \in [Runs -> Seq(Outcomes)]
  BY DEF Init
<1>4. QED
  BY <1>1, <1>2, <1>3, NoResultType DEF Init, TypeOK, PCs, Replies

LEMMA StartType ==
    ASSUME TypeOK, NEW r \in Runs, Start(r)
    PROVE  TypeOK'
<1>1. PICK m \in Modes :
        /\ mode' = [mode EXCEPT ![r] = m]
        /\ IF Admitted(r, m)
           THEN Goto(r, "authorize") /\ UNCHANGED <<result, guarded>>
           ELSE Gate(r, m)
  BY DEF Start
<1>2. mode' \in [Runs -> ModeSpace]
  BY <1>1, EnvironmentAssumption DEF TypeOK
<1>3. /\ pc' \in [Runs -> PCs]
      /\ guarded' \in [Runs -> BOOLEAN]
      /\ result' \in [Runs -> Results]
  <2>1. CASE Admitted(r, m)
    BY <1>1, <2>1 DEF Goto, TypeOK, PCs
  <2>2. CASE ~Admitted(r, m)
    BY <1>1, <2>2, GateType
  <2>3. QED
    BY <2>1, <2>2
<1>4. UNCHANGED <<gw, open, count, writes, wire, preview, attempt, tries, pinned, reply, events>>
  BY DEF Start, external, progress
<1>5. QED
  BY <1>2, <1>3, <1>4 DEF TypeOK

LEMMA ReadStepsType ==
    ASSUME TypeOK, NEW r \in Runs,
           \/ Authorize(r) \/ AuthorizeFailed(r) \/ ReadAgain(r) \/ ReadFailed(r)
           \/ LookupTarget(r) \/ LookupMissing(r) \/ ValidateCapability(r)
    PROVE  TypeOK'
<1>0. /\ \A c \in {"AUTHENTICATION_FAILED", "UNTRUSTED_DESTINATION", "TARGET_NOT_FOUND",
                   "CAPABILITY_MISSING", "MODEL_NOT_ALLOWED", "CONCURRENCY_CONFLICT", "none"} :
           c \in Codes
      /\ \A s \in {"none", "NOT_ATTEMPTED", "NOT_APPLIED"} : s \in WriteStates
      /\ \A l \in {"lookup", "capability", "post"} : l \in PCs
      /\ \A o \in {"READ_ONLY", "CONFLICT"} : o \in Outcomes
      /\ tries[r] \in 0..5
  BY AttemptsAssumption DEF Codes, WriteStates, PCs, Outcomes, TypeOK
<1>1. CASE Authorize(r)
  <2>1. Read(r, IF Enrich(r) THEN "lookup" ELSE "capability")
    BY <1>1 DEF Authorize
  <2>2. (IF Enrich(r) THEN "lookup" ELSE "capability") \in PCs
    BY <1>0
  <2>3. pc' \in [Runs -> PCs] /\ tries' \in [Runs -> 0..Attempts]
    BY <2>1, <2>2, ReadType
  <2>4. QED
    BY <1>1, <2>3 DEF Authorize, external, TypeOK
<1>2. CASE AuthorizeFailed(r)
  <2>1. PICK c \in {"AUTHENTICATION_FAILED", "UNTRUSTED_DESTINATION"} : Raise(r, c, "NOT_ATTEMPTED")
    BY <1>2 DEF AuthorizeFailed
  <2>2. /\ pc' \in [Runs -> PCs] /\ guarded' \in [Runs -> BOOLEAN] /\ result' \in [Runs -> Results]
    BY <1>0, <2>1, RaiseType
  <2>3. QED
    BY <1>2, <2>2 DEF AuthorizeFailed, external, progress, TypeOK
<1>3. CASE ReadAgain(r)
  BY <1>3, AttemptsAssumption DEF ReadAgain, external, TypeOK
<1>4. CASE ReadFailed(r)
  <2>1. PICK e \in ReadErrors : Raise(r, e.code, e.state)
    BY <1>4 DEF ReadFailed
  <2>2. e.code \in Codes /\ e.state \in WriteStates
    BY EnvironmentAssumption DEF ReadErrorSpace, Codes, WriteStates
  <2>3. /\ pc' \in [Runs -> PCs] /\ guarded' \in [Runs -> BOOLEAN] /\ result' \in [Runs -> Results]
    BY <2>1, <2>2, RaiseType
  <2>4. QED
    BY <1>4, <2>3 DEF ReadFailed, external, progress, TypeOK
<1>5. CASE LookupTarget(r)
  <2>1. pinned' \in [Runs -> Nat \cup {Unset}]
    BY <1>5 DEF LookupTarget, TypeOK
  <2>2. /\ pc' \in [Runs -> PCs] /\ guarded' \in [Runs -> BOOLEAN]
        /\ result' \in [Runs -> Results] /\ tries' \in [Runs -> 0..Attempts]
    <3>1. CASE Return(r, "READ_ONLY", TRUE, tries[r], "none", "none") /\ UNCHANGED tries
      BY <1>0, <3>1, ReturnVerifiedType DEF TypeOK
    <3>2. CASE /\ Return(r, "CONFLICT", FALSE, tries[r], "CONCURRENCY_CONFLICT", "NOT_APPLIED")
               /\ UNCHANGED tries
      BY <1>0, <3>2, ReturnType DEF TypeOK
    <3>3. CASE Read(r, "capability") /\ UNCHANGED <<result, guarded>>
      BY <1>0, <3>3, ReadType DEF TypeOK
    <3>4. QED
      BY <1>5, <3>1, <3>2, <3>3 DEF LookupTarget
  <2>3. QED
    BY <1>5, <2>1, <2>2 DEF LookupTarget, external, TypeOK
<1>6. CASE LookupMissing(r)
  <2>1. /\ pc' \in [Runs -> PCs] /\ guarded' \in [Runs -> BOOLEAN] /\ result' \in [Runs -> Results]
    BY <1>0, <1>6, RaiseType DEF LookupMissing
  <2>2. QED
    BY <1>6, <2>1 DEF LookupMissing, external, progress, TypeOK
<1>7. CASE ValidateCapability(r)
  <2>1. CASE Goto(r, "post") /\ UNCHANGED <<result, guarded>>
    BY <1>0, <1>7, <2>1 DEF ValidateCapability, Goto, external, progress, TypeOK
  <2>2. CASE \E c \in {"CAPABILITY_MISSING", "MODEL_NOT_ALLOWED"} : Raise(r, c, "NOT_ATTEMPTED")
    <3>1. /\ pc' \in [Runs -> PCs] /\ guarded' \in [Runs -> BOOLEAN] /\ result' \in [Runs -> Results]
      BY <1>0, <2>2, RaiseType
    <3>2. QED
      BY <1>7, <3>1 DEF ValidateCapability, external, progress, TypeOK
  <2>3. QED
    BY <1>7, <2>1, <2>2 DEF ValidateCapability
<1>8. QED
  BY <1>1, <1>2, <1>3, <1>4, <1>5, <1>6, <1>7

LEMMA SendPostType ==
    ASSUME TypeOK, Phased, NEW r \in Runs, SendPost(r) \/ PostUnresolved(r)
    PROVE  TypeOK'
<1>1. attempt[r] + 1 \in 1..Attempts
  BY AttemptsAssumption DEF TypeOK, Phased, SendPost, PostUnresolved
<1>2. attempt' = [attempt EXCEPT ![r] = attempt[r] + 1]
  BY DEF SendPost, PostUnresolved
<1>3. attempt' \in [Runs -> 0..Attempts]
  BY <1>1, <1>2, AttemptsAssumption DEF TypeOK
<1>4. CASE SendPost(r)
  <2>1. wire' \subseteq Posts
    BY <1>1, <1>4 DEF SendPost, TypeOK, Posts
  <2>2. reply' \in [Runs -> Replies] /\ pc' \in [Runs -> PCs]
    BY <1>4 DEF SendPost, Goto, TypeOK, Replies, PCs
  <2>3. QED
    BY <1>3, <1>4, <2>1, <2>2 DEF SendPost, external, TypeOK
<1>5. CASE PostUnresolved(r)
  <2>1. "UNTRUSTED_DESTINATION" \in Codes /\ "NOT_ATTEMPTED" \in WriteStates
    BY DEF Codes, WriteStates
  <2>2. pc' \in [Runs -> PCs] /\ guarded' \in [Runs -> BOOLEAN] /\ result' \in [Runs -> Results]
    BY <1>5, <2>1, RaiseType DEF PostUnresolved
  <2>3. QED
    BY <1>3, <1>5, <2>2 DEF PostUnresolved, external, TypeOK
<1>6. QED
  BY <1>4, <1>5

LEMMA PostStepsType ==
    ASSUME TypeOK, NEW r \in Runs,
           \/ RefuseBody(r) \/ Timeout(r) \/ TransportFailed(r)
           \/ Accepted(r) \/ RetryAfter(r) \/ Refused(r)
    PROVE  TypeOK'
<1>0. /\ \A c \in {"INVALID_MAPPING", "TIMEOUT", "RATE_LIMITED", "REDIRECT_REJECTED",
                   "CONCURRENCY_CONFLICT", "TARGET_NOT_FOUND", "MODEL_NOT_ALLOWED",
                   "RESPONSE_INVALID"} : c \in Codes
      /\ \A s \in {"NOT_ATTEMPTED", "NOT_APPLIED", "UNKNOWN"} : s \in WriteStates
      /\ \A l \in {"reconcile", "readback", "post"} : l \in PCs
      /\ \A o \in {"FAILED", "CONFLICT", "PARTIAL_FAILURE_UNKNOWN"} : o \in Outcomes
      /\ attempt[r] \in 0..5 /\ 0 \in 0..5
  BY AttemptsAssumption DEF Codes, WriteStates, PCs, Outcomes, TypeOK
<1>1. CASE RefuseBody(r)
  <2>1. pc' \in [Runs -> PCs] /\ guarded' \in [Runs -> BOOLEAN] /\ result' \in [Runs -> Results]
    BY <1>0, <1>1, ReturnType DEF RefuseBody
  <2>2. QED
    BY <1>1, <2>1 DEF RefuseBody, external, progress, TypeOK
<1>2. CASE Timeout(r)
  <2>1. pc' \in [Runs -> PCs] /\ tries' \in [Runs -> 0..Attempts]
    BY <1>0, <1>2, ReadType DEF Timeout
  <2>2. QED
    BY <1>2, <2>1 DEF Timeout, external, TypeOK
<1>3. CASE TransportFailed(r)
  <2>1. pc' \in [Runs -> PCs] /\ guarded' \in [Runs -> BOOLEAN] /\ result' \in [Runs -> Results]
    BY <1>0, <1>3, RaiseType DEF TransportFailed
  <2>2. QED
    BY <1>3, <2>1 DEF TransportFailed, external, progress, TypeOK
<1>4. CASE Accepted(r)
  <2>1. pc' \in [Runs -> PCs] /\ tries' \in [Runs -> 0..Attempts]
    BY <1>0, <1>4, ReadType DEF Accepted
  <2>2. QED
    BY <1>4, <2>1 DEF Accepted, external, TypeOK
<1>5. CASE RetryAfter(r)
  BY <1>0, <1>5 DEF RetryAfter, Goto, external, progress, TypeOK
<1>6. CASE Refused(r)
  <2>1. \/ Raise(r, "RESPONSE_INVALID", "NOT_ATTEMPTED")
        \/ \E o \in {"FAILED", "CONFLICT", "PARTIAL_FAILURE_UNKNOWN"},
              c \in {"RATE_LIMITED", "REDIRECT_REJECTED", "CONCURRENCY_CONFLICT",
                     "TARGET_NOT_FOUND", "MODEL_NOT_ALLOWED", "RESPONSE_INVALID"},
              s \in {"NOT_ATTEMPTED", "NOT_APPLIED", "UNKNOWN"} :
              Return(r, o, FALSE, attempt[r], c, s)
    BY <1>6 DEF Refused
  <2>2. pc' \in [Runs -> PCs] /\ guarded' \in [Runs -> BOOLEAN] /\ result' \in [Runs -> Results]
    <3>1. CASE Raise(r, "RESPONSE_INVALID", "NOT_ATTEMPTED")
      BY <1>0, <3>1, RaiseType
    <3>2. ASSUME NEW o \in {"FAILED", "CONFLICT", "PARTIAL_FAILURE_UNKNOWN"},
                 NEW c \in {"RATE_LIMITED", "REDIRECT_REJECTED", "CONCURRENCY_CONFLICT",
                            "TARGET_NOT_FOUND", "MODEL_NOT_ALLOWED", "RESPONSE_INVALID"},
                 NEW s \in {"NOT_ATTEMPTED", "NOT_APPLIED", "UNKNOWN"},
                 Return(r, o, FALSE, attempt[r], c, s)
          PROVE  pc' \in [Runs -> PCs] /\ guarded' \in [Runs -> BOOLEAN] /\ result' \in [Runs -> Results]
      <4>1. o \in Outcomes /\ c \in Codes /\ s \in WriteStates
        BY <1>0
      <4>2. QED
        BY <1>0, <3>2, <4>1, ReturnType
    <3>3. QED
      BY <2>1, <3>1, <3>2
  <2>3. QED
    BY <1>6, <2>2 DEF Refused, external, progress, TypeOK
<1>7. QED
  BY <1>1, <1>2, <1>3, <1>4, <1>5, <1>6

LEMMA EndStepsType ==
    ASSUME TypeOK, NEW r \in Runs,
           \/ ReconcileFound(r) \/ ReconcileAbsent(r) \/ ReconcileUnproven(r)
           \/ Finish(r) \/ SinkRaises(r) \/ Crash(r)
    PROVE  TypeOK'
<1>0. /\ \A l \in {"post", "done", "raised", "crashed"} : l \in PCs
      /\ attempt[r] \in 0..5
      /\ "PARTIAL_FAILURE_UNKNOWN" \in Codes /\ "UNKNOWN" \in WriteStates
  BY AttemptsAssumption DEF PCs, TypeOK, Codes, WriteStates
<1>1. CASE ReconcileFound(r)
  <2>1. PICK o \in RemoteOutcomes(r) : Return(r, o, TRUE, attempt[r], "none", "none")
    BY <1>1 DEF ReconcileFound
  <2>2. o \in Outcomes
    BY DEF RemoteOutcomes, Outcomes, Verified
  <2>3. pc' \in [Runs -> PCs] /\ guarded' \in [Runs -> BOOLEAN] /\ result' \in [Runs -> Results]
    BY <1>0, <2>1, <2>2, ReturnVerifiedType
  <2>4. QED
    BY <1>1, <2>3 DEF ReconcileFound, external, progress, TypeOK
<1>2. CASE ReconcileAbsent(r)
  BY <1>0, <1>2 DEF ReconcileAbsent, Goto, external, progress, TypeOK
<1>3. CASE ReconcileUnproven(r)
  <2>1. pc' \in [Runs -> PCs] /\ guarded' \in [Runs -> BOOLEAN] /\ result' \in [Runs -> Results]
    BY <1>3, UnknownType DEF ReconcileUnproven
  <2>2. QED
    BY <1>3, <2>1 DEF ReconcileUnproven, external, progress, TypeOK
<1>4. /\ result[r].outcome \in Outcomes
      /\ Append(events[r], result[r].outcome) \in Seq(Outcomes)
  BY DEF TypeOK, Results
<1>5. CASE Finish(r)
  BY <1>0, <1>4, <1>5 DEF Finish, Goto, external, progress, TypeOK
<1>6. CASE SinkRaises(r)
  <2>1. events' \in [Runs -> Seq(Outcomes)]
    BY <1>4, <1>6 DEF SinkRaises, TypeOK
  <2>2. pc' \in [Runs -> PCs] /\ guarded' \in [Runs -> BOOLEAN] /\ result' \in [Runs -> Results]
    <3>1. CASE Raise(r, "PARTIAL_FAILURE_UNKNOWN", "UNKNOWN")
      BY <1>0, <3>1, RaiseType
    <3>2. CASE /\ Goto(r, "raised")
               /\ result' = [result EXCEPT ![r] = NoResult]
               /\ UNCHANGED guarded
      BY <1>0, <3>2, NoResultType DEF Goto, TypeOK
    <3>3. QED
      BY <1>6, <3>1, <3>2 DEF SinkRaises
  <2>3. QED
    BY <1>6, <2>1, <2>2 DEF SinkRaises, external, progress, TypeOK
<1>7. CASE Crash(r)
  BY <1>0, <1>7, NoResultType DEF Crash, Goto, external, progress, TypeOK
<1>8. QED
  BY <1>1, <1>2, <1>3, <1>5, <1>6, <1>7

LEMMA NetworkType ==
    ASSUME TypeOK, NEW m \in wire, Network(m)
    PROVE  TypeOK'
<1>0. /\ Acknowledgements \subseteq Replies
      /\ Refusals \subseteq Replies
      /\ {"withdrawn", "conflict", "ok", "429", "redirect", "503", "error"} \subseteq Replies
      /\ m.run \in Runs /\ m.attempt \in 1..Attempts
  BY DEF Acknowledgements, Refusals, Replies, TypeOK, Posts
<1>1. CASE GatewayReplay(m)
  <2>1. reply' \in [Runs -> Replies]
    BY <1>0, <1>1, AnswerType DEF GatewayReplay
  <2>2. QED
    BY <1>1, <2>1 DEF GatewayReplay, external, progress, TypeOK
<1>2. CASE GatewayReject(m)
  <2>1. reply' \in [Runs -> Replies]
    BY <1>0, <1>2, AnswerType DEF GatewayReject
  <2>2. QED
    BY <1>2, <2>1 DEF GatewayReject, external, progress, TypeOK
<1>3. CASE GatewayWrite(m)
  <2>1. reply' \in [Runs -> Replies]
    BY <1>0, <1>3, AnswerType DEF GatewayWrite
  <2>2. writes' \subseteq [run : Runs, attempt : 1..Attempts, base : Nat] /\ count' \in Nat
    BY <1>0, <1>3 DEF GatewayWrite, TypeOK
  <2>3. QED
    BY <1>3, <2>1, <2>2 DEF GatewayWrite, progress, TypeOK
<1>4. CASE ProxyAnswer(m)
  <2>1. PICK s \in Replies : Answer(m, s)
    BY <1>0, <1>4 DEF ProxyAnswer
  <2>2. reply' \in [Runs -> Replies]
    BY <2>1, AnswerType
  <2>3. wire' \subseteq wire
    BY <1>4 DEF ProxyAnswer
  <2>4. QED
    BY <1>4, <2>2, <2>3 DEF ProxyAnswer, external, progress, TypeOK
<1>5. CASE LosePost(m)
  BY <1>5 DEF LosePost, external, progress, TypeOK
<1>6. QED
  BY <1>1, <1>2, <1>3, <1>4, <1>5 DEF Network

LEMMA OtherStepsType ==
    ASSUME TypeOK,
           \/ \E p \in Plans : BuildPlan(p)
           \/ OtherEdit \/ Withdraw \/ UNCHANGED vars
    PROVE  TypeOK'
<1>1. CASE \E p \in Plans : BuildPlan(p)
  BY <1>1 DEF BuildPlan, external, progress, TypeOK
<1>2. CASE OtherEdit
  BY <1>2 DEF OtherEdit, progress, TypeOK
<1>3. CASE Withdraw
  BY <1>3 DEF Withdraw, progress, TypeOK
<1>4. CASE UNCHANGED vars
  BY <1>4 DEF vars, TypeOK
<1>5. QED
  BY <1>1, <1>2, <1>3, <1>4

LEMMA StepType ==
    ASSUME TypeOK, Phased, [Next]_vars
    PROVE  TypeOK'
<1>1. CASE \E r \in Runs : Start(r)
  BY <1>1, StartType
<1>2. ASSUME NEW r \in Runs, RunStep(r)
      PROVE  TypeOK'
  BY <1>2, ReadStepsType, SendPostType, PostStepsType, EndStepsType DEF RunStep
<1>3. CASE \E r \in Runs : Crash(r)
  BY <1>3, EndStepsType
<1>4. CASE \E m \in wire : Network(m)
  BY <1>4, NetworkType
<1>5. QED
  BY <1>1, <1>2, <1>3, <1>4, OtherStepsType DEF Next

-----------------------------------------------------------------------------
(* What the steps of a run leave alone *)

\* A step of r reads the gateway's state and changes only its own.
Private(r) ==
    /\ UNCHANGED <<gw, open, count, writes, preview>>
    /\ \A q \in Runs \ {r} :
         /\ pc'[q] = pc[q] /\ attempt'[q] = attempt[q] /\ reply'[q] = reply[q]
         /\ result'[q] = result[q] /\ events'[q] = events[q]

\* A result is only replaced at the end, it never becomes verified without a
\* delivery, and a conflict needs a refusal or a run that has not posted.
Honest(r) ==
    /\ attempt'[r] >= attempt[r]
    /\ wire' # wire => wire' = wire \cup {[run |-> r, attempt |-> attempt'[r]]}
                       /\ pc'[r] = "waiting" /\ reply'[r] = "none" /\ pc[r] = "post"
    /\ result'[r].outcome \in Verified =>
         result[r].outcome \in Verified \/ Delivered(Key(r))
    /\ Rejected(r)' => Rejected(r) \/ (attempt'[r] = 0 /\ wire' = wire)
    /\ events'[r] = events[r] \/ events'[r] = Append(events[r], result[r].outcome)

\* The conjuncts of Phased, for one run after the step.
PhasedNext(r) ==
    /\ pc'[r] \in {"idle", "authorize", "lookup", "capability"} => attempt'[r] = 0
    /\ pc'[r] = "post" => attempt'[r] < Attempts
    /\ pc'[r] \in {"post", "waiting", "reconcile", "readback"} \/ attempt'[r] > 0 => Attested
    /\ result'[r].outcome # "none" => pc'[r] \in {"finish", "done"}

LEMMA StartFrame ==
    ASSUME TypeOK, Phased, NEW r \in Runs, Start(r)
    PROVE  Private(r) /\ Honest(r) /\ PhasedNext(r)
<1>1. PICK m \in Modes :
        /\ mode' = [mode EXCEPT ![r] = m]
        /\ IF Admitted(r, m)
           THEN Goto(r, "authorize") /\ UNCHANGED <<result, guarded>>
           ELSE Gate(r, m)
  BY DEF Start
<1>2. /\ UNCHANGED <<gw, open, count, writes, wire, preview, attempt, tries, pinned, reply, events>>
      /\ pc[r] = "idle" /\ attempt[r] = 0 /\ result[r].outcome = "none"
  BY DEF Start, external, progress, Phased
<1>3. CASE Admitted(r, m)
  BY <1>1, <1>2, <1>3 DEF Goto, TypeOK, Private, Honest, PhasedNext, Rejected, Verified, Phased
<1>4. CASE ~Admitted(r, m)
  <2>1. Gate(r, m)
    BY <1>1, <1>4
  <2>2. /\ pc' = [pc EXCEPT ![r] = "finish"]
        /\ \E o \in {"DRY_RUN", "READ_ONLY", "FAILED", "CONFLICT", "PARTIAL_FAILURE_UNKNOWN"} :
           \E c, s : result' = [result EXCEPT ![r] =
                        [outcome |-> o, verified |-> FALSE, attempts |-> 0,
                         code |-> c, state |-> s]]
    BY <2>1 DEF Gate, Return, Raise, Goto, CaughtOutcome
  <2>3. QED
    BY <1>2, <2>2 DEF TypeOK, Private, Honest, PhasedNext, Rejected, Verified, Phased
<1>5. QED
  BY <1>3, <1>4

\* What Return and Raise do to the run and to the others.
LEMMA ReturnFrame ==
    ASSUME TypeOK, NEW r \in Runs, NEW o, NEW v, NEW n, NEW c, NEW s, Return(r, o, v, n, c, s)
    PROVE  /\ pc'[r] = "finish" /\ result'[r].outcome = o
           /\ \A q \in Runs \ {r} : pc'[q] = pc[q] /\ result'[q] = result[q]
BY DEF Return, Goto, TypeOK

LEMMA RaiseFrame ==
    ASSUME TypeOK, NEW r \in Runs, NEW c, NEW s, Raise(r, c, s)
    PROVE  /\ pc'[r] = "finish" /\ result'[r].outcome = CaughtOutcome(c, s)
           /\ \A q \in Runs \ {r} : pc'[q] = pc[q] /\ result'[q] = result[q]
BY DEF Raise, Goto, TypeOK

LEMMA CaughtIsUnverified ==
    ASSUME NEW c, NEW s
    PROVE  /\ CaughtOutcome(c, s) \notin Verified
           /\ c \notin {"CONCURRENCY_CONFLICT", "REPLAY_MISMATCH"} => CaughtOutcome(c, s) # "CONFLICT"
BY DEF CaughtOutcome, Verified

LEMMA MoveFrame ==
    ASSUME TypeOK, Phased, NEW r \in Runs, NEW l, Goto(r, l),
           UNCHANGED <<gw, open, count, writes, wire, preview, attempt, reply, result, events>>,
           pc[r] \notin {"finish", "done"}, l # "waiting",
           l \in {"idle", "authorize", "lookup", "capability"} => attempt[r] = 0,
           l = "post" => attempt[r] < Attempts,
           l \in {"post", "reconcile", "readback"} => Attested
    PROVE  Private(r) /\ Honest(r) /\ PhasedNext(r)
<1>1. pc'[r] = l /\ \A q \in Runs \ {r} : pc'[q] = pc[q]
  BY DEF Goto, TypeOK
<1>2. result[r].outcome = "none"
  BY DEF Phased
<1>3. Private(r)
  BY <1>1 DEF Private
<1>4. Honest(r)
  BY <1>1, <1>2 DEF Honest, Rejected, Verified, TypeOK
<1>5. PhasedNext(r)
  BY <1>1, <1>2 DEF PhasedNext, Phased
<1>6. QED
  BY <1>3, <1>4, <1>5

LEMMA ReadFrame ==
    ASSUME TypeOK, Phased, NEW r \in Runs,
           \/ Authorize(r) \/ AuthorizeFailed(r) \/ ReadAgain(r) \/ ReadFailed(r)
           \/ LookupTarget(r) \/ LookupMissing(r) \/ ValidateCapability(r)
    PROVE  Private(r) /\ Honest(r) /\ PhasedNext(r)
<1>0. UNCHANGED <<gw, open, count, writes, wire, preview, attempt, reply, events>>
  BY DEF Authorize, AuthorizeFailed, ReadAgain, ReadFailed, LookupTarget, LookupMissing,
         ValidateCapability, external, progress
<1>1. CASE Authorize(r)
  <2>1. /\ Goto(r, IF Enrich(r) THEN "lookup" ELSE "capability")
        /\ UNCHANGED result
        /\ pc[r] = "authorize" /\ attempt[r] = 0
    BY <1>1 DEF Authorize, Read, Phased
  <2>2. QED
    BY <1>0, <2>1, MoveFrame
<1>2. CASE ReadAgain(r)
  BY <1>0, <1>2 DEF ReadAgain, TypeOK, Private, Honest, PhasedNext, Rejected, Phased
<1>3. CASE \E c \in Codes, s \in WriteStates :
              Raise(r, c, s) /\ c \notin {"CONCURRENCY_CONFLICT", "REPLAY_MISMATCH"}
  <2>1. /\ pc'[r] = "finish" /\ result'[r].outcome \notin Verified \cup {"CONFLICT"}
        /\ \A q \in Runs \ {r} : pc'[q] = pc[q] /\ result'[q] = result[q]
    BY <1>3, RaiseFrame, CaughtIsUnverified
  <2>2. pc[r] \in {"authorize", "lookup", "capability"}
    BY <1>3 DEF Authorize, AuthorizeFailed, ReadAgain, ReadFailed, LookupTarget, LookupMissing,
         ValidateCapability, Raise, Goto, TypeOK, Reading
  <2>3. QED
    BY <1>0, <2>1, <2>2 DEF Private, Honest, PhasedNext, Rejected, Phased, TypeOK
<1>4. CASE AuthorizeFailed(r) \/ ReadFailed(r) \/ LookupMissing(r)
  <2>1. \E c \in Codes, s \in WriteStates :
              Raise(r, c, s) /\ c \notin {"CONCURRENCY_CONFLICT", "REPLAY_MISMATCH"}
    BY <1>4, EnvironmentAssumption DEF AuthorizeFailed, ReadFailed, LookupMissing, ReadErrorSpace,
       Codes, WriteStates
  <2>2. QED
    BY <1>3, <2>1
<1>5. CASE LookupTarget(r)
  <2>0. pc[r] = "lookup" /\ attempt[r] = 0
    BY <1>5 DEF LookupTarget, Phased
  <2>1. CASE \E o \in {"READ_ONLY", "CONFLICT"} : \E v, n, c, s : Return(r, o, v, n, c, s)
    <3>1. /\ pc'[r] = "finish" /\ result'[r].outcome \notin Verified
          /\ \A q \in Runs \ {r} : pc'[q] = pc[q] /\ result'[q] = result[q]
      BY <2>1, ReturnFrame DEF Verified
    <3>2. QED
      BY <1>0, <2>0, <3>1 DEF Private, Honest, PhasedNext, Rejected, Phased, TypeOK
  <2>2. CASE Read(r, "capability") /\ UNCHANGED <<result, guarded>>
    BY <1>0, <2>0, <2>2, MoveFrame DEF Read
  <2>3. QED
    BY <1>5, <2>1, <2>2 DEF LookupTarget
<1>6. CASE ValidateCapability(r)
  <2>0. pc[r] = "capability" /\ attempt[r] = 0
    BY <1>6 DEF ValidateCapability, Phased
  <2>1. CASE Attested /\ Goto(r, "post") /\ UNCHANGED <<result, guarded>>
    BY <1>0, <2>0, <2>1, AttemptsAssumption, MoveFrame
  <2>2. CASE \E c \in {"CAPABILITY_MISSING", "MODEL_NOT_ALLOWED"} : Raise(r, c, "NOT_ATTEMPTED")
    BY <1>3, <2>2 DEF Codes, WriteStates
  <2>3. QED
    BY <1>6, <2>1, <2>2 DEF ValidateCapability
<1>7. QED
  BY <1>1, <1>2, <1>4, <1>5, <1>6

LEMMA PostFrame ==
    ASSUME TypeOK, Phased, NEW r \in Runs,
           \/ RefuseBody(r) \/ SendPost(r) \/ PostUnresolved(r) \/ Timeout(r)
           \/ TransportFailed(r) \/ Accepted(r) \/ RetryAfter(r) \/ Refused(r)
    PROVE  Private(r) /\ Honest(r) /\ PhasedNext(r)
<1>1. CASE SendPost(r)
  <2>1. /\ UNCHANGED <<gw, open, count, writes, preview, result, events>>
        /\ pc[r] = "post" /\ Attested /\ result[r].outcome = "none"
    BY <1>1 DEF SendPost, external, Phased
  <2>2. /\ pc'[r] = "waiting" /\ attempt'[r] = attempt[r] + 1 /\ reply'[r] = "none"
        /\ wire' = wire \cup {[run |-> r, attempt |-> attempt'[r]]}
        /\ \A q \in Runs \ {r} : pc'[q] = pc[q] /\ attempt'[q] = attempt[q] /\ reply'[q] = reply[q]
    BY <1>1 DEF SendPost, Goto, TypeOK
  <2>3. Private(r)
    BY <2>1, <2>2 DEF Private
  <2>4. Honest(r)
    BY <2>1, <2>2 DEF Honest, Rejected, Verified, TypeOK
  <2>5. PhasedNext(r)
    BY <2>1, <2>2 DEF PhasedNext, Attested
  <2>6. QED
    BY <2>3, <2>4, <2>5
<1>2. CASE PostUnresolved(r)
  <2>1. /\ UNCHANGED <<gw, open, count, writes, wire, preview, reply, events>>
        /\ pc[r] = "post" /\ Attested /\ attempt'[r] = attempt[r] + 1
        /\ \A q \in Runs \ {r} : attempt'[q] = attempt[q]
    BY <1>2 DEF PostUnresolved, external, Phased, TypeOK
  <2>2. /\ pc'[r] = "finish" /\ result'[r].outcome \notin Verified \cup {"CONFLICT"}
        /\ \A q \in Runs \ {r} : pc'[q] = pc[q] /\ result'[q] = result[q]
    BY <1>2, RaiseFrame, CaughtIsUnverified DEF PostUnresolved
  <2>3. QED
    BY <2>1, <2>2 DEF Private, Honest, PhasedNext, Rejected, TypeOK, Attested
<1>3. CASE Timeout(r) \/ Accepted(r) \/ RetryAfter(r)
  <2>1. /\ UNCHANGED <<gw, open, count, writes, wire, preview, attempt, reply, result, events>>
        /\ pc[r] = "waiting" /\ Attested
    BY <1>3 DEF Timeout, Accepted, RetryAfter, Receive, external, progress, Phased
  <2>2. \E l \in {"reconcile", "readback", "post"} :
          Goto(r, l) /\ (l = "post" => attempt[r] < Attempts)
    BY <1>3 DEF Timeout, Accepted, RetryAfter, Read
  <2>3. QED
    BY <2>1, <2>2, MoveFrame
<1>4. CASE RefuseBody(r) \/ TransportFailed(r) \/ Refused(r)
  <2>1. /\ UNCHANGED <<gw, open, count, writes, wire, preview, attempt, reply, events>>
        /\ pc[r] \in {"post", "waiting"} /\ Attested
    BY <1>4 DEF RefuseBody, TransportFailed, Refused, Receive, external, progress, Phased
  <2>2. /\ pc'[r] = "finish" /\ result'[r].outcome \notin Verified
        /\ result'[r].outcome = "CONFLICT" => Rejected(r)
        /\ \A q \in Runs \ {r} : pc'[q] = pc[q] /\ result'[q] = result[q]
    <3>1. CASE RefuseBody(r)
      BY <3>1 DEF RefuseBody, Return, Goto, TypeOK, Verified
    <3>2. CASE TransportFailed(r)
      BY <3>2, RaiseFrame, CaughtIsUnverified DEF TransportFailed
    <3>3. CASE Refused(r) /\ Raise(r, "RESPONSE_INVALID", "NOT_ATTEMPTED")
      BY <3>3, RaiseFrame, CaughtIsUnverified
    <3>4. CASE Refused(r) /\ ~Raise(r, "RESPONSE_INVALID", "NOT_ATTEMPTED")
      <4>1. \E o \in {"FAILED", "CONFLICT", "PARTIAL_FAILURE_UNKNOWN"} : \E n, c, s :
              Return(r, o, FALSE, n, c, s) /\ (o = "CONFLICT" => Rejected(r))
        BY <3>4 DEF Refused, Receive, Rejected
      <4>2. QED
        BY <4>1, ReturnFrame DEF Verified
    <3>5. QED
      BY <1>4, <3>1, <3>2, <3>3, <3>4
  <2>3. QED
    BY <2>1, <2>2 DEF Private, Honest, PhasedNext, Rejected, TypeOK, Attested
<1>5. QED
  BY <1>1, <1>2, <1>3, <1>4

LEMMA EndFrame ==
    ASSUME TypeOK, Phased, NEW r \in Runs,
           \/ ReconcileFound(r) \/ ReconcileAbsent(r) \/ ReconcileUnproven(r)
           \/ Finish(r) \/ SinkRaises(r) \/ Crash(r)
    PROVE  Private(r) /\ Honest(r) /\ PhasedNext(r)
<1>0. UNCHANGED <<gw, open, count, writes, wire, preview, attempt, reply>>
  BY DEF ReconcileFound, ReconcileAbsent, ReconcileUnproven, Finish, SinkRaises, Crash,
         external, progress
<1>1. CASE ReconcileFound(r)
  <2>1. UNCHANGED events /\ pc[r] \in {"reconcile", "readback"} /\ Delivered(Key(r))
    BY <1>1 DEF ReconcileFound
  <2>2. /\ pc'[r] = "finish" /\ result'[r].outcome # "CONFLICT"
        /\ \A q \in Runs \ {r} : pc'[q] = pc[q] /\ result'[q] = result[q]
    BY <1>1, ReturnFrame DEF ReconcileFound, RemoteOutcomes
  <2>3. QED
    BY <1>0, <2>1, <2>2 DEF Private, Honest, PhasedNext, Rejected, TypeOK, Attested, Phased
<1>2. CASE ReconcileAbsent(r)
  <2>1. /\ UNCHANGED <<result, events>> /\ Goto(r, "post")
        /\ pc[r] = "reconcile" /\ Attested /\ attempt[r] < Attempts
    BY <1>2 DEF ReconcileAbsent, Phased
  <2>2. QED
    BY <1>0, <2>1, MoveFrame
<1>3. CASE ReconcileUnproven(r)
  <2>1. UNCHANGED events /\ pc[r] \in {"reconcile", "readback"}
    BY <1>3 DEF ReconcileUnproven
  <2>2. /\ pc'[r] = "finish" /\ result'[r].outcome \notin Verified \cup {"CONFLICT"}
        /\ \A q \in Runs \ {r} : pc'[q] = pc[q] /\ result'[q] = result[q]
    BY <1>3 DEF ReconcileUnproven, Unknown, Return, Goto, TypeOK, Verified
  <2>3. QED
    BY <1>0, <2>1, <2>2 DEF Private, Honest, PhasedNext, Rejected, TypeOK, Attested, Phased
<1>4. CASE Finish(r)
  <2>1. /\ pc'[r] = "done" /\ UNCHANGED result
        /\ \A q \in Runs \ {r} : pc'[q] = pc[q] /\ events'[q] = events[q]
        /\ events'[r] = Append(events[r], result[r].outcome)
    BY <1>4 DEF Finish, Goto, TypeOK
  <2>2. QED
    BY <1>0, <2>1 DEF Private, Honest, PhasedNext, Rejected, TypeOK, Attested, Phased
<1>5. CASE SinkRaises(r)
  <2>1. /\ \A q \in Runs \ {r} : events'[q] = events[q]
        /\ events'[r] = Append(events[r], result[r].outcome)
    BY <1>5 DEF SinkRaises, TypeOK
  <2>2. /\ \/ pc'[r] = "finish" /\ result'[r].outcome \notin Verified \cup {"CONFLICT"}
           \/ pc'[r] = "raised" /\ result'[r] = NoResult
        /\ \A q \in Runs \ {r} : pc'[q] = pc[q] /\ result'[q] = result[q]
    <3>1. CASE Raise(r, "PARTIAL_FAILURE_UNKNOWN", "UNKNOWN")
      BY <3>1, RaiseFrame, CaughtIsUnverified
    <3>2. CASE Goto(r, "raised") /\ result' = [result EXCEPT ![r] = NoResult]
      BY <3>2 DEF Goto, TypeOK
    <3>3. QED
      BY <1>5, <3>1, <3>2 DEF SinkRaises
  <2>3. QED
    BY <1>0, <2>1, <2>2
       DEF Private, Honest, PhasedNext, Rejected, TypeOK, Attested, Phased, NoResult, Verified
<1>6. CASE Crash(r)
  <2>1. /\ pc'[r] = "crashed" /\ result'[r] = NoResult /\ UNCHANGED events
        /\ \A q \in Runs \ {r} : pc'[q] = pc[q] /\ result'[q] = result[q]
    BY <1>6 DEF Crash, Goto, TypeOK
  <2>2. QED
    BY <1>0, <2>1
       DEF Private, Honest, PhasedNext, Rejected, TypeOK, Attested, Phased, NoResult, Verified
<1>7. QED
  BY <1>1, <1>2, <1>3, <1>4, <1>5, <1>6

LEMMA RunFrame ==
    ASSUME TypeOK, Phased, NEW r \in Runs, Start(r) \/ RunStep(r) \/ Crash(r)
    PROVE  Private(r) /\ Honest(r) /\ PhasedNext(r)
BY StartFrame, ReadFrame, PostFrame, EndFrame DEF RunStep

-----------------------------------------------------------------------------
(* What the network and the gateway leave alone *)

\* The gateway and the network touch messages, writes and replies only.
Remote ==
    /\ UNCHANGED <<gw, open, preview, pc, attempt, result, events>>
    /\ wire' \subseteq wire

\* A reply that refuses comes from a POST that was refused, and reaches a run
\* that is still waiting for it.
LEMMA AnswerFrame ==
    ASSUME TypeOK, NEW m \in wire, NEW s, Answer(m, s)
    PROVE  \A q \in Runs :
             \/ reply'[q] = reply[q]
             \/ q = m.run /\ pc[q] = "waiting" /\ attempt[q] = m.attempt /\ reply'[q] = s
BY DEF Answer, TypeOK

LEMMA NetworkFrame ==
    ASSUME TypeOK, NEW m \in wire, Network(m)
    PROVE  /\ Remote
           /\ \/ writes' = writes /\ count' = count
              \/ GatewayWrite(m)
           /\ \A q \in Runs : reply'[q] \in {"conflict", "withdrawn"} =>
                \/ reply[q] \in {"conflict", "withdrawn"}
                \/ q = m.run /\ GatewayReject(m)
<1>1. Remote
  BY DEF Network, GatewayReplay, GatewayReject, GatewayWrite, ProxyAnswer, LosePost,
         external, progress, Remote
<1>2. (writes' = writes /\ count' = count) \/ GatewayWrite(m)
  BY DEF Network, GatewayReplay, GatewayReject, ProxyAnswer, LosePost, external
<1>3. ASSUME NEW q \in Runs, reply'[q] \in {"conflict", "withdrawn"}
      PROVE  reply[q] \in {"conflict", "withdrawn"} \/ (q = m.run /\ GatewayReject(m))
  <2>1. CASE GatewayReject(m)
    BY <1>3, <2>1, AnswerFrame DEF GatewayReject, Refusals
  <2>2. CASE \E s \in {"ok", "garbled", "oversize", "503", "error", "none", "429", "redirect"} :
               Answer(m, s)
    BY <1>3, <2>2, AnswerFrame
  <2>3. CASE reply' = reply
    BY <1>3, <2>3
  <2>4. QED
    BY <2>1, <2>2, <2>3
       DEF Network, GatewayReplay, GatewayWrite, ProxyAnswer, LosePost, Acknowledgements
<1>4. QED
  BY <1>1, <1>2, <1>3

-----------------------------------------------------------------------------
(* The invariant is inductive *)

LEMMA InitIInv == Init => IInv
<1> SUFFICES ASSUME Init PROVE IInv
  OBVIOUS
<1>1. TypeOK
  BY InitType
<1>2. Phased
  BY AttemptsAssumption DEF Init, Phased, NoResult
<1>3. Accounted /\ OneWritePerKey /\ NoStaleOverwrite
  BY DEF Init, Accounted, OneWritePerKey, NoStaleOverwrite
<1>4. PreviewedBefore /\ PlannedFirst
  BY DEF Init, PreviewedBefore, PlannedFirst, Unset
<1>5. VerifiedIsDelivered
  BY DEF Init, VerifiedIsDelivered, NoResult, Verified
<1>6. RejectionsFinal
  BY DEF Init, RejectionsFinal, Rejected, NoResult
<1>7. QED
  BY <1>1, <1>2, <1>3, <1>4, <1>5, <1>6 DEF IInv

\* A step of one run.
LEMMA RunPreserves ==
    ASSUME IInv, NEW r \in Runs, Private(r), Honest(r), PhasedNext(r), TypeOK',
           pc[r] # "idle" \/ Expected(r) # Unset
    PROVE  IInv'
<1>1. /\ TypeOK /\ Phased /\ Accounted /\ PreviewedBefore /\ PlannedFirst
      /\ OneWritePerKey /\ NoStaleOverwrite /\ VerifiedIsDelivered /\ RejectionsFinal
  BY DEF IInv
<1>2. /\ UNCHANGED <<gw, open, count, writes, preview>>
      /\ \A q \in Runs \ {r} :
           /\ pc'[q] = pc[q] /\ attempt'[q] = attempt[q] /\ reply'[q] = reply[q]
           /\ result'[q] = result[q] /\ events'[q] = events[q]
  BY DEF Private
<1>3. Phased'
  BY <1>1, <1>2 DEF Phased, PhasedNext, Attested
<1>4. Accounted'
  <2>1. \A q \in Runs : attempt[q] \in Nat /\ attempt'[q] \in Nat /\ attempt[q] <= attempt'[q]
    <3>1. \A q \in Runs : attempt[q] \in Nat /\ attempt'[q] \in Nat
      BY <1>1, AttemptsAssumption DEF TypeOK
    <3>2. QED
      BY <1>2, <3>1 DEF Honest
  <2>2. \A w \in writes : w.run \in Runs /\ w.attempt \in Nat /\ w.attempt <= attempt[w.run]
    BY <1>1 DEF TypeOK, Accounted
  <2>3. \A m \in wire : m.run \in Runs /\ m.attempt \in Nat /\ m.attempt <= attempt[m.run]
    BY <1>1 DEF TypeOK, Posts, Accounted
  <2>4. \A w \in writes' : w.attempt <= attempt'[w.run]
    BY <1>2, <2>1, <2>2
  <2>5. \A m \in wire' : m.attempt <= attempt'[m.run]
    BY <2>1, <2>3 DEF Honest
  <2>6. QED
    BY <2>4, <2>5 DEF Accounted
<1>5. PreviewedBefore' /\ PlannedFirst' /\ OneWritePerKey' /\ NoStaleOverwrite'
  BY <1>1, <1>2 DEF PreviewedBefore, PlannedFirst, OneWritePerKey, NoStaleOverwrite, Key, Enrich, Expected
<1>6. \A k : Delivered(k)' <=> Delivered(k)
  BY <1>2 DEF Delivered, Key
<1>7. VerifiedIsDelivered'
  <2> SUFFICES ASSUME NEW q \in Runs,
                      \/ result'[q].outcome \in Verified
                      \/ \E i \in DOMAIN events'[q] : events'[q][i] \in Verified
               PROVE  Delivered(Key(q))
    BY <1>6 DEF VerifiedIsDelivered, Key
  <2>1. CASE q # r
    BY <1>1, <1>2, <2>1 DEF VerifiedIsDelivered
  <2>2. CASE q = r /\ result'[q].outcome \in Verified
    BY <1>1, <2>2 DEF VerifiedIsDelivered, Honest
  <2>3. CASE q = r /\ \E i \in DOMAIN events'[q] : events'[q][i] \in Verified
    <3>1. PICK i \in DOMAIN events'[q] : events'[q][i] \in Verified
      BY <2>3
    <3>2. events[q] \in Seq(Outcomes) /\ result[q].outcome \in Outcomes
      BY <1>1 DEF TypeOK, Results
    <3>3. CASE events'[q] = events[q]
      BY <1>1, <3>1, <3>3 DEF VerifiedIsDelivered
    <3>4. CASE events'[q] = Append(events[q], result[q].outcome)
      <4>1. CASE i \in DOMAIN events[q]
        BY <1>1, <3>1, <3>2, <3>4, <4>1 DEF VerifiedIsDelivered
      <4>2. CASE i = Len(events[q]) + 1
        BY <1>1, <3>1, <3>2, <3>4, <4>2 DEF VerifiedIsDelivered
      <4>3. QED
        BY <3>1, <3>2, <3>4, <4>1, <4>2
    <3>5. QED
      BY <2>3, <3>3, <3>4 DEF Honest
  <2>4. QED
    BY <2>1, <2>2, <2>3
<1>8. RejectionsFinal'
  <2> SUFFICES ASSUME NEW q \in Runs, Rejected(q)'
               PROVE  ~WroteBy(q)' /\ NothingPending(q)'
    BY DEF RejectionsFinal
  <2>1. WroteBy(q)' <=> WroteBy(q)
    BY <1>2 DEF WroteBy
  <2>2. CASE q # r
    <3>1. Rejected(q)
      BY <1>2, <2>2 DEF Rejected
    <3>2. \A m \in wire' : m.run = q => m \in wire
      BY <2>2 DEF Honest
    <3>3. QED
      BY <1>1, <1>2, <2>1, <3>1, <3>2 DEF RejectionsFinal, NothingPending, Enrich, Expected
  <2>3. CASE q = r /\ Rejected(r)
    <3>1. wire' = wire
      BY <1>1, <2>3 DEF Honest, Rejected, Phased, PhasedNext
    <3>2. QED
      BY <1>1, <1>2, <2>1, <2>3, <3>1 DEF RejectionsFinal, NothingPending, Enrich, Expected
  <2>4. CASE q = r /\ attempt'[r] = 0 /\ wire' = wire
    <3>1. attempt[r] = 0
      BY <1>1, <2>4, AttemptsAssumption DEF Honest, TypeOK
    <3>2. ~WroteBy(r)
      BY <1>1, <3>1 DEF WroteBy, Accounted, TypeOK
    <3>3. \A m \in wire : m.run # r
      BY <1>1, <3>1 DEF Accounted, TypeOK, Posts
    <3>4. QED
      BY <2>1, <2>4, <3>2, <3>3 DEF NothingPending
  <2>5. QED
    BY <2>2, <2>3, <2>4 DEF Honest
<1>9. QED
  BY <1>3, <1>4, <1>5, <1>7, <1>8 DEF IInv

\* A step of the gateway or the network.  execute only posts to a gateway that
\* attests both guarantees, so a processed POST is compared and its key is new.
LEMMA NetworkPreserves ==
    ASSUME IInv, NEW m \in wire, Network(m), TypeOK'
    PROVE  IInv'
<1>1. /\ TypeOK /\ Phased /\ Accounted /\ PreviewedBefore /\ PlannedFirst
      /\ OneWritePerKey /\ NoStaleOverwrite /\ VerifiedIsDelivered /\ RejectionsFinal
  BY DEF IInv
<1>2. /\ m.run \in Runs /\ m.attempt \in 1..Attempts /\ m.attempt <= attempt[m.run]
      /\ attempt[m.run] \in 0..Attempts /\ count \in Nat
      /\ PlanOf[m.run] \in Plans /\ Expected(m.run) \in Nat \cup {Unset}
  BY <1>1, PlansAssumption DEF TypeOK, Posts, Accounted, Expected
<1>3. Attested
  BY <1>1, <1>2, AttemptsAssumption DEF Phased
<1>4. /\ Remote
      /\ (writes' = writes /\ count' = count) \/ GatewayWrite(m)
      /\ \A q \in Runs : reply'[q] \in {"conflict", "withdrawn"} =>
           \/ reply[q] \in {"conflict", "withdrawn"}
           \/ q = m.run /\ GatewayReject(m)
  BY <1>1, NetworkFrame
<1>5. ASSUME GatewayWrite(m)
      PROVE  /\ writes' = writes \cup {[run |-> m.run, attempt |-> m.attempt, base |-> count]}
             /\ open /\ ~Delivered(Key(m.run))
             /\ Enrich(m.run) => count = Expected(m.run)
             /\ count' \in {count, count + 1}
  BY <1>3, <1>5 DEF GatewayWrite, Replayed, Stale, Attested
<1>6. Phased'
  BY <1>1, <1>4 DEF Phased, Remote, Attested
<1>7. Accounted'
  <2>1. \A w \in writes' : w.attempt <= attempt[w.run]
    BY <1>1, <1>2, <1>4, <1>5 DEF Accounted
  <2>2. QED
    BY <1>1, <1>4, <2>1 DEF Accounted, Remote
<1>8. PreviewedBefore'
  <2>1. count' \in Nat /\ count <= count'
    BY <1>2, <1>4, <1>5
  <2>2. \A p \in Plans : preview[p] \in Int /\ preview[p] <= count
    BY <1>1 DEF TypeOK, PreviewedBefore, Unset
  <2>3. QED
    BY <1>2, <1>4, <2>1, <2>2 DEF PreviewedBefore, Remote
<1>9. OneWritePerKey'
  <2>1. CASE writes' = writes
    BY <1>1, <2>1 DEF OneWritePerKey, Key
  <2>2. CASE GatewayWrite(m)
    BY <1>1, <1>5, <2>2 DEF OneWritePerKey, Delivered, Key
  <2>3. QED
    BY <1>4, <2>1, <2>2
<1>10. NoStaleOverwrite'
  BY <1>1, <1>4, <1>5 DEF NoStaleOverwrite, Enrich, Expected, Remote
<1>11. VerifiedIsDelivered'
  <2>1. writes \subseteq writes'
    BY <1>4, <1>5
  <2>2. \A q \in Runs : Delivered(Key(q)) => Delivered(Key(q))'
    BY <2>1 DEF Delivered, Key
  <2>3. QED
    BY <1>1, <1>4, <2>2 DEF VerifiedIsDelivered, Remote
<1>12. RejectionsFinal'
  <2> SUFFICES ASSUME NEW q \in Runs, Rejected(q)'
               PROVE  ~WroteBy(q)' /\ NothingPending(q)'
    BY DEF RejectionsFinal
  <2>1. CASE Rejected(q)
    <3>1. ~WroteBy(q) /\ NothingPending(q)
      BY <1>1, <2>1 DEF RejectionsFinal
    <3>2. GatewayWrite(m) => m.run # q
      BY <1>2, <1>5, <3>1 DEF NothingPending
    <3>3. ~WroteBy(q)'
      BY <1>4, <1>5, <3>1, <3>2 DEF WroteBy
    <3>4. PlanOf[q] \in Plans /\ Expected(q) \in Int /\ count' \in Nat /\ count <= count'
      BY <1>1, <1>2, <1>4, <1>5, PlansAssumption DEF TypeOK, Expected, Unset
    <3>5. count > Expected(q) => count' > Expected(q)
      BY <1>2, <3>4
    <3>6. NothingPending(q)'
      BY <1>4, <3>1, <3>5 DEF NothingPending, Remote, Enrich, Expected
    <3>7. QED
      BY <3>3, <3>6
  <2>2. CASE ~Rejected(q)
    <3>1. q = m.run /\ GatewayReject(m)
      BY <1>4, <2>2 DEF Rejected, Remote
    <3>2. /\ ~Delivered(Key(q)) /\ writes' = writes /\ count' = count
          /\ ~open \/ (Enrich(q) /\ count # Expected(q))
      BY <1>3, <3>1 DEF GatewayReject, Replayed, Stale, Attested, external
    <3>3. ~WroteBy(q)'
      BY <3>2 DEF WroteBy, Delivered
    <3>4. Expected(q) \in Int /\ Expected(q) <= count
      BY <1>1, <1>2, <3>1 DEF PreviewedBefore, Expected, Unset
    <3>5. ~open \/ (Enrich(q) /\ count > Expected(q))
      BY <1>2, <3>2, <3>4
    <3>6. NothingPending(q)'
      BY <1>4, <3>2, <3>5 DEF NothingPending, Remote, Enrich, Expected
    <3>7. QED
      BY <3>3, <3>6
  <2>3. QED
    BY <2>1, <2>2
<1>13. PlannedFirst'
  BY <1>1, <1>4 DEF PlannedFirst, Remote, Expected
<1>14. QED
  BY <1>13, <1>6, <1>7, <1>8, <1>9, <1>10, <1>11, <1>12 DEF IInv

\* A plan is built for the current version of the Change.
LEMMA BuildPlanPreserves ==
    ASSUME IInv, NEW p \in Plans, BuildPlan(p), TypeOK'
    PROVE  IInv'
<1>1. /\ TypeOK /\ Phased /\ Accounted /\ PreviewedBefore /\ PlannedFirst
      /\ OneWritePerKey /\ NoStaleOverwrite /\ VerifiedIsDelivered /\ RejectionsFinal
  BY DEF IInv
<1>2. /\ UNCHANGED <<gw, open, count, writes, wire, pc, attempt, reply, result, events>>
      /\ preview[p] = Unset /\ preview' = [preview EXCEPT ![p] = count]
  BY DEF BuildPlan, external, progress
<1>3. \A q \in Runs : pc[q] # "idle" => Expected(q)' = Expected(q)
  BY <1>1, <1>2, PlansAssumption DEF PlannedFirst, Expected, TypeOK
<1>4. Phased' /\ Accounted' /\ OneWritePerKey'
  BY <1>1, <1>2 DEF Phased, Accounted, OneWritePerKey, Key, Attested
<1>5. PreviewedBefore'
  BY <1>1, <1>2 DEF PreviewedBefore, TypeOK
<1>6. PlannedFirst'
  BY <1>1, <1>2, <1>3 DEF PlannedFirst
<1>7. NoStaleOverwrite'
  <2> SUFFICES ASSUME NEW w \in writes, Enrich(w.run)
               PROVE  w.base = Expected(w.run)'
    BY <1>2 DEF NoStaleOverwrite, Enrich
  <2>1. w.run \in Runs /\ w.base \in Nat /\ w.base = Expected(w.run)
    BY <1>1 DEF TypeOK, NoStaleOverwrite
  <2>2. PlanOf[w.run] # p
    BY <1>2, <2>1 DEF Expected, Unset
  <2>3. QED
    BY <1>1, <1>2, <2>1, <2>2, PlansAssumption DEF Expected, TypeOK
<1>8. VerifiedIsDelivered'
  BY <1>1, <1>2 DEF VerifiedIsDelivered, Delivered, Key
<1>9. RejectionsFinal'
  <2> SUFFICES ASSUME NEW q \in Runs, Rejected(q)'
               PROVE  ~WroteBy(q)' /\ NothingPending(q)'
    BY DEF RejectionsFinal
  <2>1. Rejected(q) /\ ~WroteBy(q) /\ NothingPending(q)
    BY <1>1, <1>2 DEF RejectionsFinal, Rejected
  <2>2. pc[q] # "idle"
    BY <1>1, <2>1 DEF Rejected, Phased
  <2>3. QED
    BY <1>2, <1>3, <2>1, <2>2 DEF WroteBy, NothingPending, Enrich
<1>10. QED
  BY <1>4, <1>5, <1>6, <1>7, <1>8, <1>9 DEF IInv

\* Another editor changes the Change, or it is withdrawn.
LEMMA OthersPreserve ==
    ASSUME IInv, OtherEdit \/ Withdraw, TypeOK'
    PROVE  IInv'
<1>1. /\ TypeOK /\ Phased /\ Accounted /\ PreviewedBefore /\ PlannedFirst
      /\ OneWritePerKey /\ NoStaleOverwrite /\ VerifiedIsDelivered /\ RejectionsFinal
  BY DEF IInv
<1>2. /\ UNCHANGED <<gw, writes, wire, preview, pc, attempt, reply, result, events>>
      /\ count \in Nat /\ count' \in {count, count + 1}
      /\ open' => open
  BY <1>1 DEF OtherEdit, Withdraw, external, progress, TypeOK
<1>3. Phased' /\ Accounted' /\ OneWritePerKey' /\ NoStaleOverwrite'
  BY <1>1, <1>2
     DEF Phased, Accounted, OneWritePerKey, NoStaleOverwrite, Key, Enrich, Expected, Attested
<1>4. \A p \in Plans : preview[p] \in Int /\ preview[p] <= count /\ preview[p] <= count'
  BY <1>1, <1>2 DEF TypeOK, PreviewedBefore, Unset
<1>5. PreviewedBefore'
  BY <1>2, <1>4 DEF PreviewedBefore
<1>6. VerifiedIsDelivered'
  BY <1>1, <1>2 DEF VerifiedIsDelivered, Delivered, Key
<1>7. RejectionsFinal'
  <2> SUFFICES ASSUME NEW q \in Runs, Rejected(q)'
               PROVE  ~WroteBy(q)' /\ NothingPending(q)'
    BY DEF RejectionsFinal
  <2>1. ~WroteBy(q) /\ NothingPending(q)
    BY <1>1, <1>2 DEF RejectionsFinal, Rejected
  <2>2. count > Expected(q) => count' > Expected(q)
    BY <1>2, <1>4, PlansAssumption DEF Expected
  <2>3. QED
    BY <1>2, <2>1, <2>2 DEF WroteBy, NothingPending, Enrich, Expected
<1>8. PlannedFirst'
  BY <1>1, <1>2 DEF PlannedFirst, Expected
<1>9. QED
  BY <1>3, <1>5, <1>6, <1>7, <1>8 DEF IInv

\* A run that takes a step executes a plan that has been built.
LEMMA StepOfPlannedRun ==
    ASSUME NEW r \in Runs, Start(r) \/ RunStep(r) \/ Crash(r)
    PROVE  pc[r] # "idle" \/ Expected(r) # Unset
<1>1. CASE Start(r)
  BY <1>1 DEF Start
<1>2. CASE RunStep(r)
  BY <1>2 DEF RunStep, Authorize, AuthorizeFailed, ReadAgain, ReadFailed, LookupTarget,
     LookupMissing, ValidateCapability, RefuseBody, SendPost, PostUnresolved, Timeout,
     TransportFailed, Accepted, RetryAfter, Refused, ReconcileFound, ReconcileAbsent,
     ReconcileUnproven, Finish, SinkRaises, Receive, Reading
<1>3. CASE Crash(r)
  BY <1>3 DEF Crash
<1>4. QED
  BY <1>1, <1>2, <1>3

LEMMA NextIInv == IInv /\ [Next]_vars => IInv'
<1> SUFFICES ASSUME IInv, [Next]_vars
             PROVE  IInv'
  OBVIOUS
<1>1. TypeOK /\ Phased
  BY DEF IInv
<1>2. TypeOK'
  BY <1>1, StepType
<1>3. CASE UNCHANGED vars
  BY <1>3 DEF vars, IInv, TypeOK, Posts, Phased, Accounted, PreviewedBefore, PlannedFirst,
     OneWritePerKey, NoStaleOverwrite, VerifiedIsDelivered, RejectionsFinal, Rejected, WroteBy,
     NothingPending, Delivered, Key, Enrich, Expected, Attested
<1>4. ASSUME NEW p \in Plans, BuildPlan(p) PROVE IInv'
  BY <1>2, <1>4, BuildPlanPreserves
<1>5. ASSUME NEW r \in Runs, Start(r) \/ RunStep(r) \/ Crash(r) PROVE IInv'
  BY <1>1, <1>2, <1>5, RunFrame, RunPreserves, StepOfPlannedRun
<1>6. ASSUME NEW m \in wire, Network(m) PROVE IInv'
  BY <1>2, <1>6, NetworkPreserves
<1>7. CASE OtherEdit \/ Withdraw
  BY <1>2, <1>7, OthersPreserve
<1>8. QED
  BY <1>3, <1>4, <1>5, <1>6, <1>7 DEF Next

-----------------------------------------------------------------------------
(* The theorems *)

\* Every reachable state satisfies the inductive invariant, whatever the runs,
\* plans, faults, bounds and number of attempts are.
THEOREM Invariance == Spec => []IInv
<1>1. Init => IInv
  BY InitIInv
<1>2. IInv /\ [Next]_vars => IInv'
  BY NextIInv
<1>3. QED
  BY <1>1, <1>2, PTL DEF Spec

\* execute and its environment stay within their declared types; attempt never
\* exceeds the retry policy (_write_gateway).
THEOREM TypeCorrect == Spec => []TypeOK
<1>1. IInv => TypeOK
  BY DEF IInv
<1>2. QED
  BY <1>1, Invariance, PTL

\* A delivery key is written at most once by all runs that carry it, late and
\* repeated POSTs included.
THEOREM DeliveredOnce == Spec => []OneWritePerKey
<1>1. IInv => OneWritePerKey
  BY DEF IInv
<1>2. QED
  BY <1>1, Invariance, PTL

\* No write ever lands on another version of the Change than the plan's.
THEOREM NeverStale == Spec => []NoStaleOverwrite
<1>1. IInv => NoStaleOverwrite
  BY DEF IInv
<1>2. QED
  BY <1>1, Invariance, PTL

\* Verified results and events are only given for deliveries that happened.
THEOREM VerifiedMeansDelivered == Spec => []VerifiedIsDelivered
<1>1. IInv => VerifiedIsDelivered
  BY DEF IInv
<1>2. QED
  BY <1>1, Invariance, PTL

\* A run that reported a conflict has not written and no POST of it that is
\* still on its way ever will.
THEOREM ConflictIsFinal == Spec => []ConflictNeverWrites
<1>1. IInv => ConflictNeverWrites
  BY DEF IInv, RejectionsFinal, Rejected, ConflictNeverWrites
<1>2. QED
  BY <1>1, Invariance, PTL

-----------------------------------------------------------------------------
(* What the gates let through: a second invariant *)

\* A write that may be posted: what the gates let through, on a Change pinned
\* at the previewed version.
WriteCleared(r) ==
    /\ mode[r].plan = "valid" /\ mode[r].kind = "write"
    /\ mode[r].confirm /\ mode[r].deps
    /\ IF Enrich(r) THEN pinned[r] = Expected(r) ELSE mode[r].draft

\* How far a run has got says what it was asked.
Asked(r) ==
    /\ pc[r] \in {"authorize", "lookup"} => Admitted(r, mode[r])
    /\ pc[r] = "lookup" => Enrich(r)
    /\ pc[r] \in {"capability", "post", "waiting", "reconcile", "readback"} \/ attempt[r] > 0
           => WriteCleared(r)
    /\ attempt[r] > 0 => mode[r].fits

\* Nothing is emitted before there is a result, and twice only when the sink
\* raised on the first.
Told(r) ==
    /\ pc[r] \notin {"finish", "done", "raised", "crashed"} \/ (pc[r] = "finish" /\ guarded[r])
           => events[r] = <<>>
    /\ pc[r] = "finish" => Len(events[r]) <= 1
    /\ pc[r] = "done" =>
           /\ Len(events[r]) \in 1..2
           /\ events[r][Len(events[r])] = result[r].outcome

-----------------------------------------------------------------------------
(* The gates *)

\* What a run was asked, and how far it was let, agree after each of its steps.
LEMMA AskedKept ==
    ASSUME IInv, NEW r \in Runs, Asked(r), Start(r) \/ RunStep(r) \/ Crash(r)
    PROVE  Asked(r)'
<1>1. TypeOK /\ Phased
  BY DEF IInv
<1>2. /\ pc \in [Runs -> PCs] /\ mode \in [Runs -> ModeSpace] /\ attempt \in [Runs -> 0..Attempts]
      /\ pinned \in [Runs -> Nat \cup {Unset}]
  BY <1>1 DEF TypeOK
<1>3. pc[r] \in {"idle", "authorize", "lookup", "capability"} => attempt[r] = 0
  BY <1>1 DEF Phased
<1>4. QED
  <2>1. CASE Start(r)
    BY <1>2, <1>3, <2>1 DEF Start, Admitted, Gate, Return, Raise, Goto, Asked, WriteCleared,
       Admitted, Enrich, Expected, external, progress
  <2>2. CASE Authorize(r)
    BY <1>2, <1>3, <2>2 DEF Authorize, Read, Goto, Asked, WriteCleared, Admitted, Enrich,
       Expected, external, progress
  <2>3. CASE AuthorizeFailed(r)
    BY <1>2, <1>3, <2>3 DEF AuthorizeFailed, Raise, Goto, Asked, WriteCleared, Admitted,
       Enrich, Expected, external, progress
  <2>4. CASE ReadAgain(r)
    BY <1>2, <1>3, <2>4 DEF ReadAgain, Reading, Asked, WriteCleared, Admitted, Enrich,
       Expected, external, progress
  <2>5. CASE ReadFailed(r)
    BY <1>2, <1>3, <2>5 DEF ReadFailed, Raise, Goto, Asked, WriteCleared, Admitted, Enrich,
       Expected, external, progress
  <2>6. CASE LookupTarget(r)
    BY <1>2, <1>3, <2>6 DEF LookupTarget, Read, Return, Goto, Asked, WriteCleared, Admitted,
       Enrich, Expected, external, progress
  <2>7. CASE LookupMissing(r)
    BY <1>2, <1>3, <2>7 DEF LookupMissing, Raise, Goto, Asked, WriteCleared, Admitted, Enrich,
       Expected, external, progress
  <2>8. CASE ValidateCapability(r)
    BY <1>2, <1>3, <2>8 DEF ValidateCapability, Raise, Goto, Asked, WriteCleared, Admitted,
       Enrich, Expected, external, progress
  <2>9. CASE RefuseBody(r)
    BY <1>2, <1>3, <2>9 DEF RefuseBody, Return, Goto, Asked, WriteCleared, Admitted, Enrich,
       Expected, external, progress
  <2>10. CASE SendPost(r)
    BY <1>2, <1>3, <2>10 DEF SendPost, Goto, Asked, WriteCleared, Admitted, Enrich, Expected,
       external, progress
  <2>11. CASE PostUnresolved(r)
    BY <1>2, <1>3, <2>11 DEF PostUnresolved, Raise, Goto, Asked, WriteCleared, Admitted,
       Enrich, Expected, external, progress
  <2>12. CASE Timeout(r)
    BY <1>2, <1>3, <2>12 DEF Timeout, Read, Goto, Asked, WriteCleared, Admitted, Enrich,
       Expected, external, progress
  <2>13. CASE TransportFailed(r)
    BY <1>2, <1>3, <2>13 DEF TransportFailed, Raise, Goto, Asked, WriteCleared, Admitted,
       Enrich, Expected, external, progress
  <2>14. CASE Accepted(r)
    BY <1>2, <1>3, <2>14 DEF Accepted, Receive, Read, Goto, Asked, WriteCleared, Admitted,
       Enrich, Expected, external, progress
  <2>15. CASE RetryAfter(r)
    BY <1>2, <1>3, <2>15 DEF RetryAfter, Receive, Goto, Asked, WriteCleared, Admitted, Enrich,
       Expected, external, progress
  <2>16. CASE Refused(r)
    BY <1>2, <1>3, <2>16 DEF Refused, Receive, Return, Raise, Goto, Asked, WriteCleared,
       Admitted, Enrich, Expected, external, progress
  <2>17. CASE ReconcileFound(r)
    BY <1>2, <1>3, <2>17 DEF ReconcileFound, Return, Goto, Asked, WriteCleared, Admitted,
       Enrich, Expected, external, progress
  <2>18. CASE ReconcileAbsent(r)
    BY <1>2, <1>3, <2>18 DEF ReconcileAbsent, Goto, Asked, WriteCleared, Admitted, Enrich,
       Expected, external, progress
  <2>19. CASE ReconcileUnproven(r)
    BY <1>2, <1>3, <2>19 DEF ReconcileUnproven, Unknown, Return, Goto, Asked, WriteCleared,
       Admitted, Enrich, Expected, external, progress
  <2>20. CASE Finish(r)
    BY <1>2, <1>3, <2>20 DEF Finish, Goto, Asked, WriteCleared, Admitted, Enrich, Expected,
       external, progress
  <2>21. CASE SinkRaises(r)
    BY <1>2, <1>3, <2>21 DEF SinkRaises, Raise, Goto, Asked, WriteCleared, Admitted, Enrich,
       Expected, external, progress
  <2>22. CASE Crash(r)
    BY <1>2, <1>3, <2>22 DEF Crash, Goto, Terminal, Asked, WriteCleared, Admitted, Enrich,
       Expected, external, progress
  <2>23. QED
    BY <2>1, <2>2, <2>3, <2>4, <2>5, <2>6, <2>7, <2>8, <2>9, <2>10, <2>11, <2>12, <2>13,
       <2>14, <2>15, <2>16, <2>17, <2>18, <2>19, <2>20, <2>21, <2>22 DEF RunStep

\* The events of a run agree with its result after each of its steps.
LEMMA ToldKept ==
    ASSUME IInv, NEW r \in Runs, Told(r), Start(r) \/ RunStep(r) \/ Crash(r)
    PROVE  Told(r)'
<1>1. /\ pc \in [Runs -> PCs] /\ guarded \in [Runs -> BOOLEAN] /\ events \in [Runs -> Seq(Outcomes)]
      /\ result \in [Runs -> Results] /\ events[r] \in Seq(Outcomes) /\ result[r].outcome \in Outcomes
  BY DEF IInv, TypeOK, Results
<1>2. QED
  <2>1. CASE Start(r)
    BY <1>1, <2>1 DEF Start, Admitted, Gate, Return, Raise, Goto, Told
  <2>2. CASE Authorize(r)
    BY <1>1, <2>2 DEF Authorize, Read, Goto, Told
  <2>3. CASE AuthorizeFailed(r)
    BY <1>1, <2>3 DEF AuthorizeFailed, Raise, Goto, Told
  <2>4. CASE ReadAgain(r)
    BY <1>1, <2>4 DEF ReadAgain, Reading, Told
  <2>5. CASE ReadFailed(r)
    BY <1>1, <2>5 DEF ReadFailed, Raise, Goto, Told
  <2>6. CASE LookupTarget(r)
    BY <1>1, <2>6 DEF LookupTarget, Read, Return, Goto, Told
  <2>7. CASE LookupMissing(r)
    BY <1>1, <2>7 DEF LookupMissing, Raise, Goto, Told
  <2>8. CASE ValidateCapability(r)
    BY <1>1, <2>8 DEF ValidateCapability, Raise, Goto, Told
  <2>9. CASE RefuseBody(r)
    BY <1>1, <2>9 DEF RefuseBody, Return, Goto, Told
  <2>10. CASE SendPost(r)
    BY <1>1, <2>10 DEF SendPost, Goto, Told
  <2>11. CASE PostUnresolved(r)
    BY <1>1, <2>11 DEF PostUnresolved, Raise, Goto, Told
  <2>12. CASE Timeout(r)
    BY <1>1, <2>12 DEF Timeout, Read, Goto, Told
  <2>13. CASE TransportFailed(r)
    BY <1>1, <2>13 DEF TransportFailed, Raise, Goto, Told
  <2>14. CASE Accepted(r)
    BY <1>1, <2>14 DEF Accepted, Receive, Read, Goto, Told
  <2>15. CASE RetryAfter(r)
    BY <1>1, <2>15 DEF RetryAfter, Receive, Goto, Told
  <2>16. CASE Refused(r)
    BY <1>1, <2>16 DEF Refused, Receive, Return, Raise, Goto, Told
  <2>17. CASE ReconcileFound(r)
    BY <1>1, <2>17 DEF ReconcileFound, Return, Goto, Told
  <2>18. CASE ReconcileAbsent(r)
    BY <1>1, <2>18 DEF ReconcileAbsent, Goto, Told
  <2>19. CASE ReconcileUnproven(r)
    BY <1>1, <2>19 DEF ReconcileUnproven, Unknown, Return, Goto, Told
  <2>20. CASE Finish(r)
    BY <1>1, <2>20 DEF Finish, Goto, Told
  <2>21. CASE SinkRaises(r)
    BY <1>1, <2>21 DEF SinkRaises, Raise, Goto, Told
  <2>22. CASE Crash(r)
    BY <1>1, <2>22 DEF Crash, Goto, Terminal, Told
  <2>23. QED
    BY <2>1, <2>2, <2>3, <2>4, <2>5, <2>6, <2>7, <2>8, <2>9, <2>10, <2>11, <2>12, <2>13,
       <2>14, <2>15, <2>16, <2>17, <2>18, <2>19, <2>20, <2>21, <2>22 DEF RunStep

-----------------------------------------------------------------------------
(* Steps of other actors *)

\* Nothing of a run changes that Asked and Told look at.
Untouched(q) ==
    /\ pc'[q] = pc[q] /\ mode'[q] = mode[q] /\ attempt'[q] = attempt[q]
    /\ pinned'[q] = pinned[q] /\ result'[q] = result[q] /\ guarded'[q] = guarded[q]
    /\ events'[q] = events[q]

\* One call of execute does not touch another.
LEMMA OthersUntouched ==
    ASSUME TypeOK, NEW r \in Runs, NEW q \in Runs, q # r, Start(r) \/ RunStep(r) \/ Crash(r)
    PROVE  Untouched(q) /\ preview' = preview
<1>1. /\ pc \in [Runs -> PCs] /\ mode \in [Runs -> ModeSpace] /\ attempt \in [Runs -> 0..Attempts]
      /\ pinned \in [Runs -> Nat \cup {Unset}] /\ result \in [Runs -> Results]
      /\ guarded \in [Runs -> BOOLEAN] /\ events \in [Runs -> Seq(Outcomes)]
  BY DEF TypeOK
<1>2. QED
  <2>1. CASE Start(r)
    BY <1>1, <2>1 DEF Start, Admitted, Gate, Return, Raise, Goto, Untouched, external,
       progress
  <2>2. CASE Authorize(r)
    BY <1>1, <2>2 DEF Authorize, Read, Goto, Untouched, external, progress
  <2>3. CASE AuthorizeFailed(r)
    BY <1>1, <2>3 DEF AuthorizeFailed, Raise, Goto, Untouched, external, progress
  <2>4. CASE ReadAgain(r)
    BY <1>1, <2>4 DEF ReadAgain, Reading, Untouched, external, progress
  <2>5. CASE ReadFailed(r)
    BY <1>1, <2>5 DEF ReadFailed, Raise, Goto, Untouched, external, progress
  <2>6. CASE LookupTarget(r)
    BY <1>1, <2>6 DEF LookupTarget, Read, Return, Goto, Untouched, external, progress
  <2>7. CASE LookupMissing(r)
    BY <1>1, <2>7 DEF LookupMissing, Raise, Goto, Untouched, external, progress
  <2>8. CASE ValidateCapability(r)
    BY <1>1, <2>8 DEF ValidateCapability, Raise, Goto, Untouched, external, progress
  <2>9. CASE RefuseBody(r)
    BY <1>1, <2>9 DEF RefuseBody, Return, Goto, Untouched, external, progress
  <2>10. CASE SendPost(r)
    BY <1>1, <2>10 DEF SendPost, Goto, Untouched, external, progress
  <2>11. CASE PostUnresolved(r)
    BY <1>1, <2>11 DEF PostUnresolved, Raise, Goto, Untouched, external, progress
  <2>12. CASE Timeout(r)
    BY <1>1, <2>12 DEF Timeout, Read, Goto, Untouched, external, progress
  <2>13. CASE TransportFailed(r)
    BY <1>1, <2>13 DEF TransportFailed, Raise, Goto, Untouched, external, progress
  <2>14. CASE Accepted(r)
    BY <1>1, <2>14 DEF Accepted, Receive, Read, Goto, Untouched, external, progress
  <2>15. CASE RetryAfter(r)
    BY <1>1, <2>15 DEF RetryAfter, Receive, Goto, Untouched, external, progress
  <2>16. CASE Refused(r)
    BY <1>1, <2>16 DEF Refused, Receive, Return, Raise, Goto, Untouched, external, progress
  <2>17. CASE ReconcileFound(r)
    BY <1>1, <2>17 DEF ReconcileFound, Return, Goto, Untouched, external, progress
  <2>18. CASE ReconcileAbsent(r)
    BY <1>1, <2>18 DEF ReconcileAbsent, Goto, Untouched, external, progress
  <2>19. CASE ReconcileUnproven(r)
    BY <1>1, <2>19 DEF ReconcileUnproven, Unknown, Return, Goto, Untouched, external, progress
  <2>20. CASE Finish(r)
    BY <1>1, <2>20 DEF Finish, Goto, Untouched, external, progress
  <2>21. CASE SinkRaises(r)
    BY <1>1, <2>21 DEF SinkRaises, Raise, Goto, Untouched, external, progress
  <2>22. CASE Crash(r)
    BY <1>1, <2>22 DEF Crash, Goto, Terminal, Untouched, external, progress
  <2>23. QED
    BY <2>1, <2>2, <2>3, <2>4, <2>5, <2>6, <2>7, <2>8, <2>9, <2>10, <2>11, <2>12, <2>13,
       <2>14, <2>15, <2>16, <2>17, <2>18, <2>19, <2>20, <2>21, <2>22 DEF RunStep

\* A run that nothing touched keeps what it was asked, as long as the plan it
\* executes stays the same.
LEMMA UntouchedKeeps ==
    ASSUME NEW q \in Runs, Untouched(q), pc[q] # "idle" => Expected(q)' = Expected(q),
           pc[q] = "idle" => attempt[q] = 0, Asked(q), Told(q)
    PROVE  Asked(q)' /\ Told(q)'
<1>1. Told(q)'
  BY DEF Untouched, Told
<1>2. Asked(q)'
  BY DEF Untouched, Asked, Admitted, WriteCleared, Enrich, Expected
<1>3. QED
  BY <1>1, <1>2

-----------------------------------------------------------------------------
(* The invariant is kept *)

\* What every run was asked and told, in every reachable state.
ReportInv == \A r \in Runs : Asked(r) /\ Told(r)

\* Before the first call nothing has been asked or told.
LEMMA InitReport == Init => ReportInv
BY DEF Init, ReportInv, Asked, Told, NoResult

\* Every step of the system keeps what the runs were asked and told.
LEMMA NextReport == IInv /\ ReportInv /\ [Next]_vars => ReportInv'
<1> SUFFICES ASSUME IInv, ReportInv, [Next]_vars, NEW q \in Runs
             PROVE  Asked(q)' /\ Told(q)'
  BY DEF ReportInv
<1>1. TypeOK /\ Phased /\ PlannedFirst /\ Asked(q) /\ Told(q)
  BY DEF IInv, ReportInv
<1>2. pc[q] = "idle" => attempt[q] = 0
  BY <1>1 DEF Phased
<1>3. pc[q] # "idle" => Expected(q) # Unset
  BY <1>1 DEF PlannedFirst
<1>4. CASE UNCHANGED vars
  <2>1. Untouched(q) /\ preview' = preview
    BY <1>4 DEF vars, Untouched
  <2>2. QED
    BY <1>1, <1>2, <2>1, UntouchedKeeps DEF Expected
<1>5. ASSUME NEW p \in Plans, BuildPlan(p) PROVE Asked(q)' /\ Told(q)'
  <2>1. Untouched(q)
    BY <1>5 DEF BuildPlan, Untouched, progress
  <2>2. pc[q] # "idle" => Expected(q)' = Expected(q)
    BY <1>1, <1>3, <1>5, PlansAssumption DEF BuildPlan, Expected, TypeOK
  <2>3. QED
    BY <1>1, <1>2, <2>1, <2>2, UntouchedKeeps
<1>6. ASSUME NEW r \in Runs, Start(r) \/ RunStep(r) \/ Crash(r) PROVE Asked(q)' /\ Told(q)'
  <2>1. CASE q = r
    BY <1>1, <1>6, <2>1, AskedKept, ToldKept
  <2>2. CASE q # r
    <3>1. Untouched(q) /\ preview' = preview
      BY <1>1, <1>6, <2>2, OthersUntouched
    <3>2. QED
      BY <1>1, <1>2, <3>1, UntouchedKeeps DEF Expected
  <2>3. QED
    BY <2>1, <2>2
<1>7. ASSUME NEW m \in wire, Network(m) PROVE Asked(q)' /\ Told(q)'
  <2>1. Untouched(q) /\ preview' = preview
    BY <1>7 DEF Network, GatewayReplay, GatewayReject, GatewayWrite, ProxyAnswer, LosePost,
       Untouched, progress
  <2>2. QED
    BY <1>1, <1>2, <2>1, UntouchedKeeps DEF Expected
<1>8. CASE OtherEdit \/ Withdraw
  <2>1. Untouched(q) /\ preview' = preview
    BY <1>8 DEF OtherEdit, Withdraw, Untouched, progress
  <2>2. QED
    BY <1>1, <1>2, <2>1, UntouchedKeeps DEF Expected
<1>9. QED
  BY <1>4, <1>5, <1>6, <1>7, <1>8 DEF Next

-----------------------------------------------------------------------------
(* What it says of every run *)

\* Every reachable state agrees with what each run was asked and told.
LEMMA Reported == Spec => []ReportInv
<1>1. Init => ReportInv
  BY InitReport
<1>2. IInv /\ ReportInv /\ [Next]_vars => ReportInv'
  BY NextReport
<1>3. QED
  BY <1>1, <1>2, Invariance, PTL DEF Spec

\* Whatever the network, other runs and other editors do in between, a POST
\* has only been sent for a confirmed live write of a valid plan, to a gateway
\* that attests both guarantees, on the version the plan was previewed on.
THEOREM GatesHold == Spec => []PostOnlyWhenCleared
<1>1. IInv /\ ReportInv => PostOnlyWhenCleared
  BY DEF IInv, Phased, ReportInv, Asked, WriteCleared, PostOnlyWhenCleared
<1>2. QED
  BY <1>1, Invariance, Reported, PTL

\* The caller is returned the result the sink was handed last, also when the
\* sink raised on the first.
THEOREM SinkAgrees == Spec => []EventMatchesResult
<1>1. ReportInv => EventMatchesResult
  BY DEF ReportInv, Told, EventMatchesResult
<1>2. QED
  BY <1>1, Reported, PTL

-----------------------------------------------------------------------------
(* The write state of a run with one POST *)

\* The run says that nothing was written, and may be believed.
Claim(r) ==
    /\ result[r].state \in {"NOT_ATTEMPTED", "NOT_APPLIED"}
    /\ attempt[r] <= 1
    /\ result[r].code # "RESPONSE_INVALID"

\* The only POST of the run was turned away before the gateway.
Throttled(r) == pc[r] = "waiting" /\ reply[r] = "429" /\ attempt[r] = 1

\* A POST is written at most once, and one that was turned away, or whose run
\* says so, is neither written nor on its way to be.
Fate(r) ==
    /\ \A m \in wire, w \in writes : m.run = r /\ w.run = r => w.attempt # m.attempt
    /\ Throttled(r) => ~WroteBy(r) /\ \A m \in wire : m.run # r
    /\ Claim(r) => pc[r] \in {"finish", "done"} /\ ~WroteBy(r) /\ NothingPending(r)

\* What a run knows when it says that nothing was written.
Harmless(r) == attempt[r] = 0 \/ Rejected(r) \/ Throttled(r) \/ Claim(r)

\* Whatever entitles a run to say so, nothing was written or can be.
LEMMA HarmlessIsUnwritten ==
    ASSUME IInv, NEW r \in Runs, Fate(r), Harmless(r)
    PROVE  ~WroteBy(r) /\ NothingPending(r)
<1>1. CASE attempt[r] = 0
  <2>1. (\A m \in wire : m.run # r) /\ \A w \in writes : w.run # r
    BY <1>1, AttemptsAssumption DEF IInv, TypeOK, Posts, Accounted
  <2>2. QED
    BY <2>1 DEF WroteBy, NothingPending
<1>2. CASE Rejected(r)
  BY <1>2 DEF IInv, RejectionsFinal
<1>3. CASE Throttled(r) \/ Claim(r)
  BY <1>3 DEF Fate, NothingPending
<1>4. QED
  BY <1>1, <1>2, <1>3 DEF Harmless

\* A run claims no write only from what it knows, and has then ended.
LEMMA ClaimStep ==
    ASSUME IInv, NEW r \in Runs, Asked(r), Fate(r), Start(r) \/ RunStep(r) \/ Crash(r), Claim(r)'
    PROVE  Harmless(r) /\ wire' = wire /\ pc'[r] \in {"finish", "done"}
<1>1. /\ pc \in [Runs -> PCs] /\ attempt \in [Runs -> 0..Attempts] /\ attempt[r] \in Nat
      /\ result \in [Runs -> Results] /\ reply \in [Runs -> Replies]
  BY AttemptsAssumption DEF IInv, TypeOK
<1>2. /\ pc[r] \in {"idle", "authorize", "lookup", "capability"} => attempt[r] = 0
      /\ Claim(r) => pc[r] \in {"finish", "done"}
      /\ attempt[r] > 0 => mode[r].fits
  BY DEF IInv, Phased, Fate, Asked
<1>3. QED
  <2>1. CASE Start(r)
    BY <1>1, <1>2, <2>1 DEF Start, Admitted, Gate, Return, Raise, Goto, Claim, Harmless,
       Throttled, Rejected, progress, NoResult, Reading
  <2>2. CASE Authorize(r)
    BY <1>1, <1>2, <2>2 DEF Authorize, Read, Goto, Claim, Harmless, Throttled, Rejected,
       progress, NoResult, Reading
  <2>3. CASE AuthorizeFailed(r)
    BY <1>1, <1>2, <2>3 DEF AuthorizeFailed, Raise, Goto, Claim, Harmless, Throttled,
       Rejected, progress, NoResult, Reading
  <2>4. CASE ReadAgain(r)
    BY <1>1, <1>2, <2>4 DEF ReadAgain, Reading, Claim, Harmless, Throttled, Rejected,
       progress, NoResult, Reading
  <2>5. CASE ReadFailed(r)
    BY <1>1, <1>2, <2>5 DEF ReadFailed, Raise, Goto, Claim, Harmless, Throttled, Rejected,
       progress, NoResult, Reading
  <2>6. CASE LookupTarget(r)
    BY <1>1, <1>2, <2>6 DEF LookupTarget, Read, Return, Goto, Claim, Harmless, Throttled,
       Rejected, progress, NoResult, Reading
  <2>7. CASE LookupMissing(r)
    BY <1>1, <1>2, <2>7 DEF LookupMissing, Raise, Goto, Claim, Harmless, Throttled, Rejected,
       progress, NoResult, Reading
  <2>8. CASE ValidateCapability(r)
    BY <1>1, <1>2, <2>8 DEF ValidateCapability, Raise, Goto, Claim, Harmless, Throttled,
       Rejected, progress, NoResult, Reading
  <2>9. CASE RefuseBody(r)
    BY <1>1, <1>2, <2>9 DEF RefuseBody, Return, Goto, Claim, Harmless, Throttled, Rejected,
       progress, NoResult, Reading
  <2>10. CASE SendPost(r)
    BY <1>1, <1>2, <2>10 DEF SendPost, Goto, Claim, Harmless, Throttled, Rejected, progress,
       NoResult, Reading
  <2>11. CASE PostUnresolved(r)
    BY <1>1, <1>2, <2>11 DEF PostUnresolved, Raise, Goto, Claim, Harmless, Throttled,
       Rejected, progress, NoResult, Reading
  <2>12. CASE Timeout(r)
    BY <1>1, <1>2, <2>12 DEF Timeout, Read, Goto, Claim, Harmless, Throttled, Rejected,
       progress, NoResult, Reading
  <2>13. CASE TransportFailed(r)
    BY <1>1, <1>2, <2>13 DEF TransportFailed, Raise, Goto, Claim, Harmless, Throttled,
       Rejected, progress, NoResult, Reading
  <2>14. CASE Accepted(r)
    BY <1>1, <1>2, <2>14 DEF Accepted, Receive, Read, Goto, Claim, Harmless, Throttled,
       Rejected, progress, NoResult, Reading
  <2>15. CASE RetryAfter(r)
    BY <1>1, <1>2, <2>15 DEF RetryAfter, Receive, Goto, Claim, Harmless, Throttled, Rejected,
       progress, NoResult, Reading
  <2>16. CASE Refused(r)
    BY <1>1, <1>2, <2>16 DEF Refused, Receive, Return, Raise, Goto, Claim, Harmless,
       Throttled, Rejected, progress, NoResult, Reading
  <2>17. CASE ReconcileFound(r)
    BY <1>1, <1>2, <2>17 DEF ReconcileFound, Return, Goto, Claim, Harmless, Throttled,
       Rejected, progress, NoResult, Reading
  <2>18. CASE ReconcileAbsent(r)
    BY <1>1, <1>2, <2>18 DEF ReconcileAbsent, Goto, Claim, Harmless, Throttled, Rejected,
       progress, NoResult, Reading
  <2>19. CASE ReconcileUnproven(r)
    BY <1>1, <1>2, <2>19 DEF ReconcileUnproven, Unknown, Return, Goto, Claim, Harmless,
       Throttled, Rejected, progress, NoResult, Reading
  <2>20. CASE Finish(r)
    BY <1>1, <1>2, <2>20 DEF Finish, Goto, Claim, Harmless, Throttled, Rejected, progress,
       NoResult, Reading
  <2>21. CASE SinkRaises(r)
    BY <1>1, <1>2, <2>21 DEF SinkRaises, Raise, Goto, Claim, Harmless, Throttled, Rejected,
       progress, NoResult, Reading
  <2>22. CASE Crash(r)
    BY <1>1, <1>2, <2>22 DEF Crash, Goto, Terminal, Claim, Harmless, Throttled, Rejected,
       progress, NoResult, Reading
  <2>23. QED
    BY <2>1, <2>2, <2>3, <2>4, <2>5, <2>6, <2>7, <2>8, <2>9, <2>10, <2>11, <2>12, <2>13,
       <2>14, <2>15, <2>16, <2>17, <2>18, <2>19, <2>20, <2>21, <2>22 DEF RunStep

\* A step of the run itself never leaves it waiting with a refusal.
LEMMA NoThrottleStep ==
    ASSUME TypeOK, NEW r \in Runs, Start(r) \/ RunStep(r) \/ Crash(r)
    PROVE  ~Throttled(r)'
<1>1. pc \in [Runs -> PCs] /\ reply \in [Runs -> Replies]
  BY DEF TypeOK
<1>2. QED
  <2>1. CASE Start(r)
    BY <1>1, <2>1 DEF Start, Admitted, Gate, Return, Raise, Goto, Throttled, Reading
  <2>2. CASE Authorize(r)
    BY <1>1, <2>2 DEF Authorize, Read, Goto, Throttled, Reading
  <2>3. CASE AuthorizeFailed(r)
    BY <1>1, <2>3 DEF AuthorizeFailed, Raise, Goto, Throttled, Reading
  <2>4. CASE ReadAgain(r)
    BY <1>1, <2>4 DEF ReadAgain, Reading, Throttled, Reading
  <2>5. CASE ReadFailed(r)
    BY <1>1, <2>5 DEF ReadFailed, Raise, Goto, Throttled, Reading
  <2>6. CASE LookupTarget(r)
    BY <1>1, <2>6 DEF LookupTarget, Read, Return, Goto, Throttled, Reading
  <2>7. CASE LookupMissing(r)
    BY <1>1, <2>7 DEF LookupMissing, Raise, Goto, Throttled, Reading
  <2>8. CASE ValidateCapability(r)
    BY <1>1, <2>8 DEF ValidateCapability, Raise, Goto, Throttled, Reading
  <2>9. CASE RefuseBody(r)
    BY <1>1, <2>9 DEF RefuseBody, Return, Goto, Throttled, Reading
  <2>10. CASE SendPost(r)
    BY <1>1, <2>10 DEF SendPost, Goto, Throttled, Reading
  <2>11. CASE PostUnresolved(r)
    BY <1>1, <2>11 DEF PostUnresolved, Raise, Goto, Throttled, Reading
  <2>12. CASE Timeout(r)
    BY <1>1, <2>12 DEF Timeout, Read, Goto, Throttled, Reading
  <2>13. CASE TransportFailed(r)
    BY <1>1, <2>13 DEF TransportFailed, Raise, Goto, Throttled, Reading
  <2>14. CASE Accepted(r)
    BY <1>1, <2>14 DEF Accepted, Receive, Read, Goto, Throttled, Reading
  <2>15. CASE RetryAfter(r)
    BY <1>1, <2>15 DEF RetryAfter, Receive, Goto, Throttled, Reading
  <2>16. CASE Refused(r)
    BY <1>1, <2>16 DEF Refused, Receive, Return, Raise, Goto, Throttled, Reading
  <2>17. CASE ReconcileFound(r)
    BY <1>1, <2>17 DEF ReconcileFound, Return, Goto, Throttled, Reading
  <2>18. CASE ReconcileAbsent(r)
    BY <1>1, <2>18 DEF ReconcileAbsent, Goto, Throttled, Reading
  <2>19. CASE ReconcileUnproven(r)
    BY <1>1, <2>19 DEF ReconcileUnproven, Unknown, Return, Goto, Throttled, Reading
  <2>20. CASE Finish(r)
    BY <1>1, <2>20 DEF Finish, Goto, Throttled, Reading
  <2>21. CASE SinkRaises(r)
    BY <1>1, <2>21 DEF SinkRaises, Raise, Goto, Throttled, Reading
  <2>22. CASE Crash(r)
    BY <1>1, <2>22 DEF Crash, Goto, Terminal, Throttled, Reading
  <2>23. QED
    BY <2>1, <2>2, <2>3, <2>4, <2>5, <2>6, <2>7, <2>8, <2>9, <2>10, <2>11, <2>12, <2>13,
       <2>14, <2>15, <2>16, <2>17, <2>18, <2>19, <2>20, <2>21, <2>22 DEF RunStep

\* The fate of the run's POSTs after a step of its own.
LEMMA OwnFate ==
    ASSUME IInv, NEW r \in Runs, Asked(r), Fate(r), Start(r) \/ RunStep(r) \/ Crash(r)
    PROVE  Fate(r)'
<1>1. Private(r) /\ Honest(r)
  BY RunFrame DEF IInv
<1>2. \A m \in wire', w \in writes' : m.run = r /\ w.run = r => w.attempt # m.attempt
  <2>1. CASE wire' = wire
    BY <1>1, <2>1 DEF Private, Fate
  <2>2. CASE wire' # wire
    <3>1. /\ SendPost(r) /\ attempt[r] \in Nat
          /\ \A w \in writes : w.run = r => w.attempt \in Nat /\ w.attempt <= attempt[r]
      <4>1. SendPost(r)
        BY <2>2 DEF Start, RunStep, Crash, Authorize, AuthorizeFailed, ReadAgain, ReadFailed,
           LookupTarget, LookupMissing, ValidateCapability, RefuseBody, PostUnresolved, Timeout,
           TransportFailed, Accepted, RetryAfter, Refused, ReconcileFound, ReconcileAbsent,
           ReconcileUnproven, Finish, SinkRaises, external
      <4>2. QED
        BY <4>1, AttemptsAssumption DEF IInv, TypeOK, Accounted
    <3>2. wire' = wire \cup {[run |-> r, attempt |-> attempt[r] + 1]} /\ writes' = writes
      BY <3>1 DEF SendPost, external
    <3>3. QED
      BY <3>1, <3>2 DEF Fate
  <2>3. QED
    BY <2>1, <2>2
<1>3. ~Throttled(r)'
  BY NoThrottleStep DEF IInv
<1>4. ASSUME Claim(r)'
      PROVE  pc'[r] \in {"finish", "done"} /\ ~WroteBy(r)' /\ NothingPending(r)'
  <2>1. Harmless(r) /\ wire' = wire /\ pc'[r] \in {"finish", "done"}
    BY <1>4, ClaimStep
  <2>2. ~WroteBy(r) /\ NothingPending(r)
    BY <2>1, HarmlessIsUnwritten
  <2>3. QED
    BY <1>1, <2>1, <2>2 DEF Private, WroteBy, NothingPending, Enrich, Expected
<1>5. QED
  BY <1>2, <1>3, <1>4 DEF Fate

\* Nothing happens to a run, to its POSTs or to the version of its plan.
LEMMA QuietFate ==
    ASSUME IInv, NEW q \in Runs, Fate(q), pc'[q] = pc[q], attempt'[q] = attempt[q],
           reply'[q] = reply[q], result'[q] = result[q],
           pc[q] # "idle" => Expected(q)' = Expected(q),
           \A w \in writes' : w.run = q => w \in writes,
           \A m \in wire' : m.run = q => m \in wire,
           open' => open, count' \in Nat, count <= count'
    PROVE  Fate(q)'
<1>1. /\ Throttled(q)' = Throttled(q) /\ Claim(q)' = Claim(q) /\ Enrich(q)' = Enrich(q)
      /\ WroteBy(q)' => WroteBy(q)
  BY DEF Throttled, Claim, Enrich, WroteBy
<1>2. \A m \in wire', w \in writes' : m.run = q /\ w.run = q => w.attempt # m.attempt
  BY DEF Fate
<1>3. Throttled(q)' => ~WroteBy(q)' /\ \A m \in wire' : m.run # q
  BY <1>1 DEF Fate
<1>4. Claim(q)' => pc'[q] \in {"finish", "done"} /\ ~WroteBy(q)' /\ NothingPending(q)'
  <2>1. SUFFICES ASSUME Claim(q), pc[q] \in {"finish", "done"}, ~WroteBy(q), NothingPending(q)
                 PROVE  NothingPending(q)'
    BY <1>1 DEF Fate
  <2>2. Expected(q)' = Expected(q) /\ Expected(q) \in Int /\ count \in Nat
    BY <2>1, PlansAssumption DEF IInv, TypeOK, Expected, Unset
  <2>3. count > Expected(q) => count' > Expected(q)'
    BY <2>2
  <2>4. QED
    BY <1>1, <2>1, <2>3 DEF NothingPending
<1>5. QED
  BY <1>2, <1>3, <1>4 DEF Fate

\* The gateway and the network: what is written was on the wire and leaves it,
\* and a proxy that answers 429 keeps the POST.
LEMMA NetworkFate ==
    ASSUME IInv, NEW m \in wire, Network(m), NEW q \in Runs, Fate(q)
    PROVE  Fate(q)'
<1>1. /\ TypeOK /\ Phased /\ Accounted
      /\ m.run \in Runs /\ m.attempt \in 1..Attempts /\ m.attempt <= attempt[m.run]
      /\ attempt[m.run] \in 0..Attempts /\ count \in Nat
      /\ PlanOf[q] \in Plans /\ Expected(q) \in Int
  BY PlansAssumption DEF IInv, TypeOK, Posts, Accounted, Expected, Unset
<1>2. Attested
  BY <1>1, AttemptsAssumption DEF Phased
<1>3. Remote /\ ((writes' = writes /\ count' = count) \/ GatewayWrite(m))
  BY <1>1, NetworkFrame
<1>4. ASSUME GatewayWrite(m)
      PROVE  /\ writes' = writes \cup {[run |-> m.run, attempt |-> m.attempt, base |-> count]}
             /\ wire' = wire \ {m} /\ open /\ (Enrich(m.run) => count = Expected(m.run))
             /\ count' \in {count, count + 1}
  BY <1>2, <1>4 DEF GatewayWrite, Stale, Attested
<1>5. count' \in Nat /\ count <= count'
  BY <1>1, <1>3, <1>4
<1>6. pc'[q] = pc[q] /\ attempt'[q] = attempt[q] /\ result'[q] = result[q] /\ Expected(q)' = Expected(q)
  BY <1>3 DEF Remote, Expected
<1>7. \A n \in wire', w \in writes' : n.run = q /\ w.run = q => w.attempt # n.attempt
  <2>1. CASE writes' = writes
    BY <1>3, <2>1 DEF Remote, Fate
  <2>2. CASE GatewayWrite(m)
    <3>1. SUFFICES ASSUME NEW n \in wire, n # m, n.run = q, m.run = q
                   PROVE  n.attempt # m.attempt
      BY <1>3, <1>4, <2>2 DEF Remote, Fate
    <3>2. n \in Posts /\ m \in Posts
      BY <1>1 DEF TypeOK
    <3>3. QED
      BY <3>1, <3>2 DEF Posts
  <2>3. QED
    BY <1>3, <2>1, <2>2
<1>8. ASSUME Throttled(q)'
      PROVE  ~WroteBy(q)' /\ \A n \in wire' : n.run # q
  <2>1. CASE reply[q] = "429"
    <3>1. ~WroteBy(q) /\ \A n \in wire : n.run # q
      BY <1>6, <1>8, <2>1 DEF Throttled, Fate
    <3>2. QED
      BY <1>3, <1>4, <3>1 DEF Remote, WroteBy
  <2>2. CASE reply[q] # "429"
    <3>1. reply'[q] = "429" /\ attempt[q] = 1
      BY <1>6, <1>8 DEF Throttled
    <3>2. /\ \E s \in {"429", "redirect", "503", "error"} : Answer(m, s)
          /\ wire' = wire \ {m} /\ writes' = writes /\ q = m.run /\ attempt[q] = m.attempt
      <4>1. ASSUME NEW s, Answer(m, s)
            PROVE  s = "429" /\ q = m.run /\ attempt[q] = m.attempt
        BY <1>1, <2>2, <3>1, <4>1, AnswerFrame
      <4>2. ProxyAnswer(m)
        BY <2>2, <3>1, <4>1 DEF Network, GatewayReplay, GatewayReject, GatewayWrite, LosePost,
           Acknowledgements, Refusals
      <4>3. QED
        BY <4>1, <4>2 DEF ProxyAnswer, external
    <3>3. \A n \in wire : n.run = q => n = m
      <4>1. SUFFICES ASSUME NEW n \in wire, n.run = q
                     PROVE  n.attempt = m.attempt
        <5>1. \A n \in wire : n \in Posts
          BY <1>1 DEF TypeOK
        <5>2. \A n \in Posts : n.run = m.run /\ n.attempt = m.attempt => n = m
          BY <5>1 DEF Posts
        <5>3. QED
          BY <3>2, <5>1, <5>2
      <4>2. n.attempt \in 1..Attempts /\ n.attempt <= attempt[q]
        BY <1>1, <4>1 DEF TypeOK, Posts, Accounted
      <4>3. QED
        BY <3>1, <3>2, <4>2, AttemptsAssumption
    <3>4. ~WroteBy(q)
      <4>1. SUFFICES ASSUME NEW w \in writes, w.run = q
                     PROVE  w.attempt = m.attempt
        BY <3>2 DEF Fate, WroteBy
      <4>2. w.attempt \in 1..Attempts /\ w.attempt <= attempt[q]
        BY <1>1, <4>1 DEF TypeOK, Accounted
      <4>3. QED
        BY <3>1, <3>2, <4>2, AttemptsAssumption
    <3>5. QED
      BY <3>2, <3>3, <3>4 DEF WroteBy
  <2>3. QED
    BY <2>1, <2>2
<1>9. ASSUME Claim(q)'
      PROVE  pc'[q] \in {"finish", "done"} /\ ~WroteBy(q)' /\ NothingPending(q)'
  <2>1. pc[q] \in {"finish", "done"} /\ ~WroteBy(q) /\ NothingPending(q)
    BY <1>6, <1>9 DEF Claim, Fate
  <2>2. GatewayWrite(m) => m.run # q
    BY <1>1, <1>4, <2>1 DEF NothingPending
  <2>3. ~WroteBy(q)'
    BY <1>3, <1>4, <2>1, <2>2 DEF WroteBy
  <2>4. count > Expected(q) => count' > Expected(q)
    BY <1>1, <1>5
  <2>5. QED
    BY <1>3, <1>6, <2>1, <2>3, <2>4 DEF NothingPending, Remote, Enrich
<1>10. QED
  BY <1>7, <1>8, <1>9 DEF Fate

\* The fate of the POSTs of every run, in every reachable state.
FateInv == \A r \in Runs : Fate(r)

\* Nothing has been sent yet.
LEMMA InitFate == Init => FateInv
BY DEF Init, FateInv, Fate, Throttled, Claim, NoResult

\* Every step of the system keeps the fate of the POSTs.
LEMMA NextFate == IInv /\ ReportInv /\ FateInv /\ [Next]_vars => FateInv'
<1> SUFFICES ASSUME IInv, ReportInv, FateInv, [Next]_vars, NEW q \in Runs
             PROVE  Fate(q)'
  BY DEF FateInv
<1>1. TypeOK /\ Phased /\ PlannedFirst /\ Fate(q) /\ count \in Nat
  BY DEF IInv, TypeOK, FateInv
<1>2. CASE UNCHANGED vars
  BY <1>1, <1>2, QuietFate DEF vars, Expected
<1>3. ASSUME NEW p \in Plans, BuildPlan(p) PROVE Fate(q)'
  <2>1. UNCHANGED <<open, count, writes, wire, pc, attempt, reply, result>>
    BY <1>3 DEF BuildPlan, external, progress
  <2>2. pc[q] # "idle" => Expected(q)' = Expected(q)
    BY <1>1, <1>3, PlansAssumption DEF BuildPlan, Expected, TypeOK, PlannedFirst
  <2>3. QED
    BY <1>1, <2>1, <2>2, QuietFate
<1>4. ASSUME NEW r \in Runs, Start(r) \/ RunStep(r) \/ Crash(r) PROVE Fate(q)'
  <2>1. CASE q = r
    BY <1>1, <1>4, <2>1, OwnFate DEF ReportInv
  <2>2. CASE q # r
    <3>1. Private(r) /\ Honest(r)
      BY <1>1, <1>4, RunFrame
    <3>2. QED
      BY <1>1, <2>2, <3>1, QuietFate DEF Private, Honest, Expected
  <2>3. QED
    BY <2>1, <2>2
<1>5. ASSUME NEW m \in wire, Network(m) PROVE Fate(q)'
  BY <1>1, <1>5, NetworkFate
<1>6. CASE OtherEdit \/ Withdraw
  <2>1. /\ UNCHANGED <<writes, wire, preview, pc, attempt, reply, result>>
        /\ count' \in Nat /\ count <= count' /\ (open' => open)
    BY <1>1, <1>6 DEF OtherEdit, Withdraw, progress
  <2>2. QED
    BY <1>1, <2>1, QuietFate DEF Expected
<1>7. QED
  BY <1>2, <1>3, <1>4, <1>5, <1>6 DEF Next

\* A run of at most one readable POST that says nothing was attempted, or
\* nothing applied, has written nothing, and no late POST of it ever will.
THEOREM UnwrittenIsUnwritten == Spec => []FirstPostStateHolds
<1>1. Init => FateInv
  BY InitFate
<1>2. IInv /\ ReportInv /\ FateInv /\ [Next]_vars => FateInv'
  BY NextFate
<1>3. FateInv => FirstPostStateHolds
  BY DEF FateInv, Fate, Claim, FirstPostStateHolds
<1>4. QED
  BY <1>1, <1>2, <1>3, Invariance, Reported, PTL DEF Spec

-----------------------------------------------------------------------------
(* Runs that only look *)

\* A run that reports that it only looked has not sent anything.
QuietInv ==
    \A r \in Runs : result[r].outcome \in {"DRY_RUN", "READ_ONLY"} => attempt[r] = 0

\* A step of execute begins a look before any POST or not at all.
LEMMA QuietKept ==
    ASSUME IInv, NEW r \in Runs, Start(r) \/ RunStep(r) \/ Crash(r),
           result[r].outcome \in {"DRY_RUN", "READ_ONLY"} => attempt[r] = 0
    PROVE  result'[r].outcome \in {"DRY_RUN", "READ_ONLY"} => attempt'[r] = 0
<1>1. /\ pc \in [Runs -> PCs] /\ attempt \in [Runs -> 0..Attempts] /\ result \in [Runs -> Results]
      /\ pc[r] \in {"idle", "authorize", "lookup", "capability"} => attempt[r] = 0
      /\ result[r].outcome # "none" => pc[r] \in {"finish", "done"}
  BY DEF IInv, TypeOK, Phased
<1>2. Start(r) \/ RunStep(r) \/ Crash(r)
  OBVIOUS
<1>3. QED
  <2>1. CASE Start(r)
    BY <1>1, <2>1 DEF Start, Admitted, Gate, Return, Raise, Goto, progress, NoResult,
       CaughtOutcome
  <2>2. CASE Authorize(r)
    BY <1>1, <2>2 DEF Authorize, Read, Goto, progress, NoResult
  <2>3. CASE AuthorizeFailed(r)
    BY <1>1, <2>3 DEF AuthorizeFailed, Raise, Goto, progress, NoResult, CaughtOutcome
  <2>4. CASE ReadAgain(r)
    BY <1>1, <2>4 DEF ReadAgain, Reading, progress, NoResult
  <2>5. CASE ReadFailed(r)
    BY <1>1, <2>5 DEF ReadFailed, Raise, Goto, progress, NoResult, CaughtOutcome
  <2>6. CASE LookupTarget(r)
    BY <1>1, <2>6 DEF LookupTarget, Read, Return, Goto, progress, NoResult
  <2>7. CASE LookupMissing(r)
    BY <1>1, <2>7 DEF LookupMissing, Raise, Goto, progress, NoResult, CaughtOutcome
  <2>8. CASE ValidateCapability(r)
    BY <1>1, <2>8 DEF ValidateCapability, Raise, Goto, progress, NoResult, CaughtOutcome
  <2>9. CASE RefuseBody(r)
    BY <1>1, <2>9 DEF RefuseBody, Return, Goto, progress, NoResult
  <2>10. CASE SendPost(r)
    BY <1>1, <2>10 DEF SendPost, Goto, progress, NoResult
  <2>11. CASE PostUnresolved(r)
    BY <1>1, <2>11 DEF PostUnresolved, Raise, Goto, progress, NoResult, CaughtOutcome
  <2>12. CASE Timeout(r)
    BY <1>1, <2>12 DEF Timeout, Read, Goto, progress, NoResult
  <2>13. CASE TransportFailed(r)
    BY <1>1, <2>13 DEF TransportFailed, Raise, Goto, progress, NoResult, CaughtOutcome
  <2>14. CASE Accepted(r)
    BY <1>1, <2>14 DEF Accepted, Receive, Read, Goto, progress, NoResult
  <2>15. CASE RetryAfter(r)
    BY <1>1, <2>15 DEF RetryAfter, Receive, Goto, progress, NoResult
  <2>16. CASE Refused(r)
    BY <1>1, <2>16 DEF Refused, Receive, Return, Raise, Goto, progress, NoResult,
       CaughtOutcome
  <2>17. CASE ReconcileFound(r)
    BY <1>1, <2>17 DEF ReconcileFound, RemoteOutcomes, Return, Goto, progress, NoResult
  <2>18. CASE ReconcileAbsent(r)
    BY <1>1, <2>18 DEF ReconcileAbsent, Goto, progress, NoResult
  <2>19. CASE ReconcileUnproven(r)
    BY <1>1, <2>19 DEF ReconcileUnproven, Unknown, Return, Goto, progress, NoResult
  <2>20. CASE Finish(r)
    BY <1>1, <2>20 DEF Finish, Goto, progress, NoResult
  <2>21. CASE SinkRaises(r)
    BY <1>1, <2>21 DEF SinkRaises, Raise, Goto, progress, NoResult, CaughtOutcome
  <2>22. CASE Crash(r)
    BY <1>1, <2>22 DEF Crash, Goto, Terminal, progress, NoResult
  <2>23. QED
    BY <1>2, <2>1, <2>2, <2>3, <2>4, <2>5, <2>6, <2>7, <2>8, <2>9, <2>10, <2>11, <2>12,
       <2>13, <2>14, <2>15, <2>16, <2>17, <2>18, <2>19, <2>20, <2>21, <2>22 DEF RunStep

\* No step of the system makes a run that only looked send something.
LEMMA NextQuiet == IInv /\ QuietInv /\ [Next]_vars => QuietInv'
<1> SUFFICES ASSUME IInv, QuietInv, [Next]_vars, NEW q \in Runs
             PROVE  result'[q].outcome \in {"DRY_RUN", "READ_ONLY"} => attempt'[q] = 0
  BY DEF QuietInv
<1>1. TypeOK /\ Phased
  BY DEF IInv
<1>2. ASSUME NEW r \in Runs, Start(r) \/ RunStep(r) \/ Crash(r)
      PROVE  result'[q].outcome \in {"DRY_RUN", "READ_ONLY"} => attempt'[q] = 0
  <2>1. Private(r)
    BY <1>1, <1>2, RunFrame
  <2>2. QED
    BY <1>2, <2>1, QuietKept DEF Private, QuietInv
<1>3. CASE result' = result /\ attempt' = attempt
  BY <1>3 DEF QuietInv
<1>4. ASSUME NEW m \in wire, Network(m) PROVE result' = result /\ attempt' = attempt
  BY <1>1, <1>4, NetworkFrame DEF Remote
<1>5. ASSUME NEW p \in Plans, BuildPlan(p) PROVE result' = result /\ attempt' = attempt
  BY <1>5 DEF BuildPlan, progress
<1>6. CASE OtherEdit \/ Withdraw \/ UNCHANGED vars
  BY <1>3, <1>6 DEF OtherEdit, Withdraw, progress, vars
<1>7. QED
  BY <1>2, <1>3, <1>4, <1>5, <1>6 DEF Next

-----------------------------------------------------------------------------
(* What the caller sees of a step *)

\* What the contract is about: the keys delivered, the runs that wrote, and
\* what each run has claimed.
DeliveredKeys == {Key(w.run) : w \in writes}
Writers == {w.run : w \in writes}
ClaimOf == [r \in Runs |-> Claimed(r)]

\* The caller sees nothing of a step.
Unseen == DeliveredKeys' = DeliveredKeys /\ Writers' = Writers /\ ClaimOf' = ClaimOf

\* Nothing is seen unless a write is applied or a run ends.
LEMMA UnseenStep ==
    ASSUME writes' = writes,
           \A q \in Runs :
               \/ pc'[q] = pc[q] /\ result'[q] = result[q]
               \/ pc[q] # "done" /\ pc'[q] # "done"
    PROVE  Unseen
<1>1. DeliveredKeys' = DeliveredKeys /\ Writers' = Writers
  BY DEF DeliveredKeys, Writers, Key
<1>2. \A q \in Runs : Claimed(q)' = Claimed(q)
  BY DEF Claimed
<1>3. QED
  BY <1>1, <1>2 DEF Unseen, ClaimOf

\* A run ends with Finish.
LEMMA EndsWithFinish ==
    ASSUME TypeOK, NEW r \in Runs, Start(r) \/ RunStep(r) \/ Crash(r), ~Finish(r)
    PROVE  pc[r] # "done" /\ pc'[r] # "done"
<1>1. pc \in [Runs -> PCs]
  BY DEF TypeOK
<1>2. Start(r) \/ RunStep(r) \/ Crash(r)
  OBVIOUS
<1>3. QED
  <2>1. CASE Start(r)
    BY <1>1, <2>1 DEF Start, Admitted, Gate, Return, Raise, Goto, CaughtOutcome
  <2>2. CASE Authorize(r)
    BY <1>1, <2>2 DEF Authorize, Read, Goto
  <2>3. CASE AuthorizeFailed(r)
    BY <1>1, <2>3 DEF AuthorizeFailed, Raise, Goto, CaughtOutcome
  <2>4. CASE ReadAgain(r)
    BY <1>1, <2>4 DEF ReadAgain, Reading
  <2>5. CASE ReadFailed(r)
    BY <1>1, <2>5 DEF ReadFailed, Raise, Goto, CaughtOutcome
  <2>6. CASE LookupTarget(r)
    BY <1>1, <2>6 DEF LookupTarget, Read, Return, Goto
  <2>7. CASE LookupMissing(r)
    BY <1>1, <2>7 DEF LookupMissing, Raise, Goto, CaughtOutcome
  <2>8. CASE ValidateCapability(r)
    BY <1>1, <2>8 DEF ValidateCapability, Raise, Goto, CaughtOutcome
  <2>9. CASE RefuseBody(r)
    BY <1>1, <2>9 DEF RefuseBody, Return, Goto
  <2>10. CASE SendPost(r)
    BY <1>1, <2>10 DEF SendPost, Goto
  <2>11. CASE PostUnresolved(r)
    BY <1>1, <2>11 DEF PostUnresolved, Raise, Goto, CaughtOutcome
  <2>12. CASE Timeout(r)
    BY <1>1, <2>12 DEF Timeout, Read, Goto
  <2>13. CASE TransportFailed(r)
    BY <1>1, <2>13 DEF TransportFailed, Raise, Goto, CaughtOutcome
  <2>14. CASE Accepted(r)
    BY <1>1, <2>14 DEF Accepted, Receive, Read, Goto
  <2>15. CASE RetryAfter(r)
    BY <1>1, <2>15 DEF RetryAfter, Receive, Goto
  <2>16. CASE Refused(r)
    BY <1>1, <2>16 DEF Refused, Receive, Return, Raise, Goto, CaughtOutcome
  <2>17. CASE ReconcileFound(r)
    BY <1>1, <2>17 DEF ReconcileFound, RemoteOutcomes, Return, Goto
  <2>18. CASE ReconcileAbsent(r)
    BY <1>1, <2>18 DEF ReconcileAbsent, Goto
  <2>19. CASE ReconcileUnproven(r)
    BY <1>1, <2>19 DEF ReconcileUnproven, Unknown, Return, Goto
  <2>20. CASE Finish(r)
    BY <1>1, <2>20 DEF Finish, Goto
  <2>21. CASE SinkRaises(r)
    BY <1>1, <2>21 DEF SinkRaises, Raise, Goto, CaughtOutcome
  <2>22. CASE Crash(r)
    BY <1>1, <2>22 DEF Crash, Goto, Terminal
  <2>23. QED
    BY <1>2, <2>1, <2>2, <2>3, <2>4, <2>5, <2>6, <2>7, <2>8, <2>9, <2>10, <2>11, <2>12,
       <2>13, <2>14, <2>15, <2>16, <2>17, <2>18, <2>19, <2>20, <2>21, <2>22 DEF RunStep

\* A run that ends claims what is so.
LEMMA FinishClaims ==
    ASSUME IInv, QuietInv, NEW r \in Runs, Finish(r)
    PROVE  \E c \in Contract!Claims \ {"none"} : Contract!Claim(r, c)
<1>1. pc \in [Runs -> PCs] /\ result' = result /\ writes' = writes /\ pc' = [pc EXCEPT ![r] = "done"]
      /\ pc[r] = "finish"
  BY DEF IInv, TypeOK, Finish, Goto, external
<1> DEFINE c == Claimed(r)'
<1>2. /\ ClaimOf[r] = "none"
      /\ \A q \in Runs \ {r} : Claimed(q)' = Claimed(q)
  BY <1>1 DEF ClaimOf, Claimed
<1>3. ClaimOf' = [ClaimOf EXCEPT ![r] = c]
  BY <1>2 DEF ClaimOf
<1>4. DeliveredKeys' = DeliveredKeys /\ Writers' = Writers
  BY <1>1 DEF DeliveredKeys, Writers, Key
<1>5. c \in Contract!Claims \ {"none"}
  BY <1>1 DEF Claimed, Contract!Claims
<1>6. c = "verified" => Key(r) \in DeliveredKeys
  <2>1. c = "verified" => result[r].outcome \in Verified
    BY <1>1 DEF Claimed
  <2>2. result[r].outcome \in Verified => Delivered(Key(r))
    BY DEF IInv, VerifiedIsDelivered
  <2>3. QED
    BY <2>1, <2>2 DEF Delivered, DeliveredKeys
<1>7. c \in {"quiet", "conflict"} => r \notin Writers
  <2>1. /\ c = "quiet" => result[r].outcome \in {"DRY_RUN", "READ_ONLY"}
        /\ c = "conflict" => result[r].outcome = "CONFLICT"
    BY <1>1 DEF Claimed
  <2>2. CASE c = "quiet"
    <3>1. attempt[r] = 0
      BY <2>1, <2>2 DEF QuietInv
    <3>2. QED
      BY <3>1, AttemptsAssumption DEF IInv, TypeOK, Accounted, Writers
  <2>3. CASE c = "conflict"
    BY <2>1, <2>3 DEF IInv, RejectionsFinal, Rejected, WroteBy, Writers
  <2>4. QED
    BY <2>2, <2>3
<1> HIDE DEF c
<1>8. Contract!Claim(r, c)
  BY <1>2, <1>3, <1>4, <1>6, <1>7 DEF Contract!Claim, ClaimOf, DeliveredKeys, Writers
<1>9. QED
  BY <1>5, <1>8

\* The gateway writes a key that is not delivered, for a run that may write.
LEMMA WriteIsAllowed ==
    ASSUME IInv, QuietInv, NEW m \in wire, GatewayWrite(m)
    PROVE  m.run \in Runs /\ Contract!Write(m.run)
<1> DEFINE r == m.run
           w == [run |-> r, attempt |-> m.attempt, base |-> count]
<1>1. /\ TypeOK /\ r \in Runs /\ m.attempt \in 1..Attempts /\ m.attempt <= attempt[r]
      /\ attempt[r] \in 0..Attempts
  BY DEF IInv, TypeOK, Posts, Accounted
<1>2. attempt[r] > 0
  BY <1>1, AttemptsAssumption
<1>3. gw.unique /\ ~Delivered(Key(r)) /\ open /\ ~Stale(m) /\ gw.cas
  BY <1>1, <1>2 DEF IInv, Phased, Attested, GatewayWrite, Replayed
<1>4. ~(result[r].outcome = "CONFLICT")
  <2>1. ASSUME result[r].outcome = "CONFLICT" PROVE FALSE
    <3>1. Enrich(r) /\ count > Expected(r)
      BY <1>1, <1>3, <2>1 DEF IInv, RejectionsFinal, Rejected, NothingPending
    <3>2. count \in Nat /\ Expected(r) \in Int
      BY <1>1, PlansAssumption DEF TypeOK, Expected, Unset
    <3>3. QED
      BY <1>3, <3>1, <3>2 DEF Stale
  <2>2. QED
    BY <2>1
<1>5. result[r].outcome \notin {"DRY_RUN", "READ_ONLY"}
  BY <1>1, <1>2 DEF QuietInv
<1>6. ClaimOf[r] \notin {"quiet", "conflict"}
  BY <1>1, <1>4, <1>5 DEF ClaimOf, Claimed
<1>7. Key(r) \notin DeliveredKeys
  BY <1>3 DEF Delivered, DeliveredKeys
<1>8. writes' = writes \cup {w} /\ pc' = pc /\ result' = result
  BY DEF GatewayWrite
<1>9. DeliveredKeys' = DeliveredKeys \cup {Key(r)} /\ Writers' = Writers \cup {r}
  <2>1. w.run = r
    OBVIOUS
  <2> HIDE DEF r, w
  <2>2. DeliveredKeys' = {Key(v.run) : v \in writes'} /\ Writers' = {v.run : v \in writes'}
    BY DEF DeliveredKeys, Writers, Key
  <2>3. QED
    BY <1>8, <2>1, <2>2 DEF DeliveredKeys, Writers
<1>10. ClaimOf' = ClaimOf
  BY <1>8 DEF ClaimOf, Claimed
<1>11. Contract!Write(r)
  BY <1>6, <1>7, <1>9, <1>10 DEF Contract!Write, ClaimOf, DeliveredKeys, Writers
<1>12. QED
  BY <1>1, <1>11

-----------------------------------------------------------------------------
(* The simulation *)

\* The initial state is one of the contract.
LEMMA InitRefines == Init => Contract!Init
BY DEF Init, Contract!Init, Claimed

\* Every step is a step of the contract, or a stutter.
LEMMA NextRefines == IInv /\ QuietInv /\ [Next]_vars => [Contract!Next]_(Contract!vars)
<1> SUFFICES ASSUME IInv, QuietInv, [Next]_vars
             PROVE  Contract!Next \/ Unseen
  BY DEF Contract!vars, Unseen, DeliveredKeys, Writers, ClaimOf
<1>1. TypeOK /\ Phased
  BY DEF IInv
<1>2. ASSUME NEW r \in Runs, Finish(r) PROVE Contract!Next
  BY <1>2, FinishClaims DEF Contract!Next
<1>3. ASSUME NEW r \in Runs, Start(r) \/ RunStep(r) \/ Crash(r), ~Finish(r) PROVE Unseen
  <2>1. Private(r) /\ pc[r] # "done" /\ pc'[r] # "done"
    BY <1>1, <1>3, RunFrame, EndsWithFinish
  <2>2. QED
    BY <2>1, UnseenStep DEF Private
<1>4. ASSUME NEW m \in wire, GatewayWrite(m) PROVE Contract!Next
  BY <1>4, WriteIsAllowed DEF Contract!Next
<1>5. ASSUME NEW m \in wire, Network(m), ~GatewayWrite(m) PROVE Unseen
  BY <1>1, <1>5, NetworkFrame, UnseenStep DEF Remote
<1>6. ASSUME NEW p \in Plans, BuildPlan(p) PROVE Unseen
  BY <1>6, UnseenStep DEF BuildPlan, external
<1>7. CASE OtherEdit \/ Withdraw \/ UNCHANGED vars
  BY <1>7, UnseenStep DEF OtherEdit, Withdraw, vars
<1>8. QED
  BY <1>2, <1>3, <1>4, <1>5, <1>6, <1>7 DEF Next

\* execute implements the contract for any runs, plans, keys, network and
\* editors: each write is the first of its key, by a run that has not claimed a
\* conflict or a mere look, and each run makes one claim, which stays true.
THEOREM Refinement == Spec => ContractHolds
<1>1. Init => QuietInv
  BY DEF Init, QuietInv, NoResult
<1>2. IInv /\ QuietInv /\ [Next]_vars => QuietInv'
  BY NextQuiet
<1>3. Init => Contract!Init
  BY InitRefines
<1>4. IInv /\ QuietInv /\ [Next]_vars => [Contract!Next]_(Contract!vars)
  BY NextRefines
<1>5. QED
  BY <1>1, <1>2, <1>3, <1>4, Invariance, PTL DEF Spec, ContractHolds, Contract!Spec

-----------------------------------------------------------------------------
(* Plans: what validation makes of two of them *)

\* A request that passed names its record in exactly one way.
LEMMA OneTarget ==
    ASSUME NEW r, NEW t, ValidRequest(r), ValidRequest(t), r.operation = t.operation
    PROVE  TargetOrModel(r.target, r.creation) = TargetOrModel(t.target, t.creation)
               <=> r.target = t.target /\ r.creation = t.creation
BY DEF ValidRequest, TargetOrModel

\* Two valid plans have the same key just when they are the same delivery.
LEMMA KeyCovers ==
    ASSUME NEW p, NEW q, Valid(p), Valid(q)
    PROVE  p.request.idempotency_key = q.request.idempotency_key <=> SameDelivery(p, q)
<1>1. /\ p.request.idempotency_key =
           DeliveryKey(p.request.operation, p.request.alias,
                       TargetOrModel(p.request.target, p.request.creation),
                       p.request.assessment_id, p.evidence.sha256, p.mapping, p.mapped_fields)
      /\ q.request.idempotency_key =
           DeliveryKey(q.request.operation, q.request.alias,
                       TargetOrModel(q.request.target, q.request.creation),
                       q.request.assessment_id, q.evidence.sha256, q.mapping, q.mapped_fields)
  BY DEF Valid, ValidIdentities, ValidEvidence
<1>2. p.request.idempotency_key = q.request.idempotency_key
        <=> /\ p.request.operation = q.request.operation
            /\ p.request.alias = q.request.alias
            /\ TargetOrModel(p.request.target, p.request.creation) =
               TargetOrModel(q.request.target, q.request.creation)
            /\ p.request.assessment_id = q.request.assessment_id
            /\ p.evidence.sha256 = q.evidence.sha256
            /\ p.mapping = q.mapping
            /\ p.mapped_fields = q.mapped_fields
  BY <1>1 DEF DeliveryKey
<1>3. p.request.operation = q.request.operation =>
        (TargetOrModel(p.request.target, p.request.creation) =
         TargetOrModel(q.request.target, q.request.creation)
             <=> p.request.target = q.request.target /\ p.request.creation = q.request.creation)
  BY OneTarget DEF Valid
<1>4. QED
  BY <1>2, <1>3 DEF SameDelivery

\* Two valid plans have the same request_id just when they are also of the same
\* mode and version.
LEMMA RequestCovers ==
    ASSUME NEW p, NEW q, Valid(p), Valid(q)
    PROVE  p.request.request_id = q.request.request_id <=>
               /\ SameDelivery(p, q)
               /\ p.request.dry_run = q.request.dry_run
               /\ p.request.version = q.request.version
<1>1. /\ p.request.request_id =
           RequestId(p.request.idempotency_key, p.request.dry_run, p.request.version)
      /\ q.request.request_id =
           RequestId(q.request.idempotency_key, q.request.dry_run, q.request.version)
  BY DEF Valid, ValidIdentities
<1>2. p.request.request_id = q.request.request_id <=>
        /\ p.request.idempotency_key = q.request.idempotency_key
        /\ p.request.dry_run = q.request.dry_run
        /\ p.request.version = q.request.version
  BY <1>1 DEF RequestId
<1>3. QED
  BY <1>2, KeyCovers

-----------------------------------------------------------------------------
(* Every key and every origin that is held has been built *)

Parts == {"request", "mapping", "mapped_fields", "evidence"}

BuiltKey(key) == \E c \in built : PlanFor(c).request.idempotency_key = key

BuiltOrigin(origin) == \E c \in built : c.origin = origin

\* A request that holds a key and an origin, each from a call of build.
FromBuilt(request) ==
    /\ {"idempotency_key", "origin"} \subseteq DOMAIN request
    /\ BuiltKey(request.idempotency_key)
    /\ BuiltOrigin(request.origin)

\* However plans are altered, keys and origins are never computed, only copied.
HeldInv == \A p \in held : DOMAIN p = Parts /\ FromBuilt(p.request)

BuiltInv == \A c \in built : Buildable(c) /\ Valid(PlanFor(c))

ExecutedInv == executed \subseteq held /\ \A p \in executed : Valid(p)

PlanInv == HeldInv /\ BuiltInv /\ ExecutedInv

\* Calls are only added: what is from build stays so.
LEMMA StillFromBuilt ==
    ASSUME built \subseteq built', NEW request, FromBuilt(request)
    PROVE  FromBuilt(request)'
BY DEF FromBuilt, BuiltKey, BuiltOrigin

\* A request of which one field is taken from another one.
LEMMA MixedFromBuilt ==
    ASSUME NEW a, NEW b, FromBuilt(a), FromBuilt(b), NEW field \in DOMAIN a
    PROVE  FromBuilt([a EXCEPT ![field] = b[field]])
<1> DEFINE x == [a EXCEPT ![field] = b[field]]
<1>1. {"idempotency_key", "origin"} \subseteq DOMAIN x
  BY DEF FromBuilt
<1>2. x.idempotency_key \in {a.idempotency_key, b.idempotency_key}
  BY DEF FromBuilt
<1>3. x.origin \in {a.origin, b.origin}
  BY DEF FromBuilt
<1> HIDE DEF x
<1>4. FromBuilt(x)
  BY <1>1, <1>2, <1>3 DEF FromBuilt
<1>5. QED
  BY <1>4 DEF x

\* A plan that takes a field of its request from another one takes what was built.
LEMMA AlterKeepsKeys ==
    ASSUME HeldInv, NEW p \in held, NEW q \in held,
           NEW part \in {"request", "evidence"}, NEW field \in DOMAIN p[part],
           Alter(p, q, part, field)
    PROVE  HeldInv'
<1> DEFINE y == [p[part] EXCEPT ![field] = q[part][field]]
           x == [p EXCEPT ![part] = y]
<1>1. held' = held \cup {x} /\ built' = built
  BY DEF Alter
<1>2. DOMAIN p = Parts /\ FromBuilt(p.request) /\ FromBuilt(q.request)
  BY DEF HeldInv
<1>3. part = "request" => FromBuilt(y)
  BY <1>2, MixedFromBuilt
<1>4. DOMAIN x = Parts /\ x.request = IF part = "request" THEN y ELSE p.request
  <2> HIDE DEF y
  <2>1. QED
    BY <1>2 DEF Parts
<1> HIDE DEF x, y
<1>5. FromBuilt(x.request)
  BY <1>2, <1>3, <1>4
<1>6. QED
  BY <1>1, <1>4, <1>5, StillFromBuilt DEF HeldInv

LEMMA ExchangeKeepsKeys ==
    ASSUME HeldInv, NEW p \in held, NEW q \in held, NEW part \in DOMAIN p,
           Exchange(p, q, part)
    PROVE  HeldInv'
<1> DEFINE x == [p EXCEPT ![part] = q[part]]
<1>1. held' = held \cup {x} /\ built' = built
  BY DEF Exchange
<1>2. DOMAIN p = Parts /\ FromBuilt(p.request) /\ FromBuilt(q.request)
  BY DEF HeldInv
<1>3. DOMAIN x = Parts /\ (x.request = p.request \/ x.request = q.request)
  BY <1>2 DEF Parts
<1> HIDE DEF x
<1>4. FromBuilt(x.request)
  BY <1>2, <1>3
<1>5. QED
  BY <1>1, <1>3, <1>4, StillFromBuilt DEF HeldInv

\* The invariant holds along every behaviour.
LEMMA PlanInvariance == PlanSpec => []PlanInv
<1>1. PlanInit => PlanInv
  BY DEF PlanInit, PlanInv, HeldInv, BuiltInv, ExecutedInv
<1>2. PlanInv /\ [PlanNext]_planVars => PlanInv'
  <2> SUFFICES ASSUME PlanInv, [PlanNext]_planVars PROVE PlanInv'
    OBVIOUS
  <2>1. ASSUME NEW c \in Calls, Build(c) PROVE PlanInv'
    <3>1. /\ built' = built \cup {c} /\ held' = held \cup {PlanFor(c)}
          /\ executed' = executed /\ Buildable(c) /\ Valid(PlanFor(c))
      BY <2>1 DEF Build
    <3>2. /\ DOMAIN PlanFor(c) = Parts /\ PlanFor(c).request.origin = c.origin
          /\ {"idempotency_key", "origin"} \subseteq DOMAIN PlanFor(c).request
      BY DEF PlanFor, RequestOf, Parts
    <3>3. FromBuilt(PlanFor(c).request)'
      BY <3>1, <3>2 DEF FromBuilt, BuiltKey, BuiltOrigin
    <3>4. HeldInv'
      BY <3>1, <3>2, <3>3, StillFromBuilt DEF PlanInv, HeldInv
    <3>5. QED
      BY <3>1, <3>4 DEF PlanInv, BuiltInv, ExecutedInv
  <2>2. ASSUME NEW p \in held, NEW q \in held, NEW part \in DOMAIN p, Exchange(p, q, part)
        PROVE  PlanInv'
    BY <2>2, ExchangeKeepsKeys DEF Exchange, PlanInv, BuiltInv, ExecutedInv
  <2>3. ASSUME NEW p \in held, NEW q \in held, NEW part \in {"request", "evidence"},
               NEW field \in DOMAIN p[part], Alter(p, q, part, field)
        PROVE  PlanInv'
    BY <2>3, AlterKeepsKeys DEF Alter, PlanInv, BuiltInv, ExecutedInv
  <2>4. ASSUME NEW p \in held, Execute(p) PROVE PlanInv'
    <3>1. HeldInv'
      BY <2>4, StillFromBuilt DEF Execute, PlanInv, HeldInv
    <3>2. QED
      BY <2>4, <3>1 DEF Execute, PlanInv, BuiltInv, ExecutedInv
  <2>5. CASE UNCHANGED planVars
    <3>1. HeldInv'
      BY <2>5, StillFromBuilt DEF planVars, PlanInv, HeldInv
    <3>2. QED
      BY <2>5, <3>1 DEF planVars, PlanInv, BuiltInv, ExecutedInv
  <2>6. QED
    BY <2>1, <2>2, <2>3, <2>4, <2>5 DEF PlanNext
<1>3. QED
  BY <1>1, <1>2, PTL DEF PlanSpec

-----------------------------------------------------------------------------
(* The identities *)

\* The delivery key of what is executed says exactly which delivery it is, under
\* which alias but not to which instance, and the request_id adds the mode and the
\* version to that.
THEOREM IdentitiesExact == PlanSpec => []IdentitiesAreExact
<1>1. PlanInv => KeyIsTheDelivery
  BY KeyCovers DEF PlanInv, ExecutedInv, KeyIsTheDelivery
<1>2. PlanInv => RequestIsTheExecution
  BY RequestCovers DEF PlanInv, ExecutedInv, RequestIsTheExecution
<1>3. PlanInv => IdentitiesAreExact
  BY <1>1, <1>2 DEF IdentitiesAreExact
<1>4. QED
  BY <1>3, PlanInvariance, PTL

\* Alterations, however many, never make a delivery that build has not made, nor
\* send one to an instance that no call of build has named.
THEOREM NothingInvented == PlanSpec => []OnlyBuiltDeliveries
<1>1. PlanInv => OnlyBuiltDeliveries
  <2> SUFFICES ASSUME PlanInv, NEW p \in executed
               PROVE  /\ \E c \in built : SameDelivery(p, PlanFor(c))
                      /\ \E c \in built : p.request.origin = c.origin
    BY DEF OnlyBuiltDeliveries
  <2>1. FromBuilt(p.request)
    BY DEF PlanInv, HeldInv, ExecutedInv
  <2>2. PICK c \in built : PlanFor(c).request.idempotency_key = p.request.idempotency_key
    BY <2>1 DEF FromBuilt, BuiltKey
  <2>3. Valid(p) /\ Valid(PlanFor(c))
    BY DEF PlanInv, BuiltInv, ExecutedInv
  <2>4. SameDelivery(p, PlanFor(c))
    BY <2>2, <2>3, KeyCovers
  <2>5. \E d \in built : p.request.origin = d.origin
    BY <2>1 DEF FromBuilt, BuiltOrigin
  <2>6. QED
    BY <2>4, <2>5
<1>2. QED
  BY <1>1, PlanInvariance, PTL

\* What only build looks at still holds of what is executed: the key carries it.
THEOREM MappingIsKept == PlanSpec => []WithinMapping
<1>1. PlanInv /\ OnlyBuiltDeliveries => WithinMapping
  <2> SUFFICES ASSUME PlanInv, OnlyBuiltDeliveries, NEW p \in executed
               PROVE  /\ p.request.operation = "create_draft" =>
                             p.mapping.create_draft
                             /\ p.request.creation.model \in p.mapping.models
                      /\ p.evidence.mode = "attachment" =>
                             p.evidence.document.content.size
                                 <= p.mapping.attachment_max_bytes
    BY DEF WithinMapping
  <2>1. PICK c \in built : SameDelivery(p, PlanFor(c))
    BY DEF OnlyBuiltDeliveries
  <2>2. Buildable(c) /\ Valid(p)
    BY DEF PlanInv, BuiltInv, ExecutedInv
  <2>3. /\ p.request.operation = c.operation /\ p.request.creation = CreationOf(c)
        /\ p.mapping = c.mapping /\ p.evidence.sha256 = c.report.integrity
    BY <2>1 DEF SameDelivery, PlanFor, RequestOf
  <2>4. ASSUME p.request.operation = "create_draft"
        PROVE  p.mapping.create_draft /\ p.request.creation.model \in p.mapping.models
    <3>1. DraftAllowed(c)
      BY <2>2, <2>3, <2>4 DEF Buildable, EnrichAllowed
    <3>2. QED
      BY <2>3, <2>4, <3>1 DEF DraftAllowed, CreationOf
  <2>5. ASSUME p.evidence.mode = "attachment"
        PROVE  p.evidence.document.content.size <= p.mapping.attachment_max_bytes
    <3>1. p.evidence.document.content = c.report.content
      BY <2>2, <2>3, <2>5 DEF Valid, ValidEvidence, ValidReport, Buildable
    <3>2. QED
      BY <2>2, <2>3, <3>1 DEF Buildable, EvidenceAllowed
  <2>6. QED
    BY <2>4, <2>5
<1>2. QED
  BY <1>1, PlanInvariance, NothingInvented, PTL

=============================================================================
