---------------------------- MODULE ServiceNowPlan ----------------------------
(***************************************************************************)
(* Plans of the ServiceNow adapter v2 (servicenow_enterprise.py): how      *)
(* build_servicenow_plan_v2 makes one of a report and a mapping, what its  *)
(* identities cover, and what validate_servicenow_plan_v2 lets execute     *)
(* start with.                                                             *)
(*                                                                         *)
(* A plan is "immutable by contract" only: its parts are dictionaries.     *)
(* Whoever holds plans may put a field or a part of one into another, any  *)
(* number of times, before it is executed.                                 *)
(*                                                                         *)
(* Digests are ideal: the digest of a value is the value.  The formats of  *)
(* names, numbers, URLs and timestamps are left out, and so are the fields *)
(* that every valid mapping has alike.                                     *)
(***************************************************************************)
EXTENDS Integers, Sequences, FiniteSets, SequencesExt, FiniteSetsExt

CONSTANTS
    Calls,            \* the arguments build_servicenow_plan_v2 is called with
    InstanceOrigins,  \* NetworkPolicy.allowed_instance_hosts, as origins
    EvidenceHosts,    \* NetworkPolicy.allowed_evidence_hosts
    EvidenceFields,   \* destinations that the adapter allows: no workflow field
    Marker,           \* what ends a text that was cut, 12 characters in the code
    Blank,            \* a white-space character
    MaxPlans,         \* bound: plans that are held
    Absent            \* None, or a key that is not there

VARIABLES
    built,      \* the calls that returned a plan
    held,       \* the plans somebody holds
    executed    \* the plans execute has started with

planVars == <<built, held, executed>>

Gateway == "evidence_gateway_v1"

Profiles == {Gateway, "change_management_v1"}

(* ------------------------ the report and its fields -------------------- *)

\* A report is valid when its digest and its report_id are those of its content.
ValidReport(r) == r.integrity = r.content /\ r.report_id = r.integrity

Stripped(s) == SubSeq(s, 1, Max({0} \cup {i \in 1..Len(s) : s[i] # Blank}))

\* " ".join(value.split())
Collapsed(s) ==
    Stripped(FoldLeft(LAMBDA done, c : IF c = Blank /\ (done = <<>> \/ Last(done) = Blank)
                                       THEN done ELSE Append(done, c), <<>>, s))

\* A value is a text, or a structure that is written as canonical JSON.
Rendered(v) ==
    IF v = Absent THEN <<>> ELSE IF v.json THEN v.chars ELSE Collapsed(v.chars)

Cut(s, limit) ==
    IF Len(s) <= limit THEN s
    ELSE Stripped(SubSeq(s, 1, Max({0, limit - Len(Marker)}))) \o Marker

\* _map_report: one destination for each semantic field that has something to say.
MapReport(m, sources) ==
    LET said == {s \in DOMAIN m.fields : Rendered(sources[s]) # <<>> \/ ~m.fields[s].omit_empty}
        SourceOf(d) == CHOOSE s \in said : m.fields[s].destination = d IN
    [d \in {m.fields[s].destination : s \in said} |->
        Cut(Rendered(sources[SourceOf(d)]), m.fields[SourceOf(d)].max_length)]

\* The document, and the URL it is published at.
Sources(r, url) ==
    [s \in DOMAIN r.content.sources |->
        IF s # "evidence_url" THEN r.content.sources[s]
        ELSE IF url = Absent THEN Absent ELSE [json |-> FALSE, chars |-> url.chars]]

(* ------------------------------ identities ----------------------------- *)

DeliveryKey(operation, alias, target, assessment, report, mapping, fields) ==
    <<"snv2", operation, alias, target, assessment, report, mapping, fields>>

\* Wrong: the version is not part of the request.
RequestOfAnyVersion(key, dry_run, version) == <<"snreq", key, dry_run>>

RequestId(key, dry_run, version) == <<"snreq", key, dry_run, version>>

(* ---------------------- build_servicenow_plan_v2 ----------------------- *)

\* _validate_mapping_v2
ValidMapping(m) ==
    /\ \A s \in DOMAIN m.fields :
           /\ m.fields[s].destination \in EvidenceFields
           /\ m.fields[s].max_length >= 1
           /\ \A t \in DOMAIN m.fields \ {s} : m.fields[t].destination # m.fields[s].destination
    /\ m.mode \in {"attachment", "https_link", "attachment_or_link"}

\* enrich_existing aims at one record, by its number or by its sys_id, in the
\* version that was looked at.
EnrichAllowed(c) ==
    c.operation = "enrich_existing" /\ Cardinality(c.targets) = 1 /\ c.version # Absent

\* create_draft needs its switch twice, an allowlisted model and an authorization.
DraftAllowed(c) ==
    /\ c.operation = "create_draft"
    /\ c.draft_feature_enabled /\ c.mapping.create_draft
    /\ c.model \in c.mapping.models
    /\ c.authorization # Absent

EvidenceAllowed(c) ==
    /\ c.mode \in {"attachment", "https_link"}
    /\ c.mapping.mode \in {c.mode, "attachment_or_link"}
    /\ IF c.mode = "https_link"
       THEN c.url # Absent /\ c.url.host \in EvidenceHosts \cap c.mapping.hosts
       ELSE c.url = Absent
    /\ c.report.content.size <= c.mapping.attachment_max_bytes

\* The checks build makes before it has a plan.
Buildable(c) ==
    /\ ValidReport(c.report) /\ ValidMapping(c.mapping)
    /\ c.origin \in InstanceOrigins
    /\ c.write_enabled => ~c.dry_run /\ c.profile = Gateway
    /\ c.profile \in Profiles
    /\ EnrichAllowed(c) \/ DraftAllowed(c)
    /\ EvidenceAllowed(c)

TargetOf(c) ==
    IF c.operation = "enrich_existing" THEN CHOOSE t \in c.targets : TRUE ELSE Absent

CreationOf(c) ==
    IF c.operation = "create_draft"
    THEN [model |-> c.model, authorization |-> c.authorization] ELSE Absent

TargetOrModel(target, creation) == IF target # Absent THEN target ELSE creation

RequestOf(c) ==
    LET fields == MapReport(c.mapping, Sources(c.report, c.url))
        key == DeliveryKey(c.operation, c.alias, TargetOrModel(TargetOf(c), CreationOf(c)),
                           c.report.content.assessment_id, c.report.integrity, c.mapping, fields) IN
    [request_id      |-> RequestId(key, c.dry_run, c.version),
     operation       |-> c.operation,
     dry_run         |-> c.dry_run,
     write_enabled   |-> c.write_enabled,
     profile         |-> c.profile,
     alias           |-> c.alias,
     origin          |-> c.origin,
     target          |-> TargetOf(c),
     creation        |-> CreationOf(c),
     assessment_id   |-> c.report.content.assessment_id,
     report_id       |-> c.report.report_id,
     report_sha256   |-> c.report.integrity,
     verdict         |-> c.report.content.verdict,
     profile_id      |-> c.mapping.profile_id,
     mapping_sha256  |-> c.mapping,
     idempotency_key |-> key,
     payload_sha256  |-> fields,
     evidence_mode   |-> c.mode,
     evidence_url    |-> c.url,
     capability      |-> c.capability,
     version         |-> IF c.operation = "enrich_existing" THEN c.version ELSE Absent]

PlanFor(c) ==
    [request       |-> RequestOf(c),
     mapping       |-> c.mapping,
     mapped_fields |-> MapReport(c.mapping, Sources(c.report, c.url)),
     evidence      |-> [mode     |-> c.mode,
                        sha256   |-> c.report.integrity,
                        document |-> IF c.mode = "attachment" THEN c.report ELSE Absent,
                        url      |-> c.url]]

(* --------------------- validate_servicenow_plan_v2 --------------------- *)

\* _validate_request_v2
ValidRequest(r) ==
    /\ r.operation \in {"enrich_existing", "create_draft"}
    /\ r.write_enabled => ~r.dry_run /\ r.profile = Gateway
    /\ r.profile \in Profiles
    /\ (r.operation = "enrich_existing") <=> (r.target # Absent)
    /\ (r.operation = "create_draft") <=> (r.creation # Absent)
    /\ r.report_id = r.report_sha256
    /\ (r.evidence_mode = "https_link") <=> (r.evidence_url # Absent)
    /\ (r.operation = "enrich_existing") <=> (r.version # Absent)

\* Wrong: the identities are computed from the digests that the request carries.
TrustedIdentities(p) ==
    LET r == p.request IN
    /\ r.profile_id = p.mapping.profile_id
    /\ r.idempotency_key = DeliveryKey(r.operation, r.alias, TargetOrModel(r.target, r.creation),
                                       r.assessment_id, r.report_sha256, r.mapping_sha256,
                                       r.payload_sha256)
    /\ r.request_id = RequestId(r.idempotency_key, r.dry_run, r.version)

\* The digests are computed again from the parts, the identities from the digests.
ValidIdentities(p) ==
    LET r == p.request IN
    /\ r.mapping_sha256 = p.mapping /\ r.payload_sha256 = p.mapped_fields
    /\ r.profile_id = p.mapping.profile_id
    /\ r.idempotency_key = DeliveryKey(r.operation, r.alias, TargetOrModel(r.target, r.creation),
                                       r.assessment_id, r.report_sha256, p.mapping, p.mapped_fields)
    /\ r.request_id = RequestId(r.idempotency_key, r.dry_run, r.version)

Fits(p) ==
    \A d \in DOMAIN p.mapped_fields :
        \E s \in DOMAIN p.mapping.fields :
            /\ p.mapping.fields[s].destination = d
            /\ Len(p.mapped_fields[d]) <= p.mapping.fields[s].max_length

ValidEvidence(p) ==
    /\ p.evidence.sha256 = p.request.report_sha256
    /\ \/ /\ p.evidence.mode = "attachment"
          /\ p.evidence.document # Absent
          /\ ValidReport(p.evidence.document)
          /\ p.evidence.document.integrity = p.evidence.sha256
       \/ /\ p.evidence.mode = "https_link"
          /\ p.evidence.url = p.request.evidence_url

Valid(p) ==
    /\ ValidMapping(p.mapping)
    /\ ValidRequest(p.request)
    /\ Fits(p)
    /\ ValidIdentities(p)
    /\ ValidEvidence(p)

(* -------------------------------- steps -------------------------------- *)

PlanInit == built = {} /\ held = {} /\ executed = {}

\* build ends by validating what it has made, and returns it.  A call that it
\* refuses leaves everything as it is.
Build(c) ==
    /\ Cardinality(held) < MaxPlans
    /\ Buildable(c) /\ Valid(PlanFor(c))
    /\ built' = built \cup {c}
    /\ held' = held \cup {PlanFor(c)}
    /\ UNCHANGED executed

\* One field of one part of a plan is given the value it has in another plan.
Alter(p, q, part, field) ==
    /\ Cardinality(held) < MaxPlans
    /\ p[part][field] # q[part][field]
    /\ held' = held \cup {[p EXCEPT ![part] = [p[part] EXCEPT ![field] = q[part][field]]]}
    /\ UNCHANGED <<built, executed>>

\* A whole part is taken from another plan.
Exchange(p, q, part) ==
    /\ Cardinality(held) < MaxPlans
    /\ p[part] # q[part]
    /\ held' = held \cup {[p EXCEPT ![part] = q[part]]}
    /\ UNCHANGED <<built, executed>>

\* execute starts: the plan is valid, its destinations are those of the policy.
\* A plan that is not accepted leaves everything as it is.
Execute(p) ==
    /\ Valid(p)
    /\ p.request.origin \in InstanceOrigins
    /\ p.request.evidence_url # Absent => p.request.evidence_url.host \in EvidenceHosts
    /\ executed' = executed \cup {p}
    /\ UNCHANGED <<built, held>>

PlanNext ==
    \/ \E c \in Calls : Build(c)
    \/ \E p, q \in held :
           \/ \E part \in DOMAIN p : Exchange(p, q, part)
           \/ \E part \in {"request", "evidence"} :
                  \E field \in DOMAIN p[part] : Alter(p, q, part, field)
    \/ \E p \in held : Execute(p)

PlanSpec == PlanInit /\ [][PlanNext]_planVars

(* ------------------------------ properties ----------------------------- *)

\* The delivery a plan asks for: which operation on which record, under which
\* alias, and with which fields and report.  The origin of the instance is not
\* part of it, and neither are the attestation and where the evidence is kept:
\* no identity covers them (identity, request_basis), and execute sends to the
\* origin that the request carries.
SameDelivery(p, q) ==
    /\ \A f \in {"operation", "alias", "target", "creation", "assessment_id"} :
           p.request[f] = q.request[f]
    /\ p.mapping = q.mapping
    /\ p.mapped_fields = q.mapped_fields
    /\ p.evidence.sha256 = q.evidence.sha256

\* The delivery key is the delivery: two plans that execute starts with have the
\* same idempotency_key just when they write the same to the same record of the
\* same alias, however they were put together (validate_servicenow_plan_v2,
\* docs/SERVICENOW_ENTERPRISE_GOLDEN_PATH.md:82-84).
KeyIsTheDelivery ==
    \A p, q \in executed :
        p.request.idempotency_key = q.request.idempotency_key <=> SameDelivery(p, q)

\* The request_id is the delivery in one mode against one version: a preview and
\* the write after it never share one, nor do writes against two versions.
RequestIsTheExecution ==
    \A p, q \in executed :
        p.request.request_id = q.request.request_id <=>
            /\ SameDelivery(p, q)
            /\ p.request.dry_run = q.request.dry_run
            /\ p.request.version = q.request.version

\* The identities of what is executed say exactly which delivery it is: no key
\* covers too little of one, so that a second delivery were taken for a repetition
\* of the first, or too much, so that a repetition were delivered again.
IdentitiesAreExact == KeyIsTheDelivery /\ RequestIsTheExecution

\* Whatever is executed, some call of build has made just that delivery, and some
\* call, maybe another one, has named the instance it is sent to: parts of several
\* plans never add up to a delivery or an instance nobody asked for
\* (validate_servicenow_plan_v2).
OnlyBuiltDeliveries ==
    \A p \in executed :
        /\ \E c \in built : SameDelivery(p, PlanFor(c))
        /\ \E c \in built : p.request.origin = c.origin

\* Executed plans keep within their own mapping: drafts only of its models, and
\* an attached report no longer than it allows, although only build looks.
WithinMapping ==
    \A p \in executed :
        /\ p.request.operation = "create_draft" =>
               p.mapping.create_draft /\ p.request.creation.model \in p.mapping.models
        /\ p.evidence.mode = "attachment" =>
               p.evidence.document.content.size <= p.mapping.attachment_max_bytes

=============================================================================
