------------------------------- MODULE Scanners -------------------------------
(***************************************************************************)
(* What the scanners make of a Terraform plan (terraform_plan.py), of its  *)
(* text (scanners.py) and of Kubernetes manifests (kubernetes_manifest.py).*)
(*                                                                         *)
(* A plan is [version, errored, oversized, changes], a resource change     *)
(* [address, type, actions, after], and `after` a set of leaves [field,    *)
(* public, mask]: the kind of attribute, whether it opens the resource,    *)
(* and what the sensitive and unknown masks say of it.  The many resource  *)
(* types of one rule are one type here.                                    *)
(*                                                                         *)
(* A Kubernetes object is a record of the fields the rules look at, with   *)
(* the value the rules treat as absent where the manifest has no such      *)
(* field; kind is what casefold makes of it, and spelled whether the       *)
(* document the object stands in writes its kind as Kubernetes does.       *)
(***************************************************************************)
EXTENDS Integers, FiniteSets, Sequences, SequencesExt

CONSTANT ScanError       \* TerraformPlanError and KubernetesManifestError

Finding(id, score) == [id |-> id, score |-> score]

When(holds, id, score) == IF holds THEN << Finding(id, score) >> ELSE <<>>

\* sorted() of Python: in the order of a field, what is equal in it as it was.
SortedBy(s, field) ==
    LET order == CHOOSE p \in [DOMAIN s -> DOMAIN s] :
                     /\ IsInjective(p)
                     /\ \A i, j \in DOMAIN s : i < j =>
                            \/ s[p[i]][field] < s[p[j]][field]
                            \/ s[p[i]][field] = s[p[j]][field] /\ p[i] < p[j] IN
    [i \in DOMAIN s |-> s[order[i]]]

(* --------------------------- Terraform plans --------------------------- *)

SupportedActions ==
    {<<"no-op">>, <<"create">>, <<"read">>, <<"update">>, <<"delete">>,
     <<"delete", "create">>, <<"create", "delete">>}

NonMutating == {<<"no-op">>, <<"read">>}

ResourceRule ==
    [iam_policy |-> Finding("terraform-iam-policy-change", 30),
     iam_role |-> Finding("terraform-iam-role-change", 30),
     iam_membership |-> Finding("terraform-cloud-iam-change", 30),
     security_group |-> Finding("terraform-security-group-change", 25),
     firewall |-> Finding("terraform-firewall-change", 25),
     database |-> Finding("terraform-db-instance-change", 25),
     public_ip |-> Finding("terraform-public-ip-exposure", 25),
     dns |-> Finding("terraform-dns-change", 25),
     key |-> Finding("terraform-kms-change", 25)]

\* A mask that does not have the shape of the value refuses the plan.
ValidMasks(resource) == \A leaf \in resource.after : leaf.mask # "other_shape"

\* What the masks leave of a resource: a public value that is sensitive or
\* not yet known is no evidence.
Unmasked(resource) == {leaf \in resource.after : leaf.mask = "none"}

ValidResource(resource) == resource.actions \in SupportedActions /\ ValidMasks(resource)

\* Bytes, depth, nodes and strings of the document.
WithinBudget(plan) == ~plan.oversized

\* Only the major version counts.
SupportedVersion(plan) == plan.version = "1"

\* parse_terraform_plan_json: the whole plan or nothing.
ValidPlan(plan) ==
    /\ WithinBudget(plan)
    /\ SupportedVersion(plan)
    /\ ~plan.errored
    /\ \A i \in DOMAIN plan.changes : ValidResource(plan.changes[i])

\* An address range under the name of a range, a flag, or a word for public.
ExposingFields == {"cidr", "boolean", "enum"}

\* One finding for each attribute that opens the resource.
PublicExposures(resource) ==
    {leaf \in Unmasked(resource) : leaf.public /\ leaf.field \in ExposingFields}

DeleteFindings(actions) ==
    When("delete" \in ToSet(actions) /\ "create" \in ToSet(actions), "terraform-replace-action", 30)
    \o When("delete" \in ToSet(actions) /\ "create" \notin ToSet(actions), "terraform-destroy-action", 40)

ResourceFindings(resource) ==
    DeleteFindings(resource.actions)
    \o IF resource.actions \in NonMutating THEN <<>>
       ELSE (IF resource.type \in DOMAIN ResourceRule THEN <<ResourceRule[resource.type]>> ELSE <<>>)
            \o [i \in 1..Cardinality(PublicExposures(resource)) |->
                    Finding("terraform-public-exposure", 35)]

ByAddress(resources) == SortedBy(resources, "address")

\* Findings are sorted by address; the order of those of one resource is left
\* out, as nothing depends on it.
ScanTerraformJson(plan) ==
    IF ~ValidPlan(plan) THEN ScanError
    ELSE LET sorted == ByAddress(plan.changes) IN
         FlattenSeq([i \in DOMAIN sorted |-> ResourceFindings(sorted[i])])

\* The keywords of the human-readable text, in the order of the table.
TextSignals ==
    << <<"iam_policy", "terraform-iam-policy-change", 30>>,
       <<"iam_role", "terraform-iam-role-change", 30>>,
       <<"gcp_member", "terraform-gcp-iam-member-change", 30>>,
       <<"security_group", "terraform-security-group-change", 25>>,
       <<"firewall", "terraform-firewall-change", 25>>,
       <<"db_instance", "terraform-db-instance-change", 25>>,
       <<"database", "terraform-database-change", 25>>,
       <<"delete", "terraform-delete-action", 30>>,
       <<"destroy", "terraform-destroy-action", 40>>,
       <<"public_ip", "terraform-public-ip-exposure", 25>>,
       <<"bucket", "terraform-bucket-change", 20>>,
       <<"kms", "terraform-kms-change", 25>>,
       <<"dns", "terraform-dns-change", 25>> >>

\* A text is the set of the keywords it contains.
ScanTerraform(text) ==
    FlattenSeq([i \in DOMAIN TextSignals |->
        When(TextSignals[i][1] \in text, TextSignals[i][2], TextSignals[i][3])])

(* -------------------------- Kubernetes manifests ----------------------- *)

ObjectRule ==
    [deployment |-> Finding("kubernetes-deployment-change", 10),
     statefulset |-> Finding("kubernetes-statefulset-change", 20),
     daemonset |-> Finding("kubernetes-daemonset-change", 20),
     job |-> Finding("kubernetes-job-change", 10),
     cronjob |-> Finding("kubernetes-cronjob-change", 10),
     ingress |-> Finding("kubernetes-ingress-change", 25),
     networkpolicy |-> Finding("kubernetes-networkpolicy-change", 25),
     secret |-> Finding("kubernetes-secret-change", 25)]

Workloads == {"deployment", "statefulset", "daemonset", "job", "cronjob"}

\* What tells one object from another.
ObjectIdentity(object) == <<object.api, object.kind, object.namespace, object.name>>

\* The graph of the document: depth, nodes, strings, no cycle of aliases.
BoundedObject(object) == object.bounded

\* The object has a version, a kind, a name and a namespace.
CompleteObject(object) == object.complete

NamedContainers(object) ==
    object.kind \in Workloads => \A c \in ToSet(object.containers) : c.named

\* parse_kubernetes_manifests: all objects or nothing, and no object twice.
ValidManifest(objects) ==
    /\ \A i \in DOMAIN objects :
           BoundedObject(objects[i]) /\ CompleteObject(objects[i]) /\ NamedContainers(objects[i])
    /\ \A i, j \in DOMAIN objects : ObjectIdentity(objects[i]) = ObjectIdentity(objects[j]) => i = j

\* Probes are asked of the application containers of long-running workloads,
\* the other rules see init containers as well.
ContainerFindings(kind, c) ==
    When(c.app /\ kind \in {"deployment", "statefulset", "daemonset"} /\ ~c.readiness,
         "kubernetes-missing-readiness-probe", 15)
    \o When(c.app /\ kind \in {"deployment", "statefulset", "daemonset"} /\ ~c.liveness,
            "kubernetes-missing-liveness-probe", 15)
    \o When(~c.requests, "kubernetes-missing-resource-requests", 10)
    \o When(~c.limits, "kubernetes-missing-resource-limits", 10)
    \o When(c.privileged, "kubernetes-privileged-container", 40)
    \o When(c.escalates, "kubernetes-privilege-escalation", 25)

HostFindings(object) ==
    When("network" \in object.host, "kubernetes-host-network", 25)
    \o When("pid" \in object.host, "kubernetes-host-pid", 25)
    \o When("ipc" \in object.host, "kubernetes-host-ipc", 25)

WorkloadFindings(object) ==
    IF object.kind \notin Workloads THEN <<>>
    ELSE When(~\E c \in ToSet(object.containers) : c.app, "kubernetes-missing-containers", 20)
         \o FlattenSeq([i \in DOMAIN object.containers |->
                ContainerFindings(object.kind, object.containers[i])])
         \o HostFindings(object)

ServiceFindings(object) ==
    When(object.exposes = "LoadBalancer", "kubernetes-loadbalancer-exposure", 25)
    \o When(object.exposes = "NodePort", "kubernetes-nodeport-exposure", 25)
    \o When(object.externalIPs, "kubernetes-service-external-ips", 25)

StrategyFindings(object) ==
    LET kind == object.kind IN
    When(kind \in {"deployment", "statefulset", "replicaset"} /\ object.replicas = "zero",
         "kubernetes-replicas-zero", 30)
    \o When(kind = "deployment" /\ object.strategy = "Recreate", "kubernetes-recreate-strategy", 20)
    \o When(kind = "deployment" /\ object.maxUnavailable = "all", "kubernetes-max-unavailable-all", 30)
    \o When(kind \in {"statefulset", "daemonset"} /\ object.strategy = "OnDelete",
            "kubernetes-ondelete-strategy", 15)
    \o When(kind \in {"job", "cronjob"} /\ object.suspended, "kubernetes-workload-suspended", 20)
    \o When(kind = "job" /\ object.parallelism = "zero", "kubernetes-parallelism-zero", 20)
    \o When(kind = "poddisruptionbudget" /\ object.maxUnavailable = "all",
            "kubernetes-pdb-no-protection", 25)
    \o When(kind = "poddisruptionbudget" /\ object.minAvailable = "zero",
            "kubernetes-pdb-no-protection", 25)

ObjectFindings(object) ==
    (IF object.kind \in DOMAIN ObjectRule THEN <<ObjectRule[object.kind]>> ELSE <<>>)
    \o (IF object.kind = "service" THEN ServiceFindings(object) ELSE <<>>)
    \o StrategyFindings(object)
    \o WorkloadFindings(object)

\* The objects of all documents together, sorted by name.
ScanKubernetes(objects) ==
    LET sorted == SortedBy(objects, "name") IN
    IF ~ValidManifest(objects) THEN ScanError
    ELSE FlattenSeq([i \in DOMAIN sorted |-> ObjectFindings(sorted[i])])
===============================================================================
