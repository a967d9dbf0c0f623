----------------------------- MODULE ChangedFiles -----------------------------
(***************************************************************************)
(* changed_files.py: which of the files a pull request changes are given   *)
(* to the scanners.                                                        *)
(*                                                                         *)
(* A filename is [id, dir, form], where dir is "terraform" or "k8s" if a   *)
(* directory hints at it, and form one of "tf", "tfplan", "plan" (a name   *)
(* of a JSON plan), "json", "yaml", "catalogue", "request" (YAML as well)  *)
(* or "text".  A checkout is a function from the filenames that resolve to *)
(* a file inside it to bodies [type, plan, objects, list]: "plan",         *)
(* "manifest" (list if it is a Kubernetes List), "unreadable" or "other".  *)
(***************************************************************************)
EXTENDS Scanners

CONSTANT NoPlan

(* ---------------------------- classification --------------------------- *)

TerraformRelated(name) == name.form \in {"tf", "tfplan", "plan"} \/ name.dir = "terraform"

Yaml(name) == name.form \in {"yaml", "catalogue", "request"}

\* The kinds discovery knows are fewer than those the scanner has rules for.
KubernetesKinds ==
    {"configmap", "cronjob", "daemonset", "deployment", "ingress", "job", "networkpolicy", "pod",
     "secret", "service", "statefulset"}

\* Discovery compares kinds as they are written, where the scanner does not.
Manifest(body) ==
    /\ body.type = "manifest"
    /\ body.list \/ \E o \in ToSet(body.objects) : o.spelled /\ o.kind \in KubernetesKinds

Unopened(name, tree) == name \notin DOMAIN tree \/ tree[name].type = "unreadable"

\* A file that cannot be opened or read is judged by its name alone.
LooksLikeTerraformPlan(name, tree) ==
    /\ name.form \in {"plan", "json"}
    /\ IF Unopened(name, tree) THEN name.form = "plan" ELSE tree[name].type = "plan"

LooksLikeKubernetes(name, tree) ==
    /\ Yaml(name)
    /\ IF Unopened(name, tree) THEN name.dir = "k8s" ELSE Manifest(tree[name])

Categories(name, tree) ==
    {c \in {"terraform", "kubernetes", "service-catalog", "change-request"} :
        \/ c = "terraform" /\ TerraformRelated(name)
        \/ c = "kubernetes" /\ LooksLikeKubernetes(name, tree)
        \/ c = "service-catalog" /\ name.form = "catalogue"
        \/ c = "change-request" /\ name.form = "request"}

\* A file counts once, however often it is listed, and no order of files is
\* kept: what is found in them is sorted.  A plan counts only under a name that
\* is recognised as Terraform; changes of Terraform without any plan get a
\* warning.  The categories are part of the report, "other" for a file of none.
Classify(files, tree) ==
    LET names == ToSet(files)
        plans == {n \in names : TerraformRelated(n) /\ LooksLikeTerraformPlan(n, tree)} IN
    [plans      |-> plans,
     manifests  |-> {n \in names : LooksLikeKubernetes(n, tree)},
     categories |-> [n \in names |-> Categories(n, tree)],
     warned     |-> (\E n \in names : TerraformRelated(n)) /\ plans = {}]

(* ------------------------------- loading ------------------------------- *)

InCheckout(names, tree) == names \cap DOMAIN tree

\* Exactly one plan is loaded, and parsed at once.
SelectPlan(plans, tree) ==
    IF Cardinality(plans) # 1 THEN NoPlan
    ELSE LET body == tree[CHOOSE n \in plans : TRUE] IN
         IF body.type = "plan" THEN body.plan ELSE ScanError

Joined(manifests, tree) ==
    LET list == SetToSeq(manifests) IN
    FlattenSeq([i \in DOMAIN list |-> tree[list[i]].objects])

\* load_auto_scanner_inputs: the text of all manifests is joined.
LoadAuto(scope, tree) ==
    LET plans     == InCheckout(scope.plans, tree)
        manifests == InCheckout(scope.manifests, tree)
        plan      == SelectPlan(plans, tree) IN
    IF \/ plan = ScanError
       \/ plan # NoPlan /\ ScanTerraformJson(plan) = ScanError
       \/ \E n \in manifests : tree[n].type = "unreadable"
    THEN ScanError
    ELSE [plan    |-> plan,
          objects |-> Joined(manifests, tree),
          warned  |-> scope.warned \/ Cardinality(plans) > 1]

NoAuto == [plan |-> NoPlan, objects |-> <<>>, warned |-> FALSE]

(* ---------------------------- what is scanned -------------------------- *)

\* main of cli.py: an input that is named takes the place of what was found,
\* which must be readable all the same.
Scanned(auto, explicit) ==
    LET plan      == IF explicit.plan # NoPlan THEN explicit.plan ELSE auto.plan
        objects   == IF explicit.objects # <<>> THEN explicit.objects ELSE auto.objects
        structure == IF plan = NoPlan THEN <<>> ELSE ScanTerraformJson(plan)
        manifests == ScanKubernetes(objects) IN
    IF structure = ScanError \/ manifests = ScanError THEN ScanError
    ELSE ScanTerraform(explicit.text) \o structure \o manifests
===============================================================================
