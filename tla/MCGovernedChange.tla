--------------------------- MODULE MCGovernedChange ---------------------------
(***************************************************************************)
(* Instances of GovernedChange for TLC: an active bundle with overlays of  *)
(* both priorities, candidates that change one thing each, a pack, a       *)
(* waiver of each kind, and four pull requests.                            *)
(***************************************************************************)
EXTENDS GovernedChange

Database == "database-change"

Overlay(id, priority, field, value, apply) ==
    [id |-> id, priority |-> priority, match |-> field :> {value}, apply |-> apply]

\* Production raises the mandatory control, emergencies need a monitor, and
\* critical services take a part of what production raised back.
Overlays ==
    {Overlay(1, 1, "environment", "production", Weight(Database) :> 60),
     Overlay(2, 1, "change_class", "emergency", Minimum :> 1),
     Overlay(3, 2, "tier", "critical", Weight(Database) :> 35 @@ Weight("production-change") :> 5)}

Current ==
    [digest |-> "current", name |-> "corp", version |-> 1, governed |-> TRUE, status |-> "active",
     signer |-> PolicyKey, effective |-> 0, expires |-> 2,
     base |-> Weight(Database) :> 30 @@ Weight("production-change") :> 20,
     mandatory |-> {Database}, overlays |-> Overlays, evidence |-> "closed"]

Candidate(digest) == [Current EXCEPT !.digest = digest, !.version = 2, !.expires = Never]

\* Candidates: one that lowers the mandatory control for a tier, one that is
\* open and has higher thresholds, one with two overlays that contradict each
\* other, and one that is a draft and gives a weight to another rule.
Lax == [Candidate("lax") EXCEPT
    !.overlays = Overlays \cup {Overlay(4, 3, "tier", "critical", Weight(Database) :> 10)}]
Open == [Candidate("open") EXCEPT
    !.evidence = "open",
    !.base = @ @@ Threshold("low") :> 50 @@ Threshold("medium") :> 70 @@ Threshold("high") :> 90]
Torn == [Candidate("torn") EXCEPT
    !.overlays = Overlays \cup {Overlay(4, 2, "environment", "production", Weight(Database) :> 40)}]
Lighter == [Candidate("lighter") EXCEPT
    !.status = "draft", !.signer = NoSigner,
    !.base = @ @@ Weight("critical-service") :> 10]
Pack == [digest |-> "pack", governed |-> FALSE, name |-> "startup", version |-> 1,
         status |-> "active", signer |-> NoSigner, effective |-> 0, expires |-> Never,
         base |-> Weight("missing-runbook") :> 10 @@ Minimum :> 1,
         mandatory |-> {}, overlays |-> {}, evidence |-> "open"]

AllBundles == {Current, Lax, Open, Torn, Lighter, Pack}

(* ------------------------------- files --------------------------------- *)

Name(id, dir, form) == [id |-> id, dir |-> dir, form |-> form]
PlanFile == Name(1, "", "plan")
OtherPlan == Name(2, "terraform", "json")
Code == Name(3, "terraform", "tf")
Workload == Name(4, "k8s", "yaml")
Exposure == Name(5, "", "yaml")
StrayPlan == Name(6, "", "json")
Agent == Name(7, "", "yaml")
Replicas == Name(8, "", "yaml")

Leaf(field, mask) == [field |-> field, public |-> TRUE, mask |-> mask]

Plan(changes) == [version |-> "1", errored |-> FALSE, oversized |-> FALSE, changes |-> changes]

\* A plan that replaces a database and opens a firewall, one that is refused
\* for its mask, and one that changes nothing.
Risky ==
    Plan(<<[address |-> 2, type |-> "firewall", actions |-> <<"update">>,
            after |-> {Leaf("cidr", "none"), Leaf("boolean", "unknown")}],
           [address |-> 1, type |-> "database", actions |-> <<"delete", "create">>, after |-> {}]>>)
Malformed ==
    Plan(<<[address |-> 1, type |-> "key", actions |-> <<"create">>,
            after |-> {Leaf("enum", "other_shape")}]>>)
Quiet == Plan(<<[address |-> 1, type |-> "database", actions |-> <<"no-op">>, after |-> {}]>>)

Object(kind, name) ==
    [api |-> "v1", kind |-> kind, spelled |-> TRUE, namespace |-> "default", name |-> name, bounded |-> TRUE,
     complete |-> TRUE,
     containers |-> <<>>, host |-> {}, exposes |-> "", externalIPs |-> FALSE, replicas |-> "",
     parallelism |-> "", strategy |-> "", maxUnavailable |-> "", minAvailable |-> "",
     suspended |-> FALSE]

Container(app) ==
    [named |-> TRUE, app |-> app, readiness |-> FALSE, liveness |-> TRUE, requests |-> TRUE,
     limits |-> TRUE, privileged |-> ~app, escalates |-> FALSE]

Deployment ==
    [Object("deployment", 1) EXCEPT !.replicas = "zero", !.host = {"network"},
                                    !.containers = <<Container(TRUE), Container(FALSE)>>]
DaemonSet == [Object("daemonset", 1) EXCEPT !.containers = <<Container(TRUE)>>]

\* No kind that discovery knows, and one it does not know as it is written.
ReplicaSet == [Object("replicaset", 1) EXCEPT !.replicas = "zero"]
CronJob == [Object("cronjob", 2) EXCEPT !.spelled = FALSE, !.suspended = TRUE]

Balancer == [Object("service", 2) EXCEPT !.exposes = "LoadBalancer"]

PlanBody(plan) == [type |-> "plan", plan |-> plan, objects |-> <<>>, list |-> FALSE]
ManifestBody(objects) == [type |-> "manifest", plan |-> NoPlan, objects |-> objects, list |-> FALSE]
OtherBody == [type |-> "other", plan |-> NoPlan, objects |-> <<>>, list |-> FALSE]
Unreadable == [type |-> "unreadable", plan |-> NoPlan, objects |-> <<>>, list |-> FALSE]

Inputs(text, plan) == [text |-> text, plan |-> plan, objects |-> <<>>]

AllInputs == {Inputs({}, NoPlan), Inputs({"destroy"}, Quiet)}

(* ------------------------------- drafts -------------------------------- *)

Draft(critical, production, class, monitorIds, inventory, pull, tree) ==
    [service |-> [name |-> "payments", critical |-> critical, owner |-> TRUE, runbook |-> FALSE,
                  impact |-> TRUE],
     change |-> [production |-> production, class |-> class, kind |-> "database",
                 rollback |-> "real", monitoring |-> 2, validation |-> TRUE,
                 monitorIds |-> monitorIds, badDashboards |-> 0],
     scanned |-> <<>>, inventory |-> inventory, pull |-> pull, tree |-> tree]

Inventory == {[id |-> "m", provider |-> "zabbix", enabled |-> TRUE]}

\* Three files on two pages; two plans and no third file; more than two pages,
\* with a plan that is refused and a manifest that cannot be read; a plan under
\* no name of Terraform's, with manifests of kinds that discovery knows and of
\* others.  A list read of one draft names files that another does not have.
AllDrafts ==
    {Draft(TRUE, TRUE, "normal", <<>>, NoInventory, <<PlanFile, Workload, Exposure>>,
           PlanFile :> PlanBody(Risky) @@ Workload :> ManifestBody(<<Deployment>>)
           @@ Exposure :> ManifestBody(<<Balancer>>)),
     Draft(TRUE, TRUE, "emergency", <<>>, NoInventory, <<PlanFile, OtherPlan>>,
           PlanFile :> PlanBody(Quiet) @@ OtherPlan :> PlanBody(Risky)),
     Draft(FALSE, FALSE, "normal", <<"m">>, NoInventory, <<PlanFile, Code, Workload, Exposure>>,
           PlanFile :> PlanBody(Malformed) @@ Code :> OtherBody @@ Workload :> Unreadable),
     Draft(FALSE, TRUE, "emergency", <<"m">>, Inventory, <<StrayPlan, Agent, Replicas>>,
           StrayPlan :> PlanBody(Risky) @@ Agent :> ManifestBody(<<DaemonSet>>)
           @@ Replicas :> ManifestBody(<<ReplicaSet, CronJob>>))}

\* One person may be written in two ways.
Waiver(id, requester, approver, policy, environment, issued, expires, signer) ==
    [id |-> id, requester |-> requester, approver |-> approver, policy |-> policy,
     rules |-> {Database}, issued |-> issued, expires |-> expires, signer |-> signer,
     scope |-> [service |-> "payments", environment |-> environment,
                change_class |-> AnyValue, change_type |-> "database"]]

Ana == <<"Ana ", "ana">>
Bob == <<"bob", "bob">>

AllWaivers ==
    {Waiver("good", Ana, Bob, "current", "production", 0, 2, WaiverKey),
     Waiver("own", Ana, <<"ana", "ana">>, "current", "production", 0, 3, WaiverKey),
     Waiver("elsewhere", Ana, Bob, "open", AnyValue, 0, 3, WaiverKey),
     Waiver("later", Bob, Ana, "current", AnyValue, 1, 3, WaiverKey),
     Waiver("unsigned", Ana, Bob, "current", AnyValue, 0, 3, NoSigner)}
===============================================================================
