----------------------------- MODULE MCAppSession -----------------------------
(***************************************************************************)
(* An instance of AppSession for TLC: three change requests, one of the    *)
(* example and one that is not YAML; the pasted plan comes with the        *)
(* example, and assess_risk refuses the first request with it.             *)
(***************************************************************************)
EXTENDS AppSession

Texts(services, change, terraform) ==
    [services |-> services, change |-> change, terraform |-> terraform, k8s |-> ""]

NewSession == Texts("catalogue", "change", "")

Scenarios == {Texts("catalogue", "critical", "plan")}

UserEdits ==
    [services |-> {"catalogue"},
     change |-> {"change", "broken"},
     terraform |-> {}, k8s |-> {}]

Refused == {Texts("catalogue", "change", "plan")}

Jira == {"base", "email", "api_token", "project"}

\* Offline; ServiceNow by token and Jira; Jira, and ServiceNow without a password.
Settings == {{}, {"instance", "token"} \cup Jira, {"instance", "user"} \cup Jira}
===============================================================================
