--------------------------- MODULE MCServiceNowPlan ---------------------------
(***************************************************************************)
(* Instances of ServiceNowPlan for TLC: one call of build, and calls that  *)
(* differ from it in a few arguments.                                      *)
(***************************************************************************)
EXTENDS ServiceNowPlan

Text(s) == [json |-> FALSE, chars |-> s]
Json(s) == [json |-> TRUE, chars |-> s]

Report(assessment, status, policy, size) ==
    LET content == [assessment_id |-> assessment, verdict |-> status, size |-> size,
                    sources |-> [assessment_status |-> Text(<<status>>),
                                 policy |-> policy,
                                 evidence_url |-> Absent]] IN
    [content |-> content, integrity |-> content, report_id |-> content]

Rule(destination, limit) ==
    [destination |-> destination, max_length |-> limit, omit_empty |-> TRUE]

Mapping(profile, limit) ==
    [profile_id |-> profile, mode |-> "attachment_or_link", hosts |-> {"artifacts"},
     create_draft |-> TRUE, models |-> {"normal"}, attachment_max_bytes |-> 1,
     fields |-> [assessment_status |-> Rule("u_status", 3),
                 policy |-> Rule("description", limit),
                 evidence_url |-> Rule("u_url", 3)]]

Url(path) == [host |-> "artifacts", chars |-> path]

Enrich ==
    [report |-> Report("a1", "BLOCK", Text(<<"b", " ", " ", "b", " ">>), 1),
     mapping |-> Mapping("m1", 3),
     alias |-> "prod", origin |-> "https://prod",
     operation |-> "enrich_existing", targets |-> {[number |-> 1]}, version |-> 7,
     capability |-> "c1", dry_run |-> TRUE, write_enabled |-> FALSE, profile |-> Gateway,
     mode |-> "attachment", url |-> Absent,
     model |-> Absent, authorization |-> Absent, draft_feature_enabled |-> FALSE]

Live(c) == [c EXCEPT !.dry_run = FALSE, !.write_enabled = TRUE]

Draft ==
    [Live(Enrich) EXCEPT !.operation = "create_draft", !.targets = {}, !.version = Absent,
                         !.model = "normal", !.authorization = "z1",
                         !.draft_feature_enabled = TRUE]

Link(path) == [Live(Enrich) EXCEPT !.mode = "https_link", !.url = Url(path)]

Reassessed ==
    [Enrich EXCEPT !.report = Report("a1", "REVIEW", Json(<<"j", "j", "j", "j">>), 1)]

\* The same plan for another instance, and for one that the policy does not list.
Elsewhere == [Live(Enrich) EXCEPT !.alias = "test", !.origin = "https://test"]
Unlisted == [Live(Enrich) EXCEPT !.alias = "old", !.origin = "https://old"]

MarkerOfTwo == <<".", ".">>

AllCalls ==
    {Enrich, Live(Enrich), Reassessed, Draft, Link(<<"x">>), Elsewhere, Unlisted,
     [Live(Enrich) EXCEPT !.version = 8],
     [Live(Enrich) EXCEPT !.targets = {[sys_id |-> 1]}],
     [Draft EXCEPT !.model = "emergency"],
     [Draft EXCEPT !.version = 7],
     [Draft EXCEPT !.mapping.create_draft = FALSE],
     [Live(Enrich) EXCEPT !.capability = "c2"],
     [Live(Enrich) EXCEPT !.profile = "change_management_v1"],
     [Reassessed EXCEPT !.mapping = Mapping("m2", 1)],
     [Enrich EXCEPT !.targets = {}],
     [Enrich EXCEPT !.report.content.size = 2]}

=============================================================================
