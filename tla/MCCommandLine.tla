---------------------------- MODULE MCCommandLine -----------------------------
(***************************************************************************)
(* Instances of CommandLine for TLC: a change whose title is edited, whose *)
(* evidence may be missing, and whose files may be unusable.               *)
(***************************************************************************)
EXTENDS CommandLine

Draft(title, level, disposition) ==
    [id |-> "CHG-1", title |-> title, level |-> level, disposition |-> disposition]

AllDrafts ==
    {Draft("first", "LOW", "none"), Draft("second", "CRITICAL", "continue_informative"),
     Draft("first", "HIGH", "stop"), Draft("first", "LOW", "invalid")}

Option(replay, reports, ticket, system, jira) ==
    [replay |-> replay, json |-> "json" \in reports, html |-> "html" \in reports,
     comment |-> "comment" \in reports, ticket |-> ticket, servicenow |-> system,
     jira |-> jira]

AllOptions ==
    {Option(FALSE, {"json"}, TRUE, "live", TRUE),
     Option(FALSE, {"json", "html", "comment"}, FALSE, "dry", TRUE),
     Option(TRUE, {"json"}, FALSE, "off", FALSE), Option(TRUE, {}, FALSE, "off", TRUE)}
===============================================================================
