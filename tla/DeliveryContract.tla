------------------------- MODULE DeliveryContract -------------------------
(***************************************************************************)
(* What docs/SERVICENOW_ADAPTER_CONTRACT_V2.md promises to the caller of   *)
(* execute, without messages, retries or reads.  Each run may write its    *)
(* delivery key at most once and makes at most one claim, which is final:  *)
(*   verified  the key is delivered (UPDATED, UNCHANGED, CREATED_DRAFT)    *)
(*   quiet     DRY_RUN and READ_ONLY, the run never writes                 *)
(*   conflict  the run has not written and never will                      *)
(*   failed    FAILED and PARTIAL_FAILURE_UNKNOWN, nothing is promised     *)
(***************************************************************************)
CONSTANTS Runs, Keys, Key(_)

VARIABLES delivered, wrote, claim

vars == <<delivered, wrote, claim>>

Claims == {"none", "verified", "quiet", "conflict", "failed"}

Init ==
    /\ delivered = {}
    /\ wrote = {}
    /\ claim = [r \in Runs |-> "none"]

Write(r) ==
    /\ claim[r] \notin {"quiet", "conflict"}
    /\ Key(r) \notin delivered
    /\ delivered' = delivered \cup {Key(r)}
    /\ wrote' = wrote \cup {r}
    /\ UNCHANGED claim

Claim(r, c) ==
    /\ claim[r] = "none"
    /\ c = "verified" => Key(r) \in delivered
    /\ c \in {"quiet", "conflict"} => r \notin wrote
    /\ claim' = [claim EXCEPT ![r] = c]
    /\ UNCHANGED <<delivered, wrote>>

Next ==
    \E r \in Runs :
        \/ Write(r)
        \/ \E c \in Claims \ {"none"} : Claim(r, c)

Spec == Init /\ [][Next]_vars

=============================================================================
