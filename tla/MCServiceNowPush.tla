------------------------- MODULE MCServiceNowPush -------------------------
(***************************************************************************)
(* Instances of ServiceNowPush for TLC: which push is for which change,    *)
(* and what the table holds before.                                        *)
(***************************************************************************)
EXTENDS ServiceNowPush

CONSTANTS p1, p2

\* One change, whose manifest has an id: every push has identity "new" and
\* the title-based identity "old".
OneChange == [p \in Pushes |-> "new"]
Former == [p \in Pushes |-> "old"]
\* The first push is of an earlier assessment.
Assessments == [p \in Pushes |-> IF p = p1 THEN "first" ELSE "second"]
OneFile == [p \in Pushes |-> "evidence"]

AllAttach == [p \in Pushes |-> TRUE]

Stored(corr) == [corr |-> corr, content |-> "first", by |-> Nobody, creator |-> Nobody]
Unrelated == {[records |-> <<Stored("unrelated")>>, files |-> << >>]}
\* Nothing, a record of another change, a record of the former identity with
\* some number of attachments, and two records of one change.
Attachment == [record |-> 1, name |-> "evidence"]
Any == Unrelated
    \cup {[records |-> << >>, files |-> << >>]}
    \cup {[records |-> <<Stored("old")>>, files |-> f] :
              f \in {<< >>, <<Attachment>>, <<Attachment, Attachment>>}}
    \cup {[records |-> <<Stored("new"), Stored("old")>>, files |-> << >>]}

=============================================================================
