-------------------------- MODULE MCProviderRunner --------------------------
(* Instances of ProviderRunner for TLC. *)
EXTENDS ProviderRunner, TLC

CONSTANTS u1, u2, c1, c2, c3, x, y, t1, t2

OneRunner == [c \in Calls |-> u1]
TwoRunners == [c \in Calls |-> IF c = c1 THEN u1 ELSE u2]

TwoContexts == (c1 :> t1) @@ (c2 :> t2) @@ (c3 :> t1)

AllX == [c \in Calls |-> {x}]
SecondBoth == [c \in Calls |-> IF c = c2 THEN {x, y} ELSE {x}]

SameInstant == [c \in Calls |-> 1]
LaterInstants == (c1 :> 1) @@ (c2 :> 2) @@ (c3 :> 2)

\* Valid at 1 only, expired, and valid from 1 to 2.
PassFailExempt ==
    { [status |-> "PASS", from |-> 1, until |-> 2],
      [status |-> "FAIL", from |-> 0, until |-> 1],
      [status |-> "NOT_APPLICABLE", from |-> 1, until |-> 3] }

PassOnly == {[status |-> "PASS", from |-> 1, until |-> 3]}

=============================================================================
