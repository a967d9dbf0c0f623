-------------------------- MODULE EvidenceEnvelope ---------------------------
(***************************************************************************)
(* evidence.py: an assessment signed as Evidence Contract v2 (an in-toto   *)
(* statement in a DSSE envelope) and its offline verification.  A digest   *)
(* is injective, so what is hashed stands for its hash; a signature is the *)
(* pair of the key and the payload it covers.                              *)
(***************************************************************************)
EXTENDS Integers

\* MaxSkew: how far ahead of the verifier the signer's clock may run (300 s).
\* NoAge: the verifier sets no bound on the age.
CONSTANTS MaxSkew, NoAge

\* build_statement_v2: claims are the policy, the repository, the commit and
\* the workflow; inputs a function from the names bound to contents.
Statement(assessment, claims, inputs, at) ==
    [assessment |-> assessment, digest |-> assessment, claims |-> claims,
     inputs |-> inputs, generated |-> at]

\* sign_statement: exactly one signature, over the payload as encoded.
Sign(statement, key) ==
    [payload |-> statement, keyid |-> key, signature |-> <<key, statement>>]

\* The checks of verify_evidence_v2, by name; the first two end the
\* verification, of the rest all are made.  A verifier pins what it wants:
\* pins is [claims, inputs, age].
KeyIdentity(envelope, trusted) == envelope.keyid = trusted

SignatureHolds(envelope, trusted) == envelope.signature = <<trusted, envelope.payload>>

AssessmentDigest(statement) == statement.digest = statement.assessment

ClaimsHold(statement, pins) ==
    \A n \in DOMAIN pins.claims : statement.claims[n] = pins.claims[n]

InputsRecorded(statement, pins) == DOMAIN pins.inputs \subseteq DOMAIN statement.inputs

InputsHold(statement, pins) ==
    \A n \in DOMAIN pins.inputs : n \in DOMAIN statement.inputs /\ statement.inputs[n] = pins.inputs[n]

Fresh(statement, pins, now) ==
    pins.age # NoAge => -MaxSkew <= now - statement.generated /\ now - statement.generated <= pins.age

Verify(envelope, trusted, pins, now) ==
    /\ KeyIdentity(envelope, trusted)
    /\ SignatureHolds(envelope, trusted)
    /\ AssessmentDigest(envelope.payload)
    /\ ClaimsHold(envelope.payload, pins)
    /\ InputsHold(envelope.payload, pins)
    /\ Fresh(envelope.payload, pins, now)
=============================================================================
