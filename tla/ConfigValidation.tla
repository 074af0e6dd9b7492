-------------------------- MODULE ConfigValidation --------------------------
(***************************************************************************)
(* What a SchemaNode constructor call promises its caller (spec.md 4.3 and *)
(* 7), without the mechanism: the call takes one document and one schema  *)
(* and, in one step, accepts the document exactly when it conforms to the  *)
(* schema, and rejects it otherwise.                                       *)
(***************************************************************************)
CONSTANTS
    Roots,          \* the schemas a caller instantiates
    Docs,           \* the parsed documents a caller passes in
    Conforms(_, _)  \* Conforms(s, d): document d conforms to schema s

VARIABLES
    schema,
    doc,
    verdict         \* "pending", then "accepted" or "rejected"

Init ==
    /\ schema \in Roots
    /\ doc \in Docs
    /\ verdict = "pending"

\* The constructor call decides, once, by conformance alone.
Decide ==
    /\ verdict = "pending"
    /\ verdict' = IF Conforms(schema, doc) THEN "accepted" ELSE "rejected"
    /\ UNCHANGED <<schema, doc>>

Spec == Init /\ [][Decide]_<<schema, doc, verdict>>

=============================================================================
