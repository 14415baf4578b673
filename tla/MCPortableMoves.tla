--------------------------- MODULE MCPortableMoves ---------------------------
(* Two generated files.  One moves between the manifest of its own root     *)
(* (rules/) and the manifest of the raw root above it, as a rule copied     *)
(* under target-config/<target>/raw and back does; declared_trees puts the  *)
(* raw root last.                                                           *)
EXTENDS PortableOutput

CONSTANTS rule, notes, b1, b2, u

MCPublishOrder == <<"rules", "raw">>
File(b) == [s \in {Body} |-> b]
Plan(w, g) == [want |-> w,
               owner |-> [p \in DOMAIN w |-> IF p = rule THEN g ELSE "raw"]]
Rule(b) == [p \in {rule} |-> File(b)]
All(b, c) == [p \in {rule, notes} |-> IF p = rule THEN File(b) ELSE File(c)]
Nothing == [p \in {} |-> Absent]

\* The rule is generated below rules/, or copied from raw/, with either content.
MCMovePlans == {Plan(Rule(b1), "raw"), Plan(All(b1, b1), "rules"),
                Plan(Rule(b2), "rules"), Plan(Nothing, "raw")}
MCOtherNodes == [p \in {rule, notes} |-> {Other}]
=============================================================================
