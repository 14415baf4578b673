--------------------------- MODULE MCPortableTrees ---------------------------
(* One generated rule file and one generated skill tree: edits, links and   *)
(* paths of the wrong kind, source changes, and a crash at every point.     *)
EXTENDS PortableOutput

CONSTANTS rule, skill, main, extra, b1, b2, u

MCPublishOrder == <<"rules", "skills">>
MCOwner(P) == [p \in P |-> IF p = rule THEN "rules" ELSE "skills"]
File(b) == [s \in {Body} |-> b]
Both == [p \in {rule, skill} |->
           IF p = rule THEN File(b1) ELSE [s \in {main, extra} |-> b1]]
Less == [p \in {rule, skill} |->
           IF p = rule THEN File(b2) ELSE [s \in {main} |-> b2]]
Mixed == [p \in {rule, skill} |->
            IF p = rule THEN File(b1)
            ELSE [s \in {main, extra} |-> IF s = main THEN b1 ELSE b2]]
None == [p \in {} |-> Absent]
MCPlans == {[want |-> w, owner |-> MCOwner(DOMAIN w)] : w \in {Both, Less, Mixed, None}}
MCUserNodes == [p \in {rule, skill} |-> {Link, Other}]
=============================================================================
