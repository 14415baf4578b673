----------------------------- MODULE NestedConfig -----------------------------
(***************************************************************************)
(* One native file as the tree it is: patches with all five operations     *)
(* (output/patches.py), the withdrawal of stale pointers with the tables   *)
(* they leave empty (output/native.py), committed and machine-local patch  *)
(* files (targets/support.py), and MCP servers that are registered in the  *)
(* file or kept beside it while disabled (targets/claude.py).              *)
(*                                                                         *)
(* A document is a function from the pointers it holds to Table or a leaf; *)
(* its domain is closed under prefixes, and the root << >> is a Table.  A  *)
(* value is such a function too, or a leaf at the root.  A semantic hash   *)
(* is the value it is the hash of.  Generated values are leaves and        *)
(* tables; generated lists, owned entry by entry, are NativeConfig's, and  *)
(* so are tools that write during a run, and several files.                *)
(***************************************************************************)
EXTENDS Lists, FiniteSets

CONSTANTS
  Table,       \* the node of a mapping
  Leaves,      \* scalars and lists
  ListLeaves,  \* those that are lists, as sequences
  Names,       \* the keys of mappings
  Root,        \* the key of the table of servers ("mcpServers")
  Sources,     \* what people configure, over time
  ToolNodes    \* the nodes a tool writes: <<pointer, a leaf, or Table for an empty table>>

VARIABLES
  doc,        \* the file on disk
  owned,      \* the manifest: [owned pointers -> values]
  source,     \* what people configure now
  pc,         \* "idle", "write" or "publish"
  candidate,  \* the document to write
  record,     \* the manifest to write
  theirs,     \* history: the pointers of nodes a tool wrote and no run removed
  left,       \* history: the pointers patches of earlier plans wrote
  outcome,    \* history: how the last run ended; "none" once anything changed
  cut         \* history: some run was killed

vars == <<doc, owned, source, pc, candidate, record, theirs, left, outcome, cut>>

-----------------------------------------------------------------------------
(* Documents.                                                              *)

Pointers == Seq(Names)

Above(p) == {SubSeq(p, 1, n) : n \in 0..(Len(p) - 1)}
Below(t, p) == {q \in DOMAIN t : IsPrefix(p, q)}

\* q as seen from p, a prefix of it
Rest(p, q) == SubSeq(q, Len(p) + 1, Len(q))

IsTree(t) ==
  /\ t \in [DOMAIN t -> Leaves \cup {Table}]
  /\ DOMAIN t \subseteq Pointers /\ << >> \in DOMAIN t
  /\ \A p \in DOMAIN t : \A q \in Above(p) : q \in DOMAIN t /\ t[q] = Table

IsDocument(t) == IsTree(t) /\ t[<< >>] = Table

Leaf(v) == [r \in {<< >>} |-> v]
Empty == Leaf(Table)

\* get_value
ValueAt(t, p) == [r \in {Rest(p, q) : q \in Below(t, p)} |-> t[p \o r]]

Without(t, p) == Restrict(t, DOMAIN t \ Below(t, p))

Put_NoParents(t, p, value) ==  \* mutant: missing tables are not made
  [q \in {p \o r : r \in DOMAIN value} \cup DOMAIN Without(t, p) |->
     IF IsPrefix(p, q) THEN value[Rest(p, q)] ELSE t[q]]

\* current[key] = value, the tables above made where they are missing
Put(t, p, value) ==
  [q \in {p \o r : r \in DOMAIN value} \cup DOMAIN Without(t, p) \cup Above(p) |->
     IF IsPrefix(p, q) THEN value[Rest(p, q)] ELSE IF q \in DOMAIN t THEN t[q] ELSE Table]

\* {**existing, **value}: whole values, key by key
Overlaid_Whole(existing, value) == value  \* mutant: the keys already there are lost

Overlaid(existing, value) ==
  [r \in DOMAIN value \cup {r \in DOMAIN existing : r # << >> /\ <<r[1]>> \notin DOMAIN value} |->
     IF r \in DOMAIN value THEN value[r] ELSE existing[r]]

\* combined.extend(item for item in value if item not in combined)
Extended(list, more) ==
  LET combined[n \in 0..Len(more)] ==
        IF n = 0 THEN list
        ELSE LET sofar == combined[n - 1]
             IN IF more[n] \in ToSet(sofar) THEN sofar ELSE Append(sofar, more[n])
  IN combined[Len(more)]

-----------------------------------------------------------------------------
(* Patches.                                                                *)

Touches(p, q) == IsPrefix(p, q) \/ IsPrefix(q, p)

\* load_patch
IsOperation(op) ==
  /\ op.kind \in {"set", "replace", "extend", "overlay", "delete"}
  /\ op.pointer \in Pointers \ {<< >>} /\ IsTree(op.value)
  /\ op.kind \in {"replace", "overlay"} => op.value[<< >>] = Table
  /\ op.kind = "extend" => op.value[<< >>] \in ListLeaves

\* _validate_conflicts
Conflicting_Duplicates(ops) ==  \* mutant: only equal pointers conflict
  \E i, j \in DOMAIN ops : i # j /\ ops[i].pointer = ops[j].pointer

Conflicting(ops) ==
  \E i, j \in DOMAIN ops : i # j /\ Touches(ops[i].pointer, ops[j].pointer)

NotIn(ops, others) ==
  Kept(ops, {op \in ToSet(ops) : \A o \in ToSet(others) : o.pointer # op.pointer})

Merged_CommittedWins(committed, local) ==  \* mutant: the wrong file wins
  NotIn(local, committed) \o committed

\* merge_patches
Merged(committed, local) == NotIn(committed, local) \o local

\* contributes_to_generated
Contributes(op, p, value) ==
  /\ op.pointer = p
  /\ \/ op.kind = "set" /\ op.value = value
     \/ op.kind = "extend" /\ value[<< >>] \in ListLeaves
     \/ op.kind = "overlay" /\ value[<< >>] = Table

\* apply_operations, one operation: where it raises nothing
Applies(t, op) ==
  /\ \A q \in Above(op.pointer) \cap DOMAIN t : t[q] = Table
  /\ op.pointer \in DOMAIN t =>
       /\ op.kind = "extend" => t[op.pointer] \in ListLeaves
       /\ op.kind = "overlay" => t[op.pointer] = Table

\* what it puts at its pointer
Combined(t, op) ==
  IF op.kind = "extend"
  THEN Leaf(Extended(IF op.pointer \in DOMAIN t THEN t[op.pointer] ELSE << >>, op.value[<< >>]))
  ELSE IF op.kind = "overlay" /\ op.pointer \in DOMAIN t
  THEN Overlaid(ValueAt(t, op.pointer), op.value)
  ELSE op.value

Applied(t, op) ==
  IF op.kind = "delete" THEN Without(t, op.pointer) ELSE Put(t, op.pointer, Combined(t, op))

\* apply_operations: the documents it can end in, none where it raises
AppliedAll(t, ops) ==
  LET docs[n \in 0..Len(ops)] ==
        IF n = 0 THEN {t} ELSE {Applied(d, ops[n]) : d \in {d \in docs[n - 1] : Applies(d, ops[n])}}
  IN docs[Len(ops)]

Withdrawn_PointerOnly(t, p) == Without(t, p)  \* mutant: emptied tables stay

\* _delete_with_empty_parents: p and every table above it that held nothing else
Withdrawn(t, p) ==
  LET emptied == {q \in Above(p) \ {<< >>} : \A r \in Below(t, q) : Touches(r, p)}
  IN Restrict(t, DOMAIN t \ (Below(t, p) \cup emptied))

-----------------------------------------------------------------------------
(* What a source compiles to: servers [ids -> [enabled, fields]], and the  *)
(* operations of the committed and the local patch file.                   *)

Patch(q) == Merged(q.committed, q.local)

Registered(q) == {id \in DOMAIN q.servers : q.servers[id].enabled}
Disabled(q) == DOMAIN q.servers \ Registered(q)

Generated(q) ==
  LET at == {<<Root, id, key>> : id \in Registered(q), key \in UNION {DOMAIN q.servers[i].fields : i \in Registered(q)}}
  IN [p \in {p \in at : p[3] \in DOMAIN q.servers[p[2]].fields} |-> q.servers[p[2]].fields[p[3]]]

SetOp(p, value) == [kind |-> "set", pointer |-> p, value |-> value]
DeleteOp(p) == [kind |-> "delete", pointer |-> p, value |-> Empty]

\* _optional_servers: operations inside the entry of a disabled server go to
\* its own file, and the entry is deleted from the shared one.
Inside(op, id) == Len(op.pointer) >= 3 /\ op.pointer[1] = Root /\ op.pointer[2] = id

Routed_Dropped(q, id) == << >>  \* mutant: patches of a disabled server are lost

Routed(q, id) == Kept(Patch(q), {op \in ToSet(Patch(q)) : Inside(op, id)})

EntryOps(q, id) ==
  SetToSeq({SetOp(<<Root, id, key>>, q.servers[id].fields[key]) : key \in DOMAIN q.servers[id].fields})

\* The documents of the file beside: none where the patch cannot be applied.
Standalone(q, id) ==
  UNION {AppliedAll(d, Routed(q, id)) : d \in AppliedAll(Empty, EntryOps(q, id))}

\* kept: what is left for the shared file
Shared(q) ==
  Kept(Patch(q), {op \in ToSet(Patch(q)) : \A id \in Disabled(q) : ~Inside(op, id)})
    \o SetToSeq({DeleteOp(<<Root, id>>) : id \in Disabled(q)})

\* What people can configure.  The entry of a server holds at least its type,
\* and no generated list (those are NativeConfig's).
IsSource(q) ==
  /\ q = [servers |-> q.servers, committed |-> q.committed, local |-> q.local]
  /\ \A ops \in {q.committed, q.local} :
       ops \in Seq(ToSet(ops)) /\ \A op \in ToSet(ops) : IsOperation(op)
  /\ IsFiniteSet(DOMAIN q.servers) /\ DOMAIN q.servers \subseteq Names
  /\ \A id \in DOMAIN q.servers :
       LET fields == q.servers[id].fields
       IN /\ q.servers[id] = [enabled |-> q.servers[id].enabled, fields |-> fields]
          /\ q.servers[id].enabled \in BOOLEAN
          /\ IsFiniteSet(DOMAIN fields) /\ DOMAIN fields \subseteq Names /\ DOMAIN fields # {}
          /\ \A key \in DOMAIN fields : IsTree(fields[key]) /\ fields[key][<< >>] \notin ListLeaves

ASSUME NodesAssumption ==
  /\ Table \notin Leaves /\ ListLeaves \subseteq Leaves /\ << >> \in ListLeaves
  /\ ListLeaves \subseteq Seq(UNION {ToSet(l) : l \in ListLeaves})
  /\ \A l, m \in ListLeaves : Extended(l, m) \in ListLeaves
ASSUME ToolAssumption == \A n \in ToolNodes : n[1] \in Pointers \ {<< >>} /\ n[2] \in Leaves \cup {Table}
ASSUME SourcesAssumption == Root \in Names /\ \A q \in Sources : IsSource(q)

Clashes(op, generated) ==
  \E p \in DOMAIN generated : Touches(op.pointer, p) /\ ~Contributes(op, p, generated[p])

\* load_patch, merge_patches, _optional_servers and _validate_plan
Valid(q) ==
  /\ ~Conflicting(q.committed) /\ ~Conflicting(q.local)
  /\ ~Conflicting(Patch(q)) /\ ~Conflicting(Shared(q))
  /\ \A i \in DOMAIN Shared(q) : ~Clashes(Shared(q)[i], Generated(q))
  /\ \A id \in Disabled(q) :
       /\ Standalone(q, id) # {}
       /\ \A i \in DOMAIN Routed(q, id) :
            ~Clashes(Routed(q, id)[i], [p \in {<<Root, id, key>> : key \in DOMAIN q.servers[id].fields} |->
                                          q.servers[id].fields[p[3]]])

-----------------------------------------------------------------------------
(* prepare_plan_native.                                                    *)

Conflicts_NotGenerated(q) ==  \* mutant: a value already as generated is a conflict
  {p \in (DOMAIN owned \cup DOMAIN Generated(q)) \cap DOMAIN doc :
     ~(p \in DOMAIN owned /\ owned[p] = ValueAt(doc, p))}

Conflicts(q) ==
  {p \in (DOMAIN owned \cup DOMAIN Generated(q)) \cap DOMAIN doc :
     /\ ~(p \in DOMAIN owned /\ owned[p] = ValueAt(doc, p))
     /\ ~(p \in DOMAIN Generated(q) /\ Generated(q)[p] = ValueAt(doc, p))}

\* _validate_candidate
Complete(t, q) ==
  /\ \A i \in DOMAIN Shared(q) :
       LET op == Shared(q)[i]
       IN op.kind # "delete" =>
            /\ op.pointer \in DOMAIN t
            /\ op.kind \in {"replace", "overlay"} => t[op.pointer] = Table
            /\ op.kind = "extend" => t[op.pointer] \in ListLeaves
  /\ DOMAIN Generated(q) \subseteq DOMAIN t

Reconciled(q) ==
  LET stale == SetToSeq(DOMAIN owned \ DOMAIN Generated(q))
      docs[n \in 0..Len(stale)] ==
        IF n = 0 THEN doc
        ELSE LET t == docs[n - 1] IN IF stale[n] \in DOMAIN t THEN Withdrawn(t, stale[n]) ELSE t
  IN docs[Len(stale)]

GeneratedOps(q) == SetToSeq({SetOp(p, Generated(q)[p]) : p \in DOMAIN Generated(q)})

\* The candidate documents: none where the run is refused.  (Before any of this
\* native_patch also refuses a local patch file that others may read, mode 0600.)
Candidates(q) ==
  IF ~Valid(q) \/ Conflicts(q) # {} THEN {}
  ELSE {t \in UNION {AppliedAll(d, Shared(q)) : d \in AppliedAll(Reconciled(q), GeneratedOps(q))} :
          Complete(t, q)}

Record_AsGenerated(q, t) == Generated(q)  \* mutant: contributions are not owned

Record(q, t) == [p \in DOMAIN Generated(q) |-> ValueAt(t, p)]

Puts(q) == {op.pointer : op \in {op \in ToSet(Shared(q)) : op.kind # "delete"}}

\* What a patch can leave behind: what it writes, and tables it empties.
Written(q) ==
  Puts(q) \cup UNION {Above(op.pointer) \ {<< >>} : op \in {op \in ToSet(Shared(q)) : op.kind = "delete"}}

-----------------------------------------------------------------------------
(* One run.                                                                *)

Refuse ==
  /\ pc = "idle"
  /\ Candidates(source) = {}
  /\ outcome' = "refused"
  /\ UNCHANGED <<doc, owned, source, pc, candidate, record, theirs, left, cut>>

Prepare ==
  /\ pc = "idle"
  /\ \E t \in Candidates(source) :
       /\ candidate' = t
       /\ record' = Record(source, t)
  /\ pc' = "write"
  /\ outcome' = "none"
  /\ UNCHANGED <<doc, owned, source, theirs, left, cut>>

\* apply_native_candidates
Write ==
  /\ pc = "write"
  /\ doc' = candidate
  /\ theirs' = {p \in theirs \cap DOMAIN candidate : candidate[p] = doc[p]}
  /\ left' = (left \cup Written(source)) \cap DOMAIN candidate
  /\ pc' = "publish"
  /\ UNCHANGED <<owned, source, candidate, record, outcome, cut>>

\* publish_native_manifest
Publish ==
  /\ pc = "publish"
  /\ owned' = record
  /\ pc' = "idle"
  /\ candidate' = Empty /\ record' = << >>
  /\ outcome' = "done"
  /\ UNCHANGED <<doc, source, theirs, left, cut>>

\* The process dies, or a later step of the run fails, before the manifest.
Crash ==
  /\ pc # "idle"
  /\ pc' = "idle"
  /\ candidate' = Empty /\ record' = << >>
  /\ outcome' = "crashed"
  /\ cut' = TRUE
  /\ UNCHANGED <<doc, owned, source, theirs, left>>

ChangeSource(q) ==
  /\ pc = "idle"
  /\ q # source
  /\ source' = q
  /\ outcome' = "none"
  /\ UNCHANGED <<doc, owned, pc, candidate, record, theirs, left, cut>>

\* A tool writes a node and the tables above it, or removes what is there.
ToolSets(p, node) ==
  /\ pc = "idle"
  /\ \A q \in Above(p) \cap DOMAIN doc : doc[q] = Table
  /\ doc' = Put(doc, p, Leaf(node))
  /\ theirs' = (theirs \ Below(doc, p)) \cup {p}
  /\ left' = left \ Below(doc, p)
  /\ outcome' = "none"
  /\ UNCHANGED <<owned, source, pc, candidate, record, cut>>

ToolRemoves(p) ==
  /\ pc = "idle"
  /\ p \in DOMAIN doc
  /\ doc' = Without(doc, p)
  /\ theirs' = (theirs \ Below(doc, p)) \cup (Above(p) \ {<< >>})
  /\ left' = left \ Below(doc, p)
  /\ outcome' = "none"
  /\ UNCHANGED <<owned, source, pc, candidate, record, cut>>

Init ==
  /\ doc = Empty /\ owned = << >>
  /\ source \in Sources
  /\ pc = "idle" /\ candidate = Empty /\ record = << >>
  /\ theirs = {} /\ left = {}
  /\ outcome = "none" /\ cut = FALSE

Sync == Refuse \/ Prepare \/ Write \/ Publish

Tool == \E n \in ToolNodes : ToolSets(n[1], n[2]) \/ ToolRemoves(n[1])

Next == Sync \/ Crash \/ Tool \/ \E q \in Sources : ChangeSource(q)

Spec == Init /\ [][Next]_vars

-----------------------------------------------------------------------------
(* Type invariant: documents stay trees, and what is owned or was written  *)
(* by a tool or a patch are values and nodes of such trees.                *)
TypeOK ==
  /\ IsDocument(doc) /\ IsDocument(candidate)
  /\ \A m \in {owned, record} : \A p \in DOMAIN m : Len(p) = 3 /\ IsTree(m[p])
  /\ source \in Sources
  /\ pc \in {"idle", "write", "publish"}
  /\ theirs \cup left \subseteq DOMAIN doc
  /\ outcome \in {"none", "refused", "done", "crashed"}

Keys(value) == {r \in DOMAIN value : Len(r) = 1}

\* An operation shows in a document.
Holds(op, t) ==
  CASE op.kind = "delete" -> op.pointer \notin DOMAIN t
    [] op.kind = "extend" -> op.pointer \in DOMAIN t /\ ToSet(op.value[<< >>]) \subseteq ToSet(t[op.pointer])
    [] op.kind = "overlay" -> \A k \in Keys(op.value) : ValueAt(t, op.pointer \o k) = ValueAt(op.value, k)
    [] OTHER -> ValueAt(t, op.pointer) = op.value

\* What people ask for: the local file's operations, and the committed ones
\* it does not replace.
Asked(q) ==
  ToSet(q.local) \cup {op \in ToSet(q.committed) : \A o \in ToSet(q.local) : o.pointer # op.pointer}

(* After a successful run every operation people ask for shows, in the     *)
(* file or, inside a disabled server, in the file beside; so do generated  *)
(* values but for what an overlay changes of them, and a disabled server   *)
(* has left the shared file ("would otherwise be left as a broken stub").  *)
PlanHolds ==
  outcome = "done" =>
    /\ \A op \in Asked(source) :
         IF \E id \in Disabled(source) : Inside(op, id)
         THEN \A t \in Standalone(source, op.pointer[2]) : Holds(op, t)
         ELSE Holds(op, doc)
    /\ \A p \in DOMAIN Generated(source) :
         \/ ValueAt(doc, p) = Generated(source)[p]
         \/ \E op \in Asked(source) :
              /\ op.kind = "overlay" /\ op.pointer = p
              /\ ValueAt(doc, p) = Overlaid(Generated(source)[p], op.value)
    /\ \A id \in Disabled(source) : <<Root, id>> \notin DOMAIN doc

(* After a successful run --check reports nothing: preparing again yields  *)
(* the same document and the same manifest.                                *)
DoneMeansSynced ==
  outcome = "done" => Candidates(source) = {doc} /\ Record(source, doc) = owned

Overlays(q) == {op.pointer : op \in {op \in ToSet(Shared(q)) : op.kind = "overlay"}}

(* A killed run can be repeated, but for a generated table a patch         *)
(* overlays, and for a pointer that is no longer generated and that a      *)
(* patch writes: what the killed run left there is neither what the        *)
(* manifest vouches for nor what is generated.                             *)
KilledRunRepeats ==
  outcome = "crashed" =>
    Conflicts(source) \subseteq
      Overlays(source) \cup {p \in DOMAIN owned \ DOMAIN Generated(source) :
                               \E op \in ToSet(Shared(source)) : op.kind # "delete" /\ Touches(op.pointer, p)}

\* The pointers a run may write or remove, with everything below them.
Named(op) == IF op.kind = "overlay" THEN {op.pointer \o k : k \in Keys(op.value)} ELSE {op.pointer}

Claimed == DOMAIN owned \cup DOMAIN Generated(source) \cup UNION {Named(op) : op \in ToSet(Shared(source))}

(* A run changes nothing a tool wrote outside the pointers the plan names  *)
(* or the manifest records (README: "Unnamed native fields remain          *)
(* tool-owned"), but for tables that withdrawn output leaves empty.        *)
ToolWorkKept ==
  [][Sync \/ Crash =>
       \A p \in theirs :
         \/ \E c \in Claimed : IsPrefix(c, p)
         \/ doc[p] = Table /\ \E o \in DOMAIN owned : IsPrefix(p, o)
         \/ p \in DOMAIN doc' /\ doc'[p] = doc[p]]_vars

(* What the compiler generated and no longer generates is gone after a     *)
(* successful run, with the tables made for it: every leaf and every empty *)
(* table is a tool's, in the plan, or left by a patch.                     *)
NothingForgotten ==
  (outcome = "done" /\ ~cut) =>
    \A p \in DOMAIN doc \ {<< >>} :
      \/ \E q \in DOMAIN doc : q # p /\ IsPrefix(p, q)
      \/ p \in theirs
      \/ \E q \in left \cup DOMAIN Generated(source) : IsPrefix(q, p)

(* The order in which a patch is applied does not matter, nor whether it   *)
(* is refused: sections and files can be read in any order.                *)
OrderIrrelevant ==
  (pc = "idle" /\ Valid(source)) =>
    \A ops \in SetToSeqs(ToSet(Shared(source))) : AppliedAll(doc, ops) = AppliedAll(doc, Shared(source))

Toggled(q, id) == [q EXCEPT !.servers[id].enabled = ~@]

\* p is of a mapping that an overlay finds and adds to.
FoundBy(op, p) ==
  /\ op.kind = "overlay" /\ IsPrefix(op.pointer, p) /\ p # op.pointer
  /\ \A k \in Named(op) : ~IsPrefix(k, p)

(* Disabling a server moves its entry, patches included, to the file       *)
(* beside, and makes no valid configuration invalid: after a successful    *)
(* run, and if none was killed, the file beside holds no more than the     *)
(* entry, and less only by what tools and earlier patches left there.      *)
DisabledKeepsEntry ==
  \A id \in DOMAIN source.servers :
    /\ Valid(source) <=> Valid(Toggled(source, id))
    /\ (outcome = "done" /\ ~cut /\ id \in Registered(source)) =>
         \A t \in Standalone(Toggled(source, id), id) :
           \A p \in Below(doc, <<Root, id>>) \cup Below(t, <<Root, id>>) :
             \/ p \in DOMAIN doc \cap DOMAIN t /\ doc[p] = t[p]
             \/ /\ p \in DOMAIN doc \cap DOMAIN t /\ ToSet(t[p]) \subseteq ToSet(doc[p])
                /\ \E op \in ToSet(Shared(source)) : op.kind = "extend" /\ op.pointer = p
             \/ /\ p \notin DOMAIN t
                /\ \/ \E q \in theirs : IsPrefix(p, q)
                   \/ \E q \in left \ Puts(source) : Touches(q, p)
                   \/ \E op \in ToSet(Shared(source)) : FoundBy(op, p)
=============================================================================
