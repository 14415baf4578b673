---------------------------- MODULE NativeConfig ----------------------------
(***************************************************************************)
(* The native half of one sync: how generated values and patches are       *)
(* merged into configuration files the tools themselves also write         *)
(* (output/native.py, output/patches.py, in the order of sync.py).         *)
(*                                                                         *)
(* prepare_plan_native reads every surface, decides pointer by pointer     *)
(* what the compiler owns, and builds the whole new document; later the    *)
(* document is written over the file, and last the ownership manifest is   *)
(* written.  A tool may edit its file at any time.                         *)
(*                                                                         *)
(* A document is a function from its pointers to values.  The pointers of  *)
(* one surface do not lie below each other (_validate_plan refuses plans   *)
(* whose pointers touch), a list holds no entry twice, and a pointer       *)
(* generated as a list (a scalar) is one in every plan.  A semantic hash   *)
(* is modelled as the value it is the hash of.                             *)
(***************************************************************************)
EXTENDS Lists

CONSTANTS
  Surfaces,      \* native files, each with its target
  Pointers,      \* the pointers of all surfaces
  SurfaceOf,     \* [Pointers -> Surfaces]
  Lists,         \* the pointers generated as lists
  Items,         \* entries of lists
  Scalars,       \* values that are not lists
  ToolItems,     \* the entries a tool adds
  ToolScalars,   \* the other values a tool sets
  ToolPointers,  \* the pointers a tool edits
  Sources,       \* what the sources compile to, over time
  Interferes,    \* whether tools also write while a run is going on
  Missing        \* no value at the pointer

ListValues == {s \in Seq(Items) : Unrepeated(s)}

IsList(v) == v \notin Scalars \cup {Missing}

ValuesAt(p) == {Missing} \cup Scalars \cup (IF p \in Lists THEN ListValues ELSE {})

(***************************************************************************)
(* What one plan asks of the surfaces: the generated values (NativeValue), *)
(* and the patch operations extend (add to a list), set and delete.        *)
(* contributes_to_generated lets a patch name a generated pointer only to  *)
(* extend a list or to set the same value.                                 *)
(***************************************************************************)
IsSource(q) ==
  /\ DOMAIN q.gen \subseteq Pointers
  /\ \A p \in DOMAIN q.gen : q.gen[p] \in IF p \in Lists THEN ListValues ELSE Scalars
  /\ DOMAIN q.extend \subseteq Lists
  /\ \A p \in DOMAIN q.extend : q.extend[p] \in ListValues
  /\ DOMAIN q.set \subseteq Pointers \ Lists
  /\ \A p \in DOMAIN q.set : q.set[p] \in Scalars /\ (p \in DOMAIN q.gen => q.gen[p] = q.set[p])
  /\ q.delete \subseteq Pointers \ (DOMAIN q.gen \cup DOMAIN q.extend \cup DOMAIN q.set)

ASSUME PointersAssumption ==
  /\ Lists \subseteq Pointers /\ ToolPointers \subseteq Pointers
  /\ SurfaceOf \in [Pointers -> Surfaces]
ASSUME ValuesAssumption ==
  /\ Missing \notin Scalars
  /\ \A v \in Scalars \cup {Missing} : v \notin ListValues
  /\ ToolItems \subseteq Items /\ ToolScalars \subseteq Scalars
ASSUME SourcesAssumption == Sources # {} /\ \A q \in Sources : IsSource(q)
ASSUME InterferesAssumption == Interferes \in BOOLEAN

VARIABLES
  doc,        \* [Pointers -> values]: the files on disk
  owned,      \* the manifest: [owned pointers -> Ownership]
  source,     \* what the sources compile to now
  pc,         \* "idle" or "apply"
  txn,        \* the source of the current or the last run
  candidate,  \* the documents to write, made by prepare_plan_native
  record,     \* the manifest to publish
  todo,       \* the changed surfaces still to write
  \* History variables, read by properties only:
  theirs,     \* [Lists -> entries a tool, or a patch of a list the plan does
              \*  not generate, added and no run has taken over]
  loose,      \* pointers whose value a tool or a patch set
  outcome,    \* how the last run ended; "none" once anything changed since
  cut         \* some run did not reach its end after preparing

vars == <<doc, owned, source, pc, txn, candidate, record, todo, theirs, loose, outcome, cut>>

-----------------------------------------------------------------------------
(* Ownership: a list by its entries, anything else whole, by its hash.     *)

Whole(v) == [kind |-> "hash", hash |-> v]
Entries(S) == [kind |-> "items", items |-> S]
OwnsEntries(p) == p \in DOMAIN owned /\ owned[p].kind = "items"

ListAt(p) == IF IsList(doc[p]) THEN doc[p] ELSE << >>
EntriesOf(v) == IF IsList(v) THEN ToSet(v) ELSE {}
Without(s, S) == Kept(s, Items \ S)

\* The branch of prepare_plan_native that treats p entry by entry.
EntryByEntry(q, p) ==
  /\ IsList(doc[p])
  /\ OwnsEntries(p) \/ (p \in DOMAIN q.gen /\ p \in Lists)

\* _foreign_items, less the entries the plan also generates ("owned from now
\* on"); << >> where p is not treated entry by entry.
Foreign(q, p) ==
  LET kept == IF OwnsEntries(p) THEN Without(doc[p], owned[p].items)
              ELSE IF p \in DOMAIN owned /\ owned[p] = Whole(doc[p]) THEN << >>
              ELSE doc[p]
  IN IF ~EntryByEntry(q, p) THEN << >>
     ELSE IF p \in DOMAIN q.gen THEN Without(kept, ToSet(q.gen[p]))
     ELSE kept

\* Wrong on purpose: a value already as the sources ask for is a conflict too.
Conflicts_NotGenerated(q) ==
  {p \in DOMAIN owned \cup DOMAIN q.gen :
     /\ doc[p] # Missing
     /\ ~EntryByEntry(q, p)
     /\ ~(p \in DOMAIN owned /\ owned[p] = Whole(doc[p]))}

\* Wrong on purpose: the manifest is not consulted for whole values.
Conflicts_NotOwned(q) ==
  {p \in DOMAIN owned \cup DOMAIN q.gen :
     /\ doc[p] # Missing
     /\ ~EntryByEntry(q, p)
     /\ ~(p \in DOMAIN q.gen /\ doc[p] = q.gen[p])}

\* "existing native value differs" and "modified generated native path".
Conflicts(q) ==
  {p \in DOMAIN owned \cup DOMAIN q.gen :
     /\ doc[p] # Missing
     /\ ~EntryByEntry(q, p)
     /\ ~(p \in DOMAIN owned /\ owned[p] = Whole(doc[p]))
     /\ ~(p \in DOMAIN q.gen /\ doc[p] = q.gen[p])}

\* Wrong on purpose: a withdrawn list takes the foreign entries with it.
Reconciled_DropsForeign(q, p) ==
  IF p \in DOMAIN q.gen
  THEN IF p \in Lists THEN Foreign(q, p) \o q.gen[p] ELSE q.gen[p]
  ELSE IF p \in DOMAIN owned THEN Missing ELSE doc[p]

\* Wrong on purpose: the generated entries are put ahead of the foreign ones.
Reconciled_ForeignLast(q, p) ==
  IF p \in DOMAIN q.gen
  THEN IF p \in Lists THEN q.gen[p] \o Foreign(q, p) ELSE q.gen[p]
  ELSE IF p \in DOMAIN owned
  THEN IF Foreign(q, p) # << >> THEN Foreign(q, p) ELSE Missing
  ELSE doc[p]

\* The value of p once stale pointers are withdrawn and generated ones set.
Reconciled(q, p) ==
  LET foreign == Foreign(q, p)
  IN IF p \in DOMAIN q.gen
     THEN IF p \in Lists THEN foreign \o q.gen[p] ELSE q.gen[p]
     ELSE IF p \in DOMAIN owned
     THEN IF foreign # << >> THEN foreign ELSE Missing
     ELSE doc[p]

\* "extend requires a list": patches are applied to the reconciled document.
PatchFails(q) == \E p \in DOMAIN q.extend : Reconciled(q, p) \in Scalars

\* Wrong on purpose: entries already there are added again.
Extended_Repeats(s, t) == s \o t

Extended(s, t) == s \o Without(t, ToSet(s))

\* apply_operations for the patch.
Patched(q, p) ==
  LET v == Reconciled(q, p)
  IN IF p \in q.delete THEN Missing
     ELSE IF p \in DOMAIN q.set THEN q.set[p]
     ELSE IF p \in DOMAIN q.extend THEN Extended(IF v = Missing THEN << >> ELSE v, q.extend[p])
     ELSE v

Candidate(q) == [p \in Pointers |-> Patched(q, p)]

\* Wrong on purpose: the entries a patch adds to a generated list are not owned.
Record_GeneratedOnly(q) ==
  [p \in DOMAIN q.gen |->
     IF p \in Lists THEN Entries(ToSet(q.gen[p])) ELSE Whole(Patched(q, p))]

Record(q) ==
  [p \in DOMAIN q.gen |->
     IF p \in Lists THEN Entries(ToSet(Patched(q, p)) \ ToSet(Foreign(q, p)))
     ELSE Whole(Patched(q, p))]

Changed(c) == {s \in Surfaces : \E p \in Pointers : SurfaceOf[p] = s /\ c[p] # doc[p]}

Refused(q) == Conflicts(q) # {} \/ PatchFails(q)

-----------------------------------------------------------------------------
(* One run.                                                                *)

Nothing == [p \in Pointers |-> Missing]

\* NativeConfigError or PatchError before anything is written.
Refuse ==
  /\ pc = "idle"
  /\ Refused(source)
  /\ outcome' = "refused"
  /\ UNCHANGED <<doc, owned, source, pc, txn, candidate, record, todo, theirs, loose, cut>>

\* prepare_plan_native: the documents are snapshots from here on.
Prepare ==
  /\ pc = "idle"
  /\ ~Refused(source)
  /\ pc' = "apply"
  /\ txn' = source
  /\ candidate' = Candidate(source)
  /\ record' = Record(source)
  /\ todo' = Changed(Candidate(source))
  /\ theirs' = [p \in Lists |->
                  IF p \in DOMAIN source.gen
                  THEN theirs[p] \ Record(source)[p].items ELSE theirs[p]]
  /\ loose' = loose \ DOMAIN source.gen
  /\ outcome' = "none"
  /\ UNCHANGED <<doc, owned, source, cut>>

\* One candidate of apply_native_candidates: the whole file is replaced.
Apply(s) ==
  /\ pc = "apply"
  /\ s \in todo
  /\ doc' = [p \in Pointers |-> IF SurfaceOf[p] = s THEN candidate[p] ELSE doc[p]]
  /\ todo' = todo \ {s}
  /\ loose' = loose \ {p \in txn.delete : SurfaceOf[p] = s}
  /\ theirs' = [p \in Lists |-> IF SurfaceOf[p] = s /\ p \in txn.delete THEN {} ELSE theirs[p]]
  /\ UNCHANGED <<owned, source, pc, txn, candidate, record, outcome, cut>>

\* publish_native_manifest.
Publish ==
  /\ pc = "apply"
  /\ todo = {}
  /\ owned' = record
  /\ pc' = "idle"
  /\ candidate' = Nothing
  /\ record' = << >>
  /\ outcome' = "done"
  /\ loose' = loose \cup (DOMAIN txn.set \ DOMAIN txn.gen)
  /\ theirs' = [p \in Lists |->
                  IF p \in DOMAIN txn.extend \ DOMAIN txn.gen
                  THEN theirs[p] \cup (EntriesOf(doc[p]) \cap ToSet(txn.extend[p]))
                  ELSE theirs[p]]
  /\ UNCHANGED <<doc, source, txn, todo, cut>>

\* The process dies, or publish_plan_manifests raises before the native manifest.
Crash ==
  /\ pc = "apply"
  /\ pc' = "idle"
  /\ todo' = {}
  /\ candidate' = Nothing
  /\ record' = << >>
  /\ outcome' = "crashed"
  /\ cut' = TRUE
  /\ UNCHANGED <<doc, owned, source, txn, theirs, loose>>

-----------------------------------------------------------------------------
(* The tools, and the person who edits the sources.                        *)

ChangeSource(q) ==
  /\ pc = "idle"
  /\ q # source
  /\ source' = q
  /\ outcome' = "none"
  /\ UNCHANGED <<doc, owned, pc, txn, candidate, record, todo, theirs, loose, cut>>

ToolWrites(p, v) ==
  /\ pc = "idle" \/ Interferes
  /\ doc' = [doc EXCEPT ![p] = v]
  /\ outcome' = "none"
  /\ UNCHANGED <<owned, source, pc, txn, candidate, record, todo, cut>>

\* An entry the manifest records is the compiler's again when it comes back.
AddEntry(p, k, x) ==
  /\ ~(doc[p] \in Scalars)
  /\ x \notin ToSet(ListAt(p))
  /\ ToolWrites(p, InsertAt(ListAt(p), k, x))
  /\ theirs' = IF OwnsEntries(p) /\ x \in owned[p].items THEN theirs
               ELSE [theirs EXCEPT ![p] = @ \cup {x}]
  /\ UNCHANGED loose

DropEntry(p, k) ==
  /\ k \in 1..Len(ListAt(p))
  /\ ToolWrites(p, RemoveAt(doc[p], k))
  /\ theirs' = [theirs EXCEPT ![p] = @ \ {doc[p][k]}]
  /\ UNCHANGED loose

\* A value the manifest records is the compiler's again when it comes back.
SetValue(p, v) ==
  /\ doc[p] # v
  /\ ToolWrites(p, v)
  /\ theirs' = [x \in Lists |-> IF x = p THEN {} ELSE theirs[x]]
  /\ loose' = IF v = Missing \/ (p \in DOMAIN owned /\ owned[p] = Whole(v))
              THEN loose \ {p} ELSE loose \cup {p}

Tool ==
  \/ \E p \in ToolPointers \cap Lists : \E k \in 1..(Len(ListAt(p)) + 1) :
       (\E x \in ToolItems : AddEntry(p, k, x)) \/ DropEntry(p, k)
  \/ \E p \in ToolPointers, v \in ToolScalars \cup {Missing} : SetValue(p, v)

Init ==
  /\ doc = [p \in Pointers |-> Missing]
  /\ owned = << >>
  /\ source \in Sources
  /\ txn = source
  /\ pc = "idle"
  /\ candidate = Nothing /\ record = << >> /\ todo = {}
  /\ theirs = [p \in Lists |-> {}] /\ loose = {}
  /\ outcome = "none" /\ cut = FALSE

Sync == Refuse \/ Prepare \/ (\E s \in Surfaces : Apply(s)) \/ Publish

Next == Sync \/ Crash \/ Tool \/ \E q \in Sources : ChangeSource(q)

Spec == Init /\ [][Next]_vars

-----------------------------------------------------------------------------
Ownerships(p) == IF p \in Lists THEN {Entries(S) : S \in SUBSET Items}
                 ELSE {Whole(v) : v \in Scalars}

IsManifest(m) ==
  DOMAIN m \subseteq Pointers /\ \A p \in DOMAIN m : m[p] \in Ownerships(p)

\* The variables hold values of the shapes their comments give; in particular
\* no list ever holds an entry twice.
TypeOK ==
  /\ DOMAIN doc = Pointers /\ \A p \in Pointers : doc[p] \in ValuesAt(p)
  /\ DOMAIN candidate = Pointers /\ \A p \in Pointers : candidate[p] \in ValuesAt(p)
  /\ IsManifest(owned) /\ IsManifest(record)
  /\ source \in Sources /\ txn \in Sources
  /\ pc \in {"idle", "apply"}
  /\ todo \subseteq Surfaces
  /\ theirs \in [Lists -> SUBSET Items]
  /\ loose \subseteq Pointers
  /\ outcome \in {"none", "refused", "done", "crashed"}
  /\ cut \in BOOLEAN

Only(v, S) == IF IsList(v) THEN Kept(v, S) ELSE << >>

PatchNames(q) == DOMAIN q.set \cup q.delete

(***************************************************************************)
(* A run never removes or reorders the entries a tool added to a list, nor *)
(* changes another value it set, unless the plan names the pointer: README *)
(* "entries a tool or person adds are kept", "unnamed native fields remain *)
(* tool-owned".                                                            *)
(***************************************************************************)
ToolWorkKept ==
  [][Sync \/ Crash =>
       /\ \A p \in Lists \ txn.delete : Only(doc'[p], theirs[p]) = Only(doc[p], theirs[p])
       /\ \A p \in loose \ PatchNames(txn) : doc'[p] = doc[p]]_vars

(***************************************************************************)
(* Foreign entries stand ahead of the ones the compiler owns, so that the  *)
(* generated rules win where the last match does (native.py _with_foreign).*)
(***************************************************************************)
ForeignFirst ==
  outcome = "done" =>
    \A p \in Lists \cap DOMAIN source.gen : \A i, j \in 1..Len(doc[p]) :
      (doc[p][i] \in owned[p].items /\ doc[p][j] \notin owned[p].items) => j < i

(***************************************************************************)
(* After a run that exits successfully --check reports nothing: preparing  *)
(* again yields the same documents and the same manifest.                  *)
(***************************************************************************)
DoneMeansSynced ==
  outcome = "done" => /\ ~Refused(source)
                      /\ Candidate(source) = doc
                      /\ Record(source) = owned

(***************************************************************************)
(* A run that was killed at any point can be repeated on the same sources, *)
(* but for a pointer that stopped being generated and that the plan's      *)
(* patch sets: the value the killed run left there is neither the one the  *)
(* manifest vouches for nor a generated one.                               *)
(***************************************************************************)
KilledRunRepeats ==
  outcome = "crashed" => /\ Conflicts(source) \subseteq DOMAIN source.set \ DOMAIN source.gen
                         /\ ~PatchFails(source)

(***************************************************************************)
(* As long as no run was cut short, what earlier runs generated is gone    *)
(* once the sources no longer ask for it: every entry and every value left *)
(* is somebody else's or in the current plan.                              *)
(***************************************************************************)
NothingForgotten ==
  (outcome = "done" /\ ~cut) =>
    \A p \in Pointers :
      IF IsList(doc[p])
      THEN EntriesOf(doc[p]) \subseteq theirs[p]
             \cup (IF p \in DOMAIN source.gen THEN ToSet(source.gen[p]) ELSE {})
             \cup (IF p \in DOMAIN source.extend THEN ToSet(source.extend[p]) ELSE {})
      ELSE doc[p] # Missing => p \in DOMAIN source.gen \cup DOMAIN source.set \cup loose

(***************************************************************************)
(* As long as no run was cut short, a run is refused only over a value a   *)
(* tool or a patch set: the compiler accepts its own earlier output.       *)
(***************************************************************************)
OwnOutputAccepted == (pc = "idle" /\ ~cut) => Conflicts(source) \subseteq loose
=============================================================================
