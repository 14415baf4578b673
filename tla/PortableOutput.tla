--------------------------- MODULE PortableOutput ---------------------------
(***************************************************************************)
(* The portable half of one sync: how the generated files and trees of a   *)
(* plan reach the home directory, and how the per-root manifests record    *)
(* which of them the compiler owns (output/writer.py, io.py, and the order *)
(* sync.py calls them in).                                                 *)
(*                                                                         *)
(* A run first checks every generated and every manifested entry against   *)
(* the disk (preflight_plan), then writes file by file (write_plan), then, *)
(* manifest by manifest, prunes the entries no longer generated, hashes    *)
(* what is on disk and records it (publish_plan_manifests).  Nothing locks *)
(* the disk: the person who owns the home directory edits it between two   *)
(* runs, and during one if Interferes is TRUE.  A run may die between any  *)
(* two system calls; only a single write_bytes is atomic.                  *)
(*                                                                         *)
(* A hash is modelled as the content it is the hash of (no collisions).    *)
(***************************************************************************)
EXTENDS Integers, Sequences, Functions

CONSTANTS
  Paths,         \* the output paths of all plans: no one lies below another
  Trees,         \* those that are directories (manifest mode "dir")
  Slots,         \* the relative file names inside a tree
  Body,          \* the only slot of a path that is a file
  Stray,         \* the name of a temporary file write_bytes leaves if killed
  Bytes,         \* file contents the compilers generate
  UserBytes,     \* file contents a person types
  Temp,          \* the content of a half-written temporary file
  Groups,        \* the (manifest root, mode) pairs; one manifest file each
  PublishOrder,  \* the order in which _managed_groups yields them
  Plans,         \* the validated plans the sources compile to, over time
  UserNodes,     \* [Paths -> SUBSET {Link, Other}]: what else a person leaves,
                 \* links at and inside trees included
  Interferes,    \* whether a person also edits files while a run is going on
  Absent,        \* nothing at the path
  Link,          \* a symbolic link, at a path or inside a tree
  Other,         \* a directory where a file belongs, or the reverse
  NoPath

\* A file, or a directory of files and of what `odd` allows besides.
EntriesAt(p, odd) ==
  IF p \in Trees
  THEN UNION {[S -> Bytes \cup UserBytes \cup odd] : S \in SUBSET (Slots \cup {Stray})}
  ELSE [{Body} -> Bytes \cup UserBytes]

ContentsAt(p) == EntriesAt(p, {Temp})

NodesAt(p) == {Absent, Link, Other} \cup EntriesAt(p, {Temp, Link})

\* A file where a file belongs, a directory where a directory belongs.
Present(n) == n \notin {Absent, Link, Other}

LinkInside(n) == Present(n) /\ \E s \in DOMAIN n : n[s] = Link

\* What entry_hash hashes: a link, a path of the wrong kind and a directory with
\* a link inside hash to None.
Content(n) == Present(n) /\ ~LinkInside(n)

(***************************************************************************)
(* A plan that passed _validate_plan: each generated path has one content  *)
(* and lies below the manifest root of one group.  Generated content holds *)
(* neither stray nor user text, and a generated tree is never empty.       *)
(***************************************************************************)
GeneratedAt(p) ==
  IF p \in Trees
  THEN UNION {[S -> Bytes] : S \in (SUBSET Slots) \ {{}}}
  ELSE [{Body} -> Bytes]

IsPlan(q) ==
  /\ DOMAIN q.want \subseteq Paths
  /\ \A p \in DOMAIN q.want : q.want[p] \in GeneratedAt(p)
  /\ q.owner \in [DOMAIN q.want -> Groups]

ASSUME PathsAssumption == Trees \subseteq Paths /\ NoPath \notin Paths
ASSUME SlotsAssumption == Stray \notin Slots /\ Body \notin Slots \cup {Stray}
ASSUME BytesAssumption ==
  Temp \notin Bytes \cup UserBytes /\ Link \notin Bytes \cup UserBytes \cup {Temp}
ASSUME GroupsAssumption ==
  /\ PublishOrder \in Seq(Groups)
  /\ PublishOrder # << >>
  /\ Groups = {PublishOrder[i] : i \in 1..Len(PublishOrder)}
  /\ \A i, j \in 1..Len(PublishOrder) : PublishOrder[i] = PublishOrder[j] => i = j
ASSUME PlansAssumption == Plans # {} /\ \A q \in Plans : IsPlan(q)
ASSUME UserAssumption ==
  /\ Interferes \in BOOLEAN
  /\ UserNodes \in [Paths -> SUBSET {Link, Other}]
ASSUME NodesAssumption ==
  /\ Absent # Link /\ Absent # Other /\ Link # Other
  /\ \A p \in Paths : {Absent, Link, Other} \cap EntriesAt(p, {Temp, Link}) = {}

VARIABLES
  disk,      \* [Paths -> nodes]: the home directory
  manifest,  \* [Groups -> [owned paths -> recorded hash]]
  source,    \* the plan the configuration sources compile to now
  pc,        \* "idle", or the phase of the run: "write", "publish"
  txn,       \* the plan of the current or the last run
  todo,      \* write: paths still to write; publish: stale names still to prune
  tree,      \* write: the tree being written, or NoPath
  slots,     \* write: its files still to write
  at,        \* publish: the position in PublishOrder
  \* History variables, read by properties only:
  mine,      \* paths holding a person's work that no preflight has accepted
             \* and no run overwritten since
  outcome,   \* how the last run ended; "none" once anything changed since
  cut        \* some run crashed or failed after its preflight

vars == <<disk, manifest, source, pc, txn, todo, tree, slots, at, mine, outcome, cut>>

\* One file of a tree, or the file itself, given new content.
Put(f, s, b) == [x \in DOMAIN f \cup {s} |-> IF x = s THEN b ELSE f[x]]

Files == Paths \ Trees

\* The names _managed_groups collects for one manifest.
Names(q, g) == {p \in DOMAIN q.want : q.owner[p] = g}

Owned(g) == DOMAIN manifest[g]

\* History: what a step of a run overwrites is a person's no longer, but for a
\* directory that still holds a link.
Surrendered == mine' = {p \in mine : disk'[p] = disk[p] \/ LinkInside(disk'[p])}

-----------------------------------------------------------------------------
(***************************************************************************)
(* preflight_plan.                                                         *)
(***************************************************************************)

\* Wrong on purpose (for the mutation check): claims whatever is there.
Unclaimable_Never(q) == {}

\* "Refusing to claim unmanifested generated ...": something else is there.
Unclaimable(q) ==
  {p \in DOMAIN q.want :
     /\ p \notin Owned(q.owner[p])
     /\ disk[p] \notin {Absent, q.want[p]}}

\* Wrong on purpose: does not recognise the desired content.
Modified_NotDesired(q) ==
  {p \in Paths : \E g \in Groups :
     p \in Owned(g) /\ Content(disk[p]) /\ disk[p] # manifest[g][p]}

\* "Refusing to replace modified generated ...": neither the recorded content
\* nor, where the same group still generates the path, the desired one.
Modified(q) ==
  {p \in Paths : \E g \in Groups :
     /\ p \in Owned(g)
     /\ Content(disk[p])
     /\ disk[p] # manifest[g][p]
     /\ ~(p \in Names(q, g) /\ disk[p] = q.want[p])}

Refused(q) == Unclaimable(q) \cup Modified(q)

\* What preflight takes as the compiler's own (or identical) at p.
Accepted(q, p) ==
  {manifest[g][p] : g \in {h \in Groups : p \in Owned(h)}}
    \cup {q.want[x] : x \in {p} \cap DOMAIN q.want}

\* run_sync up to a failed reconcile.  Nothing has been written.
Refuse ==
  /\ pc = "idle"
  /\ Refused(source) # {}
  /\ outcome' = "refused"
  /\ UNCHANGED <<disk, manifest, source, pc, txn, todo, tree, slots, at, mine, cut>>

\* run_sync up to apply_transaction: sources loaded, compiled and reconciled.
Begin ==
  /\ pc = "idle"
  /\ Refused(source) = {}
  /\ txn' = source
  /\ pc' = "write"
  /\ todo' = DOMAIN source.want
  /\ mine' = {p \in mine : disk[p] \notin Accepted(source, p)}
  /\ outcome' = "none"
  /\ UNCHANGED <<disk, manifest, source, tree, slots, at, cut>>

\* A run that does not reach its end, whatever raised.
Stop(how) ==
  /\ pc' = "idle"
  /\ todo' = {}
  /\ tree' = NoPath
  /\ slots' = {}
  /\ at' = 0
  /\ outcome' = how
  /\ cut' = TRUE
  /\ Surrendered
  /\ UNCHANGED <<manifest, source, txn>>

-----------------------------------------------------------------------------
(***************************************************************************)
(* write_plan: the files, then the trees, each tree file by file.  The     *)
(* order among files and among trees is the compilers'; any is allowed.    *)
(***************************************************************************)

\* Wrong on purpose: leaves an existing file alone.
WriteFile_OnlyNew(p) ==
  /\ pc = "write"
  /\ p \in todo \ Trees
  /\ disk[p] # Other
  /\ disk' = [disk EXCEPT ![p] = IF @ = Absent THEN txn.want[p] ELSE @]
  /\ todo' = todo \ {p}
  /\ UNCHANGED <<manifest, source, pc, txn, tree, slots, at, mine, outcome, cut>>

\* write_bytes on a generated file.  A link is replaced by os.replace unless
\* the bytes it leads to (not modelled) happen to be the generated ones.
WriteFile(p) ==
  /\ pc = "write"
  /\ p \in todo \ Trees
  /\ disk[p] # Other
  /\ \/ disk' = [disk EXCEPT ![p] = txn.want[p]]
     \/ disk[p] = Link /\ UNCHANGED disk
  /\ todo' = todo \ {p}
  /\ Surrendered
  /\ UNCHANGED <<manifest, source, pc, txn, tree, slots, at, outcome, cut>>

\* os.replace onto a directory, or mkdir over a file: an uncaught OSError.
WriteBlocked(p) ==
  /\ pc = "write"
  /\ p \in todo
  /\ p \in Trees => todo \subseteq Trees /\ tree = NoPath
  /\ disk[p] = Other
  /\ UNCHANGED disk
  /\ Stop("failed")

\* _write_owned_tree: a linked tree is left alone, any other is made a directory.
OpenTree(p) ==
  /\ pc = "write"
  /\ tree = NoPath
  /\ todo \subseteq Trees
  /\ p \in todo
  /\ disk[p] # Other
  /\ todo' = todo \ {p}
  /\ IF disk[p] = Link
     THEN UNCHANGED <<disk, tree, slots>>
     ELSE /\ disk' = [disk EXCEPT ![p] = IF @ = Absent THEN << >> ELSE @]
          /\ tree' = p
          /\ slots' = DOMAIN txn.want[p]
  /\ UNCHANGED <<manifest, source, pc, txn, at, mine, outcome, cut>>

\* One write_bytes inside the tree, which treats a link there as WriteFile does.
WriteSlot(s) ==
  /\ pc = "write"
  /\ tree # NoPath
  /\ s \in slots
  /\ \/ disk' = [disk EXCEPT ![tree] = Put(@, s, txn.want[tree][s])]
     \/ /\ s \in DOMAIN disk[tree] /\ disk[tree][s] = Link
        /\ UNCHANGED disk
  /\ slots' = slots \ {s}
  /\ Surrendered
  /\ UNCHANGED <<manifest, source, pc, txn, todo, tree, at, outcome, cut>>

\* Wrong on purpose: leaves the files the plan does not name.
PruneTree_Keep ==
  /\ pc = "write"
  /\ tree # NoPath
  /\ slots = {}
  /\ tree' = NoPath
  /\ UNCHANGED <<disk, manifest, source, pc, txn, todo, slots, at, mine, outcome, cut>>

\* _prune_tree removes every file and every link the plan does not name.
PruneTree ==
  /\ pc = "write"
  /\ tree # NoPath
  /\ slots = {}
  /\ disk' = [disk EXCEPT ![tree] = Restrict(@, DOMAIN @ \cap DOMAIN txn.want[tree])]
  /\ tree' = NoPath
  /\ Surrendered
  /\ UNCHANGED <<manifest, source, pc, txn, todo, slots, at, outcome, cut>>

-----------------------------------------------------------------------------
(***************************************************************************)
(* publish_plan_manifests: sync_manifested_entries for each group in turn. *)
(***************************************************************************)
Current == PublishOrder[at]

\* prune_stale_entries: previous.keys() - current.
Stale(i) == Owned(PublishOrder[i]) \ Names(txn, PublishOrder[i])

StartPublish ==
  /\ pc = "write"
  /\ todo = {}
  /\ tree = NoPath
  /\ pc' = "publish"
  /\ at' = 1
  /\ todo' = Stale(1)
  /\ UNCHANGED <<disk, manifest, source, txn, tree, slots, mine, outcome, cut>>

\* Wrong on purpose: forgets to unlink.
PruneStale_Keep(p) ==
  /\ pc = "publish"
  /\ p \in todo
  /\ Content(disk[p]) => disk[p] = manifest[Current][p]
  /\ todo' = todo \ {p}
  /\ UNCHANGED <<disk, manifest, source, pc, txn, tree, slots, at, mine, outcome, cut>>

\* One stale name: modified content is a conflict; recorded content is removed,
\* and so is a directory without a hash; a link or a path of the wrong kind stays.
PruneStale(p) ==
  /\ pc = "publish"
  /\ p \in todo
  /\ Content(disk[p]) => disk[p] = manifest[Current][p]
  /\ disk' = [disk EXCEPT ![p] = IF Present(@) THEN Absent ELSE @]
  /\ todo' = todo \ {p}
  /\ Surrendered
  /\ UNCHANGED <<manifest, source, pc, txn, tree, slots, at, outcome, cut>>

PruneConflict(p) ==
  /\ pc = "publish"
  /\ p \in todo
  /\ Content(disk[p]) /\ disk[p] # manifest[Current][p]
  /\ UNCHANGED disk
  /\ Stop("failed")

\* Every current entry is hashed as it is on disk now, and recorded.
PublishGroup ==
  /\ pc = "publish"
  /\ todo = {}
  /\ \A p \in Names(txn, Current) : Content(disk[p])
  /\ manifest' = [manifest EXCEPT ![Current] = Restrict(disk, Names(txn, Current))]
  /\ IF at < Len(PublishOrder)
     THEN /\ at' = at + 1
          /\ todo' = Stale(at + 1)
          /\ UNCHANGED <<pc, outcome>>
     ELSE /\ at' = 0
          /\ pc' = "idle"
          /\ outcome' = "done"
          /\ UNCHANGED todo
  /\ UNCHANGED <<disk, source, txn, tree, slots, mine, cut>>

\* "Managed ... is missing or unsafe".
PublishConflict ==
  /\ pc = "publish"
  /\ todo = {}
  /\ \E p \in Names(txn, Current) : ~Content(disk[p])
  /\ UNCHANGED disk
  /\ Stop("failed")

-----------------------------------------------------------------------------
(***************************************************************************)
(* The process dies.  What a system call was doing then may be half done:  *)
(* a temporary file left in the tree, part of the unexpected files of the  *)
(* tree unlinked, part of a stale tree removed by rmtree.                  *)
(***************************************************************************)
TempLeft ==
  /\ tree # NoPath /\ slots # {}
  /\ disk' = [disk EXCEPT ![tree] = Put(@, Stray, Temp)]

PartlyPruned ==
  /\ tree # NoPath /\ slots = {}
  /\ \E S \in SUBSET DOMAIN disk[tree] :
       /\ DOMAIN disk[tree] \cap DOMAIN txn.want[tree] \subseteq S
       /\ disk' = [disk EXCEPT ![tree] = Restrict(@, S)]

PartlyRemoved(p) ==
  /\ pc = "publish"
  /\ p \in todo \cap Trees
  /\ Present(disk[p])
  /\ Content(disk[p]) => disk[p] = manifest[Current][p]
  /\ \E S \in SUBSET DOMAIN disk[p] : disk' = [disk EXCEPT ![p] = Restrict(@, S)]

Crash ==
  /\ pc # "idle"
  /\ \/ UNCHANGED disk
     \/ TempLeft
     \/ PartlyPruned
     \/ \E p \in Paths : PartlyRemoved(p)
  /\ Stop("crashed")

-----------------------------------------------------------------------------
(***************************************************************************)
(* The person: edits the sources, and the home directory.                  *)
(***************************************************************************)
ChangeSource(q) ==
  /\ pc = "idle"
  /\ q # source
  /\ source' = q
  /\ outcome' = "none"
  /\ UNCHANGED <<disk, manifest, pc, txn, todo, tree, slots, at, mine, cut>>

Touch(p, n) ==
  /\ disk' = [disk EXCEPT ![p] = n]
  /\ outcome' = "none"
  /\ UNCHANGED <<manifest, source, pc, txn, todo, tree, slots, at, cut>>

SlotsAt(p) == IF p \in Trees THEN Slots ELSE {Body}

\* What a person leaves in one file: text, or inside a tree a link.
SavedAt(p) == UserBytes \cup (IF p \in Trees THEN UserNodes[p] \cap {Link} ELSE {})

\* An editor saves one file, new or existing, or it is replaced by a link.
Save(p, s, b) ==
  /\ pc = "idle" \/ Interferes
  /\ disk[p] = Absent \/ Present(disk[p])
  /\ Touch(p, IF disk[p] = Absent THEN [x \in {s} |-> b] ELSE Put(disk[p], s, b))
  /\ mine' = mine \cup {p}

Delete(p) ==
  /\ pc = "idle"
  /\ disk[p] # Absent
  /\ Touch(p, Absent)
  /\ mine' = mine \ {p}

\* The person moves the entry elsewhere and links to it, or changes its kind.
Replace(p, n) ==
  /\ pc = "idle"
  /\ n \in UserNodes[p]
  /\ disk[p] # n
  /\ Touch(p, n)
  /\ mine' = mine \cup {p}

User ==
  \/ \E q \in Plans : ChangeSource(q)
  \/ \E p \in Paths :
       \/ \E s \in SlotsAt(p), b \in SavedAt(p) : Save(p, s, b)
       \/ Delete(p)
       \/ \E n \in {Link, Other} : Replace(p, n)

Step ==
  \/ \E p \in Paths : WriteFile(p) \/ WriteBlocked(p) \/ OpenTree(p)
  \/ \E s \in Slots : WriteSlot(s)
  \/ PruneTree
  \/ StartPublish
  \/ \E p \in Paths : PruneStale(p) \/ PruneConflict(p)
  \/ PublishGroup
  \/ PublishConflict

Sync == Refuse \/ Begin \/ Step

Init ==
  /\ disk = [p \in Paths |-> Absent]
  /\ manifest = [g \in Groups |-> << >>]
  /\ source \in Plans
  /\ txn = source
  /\ pc = "idle"
  /\ todo = {} /\ tree = NoPath /\ slots = {} /\ at = 0
  /\ mine = {} /\ outcome = "none" /\ cut = FALSE

Next == Sync \/ Crash \/ User

Spec == Init /\ [][Next]_vars

(***************************************************************************)
(* A process that was started is scheduled until it ends.  Nothing makes a *)
(* person start one (Begin), so that is a premise of Converges instead.    *)
(***************************************************************************)
FairSpec == Spec /\ WF_vars(Step)

-----------------------------------------------------------------------------
\* The variables hold values of the shapes their comments give.
TypeOK ==
  /\ \A p \in Paths : disk[p] \in NodesAt(p)
  /\ DOMAIN disk = Paths
  /\ DOMAIN manifest = Groups
  /\ \A g \in Groups :
       /\ DOMAIN manifest[g] \subseteq Paths
       /\ \A p \in DOMAIN manifest[g] : manifest[g][p] \in ContentsAt(p)
  /\ source \in Plans /\ txn \in Plans
  /\ pc \in {"idle", "write", "publish"}
  /\ todo \subseteq Paths
  /\ tree \in Trees \cup {NoPath}
  /\ slots \subseteq Slots
  /\ at \in 0..Len(PublishOrder)
  /\ mine \subseteq Paths
  /\ outcome \in {"none", "refused", "done", "failed", "crashed"}
  /\ cut \in BOOLEAN

\* A path a manifest names and a person made a link at, or left one inside: it
\* has no hash, and preflight takes it for absent (io.py entry_hash returns None
\* for both, writer.py preflight_plan refuses only `actual is not None`).
Overlooked(p) ==
  /\ \E g \in Groups : p \in Owned(g)
  /\ IF p \in Trees THEN LinkInside(disk[p]) ELSE disk[p] = Link

(***************************************************************************)
(* What a person put at a path is not changed by a run, whatever the order *)
(* of edits, source changes, crashes and reruns, but for one case.         *)
(* README.md says the compiler "refuses to replace modified managed        *)
(* content" and that "unmanifested siblings remain untouched".  The        *)
(* second holds; the first does not where the content holds a link, so     *)
(* this is the claim less what is Overlooked: a run silently replaces a    *)
(* link at a manifested file (os.replace in write_bytes), and overwrites   *)
(* or removes a manifested tree with a link inside, the person's other     *)
(* edits in it included.  Everything else relies on preflight covering     *)
(* every path a later step writes or prunes.                               *)
(***************************************************************************)
UserWorkKept ==
  [][Sync \/ Crash => \A p \in mine : disk'[p] = disk[p] \/ Overlooked(p)]_vars

(***************************************************************************)
(* A manifest vouches only for what a compiler generated: re-hashing the   *)
(* disk at publication never records a half-written tree, a crash's        *)
(* leftovers or a person's text as owned (io.py sync_manifested_entries).  *)
(***************************************************************************)
Compiled(p) == {q.want[p] : q \in {r \in Plans : p \in DOMAIN r.want}}

ManifestVouches ==
  \A g \in Groups : \A p \in Owned(g) : manifest[g][p] \in Compiled(p)

\* plan_drift returns nothing: `sync --check` exits 0.
NoDrift(q) ==
  /\ \A p \in DOMAIN q.want : disk[p] = q.want[p]
  /\ \A g \in Groups :
       /\ Owned(g) = Names(q, g)
       /\ \A p \in Owned(g) : manifest[g][p] = disk[p]

(***************************************************************************)
(* A run that exits successfully leaves nothing for --check to report      *)
(* (tests/test_cli.py:63 asserts it after two runs of one source).         *)
(***************************************************************************)
DoneMeansSynced == outcome = "done" => NoDrift(source)

\* A path recorded by a group other than the one that generates it now.
Moved(q, p) == \E g \in Groups : p \in Owned(g) /\ p \in DOMAIN q.want /\ q.owner[p] # g

(***************************************************************************)
(* A run that was killed can be repeated: preflight refuses the same       *)
(* sources only over a tree (a crash inside one leaves content that is     *)
(* neither the old nor the new) or over a path changing manifests.         *)
(***************************************************************************)
KilledRunRepeats ==
  outcome = "crashed" => \A p \in Refused(source) : p \in Trees \/ Moved(source, p)

(***************************************************************************)
(* Every entry the compiler left on disk is recorded in a manifest, so a   *)
(* later run can prune it, unless some run was cut short between writing   *)
(* content and publishing the manifests (sync.py apply_transaction).       *)
(***************************************************************************)
NothingForgotten ==
  (pc = "idle" /\ ~cut) =>
    \A p \in Paths \ mine : Content(disk[p]) => \E g \in Groups : p \in Owned(g)

(***************************************************************************)
(* Under ordinary life (edits, deletions, source changes, but no run cut   *)
(* short) the compiler never refuses a path nobody touched, other than one *)
(* changing manifests: its own older output is always recognised.          *)
(***************************************************************************)
OwnOutputAccepted ==
  (pc = "idle" /\ ~cut) => \A p \in Refused(source) : p \in mine \/ Moved(source, p)

\* Preflight refuses, or the disk holds something a run cannot get past.
Blocked ==
  \/ Refused(source) # {}
  \/ \E p \in DOMAIN source.want : disk[p] # Absent /\ ~Content(disk[p])

(***************************************************************************)
(* Repeating undisturbed runs reaches a state without drift, and stays     *)
(* there, or one a person has to resolve: no pair of manifests makes the   *)
(* runs alternate for ever.                                                *)
(***************************************************************************)
Converges ==
  (<>[][~User /\ ~Crash]_vars /\ []<><<Refuse \/ Begin>>_vars)
    => <>[](Blocked \/ (pc = "idle" => NoDrift(source)))
=============================================================================
