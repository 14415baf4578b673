-------------------------- MODULE SyncTransaction --------------------------
(***************************************************************************)
(* The two halves of a sync put together, for several processes at once    *)
(* (sync.py: reconcile, apply_transaction, run_sync).                      *)
(*                                                                         *)
(* A run compares the files with their manifest, then takes a copy of the  *)
(* native documents, writes the files, writes the documents, prunes and    *)
(* publishes the manifest of the files, and publishes the native manifest. *)
(* Nothing is locked and nothing is read again in between, while another   *)
(* run, a person or a tool may be writing.                                 *)
(*                                                                         *)
(* PortableOutput and NativeConfig have the details of each half.  Here    *)
(* there is one generated root of plain files, and of a native document    *)
(* the generated list of each surface: a set of entries, of which the ones *)
(* tools add are not also generated.                                       *)
(***************************************************************************)
EXTENDS Naturals

CONSTANTS
  Runs,         \* processes of the sync command
  Files,        \* paths below the root
  Contents,     \* what the compiler generates
  Edits,        \* what a person puts there instead
  Absent,       \* no file
  Surfaces,     \* native documents
  Entries,      \* the entries the compiler generates
  ToolEntries,  \* the entries tools add
  Sources,      \* the plans the sources compile to, over time
  MaxChanges    \* bound on the changes by people and tools

Plans == [files : UNION {[names -> Contents] : names \in SUBSET Files},
          entries : [Surfaces -> SUBSET Entries]]

ASSUME SourcesAssumption == Sources # {} /\ Sources \subseteq Plans
ASSUME BoundAssumption == MaxChanges \in Nat
ASSUME ApartAssumption ==
  /\ Contents \cap Edits = {} /\ Absent \notin Contents \cup Edits
  /\ Entries \cap ToolEntries = {}
  /\ Files \cap Surfaces = {}
  /\ Files \cap (Surfaces \X (Entries \cup ToolEntries)) = {}

VARIABLES
  disk,      \* [Files -> contents or Absent]
  manifest,  \* .coding-agents-managed.json: [names -> recorded contents]
  docs,      \* [Surfaces -> entries]
  record,    \* .coding-agents-native.json: [Surfaces -> owned entries]
  source,    \* what the sources compile to now
  job,       \* [Runs -> the state of each process]
  \* History variables, read by properties only:
  touched,   \* files and entries others changed during a run
  raced,     \* runs of different plans overlapped, or a run was cut short
  calm,      \* what has happened since a run last started alone
  changes    \* how many changes others have made, up to MaxChanges

vars == <<disk, manifest, docs, record, source, job, touched, raced, calm, changes>>

Nothing == [s \in Surfaces |-> {}]
NoFiles == [f \in {} |-> Absent]

NoPlan == [files |-> NoFiles, entries |-> Nothing]

\* A process: where it is, its plan, the paths it has still to visit, and what
\* it computed and has not used yet.
Idle == [at |-> "idle", plan |-> NoPlan, todo |-> {}, candidates |-> Nothing,
         owned |-> Nothing, rewrites |-> FALSE, previous |-> NoFiles, entries |-> NoFiles]

Busy == {r \in Runs : job[r].at # "idle"}

-----------------------------------------------------------------------------
(* What a run computes from what it reads.                                 *)

\* Wrong on purpose: an unmanifested file is taken over.
Conflicts_Claims(q) ==
  {f \in DOMAIN manifest :
     disk[f] \notin {Absent, manifest[f]} \cup (IF f \in DOMAIN q.files THEN {q.files[f]} ELSE {})}

\* preflight_plan: "Refusing to claim" and "Refusing to replace modified".
Conflicts(q) ==
  {f \in DOMAIN q.files \ DOMAIN manifest : disk[f] \notin {Absent, q.files[f]}} \cup
  {f \in DOMAIN manifest :
     disk[f] \notin {Absent, manifest[f]} \cup (IF f \in DOMAIN q.files THEN {q.files[f]} ELSE {})}

\* _foreign_items, less the entries the plan also generates.
Foreign(q, s) == (docs[s] \ record[s]) \ q.entries[s]

Candidate(q) == [s \in Surfaces |-> Foreign(q, s) \cup q.entries[s]]

\* Wrong on purpose: what is in the document already is not owned again.
Owned_Added(q) == [s \in Surfaces |-> Candidate(q)[s] \ docs[s]]

Owned(q) == [s \in Surfaces |-> Candidate(q)[s] \ Foreign(q, s)]

\* plan_drift, and the drift of prepare_plan_native: --check lists nothing.
NoDrift(q) ==
  /\ manifest = q.files
  /\ \A f \in DOMAIN q.files : disk[f] = q.files[f]
  /\ docs = Candidate(q)
  /\ record = Owned(q)

-----------------------------------------------------------------------------
(* One process.  A preflight that finds a conflict changes nothing.        *)

\* Edits made during earlier runs count as made before this one, but for a file
\* whose edited content the manifest records as if it were generated.
Settled == {f \in touched \cap DOMAIN manifest : manifest[f] \in Edits}

Preflight(r) ==
  /\ job[r] = Idle
  /\ Conflicts(source) = {}
  /\ job' = [job EXCEPT ![r] = [Idle EXCEPT !.at = "prepare", !.plan = source]]
  /\ touched' = IF Busy = {} THEN Settled ELSE touched
  /\ raced' = (raced \/ \E o \in Busy : job[o].plan # source)
  /\ calm' = IF Busy = {} THEN "undisturbed" ELSE calm
  /\ UNCHANGED <<disk, manifest, docs, record, source, changes>>

\* prepare_plan_native.
Prepare(r) ==
  /\ job[r].at = "prepare"
  /\ LET q == job[r].plan
     IN job' = [job EXCEPT ![r] =
          [@ EXCEPT !.at = "write",
                    !.candidates = Candidate(q),
                    !.owned = Owned(q),
                    !.rewrites = Owned(q) # record,
                    !.todo = DOMAIN q.files \cup {s \in Surfaces : Candidate(q)[s] # docs[s]}]]
  /\ UNCHANGED <<disk, manifest, docs, record, source, touched, raced, calm, changes>>

\* The run only reports the drift (--check), or prepare_plan_native refuses.
Leave(r) ==
  /\ job[r].at = "prepare"
  /\ job' = [job EXCEPT ![r] = Idle]
  /\ UNCHANGED <<disk, manifest, docs, record, source, touched, raced, calm, changes>>

\* write_plan, one file at a time.
WriteFile(r, f) ==
  /\ job[r].at = "write"
  /\ f \in job[r].todo
  /\ disk' = [disk EXCEPT ![f] = job[r].plan.files[f]]
  /\ job' = [job EXCEPT ![r].todo = @ \ {f}]
  /\ UNCHANGED <<manifest, docs, record, source, touched, raced, calm, changes>>

\* apply_native_candidates, one document at a time.
WriteDocument(r, s) ==
  /\ job[r].at = "write"
  /\ job[r].todo \cap Files = {}
  /\ s \in job[r].todo
  /\ docs' = [docs EXCEPT ![s] = job[r].candidates[s]]
  /\ job' = [job EXCEPT ![r].todo = @ \ {s}]
  /\ UNCHANGED <<disk, manifest, record, source, touched, raced, calm, changes>>

\* sync_manifested_entries reads the manifest as it is now.
OpenManifest(r) ==
  /\ job[r].at = "write"
  /\ job[r].todo = {}
  /\ job' = [job EXCEPT ![r] =
       [@ EXCEPT !.at = "prune", !.previous = manifest,
                 !.todo = DOMAIN manifest \ DOMAIN job[r].plan.files]]
  /\ UNCHANGED <<disk, manifest, docs, record, source, touched, raced, calm, changes>>

\* prune_stale_entries, one name at a time; an edited file raises (Raise).
Prune(r, f) ==
  /\ job[r].at = "prune"
  /\ f \in job[r].todo
  /\ disk[f] \in {Absent, job[r].previous[f]}
  /\ disk' = [disk EXCEPT ![f] = Absent]
  /\ job' = [job EXCEPT ![r].todo = @ \ {f}]
  /\ UNCHANGED <<manifest, docs, record, source, touched, raced, calm, changes>>

\* The hashes of what is on disk now; a missing file raises.
HashFiles(r) ==
  /\ job[r].at = "prune"
  /\ job[r].todo = {}
  /\ \A f \in DOMAIN job[r].plan.files : disk[f] # Absent
  /\ job' = [job EXCEPT ![r] =
       [@ EXCEPT !.at = "publish", !.previous = NoFiles,
                 !.entries = [f \in DOMAIN job[r].plan.files |-> disk[f]]]]
  /\ UNCHANGED <<disk, manifest, docs, record, source, touched, raced, calm, changes>>

WriteManifest(r) ==
  /\ job[r].at = "publish"
  /\ manifest' = job[r].entries
  /\ job' = [job EXCEPT ![r] = [@ EXCEPT !.at = "finish", !.entries = NoFiles]]
  /\ UNCHANGED <<disk, docs, record, source, touched, raced, calm, changes>>

\* publish_native_manifest.
WriteRecord(r) ==
  /\ job[r].at = "finish"
  /\ record' = IF job[r].rewrites THEN job[r].owned ELSE record
  /\ job' = [job EXCEPT ![r] = Idle]
  /\ calm' = IF calm = "undisturbed" THEN "finished" ELSE calm
  /\ UNCHANGED <<disk, manifest, docs, source, touched, raced, changes>>

\* A conflict found too late, an error of the file system, or a kill.
Raise(r) ==
  /\ job[r].at \in {"write", "prune", "publish", "finish"}
  /\ job' = [job EXCEPT ![r] = Idle]
  /\ raced' = TRUE
  /\ calm' = "disturbed"
  /\ UNCHANGED <<disk, manifest, docs, record, source, touched, changes>>

-----------------------------------------------------------------------------
(* People and tools.                                                       *)

Change ==
  /\ changes < MaxChanges
  /\ changes' = changes + 1
  /\ calm' = "disturbed"

ByOthers(i) ==
  /\ Change
  /\ touched' = IF Busy = {} THEN touched ELSE touched \cup {i}
  /\ UNCHANGED <<manifest, record, source, job, raced>>

Edit(f, c) ==
  /\ c # disk[f]
  /\ disk' = [disk EXCEPT ![f] = c]
  /\ ByOthers(f)
  /\ UNCHANGED docs

AddEntry(s, e) ==
  /\ e \notin docs[s]
  /\ docs' = [docs EXCEPT ![s] = @ \cup {e}]
  /\ ByOthers(<<s, e>>)
  /\ UNCHANGED disk

DropEntry(s, e) ==
  /\ e \in docs[s]
  /\ docs' = [docs EXCEPT ![s] = @ \ {e}]
  /\ ByOthers(<<s, e>>)
  /\ UNCHANGED disk

ChangeSource(q) ==
  /\ q # source
  /\ source' = q
  /\ Change
  /\ UNCHANGED <<disk, manifest, docs, record, job, touched, raced>>

Init ==
  /\ disk = [f \in Files |-> Absent]
  /\ manifest = NoFiles
  /\ docs = Nothing
  /\ record = Nothing
  /\ source \in Sources
  /\ job = [r \in Runs |-> Idle]
  /\ touched = {} /\ raced = FALSE /\ calm = "disturbed" /\ changes = 0

Step(r) ==
  \/ Preflight(r) \/ Prepare(r) \/ Leave(r)
  \/ \E f \in Files : WriteFile(r, f) \/ Prune(r, f)
  \/ \E s \in Surfaces : WriteDocument(r, s)
  \/ OpenManifest(r) \/ HashFiles(r) \/ WriteManifest(r) \/ WriteRecord(r)

Next ==
  \/ \E r \in Runs : Step(r) \/ Raise(r)
  \/ \E f \in Files, c \in Edits \cup {Absent} : Edit(f, c)
  \/ \E s \in Surfaces, e \in ToolEntries : AddEntry(s, e)
  \/ \E s \in Surfaces, e \in Entries \cup ToolEntries : DropEntry(s, e)
  \/ \E q \in Sources : ChangeSource(q)

Spec == Init /\ [][Next]_vars

-----------------------------------------------------------------------------
Manifests == UNION {[names -> Contents \cup Edits] : names \in SUBSET Files}
Documents == [Surfaces -> SUBSET (Entries \cup ToolEntries)]
Records == [Surfaces -> SUBSET Entries]
Jobs == [at : {"idle", "prepare", "write", "prune", "publish", "finish"},
         plan : Sources \cup {NoPlan}, todo : SUBSET (Files \cup Surfaces),
         candidates : Documents, owned : Records, rewrites : BOOLEAN,
         previous : Manifests, entries : Manifests]

\* The items of Custody.
Shared == Files \cup (Surfaces \X (Entries \cup ToolEntries))

\* The variables hold values of the shapes their comments give: in particular
\* the native manifest never names an entry of a tool.
TypeOK ==
  /\ disk \in [Files -> Contents \cup Edits \cup {Absent}]
  /\ manifest \in Manifests
  /\ docs \in Documents /\ record \in Records
  /\ source \in Sources
  /\ job \in [Runs -> Jobs]
  /\ touched \subseteq Shared
  /\ raced \in BOOLEAN
  /\ calm \in {"undisturbed", "finished", "disturbed"}
  /\ changes \in 0..MaxChanges

(***************************************************************************)
(* Runs that overlap and compile the same sources settle: once all have    *)
(* ended, one of them successfully, and nobody else interfered, --check    *)
(* reports nothing (sync.py takes no lock, and each run computes what to   *)
(* write before the other's writes are over).                              *)
(***************************************************************************)
OverlapSettles == (Busy = {} /\ calm = "finished") => NoDrift(source)

(***************************************************************************)
(* Custody.  Contents and entries tell who holds an item.                  *)
(***************************************************************************)
HolderOfFile(f) == IF disk[f] = Absent THEN "nobody"
                   ELSE IF disk[f] \in Edits THEN "other" ELSE "compiler"

HolderOfEntry(s, e) == IF e \notin docs[s] THEN "nobody"
                       ELSE IF e \in ToolEntries THEN "other" ELSE "compiler"

Holder == [i \in Shared |-> IF i \in Files THEN HolderOfFile(i) ELSE HolderOfEntry(i[1], i[2])]

Vouched == DOMAIN manifest \cup {i \in Shared \ Files : i[2] \in record[i[1]]}

Promise == INSTANCE Custody WITH
  Items <- Shared, holder <- Holder, vouched <- Vouched, running <- (Busy # {})

(***************************************************************************)
(* The whole sync, with any number of processes and others writing at any  *)
(* time, implements Custody: what somebody else put there is changed only  *)
(* if it was put there during a run, the compiler withdraws only what its  *)
(* manifests name, and unless runs of different plans overlapped or one    *)
(* was cut short the two manifests name at rest all it holds (README.md:   *)
(* "prunes only previously manifested entries").                           *)
(***************************************************************************)
KeepsCustody == Promise!Spec
=============================================================================
