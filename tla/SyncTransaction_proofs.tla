----------------------- MODULE SyncTransaction_proofs -----------------------
(***************************************************************************)
(* Proofs about SyncTransaction, for any number of processes, files,       *)
(* documents and plans.                                                    *)
(***************************************************************************)
EXTENDS SyncTransaction, TLAPS

-----------------------------------------------------------------------------
(* Types.                                                                  *)

LEMMA IdleIsJob == Idle \in Jobs
<1>1. NoFiles \in [{} -> Contents \cup Edits]
  BY DEF NoFiles
<1>2. NoFiles \in Manifests
  BY <1>1 DEF Manifests
<1>3. Nothing \in Documents /\ Nothing \in Records
  BY DEF Nothing, Documents, Records
<1> QED
  BY <1>2, <1>3 DEF Idle, Jobs

LEMMA PlanShape ==
  ASSUME NEW q \in Sources
  PROVE  /\ DOMAIN q.files \subseteq Files
         /\ q.files \in [DOMAIN q.files -> Contents]
         /\ q.entries \in Records
<1>1. q \in Plans
  BY SourcesAssumption
<1>2. PICK names \in SUBSET Files : q.files \in [names -> Contents]
  BY <1>1 DEF Plans
<1> QED
  BY <1>1, <1>2 DEF Plans, Records

LEMMA ManifestShape ==
  ASSUME NEW m \in Manifests
  PROVE  DOMAIN m \subseteq Files /\ m \in [DOMAIN m -> Contents \cup Edits]
BY DEF Manifests

\* What a plan makes of the documents it finds.
LEMMA CandidateShape ==
  ASSUME TypeOK, NEW q \in Sources
  PROVE  /\ Candidate(q) \in Documents
         /\ Owned(q) = q.entries
         /\ \A s \in Surfaces : /\ q.entries[s] \subseteq Candidate(q)[s]
                                /\ Candidate(q)[s] \cap ToolEntries = docs[s] \cap ToolEntries
                                /\ Candidate(q)[s] \cap Entries \subseteq
                                     (docs[s] \ record[s]) \cup q.entries[s]
                                /\ \A e \in record[s] \ q.entries[s] : e \notin Candidate(q)[s]
<1>1. q.entries \in Records
  BY PlanShape
<1>2. Candidate(q) \in Documents
  BY <1>1 DEF Candidate, Foreign, Documents, Records, TypeOK
<1>3. \A s \in Surfaces : Owned(q)[s] = q.entries[s]
  BY <1>1 DEF Owned, Candidate, Foreign, Records
<1>4. Owned(q) = q.entries
  BY <1>1, <1>3 DEF Owned, Records
<1>5. \A s \in Surfaces : record[s] \cap ToolEntries = {} /\ q.entries[s] \cap ToolEntries = {}
  BY <1>1, ApartAssumption DEF Records, TypeOK
<1> QED
  BY <1>1, <1>2, <1>4, <1>5 DEF Candidate, Foreign

-----------------------------------------------------------------------------
(***************************************************************************)
(* Type correctness.  A process that is not idle has one of the plans, the *)
(* files it has still to write are the plan's, the names it has still to   *)
(* prune were in the manifest it read and are not the plan's, and the      *)
(* entries it will record are the plan's.                                  *)
(***************************************************************************)
Past(r) == job[r].at \in {"write", "prune", "publish", "finish"}

Phases ==
  \A r \in Runs :
    /\ job[r].at # "idle" => job[r].plan \in Sources
    /\ job[r].at = "write" => job[r].todo \cap Files \subseteq DOMAIN job[r].plan.files
    /\ job[r].at = "prune" => job[r].todo \subseteq DOMAIN job[r].previous \ DOMAIN job[r].plan.files
    /\ job[r].at = "publish" => DOMAIN job[r].entries = DOMAIN job[r].plan.files
    /\ Past(r) => /\ job[r].owned = job[r].plan.entries
                  /\ \A s \in Surfaces : job[r].plan.entries[s] \subseteq job[r].candidates[s]

Typed == TypeOK /\ Phases

\* A step of r changes no other process, and most leave what r computed alone.
Alone(r) == \A o \in Runs \ {r} : job'[o] = job[o]

Kept(r) == /\ Alone(r)
           /\ job'[r].plan = job[r].plan /\ job'[r].rewrites = job[r].rewrites
           /\ job'[r].candidates = job[r].candidates /\ job'[r].owned = job[r].owned

\* A step of r that leaves the documents and the owned entries alone keeps the
\* other processes' phases.
LEMMA JobsTyped ==
  ASSUME Typed, NEW r \in Runs, NEW j \in Jobs, job' = [job EXCEPT ![r] = j]
  PROVE  /\ job' \in [Runs -> Jobs]
         /\ job'[r] = j
         /\ \A o \in Runs \ {r} : job'[o] = job[o]
BY DEF Typed, TypeOK

LEMMA InitTyped == Init => Typed
<1> SUFFICES ASSUME Init PROVE Typed
  OBVIOUS
<1>1. NoFiles \in Manifests /\ Nothing \in Documents /\ Nothing \in Records
  <2>1. NoFiles \in [{} -> Contents \cup Edits]
    BY DEF NoFiles
  <2> QED
    BY <2>1 DEF Manifests, Nothing, Documents, Records
<1>2. job \in [Runs -> Jobs] /\ \A r \in Runs : job[r].at = "idle"
  BY IdleIsJob DEF Init, Idle
<1>3. disk \in [Files -> Contents \cup Edits \cup {Absent}] /\ changes \in 0..MaxChanges
  BY BoundAssumption DEF Init
<1>4. touched \subseteq Shared /\ raced \in BOOLEAN
      /\ calm \in {"undisturbed", "finished", "disturbed"} /\ source \in Sources
  BY DEF Init
<1>5. TypeOK
  BY <1>1, <1>2, <1>3, <1>4 DEF Init, TypeOK
<1> QED
  BY <1>2, <1>5 DEF Typed, Phases, Past

LEMMA PreflightTyped == ASSUME Typed, NEW r \in Runs, Preflight(r) 
  PROVE  Typed' /\ Alone(r) /\ job'[r].at = "prepare" /\ job'[r].plan = source
<1> DEFINE j == [Idle EXCEPT !.at = "prepare", !.plan = source]
<1>1. j \in Jobs /\ j.at = "prepare" /\ j.plan = source
  BY IdleIsJob DEF Jobs, Typed, TypeOK, Idle
<1>2. job' = [job EXCEPT ![r] = j]
  BY DEF Preflight
<1> HIDE DEF j
<1>3. /\ job' \in [Runs -> Jobs] /\ job'[r] = j
      /\ \A o \in Runs \ {r} : job'[o] = job[o]
  BY <1>1, <1>2, JobsTyped
<1>4. TypeOK'
  BY <1>3 DEF Preflight, Typed, TypeOK, Settled
<1>5. Phases'
  BY <1>1, <1>3 DEF Typed, TypeOK, Phases, Past
<1> QED
  BY <1>1, <1>3, <1>4, <1>5 DEF Typed, Alone

LEMMA PrepareTyped == ASSUME Typed, NEW r \in Runs, Prepare(r) 
  PROVE  /\ Typed' /\ Alone(r)
         /\ job'[r].at = "write" /\ job'[r].plan = job[r].plan
         /\ job'[r].todo = DOMAIN job[r].plan.files \cup
                             {s \in Surfaces : Candidate(job[r].plan)[s] # docs[s]}
         /\ job'[r].candidates = Candidate(job[r].plan)
         /\ job'[r].rewrites = (job[r].plan.entries # record)
<1> DEFINE q == job[r].plan
           j == [job[r] EXCEPT !.at = "write",
                    !.candidates = Candidate(q),
                    !.owned = Owned(q),
                    !.rewrites = Owned(q) # record,
                    !.todo = DOMAIN q.files \cup {s \in Surfaces : Candidate(q)[s] # docs[s]}]
<1>1. q \in Sources /\ job[r] \in Jobs
  BY DEF Typed, TypeOK, Phases, Prepare
<1>2. Candidate(q) \in Documents /\ Owned(q) = q.entries /\ q.entries \in Records
      /\ DOMAIN q.files \subseteq Files
      /\ \A s \in Surfaces : q.entries[s] \subseteq Candidate(q)[s]
  BY <1>1, CandidateShape, PlanShape DEF Typed
<1>3. /\ j \in Jobs /\ j.at = "write" /\ j.plan = q /\ j.owned = q.entries
      /\ j.candidates = Candidate(q) /\ j.rewrites = (q.entries # record)
      /\ j.todo = DOMAIN q.files \cup {s \in Surfaces : Candidate(q)[s] # docs[s]}
  <2>1. (DOMAIN q.files \cup {s \in Surfaces : Candidate(q)[s] # docs[s]}) \in SUBSET (Files \cup Surfaces)
    BY <1>2
  <2> QED
    BY <1>1, <1>2, <2>1 DEF Jobs
<1>4. job' = [job EXCEPT ![r] = j]
  BY DEF Prepare
<1>5. j.todo \cap Files \subseteq DOMAIN q.files
  BY <1>3, ApartAssumption
<1> HIDE DEF j, q
<1>6. /\ job' \in [Runs -> Jobs] /\ job'[r] = j
      /\ \A o \in Runs \ {r} : job'[o] = job[o]
  BY <1>3, <1>4, JobsTyped
<1>7. TypeOK'
  BY <1>6 DEF Prepare, Typed, TypeOK
<1>8. Phases'
  BY <1>1, <1>2, <1>3, <1>5, <1>6 DEF Typed, Phases, Past
<1> QED
  BY <1>2, <1>3, <1>6, <1>7, <1>8 DEF Typed, Alone, q

LEMMA StepTyped ==
  ASSUME Typed, NEW r \in Runs, NEW j \in Jobs,
         job' = [job EXCEPT ![r] = j],
         j.at # "idle" => job[r].at # "idle",
         j.plan = job[r].plan, j.rewrites = job[r].rewrites,
         j.candidates = job[r].candidates, j.owned = job[r].owned,
         j.at \in {"write", "prune", "publish", "finish"} => Past(r),
         j.at = "write" => j.todo \cap Files \subseteq DOMAIN j.plan.files,
         j.at = "prune" => j.todo \subseteq DOMAIN j.previous \ DOMAIN j.plan.files,
         j.at = "publish" => DOMAIN j.entries = DOMAIN j.plan.files
  PROVE  job' \in [Runs -> Jobs] /\ Phases' /\ job'[r] = j /\ Kept(r)
<1>1. /\ job' \in [Runs -> Jobs] /\ job'[r] = j
      /\ \A o \in Runs \ {r} : job'[o] = job[o]
  BY JobsTyped
<1> QED
  BY <1>1 DEF Typed, Phases, Past, Alone, Kept

LEMMA RestTyped == 
  ASSUME Typed, NEW r \in Runs, Leave(r) \/ Raise(r)
  PROVE  Typed' /\ Alone(r) /\ job'[r].at = "idle"
<1>1. job' = [job EXCEPT ![r] = Idle] /\ Idle.at = "idle" /\ Idle \in Jobs
  BY IdleIsJob DEF Leave, Raise, Idle
<1>2. /\ job' \in [Runs -> Jobs] /\ job'[r] = Idle
      /\ \A o \in Runs \ {r} : job'[o] = job[o]
  BY <1>1, JobsTyped
<1>3. Phases'
  BY <1>1, <1>2 DEF Typed, Phases, Past
<1>4. TypeOK'
  BY <1>2 DEF Leave, Raise, Typed, TypeOK
<1> QED
  BY <1>1, <1>2, <1>3, <1>4 DEF Typed, Alone

LEMMA WriteFileTyped ==
  ASSUME Typed, NEW r \in Runs, NEW f \in Files, WriteFile(r, f) 
  PROVE  /\ Typed' /\ Kept(r) /\ job'[r].at = "write"
         /\ job'[r].todo = job[r].todo \ {f}
<1> DEFINE j == [job[r] EXCEPT !.todo = @ \ {f}]
<1>1. /\ job[r] \in Jobs /\ job[r].at = "write" /\ job[r].plan \in Sources
      /\ job[r].todo \cap Files \subseteq DOMAIN job[r].plan.files
      /\ f \in DOMAIN job[r].plan.files
  BY DEF Typed, TypeOK, Phases, WriteFile
<1>2. /\ j \in Jobs /\ j.at = "write" /\ j.plan = job[r].plan /\ j.todo = job[r].todo \ {f}
      /\ j.candidates = job[r].candidates /\ j.owned = job[r].owned
      /\ j.rewrites = job[r].rewrites
  BY <1>1 DEF Jobs
<1>3. job' = [job EXCEPT ![r] = j]
  BY DEF WriteFile
<1> HIDE DEF j
<1>4. job' \in [Runs -> Jobs] /\ Phases' /\ job'[r] = j /\ Kept(r)
  BY <1>1, <1>2, <1>3, StepTyped DEF Past
<1>5. disk' \in [Files -> Contents \cup Edits \cup {Absent}]
  BY <1>1, PlanShape DEF WriteFile, Typed, TypeOK
<1> QED
  BY <1>2, <1>4, <1>5 DEF WriteFile, Typed, TypeOK

LEMMA WriteDocumentTyped ==
  ASSUME Typed, NEW r \in Runs, NEW s \in Surfaces, WriteDocument(r, s) 
  PROVE  /\ Typed' /\ Kept(r) /\ job'[r].at = "write"
         /\ job'[r].todo = job[r].todo \ {s}
<1> DEFINE j == [job[r] EXCEPT !.todo = @ \ {s}]
<1>1. /\ job[r] \in Jobs /\ job[r].at = "write"
      /\ job[r].todo \cap Files \subseteq DOMAIN job[r].plan.files
  BY DEF Typed, TypeOK, Phases, WriteDocument
<1>2. /\ j \in Jobs /\ j.at = "write" /\ j.plan = job[r].plan /\ j.todo = job[r].todo \ {s}
      /\ j.candidates = job[r].candidates /\ j.owned = job[r].owned
      /\ j.rewrites = job[r].rewrites
      /\ job[r].candidates \in Documents
  BY <1>1 DEF Jobs
<1>3. job' = [job EXCEPT ![r] = j]
  BY DEF WriteDocument
<1> HIDE DEF j
<1>4. job' \in [Runs -> Jobs] /\ Phases' /\ job'[r] = j /\ Kept(r)
  BY <1>1, <1>2, <1>3, StepTyped DEF Past
<1>5. docs' \in Documents
  BY <1>2 DEF WriteDocument, Typed, TypeOK, Documents
<1> QED
  BY <1>2, <1>4, <1>5 DEF WriteDocument, Typed, TypeOK

LEMMA OpenManifestTyped ==
  ASSUME Typed, NEW r \in Runs, OpenManifest(r) 
  PROVE  /\ Typed' /\ Kept(r) /\ job'[r].at = "prune"
         /\ job'[r].todo = DOMAIN manifest \ DOMAIN job[r].plan.files /\ job'[r].previous = manifest
<1> DEFINE j == [job[r] EXCEPT !.at = "prune", !.previous = manifest,
                               !.todo = DOMAIN manifest \ DOMAIN job[r].plan.files]
<1>1. job[r] \in Jobs /\ job[r].at = "write" /\ manifest \in Manifests
  BY DEF Typed, TypeOK, OpenManifest
<1>2. (DOMAIN manifest \ DOMAIN job[r].plan.files) \in SUBSET (Files \cup Surfaces)
  BY <1>1, ManifestShape
<1>3. /\ j \in Jobs /\ j.at = "prune" /\ j.plan = job[r].plan
      /\ j.todo = DOMAIN manifest \ DOMAIN job[r].plan.files /\ j.previous = manifest
      /\ j.candidates = job[r].candidates /\ j.owned = job[r].owned
      /\ j.rewrites = job[r].rewrites
  BY <1>1, <1>2 DEF Jobs
<1>4. job' = [job EXCEPT ![r] = j]
  BY DEF OpenManifest
<1> HIDE DEF j
<1>5. job' \in [Runs -> Jobs] /\ Phases' /\ job'[r] = j /\ Kept(r)
  BY <1>1, <1>3, <1>4, StepTyped DEF Past
<1> QED
  BY <1>3, <1>5 DEF OpenManifest, Typed, TypeOK

LEMMA PruneTyped ==
  ASSUME Typed, NEW r \in Runs, NEW f \in Files, Prune(r, f) 
  PROVE  /\ Typed' /\ Kept(r) /\ job'[r].at = "prune"
         /\ job'[r].todo = job[r].todo \ {f} /\ job'[r].previous = job[r].previous
<1> DEFINE j == [job[r] EXCEPT !.todo = @ \ {f}]
<1>1. /\ job[r] \in Jobs /\ job[r].at = "prune"
      /\ job[r].todo \subseteq DOMAIN job[r].previous \ DOMAIN job[r].plan.files
  BY DEF Typed, TypeOK, Phases, Prune
<1>2. /\ j \in Jobs /\ j.at = "prune" /\ j.plan = job[r].plan /\ j.todo = job[r].todo \ {f}
      /\ j.candidates = job[r].candidates /\ j.owned = job[r].owned
      /\ j.rewrites = job[r].rewrites
      /\ j.previous = job[r].previous
  BY <1>1 DEF Jobs
<1>3. job' = [job EXCEPT ![r] = j]
  BY DEF Prune
<1> HIDE DEF j
<1>4. job' \in [Runs -> Jobs] /\ Phases' /\ job'[r] = j /\ Kept(r)
  BY <1>1, <1>2, <1>3, StepTyped DEF Past
<1>5. disk' \in [Files -> Contents \cup Edits \cup {Absent}]
  BY DEF Prune, Typed, TypeOK
<1> QED
  BY <1>2, <1>4, <1>5 DEF Prune, Typed, TypeOK

LEMMA HashFilesTyped ==
  ASSUME Typed, NEW r \in Runs, HashFiles(r) 
  PROVE  /\ Typed' /\ Kept(r) /\ job'[r].at = "publish"
         /\ job'[r].entries = [f \in DOMAIN job[r].plan.files |-> disk[f]]
<1> DEFINE hashes == [f \in DOMAIN job[r].plan.files |-> disk[f]]
           j == [job[r] EXCEPT !.at = "publish", !.previous = NoFiles, !.entries = hashes]
<1>1. job[r] \in Jobs /\ job[r].at = "prune" /\ job[r].plan \in Sources
  BY DEF Typed, TypeOK, Phases, HashFiles
<1>2. NoFiles \in Manifests
  BY IdleIsJob DEF Idle, Jobs
<1>3. hashes \in Manifests /\ DOMAIN hashes = DOMAIN job[r].plan.files
  <2>1. DOMAIN job[r].plan.files \subseteq Files
    BY <1>1, PlanShape
  <2>2. \A f \in DOMAIN job[r].plan.files : disk[f] \in Contents \cup Edits
    BY <2>1 DEF HashFiles, Typed, TypeOK
  <2>3. hashes \in [DOMAIN job[r].plan.files -> Contents \cup Edits]
    BY <2>2
  <2> QED
    BY <2>1, <2>3 DEF Manifests
<1> HIDE DEF hashes
<1>4. /\ j \in Jobs /\ j.at = "publish" /\ j.plan = job[r].plan /\ j.entries = hashes
      /\ j.candidates = job[r].candidates /\ j.owned = job[r].owned
      /\ j.rewrites = job[r].rewrites
  BY <1>1, <1>2, <1>3 DEF Jobs
<1>5. job' = [job EXCEPT ![r] = j]
  BY DEF HashFiles, hashes
<1> HIDE DEF j
<1>6. job' \in [Runs -> Jobs] /\ Phases' /\ job'[r] = j /\ Kept(r)
  BY <1>1, <1>3, <1>4, <1>5, StepTyped DEF Past
<1> QED
  BY <1>4, <1>6 DEF HashFiles, Typed, TypeOK, hashes

LEMMA WriteManifestTyped ==
  ASSUME Typed, NEW r \in Runs, WriteManifest(r) 
  PROVE  Typed' /\ Kept(r) /\ job'[r].at = "finish"
<1> DEFINE j == [job[r] EXCEPT !.at = "finish", !.entries = NoFiles]
<1>1. job[r] \in Jobs /\ job[r].at = "publish" /\ NoFiles \in Manifests
  BY IdleIsJob DEF Typed, TypeOK, WriteManifest, Idle, Jobs
<1>2. /\ j \in Jobs /\ j.at = "finish" /\ j.plan = job[r].plan
      /\ j.candidates = job[r].candidates /\ j.owned = job[r].owned
      /\ j.rewrites = job[r].rewrites
      /\ job[r].entries \in Manifests
  BY <1>1 DEF Jobs
<1>3. job' = [job EXCEPT ![r] = j]
  BY DEF WriteManifest
<1> HIDE DEF j
<1>4. job' \in [Runs -> Jobs] /\ Phases' /\ job'[r] = j /\ Kept(r)
  BY <1>1, <1>2, <1>3, StepTyped DEF Past
<1> QED
  BY <1>2, <1>4 DEF WriteManifest, Typed, TypeOK

LEMMA WriteRecordTyped ==
  ASSUME Typed, NEW r \in Runs, WriteRecord(r) 
  PROVE  Typed' /\ Alone(r) /\ job'[r].at = "idle"
<1>1. job[r] \in Jobs /\ Idle \in Jobs /\ Idle.at = "idle"
  BY IdleIsJob DEF Typed, TypeOK, Idle
<1>2. /\ job' \in [Runs -> Jobs] /\ job'[r] = Idle
      /\ \A o \in Runs \ {r} : job'[o] = job[o]
  BY <1>1, JobsTyped DEF WriteRecord
<1>3. Phases'
  BY <1>1, <1>2 DEF Typed, Phases, Past
<1>4. record' \in Records
  BY <1>1 DEF WriteRecord, Typed, TypeOK, Jobs
<1> QED
  BY <1>1, <1>2, <1>3, <1>4 DEF WriteRecord, Typed, TypeOK, Alone

\* What people and tools do to the state.
LEMMA OthersTyped ==
  ASSUME Typed, \/ \E f \in Files, c \in Edits \cup {Absent} : Edit(f, c)
                \/ \E s \in Surfaces, e \in ToolEntries : AddEntry(s, e)
                \/ \E s \in Surfaces, e \in Entries \cup ToolEntries : DropEntry(s, e)
                \/ \E q \in Sources : ChangeSource(q)
  PROVE  Typed'
<1>1. job' = job /\ record' = record /\ manifest' = manifest
  BY DEF Edit, AddEntry, DropEntry, ByOthers, ChangeSource
<1>2. Phases'
  BY <1>1 DEF Typed, Phases, Past
<1>3. changes' \in 0..MaxChanges /\ calm' = "disturbed"
  BY BoundAssumption DEF Edit, AddEntry, DropEntry, ByOthers, ChangeSource, Change, Typed, TypeOK
<1>4. /\ disk' \in [Files -> Contents \cup Edits \cup {Absent}]
      /\ docs' \in Documents /\ touched' \subseteq Shared
      /\ source' \in Sources /\ raced' = raced
  <2>1. CASE \E f \in Files, c \in Edits \cup {Absent} : Edit(f, c)
    BY <2>1 DEF Edit, ByOthers, Typed, TypeOK, Shared
  <2>2. CASE \E s \in Surfaces, e \in ToolEntries : AddEntry(s, e)
    BY <2>2 DEF AddEntry, ByOthers, Typed, TypeOK, Shared, Documents
  <2>3. CASE \E s \in Surfaces, e \in Entries \cup ToolEntries : DropEntry(s, e)
    BY <2>3 DEF DropEntry, ByOthers, Typed, TypeOK, Shared, Documents
  <2>4. CASE \E q \in Sources : ChangeSource(q)
    BY <2>4 DEF ChangeSource, Typed, TypeOK
  <2> QED
    BY <2>1, <2>2, <2>3, <2>4
<1> QED
  BY <1>1, <1>2, <1>3, <1>4 DEF Typed, TypeOK

LEMMA StepsTyped == Typed /\ [Next]_vars => Typed'
<1> SUFFICES ASSUME Typed, [Next]_vars PROVE Typed'
  OBVIOUS
<1>1. ASSUME NEW r \in Runs, Step(r) PROVE Typed'
  BY <1>1, PreflightTyped, PrepareTyped, RestTyped, WriteFileTyped, WriteDocumentTyped,
     OpenManifestTyped, PruneTyped, HashFilesTyped, WriteManifestTyped, WriteRecordTyped DEF Step
<1>2. ASSUME NEW r \in Runs, Raise(r) PROVE Typed'
  BY <1>2, RestTyped
<1>3. CASE UNCHANGED vars
  BY <1>3 DEF vars, Typed, TypeOK, Phases, Past
<1> QED
  BY <1>1, <1>2, <1>3, OthersTyped DEF Next

\* Type correctness, for any number of processes (TypeOK).
THEOREM SyncTypeOK == Spec => []TypeOK
<1>1. Typed => TypeOK
  BY DEF Typed
<1> QED
  BY <1>1, InitTyped, StepsTyped, PTL DEF Spec

-----------------------------------------------------------------------------
(***************************************************************************)
(* What others put somewhere between runs.  A file a process may still     *)
(* write, hash or prune, and a content a manifest records, are an edit     *)
(* only if the edit was made during a run; and the entries of tools in the *)
(* copy of a document are the ones there now, but for those a tool added   *)
(* or dropped during a run.                                                *)
(***************************************************************************)
Shelters(r) ==
  /\ job[r].at \in {"prepare", "write", "prune"} =>
       \A f \in DOMAIN job[r].plan.files : disk[f] \in Edits => f \in touched
  /\ job[r].at = "prune" =>
       \A f \in DOMAIN job[r].previous : job[r].previous[f] \in Edits => f \in touched
  /\ job[r].at = "publish" =>
       \A f \in DOMAIN job[r].entries : job[r].entries[f] \in Edits => f \in touched
  /\ job[r].at = "write" =>
       \A s \in Surfaces, t \in ToolEntries :
         <<s, t>> \notin touched => (t \in job[r].candidates[s] <=> t \in docs[s])

Sheltered ==
  /\ \A f \in DOMAIN manifest : manifest[f] \in Edits => f \in touched
  /\ \A r \in Runs : Shelters(r)

\* A process that does not move stays sheltered: whatever becomes an edit, or
\* changes among the entries of tools, is touched.
LEMMA ShelterFrame ==
  ASSUME Typed, NEW o \in Runs, Shelters(o), job'[o] = job[o], touched \subseteq touched',
         \A f \in Files : disk'[f] \in Edits => disk[f] \in Edits \/ f \in touched',
         \A s \in Surfaces, t \in ToolEntries :
           <<s, t>> \notin touched' => (t \in docs'[s] <=> t \in docs[s])
  PROVE  Shelters(o)'
<1>1. job[o].at \in {"prepare", "write", "prune"} => DOMAIN job[o].plan.files \subseteq Files
  BY PlanShape DEF Typed, Phases
<1> QED
  BY <1>1 DEF Shelters

LEMMA PreflightShelters ==
  ASSUME Typed, Sheltered, NEW r \in Runs, Preflight(r)
  PROVE  Sheltered'
<1>1. /\ Alone(r) /\ job'[r].at = "prepare" /\ job'[r].plan = source
      /\ disk' = disk /\ manifest' = manifest /\ docs' = docs
  BY PreflightTyped DEF Preflight
<1>2. source \in Sources /\ manifest \in Manifests
  BY DEF Typed, TypeOK
<1>3. \A f \in DOMAIN manifest : manifest[f] \in Edits => f \in touched'
  BY DEF Sheltered, Preflight, Settled
<1>4. Shelters(r)'
  <2> SUFFICES ASSUME NEW f \in DOMAIN source.files, disk[f] \in Edits
               PROVE  f \in touched'
    BY <1>1 DEF Shelters
  <2>1. source.files[f] \notin Edits /\ Absent \notin Edits
    BY <1>2, PlanShape, ApartAssumption
  <2>2. f \in DOMAIN manifest /\ disk[f] = manifest[f]
    BY <2>1 DEF Preflight, Conflicts
  <2> QED
    BY <1>3, <2>2
<1>5. ASSUME NEW o \in Runs \ {r} PROVE Shelters(o)'
  <2>1. CASE Busy = {}
    BY <1>1, <2>1 DEF Busy, Alone, Shelters
  <2>2. CASE Busy # {}
    <3>1. touched' = touched /\ job'[o] = job[o]
      BY <1>1, <2>2 DEF Preflight, Alone
    <3> QED
      BY <1>1, <3>1, ShelterFrame DEF Sheltered
  <2> QED
    BY <2>1, <2>2
<1> QED
  BY <1>1, <1>3, <1>4, <1>5 DEF Sheltered

LEMMA WritesShelter ==
  ASSUME Typed, Sheltered, NEW r \in Runs,
         \/ Prepare(r) \/ Leave(r) \/ Raise(r) \/ OpenManifest(r) \/ WriteRecord(r)
         \/ \E f \in Files : WriteFile(r, f)
         \/ \E s \in Surfaces : WriteDocument(r, s)
  PROVE  Sheltered'
<1>1. Alone(r) /\ touched' = touched /\ manifest' = manifest
  BY PrepareTyped, RestTyped, OpenManifestTyped, WriteRecordTyped, WriteFileTyped,
     WriteDocumentTyped
  DEF Prepare, Leave, Raise, OpenManifest, WriteRecord, WriteFile, WriteDocument, Kept
<1>2. \A f \in Files : disk'[f] \in Edits => disk[f] \in Edits
  <2>1. ASSUME NEW f \in Files, WriteFile(r, f) PROVE job[r].plan.files[f] \notin Edits
    BY <2>1, PlanShape, ApartAssumption DEF WriteFile, Typed, Phases
  <2>2. ASSUME NEW f \in Files, WriteFile(r, f)
        PROVE  \A g \in Files : disk'[g] \in Edits => disk[g] \in Edits
    BY <2>1, <2>2 DEF WriteFile, Typed, TypeOK
  <2> QED
    BY <2>2 DEF Prepare, Leave, Raise, OpenManifest, WriteRecord, WriteDocument
<1>3. \A s \in Surfaces, t \in ToolEntries :
        <<s, t>> \notin touched => (t \in docs'[s] <=> t \in docs[s])
  <2>1. ASSUME NEW d \in Surfaces, WriteDocument(r, d),
               NEW s \in Surfaces, NEW t \in ToolEntries, <<s, t>> \notin touched
        PROVE  t \in docs'[s] <=> t \in docs[s]
    BY <2>1 DEF WriteDocument, Sheltered, Shelters, Typed, TypeOK, Documents
  <2> QED
    BY <2>1 DEF Prepare, Leave, Raise, OpenManifest, WriteRecord, WriteFile
<1>4. ASSUME NEW o \in Runs \ {r} PROVE Shelters(o)'
  BY <1>1, <1>2, <1>3, ShelterFrame DEF Sheltered, Alone
<1>5. Shelters(r)'
  <2>1. CASE Prepare(r)
    <3>1. job[r].plan \in Sources /\ job[r].at = "prepare" /\ disk' = disk /\ docs' = docs
      BY <2>1 DEF Typed, Phases, Prepare
    <3>2. \A s \in Surfaces, t \in ToolEntries :
            t \in Candidate(job[r].plan)[s] <=> t \in docs[s]
      BY <3>1, CandidateShape DEF Typed
    <3> QED
      BY <1>1, <2>1, <3>1, <3>2, PrepareTyped DEF Sheltered, Shelters
  <2>2. CASE Leave(r) \/ Raise(r)
    BY <2>2, RestTyped DEF Shelters
  <2>3. CASE WriteRecord(r)
    BY <2>3, WriteRecordTyped DEF Shelters
  <2>4. CASE OpenManifest(r)
    BY <1>1, <2>4, OpenManifestTyped DEF OpenManifest, Kept, Sheltered, Shelters
  <2>5. ASSUME NEW f \in Files, WriteFile(r, f) PROVE Shelters(r)'
    <3>1. job[r].at = "write" /\ docs' = docs /\ DOMAIN job[r].plan.files \subseteq Files
      BY <2>5, PlanShape DEF WriteFile, Typed, Phases
    <3> QED
      BY <1>1, <1>2, <2>5, <3>1, WriteFileTyped DEF Kept, Sheltered, Shelters
  <2>6. ASSUME NEW s \in Surfaces, WriteDocument(r, s) PROVE Shelters(r)'
    <3>1. job[r].at = "write" /\ disk' = disk
      BY <2>6 DEF WriteDocument
    <3> QED
      BY <1>1, <1>3, <2>6, <3>1, WriteDocumentTyped DEF Kept, Sheltered, Shelters
  <2> QED
    BY <2>1, <2>2, <2>3, <2>4, <2>5, <2>6
<1> QED
  BY <1>1, <1>4, <1>5 DEF Sheltered

LEMMA PublicationShelters ==
  ASSUME Typed, Sheltered, NEW r \in Runs,
         HashFiles(r) \/ WriteManifest(r) \/ \E f \in Files : Prune(r, f)
  PROVE  Sheltered'
<1>1. Alone(r) /\ touched' = touched /\ docs' = docs
  BY HashFilesTyped, WriteManifestTyped, PruneTyped DEF HashFiles, WriteManifest, Prune, Kept
<1>2. \A f \in Files : disk'[f] \in Edits => disk[f] \in Edits
  BY ApartAssumption DEF HashFiles, WriteManifest, Prune, Typed, TypeOK
<1>3. ASSUME NEW o \in Runs \ {r} PROVE Shelters(o)'
  BY <1>1, <1>2, <1>3, ShelterFrame DEF Sheltered, Alone
<1>4. Shelters(r)'
  <2>1. CASE HashFiles(r)
    <3>1. job[r].at = "prune" /\ Shelters(r) /\ disk' = disk
      BY <2>1 DEF HashFiles, Sheltered
    <3>2. job'[r].at = "publish" /\ job'[r].entries = [f \in DOMAIN job[r].plan.files |-> disk[f]]
      BY <2>1, HashFilesTyped
    <3>3. \A f \in DOMAIN job'[r].entries : job'[r].entries[f] \in Edits => f \in touched'
      BY <1>1, <3>1, <3>2 DEF Shelters
    <3> QED
      BY <3>2, <3>3 DEF Shelters
  <2>2. CASE WriteManifest(r)
    BY <2>2, WriteManifestTyped DEF Shelters
  <2>3. ASSUME NEW f \in Files, Prune(r, f) PROVE Shelters(r)'
    <3>1. job[r].at = "prune" /\ DOMAIN job[r].plan.files \subseteq Files
      BY <2>3, PlanShape DEF Prune, Typed, Phases
    <3> QED
      BY <1>1, <1>2, <2>3, <3>1, PruneTyped DEF Kept, Sheltered, Shelters
  <2> QED
    BY <2>1, <2>2, <2>3
<1>5. \A f \in DOMAIN manifest' : manifest'[f] \in Edits => f \in touched'
  BY <1>1 DEF HashFiles, WriteManifest, Prune, Sheltered, Shelters
<1> QED
  BY <1>3, <1>4, <1>5 DEF Sheltered

LEMMA OthersShelter ==
  ASSUME Typed, Sheltered,
         \/ \E f \in Files, c \in Edits \cup {Absent} : Edit(f, c)
         \/ \E s \in Surfaces, e \in ToolEntries : AddEntry(s, e)
         \/ \E s \in Surfaces, e \in Entries \cup ToolEntries : DropEntry(s, e)
         \/ \E q \in Sources : ChangeSource(q)
  PROVE  Sheltered'
<1>1. job' = job /\ manifest' = manifest /\ touched \subseteq touched'
  BY DEF Edit, AddEntry, DropEntry, ByOthers, ChangeSource
<1>2. CASE Busy = {}
  BY <1>1, <1>2 DEF Busy, Sheltered, Shelters
<1>3. CASE Busy # {}
  <2>1. \A f \in Files : disk'[f] \in Edits => disk[f] \in Edits \/ f \in touched'
    BY <1>3 DEF Edit, AddEntry, DropEntry, ByOthers, ChangeSource, Typed, TypeOK
  <2>2. \A s \in Surfaces, t \in ToolEntries :
          <<s, t>> \notin touched' => (t \in docs'[s] <=> t \in docs[s])
    BY <1>3 DEF Edit, AddEntry, DropEntry, ByOthers, ChangeSource, Typed, TypeOK, Documents
  <2>3. \A o \in Runs : Shelters(o)'
    BY <1>1, <2>1, <2>2, ShelterFrame DEF Sheltered
  <2> QED
    BY <1>1, <2>3 DEF Sheltered
<1> QED
  BY <1>2, <1>3

LEMMA InitSheltered == Init => Sheltered
<1> SUFFICES ASSUME Init PROVE Sheltered
  OBVIOUS
<1>1. DOMAIN manifest = {} /\ \A r \in Runs : job[r].at = "idle"
  BY DEF Init, NoFiles, Idle
<1> QED
  BY <1>1 DEF Sheltered, Shelters

LEMMA StepsShelter == Typed /\ Sheltered /\ [Next]_vars => Sheltered'
<1> SUFFICES ASSUME Typed, Sheltered, [Next]_vars PROVE Sheltered'
  OBVIOUS
<1>1. ASSUME NEW r \in Runs, Step(r) \/ Raise(r) PROVE Sheltered'
  BY <1>1, PreflightShelters, WritesShelter, PublicationShelters DEF Step
<1>2. CASE UNCHANGED vars
  BY <1>2 DEF vars, Sheltered, Shelters
<1> QED
  BY <1>1, <1>2, OthersShelter DEF Next

-----------------------------------------------------------------------------
(***************************************************************************)
(* Runs of one plan.  As long as no run of another plan overlapped and     *)
(* none was cut short, all processes have the same plan, and what each has *)
(* done so far stays done whatever the others do: this is why overlapping  *)
(* runs leave nothing the manifests do not name.                           *)
(***************************************************************************)
WroteFile(r, f) == \/ job[r].at \in {"prune", "publish", "finish"}
                   \/ job[r].at = "write" /\ f \notin job[r].todo

WroteDocument(r, s) == \/ job[r].at \in {"prune", "publish", "finish"}
                       \/ job[r].at = "write" /\ s \notin job[r].todo

\* No generated file or entry is forgotten: a manifest names it, or a run that
\* will name it is going on.
FilesKnown ==
  \A f \in Files : disk[f] \in Contents =>
    f \in DOMAIN manifest \/ \E r \in Runs : Past(r) /\ f \in DOMAIN job[r].plan.files

EntriesKnown ==
  \A s \in Surfaces, e \in Entries : e \in docs[s] =>
    e \in record[s] \/ \E r \in Runs : Past(r) /\ e \in job[r].plan.entries[s]

OnePlan == \A r, o \in Busy : job[r].plan = job[o].plan

FilesDone(r) ==
  /\ \A f \in DOMAIN job[r].plan.files :
       WroteFile(r, f) => disk[f] \in Contents \/ f \in touched
  /\ \A f \in Files \ DOMAIN job[r].plan.files :
       \/ job[r].at = "prune" /\ f \notin job[r].todo
       \/ job[r].at = "publish"
       => disk[f] \notin Contents
  /\ job[r].at = "finish" => DOMAIN manifest = DOMAIN job[r].plan.files

EntriesDone(r) ==
  /\ Past(r) => \A s \in Surfaces : job[r].candidates[s] \cap Entries = job[r].plan.entries[s]
  /\ \A s \in Surfaces : WroteDocument(r, s) =>
       /\ docs[s] \cap Entries \subseteq job[r].plan.entries[s]
       /\ \A e \in job[r].plan.entries[s] : e \in docs[s] \/ <<s, e>> \in touched
  /\ Past(r) /\ ~job[r].rewrites => record = job[r].plan.entries

Serial ==
  ~raced =>
    /\ OnePlan /\ FilesKnown /\ EntriesKnown
    /\ \A r \in Busy : FilesDone(r) /\ EntriesDone(r)

(***************************************************************************)
(* Undisturbed runs.  Once a run has started alone and nobody interferes,  *)
(* every process works towards what the sources compile to now, and each   *)
(* finds in place what it and the others have done.                        *)
(***************************************************************************)
FilesInPlace == \A f \in DOMAIN source.files : disk[f] = source.files[f]

Steady(r) ==
  /\ job[r].plan = source
  /\ \A f \in DOMAIN source.files : WroteFile(r, f) => disk[f] = source.files[f]
  /\ \A s \in Surfaces : WroteDocument(r, s) => source.entries[s] \subseteq docs[s]
  /\ job[r].at = "publish" => job[r].entries = source.files
  /\ job[r].at = "finish" => manifest = source.files
  /\ Past(r) /\ ~job[r].rewrites => record = source.entries

Undisturbed ==
  /\ calm # "disturbed" => \A r \in Busy : Steady(r)
  /\ calm = "finished" =>
       /\ FilesInPlace /\ manifest = source.files /\ record = source.entries
       /\ \A s \in Surfaces : source.entries[s] \subseteq docs[s]

\* What the processes have in place stays there.
Keeps ==
  /\ source' = source
  /\ \A f \in DOMAIN source.files : disk[f] = source.files[f] => disk'[f] = source.files[f]
  /\ \A s \in Surfaces : source.entries[s] \subseteq docs[s] => source.entries[s] \subseteq docs'[s]
  /\ manifest' = manifest \/ manifest' = source.files
  /\ record' = record \/ record' = source.entries

LEMMA SteadyFrame ==
  ASSUME NEW o \in Runs, Steady(o), job'[o] = job[o], Keeps
  PROVE  Steady(o)'
<1>1. source' = source /\ job'[o] = job[o]
  BY DEF Keeps
<1>2. \A f : WroteFile(o, f)' <=> WroteFile(o, f)
  BY DEF WroteFile
<1>3. \A s : WroteDocument(o, s)' <=> WroteDocument(o, s)
  BY DEF WroteDocument
<1>4. Past(o)' <=> Past(o)
  BY DEF Past
<1> QED
  BY <1>1, <1>2, <1>3, <1>4 DEF Steady, Keeps

\* A step of a steady process keeps what is in place, and leaves it steady.
LEMMA PrepareSteady ==
  ASSUME Typed, NEW r \in Runs, Steady(r), Prepare(r)
  PROVE  Keeps /\ Steady(r)'
<1>1. /\ source' = source /\ disk' = disk /\ docs' = docs
      /\ manifest' = manifest /\ record' = record
  BY DEF Prepare
<1>2. job[r].plan = source /\ source \in Sources
  BY DEF Steady, Typed, TypeOK
<1>3. /\ job'[r].at = "write" /\ job'[r].plan = source
      /\ job'[r].todo = DOMAIN source.files \cup {s \in Surfaces : Candidate(source)[s] # docs[s]}
      /\ job'[r].rewrites = (source.entries # record)
  BY <1>2, PrepareTyped
<1>4. \A s \in Surfaces : WroteDocument(r, s)' => source.entries[s] \subseteq docs[s]
  BY <1>2, <1>3, CandidateShape DEF WroteDocument, Typed
<1>5. \A f \in DOMAIN source.files : ~WroteFile(r, f)'
  BY <1>3 DEF WroteFile
<1>6. ~job'[r].rewrites => record = source.entries
  BY <1>3
<1> QED
  BY <1>1, <1>3, <1>4, <1>5, <1>6 DEF Keeps, Steady

LEMMA WriteFileSteady ==
  ASSUME Typed, NEW r \in Runs, Steady(r), NEW f \in Files, WriteFile(r, f)
  PROVE  Keeps /\ Steady(r)'
<1>1. /\ source' = source /\ docs' = docs /\ manifest' = manifest /\ record' = record
      /\ disk' = [disk EXCEPT ![f] = source.files[f]]
      /\ job[r].at = "write" /\ job[r].plan = source
  BY DEF WriteFile, Steady
<1>2. disk \in [Files -> Contents \cup Edits \cup {Absent}]
      /\ DOMAIN source.files \subseteq Files
  BY PlanShape DEF Typed, TypeOK
<1>3. \A g \in DOMAIN source.files :
        disk'[g] = IF g = f THEN source.files[f] ELSE disk[g]
  BY <1>1, <1>2
<1>4. /\ job'[r].at = "write" /\ job'[r].plan = source /\ job'[r].todo = job[r].todo \ {f}
      /\ job'[r].rewrites = job[r].rewrites
  BY <1>1, WriteFileTyped DEF Kept
<1>5. \A g \in DOMAIN source.files : WroteFile(r, g)' => disk'[g] = source.files[g]
  BY <1>1, <1>3, <1>4 DEF WroteFile, Steady
<1>6. \A s \in Surfaces : WroteDocument(r, s)' => source.entries[s] \subseteq docs[s]
  BY <1>1, <1>4, ApartAssumption DEF WroteDocument, Steady
<1> QED
  BY <1>1, <1>3, <1>4, <1>5, <1>6 DEF Keeps, Steady, Past

LEMMA WriteDocumentSteady ==
  ASSUME Typed, NEW r \in Runs, Steady(r), NEW d \in Surfaces, WriteDocument(r, d)
  PROVE  Keeps /\ Steady(r)'
<1>1. /\ source' = source /\ disk' = disk /\ manifest' = manifest /\ record' = record
      /\ docs' = [docs EXCEPT ![d] = job[r].candidates[d]]
      /\ job[r].at = "write" /\ job[r].plan = source
  BY DEF WriteDocument, Steady
<1>2. docs \in [Surfaces -> SUBSET (Entries \cup ToolEntries)]
      /\ source.entries[d] \subseteq job[r].candidates[d]
  BY <1>1 DEF Typed, TypeOK, Documents, Phases, Past
<1>3. \A s \in Surfaces : docs'[s] = IF s = d THEN job[r].candidates[d] ELSE docs[s]
  BY <1>1, <1>2
<1>4. /\ job'[r].at = "write" /\ job'[r].plan = source /\ job'[r].todo = job[r].todo \ {d}
      /\ job'[r].rewrites = job[r].rewrites
  BY <1>1, WriteDocumentTyped DEF Kept
<1>5. \A f \in DOMAIN source.files : WroteFile(r, f)' => disk[f] = source.files[f]
  <2>1. DOMAIN source.files \subseteq Files
    BY PlanShape DEF Typed, TypeOK
  <2> QED
    BY <2>1, <1>1, <1>4, ApartAssumption DEF WroteFile, Steady
<1>6. \A s \in Surfaces : WroteDocument(r, s)' => source.entries[s] \subseteq docs'[s]
  BY <1>1, <1>2, <1>3, <1>4 DEF WroteDocument, Steady
<1> QED
  BY <1>1, <1>2, <1>3, <1>4, <1>5, <1>6 DEF Keeps, Steady, Past

LEMMA PruningSteady ==
  ASSUME Typed, NEW r \in Runs, Steady(r),
         OpenManifest(r) \/ (\E f \in Files : Prune(r, f)) \/ HashFiles(r)
  PROVE  Keeps /\ Steady(r)'
<1>1. /\ source' = source /\ docs' = docs /\ manifest' = manifest /\ record' = record
      /\ job[r].plan = source /\ job[r].at \in {"write", "prune"} /\ Past(r)
      /\ job[r].at = "write" => job[r].todo = {}
  BY DEF OpenManifest, Prune, HashFiles, Steady, Past
<1>2. /\ job'[r].at \in {"prune", "publish"} /\ job'[r].plan = source
      /\ job'[r].rewrites = job[r].rewrites
  BY <1>1, OpenManifestTyped, PruneTyped, HashFilesTyped DEF Kept
<1>3. \A f \in DOMAIN source.files : disk'[f] = disk[f]
  <2>1. ASSUME NEW f \in Files, Prune(r, f), NEW g \in DOMAIN source.files
        PROVE  disk'[g] = disk[g]
    <3>1. f # g
      BY <1>1, <2>1 DEF Prune, Typed, Phases
    <3>2. g \in Files
      BY PlanShape DEF Typed, TypeOK
    <3> QED
      BY <2>1, <3>1, <3>2 DEF Prune, Typed, TypeOK
  <2> QED
    BY <2>1 DEF OpenManifest, HashFiles
<1>4. /\ \A f \in DOMAIN source.files : disk'[f] = source.files[f]
      /\ \A s \in Surfaces : source.entries[s] \subseteq docs[s]
  BY <1>1, <1>3 DEF Steady, WroteFile, WroteDocument
<1>5. job'[r].at = "publish" => job'[r].entries = source.files
  <2> SUFFICES ASSUME job'[r].at = "publish" PROVE job'[r].entries = source.files
    OBVIOUS
  <2>1. HashFiles(r) /\ disk' = disk
    BY OpenManifestTyped, PruneTyped DEF HashFiles
  <2>2. job'[r].entries = [f \in DOMAIN source.files |-> disk[f]]
    BY <1>1, <2>1, HashFilesTyped
  <2>3. source.files = [f \in DOMAIN source.files |-> source.files[f]]
    BY PlanShape DEF Typed, TypeOK
  <2> QED
    BY <1>4, <2>1, <2>2, <2>3
<1> QED
  BY <1>1, <1>2, <1>3, <1>4, <1>5 DEF Keeps, Steady, Past

LEMMA WriteManifestSteady ==
  ASSUME Typed, NEW r \in Runs, Steady(r), WriteManifest(r)
  PROVE  Keeps /\ Steady(r)'
<1>1. /\ source' = source /\ disk' = disk /\ docs' = docs /\ record' = record
      /\ manifest' = source.files /\ job[r].at = "publish" /\ job[r].plan = source
  BY DEF WriteManifest, Steady
<1>2. /\ job'[r].at = "finish" /\ job'[r].plan = source
      /\ job'[r].rewrites = job[r].rewrites
  BY <1>1, WriteManifestTyped DEF Kept
<1> QED
  BY <1>1, <1>2 DEF Keeps, Steady, Past, WroteFile, WroteDocument

LEMMA WriteRecordSteady ==
  ASSUME Typed, NEW r \in Runs, Steady(r), WriteRecord(r)
  PROVE  /\ Keeps /\ record' = source.entries /\ manifest' = source.files
         /\ \A f \in DOMAIN source.files : disk'[f] = source.files[f]
         /\ \A s \in Surfaces : source.entries[s] \subseteq docs'[s]
<1>1. /\ source' = source /\ disk' = disk /\ docs' = docs /\ manifest' = manifest
      /\ job[r].at = "finish" /\ job[r].plan = source /\ Past(r)
      /\ record' = IF job[r].rewrites THEN job[r].owned ELSE record
  BY DEF WriteRecord, Steady, Past
<1>2. record' = source.entries /\ manifest' = source.files
  BY <1>1 DEF Steady, Typed, Phases
<1> QED
  BY <1>1, <1>2 DEF Keeps, Steady, WroteFile, WroteDocument

LEMMA StepsUndisturbed == Typed /\ Undisturbed /\ [Next]_vars => Undisturbed'
<1> SUFFICES ASSUME Typed, Undisturbed, [Next]_vars, calm' # "disturbed" PROVE Undisturbed'
  BY DEF Undisturbed
<1>1. ASSUME NEW r \in Runs, Preflight(r) PROVE Undisturbed'
  <2>1. /\ Alone(r) /\ job'[r].at = "prepare" /\ job'[r].plan = source
        /\ source' = source /\ disk' = disk /\ docs' = docs
        /\ manifest' = manifest /\ record' = record
    BY <1>1, PreflightTyped DEF Preflight
  <2>2. Steady(r)'
    BY <2>1 DEF Steady, Past, WroteFile, WroteDocument
  <2>3. CASE Busy = {}
    <3>1. Busy' \subseteq {r} /\ calm' = "undisturbed"
      BY <1>1, <2>1, <2>3 DEF Busy, Alone, Preflight
    <3> QED
      BY <2>2, <3>1 DEF Undisturbed
  <2>4. CASE Busy # {}
    <3>1. calm' = calm /\ Keeps
      BY <1>1, <2>1, <2>4 DEF Preflight, Keeps
    <3>2. ASSUME NEW o \in Busy' \ {r} PROVE Steady(o)'
      BY <1>1, <2>1, <3>1, <3>2, SteadyFrame DEF Busy, Alone, Undisturbed
    <3>3. calm' = "finished" =>
            /\ FilesInPlace' /\ manifest' = (source.files)' /\ record' = (source.entries)'
            /\ \A s \in Surfaces : (source.entries[s])' \subseteq docs'[s]
      BY <2>1, <3>1 DEF Undisturbed, FilesInPlace
    <3> QED
      BY <2>2, <3>2, <3>3 DEF Undisturbed
  <2> QED
    BY <2>3, <2>4
<1>2. ASSUME NEW r \in Runs, Step(r), ~Preflight(r) PROVE Undisturbed'
  <2>1. /\ Alone(r)
        /\ Leave(r) \/ WriteRecord(r) => job'[r].at = "idle"
    BY <1>2, PrepareTyped, RestTyped, WriteFileTyped, WriteDocumentTyped,
       OpenManifestTyped, PruneTyped, HashFilesTyped, WriteManifestTyped, WriteRecordTyped
    DEF Step, Kept
  <2>2. r \in Busy /\ calm # "disturbed"
    BY <1>2 DEF Step, Busy, Prepare, Leave, WriteFile, WriteDocument, OpenManifest, Prune,
       HashFiles, WriteManifest, WriteRecord
  <2>3. Steady(r)
    BY <2>2 DEF Undisturbed
  <2>4. Keeps /\ (job'[r].at # "idle" => Steady(r)')
    <3>1. Leave(r) => Keeps
      BY DEF Leave, Keeps
    <3> QED
      BY <1>2, <2>1, <2>3, <3>1, PrepareSteady, WriteFileSteady, WriteDocumentSteady,
         PruningSteady, WriteManifestSteady, WriteRecordSteady DEF Step
  <2>5. \A o \in Busy' \ {r} : Steady(o)'
    BY <2>1, <2>2, <2>4, SteadyFrame DEF Busy, Alone, Undisturbed
  <2>6. calm' = "finished" /\ calm # "finished" => WriteRecord(r)
    BY <1>2 DEF Step, Prepare, Leave, WriteFile, WriteDocument, OpenManifest, Prune,
       HashFiles, WriteManifest
  <2>7. calm' = "finished" =>
          /\ FilesInPlace' /\ manifest' = (source.files)' /\ record' = (source.entries)'
          /\ \A s \in Surfaces : (source.entries[s])' \subseteq docs'[s]
    <3>1. CASE calm = "finished"
      BY <2>4, <3>1 DEF Undisturbed, FilesInPlace, Keeps
    <3>2. CASE WriteRecord(r)
      BY <2>3, <2>4, <3>2, WriteRecordSteady DEF FilesInPlace, Keeps
    <3> QED
      BY <2>6, <3>1, <3>2
  <2>8. \A o \in Busy' : Steady(o)'
    BY <2>4, <2>5 DEF Busy
  <2> QED
    BY <2>7, <2>8 DEF Undisturbed
<1>3. CASE UNCHANGED vars
  BY <1>3 DEF vars, Undisturbed, Busy, Steady, Past, WroteFile, WroteDocument, FilesInPlace
<1>4. \A r \in Runs : ~Raise(r)
  BY DEF Raise
<1>5. ~ \/ \E f \in Files, c \in Edits \cup {Absent} : Edit(f, c)
        \/ \E s \in Surfaces, e \in ToolEntries : AddEntry(s, e)
        \/ \E s \in Surfaces, e \in Entries \cup ToolEntries : DropEntry(s, e)
        \/ \E q \in Sources : ChangeSource(q)
  BY DEF Edit, AddEntry, DropEntry, ByOthers, ChangeSource, Change
<1> QED
  BY <1>1, <1>2, <1>3, <1>4, <1>5 DEF Next

(***************************************************************************)
(* Overlapping runs of the same sources settle, for any number of          *)
(* processes (OverlapSettles).                                             *)
(***************************************************************************)
THEOREM SyncOverlapSettles == Spec => []OverlapSettles
<1>1. Init => Undisturbed
  BY DEF Init, Undisturbed
<1>2. Typed /\ Undisturbed => OverlapSettles
  <2> SUFFICES ASSUME Typed, Undisturbed, Busy = {}, calm = "finished" PROVE NoDrift(source)
    BY DEF OverlapSettles
  <2>1. /\ FilesInPlace /\ manifest = source.files /\ record = source.entries
        /\ \A s \in Surfaces : source.entries[s] \subseteq docs[s]
    BY DEF Undisturbed
  <2>2. /\ Candidate(source) = [s \in Surfaces |-> Foreign(source, s) \cup source.entries[s]]
        /\ Owned(source) = source.entries
    BY CandidateShape DEF Candidate, Typed, TypeOK
  <2>3. docs = [s \in Surfaces |-> docs[s]]
    BY DEF Typed, TypeOK, Documents
  <2>4. \A s \in Surfaces : Foreign(source, s) \cup source.entries[s] = docs[s]
    BY <2>1 DEF Foreign
  <2> QED
    BY <2>1, <2>2, <2>3, <2>4 DEF NoDrift, FilesInPlace
<1> QED
  BY <1>1, <1>2, InitTyped, StepsTyped, StepsUndisturbed, PTL DEF Spec

-----------------------------------------------------------------------------
(* Runs of one plan: Serial is an invariant.                               *)

Known == FilesKnown /\ EntriesKnown

Done(r) == FilesDone(r) /\ EntriesDone(r)

\* A step that undoes nothing of what a process with plan p has done.
Honours(p) ==
  /\ touched \subseteq touched'
  /\ \A f \in DOMAIN p.files : disk[f] \in Contents => disk'[f] \in Contents \/ f \in touched'
  /\ \A f \in Files \ DOMAIN p.files : disk'[f] \in Contents => disk[f] \in Contents
  /\ \A s \in Surfaces :
       /\ docs[s] \cap Entries \subseteq p.entries[s] => docs'[s] \cap Entries \subseteq p.entries[s]
       /\ \A e \in p.entries[s] : e \in docs[s] => e \in docs'[s] \/ <<s, e>> \in touched'
  /\ manifest' = manifest \/ DOMAIN manifest' = DOMAIN p.files
  /\ record' = record \/ record' = p.entries

LEMMA DoneFrame ==
  ASSUME NEW o \in Runs, Done(o), job'[o] = job[o], Honours(job[o].plan)
  PROVE  Done(o)'
<1>1. \A f : WroteFile(o, f)' <=> WroteFile(o, f)
  BY DEF WroteFile
<1>2. \A s : WroteDocument(o, s)' <=> WroteDocument(o, s)
  BY DEF WroteDocument
<1>3. Past(o)' <=> Past(o)
  BY DEF Past
<1>4. FilesDone(o)'
  BY <1>1 DEF FilesDone, Done, Honours
<1>5. EntriesDone(o)'
  BY <1>2, <1>3 DEF EntriesDone, Done, Honours
<1> QED
  BY <1>4, <1>5 DEF Done

\* A step that publishes nothing forgets nothing, if what it generates belongs
\* to a run that will publish it.
LEMMA KnownFrame ==
  ASSUME Known, manifest' = manifest, record' = record,
         \A o \in Runs : Past(o) => Past(o)' /\ job'[o].plan = job[o].plan,
         \A f \in Files : disk'[f] \in Contents =>
           disk[f] \in Contents \/ \E o \in Runs : Past(o)' /\ f \in DOMAIN job'[o].plan.files,
         \A s \in Surfaces, e \in Entries : e \in docs'[s] =>
           e \in docs[s] \/ \E o \in Runs : Past(o)' /\ e \in job'[o].plan.entries[s]
  PROVE  Known'
<1>1. FilesKnown'
  BY DEF Known, FilesKnown
<1>2. EntriesKnown'
  BY DEF Known, EntriesKnown
<1> QED
  BY <1>1, <1>2 DEF Known

LEMMA PrepareSerial ==
  ASSUME Typed, Serial, ~raced, NEW r \in Runs, Prepare(r)
  PROVE  Honours(job[r].plan) /\ Done(r)' /\ Known'
<1> DEFINE q == job[r].plan
<1>1. /\ disk' = disk /\ docs' = docs /\ manifest' = manifest /\ record' = record
      /\ touched' = touched /\ job[r].at = "prepare" /\ r \in Busy
  BY DEF Prepare, Busy
<1>2. q \in Sources /\ DOMAIN q.files \subseteq Files /\ q.entries \in Records
  BY <1>1, PlanShape DEF Typed, Phases
<1>3. /\ Alone(r) /\ job'[r].at = "write" /\ job'[r].plan = q
      /\ job'[r].todo = DOMAIN q.files \cup {s \in Surfaces : Candidate(q)[s] # docs[s]}
      /\ job'[r].candidates = Candidate(q)
      /\ job'[r].rewrites = (q.entries # record)
  BY PrepareTyped
<1> HIDE DEF q
<1>4. \A s \in Surfaces : Candidate(q)[s] \cap Entries = q.entries[s]
  <2>1. ASSUME NEW s \in Surfaces, NEW e \in Entries, e \in Candidate(q)[s], e \notin q.entries[s]
        PROVE  FALSE
    <3>1. e \in docs[s] /\ e \notin record[s]
      BY <1>2, <2>1, CandidateShape DEF Typed
    <3>2. PICK o \in Runs : Past(o) /\ e \in job[o].plan.entries[s]
      BY <3>1 DEF Serial, EntriesKnown
    <3>3. job[o].plan = q
      BY <1>1, <3>2 DEF Serial, OnePlan, Busy, Past, q
    <3> QED
      BY <2>1, <3>2, <3>3
  <2> QED
    BY <1>2, <2>1, CandidateShape DEF Typed, Records
<1>5. FilesDone(r)'
  BY <1>3 DEF FilesDone, WroteFile
<1>6. EntriesDone(r)'
  <2>1. \A s \in Surfaces : WroteDocument(r, s)' => docs[s] = Candidate(q)[s]
    BY <1>3 DEF WroteDocument
  <2>2. ~job'[r].rewrites => record = q.entries
    BY <1>3
  <2> QED
    BY <1>1, <1>3, <1>4, <2>1, <2>2 DEF EntriesDone
<1>7. Known'
  BY <1>1, <1>3, KnownFrame DEF Serial, Known, Alone, Past
<1> QED
  BY <1>1, <1>5, <1>6, <1>7 DEF Honours, Done, q

LEMMA WriteFileSerial ==
  ASSUME Typed, Serial, ~raced, NEW r \in Runs, NEW f \in Files, WriteFile(r, f)
  PROVE  Honours(job[r].plan) /\ Done(r)' /\ Known'
<1> DEFINE q == job[r].plan
<1>1. /\ docs' = docs /\ manifest' = manifest /\ record' = record /\ touched' = touched
      /\ disk' = [disk EXCEPT ![f] = q.files[f]]
      /\ job[r].at = "write" /\ r \in Busy /\ Past(r) /\ f \in job[r].todo
  BY DEF WriteFile, Busy, Past
<1>2. /\ DOMAIN q.files \subseteq Files /\ f \in DOMAIN q.files /\ q.files[f] \in Contents
      /\ disk \in [Files -> Contents \cup Edits \cup {Absent}]
  BY <1>1, PlanShape DEF Typed, TypeOK, Phases
<1>3. /\ Alone(r) /\ job'[r].at = "write" /\ job'[r].plan = q /\ job'[r].rewrites = job[r].rewrites
      /\ job'[r].candidates = job[r].candidates /\ job'[r].todo = job[r].todo \ {f}
  BY WriteFileTyped DEF Kept
<1>4. Done(r)
  BY <1>1 DEF Serial, Done
<1> HIDE DEF q
<1>5. \A g \in Files : disk'[g] = IF g = f THEN q.files[f] ELSE disk[g]
  BY <1>1, <1>2
<1>6. FilesDone(r)'
  BY <1>1, <1>2, <1>3, <1>4, <1>5 DEF Done, FilesDone, WroteFile, q
<1>7. \A s \in Surfaces : WroteDocument(r, s)' => WroteDocument(r, s)
  BY <1>1, <1>3, ApartAssumption DEF WroteDocument
<1>8. EntriesDone(r)'
  BY <1>1, <1>3, <1>4, <1>7 DEF Done, EntriesDone, Past, q
<1>9. Known'
  <2>1. Known /\ Past(r)' /\ \A o \in Runs : Past(o) => Past(o)' /\ job'[o].plan = job[o].plan
    BY <1>1, <1>3 DEF Serial, Known, Alone, Past, q
  <2>2. \A g \in Files : disk'[g] \in Contents =>
          disk[g] \in Contents \/ \E o \in Runs : Past(o)' /\ g \in DOMAIN job'[o].plan.files
    BY <1>2, <1>3, <1>5, <2>1
  <2> QED
    BY <1>1, <2>1, <2>2, KnownFrame
<1> QED
  BY <1>1, <1>2, <1>5, <1>6, <1>8, <1>9 DEF Honours, Done, q

LEMMA WriteDocumentSerial ==
  ASSUME Typed, Serial, ~raced, NEW r \in Runs, NEW d \in Surfaces, WriteDocument(r, d)
  PROVE  Honours(job[r].plan) /\ Done(r)' /\ Known'
<1> DEFINE q == job[r].plan
<1>1. /\ disk' = disk /\ manifest' = manifest /\ record' = record /\ touched' = touched
      /\ docs' = [docs EXCEPT ![d] = job[r].candidates[d]]
      /\ job[r].at = "write" /\ r \in Busy /\ Past(r) /\ job[r].todo \cap Files = {}
  BY DEF WriteDocument, Busy, Past
<1>2. q.entries \in Records /\ docs \in Documents /\ DOMAIN q.files \subseteq Files
  BY <1>1, PlanShape DEF Typed, TypeOK, Phases
<1>3. /\ Alone(r) /\ job'[r].at = "write" /\ job'[r].plan = q /\ job'[r].rewrites = job[r].rewrites
      /\ job'[r].candidates = job[r].candidates /\ job'[r].todo = job[r].todo \ {d}
  BY WriteDocumentTyped DEF Kept
<1>4. Done(r)
  BY <1>1 DEF Serial, Done
<1>5. \A s \in Surfaces : job[r].candidates[s] \cap Entries = q.entries[s]
  BY <1>1, <1>4 DEF Done, EntriesDone
<1> HIDE DEF q
<1>6. \A s \in Surfaces : docs'[s] = IF s = d THEN job[r].candidates[d] ELSE docs[s]
  BY <1>1, <1>2 DEF Documents
<1>7. FilesDone(r)'
  BY <1>1, <1>2, <1>3, <1>4, ApartAssumption DEF Done, FilesDone, WroteFile, q
<1>8. EntriesDone(r)'
  <2>1. \A s \in Surfaces \ {d} : WroteDocument(r, s)' => WroteDocument(r, s)
    BY <1>1, <1>3 DEF WroteDocument
  <2>2. docs'[d] \cap Entries = q.entries[d]
    BY <1>5, <1>6
  <2>3. \A s \in Surfaces : WroteDocument(r, s)' =>
          /\ docs'[s] \cap Entries \subseteq q.entries[s]
          /\ \A e \in q.entries[s] : e \in docs'[s] \/ <<s, e>> \in touched
    <3> TAKE s \in Surfaces
    <3>1. CASE s = d
      BY <2>2, <3>1
    <3>2. CASE s # d
      BY <1>4, <1>6, <2>1, <3>2 DEF Done, EntriesDone, q
    <3> QED
      BY <3>1, <3>2
  <2> QED
    BY <1>1, <1>3, <1>4, <1>5, <2>3 DEF Done, EntriesDone, q
<1>9. Known'
  <2>1. \A s \in Surfaces, e \in Entries : e \in docs'[s] => e \in docs[s] \/ e \in q.entries[s]
    BY <1>5, <1>6
  <2>2. Known /\ Past(r)' /\ \A o \in Runs : Past(o) => Past(o)' /\ job'[o].plan = job[o].plan
    BY <1>1, <1>3 DEF Serial, Known, Alone, Past, q
  <2>3. \A s \in Surfaces, e \in Entries : e \in docs'[s] =>
          e \in docs[s] \/ \E o \in Runs : Past(o)' /\ e \in job'[o].plan.entries[s]
    BY <1>3, <2>1, <2>2
  <2> QED
    BY <1>1, <2>2, <2>3, KnownFrame
<1>10. Honours(q)
  BY <1>1, <1>2, <1>5, <1>6 DEF Honours, Records
<1> QED
  BY <1>7, <1>8, <1>9, <1>10 DEF Done, q

LEMMA PruningSerial ==
  ASSUME Typed, Serial, ~raced, NEW r \in Runs,
         OpenManifest(r) \/ (\E f \in Files : Prune(r, f)) \/ HashFiles(r)
  PROVE  Honours(job[r].plan) /\ Done(r)' /\ Known'
<1> DEFINE q == job[r].plan
<1>1. /\ docs' = docs /\ manifest' = manifest /\ record' = record /\ touched' = touched
      /\ r \in Busy /\ Past(r) /\ job[r].at \in {"write", "prune"}
      /\ job[r].at = "write" => job[r].todo = {}
  BY DEF OpenManifest, Prune, HashFiles, Busy, Past
<1>2. DOMAIN q.files \subseteq Files /\ Absent \notin Contents
  BY <1>1, PlanShape, ApartAssumption DEF Typed, Phases, Past
<1>3. /\ Alone(r) /\ job'[r].at \in {"prune", "publish"} /\ job'[r].plan = q
      /\ job'[r].rewrites = job[r].rewrites /\ job'[r].candidates = job[r].candidates
  BY OpenManifestTyped, PruneTyped, HashFilesTyped DEF Kept
<1>4. Done(r)
  BY <1>1 DEF Serial, Done
<1> HIDE DEF q
<1>5. \A f \in Files : disk'[f] = disk[f] \/ (f \notin DOMAIN q.files /\ disk'[f] \notin Contents)
  <2>1. ASSUME NEW f \in Files, Prune(r, f), NEW g \in Files
        PROVE  disk'[g] = disk[g] \/ (g \notin DOMAIN q.files /\ disk'[g] \notin Contents)
    <3>1. f \notin DOMAIN q.files
      BY <2>1 DEF Prune, Typed, Phases, q
    <3>2. disk'[g] = IF g = f THEN Absent ELSE disk[g]
      BY <2>1 DEF Prune, Typed, TypeOK
    <3> QED
      BY <1>2, <3>1, <3>2
  <2> QED
    BY <2>1 DEF OpenManifest, HashFiles
<1>6. FilesDone(r)'
  <2>1. \A f \in DOMAIN q.files : disk'[f] \in Contents \/ f \in touched
    <3>1. \A f \in DOMAIN q.files : WroteFile(r, f)
      BY <1>1 DEF WroteFile
    <3> QED
      BY <1>2, <1>4, <1>5, <3>1 DEF Done, FilesDone, q
  <2>2. ASSUME NEW f \in Files \ DOMAIN q.files,
               \/ job'[r].at = "prune" /\ f \notin job'[r].todo
               \/ job'[r].at = "publish"
        PROVE  disk'[f] \notin Contents
    <3>1. CASE OpenManifest(r)
      <4>1. disk' = disk /\ f \notin DOMAIN manifest
        BY <2>2, <3>1, OpenManifestTyped DEF OpenManifest, q
      <4>2. ASSUME disk[f] \in Contents PROVE FALSE
        <5>1. PICK o \in Runs : Past(o) /\ f \in DOMAIN job[o].plan.files
          BY <4>1, <4>2 DEF Serial, FilesKnown
        <5>2. job[o].plan = q
          BY <1>1, <5>1 DEF Serial, OnePlan, Busy, Past, q
        <5> QED
          BY <2>2, <5>1, <5>2
      <4> QED
        BY <4>1, <4>2
    <3>2. CASE HashFiles(r)
      <4>1. job[r].at = "prune" /\ job[r].todo = {} /\ disk' = disk
        BY <3>2 DEF HashFiles
      <4> QED
        BY <1>4, <2>2, <4>1 DEF Done, FilesDone, q
    <3>3. ASSUME NEW g \in Files, Prune(r, g) PROVE disk'[f] \notin Contents
      <4>1. /\ job[r].at = "prune" /\ disk' = [disk EXCEPT ![g] = Absent]
            /\ disk \in [Files -> Contents \cup Edits \cup {Absent}]
        BY <3>3 DEF Prune, Typed, TypeOK
      <4>2. job'[r].at = "prune" /\ job'[r].todo = job[r].todo \ {g}
        BY <3>3, PruneTyped
      <4>3. CASE f = g
        BY <1>2, <4>1, <4>3
      <4>4. CASE f # g
        BY <1>4, <2>2, <4>1, <4>2, <4>4 DEF Done, FilesDone, q
      <4> QED
        BY <4>3, <4>4
    <3> QED
      BY <3>1, <3>2, <3>3
  <2> QED
    BY <1>1, <1>3, <2>1, <2>2 DEF FilesDone
<1>7. EntriesDone(r)'
  <2>1. \A s \in Surfaces : WroteDocument(r, s)
    BY <1>1 DEF WroteDocument
  <2> QED
    BY <1>1, <1>3, <1>4, <2>1 DEF Done, EntriesDone, q
<1>8. Known'
  <2>1. Known /\ \A o \in Runs : Past(o) => Past(o)' /\ job'[o].plan = job[o].plan
    BY <1>1, <1>3 DEF Serial, Known, Alone, Past, q
  <2> QED
    BY <1>1, <1>5, <2>1, KnownFrame
<1>9. Honours(q)
  BY <1>1, <1>2, <1>5 DEF Honours
<1> QED
  BY <1>6, <1>7, <1>8, <1>9 DEF Done, q

LEMMA WriteManifestSerial ==
  ASSUME Typed, Serial, ~raced, NEW r \in Runs, WriteManifest(r)
  PROVE  Honours(job[r].plan) /\ Done(r)' /\ Known'
<1> DEFINE q == job[r].plan
<1>1. /\ disk' = disk /\ docs' = docs /\ record' = record /\ touched' = touched
      /\ r \in Busy /\ Past(r) /\ job[r].at = "publish" /\ DOMAIN manifest' = DOMAIN q.files
  BY DEF WriteManifest, Busy, Past, Typed, Phases
<1>2. /\ Alone(r) /\ job'[r].at = "finish" /\ job'[r].plan = q
      /\ job'[r].rewrites = job[r].rewrites /\ job'[r].candidates = job[r].candidates
  BY WriteManifestTyped DEF Kept
<1>3. Done(r)
  BY <1>1 DEF Serial, Done
<1> HIDE DEF q
<1>4. FilesDone(r)'
  BY <1>1, <1>2, <1>3 DEF Done, FilesDone, WroteFile, q
<1>5. EntriesDone(r)'
  BY <1>1, <1>2, <1>3 DEF Done, EntriesDone, WroteDocument, Past, q
<1>6. FilesKnown'
  BY <1>1, <1>3 DEF Done, FilesDone, FilesKnown, q
<1>7. EntriesKnown'
  BY <1>1, <1>2 DEF Serial, EntriesKnown, Alone, Past, q
<1> QED
  BY <1>1, <1>4, <1>5, <1>6, <1>7 DEF Honours, Done, Known, q

LEMMA WriteRecordSerial ==
  ASSUME Typed, Serial, ~raced, NEW r \in Runs, WriteRecord(r)
  PROVE  Honours(job[r].plan) /\ Known' /\ record' = job[r].plan.entries
<1> DEFINE q == job[r].plan
<1>1. /\ disk' = disk /\ docs' = docs /\ manifest' = manifest /\ touched' = touched
      /\ r \in Busy /\ Past(r) /\ job[r].at = "finish"
      /\ record' = IF job[r].rewrites THEN job[r].owned ELSE record
  BY DEF WriteRecord, Busy, Past
<1>2. Done(r)
  BY <1>1 DEF Serial, Done
<1>3. record' = q.entries /\ DOMAIN manifest = DOMAIN q.files
  BY <1>1, <1>2 DEF Done, EntriesDone, FilesDone, Typed, Phases
<1>4. FilesKnown'
  <2>1. ASSUME NEW f \in Files, disk[f] \in Contents PROVE f \in DOMAIN manifest
    BY <1>1, <1>3, <2>1 DEF Serial, FilesKnown, OnePlan, Busy, Past
  <2> QED
    BY <1>1, <2>1 DEF FilesKnown
<1>5. EntriesKnown'
  <2>1. \A s \in Surfaces : docs[s] \cap Entries \subseteq q.entries[s]
    BY <1>1, <1>2 DEF Done, EntriesDone, WroteDocument
  <2> QED
    BY <1>1, <1>3, <2>1 DEF EntriesKnown
<1> QED
  BY <1>1, <1>3, <1>4, <1>5 DEF Honours, Known

LEMMA OthersSerial ==
  ASSUME Typed, Serial, ~raced',
         \/ \E f \in Files, c \in Edits \cup {Absent} : Edit(f, c)
         \/ \E s \in Surfaces, e \in ToolEntries : AddEntry(s, e)
         \/ \E s \in Surfaces, e \in Entries \cup ToolEntries : DropEntry(s, e)
         \/ \E q \in Sources : ChangeSource(q)
  PROVE  Serial'
<1>1. /\ job' = job /\ record' = record /\ manifest' = manifest /\ raced' = raced
      /\ touched \subseteq touched'
  BY DEF Edit, AddEntry, DropEntry, ByOthers, ChangeSource
<1>2. \A f \in Files : /\ disk'[f] \in Contents => disk[f] \in Contents
                       /\ disk'[f] = disk[f] \/ Busy = {} \/ f \in touched'
  BY ApartAssumption
  DEF Edit, AddEntry, DropEntry, ByOthers, ChangeSource, Typed, TypeOK
<1>3. \A s \in Surfaces : /\ docs'[s] \cap Entries \subseteq docs[s]
                          /\ \A e \in docs[s] : e \in docs'[s] \/ Busy = {} \/ <<s, e>> \in touched'
  <2>1. ASSUME NEW d \in Surfaces, NEW t \in ToolEntries, AddEntry(d, t), NEW s \in Surfaces
        PROVE  docs'[s] \cap Entries \subseteq docs[s] /\ docs[s] \subseteq docs'[s]
    BY <2>1, ApartAssumption DEF AddEntry, Typed, TypeOK, Documents
  <2>2. ASSUME NEW d \in Surfaces, NEW t \in Entries \cup ToolEntries, DropEntry(d, t),
               NEW s \in Surfaces
        PROVE  /\ docs'[s] \subseteq docs[s]
               /\ \A e \in docs[s] : e \in docs'[s] \/ Busy = {} \/ <<s, e>> \in touched'
    BY <2>2 DEF DropEntry, ByOthers, Typed, TypeOK, Documents
  <2>3. CASE docs' = docs
    BY <2>3
  <2>4. docs' = docs \/ (\E s \in Surfaces, e \in ToolEntries : AddEntry(s, e))
          \/ (\E s \in Surfaces, e \in Entries \cup ToolEntries : DropEntry(s, e))
    BY DEF Edit, ChangeSource
  <2> QED
    BY <2>1, <2>2, <2>3, <2>4
<1>4. ASSUME NEW o \in Busy PROVE Done(o)'
  <2>1. Done(o) /\ o \in Runs /\ job'[o] = job[o]
    BY <1>1, <1>4 DEF Serial, Done, Busy
  <2>2. DOMAIN job[o].plan.files \subseteq Files
    BY <1>4, PlanShape DEF Busy, Typed, Phases
  <2>3. Honours(job[o].plan)
    BY <1>1, <1>2, <1>3, <1>4, <2>2 DEF Honours
  <2> QED
    BY <2>1, <2>3, DoneFrame
<1>5. Known'
  <2>1. Known /\ \A o \in Runs : Past(o)' <=> Past(o)
    BY <1>1 DEF Serial, Known, Past
  <2> QED
    BY <1>1, <1>2, <1>3, <2>1, KnownFrame
<1>6. OnePlan' /\ Busy' = Busy
  BY <1>1 DEF Serial, OnePlan, Busy
<1> QED
  BY <1>4, <1>5, <1>6 DEF Serial, Known, Done

LEMMA StepsSerial == Typed /\ Serial /\ [Next]_vars => Serial'
<1> SUFFICES ASSUME Typed, Serial, [Next]_vars, ~raced' PROVE Serial'
  BY DEF Serial
<1>1. ASSUME NEW r \in Runs, Preflight(r) PROVE Serial'
  <2>1. /\ Alone(r) /\ job'[r].at = "prepare" /\ job'[r].plan = source /\ job[r].at = "idle"
        /\ disk' = disk /\ docs' = docs /\ manifest' = manifest /\ record' = record
        /\ ~raced /\ \A o \in Busy : job[o].plan = source
    <3>1. Idle.at = "idle"
      BY DEF Idle
    <3> QED
      BY <1>1, <3>1, PreflightTyped DEF Preflight
  <2>2. \A o \in Busy' \ {r} : o \in Busy /\ job'[o] = job[o]
    BY <2>1 DEF Busy, Alone
  <2>3. OnePlan'
    BY <2>1, <2>2 DEF OnePlan
  <2>4. Known'
    BY <2>1, KnownFrame DEF Serial, Known, Alone, Past
  <2>5. Done(r)'
    BY <2>1 DEF Done, FilesDone, EntriesDone, WroteFile, WroteDocument, Past
  <2>6. ASSUME NEW o \in Busy' \ {r} PROVE Done(o)'
    <3>1. o \in Runs /\ Done(o) /\ job'[o] = job[o]
      BY <2>1, <2>2 DEF Serial, Done, Busy
    <3>2. touched' = touched
      BY <1>1, <2>2, <2>6 DEF Preflight
    <3>3. Honours(job[o].plan)
      BY <2>1, <3>2 DEF Honours
    <3> QED
      BY <3>1, <3>3, DoneFrame
  <2> QED
    BY <2>3, <2>4, <2>5, <2>6 DEF Serial, Known, Done
<1>2. ASSUME NEW r \in Runs, Step(r), ~Preflight(r) PROVE Serial'
  <2>1. /\ Alone(r) /\ (Leave(r) \/ WriteRecord(r) => job'[r].at = "idle")
        /\ ~(Leave(r) \/ WriteRecord(r)) => job'[r].plan = job[r].plan
    BY <1>2, PrepareTyped, RestTyped, WriteFileTyped, WriteDocumentTyped,
       OpenManifestTyped, PruneTyped, HashFilesTyped, WriteManifestTyped, WriteRecordTyped
    DEF Step, Kept
  <2>2. r \in Busy /\ ~raced
    BY <1>2 DEF Step, Busy, Prepare, Leave, WriteFile, WriteDocument, OpenManifest, Prune,
       HashFiles, WriteManifest, WriteRecord
  <2>3. CASE Leave(r)
    <3>1. /\ disk' = disk /\ docs' = docs /\ manifest' = manifest /\ record' = record
          /\ touched' = touched /\ ~Past(r)
      BY <2>3 DEF Leave, Past
    <3>2. Honours(job[r].plan)
      BY <3>1 DEF Honours
    <3>3. Known'
      BY <2>1, <2>2, <3>1, KnownFrame DEF Serial, Known, Alone, Past
    <3>4. ASSUME NEW o \in Busy' PROVE o \in Busy /\ job'[o] = job[o] /\ Done(o)'
      <4>1. o \in Busy /\ job'[o] = job[o] /\ o \in Runs
        BY <2>1, <2>3, <3>4 DEF Busy, Alone
      <4>2. Done(o) /\ job[o].plan = job[r].plan
        BY <2>2, <4>1 DEF Serial, Done, OnePlan
      <4> QED
        BY <3>2, <4>1, <4>2, DoneFrame
    <3>5. OnePlan'
      BY <2>2, <3>4 DEF Serial, OnePlan
    <3> QED
      BY <3>3, <3>4, <3>5 DEF Serial, Known, Done
  <2>4. CASE ~Leave(r)
    <3>1. /\ Honours(job[r].plan) /\ Known'
          /\ WriteRecord(r) \/ Done(r)'
      BY <1>2, <2>2, <2>4, PrepareSerial, WriteFileSerial, WriteDocumentSerial, PruningSerial,
         WriteManifestSerial, WriteRecordSerial DEF Step
    <3>2. ASSUME NEW o \in Busy', o # r PROVE o \in Busy /\ job'[o] = job[o] /\ Done(o)'
      <4>1. o \in Busy /\ job'[o] = job[o] /\ o \in Runs
        BY <2>1, <3>2 DEF Busy, Alone
      <4>2. Done(o) /\ job[o].plan = job[r].plan
        BY <2>2, <4>1 DEF Serial, Done, OnePlan
      <4> QED
        BY <3>1, <4>1, <4>2, DoneFrame
    <3>3. \A o \in Busy' : Done(o)' /\ o \in Busy /\ job'[o].plan = job[o].plan
      BY <2>1, <2>2, <2>4, <3>1, <3>2 DEF Busy
    <3>4. OnePlan'
      BY <2>2, <3>3 DEF Serial, OnePlan
    <3> QED
      BY <3>1, <3>3, <3>4 DEF Serial, Known, Done
  <2> QED
    BY <2>3, <2>4
<1>3. CASE UNCHANGED vars
  BY <1>3 DEF vars, Serial, OnePlan, FilesKnown, EntriesKnown, FilesDone, EntriesDone,
     Busy, Past, WroteFile, WroteDocument
<1>4. \A r \in Runs : ~Raise(r)
  BY DEF Raise
<1> QED
  BY <1>1, <1>2, <1>3, <1>4, OthersSerial DEF Next

-----------------------------------------------------------------------------
(* Custody.                                                                *)

LEMMA ItemShape ==
  /\ \A f \in Files : f \in Shared
  /\ \A s \in Surfaces, e \in Entries \cup ToolEntries : <<s, e>> \in Shared /\ <<s, e>> \notin Files
  /\ \A i \in Shared \ Files : \E s \in Surfaces, e \in Entries \cup ToolEntries : i = <<s, e>>
BY ApartAssumption DEF Shared

LEMMA HolderShape ==
  /\ Holder \in [Shared -> Promise!Holders]
  /\ \A f \in Files : Holder[f] = HolderOfFile(f)
  /\ \A s \in Surfaces, e \in Entries \cup ToolEntries : Holder[<<s, e>>] = HolderOfEntry(s, e)
<1>1. \A f \in Files : HolderOfFile(f) \in Promise!Holders
  BY DEF HolderOfFile, Promise!Holders
<1>2. \A s, e : HolderOfEntry(s, e) \in Promise!Holders
  BY DEF HolderOfEntry, Promise!Holders
<1> QED
  BY <1>1, <1>2, ItemShape DEF Holder

LEMMA HolderShapeNext ==
  /\ Holder' \in [Shared -> Promise!Holders]
  /\ \A f \in Files : Holder'[f] = HolderOfFile(f)'
  /\ \A s \in Surfaces, e \in Entries \cup ToolEntries : Holder'[<<s, e>>] = HolderOfEntry(s, e)'
<1>1. \A f \in Files : HolderOfFile(f)' \in Promise!Holders
  BY DEF HolderOfFile, Promise!Holders
<1>2. \A s, e : HolderOfEntry(s, e)' \in Promise!Holders
  BY DEF HolderOfEntry, Promise!Holders
<1> QED
  BY <1>1, <1>2, ItemShape DEF Holder

LEMMA VouchedShape ==
  ASSUME TypeOK
  PROVE  /\ Vouched \subseteq Shared
         /\ \A f \in Files : f \in Vouched <=> f \in DOMAIN manifest
         /\ \A s \in Surfaces, e \in Entries \cup ToolEntries :
              <<s, e>> \in Vouched <=> e \in record[s]
BY ItemShape, ManifestShape DEF Vouched, TypeOK

LEMMA VouchedShapeNext ==
  ASSUME TypeOK'
  PROVE  /\ Vouched' \subseteq Shared
         /\ \A f \in Files : f \in Vouched' <=> f \in DOMAIN manifest'
         /\ \A s \in Surfaces, e \in Entries \cup ToolEntries :
              <<s, e>> \in Vouched' <=> e \in record'[s]
BY ItemShape, ManifestShape DEF Vouched, TypeOK

\* Who holds a file or an entry, by what is there.
LEMMA Holding ==
  ASSUME TypeOK
  PROVE  /\ \A f \in Files : /\ Holder[f] = "nobody" <=> disk[f] = Absent
                             /\ Holder[f] = "other" <=> disk[f] \in Edits
                             /\ Holder[f] = "compiler" <=> disk[f] \in Contents
         /\ \A s \in Surfaces, e \in Entries :
              Holder[<<s, e>>] = IF e \in docs[s] THEN "compiler" ELSE "nobody"
         /\ \A s \in Surfaces, e \in ToolEntries :
              Holder[<<s, e>>] = IF e \in docs[s] THEN "other" ELSE "nobody"
BY HolderShape, ApartAssumption DEF HolderOfFile, HolderOfEntry, TypeOK

LEMMA HoldingNext ==
  ASSUME TypeOK'
  PROVE  /\ \A f \in Files : /\ Holder'[f] = "nobody" <=> disk'[f] = Absent
                             /\ Holder'[f] = "other" <=> disk'[f] \in Edits
                             /\ Holder'[f] = "compiler" <=> disk'[f] \in Contents
         /\ \A s \in Surfaces, e \in Entries :
              Holder'[<<s, e>>] = IF e \in docs'[s] THEN "compiler" ELSE "nobody"
         /\ \A s \in Surfaces, e \in ToolEntries :
              Holder'[<<s, e>>] = IF e \in docs'[s] THEN "other" ELSE "nobody"
BY HolderShapeNext, ApartAssumption DEF HolderOfFile, HolderOfEntry, TypeOK

\* At rest, without a race, the manifests name what the compiler holds.
LEMMA RestAgrees ==
  ASSUME Typed', Serial', ~raced', Busy' = {}
  PROVE  Promise!Agreed'
<1>1. TypeOK' /\ \A r \in Runs : ~Past(r)'
  BY DEF Typed, Busy, Past
<1>2. \A f \in Files : disk'[f] \in Contents => f \in DOMAIN manifest'
  BY <1>1 DEF Serial, FilesKnown
<1>3. \A s \in Surfaces, e \in Entries : e \in docs'[s] => e \in record'[s]
  BY <1>1 DEF Serial, EntriesKnown
<1>4. ASSUME NEW i \in Shared, Holder'[i] = "compiler" PROVE i \in Vouched'
  <2>1. CASE i \in Files
    BY <1>1, <1>2, <1>4, <2>1, HoldingNext, VouchedShapeNext
  <2>2. CASE i \notin Files
    <3>1. PICK s \in Surfaces, e \in Entries \cup ToolEntries : i = <<s, e>>
      BY <2>2, ItemShape
    <3>2. e \in Entries /\ e \in docs'[s]
      BY <1>1, <1>4, <3>1, HoldingNext
    <3> QED
      BY <1>1, <1>3, <3>1, <3>2, VouchedShapeNext
  <2> QED
    BY <2>1, <2>2
<1> QED
  BY <1>4 DEF Promise!Agreed

\* Writing and pruning files is work.
LEMMA WriteFileWorks ==
  ASSUME Typed, Sheltered, Typed', NEW r \in Runs, NEW f \in Files, WriteFile(r, f)
  PROVE  Promise!Work
<1>1. /\ docs' = docs /\ manifest' = manifest /\ record' = record /\ touched' = touched
      /\ raced' = raced /\ disk' = [disk EXCEPT ![f] = job[r].plan.files[f]]
      /\ job[r].at = "write" /\ f \in job[r].todo
  BY DEF WriteFile
<1>2. /\ f \in DOMAIN job[r].plan.files /\ job[r].plan.files[f] \in Contents
      /\ disk \in [Files -> Contents \cup Edits \cup {Absent}]
  BY <1>1, PlanShape DEF Typed, TypeOK, Phases
<1>3. Busy' = Busy /\ r \in Busy
  BY <1>1, WriteFileTyped DEF Busy, Kept, Alone
<1>4. Vouched' = Vouched
  BY <1>1 DEF Vouched
<1>5. \A g \in Files : disk'[g] = IF g = f THEN job[r].plan.files[f] ELSE disk[g]
  BY <1>1, <1>2
<1>6. \A i \in Shared : i # f => Holder'[i] = Holder[i]
  BY <1>1, <1>5 DEF Holder, HolderOfFile, HolderOfEntry
<1>7. Holder'[f] = "compiler"
  BY <1>2, <1>5, HoldingNext DEF Typed
<1>8. Holder[f] \in {"nobody", "compiler"} \/ f \in touched
  <2>1. disk[f] \in Edits => f \in touched
    BY <1>1, <1>2 DEF Sheltered, Shelters
  <2> QED
    BY <2>1, HolderShape, ItemShape, Holding DEF Typed, Promise!Holders
<1>9. \A i \in Shared : Promise!Allowed(i)
  BY <1>6, <1>7, <1>8 DEF Promise!Allowed
<1> QED
  BY <1>1, <1>3, <1>4, <1>9, HolderShapeNext DEF Promise!Work

LEMMA PruneWorks ==
  ASSUME Typed, Sheltered, Serial, Typed', NEW r \in Runs, NEW f \in Files, Prune(r, f)
  PROVE  Promise!Work
<1>1. /\ docs' = docs /\ manifest' = manifest /\ record' = record /\ touched' = touched
      /\ raced' = raced /\ disk' = [disk EXCEPT ![f] = Absent]
      /\ job[r].at = "prune" /\ f \in DOMAIN job[r].previous \ DOMAIN job[r].plan.files
      /\ disk[f] \in {Absent, job[r].previous[f]}
      /\ disk \in [Files -> Contents \cup Edits \cup {Absent}]
  BY DEF Prune, Typed, TypeOK, Phases
<1>2. Busy' = Busy /\ r \in Busy
  BY <1>1, PruneTyped DEF Busy, Kept, Alone
<1>3. Vouched' = Vouched
  BY <1>1 DEF Vouched
<1>4. \A g \in Files : disk'[g] = IF g = f THEN Absent ELSE disk[g]
  BY <1>1
<1>5. \A i \in Shared : i # f => Holder'[i] = Holder[i]
  BY <1>1, <1>4 DEF Holder, HolderOfFile, HolderOfEntry
<1>6. Holder'[f] = "nobody"
  BY <1>4, HoldingNext DEF Typed
<1>7. Holder[f] = "other" => f \in touched
  BY <1>1, Holding DEF Typed, Sheltered, Shelters
<1>8. Holder[f] = "compiler" => f \in Vouched \/ raced
  <2> SUFFICES ASSUME disk[f] \in Contents, ~raced PROVE f \in DOMAIN manifest
    BY Holding, VouchedShape DEF Typed
  <2> QED
    BY <1>1, <1>2 DEF Serial, FilesKnown, OnePlan, Busy, Past
<1>9. Holder[f] \in {"nobody", "compiler", "other"}
  BY HolderShape, ItemShape DEF Promise!Holders
<1>10. \A i \in Shared : Promise!Allowed(i)
  BY <1>5, <1>6, <1>7, <1>8, <1>9 DEF Promise!Allowed
<1> QED
  BY <1>1, <1>2, <1>3, <1>10, HolderShapeNext DEF Promise!Work

LEMMA WriteDocumentWorks ==
  ASSUME Typed, Sheltered, Serial, Typed', NEW r \in Runs, NEW d \in Surfaces, WriteDocument(r, d)
  PROVE  Promise!Work
<1>1. /\ disk' = disk /\ manifest' = manifest /\ record' = record /\ touched' = touched
      /\ raced' = raced /\ docs' = [docs EXCEPT ![d] = job[r].candidates[d]]
      /\ job[r].at = "write" /\ docs \in Documents
  BY DEF WriteDocument, Typed, TypeOK
<1>2. Busy' = Busy /\ r \in Busy
  BY <1>1, WriteDocumentTyped DEF Busy, Kept, Alone
<1>3. Vouched' = Vouched
  BY <1>1 DEF Vouched
<1>4. \A s \in Surfaces : docs'[s] = IF s = d THEN job[r].candidates[d] ELSE docs[s]
  BY <1>1 DEF Documents
<1>5. ASSUME NEW s \in Surfaces, NEW e \in ToolEntries
      PROVE  Holder'[<<s, e>>] = Holder[<<s, e>>] \/ <<s, e>> \in touched
  <2>1. <<s, e>> \notin touched => (e \in docs'[s] <=> e \in docs[s])
    BY <1>1, <1>4 DEF Sheltered, Shelters
  <2> QED
    BY <2>1, Holding, HoldingNext DEF Typed
<1>6. ASSUME NEW s \in Surfaces, NEW e \in Entries
      PROVE  \/ Holder'[<<s, e>>] = Holder[<<s, e>>]
             \/ Holder[<<s, e>>] = "nobody" /\ Holder'[<<s, e>>] = "compiler"
             \/ /\ Holder[<<s, e>>] = "compiler" /\ Holder'[<<s, e>>] = "nobody"
                /\ <<s, e>> \in Vouched \/ raced
  <2>1. ASSUME e \in docs[s], e \notin docs'[s], ~raced PROVE e \in record[s]
    <3>1. EntriesDone(r) /\ Past(r) /\ OnePlan
      BY <1>1, <1>2, <2>1 DEF Serial, Past
    <3>2. s = d /\ e \notin job[r].plan.entries[s]
      BY <1>4, <2>1, <3>1 DEF EntriesDone
    <3> QED
      BY <1>2, <2>1, <3>1, <3>2 DEF Serial, EntriesKnown, OnePlan, Busy, Past
  <2> QED
    BY <2>1, Holding, HoldingNext, VouchedShape DEF Typed
<1>7. \A f \in Files : Holder'[f] = Holder[f]
  BY <1>1, HolderShape, HolderShapeNext DEF HolderOfFile
<1>8. \A i \in Shared : Promise!Allowed(i)
  <2>1. \A f \in Files : Promise!Allowed(f)
    BY <1>7 DEF Promise!Allowed
  <2>2. \A s \in Surfaces, e \in Entries \cup ToolEntries : Promise!Allowed(<<s, e>>)
    BY <1>5, <1>6 DEF Promise!Allowed
  <2> QED
    BY <2>1, <2>2, ItemShape
<1> QED
  BY <1>1, <1>2, <1>3, <1>8, HolderShapeNext DEF Promise!Work

\* Publishing is vouching.
LEMMA WriteManifestVouches ==
  ASSUME Typed, Serial, Typed', NEW r \in Runs, WriteManifest(r)
  PROVE  Promise!Vouch
<1>1. /\ disk' = disk /\ docs' = docs /\ record' = record /\ touched' = touched
      /\ raced' = raced /\ job[r].at = "publish" /\ DOMAIN manifest' = DOMAIN job[r].plan.files
  BY DEF WriteManifest, Typed, Phases
<1>2. r \in Busy /\ r \in Busy'
  BY <1>1, WriteManifestTyped DEF Busy
<1>3. Holder' = Holder
  BY <1>1 DEF Holder, HolderOfFile, HolderOfEntry
<1>4. ASSUME NEW f \in Files \ touched, ~raced
      PROVE  f \in Vouched' <=> Holder[f] = "compiler"
  <2>1. FilesDone(r)
    BY <1>2, <1>4 DEF Serial
  <2>2. f \in DOMAIN job[r].plan.files <=> disk[f] \in Contents
    BY <1>1, <1>4, <2>1 DEF FilesDone, WroteFile
  <2> QED
    BY <1>1, <2>2, Holding, VouchedShapeNext DEF Typed
<1>5. \A s \in Surfaces, e \in Entries \cup ToolEntries : <<s, e>> \in Vouched' <=> <<s, e>> \in Vouched
  BY <1>1, VouchedShape, VouchedShapeNext DEF Typed
<1>6. \A i \in Shared \ touched :
        \/ raced
        \/ (i \in Vouched') = (i \in Vouched)
        \/ (i \in Vouched') = (Holder[i] = "compiler")
  BY <1>4, <1>5, ItemShape
<1> QED
  BY <1>1, <1>2, <1>3, <1>6, VouchedShapeNext DEF Promise!Vouch, Typed

LEMMA WriteRecordVouches ==
  ASSUME Typed, Serial, Typed', Serial', NEW r \in Runs, WriteRecord(r)
  PROVE  Promise!Vouch
<1>1. /\ disk' = disk /\ docs' = docs /\ manifest' = manifest /\ touched' = touched
      /\ raced' = raced /\ job[r].at = "finish"
  BY DEF WriteRecord
<1>2. r \in Busy /\ Past(r)
  BY <1>1 DEF Busy, Past
<1>3. Holder' = Holder
  BY <1>1 DEF Holder, HolderOfFile, HolderOfEntry
<1>4. \A f \in Files : f \in Vouched' <=> f \in Vouched
  BY <1>1, VouchedShape, VouchedShapeNext DEF Typed
<1>5. ASSUME ~raced, NEW s \in Surfaces, NEW e \in Entries \cup ToolEntries, <<s, e>> \notin touched
      PROVE  <<s, e>> \in Vouched' <=> Holder[<<s, e>>] = "compiler"
  <2>1. record' = job[r].plan.entries /\ EntriesDone(r)
    BY <1>2, <1>5, WriteRecordSerial DEF Serial
  <2>2. WroteDocument(r, s) /\ job[r].plan.entries \in Records
    BY <1>1, PlanShape DEF WroteDocument, Typed, Phases
  <2>3. CASE e \in Entries
    <3>1. e \in record'[s] <=> e \in docs[s]
      BY <1>5, <2>1, <2>2, <2>3 DEF EntriesDone
    <3> QED
      BY <2>3, <3>1, Holding, VouchedShapeNext DEF Typed
  <2>4. CASE e \in ToolEntries
    <3>1. e \notin record'[s]
      BY <2>1, <2>2, <2>4, ApartAssumption DEF Records
    <3> QED
      BY <2>4, <3>1, Holding, VouchedShapeNext DEF Typed
  <2> QED
    BY <2>3, <2>4
<1>6. \A i \in Shared \ touched :
        \/ raced
        \/ (i \in Vouched') = (i \in Vouched)
        \/ (i \in Vouched') = (Holder[i] = "compiler")
  BY <1>4, <1>5, ItemShape
<1>7. Busy' = {} => raced' \/ Promise!Agreed'
  BY RestAgrees
<1> QED
  BY <1>1, <1>2, <1>3, <1>6, <1>7, VouchedShapeNext DEF Promise!Vouch, Typed

LEMMA TurnsMap ==
  ASSUME Typed, Typed', Serial', NEW r \in Runs, Preflight(r) \/ Leave(r) \/ Raise(r)
  PROVE  Promise!Turn
<1>1. /\ disk' = disk /\ docs' = docs /\ manifest' = manifest /\ record' = record
      /\ raced => raced'
  <2>1. CASE Preflight(r)
    BY <2>1 DEF Preflight
  <2>2. CASE Leave(r)
    BY <2>2 DEF Leave
  <2>3. CASE Raise(r)
    BY <2>3 DEF Raise
  <2> QED
    BY <2>1, <2>2, <2>3
<1>2. Holder' = Holder /\ Vouched' = Vouched
  BY <1>1 DEF Holder, HolderOfFile, HolderOfEntry, Vouched
<1>3. touched' \subseteq touched /\ (Busy # {} => touched' = touched)
  BY DEF Preflight, Leave, Raise, Settled
<1>4. Busy' = {} => raced' \/ Promise!Agreed'
  BY RestAgrees
<1> QED
  BY <1>1, <1>2, <1>3, <1>4 DEF Promise!Turn

LEMMA OthersMap ==
  ASSUME Typed, Typed',
         \/ \E f \in Files, c \in Edits \cup {Absent} : Edit(f, c)
         \/ \E s \in Surfaces, e \in ToolEntries : AddEntry(s, e)
         \/ \E s \in Surfaces, e \in Entries \cup ToolEntries : DropEntry(s, e)
  PROVE  \E i \in Shared : Promise!Others(i)
<1>1. /\ job' = job /\ record' = record /\ manifest' = manifest /\ raced' = raced
  BY DEF Edit, AddEntry, DropEntry, ByOthers
<1>2. Busy' = Busy /\ Vouched' = Vouched
  BY <1>1 DEF Busy, Vouched
<1>3. Holder \in [Shared -> Promise!Holders] /\ Holder' \in [Shared -> Promise!Holders]
  BY HolderShape, HolderShapeNext
<1>4. ASSUME NEW f \in Files, NEW c \in Edits \cup {Absent}, Edit(f, c)
      PROVE  Promise!Others(f)
  <2>1. disk' = [disk EXCEPT ![f] = c] /\ docs' = docs
        /\ disk \in [Files -> Contents \cup Edits \cup {Absent}]
    BY <1>4 DEF Edit, Typed, TypeOK
  <2>2. \A i \in Shared : i # f => Holder'[i] = Holder[i]
    BY <2>1 DEF Holder, HolderOfFile, HolderOfEntry
  <2>3. Holder'[f] \in {"nobody", "other"}
    BY <1>4, <2>1, HolderShapeNext DEF HolderOfFile
  <2>4. Holder' = [Holder EXCEPT ![f] = Holder'[f]]
    BY <1>3, <2>2
  <2>5. touched' = IF Busy # {} THEN touched \cup {f} ELSE touched
    BY <1>4 DEF Edit, ByOthers
  <2> QED
    BY <1>1, <1>2, <2>3, <2>4, <2>5 DEF Promise!Others
<1>5. ASSUME NEW s \in Surfaces, NEW e \in Entries \cup ToolEntries,
             (e \in ToolEntries /\ AddEntry(s, e)) \/ DropEntry(s, e)
      PROVE  Promise!Others(<<s, e>>)
  <2>1. /\ disk' = disk /\ docs \in Documents
        /\ \/ e \in ToolEntries /\ docs' = [docs EXCEPT ![s] = docs[s] \cup {e}]
           \/ docs' = [docs EXCEPT ![s] = docs[s] \ {e}]
    BY <1>5 DEF AddEntry, DropEntry, Typed, TypeOK
  <2>2. /\ \A d \in Surfaces, x \in Entries \cup ToolEntries :
             <<d, x>> # <<s, e>> => (x \in docs'[d] <=> x \in docs[d])
        /\ e \in ToolEntries \/ e \notin docs'[s]
    BY <2>1 DEF Documents
  <2>3. \A d \in Surfaces, x \in Entries \cup ToolEntries :
          <<d, x>> # <<s, e>> => Holder'[<<d, x>>] = Holder[<<d, x>>]
    BY <2>2, HolderShape, HolderShapeNext DEF HolderOfEntry
  <2>4. \A f \in Files : Holder'[f] = Holder[f]
    BY <2>1, HolderShape, HolderShapeNext DEF HolderOfFile
  <2>5. \A i \in Shared : i # <<s, e>> => Holder'[i] = Holder[i]
    BY <2>3, <2>4, ItemShape
  <2>6. Holder'[<<s, e>>] \in {"nobody", "other"}
    BY <2>2, HolderShapeNext DEF HolderOfEntry
  <2>7. Holder' = [Holder EXCEPT ![<<s, e>>] = Holder'[<<s, e>>]]
    BY <1>3, <2>5
  <2>8. touched' = IF Busy # {} THEN touched \cup {<<s, e>>} ELSE touched
    BY <1>5 DEF AddEntry, DropEntry, ByOthers
  <2> QED
    BY <1>1, <1>2, <2>6, <2>7, <2>8 DEF Promise!Others
<1> QED
  BY <1>4, <1>5, ItemShape

\* The steps Custody does not see.
LEMMA Unseen ==
  ASSUME Typed, \/ \E r \in Runs : Prepare(r) \/ OpenManifest(r) \/ HashFiles(r)
                \/ \E q \in Sources : ChangeSource(q)
                \/ UNCHANGED vars
  PROVE  UNCHANGED Promise!vars
<1>1. /\ disk' = disk /\ docs' = docs /\ manifest' = manifest /\ record' = record
      /\ touched' = touched /\ raced' = raced
  BY DEF Prepare, OpenManifest, HashFiles, ChangeSource, vars
<1>2. Holder' = Holder /\ Vouched' = Vouched
  BY <1>1 DEF Holder, HolderOfFile, HolderOfEntry, Vouched
<1>3. (Busy # {})' = (Busy # {})
  <2>1. ASSUME NEW r \in Runs, Prepare(r) \/ OpenManifest(r) \/ HashFiles(r)
        PROVE  r \in Busy /\ r \in Busy'
    BY <2>1, PrepareTyped, OpenManifestTyped, HashFilesTyped
    DEF Busy, Prepare, OpenManifest, HashFiles
  <2>2. CASE job' = job
    BY <2>2 DEF Busy
  <2> QED
    BY <2>1, <2>2 DEF ChangeSource, vars
<1> QED
  BY <1>1, <1>2, <1>3 DEF Promise!vars

LEMMA InitMaps == Init => Promise!Init
<1> SUFFICES ASSUME Init PROVE Promise!Init
  OBVIOUS
<1>1. Typed /\ Busy = {}
  BY InitTyped DEF Init, Busy, Idle
<1>2. \A i \in Shared : Holder[i] = "nobody"
  <2>1. \A f \in Files : Holder[f] = "nobody"
    BY HolderShape DEF Init, HolderOfFile
  <2>2. \A s \in Surfaces, e \in Entries \cup ToolEntries : Holder[<<s, e>>] = "nobody"
    BY HolderShape DEF Init, Nothing, HolderOfEntry
  <2> QED
    BY <2>1, <2>2, ItemShape
<1>3. Vouched = {}
  <2>1. \A f \in Files : f \notin Vouched
    BY <1>1, VouchedShape DEF Init, NoFiles, Typed
  <2>2. \A s \in Surfaces, e \in Entries \cup ToolEntries : <<s, e>> \notin Vouched
    BY <1>1, VouchedShape DEF Init, Nothing, Typed
  <2> QED
    BY <1>1, <2>1, <2>2, ItemShape, VouchedShape DEF Typed
<1>4. Holder = [i \in Shared |-> "nobody"]
  BY <1>2, HolderShape
<1> QED
  BY <1>1, <1>3, <1>4 DEF Init, Promise!Init

LEMMA StepsMap ==
  Typed /\ Sheltered /\ Serial /\ Typed' /\ Serial' /\ [Next]_vars => [Promise!Next]_(Promise!vars)
<1> SUFFICES ASSUME Typed, Sheltered, Serial, Typed', Serial', [Next]_vars
             PROVE  Promise!Next \/ UNCHANGED Promise!vars
  OBVIOUS
<1>1. ASSUME NEW r \in Runs, Step(r) \/ Raise(r)
      PROVE  Promise!Next \/ UNCHANGED Promise!vars
  BY <1>1, WriteFileWorks, PruneWorks, WriteDocumentWorks, WriteManifestVouches,
     WriteRecordVouches, TurnsMap, Unseen DEF Step, Promise!Next
<1> QED
  BY <1>1, OthersMap, Unseen DEF Next, Promise!Next

(***************************************************************************)
(* The sync implements Custody, for any number of processes and with       *)
(* people and tools writing at any time (KeepsCustody).                    *)
(***************************************************************************)
THEOREM SyncKeepsCustody == Spec => KeepsCustody
<1>1. Init => Serial
  BY InitTyped, ApartAssumption
  DEF Init, Nothing, Serial, OnePlan, Busy, FilesKnown, EntriesKnown, Idle
<1> QED
  BY <1>1, InitTyped, StepsTyped, InitSheltered, StepsShelter, StepsSerial, InitMaps, StepsMap, PTL
  DEF Spec, KeepsCustody, Promise!Spec
=============================================================================
