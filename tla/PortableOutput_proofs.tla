------------------------ MODULE PortableOutput_proofs ------------------------
(***************************************************************************)
(* Proofs about PortableOutput, for every set of paths, plans, groups and  *)
(* contents.                                                               *)
(***************************************************************************)
EXTENDS PortableOutput, TLAPS

-----------------------------------------------------------------------------
(* What the helpers do to contents.                                        *)

\* Giving a file of an entry new content leaves a well-formed entry.
LEMMA PutInEntries ==
  ASSUME NEW odd, NEW p \in Paths, NEW f \in EntriesAt(p, odd),
         NEW s, s \in (IF p \in Trees THEN Slots \cup {Stray} ELSE {Body}),
         NEW b, b \in Bytes \cup UserBytes \cup (IF p \in Trees THEN odd ELSE {})
  PROVE  Put(f, s, b) \in EntriesAt(p, odd)
<1>1. CASE p \in Trees
  <2>1. PICK S \in SUBSET (Slots \cup {Stray}) :
               f \in [S -> Bytes \cup UserBytes \cup odd]
    BY <1>1 DEF EntriesAt
  <2>2. Put(f, s, b) \in [S \cup {s} -> Bytes \cup UserBytes \cup odd]
    BY <1>1, <2>1 DEF Put
  <2>3. S \cup {s} \in SUBSET (Slots \cup {Stray})
    BY <1>1, <2>1
  <2> QED BY <1>1, <2>2, <2>3 DEF EntriesAt
<1>2. CASE p \notin Trees
  BY <1>2 DEF EntriesAt, Put
<1> QED BY <1>1, <1>2

\* Keeping some of the files of a tree leaves a well-formed entry.
LEMMA RestrictInEntries ==
  ASSUME NEW odd, NEW p \in Trees, NEW f \in EntriesAt(p, odd), NEW S \in SUBSET DOMAIN f
  PROVE  Restrict(f, S) \in EntriesAt(p, odd)
<1>1. PICK D \in SUBSET (Slots \cup {Stray}) :
             f \in [D -> Bytes \cup UserBytes \cup odd]
  BY DEF EntriesAt
<1>2. Restrict(f, S) \in [S -> Bytes \cup UserBytes \cup odd]
  BY <1>1 DEF Restrict
<1>3. S \in SUBSET (Slots \cup {Stray})
  BY <1>1
<1> QED BY <1>2, <1>3 DEF EntriesAt

\* What may be at a path that is of the right kind: links inside a tree included.
Entries(p) == EntriesAt(p, {Temp, Link})

\* An entry is a present node, and the only kind of present node.
LEMMA EntriesPresent ==
  ASSUME NEW p \in Paths, NEW n
  PROVE  n \in Entries(p) <=> n \in NodesAt(p) /\ Present(n)
BY NodesAssumption DEF Entries, NodesAt, Present

\* Content is an entry without a link, and an entry without a link is content.
LEMMA ContentIsEntry ==
  ASSUME NEW p \in Paths, NEW n
  PROVE  n \in ContentsAt(p) <=> n \in Entries(p) /\ Content(n)
<1>1. ASSUME n \in ContentsAt(p) PROVE n \in Entries(p) /\ Content(n)
  <2>1. n \in Entries(p)
    <3>1. CASE p \in Trees
      <4>1. PICK S \in SUBSET (Slots \cup {Stray}) :
                   n \in [S -> Bytes \cup UserBytes \cup {Temp}]
        BY <1>1, <3>1 DEF ContentsAt, EntriesAt
      <4>2. n \in [S -> Bytes \cup UserBytes \cup {Temp, Link}]
        BY <4>1
      <4> QED BY <3>1, <4>1, <4>2 DEF Entries, EntriesAt
    <3>2. CASE p \notin Trees
      BY <1>1, <3>2 DEF ContentsAt, Entries, EntriesAt
    <3> QED BY <3>1, <3>2
  <2>2. \A s \in DOMAIN n : n[s] \in Bytes \cup UserBytes \cup {Temp}
    <3>1. CASE p \in Trees
      BY <1>1, <3>1 DEF ContentsAt, EntriesAt
    <3>2. CASE p \notin Trees
      BY <1>1, <3>2 DEF ContentsAt, EntriesAt
    <3> QED BY <3>1, <3>2
  <2>3. Present(n)
    BY <2>1, EntriesPresent
  <2> QED BY <2>1, <2>2, <2>3, BytesAssumption DEF Content, LinkInside
<1>2. ASSUME n \in Entries(p), Content(n) PROVE n \in ContentsAt(p)
  <2>1. CASE p \in Trees
    <3>1. PICK S \in SUBSET (Slots \cup {Stray}) :
                 n \in [S -> Bytes \cup UserBytes \cup {Temp, Link}]
      BY <1>2, <2>1 DEF Entries, EntriesAt
    <3>2. \A s \in S : n[s] # Link
      BY <1>2, <3>1 DEF Content, LinkInside
    <3>3. n \in [S -> Bytes \cup UserBytes \cup {Temp}]
      BY <3>1, <3>2
    <3> QED BY <2>1, <3>1, <3>3 DEF ContentsAt, EntriesAt
  <2>2. CASE p \notin Trees
    BY <1>2, <2>2 DEF Entries, ContentsAt, EntriesAt
  <2> QED BY <2>1, <2>2
<1> QED BY <1>1, <1>2

\* A file holds no link.
LEMMA FilesHoldNoLink ==
  ASSUME NEW p \in Paths \ Trees, NEW n \in Entries(p)
  PROVE  Content(n)
<1>1. n \in ContentsAt(p)
  BY DEF Entries, ContentsAt, EntriesAt
<1> QED BY <1>1, ContentIsEntry

\* What a plan generates is well-formed content.
LEMMA GeneratedInContents ==
  ASSUME NEW p \in Paths
  PROVE  GeneratedAt(p) \subseteq ContentsAt(p)
<1>1. CASE p \in Trees
  <2> SUFFICES ASSUME NEW f \in GeneratedAt(p) PROVE f \in ContentsAt(p)
    OBVIOUS
  <2>1. PICK S \in SUBSET Slots : f \in [S -> Bytes]
    BY <1>1 DEF GeneratedAt
  <2>2. f \in [S -> Bytes \cup UserBytes \cup {Temp}]
    BY <2>1
  <2> QED BY <1>1, <2>1, <2>2 DEF ContentsAt, EntriesAt
<1>2. CASE p \notin Trees
  BY <1>2 DEF GeneratedAt, ContentsAt, EntriesAt
<1> QED BY <1>1, <1>2

\* The empty directory mkdir makes is well-formed content of a tree.
LEMMA EmptyInContents ==
  ASSUME NEW p \in Trees
  PROVE  << >> \in ContentsAt(p)
<1>1. << >> \in [{} -> Bytes \cup UserBytes \cup {Temp}]
  OBVIOUS
<1> QED BY <1>1 DEF ContentsAt, EntriesAt

\* What a plan says of the paths it generates.
LEMMA PlanWants ==
  ASSUME NEW q \in Plans
  PROVE  /\ DOMAIN q.want \subseteq Paths
         /\ \A p \in DOMAIN q.want : /\ q.want[p] \in GeneratedAt(p)
                                     /\ q.want[p] \in ContentsAt(p)
                                     /\ Content(q.want[p])
                                     /\ q.owner[p] \in Groups
<1>1. IsPlan(q)
  BY PlansAssumption
<1>2. \A p \in DOMAIN q.want : q.want[p] \in ContentsAt(p) /\ p \in Paths
  BY <1>1, GeneratedInContents DEF IsPlan
<1> QED BY <1>1, <1>2, ContentIsEntry DEF IsPlan

\* Positions in PublishOrder name groups.
LEMMA OrderNamesGroups ==
  /\ Len(PublishOrder) \in Nat \ {0}
  /\ \A i \in 1..Len(PublishOrder) : PublishOrder[i] \in Groups
BY GroupsAssumption

-----------------------------------------------------------------------------
(***************************************************************************)
(* Type correctness.  It rests on two facts about the phases: the tree     *)
(* being written is one of the plan's, and it is a directory for as long   *)
(* as it is being written (Replace and Delete wait for the run to end).    *)
(***************************************************************************)
PhaseOK ==
  /\ pc = "idle" => todo = {} /\ tree = NoPath
  /\ pc = "write" => todo \subseteq DOMAIN txn.want
  /\ pc = "publish" => /\ at \in 1..Len(PublishOrder)
                       /\ tree = NoPath
                       /\ todo \subseteq Owned(Current)
  /\ tree # NoPath => /\ tree \in Trees \cap DOMAIN txn.want
                      /\ Present(disk[tree])
                      /\ slots \subseteq DOMAIN txn.want[tree]
  /\ tree = NoPath => slots = {}

Typed == TypeOK /\ PhaseOK

LEMMA InitTyped == Init => Typed
<1> SUFFICES ASSUME Init PROVE Typed
  OBVIOUS
<1>1. \A p \in Paths : disk[p] \in NodesAt(p)
  BY DEF Init, NodesAt
<1>2. \A g \in Groups : DOMAIN manifest[g] = {}
  BY DEF Init
<1>3. at \in 0..Len(PublishOrder)
  BY OrderNamesGroups DEF Init
<1>4. /\ DOMAIN manifest = Groups
      /\ \A g \in Groups : /\ DOMAIN manifest[g] \subseteq Paths
                           /\ \A p \in DOMAIN manifest[g] : manifest[g][p] \in ContentsAt(p)
  BY <1>2 DEF Init
<1>5. TypeOK
  BY <1>1, <1>3, <1>4 DEF Init, TypeOK
<1> QED BY <1>5 DEF Init, PhaseOK, Typed

\* Only an entry of the right shape can be at a path that is present, and only
\* content at one that has a hash.
LEMMA DiskContents ==
  ASSUME TypeOK, NEW p \in Paths, Present(disk[p])
  PROVE  disk[p] \in Entries(p) /\ (Content(disk[p]) => disk[p] \in ContentsAt(p))
BY EntriesPresent, ContentIsEntry DEF TypeOK

\* One path changed to something well-formed leaves every path well-formed.
LEMMA ChangeOne ==
  ASSUME TypeOK, NEW p \in Paths, NEW n \in NodesAt(p),
         disk' = [disk EXCEPT ![p] = n]
  PROVE  /\ DOMAIN disk' = Paths
         /\ \A x \in Paths : disk'[x] \in NodesAt(x)
BY DEF TypeOK

\* A crash leaves every path well-formed.
LEMMA CrashTyped ==
  ASSUME Typed, Crash
  PROVE  /\ DOMAIN disk' = Paths
         /\ \A p \in Paths : disk'[p] \in NodesAt(p)
<1>1. CASE UNCHANGED disk
  BY <1>1 DEF Typed, TypeOK
<1>2. ASSUME tree # NoPath
      PROVE  tree \in Trees /\ tree \in Paths /\ disk[tree] \in Entries(tree)
  <2>1. tree \in Trees /\ tree \in Paths /\ Present(disk[tree])
    BY <1>2, PathsAssumption DEF Typed, PhaseOK
  <2> QED BY <2>1, DiskContents DEF Typed
<1>3. CASE TempLeft
  <2>1. Put(disk[tree], Stray, Temp) \in Entries(tree)
    BY <1>2, <1>3, PutInEntries DEF TempLeft, Entries
  <2>2. disk' = [disk EXCEPT ![tree] = Put(disk[tree], Stray, Temp)]
    BY <1>3 DEF TempLeft
  <2> QED BY <1>2, <1>3, <2>1, <2>2, ChangeOne, EntriesPresent DEF TempLeft, Typed
<1>4. CASE PartlyPruned
  <2>1. PICK S \in SUBSET DOMAIN disk[tree] :
               disk' = [disk EXCEPT ![tree] = Restrict(disk[tree], S)]
    BY <1>4 DEF PartlyPruned
  <2>2. Restrict(disk[tree], S) \in Entries(tree)
    BY <1>2, <1>4, <2>1, RestrictInEntries DEF PartlyPruned, Entries
  <2> QED BY <1>2, <1>4, <2>1, <2>2, ChangeOne, EntriesPresent DEF PartlyPruned, Typed
<1>5. ASSUME NEW p \in Paths, PartlyRemoved(p)
      PROVE  /\ DOMAIN disk' = Paths
             /\ \A x \in Paths : disk'[x] \in NodesAt(x)
  <2>1. PICK S \in SUBSET DOMAIN disk[p] :
               disk' = [disk EXCEPT ![p] = Restrict(disk[p], S)]
    BY <1>5 DEF PartlyRemoved
  <2>2. p \in Trees /\ disk[p] \in Entries(p)
    BY <1>5, DiskContents DEF PartlyRemoved, Typed
  <2>3. Restrict(disk[p], S) \in Entries(p)
    BY <2>1, <2>2, RestrictInEntries DEF Entries
  <2> QED BY <2>1, <2>3, ChangeOne, EntriesPresent DEF Typed
<1> QED BY <1>1, <1>3, <1>4, <1>5 DEF Crash
\* A step that touches neither the disk nor the manifests keeps their types.
StoresOK ==
  /\ DOMAIN disk = Paths
  /\ \A p \in Paths : disk[p] \in NodesAt(p)
  /\ DOMAIN manifest = Groups
  /\ \A g \in Groups :
       /\ DOMAIN manifest[g] \subseteq Paths
       /\ \A p \in DOMAIN manifest[g] : manifest[g][p] \in ContentsAt(p)

LEMMA StoresTyped == TypeOK => StoresOK
BY DEF TypeOK, StoresOK

LEMMA StoresUnchanged ==
  ASSUME TypeOK, UNCHANGED <<disk, manifest>>
  PROVE  StoresOK'
BY DEF TypeOK, StoresOK

LEMMA DiskChanged ==
  ASSUME TypeOK, NEW p \in Paths, NEW n \in NodesAt(p),
         disk' = [disk EXCEPT ![p] = n], UNCHANGED manifest
  PROVE  StoresOK'
BY ChangeOne DEF TypeOK, StoresOK

\* A run that stops leaves no phase state behind.
LEMMA StopTyped ==
  ASSUME Typed, NEW how \in {"failed", "crashed"}, Stop(how), StoresOK'
  PROVE  Typed'
<1>1. 0 \in 0..Len(PublishOrder)
  BY OrderNamesGroups
<1>2. TypeOK'
  BY <1>1 DEF Stop, Surrendered, TypeOK, StoresOK, Typed
<1>3. PhaseOK'
  BY DEF Stop, PhaseOK
<1> QED BY <1>2, <1>3 DEF Typed

LEMMA WriteTyped ==
  ASSUME Typed,
         \/ \E p \in Paths : WriteFile(p) \/ WriteBlocked(p) \/ OpenTree(p)
         \/ \E s \in Slots : WriteSlot(s)
         \/ PruneTree
  PROVE  Typed'
<1>0. TypeOK /\ PhaseOK /\ txn \in Plans /\ StoresOK
  BY StoresTyped DEF Typed, TypeOK
<1>1. ASSUME NEW p \in Paths, WriteFile(p) PROVE Typed'
  <2>1. p \in DOMAIN txn.want /\ tree # p
    BY <1>0, <1>1, PathsAssumption DEF WriteFile, PhaseOK
  <2>2. txn.want[p] \in NodesAt(p)
    BY <1>0, <1>1, <2>1, PlanWants, ContentIsEntry, EntriesPresent
  <2>3. StoresOK'
    <3>1. CASE disk' = [disk EXCEPT ![p] = txn.want[p]]
      BY <1>0, <1>1, <2>2, <3>1, DiskChanged DEF WriteFile
    <3>2. CASE UNCHANGED disk
      BY <1>0, <1>1, <3>2, StoresUnchanged DEF WriteFile
    <3> QED BY <1>1, <3>1, <3>2 DEF WriteFile
  <2>4. TypeOK'
    BY <1>0, <1>1, <2>3 DEF WriteFile, Surrendered, TypeOK, StoresOK
  <2>5. tree # NoPath => disk'[tree] = disk[tree]
    BY <1>0, <1>1, <2>1, PathsAssumption DEF WriteFile, StoresOK, PhaseOK
  <2>6. PhaseOK'
    BY <1>0, <1>1, <2>5 DEF WriteFile, PhaseOK, Present
  <2> QED BY <2>4, <2>6 DEF Typed
<1>2. ASSUME NEW p \in Paths, WriteBlocked(p) PROVE Typed'
  BY <1>0, <1>2, StopTyped, StoresUnchanged DEF WriteBlocked, Stop
<1>3. ASSUME NEW p \in Paths, OpenTree(p) PROVE Typed'
  <2>1. p \in Trees /\ p \in DOMAIN txn.want
    BY <1>0, <1>3 DEF OpenTree, PhaseOK
  <2>2. CASE disk[p] = Link
    <3>1. TypeOK'
      BY <1>0, <1>3, <2>2 DEF OpenTree, TypeOK
    <3>2. PhaseOK'
      BY <1>0, <1>3, <2>2 DEF OpenTree, PhaseOK
    <3> QED BY <3>1, <3>2 DEF Typed
  <2>3. CASE disk[p] # Link
    <3> DEFINE n == IF disk[p] = Absent THEN << >> ELSE disk[p]
    <3>1. << >> \in Entries(p)
      BY <2>1, EmptyInContents, ContentIsEntry
    <3>2. disk[p] \in NodesAt(p)
      BY <1>0 DEF StoresOK
    <3>3. n \in Entries(p)
      BY <1>3, <2>3, <3>1, <3>2 DEF NodesAt, Entries, OpenTree
    <3>4. n \in NodesAt(p) /\ Present(n)
      BY <3>3, EntriesPresent
    <3>5. disk' = [disk EXCEPT ![p] = n]
      BY <1>3, <2>3 DEF OpenTree
    <3> HIDE DEF n
    <3>6. StoresOK'
      BY <1>0, <1>3, <3>4, <3>5, DiskChanged DEF OpenTree
    <3>7. DOMAIN txn.want[p] \subseteq Slots
      BY <1>0, <2>1, PlanWants DEF GeneratedAt
    <3>8. TypeOK'
      BY <1>0, <1>3, <2>1, <2>3, <3>6, <3>7 DEF OpenTree, TypeOK, StoresOK
    <3>9. disk'[p] = n
      BY <1>0, <3>5 DEF StoresOK
    <3>10. PhaseOK'
      BY <1>0, <1>3, <2>1, <2>3, <3>4, <3>9, PathsAssumption DEF OpenTree, PhaseOK, Present
    <3> QED BY <3>8, <3>10 DEF Typed
  <2> QED BY <2>2, <2>3
<1>4. ASSUME tree # NoPath
      PROVE  /\ tree \in Trees /\ tree \in Paths /\ tree \in DOMAIN txn.want
             /\ disk[tree] \in Entries(tree) /\ disk[tree] \in NodesAt(tree)
  <2>1. tree \in Trees /\ tree \in Paths /\ Present(disk[tree]) /\ tree \in DOMAIN txn.want
    BY <1>0, <1>4, PathsAssumption DEF PhaseOK
  <2> QED BY <1>0, <2>1, DiskContents, EntriesPresent
<1>5. ASSUME NEW s \in Slots, WriteSlot(s) PROVE Typed'
  <2> DEFINE n == Put(disk[tree], s, txn.want[tree][s])
  <2>0. tree # NoPath
    BY <1>5 DEF WriteSlot
  <2>1. s \in DOMAIN txn.want[tree]
    BY <1>0, <1>5, <2>0 DEF WriteSlot, PhaseOK
  <2>2. txn.want[tree] \in GeneratedAt(tree)
    BY <1>0, <1>4, <2>0, PlanWants
  <2>3. txn.want[tree][s] \in Bytes
    BY <1>4, <2>0, <2>1, <2>2 DEF GeneratedAt
  <2>4. n \in Entries(tree)
    BY <1>4, <2>0, <2>3, PutInEntries DEF Entries
  <2>5. n \in NodesAt(tree) /\ Present(n)
    BY <1>4, <2>0, <2>4, EntriesPresent
  <2>6. UNCHANGED disk \/ disk' = [disk EXCEPT ![tree] = n]
    BY <1>5 DEF WriteSlot
  <2> HIDE DEF n
  <2>7. StoresOK'
    BY <1>0, <1>4, <1>5, <2>0, <2>5, <2>6, DiskChanged, StoresUnchanged DEF WriteSlot
  <2>8. TypeOK'
    BY <1>0, <1>5, <2>7 DEF WriteSlot, Surrendered, TypeOK, StoresOK
  <2>9. disk'[tree] = disk[tree] \/ disk'[tree] = n
    BY <1>0, <1>4, <2>0, <2>6 DEF StoresOK
  <2>10. PhaseOK'
    BY <1>0, <1>5, <2>0, <2>5, <2>9 DEF WriteSlot, PhaseOK, Present
  <2> QED BY <2>8, <2>10 DEF Typed
<1>6. ASSUME PruneTree PROVE Typed'
  <2> DEFINE n == Restrict(disk[tree], DOMAIN disk[tree] \cap DOMAIN txn.want[tree])
  <2>0. tree # NoPath
    BY <1>6 DEF PruneTree
  <2>1. n \in Entries(tree)
    BY <1>4, <2>0, RestrictInEntries DEF Entries
  <2>2. n \in NodesAt(tree)
    BY <1>4, <2>0, <2>1, EntriesPresent
  <2>3. disk' = [disk EXCEPT ![tree] = n]
    BY <1>6 DEF PruneTree
  <2> HIDE DEF n
  <2>4. StoresOK'
    BY <1>0, <1>4, <1>6, <2>0, <2>2, <2>3, DiskChanged DEF PruneTree
  <2>5. TypeOK'
    BY <1>0, <1>6, <2>4 DEF PruneTree, Surrendered, TypeOK, StoresOK
  <2>6. PhaseOK'
    BY <1>0, <1>6 DEF PruneTree, PhaseOK
  <2> QED BY <2>5, <2>6 DEF Typed
<1> QED BY <1>1, <1>2, <1>3, <1>5, <1>6
LEMMA PublishTyped ==
  ASSUME Typed,
         \/ StartPublish
         \/ \E p \in Paths : PruneStale(p) \/ PruneConflict(p)
         \/ PublishGroup
         \/ PublishConflict
  PROVE  Typed'
<1>0. TypeOK /\ PhaseOK /\ txn \in Plans /\ StoresOK
  BY StoresTyped DEF Typed, TypeOK
<1>1. ASSUME NEW i \in 1..Len(PublishOrder)
      PROVE  Stale(i) \subseteq Owned(PublishOrder[i]) /\ Stale(i) \subseteq Paths
  BY <1>0, OrderNamesGroups DEF Stale, Owned, StoresOK
<1>2. CASE StartPublish
  <2>1. 1 \in 1..Len(PublishOrder) /\ 1 \in 0..Len(PublishOrder)
    BY OrderNamesGroups
  <2>2. TypeOK'
    BY <1>0, <1>1, <1>2, <2>1 DEF StartPublish, TypeOK
  <2>3. PhaseOK'
    BY <1>0, <1>1, <1>2, <2>1 DEF StartPublish, PhaseOK, Current, Owned
  <2> QED BY <2>2, <2>3 DEF Typed
<1>3. ASSUME NEW p \in Paths, PruneStale(p) PROVE Typed'
  <2> DEFINE n == IF Present(disk[p]) THEN Absent ELSE disk[p]
  <2>1. n \in NodesAt(p)
    BY <1>0 DEF NodesAt, StoresOK
  <2>2. disk' = [disk EXCEPT ![p] = n]
    BY <1>3 DEF PruneStale
  <2> HIDE DEF n
  <2>3. StoresOK'
    BY <1>0, <1>3, <2>1, <2>2, DiskChanged DEF PruneStale
  <2>4. TypeOK'
    BY <1>0, <1>3, <2>3 DEF PruneStale, Surrendered, TypeOK, StoresOK
  <2>5. PhaseOK'
    BY <1>0, <1>3 DEF PruneStale, PhaseOK, Current, Owned
  <2> QED BY <2>4, <2>5 DEF Typed
<1>4. ASSUME NEW p \in Paths, PruneConflict(p) PROVE Typed'
  BY <1>0, <1>4, StopTyped, StoresUnchanged DEF PruneConflict, Stop
<1>5. CASE PublishGroup
  <2>1. at \in 1..Len(PublishOrder) /\ Current \in Groups
    BY <1>0, <1>5, OrderNamesGroups DEF PublishGroup, PhaseOK, Current
  <2>2. Names(txn, Current) \subseteq Paths
    BY <1>0, PlanWants DEF Names
  <2>3. \A p \in Names(txn, Current) : disk[p] \in ContentsAt(p)
    BY <1>0, <1>5, <2>2, DiskContents DEF PublishGroup, Content
  <2>4. manifest' = [manifest EXCEPT ![Current] = Restrict(disk, Names(txn, Current))]
    BY <1>5 DEF PublishGroup
  <2>5. manifest'[Current] = Restrict(disk, Names(txn, Current))
    BY <1>0, <2>1, <2>4 DEF StoresOK
  <2>6. \A g \in Groups : g # Current => manifest'[g] = manifest[g]
    BY <1>0, <2>1, <2>4 DEF StoresOK
  <2>7. StoresOK'
    BY <1>0, <1>5, <2>2, <2>3, <2>4, <2>5, <2>6 DEF StoresOK, PublishGroup, Restrict
  <2>8. CASE at < Len(PublishOrder)
    <3>1. at + 1 \in 1..Len(PublishOrder) /\ at + 1 \in 0..Len(PublishOrder)
      BY <2>1, <2>8, OrderNamesGroups
    <3>2. PublishOrder[at + 1] \in Groups /\ PublishOrder[at + 1] # Current
      BY <2>1, <3>1, OrderNamesGroups, GroupsAssumption DEF Current
    <3>3. DOMAIN manifest'[PublishOrder[at + 1]] = Owned(PublishOrder[at + 1])
      BY <2>6, <3>2 DEF Owned
    <3>4. TypeOK'
      BY <1>0, <1>1, <1>5, <2>7, <2>8, <3>1 DEF PublishGroup, TypeOK, StoresOK
    <3>5. PhaseOK'
      BY <1>0, <1>1, <1>5, <2>8, <3>1, <3>3 DEF PublishGroup, PhaseOK, Current, Owned
    <3> QED BY <3>4, <3>5 DEF Typed
  <2>9. CASE ~(at < Len(PublishOrder))
    <3>1. 0 \in 0..Len(PublishOrder)
      BY OrderNamesGroups
    <3>2. TypeOK'
      BY <1>0, <1>5, <2>7, <2>9, <3>1 DEF PublishGroup, TypeOK, StoresOK
    <3>3. PhaseOK'
      BY <1>0, <1>5, <2>9 DEF PublishGroup, PhaseOK
    <3> QED BY <3>2, <3>3 DEF Typed
  <2> QED BY <2>8, <2>9
<1>6. CASE PublishConflict
  BY <1>0, <1>6, StopTyped, StoresUnchanged DEF PublishConflict, Stop
<1> QED BY <1>2, <1>3, <1>4, <1>5, <1>6

\* What a person saves at a path is an entry.
LEMMA SavedIsEntry ==
  ASSUME TypeOK, NEW p \in Paths, NEW s \in SlotsAt(p), NEW b \in SavedAt(p), Save(p, s, b)
  PROVE  \E n \in Entries(p) : Touch(p, n)
<1> DEFINE n == IF disk[p] = Absent THEN [x \in {s} |-> b] ELSE Put(disk[p], s, b)
<1>1. ASSUME disk[p] = Absent PROVE n \in Entries(p)
  <2>1. CASE p \in Trees
    <3>1. n \in [{s} -> Bytes \cup UserBytes \cup {Temp, Link}]
      BY <1>1, <2>1 DEF SavedAt
    <3>2. {s} \in SUBSET (Slots \cup {Stray})
      BY <2>1 DEF SlotsAt
    <3> QED BY <2>1, <3>1, <3>2 DEF Entries, EntriesAt
  <2>2. CASE p \notin Trees
    BY <1>1, <2>2 DEF Entries, EntriesAt, SlotsAt, SavedAt
  <2> QED BY <2>1, <2>2
<1>2. ASSUME disk[p] # Absent PROVE n \in Entries(p)
  <2>1. disk[p] \in Entries(p)
    BY <1>2, DiskContents DEF Save
  <2>2. b \in Bytes \cup UserBytes \cup (IF p \in Trees THEN {Temp, Link} ELSE {})
    BY DEF SavedAt
  <2> QED BY <1>2, <2>1, <2>2, PutInEntries DEF Entries, SlotsAt
<1>3. n \in Entries(p) /\ Touch(p, n)
  BY <1>1, <1>2 DEF Save
<1> QED BY <1>3

LEMMA UserTyped ==
  ASSUME Typed, User
  PROVE  Typed'
<1>0. TypeOK /\ PhaseOK /\ StoresOK
  BY StoresTyped DEF Typed
<1>1. ASSUME NEW q \in Plans, ChangeSource(q) PROVE Typed'
  <2>1. TypeOK'
    BY <1>0, <1>1 DEF ChangeSource, TypeOK
  <2>2. PhaseOK'
    BY <1>0, <1>1 DEF ChangeSource, PhaseOK, Current, Owned
  <2> QED BY <2>1, <2>2 DEF Typed
<1>2. ASSUME NEW p \in Paths, NEW n \in NodesAt(p), Touch(p, n),
             mine' \subseteq Paths, pc = "idle" \/ Present(n)
      PROVE  Typed'
  <2>1. StoresOK'
    BY <1>0, <1>2, DiskChanged DEF Touch
  <2>2. TypeOK'
    BY <1>0, <1>2, <2>1 DEF Touch, TypeOK, StoresOK
  <2>3. tree # NoPath => Present(disk'[tree])
    BY <1>0, <1>2, PathsAssumption DEF Touch, PhaseOK, StoresOK, Present
  <2>4. PhaseOK'
    BY <1>0, <1>2, <2>3 DEF Touch, PhaseOK, Current, Owned, Present
  <2> QED BY <2>2, <2>4 DEF Typed
<1>3. mine \subseteq Paths
  BY <1>0 DEF TypeOK
<1>4. ASSUME NEW p \in Paths, NEW s \in SlotsAt(p), NEW b \in SavedAt(p), Save(p, s, b)
      PROVE  Typed'
  <2>1. PICK n \in Entries(p) : Touch(p, n)
    BY <1>0, <1>4, SavedIsEntry
  <2>2. n \in NodesAt(p) /\ Present(n)
    BY <2>1, EntriesPresent
  <2>3. mine' \subseteq Paths
    BY <1>3, <1>4 DEF Save
  <2> QED BY <1>2, <2>1, <2>2, <2>3
<1>5. ASSUME NEW p \in Paths, Delete(p) PROVE Typed'
  BY <1>2, <1>3, <1>5 DEF Delete, NodesAt
<1>6. ASSUME NEW p \in Paths, NEW n \in {Link, Other}, Replace(p, n) PROVE Typed'
  BY <1>2, <1>3, <1>6 DEF Replace, NodesAt
<1> QED BY <1>1, <1>4, <1>5, <1>6 DEF User

LEMMA NextTyped ==
  ASSUME Typed, [Next]_vars
  PROVE  Typed'
<1>0. TypeOK /\ PhaseOK /\ StoresOK
  BY StoresTyped DEF Typed
<1>1. CASE Refuse
  <2>1. TypeOK'
    BY <1>0, <1>1 DEF Refuse, TypeOK
  <2>2. PhaseOK'
    BY <1>0, <1>1 DEF Refuse, PhaseOK, Current, Owned
  <2> QED BY <2>1, <2>2 DEF Typed
<1>2. CASE Begin
  <2>1. DOMAIN source.want \subseteq Paths
    BY <1>0, PlanWants DEF TypeOK
  <2>2. TypeOK'
    BY <1>0, <1>2, <2>1 DEF Begin, TypeOK
  <2>3. PhaseOK'
    BY <1>0, <1>2 DEF Begin, PhaseOK
  <2> QED BY <2>2, <2>3 DEF Typed
<1>3. CASE Step
  BY <1>3, WriteTyped, PublishTyped DEF Step
<1>4. CASE Crash
  <2>1. StoresOK'
    BY <1>0, <1>4, CrashTyped DEF Crash, Stop, StoresOK
  <2> QED BY <1>4, <2>1, StopTyped DEF Crash
<1>5. CASE User
  BY <1>5, UserTyped
<1>6. CASE UNCHANGED vars
  <2>1. TypeOK'
    BY <1>0, <1>6 DEF vars, TypeOK
  <2>2. PhaseOK'
    BY <1>0, <1>6 DEF vars, PhaseOK, Current, Owned
  <2> QED BY <2>1, <2>2 DEF Typed
<1> QED BY <1>1, <1>2, <1>3, <1>4, <1>5, <1>6 DEF Next, Sync

\* The variables keep their shapes, and the phases theirs, in every behaviour.
THEOREM AlwaysTyped == Spec => []Typed
<1>1. Init => Typed
  BY InitTyped
<1>2. Typed /\ [Next]_vars => Typed'
  BY NextTyped
<1> QED BY <1>1, <1>2, PTL DEF Spec

\* Every variable of PortableOutput keeps its type, whatever is edited, crashes
\* or is rerun.
THEOREM TypeCorrect == Spec => []TypeOK
<1>1. Typed => TypeOK
  BY DEF Typed
<1> QED BY <1>1, AlwaysTyped, PTL
-----------------------------------------------------------------------------
(***************************************************************************)
(* A person's work is kept, but where a link hides it.  Between runs       *)
(* nothing can hurt it; Begin has to establish, and every later step to    *)
(* keep, that a path a run may still write or prune holds no content a     *)
(* person put there, and that one the plan generates is in a manifest      *)
(* already: only a node without a hash can be there then, on which the     *)
(* later steps stop, or which they leave alone, or which is Overlooked.    *)
(* Nobody may edit during a run: such an edit is overwritten.              *)
(***************************************************************************)
KeptInv ==
  /\ \A p \in mine : disk[p] # Absent
  /\ pc # "idle" =>
       \A p \in mine :
         /\ p \in DOMAIN txn.want => p \in Owned(txn.owner[p])
         /\ Content(disk[p]) => p \notin DOMAIN txn.want /\ \A g \in Groups : p \notin Owned(g)

Kept == \A p \in mine : disk'[p] = disk[p] \/ Overlooked(p)

\* A step of a run that takes nothing from a person but what is overlooked keeps
\* the invariant: what it overwrites it takes off the list.
LEMMA KeptBySurrender ==
  ASSUME KeptInv, Kept, Surrendered, pc # "idle", UNCHANGED <<manifest, txn>>
  PROVE  KeptInv'
<1>1. ASSUME NEW p \in mine'
      PROVE  p \in mine /\ disk'[p] # Absent /\ (Content(disk'[p]) => disk'[p] = disk[p])
  BY <1>1 DEF Surrendered, KeptInv, LinkInside, Present, Content
<1> QED BY <1>1 DEF KeptInv, Owned, Content, LinkInside, Present

\* Nothing changed, nothing taken.
LEMMA KeptUnchanged ==
  ASSUME Typed, KeptInv, UNCHANGED <<disk, mine, txn>>, pc # "idle",
         \A g \in Groups : Owned(g)' = Owned(g)
  PROVE  KeptInv' /\ Kept
<1>1. \A p \in DOMAIN txn.want : txn.owner[p] \in Groups
  BY PlanWants DEF Typed, TypeOK
<1> QED BY <1>1 DEF KeptInv, Kept, Content, LinkInside, Present

\* A tree being written, a generated file about to be, and a stale entry about
\* to be removed, are a person's only where a link hides it.
LEMMA TreeOverlooked ==
  ASSUME Typed, KeptInv, tree # NoPath
  PROVE  tree \in Paths \cap Trees /\ pc = "write" /\ (tree \in mine => Overlooked(tree))
<1>1. tree \in Paths \cap Trees /\ Present(disk[tree]) /\ tree \in DOMAIN txn.want /\ pc = "write"
  BY PathsAssumption DEF Typed, TypeOK, PhaseOK
<1>2. txn.owner[tree] \in Groups
  BY <1>1, PlanWants DEF Typed, TypeOK
<1> QED BY <1>1, <1>2 DEF KeptInv, Overlooked, Content

LEMMA FileOverlooked ==
  ASSUME Typed, KeptInv, pc = "write", NEW p \in Paths, p \in todo \ Trees, p \in mine,
         disk[p] # Other
  PROVE  Overlooked(p)
<1>1. p \in DOMAIN txn.want /\ txn.owner[p] \in Groups
  BY PlanWants DEF Typed, TypeOK, PhaseOK
<1>2. ~Content(disk[p]) /\ disk[p] # Absent
  BY <1>1 DEF KeptInv
<1>3. disk[p] = Link
  BY <1>2, DiskContents, FilesHoldNoLink DEF Typed, Present
<1> QED BY <1>1, <1>3 DEF KeptInv, Overlooked

LEMMA StaleOverlooked ==
  ASSUME Typed, KeptInv, pc = "publish", NEW p \in todo, p \in mine, Present(disk[p])
  PROVE  Overlooked(p)
<1>1. p \in Paths /\ p \in Owned(Current) /\ Current \in Groups
  BY OrderNamesGroups DEF Typed, TypeOK, PhaseOK, Current
<1>2. ~Content(disk[p])
  BY <1>1 DEF KeptInv
<1>3. LinkInside(disk[p])
  BY <1>2 DEF Content
<1>4. p \in Trees
  BY <1>1, <1>2, DiskContents, FilesHoldNoLink DEF Typed
<1> QED BY <1>1, <1>3, <1>4 DEF Overlooked

LEMMA BeginKeeps ==
  ASSUME Typed, KeptInv, Begin
  PROVE  KeptInv' /\ Kept
<1>1. UNCHANGED disk /\ UNCHANGED manifest /\ txn' = source /\ mine' \subseteq mine
  BY DEF Begin
<1>2. mine \subseteq Paths /\ source \in Plans
  BY DEF Typed, TypeOK
<1>3. ASSUME NEW p \in mine'
      PROVE  /\ p \in Paths /\ p \in mine /\ disk[p] \notin Accepted(source, p) /\ disk[p] # Absent
             /\ p \notin Unclaimable(source) /\ p \notin Modified(source)
  BY <1>2, <1>3 DEF Begin, Refused, KeptInv
<1>4. ASSUME NEW p \in mine', p \in DOMAIN source.want
      PROVE  p \in Owned(source.owner[p])
  <2>1. disk[p] # source.want[p]
    BY <1>3, <1>4 DEF Accepted
  <2> QED BY <1>3, <1>4, <2>1 DEF Unclaimable
<1>5. ASSUME NEW p \in mine', Content(disk[p])
      PROVE  p \notin DOMAIN source.want /\ \A g \in Groups : p \notin Owned(g)
  <2>1. ASSUME NEW g \in Groups, p \in Owned(g) PROVE FALSE
    <3>1. disk[p] # manifest[g][p]
      BY <1>3, <1>5, <2>1 DEF Accepted
    <3>2. disk[p] = source.want[p] /\ p \in DOMAIN source.want
      BY <1>3, <1>5, <2>1, <3>1 DEF Modified, Names
    <3> QED BY <1>3, <1>5, <3>2 DEF Accepted
  <2>2. ASSUME p \in DOMAIN source.want PROVE FALSE
    BY <1>2, <1>4, <1>5, <2>1, <2>2, PlanWants
  <2> QED BY <2>1, <2>2
<1>6. KeptInv'
  BY <1>1, <1>3, <1>4, <1>5 DEF KeptInv, Content, LinkInside, Present, Owned
<1> QED BY <1>1, <1>6 DEF Kept

LEMMA StepKeeps ==
  ASSUME Typed, KeptInv, Step
  PROVE  KeptInv' /\ Kept
<1>0. /\ mine \subseteq Paths /\ txn \in Plans /\ DOMAIN disk = Paths /\ DOMAIN manifest = Groups
      /\ \A p \in DOMAIN txn.want : txn.owner[p] \in Groups
  BY PlanWants DEF Typed, TypeOK
<1>1. ASSUME NEW p \in Paths, WriteFile(p) PROVE KeptInv' /\ Kept
  <2>1. \A x \in Paths \ {p} : disk'[x] = disk[x]
    BY <1>0, <1>1 DEF WriteFile
  <2>2. Kept
    BY <1>0, <1>1, <2>1, FileOverlooked DEF WriteFile, Kept
  <2> QED BY <1>1, <2>2, KeptBySurrender DEF WriteFile
<1>2. ASSUME NEW p \in Paths, WriteBlocked(p) PROVE KeptInv' /\ Kept
  BY <1>2, KeptBySurrender DEF WriteBlocked, Stop, Kept
<1>3. ASSUME NEW p \in Paths, OpenTree(p) PROVE KeptInv' /\ Kept
  <2>1. \A x \in Paths : x # p \/ disk[p] # Absent => disk'[x] = disk[x]
    BY <1>0, <1>3 DEF OpenTree
  <2>2. \A x \in mine : disk'[x] = disk[x]
    BY <1>0, <2>1 DEF KeptInv
  <2>3. UNCHANGED <<mine, manifest, txn, pc>>
    BY <1>3 DEF OpenTree
  <2> QED BY <2>2, <2>3 DEF KeptInv, Kept, Owned, Content, LinkInside, Present
<1>4. ASSUME NEW s \in Slots, WriteSlot(s) PROVE KeptInv' /\ Kept
  <2>1. tree # NoPath /\ \A x \in Paths \ {tree} : disk'[x] = disk[x]
    BY <1>0, <1>4 DEF WriteSlot
  <2>2. Kept
    BY <1>0, <2>1, TreeOverlooked DEF Kept
  <2> QED BY <1>4, <2>2, KeptBySurrender DEF WriteSlot
<1>5. ASSUME PruneTree PROVE KeptInv' /\ Kept
  <2>1. tree # NoPath /\ \A x \in Paths \ {tree} : disk'[x] = disk[x]
    BY <1>0, <1>5 DEF PruneTree
  <2>2. Kept
    BY <1>0, <2>1, TreeOverlooked DEF Kept
  <2> QED BY <1>5, <2>2, KeptBySurrender DEF PruneTree
<1>6. CASE StartPublish
  BY <1>6, KeptUnchanged DEF StartPublish, Owned
<1>7. ASSUME NEW p \in Paths, PruneStale(p) PROVE KeptInv' /\ Kept
  <2>1. \A x \in Paths : x # p \/ ~Present(disk[p]) => disk'[x] = disk[x]
    BY <1>0, <1>7 DEF PruneStale
  <2>2. Kept
    BY <1>0, <1>7, <2>1, StaleOverlooked DEF PruneStale, Kept
  <2> QED BY <1>7, <2>2, KeptBySurrender DEF PruneStale
<1>8. ASSUME NEW p \in Paths, PruneConflict(p) PROVE KeptInv' /\ Kept
  BY <1>8, KeptBySurrender DEF PruneConflict, Stop, Kept
<1>9. CASE PublishGroup
  <2>1. UNCHANGED <<disk, mine, txn>> /\ pc # "idle"
    BY <1>9 DEF PublishGroup
  <2>2. Current \in Groups
    BY <1>9, OrderNamesGroups DEF PublishGroup, Typed, PhaseOK, Current
  <2>3. manifest' = [manifest EXCEPT ![Current] = Restrict(disk, Names(txn, Current))]
    BY <1>9 DEF PublishGroup
  <2>4. \A g \in Groups : DOMAIN manifest'[g] = IF g = Current THEN Names(txn, g) ELSE Owned(g)
    BY <1>0, <2>2, <2>3 DEF Restrict, Owned
  <2>5. \A p \in DOMAIN txn.want : p \in Owned(txn.owner[p]) => p \in DOMAIN manifest'[txn.owner[p]]
    BY <1>0, <2>4 DEF Names
  <2>6. \A g \in Groups : \A p \in DOMAIN manifest'[g] : p \in Owned(g) \/ p \in DOMAIN txn.want
    BY <2>4 DEF Names
  <2> QED BY <2>1, <2>5, <2>6 DEF KeptInv, Kept, Owned, Content, LinkInside, Present
<1>10. CASE PublishConflict
  BY <1>10, KeptBySurrender DEF PublishConflict, Stop, Kept
<1> QED BY <1>1, <1>2, <1>3, <1>4, <1>5, <1>6, <1>7, <1>8, <1>9, <1>10 DEF Step

LEMMA CrashKeeps ==
  ASSUME Typed, KeptInv, Crash
  PROVE  KeptInv' /\ Kept
<1>0. /\ pc # "idle" /\ UNCHANGED <<manifest, txn>> /\ Surrendered
      /\ mine \subseteq Paths /\ DOMAIN disk = Paths
  BY DEF Crash, Stop, Typed, TypeOK
<1>1. ASSUME UNCHANGED disk PROVE Kept
  BY <1>1 DEF Kept
<1>2. ASSUME TempLeft \/ PartlyPruned PROVE Kept
  <2>1. tree # NoPath /\ \A x \in Paths \ {tree} : disk'[x] = disk[x]
    BY <1>0, <1>2 DEF TempLeft, PartlyPruned
  <2> QED BY <1>0, <2>1, TreeOverlooked DEF Kept
<1>3. ASSUME NEW p \in Paths, PartlyRemoved(p) PROVE Kept
  <2>1. /\ pc = "publish" /\ p \in todo /\ Present(disk[p])
        /\ \A x \in Paths \ {p} : disk'[x] = disk[x]
    BY <1>0, <1>3 DEF PartlyRemoved
  <2> QED BY <1>0, <2>1, StaleOverlooked DEF Kept
<1>4. Kept
  BY <1>1, <1>2, <1>3 DEF Crash
<1> QED BY <1>0, <1>4, KeptBySurrender

LEMMA UserKeeps ==
  ASSUME ~Interferes, Typed, KeptInv, User
  PROVE  KeptInv'
<1>0. mine \subseteq Paths /\ DOMAIN disk = Paths
  BY DEF Typed, TypeOK
<1>1. ASSUME NEW q \in Plans, ChangeSource(q) PROVE KeptInv'
  BY <1>1 DEF ChangeSource, KeptInv
<1>2. ASSUME NEW p \in Paths, NEW n, Touch(p, n), pc = "idle",
             \/ n # Absent /\ mine' = mine \cup {p}
             \/ mine' = mine \ {p}
      PROVE  KeptInv'
  <2>1. \A x \in Paths : disk'[x] = IF x = p THEN n ELSE disk[x]
    BY <1>0, <1>2 DEF Touch
  <2>2. pc' = "idle"
    BY <1>2 DEF Touch
  <2> QED BY <1>0, <1>2, <2>1, <2>2 DEF KeptInv
<1>3. ASSUME NEW p \in Paths, NEW s \in SlotsAt(p), NEW b \in SavedAt(p), Save(p, s, b)
      PROVE  KeptInv'
  <2>1. PICK n \in Entries(p) : Touch(p, n)
    BY <1>3, SavedIsEntry DEF Typed
  <2>2. n # Absent
    BY <2>1, EntriesPresent DEF Present
  <2>3. pc = "idle" /\ mine' = mine \cup {p}
    BY <1>3 DEF Save
  <2> QED BY <1>2, <2>1, <2>2, <2>3
<1>4. ASSUME NEW p \in Paths, Delete(p) PROVE KeptInv'
  BY <1>2, <1>4 DEF Delete
<1>5. ASSUME NEW p \in Paths, NEW n \in {Link, Other}, Replace(p, n) PROVE KeptInv'
  BY <1>2, <1>5, NodesAssumption DEF Replace
<1> QED BY <1>1, <1>3, <1>4, <1>5 DEF User

\* If nobody edits during a run, no run and no crash ever changes what a person
\* put at a path unless a manifest names the path and a link hides it, whatever
\* the plans, the groups and the order of edits, reruns and source changes.
THEOREM UserWorkIsKept ==
  ASSUME ~Interferes
  PROVE  Spec => UserWorkKept
<1>1. Init => KeptInv
  BY DEF Init, KeptInv
<1>2. Typed /\ KeptInv /\ [Next]_vars => KeptInv'
  <2> SUFFICES ASSUME Typed, KeptInv, [Next]_vars PROVE KeptInv'
    OBVIOUS
  <2>1. CASE Refuse
    BY <2>1 DEF Refuse, KeptInv
  <2>2. CASE Begin
    BY <2>2, BeginKeeps
  <2>3. CASE Step
    BY <2>3, StepKeeps
  <2>4. CASE Crash
    BY <2>4, CrashKeeps
  <2>5. CASE User
    BY <2>5, UserKeeps
  <2>6. CASE UNCHANGED vars
    BY <2>6 DEF vars, KeptInv, Owned
  <2> QED BY <2>1, <2>2, <2>3, <2>4, <2>5, <2>6 DEF Next, Sync
<1>3. Typed /\ KeptInv /\ [Next]_vars =>
        [Sync \/ Crash => \A p \in mine : disk'[p] = disk[p] \/ Overlooked(p)]_vars
  <2> SUFFICES ASSUME Typed, KeptInv, Sync \/ Crash
               PROVE  \A p \in mine : disk'[p] = disk[p] \/ Overlooked(p)
    OBVIOUS
  <2>1. CASE Refuse
    BY <2>1 DEF Refuse
  <2> QED BY <2>1, BeginKeeps, StepKeeps, CrashKeeps DEF Sync, Kept
<1> QED BY <1>1, <1>2, <1>3, AlwaysTyped, PTL DEF Spec, UserWorkKept
-----------------------------------------------------------------------------
(***************************************************************************)
(* A manifest vouches only for compiled content.  Publication hashes what  *)
(* is on disk, so the invariant has to carry the progress of the write     *)
(* phase: whatever is written already is the plan's content, or has no     *)
(* hash at all, which publication refuses: a link the run left in the      *)
(* place of a file because it leads to the same bytes is such a case.      *)
(***************************************************************************)
AsPlanned(p) == disk[p] = txn.want[p] \/ ~Content(disk[p])

WrittenOK ==
  /\ tree # NoPath => \A s \in DOMAIN txn.want[tree] \ slots :
                        s \in DOMAIN disk[tree] /\ disk[tree][s] \in {txn.want[tree][s], Link}
  /\ pc = "write" => \A p \in DOMAIN txn.want \ (todo \cup {tree}) : AsPlanned(p)
  /\ pc = "publish" => \A p \in DOMAIN txn.want : AsPlanned(p)

VouchInv == WrittenOK /\ ManifestVouches

LEMMA BeginVouches ==
  ASSUME Typed, VouchInv, Begin
  PROVE  VouchInv'
<1>1. UNCHANGED <<disk, manifest, tree, slots>> /\ tree = NoPath
  BY DEF Begin, Typed, PhaseOK
<1>2. WrittenOK'
  BY <1>1 DEF Begin, WrittenOK
<1> QED BY <1>1, <1>2 DEF VouchInv, ManifestVouches, Owned

LEMMA StopVouches ==
  ASSUME Typed, VouchInv, NEW how, Stop(how)
  PROVE  VouchInv'
BY DEF Stop, VouchInv, WrittenOK, ManifestVouches, Owned

LEMMA WriteVouches ==
  ASSUME Typed, VouchInv,
         \/ \E p \in Paths : WriteFile(p) \/ OpenTree(p)
         \/ \E s \in Slots : WriteSlot(s)
         \/ PruneTree
  PROVE  VouchInv'
<1>0. /\ DOMAIN disk = Paths
      /\ txn \in Plans
      /\ DOMAIN txn.want \subseteq Paths
  BY PlanWants DEF Typed, TypeOK
<1>1. UNCHANGED manifest /\ pc = "write" /\ pc' = "write" /\ UNCHANGED txn
  BY DEF WriteFile, OpenTree, WriteSlot, PruneTree, Typed, PhaseOK
<1>2. ManifestVouches'
  BY <1>1 DEF VouchInv, ManifestVouches, Owned
<1>3. ASSUME NEW p \in Paths, WriteFile(p) PROVE WrittenOK'
  <2>1. p # tree
    BY <1>3, PathsAssumption DEF WriteFile, Typed, PhaseOK
  <2>2. \A x \in Paths \ {p} : disk'[x] = disk[x]
    BY <1>0, <1>3 DEF WriteFile
  <2>3. disk'[p] = txn.want[p] \/ disk'[p] = Link
    BY <1>0, <1>3 DEF WriteFile
  <2>4. tree # NoPath => tree \in Paths
    BY PathsAssumption DEF Typed, PhaseOK
  <2> QED BY <1>0, <1>1, <1>3, <2>1, <2>2, <2>3, <2>4
          DEF WriteFile, VouchInv, WrittenOK, AsPlanned, Content, LinkInside, Present
<1>4. ASSUME NEW p \in Paths, OpenTree(p) PROVE WrittenOK'
  <2>1. \A x \in Paths \ {p} : disk'[x] = disk[x]
    BY <1>0, <1>4 DEF OpenTree
  <2>2. CASE disk[p] = Link
    <3>1. UNCHANGED <<disk, tree, slots>> /\ tree = NoPath
      BY <1>4, <2>2 DEF OpenTree
    <3> QED BY <1>0, <1>1, <1>4, <2>2, <3>1
            DEF OpenTree, VouchInv, WrittenOK, AsPlanned, Content, LinkInside, Present
  <2>3. CASE disk[p] # Link
    <3>1. tree' = p /\ slots' = DOMAIN txn.want[p] /\ todo' = todo \ {p} /\ tree = NoPath
      BY <1>4, <2>3 DEF OpenTree
    <3> QED BY <1>0, <1>1, <2>1, <3>1, PathsAssumption
            DEF VouchInv, WrittenOK, AsPlanned, Content, LinkInside, Present
  <2> QED BY <2>2, <2>3
<1>5. ASSUME NEW s \in Slots, WriteSlot(s) PROVE WrittenOK'
  <2>1. tree # NoPath /\ tree \in Paths
    BY <1>5, PathsAssumption DEF WriteSlot, Typed, PhaseOK
  <2>2. \A x \in Paths \ {tree} : disk'[x] = disk[x]
    BY <1>0, <1>5 DEF WriteSlot
  <2>3. \/ disk'[tree] = Put(disk[tree], s, txn.want[tree][s])
        \/ disk'[tree] = disk[tree] /\ s \in DOMAIN disk[tree] /\ disk[tree][s] = Link
    BY <1>0, <1>5, <2>1 DEF WriteSlot
  <2>4. /\ DOMAIN disk'[tree] = DOMAIN disk[tree] \cup {s}
        /\ disk'[tree][s] \in {txn.want[tree][s], Link}
        /\ \A x \in DOMAIN disk[tree] \ {s} : disk'[tree][x] = disk[tree][x]
    BY <2>3 DEF Put
  <2>5. UNCHANGED <<tree, todo>> /\ slots' = slots \ {s}
    BY <1>5 DEF WriteSlot
  <2> QED BY <1>0, <1>1, <2>1, <2>2, <2>4, <2>5
          DEF VouchInv, WrittenOK, AsPlanned, Content, LinkInside, Present
<1>6. ASSUME PruneTree PROVE WrittenOK'
  <2>1. tree # NoPath /\ tree \in Paths /\ tree \in Trees /\ tree \in DOMAIN txn.want /\ slots = {}
    BY <1>6, PathsAssumption DEF PruneTree, Typed, PhaseOK
  <2>2. \A x \in Paths \ {tree} : disk'[x] = disk[x]
    BY <1>0, <1>6 DEF PruneTree
  <2>3. disk'[tree] = Restrict(disk[tree], DOMAIN disk[tree] \cap DOMAIN txn.want[tree])
    BY <1>0, <1>6, <2>1 DEF PruneTree
  <2>4. \A s \in DOMAIN txn.want[tree] :
          s \in DOMAIN disk[tree] /\ disk[tree][s] \in {txn.want[tree][s], Link}
    BY <2>1 DEF VouchInv, WrittenOK
  <2>5. txn.want[tree] \in GeneratedAt(tree)
    BY <1>0, <2>1, PlanWants
  <2>6. txn.want[tree] = [s \in DOMAIN txn.want[tree] |-> txn.want[tree][s]]
    BY <2>1, <2>5 DEF GeneratedAt
  <2>7. DOMAIN disk[tree] \cap DOMAIN txn.want[tree] = DOMAIN txn.want[tree]
    BY <2>4
  <2>8. disk'[tree] = [s \in DOMAIN txn.want[tree] |-> disk[tree][s]]
    BY <2>3, <2>7 DEF Restrict
  <2>9. disk'[tree] = txn.want[tree] \/ ~Content(disk'[tree])
    <3>1. CASE \E s \in DOMAIN txn.want[tree] : disk[tree][s] = Link
      BY <2>8, <3>1 DEF Content, LinkInside
    <3>2. CASE \A s \in DOMAIN txn.want[tree] : disk[tree][s] # Link
      BY <2>4, <2>6, <2>8, <3>2
    <3> QED BY <3>1, <3>2
  <2>10. UNCHANGED todo /\ tree' = NoPath
    BY <1>6 DEF PruneTree
  <2> QED BY <1>0, <1>1, <2>2, <2>9, <2>10
          DEF VouchInv, WrittenOK, AsPlanned, Content, LinkInside, Present
<1> QED BY <1>2, <1>3, <1>4, <1>5, <1>6 DEF VouchInv

LEMMA PublishVouches ==
  ASSUME Typed, VouchInv,
         \/ StartPublish
         \/ \E p \in Paths : PruneStale(p)
         \/ PublishGroup
  PROVE  VouchInv'
<1>0. /\ DOMAIN disk = Paths
      /\ txn \in Plans
      /\ DOMAIN txn.want \subseteq Paths
  BY PlanWants DEF Typed, TypeOK
<1>1. CASE StartPublish
  <2>1. \A p \in DOMAIN txn.want : p # NoPath
    BY <1>0, PathsAssumption
  <2> QED BY <1>1, <2>1
          DEF StartPublish, VouchInv, WrittenOK, AsPlanned, ManifestVouches, Owned
<1>2. ASSUME NEW p \in Paths, PruneStale(p) PROVE VouchInv'
  <2>1. \A x \in Paths : disk'[x] = disk[x] \/ disk'[x] = Absent
    BY <1>0, <1>2 DEF PruneStale
  <2>2. UNCHANGED <<manifest, txn, pc, tree>> /\ pc = "publish" /\ tree = NoPath
    BY <1>2 DEF PruneStale, Typed, PhaseOK
  <2> QED BY <1>0, <2>1, <2>2
          DEF VouchInv, WrittenOK, AsPlanned, Content, LinkInside, Present, ManifestVouches, Owned
<1>3. CASE PublishGroup
  <2>1. Current \in Groups
    BY <1>3, OrderNamesGroups DEF PublishGroup, Typed, PhaseOK, Current
  <2>2. UNCHANGED <<disk, txn, tree>> /\ pc = "publish" /\ tree = NoPath
    BY <1>3 DEF PublishGroup, Typed, PhaseOK
  <2>3. WrittenOK'
    BY <1>3, <2>2 DEF PublishGroup, VouchInv, WrittenOK, AsPlanned
  <2>4. \A p \in Names(txn, Current) : disk[p] \in Compiled(p)
    BY <1>0, <1>3, <2>2 DEF PublishGroup, Names, VouchInv, WrittenOK, AsPlanned, Compiled
  <2>5. manifest' = [manifest EXCEPT ![Current] = Restrict(disk, Names(txn, Current))]
    BY <1>3 DEF PublishGroup
  <2>6. \A g \in Groups :
          manifest'[g] = IF g = Current THEN Restrict(disk, Names(txn, Current)) ELSE manifest[g]
    BY <2>1, <2>5 DEF Typed, TypeOK
  <2>7. ManifestVouches'
    BY <2>4, <2>6 DEF VouchInv, ManifestVouches, Owned, Restrict, Compiled
  <2> QED BY <2>3, <2>7 DEF VouchInv
<1> QED BY <1>1, <1>2, <1>3

\* The progress of the write phase and the manifests, in every behaviour.
LEMMA VouchHolds ==
  ASSUME ~Interferes
  PROVE  Spec => []VouchInv
<1>1. Init => VouchInv
  BY DEF Init, VouchInv, WrittenOK, ManifestVouches, Owned
<1>2. Typed /\ VouchInv /\ [Next]_vars => VouchInv'
  <2> SUFFICES ASSUME Typed, VouchInv, [Next]_vars PROVE VouchInv'
    OBVIOUS
  <2>1. CASE Refuse
    BY <2>1 DEF Refuse, VouchInv, WrittenOK, ManifestVouches, AsPlanned, Owned
  <2>2. CASE Begin
    BY <2>2, BeginVouches
  <2>3. CASE Step
    <3>1. CASE \/ \E p \in Paths : WriteBlocked(p) \/ PruneConflict(p)
               \/ PublishConflict
      BY <3>1, StopVouches DEF WriteBlocked, PruneConflict, PublishConflict
    <3> QED BY <2>3, <3>1, WriteVouches, PublishVouches DEF Step
  <2>4. CASE Crash
    BY <2>4, StopVouches DEF Crash
  <2>5. CASE User
    <3>1. UNCHANGED <<manifest, tree, pc, slots>> /\ pc = "idle" /\ tree = NoPath
      BY <2>5 DEF User, ChangeSource, Save, Delete, Replace, Touch, Typed, PhaseOK
    <3> QED BY <3>1 DEF VouchInv, WrittenOK, ManifestVouches, Owned
  <2>6. CASE UNCHANGED vars
    BY <2>6 DEF vars, VouchInv, WrittenOK, ManifestVouches, AsPlanned, Owned
  <2> QED BY <2>1, <2>2, <2>3, <2>4, <2>5, <2>6 DEF Next, Sync
<1> QED BY <1>1, <1>2, AlwaysTyped, PTL DEF Spec

\* If nobody edits during a run, a manifest never records anything but content
\* some plan generates: not a half-written tree, not what a crash left behind,
\* not a person's text.
THEOREM ManifestsVouch ==
  ASSUME ~Interferes
  PROVE  Spec => []ManifestVouches
<1>1. VouchInv => ManifestVouches
  BY DEF VouchInv
<1> QED BY <1>1, VouchHolds, PTL
-----------------------------------------------------------------------------
(* What each kind of step can change, for the invariants below.            *)

\* A run takes a path off `mine` only by changing it.
LEMMA SurrenderFrame ==
  ASSUME Typed, Surrendered, NEW p \in Paths, \A x \in Paths \ {p} : disk'[x] = disk[x]
  PROVE  /\ mine' \subseteq mine
         /\ \A x \in Paths \ {p} : x \in mine' <=> x \in mine
         /\ disk'[p] = disk[p] \/ LinkInside(disk'[p]) => (p \in mine' <=> p \in mine)
BY DEF Surrendered

\* Nothing a run does to a tree makes a link: not a file it writes there,
LEMMA PutMakesNoLink ==
  ASSUME NEW f, NEW s, NEW b, b # Link, Present(f), LinkInside(Put(f, s, b))
  PROVE  LinkInside(f)
BY DEF LinkInside, Put

\* and not the files it removes.
LEMMA RestrictMakesNoLink ==
  ASSUME NEW f, NEW S \in SUBSET DOMAIN f, Present(f), LinkInside(Restrict(f, S))
  PROVE  LinkInside(f)
BY DEF LinkInside, Restrict

\* A write changes one path of the plan: a file to what the plan wants.
LEMMA WriteFrame ==
  ASSUME Typed,
         \/ \E p \in Paths : WriteFile(p) \/ OpenTree(p)
         \/ \E s \in Slots : WriteSlot(s)
         \/ PruneTree
  PROVE  /\ UNCHANGED <<manifest, source, pc, txn, at, outcome, cut>> /\ pc = "write"
         /\ \E p \in Paths \cap DOMAIN txn.want :
              /\ \A x \in Paths \ {p} : disk'[x] = disk[x] /\ (x \in mine' <=> x \in mine)
              /\ disk'[p] = disk[p] \/ LinkInside(disk'[p]) => (p \in mine' <=> p \in mine)
              /\ disk'[p] = disk[p] \/ Present(disk'[p])
              /\ LinkInside(disk'[p]) => LinkInside(disk[p])
              /\ p \notin Trees => disk'[p] \in {disk[p], txn.want[p]}
<1>0. DOMAIN disk = Paths /\ txn \in Plans /\ DOMAIN txn.want \subseteq Paths
  BY PlanWants DEF Typed, TypeOK
<1>1. ASSUME NEW p \in Paths, WriteFile(p)
      PROVE  /\ p \in DOMAIN txn.want /\ Surrendered
             /\ \A x \in Paths \ {p} : disk'[x] = disk[x]
             /\ disk'[p] \in {disk[p], txn.want[p]}
             /\ Content(txn.want[p])
  <2>1. p \in DOMAIN txn.want
    BY <1>1 DEF WriteFile, Typed, PhaseOK
  <2>2. Content(txn.want[p])
    BY <1>0, <2>1, PlanWants
  <2> QED BY <1>0, <1>1, <2>1, <2>2 DEF WriteFile
<1>2. ASSUME NEW p \in Paths, OpenTree(p)
      PROVE  /\ p \in Trees /\ p \in DOMAIN txn.want /\ UNCHANGED mine
             /\ \A x \in Paths \ {p} : disk'[x] = disk[x]
             /\ disk'[p] = disk[p] \/ Content(disk'[p])
  <2>1. p \in Trees /\ p \in DOMAIN txn.want
    BY <1>2 DEF OpenTree, Typed, PhaseOK
  <2>2. Content(<< >>)
    BY <1>2, <2>1, EmptyInContents, ContentIsEntry
  <2> QED BY <1>0, <1>2, <2>1, <2>2 DEF OpenTree
<1>3. ASSUME tree # NoPath
      PROVE  /\ tree \in Paths /\ tree \in Trees /\ tree \in DOMAIN txn.want
             /\ Present(disk[tree]) /\ disk[tree] \in Entries(tree)
             /\ txn.want[tree] \in GeneratedAt(tree)
  <2>1. tree \in Paths /\ tree \in Trees /\ tree \in DOMAIN txn.want /\ Present(disk[tree])
    BY <1>3, PathsAssumption DEF Typed, PhaseOK
  <2> QED BY <1>0, <2>1, DiskContents, PlanWants DEF Typed
<1>4. ASSUME NEW s \in Slots, WriteSlot(s)
      PROVE  /\ tree # NoPath /\ Surrendered
             /\ \A x \in Paths \ {tree} : disk'[x] = disk[x]
             /\ Present(disk'[tree])
             /\ LinkInside(disk'[tree]) => LinkInside(disk[tree])
  <2>1. tree # NoPath /\ Surrendered /\ tree' = tree /\ s \in slots
    BY <1>4 DEF WriteSlot
  <2>2. Present(disk'[tree])
    BY <1>4, <2>1, WriteTyped DEF Typed, PhaseOK
  <2>3. txn.want[tree][s] # Link
    BY <1>3, <2>1, BytesAssumption DEF Typed, PhaseOK, GeneratedAt
  <2>4. UNCHANGED disk \/ disk' = [disk EXCEPT ![tree] = Put(disk[tree], s, txn.want[tree][s])]
    BY <1>4 DEF WriteSlot
  <2>5. LinkInside(disk'[tree]) => LinkInside(disk[tree])
    BY <1>0, <1>3, <2>1, <2>3, <2>4, PutMakesNoLink
  <2> QED BY <1>0, <2>1, <2>2, <2>4, <2>5
<1>5. ASSUME PruneTree
      PROVE  /\ tree # NoPath /\ Surrendered
             /\ \A x \in Paths \ {tree} : disk'[x] = disk[x]
             /\ Present(disk'[tree])
             /\ LinkInside(disk'[tree]) => LinkInside(disk[tree])
  <2> DEFINE S == DOMAIN disk[tree] \cap DOMAIN txn.want[tree]
  <2>1. tree # NoPath /\ Surrendered /\ disk' = [disk EXCEPT ![tree] = Restrict(disk[tree], S)]
    BY <1>5 DEF PruneTree
  <2>2. disk'[tree] = Restrict(disk[tree], S)
    BY <1>0, <1>3, <2>1
  <2>3. Present(disk'[tree])
    BY <1>3, <2>1, <2>2, RestrictInEntries, EntriesPresent DEF Entries
  <2>4. LinkInside(disk'[tree]) => LinkInside(disk[tree])
    BY <1>3, <2>1, <2>2, RestrictMakesNoLink
  <2> QED BY <1>0, <2>1, <2>3, <2>4
<1>6. UNCHANGED <<manifest, source, pc, txn, at, outcome, cut>> /\ pc = "write"
  BY DEF WriteFile, OpenTree, WriteSlot, PruneTree, Typed, PhaseOK
<1>7. ASSUME NEW p \in Paths, WriteFile(p) \/ OpenTree(p)
      PROVE  /\ p \in DOMAIN txn.want
             /\ \A x \in Paths \ {p} : disk'[x] = disk[x] /\ (x \in mine' <=> x \in mine)
             /\ disk'[p] = disk[p] \/ LinkInside(disk'[p]) => (p \in mine' <=> p \in mine)
             /\ disk'[p] = disk[p] \/ Content(disk'[p])
             /\ p \notin Trees => disk'[p] \in {disk[p], txn.want[p]}
  BY <1>1, <1>2, <1>7, SurrenderFrame
<1>8. CASE \E p \in Paths : WriteFile(p) \/ OpenTree(p)
  BY <1>6, <1>7, <1>8 DEF Content
<1>9. CASE (\E s \in Slots : WriteSlot(s)) \/ PruneTree
  BY <1>3, <1>4, <1>5, <1>6, <1>9, SurrenderFrame
<1> QED BY <1>8, <1>9

\* A stale entry is gone from the disk, or is no entry.
LEMMA PruneFrame ==
  ASSUME Typed, NEW p \in Paths, PruneStale(p)
  PROVE  /\ UNCHANGED <<manifest, source, pc, txn, at, outcome, cut>> /\ pc = "publish"
         /\ p \in todo /\ todo' = todo \ {p}
         /\ p \in Owned(Current)
         /\ \A x \in Paths \ {p} : disk'[x] = disk[x]
         /\ \A x \in Paths : disk'[x] = disk[x] => (x \in mine' <=> x \in mine)
         /\ disk'[p] = Absent \/ disk'[p] = disk[p]
         /\ ~Present(disk'[p])
<1>1. \A x \in Paths \ {p} : disk'[x] = disk[x]
  BY DEF PruneStale, Typed, TypeOK
<1>2. disk'[p] = IF Present(disk[p]) THEN Absent ELSE disk[p]
  BY DEF PruneStale, Typed, TypeOK
<1>3. \A x \in Paths : disk'[x] = disk[x] => (x \in mine' <=> x \in mine)
  BY <1>1, SurrenderFrame DEF PruneStale
<1> QED BY <1>1, <1>2, <1>3 DEF PruneStale, Typed, TypeOK, PhaseOK, Present

\* Publication replaces one manifest by what is on disk.
LEMMA PublishFrame ==
  ASSUME Typed, PublishGroup
  PROVE  /\ UNCHANGED <<disk, source, txn, tree, slots, mine, cut>> /\ pc = "publish" /\ todo = {}
         /\ Current \in Groups /\ at \in 1..Len(PublishOrder)
         /\ \A g \in Groups \ {Current} : manifest'[g] = manifest[g]
         /\ DOMAIN manifest'[Current] = Names(txn, Current)
         /\ \A p \in Names(txn, Current) : manifest'[Current][p] = disk[p] /\ Content(disk[p])
         /\ \/ at < Len(PublishOrder) /\ at' = at + 1 /\ pc' = "publish" /\ UNCHANGED outcome
               /\ todo' = Stale(at')
            \/ at = Len(PublishOrder) /\ at' = 0 /\ pc' = "idle" /\ outcome' = "done"
<1>1. Current \in Groups /\ at \in 1..Len(PublishOrder)
  BY OrderNamesGroups DEF PublishGroup, Typed, PhaseOK, Current
<1>2. Names(txn, Current) \subseteq Paths /\ DOMAIN disk = Paths /\ DOMAIN manifest = Groups
  BY PlanWants DEF Typed, TypeOK, Names
<1>3. manifest' = [manifest EXCEPT ![Current] = Restrict(disk, Names(txn, Current))]
  BY DEF PublishGroup
<1>4. /\ DOMAIN manifest'[Current] = Names(txn, Current)
      /\ \A p \in Names(txn, Current) : manifest'[Current][p] = disk[p]
  BY <1>1, <1>2, <1>3 DEF Restrict
<1>5. \A g \in Groups \ {Current} : manifest'[g] = manifest[g]
  BY <1>1, <1>2, <1>3
<1>6. CASE at < Len(PublishOrder)
  BY <1>1, <1>4, <1>5, <1>6 DEF PublishGroup
<1>7. CASE ~(at < Len(PublishOrder))
  <2>1. at = Len(PublishOrder)
    BY <1>1, <1>7, OrderNamesGroups
  <2> QED BY <1>1, <1>4, <1>5, <1>7, <2>1 DEF PublishGroup
<1> QED BY <1>6, <1>7

\* A person changes one path, which is theirs from then on or empty.
LEMMA UserFrame ==
  ASSUME Typed, User
  PROVE  /\ UNCHANGED <<manifest, txn, pc, todo, tree, slots, at, cut>> /\ outcome' = "none"
         /\ ~Interferes => pc = "idle"
         /\ \/ UNCHANGED <<disk, mine>>
            \/ \E p \in Paths :
                 /\ \A x \in Paths \ {p} : disk'[x] = disk[x] /\ (x \in mine' <=> x \in mine)
                 /\ p \in mine' \/ (pc = "idle" /\ disk'[p] = Absent)
<1>0. DOMAIN disk = Paths
  BY DEF Typed, TypeOK
<1>1. CASE \E q \in Plans : ChangeSource(q)
  BY <1>1 DEF ChangeSource
<1>2. ASSUME NEW p \in Paths, NEW s \in SlotsAt(p), NEW b \in SavedAt(p), Save(p, s, b)
      PROVE  /\ \A x \in Paths \ {p} : disk'[x] = disk[x] /\ (x \in mine' <=> x \in mine)
             /\ p \in mine'
             /\ UNCHANGED <<manifest, txn, pc, todo, tree, slots, at, cut>> /\ outcome' = "none"
             /\ ~Interferes => pc = "idle"
  BY <1>0, <1>2 DEF Save, Touch
<1>3. ASSUME NEW p \in Paths, Delete(p)
      PROVE  /\ \A x \in Paths \ {p} : disk'[x] = disk[x] /\ (x \in mine' <=> x \in mine)
             /\ pc = "idle" /\ disk'[p] = Absent
             /\ UNCHANGED <<manifest, txn, pc, todo, tree, slots, at, cut>> /\ outcome' = "none"
  BY <1>0, <1>3 DEF Delete, Touch
<1>4. ASSUME NEW p \in Paths, NEW n \in {Link, Other}, Replace(p, n)
      PROVE  /\ \A x \in Paths \ {p} : disk'[x] = disk[x] /\ (x \in mine' <=> x \in mine)
             /\ p \in mine' /\ pc = "idle"
             /\ UNCHANGED <<manifest, txn, pc, todo, tree, slots, at, cut>> /\ outcome' = "none"
  BY <1>0, <1>4 DEF Replace, Touch
<1> QED BY <1>1, <1>2, <1>3, <1>4 DEF User
-----------------------------------------------------------------------------
(***************************************************************************)
(* The ledger: what the manifests say of the disk as long as no run was    *)
(* cut short.  Between runs every entry is recorded, as it is on disk;     *)
(* during one that is so only of the manifests published already, and what *)
(* the others do not record is at least in the plan.  A person may edit at *)
(* any time: `mine` remembers those paths.                                 *)
(***************************************************************************)
Recorded == \A p \in Paths \ mine : Content(disk[p]) => \E g \in Groups : p \in Owned(g)

Matching(g) == \A p \in Owned(g) \ mine : Content(disk[p]) => disk[p] = manifest[g][p]

Published(i) ==
  LET g == PublishOrder[i] IN Owned(g) = Names(txn, g) /\ Matching(g)

LedgerInv ==
  /\ \A p \in Paths : disk[p] # Absent /\ ~Content(disk[p]) => p \in mine
  /\ pc = "publish" => /\ \A i \in 1..at - 1 : Published(i)
                       /\ \A p \in Stale(at) \ todo : p \in mine \/ ~Content(disk[p])
  /\ pc = "idle" /\ ~cut => Recorded /\ \A g \in Groups : Matching(g)
  /\ pc # "idle" /\ ~cut =>
       \A p \in Paths \ mine :
         Content(disk[p]) => p \in DOMAIN txn.want \/ \E g \in Groups : p \in Owned(g)

LEMMA BeginLedger ==
  ASSUME Typed, LedgerInv, Begin
  PROVE  LedgerInv'
<1>1. /\ UNCHANGED <<disk, manifest, cut>> /\ txn' = source /\ pc = "idle" /\ pc' = "write"
      /\ mine' = {p \in mine : disk[p] \notin Accepted(source, p)}
  BY DEF Begin
<1>2. ASSUME NEW p \in mine \ mine'
      PROVE  /\ p \in DOMAIN source.want \/ \E g \in Groups : p \in Owned(g)
             /\ Content(disk[p])
  <2>1. disk[p] \in Accepted(source, p)
    BY <1>1, <1>2
  <2>2. CASE \E g \in Groups : p \in Owned(g) /\ disk[p] = manifest[g][p]
    <3>1. p \in Paths /\ disk[p] \in ContentsAt(p)
      BY <2>2 DEF Typed, TypeOK, Owned
    <3> QED BY <2>2, <3>1, ContentIsEntry
  <2>3. CASE p \in DOMAIN source.want /\ disk[p] = source.want[p]
    BY <2>3, PlanWants DEF Typed, TypeOK
  <2> QED BY <2>1, <2>2, <2>3 DEF Accepted
<1>3. \A p \in Paths : Content(disk'[p]) <=> Content(disk[p])
  BY <1>1 DEF Content, LinkInside, Present
<1> QED BY <1>1, <1>2, <1>3 DEF LedgerInv, Recorded, Owned

LEMMA WriteLedger ==
  ASSUME Typed, LedgerInv,
         \/ \E p \in Paths : WriteFile(p) \/ OpenTree(p)
         \/ \E s \in Slots : WriteSlot(s)
         \/ PruneTree
  PROVE  LedgerInv'
<1>1. UNCHANGED <<manifest, txn, pc, cut>> /\ pc = "write"
  BY WriteFrame
<1>2. PICK p \in Paths \cap DOMAIN txn.want :
        /\ \A x \in Paths \ {p} : disk'[x] = disk[x] /\ (x \in mine' <=> x \in mine)
        /\ disk'[p] = disk[p] \/ LinkInside(disk'[p]) => (p \in mine' <=> p \in mine)
        /\ disk'[p] = disk[p] \/ Present(disk'[p])
        /\ LinkInside(disk'[p]) => LinkInside(disk[p])
  BY WriteFrame
<1>3. \A x \in Paths : disk'[x] # Absent /\ ~Content(disk'[x]) => x \in mine'
  BY <1>1, <1>2 DEF LedgerInv, Content, LinkInside, Present
<1> QED BY <1>1, <1>2, <1>3 DEF LedgerInv, Owned

LEMMA PruneLedger ==
  ASSUME Typed, LedgerInv, NEW p \in Paths, PruneStale(p)
  PROVE  LedgerInv'
<1>1. /\ UNCHANGED <<manifest, pc, txn, at, cut>> /\ pc = "publish"
      /\ todo' = todo \ {p}
      /\ \A x \in Paths : disk'[x] = disk[x] \/ disk'[x] = Absent
      /\ \A x \in Paths : disk'[x] = disk[x] => (x \in mine' <=> x \in mine)
      /\ ~Present(disk'[p])
  BY PruneFrame
<1>2. /\ \A x \in Paths : Content(disk'[x]) => disk'[x] = disk[x] /\ x # p
      /\ \A x \in Paths : disk'[x] # Absent /\ ~Content(disk'[x]) => disk'[x] = disk[x]
  BY <1>1 DEF Content, Present
<1>3. at \in 1..Len(PublishOrder) /\ \A g \in Groups : Owned(g) \subseteq Paths
  BY <1>1 DEF Typed, TypeOK, PhaseOK, Owned
<1>4. \A x \in Paths : disk'[x] # Absent /\ ~Content(disk'[x]) => x \in mine'
  BY <1>1, <1>2 DEF LedgerInv
<1>5. ASSUME NEW i \in 1..at - 1 PROVE Published(i)'
  <2>1. PublishOrder[i] \in Groups /\ Published(i)
    BY <1>1, <1>3, <1>5, OrderNamesGroups DEF LedgerInv
  <2> QED BY <1>1, <1>2, <1>3, <2>1 DEF Published, Matching, Names, Owned
<1>6. \A x \in Stale(at)' \ todo' : x \in mine' \/ ~Content(disk'[x])
  <2>1. Stale(at)' = Stale(at) /\ Stale(at) \subseteq Paths
    BY <1>1, <1>3, OrderNamesGroups DEF Stale, Owned, Names
  <2> QED BY <1>1, <1>2, <2>1 DEF LedgerInv
<1>7. ~cut' => \A x \in Paths \ mine' :
        Content(disk'[x]) => x \in DOMAIN txn'.want \/ \E g \in Groups : x \in DOMAIN manifest'[g]
  BY <1>1, <1>2 DEF LedgerInv, Owned
<1> QED BY <1>1, <1>4, <1>5, <1>6, <1>7 DEF LedgerInv, Owned, Stale

\* The group just published is recorded as it is on disk, and what it owned but
\* the plan no longer names has been pruned.
LEMMA PublishLedger ==
  ASSUME Typed, LedgerInv, PublishGroup
  PROVE  LedgerInv'
<1>1. /\ UNCHANGED <<disk, txn, mine, cut>> /\ pc = "publish" /\ todo = {}
      /\ Current \in Groups /\ at \in 1..Len(PublishOrder)
      /\ \A g \in Groups \ {Current} : manifest'[g] = manifest[g]
      /\ DOMAIN manifest'[Current] = Names(txn, Current)
      /\ \A p \in Names(txn, Current) : manifest'[Current][p] = disk[p]
  BY PublishFrame
<1>2. ASSUME NEW i \in 1..at PROVE Published(i)'
  <2>1. CASE i = at
    BY <1>1, <2>1 DEF Published, Matching, Owned, Current, Names
  <2>2. CASE i # at
    <3>1. i \in 1..at - 1
      BY <1>1, <1>2, <2>2
    <3>2. PublishOrder[i] \in Groups \ {Current}
      <4>1. i \in 1..Len(PublishOrder) /\ i # at
        BY <1>1, <1>2, <2>2, OrderNamesGroups
      <4> QED BY <1>1, <4>1, GroupsAssumption DEF Current
    <3>3. Published(i)
      BY <1>1, <3>1 DEF LedgerInv
    <3> QED BY <1>1, <3>2, <3>3 DEF Published, Matching, Owned, Names
  <2> QED BY <2>1, <2>2
<1>3. ~cut => \A p \in Paths \ mine :
        Content(disk[p]) => p \in DOMAIN txn.want \/ \E g \in Groups : p \in DOMAIN manifest'[g]
  <2> SUFFICES ASSUME ~cut, NEW p \in Paths \ mine, Content(disk[p]), p \notin DOMAIN txn.want
               PROVE  \E g \in Groups : p \in DOMAIN manifest'[g]
    OBVIOUS
  <2>1. PICK g \in Groups : p \in Owned(g)
    BY <1>1 DEF LedgerInv
  <2>2. g # Current
    BY <1>1, <2>1 DEF LedgerInv, Stale, Current, Names
  <2> QED BY <1>1, <2>1, <2>2 DEF Owned
<1>4. CASE pc' = "publish"
  <2>1. at' = at + 1 /\ todo' = Stale(at')
    BY <1>1, <1>4, PublishFrame
  <2>2. \A i \in 1..at' - 1 : i \in 1..at
    BY <1>1, <2>1
  <2>3. at' \in 1..Len(PublishOrder) /\ PublishOrder[at'] # Current /\ PublishOrder[at'] \in Groups
    <3>1. at' \in 1..Len(PublishOrder) /\ at' # at
      BY <1>1, <1>4, <2>1, PublishFrame, OrderNamesGroups
    <3> QED BY <1>1, <3>1, GroupsAssumption DEF Current
  <2>4. Stale(at)' \ todo' = {}
    BY <1>1, <2>1, <2>3 DEF Stale, Owned, Names
  <2> QED BY <1>1, <1>2, <1>3, <1>4, <2>2, <2>4 DEF LedgerInv, Owned
<1>5. CASE pc' = "idle" /\ at = Len(PublishOrder)
  <2>1. \A g \in Groups : \E i \in 1..at : g = PublishOrder[i]
    BY <1>5, GroupsAssumption
  <2>2. \A g \in Groups : Owned(g)' = Names(txn, g) /\ Matching(g)'
    BY <1>1, <1>2, <2>1 DEF Published, Names
  <2>3. ~cut => Recorded'
    <3> SUFFICES ASSUME ~cut, NEW p \in Paths \ mine, Content(disk[p])
                 PROVE  \E g \in Groups : p \in DOMAIN manifest'[g]
      BY <1>1 DEF Recorded, Owned
    <3>1. CASE p \in DOMAIN txn.want
      <4>1. txn.owner[p] \in Groups
        BY <3>1, PlanWants DEF Typed, TypeOK
      <4> QED BY <2>2, <3>1, <4>1 DEF Names, Owned
    <3> QED BY <1>3, <3>1
  <2> QED BY <1>1, <1>5, <2>2, <2>3 DEF LedgerInv
<1> QED BY <1>4, <1>5, PublishFrame

LEMMA UserLedger ==
  ASSUME Typed, LedgerInv, User
  PROVE  LedgerInv'
<1>1. UNCHANGED <<manifest, txn, pc, todo, at, cut>>
  BY UserFrame
<1>2. CASE UNCHANGED <<disk, mine>>
  BY <1>1, <1>2 DEF LedgerInv, Recorded, Matching, Published, Owned, Stale, Names
<1>3. ASSUME NEW p \in Paths,
             \A x \in Paths \ {p} : disk'[x] = disk[x] /\ (x \in mine' <=> x \in mine),
             p \in mine' \/ (pc = "idle" /\ disk'[p] = Absent)
      PROVE  LedgerInv'
  <2>1. /\ \A x \in Paths \ mine' : Content(disk'[x]) => x \notin mine /\ disk'[x] = disk[x]
        /\ \A x \in Paths : disk'[x] # Absent /\ ~Content(disk'[x]) => x \in mine'
    BY <1>3 DEF LedgerInv, Content, Present
  <2>2. \A g \in Groups : Owned(g)' = Owned(g) /\ Owned(g) \subseteq Paths
    BY <1>1 DEF Typed, TypeOK, Owned
  <2>3. \A g \in Groups : Matching(g) => Matching(g)'
    BY <1>1, <2>1, <2>2 DEF Matching
  <2>4. Recorded => Recorded'
    BY <2>1, <2>2 DEF Recorded
  <2>5. pc = "publish" => /\ \A i \in 1..at - 1 : Published(i)'
                          /\ \A x \in (Stale(at) \ todo)' : x \in mine' \/ ~Content(disk'[x])
    <3> SUFFICES ASSUME pc = "publish"
                 PROVE  /\ \A i \in 1..at - 1 : Published(i)'
                        /\ \A x \in (Stale(at) \ todo)' : x \in mine' \/ ~Content(disk'[x])
      OBVIOUS
    <3>1. at \in 1..Len(PublishOrder) /\ PublishOrder[at] \in Groups
      BY OrderNamesGroups DEF Typed, PhaseOK
    <3>2. ASSUME NEW i \in 1..at - 1 PROVE Published(i)'
      <4>1. PublishOrder[i] \in Groups /\ Published(i)
        BY <3>1, <3>2, OrderNamesGroups DEF LedgerInv
      <4> QED BY <1>1, <2>2, <2>3, <4>1 DEF Published, Names
    <3>3. (Stale(at) \ todo)' = Stale(at) \ todo /\ Stale(at) \subseteq Paths
      BY <1>1, <2>2, <3>1 DEF Stale, Names
    <3> QED BY <2>1, <3>2, <3>3 DEF LedgerInv
  <2> QED BY <1>1, <2>1, <2>2, <2>3, <2>4, <2>5 DEF LedgerInv
<1> QED BY <1>2, <1>3, UserFrame

\* A run that stops is cut: only what has no hash needs looking at.
LEMMA StopLedger ==
  ASSUME LedgerInv, NEW how, Stop(how),
         \A p \in Paths : disk'[p] # disk[p] =>
           Present(disk'[p]) /\ (LinkInside(disk'[p]) => LinkInside(disk[p]))
  PROVE  LedgerInv'
<1>1. ASSUME NEW p \in Paths, disk'[p] # Absent, ~Content(disk'[p]) PROVE p \in mine'
  <2>1. disk'[p] = disk[p] \/ (LinkInside(disk'[p]) /\ LinkInside(disk[p]))
    BY <1>1 DEF Content
  <2>2. p \in mine
    BY <1>1, <2>1 DEF LedgerInv, Content, LinkInside, Present
  <2> QED BY <2>1, <2>2 DEF Stop, Surrendered
<1> QED BY <1>1 DEF LedgerInv, Stop

\* A crash leaves a tree a tree and makes no links.
LEMMA CrashFrame ==
  ASSUME Typed, Crash
  PROVE  /\ \A p \in Paths : disk'[p] # disk[p] =>
              Present(disk'[p]) /\ (LinkInside(disk'[p]) => LinkInside(disk[p]))
         /\ \A p \in Paths \ Trees : disk'[p] = disk[p]
<1>0. DOMAIN disk = Paths
  BY DEF Typed, TypeOK
<1>1. ASSUME tree # NoPath
      PROVE  /\ tree \in Trees /\ tree \in Paths
             /\ Present(disk[tree]) /\ disk[tree] \in Entries(tree)
  <2>1. tree \in Trees /\ tree \in Paths /\ Present(disk[tree])
    BY <1>1, PathsAssumption DEF Typed, PhaseOK
  <2> QED BY <2>1, DiskContents DEF Typed
<1>2. ASSUME NEW t \in Trees, t \in Paths, NEW n \in Entries(t), disk' = [disk EXCEPT ![t] = n],
             LinkInside(n) => LinkInside(disk[t])
      PROVE  /\ \A p \in Paths : disk'[p] # disk[p] =>
                  Present(disk'[p]) /\ (LinkInside(disk'[p]) => LinkInside(disk[p]))
             /\ \A p \in Paths \ Trees : disk'[p] = disk[p]
  BY <1>0, <1>2, EntriesPresent
<1>3. CASE UNCHANGED disk
  BY <1>3
<1>4. CASE TempLeft
  <2>1. Put(disk[tree], Stray, Temp) \in Entries(tree)
    BY <1>1, <1>4, PutInEntries DEF TempLeft, Entries
  <2>2. LinkInside(Put(disk[tree], Stray, Temp)) => LinkInside(disk[tree])
    BY <1>1, <1>4, PutMakesNoLink, BytesAssumption DEF TempLeft
  <2> QED BY <1>1, <1>2, <1>4, <2>1, <2>2 DEF TempLeft
<1>5. CASE PartlyPruned
  <2>1. PICK S \in SUBSET DOMAIN disk[tree] :
               disk' = [disk EXCEPT ![tree] = Restrict(disk[tree], S)]
    BY <1>5 DEF PartlyPruned
  <2>2. Restrict(disk[tree], S) \in Entries(tree)
    BY <1>1, <1>5, <2>1, RestrictInEntries DEF PartlyPruned, Entries
  <2>3. LinkInside(Restrict(disk[tree], S)) => LinkInside(disk[tree])
    BY <1>1, <1>5, <2>1, RestrictMakesNoLink DEF PartlyPruned
  <2> QED BY <1>1, <1>2, <1>5, <2>1, <2>2, <2>3 DEF PartlyPruned
<1>6. CASE \E p \in Paths : PartlyRemoved(p)
  <2>1. PICK p \in Paths : PartlyRemoved(p)
    BY <1>6
  <2>2. PICK S \in SUBSET DOMAIN disk[p] :
               disk' = [disk EXCEPT ![p] = Restrict(disk[p], S)]
    BY <2>1 DEF PartlyRemoved
  <2>3. p \in Trees /\ Present(disk[p]) /\ disk[p] \in Entries(p)
    BY <2>1, DiskContents DEF PartlyRemoved, Typed
  <2>4. Restrict(disk[p], S) \in Entries(p)
    BY <2>2, <2>3, RestrictInEntries DEF Entries
  <2>5. LinkInside(Restrict(disk[p], S)) => LinkInside(disk[p])
    BY <2>2, <2>3, RestrictMakesNoLink
  <2> QED BY <1>2, <2>2, <2>3, <2>4, <2>5
<1> QED BY <1>3, <1>4, <1>5, <1>6 DEF Crash

LEMMA NextLedger ==
  ASSUME Typed, LedgerInv, [Next]_vars
  PROVE  LedgerInv'
<1>1. CASE Refuse
  BY <1>1 DEF Refuse, LedgerInv, Recorded, Matching, Published, Owned, Stale, Names
<1>2. CASE Begin
  BY <1>2, BeginLedger
<1>3. CASE Step
  <2>1. CASE \/ \E p \in Paths : WriteBlocked(p) \/ PruneConflict(p)
             \/ PublishConflict
    BY <2>1, StopLedger DEF WriteBlocked, PruneConflict, PublishConflict
  <2>2. CASE StartPublish
    <3>1. /\ UNCHANGED <<disk, manifest, txn, mine, cut>> /\ pc = "write" /\ pc' = "publish"
          /\ at' = 1 /\ todo' = Stale(1)
      BY <2>2 DEF StartPublish
    <3>2. \A i \in 1..at' - 1 : FALSE
      BY <3>1
    <3>3. Stale(at)' \ todo' = {}
      BY <3>1 DEF Stale, Owned, Names
    <3> QED BY <3>1, <3>2, <3>3 DEF LedgerInv, Owned
  <2> QED BY <1>3, <2>1, <2>2, WriteLedger, PruneLedger, PublishLedger DEF Step
<1>4. CASE Crash
  BY <1>4, CrashFrame, StopLedger DEF Crash
<1>5. CASE User
  BY <1>5, UserLedger
<1>6. CASE UNCHANGED vars
  BY <1>6 DEF vars, LedgerInv, Recorded, Matching, Published, Owned, Stale, Names
<1> QED BY <1>1, <1>2, <1>3, <1>4, <1>5, <1>6 DEF Next, Sync

THEOREM LedgerHolds == Spec => []LedgerInv
<1>1. Init => LedgerInv
  BY DEF Init, LedgerInv, Recorded, Matching, Owned, Content, Present
<1>2. Typed /\ LedgerInv /\ [Next]_vars => LedgerInv'
  BY NextLedger
<1> QED BY <1>1, <1>2, AlwaysTyped, PTL DEF Spec

\* As long as no run is cut short, every entry the compiler left on disk is in
\* a manifest: whatever the plans are, and even if a person edits during a run.
THEOREM NothingIsForgotten == Spec => []NothingForgotten
<1>1. LedgerInv => NothingForgotten
  BY DEF LedgerInv, Recorded, NothingForgotten
<1> QED BY <1>1, LedgerHolds, PTL

\* As long as no run is cut short, preflight refuses only what a person touched
\* and what is changing manifests, under the same generality.
THEOREM OwnOutputIsRecognised == Spec => []OwnOutputAccepted
<1>1. Typed /\ LedgerInv => OwnOutputAccepted
  <2> SUFFICES ASSUME Typed, LedgerInv, pc = "idle", ~cut,
                      NEW p \in Refused(source), p \notin mine, ~Moved(source, p)
               PROVE  FALSE
    BY DEF OwnOutputAccepted
  <2>1. p \in Paths
    BY PlanWants DEF Refused, Unclaimable, Modified, Typed, TypeOK
  <2>2. Recorded /\ \A g \in Groups : Matching(g)
    BY DEF LedgerInv
  <2>3. p \notin Modified(source)
    BY <2>2 DEF Modified, Matching
  <2>4. CASE p \in Unclaimable(source)
    <3>1. Content(disk[p])
      BY <2>1, <2>4 DEF Unclaimable, LedgerInv
    <3>2. PICK g \in Groups : p \in Owned(g)
      BY <2>1, <2>2, <3>1 DEF Recorded
    <3> QED BY <2>4, <3>2 DEF Unclaimable, Moved
  <2> QED BY <2>3, <2>4 DEF Refused
<1> QED BY <1>1, LedgerHolds, AlwaysTyped, PTL
-----------------------------------------------------------------------------
(***************************************************************************)
(* A killed run can be repeated.  From Begin on, and for as long as nobody *)
(* touches anything, every generated file is absent, as recorded or as     *)
(* planned, so the next preflight of the same sources accepts it.          *)
(***************************************************************************)
Resumable(p) ==
  /\ p \notin Unclaimable(txn)
  /\ \A g \in Groups :
       p \in Owned(g) /\ Content(disk[p]) =>
         disk[p] = manifest[g][p] \/ (p \in DOMAIN txn.want /\ disk[p] = txn.want[p])

RepeatInv ==
  pc # "idle" \/ outcome = "crashed" =>
    source = txn /\ \A p \in Paths \ Trees : Resumable(p)

LEMMA NextRepeats ==
  ASSUME ~Interferes, Typed, RepeatInv, [Next]_vars
  PROVE  RepeatInv'
<1>0. /\ txn \in Plans /\ DOMAIN txn.want \subseteq Paths
      /\ \A p \in DOMAIN txn.want : txn.owner[p] \in Groups /\ Content(txn.want[p])
  BY PlanWants DEF Typed, TypeOK
<1>1. CASE Refuse
  BY <1>1 DEF Refuse, RepeatInv
<1>2. CASE Begin
  <2>1. /\ UNCHANGED <<disk, manifest, source>> /\ txn' = source
        /\ Unclaimable(source) = {} /\ Modified(source) = {}
    BY <1>2 DEF Begin, Refused
  <2>2. ASSUME NEW p \in Paths \ Trees PROVE Resumable(p)'
    <3>1. Unclaimable(txn)' = {}
      BY <2>1 DEF Unclaimable, Owned
    <3>2. ASSUME NEW g \in Groups, p \in Owned(g), Content(disk[p])
          PROVE  disk[p] = manifest[g][p] \/ (p \in DOMAIN source.want /\ disk[p] = source.want[p])
      BY <2>1, <2>2, <3>2 DEF Modified, Names
    <3> QED BY <2>1, <3>1, <3>2 DEF Resumable, Owned
  <2> QED BY <2>1, <2>2 DEF RepeatInv
\* A path that keeps its file, or gets the planned one, or loses it.
<1>3. ASSUME UNCHANGED <<manifest, source, txn>>, pc # "idle",
             \A p \in Paths \ Trees :
               disk'[p] \in {disk[p], Absent} \cup {txn.want[x] : x \in {p} \cap DOMAIN txn.want}
      PROVE  RepeatInv'
  <2>1. ASSUME NEW p \in Paths \ Trees PROVE Resumable(p)'
    <3>1. Resumable(p)
      BY <1>3, <2>1 DEF RepeatInv
    <3>2. disk'[p] = disk[p] \/ disk'[p] = Absent \/ (p \in DOMAIN txn.want /\ disk'[p] = txn.want[p])
      BY <1>3, <2>1
    <3> QED BY <1>3, <3>1, <3>2 DEF Resumable, Unclaimable, Owned, Content, Present
  <2> QED BY <1>3, <2>1 DEF RepeatInv
<1>4. CASE Step
  <2>1. ASSUME PublishGroup PROVE RepeatInv'
    <3>1. /\ UNCHANGED <<disk, source, txn>> /\ pc = "publish" /\ Current \in Groups
          /\ \A g \in Groups \ {Current} : manifest'[g] = manifest[g]
          /\ DOMAIN manifest'[Current] = Names(txn, Current)
          /\ \A p \in Names(txn, Current) : manifest'[Current][p] = disk[p]
      BY <2>1, PublishFrame
    <3>2. ASSUME NEW p \in Paths \ Trees PROVE Resumable(p)'
      <4>1. Resumable(p)
        BY <3>1, <3>2 DEF RepeatInv
      <4>2. p \notin Unclaimable(txn)'
        BY <1>0, <3>1, <4>1 DEF Resumable, Unclaimable, Owned, Names
      <4>3. ASSUME NEW g \in Groups, p \in DOMAIN manifest'[g], Content(disk[p])
            PROVE  disk[p] = manifest'[g][p] \/ (p \in DOMAIN txn.want /\ disk[p] = txn.want[p])
        BY <3>1, <4>1, <4>3 DEF Resumable, Owned
      <4> QED BY <3>1, <4>2, <4>3 DEF Resumable, Owned
    <3> QED BY <3>1, <3>2 DEF RepeatInv
  <2>2. CASE \/ \E p \in Paths : WriteFile(p) \/ OpenTree(p)
             \/ \E s \in Slots : WriteSlot(s)
             \/ PruneTree
    <3>1. UNCHANGED <<manifest, source, txn>> /\ pc = "write"
      BY <2>2, WriteFrame
    <3>2. PICK p \in Paths \cap DOMAIN txn.want :
            /\ \A x \in Paths \ {p} : disk'[x] = disk[x]
            /\ p \notin Trees => disk'[p] \in {disk[p], txn.want[p]}
      BY <2>2, WriteFrame
    <3> QED BY <1>3, <3>1, <3>2
  <2>3. ASSUME NEW p \in Paths, PruneStale(p) PROVE RepeatInv'
    BY <1>3, <2>3, PruneFrame
  <2>4. CASE StartPublish
    BY <1>3, <2>4 DEF StartPublish
  <2>5. CASE \/ \E p \in Paths : WriteBlocked(p) \/ PruneConflict(p)
             \/ PublishConflict
    BY <2>5 DEF WriteBlocked, PruneConflict, PublishConflict, Stop, RepeatInv
  <2> QED BY <1>4, <2>1, <2>2, <2>3, <2>4, <2>5 DEF Step
<1>5. CASE Crash
  <2>1. UNCHANGED <<manifest, source, txn>> /\ pc # "idle"
    BY <1>5 DEF Crash, Stop
  <2> QED BY <1>3, <1>5, <2>1, CrashFrame
<1>6. CASE User
  <2>1. pc' = "idle" /\ outcome' = "none"
    BY <1>6, UserFrame
  <2> QED BY <2>1 DEF RepeatInv
<1>7. CASE UNCHANGED vars
  BY <1>7 DEF vars, RepeatInv, Resumable, Unclaimable, Owned
<1> QED BY <1>1, <1>2, <1>4, <1>5, <1>6, <1>7 DEF Next, Sync

\* If nobody edits during a run, a run that was killed can be repeated at once:
\* preflight refuses the same sources at most over a tree or a moving path.
THEOREM KilledRunsRepeat ==
  ASSUME ~Interferes
  PROVE  Spec => []KilledRunRepeats
<1>1. Init => RepeatInv
  BY DEF Init, RepeatInv
<1>2. Typed /\ RepeatInv /\ [Next]_vars => RepeatInv'
  BY NextRepeats
<1>3. Typed /\ RepeatInv => KilledRunRepeats
  <2> SUFFICES ASSUME Typed, RepeatInv, outcome = "crashed",
                      NEW p \in Refused(source), p \notin Trees
               PROVE  Moved(source, p)
    BY DEF KilledRunRepeats
  <2>1. source = txn /\ p \in Paths
    BY PlanWants DEF RepeatInv, Refused, Unclaimable, Modified, Typed, TypeOK
  <2>2. Resumable(p)
    BY <2>1 DEF RepeatInv
  <2>3. PICK g \in Groups : /\ p \in Owned(g) /\ Content(disk[p]) /\ disk[p] # manifest[g][p]
                            /\ ~(p \in Names(txn, g) /\ disk[p] = txn.want[p])
    BY <2>1, <2>2 DEF Refused, Modified, Resumable
  <2> QED BY <2>1, <2>2, <2>3 DEF Resumable, Names, Moved
<1> QED BY <1>1, <1>2, <1>3, AlwaysTyped, PTL DEF Spec
-----------------------------------------------------------------------------
(***************************************************************************)
(* Success means synced.  The manifests published so far record the plan   *)
(* as it is on disk; a later prune must not take it away again, so no path *)
(* may change manifests (TLC shows the need: portable_moves_lost).         *)
(***************************************************************************)
Settled ==
  \A q, r \in Plans : \A p \in DOMAIN q.want \cap DOMAIN r.want : q.owner[p] = r.owner[p]

InSync(i) ==
  LET g == PublishOrder[i]
  IN /\ Owned(g) = Names(txn, g)
     /\ \A p \in Owned(g) : disk[p] = txn.want[p] /\ manifest[g][p] = disk[p]

DoneInv ==
  /\ \A g \in Groups : \A p \in Owned(g) : \E q \in Plans : p \in Names(q, g)
  /\ pc # "idle" => source = txn
  /\ pc = "publish" => \A i \in 1..at - 1 : InSync(i)
  /\ outcome = "done" => pc = "idle" /\ NoDrift(source)

LEMMA NextDone ==
  ASSUME ~Interferes, Settled, Typed, WrittenOK, DoneInv, [Next]_vars
  PROVE  DoneInv'
<1>0. txn \in Plans /\ DOMAIN txn.want \subseteq Paths
  BY PlanWants DEF Typed, TypeOK
<1>1. CASE Refuse
  BY <1>1 DEF Refuse, DoneInv, Owned, Names
<1>2. CASE Begin
  BY <1>2 DEF Begin, DoneInv, Owned, Names
<1>3. ASSUME UNCHANGED <<manifest, source, txn, pc, outcome>>, pc = "write"
      PROVE  DoneInv'
  BY <1>3 DEF DoneInv, Owned, Names
<1>4. CASE \/ \E p \in Paths : WriteFile(p) \/ OpenTree(p)
           \/ \E s \in Slots : WriteSlot(s)
           \/ PruneTree
  BY <1>3, <1>4, WriteFrame
<1>5. CASE StartPublish
  <2>1. /\ UNCHANGED <<manifest, source, txn, outcome>> /\ pc = "write" /\ pc' = "publish" /\ at' = 1
    BY <1>5 DEF StartPublish
  <2>2. \A i \in 1..at' - 1 : FALSE
    BY <2>1
  <2> QED BY <2>1, <2>2 DEF DoneInv, Owned, Names
<1>6. ASSUME NEW p \in Paths, PruneStale(p) PROVE DoneInv'
  <2>1. /\ UNCHANGED <<manifest, source, txn, pc, at, outcome>> /\ pc = "publish"
        /\ p \in todo /\ \A x \in Paths \ {p} : disk'[x] = disk[x]
        /\ p \in Owned(Current)
    BY <1>6, PruneFrame
  <2>2. at \in 1..Len(PublishOrder) /\ Current \in Groups
    BY <2>1, OrderNamesGroups DEF Typed, PhaseOK, Current
  <2>3. ASSUME NEW i \in 1..at - 1 PROVE InSync(i)'
    <3>1. InSync(i)
      BY <2>1, <2>3 DEF DoneInv
    <3>2. i \in 1..Len(PublishOrder) /\ i # at
      BY <2>2, <2>3, OrderNamesGroups
    <3>3. PublishOrder[i] \in Groups /\ PublishOrder[i] # Current
      BY <2>2, <3>2, GroupsAssumption DEF Current
    <3>4. PICK q \in Plans : p \in Names(q, Current)
      BY <2>1, <2>2 DEF DoneInv
    <3>5. p \notin Names(txn, PublishOrder[i])
      BY <1>0, <3>3, <3>4 DEF Settled, Names
    <3>6. Names(txn, PublishOrder[i]) \subseteq Paths \ {p}
      BY <1>0, <3>5 DEF Names
    <3> QED BY <2>1, <3>1, <3>6 DEF InSync, Owned, Names
  <2> QED BY <2>1, <2>3 DEF DoneInv, Owned, Names
<1>7. CASE PublishGroup
  <2>1. /\ UNCHANGED <<disk, source, txn>> /\ pc = "publish" /\ todo = {}
        /\ Current \in Groups /\ at \in 1..Len(PublishOrder)
        /\ \A g \in Groups \ {Current} : manifest'[g] = manifest[g]
        /\ DOMAIN manifest'[Current] = Names(txn, Current)
        /\ \A p \in Names(txn, Current) : manifest'[Current][p] = disk[p] /\ Content(disk[p])
    BY <1>7, PublishFrame
  <2>2. \A p \in Names(txn, Current) : disk[p] = txn.want[p]
    BY <2>1 DEF WrittenOK, AsPlanned, Names
  <2>3. ASSUME NEW i \in 1..at PROVE InSync(i)'
    <3>1. CASE i = at
      BY <2>1, <2>2, <3>1 DEF InSync, Owned, Current, Names
    <3>2. CASE i # at
      <4>1. i \in 1..at - 1 /\ i \in 1..Len(PublishOrder)
        BY <2>1, <2>3, <3>2, OrderNamesGroups
      <4>2. PublishOrder[i] \in Groups \ {Current}
        BY <2>1, <3>2, <4>1, GroupsAssumption DEF Current
      <4>3. InSync(i)
        BY <2>1, <4>1 DEF DoneInv
      <4> QED BY <2>1, <4>2, <4>3 DEF InSync, Owned, Names
    <3> QED BY <3>1, <3>2
  <2>4. \A g \in Groups : \A p \in DOMAIN manifest'[g] : \E q \in Plans : p \in Names(q, g)
    BY <1>0, <2>1 DEF DoneInv, Owned
  <2>5. CASE pc' = "publish"
    <3>1. at' = at + 1 /\ UNCHANGED outcome
      BY <1>7, <2>1, <2>5, PublishFrame
    <3>2. \A i \in 1..at' - 1 : i \in 1..at
      BY <2>1, <3>1
    <3> QED BY <2>1, <2>3, <2>4, <2>5, <3>1, <3>2 DEF DoneInv, Owned, Names
  <2>6. CASE pc' = "idle" /\ at = Len(PublishOrder)
    <3>1. \A g \in Groups : \E i \in 1..at : g = PublishOrder[i]
      BY <2>6, GroupsAssumption
    <3>2. \A g \in Groups : /\ DOMAIN manifest'[g] = Names(txn, g)
                            /\ \A p \in DOMAIN manifest'[g] : /\ disk[p] = txn.want[p]
                                                              /\ manifest'[g][p] = disk[p]
      BY <2>1, <2>3, <3>1 DEF InSync, Owned, Names
    <3>3. \A p \in DOMAIN txn.want : disk[p] = txn.want[p]
      <4> SUFFICES ASSUME NEW p \in DOMAIN txn.want PROVE disk[p] = txn.want[p]
        OBVIOUS
      <4>1. txn.owner[p] \in Groups
        BY <1>0, PlanWants
      <4> QED BY <3>2, <4>1 DEF Names
    <3>4. source = txn
      BY <2>1 DEF DoneInv
    <3>5. NoDrift(source)'
      BY <2>1, <3>2, <3>3, <3>4 DEF NoDrift, Owned, Names
    <3> QED BY <2>4, <2>6, <3>5 DEF DoneInv, Owned, Names
  <2> QED BY <1>7, <2>5, <2>6, PublishFrame
<1>8. ASSUME NEW how \in {"failed", "crashed"}, Stop(how) PROVE DoneInv'
  BY <1>8 DEF Stop, DoneInv, Owned, Names
<1>9. CASE User
  <2>1. pc' = "idle" /\ outcome' = "none" /\ UNCHANGED manifest
    BY <1>9, UserFrame
  <2> QED BY <2>1 DEF DoneInv, Owned, Names
<1>10. CASE UNCHANGED vars
  BY <1>10 DEF vars, DoneInv, InSync, NoDrift, Owned, Names
<1> QED BY <1>1, <1>2, <1>4, <1>5, <1>6, <1>7, <1>8, <1>9, <1>10
        DEF Next, Sync, Step, Crash, WriteBlocked, PruneConflict, PublishConflict

\* If nobody edits during a run and no path changes manifests, a run that ends
\* well leaves nothing for --check to report, whatever happened before it.
THEOREM SuccessMeansSynced ==
  ASSUME ~Interferes, Settled
  PROVE  Spec => []DoneMeansSynced
<1>1. Init => DoneInv
  BY DEF Init, DoneInv, Owned
<1>2. Typed /\ VouchInv /\ DoneInv /\ [Next]_vars => DoneInv'
  BY NextDone DEF VouchInv
<1>3. DoneInv => DoneMeansSynced
  BY DEF DoneInv, DoneMeansSynced
<1> QED BY <1>1, <1>2, <1>3, AlwaysTyped, VouchHolds, PTL DEF Spec
=============================================================================
