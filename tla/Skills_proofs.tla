---------------------------- MODULE Skills_proofs ----------------------------
(***************************************************************************)
(* Proofs about Skills, for any names, sources, bundled files and tokens:  *)
(* what every agent finds after a run that was not rejected.               *)
(***************************************************************************)
EXTENDS Skills, FiniteSetTheorems, TLAPS

\* A run that is done rejected nothing, and nobody has edited since.
Accepted == status = "done" => ~Rejected

LEMMA AcceptedInv == Spec => []Accepted
<1>1. Init => Accepted
  BY DEF Init, Accepted
<1>2. ASSUME Accepted, [Next]_vars PROVE Accepted'
  <2>1. ASSUME NEW n \in Names, NEW s \in SkillSources \cup {Absent}, EditSkill(n, s)
        PROVE  Accepted'
    BY <2>1 DEF EditSkill, Accepted
  <2>2. ASSUME NEW n \in Names, NEW c \in CommandSources \cup {Absent}, EditCommand(n, c)
        PROVE  Accepted'
    BY <2>2 DEF EditCommand, Accepted
  <2>3. ASSUME UNCHANGED <<skills, commands>> PROVE Rejected' = Rejected
    BY <2>3 DEF Rejected, Collisions, Written
  <2>4. CASE Sync
    BY <2>3, <2>4 DEF Sync, Accepted
  <2>5. CASE UNCHANGED vars
    BY <1>2, <2>3, <2>5 DEF vars, Accepted
  <2> QED BY <1>2, <2>1, <2>2, <2>4, <2>5 DEF Next
<1> QED BY <1>1, <1>2, PTL DEF Spec

-----------------------------------------------------------------------------
(* What is published.                                                      *)

\* An agent's own directory is nobody else's, and not the shared one.
LEMMA RootsDiffer ==
  /\ \A t, u : Own(t) = Own(u) => t = u
  /\ \A t \in Targets : Own(t) # SharedRoot
BY DEF Own, SharedRoot, Targets

OwnCopy(t, n) == [root |-> Own(t), name |-> n, tree |-> SkillTree(skills[n], t)]
SharedCopy(n) == [root |-> SharedRoot, name |-> n, tree |-> Merged(skills[n])]
CommandCopy(t, n) == [root |-> Own(t), name |-> n, tree |-> CommandTree(commands[n], t)]

HasOwn(t, n) == Serves(skills, n, t) /\ (t = "claude" \/ ~SharedSkill(skills[n]))
HasShared(n) == skills[n] # Absent /\ SharedSkill(skills[n])
HasCommand(t, n) == t # "opencode" /\ Serves(commands, n, t)

\* A run publishes these copies and no others.
LEMMA CopiesAre ==
  ASSUME NEW copy
  PROVE  copy \in Published <=>
           \/ \E t \in Targets, n \in Names : HasOwn(t, n) /\ copy = OwnCopy(t, n)
           \/ \E n \in Names : HasShared(n) /\ copy = SharedCopy(n)
           \/ \E t \in Targets, n \in Names : HasCommand(t, n) /\ copy = CommandCopy(t, n)
<1>1. copy \in OwnCopies <=> \E t \in Targets, n \in Names : HasOwn(t, n) /\ copy = OwnCopy(t, n)
  BY DEF OwnCopies, HasOwn, OwnCopy, Serves, Written
<1>2. copy \in SharedCopies <=> \E n \in Names : HasShared(n) /\ copy = SharedCopy(n)
  BY DEF SharedCopies, HasShared, SharedCopy, Written
<1>3. copy \in CommandCopies <=>
        \E t \in Targets, n \in Names : HasCommand(t, n) /\ copy = CommandCopy(t, n)
  BY DEF CommandCopies, HasCommand, CommandCopy, Serves, Written
<1> QED BY <1>1, <1>2, <1>3 DEF Published

\* What an agent finds under a name: its own copy, the shared one, a command's.
LEMMA FoundIs ==
  ASSUME NEW t \in Targets, NEW n \in Names, NEW copy
  PROVE  copy \in Found(t, n) <=>
           \/ HasOwn(t, n) /\ copy = OwnCopy(t, n)
           \/ t \in Readers /\ HasShared(n) /\ copy = SharedCopy(n)
           \/ HasCommand(t, n) /\ copy = CommandCopy(t, n)
<1>1. \A u, m : /\ OwnCopy(u, m).root = Own(u) /\ OwnCopy(u, m).name = m
                /\ CommandCopy(u, m).root = Own(u) /\ CommandCopy(u, m).name = m
                /\ SharedCopy(m).root = SharedRoot /\ SharedCopy(m).name = m
  BY DEF OwnCopy, CommandCopy, SharedCopy
<1>2. \A root : root \in ReadsFrom(t) <=> root = Own(t) \/ (t \in Readers /\ root = SharedRoot)
  BY DEF ReadsFrom
<1>3. ASSUME copy \in Found(t, n)
      PROVE  \/ HasOwn(t, n) /\ copy = OwnCopy(t, n)
             \/ t \in Readers /\ HasShared(n) /\ copy = SharedCopy(n)
             \/ HasCommand(t, n) /\ copy = CommandCopy(t, n)
  <2>1. copy \in Published /\ copy.name = n
        /\ (copy.root = Own(t) \/ (t \in Readers /\ copy.root = SharedRoot))
    BY <1>2, <1>3 DEF Found
  <2>2. CASE \E u \in Targets, m \in Names : HasOwn(u, m) /\ copy = OwnCopy(u, m)
    BY <1>1, <2>1, <2>2, RootsDiffer
  <2>3. CASE \E m \in Names : HasShared(m) /\ copy = SharedCopy(m)
    BY <1>1, <2>1, <2>3, RootsDiffer
  <2>4. CASE \E u \in Targets, m \in Names : HasCommand(u, m) /\ copy = CommandCopy(u, m)
    BY <1>1, <2>1, <2>4, RootsDiffer
  <2> QED BY <2>1, <2>2, <2>3, <2>4, CopiesAre
<1>4. ASSUME \/ HasOwn(t, n) /\ copy = OwnCopy(t, n)
             \/ t \in Readers /\ HasShared(n) /\ copy = SharedCopy(n)
             \/ HasCommand(t, n) /\ copy = CommandCopy(t, n)
      PROVE  copy \in Found(t, n)
  <2>1. copy \in Published
    BY <1>4, CopiesAre
  <2>2. copy.name = n /\ copy.root \in ReadsFrom(t)
    BY <1>1, <1>2, <1>4
  <2> QED BY <2>1, <2>2 DEF Found
<1> QED BY <1>3, <1>4

\* A reader's skill is in exactly one of the two places.
LEMMA OneSkillCopy ==
  ASSUME NEW t \in Targets, NEW n \in Names
  PROVE  /\ Serves(skills, n, t) <=> HasOwn(t, n) \/ (t \in Readers /\ HasShared(n))
         /\ ~(HasOwn(t, n) /\ t \in Readers /\ HasShared(n))
BY DEF Serves, HasOwn, HasShared, SharedSkill, Readers, Targets

\* A skill and a command an agent receives have different names.
LEMMA NoCollision ==
  ASSUME ~Rejected, NEW t \in Targets, NEW n \in Names
  PROVE  ~(Serves(skills, n, t) /\ HasCommand(t, n))
BY DEF Rejected, Collisions, Written, Serves, HasCommand

(* After a successful run an agent finds one copy of each skill and        *)
(* command it receives, and none it does not (skill_collisions and         *)
(* shared_skill in targets/support.py).                                    *)
THEOREM OneCopyOfEach == Spec => []OneCopyEach
<1>1. Accepted => OneCopyEach
  <2> SUFFICES ASSUME ~Rejected, NEW t \in Targets, NEW n \in Names
               PROVE  Cardinality(Found(t, n)) =
                        IF Serves(skills, n, t) \/ HasCommand(t, n) THEN 1 ELSE 0
    BY DEF Accepted, OneCopyEach, HasCommand
  <2>1. CASE HasOwn(t, n)
    <3>1. ~HasCommand(t, n) /\ ~(t \in Readers /\ HasShared(n)) /\ Serves(skills, n, t)
      BY <2>1, OneSkillCopy, NoCollision
    <3>2. Found(t, n) = {OwnCopy(t, n)}
      BY <2>1, <3>1, FoundIs
    <3> QED BY <3>1, <3>2, FS_Singleton
  <2>2. CASE t \in Readers /\ HasShared(n)
    <3>1. ~HasCommand(t, n) /\ ~HasOwn(t, n) /\ Serves(skills, n, t)
      BY <2>2, OneSkillCopy, NoCollision
    <3>2. Found(t, n) = {SharedCopy(n)}
      BY <2>2, <3>1, FoundIs
    <3> QED BY <3>1, <3>2, FS_Singleton
  <2>3. CASE ~HasOwn(t, n) /\ ~(t \in Readers /\ HasShared(n)) /\ HasCommand(t, n)
    <3>1. Found(t, n) = {CommandCopy(t, n)}
      BY <2>3, FoundIs
    <3> QED BY <2>3, <3>1, FS_Singleton
  <2>4. CASE ~HasOwn(t, n) /\ ~(t \in Readers /\ HasShared(n)) /\ ~HasCommand(t, n)
    <3>1. Found(t, n) = {} /\ ~Serves(skills, n, t)
      BY <2>4, FoundIs, OneSkillCopy
    <3> QED BY <2>4, <3>1, FS_EmptySet
  <2> QED BY <2>1, <2>2, <2>3, <2>4
<1> QED BY <1>1, AcceptedInv, PTL

-----------------------------------------------------------------------------
(* What may be run.                                                        *)

\* A copy has the executables of its skill, and a command's has none.
LEMMA CopyExecutables ==
  ASSUME NEW t, NEW n
  PROVE  /\ OwnCopy(t, n).tree.executables = skills[n].executables
         /\ SharedCopy(n).tree.executables = skills[n].executables
         /\ CommandCopy(t, n).tree.executables = {}
BY DEF OwnCopy, SharedCopy, CommandCopy, SkillTree, Merged, CommandTree

(* The scripts an agent may run unasked are those beside the skills it     *)
(* finds, own or shared (with_skill_scripts and the compilers compute the  *)
(* root each for itself).  The copies of commands bring no scripts, so     *)
(* nothing needs to be known of what is rejected.                          *)
THEOREM ScriptsAreWhereFound == Spec => []ScriptsWhereFound
<1>1. ScriptsWhereFound
  <2> SUFFICES ASSUME NEW t \in Targets \ {"codex"}
               PROVE  AllowedScripts(t) =
                        UNION {{<<copy.root, copy.name, f>> : f \in copy.tree.executables \cap Tokens} :
                                 copy \in UNION {Found(t, n) : n \in Names}}
    BY DEF ScriptsWhereFound
  <2> DEFINE beside(copy) == {<<copy.root, copy.name, f>> : f \in copy.tree.executables \cap Tokens}
             allowed(n) == {<<ScriptsRoot(skills[n], t), n, f>> : f \in skills[n].executables \cap Tokens}
             found == UNION {Found(t, n) : n \in Names}
  <2>1. AllowedScripts(t) = UNION {allowed(n) : n \in {n \in Names : Serves(skills, n, t)}}
    BY DEF AllowedScripts, Serves, Written
  <2>2. ASSUME NEW n \in Names, HasOwn(t, n) PROVE beside(OwnCopy(t, n)) = allowed(n)
    <3>1. OwnCopy(t, n).root = Own(t) /\ OwnCopy(t, n).name = n
      BY DEF OwnCopy
    <3>2. ScriptsRoot(skills[n], t) = Own(t)
      BY <2>2 DEF ScriptsRoot, HasOwn, Readers
    <3> QED BY <3>1, <3>2, CopyExecutables
  <2>3. ASSUME NEW n \in Names, t \in Readers, HasShared(n) PROVE beside(SharedCopy(n)) = allowed(n)
    <3>1. SharedCopy(n).root = SharedRoot /\ SharedCopy(n).name = n
      BY DEF SharedCopy
    <3>2. ScriptsRoot(skills[n], t) = SharedRoot
      BY <2>3 DEF ScriptsRoot, HasShared
    <3> QED BY <3>1, <3>2, CopyExecutables
  <2>4. ASSUME NEW n PROVE beside(CommandCopy(t, n)) = {}
    BY CopyExecutables
  <2> HIDE DEF beside, allowed
  <2>5. ASSUME NEW x \in UNION {allowed(n) : n \in {n \in Names : Serves(skills, n, t)}}
        PROVE  x \in UNION {beside(copy) : copy \in found}
    <3>1. PICK n \in Names : Serves(skills, n, t) /\ x \in allowed(n)
      BY <2>5
    <3>2. \E copy \in Found(t, n) : x \in beside(copy)
      BY <2>2, <2>3, <3>1, OneSkillCopy, FoundIs
    <3> QED BY <3>2
  <2>6. ASSUME NEW x \in UNION {beside(copy) : copy \in found}
        PROVE  x \in UNION {allowed(n) : n \in {n \in Names : Serves(skills, n, t)}}
    <3>1. PICK n \in Names : \E copy \in Found(t, n) : x \in beside(copy)
      BY <2>6
    <3>2. PICK copy \in Found(t, n) : x \in beside(copy)
      BY <3>1
    <3>3. Serves(skills, n, t) /\ x \in allowed(n)
      BY <2>2, <2>3, <2>4, <3>2, OneSkillCopy, FoundIs
    <3> QED BY <3>3
  <2>7. UNION {allowed(n) : n \in {n \in Names : Serves(skills, n, t)}}
          = UNION {beside(copy) : copy \in found}
    BY <2>5, <2>6
  <2> QED BY <2>1, <2>7 DEF beside
<1> QED BY <1>1, PTL

-----------------------------------------------------------------------------
(* What a copy says.                                                       *)

LEMMA OnlyIs ==
  ASSUME NEW k, NEW value
  PROVE  DOMAIN Only(k, value) = {k} /\ Only(k, value)[k] = value
BY DEF Only

LEMMA RestrictIs ==
  ASSUME NEW f, NEW S
  PROVE  DOMAIN Restrict(f, S) = S /\ \A k \in S : Restrict(f, S)[k] = f[k]
BY DEF Restrict

\* The fields a target projects.
Canonical(s, t) == Restrict(s.fields, DOMAIN s.fields \cap SkillFields[t])

\* No raw field of an accepted skill shadows another, and a bundled
\* agents/openai.yaml that is merged into is a mapping.
LEMMA AcceptedSkill ==
  ASSUME ~Rejected, NEW t \in Targets, NEW n \in Names, Serves(skills, n, t)
  PROVE  /\ ~Shadowing(skills[n], t, Canonical(skills[n], t))
         /\ t = "codex" => ~Unmergeable(skills[n])
         /\ SharedSkill(skills[n]) => ~Disagree(skills[n])
BY DEF Rejected, Written, Serves, FlawedSkill, Flawed, Canonical

\* A target's own rendering has each field as it is asked for.
LEMMA OwnFields ==
  ASSUME NEW s, NEW t \in Targets, ~Shadowing(s, t, Canonical(s, t)), NEW k \in AskedFields(s, t)
  PROVE  k \in DOMAIN SkillTree(s, t).meta /\ SkillTree(s, t).meta[k] = Asks(s, t, k)
<1> DEFINE b == Block(s, t)
           native == Restrict(b.native, DOMAIN b.native \ {"openai"})
           rendered == Rendered(Canonical(s, t), b.native)
           meta == SkillTree(s, t).meta
<1>1. meta = Over(b.raw, rendered) /\ rendered = Over(native, Canonical(s, t))
  BY DEF SkillTree, Frontmatter, Rendered, Canonical
<1>2. /\ DOMAIN native = DOMAIN b.native \ {"openai"}
      /\ \A j \in DOMAIN native : native[j] = b.native[j]
  BY RestrictIs
<1>3. /\ DOMAIN Canonical(s, t) = DOMAIN s.fields \cap SkillFields[t]
      /\ \A j \in DOMAIN Canonical(s, t) : Canonical(s, t)[j] = s.fields[j]
  BY RestrictIs DEF Canonical
<1>4. k # "openai" /\ (k \in DOMAIN b.native \/ k \in DOMAIN b.raw \/ k \in DOMAIN s.fields \cap SkillFields[t])
  BY DEF AskedFields
<1>5. DOMAIN b.raw \cap DOMAIN rendered = {}
  BY DEF Shadowing
<1>6. Asks(s, t, k) = IF k \in DOMAIN b.native THEN b.native[k]
                      ELSE IF k \in DOMAIN b.raw THEN b.raw[k] ELSE s.fields[k]
  BY DEF Asks
<1> HIDE DEF b, native, rendered, meta
<1>7. DOMAIN meta = DOMAIN b.raw \cup DOMAIN rendered
      /\ (\A j \in DOMAIN b.raw : meta[j] = b.raw[j])
      /\ (\A j \in DOMAIN rendered : j \notin DOMAIN b.raw => meta[j] = rendered[j])
  BY <1>1 DEF Over
<1>8. DOMAIN rendered = DOMAIN native \cup DOMAIN Canonical(s, t)
      /\ (\A j \in DOMAIN native : rendered[j] = native[j])
      /\ (\A j \in DOMAIN Canonical(s, t) : j \notin DOMAIN native => rendered[j] = Canonical(s, t)[j])
  BY <1>1 DEF Over
<1>9. CASE k \in DOMAIN b.native
  BY <1>2, <1>4, <1>5, <1>6, <1>7, <1>8, <1>9 DEF meta
<1>10. CASE k \notin DOMAIN b.native /\ k \in DOMAIN b.raw
  BY <1>6, <1>7, <1>10 DEF meta
<1>11. CASE k \notin DOMAIN b.native /\ k \notin DOMAIN b.raw
  BY <1>2, <1>3, <1>4, <1>6, <1>7, <1>8, <1>11 DEF meta
<1> QED BY <1>9, <1>10, <1>11

\* The shared copy has the fields of every reader's rendering.
LEMMA MergedFields ==
  ASSUME NEW s, ~Disagree(s), NEW t \in Readers, NEW k \in DOMAIN SkillTree(s, t).meta
  PROVE  k \in DOMAIN Merged(s).meta /\ Merged(s).meta[k] = SkillTree(s, t).meta[k]
<1> DEFINE codex == SkillTree(s, "codex").meta
           cursor == SkillTree(s, "cursor").meta
           opencode == SkillTree(s, "opencode").meta
           two == Over(cursor, opencode)
           merged == Merged(s).meta
<1>1. merged = Over(codex, two)
  BY DEF Merged
<1>2. \A u, v \in Readers : \A j \in DOMAIN SkillTree(s, u).meta \cap DOMAIN SkillTree(s, v).meta :
        SkillTree(s, u).meta[j] = SkillTree(s, v).meta[j]
  BY DEF Disagree
<1>3. /\ \A j \in DOMAIN codex \cap DOMAIN cursor : codex[j] = cursor[j]
      /\ \A j \in DOMAIN codex \cap DOMAIN opencode : codex[j] = opencode[j]
      /\ \A j \in DOMAIN cursor \cap DOMAIN opencode : cursor[j] = opencode[j]
  BY <1>2 DEF Readers
<1>4. /\ t = "codex" => SkillTree(s, t).meta = codex
      /\ t = "cursor" => SkillTree(s, t).meta = cursor
      /\ t = "opencode" => SkillTree(s, t).meta = opencode
      /\ t = "codex" \/ t = "cursor" \/ t = "opencode"
  BY DEF Readers
<1> DEFINE mine == SkillTree(s, t).meta
<1>5. DOMAIN two = DOMAIN cursor \cup DOMAIN opencode
      /\ (\A j \in DOMAIN cursor : two[j] = cursor[j])
      /\ (\A j \in DOMAIN opencode : j \notin DOMAIN cursor => two[j] = opencode[j])
  BY DEF Over
<1> HIDE DEF codex, cursor, opencode, two, merged, mine
<1>6. DOMAIN merged = DOMAIN codex \cup DOMAIN two
      /\ (\A j \in DOMAIN codex : merged[j] = codex[j])
      /\ (\A j \in DOMAIN two : j \notin DOMAIN codex => merged[j] = two[j])
  BY <1>1 DEF Over
<1>7. k \in DOMAIN mine /\ (mine = codex \/ mine = cursor \/ mine = opencode)
  BY <1>4 DEF mine
<1>8. k \in DOMAIN merged /\ merged[k] = mine[k]
  <2>1. CASE mine = codex
    BY <1>6, <1>7, <2>1
  <2>2. CASE mine = cursor
    BY <1>3, <1>5, <1>6, <1>7, <2>2
  <2>3. CASE mine = opencode
    BY <1>3, <1>5, <1>6, <1>7, <2>3
  <2> QED BY <1>7, <2>1, <2>2, <2>3
<1> QED BY <1>8 DEF merged, mine

\* Codex's files: the bundled ones, with the settings merged into one of them.
LEMMA CodexFiles ==
  ASSUME NEW s
  PROVE  LET files == SkillTree(s, "codex").files
             typed == Typed(Block(s, "codex"))
         IN /\ \A f \in DOMAIN s.files \ {OpenAI} : f \in DOMAIN files /\ files[f] = s.files[f]
            /\ Explicit(s) => OpenAI \in DOMAIN files /\ ~files[OpenAI]["allow_implicit_invocation"]
            /\ \A k \in DOMAIN typed :
                 \/ Explicit(s) /\ k = "allow_implicit_invocation"
                 \/ OpenAI \in DOMAIN files /\ files[OpenAI][k] = typed[k]
            /\ OpenAI \in DOMAIN s.files =>
                 /\ OpenAI \in DOMAIN files
                 /\ \A k \in DOMAIN s.files[OpenAI] \ (DOMAIN typed \cup {"allow_implicit_invocation"}) :
                      files[OpenAI][k] = s.files[OpenAI][k]
<1> DEFINE files == SkillTree(s, "codex").files
           b == Block(s, "codex")
           typed == Typed(b)
           bundled == IF OpenAI \in DOMAIN s.files THEN s.files[OpenAI] ELSE << >>
           invocation == Invocation(Explicit(s))
           rest == Over(typed, bundled)
           settings == Over(invocation, rest)
<1>1. files = Tree(s.files, b, Explicit(s))
  BY DEF SkillTree
<1>2. CASE ~Explicit(s) /\ "openai" \notin DOMAIN b.native
  <2>1. files = s.files /\ typed = << >>
    BY <1>1, <1>2 DEF Tree, Typed
  <2>2. DOMAIN << >> = {}
    OBVIOUS
  <2> HIDE DEF files, typed
  <2> QED BY <1>2, <2>1, <2>2 DEF files, typed
<1>3. CASE Explicit(s) \/ "openai" \in DOMAIN b.native
  <2>1. files = Over(Only(OpenAI, settings), s.files)
    BY <1>1, <1>3 DEF Tree
  <2>2. OpenAI \in DOMAIN files /\ files[OpenAI] = settings
        /\ \A f \in DOMAIN s.files \ {OpenAI} : f \in DOMAIN files /\ files[f] = s.files[f]
    <3> DEFINE only == Only(OpenAI, settings)
    <3> HIDE DEF settings, files
    <3>1. DOMAIN only = {OpenAI} /\ only[OpenAI] = settings
      BY OnlyIs
    <3>2. files = Over(only, s.files)
      BY <2>1
    <3> HIDE DEF only
    <3>3. /\ DOMAIN files = DOMAIN only \cup DOMAIN s.files
          /\ \A f \in DOMAIN only : files[f] = only[f]
          /\ \A f \in DOMAIN s.files : f \notin DOMAIN only => files[f] = s.files[f]
      BY <3>2 DEF Over
    <3> QED BY <3>1, <3>3
  <2>3. Explicit(s) => /\ DOMAIN invocation = {"allow_implicit_invocation"}
                       /\ invocation["allow_implicit_invocation"] = FALSE
    BY OnlyIs DEF Invocation
  <2>4. ~Explicit(s) => DOMAIN invocation = {}
    BY DEF Invocation
  <2> HIDE DEF invocation, bundled, typed, files
  <2>5. /\ DOMAIN rest = DOMAIN typed \cup DOMAIN bundled
        /\ \A k \in DOMAIN typed : rest[k] = typed[k]
        /\ \A k \in DOMAIN bundled : k \notin DOMAIN typed => rest[k] = bundled[k]
    BY DEF Over
  <2> HIDE DEF rest
  <2>6. /\ \A k \in DOMAIN invocation : settings[k] = invocation[k]
        /\ \A k \in DOMAIN rest : k \notin DOMAIN invocation => settings[k] = rest[k]
    BY DEF Over
  <2> HIDE DEF settings
  <2>7. Explicit(s) => ~settings["allow_implicit_invocation"]
    BY <2>3, <2>6
  <2>8. \A k \in DOMAIN typed : (Explicit(s) /\ k = "allow_implicit_invocation") \/ settings[k] = typed[k]
    BY <2>3, <2>4, <2>5, <2>6
  <2>9. OpenAI \in DOMAIN s.files =>
          \A k \in DOMAIN s.files[OpenAI] \ (DOMAIN typed \cup {"allow_implicit_invocation"}) :
            settings[k] = s.files[OpenAI][k]
    BY <2>3, <2>4, <2>5, <2>6 DEF bundled
  <2> QED BY <2>2, <2>7, <2>8, <2>9 DEF files, typed
<1> QED BY <1>2, <1>3

\* The shared files are Codex's, and what else is bundled.
LEMMA MergedFiles ==
  ASSUME NEW s
  PROVE  \A f \in DOMAIN SkillTree(s, "codex").files : Merged(s).files[f] = SkillTree(s, "codex").files[f]
<1> DEFINE codex == SkillTree(s, "codex").files
           others == Over(SkillTree(s, "cursor").files, SkillTree(s, "opencode").files)
<1>1. Merged(s).files = Over(codex, others)
  BY DEF Merged
<1> HIDE DEF codex, others
<1> DEFINE merged == Merged(s).files
<1>2. merged = Over(codex, others)
  BY <1>1
<1> HIDE DEF merged
<1>3. \A f \in DOMAIN codex : merged[f] = codex[f]
  BY <1>2 DEF Over
<1> QED BY <1>3 DEF codex, merged

(* Every agent's copy of a skill, own or shared, says and holds what       *)
(* people ask of it (frontmatter, _tree, and _merge in targets/shared.py). *)
THEOREM SkillsAreServedAsAsked == Spec => []ServedAsAsked
<1>1. Accepted => ServedAsAsked
  <2> SUFFICES ASSUME ~Rejected, NEW t \in Targets, NEW n \in Names, Serves(skills, n, t),
                      NEW copy \in Found(t, n)
               PROVE  LET s == skills[n]
                          typed == Typed(Block(s, "codex"))
                      IN /\ \A k \in AskedFields(s, t) :
                              k \in DOMAIN copy.tree.meta /\ copy.tree.meta[k] = Asks(s, t, k)
                         /\ \A f \in DOMAIN s.files \ {OpenAI} : copy.tree.files[f] = s.files[f]
                         /\ copy.tree.executables = s.executables
                         /\ t = "codex" /\ Explicit(s) =>
                              ~copy.tree.files[OpenAI]["allow_implicit_invocation"]
                         /\ t = "codex" => \A k \in DOMAIN typed :
                              \/ Explicit(s) /\ k = "allow_implicit_invocation"
                              \/ copy.tree.files[OpenAI][k] = typed[k]
                         /\ t = "codex" /\ OpenAI \in DOMAIN s.files /\ s.files[OpenAI] \notin Unmapped =>
                              \A k \in DOMAIN s.files[OpenAI] \ (DOMAIN typed \cup {"allow_implicit_invocation"}) :
                                copy.tree.files[OpenAI][k] = s.files[OpenAI][k]
    BY DEF Accepted, ServedAsAsked
  <2> DEFINE s == skills[n]
             typed == Typed(Block(s, "codex"))
             codex == SkillTree(s, "codex").files
  <2>1. /\ ~Shadowing(s, t, Canonical(s, t)) /\ (SharedSkill(s) => ~Disagree(s))
    BY AcceptedSkill
  <2>2. \/ HasOwn(t, n) /\ copy = OwnCopy(t, n)
        \/ t \in Readers /\ HasShared(n) /\ copy = SharedCopy(n)
    BY FoundIs, NoCollision
  <2>3. copy.tree.executables = s.executables
    BY <2>2, CopyExecutables
  <2>4. \/ copy.tree = SkillTree(s, t)
        \/ t \in Readers /\ SharedSkill(s) /\ copy.tree = Merged(s)
    BY <2>2 DEF OwnCopy, SharedCopy, HasShared
  <2> HIDE DEF s
  <2>5. \A k \in AskedFields(s, t) : k \in DOMAIN copy.tree.meta /\ copy.tree.meta[k] = Asks(s, t, k)
    <3> SUFFICES ASSUME NEW k \in AskedFields(s, t)
                 PROVE  k \in DOMAIN copy.tree.meta /\ copy.tree.meta[k] = Asks(s, t, k)
      OBVIOUS
    <3>1. k \in DOMAIN SkillTree(s, t).meta /\ SkillTree(s, t).meta[k] = Asks(s, t, k)
      BY <2>1, OwnFields
    <3> QED BY <2>1, <2>4, <3>1, MergedFields
  <2>6. /\ \A f \in DOMAIN s.files \ {OpenAI} : f \in DOMAIN codex /\ codex[f] = s.files[f]
        /\ Explicit(s) => OpenAI \in DOMAIN codex /\ ~codex[OpenAI]["allow_implicit_invocation"]
        /\ \A k \in DOMAIN typed :
             \/ Explicit(s) /\ k = "allow_implicit_invocation"
             \/ OpenAI \in DOMAIN codex /\ codex[OpenAI][k] = typed[k]
        /\ OpenAI \in DOMAIN s.files =>
             /\ OpenAI \in DOMAIN codex
             /\ \A k \in DOMAIN s.files[OpenAI] \ (DOMAIN typed \cup {"allow_implicit_invocation"}) :
                  codex[OpenAI][k] = s.files[OpenAI][k]
    BY CodexFiles
  <2>7. CASE copy.tree = SkillTree(s, t) /\ t # "codex"
    <3>1. copy.tree.files = s.files
      BY <2>7 DEF SkillTree
    <3> QED BY <2>3, <2>5, <2>7, <3>1 DEF s
  <2>8. CASE copy.tree = SkillTree(s, t) /\ t = "codex"
    <3>1. copy.tree.files = codex
      BY <2>8
    <3> HIDE DEF codex, typed
    <3> QED BY <2>3, <2>5, <2>6, <3>1 DEF s, typed
  <2>9. CASE copy.tree = Merged(s)
    <3>1. \A f \in DOMAIN codex : copy.tree.files[f] = codex[f]
      BY <2>9, MergedFiles
    <3> HIDE DEF codex, typed
    <3> QED BY <2>3, <2>5, <2>6, <3>1 DEF s, typed
  <2> QED BY <2>4, <2>7, <2>8, <2>9
<1> QED BY <1>1, AcceptedInv, PTL
=============================================================================
