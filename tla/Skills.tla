-------------------------------- MODULE Skills --------------------------------
(***************************************************************************)
(* How skills and commands reach the four agents: which target receives    *)
(* what (ir.py), what each target's copy says (the compilers), which       *)
(* directory it goes to, and the one copy that Codex, Cursor and OpenCode  *)
(* share (targets/support.py, targets/shared.py).                          *)
(*                                                                         *)
(* Frontmatter is a function from fields to values; a field that is absent *)
(* or falsy is not in it.  `metadata` stands for the fields like it, and   *)
(* of the settings in agents/openai.yaml only the invocation policy is     *)
(* told apart from others.  How trees reach the disk is PortableOutput's.  *)
(***************************************************************************)
EXTENDS Integers, SequencesExt, FiniteSetsExt

CONSTANTS
  Names,           \* directories of skills, stems of commands
  SkillSources,    \* what a SKILL.md and the files beside it may be
  CommandSources,  \* what a commands/*.md may be
  Absent,          \* no such source
  OpenAI,          \* the bundled file agents/openai.yaml
  Unmapped,        \* what that file may hold instead of a mapping
  Tokens           \* the bundled files whose path is one literal token

VARIABLES
  skills,    \* [Names -> SkillSources or Absent]
  commands,  \* [Names -> CommandSources or Absent]
  status     \* "edited" since the last run, "done", or "rejected" by it

vars == <<skills, commands, status>>

Targets == {"claude", "cursor", "codex", "opencode"}

\* SHARED_SKILL_READERS
Readers == {"codex", "cursor", "opencode"}

Own(t) == <<t, "skills">>
SharedRoot == <<"agents", "skills">>

Written(sources) == {n \in Names : sources[n] # Absent}

\* {**g, **f}
Over(f, g) == [k \in DOMAIN f \cup DOMAIN g |-> IF k \in DOMAIN f THEN f[k] ELSE g[k]]

Only(k, value) == [x \in {k} |-> value]

-----------------------------------------------------------------------------
(* What a target receives.                                                 *)

\* applies_to
Receives(s, t) == s.only = {} \/ t \in s.only

Block(s, t) ==
  IF t \in DOMAIN s.blocks THEN s.blocks[t] ELSE [native |-> << >>, raw |-> << >>, omit |-> {}]

SharedSkill_Any(s) == \E t \in Readers : Receives(s, t)  \* mutant: one reader is enough

\* shared_skill
SharedSkill(s) == \A t \in Readers : Receives(s, t)

\* The canonical fields the compilers project, skills and commands.
SkillFields ==
  [claude   |-> {"description", "license", "metadata", "paths", "disable-model-invocation"},
   cursor   |-> {"description", "license", "metadata", "paths", "disable-model-invocation"},
   codex    |-> {"description", "license", "metadata"},
   opencode |-> {"description", "license", "metadata", "disable-model-invocation"}]

CommandFields ==
  [claude |-> {"description", "execution"}, cursor |-> {"description"},
   codex |-> {"description"}, opencode |-> {"description", "execution"}]

\* The typed fields of the native models; of Claude's own, one stands for all.
SkillNative ==
  [claude   |-> {"description", "license", "metadata", "paths", "disable-model-invocation", "allowed-tools"},
   cursor   |-> {"description", "metadata", "paths", "disable-model-invocation"},
   codex    |-> {"description", "license", "metadata", "allowed-tools", "openai"},
   opencode |-> {"description", "license", "metadata", "compatibility"}]

CommandNative == [SkillNative EXCEPT !.opencode = {"description", "agent", "subagent", "model"}]

\* required_omissions: only a command's delegation is ever lost.
Lost(s, t) == IF "execution" \in DOMAIN s.fields /\ t \in {"codex", "cursor"} THEN {"execution"} ELSE {}

-----------------------------------------------------------------------------
(* What a target's copy says.                                              *)

\* {**canonical, **typed}, without the field that goes to agents/openai.yaml
Rendered(canonical, native) == Over(Restrict(native, DOMAIN native \ {"openai"}), canonical)

\* frontmatter
Frontmatter(canonical, b) == Over(b.raw, Rendered(canonical, b.native))

Invocation(explicit) == IF explicit THEN Only("allow_implicit_invocation", FALSE) ELSE << >>

Typed(b) == IF "openai" \in DOMAIN b.native THEN b.native["openai"] ELSE << >>

\* _tree: agents/openai.yaml with the typed settings, and explicit_only last
Tree(files, b, explicit) ==
  IF ~explicit /\ "openai" \notin DOMAIN b.native THEN files
  ELSE LET bundled == IF OpenAI \in DOMAIN files THEN files[OpenAI] ELSE << >>
       IN Over(Only(OpenAI, Over(Invocation(explicit), Over(Typed(b), bundled))), files)

Explicit(s) == "disable-model-invocation" \in DOMAIN s.fields

\* codex_skill, cursor_skill, opencode_skill, and Claude's loop
SkillTree(s, t) ==
  [meta |-> Frontmatter(Restrict(s.fields, DOMAIN s.fields \cap SkillFields[t]), Block(s, t)),
   files |-> IF t = "codex" THEN Tree(s.files, Block(s, t), Explicit(s)) ELSE s.files,
   executables |-> s.executables]

CommandCanonical(c, t) ==
  Over(IF t = "cursor" THEN Only("disable-model-invocation", TRUE) ELSE << >>,
       Restrict(c.fields, DOMAIN c.fields \cap CommandFields[t]))

\* a command as a skill: of Claude, Cursor and Codex
CommandTree(c, t) ==
  [meta |-> Frontmatter(CommandCanonical(c, t), Block(c, t)),
   files |-> IF t = "codex" THEN Tree(<< >>, Block(c, t), TRUE) ELSE << >>,
   executables |-> {}]

Merged_LastWins(s) ==  \* mutant: the last reader's files win, not Codex's
  LET codex == SkillTree(s, "codex")
      cursor == SkillTree(s, "cursor")
      opencode == SkillTree(s, "opencode")
  IN [meta |-> Over(codex.meta, Over(cursor.meta, opencode.meta)),
      files |-> Over(opencode.files, Over(cursor.files, codex.files)),
      executables |-> s.executables]

\* _merge, in the order of READERS: the first reader's fields and files win
Merged(s) ==
  LET codex == SkillTree(s, "codex")
      cursor == SkillTree(s, "cursor")
      opencode == SkillTree(s, "opencode")
  IN [meta |-> Over(codex.meta, Over(cursor.meta, opencode.meta)),
      files |-> Over(codex.files, Over(cursor.files, opencode.files)),
      executables |-> codex.executables \cup cursor.executables \cup opencode.executables]

-----------------------------------------------------------------------------
(* What is rejected.                                                       *)

\* strict_native
UnknownFields(s, t, typed) == ~(DOMAIN Block(s, t).native \subseteq typed)

\* omissions: every loss is acknowledged, and nothing else is
WrongOmits(s, t) == Block(s, t).omit # Lost(s, t)

\* a raw field may not shadow a canonical or a typed one
Shadowing(s, t, canonical) ==
  DOMAIN Block(s, t).raw \cap DOMAIN Rendered(canonical, Block(s, t).native) # {}

\* resolve and frontmatter
Flawed(s, t, canonical, typed) ==
  UnknownFields(s, t, typed) \/ WrongOmits(s, t) \/ Shadowing(s, t, canonical)

\* _tree raises on a bundled agents/openai.yaml it cannot merge into
Unmergeable(s) ==
  /\ Explicit(s) \/ "openai" \in DOMAIN Block(s, "codex").native
  /\ OpenAI \in DOMAIN s.files /\ s.files[OpenAI] \in Unmapped

FlawedSkill(s) ==
  \E t \in Targets :
    /\ Receives(s, t)
    /\ \/ Flawed(s, t, Restrict(s.fields, DOMAIN s.fields \cap SkillFields[t]), SkillNative[t])
       \/ t = "codex" /\ Unmergeable(s)

FlawedCommand(c) ==
  \E t \in Targets : Receives(c, t) /\ Flawed(c, t, CommandCanonical(c, t), CommandNative[t])

\* _merge: two readers need different values of a field
Disagree(s) ==
  \E t, u \in Readers :
    \E k \in DOMAIN SkillTree(s, t).meta \cap DOMAIN SkillTree(s, u).meta :
      SkillTree(s, t).meta[k] # SkillTree(s, u).meta[k]

\* _validate_only
OutsideOnly(s) == s.only # {} /\ ~(DOMAIN s.blocks \subseteq s.only)

\* skill_collisions
Collisions(t) ==
  {n \in Written(skills) \cap Written(commands) : Receives(skills[n], t) /\ Receives(commands[n], t)}

\* SourceSchemaError at loading, or an error diagnostic preflight raises
Rejected ==
  \/ \E n \in Written(skills) :
       \/ OutsideOnly(skills[n])
       \/ FlawedSkill(skills[n])
       \/ SharedSkill(skills[n]) /\ Disagree(skills[n])
  \/ \E n \in Written(commands) : OutsideOnly(commands[n]) \/ FlawedCommand(commands[n])
  \/ \E t \in Targets \ {"opencode"} : Collisions(t) # {}

-----------------------------------------------------------------------------
(* What a run writes below the home directory.                             *)

OwnCopies ==
  UNION {{[root |-> Own(t), name |-> n, tree |-> SkillTree(skills[n], t)] :
            n \in {n \in Written(skills) : Receives(skills[n], t) /\ (t = "claude" \/ ~SharedSkill(skills[n]))}} :
           t \in Targets}

\* compile_shared_skills
SharedCopies ==
  {[root |-> SharedRoot, name |-> n, tree |-> Merged(skills[n])] :
     n \in {n \in Written(skills) : SharedSkill(skills[n])}}

CommandCopies ==
  UNION {{[root |-> Own(t), name |-> n, tree |-> CommandTree(commands[n], t)] :
            n \in {n \in Written(commands) : Receives(commands[n], t)}} :
           t \in Targets \ {"opencode"}}

Published == OwnCopies \cup SharedCopies \cup CommandCopies

ScriptsRoot_Own(s, t) == Own(t)  \* mutant: scripts of shared skills are looked for in the wrong place

ScriptsRoot(s, t) == IF t \in Readers /\ SharedSkill(s) THEN SharedRoot ELSE Own(t)

\* with_skill_scripts: the executables Claude, Cursor and OpenCode may run unasked
AllowedScripts(t) ==
  UNION {{<<ScriptsRoot(skills[n], t), n, f>> : f \in skills[n].executables \cap Tokens} :
           n \in {n \in Written(skills) : Receives(skills[n], t)}}

-----------------------------------------------------------------------------
(* People edit sources; a run compiles them.                               *)

Init ==
  /\ skills = [n \in Names |-> Absent]
  /\ commands = [n \in Names |-> Absent]
  /\ status = "edited"

EditSkill(n, s) ==
  /\ skills[n] # s
  /\ skills' = [skills EXCEPT ![n] = s]
  /\ status' = "edited"
  /\ UNCHANGED commands

EditCommand(n, c) ==
  /\ commands[n] # c
  /\ commands' = [commands EXCEPT ![n] = c]
  /\ status' = "edited"
  /\ UNCHANGED skills

Sync ==
  /\ status = "edited"
  /\ status' = IF Rejected THEN "rejected" ELSE "done"
  /\ UNCHANGED <<skills, commands>>

Next ==
  \/ \E n \in Names, s \in SkillSources \cup {Absent} : EditSkill(n, s)
  \/ \E n \in Names, c \in CommandSources \cup {Absent} : EditCommand(n, c)
  \/ Sync

Spec == Init /\ [][Next]_vars

-----------------------------------------------------------------------------
\* External: the skill directories an agent reads, without Cursor's
\* third-party setting.
ReadsFrom(t) == {Own(t)} \cup (IF t \in Readers THEN {SharedRoot} ELSE {})

Found(t, n) == {copy \in Published : copy.root \in ReadsFrom(t) /\ copy.name = n}

Serves(sources, n, t) == sources[n] # Absent /\ Receives(sources[n], t)

(* After a successful run an agent finds one copy of what it receives and  *)
(* no copy of what `only` keeps from it, wherever others share a copy      *)
(* ("both would answer /name", collision_error).                           *)
OneCopyEach ==
  status = "done" =>
    \A t \in Targets, n \in Names :
      Cardinality(Found(t, n)) =
        IF Serves(skills, n, t) \/ (t # "opencode" /\ Serves(commands, n, t)) THEN 1 ELSE 0

\* A value people give a field for one target, or else for all.
Asks(s, t, k) ==
  LET b == Block(s, t)
  IN IF k \in DOMAIN b.native THEN b.native[k] ELSE IF k \in DOMAIN b.raw THEN b.raw[k] ELSE s.fields[k]

AskedFields(s, t) ==
  (DOMAIN Block(s, t).native \cup DOMAIN Block(s, t).raw \cup (DOMAIN s.fields \cap SkillFields[t])) \ {"openai"}

(* After a successful run an agent's copy of a skill, its own or a shared  *)
(* one, has every field people ask of it, every bundled file, and for      *)
(* Codex the settings of agents/openai.yaml: the explicit flag before the  *)
(* typed ones, those before the bundled ones.                              *)
ServedAsAsked ==
  status = "done" =>
    \A t \in Targets, n \in Names : Serves(skills, n, t) =>
      \A copy \in Found(t, n) :
        LET s == skills[n]
            typed == Typed(Block(s, "codex"))
        IN /\ \A k \in AskedFields(s, t) : k \in DOMAIN copy.tree.meta /\ copy.tree.meta[k] = Asks(s, t, k)
           /\ \A f \in DOMAIN s.files \ {OpenAI} : copy.tree.files[f] = s.files[f]
           /\ copy.tree.executables = s.executables
           /\ t = "codex" /\ Explicit(s) => ~copy.tree.files[OpenAI]["allow_implicit_invocation"]
           /\ t = "codex" => \A k \in DOMAIN typed :
                \/ Explicit(s) /\ k = "allow_implicit_invocation"
                \/ copy.tree.files[OpenAI][k] = typed[k]
           /\ t = "codex" /\ OpenAI \in DOMAIN s.files /\ s.files[OpenAI] \notin Unmapped =>
                \A k \in DOMAIN s.files[OpenAI] \ (DOMAIN typed \cup {"allow_implicit_invocation"}) :
                  copy.tree.files[OpenAI][k] = s.files[OpenAI][k]

(* After a successful run the scripts an agent may run unasked are exactly *)
(* the executables it finds beside its skills: the root they are allowed   *)
(* at and the root they are written to are computed in different places.   *)
ScriptsWhereFound ==
  status = "done" =>
    \A t \in Targets \ {"codex"} :
      AllowedScripts(t) =
        UNION {{<<copy.root, copy.name, f>> : f \in copy.tree.executables \cap Tokens} :
                 copy \in UNION {Found(t, n) : n \in Names}}
=============================================================================
