------------------------------- MODULE MCSkills -------------------------------
(* Two names, thirteen skills and six commands: every field that targets   *)
(* treat differently, set for all of them and for one of them.             *)
EXTENDS Skills

CONSTANTS n1, n2, d, e, m, run, odd, text, list

Yes == "disable-model-invocation" :> TRUE
No == "disable-model-invocation" :> FALSE
Description == "description" :> d
Full == Description @@ ("license" :> m) @@ ("metadata" :> m) @@ ("paths" :> m) @@ Yes

B(native, raw, omit) == [native |-> native, raw |-> raw, omit |-> omit]
Native(native) == B(native, << >>, {})
Omits == B(<< >>, << >>, {"execution"})

Skill(only, fields, blocks, files) ==
  [only |-> only, fields |-> fields, blocks |-> blocks, files |-> files,
   executables |-> DOMAIN files \ {OpenAI}]
Script == run :> text
Settings == OpenAI :> (("display_name" :> m) @@ ("allow_implicit_invocation" :> TRUE))
TypedSettings == "openai" :> (("brand_color" :> m) @@ ("allow_implicit_invocation" :> TRUE))

MCSkillSources ==
  {Skill({}, Description, << >>, Script),
   Skill({}, Full, << >>, Script @@ Settings),
   Skill({}, Full, "codex" :> Native(TypedSettings), Settings),
   Skill({"claude", "cursor", "opencode"}, Full, << >>, Script @@ (odd :> text)),
   Skill({"codex"}, Description, "codex" :> Native(TypedSettings), Script),
   Skill({"codex"}, Description, "cursor" :> Native(<< >>), << >>),
   Skill({}, Description, "cursor" :> Native(Yes), << >>),
   Skill({}, Yes @@ Description, "cursor" :> Native(No), << >>),
   Skill({}, Description, "claude" :> Native("description" :> e), Script),
   Skill({}, Description, ("codex" :> Native("allowed-tools" :> m)) @@ ("opencode" :> B("compatibility" :> m, "paths" :> m, {})), << >>),
   Skill({}, Description, "cursor" :> B(<< >>, "description" :> e, {}), << >>),
   Skill({}, Description, "cursor" :> Native("license" :> m), << >>),
   Skill({}, Description, "codex" :> Native(TypedSettings), OpenAI :> list)}

Command(only, fields, blocks) == [only |-> only, fields |-> fields, blocks |-> blocks]
Delegated == Description @@ ("execution" :> m)

MCCommandSources ==
  {Command({}, Description, << >>),
   Command({}, Delegated, ("codex" :> Omits) @@ ("cursor" :> Omits)),
   Command({}, Delegated, "codex" :> Omits),
   Command({"claude", "opencode"}, Delegated, << >>),
   Command({"cursor"}, Description, << >>),
   Command({"codex"}, Description, "codex" :> Native(TypedSettings))}

NameSymmetry == Permutations(Names)
=============================================================================
