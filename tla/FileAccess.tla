----------------------------- MODULE FileAccess -----------------------------
(***************************************************************************)
(* The part of the permission policy that is not about commands: tool      *)
(* decisions, workspace directories and secret paths (sources.py), what    *)
(* each compiler writes for them (targets/permissions.py, claude.py,       *)
(* opencode.py, codex.py, cursor.py), what must be acknowledged as lost    *)
(* (limits.py, ir.py), and what the tool then decides for a call.          *)
(*                                                                         *)
(* A path is the sequence of its names from the root.  A pattern is names  *)
(* behind an anchor, with or without everything below them.  How a tool    *)
(* anchors and matches a pattern, which rule wins and what it does where   *)
(* no rule applies are external, modelled as the compilers rely on them.   *)
(*                                                                         *)
(* Left out: commands, secret names, MCP tools, Codex's built-in profiles  *)
(* and what patches add.                                                   *)
(***************************************************************************)
EXTENDS Integers, SequencesExt, FiniteSetsExt

CONSTANTS
  Names,        \* names of files and directories
  Home,         \* the path of the home directory
  Files,        \* paths of files whose decision is compared
  Sessions,     \* paths of directories a session is started in
  Directories,  \* what people list under workspace
  SecretPaths,  \* what people list under secret_paths
  AnyName,      \* a star: one name, whatever it is
  Listable,     \* per target, the losses people may acknowledge
  MaxEntries    \* bound on the entries of a policy at one time

FileTools == {"read", "edit", "write"}
WebTools == {"webfetch", "websearch"}
Decisions == {"allow", "ask", "deny"}
Strictness == [allow |-> 0, ask |-> 1, deny |-> 2]
Targets == {"claude", "opencode", "codex", "cursor"}
Losses == {"tools", "workspace", "workspace.ask"}

ASSUME PathAssumption ==
  /\ AnyName \notin Names
  /\ Home \in Seq(Names)
  /\ Files \subseteq Seq(Names) \ {<<>>}
  /\ Sessions \subseteq Seq(Names)

Patterns(anchors, below) ==
  [anchor : anchors, names : Seq(Names \cup {AnyName}), below : below]

\* What each may be anchored at, and whether it may end in everything below.
Directory == Patterns({"home", "root"}, {FALSE})
SecretPath == Patterns({"anywhere", "home"}, BOOLEAN)

ASSUME PatternAssumption == Directories \subseteq Directory /\ SecretPaths \subseteq SecretPath

ASSUME ListableAssumption == Listable \in [Targets -> SUBSET Losses]

VARIABLES
  tools,      \* decisions, a function on some of the tools
  workspace,  \* buckets, a function on some of the directories
  unmatched,  \* the decision for every other directory outside the project
  secrets,    \* the secret paths
  omit,       \* per target, the losses people acknowledge
  status      \* "edited" since the last run, "done", or "rejected" by it

vars == <<tools, workspace, unmatched, secrets, omit, status>>

-----------------------------------------------------------------------------
(* Paths and patterns.                                                     *)

From(path, i) == SubSeq(path, i, Len(path))

Inside(f, directory) == IsStrictPrefix(directory, f)

Fits(names, path) ==
  Len(names) = Len(path) /\ \A i \in DOMAIN names : names[i] \in {AnyName, path[i]}

Covers(p, path) ==
  IF p.below THEN Len(path) > Len(p.names) /\ Fits(p.names, SubSeq(path, 1, Len(p.names)))
             ELSE Fits(p.names, path)

\* What a pattern means, wherever the session is.
Reaches(p, f) ==
  CASE p.anchor = "anywhere" -> \E i \in 0..Len(f) : Covers(p, From(f, i + 1))
    [] p.anchor = "home"     -> IsPrefix(Home, f) /\ Covers(p, From(f, Len(Home) + 1))
    [] p.anchor = "root"     -> Covers(p, f)

Below(d) == [d EXCEPT !.below = TRUE]

Literal(d) == AnyName \notin Range(d.names)

In(bucket) == {d \in DOMAIN workspace : workspace[d] = bucket}

\* What is listed as one directory is no file, and nothing lies below what is
\* hidden without everything below it.
ASSUME FilesAssumption ==
  \A f \in Files :
    /\ \A d \in Directories : Literal(d) => ~Reaches(d, f)
    /\ \A p \in SecretPaths : Reaches(Below(p), f) => Reaches(p, f)

Lies(f, bucket) == \E d \in In(bucket) : Reaches(Below(d), f)

\* denied_paths
DeniedPaths == secrets \cup {Below(d) : d \in In("deny")}

Strictest(ds) == CHOOSE d \in ds : \A e \in ds : Strictness[d] >= Strictness[e]

Folded_Looser ==  \* mutant: the fold keeps the looser decision
  LET both == {"edit", "write"} \cap DOMAIN tools
      looser == CHOOSE d \in {tools[u] : u \in both} : \A u \in both : Strictness[d] <= Strictness[tools[u]]
  IN [t \in DOMAIN tools |-> IF t \in both THEN looser ELSE tools[t]]

\* fold_edit_write
Folded ==
  LET both == {"edit", "write"} \cap DOMAIN tools
  IN [t \in DOMAIN tools |-> IF t \in both THEN Strictest({tools[u] : u \in both}) ELSE tools[t]]

-----------------------------------------------------------------------------
(* Claude: deny over ask over allow, every rule on the absolute path but   *)
(* the tool patterns, which are anchored at the session's directory.       *)

\* CLAUDE_TOOL_PATTERNS
Pattern(t) == IF t = "write" THEN "edit" ELSE t

\* tool_patterns
ClaudeTools(decision) == {Pattern(t) : t \in {t \in DOMAIN Folded : Folded[t] = decision}}

\* The rules that name a path or everything, of _permission_values.
ClaudeAllows(t) ==
  IF t \notin DOMAIN Folded \/ Folded[t] # "allow" THEN {}
  ELSE IF unmatched = "allow" THEN {[anchor |-> "root", names |-> <<>>, below |-> TRUE]}
  ELSE IF t = "edit" THEN {Below(d) : d \in In("allow")} ELSE {}

AdditionalDirectories == {d \in In("allow") : Literal(d)}

ClaudeDecides(t, f, s) ==
  LET rule == Pattern(t)
      here == Inside(f, s)
      open == here \/ \E d \in AdditionalDirectories : Reaches(Below(d), f)
  IN IF \/ \E p \in DeniedPaths : Reaches(p, f)
        \/ here /\ rule \in ClaudeTools("deny") THEN "deny"
     ELSE IF Lies(f, "ask") \/ (here /\ rule \in ClaudeTools("ask")) THEN "ask"
     ELSE IF \/ here /\ rule \in ClaudeTools("allow")
             \/ \E p \in ClaudeAllows(rule) : Reaches(p, f)
             \/ rule = "read" /\ open THEN "allow"
     ELSE "ask"

-----------------------------------------------------------------------------
(* OpenCode: per action a list whose last match wins.  A file inside the   *)
(* session's directory goes by its relative path, where an anchor at the   *)
(* home or the root matches nothing and "**/" needs a name before it.      *)

Everything == [anchor |-> "anywhere", names |-> <<>>, below |-> FALSE]

OpenCodePaths_AsWritten(p) ==  \* mutant: home patterns are not respelled
  {p} \cup (IF p.anchor = "anywhere" THEN {[p EXCEPT !.anchor = "session"]} ELSE {})

\* opencode_paths
OpenCodePaths(p) ==
  {p} \cup {[p EXCEPT !.anchor = a] :
              a \in IF p.anchor = "home" THEN {"anywhere", "session"}
                    ELSE IF p.anchor = "anywhere" THEN {"session"} ELSE {}}

OpenCodeMatches(p, f, s) ==
  IF ~Inside(f, s) THEN p.anchor # "session" /\ Reaches(p, f)
  ELSE LET relative == From(f, Len(s) + 1)
       IN \/ p.anchor = "session" /\ Covers(p, relative)
          \/ p.anchor = "anywhere" /\ \E i \in 1..Len(relative) : Covers(p, From(relative, i + 1))

\* _permissions, for the actions "read" and "edit"
ToolRules(action) ==
  (IF action \in DOMAIN Folded THEN <<[effect |-> Folded[action], paths |-> {Everything}]>> ELSE <<>>)
  \o <<[effect |-> "deny", paths |-> UNION {OpenCodePaths(p) : p \in DeniedPaths}]>>

\* external_directory_rules
ExternalRules ==
  (IF unmatched = "ask" THEN <<>> ELSE <<[effect |-> unmatched, paths |-> {Everything}]>>)
  \o [i \in 1..3 |-> LET bucket == <<"allow", "ask", "deny">>[i]
                     IN [effect |-> bucket, paths |-> {Below(d) : d \in In(bucket)}]]

LastMatch(rules, default, f, s) ==
  LET matching == {i \in DOMAIN rules : \E p \in rules[i].paths : OpenCodeMatches(p, f, s)}
  IN IF matching = {} THEN default ELSE rules[Max(matching)].effect

\* OpenCode's own: an undecided tool may run, any directory outside asks.
OpenCodeDecides(t, f, s) ==
  Strictest({LastMatch(ToolRules(Pattern(t)), "allow", f, s)}
            \cup (IF Inside(f, s) THEN {} ELSE {LastMatch(ExternalRules, "ask", f, s)}))

-----------------------------------------------------------------------------
(* Codex: a sandbox that reads everything and writes the session's         *)
(* directory, and its profile's entries by path; what it does not let a    *)
(* command write is asked for.  A deny entry holds against any other.      *)

Root == [anchor |-> "root", names |-> <<>>, below |-> FALSE]

\* absolute
Absolute(p) == IF p.anchor = "home" THEN [p EXCEPT !.anchor = "root", !.names = Home \o @] ELSE p

Filesystem_WriteWins ==  \* mutant: the writable entries are merged last
  LET writable == IF unmatched = "allow" THEN {Root} ELSE {Absolute(d) : d \in AdditionalDirectories}
      denied == {Absolute(p) : p \in In("deny") \cup secrets}
  IN [e \in writable \cup denied |-> IF e \in writable THEN "write" ELSE "deny"]

\* _permission_profile
Filesystem ==
  LET writable == IF unmatched = "allow" THEN {Root} ELSE {Absolute(d) : d \in AdditionalDirectories}
      denied == {Absolute(p) : p \in In("deny") \cup secrets}
  IN [e \in writable \cup denied |-> IF e \in denied THEN "deny" ELSE "write"]

Entry(access, f) ==
  \E e \in DOMAIN Filesystem : Filesystem[e] = access /\ (Reaches(e, f) \/ Reaches(Below(e), f))

CodexDecides(t, f, s) ==
  IF Entry("deny", f) THEN "deny"
  ELSE IF t = "read" \/ Inside(f, s) \/ Entry("write", f) THEN "allow"
  ELSE "ask"

-----------------------------------------------------------------------------
(* Cursor: nothing but the ignore file in the home directory, which is     *)
(* read by sessions below it.  A write outside the session's directory is  *)
(* asked for.                                                              *)

Ignored_HomeOnly == {p \in DeniedPaths : p.anchor = "home"}  \* mutant: drops "**/" patterns

\* _ignore_pattern
Ignored == {p \in DeniedPaths : p.anchor \in {"anywhere", "home"}}

CursorDecides(t, f, s) ==
  IF IsPrefix(Home, s) /\ IsPrefix(Home, f) /\ \E p \in Ignored : Reaches(p, f) THEN "deny"
  ELSE IF t = "read" \/ Inside(f, s) THEN "allow"
  ELSE "ask"

-----------------------------------------------------------------------------
Decides(target, t, f, s) ==
  CASE target = "claude" -> ClaudeDecides(t, f, s)
    [] target = "opencode" -> OpenCodeDecides(t, f, s)
    [] target = "codex" -> CodexDecides(t, f, s)
    [] target = "cursor" -> CursorDecides(t, f, s)

\* What each target decides for a web tool the policy decides.
DecidesWeb(target, t) ==
  CASE target \in {"claude", "opencode"} -> tools[t]
    [] target = "codex" -> IF t = "websearch" /\ tools[t] = "deny" THEN "deny" ELSE "allow"
    [] target = "cursor" -> "allow"

\* _codex_gated, _cursor_gated, _directories and the limitations they serve
Required ==
  [claude |-> {}, opencode |-> {},
   codex |->
     (IF \E t \in DOMAIN tools : tools[t] # "allow" /\ <<t, tools[t]>> # <<"websearch", "deny">>
      THEN {"tools"} ELSE {})
     \cup (IF In("ask") # {} THEN {"workspace.ask"} ELSE {}),
   cursor |->
     (IF \E t \in DOMAIN tools : tools[t] # "allow" \/ t \in WebTools THEN {"tools"} ELSE {})
     \cup (IF DOMAIN workspace # {} \/ unmatched # "ask" THEN {"workspace"} ELSE {})]

-----------------------------------------------------------------------------
(* People edit the policy; a run compiles it.                              *)

Init ==
  /\ tools = << >> /\ workspace = << >>
  /\ unmatched \in {"ask", "allow"}
  /\ secrets = {}
  /\ omit = [t \in Targets |-> {}]
  /\ status = "edited"

Room == Cardinality(DOMAIN tools) + Cardinality(DOMAIN workspace) + Cardinality(secrets) < MaxEntries

With(fn, key, value) == [x \in DOMAIN fn \cup {key} |-> IF x = key THEN value ELSE fn[x]]

Decide(t, d) ==
  /\ t \in DOMAIN tools \/ Room
  /\ tools' = With(tools, t, d)
  /\ status' = "edited"
  /\ UNCHANGED <<workspace, unmatched, secrets, omit>>

List(directory, bucket) ==
  /\ directory \in DOMAIN workspace \/ Room
  /\ workspace' = With(workspace, directory, bucket)
  /\ status' = "edited"
  /\ UNCHANGED <<tools, unmatched, secrets, omit>>

Hide(p) ==
  /\ p \notin secrets /\ Room
  /\ secrets' = secrets \cup {p}
  /\ status' = "edited"
  /\ UNCHANGED <<tools, workspace, unmatched, omit>>

Withdraw ==
  /\ \/ \E t \in DOMAIN tools :
          tools' = Restrict(tools, DOMAIN tools \ {t}) /\ UNCHANGED <<workspace, secrets>>
     \/ \E d \in DOMAIN workspace :
          workspace' = Restrict(workspace, DOMAIN workspace \ {d}) /\ UNCHANGED <<tools, secrets>>
     \/ \E p \in secrets : secrets' = secrets \ {p} /\ UNCHANGED <<tools, workspace>>
  /\ status' = "edited"
  /\ UNCHANGED <<unmatched, omit>>

Acknowledge(target, losses) ==
  /\ omit[target] # losses
  /\ omit' = [omit EXCEPT ![target] = losses]
  /\ status' = "edited"
  /\ UNCHANGED <<tools, workspace, unmatched, secrets>>

\* omissions: every loss is acknowledged and nothing else is
Sync ==
  /\ status = "edited"
  /\ status' = IF omit = Required THEN "done" ELSE "rejected"
  /\ UNCHANGED <<tools, workspace, unmatched, secrets, omit>>

Next ==
  \/ \E t \in FileTools \cup WebTools, d \in Decisions : Decide(t, d)
  \/ \E directory \in Directories, bucket \in Decisions : List(directory, bucket)
  \/ \E p \in SecretPaths : Hide(p)
  \/ Withdraw
  \/ \E target \in Targets : \E losses \in SUBSET Listable[target] : Acknowledge(target, losses)
  \/ Sync

Spec == Init /\ [][Next]_vars

-----------------------------------------------------------------------------
(* What the policy says of a call.  Denied files are denied anywhere; the  *)
(* other directories are about what lies outside the session's ("decides   *)
(* every other directory outside the project", source-format.md).  A loss  *)
(* a target needs and people acknowledge is left out of what it owes.      *)

Hidden(f) == \E p \in secrets : Reaches(p, f)

Denied(f) == Hidden(f) \/ Lies(f, "deny")

Place(f, s, lost) ==
  IF Hidden(f) \/ ("workspace" \notin lost /\ Lies(f, "deny")) THEN "deny"
  ELSE IF Inside(f, s) \/ "workspace" \in lost THEN "allow"
  ELSE IF "workspace.ask" \notin lost /\ Lies(f, "ask") THEN "ask"
  ELSE IF Lies(f, "allow") THEN "allow"
  ELSE unmatched

OwedPlace(target, f, s) == Strictness[Place(f, s, omit[target])]

OwedTool(target, t) ==
  Strictness[IF t \in DOMAIN tools /\ "tools" \notin omit[target] THEN tools[t] ELSE "allow"]

Given(target, t, f, s) == Strictness[Decides(target, t, f, s)]

\* The policy lets the tool at the file.
Open(t, f, s) == t \in DOMAIN tools /\ tools[t] = "allow" /\ Place(f, s, {}) = "allow"

WebKept(target) ==
  \A t \in WebTools \cap DOMAIN tools : Strictness[DecidesWeb(target, t)] >= OwedTool(target, t)

Plain == \A d \in DOMAIN workspace : Literal(d)

(* Type invariant, with what an accepted policy stands for: what is        *)
(* acknowledged is exactly what the targets lose of this policy.           *)
TypeOK ==
  /\ DOMAIN tools \subseteq FileTools \cup WebTools /\ Range(tools) \subseteq Decisions
  /\ DOMAIN workspace \subseteq Directories /\ Range(workspace) \subseteq Decisions
  /\ unmatched \in {"ask", "allow"} /\ secrets \subseteq SecretPaths
  /\ omit \in [Targets -> SUBSET Losses]
  /\ status \in {"edited", "done", "rejected"}
  /\ status = "done" => omit = Required

(* Under an accepted policy Claude is never laxer about a place than the   *)
(* policy, and never about a tool in the session's directory, where tool   *)
(* patterns are anchored; and it asks for nothing the policy opens, but    *)
(* for the fold, for a lone write outside, for stars, and for a session    *)
(* in a directory to be asked for.                                         *)
ClaudeKeepsAccess ==
  status = "done" =>
    /\ WebKept("claude")
    /\ \A t \in FileTools, f \in Files, s \in Sessions :
         /\ Given("claude", t, f, s) >= OwedPlace("claude", f, s)
         /\ Inside(f, s) => Given("claude", t, f, s) >= OwedTool("claude", t)
         /\ (/\ Open(t, f, s) /\ Folded[t] = "allow" /\ Plain
             /\ IF Inside(f, s) THEN ~Lies(f, "ask") ELSE t # "write" \/ "edit" \in DOMAIN tools)
              => Given("claude", t, f, s) = 0

\* A relative path of f, from s, still shows all names of the pattern.
Shown(p, f, s) ==
  \/ ~Inside(f, s)
  \/ p.anchor = "home" /\ IsPrefix(s, Home)
  \/ p.anchor = "anywhere" /\ \E i \in Len(s)..Len(f) : Covers(p, From(f, i + 1))

\* The names of a pattern for the home directory occur elsewhere.
Namesake(f) == \E p \in DeniedPaths : Reaches([p EXCEPT !.anchor = "anywhere"], f)

(* Under an accepted policy OpenCode is never laxer than the policy, as    *)
(* long as a session is not started inside what a denied path names, and   *)
(* as edit decides for write; and it asks for nothing the policy opens,    *)
(* but for the fold and for namesakes of denied paths.                     *)
OpenCodeKeepsAccess ==
  status = "done" =>
    /\ WebKept("opencode")
    /\ \A t \in FileTools, f \in Files, s \in Sessions :
         /\ (Denied(f) => \E p \in DeniedPaths : Reaches(p, f) /\ Shown(p, f, s)) =>
              Given("opencode", t, f, s) >= OwedPlace("opencode", f, s)
         /\ t # "write" \/ "edit" \in DOMAIN tools =>
              Given("opencode", t, f, s) >= OwedTool("opencode", t)
         /\ Open(t, f, s) /\ Folded[t] = "allow" /\ ~Namesake(f) => Given("opencode", t, f, s) = 0

(* Under an accepted policy Codex reads nothing that is denied and writes  *)
(* nothing unasked that the policy does not open, wherever entries for the *)
(* same path meet; and it lets every open call through, but for stars.     *)
CodexKeepsAccess ==
  status = "done" =>
    /\ WebKept("codex")
    /\ \A t \in FileTools, f \in Files, s \in Sessions :
         /\ t # "read" \/ Denied(f) => Given("codex", t, f, s) >= OwedPlace("codex", f, s)
         /\ Given("codex", t, f, s) >= OwedTool("codex", t)
         /\ Open(t, f, s) /\ Plain => Given("codex", t, f, s) = 0

(* Under an accepted policy Cursor, for sessions and files below the home  *)
(* directory, opens no secret path, and what else the policy says of a     *)
(* write or a tool and Cursor does not do is acknowledged.                 *)
CursorKeepsAccess ==
  status = "done" =>
    /\ WebKept("cursor")
    /\ \A t \in FileTools, f \in Files, s \in Sessions :
         /\ IsPrefix(Home, s) /\ IsPrefix(Home, f) /\ (t # "read" \/ Hidden(f)) =>
              Given("cursor", t, f, s) >= OwedPlace("cursor", f, s)
         /\ Given("cursor", t, f, s) >= OwedTool("cursor", t)
         /\ Open(t, f, s) /\ (t = "read" \/ Inside(f, s)) => Given("cursor", t, f, s) = 0

(* What the policy denies, Claude, OpenCode and Codex deny, or the loss is *)
(* acknowledged (limits.py:3 "A source that uses one must acknowledge the  *)
(* loss"; source-format.md:216 "each target receives them in every anchor  *)
(* it checks a file by").                                                  *)
DenialsKept ==
  status = "done" =>
    \A target \in Targets \ {"cursor"} : \A t \in FileTools, f \in Files, s \in Sessions :
      2 \in {OwedPlace(target, f, s), OwedTool(target, t)} => Decides(target, t, f, s) = "deny"
=============================================================================
