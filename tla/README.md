# Verification of coding-agents-sync

`coding-agents-sync` compiles one directory of canonical sources (instructions,
skills, commands, permissions, MCP servers, patches) into the configuration of
four coding agents, and writes the result into a home directory that the agents
and their user also write to. This directory holds TLA+ models of the program,
TLC runs over small instances, and TLAPS proofs. Paths below are relative to
`src/src/coding_agents_sync/` unless they say otherwise.

## 1. The system

`sync.py` runs one synchronisation from start to end, in one process, without a
lock: load sources, compile once per target, merge the plans, **reconcile**
(portable preflight, native preparation), then **apply** (portable content,
native content, portable manifests, native manifest). Every write of a single
file goes through a temporary file and `os.replace`; nothing larger is atomic.

| Component | State it keeps | Operations | Hard behaviour |
|---|---|---|---|
| Portable publication (`output/writer.py`, `io.py`, `output/plan.py`) | generated files and trees below the home; one `.coding-agents-managed.json` per manifest root | `preflight_plan`, `plan_drift`, `write_plan`, `publish_plan_manifests` | crashes between any two writes, edits between and during runs, paths changing manifest, links and wrong kinds, conflicts raised half-way |
| Native reconciliation (`output/native.py`) | JSON/TOML files shared with the tools; `.coding-agents-native.json` | `prepare_plan_native`, `apply_native_candidates`, `publish_native_manifest` | read at preparation, written much later; list ownership per entry; content first, manifest last |
| Patches (`output/patches.py`) | none | `apply_operations`, `merge_patches`, `touches`, `contributes_to_generated` | co-ownership of generated pointers, order of operations |
| Sync transaction (`sync.py`, `cli.py`) | none of its own | `reconcile`, `apply_transaction`, `run_sync` | failures between the halves, two processes at once |
| Canonical sources (`sources.py`, `models.py`) | none | `load_sources`, rule validation (`narrows`, `_validate_rules`) | contradictory or unreachable rules |
| Target resolution (`ir.py`) | none | `applies_to`, `resolve`, `omissions` | an unlowered field slipping through |
| Permission lowering (`targets/permissions.py` and the compilers) | none | `bucket_entries`, coverage audits | tools decide by first, last or most specific match |
| File and tool access (the same files) | none | `fold_edit_write`, `denied_paths`, `external_directory_rules`, `opencode_paths`, Codex's profile, Cursor's ignore file | each tool anchors, matches and ranks paths differently; where a session starts changes what an entry means |
| Limitations (`limits.py`, `ir.py`) | none | `required_omissions`, `omissions` | a loss nobody acknowledges, or an acknowledgement that hides one |
| OpenCode unwrap plugin (`targets/opencode-unwrap.js`) | none; OpenCode's session and rules, over two requests | closure, evaluation, review | wrapped commands, last-match order, rules that change or fail to load while a call waits |
| Skills and commands (`targets/support.py`, `targets/shared.py`) | none | root selection, collisions, merge of shared skills | three targets agreeing on one tree |
| Target compilers | none | rendering | formatting, no state |

Interaction: the compilers return `Plan` values; only the two output halves
touch the disk, and they meet on it with the user (any file, any time) and the
tools (native files, any time).

### What makes each part correct

* **Portable**: a person's file is never overwritten or removed (the code fails
  this for links where a manifest names the path, section 4); a manifest
  records only what the compiler made; the compiler recognises everything it
  wrote, after any history of runs, source changes and crashes; what it no
  longer generates disappears; a successful run leaves no drift; runs end, and
  repeating them converges.
* **Native**: entries and values of the tools survive in content and order;
  foreign entries stay ahead of owned ones; withdrawn output disappears; a
  killed run can be repeated; a successful run is a fixed point.
* **Transaction**: a failed preflight writes nothing; manifests never run ahead
  of content.
* **Rules and permissions**: loading rejects a pair of rules only if one of them
  decides nothing, and accepts none that does; every tool decides every command
  as the policy does, as far as it can express it, and what it cannot express
  makes it ask more, never less.
* **Access**: under an accepted policy no tool is laxer about a file or a tool
  class than the policy, except by a loss that is acknowledged, and it lets
  through what the policy opens.

The hazards behind these properties are listed in `PROJECT.json`.

## 2. Modules

| Module | Models |
|---|---|
| `Lists` | the list comprehension lists are merged with, as a recursive function |
| `PortableOutput` | the portable half of a run: preflight, writes, pruning, manifests, crashes, and the person at the disk |
| `PortableOutput_proofs` | proofs about it |
| `MCPortableTrees`, `MCPortableMoves` | small instances of it |
| `NativeConfig` | the native half of a run, with patches, crashes and the tools |
| `NativeConfig_proofs` | proofs about it, and about the comprehension of `Lists` |
| `MCNativeConfig` | small instances of it |
| `NestedConfig` | one native file as a tree: all patch operations, merged patch files, emptied tables, servers kept beside the file |
| `NestedConfig_proofs` | its eight properties, and the closed form of a patch |
| `MCNestedConfig` | a small instance of it |
| `CommandRules` | what a command rule matches, narrowing, validation of a merged policy |
| `PermissionLowering` | editing and loading fragments, the four lowerings, and what each tool decides |
| `PermissionLowering_proofs` | narrowing is sound, for every rule and command; types, what loading rejects, what rules that load decide, what Codex guards and Cursor withholds; covered patterns decide nothing, Claude and OpenCode decide as the policy does |
| `MCPermissionLowering` | small instances of it |
| `FileAccess` | tool decisions, workspace directories and secret paths: editing them, the losses to acknowledge, the four lowerings, and what each tool decides for a file |
| `FileAccess_proofs` | types, and what each of the four tools keeps of the policy |
| `MCFileAccess` | small instances of it |
| `Skills` | which agent receives which skill and command, what its copy says, and the copy three agents share |
| `Skills_proofs` | one copy for each agent, what it says and which scripts it may run |
| `MCSkills` | a small instance of it |
| `Custody` | what a sync promises about everything it shares with others, abstractly |
| `SyncTransaction` | both halves together, any number of processes at once, people and tools at any time; implements `Custody` |
| `SyncTransaction_proofs` | types, `OverlapSettles`, and the refinement |
| `MCSyncTransaction` | a small instance of it |
| `Peel` | how the OpenCode plugin peels a command, and how rules decide |
| `Unwrap` | the plugin's review of a call, composed with `Peel` |
| `Unwrap_proofs` | that peeling ends, and the three properties of the review |
| `MCUnwrap` | a small instance of it |

### PortableOutput

State and code:

| Variable | Code |
|---|---|
| `disk` | the home directory: each output path is absent, a file or a tree, a link, or something of the wrong kind; a tree may have a link inside |
| `manifest` | `.coding-agents-managed.json` of each group (manifest root, mode) |
| `source` | what the compilers would produce now; `txn` the plan the run captured |
| `pc`, `todo`, `tree`, `slots`, `at` | where the run is: the loops of `write_plan`, `_write_owned_tree`, `publish_plan_manifests` |
| `mine`, `outcome`, `cut` | history only: a person's work, how the last run ended, whether any run was cut short |

Actions and code: `Begin` and `Refuse` are `run_sync` up to the end of
`reconcile` (`Unclaimable` and `Modified` are the two refusals of
`preflight_plan`); `WriteFile`, `OpenTree`, `WriteSlot`, `PruneTree` are the
system calls of `write_plan`; `StartPublish`, `PruneStale`, `PublishGroup` those
of `publish_plan_manifests`; `WriteBlocked`, `PruneConflict`, `PublishConflict`
its failures; `Crash` the death of the process at any of these points, with the
partial effects of the call it was in (`TempLeft`, `PartlyPruned`,
`PartlyRemoved`). `ChangeSource`, `Save`, `Delete`, `Replace` are the person.
`Content` is what `entry_hash` gives a hash: not a link, not a path of the wrong
kind, and not a tree with a link inside, which is all the same `Present` and is
written, pruned and removed like any other.

Abstractions:

* A hash is the content it is the hash of. File modes and the executable bit
  are left out. So are incidental files (`is_incidental`), which neither
  comparison sees, and directories inside a tree as such: `plan_drift` does not
  see them, but `entry_hash` digests their names, so that an empty directory a
  person adds to a tree makes preflight refuse it, as an added file does.
* The order in which files, trees and stale names are handled is the order of
  dicts, sets and compiler output; the model allows any. The order of groups is
  a parameter (`PublishOrder`), because it decides outcomes.
* Preflight is one step. A temporary file beside a single file is left out; one
  inside a tree (where it changes the tree's hash) is `Stray`.
* Output paths do not lie below one another, also not across plans. What a link
  leads to is not modelled: `write_bytes` may find equal bytes behind it or not.
* Sources change only between runs; a run has captured its plan, so a change
  during it has no effect before its end. With `Interferes = FALSE` the person
  edits only between runs. A person never edits manifests.

### NativeConfig

| Variable | Code |
|---|---|
| `doc` | the native files, as a function from pointers to values |
| `owned` | `.coding-agents-native.json`: a list by its entries, other values by hash |
| `candidate`, `record`, `todo` | the `NativePlan`: documents and manifest to write |
| `theirs`, `loose`, `outcome`, `cut` | history only: entries and values of tools and patches |

`Conflicts`, `Foreign`, `Reconciled`, `Patched`, `Record` are the steps of
`prepare_plan_native` in order, with the comprehensions of `Lists`; `Prepare` is the whole of it, `Apply(s)` one
file of `apply_native_candidates`, `Publish` the manifest. `AddEntry`,
`DropEntry`, `SetValue` are the tools.

Abstractions: the pointers of a surface do not lie below each other; a list
holds no entry twice; a pointer is a list or a scalar in every plan; of the
patch operations `set`, `delete` and `extend` are modelled. Nested pointers,
`replace`, `overlay` and the removal of emptied tables are `NestedConfig`'s.
`native_patch` always yields a patch for every surface, so the set of surfaces
is constant.

### NestedConfig

The same half of a run, seen from the other side: one file, but as the tree it
is. A document is a function from the pointers it holds to `Table` or a leaf,
so that a pointer may lie above or below another.

| Variable | Code |
|---|---|
| `doc`, `owned` | the file, and its section of `.coding-agents-native.json` |
| `source` | what people configure: MCP servers, the committed and the local patch file |
| `pc`, `candidate`, `record` | where the run is, and the `NativePlan` it will write |
| `theirs`, `left`, `outcome`, `cut` | history only: nodes of tools and of patches, how the last run ended, whether any was killed |

`Merged` is `merge_patches`, `Conflicting` its validation, `Applied` one
operation of `apply_operations`, `Withdrawn` is `_delete_with_empty_parents`,
`Complete` is `_validate_candidate`, and `Candidates` is `prepare_plan_native`
from end to end. An operation that raises (`Applies` is false) leaves no
document, so that `AppliedAll` and `Candidates` are sets of at most one.
`Routed`, `Standalone` and `Shared` are `_optional_servers`: a
disabled server leaves the shared file for a file beside it, and takes the
patches inside its entry along. `Refuse`, `Prepare`, `Write`, `Publish` are the
run; `Crash` kills it; `ToolSets`, `ToolRemoves` are the tools, `ChangeSource`
is people.

Abstractions: generated lists, tools that write during a run and several files
are `NativeConfig`'s. The order of operations within a patch is that of its
sections and of the merge; `OrderIrrelevant` says why no more is needed. The
file beside is an operator, because no tool writes it and each run writes it
anew from the source. A generated value is a scalar or one table, as in the
entry of a server. Files that people may not leave readable are left out: a local
patch or server file whose mode is not 0600 is refused before any of this
(`targets/support.py:234`, `sources.py:744`).

Assumptions: `NodesAssumption` (a list extended by a list is a list, and a table
is no leaf), `ToolAssumption` (a tool writes below the root, scalars, lists and
empty tables), and `SourcesAssumption`, which is what `load_patch` and the
schema of a server let through (`IsSource`, `IsOperation`): any operations at any
pointers, any number of servers, each with at least one field.

`DisabledKeepsEntry` compares the entry in the shared file with the one the
server would have beside it. They differ where a tool wrote into the entry,
where a patch of an earlier plan left something, and where an operation
combines with what such nodes hold: an `extend` keeps the items it finds, an
`overlay` the keys. `left` is the history of what patches wrote, and of tables
they emptied by a delete (`Written`). After a killed run nothing is promised:
what that run left counts as nobody's.

### CommandRules and PermissionLowering

`CommandRules` has no state. A rule names a program, leading subcommands, and
optionally what must follow: one of several word sequences (`tail`), one of
several texts (`text`), nothing (`exact`). `Narrows`, `Within`, `IllFormed`,
`Contradict`, `SharedVocabulary`, `UnusedVocabulary` and `Valid` are the checks
of `sources.py`. `MatchesBare` and `Matches` are the reference: what a rule
matches, told over the words of a command as the schema describes it, without
globs. Everything else is compared with it.

| Variable of `PermissionLowering` | Code |
|---|---|
| `entries` | the rules of all permission fragments, committed and machine-local, each with its bucket |
| `declared` | the fragments that declare a program's leading options and assignments |
| `unmatched` | the decision for commands no rule matches |
| `status` | edited since the last run, loaded, or rejected |

`AddRule`, `DropRule`, `DeclareVocabulary`, `DropVocabulary` are people editing
fragments; `Load` is the merge and validation of a run. The compilers are
operators over the loaded state: `GlobVariants`, `CopyPrefixes`, `Emitted` (with
covered patterns dropped) for the two tools that read globs; `ShellRules` the
ordered list for OpenCode; `CursorEntries` and `Allowlist` with the withholding
tests `Narrows`, `PrefixOverlaps`, `RidesOptions` for Cursor; `Projected`,
`Spellings` and `CodexRules` for Codex. How each tool then decides (last match,
strictest bucket, allowlist, literal prefix) is external, modelled as the
compilers rely on it.

Abstractions:

* A command is a sequence of words and a word a sequence of characters, kept
  only because globs do not respect words. Character classes of tokens, brace
  expansion, quoting, home paths and spellings with a slash are left out.
* Which words are the arguments of a wrapper is left open (`Sheds`): a tool may
  take any number of them. Within that, a tool that peels sheds leading wrappers and
  assignments as often as it finds them (`SeenFrom`, the plugin's `spellings`).
* Secret paths, tool classes and workspace directories are `FileAccess`'s. Secret
  names, MCP rules, redirects and OpenCode's deny reasons are left out; the allow the plugin carries
  through transparent wrappers is `Unwrap`'s.
* A tool that peels for a bucket finds its rules also behind what nobody declared,
  another program's assignment, a wrapper the policy does not name, several in a row.
  The policy's decision is stated for what that tool sees (`InForce`,
  `PolicyDecision`): a guard behind something is in force if the entry covers the
  prefix, or if the tool sheds it. Against that the decisions are to be equal.
* `Agrees` states one exemption: a glob of a text rule has no boundary after
  its head (`prefix: git log, text: x` decides for `git logx` too), `Fused`.
* `CursorWithholds` speaks of guards that are heads, and behind a declared option
  of an allow and a guard that read the command alike (`ReadAlike`): their words
  begin at one place, or end at one word with only options more in the one. Those
  are the cases that `Narrows`, `PrefixOverlaps` and `RidesOptions` are for, and
  without any one of them the run fails. Where the one takes a word of the other
  for an argument of the option, Cursor runs what the policy guards (section 6).

### FileAccess

| Variable | Code |
|---|---|
| `tools`, `workspace`, `unmatched`, `secrets` | `tools`, `workspace.allow/.ask/.deny`, `workspace.unmatched` and `secret_paths` of the policy |
| `omit` | `targets.<target>.omit` of the policy |
| `status` | edited since the last run, done, or rejected by it |

`Decide`, `List`, `Hide`, `Withdraw`, `Acknowledge` are people; `Sync` is a run,
which accepts the policy if `omissions` has nothing to say: each target's
`Required` (the `LIMITATIONS` for tools and workspace) is what is acknowledged,
no more and no less. The compilers are operators over the policy: `Folded` is
`fold_edit_write`; `ClaudeTools`, `ClaudeAllows`, `DeniedPaths` and
`AdditionalDirectories` the lists of `_permission_values`; `ToolRules` and
`ExternalRules` OpenCode's ordered rules with the spellings of `OpenCodePaths`;
`Filesystem` the table of Codex's profile; `Ignored` the lines of
`.cursorignore`. `ClaudeDecides`, `OpenCodeDecides`, `CodexDecides` and
`CursorDecides` say what the tool makes of these entries for one tool class, one
file and the directory the session was started in. How a tool matches and
ranks entries is external, modelled as docstrings and comments of the compilers
describe it: Claude takes deny over ask over allow and anchors the bare tool
patterns at the session's directory; OpenCode takes the last match and checks a
file inside that directory by its relative path; a deny in Codex's profile
outranks every other entry; Cursor reads the ignore file of the home directory
from sessions below it.

What the policy says, `Place`, is told without any of this, over absolute paths:
a file is denied on a secret path or below a denied directory; the other
directories are about what lies outside the session's directory, and where they
overlap the stricter wins, the order in which both compilers that have all three
write them. The properties compare both,
in both directions, with what is acknowledged taken off (`OwedPlace`,
`OwedTool`).

Abstractions: a path is a sequence of names, a pattern names behind an anchor,
with a star for one name, and with or without all that lies below. Stars within
a name, `**` in the middle, Windows drives and repeated entries are left out.
The defaults in force where no entry applies are those the code states. What is
listed as one directory, without a star, is not itself a file, and nothing lies
below a secret path that names no directory (`FilesAssumption`): the secret paths
in the repository's tests name files.

Qualifications, stated in the properties (each is what the code does, and
`DenialsKept` fails for the first three as well):

* OpenCode sees no denied path of which the session's directory cuts off the
  first names (`Shown`); the run `denials_kept` shows that one.
* A decision on `write` alone is never written for OpenCode, because
  `fold_edit_write` folds nothing then and `_permissions` asks for `edit`.
* Claude's `Read(**)` and `Edit(**)` do not reach outside the session's
  directory, so `read: deny` still leaves additional directories readable.
* OpenCode's respelled home patterns also match namesakes elsewhere
  (`Namesake`), the fold makes a tool ask or refuse more (`Folded[t]`), and
  starred directories reach neither Claude's `additionalDirectories` nor Codex's
  profile (`Plain`): all three only tighten.
* Reads outside the session's directory are asked for under `unmatched: ask`,
  but Codex and Cursor read there unasked; Cursor's ignore file holds only below
  the home directory and only patterns from `~` or anywhere. The properties of
  these two are about writes, denied files (Codex) and secret paths (Cursor).

### Skills

| Variable | Code |
|---|---|
| `skills`, `commands` | `skills/*/SKILL.md` with the files beside it, `commands/*.md` |
| `status` | edited since the last run, compiled, or rejected |

`EditSkill`, `EditCommand` are people; `Sync` is a run up to the point where
diagnostics stop it. The compilers are operators over the sources: `SkillTree`
and `CommandTree` what one target's copy says, `Merged` the shared one, `OwnCopies`,
`SharedCopies`, `CommandCopies` where copies go, `AllowedScripts` what an agent
may run unasked. `Rejected` collects the refusals: blocks outside `only`,
unknown native fields, wrong omissions, raw fields that shadow others, fields
on which readers of one copy disagree, names that collide. Which directories an
agent reads (`ReadsFrom`) is external; Cursor's third-party setting, with which it
would read Claude's copies too, is off, as `docs/targets/cursor.md` asks.

Abstractions: a field is a name and a value, absent where it is empty; fields
that are treated alike stand for each other (`metadata`, Claude's typed fields);
`agents/openai.yaml` is one level of settings. Bodies and OpenCode's commands,
which live in a directory of their own, are left out, and so is what happens to
the copies on disk when `only` changes (`PortableOutput`).

While reading: `docs/targets/cursor.md:26` lists `license` among Cursor's typed
skill fields, but `CursorSkillNative` has none and rejects it (`UnknownFields`).

### SyncTransaction and Custody

The two modules of the halves look at one process. `SyncTransaction` puts both
halves in the order of `sync.py` and lets several processes go through it at
once, with people and tools writing between any two steps. For that it keeps
less of each half: one root of plain files, and one generated list for each
native document.

| Variable | Code |
|---|---|
| `disk`, `manifest` | the generated files and their `.coding-agents-managed.json` |
| `docs`, `record` | the list of each document, and `.coding-agents-native.json` |
| `source` | what the sources compile to now |
| `job` | each process: where it is, the plan it captured, and what it computed and has not written yet (`candidates`, `owned`, `rewrites`, `previous`, `entries`) |
| `touched`, `raced`, `calm`, `changes` | history only: what others changed during a run, whether runs of different plans overlapped or one was cut short, what happened since a run last started alone, and the bound |

`Preflight`, `Prepare`, `WriteFile`, `WriteDocument`, `OpenManifest`, `Prune`,
`HashFiles`, `WriteManifest`, `WriteRecord` are the accesses to shared files in
the order `reconcile` and `apply_transaction` make them; between two of them
anything may happen. `Leave` is a run that only reports (`--check`), or that
`prepare_plan_native` refuses; `Raise` ends a run anywhere after it began to
write: a conflict found while pruning or hashing, an error of the file system,
a kill. `Edit`, `AddEntry`, `DropEntry`, `ChangeSource` are everybody else.

`Custody` says the same system without files, plans or steps: items, who holds
each, which ones the manifests name. The compiler leaves what others hold,
withdraws only what it vouches for, and at rest vouches for all it holds. Two
things suspend that: an item somebody changed *during* a run (`touched`), where
the compiler may act on what it read before, and runs of different plans that
overlap or are cut short (`raced`), after which something may stand on disk that
no manifest names. Both are facts about the code (no lock, nothing is read
again before it is written); the refinement says that nothing else is lost.
An item stays touched until the next run that starts alone, unless a manifest
records the edited content as generated: then the damage is lasting (`Settled`).

Abstractions: links, wrong kinds, trees, several roots (`PortableOutput`),
scalars, patches and the order of list entries (`NativeConfig`) are left out; a
preflight is one step, like `prepare_plan_native`; a tool does not add an entry
that is also generated; writing a file with the content it has is a write.

### Peel and Unwrap

`Peel` has no state. `PeelOnce` is one step of the plugin towards the command
inside a command, `Spellings` the closure, `Transparent` the step that also
carries an allow, `Evaluate` the rules, `Passes` the search for an allow. The
tables of wrappers are those of the code.

| Variable of `Unwrap` | Code |
|---|---|
| `agent`, `grants` | OpenCode's session: its agent, and the permissions granted for it |
| `call` | the permission event under review, what the first request returned, and, for the properties only, how the commands were built (`layers`) |

`Call` is OpenCode judging a shell call before the hook (external), `LeaveAlone`
the early returns of `review`, `ReadSession` and `Decide` its two awaits with
the decision, `Fail` the failure of either, `Answer` what OpenCode does with the
effect. `Switch` and `Grant` are the user, in between.

The properties never mention peeling. A call is built from the inside out, by
putting before a command what the documentation of each wrapper allows there,
and the properties speak of these layers: what is denied at any depth is denied,
and an allow is due to a layer that can be reached through transparent ones
which no rule but the catch-all decides.

`Wraps` says what a layer is without searching for it: a redirection or an
assignment, a program by its path or in quotes, `env -S`, or a wrapper with words
of its own and then the command (`Introduces`). Where the command begins is given
there, and the words before it are told one by one: options, some with a value
in the next word, assignments where the wrapper takes them, as many arguments as
it declares, perhaps `--`. `LinesAssumption` asks this of every line, so the
properties are about commands of any depth, not about the few `MCUnwrap` builds;
every run of the module evaluates it on those.

Abstractions: a command is a sequence of words and a word a sequence of pieces,
one unless it was quoted; a word is quoted as a whole or not at all. So a redirection
to a quoted target (`>"out"`), one for the code too, which tests the raw text, does
not occur, nor does a program named like a member of every object (`toString`,
`valueOf`, `constructor`): the code's tables are plain objects, and it takes such
a program for a wrapper. What the
regular expressions tell of a piece (option, assignment, redirection, path) is
given by the constants. A rule matches whole words, and others may follow (the
globs are `PermissionLowering`'s). Empty words are left out. The action of every
rule is `shell`.

## 3. Runs

| Run | Expect | Shows |
|---|---|---|
| `portable_trees` | pass | a generated file and a two-file tree, four plans (both, changed, mixed content, nothing): manifests vouch only for compiled content, success means no drift, a killed run repeats, nothing is forgotten, own output is accepted, a person's work is kept but where a link hides it from preflight |
| `portable_moves` | pass | a file that moves between the manifests of `rules/` and the raw root, with a person editing also during runs: repeated undisturbed runs converge (`Converges`) |
| `portable_moves_lost` | violation | `DoneMeansSynced`: the moved file is pruned in the same successful run |
| `native_config` | pass | all native properties over two files, four plans, tools editing between runs, crashes |
| `nested_config` | pass | one server under eight configurations, tools editing between runs, crashes: the plan shows after success, success is a fixed point, a killed run repeats, nothing is forgotten, order does not matter, disabling keeps the entry, tools keep their nodes |
| `permissions` | pass | every policy of at most two rules out of nineteen, and of three out of four in two fragments, with and without declared vocabulary: what is rejected, what loads, conflicts between files, patterns covering one another, and what each tool decides |
| `cursor_tails` | violation | `CursorWithholdsForTails`: a guard with a tail or text and a shorter head does not withhold an allow |
| `skills` | pass | two names, thirteen skills and six commands: one copy for each agent that receives it, with everything asked for it, and its scripts allowed where they are |
| `sync_overlap` | pass | two processes over two files and a settings document, sources that change, a person and a tool writing at any moment, failures everywhere: overlapping runs of one plan settle, and the whole implements `Custody` |
| `unwrap` | pass | one command wrapped up to twice in every way the tables allow, two agents, a user who switches and grants during the review, failing requests: denies reach inside, an allow is carried out only past what wraps transparently, nothing runs unread |
| `file_access` | pass | every policy of up to three tool decisions, listed directories and secret paths with all that may be acknowledged: each tool's decision for nine files from six session directories is never laxer than the policy, but for acknowledged losses and the qualifications above, and open calls pass |
| `denials_kept` | violation | `DenialsKept`: a secret path the session's directory lies on is read unasked by OpenCode |

Bounds. Two paths and two groups are enough for every relation the model has:
a path interacts with another only through a conflict that ends the run, and
with a second group only by moving to it. Two generated contents tell old from
new; one user content tells foreign from generated; the tree has two files,
so that a crash can fall between them and a source change can drop one. A person
leaves links and wrong kinds at both paths, and links inside the tree. The
number of runs, edits, crashes and source changes is not bounded: the state
space is finite without a counter. The native instance has one generated list
and one generated scalar in one file, and a patched list in a second (so that a
crash falls between two files); two generated entries, one patched and one
foreign, so that order, adoption and withdrawal all occur. The nested instance
has one server with a generated scalar and a generated table, registered,
disabled and gone, and each patch operation at, above and below a generated
pointer or where one was before; a tool writes a leaf and a table at every depth
of the tree. Servers meet only in the table that holds them, so one suffices.
The permission
instance has one program with an option and an assignment, an interpreter, a
wrapper that no tool peels completely, one that both do, and one that Claude
peels and no policy names; wrappers and assignments lead alone and in twos, and
commands are of up to four words (no rule pins more than two subcommands, so one word is left to
follow or to stand between), behind an option up to five. Validation, overlap and precedence relate two rules at a time,
so pairs suffice; coverage chains three, and conflicts cross fragments, so the
rules in `Combined` meet in threes and in two fragments (`Bounded`). Fragments
differ in nothing but their name, which makes them a symmetry set, like the
names of `skills`. There a skill meets only the command of its own name, so the
second name is there to show that names do not mix; the thirteen skills set each
field that targets treat differently for all of them, for one of them, and
against one another.

In `sync_overlap` two processes suffice for every pair of steps to meet, and
two plans for one to withdraw what the other generates; `Processes` is a
symmetry set, because processes differ in nothing. `MaxChanges` bounds the edits
and source changes: two let a source change meet an edit, or an edit be undone.
Runs are not bounded. In `file_access` three entries suffice for every pair of
entries to meet with a third that outranks both; directories overlap, contain
one another, are spelled from the home and from the root, and one has a star;
files lie in, below and beside them, and a session starts at the home, in a
project, in and below a listed directory, and on another volume. `MaxEntries`
bounds the entries at one time, not the edits. `unwrap` bounds the grants with `MaxGrants`: one is enough
to make the rules read differ from the rules judged by. Two layers around a
command let each kind of step follow each other kind; `MaxPeels` is not a
bound on the instance but the number of steps after which peeling has ended
(proved, `PeelingEnds`).
`MCSyncTransaction` disables the deadlock check: once the changes are used up and
a file is left that every preflight refuses, the system rightly has no step.

Qualifications found while checking, stated in the properties: a run killed
inside a tree is refused by the next preflight until a person removes the tree;
so is a path that changed manifest; a pointer that stops being generated
while a patch sets it to another value cannot be resumed after a crash; nor can
a generated table that a patch overlays, because the killed run left a value
that is neither the recorded nor the generated one. The three properties named
`KilledRunRepeats` state these exemptions. That of `PortableOutput` leaves out trees
altogether, not only the one a run was killed in; what holds of trees after a
crash is `ManifestVouches`: however often a run is killed in one, no manifest
takes what it left for generated.

Fairness. `WF_vars(Step)`: a process that was started and is not killed is
scheduled until it ends. Nothing starts a run by itself, so `Converges` takes
repeated undisturbed runs as its premise. Permission loading and skills
promise nothing over time, so `PermissionLowering` and `Skills` have no fairness.

## 4. Proofs

`PortableOutput_proofs` (tlapm, every value of the constants):

* `TypeCorrect`: `Spec => []TypeOK`. Not inductive alone: it needs the phases
  (`PhaseOK`: the tree being written is a directory of the plan while it is
  written, stale names are owned by the current group).
* `UserWorkIsKept`: under `~Interferes` (no edits during a run), `Spec => UserWorkKept`.
  The invariant says that what a later step will write or prune is not a person's,
  because preflight looked at it and nobody has edited since, or is `Overlooked`.
  The hypothesis is necessary: `write_bytes` overwrites an edit made after
  preflight.

  So is the exemption, without which TLC finds two short behaviours. A run
  publishes a file; the person moves it elsewhere and leaves a link to it; the
  sources change. `entry_hash` has no hash for a link (`io.py:114`), `preflight_plan`
  refuses only what has one (`output/writer.py:280`), and `os.replace` replaces the
  link (`io.py:82`). Or a run publishes a tree, and the person puts a link into
  it, perhaps with edits beside it: the whole tree has no hash then (`io.py:128`),
  so the next run overwrites the edits and unlinks the link (`_prune_tree`), or
  removes the tree if it is no longer generated (`io.py:181`). The repository's
  `README.md:6` says that the compiler "refuses to replace modified managed
  content"; `UserWorkKept` is that promise less this case. Where no manifest names
  the path, a run that generates it is refused; a link at a tree is left alone; a path
  of the wrong kind is left alone or makes the run fail. All these the property covers.
* `ManifestsVouch`: under `~Interferes`, `Spec => []ManifestVouches`. The
  invariant carries the progress of the write phase: what is written already is
  the plan's content or has no hash.
* `NothingIsForgotten`, `OwnOutputIsRecognised`: from `LedgerInv`, which says for
  every point of a run what the manifests know of the disk as long as no run was
  cut short: between runs everything that is not a person's, as it is; while
  publishing, so for the manifests published already, and what the others do not
  record is at least in the plan. Neither needs `~Interferes`: `mine` remembers
  what a person touched, also during a run.
* `KilledRunsRepeat`: under `~Interferes`, from `RepeatInv`: from the preflight
  on, every generated file is absent, as recorded or as planned.
* `SuccessMeansSynced`: under `~Interferes` and `Settled`: no path changes manifest
  between plans. `DoneInv` says that what a published manifest records stays on
  disk, which a later prune would undo for a path that moved; the run
  `portable_moves_lost` is the counterexample without `Settled`.

`NativeConfig_proofs`, for any surfaces, pointers, values, entries, sources, and
lists of any length:

* `NatSetInduction`, `SeqSetInduction`: the library's induction rules take the
  property as an operator, which the provers cannot instantiate. Here it is a
  set, and induction is that a nonempty set has a least element (`WFMin`). From
  these, for lists of any length: what the comprehension `Kept` keeps, that it
  distributes over concatenation, keeps a list free of repetition, and changes
  nothing when all or nothing is kept.
* `TypeCorrect`: `Spec => []TypeOK`, also with tools writing during a run. That no
  list ever holds an entry twice is part of it.
* All others are under `~Interferes`, because what is prepared early is written
  late and nothing is read again: a tool that writes in between loses its work.
  `SuccessMeansSynced` and `ForeignEntriesFirst` follow from `RunInv`: the prepared
  documents, and after success the real ones, are laid out as the plan asks
  (`AsPlanned`): in each generated list foreign entries, then generated, then
  patched ones, and the manifest names all but the foreign. Preparing again then
  finds the same split.
* `KilledRunsRepeat`: `RepeatInv`. Documents are written one after the other with
  the old manifest in place, so both the old and the new value of every pointer
  have to pass the next run's conflict checks (`Accepts`).
* `ToolWorkIsKept`: `TheirsInv` (what history calls a tool's is there, and no
  manifest claims it) and `KeepInv` (so it is in the documents to write).
* `NothingIsForgotten`, `OwnOutputIsAccepted`: `VouchInv`: as long as no run was cut
  short, the manifest accounts for everything that is not somebody else's.

`NestedConfig_proofs`, for any names, leaves, tool nodes and sources, documents of any
depth and patches of any length. No property of the run is left to TLC alone:

* Two documents are equal if they have the same pointers with the same nodes
  there (`SameTree`), so what an operation does is told pointer by pointer
  (`PutNodes`, `WithoutNodes`, `WithdrawnNodes`, `OverlaidNodes`).
* `AppliedAllIs`: the closed form of a patch. `Result(t, S, u)` says of each pointer
  what `u` holds there after the operations `S` on `t`, as a set. It determines `u`
  (`ResultUnique`); adding one operation that touches no other keeps it
  (`ResultStep`, which `AppliedAllIs` repeats by induction). That an operation
  applies does not depend on the others either (`AppliesSame`), so a patch is
  refused in every order or in none. `PatchesHaveNoOrder` follows.
* `ReconciledIs`: withdrawing stale pointers one after the other, in any order,
  gives `Pruned`: they are gone, nothing else is but tables they leave empty, and
  no table is left empty that was not. The last is told by `Leads`: every node has
  below it, or is, a node of a given set.
* `MadeAgain`: `Makes(q, t, d, u)` is a whole preparation, through the document
  `d` with the generated values. If `q` makes `u` from some document, it makes
  `u` from `u`. Needed of `Valid` is that what a patch puts at a generated pointer
  agrees with it or adds to it.
* `TypeCorrect`: `TypeInv`. A manifest's pointers are finitely many, which is what
  makes a list of the stale ones a list.
* `PlansHold`, `DoneIsSynced`, `KilledRunsRepeat`: from `RunInv`. What is
  prepared, then written, then recorded, was made by the plan from a document
  without the stale pointers (`MadeFrom`), and the manifest says what that
  document holds. It cannot say from which document, because `Write` overwrites
  it; that some such document exists is enough for `MadeAgain`. A killed run
  leaves either a document it had not written, without conflicts, or one that
  is made from the plan, which the exemptions of `KilledRunRepeats` describe.
* `ToolsKeepTheirWork`: the action property. `UnnamedStays` follows a node through
  pruning, the generated values and the patch.
* `NothingIsForgotten`: `AccountsInv`. Until a run is killed, every node leads to
  something a tool wrote, a patch left, or the manifest owns; while a run is
  publishing, the manifest to be. `Leads` passes through pruning by `Pruned` and
  through the plan by `MadeLeads`.
* `DisablingKeepsEntry`: `ValidIs` shows that validity does not tell
  registered from disabled servers, which the code checks in two places
  (`_validate_plan` for the shared file, `_optional_servers` for the file beside);
  then the server's entry and the file beside it are both results of the routed
  part of one patch, on documents that agree at the generated fields (`Beside`),
  and are compared where an operation names a node (`BesidePatched`), where
  none does (`BesideUnpatched`).

`PermissionLowering_proofs`:

* `NarrowingIsSound`: if `Narrows(r, other)`, every command `r` matches `other`
  matches, over any words, options and commands. `HeadPlaces` restates where a
  head may end word by word; then `HeadWidens` shows that the shorter head ends
  at or before the longer one (three cases: directly in place, behind an option,
  a bare program), and `TailWidens` that its alternatives still follow.
* `TypeCorrect`: `Spec => []TypeOK`; the bound needs that `entries` is finite.
* `RejectionsAreRealWithoutTexts`: `Spec => []RejectionsAreReal`, from
  `TypeCorrect` (a rejected policy is invalid as it stands), `NarrowingIsSound`
  and its extension to assignments and wrappers, `NarrowerIsDecided`.
* `LoadedRulesDecideTheirHeads`: `Spec => []LoadedRulesDecide`. The command that a rule decides
  alone is its own head, or where only an exact rule has the same head, the head
  and one word. The hypotheses say that `Commands` has these, and that no rule is
  about a wrapper or an assignment: `_validate_rules` does not see that a deny of
  `ls` leaves nothing to an allow of `sudo ls`.
* `CursorIsWithheld`: `Spec => []CursorWithholds`, from what Cursor's globs match.
  `GlobIs` replaces the recursive `Glob` by a way to lay the pattern over the text
  (`LaysOver`: how far its first characters reach): that satisfies the recursion,
  and by induction over pattern and text nothing else does. A pattern in two
  parts matches a text in two parts (`GlobParts`), and as words have no spaces,
  joined words part at a space only between two of them (`WordsSplit`). So
  `GlobWords`, by induction over the pattern's words, each literal or a lone star,
  turns a glob of joined words into positions in the command: each literal word
  stands at one, and next to the next (`Placed`).
  `EntryShape` says what words an entry has, so that `EntryRunsMatched` finds the
  head and the tail in every command an entry runs: the allow matches it. For a
  guard that matches it too, `StandingTogether` and `EndingTogether` show that the
  rules collide, or contradict each other. Hypotheses: words are not empty and
  have no spaces, those of rules and options no stars (`Token`, `OptionToken` and
  the minimum lengths in `sources.py`); and again that no rule is about a wrapper or
  an assignment, which `_terminal_allowlist` does not look for: under an allow of
  `sudo` Cursor runs a denied `ls` behind it.
* `CoveredDecidesNothing`: `Spec => []CoverKeepsDecisions`: on Claude and OpenCode a
  command meets one of a bucket's patterns exactly if it meets one of those that
  `glob_variants` made for the bucket's rules, before `_uncovered` dropped what a
  wider one covers; the docstring of `bucket_patterns` claims this. `_uncovered`
  matches one glob against the text of another. `GlobComposes` shows that this is
  sound (laying is transitive), `Topmost` that of finitely many patterns one is
  covered by none, so that what is dropped is covered by one that stays. A final
  hole needs more: it also matches nothing, on Claude only as the pattern's only
  hole, so the wider pattern might fail where the dropped one holds. `HoleCovered`
  shows that it then ends with a hole too, and `VariantsAreDroppable` that
  `glob_variants` puts the bare form beside each such pattern. This holds for any
  rules with or without tails and texts, over any characters; words are not
  empty and have no stars, and a text has more in it than one space (`Token`,
  `OptionToken`, `AssignmentToken`, `LiteralText`). That the model's texts, heads
  and prefixes have no two stars in a row is what `StemsJoin` carries along.
* `GuardsAreNeverLoosened`: `Spec => []GuardsDecide`: of a loaded policy no ask or
  deny that matches a command, with texts, behind an option, an assignment or
  a wrapper, is decided less strictly by Claude or OpenCode, fused heads included.
  `BareStands` turns a match into the place where the head ends. From there a pattern
  is laid over the command part by part (`GlobsJoin`): `HeadReaches` for the head, in
  place or over an option's hole, `TailReaches` for a gap and the tail, `TextReaches`
  for a text, which may lose its last space to the end of the command. So one of the
  rule's patterns suits (`BareReaches`), with the prefix for what stands before
  (`EntryReaches`), or suits what the tool peels off itself (`Seen`). `HitIs`, from
  the core of `CoveredDecidesNothing`, brings the match over to what is left of the
  bucket (`ForceIsHit`), and `ClaudeRules` and `OpenCodeRules` tell each tool's order
  as one (`Ruled`), for OpenCode also that a list's last match and a second look for
  denies come to the same. Same hypotheses, and commands have at least one word.
* `ClaudeAgrees`, `OpenCodeAgrees`: `Spec => []ClaudeKeepsPolicy` and
  `Spec => []OpenCodeKeepsPolicy`: of a loaded policy both tools decide every command
  exactly as the policy does, for any rules, vocabularies, wrappers, prefixes a tool
  peels, and commands; where a head is only begun in front of a text (`Fused`) nothing
  is claimed, as in the runs. One direction is `ForceIsHit`. For the other a glob that
  matches is read back: what it matches begins with what its stem matches
  (`GlobParts`), the stem's words stand at the beginning of the command, in place or
  behind an option (`HeadRead`, from `WordsBegin` and `ReadsAt`), what the tail and the
  text match stands behind (`TailRead`, `TextRead`), and what stands in front is the
  wrapper, with any arguments, or the assignment that the prefix is for (`LeadRead`).
  So the rule matches the command (`PatternRead`), or what the tool sees of it, and
  each bucket has a pattern that hits exactly if it has a rule in force
  (`HitIsForce`, `ForceIsHit`): `ToolsAgree`. The hypotheses are what the schema admits
  (`SchemaAdmits`: the ones above and finitely many of each), and no character of a
  command is a space: joined with a space in it, one word reads as two.
* `CodexGuardsAreKept`: `Spec => []CodexKeepsGuards`. `PatternMatches` tells word for
  word what a merged pattern matches; `GuardsAreSpelled` then goes from a matching
  rule to the spelling whose last word is the command's, which has the same stem,
  decision and justification, and back.

`NarrowingIsSound` and `RejectionsAreRealWithoutTexts` are for rules without text
predicates; for those with one the run `permissions` checks it.

`SyncTransaction_proofs`, for any number of processes, files and documents:

* `SyncTypeOK`: `Spec => []TypeOK`, with the phases of each process (`Phases`):
  what it has still to write is its plan's, what it has still to prune is not.
* `SyncOverlapSettles`: `Spec => []OverlapSettles`. `Undisturbed` is the
  strengthening: since a run started alone and nobody interfered, every process
  has the current plan, and what it has written, hashed or published stands
  (`Steady`), because no step of another takes away what is in place (`Keeps`).
* `SyncKeepsCustody`: `Spec => KeepsCustody`, the refinement: the initial state
  maps to `Custody`'s, and each step to one of its actions or a stutter
  (`WriteFileWorks`, `PruneWorks`, `WriteDocumentWorks` to `Work`,
  `WriteManifestVouches`, `WriteRecordVouches` to `Vouch`, the rest to `Turn` and
  `Others`). It needs two invariants. `Sheltered`: where an edit lies on a file
  that a process will write, prune or record, the file is touched, and the
  entries of tools in a candidate are those of the document, or touched.
  `Serial`: unless `raced`, the runs under way have one plan, what the compiler
  holds is known to a manifest or to one of them (`Known`), and what each has
  done stands (`Done`), because no step undoes it (`Honours`).

`FileAccess_proofs`, for any files, directories, patterns and bound:

* `AccessTypeOK`: `Spec => []TypeOK`, which includes that an accepted policy
  acknowledges exactly what its targets lose. The others follow from it in each
  state.
* `ClaudeAccessIsKept`, `CursorAccessIsKept`: the invariants of the run. Denied
  places are denied on both sides by the same patterns; the rest is a case split
  on what the policy owes, with `FoldIsStricter` for the fold and
  `ClaudeToolsAgree` for the pattern that edit and write share.
* `CodexDeniesDenied`: no spelling loses a denial. `AbsoluteReaches` shows that
  a home pattern written from the root still reaches what it reached, name by
  name (`FitsBehindHome`).
* `CodexAccessIsKept`: the invariant of the run. What the profile opens for writing
  is open in the policy (`CodexWritesOpen`), what it denies is denied
  (`CodexDeniesOnlyDenied`); respelling from the root adds nothing
  (`AbsoluteReachesOnly`). That a listed directory is opened with what lies below
  it, and as itself, needs `FilesAssumption`.
* `OpenCodeAccessIsKept`: the invariant of the run. `LastMatchDecides` turns
  "the last of the ordered rules that matches" into "the strictest group with a
  match"; `ShownIsHit` and `HitIsDeniedOrNamesake` say what the relative path of
  a file and the respelled pattern of a home directory still have to do with each
  other. The exemptions are those of the qualifications above.

`Skills_proofs`, for any names, sources, bundled files and tokens. The invariant is
`Accepted`: a run that is done rejected nothing, and nobody has edited since. The
three properties then follow in each state:

* `OneCopyOfEach`: `CopiesAre` and `FoundIs` list what is published and what an
  agent finds; a skill and a command of one name never both reach it
  (`NoCollision`), so what it finds is a singleton or empty.
* `ScriptsAreWhereFound`: the two places that compute the root of a skill agree.
* `SkillsAreServedAsAsked`: an accepted raw field shadows nothing (`OwnFields`),
  readers of a shared copy agree on the fields they both have (`MergedFields`),
  and only Codex rewrites a bundled file, so its files may win (`MergedFiles`).

`Unwrap_proofs`, for any commands, classes of words, rules, agents and grants, and any
number of layers:

* `PeelingEnds`: the code's worklist has no bound of its own. `Weight` counts the
  pieces of a command twice, less one where the head is bare; `RebuiltIsSmaller`
  maps the pieces that are left to those there were, one to one, so every step of
  `PeelOnce` leaves a lighter command, and what is reached at all is reached
  within `MaxPeels` steps (`ReachedInTime`).
* `SearchFinds` (a lemma): `wrapped` finds the command where `Introduces` says it is.
  By induction from the last word of the wrapper's own back to the first, with
  the number of arguments still to come; `ScanIs` is the recursion as an equation.
* `TransparentIsPeeled`: every step by which `passes` follows a command inwards is
  one of `PeelOnce`: the two walks do not part. It rests on the assumption that
  no wrapper's name reads as an assignment or a redirection (`NamesAssumption`),
  which the run evaluates for the real tables.
* `Reviewed`: the invariant of a review, `ReviewInv`. Nobody but the plugin changes the
  call, so agents and grants may change at any moment: what is decided is
  decided under the rules the call carries.
* `DenyHolds`, `AllowHolds`, `UnreadIsDenied`: the three properties of the run. Every
  layer but the typed one is a spelling (`LayersArePeeled`, by induction over the
  layers), and `passes` goes from layer to layer and nowhere else (`PassesLayers`,
  by induction over its steps).

Assumptions used are the named ASSUMEs of the modules, evaluated by every run.

Type invariants with a proof (`PortableOutput`, `PermissionLowering`,
`SyncTransaction`, `FileAccess`) are not checked again by the runs; those of
`NativeConfig` and `NestedConfig` are.

Only model-checked: liveness (`Converges`), which is outside the prover's reach,
and what the rules with a text predicate add to `RejectionsAreReal` (above).

## 5. Plan

Done: the two output halves, patches on nested documents, command rules and
their lowering, skills and commands, both halves together with several
processes and its abstract specification, the OpenCode plugin, the decisions on
tools and files. What is left:

1. Proofs: of `PermissionLowering`, that loading rejects no rule with a text that
   decides something.
2. The other source kinds on their way through resolution: agents and model
   policies, raw target files.

## 6. Not modelled

Rendering of front matter and settings, schema parsing, argument parsing, and
the capability tests, which drive the tools themselves: none keeps state or
interleaves with anything. Of the OpenCode plugin, the reasons it shows with a deny (`loadReasons`, `because`, `explain`,
the `execute.after` hook): they are read once at `setup` and change the words of
an answer, never the answer. The splitting of a command into words and the
globs of the plugin are told by constants and by whole words (`Peel`). Of the
policy: the decisions on MCP tools, secret names, Codex's built-in profiles and
what an agent is denied, each a list that is written entry by entry.

Three facts met on the way have no property. After a crash between a native file
and the manifest, entries that a patch's `extend` added stay unowned for good,
although `README.md:123` calls them owned with the generated ones
(`output/native.py:317`); and a field that only one reader of a shared skill has
reaches the other readers, although `targets/shared.py:39-40` wants such a skill
narrowed (`_merge` compares only keys both renderings have). And with an option
declared, Cursor runs `git -C push status` by an allow of `git status`, although
an ask of `git push` matches it, and `git -C status push` by an allow of
`git -C status` under an ask of `git status push`: `docs/targets/cursor.md:102-105`
wants an allow "whose option-hole heads can carry the guarded variant" to leave the
allowlist, but `_prefixes` and `_rides_options` (`targets/cursor.py:130-166`)
compare the words of the two rules only.
