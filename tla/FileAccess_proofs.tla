------------------------- MODULE FileAccess_proofs -------------------------
(***************************************************************************)
(* Proofs about FileAccess, for every home directory, file, session,       *)
(* listed directory, secret path and bound.                                *)
(***************************************************************************)
EXTENDS FileAccess, SequenceTheorems, TLAPS

-----------------------------------------------------------------------------
(* The policy people edit keeps its types.                                 *)

\* Deciding one more tool, or listing one more directory.
LEMMA EntryAdded ==
  ASSUME NEW fn, NEW key, NEW value, NEW K, NEW V,
         DOMAIN fn \subseteq K, Range(fn) \subseteq V, key \in K, value \in V
  PROVE  LET new == With(fn, key, value)
         IN DOMAIN new \subseteq K /\ Range(new) \subseteq V
BY DEF Range, With

\* Withdrawing an entry.
LEMMA EntryWithdrawn ==
  ASSUME NEW fn, NEW key, NEW K, NEW V, DOMAIN fn \subseteq K, Range(fn) \subseteq V
  PROVE  LET new == Restrict(fn, DOMAIN fn \ {key})
         IN DOMAIN new \subseteq K /\ Range(new) \subseteq V
BY DEF Range, Restrict

LEMMA InitTypeOK == Init => TypeOK
BY DEF Init, TypeOK, Range, Losses, Targets

LEMMA NextTypeOK == TypeOK /\ [Next]_vars => TypeOK'
<1> SUFFICES ASSUME TypeOK, [Next]_vars PROVE TypeOK'
  OBVIOUS
<1>1. ASSUME NEW t \in FileTools \cup WebTools, NEW d \in Decisions, Decide(t, d)
      PROVE  TypeOK'
  <2>1. DOMAIN tools' \subseteq FileTools \cup WebTools /\ Range(tools') \subseteq Decisions
    <3>1. tools' = With(tools, t, d)
      BY <1>1 DEF Decide
    <3>2. DOMAIN tools \subseteq FileTools \cup WebTools /\ Range(tools) \subseteq Decisions
      BY DEF TypeOK
    <3> QED BY <3>1, <3>2, EntryAdded, Zenon
  <2> QED BY <1>1, <2>1 DEF TypeOK, Decide
<1>2. ASSUME NEW directory \in Directories, NEW bucket \in Decisions, List(directory, bucket)
      PROVE  TypeOK'
  <2>1. DOMAIN workspace' \subseteq Directories /\ Range(workspace') \subseteq Decisions
    BY <1>2, EntryAdded DEF TypeOK, List
  <2> QED BY <1>2, <2>1 DEF TypeOK, List
<1>3. ASSUME NEW p \in SecretPaths, Hide(p) PROVE TypeOK'
  BY <1>3 DEF TypeOK, Hide
<1>4. CASE Withdraw
  <2>1. DOMAIN tools' \subseteq FileTools \cup WebTools /\ Range(tools') \subseteq Decisions
    BY <1>4, EntryWithdrawn DEF TypeOK, Withdraw
  <2>2. DOMAIN workspace' \subseteq Directories /\ Range(workspace') \subseteq Decisions
    BY <1>4, EntryWithdrawn DEF TypeOK, Withdraw
  <2>3. secrets' \subseteq SecretPaths
    BY <1>4 DEF TypeOK, Withdraw
  <2> QED BY <1>4, <2>1, <2>2, <2>3 DEF TypeOK, Withdraw
<1>5. ASSUME NEW target \in Targets, NEW losses \in SUBSET Listable[target],
             Acknowledge(target, losses)
      PROVE  TypeOK'
  <2>1. losses \in SUBSET Losses
    BY ListableAssumption
  <2> QED BY <1>5, <2>1 DEF TypeOK, Acknowledge
<1>6. CASE Sync
  <2>1. Required' = Required
    BY <1>6 DEF Sync, Required, In
  <2> QED BY <1>6, <2>1 DEF TypeOK, Sync
<1>7. CASE UNCHANGED vars
  <2>1. Required' = Required
    BY <1>7 DEF vars, Required, In
  <2> QED BY <1>7, <2>1 DEF TypeOK, vars
<1> QED BY <1>1, <1>2, <1>3, <1>4, <1>5, <1>6, <1>7 DEF Next

(* The policy keeps its types, and a run accepts exactly the policies      *)
(* whose losses are acknowledged (omissions in ir.py).                     *)
THEOREM AccessTypeOK == Spec => []TypeOK
BY InitTypeOK, NextTypeOK, PTL DEF Spec

-----------------------------------------------------------------------------
(* The fold of edit and write.                                             *)

\* The strictest of some decisions is one of them, and none is stricter.
LEMMA StrictestIsStrictest ==
  ASSUME NEW ds, ds \subseteq Decisions, ds # {}
  PROVE  /\ Strictest(ds) \in ds
         /\ \A d \in ds : Strictness[Strictest(ds)] >= Strictness[d]
<1>1. \E d \in ds : \A e \in ds : Strictness[d] >= Strictness[e]
  <2>1. CASE "deny" \in ds
    BY <2>1 DEF Decisions, Strictness
  <2>2. CASE "deny" \notin ds /\ "ask" \in ds
    BY <2>2 DEF Decisions, Strictness
  <2>3. CASE "deny" \notin ds /\ "ask" \notin ds
    <3>1. "allow" \in ds /\ \A e \in ds : e = "allow"
      BY <2>3 DEF Decisions
    <3> QED BY <3>1 DEF Strictness
  <2> QED BY <2>1, <2>2, <2>3
<1> QED BY <1>1, Zenon DEF Strictest

\* The fold decides the same tools, none more loosely, edit and write alike,
\* and allows what is decided by one of them or by both.
LEMMA FoldIsStricter ==
  ASSUME TypeOK
  PROVE  /\ DOMAIN Folded = DOMAIN tools
         /\ \A t \in DOMAIN tools : /\ tools[t] \in Decisions
                                    /\ Folded[t] \in Decisions
                                    /\ Strictness[Folded[t]] >= Strictness[tools[t]]
         /\ {"edit", "write"} \subseteq DOMAIN tools => Folded["edit"] = Folded["write"]
<1> DEFINE both == {"edit", "write"} \cap DOMAIN tools
           ds == {tools[u] : u \in both}
<1>1. \A t \in DOMAIN tools : tools[t] \in Decisions
  BY DEF TypeOK, Range
<1>2. Folded = [t \in DOMAIN tools |-> IF t \in both THEN Strictest(ds) ELSE tools[t]]
  BY DEF Folded
<1>3. \A d \in Decisions : Strictness[d] >= Strictness[d]
  BY DEF Decisions, Strictness
<1>4. ASSUME NEW t \in both
      PROVE  Strictest(ds) \in Decisions /\ Strictness[Strictest(ds)] >= Strictness[tools[t]]
  <2>1. ds \subseteq Decisions /\ tools[t] \in ds
    BY <1>1
  <2> HIDE DEF ds
  <2> QED BY <2>1, StrictestIsStrictest
<1> HIDE DEF ds
<1>5. \A t \in DOMAIN tools : Folded[t] \in Decisions /\ Strictness[Folded[t]] >= Strictness[tools[t]]
  <2> SUFFICES ASSUME NEW t \in DOMAIN tools
               PROVE  Folded[t] \in Decisions /\ Strictness[Folded[t]] >= Strictness[tools[t]]
    OBVIOUS
  <2>1. CASE t \in both
    BY <2>1, <1>2, <1>4
  <2>2. CASE t \notin both
    BY <2>2, <1>1, <1>2, <1>3
  <2> QED BY <2>1, <2>2
<1>6. DOMAIN Folded = DOMAIN tools
  BY <1>2
<1>7. {"edit", "write"} \subseteq DOMAIN tools => Folded["edit"] = Folded["write"]
  BY <1>2
<1> QED BY <1>1, <1>5, <1>6, <1>7

-----------------------------------------------------------------------------
(* What an accepted policy gets from Cursor.                               *)

\* Every decision has a strictness, and a place always has a decision.
LEMMA Strict ==
  /\ Strictness["allow"] = 0 /\ Strictness["ask"] = 1 /\ Strictness["deny"] = 2
  /\ \A d \in Decisions : Strictness[d] \in 0..2
BY DEF Strictness, Decisions

LEMMA PlaceIsDecision ==
  ASSUME TypeOK, NEW f, NEW s, NEW lost
  PROVE  Place(f, s, lost) \in Decisions
BY DEF Place, Decisions, TypeOK

\* What is open is neither hidden nor below a denied directory.
LEMMA OpenIsNotDenied ==
  ASSUME NEW t, NEW f, NEW s, Open(t, f, s)
  PROVE  \A p \in DeniedPaths : ~Reaches(p, f)
<1>1. ~Hidden(f) /\ ~Lies(f, "deny")
  BY DEF Open, Place
<1> QED BY <1>1 DEF DeniedPaths, Hidden, Lies

LEMMA CursorAccess ==
  ASSUME TypeOK
  PROVE  CursorKeepsAccess
<1> SUFFICES ASSUME status = "done" PROVE CursorKeepsAccess
  BY DEF CursorKeepsAccess
<1>1. omit["cursor"] = Required["cursor"]
  BY DEF TypeOK
<1>2. "tools" \notin omit["cursor"] => \A t \in DOMAIN tools : tools[t] = "allow" /\ t \notin WebTools
  BY <1>1 DEF Required
<1>3. "workspace" \notin omit["cursor"] => DOMAIN workspace = {} /\ unmatched = "ask"
  BY <1>1 DEF Required
<1>4. \A t : OwedTool("cursor", t) = 0
  BY <1>2, Strict DEF OwedTool
<1>5. \A t \in FileTools, f \in Files, s \in Sessions : Given("cursor", t, f, s) \in 0..2
  BY Strict DEF Given, Decides, CursorDecides
<1>6. WebKept("cursor")
  BY <1>4, Strict DEF WebKept, DecidesWeb
<1>7. ASSUME NEW t \in FileTools, NEW f \in Files, NEW s \in Sessions,
             IsPrefix(Home, s), IsPrefix(Home, f), t # "read" \/ Hidden(f)
      PROVE  Given("cursor", t, f, s) >= OwedPlace("cursor", f, s)
  <2>1. OwedPlace("cursor", f, s) \in 0..2
    BY PlaceIsDecision, Strict DEF OwedPlace
  <2>2. CASE Hidden(f)
    <3>1. PICK p \in secrets : Reaches(p, f)
      BY <2>2 DEF Hidden
    <3>2. p \in Ignored
      BY PatternAssumption DEF Ignored, DeniedPaths, TypeOK, SecretPath, Patterns
    <3>3. Given("cursor", t, f, s) = 2
      BY <1>7, <3>1, <3>2, Strict DEF Given, Decides, CursorDecides
    <3> QED BY <2>1, <3>3
  <2>3. CASE ~Hidden(f) /\ "workspace" \in omit["cursor"]
    <3>1. OwedPlace("cursor", f, s) = 0
      BY <2>3, Strict DEF OwedPlace, Place
    <3> QED BY <1>5, <3>1
  <2>4. CASE ~Hidden(f) /\ "workspace" \notin omit["cursor"]
    <3>1. \A bucket : ~Lies(f, bucket)
      BY <2>4, <1>3 DEF Lies, In
    <3>2. OwedPlace("cursor", f, s) = IF Inside(f, s) THEN 0 ELSE 1
      BY <2>4, <1>3, <3>1, Strict DEF OwedPlace, Place
    <3>3. t # "read"
      BY <1>7, <2>4
    <3>4. ~Inside(f, s) => Given("cursor", t, f, s) \in 1..2
      BY <3>3, Strict DEF Given, Decides, CursorDecides
    <3> QED BY <1>5, <3>2, <3>4
  <2> QED BY <2>2, <2>3, <2>4
<1>8. ASSUME NEW t \in FileTools, NEW f \in Files, NEW s \in Sessions,
             Open(t, f, s), t = "read" \/ Inside(f, s)
      PROVE  Given("cursor", t, f, s) = 0
  <2>1. \A p \in Ignored : ~Reaches(p, f)
    BY <1>8, OpenIsNotDenied DEF Ignored
  <2> QED BY <1>8, <2>1, Strict DEF Given, Decides, CursorDecides
<1> QED BY <1>4, <1>5, <1>6, <1>7, <1>8 DEF CursorKeepsAccess

(* Cursor keeps what the policy says, up to what it acknowledges.          *)
THEOREM CursorAccessIsKept == Spec => []CursorKeepsAccess
<1>1. TypeOK => CursorKeepsAccess
  BY CursorAccess
<1> QED BY <1>1, AccessTypeOK, PTL

-----------------------------------------------------------------------------
(* What an accepted policy gets from Claude.                               *)

\* A tool the fold decides is decided so by the pattern it shares.
LEMMA ClaudeToolDecided ==
  ASSUME TypeOK, NEW t \in DOMAIN tools
  PROVE  Pattern(t) \in ClaudeTools(Folded[t])
BY FoldIsStricter DEF ClaudeTools

\* A pattern carries one decision, since the fold decides edit and write alike.
LEMMA ClaudeToolsAgree ==
  ASSUME TypeOK, NEW t \in DOMAIN tools, NEW d, Pattern(t) \in ClaudeTools(d)
  PROVE  d = Folded[t]
<1>1. PICK u \in DOMAIN tools : Folded[u] = d /\ Pattern(u) = Pattern(t)
  BY FoldIsStricter DEF ClaudeTools
<1>2. u = t \/ {u, t} = {"edit", "write"}
  BY <1>1 DEF Pattern
<1> QED BY <1>1, <1>2, FoldIsStricter

\* Nothing needs to be acknowledged, so the policy is owed as it is.
LEMMA ClaudeOwed ==
  ASSUME TypeOK, status = "done"
  PROVE  omit["claude"] = {}
BY DEF TypeOK, Required

\* No place is laxer on Claude than in the policy.
LEMMA ClaudeKeepsPlace ==
  ASSUME TypeOK, status = "done", NEW t \in FileTools, NEW f \in Files, NEW s \in Sessions
  PROVE  Given("claude", t, f, s) >= OwedPlace("claude", f, s)
<1> DEFINE place == Place(f, s, {})
           decision == ClaudeDecides(t, f, s)
<1>1. OwedPlace("claude", f, s) = Strictness[place] /\ Given("claude", t, f, s) = Strictness[decision]
  BY ClaudeOwed DEF OwedPlace, Given, Decides
<1>2. decision \in Decisions /\ place \in Decisions
  BY PlaceIsDecision DEF ClaudeDecides, Decisions
<1>3. CASE Denied(f)
  <2>1. \E p \in DeniedPaths : Reaches(p, f)
    BY <1>3 DEF Denied, Hidden, Lies, DeniedPaths
  <2>2. decision = "deny"
    BY <2>1 DEF ClaudeDecides
  <2> HIDE DEF decision, place
  <2> QED BY <1>1, <1>2, <2>2, Strict
<1>4. CASE ~Denied(f) /\ place = "allow"
  <2> HIDE DEF decision, place
  <2> QED BY <1>1, <1>2, <1>4, Strict
<1>5. CASE ~Denied(f) /\ place # "allow"
  <2>1. ~Inside(f, s) /\ place = "ask" /\ (Lies(f, "ask") \/ (~Lies(f, "allow") /\ unmatched = "ask"))
    BY <1>5 DEF Place, Denied, TypeOK
  <2>2. CASE Lies(f, "ask")
    <3>1. decision \in {"ask", "deny"}
      BY <2>2 DEF ClaudeDecides
    <3> HIDE DEF decision, place
    <3> QED BY <1>1, <2>1, <3>1, Strict
  <2>3. CASE ~Lies(f, "allow") /\ unmatched = "ask"
    <3>1. \A p \in ClaudeAllows(Pattern(t)) : ~Reaches(p, f)
      BY <2>3 DEF ClaudeAllows, Lies
    <3>2. \A d \in AdditionalDirectories : ~Reaches(Below(d), f)
      BY <2>3 DEF AdditionalDirectories, Lies
    <3>3. decision \in {"ask", "deny"}
      BY <2>1, <3>1, <3>2 DEF ClaudeDecides
    <3> HIDE DEF decision, place
    <3> QED BY <1>1, <2>1, <3>3, Strict
  <2> QED BY <2>1, <2>2, <2>3
<1> QED BY <1>3, <1>4, <1>5

\* No tool is laxer on Claude than in the policy where its patterns reach.
LEMMA ClaudeKeepsTool ==
  ASSUME TypeOK, status = "done", NEW t \in FileTools, NEW f \in Files, NEW s \in Sessions,
         Inside(f, s)
  PROVE  Given("claude", t, f, s) >= OwedTool("claude", t)
<1> DEFINE decision == ClaudeDecides(t, f, s)
<1>1. Given("claude", t, f, s) = Strictness[decision] /\ decision \in Decisions
  BY DEF Given, Decides, ClaudeDecides, Decisions
<1>2. CASE t \notin DOMAIN tools
  <2>1. OwedTool("claude", t) = 0
    BY <1>2, Strict DEF OwedTool
  <2> HIDE DEF decision
  <2> QED BY <1>1, <2>1, Strict
<1>3. CASE t \in DOMAIN tools
  <2>1. OwedTool("claude", t) = Strictness[tools[t]]
    BY <1>3, ClaudeOwed DEF OwedTool
  <2>2. /\ Strictness[Folded[t]] >= Strictness[tools[t]] /\ tools[t] \in Decisions
        /\ Folded[t] \in Decisions
    BY <1>3, FoldIsStricter
  <2>9. OwedTool("claude", t) \in 0..2 /\ Strictness[Folded[t]] >= OwedTool("claude", t)
    BY <2>1, <2>2, Strict
  <2>3. CASE Folded[t] = "deny"
    <3>1. decision = "deny"
      BY <1>3, <2>3, ClaudeToolDecided DEF ClaudeDecides
    <3>2. Given("claude", t, f, s) = 2
      BY <1>1, <3>1, Strict
    <3> QED BY <2>9, <3>2
  <2>4. CASE Folded[t] = "ask"
    <3>1. decision \in {"ask", "deny"}
      BY <1>3, <2>4, ClaudeToolDecided DEF ClaudeDecides
    <3>2. Given("claude", t, f, s) \in 1..2
      <4> HIDE DEF decision
      <4> QED BY <1>1, <3>1, Strict
    <3>3. Strictness[Folded[t]] = 1
      BY <2>4, Strict
    <3> QED BY <2>9, <3>2, <3>3
  <2>5. CASE Folded[t] = "allow"
    <3> HIDE DEF decision
    <3> QED BY <1>1, <2>1, <2>2, <2>5, Strict
  <2> QED BY <2>2, <2>3, <2>4, <2>5 DEF Decisions
<1> QED BY <1>2, <1>3

\* The rule for everything reaches every file.
LEMMA RootReachesAll ==
  ASSUME NEW f \in Files
  PROVE  Reaches([anchor |-> "root", names |-> <<>>, below |-> TRUE], f)
<1>1. f \in Seq(Names) /\ f # <<>>
  BY PathAssumption
<1>2. Len(f) > 0
  BY <1>1
<1>3. Fits(<<>>, SubSeq(f, 1, 0))
  BY <1>1 DEF Fits
<1> QED BY <1>2, <1>3 DEF Reaches, Covers

\* What the policy opens and no fold narrows runs unasked.
LEMMA ClaudeOpens ==
  ASSUME TypeOK, NEW t \in FileTools, NEW f \in Files, NEW s \in Sessions,
         Open(t, f, s), Folded[t] = "allow", Plain,
         IF Inside(f, s) THEN ~Lies(f, "ask") ELSE t # "write" \/ "edit" \in DOMAIN tools
  PROVE  ClaudeDecides(t, f, s) = "allow"
<1>1. t \in DOMAIN tools /\ \A p \in DeniedPaths : ~Reaches(p, f)
  BY OpenIsNotDenied DEF Open
<1>2. /\ Pattern(t) \in ClaudeTools("allow")
      /\ Pattern(t) \notin ClaudeTools("deny") /\ Pattern(t) \notin ClaudeTools("ask")
  BY <1>1, ClaudeToolDecided, ClaudeToolsAgree
<1>3. CASE Inside(f, s)
  BY <1>1, <1>2, <1>3 DEF ClaudeDecides
<1>4. CASE ~Inside(f, s)
  <2>1. ~Lies(f, "ask") /\ (Lies(f, "allow") \/ unmatched = "allow")
    BY <1>4 DEF Open, Place
  <2>2. CASE t = "read"
    <3>1. Pattern(t) = "read"
      BY <2>2 DEF Pattern
    <3>2. CASE unmatched = "allow"
      <4>1. [anchor |-> "root", names |-> <<>>, below |-> TRUE] \in ClaudeAllows("read")
        BY <1>1, <2>2, <3>2, FoldIsStricter DEF ClaudeAllows
      <4>2. \E p \in ClaudeAllows("read") : Reaches(p, f)
        BY <4>1, RootReachesAll
      <4> QED BY <1>1, <1>4, <2>1, <3>1, <4>2 DEF ClaudeDecides
    <3>3. CASE Lies(f, "allow")
      <4>1. \E d \in AdditionalDirectories : Reaches(Below(d), f)
        BY <3>3 DEF AdditionalDirectories, Lies, Plain, In
      <4> QED BY <1>1, <1>4, <2>1, <3>1, <4>1 DEF ClaudeDecides
    <3> QED BY <2>1, <3>2, <3>3
  <2>3. CASE t # "read"
    <3>1. Pattern(t) = "edit" /\ "edit" \in DOMAIN tools
      BY <1>1, <1>4, <2>3 DEF Pattern, FileTools
    <3>2. Folded["edit"] = "allow" /\ "edit" \in DOMAIN Folded
      BY <1>1, <2>3, <3>1, FoldIsStricter DEF FileTools
    <3>3. \E p \in ClaudeAllows("edit") : Reaches(p, f)
      BY <2>1, <3>2, RootReachesAll DEF ClaudeAllows, Lies
    <3> QED BY <1>1, <1>4, <2>1, <3>1, <3>3 DEF ClaudeDecides
  <2> QED BY <2>2, <2>3
<1> QED BY <1>3, <1>4

(* Claude keeps what the policy says, and asks for nothing it opens.       *)
THEOREM ClaudeAccessIsKept == Spec => []ClaudeKeepsAccess
<1>1. TypeOK => ClaudeKeepsAccess
  <2> SUFFICES ASSUME TypeOK, status = "done" PROVE ClaudeKeepsAccess
    BY DEF ClaudeKeepsAccess
  <2>1. WebKept("claude")
    <3> SUFFICES ASSUME NEW t \in WebTools \cap DOMAIN tools
                 PROVE  Strictness[tools[t]] >= OwedTool("claude", t)
      BY DEF WebKept, DecidesWeb
    <3>1. tools[t] \in Decisions /\ OwedTool("claude", t) = Strictness[tools[t]]
      BY FoldIsStricter, ClaudeOwed DEF OwedTool
    <3> QED BY <3>1, Strict
  <2>2. ASSUME NEW t \in FileTools, NEW f \in Files, NEW s \in Sessions,
               ClaudeDecides(t, f, s) = "allow"
        PROVE  Given("claude", t, f, s) = 0
    BY <2>2, Strict DEF Given, Decides
  <2> QED BY <2>1, <2>2, ClaudeKeepsPlace, ClaudeKeepsTool, ClaudeOpens DEF ClaudeKeepsAccess
<1> QED BY <1>1, AccessTypeOK, PTL

-----------------------------------------------------------------------------
(* What an accepted policy gets from OpenCode.                             *)

\* A file in a directory has a longer path, which starts as the directory's.
LEMMA InsideIsLonger ==
  ASSUME NEW f \in Seq(Names), NEW s \in Sessions, Inside(f, s)
  PROVE  s \in Seq(Names) /\ Len(s) \in Nat /\ Len(s) < Len(f)
<1>1. s \in Seq(Names) /\ Len(s) \in Nat /\ Len(f) \in Nat
  BY PathAssumption, LenProperties
<1>2. Len(s) <= Len(f) /\ SubSeq(s, 1, Len(s)) = SubSeq(f, 1, Len(s)) /\ s # f
  BY DEF Inside, IsStrictPrefix, IsPrefix
<1>3. SubSeq(s, 1, Len(s)) = s /\ SubSeq(f, 1, Len(f)) = f
  BY <1>1, SubSeqFull
<1> QED BY <1>1, <1>2, <1>3

\* The rest of a path.
LEMMA FromPath ==
  ASSUME NEW f \in Seq(Names), NEW k \in 0..Len(f)
  PROVE  /\ From(f, k + 1) \in Seq(Names) /\ Len(From(f, k + 1)) = Len(f) - k
         /\ \A i \in 1..Len(f) - k : From(f, k + 1)[i] = f[k + i]
<1>1. Len(f) \in Nat /\ \A i \in 1..Len(f) : f[i] \in Names
  BY LenProperties
<1>2. /\ k + 1 \in Int /\ Len(f) \in Int /\ Len(f) - (k + 1) + 1 = Len(f) - k
      /\ (IF k + 1 <= Len(f) THEN Len(f) - (k + 1) + 1 ELSE 0) = Len(f) - k
      /\ \A i \in 1..Len(f) - k : k + 1 + i - 1 = k + i
  BY <1>1
<1>3. \A i \in k + 1..Len(f) : f[i] \in Names
  BY <1>1
<1>4. /\ SubSeq(f, k + 1, Len(f)) \in Seq(Names)
      /\ Len(SubSeq(f, k + 1, Len(f))) = IF k + 1 <= Len(f) THEN Len(f) - (k + 1) + 1 ELSE 0
      /\ \A i \in 1..Len(f) - (k + 1) + 1 : SubSeq(f, k + 1, Len(f))[i] = f[k + 1 + i - 1]
  <2> DEFINE m == k + 1
             n == Len(f)
  <2>1. m \in Int /\ n \in Int /\ \A i \in m..n : f[i] \in Names
    BY <1>2, <1>3
  <2> HIDE DEF m, n
  <2>2. /\ SubSeq(f, m, n) \in Seq(Names)
        /\ Len(SubSeq(f, m, n)) = IF m <= n THEN n - m + 1 ELSE 0
        /\ \A i \in 1..n - m + 1 : SubSeq(f, m, n)[i] = f[m + i - 1]
    BY <2>1, SubSeqProperties
  <2> QED BY <2>2, Zenon DEF m, n
<1>5. From(f, k + 1) = SubSeq(f, k + 1, Len(f))
  BY DEF From
<1>6. \A i \in 1..Len(f) - k : SubSeq(f, k + 1, Len(f))[i] = f[k + i]
  <2> SUFFICES ASSUME NEW i \in 1..Len(f) - k PROVE SubSeq(f, k + 1, Len(f))[i] = f[k + i]
    OBVIOUS
  <2>1. i \in 1..Len(f) - (k + 1) + 1 /\ k + 1 + i - 1 = k + i
    BY <1>2
  <2>2. SubSeq(f, k + 1, Len(f))[i] = f[k + 1 + i - 1]
    BY <1>4, <2>1, Zenon
  <2> QED BY <2>1, <2>2, Zenon
<1> QED BY <1>2, <1>4, <1>5, <1>6, Zenon

\* The rest of the rest of a path.
LEMMA FromFrom ==
  ASSUME NEW f \in Seq(Names), NEW a \in 0..Len(f), NEW b \in 0..Len(f) - a
  PROVE  From(From(f, a + 1), b + 1) = From(f, a + b + 1)
<1> DEFINE g == From(f, a + 1)
<1>1. Len(f) \in Nat
  BY LenProperties
<1>2. g \in Seq(Names) /\ Len(g) = Len(f) - a /\ \A i \in 1..Len(f) - a : g[i] = f[a + i]
  BY FromPath
<1> HIDE DEF g
<1>3. /\ a + b \in 0..Len(f) /\ b \in 0..Len(g) /\ Len(g) - b = Len(f) - (a + b)
      /\ a \in Nat /\ b \in Nat
  BY <1>1, <1>2
<1>4. /\ From(f, a + b + 1) \in Seq(Names) /\ Len(From(f, a + b + 1)) = Len(f) - (a + b)
      /\ \A i \in 1..Len(f) - (a + b) : From(f, a + b + 1)[i] = f[a + b + i]
  <2> DEFINE k == a + b
  <2>1. k \in 0..Len(f) /\ k = a + b
    BY <1>3
  <2> HIDE DEF k
  <2>2. /\ From(f, k + 1) \in Seq(Names) /\ Len(From(f, k + 1)) = Len(f) - k
        /\ \A i \in 1..Len(f) - k : From(f, k + 1)[i] = f[k + i]
    BY <2>1, FromPath
  <2> QED BY <2>1, <2>2
<1>5. /\ From(g, b + 1) \in Seq(Names) /\ Len(From(g, b + 1)) = Len(g) - b
      /\ \A i \in 1..Len(g) - b : From(g, b + 1)[i] = g[b + i]
  BY <1>2, <1>3, FromPath
<1>6. \A i \in 1..Len(f) - (a + b) : From(g, b + 1)[i] = From(f, a + b + 1)[i]
  <2> SUFFICES ASSUME NEW i \in 1..Len(f) - (a + b)
               PROVE  From(g, b + 1)[i] = From(f, a + b + 1)[i]
    OBVIOUS
  <2>1. b + i \in 1..Len(f) - a /\ a + (b + i) = a + b + i
    BY <1>1, <1>3
  <2>2. g[b + i] = f[a + (b + i)]
    BY <1>2, <2>1
  <2> QED BY <1>3, <1>4, <1>5, <2>1, <2>2
<1>7. From(g, b + 1) = From(f, a + b + 1)
  BY <1>3, <1>4, <1>5, <1>6, SeqEqual
<1> QED BY <1>7 DEF g

\* Whether a pattern covers a path says nothing of its anchor.
LEMMA CoversAnywhere ==
  ASSUME NEW p \in Patterns({"anywhere", "home", "root"}, BOOLEAN), NEW a, NEW path
  PROVE  Covers([p EXCEPT !.anchor = a], path) <=> Covers(p, path)
<1> DEFINE q == [p EXCEPT !.anchor = a]
<1>1. q.below = p.below /\ q.names = p.names
  BY DEF Patterns
<1> QED BY <1>1 DEF Covers

\* The pattern for everything matches every file.
LEMMA EverythingMatches ==
  ASSUME NEW f \in Files, NEW s \in Sessions
  PROVE  OpenCodeMatches(Everything, f, s)
<1>1. f \in Seq(Names) /\ Len(f) \in Nat /\ Len(f) > 0
  <2>1. f \in Seq(Names) /\ f # <<>>
    BY PathAssumption
  <2> QED BY <2>1
<1>2. \A path : Len(path) = 0 => Covers(Everything, path)
  BY DEF Covers, Everything, Fits
<1>3. CASE ~Inside(f, s)
  <2>1. Len(f) \in 0..Len(f) /\ Len(f) - Len(f) = 0
    BY <1>1
  <2>2. Len(From(f, Len(f) + 1)) = 0
    BY <1>1, <2>1, FromPath
  <2> QED BY <1>2, <1>3, <2>1, <2>2 DEF OpenCodeMatches, Reaches, Everything
<1>4. CASE Inside(f, s)
  <2> DEFINE relative == From(f, Len(s) + 1)
  <2>1. s \in Seq(Names) /\ Len(s) \in Nat /\ Len(s) < Len(f)
    BY <1>1, <1>4, InsideIsLonger
  <2>2. relative \in Seq(Names) /\ Len(relative) = Len(f) - Len(s)
    BY <1>1, <2>1, FromPath
  <2> HIDE DEF relative
  <2>3. Len(relative) \in 1..Len(relative) /\ Len(relative) - Len(relative) = 0
    BY <1>1, <2>1, <2>2
  <2>4. Len(From(relative, Len(relative) + 1)) = 0
    BY <2>2, <2>3, FromPath
  <2> QED BY <1>2, <1>4, <2>3, <2>4 DEF OpenCodeMatches, Everything, relative
<1> QED BY <1>3, <1>4

\* The rules of a list that match a file.
Hits(rules, f, s) ==
  {i \in DOMAIN rules : \E p \in rules[i].paths : OpenCodeMatches(p, f, s)}

\* The last match decides, and nothing after it matches.
LEMMA LastMatchDecides ==
  ASSUME NEW rules, NEW default, NEW f, NEW s, NEW i \in Hits(rules, f, s),
         \A j \in Hits(rules, f, s) : j \in Int /\ j <= i, i \in Int
  PROVE  LastMatch(rules, default, f, s) = rules[i].effect
<1> DEFINE matching == Hits(rules, f, s)
<1>1. i \in matching /\ matching # {} /\ \A y \in matching : i >= y
  OBVIOUS
<1>2. \A x \in matching : (\A y \in matching : x >= y) => x = i
  OBVIOUS
<1> HIDE DEF matching
<1>3. Max(matching) = i
  BY <1>1, <1>2 DEF Max
<1> QED BY <1>1, <1>3 DEF LastMatch, Hits, matching

LEMMA NoMatch ==
  ASSUME NEW rules, NEW default, NEW f, NEW s, Hits(rules, f, s) = {}
  PROVE  LastMatch(rules, default, f, s) = default
BY DEF LastMatch, Hits

-----------------------------------------------------------------------------
(* The two lists of rules.                                                 *)

DenialPaths == UNION {OpenCodePaths(p) : p \in DeniedPaths}

Hit(paths, f, s) == \E p \in paths : OpenCodeMatches(p, f, s)

\* A rule before others.
LEMMA Prepended ==
  ASSUME NEW S, NEW rule \in S, NEW rules \in Seq(S)
  PROVE  /\ DOMAIN (<<rule>> \o rules) = 1..Len(rules) + 1
         /\ (<<rule>> \o rules)[1] = rule
         /\ \A i \in 1..Len(rules) : (<<rule>> \o rules)[i + 1] = rules[i]
<1> DEFINE one == <<rule>>
<1>1. one \in Seq(S) /\ Len(one) = 1 /\ one[1] = rule /\ Len(rules) \in Nat
  OBVIOUS
<1> HIDE DEF one
<1>2. /\ one \o rules \in Seq(S) /\ Len(one \o rules) = Len(rules) + 1
      /\ \A i \in 1..Len(rules) + 1 :
           (one \o rules)[i] = IF i <= 1 THEN one[i] ELSE rules[i - 1]
  <2>1. /\ one \o rules \in Seq(S) /\ Len(one \o rules) = Len(one) + Len(rules)
        /\ \A i \in 1..Len(one) + Len(rules) :
             (one \o rules)[i] = IF i <= Len(one) THEN one[i] ELSE rules[i - Len(one)]
    BY <1>1, ConcatProperties
  <2>2. Len(one) + Len(rules) = Len(rules) + 1
    BY <1>1
  <2> QED BY <1>1, <2>1, <2>2
<1>3. DOMAIN (one \o rules) = 1..Len(one \o rules)
  BY <1>2, LenProperties
<1>4. \A i \in 1..Len(rules) : (one \o rules)[i + 1] = rules[i]
  <2> SUFFICES ASSUME NEW i \in 1..Len(rules) PROVE (one \o rules)[i + 1] = rules[i]
    OBVIOUS
  <2>1. i + 1 \in 1..Len(rules) + 1 /\ ~(i + 1 <= 1) /\ i + 1 - 1 = i
    BY <1>1
  <2> QED BY <1>2, <2>1
<1>5. (one \o rules)[1] = rule
  BY <1>1, <1>2
<1> QED BY <1>2, <1>3, <1>4, <1>5 DEF one

\* A denied path denies; else what the fold decides for the action.
LEMMA ToolRulesDecide ==
  ASSUME TypeOK, NEW action, NEW f \in Files, NEW s \in Sessions
  PROVE  LastMatch(ToolRules(action), "allow", f, s) =
           IF Hit(DenialPaths, f, s) THEN "deny"
           ELSE IF action \in DOMAIN Folded THEN Folded[action] ELSE "allow"
<1> DEFINE rules == ToolRules(action)
           denial == [effect |-> "deny", paths |-> DenialPaths]
           decided == [effect |-> Folded[action], paths |-> {Everything}]
<1>1. OpenCodeMatches(Everything, f, s)
  BY EverythingMatches
<1>2. CASE action \in DOMAIN Folded
  <2>1. rules = <<decided>> \o <<denial>>
    BY <1>2 DEF ToolRules, DenialPaths
  <2>2. DOMAIN rules = 1..2 /\ rules[1] = decided /\ rules[2] = denial
    <3> HIDE DEF rules, decided, denial
    <3>1. <<denial>> \in Seq({decided, denial}) /\ Len(<<denial>>) = 1 /\ <<denial>>[1] = denial
      OBVIOUS
    <3>2. /\ DOMAIN rules = 1..Len(<<denial>>) + 1 /\ rules[1] = decided
          /\ \A i \in 1..Len(<<denial>>) : rules[i + 1] = <<denial>>[i]
      BY <2>1, <3>1, Prepended
    <3>3. 1 \in 1..1 /\ 1 + 1 = 2
      OBVIOUS
    <3>4. rules[1 + 1] = <<denial>>[1]
      BY <3>1, <3>2, <3>3, Zenon
    <3> QED BY <3>1, <3>2, <3>4
  <2> HIDE DEF rules
  <2>3. 1 \in Hits(rules, f, s) /\ (2 \in Hits(rules, f, s) <=> Hit(DenialPaths, f, s))
        /\ Hits(rules, f, s) \subseteq {1, 2}
    BY <1>1, <2>2 DEF Hits, Hit
  <2>4. CASE Hit(DenialPaths, f, s)
    <3>1. 2 \in Hits(rules, f, s) /\ 2 \in Int
          /\ \A j \in Hits(rules, f, s) : j \in Int /\ j <= 2
      BY <2>3, <2>4
    <3>2. LastMatch(rules, "allow", f, s) = rules[2].effect
      BY <3>1, LastMatchDecides
    <3> QED BY <2>2, <2>4, <3>2 DEF rules
  <2>5. CASE ~Hit(DenialPaths, f, s)
    <3>1. 1 \in Hits(rules, f, s) /\ 1 \in Int
          /\ \A j \in Hits(rules, f, s) : j \in Int /\ j <= 1
      BY <2>3, <2>5
    <3>2. LastMatch(rules, "allow", f, s) = rules[1].effect
      BY <3>1, LastMatchDecides
    <3> QED BY <1>2, <2>2, <2>5, <3>2 DEF rules
  <2> QED BY <2>4, <2>5
<1>3. CASE action \notin DOMAIN Folded
  <2>1. rules = <<denial>>
    <3>1. rules = <<>> \o <<denial>>
      BY <1>3 DEF ToolRules, DenialPaths
    <3>2. <<denial>> \in Seq({denial})
      OBVIOUS
    <3> HIDE DEF rules, denial
    <3> QED BY <3>1, <3>2, ConcatEmptySeq
  <2>2. DOMAIN rules = 1..1 /\ rules[1] = denial
    BY <2>1
  <2> HIDE DEF rules
  <2>3. (1 \in Hits(rules, f, s) <=> Hit(DenialPaths, f, s)) /\ Hits(rules, f, s) \subseteq {1}
    BY <2>2 DEF Hits, Hit
  <2>4. CASE Hit(DenialPaths, f, s)
    <3>1. 1 \in Hits(rules, f, s) /\ 1 \in Int
          /\ \A j \in Hits(rules, f, s) : j \in Int /\ j <= 1
      BY <2>3, <2>4
    <3>2. LastMatch(rules, "allow", f, s) = rules[1].effect
      BY <3>1, LastMatchDecides
    <3> QED BY <2>2, <2>4, <3>2 DEF rules
  <2>5. CASE ~Hit(DenialPaths, f, s)
    <3>1. Hits(rules, f, s) = {}
      BY <2>3, <2>5
    <3>2. LastMatch(rules, "allow", f, s) = "allow"
      BY <3>1, NoMatch
    <3> QED BY <1>3, <2>5, <3>2 DEF rules
  <2> QED BY <2>4, <2>5
<1> QED BY <1>2, <1>3

\* A directory's rule matches the files below it, from outside.
LEMMA DirectoryMatches ==
  ASSUME TypeOK, NEW f, NEW s, ~Inside(f, s), NEW bucket
  PROVE  Hit({Below(d) : d \in In(bucket)}, f, s) <=> Lies(f, bucket)
<1>1. \A d \in In(bucket) : Below(d).anchor # "session"
  BY PatternAssumption DEF In, TypeOK, Directory, Patterns, Below
<1> QED BY <1>1 DEF Hit, Lies, OpenCodeMatches

\* Outside the session the strictest bucket a file lies in decides, then the
\* decision for all other directories.
LEMMA ExternalRulesDecide ==
  ASSUME TypeOK, NEW f \in Files, NEW s \in Sessions, ~Inside(f, s)
  PROVE  LastMatch(ExternalRules, "ask", f, s) =
           IF Lies(f, "deny") THEN "deny" ELSE IF Lies(f, "ask") THEN "ask"
           ELSE IF Lies(f, "allow") THEN "allow" ELSE unmatched
<1> DEFINE rules == ExternalRules
           of(bucket) == [effect |-> bucket, paths |-> {Below(d) : d \in In(bucket)}]
           n == IF unmatched = "ask" THEN 0 ELSE 1
<1>1. n \in {0, 1}
  OBVIOUS
<1>2. /\ DOMAIN rules = 1..n + 3
      /\ rules[n + 1] = of("allow") /\ rules[n + 2] = of("ask") /\ rules[n + 3] = of("deny")
      /\ n = 1 => rules[1] = [effect |-> unmatched, paths |-> {Everything}]
  <2> DEFINE buckets == <<"allow", "ask", "deny">>
             lists == [i \in 1..3 |-> of(buckets[i])]
             first == [effect |-> unmatched, paths |-> {Everything}]
             S == {first, of("allow"), of("ask"), of("deny")}
  <2>1. /\ lists \in Seq(S) /\ Len(lists) = 3
        /\ lists[1] = of("allow") /\ lists[2] = of("ask") /\ lists[3] = of("deny")
    <3>1. buckets[1] = "allow" /\ buckets[2] = "ask" /\ buckets[3] = "deny"
      OBVIOUS
    <3> HIDE DEF of, buckets, first
    <3>2. lists[1] = of("allow") /\ lists[2] = of("ask") /\ lists[3] = of("deny")
      BY <3>1
    <3>3. lists \in [1..3 -> S]
      <4> SUFFICES ASSUME NEW i \in 1..3 PROVE of(buckets[i]) \in S
        OBVIOUS
      <4>1. i = 1 \/ i = 2 \/ i = 3
        OBVIOUS
      <4> QED BY <3>1, <4>1
    <3> HIDE DEF lists, S
    <3>4. lists \in Seq(S) /\ Len(lists) = 3
      <4> DEFINE three == <<lists[1], lists[2], lists[3]>>
      <4>1. three \in Seq(S) /\ Len(three) = 3 /\ three \in [1..3 -> S]
        BY <3>3
      <4>2. \A i \in 1..3 : three[i] = lists[i]
        <5>1. \A i \in 1..3 : i = 1 \/ i = 2 \/ i = 3
          OBVIOUS
        <5>2. three[1] = lists[1] /\ three[2] = lists[2] /\ three[3] = lists[3]
          OBVIOUS
        <5> QED BY <5>1, <5>2
      <4> HIDE DEF three
      <4>3. three = lists
        BY <3>3, <4>1, <4>2
      <4> QED BY <4>1, <4>3
    <3> QED BY <3>2, <3>4
  <2>2. CASE unmatched = "ask"
    <3>1. rules = <<>> \o lists
      BY <2>2 DEF ExternalRules
    <3> HIDE DEF rules, lists, of, S
    <3>2. rules = lists
      BY <2>1, <3>1, ConcatEmptySeq
    <3>3. DOMAIN lists = 1..3
      BY <2>1, LenProperties
    <3> QED BY <2>1, <2>2, <3>2, <3>3
  <2>3. CASE unmatched # "ask"
    <3>1. rules = <<first>> \o lists
      BY <2>3 DEF ExternalRules
    <3>2. first \in S
      OBVIOUS
    <3> HIDE DEF rules, lists, of, first, S
    <3>3. /\ DOMAIN rules = 1..Len(lists) + 1 /\ rules[1] = first
          /\ \A i \in 1..Len(lists) : rules[i + 1] = lists[i]
      BY <2>1, <3>1, <3>2, Prepended
    <3>4. rules[1 + 1] = lists[1] /\ rules[2 + 1] = lists[2] /\ rules[3 + 1] = lists[3]
      BY <2>1, <3>3
    <3> QED BY <2>1, <2>3, <3>3, <3>4 DEF first
  <2> QED BY <2>2, <2>3
<1>3. OpenCodeMatches(Everything, f, s)
  BY EverythingMatches
<1>4. \A bucket : Hit({Below(d) : d \in In(bucket)}, f, s) <=> Lies(f, bucket)
  BY DirectoryMatches
<1> HIDE DEF rules, n
<1>5. /\ Hits(rules, f, s) \subseteq 1..n + 3
      /\ n + 1 \in Hits(rules, f, s) <=> Lies(f, "allow")
      /\ n + 2 \in Hits(rules, f, s) <=> Lies(f, "ask")
      /\ n + 3 \in Hits(rules, f, s) <=> Lies(f, "deny")
      /\ n = 1 => 1 \in Hits(rules, f, s)
  <2>1. \A k \in 1..n + 3 : k \in Hits(rules, f, s) <=> Hit(rules[k].paths, f, s)
    BY <1>2 DEF Hits, Hit
  <2>2. n + 1 \in 1..n + 3 /\ n + 2 \in 1..n + 3 /\ n + 3 \in 1..n + 3 /\ 1 \in 1..n + 3
    BY <1>1
  <2>3. n = 1 => Hit(rules[1].paths, f, s)
    BY <1>2, <1>3 DEF Hit
  <2>4. Hits(rules, f, s) \subseteq 1..n + 3
    BY <1>2 DEF Hits
  <2> QED BY <1>2, <1>4, <2>1, <2>2, <2>3, <2>4
<1> DEFINE hits == Hits(rules, f, s)
           result == LastMatch(rules, "ask", f, s)
<1>6. ASSUME NEW k \in hits, \A j \in hits : j <= k
      PROVE  result = rules[k].effect
  <2>1. k \in Int /\ \A j \in hits : j \in Int
    BY <1>1, <1>5
  <2> QED BY <1>6, <2>1, LastMatchDecides
<1>7. hits = {} => result = "ask"
  BY NoMatch
<1>8. n = 0 => unmatched = "ask"
  BY DEF n
<1> HIDE DEF hits, result
<1>9. /\ hits \subseteq 1..n + 3
      /\ n + 1 \in hits <=> Lies(f, "allow")
      /\ n + 2 \in hits <=> Lies(f, "ask")
      /\ n + 3 \in hits <=> Lies(f, "deny")
      /\ n = 1 => 1 \in hits
  BY <1>5 DEF hits
<1>10. CASE Lies(f, "deny")
  <2>1. result = rules[n + 3].effect
    BY <1>1, <1>6, <1>9, <1>10
  <2> QED BY <1>2, <1>10, <2>1 DEF result, rules
<1>11. CASE ~Lies(f, "deny") /\ Lies(f, "ask")
  <2>1. result = rules[n + 2].effect
    BY <1>1, <1>6, <1>9, <1>11
  <2> QED BY <1>2, <1>11, <2>1 DEF result, rules
<1>12. CASE ~Lies(f, "deny") /\ ~Lies(f, "ask") /\ Lies(f, "allow")
  <2>1. result = rules[n + 1].effect
    BY <1>1, <1>6, <1>9, <1>12
  <2> QED BY <1>2, <1>12, <2>1 DEF result, rules
<1>13. CASE ~Lies(f, "deny") /\ ~Lies(f, "ask") /\ ~Lies(f, "allow")
  <2>1. CASE n = 1
    <3>1. result = rules[1].effect
      BY <1>6, <1>9, <1>13, <2>1
    <3> QED BY <1>2, <1>13, <2>1, <3>1 DEF result, rules
  <2>2. CASE n = 0
    <3>1. hits = {}
      BY <1>9, <1>13, <2>2
    <3> QED BY <1>7, <1>8, <1>13, <2>2, <3>1 DEF result, rules
  <2> QED BY <1>1, <2>1, <2>2
<1> QED BY <1>10, <1>11, <1>12, <1>13

-----------------------------------------------------------------------------
(* What the rules for tools reach.                                         *)

PathPatterns == Patterns({"anywhere", "home", "root"}, BOOLEAN)

LEMMA DeniedPathTypes ==
  ASSUME TypeOK
  PROVE  DeniedPaths \subseteq PathPatterns
<1>1. secrets \subseteq PathPatterns
  BY PatternAssumption DEF PathPatterns, TypeOK, SecretPath, Patterns
<1>2. ASSUME NEW d \in In("deny") PROVE Below(d) \in PathPatterns
  <2>1. d \in Directory
    BY PatternAssumption DEF TypeOK, In
  <2> QED BY <2>1 DEF PathPatterns, Below, Directory, Patterns
<1> QED BY <1>1, <1>2 DEF DeniedPaths

\* The spellings of a pattern for any depth, and of one for the home directory.
LEMMA Respelled ==
  ASSUME NEW p \in PathPatterns
  PROVE  /\ p \in OpenCodePaths(p)
         /\ p.anchor = "anywhere" => [p EXCEPT !.anchor = "session"] \in OpenCodePaths(p)
         /\ p.anchor = "home" => /\ [p EXCEPT !.anchor = "session"] \in OpenCodePaths(p)
                                 /\ [p EXCEPT !.anchor = "anywhere"] \in OpenCodePaths(p)
         /\ \A a : [p EXCEPT !.anchor = a].anchor = a
         /\ p.anchor = "anywhere" => [p EXCEPT !.anchor = "anywhere"] = p
BY DEF OpenCodePaths, PathPatterns, Patterns

\* A covered rest of a path inside the session is matched by one of the two
\* spellings that are anchored where relative paths are.
LEMMA RestIsMatched ==
  ASSUME NEW p \in PathPatterns, NEW f \in Files, NEW s \in Sessions, Inside(f, s),
         NEW i \in Len(s)..Len(f), Covers(p, From(f, i + 1)),
         [p EXCEPT !.anchor = "session"] \in OpenCodePaths(p),
         [p EXCEPT !.anchor = "anywhere"] \in OpenCodePaths(p)
  PROVE  Hit(OpenCodePaths(p), f, s)
<1> DEFINE relative == From(f, Len(s) + 1)
           here == [p EXCEPT !.anchor = "session"]
           deep == [p EXCEPT !.anchor = "anywhere"]
<1>1. f \in Seq(Names) /\ s \in Seq(Names) /\ Len(s) \in Nat /\ Len(f) \in Nat /\ Len(s) < Len(f)
  BY PathAssumption, InsideIsLonger, LenProperties
<1>2. Len(relative) = Len(f) - Len(s)
  <2>1. Len(s) \in 0..Len(f)
    BY <1>1
  <2> QED BY <1>1, <2>1, FromPath
<1>3. here.anchor = "session" /\ deep.anchor = "anywhere"
  BY Respelled
<1>4. \A path : (Covers(here, path) <=> Covers(p, path)) /\ (Covers(deep, path) <=> Covers(p, path))
  BY CoversAnywhere DEF PathPatterns
<1>5. CASE i = Len(s)
  <2>1. Covers(here, relative)
    BY <1>4, <1>5
  <2>2. OpenCodeMatches(here, f, s)
    BY <1>3, <2>1 DEF OpenCodeMatches
  <2> QED BY <2>2 DEF Hit
<1>6. CASE i > Len(s)
  <2> DEFINE k == i - Len(s)
  <2>1. k \in 1..Len(relative) /\ k \in 0..Len(f) - Len(s) /\ Len(s) \in 0..Len(f) /\ Len(s) + k = i
    BY <1>1, <1>2, <1>6
  <2> HIDE DEF k
  <2>2. From(relative, k + 1) = From(f, i + 1)
    BY <1>1, <2>1, FromFrom
  <2>3. Covers(deep, From(relative, k + 1))
    BY <1>4, <2>2
  <2> HIDE DEF deep, here
  <2>4. OpenCodeMatches(deep, f, s)
    BY <1>3, <2>1, <2>3 DEF OpenCodeMatches
  <2> QED BY <2>4 DEF Hit, deep
<1> QED BY <1>1, <1>5, <1>6

\* A denied path whose names a session still shows denies.
LEMMA ShownIsHit ==
  ASSUME TypeOK, NEW p \in DeniedPaths, NEW f \in Files, NEW s \in Sessions,
         Reaches(p, f), Shown(p, f, s)
  PROVE  Hit(DenialPaths, f, s)
<1>1. p \in PathPatterns
  BY DeniedPathTypes
<1> SUFFICES Hit(OpenCodePaths(p), f, s)
  BY DEF Hit, DenialPaths
<1>2. CASE ~Inside(f, s)
  <2>1. OpenCodeMatches(p, f, s)
    BY <1>1, <1>2 DEF OpenCodeMatches, PathPatterns, Patterns
  <2> QED BY <1>1, <2>1, Respelled DEF Hit
<1>3. CASE Inside(f, s) /\ p.anchor = "anywhere" /\ \E i \in Len(s)..Len(f) : Covers(p, From(f, i + 1))
  <2>1. PICK i \in Len(s)..Len(f) : Covers(p, From(f, i + 1))
    BY <1>3
  <2>2. [p EXCEPT !.anchor = "session"] \in OpenCodePaths(p)
        /\ [p EXCEPT !.anchor = "anywhere"] \in OpenCodePaths(p)
    BY <1>1, <1>3, Respelled
  <2> QED BY <1>1, <1>3, <2>1, <2>2, RestIsMatched
<1>4. CASE Inside(f, s) /\ p.anchor = "home" /\ IsPrefix(s, Home)
  <2> DEFINE i == Len(Home)
  <2>1. IsPrefix(Home, f) /\ Covers(p, From(f, i + 1))
    BY <1>4 DEF Reaches
  <2>2. i \in Len(s)..Len(f)
    <3>1. Len(s) \in Nat /\ Len(Home) \in Nat /\ Len(f) \in Nat
      BY PathAssumption, LenProperties
    <3> QED BY <1>4, <2>1, <3>1 DEF IsPrefix
  <2>3. [p EXCEPT !.anchor = "session"] \in OpenCodePaths(p)
        /\ [p EXCEPT !.anchor = "anywhere"] \in OpenCodePaths(p)
    BY <1>1, <1>4, Respelled
  <2> HIDE DEF i
  <2> QED BY <1>1, <1>4, <2>1, <2>2, <2>3, RestIsMatched
<1> QED BY <1>2, <1>3, <1>4 DEF Shown

\* What a denial hits is denied, or a namesake of what is.
LEMMA HitIsDeniedOrNamesake ==
  ASSUME TypeOK, NEW f \in Files, NEW s \in Sessions, Hit(DenialPaths, f, s)
  PROVE  Namesake(f) \/ \E p \in DeniedPaths : Reaches(p, f)
<1>1. PICK p \in DeniedPaths : \E q \in OpenCodePaths(p) : OpenCodeMatches(q, f, s)
  BY DEF Hit, DenialPaths
<1>2. p \in PathPatterns
  BY DeniedPathTypes
<1>0. PICK q \in OpenCodePaths(p) : OpenCodeMatches(q, f, s)
  BY <1>1
<1> DEFINE deep == [p EXCEPT !.anchor = "anywhere"]
<1>3. deep.anchor = "anywhere" /\ (Reaches(deep, f) => Namesake(f))
  BY <1>2, Respelled DEF Namesake
<1>4. \A path : Covers(q, path) <=> Covers(deep, path)
  BY <1>0, <1>2, CoversAnywhere DEF OpenCodePaths, PathPatterns
<1>5. q = p \/ q = deep \/ q.anchor = "session"
  BY <1>0, <1>2, Respelled DEF OpenCodePaths
<1>6. CASE ~Inside(f, s)
  <2>1. q.anchor # "session" /\ Reaches(q, f)
    BY <1>0, <1>6 DEF OpenCodeMatches
  <2> HIDE DEF deep
  <2> QED BY <1>3, <1>5, <2>1
<1>7. CASE Inside(f, s)
  <2> DEFINE relative == From(f, Len(s) + 1)
  <2>1. f \in Seq(Names) /\ Len(s) \in Nat /\ Len(f) \in Nat /\ Len(s) < Len(f)
    BY <1>7, PathAssumption, InsideIsLonger, LenProperties
  <2>2. Len(relative) = Len(f) - Len(s)
    BY <2>1, FromPath
  <2>3. \/ Covers(q, relative)
        \/ \E i \in 1..Len(relative) : Covers(q, From(relative, i + 1))
    BY <1>0, <1>7 DEF OpenCodeMatches
  <2> HIDE DEF deep
  <2>4. \E i \in 0..Len(f) : Covers(deep, From(f, i + 1))
    <3>1. CASE Covers(q, relative)
      <4>1. Len(s) \in 0..Len(f) /\ Covers(deep, From(f, Len(s) + 1))
        BY <1>4, <2>1, <3>1
      <4> QED BY <4>1
    <3>2. ASSUME NEW i \in 1..Len(relative), Covers(q, From(relative, i + 1))
          PROVE  \E j \in 0..Len(f) : Covers(deep, From(f, j + 1))
      <4> DEFINE j == Len(s) + i
      <4>1. i \in 0..Len(f) - Len(s) /\ Len(s) \in 0..Len(f) /\ j \in 0..Len(f)
        BY <2>1, <2>2
      <4>2. From(relative, i + 1) = From(f, j + 1)
        BY <2>1, <4>1, FromFrom
      <4> HIDE DEF j, relative
      <4> QED BY <1>4, <3>2, <4>1, <4>2
    <3> QED BY <2>3, <3>1, <3>2
  <2> QED BY <1>3, <2>4 DEF Reaches
<1> QED BY <1>6, <1>7

-----------------------------------------------------------------------------
(* What OpenCode decides.                                                  *)

ToolSays(t, f, s) == LastMatch(ToolRules(Pattern(t)), "allow", f, s)
PlaceSays(f, s) == LastMatch(ExternalRules, "ask", f, s)

\* The tool and, outside the session, the place: the stricter of the two.
LEMMA OpenCodeIsStricter ==
  ASSUME TypeOK, NEW t \in FileTools, NEW f \in Files, NEW s \in Sessions
  PROVE  /\ ToolSays(t, f, s) \in Decisions
         /\ ~Inside(f, s) => PlaceSays(f, s) \in Decisions
         /\ Given("opencode", t, f, s) \in 0..2
         /\ Given("opencode", t, f, s) >= Strictness[ToolSays(t, f, s)]
         /\ ~Inside(f, s) => Given("opencode", t, f, s) >= Strictness[PlaceSays(f, s)]
         /\ ToolSays(t, f, s) = "allow" /\ (Inside(f, s) \/ PlaceSays(f, s) = "allow")
              => Given("opencode", t, f, s) = 0
<1> DEFINE ds == {ToolSays(t, f, s)} \cup (IF Inside(f, s) THEN {} ELSE {PlaceSays(f, s)})
<1>1. ToolSays(t, f, s) \in Decisions
  BY ToolRulesDecide, FoldIsStricter DEF ToolSays, Decisions
<1>2. ~Inside(f, s) => PlaceSays(f, s) \in Decisions
  BY ExternalRulesDecide DEF PlaceSays, Decisions, TypeOK
<1>3. Given("opencode", t, f, s) = Strictness[Strictest(ds)]
  BY DEF Given, Decides, OpenCodeDecides, ToolSays, PlaceSays
<1>4. ds \subseteq Decisions /\ ds # {} /\ ToolSays(t, f, s) \in ds
      /\ (~Inside(f, s) => PlaceSays(f, s) \in ds)
  BY <1>1, <1>2
<1>5. ToolSays(t, f, s) = "allow" /\ (Inside(f, s) \/ PlaceSays(f, s) = "allow") => ds = {"allow"}
  OBVIOUS
<1> HIDE DEF ds
<1>6. Strictest(ds) \in ds /\ \A d \in ds : Strictness[Strictest(ds)] >= Strictness[d]
  BY <1>4, StrictestIsStrictest
<1>7. Strictest(ds) \in Decisions
  BY <1>4, <1>6
<1>8. Strictness[Strictest(ds)] \in 0..2
  BY <1>7, Strict
<1>9. ds = {"allow"} => Strictness[Strictest(ds)] = 0
  BY <1>6, Strict
<1> QED BY <1>1, <1>2, <1>3, <1>4, <1>5, <1>6, <1>8, <1>9

LEMMA OpenCodeOwed ==
  ASSUME TypeOK, status = "done"
  PROVE  omit["opencode"] = {}
BY DEF TypeOK, Required

\* No place is laxer on OpenCode than in the policy.
LEMMA OpenCodeKeepsPlace ==
  ASSUME TypeOK, status = "done", NEW t \in FileTools, NEW f \in Files, NEW s \in Sessions,
         Denied(f) => \E p \in DeniedPaths : Reaches(p, f) /\ Shown(p, f, s)
  PROVE  Given("opencode", t, f, s) >= OwedPlace("opencode", f, s)
<1> DEFINE place == Place(f, s, {})
           given == Given("opencode", t, f, s)
<1>1. OwedPlace("opencode", f, s) = Strictness[place] /\ place \in Decisions
  BY OpenCodeOwed, PlaceIsDecision DEF OwedPlace
<1>2. /\ given \in 0..2 /\ given >= Strictness[ToolSays(t, f, s)]
      /\ ~Inside(f, s) => given >= Strictness[PlaceSays(f, s)]
  BY OpenCodeIsStricter
<1> HIDE DEF given
<1>3. CASE Denied(f)
  <2>1. Hit(DenialPaths, f, s)
    BY <1>3, ShownIsHit
  <2>2. ToolSays(t, f, s) = "deny"
    BY <2>1, ToolRulesDecide DEF ToolSays
  <2>3. given = 2
    BY <1>2, <2>2, Strict
  <2>4. Strictness[place] \in 0..2
    BY <1>1, Strict
  <2> QED BY <1>1, <2>3, <2>4 DEF given
<1>4. CASE ~Denied(f) /\ place = "allow"
  <2>1. Strictness[place] = 0
    BY <1>4, Strict
  <2> QED BY <1>1, <1>2, <2>1 DEF given
<1>5. CASE ~Denied(f) /\ place # "allow"
  <2>1. ~Inside(f, s) /\ place = "ask" /\ (Lies(f, "ask") \/ (~Lies(f, "allow") /\ unmatched = "ask"))
    BY <1>5 DEF Place, Denied, TypeOK
  <2>2. PlaceSays(f, s) \in {"ask", "deny"}
    BY <2>1, ExternalRulesDecide DEF PlaceSays
  <2>3. given >= 1
    BY <1>2, <2>1, <2>2, Strict
  <2>4. Strictness[place] = 1
    BY <2>1, Strict
  <2> QED BY <1>1, <2>3, <2>4 DEF given
<1> QED BY <1>3, <1>4, <1>5

\* No tool is laxer on OpenCode than in the policy, as edit decides for write.
LEMMA OpenCodeKeepsTool ==
  ASSUME TypeOK, status = "done", NEW t \in FileTools, NEW f \in Files, NEW s \in Sessions,
         t # "write" \/ "edit" \in DOMAIN tools
  PROVE  Given("opencode", t, f, s) >= OwedTool("opencode", t)
<1> DEFINE given == Given("opencode", t, f, s)
<1>1. given \in 0..2 /\ given >= Strictness[ToolSays(t, f, s)]
  BY OpenCodeIsStricter
<1> HIDE DEF given
<1>2. CASE t \notin DOMAIN tools
  <2>1. OwedTool("opencode", t) = 0
    BY <1>2, Strict DEF OwedTool
  <2> QED BY <1>1, <2>1 DEF given
<1>3. CASE t \in DOMAIN tools
  <2>1. OwedTool("opencode", t) = Strictness[tools[t]]
    BY <1>3, OpenCodeOwed DEF OwedTool
  <2>2. /\ Strictness[Folded[t]] >= Strictness[tools[t]]
        /\ tools[t] \in Decisions /\ Folded[t] \in Decisions
    BY <1>3, FoldIsStricter
  <2>3. Strictness[tools[t]] \in 0..2 /\ Strictness[Folded[t]] \in 0..2
    BY <2>2, Strict
  <2>4. Pattern(t) \in DOMAIN Folded /\ Folded[Pattern(t)] = Folded[t]
    BY <1>3, FoldIsStricter DEF Pattern
  <2>5. ToolSays(t, f, s) \in {"deny", Folded[t]}
    BY <2>4, ToolRulesDecide DEF ToolSays
  <2>6. CASE ToolSays(t, f, s) = "deny"
    <3>1. given >= 2
      BY <1>1, <2>6, Strict
    <3> QED BY <1>1, <2>1, <2>3, <3>1 DEF given
  <2>7. CASE ToolSays(t, f, s) = Folded[t]
    <3>1. given >= Strictness[Folded[t]]
      BY <1>1, <2>7
    <3> QED BY <1>1, <2>1, <2>2, <2>3, <3>1 DEF given
  <2> QED BY <2>5, <2>6, <2>7
<1> QED BY <1>2, <1>3

\* What the policy opens, no fold narrows and no namesake hides runs unasked.
LEMMA OpenCodeOpens ==
  ASSUME TypeOK, NEW t \in FileTools, NEW f \in Files, NEW s \in Sessions,
         Open(t, f, s), Folded[t] = "allow", ~Namesake(f)
  PROVE  Given("opencode", t, f, s) = 0
<1>1. ~Hit(DenialPaths, f, s)
  BY HitIsDeniedOrNamesake, OpenIsNotDenied
<1>2. Pattern(t) \in DOMAIN Folded => Folded[Pattern(t)] = "allow"
  BY FoldIsStricter DEF Pattern, Open
<1>3. ToolSays(t, f, s) = "allow"
  BY <1>1, <1>2, ToolRulesDecide DEF ToolSays
<1>4. ~Inside(f, s) => ~Lies(f, "deny") /\ ~Lies(f, "ask") /\ (Lies(f, "allow") \/ unmatched = "allow")
  BY DEF Open, Place
<1>5. ~Inside(f, s) => PlaceSays(f, s) = "allow"
  BY <1>4, ExternalRulesDecide DEF PlaceSays
<1> QED BY <1>3, <1>5, OpenCodeIsStricter

(* OpenCode keeps what the policy says where a session still shows the     *)
(* names of denied paths, and asks for nothing the policy opens            *)
(* (opencode_paths respells denied paths; the last match decides).         *)
THEOREM OpenCodeAccessIsKept == Spec => []OpenCodeKeepsAccess
<1>1. TypeOK => OpenCodeKeepsAccess
  <2> SUFFICES ASSUME TypeOK, status = "done" PROVE OpenCodeKeepsAccess
    BY DEF OpenCodeKeepsAccess
  <2>1. WebKept("opencode")
    <3> SUFFICES ASSUME NEW t \in WebTools \cap DOMAIN tools
                 PROVE  Strictness[tools[t]] >= OwedTool("opencode", t)
      BY DEF WebKept, DecidesWeb
    <3>1. tools[t] \in Decisions /\ OwedTool("opencode", t) = Strictness[tools[t]]
      BY FoldIsStricter, OpenCodeOwed DEF OwedTool
    <3> QED BY <3>1, Strict
  <2> QED BY <2>1, OpenCodeKeepsPlace, OpenCodeKeepsTool, OpenCodeOpens DEF OpenCodeKeepsAccess
<1> QED BY <1>1, AccessTypeOK, PTL

-----------------------------------------------------------------------------
(* What Codex denies.                                                      *)

\* A path below the home directory goes on where the home directory ends.
LEMMA BelowHome ==
  ASSUME NEW f \in Seq(Names), IsPrefix(Home, f), NEW rest, rest = From(f, Len(Home) + 1)
  PROVE  /\ rest \in Seq(Names) /\ Len(f) = Len(Home) + Len(rest)
         /\ \A i \in 1..Len(Home) : f[i] = Home[i]
         /\ \A i \in 1..Len(rest) : f[Len(Home) + i] = rest[i]
<1>1. /\ Home \in Seq(Names) /\ Len(Home) \in Nat /\ Len(f) \in Nat /\ Len(Home) <= Len(f)
      /\ SubSeq(Home, 1, Len(Home)) = SubSeq(f, 1, Len(Home))
      /\ \A i \in 1..Len(f) : f[i] \in Names
      /\ \A i \in 1..Len(Home) : Home[i] \in Names
  BY PathAssumption, LenProperties DEF IsPrefix
<1>2. \A i \in 1..Len(Home) : SubSeq(Home, 1, Len(Home))[i] = Home[i]
  BY <1>1, SubSeqProperties
<1>3. \A i \in 1..Len(Home) : SubSeq(f, 1, Len(Home))[i] = f[i]
  BY <1>1, SubSeqProperties
<1>4. /\ rest \in Seq(Names)
      /\ Len(rest) = Len(f) - Len(Home)
      /\ \A i \in 1..(Len(f) - Len(Home)) : rest[i] = f[Len(Home) + i]
  BY <1>1, SubSeqProperties DEF From
<1>5. \A i \in 1..Len(Home) : f[i] = Home[i]
  BY <1>1, <1>2, <1>3, Zenon
<1>6. Len(rest) \in Nat /\ Len(f) = Len(Home) + Len(rest) /\ Len(f) - Len(Home) = Len(rest)
  <2>1. Len(Home) \in Nat /\ Len(f) \in Nat /\ Len(Home) <= Len(f) /\ Len(rest) = Len(f) - Len(Home)
    BY <1>1, <1>4
  <2> QED BY <2>1
<1>7. \A i \in 1..Len(rest) : f[Len(Home) + i] = rest[i]
  BY <1>4, <1>6, Zenon
<1> QED BY <1>4, <1>5, <1>6, <1>7, Zenon

\* Names that fit what follows the home directory fit with it before them.
LEMMA FitsBehindHome ==
  ASSUME NEW names \in Seq(Names \cup {AnyName}), NEW path \in Seq(Names), NEW rest \in Seq(Names),
         Len(path) = Len(Home) + Len(rest),
         \A i \in 1..Len(Home) : path[i] = Home[i],
         \A i \in 1..Len(rest) : path[Len(Home) + i] = rest[i],
         Fits(names, rest)
  PROVE  Fits(Home \o names, path)
<1>1. Home \in Seq(Names \cup {AnyName})
  BY PathAssumption, SeqMonotonic
<1>2. /\ Home \o names \in Seq(Names \cup {AnyName})
      /\ Len(Home \o names) = Len(Home) + Len(names)
      /\ \A i \in 1..(Len(Home) + Len(names)) :
           (Home \o names)[i] = IF i <= Len(Home) THEN Home[i] ELSE names[i - Len(Home)]
  BY <1>1, ConcatProperties
<1>3. DOMAIN (Home \o names) = 1..Len(Home \o names) /\ DOMAIN names = 1..Len(names)
  BY <1>2, LenProperties
<1>4. Len(Home) \in Nat /\ Len(names) \in Nat
  BY <1>1, LenProperties
<1>5. Len(names) = Len(rest) /\ \A i \in 1..Len(names) : names[i] \in {AnyName, rest[i]}
  BY <1>3 DEF Fits
<1>6. ASSUME NEW i \in 1..(Len(Home) + Len(names))
      PROVE  (Home \o names)[i] \in {AnyName, path[i]}
  <2>1. CASE i <= Len(Home)
    BY <1>2, <1>4, <1>6, <2>1
  <2>2. CASE i > Len(Home)
    <3>1. i - Len(Home) \in 1..Len(names) /\ Len(Home) + (i - Len(Home)) = i
      BY <1>4, <1>6, <2>2
    <3>2. path[i] = rest[i - Len(Home)]
      BY <1>5, <3>1
    <3>3. (Home \o names)[i] = names[i - Len(Home)]
      BY <1>2, <1>4, <1>6, <2>2
    <3> QED BY <1>5, <3>1, <3>2, <3>3
  <2> QED BY <1>4, <2>1, <2>2
<1> QED BY <1>2, <1>3, <1>5, <1>6 DEF Fits

\* A pattern spelled from the root reaches what it reaches from the home.
LEMMA AbsoluteReaches ==
  ASSUME NEW p \in Patterns({"anywhere", "home", "root"}, BOOLEAN), NEW f \in Files, Reaches(p, f)
  PROVE  Reaches(Absolute(p), f)
<1>1. CASE p.anchor # "home"
  BY <1>1 DEF Absolute
<1>2. CASE p.anchor = "home"
  <2> DEFINE rest == From(f, Len(Home) + 1)
             n == Len(p.names)
  <2>1. IsPrefix(Home, f) /\ Covers(p, rest)
    BY <1>2 DEF Reaches
  <2>2. /\ rest \in Seq(Names) /\ Len(f) = Len(Home) + Len(rest)
        /\ \A i \in 1..Len(Home) : f[i] = Home[i]
        /\ \A i \in 1..Len(rest) : f[Len(Home) + i] = rest[i]
    BY <2>1, PathAssumption, BelowHome
  <2>3. /\ Absolute(p).anchor = "root" /\ Absolute(p).below = p.below
        /\ Absolute(p).names = Home \o p.names
    BY <1>2 DEF Absolute, Patterns
  <2>4. /\ Len(Home \o p.names) = Len(Home) + n /\ n \in Nat /\ Len(Home) \in Nat
        /\ Len(rest) \in Nat /\ p.names \in Seq(Names \cup {AnyName}) /\ f \in Seq(Names)
    BY <2>2, PathAssumption, SeqMonotonic, ConcatProperties, LenProperties DEF Patterns
  <2> HIDE DEF rest
  <2>5. CASE ~p.below
    <3>1. Fits(p.names, rest)
      BY <2>1, <2>5 DEF Covers
    <3>2. Fits(Home \o p.names, f)
      BY <2>2, <2>4, <3>1, FitsBehindHome
    <3> QED BY <2>3, <2>5, <3>2 DEF Reaches, Covers
  <2>6. CASE p.below
    <3>1. Len(rest) > n /\ Fits(p.names, SubSeq(rest, 1, n))
      BY <2>1, <2>6 DEF Covers
    <3>2. /\ SubSeq(rest, 1, n) \in Seq(Names) /\ Len(SubSeq(rest, 1, n)) = n
          /\ \A i \in 1..n : SubSeq(rest, 1, n)[i] = rest[i]
      <4>1. \A i \in 1..n : rest[i] \in Names
        BY <2>2, <2>4, <3>1, ElementOfSeq
      <4> QED BY <2>4, <4>1, SubSeqProperties
    <3>3. /\ SubSeq(f, 1, Len(Home) + n) \in Seq(Names)
          /\ Len(SubSeq(f, 1, Len(Home) + n)) = Len(Home) + n
          /\ \A i \in 1..(Len(Home) + n) : SubSeq(f, 1, Len(Home) + n)[i] = f[i]
      <4>1. \A i \in 1..(Len(Home) + n) : f[i] \in Names
        BY <2>2, <2>4, <3>1, ElementOfSeq
      <4> QED BY <2>4, <4>1, SubSeqProperties
    <3>4. \A i \in 1..n : f[Len(Home) + i] = SubSeq(rest, 1, n)[i]
      BY <2>2, <2>4, <3>1, <3>2
    <3>5. Fits(Home \o p.names, SubSeq(f, 1, Len(Home) + n))
      <4> DEFINE head == SubSeq(f, 1, Len(Home) + n)
                 tail == SubSeq(rest, 1, n)
      <4>1. \A i \in 1..Len(Home) : head[i] = Home[i]
        BY <2>2, <2>4, <3>3
      <4>2. \A i \in 1..n : head[Len(Home) + i] = tail[i]
        BY <2>4, <3>3, <3>4
      <4>3. /\ head \in Seq(Names) /\ tail \in Seq(Names) /\ Len(head) = Len(Home) + Len(tail)
            /\ Len(tail) = n /\ Fits(p.names, tail)
        BY <3>1, <3>2, <3>3
      <4> HIDE DEF head, tail
      <4>4. Fits(Home \o p.names, head)
        BY <2>4, <4>1, <4>2, <4>3, FitsBehindHome
      <4> QED BY <4>4 DEF head
    <3> QED BY <2>2, <2>3, <2>4, <2>6, <3>1, <3>5 DEF Reaches, Covers
  <2> QED BY <2>5, <2>6
<1> QED BY <1>1, <1>2

\* A denied file has a deny entry, however it is spelled.
LEMMA CodexDenies ==
  ASSUME TypeOK, NEW t, NEW f \in Files, NEW s, Denied(f)
  PROVE  CodexDecides(t, f, s) = "deny"
<1>1. ASSUME NEW p \in In("deny") \cup secrets
      PROVE  Absolute(p) \in DOMAIN Filesystem /\ Filesystem[Absolute(p)] = "deny"
  BY <1>1 DEF Filesystem
<1>2. CASE Hidden(f)
  <2>1. PICK p \in secrets : Reaches(p, f)
    BY <1>2 DEF Hidden
  <2>2. Reaches(Absolute(p), f)
    BY <2>1, AbsoluteReaches, PatternAssumption DEF TypeOK, SecretPath, Patterns
  <2> QED BY <1>1, <2>2 DEF Entry, CodexDecides
<1>3. CASE Lies(f, "deny")
  <2>1. PICK d \in In("deny") : Reaches(Below(d), f)
    BY <1>3 DEF Lies
  <2>2. d \in Directory
    BY PatternAssumption DEF TypeOK, In
  <2>3. Below(d) \in Patterns({"anywhere", "home", "root"}, BOOLEAN)
    BY <2>2 DEF Below, Directory, Patterns
  <2>4. Absolute(Below(d)) = Below(Absolute(d))
    BY <2>2 DEF Absolute, Below, Directory, Patterns
  <2>5. Reaches(Below(Absolute(d)), f)
    BY <2>1, <2>3, <2>4, AbsoluteReaches
  <2> QED BY <1>1, <2>5 DEF Entry, CodexDecides
<1> QED BY <1>2, <1>3 DEF Denied

(* Whatever else the policy opens, and wherever two spellings of a path    *)
(* meet, Codex denies each denied file (_permission_profile: "Deny entries *)
(* hold either way").                                                      *)
THEOREM CodexDeniesDenied ==
  Spec => [](\A t \in FileTools, f \in Files, s \in Sessions :
               Denied(f) => CodexDecides(t, f, s) = "deny")
<1>1. TypeOK => \A t \in FileTools, f \in Files, s \in Sessions :
                  Denied(f) => CodexDecides(t, f, s) = "deny"
  BY CodexDenies
<1> QED BY <1>1, AccessTypeOK, PTL

-----------------------------------------------------------------------------
(* What else Codex decides.                                                *)

\* What fits behind the home directory lies below it, and the rest fits.
LEMMA FitsFromHome ==
  ASSUME NEW names \in Seq(Names \cup {AnyName}), NEW path \in Seq(Names),
         Fits(Home \o names, path)
  PROVE  /\ Len(path) = Len(Home) + Len(names)
         /\ \A i \in 1..Len(Home) : path[i] = Home[i]
         /\ \A i \in 1..Len(names) : names[i] \in {AnyName, path[Len(Home) + i]}
<1>1. Home \in Seq(Names \cup {AnyName}) /\ Len(Home) \in Nat /\ Len(names) \in Nat
      /\ \A i \in 1..Len(Home) : Home[i] \in Names
  BY PathAssumption, SeqMonotonic, LenProperties
<1>2. /\ Home \o names \in Seq(Names \cup {AnyName})
      /\ Len(Home \o names) = Len(Home) + Len(names)
      /\ \A i \in 1..(Len(Home) + Len(names)) :
           (Home \o names)[i] = IF i <= Len(Home) THEN Home[i] ELSE names[i - Len(Home)]
  BY <1>1, ConcatProperties
<1> DEFINE whole == Home \o names
<1>3. whole \in Seq(Names \cup {AnyName}) /\ Len(whole) = Len(Home) + Len(names)
  BY <1>2
<1>4. DOMAIN whole = 1..Len(whole)
  <2> HIDE DEF whole
  <2> QED BY <1>3, LenProperties
<1>5. Len(whole) = Len(path) /\ \A i \in DOMAIN whole : whole[i] \in {AnyName, path[i]}
  BY DEF Fits
<1>6. ASSUME NEW i \in 1..Len(Home) PROVE path[i] = Home[i]
  <2>1. i \in 1..Len(Home) + Len(names) /\ i <= Len(Home)
    BY <1>1
  <2>2. whole[i] = Home[i] /\ i \in DOMAIN whole
    BY <1>2, <1>3, <1>4, <2>1
  <2>3. Home[i] # AnyName
    BY <1>1, PathAssumption
  <2> QED BY <1>5, <2>2, <2>3
<1>7. ASSUME NEW i \in 1..Len(names) PROVE names[i] \in {AnyName, path[Len(Home) + i]}
  <2> DEFINE k == Len(Home) + i
  <2>1. k \in 1..Len(Home) + Len(names) /\ ~(k <= Len(Home)) /\ k - Len(Home) = i
    BY <1>1
  <2> HIDE DEF k
  <2>2. whole[k] = names[i] /\ k \in DOMAIN whole
    BY <1>2, <1>3, <1>4, <2>1
  <2> QED BY <1>5, <2>2 DEF k
<1> QED BY <1>3, <1>5, <1>6, <1>7

\* A path that starts with the names of the home directory lies below it.
LEMMA StartsAtHome ==
  ASSUME NEW f \in Seq(Names), Len(Home) <= Len(f), \A i \in 1..Len(Home) : f[i] = Home[i]
  PROVE  IsPrefix(Home, f)
<1>1. Home \in Seq(Names) /\ Len(Home) \in Nat /\ Len(f) \in Nat
      /\ \A i \in 1..Len(Home) : Home[i] \in Names /\ f[i] \in Names
  BY PathAssumption, LenProperties
<1> DEFINE n == Len(Home)
<1>2. n \in Nat /\ 1 \in Int /\ n \in Int /\ (IF 1 <= n THEN n - 1 + 1 ELSE 0) = n /\ n - 1 + 1 = n
      /\ \A i \in 1..n : 1 + i - 1 = i
  BY <1>1
<1>3. \A i \in 1..n : Home[i] \in Names /\ f[i] \in Names /\ f[i] = Home[i]
  BY <1>1
<1> HIDE DEF n
<1>4. /\ SubSeq(Home, 1, n) \in Seq(Names) /\ Len(SubSeq(Home, 1, n)) = n
      /\ \A i \in 1..n : SubSeq(Home, 1, n)[i] = Home[i]
  BY <1>2, <1>3, SubSeqProperties
<1>5. /\ SubSeq(f, 1, n) \in Seq(Names) /\ Len(SubSeq(f, 1, n)) = n
      /\ \A i \in 1..n : SubSeq(f, 1, n)[i] = f[i]
  BY <1>2, <1>3, SubSeqProperties
<1>6. \A i \in 1..n : SubSeq(Home, 1, n)[i] = SubSeq(f, 1, n)[i]
  BY <1>3, <1>4, <1>5
<1>7. SubSeq(Home, 1, n) = SubSeq(f, 1, n)
  BY <1>4, <1>5, <1>6, SeqEqual
<1> QED BY <1>7 DEF IsPrefix, n

\* A pattern spelled from the root reaches no more than it does from the home.
LEMMA AbsoluteReachesOnly ==
  ASSUME NEW p \in PathPatterns, NEW f \in Files, Reaches(Absolute(p), f)
  PROVE  Reaches(p, f)
<1>1. CASE p.anchor # "home"
  BY <1>1 DEF Absolute
<1>2. CASE p.anchor = "home"
  <2> DEFINE n == Len(p.names)
             rest == From(f, Len(Home) + 1)
  <2>1. /\ Absolute(p).anchor = "root" /\ Absolute(p).below = p.below
        /\ Absolute(p).names = Home \o p.names
    BY <1>2 DEF Absolute, PathPatterns, Patterns
  <2>2. Covers(Absolute(p), f)
    BY <2>1 DEF Reaches
  <2>3. /\ Len(Home \o p.names) = Len(Home) + n /\ n \in Nat /\ Len(Home) \in Nat
        /\ p.names \in Seq(Names \cup {AnyName}) /\ f \in Seq(Names) /\ Len(f) \in Nat
        /\ p.below \in BOOLEAN /\ DOMAIN p.names = 1..n
    BY PathAssumption, SeqMonotonic, ConcatProperties, LenProperties DEF PathPatterns, Patterns
  <2>4. ASSUME IsPrefix(Home, f), Covers(p, rest) PROVE Reaches(p, f)
    BY <1>2, <2>4 DEF Reaches
  <2>5. CASE ~p.below
    <3>1. Fits(Home \o p.names, f)
      BY <2>1, <2>2, <2>5 DEF Covers
    <3>2. /\ Len(f) = Len(Home) + n /\ \A i \in 1..Len(Home) : f[i] = Home[i]
          /\ \A i \in 1..n : p.names[i] \in {AnyName, f[Len(Home) + i]}
      BY <2>3, <3>1, FitsFromHome
    <3>3. Len(Home) \in 0..Len(f) /\ Len(Home) <= Len(f) /\ Len(f) - Len(Home) = n
      BY <2>3, <3>2
    <3>4. IsPrefix(Home, f)
      BY <2>3, <3>2, <3>3, StartsAtHome
    <3>5. rest \in Seq(Names) /\ Len(rest) = Len(f) - Len(Home)
          /\ \A i \in 1..Len(f) - Len(Home) : rest[i] = f[Len(Home) + i]
      BY <2>3, <3>3, FromPath
    <3> HIDE DEF rest
    <3>6. Fits(p.names, rest)
      BY <2>3, <3>2, <3>3, <3>5 DEF Fits
    <3> QED BY <2>4, <2>5, <3>4, <3>6 DEF Covers
  <2>6. CASE p.below
    <3> DEFINE m == Len(Home) + n
               head == SubSeq(f, 1, m)
    <3>1. Len(f) > m /\ Fits(Home \o p.names, head)
      BY <2>1, <2>2, <2>3, <2>6 DEF Covers
    <3>2. m \in Nat /\ \A i \in 1..m : f[i] \in Names
      BY <2>3, <3>1, ElementOfSeq
    <3>3. head \in Seq(Names) /\ \A i \in 1..m : head[i] = f[i]
      <4>1. 1 \in Int /\ m \in Int /\ m - 1 + 1 = m /\ \A i \in 1..m : 1 + i - 1 = i
        BY <3>2
      <4> HIDE DEF m
      <4> QED BY <3>2, <4>1, SubSeqProperties
    <3> HIDE DEF head
    <3>4. /\ \A i \in 1..Len(Home) : head[i] = Home[i]
          /\ \A i \in 1..n : p.names[i] \in {AnyName, head[Len(Home) + i]}
      BY <2>3, <3>1, <3>3, FitsFromHome
    <3>5. \A i \in 1..Len(Home) : f[i] = Home[i]
      <4>1. \A i \in 1..Len(Home) : i \in 1..m
        BY <2>3
      <4> HIDE DEF m
      <4> QED BY <3>3, <3>4, <4>1
    <3>6. \A i \in 1..n : p.names[i] \in {AnyName, f[Len(Home) + i]}
      <4>1. \A i \in 1..n : Len(Home) + i \in 1..m
        BY <2>3
      <4> HIDE DEF m
      <4> QED BY <3>3, <3>4, <4>1
    <3>7. Len(Home) \in 0..Len(f) /\ Len(Home) <= Len(f) /\ Len(f) - Len(Home) > n
      BY <2>3, <3>1
    <3>8. IsPrefix(Home, f)
      BY <2>3, <3>5, <3>7, StartsAtHome
    <3>9. rest \in Seq(Names) /\ Len(rest) = Len(f) - Len(Home)
          /\ \A i \in 1..Len(f) - Len(Home) : rest[i] = f[Len(Home) + i]
      BY <2>3, <3>7, FromPath
    <3> HIDE DEF rest
    <3>10. \A i \in 1..n : rest[i] \in Names /\ rest[i] = f[Len(Home) + i]
      <4>1. \A i \in 1..n : i \in 1..Len(f) - Len(Home)
        BY <2>3, <3>7
      <4>2. \A i \in 1..n : rest[i] \in Names
        BY <3>9, <4>1, ElementOfSeq
      <4> QED BY <3>9, <4>1, <4>2
    <3>11. /\ Len(SubSeq(rest, 1, n)) = n /\ \A i \in 1..n : SubSeq(rest, 1, n)[i] = rest[i]
      <4>1. 1 \in Int /\ n \in Int /\ n - 1 + 1 = n /\ (\A i \in 1..n : 1 + i - 1 = i)
            /\ (IF 1 <= n THEN n - 1 + 1 ELSE 0) = n
        BY <2>3
      <4> HIDE DEF n
      <4> QED BY <3>10, <4>1, SubSeqProperties
    <3>12. Fits(p.names, SubSeq(rest, 1, n))
      BY <2>3, <3>6, <3>10, <3>11 DEF Fits
    <3>13. Len(rest) > n
      BY <3>7, <3>9
    <3> QED BY <2>4, <2>6, <3>8, <3>12, <3>13 DEF Covers
  <2> QED BY <2>3, <2>5, <2>6
<1> QED BY <1>1, <1>2

LEMMA CodexOwed ==
  ASSUME TypeOK, status = "done"
  PROVE  /\ omit["codex"] = Required["codex"] /\ "workspace" \notin omit["codex"]
         /\ "workspace.ask" \notin omit["codex"] => In("ask") = {}
         /\ "tools" \notin omit["codex"] =>
              \A t \in DOMAIN tools : tools[t] = "allow" \/ (t = "websearch" /\ tools[t] = "deny")
BY DEF TypeOK, Required

\* What a write entry reaches is open outside the session, since no file is a
\* listed directory itself.
LEMMA CodexWritesWhatIsOpen ==
  ASSUME TypeOK, NEW f \in Files, Entry("write", f)
  PROVE  unmatched = "allow" \/ Lies(f, "allow")
<1> SUFFICES ASSUME unmatched # "allow" PROVE Lies(f, "allow")
  OBVIOUS
<1>1. PICK e \in DOMAIN Filesystem : Filesystem[e] = "write" /\ (Reaches(e, f) \/ Reaches(Below(e), f))
  BY DEF Entry
<1>2. PICK d \in AdditionalDirectories : e = Absolute(d)
  BY <1>1 DEF Filesystem
<1>3. d \in Directory /\ d \in Directories /\ Literal(d) /\ d \in In("allow")
  BY <1>2, PatternAssumption DEF TypeOK, In, AdditionalDirectories
<1>4. d \in PathPatterns /\ Below(d) \in PathPatterns /\ Below(Absolute(d)) = Absolute(Below(d))
  BY <1>3 DEF PathPatterns, Directory, Patterns, Below, Absolute
<1>5. ~Reaches(e, f)
  BY <1>2, <1>3, <1>4, AbsoluteReachesOnly, FilesAssumption
<1>6. Reaches(Below(d), f)
  BY <1>1, <1>2, <1>4, <1>5, AbsoluteReachesOnly
<1> QED BY <1>3, <1>6 DEF Lies

\* Nothing else but what is denied has a deny entry, without stars.
LEMMA CodexDeniesOnlyDenied ==
  ASSUME TypeOK, NEW f \in Files, Plain, Entry("deny", f)
  PROVE  Denied(f)
<1>1. PICK e \in DOMAIN Filesystem : Filesystem[e] = "deny" /\ (Reaches(e, f) \/ Reaches(Below(e), f))
  BY DEF Entry
<1>2. PICK p \in In("deny") \cup secrets : e = Absolute(p)
  BY <1>1 DEF Filesystem
<1>3. CASE p \in secrets
  <2>1. p \in SecretPaths /\ p \in SecretPath
    BY <1>3, PatternAssumption DEF TypeOK
  <2>2. p \in PathPatterns /\ Below(p) \in PathPatterns /\ Below(Absolute(p)) = Absolute(Below(p))
    BY <2>1 DEF PathPatterns, SecretPath, Patterns, Below, Absolute
  <2>3. Reaches(p, f) \/ Reaches(Below(p), f)
    BY <1>1, <1>2, <2>2, AbsoluteReachesOnly
  <2>4. Reaches(p, f)
    BY <2>1, <2>3, FilesAssumption
  <2> QED BY <1>3, <2>4 DEF Denied, Hidden
<1>4. CASE p \in In("deny")
  <2>1. p \in Directory /\ p \in Directories /\ Literal(p)
    BY <1>4, PatternAssumption DEF TypeOK, In, Plain
  <2>2. p \in PathPatterns /\ Below(p) \in PathPatterns /\ Below(Absolute(p)) = Absolute(Below(p))
    BY <2>1 DEF PathPatterns, Directory, Patterns, Below, Absolute
  <2>3. Reaches(p, f) \/ Reaches(Below(p), f)
    BY <1>1, <1>2, <2>2, AbsoluteReachesOnly
  <2>4. Reaches(Below(p), f)
    BY <2>1, <2>3, FilesAssumption
  <2> QED BY <1>4, <2>4 DEF Denied, Lies
<1> QED BY <1>2, <1>3, <1>4

\* What the policy opens outside the session has a write entry, without stars.
LEMMA CodexWritesOpen ==
  ASSUME TypeOK, NEW f \in Files, Plain, ~Entry("deny", f), unmatched = "allow" \/ Lies(f, "allow")
  PROVE  Entry("write", f)
<1>1. ASSUME NEW e \in DOMAIN Filesystem, Reaches(Below(e), f)
      PROVE  Entry("write", f)
  <2>1. Filesystem[e] # "deny"
    BY <1>1 DEF Entry
  <2>2. Filesystem[e] \in {"deny", "write"}
    BY <1>1 DEF Filesystem
  <2> QED BY <1>1, <2>1, <2>2 DEF Entry
<1>2. CASE unmatched = "allow"
  <2>1. Root \in DOMAIN Filesystem
    BY <1>2 DEF Filesystem
  <2> DEFINE all == [anchor |-> "root", names |-> <<>>, below |-> TRUE]
  <2>2. Below(Root).anchor = all.anchor /\ Below(Root).names = all.names /\ Below(Root).below = all.below
    BY DEF Root, Below
  <2>3. Reaches(all, f) /\ all.anchor = "root"
    BY RootReachesAll
  <2> HIDE DEF all
  <2>4. Reaches(Below(Root), f)
    BY <2>2, <2>3 DEF Reaches, Covers
  <2> QED BY <1>1, <2>1, <2>4
<1>3. CASE unmatched # "allow" /\ Lies(f, "allow")
  <2>1. PICK d \in In("allow") : Reaches(Below(d), f)
    BY <1>3 DEF Lies
  <2>2. d \in Directory /\ d \in AdditionalDirectories
    BY PatternAssumption DEF TypeOK, In, Plain, AdditionalDirectories
  <2>3. Absolute(d) \in DOMAIN Filesystem
    BY <1>3, <2>2 DEF Filesystem
  <2>4. /\ Below(d) \in Patterns({"anywhere", "home", "root"}, BOOLEAN)
        /\ Absolute(Below(d)) = Below(Absolute(d))
    BY <2>2 DEF Directory, Patterns, Below, Absolute
  <2>5. Reaches(Below(Absolute(d)), f)
    BY <2>1, <2>4, AbsoluteReaches
  <2> QED BY <1>1, <2>3, <2>5
<1> QED BY <1>2, <1>3

(* Codex keeps what the policy says, up to what it acknowledges, and lets  *)
(* every open call through, but for stars (_permission_profile).           *)
THEOREM CodexAccessIsKept == Spec => []CodexKeepsAccess
<1>1. TypeOK => CodexKeepsAccess
  <2> SUFFICES ASSUME TypeOK, status = "done" PROVE CodexKeepsAccess
    BY DEF CodexKeepsAccess
  <2>1. \A t \in DOMAIN tools : tools[t] \in Decisions
    BY FoldIsStricter
  <2>2. WebKept("codex")
    <3> SUFFICES ASSUME NEW t \in WebTools \cap DOMAIN tools
                 PROVE  Strictness[DecidesWeb("codex", t)] >= OwedTool("codex", t)
      BY DEF WebKept
    <3>1. OwedTool("codex", t) = 0 \/ (t = "websearch" /\ tools[t] = "deny")
      BY CodexOwed, Strict DEF OwedTool
    <3>2. Strictness[DecidesWeb("codex", t)] \in 0..2
      BY Strict DEF DecidesWeb
    <3>3. t = "websearch" /\ tools[t] = "deny" =>
            Strictness[DecidesWeb("codex", t)] = 2 /\ OwedTool("codex", t) \in 0..2
      BY Strict DEF DecidesWeb, OwedTool
    <3> QED BY <3>1, <3>2, <3>3
  <2>3. ASSUME NEW t \in FileTools, NEW f \in Files, NEW s \in Sessions
        PROVE  Given("codex", t, f, s) = Strictness[CodexDecides(t, f, s)]
               /\ Given("codex", t, f, s) \in 0..2
    BY Strict DEF Given, Decides, CodexDecides
  <2>4. ASSUME NEW t \in FileTools, NEW f \in Files, NEW s \in Sessions, t # "read" \/ Denied(f)
        PROVE  Given("codex", t, f, s) >= OwedPlace("codex", f, s)
    <3> DEFINE place == Place(f, s, omit["codex"])
    <3>1. OwedPlace("codex", f, s) = Strictness[place] /\ place \in Decisions
      BY PlaceIsDecision DEF OwedPlace
    <3>2. Strictness[place] \in 0..2
      BY <3>1, Strict
    <3>3. CASE Denied(f)
      <4>1. Given("codex", t, f, s) = 2
        BY <2>3, <3>3, CodexDenies, Strict
      <4> QED BY <3>1, <3>2, <4>1
    <3>4. CASE ~Denied(f) /\ (Inside(f, s) \/ Lies(f, "allow") \/ unmatched = "allow")
      <4>1. "workspace.ask" \notin omit["codex"] => ~Lies(f, "ask")
        BY CodexOwed DEF Lies
      <4>2. place = "allow"
        BY <3>4, <4>1 DEF Place, Denied
      <4> QED BY <2>3, <3>1, <4>2, Strict
    <3>5. CASE ~Denied(f) /\ ~(Inside(f, s) \/ Lies(f, "allow") \/ unmatched = "allow")
      <4>1. ~Entry("write", f)
        BY <3>5, CodexWritesWhatIsOpen
      <4>2. CodexDecides(t, f, s) # "allow"
        BY <2>4, <3>5, <4>1 DEF CodexDecides
      <4>3. Given("codex", t, f, s) >= 1
        BY <2>3, <4>2, Strict DEF CodexDecides
      <4>4. place # "deny"
        BY <3>5 DEF Place, Denied, TypeOK
      <4>5. Strictness[place] <= 1
        BY <3>1, <4>4, Strict DEF Decisions
      <4> QED BY <2>3, <3>1, <3>2, <4>3, <4>5
    <3> QED BY <3>3, <3>4, <3>5
  <2>5. ASSUME NEW t \in FileTools, NEW f \in Files, NEW s \in Sessions
        PROVE  Given("codex", t, f, s) >= OwedTool("codex", t)
    <3>1. OwedTool("codex", t) = 0
      BY CodexOwed, Strict DEF OwedTool, FileTools
    <3> QED BY <2>3, <3>1
  <2>6. ASSUME NEW t \in FileTools, NEW f \in Files, NEW s \in Sessions, Open(t, f, s), Plain
        PROVE  Given("codex", t, f, s) = 0
    <3>1. ~Denied(f) /\ (Inside(f, s) \/ Lies(f, "allow") \/ unmatched = "allow")
      BY <2>6 DEF Open, Place, Denied
    <3>2. ~Entry("deny", f)
      BY <2>6, <3>1, CodexDeniesOnlyDenied
    <3>3. Inside(f, s) \/ Entry("write", f)
      BY <2>6, <3>1, <3>2, CodexWritesOpen
    <3>4. CodexDecides(t, f, s) = "allow"
      BY <3>2, <3>3 DEF CodexDecides
    <3> QED BY <2>3, <3>4, Strict
  <2> QED BY <2>2, <2>4, <2>5, <2>6 DEF CodexKeepsAccess
<1> QED BY <1>1, AccessTypeOK, PTL
=============================================================================
