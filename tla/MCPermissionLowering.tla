------------------------ MODULE MCPermissionLowering ------------------------
(* Instances of PermissionLowering: one program g with an option o, an     *)
(* interpreter i, the wrappers w and p, the assignment a; Claude also peels *)
(* n, which no policy names.                                               *)
EXTENDS PermissionLowering

CONSTANTS committed, local

W(char) == <<char>>
SX == <<"s", "x">>
GX == <<"g", "x">>

MCWrappers == {W("w"), W("p")}
MCOptions == (W("g") :> {W("o")}) @@ (W("i") :> {})
MCAssignments == (W("g") :> {W("a")}) @@ (W("i") :> {})
MCInterpreters == {W("i")}
MCClaudePeeled == {<<W("p"), "direct">>, <<W("p"), "arguments">>, <<W("w"), "direct">>, <<W("n"), "direct">>}
MCUnwrapPeeled == {<<W("p"), "direct">>, <<W("p"), "arguments">>}

R(sub, tail, text, exact, reason) ==
  [command |-> W("g"), subcommand |-> sub, tail |-> tail, text |-> text,
   exact |-> exact, reason |-> reason]
g == W("g")  s == W("s")  x == W("x")  o == W("o")

Heads == {R(<<>>, {}, {}, FALSE, NoReason), R(<<s>>, {}, {}, FALSE, NoReason),
          R(<<x>>, {}, {}, FALSE, NoReason), R(<<s, x>>, {}, {}, FALSE, NoReason), R(<<s, x>>, {}, {}, FALSE, "why"),
          R(<<>>, {}, {}, TRUE, NoReason), R(<<s>>, {}, {}, TRUE, NoReason)}
OptionHeads == {R(<<o, s>>, {}, {}, FALSE, NoReason), R(<<o>>, {}, {}, FALSE, NoReason)}
Tails == {R(<<>>, {<<x>>}, {}, FALSE, NoReason), R(<<>>, {<<x>>, <<s>>}, {}, FALSE, NoReason),
          R(<<s>>, {<<x>>}, {}, FALSE, NoReason)}
Texts == {R(<<>>, {}, {<<"x">>}, FALSE, NoReason), R(<<s>>, {}, {<<"x">>}, FALSE, NoReason),
          R(<<>>, {}, {<<"x", " ">>}, FALSE, NoReason), R(<<s>>, {}, {<<" ", "x">>}, FALSE, NoReason)}
Mixed == {R(<<>>, {<<x>>}, {}, TRUE, NoReason)}
Interpreter == {[R(<<>>, {}, {}, FALSE, NoReason) EXCEPT !.command = W("i")]}

(* Conflicts between fragments, and patterns that cover each other in threes. *)
MCCombined == {R(<<s>>, {}, {}, FALSE, NoReason), R(<<s>>, {<<x>>}, {}, FALSE, "why"),
               R(<<>>, {<<x>>}, {}, FALSE, NoReason), R(<<>>, {}, {<<"x">>}, FALSE, NoReason)}

MCRules == Heads \cup OptionHeads \cup Tails \cup Texts \cup Mixed \cup Interpreter \cup MCCombined

FragmentSymmetry == Permutations({committed, local})

Arguments == {s, x, o, SX}
Sequences(words, n) == UNION {[1..k -> words] : k \in 0..n}
Lead == {W("w"), W("p"), W("a")}
MCCommands ==
  {<<g>> \o rest : rest \in Sequences(Arguments, 3)}
  \cup {<<GX>> \o rest : rest \in Sequences(Arguments, 1)}
  \cup {<<first>> \o rest : first \in Lead, rest \in Sequences(Arguments \cup {g}, 3)}
  \cup {<<g, o>> \o rest : rest \in [1..3 -> {s, x}]}
  \cup {<<first, second, g>> \o rest : first \in Lead \cup {W("n")}, second \in Lead, rest \in Sequences({s, x}, 2)}
  \cup {lead \o <<W("i")>> \o rest : lead \in Sequences({W("a")}, 1), rest \in Sequences({x}, 1)}
=============================================================================
