------------------------------ MODULE MCUnwrap ------------------------------
(* Two agents and a command that is wrapped up to twice, alone or beside   *)
(* another one.  Fronts are what the tables let stand before a command.    *)
EXTENDS Unwrap

CONSTANTS plan, build

MCStems == "--signal=KILL" :> "--signal"
MCPaths == "/bin/rm" :> "rm" @@ "./rm" :> "rm" @@ "/usr/bin/timeout" :> "timeout"
           @@ "./timeout" :> "timeout"

Quoted(pieces) == [pieces |-> pieces, quoted |-> TRUE]

\* A command before which nothing stands yet.
Plain(pieces) == [layers |-> <<[words |-> Words(pieces), open |-> FALSE]>>]

\* A layer around a command.
Around(words, open, command) == [layers |-> <<[words |-> words, open |-> open]>> \o command.layers]

Option(name) ==
  {<<>>, <<Word("-z")>>} \cup {<<Word(o), Word("5")>> : o \in {"-k", "-n", "-u"} \cap Wrappers[name].values}
  \cup (IF name = "timeout" THEN {<<Word("--signal=KILL")>>} ELSE {})

Harmless(name, option) ==
  /\ name \in DOMAIN TransparentWrappers
  /\ option # <<>> => \E o \in TransparentWrappers[name] :
                        o = option[1].pieces[1] \/ (o = "--signal" /\ Says(option[1], "--signal=KILL"))

Arguments(name) == IF Wrappers[name].positionals = 1 THEN <<Word("30")>> ELSE <<>>

\* What stands before a command, and whether it wraps it transparently.
Fronts(names) ==
  {[words |-> <<Word(name)>> \o option \o Arguments(name) \o dashes, open |-> Harmless(name, option)] :
     <<name, option, dashes>> \in
       UNION {{name} \X Option(name) \X {<<>>, <<Word("--")>>} : name \in names}}

Heads ==
  {[words |-> <<head, Word("30")>>, open |-> head = Word("/usr/bin/timeout")] :
     head \in {Word("/usr/bin/timeout"), Word("./timeout"), Quoted(<<"timeout">>)}}

Plainer ==
  {[words |-> Words(pieces), open |-> FALSE] : pieces \in {<<"A=1">>, <<">", "out">>, <<"2>&1">>}}

\* env -S takes a command in one quoted word.
Split(command) ==
  LET typed == Typed(command)
  IN IF \E i \in DOMAIN typed : typed[i].quoted THEN {}
     ELSE {Around(<<Word("env"), Word("-S"), Quoted([i \in DOMAIN typed |-> typed[i].pieces[1]])>>,
                  FALSE, command)}

Wrap(fronts, commands) ==
  {Around(f.words \o Typed(c), f.open, c) : f \in fronts, c \in commands} \cup UNION {Split(c) : c \in commands}

Spelled(heads) ==
  LET rm == Plain(<<"rm", "x">>)
  IN {rm} \cup {Around(<<head, Word("x")>>, FALSE, rm) : head \in heads}

Short(names) == {[words |-> <<Word(name)>> \o Arguments(name), open |-> Harmless(name, <<>>)] : name \in names}

Once == Wrap(Plainer \cup Heads \cup Fronts({"timeout", "sudo", "nice", "env", "nohup"}),
             Spelled({Word("/bin/rm")}))
Twice == Wrap(Plainer \cup Heads \cup Fronts({"timeout"}),
              Wrap(Plainer \cup Short({"nice", "command"}), Spelled({Quoted(<<"rm">>)})))

MCLines == {<<c>> : c \in Spelled({Word("./rm")}) \cup Once \cup Twice}
           \cup {<<c, Plain(<<"ls">>)>> : c \in Wrap(Short({"nice", "timeout"}), Spelled({}))}

Rule(pieces, effect) == [resource |-> [words |-> Words(pieces), more |-> TRUE], effect |-> effect]

MCAgents ==
  plan :> <<Rule(<<>>, "ask"), Rule(<<"ls">>, "allow"), Rule(<<"nice">>, "ask"), Rule(<<"rm">>, "allow")>>
  @@ build :> <<Rule(<<>>, "allow"), Rule(<<"timeout">>, "ask"), Rule(<<"rm">>, "deny")>>

MCGrants == {Rule(<<"timeout">>, "allow")}
=============================================================================
