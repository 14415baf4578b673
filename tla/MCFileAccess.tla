---------------------------- MODULE MCFileAccess ----------------------------
(* A home directory and a volume beside it; in both a directory p with a   *)
(* subdirectory q, at home a project w too.  Directories overlap, contain  *)
(* one another and are spelled from the home and from the root.            *)
EXTENDS FileAccess

CONSTANTS home, vol, p, q, w, key

At(anchor, names) == [anchor |-> anchor, names |-> names, below |-> FALSE]

MCNames == {home, vol, p, q, w, key}

MCHome == <<home>>

MCFiles ==
  {<<home, key>>, <<home, p, key>>, <<home, p, w>>, <<home, p, q, key>>, <<home, w, key>>,
   <<home, w, w>>, <<home, w, p, key>>, <<vol, p, key>>, <<vol, w>>}

\* At the home directory, in a project, in and below listed directories, outside.
MCSessions == {<<home>>, <<home, w>>, <<home, p>>, <<home, p, q>>, <<vol>>, <<vol, p>>}

MCDirectories ==
  {At("home", <<p>>), At("home", <<p, q>>), At("root", <<home, p>>), At("root", <<vol, p>>),
   At("home", <<AnyName>>)}

MCSecretPaths ==
  {At("anywhere", <<key>>), At("anywhere", <<p, key>>), At("home", <<p, key>>),
   [At("anywhere", <<q>>) EXCEPT !.below = TRUE]}

MCListable ==
  [claude |-> {}, opencode |-> {}, codex |-> {"tools", "workspace.ask"}, cursor |-> {"tools", "workspace"}]
=============================================================================
