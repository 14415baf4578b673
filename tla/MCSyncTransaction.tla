------------------------- MODULE MCSyncTransaction -------------------------
(* Two processes, two files and one settings document; the second plan     *)
(* drops a file, rewrites the other and replaces the generated entry.      *)
EXTENDS SyncTransaction, TLC

CONSTANTS a, b, settings, f, g, old, new, allow, deny

On(names, c) == [x \in names |-> c]
MCSources == {[files |-> On({f, g}, old), entries |-> On({settings}, {allow})],
              [files |-> On({f}, new), entries |-> On({settings}, {deny})]}

Processes == Permutations({a, b})
=============================================================================
