------------------------------ MODULE Custody ------------------------------
(***************************************************************************)
(* What a sync promises about everything it shares with others, without    *)
(* saying how: the abstract specification that SyncTransaction implements. *)
(*                                                                         *)
(* An item is a path of a generated root or an entry of a native list.  It *)
(* is held by nobody, by the compiler, or by someone else (a person or a   *)
(* tool), and the ownership manifests vouch for some items.  A change by   *)
(* someone else while a run is going on makes an item `touched`: only then *)
(* may the compiler still act on what it had read before.  `raced` records *)
(* that runs of different plans overlapped or a run was cut short.         *)
(***************************************************************************)
CONSTANT Items

VARIABLES
  holder,   \* [Items -> Holders]
  vouched,  \* the items the manifests name
  running,  \* some run is going on
  touched,  \* changed by someone else during a run, and not settled since
  raced

vars == <<holder, vouched, running, touched, raced>>

Holders == {"nobody", "compiler", "other"}

\* At rest the manifests name everything the compiler holds.
Agreed == \A i \in Items \ touched : holder[i] = "compiler" => i \in vouched

Init ==
  /\ holder = [i \in Items |-> "nobody"]
  /\ vouched = {}
  /\ running = FALSE
  /\ touched = {}
  /\ raced = FALSE

\* A person or a tool puts something of its own at i, or removes what is there.
Others(i) ==
  /\ \E h \in {"nobody", "other"} : holder' = [holder EXCEPT ![i] = h]
  /\ touched' = IF running THEN touched \cup {i} ELSE touched
  /\ UNCHANGED <<vouched, running, raced>>

\* The compiler never touches what is somebody else's, and withdraws only what
\* the manifests name.
Allowed(i) ==
  \/ holder'[i] = holder[i]
  \/ i \in touched
  \/ holder[i] = "nobody" /\ holder'[i] = "compiler"
  \/ holder[i] = "compiler" /\ holder'[i] = "nobody" /\ (i \in vouched \/ raced)

Work ==
  /\ running
  /\ holder' \in [Items -> Holders]
  /\ \A i \in Items : Allowed(i)
  /\ UNCHANGED <<vouched, running, touched, raced>>

\* Manifests come to name what the compiler holds, and drop what it does not.
Vouch ==
  /\ running
  /\ vouched' \in SUBSET Items
  /\ \A i \in Items \ touched :
       \/ raced
       \/ (i \in vouched') = (i \in vouched)
       \/ (i \in vouched') = (holder[i] = "compiler")
  /\ running' \in BOOLEAN
  /\ ~running' => raced \/ Agreed'
  /\ UNCHANGED <<holder, touched, raced>>

\* A run starts or stops without changing anything else.
Turn ==
  /\ running' \in BOOLEAN
  /\ touched' \in SUBSET touched
  /\ running => touched' = touched
  /\ raced => raced'
  /\ ~running' => raced' \/ Agreed'
  /\ UNCHANGED <<holder, vouched>>

Next == (\E i \in Items : Others(i)) \/ Work \/ Vouch \/ Turn

Spec == Init /\ [][Next]_vars
=============================================================================
