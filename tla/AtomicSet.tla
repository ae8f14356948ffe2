------------------------------ MODULE AtomicSet -----------------------------
(***************************************************************************)
(* What the replacement of a managed ipset promises to the packets that    *)
(* are matched against it and to the sync that waits for it (architecture. *)
(* md, "Firewall Apply Model": the set is loaded and swapped as a whole).  *)
(*                                                                         *)
(* A list is asked for, and replaces the contents of the set as a whole or *)
(* not at all.  Success is only claimed for a list that was installed.  A  *)
(* request whose process dies may still be carried out; no other list ever *)
(* becomes the contents.                                                   *)
(***************************************************************************)
CONSTANT Lists   \* what may be asked for: [maxelem, elems]

VARIABLES
  managed,    \* the set: its kind, capacity and elements
  asked,      \* the last list asked for
  promise,    \* what its requester may be told
  late        \* lists of dead requesters that may still be installed

vars == <<managed, asked, promise, late>>

Whole(l) == [kind |-> "ours", maxelem |-> l.maxelem, elems |-> l.elems]

NoSet == [kind |-> "absent", maxelem |-> 0, elems |-> {}]

Init ==
  /\ managed \in {NoSet, [NoSet EXCEPT !.kind = "other"]}
  /\ asked \in Lists
  /\ promise = "none"
  /\ late = {}

Ask ==
  /\ asked' \in Lists
  /\ promise' = "asked"
  /\ UNCHANGED <<managed, late>>

\* A set of the right capacity is made ready, empty, for a list asked for.
Create ==
  /\ managed = NoSet
  /\ promise = "asked"
  /\ managed' = [Whole(asked) EXCEPT !.elems = {}]
  /\ UNCHANGED <<asked, late>>
  /\ promise' \in {"asked", "failed"}

Install ==
  /\ promise = "asked"
  /\ managed.kind = "ours"
  /\ managed' = Whole(asked)
  /\ promise' = "installed"
  /\ UNCHANGED <<asked, late>>

\* The requester is told of a failure, which may follow the installation.
Fail ==
  /\ promise \in {"asked", "installed"}
  /\ promise' = "failed"
  /\ UNCHANGED <<managed, asked>>
  /\ \/ UNCHANGED late
     \/ promise = "asked" /\ late' = late \cup {asked}

InstallLate(l) ==
  /\ l \in late
  /\ managed.kind = "ours"
  /\ managed' = Whole(l)
  /\ late' \in {late, late \ {l}}   \* more than one of them may have this list
  /\ UNCHANGED <<asked, promise>>

Lose(l) ==
  /\ l \in late
  /\ late' = late \ {l}
  /\ UNCHANGED <<managed, asked, promise>>

\* The set is destroyed, or another tool takes the free name.
Destroy ==
  /\ managed' = NoSet
  /\ promise' = "none"
  /\ UNCHANGED <<asked, late>>

Take ==
  /\ managed = NoSet
  /\ managed' = [NoSet EXCEPT !.kind = "other"]
  /\ UNCHANGED <<asked, promise, late>>

Next ==
  \/ Ask \/ Create \/ Install \/ Fail \/ Destroy \/ Take
  \/ \E l \in late : InstallLate(l) \/ Lose(l)

Spec == Init /\ [][Next]_vars
=============================================================================
