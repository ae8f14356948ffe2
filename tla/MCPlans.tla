------------------------------ MODULE MCPlans ------------------------------
(***************************************************************************)
(* TLC instance of Networks: every list of up to two CIDRs of a three-bit  *)
(* address space as candidates, in descending order so that the sort has   *)
(* work to do, against every such safelist, in ascending order.            *)
(***************************************************************************)
EXTENDS Networks

CONSTANTS MaxCandidates, MaxSafelist

MCPow == [k \in 0 .. Width |-> 2 ^ k]

\* In ascending order of the network, so that each choice of CIDRs occurs once.
Ascending(s) ==
  \A i, j \in DOMAIN s : i < j =>
    s[i].network < s[j].network \/ (s[i].network = s[j].network /\ s[i].prefix <= s[j].prefix)

Lists(k) == UNION {[1 .. j -> Cidr] : j \in 0 .. k}

MCInputs ==
  [candidates : {Reverse(s) : s \in {t \in Lists(MaxCandidates) : Ascending(t)}},
   safelist : {s \in Lists(MaxSafelist) : Ascending(s)}]
=============================================================================
