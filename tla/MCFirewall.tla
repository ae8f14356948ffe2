----------------------------- MODULE MCFirewall -----------------------------
(***************************************************************************)
(* TLC instance of Firewall and Inspection: two configurations that differ *)
(* in the set and in the target, and two rules of other tools in INPUT.    *)
(*                                                                         *)
(* The behaviours are of two kinds.  In the first the commands run alone,  *)
(* with faults, crashes and reboots, and the wiring's own properties are   *)
(* at stake.  In the second an inspection runs among commands that do not  *)
(* fail, and another tool has one rule; only there are the variables of    *)
(* Inspection in use.                                                      *)
(***************************************************************************)
EXTENDS Inspection

CONSTANTS setA, setB, other, f1, f2, Alone

MCRules == {[set |-> setA, target |-> "DROP"], [set |-> setB, target |-> "REJECT"]}

\* Two contents of the same size: only membership tells them apart.
MCContents == {{Target}, {other}}

MCInit ==
  \/ Init /\ live = [Waiting EXCEPT !.step = "done", !.target = Alone]
          /\ content = [s \in Sets |-> {}] /\ config = None /\ overlap = 0 /\ saw = {}
  \/ InspectInit

MCNext ==
  \/ live.target = Alone /\ Next /\ UNCHANGED inspectVars
  \/ live.target # Alone /\ InspectNext /\ ~ Contains(fw'.input, f2)

\* Every command ends: the runner kills it after 30 s at the latest.
MCSpec ==
  MCInit /\ [][MCNext]_<<vars, inspectVars>> /\ WF_vars(SyncStep \/ CleanupStep)
=============================================================================
