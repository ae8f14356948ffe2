----------------------------- MODULE MCGuests -----------------------------
(***************************************************************************)
(* TLC instance of what the end-to-end tool does with its guests: the      *)
(* phases of one guest (GuestChecks, two phases that expect one check      *)
(* twice and once), a restart of a guest in each of its three forms        *)
(* (GuestReboot) and the setup of the suite's resources (SuiteSetup, two   *)
(* runs).  They share no state; a behaviour is one of the three, and the   *)
(* variables of the others keep their values.                              *)
(***************************************************************************)
EXTENDS GuestChecks

CONSTANTS
  a, b,
  MaxRebootFaults, Values, MaxRuns, MaxSetupFaults

VARIABLES
  part,  \* "checks", "reboot" or "setup"
  mode, guest, waiter, expired, stopped, losses, answers, settled,
  tag, profile, wanted, pc, todo, runs, failures, created, touched, clean

rebootVars == <<mode, guest, waiter, expired, stopped, losses, answers, settled>>
setupVars == <<tag, profile, wanted, pc, todo, runs, failures, created, touched, clean>>

-----------------------------------------------------------------------------
Piece(what, check, ended) == [what |-> what, check |-> check, ended |-> ended]

\* Markers, ended or not, and output in between that no line can hold.
MCPieces ==
  <<{Piece("START", a, TRUE), Piece("PASS", a, TRUE), Piece("FAIL", a, TRUE)},
    {Piece("PLAN", a, TRUE), Piece("START", a, TRUE), Piece("PASS", a, TRUE), Piece("PASS", a, FALSE),
     Piece("long", a, FALSE), Piece("START", b, TRUE), Piece("BAD", a, TRUE)}>>

MCPhases == <<[c \in {a, b} |-> IF c = a THEN 2 ELSE 0], [c \in {a, b} |-> IF c = a THEN 1 ELSE 0]>>
MCMaxPieces == <<4, 3>>

ASSUME GuestChecksConstants == GuestChecksAssumption

Reboot == INSTANCE GuestReboot
            WITH host <- waiter, cancelled <- stopped, faults <- losses, MaxFaults <- MaxRebootFaults

Setup == INSTANCE SuiteSetup WITH faults <- failures, MaxFaults <- MaxSetupFaults

-----------------------------------------------------------------------------
NoReboot ==
  /\ mode = "prepared"
  /\ guest = [boot |-> 1, agent |-> TRUE, relabel |-> "none", job |-> "none", status |-> None,
              enforces |-> FALSE]
  /\ waiter = [pc |-> "failed", before |-> None, observed |-> None, boot |-> None]
  /\ expired = FALSE /\ stopped = FALSE /\ losses = 0 /\ answers = 0 /\ settled = FALSE

NoSetup ==
  /\ tag = [r \in Setup!Shared \cup {"profile"} |-> "absent"]
  /\ profile = [s \in Setup!Settings |-> None]
  /\ wanted = [s \in Setup!Settings |-> None]
  /\ pc = "idle" /\ todo = {} /\ runs = 0 /\ failures = 0
  /\ created = FALSE /\ touched = {} /\ clean = TRUE

MCInit ==
  /\ Init
  /\ \/ part = "checks" /\ NoReboot /\ NoSetup
     \/ part = "reboot" /\ Reboot!Init /\ NoSetup
     \/ part = "setup" /\ Setup!Init /\ NoReboot

MCNext ==
  \/ part = "checks" /\ Next /\ UNCHANGED <<part, rebootVars, setupVars>>
  \/ part = "reboot" /\ Reboot!Next /\ UNCHANGED <<part, vars, setupVars>>
  \/ part = "setup" /\ Setup!Next /\ UNCHANGED <<part, vars, rebootVars>>

MCFairness ==
  /\ WF_vars(Capture) /\ WF_vars(Expire) /\ WF_vars(Exit \/ Chatter)
  /\ WF_rebootVars(Reboot!Host) /\ WF_rebootVars(Reboot!TimePasses)

MCSpec == MCInit /\ [][MCNext]_<<part, vars, rebootVars, setupVars>> /\ MCFairness

-----------------------------------------------------------------------------
\* A phase is accepted, a check reported and a guest admitted only for what the guest did;
\* and setup changes nothing that is not the suite's.
TestedAsClaimed ==
  CASE part = "checks" -> TypeOK /\ AcceptedAsShown /\ EvidenceIsTrue
    [] part = "reboot" -> Reboot!AdmittedIsSettled
    [] part = "setup" -> Setup!SetupIsOwned

\* Whatever the guest does, the host's waiting for a command or for a boot ends.
Waiting == \/ part = "checks" /\ Capturing
           \/ part = "reboot" /\ ~Reboot!Finished
EveryWaitEnds == Waiting ~> ~Waiting
=============================================================================
