---------------------------- MODULE GuestReboot ----------------------------
(***************************************************************************)
(* The host restarts a guest and waits until it may go on: after           *)
(* provisioning ("prepared", and "enforcing" where SELinux has to be       *)
(* switched on by a job that restarts the very agent that answers), and    *)
(* between two application phases ("application").                         *)
(*                                                                         *)
(* The guest boots, relabels its files and reboots by itself, may crash    *)
(* and reboot at any time, and answers only while its agent runs; an       *)
(* answer may be lost after the guest did what it was asked.  Sleeping     *)
(* between two probes and the shortening of their time limits are left     *)
(* out; the deadline passes at any moment.                                 *)
(***************************************************************************)
EXTENDS Naturals

CONSTANTS
  None,       \* no boot, no answer, no status
  MaxFaults   \* bound: crashes, lost answers, failed commands, cancellations

VARIABLES
  mode,       \* what the host waits for: "prepared", "enforcing" or "application"
  guest,      \* its boot, agent, relabelling, enforcement job, its durable status, the mode of SELinux
  host,       \* its step, the boot before the restart, the last one observed, the one it waits in
  expired,    \* the deadline has passed
  cancelled,  \* the run is cancelled
  faults,     \* faults so far
  answers,    \* history: boot probes the guest has answered since it booted, up to 2
  settled     \* history: what was admitted was settled then

vars == <<mode, guest, host, expired, cancelled, faults, answers, settled>>

Init ==
  /\ mode \in {"prepared", "enforcing", "application"}
  /\ \E relabel \in IF mode = "enforcing" THEN {"none", "scheduled"} ELSE {"none"} :
       guest = [boot |-> 1, agent |-> TRUE, relabel |-> relabel, job |-> "none", status |-> None,
                enforces |-> mode = "enforcing" /\ relabel = "none"]
  /\ host = [pc |-> "before", before |-> None, observed |-> None, boot |-> None]
  /\ expired = FALSE /\ cancelled = FALSE /\ faults = 0 /\ answers = 0 /\ settled = FALSE

-----------------------------------------------------------------------------
(* The guest.                                                              *)

Booted(g) == [g EXCEPT !.boot = @ + 1, !.agent = FALSE, !.job = "none"]

AgentStarts ==
  /\ ~guest.agent
  /\ guest' = [guest EXCEPT !.agent = TRUE]
  /\ UNCHANGED <<host, expired, cancelled, faults, answers, settled>>

\* The first boot after the restart relabels, and reboots.
Relabel ==
  /\ \/ /\ guest.relabel = "scheduled" /\ guest.boot > 1
        /\ guest' = [guest EXCEPT !.relabel = "running"]
        /\ UNCHANGED answers
     \/ /\ guest.relabel = "running"
        /\ guest' = [Booted(guest) EXCEPT !.relabel = "done"]
        /\ answers' = 0
  /\ UNCHANGED <<host, expired, cancelled, faults, settled>>

\* The job restarts the agent, switches enforcement on and records its status last; any
\* of it may fail.
Job ==
  /\ \/ guest.job = "started" /\ guest' = [guest EXCEPT !.job = "restarted", !.agent = FALSE]
     \/ /\ guest.job = "restarted" /\ guest.agent
        /\ guest' = [guest EXCEPT !.job = "enforced", !.enforces = TRUE]
     \/ guest.job = "enforced" /\ guest' = [guest EXCEPT !.job = "ended", !.status = "0"]
     \/ /\ guest.job \in {"started", "restarted", "enforced"}
        /\ guest' = [guest EXCEPT !.job = "ended", !.status = "1"]
  /\ UNCHANGED <<host, expired, cancelled, faults, answers, settled>>

\* An interrupted relabelling starts over.
Crash ==
  /\ faults < MaxFaults
  /\ faults' = faults + 1
  /\ guest' = [Booted(guest) EXCEPT !.relabel = IF @ = "running" THEN "scheduled" ELSE @]
  /\ answers' = 0
  /\ UNCHANGED <<host, expired, cancelled, settled>>

\* What --boot-status answers: nothing before the relabelling is over.
BootStatus == IF guest.relabel \in {"scheduled", "running"} THEN None ELSE guest.boot

\* What --enforcement-status answers.
EnforcementStatus ==
  IF guest.status = "0" THEN IF guest.enforces THEN "0 Enforcing" ELSE "failed"
  ELSE IF guest.status = None /\ guest.job \in {"started", "restarted", "enforced"} THEN "pending"
  ELSE "failed"

-----------------------------------------------------------------------------
(* The host.                                                               *)

Goto(pc) == host' = [host EXCEPT !.pc = pc]

Finished == host.pc \in {"admitted", "failed"}
OutOfTime == expired \/ cancelled

\* A command that must succeed: it is refused once the run is cancelled, and fails if the
\* agent is not there, or for any other reason.
Demand(next) ==
  \/ ~cancelled /\ guest.agent /\ next /\ UNCHANGED faults
  \/ (cancelled \/ ~guest.agent) /\ Goto("failed") /\ UNCHANGED <<guest, faults, answers, settled>>
  \/ faults < MaxFaults /\ faults' = faults + 1 /\ Goto("failed") /\ UNCHANGED <<guest, answers, settled>>

\* A probe, with the effect it has in the guest: an answer, no answer or a refusal; an
\* answer that breaks the contract of the checks is a failure of its own.
Probe(effect, answer, onAnswer, onNone) ==
  IF OutOfTime THEN Goto("failed") /\ UNCHANGED <<guest, faults, answers, settled>>
  ELSE \/ /\ ~guest.agent
          /\ onNone /\ UNCHANGED <<guest, faults, answers, settled>>
       \/ /\ guest.agent /\ effect
          /\ IF answer = None THEN onNone /\ UNCHANGED settled ELSE onAnswer
          /\ UNCHANGED faults
       \/ /\ guest.agent /\ faults < MaxFaults /\ effect
          /\ onNone \/ Goto("failed")
          /\ faults' = faults + 1 /\ UNCHANGED settled

Asked == UNCHANGED guest /\ answers' = IF answers < 2 THEN answers + 1 ELSE 2
Nothing == UNCHANGED <<guest, answers>>

\* The guest has left the boot before the restart for one it stays in, and is what its
\* target asks for.
Settled(boot) ==
  /\ guest.boot = boot /\ boot # host.before
  /\ guest.relabel \notin {"scheduled", "running"}
  /\ mode # "application" => answers' = 2
  /\ mode = "enforcing" => guest.enforces /\ guest.status = "0"

Admit(boot) ==
  /\ host' = [host EXCEPT !.pc = "admitted", !.boot = boot]
  /\ settled' = Settled(boot)

ReadBefore ==
  /\ host.pc = "before"
  /\ IF OutOfTime THEN Goto("failed") /\ UNCHANGED <<guest, faults, answers, settled>>
     ELSE Demand(/\ host' = [host EXCEPT !.pc = "restart", !.before = guest.boot]
                 /\ UNCHANGED <<guest, answers, settled>>)
  /\ UNCHANGED <<expired, cancelled>>

\* A restart that fails may have happened.
Restart ==
  /\ host.pc = "restart"
  /\ \/ /\ ~cancelled /\ guest' = Booted(guest) /\ answers' = 0
        /\ \/ Goto(IF mode = "application" THEN "ready" ELSE "watch") /\ UNCHANGED faults
           \/ faults < MaxFaults /\ faults' = faults + 1 /\ Goto("failed")
     \/ cancelled /\ Goto("failed") /\ UNCHANGED <<guest, faults, answers>>
     \/ /\ faults < MaxFaults /\ faults' = faults + 1
        /\ Goto("failed") /\ UNCHANGED <<guest, answers>>
  /\ UNCHANGED <<expired, cancelled, settled>>

\* A bug: any boot but the old one will do.
ObservedOnce(boot) == boot # host.before

\* A boot counts when it is seen twice in a row.
ObservedAgain(boot) == boot # host.before /\ host.observed = boot

Watch ==
  /\ host.pc = "watch"
  /\ LET boot == BootStatus
         observed ==
           IF ObservedAgain(boot)
           THEN IF mode = "enforcing"
                THEN host' = [host EXCEPT !.pc = "launch", !.boot = boot] /\ UNCHANGED settled
                ELSE Admit(boot)
           ELSE /\ host' = [host EXCEPT !.observed = IF boot = host.before THEN None ELSE boot]
                /\ UNCHANGED settled
     IN  Probe(Asked, BootStatus, observed, host' = [host EXCEPT !.observed = None])
  /\ UNCHANGED <<expired, cancelled>>

\* The job is started once; whether it was, its status tells.
Launch ==
  /\ host.pc = "launch"
  /\ Probe(guest' = [guest EXCEPT !.job = "started", !.status = None] /\ UNCHANGED answers, TRUE,
           Goto("status") /\ UNCHANGED settled, Goto("status"))
  /\ UNCHANGED <<expired, cancelled>>

Status ==
  /\ host.pc = "status"
  /\ Probe(Nothing, EnforcementStatus,
           /\ Goto(CASE EnforcementStatus = "pending" -> "status"
                     [] EnforcementStatus = "0 Enforcing" -> "confirm"
                     [] OTHER -> "failed")
           /\ UNCHANGED settled,
           UNCHANGED host)
  /\ UNCHANGED <<expired, cancelled>>

\* A bug: whatever boot answers is the one that was prepared.
SameBootUnchecked(boot) == TRUE

\* The boot that enforces is the one that was observed.
SameBoot(boot) == boot = host.boot

Confirm ==
  /\ host.pc = "confirm"
  /\ Probe(Asked, BootStatus,
           IF SameBoot(BootStatus) THEN Admit(host.boot) ELSE Goto("failed") /\ UNCHANGED settled,
           Goto("status"))
  /\ UNCHANGED <<expired, cancelled>>

\* Between two application phases: the agent answers, then the boot id is compared.
Ready ==
  /\ host.pc = "ready"
  /\ \/ ~cancelled /\ guest.agent /\ Goto("after") /\ UNCHANGED faults
     \/ /\ cancelled \/ ~guest.agent
        /\ IF OutOfTime THEN Goto("failed") ELSE UNCHANGED host
        /\ UNCHANGED faults
     \/ /\ faults < MaxFaults /\ faults' = faults + 1
        /\ IF OutOfTime THEN Goto("failed") ELSE UNCHANGED host
  /\ UNCHANGED <<guest, expired, cancelled, answers, settled>>

ReadAfter ==
  /\ host.pc = "after"
  /\ Demand(/\ UNCHANGED <<guest, answers>>
            /\ IF guest.boot # host.before THEN Admit(guest.boot) ELSE Goto("failed") /\ UNCHANGED settled)
  /\ UNCHANGED <<expired, cancelled>>

\* Between two phases the time is that of waiting for the agent.
Expire ==
  /\ ~Finished /\ (mode = "application" => host.pc = "ready")
  /\ ~expired /\ expired' = TRUE
  /\ UNCHANGED <<guest, host, cancelled, faults, answers, settled>>

Cancel ==
  /\ ~cancelled /\ faults < MaxFaults
  /\ cancelled' = TRUE /\ faults' = faults + 1
  /\ UNCHANGED <<guest, host, expired, answers, settled>>

Done == Finished /\ UNCHANGED vars

Host == (ReadBefore \/ Restart \/ Watch \/ Launch \/ Status \/ Confirm \/ Ready \/ ReadAfter) /\ UNCHANGED mode
Guest == AgentStarts \/ Relabel \/ Job \/ Crash
TimePasses == Expire /\ UNCHANGED mode
Around == (Guest \/ Cancel) /\ UNCHANGED mode
Next == (~Finished /\ (Host \/ Around \/ TimePasses)) \/ Done

Spec == Init /\ [][Next]_vars /\ WF_vars(Host) /\ WF_vars(TimePasses)

-----------------------------------------------------------------------------
(* Properties.                                                             *)

\* A guest is admitted in the boot it was admitted for, not the one before the restart, with
\* its relabelling and its enforcement job over.
AdmittedIsSettled == host.pc = "admitted" => settled

\* A guest that never settles does not keep its target from ending.
WaitEnds == <>Finished
=============================================================================
