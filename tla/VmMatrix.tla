------------------------------ MODULE VmMatrix ------------------------------
(***************************************************************************)
(* The distribution end-to-end tool (tools/distro-e2e): a run creates one  *)
(* virtual machine per target, one or two at a time, one worker thread     *)
(* each, and decides the release gate; later runs recover what killed ones *)
(* left.                                                                   *)
(*                                                                         *)
(* Everything happens through commands that may fail.  A failed command    *)
(* has had its effect or none; it has none later.  A worker's commands are *)
(* refused once the run is cancelled - by a signal, or by a thread that    *)
(* lost its report - except in its finalization.  Several commands that    *)
(* fail in one step count as one fault, and a kill in the middle of a step *)
(* is a step that fails before the kill.                                   *)
(*                                                                         *)
(* Two runs share the project, but its lock is held by one at a time, from *)
(* the preflight to the end of the matrix.  Which commands a phase         *)
(* consists of and what the guests check is left out: a phase passes or    *)
(* fails.                                                                  *)
(***************************************************************************)
EXTENDS Naturals, FiniteSets, Sequences

CONSTANTS
  None,         \* no run
  Runs,         \* run ids; a run's process exists while it is alive
  Targets,      \* the configured matrix, in order
  Required,     \* the targets that gate a release
  Selections,   \* what --distro and --required-only may select
  MaxParallel,  \* max_parallel_vms, 1 or 2
  MaxFaults     \* bound: failed commands and report writes, signals, kills

TargetIds == {Targets[i] : i \in DOMAIN Targets}

MatrixAssumption ==
  /\ Required \subseteq TargetIds /\ Required # {}
  /\ MaxParallel \in {1, 2}
  /\ Selections \subseteq SUBSET TargetIds \ {{}}

VARIABLES
  vm,         \* per run and target: "none", "created", "running" or "stopped"
  retained,   \* the VMs marked user.kidobo-e2e-retained
  manifest,   \* per run: ownership.json
  document,   \* per run: status, gate and emergency cleanup, as its process reports them
  report,     \* per run: the same in the report on disk, results.json
  pc,         \* per run: the step of its main thread
  option,     \* per run: selected targets, --keep-failed and the admitted parallelism
  lock,       \* the run that holds the project's lock, or None
  cancelled,  \* per run: the flag all its threads share
  left,       \* targets the lock holder has not started
  worker,     \* its workers, by target
  results,    \* the results its report has accepted
  failure,    \* a result could not be recorded
  faults,     \* faults so far
  passed      \* history: per run, the targets whose application phase passed

incus == <<vm, retained>>
disk == <<manifest, document, report>>
matrix == <<left, worker, results, failure>>
vars == <<incus, disk, pc, option, lock, cancelled, matrix, faults, passed>>

Instances == Runs \X TargetIds

\* A thread that does nothing.
NoWorker == [pc |-> "none", error |-> FALSE, diagnostics |-> FALSE, cleanup |-> FALSE,
             exists |-> FALSE]

Init ==
  /\ vm = [i \in Instances |-> "none"] /\ retained = {}
  /\ manifest = [r \in Runs |-> {}]
  /\ document = [r \in Runs |-> [status |-> "none", gate |-> FALSE, emergency |-> "none"]]
  /\ report = document
  /\ pc = [r \in Runs |-> "none"]
  /\ option = [r \in Runs |-> [targets |-> {}, keep |-> FALSE, parallel |-> 0]]
  /\ lock = None
  /\ cancelled = [r \in Runs |-> FALSE]
  /\ left = {} /\ worker = [t \in TargetIds |-> NoWorker]
  /\ results = {} /\ failure = FALSE
  /\ faults = 0
  /\ passed = [r \in Runs |-> {}]

-----------------------------------------------------------------------------
\* A run ends by itself, with its last report or without having been able to
\* write one, or is killed.
Alive(r) == pc[r] \notin {"none", "ended", "unreported", "killed"}
Exists(i) == vm[i] # "none"

Fault == faults < MaxFaults /\ faults' = faults + 1
NoFault == UNCHANGED faults

Go(r, next) == pc' = [pc EXCEPT ![r] = next]
Cancel(r) == cancelled' = [cancelled EXCEPT ![r] = TRUE]

\* The process is gone, and its flags; --keep-failed and the last document of one
\* that was not killed are still of interest.
Exit(r, next) ==
  /\ Go(r, next)
  /\ option' = [option EXCEPT ![r].targets = {}, ![r].parallel = 0,
                              ![r].keep = @ /\ next # "killed"]
  /\ cancelled' = [cancelled EXCEPT ![r] = FALSE]

\* Report::save of the document d; it may fail before or after the rename.
Save(r, d) ==
  document' = [document EXCEPT ![r] = d] /\ report' = [report EXCEPT ![r] = d]
SaveFails(r, d) ==
  /\ Fault /\ document' = [document EXCEPT ![r] = d]
  /\ report' \in {report, [report EXCEPT ![r] = d]}

\* The first report of a run.
Running(r) == [document[r] EXCEPT !.status = "running"]

\* After it, execute up to the lock, which nobody waits for: the host is checked and
\* the inputs are captured.  What was asked for is of no interest in a run that gets
\* no further.
Start(r) ==
  LET d == Running(r) IN
  /\ pc[r] = "none"
  /\ \/ /\ Save(r, d) /\ NoFault /\ lock = None /\ lock' = r /\ Go(r, "preflight")
        /\ \E s \in Selections, k \in BOOLEAN :
             option' = [option EXCEPT ![r].targets = s, ![r].keep = k]
        /\ UNCHANGED cancelled
     \/ /\ Save(r, d) /\ Go(r, "failed") /\ UNCHANGED <<option, lock>>
        /\ \/ lock # None /\ NoFault /\ UNCHANGED cancelled
           \/ Fault /\ (Cancel(r) \/ UNCHANGED cancelled)
     \/ SaveFails(r, d) /\ Exit(r, "unreported") /\ UNCHANGED lock
  /\ UNCHANGED <<incus, manifest, matrix, passed>>

\* SIGINT or SIGTERM.
Signal(r) ==
  /\ Alive(r) /\ ~ cancelled[r] /\ Fault /\ Cancel(r)
  /\ UNCHANGED <<incus, disk, pc, option, lock, matrix, passed>>

\* The lock is dropped when execute returns; matrix::execute has ended before.
Return(r, next) ==
  /\ Go(r, next) /\ lock' = None /\ option' = [option EXCEPT ![r].parallel = 0]
  /\ left' = {} /\ results' = {}

-----------------------------------------------------------------------------
(***************************************************************************)
(* Preflight: recover_abandoned looks at every instance of the project.    *)
(***************************************************************************)
\* Guests that must not stay as they are: every guest of another run but the
\* stopped, retained ones of runs whose process is gone.
Abandoned(r) ==
  {i \in Instances : i[1] # r /\ Exists(i)
                       /\ (Alive(i[1]) \/ i \notin retained \/ vm[i] # "stopped")}

\* A guest whose owner's process is gone is deleted, or stopped if it was
\* retained; any that cannot be, or has a living owner, fails the preflight when
\* all have been tried.  So does a lack of memory for one guest; then the empty
\* manifest and the report are saved.
Preflight(r) ==
  /\ pc[r] = "preflight"
  /\ UNCHANGED <<disk, cancelled, worker, failure, passed, retained>>
  /\ LET orphans == {i \in Abandoned(r) : ~ Alive(i[1])} IN
     \E handled \in SUBSET orphans :
       /\ vm' = [i \in Instances |->
            IF i \notin handled THEN vm[i] ELSE IF i \in retained THEN "stopped" ELSE "none"]
       /\ \/ /\ handled = Abandoned(r) /\ ~ cancelled[r] /\ NoFault
             /\ \E k \in 1 .. MaxParallel : option' = [option EXCEPT ![r].parallel = k]
             /\ left' = option[r].targets /\ Go(r, "chunk") /\ UNCHANGED <<lock, results>>
          \/ /\ \/ cancelled[r] /\ NoFault
                \/ ~ cancelled[r] /\ handled = orphans /\ NoFault
                \/ ~ cancelled[r] /\ Fault
             /\ Return(r, "failed")

-----------------------------------------------------------------------------
(***************************************************************************)
(* The matrix.                                                             *)
(***************************************************************************)
\* The first k of the targets left.
FirstLeft(k) ==
  {Targets[i] : i \in {j \in DOMAIN Targets :
     /\ Targets[j] \in left
     /\ Cardinality({h \in 1 .. j : Targets[h] \in left}) <= k}}

Chunk(r) == FirstLeft(option[r].parallel)

\* The chunk is written into ownership.json, target by target, and its workers
\* start; an error there goes to the emergency cleanup.
StartChunk(r) ==
  /\ pc[r] = "chunk" /\ left # {} /\ ~ cancelled[r]
  /\ \/ /\ manifest' = [manifest EXCEPT ![r] = @ \cup Chunk(r)]
        /\ worker' = [t \in TargetIds |->
             IF t \in Chunk(r) THEN [NoWorker EXCEPT !.pc = "init"] ELSE NoWorker]
        /\ left' = left \ Chunk(r) /\ Go(r, "receive") /\ NoFault
     \/ /\ \E k \in 0 .. option[r].parallel :
             manifest' = [manifest EXCEPT ![r] = @ \cup FirstLeft(k)]
        /\ Fault /\ Go(r, "emergency") /\ UNCHANGED <<left, worker>>
  /\ UNCHANGED <<incus, document, report, option, lock, cancelled, results, failure, passed>>

Becomes(t, w) == worker' = [worker EXCEPT ![t] = w]

\* The lifecycle phases of a worker, in order; "application" stands for all that
\* only use the guest: readiness, provisioning, reboot, validation, prerequisites
\* and the application itself.
NextPhase == [init |-> "start", start |-> "application", application |-> "finish"]

\* The state of a VM after the command of a phase.
AfterPhase(phase, state) ==
  CASE phase = "init" -> "created"
    [] phase = "start" -> "running"
    [] OTHER -> state

phaseFrame == <<disk, pc, option, lock, left, results, failure, retained>>

InPhase(r, t) == pc[r] = "receive" /\ worker[t].pc \in DOMAIN NextPhase

\* One phase of prepare, prerequisites or application passes.
PhasePasses(r, t) ==
  LET phase == worker[t].pc IN
  /\ InPhase(r, t) /\ ~ cancelled[r] /\ NoFault
  /\ vm' = [vm EXCEPT ![<<r, t>>] = AfterPhase(phase, @)]
  /\ Becomes(t, [worker[t] EXCEPT !.pc = NextPhase[phase]])
  /\ passed' = IF phase = "application" THEN [passed EXCEPT ![r] = @ \cup {t}] ELSE passed
  /\ UNCHANGED <<phaseFrame, cancelled>>

\* A command of a phase fails; a cancellation interrupts or refuses it.
PhaseFails(r, t) ==
  /\ InPhase(r, t)
  /\ IF cancelled[r] THEN NoFault ELSE Fault
  /\ vm' \in {vm, [vm EXCEPT ![<<r, t>>] = AfterPhase(worker[t].pc, @)]}
  /\ Becomes(t, [worker[t] EXCEPT !.pc = "finish", !.error = TRUE])
  /\ UNCHANGED <<phaseFrame, cancelled, passed>>

\* validate_profile: an unsuitable profile, found before the VM is created, cancels
\* the other workers too.
ProfileUnsuitable(r, t) ==
  /\ InPhase(r, t) /\ worker[t].pc = "init" /\ ~ cancelled[r] /\ Fault
  /\ Becomes(t, [worker[t] EXCEPT !.pc = "finish", !.error = TRUE]) /\ Cancel(r)
  /\ UNCHANGED <<phaseFrame, vm, passed>>

\* A worker that cannot write its report, or whose vendor diagnostics fail, ends
\* without a result and cancels the others.
Lose(r, t) ==
  /\ pc[r] = "receive" /\ worker[t].pc \notin {"none", "done", "lost"}
  /\ Fault /\ Cancel(r)
  /\ Becomes(t, [NoWorker EXCEPT !.pc = "lost"])
  /\ UNCHANGED <<incus, disk, pc, option, lock, left, results, failure, passed>>

\* finish, diagnostics: whether the VM exists is asked first; not knowing it
\* counts as existing.  A failed diagnosis fails the target and cancels the run.
Diagnose(r, t) ==
  LET w == worker[t] IN
  /\ pc[r] = "receive" /\ w.pc = "finish"
  /\ \/ NoFault /\ UNCHANGED cancelled
        /\ Becomes(t, [w EXCEPT !.pc = "cleanup", !.exists = Exists(<<r, t>>)])
     \/ Fault /\ UNCHANGED cancelled
        /\ Becomes(t, [w EXCEPT !.pc = "cleanup", !.exists = TRUE])
     \/ Exists(<<r, t>>) /\ Fault /\ Cancel(r)
        /\ Becomes(t, [w EXCEPT !.pc = "cleanup", !.exists = TRUE, !.diagnostics = TRUE])
  /\ UNCHANGED <<incus, disk, pc, option, lock, left, results, failure, passed>>

\* delete: the VM is verified first, so one that is missing is an error.
Deleted(i) == IF Exists(i) THEN {[vm EXCEPT ![i] = "none"]} ELSE {}

Stopped(i) == [vm EXCEPT ![i] = IF @ = "running" THEN "stopped" ELSE @]

\* Cleanup of finish: a failed target is kept if that was asked for, otherwise
\* the VM is deleted.  What cannot be cleaned up is stopped; if that fails as
\* well, as it does when nothing runs, the run is cancelled.
Cleanup(r, t) ==
  LET w == worker[t]
      i == <<r, t>>
      keep == option[r].keep /\ w.error
      done == [w EXCEPT !.pc = "send", !.exists = FALSE]
  IN
  /\ pc[r] = "receive" /\ w.pc = "cleanup"
  /\ UNCHANGED <<disk, pc, option, lock, left, results, failure, passed>>
  /\ \/ /\ ~ w.exists /\ Becomes(t, done)
        /\ NoFault /\ UNCHANGED <<incus, cancelled>>
     \/ /\ w.exists /\ keep /\ Exists(i) /\ Becomes(t, done)
        /\ vm' = [Stopped(i) EXCEPT ![i] = "stopped"] /\ retained' = retained \cup {i}
        /\ NoFault /\ UNCHANGED cancelled
     \/ /\ w.exists /\ ~ keep /\ Exists(i) /\ Becomes(t, done)
        /\ vm' \in Deleted(i)
        /\ NoFault /\ UNCHANGED <<retained, cancelled>>
     \/ /\ w.exists /\ Becomes(t, [done EXCEPT !.cleanup = TRUE])
        /\ IF Exists(i) THEN Fault ELSE NoFault
        /\ retained' \in {retained, retained \cup IF keep /\ Exists(i) THEN {i} ELSE {}}
        /\ \/ vm' = Stopped(i) /\ vm[i] = "running" /\ UNCHANGED cancelled
           \/ vm' \in {vm, Stopped(i)} /\ Cancel(r)
           \/ vm' \in Deleted(i) /\ ~ keep /\ Cancel(r)

\* Whether a recorded result counts as failed (outcome::result_failed).
Result(t, w) ==
  [target |-> t, failed |-> w.error \/ w.cleanup \/ w.diagnostics, cleanup |-> w.cleanup]

Record(t) == results' = results \cup {Result(t, worker[t])}

\* A worker sends its result and ends; Report::accept, by the main thread, takes
\* it before the chunk is over.  After a failure the rest is not recorded.
Accept(r, t) ==
  /\ pc[r] = "receive" /\ worker[t].pc = "send"
  /\ Becomes(t, [NoWorker EXCEPT !.pc = "done"])
  /\ \/ failure /\ NoFault /\ UNCHANGED <<results, cancelled, failure>>
     \/ ~ failure /\ Record(t) /\ NoFault /\ UNCHANGED <<cancelled, failure>>
     \/ ~ failure /\ Record(t) /\ Fault /\ failure' = TRUE /\ Cancel(r)
  /\ UNCHANGED <<incus, disk, pc, option, lock, left, passed>>

\* Report::accept of a worker's progress fails.
LoseProgress(r) ==
  /\ pc[r] = "receive" /\ ~ failure /\ Fault
  /\ \E t \in TargetIds : worker[t].pc # "none"
  /\ failure' = TRUE /\ Cancel(r)
  /\ UNCHANGED <<incus, disk, pc, option, lock, left, worker, results, passed>>

\* All threads of the chunk are joined; a lost worker ends the matrix.
Join(r) ==
  /\ pc[r] = "receive"
  /\ \A t \in TargetIds : worker[t].pc \in {"none", "done", "lost"}
  /\ Go(r, IF failure \/ \E t \in TargetIds : worker[t].pc = "lost" THEN "emergency" ELSE "chunk")
  /\ worker' = [t \in TargetIds |-> NoWorker] /\ failure' = FALSE
  /\ UNCHANGED <<incus, disk, option, lock, cancelled, left, results, faults, passed>>

\* The targets have passed.
AllPass(targets) ==
  \A t \in targets : \E m \in results : m.target = t /\ ~ m.failed

\* Mutant: the gate asks for the required targets that were selected.
GateOfSelected(r) ==
  /\ AllPass(Required \cap option[r].targets)
  /\ \A m \in results : ~ m.cleanup
  /\ ~ cancelled[r]

\* outcome::summarize: the gate asks for every configured required target.
ReleaseGatePassed(r) ==
  /\ AllPass(Required)
  /\ \A m \in results : ~ m.cleanup
  /\ ~ cancelled[r]

MatrixSucceeded(r) ==
  /\ ~ cancelled[r]
  /\ Cardinality(results) = Cardinality(option[r].targets)
  /\ AllPass(Required \cap option[r].targets)
  /\ \A m \in results : ~ m.cleanup

GoToEmergency(r) == Go(r, "emergency") /\ UNCHANGED <<option, lock, left, results>>

\* The end of execute_inner; a cancelled run has skipped the other chunks, and a
\* signal may come between the decision and its return.  The run fails as well
\* when the candidate archive has changed during the matrix.
Summarize(r) ==
  LET d == [document[r] EXCEPT !.gate = ReleaseGatePassed(r)] IN
  /\ pc[r] = "chunk" /\ (left = {} \/ cancelled[r])
  /\ \/ Save(r, d) /\ MatrixSucceeded(r) /\ Return(r, "passed") /\ NoFault /\ UNCHANGED cancelled
     \/ Save(r, d) /\ MatrixSucceeded(r) /\ Return(r, "failed") /\ Fault /\ UNCHANGED cancelled
     \/ Save(r, d) /\ MatrixSucceeded(r) /\ Cancel(r) /\ Fault /\ GoToEmergency(r)
     \/ Save(r, d) /\ ~ MatrixSucceeded(r) /\ NoFault /\ UNCHANGED cancelled /\ GoToEmergency(r)
     \/ SaveFails(r, d) /\ UNCHANGED cancelled /\ GoToEmergency(r)
  /\ UNCHANGED <<incus, manifest, worker, failure, passed>>

\* Mutant: a run that was cancelled leaves its guests to the next one.
EmergencyUnlessCancelled(r) ==
  /\ pc[r] = "emergency"
  /\ \/ cancelled[r] /\ NoFault /\ UNCHANGED incus
     \/ /\ ~ cancelled[r] /\ NoFault /\ UNCHANGED retained
        /\ vm' = [i \in Instances |-> IF i[1] = r /\ i[2] \in manifest[r] THEN "none" ELSE vm[i]]
  /\ Save(r, [document[r] EXCEPT !.emergency = "completed"])
  /\ Return(r, "failed")
  /\ UNCHANGED <<manifest, cancelled, worker, failure, passed>>

\* The guests of the manifest that exist.
Owned(r) == {i \in Instances : i[1] = r /\ i[2] \in manifest[r] /\ Exists(i)}

\* matrix::execute after an error, cancelled or not: the guests of the manifest
\* that exist are retained or deleted, each on its own.  What became of them is
\* recorded; that the record cannot be saved is ignored.
Emergency(r) ==
  LET keep == option[r].keep
      d(outcome) == [document[r] EXCEPT !.emergency = outcome]
  IN
  /\ pc[r] = "emergency"
  /\ \E handled \in SUBSET Owned(r), marked \in SUBSET Owned(r) :
       /\ handled \subseteq marked /\ (keep \/ marked = handled)
       /\ vm' = [i \in Instances |->
            IF i \notin handled THEN vm[i] ELSE IF keep THEN "stopped" ELSE "none"]
       /\ retained' = IF keep THEN retained \cup marked ELSE retained
       /\ \/ handled = Owned(r) /\ Save(r, d("completed")) /\ NoFault
          \/ handled = Owned(r) /\ SaveFails(r, d("completed"))
          \/ Save(r, d("failed")) /\ Fault
          \/ SaveFails(r, d("failed"))
  /\ Return(r, "failed")
  /\ UNCHANGED <<manifest, cancelled, worker, failure, passed>>

-----------------------------------------------------------------------------
(***************************************************************************)
(* The end of run, after the lock: the status, the archived evidence, and  *)
(* the gate again.  A save that fails here ends the run as it is.          *)
(***************************************************************************)
Status(r) ==
  IF cancelled[r] THEN "interrupted" ELSE IF pc[r] = "passed" THEN "passed" ELSE "failed"

SaveStatus(r) ==
  LET d == [document[r] EXCEPT !.status = Status(r)] IN
  /\ pc[r] \in {"passed", "failed"}
  /\ \/ Save(r, d) /\ NoFault /\ Go(r, "archive") /\ UNCHANGED <<option, cancelled>>
     \/ SaveFails(r, d) /\ Exit(r, "unreported")
  /\ UNCHANGED <<incus, manifest, lock, matrix, passed>>

\* The evidence is archived whatever the status is; an archive that fails makes
\* it failed.  The cancellation is not read again.  The report is saved, then the
\* gate of a run that has not passed is closed and the report saved once more.
Archive(r) ==
  LET broken == [document[r] EXCEPT !.status = "failed"]
      closed(d) == [d EXCEPT !.gate = @ /\ d.status = "passed"]
  IN
  /\ pc[r] = "archive"
  /\ \/ Save(r, closed(document[r])) /\ NoFault /\ Exit(r, "ended")
     \/ Save(r, closed(broken)) /\ Fault /\ Exit(r, "ended")
     \/ \E d \in {document[r], broken} : \E e \in {d, closed(d)} :
          SaveFails(r, e) /\ Exit(r, "unreported")
  /\ UNCHANGED <<incus, manifest, lock, matrix, passed>>

\* The process is killed, its threads with it.
Kill(r) ==
  /\ Alive(r) /\ Fault /\ Exit(r, "killed")
  /\ IF lock = r
     THEN /\ lock' = None
          /\ left' = {} /\ results' = {} /\ worker' = [t \in TargetIds |-> NoWorker]
          /\ failure' = FALSE
     ELSE UNCHANGED <<lock, matrix>>
  /\ document' = [document EXCEPT ![r] = report[r]]
  /\ UNCHANGED <<incus, manifest, report, passed>>

\* The clean command: under the lock, whatever is marked, whether or not the run
\* that is cleaned up has ended.  What it logs in that run's report is left out.
CleanCommand(r) ==
  /\ lock = None /\ Owned(r) # {}
  /\ \E handled \in SUBSET Owned(r) :
       /\ \/ handled = Owned(r) /\ NoFault
          \/ handled # {} /\ Fault
       /\ vm' = [i \in Instances |-> IF i \in handled THEN "none" ELSE vm[i]]
       /\ retained' = retained \ handled
  /\ UNCHANGED <<disk, pc, option, lock, cancelled, matrix, passed>>

\* No command runs: the host may stay as it is.
Rest == (\A r \in Runs : ~ Alive(r)) /\ UNCHANGED vars

Next ==
  \/ \E r \in Runs :
       \/ Start(r) \/ Signal(r) \/ Preflight(r) \/ StartChunk(r)
       \/ LoseProgress(r) \/ Join(r)
       \/ Summarize(r) \/ Emergency(r) \/ SaveStatus(r) \/ Archive(r) \/ Kill(r)
       \/ CleanCommand(r)
       \/ \E t \in TargetIds :
            \/ PhasePasses(r, t) \/ PhaseFails(r, t) \/ ProfileUnsuitable(r, t)
            \/ Lose(r, t) \/ Diagnose(r, t) \/ Cleanup(r, t) \/ Accept(r, t)
  \/ Rest

Spec == Init /\ [][Next]_vars
-----------------------------------------------------------------------------
(***************************************************************************)
(* No guest is lost.  Every VM is in the manifest of its run before it     *)
(* exists, whenever the run is killed.  A run that ended by itself has     *)
(* left no VM unless it was asked to keep failed ones and marked it, or    *)
(* its report says that the cleanup failed; the report on disk says so     *)
(* too unless the run could not write it.  And while a run's matrix is     *)
(* under way, no VM of another run is there but stopped, retained ones.    *)
(***************************************************************************)
NothingLeftBehind ==
  \A i \in Instances : Exists(i) =>
    LET r == i[1] IN
    /\ i[2] \in manifest[r]
    /\ pc[r] \in {"passed", "failed", "archive", "ended", "unreported"} =>
         \/ option[r].keep /\ i \in retained
         \/ /\ document[r].emergency = "failed"
            /\ pc[r] = "ended" => report[r].emergency = "failed"
    /\ \A other \in Runs \ {r} :
         pc[other] \in {"chunk", "receive"} => i \in retained /\ vm[i] = "stopped"

(***************************************************************************)
(* The release gate is earned: a report that says passed with the gate     *)
(* open belongs to a run in which every required target of the             *)
(* configuration, selected or not, went through all of its phases, and     *)
(* whose guests of those targets are gone.                                 *)
(***************************************************************************)
GateIsEarned ==
  \A r \in Runs :
    report[r].status = "passed" /\ report[r].gate =>
      /\ Required \subseteq passed[r]
      /\ \A t \in Required : ~ Exists(<<r, t>>)
      /\ report[r].emergency = "none"
=============================================================================
