---------------------------- MODULE GuestChecks ----------------------------
(***************************************************************************)
(* The application phases of one guest of the end-to-end tool: a script    *)
(* runs in the guest and writes what it checks, as marker lines, to the    *)
(* file that captures its stderr, while the host reads the same file,      *)
(* keeps the report and decides whether the phase passed.                  *)
(*                                                                         *)
(* A piece is what one write puts into the file: a marker, other output    *)
(* ("noise"), or more output than a pending line may hold ("long"); it may *)
(* or may not end its line.  A read returns any number of pieces.  Names   *)
(* and details of checks, the transcript and what goes to stdout are left  *)
(* out.  A phase is one command, and its id; the `incus list` before it    *)
(* and the restart between two phases (GuestReboot) only succeed or fail.  *)
(* A kill of the tool leaves results.json as it is at that moment.         *)
(***************************************************************************)
EXTENDS Naturals, Sequences, FiniteSets, SequencesExt

CONSTANTS
  None,       \* no piece, no error, no result
  Checks,     \* names of checks
  Phases,     \* the phases in order, each its expected inventory
  Pieces,     \* what the script of each phase may write
  DrainReads, \* reads of one drain
  MaxPieces,  \* bound: pieces per command, for each phase
  MaxTrailing, \* bound: pieces of them written after the script exited
  MaxFaults   \* bound: failed commands and report writes, cancellations, kills

Marks == {"PLAN", "START", "PASS", "FAIL", "BAD"}
PieceType == [what : Marks \cup {"noise", "long"}, check : Checks, ended : BOOLEAN]

GuestChecksAssumption ==
  /\ Phases \in Seq([Checks -> Nat])
  /\ Pieces \in [DOMAIN Phases -> SUBSET PieceType]
  /\ \A p \in DOMAIN Phases : \E c \in Checks : Phases[p][c] > 0
  /\ DrainReads > 0

VARIABLES
  script,     \* the command in the guest: its state and exit code
  text,       \* the captured stderr of the current command
  closed,     \* history: pieces in it when the script exited
  reader,     \* position, first piece of the line being assembled, reads left, captured length
  host,       \* the runner: its step, phase and the error of its command
  doc,        \* the report's document in memory
  results,    \* results.json
  failed,     \* the report's flag: a mandatory write failed
  cancelled,  \* the flag all threads of the run share
  late,       \* the deadline of the current command has passed
  faults,     \* faults so far
  shown,      \* history: the phases the guest's own output shows as passed
  result      \* what the target's trial ended with

guestVars == <<script, text, closed>>
report == <<doc, results, failed>>
env == <<cancelled, late>>
vars == <<guestVars, reader, host, report, env, faults, shown, result>>

NoScript == [state |-> "none", code |-> 0]
NoReader == [at |-> 0, pending |-> None, reads |-> DrainReads, end |-> 0]

Init ==
  /\ script = NoScript /\ text = <<>> /\ closed = 0
  /\ reader = NoReader
  /\ host = [pc |-> "stage", phase |-> 1, error |-> None]
  /\ doc = [checks |-> <<>>, errors |-> {}, stages |-> <<>>]
  /\ results = doc
  /\ failed = FALSE /\ cancelled = FALSE /\ late = FALSE
  /\ faults = 0
  /\ shown = {}
  /\ result = None

-----------------------------------------------------------------------------
(* The report.                                                             *)

\* Saving replaces results.json by the whole document, or fails and says so.
Save(new, fails) ==
  /\ doc' = new
  /\ results' = IF fails THEN results ELSE new
  /\ failed' = (failed \/ fails)
  /\ fails => faults < MaxFaults
  /\ faults' = IF fails THEN faults + 1 ELSE faults

\* The last check of command `id` with that name and status, 0 if there is none.
LastCheck(d, id, name, status) ==
  LET Found == {i \in DOMAIN d.checks : d.checks[i] = [command |-> id, name |-> name, status |-> status]}
  IN  IF Found = {} THEN 0 ELSE CHOOSE i \in Found : \A j \in Found : j <= i

WithStatus(d, i, status) == [d EXCEPT !.checks[i].status = status]
WithCheck(d, id, name, status) ==
  [d EXCEPT !.checks = Append(@, [command |-> id, name |-> name, status |-> status])]
MarkerError(d, id) == [d EXCEPT !.errors = @ \cup {id}]

\* A bug: an outcome is taken for the last check of that name whatever its state.
OutcomeUnmatched(d, id, name, status) ==
  LET At == {i \in DOMAIN d.checks : d.checks[i].command = id /\ d.checks[i].name = name}
  IN  IF At = {} THEN MarkerError(d, id)
      ELSE WithStatus(d, CHOOSE i \in At : \A j \in At : j <= i, status)

\* An outcome belongs to the last check of that name that is running.
Outcome(d, id, name, status) ==
  LET i == LastCheck(d, id, name, "running")
  IN  IF i = 0 THEN MarkerError(d, id) ELSE WithStatus(d, i, status)

\* What one complete marker line does to the document.
Marked(d, id, piece) ==
  LET planned == LastCheck(d, id, piece.check, "not-run")
  IN  CASE piece.what = "BAD" -> MarkerError(d, id)
        [] piece.what = "PLAN" -> IF planned > 0 THEN d ELSE WithCheck(d, id, piece.check, "not-run")
        [] piece.what = "START" -> IF planned > 0 THEN WithStatus(d, planned, "running")
                                   ELSE WithCheck(d, id, piece.check, "running")
        [] piece.what = "PASS" -> Outcome(d, id, piece.check, "passed")
        [] piece.what = "FAIL" -> Outcome(d, id, piece.check, "failed")

\* A bug: what was left of a line is dropped at the end of each read.
AssembledPerRead(pending, piece) == piece

\* The piece the line being assembled begins with.  A line that grows beyond the bound is
\* no marker, whatever it began with.
Assembled(pending, piece) ==
  IF piece.what = "long" THEN piece
  ELSE IF pending = None THEN piece ELSE pending

\* The document and the pending line after one more piece.
Markers(state, id, piece) ==
  LET line == Assembled(state.pending, piece)
  IN  IF ~piece.ended THEN [state EXCEPT !.pending = line]
      ELSE [doc |-> IF line.what \in Marks THEN Marked(state.doc, id, line) ELSE state.doc,
            pending |-> None]

\* At the end of a command no check is left running, and none is left planned unless it failed.
FinishChecks(d, id, status) ==
  LET Ends(check) ==
        /\ check.command = id
        /\ \/ check.status = "running"
           \/ status = "incomplete" /\ check.status = "not-run"
  IN  [d EXCEPT !.checks = [i \in DOMAIN @ |->
        IF ~Ends(@[i]) THEN @[i]
        ELSE [@[i] EXCEPT !.status = IF status = "interrupted" THEN "interrupted" ELSE "failed"]]]

\* Entering a phase closes the stage before it as passed.
Staged(d, phase) ==
  [d EXCEPT !.stages = Append([i \in DOMAIN @ |-> IF @[i] = "running" THEN "passed" ELSE @[i]], "running")]
FinishStage(d, status) ==
  [d EXCEPT !.stages = [i \in DOMAIN @ |-> IF @[i] = "running" THEN status ELSE @[i]]]

-----------------------------------------------------------------------------
(* The contract.                                                           *)

OfCommand(d, id) == {i \in DOMAIN d.checks : d.checks[i].command = id}

\* A bug: checks that were never expected are not looked at.
ValidInventoryOfExpected(d, id, expected) ==
  /\ \A c \in Checks :
       Cardinality({i \in OfCommand(d, id) : d.checks[i].name = c /\ d.checks[i].status = "passed"}) = expected[c]
  /\ id \notin d.errors

\* Exactly the expected checks, each as often as expected, all passed.
ValidInventory(d, id, expected) ==
  /\ \A i \in OfCommand(d, id) :
       expected[d.checks[i].name] > 0 /\ d.checks[i].status = "passed"
  /\ \A c \in Checks : Cardinality({i \in OfCommand(d, id) : d.checks[i].name = c}) = expected[c]
  /\ id \notin d.errors
-----------------------------------------------------------------------------
(* What the guest itself shows, read from its whole output at once.        *)

\* A marker counts where a whole line that began with it has been captured.
Shows(what, check) ==
  LET Begins(i) == i = 1 \/ text[i - 1].ended
      Whole(i, j) == /\ text[j].ended
                     /\ \A k \in i..(j - 1) : ~text[k].ended
                     /\ \A k \in i..j : text[k].what # "long"
  IN  {i \in 1..reader.at :
         /\ text[i].what = what /\ text[i].check = check
         /\ Begins(i) /\ \E j \in i..reader.at : Whole(i, j)}

\* The script did what the phase expects of it, by all it wrote before it exited.
PhaseShown(p) ==
  /\ script.state = "exited" /\ script.code = 0
  /\ closed <= reader.at
  /\ \A c \in Checks :
       LET Before(S, i) == {j \in S : j < i}
           started == Shows("START", c)
           passed == Shows("PASS", c)
       IN  /\ Shows("BAD", c) = {} /\ Shows("FAIL", c) = {}
           /\ Cardinality(started) = Phases[p][c] /\ Cardinality(passed) = Phases[p][c]
           /\ \A i \in passed : Cardinality(Before(passed, i)) < Cardinality(Before(started, i))
           /\ \A i \in Shows("PLAN", c) : \E j \in started : i < j

-----------------------------------------------------------------------------
(* The script in the guest.                                                *)

\* The script writes while it runs; a process it left behind may still write afterwards.
Write ==
  /\ script.state \in {"running", "exited"}
  /\ Len(text) < MaxPieces[host.phase]
  /\ script.state = "exited" => Len(text) < closed + MaxTrailing
  /\ \E piece \in Pieces[host.phase] : text' = Append(text, piece)
  /\ UNCHANGED <<script, closed, reader, host, report, env, faults, shown, result>>

Exit ==
  /\ script.state = "running"
  /\ \E code \in {0, 1} : script' = [script EXCEPT !.state = "exited", !.code = code]
  /\ closed' = Len(text)
  /\ UNCHANGED <<text, reader, host, report, env, faults, shown, result>>

\* A script that never exits hangs, in the worst case writing other output for ever.
Chatter ==
  /\ script.state = "running"
  /\ script' = [script EXCEPT !.state = "endless"]
  /\ UNCHANGED <<text, closed, reader, host, report, env, faults, shown, result>>

-----------------------------------------------------------------------------
(* The runner.                                                             *)

Goto(pc) == host' = [host EXCEPT !.pc = pc]
EndsWith(pc, error) == host' = [host EXCEPT !.pc = pc, !.error = error]

\* A save that fails ends the trial.
SaveThen(new, next) ==
  \E fails \in BOOLEAN :
    /\ Save(new, fails)
    /\ IF fails THEN EndsWith("over", "report") ELSE next

Stage ==
  /\ host.pc = "stage"
  /\ SaveThen(Staged(doc, host.phase), Goto("begin"))
  /\ UNCHANGED <<guestVars, reader, env, shown, result>>

\* What precedes the command fails: the VM is not the suite's, or does not come back.
NotReady ==
  /\ host.pc = "begin" /\ faults < MaxFaults
  /\ faults' = faults + 1
  /\ EndsWith("over", "not ready")
  /\ UNCHANGED <<guestVars, reader, report, env, shown, result>>

Begin ==
  /\ host.pc = "begin"
  /\ IF cancelled
     THEN script' = NoScript /\ SaveThen(doc, EndsWith("settle", "interrupted"))
     ELSE script' = [state |-> "running", code |-> 0] /\ SaveThen(doc, EndsWith("read", None))
  /\ UNCHANGED <<text, closed, reader, env, shown, result>>

NotSpawned ==
  /\ host.pc = "begin" /\ ~cancelled /\ faults < MaxFaults
  /\ faults' = faults + 1
  /\ EndsWith("settle", "spawn failed")
  /\ UNCHANGED <<guestVars, reader, report, env, shown, result>>

\* One read takes what is there, or a part; its pieces go to the report one after the other
\* until one cannot be written.
Read(reads, next, onFailure) ==
  \E n \in 1..(Len(text) - reader.at), fails \in BOOLEAN :
    \E done \in IF fails THEN 0..n ELSE {n} :
      LET after == FoldLeft(LAMBDA state, piece : Markers(state, host.phase, piece),
                            [doc |-> doc, pending |-> reader.pending],
                            SubSeq(text, reader.at + 1, reader.at + done))
      IN  /\ Save(after.doc, fails)
          /\ reader' = [reader EXCEPT !.at = @ + n, !.pending = after.pending, !.reads = reads]
          /\ IF fails THEN onFailure ELSE next

\* One read fewer.
Spent(reads) == IF reads > 0 THEN reads - 1 ELSE 0

\* A bug: a drain goes on until there is nothing to read.
DrainedWhenQuiet == reader.at = Len(text) /\ script.state # "endless"

\* A drain ends when nothing is left to read, or after its number of reads.
Drained ==
  \/ reader.reads = 0
  \/ reader.at = Len(text) /\ script.state # "endless"

Drain ==
  /\ host.pc = "read" /\ ~Drained
  /\ IF reader.at < Len(text)
     THEN Read(Spent(reader.reads), UNCHANGED host, EndsWith("stop", "report"))
     ELSE /\ reader' = [reader EXCEPT !.reads = Spent(@)]  \* endless other output
          /\ UNCHANGED <<host, report, faults>>
  /\ UNCHANGED <<guestVars, env, shown, result>>

\* After a drain: has the script ended, is the run cancelled, is the deadline over?
Poll ==
  /\ host.pc = "read" /\ Drained
  /\ IF script.state = "exited" THEN Goto("measure") /\ UNCHANGED reader
     ELSE IF cancelled THEN EndsWith("stop", "interrupted") /\ UNCHANGED reader
     ELSE IF late THEN EndsWith("stop", "timed out") /\ UNCHANGED reader
     ELSE reader' = [reader EXCEPT !.reads = DrainReads] /\ UNCHANGED host
  /\ UNCHANGED <<guestVars, report, env, faults, shown, result>>

\* A bug: what the file holds when the script is seen to have ended has been read.
CapturedIsRead == reader.at

\* What the file holds when the script is seen to have ended, written by it or by a
\* process it left behind.
Captured == Len(text)

Measure ==
  /\ host.pc = "measure"
  /\ reader' = [reader EXCEPT !.end = Captured, !.reads = 0]
  /\ Goto("rest")
  /\ UNCHANGED <<guestVars, report, env, faults, shown, result>>

\* The rest is drained, however many reads it takes.
Rest ==
  /\ host.pc = "rest"
  /\ IF reader.at < reader.end
     THEN Read(0, UNCHANGED host, EndsWith("settle", "report"))
     ELSE /\ EndsWith("settle", IF script.code = 0 THEN None ELSE "exited")
          /\ UNCHANGED <<reader, report, faults>>
  /\ UNCHANGED <<guestVars, env, shown, result>>

\* The command's process group is killed; what it wrote until then is read as far as the
\* report can be written.
Terminate ==
  /\ host.pc = "stop"
  /\ script' = [script EXCEPT !.state = "killed"]
  /\ reader' = [reader EXCEPT !.end = Len(text), !.reads = 0]
  /\ Goto("last")
  /\ UNCHANGED <<text, closed, report, env, faults, shown, result>>

ReadLast ==
  /\ host.pc = "last"
  /\ IF reader.at < reader.end
     THEN Read(0, UNCHANGED host, Goto("settle"))
     ELSE Goto("settle") /\ UNCHANGED <<reader, report, faults>>
  /\ UNCHANGED <<guestVars, env, shown, result>>

Settle ==
  /\ host.pc = "settle"
  /\ SaveThen(FinishChecks(doc, host.phase, IF host.error = None THEN "incomplete" ELSE host.error),
              Goto("judge"))
  /\ reader' = [reader EXCEPT !.pending = None]
  /\ UNCHANGED <<guestVars, env, shown, result>>

\* A command that ended well passes when the contract is met; the next phase begins.
Judge ==
  /\ host.pc = "judge"
  /\ LET error == IF host.error = None /\ ~ValidInventory(doc, host.phase, Phases[host.phase])
                  THEN "contract" ELSE host.error
     IN  SaveThen(doc, IF error # None \/ host.phase = Len(Phases) THEN EndsWith("over", error)
                       ELSE host' = [pc |-> "stage", phase |-> host.phase + 1, error |-> None])
  /\ shown' = IF PhaseShown(host.phase) THEN shown \cup {host.phase} ELSE shown
  /\ script' = NoScript /\ text' = <<>> /\ closed' = 0 /\ reader' = NoReader /\ late' = FALSE
  /\ UNCHANGED <<cancelled, result>>

\* Every mandatory write succeeded.
Healthy == ~failed

\* The trial's last stage is closed and its outcome kept for the result; a trial whose
\* report is not complete is lost, and cancels the run.
Over ==
  /\ host.pc = "over"
  /\ LET passes == host.error = None
     IN  IF ~Healthy
         THEN /\ result' = "lost" /\ cancelled' = TRUE
              /\ UNCHANGED <<report, faults>>
         ELSE \E fails \in BOOLEAN :
                /\ Save(FinishStage(doc, IF passes THEN "passed" ELSE "failed"), fails)
                /\ result' = IF fails THEN "lost" ELSE IF passes THEN "passed" ELSE "failed"
                /\ cancelled' = (cancelled \/ fails)
  /\ Goto("done")
  /\ UNCHANGED <<guestVars, reader, late, shown>>

\* A signal, or another target's thread, cancels the run.
Cancel ==
  /\ ~cancelled /\ faults < MaxFaults /\ host.pc # "done"
  /\ cancelled' = TRUE /\ faults' = faults + 1
  /\ UNCHANGED <<guestVars, reader, host, report, late, shown, result>>

\* The command's time is over.
Expire ==
  /\ host.pc = "read" /\ script.state = "endless" /\ ~late
  /\ late' = TRUE
  /\ UNCHANGED <<guestVars, reader, host, report, cancelled, faults, shown, result>>

Done == host.pc = "done" /\ UNCHANGED vars

Capture == Drain \/ Poll \/ Measure \/ Rest \/ Terminate \/ ReadLast
Runner == Stage \/ NotReady \/ Begin \/ NotSpawned \/ Capture \/ Settle \/ Judge \/ Over
Next == Write \/ Exit \/ Chatter \/ Runner \/ Cancel \/ Expire \/ Done

\* The host goes on, and time does; the script exits or hangs.
Spec == Init /\ [][Next]_vars /\ WF_vars(Capture) /\ WF_vars(Expire) /\ WF_vars(Exit \/ Chatter)

-----------------------------------------------------------------------------
(* Properties.                                                             *)

TypeOK ==
  /\ script.state \in {"none", "running", "endless", "exited", "killed"} /\ text \in Seq(PieceType)
  /\ reader.at \in 0..Len(text) /\ reader.pending \in PieceType \cup {None}
  /\ host.phase \in DOMAIN Phases
  /\ \A i \in DOMAIN doc.checks : doc.checks[i].status \in {"not-run", "running", "passed", "failed", "interrupted"}
  /\ result \in {None, "passed", "failed", "lost"}

\* The phases the runner has accepted.
Accepted == (1..(host.phase - 1)) \cup IF host.pc \in {"over", "done"} /\ host.error = None THEN {host.phase} ELSE {}

\* The script's own account of a phase decides, however its output was cut into reads and
\* whoever wrote in between: a phase is accepted only if the script exited with 0 after
\* showing exactly the expected checks pass, and refused on the contract only if it did not.
AcceptedAsShown ==
  /\ Accepted \subseteq shown
  /\ host.error = "contract" => host.phase \notin shown

\* Whenever the tool is killed, results.json shows no stage passed that was not, and no check
\* passed more often than the guest said so, while the report is complete; a trial that passes leaves the whole evidence.
EvidenceIsTrue ==
  LET Passed(id, c) == {i \in DOMAIN results.checks :
                          results.checks[i] = [command |-> id, name |-> c, status |-> "passed"]}
  IN  /\ \A p \in DOMAIN results.stages : results.stages[p] = "passed" => p \in shown
      /\ ~failed /\ host.pc \in {"read", "measure", "rest", "stop", "last", "settle", "judge"} =>
           \A c \in Checks : Cardinality(Passed(host.phase, c)) <= Cardinality(Shows("PASS", c))
      /\ result = "passed" =>
           \A p \in DOMAIN Phases, c \in Checks : Cardinality(Passed(p, c)) = Phases[p][c]

\* A command ends although the script writes without end, and nobody cancels it.
Capturing == host.pc \in {"read", "measure", "rest", "stop", "last"}
CommandEnds == Capturing ~> ~Capturing
=============================================================================
