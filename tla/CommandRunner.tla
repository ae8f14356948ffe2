--------------------------- MODULE CommandRunner ---------------------------
(***************************************************************************)
(* The execution of one external command under a deadline                  *)
(* (crates/kidobo-adapters/src/command_runner.rs): spawn in a process      *)
(* group of its own, a loop that polls the child and drains two            *)
(* nonblocking pipes, and the termination of the group on any error.       *)
(*                                                                         *)
(* The command is not trusted to behave: it writes any amount, closes or   *)
(* keeps its pipes, never ends, or leaves a descendant behind that has     *)
(* them open.  This is what makes a command of Firewall and Ipset a step   *)
(* that ends.  Kidobo runs as root and may signal every process.           *)
(***************************************************************************)
EXTENDS Naturals, FiniteSets

CONSTANTS
  Timeout,      \* ticks until the deadline
  OutputLimit,  \* DEFAULT_COMMAND_OUTPUT_LIMIT, in units of output
  ReadSize,     \* the buffer of drain_output
  PipeSize,     \* what a pipe holds before its writer blocks
  MaxOutput,    \* bound: what the command writes to one pipe
  MaxFaults     \* bound: failing system calls

ASSUME TimeoutAssumption == Timeout \in Nat \ {0}
ASSUME SizeAssumption ==
  /\ {OutputLimit, MaxOutput, MaxFaults} \subseteq Nat
  /\ {ReadSize, PipeSize} \subseteq Nat \ {0}

Streams == {"stdout", "stderr"}
Procs == {"child", "descendant"}

VARIABLES
  pc,       \* what execute does next
  elapsed,  \* ticks since the loop began
  status,   \* the exit code that try_wait returned, or "none"
  bytes,    \* units collected from each pipe
  eof,      \* stdout_eof, stderr_eof
  result,
  proc,     \* the processes: "unborn", "running", "dead" (a zombie) or "reaped"
  group,    \* those in the command's process group
  open,     \* the pipes each has open for writing
  code,     \* the child's exit code
  pipe,     \* units in each pipe
  wrote,    \* units ever written to each
  faults    \* system calls that failed

vars == <<pc, elapsed, status, bytes, eof, result, proc, group, open, code, pipe, wrote, faults>>

os == <<proc, group, open, code, wrote>>

Init ==
  /\ pc = "spawn"
  /\ elapsed = 0 /\ status = "none"
  /\ bytes = [s \in Streams |-> 0] /\ eof = [s \in Streams |-> FALSE]
  /\ result = "none"
  /\ proc = [p \in Procs |-> "unborn"] /\ group = {}
  /\ open = [p \in Procs |-> {}] /\ code = "none"
  /\ pipe = [s \in Streams |-> 0] /\ wrote = [s \in Streams |-> 0]
  /\ faults = 0

-----------------------------------------------------------------------------
(***************************************************************************)
(* SystemCommandExecutor::execute.                                         *)
(***************************************************************************)
Fault == faults < MaxFaults /\ faults' = faults + 1

SpawnOk ==
  /\ pc = "spawn"
  /\ proc' = [proc EXCEPT !["child"] = "running"]
  /\ group' = {"child"}
  /\ open' = [open EXCEPT !["child"] = Streams]
  /\ pc' = "nonblocking"
  /\ UNCHANGED <<elapsed, status, bytes, eof, result, code, pipe, wrote, faults>>

\* Nothing was started, so nothing is terminated.
SpawnFails ==
  /\ pc = "spawn" /\ Fault
  /\ result' = "spawn" /\ pc' = "done"
  /\ UNCHANGED <<elapsed, status, bytes, eof, os, pipe>>

\* collect_output returns an error; execute terminates the process tree.
Abort(error) == result' = error /\ pc' = "terminate"

SetNonblocking ==
  /\ pc = "nonblocking"
  /\ \/ pc' = "deadline" /\ UNCHANGED <<result, faults>>
     \/ Fault /\ Abort("output")
  /\ UNCHANGED <<elapsed, status, bytes, eof, os, pipe>>

CheckDeadline ==
  /\ pc = "deadline"
  /\ IF elapsed = Timeout THEN Abort("timeout") ELSE pc' = "wait" /\ UNCHANGED result
  /\ UNCHANGED <<elapsed, status, bytes, eof, os, pipe, faults>>

TryWait ==
  /\ pc = "wait"
  /\ \/ /\ status = "none" /\ proc["child"] = "dead"
        /\ status' = code
        /\ proc' = [proc EXCEPT !["child"] = "reaped"]
        /\ pc' = "stdout" /\ UNCHANGED <<result, faults>>
     \/ /\ status # "none" \/ proc["child"] # "dead"
        /\ pc' = "stdout" /\ UNCHANGED <<status, proc, result, faults>>
     \/ /\ status = "none" /\ Fault /\ Abort("poll")
        /\ UNCHANGED <<status, proc>>
  /\ UNCHANGED <<elapsed, bytes, eof, group, open, code, pipe, wrote>>

Least(x, y) == IF x < y THEN x ELSE y

Exceeds(s, count) == bytes[s] + count > OutputLimit

\* drain_output: one read; nothing there and nobody left to write is the end.
DrainOutput(s, next) ==
  LET count == Least(pipe[s], ReadSize)
      written == \E p \in Procs : s \in open[p] IN
  \/ /\ eof[s] \/ (pipe[s] = 0 /\ written)
     /\ pc' = next /\ UNCHANGED <<bytes, eof, pipe, result, faults>>
  \/ /\ ~ eof[s] /\ pipe[s] = 0 /\ ~ written
     /\ eof' = [eof EXCEPT ![s] = TRUE]
     /\ pc' = next /\ UNCHANGED <<bytes, pipe, result, faults>>
  \/ /\ ~ eof[s] /\ count > 0
     /\ pipe' = [pipe EXCEPT ![s] = @ - count]
     /\ IF Exceeds(s, count)
        THEN Abort("output") /\ UNCHANGED bytes
        ELSE bytes' = [bytes EXCEPT ![s] = @ + count] /\ pc' = next /\ UNCHANGED result
     /\ UNCHANGED <<eof, faults>>
  \/ /\ ~ eof[s] /\ Fault /\ Abort("output") /\ UNCHANGED <<bytes, eof, pipe>>

\* Mutant: the first pipe is read to its end before the second.
DrainInTurn ==
  /\ \/ pc = "stdout" /\ DrainOutput("stdout", IF eof["stdout"] THEN "stderr" ELSE "ready")
     \/ pc = "stderr" /\ DrainOutput("stderr", "ready")
  /\ UNCHANGED <<elapsed, status, os>>

Drain ==
  /\ \/ pc = "stdout" /\ DrainOutput("stdout", "stderr")
     \/ pc = "stderr" /\ DrainOutput("stderr", "ready")
  /\ UNCHANGED <<elapsed, status, os>>

\* Mutant: the child's end is the command's end.
CompleteOnExit == status # "none"

Complete == status # "none" /\ \A s \in Streams : eof[s]

Ready ==
  /\ pc = "ready"
  /\ IF Complete THEN result' = "ok" /\ pc' = "done" ELSE pc' = "poll" /\ UNCHANGED result
  /\ UNCHANGED <<elapsed, status, bytes, eof, os, pipe, faults>>

\* poll returns when a pipe is ready and after at most ten milliseconds.
Poll ==
  /\ pc = "poll"
  /\ \/ pc' = "deadline" /\ UNCHANGED <<result, faults>>
     \/ Fault /\ Abort("output")
  /\ UNCHANGED <<elapsed, status, bytes, eof, os, pipe>>

\* What a signal does: the process ends and its pipes are closed.
Killed(victims) ==
  /\ proc' = [p \in Procs |->
       IF p \in victims /\ proc[p] = "running" THEN "dead" ELSE proc[p]]
  /\ open' = [p \in Procs |-> IF p \in victims THEN {} ELSE open[p]]
  /\ code' = IF "child" \in victims /\ proc["child"] = "running" THEN "killed" ELSE code

\* Mutant: only the child itself is killed.
TerminateChildOnly ==
  /\ pc = "terminate"
  /\ Killed({"child"})
  /\ pc' = "reap"
  /\ UNCHANGED <<elapsed, status, bytes, eof, result, group, pipe, wrote, faults>>

\* terminate_child_process_tree: killpg, then the child; failures are ignored.
Terminate ==
  /\ pc = "terminate"
  /\ Killed(group \cup {"child"})
  /\ pc' = "reap"
  /\ UNCHANGED <<elapsed, status, bytes, eof, result, group, pipe, wrote, faults>>

\* child.wait(); at once if try_wait reaped it already.
Reap ==
  /\ pc = "reap" /\ proc["child"] \in {"dead", "reaped"}
  /\ proc' = [proc EXCEPT !["child"] = "reaped"]
  /\ pc' = "done"
  /\ UNCHANGED <<elapsed, status, bytes, eof, result, group, open, code, pipe, wrote, faults>>

Execute ==
  \/ SpawnOk \/ SpawnFails \/ SetNonblocking \/ CheckDeadline \/ TryWait \/ Drain
  \/ Ready \/ Poll \/ Terminate \/ Reap

-----------------------------------------------------------------------------
(***************************************************************************)
(* The command.                                                            *)
(***************************************************************************)
runner == <<pc, elapsed, status, bytes, eof, result, faults>>

\* The child starts a descendant, which may leave the process group.
Fork ==
  /\ proc["child"] = "running" /\ proc["descendant"] = "unborn"
  /\ proc' = [proc EXCEPT !["descendant"] = "running"]
  /\ group' \in {group, group \cup {"descendant"}}
  /\ open' = [open EXCEPT !["descendant"] = open["child"]]
  /\ UNCHANGED <<runner, code, pipe, wrote>>

Write(p, s) ==
  /\ proc[p] = "running" /\ s \in open[p]
  /\ pipe[s] < PipeSize /\ wrote[s] < MaxOutput
  /\ pipe' = [pipe EXCEPT ![s] = @ + 1]
  /\ wrote' = [wrote EXCEPT ![s] = @ + 1]
  /\ UNCHANGED <<runner, proc, group, open, code>>

Close(p, s) ==
  /\ proc[p] = "running" /\ s \in open[p]
  /\ open' = [open EXCEPT ![p] = @ \ {s}]
  /\ UNCHANGED <<runner, proc, group, code, pipe, wrote>>

Exit(p) ==
  /\ proc[p] = "running"
  /\ proc' = [proc EXCEPT ![p] = "dead"]
  /\ open' = [open EXCEPT ![p] = {}]
  /\ code' \in (IF p = "child" THEN {"success", "failure"} ELSE {code})
  /\ UNCHANGED <<runner, group, pipe, wrote>>

Tick ==
  /\ pc # "done" /\ elapsed < Timeout
  /\ elapsed' = elapsed + 1
  /\ UNCHANGED <<pc, status, bytes, eof, result, os, pipe, faults>>

Command ==
  Fork \/ \E p \in Procs : Exit(p) \/ \E s \in Streams : Write(p, s) \/ Close(p, s)

Next == Execute \/ Command \/ Tick \/ (pc = "done" /\ UNCHANGED vars)

Spec == Init /\ [][Next]_vars

\* Kidobo's thread is scheduled; nothing is assumed of the command.
FairSpec == Spec /\ WF_vars(Execute)

-----------------------------------------------------------------------------
TypeOK ==
  /\ pc \in {"spawn", "nonblocking", "deadline", "wait", "stdout", "stderr", "ready", "poll",
             "terminate", "reap", "done"}
  /\ elapsed \in 0 .. Timeout
  /\ status \in {"none", "success", "failure"}
  /\ bytes \in [Streams -> 0 .. OutputLimit] /\ eof \in [Streams -> BOOLEAN]
  /\ result \in {"none", "ok", "spawn", "poll", "output", "timeout"}
  /\ proc \in [Procs -> {"unborn", "running", "dead", "reaped"}]
  /\ group \subseteq Procs /\ open \in [Procs -> SUBSET Streams]
  /\ code \in {"none", "success", "failure", "killed"}
  /\ pipe \in [Streams -> 0 .. PipeSize] /\ wrote \in [Streams -> 0 .. MaxOutput]
  /\ faults \in 0 .. MaxFaults

(***************************************************************************)
(* A result has the child's own exit code and all output: nothing that any *)
(* process of the command wrote, before or after the child ended, is       *)
(* missing, and nobody is left who could write more.                       *)
(***************************************************************************)
OkIsComplete ==
  result = "ok" =>
    /\ proc["child"] = "reaped" /\ status = code
    /\ bytes = wrote
    /\ \A p \in Procs : open[p] = {}

(***************************************************************************)
(* After an error nothing of the command goes on: the child is reaped, and *)
(* no process of its group runs that could still change the firewall after *)
(* the caller was told that the command failed.                            *)
(***************************************************************************)
NothingAfterError ==
  pc = "done" /\ result # "ok" =>
    /\ proc["child"] \in {"unborn", "reaped"}
    /\ \A p \in group : proc[p] # "running"

(***************************************************************************)
(* Nobody waits for ever.  Once the deadline has passed execute ends, also *)
(* when the child has ended and a descendant keeps its pipes open; and a   *)
(* writer that is blocked on a full pipe does not have to wait for the     *)
(* deadline: each pipe is drained, however busy or silent the other is.    *)
(***************************************************************************)
Progress ==
  /\ elapsed = Timeout ~> pc = "done"
  /\ \A s \in Streams : pipe[s] = PipeSize ~> (pipe[s] < PipeSize \/ pc = "done")
=============================================================================
