------------------------ MODULE CommandRunnerProofs ------------------------
(***************************************************************************)
(* What a caller of the command runner may rely on, for every timeout,     *)
(* limit, buffer and pipe size and whatever the command does: a result is  *)
(* complete, and after an error nothing of the command's group runs.       *)
(***************************************************************************)
EXTENDS CommandRunner, TLAPS

\* The loop is running or has not begun.
Working == pc \notin {"terminate", "reap", "done"}

\* A process that does not run has no pipe open.
OpenInv == \A p \in Procs : proc[p] # "running" => open[p] = {}

\* Nothing exists before the spawn; the child exists from then on.
SpawnInv ==
  /\ pc = "spawn" =>
       /\ group = {} /\ \A p \in Procs : proc[p] = "unborn"
       /\ \A s \in Streams : ~ eof[s]
  /\ pc \notin {"spawn", "done"} => proc["child"] # "unborn"

\* try_wait returns the child's own code, once; only terminate kills.
WaitInv ==
  /\ status # "none" => proc["child"] = "reaped" /\ status = code
  /\ proc["child"] = "dead" => code # "none"
  /\ code = "killed" => ~ Working

\* No output is lost on the way, until an error gives it up.
FlowInv == (Working \/ result = "ok") => \A s \in Streams : bytes[s] + pipe[s] = wrote[s]

\* The end of a pipe is final.
EofInv == \A s \in Streams : eof[s] => pipe[s] = 0 /\ \A p \in Procs : s \notin open[p]

\* Where a result comes from.
ResultInv ==
  /\ Working => result = "none"
  /\ ~ Working => result # "none"
  /\ result = "ok" => pc = "done" /\ Complete

\* From the kill on nothing of the group runs, and nobody is there to fork.
GroupInv ==
  pc = "reap" \/ (pc = "done" /\ result # "ok") =>
    /\ proc["child"] # "running" /\ \A p \in group : proc[p] # "running"
    /\ pc = "done" => proc["child"] \in {"unborn", "reaped"}

IInv ==
  /\ TypeOK /\ OpenInv /\ SpawnInv /\ WaitInv /\ FlowInv /\ EofInv /\ ResultInv /\ GroupInv

-----------------------------------------------------------------------------
\* The constants are numbers.
LEMMA SizeProps ==
  /\ Timeout \in Nat /\ OutputLimit \in Nat /\ MaxOutput \in Nat /\ MaxFaults \in Nat
  /\ ReadSize \in Nat /\ ReadSize > 0 /\ PipeSize \in Nat /\ PipeSize > 0
BY TimeoutAssumption, SizeAssumption

\* The initial states satisfy the inductive invariant.
LEMMA InitIInv == Init => IInv
BY SizeProps
   DEF Init, IInv, TypeOK, OpenInv, SpawnInv, WaitInv, FlowInv, EofInv, ResultInv, GroupInv,
       Working, Streams, Procs

\* A system call that fails is counted and ends the collection with an error.
LEMMA FaultAbort ==
  ASSUME IInv, Fault, Working, pc # "spawn", NEW e \in {"poll", "output"}, Abort(e),
         UNCHANGED <<elapsed, status, bytes, eof, os, pipe>>
  PROVE  IInv'
<1> USE DEF Working
<1>1. TypeOK'
  BY SizeProps DEF IInv, TypeOK, Fault, Abort, os
<1>2. OpenInv' /\ SpawnInv' /\ WaitInv' /\ EofInv'
  BY DEF IInv, OpenInv, SpawnInv, WaitInv, EofInv, Abort, os
<1>3. FlowInv' /\ ResultInv' /\ GroupInv'
  BY DEF IInv, FlowInv, ResultInv, GroupInv, Complete, Abort, os
<1> QED
  BY <1>1, <1>2, <1>3 DEF IInv

\* A step of the loop that only moves on.
LEMMA LoopStep ==
  ASSUME IInv, Working, pc # "spawn",
         pc' \in {"deadline", "wait", "stdout", "stderr", "ready", "poll"},
         UNCHANGED <<elapsed, status, bytes, eof, result, os, pipe, faults>>
  PROVE  IInv'
<1> USE DEF Working
<1>1. TypeOK'
  BY DEF IInv, TypeOK, os
<1>2. OpenInv' /\ SpawnInv' /\ WaitInv' /\ EofInv'
  BY DEF IInv, OpenInv, SpawnInv, WaitInv, EofInv, os
<1>3. FlowInv' /\ ResultInv' /\ GroupInv'
  BY DEF IInv, FlowInv, ResultInv, GroupInv, Complete, os
<1> QED
  BY <1>1, <1>2, <1>3 DEF IInv

\* The start of a command, and its failure.
LEMMA SpawnIInv == IInv /\ (SpawnOk \/ SpawnFails \/ SetNonblocking) => IInv'
<1> SUFFICES ASSUME IInv, SpawnOk \/ SpawnFails \/ SetNonblocking PROVE IInv'
  OBVIOUS
<1> USE DEF Working
<1>1. CASE SpawnOk
  <2> USE <1>1 DEF SpawnOk
  <2>1. TypeOK'
    BY DEF IInv, TypeOK, Procs
  <2>2. OpenInv' /\ SpawnInv' /\ WaitInv'
    BY DEF IInv, TypeOK, OpenInv, SpawnInv, WaitInv, Procs
  <2>3. FlowInv' /\ EofInv' /\ ResultInv' /\ GroupInv'
    BY DEF IInv, FlowInv, EofInv, SpawnInv, ResultInv, GroupInv, Complete
  <2> QED
    BY <2>1, <2>2, <2>3 DEF IInv
<1>2. CASE SpawnFails
  <2> USE <1>2 DEF SpawnFails
  <2>1. TypeOK'
    BY SizeProps DEF IInv, TypeOK, Fault, os
  <2>2. OpenInv' /\ SpawnInv' /\ WaitInv' /\ EofInv'
    BY DEF IInv, OpenInv, SpawnInv, WaitInv, EofInv, os
  <2>3. FlowInv' /\ ResultInv' /\ GroupInv'
    BY DEF IInv, TypeOK, FlowInv, SpawnInv, ResultInv, GroupInv, Complete, Procs, os
  <2> QED
    BY <2>1, <2>2, <2>3 DEF IInv
<1>3. CASE SetNonblocking
  BY <1>3, FaultAbort, LoopStep DEF SetNonblocking
<1> QED
  BY <1>1, <1>2, <1>3

\* The deadline: it ends the collection or changes nothing.
LEMMA DeadlineIInv == IInv /\ CheckDeadline => IInv'
<1> SUFFICES ASSUME IInv, CheckDeadline PROVE IInv'
  OBVIOUS
<1>1. CASE elapsed = Timeout
  <2> USE <1>1 DEF CheckDeadline, Abort, Working
  <2>1. TypeOK'
    BY DEF IInv, TypeOK, os
  <2>2. OpenInv' /\ SpawnInv' /\ WaitInv' /\ EofInv'
    BY DEF IInv, OpenInv, SpawnInv, WaitInv, EofInv, os
  <2>3. FlowInv' /\ ResultInv' /\ GroupInv'
    BY DEF IInv, FlowInv, ResultInv, GroupInv, Complete, os
  <2> QED
    BY <2>1, <2>2, <2>3 DEF IInv
<1>2. CASE elapsed # Timeout
  BY <1>2, LoopStep DEF CheckDeadline, Working
<1> QED
  BY <1>1, <1>2

\* The child is reaped once, with its code.
LEMMA TryWaitIInv == IInv /\ TryWait => IInv'
<1> SUFFICES ASSUME IInv, TryWait PROVE IInv'
  OBVIOUS
<1> DEFINE Reaps == status = "none" /\ proc["child"] = "dead" /\ status' = code
                    /\ proc' = [proc EXCEPT !["child"] = "reaped"]
                    /\ pc' = "stdout" /\ UNCHANGED <<result, faults>>
<1>1. CASE Reaps
  <2> USE <1>1 DEF TryWait, Working
  <2>1. TypeOK'
    BY DEF IInv, TypeOK, WaitInv, Procs
  <2>2. OpenInv' /\ SpawnInv' /\ WaitInv' /\ EofInv'
    BY DEF IInv, TypeOK, OpenInv, SpawnInv, WaitInv, EofInv, Procs
  <2>3. FlowInv' /\ ResultInv' /\ GroupInv'
    BY DEF IInv, FlowInv, ResultInv, GroupInv, Complete
  <2> QED
    BY <2>1, <2>2, <2>3 DEF IInv
<1>2. CASE ~ Reaps
  BY <1>2, LoopStep, FaultAbort DEF TryWait, Working, os
<1> QED
  BY <1>1, <1>2

\* One read of one pipe.
LEMMA DrainIInv == IInv /\ Drain => IInv'
<1> SUFFICES ASSUME IInv, NEW s \in Streams, NEW next \in {"stderr", "ready"},
                    pc \in {"stdout", "stderr"}, DrainOutput(s, next),
                    UNCHANGED <<elapsed, status, os>>
             PROVE  IInv'
  BY DEF Drain, Streams
<1> DEFINE count == Least(pipe[s], ReadSize)
           written == \E p \in Procs : s \in open[p]
<1>1. CASE (eof[s] \/ (pipe[s] = 0 /\ written)) /\ pc' = next
           /\ UNCHANGED <<bytes, eof, pipe, result, faults>>
  BY <1>1, LoopStep DEF Working
<1>2. CASE ~ eof[s] /\ pipe[s] = 0 /\ ~ written /\ eof' = [eof EXCEPT ![s] = TRUE]
           /\ pc' = next /\ UNCHANGED <<bytes, pipe, result, faults>>
  <2> USE <1>2 DEF Working
  <2>1. TypeOK'
    BY DEF IInv, TypeOK, os
  <2>2. OpenInv' /\ SpawnInv' /\ WaitInv' /\ EofInv'
    BY DEF IInv, TypeOK, OpenInv, SpawnInv, WaitInv, EofInv, os
  <2>3. FlowInv' /\ ResultInv' /\ GroupInv'
    BY DEF IInv, FlowInv, ResultInv, GroupInv, Complete, os
  <2> QED
    BY <2>1, <2>2, <2>3 DEF IInv
<1>3. CASE /\ ~ eof[s] /\ count > 0
           /\ pipe' = [pipe EXCEPT ![s] = @ - count]
           /\ IF Exceeds(s, count)
              THEN Abort("output") /\ UNCHANGED bytes
              ELSE bytes' = [bytes EXCEPT ![s] = @ + count] /\ pc' = next /\ UNCHANGED result
           /\ UNCHANGED <<eof, faults>>
  <2> USE <1>3 DEF Working
  <2>1. count \in Nat /\ count <= pipe[s] /\ pipe[s] \in 0 .. PipeSize /\ bytes[s] \in 0 .. OutputLimit
    BY SizeProps DEF IInv, TypeOK, Least
  <2> HIDE DEF count
  <2>2. TypeOK'
    BY <2>1, SizeProps DEF IInv, TypeOK, Exceeds, Abort, os
  <2>3. OpenInv' /\ SpawnInv' /\ WaitInv'
    BY DEF IInv, TypeOK, OpenInv, SpawnInv, WaitInv, Abort, os
  <2>4. EofInv' /\ ResultInv' /\ GroupInv'
    BY DEF IInv, TypeOK, EofInv, ResultInv, GroupInv, Complete, Abort, os
  <2>5. FlowInv'
    <3>1. CASE Exceeds(s, count)
      BY <3>1 DEF FlowInv, Abort
    <3>2. CASE ~ Exceeds(s, count)
      <4>1. \A t \in Streams : bytes[t] + pipe[t] = wrote[t]
        BY DEF IInv, FlowInv
      <4>2. ASSUME NEW t \in Streams PROVE bytes'[t] + pipe'[t] = wrote'[t]
        BY <2>1, <3>2, <4>1, SizeProps DEF IInv, TypeOK, os
      <4> QED
        BY <4>2 DEF FlowInv
    <3> QED
      BY <3>1, <3>2
  <2> QED
    BY <2>2, <2>3, <2>4, <2>5 DEF IInv
<1>4. CASE Fault /\ Abort("output") /\ UNCHANGED <<bytes, eof, pipe>>
  BY <1>4, FaultAbort DEF Working
<1> QED
  BY <1>1, <1>2, <1>3, <1>4 DEF DrainOutput

\* The command has ended, or the loop goes on.
LEMMA ReadyPollIInv == IInv /\ (Ready \/ Poll) => IInv'
<1> SUFFICES ASSUME IInv, Ready \/ Poll PROVE IInv'
  OBVIOUS
<1>1. CASE Ready /\ Complete
  <2> USE <1>1 DEF Ready, Working
  <2>1. TypeOK'
    BY DEF IInv, TypeOK, os
  <2>2. OpenInv' /\ SpawnInv' /\ WaitInv' /\ EofInv'
    BY DEF IInv, OpenInv, SpawnInv, WaitInv, EofInv, os
  <2>3. FlowInv' /\ ResultInv' /\ GroupInv'
    BY DEF IInv, FlowInv, ResultInv, GroupInv, Complete, os
  <2> QED
    BY <2>1, <2>2, <2>3 DEF IInv
<1>2. CASE Ready /\ ~ Complete
  BY <1>2, LoopStep DEF Ready, Working
<1>3. CASE Poll
  BY <1>3, LoopStep, FaultAbort DEF Poll, Working
<1> QED
  BY <1>1, <1>2, <1>3

\* The kill ends the whole group, and wait reaps the child.
LEMMA TerminateIInv == IInv /\ (Terminate \/ Reap) => IInv'
<1> SUFFICES ASSUME IInv, Terminate \/ Reap PROVE IInv'
  OBVIOUS
<1> USE DEF Working
<1>1. CASE Terminate
  <2> USE <1>1 DEF Terminate, Killed
  <2>1. TypeOK'
    BY DEF IInv, TypeOK
  <2>2. OpenInv' /\ SpawnInv'
    BY DEF IInv, TypeOK, OpenInv, SpawnInv, Procs
  <2>3. WaitInv'
    BY DEF IInv, TypeOK, WaitInv, Procs
  <2>4. EofInv' /\ FlowInv' /\ ResultInv'
    BY DEF IInv, TypeOK, EofInv, FlowInv, ResultInv, Complete
  <2>5. GroupInv'
    BY DEF IInv, TypeOK, GroupInv, Procs
  <2> QED
    BY <2>1, <2>2, <2>3, <2>4, <2>5 DEF IInv
<1>2. CASE Reap
  <2> USE <1>2 DEF Reap
  <2>1. TypeOK'
    BY DEF IInv, TypeOK, Procs
  <2>2. OpenInv' /\ SpawnInv' /\ WaitInv' /\ EofInv'
    BY DEF IInv, TypeOK, OpenInv, SpawnInv, WaitInv, EofInv, Procs
  <2>3. FlowInv' /\ ResultInv' /\ GroupInv'
    BY DEF IInv, TypeOK, FlowInv, ResultInv, GroupInv, Complete, Procs
  <2> QED
    BY <2>1, <2>2, <2>3 DEF IInv
<1> QED
  BY <1>1, <1>2

-----------------------------------------------------------------------------
\* What the command does: it can open no pipe that all have closed, and a
\* process can only be started while the child runs.
LEMMA CommandIInv == IInv /\ Command => IInv'
<1> SUFFICES ASSUME IInv, Command PROVE IInv'
  OBVIOUS
<1> USE DEF Working, runner
<1>1. CASE Fork
  <2> USE <1>1 DEF Fork
  <2>1. TypeOK'
    BY DEF IInv, TypeOK, Procs
  <2>2. OpenInv' /\ SpawnInv' /\ WaitInv'
    BY DEF IInv, TypeOK, OpenInv, SpawnInv, WaitInv, Procs
  <2>3. EofInv'
    BY DEF IInv, TypeOK, EofInv, Procs
  <2>4. FlowInv' /\ ResultInv' /\ GroupInv'
    BY DEF IInv, TypeOK, FlowInv, ResultInv, GroupInv, SpawnInv, Complete, Procs
  <2> QED
    BY <2>1, <2>2, <2>3, <2>4 DEF IInv
<1>2. ASSUME NEW p \in Procs, Exit(p) PROVE IInv'
  <2> USE <1>2 DEF Exit
  <2>1. TypeOK'
    BY DEF IInv, TypeOK
  <2>2. OpenInv' /\ SpawnInv' /\ EofInv'
    BY DEF IInv, TypeOK, OpenInv, SpawnInv, EofInv, Procs
  <2>3. WaitInv'
    BY DEF IInv, TypeOK, WaitInv, Procs
  <2>4. FlowInv' /\ ResultInv' /\ GroupInv'
    BY DEF IInv, TypeOK, FlowInv, ResultInv, GroupInv, Complete, Procs
  <2> QED
    BY <2>1, <2>2, <2>3, <2>4 DEF IInv
<1>3. ASSUME NEW p \in Procs, NEW s \in Streams, Write(p, s) PROVE IInv'
  <2> USE <1>3 DEF Write
  <2>1. TypeOK'
    BY SizeProps DEF IInv, TypeOK
  <2>2. OpenInv' /\ SpawnInv' /\ WaitInv' /\ EofInv'
    BY DEF IInv, TypeOK, OpenInv, SpawnInv, WaitInv, EofInv
  <2>3. FlowInv'
    BY SizeProps DEF IInv, TypeOK, FlowInv
  <2>4. ResultInv' /\ GroupInv'
    BY DEF IInv, ResultInv, GroupInv, Complete
  <2> QED
    BY <2>1, <2>2, <2>3, <2>4 DEF IInv
<1>4. ASSUME NEW p \in Procs, NEW s \in Streams, Close(p, s) PROVE IInv'
  <2> USE <1>4 DEF Close
  <2>1. TypeOK'
    BY DEF IInv, TypeOK
  <2>2. OpenInv' /\ SpawnInv' /\ WaitInv' /\ EofInv'
    BY DEF IInv, TypeOK, OpenInv, SpawnInv, WaitInv, EofInv
  <2>3. FlowInv' /\ ResultInv' /\ GroupInv'
    BY DEF IInv, FlowInv, ResultInv, GroupInv, Complete
  <2> QED
    BY <2>1, <2>2, <2>3 DEF IInv
<1> QED
  BY <1>1, <1>2, <1>3, <1>4 DEF Command

\* The clock.
LEMMA TickIInv == IInv /\ Tick => IInv'
<1> SUFFICES ASSUME IInv, Tick PROVE IInv'
  OBVIOUS
<1> USE DEF Tick, Working
<1>1. TypeOK'
  BY SizeProps DEF IInv, TypeOK, os
<1>2. OpenInv' /\ SpawnInv' /\ WaitInv' /\ EofInv'
  BY DEF IInv, OpenInv, SpawnInv, WaitInv, EofInv, os
<1>3. FlowInv' /\ ResultInv' /\ GroupInv'
  BY DEF IInv, FlowInv, ResultInv, GroupInv, Complete, os
<1> QED
  BY <1>1, <1>2, <1>3 DEF IInv

\* A step that changes nothing.
LEMMA StutterIInv == IInv /\ UNCHANGED vars => IInv'
BY DEF IInv, TypeOK, OpenInv, SpawnInv, WaitInv, FlowInv, EofInv, ResultInv, GroupInv,
       Complete, Working, vars

\* Every step preserves the inductive invariant.
LEMMA NextIInv == IInv /\ [Next]_vars => IInv'
<1> SUFFICES ASSUME IInv, [Next]_vars PROVE IInv'
  OBVIOUS
<1>1. CASE Execute
  BY <1>1, SpawnIInv, DeadlineIInv, TryWaitIInv, DrainIInv, ReadyPollIInv, TerminateIInv
     DEF Execute
<1>2. CASE Command
  BY <1>2, CommandIInv
<1>3. CASE Tick
  BY <1>3, TickIInv
<1>4. CASE UNCHANGED vars
  BY <1>4, StutterIInv
<1> QED
  BY <1>1, <1>2, <1>3, <1>4 DEF Next

\* A complete result, from the parts of the invariant.
LEMMA OkFromIInv == IInv => OkIsComplete
<1> SUFFICES ASSUME IInv, result = "ok" PROVE OkIsComplete
  BY DEF OkIsComplete
<1>1. Complete
  BY DEF IInv, ResultInv
<1>2. proc["child"] = "reaped" /\ status = code
  BY <1>1 DEF IInv, WaitInv, Complete
<1>3. \A s \in Streams : pipe[s] = 0 /\ \A p \in Procs : s \notin open[p]
  BY <1>1 DEF IInv, EofInv, Complete
<1>4. \A s \in Streams : bytes[s] = wrote[s]
  BY <1>3, SizeProps DEF IInv, FlowInv, TypeOK
<1>5. bytes = wrote
  BY <1>4 DEF IInv, TypeOK
<1>6. \A p \in Procs : open[p] = {}
  BY <1>3 DEF IInv, TypeOK
<1> QED
  BY <1>2, <1>5, <1>6 DEF OkIsComplete

(***************************************************************************)
(* The state of a command is well typed; in particular no pipe exceeds its *)
(* capacity and drain_pipe keeps at most the output limit.                 *)
(***************************************************************************)
THEOREM TypeCorrect == Spec => []TypeOK
<1>1. IInv => TypeOK
  BY DEF IInv
<1> QED
  BY <1>1, InitIInv, NextIInv, PTL DEF Spec

(***************************************************************************)
(* execute returns a success only with the child's own status and with all *)
(* output that any process of the command wrote, whatever the sizes.       *)
(***************************************************************************)
THEOREM ResultsAreComplete == Spec => []OkIsComplete
<1>1. Init => IInv
  BY InitIInv
<1>2. IInv /\ [Next]_vars => IInv'
  BY NextIInv
<1>3. IInv => OkIsComplete
  BY OkFromIInv
<1> QED
  BY <1>1, <1>2, <1>3, PTL DEF Spec

(***************************************************************************)
(* When execute returns an error the child is reaped and no process of its *)
(* group runs any more: a failed command has no effect afterwards.         *)
(***************************************************************************)
THEOREM ErrorsAreFinal == Spec => []NothingAfterError
<1>1. Init => IInv
  BY InitIInv
<1>2. IInv /\ [Next]_vars => IInv'
  BY NextIInv
<1>3. IInv => NothingAfterError
  BY DEF IInv, GroupInv, NothingAfterError
<1> QED
  BY <1>1, <1>2, <1>3, PTL DEF Spec
=============================================================================
