----------------------------- MODULE MCCommands -----------------------------
(***************************************************************************)
(* TLC instance of CommandLine and of CommandRunner: an invocation of      *)
(* kidobo, and an external command that it supervises.  They share no      *)
(* state; a behaviour is one of either, and the other has already ended.   *)
(***************************************************************************)
EXTENDS CommandRunner

CONSTANTS None, Invocations, Terminals

VARIABLES invocation, terminal, run, world, consents, interrupted, out, err

Cli == INSTANCE CommandLine

cliVars == <<invocation, terminal, run, world, consents, interrupted, out, err>>

-----------------------------------------------------------------------------
\* Every command line, on a terminal and from a unit that systemd starts.
Grammar == INSTANCE CommandLine WITH Invocations <- {}
MCInvocations == Grammar!Command
MCTerminals ==
  {[stdin |-> TRUE, stdout |-> TRUE, systemd |-> FALSE],
   [stdin |-> FALSE, stdout |-> FALSE, systemd |-> TRUE]}

-----------------------------------------------------------------------------
NoInvocation ==
  /\ invocation = [kind |-> "help"] /\ terminal \in MCTerminals /\ ~ terminal.systemd
  /\ run = [Cli!Ready EXCEPT !.pc = "exited"]
  /\ world = Cli!Untouched /\ consents = {}
  /\ interrupted = FALSE /\ out = TRUE /\ err = TRUE

NoCommand ==
  /\ pc = "done" /\ elapsed = 0 /\ status = "none"
  /\ bytes = [s \in Streams |-> 0] /\ eof = [s \in Streams |-> FALSE]
  /\ result = "none"
  /\ proc = [p \in Procs |-> "unborn"] /\ group = {}
  /\ open = [p \in Procs |-> {}] /\ code = "none"
  /\ pipe = [s \in Streams |-> 0] /\ wrote = [s \in Streams |-> 0]
  /\ faults = 0

MCInit == (Init /\ NoInvocation) \/ (Cli!Init /\ NoCommand)

MCNext == (Next /\ UNCHANGED cliVars) \/ (Cli!Next /\ UNCHANGED vars)

\* The fairness of either: that of CommandRunner's FairSpec and CommandLine's Spec.
MCSpec ==
  /\ MCInit /\ [][MCNext]_<<vars, cliVars>>
  /\ WF_vars(Execute) /\ WF_cliVars(Cli!Program)

-----------------------------------------------------------------------------
\* An exit status, and the last line on stderr, say what the command did; and nothing that
\* asks for consent happens without.
OperatorIsServed == Cli!OperatorIsServed

\* SIGINT ends the command, whatever it waits for.
InterruptEnds == Cli!InterruptEnds

\* error.rs: a SourceApplyFailed reports a synchronization that failed.
ApplyFailureIsReal == Cli!ApplyFailureIsReal
=============================================================================
