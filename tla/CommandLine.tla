----------------------------- MODULE CommandLine -----------------------------
(***************************************************************************)
(* One invocation of kidobo: the command line around the application       *)
(* operations (src/src/cli and src/src/error.rs).  It parses, asks, runs   *)
(* one operation after the other, prints what came of them, and ends with  *)
(* an exit status and, on an error, one diagnostic.                        *)
(*                                                                         *)
(* Meanwhile the operator answers or does not, SIGINT may arrive, and the  *)
(* streams may stop taking output (a closed pipe, a full disk).  Of an     *)
(* operation only its outcomes are kept, with what it did to the world;    *)
(* the operations themselves are in the other modules.  A write may have   *)
(* its effect and still be reported as failed, when syncing the directory  *)
(* fails after the rename.                                                 *)
(***************************************************************************)
EXTENDS Naturals, Sequences

CONSTANTS
  None,         \* no exit status, no summary
  Invocations,  \* the command lines: subsets of Command
  Terminals     \* [stdin, stdout, systemd : BOOLEAN]

VARIABLES
  invocation,   \* the command with its options
  terminal,     \* which streams are terminals, and whether systemd started it
  run,          \* the process: where it is, what it decided, said and returns
  world,        \* what its operations did
  consents,     \* the questions the operator answered with y
  interrupted,  \* SIGINT has arrived
  out, err      \* the streams take output

environment == <<interrupted, out, err>>
vars == <<invocation, terminal, run, world, consents, environment>>

-----------------------------------------------------------------------------
(***************************************************************************)
(* The command lines.                                                      *)
(***************************************************************************)
Modes == {"Prompt", "Apply", "SaveOnly"}

BanCommand == [kind : {"ban"}, mode : Modes]
UnbanCommand == [kind : {"unban"}, mode : Modes, yes : BOOLEAN]
SyncCommand == [kind : {"sync"}]
FlushCommand == [kind : {"flush"}, cache_only : BOOLEAN, yes : BOOLEAN]
EditCommand == [kind : {"allow"}, yes : BOOLEAN] \cup [kind : {"sources"}]
SetupCommand == [kind : {"setup", "init"}]
ReportKinds ==
  {"doctor", "check", "lookup", "status", "bans", "list_sources", "list_allow", "config",
   "preview", "completions"}
ReportCommand == [kind : ReportKinds]
\* What clap answers itself: help and version, and a usage error.
NoCommand == [kind : {"help", "usage"}]

Command ==
  BanCommand \cup UnbanCommand \cup SyncCommand \cup FlushCommand \cup EditCommand
  \cup SetupCommand \cup ReportCommand \cup NoCommand

IsKind(kinds) == invocation.kind \in kinds

Interactive == terminal.stdin /\ terminal.stdout /\ ~ terminal.systemd

-----------------------------------------------------------------------------
(***************************************************************************)
(* The process.  within is the wrapper that an error gets in the section   *)
(* it is raised in; an error is the sequence of its wrappers and its root. *)
(***************************************************************************)
Ready ==
  [pc |-> "start", asking |-> [what |-> "", yes |-> "", no |-> ""], within |-> <<>>,
   changed |-> FALSE, approved |-> {}, todo |-> <<>>, confirmed |-> {}, started |-> FALSE,
   told |-> {}, summary |-> None, warned |-> FALSE, expands |-> FALSE, verdict |-> TRUE,
   error |-> <<>>, reported |-> FALSE, exit |-> None]

Untouched ==
  [saved |-> FALSE, partial |-> FALSE, live |-> {}, applied |-> FALSE, cleaned |-> FALSE,
   left |-> FALSE, provisioned |-> FALSE, timer |-> FALSE]

Init ==
  /\ invocation \in Invocations /\ terminal \in Terminals
  /\ run = Ready /\ world = Untouched /\ consents = {}
  /\ interrupted = FALSE /\ out = TRUE /\ err = TRUE

\* Every step of the program leaves these alone, and most of them consents too.
Fixed == UNCHANGED <<invocation, terminal, environment>>
Quietly == Fixed /\ UNCHANGED consents

Raised(e) == [run EXCEPT !.pc = "end", !.error = run.within \o <<e>>]
Raise(e) == run' = Raised(e)

Go(to) == run' = [run EXCEPT !.pc = to]

\* A line on stdout; the writer's error ends the command.
Write(from, to, claims) ==
  /\ run.pc = from
  /\ IF out THEN run' = [run EXCEPT !.pc = to, !.told = @ \cup claims] ELSE Raise("CliIo")
  /\ Quietly /\ UNCHANGED world

\* confirm: the question is printed and the answer awaited in Read.
Ask(from, what, yes, no) ==
  /\ run.pc = from
  /\ IF out THEN run' = [run EXCEPT !.pc = "reading",
                                    !.asking = [what |-> what, yes |-> yes, no |-> no]]
            ELSE Raise("CliIo")
  /\ Quietly /\ UNCHANGED world

\* Mutant: anything but a no.
AcceptsUnlessRefused(response) == response # "n"

\* An empty line and the end of the input decline.
Accepts(response) == response = "y"

\* The operator's line, read while no interrupt has come.
Answer(response) ==
  /\ run.pc = "reading" /\ ~ interrupted
  /\ LET q == run.asking IN
     /\ run' = IF Accepts(response)
               THEN [run EXCEPT !.pc = q.yes, !.approved = @ \cup {q.what},
                                !.within = IF q.what = "apply" THEN <<"SourceApplyFailed">> ELSE @]
               ELSE [run EXCEPT !.pc = q.no]
     /\ consents' = IF response = "y" THEN consents \cup {q.what} ELSE consents
  /\ Fixed /\ UNCHANGED world

\* The input fails, is too long or is not UTF-8.
AnswerFails ==
  /\ run.pc = "reading" /\ ~ interrupted
  /\ Raise("BlocklistPrompt")
  /\ Quietly /\ UNCHANGED world

\* Mutant: a read that waits for the line.
BlockingRead == FALSE

\* The poll wakes up to look at the interrupt.
PollSeesInterrupt == interrupted

ReadInterrupted ==
  /\ run.pc = "reading" /\ PollSeesInterrupt
  /\ Raise("Interrupted")
  /\ Quietly /\ UNCHANGED world

\* An operation fails, or sees the interrupt, without an effect.
Fails(from) ==
  /\ run.pc = from
  /\ Raise("Application") \/ (interrupted /\ Raise("Interrupted"))
  /\ Quietly /\ UNCHANGED world

\* An operation saves something, finds nothing to do, or fails; then the failing
\* write may have had its effect, and so may one before it.
Saves(from, to) ==
  \/ Fails(from)
  \/ /\ run.pc = from
     /\ \/ run' = [run EXCEPT !.pc = to, !.changed = FALSE] /\ UNCHANGED world
        \/ /\ world' = [world EXCEPT !.saved = TRUE, !.partial = "partial" \in run.approved]
           /\ run' = [run EXCEPT !.pc = to, !.changed = TRUE] \/ Raise("Application")
     /\ Quietly

-----------------------------------------------------------------------------
(***************************************************************************)
(* run: before the dispatch, and after it.                                 *)
(***************************************************************************)
Exit(code, reported) == run' = [run EXCEPT !.pc = "exited", !.exit = code, !.reported = reported]

Start ==
  /\ run.pc = "start"
  /\ \/ Exit(1, err)       \* no signal handler, no logger
     \/ IsKind({"help"}) /\ Exit(0, FALSE)
     \/ IsKind({"usage"}) /\ Exit(2, err)
     \/ ~ IsKind({"help", "usage"})
        /\ IF interrupted THEN Exit(130, FALSE) ELSE Go(invocation.kind)
  /\ Quietly /\ UNCHANGED world

\* KidoboError::exit_code: that of the root; wrappers pass it on.
ExitCode(error) ==
  CASE error[Len(error)] = "Interrupted" -> 130
    [] error[Len(error)] = "Usage" -> 2
    [] OTHER -> 1

End ==
  /\ run.pc = "end"
  /\ IF interrupted
     THEN Exit(130, err /\ run.error \notin {<<>>, <<"Interrupted">>})
     ELSE IF run.error = <<>> THEN Exit(0, FALSE)
     ELSE Exit(ExitCode(run.error), err /\ run.error # <<"DoctorFailed">>)
  /\ Quietly /\ UNCHANGED world

-----------------------------------------------------------------------------
(***************************************************************************)
(* sync, by itself, after a change, and in setup.                          *)
(***************************************************************************)
AfterSync == IF IsKind({"setup"}) THEN "schedule" ELSE "end"

\* CliSyncObserver: what the failure summary may say.
FailureSummary ==
  IF Interactive /\ out THEN [started |-> run.started, confirmed |-> run.confirmed]
  ELSE None

SyncFails(e) == run' = [Raised(e) EXCEPT !.summary = FailureSummary]

\* All up to the last look at the interrupt, directly before the enforcement.
Prepare ==
  /\ run.pc = "sync"
  /\ \/ SyncFails("Application")
     \/ interrupted /\ SyncFails("Interrupted")
     \/ \E ipv6 \in {<<>>, <<"ipv6">>} :
          /\ ~ interrupted
          /\ run' = [run EXCEPT !.pc = "enforce", !.started = TRUE,
                                !.todo = ipv6 \o <<"ipv4", "wiring">>]
  /\ Quietly /\ UNCHANGED world

\* A step of apply_enforcement; a failing one may have had its effect.
Enforce ==
  /\ run.pc = "enforce" /\ run.todo # <<>>
  /\ LET done == [world EXCEPT !.live = @ \cup {Head(run.todo)}] IN
     \/ /\ world' = done
        /\ run' = [run EXCEPT !.todo = Tail(@), !.confirmed = @ \cup {Head(run.todo)}]
     \/ /\ world' \in {world, done}
        /\ SyncFails("Application")
  /\ Quietly

Enforced ==
  /\ run.pc = "enforce" /\ run.todo = <<>>
  /\ world' = [world EXCEPT !.applied = TRUE]
  /\ Go(IF Interactive THEN "summary" ELSE "synced")
  /\ Quietly

RenderSummary == Write("summary", "synced", {})

Synced ==
  /\ run.pc = "synced"
  /\ IF interrupted THEN Raise("Interrupted") ELSE Go(AfterSync)
  /\ Quietly /\ UNCHANGED world

Sync == Prepare \/ Enforce \/ Enforced \/ RenderSummary \/ Synced

-----------------------------------------------------------------------------
(***************************************************************************)
(* ban and unban, and what follows a change.                               *)
(***************************************************************************)
\* report_invalid_targets: one line each on stderr.
RejectTargets(from) ==
  /\ run.pc = from
  /\ Raise(IF err THEN "Application" ELSE "CliIo")
  /\ Quietly /\ UNCHANGED world

\* An ASN ban whose duplicate cleanup failed counts it as nothing removed, with
\* a warning.
UncertainCleanup ==
  /\ run.pc = "ban"
  /\ run' = [run EXCEPT !.pc = "report", !.warned = TRUE]
  /\ world' = [world EXCEPT !.saved = TRUE]
  /\ Quietly

Ban == Saves("ban", "report") \/ RejectTargets("ban") \/ UncertainCleanup

\* prepare_unban; ASNs go without a preview.
PrepareUnban ==
  \/ Saves("unban", "report")
  \/ RejectTargets("unban")
  \/ /\ run.pc = "unban"
     /\ Go("partial") \/ Go("remove")
     /\ Quietly /\ UNCHANGED world

\* confirm_partial_matches: the list, then the decision.
ListPartial == Write("partial", IF invocation.yes \/ ~ Interactive THEN "decide" ELSE "offer_partial", {})

Decide ==
  /\ run.pc = "decide"
  /\ IF ~ out THEN Raise("CliIo")
     ELSE run' = [run EXCEPT !.pc = "remove",
                    !.approved = IF invocation.yes THEN @ \cup {"partial"} ELSE @]
  /\ Quietly /\ UNCHANGED world

Unban ==
  \/ PrepareUnban \/ ListPartial \/ Decide
  \/ Ask("offer_partial", "partial", "remove", "remove")
  \/ Saves("remove", "report")

\* render_ban_changes, render_unban_outcome
ReportChanges == Write("report", "finish", {"changes"})

\* Mutant: nothing follows when nothing changed.
NothingToFinish == ~ run.changed

FinishedAlready == ~ run.changed /\ invocation.mode # "Apply"

\* finish_change: sync, offer it, or say that it is left to do.
FinishChange ==
  /\ run.pc = "finish"
  /\ IF FinishedAlready THEN Go("end")
     ELSE LET next == IF invocation.mode = "Apply" THEN "sync"
                      ELSE IF invocation.mode = "Prompt" /\ Interactive THEN "offer"
                      ELSE "hint"
          IN run' = [run EXCEPT !.pc = next,
                       !.within = IF next = "sync" THEN <<"SourceApplyFailed">>
                                  ELSE <<"SavedConfirmationFailed">>]
  /\ Quietly /\ UNCHANGED world

OfferSync == Ask("offer", "apply", "sync", "hint")

Hint == Write("hint", "end", {"hint"})

-----------------------------------------------------------------------------
(***************************************************************************)
(* flush.                                                                  *)
(***************************************************************************)
NeedsWord == ~ invocation.cache_only /\ ~ invocation.yes

ConfirmFlush ==
  /\ run.pc = "flush"
  /\ IF ~ NeedsWord THEN Go("clean")
     ELSE IF Interactive THEN IF out THEN Go("offer_flush") ELSE Raise("CliIo")
     ELSE IF err THEN run' = [run EXCEPT !.pc = "clean", !.warned = TRUE]
     ELSE Raise("CliIo")
  /\ Quietly /\ UNCHANGED world

OfferFlush == Ask("offer_flush", "flush", "clean", "flush_cancelled")

\* Every step is attempted; a failed one is reported even if the report fails.
Clean ==
  /\ run.pc = "clean"
  /\ \E left \in BOOLEAN :
       /\ world' = [world EXCEPT !.cleaned = TRUE, !.left = left]
       /\ IF left THEN Raise("Application")
          ELSE IF out THEN Go("end") ELSE Raise("CliIo")
  /\ Quietly

Flush ==
  \/ ConfirmFlush \/ OfferFlush \/ Fails("clean") \/ Clean
  \/ Write("flush_cancelled", "end", {"declined"})

-----------------------------------------------------------------------------
(***************************************************************************)
(* allow and sources; setup and init.                                      *)
(***************************************************************************)
PrepareEdit ==
  /\ run.pc \in {"allow", "sources"}
  /\ \/ Raise("Application")
     \/ interrupted /\ Raise("Interrupted")
     \/ Go("edit")       \* expands no exemption
     \/ /\ IsKind({"allow"})
        /\ IF ~ invocation.yes /\ ~ Interactive THEN Raise("Usage")
           ELSE run' = [run EXCEPT !.pc = IF invocation.yes THEN "edit" ELSE "exemption",
                                   !.expands = TRUE]
  /\ Quietly /\ UNCHANGED world

\* report_edit: once saved, an error says so.
ReportEdit ==
  /\ run.pc = "edited"
  /\ IF out THEN run' = [run EXCEPT !.pc = "end", !.told = @ \cup {"hint"}]
     ELSE run' = [Raised("CliIo") EXCEPT !.error = IF run.changed
                                                   THEN <<"SavedConfirmationFailed">> \o @ ELSE @]
  /\ Quietly /\ UNCHANGED world

Edit ==
  \/ PrepareEdit
  \/ Write("exemption", "offer_exemption", {})
  \/ Ask("offer_exemption", "exemption", "edit", "unchanged")
  \/ Write("unchanged", "end", {"declined"})
  \/ Saves("edit", "edited")
  \/ ReportEdit

\* Questions until the settings are complete; they change nothing.
Collect ==
  /\ run.pc = "setup"
  /\ IF Interactive THEN Go("questions") ELSE Raise(IF out THEN "Usage" ELSE "CliIo")
  /\ Quietly /\ UNCHANGED world

\* additions: the answers exceed MAX_SETUP_DATA_BYTES.
TooMuch ==
  /\ run.pc = "questions"
  /\ Raise("Usage")
  /\ Quietly /\ UNCHANGED world

\* The file has the reviewed settings, whether or not it had them before.
SaveSettings ==
  \/ Fails("save")
  \/ /\ run.pc = "save"
     /\ world' = [world EXCEPT !.saved = TRUE]
     /\ \/ run' = [run EXCEPT !.pc = "provision", !.within = <<"SetupAfterSave">>]
        \/ Raise("Application")
     /\ Quietly

\* init: missing files, and at the default root the timer.
Provision(from, to) ==
  \/ Fails(from)
  \/ /\ run.pc = from
     /\ world' = [world EXCEPT !.provisioned = TRUE, !.timer = @ \/ IsKind({"init"})]
     /\ Go(to) \/ Raise("Application")
     /\ Quietly

\* after_save: the timer is offered unless the root is an alternate one.
Schedule ==
  \/ Write("schedule", "end", {})
  \/ Write("schedule", "offer_timer", {})
  \/ Ask("offer_timer", "timer", "activate", "end")
  \/ Fails("activate")
  \/ /\ run.pc = "activate"
     /\ world' = [world EXCEPT !.timer = TRUE]
     /\ Go("end") \/ Raise("Application")
     /\ Quietly

Setup ==
  \/ Collect
  \/ Fails("questions") \/ TooMuch
  \/ Ask("questions", "settings", "questions", "review")
  \/ Write("review", "offer_save", {}) \/ Fails("review")
  \/ Ask("offer_save", "save", "save", "setup_cancelled")
  \/ Write("setup_cancelled", "end", {"declined"})
  \/ SaveSettings
  \/ Provision("provision", "provisioned") \/ Write("provisioned", "doctor", {})
  \/ Ask("offer_sync", "first_sync", "sync", "no_sync")
  \/ Write("no_sync", "schedule", {"hint"})
  \/ Schedule
  \/ Provision("init", "initialized") \/ Write("initialized", "end", {"report"})

-----------------------------------------------------------------------------
(***************************************************************************)
(* The reports.  verdict: every check passed, the check was conclusive,    *)
(* every target was valid; the other reports have none.  A report is       *)
(* printed whatever it says, and then decides.                             *)
(***************************************************************************)
Query(command, verdicts) ==
  /\ run.pc = command
  /\ \/ Raise("Application")
     \/ interrupted /\ Raise("Interrupted")
     \/ \E verdict \in verdicts : run' = [run EXCEPT !.pc = "render", !.verdict = verdict]
  /\ Quietly /\ UNCHANGED world

Doctor == Query("doctor", BOOLEAN)

\* Saved evidence that cannot be read becomes a note of the report.
Check == Query("check", BOOLEAN)

\* Each target is printed as it is found, so a failure may come after some.
Lookup == Query("lookup", BOOLEAN)

Status == Query("status", {TRUE})
ListBans == Query("bans", {TRUE})
ListSources == Query("list_sources", {TRUE})
ListAllow == Query("list_allow", {TRUE})
Config == Query("config", {TRUE})

\* On a terminal a line on stderr comes first.
PreviewSync ==
  \/ Query("preview", {TRUE})
  \/ /\ run.pc = "preview" /\ ~ err
     /\ Raise("CliIo")
     /\ Quietly /\ UNCHANGED world

WriteCompletions == Write("completions", "end", {"report"})

Render == Write("render", "judge", {"report"})

Judge ==
  /\ run.pc = "judge"
  /\ IF run.verdict THEN Go(IF IsKind({"setup"}) THEN "offer_sync" ELSE "end")
     ELSE Raise(CASE IsKind({"doctor", "setup"}) -> "DoctorFailed"
                  [] IsKind({"check"}) -> "CheckUnknown"
                  [] OTHER -> IF err THEN "Application" ELSE "CliIo")
  /\ Quietly /\ UNCHANGED world

Report ==
  \/ Doctor \/ Check \/ Lookup \/ Status \/ ListBans \/ ListSources \/ ListAllow \/ Config
  \/ PreviewSync \/ WriteCompletions \/ Render \/ Judge

-----------------------------------------------------------------------------
Program ==
  \/ Start \/ End \/ ReadInterrupted
  \/ Sync \/ Ban \/ Unban \/ ReportChanges \/ FinishChange \/ OfferSync \/ Hint
  \/ Flush \/ Edit \/ Setup \/ Report

Running == run.pc # "exited"

Interrupt ==
  /\ Running /\ interrupted' = TRUE
  /\ UNCHANGED <<invocation, terminal, run, world, consents, out, err>>

StreamFails ==
  /\ Running
  /\ \/ out' = FALSE /\ UNCHANGED err
     \/ err' = FALSE /\ UNCHANGED out
  /\ UNCHANGED <<invocation, terminal, run, world, consents, interrupted>>

Operator == AnswerFails \/ \E response \in {"y", "n", ""} : Answer(response)

Rest == ~ Running /\ UNCHANGED vars

Next == Program \/ Operator \/ Interrupt \/ StreamFails \/ Rest

(***************************************************************************)
(* The program goes on while it can; nobody has to answer it.              *)
(***************************************************************************)
Spec == Init /\ [][Next]_vars /\ WF_vars(Program)

-----------------------------------------------------------------------------
Acted == world.saved \/ world.live # {} \/ world.cleaned \/ world.provisioned \/ world.timer

Fulfilled ==
  \/ IsKind({"help"})
  \/ "declined" \in run.told /\ ~ Acted
  \/ IsKind({"ban", "unban"})
     /\ (world.applied \/ ((run.changed => "hint" \in run.told) /\ invocation.mode # "Apply"))
  \/ IsKind({"sync"}) /\ world.applied
  \/ IsKind({"flush"}) /\ world.cleaned /\ ~ world.left
  \/ IsKind({"allow", "sources"}) /\ (run.changed => world.saved)
  \/ IsKind({"setup"})
     /\ world.saved /\ world.provisioned /\ run.verdict
     /\ (world.applied \/ "hint" \in run.told) /\ ("timer" \in consents => world.timer)
  \/ IsKind({"init"}) /\ world.provisioned
  \/ IsKind(ReportKinds) /\ run.verdict /\ "report" \in run.told

\* The diagnostic and the failure summary, if they were given.
SaysTheTruth ==
  /\ run.summary # None =>
       /\ run.summary.confirmed \subseteq world.live
       /\ ~ run.summary.started => world.live = {}
  /\ run.error # <<>> /\ run.exit # None =>
       LET claim == Head(run.error) IN
       /\ claim = "SavedConfirmationFailed" => world.saved /\ world.live = {}
       /\ claim = "SourceApplyFailed" =>
            IF run.changed THEN world.saved ELSE world.saved => run.warned
       /\ claim = "SetupAfterSave" => world.saved

(***************************************************************************)
(* Scripts go by the exit status and operators by the last line.  A status *)
(* of 0 means that everything the command line asked for was done, or was  *)
(* declined with nothing done, or was left to a sync the output names; 2   *)
(* means that nothing was done; 130 that SIGINT came.  And what the        *)
(* diagnostic or the summary of a failed sync says was saved, not started  *)
(* or confirmed was, whichever stream failed and whenever.                 *)
(***************************************************************************)
ExitIsHonest ==
  /\ run.exit = 0 => Fulfilled
  /\ run.exit = 2 => ~ Acted
  /\ run.exit = 130 => interrupted
  /\ SaysTheTruth

(***************************************************************************)
(* Nothing that asks for consent happens without: an option or an answer   *)
(* of y to that very question; and whoever cannot be asked is not waited   *)
(* for.  A full flush from a script goes on, with a warning.               *)
(***************************************************************************)
ConsentIsAsked ==
  /\ run.pc = "reading" => Interactive
  /\ world.partial => invocation.yes \/ "partial" \in consents
  /\ world.cleaned /\ NeedsWord => "flush" \in consents \/ (~ Interactive /\ run.warned)
  /\ world.saved /\ run.expands => invocation.yes \/ "exemption" \in consents
  /\ IsKind({"setup"}) =>
       /\ world.saved => "save" \in consents
       /\ world.live # {} => "first_sync" \in consents
       /\ world.timer => "timer" \in consents
  /\ IsKind({"ban", "unban"}) /\ world.live # {} =>
       \/ invocation.mode = "Apply"
       \/ invocation.mode = "Prompt" /\ run.changed /\ "apply" \in consents

\* What an operator relies on: the exit status and the last line are true, and nothing
\* that asks for consent was done without.
OperatorIsServed == ExitIsHonest /\ ConsentIsAsked

(***************************************************************************)
(* SIGINT always ends the command, also one that waits for an answer that  *)
(* never comes.                                                            *)
(***************************************************************************)
InterruptEnds == interrupted ~> run.pc = "exited"

(***************************************************************************)
(* What error.rs says of SourceApplyFailed: the synchronization failed.    *)
(***************************************************************************)
ApplyFailureIsReal ==
  run.exit # None /\ run.error # <<>> /\ Head(run.error) = "SourceApplyFailed" =>
    ~ world.applied
=============================================================================
