----------------------------- MODULE Inspection -----------------------------
(***************************************************************************)
(* kidobo status and kidobo check: an unlocked reader of the live state of *)
(* one family (inspection.rs of kidobo-adapters and kidobo-app), one probe *)
(* command per step, while the commands of module Firewall run.            *)
(*                                                                         *)
(* The reader collects set, wiring and membership twice and reports only   *)
(* what both passes saw, then reads the configuration again.  content adds *)
(* to the wiring what the sets hold; saw is a history of what was true at  *)
(* some moment of the inspection, which the report is compared with.       *)
(***************************************************************************)
EXTENDS Firewall

CONSTANTS
  Contents,    \* what a replacement may put into a set: sets of addresses
  Target,      \* the address kidobo check asks about
  None,        \* no address (kidobo status); also an unusable configuration
  MaxOverlap   \* bound: commands and edits that overlap the inspection

Configurations == [rule : Rules, enabled : BOOLEAN]

VARIABLES
  content,   \* the addresses each set holds
  config,    \* the configuration file
  live,      \* the inspecting process
  overlap,   \* commands and edits since it started
  saw        \* what was true at some moment since its first probe

inspectVars == <<content, config, live, overlap, saw>>

Blank == [set |-> "Unknown", entries |-> 0, wiring |-> "Unknown", lines |-> <<>>,
          member |-> "Unknown"]

NoReport == [verdict |-> "none", entries |-> 0]

Waiting == [step |-> "idle", target |-> None, config |-> None, pass |-> 1,
            before |-> Blank, now |-> Blank, report |-> NoReport]

\* What a completed sync for r leaves in the kernel.
Synced(r) == [EmptyKernel EXCEPT !.input = <<STABLE>>, !.chains = {STABLE},
                                 !.stable = <<r>>, !.sets = {r.set}]

\* The host when the inspection starts, before a sync or after one.  A command
\* that is under way at the first probe is one that started just before it.
InspectInit ==
  /\ config \in Configurations
  /\ fw \in {EmptyKernel, Synced(config.rule)}
  /\ content \in {[s \in Sets |-> IF s \in fw.sets THEN c ELSE {}] : c \in Contents}
  /\ pc = "idle" /\ plan = config.rule /\ old = 0 /\ err = FALSE
  /\ result = "none" /\ faults = MaxFaults /\ disturbed = FALSE
  /\ live = Waiting
  /\ overlap = 0
  /\ saw = {}

-----------------------------------------------------------------------------
(***************************************************************************)
(* What is true of the kernel at a moment.                                 *)
(***************************************************************************)

\* Packets that reach the jump at position i of INPUT meet a rule in ruleset.
LeadsTo(k, i, ruleset) ==
  /\ BlocksVia(k, k.input[i])
  /\ \E j \in DOMAIN k.stable : k.stable[j] \in ruleset

\* No rule of another tool decides before them.
First(k, i) == \A j \in 1 .. i : k.input[j] \in Jumps

Moments(k, c, r) ==
  LET blocking == {x \in Rules : x.set \in k.sets /\ Target \in c[x.set]}
      met(rs) == {i \in DOMAIN k.input : LeadsTo(k, i, rs)}
  IN  {m \in {"blocked", "clear", "unhooked"} :
         CASE m = "blocked"  -> \E i \in met(blocking) : First(k, i)
           [] m = "clear"    -> met(blocking) = {}
           [] m = "unhooked" -> ~ Enforcing(k)}
        \X {0}
      \cup {<<"enforced", Cardinality(c[r.set])>> : i \in {j \in met({r}) : First(k, j)}}

-----------------------------------------------------------------------------
(***************************************************************************)
(* The probes.  Each may fail (an exit status, the 2 s timeout, a listing  *)
(* that does not parse), which makes its observation Unknown.              *)
(***************************************************************************)

\* inspect_wiring and parse_wiring: what iptables -S shows of k, for rule r.
References(k) == {i \in DOMAIN k.input : k.input[i] \in Jumps}

\* Mutant: any jump to the stable chain will do.
WiringSomewhere(k, r) ==
  IF References(k) = {} /\ k.staging = 0 THEN "Absent"
  ELSE IF Contains(k.input, STABLE) /\ k.stable = <<r>> THEN "Verified"
  ELSE "Unknown"

Wiring(k, r) ==
  IF References(k) = {} /\ k.staging = 0 THEN "Absent"
  ELSE IF /\ References(k) = {1} /\ k.input[1] = STABLE /\ k.staging = 0
          /\ k.stable = <<r>> /\ STAGING \notin k.chains
  THEN "Verified" ELSE "Unknown"

Lines(k) == <<k.input, k.stable, k.staging>>

\* The report of an inspection that could not establish anything.
Inconclusive == [verdict |-> "Unknown", entries |-> 0]

\* Mutant: the first pass is taken for both.
StableIfRepeatedAssumed(before, after) == TRUE

Stable(before, after) == before = after

\* inspect_family: what the two passes say together.
Enforcement(b) ==
  IF b.wiring = "Absent" THEN "Absent"
  ELSE IF b.set = "Verified" /\ b.wiring = "Verified" THEN "Verified"
  ELSE "Unknown"

\* apply_configuration and classify_target for check; status reports the
\* enforcement itself, with the entry count.
Verdict(b, target, enabled) ==
  LET enforcement == IF ~ enabled /\ b.wiring = "Verified" THEN "Unknown" ELSE Enforcement(b)
      sure == target = None \/ b.member # "Unknown" \/ b.wiring = "Absent"
  IN  IF ~ sure \/ enforcement = "Unknown" THEN Inconclusive
      ELSE [verdict |-> IF target = None THEN enforcement
                        ELSE IF b.wiring = "Verified" /\ b.member = "Present" THEN "Blocked"
                        ELSE "NotBlocked",
            entries |-> b.entries]

-----------------------------------------------------------------------------
(***************************************************************************)
(* The inspecting process.                                                 *)
(***************************************************************************)

Inspecting == live.step \notin {"idle", "done"}

Inspect == UNCHANGED <<vars, content, config, overlap, saw>>

\* The process ends with this report; one that claims nothing needs no witness.
Report(r) ==
  /\ live' = [Waiting EXCEPT !.step = "done", !.report = r]
  /\ saw' = IF r.verdict \in {"Unknown", "none"} THEN {} ELSE saw
  /\ UNCHANGED <<vars, content, config, overlap>>

\* kidobo status (target None) or kidobo check starts and loads the
\* configuration; without a usable one nothing is probed.
StartInspection(target) ==
  /\ live.step = "idle"
  /\ \/ /\ config # None
        /\ live' = [Waiting EXCEPT !.target = target, !.config = config, !.step = "names"]
        /\ Inspect
     \/ config = None /\ Report(Inconclusive)

Managed == live.config.rule.set

Observe(next, now) == live' = [live EXCEPT !.step = next, !.now = now]

\* ipset list -name
ListNames ==
  /\ live.step = "names"
  /\ \/ Managed \in fw.sets /\ Observe("header", live.now)
     \/ Managed \notin fw.sets /\ Observe("wiring", [live.now EXCEPT !.set = "Absent"])
     \/ Observe("wiring", live.now)
  /\ saw' = saw \cup Moments(fw, content, live.config.rule)
  /\ UNCHANGED <<vars, content, config, overlap>>

\* ipset list <set> -terse
ReadHeader ==
  /\ live.step = "header"
  /\ \/ /\ Managed \in fw.sets
        /\ Observe("wiring", [live.now EXCEPT !.set = "Verified",
                                              !.entries = Cardinality(content[Managed])])
     \/ Observe("wiring", live.now)
  /\ Inspect

\* The end of a pass: an Unknown in the first one ends the inspection, and the
\* second one is compared with the first.  (The configuration is read again
\* then too, which cannot turn an Unknown into anything else.)
EndPass(now) ==
  IF live.pass = 1 /\ now.set # "Unknown" /\ now.wiring # "Unknown"
  THEN /\ live' = [live EXCEPT !.pass = 2, !.step = "names", !.before = now, !.now = Blank]
       /\ Inspect
  ELSE IF live.pass = 2 /\ Stable(live.before, now)
  THEN /\ live' = [live EXCEPT !.step = "reload", !.before = Blank, !.now = Blank,
                     !.report = Verdict(now, live.target, live.config.enabled)]
       /\ Inspect
  ELSE Report(Inconclusive)

\* iptables -S or ip6tables -S
ListRules ==
  /\ live.step = "wiring"
  /\ \E now \in {[live.now EXCEPT !.wiring = Wiring(fw, live.config.rule), !.lines = Lines(fw)],
                 live.now} :
       IF live.target # None /\ now.set = "Verified"
       THEN Observe("member", now) /\ Inspect
       ELSE EndPass(now)

\* ipset test <set> <address>
TestMember ==
  /\ live.step = "member"
  /\ \/ /\ Managed \in fw.sets
        /\ EndPass([live.now EXCEPT
                      !.member = IF Target \in content[Managed] THEN "Present" ELSE "Absent"])
     \/ EndPass(live.now)

\* The configuration is read again; one that changed or became unreadable
\* invalidates the observations.
Reload ==
  /\ live.step = "reload"
  /\ Report(IF config = live.config THEN live.report ELSE Inconclusive)

\* SIGINT is looked at between the probes; there is no report then.
Interrupt == Inspecting /\ Report(NoReport)

InspectStep ==
  \/ \E t \in {Target, None} : StartInspection(t)
  \/ ListNames \/ ReadHeader \/ ListRules \/ TestMember \/ Reload \/ Interrupt

-----------------------------------------------------------------------------
(***************************************************************************)
(* The commands that run meanwhile, with what they do to the sets.         *)
(***************************************************************************)

\* A sync enforces or, for a disabled family, cleans up; a flush cleans up.
Command ==
  /\ config # None
  /\ \/ config.enabled /\ StartSync(config.rule)
     \/ StartCleanup(config.rule)

\* A set is empty when it is created; the swap gives it new contents at once,
\* and a failed replacement may have reached the swap or not.
SetsFollow ==
  LET replaced == {[content EXCEPT ![plan.set] = c] : c \in Contents}
      kept == [s \in Sets |-> IF s \in fw.sets \cap fw'.sets THEN content[s] ELSE {}]
  IN  IF pc = "replace_set" /\ pc' # pc /\ fw' = fw
      THEN content' \in replaced \cup (IF pc' = "idle" THEN {content} ELSE {})
      ELSE content' = kept

Overlaps == overlap < MaxOverlap /\ overlap' = overlap + 1

\* A reboot would end the inspection too, without a report.
KernelStep ==
  /\ Inspecting
  /\ \/ (Command \/ ForeignStep) /\ Overlaps
     \/ (SyncStep \/ CleanupStep \/ Crash) /\ UNCHANGED overlap
  /\ SetsFollow
  /\ saw' = IF live.step = "names" /\ live.pass = 1 THEN saw
            ELSE saw \cup Moments(fw', content', live.config.rule)
  /\ UNCHANGED <<config, live>>

\* An operator edits or breaks the file at any time.
EditConfig ==
  /\ Inspecting
  /\ Overlaps
  /\ config' \in (Configurations \cup {None}) \ {config}
  /\ UNCHANGED <<vars, content, live, saw>>

\* What runs when the inspection is over comes to its end.
Finish ==
  /\ live.step = "done"
  /\ SyncStep \/ CleanupStep
  /\ content' = [s \in Sets |-> {}]
  /\ saw' = {}
  /\ live' = [Waiting EXCEPT !.step = "done"]
  /\ UNCHANGED <<config, overlap>>

Rest == live.step = "done" /\ pc = "idle" /\ UNCHANGED <<vars, inspectVars>>

InspectNext == InspectStep \/ KernelStep \/ EditConfig \/ Finish \/ Rest

-----------------------------------------------------------------------------
(***************************************************************************)
(* A report is about a state that was: "Blocked" and "Verified" say that   *)
(* at some moment of the inspection the first rules of INPUT led the       *)
(* address to a managed set that held it, or to the configured set with    *)
(* the reported number of entries; "NotBlocked" and "Absent" that at some  *)
(* moment nothing of Kidobo's did.  The probes are separate commands, and  *)
(* syncs, flushes and edits change set and wiring between any two of them: *)
(* only the second pass and the second look at the configuration make the  *)
(* combination honest.                                                     *)
(***************************************************************************)
InspectionIsHonest ==
  live.step = "done" =>
    /\ live.report.verdict = "Blocked" => <<"blocked", 0>> \in saw
    /\ live.report.verdict = "NotBlocked" => <<"clear", 0>> \in saw
    /\ live.report.verdict = "Verified" => <<"enforced", live.report.entries>> \in saw
    /\ live.report.verdict = "Absent" => <<"unhooked", 0>> \in saw
=============================================================================
