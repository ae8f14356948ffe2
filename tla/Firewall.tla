------------------------------ MODULE Firewall ------------------------------
(***************************************************************************)
(* Kidobo's firewall wiring for one address family, one iptables or ipset  *)
(* command per step (crates/kidobo-adapters/src/iptables.rs, the ensure    *)
(* and destroy half of ipset.rs, enforcement.rs and flush.rs).             *)
(*                                                                         *)
(* The record fw is the part of the kernel's filter table and set registry *)
(* that the commands read and write.  Every command may fail, with or      *)
(* without having taken effect (an error status, a full output pipe, the   *)
(* 30 s timeout of command_runner.rs); the process may die between two     *)
(* commands; another tool may edit INPUT at any time; the host may reboot. *)
(***************************************************************************)
EXTENDS Naturals, Sequences, FiniteSets, SequencesExt

CONSTANTS
  Sets,       \* ipset names the configuration has had for this family
  Rules,      \* the set-match rules those configurations ask for
  Foreign,    \* rules of INPUT that are not Kidobo's, each present at most once
  MaxFaults   \* bound: how many command failures and crashes may happen

ASSUME FaultAssumption == MaxFaults \in Nat

STABLE == "kidobo-input"
STAGING == "kidobo-input-stage"

ASSUME NameAssumption == STABLE \notin Foreign /\ STAGING \notin Foreign

\* A rule of the stable chain: -m set --match-set <set> src -j <target>.
ASSUME RuleAssumption == Rules \subseteq [set : Sets, target : {"DROP", "REJECT"}]

Jumps == {STABLE, STAGING}

(***************************************************************************)
(* The kernel state.  The staging chain only ever holds copies of the jump *)
(* to the stable chain, so its number of rules is all there is to know.    *)
(***************************************************************************)
Kernel ==
  [input : Seq(Jumps \cup Foreign),  \* INPUT, in evaluation order
   chains : SUBSET Jumps,            \* Kidobo's chains that exist
   stable : Seq(Rules),               \* rules of kidobo-input
   staging : Nat,                    \* rules of kidobo-input-stage
   sets : SUBSET Sets]               \* ipsets that exist

EmptyKernel ==
  [input |-> <<>>, chains |-> {}, stable |-> <<>>, staging |-> 0, sets |-> {}]

SyncSteps ==
  {"ensure_set", "ensure_chain", "replace_set", "activate", "append_rule",
   "delete_rules", "ensure_staging", "append_jump", "delete_jumps",
   "insert_staging", "remove_stable", "insert_stable", "remove_staging",
   "flush_staging", "delete_staging", "verify"}

CleanupSteps ==
  {"unhook_staging", "unhook_stable", "clear_staging", "drop_staging",
   "clear_stable", "drop_stable", "destroy_set"}

VARIABLES
  fw,         \* the kernel state
  pc,         \* the command the running process executes next, or "idle"
  plan,       \* the rule the locked configuration asks for
  old,        \* old_rule_count of the replace_chain_*_fail_closed loops
  err,        \* whether an earlier step of this cleanup failed
  result,     \* how the last process ended
  faults,     \* faults so far, at most MaxFaults
  disturbed   \* history: a fault or another tool interfered with this process

vars == <<fw, pc, plan, old, err, result, faults, disturbed>>

Results == {"none", "synced", "flushed", "failed"}

Init ==
  /\ fw = EmptyKernel
  /\ pc = "idle"
  /\ plan \in Rules
  /\ old = 0
  /\ err = FALSE
  /\ result = "none"
  /\ faults = 0
  /\ disturbed = FALSE

-----------------------------------------------------------------------------
(***************************************************************************)
(* What each command does to the kernel state.                             *)
(***************************************************************************)

\* iptables -N; the code inspects first, so an existing chain is kept.
EnsureChain(k, c) == [k EXCEPT !.chains = @ \cup {c}]

\* iptables -A kidobo-input -m set --match-set r.set src -j r.target
AppendRule(k, r) == [k EXCEPT !.stable = Append(@, r)]

\* iptables -D kidobo-input 1
DeleteFirstRule(k) == [k EXCEPT !.stable = Tail(@)]

\* iptables -A kidobo-input-stage -j kidobo-input, and -D kidobo-input-stage 1
AppendJump(k) == [k EXCEPT !.staging = @ + 1]
DeleteFirstJump(k) == [k EXCEPT !.staging = @ - 1]

\* iptables -I INPUT 1 -j c
InsertInputJump(k, c) == [k EXCEPT !.input = <<c>> \o @]

\* Mutant: deletion by number instead of by specification.
DeleteInputByPosition(k, c) == [k EXCEPT !.input = Tail(@)]

\* iptables -D INPUT -j c: the first rule with exactly that specification.
DeleteInputJump(k, c) == [k EXCEPT !.input = RemoveFirst(@, c)]

\* iptables -F c; a missing chain is accepted (run_checked_allow_missing_chain).
FlushChain(k, c) ==
  IF c = STABLE THEN [k EXCEPT !.stable = <<>>] ELSE [k EXCEPT !.staging = 0]

\* iptables -X c; the kernel refuses a chain with rules or references.
DeleteChain(k, c) == [k EXCEPT !.chains = @ \ {c}]
Deletable(k, c) ==
  c \in k.chains =>
    /\ ~ Contains(k.input, c)
    /\ IF c = STABLE THEN k.stable = <<>> /\ k.staging = 0 ELSE k.staging = 0

\* ipset create -exist, and ipset destroy; the kernel refuses to destroy a set
\* that a rule matches on.
CreateSet(k, s) == [k EXCEPT !.sets = @ \cup {s}]
DestroySet(k, s) == [k EXCEPT !.sets = @ \ {s}]
Destroyable(k, s) == \A i \in DOMAIN k.stable : k.stable[i].set # s

-----------------------------------------------------------------------------
(***************************************************************************)
(* How a process goes on after a command.                                  *)
(***************************************************************************)

Proceed(next) == pc' = next /\ UNCHANGED <<err, result, faults, disturbed>>

\* The ? of sync: the first error ends the process.
Abort == pc' = "idle" /\ result' = "failed" /\ UNCHANGED err

\* Cleanup attempts every step and reports the first error at the end.
Skip(next) == pc' = next /\ err' = TRUE /\ UNCHANGED result

Fault == faults < MaxFaults /\ faults' = faults + 1 /\ disturbed' = TRUE

NoFault == UNCHANGED <<faults, disturbed>>

\* run_checked: the command at step p, which the kernel accepts when pre holds
\* and which then turns fw into new.
RunChecked(p, pre, new, next) ==
  /\ pc = p
  /\ UNCHANGED plan
  /\ \/ pre /\ fw' = new /\ Proceed(next)
     \/ pre /\ fw' = new /\ Fault /\ Abort
     \/ UNCHANGED fw /\ Fault /\ Abort
     \/ ~ pre /\ UNCHANGED fw /\ NoFault /\ Abort

\* The same for a cleanup step, whose failure does not stop the next one.
Attempt(p, pre, new, next) ==
  /\ pc = p
  /\ UNCHANGED <<plan, old>>
  /\ \/ pre /\ fw' = new /\ Proceed(next)
     \/ pre /\ fw' = new /\ Fault /\ Skip(next)
     \/ UNCHANGED fw /\ Fault /\ Skip(next)
     \/ ~ pre /\ UNCHANGED fw /\ NoFault /\ Skip(next)

-----------------------------------------------------------------------------
(***************************************************************************)
(* Sync: ensure_artifacts, replace_set, activate.                          *)
(***************************************************************************)

\* A sync process takes the lock and reloads the configuration.
StartSync(r) ==
  /\ pc = "idle"
  /\ pc' = "ensure_set"
  /\ plan' = r
  /\ old' = 0
  /\ err' = FALSE
  /\ disturbed' = FALSE
  /\ UNCHANGED <<fw, result, faults>>

EnsureIpsetExists ==
  /\ RunChecked("ensure_set", TRUE, CreateSet(fw, plan.set), "ensure_chain")
  /\ UNCHANGED old

EnsureFirewallArtifacts ==
  /\ RunChecked("ensure_chain", TRUE, EnsureChain(fw, STABLE), "replace_set")
  /\ UNCHANGED old

\* Source loading, admission and the restore-and-swap of module Ipset: the
\* wiring does not change, and an error ends the sync.
ReplaceSet ==
  /\ RunChecked("replace_set", TRUE, fw, "activate")
  /\ UNCHANGED old

EnsureStableChain ==
  /\ RunChecked("activate", TRUE, EnsureChain(fw, STABLE), "append_rule")
  /\ UNCHANGED old

\* replace_chain_rule_fail_closed: count the old rules, append the new one,
\* then delete rule 1 as often as there were old rules.
AppendChainRule ==
  /\ RunChecked("append_rule", STABLE \in fw.chains /\ plan.set \in fw.sets,
                AppendRule(fw, plan),
                IF fw.stable = <<>> THEN "ensure_staging" ELSE "delete_rules")
  /\ old' = Len(fw.stable)

DeleteOldRule ==
  /\ RunChecked("delete_rules", fw.stable # <<>>, DeleteFirstRule(fw),
                IF old = 1 THEN "ensure_staging" ELSE "delete_rules")
  /\ old' = old - 1

\* normalize_input_jump_fail_closed.
EnsureStagingChain ==
  /\ RunChecked("ensure_staging", TRUE, EnsureChain(fw, STAGING), "append_jump")
  /\ UNCHANGED old

AppendStagingJump ==
  /\ RunChecked("append_jump", Jumps \subseteq fw.chains, AppendJump(fw),
                IF fw.staging = 0 THEN "insert_staging" ELSE "delete_jumps")
  /\ old' = fw.staging

DeleteOldJump ==
  /\ RunChecked("delete_jumps", fw.staging > 0, DeleteFirstJump(fw),
                IF old = 1 THEN "insert_staging" ELSE "delete_jumps")
  /\ old' = old - 1

\* Mutant: stable jumps are removed before the staging jump is in place.
InsertStagingJumpForgotten ==
  /\ RunChecked("insert_staging", STAGING \in fw.chains, fw, "remove_stable")
  /\ UNCHANGED old

InsertStagingJump ==
  /\ RunChecked("insert_staging", STAGING \in fw.chains,
                InsertInputJump(fw, STAGING), "remove_stable")
  /\ UNCHANGED old

\* remove_all_input_jumps_for_chain: list INPUT, delete the first exact jump,
\* and start over until the listing shows none.
RemoveStableJumps ==
  /\ IF Contains(fw.input, STABLE)
     THEN RunChecked("remove_stable", TRUE, DeleteInputJump(fw, STABLE), "remove_stable")
     ELSE RunChecked("remove_stable", TRUE, fw, "insert_stable")
  /\ UNCHANGED old

InsertStableJump ==
  /\ RunChecked("insert_stable", STABLE \in fw.chains,
                InsertInputJump(fw, STABLE), "remove_staging")
  /\ UNCHANGED old

\* Mutant: the loop looks for one chain and deletes jumps to the other.
RemoveStagingJumpsWrongChain ==
  /\ IF Contains(fw.input, STAGING)
     THEN RunChecked("remove_staging", TRUE, DeleteInputJump(fw, STABLE), "remove_staging")
     ELSE RunChecked("remove_staging", TRUE, fw, "flush_staging")
  /\ UNCHANGED old

RemoveStagingJumps ==
  /\ IF Contains(fw.input, STAGING)
     THEN RunChecked("remove_staging", TRUE, DeleteInputJump(fw, STAGING), "remove_staging")
     ELSE RunChecked("remove_staging", TRUE, fw, "flush_staging")
  /\ UNCHANGED old

FlushStagingChain ==
  /\ RunChecked("flush_staging", TRUE, FlushChain(fw, STAGING), "delete_staging")
  /\ UNCHANGED old

\* Mutant: the staging chain is emptied and left behind.
DeleteStagingChainForgotten ==
  /\ RunChecked("delete_staging", TRUE, fw, "verify")
  /\ UNCHANGED old

DeleteStagingChain ==
  /\ RunChecked("delete_staging", Deletable(fw, STAGING),
                DeleteChain(fw, STAGING), "verify")
  /\ UNCHANGED old

\* exact_jump_positions of the final listing.
ExactWiring(k) ==
  /\ k.input # <<>> /\ k.input[1] = STABLE
  /\ \A i \in DOMAIN k.input : k.input[i] \in Jumps => i = 1

\* The final check; an unexpected listing is an UnexpectedInputWiring error.
VerifyWiring ==
  /\ pc = "verify"
  /\ pc' = "idle"
  /\ \/ ExactWiring(fw) /\ result' = "synced" /\ NoFault
     \/ ~ ExactWiring(fw) /\ result' = "failed" /\ NoFault
     \/ result' = "failed" /\ Fault
  /\ UNCHANGED <<fw, plan, old, err>>

SyncStep ==
  \/ EnsureIpsetExists \/ EnsureFirewallArtifacts \/ ReplaceSet
  \/ EnsureStableChain \/ AppendChainRule \/ DeleteOldRule
  \/ EnsureStagingChain \/ AppendStagingJump \/ DeleteOldJump
  \/ InsertStagingJump \/ RemoveStableJumps \/ InsertStableJump
  \/ RemoveStagingJumps \/ FlushStagingChain \/ DeleteStagingChain
  \/ VerifyWiring

-----------------------------------------------------------------------------
(***************************************************************************)
(* Cleanup: flush, and the disabled-IPv6 cleanup of a sync.                *)
(***************************************************************************)

StartCleanup(r) ==
  /\ pc = "idle"
  /\ pc' = "unhook_staging"
  /\ plan' = r
  /\ old' = 0
  /\ err' = FALSE
  /\ disturbed' = FALSE
  /\ UNCHANGED <<fw, result, faults>>

\* remove_all_input_jumps_for_chain; an error leaves the loop, not the cleanup.
Unhook(p, c, next) ==
  IF Contains(fw.input, c)
  THEN /\ pc = p
       /\ UNCHANGED <<plan, old>>
       /\ \/ fw' = DeleteInputJump(fw, c) /\ Proceed(p)
          \/ fw' = DeleteInputJump(fw, c) /\ Fault /\ Skip(next)
          \/ UNCHANGED fw /\ Fault /\ Skip(next)
  ELSE Attempt(p, TRUE, fw, next)

UnhookStaging == Unhook("unhook_staging", STAGING, "unhook_stable")
UnhookStable == Unhook("unhook_stable", STABLE, "clear_staging")
ClearStaging ==
  Attempt("clear_staging", TRUE, FlushChain(fw, STAGING), "drop_staging")
DropStaging ==
  Attempt("drop_staging", Deletable(fw, STAGING), DeleteChain(fw, STAGING), "clear_stable")
ClearStable ==
  Attempt("clear_stable", TRUE, FlushChain(fw, STABLE), "drop_stable")
DropStable ==
  Attempt("drop_stable", Deletable(fw, STABLE), DeleteChain(fw, STABLE), "destroy_set")

\* ipset destroy of the configured set, the last step.
DestroyIpset ==
  /\ pc = "destroy_set"
  /\ pc' = "idle"
  /\ \/ /\ Destroyable(fw, plan.set)
        /\ fw' = DestroySet(fw, plan.set)
        /\ \/ NoFault /\ result' = IF err THEN "failed" ELSE "flushed"
           \/ Fault /\ result' = "failed"
     \/ ~ Destroyable(fw, plan.set) /\ UNCHANGED fw /\ NoFault /\ result' = "failed"
     \/ UNCHANGED fw /\ Fault /\ result' = "failed"
  /\ UNCHANGED <<plan, old, err>>

CleanupStep ==
  \/ UnhookStaging \/ UnhookStable \/ ClearStaging \/ DropStaging
  \/ ClearStable \/ DropStable \/ DestroyIpset

-----------------------------------------------------------------------------
(***************************************************************************)
(* The environment.                                                        *)
(***************************************************************************)

\* The process is killed between two commands; the lock goes with it.
Crash ==
  /\ pc # "idle"
  /\ Fault
  /\ Abort
  /\ UNCHANGED <<fw, plan, old>>

Interfere(newInput) ==
  /\ fw' = [fw EXCEPT !.input = newInput]
  /\ disturbed' = (disturbed \/ pc # "idle")
  /\ UNCHANGED <<pc, plan, old, err, result, faults>>

\* Another tool adds or removes a rule of its own.
ForeignInsert(f) ==
  /\ ~ Contains(fw.input, f)
  /\ \E i \in 1 .. (Len(fw.input) + 1) : Interfere(InsertAt(fw.input, i, f))

ForeignDelete(f) ==
  /\ Contains(fw.input, f)
  /\ Interfere(RemoveFirst(fw.input, f))

\* A reboot loses the tables and the sets and kills the process.
Reboot ==
  /\ fw' = EmptyKernel
  /\ pc' = "idle"
  /\ result' = "none"
  /\ disturbed' = TRUE
  /\ UNCHANGED <<plan, old, err, faults>>

ForeignStep == \E f \in Foreign : ForeignInsert(f) \/ ForeignDelete(f)

Environment == Crash \/ ForeignStep \/ Reboot

Next ==
  \/ \E r \in Rules : StartSync(r) \/ StartCleanup(r)
  \/ SyncStep
  \/ CleanupStep
  \/ Environment

Spec == Init /\ [][Next]_vars

\* Every command ends: the runner kills it after 30 s at the latest.
FairSpec == Spec /\ WF_vars(SyncStep \/ CleanupStep)

-----------------------------------------------------------------------------
(***************************************************************************)
(* Properties.                                                             *)
(***************************************************************************)

\* The type of every variable.
TypeOK ==
  /\ fw \in Kernel
  /\ pc \in {"idle"} \cup SyncSteps \cup CleanupSteps
  /\ plan \in Rules
  /\ old \in Nat
  /\ err \in BOOLEAN
  /\ result \in Results
  /\ faults \in 0 .. MaxFaults
  /\ disturbed \in BOOLEAN

\* A packet that reaches a jump to c is matched against a managed set.
BlocksVia(k, c) ==
  \/ c = STABLE /\ k.stable # <<>>
  \/ c = STAGING /\ k.staging > 0 /\ k.stable # <<>>

\* Some rule of INPUT leads to a set match.
Enforcing(k) == \E i \in DOMAIN k.input : BlocksVia(k, k.input[i])

\* The foreign rules that only packets which passed the blocklist reach.
Covered(k) ==
  {f \in Foreign : \E i, j \in DOMAIN k.input :
                      i < j /\ BlocksVia(k, k.input[i]) /\ k.input[j] = f}

\* Fail closed (architecture.md: "Establish new enforcement before deleting old
\* copies, even if a partial failure leaves duplicates"): no command of a sync,
\* whatever earlier failed or killed runs left behind, takes enforcement away
\* or lets a packet reach another rule of INPUT before the blocklist does.
FailClosed ==
  [][SyncStep => /\ Enforcing(fw) => Enforcing(fw')
                 /\ Covered(fw) \subseteq Covered(fw')]_vars

\* The rules of INPUT that are not Kidobo's, and which of them stands before which.
Unrelated(k) ==
  <<{f \in Foreign : Contains(k.input, f)},
    {o \in Foreign \X Foreign :
       \E i, j \in DOMAIN k.input : i < j /\ k.input[i] = o[1] /\ k.input[j] = o[2]}>>

\* Neither sync nor cleanup adds, deletes, doubles or reorders a rule of INPUT
\* that is not Kidobo's, even when those rules move between its commands.
ForeignUntouched ==
  [][SyncStep \/ CleanupStep => Unrelated(fw') = Unrelated(fw)]_vars

JumpCount(k, c) == Cardinality({i \in DOMAIN k.input : k.input[i] = c})

\* After a sync that reports success: one rule with the configured set and
\* target, one jump to it, no staging artifact - which the code's own final
\* check sees only in part - until the next process starts or the host reboots.
SyncedWiring ==
  pc = "idle" /\ result = "synced" =>
    /\ fw.stable = <<plan>>
    /\ plan.set \in fw.sets
    /\ fw.chains = {STABLE}
    /\ JumpCount(fw, STABLE) = 1
    /\ JumpCount(fw, STAGING) = 0

\* After a cleanup that reports success nothing of Kidobo's is left in the
\* family: no jump, no chain, not the configured set.
FlushedClean ==
  pc = "idle" /\ result = "flushed" =>
    /\ \A i \in DOMAIN fw.input : fw.input[i] \in Foreign
    /\ fw.chains = {} /\ fw.stable = <<>> /\ fw.staging = 0
    /\ plan.set \notin fw.sets

\* Every wreck is recoverable by rerunning: a sync or a cleanup fails only when
\* a command failed, the process was killed or another tool edited INPUT while
\* it ran, whatever state it started from.
FailsOnlyIfDisturbed ==
  pc = "idle" /\ result = "failed" => disturbed

(***************************************************************************)
(* How a process ends says what it left: a success is complete, be it a    *)
(* sync or a cleanup, and a failure has a cause outside the process, so    *)
(* running the command again repairs whatever the last one left behind.    *)
(***************************************************************************)
EndsAsPromised == SyncedWiring /\ FlushedClean /\ FailsOnlyIfDisturbed

\* Every process ends: the delete-until-none loops of
\* remove_all_input_jumps_for_chain terminate even while another tool edits INPUT.
Terminates == pc # "idle" ~> pc = "idle"
=============================================================================
