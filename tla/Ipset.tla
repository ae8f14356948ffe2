------------------------------- MODULE Ipset -------------------------------
(***************************************************************************)
(* How a sync replaces the contents of one managed kernel set: the ensure, *)
(* restore-and-swap and best-effort destroy of                             *)
(* crates/kidobo-adapters/src/ipset.rs.                                    *)
(*                                                                         *)
(* The new list is loaded into a temporary set by an `ipset restore` child *)
(* that also swaps it with the managed set.  The child is a process of its *)
(* own: command_runner.rs kills it when its deadline passes, but nothing   *)
(* kills it when Kidobo itself is killed, so it then runs on as an orphan  *)
(* beside the next sync, which finds the lock free.                        *)
(***************************************************************************)
EXTENDS Naturals, Sequences, FiniteSets, SequencesExt

CONSTANTS
  MANAGED,    \* the configured set name
  Temps,      \* the names generate_temp_set_name may return
  Entries,    \* the networks of a list, as numbers in CanonicalCidr's order
  Requests,   \* what configurations and sources ask for: [maxelem, entries]
  MaxFaults   \* bound: failed commands, failed file operations and crashes

IpsetAssumption ==
  /\ Entries \subseteq Nat
  /\ Requests \subseteq [maxelem : Nat, entries : Seq(Entries)]
  /\ MaxFaults \in Nat
  /\ MANAGED \notin Temps

Names == {MANAGED} \cup Temps

\* A kernel set: of the type and family Kidobo uses, of another one, or absent.
KernelSet == [kind : {"absent", "ours", "other"}, maxelem : Nat, elems : SUBSET Entries]
Absent == [kind |-> "absent", maxelem |-> 0, elems |-> {}]
EmptySet(n) == [kind |-> "ours", maxelem |-> n, elems |-> {}]

\* An `ipset restore` child: its script's temporary set, the line it is at, the
\* entries still to add and, as history, the whole list of its script.
Restore ==
  [temp : Temps, at : {"create", "add", "swap", "ok", "failed"}, maxelem : Nat,
   todo : Seq(Entries), list : SUBSET Entries]

VARIABLES
  sets,       \* the kernel's sets, by name
  pc,         \* the step the Kidobo process executes next, or "idle"
  req,        \* the request of the running or last sync
  temp,       \* temp_set_name of atomic_replace_ipset_values
  child,      \* the running restore child, as a set of at most one
  orphans,    \* restore children whose Kidobo process was killed
  err,        \* whether restore_result is an error
  result,     \* how the last process ended
  files,      \* restore scripts left in the temporary directory
  faults,     \* faults so far, at most MaxFaults
  disturbed,  \* history: a fault, an orphan or another tool met this process
  stale       \* history: an orphan swapped its list in since this sync began

vars == <<sets, pc, req, temp, child, orphans, err, result, files, faults,
          disturbed, stale>>

\* The variables of the restore children and their kernel sets.
kernelVars == <<sets, child, orphans>>

Pcs == {"idle", "inspect", "create", "prepared", "destroy_before", "script",
        "restore", "destroy_after"}

\* Before the first sync the name may be free, Kidobo's, or another tool's.
Init ==
  /\ \E s \in {Absent, [Absent EXCEPT !.kind = "other"]} :
       sets = [n \in Names |-> IF n = MANAGED THEN s ELSE Absent]
  /\ pc = "idle"
  /\ req \in Requests
  /\ temp \in Temps
  /\ child = {} /\ orphans = {}
  /\ err = FALSE
  /\ result = "none"
  /\ files = 0
  /\ faults = 0
  /\ disturbed = FALSE
  /\ stale = FALSE

-----------------------------------------------------------------------------
Fault == faults < MaxFaults /\ faults' = faults + 1 /\ disturbed' = TRUE

NoFault == UNCHANGED <<faults, disturbed>>

End(r) == pc' = "idle" /\ result' = r

Fail == End("failed") /\ UNCHANGED <<temp, err, files, stale, req>>

GoOn(next) == pc' = next /\ UNCHANGED <<temp, err, files, stale, req, result>>

\* A sync takes the lock and reads the configuration; its sources are loaded
\* later, between "prepared" and the replacement.
StartSync(r) ==
  /\ pc = "idle"
  /\ pc' = "inspect"
  /\ req' = r
  /\ err' = FALSE
  /\ result' = "none"
  /\ stale' = FALSE
  /\ disturbed' = (orphans # {})
  /\ UNCHANGED <<kernelVars, temp, files, faults>>

\* ensure_ipset_exists: `ipset list -terse`, parsed; only type and family are
\* compared, so a set with another maxelem is accepted.
InspectIpset ==
  /\ pc = "inspect"
  /\ UNCHANGED kernelVars
  /\ \/ /\ NoFault
        /\ CASE sets[MANAGED].kind = "absent" -> GoOn("create")
             [] sets[MANAGED].kind = "ours" -> GoOn("prepared")
             [] sets[MANAGED].kind = "other" -> Fail
     \/ Fault /\ Fail

\* `ipset create -exist`: the kernel accepts the name of an existing set only
\* when it is the same set.
CreateAccepted == sets[MANAGED] \in {Absent, EmptySet(req.maxelem)}

CreateIpset ==
  /\ pc = "create"
  /\ UNCHANGED <<child, orphans>>
  /\ LET made == [sets EXCEPT ![MANAGED] = EmptySet(req.maxelem)]
     IN \/ CreateAccepted /\ sets' = made /\ NoFault /\ GoOn("prepared")
        \/ CreateAccepted /\ sets' = made /\ Fault /\ Fail
        \/ UNCHANGED sets /\ Fault /\ Fail
        \/ ~ CreateAccepted /\ UNCHANGED sets /\ NoFault /\ Fail

\* ensure_within_capacity; also any other reason for which the sync ends before
\* the first replacement: a source, an admission, a promotion, a cancellation.
RejectRequest ==
  /\ pc = "prepared"
  /\ Fail
  /\ UNCHANGED <<kernelVars, faults, disturbed>>

\* generate_temp_set_name hashes the process id and the clock; a name may be
\* that of a set an earlier process leaked, but not of a child still running.
BeginReplace(t) ==
  /\ pc = "prepared"
  /\ Len(req.entries) <= req.maxelem
  /\ \A r \in orphans : r.temp # t
  /\ temp' = t
  /\ pc' = "destroy_before"
  /\ UNCHANGED <<kernelVars, req, err, result, files, faults, disturbed, stale>>

\* best_effort_destroy_set: whatever happens, the process goes on.
BestEffortDestroy ==
  /\ UNCHANGED <<child, orphans>>
  /\ \/ sets' = [sets EXCEPT ![temp] = Absent] /\ (NoFault \/ Fault)
     \/ UNCHANGED sets /\ Fault

DestroyBefore ==
  /\ pc = "destroy_before"
  /\ BestEffortDestroy
  /\ GoOn("script")

-----------------------------------------------------------------------------
\* Mutant: neighbours that are equal pass for sorted.
IsSortedNotUnique(s) == \A i \in 1 .. Len(s) - 1 : s[i] <= s[i + 1]

IsSortedAndUnique(s) == \A i \in 1 .. Len(s) - 1 : s[i] < s[i + 1]

\* Sorted and deduplicated: i - 1 entries are less than the one at i.
Sorted(S) ==
  [i \in 1 .. Cardinality(S) |-> CHOOSE x \in S : Cardinality({y \in S : y < x}) = i - 1]

SortedUniqueEntries(s) == IF IsSortedAndUnique(s) THEN s ELSE Sorted(ToSet(s))

\* The script is one create line, the add lines and the swap line.
AfterCreate(r) == [r EXCEPT !.at = IF r.todo = <<>> THEN "swap" ELSE "add"]

\* Mutant: the swap line comes before the last add line.
AfterAddSwapEarly(r) ==
  [r EXCEPT !.todo = Tail(@), !.at = IF Len(r.todo) <= 2 THEN "swap" ELSE "add"]

AfterAdd(r) ==
  [r EXCEPT !.todo = Tail(@), !.at = IF Len(r.todo) = 1 THEN "swap" ELSE "add"]

WriteRestoreScript ==
  [temp |-> temp, at |-> "create", maxelem |-> req.maxelem,
   todo |-> SortedUniqueEntries(req.entries), list |-> ToSet(req.entries)]

\* create_restore_script_file, write_restore_script, and the child's start.
RunRestore ==
  /\ pc = "script"
  /\ UNCHANGED <<sets, orphans, req, temp, result, stale>>
  /\ \/ /\ child' = {WriteRestoreScript}
        /\ files' = files + 1
        /\ pc' = "restore"
        /\ NoFault /\ UNCHANGED err
     \/ /\ Fault
        /\ pc' = "destroy_after"
        /\ err' = TRUE
        /\ UNCHANGED <<child, files>>

-----------------------------------------------------------------------------
(***************************************************************************)
(* One line of a restore script.  The kernel refuses to create a set that  *)
(* exists, to add an element twice or past maxelem, and to swap sets that  *)
(* are absent or of different kinds; the first refused line ends restore.  *)
(***************************************************************************)
Accepted(r) ==
  CASE r.at = "create" -> sets[r.temp] = Absent
    [] r.at = "add" -> /\ sets[r.temp].kind = "ours"
                       /\ Head(r.todo) \notin sets[r.temp].elems
                       /\ Cardinality(sets[r.temp].elems) < sets[r.temp].maxelem
    [] r.at = "swap" -> sets[r.temp].kind = "ours" /\ sets[MANAGED].kind = "ours"

Effect(r) ==
  CASE r.at = "create" -> [sets EXCEPT ![r.temp] = EmptySet(r.maxelem)]
    [] r.at = "add" -> [sets EXCEPT ![r.temp].elems = @ \cup {Head(r.todo)}]
    [] r.at = "swap" -> [sets EXCEPT ![r.temp] = sets[MANAGED],
                                     ![MANAGED] = sets[r.temp]]

After(r) ==
  CASE r.at = "create" -> AfterCreate(r)
    [] r.at = "add" -> AfterAdd(r)
    [] r.at = "swap" -> [r EXCEPT !.at = "ok"]

Running(r) == r.at \in {"create", "add", "swap"}

\* The kernel executes the next line of r, or refuses it and restore ends.
ExecuteLine(r) == Running(r) /\ sets' = IF Accepted(r) THEN Effect(r) ELSE sets

Executed(r) == IF Accepted(r) THEN After(r) ELSE [r EXCEPT !.at = "failed"]

ChildLine ==
  /\ pc = "restore"
  /\ \E r \in child : ExecuteLine(r) /\ child' = {Executed(r)}
  /\ UNCHANGED <<pc, req, temp, orphans, err, result, files, faults, disturbed, stale>>

\* An orphan that has ended leaves nothing but what it did.
OrphanLine ==
  /\ \E r \in orphans :
       /\ ExecuteLine(r)
       /\ orphans' = (orphans \ {r}) \cup {o \in {Executed(r)} : Running(o)}
       /\ stale' = (stale \/ Executed(r).at = "ok")
  /\ UNCHANGED <<pc, req, temp, child, err, result, files, faults, disturbed>>

\* The child has exited: its status is the result, and dropping
\* TempRestoreScript removes the script, best effort.
RestoreExits ==
  /\ pc = "restore"
  /\ \E r \in child : ~ Running(r) /\ err' = (r.at = "failed")
  /\ child' = {}
  /\ pc' = "destroy_after"
  /\ \/ files' = files - 1 /\ NoFault
     \/ UNCHANGED files /\ Fault
  /\ UNCHANGED <<sets, orphans, req, temp, result, stale>>

\* The deadline, an output error or a poll error: the child is killed wherever
\* it is, even after its last line.
RestoreKilled ==
  /\ pc = "restore"
  /\ Fault
  /\ child' = {}
  /\ err' = TRUE
  /\ pc' = "destroy_after"
  /\ files' = files - 1
  /\ UNCHANGED <<sets, orphans, req, temp, result, stale>>

\* Mutant: the temporary set is destroyed only when the restore failed.
DestroyAfterFailureOnly ==
  /\ pc = "destroy_after"
  /\ IF err THEN BestEffortDestroy ELSE UNCHANGED kernelVars /\ NoFault
  /\ End(IF err THEN "failed" ELSE "ok")
  /\ UNCHANGED <<req, temp, err, files, stale>>

\* The temporary set, which after the swap holds the old list, is destroyed.
DestroyAfter ==
  /\ pc = "destroy_after"
  /\ BestEffortDestroy
  /\ End(IF err THEN "failed" ELSE "ok")
  /\ UNCHANGED <<req, temp, err, files, stale>>

-----------------------------------------------------------------------------
\* Kidobo is killed: the lock is free, no destructor runs, and a restore child
\* that is still at work is on its own.
Crash ==
  /\ pc # "idle"
  /\ Fault
  /\ End("failed")
  /\ orphans' = orphans \cup {r \in child : Running(r)}
  /\ child' = {}
  /\ UNCHANGED <<sets, req, temp, err, files, stale>>

\* flush destroys the set by name, whatever its type is.
FlushDestroy ==
  /\ pc = "idle"
  /\ sets[MANAGED].kind # "absent"
  /\ sets' = [sets EXCEPT ![MANAGED] = Absent]
  /\ result' = "none"
  /\ UNCHANGED <<pc, req, temp, child, orphans, err, files, faults, disturbed, stale>>

\* Another tool takes the free name for a set of its own type.
ForeignCreate ==
  /\ Fault
  /\ sets[MANAGED] = Absent
  /\ sets' = [sets EXCEPT ![MANAGED].kind = "other"]
  /\ UNCHANGED <<pc, req, temp, child, orphans, err, result, files, stale>>

Step ==
  \/ InspectIpset \/ CreateIpset \/ RejectRequest
  \/ \E t \in Temps : BeginReplace(t)
  \/ DestroyBefore \/ RunRestore \/ ChildLine \/ RestoreExits \/ RestoreKilled
  \/ DestroyAfter

Next ==
  \/ \E r \in Requests : StartSync(r)
  \/ Step
  \/ OrphanLine
  \/ Crash \/ FlushDestroy \/ ForeignCreate

Spec == Init /\ [][Next]_vars

-----------------------------------------------------------------------------
TypeOK ==
  /\ sets \in [Names -> KernelSet]
  /\ pc \in Pcs
  /\ req \in Requests
  /\ temp \in Temps
  /\ child \in SUBSET Restore
  /\ orphans \in SUBSET Restore
  /\ err \in BOOLEAN
  /\ result \in {"none", "ok", "failed"}
  /\ files \in Nat
  /\ faults \in 0 .. MaxFaults
  /\ disturbed \in BOOLEAN
  /\ stale \in BOOLEAN

(***************************************************************************)
(* Refinement of AtomicSet.  A request is done for when its restore child  *)
(* has executed the swap, failed once err says so, and late when the child *)
(* of a killed process runs on.                                            *)
(***************************************************************************)
Promise ==
  IF pc = "idle" THEN IF result = "ok" THEN "installed" ELSE result
  ELSE IF err THEN "failed"
  ELSE IF pc = "destroy_after" \/ \E r \in child : r.at = "ok" THEN "installed"
  ELSE "asked"

Requested(r) == [maxelem |-> r.maxelem, elems |-> ToSet(r.entries)]

Abstract == INSTANCE AtomicSet WITH
  Lists <- {Requested(r) : r \in Requests},
  managed <- sets[MANAGED],
  asked <- Requested(req),
  promise <- Promise,
  late <- {[maxelem |-> r.maxelem, elems |-> r.list] : r \in orphans}

\* Atomic replacement: line by line and command by command, the contents of the
\* managed set change only from one whole list that was asked for to another;
\* no packet is matched against a list that is half loaded.
ReplacesAtomically == Abstract!Spec

\* A replacement that reports success has installed exactly the requested
\* networks, with the configured capacity, unless the orphan of a killed
\* process swapped its older list in after it.
OkInstalled ==
  result = "ok" /\ ~ stale =>
    sets[MANAGED] = [kind |-> "ours", maxelem |-> req.maxelem,
                     elems |-> ToSet(req.entries)]

\* Undisturbed, a replacement whose request passed the capacity preflight
\* never fails: duplicates and any order of the entries are no reason to
\* reject the script, and no leftover of an earlier process is either.
NoSpuriousFailure ==
  pc = "destroy_after" /\ ~ disturbed => ~ err

\* Once no process and no orphan runs, every temporary set and every restore
\* script still there is the work of a failed command or a killed process.
LeaksBounded ==
  pc = "idle" /\ orphans = {} =>
    Cardinality({t \in Temps : sets[t] # Absent}) + files <= 2 * faults

(***************************************************************************)
(* How a replacement ends: success means installed, a failure has a cause  *)
(* outside the request, and leftovers are bounded by faults.               *)
(***************************************************************************)
EndsAsRequested == TypeOK /\ OkInstalled /\ NoSpuriousFailure /\ LeaksBounded
=============================================================================
