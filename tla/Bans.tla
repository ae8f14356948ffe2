-------------------------------- MODULE Bans --------------------------------
(***************************************************************************)
(* The operator's commands on the files that say what is banned, and sync  *)
(* as the other process that rewrites them.                                *)
(*                                                                         *)
(* Three files: the local blocklist, the temporary bans, and the           *)
(* configuration (banned ASNs and everything else).  ban, unban, ban and   *)
(* unban of an ASN (crates/kidobo-app/src/blocklist/), configuration edits *)
(* (configuration.rs) and sync (sync.rs) take one nonblocking lock; unban  *)
(* and configuration edits first prepare a preview without it.  Each file  *)
(* is replaced atomically, two files never are: a write may fail, with or  *)
(* without having taken effect (limited_io.rs syncs the directory after    *)
(* the rename), and a process may be killed between two writes.            *)
(***************************************************************************)
EXTENDS Naturals, Sequences, FiniteSets

CONSTANTS
  Procs,      \* processes; each runs one command
  Nets,       \* CIDRs, each the set of its addresses
  Asns,       \* autonomous systems
  Prefixes,   \* the CIDRs bgpq4 reports for each of them
  Commands,   \* the commands operators and the timer may start
  Stores,     \* the contents the files may have at the start
  MaxTime,    \* bound: the clock shows a time in 1 .. MaxTime
  MaxFaults   \* bound: failed reads and writes, and killed processes

NoProc == "none"

\* Expiry times; 0 stands for "no record".
Expiry == 0 .. (2 * MaxTime)
Configs == [asns : SUBSET Asns, other : BOOLEAN]
TempBans == [ips : [Nets -> Expiry], asns : [Asns -> Expiry]]
Store ==
  [list : SUBSET Nets,            \* blocklist.txt
   temp : TempBans,               \* temporary-bans.toml
   config : Configs,              \* config.toml
   kernel : SUBSET UNION Nets]    \* addresses the last enforcement blocks

\* hours is the duration of a temporary ban, 0 for a permanent one; partial is
\* the operator's answer to "remove overlapping entries too?".
CommandType ==
  [kind : {"ban", "unban"}, net : Nets, hours : 0 .. MaxTime, partial : BOOLEAN]
    \cup [kind : {"ban_asn", "unban_asn"}, asn : Asns, hours : 0 .. MaxTime]
    \cup [kind : {"edit", "sync"}]

ASSUME BoundAssumption == MaxTime \in Nat \ {0} /\ MaxFaults \in Nat
ASSUME ProcAssumption == NoProc \notin Procs
ASSUME NetAssumption == (\A n \in Nets : n # {}) /\ IsFiniteSet(UNION Nets)
ASSUME PrefixAssumption == Prefixes \in [Asns -> SUBSET Nets]
ASSUME CommandAssumption == Commands \subseteq CommandType
ASSUME StoreAssumption == Stores \subseteq Store

VARIABLES
  store,   \* the files and the kernel
  lock,    \* the holder of the process lock
  now,     \* the wall clock, which may also be set back
  pc,      \* per process: the step it executes next
  cmd,     \* per process: its command
  seen,    \* per process: what it read before taking the lock
  cutoff,  \* per process: the time it read the clock under the lock
  todo,    \* per process: the writes its plan still has to make
  wrote,   \* per process, history: a write that changed a file succeeded
  res,     \* per process: its outcome
  faults   \* faults so far, at most MaxFaults

vars == <<store, lock, now, pc, cmd, seen, cutoff, todo, wrote, res, faults>>

Init ==
  /\ store \in Stores
  /\ lock = NoProc
  /\ now = 1
  /\ pc = [p \in Procs |-> "ready"]
  /\ cmd \in [Procs -> Commands]
  /\ seen = [p \in Procs |-> store]
  /\ cutoff = [p \in Procs |-> 0]
  /\ todo = [p \in Procs |-> <<>>]
  /\ wrote = [p \in Procs |-> FALSE]
  /\ res = [p \in Procs |-> "none"]
  /\ faults = 0

-----------------------------------------------------------------------------
(***************************************************************************)
(* What is banned.                                                         *)
(***************************************************************************)

\* active_ips and active_asns: strictly later than the cutoff.
Active(records, t) == {x \in DOMAIN records : records[x] > t}

\* The addresses a sync with these files blocks (safelists aside).
Effective(s, t) ==
  UNION (s.list \cup Active(s.temp.ips, t)
           \cup UNION {Prefixes[a] : a \in s.config.asns \cup Active(s.temp.asns, t)})

\* prune_expired: records that are not active go.
Prune(records, t) ==
  [x \in DOMAIN records |-> IF records[x] > t THEN records[x] ELSE 0]

\* canonicalized_contents: the fewest CIDRs with the same addresses.
Collapse(list) ==
  LET inside == {n \in Nets : n \subseteq UNION list}
  IN {n \in inside : \A m \in inside : n \subseteq m => m = n}

\* UnbanTargetIndex::plan: the entries that equal or overlap the target.
Exact(nets, target) == nets \cap {target}
Partial(nets, target) == {n \in nets : n # target /\ n \cap target # {}}
Matches(nets, c) ==
  Exact(nets, c.net) \cup Partial(nets, c.net)
Removed(nets, c) ==
  Exact(nets, c.net) \cup (IF c.partial THEN Partial(nets, c.net) ELSE {})

\* The records of the temporary file that exist.
Recorded(records) == {x \in DOMAIN records : records[x] # 0}

\* build_unban_plan: what the operator is shown, deadlines included.
Preview(s, c) ==
  [list |-> Matches(s.list, c),
   temp |-> [n \in Matches(Recorded(s.temp.ips), c) |-> s.temp.ips[n]]]

-----------------------------------------------------------------------------
(***************************************************************************)
(* The writes a command makes, in order, decided when it has loaded the    *)
(* files under the lock.  soft writes are best effort: their failure is a  *)
(* notice, not an error.                                                   *)
(***************************************************************************)
SaveTemp(t) == [op |-> "save_temp", temp |-> t]
UpdateAsns(add, remove) == [op |-> "update_config", add |-> add, remove |-> remove]

\* execute_ban.  A target that is permanently banned gets no deadline.
BanPlan(s, c, t) ==
  IF c.net \in s.list THEN <<>>
  ELSE IF c.hours = 0 THEN <<[op |-> "append", net |-> c.net]>>
  ELSE <<SaveTemp([s.temp EXCEPT !.ips[c.net] = t + c.hours])>>

\* apply_unban: the temporary file first, then the blocklist.
UnbanPlan(s, c) ==
  LET temps == Removed(Recorded(s.temp.ips), c)
      lines == Removed(s.list, c)
      ips == [n \in Nets |-> IF n \in temps THEN 0 ELSE s.temp.ips[n]]
  IN (IF temps = {} THEN <<>> ELSE <<SaveTemp([s.temp EXCEPT !.ips = ips])>>)
     \o (IF lines = {} THEN <<>>
         ELSE <<[op |-> "write_lines", lines |-> s.list \ lines]>>)

\* Mutant: duplicates leave the blocklist before the ASN is configured.
BanAsnPlanDedupeFirst(s, c, t) ==
  IF c.hours = 0
  THEN <<[op |-> "dedupe", nets |-> Prefixes[c.asn]], UpdateAsns({c.asn}, {})>>
  ELSE IF c.asn \in s.config.asns THEN <<>>
  ELSE <<SaveTemp([s.temp EXCEPT !.asns[c.asn] = t + c.hours])>>

\* execute_ban_asn, then remove_exact_duplicates.
BanAsnPlan(s, c, t) ==
  IF c.hours = 0
  THEN <<UpdateAsns({c.asn}, {}), [op |-> "dedupe", nets |-> Prefixes[c.asn]]>>
  ELSE IF c.asn \in s.config.asns THEN <<>>
  ELSE <<SaveTemp([s.temp EXCEPT !.asns[c.asn] = t + c.hours])>>

\* execute_unban_asn: the configuration is left alone when only the temporary
\* file knew the ASN.
UnbanAsnPlan(s, c) ==
  LET temporary == s.temp.asns[c.asn] # 0
  IN (IF temporary THEN <<SaveTemp([s.temp EXCEPT !.asns[c.asn] = 0])>> ELSE <<>>)
     \o (IF temporary /\ c.asn \notin s.config.asns THEN <<>>
         ELSE <<UpdateAsns({}, {c.asn})>>)

\* configuration::apply writes the whole candidate, rendered from the document
\* its preview read.
EditPlan(preview) ==
  <<[op |-> "write_config", config |-> [preview.config EXCEPT !.other = ~ @]]>>

\* sync: normalise and load the blocklist, enforce, prune expired records.
SyncPlan(s, t) ==
  LET pruned == [ips |-> Prune(s.temp.ips, t), asns |-> Prune(s.temp.asns, t)]
  IN <<[op |-> "normalize"],
       [op |-> "enforce", config |-> s.config, temp |-> s.temp, cutoff |-> t]>>
     \o (IF pruned = s.temp THEN <<>> ELSE <<[op |-> "prune", temp |-> pruned]>>)

Soft(w) == w.op \in {"dedupe", "prune"}

\* What one write does.  append, dedupe and update_config read the file again.
Effect(s, w) ==
  CASE w.op \in {"save_temp", "prune"} -> [s EXCEPT !.temp = w.temp]
    [] w.op = "append" -> [s EXCEPT !.list = @ \cup {w.net}]
    [] w.op = "write_lines" -> [s EXCEPT !.list = w.lines]
    [] w.op = "dedupe" -> [s EXCEPT !.list = @ \ w.nets]
    [] w.op = "normalize" -> [s EXCEPT !.list = Collapse(@)]
    [] w.op = "update_config" ->
         [s EXCEPT !.config.asns = (@ \cup w.add) \ w.remove]
    [] w.op = "write_config" -> [s EXCEPT !.config = w.config]
    [] w.op = "enforce" ->
         [s EXCEPT !.kernel =
            Effective([s EXCEPT !.config = w.config, !.temp = w.temp], w.cutoff)]

-----------------------------------------------------------------------------
(***************************************************************************)
(* The steps of a process.                                                 *)
(***************************************************************************)
Kind(p) == cmd[p].kind

Go(p, next) == pc' = [pc EXCEPT ![p] = next]

\* The process ends; dropping the guard releases the lock.
End(p, outcome) ==
  /\ res' = [res EXCEPT ![p] = outcome]
  /\ Go(p, "end")
  /\ lock' = IF lock = p THEN NoProc ELSE lock

Fault == faults < MaxFaults /\ faults' = faults + 1

\* prepare_unban, configuration::prepare and sync's first load of the
\* configuration, none of which hold the lock.
Start(p) ==
  /\ pc[p] = "ready"
  /\ Go(p, CASE Kind(p) = "unban" -> "peek_list"
             [] Kind(p) \in {"edit", "sync"} -> "peek_config"
             [] OTHER -> "acquire")
  /\ UNCHANGED <<store, lock, now, cmd, seen, cutoff, todo, wrote, res, faults>>

Peek(p, at, next, look) ==
  /\ pc[p] = at
  /\ seen' = [seen EXCEPT ![p] = look]
  /\ Go(p, next)
  /\ UNCHANGED <<store, lock, now, cmd, cutoff, todo, wrote, res, faults>>

PeekList(p) ==
  Peek(p, "peek_list", "peek_temp", [seen[p] EXCEPT !.list = store.list])
PeekTemp(p) ==
  Peek(p, "peek_temp", "acquire", [seen[p] EXCEPT !.temp = store.temp])
PeekConfig(p) ==
  Peek(p, "peek_config", "acquire", [seen[p] EXCEPT !.config = store.config])

\* Mutant: a held lock is taken for free.
AcquireAlways(p) ==
  /\ pc[p] = "acquire"
  /\ lock' = p
  /\ Go(p, "load")
  /\ UNCHANGED <<store, now, cmd, seen, cutoff, todo, wrote, res, faults>>

\* The nonblocking lock: a holder makes the command fail at once.
Acquire(p) ==
  /\ pc[p] = "acquire"
  /\ IF lock = NoProc
     THEN lock' = p /\ Go(p, "load") /\ UNCHANGED res
     ELSE End(p, "locked")
  /\ UNCHANGED <<store, now, cmd, seen, cutoff, todo, wrote, faults>>

\* Mutant: any preview is applied.
StillValidAlways(p) == TRUE

\* The preview is compared with what the files say under the lock.
StillValid(p) ==
  CASE Kind(p) = "unban" -> Preview(store, cmd[p]) = Preview(seen[p], cmd[p])
    [] Kind(p) = "edit" -> store.config = seen[p].config
    [] OTHER -> TRUE

\* Mutant: sync keeps the configuration it validated before taking the lock.
PlanPreLockConfig(p) ==
  LET c == cmd[p]
  IN CASE c.kind = "ban" -> BanPlan(store, c, now)
       [] c.kind = "unban" -> UnbanPlan(store, c)
       [] c.kind = "ban_asn" -> BanAsnPlan(store, c, now)
       [] c.kind = "unban_asn" -> UnbanAsnPlan(store, c)
       [] c.kind = "edit" -> EditPlan(seen[p])
       [] c.kind = "sync" -> SyncPlan([store EXCEPT !.config = seen[p].config], now)

Plan(p) ==
  LET c == cmd[p]
  IN CASE c.kind = "ban" -> BanPlan(store, c, now)
       [] c.kind = "unban" -> UnbanPlan(store, c)
       [] c.kind = "ban_asn" -> BanAsnPlan(store, c, now)
       [] c.kind = "unban_asn" -> UnbanAsnPlan(store, c)
       [] c.kind = "edit" -> EditPlan(seen[p])
       [] c.kind = "sync" -> SyncPlan(store, now)

\* Under the lock the files are read (again) and the writes planned.
Load(p) ==
  /\ pc[p] = "load"
  /\ \/ /\ StillValid(p)
        /\ todo' = [todo EXCEPT ![p] = Plan(p)]
        /\ cutoff' = [cutoff EXCEPT ![p] = now]
        /\ Go(p, "write")
        /\ UNCHANGED <<lock, res, faults>>
     \/ ~ StillValid(p) /\ End(p, "changed") /\ UNCHANGED <<todo, cutoff, faults>>
     \/ Fault /\ End(p, "error") /\ UNCHANGED <<todo, cutoff>>
  /\ UNCHANGED <<store, now, cmd, seen, wrote>>

\* partial_update_error: an error after a first successful write says so.
FailureOutcome(p) == IF wrote[p] /\ Kind(p) # "sync" THEN "partial" ELSE "error"

\* The next write of the plan: it succeeds, or fails before or after the file
\* was replaced.
Write(p) ==
  /\ pc[p] = "write"
  /\ todo[p] # <<>>
  /\ LET w == Head(todo[p]) IN
       \/ /\ store' = Effect(store, w)
          /\ todo' = [todo EXCEPT ![p] = Tail(@)]
          /\ wrote' = [wrote EXCEPT ![p] = TRUE]
          /\ UNCHANGED <<lock, pc, res, faults>>
       \/ /\ Fault
          /\ store' \in {store, Effect(store, w)}
          /\ UNCHANGED wrote
          /\ IF Soft(w) THEN /\ todo' = [todo EXCEPT ![p] = Tail(@)]
                             /\ UNCHANGED <<lock, pc, res>>
             ELSE End(p, FailureOutcome(p)) /\ UNCHANGED todo
  /\ UNCHANGED <<now, cmd, seen, cutoff>>

Finish(p) ==
  /\ pc[p] = "write"
  /\ todo[p] = <<>>
  /\ End(p, "ok")
  /\ UNCHANGED <<store, now, cmd, seen, cutoff, todo, wrote, faults>>

\* A check of the cancellation flag: before the lock, and under it until the
\* first write.  sync checks it until enforcement begins.
Cancel(p) ==
  /\ \/ pc[p] \in {"peek_list", "peek_temp", "peek_config", "acquire", "load"}
     \/ pc[p] = "write" /\ todo[p] # <<>> /\ ~ wrote[p]
     \/ pc[p] = "write" /\ todo[p] # <<>> /\ Head(todo[p]).op = "enforce"
  /\ End(p, "cancelled")
  /\ UNCHANGED <<store, now, cmd, seen, cutoff, todo, wrote, faults>>

\* The process is killed; the kernel releases its lock.
Crash(p) ==
  /\ pc[p] \notin {"ready", "end"}
  /\ Fault
  /\ End(p, "killed")
  /\ UNCHANGED <<store, now, cmd, seen, cutoff, todo, wrote>>

\* Time passes, or the wall clock is set.
SetClock ==
  /\ now' \in (1 .. MaxTime) \ {now}
  /\ UNCHANGED <<store, lock, pc, cmd, seen, cutoff, todo, wrote, res, faults>>

Step(p) ==
  \/ PeekList(p) \/ PeekTemp(p) \/ PeekConfig(p) \/ Acquire(p) \/ Load(p)
  \/ Write(p) \/ Finish(p)

Next ==
  \/ \E p \in Procs : Start(p) \/ Step(p) \/ Cancel(p) \/ Crash(p)
  \/ SetClock

Spec == Init /\ [][Next]_vars

-----------------------------------------------------------------------------
TypeOK ==
  /\ store \in Store
  /\ lock \in Procs \cup {NoProc}
  /\ now \in 1 .. MaxTime
  /\ pc \in [Procs -> {"ready", "peek_list", "peek_temp", "peek_config",
                       "acquire", "load", "write", "end"}]
  /\ cmd \in [Procs -> Commands]
  /\ seen \in [Procs -> Store]
  /\ cutoff \in [Procs -> 0 .. MaxTime]
  /\ wrote \in [Procs -> BOOLEAN]
  /\ res \in [Procs -> {"none", "ok", "error", "partial", "changed", "locked",
                        "cancelled", "killed"}]
  /\ faults \in 0 .. MaxFaults

\* The process that made a step from "write" that touched the store.
Wrote(p) == pc[p] = "write" /\ store' # store /\ (todo' # todo \/ pc' # pc)

Touched(f, g) == {x \in DOMAIN f : f[x] # g[x]}

\* What a write of command c, with cutoff t, may turn the files s into.
Confined(c, s, r, t) ==
  LET ips == Touched(s.temp.ips, r.temp.ips)
      asns == Touched(s.temp.asns, r.temp.asns)
      added == r.list \ s.list
      removed == s.list \ r.list
  IN CASE c.kind = "ban" ->
            /\ ips \subseteq {c.net} /\ asns = {}
            /\ added \subseteq {c.net} /\ removed = {}
            /\ r.config = s.config
       [] c.kind = "unban" ->
            /\ \A n \in ips \cup removed : n \cap c.net # {}
            /\ asns = {} /\ added = {}
            /\ r.config = s.config
       [] c.kind \in {"ban_asn", "unban_asn"} ->
            /\ ips = {} /\ asns \subseteq {c.asn}
            /\ added = {} /\ removed \subseteq Prefixes[c.asn]
            /\ r.config.other = s.config.other
            /\ r.config.asns \ {c.asn} = s.config.asns \ {c.asn}
       [] c.kind = "edit" ->
            r = [s EXCEPT !.config.other = ~ @]
       [] c.kind = "sync" ->
            /\ \A n \in ips : s.temp.ips[n] <= t
            /\ \A a \in asns : s.temp.asns[a] <= t
            /\ UNION r.list = UNION s.list
            /\ r.config = s.config

(***************************************************************************)
(* No lost update.  Whatever two processes do at the same time, a command  *)
(* changes only the entries its operator named: the saves of whole files   *)
(* never bring back or wipe out what another command wrote meanwhile.  A   *)
(* sync only rewrites the blocklist to the same addresses and only removes *)
(* records that had expired at its cutoff.                                 *)
(***************************************************************************)
NoCollateral ==
  [][\A p \in Procs : Wrote(p) => Confined(cmd[p], store, store', cutoff[p])]_vars

\* What an unban takes out of the files s was in the preview of the files v,
\* with the same deadlines.
AsShown(c, s, r, v) ==
  c.kind = "unban" =>
    LET shown == Preview(v, c) IN
    /\ s.list \ r.list \subseteq shown.list
    /\ \A n \in Touched(s.temp.ips, r.temp.ips) :
         n \in DOMAIN shown.temp /\ shown.temp[n] = s.temp.ips[n]

(***************************************************************************)
(* An unban removes exactly what its preview showed the operator, deadlines *)
(* included, although the preview was read without the lock and from two   *)
(* files one after the other: an entry that appeared or was rescheduled    *)
(* since then is never removed.                                            *)
(***************************************************************************)
UnbanAsPreviewed ==
  [][\A p \in Procs : Wrote(p) => AsShown(cmd[p], store, store', seen[p])]_vars

\* A command whose first file was written and whose second was not reports a
\* partial update; a plain error means that no earlier write succeeded.
PartialReported ==
  \A p \in Procs : res[p] = "error" /\ Kind(p) # "sync" => ~ wrote[p]

\* Bans and syncs leave banned what was banned at time t.
Covers(c, s, r, t) ==
  c.kind \in {"ban", "ban_asn", "sync"} => Effective(s, t) \subseteq Effective(r, t)

(***************************************************************************)
(* Banning never uncovers: no write of a ban, of an ASN ban or of a sync   *)
(* makes an address unbanned that the files banned before it at the time   *)
(* the command read them, so a process killed between two writes leaves at *)
(* least the old bans behind; and one that failed between them says so.    *)
(* (The types belong to it.)                                               *)
(***************************************************************************)
BanNeverUncovers ==
  /\ [](TypeOK /\ PartialReported)
  /\ [][\A p \in Procs : Wrote(p) => Covers(cmd[p], store, store', cutoff[p])]_vars

(***************************************************************************)
(* A sync that succeeds has enforced the files as they are when it ends,   *)
(* the configuration included, which it also read before it had the lock.  *)
(***************************************************************************)
EnforcesLockedFiles ==
  [][\A p \in Procs : Kind(p) = "sync" /\ res'[p] = "ok" /\ res[p] # "ok" =>
       store.kernel = Effective(store, cutoff[p])]_vars

=============================================================================
