------------------------------ MODULE Preview ------------------------------
(***************************************************************************)
(* The sync preview (crates/kidobo-app/src/preview.rs with the data-only   *)
(* providers of crates/kidobo-adapters/src/preview_sources.rs) beside      *)
(* syncs and edits, and the process lock that orders them                  *)
(* (crates/kidobo-adapters/src/lock.rs).                                   *)
(*                                                                         *)
(* A sync and every command that saves something take the lock             *)
(* exclusively, a preview takes it shared; nobody waits for it.  The lock  *)
(* is a flock: it belongs to the open file, so it lasts while a process    *)
(* has that file open and has not unlocked it - the holder, or a child     *)
(* that inherited the descriptor and outlives a killed holder.             *)
(*                                                                         *)
(* The sync is the module Sync, whose uncached providers read what is      *)
(* saved.  Each read of the preview is a step.                             *)
(***************************************************************************)
EXTENDS Sync

CONSTANTS
  None,           \* no value
  SavedConfigs,   \* what the configuration file may say: ipv6, maxelem, safe
  SavedLists,     \* what the local blocklist and the temporary bans may block
  InitialCaches,  \* caches earlier syncs may have left
  MaxChanges      \* bound: commands started and files saved

\* Only the caches of external providers are fetched for them; what is not
\* cached is one of three files.
ASSUME PreviewAssumption ==
  /\ SavedConfigs \subseteq [ipv6 : BOOLEAN, maxelem : MaxElems, safe : SUBSET Nets]
  /\ SavedLists \subseteq SUBSET Nets
  /\ \A c \in InitialCaches : c \in [Ids -> {g \in Seq(SUBSET Nets) : Len(g) <= 2}]
  /\ \A nets \in SUBSET Nets : nets # None
  /\ MaxChanges \in Nat
  /\ \A i \in DOMAIN Registry :
       \/ Registry[i].cached
       \/ /\ Registry[i].id \in {"local-blocklist", "temporary-blocklist", "config-safelist"}
          /\ Registry[i].role # "external"

VARIABLES
  saved,      \* the files: config, local blocklist, temporary bans
  lockFile,   \* the lock file exists
  lock,       \* the locks held: mode and the processes that have the file open
  child,      \* a command that a killed sync started still runs
  view,       \* the running preview
  predicted,  \* what the last preview showed, None once anything it read changed
  promised,   \* what the running or last sync is expected to do, or None
  changes     \* commands started and files saved so far

files == <<saved, lockFile, changes>>
allVars == <<vars, saved, lockFile, lock, child, view, predicted, promised, changes>>

Idle == [pc |-> "idle"]

InitPreview ==
  /\ InitSync
  /\ cache \in InitialCaches
  /\ saved \in [config : SavedConfigs, local : SavedLists, temporary : SavedLists]
  /\ lockFile \in BOOLEAN
  /\ lock = {} /\ child = FALSE
  /\ view = Idle
  /\ predicted = None /\ promised = None
  /\ changes = 0

-----------------------------------------------------------------------------
(***************************************************************************)
(* The lock.                                                               *)
(***************************************************************************)
\* Mutant: the lock file is opened without O_CLOEXEC.
InheritedByAll == {"child"}

\* The descriptor has O_CLOEXEC: a spawned command does not get it.
Inherited == {}

Held(mode, owner) == [mode |-> mode, open |-> {owner} \cup Inherited]

\* try_lock_exclusive, try_lock_shared: whether it would block.
Free(mode) == IF mode = "exclusive" THEN lock = {} ELSE \A l \in lock : l.mode = "shared"

\* Mutant: a preview does without the lock.
AcquireNothing == view' = [view EXCEPT !.pc = "config"] /\ UNCHANGED lock

\* acquire_existing_shared: the file must exist and is not created.
AcquireShared ==
  IF lockFile /\ Free("shared")
  THEN /\ lock' = lock \cup {Held("shared", "preview")}
       /\ view' = [view EXCEPT !.pc = "config"]
  ELSE view' = Idle /\ UNCHANGED lock

\* FileLock::drop unlocks, whoever else has the file open.
Drop(owner) == lock' = {l \in lock : owner \notin l.open}

\* A process is gone: the lock is too unless a child has the file open.
Close(process) ==
  lock' = {l \in {[k EXCEPT !.open = @ \ {process}] : k \in lock} : l.open # {}}

-----------------------------------------------------------------------------
(***************************************************************************)
(* The preview.                                                            *)
(***************************************************************************)
Unchanged == UNCHANGED <<vars, files, child, promised>>

StartPreview ==
  /\ view = Idle /\ changes < MaxChanges
  /\ \E network \in BOOLEAN :
       view' = [pc |-> "lock", network |-> network, config |-> None, temporary |-> {},
                loaded |-> 0, candidates |-> {}, safelist |-> {}, external |-> <<>>,
                answers |-> <<>>]
  /\ changes' = changes + 1
  /\ UNCHANGED <<vars, saved, lockFile, lock, child, predicted, promised>>

LockForPreview == view.pc = "lock" /\ AcquireShared /\ Unchanged /\ UNCHANGED predicted

ReadConfig ==
  /\ view.pc = "config"
  /\ view' = [view EXCEPT !.pc = "temporary", !.config = saved.config]
  /\ Unchanged /\ UNCHANGED <<lock, predicted>>

ReadTemporary ==
  /\ view.pc = "temporary"
  /\ view' = [view EXCEPT !.pc = "load", !.temporary = saved.temporary]
  /\ Unchanged /\ UNCHANGED <<lock, predicted>>

\* What a provider's own file says; the safelist and the temporary bans have
\* been read already.
FileOf(id, conf, temporary) ==
  CASE id = "local-blocklist" -> saved.local
    [] id = "temporary-blocklist" -> temporary
    [] id = "config-safelist" -> conf.safe

\* What a load comes up with; answer is what the network said, None if nothing.
Read(nets, fallback, answer) == [nets |-> nets, fallback |-> fallback, answer |-> answer]

\* The feeds: their caches, or fresh bodies held in memory.
FeedReads(p) ==
  {Read(Current(p.id), {}, None)}
  \cup {Read(b, {}, b) : b \in IF view.network THEN Offers[p.id] ELSE {}}

\* The GitHub metadata: a fresh body is backed by the current generation, the
\* current generation by the previous one.
MetaReads(p) ==
  {Read(Current(p.id), Previous(p.id), None)}
  \cup {Read(b, {cache[p.id][i] : i \in DOMAIN cache[p.id] \cap {1}}, b) :
          b \in IF view.network THEN Offers[p.id] ELSE {}}

\* Provider::load
Reads(p) ==
  IF ~ p.cached THEN {Read(FileOf(p.id, view.config, view.temporary), {}, None)}
  ELSE IF p.role = "external" THEN MetaReads(p) ELSE FeedReads(p)

\* load_sources
LoadForPreview ==
  /\ view.pc = "load" /\ view.loaded < Len(Registry)
  /\ LET p == Registry[view.loaded + 1] IN
       \E l \in Reads(p) :
         view' = [pc |-> "load", network |-> view.network, config |-> view.config,
                  temporary |-> view.temporary,
                  loaded |-> view.loaded + 1,
                  candidates |-> view.candidates \cup IF p.role = "candidate" THEN l.nets ELSE {},
                  safelist |-> view.safelist \cup IF p.role = "safelist" THEN l.nets ELSE {},
                  external |-> view.external \o IF p.role = "external" THEN <<l>> ELSE <<>>,
                  answers |-> Append(view.answers, l.answer)]
  /\ Unchanged /\ UNCHANGED <<lock, predicted>>

\* One turn of admit_external_safelists.
Admitted(base, s, l) ==
  LET fits(nets) == PreservesBaseline(view.candidates, s, nets, view.config.ipv6, base)
  IN s \cup IF fits(l.nets) THEN l.nets ELSE UNION {b \in l.fallback : fits(b)}

\* The external safelists, each on top of those admitted before it.
SafelistAfter[i \in 0 .. Len(Registry)] ==
  IF i = 0 THEN view.safelist
  ELSE Admitted(EffectiveLists(view.candidates, view.safelist, view.config.ipv6),
                SafelistAfter[i - 1], view.external[i])

\* The rest of execute: admission, the plan and its capacity check.
FinishPreview ==
  /\ view.pc = "load" /\ view.loaded = Len(Registry)
  /\ LET safelisted == SafelistAfter[Len(view.external)]
         plan == EffectiveLists(view.candidates, safelisted, view.config.ipv6)
     IN predicted' =
          [answers |-> view.answers,
           plan |-> IF WithinCapacity(plan, view.config.ipv6, view.config.maxelem)
                    THEN plan ELSE None]
  /\ view' = Idle /\ Drop("preview")
  /\ Unchanged

\* A cancellation, an unreadable file or an exceeded budget: an error, or the
\* process is killed.
FailPreview ==
  /\ view # Idle
  /\ view' = Idle
  /\ Drop("preview") \/ Close("preview")
  /\ Unchanged /\ UNCHANGED predicted

-----------------------------------------------------------------------------
(***************************************************************************)
(* The sync, under the exclusive lock.                                     *)
(***************************************************************************)
KeepPreview == UNCHANGED <<saved, view, changes>>

\* What was predicted stands as long as nothing that was read has changed.
Forget == predicted' = IF cache' = cache THEN predicted ELSE None

\* The prediction binds a sync that hears the same from the network.
Promise(same) == promised' = IF same THEN promised ELSE None

LockForSync ==
  /\ Free("exclusive") /\ changes < MaxChanges
  /\ lock' = {Held("exclusive", "sync")}
  /\ lockFile' = TRUE
  /\ Begin
  /\ config' = [ipv6 |-> saved.config.ipv6, maxelem |-> saved.config.maxelem]
  /\ changes' = changes + 1
  /\ promised' = predicted
  /\ UNCHANGED <<saved, child, view, predicted>>

SyncLoads(p) ==
  IF p.cached THEN Loads(p)
  ELSE {Load(FileOf(p.id, saved.config, saved.temporary), {}, FALSE, FALSE)}

\* The answer of the network in a load of the sync that has just been accepted.
Answered(p) ==
  IF p.cached /\ Len(pending') > Len(pending) THEN pending'[Len(pending')][2]
  ELSE IF p.cached /\ external' # external /\ external'[Len(external')].load.staged
  THEN external'[Len(external')].load.nets
  ELSE None

LoadForSync ==
  /\ LoadSourceFrom(SyncLoads(Registry[loaded + 1]))
  /\ Promise(/\ ~ disturbed'
             /\ promised # None /\ loaded' = loaded + 1
                  => promised.answers[loaded'] = Answered(Registry[loaded']))

SyncStep ==
  /\ \/ LoadForSync
     \/ /\ \/ EnsureArtifacts \/ BeginAdmission \/ AdmitExternal \/ CheckCapacity
           \/ Promote \/ BeginEnforcement \/ ApplyIpv6 \/ ApplyIpv4 \/ Activate
           \/ CleanupDisabledIpv6
        /\ Promise(~ disturbed')
  /\ UNCHANGED <<config, cancelled, start>>
  /\ IF pc' = "idle" THEN Drop("sync") ELSE UNCHANGED lock
  /\ Forget /\ KeepPreview /\ UNCHANGED <<lockFile, child>>

InterruptSync ==
  Interrupt /\ UNCHANGED <<saved, lockFile, lock, child, view, predicted, promised, changes>>

\* The steps that run commands: ipset, iptables, bgpq4.
RunsCommands == {"artifacts", "load", "apply6", "apply4", "activate", "cleanup"}

\* The sync is killed; a command it was waiting for may go on.
KillSync ==
  /\ Kill
  /\ Close("sync")
  /\ child' \in {child, child \/ pc \in RunsCommands}
  /\ promised' = None
  /\ Forget /\ KeepPreview /\ UNCHANGED lockFile

ChildExits ==
  /\ child /\ child' = FALSE
  /\ Close("child")
  /\ UNCHANGED <<vars, files, view, predicted, promised>>

\* Any other command that saves a file does it under the exclusive lock.
Save ==
  /\ Free("exclusive") /\ changes < MaxChanges
  /\ saved' \in {[saved EXCEPT !.config = c] : c \in SavedConfigs}
                \cup {[saved EXCEPT !.local = l] : l \in SavedLists}
                \cup {[saved EXCEPT !.temporary = l] : l \in SavedLists}
  /\ saved' # saved
  /\ lockFile' = TRUE
  /\ changes' = changes + 1
  /\ predicted' = None
  /\ UNCHANGED <<vars, lock, child, view, promised>>

\* No command runs: the host may stay as it is.
Rest == view = Idle /\ pc = "idle" /\ UNCHANGED allVars

NextPreview ==
  \/ StartPreview \/ LockForPreview \/ ReadConfig \/ ReadTemporary \/ LoadForPreview
  \/ FinishPreview \/ FailPreview
  \/ LockForSync \/ SyncStep \/ InterruptSync \/ KillSync \/ ChildExits
  \/ Save \/ Rest

SpecPreview == InitPreview /\ [][NextPreview]_allVars
-----------------------------------------------------------------------------
(***************************************************************************)
(* A preview shows what a sync does.  If nothing has been saved since it   *)
(* read its files and the network gives the sync the same answers, a sync  *)
(* that meets no fault enforces exactly the plan shown, family by family,  *)
(* and fails exactly if the preview did.                                   *)
(***************************************************************************)
PreviewPredicts ==
  promised # None =>
    /\ Ended("ok") =>
         /\ promised.plan # None
         /\ \A f \in Enabled : kernel[f].entries = Of(f, promised.plan)
    /\ Ended("failed") => promised.plan = None

(***************************************************************************)
(* The lock ends with the processes that took it, however they end: when   *)
(* no sync and no preview runs, nothing keeps the next one out, not even a *)
(* command that a killed sync left behind.                                 *)
(***************************************************************************)
LockReleased == pc = "idle" /\ view.pc \in {"idle", "lock"} => lock = {}
=============================================================================
