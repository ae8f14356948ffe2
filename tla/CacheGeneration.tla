-------------------------- MODULE CacheGeneration --------------------------
(***************************************************************************)
(* One store of remote cache generations                                   *)
(* (crates/kidobo-adapters/src/cache_generation.rs, and the refresh of     *)
(* http_cache.rs that uses it).                                            *)
(*                                                                         *)
(* A generation is a directory named by the hash of its contents.  The     *)
(* manifest current.json names the current and the previous one.  A sync   *)
(* cleans up, reads the cache, fetches, stages a generation, and promotes  *)
(* it only once everything else was admitted; dropping a staged generation *)
(* that was not promoted removes what staging created.                     *)
(*                                                                         *)
(* disk is what processes see; safe is what a power loss cannot take away: *)
(* a rename or a removal is safe only after its directory was synced.      *)
(***************************************************************************)
EXTENDS Naturals, Sequences, FiniteSets

CONSTANTS
  Ids,        \* generation identifiers, one for each content of the feed
  NoId,       \* no generation
  MaxFaults   \* bound: failed file operations, kills, power losses, corruptions

CacheAssumption ==
  /\ NoId \notin Ids
  /\ MaxFaults \in Nat

\* current.json: absent, unusable, or naming one or two generations.
NoManifest == [state |-> "absent", current |-> NoId, previous |-> NoId]
Unusable == [state |-> "unusable", current |-> NoId, previous |-> NoId]
Manifest(c, p) == [state |-> "usable", current |-> c, previous |-> p]
Manifests ==
  {NoManifest, Unusable} \cup
  ({Manifest(c, p) : c \in Ids, p \in Ids \cup {NoId}} \ {Manifest(i, i) : i \in Ids})

\* The directory of a generation: its members hash to its name, or they do not.
Disk == [manifest : Manifests, dirs : [Ids -> {"absent", "good", "bad"}]]

VARIABLES
  disk,       \* the store as processes see it
  safe,       \* the store as a power loss may leave it
  pc,         \* the step the running process executes next, or "idle"
  cached,     \* the generation read_remote_cache returned
  staged,     \* generation_id of the StagedGeneration
  previous,   \* its previous
  owns,       \* its remove_on_drop
  repair,     \* whether it has a GenerationRepair
  result,     \* how the last process ended
  faults,     \* faults so far, at most MaxFaults
  disturbed   \* history: a fault met the last process

vars == <<disk, safe, pc, cached, staged, previous, owns, repair, result,
          faults, disturbed>>

process == <<cached, staged, previous, owns, repair>>

EmptyDisk == [manifest |-> NoManifest, dirs |-> [i \in Ids |-> "absent"]]

Init ==
  /\ disk = EmptyDisk /\ safe = EmptyDisk
  /\ pc = "idle"
  /\ cached = NoId /\ staged = NoId /\ previous = NoId
  /\ owns = FALSE /\ repair = FALSE
  /\ result = "none"
  /\ faults = 0
  /\ disturbed = FALSE

-----------------------------------------------------------------------------
(***************************************************************************)
(* Reading.                                                                *)
(***************************************************************************)

\* generation_candidates: a manifest naming one generation twice is invalid.
Candidates(d) ==
  IF d.manifest.state # "usable" \/ d.manifest.current = d.manifest.previous
  THEN <<>>
  ELSE IF d.manifest.previous = NoId THEN <<d.manifest.current>>
  ELSE <<d.manifest.current, d.manifest.previous>>

\* read_remote_cache: the first candidate whose contents match its name.
Readable(d) ==
  LET good == SelectSeq(Candidates(d), LAMBDA i : d.dirs[i] = "good")
  IN IF good = <<>> THEN NoId ELSE Head(good)

Selected(d) == {Candidates(d)[i] : i \in DOMAIN Candidates(d)}

Present(d) == {i \in Ids : d.dirs[i] # "absent"}

Without(d, gone) ==
  [d EXCEPT !.dirs = [i \in Ids |-> IF i \in gone THEN "absent" ELSE d.dirs[i]]]

-----------------------------------------------------------------------------
Fault == faults < MaxFaults /\ faults' = faults + 1 /\ disturbed' = TRUE

NoFault == UNCHANGED <<faults, disturbed>>

Go(next) == pc' = next /\ UNCHANGED result

End(r) == pc' = "idle" /\ result' = r

\* remove_dir_all of several directories that fails part-way: some are gone,
\* some have lost members.
Damaged(d, gone) ==
  {[d EXCEPT !.dirs = [i \in Ids |-> CASE i \in lost -> "absent"
                                        [] i \in torn -> "bad"
                                        [] OTHER -> d.dirs[i]]] :
     lost \in SUBSET gone, torn \in SUBSET gone}

\* Best-effort removal of directories, then a best-effort sync of their parent.
Remove(gone) ==
  \/ NoFault /\ disk' = Without(disk, gone) /\ safe' = [safe EXCEPT !.dirs = disk'.dirs]
  \/ /\ Fault
     /\ disk' \in Damaged(disk, gone)
     /\ safe' \in {safe, [safe EXCEPT !.dirs = disk'.dirs]}

StartSync ==
  /\ pc = "idle"
  /\ Go("cleanup")
  /\ cached' = NoId /\ staged' = NoId /\ previous' = NoId
  /\ owns' = FALSE /\ repair' = FALSE
  /\ disturbed' = FALSE
  /\ UNCHANGED <<disk, safe, faults>>

\* cleanup_unselected_generations: everything goes when there is no manifest,
\* nothing when there is one that cannot be used.
CleanupUnselected ==
  /\ pc = "cleanup"
  /\ IF Candidates(disk) = <<>> /\ disk.manifest.state # "absent"
     THEN UNCHANGED <<disk, safe, faults, disturbed>>
     ELSE Remove(Present(disk) \ Selected(disk))
  /\ Go("read")
  /\ UNCHANGED process

ReadCache ==
  /\ pc = "read"
  /\ cached' = Readable(disk)
  /\ Go("fetch")
  /\ UNCHANGED <<disk, safe, staged, previous, owns, repair, faults, disturbed>>

\* 304, an error or an invalid body: the cache is used, if there is one.
FetchFallback ==
  /\ pc = "fetch"
  /\ End(IF cached = NoId THEN "empty" ELSE "fallback")
  /\ UNCHANGED <<disk, safe, process, faults, disturbed>>

\* A valid body; its hash is the identifier.
FetchBody(id) ==
  /\ pc = "fetch"
  /\ staged' = id
  /\ Go("stage")
  /\ UNCHANGED <<disk, safe, cached, previous, owns, repair, faults, disturbed>>

\* A staging error falls back to a validated cache and is fatal without one.
StagingFailed == End(IF cached = NoId THEN "failed" ELSE "fallback")

\* Mutant: the previous generation is the one the manifest calls current.
PreviousOfManifest ==
  IF disk.manifest.current = staged THEN disk.manifest.previous
  ELSE disk.manifest.current

\* The entry the new manifest keeps: the generation that was read, or, when
\* that is the same content again, the second one selected.
PreviousFor ==
  LET p == IF cached # staged THEN cached
           ELSE IF Len(Candidates(disk)) = 2 THEN Candidates(disk)[2] ELSE NoId
  IN IF p = staged THEN NoId ELSE p

Staged(o, r) ==
  /\ owns' = o /\ repair' = r
  /\ previous' = PreviousFor
  /\ Go("admit")

\* Mutant: the generation is selected as soon as it is complete.
StageGenerationCommits ==
  /\ pc = "stage"
  /\ UNCHANGED <<cached, staged>>
  /\ disk' = [disk EXCEPT !.dirs[staged] = "good",
                           !.manifest = Manifest(staged, PreviousFor)]
  /\ safe' = disk' /\ NoFault /\ Staged(FALSE, FALSE)

\* stage_generation: the members are written and synced in a staging directory;
\* a directory that exists is reused or marked for repair, otherwise the staging
\* directory is renamed to it.  When the sync after the rename fails, the error
\* path removes the staging name only.
StageGeneration ==
  /\ pc = "stage"
  /\ UNCHANGED <<cached, staged>>
  /\ \/ /\ disk.dirs[staged] = "absent"
        /\ disk' = [disk EXCEPT !.dirs[staged] = "good"]
        /\ \/ /\ safe' = [safe EXCEPT !.dirs = disk'.dirs]
              /\ NoFault /\ Staged(TRUE, FALSE)
           \/ /\ UNCHANGED <<safe, previous, owns, repair>>
              /\ Fault /\ StagingFailed
     \/ /\ disk.dirs[staged] = "good"
        /\ NoFault /\ Staged(FALSE, FALSE) /\ UNCHANGED <<disk, safe>>
     \/ /\ disk.dirs[staged] = "bad"
        /\ NoFault /\ Staged(FALSE, TRUE) /\ UNCHANGED <<disk, safe>>
     \/ /\ Fault /\ StagingFailed
        /\ UNCHANGED <<disk, safe, previous, owns, repair>>

-----------------------------------------------------------------------------
\* The rest of the sync was admitted.
Admit ==
  /\ pc = "admit"
  /\ Go(IF repair THEN "repair" ELSE "manifest")
  /\ UNCHANGED <<disk, safe, process, faults, disturbed>>

\* Another source, the capacity check or a cancellation ends the sync first.
Abandon ==
  /\ pc = "admit"
  /\ Go("drop")
  /\ UNCHANGED <<disk, safe, process, faults, disturbed>>

\* Members are replaced from the staging directory and the whole is verified;
\* when the last sync fails the contents are right and may not be safe.
RepairGeneration ==
  /\ pc = "repair"
  /\ UNCHANGED process
  /\ \/ /\ disk' = [disk EXCEPT !.dirs[staged] = "good"]
        /\ safe' = [safe EXCEPT !.dirs[staged] = "good"]
        /\ NoFault /\ Go("manifest")
     \/ /\ disk' \in {disk, [disk EXCEPT !.dirs[staged] = "good"]}
        /\ Fault /\ Go("drop") /\ UNCHANGED safe

NewManifest == Manifest(staged, previous)

\* Mutant: the manifest is renamed into place and its directory is not synced.
WriteManifestUnsynced ==
  /\ pc = "manifest"
  /\ UNCHANGED <<process, safe>>
  /\ disk' = [disk EXCEPT !.manifest = NewManifest]
  /\ NoFault /\ Go("prune")

\* promote_with_hook: nothing is written when the manifest already says so; the
\* write fails before the rename, or after it when the directory sync fails.
WriteManifest ==
  /\ pc = "manifest"
  /\ UNCHANGED process
  /\ IF disk.manifest = NewManifest
     THEN End("already") /\ UNCHANGED <<disk, safe, faults, disturbed>>
     ELSE \/ /\ disk' = [disk EXCEPT !.manifest = NewManifest]
             /\ safe' = [safe EXCEPT !.manifest = NewManifest]
             /\ NoFault /\ Go("prune")
          \/ /\ disk' \in {disk, [disk EXCEPT !.manifest = NewManifest]}
             /\ Fault /\ Go("drop") /\ UNCHANGED safe

PruneGenerations ==
  /\ pc = "prune"
  /\ Remove(Present(disk) \ {staged, previous})
  /\ End("promoted")
  /\ UNCHANGED process

\* Dropping a staged generation that was not promoted: the directory goes if
\* this process created it, best effort and without a sync.
DropStaged ==
  /\ pc = "drop"
  /\ \/ owns /\ disk' = Without(disk, {staged}) /\ NoFault
     \/ owns /\ disk' \in Damaged(disk, {staged}) /\ Fault
     \/ ~ owns /\ UNCHANGED disk /\ NoFault
  /\ End("failed")
  /\ UNCHANGED <<safe, process>>

-----------------------------------------------------------------------------
\* The process is killed: nothing is dropped.
Kill ==
  /\ pc # "idle"
  /\ Fault
  /\ End("failed")
  /\ UNCHANGED <<disk, safe, process>>

\* The host loses power: whatever was not synced may or may not be there.
PowerLoss ==
  /\ Fault
  /\ \E m \in {disk.manifest, safe.manifest}, lost \in SUBSET Ids :
       disk' = [manifest |-> m,
                dirs |-> [i \in Ids |-> IF i \in lost THEN safe.dirs[i] ELSE disk.dirs[i]]]
  /\ safe' = disk'
  /\ End("failed")
  /\ UNCHANGED process

\* Unsynced changes reach the disk in the course of time.
WriteBack ==
  /\ safe # disk
  /\ safe' = disk
  /\ UNCHANGED <<disk, pc, process, result, faults, disturbed>>

\* A member or the manifest is damaged between two runs.
Corrupt ==
  /\ pc = "idle"
  /\ Fault
  /\ \/ \E i \in Ids : disk.dirs[i] = "good" /\ disk' = [disk EXCEPT !.dirs[i] = "bad"]
     \/ disk.manifest.state = "usable" /\ disk' = [disk EXCEPT !.manifest = Unusable]
  /\ safe' = disk'
  /\ UNCHANGED <<pc, process, result>>

\* flush removes the cache directory, or fails part-way.
Flush ==
  /\ pc = "idle"
  /\ \/ NoFault /\ disk' = EmptyDisk
     \/ /\ Fault
        /\ \E d \in Damaged(disk, Present(disk)), m \in {disk.manifest, NoManifest} :
             disk' = [d EXCEPT !.manifest = m]
  /\ result' = "none"
  /\ UNCHANGED <<safe, pc, process>>

Step ==
  \/ CleanupUnselected \/ ReadCache \/ FetchFallback
  \/ \E id \in Ids : FetchBody(id)
  \/ StageGeneration \/ Admit \/ Abandon \/ RepairGeneration \/ WriteManifest
  \/ PruneGenerations \/ DropStaged

Next == StartSync \/ Step \/ Kill \/ PowerLoss \/ WriteBack \/ Corrupt \/ Flush

Spec == Init /\ [][Next]_vars

-----------------------------------------------------------------------------
TypeOK ==
  /\ disk \in Disk
  /\ safe \in Disk
  /\ pc \in {"idle", "cleanup", "read", "fetch", "stage", "admit", "repair",
             "manifest", "prune", "drop"}
  /\ {cached, staged, previous} \subseteq Ids \cup {NoId}
  /\ owns \in BOOLEAN
  /\ repair \in BOOLEAN
  /\ result \in {"none", "empty", "fallback", "promoted", "already", "failed"}
  /\ faults \in 0 .. MaxFaults
  /\ disturbed \in BOOLEAN

\* What the running sync created and has not promoted does not count.
Unpromoted ==
  IF pc \in {"admit", "repair", "manifest", "drop"} /\ owns THEN {staged} ELSE {}

ReadableNow == Readable(Without(disk, Unpromoted)) # NoId

\* Until every other check of the sync was passed - while it cleans up, reads,
\* fetches, stages or gives up - readers get the generation they got before, an
\* absent one included.  Staging may also bring back a generation that the
\* manifest names and that was lost.
SelectionHolds ==
  \/ Readable(disk') = Readable(disk)
  \/ pc = "stage" /\ Readable(disk') = staged /\ staged \in Selected(disk)

(***************************************************************************)
(* What a refresh may do to the cache that syncs fall back to.  Whatever   *)
(* fails on the way, and after whatever earlier damage, no step of a sync  *)
(* and no kill turns a store from which a validated generation can be read *)
(* into one from which none can; what the running sync itself staged and   *)
(* has not promoted is left out.  And only promotion selects.              *)
(***************************************************************************)
RefreshKeepsFallback ==
  [][/\ ReadableNow /\ (Step \/ Kill) => ReadableNow'
     /\ Step /\ pc \in {"cleanup", "read", "fetch", "stage", "admit"} => SelectionHolds]_vars

(***************************************************************************)
(* After a promotion that reports success readers get the new content,     *)
(* whatever state the sync found: a damaged generation of that content, an *)
(* unusable manifest, leftovers of a killed sync.                          *)
(***************************************************************************)
PromotedIsRead ==
  pc = "idle" /\ result \in {"promoted", "already"} /\ ~ disturbed =>
    Readable(disk) = staged

\* The stores a power loss at this moment may leave.
Outcomes ==
  {[manifest |-> m,
    dirs |-> [i \in Ids |-> IF i \in lost THEN safe.dirs[i] ELSE disk.dirs[i]]] :
     m \in {disk.manifest, safe.manifest}, lost \in SUBSET Ids}

(***************************************************************************)
(* A promotion that wrote its manifest is safe: when the sync reports      *)
(* success, a power loss leaves the new generation selected and readable,  *)
(* a directory that an earlier sync renamed and could not sync included.   *)
(***************************************************************************)
PromotedIsSafe ==
  pc = "idle" /\ result = "promoted" /\ ~ disturbed =>
    \A d \in Outcomes : Readable(d) = staged

(***************************************************************************)
(* Generations do not accumulate: a sync that meets no fault, however it   *)
(* ends, leaves no directory that the manifest does not select, leftovers  *)
(* of earlier failures included, unless the manifest cannot be used.       *)
(***************************************************************************)
NoLeftovers ==
  pc = "idle" /\ result # "none" /\ ~ disturbed /\ disk.manifest.state # "unusable" =>
    Present(disk) \subseteq Selected(disk)

(***************************************************************************)
(* What a sync that met no fault leaves in the store: the generation that  *)
(* it promoted, read and safe, and nothing that no manifest selects.  (The *)
(* types belong to it.)                                                    *)
(***************************************************************************)
StoreAfterSync == TypeOK /\ PromotedIsRead /\ PromotedIsSafe /\ NoLeftovers

(***************************************************************************)
(* architecture.md, "Remote cache generations": the application selects a  *)
(* generation "with an atomically replaced and synced `current.json`       *)
(* manifest".  After a promotion that reports success no power loss undoes *)
(* the selection.                                                          *)
(***************************************************************************)
SelectionSynced ==
  pc = "idle" /\ result \in {"promoted", "already"} /\ ~ disturbed =>
    safe.manifest.current = staged
=============================================================================
