# Kidobo in TLA+

Kidobo is a one-shot Linux firewall manager. It collects networks to block
(a local blocklist, temporary bans, banned autonomous systems, remote feeds),
subtracts what is safelisted (the configuration, GitHub's published ranges),
and enforces the result with one `ipset` per address family, matched from one
`iptables` chain that `INPUT` jumps to. There is no daemon: a timer and the
operator start processes, and everything that outlives a process is a file or
kernel state. What is hard about it is therefore not an algorithm but an order
of effects: commands that fail half-way, processes that are killed, two
processes at once, and a host that must not be open for a moment meanwhile.

The modules here model that order, the caches a sync falls back to, what an operator
is asked and told, the readers that take no lock, the algorithm everything rests on
(the computation of the effective list), and the tool that tests all of it in virtual
machines. TLC checks them on small instances; TLAPS
proves the central promises for every instance: the wiring fails closed, a set is
replaced whole, no ban is lost or uncovered, a sync is all or nothing, a preview
predicts it, and the effective list is exact. Paths
below are relative to the repository root; `adapters/`, `app/` and `core/` stand
for `crates/kidobo-adapters/src/`, `crates/kidobo-app/src/` and
`crates/kidobo-core/src/`, and `cli/` for `src/cli/`.

## Inventory

| Component | State | Operations | Hard behaviour | What makes it correct | Modules |
|---|---|---|---|---|---|
| Firewall wiring (`adapters/iptables.rs`, `enforcement.rs`, `flush.rs`) | `INPUT`, the chains `kidobo-input` and `kidobo-input-stage`, existing sets | fail-closed activation, verification, cleanup | ~15 commands, each may fail or be killed after taking effect; other tools edit `INPUT`; leftovers of earlier runs | enforcement is never interrupted, other rules are never touched, a success means exact wiring, every wreck is recoverable | `Firewall` |
| Set replacement (`adapters/ipset.rs`) | kernel sets, restore scripts | ensure, restore, swap, destroy | the `ipset restore` child outlives a killed parent; leaked temporary sets | the managed set is always the old or the new list, success means installed, leaks are bounded | `Ipset`, `AtomicSet` |
| Bans (`app/blocklist.rs`, `app/blocklist/`, `core/temporary_bans.rs`) | blocklist, temporary bans, `config.toml` | ban, unban, ban/unban ASN, prune in sync | previews without the lock; two files per command; the clock | no lost update, unban removes what was shown, a ban never uncovers | `Bans` |
| Blocklist text (`core/blocklist.rs`, `adapters/blocklist_file.rs`, `limited_io.rs`) | the file and the state that lets a sync skip it | add, remove, normalise, read, replace | limits, coarse time stamps, edits by hand | the list says what the commands made of it | `LocalBlocklist` |
| ASN prefixes (`adapters/asn.rs`, `app/blocklist/asn.rs`) | one cache file per ASN | resolve, refresh, stale fallback, duplicate removal | staleness, shrinking prefixes, half a resolution, damage | an outage loses no ban, duplicate removal opens no gap | `AsnCache` |
| Operation lock (`adapters/lock.rs`) | `flock` on one file | nonblocking exclusive, shared for preview | children that inherit the descriptor | always released | `Bans`, `Preview` |
| Configuration (`core/config.rs`, `app/configuration.rs`, `adapters/config_edit.rs`, `config_management.rs`) | `config.toml` | prepare, review, apply; validation | a reviewed edit goes stale; entries in several spellings | an edit adds no unapproved exemption and keeps the rest of the file | `Configuration` |
| Cache generations (`adapters/cache_generation.rs`) | per feed: manifest, generation directories | read, stage, promote, prune, repair, clean up | failed `fsync`, kill, power loss, damage between runs | the fallback is never lost, a promotion is readable and durable, only admitted contents are selected | `CacheGeneration` |
| Feed caches (`adapters/http_cache.rs`, `http_client.rs`, `http_fetch.rs`, `remote_parse.rs`) | a feed's generations and flat files | conditional request, fallback, preview | 304 with a damaged or foreign cache; limits that change; redirects | "not modified" is true, preview and sync agree | `FeedCache` |
| GitHub metadata (`adapters/github_meta.rs`) | one store for any URL and category selection | scope check, selection, envelope, staging, fallback | settings change between loads; legacy caches without metadata | the safelist is what the current settings ask for | `GithubMeta` |
| Sync workflow (`app/sync.rs`, `adapters/sync_sources.rs`) | kernel, caches | 14 stages from artifacts to cleanup | cancellation; failure after one family; capacity after expansion; external safelists | all or nothing up to enforcement, cached before enforced | `Sync` |
| Flush (`app/flush.rs`, `adapters/flush.rs`) | the above | cleanup of wiring, sets, caches | continues after errors | reports what it left behind | `Firewall`, `Ipset`, `CacheGeneration`, `Sync`, `CommandLine` |
| Remote fetch workers (`adapters/sync_sources.rs`) | shared index, result slots, budget | claim, fetch, collect | threads, cancellation between chunks | every source reported once, in order, within budget | `RemoteFetch` |
| Command runner (`adapters/command_runner.rs`) | a child in its own process group, two nonblocking pipes, a deadline | spawn, try_wait, drain, poll, kill, reap | full pipes, inherited pipes, exit racing the deadline | ends by the deadline, output complete, nothing runs on after an error | `CommandRunner` |
| CIDR algebra (`core/network.rs`) | none | merge, subtract, minimal cover, partition | ends of the address space | equals the set of addresses | `Networks` |
| Preview (`app/preview.rs`, `adapters/preview_sources.rs`) | none | read-only evaluation of a sync | runs beside edits; a second program over the same caches | shows what a sync would enforce | `Preview` |
| Lookup and ban list (`app/lookup.rs`, `app/bans.rs`, `core/lookup.rs`, their adapters) | none | search, list | reads file after file without the lock | reports what was saved, and all that stayed saved | `Lookup` |
| Status and check (`app/inspection.rs`, `adapters/inspection.rs`) | none | probe, compare two passes | the kernel changes between two probes | a report is about a state that was | `Inspection` |
| Init, setup, doctor (`app/init.rs`, `app/doctor.rs`, their adapters) | files, systemd units | create, check, install, enable | no lock; races with saves and editors; reruns | overwrites nothing; success means a whole host | `Setup` |
| Command line (`cli/`, `src/error.rs`) | one invocation | parse, ask, run, print, exit | SIGINT anywhere, failing streams, partial success | exit status and diagnostics are true; nothing without consent; SIGINT ends it | `CommandLine` |
| End-to-end tool (`tools/distro-e2e`) | virtual machines, reports, Incus resources | create, wait, test, collect, destroy, gate, setup | worker threads, signals, kills, lost answers, output cut anywhere | loses no guest, opens the gate only when earned, claims only what was tested | `VmMatrix`, `GuestChecks`, `GuestReboot`, `SuiteSetup` |
| Paths, logging, vendor images and evidence of the end-to-end tool, `scripts/` | | | | | see "Not modelled" |

How they interact: every changing command takes the operation lock. Sync loads
the configuration, takes the lock, loads it again, prunes expired bans, prepares
empty kernel artifacts, lets the providers load (each may stage a cache
generation), admits external safelists, computes both effective lists, checks
both capacities, promotes the staged generations, replaces the IPv6 set, then the
IPv4 set, activates the wiring and cleans up. Set replacement and wiring are
sequences of child processes started through the command runner. Flush undoes
the kernel part and, if asked, the caches. Preview takes the lock shared; lookup, the
ban list, status and check read without it; init and setup create files without it. What
operators see of all this goes through the command line, which asks, prints and turns
outcomes into an exit status.

`PROJECT.json` lists the components with their status, the hazards at their
lines with the properties that cover each, and the source lines of every
definition.

## Modules

### Firewall

One address family, one iptables or ipset command per step. `fw` is the kernel:
`INPUT` as a sequence of jumps and foreign rules, the chains that exist, the rules
of the stable chain, the number of rules of the staging chain (it only ever holds
jumps to the stable one), the sets. `pc` names the command that comes next.
`SyncStep` is `ensure_firewall_artifacts` followed by
`activate_firewall_with_policy` and its `replace_chain_*_fail_closed` loops;
`CleanupStep` is `cleanup_firewall_family` followed by the destruction of the set,
which flush and a sync with IPv6 disabled run. Sync aborts at the first error
(`RunChecked`), cleanup continues and remembers that one happened (`Attempt`).

The environment: a command fails with or without effect, the process dies
(`Crash`), another tool inserts or deletes its rule anywhere in `INPUT`
(`ForeignStep`, between any two commands), the host reboots. The listing that
decides a loop is read in the same step as the command it decides; the window in
between is covered by deleting by specification, not by position, which is what
the code does.

- `FailClosed`: no command of a sync takes enforcement away or lets packets reach
  another rule of `INPUT` before the blocklist where it did not before.
- `ForeignUntouched`: other tools' rules stay, in their order. What belongs to others
  is what of `INPUT` jumps to no Kidobo chain (`Unrelated`).
- `EndsAsPromised`: a success leaves exact wiring (`SyncedWiring`) or nothing
  (`FlushedClean`), and a process that met no fault and no other tool succeeds,
  whatever wreck earlier processes left (`FailsOnlyIfDisturbed`).
- `Terminates`: the delete-until-none loops end.

### Ipset

One managed set. `InspectIpset` and `CreateIpset` ensure it, `BeginReplace` picks a
temporary name, `DestroyBefore` removes a set of that name as best it can,
`WriteRestoreScript` and `RunRestore` start the restore child, which executes its
script line by line (create, adds, swap), and `DestroyAfter` removes the temporary
set, again as best it can. The child is a record of its own: when Kidobo is killed it
becomes an orphan and may swap at any later time, beside the next sync.
`EndsAsRequested` says that a success installed this sync's list (unless an orphan
swapped in an older one since, which `stale` records), that only faults, orphans and
other tools make it fail, in particular no list that the sources can produce, and that
temporary sets and scripts left behind are bounded by the faults.

`AtomicSet` is what this promises: `managed` changes from one whole list to another that
somebody asked for, by the running sync or by one that died (`late`), and a success
(`promise`) is only claimed for the list in the set. `Ipset` implements it under

    Abstract == INSTANCE AtomicSet WITH
                  managed <- sets[MANAGED], promise <- Promise, late <- orphans

and `ReplacesAtomically == Abstract!Spec` is the property of a run and a theorem.

### Bans

Processes run one command each on three shared files. `PeekList`, `PeekTemp` and
`PeekConfig` are the unlocked reads of an unban's preview, a configuration edit and
sync's first load, file by file; `Acquire` takes the nonblocking lock or fails;
`Load` reads again under it, refuses a preview that is no longer valid, and computes
the writes the command makes (one `...Plan` operator for each command); `Write`
executes one; `Finish` releases. A write may fail without effect, fail with effect (the directory sync comes after
the rename), or be the last before a kill. The clock moves both ways.
CIDRs are the sets of their addresses, so cover and overlap are those of sets.
A sync is here what it does to these files; `Sync` models the rest of it.

- `NoCollateral`: a command changes only what it is about; no update of another is lost.
- `UnbanAsPreviewed`: what an unban removes is what its operator was shown.
- `BanNeverUncovers`: no step of a ban leaves an address unprotected that was banned
  (an ASN ban removes the lines its prefixes repeat only once the ASN is configured),
  and a partial failure is reported as one.
- `EnforcesLockedFiles`: sync prunes and enforces what it read under the lock.

### LocalBlocklist

What `Bans` takes for a set of CIDRs is a text: lines that are a CIDR (with or without its
length), a comment, blank, or none of these, each with a width in units of bytes. `ban`
appends, `unban` removes lines (those that only overlap too, if asked), the cleanup after
an ASN ban removes duplicates, and a sync rewrites the file to its header and the
sorted, collapsed entries. A command is a read under a limit, a computation and an
atomic write, which may fail with or without effect. Beside the file lies the state that
lets a sync skip it (length and modification time); the clock is coarse, so two writes
may get one time, and an editor takes no lock. `ListFollowsCommands`: a command that
succeeds did what it says and no more, a sync takes what the file says and its rewriting
does not change that, no command makes a readable list unreadable, and commands fail only
for a cause.

### AsnCache

The prefixes of banned ASNs as sync, `ban --asn`, preview and `unban --asn` load, cache,
fall back to and delete them, in ascending order: `todo` is the set of ASNs left, `got` the
loaded prefixes by ASN. One resolution is two `bgpq4` commands that fail
independently; an answer may be empty, partial, unparsable or too large to be saved; a
file may be damaged or absent, its time in the future.

- `OutageBridged`: a sync that loaded its ASNs has a nonempty set of prefixes for each of
  them, which its cache file then holds for the next outage, and it fails to load them only
  if some ASN had no usable cache when it started.
- `DuplicatesStayCovered`: a line leaves the blocklist because an ASN repeats it only
  if the ASN is configured and its cache holds the prefix.

### CacheGeneration

One store, which stands for each feed's and for GitHub's. `disk` is what processes
see and `safe` what survives a power loss: a rename or removal becomes safe with
the sync of its directory, and each may fail at either. The process cleans up,
reads (current first, then previous), fetches, stages (reusing, creating or
planning the repair of a directory), then promotes or drops. `Corrupt` damages a
generation between runs, `Flush` removes the store.
`RefreshKeepsFallback` is the promise behind the whole design: no refresh loses a
generation that could be read, whatever fails, and nothing but a promotion changes what
a reader gets. `StoreIsSound`: a promotion that wrote its manifest is read back and
survives a power loss, and what was staged and not selected goes away.
Two exemptions are stated in the properties: re-staging a generation that the
manifest already names (a failed promotion left it) makes it readable before it
is promoted, and what the running process staged and has not promoted is its own
to drop.

### FeedCache

One feed: its two generations and the flat files of older releases, the conditional
request and the second one after a 304 without a usable cache, redirects, limits on body,
lines and entries, and both readers, the sync's `prepare_iplist_with_cache` and the
preview's. The server is honest (304 only to the validator of what it serves) and publishes
new versions; `maxelem`, and with it what a cached list may hold, changes between loads;
files are damaged. `NotModifiedIsCurrent`: the networks of a load that reports "not
modified" are those of the version the server confirmed. `PreviewAgrees`: given the same
responses, the preview reports what the sync does, and offline what a sync falls back to.

### GithubMeta

The store of GitHub's metadata, which is one whatever URL and selection of categories is
configured. A body has categories, each of ranges and of things that are none; it counts
only within the envelope (entries, block size, coverage). The load checks the scope of
what is cached, asks, selects, stages, and hands a primary batch with an older fallback
to the sync's admission. `ScopeIsFaithful`: both batches are all the selected categories
of one body of the configured URL, within the envelope. `PromotedIsFound`: right after a
promotion a load finds the same networks without the network. `PreviewAgrees` has a
second half for this store.

### Sync

The whole of `execute` in its order. Each family's address space has two halves:
a batch is a set of halves, and both halves of a family are its /0, which is one
network and two kernel entries, as in `core/sync.rs`. `LoadSource` walks the
registry: a provider comes up with a batch that is staged, with its cached generation, with
nothing, or with an error, and its policy says which errors end the sync. `BeginAdmission`
and `AdmitExternal` subtract external safelists one at a time, in the order they were loaded;
one that would empty a family that was not empty is replaced by its cached generation, or
dropped if that would empty it too. `CheckCapacity` precedes `Promote`, which makes one staged
batch after the other the current generation (and may fail after it did), and only then the
families are replaced. `Interrupt` sets the flag at any time; only the code's check points
look at it. `Flush` (which may leave any part of a family behind when a command fails), a kill
and a reboot are actions too.

- `AllOrNothing`: a cancelled sync, and one that failed without a failing operation, changed
  nothing: admission and capacity are decided before the first family is replaced.
- `OkEnforces`: a success enforces the candidates without the safelist in both families,
  and no external safelist switched one off that the operator's own lists fill.
- `CacheIsEnforced`: what is promoted was admitted, and what a sync enforces from a remote
  source is the cached current generation, so that an offline sync after a reboot
  enforces the same.

### Networks

The effective list of one family, from two lists of CIDRs to one: a loop iteration
is a step and the locals of the loops are the variables. `SortForMerge`,
`MergeNext` and `MergeEnd` are `merge_intervals_*_owned` on each side; `SkipCarve`,
`EnterBase`, `CarveInside`, `CarveToEnd` and `CarveRest` the two nested loops of
`subtract_intervals_*_merged`, with the index that is carried over from one base
interval to the next; `EmitBlock` and `EndInterval` the cover by aligned blocks. The
width is a constant: the `u32` and the `u128` code are the same loops. `SatAdd` and
`LastBlock` keep the saturating and guarded additions at the end of the address
space. The sort is any order by start (`Orders`), which is what both
`sort_unstable` and the radix sort of long lists give; that the radix sort gives
one is `RadixSorts`.
`Exact`: the result has the candidate addresses that are not safelisted, no more and
no fewer. `Canonical`: it is the minimal list of CIDRs, in order (the capacity check
counts its entries), and the radix sort sorts.

### RemoteFetch

The `remote-feeds` provider. `StartChunk` spawns the workers of a chunk; each goes
through `Check` (the flag), `Claim` (the shared index), `Read` (its feed's cache),
`Ask` (the conditional request, and a second one after a 304 without a cache), `Stage`
and `Push`, interleaved with the others; `Join` waits for all, looks at the flag
again and sorts; `Collect` takes one result at a time. `Cancel` is the signal. A
feed's cache and what it serves are sets of networks; `got` is what
`prepare_iplist_with_cache` returned for it.

`FetchesAreIndependent`: the outcome follows from what the feeds returned and their
order in the configuration, and not from the schedule; a success reports every feed
once, in that order, hands over exactly the generations it uses, and uses no fetch that a
cancellation cut short; and no two workers are in the same unlocked store.

### CommandRunner

One command. The steps of `execute` and its loop are one system call each; the
command is a child and a descendant that may leave the process group, and does
what it likes: writes until its pipe is full, closes it or keeps it open, ends or
does not. Output is counted in units. `OkIsComplete` (a success has the whole output and
the child's status), `NothingAfterError` (after an error nothing in the group runs on)
and `Progress` (it ends by the deadline, and drains a full pipe before that) are what
`Firewall` and `Ipset` rely on when they treat a command as one step that ends and has no
later effect. A
descendant that has left the process group survives an error, and one that has
closed both pipes survives a success.

### Configuration

`config.toml` as its entries: the feeds, each an identity in one of several spellings; the
exemptions, each a range, canonically written or not; banned ASNs; booleans; which keys
are explicit; and whether it parses, or parses with a field that is not valid. An edit is prepared from a read without the lock,
validated, reviewed by its operator for any time, and applied under the lock if the file
is still the reviewed one; two editors, `init`, hand edits, failing writes and kills come
between. `ExemptionsAreApproved`: what a command adds to the exemptions was shown as an
expansion and agreed to. `KeepsTheRest`: no feed, exemption or setting that the command does
not name goes, changes or is respelled (the spelling of a URL is the key of its cache), and
what a reviewed edit saves can be read back.

A ban or unban of an ASN is not reviewed and is read twice: `LoadForAsn` is the validated load
under the lock (`app/blocklist/asn.rs:182`, 283), `ReadAsnList` the read of `update_asn_bans`
(`adapters/config_edit.rs:32`), which looks at the TOML syntax and at `asn.banned` only.
Between them a ban waits for `bgpq4`, and editors save. What is written is made from the
second read, so an edit made before it is not lost, but a field that the editor made invalid is
saved as it is and the command reports success: the comment of `update_asn_bans` ("cannot be
read, parsed, validated") promises more than it does. `KeepsTheRest` therefore says of an ASN command that it
makes no valid file invalid; with "what is saved is valid" in its place TLC shows the
editor's save between the two reads.

### Setup

`init` and `setup`: each artifact is looked at and created exclusively, then modes are
repaired, the doctor checks, the first sync runs, and the timer is enabled. No lock is taken,
so two runs, commands that save, and an editor race. `InstallIsSafe`: an existing file's
contents never change; success means all artifacts, private where they must be, and
the timer as asked; the timer is never enabled too early or for an alternate root.

### Preview

EXTENDS `Sync`: beside its syncs and the edits of what they read, a preview takes the lock
shared, reads one file after the other, evaluates and shows a plan. The lock is a `flock`:
it lasts while anybody, a command that a killed sync left behind included, has the open
file. `PreviewPredicts`: if nothing was saved since and the network gives the same answers,
a sync without a fault enforces exactly the plan shown, and fails exactly if the preview
did. `LockReleased`: when no process runs, the lock is free.

### Inspection

EXTENDS `Firewall`: `status` and `check` probe set, wiring and membership twice while the
firewall's commands run, compare the passes, and look at the configuration again.
`InspectionIsHonest`: what is reported was true at some moment of the inspection.

### Lookup

EXTENDS `Bans`: `lookup` and `bans` read one file after the other while two commands write,
through the store of a feed and the ASN caches; `Overlapping` is the index of
`core/lookup.rs` with its two binary searches. `QueriesAreHonest`: only entries that were
saved while it ran and overlap the target are reported (an ASN's CIDRs by a cache that is read
after the ban, so that the two may never have been saved together), every such entry that was saved all
the time is, and an address banned all the time is found banned, unless commands moved
its entries behind the reader (the comment at the property names those cases).

### CommandLine

One invocation from parsing to the exit status: `flush`, `sync`, `ban`, `unban`, `sources`,
`allow`, `setup`, `init` and the read-only commands, with what they ask and when, what they
run, which of their errors become which diagnostic, and which status. An operation is its
outcomes and what it did to the world; answers, SIGINT and failing streams come from the
environment. `OperatorIsServed`: status 0 means that everything asked for was done,
declined or left to a sync the output names, 2 that nothing was done, 130 that SIGINT
came; the diagnostic is true; nothing that needs consent happens without. `InterruptEnds`:
SIGINT ends the command, also one that waits for an answer.

### VmMatrix, GuestChecks, GuestReboot, SuiteSetup

The end-to-end tool. `VmMatrix`: a run recovers what killed runs left, works through its
targets in chunks of worker threads that create, test, diagnose and delete one guest
each, and decides the gate. `document` is what its process would report and `report` what
`results.json` says, which differ when a save fails; a result whose
report cannot be saved cancels the run. `GuestChecks`: the phases of one guest, whose script writes
markers that the host reads from a growing file in pieces cut anywhere, with cancellation,
the emergency drain after a kill, and the report. `GuestReboot`: the three restarts, with
a guest that relabels, reboots or crashes by itself and answers that get lost.
`SuiteSetup`: the Incus resources, and who owns them.

- `GuestsAndGateAreSafe`: every guest is in a manifest before it exists, no run that ends
  by itself leaves one that it does not report, and a gate that opens was earned by every
  required target.
- `TestedAsClaimed`: a phase is accepted only if the script showed exactly the expected
  checks pass and exited with 0; a guest is admitted only when it is settled in the boot it
  is admitted for; setup changes only what the suite owns.
- `EveryWaitEnds`: no wait for a command or a boot goes on for ever.

### Instances and proof modules

Components that share no state are checked together where their state spaces merely add up:
an MC module chooses the component in its `Init`, keeps the variables of the others at one
value, and states each component's properties for its own behaviours. `MCSourceCaches` does
this for `AsnCache`, `FeedCache` and `GithubMeta`; `MCReplacements` for `CacheGeneration`,
`LocalBlocklist` and `Ipset`; `MCCommands` for `CommandLine` and `CommandRunner`; `MCSync` for `Sync` and `Preview`;
`MCWorkerPools` for `RemoteFetch` and `VmMatrix`;
`MCConfiguration` for `Configuration` and `Setup`; `MCGuests` for the three modules of one
guest. `MCFirewall` and `MCBans` are compositions that do share state: `Inspection` runs
beside `Firewall`, `Lookup` beside `Bans`.

`FirewallProofs`, `IpsetProofs`, `SyncProofs`, `BansProofs`, `AsnCacheProofs`,
`RemoteFetchProofs`, `NetworksProofs` and `CommandRunnerProofs` have the theorems about the
modules they are named for, `SyncProofs` also those about `Preview`. Each begins with the
lemmas about sequences, sets and least numbers that it needs.

## Runs

All run with deadlock checking on. The properties of each run are in `PROJECT.json`.

| Run | Instance | What it shows |
|---|---|---|
| `firewall` | two configurations (different set and target), two sets, two foreign rules, two faults; an inspection overlaps two steps | syncs and cleanups fail closed, leave foreign rules alone, end and recover from every wreck; an inspection reports only what was true |
| `replacements` | a store with three contents (symmetric) and two faults; a blocklist of two addresses in five forms with a limit of 13 units, one edit, one fault, clock 1..2; a set with two temporary names, two elements, two faults | a cache refresh, the blocklist text and the managed set keep their promises; the set implements `AtomicSet` |
| `bans` | two processes (symmetric), nine commands, a two-address space with three CIDRs and one ASN, one fault, clock up to 2; queries beside pairs of commands, the ASN's cache there or not | Bans' properties, and that unlocked queries are honest |
| `source_caches` | two ASNs, three prefixes, two commands, one fault; a feed with six bodies, four events and one redirect; two GitHub URLs, three selections, two events | outages lose no ban, 304 and scope are true, previews agree, what is promoted is found |
| `configuration` | two editors (symmetric), six files, seven commands, three runs, one fault, one edit; seven hosts, two runs | edits keep the rest of the file and add no unapproved exemption; provisioning is safe without a lock |
| `sync` | four providers, one of each role and policy, whose batches empty, fill, or share a family; capacities 1 and 2, one fault; three commands of preview, sync and save, with kills and commands left behind, one fault | Sync's properties; a preview predicts the sync that follows; the lock is released |
| `plans` | three-bit addresses, all lists of up to two CIDRs on each side | the effective list is exact and canonical |
| `worker_pools` | two workers, three feeds in two chunks, one of them configured twice; two runs of two targets, a required and an advisory one, one or two at a time, two faults (symmetric runs) | fetches do not depend on the schedule; no guest is lost and the gate is earned |
| `commands` | every command line, on a terminal and from systemd, streams and SIGINT failing anywhere; a command with an output limit of two units, pipes of three, reads of two, one failing system call | status, diagnostics and consent are true, SIGINT ends a command; supervision is complete and ends |
| `guests` | two phases of four and three pieces of output, one trailing piece, one fault; a restart with two faults; two setups, one fault, two values of a setting | only what was really tested is claimed; every wait ends |
| `cache_durability` | two contents, one fault | the first finding below |
| `apply_reports` | as `commands` | the second finding below |

Why the bounds suffice. *Faults*: the interesting recoveries are "a fault, then a
run over the wreck" and "a fault during that run", so two where a run is long
(Firewall, Ipset, CacheGeneration, VmMatrix, GuestReboot); where a run's
wreck is one bit of state, one. Foreign edits of `INPUT`, cancellations, answers and
failing streams of the command line are not counted and happen without bound.
*Sizes*: two configurations are needed to see a rule change its set; two foreign
rules to see an order among them; two entries to see a repeated, an unsorted and
a partly added list; three contents so that a third one displaces the previous of
two; two processes because the lock serialises all but the previews and the
unlocked readers, which only their own writers can be behind; two steps of the firewall
inside one inspection because it reads everything twice; two halves because a family can
then be empty, partial, or /0; three bits because intervals then need up to four blocks to
cover, and two CIDRs against two because a safelist entry can then span two base
intervals and a base interval hold two entries (`Exact` and `Canonical` are proved for all sizes); a chunk
of two and a second chunk because workers share state within a chunk and only the budget
and the order across chunks; an output of limit plus one; of a feed's bodies and of
GitHub's, one for each way to break a limit or a format; two ASNs so that one
can be resolved and the other not; two phases so that the first one's result can be
mistaken for the second's.

Types are not a property of their own in the runs: `TypeOK` is a conjunct of one
property of the module, and proved for the modules that have theorems.

Every property has a mutant in `PROJECT.json`: a plausible bug in one definition
(defined just before it) for which TLC finds the property violated. The modules hold more
of them, introduced by `Mutant:` or `A bug:`; they are not part of any specification.

## Fairness

Fairness is stated only where the code justifies it, and only of the program's own steps.

- `Firewall`: weak fairness of the process's next step and of nothing else: the code never
  waits without a bound, since every command ends or is killed at its deadline (30 s,
  `adapters/command_runner.rs`), and what follows a command is computation. `Inspection`
  adds none.
- `CommandRunner`: of Kidobo's own steps; of nothing the command does, and not that time
  passes. `Progress` starts from the deadline, and its second half must hold without it.
- `CommandLine`: of the program's steps. Nobody has to answer a prompt, and SIGINT need not
  come; operations end by the fairness above.
- `GuestChecks`: of the host's reading and waiting (`Capture`), of the passing of a
  command's deadline (`Expire`), and of the script choosing to exit or to go on for ever
  (`Exit \/ Chatter`), which only says that it does not stay undecided: one that hangs or
  writes for ever is allowed, and the deadline has to end it.
- `GuestReboot`: of the host, and of the passing of its deadline; the guest owes nothing.

The other modules state none: their loops run over lists that are fixed when they begin,
the lock never blocks, and their properties are about safety.

## Proofs

Each module of proofs has the same shape: an inductive invariant, stated as a conjunction of
named parts; one lemma for each action (or group of actions) that says it is kept, resting on
lemmas about the module's operators; and a temporal step that combines `Init => IInv`,
`IInv /\ [Next]_vars => IInv'` and `IInv => ` the property (or `IInv /\ [Next]_vars => ` the
step property). Every theorem that states a property of a run states that very definition.

`FirewallProofs` proves, from `Firewall`'s `FaultAssumption`, `NameAssumption` and
`RuleAssumption` alone, and so for any sets, configurations, foreign rules and
number of faults:

- `TypeCorrect`: `Spec => []TypeOK`;
- `SyncFailsClosed`: `Spec => FailClosed`;
- `EndsAsItSays`: `Spec => []EndsAsPromised`;
- `OthersKeepTheirRules`: `Spec => ForeignUntouched`.

`FailClosed` speaks of single steps, but it is not true of every well-typed state:
deleting rule 1 of the stable chain is only safe if another rule follows it,
removing the jumps from `INPUT` only if the other chain's jump is there and leads
to a rule. The inductive invariant `IInv` says so:

- `TypeOK`;
- `CountInv`: while the replace loops delete, the chain has exactly one rule more
  than the counter `old` has left (the append came first), so that the deletes
  stop before the last one;
- `RuleInv`: from the append on the stable chain is not empty until the sync ends,
  and the staging chain is not empty until its jumps have left `INPUT`;
- `HookInv`: while the stable jumps are removed a staging jump precedes all of them,
  while the staging jumps are removed the stable jump precedes those, and when the
  staging chain is flushed nothing jumps to it.

Each command's effect on `INPUT` is reduced to lemmas about what
`RemoveFirst`, prepending and the insertion by another tool do to the first positions of a
sequence.

What a success leaves behind needs a second invariant, `EndInv`, because each command of
the script establishes one part of it and later ones must not disturb that:
`SyncedSoFar` lists, step by step, which of the chains, sets, rules and jumps are already as
they must end (another tool can at most put its rule before the jump, which the last command
finds), `CleanedSoFar` does the same for the cleanup (jumps before chains before the set),
unless a step of it failed, which some fault caused (`disturbed`), and `LeftBehind` is the property itself. `JumpIsNotForeign` and
`JumpCommands` are the lemmas for `ForeignUntouched`: inserting or deleting a Kidobo jump
leaves the sequence of the other rules as it was, wherever in `INPUT` it happens.

`IpsetProofs` proves, from `IpsetAssumption`, and so for any requests, entries, temporary
names and number of faults, crashes and orphans:

- `LoadedIsWhole`: `Spec => []IInv`, the inductive invariant;
- `AtomicReplacement`: `Spec => ReplacesAtomically`, that `Ipset` implements `AtomicSet`;
- `OkIsInstalled`: `Spec => []OkInstalled`, a conjunct of the next;
- `EndsAsAsked`: `Spec => []EndsAsRequested`.

A swap installs what the temporary set holds at that moment, so the refinement needs to
know that this is a whole list. `LoadInv` says that what a running child or orphan has
loaded and what it has still to add are together its list, that its set has its kind and
capacity, and that the swap line is reached with nothing left to add. It is inductive only
because nobody else works on that set: `ChildInv` ties the one child to the running
request, and `OrphanInv` gives every orphan a temporary name of its own and keeps a running
replacement off all of them. `LineProps` is the lemma about one script line, `ScriptProps`
says that sorting and deduplicating lose no network (`SortedProps`: the rank of an element
is a bijection), and `AbstractSteps` restates the steps of `AtomicSet` in `Ipset`'s
variables; `NextRefines` then has one step per action. `OkIsInstalled` adds `DoneInv`:
from the child's swap to the next sync or flush the set holds the request, unless `stale`.
That only faults, orphans and other tools make a sync fail is `CleanInv`: without them the
temporary set is absent when the script runs, the script names no network twice, and its list
fits, so that the kernel accepts each line (`ReadyAccepted`). The number of sets and
scripts left behind is bounded by `CountInv`: each fault leaves at most one of each.

`SyncProofs` proves, from `RegistryAssumption`, `SyncBoundAssumption` and
`PreviewAssumption`, and so for registries of any length, any offers and any number of
faults, saves, previews and kills:

- `SyncIsAllOrNothing`: `Spec => []AllOrNothing`;
- `SuccessIsEnforced`: `Spec => []OkEnforces`;
- `CachesPrecedeEnforcement`: `Spec => CacheIsEnforced`;
- `SyncsBesidePreviews`: `SpecPreview => CacheIsEnforced`, the same beside previews, saves
  and kills;
- `LockEndsWithItsHolder`: `SpecPreview => []LockReleased`;
- `PreviewsPredict`: `SpecPreview => []PreviewPredicts`.

`Staging` follows a batch from its provider to the cache: a provider that has not been loaded
has staged nothing, a batch waits in one place at most, what waits for promotion is the
provider's fresh batch and, if it is external, part of the safelist, a fresh batch
is the current generation or waits to be, and none waits once a family is being replaced.
`Progress` says how far enforcement has come at each step: until the first replacement both
families are as the sync found them, from the capacity check on the lists fit (so that the
second family cannot be refused after the first was replaced), and a family once replaced
stays so. The lemmas about single actions do not ask where the sync's loads came from
(`StepFrom`, `NextFrom`), so that they serve both specifications.

`LockInv` says that the lock is held shared exactly while a preview reads and exclusively
exactly while a sync runs, never both, and by nobody else: not by the commands a killed sync
leaves behind, which do not inherit the open file.

`PreviewPredicts` compares two programs that run at different times: a preview reads file
after file and decides at its end; a sync loads, admits and enforces over many steps. Both
are compared with one thing, a *replay*: `Replays(tr, answers, k)` says that the trace `tr`
is what the first `k` providers of the registry yield, given the network's answers and the
contents read, computed in one go. `ViewReplays` says that a preview's view is a
replay as far as it has read, `PredictionInv` that the plan shown is the outcome of a complete
replay, and `PromiseInv` that a sync which starts from the contents the preview read, with the
same answers, follows that replay: loads (`LoadFollows`), admissions of external safelists
(`AdmissionFollows`, `AdmitFollows`), the capacity check (`CheckFollows`) and the enforcement
(`EnforcementFollows`). `PreviewForetells` and `Foresight` put it together. The preview's
admission is a recursive function, and one induction is needed to know that a replay has a value at
every length; it is made with a least counterexample (`LeastNatural`, `AdmissionsExist`).

`BansProofs` proves, from the assumptions of `Bans` (the addresses are a finite set; without
that, collapsing a list could lose addresses, since a chain of ever wider CIDRs would have no
widest), and so for any number of processes, any CIDRs, ASNs, commands, files and faults:

- `CommandsKeepToTheirTargets`: `Spec => NoCollateral`;
- `UnbansMatchTheirPreview`: `Spec => UnbanAsPreviewed`;
- `BansOnlyAdd`: `Spec => BanNeverUncovers`;
- `SyncsEnforceWhatTheyLeave`: `Spec => EnforcesLockedFiles`.

The properties speak of one write, but a write carries whole files that were computed when the
command loaded them. So the invariant says what a command may still have to write
*relative to the files as they are now*: `Pending`, with one part for each kind of command. An
unban's pending save differs from the present file only in entries the preview showed, a
sync's pending enforcement carries the present configuration and bans, and once it has
enforced, the kernel holds what the present files ban. That this survives the steps of all
other processes is the lock's doing: `LockInv` says that whoever is between loading and its
last write holds the lock, hence nobody else touches the files (`StepOfOne`). One lemma for
each kind of command says that the first pending write is confined, as shown and covering, and
that the rest is pending after it, also if a best-effort write was skipped (`AsItMust`);
another that what is planned under the lock is pending. `CollapseKeepsAddresses` is the
lemma about normalising the list, `PruneProps` the one about pruning.

`AsnCacheProofs` proves, from the assumptions of `AsnCache`, and so for any ASNs, prefixes,
answers, files, limits and number of faults:

- `OutagesLoseNoBan`: `Spec => []OutageBridged`;
- `DuplicatesAreRedundant`: `Spec => DuplicatesStayCovered`.

`LoadInv` says that what is loaded and what is left make up the command's ASNs, and that the
caches of those left are as the command found them, which is what makes an unresolved ASN's error tell
of the cache at the start; `GotInv`, that every set loaded is nonempty and is what the cache
file holds now; `StepInv`, that duplicates are removed only when all ASNs are configured.

`RemoteFetchProofs` proves, from the assumptions of `RemoteFetch`, and so for any number of
workers, feeds and entries, and any answers:

- `FetchesAreIndependentHolds`: `Spec => []FetchesAreIndependent`.

`IInv` is a conjunction of what the schedule cannot change. `Claims`: the positions of a chunk
that are claimed are those before the shared index, each belongs to one worker or to one
result, so that no feed is fetched twice or forgotten, and two workers are never in one
feed's store. `Fetched`: what a worker holds or has pushed is what its feed gave,
and a result that a cancellation cut short is only there when the flag is set, which no
success survives. `Ordered`: after the sort of `Join` the results of a chunk stand at their
positions, and what has been collected are the feeds before, in the order of the
configuration. `Staged`: the generations in use are those of the feeds collected, up
to the first feed that ended the load. `Control` ties the program counters to the chunk.

`NetworksProofs` proves, from `WidthAssumption`, `PowAssumption` and
`InputAssumption`, and so for 32 and 128 bits and lists of any length:

- `TypeCorrect`: `Spec => []TypeOK`;
- `EffectiveIsExact`: `Spec => []Exact`;
- `EffectiveIsCanonical`: `Spec => []Canonical`.

`Exact` speaks of the end; the inductive invariant follows the addresses through
the loops. `In(a, list, k)` says that address `a` is in one of the first `k`
intervals, and the parts of `IInv` are:

- `StageInv`: which side is being merged, and what later loops may rely on;
- `MergeInv`: what is merged, `current` and `rest` together have the addresses of
  the side, `rest` is in order of start, and all of it lies behind what is merged;
- `MergedInv`: a merged side has exactly its addresses and its intervals are apart
  and in order, without which the carve index could skip one too early;
- `CarveInv`: up to the current base interval, and in it up to `next_start`, the
  result has the candidates that are not safelisted, and every carve interval
  before the index ends before `next_start`;
- `CoverInv`: the blocks so far have the addresses of the first `n - 1` intervals
  and of the current one before `start`.

There is one lemma for each loop's steps. The two facts about arithmetic are that a
block emitted starts at `start` (it is aligned) and that a block after which the
loop breaks ends at the end of the address space.

For `Canonical` the order and the size of the results matter too. `ApartInv`: no two carved
intervals touch, so that a block of the answer fits into one of them. `BlocksInv`: each
block so far is the largest fitting block around its addresses (`Largest`), the blocks
ascend, and no aligned block that fits straddles `start`. It is inductive because
aligned blocks nest or are disjoint (`BlocksNest`: a power of two divides the larger ones) and
`largest_prefix` stops only where the next larger block is not aligned or does not fit
(`LargestPrefixWidest`). At the end every fitting block has its first address in a block of
the result, hence lies in it. The radix sort is about permutations: the slot of an
element is its rank by digit and index, ranks are a bijection (`RanksPermute`), and of the
two passes the second keeps the order of the first among equal digits (`RadixSortsList`).

`CommandRunnerProofs` proves, from `TimeoutAssumption` and `SizeAssumption`:

- `TypeCorrect`: `Spec => []TypeOK`;
- `ResultsAreComplete`: `Spec => []OkIsComplete`;
- `ErrorsAreFinal`: `Spec => []NothingAfterError`.

The inductive invariant adds to the types that a process that does not run has no
pipe open (`OpenInv`), that what was collected and what is in a pipe is what was
written, until an error gives it up (`FlowInv`), that the end of a pipe is final,
because a descendant inherits only what its parent has open (`EofInv`), that the status
is the child's code (`WaitInv`), and that from the kill on nobody in the group runs
and nobody can fork (`GroupInv`).

Only model-checked:

- all liveness (fairness and `ENABLED` are out of the prover's reach): `Terminates`,
  `Progress`, `EveryWaitEnds`;
- `InspectionIsHonest`: it is true of inspections that overlap few steps of the firewall, as
  in its run, and of no unbounded number: enough commands that change and restore the
  wiring during one inspection can make both of its passes see a state that was never there;
- `QueriesAreHonest`, for the same reason: an entry is named by its CIDR, and if two ASNs that
  announce the same one take turns in being banned during one lookup, the CIDR is saved all
  the time and neither of its caches is read while it is there;
- the properties of `CacheGeneration`, `LocalBlocklist`, `FeedCache`, `GithubMeta`,
  `Configuration`, `Setup`, `CommandLine`, `VmMatrix` and the guest modules.

What a recursive definition computes is not proved by induction on its argument. Where a
proof needs the end of a chain (the widest CIDR, the first element that is out of order, the
first admission that has no value) it takes a least natural number.

## Findings

`cache_durability` (documentation and code disagree). `docs/architecture.md:198`
says that a generation is selected "with an atomically replaced and synced
`current.json` manifest". `promote_with_hook` (`adapters/cache_generation.rs:126`)
returns success without writing when the visible manifest already names what it
would write. If an earlier promotion failed exactly at the directory sync, after
the rename, the manifest is visible and was never synced; the next sync of the
same contents then reports success, and a power loss brings the old manifest back.
The run finds this behaviour; all other properties of the store hold.

`apply_reports` (message and code disagree). `src/error.rs:56` reports a
`SourceApplyFailed` as a synchronization that failed after the change was saved.
`finish_change` (`cli/mutation.rs:42`) wraps every error of the sync command in it, also those
that `cli/sync.rs:65` to 69 return after the enforcement is complete: an interrupt that is
noticed then, or a summary that cannot be printed. The run finds a command that
reports the failure although the firewall enforces the change.

## Abstractions

Of the kernel, the caches and the lists:

- A command killed at its deadline has no later effect (`NothingAfterError`), since
  Kidobo runs as root, as its documentation has it, and may signal `sudo` and what
  `sudo` runs; a signalled process executes no further step. iptables children that outlive a killed Kidobo are not modelled (they execute
  one command); ipset restore children, which execute many, are.
- A temporary set name is never that of a living orphan's (the code's names hold
  the process identifier and a counter). Sets that expire by kernel `timeout` are
  left out, as are sets of configurations older than those in `Sets`.
- Kidobo's jumps in `INPUT` are exact: a foreign rule that jumps to a Kidobo chain
  with further matches is refused by the code's inspection and does not occur here.
- In `Bans` the blocklist is a set of CIDRs, the address space is finite, the prefixes of an ASN are constant and files
  are not edited by hand; `LocalBlocklist`, `AsnCache` and `Configuration` look at the text, at
  changing prefixes and at editors. The safelist is outside `Bans` and inside `Sync`.

- The short-cut that skips a normalisation whose result is known is modelled by
  its result. The confirmation prompts are free choices.
- `.staging-*` directories are part of the staging step; the clean-up that removes
  them is in the model through what it leaves. Damage happens between runs only. The flat
  cache files of older releases are in `FeedCache`, `GithubMeta` and `Lookup`.

- Replacing a set, wiring and promoting are single steps of `Sync`, which fail with
  or without effect; `Ipset`, `Firewall` and `CacheGeneration` look inside.

Of the readers:

- `Inspection`: one family per inspection. Two passes that see the same on both sides of a
  change and its reversal cannot tell; the property says "at some moment" because of it. The
  timer probe and the offline matches of `check` are not modelled.
- `Lookup`: which safelists it names follows from `Configuration` and `GithubMeta` and is not
  repeated. In both queries expiry is sampled once, as in the code.
- `Preview`: that the read-only loader of each source agrees with the sync's is a property of
  that source's module (for ASNs inside `AsnCache`); here it is the same loader.

Of files, setup and the command line:

- `LocalBlocklist`: one command at a time (the lock is in `Bans`), edits between and inside
  commands; bytes are units of width. A header that ends in two blank lines and is
  followed by no entry loses one with each rewriting, which `SyncKeepsMeaning` allows.
- `Configuration`: an editor's save between the last read of a command and its rename is lost,
  since editors take no lock. The model lets edits happen up to that read: of a reviewed
  edit the comparison under the lock, of an ASN command the read of `update_asn_bans`, and
  so also between its two reads. TOML is its entries.
- `Setup`: contents are the template, something saved, something written by hand, something
  broken; sudo and systemctl succeed or fail as a whole. The installed executable is looked
  for twice and does not change in between. Whether the cache can be written to, as far as
  the doctor can see, is a constant of the host.
- `CommandLine`: wording, layout and redaction are left out; evaluating a report and printing
  it are two steps. `/dev/null`, which takes a silent report, can be opened.

Of the end-to-end tool:

- `VmMatrix`: a failed `incus` command has its effect at once or never, and several that fail
  in one step count as one fault; a panicking worker is a lost worker; the report of a
  living run is not removed by `clean`.
- `GuestChecks`: processes in the guest that outlive a killed `incus` client write nothing that
  is captured; a script that hangs silently is a case of one that never ends; details, stdout
  and the verification of the transcript are left out. If a report cannot be written in the
  middle of a read, the last drain resumes inside a line and may attribute a check
  wrongly; the report is marked incomplete then and the trial is lost, so `EvidenceIsTrue`
  speaks of complete reports.
- `GuestReboot`: sleeps and shortened time limits are left out, the deadline passes anywhere.
- `SuiteSetup`: the administrator acts between runs only. A profile whose tagging failed is
  foreign for later setups until the administrator acts, which `SetupIsOwned` counts as
  a cause.

## Not modelled

- Parsing of tokens: CIDRs, URLs, TOML syntax, `bgpq4` JSON. What their results mean is.
- Path resolution from the environment; ownership and modes are in `Setup`.
- Logging: it decides nothing.
- Vendor images, archives of evidence and diagnostics of the end-to-end tool: sequences of
  commands whose failure is a failed phase in `VmMatrix`.
- `scripts/`: installation, packaging and release; what the host relies on of
  `scripts/e2e` is in `GuestReboot`.
- The kernel's `timeout` of set entries.

## Plan

Done: all components above, the theorems above, and `Ipset` as an implementation of
`AtomicSet`. Left:

1. Proofs, in this order: `CacheGeneration`'s `StoreIsSound` (what survives a power loss is
   a whole generation); `VmMatrix`'s `GuestsAndGateAreSafe`. The modules are written for it:
   constants with assumptions, one action per operation, no `RECURSIVE`.
2. A composition: `Sync`'s single steps of replacing and wiring refined by `Ipset` and
   `Firewall`, with two families interleaved.
