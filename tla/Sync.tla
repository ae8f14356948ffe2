------------------------------- MODULE Sync -------------------------------
(***************************************************************************)
(* The sync workflow (crates/kidobo-app/src/sync.rs, execute) with the     *)
(* source providers it loads (crates/kidobo-adapters/src/sync_sources.rs), *)
(* and flush as far as it changes the same state.                          *)
(*                                                                         *)
(* A sync prepares empty artifacts, loads the providers in registry order, *)
(* admits external safelists, checks the capacity of both families,        *)
(* promotes the staged caches and only then enforces: IPv6, IPv4, wiring,  *)
(* cleanup.  A cancellation is noticed at the code's check points only; one *)
(* that a provider notices while it loads ends the sync just like one      *)
(* noticed before the load.  Replacing a set, wiring and promoting a cache *)
(* are single steps here; Ipset, Firewall and CacheGeneration look inside  *)
(* them.  So do LocalBlocklist and AsnCache for the files that the load of *)
(* a provider normalises or refreshes, and Bans for the expired records    *)
(* that a successful sync prunes.  A sync that ends before it has prepared *)
(* its artifacts changes nothing and is left out.                          *)
(*                                                                         *)
(* Each family's address space has two halves: a batch of networks is a    *)
(* set of halves, both halves of a family are its /0.  remote-feeds has    *)
(* one feed: FeedCache and RemoteFetch have several.                       *)
(***************************************************************************)
EXTENDS Naturals, Sequences, FiniteSets

CONSTANTS
  Registry,    \* the providers: [id, role, policy, cached]
  Offers,      \* the batches a provider may come up with, by its id
  MaxElems,    \* the values of ipset.maxelem
  MaxFaults    \* bound: failed operations, kills, reboots

Families == {"ipv4", "ipv6"}
Nets == Families \X {0, 1}
Ids == {Registry[i].id : i \in DOMAIN Registry}

ASSUME RegistryAssumption ==
  /\ Registry \in Seq({Registry[i] : i \in DOMAIN Registry})
  /\ \A i \in DOMAIN Registry :
       /\ Registry[i].role \in {"candidate", "safelist", "external"}
       /\ Registry[i].policy \in {"required", "bestEffort"}
       /\ Registry[i].cached \in BOOLEAN
       /\ Offers[Registry[i].id] \subseteq SUBSET Nets
       /\ \A j \in DOMAIN Registry : Registry[i].id = Registry[j].id => i = j
ASSUME SyncBoundAssumption == MaxElems \subseteq Nat /\ MaxFaults \in Nat

VARIABLES
  kernel,      \* per family: its set, and whether INPUT is wired to it
  cache,       \* per provider: contents of the current and previous generation
  pc,          \* the step the running sync executes next, or "idle"
  config,      \* enable_ipv6 and maxelem, as loaded under the lock
  cancelled,   \* the cancellation flag
  loaded,      \* number of providers loaded
  candidates,  \* networks to block
  safelist,    \* networks carved out
  external,    \* external safelists that wait for admission
  baseline,    \* the effective lists before any external safelist
  pending,     \* staged caches to promote, in order
  result,      \* how the last sync ended
  faults,      \* faults so far, at most MaxFaults
  start,       \* history: kernel when the last sync began
  fresh,       \* history: what the last sync staged and admitted, by provider
  disturbed    \* history: a fault met the last sync

inputs == <<candidates, safelist, external, baseline, pending, fresh>>

vars == <<kernel, cache, pc, config, cancelled, loaded, inputs, result, faults,
          start, disturbed>>

NoFamily == [present |-> FALSE, entries |-> {}, wired |-> FALSE]

\* Everything but the caches.
InitSync ==
  /\ kernel = [f \in Families |-> NoFamily] /\ start = kernel
  /\ pc = "idle" /\ result = "none"
  /\ config = [ipv6 |-> FALSE, maxelem |-> 0]
  /\ cancelled = FALSE
  /\ loaded = 0
  /\ candidates = {} /\ safelist = {} /\ baseline = {}
  /\ external = <<>> /\ pending = <<>>
  /\ fresh = [p \in Ids |-> <<>>]
  /\ faults = 0 /\ disturbed = FALSE

Init == InitSync /\ cache = [p \in Ids |-> <<>>]

-----------------------------------------------------------------------------
EnabledIf(v6) == IF v6 THEN Families ELSE {"ipv4"}
Enabled == EnabledIf(config.ipv6)

Of(f, nets) == {n \in nets : n[1] = f}

\* compute_effective_blocklists: without IPv6, IPv6 candidates are ignored.
EffectiveLists(c, s, v6) == {n \in c \ s : n[1] \in EnabledIf(v6)}
Effective(c, s) == EffectiveLists(c, s, config.ipv6)

\* The minimal network list that computes to: a whole family is one /0.
Networks(f, nets) == IF Cardinality(Of(f, nets)) = 2 THEN 1 ELSE Cardinality(Of(f, nets))

\* prepare_enforcement_entries: hash:net has no /0, it becomes two /1.
Entries(f, nets) ==
  Networks(f, nets) + IF Cardinality(Of(f, nets)) = 2 THEN 1 ELSE 0

Fault == faults < MaxFaults /\ faults' = faults + 1 /\ disturbed' = TRUE

NoFault == UNCHANGED <<faults, disturbed>>

Go(next) == pc' = next /\ UNCHANGED result

End(r) == pc' = "idle" /\ result' = r

\* A cancellation check: ends the sync, or lets it go on.
Cancelled == cancelled /\ End("cancelled") /\ UNCHANGED <<inputs, kernel, cache, loaded>> /\ NoFault

-----------------------------------------------------------------------------
\* Up to the load of the temporary bans: the lock, then the configuration again.
Begin ==
  /\ pc = "idle"
  /\ \E v6 \in BOOLEAN, n \in MaxElems : config' = [ipv6 |-> v6, maxelem |-> n]
  /\ Go("artifacts")
  /\ cancelled' = FALSE /\ disturbed' = FALSE
  /\ loaded' = 0
  /\ candidates' = {} /\ safelist' = {} /\ baseline' = {}
  /\ external' = <<>> /\ pending' = <<>>
  /\ fresh' = [p \in Ids |-> <<>>]
  /\ start' = kernel
  /\ UNCHANGED <<kernel, cache, faults>>

\* SIGINT or SIGTERM sets the flag.
Interrupt ==
  /\ pc # "idle" /\ ~ cancelled
  /\ cancelled' = TRUE
  /\ UNCHANGED <<kernel, cache, pc, config, loaded, inputs, result, faults, start, disturbed>>

\* ensure_artifacts: missing sets are created empty, IPv4 first.
EnsureArtifacts ==
  /\ pc = "artifacts"
  /\ UNCHANGED <<inputs, cache, loaded>>
  /\ \E some \in SUBSET Enabled :
       /\ kernel' = [f \in Families |->
            IF f \in some THEN [kernel[f] EXCEPT !.present = TRUE] ELSE kernel[f]]
       /\ "ipv6" \in some => "ipv4" \in some
       /\ \/ some = Enabled /\ NoFault /\ Go("load")
          \/ Fault /\ End("failed")

-----------------------------------------------------------------------------
(***************************************************************************)
(* Loading one provider.  A load is its networks, the fallback of an       *)
(* external safelist, whether a cache was staged, and whether rejecting    *)
(* both is an error (the staging error kept in fallback_failure).          *)
(***************************************************************************)
Load(nets, fallback, staged, failure) ==
  [nets |-> nets, fallback |-> fallback, staged |-> staged, failure |-> failure]

Current(p) == IF cache[p] = <<>> THEN {} ELSE cache[p][1]
Previous(p) == IF Len(cache[p]) < 2 THEN {} ELSE {cache[p][2]}

\* A refresh: the body was valid and is staged, the cached current generation
\* becomes the fallback; or there was no valid body and the cache is used.
LocalLoads(p) == {Load(b, {}, FALSE, FALSE) : b \in Offers[p.id]}

CachedLoads(p) ==
  {Load(b, {cache[p.id][i] : i \in DOMAIN cache[p.id] \cap {1}}, TRUE, FALSE) : b \in Offers[p.id]}
  \cup {Load(Current(p.id), Previous(p.id), FALSE, FALSE)}

Loads(p) == IF p.cached THEN CachedLoads(p) ELSE LocalLoads(p)

\* The configuration names no feed or switches the metadata off, or the only
\* feed failed softly.
NothingToLoad(p) == IF p.cached THEN {Load({}, {}, FALSE, FALSE)} ELSE {}

\* Staging failed: a validated cache is used instead.
StagingFailure(p) ==
  {Load(Current(p.id), Previous(p.id), FALSE, TRUE) : i \in DOMAIN cache[p.id] \cap {1}}

\* load_sources, a provider that loaded: external safelists wait.
Accept(p, l) ==
  /\ candidates' = IF p.role = "candidate" THEN candidates \cup l.nets ELSE candidates
  /\ safelist' = IF p.role = "safelist" THEN safelist \cup l.nets ELSE safelist
  /\ external' = IF p.role = "external"
                 THEN Append(external, [id |-> p.id, load |-> l]) ELSE external
  /\ IF p.role # "external" /\ l.staged
     THEN /\ pending' = Append(pending, <<p.id, l.nets>>)
          /\ fresh' = [fresh EXCEPT ![p.id] = <<l.nets>>]
     ELSE UNCHANGED <<pending, fresh>>
  /\ UNCHANGED baseline

\* What the load of a provider may fail with: its own data, more feed entries
\* than the aggregate budget, or a staging without a validated cache.
LoadErrors(p) ==
  {"source"}
  \cup (IF p.cached /\ p.role = "candidate" THEN {"budget"} ELSE {})
  \cup (IF p.cached /\ cache[p.id] = <<>> THEN {"staging"} ELSE {})

\* classify_source_failure
Fatal(p, error) == p.policy = "required" \/ error \in {"budget", "staging"}

\* One turn of load_sources: the provider comes up with one of loads.  Whatever
\* it fails with counts as a fault.
LoadSourceFrom(loads) ==
  /\ pc = "load" /\ loaded < Len(Registry)
  /\ \/ Cancelled
     \/ /\ ~ cancelled
        /\ UNCHANGED <<kernel, cache>>
        /\ loaded' = loaded + 1
        /\ LET p == Registry[loaded + 1] IN
             \/ \E l \in loads : Accept(p, l) /\ Go("load") /\ NoFault
             \/ /\ Fault /\ p.cached
                /\ \E l \in StagingFailure(p) : Accept(p, l) /\ Go("load")
             \/ /\ Fault /\ UNCHANGED inputs
                /\ \E error \in LoadErrors(p) :
                     IF Fatal(p, error) THEN End("failed") ELSE Go("load")

LoadSource ==
  LoadSourceFrom(Loads(Registry[loaded + 1]) \cup NothingToLoad(Registry[loaded + 1]))

\* All sources are loaded; the operator's part of the lists is the baseline.
BeginAdmission ==
  /\ pc = "load" /\ loaded = Len(Registry)
  /\ \/ Cancelled
     \/ /\ ~ cancelled
        /\ baseline' = Effective(candidates, safelist)
        /\ Go("admit") /\ NoFault
        /\ UNCHANGED <<kernel, cache, loaded, candidates, safelist, external, pending, fresh>>

\* Mutant: it is enough that one family keeps an entry.
PreservesOne(c, s, nets, v6, base) ==
  \/ base = {}
  \/ EffectiveLists(c, s \cup nets, v6) # {}

\* external_safelist_preserves_baseline
PreservesBaseline(c, s, nets, v6, base) ==
  \A f \in EnabledIf(v6) :
    \/ Of(f, base) = {}
    \/ Of(f, EffectiveLists(c, s \cup nets, v6)) # {}

Preserves(nets) == PreservesBaseline(candidates, safelist, nets, config.ipv6, baseline)

\* One turn of admit_external_safelists: the primary, else the fallback, else
\* nothing, which is an error if the primary only stands in for a failed staging.
AdmitExternal ==
  /\ pc = "admit" /\ external # <<>>
  /\ UNCHANGED <<kernel, cache, loaded, candidates, baseline>> /\ NoFault
  /\ external' = Tail(external)
  /\ LET id == Head(external).id
         l == Head(external).load
         admissible == {b \in l.fallback : Preserves(b)}
     IN \/ /\ Preserves(l.nets)
           /\ safelist' = safelist \cup l.nets
           /\ IF l.staged
              THEN /\ pending' = Append(pending, <<id, l.nets>>)
                   /\ fresh' = [fresh EXCEPT ![id] = <<l.nets>>]
              ELSE UNCHANGED <<pending, fresh>>
           /\ Go("admit")
        \/ /\ ~ Preserves(l.nets)
           /\ safelist' = safelist \cup UNION admissible
           /\ IF admissible = {} /\ l.failure THEN End("failed") ELSE Go("admit")
           /\ UNCHANGED <<pending, fresh>>

\* prepare_sync_entries: both enabled families, before either is replaced.
WithinCapacity(nets, v6, maxelem) == \A f \in EnabledIf(v6) : Entries(f, nets) <= maxelem

CheckCapacity ==
  /\ pc = "admit" /\ external = <<>>
  /\ IF WithinCapacity(Effective(candidates, safelist), config.ipv6, config.maxelem)
     THEN Go("promote") ELSE End("failed")
  /\ NoFault
  /\ UNCHANGED <<kernel, cache, loaded, inputs>>

-----------------------------------------------------------------------------
\* A promoted generation displaces the current one, which becomes the previous,
\* unless it is the current one: the same body with the same validators.
Promotions(p, nets) ==
  LET former == cache[p] IN
  IF former = <<>> THEN {<<nets>>}
  ELSE {<<nets, former[1]>>} \cup (IF former[1] = nets THEN {former} ELSE {})

\* Mutant: a promotion that fails is only warned about.
PromoteSoftly ==
  /\ pc = "promote" /\ pending # <<>>
  /\ \/ Cancelled
     \/ /\ ~ cancelled
        /\ pending' = Tail(pending)
        /\ LET p == Head(pending)[1] IN
             \/ /\ \E c \in Promotions(p, Head(pending)[2]) : cache' = [cache EXCEPT ![p] = c]
                /\ NoFault
             \/ Fault /\ UNCHANGED cache
        /\ Go("promote")
        /\ UNCHANGED <<kernel, loaded, candidates, safelist, external, baseline, fresh>>

\* One turn of promote_pending_caches; a failure, which may come after the
\* manifest is in place, drops the others.
Promote ==
  /\ pc = "promote" /\ pending # <<>>
  /\ \/ Cancelled
     \/ /\ ~ cancelled
        /\ pending' = Tail(pending)
        /\ LET p == Head(pending)[1]
               promoted == {[cache EXCEPT ![p] = c] : c \in Promotions(p, Head(pending)[2])}
           IN \/ cache' \in promoted /\ NoFault /\ Go("promote")
              \/ cache' \in promoted \cup {cache} /\ Fault /\ End("failed")
        /\ UNCHANGED <<kernel, loaded, candidates, safelist, external, baseline, fresh>>

\* The last check: from here on cancellation is ignored.
BeginEnforcement ==
  /\ pc = "promote" /\ pending = <<>>
  /\ \/ Cancelled
     \/ /\ ~ cancelled
        /\ Go(IF config.ipv6 THEN "apply6" ELSE "apply4") /\ NoFault
        /\ UNCHANGED <<kernel, cache, loaded, inputs>>

-----------------------------------------------------------------------------
\* replace_set: the kernel refuses more entries than maxelem; an error may come
\* after the swap.
ReplaceSet(f, next) ==
  LET nets == Of(f, Effective(candidates, safelist))
      replaced == [kernel EXCEPT ![f].entries = nets, ![f].present = TRUE]
      fits == Cardinality(nets) <= config.maxelem
  IN /\ UNCHANGED <<cache, loaded, inputs>>
     /\ \/ /\ NoFault
           /\ kernel' = IF fits THEN replaced ELSE kernel
           /\ pc' = IF fits THEN next ELSE "idle"
           /\ result' = IF fits THEN result ELSE "failed"
        \/ kernel' \in {kernel, replaced} /\ Fault /\ End("failed")

ApplyIpv6 == pc = "apply6" /\ ReplaceSet("ipv6", "apply4")

\* Mutant: cancellation is checked again between the families.
ApplyIpv4Cancellable ==
  /\ pc = "apply4"
  /\ \/ Cancelled
     \/ ~ cancelled /\ ReplaceSet("ipv4", "activate")

ApplyIpv4 == pc = "apply4" /\ ReplaceSet("ipv4", "activate")

Wire(some) ==
  [f \in Families |-> IF f \in some THEN [kernel[f] EXCEPT !.wired = TRUE] ELSE kernel[f]]

\* activate: IPv4, then IPv6 if it is enabled.
Activate ==
  /\ pc = "activate"
  /\ UNCHANGED <<cache, loaded, inputs>>
  /\ \/ /\ kernel' = Wire(Enabled) /\ NoFault
        /\ IF config.ipv6 THEN End("ok") ELSE Go("cleanup")
     \/ /\ kernel' \in {Wire({}), Wire({"ipv4"}), Wire(Enabled)}
        /\ Fault /\ End("failed")

\* What a cleanup of a family leaves when a step of it fails, possibly after its
\* effect; a set in use cannot be destroyed.
Remains(f) == {kernel[f], [kernel[f] EXCEPT !.wired = FALSE], NoFamily}

\* cleanup_disabled_ipv6, best effort.
CleanupDisabledIpv6 ==
  /\ pc = "cleanup"
  /\ UNCHANGED <<cache, loaded, inputs>>
  /\ \/ kernel' = [kernel EXCEPT !["ipv6"] = NoFamily] /\ NoFault
     \/ /\ \E k \in Remains("ipv6") : kernel' = [kernel EXCEPT !["ipv6"] = k]
        /\ Fault
  /\ End("ok")

-----------------------------------------------------------------------------
\* The process is killed.
Kill ==
  /\ pc # "idle" /\ Fault /\ End("killed")
  /\ UNCHANGED <<kernel, cache, config, cancelled, loaded, inputs, start>>

\* The host restarts: sets and rules are gone, files are not.
Reboot ==
  /\ Fault /\ End("killed")
  /\ kernel' = [f \in Families |-> NoFamily]
  /\ UNCHANGED <<cache, config, cancelled, loaded, inputs, start>>

\* flush: every step is attempted whatever became of the others; with cache_only
\* just the cache.  A store that is removed in part may have lost either
\* generation.
Flush ==
  /\ pc = "idle" /\ result' = "none"
  /\ \/ /\ cache' = [p \in Ids |-> <<>>]
        /\ kernel' \in {kernel, [f \in Families |-> NoFamily]}
        /\ NoFault
     \/ /\ \E kept \in SUBSET {g \in Ids \X {1, 2} : g[2] <= Len(cache[g[1]])} :
             cache' = [p \in Ids |-> (IF <<p, 1>> \in kept THEN <<cache[p][1]>> ELSE <<>>)
                                   \o (IF <<p, 2>> \in kept THEN <<cache[p][2]>> ELSE <<>>)]
        /\ \E four \in Remains("ipv4"), six \in Remains("ipv6") :
             kernel' = [kernel EXCEPT !["ipv4"] = four, !["ipv6"] = six]
        /\ Fault
  /\ UNCHANGED <<pc, config, cancelled, loaded, inputs, start>>

Step ==
  /\ \/ EnsureArtifacts \/ LoadSource \/ BeginAdmission \/ AdmitExternal \/ CheckCapacity
     \/ Promote \/ BeginEnforcement \/ ApplyIpv6 \/ ApplyIpv4 \/ Activate
     \/ CleanupDisabledIpv6
  /\ UNCHANGED <<config, cancelled, start>>

Next == Begin \/ Interrupt \/ Step \/ Kill \/ Reboot \/ Flush

Spec == Init /\ [][Next]_vars
-----------------------------------------------------------------------------
Batches == SUBSET Nets

TypeOK ==
  /\ kernel \in [Families -> [present : BOOLEAN, entries : Batches, wired : BOOLEAN]]
  /\ start \in [Families -> [present : BOOLEAN, entries : Batches, wired : BOOLEAN]]
  /\ cache \in [Ids -> {c \in Seq(Batches) : Len(c) <= 2}]
  /\ pc \in {"idle", "artifacts", "load", "admit", "promote", "apply6", "apply4",
             "activate", "cleanup"}
  /\ config \in [ipv6 : BOOLEAN, maxelem : MaxElems \cup {0}]
  /\ cancelled \in BOOLEAN /\ disturbed \in BOOLEAN
  /\ loaded \in 0 .. Len(Registry)
  /\ {candidates, safelist, baseline} \subseteq Batches
  /\ \A i \in DOMAIN pending : pending[i] \in Ids \X Batches
  /\ \A f \in Families : kernel[f].wired => kernel[f].present
  /\ result \in {"none", "ok", "failed", "cancelled", "killed"}
  /\ faults \in 0 .. MaxFaults

Ended(r) == pc = "idle" /\ result = r

\* What a family blocks, whether or not its set exists yet.
Untouched ==
  \A f \in Families : kernel[f].entries = start[f].entries /\ kernel[f].wired = start[f].wired

(***************************************************************************)
(* All or nothing.  A cancelled sync has changed nothing of what is        *)
(* enforced, whenever the signal came and whatever failed before, and so   *)
(* has one that failed without a failing operation: an inadmissible        *)
(* safelist or a list over capacity, a /0 that needs two entries included, *)
(* is found before either family is replaced.  (The types belong to it.)   *)
(***************************************************************************)
AllOrNothing ==
  /\ TypeOK
  /\ Ended("cancelled") \/ (Ended("failed") /\ ~ disturbed) => Untouched

(***************************************************************************)
(* A successful sync enforces what it computed, in both families: the sets *)
(* hold the candidates without the safelist and INPUT is wired to them; a  *)
(* disabled IPv6 is gone unless its cleanup failed.  And no external       *)
(* safelist, fresh or from the cache, has switched protection off: a       *)
(* family for which the operator's own lists leave something to block      *)
(* blocks something.                                                       *)
(***************************************************************************)
OkEnforces ==
  Ended("ok") =>
    /\ \A f \in Enabled :
         /\ kernel[f] = [present |-> TRUE, wired |-> TRUE,
                         entries |-> Of(f, candidates \ safelist)]
         /\ Of(f, baseline) # {} => kernel[f].entries # {}
    /\ config.ipv6 \/ disturbed \/ kernel["ipv6"] = NoFamily

(***************************************************************************)
(* What the caches hold is what was admitted and is enforced.  A rejected  *)
(* external safelist never becomes the fallback of later syncs: what a     *)
(* sync promotes for an external provider was admitted into the safelist   *)
(* that it enforces.  And nothing is enforced that an offline sync could   *)
(* not reproduce: no entry is enforced before every fresh batch that the   *)
(* sync admitted is the current generation of its provider's cache.        *)
(***************************************************************************)
CacheIsEnforced ==
  [][/\ \A i \in DOMAIN Registry :
          LET p == Registry[i].id IN
          Registry[i].role = "external" /\ pc # "idle" /\ cache'[p] # cache[p] =>
            cache'[p][1] \subseteq safelist
     /\ (\E f \in Families : kernel'[f].entries \notin {{}, kernel[f].entries}) =>
          \A p \in Ids : fresh[p] # <<>> => cache[p] # <<>> /\ cache[p][1] = fresh[p][1]]_vars
=============================================================================
