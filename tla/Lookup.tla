------------------------------- MODULE Lookup -------------------------------
(***************************************************************************)
(* kidobo lookup and kidobo bans: the queries that read what other         *)
(* commands write, without the lock (lookup.rs of kidobo-core and          *)
(* kidobo-app, bans.rs of kidobo-app and kidobo-adapters,                  *)
(* lookup_sources.rs, cached_sources.rs and source_files.rs).              *)
(*                                                                         *)
(* A query reads one file after the other, while the commands of module    *)
(* Bans go on.  Beside their files it reads two kinds of caches: the       *)
(* prefixes of an ASN, and those of a remote feed, a store of generations  *)
(* with flat files of an older release.  The safelists a lookup reports    *)
(* too come from the configuration it read and from module GithubMeta.     *)
(***************************************************************************)
EXTENDS Bans, FiniteSetsExt

CONSTANTS
  None,        \* no configuration, no cache
  Feeds,       \* the contents the feed may have: sets of CIDRs
  Targets,     \* the CIDRs an operator may ask for
  Requests     \* the queries: [kind] and for bans [lifetime, asn_only]

VARIABLES
  caches,      \* [asn, remote, legacy, promoters]
  reader,      \* the query
  history      \* what was saved while it ran

lookupVars == <<vars, caches, reader, history>>

-----------------------------------------------------------------------------
(***************************************************************************)
(* What there is to find.  until is the expiry, 0 for a permanent entry.   *)
(***************************************************************************)
Entries(source, nets, until) ==
  {[source |-> source, net |-> n, until |-> until] : n \in nets}

\* load_cached_asn_prefixes: no file and an empty one are no prefixes.
Cached(c, a) == IF c.asn[a] = None THEN {} ELSE c.asn[a]

\* A generation that can be read shadows the flat file.
Feed(c) ==
  IF c.remote # <<>> THEN Head(c.remote) ELSE IF c.legacy # None THEN c.legacy ELSE {}

Saved(s, c) ==
  Entries("internal:blocklist", s.list, 0)
  \cup UNION {Entries("temporary:blocklist", {n}, s.temp.ips[n]) : n \in Recorded(s.temp.ips)}
  \cup UNION {Entries("temporary:asn", Cached(c, a), s.temp.asns[a]) : a \in Recorded(s.temp.asns)}
  \cup UNION {Entries("asn", Cached(c, a), 0) : a \in s.config.asns}
  \cup Entries("remote", Feed(c), 0)

\* The operator's own records, which the inventory lists.
Records(s) ==
  Entries("ip", s.list, 0)
  \cup UNION {Entries("ip", {n}, s.temp.ips[n]) : n \in Recorded(s.temp.ips)}
  \cup Entries("AS", s.config.asns, 0)
  \cup UNION {Entries("AS", {a}, s.temp.asns[a]) : a \in Recorded(s.temp.asns)}

ActiveAt(e, t) == e.until = 0 \/ e.until > t

\* Addresses the operator's own entries ban at t, by what is cached of the ASNs.
Banned(saved, t) == UNION {e.net : e \in {x \in saved : x.source # "remote" /\ ActiveAt(x, t)}}

-----------------------------------------------------------------------------
(***************************************************************************)
(* The search: intervals by their start, with the greatest end so far.     *)
(***************************************************************************)
Interval(e) == [start |-> Min(e.net), end |-> Max(e.net)]

Before(i, j) == i.start < j.start \/ (i.start = j.start /\ i.end < j.end)

\* IntervalIndex::from_sources; entries of one interval share their place.
Index(entries) ==
  LET intervals == {Interval(e) : e \in entries}
  IN [k \in 1 .. Cardinality(intervals) |->
        CHOOSE i \in intervals : Cardinality({j \in intervals : Before(j, i)}) = k - 1]

\* Mutant: the ends of the intervals themselves, which need not ascend.
OwnEnd(index) == [k \in DOMAIN index |-> index[k].end]

PrefixMaxEnd(index) == [k \in DOMAIN index |-> Max({index[j].end : j \in 1 .. k})]

\* overlapping_source_indices: partition_point counts the elements that satisfy its test.
Overlapping(entries, target) ==
  LET index == Index(entries)
      upper == Cardinality({k \in DOMAIN index : index[k].start <= Max(target)})
      lower == Cardinality({k \in DOMAIN index : PrefixMaxEnd(index)[k] < Min(target)})
      hits == {index[k] : k \in {j \in lower + 1 .. upper : index[j].end >= Min(target)}}
  IN {e \in entries : Interval(e) \in hits}

\* try_run_lookup_by_target: the indices of each family of addresses are separate.
Reported(entries, targets) == [t \in targets |-> Overlapping(entries, t)]

-----------------------------------------------------------------------------
(***************************************************************************)
(* The query.                                                              *)
(***************************************************************************)
NoQuery ==
  [request |-> None, pc |-> "ready", config |-> None, cutoff |-> 0, temp |-> None,
   listed |-> FALSE, candidates |-> <<>>, asns |-> {}, found |-> {}]

Nothing ==
  [ever |-> {}, always |-> {}, banned |-> [t \in 1 .. MaxTime |-> {}], writers |-> {},
   promoted |-> 0]

LookupInit ==
  /\ Init
  /\ caches \in [asn : [Asns -> {None}] \cup {Prefixes}, remote : {<<>>} \cup {<<f>> : f \in Feeds},
                 legacy : {None} \cup Feeds, promoters : {{}}]
  /\ reader = NoQuery
  /\ history = Nothing

Begin(request) ==
  /\ reader.pc = "ready"
  /\ reader' = [reader EXCEPT !.request = request, !.pc = "config"]
  /\ LET saved == Saved(store, caches)
         all == saved \cup Records(store)
     IN history' = [Nothing EXCEPT !.ever = all, !.always = all,
                                   !.banned = [t \in 1 .. MaxTime |-> Banned(saved, t)]]

\* One step of the query from one pc to another; found grows.
Read(from, next, add) ==
  /\ reader.pc = from
  /\ reader' = [reader EXCEPT !.pc = next, !.found = @ \cup add]
  /\ UNCHANGED history

Fail == reader' = [reader EXCEPT !.pc = "failed"] /\ UNCHANGED history

IsLookup == reader.request.kind = "lookup"

\* A lookup goes on without a configuration that cannot be read, with a notice.
ReadConfig ==
  /\ reader.pc = "config"
  /\ \/ reader' = [reader EXCEPT !.config = store.config, !.pc = "clock"] /\ UNCHANGED history
     \/ IF IsLookup THEN reader' = [reader EXCEPT !.pc = "clock"] /\ UNCHANGED history ELSE Fail

\* One cutoff for the whole query.  A lookup loads the temporary bans before
\* any provider, the inventory after the blocklist.
ReadClock ==
  /\ reader.pc = "clock"
  /\ reader' = [reader EXCEPT !.cutoff = now, !.pc = IF IsLookup THEN "temporary" ELSE "list"]
  /\ UNCHANGED history

ActiveTemporary(temp, t) ==
  UNION {Entries("temporary:blocklist", {n}, temp.ips[n]) : n \in Active(temp.ips, t)}

LoadTemporary ==
  /\ reader.pc = "temporary" /\ IsLookup
  /\ reader' = [reader EXCEPT !.temp = store.temp, !.pc = "list"]
  /\ UNCHANGED history

\* LocalBlocklistLookupProvider, then the addresses of the loaded temporary bans
\* and, one cache after the other, its ASNs.
ReadBlocklist ==
  /\ reader.pc = "list" /\ IsLookup
  /\ reader' = [reader EXCEPT !.pc = "temporary_asns",
                  !.asns = Active(reader.temp.asns, reader.cutoff),
                  !.found = @ \cup Entries("internal:blocklist", store.list, 0)
                              \cup ActiveTemporary(reader.temp, reader.cutoff)]
  /\ UNCHANGED history

\* An ASN without a cache is skipped with a warning.
ReadAsn(from, source, until) ==
  /\ reader.pc = from
  /\ \E a \in reader.asns :
       reader' = [reader EXCEPT !.asns = @ \ {a},
                    !.found = @ \cup Entries(source, Cached(caches, a), until[a])]
  /\ UNCHANGED history

ReadTemporaryAsn == ReadAsn("temporary_asns", "temporary:asn", reader.temp.asns)

\* collect_remote_cache_files: the names of the flat files, their texts later.
ListFlatFiles ==
  /\ reader.pc = "temporary_asns" /\ reader.asns = {}
  /\ reader' = [reader EXCEPT !.listed = caches.legacy # None, !.pc = "manifest"]
  /\ UNCHANGED history

\* generation_candidates: the current and the previous generation of a manifest.
ReadManifest ==
  /\ reader.pc = "manifest"
  /\ reader' = [reader EXCEPT !.candidates = caches.remote, !.pc = "generation"]
  /\ UNCHANGED history

\* The first candidate that is there and valid; without one nothing is said.
ReadGeneration ==
  /\ LET alive == {k \in DOMAIN reader.candidates :
                     \E i \in DOMAIN caches.remote : caches.remote[i] = reader.candidates[k]}
     IN Read("generation", "flat", IF alive = {} THEN {}
                                   ELSE Entries("remote", reader.candidates[Min(alive)], 0))

ReadFlatFile ==
  /\ reader.pc = "flat"
  /\ LET shadowed == \E e \in reader.found : e.source = "remote" IN
     IF ~ reader.listed \/ shadowed
     THEN Read("flat", "safelists", {})
     ELSE IF caches.legacy = None THEN Fail
     ELSE Read("flat", "safelists", Entries("remote", caches.legacy, 0))

\* ConfigSafelistLookupProvider and GithubMetaLookupProvider, then AsnCache-
\* LookupProvider for the configuration that was read in the beginning.
ReadSafelists ==
  /\ reader.pc = "safelists"
  /\ reader' = [reader EXCEPT !.pc = "asns",
                  !.asns = IF reader.config = None THEN {} ELSE reader.config.asns]
  /\ UNCHANGED history

ReadConfiguredAsn == ReadAsn("asns", "asn", [a \in reader.asns |-> 0])

EndLookup ==
  /\ reader.asns = {}
  /\ Read("asns", "done", {})

-----------------------------------------------------------------------------
(***************************************************************************)
(* The inventory: three files, selected by lifetime and kind.              *)
(***************************************************************************)
Wants(lifetime) == reader.request.lifetime \in {"All", lifetime}

ListBlocklist ==
  /\ reader.pc = "list" /\ ~ IsLookup
  /\ Read("list", "records",
          (IF Wants("Permanent") /\ ~ reader.request.asn_only THEN Entries("ip", store.list, 0) ELSE {})
          \cup (IF Wants("Permanent") THEN Entries("AS", reader.config.asns, 0) ELSE {}))

\* Expired records are listed too, marked as such.
ListTemporary ==
  /\ reader.pc = "records"
  /\ LET temporary(kind, records) ==
           UNION {Entries(kind, {x}, records[x]) : x \in Recorded(records)}
     IN Read("records", "done",
             IF ~ Wants("Temporary") THEN {}
             ELSE temporary("AS", store.temp.asns)
                  \cup IF reader.request.asn_only THEN {} ELSE temporary("ip", store.temp.ips))

-----------------------------------------------------------------------------
(***************************************************************************)
(* Others write the caches, under the lock.                                *)
(***************************************************************************)
Holds(p, kind) == lock = p /\ Kind(p) = kind

Loading(p) == todo[p] # <<>> /\ Head(todo[p]).op = "enforce"

\* ban --asn and sync load prefixes before their first write.
RefreshAsn(p, a) ==
  /\ \/ Holds(p, "ban_asn") /\ pc[p] = "load" /\ cmd[p].asn = a
     \/ /\ Holds(p, "sync") /\ Loading(p)
        /\ a \in store.config.asns \cup Active(store.temp.asns, cutoff[p])
  /\ caches' = [caches EXCEPT !.asn[a] = Prefixes[a]]

\* unban --asn deletes the cache last.
DropAsn(p) ==
  /\ Holds(p, "unban_asn") /\ pc[p] = "write" /\ todo[p] = <<>>
  /\ caches' = [caches EXCEPT !.asn[cmd[p].asn] = None]

\* A sync promotes a feed once; older generations than the previous go.
PromoteFeed(p, f) ==
  /\ Holds(p, "sync") /\ Loading(p) /\ p \notin caches.promoters
  /\ caches' = [caches EXCEPT !.promoters = @ \cup {p},
                  !.remote = <<f>> \o (IF @ = <<>> THEN <<>> ELSE <<Head(@)>>)]

\* flush --cache-only
FlushRemote ==
  /\ lock = NoProc
  /\ caches' = [caches EXCEPT !.remote = <<>>, !.legacy = None]

CacheStep ==
  \/ \E p \in Procs :
       \/ DropAsn(p)
       \/ \E a \in Asns : RefreshAsn(p, a)
       \/ \E f \in Feeds : f \notin {Head(r) : r \in {caches.remote} \ {<<>>}} /\ PromoteFeed(p, f)
  \/ FlushRemote

\* The history of a query that is running when others make a step.
Observe ==
  IF store' = store /\ caches' = caches THEN UNCHANGED history
  ELSE LET saved == Saved(store', caches')
           all == saved \cup Records(store')
       IN history' =
            [ever |-> history.ever \cup all, always |-> history.always \cap all,
             banned |-> [t \in 1 .. MaxTime |-> history.banned[t] \cap Banned(saved, t)],
             writers |-> history.writers \cup {p \in Procs : lock = p},
             promoted |-> IF caches'.remote = caches.remote THEN history.promoted
                          ELSE history.promoted + IF caches'.remote = <<>> THEN 2 ELSE 1]

Running == reader.pc \notin {"done", "failed"}

OthersStep ==
  /\ Running
  /\ \/ \E p \in Procs : (Start(p) \/ Step(p)) /\ UNCHANGED caches
     \/ SetClock /\ UNCHANGED caches
     \/ CacheStep /\ UNCHANGED vars
  /\ UNCHANGED reader
  /\ IF reader.pc = "ready" THEN UNCHANGED history ELSE Observe

ReaderStep ==
  /\ \/ \E r \in Requests : Begin(r)
     \/ ReadConfig \/ ReadClock \/ LoadTemporary \/ ReadBlocklist \/ ReadTemporaryAsn
     \/ ListFlatFiles \/ ReadManifest \/ ReadGeneration \/ ReadFlatFile \/ ReadSafelists
     \/ ReadConfiguredAsn \/ EndLookup \/ ListBlocklist \/ ListTemporary
  /\ UNCHANGED <<vars, caches>>

LookupRest == ~ Running /\ UNCHANGED lookupVars

LookupNext == OthersStep \/ ReaderStep \/ LookupRest

-----------------------------------------------------------------------------
\* Saved while the query ran.  What is cached of an ASN is read after the ban
\* itself: the two may never have been saved at the same time.
WasSaved(e) ==
  \/ e \in history.ever
  \/ /\ e.source \in {"asn", "temporary:asn"}
     /\ \E a \in Asns : /\ [source |-> "AS", net |-> a, until |-> e.until] \in history.ever
                        /\ e.net \in Prefixes[a]

Evaluated(e) ==
  /\ e.source = "asn" => reader.config # None
  /\ e.source = "remote" => history.promoted <= 1
  /\ e.source \notin {"ip", "AS"}

(***************************************************************************)
(* A query tells the truth although it reads without the lock. Whatever    *)
(* the target, a lookup reports only entries that were saved while it ran  *)
(* (of an ASN, whose ban was) and that overlap the target; it reports      *)
(* every such entry that was saved all the time, unless the feed was       *)
(* promoted twice or flushed; and an address that was banned all the time, *)
(* by one entry or another, is found banned if one command at most wrote   *)
(* meanwhile and that was not an ASN ban, which moves entries behind the   *)
(* reader's back. The inventory likewise lists what was saved and all that *)
(* stayed saved.                                                           *)
(***************************************************************************)
QueriesAreHonest ==
  reader.pc = "done" =>
    IF IsLookup
    THEN \A target \in Targets :
           LET reported == Reported(reader.found, {target})[target]
               overlap(e) == e.net \cap target # {}
           IN /\ \A e \in reported : WasSaved(e) /\ overlap(e) /\ ActiveAt(e, reader.cutoff)
              /\ \A e \in history.always :
                   Evaluated(e) /\ ActiveAt(e, reader.cutoff) =>
                     (overlap(e) => e \in reported)
              /\ reader.config # None /\ Cardinality(history.writers) <= 1
                 /\ (\A p \in history.writers : Kind(p) # "ban_asn") =>
                   target \cap history.banned[reader.cutoff] \subseteq UNION {e.net : e \in reported}
    ELSE /\ reader.found \subseteq history.ever
         /\ \A e \in history.always :
              /\ e.source \in {"ip", "AS"}
              /\ Wants(IF e.until = 0 THEN "Permanent" ELSE "Temporary")
              /\ reader.request.asn_only => e.source = "AS"
              => e \in reader.found
=============================================================================
