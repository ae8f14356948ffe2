----------------------------- MODULE FeedCache ------------------------------
(***************************************************************************)
(* One remote feed: its validated cache, the conditional request that      *)
(* refreshes it, and the two readers that must agree, the sync's           *)
(* prepare_iplist_with_cache and the preview's read_iplist_for_preview     *)
(* (crates/kidobo-adapters/src/http_cache.rs, http_fetch.rs,               *)
(* http_client.rs, remote_parse.rs).                                       *)
(*                                                                         *)
(* The server publishes versions of the feed and answers honestly: 304     *)
(* only to the validator of the version it serves.  Between two loads it   *)
(* publishes another version, the operator changes maxelem (and with it    *)
(* what a cached list may hold), and cache files are damaged or removed.   *)
(* How a generation reaches the disk is modelled in CacheGeneration; here  *)
(* the store is the pair of generations its manifest names, and the flat   *)
(* files of older releases.                                                *)
(***************************************************************************)
EXTENDS Naturals, Sequences, FiniteSets

CONSTANTS
  None,           \* no value
  Bodies,         \* the versions the server publishes
  MaxElems,       \* values of ipset.maxelem
  LineFloor, CidrFloor, Cap,   \* the constants of RemoteFeedLimits
  BodySetting,    \* KIDOBO_MAX_HTTP_BODY_BYTES: a number, or None if unset or garbled
  DefaultBody, HardBody,       \* its default and its ceiling
  MaxIplist,      \* MAX_IPLIST_READ_BYTES, counted in CIDRs
  MaxRedirects,   \* MAX_HTTP_REDIRECTS
  LegacyCaches,   \* flat files an older release may have left
  MaxEvents       \* bound: publications, damages and changes of maxelem

Versions == DOMAIN Bodies

\* A response body: its data lines, the CIDRs among them, its size, and whether
\* the server labels it with validators.
BodyType == [lines : Nat, cidrs : SUBSET Nat, bytes : Nat, tagged : BOOLEAN]

\* A generation: raw body, list and metadata of one version; intact when the
\* files have the contents that its id names.
Generations == [id : Versions, intact : BOOLEAN]

\* Flat files: the version whose list the iplist file holds (or no file, or one
\* that cannot be read), and the version the metadata file describes.
LegacyType ==
  [iplist : Versions \cup {None, "unreadable"}, meta : Versions \cup {None}]

\* CacheSource, which SourceProvenance repeats.
Sources == {"Network", "CacheNotModified", "FallbackCache", "Empty"}

\* The two requests of fetch_with_conditional_cache, and their answers:
\* transport errors, redirects to other origins, statuses with or without body.
Responses ==
  [kind : {"down"}]
    \cup [kind : {"http"}, hops : Seq({"same", "other"}),
          status : {"ok", "not_modified", "error"}, version : Versions]

\* Assumed of the constants.
FeedAssumption == (\A v \in Versions : Bodies[v] \in BodyType) /\ LegacyCaches \subseteq LegacyType

VARIABLES
  served,    \* the version the server publishes
  maxelem,   \* ipset.maxelem
  store,     \* the generations the manifest names: current, previous
  legacy,    \* the flat files
  pc,        \* the step of the running load
  cached,    \* what the load read: networks, validators, generation
  first,     \* its responses; the second only after an unusable 304
  second,
  staged,    \* the generation it staged
  load,      \* its result
  broken,    \* history: writing its generation failed
  events     \* external events so far

vars == <<served, maxelem, store, legacy, pc, cached, first, second, staged, load, broken, events>>

-----------------------------------------------------------------------------
(***************************************************************************)
(* Parsing within the limits that maxelem implies.                         *)
(***************************************************************************)
AtLeast(floor, n) == IF n < floor THEN floor ELSE n
AtMost(cap, n) == IF n > cap THEN cap ELSE n

\* RemoteFeedLimits::from_maxelem.
DataLines(m) == AtLeast(LineFloor, AtMost(Cap, 2 * m))
UniqueCidrs(m) == AtLeast(CidrFloor, AtMost(Cap, 2 * m))

\* max_http_body_bytes: zero counts as unset.
MaxBody ==
  IF BodySetting \in {None, 0} THEN DefaultBody ELSE AtMost(HardBody, BodySetting)

\* parse_remote_cidrs_bounded.
WithinBudget(lines, cidrs, m) ==
  /\ lines <= DataLines(m)
  /\ Cardinality(cidrs) <= UniqueCidrs(m)

\* parse_cached_iplist_bounded: the normalised list has one line per CIDR.
CachedWithinBudget(v, m) ==
  WithinBudget(Cardinality(Bodies[v].cidrs), Bodies[v].cidrs, m)

-----------------------------------------------------------------------------
(***************************************************************************)
(* Reading the cache.                                                      *)
(***************************************************************************)
NoCache == [networks |-> None, tag |-> None, generation |-> None]

\* The validators of the metadata file.
Tag(v) == IF v # None /\ Bodies[v].tagged THEN v ELSE None

\* read_remote_cache's loop: content id, URL, checksums, then the budget.
UsableGeneration(g, m) == g # None /\ g.intact /\ CachedWithinBudget(g.id, m)

FromGeneration(g) ==
  [networks |-> Bodies[g.id].cidrs, tag |-> Tag(g.id), generation |-> g.id]

\* Mutant: the flat list is used although its checksum differs.
ReadLegacyUnchecked(l, m) ==
  [networks |-> IF l.iplist \in Versions /\ CachedWithinBudget(l.iplist, m)
                THEN Bodies[l.iplist].cidrs ELSE None,
   tag |-> Tag(l.meta),
   generation |-> None]

\* read_optional_iplist_networks: without metadata nothing is checked; with it
\* the checksum is.  The validators are kept even when the list is not usable.
ReadLegacy(l, m) ==
  [networks |-> IF /\ l.iplist \in Versions
                   /\ l.meta # None => l.meta = l.iplist
                   /\ CachedWithinBudget(l.iplist, m)
                THEN Bodies[l.iplist].cidrs ELSE None,
   tag |-> Tag(l.meta),
   generation |-> None]

ReadCache(s, l, m) ==
  IF UsableGeneration(s.current, m) THEN FromGeneration(s.current)
  ELSE IF UsableGeneration(s.previous, m) THEN FromGeneration(s.previous)
  ELSE ReadLegacy(l, m)

\* HttpCacheError::ReadIplist.
CacheUnreadable(s, l, m) ==
  /\ ~ UsableGeneration(s.current, m) /\ ~ UsableGeneration(s.previous, m)
  /\ l.iplist = "unreadable"

-----------------------------------------------------------------------------
(***************************************************************************)
(* The HTTP client, and the validation of what it returns.                 *)
(***************************************************************************)

\* same_origin_redirect_policy.
Followed(hops) == Len(hops) <= MaxRedirects /\ \A i \in DOMAIN hops : hops[i] = "same"

\* ReqwestHttpClient::fetch: a body over the limit is an error of the request.
Fetched(r) ==
  /\ r.kind = "http"
  /\ Followed(r.hops)
  /\ r.status = "ok" => Bodies[r.version].bytes <= MaxBody

\* validate_remote_response.
ValidResponse(r, m) ==
  LET b == Bodies[r.version]
  IN /\ r.status = "ok"
     /\ WithinBudget(b.lines, b.cidrs, m)
     /\ b.lines > 0 => b.cidrs # {}

\* ensure_normalized_size.
NormalizedFits(v) == Cardinality(Bodies[v].cidrs) <= MaxIplist

\* What the server may answer to a request with this validator.
ServerAnswers(tag) ==
  {[kind |-> "down"]}
    \cup {[kind |-> "http", hops |-> h, status |-> st, version |-> served] :
            h \in {<<>>, <<"same">>, <<"other">>, <<"same", "same">>},
            st \in {"error"} \cup (IF tag = served THEN {"not_modified"} ELSE {"ok"})}

\* fetch_with_conditional_cache.
NeedsRefetch(c, r) == Fetched(r) /\ r.status = "not_modified" /\ c.networks = None
NotModified(c, r) == Fetched(r) /\ r.status = "not_modified" /\ c.networks # None

-----------------------------------------------------------------------------
(***************************************************************************)
(* The preview's reader: the same cache and the same responses, but        *)
(* nothing staged.                                                         *)
(***************************************************************************)
Result(networks, source) == [kind |-> "ok", networks |-> networks, source |-> source]
Failure(error) == [kind |-> "error", error |-> error]

\* read_only_cached and cache_fallback.
Fallback(c, source) ==
  IF c.networks = None THEN Result({}, "Empty") ELSE Result(c.networks, source)

\* Mutant: a list too large to cache is previewed.
PreviewAnyRefresh(c, r, m) ==
  IF Fetched(r) /\ ValidResponse(r, m)
  THEN Result(Bodies[r.version].cidrs, "Network")
  ELSE Fallback(c, "FallbackCache")

PreviewRefresh(c, r, m) ==
  IF ~ Fetched(r) \/ ~ ValidResponse(r, m) THEN Fallback(c, "FallbackCache")
  ELSE IF NormalizedFits(r.version) THEN Result(Bodies[r.version].cidrs, "Network")
  ELSE IF c.networks = None THEN Failure("NormalizedLimit")
  ELSE Fallback(c, "FallbackCache")

\* read_iplist_for_preview with a client.
Preview(c, r1, r2, m) ==
  IF NotModified(c, r1) THEN Fallback(c, "CacheNotModified")
  ELSE PreviewRefresh(c, IF NeedsRefetch(c, r1) THEN r2 ELSE r1, m)

\* read_iplist_for_preview without a client.
OfflinePreview(c) == Fallback(c, "Cache")

\* inspect_cached_source: what the inspection says of the cache.
Inspected(c) ==
  IF c.networks = None THEN None
  ELSE IF c.generation # None THEN "validated cache generation"
  ELSE "compatible legacy cache"

-----------------------------------------------------------------------------
(***************************************************************************)
(* The sync's load, step by step.                                          *)
(***************************************************************************)
NoResponse == [kind |-> "down"]

Init ==
  /\ served \in Versions
  /\ maxelem \in MaxElems
  /\ store = [current |-> None, previous |-> None]
  /\ legacy \in LegacyCaches
  /\ pc = "idle"
  /\ cached = NoCache
  /\ first = NoResponse
  /\ second = NoResponse
  /\ staged = None
  /\ load = [kind |-> "none"]
  /\ broken = FALSE
  /\ events = 0

External == UNCHANGED <<served, maxelem, store, legacy, events>>

End(result) ==
  /\ load' = result
  /\ pc' = "loaded"

\* read_remote_cache.
Read ==
  /\ pc = "idle"
  /\ first' = NoResponse /\ second' = NoResponse /\ staged' = None /\ broken' = FALSE
  /\ IF CacheUnreadable(store, legacy, maxelem)
     THEN /\ cached' = NoCache
          /\ End(Failure("ReadIplist"))
     ELSE /\ cached' = ReadCache(store, legacy, maxelem)
          /\ load' = [kind |-> "none"]
          /\ pc' = "request"
  /\ External

\* handle_network_response up to the staging, and the fallbacks.
Conclude(r) ==
  IF NotModified(cached, r) THEN End(Fallback(cached, "CacheNotModified"))
  ELSE IF NeedsRefetch(cached, r) THEN pc' = "refetch" /\ UNCHANGED load
  ELSE IF Fetched(r) /\ ValidResponse(r, maxelem) THEN pc' = "stage" /\ UNCHANGED load
  ELSE End(Fallback(cached, "FallbackCache"))

Request ==
  /\ pc = "request"
  /\ first' \in ServerAnswers(cached.tag)
  /\ Conclude(first')
  /\ UNCHANGED <<cached, second, staged, broken>>
  /\ External

\* The request without validators after an unusable 304.
Refetch ==
  /\ pc = "refetch"
  /\ second' \in ServerAnswers(None)
  /\ IF Fetched(second') /\ ValidResponse(second', maxelem)
     THEN pc' = "stage" /\ UNCHANGED load
     ELSE End(Fallback(cached, "FallbackCache"))
  /\ UNCHANGED <<cached, first, staged, broken>>
  /\ External

Response == IF NeedsRefetch(cached, first) THEN second ELSE first

\* stage_cache: over the size limit, or not written; a failure falls back to
\* the cache, if any.
Stage ==
  /\ pc = "stage"
  /\ \/ /\ NormalizedFits(Response.version)
        /\ staged' = Response.version
        /\ broken' = FALSE
        /\ End(Result(Bodies[Response.version].cidrs, "Network"))
     \/ /\ broken' = NormalizedFits(Response.version)
        /\ UNCHANGED staged
        /\ End(IF cached.networks = None THEN Failure("WriteMetadata")
               ELSE Fallback(cached, "FallbackCache"))
  /\ UNCHANGED <<cached, first, second>>
  /\ External

\* The previous entry of the new manifest: the generation that was read, or the
\* old previous one when the staged one is the one that was read.
Promoted ==
  LET older == IF cached.generation = staged THEN store.previous
               ELSE IF cached.generation = None THEN None
               ELSE [id |-> cached.generation, intact |-> TRUE]
  IN [current |-> [id |-> staged, intact |-> TRUE],
      previous |-> IF older # None /\ older.id = staged THEN None ELSE older]

\* The sync promotes what it staged, or drops it.
Settle ==
  /\ pc = "loaded"
  /\ \/ staged # None /\ store' = Promoted
     \/ UNCHANGED store
  /\ pc' = "idle"
  /\ UNCHANGED <<served, maxelem, legacy, cached, first, second, staged, load, broken, events>>

-----------------------------------------------------------------------------
(***************************************************************************)
(* The environment.                                                        *)
(***************************************************************************)
Event == events < MaxEvents /\ events' = events + 1

\* The feed changes at any time, between the two requests too.
Publish ==
  /\ Event
  /\ served' \in Versions \ {served}
  /\ UNCHANGED <<maxelem, store, legacy, pc, cached, first, second, staged, load, broken>>

Reconfigure ==
  /\ Event /\ pc = "idle"
  /\ maxelem' \in MaxElems \ {maxelem}
  /\ UNCHANGED <<served, store, legacy, pc, cached, first, second, staged, load, broken>>

Damage ==
  /\ Event /\ pc = "idle"
  /\ \E which \in {"current", "previous"} :
       /\ store[which] # None
       /\ store' = [store EXCEPT ![which].intact = FALSE]
  /\ UNCHANGED <<served, maxelem, legacy, pc, cached, first, second, staged, load, broken>>

Next ==
  Read \/ Request \/ Refetch \/ Stage \/ Settle \/ Publish \/ Reconfigure \/ Damage

Spec == Init /\ [][Next]_vars

-----------------------------------------------------------------------------
(***************************************************************************)
(* Properties.                                                             *)
(***************************************************************************)
\* "Not modified" means what it says: the networks of a load that reports it
\* are those of the version the server confirmed, whichever of the two
\* generations or flat files they came from and whatever the limits were when
\* they were cached (the validators and the list come from one generation).
NotModifiedIsCurrent ==
  pc = "loaded" /\ load.kind = "ok" /\ load.source = "CacheNotModified" =>
    load.networks = Bodies[first.version].cidrs

\* The preview and the sync are two programs over one cache: given the same
\* responses, and a staging that can write, they report the same networks, the same source, or both an error;
\* and offline the preview shows what a sync without network falls back to.
PreviewAgrees ==
  pc = "loaded" /\ ~ broken /\ load # Failure("ReadIplist") =>
    /\ LET p == Preview(cached, first, second, maxelem)
       IN IF load.kind = "error" THEN p.kind = "error" ELSE p = load
    /\ OfflinePreview(cached).networks = Preview(cached, NoResponse, NoResponse, maxelem).networks
    /\ load.kind = "ok" /\ load.source = "Empty" => Inspected(cached) = None
=============================================================================
