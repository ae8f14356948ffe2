----------------------------- MODULE GithubMeta -----------------------------
(***************************************************************************)
(* The GitHub metadata safelist: one cache store for whatever URL and      *)
(* category selection is configured, read through a scope check, refreshed *)
(* by a conditional request, and handed to the sync's admission as a       *)
(* primary batch with an older fallback                                    *)
(* (crates/kidobo-adapters/src/github_meta.rs).                            *)
(*                                                                         *)
(* The operator changes the URL and the selection between loads while the  *)
(* store still holds what older settings wrote; the endpoint publishes new *)
(* bodies; cache files are damaged; flat files of older releases have no   *)
(* metadata at all.  A safelist that is too wide opens the firewall, so a  *)
(* body counts only within the envelope.                                   *)
(***************************************************************************)
EXTENDS Naturals, FiniteSets

CONSTANTS
  None,           \* no value
  All,            \* CategorySelection::All
  Urls,           \* endpoint URLs
  DefaultUrl,     \* DEFAULT_GITHUB_META_URL
  Bodies,         \* the bodies each endpoint publishes, by name
  Selections,     \* configured CategorySelections: All, or a set of categories
  LegacyCaches,   \* flat files an older release may have left
  BodyLimit,      \* max_http_body_bytes
  ReadLimit,      \* GITHUB_META_CACHE_READ_LIMIT
  MaxEntries,     \* GITHUB_META_MAX_ENTRIES
  MaxBlock,       \* addresses of the widest block allowed (the minimum prefix)
  Coverage,       \* GITHUB_META_IPV4/IPV6_COVERAGE_LIMIT
  MaxEvents       \* bound: external events

Versions == DOMAIN Bodies

\* A body: not JSON, or categories with the CIDRs found in their values, and
\* whether anything else is in them.  A JSON value that is not an object is one
\* category without a name, which no selection of categories has.  A CIDR is the
\* set of its addresses.
BodyType ==
  [json : {FALSE}, bytes : Nat]
    \cup [json : {TRUE}, bytes : Nat,
          categories : UNION {[cs -> [cidrs : SUBSET SUBSET Nat, noise : BOOLEAN]] :
                                cs \in SUBSET STRING}]

\* Generation members: raw.json, meta.json (url, validators, checksum) and
\* categories.json; intact when they are what the id names.
Generations == [raw : Versions, url : Urls, scope : Selections, intact : BOOLEAN]

\* Flat files; any of the three may be missing.
LegacyType ==
  [raw : Versions \cup {None},
   meta : [url : Urls, of : Versions] \cup {None},
   scope : Selections \cup {None}]

\* GithubMetaSource.
Sources == {"Network", "CacheNotModified", "FallbackCache", "Empty"}

VARIABLES
  published,   \* per URL: the body the endpoint serves
  url,         \* configured URL
  selection,   \* configured selection
  store,       \* the generations the manifest names
  legacy,      \* the flat files
  pc,          \* the step of the running load
  cache,       \* GithubMetaCache: what the load read
  first,       \* the responses; the second only after an unusable 304
  second,
  staged,      \* the generation it staged
  load,        \* PreparedGithubMetaLoad
  events       \* external events so far

config == <<published, url, selection, legacy, events>>
vars == <<config, store, pc, cache, first, second, staged, load>>

-----------------------------------------------------------------------------
(***************************************************************************)
(* From a body to networks.                                                *)
(***************************************************************************)
Chosen(b, sel) == IF sel = All THEN DOMAIN b.categories ELSE sel

\* Mutant: a selected category the body does not have is skipped.
CategoriesPresentLax(b, sel) == TRUE

\* parse_and_extract_networks: every selected category must be there.
CategoriesPresent(b, sel) == Chosen(b, sel) \subseteq DOMAIN b.categories

\* collect_networks_recursively over the selected values.
Networks(b, sel) ==
  UNION {b.categories[c].cidrs : c \in Chosen(b, sel) \cap DOMAIN b.categories}

\* is_empty_container_tree: nothing but empty containers.
IntentionallyEmpty(b, sel) ==
  \A c \in Chosen(b, sel) \cap DOMAIN b.categories : ~ b.categories[c].noise

\* github_meta_networks_within_envelope; overlaps are collapsed before the
\* coverage is summed.
WithinEnvelope(networks) ==
  /\ Cardinality(networks) <= MaxEntries
  /\ \A n \in networks : Cardinality(n) <= MaxBlock
  /\ Cardinality(UNION networks) <= Coverage

Acceptable(v, sel) ==
  LET b == Bodies[v]
  IN /\ b.json
     /\ CategoriesPresent(b, sel)
     /\ Networks(b, sel) = {} => IntentionallyEmpty(b, sel)
     /\ WithinEnvelope(Networks(b, sel))

\* parse_and_extract_networks.
Extracted(v, sel) == IF Acceptable(v, sel) THEN Networks(Bodies[v], sel) ELSE None

-----------------------------------------------------------------------------
(***************************************************************************)
(* Reading the cache.                                                      *)
(***************************************************************************)

\* cache_scope_compatible: a body cached under a filter still is the whole
\* body, so "all" can use it; a filter needs a body cached under the same one.
\* (normalize_categories makes equal selections equal.)
ScopeCompatible(sel, sidecar) == sel = All \/ (sidecar # All /\ sidecar = sel)

\* read_github_meta_cache_files for a generation, its contents verified.
ReadGeneration(g) ==
  IF g = None \/ ~ g.intact \/ g.url # url \/ Bodies[g.raw].bytes > ReadLimit
  THEN None
  ELSE IF ScopeCompatible(selection, g.scope) THEN Extracted(g.raw, selection) ELSE None

\* github_meta_cache_url_matches, and the rule for files without metadata.
LegacyUrlMatches(l) == IF l.meta = None THEN url = DefaultUrl ELSE l.meta.url = url

LegacyRaw(l) ==
  IF LegacyUrlMatches(l) /\ (l.meta # None => l.meta.of = l.raw) THEN l.raw ELSE None

\* read_github_meta_cache_files for the flat files.
ReadLegacy(l) ==
  IF LegacyRaw(l) # None /\ ScopeCompatible(selection, l.scope)
  THEN Extracted(LegacyRaw(l), selection) ELSE None

\* GithubMetaCache: networks, the body whose validators are sent, the
\* generation, and the networks of the next usable source.
Cache(networks, tag, generation, previous) ==
  [networks |-> networks, tag |-> tag, generation |-> generation, previous |-> previous]

LegacyTag(l) == IF l.meta # None /\ l.meta.url = url THEN l.meta.of ELSE None

\* read_github_meta_cache: current, previous, flat files; the first usable one
\* is the primary, the next one its fallback.
ReadCache ==
  LET current == ReadGeneration(store.current)
      previous == ReadGeneration(store.previous)
      flat == ReadLegacy(legacy)
  IN IF current # None
     THEN Cache(current, store.current.raw, store.current,
                IF previous # None THEN previous ELSE flat)
     ELSE IF previous # None
     THEN Cache(previous, store.previous.raw, store.previous, flat)
     ELSE Cache(flat, LegacyTag(legacy), None, None)

\* load_cached_github_meta_safelist, which lookup uses.
CachedNetworks == ReadCache.networks

-----------------------------------------------------------------------------
(***************************************************************************)
(* The request.                                                            *)
(***************************************************************************)

\* The endpoint: down, an error status, 304 to the validator of what it
\* publishes, or the body.
ServerAnswers(tag) ==
  {[kind |-> "down"], [kind |-> "error"]}
    \cup (IF tag = published[url] THEN {[kind |-> "not_modified"]}
          ELSE {[kind |-> "body", version |-> published[url]]})

\* Mutant: only the limit of the transport counts.
AcceptLimitHttp == BodyLimit

\* validate_github_response; the limit is the smaller of the two, so that an
\* accepted body can be read back.
AcceptLimit == IF BodyLimit < ReadLimit THEN BodyLimit ELSE ReadLimit

ValidResponse(r) ==
  /\ r.kind = "body"
  /\ Bodies[r.version].bytes <= AcceptLimit
  /\ Acceptable(r.version, selection)

\* PreparedGithubMetaLoad; the preview's ReadOnlyGithubMeta has the first three.
Loaded(primary, source, fallback, stagingFailed) ==
  [kind |-> "ok", primary |-> primary, source |-> source, fallback |-> fallback,
   staging_failure |-> stagingFailed]

\* prepared_github_fallback, read_only_github_cached.
CachedLoad(source) ==
  IF cache.networks = None THEN Loaded({}, "Empty", cache.previous, FALSE)
  ELSE Loaded(cache.networks, source, cache.previous, FALSE)

\* A new primary has the cached primary as its fallback.
FreshLoad(r) == Loaded(Extracted(r.version, selection), "Network", cache.networks, FALSE)

NotModified(r) == r.kind = "not_modified" /\ cache.networks # None
NeedsRefetch(r) == r.kind = "not_modified" /\ cache.networks = None

\* Mutant: an unusable 304 is not asked again.
PreviewOnce(r1, r2) ==
  IF ValidResponse(r1) THEN FreshLoad(r1)
  ELSE CachedLoad(IF r1.kind = "not_modified" THEN "CacheNotModified" ELSE "FallbackCache")

\* read_github_meta_for_preview, given the same responses.
Preview(r1, r2) ==
  LET r == IF NeedsRefetch(r1) THEN r2 ELSE r1
  IN IF NotModified(r1) THEN CachedLoad("CacheNotModified")
     ELSE IF ValidResponse(r) THEN FreshLoad(r)
     ELSE CachedLoad("FallbackCache")

-----------------------------------------------------------------------------
(***************************************************************************)
(* prepare_github_meta_safelist.                                           *)
(***************************************************************************)
NoResponse == [kind |-> "down"]

Init ==
  /\ published \in [Urls -> Versions]
  /\ url \in Urls
  /\ selection \in Selections
  /\ store = [current |-> None, previous |-> None]
  /\ legacy \in LegacyCaches
  /\ pc = "idle"
  /\ cache = Cache(None, None, None, None)
  /\ first = NoResponse
  /\ second = NoResponse
  /\ staged = None
  /\ load = [kind |-> "none"]
  /\ events = 0

End(result) ==
  /\ load' = result
  /\ pc' = "loaded"

Read ==
  /\ pc = "idle"
  /\ cache' = ReadCache
  /\ first' = NoResponse /\ second' = NoResponse /\ staged' = None
  /\ load' = [kind |-> "none"]
  /\ pc' = "request"
  /\ UNCHANGED <<config, store>>

Request ==
  /\ pc = "request"
  /\ first' \in ServerAnswers(cache.tag)
  /\ IF NotModified(first') THEN End(CachedLoad("CacheNotModified"))
     ELSE IF NeedsRefetch(first') THEN pc' = "refetch" /\ UNCHANGED load
     ELSE IF ValidResponse(first') THEN pc' = "stage" /\ UNCHANGED load
     ELSE End(CachedLoad("FallbackCache"))
  /\ UNCHANGED <<config, store, cache, second, staged>>

\* fetch_with_conditional_cache after an unusable 304.
Refetch ==
  /\ pc = "refetch"
  /\ second' \in ServerAnswers(None)
  /\ IF ValidResponse(second') THEN pc' = "stage" /\ UNCHANGED load
     ELSE End(CachedLoad("FallbackCache"))
  /\ UNCHANGED <<config, store, cache, first, staged>>

Response == IF NeedsRefetch(first) THEN second ELSE first

\* handle_network_response.
Stage ==
  /\ pc = "stage"
  /\ staged' = [raw |-> Response.version, url |-> url, scope |-> selection, intact |-> TRUE]
  /\ End(FreshLoad(Response))
  /\ UNCHANGED <<config, store, cache, first, second>>

\* A staging that fails falls back, or is an error when there is nothing to
\* fall back to.
StageFails ==
  /\ pc = "stage"
  /\ End(IF cache.networks = None THEN [kind |-> "error"]
         ELSE [CachedLoad("FallbackCache") EXCEPT !.staging_failure = TRUE])
  /\ UNCHANGED <<config, store, cache, first, second, staged>>

\* The sync promotes what was staged, or drops it.
Settle ==
  /\ pc = "loaded"
  /\ \/ UNCHANGED store
     \/ /\ staged # None
        /\ LET older == IF cache.generation = staged THEN store.previous ELSE cache.generation
           IN store' = [current |-> staged,
                        previous |-> IF older = staged THEN None ELSE older]
  /\ pc' = "idle"
  /\ UNCHANGED <<config, cache, first, second, staged, load>>

-----------------------------------------------------------------------------
(***************************************************************************)
(* The environment.                                                        *)
(***************************************************************************)
Event ==
  /\ events < MaxEvents
  /\ events' = events + 1
  /\ UNCHANGED <<legacy, pc, cache, first, second, staged, load>>

Publish ==
  /\ Event
  /\ \E v \in Versions : published' = [published EXCEPT ![url] = v]
  /\ UNCHANGED <<url, selection, store>>

Reconfigure ==
  /\ pc = "idle" /\ Event
  /\ url' \in Urls /\ selection' \in Selections
  /\ UNCHANGED <<published, store>>

Damage ==
  /\ pc = "idle" /\ Event
  /\ \E which \in {"current", "previous"} :
       store[which] # None /\ store' = [store EXCEPT ![which].intact = FALSE]
  /\ UNCHANGED <<published, url, selection>>

Next ==
  \/ Read \/ Request \/ Refetch \/ Stage \/ StageFails \/ Settle
  \/ Publish \/ Reconfigure \/ Damage

Spec == Init /\ [][Next]_vars

-----------------------------------------------------------------------------
(***************************************************************************)
(* Properties.                                                             *)
(***************************************************************************)

\* The bodies that came from the configured URL: the published one and what
\* the store and the flat files recorded under it.
BodiesOfUrl ==
  {r.version : r \in {x \in {first, second} : x.kind = "body"}}
    \cup {g.raw : g \in {x \in {store.current, store.previous} : x # None /\ x.url = url}}
    \cup (IF (legacy.meta # None /\ legacy.meta.url = url)
              \/ (legacy.meta = None /\ url = DefaultUrl)
          THEN {legacy.raw} ELSE {})

\* The safelist is what the current settings ask for: both batches are the
\* selected categories, all of them, of one body of the configured URL, within
\* the envelope, however often URL and selection changed since it was cached;
\* and when it was "not modified", of the body that is confirmed.
ScopeIsFaithful ==
  pc = "loaded" /\ load.kind = "ok" =>
    /\ load.source # "Empty" =>
         \E v \in BodiesOfUrl \ {None} :
           /\ Bodies[v].json
           /\ Chosen(Bodies[v], selection) \subseteq DOMAIN Bodies[v].categories
           /\ load.primary = Networks(Bodies[v], selection)
           /\ WithinEnvelope(load.primary)
           /\ load.source = "CacheNotModified" => v = cache.tag
    /\ load.fallback # None =>
         \E v \in BodiesOfUrl \ {None} : load.fallback = Networks(Bodies[v], selection)

\* A preview that gets the same responses as a sync admits from the same two
\* batches, unless the sync cannot write its cache.
MetaPreviewAgrees ==
  pc = "loaded" /\ load.kind = "ok" /\ ~ load.staging_failure =>
    Preview(first, second) = load

\* A body that was accepted is found again: right after a promotion, a load
\* under the same settings reads the same networks without any network.
PromotedIsFound ==
  [][pc = "loaded" /\ store' # store =>
       CachedNetworks' = load.primary]_vars
=============================================================================
