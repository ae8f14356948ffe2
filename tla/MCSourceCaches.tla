--------------------------- MODULE MCSourceCaches ---------------------------
(***************************************************************************)
(* TLC instance of the three caches that syncs fall back to: AsnCache,     *)
(* FeedCache and GithubMeta.  They share no state, so a behaviour is one   *)
(* of one of them, chosen in the beginning: the state spaces are added and *)
(* not multiplied.  The variables of the other two keep one value.          *)
(***************************************************************************)
EXTENDS AsnCache

CONSTANTS
  None, All,
  \* FeedCache
  MaxElems, LineFloor, CidrFloor, Cap, BodySetting, DefaultBody, HardBody,
  MaxIplist, MaxRedirects, MaxFeedEvents,
  \* GithubMeta
  Urls, DefaultUrl, MetaBodyLimit, MetaReadLimit, MaxEntries, MaxBlock, Coverage,
  MaxMetaEvents

VARIABLES
  source,  \* the cache this behaviour is about
  feedServed, feedMaxelem, feedStore, feedLegacy, feedPc, feedCached,
  feedFirst, feedSecond, feedStaged, feedLoad, feedBroken, feedEvents,
  metaPublished, metaUrl, metaSelection, metaStore, metaLegacy, metaPc,
  metaCache, metaFirst, metaSecond, metaStaged, metaLoad, metaEvents

-----------------------------------------------------------------------------
(***************************************************************************)
(* Two ASNs, two IPv4 prefixes and one IPv6 prefix; a cache file holds at  *)
(* most two prefixes, so that a resolution may be too large to save.       *)
(***************************************************************************)
Ok(lines) == [status |-> "ok", stdout |-> lines]
Text(lines) == [state |-> "text", lines |-> lines, modified |-> 0]

MCAnswers == {[status |-> "failed"], Ok({}), Ok({"a4", "b4"}),
              Ok({"a6"}), Ok({"a4", Junk})}
MCInitialFiles == {Unreadable, Text({Junk}), Text({"a4", "a6"})}
MCRequests == {<<2, 1, 2>>, <<1, 0>>}

(***************************************************************************)
(* Feeds: a version that fits every limit, one without validators, one     *)
(* over the limits of the smaller maxelem, one without a CIDR, one whose   *)
(* list is too long to be cached, and one whose body is too large.         *)
(***************************************************************************)
Body(lines, cidrs, bytes, tagged) ==
  [lines |-> lines, cidrs |-> cidrs, bytes |-> bytes, tagged |-> tagged]

FeedBodies ==
  [small |-> Body(2, {1}, 1, TRUE),
   untagged |-> Body(1, {2}, 1, FALSE),
   large |-> Body(3, {1, 2, 3}, 1, TRUE),
   garbage |-> Body(1, {}, 1, TRUE),
   unlistable |-> Body(4, {1, 2, 3, 4}, 1, TRUE),
   huge |-> Body(1, {3}, 2, TRUE)]

FeedLegacy ==
  [iplist : {"small", "untagged", "large", None, "unreadable"}, meta : {"small", None}]

Feed == INSTANCE FeedCache WITH
  Bodies <- FeedBodies, LegacyCaches <- FeedLegacy,
  MaxEvents <- MaxFeedEvents, served <- feedServed, maxelem <- feedMaxelem,
  store <- feedStore, legacy <- feedLegacy, pc <- feedPc,
  cached <- feedCached, first <- feedFirst, second <- feedSecond,
  staged <- feedStaged, load <- feedLoad, broken <- feedBroken,
  events <- feedEvents

feedVars == <<feedServed, feedMaxelem, feedStore, feedLegacy, feedPc,
              feedCached, feedFirst, feedSecond, feedStaged, feedLoad,
              feedBroken, feedEvents>>

(***************************************************************************)
(* GitHub metadata: two URLs, three selections, and bodies that have both  *)
(* categories, lack one, are empty on purpose or by a change of format,    *)
(* cover too much, are too large, are a JSON array, or are not JSON.       *)
(***************************************************************************)
Category(cidrs, noise) == [cidrs |-> cidrs, noise |-> noise]
Json(bytes, categories) == [json |-> TRUE, bytes |-> bytes, categories |-> categories]

MetaBodies ==
  [both |-> Json(1, [api |-> Category({{1}}, TRUE), git |-> Category({{2}}, FALSE)]),
   half |-> Json(1, [git |-> Category({{1, 2}}, FALSE)]),
   empty |-> Json(1, [api |-> Category({}, FALSE), git |-> Category({}, TRUE)]),
   wide |-> Json(1, [api |-> Category({{1, 2}, {3}, {4}}, FALSE)]),
   large |-> Json(2, [api |-> Category({{3}}, FALSE)]),
   array |-> Json(1, [c \in {""} |-> Category({{2}}, FALSE)]),
   garbled |-> [json |-> FALSE, bytes |-> 1]]

Selections == {All, {"api"}, {"api", "git"}}

MetaLegacy ==
  [raw : {"both"},
   meta : {None, [url |-> "default", of |-> "both"], [url |-> "custom", of |-> "half"]},
   scope : {None, {"api"}}]

Meta == INSTANCE GithubMeta WITH
  Bodies <- MetaBodies, LegacyCaches <- MetaLegacy,
  BodyLimit <- MetaBodyLimit, ReadLimit <- MetaReadLimit,
  MaxEvents <- MaxMetaEvents, published <- metaPublished, url <- metaUrl,
  selection <- metaSelection, store <- metaStore, legacy <- metaLegacy,
  pc <- metaPc, cache <- metaCache, first <- metaFirst, second <- metaSecond,
  staged <- metaStaged, load <- metaLoad, events <- metaEvents

metaVars == <<metaPublished, metaUrl, metaSelection, metaStore, metaLegacy,
              metaPc, metaCache, metaFirst, metaSecond, metaStaged, metaLoad,
              metaEvents>>

-----------------------------------------------------------------------------
ASSUME FeedConstants == Feed!FeedAssumption

NoAsn ==
  /\ file = None /\ banned = {} /\ temp = None /\ list = {} /\ now = None
  /\ pc = None /\ cmd = None /\ todo = None /\ held = None /\ got = None
  /\ res = None /\ before = None /\ started = None /\ faults = None

NoFeed ==
  /\ feedServed = None /\ feedMaxelem = None /\ feedStore = None
  /\ feedLegacy = None /\ feedPc = None /\ feedCached = None
  /\ feedFirst = None /\ feedSecond = None /\ feedStaged = None
  /\ feedLoad = None /\ feedBroken = None /\ feedEvents = None

NoMeta ==
  /\ metaPublished = None /\ metaUrl = None /\ metaSelection = None
  /\ metaStore = None /\ metaLegacy = None /\ metaPc = None
  /\ metaCache = None /\ metaFirst = None /\ metaSecond = None
  /\ metaStaged = None /\ metaLoad = None /\ metaEvents = None

MCInit ==
  \/ source = "asn" /\ Init /\ NoFeed /\ NoMeta
  \/ source = "feed" /\ Feed!Init /\ NoAsn /\ NoMeta
  \/ source = "github" /\ Meta!Init /\ NoAsn /\ NoFeed

MCNext ==
  \/ source = "asn" /\ Next /\ UNCHANGED <<source, feedVars, metaVars>>
  \/ source = "feed" /\ Feed!Next /\ UNCHANGED <<source, vars, metaVars>>
  \/ source = "github" /\ Meta!Next /\ UNCHANGED <<source, vars, feedVars>>

MCSpec == MCInit /\ [][MCNext]_<<source, vars, feedVars, metaVars>>

-----------------------------------------------------------------------------
\* A feed's 304 is believed only for what its server publishes now.
NotModifiedIsCurrent == source = "feed" => Feed!NotModifiedIsCurrent

\* A preview of a feed, or of the GitHub metadata, shows what a sync would get.
PreviewAgrees ==
  /\ source = "feed" => Feed!PreviewAgrees
  /\ source = "github" => Meta!MetaPreviewAgrees

\* No range of GitHub's is taken from outside the configured categories.
ScopeIsFaithful == source = "github" => Meta!ScopeIsFaithful

\* What a load promotes is what the next load finds.
PromotedIsFound == Meta!PromotedIsFound
=============================================================================
