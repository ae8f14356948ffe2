---------------------------- MODULE RemoteFetch ----------------------------
(***************************************************************************)
(* The remote-feeds provider of a sync: configured feeds are fetched in    *)
(* chunks, each chunk by a pool of scoped threads that share an index and  *)
(* a vector of results (crates/kidobo-adapters/src/sync_sources.rs,        *)
(* prepare_remote_networks_in_chunks; http_fetch.rs; http_cache.rs,        *)
(* prepare_iplist_with_cache).                                             *)
(*                                                                         *)
(* A worker's steps interleave with those of the others and with a         *)
(* cancellation, which comes from a signal handler at any time.  What a    *)
(* store looks like inside is CacheGeneration's subject; here a feed has   *)
(* the contents of its cache or none.                                      *)
(***************************************************************************)
EXTENDS Naturals, Sequences, FiniteSets, SequencesExt

CONSTANTS
  Urls,         \* feeds
  Configured,   \* the configured lists of feeds, repetitions included
  Nets,         \* networks
  Bodies,       \* the sets of networks a feed may serve or a cache may hold
  MAX_WORKERS,  \* MAX_REMOTE_FETCH_WORKERS, which is also the size of a chunk
  Cpus,         \* what available_parallelism may return
  AggregateLimit

ASSUME WorkersAssumption == MAX_WORKERS \in Nat \ {0}
ASSUME CpusAssumption == Cpus \subseteq Nat \ {0}
ASSUME LimitAssumption == AggregateLimit \in Nat
ASSUME ConfiguredAssumption == Configured \subseteq Seq(Urls)
ASSUME BodiesAssumption == Bodies \subseteq SUBSET Nets

Workers == 1 .. MAX_WORKERS

\* A cache is valid, absent (or damaged, which is the same), or a legacy file
\* that cannot be read.
Cache == [state : {"valid"}, networks : Bodies]
           \cup [state : {"absent", "unreadable"}, networks : {{}}]

VARIABLES
  urls,         \* the configuration
  unique,       \* unique_urls
  cpus,
  cache,        \* what each feed's cache holds
  cancelled,    \* the interrupt flag
  pc,           \* of the provider: "chunk", "join", "collect", "done"
  first,        \* feeds in the chunks before this one
  nextIdx,      \* next_idx
  worker,       \* the threads of this chunk
  results,      \* positions in the chunk, as they were pushed
  got,          \* what prepare_iplist_with_cache returned for a feed
  observations, aggregate, pending,
  outcome

vars == <<urls, unique, cpus, cache, cancelled, pc, first, nextIdx, worker, results, got,
          observations, aggregate, pending, outcome>>

input == <<urls, unique, cpus, cache>>
collected == <<observations, aggregate, pending, outcome>>

-----------------------------------------------------------------------------
\* Mutant: a feed that is configured twice is fetched twice.
WithRepetitions(list) == list

\* unique_urls: the first occurrence of each.
Unique(list) ==
  LET seen[i \in 0 .. Len(list)] ==
        IF i = 0 THEN <<>>
        ELSE IF list[i] \in ToSet(seen[i - 1]) THEN seen[i - 1] ELSE Append(seen[i - 1], list[i])
  IN seen[Len(list)]

Least(x, y) == IF x < y THEN x ELSE y

chunk == SubSeq(unique, first + 1, Least(first + MAX_WORKERS, Len(unique)))

\* remote_fetch_worker_count_for; the number of processors is at least one.
WorkerCount(count) == Least(count, Least(MAX_WORKERS, cpus))

Asleep == [at |-> "gone", index |-> 1, body |-> {}]

Result(kind, source, networks, cut) ==
  [kind |-> kind, source |-> source, networks |-> networks, cut |-> cut]

\* The one observation of a configuration without feeds.
Disabled == [url |-> "remote-feeds", source |-> "disabled"]

NoResult == Result("none", "none", {}, FALSE)

Init ==
  /\ urls \in Configured
  /\ unique = Unique(urls)
  /\ cpus \in Cpus
  /\ cache \in [Urls -> Cache]
  /\ cancelled = FALSE
  /\ pc = "chunk"
  /\ first = 0 /\ nextIdx = 1
  /\ worker = [w \in Workers |-> Asleep]
  /\ results = <<>>
  /\ got = [u \in Urls |-> NoResult]
  /\ observations = IF unique = <<>> THEN <<Disabled>> ELSE <<>>
  /\ aggregate = {} /\ pending = <<>>
  /\ outcome = "none"

-----------------------------------------------------------------------------
(***************************************************************************)
(* The provider.  An early return drops what was staged so far, and drops  *)
(* it before the generation was selected (CacheGeneration).                *)
(***************************************************************************)
Return(result) ==
  /\ outcome' = result
  /\ pc' = "done"

StartChunk ==
  /\ pc = "chunk" /\ first < Len(unique)
  /\ IF cancelled
     THEN Return("cancelled") /\ UNCHANGED <<nextIdx, worker, results>>
     ELSE /\ pc' = "join"
          /\ nextIdx' = 1 /\ results' = <<>>
          /\ worker' = [w \in Workers |->
               [Asleep EXCEPT !.at = IF w <= WorkerCount(Len(chunk)) THEN "check" ELSE "gone"]]
          /\ UNCHANGED outcome
  /\ UNCHANGED <<input, cancelled, first, got, observations, aggregate, pending>>

SortByIndex(list) ==
  LET order == CHOOSE p \in [DOMAIN list -> DOMAIN list] :
                 /\ IsInjective(p)
                 /\ \A i, j \in DOMAIN list : i < j => list[p[i]] <= list[p[j]]
  IN [i \in DOMAIN list |-> list[order[i]]]

\* Mutant: the flag is not looked at after the workers have ended.
JoinUnchecked ==
  /\ pc = "join" /\ \A w \in Workers : worker[w].at = "gone"
  /\ pc' = "collect" /\ results' = SortByIndex(results) /\ UNCHANGED outcome
  /\ UNCHANGED <<input, cancelled, first, nextIdx, worker, got, observations, aggregate, pending>>

\* The end of thread::scope, and the check after it.
Join ==
  /\ pc = "join" /\ \A w \in Workers : worker[w].at = "gone"
  /\ IF cancelled
     THEN Return("cancelled") /\ UNCHANGED results
     ELSE pc' = "collect" /\ results' = SortByIndex(results) /\ UNCHANGED outcome
  /\ UNCHANGED <<input, cancelled, first, nextIdx, worker, got, observations, aggregate, pending>>

OverBudget(networks) == Cardinality(networks) > AggregateLimit

\* One result of the sorted chunk.
Collect ==
  /\ pc = "collect" /\ results # <<>>
  /\ LET u == chunk[Head(results)]
         r == got[u]
         all == aggregate \cup r.networks
         Observe == observations' = Append(observations, [url |-> u, source |-> r.source]) IN
     \/ /\ r.kind = "hard"
        /\ Return("staging")
        /\ UNCHANGED <<results, observations, aggregate, pending>>
     \/ /\ r.kind # "hard" /\ OverBudget(all)
        /\ Observe
        /\ Return("budget")
        /\ UNCHANGED <<results, aggregate, pending>>
     \/ /\ r.kind # "hard" /\ ~ OverBudget(all)
        /\ Observe
        /\ aggregate' = all
        /\ pending' = IF r.source = "network" THEN Append(pending, u) ELSE pending
        /\ results' = Tail(results)
        /\ UNCHANGED <<pc, outcome>>
  /\ UNCHANGED <<input, cancelled, first, nextIdx, worker, got>>

NextChunk ==
  /\ pc = "collect" /\ results = <<>>
  /\ first' = first + Len(chunk)
  /\ pc' = "chunk"
  /\ UNCHANGED <<input, cancelled, nextIdx, worker, results, got, collected>>

Finish ==
  /\ pc = "chunk" /\ first = Len(unique)
  /\ Return("ok")
  /\ UNCHANGED <<input, cancelled, first, nextIdx, worker, results, got,
                 observations, aggregate, pending>>

Provider == StartChunk \/ Join \/ Collect \/ NextChunk \/ Finish

-----------------------------------------------------------------------------
(***************************************************************************)
(* A worker: claim a position, fetch the feed, push the result, again.     *)
(***************************************************************************)
Goto(w, at) == worker' = [worker EXCEPT ![w].at = at]

workerFrame == <<input, cancelled, pc, first, collected>>

Check(w) ==
  /\ worker[w].at = "check"
  /\ Goto(w, IF cancelled THEN "gone" ELSE "claim")
  /\ UNCHANGED <<workerFrame, nextIdx, results, got>>

\* fetch_add and chunk.get.
Claim(w) ==
  /\ worker[w].at = "claim"
  /\ nextIdx' = nextIdx + 1
  /\ IF nextIdx <= Len(chunk)
     THEN worker' = [worker EXCEPT ![w] = [at |-> "read", index |-> nextIdx, body |-> {}]]
     ELSE Goto(w, "gone")
  /\ UNCHANGED <<workerFrame, results, got>>

Feed(w) == chunk[worker[w].index]

HasCache(w) == cache[Feed(w)].state = "valid"

\* prepare_iplist_with_cache returns r.
Prepared(w, r) ==
  /\ got' = [got EXCEPT ![Feed(w)] = r]
  /\ Goto(w, "push")

\* cache_fallback.
Fallback(w, cut) ==
  Prepared(w, IF HasCache(w) THEN Result("ok", "fallback", cache[Feed(w)].networks, cut)
                             ELSE Result("ok", "unavailable", {}, cut))

\* read_remote_cache: only a legacy file that cannot be read is an error, a
\* soft one: the feed is reported as unavailable.
Read(w) ==
  /\ worker[w].at = "read"
  /\ IF cache[Feed(w)].state = "unreadable"
     THEN Prepared(w, Result("soft", "unavailable", {}, FALSE))
     ELSE Goto(w, "ask") /\ UNCHANGED got
  /\ UNCHANGED <<workerFrame, nextIdx, results>>

Cut(w) ==
  /\ worker[w].at \in {"ask", "askAgain"} /\ cancelled
  /\ Fallback(w, TRUE)

\* The request failed, or its answer does not pass validate_remote_response.
AnswerUnusable(w) ==
  /\ worker[w].at \in {"ask", "askAgain"} /\ ~ cancelled
  /\ Fallback(w, FALSE)

\* A second 304, to a request without validators, is unusable too.
AnswerNotModified(w) ==
  /\ worker[w].at = "ask" /\ ~ cancelled
  /\ IF HasCache(w) THEN Prepared(w, Result("ok", "cache", cache[Feed(w)].networks, FALSE))
                    ELSE Goto(w, "askAgain") /\ UNCHANGED got

AnswerBody(w) ==
  /\ worker[w].at \in {"ask", "askAgain"} /\ ~ cancelled
  /\ \E body \in Bodies :
       worker' = [worker EXCEPT ![w] = [at |-> "stage", index |-> worker[w].index, body |-> body]]
  /\ UNCHANGED got

\* fetch_with_conditional_cache through the client that looks at the flag
\* before each request, but not during one.
Ask(w) ==
  /\ Cut(w) \/ AnswerUnusable(w) \/ AnswerNotModified(w) \/ AnswerBody(w)
  /\ UNCHANGED <<workerFrame, nextIdx, results>>

\* handle_network_response: what cannot be staged is not used; without a
\* cache that is an error.
Stage(w) ==
  /\ worker[w].at = "stage"
  /\ \/ Prepared(w, Result("ok", "network", worker[w].body, FALSE))
     \/ HasCache(w) /\ Fallback(w, FALSE)
     \/ ~ HasCache(w) /\ Prepared(w, Result("hard", "none", {}, FALSE))
  /\ UNCHANGED <<workerFrame, nextIdx, results>>

Push(w) ==
  /\ worker[w].at = "push"
  /\ results' = Append(results, worker[w].index)
  /\ worker' = [worker EXCEPT ![w] = [Asleep EXCEPT !.at = "check"]]
  /\ UNCHANGED <<workerFrame, nextIdx, got>>

Worker(w) ==
  pc = "join" /\ (Check(w) \/ Claim(w) \/ Read(w) \/ Ask(w) \/ Stage(w) \/ Push(w))

\* A signal arrives.
Cancel ==
  /\ ~ cancelled /\ pc # "done"
  /\ cancelled' = TRUE
  /\ UNCHANGED <<input, pc, first, nextIdx, worker, results, got, collected>>

Next ==
  \/ Provider
  \/ \E w \in Workers : Worker(w)
  \/ Cancel
  \/ pc = "done" /\ UNCHANGED vars

Spec == Init /\ [][Next]_vars

-----------------------------------------------------------------------------
Sources == {"network", "cache", "fallback", "unavailable", "none"}

TypeOK ==
  /\ urls \in Configured /\ unique \in Seq(Urls) /\ cpus \in Cpus
  /\ cache \in [Urls -> Cache]
  /\ cancelled \in BOOLEAN
  /\ pc \in {"chunk", "join", "collect", "done"}
  /\ first \in 0 .. Len(unique)
  /\ nextIdx \in 1 .. (2 * MAX_WORKERS + 1)
  /\ worker \in [Workers -> [at : {"check", "claim", "read", "ask", "askAgain", "stage", "push", "gone"},
                             index : Workers, body : SUBSET Nets]]
  /\ \A w \in Workers : worker[w].at # "gone" => worker[w].index \in DOMAIN chunk
  /\ results \in Seq(DOMAIN chunk)
  /\ got \in [Urls -> [kind : {"none", "ok", "soft", "hard"}, source : Sources,
                       networks : SUBSET Nets, cut : BOOLEAN]]
  /\ observations \in Seq([url : Urls, source : Sources] \cup {Disabled})
  /\ aggregate \subseteq Nets
  /\ pending \in Seq(Urls)
  /\ outcome \in {"none", "ok", "cancelled", "staging", "budget"}

\* What was staged for the first k feeds, in their order, is handed over.
HandsOver(k) ==
  /\ ToSet(pending) = {unique[p] : p \in {q \in 1 .. k : got[unique[q]].source = "network"}}
  /\ \A i, j \in DOMAIN pending, p, q \in 1 .. k :
       pending[i] = unique[p] /\ pending[j] = unique[q] => (i < j <=> p < q)

\* Each configured feed is reported once, in the order of the configuration, and
\* exactly the generations are handed over whose networks are used.
Reported ==
  unique # <<>> =>
    /\ [k \in DOMAIN observations |-> observations[k].url] = unique
    /\ ToSet(unique) = ToSet(urls) /\ Cardinality(ToSet(unique)) = Len(unique)
    /\ HandsOver(Len(unique))

\* The networks of the first k feeds.
UpTo(k) == UNION {got[unique[j]].networks : j \in 1 .. k}

\* The k-th feed ends the collection with this error.
Fails(k, error) ==
  \/ got[unique[k]].kind = "hard" /\ error = "staging"
  \/ got[unique[k]].kind # "hard" /\ Cardinality(UpTo(k)) > AggregateLimit /\ error = "budget"

(***************************************************************************)
(* The outcome depends on what the feeds returned and on their order in    *)
(* the configuration, never on the schedule: the error reported is that of *)
(* the first feed that fails, and a success has the networks of all,       *)
(* reports each once, in order, and hands over the generations it uses.  A *)
(* request that a cancellation cut short looks like an offline feed and is *)
(* never taken for one, or its old contents would be enforced.             *)
(***************************************************************************)
OrderIndependent ==
  LET failing(k) == \E e \in {"staging", "budget"} : Fails(k, e) IN
  /\ outcome = "ok" =>
       /\ \A k \in DOMAIN unique : got[unique[k]].kind # "none" /\ ~ failing(k)
       /\ \A u \in Urls : ~ got[u].cut
       /\ aggregate = UpTo(Len(unique))
       /\ Reported
  /\ outcome \in {"staging", "budget"} =>
       \E k \in DOMAIN unique : Fails(k, outcome) /\ \A j \in 1 .. (k - 1) : ~ failing(j)

(***************************************************************************)
(* No two workers are in the store of the same feed: the stores are not    *)
(* locked, and cleaning one up removes what another worker staged there.   *)
(* (The types belong to it.)                                               *)
(***************************************************************************)
OneWorkerPerStore ==
  /\ TypeOK
  /\ \A v, w \in Workers : v # w /\ {worker[v].at, worker[w].at} \subseteq {"read", "ask", "askAgain", "stage"} =>
      Feed(v) # Feed(w)

\* A sync's result does not depend on how its fetch threads are scheduled, and no
\* two of them work in the store of the same feed.
FetchesAreIndependent == OrderIndependent /\ OneWorkerPerStore

=============================================================================
