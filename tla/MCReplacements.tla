-------------------------- MODULE MCReplacements --------------------------
(***************************************************************************)
(* TLC instance of what a sync replaces as a whole: the store of one       *)
(* remote cache (CacheGeneration, with three contents, so that a third one *)
(* displaces the previous of two), the text of the local blocklist         *)
(* (LocalBlocklist) and the managed set (Ipset, with requests that are     *)
(* empty, sorted, unsorted and repetitive, two of them exactly at          *)
(* maxelem).  They share no state; a behaviour is one of the three, and    *)
(* the variables of the others keep their values.  The cache contents are  *)
(* interchangeable and no property is a liveness property, so symmetry is  *)
(* sound.                                                                  *)
(***************************************************************************)
EXTENDS Ipset, TLC

CONSTANTS
  Ids, NoId, MaxCacheFaults,
  NoFile, NoState, MaxTime, MaxEdits, Limit, MaxListFaults

VARIABLES
  part,  \* "cache", "list" or "set"
  text, time, fast, clock, step, cmd, doc, draft, loaded, outcome, edits, misses,
  before, raced, met, blurred,
  disk, safe, cacheStep, cached, staged, previous, owns, repair, cacheResult, cacheFaults,
  cacheDisturbed

listVars == <<text, time, fast, clock, step, cmd, doc, draft, loaded, outcome, edits,
              misses, before, raced, met, blurred>>
cacheVars == <<disk, safe, cacheStep, cached, staged, previous, owns, repair, cacheResult,
               cacheFaults, cacheDisturbed>>

-----------------------------------------------------------------------------
\* Two addresses and the CIDR of both.
MCOrder == <<{0, 1}, {0}, {1}>>

E(n) == [kind |-> "entry", net |-> n, bare |-> FALSE]
B(n) == [kind |-> "entry", net |-> n, bare |-> TRUE]
Other(k) == [kind |-> k, net |-> {}, bare |-> FALSE]
T(ls, nl) == [lines |-> ls, newline |-> nl]

\* A missing file, a comment without a newline, entries in the other order
\* below a header and with a later comment, entries without a newline at the
\* end, and a line that cannot be parsed.
MCTexts ==
  {NoFile,
   T(<<Other("note")>>, FALSE),
   T(<<Other("note"), B({1}), Other("note"), E({0})>>, TRUE),
   T(<<Other("blank"), Other("note"), E({0}), E({0, 1})>>, FALSE),
   T(<<E({0}), Other("bad")>>, TRUE)}

MCCommands ==
  {[kind |-> "ban", file |-> TRUE, lines |-> ls] :
     ls \in {<<>>, <<B({0}), E({0}), E({1})>>, <<E({1}), Other("note")>>}}
    \cup {[kind |-> "ban", file |-> FALSE, lines |-> <<Other("bad")>>]}
    \cup {[kind |-> "unban", nets |-> {{0}}, partial |-> p] : p \in BOOLEAN}
    \cup {[kind |-> "dedupe", nets |-> {{1}, {0, 1}}], [kind |-> "sync"]}

List == INSTANCE LocalBlocklist
          WITH Order <- MCOrder, Texts <- MCTexts, Commands <- MCCommands,
               MaxFaults <- MaxListFaults,
               pc <- step, faults <- misses, disturbed <- met

-----------------------------------------------------------------------------
MCRequests ==
  {[maxelem |-> 2, entries |-> <<2, 1>>], [maxelem |-> 2, entries |-> <<1, 1>>],
   [maxelem |-> 1, entries |-> <<2>>], [maxelem |-> 1, entries |-> <<>>]}

ASSUME ManagedConstants == IpsetAssumption

-----------------------------------------------------------------------------
Cache == INSTANCE CacheGeneration
           WITH MaxFaults <- MaxCacheFaults, pc <- cacheStep, result <- cacheResult,
                faults <- cacheFaults, disturbed <- cacheDisturbed

ASSUME CacheConstants == Cache!CacheAssumption

-----------------------------------------------------------------------------
NoList ==
  /\ text = NoFile /\ time = 1 /\ fast = NoState /\ clock = 1
  /\ step = "idle" /\ outcome = "none"
  /\ cmd = [kind |-> "sync"]
  /\ doc = List!EmptyText /\ draft = List!EmptyText /\ loaded = {}
  /\ edits = 0 /\ misses = 0
  /\ before = NoFile /\ raced = FALSE /\ met = FALSE /\ blurred = FALSE

NoSet ==
  /\ sets = [n \in Names |-> Absent]
  /\ pc = "idle" /\ result = "none"
  /\ req = [maxelem |-> 1, entries |-> <<>>] /\ temp = CHOOSE t \in Temps : TRUE
  /\ child = {} /\ orphans = {} /\ err = FALSE /\ files = 0
  /\ faults = 0 /\ disturbed = FALSE /\ stale = FALSE

MCInit ==
  \/ part = "cache" /\ Cache!Init /\ NoList /\ NoSet
  \/ part = "list" /\ List!Init /\ Cache!Init /\ NoSet
  \/ part = "set" /\ Init /\ Cache!Init /\ NoList

MCNext ==
  \/ part = "cache" /\ Cache!Next /\ UNCHANGED <<part, listVars, vars>>
  \/ part = "list" /\ List!Next /\ UNCHANGED <<part, cacheVars, vars>>
  \/ part = "set" /\ Next /\ UNCHANGED <<part, cacheVars, listVars>>

MCSpec == MCInit /\ [][MCNext]_<<part, vars, listVars, cacheVars>>

-----------------------------------------------------------------------------
\* What a sync leaves in the cache store.
StoreIsSound == part = "cache" => Cache!StoreAfterSync

\* No step of a refresh loses the readable fallback (CacheGeneration).
RefreshKeepsFallback == Cache!RefreshKeepsFallback

\* The local blocklist says what the commands made of it.
ListFollowsCommands == part = "list" => List!ListFollowsCommands

Contents == Permutations(Ids)
=============================================================================
