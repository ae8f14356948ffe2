------------------------------ MODULE AsnCache ------------------------------
(***************************************************************************)
(* The prefixes of banned autonomous systems: bgpq4 resolves them, one     *)
(* cache file per ASN bridges its outages, and three commands use both     *)
(* (crates/kidobo-adapters/src/asn.rs, sync_sources.rs,                    *)
(* crates/kidobo-app/src/blocklist/asn.rs).                                *)
(*                                                                         *)
(* sync and ban load the prefixes of every ASN and rewrite the caches they *)
(* refresh; preview does the same in memory, or without bgpq4 at all;      *)
(* unban deletes the caches.  ban then removes from the local blocklist    *)
(* the lines the ASN's prefixes repeat.  All of it happens under one lock, *)
(* so one command runs at a time, but it may be killed between any two     *)
(* steps, the clock may be set either way, files may be damaged, and the   *)
(* two bgpq4 calls of one resolution (-4 and -6) fail independently.       *)
(***************************************************************************)
EXTENDS Integers, Sequences, FiniteSets, Functions

CONSTANTS
  Asns,          \* autonomous-system numbers, positive
  V4, V6,        \* IPv4 and IPv6 prefixes
  Requests,      \* token lists operators pass to ban and unban; 0 is invalid
  InitialFiles,  \* cache files earlier commands or damage may have left
  Answers,       \* what a bgpq4 command may come back with
  CacheLimit,    \* ASN_CACHE_FILE_READ_LIMIT, counted in prefixes
  StaleAfter,    \* asn.cache_stale_after_secs
  MaxTime,       \* bound: the clock shows a time in 0 .. MaxTime
  MaxCommands,   \* bound: commands started
  MaxFaults      \* bound: failed writes and deletes, and killed processes

AllPrefixes == V4 \cup V6

\* A line of a file or of bgpq4's output that is not a CIDR.
Junk == "junk"
Lines == SUBSET (AllPrefixes \cup {Junk})

\* CommandResult of one bgpq4 call; it is not started, times out or exits
\* nonzero ("failed"), or exits 0 with some output.
Bgpq4Results == [status : {"failed"}] \cup [status : {"ok"}, stdout : Lines]

\* An ASN cache file: absent, not readable (permissions, size, encoding), or text.
Missing == [state |-> "missing"]
Unreadable == [state |-> "unreadable"]
CacheFiles ==
  {Missing, Unreadable} \cup [state : {"text"}, lines : Lines, modified : 0 .. MaxTime]

\* AsnError, and the error of a cancellation check or a failed file update.
AsnErrors == {"ResolveFailed", "CacheRead", "CacheWrite"}
AppErrors == AsnErrors \cup {"InvalidToken", "Cancelled", "StateWrite"}

\* SourceProvenance of one ASN.
Sources == {"Network", "Cache", "FallbackCache"}

\* CachedAsnPrefixes; AsnPrefixBatch drops the source.
CachedAsnPrefixes == [prefixes : SUBSET AllPrefixes, stale : BOOLEAN, source : Sources]

\* AsnBanRequest and AsnUnbanRequest with their tokens normalised, the preview's
\* request, and a sync's.
Commands ==
  [kind : {"ban"}, asns : SUBSET Asns, temporary : BOOLEAN]
    \cup [kind : {"unban"}, asns : SUBSET Asns]
    \cup [kind : {"sync"}, asns : SUBSET Asns]
    \cup [kind : {"preview"}, asns : SUBSET Asns, network : BOOLEAN]

ASSUME BoundAssumption ==
  {CacheLimit, StaleAfter, MaxTime, MaxCommands, MaxFaults} \subseteq Nat
ASSUME AsnAssumption == Asns \subseteq Nat \ {0}
ASSUME FamilyAssumption == V4 \cap V6 = {} /\ Junk \notin AllPrefixes
ASSUME FileAssumption == InitialFiles \subseteq CacheFiles
ASSUME AnswerAssumption == Answers \subseteq Bgpq4Results
ASSUME RequestAssumption == Requests \subseteq Seq(Asns \cup {0})

VARIABLES
  file,     \* cache/asn/as<n>.iplist
  banned,   \* asn.banned of the configuration
  temp,     \* ASNs with an active temporary ban
  list,     \* the local blocklist's CIDRs
  now,      \* the wall clock
  pc,       \* the step the running command executes next
  cmd,      \* the running command
  todo,     \* ASNs it still has to load, or to delete the cache of
  held,     \* prefixes of the resolution in progress
  got,      \* what it has loaded, by ASN
  res,      \* its outcome
  before,   \* history: the cache files when it started
  started,  \* commands so far
  faults    \* faults so far

files == <<file, banned, temp, list>>
vars == <<files, now, pc, cmd, todo, held, got, res, before, started, faults>>

Init ==
  /\ file \in [Asns -> InitialFiles]
  /\ banned \in SUBSET Asns
  /\ temp = {}
  /\ list = AllPrefixes
  /\ now = 0
  /\ pc = "idle"
  /\ cmd = [kind |-> "sync", asns |-> {}]
  /\ todo = {}
  /\ held = {}
  /\ got = <<>>
  /\ res = "none"
  /\ before = file
  /\ started = 0
  /\ faults = 0

-----------------------------------------------------------------------------
(***************************************************************************)
(* Conversions.                                                            *)
(***************************************************************************)

\* parse_asn_token: a positive number.
ValidToken(token) == token > 0

\* parse_cidrs_from_bgpq4_output: one bad line or one of the other family
\* rejects the whole output.
ValidOutput(stdout, family) == stdout \subseteq family

\* run_bgpq4.
Answered(result, family) == result.status = "ok" /\ ValidOutput(result.stdout, family)

\* parse_cidrs_from_cache_contents, then the filter for empty sets: a damaged
\* or empty cache counts as absent.
Usable(f) ==
  /\ f.state = "text"
  /\ Junk \notin f.lines
  /\ f.lines # {}

\* state_is_stale: a modification time in the future is stale.
Stale(f) == f.modified > now \/ now - f.modified >= StaleAfter

\* serialize_asn_cache: the file written must stay readable.
Serializable(prefixes) == Cardinality(prefixes) <= CacheLimit

-----------------------------------------------------------------------------
(***************************************************************************)
(* Starting and ending a command.                                          *)
(***************************************************************************)
Step(next) == pc' = next

End(outcome) ==
  /\ res' = outcome
  /\ Step("idle")
  /\ UNCHANGED <<cmd, todo, held, got, before, started>>

Begin(c, next) ==
  /\ pc = "idle" /\ started < MaxCommands
  /\ started' = started + 1
  /\ cmd' = c
  /\ todo' = c.asns
  /\ held' = {}
  /\ got' = <<>>
  /\ res' = "running"
  /\ before' = file
  /\ Step(next)
  /\ UNCHANGED <<files, now, faults>>

\* An invalid token ends the command before it takes the lock.
RejectTokens ==
  /\ pc = "idle"
  /\ \E tokens \in Requests : \E i \in DOMAIN tokens : ~ ValidToken(tokens[i])
  /\ End("InvalidToken")
  /\ UNCHANGED <<files, now, faults>>

ValidRequests ==
  {Range(tokens) : tokens \in {t \in Requests : \A i \in DOMAIN t : ValidToken(t[i])}}

StartSync == Begin([kind |-> "sync", asns |-> banned \cup temp], "load")

StartPreview ==
  \E network \in BOOLEAN :
    Begin([kind |-> "preview", asns |-> banned \cup temp, network |-> network], "load")

StartBan ==
  \E asns \in ValidRequests, temporary \in BOOLEAN :
    Begin([kind |-> "ban", asns |-> asns, temporary |-> temporary], "load")

StartUnban ==
  \E asns \in ValidRequests : Begin([kind |-> "unban", asns |-> asns], "untemp")

\* context.cancellation.check() before each ASN and before the first update.
Cancel ==
  /\ pc \in {"load", "untemp"}
  /\ End("Cancelled")
  /\ UNCHANGED <<files, now, faults>>

-----------------------------------------------------------------------------
(***************************************************************************)
(* Loading: prepare_asn_prefixes and its two callers.                      *)
(***************************************************************************)

\* normalize_asn_tokens: sorted, without duplicates.
Asn == CHOOSE a \in todo : \A b \in todo : a <= b

HasResolver == cmd.kind = "preview" => cmd.network

Take(prefixes, stale, source) ==
  /\ LET loaded == [prefixes |-> prefixes, stale |-> stale, source |-> source]
     IN got' = [a \in DOMAIN got \cup {Asn} |-> IF a = Asn THEN loaded ELSE got[a]]
  /\ todo' = todo \ {Asn}
  /\ held' = {}
  /\ Step("load")
  /\ UNCHANGED <<cmd, res, before, started>>

\* read_asn_cache_file, and the paths that need no resolver.
ReadCache ==
  /\ pc = "load" /\ todo # {}
  /\ LET f == file[Asn]
     IN \/ f.state = "unreadable" /\ End("CacheRead")
        \/ /\ Usable(f)
           /\ HasResolver => ~ Stale(f)
           /\ Take(f.lines, Stale(f), "Cache")
        \/ /\ f.state # "unreadable" /\ ~ Usable(f) /\ ~ HasResolver
           /\ End("ResolveFailed")
        \/ /\ f.state # "unreadable" /\ HasResolver
           /\ Usable(f) => Stale(f)
           /\ Step("v4")
           /\ UNCHANGED <<cmd, todo, held, got, res, before, started>>
  /\ UNCHANGED <<files, now, faults>>

\* Mutant: without a usable resolution the cached prefixes are not tried.
UnresolvedFails == End("ResolveFailed")

\* The resolver failed: a stale cache bridges the outage.
Unresolved ==
  IF Usable(file[Asn])
  THEN Take(file[Asn].lines, TRUE, "FallbackCache")
  ELSE End("ResolveFailed")

\* resolve_prefixes: bgpq4 -4, then bgpq4 -6.
ResolveV4 ==
  /\ pc = "v4"
  /\ \E result \in Answers :
       \/ /\ Answered(result, V4)
          /\ held' = result.stdout
          /\ Step("v6")
          /\ UNCHANGED <<cmd, todo, got, res, before, started>>
       \/ ~ Answered(result, V4) /\ Unresolved
  /\ UNCHANGED <<files, now, faults>>

ResolveV6 ==
  /\ pc = "v6"
  /\ \E result \in Answers :
       LET found == held \cup result.stdout
       IN \/ /\ Answered(result, V6) /\ found # {}
             /\ held' = found
             /\ Step("save")
             /\ UNCHANGED <<cmd, todo, got, res, before, started>>
          \/ ~ (Answered(result, V6) /\ found # {}) /\ Unresolved
  /\ UNCHANGED <<files, now, faults>>

\* write_asn_cache_file: an atomic replacement.  A failure may come before or
\* after the rename.
Replaced(a) == [file EXCEPT ![a] = [state |-> "text", lines |-> held, modified |-> now]]

\* load_asn_prefixes_with_cache.
SaveCache ==
  /\ pc = "save" /\ cmd.kind # "preview"
  /\ \/ ~ Serializable(held) /\ End("CacheWrite") /\ UNCHANGED <<file, faults>>
     \/ /\ Serializable(held)
        /\ file' = Replaced(Asn)
        /\ Take(held, FALSE, "Network")
        /\ UNCHANGED faults
     \/ /\ Serializable(held) /\ faults < MaxFaults
        /\ faults' = faults + 1
        /\ file' \in {file, Replaced(Asn)}
        /\ End("CacheWrite")
  /\ UNCHANGED <<banned, temp, list, now>>

\* read_asn_for_preview: the same limits, nothing written.
CheckCache ==
  /\ pc = "save" /\ cmd.kind = "preview"
  /\ IF Serializable(held) THEN Take(held, FALSE, "Network") ELSE End("CacheWrite")
  /\ UNCHANGED <<files, now, faults>>

Loaded == pc = "load" /\ todo = {}

\* load_asn_bans returns; the preview's reader too.
FinishLoad ==
  /\ Loaded /\ cmd.kind \in {"sync", "preview"}
  /\ End("ok")
  /\ UNCHANGED <<files, now, faults>>

-----------------------------------------------------------------------------
(***************************************************************************)
(* execute_ban_asn after its loop, and execute_unban_asn.                  *)
(***************************************************************************)

\* An atomic file update that succeeds and leads on, or fails, before or
\* after it took effect, with an error.
Update(var, value, next) ==
  \/ /\ var' = value
     /\ Step(next)
     /\ UNCHANGED <<cmd, todo, held, got, res, before, started, faults>>
  \/ /\ faults < MaxFaults
     /\ faults' = faults + 1
     /\ var' \in {var, value}
     /\ End("StateWrite")

\* record_temporary_bans and the save: permanently banned ASNs get no deadline.
BanTemporarily ==
  /\ Loaded /\ cmd.kind = "ban" /\ cmd.temporary
  /\ IF cmd.asns \subseteq banned
     THEN End("ok") /\ UNCHANGED <<temp, faults>>
     ELSE Update(temp, temp \cup (cmd.asns \ banned), "finish")
  /\ UNCHANGED <<file, banned, list, now>>

\* The lines the loaded prefixes make redundant.
Repeated == UNION {got[a].prefixes : a \in DOMAIN got}

\* Mutant: duplicates are removed while the configuration is still to be
\* written.
BanPermanentlyLate ==
  /\ Loaded /\ cmd.kind = "ban" /\ ~ cmd.temporary
  /\ list' = list \ Repeated
  /\ Update(banned, banned \cup cmd.asns, "finish")
  /\ UNCHANGED <<file, temp, now>>

BanPermanently ==
  /\ Loaded /\ cmd.kind = "ban" /\ ~ cmd.temporary
  /\ Update(banned, banned \cup cmd.asns, "dedupe")
  /\ UNCHANGED <<file, temp, list, now>>

\* remove_exact_duplicates: best effort, its failure is a notice.
RemoveExactDuplicates ==
  /\ pc = "dedupe"
  /\ LET kept == list \ Repeated
     IN \/ list' = kept /\ UNCHANGED faults
        \/ /\ faults < MaxFaults
           /\ faults' = faults + 1
           /\ list' \in {list, kept}
  /\ End("ok")
  /\ UNCHANGED <<file, banned, temp, now>>

\* The temporary file first.  The configuration is left alone when only the
\* temporary file knew the ASNs.
UnbanTemporary ==
  /\ pc = "untemp"
  /\ LET next == IF cmd.asns \cap temp # {} /\ cmd.asns \cap banned = {}
                 THEN "delete" ELSE "unban"
     IN IF cmd.asns \cap temp = {}
        THEN /\ Step(next)
             /\ UNCHANGED <<temp, cmd, todo, held, got, res, before, started, faults>>
        ELSE Update(temp, temp \ cmd.asns, next)
  /\ UNCHANGED <<file, banned, list, now>>

UnbanConfigured ==
  /\ pc = "unban"
  /\ Update(banned, banned \ cmd.asns, "delete")
  /\ UNCHANGED <<file, temp, list, now>>

\* delete_asn_cache_file: a failure is a notice.
DeleteCache ==
  /\ pc = "delete" /\ todo # {}
  /\ \/ file' = [file EXCEPT ![Asn] = Missing] /\ UNCHANGED faults
     \/ /\ faults < MaxFaults
        /\ faults' = faults + 1
        /\ UNCHANGED file
  /\ todo' = todo \ {Asn}
  /\ UNCHANGED <<banned, temp, list, now, pc, cmd, held, got, res, before, started>>

Finish ==
  /\ pc = "finish" \/ (pc = "delete" /\ todo = {})
  /\ End("ok")
  /\ UNCHANGED <<files, now, faults>>

-----------------------------------------------------------------------------
(***************************************************************************)
(* The environment.                                                        *)
(***************************************************************************)
Kill ==
  /\ pc # "idle" /\ faults < MaxFaults
  /\ faults' = faults + 1
  /\ End("killed")
  /\ UNCHANGED <<files, now>>

\* Only idle time and the steps that read the clock matter.
SetClock ==
  /\ pc \in {"idle", "load", "save"}
  /\ now' \in 0 .. MaxTime
  /\ UNCHANGED <<files, pc, cmd, todo, held, got, res, before, started, faults>>

\* A temporary ban's deadline passes.
Expire ==
  /\ pc = "idle"
  /\ \E a \in temp : temp' = temp \ {a}
  /\ UNCHANGED <<file, banned, list, now, pc, cmd, todo, held, got, res, before, started, faults>>

Next ==
  \/ RejectTokens \/ StartSync \/ StartPreview \/ StartBan \/ StartUnban
  \/ Cancel \/ ReadCache \/ ResolveV4 \/ ResolveV6 \/ SaveCache \/ CheckCache
  \/ FinishLoad \/ BanTemporarily \/ BanPermanently \/ RemoveExactDuplicates
  \/ UnbanTemporary \/ UnbanConfigured \/ DeleteCache \/ Finish
  \/ Kill \/ SetClock \/ Expire

Spec == Init /\ [][Next]_vars

-----------------------------------------------------------------------------
(***************************************************************************)
(* Properties.                                                             *)
(***************************************************************************)
CacheOf(f) == IF Usable(f) THEN f.lines ELSE {}

\* An outage never loses a ban: a sync that loaded its ASNs has a nonempty set
\* for each of them, the very one that its cache file holds for the next
\* outage; and loading fails for want of prefixes only when some ASN had no
\* usable cache at the start (prepare_asn_prefixes).
OutageBridged ==
  /\ pc = "idle" /\ res = "ok" /\ cmd.kind = "sync" =>
       /\ DOMAIN got = cmd.asns
       /\ \A a \in cmd.asns : got[a].prefixes # {} /\ got[a].prefixes = CacheOf(file[a])
  /\ pc = "idle" /\ res = "ResolveFailed" => \E a \in cmd.asns : ~ Usable(before[a])

\* Removing a blocklist line because an ASN repeats it never opens a gap: when
\* the line goes, an ASN that a sync will load is configured and its cache
\* holds the prefix, so that the next sync blocks it even without bgpq4
\* (remove_exact_duplicates runs last).
DuplicatesStayCovered ==
  [][list \ list' \subseteq UNION {CacheOf(file'[a]) : a \in banned'}]_vars
=============================================================================
