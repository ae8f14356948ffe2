---------------------------- MODULE Configuration ---------------------------
(***************************************************************************)
(* The configuration file and the commands that edit it: `sources` and     *)
(* `allow`, the setup assistant, the ASN list of `ban --asn`, and `init`   *)
(* (kidobo-app/src/configuration.rs, kidobo-adapters/src/config_management *)
(* .rs and config_edit.rs, kidobo-core/src/config.rs, src/cli/             *)
(* configuration.rs and setup.rs).                                         *)
(*                                                                         *)
(* An edit is prepared from a read without the lock, reviewed by an        *)
(* operator for any length of time, and applied under the lock if the file *)
(* is still the reviewed one.  A text of the file matters where it is      *)
(* compared or where it is a cache key: a feed is an identity, its         *)
(* normalized URL, in one of several spellings; an exemption is a range    *)
(* in its canonical or in another spelling.                                *)
(***************************************************************************)
EXTENDS Naturals, Sequences, FiniteSets, SequencesExt

CONSTANTS
  Procs,      \* processes that edit
  None,       \* no file, no preview
  Commands,   \* the commands they run
  Files,      \* the files an operator may write by hand, None included
  Starter,    \* DEFAULT_CONFIG_TEMPLATE
  LongNames,  \* set names to which "-v6" cannot be appended any more
  SizeLimit,  \* CONFIG_READ_LIMIT, in entries
  MaxRuns,    \* bound: commands started
  MaxFaults   \* bound: failing writes

Keys == {"ipset.set_name_v6", "ipset.enable_ipv6", "safe.ips", "safe.include_github_meta",
         "remote.urls", "asn.banned", "asn.cache_stale_after_secs"}

ASSUME ConfigurationAssumption ==
  /\ {MaxRuns, MaxFaults, SizeLimit} \subseteq Nat
  /\ None \in Files /\ Starter \in Files

VARIABLES
  file,      \* the saved file, or None
  lock,      \* the holder of the operation lock, or None
  pc,        \* per process: its next step
  cmd,       \* per process: its command
  view,      \* per process: the configuration the setup assistant started from
  preview,   \* per process: [original, candidate]
  approved,  \* per process: exempt addresses the operator agreed to add
  runs,      \* commands started so far
  faults     \* writes that failed so far

vars == <<file, lock, pc, cmd, view, preview, approved, runs, faults>>

bounds == <<runs, faults>>

-----------------------------------------------------------------------------
(***************************************************************************)
(* Documents: what Config::from_toml_str accepts and what it makes of them.*)
(***************************************************************************)

\* Two texts with the same effective configuration: spelling of exemptions and
\* explicit defaults do not count, the spelling of a URL does.
Config(d) ==
  [name |-> d.name, name6 |-> d.name6, ipv6 |-> d.ipv6, github |-> d.github, urls |-> d.urls,
   safe |-> [k \in DOMAIN d.safe |-> d.safe[k].range], asns |-> ToSet(d.asns)]

\* The name of the IPv6 set; it is derived from the IPv4 one when not given, and
\* then only checked when IPv6 is enabled.
ValidNames(d) ==
  /\ d.name # ""
  /\ IF "ipset.set_name_v6" \in d.explicit THEN d.name6 # d.name
     ELSE d.ipv6 => d.name \notin LongNames

\* from_toml_str.  What is broken is the "text", which is no TOML or has a list of
\* ASNs that is not one; another "field" out of range or unknown; or nothing.
Valid(d) == d.broken = "no" /\ ValidNames(d)

\* load_config_document and parse_asn_list_from_toml look at nothing else.
HasAsnList(d) == d.broken # "text"

Size(d) == Len(d.urls) + Len(d.safe) + Len(d.asns)

\* read_to_string_with_limit refuses a longer file.
Loads(d) == Size(d) <= SizeLimit /\ Valid(d)

\* Addresses exempt from every blocklist.
Exempt(d) == UNION {d.safe[k].range : k \in DOMAIN d.safe}

SettingOrigin(d, key) ==
  IF key \in d.explicit THEN "Explicit"
  ELSE IF key = "ipset.set_name_v6" THEN "Derived" ELSE "Default"

-----------------------------------------------------------------------------
(***************************************************************************)
(* FileConfigurationManager::render: one edit of a valid document.  The    *)
(* result is None when the edit is an error.                               *)
(***************************************************************************)
Ids(urls) == [k \in DOMAIN urls |-> urls[k].id]

WithKey(d, key) == [d EXCEPT !.explicit = @ \cup {key}]

AddSource(d, url) ==
  IF url.id \in ToSet(Ids(d.urls)) THEN None
  ELSE [WithKey(d, "remote.urls") EXCEPT !.urls = Append(@, url)]

RemoveSource(d, url) ==
  IF url.id \notin ToSet(Ids(d.urls)) THEN d
  ELSE [d EXCEPT !.urls = SelectSeq(@, LAMBDA u : u.id # url.id)]

Ranges(safe) == {safe[k].range : k \in DOMAIN safe}

AddAllow(d, range) ==
  IF range \in Ranges(d.safe) THEN d
  ELSE [WithKey(d, "safe.ips") EXCEPT !.safe = Append(@, [range |-> range, canonical |-> TRUE])]

RemoveAllow(d, range) ==
  IF range \notin Ranges(d.safe) THEN d
  ELSE [d EXCEPT !.safe = SelectSeq(@, LAMBDA e : e.range # range)]

\* A requested entry that is in the file already keeps its text, the last one
\* when there are several: collect into a BTreeMap.
Retained(same, new) == IF same = <<>> THEN new ELSE Last(same)

ReplaceSources(d, urls) ==
  IF Ids(d.urls) = Ids(urls) THEN d
  ELSE IF Cardinality(ToSet(Ids(urls))) # Len(urls) THEN None
  ELSE [WithKey(d, "remote.urls") EXCEPT !.urls =
         [k \in DOMAIN urls |-> Retained(SelectSeq(d.urls, LAMBDA u : u.id = urls[k].id), urls[k])]]

\* The order of canonical ranges: by network, then by prefix length.
RangeLess(r, s) ==
  Min(r) < Min(s) \/ (Min(r) = Min(s) /\ Cardinality(r) > Cardinality(s))

ReplaceAllow(d, ranges) ==
  IF Ranges(d.safe) = ranges THEN d
  ELSE LET order == SetToSortSeq(ranges, RangeLess) IN
       [WithKey(d, "safe.ips") EXCEPT !.safe =
         [k \in DOMAIN order |-> Retained(SelectSeq(d.safe, LAMBDA e : e.range = order[k]),
                                          [range |-> order[k], canonical |-> TRUE])]]

SetBoolean(d, field, key, setting) ==
  IF d[field] = setting THEN d ELSE [WithKey(d, key) EXCEPT ![field] = setting]

\* ConfigurationEdit::SetBasic, with everything the assistant asked for.
SetBasic(d, c, urls, ranges) ==
  LET booleans == SetBoolean(SetBoolean(d, "ipv6", "ipset.enable_ipv6", c.ipv6),
                             "github", "safe.include_github_meta", c.github)
      sources == ReplaceSources(booleans, urls)
  IN IF sources = None THEN None ELSE ReplaceAllow(sources, ranges)

Edited(d, c, v) ==
  CASE c.kind = "add_source" -> AddSource(d, c.url)
    [] c.kind = "remove_source" -> RemoveSource(d, c.url)
    [] c.kind = "add_allow" -> AddAllow(d, c.range)
    [] c.kind = "remove_allow" -> RemoveAllow(d, c.range)
    [] c.kind = "setup" -> SetBasic(d, c, v.urls \o c.urls, ToSet(v.safe) \cup c.ranges)

\* The whole of render: the original and the candidate must both be valid.
Render(d, c, v) ==
  LET candidate == Edited(d, c, v) IN
  IF ~ Loads(d) \/ candidate = None \/ ~ Valid(candidate) \/ Size(candidate) > SizeLimit
  THEN None ELSE candidate

\* update_asn_bans: a sorted list without repetitions, and the default age; it
\* reads the list from the text and validates nothing else.
UpdateAsnBans(d, c) ==
  LET after == (ToSet(d.asns) \cup c.add) \ c.remove IN
  [d EXCEPT !.asns = SetToSortSeq(after, <),
            !.explicit = @ \cup {"asn.banned", "asn.cache_stale_after_secs"}]

-----------------------------------------------------------------------------
(***************************************************************************)
(* The processes.                                                          *)
(***************************************************************************)
Pcs == {"idle", "view", "prepare", "review", "lock", "check", "update", "write"}

Init ==
  /\ file \in Files
  /\ lock = None
  /\ pc = [p \in Procs |-> "idle"]
  /\ cmd = [p \in Procs |-> None]
  /\ view = [p \in Procs |-> None]
  /\ preview = [p \in Procs |-> None]
  /\ approved = [p \in Procs |-> {}]
  /\ runs = 0
  /\ faults = 0

Go(p, next) == pc' = [pc EXCEPT ![p] = next]

\* The process ends, whichever way; the lock goes with it.
End(p) ==
  /\ Go(p, "idle")
  /\ lock' = IF lock = p THEN None ELSE lock
  /\ cmd' = [cmd EXCEPT ![p] = None]
  /\ view' = [view EXCEPT ![p] = None]
  /\ preview' = [preview EXCEPT ![p] = None]
  /\ approved' = [approved EXCEPT ![p] = {}]

Start(p, c) ==
  /\ pc[p] = "idle"
  /\ runs < MaxRuns /\ runs' = runs + 1
  /\ cmd' = [cmd EXCEPT ![p] = c]
  /\ Go(p, CASE c.kind = "setup" -> "view" [] c.kind = "asn" -> "lock" [] OTHER -> "prepare")
  /\ UNCHANGED <<file, lock, view, preview, approved, faults>>

\* document_or_starter: only setup goes on without a file.
DocumentOrStarter(f) == IF f = None THEN Starter ELSE f

Missing(p) == file = None /\ cmd[p].kind # "setup"

\* read, from which the assistant offers its defaults; the answers are in cmd.
View(p) ==
  /\ pc[p] = "view"
  /\ IF ~ Loads(DocumentOrStarter(file)) THEN End(p)
     ELSE /\ view' = [view EXCEPT ![p] =
                [exists |-> file # None, config |-> Config(DocumentOrStarter(file))]]
          /\ Go(p, "prepare") /\ UNCHANGED <<lock, cmd, preview, approved>>
  /\ UNCHANGED <<file, bounds>>

\* Mutant: what changed between the first question and the preview is not seen.
ViewIsCurrentAlways(p) == TRUE

\* The end of collect_preview: the assistant's defaults are still what is saved.
ViewIsCurrent(p) ==
  cmd[p].kind = "setup" =>
    view[p] = [exists |-> file # None, config |-> Config(DocumentOrStarter(file))]

\* prepare: a second read, the edit, and the checks of both texts.
Prepare(p) ==
  /\ pc[p] = "prepare"
  /\ LET v == IF view[p] = None THEN None ELSE view[p].config
         asked == IF v = None THEN [urls |-> <<>>, safe |-> <<>>] ELSE v
         candidate == Render(DocumentOrStarter(file), cmd[p], asked)
     IN IF Missing(p) \/ candidate = None \/ ~ ViewIsCurrent(p) THEN End(p)
        ELSE /\ preview' = [preview EXCEPT ![p] = [original |-> file, candidate |-> candidate]]
             /\ Go(p, "review") /\ UNCHANGED <<lock, cmd, view, approved>>
  /\ UNCHANGED <<file, bounds>>

\* expands_exemption, over both families whether or not IPv6 is enabled.
Additional(p) ==
  Exempt(preview[p].candidate) \ Exempt(DocumentOrStarter(preview[p].original))

Changed(p) == preview[p].original # preview[p].candidate

\* The operator agrees or declines, --yes agrees, and without a terminal an
\* expansion is an error; an edit that changes nothing ends here.
Review(p) ==
  /\ pc[p] = "review"
  /\ \/ /\ Changed(p)
        /\ approved' = [approved EXCEPT ![p] = Additional(p)]
        /\ Go(p, "lock") /\ UNCHANGED <<lock, cmd, view, preview>>
     \/ /\ Changed(p) => cmd[p].kind = "setup" \/ Additional(p) # {}
        /\ End(p)
  /\ UNCHANGED <<file, bounds>>

Acquire(p) ==
  /\ pc[p] = "lock"
  /\ IF lock # None THEN End(p)
     ELSE lock' = p /\ Go(p, "check") /\ UNCHANGED <<cmd, view, preview, approved>>
  /\ UNCHANGED <<file, bounds>>

\* Mutant: a file that exists is the reviewed one.
UnchangedIfExists(p) == (file = None) = (preview[p].original = None)

\* apply: the exact text of the file is that of the reviewed revision.
StillReviewed(p) == file = preview[p].original

\* apply's second read.
Check(p) ==
  /\ pc[p] = "check" /\ cmd[p].kind # "asn"
  /\ IF ~ StillReviewed(p) THEN End(p)
     ELSE Go(p, "write") /\ UNCHANGED <<lock, cmd, view, preview, approved>>
  /\ UNCHANGED <<file, bounds>>

\* execute_ban_asn and execute_unban_asn load the configuration under the lock;
\* a ban then asks bgpq4 for the prefixes of every ASN, which takes its time.
LoadForAsn(p) ==
  /\ pc[p] = "check" /\ cmd[p].kind = "asn"
  /\ IF file = None \/ ~ Loads(DocumentOrStarter(file)) THEN End(p)
     ELSE Go(p, "update") /\ UNCHANGED <<lock, cmd, view, preview, approved>>
  /\ UNCHANGED <<file, bounds>>

\* update_asn_bans reads the file again, as it is by now, and edits it whether or
\* not from_toml_str would accept it.
ReadAsnList(p) ==
  /\ pc[p] = "update"
  /\ LET f == DocumentOrStarter(file)
     IN IF file = None \/ Size(f) > SizeLimit \/ ~ HasAsnList(f) THEN End(p)
        ELSE /\ preview' = [preview EXCEPT ![p] =
                  [original |-> file, candidate |-> UpdateAsnBans(file, cmd[p])]]
             /\ Go(p, "write") /\ UNCHANGED <<lock, cmd, view, approved>>
  /\ UNCHANGED <<file, bounds>>

\* An exclusive create for a new file, an atomic replacement otherwise; a write
\* may fail before the rename, or after it when the directory cannot be synced.
Write(p) ==
  /\ pc[p] = "write"
  /\ LET accepted == /\ Size(preview[p].candidate) <= SizeLimit
                     /\ preview[p].original = None => file = None
     IN \/ accepted /\ file' = preview[p].candidate /\ UNCHANGED faults
        \/ ~ accepted /\ UNCHANGED <<file, faults>>
        \/ accepted /\ faults < MaxFaults /\ faults' = faults + 1
           /\ file' \in {file, preview[p].candidate}
  /\ UNCHANGED runs
  /\ End(p)

\* A cancellation or a kill before the write, an ASN that bgpq4 cannot resolve, or
\* an ASN command that only concerns the temporary bans.
Stop(p) ==
  /\ pc[p] # "idle"
  /\ End(p)
  /\ UNCHANGED <<file, bounds>>

\* `kidobo init` creates what is missing, exclusively and without the lock.
ProvisionFile ==
  /\ file = None
  /\ file' = Starter
  /\ UNCHANGED <<lock, pc, cmd, view, preview, approved, bounds>>

\* The operator's own editor knows no lock.  It saves at any moment but between
\* the last read of a command and its write, which nothing could detect.
EditByHand ==
  /\ \A p \in Procs : pc[p] # "write"
  /\ file' \in Files
  /\ UNCHANGED <<lock, pc, cmd, view, preview, approved, bounds>>

Step(p) ==
  \/ View(p) \/ Prepare(p) \/ Review(p) \/ Acquire(p) \/ Check(p)
  \/ LoadForAsn(p) \/ ReadAsnList(p) \/ Write(p) \/ Stop(p)

Next ==
  \/ \E p \in Procs : Step(p) \/ \E c \in Commands : Start(p, c)
  \/ ProvisionFile \/ EditByHand

Spec == Init /\ [][Next]_vars

-----------------------------------------------------------------------------
TypeOK ==
  /\ file = None \/ file.explicit \subseteq Keys
  /\ lock \in Procs \cup {None}
  /\ pc \in [Procs -> Pcs]
  /\ cmd \in [Procs -> Commands \cup {None}]
  /\ \A p \in Procs : pc[p] \in {"check", "update", "write"} <=> lock = p
  /\ \A p \in Procs : approved[p] # {} => Exempt(preview[p].candidate) # {}
  /\ runs \in 0 .. MaxRuns /\ faults \in 0 .. MaxFaults

\* The step in which p saves.
Saves(p) == pc[p] = "write" /\ pc'[p] = "idle" /\ file' # file

(***************************************************************************)
(* No address becomes exempt from the blocklist behind the operator's      *)
(* back: what a command adds to the exemptions of the file that it         *)
(* replaces was shown to its operator as an expansion and agreed to, in    *)
(* spite of every other editor between the preview and the write.          *)
(***************************************************************************)
ExemptionsAreApproved ==
  [][\A p \in Procs : Saves(p) =>
       Exempt(file') \ Exempt(DocumentOrStarter(file)) \subseteq approved[p]]_vars

\* The settings a command is about.
Named(c) ==
  CASE c.kind \in {"add_source", "remove_source"} -> {"remote.urls"}
    [] c.kind \in {"add_allow", "remove_allow"} -> {"safe.ips"}
    [] c.kind = "asn" -> {"asn.banned", "asn.cache_stale_after_secs"}
    [] c.kind = "setup" -> {"ipset.enable_ipv6", "safe.include_github_meta", "remote.urls", "safe.ips"}

(***************************************************************************)
(* A command keeps the rest of the file, as it is when it is replaced: no  *)
(* feed but the one named goes or changes its spelling, which is the key   *)
(* of its cache; no exemption goes but the one named; the setup assistant  *)
(* only adds, although it hands over whole lists that it collected         *)
(* earlier; other settings keep value and origin.  A reviewed edit saves   *)
(* what can be read back.  An ASN command does not promise that: it loads  *)
(* and validates the file, but edits and saves what it reads after bgpq4   *)
(* has answered, and a field that an editor made invalid in between is     *)
(* saved as it is; it makes no valid file invalid.                         *)
(***************************************************************************)
KeepsTheRest ==
  /\ []TypeOK
  /\ [][\A p \in Procs : Saves(p) =>
       LET c == cmd[p]
           old == DocumentOrStarter(file)
       IN /\ \A key \in Keys \ Named(c) : SettingOrigin(file', key) = SettingOrigin(old, key)
          /\ \A u \in ToSet(old.urls) \ ToSet(file'.urls) :
               c.kind = "remove_source" /\ u.id = c.url.id
          /\ \A r \in Ranges(old.safe) \ Ranges(file'.safe) :
               c.kind = "remove_allow" /\ r = c.range
          /\ \A e \in ToSet(file'.safe) \ ToSet(old.safe) : e.range \notin Ranges(old.safe)
          /\ c.kind # "asn" => file'.asns = old.asns
          /\ c.kind # "setup" => file'.ipv6 = old.ipv6 /\ file'.github = old.github
          /\ file'.name = old.name /\ file'.name6 = old.name6
          /\ c.kind # "asn" \/ Valid(old) => Valid(file')
          /\ file'.broken = old.broken /\ Size(file') <= SizeLimit]_vars
=============================================================================
