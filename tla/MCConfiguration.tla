--------------------------- MODULE MCConfiguration --------------------------
(***************************************************************************)
(* TLC instance of Configuration and of Setup, which goes on where an      *)
(* edit of the setup assistant ends.  A behaviour is one of either, chosen *)
(* in the beginning, and the variables of the other keep one value.        *)
(***************************************************************************)
EXTENDS Configuration, TLC

CONSTANTS MaxEdits

VARIABLES
  about,  \* "file" or "host"
  host, step, job, staged, result, started, failed, edits

-----------------------------------------------------------------------------
(***************************************************************************)
(* Hosts without a configuration, with the starter, with one whose IPv6    *)
(* set name would be too long, with one that has a feed and an exemption   *)
(* each written twice, with the same and a field out of range, and with a  *)
(* malformed one.                                                          *)
(***************************************************************************)

Editors == Permutations(Procs)

Url(id, form) == [id |-> id, form |-> form]
Range0(range, canonical) == [range |-> range, canonical |-> canonical]

MCStarter ==
  [name |-> "kidobo", name6 |-> "", ipv6 |-> TRUE, github |-> TRUE, urls |-> <<>>, safe |-> <<>>,
   asns |-> <<>>, broken |-> "no",
   explicit |-> {"safe.ips", "safe.include_github_meta", "remote.urls", "asn.banned",
                 "asn.cache_stale_after_secs"}]

LongNamed ==
  [MCStarter EXCEPT !.name = "long", !.ipv6 = FALSE, !.urls = <<Url("a", "other")>>,
                    !.safe = <<Range0({1}, FALSE)>>, !.explicit = {"ipset.enable_ipv6", "remote.urls"}]

Repetitive ==
  [MCStarter EXCEPT !.urls = <<Url("a", "plain"), Url("a", "other")>>, !.asns = <<1, 1>>,
                    !.safe = <<Range0({1}, FALSE), Range0({1}, TRUE), Range0({1, 2}, TRUE)>>]

Malformed == [MCStarter EXCEPT !.broken = "text"]

OutOfRange == [Repetitive EXCEPT !.broken = "field"]

MCFiles == {None, MCStarter, LongNamed, Repetitive, Malformed, OutOfRange}

MCCommands ==
  {[kind |-> "add_source", url |-> Url("b", "plain")],
   [kind |-> "remove_source", url |-> Url("a", "plain")],
   [kind |-> "add_allow", range |-> {2}],
   [kind |-> "remove_allow", range |-> {1}],
   [kind |-> "asn", add |-> {1}, remove |-> {}],
   [kind |-> "setup", ipv6 |-> TRUE, github |-> TRUE, urls |-> <<Url("b", "other")>>,
    ranges |-> {{1, 2}}],
   [kind |-> "setup", ipv6 |-> FALSE, github |-> FALSE, urls |-> <<>>, ranges |-> {}]}

-----------------------------------------------------------------------------
(***************************************************************************)
(* A complete host, an alternate root, one without bgpq4, one that needs   *)
(* no ip6tables, one without sudo, one without an installed executable and *)
(* one whose cache path cannot be written to.                              *)
(***************************************************************************)
Complete == [override |-> FALSE, executable |-> TRUE, sudo |-> TRUE, cache |-> TRUE, ipv6 |-> TRUE,
             tools |-> {"sudo", "bgpq4", "ipset", "iptables", "ip6tables"}]

MCHosts ==
  {Complete, [Complete EXCEPT !.override = TRUE], [Complete EXCEPT !.tools = @ \ {"bgpq4"}],
   [Complete EXCEPT !.tools = @ \ {"ip6tables"}, !.ipv6 = FALSE],
   [Complete EXCEPT !.sudo = FALSE], [Complete EXCEPT !.executable = FALSE],
   [Complete EXCEPT !.cache = FALSE]}

Install == INSTANCE Setup WITH
  Hosts <- MCHosts, MaxRuns <- 2, pc <- step, cmd <- job, runs <- started, faults <- failed

installVars == <<host, step, job, staged, result, started, failed, edits>>

NoInstall ==
  /\ host = None /\ step = [p \in Procs |-> <<"idle", 0>>]
  /\ job = None /\ staged = None /\ result = None
  /\ started = 0 /\ failed = 0 /\ edits = 0

NoEdits ==
  /\ file = None /\ lock = None /\ runs = 0 /\ faults = 0
  /\ pc = [p \in Procs |-> "idle"] /\ cmd = [p \in Procs |-> None]
  /\ view = cmd /\ preview = cmd /\ approved = [p \in Procs |-> {}]

MCInit ==
  \/ about = "file" /\ Init /\ NoInstall
  \/ about = "host" /\ Install!Init /\ NoEdits

MCNext ==
  \/ about = "file" /\ Next /\ UNCHANGED <<about, installVars>>
  \/ about = "host" /\ Install!Next /\ UNCHANGED <<about, vars>>

MCSpec == MCInit /\ [][MCNext]_<<about, vars, installVars>>

-----------------------------------------------------------------------------
\* Unlocked provisioning overwrites nothing, and success means a whole host.
InstallIsSafe == Install!InstallIsSafe
=============================================================================
