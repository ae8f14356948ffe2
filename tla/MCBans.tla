------------------------------ MODULE MCBans ------------------------------
(***************************************************************************)
(* TLC instance of Bans: the CIDRs of a two-address space, one autonomous  *)
(* system that announces the wider one, and commands that meet on them.    *)
(* In the behaviours with a query (module Lookup) two commands run without *)
(* faults, and a feed with wider CIDRs is cached or not.                   *)
(***************************************************************************)
EXTENDS Lookup, TLC

CONSTANT as1

N0 == {0}
N1 == {1}
N01 == {0, 1}
MCNets == {N0, N1, N01}
MCPrefixes == (as1 :> {N01})

NoTemp == [ips |-> [n \in MCNets |-> 0], asns |-> (as1 :> 0)]

\* Nothing yet; and a host with permanent, temporary, expired and ASN bans.
MCStores ==
  {[list |-> {}, temp |-> NoTemp, config |-> [asns |-> {}, other |-> FALSE],
    kernel |-> {}],
   [list |-> {N0, N1},
    temp |-> [ips |-> (N0 :> 2 @@ N1 :> 0 @@ N01 :> 1), asns |-> (as1 :> 2)],
    config |-> [asns |-> {as1}, other |-> FALSE], kernel |-> N01]}

Ban(n, h) == [kind |-> "ban", net |-> n, hours |-> h, partial |-> FALSE]
Unban(n, b) == [kind |-> "unban", net |-> n, hours |-> 0, partial |-> b]
Asn(k, h) == [kind |-> k, asn |-> as1, hours |-> h]

MCCommands ==
  {Ban(N0, 1), Ban(N01, 0), Unban(N0, TRUE), Unban(N01, FALSE),
   Asn("ban_asn", 0), Asn("ban_asn", 1), Asn("unban_asn", 0),
   [kind |-> "edit"], [kind |-> "sync"]}

-----------------------------------------------------------------------------
Wide == {0, 1, 2, 3}
MCFeeds == {{Wide, N1}, {{2}}}
MCTargets == {N1, {2}, N01}

MCRequests ==
  {[kind |-> "lookup"], [kind |-> "bans", lifetime |-> "All", asn_only |-> FALSE],
   [kind |-> "bans", lifetime |-> "Temporary", asn_only |-> TRUE]}

\* The commands that run beside a query, in pairs.
Sync == [kind |-> "sync"]
Beside ==
  {{Sync}, {Sync, Asn("unban_asn", 0)}, {Sync, Ban(N0, 1)}, {Asn("ban_asn", 0), Unban(N01, FALSE)}}

\* A pair that needs an ASN without a cache: it is unbanned, and banned again.
Again == {Asn("unban_asn", 0), Asn("ban_asn", 1)}

Processes == Permutations(Procs)

VARIABLES asked  \* whether the behaviour has a query

MCInit ==
  \/ asked = FALSE /\ Init /\ reader = NoQuery /\ history = Nothing
     /\ caches = [asn |-> [a \in Asns |-> None], remote |-> <<>>, legacy |-> None, promoters |-> {}]
  \/ /\ asked = TRUE /\ LookupInit
     /\ store.list # {}
     /\ \/ {cmd[p] : p \in Procs} \in Beside /\ caches.asn = MCPrefixes
        \/ {cmd[p] : p \in Procs} = Again /\ caches.asn = [a \in Asns |-> None]
     /\ caches.remote \in {<<>>, <<{{2}}>>}
     /\ caches.legacy = {Wide, N1}

MCNext ==
  \/ ~ asked /\ Next /\ UNCHANGED <<asked, caches, reader, history>>
  \/ /\ asked /\ LookupNext /\ UNCHANGED <<asked, faults>> /\ now' >= now
     /\ reader.pc = "ready" => reader' # reader

MCSpec == MCInit /\ [][MCNext]_<<asked, lookupVars>>
=============================================================================
