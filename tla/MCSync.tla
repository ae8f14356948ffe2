------------------------------- MODULE MCSync -------------------------------
(***************************************************************************)
(* TLC instance of Sync and Preview: the providers of the real registry in *)
(* its order, without the ASN bans, which have the role and policy of the  *)
(* local blocklist and which AsnCache compares.  A behaviour is either of  *)
(* syncs alone, whose providers come up with anything on offer, or of      *)
(* syncs beside previews and edits, whose uncached providers read what is  *)
(* saved.  The offers let the feed fill IPv4, the external safelist empty  *)
(* it or not, and the operator's safelist carve it.                        *)
(***************************************************************************)
EXTENDS Preview

MCRegistry == <<
  [id |-> "local-blocklist", role |-> "candidate", policy |-> "required", cached |-> FALSE],
  [id |-> "temporary-blocklist", role |-> "candidate", policy |-> "required", cached |-> FALSE],
  [id |-> "remote-feeds", role |-> "candidate", policy |-> "bestEffort", cached |-> TRUE],
  [id |-> "config-safelist", role |-> "safelist", policy |-> "required", cached |-> FALSE],
  [id |-> "github-metadata", role |-> "external", policy |-> "bestEffort", cached |-> TRUE]>>

V4(halves) == {"ipv4"} \X halves
V6(halves) == {"ipv6"} \X halves

Sources == {MCRegistry[i].id : i \in DOMAIN MCRegistry}

MCOffers ==
  [id \in Sources |->
     CASE id = "local-blocklist" -> {V4({0}) \cup V6({0, 1})}
       [] id = "temporary-blocklist" -> {{}}
       [] id = "remote-feeds" -> {V4({1}) \cup V6({1})}
       [] id = "config-safelist" -> {V6({1})}
       [] id = "github-metadata" -> {V4({1}), V4({0, 1}) \cup V6({0})}]

\* With and without IPv6, with room for one entry, which the feed can exceed, or two.
MCConfigs ==
  {[ipv6 |-> TRUE, maxelem |-> 2, safe |-> V4({0})], [ipv6 |-> FALSE, maxelem |-> 1, safe |-> {}]}
MCLists == {{}, V4({0}) \cup V6({0})}

\* Nothing of the feed and two generations of GitHub.
MCCaches ==
  {[id \in Sources |-> IF id = "github-metadata" THEN <<V4({0, 1}), V4({1})>> ELSE <<>>]}

-----------------------------------------------------------------------------
beside == <<saved, lockFile, lock, child, view, predicted, promised, changes>>

Alone ==
  /\ saved = None /\ lockFile = FALSE /\ lock = {} /\ child = FALSE
  /\ view = Idle /\ predicted = None /\ promised = None /\ changes = 0

\* The bans that are saved at the start are all local or all temporary.
MCInit == (Init /\ Alone) \/ (InitPreview /\ (saved.local = {} <=> saved.temporary # {}))

MCNext ==
  \/ saved = None /\ Next /\ UNCHANGED beside
  \/ saved # None /\ NextPreview

MCSpec == MCInit /\ [][MCNext]_allVars
=============================================================================
