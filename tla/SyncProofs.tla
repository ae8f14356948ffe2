----------------------------- MODULE SyncProofs -----------------------------
(***************************************************************************)
(* The properties of Sync and Preview for any registry of providers, any   *)
(* offers, any maxelem and any number of faults, saves and kills.  Sync's  *)
(* rest on three invariants, proved one after the other: Types, Staging    *)
(* and Progress; Preview's on PreviewInv (its lock) and Foresight (what a  *)
(* preview read is what the sync after it loads).                          *)
(***************************************************************************)
EXTENDS Preview, TLAPS, FiniteSetTheorems, SequenceTheorems, WellFoundedInduction

FamilyStates == [present : BOOLEAN, entries : Batches, wired : BOOLEAN]
LoadSet == [nets : Batches, fallback : SUBSET Batches, staged : BOOLEAN, failure : BOOLEAN]
Generations == {c \in Seq(Batches) : Len(c) <= 2}
Waiting == [id : Ids, load : LoadSet]

(***************************************************************************)
(* Types of every variable, the ones TypeOK leaves to the other            *)
(* properties included.                                                    *)
(***************************************************************************)
Types ==
  /\ kernel \in [Families -> FamilyStates] /\ start \in [Families -> FamilyStates]
  /\ cache \in [Ids -> Generations]
  /\ pc \in {"idle", "artifacts", "load", "admit", "promote", "apply6", "apply4",
             "activate", "cleanup"}
  /\ config \in [ipv6 : BOOLEAN, maxelem : MaxElems \cup {0}]
  /\ cancelled \in BOOLEAN /\ disturbed \in BOOLEAN
  /\ loaded \in 0 .. Len(Registry)
  /\ candidates \in Batches /\ safelist \in Batches /\ baseline \in Batches
  /\ external \in Seq(Waiting)
  /\ pending \in Seq(Ids \X Batches)
  /\ fresh \in [Ids -> {<<>>} \cup {<<b>> : b \in Batches}]
  /\ result \in {"none", "ok", "failed", "cancelled", "killed"}
  /\ faults \in 0 .. MaxFaults

\* The batch that was staged last for a provider is the current generation of
\* its cache.
Cached(p) == cache[p] # <<>> /\ cache[p][1] = fresh[p][1]

(***************************************************************************)
(* Staged batches.  A provider is loaded once, so at most one batch of it  *)
(* waits for admission or for promotion, and what fresh says it is; an     *)
(* external one that waits for promotion was admitted.  While a sync runs, *)
(* an admitted fresh batch is cached or still waits for it.                *)
(***************************************************************************)
NotLoaded ==
  \A j \in DOMAIN Registry : j > loaded => fresh[Registry[j].id] = <<>>

WaitsOnce ==
  \A k \in DOMAIN external :
    /\ fresh[external[k].id] = <<>>
    /\ \E j \in 1 .. loaded : Registry[j].id = external[k].id
    /\ \A b, c \in external[k].load.fallback : b = c
    /\ \A l \in DOMAIN external : external[l].id = external[k].id => l = k

PendingIsFresh ==
  \A k \in DOMAIN pending : fresh[pending[k][1]] = <<pending[k][2]>>

PendingIsAdmitted ==
  \A k \in DOMAIN pending, i \in DOMAIN Registry :
    Registry[i].id = pending[k][1] /\ Registry[i].role = "external" =>
      pending[k][2] \subseteq safelist

FreshIsKept ==
  \A p \in Ids : fresh[p] # <<>> => Cached(p) \/ \E k \in DOMAIN pending : pending[k][1] = p

Staging ==
  /\ NotLoaded
  /\ WaitsOnce
  /\ PendingIsFresh
  /\ PendingIsAdmitted
  /\ pc # "idle" => FreshIsKept
  /\ pc \in {"apply6", "apply4"} => pending = <<>>

\* The set of a family holds what the sync computed.
Replaced(f) ==
  kernel[f].present /\ kernel[f].entries = Of(f, Effective(candidates, safelist))

\* No external safelist has emptied a family.
Preserved ==
  \A f \in Enabled : Of(f, baseline) # {} => Of(f, Effective(candidates, safelist)) # {}

(***************************************************************************)
(* How far enforcement has come at each step: nothing is touched before    *)
(* both families fit, and then one after the other is replaced.            *)
(***************************************************************************)
Progress ==
  /\ \A f \in Families : kernel[f].wired => kernel[f].present
  /\ pc \in {"artifacts", "load", "admit", "promote", "apply6"} => Untouched
  /\ pc = "apply4" /\ ~ config.ipv6 => Untouched
  /\ pc = "apply6" => config.ipv6
  /\ pc \in {"promote", "apply6", "apply4"} =>
       WithinCapacity(Effective(candidates, safelist), config.ipv6, config.maxelem)
  /\ pc \in {"admit", "promote", "apply6", "apply4", "activate", "cleanup"} => Preserved
  /\ pc = "apply4" /\ config.ipv6 => Replaced("ipv6")
  /\ pc = "activate" => \A f \in Enabled : Replaced(f)
  /\ pc = "cleanup" => ~ config.ipv6 /\ Replaced("ipv4") /\ kernel["ipv4"].wired
  /\ Ended("cancelled") \/ (Ended("failed") /\ ~ disturbed) => Untouched
  /\ OkEnforces

(***************************************************************************)
(* A step of a sync whose provider comes up with one of loads, alone (Sync) *)
(* or beside previews (Preview), and whatever else may happen to its state. *)
(***************************************************************************)
StepFrom(loads) ==
  /\ \/ EnsureArtifacts \/ LoadSourceFrom(loads) \/ BeginAdmission \/ AdmitExternal
     \/ CheckCapacity \/ Promote \/ BeginEnforcement \/ ApplyIpv6 \/ ApplyIpv4 \/ Activate
     \/ CleanupDisabledIpv6
  /\ UNCHANGED <<config, cancelled, start>>

NextFrom(loads) ==
  Begin \/ Interrupt \/ StepFrom(loads) \/ Kill \/ Reboot \/ Flush \/ UNCHANGED vars

\* Loads have their type and one fallback at most.
WellFormed(loads) == \A l \in loads : l \in LoadSet /\ \A b, c \in l.fallback : b = c

-----------------------------------------------------------------------------
(***************************************************************************)
(* Facts about the operators.                                              *)
(***************************************************************************)
\* A provider of the registry: its id, its role and what it may come up with.
LEMMA ProviderFacts ==
  ASSUME NEW j \in DOMAIN Registry
  PROVE  /\ Registry[j].id \in Ids
         /\ Registry[j].cached \in BOOLEAN
         /\ Offers[Registry[j].id] \subseteq Batches
         /\ \A i \in DOMAIN Registry : Registry[i].id = Registry[j].id => i = j
BY RegistryAssumption DEF Ids, Batches

\* The registry is a sequence, so that load_sources goes through its indices.
LEMMA RegistryLength ==
  Len(Registry) \in Nat /\ DOMAIN Registry = 1 .. Len(Registry)
BY RegistryAssumption

\* The lists a sync computes are lists of networks, and finite.
LEMMA EffectiveFinite ==
  ASSUME NEW c \in Batches, NEW s \in Batches, NEW v6 \in BOOLEAN, NEW f \in Families
  PROVE  /\ EffectiveLists(c, s, v6) \in Batches
         /\ Of(f, EffectiveLists(c, s, v6)) \in Batches
         /\ IsFiniteSet(Of(f, EffectiveLists(c, s, v6)))
<1>1. IsFiniteSet(Nets)
  <2>1. \A x, y : IsFiniteSet({x, y})
    <3> SUFFICES ASSUME NEW x, NEW y PROVE IsFiniteSet({x, y})
      OBVIOUS
    <3>1. IsFiniteSet({} \cup {x})
      BY FS_EmptySet, FS_AddElement
    <3>2. IsFiniteSet(({} \cup {x}) \cup {y})
      BY <3>1, FS_AddElement
    <3>3. ({} \cup {x}) \cup {y} = {x, y}
      OBVIOUS
    <3> QED
      BY <3>2, <3>3
  <2> QED
    BY <2>1, FS_Product DEF Nets, Families
<1>2. EffectiveLists(c, s, v6) \in Batches /\ Of(f, EffectiveLists(c, s, v6)) \in Batches
  BY DEF EffectiveLists, Of, Batches
<1> QED
  BY <1>1, <1>2, FS_Subset DEF Batches

\* The entries that are counted against maxelem are the networks that replace_set
\* counts: a family that is full is two /1 in both (prepare_enforcement_entries).
LEMMA EntriesCount ==
  ASSUME NEW nets, NEW f, IsFiniteSet(Of(f, nets))
  PROVE  Entries(f, nets) = Cardinality(Of(f, nets))
<1>1. Cardinality(Of(f, nets)) \in Nat
  BY FS_CardinalityType
<1> QED
  BY <1>1 DEF Entries, Networks

\* What a provider may come up with is well-formed, and has one fallback at most.
LEMMA LoadsTyped ==
  ASSUME Types, NEW j \in DOMAIN Registry,
         NEW l \in Loads(Registry[j]) \cup NothingToLoad(Registry[j])
                     \cup StagingFailure(Registry[j])
  PROVE  l \in LoadSet /\ \A b, c \in l.fallback : b = c
<1> DEFINE id == Registry[j].id
<1>1. id \in Ids /\ Offers[id] \subseteq Batches /\ {} \in Batches
  BY ProviderFacts DEF Batches
<1>2. cache[id] \in Seq(Batches) /\ Len(cache[id]) \in Nat /\ DOMAIN cache[id] = 1 .. Len(cache[id])
  BY <1>1 DEF Types, Generations
<1>3. \A i \in 1 .. Len(cache[id]) : cache[id][i] \in Batches
  BY <1>2
<1>4. Current(id) \in Batches
  BY <1>1, <1>2, <1>3 DEF Current
<1>5. Previous(id) \in SUBSET Batches /\ \A b, c \in Previous(id) : b = c
  BY <1>1, <1>2, <1>3 DEF Previous
<1> DEFINE kept == {cache[id][i] : i \in DOMAIN cache[id] \cap {1}}
<1>6. kept \in SUBSET Batches /\ \A b, c \in kept : b = c
  BY <1>2, <1>3
<1>7. l \in {Load(b, {}, FALSE, FALSE) : b \in Offers[id]}
      \/ l \in {Load(b, kept, TRUE, FALSE) : b \in Offers[id]}
      \/ l = Load(Current(id), Previous(id), FALSE, FALSE)
      \/ l = Load({}, {}, FALSE, FALSE)
      \/ l = Load(Current(id), Previous(id), FALSE, TRUE)
  BY DEF Loads, LocalLoads, CachedLoads, NothingToLoad, StagingFailure
<1>8. ASSUME NEW nets \in Batches, NEW F \in SUBSET Batches, \A b, c \in F : b = c,
             NEW staged \in BOOLEAN, NEW failure \in BOOLEAN,
             l = Load(nets, F, staged, failure)
      PROVE  l \in LoadSet /\ \A b, c \in l.fallback : b = c
  BY <1>8 DEF Load, LoadSet
<1>9. CASE l \in {Load(b, {}, FALSE, FALSE) : b \in Offers[id]}
  <2>1. PICK b \in Offers[id] : l = Load(b, {}, FALSE, FALSE)
    BY <1>9
  <2> QED
    BY <1>1, <1>8, <2>1
<1>10. CASE l \in {Load(b, kept, TRUE, FALSE) : b \in Offers[id]}
  <2>1. PICK b \in Offers[id] : l = Load(b, kept, TRUE, FALSE)
    BY <1>10
  <2> HIDE DEF kept
  <2> QED
    BY <1>1, <1>6, <1>8, <2>1
<1>11. CASE l = Load(Current(id), Previous(id), FALSE, FALSE)
  BY <1>4, <1>5, <1>8, <1>11
<1>12. CASE l = Load({}, {}, FALSE, FALSE)
  BY <1>1, <1>8, <1>12
<1>13. CASE l = Load(Current(id), Previous(id), FALSE, TRUE)
  BY <1>4, <1>5, <1>8, <1>13
<1> QED
  BY <1>7, <1>9, <1>10, <1>11, <1>12, <1>13

\* A step of Sync is one from such loads.
LEMMA StepsOfSync ==
  ASSUME Types, [Next]_vars
  PROVE  \E loads : NextFrom(loads) /\ (loaded < Len(Registry) => WellFormed(loads))
<1> DEFINE p == Registry[loaded + 1]
           offered == Loads(p) \cup NothingToLoad(p)
<1>1. loaded < Len(Registry) => WellFormed(offered)
  <2> SUFFICES ASSUME loaded < Len(Registry) PROVE WellFormed(offered)
    OBVIOUS
  <2>1. loaded + 1 \in DOMAIN Registry
    BY RegistryLength DEF Types
  <2> QED
    BY <2>1, LoadsTyped DEF WellFormed
<1>2. NextFrom(offered)
  BY DEF Next, Step, LoadSource, NextFrom, StepFrom
<1> QED
  BY <1>1, <1>2

-----------------------------------------------------------------------------
(***************************************************************************)
(* Types.                                                                  *)
(***************************************************************************)
LEMMA TypesInit == InitSync /\ cache \in [Ids -> Generations] => Types
<1> SUFFICES ASSUME InitSync, cache \in [Ids -> Generations] PROVE Types
  OBVIOUS
<1>1. NoFamily \in FamilyStates /\ {} \in Batches
  BY DEF NoFamily, FamilyStates, Batches
<1>2. <<>> \in Seq(Waiting) /\ <<>> \in Seq(Ids \X Batches)
  BY EmptySeq
<1>3. fresh \in [Ids -> {<<>>} \cup {<<b>> : b \in Batches}]
  BY DEF InitSync
<1>4. kernel \in [Families -> FamilyStates] /\ start \in [Families -> FamilyStates]
  BY <1>1 DEF InitSync
<1>5. 0 \in 0 .. MaxFaults /\ 0 \in 0 .. Len(Registry)
  BY SyncBoundAssumption, RegistryLength
<1> QED
  BY <1>1, <1>2, <1>3, <1>4, <1>5 DEF InitSync, Types

\* The number of faults stays within its bound.
LEMMA FaultTyped ==
  ASSUME Types, NoFault \/ Fault
  PROVE  disturbed' \in BOOLEAN /\ faults' \in 0 .. MaxFaults
<1>1. MaxFaults \in Nat /\ faults \in 0 .. MaxFaults /\ disturbed \in BOOLEAN
  BY SyncBoundAssumption DEF Types
<1>2. CASE NoFault
  BY <1>1, <1>2 DEF NoFault
<1>3. CASE Fault
  BY <1>1, <1>3 DEF Fault
<1> QED
  BY <1>2, <1>3

\* Loading one provider: what it comes up with goes where its role says.
LEMMA TypesLoad ==
  ASSUME Types, UNCHANGED <<config, cancelled, start>>,
         NEW loads, LoadSourceFrom(loads), loaded < Len(Registry) => WellFormed(loads)
  PROVE  Types'
<1>1. loaded \in Nat /\ loaded < Len(Registry) /\ loaded + 1 \in DOMAIN Registry
  BY RegistryLength DEF LoadSourceFrom, Types
<1> DEFINE p == Registry[loaded + 1]
           sources == loads \cup StagingFailure(p)
<1>2. p.id \in Ids
  BY <1>1, ProviderFacts
<1>3. ASSUME NEW l \in sources, Accept(p, l), Go("load"), loaded' = loaded + 1,
             UNCHANGED <<kernel, cache>>, NoFault \/ Fault
      PROVE  Types'
  <2>1. l \in LoadSet
    BY <1>1, <1>3, LoadsTyped DEF WellFormed
  <2>2. l.nets \in Batches /\ [id |-> p.id, load |-> l] \in Waiting
    BY <1>2, <2>1 DEF LoadSet, Waiting
  <2>3. candidates' \in Batches /\ safelist' \in Batches
    BY <1>3, <2>2 DEF Accept, Types, Batches
  <2>4. external' \in Seq(Waiting)
    BY <1>3, <2>2 DEF Accept, Types
  <2>5. pending' \in Seq(Ids \X Batches)
    <3>1. <<p.id, l.nets>> \in Ids \X Batches
      BY <1>2, <2>2
    <3>2. pending' = pending \/ pending' = Append(pending, <<p.id, l.nets>>)
      BY <1>3 DEF Accept
    <3>3. pending \in Seq(Ids \X Batches)
      BY DEF Types
    <3> HIDE DEF p
    <3> QED
      BY <3>1, <3>2, <3>3
  <2>6. fresh' \in [Ids -> {<<>>} \cup {<<b>> : b \in Batches}]
    BY <1>2, <1>3, <2>2 DEF Accept, Types
  <2>7. loaded' \in 0 .. Len(Registry)
    BY <1>1, <1>3, RegistryLength
  <2>8. disturbed' \in BOOLEAN /\ faults' \in 0 .. MaxFaults
    BY <1>3, FaultTyped
  <2>9. baseline' = baseline /\ pc' = "load" /\ result' = result
    BY <1>3 DEF Accept, Go
  <2> HIDE DEF p
  <2> QED
    BY <1>3, <2>3, <2>4, <2>5, <2>6, <2>7, <2>8, <2>9 DEF Types
<1>4. CASE Cancelled
  BY <1>4 DEF Cancelled, End, NoFault, inputs, Types
<1>5. CASE ~ cancelled
  <2>1. UNCHANGED <<kernel, cache>> /\ loaded' = loaded + 1
    BY <1>5 DEF LoadSourceFrom, Cancelled
  <2>2. \/ \E l \in sources : Accept(p, l) /\ Go("load") /\ (NoFault \/ Fault)
        \/ Fault /\ UNCHANGED inputs /\ (End("failed") \/ Go("load"))
    BY <1>5 DEF LoadSourceFrom, Cancelled
  <2>3. CASE Fault /\ UNCHANGED inputs /\ (End("failed") \/ Go("load"))
    <3>1. loaded' \in 0 .. Len(Registry)
      BY <1>1, <2>1, RegistryLength
    <3> QED
      BY <2>1, <2>3, <3>1, SyncBoundAssumption DEF Fault, End, Go, inputs, Types
  <2> QED
    BY <1>3, <2>1, <2>2, <2>3
<1> QED
  BY <1>4, <1>5 DEF LoadSourceFrom

\* Admitting one external safelist.
LEMMA TypesAdmit ==
  ASSUME Types, AdmitExternal, UNCHANGED <<config, cancelled, start>>
  PROVE  Types'
<1>1. external \in Seq(Waiting) /\ external # <<>>
  BY DEF AdmitExternal, Types
<1> DEFINE id == Head(external).id
           l == Head(external).load
<1>2. id \in Ids /\ l \in LoadSet /\ Tail(external) \in Seq(Waiting)
  <2>1. Head(external) \in Waiting /\ Tail(external) \in Seq(Waiting)
    BY <1>1, HeadTailProperties
  <2> QED
    BY <2>1 DEF Waiting
<1>3. l.nets \in Batches /\ l.fallback \subseteq Batches /\ <<id, l.nets>> \in Ids \X Batches
  BY <1>2 DEF LoadSet
<1>4. safelist' \in Batches
  BY <1>3 DEF AdmitExternal, Types, Batches
<1>5. pending' = pending \/ pending' = Append(pending, <<id, l.nets>>)
  BY DEF AdmitExternal
<1>6. pending' \in Seq(Ids \X Batches)
  <2>1. pending \in Seq(Ids \X Batches)
    BY DEF Types
  <2> DEFINE entry == <<id, l.nets>>
             T == Ids \X Batches
  <2>2. entry \in T /\ (pending' = pending \/ pending' = Append(pending, entry))
    BY <1>3, <1>5
  <2> HIDE DEF id, l, entry, T
  <2>3. pending' \in Seq(T)
    BY <2>1, <2>2 DEF T
  <2> QED
    BY <2>3 DEF T
<1>7. fresh' \in [Ids -> {<<>>} \cup {<<b>> : b \in Batches}]
  BY <1>2, <1>3 DEF AdmitExternal, Types
<1>8. pc' \in {"admit", "idle"} /\ result' \in {result, "failed"} /\ external' = Tail(external)
  BY DEF AdmitExternal, Go, End
<1>9. UNCHANGED <<kernel, cache, loaded, candidates, baseline, faults, disturbed>>
  BY DEF AdmitExternal, NoFault
<1> HIDE DEF id, l
<1> QED
  BY <1>2, <1>4, <1>6, <1>7, <1>8, <1>9 DEF Types

\* Promoting one cache.
LEMMA TypesPromote ==
  ASSUME Types, Promote, UNCHANGED <<config, cancelled, start>>
  PROVE  Types'
<1>1. CASE Cancelled
  BY <1>1 DEF Cancelled, End, NoFault, inputs, Types
<1>2. CASE ~ Cancelled
  <2>1. pending \in Seq(Ids \X Batches) /\ pending # <<>>
    BY DEF Promote, Types
  <2> DEFINE p == Head(pending)[1]
             nets == Head(pending)[2]
  <2>2. p \in Ids /\ nets \in Batches /\ Tail(pending) \in Seq(Ids \X Batches)
    BY <2>1, HeadTailProperties
  <2>3. Promotions(p, nets) \subseteq Generations
    <3>1. cache[p] \in Generations
      BY <2>2 DEF Types
    <3>2. cache[p] # <<>> => cache[p][1] \in Batches
      BY <3>1 DEF Generations
    <3>3. <<nets>> \in Generations
      BY <2>2 DEF Generations
    <3>4. cache[p] # <<>> => <<nets, cache[p][1]>> \in Generations
      BY <2>2, <3>2 DEF Generations
    <3> HIDE DEF p, nets
    <3> QED
      BY <3>1, <3>3, <3>4 DEF Promotions
  <2>4. pending' = Tail(pending) /\ (NoFault \/ Fault)
        /\ pc' \in {"promote", "idle"} /\ result' \in {result, "failed"}
    BY <1>2 DEF Promote, Go, End
  <2>5. UNCHANGED <<kernel, loaded, candidates, safelist, external, baseline, fresh>>
    BY <1>2 DEF Promote
  <2>6. cache' = cache \/ \E c \in Promotions(p, nets) : cache' = [cache EXCEPT ![p] = c]
    BY <1>2 DEF Promote
  <2>7. cache' \in [Ids -> Generations]
    <3> HIDE DEF p, nets
    <3> QED
      BY <2>2, <2>3, <2>6 DEF Types
  <2> HIDE DEF p, nets
  <2> QED
    BY <2>2, <2>4, <2>5, <2>7, FaultTyped DEF Types
<1> QED
  BY <1>1, <1>2

\* Replacing the set of one family.
LEMMA TypesReplace ==
  ASSUME Types, UNCHANGED <<config, cancelled, start>>,
         NEW f \in Families, NEW next \in {"apply4", "activate"}, ReplaceSet(f, next)
  PROVE  Types'
<1>1. Of(f, Effective(candidates, safelist)) \in Batches
  BY EffectiveFinite DEF Effective, Types
<1> DEFINE nets == Of(f, Effective(candidates, safelist))
           replaced == [kernel EXCEPT ![f].entries = nets, ![f].present = TRUE]
<1>2. replaced \in [Families -> FamilyStates]
  BY <1>1 DEF Types, FamilyStates
<1>3. kernel' \in {kernel, replaced} /\ (NoFault \/ Fault)
      /\ pc' \in {next, "idle"} /\ result' \in {result, "failed"}
      /\ UNCHANGED <<cache, loaded, inputs>>
  BY DEF ReplaceSet, End
<1> HIDE DEF nets, replaced
<1> QED
  BY <1>2, <1>3, FaultTyped DEF Types, inputs

\* A family without its set, and what a failed cleanup leaves.
LEMMA RemainsTyped ==
  ASSUME Types
  PROVE  /\ NoFamily \in FamilyStates
         /\ \A f \in Families : Remains(f) \subseteq FamilyStates
         /\ \A some : Wire(some) \in [Families -> FamilyStates]
<1>1. NoFamily \in FamilyStates
  BY DEF NoFamily, FamilyStates, Batches
<1>2. \A f \in Families : kernel[f] \in FamilyStates
  BY DEF Types
<1>3. \A k \in FamilyStates, b \in BOOLEAN : [k EXCEPT !.wired = b] \in FamilyStates
  BY DEF FamilyStates
<1> QED
  BY <1>1, <1>2, <1>3 DEF Remains, Wire

LEMMA TypesFlush ==
  ASSUME Types, Flush
  PROVE  Types'
<1>1. kernel' \in [Families -> FamilyStates]
  BY RemainsTyped DEF Flush, Types, Families
<1>2. cache' \in [Ids -> Generations]
  <2>1. CASE cache' = [p \in Ids |-> <<>>]
    <3>1. <<>> \in Generations
      BY EmptySeq DEF Generations
    <3> QED
      BY <2>1, <3>1
  <2>2. ASSUME NEW kept \in SUBSET {g \in Ids \X {1, 2} : g[2] <= Len(cache[g[1]])},
               cache' = [p \in Ids |-> (IF <<p, 1>> \in kept THEN <<cache[p][1]>> ELSE <<>>)
                                     \o (IF <<p, 2>> \in kept THEN <<cache[p][2]>> ELSE <<>>)]
        PROVE  cache' \in [Ids -> Generations]
    <3> SUFFICES ASSUME NEW p \in Ids
                 PROVE  (IF <<p, 1>> \in kept THEN <<cache[p][1]>> ELSE <<>>)
                          \o (IF <<p, 2>> \in kept THEN <<cache[p][2]>> ELSE <<>>) \in Generations
      BY <2>2
    <3>1. cache[p] \in Seq(Batches) /\ Len(cache[p]) \in Nat
      BY DEF Types, Generations
    <3>2. \A i \in {1, 2} : <<p, i>> \in kept => i <= Len(cache[p])
      BY <2>2
    <3>3. \A i \in {1, 2} : <<p, i>> \in kept => cache[p][i] \in Batches
      BY <3>1, <3>2
    <3> DEFINE first == IF <<p, 1>> \in kept THEN <<cache[p][1]>> ELSE <<>>
               second == IF <<p, 2>> \in kept THEN <<cache[p][2]>> ELSE <<>>
    <3>4. /\ first \in Seq(Batches) /\ Len(first) \in {0, 1}
          /\ second \in Seq(Batches) /\ Len(second) \in {0, 1}
      BY <3>3
    <3> HIDE DEF first, second
    <3>5. first \o second \in Seq(Batches) /\ Len(first \o second) = Len(first) + Len(second)
      BY <3>4, ConcatProperties
    <3> DEFINE both == first \o second
    <3> HIDE DEF both
    <3>6. both \in Seq(Batches) /\ Len(both) <= 2
      <4>1. both \in Seq(Batches) /\ Len(both) = Len(first) + Len(second)
        BY <3>5 DEF both
      <4> QED
        BY <3>4, <4>1
    <3>7. both \in Generations
      BY <3>6 DEF Generations
    <3> QED
      BY <3>7 DEF both, first, second
  <2> QED
    BY <2>1, <2>2 DEF Flush
<1>3. NoFault \/ Fault
  BY DEF Flush
<1>4. UNCHANGED <<pc, config, cancelled, loaded, inputs, start>> /\ result' = "none"
  BY DEF Flush
<1> QED
  BY <1>1, <1>2, <1>3, <1>4, FaultTyped DEF Types, inputs

LEMMA TypesStep ==
  ASSUME Types, NEW loads, NextFrom(loads), loaded < Len(Registry) => WellFormed(loads)
  PROVE  Types'
<1>1. CASE Begin
  <2>1. {} \in Batches /\ <<>> \in Seq(Waiting) /\ <<>> \in Seq(Ids \X Batches)
    BY EmptySeq DEF Batches
  <2>2. fresh' \in [Ids -> {<<>>} \cup {<<b>> : b \in Batches}]
    BY <1>1 DEF Begin
  <2>3. loaded' \in 0 .. Len(Registry)
    BY <1>1, RegistryLength DEF Begin
  <2>4. config' \in [ipv6 : BOOLEAN, maxelem : MaxElems \cup {0}]
    BY <1>1 DEF Begin
  <2> QED
    BY <1>1, <2>1, <2>2, <2>3, <2>4 DEF Begin, Go, Types
<1>2. CASE Interrupt
  BY <1>2 DEF Interrupt, Types, inputs
<1>3. CASE Kill
  BY <1>3, FaultTyped DEF Kill, End, Types, inputs
<1>4. CASE Reboot
  BY <1>4, FaultTyped, RemainsTyped DEF Reboot, End, Types, inputs
<1>5. CASE Flush
  BY <1>5, TypesFlush
<1>6. CASE EnsureArtifacts /\ UNCHANGED <<config, cancelled, start>>
  <2>1. \A k \in FamilyStates : [k EXCEPT !.present = TRUE] \in FamilyStates
    BY DEF FamilyStates
  <2>2. kernel' \in [Families -> FamilyStates]
    BY <1>6, <2>1 DEF EnsureArtifacts, Types
  <2>3. pc' \in {"load", "idle"} /\ result' \in {result, "failed"} /\ (NoFault \/ Fault)
        /\ UNCHANGED <<inputs, cache, loaded>>
    BY <1>6 DEF EnsureArtifacts, Go, End
  <2> QED
    BY <1>6, <2>2, <2>3, FaultTyped DEF Types, inputs
<1>7. CASE LoadSourceFrom(loads) /\ UNCHANGED <<config, cancelled, start>>
  BY <1>7, TypesLoad
<1>8. CASE BeginAdmission /\ UNCHANGED <<config, cancelled, start>>
  <2>1. Effective(candidates, safelist) \in Batches
    BY EffectiveFinite DEF Effective, Types, Families
  <2> QED
    BY <1>8, <2>1 DEF BeginAdmission, Cancelled, End, Go, NoFault, Types, inputs
<1>9. CASE AdmitExternal /\ UNCHANGED <<config, cancelled, start>>
  BY <1>9, TypesAdmit
<1>10. CASE CheckCapacity /\ UNCHANGED <<config, cancelled, start>>
  BY <1>10 DEF CheckCapacity, End, Go, NoFault, Types, inputs
<1>11. CASE Promote /\ UNCHANGED <<config, cancelled, start>>
  BY <1>11, TypesPromote
<1>12. CASE BeginEnforcement /\ UNCHANGED <<config, cancelled, start>>
  BY <1>12 DEF BeginEnforcement, Cancelled, End, Go, NoFault, Types, inputs
<1>13. CASE ApplyIpv6 /\ UNCHANGED <<config, cancelled, start>>
  BY <1>13, TypesReplace DEF ApplyIpv6, Families
<1>14. CASE ApplyIpv4 /\ UNCHANGED <<config, cancelled, start>>
  BY <1>14, TypesReplace DEF ApplyIpv4, Families
<1>15. CASE Activate /\ UNCHANGED <<config, cancelled, start>>
  <2>1. kernel' \in [Families -> FamilyStates]
    BY <1>15, RemainsTyped DEF Activate
  <2>2. pc' \in {"cleanup", "idle"} /\ result' \in {result, "failed", "ok"} /\ (NoFault \/ Fault)
        /\ UNCHANGED <<inputs, cache, loaded>>
    BY <1>15 DEF Activate, Go, End
  <2> QED
    BY <1>15, <2>1, <2>2, FaultTyped DEF Types, inputs
<1>16. CASE CleanupDisabledIpv6 /\ UNCHANGED <<config, cancelled, start>>
  <2>1. kernel' \in [Families -> FamilyStates]
    BY <1>16, RemainsTyped DEF CleanupDisabledIpv6, Types, Families
  <2>2. pc' = "idle" /\ result' = "ok" /\ (NoFault \/ Fault) /\ UNCHANGED <<inputs, cache, loaded>>
    BY <1>16 DEF CleanupDisabledIpv6, End
  <2> QED
    BY <1>16, <2>1, <2>2, FaultTyped DEF Types, inputs
<1>17. CASE UNCHANGED vars
  BY <1>17 DEF vars, inputs, Types
<1> QED
  BY <1>1, <1>2, <1>3, <1>4, <1>5, <1>6, <1>7, <1>8, <1>9, <1>10, <1>11, <1>12, <1>13, <1>14,
     <1>15, <1>16, <1>17 DEF NextFrom, StepFrom

\* Every variable keeps its type.
LEMMA TypesInvariant == Spec => []Types
<1>1. Types /\ [Next]_vars => Types'
  BY StepsOfSync, TypesStep
<1>2. Init => Types
  <2>1. <<>> \in Generations
    BY EmptySeq DEF Generations
  <2>2. Init => InitSync /\ cache \in [Ids -> Generations]
    BY <2>1 DEF Init
  <2> QED
    BY <2>2, TypesInit
<1> QED
  BY <1>1, <1>2, PTL DEF Spec

-----------------------------------------------------------------------------
(***************************************************************************)
(* Staging.                                                                *)
(***************************************************************************)
\* A step that leaves alone what is loaded, staged and cached.
LEMMA StagingKept ==
  ASSUME Staging, UNCHANGED <<external, pending, fresh, loaded, safelist>>,
         pc' # "idle" => pc # "idle" /\ cache' = cache,
         pc' \in {"apply6", "apply4"} => pending = <<>>
  PROVE  Staging'
BY DEF Staging, NotLoaded, WaitsOnce, PendingIsFresh, PendingIsAdmitted, FreshIsKept, Cached

\* What is staged for a provider that is loaded now: nothing so far.
LEMMA FirstLoad ==
  ASSUME Types, Staging, loaded < Len(Registry)
  PROVE  /\ loaded + 1 \in DOMAIN Registry
         /\ fresh[Registry[loaded + 1].id] = <<>>
         /\ \A k \in DOMAIN external : external[k].id # Registry[loaded + 1].id
         /\ \A k \in DOMAIN pending : pending[k][1] # Registry[loaded + 1].id
         /\ \A j \in DOMAIN Registry : j # loaded + 1 => Registry[j].id # Registry[loaded + 1].id
<1> DEFINE n == loaded + 1
<1>1. loaded \in Nat /\ n \in DOMAIN Registry /\ n > loaded
      /\ DOMAIN Registry = 1 .. Len(Registry) /\ Len(Registry) \in Nat
  BY RegistryLength DEF Types
<1>2. fresh[Registry[n].id] = <<>>
  BY <1>1 DEF Staging, NotLoaded
<1>3. \A j \in DOMAIN Registry : j # n => Registry[j].id # Registry[n].id
  BY <1>1, ProviderFacts
<1>4. \A k \in DOMAIN external : external[k].id # Registry[n].id
  <2> SUFFICES ASSUME NEW k \in DOMAIN external PROVE external[k].id # Registry[n].id
    OBVIOUS
  <2>1. PICK j \in 1 .. loaded : Registry[j].id = external[k].id
    BY DEF Staging, WaitsOnce
  <2>2. j \in DOMAIN Registry /\ j # n
    BY <1>1
  <2> QED
    BY <1>3, <2>1, <2>2
<1>5. \A k \in DOMAIN pending : pending[k][1] # Registry[n].id
  BY <1>2 DEF Staging, PendingIsFresh
<1> QED
  BY <1>1, <1>2, <1>3, <1>4, <1>5

\* A batch becomes pending that nothing was staged for, and is in the safelist if
\* its provider is an external one.
LEMMA StagingAppend ==
  ASSUME Types, Staging, NEW p \in Ids, NEW nets \in Batches,
         fresh[p] = <<>>,
         pending' = Append(pending, <<p, nets>>),
         fresh' = [fresh EXCEPT ![p] = <<nets>>],
         UNCHANGED cache, pc # "idle", safelist \subseteq safelist',
         \A i \in DOMAIN Registry :
           Registry[i].id = p /\ Registry[i].role = "external" => nets \subseteq safelist'
  PROVE  PendingIsFresh' /\ PendingIsAdmitted' /\ FreshIsKept'
<1> DEFINE entry == <<p, nets>>
           T == Ids \X Batches
<1>1. pending \in Seq(T) /\ entry \in T /\ entry[1] = p /\ entry[2] = nets
  BY DEF Types
<1>2. fresh \in [Ids -> {<<>>} \cup {<<b>> : b \in Batches}]
  BY DEF Types
<1>3. pending' = Append(pending, entry)
  OBVIOUS
<1> HIDE DEF entry, T
<1>4. /\ DOMAIN pending = 1 .. Len(pending) /\ Len(pending) \in Nat
      /\ DOMAIN pending' = 1 .. (Len(pending) + 1)
      /\ \A k \in 1 .. Len(pending) : pending'[k] = pending[k]
      /\ pending'[Len(pending) + 1] = entry
  <2>1. pending \in Seq(T) /\ entry \in T
    BY <1>1
  <2>2. /\ DOMAIN pending = 1 .. Len(pending) /\ Len(pending) \in Nat
        /\ DOMAIN Append(pending, entry) = 1 .. (Len(pending) + 1)
        /\ \A k \in 1 .. Len(pending) : Append(pending, entry)[k] = pending[k]
        /\ Append(pending, entry)[Len(pending) + 1] = entry
    BY <2>1
  <2> QED
    BY <1>3, <2>2, Zenon
<1>5. \A k \in DOMAIN pending' : k \in DOMAIN pending \/ pending'[k] = entry
  BY <1>4
<1>6. \A k \in DOMAIN pending : pending[k][1] # p /\ pending[k][1] \in Ids
  <2> SUFFICES ASSUME NEW k \in DOMAIN pending PROVE pending[k][1] # p /\ pending[k][1] \in Ids
    OBVIOUS
  <2>1. pending[k] \in T
    BY <1>1, <1>4
  <2>2. fresh[pending[k][1]] = <<pending[k][2]>>
    BY DEF Staging, PendingIsFresh
  <2>3. pending[k][1] \in Ids
    BY <2>1 DEF T
  <2>4. pending[k][1] # p
    BY <2>2
  <2> QED
    BY <2>3, <2>4
<1>7. \A q \in Ids : fresh'[q] = IF q = p THEN <<nets>> ELSE fresh[q]
  BY <1>2
<1>8. PendingIsFresh'
  <2> SUFFICES ASSUME NEW k \in DOMAIN pending'
               PROVE  fresh'[pending'[k][1]] = <<pending'[k][2]>>
    BY DEF PendingIsFresh
  <2>1. CASE pending'[k] = entry
    BY <1>1, <1>7, <2>1
  <2>2. CASE pending'[k] # entry
    <3>1. k \in DOMAIN pending /\ pending'[k] = pending[k]
      BY <1>4, <1>5, <2>2
    <3> QED
      BY <1>6, <1>7, <3>1 DEF Staging, PendingIsFresh
  <2> QED
    BY <2>1, <2>2
<1>9. PendingIsAdmitted'
  BY <1>1, <1>4, <1>5 DEF Staging, PendingIsAdmitted
<1>10. FreshIsKept'
  <2> SUFFICES ASSUME NEW q \in Ids, fresh'[q] # <<>>
               PROVE  Cached(q)' \/ \E k \in DOMAIN pending' : pending'[k][1] = q
    BY DEF FreshIsKept
  <2>1. CASE q = p
    <3>1. Len(pending) + 1 \in DOMAIN pending' /\ pending'[Len(pending) + 1][1] = q
      BY <1>1, <1>4, <2>1
    <3> QED
      BY <3>1
  <2>2. CASE q # p
    <3>1. Cached(q) \/ \E k \in DOMAIN pending : pending[k][1] = q
      BY <1>7, <2>2 DEF Staging, FreshIsKept
    <3>2. CASE Cached(q)
      BY <1>7, <2>2, <3>2 DEF Cached
    <3>3. CASE \E k \in DOMAIN pending : pending[k][1] = q
      BY <1>4, <3>3
    <3> QED
      BY <3>1, <3>2, <3>3
  <2> QED
    BY <2>1, <2>2
<1> QED
  BY <1>8, <1>9, <1>10

\* One provider is loaded and accepted.
LEMMA StagingAccept ==
  ASSUME Types, Staging, pc = "load", loaded < Len(Registry),
         NEW l \in LoadSet, \A b, c \in l.fallback : b = c,
         Accept(Registry[loaded + 1], l), loaded' = loaded + 1, Go("load"),
         UNCHANGED <<kernel, cache>>
  PROVE  Staging'
<1> DEFINE n == loaded + 1
           p == Registry[n]
<1>1. /\ loaded \in Nat /\ Len(Registry) \in Nat /\ DOMAIN Registry = 1 .. Len(Registry)
      /\ n \in DOMAIN Registry /\ p.id \in Ids
  BY FirstLoad, RegistryLength, ProviderFacts DEF Types
<1>2. /\ fresh[p.id] = <<>>
      /\ \A k \in DOMAIN external : external[k].id # p.id
      /\ \A j \in DOMAIN Registry : j # n => Registry[j].id # p.id
  BY FirstLoad
<1>3. safelist \subseteq safelist'
  BY DEF Accept
<1>4. fresh \in [Ids -> {<<>>} \cup {<<b>> : b \in Batches}] /\ l.nets \in Batches
  BY DEF Types, LoadSet
<1>5. CASE p.role = "external"
  <2> DEFINE e == [id |-> p.id, load |-> l]
  <2>1. UNCHANGED <<pending, fresh, cache>> /\ external' = Append(external, e)
    BY <1>5 DEF Accept
  <2>2. external \in Seq(Waiting) /\ e \in Waiting /\ e.id = p.id /\ e.load = l
    BY <1>1 DEF Types, Waiting
  <2> HIDE DEF e
  <2>3. /\ DOMAIN external = 1 .. Len(external) /\ Len(external) \in Nat
        /\ DOMAIN Append(external, e) = 1 .. (Len(external) + 1)
        /\ \A k \in 1 .. Len(external) : Append(external, e)[k] = external[k]
        /\ Append(external, e)[Len(external) + 1] = e
    BY <2>2
  <2>4. /\ DOMAIN external' = 1 .. (Len(external) + 1)
        /\ \A k \in 1 .. Len(external) : external'[k] = external[k]
        /\ external'[Len(external) + 1] = e
    BY <2>1, <2>3, Zenon
  <2>5. NotLoaded'
    BY <1>1, <2>1 DEF Staging, NotLoaded
  <2>6. WaitsOnce'
    <3> SUFFICES ASSUME NEW k \in DOMAIN external'
                 PROVE  /\ fresh[external'[k].id] = <<>>
                        /\ \E j \in 1 .. n : Registry[j].id = external'[k].id
                        /\ \A b, c \in external'[k].load.fallback : b = c
                        /\ \A i \in DOMAIN external' : external'[i].id = external'[k].id => i = k
      BY <2>1 DEF WaitsOnce
    <3>1. CASE k = Len(external) + 1
      <4>1. n \in 1 .. n
        BY <1>1
      <4>2. external'[k].id = p.id /\ external'[k].load = l
        BY <2>2, <2>4, <3>1
      <4>3. \A i \in DOMAIN external' : external'[i].id = p.id => i = k
        BY <1>2, <2>3, <2>4, <3>1
      <4> HIDE DEF n, p
      <4> QED
        BY <1>2, <4>1, <4>2, <4>3 DEF p
    <3>2. CASE k \in DOMAIN external
      <4>1. external'[k] = external[k]
        BY <2>3, <2>4, <3>2
      <4>2. PICK j \in 1 .. loaded : Registry[j].id = external[k].id
        BY <3>2 DEF Staging, WaitsOnce
      <4>3. j \in 1 .. n
        BY <1>1
      <4>4. \A i \in DOMAIN external' : external'[i].id = external'[k].id => i = k
        <5> SUFFICES ASSUME NEW i \in DOMAIN external', external'[i].id = external'[k].id
                     PROVE  i = k
          OBVIOUS
        <5>1. CASE i = Len(external) + 1
          BY <1>2, <2>2, <2>4, <3>2, <4>1, <5>1
        <5>2. CASE i \in DOMAIN external
          BY <2>3, <2>4, <3>2, <4>1, <5>2 DEF Staging, WaitsOnce
        <5> QED
          BY <2>3, <2>4, <5>1, <5>2
      <4> HIDE DEF n, p
      <4> QED
        BY <3>2, <4>1, <4>2, <4>3, <4>4 DEF Staging, WaitsOnce
    <3> QED
      BY <2>3, <2>4, <3>1, <3>2
  <2>7. PendingIsFresh' /\ PendingIsAdmitted' /\ FreshIsKept'
    BY <1>3, <2>1 DEF Staging, PendingIsFresh, PendingIsAdmitted, FreshIsKept, Cached
  <2> QED
    BY <2>5, <2>6, <2>7 DEF Staging, Go
<1>6. CASE p.role # "external"
  <2>1. external' = external
    BY <1>6 DEF Accept
  <2>2. \A q \in Ids : q # p.id => fresh'[q] = fresh[q]
    BY <1>4 DEF Accept
  <2>3. NotLoaded'
    <3> SUFFICES ASSUME NEW j \in DOMAIN Registry, j > n PROVE fresh'[Registry[j].id] = <<>>
      BY DEF NotLoaded
    <3>1. j # n /\ j > loaded /\ Registry[j].id \in Ids
      BY <1>1, ProviderFacts
    <3> QED
      BY <1>2, <2>2, <3>1 DEF Staging, NotLoaded
  <2>4. WaitsOnce'
    <3> SUFFICES ASSUME NEW k \in DOMAIN external
                 PROVE  /\ fresh'[external[k].id] = <<>>
                        /\ \E j \in 1 .. n : Registry[j].id = external[k].id
      BY <2>1 DEF WaitsOnce, Staging
    <3>1. PICK j \in 1 .. loaded : Registry[j].id = external[k].id
      BY DEF Staging, WaitsOnce
    <3>2. j \in 1 .. n /\ external[k].id \in Ids
      BY <1>1, <3>1, ProviderFacts
    <3>3. fresh'[external[k].id] = fresh[external[k].id]
      BY <1>2, <2>2, <3>2
    <3> QED
      BY <3>1, <3>2, <3>3 DEF Staging, WaitsOnce
  <2>5. CASE l.staged
    <3>1. pending' = Append(pending, <<p.id, l.nets>>) /\ fresh' = [fresh EXCEPT ![p.id] = <<l.nets>>]
      BY <1>6, <2>5 DEF Accept
    <3>2. \A i \in DOMAIN Registry : ~ (Registry[i].id = p.id /\ Registry[i].role = "external")
      BY <1>2, <1>6
    <3>3. PendingIsFresh' /\ PendingIsAdmitted' /\ FreshIsKept'
      BY <1>1, <1>2, <1>3, <1>4, <3>1, <3>2, StagingAppend
    <3> QED
      BY <2>3, <2>4, <3>3 DEF Staging, Go
  <2>6. CASE ~ l.staged
    <3>1. UNCHANGED <<pending, fresh, cache>>
      BY <2>6 DEF Accept
    <3>2. PendingIsFresh' /\ PendingIsAdmitted' /\ FreshIsKept'
      BY <1>3, <3>1 DEF Staging, PendingIsFresh, PendingIsAdmitted, FreshIsKept, Cached
    <3> QED
      BY <2>3, <2>4, <3>2 DEF Staging, Go
  <2> QED
    BY <2>5, <2>6
<1> QED
  BY <1>5, <1>6

LEMMA StagingLoad ==
  ASSUME Types, Staging,
         NEW loads, LoadSourceFrom(loads), loaded < Len(Registry) => WellFormed(loads)
  PROVE  Staging'
<1> DEFINE p == Registry[loaded + 1]
           sources == loads \cup StagingFailure(p)
<1>1. loaded < Len(Registry) /\ pc = "load" /\ loaded + 1 \in DOMAIN Registry
      /\ loaded \in Nat /\ Len(Registry) \in Nat
  BY FirstLoad, RegistryLength DEF LoadSourceFrom, Types
<1>2. CASE Cancelled
  BY <1>2, StagingKept DEF Cancelled, End, inputs
<1>3. CASE ~ cancelled
  <2>1. UNCHANGED <<kernel, cache>> /\ loaded' = loaded + 1
    BY <1>3 DEF LoadSourceFrom, Cancelled
  <2>2. \/ \E l \in sources : Accept(p, l) /\ Go("load")
        \/ UNCHANGED inputs /\ (End("failed") \/ Go("load"))
    BY <1>3 DEF LoadSourceFrom, Cancelled
  <2>3. ASSUME NEW l \in sources, Accept(p, l), Go("load")
        PROVE  Staging'
    <3>1. l \in LoadSet /\ \A b, c \in l.fallback : b = c
      BY <1>1, <2>3, LoadsTyped DEF WellFormed
    <3> QED
      BY <1>1, <2>1, <2>3, <3>1, StagingAccept
  <2>4. CASE UNCHANGED inputs /\ (End("failed") \/ Go("load"))
    <3>1. NotLoaded'
      BY <1>1, <2>1, <2>4, RegistryLength DEF Staging, NotLoaded, inputs
    <3>2. WaitsOnce'
      <4>1. \A j : j \in 1 .. loaded => j \in 1 .. (loaded + 1)
        BY <1>1
      <4> QED
        BY <2>1, <2>4, <4>1 DEF Staging, WaitsOnce, inputs
    <3> QED
      BY <1>1, <2>1, <2>4, <3>1, <3>2
      DEF Staging, PendingIsFresh, PendingIsAdmitted, FreshIsKept, Cached, inputs, End, Go
  <2> QED
    BY <2>2, <2>3, <2>4
<1> QED
  BY <1>2, <1>3 DEF LoadSourceFrom

\* The first of what waits is admitted or rejected.
LEMMA StagingAdmit ==
  ASSUME Types, Staging, AdmitExternal
  PROVE  Staging'
<1> DEFINE id == Head(external).id
           l == Head(external).load
<1>1. external \in Seq(Waiting) /\ external # <<>> /\ pc = "admit" /\ external' = Tail(external)
  BY DEF AdmitExternal, Types
<1>2. /\ 1 \in DOMAIN external /\ external[1] = Head(external) /\ external[1] \in Waiting
      /\ DOMAIN external = 1 .. Len(external) /\ Len(external) \in Nat
      /\ DOMAIN Tail(external) = 1 .. (Len(external) - 1)
      /\ \A k \in 1 .. (Len(external) - 1) : Tail(external)[k] = external[k + 1]
  BY <1>1
<1>3. /\ DOMAIN external' = 1 .. (Len(external) - 1)
      /\ \A k \in 1 .. (Len(external) - 1) : external'[k] = external[k + 1]
  BY <1>1, <1>2, Zenon
<1>4. id \in Ids /\ l \in LoadSet /\ l.nets \in Batches
  BY <1>2 DEF Waiting, LoadSet
<1>5. fresh[id] = <<>> /\ \A k \in DOMAIN external : k # 1 => external[k].id # id
  BY <1>2 DEF Staging, WaitsOnce
<1>6. UNCHANGED <<cache, loaded>> /\ safelist \subseteq safelist' /\ pc' \in {"admit", "idle"}
  BY DEF AdmitExternal, Go, End
<1>7. \/ UNCHANGED <<pending, fresh>>
      \/ /\ pending' = Append(pending, <<id, l.nets>>) /\ fresh' = [fresh EXCEPT ![id] = <<l.nets>>]
         /\ l.nets \subseteq safelist'
  BY DEF AdmitExternal
<1>8. fresh \in [Ids -> {<<>>} \cup {<<b>> : b \in Batches}]
  BY DEF Types
<1>9. \A q \in Ids : q # id => fresh'[q] = fresh[q]
  BY <1>7, <1>8
<1>10. PICK h \in 1 .. loaded : Registry[h].id = id
  BY <1>2 DEF Staging, WaitsOnce
<1>11. loaded \in Nat /\ h \in DOMAIN Registry /\ h <= loaded
  BY <1>10, RegistryLength DEF Types
<1> HIDE DEF id, l
<1>12. NotLoaded'
  <2> SUFFICES ASSUME NEW j \in DOMAIN Registry, j > loaded PROVE fresh'[Registry[j].id] = <<>>
    BY <1>6 DEF NotLoaded
  <2>1. j # h /\ Registry[j].id \in Ids /\ Registry[j].id # id
    BY <1>10, <1>11, ProviderFacts, RegistryLength
  <2> QED
    BY <1>9, <2>1 DEF Staging, NotLoaded
<1>13. WaitsOnce'
  <2> SUFFICES ASSUME NEW k \in DOMAIN external'
               PROVE  /\ fresh'[external'[k].id] = <<>>
                      /\ \E j \in 1 .. loaded : Registry[j].id = external'[k].id
                      /\ \A b, c \in external'[k].load.fallback : b = c
                      /\ \A i \in DOMAIN external' : external'[i].id = external'[k].id => i = k
    BY <1>6 DEF WaitsOnce
  <2>1. k + 1 \in DOMAIN external /\ k + 1 # 1 /\ external'[k] = external[k + 1] /\ k \in Nat
    BY <1>2, <1>3
  <2>2. external[k + 1].id # id /\ external[k + 1].id \in Ids
    <3>1. external[k + 1] \in Waiting
      BY <1>1, <1>2, <2>1
    <3>2. external[k + 1].id \in Ids
      BY <3>1 DEF Waiting
    <3> QED
      BY <1>5, <2>1, <3>2
  <2>3. \A i \in DOMAIN external' : external'[i].id = external'[k].id => i = k
    <3> SUFFICES ASSUME NEW i \in DOMAIN external', external'[i].id = external'[k].id
                 PROVE  i = k
      OBVIOUS
    <3>1. i + 1 \in DOMAIN external /\ external'[i] = external[i + 1] /\ i \in Nat
      BY <1>2, <1>3
    <3>2. i + 1 = k + 1
      BY <2>1, <3>1 DEF Staging, WaitsOnce
    <3> QED
      BY <2>1, <3>1, <3>2
  <2>4. fresh'[external[k + 1].id] = fresh[external[k + 1].id]
    BY <1>9, <2>2
  <2> QED
    BY <2>1, <2>3, <2>4 DEF Staging, WaitsOnce
<1>14. PendingIsFresh' /\ PendingIsAdmitted' /\ FreshIsKept'
  <2>1. CASE UNCHANGED <<pending, fresh>>
    BY <1>1, <1>6, <2>1 DEF Staging, PendingIsFresh, PendingIsAdmitted, FreshIsKept, Cached
  <2>2. CASE ~ UNCHANGED <<pending, fresh>>
    BY <1>1, <1>4, <1>5, <1>6, <1>7, <2>2, StagingAppend
  <2> QED
    BY <2>1, <2>2
<1> QED
  BY <1>6, <1>12, <1>13, <1>14 DEF Staging

\* The first of what is pending is promoted.
LEMMA StagingPromote ==
  ASSUME Types, Staging, Promote
  PROVE  Staging'
<1>1. CASE Cancelled
  BY <1>1, StagingKept DEF Cancelled, End, inputs
<1>2. CASE ~ Cancelled
  <2> DEFINE p == Head(pending)[1]
             nets == Head(pending)[2]
             T == Ids \X Batches
  <2>1. /\ pending # <<>> /\ pc = "promote" /\ pending' = Tail(pending)
        /\ UNCHANGED <<loaded, safelist, external, fresh>> /\ pc' \in {"promote", "idle"}
    BY <1>2 DEF Promote, Go, End
  <2>2. pending \in Seq(T)
    BY DEF Types
  <2> HIDE DEF T
  <2>3. /\ 1 \in DOMAIN pending /\ pending[1] = Head(pending) /\ pending[1] \in T
        /\ DOMAIN pending = 1 .. Len(pending) /\ Len(pending) \in Nat
        /\ DOMAIN Tail(pending) = 1 .. (Len(pending) - 1)
        /\ \A k \in 1 .. (Len(pending) - 1) : Tail(pending)[k] = pending[k + 1]
    BY <2>1, <2>2
  <2>4. /\ DOMAIN pending' = 1 .. (Len(pending) - 1)
        /\ \A k \in 1 .. (Len(pending) - 1) : pending'[k] = pending[k + 1]
    BY <2>1, <2>3, Zenon
  <2>5. \A k \in DOMAIN pending' : k + 1 \in DOMAIN pending /\ pending'[k] = pending[k + 1]
    BY <2>3, <2>4
  <2>6. PendingIsFresh' /\ PendingIsAdmitted'
    BY <2>1, <2>5 DEF Staging, PendingIsFresh, PendingIsAdmitted
  <2>7. pc' # "idle" => FreshIsKept'
    <3> SUFFICES ASSUME pc' # "idle", NEW q \in Ids, fresh[q] # <<>>
                 PROVE  Cached(q)' \/ \E k \in DOMAIN pending' : pending'[k][1] = q
      BY <2>1 DEF FreshIsKept
    <3>1. PICK c \in Promotions(p, nets) : cache' = [cache EXCEPT ![p] = c]
      BY <1>2 DEF Promote, End
    <3>2. fresh[p] = <<nets>> /\ p \in Ids
      BY <2>3 DEF Staging, PendingIsFresh, T
    <3>3. cache \in [Ids -> Generations]
      BY DEF Types
    <3> HIDE DEF p, nets
    <3>4. CASE q = p
      <4>1. c # <<>> /\ c[1] = nets
        BY <3>1 DEF Promotions
      <4>2. cache'[q] = c
        BY <3>1, <3>2, <3>3, <3>4
      <4>3. fresh[q][1] = nets
        BY <3>2, <3>4
      <4> QED
        BY <2>1, <4>1, <4>2, <4>3 DEF Cached
    <3>5. CASE q # p
      <4>1. cache'[q] = cache[q]
        BY <3>1, <3>3, <3>5
      <4>2. CASE Cached(q)
        BY <2>1, <4>1, <4>2 DEF Cached
      <4>3. ASSUME NEW k \in DOMAIN pending, pending[k][1] = q
            PROVE  \E i \in DOMAIN pending' : pending'[i][1] = q
        <5>1. k # 1
          BY <2>3, <3>5, <4>3 DEF p
        <5>2. k - 1 \in DOMAIN pending' /\ pending'[k - 1] = pending[k]
          BY <2>3, <2>4, <4>3, <5>1
        <5> QED
          BY <4>3, <5>2
      <4> QED
        BY <2>1, <4>2, <4>3 DEF Staging, FreshIsKept
    <3> QED
      BY <3>4, <3>5
  <2> QED
    BY <2>1, <2>6, <2>7 DEF Staging, NotLoaded, WaitsOnce
<1> QED
  BY <1>1, <1>2

\* At the start of a sync nothing is loaded, staged or pending.
LEMMA NothingStaged ==
  ASSUME external = <<>>, pending = <<>>, fresh = [p \in Ids |-> <<>>]
  PROVE  Staging
BY ProviderFacts
DEF Staging, NotLoaded, WaitsOnce, PendingIsFresh, PendingIsAdmitted, FreshIsKept

LEMMA StagingStep ==
  ASSUME Types, Staging, NEW loads, NextFrom(loads), loaded < Len(Registry) => WellFormed(loads)
  PROVE  Staging'
<1>1. CASE Begin
  <2>1. external' = <<>> /\ pending' = <<>> /\ fresh' = [p \in Ids |-> <<>>]
    BY <1>1 DEF Begin
  <2> QED
    BY <2>1, ProviderFacts
    DEF Staging, NotLoaded, WaitsOnce, PendingIsFresh, PendingIsAdmitted, FreshIsKept
<1>2. CASE LoadSourceFrom(loads)
  BY <1>2, StagingLoad
<1>3. CASE AdmitExternal
  BY <1>3, StagingAdmit
<1>4. CASE Promote
  BY <1>4, StagingPromote
<1>5. CASE Interrupt \/ Kill \/ Reboot \/ Flush \/ UNCHANGED vars
  BY <1>5, StagingKept DEF Interrupt, Kill, Reboot, Flush, End, inputs, vars, Staging
<1>6. CASE EnsureArtifacts \/ BeginAdmission \/ CheckCapacity
  BY <1>6, StagingKept
  DEF EnsureArtifacts, BeginAdmission, CheckCapacity, Cancelled, Go, End, inputs
<1>7. CASE BeginEnforcement
  BY <1>7, StagingKept DEF BeginEnforcement, Cancelled, Go, End, inputs
<1>8. CASE ApplyIpv6 \/ ApplyIpv4
  BY <1>8, StagingKept DEF ApplyIpv6, ApplyIpv4, ReplaceSet, End, inputs, Staging
<1>9. CASE Activate \/ CleanupDisabledIpv6
  BY <1>9, StagingKept DEF Activate, CleanupDisabledIpv6, Go, End, inputs
<1> QED
  BY <1>1, <1>2, <1>3, <1>4, <1>5, <1>6, <1>7, <1>8, <1>9 DEF NextFrom, StepFrom

LEMMA StagingInvariant == Spec => []Staging
<1>1. Init => Staging
  BY NothingStaged DEF Init, InitSync
<1>2. Types /\ Staging /\ [Next]_vars => Staging'
  BY StepsOfSync, StagingStep
<1> QED
  BY <1>1, <1>2, TypesInvariant, PTL DEF Spec

-----------------------------------------------------------------------------
(***************************************************************************)
(* Progress.                                                               *)
(***************************************************************************)
\* A family that passed the capacity check fits its set.
LEMMA CheckedFits ==
  ASSUME Types, NEW f \in Enabled,
         WithinCapacity(Effective(candidates, safelist), config.ipv6, config.maxelem)
  PROVE  Cardinality(Of(f, Effective(candidates, safelist))) <= config.maxelem
<1>1. f \in Families
  BY DEF Enabled, EnabledIf, Families
<1>2. IsFiniteSet(Of(f, Effective(candidates, safelist)))
  BY <1>1, EffectiveFinite DEF Effective, Types
<1>3. Entries(f, Effective(candidates, safelist)) <= config.maxelem
  BY DEF WithinCapacity, Enabled
<1> QED
  BY <1>2, <1>3, EntriesCount

\* What an enabled family blocks: its candidates without the safelist.
LEMMA EffectiveOf ==
  ASSUME NEW f \in Enabled
  PROVE  Of(f, Effective(candidates, safelist)) = Of(f, candidates \ safelist)
BY DEF Of, Effective, EffectiveLists, Enabled

\* A sync ends, or none runs, and the result does not claim success.
LEMMA ProgressEnds ==
  ASSUME pc' = "idle", result' # "ok",
         \A f \in Families : kernel'[f].wired => kernel'[f].present,
         \/ result' \notin {"cancelled", "failed"}
         \/ result' = "failed" /\ disturbed'
         \/ Untouched'
  PROVE  Progress'
BY DEF Progress, Ended, OkEnforces

\* A check point of a sync that has changed nothing, or its end there.
LEMMA ProgressUntouched ==
  ASSUME Progress, Untouched, UNCHANGED <<kernel, start>>,
         \/ pc' = "load"
         \/ pc' = "idle" /\ result' # "ok"
  PROVE  Progress'
BY DEF Progress, Untouched, Ended, OkEnforces

\* A fault ends a sync, whatever is in the kernel then.
LEMMA ProgressFails ==
  ASSUME Fault, End("failed"),
         \A f \in Families : kernel'[f].wired => kernel'[f].present
  PROVE  Progress'
BY ProgressEnds DEF Fault, End

\* Admitting an external safelist keeps something to block in every family.
LEMMA AdmissionPreserves ==
  ASSUME Types, Staging, Progress, AdmitExternal, UNCHANGED config, pc' = "admit"
  PROVE  Preserved'
<1> DEFINE l == Head(external).load
           admissible == {b \in l.fallback : Preserves(b)}
<1>1. UNCHANGED <<config, candidates, baseline>> /\ Preserved
  BY DEF AdmitExternal, Progress
<1>2. ASSUME NEW nets, Preserves(nets), safelist' = safelist \cup nets
      PROVE  Preserved'
  <2>1. Enabled' = Enabled
    BY <1>1 DEF Enabled
  <2>2. Effective(candidates, safelist)' = EffectiveLists(candidates, safelist \cup nets, config.ipv6)
    BY <1>1, <1>2 DEF Effective
  <2>3. \A f \in Enabled : Of(f, baseline) = {}
          \/ Of(f, EffectiveLists(candidates, safelist \cup nets, config.ipv6)) # {}
    BY <1>2 DEF Preserves, PreservesBaseline, Enabled
  <2> QED
    BY <1>1, <2>1, <2>2, <2>3 DEF Preserved
<1>3. CASE Preserves(l.nets)
  BY <1>2, <1>3 DEF AdmitExternal
<1>4. CASE ~ Preserves(l.nets) /\ admissible = {}
  <2>1. safelist' = safelist
    BY <1>4 DEF AdmitExternal
  <2> QED
    BY <1>1, <2>1 DEF Preserved, Enabled, Effective
<1>5. CASE ~ Preserves(l.nets) /\ admissible # {}
  <2>1. external \in Seq(Waiting) /\ external # <<>>
    BY DEF AdmitExternal, Types
  <2>2. 1 \in DOMAIN external /\ external[1] = Head(external)
    BY <2>1
  <2>3. \A b, c \in l.fallback : b = c
    BY <2>2 DEF Staging, WaitsOnce
  <2>4. PICK b \in l.fallback : Preserves(b)
    BY <1>5
  <2>5. admissible = {b}
    BY <2>3, <2>4
  <2>6. UNION admissible = b
    BY <2>5
  <2>7. safelist' = safelist \cup b
    BY <1>5, <2>6 DEF AdmitExternal
  <2> QED
    BY <1>2, <2>4, <2>7
<1> QED
  BY <1>3, <1>4, <1>5

\* Replacing the set of a family that fits: done, or the sync ends with a fault.
LEMMA ReplaceDone ==
  ASSUME Types, Progress, UNCHANGED <<config, start>>,
         NEW f \in Enabled, NEW next, ReplaceSet(f, next),
         WithinCapacity(Effective(candidates, safelist), config.ipv6, config.maxelem)
  PROVE  \/ Progress'
         \/ /\ pc' = next /\ UNCHANGED <<result, disturbed, inputs>>
            /\ Replaced(f)'
            /\ kernel'[f].wired => kernel'[f].present
            /\ \A g \in Families : g # f => kernel'[g] = kernel[g]
<1> DEFINE nets == Of(f, Effective(candidates, safelist))
           replaced == [kernel EXCEPT ![f].entries = nets, ![f].present = TRUE]
<1>1. Cardinality(nets) <= config.maxelem
  BY CheckedFits
<1>2. f \in Families /\ kernel \in [Families -> FamilyStates]
  BY DEF Enabled, EnabledIf, Families, Types
<1>3. /\ replaced[f].present = TRUE /\ replaced[f].entries = nets
      /\ \A g \in Families : g # f => replaced[g] = kernel[g]
  BY <1>2 DEF FamilyStates
<1>4. \A g \in Families : kernel[g].wired => kernel[g].present
  BY DEF Progress
<1>5. UNCHANGED inputs
  BY DEF ReplaceSet
<1>6. nets' = nets
  BY <1>5 DEF Of, Effective, EffectiveLists, inputs
<1>7. CASE kernel' \in {kernel, replaced} /\ Fault /\ End("failed")
  <2>1. \A g \in Families : kernel'[g].wired => kernel'[g].present
    BY <1>3, <1>4, <1>7
  <2> QED
    BY <1>7, <2>1, ProgressFails
<1>8. CASE kernel' = replaced /\ pc' = next /\ UNCHANGED <<result, disturbed>>
  <2>1. Replaced(f)'
    BY <1>3, <1>6, <1>8 DEF Replaced
  <2> HIDE DEF replaced
  <2> QED
    BY <1>3, <1>5, <1>8, <2>1
<1> QED
  BY <1>1, <1>7, <1>8 DEF ReplaceSet, NoFault

\* The sets of both families, one after the other.
LEMMA ProgressReplace ==
  ASSUME Types, Progress, UNCHANGED <<config, start>>, ApplyIpv6 \/ ApplyIpv4
  PROVE  Progress'
<1>1. /\ WithinCapacity(Effective(candidates, safelist), config.ipv6, config.maxelem)
      /\ Preserved /\ \A g \in Families : kernel[g].wired => kernel[g].present
  BY DEF Progress, ApplyIpv6, ApplyIpv4
<1>2. ASSUME UNCHANGED inputs
      PROVE  /\ Effective(candidates, safelist)' = Effective(candidates, safelist)
             /\ Enabled' = Enabled /\ Preserved'
  BY <1>1, <1>2 DEF Effective, Enabled, Preserved, inputs
<1>3. CASE ApplyIpv6
  <2>1. config.ipv6 /\ "ipv6" \in Enabled
    BY <1>3 DEF ApplyIpv6, Progress, Enabled, EnabledIf, Families
  <2>2. ReplaceSet("ipv6", "apply4")
    BY <1>3 DEF ApplyIpv6
  <2>3. CASE /\ pc' = "apply4" /\ UNCHANGED <<result, disturbed, inputs>>
             /\ Replaced("ipv6")'
             /\ kernel'["ipv6"].wired => kernel'["ipv6"].present
             /\ \A g \in Families : g # "ipv6" => kernel'[g] = kernel[g]
    <3>1. \A g \in Families : kernel'[g].wired => kernel'[g].present
      BY <1>1, <2>3
    <3>2. WithinCapacity(Effective(candidates, safelist), config.ipv6, config.maxelem)'
      BY <1>1, <1>2, <2>3
    <3> QED
      BY <1>2, <2>1, <2>3, <3>1, <3>2 DEF Progress, Ended, OkEnforces
  <2> QED
    BY <1>1, <2>1, <2>2, <2>3, ReplaceDone
<1>4. CASE ApplyIpv4
  <2>1. "ipv4" \in Enabled
    BY DEF Enabled, EnabledIf, Families
  <2>2. ReplaceSet("ipv4", "activate")
    BY <1>4 DEF ApplyIpv4
  <2>3. CASE /\ pc' = "activate" /\ UNCHANGED <<result, disturbed, inputs>>
             /\ Replaced("ipv4")'
             /\ kernel'["ipv4"].wired => kernel'["ipv4"].present
             /\ \A g \in Families : g # "ipv4" => kernel'[g] = kernel[g]
    <3>1. \A g \in Families : kernel'[g].wired => kernel'[g].present
      BY <1>1, <2>3
    <3>2. config.ipv6 => Replaced("ipv6")'
      <4>1. config.ipv6 => Replaced("ipv6")
        BY <1>4 DEF ApplyIpv4, Progress
      <4> QED
        BY <1>2, <2>3, <4>1 DEF Replaced, Families, inputs, Of
    <3>3. \A g \in Enabled' : Replaced(g)'
      BY <1>2, <2>3, <3>2 DEF Enabled, EnabledIf, Families
    <3> QED
      BY <1>2, <2>3, <3>1, <3>3 DEF Progress, Ended, OkEnforces
  <2> QED
    BY <1>1, <2>1, <2>2, <2>3, ReplaceDone
<1> QED
  BY <1>3, <1>4

\* Wiring a family changes nothing else of it.
Wired(k) == [k EXCEPT !.wired = TRUE]

LEMMA WiredFamily ==
  ASSUME NEW k \in FamilyStates
  PROVE  Wired(k) = [present |-> k.present, wired |-> TRUE, entries |-> k.entries]
<1>1. \A r, s \in FamilyStates :
        r.present = s.present /\ r.wired = s.wired /\ r.entries = s.entries => r = s
  BY DEF FamilyStates
<1> DEFINE s == [present |-> k.present, wired |-> TRUE, entries |-> k.entries]
<1>2. /\ Wired(k) \in FamilyStates
      /\ Wired(k).present = k.present /\ Wired(k).wired = TRUE /\ Wired(k).entries = k.entries
  BY DEF Wired, FamilyStates
<1>3. s \in FamilyStates /\ s.present = k.present /\ s.wired = TRUE /\ s.entries = k.entries
  BY DEF FamilyStates
<1> HIDE DEF s
<1>4. Wired(k) = s
  BY <1>1, <1>2, <1>3
<1> QED
  BY <1>4 DEF s

LEMMA WireFamily ==
  ASSUME NEW some, NEW f \in Families
  PROVE  Wire(some)[f] = IF f \in some THEN Wired(kernel[f]) ELSE kernel[f]
BY DEF Wire, Wired

\* Wiring both families ends the sync, or leaves a disabled IPv6 to clean up.
LEMMA ProgressActivate ==
  ASSUME Types, Progress, UNCHANGED <<config, start>>, Activate
  PROVE  Progress'
<1>1. /\ \A f \in Enabled : Replaced(f)
      /\ Preserved /\ \A f \in Families : kernel[f].wired => kernel[f].present
      /\ kernel \in [Families -> FamilyStates] /\ Enabled \subseteq Families
  BY DEF Progress, Activate, Types, Enabled, EnabledIf, Families
<1>2. UNCHANGED inputs
  BY DEF Activate
<1>3. /\ Effective(candidates, safelist)' = Effective(candidates, safelist)
      /\ Enabled' = Enabled /\ Preserved'
  BY <1>1, <1>2 DEF Effective, Enabled, Preserved, inputs
<1>4. \A some : \A f \in Families :
        Wire(some)[f] = IF f \in some THEN Wired(kernel[f]) ELSE kernel[f]
  BY WireFamily
<1>5. \A k \in FamilyStates :
        Wired(k) = [present |-> k.present, wired |-> TRUE, entries |-> k.entries]
  BY WiredFamily
<1>6. CASE kernel' \in {Wire({}), Wire({"ipv4"}), Wire(Enabled)} /\ Fault /\ End("failed")
  <2>1. "ipv4" \in Enabled
    BY DEF Enabled, EnabledIf, Families
  <2>2. \A f \in Families : kernel'[f].wired => kernel'[f].present
    <3> SUFFICES ASSUME NEW f \in Families PROVE kernel'[f].wired => kernel'[f].present
      OBVIOUS
    <3>1. kernel[f] \in FamilyStates
      BY <1>1
    <3>2. \/ kernel'[f] = kernel[f]
          \/ f \in Enabled /\ kernel'[f] = Wired(kernel[f])
      BY <1>4, <1>6, <2>1
    <3> QED
      BY <1>1, <1>5, <3>1, <3>2 DEF Replaced
  <2> QED
    BY <1>6, <2>2, ProgressFails
<1>7. CASE /\ kernel' = Wire(Enabled) /\ NoFault
           /\ IF config.ipv6 THEN End("ok") ELSE Go("cleanup")
  <2>1. \A f \in Enabled :
          kernel'[f] = [present |-> TRUE, wired |-> TRUE,
                        entries |-> Of(f, Effective(candidates, safelist))]
    <3> SUFFICES ASSUME NEW f \in Enabled
                 PROVE  kernel'[f] = [present |-> TRUE, wired |-> TRUE,
                                      entries |-> Of(f, Effective(candidates, safelist))]
      OBVIOUS
    <3>1. kernel'[f] = Wired(kernel[f]) /\ kernel[f] \in FamilyStates
      BY <1>1, <1>4, <1>7
    <3>2. kernel[f].present = TRUE /\ kernel[f].entries = Of(f, Effective(candidates, safelist))
      BY <1>1, <3>1 DEF Replaced, FamilyStates
    <3> QED
      BY <1>5, <3>1, <3>2
  <2>2. \A f \in Enabled :
          /\ kernel'[f].present = TRUE /\ kernel'[f].wired = TRUE
          /\ kernel'[f].entries = Of(f, Effective(candidates, safelist))
    <3> SUFFICES ASSUME NEW f \in Enabled
                 PROVE  /\ kernel'[f].present = TRUE /\ kernel'[f].wired = TRUE
                        /\ kernel'[f].entries = Of(f, Effective(candidates, safelist))
      OBVIOUS
    <3>1. ASSUME NEW r, NEW e, r = [present |-> TRUE, wired |-> TRUE, entries |-> e]
          PROVE  r.present = TRUE /\ r.wired = TRUE /\ r.entries = e
      BY <3>1
    <3> QED
      BY <2>1, <3>1, Zenon
  <2>3. \A f \in Families : f \notin Enabled => kernel'[f] = kernel[f]
    BY <1>4, <1>7
  <2>4. \A f \in Families : kernel'[f].wired => kernel'[f].present
    <3> SUFFICES ASSUME NEW f \in Families PROVE kernel'[f].wired => kernel'[f].present
      OBVIOUS
    <3>1. CASE f \in Enabled
      BY <2>2, <3>1
    <3>2. CASE f \notin Enabled
      BY <1>1, <2>3, <3>2
    <3> QED
      BY <3>1, <3>2
  <2>5. \A f \in Enabled : Of(f, baseline) # {} => kernel'[f].entries # {}
    BY <1>1, <2>2 DEF Preserved
  <2>6. CASE config.ipv6 /\ End("ok")
    <3>1. OkEnforces'
      BY <1>2, <1>3, <2>1, <2>5, <2>6, EffectiveOf DEF OkEnforces, inputs, Of
    <3> QED
      BY <2>4, <2>6, <3>1 DEF Progress, Ended, End
  <2>7. CASE ~ config.ipv6 /\ Go("cleanup")
    <3>1. "ipv4" \in Enabled
      BY DEF Enabled, EnabledIf, Families
    <3>2. Of("ipv4", Effective(candidates, safelist))' = Of("ipv4", Effective(candidates, safelist))
      BY <1>3 DEF Of
    <3>3. Replaced("ipv4")' /\ kernel'["ipv4"].wired
      BY <2>2, <3>1, <3>2 DEF Replaced
    <3> QED
      BY <1>3, <2>4, <2>7, <3>3 DEF Progress, Ended, Go, OkEnforces
  <2> QED
    BY <1>7, <2>6, <2>7
<1> QED
  BY <1>6, <1>7 DEF Activate

\* The cleanup of a disabled IPv6 ends the sync whatever it leaves.
LEMMA ProgressCleanup ==
  ASSUME Types, Progress, UNCHANGED <<config, start>>, CleanupDisabledIpv6
  PROVE  Progress'
<1>1. /\ ~ config.ipv6 /\ Replaced("ipv4") /\ kernel["ipv4"].wired /\ Preserved
      /\ \A f \in Families : kernel[f].wired => kernel[f].present
      /\ kernel \in [Families -> FamilyStates] /\ Enabled = {"ipv4"}
  BY DEF Progress, CleanupDisabledIpv6, Types, Enabled, EnabledIf
<1>2. UNCHANGED inputs /\ pc' = "idle" /\ result' = "ok"
  BY DEF CleanupDisabledIpv6, End
<1>3. PICK k : /\ kernel' = [kernel EXCEPT !["ipv6"] = k]
               /\ (k = NoFamily /\ NoFault) \/ (k \in Remains("ipv6") /\ Fault)
  BY DEF CleanupDisabledIpv6
<1>4. kernel'["ipv4"] = kernel["ipv4"] /\ kernel'["ipv6"] = k
  BY <1>1, <1>3 DEF Families
<1>5. k.wired => k.present
  BY <1>1, <1>3 DEF Remains, NoFamily, Families, FamilyStates
<1>6. \A s \in FamilyStates : s.present /\ s.wired =>
        s = [present |-> TRUE, wired |-> TRUE, entries |-> s.entries]
  BY DEF FamilyStates
<1>7. Enabled' = {"ipv4"} /\ Effective(candidates, safelist)' = Effective(candidates, safelist)
  BY <1>1, <1>2 DEF Enabled, Effective, inputs
<1>8. kernel["ipv4"] \in FamilyStates /\ kernel["ipv4"].present
      /\ kernel["ipv4"].entries = Of("ipv4", candidates \ safelist)
      /\ (Of("ipv4", baseline) # {} => kernel["ipv4"].entries # {})
  BY <1>1, EffectiveOf DEF Replaced, Preserved, Families
<1>9. kernel["ipv4"] = [present |-> TRUE, wired |-> TRUE,
                        entries |-> Of("ipv4", candidates \ safelist)]
  BY <1>1, <1>6, <1>8
<1>10. disturbed' \/ kernel'["ipv6"] = NoFamily
  BY <1>3, <1>4 DEF Fault
<1>11. OkEnforces'
  BY <1>2, <1>4, <1>7, <1>8, <1>9, <1>10 DEF OkEnforces, inputs, Of
<1>12. \A f \in Families : kernel'[f].wired => kernel'[f].present
  BY <1>1, <1>4, <1>5 DEF Families
<1> QED
  BY <1>2, <1>11, <1>12 DEF Progress, Ended

\* Whatever a cleanup or a flush leaves of a family is wired only with its set.
LEMMA RemainsWired ==
  ASSUME Types, Progress, NEW f \in Families, NEW k \in Remains(f)
  PROVE  k.wired => k.present
BY DEF Remains, NoFamily, Types, FamilyStates, Progress

\* The lists, once computed, do not change with what is not a list.
LEMMA ListsKept ==
  ASSUME UNCHANGED <<config, candidates, safelist, baseline>>
  PROVE  /\ Effective(candidates, safelist)' = Effective(candidates, safelist)
         /\ Enabled' = Enabled
         /\ Preserved' = Preserved
BY DEF Effective, Enabled, Preserved

\* The steps up to the end of admission.
LEMMA ProgressBefore ==
  ASSUME Types, Staging, Progress, UNCHANGED <<config, cancelled, start>>,
         NEW loads,
         \/ EnsureArtifacts \/ LoadSourceFrom(loads) \/ BeginAdmission
         \/ AdmitExternal \/ CheckCapacity
  PROVE  Progress'
<1>1. Untouched /\ pc # "idle" /\ \A f \in Families : kernel[f].wired => kernel[f].present
  BY DEF EnsureArtifacts, LoadSourceFrom, BeginAdmission, AdmitExternal,
         CheckCapacity, Progress
<1>2. CASE EnsureArtifacts
  <2>1. PICK some \in SUBSET Enabled :
          /\ kernel' = [f \in Families |->
               IF f \in some THEN [kernel[f] EXCEPT !.present = TRUE] ELSE kernel[f]]
          /\ \/ some = Enabled /\ NoFault /\ Go("load")
             \/ Fault /\ End("failed")
    BY <1>2 DEF EnsureArtifacts
  <2>2. \A k \in FamilyStates :
          LET p == [k EXCEPT !.present = TRUE] IN
            p.present = TRUE /\ p.wired = k.wired /\ p.entries = k.entries
    BY DEF FamilyStates
  <2>3. \A f \in Families :
          /\ kernel'[f].wired = kernel[f].wired /\ kernel'[f].entries = kernel[f].entries
          /\ kernel'[f].present = TRUE \/ kernel'[f] = kernel[f]
    <3> SUFFICES ASSUME NEW f \in Families
                 PROVE  /\ kernel'[f].wired = kernel[f].wired
                        /\ kernel'[f].entries = kernel[f].entries
                        /\ kernel'[f].present = TRUE \/ kernel'[f] = kernel[f]
      OBVIOUS
    <3>1. kernel[f] \in FamilyStates
      BY DEF Types
    <3>2. CASE f \in some
      <4>1. kernel'[f] = [kernel[f] EXCEPT !.present = TRUE]
        BY <2>1, <3>2
      <4> QED
        BY <2>2, <3>1, <4>1
    <3>3. CASE f \notin some
      BY <2>1, <3>3
    <3> QED
      BY <3>2, <3>3
  <2>4. Untouched'
    BY <1>1, <2>3 DEF Untouched
  <2>5. \A f \in Families : kernel'[f].wired => kernel'[f].present
    BY <1>1, <2>3
  <2> QED
    BY <2>1, <2>4, <2>5 DEF Progress, Ended, OkEnforces, Go, End
<1>3. CASE LoadSourceFrom(loads)
  <2>1. UNCHANGED kernel /\ (pc' = "load" \/ (pc' = "idle" /\ result' # "ok"))
    BY <1>3 DEF LoadSourceFrom, Cancelled, Go, End
  <2> QED
    BY <1>1, <2>1, ProgressUntouched
<1>4. CASE BeginAdmission
  <2>1. CASE Cancelled
    BY <1>1, <2>1, ProgressUntouched DEF Cancelled, End
  <2>2. CASE ~ Cancelled
    <3>1. /\ baseline' = Effective(candidates, safelist) /\ pc' = "admit"
          /\ UNCHANGED <<kernel, candidates, safelist, config>>
      BY <1>4, <2>2 DEF BeginAdmission, Go
    <3>2. Preserved'
      BY <3>1 DEF Preserved, Effective
    <3> QED
      BY <1>1, <3>1, <3>2 DEF Progress, Untouched, Ended, OkEnforces
  <2> QED
    BY <2>1, <2>2
<1>5. CASE AdmitExternal
  <2>1. UNCHANGED kernel /\ (pc' = "admit" \/ (pc' = "idle" /\ result' = "failed"))
    BY <1>5 DEF AdmitExternal, Go, End
  <2>2. pc' = "admit" => Preserved'
    BY <1>5, AdmissionPreserves
  <2> QED
    BY <1>1, <2>1, <2>2 DEF Progress, Untouched, Ended, OkEnforces
<1>6. CASE CheckCapacity
  <2>1. UNCHANGED <<kernel, config, candidates, safelist, baseline>> /\ Preserved
    BY <1>6 DEF CheckCapacity, Progress, inputs
  <2>2. \/ /\ WithinCapacity(Effective(candidates, safelist), config.ipv6, config.maxelem)
           /\ pc' = "promote"
        \/ pc' = "idle" /\ result' = "failed"
    BY <1>6 DEF CheckCapacity, Go, End
  <2> QED
    BY <1>1, <2>1, <2>2, ListsKept DEF Progress, Untouched, Ended, OkEnforces
<1> QED
  BY <1>2, <1>3, <1>4, <1>5, <1>6

\* Promotion, and the last look at the cancellation flag.
LEMMA ProgressPromote ==
  ASSUME Types, Progress, UNCHANGED <<config, start>>, Promote \/ BeginEnforcement
  PROVE  Progress'
<1>1. /\ Untouched /\ Preserved /\ \A f \in Families : kernel[f].wired => kernel[f].present
      /\ WithinCapacity(Effective(candidates, safelist), config.ipv6, config.maxelem)
  BY DEF Promote, BeginEnforcement, Progress
<1>2. CASE Cancelled
  BY <1>1, <1>2, ProgressUntouched DEF Cancelled, End
<1>3. CASE ~ Cancelled
  <2>1. UNCHANGED <<kernel, candidates, safelist, baseline>>
    BY <1>3 DEF Promote, BeginEnforcement, inputs
  <2>2. \/ pc' = "promote"
        \/ pc' = "apply6" /\ config.ipv6
        \/ pc' = "apply4" /\ ~ config.ipv6
        \/ pc' = "idle" /\ result' = "failed"
    BY <1>3 DEF Promote, BeginEnforcement, Go, End, Types
  <2> QED
    BY <1>1, <2>1, <2>2, ListsKept DEF Progress, Untouched, Ended, OkEnforces
<1> QED
  BY <1>2, <1>3

LEMMA ProgressStep ==
  ASSUME Types, Staging, Progress, NEW loads, NextFrom(loads)
  PROVE  Progress'
<1>1. \A f \in Families : kernel[f].wired => kernel[f].present
  BY DEF Progress
<1>2. CASE Begin
  <2>1. UNCHANGED kernel /\ start' = kernel /\ pc' = "artifacts"
    BY <1>2 DEF Begin, Go
  <2> QED
    BY <1>1, <2>1 DEF Progress, Untouched, Ended, OkEnforces
<1>3. CASE Interrupt \/ UNCHANGED vars
  <2>1. UNCHANGED <<kernel, start, pc, config, candidates, safelist, baseline, result, disturbed>>
    BY <1>3 DEF Interrupt, vars, inputs
  <2> QED
    BY <2>1, ListsKept DEF Progress, Untouched, Ended, OkEnforces, Replaced, Of
<1>4. CASE Kill
  BY <1>1, <1>4, ProgressEnds DEF Kill, End
<1>5. CASE Reboot
  BY <1>5, ProgressEnds DEF Reboot, End, NoFamily
<1>6. CASE Flush
  <2>1. \A f \in Families : kernel'[f] = kernel[f] \/ kernel'[f] \in Remains(f)
    BY <1>6 DEF Flush, Types, Families, Remains
  <2>2. \A f \in Families : kernel'[f].wired => kernel'[f].present
    BY <1>1, <2>1, RemainsWired
  <2> QED
    BY <1>6, <2>2, ProgressEnds DEF Flush
<1>7. CASE StepFrom(loads)
  <2>1. UNCHANGED <<config, cancelled, start>>
    BY <1>7 DEF StepFrom
  <2> QED
    BY <1>7, <2>1, ProgressBefore, ProgressPromote, ProgressReplace, ProgressActivate,
       ProgressCleanup DEF StepFrom
<1> QED
  BY <1>2, <1>3, <1>4, <1>5, <1>6, <1>7 DEF NextFrom

LEMMA ProgressInvariant == Spec => []Progress
<1>1. Init => Progress
  BY DEF Init, InitSync, NoFamily, Progress, Untouched, Ended, OkEnforces
<1>2. Types /\ Staging /\ Progress /\ [Next]_vars => Progress'
  BY StepsOfSync, ProgressStep
<1> QED
  BY <1>1, <1>2, TypesInvariant, StagingInvariant, PTL DEF Spec

-----------------------------------------------------------------------------
LEMMA ProgressIsAllOrNothing ==
  ASSUME Types, Progress
  PROVE  AllOrNothing
<1>1. \A i \in DOMAIN pending : pending[i] \in Ids \X Batches
  BY DEF Types
<1>2. kernel \in [Families -> FamilyStates] /\ start \in [Families -> FamilyStates]
  BY DEF Types
<1>3. cache \in [Ids -> Generations]
  BY DEF Types
<1>4. TypeOK
  BY <1>1, <1>2, <1>3 DEF Types, Progress, TypeOK, FamilyStates, Generations
<1> QED
  BY <1>4 DEF Progress, AllOrNothing

(***************************************************************************)
(* All or nothing (execute in sync.rs): a sync that ends cancelled, or     *)
(* failed without a failing operation, has left the entries and the wiring *)
(* of both families as it found them.                                      *)
(***************************************************************************)
THEOREM SyncIsAllOrNothing == Spec => []AllOrNothing
BY ProgressIsAllOrNothing, TypesInvariant, ProgressInvariant, PTL

(***************************************************************************)
(* Success means enforced (execute, prepare_sync_entries,                  *)
(* admit_external_safelists): the sets of a successful sync hold the       *)
(* candidates without the safelist, INPUT is wired to them, and no         *)
(* external safelist has emptied a family that the operator's own lists    *)
(* fill.                                                                   *)
(***************************************************************************)
THEOREM SuccessIsEnforced == Spec => []OkEnforces
<1>1. Progress => OkEnforces
  BY DEF Progress
<1> QED
  BY <1>1, ProgressInvariant, PTL

(***************************************************************************)
(* The caches follow admission and precede enforcement                     *)
(* (promote_pending_caches): what a sync makes the current generation of   *)
(* an external provider was admitted into the safelist, and no set takes   *)
(* new entries before every batch that the sync staged and admitted is the *)
(* current generation of its provider.                                     *)
(***************************************************************************)
LEMMA PromotedIsAdmitted ==
  ASSUME Types, Staging, NEW loads, NextFrom(loads), NEW i \in DOMAIN Registry,
         Registry[i].role = "external", pc # "idle",
         cache'[Registry[i].id] # cache[Registry[i].id]
  PROVE  cache'[Registry[i].id][1] \subseteq safelist
<1> DEFINE q == Registry[i].id
<1>1. q \in Ids /\ cache \in [Ids -> Generations]
  BY ProviderFacts DEF Types
<1>2. Promote /\ ~ Cancelled
  BY DEF NextFrom, StepFrom, Begin, Interrupt, Kill, Reboot, Flush, EnsureArtifacts,
         LoadSourceFrom, BeginAdmission, AdmitExternal, CheckCapacity, Promote, Cancelled,
         BeginEnforcement, ApplyIpv6, ApplyIpv4, ReplaceSet, Activate, CleanupDisabledIpv6, vars
<1> DEFINE p == Head(pending)[1]
           nets == Head(pending)[2]
<1>3. PICK c \in Promotions(p, nets) : cache' = [cache EXCEPT ![p] = c]
  BY <1>2 DEF Promote
<1>4. pending \in Seq(Ids \X Batches) /\ pending # <<>>
  BY <1>2 DEF Promote, Types
<1>5. 1 \in DOMAIN pending /\ pending[1] = Head(pending)
  BY <1>4
<1> HIDE DEF q
<1>6. p = q /\ cache'[q] = c
  <2> HIDE DEF p, nets
  <2> QED
    BY <1>1, <1>3 DEF q
<1>7. c[1] = nets
  BY <1>3 DEF Promotions
<1>8. nets \subseteq safelist
  BY <1>5, <1>6 DEF Staging, PendingIsAdmitted, q
<1> QED
  BY <1>6, <1>7, <1>8 DEF q

LEMMA EnforcedIsCached ==
  ASSUME Types, Staging, NEW loads, NextFrom(loads), NEW f \in Families,
         kernel'[f].entries \notin {{}, kernel[f].entries}
  PROVE  \A p \in Ids : fresh[p] # <<>> => cache[p] # <<>> /\ cache[p][1] = fresh[p][1]
<1>1. \A k \in FamilyStates, b \in BOOLEAN :
        /\ [k EXCEPT !.present = TRUE].entries = k.entries
        /\ [k EXCEPT !.wired = b].entries = k.entries
  BY DEF FamilyStates
<1>2. kernel[f] \in FamilyStates
  BY DEF Types
<1>3. kernel'[f] # kernel[f] /\ kernel'[f] # NoFamily
  BY DEF NoFamily
<1>4. ~ EnsureArtifacts
  <2>1. EnsureArtifacts =>
          kernel'[f] = kernel[f] \/ kernel'[f] = [kernel[f] EXCEPT !.present = TRUE]
    BY DEF EnsureArtifacts
  <2> QED
    BY <1>1, <1>2, <2>1
<1>5. ~ Activate
  <2>1. Activate => \E some : kernel' = Wire(some)
    BY DEF Activate
  <2>2. Activate => kernel'[f] = kernel[f] \/ kernel'[f] = [kernel[f] EXCEPT !.wired = TRUE]
    BY <2>1 DEF Wire
  <2> QED
    BY <1>1, <1>2, <2>2
<1>6. kernel'[f] \notin Remains(f)
  BY <1>1, <1>2, <1>3 DEF Remains
<1>7. ~ CleanupDisabledIpv6 /\ ~ Flush
  BY <1>3, <1>6 DEF CleanupDisabledIpv6, Flush, Types, Families
<1>8. ApplyIpv6 \/ ApplyIpv4
  BY <1>3, <1>4, <1>5, <1>7
  DEF NextFrom, StepFrom, Begin, Interrupt, Kill, Reboot, LoadSourceFrom, BeginAdmission,
      AdmitExternal, CheckCapacity, Promote, Cancelled, BeginEnforcement, vars
<1>9. pc \in {"apply6", "apply4"} /\ pending = <<>>
  BY <1>8 DEF ApplyIpv6, ApplyIpv4, Staging
<1> QED
  BY <1>9 DEF Staging, FreshIsKept, Cached

THEOREM CachesPrecedeEnforcement == Spec => CacheIsEnforced
<1>1. Types /\ Staging /\ [Next]_vars =>
        [/\ \A i \in DOMAIN Registry :
              LET p == Registry[i].id IN
              Registry[i].role = "external" /\ pc # "idle" /\ cache'[p] # cache[p] =>
                cache'[p][1] \subseteq safelist
         /\ (\E f \in Families : kernel'[f].entries \notin {{}, kernel[f].entries}) =>
              \A p \in Ids : fresh[p] # <<>> => cache[p] # <<>> /\ cache[p][1] = fresh[p][1]]_vars
  BY StepsOfSync, PromotedIsAdmitted, EnforcedIsCached
<1> QED
  BY <1>1, TypesInvariant, StagingInvariant, PTL DEF Spec, CacheIsEnforced

-----------------------------------------------------------------------------
(***************************************************************************)
(* Previews.  What a preview loads, and what the sync after it loads, is a *)
(* replay of the same answers of the network over the same files and       *)
(* caches.  tr[k] is what the first k providers of a replay have added.    *)
(***************************************************************************)
ReadSet == [nets : Batches, fallback : SUBSET Batches, answer : Batches \cup {None}]

\* What a provider reads when the network says answer.
ReadOf(p, answer) ==
  IF ~ p.cached THEN Read(FileOf(p.id, saved.config, saved.temporary), {}, None)
  ELSE IF answer = None
  THEN Read(Current(p.id), IF p.role = "external" THEN Previous(p.id) ELSE {}, None)
  ELSE Read(answer,
            IF p.role = "external" THEN {cache[p.id][i] : i \in DOMAIN cache[p.id] \cap {1}}
                                   ELSE {}, answer)

Loaded(c, s, e) == [candidates |-> c, safelist |-> s, external |-> e]

Replayed == [candidates : Batches, safelist : Batches, external : Seq(ReadSet)]

With(l, p, r) ==
  Loaded(l.candidates \cup IF p.role = "candidate" THEN r.nets ELSE {},
         l.safelist \cup IF p.role = "safelist" THEN r.nets ELSE {},
         l.external \o IF p.role = "external" THEN <<r>> ELSE <<>>)

Replays(tr, answers, k) ==
  /\ \A i \in 0 .. k : tr[i] \in Replayed
  /\ tr[0] = Loaded({}, {}, <<>>)
  /\ \A i \in 1 .. k : tr[i] = With(tr[i - 1], Registry[i], ReadOf(Registry[i], answers[i]))

\* What the operator's own lists leave of a replay.
Base(l) == EffectiveLists(l.candidates, l.safelist, saved.config.ipv6)

\* One external safelist r is admitted on top of s, or its fallback is.
AdmitOn(c, s, v6, base, r) ==
  LET fits(nets) == PreservesBaseline(c, s, nets, v6, base)
  IN s \cup IF fits(r.nets) THEN r.nets ELSE UNION {b \in r.fallback : fits(b)}

\* sl[j] is the safelist after the admission of the first j external ones.
Admits(sl, l) ==
  /\ sl[0] = l.safelist
  /\ \A j \in 1 .. Len(l.external) :
       sl[j] = AdmitOn(l.candidates, sl[j - 1], saved.config.ipv6, Base(l), l.external[j])

PlanOf(conf, c, s) ==
  LET plan == EffectiveLists(c, s, conf.ipv6)
  IN IF WithinCapacity(plan, conf.ipv6, conf.maxelem) THEN plan ELSE None

\* A prediction is the outcome of the replay tr with the admissions sl.
Foretells(prediction, tr, sl) ==
  LET all == tr[Len(Registry)] IN
  /\ Replays(tr, prediction.answers, Len(Registry))
  /\ Admits(sl, all)
  /\ prediction.plan = PlanOf(saved.config, all.candidates, sl[Len(all.external)])

ViewType ==
  [pc : {"lock", "config", "temporary", "load"}, network : BOOLEAN,
   config : SavedConfigs \cup {None}, temporary : Batches, loaded : 0 .. Len(Registry),
   candidates : Batches, safelist : Batches, external : Seq(ReadSet),
   answers : Seq(Batches \cup {None})]

PreviewTypes == view = Idle \/ view \in ViewType

(***************************************************************************)
(* The lock: who holds it, and that a sync and a preview exclude each other *)
(***************************************************************************)
Reading == view.pc \in {"config", "temporary", "load"}

LockInv ==
  /\ lock \subseteq {Held("shared", "preview"), Held("exclusive", "sync")}
  /\ Held("shared", "preview") \in lock <=> Reading
  /\ Held("exclusive", "sync") \in lock <=> pc # "idle"
  /\ Reading => pc = "idle"

\* The files that a preview has read are still so.
ViewFiles ==
  /\ view.pc \in {"temporary", "load"} => view.config = saved.config
  /\ view.pc = "load" => view.temporary = saved.temporary

\* What a preview has loaded is a replay of the answers that it got.
ViewReplays ==
  /\ view.pc \in {"lock", "config", "temporary"} =>
       /\ view.loaded = 0 /\ view.answers = <<>>
       /\ view.candidates = {} /\ view.safelist = {} /\ view.external = <<>>
  /\ view.pc = "load" =>
       /\ Len(view.answers) = view.loaded /\ Len(view.external) <= view.loaded
       /\ \E tr, n, answers :
            /\ n = view.loaded /\ answers = view.answers /\ Replays(tr, answers, n)
            /\ tr[n] = Loaded(view.candidates, view.safelist, view.external)

\* A prediction that still stands is what the files and caches of now lead to.
PredictionInv ==
  predicted # None => \E x, tr, sl : x = predicted /\ Foretells(x, tr, sl)

\* A safelist that waits in the sync is the one that the preview read.
SameRead(l, r) == l.nets = r.nets /\ l.fallback = r.fallback /\ ~ l.failure

\* The sync is at the same point of the replay, until it has the same plan.
Follows(tr, sl) ==
  /\ pc \in {"artifacts", "load"} =>
       /\ candidates = tr[loaded].candidates /\ safelist = tr[loaded].safelist
       /\ Len(external) = Len(tr[loaded].external)
       /\ \A i \in DOMAIN external : SameRead(external[i].load, tr[loaded].external[i])
  /\ pc = "admit" =>
       LET all == tr[Len(Registry)]
           j == Len(all.external) - Len(external)
       IN /\ candidates = all.candidates /\ baseline = Base(all)
          /\ j \in Nat /\ safelist = sl[j]
          /\ \A i \in DOMAIN external : SameRead(external[i].load, all.external[j + i])

PromiseInv ==
  promised # None =>
    /\ pc # "idle" => ~ disturbed
    /\ pc # "idle" => config = [ipv6 |-> saved.config.ipv6, maxelem |-> saved.config.maxelem]
    /\ pc = "artifacts" => loaded = 0
    /\ pc \in {"artifacts", "load", "admit"} =>
         \E x, tr, sl : x = promised /\ Foretells(x, tr, sl) /\ Follows(tr, sl)
    /\ pc \in {"promote", "apply6", "apply4", "activate", "cleanup"} \/ Ended("ok") =>
         promised.plan # None /\ promised.plan = Effective(candidates, safelist)
    /\ Ended("failed") => promised.plan = None

-----------------------------------------------------------------------------
(***************************************************************************)
(* Syncs beside previews.                                                  *)
(***************************************************************************)
SavedTypes == saved \in [config : SavedConfigs, local : SavedLists, temporary : SavedLists]

\* The files are lists of networks.
LEMMA FileTyped ==
  ASSUME SavedTypes, NEW j \in DOMAIN Registry, ~ Registry[j].cached,
         NEW c \in SavedConfigs, NEW b \in Batches
  PROVE  FileOf(Registry[j].id, c, b) \in Batches
<1>1. Registry[j].id \in {"local-blocklist", "temporary-blocklist", "config-safelist"}
  BY PreviewAssumption
<1>2. saved.local \in Batches /\ c.safe \in Batches
  BY PreviewAssumption DEF SavedTypes, Batches
<1> QED
  BY <1>1, <1>2 DEF FileOf

LEMMA StepsOfPreview ==
  ASSUME Types, SavedTypes, [NextPreview]_allVars
  PROVE  \E loads : NextFrom(loads) /\ (loaded < Len(Registry) => WellFormed(loads))
<1> DEFINE p == Registry[loaded + 1]
<1>1. loaded < Len(Registry) => WellFormed(SyncLoads(p))
  <2> SUFFICES ASSUME loaded < Len(Registry), NEW l \in SyncLoads(p)
               PROVE  l \in LoadSet /\ \A b, c \in l.fallback : b = c
    BY DEF WellFormed
  <2>1. loaded + 1 \in DOMAIN Registry
    BY RegistryLength DEF Types
  <2>2. CASE p.cached
    BY <2>1, <2>2, LoadsTyped DEF SyncLoads
  <2>3. CASE ~ p.cached
    <3> DEFINE b == FileOf(p.id, saved.config, saved.temporary)
    <3>1. b \in Batches
      <4>1. saved.config \in SavedConfigs /\ saved.temporary \in Batches
        BY PreviewAssumption DEF SavedTypes, Batches
      <4> QED
        BY <2>1, <2>3, <4>1, FileTyped
    <3>2. l = Load(b, {}, FALSE, FALSE)
      BY <2>3 DEF SyncLoads
    <3> HIDE DEF b
    <3>3. l = [nets |-> b, fallback |-> {}, staged |-> FALSE, failure |-> FALSE]
      BY <3>2 DEF Load
    <3> QED
      BY <3>1, <3>3 DEF LoadSet
  <2> QED
    BY <2>2, <2>3
<1>2. NextFrom(SyncLoads(p))
  <2>1. LockForSync => Begin
    BY DEF LockForSync
  <2>2. SyncStep => StepFrom(SyncLoads(p))
    BY DEF SyncStep, LoadForSync, StepFrom
  <2>3. InterruptSync => Interrupt
    BY DEF InterruptSync
  <2>4. KillSync => Kill
    BY DEF KillSync
  <2>5. StartPreview \/ LockForPreview \/ ReadConfig \/ ReadTemporary \/ LoadForPreview
        \/ FinishPreview \/ FailPreview \/ ChildExits \/ Save \/ Rest \/ UNCHANGED allVars
          => UNCHANGED vars
    BY DEF StartPreview, LockForPreview, ReadConfig, ReadTemporary, LoadForPreview,
           FinishPreview, FailPreview, ChildExits, Save, Rest, allVars, Unchanged
  <2> QED
    BY <2>1, <2>2, <2>3, <2>4, <2>5 DEF NextPreview, NextFrom
<1> QED
  BY <1>1, <1>2

\* Only Save changes the files.
LEMMA FilesKept ==
  ASSUME SavedTypes, [NextPreview]_allVars
  PROVE  SavedTypes' /\ (saved' = saved \/ (Save /\ UNCHANGED vars))
<1>1. CASE Save
  BY <1>1 DEF Save, SavedTypes
<1>2. CASE ~ Save
  <2>1. saved' = saved
    BY <1>2
    DEF NextPreview, StartPreview, LockForPreview, ReadConfig, ReadTemporary, LoadForPreview,
        FinishPreview, FailPreview, LockForSync, SyncStep, InterruptSync, KillSync, ChildExits,
        Rest, allVars, Unchanged, files, KeepPreview
  <2> QED
    BY <2>1 DEF SavedTypes
<1> QED
  BY <1>1, <1>2 DEF Save

SyncInv == Types /\ Staging /\ Progress /\ SavedTypes

\* What holds of syncs alone holds beside previews and edits.
LEMMA SyncInvariant == SpecPreview => []SyncInv
<1>1. InitPreview => SyncInv
  <2> SUFFICES ASSUME InitPreview PROVE SyncInv
    OBVIOUS
  <2>1. InitSync /\ cache \in [Ids -> Generations] /\ SavedTypes
    BY PreviewAssumption DEF InitPreview, Generations, Batches, SavedTypes
  <2>2. Types /\ Staging
    BY <2>1, TypesInit, NothingStaged DEF InitSync
  <2>3. Progress
    BY <2>1 DEF InitSync, NoFamily, Progress, Untouched, Ended, OkEnforces
  <2> QED
    BY <2>1, <2>2, <2>3 DEF SyncInv
<1>2. SyncInv /\ [NextPreview]_allVars => SyncInv'
  BY StepsOfPreview, TypesStep, StagingStep, ProgressStep, FilesKept DEF SyncInv
<1> QED
  BY <1>1, <1>2, PTL DEF SpecPreview

(***************************************************************************)
(* A sync that runs while previews, edits and commands of killed syncs do, *)
(* and whose uncached providers read the saved files (preview.rs, lock.rs), *)
(* keeps what it promises alone.                                           *)
(***************************************************************************)
THEOREM SyncsBesidePreviews ==
  SpecPreview => []AllOrNothing /\ []OkEnforces /\ CacheIsEnforced
<1>1. SyncInv => AllOrNothing /\ OkEnforces
  BY ProgressIsAllOrNothing DEF SyncInv, Progress
<1>2. SyncInv /\ [NextPreview]_allVars =>
        [/\ \A i \in DOMAIN Registry :
              LET p == Registry[i].id IN
              Registry[i].role = "external" /\ pc # "idle" /\ cache'[p] # cache[p] =>
                cache'[p][1] \subseteq safelist
         /\ (\E f \in Families : kernel'[f].entries \notin {{}, kernel[f].entries}) =>
              \A p \in Ids : fresh[p] # <<>> => cache[p] # <<>> /\ cache[p][1] = fresh[p][1]]_vars
  BY StepsOfPreview, PromotedIsAdmitted, EnforcedIsCached DEF SyncInv
<1> QED
  BY <1>1, <1>2, SyncInvariant, PTL DEF SpecPreview, CacheIsEnforced

-----------------------------------------------------------------------------
(***************************************************************************)
(* The lock and the files under it.                                        *)
(***************************************************************************)
\* A preview that moves on.
LEMMA ViewMoves ==
  ASSUME view \in ViewType, NEW q \in {"lock", "config", "temporary", "load"}
  PROVE  LET v == [view EXCEPT !.pc = q] IN
         /\ v \in ViewType /\ v.pc = q /\ v.network = view.network /\ v.config = view.config
         /\ v.temporary = view.temporary /\ v.loaded = view.loaded
         /\ v.candidates = view.candidates /\ v.safelist = view.safelist
         /\ v.external = view.external /\ v.answers = view.answers
BY DEF ViewType

LEMMA ViewPc ==
  ASSUME PreviewTypes
  PROVE  \/ view = Idle /\ view.pc = "idle" /\ ~ Reading
         \/ view # Idle /\ view \in ViewType /\ view.pc \in {"lock", "config", "temporary", "load"}
BY DEF PreviewTypes, Idle, ViewType, Reading

\* The two locks that there are, and what their ends leave.
LEMMA LockEnds ==
  ASSUME NEW P, NEW S, P = Held("shared", "preview"), S = Held("exclusive", "sync")
  PROVE  /\ P # S /\ P.mode = "shared" /\ S.mode = "exclusive"
         /\ lock \subseteq {P, S} =>
              /\ Drop("preview") => lock' = lock \ {P}
              /\ Close("preview") => lock' = lock \ {P}
              /\ Drop("sync") => lock' = lock \ {S}
              /\ Close("sync") => lock' = lock \ {S}
              /\ Close("child") => lock' = lock
<1>1. P = [mode |-> "shared", open |-> {"preview"}] /\ S = [mode |-> "exclusive", open |-> {"sync"}]
  BY DEF Held, Inherited
<1>2. P.mode = "shared" /\ P.open = {"preview"} /\ S.mode = "exclusive" /\ S.open = {"sync"}
  BY <1>1
<1>3. ASSUME lock \subseteq {P, S}, NEW o, Drop(o)
      PROVE  lock' = {l \in lock : o \notin l.open}
  BY <1>3 DEF Drop
<1>4. ASSUME lock \subseteq {P, S}, NEW o, Close(o)
      PROVE  lock' = {l \in {[k EXCEPT !.open = @ \ {o}] : k \in lock} : l.open # {}}
  BY <1>4 DEF Close
<1>5. ASSUME NEW o, o # "preview"
      PROVE  [P EXCEPT !.open = @ \ {o}] = P
  <2>1. P.open \ {o} = P.open
    BY <1>2, <1>5
  <2> QED
    BY <1>1, <2>1
<1>6. ASSUME NEW o, o # "sync"
      PROVE  [S EXCEPT !.open = @ \ {o}] = S
  <2>1. S.open \ {o} = S.open
    BY <1>2, <1>6
  <2> QED
    BY <1>1, <2>1
<1>7. [P EXCEPT !.open = @ \ {"preview"}].open = {} /\ [S EXCEPT !.open = @ \ {"sync"}].open = {}
  BY <1>1
<1>8. ASSUME lock \subseteq {P, S}, Drop("preview") PROVE lock' = lock \ {P}
  BY <1>2, <1>3, <1>8
<1>9. ASSUME lock \subseteq {P, S}, Drop("sync") PROVE lock' = lock \ {S}
  BY <1>2, <1>3, <1>9
<1>10. ASSUME lock \subseteq {P, S}, Close("preview") PROVE lock' = lock \ {P}
  <2> DEFINE C(k) == [k EXCEPT !.open = @ \ {"preview"}]
  <2>1. lock' = {l \in {C(k) : k \in lock} : l.open # {}}
    BY <1>4, <1>10
  <2>2. C(S) = S /\ C(P).open = {} /\ S.open # {}
    BY <1>2, <1>6, <1>7
  <2> HIDE DEF C
  <2>3. \A l : l \in lock' <=> l.open # {} /\ \E k \in lock : l = C(k)
    BY <2>1, Zenon
  <2> QED
    BY <1>2, <1>10, <2>2, <2>3
<1>11. ASSUME lock \subseteq {P, S}, Close("sync") PROVE lock' = lock \ {S}
  <2> DEFINE C(k) == [k EXCEPT !.open = @ \ {"sync"}]
  <2>1. lock' = {l \in {C(k) : k \in lock} : l.open # {}}
    BY <1>4, <1>11
  <2>2. C(P) = P /\ C(S).open = {} /\ P.open # {}
    BY <1>2, <1>5, <1>7
  <2> HIDE DEF C
  <2>3. \A l : l \in lock' <=> l.open # {} /\ \E k \in lock : l = C(k)
    BY <2>1, Zenon
  <2> QED
    BY <1>2, <1>11, <2>2, <2>3
<1>12. ASSUME lock \subseteq {P, S}, Close("child") PROVE lock' = lock
  <2> DEFINE C(k) == [k EXCEPT !.open = @ \ {"child"}]
  <2>1. lock' = {l \in {C(k) : k \in lock} : l.open # {}}
    BY <1>4, <1>12
  <2>2. C(P) = P /\ C(S) = S /\ P.open # {} /\ S.open # {}
    BY <1>2, <1>5, <1>6
  <2> HIDE DEF C
  <2>3. \A l : l \in lock' <=> l.open # {} /\ \E k \in lock : l = C(k)
    BY <2>1, Zenon
  <2> QED
    BY <1>12, <2>2, <2>3
<1> QED
  BY <1>2, <1>8, <1>9, <1>10, <1>11, <1>12

\* What a provider reads is a function of what the network says.
LEMMA ReadOfTyped ==
  ASSUME Types, SavedTypes, NEW j \in DOMAIN Registry, NEW a \in Batches \cup {None}
  PROVE  ReadOf(Registry[j], a) \in ReadSet
<1> DEFINE p == Registry[j]
<1>1. ASSUME NEW nets \in Batches, NEW F \in SUBSET Batches, NEW b \in Batches \cup {None}
      PROVE  Read(nets, F, b) \in ReadSet
  BY DEF Read, ReadSet
<1>2. ~ p.cached => FileOf(p.id, saved.config, saved.temporary) \in Batches
  <2>1. saved.config \in SavedConfigs /\ saved.temporary \in Batches
    BY PreviewAssumption DEF SavedTypes, Batches
  <2> QED
    BY <2>1, FileTyped
<1>3. cache[p.id] \in Seq(Batches)
  BY ProviderFacts DEF Types, Generations
<1>4. \A i \in DOMAIN cache[p.id] : cache[p.id][i] \in Batches
  BY <1>3
<1>5. Current(p.id) \in Batches /\ Previous(p.id) \in SUBSET Batches
      /\ {cache[p.id][i] : i \in DOMAIN cache[p.id] \cap {1}} \in SUBSET Batches
      /\ {} \in Batches /\ {} \in SUBSET Batches
  <2>1. {} \in Batches
    BY DEF Batches
  <2>2. cache[p.id] # <<>> => 1 \in DOMAIN cache[p.id]
    BY <1>3
  <2>3. ~ Len(cache[p.id]) < 2 => 2 \in DOMAIN cache[p.id]
    BY <1>3
  <2> QED
    BY <1>4, <2>1, <2>2, <2>3 DEF Current, Previous
<1>6. a # None => a \in Batches
  OBVIOUS
<1> QED
  BY <1>1, <1>2, <1>5, <1>6 DEF ReadOf

LEMMA ReadsReplay ==
  ASSUME SavedTypes, NEW j \in DOMAIN Registry, NEW r \in Reads(Registry[j]),
         view.config = saved.config, view.temporary = saved.temporary
  PROVE  r.answer \in Batches \cup {None} /\ r = ReadOf(Registry[j], r.answer)
<1> DEFINE p == Registry[j]
           kept == {cache[p.id][i] : i \in DOMAIN cache[p.id] \cap {1}}
           file == FileOf(p.id, saved.config, saved.temporary)
<1>1. \A nets, F, a : Read(nets, F, a).answer = a
  BY DEF Read
<1>2. \A b \in Offers[p.id] : b \in Batches /\ b # None
  BY ProviderFacts, PreviewAssumption DEF Batches
<1>3. \/ ~ p.cached /\ r = Read(file, {}, None)
      \/ p.cached /\ p.role = "external" /\ r = Read(Current(p.id), Previous(p.id), None)
      \/ p.cached /\ p.role = "external" /\ \E b \in Offers[p.id] : r = Read(b, kept, b)
      \/ p.cached /\ p.role # "external" /\ r = Read(Current(p.id), {}, None)
      \/ p.cached /\ p.role # "external" /\ \E b \in Offers[p.id] : r = Read(b, {}, b)
  BY DEF Reads, MetaReads, FeedReads
<1> HIDE DEF kept, file
<1>4. \A a : ReadOf(p, a) =
        IF ~ p.cached THEN Read(file, {}, None)
        ELSE IF a = None
        THEN Read(Current(p.id), IF p.role = "external" THEN Previous(p.id) ELSE {}, None)
        ELSE Read(a, IF p.role = "external" THEN kept ELSE {}, a)
  BY DEF ReadOf, kept, file
<1> HIDE DEF p
<1>5. r.answer \in Batches \cup {None} /\ r = ReadOf(p, r.answer)
  BY <1>1, <1>2, <1>3, <1>4
<1> QED
  BY <1>5 DEF p

(***************************************************************************)
(* The types of a preview, the lock, and the files that have been read.    *)
(***************************************************************************)
PreviewInv == PreviewTypes /\ LockInv /\ ViewFiles

LEMMA PreviewStarts ==
  ASSUME SyncInv, PreviewInv, StartPreview
  PROVE  PreviewInv'
<1>1. PICK network \in BOOLEAN :
        view' = [pc |-> "lock", network |-> network, config |-> None, temporary |-> {},
                 loaded |-> 0, candidates |-> {}, safelist |-> {}, external |-> <<>>,
                 answers |-> <<>>]
  BY DEF StartPreview
<1>2. view' \in ViewType /\ view'.pc = "lock"
  <2>1. {} \in Batches /\ 0 \in 0 .. Len(Registry)
        /\ <<>> \in Seq(ReadSet) /\ <<>> \in Seq(Batches \cup {None})
    BY RegistryLength, EmptySeq DEF Batches
  <2> QED
    BY <1>1, <2>1 DEF ViewType
<1>3. ~ Reading /\ ~ Reading' /\ UNCHANGED <<lock, saved, pc>>
  BY <1>2 DEF StartPreview, Idle, Reading, vars
<1> QED
  BY <1>2, <1>3 DEF PreviewInv, PreviewTypes, LockInv, ViewFiles, Held, Inherited

LEMMA PreviewEnds ==
  ASSUME PreviewInv, view' = Idle, UNCHANGED <<saved, pc>>,
         \/ Drop("preview") \/ Close("preview")
         \/ UNCHANGED lock /\ ~ Reading
  PROVE  PreviewInv'
<1> DEFINE P == Held("shared", "preview")
           S == Held("exclusive", "sync")
<1>1. P # S /\ (lock' = lock \ {P} \/ (lock' = lock /\ ~ Reading))
  BY LockEnds DEF PreviewInv, LockInv
<1>2. ~ Reading' /\ view'.pc = "idle" /\ P' = P /\ S' = S
  BY DEF Reading, Idle, Held, Inherited
<1> HIDE DEF P, S
<1>3. LockInv'
  <2>1. lock \subseteq {P, S} /\ (P \in lock <=> Reading) /\ (S \in lock <=> pc # "idle")
    BY DEF PreviewInv, LockInv, P, S
  <2>2. lock' \subseteq {P', S'} /\ (P' \in lock' <=> Reading') /\ (S' \in lock' <=> pc' # "idle")
    BY <1>1, <1>2, <2>1
  <2> QED
    BY <1>2, <2>2 DEF LockInv, P, S
<1> QED
  BY <1>2, <1>3 DEF PreviewInv, PreviewTypes, ViewFiles

LEMMA PreviewMoves ==
  ASSUME SyncInv, PreviewInv, LockForPreview \/ ReadConfig \/ ReadTemporary \/ LoadForPreview
  PROVE  PreviewInv'
<1> DEFINE P == Held("shared", "preview")
           S == Held("exclusive", "sync")
<1>1. UNCHANGED <<saved, pc>>
  BY DEF LockForPreview, ReadConfig, ReadTemporary, LoadForPreview, Unchanged, vars, files
<1>2. P # S /\ S.mode = "exclusive" /\ P' = P /\ S' = S
  BY LockEnds DEF Held, Inherited
<1>3. view \in ViewType
  <2>1. view.pc # "idle"
    BY DEF LockForPreview, ReadConfig, ReadTemporary, LoadForPreview
  <2> QED
    BY <2>1, ViewPc DEF PreviewInv
<1>4. saved.config \in SavedConfigs /\ saved.temporary \in Batches
  BY PreviewAssumption DEF SyncInv, SavedTypes, Batches
<1> HIDE DEF P, S
<1>5. lock \subseteq {P, S} /\ (P \in lock <=> Reading) /\ (S \in lock <=> pc # "idle")
      /\ (Reading => pc = "idle")
  BY DEF PreviewInv, LockInv, P, S
<1>6. ASSUME view' \in ViewType, Reading', ViewFiles', pc = "idle",
             lock' = lock \cup {P}
      PROVE  PreviewInv'
  <2>1. lock' \subseteq {P', S'} /\ (P' \in lock' <=> Reading') /\ (S' \in lock' <=> pc' # "idle")
    BY <1>1, <1>2, <1>5, <1>6
  <2> QED
    BY <1>1, <1>6, <2>1 DEF PreviewInv, PreviewTypes, LockInv, P, S
<1>7. CASE LockForPreview
  <2>1. CASE lockFile /\ Free("shared")
    <3>1. lock' = lock \cup {P} /\ view' = [view EXCEPT !.pc = "config"]
      BY <1>7, <2>1 DEF LockForPreview, AcquireShared, P
    <3>2. view' \in ViewType /\ view'.pc = "config"
      BY <1>3, <3>1, ViewMoves
    <3>3. pc = "idle"
      BY <1>2, <1>5, <2>1 DEF Free
    <3> QED
      BY <1>6, <3>1, <3>2, <3>3 DEF Reading, ViewFiles
  <2>2. CASE ~ (lockFile /\ Free("shared"))
    BY <1>1, <1>7, <2>2, PreviewEnds DEF LockForPreview, AcquireShared, Reading
  <2> QED
    BY <2>1, <2>2
<1>8. ASSUME Reading, UNCHANGED lock, view' \in ViewType, Reading', ViewFiles'
      PROVE  PreviewInv'
  BY <1>5, <1>6, <1>8
<1>9. CASE ReadConfig
  <2>1. view' = [view EXCEPT !.pc = "temporary", !.config = saved.config] /\ UNCHANGED lock
    BY <1>9 DEF ReadConfig
  <2>2. view' \in ViewType /\ view'.pc = "temporary" /\ view'.config = saved.config
    BY <1>3, <1>4, <2>1 DEF ViewType
  <2> QED
    BY <1>1, <1>8, <1>9, <2>1, <2>2 DEF ReadConfig, Reading, ViewFiles
<1>10. CASE ReadTemporary
  <2>1. view' = [view EXCEPT !.pc = "load", !.temporary = saved.temporary] /\ UNCHANGED lock
    BY <1>10 DEF ReadTemporary
  <2>2. /\ view' \in ViewType /\ view'.pc = "load" /\ view'.temporary = saved.temporary
        /\ view'.config = view.config
    BY <1>3, <1>4, <2>1 DEF ViewType
  <2>3. view.config = saved.config
    BY <1>10 DEF ReadTemporary, PreviewInv, ViewFiles
  <2> QED
    BY <1>1, <1>8, <1>10, <2>1, <2>2, <2>3 DEF ReadTemporary, Reading, ViewFiles
<1>11. CASE LoadForPreview
  <2> DEFINE p == Registry[view.loaded + 1]
  <2>1. PICK l \in Reads(p) :
          view' = [pc |-> "load", network |-> view.network, config |-> view.config,
                   temporary |-> view.temporary,
                   loaded |-> view.loaded + 1,
                   candidates |-> view.candidates \cup IF p.role = "candidate" THEN l.nets ELSE {},
                   safelist |-> view.safelist \cup IF p.role = "safelist" THEN l.nets ELSE {},
                   external |-> view.external \o IF p.role = "external" THEN <<l>> ELSE <<>>,
                   answers |-> Append(view.answers, l.answer)]
    BY <1>11 DEF LoadForPreview
  <2>2. view.pc = "load" /\ view.config = saved.config /\ view.temporary = saved.temporary
        /\ view.loaded < Len(Registry) /\ view.loaded \in Nat /\ UNCHANGED lock
    BY <1>3, <1>11, RegistryLength DEF LoadForPreview, PreviewInv, ViewFiles, ViewType
  <2>3. view.loaded + 1 \in DOMAIN Registry /\ view.loaded + 1 \in 0 .. Len(Registry)
    BY <2>2, RegistryLength
  <2>4. l.answer \in Batches \cup {None} /\ l \in ReadSet
    <3>1. l.answer \in Batches \cup {None} /\ l = ReadOf(p, l.answer)
      BY <2>2, <2>3, ReadsReplay DEF SyncInv
    <3> QED
      BY <2>3, <3>1, ReadOfTyped DEF SyncInv
  <2> DEFINE cands == view.candidates \cup IF p.role = "candidate" THEN l.nets ELSE {}
             safe == view.safelist \cup IF p.role = "safelist" THEN l.nets ELSE {}
             ext == view.external \o IF p.role = "external" THEN <<l>> ELSE <<>>
             answers == Append(view.answers, l.answer)
  <2>5. /\ view.candidates \in Batches /\ view.safelist \in Batches
        /\ view.external \in Seq(ReadSet) /\ view.answers \in Seq(Batches \cup {None})
        /\ view.network \in BOOLEAN /\ view.config \in SavedConfigs \cup {None}
        /\ view.temporary \in Batches
    BY <1>3 DEF ViewType
  <2>6. l.nets \in Batches
    BY <2>4 DEF ReadSet
  <2>7. cands \in Batches /\ safe \in Batches
    BY <2>5, <2>6 DEF Batches
  <2>8. ext \in Seq(ReadSet)
    <3> HIDE DEF p
    <3> DEFINE R == ReadSet
    <3> HIDE DEF R
    <3>1. view.external \in Seq(R) /\ <<l>> \in Seq(R) /\ <<>> \in Seq(R)
      BY <2>4, <2>5 DEF R
    <3>2. ext \in Seq(R)
      BY <3>1, ConcatProperties
    <3> QED
      BY <3>2 DEF R
  <2>9. answers \in Seq(Batches \cup {None})
    BY <2>4, <2>5
  <2>10. view' = [pc |-> "load", network |-> view.network, config |-> view.config,
                  temporary |-> view.temporary, loaded |-> view.loaded + 1,
                  candidates |-> cands, safelist |-> safe, external |-> ext, answers |-> answers]
    BY <2>1
  <2> HIDE DEF p, cands, safe, ext, answers
  <2>11. view' \in ViewType
    BY <2>3, <2>5, <2>7, <2>8, <2>9, <2>10 DEF ViewType
  <2>12. view'.pc = "load" /\ view'.config = saved.config /\ view'.temporary = saved.temporary
    BY <2>2, <2>10
  <2> QED
    BY <1>1, <1>8, <2>2, <2>11, <2>12 DEF Reading, ViewFiles
<1> QED
  BY <1>7, <1>9, <1>10, <1>11

\* A step of a sync starts where a sync runs.
LEMMA SyncRuns == SyncStep \/ KillSync \/ InterruptSync => pc # "idle"
BY DEF SyncStep, LoadForSync, LoadSourceFrom, EnsureArtifacts, BeginAdmission, AdmitExternal,
       CheckCapacity, Promote, BeginEnforcement, ApplyIpv6, ApplyIpv4, Activate,
       CleanupDisabledIpv6, KillSync, Kill, InterruptSync, Interrupt

LEMMA PreviewWaits ==
  ASSUME PreviewInv, LockForSync \/ SyncStep \/ InterruptSync \/ KillSync \/ ChildExits
  PROVE  PreviewInv'
<1> DEFINE P == Held("shared", "preview")
           S == Held("exclusive", "sync")
<1>1. UNCHANGED <<saved, view>>
  BY DEF LockForSync, SyncStep, InterruptSync, KillSync, ChildExits, KeepPreview, files
<1>2. P # S /\ P' = P /\ S' = S
  BY LockEnds DEF Held, Inherited
<1>3. /\ lock \subseteq {P, S}
      /\ Drop("sync") \/ Close("sync") => lock' = lock \ {S}
      /\ Close("child") => lock' = lock
  BY LockEnds DEF PreviewInv, LockInv
<1>4. S = Held("exclusive", "sync")
  OBVIOUS
<1> HIDE DEF P, S
<1>5. (P \in lock <=> Reading) /\ (S \in lock <=> pc # "idle") /\ (Reading => pc = "idle")
  BY DEF PreviewInv, LockInv, P, S
<1>6. Reading' = Reading
  BY <1>1 DEF Reading
<1>7. ASSUME lock' \subseteq {P, S}, P \in lock' <=> Reading, S \in lock' <=> pc' # "idle",
             Reading => pc' = "idle"
      PROVE  PreviewInv'
  BY <1>1, <1>2, <1>6, <1>7 DEF PreviewInv, PreviewTypes, LockInv, ViewFiles, P, S
<1>8. CASE LockForSync
  <2>1. lock = {} /\ lock' = {S} /\ pc' = "artifacts"
    BY <1>4, <1>8 DEF LockForSync, Free, Begin, Go
  <2> QED
    BY <1>2, <1>5, <1>7, <2>1
<1>9. CASE SyncStep
  <2>1. pc # "idle" /\ IF pc' = "idle" THEN lock' = lock \ {S} ELSE lock' = lock
    BY <1>3, <1>9, SyncRuns DEF SyncStep
  <2> QED
    BY <1>2, <1>3, <1>5, <1>7, <2>1
<1>10. CASE KillSync
  <2>1. pc # "idle" /\ pc' = "idle" /\ lock' = lock \ {S}
    BY <1>3, <1>10, SyncRuns DEF KillSync, Kill, End
  <2> QED
    BY <1>2, <1>3, <1>5, <1>7, <2>1
<1>11. CASE InterruptSync \/ ChildExits
  <2>1. lock' = lock /\ pc' = pc
    BY <1>3, <1>11 DEF InterruptSync, Interrupt, ChildExits, vars
  <2> QED
    BY <1>3, <1>5, <1>7, <2>1
<1> QED
  BY <1>8, <1>9, <1>10, <1>11

LEMMA PreviewInvariant == SpecPreview => []PreviewInv
<1>1. InitPreview => PreviewInv
  BY DEF InitPreview, InitSync, PreviewInv, PreviewTypes, LockInv, ViewFiles, Idle, Reading
<1>2. SyncInv /\ PreviewInv /\ [NextPreview]_allVars => PreviewInv'
  <2> SUFFICES ASSUME SyncInv, PreviewInv, [NextPreview]_allVars PROVE PreviewInv'
    OBVIOUS
  <2>1. CASE FinishPreview \/ FailPreview
    BY <2>1, PreviewEnds DEF FinishPreview, FailPreview, Unchanged, vars, files
  <2>2. CASE Save
    <3>1. UNCHANGED <<view, lock, pc>> /\ lock = {}
      BY <2>2 DEF Save, Free, vars
    <3>2. ~ Reading
      BY <3>1 DEF PreviewInv, LockInv
    <3> QED
      BY <3>1, <3>2
      DEF PreviewInv, PreviewTypes, LockInv, ViewFiles, Reading, Held, Inherited
  <2>3. CASE Rest \/ UNCHANGED allVars
    <3>1. UNCHANGED <<view, lock, pc, saved>>
      BY <2>3 DEF Rest, allVars, vars
    <3> QED
      BY <3>1 DEF PreviewInv, PreviewTypes, LockInv, ViewFiles, Reading, Held, Inherited
  <2> QED
    BY <2>1, <2>2, <2>3, PreviewStarts, PreviewMoves, PreviewWaits DEF NextPreview
<1> QED
  BY <1>1, <1>2, SyncInvariant, PTL DEF SpecPreview

(***************************************************************************)
(* The lock ends with the processes that took it (lock.rs), however they   *)
(* end, for any number of previews, syncs and commands left behind: with   *)
(* no sync and no preview running nothing keeps the next one out.          *)
(***************************************************************************)
THEOREM LockEndsWithItsHolder == SpecPreview => []LockReleased
<1>1. PreviewInv => LockReleased
  BY DEF PreviewInv, LockInv, LockReleased, Reading
<1> QED
  BY <1>1, PreviewInvariant, PTL

-----------------------------------------------------------------------------
(***************************************************************************)
(* Predictions.                                                            *)
(***************************************************************************)
Foresight == ViewReplays /\ PredictionInv /\ PromiseInv

\* A replay depends on the saved files and the caches alone.
LEMMA ReplaysKept ==
  ASSUME UNCHANGED <<saved, cache>>, NEW x, NEW tr, NEW sl, NEW k
  PROVE  /\ Replays(tr, x, k) => Replays(tr, x, k)'
         /\ Foretells(x, tr, sl) => Foretells(x, tr, sl)'
<1>1. ASSUME NEW p, NEW a PROVE ReadOf(p, a)' = ReadOf(p, a)
  BY DEF ReadOf, FileOf, Current, Previous
<1>2. ASSUME NEW answers, NEW n PROVE Replays(tr, answers, n) => Replays(tr, answers, n)'
  BY <1>1 DEF Replays
<1>3. ASSUME NEW l PROVE Base(l)' = Base(l)
  BY DEF Base
<1>4. ASSUME NEW l PROVE Admits(sl, l) => Admits(sl, l)'
  BY <1>3 DEF Admits
<1> QED
  BY <1>2, <1>4 DEF Foretells

\* Nothing that a promise speaks of changes.
LEMMA PromiseKept ==
  ASSUME PromiseInv,
         UNCHANGED <<saved, cache, promised, pc, result, disturbed, config, loaded, candidates,
                     safelist, baseline, external>>
  PROVE  PromiseInv'
<1>1. Effective(candidates, safelist)' = Effective(candidates, safelist)
  BY DEF Effective
<1>2. ASSUME NEW tr, NEW sl PROVE Follows(tr, sl) => Follows(tr, sl)'
  <2>1. ASSUME NEW l PROVE Base(l)' = Base(l)
    BY DEF Base
  <2> QED
    BY <2>1 DEF Follows
<1>3. ASSUME NEW x, NEW tr, NEW sl, x = promised, Foretells(x, tr, sl), Follows(tr, sl)
      PROVE  \E y, u, v : y = promised' /\ Foretells(y, u, v)' /\ Follows(u, v)'
  BY <1>2, <1>3, ReplaysKept
<1> QED
  BY <1>1, <1>3 DEF PromiseInv, Ended

\* A prediction stands while files and caches do.
LEMMA PredictionKept ==
  ASSUME PredictionInv, UNCHANGED <<saved, cache>>, predicted' \in {predicted, None}
  PROVE  PredictionInv'
BY ReplaysKept DEF PredictionInv

\* A non-empty set of natural numbers has a least one.
LEMMA LeastNatural ==
  ASSUME NEW S, S \subseteq Nat, S # {}
  PROVE  \E x \in S : \A y \in S : x <= y
<1>1. PICK x \in S : \A y \in S : ~ (<<y, x>> \in OpToRel(<, Nat))
  BY NatLessThanWellFounded, WFMin
<1>2. ASSUME NEW y \in S
      PROVE  x <= y
  <2>1. <<y, x>> \in OpToRel(<, Nat) <=> <<y, x>> \in Nat \X Nat /\ y < x
    BY Zenon DEF OpToRel
  <2>2. ~ (<<y, x>> \in Nat \X Nat /\ y < x)
    BY <1>1, <2>1, Zenon
  <2> QED
    BY <2>2
<1> QED
  BY <1>2

\* The safelist after i of the external ones ext, given the one before.
NextSafelist(c, s, v6, base, ext, g, i) ==
  IF i = 0 THEN s ELSE AdmitOn(c, g[i - 1], v6, base, ext[i])

AdmissionUpTo(c, s, v6, base, ext, g, n) ==
  g = [i \in 0 .. n |-> NextSafelist(c, s, v6, base, ext, g, i)]

\* Admission has an outcome, whatever it is given.
LEMMA AdmissionsExist ==
  ASSUME NEW c, NEW s, NEW v6, NEW base, NEW ext, NEW n \in Nat
  PROVE  \E g : AdmissionUpTo(c, s, v6, base, ext, g, n)
<1> DEFINE Bad == {m \in 0 .. n : ~ \E g : AdmissionUpTo(c, s, v6, base, ext, g, m)}
<1>0. n \in 0 .. n
  OBVIOUS
<1> SUFFICES ASSUME Bad # {} PROVE FALSE
  BY <1>0, Zenon
<1>1. Bad \subseteq Nat
  OBVIOUS
<1>2. PICK m \in Bad : \A k \in Bad : m <= k
  BY <1>1, LeastNatural
<1>3. m \in 0 .. n /\ ~ \E g : AdmissionUpTo(c, s, v6, base, ext, g, m)
  BY <1>2
<1> DEFINE After(g, i) == NextSafelist(c, s, v6, base, ext, g, i)
<1>4. CASE m = 0
  <2> DEFINE g == [i \in 0 .. 0 |-> s]
  <2>1. \A i \in 0 .. 0 : After(g, i) = s
    BY DEF NextSafelist
  <2>2. AdmissionUpTo(c, s, v6, base, ext, g, 0)
    BY <2>1 DEF AdmissionUpTo
  <2> QED
    BY <1>3, <1>4, <2>2
<1>5. CASE m # 0
  <2>1. m - 1 \in 0 .. n /\ m - 1 \notin Bad
    BY <1>2, <1>3, <1>5
  <2>2. PICK g : AdmissionUpTo(c, s, v6, base, ext, g, m - 1)
    BY <2>1
  <2> DEFINE h == [i \in 0 .. m |-> IF i = m THEN After(g, m) ELSE g[i]]
  <2>3. \A i \in 0 .. (m - 1) : g[i] = After(g, i)
    BY <2>2 DEF AdmissionUpTo
  <2>4. \A i \in 0 .. m : i # m => h[i] = g[i]
    OBVIOUS
  <2>5. ASSUME NEW i \in 0 .. m PROVE h[i] = After(h, i)
    <3>1. i # 0 => h[i - 1] = g[i - 1]
      BY <1>3, <2>4, <2>5
    <3>2. After(h, i) = After(g, i)
      BY <3>1 DEF NextSafelist
    <3>3. i # m => i \in 0 .. (m - 1)
      BY <1>3, <2>5
    <3> HIDE DEF After
    <3>4. CASE i = m
      BY <3>2, <3>4
    <3>5. CASE i # m
      BY <2>3, <2>4, <3>2, <3>3, <3>5
    <3> QED
      BY <3>4, <3>5
  <2>6. h = [i \in 0 .. m |-> h[i]]
    OBVIOUS
  <2>7. AdmissionUpTo(c, s, v6, base, ext, h, m)
    <3> HIDE DEF h
    <3> QED
      BY <2>5, <2>6 DEF AdmissionUpTo
  <2> QED
    BY <1>3, <2>7
<1> QED
  BY <1>4, <1>5

\* SafelistAfter is that outcome for what the preview has loaded.
LEMMA SafelistsAfter ==
  ASSUME NEW n \in 0 .. Len(Registry)
  PROVE  SafelistAfter[n] =
           IF n = 0 THEN view.safelist
           ELSE AdmitOn(view.candidates, SafelistAfter[n - 1], view.config.ipv6,
                        EffectiveLists(view.candidates, view.safelist, view.config.ipv6),
                        view.external[n])
<1> DEFINE base == EffectiveLists(view.candidates, view.safelist, view.config.ipv6)
           N == Len(Registry)
<1>1. N \in Nat
  BY RegistryLength
<1>2. PICK g : AdmissionUpTo(view.candidates, view.safelist, view.config.ipv6, base,
                             view.external, g, N)
  BY <1>1, AdmissionsExist
<1>3. \A s, l : Admitted(base, s, l) = AdmitOn(view.candidates, s, view.config.ipv6, base, l)
  BY DEF Admitted, AdmitOn
<1> HIDE DEF base
<1> DEFINE Out(f) == [i \in 0 .. N |-> IF i = 0 THEN view.safelist
                                       ELSE Admitted(base, f[i - 1], view.external[i])]
<1>4. g = Out(g)
  <2> DEFINE A(i) == NextSafelist(view.candidates, view.safelist, view.config.ipv6, base,
                                  view.external, g, i)
             B(i) == IF i = 0 THEN view.safelist
                     ELSE Admitted(base, g[i - 1], view.external[i])
  <2>1. g = [i \in 0 .. N |-> A(i)]
    BY <1>2 DEF AdmissionUpTo
  <2>2. \A i \in 0 .. N : A(i) = B(i)
    BY <1>3 DEF NextSafelist
  <2> HIDE DEF A, B
  <2>3. g = [i \in 0 .. N |-> B(i)]
    BY <2>1, <2>2
  <2> QED
    BY <2>3 DEF B
<1>5. SafelistAfter = CHOOSE f : f = Out(f)
  BY DEF SafelistAfter, base
<1> HIDE DEF Out
<1>6. SafelistAfter = Out(SafelistAfter)
  BY <1>4, <1>5
<1> QED
  BY <1>3, <1>6 DEF Out, base

\* A preview that has loaded nothing is at the start of every replay.
LEMMA ReplayStarts ==
  \A answers : Replays([i \in {0} |-> Loaded({}, {}, <<>>)], answers, 0)
<1> DEFINE tr == [i \in {0} |-> Loaded({}, {}, <<>>)]
<1>1. tr[0] = Loaded({}, {}, <<>>)
  OBVIOUS
<1>2. Loaded({}, {}, <<>>) \in Replayed
  <2>1. {} \in Batches /\ <<>> \in Seq(ReadSet)
    BY EmptySeq DEF Batches
  <2> QED
    BY <2>1 DEF Loaded, Replayed
<1> HIDE DEF tr
<1>3. ASSUME NEW answers PROVE Replays(tr, answers, 0)
  BY <1>1, <1>2 DEF Replays
<1> QED
  BY <1>3 DEF tr

\* One more provider, one more answer.
LEMMA ReplayGoesOn ==
  ASSUME NEW k \in Nat, NEW tr, NEW answers \in Seq(Batches \cup {None}), Len(answers) = k,
         Replays(tr, answers, k), NEW a \in Batches \cup {None},
         NEW l, l = With(tr[k], Registry[k + 1], ReadOf(Registry[k + 1], a)), l \in Replayed
  PROVE  \E u : Replays(u, Append(answers, a), k + 1) /\ u[k + 1] = l
<1> DEFINE u == [i \in 0 .. (k + 1) |-> IF i = k + 1 THEN l ELSE tr[i]]
           more == Append(answers, a)
<1>1. u[k + 1] = l /\ \A i \in 0 .. k : u[i] = tr[i]
  OBVIOUS
<1>2. more[k + 1] = a /\ \A i \in 1 .. k : more[i] = answers[i]
  OBVIOUS
<1> HIDE DEF u, more
<1>3. \A i \in 0 .. (k + 1) : u[i] \in Replayed
  <2>1. \A i \in 0 .. k : tr[i] \in Replayed
    BY DEF Replays
  <2>2. \A i \in 0 .. (k + 1) : i \in 0 .. k \/ i = k + 1
    OBVIOUS
  <2> QED
    BY <1>1, <2>1, <2>2
<1>4. u[0] = Loaded({}, {}, <<>>)
  BY <1>1 DEF Replays
<1>5. ASSUME NEW i \in 1 .. (k + 1)
      PROVE  u[i] = With(u[i - 1], Registry[i], ReadOf(Registry[i], more[i]))
  <2>1. u[i - 1] = tr[i - 1] /\ (i = k + 1 \/ i \in 1 .. k)
    BY <1>1
  <2>2. CASE i = k + 1
    <3>1. i - 1 = k
      BY <2>2
    <3> QED
      BY <1>1, <1>2, <2>1, <2>2, <3>1
  <2>3. CASE i \in 1 .. k
    <3>1. tr[i] = With(tr[i - 1], Registry[i], ReadOf(Registry[i], answers[i]))
      BY <2>3 DEF Replays
    <3>2. u[i] = tr[i] /\ more[i] = answers[i]
      BY <1>1, <1>2, <2>3
    <3> QED
      BY <2>1, <3>1, <3>2
  <2> QED
    BY <2>1, <2>2, <2>3
<1>6. Replays(u, more, k + 1)
  BY <1>3, <1>4, <1>5 DEF Replays
<1> QED
  BY <1>1, <1>6 DEF more

\* The load of a preview extends its replay.
LEMMA PreviewReplays ==
  ASSUME SyncInv, PreviewInv, ViewReplays, LoadForPreview
  PROVE  ViewReplays'
<1> DEFINE p == Registry[view.loaded + 1]
<1>1. UNCHANGED <<saved, cache>>
  BY DEF LoadForPreview, Unchanged, vars, files
<1>2. view.pc = "load" /\ view.config = saved.config /\ view.temporary = saved.temporary
      /\ view.loaded < Len(Registry) /\ view \in ViewType
  <2>1. view.pc = "load" /\ view.loaded < Len(Registry)
    BY DEF LoadForPreview
  <2> QED
    BY <2>1, ViewPc DEF PreviewInv, ViewFiles
<1>3. view.loaded \in Nat /\ view.loaded + 1 \in DOMAIN Registry
      /\ view.answers \in Seq(Batches \cup {None}) /\ view.external \in Seq(ReadSet)
      /\ view.candidates \in Batches /\ view.safelist \in Batches
  BY <1>2, RegistryLength DEF ViewType
<1>4. PICK l \in Reads(p) :
        view' = [pc |-> "load", network |-> view.network, config |-> view.config,
                 temporary |-> view.temporary,
                 loaded |-> view.loaded + 1,
                 candidates |-> view.candidates \cup IF p.role = "candidate" THEN l.nets ELSE {},
                 safelist |-> view.safelist \cup IF p.role = "safelist" THEN l.nets ELSE {},
                 external |-> view.external \o IF p.role = "external" THEN <<l>> ELSE <<>>,
                 answers |-> Append(view.answers, l.answer)]
  BY DEF LoadForPreview
<1>5. l.answer \in Batches \cup {None} /\ l = ReadOf(p, l.answer)
  BY <1>2, <1>3, ReadsReplay DEF SyncInv
<1>6. PICK tr, n, answers :
        /\ n = view.loaded /\ answers = view.answers /\ Replays(tr, answers, n)
        /\ tr[n] = Loaded(view.candidates, view.safelist, view.external)
        /\ Len(view.answers) = view.loaded /\ Len(view.external) <= view.loaded
  BY <1>2 DEF ViewReplays
<1> DEFINE c == view.candidates \cup IF p.role = "candidate" THEN l.nets ELSE {}
           s == view.safelist \cup IF p.role = "safelist" THEN l.nets ELSE {}
           e == view.external \o IF p.role = "external" THEN <<l>> ELSE <<>>
           a == Append(view.answers, l.answer)
<1>7. view'.pc = "load" /\ view'.loaded = n + 1 /\ view'.answers = a
      /\ view'.candidates = c /\ view'.safelist = s /\ view'.external = e
  BY <1>4, <1>6
<1>8. Loaded(c, s, e) = With(tr[n], p, ReadOf(p, l.answer))
  <2>1. tr[n].candidates = view.candidates /\ tr[n].safelist = view.safelist
        /\ tr[n].external = view.external
    BY <1>6 DEF Loaded
  <2> QED
    BY <1>5, <2>1 DEF With
<1>9. l \in ReadSet
  BY <1>3, <1>5, ReadOfTyped DEF SyncInv
<1>10. e \in Seq(ReadSet) /\ Len(e) <= Len(view.external) + 1
  <2> DEFINE R == ReadSet
  <2> HIDE DEF R, p
  <2>1. view.external \in Seq(R) /\ <<l>> \in Seq(R) /\ <<>> \in Seq(R) /\ Len(<<l>>) = 1
    BY <1>3, <1>9 DEF R
  <2> DEFINE t == IF p.role = "external" THEN <<l>> ELSE <<>>
             v == view.external
  <2>2. t \in Seq(R) /\ Len(t) <= 1 /\ Len(t) \in Nat /\ Len(v) \in Nat /\ v \in Seq(R)
    BY <2>1
  <2>3. e = v \o t
    OBVIOUS
  <2> HIDE DEF t, v, e
  <2>4. v \o t \in Seq(R) /\ Len(v \o t) = Len(v) + Len(t)
    BY <2>2, ConcatProperties
  <2>5. e \in Seq(R) /\ Len(e) <= Len(v) + 1
    BY <2>2, <2>3, <2>4
  <2> QED
    BY <2>5 DEF R, v
<1>11. Loaded(c, s, e) \in Replayed
  <2>1. c \in Batches /\ s \in Batches
    BY <1>3, <1>9 DEF ReadSet, Batches
  <2> HIDE DEF c, s, e
  <2> QED
    BY <1>10, <2>1 DEF Loaded, Replayed
<1>12. Len(a) = n + 1
  BY <1>3, <1>5, <1>6
<1> HIDE DEF c, s, e
<1>13. \E u : Replays(u, a, n + 1) /\ u[n + 1] = Loaded(c, s, e)
  <2> DEFINE q == Loaded(c, s, e)
  <2>1. n \in Nat /\ Len(view.answers) = n /\ Replays(tr, view.answers, n)
    BY <1>3, <1>6
  <2>2. q = With(tr[n], Registry[n + 1], ReadOf(Registry[n + 1], l.answer)) /\ q \in Replayed
    BY <1>6, <1>8, <1>11
  <2> HIDE DEF q
  <2>3. \E u : Replays(u, Append(view.answers, l.answer), n + 1) /\ u[n + 1] = q
    BY <1>3, <1>5, <2>1, <2>2, ReplayGoesOn
  <2> QED
    BY <2>3 DEF q
<1>14. PICK u : Replays(u, a, n + 1) /\ u[n + 1] = Loaded(c, s, e)
  BY <1>13
<1>15. Replays(u, Append(answers, l.answer), n + 1)
  BY <1>6, <1>14 DEF a
<1>16. Replays(u, Append(answers, l.answer), n + 1)'
  BY <1>1, <1>15, ReplaysKept
<1>17. /\ n + 1 = view'.loaded /\ Append(answers, l.answer) = view'.answers
       /\ u[n + 1] = Loaded(view'.candidates, view'.safelist, view'.external)
       /\ Len(view'.answers) = view'.loaded /\ Len(view'.external) <= view'.loaded
  <2>1. a = Append(answers, l.answer)
    BY <1>6 DEF a
  <2>2. Len(e) <= n + 1
    <3>1. Len(view.external) \in Nat /\ Len(e) \in Nat /\ n \in Nat
      BY <1>3, <1>6, <1>10
    <3> QED
      BY <1>6, <1>10, <3>1
  <2> QED
    BY <1>7, <1>12, <1>14, <2>1, <2>2
<1> QED
  BY <1>7, <1>16, <1>17 DEF ViewReplays

\* Where no preview reads, none has loaded anything.
LEMMA ViewWaits ==
  ASSUME ViewReplays, PreviewTypes, ~ Reading, UNCHANGED view
  PROVE  ViewReplays'
BY DEF ViewReplays, Reading

\* What the other steps of previews leave.
LEMMA ViewReplaysStep ==
  ASSUME SyncInv, PreviewInv, ViewReplays, [NextPreview]_allVars
  PROVE  ViewReplays'
<1>1. CASE StartPreview
  <2>1. view'.pc = "lock" /\ view'.loaded = 0 /\ view'.answers = <<>>
        /\ view'.candidates = {} /\ view'.safelist = {} /\ view'.external = <<>>
    BY <1>1 DEF StartPreview
  <2> QED
    BY <2>1 DEF ViewReplays
<1>2. ASSUME view' = Idle PROVE ViewReplays'
  BY <1>2 DEF ViewReplays, Idle
<1>3. CASE LockForPreview
  <2>1. CASE lockFile /\ Free("shared")
    <3>1. view' = [view EXCEPT !.pc = "config"] /\ view.pc = "lock"
      BY <1>3, <2>1 DEF LockForPreview, AcquireShared
    <3>2. view \in ViewType
      BY <3>1, ViewPc DEF PreviewInv
    <3> QED
      BY <3>1, <3>2, ViewMoves DEF ViewReplays
  <2> QED
    BY <1>2, <1>3, <2>1 DEF LockForPreview, AcquireShared
<1>4. CASE ReadConfig
  <2>1. view' = [view EXCEPT !.pc = "temporary", !.config = saved.config] /\ view.pc = "config"
    BY <1>4 DEF ReadConfig
  <2>2. view \in ViewType
    BY <2>1, ViewPc DEF PreviewInv
  <2>3. view'.pc = "temporary" /\ view'.loaded = view.loaded /\ view'.answers = view.answers
        /\ view'.candidates = view.candidates /\ view'.safelist = view.safelist
        /\ view'.external = view.external
    BY <2>1, <2>2 DEF ViewType
  <2> QED
    BY <2>1, <2>3 DEF ViewReplays
<1>5. CASE ReadTemporary
  <2>1. view' = [view EXCEPT !.pc = "load", !.temporary = saved.temporary]
        /\ view.pc = "temporary"
    BY <1>5 DEF ReadTemporary
  <2>2. view \in ViewType
    BY <2>1, ViewPc DEF PreviewInv
  <2>3. view'.pc = "load" /\ view'.loaded = view.loaded /\ view'.answers = view.answers
        /\ view'.candidates = view.candidates /\ view'.safelist = view.safelist
        /\ view'.external = view.external
    BY <2>1, <2>2 DEF ViewType
  <2>4. view'.loaded = 0 /\ view'.answers = <<>>
        /\ view'.candidates = {} /\ view'.safelist = {} /\ view'.external = <<>>
    BY <2>1, <2>3 DEF ViewReplays
  <2> DEFINE tr == [i \in {0} |-> Loaded({}, {}, <<>>)]
  <2>5. Replays(tr, <<>>, 0)
    BY ReplayStarts
  <2>6. UNCHANGED <<saved, cache>>
    BY <1>5 DEF ReadTemporary, Unchanged, vars, files
  <2>7. tr[0] = Loaded({}, {}, <<>>)
    OBVIOUS
  <2> HIDE DEF tr
  <2>8. Replays(tr, <<>>, 0)'
    BY <2>5, <2>6, ReplaysKept
  <2>9. Len(view'.answers) = 0 /\ Len(view'.external) = 0
    BY <2>4
  <2> QED
    BY <2>3, <2>4, <2>7, <2>8, <2>9 DEF ViewReplays
<1>6. CASE LockForSync \/ SyncStep \/ InterruptSync \/ KillSync \/ Save
  <2>1. ~ Reading
    BY <1>6, SyncRuns DEF LockForSync, Save, Free, PreviewInv, LockInv
  <2>2. UNCHANGED view
    BY <1>6 DEF LockForSync, SyncStep, InterruptSync, KillSync, Save, KeepPreview
  <2> QED
    BY <2>1, <2>2, ViewWaits DEF PreviewInv
<1>7. CASE ChildExits \/ Rest \/ UNCHANGED allVars
  <2>1. UNCHANGED <<view, saved, cache>>
    BY <1>7 DEF ChildExits, Rest, allVars, vars, files
  <2>2. ASSUME NEW tr, NEW n, NEW answers PROVE Replays(tr, answers, n) => Replays(tr, answers, n)'
    BY <2>1, ReplaysKept
  <2> QED
    BY <2>1, <2>2 DEF ViewReplays
<1>8. CASE LoadForPreview
  BY <1>8, PreviewReplays
<1>9. CASE FinishPreview \/ FailPreview
  BY <1>2, <1>9 DEF FinishPreview, FailPreview
<1> QED
  BY <1>1, <1>3, <1>4, <1>5, <1>6, <1>7, <1>8, <1>9 DEF NextPreview

\* A preview that ends well shows what its replay leads to.
LEMMA PreviewForetells ==
  ASSUME SyncInv, PreviewInv, ViewReplays, FinishPreview
  PROVE  PredictionInv'
<1> DEFINE N == Len(Registry)
           m == Len(view.external)
           conf == saved.config
           all == Loaded(view.candidates, view.safelist, view.external)
           base == EffectiveLists(view.candidates, view.safelist, view.config.ipv6)
           sl == SafelistAfter
           plan == EffectiveLists(view.candidates, sl[m], view.config.ipv6)
<1>1. UNCHANGED <<saved, cache>>
  BY DEF FinishPreview, Unchanged, vars, files
<1>2. view.pc = "load" /\ view.loaded = N /\ view.config = conf /\ view \in ViewType
  <2>1. view.pc = "load" /\ view.loaded = N
    BY DEF FinishPreview
  <2> QED
    BY <2>1, ViewPc DEF PreviewInv, ViewFiles
<1>3. PICK tr, n, answers :
        /\ n = view.loaded /\ answers = view.answers /\ Replays(tr, answers, n)
        /\ tr[n] = all
        /\ m <= view.loaded
  BY <1>2 DEF ViewReplays
<1>4. N \in Nat /\ m \in 0 .. N
  BY <1>2, <1>3, RegistryLength DEF ViewType
<1>5. /\ all.candidates = view.candidates /\ all.safelist = view.safelist
      /\ all.external = view.external
  BY DEF Loaded
<1>6. Base(all) = base
  BY <1>2, <1>5 DEF Base
<1>7. Admits(sl, all)
  <2> HIDE DEF base, all, sl
  <2>1. \A i \in 0 .. N :
          sl[i] = IF i = 0 THEN view.safelist
                  ELSE AdmitOn(view.candidates, sl[i - 1], view.config.ipv6, base, view.external[i])
    BY SafelistsAfter DEF base, sl
  <2>2. sl[0] = all.safelist
    BY <1>4, <1>5, <2>1
  <2>3. ASSUME NEW j \in 1 .. Len(all.external)
        PROVE  sl[j] = AdmitOn(all.candidates, sl[j - 1], conf.ipv6, Base(all), all.external[j])
    <3>1. j \in 0 .. N /\ j # 0
      BY <1>4, <1>5
    <3> QED
      BY <1>2, <1>5, <1>6, <2>1, <3>1
  <2> QED
    BY <2>2, <2>3 DEF Admits
<1>8. predicted' = [answers |-> view.answers,
                    plan |-> IF WithinCapacity(plan, view.config.ipv6, view.config.maxelem)
                             THEN plan ELSE None]
  BY DEF FinishPreview
<1>9. predicted'.answers = answers
      /\ predicted'.plan = PlanOf(conf, all.candidates, sl[Len(all.external)])
  <2>1. PlanOf(conf, all.candidates, sl[Len(all.external)]) =
          IF WithinCapacity(plan, view.config.ipv6, view.config.maxelem) THEN plan ELSE None
    BY <1>2, <1>5 DEF PlanOf
  <2> HIDE DEF plan, sl, all
  <2> QED
    BY <1>3, <1>8, <2>1
<1> HIDE DEF base, sl
<1>10. ASSUME NEW x, x = predicted', NEW u, u = sl
       PROVE  Foretells(x, tr, u)
  <2>1. Replays(tr, x.answers, N)
    BY <1>2, <1>3, <1>9, <1>10
  <2>2. tr[N] = all
    BY <1>2, <1>3
  <2> HIDE DEF all
  <2> QED
    BY <1>7, <1>9, <1>10, <2>1, <2>2 DEF Foretells
<1>11. \E x, u : x = predicted' /\ u = sl
  OBVIOUS
<1>12. PICK x, u : x = predicted' /\ u = sl
  BY <1>11
<1>13. Foretells(x, tr, u)'
  BY <1>1, <1>10, <1>12, ReplaysKept
<1> QED
  BY <1>12, <1>13 DEF PredictionInv

-----------------------------------------------------------------------------
(***************************************************************************)
(* Promises: the sync replays what the preview did.                        *)
(***************************************************************************)
\* What the sync accepts, and the answer it got for it, is what a preview reads
\* when the network says the same.
LEMMA LoadIsRead ==
  ASSUME SyncInv, NEW j \in DOMAIN Registry,
         NEW l \in SyncLoads(Registry[j]), Accept(Registry[j], l)
  PROVE  LET r == ReadOf(Registry[j], Answered(Registry[j])) IN
         /\ l.nets = r.nets /\ ~ l.failure
         /\ Registry[j].role = "external" => l.fallback = r.fallback
<1> DEFINE p == Registry[j]
           kept == {cache[p.id][i] : i \in DOMAIN cache[p.id] \cap {1}}
           file == FileOf(p.id, saved.config, saved.temporary)
           old == Current(p.id)
           older == Previous(p.id)
           heard == Answered(p)
           r == ReadOf(p, heard)
<1>1. \/ ~ p.cached /\ l = Load(file, {}, FALSE, FALSE)
      \/ p.cached /\ \E b \in Offers[p.id] : l = Load(b, kept, TRUE, FALSE)
      \/ p.cached /\ l = Load(old, older, FALSE, FALSE)
  BY DEF SyncLoads, Loads, CachedLoads
<1>2. \A b \in Offers[p.id] : b # None
  BY ProviderFacts, PreviewAssumption DEF Batches
<1>3. external \in Seq(Waiting) /\ pending \in Seq(Ids \X Batches)
  BY DEF SyncInv, Types
<1>4. ~ p.cached => p.role # "external"
  BY PreviewAssumption
<1>5. /\ \A nets, f, s : /\ Load(nets, f, s, FALSE).nets = nets
                         /\ Load(nets, f, s, FALSE).fallback = f
                         /\ ~ Load(nets, f, s, FALSE).failure
      /\ \A nets, f : /\ Load(nets, f, TRUE, FALSE).staged
                      /\ ~ Load(nets, f, FALSE, FALSE).staged
  BY DEF Load
<1>6. \A nets, f, a : Read(nets, f, a).nets = nets /\ Read(nets, f, a).fallback = f
  BY DEF Read
<1> HIDE DEF kept, file, old, older
<1>7. CASE ~ p.cached
  <2>1. r = Read(file, {}, None)
    BY <1>7 DEF ReadOf, file
  <2>2. l = Load(file, {}, FALSE, FALSE)
    BY <1>1, <1>7
  <2> HIDE DEF r, p
  <2>3. l.nets = r.nets /\ ~ l.failure /\ p.role # "external"
    <3>1. p.role # "external"
      BY <1>4, <1>7
    <3>2. r.nets = file
      BY <1>6, <2>1
    <3>3. l.nets = file /\ ~ l.failure
      BY <1>5, <2>2
    <3> QED
      BY <3>1, <3>2, <3>3
  <2> QED
    BY <2>3 DEF r, p
<1>8. CASE p.cached /\ l = Load(old, older, FALSE, FALSE)
  <2>1. ~ l.staged
    BY <1>5, <1>8
  <2>2. pending' = pending
    BY <2>1 DEF Accept
  <2>3. external' # external => ~ external'[Len(external')].load.staged
    <3>1. external' = external \/ external' = Append(external, [id |-> p.id, load |-> l])
      BY DEF Accept
    <3> HIDE DEF p
    <3>2. CASE external' = Append(external, [id |-> p.id, load |-> l])
      <4>1. Len(external') = Len(external) + 1
            /\ external'[Len(external) + 1] = [id |-> p.id, load |-> l]
        BY <1>3, <3>2
      <4> QED
        BY <2>1, <4>1
    <3> QED
      BY <3>1, <3>2
  <2>4. heard = None
    BY <1>3, <2>2, <2>3 DEF Answered
  <2>5. r = Read(old, IF p.role = "external" THEN older ELSE {}, None)
    BY <1>8, <2>4 DEF ReadOf, old, older
  <2> HIDE DEF r, p
  <2>6. l.nets = r.nets /\ ~ l.failure /\ (p.role = "external" => l.fallback = r.fallback)
    <3>1. r.nets = old /\ (p.role = "external" => r.fallback = older)
      BY <1>6, <2>5
    <3>2. l.nets = old /\ l.fallback = older /\ ~ l.failure
      BY <1>5, <1>8
    <3> QED
      BY <3>1, <3>2
  <2> QED
    BY <2>6 DEF r, p
<1>9. CASE p.cached /\ \E b \in Offers[p.id] : l = Load(b, kept, TRUE, FALSE)
  <2>1. PICK b \in Offers[p.id] : l = Load(b, kept, TRUE, FALSE)
    BY <1>9
  <2>2. l.nets = b /\ l.staged /\ l.fallback = kept /\ ~ l.failure
    BY <1>5, <2>1
  <2>3. heard = b
    <3>1. CASE p.role = "external"
      <4>1. pending' = pending /\ external' = Append(external, [id |-> p.id, load |-> l])
        BY <3>1 DEF Accept
      <4> DEFINE w == [id |-> p.id, load |-> l]
      <4>2. w.load = l
        OBVIOUS
      <4>3. external' = Append(external, w)
        BY <4>1
      <4> HIDE DEF w
      <4>4. Len(external') = Len(external) + 1 /\ external'[Len(external')] = w
            /\ Len(external) \in Nat
        BY <1>3, <4>3
      <4>5. external' # external /\ external'[Len(external')].load = l
        BY <4>2, <4>4
      <4>6. ~ (Len(pending') > Len(pending))
        BY <1>3, <4>1
      <4> QED
        BY <1>9, <2>2, <4>5, <4>6 DEF Answered
    <3>2. CASE p.role # "external"
      <4>1. pending' = Append(pending, <<p.id, l.nets>>)
        BY <2>2, <3>2 DEF Accept
      <4> DEFINE w == <<p.id, l.nets>>
      <4>2. w[2] = l.nets
        OBVIOUS
      <4>3. pending' = Append(pending, w)
        BY <4>1
      <4> HIDE DEF w
      <4>4. Len(pending') > Len(pending) /\ pending'[Len(pending')] = w
        BY <1>3, <4>3
      <4> QED
        BY <1>9, <2>2, <4>2, <4>4 DEF Answered
    <3> QED
      BY <3>1, <3>2
  <2>4. r = Read(b, IF p.role = "external" THEN kept ELSE {}, b)
    BY <1>2, <1>9, <2>3 DEF ReadOf, kept
  <2> HIDE DEF r, p
  <2>5. l.nets = r.nets /\ ~ l.failure /\ (p.role = "external" => l.fallback = r.fallback)
    BY <1>6, <2>2, <2>4
  <2> QED
    BY <2>5 DEF r, p
<1> QED
  BY <1>1, <1>7, <1>8, <1>9

\* The sync loads what the preview loaded.
LEMMA LoadFollows ==
  ASSUME SyncInv, PromiseInv, LoadForSync, UNCHANGED <<saved, config>>, promised' # None
  PROVE  PromiseInv'
<1>1. pc = "load" /\ loaded < Len(Registry) /\ loaded \in Nat /\ loaded + 1 \in DOMAIN Registry
  BY RegistryLength DEF LoadForSync, LoadSourceFrom, SyncInv, Types
<1> DEFINE p == Registry[loaded + 1]
<1>2. /\ ~ disturbed' /\ promised' = promised /\ promised # None
      /\ loaded' = loaded + 1 => promised.answers[loaded'] = Answered(Registry[loaded'])
  BY DEF LoadForSync, Promise
<1>3. LoadSourceFrom(SyncLoads(p)) /\ ~ Fault
  BY <1>2 DEF LoadForSync, Fault
<1>4. CASE Cancelled
  BY <1>2, <1>4 DEF Cancelled, End, PromiseInv, Ended
<1>5. CASE ~ cancelled
  <2>1. PICK l \in SyncLoads(p) : Accept(p, l) /\ Go("load")
    BY <1>3, <1>5 DEF LoadSourceFrom, Cancelled
  <2>2. UNCHANGED <<kernel, cache>> /\ loaded' = loaded + 1
    BY <1>3, <1>5 DEF LoadSourceFrom, Cancelled
  <2>3. promised.answers[loaded + 1] = Answered(p)
    BY <1>2, <2>2
  <2> DEFINE r == ReadOf(p, Answered(p))
  <2>4. l.nets = r.nets /\ ~ l.failure /\ (p.role = "external" => l.fallback = r.fallback)
    BY <1>1, <2>1, LoadIsRead
  <2>5. PICK x, tr, sl : x = promised /\ Foretells(x, tr, sl) /\ Follows(tr, sl)
    BY <1>1, <1>2 DEF PromiseInv
  <2> DEFINE now == tr[loaded]
             next == tr[loaded + 1]
  <2>6. now \in Replayed /\ next = With(now, p, r)
    <3>1. Replays(tr, promised.answers, Len(Registry))
      BY <2>5 DEF Foretells
    <3>2. loaded \in 0 .. Len(Registry) /\ loaded + 1 \in 1 .. Len(Registry)
          /\ (loaded + 1) - 1 = loaded
      BY <1>1
    <3> HIDE DEF p
    <3>3. tr[loaded + 1] = With(tr[loaded], Registry[loaded + 1],
                                ReadOf(Registry[loaded + 1], promised.answers[loaded + 1]))
      BY <3>1, <3>2 DEF Replays
    <3> QED
      BY <2>3, <3>1, <3>2, <3>3 DEF Replays, p
  <2> HIDE DEF r
  <2>7. /\ candidates = now.candidates /\ safelist = now.safelist
        /\ Len(external) = Len(now.external)
        /\ \A i \in DOMAIN external : SameRead(external[i].load, now.external[i])
    BY <1>1, <2>5 DEF Follows
  <2> HIDE DEF now, next, p
  <2>8. /\ next.candidates = now.candidates \cup IF p.role = "candidate" THEN r.nets ELSE {}
        /\ next.safelist = now.safelist \cup IF p.role = "safelist" THEN r.nets ELSE {}
        /\ next.external = now.external \o IF p.role = "external" THEN <<r>> ELSE <<>>
    BY <2>6 DEF With, Loaded
  <2>9. external \in Seq(Waiting) /\ now.external \in Seq(ReadSet)
        /\ Len(external) \in Nat /\ DOMAIN external = 1 .. Len(external)
    BY <2>6 DEF SyncInv, Types, Replayed
  <2>10. candidates' = next.candidates /\ safelist' = next.safelist
    BY <2>1, <2>4, <2>7, <2>8 DEF Accept
  <2>11. Len(external') = Len(next.external)
         /\ \A i \in DOMAIN external' : SameRead(external'[i].load, next.external[i])
    <3>1. CASE p.role = "external"
      <4> DEFINE w == [id |-> p.id, load |-> l]
      <4>1. w.load = l /\ external' = Append(external, w)
        BY <2>1, <3>1 DEF Accept
      <4> HIDE DEF w
      <4>2. Len(external') = Len(external) + 1
            /\ (\A i \in 1 .. Len(external) : external'[i] = external[i])
            /\ external'[Len(external) + 1] = w
            /\ DOMAIN external' = 1 .. Len(external) + 1
        BY <2>9, <4>1
      <4> DEFINE e == now.external
                 R == ReadSet
      <4>3. e \in Seq(R) /\ Len(e) = Len(external) /\ next.external = e \o <<r>>
        BY <2>7, <2>8, <2>9, <3>1
      <4> HIDE DEF e, R
      <4>4. Len(next.external) = Len(e) + 1
            /\ (\A i \in 1 .. Len(e) : next.external[i] = e[i])
            /\ next.external[Len(e) + 1] = r
        BY <4>3
      <4>5. SameRead(l, r)
        BY <2>4, <3>1 DEF SameRead
      <4>6. ASSUME NEW i \in DOMAIN external' PROVE SameRead(external'[i].load, next.external[i])
        <5>1. CASE i \in 1 .. Len(external)
          BY <2>7, <2>9, <4>2, <4>3, <4>4, <5>1 DEF e
        <5>2. CASE i = Len(external) + 1
          BY <4>1, <4>2, <4>3, <4>4, <4>5, <5>2
        <5> QED
          BY <2>9, <4>2, <5>1, <5>2
      <4> QED
        BY <4>2, <4>3, <4>4, <4>6
    <3>2. CASE p.role # "external"
      <4>1. external' = external
        BY <2>1, <3>2 DEF Accept
      <4>2. next.external = now.external
        BY <2>8, <2>9, <3>2
      <4> QED
        BY <2>7, <4>1, <4>2
    <3> QED
      BY <3>1, <3>2
  <2>12. pc' = "load" /\ Follows(tr, sl)'
    <3>1. pc' = "load" /\ next = tr[loaded'] 
      BY <2>1, <2>2 DEF Go, next
    <3> QED
      BY <2>10, <2>11, <3>1 DEF Follows
  <2>13. Foretells(x, tr, sl)'
    BY <2>2, <2>5, ReplaysKept
  <2>14. config' = [ipv6 |-> saved.config.ipv6, maxelem |-> saved.config.maxelem]'
    BY <1>1, <1>2 DEF PromiseInv
  <2> QED
    BY <1>2, <2>5, <2>12, <2>13, <2>14 DEF PromiseInv, Ended
<1> QED
  BY <1>3, <1>4, <1>5 DEF LoadSourceFrom

\* Admission starts where the replay has ended.
LEMMA AdmissionFollows ==
  ASSUME SyncInv, PromiseInv, BeginAdmission, UNCHANGED <<saved, config, promised>>,
         ~ disturbed', promised # None
  PROVE  PromiseInv'
<1>1. pc = "load" /\ loaded = Len(Registry)
  BY DEF BeginAdmission
<1>2. CASE Cancelled
  BY <1>2 DEF Cancelled, End, PromiseInv, Ended
<1>3. CASE ~ Cancelled
  <2>1. /\ baseline' = Effective(candidates, safelist) /\ pc' = "admit"
        /\ UNCHANGED <<cache, candidates, safelist, external>>
    BY <1>3 DEF BeginAdmission, Go
  <2>2. PICK x, tr, sl : x = promised /\ Foretells(x, tr, sl) /\ Follows(tr, sl)
    BY <1>1 DEF PromiseInv
  <2> DEFINE all == tr[Len(Registry)]
  <2>3. config = [ipv6 |-> saved.config.ipv6, maxelem |-> saved.config.maxelem]
    BY <1>1 DEF PromiseInv
  <2>4. /\ candidates = all.candidates /\ safelist = all.safelist
        /\ Len(external) = Len(all.external) /\ external \in Seq(Waiting)
        /\ \A i \in DOMAIN external : SameRead(external[i].load, all.external[i])
    BY <1>1, <2>2 DEF Follows, SyncInv, Types
  <2>5. sl[0] = all.safelist
    BY <2>2 DEF Foretells, Admits
  <2> HIDE DEF all
  <2>6. Base(all)' = Effective(candidates, safelist)
    <3>1. saved'.config.ipv6 = config.ipv6
      BY <2>3
    <3> QED
      BY <2>4, <3>1 DEF Base, Effective
  <2>7. Len(external) \in Nat /\ Len(all.external) - Len(external) = 0
    BY <2>4
  <2>8. ASSUME NEW i \in DOMAIN external PROVE SameRead(external[i].load, all.external[0 + i])
    <3>1. 0 + i = i
      BY <2>4
    <3> QED
      BY <2>4, <3>1
  <2>9. Follows(tr, sl)'
    <3>1. all = tr[Len(Registry)]
      BY DEF all
    <3>2. candidates' = all.candidates /\ baseline' = Base(all)' /\ safelist' = sl[0]
          /\ external' = external
      BY <2>1, <2>4, <2>5, <2>6
    <3> QED
      BY <2>1, <2>7, <2>8, <3>1, <3>2 DEF Follows
  <2>10. Foretells(x, tr, sl)'
    BY <2>1, <2>2, ReplaysKept
  <2> QED
    BY <2>1, <2>2, <2>3, <2>9, <2>10 DEF PromiseInv, Ended
<1> QED
  BY <1>2, <1>3

\* Each external safelist is admitted as it was in the preview.
LEMMA AdmitFollows ==
  ASSUME SyncInv, PromiseInv, AdmitExternal, UNCHANGED <<saved, config, promised>>,
         ~ disturbed', promised # None
  PROVE  PromiseInv'
<1>1. /\ pc = "admit" /\ external # <<>> /\ external' = Tail(external)
      /\ UNCHANGED <<cache, candidates, baseline>>
  BY DEF AdmitExternal
<1>2. PICK x, tr, sl : x = promised /\ Foretells(x, tr, sl) /\ Follows(tr, sl)
  BY <1>1 DEF PromiseInv
<1> DEFINE all == tr[Len(Registry)]
           j == Len(all.external) - Len(external)
           l == Head(external).load
           r == all.external[j + 1]
           admissible == {b \in l.fallback : Preserves(b)}
           fits(nets) == PreservesBaseline(all.candidates, sl[j], nets, saved.config.ipv6, Base(all))
<1>3. config = [ipv6 |-> saved.config.ipv6, maxelem |-> saved.config.maxelem]
  BY <1>1 DEF PromiseInv
<1>4. /\ candidates = all.candidates /\ baseline = Base(all)
      /\ j \in Nat /\ safelist = sl[j]
      /\ \A i \in DOMAIN external : SameRead(external[i].load, all.external[j + i])
  BY <1>1, <1>2 DEF Follows
<1>5. all \in Replayed
  BY <1>2, RegistryLength DEF Foretells, Replays
<1>6. external \in Seq(Waiting) /\ all.external \in Seq(ReadSet)
  BY <1>5 DEF SyncInv, Types, Replayed
<1>7. /\ Len(external) \in Nat /\ Len(external) # 0 /\ Len(all.external) \in Nat
      /\ 1 \in DOMAIN external /\ Head(external) = external[1]
      /\ Len(Tail(external)) = Len(external) - 1
      /\ DOMAIN Tail(external) = 1 .. Len(external) - 1
      /\ \A i \in 1 .. Len(external) - 1 : Tail(external)[i] = external[i + 1]
      /\ DOMAIN external = 1 .. Len(external)
  BY <1>1, <1>6
<1>8. SameRead(l, r)
  BY <1>4, <1>7
<1>9. \A nets : Preserves(nets) <=> fits(nets)
  <2>1. config.ipv6 = saved.config.ipv6
    BY <1>3
  <2> QED
    BY <1>4, <2>1 DEF Preserves
<1>10. j + 1 \in 1 .. Len(all.external)
  BY <1>4, <1>7
<1>11. sl[j + 1] = sl[j] \cup IF fits(r.nets) THEN r.nets ELSE UNION {b \in r.fallback : fits(b)}
  <2>1. Admits(sl, all)
    BY <1>2 DEF Foretells
  <2>2. sl[j + 1] = AdmitOn(all.candidates, sl[(j + 1) - 1], saved.config.ipv6, Base(all), all.external[j + 1])
    BY <1>10, <2>1 DEF Admits
  <2>3. (j + 1) - 1 = j
    BY <1>4
  <2> QED
    BY <2>2, <2>3 DEF AdmitOn
<1>12. safelist' = sl[j + 1] /\ pc' = "admit"
  <2>1. l.nets = r.nets /\ l.fallback = r.fallback /\ ~ l.failure
    BY <1>8 DEF SameRead
  <2>2. \/ Preserves(l.nets) /\ safelist' = safelist \cup l.nets /\ Go("admit")
        \/ /\ ~ Preserves(l.nets) /\ safelist' = safelist \cup UNION admissible
           /\ IF admissible = {} /\ l.failure THEN End("failed") ELSE Go("admit")
    BY DEF AdmitExternal
  <2>3. admissible = {b \in r.fallback : fits(b)}
    BY <1>9, <2>1
  <2> HIDE DEF fits, admissible, l, r, j, all
  <2> QED
    BY <1>4, <1>9, <1>11, <2>1, <2>2, <2>3 DEF Go
<1> HIDE DEF fits, l, r, all
<1>13. Follows(tr, sl)'
  <2>1. Len(all.external) - Len(external') = j + 1 /\ j + 1 \in Nat
    BY <1>1, <1>4, <1>7
  <2>2. ASSUME NEW i \in DOMAIN external'
        PROVE  SameRead(external'[i].load, all.external[j + 1 + i])
    <3>1. i \in 1 .. Len(external) - 1
      BY <1>1, <1>7, <2>2
    <3>2. i + 1 \in DOMAIN external /\ external'[i] = external[i + 1]
      BY <1>1, <1>7, <3>1
    <3>3. j + (i + 1) = j + 1 + i
      <4>1. j \in Nat /\ i \in Nat
        BY <1>4, <1>7, <3>1
      <4> HIDE DEF j
      <4> QED
        BY <4>1
    <3>4. SameRead(external[i + 1].load, all.external[j + (i + 1)])
      BY <1>4, <3>2
    <3> QED
      BY <3>2, <3>3, <3>4
  <2>3. Base(all)' = Base(all)
    BY DEF Base
  <2>4. all = tr[Len(Registry)]
    BY DEF all
  <2>5. candidates' = all.candidates /\ baseline' = Base(all)' /\ pc' = "admit"
    BY <1>1, <1>4, <1>12, <2>3
  <2> DEFINE k == j + 1
  <2>6. k = Len(all.external) - Len(external') /\ k \in Nat /\ safelist' = sl[k]
        /\ \A i \in DOMAIN external' : SameRead(external'[i].load, all.external[k + i])
    BY <1>12, <2>1, <2>2
  <2> HIDE DEF k, j
  <2> QED
    BY <2>4, <2>5, <2>6 DEF Follows
<1>14. Foretells(x, tr, sl)'
  BY <1>1, <1>2, ReplaysKept
<1> QED
  BY <1>1, <1>2, <1>3, <1>12, <1>13, <1>14 DEF PromiseInv, Ended

\* What is admitted in the end fits if the preview had a plan.
LEMMA CheckFollows ==
  ASSUME SyncInv, PromiseInv, CheckCapacity, UNCHANGED <<saved, config, promised>>,
         ~ disturbed', promised # None
  PROVE  PromiseInv'
<1> DEFINE plan == Effective(candidates, safelist)
<1>1. pc = "admit" /\ external = <<>> /\ UNCHANGED <<cache, candidates, safelist>>
  BY DEF CheckCapacity, inputs
<1>2. PICK x, tr, sl : x = promised /\ Foretells(x, tr, sl) /\ Follows(tr, sl)
  BY <1>1 DEF PromiseInv
<1> DEFINE all == tr[Len(Registry)]
<1>3. config = [ipv6 |-> saved.config.ipv6, maxelem |-> saved.config.maxelem]
  BY <1>1 DEF PromiseInv
<1>4. all \in Replayed
  BY <1>2, RegistryLength DEF Foretells, Replays
<1>5. Len(all.external) \in Nat /\ Len(external) = 0
  BY <1>1, <1>4 DEF Replayed
<1>6. candidates = all.candidates /\ safelist = sl[Len(all.external)]
  BY <1>1, <1>2, <1>5 DEF Follows
<1>7. promised.plan = PlanOf(saved.config, candidates, safelist)
  BY <1>2, <1>6 DEF Foretells
<1>8. promised.plan = IF WithinCapacity(plan, config.ipv6, config.maxelem) THEN plan ELSE None
  <2>1. config.ipv6 = saved.config.ipv6 /\ config.maxelem = saved.config.maxelem
    BY <1>3
  <2> QED
    BY <1>7, <2>1 DEF PlanOf, Effective
<1>9. plan \in Batches /\ plan # None
  <2>1. candidates \in Batches
    BY DEF SyncInv, Types
  <2>2. plan \in Batches
    BY <2>1 DEF Effective, EffectiveLists, Batches
  <2> QED
    BY <2>2, PreviewAssumption DEF Batches
<1>10. plan' = plan
  BY <1>1 DEF Effective
<1> HIDE DEF plan
<1>11. IF WithinCapacity(plan, config.ipv6, config.maxelem)
       THEN pc' = "promote" /\ result' = result ELSE pc' = "idle" /\ result' = "failed"
  BY DEF CheckCapacity, Go, End, plan
<1>12. CASE WithinCapacity(plan, config.ipv6, config.maxelem)
  <2>1. promised'.plan # None /\ promised'.plan = Effective(candidates, safelist)'
    BY <1>8, <1>9, <1>10, <1>12 DEF plan
  <2> QED
    BY <1>3, <1>11, <1>12, <2>1 DEF PromiseInv, Ended
<1>13. CASE ~ WithinCapacity(plan, config.ipv6, config.maxelem)
  <2>1. promised'.plan = None
    BY <1>8, <1>13
  <2> QED
    BY <1>11, <1>13, <2>1 DEF PromiseInv, Ended
<1> QED
  BY <1>12, <1>13

\* Nothing fails after the capacity check without a fault.
LEMMA EnforcementFollows ==
  ASSUME SyncInv, PromiseInv,
         \/ Promote \/ BeginEnforcement \/ ApplyIpv6 \/ ApplyIpv4 \/ Activate
         \/ CleanupDisabledIpv6,
         UNCHANGED <<saved, config, promised>>, ~ disturbed', promised # None
  PROVE  PromiseInv'
<1> DEFINE after == {"promote", "apply6", "apply4", "activate", "cleanup"}
<1>1. ~ Fault
  BY DEF Fault
<1>2. pc \in after /\ UNCHANGED <<candidates, safelist>>
  BY DEF Promote, BeginEnforcement, ApplyIpv6, ApplyIpv4, ReplaceSet, Activate,
         CleanupDisabledIpv6, Cancelled, inputs
<1>3. promised'.plan # None /\ promised'.plan = Effective(candidates, safelist)'
  BY <1>2 DEF PromiseInv, Effective
<1>4. config = [ipv6 |-> saved.config.ipv6, maxelem |-> saved.config.maxelem]
  BY <1>2 DEF PromiseInv
<1>5. ASSUME NEW f \in Families, NEW next, ReplaceSet(f, next), pc \in {"apply6", "apply4"},
             f \in Enabled
      PROVE  pc' = next
  <2>1. Cardinality(Of(f, Effective(candidates, safelist))) <= config.maxelem
    BY <1>5, CheckedFits DEF SyncInv, Progress
  <2> QED
    BY <1>1, <1>5, <2>1 DEF ReplaceSet
<1>6. pc' \in after \/ (pc' = "idle" /\ result' \in {"ok", "cancelled"})
  <2>1. CASE Promote
    BY <1>1, <2>1 DEF Promote, Cancelled, End, Go
  <2>2. CASE BeginEnforcement
    BY <2>2 DEF BeginEnforcement, Cancelled, End, Go
  <2>3. CASE ApplyIpv6
    <3>1. "ipv6" \in Enabled /\ "ipv6" \in Families
      BY <2>3 DEF ApplyIpv6, SyncInv, Progress, Enabled, EnabledIf, Families
    <3> QED
      BY <1>5, <2>3, <3>1 DEF ApplyIpv6
  <2>4. CASE ApplyIpv4
    <3>1. "ipv4" \in Enabled /\ "ipv4" \in Families
      BY DEF Enabled, EnabledIf, Families
    <3> QED
      BY <1>5, <2>4, <3>1 DEF ApplyIpv4
  <2>5. CASE Activate
    BY <1>1, <2>5 DEF Activate, End, Go
  <2>6. CASE CleanupDisabledIpv6
    BY <2>6 DEF CleanupDisabledIpv6, End
  <2> QED
    BY <2>1, <2>2, <2>3, <2>4, <2>5, <2>6
<1> QED
  BY <1>3, <1>4, <1>6 DEF PromiseInv, Ended

\* A sync that keeps its promise goes on keeping it.
LEMMA PromiseStep ==
  ASSUME SyncInv, PromiseInv, SyncStep
  PROVE  PromiseInv'
<1>1. CASE promised' = None
  BY <1>1 DEF PromiseInv
<1>2. CASE promised' # None
  <2>1. UNCHANGED <<saved, config>>
    BY DEF SyncStep, KeepPreview
  <2>2. CASE LoadForSync
    BY <1>2, <2>1, <2>2, LoadFollows
  <2>3. CASE ~ LoadForSync
    <3>1. /\ \/ EnsureArtifacts \/ BeginAdmission \/ AdmitExternal \/ CheckCapacity
             \/ Promote \/ BeginEnforcement \/ ApplyIpv6 \/ ApplyIpv4 \/ Activate
             \/ CleanupDisabledIpv6
          /\ ~ disturbed' /\ promised # None /\ UNCHANGED promised
      BY <1>2, <2>3 DEF SyncStep, Promise
    <3>2. CASE EnsureArtifacts
      <4>1. pc = "artifacts" /\ pc' = "load" /\ ~ disturbed'
            /\ UNCHANGED <<cache, loaded, candidates, safelist, external>>
        BY <3>1, <3>2 DEF EnsureArtifacts, Fault, Go, inputs
      <4>2. PICK x, tr, sl : x = promised /\ Foretells(x, tr, sl) /\ Follows(tr, sl)
        BY <3>1, <4>1 DEF PromiseInv
      <4>3. Follows(tr, sl)'
        BY <4>1, <4>2 DEF Follows
      <4>4. Foretells(x, tr, sl)'
        BY <2>1, <4>1, <4>2, ReplaysKept
      <4> QED
        BY <2>1, <3>1, <4>1, <4>2, <4>3, <4>4 DEF PromiseInv, Ended
    <3> QED
      BY <2>1, <3>1, <3>2, AdmissionFollows, AdmitFollows, CheckFollows, EnforcementFollows
  <2> QED
    BY <2>2, <2>3
<1> QED
  BY <1>1, <1>2

\* A sync that starts after a preview has its prediction as its promise.
LEMMA PromiseStarts ==
  ASSUME PredictionInv, LockForSync
  PROVE  PromiseInv'
<1>1. /\ Begin /\ promised' = predicted /\ UNCHANGED <<saved, cache>>
      /\ config' = [ipv6 |-> saved.config.ipv6, maxelem |-> saved.config.maxelem]
  BY DEF LockForSync, Begin
<1>2. pc' = "artifacts" /\ loaded' = 0 /\ ~ disturbed' /\ candidates' = {} /\ safelist' = {}
      /\ external' = <<>>
  BY <1>1 DEF Begin, Go
<1>3. SUFFICES ASSUME predicted # None
               PROVE  \E x, tr, sl : x = promised' /\ Foretells(x, tr, sl)' /\ Follows(tr, sl)'
  BY <1>1, <1>2 DEF PromiseInv, Ended
<1>4. PICK x, tr, sl : x = predicted /\ Foretells(x, tr, sl)
  BY <1>3 DEF PredictionInv
<1>5. tr[0].candidates = {} /\ tr[0].safelist = {} /\ tr[0].external = <<>>
  <2>1. tr[0] = Loaded({}, {}, <<>>)
    BY <1>4 DEF Foretells, Replays
  <2> QED
    BY <2>1 DEF Loaded
<1>6. Follows(tr, sl)'
  BY <1>2, <1>5 DEF Follows
<1>7. Foretells(x, tr, sl)'
  BY <1>1, <1>4, ReplaysKept
<1> QED
  BY <1>1, <1>4, <1>6, <1>7

LEMMA ForesightStep ==
  ASSUME SyncInv, PreviewInv, Foresight, [NextPreview]_allVars
  PROVE  Foresight'
<1>1. ViewReplays'
  BY ViewReplaysStep DEF Foresight
<1>2. PredictionInv'
  <2>1. CASE FinishPreview
    BY <2>1, PreviewForetells DEF Foresight
  <2>2. CASE predicted' = None
    BY <2>2 DEF PredictionInv
  <2>3. CASE ~ FinishPreview /\ predicted' # None
    <3>1. UNCHANGED <<saved, cache, predicted>>
      <4>1. CASE SyncStep \/ KillSync
        BY <2>3, <4>1 DEF SyncStep, KillSync, Forget, KeepPreview
      <4>2. CASE ~ (SyncStep \/ KillSync)
        BY <2>3, <4>2
        DEF NextPreview, StartPreview, LockForPreview, ReadConfig, ReadTemporary, LoadForPreview,
            FailPreview, LockForSync, Begin, InterruptSync, Interrupt, ChildExits, Save, Rest,
            allVars, vars, Unchanged, files
      <4> QED
        BY <4>1, <4>2
    <3> QED
      BY <3>1, PredictionKept DEF Foresight
  <2> QED
    BY <2>1, <2>2, <2>3
<1>3. PromiseInv'
  <2>1. CASE LockForSync
    BY <2>1, PromiseStarts DEF Foresight
  <2>2. CASE SyncStep
    BY <2>2, PromiseStep DEF Foresight
  <2>3. CASE KillSync
    BY <2>3 DEF KillSync, PromiseInv
  <2>4. CASE Save
    <3>1. UNCHANGED <<vars, promised>> /\ lock = {}
      BY <2>4 DEF Save, Free
    <3>2. pc = "idle"
      BY <3>1 DEF PreviewInv, LockInv
    <3>3. Effective(candidates, safelist)' = Effective(candidates, safelist)
      BY <3>1 DEF Effective, vars, inputs
    <3> QED
      BY <3>1, <3>2, <3>3 DEF Foresight, PromiseInv, Ended, vars, inputs
  <2>5. CASE ~ (LockForSync \/ SyncStep \/ KillSync \/ Save)
    <3>1. UNCHANGED <<saved, cache, promised, pc, result, disturbed, config, loaded, candidates,
                      safelist, baseline, external>>
      BY <2>5
      DEF NextPreview, StartPreview, LockForPreview, ReadConfig, ReadTemporary, LoadForPreview,
          FinishPreview, FailPreview, InterruptSync, Interrupt, ChildExits, Rest,
          allVars, vars, inputs, Unchanged, files
    <3> QED
      BY <3>1, PromiseKept DEF Foresight
  <2> QED
    BY <2>1, <2>2, <2>3, <2>4, <2>5
<1> QED
  BY <1>1, <1>2, <1>3 DEF Foresight

(***************************************************************************)
(* A preview shows what a sync does (preview.rs against sync.rs), for any  *)
(* registry and any answers of the network: a sync that meets no fault,    *)
(* after nothing that the preview read has changed, enforces exactly the   *)
(* plan shown, and fails exactly if there was none.                        *)
(***************************************************************************)
THEOREM PreviewsPredict == SpecPreview => []PreviewPredicts
<1>1. InitPreview => Foresight
  BY DEF InitPreview, Foresight, ViewReplays, PredictionInv, PromiseInv, Idle
<1>2. SyncInv /\ PreviewInv /\ Foresight /\ [NextPreview]_allVars => Foresight'
  BY ForesightStep
<1>3. SyncInv /\ Foresight => PreviewPredicts
  <2> SUFFICES ASSUME SyncInv, Foresight, promised # None
               PROVE  /\ Ended("ok") =>
                           /\ promised.plan # None
                           /\ \A f \in Enabled : kernel[f].entries = Of(f, promised.plan)
                      /\ Ended("failed") => promised.plan = None
    BY DEF PreviewPredicts
  <2>1. Ended("ok") => promised.plan # None /\ promised.plan = Effective(candidates, safelist)
    BY DEF Foresight, PromiseInv
  <2>2. ASSUME Ended("ok"), NEW f \in Enabled
        PROVE  kernel[f].entries = Of(f, Effective(candidates, safelist))
    <3>1. kernel[f] = [present |-> TRUE, wired |-> TRUE, entries |-> Of(f, candidates \ safelist)]
      BY <2>2 DEF SyncInv, Progress, OkEnforces
    <3> QED
      BY <3>1, EffectiveOf
  <2> QED
    BY <2>1, <2>2 DEF Foresight, PromiseInv
<1> QED
  BY <1>1, <1>2, <1>3, SyncInvariant, PreviewInvariant, PTL DEF SpecPreview
=============================================================================
