----------------------------- MODULE BansProofs -----------------------------
(***************************************************************************)
(* Proofs about Bans for any processes, CIDRs, autonomous systems,         *)
(* commands, file contents, clock readings and number of faults.           *)
(***************************************************************************)
EXTENDS Bans, TLAPS, FiniteSetTheorems, SequenceTheorems, WellFoundedInduction

\* A nonempty set of naturals has a least element.
LEMMA LeastNatural ==
  ASSUME NEW S, S \subseteq Nat, S # {}
  PROVE  \E x \in S : \A y \in S : x <= y
<1>1. PICK x \in S : \A y \in S : ~ (<<y, x>> \in OpToRel(<, Nat))
  BY NatLessThanWellFounded, WFMin
<1>2. ASSUME NEW y \in S
      PROVE  x <= y
  <2>1. <<y, x>> \in OpToRel(<, Nat) <=> <<y, x>> \in Nat \X Nat /\ y < x
    BY Zenon DEF OpToRel
  <2>2. ~ (<<y, x>> \in Nat \X Nat /\ y < x)
    BY <1>1, <2>1, Zenon
  <2> QED
    BY <2>2
<1> QED
  BY <1>2

(***************************************************************************)
(* What a command c that read the clock at t, and was shown the files v,   *)
(* may still have to write when the files are s.  It is said relative to   *)
(* the files as they are, not as they were when the command planned: that  *)
(* these are the same, but for the command's own writes, is what the lock  *)
(* is for.                                                                 *)
(***************************************************************************)
AppendNet(n) == [op |-> "append", net |-> n]
WriteLines(ls) == [op |-> "write_lines", lines |-> ls]
Dedupe(ns) == [op |-> "dedupe", nets |-> ns]
WriteConfig(k) == [op |-> "write_config", config |-> k]
Normalize == [op |-> "normalize"]
Enforce(s, t) == [op |-> "enforce", config |-> s.config, temp |-> s.temp, cutoff |-> t]
Pruned(s, t) == [ips |-> Prune(s.temp.ips, t), asns |-> Prune(s.temp.asns, t)]
SavePruned(s, t) == [op |-> "prune", temp |-> Pruned(s, t)]

BanTemp(c, s, t, T) ==
  /\ T.asns = s.temp.asns
  /\ T.ips[c.net] > t
  /\ \A n \in Nets \ {c.net} : T.ips[n] = s.temp.ips[n]

BanPending(c, s, t, q) ==
  \/ q = <<>>
  \/ q = <<AppendNet(c.net)>>
  \/ \E T \in TempBans : BanTemp(c, s, t, T) /\ q = <<SaveTemp(T)>>

UnbanTemp(c, s, v, T) ==
  /\ T.asns = s.temp.asns
  /\ \A n \in Nets : T.ips[n] # s.temp.ips[n] =>
       /\ n \cap c.net # {}
       /\ n \in DOMAIN Preview(v, c).temp
       /\ Preview(v, c).temp[n] = s.temp.ips[n]

UnbanLines(c, s, v, ls) ==
  /\ ls \subseteq s.list
  /\ \A n \in s.list \ ls : n \cap c.net # {} /\ n \in Preview(v, c).list

UnbanPending(c, s, v, q) ==
  \/ q = <<>>
  \/ \E T \in TempBans : UnbanTemp(c, s, v, T) /\ q = <<SaveTemp(T)>>
  \/ \E ls \in SUBSET Nets : UnbanLines(c, s, v, ls) /\ q = <<WriteLines(ls)>>
  \/ \E T \in TempBans, ls \in SUBSET Nets :
       UnbanTemp(c, s, v, T) /\ UnbanLines(c, s, v, ls) /\ q = <<SaveTemp(T), WriteLines(ls)>>

AsnTemp(c, s, T) ==
  /\ T.ips = s.temp.ips
  /\ \A a \in Asns \ {c.asn} : T.asns[a] = s.temp.asns[a]

BanAsnPending(c, s, t, q) ==
  \/ q = <<>>
  \/ q = <<UpdateAsns({c.asn}, {}), Dedupe(Prefixes[c.asn])>>
  \/ q = <<Dedupe(Prefixes[c.asn])>> /\ c.asn \in s.config.asns
  \/ \E T \in TempBans : AsnTemp(c, s, T) /\ T.asns[c.asn] > t /\ q = <<SaveTemp(T)>>

UnbanAsnPending(c, s, q) ==
  \/ q = <<>>
  \/ q = <<UpdateAsns({}, {c.asn})>>
  \/ \E T \in TempBans :
       AsnTemp(c, s, T) /\ q \in {<<SaveTemp(T)>>, <<SaveTemp(T), UpdateAsns({}, {c.asn})>>}

EditPending(s, q) ==
  \/ q = <<>>
  \/ q = <<WriteConfig([s.config EXCEPT !.other = ~ @])>>

SyncPending(s, t, q) ==
  \/ q \in {<<Normalize, Enforce(s, t)>>, <<Normalize, Enforce(s, t), SavePruned(s, t)>>,
            <<Enforce(s, t)>>, <<Enforce(s, t), SavePruned(s, t)>>}
  \/ q \in {<<>>, <<SavePruned(s, t)>>} /\ s.kernel = Effective(s, t)

Pending(c, s, v, t, q) ==
  /\ c.kind = "ban" => BanPending(c, s, t, q)
  /\ c.kind = "unban" => UnbanPending(c, s, v, q)
  /\ c.kind = "ban_asn" => BanAsnPending(c, s, t, q)
  /\ c.kind = "unban_asn" => UnbanAsnPending(c, s, q)
  /\ c.kind = "edit" => EditPending(s, q)
  /\ c.kind = "sync" => SyncPending(s, t, q)

-----------------------------------------------------------------------------
\* An address is banned by a line, by an active record or by a banned ASN.
LEMMA EffectiveMember ==
  ASSUME NEW s, NEW t, NEW x
  PROVE  x \in Effective(s, t) <=>
           \E n : /\ x \in n
                  /\ \/ n \in s.list
                     \/ n \in Active(s.temp.ips, t)
                     \/ \E a \in s.config.asns \cup Active(s.temp.asns, t) : n \in Prefixes[a]
BY DEF Effective

\* More lines, active records and ASNs ban more.
LEMMA EffectiveGrows ==
  ASSUME NEW s, NEW r, NEW t,
         UNION s.list \subseteq UNION r.list,
         Active(s.temp.ips, t) \subseteq Active(r.temp.ips, t),
         s.config.asns \cup Active(s.temp.asns, t)
           \subseteq r.config.asns \cup Active(r.temp.asns, t)
  PROVE  Effective(s, t) \subseteq Effective(r, t)
<1> SUFFICES ASSUME NEW x \in Effective(s, t) PROVE x \in Effective(r, t)
  OBVIOUS
<1>1. PICK n : /\ x \in n
               /\ \/ n \in s.list
                  \/ n \in Active(s.temp.ips, t)
                  \/ \E a \in s.config.asns \cup Active(s.temp.asns, t) : n \in Prefixes[a]
  BY EffectiveMember
<1>2. CASE n \in s.list
  <2>1. x \in UNION r.list
    BY <1>1, <1>2
  <2> QED
    BY <2>1, EffectiveMember
<1>3. CASE n \in Active(s.temp.ips, t)
  BY <1>1, <1>3, EffectiveMember
<1>4. CASE \E a \in s.config.asns \cup Active(s.temp.asns, t) : n \in Prefixes[a]
  BY <1>1, <1>4, EffectiveMember
<1> QED
  BY <1>1, <1>2, <1>3, <1>4

\* Every CIDR of a list lies in one that the collapsed list keeps: of those
\* within the list's addresses that contain it, one with the most addresses.
LEMMA CollapseKeepsAddresses ==
  ASSUME NEW list \in SUBSET Nets
  PROVE  Collapse(list) \in SUBSET Nets /\ UNION Collapse(list) = UNION list
<1> DEFINE inside == {n \in Nets : n \subseteq UNION list}
           N == Cardinality(UNION list)
<1>1. Collapse(list) = {n \in inside : \A m \in inside : n \subseteq m => m = n}
  BY DEF Collapse
<1>2. IsFiniteSet(UNION list) /\ N \in Nat
  <2>1. UNION list \subseteq UNION Nets
    OBVIOUS
  <2> QED
    BY <2>1, NetAssumption, FS_Subset, FS_CardinalityType
<1>3. ASSUME NEW m \in inside
      PROVE  /\ IsFiniteSet(m) /\ Cardinality(m) \in Nat /\ Cardinality(m) <= N
             /\ N - Cardinality(m) \in Nat
  <2>1. IsFiniteSet(m) /\ Cardinality(m) <= N
    BY <1>2, <1>3, FS_Subset
  <2>2. Cardinality(m) \in Nat
    BY <2>1, FS_CardinalityType
  <2> QED
    BY <1>2, <2>1, <2>2
<1>4. ASSUME NEW n \in list
      PROVE  \E m \in Collapse(list) : n \subseteq m
  <2> DEFINE wider == {m \in inside : n \subseteq m}
             room == {N - Cardinality(m) : m \in wider}
  <2>1. n \in wider
    BY <1>4
  <2>2. room \subseteq Nat /\ room # {}
    BY <1>3, <2>1
  <2>3. PICK least \in room : \A y \in room : least <= y
    BY <2>2, LeastNatural
  <2>4. PICK m \in wider : least = N - Cardinality(m)
    BY <2>3
  <2>5. ASSUME NEW o \in inside, m \subseteq o PROVE o = m
    <3>1. o \in wider
      BY <2>4, <2>5
    <3>2. N - Cardinality(m) <= N - Cardinality(o)
      BY <2>3, <2>4, <3>1
    <3>3. Cardinality(o) <= Cardinality(m)
      BY <1>2, <1>3, <2>4, <2>5, <3>2
    <3>4. IsFiniteSet(o) /\ Cardinality(m) <= Cardinality(o)
          /\ Cardinality(m) \in Nat /\ Cardinality(o) \in Nat
      BY <1>3, <2>4, <2>5, FS_Subset
    <3>5. Cardinality(m) = Cardinality(o)
      BY <3>3, <3>4
    <3> QED
      BY <2>5, <3>4, <3>5, FS_Subset
  <2> QED
    BY <1>1, <2>4, <2>5
<1>5. UNION list \subseteq UNION Collapse(list)
  BY <1>4
<1>6. UNION Collapse(list) \subseteq UNION list
  BY <1>1
<1> QED
  BY <1>1, <1>5, <1>6

-----------------------------------------------------------------------------
(***************************************************************************)
(* What one write does to the files, whatever they are.                    *)
(***************************************************************************)

\* The fields of a store, and of what each write makes of it.
LEMMA StoreFields ==
  ASSUME NEW s \in Store
  PROVE  /\ s.list \in SUBSET Nets /\ s.temp \in TempBans /\ s.config \in Configs
         /\ s.kernel \in SUBSET UNION Nets
         /\ s.temp.ips \in [Nets -> Expiry] /\ s.temp.asns \in [Asns -> Expiry]
         /\ s.config.asns \in SUBSET Asns /\ s.config.other \in BOOLEAN
BY DEF Store, TempBans, Configs

LEMMA TempWrite ==
  ASSUME NEW s \in Store, NEW T \in TempBans
  PROVE  /\ [s EXCEPT !.temp = T] \in Store
         /\ [s EXCEPT !.temp = T].temp = T
         /\ [s EXCEPT !.temp = T].list = s.list
         /\ [s EXCEPT !.temp = T].config = s.config
         /\ [s EXCEPT !.temp = T].kernel = s.kernel
BY DEF Store

LEMMA ListWrite ==
  ASSUME NEW s \in Store, NEW L \in SUBSET Nets
  PROVE  /\ [s EXCEPT !.list = L] \in Store
         /\ [s EXCEPT !.list = L].list = L
         /\ [s EXCEPT !.list = L].temp = s.temp
         /\ [s EXCEPT !.list = L].config = s.config
         /\ [s EXCEPT !.list = L].kernel = s.kernel
BY DEF Store

LEMMA ConfigWrite ==
  ASSUME NEW s \in Store, NEW k \in Configs
  PROVE  /\ [s EXCEPT !.config = k] \in Store
         /\ [s EXCEPT !.config = k].config = k
         /\ [s EXCEPT !.config = k].list = s.list
         /\ [s EXCEPT !.config = k].temp = s.temp
         /\ [s EXCEPT !.config = k].kernel = s.kernel
BY DEF Store

LEMMA KernelWrite ==
  ASSUME NEW s \in Store, NEW K \in SUBSET UNION Nets
  PROVE  /\ [s EXCEPT !.kernel = K] \in Store
         /\ [s EXCEPT !.kernel = K].kernel = K
         /\ [s EXCEPT !.kernel = K].list = s.list
         /\ [s EXCEPT !.kernel = K].temp = s.temp
         /\ [s EXCEPT !.kernel = K].config = s.config
BY DEF Store

\* The effects of the writes.
LEMMA Effects ==
  ASSUME NEW s \in Store
  PROVE  /\ \A T : Effect(s, SaveTemp(T)) = [s EXCEPT !.temp = T]
         /\ \A n : Effect(s, AppendNet(n)) = [s EXCEPT !.list = s.list \cup {n}]
         /\ \A L : Effect(s, WriteLines(L)) = [s EXCEPT !.list = L]
         /\ \A N : Effect(s, Dedupe(N)) = [s EXCEPT !.list = s.list \ N]
         /\ Effect(s, Normalize) = [s EXCEPT !.list = Collapse(s.list)]
         /\ \A k : Effect(s, WriteConfig(k)) = [s EXCEPT !.config = k]
         /\ \A t : Effect(s, SavePruned(s, t)) = [s EXCEPT !.temp = Pruned(s, t)]
         /\ \A t : Effect(s, Enforce(s, t)) = [s EXCEPT !.kernel = Effective(s, t)]
<1>1. [s EXCEPT !.config = s.config, !.temp = s.temp] = s
  BY DEF Store
<1>2. \A t : Effect(s, Enforce(s, t)) = [s EXCEPT !.kernel = Effective(s, t)]
  BY <1>1 DEF Effect, Enforce
<1>3. /\ \A T : Effect(s, SaveTemp(T)) = [s EXCEPT !.temp = T]
      /\ \A t : Effect(s, SavePruned(s, t)) = [s EXCEPT !.temp = Pruned(s, t)]
  BY DEF Effect, SaveTemp, SavePruned
<1>4. /\ \A n : Effect(s, AppendNet(n)) = [s EXCEPT !.list = s.list \cup {n}]
      /\ \A L : Effect(s, WriteLines(L)) = [s EXCEPT !.list = L]
      /\ \A N : Effect(s, Dedupe(N)) = [s EXCEPT !.list = s.list \ N]
      /\ Effect(s, Normalize) = [s EXCEPT !.list = Collapse(s.list)]
  BY DEF Effect, AppendNet, WriteLines, Dedupe, Normalize
<1>5. \A k : Effect(s, WriteConfig(k)) = [s EXCEPT !.config = k]
  BY DEF Effect, WriteConfig
<1> QED
  BY <1>2, <1>3, <1>4, <1>5

\* The two updates of the configured ASNs.
LEMMA AsnAdded ==
  ASSUME NEW s \in Store, NEW a \in Asns
  PROVE  \E k \in Configs :
           /\ k.other = s.config.other
           /\ k.asns = s.config.asns \cup {a}
           /\ Effect(s, UpdateAsns({a}, {})) = [s EXCEPT !.config = k]
<1> DEFINE k == [s.config EXCEPT !.asns = s.config.asns \cup {a}]
<1>1. Effect(s, UpdateAsns({a}, {}))
        = [s EXCEPT !.config = [s.config EXCEPT !.asns = (s.config.asns \cup {a}) \ {}]]
  BY DEF Effect, UpdateAsns
<1>2. (s.config.asns \cup {a}) \ {} = s.config.asns \cup {a}
  OBVIOUS
<1>3. k \in Configs /\ k.other = s.config.other /\ k.asns = s.config.asns \cup {a}
  BY StoreFields DEF Configs
<1>4. Effect(s, UpdateAsns({a}, {})) = [s EXCEPT !.config = k]
  BY <1>1, <1>2
<1> HIDE DEF k
<1> QED
  BY <1>3, <1>4

LEMMA AsnRemoved ==
  ASSUME NEW s \in Store, NEW a \in Asns
  PROVE  \E k \in Configs :
           /\ k.other = s.config.other
           /\ k.asns = s.config.asns \ {a}
           /\ Effect(s, UpdateAsns({}, {a})) = [s EXCEPT !.config = k]
<1> DEFINE k == [s.config EXCEPT !.asns = s.config.asns \ {a}]
<1>1. Effect(s, UpdateAsns({}, {a}))
        = [s EXCEPT !.config = [s.config EXCEPT !.asns = (s.config.asns \cup {}) \ {a}]]
  BY DEF Effect, UpdateAsns
<1>2. (s.config.asns \cup {}) \ {a} = s.config.asns \ {a}
  OBVIOUS
<1>3. k \in Configs /\ k.other = s.config.other /\ k.asns = s.config.asns \ {a}
  BY StoreFields DEF Configs
<1>4. Effect(s, UpdateAsns({}, {a})) = [s EXCEPT !.config = k]
  BY <1>1, <1>2
<1> HIDE DEF k
<1> QED
  BY <1>3, <1>4

\* Pruning keeps every record that is active, for the cutoff it used, and
\* empties only those that are not.
LEMMA PruneProps ==
  ASSUME NEW s \in Store, NEW t \in Nat
  PROVE  /\ Pruned(s, t) \in TempBans
         /\ Active(Pruned(s, t).ips, t) = Active(s.temp.ips, t)
         /\ Active(Pruned(s, t).asns, t) = Active(s.temp.asns, t)
         /\ \A n \in Nets : Pruned(s, t).ips[n] # s.temp.ips[n] => s.temp.ips[n] <= t
         /\ \A a \in Asns : Pruned(s, t).asns[a] # s.temp.asns[a] => s.temp.asns[a] <= t
<1>1. 0 \in Expiry /\ Expiry \subseteq Nat
  BY BoundAssumption DEF Expiry
<1>2. ASSUME NEW S, NEW f \in [S -> Expiry]
      PROVE  /\ Prune(f, t) \in [S -> Expiry]
             /\ Active(Prune(f, t), t) = Active(f, t)
             /\ \A x \in S : Prune(f, t)[x] # f[x] => f[x] <= t
  <2>1. Prune(f, t) = [x \in S |-> IF f[x] > t THEN f[x] ELSE 0]
    BY <1>2 DEF Prune
  <2>2. Prune(f, t) \in [S -> Expiry]
    BY <1>1, <1>2, <2>1
  <2>3. \A x \in S : Prune(f, t)[x] > t <=> f[x] > t
    BY <1>1, <1>2, <2>1
  <2>4. Active(Prune(f, t), t) = Active(f, t)
    BY <1>2, <2>2, <2>3 DEF Active
  <2>5. ASSUME NEW x \in S, Prune(f, t)[x] # f[x] PROVE f[x] <= t
    <3>1. f[x] \in Nat
      BY <1>1, <1>2
    <3>2. Prune(f, t)[x] = IF f[x] > t THEN f[x] ELSE 0
      BY <2>1
    <3> HIDE DEF Prune
    <3> QED
      BY <2>5, <3>1, <3>2
  <2> QED
    BY <2>2, <2>4, <2>5
<1>3. Pruned(s, t).ips = Prune(s.temp.ips, t) /\ Pruned(s, t).asns = Prune(s.temp.asns, t)
  BY DEF Pruned
<1>4. /\ Prune(s.temp.ips, t) \in [Nets -> Expiry]
      /\ Active(Prune(s.temp.ips, t), t) = Active(s.temp.ips, t)
      /\ \A x \in Nets : Prune(s.temp.ips, t)[x] # s.temp.ips[x] => s.temp.ips[x] <= t
  BY <1>2, StoreFields
<1>5. /\ Prune(s.temp.asns, t) \in [Asns -> Expiry]
      /\ Active(Prune(s.temp.asns, t), t) = Active(s.temp.asns, t)
      /\ \A x \in Asns : Prune(s.temp.asns, t)[x] # s.temp.asns[x] => s.temp.asns[x] <= t
  BY <1>2, StoreFields
<1>6. Pruned(s, t) \in TempBans
  BY <1>4, <1>5 DEF Pruned, TempBans
<1> QED
  BY <1>3, <1>4, <1>5, <1>6

\* Every CIDR that the files ban is one of Nets.
LEMMA EffectiveType ==
  ASSUME NEW s \in Store, NEW t
  PROVE  Effective(s, t) \in SUBSET UNION Nets
<1> SUFFICES ASSUME NEW x \in Effective(s, t) PROVE x \in UNION Nets
  OBVIOUS
<1>1. PICK n : /\ x \in n
               /\ \/ n \in s.list
                  \/ n \in Active(s.temp.ips, t)
                  \/ \E a \in s.config.asns \cup Active(s.temp.asns, t) : n \in Prefixes[a]
  BY EffectiveMember
<1>2. Active(s.temp.ips, t) \subseteq Nets /\ Active(s.temp.asns, t) \subseteq Asns
  BY StoreFields DEF Active
<1>3. \A a \in s.config.asns \cup Active(s.temp.asns, t) : Prefixes[a] \subseteq Nets
  BY <1>2, StoreFields, PrefixAssumption
<1> QED
  BY <1>1, <1>2, <1>3, StoreFields

-----------------------------------------------------------------------------
(***************************************************************************)
(* The first of the pending writes is as it must be, and the others are    *)
(* still pending after it; a best-effort write may also be skipped.        *)
(***************************************************************************)
AsItMust(c, s, r, v, t, q) ==
  /\ r \in Store
  /\ Confined(c, s, r, t) /\ AsShown(c, s, r, v) /\ Covers(c, s, r, t)
  /\ Pending(c, r, v, t, Tail(q))
  /\ Soft(Head(q)) => Pending(c, s, v, t, Tail(q))

LEMMA CommandFields ==
  ASSUME NEW c \in CommandType
  PROVE  /\ c.kind \in {"ban", "unban", "ban_asn", "unban_asn", "edit", "sync"}
         /\ c.kind \in {"ban", "unban"} => c.net \in Nets /\ c.hours \in 0 .. MaxTime
         /\ c.kind \in {"ban_asn", "unban_asn"} => c.asn \in Asns /\ c.hours \in 0 .. MaxTime
BY DEF CommandType

LEMMA BanWrite ==
  ASSUME NEW s \in Store, NEW c \in CommandType, c.kind = "ban", NEW v, NEW t \in Nat,
         NEW q, q # <<>>, BanPending(c, s, t, q)
  PROVE  AsItMust(c, s, Effect(s, Head(q)), v, t, q)
<1> DEFINE r == Effect(s, Head(q))
<1>1. c.net \in Nets
  BY CommandFields
<1>2. ASSUME Tail(q) = <<>>, ~ Soft(Head(q)), r \in Store,
             Confined(c, s, r, t), Effective(s, t) \subseteq Effective(r, t)
      PROVE  AsItMust(c, s, r, v, t, q)
  BY <1>2 DEF AsItMust, AsShown, Covers, Pending, BanPending
<1>3. CASE q = <<AppendNet(c.net)>>
  <2>1. Head(q) = AppendNet(c.net) /\ Tail(q) = <<>> /\ ~ Soft(Head(q))
    BY <1>3 DEF AppendNet, Soft
  <2>2. r = [s EXCEPT !.list = s.list \cup {c.net}]
    BY <2>1, Effects
  <2> HIDE DEF r
  <2>3. /\ r \in Store /\ r.list = s.list \cup {c.net}
        /\ r.temp = s.temp /\ r.config = s.config
    <3>1. s.list \cup {c.net} \in SUBSET Nets
      BY <1>1, StoreFields
    <3> QED
      BY <2>2, <3>1, ListWrite
  <2>4. Confined(c, s, r, t)
    BY <2>3 DEF Confined, Touched
  <2>5. Effective(s, t) \subseteq Effective(r, t)
    BY <2>3, EffectiveGrows
  <2> QED
    BY <1>2, <2>1, <2>3, <2>4, <2>5 DEF r
<1>4. ASSUME NEW T \in TempBans, BanTemp(c, s, t, T), q = <<SaveTemp(T)>>
      PROVE  AsItMust(c, s, r, v, t, q)
  <2>1. Head(q) = SaveTemp(T) /\ Tail(q) = <<>> /\ ~ Soft(Head(q))
    BY <1>4 DEF SaveTemp, Soft
  <2>2. r = [s EXCEPT !.temp = T]
    BY <2>1, Effects
  <2> HIDE DEF r
  <2>3. /\ r \in Store /\ r.list = s.list /\ r.temp = T /\ r.config = s.config
    BY <2>2, TempWrite
  <2>4. /\ DOMAIN s.temp.ips = Nets /\ DOMAIN T.ips = Nets
        /\ T.asns = s.temp.asns /\ T.ips[c.net] > t
        /\ \A n \in Nets \ {c.net} : T.ips[n] = s.temp.ips[n]
    BY <1>4, StoreFields DEF BanTemp, TempBans
  <2>5. Confined(c, s, r, t)
    BY <2>3, <2>4 DEF Confined, Touched
  <2>6. Active(s.temp.ips, t) \subseteq Active(T.ips, t)
    BY <1>1, <2>4 DEF Active
  <2>7. Effective(s, t) \subseteq Effective(r, t)
    BY <2>3, <2>4, <2>6, EffectiveGrows
  <2> QED
    BY <1>2, <2>1, <2>3, <2>5, <2>7
<1> QED
  BY <1>3, <1>4 DEF BanPending

LEMMA UnbanWrite ==
  ASSUME NEW s \in Store, NEW c \in CommandType, c.kind = "unban", NEW v, NEW t \in Nat,
         NEW q, q # <<>>, UnbanPending(c, s, v, q)
  PROVE  AsItMust(c, s, Effect(s, Head(q)), v, t, q)
<1> DEFINE r == Effect(s, Head(q))
<1>1. ASSUME ~ Soft(Head(q)), r \in Store, Confined(c, s, r, t), AsShown(c, s, r, v),
             UnbanPending(c, r, v, Tail(q))
      PROVE  AsItMust(c, s, r, v, t, q)
  BY <1>1 DEF AsItMust, Covers, Pending
<1>2. ASSUME NEW T \in TempBans, UnbanTemp(c, s, v, T), Head(q) = SaveTemp(T),
             \/ Tail(q) = <<>>
             \/ \E ls \in SUBSET Nets : UnbanLines(c, s, v, ls) /\ Tail(q) = <<WriteLines(ls)>>
      PROVE  AsItMust(c, s, r, v, t, q)
  <2>0. ~ Soft(Head(q))
    BY <1>2 DEF SaveTemp, Soft
  <2>1. r = [s EXCEPT !.temp = T]
    BY <1>2, Effects
  <2> HIDE DEF r
  <2>2. r \in Store /\ r.list = s.list /\ r.temp = T /\ r.config = s.config
    BY <2>1, TempWrite
  <2>3. DOMAIN s.temp.ips = Nets /\ DOMAIN s.temp.asns = Asns
    BY StoreFields
  <2>4. Touched(s.temp.asns, r.temp.asns) = {} /\ Touched(s.temp.ips, r.temp.ips) \subseteq Nets
    BY <1>2, <2>2, <2>3 DEF UnbanTemp, Touched
  <2>5. \A n \in Touched(s.temp.ips, r.temp.ips) :
          /\ n \cap c.net # {}
          /\ n \in DOMAIN Preview(v, c).temp
          /\ Preview(v, c).temp[n] = s.temp.ips[n]
    BY <1>2, <2>2, <2>3 DEF UnbanTemp, Touched
  <2>6. Confined(c, s, r, t)
    BY <2>2, <2>4, <2>5 DEF Confined
  <2>7. AsShown(c, s, r, v)
    BY <2>2, <2>5 DEF AsShown
  <2>8. UnbanPending(c, r, v, Tail(q))
    BY <1>2, <2>2 DEF UnbanPending, UnbanLines
  <2> QED
    BY <1>1, <2>0, <2>2, <2>6, <2>7, <2>8
<1>3. ASSUME NEW L \in SUBSET Nets, UnbanLines(c, s, v, L), q = <<WriteLines(L)>>
      PROVE  AsItMust(c, s, r, v, t, q)
  <2>1. Head(q) = WriteLines(L) /\ Tail(q) = <<>> /\ ~ Soft(Head(q))
    BY <1>3 DEF WriteLines, Soft
  <2>2. r = [s EXCEPT !.list = L]
    BY <2>1, Effects
  <2> HIDE DEF r
  <2>3. r \in Store /\ r.list = L /\ r.temp = s.temp /\ r.config = s.config
    BY <2>2, ListWrite
  <2>4. Touched(s.temp.asns, r.temp.asns) = {} /\ Touched(s.temp.ips, r.temp.ips) = {}
    BY <2>3 DEF Touched
  <2>5. Confined(c, s, r, t)
    BY <1>3, <2>3, <2>4 DEF Confined, UnbanLines
  <2>6. AsShown(c, s, r, v)
    BY <1>3, <2>3, <2>4 DEF AsShown, UnbanLines
  <2> QED
    BY <1>1, <2>1, <2>3, <2>5, <2>6 DEF UnbanPending
<1>4. CASE \E T \in TempBans : UnbanTemp(c, s, v, T) /\ q = <<SaveTemp(T)>>
  <2>1. PICK T \in TempBans : UnbanTemp(c, s, v, T) /\ q = <<SaveTemp(T)>>
    BY <1>4
  <2>2. Head(q) = SaveTemp(T) /\ Tail(q) = <<>>
    BY <2>1
  <2> QED
    BY <1>2, <2>1, <2>2
<1>5. CASE \E T \in TempBans, ls \in SUBSET Nets :
             /\ UnbanTemp(c, s, v, T) /\ UnbanLines(c, s, v, ls)
             /\ q = <<SaveTemp(T), WriteLines(ls)>>
  <2>1. PICK T \in TempBans, ls \in SUBSET Nets :
               /\ UnbanTemp(c, s, v, T) /\ UnbanLines(c, s, v, ls)
               /\ q = <<SaveTemp(T), WriteLines(ls)>>
    BY <1>5
  <2>2. Head(q) = SaveTemp(T) /\ Tail(q) = <<WriteLines(ls)>>
    BY <2>1
  <2> QED
    BY <1>2, <2>1, <2>2
<1> QED
  BY <1>3, <1>4, <1>5 DEF UnbanPending

LEMMA BanAsnWrite ==
  ASSUME NEW s \in Store, NEW c \in CommandType, c.kind = "ban_asn", NEW v,
         NEW t \in Nat, NEW q, q # <<>>, BanAsnPending(c, s, t, q)
  PROVE  AsItMust(c, s, Effect(s, Head(q)), v, t, q)
<1> DEFINE r == Effect(s, Head(q))
<1>1. c.asn \in Asns /\ Prefixes[c.asn] \subseteq Nets
  BY CommandFields, PrefixAssumption
<1>2. ASSUME r \in Store, Confined(c, s, r, t), Effective(s, t) \subseteq Effective(r, t),
             BanAsnPending(c, r, t, Tail(q)),
             Soft(Head(q)) => Tail(q) = <<>>
      PROVE  AsItMust(c, s, r, v, t, q)
  BY <1>2 DEF AsItMust, AsShown, Covers, Pending, BanAsnPending
<1>3. CASE q = <<UpdateAsns({c.asn}, {}), Dedupe(Prefixes[c.asn])>>
  <2>1. Head(q) = UpdateAsns({c.asn}, {}) /\ Tail(q) = <<Dedupe(Prefixes[c.asn])>>
    BY <1>3
  <2>2. ~ Soft(Head(q))
    BY <2>1 DEF UpdateAsns, Soft
  <2>3. PICK k \in Configs :
          /\ k.other = s.config.other
          /\ k.asns = s.config.asns \cup {c.asn}
          /\ Effect(s, UpdateAsns({c.asn}, {})) = [s EXCEPT !.config = k]
    BY <1>1, AsnAdded
  <2>4. r = [s EXCEPT !.config = k]
    BY <2>1, <2>3
  <2> HIDE DEF r
  <2>5. /\ r \in Store /\ r.list = s.list /\ r.temp = s.temp /\ r.config = k
    BY <2>4, ConfigWrite
  <2>6. Confined(c, s, r, t)
    BY <2>3, <2>5 DEF Confined, Touched
  <2>7. Effective(s, t) \subseteq Effective(r, t)
    BY <2>3, <2>5, EffectiveGrows
  <2>8. BanAsnPending(c, r, t, Tail(q))
    BY <2>1, <2>3, <2>5 DEF BanAsnPending
  <2> QED
    BY <1>2, <2>2, <2>5, <2>6, <2>7, <2>8 DEF r
<1>4. CASE q = <<Dedupe(Prefixes[c.asn])>> /\ c.asn \in s.config.asns
  <2>1. Head(q) = Dedupe(Prefixes[c.asn]) /\ Tail(q) = <<>>
    BY <1>4
  <2>2. r = [s EXCEPT !.list = s.list \ Prefixes[c.asn]]
    BY <2>1, Effects
  <2> HIDE DEF r
  <2>3. s.list \ Prefixes[c.asn] \in SUBSET Nets
    BY StoreFields
  <2>4. /\ r \in Store /\ r.list = s.list \ Prefixes[c.asn]
        /\ r.temp = s.temp /\ r.config = s.config
    BY <2>2, <2>3, ListWrite
  <2>5. Confined(c, s, r, t)
    BY <2>4 DEF Confined, Touched
  <2>6. Effective(s, t) \subseteq Effective(r, t)
    <3> SUFFICES ASSUME NEW x \in Effective(s, t) PROVE x \in Effective(r, t)
      OBVIOUS
    <3>1. PICK n :
            /\ x \in n
            /\ \/ n \in s.list
               \/ n \in Active(s.temp.ips, t)
               \/ \E a \in s.config.asns \cup Active(s.temp.asns, t) : n \in Prefixes[a]
      BY EffectiveMember
    <3>2. \/ n \in r.list
          \/ n \in Active(r.temp.ips, t)
          \/ \E a \in r.config.asns \cup Active(r.temp.asns, t) : n \in Prefixes[a]
      BY <1>4, <2>4, <3>1
    <3> QED
      BY <3>1, <3>2, EffectiveMember
  <2> QED
    BY <1>2, <2>1, <2>4, <2>5, <2>6 DEF BanAsnPending, r
<1>5. ASSUME NEW T \in TempBans, AsnTemp(c, s, T), T.asns[c.asn] > t, q = <<SaveTemp(T)>>
      PROVE  AsItMust(c, s, r, v, t, q)
  <2>1. Head(q) = SaveTemp(T) /\ Tail(q) = <<>>
    BY <1>5
  <2>2. ~ Soft(Head(q))
    BY <2>1 DEF SaveTemp, Soft
  <2>3. r = [s EXCEPT !.temp = T]
    BY <2>1, Effects
  <2> HIDE DEF r
  <2>4. r \in Store /\ r.list = s.list /\ r.temp = T /\ r.config = s.config
    BY <2>3, TempWrite
  <2>5. /\ DOMAIN s.temp.asns = Asns /\ DOMAIN T.asns = Asns /\ T.ips = s.temp.ips
        /\ \A a \in Asns \ {c.asn} : T.asns[a] = s.temp.asns[a]
    BY <1>5, StoreFields DEF AsnTemp, TempBans
  <2>6. Confined(c, s, r, t)
    BY <2>4, <2>5 DEF Confined, Touched
  <2>7. Active(s.temp.asns, t) \subseteq Active(T.asns, t)
    BY <1>1, <1>5, <2>5 DEF Active
  <2>8. Effective(s, t) \subseteq Effective(r, t)
    BY <2>4, <2>5, <2>7, EffectiveGrows
  <2> QED
    BY <1>2, <2>1, <2>2, <2>4, <2>6, <2>8 DEF BanAsnPending
<1> QED
  BY <1>3, <1>4, <1>5 DEF BanAsnPending

LEMMA UnbanAsnWrite ==
  ASSUME NEW s \in Store, NEW c \in CommandType, c.kind = "unban_asn", NEW v,
         NEW t \in Nat, NEW q, q # <<>>, UnbanAsnPending(c, s, q)
  PROVE  AsItMust(c, s, Effect(s, Head(q)), v, t, q)
<1> DEFINE r == Effect(s, Head(q))
<1>1. c.asn \in Asns
  BY CommandFields
<1>2. ASSUME r \in Store, Confined(c, s, r, t), UnbanAsnPending(c, r, Tail(q)), ~ Soft(Head(q))
      PROVE  AsItMust(c, s, r, v, t, q)
  BY <1>2 DEF AsItMust, AsShown, Covers, Pending
<1>3. CASE q = <<UpdateAsns({}, {c.asn})>>
  <2>1. Head(q) = UpdateAsns({}, {c.asn}) /\ Tail(q) = <<>>
    BY <1>3
  <2>2. ~ Soft(Head(q))
    BY <2>1 DEF UpdateAsns, Soft
  <2>3. PICK k \in Configs :
          /\ k.other = s.config.other
          /\ k.asns = s.config.asns \ {c.asn}
          /\ Effect(s, UpdateAsns({}, {c.asn})) = [s EXCEPT !.config = k]
    BY <1>1, AsnRemoved
  <2>4. r = [s EXCEPT !.config = k]
    BY <2>1, <2>3
  <2> HIDE DEF r
  <2>5. /\ r \in Store /\ r.list = s.list /\ r.temp = s.temp /\ r.config = k
    BY <2>4, ConfigWrite
  <2>6. Confined(c, s, r, t)
    BY <2>3, <2>5 DEF Confined, Touched
  <2> QED
    BY <1>2, <2>1, <2>2, <2>5, <2>6 DEF UnbanAsnPending, r
<1>4. ASSUME NEW T \in TempBans, AsnTemp(c, s, T),
             q \in {<<SaveTemp(T)>>, <<SaveTemp(T), UpdateAsns({}, {c.asn})>>}
      PROVE  AsItMust(c, s, r, v, t, q)
  <2>1. Head(q) = SaveTemp(T) /\ Tail(q) \in {<<>>, <<UpdateAsns({}, {c.asn})>>}
    <3>1. CASE q = <<SaveTemp(T)>>
      BY <3>1
    <3>2. CASE q = <<SaveTemp(T), UpdateAsns({}, {c.asn})>>
      BY <3>2
    <3> QED
      BY <1>4, <3>1, <3>2
  <2>2. ~ Soft(Head(q))
    BY <2>1 DEF SaveTemp, Soft
  <2>3. r = [s EXCEPT !.temp = T]
    BY <2>1, Effects
  <2> HIDE DEF r
  <2>4. r \in Store /\ r.list = s.list /\ r.temp = T /\ r.config = s.config
    BY <2>3, TempWrite
  <2>5. /\ DOMAIN s.temp.asns = Asns /\ T.ips = s.temp.ips
        /\ \A a \in Asns \ {c.asn} : T.asns[a] = s.temp.asns[a]
    BY <1>4, StoreFields DEF AsnTemp
  <2>6. Confined(c, s, r, t)
    BY <2>4, <2>5 DEF Confined, Touched
  <2> QED
    BY <1>2, <2>1, <2>2, <2>4, <2>6 DEF UnbanAsnPending
<1> QED
  BY <1>3, <1>4 DEF UnbanAsnPending

LEMMA EditWrite ==
  ASSUME NEW s \in Store, NEW c \in CommandType, c.kind = "edit", NEW v,
         NEW t \in Nat, NEW q, q # <<>>, EditPending(s, q)
  PROVE  AsItMust(c, s, Effect(s, Head(q)), v, t, q)
<1> DEFINE r == Effect(s, Head(q))
           k == [s.config EXCEPT !.other = ~ s.config.other]
<1>1. k \in Configs
  BY StoreFields DEF Configs
<1>2. q = <<WriteConfig(k)>>
  BY DEF EditPending
<1>3. Head(q) = WriteConfig(k) /\ Tail(q) = <<>>
  BY <1>2
<1> HIDE DEF k
<1>4. ~ Soft(Head(q))
  BY <1>3 DEF WriteConfig, Soft
<1>5. r = [s EXCEPT !.config = k]
  BY <1>3, Effects
<1> HIDE DEF r
<1>6. r \in Store
  BY <1>1, <1>5, ConfigWrite
<1>7. Confined(c, s, r, t)
  <2>1. r = [s EXCEPT !.config.other = ~ @]
    BY <1>5 DEF k
  <2> QED
    BY <2>1 DEF Confined
<1> QED
  BY <1>3, <1>4, <1>6, <1>7 DEF AsItMust, AsShown, Covers, Pending, EditPending, r

LEMMA SyncWrite ==
  ASSUME NEW s \in Store, NEW c \in CommandType, c.kind = "sync", NEW v,
         NEW t \in Nat, NEW q, q # <<>>, SyncPending(s, t, q)
  PROVE  AsItMust(c, s, Effect(s, Head(q)), v, t, q)
<1> DEFINE r == Effect(s, Head(q))
<1>1. ASSUME r \in Store, Confined(c, s, r, t), Effective(s, t) \subseteq Effective(r, t),
             SyncPending(r, t, Tail(q)),
             Soft(Head(q)) => SyncPending(s, t, Tail(q))
      PROVE  AsItMust(c, s, r, v, t, q)
  BY <1>1 DEF AsItMust, AsShown, Covers, Pending
<1>2. CASE q \in {<<Normalize, Enforce(s, t)>>, <<Normalize, Enforce(s, t), SavePruned(s, t)>>}
  <2>1. /\ Head(q) = Normalize
        /\ Tail(q) \in {<<Enforce(s, t)>>, <<Enforce(s, t), SavePruned(s, t)>>}
    <3>1. CASE q = <<Normalize, Enforce(s, t)>>
      BY <3>1
    <3>2. CASE q = <<Normalize, Enforce(s, t), SavePruned(s, t)>>
      BY <3>2
    <3> QED
      BY <1>2, <3>1, <3>2
  <2>2. ~ Soft(Head(q))
    BY <2>1 DEF Normalize, Soft
  <2>3. r = [s EXCEPT !.list = Collapse(s.list)]
    BY <2>1, Effects
  <2> HIDE DEF r
  <2>4. /\ r \in Store /\ UNION r.list = UNION s.list /\ r.temp = s.temp
        /\ r.config = s.config
    BY <2>3, StoreFields, CollapseKeepsAddresses, ListWrite
  <2>5. Confined(c, s, r, t)
    BY <2>4 DEF Confined, Touched
  <2>6. Effective(s, t) \subseteq Effective(r, t)
    BY <2>4, EffectiveGrows
  <2>7. Enforce(r, t) = Enforce(s, t) /\ SavePruned(r, t) = SavePruned(s, t)
    BY <2>4 DEF Enforce, SavePruned, Pruned
  <2>8. SyncPending(r, t, Tail(q))
    BY <2>1, <2>7 DEF SyncPending
  <2> QED
    BY <1>1, <2>2, <2>4, <2>5, <2>6, <2>8 DEF r
<1>3. CASE q \in {<<Enforce(s, t)>>, <<Enforce(s, t), SavePruned(s, t)>>}
  <2>1. Head(q) = Enforce(s, t) /\ Tail(q) \in {<<>>, <<SavePruned(s, t)>>}
    <3>1. CASE q = <<Enforce(s, t)>>
      BY <3>1
    <3>2. CASE q = <<Enforce(s, t), SavePruned(s, t)>>
      BY <3>2
    <3> QED
      BY <1>3, <3>1, <3>2
  <2>2. ~ Soft(Head(q))
    BY <2>1 DEF Enforce, Soft
  <2>3. r = [s EXCEPT !.kernel = Effective(s, t)]
    BY <2>1, Effects
  <2> HIDE DEF r
  <2>4. /\ r \in Store /\ r.kernel = Effective(s, t)
        /\ r.list = s.list /\ r.temp = s.temp /\ r.config = s.config
    BY <2>3, EffectiveType, KernelWrite
  <2>5. Confined(c, s, r, t)
    BY <2>4 DEF Confined, Touched
  <2>6. Effective(r, t) = Effective(s, t)
    BY <2>4 DEF Effective
  <2>7. SavePruned(r, t) = SavePruned(s, t)
    BY <2>4 DEF SavePruned, Pruned
  <2>8. SyncPending(r, t, Tail(q))
    BY <2>1, <2>4, <2>6, <2>7 DEF SyncPending
  <2> QED
    BY <1>1, <2>2, <2>4, <2>5, <2>6, <2>8 DEF r
<1>4. CASE q = <<SavePruned(s, t)>> /\ s.kernel = Effective(s, t)
  <2>1. Head(q) = SavePruned(s, t) /\ Tail(q) = <<>>
    BY <1>4
  <2> DEFINE T == Pruned(s, t)
  <2>2. r = [s EXCEPT !.temp = T]
    BY <2>1, Effects
  <2>3. /\ T \in TempBans
        /\ Active(T.ips, t) = Active(s.temp.ips, t)
        /\ Active(T.asns, t) = Active(s.temp.asns, t)
        /\ \A n \in Nets : T.ips[n] # s.temp.ips[n] => s.temp.ips[n] <= t
        /\ \A a \in Asns : T.asns[a] # s.temp.asns[a] => s.temp.asns[a] <= t
    BY PruneProps
  <2> HIDE DEF r, T
  <2>4. /\ r \in Store /\ r.temp = T /\ r.list = s.list
        /\ r.config = s.config /\ r.kernel = s.kernel
    BY <2>2, <2>3, TempWrite
  <2>5. DOMAIN s.temp.ips = Nets /\ DOMAIN s.temp.asns = Asns
    BY StoreFields
  <2>6. /\ \A n \in Touched(s.temp.ips, r.temp.ips) : s.temp.ips[n] <= t
        /\ \A a \in Touched(s.temp.asns, r.temp.asns) : s.temp.asns[a] <= t
    BY <2>3, <2>4, <2>5 DEF Touched
  <2>7. Confined(c, s, r, t)
    BY <2>4, <2>6 DEF Confined
  <2>8. Effective(r, t) = Effective(s, t)
    BY <2>3, <2>4 DEF Effective
  <2>9. SyncPending(r, t, Tail(q)) /\ SyncPending(s, t, Tail(q))
    BY <1>4, <2>1, <2>4, <2>8 DEF SyncPending
  <2> QED
    BY <1>1, <2>4, <2>7, <2>8, <2>9 DEF r
<1> QED
  BY <1>2, <1>3, <1>4 DEF SyncPending

\* Each write of a command is as it must be, whatever the command.
LEMMA PendingWrite ==
  ASSUME NEW s \in Store, NEW c \in CommandType, NEW v,
         NEW t \in Nat, NEW q, q # <<>>, Pending(c, s, v, t, q)
  PROVE  AsItMust(c, s, Effect(s, Head(q)), v, t, q)
<1>1. CASE c.kind = "ban"
  BY <1>1, BanWrite DEF Pending
<1>2. CASE c.kind = "unban"
  BY <1>2, UnbanWrite DEF Pending
<1>3. CASE c.kind = "ban_asn"
  BY <1>3, BanAsnWrite DEF Pending
<1>4. CASE c.kind = "unban_asn"
  BY <1>4, UnbanAsnWrite DEF Pending
<1>5. CASE c.kind = "edit"
  BY <1>5, EditWrite DEF Pending
<1>6. CASE c.kind = "sync"
  BY <1>6, SyncWrite DEF Pending
<1> QED
  BY <1>1, <1>2, <1>3, <1>4, <1>5, <1>6, CommandFields

-----------------------------------------------------------------------------
(***************************************************************************)
(* What a command plans under the lock is pending.                         *)
(***************************************************************************)
LEMMA TimesAdd ==
  ASSUME NEW t \in 1 .. MaxTime, NEW h \in 0 .. MaxTime, h # 0
  PROVE  t \in Nat /\ t + h \in Expiry /\ t + h > t
BY BoundAssumption DEF Expiry

\* Plans are put together from short pieces.
LEMMA Pieces ==
  ASSUME NEW a, NEW b, NEW d
  PROVE  /\ <<>> \o <<>> = <<>> /\ <<a>> \o <<>> = <<a>> /\ <<>> \o <<a>> = <<a>>
         /\ <<a>> \o <<b>> = <<a, b>> /\ <<a, b>> \o <<>> = <<a, b>>
         /\ <<a, b>> \o <<d>> = <<a, b, d>>
<1> DEFINE S == {a, b, d}
<1>1. /\ <<>> \in Seq(S) /\ <<a>> \in Seq(S) /\ <<b>> \in Seq(S) /\ <<d>> \in Seq(S)
      /\ <<a, b>> \in Seq(S)
  OBVIOUS
<1>2. /\ <<>> \o <<>> = <<>> /\ <<a>> \o <<>> = <<a>> /\ <<>> \o <<a>> = <<a>>
      /\ <<a, b>> \o <<>> = <<a, b>>
  BY <1>1, ConcatEmptySeq
<1>3. <<a>> \o <<b>> = <<a, b>>
  <2> DEFINE s == <<a>> \o <<b>>
             u == <<a, b>>
  <2>1. s \in Seq(S) /\ Len(s) = 2
    BY <1>1, ConcatProperties
  <2>2. s[1] = a /\ s[2] = b
    BY <1>1, ConcatProperties
  <2>3. u \in Seq(S) /\ Len(u) = 2 /\ u[1] = a /\ u[2] = b
    OBVIOUS
  <2> HIDE DEF s, u
  <2>4. \A i \in 1 .. 2 : s[i] = u[i]
    BY <2>2, <2>3
  <2> QED
    BY <2>1, <2>3, <2>4, SeqEqual DEF s, u
<1>4. <<a, b>> \o <<d>> = <<a, b, d>>
  <2> DEFINE s == <<a, b>> \o <<d>>
             u == <<a, b, d>>
  <2>1. s \in Seq(S) /\ Len(s) = 3
    BY <1>1, ConcatProperties
  <2>2. s[1] = a /\ s[2] = b /\ s[3] = d
    BY <1>1, ConcatProperties
  <2>3. u \in Seq(S) /\ Len(u) = 3 /\ u[1] = a /\ u[2] = b /\ u[3] = d
    OBVIOUS
  <2> HIDE DEF s, u
  <2>4. \A i \in 1 .. 3 : s[i] = u[i]
    BY <2>2, <2>3
  <2> QED
    BY <2>1, <2>3, <2>4, SeqEqual DEF s, u
<1> QED
  BY <1>2, <1>3, <1>4

LEMMA BanPlanned ==
  ASSUME NEW s \in Store, NEW c \in CommandType, c.kind = "ban", NEW t \in 1 .. MaxTime
  PROVE  BanPending(c, s, t, BanPlan(s, c, t))
<1> DEFINE ips == [s.temp.ips EXCEPT ![c.net] = t + c.hours]
           T == [s.temp EXCEPT !.ips = ips]
<1>1. CASE c.net \in s.list \/ c.hours = 0
  BY <1>1 DEF BanPending, BanPlan, AppendNet
<1>2. CASE c.net \notin s.list /\ c.hours # 0
  <2>1. BanPlan(s, c, t) = <<SaveTemp(T)>>
    BY <1>2 DEF BanPlan
  <2>2. c.net \in Nets /\ t + c.hours \in Expiry /\ t + c.hours > t
    BY <1>2, CommandFields, TimesAdd
  <2>3. /\ ips \in [Nets -> Expiry] /\ ips[c.net] > t
        /\ \A n \in Nets \ {c.net} : ips[n] = s.temp.ips[n]
    BY <2>2, StoreFields
  <2> HIDE DEF ips
  <2>4. T \in TempBans /\ T.ips = ips /\ T.asns = s.temp.asns
    BY <2>3, StoreFields DEF TempBans
  <2> HIDE DEF T
  <2>5. BanTemp(c, s, t, T)
    BY <2>3, <2>4 DEF BanTemp
  <2> QED
    BY <2>1, <2>4, <2>5 DEF BanPending
<1> QED
  BY <1>1, <1>2

\* Only entries that the target equals or overlaps are removed, and the
\* preview shows them all.
LEMMA RemovedIsShown ==
  ASSUME NEW c \in CommandType, c.kind = "unban", NEW nets \in SUBSET Nets
  PROVE  /\ Removed(nets, c) \subseteq Matches(nets, c)
         /\ Removed(nets, c) \subseteq nets
         /\ \A n \in Removed(nets, c) : n \cap c.net # {}
<1>1. c.net \in Nets /\ c.net # {}
  BY CommandFields, NetAssumption
<1> QED
  BY <1>1 DEF Removed, Matches, Exact, Partial

LEMMA UnbanPlanned ==
  ASSUME NEW s \in Store, NEW c \in CommandType, c.kind = "unban", NEW v,
         Preview(s, c) = Preview(v, c)
  PROVE  UnbanPending(c, s, v, UnbanPlan(s, c))
<1> DEFINE temps == Removed(Recorded(s.temp.ips), c)
           lines == Removed(s.list, c)
           ips == [n \in Nets |-> IF n \in temps THEN 0 ELSE s.temp.ips[n]]
           T == [s.temp EXCEPT !.ips = ips]
           ls == s.list \ lines
           first == IF temps = {} THEN <<>> ELSE <<SaveTemp(T)>>
           second == IF lines = {} THEN <<>> ELSE <<WriteLines(ls)>>
<1>1. UnbanPlan(s, c) = first \o second
  BY DEF UnbanPlan, WriteLines
<1>2. Recorded(s.temp.ips) \in SUBSET Nets
  BY StoreFields DEF Recorded
<1>3. /\ temps \subseteq Matches(Recorded(s.temp.ips), c)
      /\ \A n \in temps : n \cap c.net # {}
  BY <1>2, RemovedIsShown
<1>4. /\ lines \subseteq Matches(s.list, c) /\ lines \subseteq s.list
      /\ \A n \in lines : n \cap c.net # {}
  BY StoreFields, RemovedIsShown
<1>5. /\ Preview(v, c).list = Matches(s.list, c)
      /\ Preview(v, c).temp = [n \in Matches(Recorded(s.temp.ips), c) |-> s.temp.ips[n]]
  <2>1. /\ Preview(s, c).list = Matches(s.list, c)
        /\ Preview(s, c).temp = [n \in Matches(Recorded(s.temp.ips), c) |-> s.temp.ips[n]]
    BY DEF Preview
  <2> QED
    BY <2>1
<1> HIDE DEF temps, lines
<1>6. ips \in [Nets -> Expiry] /\ \A n \in Nets : ips[n] # s.temp.ips[n] => n \in temps
  <2>1. 0 \in Expiry
    BY BoundAssumption DEF Expiry
  <2> QED
    BY <2>1, StoreFields
<1> HIDE DEF ips
<1>7. T \in TempBans /\ T.ips = ips /\ T.asns = s.temp.asns
  BY <1>6, StoreFields DEF TempBans
<1>8. ls \in SUBSET Nets /\ UnbanLines(c, s, v, ls)
  BY <1>4, <1>5, StoreFields DEF UnbanLines
<1> HIDE DEF T, ls
<1>9. UnbanTemp(c, s, v, T)
  BY <1>3, <1>5, <1>6, <1>7 DEF UnbanTemp
<1>10. first \o second \in {<<>>, <<SaveTemp(T)>>, <<WriteLines(ls)>>,
                            <<SaveTemp(T), WriteLines(ls)>>}
  <2>1. first \in {<<>>, <<SaveTemp(T)>>} /\ second \in {<<>>, <<WriteLines(ls)>>}
    OBVIOUS
  <2> HIDE DEF first, second
  <2> QED
    BY <2>1, Pieces
<1> HIDE DEF first, second
<1> QED
  BY <1>1, <1>7, <1>8, <1>9, <1>10 DEF UnbanPending

LEMMA BanAsnPlanned ==
  ASSUME NEW s \in Store, NEW c \in CommandType, c.kind = "ban_asn", NEW t \in 1 .. MaxTime
  PROVE  BanAsnPending(c, s, t, BanAsnPlan(s, c, t))
<1> DEFINE asns == [s.temp.asns EXCEPT ![c.asn] = t + c.hours]
           T == [s.temp EXCEPT !.asns = asns]
<1>1. CASE c.hours = 0
  BY <1>1 DEF BanAsnPending, BanAsnPlan, Dedupe
<1>2. CASE c.hours # 0 /\ c.asn \in s.config.asns
  BY <1>2 DEF BanAsnPending, BanAsnPlan
<1>3. CASE c.hours # 0 /\ c.asn \notin s.config.asns
  <2>1. BanAsnPlan(s, c, t) = <<SaveTemp(T)>>
    BY <1>3 DEF BanAsnPlan
  <2>2. c.asn \in Asns /\ t + c.hours \in Expiry /\ t + c.hours > t
    BY <1>3, CommandFields, TimesAdd
  <2>3. /\ asns \in [Asns -> Expiry] /\ asns[c.asn] > t
        /\ \A a \in Asns \ {c.asn} : asns[a] = s.temp.asns[a]
    BY <2>2, StoreFields
  <2> HIDE DEF asns
  <2>4. T \in TempBans /\ T.asns = asns /\ T.ips = s.temp.ips
    BY <2>3, StoreFields DEF TempBans
  <2> HIDE DEF T
  <2>5. AsnTemp(c, s, T) /\ T.asns[c.asn] > t
    BY <2>3, <2>4 DEF AsnTemp
  <2> QED
    BY <2>1, <2>4, <2>5 DEF BanAsnPending
<1> QED
  BY <1>1, <1>2, <1>3

LEMMA UnbanAsnPlanned ==
  ASSUME NEW s \in Store, NEW c \in CommandType, c.kind = "unban_asn"
  PROVE  UnbanAsnPending(c, s, UnbanAsnPlan(s, c))
<1> DEFINE asns == [s.temp.asns EXCEPT ![c.asn] = 0]
           T == [s.temp EXCEPT !.asns = asns]
           U == UpdateAsns({}, {c.asn})
<1>1. UnbanAsnPlan(s, c) \in {<<>>, <<U>>, <<SaveTemp(T)>>, <<SaveTemp(T), U>>}
  <2> DEFINE first == IF s.temp.asns[c.asn] # 0 THEN <<SaveTemp(T)>> ELSE <<>>
             second == IF s.temp.asns[c.asn] # 0 /\ c.asn \notin s.config.asns
                       THEN <<>> ELSE <<U>>
  <2>1. UnbanAsnPlan(s, c) = first \o second
    BY DEF UnbanAsnPlan
  <2>2. first \in {<<>>, <<SaveTemp(T)>>} /\ second \in {<<>>, <<U>>}
    OBVIOUS
  <2> HIDE DEF first, second, T, U
  <2> QED
    BY <2>1, <2>2, Pieces
<1>2. /\ asns \in [Asns -> Expiry]
      /\ \A a \in Asns \ {c.asn} : asns[a] = s.temp.asns[a]
  <2>1. 0 \in Expiry
    BY BoundAssumption DEF Expiry
  <2> QED
    BY <2>1, StoreFields
<1> HIDE DEF asns
<1>3. T \in TempBans /\ T.asns = asns /\ T.ips = s.temp.ips
  BY <1>2, StoreFields DEF TempBans
<1> HIDE DEF T
<1>4. AsnTemp(c, s, T)
  BY <1>2, <1>3 DEF AsnTemp
<1> QED
  BY <1>1, <1>3, <1>4 DEF UnbanAsnPending

LEMMA SyncPlanned ==
  ASSUME NEW s \in Store, NEW t
  PROVE  SyncPending(s, t, SyncPlan(s, t))
<1> DEFINE last == IF Pruned(s, t) = s.temp THEN <<>> ELSE <<SavePruned(s, t)>>
<1>1. SyncPlan(s, t) = <<Normalize, Enforce(s, t)>> \o last
  BY DEF SyncPlan, Normalize, Enforce, SavePruned, Pruned
<1>2. SyncPlan(s, t) \in {<<Normalize, Enforce(s, t)>>,
                          <<Normalize, Enforce(s, t), SavePruned(s, t)>>}
  <2>1. last \in {<<>>, <<SavePruned(s, t)>>}
    OBVIOUS
  <2> HIDE DEF last
  <2> QED
    BY <1>1, <2>1, Pieces
<1> QED
  BY <1>2 DEF SyncPending

-----------------------------------------------------------------------------
(***************************************************************************)
(* The invariant.  Who reads or writes under the lock holds it, so that    *)
(* what a command still has to write is pending with respect to the files  *)
(* as they are now, whatever the other processes do.                       *)
(***************************************************************************)
LockInv == \A p \in Procs : pc[p] \in {"load", "write"} => lock = p

FreshAt(p) ==
  /\ pc[p] \notin {"write", "end"} => ~ wrote[p]
  /\ pc[p] # "end" => res[p] = "none"
  /\ res[p] = "error" /\ Kind(p) # "sync" => ~ wrote[p]

FreshInv == \A p \in Procs : FreshAt(p)

PendingAt(p) == pc[p] = "write" => Pending(cmd[p], store, seen[p], cutoff[p], todo[p])

TodoInv == DOMAIN todo = Procs /\ \A p \in Procs : PendingAt(p)

IInv == TypeOK /\ LockInv /\ FreshInv /\ TodoInv

PcValues ==
  {"ready", "peek_list", "peek_temp", "peek_config", "acquire", "load", "write", "end"}
ResValues ==
  {"none", "ok", "error", "partial", "changed", "locked", "cancelled", "killed"}

LEMMA TypesOf ==
  ASSUME TypeOK, NEW p \in Procs
  PROVE  /\ cmd[p] \in CommandType /\ seen[p] \in Store /\ cutoff[p] \in Nat
         /\ pc[p] \in PcValues /\ store \in Store /\ now \in 1 .. MaxTime /\ p # NoProc
BY CommandAssumption, BoundAssumption, ProcAssumption DEF TypeOK, PcValues

LEMMA Planned ==
  ASSUME TypeOK, NEW p \in Procs, StillValid(p)
  PROVE  Pending(cmd[p], store, seen[p], now, Plan(p))
<1> DEFINE c == cmd[p]
<1>1. c \in CommandType /\ store \in Store /\ now \in 1 .. MaxTime
  BY TypesOf
<1>2. CASE c.kind = "ban"
  <2>1. Plan(p) = BanPlan(store, c, now)
    BY <1>2 DEF Plan
  <2> QED
    BY <1>1, <1>2, <2>1, BanPlanned DEF Pending
<1>3. CASE c.kind = "unban"
  <2>1. Plan(p) = UnbanPlan(store, c) /\ Preview(store, c) = Preview(seen[p], c)
    BY <1>3 DEF Plan, StillValid, Kind
  <2> QED
    BY <1>1, <1>3, <2>1, UnbanPlanned DEF Pending
<1>4. CASE c.kind = "ban_asn"
  <2>1. Plan(p) = BanAsnPlan(store, c, now)
    BY <1>4 DEF Plan
  <2> QED
    BY <1>1, <1>4, <2>1, BanAsnPlanned DEF Pending
<1>5. CASE c.kind = "unban_asn"
  <2>1. Plan(p) = UnbanAsnPlan(store, c)
    BY <1>5 DEF Plan
  <2> QED
    BY <1>1, <1>5, <2>1, UnbanAsnPlanned DEF Pending
<1>6. CASE c.kind = "edit"
  <2>1. Plan(p) = EditPlan(seen[p]) /\ store.config = seen[p].config
    BY <1>6 DEF Plan, StillValid, Kind
  <2>2. EditPending(store, Plan(p))
    BY <2>1 DEF EditPlan, EditPending, WriteConfig
  <2> QED
    BY <1>6, <2>2 DEF Pending
<1>7. CASE c.kind = "sync"
  <2>1. Plan(p) = SyncPlan(store, now)
    BY <1>7 DEF Plan
  <2> QED
    BY <1>1, <1>7, <2>1, SyncPlanned DEF Pending
<1> QED
  BY <1>1, <1>2, <1>3, <1>4, <1>5, <1>6, <1>7, CommandFields

LEMMA InitIInv == Init => IInv
<1> SUFFICES ASSUME Init PROVE IInv
  OBVIOUS
<1>1. TypeOK
  BY StoreAssumption, BoundAssumption DEF Init, TypeOK
<1>2. LockInv /\ FreshInv /\ TodoInv
  BY DEF Init, LockInv, FreshInv, FreshAt, TodoInv, PendingAt
<1> QED
  BY <1>1, <1>2 DEF IInv

\* A step of p leaves the parts of the other processes alone, and touches the
\* files only while p holds the lock: so only p's own part is in question.
LEMMA StepOfOne ==
  ASSUME IInv, NEW p \in Procs, TypeOK', DOMAIN todo' = Procs, UNCHANGED cmd,
         \A q \in Procs \ {p} :
           /\ pc'[q] = pc[q] /\ seen'[q] = seen[q] /\ cutoff'[q] = cutoff[q]
           /\ todo'[q] = todo[q] /\ wrote'[q] = wrote[q] /\ res'[q] = res[q],
         lock' = lock \/ lock = NoProc \/ lock = p,
         store' = store \/ pc[p] = "write",
         pc'[p] \in {"load", "write"} => lock' = p,
         FreshAt(p)',
         PendingAt(p)'
  PROVE  IInv'
<1>1. LockInv'
  <2> SUFFICES ASSUME NEW q \in Procs \ {p}, pc'[q] \in {"load", "write"} PROVE lock' = q
    BY DEF LockInv
  <2>1. lock = q
    BY DEF IInv, LockInv
  <2> QED
    BY <2>1, ProcAssumption
<1>2. FreshInv'
  BY DEF IInv, FreshInv, FreshAt, Kind
<1>3. ASSUME NEW q \in Procs \ {p} PROVE PendingAt(q)'
  <2> SUFFICES ASSUME pc'[q] = "write"
               PROVE  Pending(cmd'[q], store', seen'[q], cutoff'[q], todo'[q])
    BY DEF PendingAt
  <2>1. pc[q] = "write"
    BY <1>3
  <2>2. lock = q
    BY <2>1 DEF IInv, LockInv
  <2>3. store' = store
    BY <2>2 DEF IInv, LockInv
  <2>4. Pending(cmd[q], store, seen[q], cutoff[q], todo[q])
    BY <2>1 DEF IInv, TodoInv, PendingAt
  <2>5. /\ cmd'[q] = cmd[q] /\ seen'[q] = seen[q] /\ cutoff'[q] = cutoff[q]
        /\ todo'[q] = todo[q]
    OBVIOUS
  <2> QED
    BY <2>3, <2>4, <2>5
<1>4. TodoInv'
  BY <1>3 DEF TodoInv
<1> QED
  BY <1>1, <1>2, <1>4 DEF IInv

\* A process that ends.
LEMMA EndIInv ==
  ASSUME IInv, NEW p \in Procs, NEW o \in ResValues, End(p, o),
         UNCHANGED <<now, cmd, seen, cutoff, todo, wrote>>,
         store' \in Store, store' = store \/ pc[p] = "write",
         UNCHANGED faults \/ Fault,
         o = "error" /\ Kind(p) # "sync" => ~ wrote[p]
  PROVE  IInv'
<1>1. /\ pc \in [Procs -> PcValues] /\ res \in [Procs -> ResValues]
      /\ lock \in Procs \cup {NoProc} /\ DOMAIN todo = Procs
  BY DEF IInv, TypeOK, TodoInv, PcValues, ResValues
<1>2. /\ pc' \in [Procs -> PcValues] /\ res' \in [Procs -> ResValues]
      /\ lock' \in Procs \cup {NoProc}
      /\ pc'[p] = "end" /\ res'[p] = o
      /\ \A q \in Procs \ {p} : pc'[q] = pc[q] /\ res'[q] = res[q]
  BY <1>1 DEF End, Go, PcValues
<1>3. TypeOK'
  <2>1. faults' \in 0 .. MaxFaults
    BY BoundAssumption DEF IInv, TypeOK, Fault
  <2> QED
    BY <1>2, <2>1 DEF IInv, TypeOK, PcValues, ResValues
<1>4. lock' = lock \/ lock = p
  BY DEF End
<1>5. FreshAt(p)' /\ PendingAt(p)'
  BY <1>2 DEF FreshAt, PendingAt, Kind
<1> QED
  BY <1>1, <1>2, <1>3, <1>4, <1>5, StepOfOne

LEMMA StartIInv ==
  ASSUME IInv, NEW p \in Procs, Start(p)
  PROVE  IInv'
<1>1. PICK next \in {"peek_list", "peek_config", "acquire"} : Go(p, next)
  BY DEF Start
<1>2. pc \in [Procs -> PcValues] /\ DOMAIN todo = Procs
  BY DEF IInv, TypeOK, TodoInv, PcValues
<1>3. /\ pc' \in [Procs -> PcValues] /\ pc'[p] = next
      /\ \A q \in Procs \ {p} : pc'[q] = pc[q]
  BY <1>1, <1>2 DEF Go, PcValues
<1>4. UNCHANGED <<store, lock, now, cmd, seen, cutoff, todo, wrote, res, faults>>
  BY DEF Start
<1>5. TypeOK'
  BY <1>3, <1>4 DEF IInv, TypeOK, PcValues
<1>6. FreshAt(p)' /\ PendingAt(p)'
  BY <1>3, <1>4 DEF IInv, FreshInv, FreshAt, PendingAt, Start
<1> QED
  BY <1>2, <1>3, <1>4, <1>5, <1>6, StepOfOne

LEMMA PeekIInv ==
  ASSUME IInv, NEW p \in Procs, PeekList(p) \/ PeekTemp(p) \/ PeekConfig(p)
  PROVE  IInv'
<1>1. PICK at \in {"peek_list", "peek_temp", "peek_config"},
           next \in {"peek_temp", "acquire"}, look \in Store : Peek(p, at, next, look)
  <2>1. seen[p] \in Store /\ store \in Store
    BY TypesOf DEF IInv
  <2>2. /\ [seen[p] EXCEPT !.list = store.list] \in Store
        /\ [seen[p] EXCEPT !.temp = store.temp] \in Store
        /\ [seen[p] EXCEPT !.config = store.config] \in Store
    BY <2>1, StoreFields, ListWrite, TempWrite, ConfigWrite
  <2> QED
    BY <2>2 DEF PeekList, PeekTemp, PeekConfig
<1>2. pc \in [Procs -> PcValues] /\ seen \in [Procs -> Store] /\ DOMAIN todo = Procs
  BY DEF IInv, TypeOK, TodoInv, PcValues
<1>3. /\ pc' \in [Procs -> PcValues] /\ pc'[p] = next /\ seen' \in [Procs -> Store]
      /\ \A q \in Procs \ {p} : pc'[q] = pc[q] /\ seen'[q] = seen[q]
  BY <1>1, <1>2 DEF Peek, Go, PcValues
<1>4. UNCHANGED <<store, lock, now, cmd, cutoff, todo, wrote, res, faults>> /\ pc[p] = at
  BY <1>1 DEF Peek
<1>5. TypeOK'
  BY <1>3, <1>4 DEF IInv, TypeOK, PcValues
<1>6. FreshAt(p)' /\ PendingAt(p)'
  BY <1>3, <1>4 DEF IInv, FreshInv, FreshAt, PendingAt
<1> QED
  BY <1>2, <1>3, <1>4, <1>5, <1>6, StepOfOne

LEMMA AcquireIInv ==
  ASSUME IInv, NEW p \in Procs, Acquire(p)
  PROVE  IInv'
<1>1. CASE lock = NoProc
  <2>1. /\ UNCHANGED <<store, now, cmd, seen, cutoff, todo, wrote, res, faults>>
        /\ lock' = p /\ Go(p, "load") /\ pc[p] = "acquire"
    BY <1>1 DEF Acquire
  <2>2. pc \in [Procs -> PcValues] /\ DOMAIN todo = Procs
    BY DEF IInv, TypeOK, TodoInv, PcValues
  <2>3. /\ pc' \in [Procs -> PcValues] /\ pc'[p] = "load"
        /\ \A q \in Procs \ {p} : pc'[q] = pc[q]
    BY <2>1, <2>2 DEF Go, PcValues
  <2>4. TypeOK'
    BY <2>1, <2>3 DEF IInv, TypeOK, PcValues
  <2>5. FreshAt(p)' /\ PendingAt(p)'
    BY <2>1, <2>3 DEF IInv, FreshInv, FreshAt, PendingAt
  <2> QED
    BY <1>1, <2>1, <2>2, <2>3, <2>4, <2>5, StepOfOne
<1>2. CASE lock # NoProc
  <2>1. /\ End(p, "locked")
        /\ UNCHANGED <<store, now, cmd, seen, cutoff, todo, wrote, faults>>
    BY <1>2 DEF Acquire
  <2>2. store' \in Store
    BY <2>1, TypesOf DEF IInv
  <2>3. "locked" \in ResValues /\ "locked" # "error"
    BY DEF ResValues
  <2> QED
    BY <2>1, <2>2, <2>3, EndIInv
<1> QED
  BY <1>1, <1>2

LEMMA LoadIInv ==
  ASSUME IInv, NEW p \in Procs, Load(p)
  PROVE  IInv'
<1>1. pc[p] = "load" /\ UNCHANGED <<store, now, cmd, seen, wrote>> /\ store' \in Store
  BY TypesOf DEF IInv, Load
<1>2. CASE /\ StillValid(p)
           /\ todo' = [todo EXCEPT ![p] = Plan(p)]
           /\ cutoff' = [cutoff EXCEPT ![p] = now]
           /\ Go(p, "write")
           /\ UNCHANGED <<lock, res, faults>>
  <2>1. /\ pc \in [Procs -> PcValues] /\ DOMAIN todo = Procs
        /\ cutoff \in [Procs -> 0 .. MaxTime] /\ now \in 0 .. MaxTime
    BY DEF IInv, TypeOK, TodoInv, PcValues
  <2>2. /\ pc' \in [Procs -> PcValues] /\ pc'[p] = "write"
        /\ cutoff' \in [Procs -> 0 .. MaxTime] /\ cutoff'[p] = now
        /\ DOMAIN todo' = Procs /\ todo'[p] = Plan(p)
        /\ \A q \in Procs \ {p} :
             pc'[q] = pc[q] /\ cutoff'[q] = cutoff[q] /\ todo'[q] = todo[q]
    BY <1>2, <2>1 DEF Go, PcValues
  <2>3. TypeOK'
    BY <1>1, <1>2, <2>2 DEF IInv, TypeOK, PcValues
  <2>4. FreshAt(p)'
    BY <1>1, <1>2, <2>2 DEF IInv, FreshInv, FreshAt
  <2>5. Pending(cmd[p], store, seen[p], now, Plan(p))
    BY <1>2, Planned DEF IInv
  <2>6. PendingAt(p)'
    BY <1>1, <2>2, <2>5 DEF PendingAt
  <2>7. lock' = p
    BY <1>1, <1>2 DEF IInv, LockInv
  <2> QED
    BY <1>1, <1>2, <2>2, <2>3, <2>4, <2>6, <2>7, StepOfOne
<1>3. CASE ~ StillValid(p) /\ End(p, "changed") /\ UNCHANGED <<todo, cutoff, faults>>
  <2>1. "changed" \in ResValues /\ "changed" # "error"
    BY DEF ResValues
  <2> QED
    BY <1>1, <1>3, <2>1, EndIInv
<1>4. CASE Fault /\ End(p, "error") /\ UNCHANGED <<todo, cutoff>>
  <2>1. "error" \in ResValues
    BY DEF ResValues
  <2>2. ~ wrote[p]
    BY <1>1 DEF IInv, FreshInv, FreshAt
  <2> QED
    BY <1>1, <1>4, <2>1, <2>2, EndIInv
<1> QED
  BY <1>2, <1>3, <1>4 DEF Load

\* The write that p is about to make, and the plan it leaves.
LEMMA NextWrite ==
  ASSUME IInv, NEW p \in Procs, pc[p] = "write", todo[p] # <<>>
  PROVE  AsItMust(cmd[p], store, Effect(store, Head(todo[p])), seen[p], cutoff[p], todo[p])
<1>1. Pending(cmd[p], store, seen[p], cutoff[p], todo[p])
  BY DEF IInv, TodoInv, PendingAt
<1> QED
  BY <1>1, TypesOf, PendingWrite DEF IInv

LEMMA WriteIInv ==
  ASSUME IInv, NEW p \in Procs, Write(p)
  PROVE  IInv'
<1> DEFINE w == Head(todo[p])
           after == Effect(store, w)
<1>1. /\ pc[p] = "write" /\ todo[p] # <<>> /\ UNCHANGED <<now, cmd, seen, cutoff>>
      /\ lock = p
  BY DEF IInv, LockInv, Write
<1>2. /\ after \in Store
      /\ Pending(cmd[p], after, seen[p], cutoff[p], Tail(todo[p]))
      /\ Soft(w) => Pending(cmd[p], store, seen[p], cutoff[p], Tail(todo[p]))
  BY <1>1, NextWrite DEF AsItMust
<1>3. store \in Store
  BY TypesOf DEF IInv
<1>4. \/ /\ store' = after
         /\ todo' = [todo EXCEPT ![p] = Tail(todo[p])]
         /\ wrote' = [wrote EXCEPT ![p] = TRUE]
         /\ UNCHANGED <<lock, pc, res, faults>>
      \/ /\ Fault /\ store' \in {store, after} /\ UNCHANGED wrote
         /\ Soft(w) /\ todo' = [todo EXCEPT ![p] = Tail(todo[p])]
         /\ UNCHANGED <<lock, pc, res>>
      \/ /\ Fault /\ store' \in {store, after} /\ UNCHANGED wrote
         /\ End(p, FailureOutcome(p)) /\ UNCHANGED todo
  BY DEF Write
<1> HIDE DEF after, w
<1>5. ASSUME store' \in {store, after},
             todo' = [todo EXCEPT ![p] = Tail(todo[p])],
             wrote' \in {wrote, [wrote EXCEPT ![p] = TRUE]},
             UNCHANGED <<lock, pc, res>>,
             UNCHANGED faults \/ Fault,
             Pending(cmd[p], store', seen[p], cutoff[p], Tail(todo[p]))
      PROVE  IInv'
  <2>1. DOMAIN todo = Procs /\ wrote \in [Procs -> BOOLEAN]
    BY DEF IInv, TypeOK, TodoInv
  <2>2. /\ DOMAIN todo' = Procs /\ todo'[p] = Tail(todo[p])
        /\ \A q \in Procs \ {p} : todo'[q] = todo[q]
    BY <1>5, <2>1
  <2>3. /\ wrote' \in [Procs -> BOOLEAN]
        /\ \A q \in Procs \ {p} : wrote'[q] = wrote[q]
    BY <1>5, <2>1
  <2>4. faults' \in 0 .. MaxFaults
    BY <1>5, BoundAssumption DEF IInv, TypeOK, Fault
  <2>5. TypeOK'
    BY <1>1, <1>2, <1>3, <1>5, <2>3, <2>4 DEF IInv, TypeOK
  <2>6. FreshAt(p)'
    BY <1>1, <1>5 DEF IInv, FreshInv, FreshAt
  <2>7. PendingAt(p)'
    BY <1>1, <1>5, <2>2 DEF PendingAt
  <2> QED
    BY <1>1, <1>5, <2>2, <2>3, <2>5, <2>6, <2>7, StepOfOne
<1>6. ASSUME Fault, store' \in {store, after}, UNCHANGED <<wrote, todo>>,
             End(p, FailureOutcome(p))
      PROVE  IInv'
  <2>1. /\ FailureOutcome(p) \in ResValues
        /\ FailureOutcome(p) = "error" /\ Kind(p) # "sync" => ~ wrote[p]
    BY DEF FailureOutcome, ResValues
  <2>2. store' \in Store
    BY <1>2, <1>3, <1>6
  <2> QED
    BY <1>1, <1>6, <2>1, <2>2, EndIInv
<1> QED
  BY <1>2, <1>4, <1>5, <1>6

LEMMA EndingIInv ==
  ASSUME IInv, NEW p \in Procs, Finish(p) \/ Cancel(p) \/ Crash(p)
  PROVE  IInv'
<1>1. PICK o \in {"ok", "cancelled", "killed"} :
        /\ End(p, o) /\ UNCHANGED <<store, now, cmd, seen, cutoff, todo, wrote>>
        /\ UNCHANGED faults \/ Fault
  BY DEF Finish, Cancel, Crash
<1>2. o \in ResValues /\ o # "error"
  BY DEF ResValues
<1>3. store' \in Store
  BY <1>1, TypesOf DEF IInv
<1> QED
  BY <1>1, <1>2, <1>3, EndIInv

LEMMA NextIInv ==
  ASSUME IInv, [Next]_vars
  PROVE  IInv'
<1>1. CASE UNCHANGED vars \/ SetClock
  <2>1. /\ UNCHANGED <<store, lock, pc, cmd, seen, cutoff, todo, wrote, res, faults>>
        /\ now' \in 1 .. MaxTime
    BY <1>1 DEF vars, SetClock, IInv, TypeOK
  <2>2. TypeOK'
    BY <2>1 DEF IInv, TypeOK
  <2>3. LockInv' /\ FreshInv' /\ TodoInv'
    BY <2>1 DEF IInv, LockInv, FreshInv, FreshAt, Kind, TodoInv, PendingAt
  <2> QED
    BY <2>2, <2>3 DEF IInv
<1>2. ASSUME NEW p \in Procs, Start(p) \/ Step(p) \/ Cancel(p) \/ Crash(p)
      PROVE  IInv'
  BY <1>2, StartIInv, PeekIInv, AcquireIInv, LoadIInv, WriteIInv, EndingIInv DEF Step
<1> QED
  BY <1>1, <1>2 DEF Next

LEMMA InvariantHolds == Spec => []IInv
BY InitIInv, NextIInv, PTL DEF Spec

-----------------------------------------------------------------------------
\* A step that writes the files of a process in "write" is that process's own.
LEMMA WritesAreOwn ==
  ASSUME IInv, [Next]_vars, NEW p \in Procs, Wrote(p)
  PROVE  /\ Confined(cmd[p], store, store', cutoff[p])
         /\ AsShown(cmd[p], store, store', seen[p])
         /\ Covers(cmd[p], store, store', cutoff[p])
<1>1. pc[p] = "write" /\ store' # store
  BY DEF Wrote
<1>2. PICK q \in Procs : Write(q)
  BY <1>1
  DEF Next, vars, Start, Step, PeekList, PeekTemp, PeekConfig, Peek, Acquire, Load, Finish,
      Cancel, Crash, SetClock
<1>3. q = p
  BY <1>1, <1>2 DEF Write, IInv, LockInv
<1>4. todo[p] # <<>> /\ store' = Effect(store, Head(todo[p]))
  BY <1>1, <1>2, <1>3 DEF Write
<1> QED
  BY <1>1, <1>4, NextWrite DEF AsItMust

\* A command changes only what its operator named, whatever other commands do
\* at the same time and wherever a write fails or a process is killed.
THEOREM CommandsKeepToTheirTargets == Spec => NoCollateral
<1>1. IInv /\ [Next]_vars =>
        [\A p \in Procs : Wrote(p) => Confined(cmd[p], store, store', cutoff[p])]_vars
  BY WritesAreOwn
<1> QED
  BY <1>1, InvariantHolds, PTL DEF Spec, NoCollateral

\* An unban takes away nothing that its preview, read without the lock, did not
\* show with the same deadline.
THEOREM UnbansMatchTheirPreview == Spec => UnbanAsPreviewed
<1>1. IInv /\ [Next]_vars =>
        [\A p \in Procs : Wrote(p) => AsShown(cmd[p], store, store', seen[p])]_vars
  BY WritesAreOwn
<1> QED
  BY <1>1, InvariantHolds, PTL DEF Spec, UnbanAsPreviewed

\* No write of a ban, of an ASN ban or of a sync uncovers an address, so a
\* process killed between two writes leaves the old bans in force; and one that
\* failed after its first write says that the update is partial.
THEOREM BansOnlyAdd == Spec => BanNeverUncovers
<1>1. IInv => TypeOK /\ PartialReported
  BY DEF IInv, FreshInv, FreshAt, PartialReported
<1>2. IInv /\ [Next]_vars =>
        [\A p \in Procs : Wrote(p) => Covers(cmd[p], store, store', cutoff[p])]_vars
  BY WritesAreOwn
<1> QED
  BY <1>1, <1>2, InvariantHolds, PTL DEF Spec, BanNeverUncovers

\* A sync that ends well has enforced the very files it leaves behind.
THEOREM SyncsEnforceWhatTheyLeave == Spec => EnforcesLockedFiles
<1>1. ASSUME IInv, [Next]_vars, NEW p \in Procs,
             Kind(p) = "sync", res'[p] = "ok", res[p] # "ok"
      PROVE  store.kernel = Effective(store, cutoff[p])
  <2>1. res' # res /\ p \in DOMAIN res
    BY <1>1 DEF IInv, TypeOK
  <2>2. PICK q \in Procs : \/ Acquire(q) /\ End(q, "locked")
                           \/ Load(q) /\ (End(q, "changed") \/ End(q, "error"))
                           \/ Write(q) /\ End(q, FailureOutcome(q))
                           \/ Finish(q) /\ End(q, "ok")
                           \/ Cancel(q) /\ End(q, "cancelled")
                           \/ Crash(q) /\ End(q, "killed")
    BY <1>1, <2>1
    DEF Next, vars, Start, Step, PeekList, PeekTemp, PeekConfig, Peek, Acquire, Load, Write,
        Finish, Cancel, Crash, SetClock
  <2>3. q = p /\ Finish(p)
    BY <1>1, <2>1, <2>2 DEF End, FailureOutcome
  <2>4. Pending(cmd[p], store, seen[p], cutoff[p], <<>>)
    BY <1>1, <2>3 DEF Finish, IInv, TodoInv, PendingAt
  <2>5. SyncPending(store, cutoff[p], <<>>)
    BY <1>1, <2>4 DEF Pending, Kind
  <2> QED
    BY <2>5 DEF SyncPending
<1>2. IInv /\ [Next]_vars =>
        [\A p \in Procs : Kind(p) = "sync" /\ res'[p] = "ok" /\ res[p] # "ok" =>
           store.kernel = Effective(store, cutoff[p])]_vars
  BY <1>1
<1> QED
  BY <1>2, InvariantHolds, PTL DEF Spec, EnforcesLockedFiles
=============================================================================
