----------------------------- MODULE IpsetProofs -----------------------------
(***************************************************************************)
(* That Ipset implements AtomicSet, that a success it reports is true, a   *)
(* failure has a cause and leftovers are bounded, for any sets, lists,     *)
(* temporary names and number of faults.                                   *)
(***************************************************************************)
EXTENDS Ipset, SequencesExt, TLAPS, SequenceTheorems, WellFoundedInduction, FiniteSetTheorems

\* Min of a nonempty set of naturals is its least element.
LEMMA MinFirst ==
  ASSUME NEW S, S \subseteq Nat, S # {}
  PROVE  Min(S) \in S /\ \A y \in S : Min(S) <= y
<1>1. PICK x \in S : \A y \in S : ~ (<<y, x>> \in OpToRel(<, Nat))
  BY NatLessThanWellFounded, WFMin
<1>2. ASSUME NEW y \in S
      PROVE  x <= y
  <2>1. <<y, x>> \in OpToRel(<, Nat) <=> <<y, x>> \in Nat \X Nat /\ y < x
    BY Zenon DEF OpToRel
  <2>2. ~ (<<y, x>> \in Nat \X Nat /\ y < x)
    BY <1>1, <2>1, Zenon
  <2> QED
    BY <2>2
<1> QED
  BY <1>2 DEF Min

-----------------------------------------------------------------------------
(***************************************************************************)
(* Sorting by rank keeps every element: ranks are different and as many as *)
(* there are elements (sorted_unique_entries loses no network).  No        *)
(* element is there twice.                                                 *)
(***************************************************************************)
Once(s) == \A i, j \in DOMAIN s : s[i] = s[j] => i = j

LEMMA SortedProps ==
  ASSUME NEW S \in SUBSET Nat, IsFiniteSet(S)
  PROVE  Sorted(S) \in Seq(S) /\ ToSet(Sorted(S)) = S /\ Once(Sorted(S))
<1> DEFINE Below(x) == {y \in S : y < x}
           n == Cardinality(S)
           rank == [x \in S |-> Cardinality(Below(x)) + 1]
<1>1. n \in Nat
  BY FS_CardinalityType
<1>2. \A x \in S : Cardinality(Below(x)) \in Nat /\ IsFiniteSet(Below(x))
  BY FS_Subset, FS_CardinalityType
<1>3. \A x \in S : rank[x] \in 1 .. n
  <2> SUFFICES ASSUME NEW x \in S PROVE rank[x] \in 1 .. n
    OBVIOUS
  <2>1. Below(x) \in SUBSET S /\ Below(x) # S
    OBVIOUS
  <2>2. Cardinality(Below(x)) <= n /\ Cardinality(Below(x)) # n
    BY <2>1, FS_Subset
  <2> QED
    BY <1>1, <1>2, <2>2
<1>4. \A x, y \in S : x < y => rank[x] < rank[y]
  <2> SUFFICES ASSUME NEW x \in S, NEW y \in S, x < y PROVE rank[x] < rank[y]
    OBVIOUS
  <2>1. Below(x) \in SUBSET Below(y) /\ Below(x) # Below(y)
    <3>1. \A z \in S : z < x => z < y
      <4> SUFFICES ASSUME NEW z \in S, z < x PROVE z < y
        OBVIOUS
      <4>1. x \in Nat /\ y \in Nat /\ z \in Nat
        OBVIOUS
      <4> QED
        BY <4>1
    <3>2. x \in Below(y) /\ x \notin Below(x)
      OBVIOUS
    <3> QED
      BY <3>1, <3>2
  <2>2. Cardinality(Below(x)) <= Cardinality(Below(y)) /\ Cardinality(Below(x)) # Cardinality(Below(y))
    BY <1>2, <2>1, FS_Subset
  <2> QED
    BY <1>2, <2>2
<1>5. \A x, y \in S : rank[x] = rank[y] => x = y
  <2> SUFFICES ASSUME NEW x \in S, NEW y \in S, x # y PROVE rank[x] # rank[y]
    OBVIOUS
  <2>1. x < y \/ y < x
    OBVIOUS
  <2> QED
    BY <1>3, <1>4, <2>1
<1>6. rank \in Injection(S, 1 .. n)
  BY <1>3, <1>5 DEF Injection, IsInjective
<1>7. IsFiniteSet(1 .. n) /\ Cardinality(1 .. n) = n
  BY <1>1, FS_Interval
<1>8. rank \in Surjection(S, 1 .. n)
  BY <1>6, <1>7, FS_Injection
<1>9. \A i \in 1 .. n : \E x \in S : rank[x] = i
  BY <1>8 DEF Surjection
<1> DEFINE Nth(i) == CHOOSE x \in S : Cardinality({y \in S : y < x}) = i - 1
<1>10. \A i \in 1 .. n : Nth(i) \in S /\ rank[Nth(i)] = i
  <2> SUFFICES ASSUME NEW i \in 1 .. n PROVE Nth(i) \in S /\ rank[Nth(i)] = i
    OBVIOUS
  <2>1. \E x \in S : Cardinality({y \in S : y < x}) = i - 1
    BY <1>2, <1>9
  <2>2. Nth(i) \in S /\ Cardinality({y \in S : y < Nth(i)}) = i - 1
    BY <2>1
  <2> QED
    BY <2>2
<1>11. Sorted(S) = [i \in 1 .. n |-> Nth(i)]
  BY DEF Sorted
<1> HIDE DEF Nth, rank, n
<1>12. Sorted(S) \in Seq(S)
  BY <1>1, <1>10, <1>11
<1>13. ToSet(Sorted(S)) = S
  <2> HIDE DEF Below
  <2>1. DOMAIN Sorted(S) = 1 .. n /\ \A i \in 1 .. n : Sorted(S)[i] = Nth(i)
    BY <1>11
  <2>2. \A x \in S : rank[x] \in 1 .. n /\ Nth(rank[x]) = x
    BY <1>3, <1>5, <1>10
  <2>3. \A i \in 1 .. n : Sorted(S)[i] \in S
    BY <1>10, <2>1
  <2>4. \A x \in S : \E i \in 1 .. n : Sorted(S)[i] = x
    BY <2>1, <2>2
  <2> QED
    BY <2>1, <2>3, <2>4 DEF ToSet
<1>14. Once(Sorted(S))
  <2>1. DOMAIN Sorted(S) = 1 .. n /\ \A i \in 1 .. n : Sorted(S)[i] = Nth(i)
    BY <1>11
  <2> QED
    BY <1>10, <2>1 DEF Once
<1> QED
  BY <1>12, <1>13, <1>14

\* A list whose neighbours increase has no element twice.
LEMMA IncreasingOnce ==
  ASSUME NEW s \in Seq(Nat), IsSortedAndUnique(s)
  PROVE  Once(s)
<1> DEFINE n == Len(s)
           Bad == {j \in 1 .. n : \E i \in 1 .. n : i < j /\ s[j] <= s[i]}
<1>1. n \in Nat /\ DOMAIN s = 1 .. n /\ \A i \in 1 .. n : s[i] \in Nat
  OBVIOUS
<1>2. Bad = {}
  <2> SUFFICES ASSUME Bad # {} PROVE FALSE
    OBVIOUS
  <2> DEFINE b == Min(Bad)
  <2>1. Bad \subseteq Nat
    OBVIOUS
  <2>2. b \in Bad /\ \A y \in Bad : b <= y
    BY <2>1, MinFirst
  <2>3. PICK i \in 1 .. n : i < b /\ s[b] <= s[i]
    BY <2>2
  <2>4. b \in 2 .. n /\ b - 1 \in 1 .. n /\ b - 1 \in 1 .. n - 1 /\ (b - 1) + 1 = b
    BY <1>1, <2>2, <2>3
  <2>5. s[b - 1] < s[b]
    BY <2>4 DEF IsSortedAndUnique
  <2>6. b - 1 \notin Bad
    <3> HIDE DEF Bad
    <3> QED
      BY <2>2, <2>4
  <2>7. i < b - 1
    <3>1. i # b - 1
      BY <1>1, <2>3, <2>4, <2>5
    <3> QED
      BY <2>3, <2>4, <3>1
  <2>8. ~ (s[b - 1] <= s[i])
    BY <2>4, <2>6, <2>7
  <2> HIDE DEF b
  <2> QED
    BY <1>1, <2>3, <2>4, <2>5, <2>8
<1>3. ASSUME NEW i \in 1 .. n, NEW j \in 1 .. n, i < j
      PROVE  s[i] # s[j]
  <2>1. ~ (s[j] <= s[i])
    BY <1>2, <1>3
  <2> QED
    BY <1>1, <2>1
<1> QED
  BY <1>1, <1>3 DEF Once

(***************************************************************************)
(* The script of a request adds exactly the request's networks, whether    *)
(* they had to be sorted or not, and each of them once.                    *)
(***************************************************************************)
LEMMA ScriptProps ==
  ASSUME Entries \subseteq Nat, NEW s \in Seq(Entries)
  PROVE  /\ SortedUniqueEntries(s) \in Seq(Entries)
         /\ ToSet(SortedUniqueEntries(s)) = ToSet(s)
         /\ ToSet(s) \subseteq Entries
         /\ Once(SortedUniqueEntries(s))
         /\ IsFiniteSet(ToSet(s)) /\ Cardinality(ToSet(s)) <= Len(s)
<1>1. ToSet(s) \subseteq Entries
  BY DEF ToSet
<1>2. IsFiniteSet(ToSet(s)) /\ Cardinality(ToSet(s)) <= Len(s)
  <2>1. s \in Surjection(1 .. Len(s), ToSet(s))
    BY DEF Surjection, ToSet
  <2>2. IsFiniteSet(1 .. Len(s)) /\ Cardinality(1 .. Len(s)) = Len(s)
    BY FS_Interval, LenProperties
  <2> QED
    BY <2>1, <2>2, FS_Surjection
<1>3. /\ Sorted(ToSet(s)) \in Seq(ToSet(s)) /\ ToSet(Sorted(ToSet(s))) = ToSet(s)
      /\ Once(Sorted(ToSet(s)))
  BY <1>1, <1>2, SortedProps
<1>4. Sorted(ToSet(s)) \in Seq(Entries)
  BY <1>1, <1>3
<1>5. IsSortedAndUnique(s) => Once(s)
  <2>1. Len(s) \in Nat /\ s = [i \in 1 .. Len(s) |-> s[i]]
    BY LenProperties
  <2>2. \A i \in 1 .. Len(s) : s[i] \in Nat
    BY LenProperties
  <2>3. s \in Seq(Nat)
    BY <2>1, <2>2, IsASeq
  <2> QED
    BY <2>3, IncreasingOnce
<1> QED
  BY <1>1, <1>2, <1>3, <1>4, <1>5 DEF SortedUniqueEntries

\* The entries still to add: the first of them and the rest.
LEMMA TodoProps ==
  ASSUME NEW S, NEW s \in Seq(S)
  PROVE  /\ s = <<>> => ToSet(s) = {}
         /\ s # <<>> => /\ Head(s) \in S /\ Tail(s) \in Seq(S)
                        /\ ToSet(s) = {Head(s)} \cup ToSet(Tail(s))
                        /\ Len(s) = 1 <=> Tail(s) = <<>>
                        /\ Once(s) => Once(Tail(s)) /\ Head(s) \notin ToSet(Tail(s))
<1>1. s = <<>> => ToSet(s) = {}
  BY DEF ToSet
<1>2. ASSUME s # <<>>
      PROVE  /\ Head(s) \in S /\ Tail(s) \in Seq(S)
             /\ ToSet(s) = {Head(s)} \cup ToSet(Tail(s))
             /\ Len(s) = 1 <=> Tail(s) = <<>>
             /\ Once(s) => Once(Tail(s)) /\ Head(s) \notin ToSet(Tail(s))
  <2>1. Head(s) = s[1] /\ Head(s) \in S /\ Tail(s) \in Seq(S) /\ Len(Tail(s)) = Len(s) - 1
    BY <1>2
  <2>2. \A i \in 1 .. Len(s) - 1 : Tail(s)[i] = s[i + 1]
    BY <1>2
  <2>3. \A x \in ToSet(s) : x = Head(s) \/ x \in ToSet(Tail(s))
    <3> SUFFICES ASSUME NEW i \in 1 .. Len(s), i # 1 PROVE s[i] \in ToSet(Tail(s))
      BY <2>1 DEF ToSet
    <3>1. i - 1 \in 1 .. Len(s) - 1
      BY LenProperties
    <3>2. Tail(s)[i - 1] = s[(i - 1) + 1] /\ (i - 1) + 1 = i
      BY <2>2, <3>1
    <3>3. i - 1 \in DOMAIN Tail(s)
      BY <2>1, <3>1, LenProperties
    <3> QED
      BY <3>2, <3>3 DEF ToSet
  <2>4. \A x \in ToSet(Tail(s)) : x \in ToSet(s)
    <3> SUFFICES ASSUME NEW i \in 1 .. Len(s) - 1 PROVE Tail(s)[i] \in ToSet(s)
      BY <2>1 DEF ToSet
    <3>1. i + 1 \in 1 .. Len(s) /\ Tail(s)[i] = s[i + 1]
      BY <2>2
    <3> QED
      BY <3>1 DEF ToSet
  <2>5. Head(s) \in ToSet(s)
    BY <1>2, <2>1 DEF ToSet
  <2>6. Len(s) = 1 <=> Tail(s) = <<>>
    <3>1. Len(<<>>) = 0 /\ (Tail(s) # <<>> => Len(Tail(s)) \in Nat \ {0})
      BY <2>1, EmptySeq
    <3>2. Len(s) \in Nat
      BY LenProperties
    <3>3. Tail(s) = <<>> => Len(Tail(s)) = 0
      BY <3>1
    <3> QED
      BY <2>1, <3>1, <3>2, <3>3
  <2>7. ASSUME Once(s)
        PROVE  Once(Tail(s)) /\ Head(s) \notin ToSet(Tail(s))
    <3>1. DOMAIN Tail(s) = 1 .. Len(s) - 1 /\ Len(s) \in Nat /\ DOMAIN s = 1 .. Len(s)
      BY <2>1, LenProperties
    <3>2. \A i \in 1 .. Len(s) - 1 : i + 1 \in DOMAIN s /\ i + 1 # 1 /\ i \in Nat
      BY <3>1
    <3>3. 1 \in DOMAIN s
      BY <1>2, <3>1
    <3>4. \A i, j \in 1 .. Len(s) - 1 : s[i + 1] = s[j + 1] => i = j
      <4> SUFFICES ASSUME NEW i \in 1 .. Len(s) - 1, NEW j \in 1 .. Len(s) - 1,
                          s[i + 1] = s[j + 1]
                   PROVE  i = j
        OBVIOUS
      <4>1. i + 1 = j + 1
        BY <2>7, <3>2 DEF Once
      <4> QED
        BY <3>2, <4>1
    <3>5. Once(Tail(s))
      BY <2>2, <3>1, <3>4 DEF Once
    <3>6. \A i \in 1 .. Len(s) - 1 : Tail(s)[i] # Head(s)
      BY <2>1, <2>2, <2>7, <3>2, <3>3 DEF Once
    <3> QED
      BY <3>1, <3>5, <3>6 DEF ToSet
  <2> QED
    BY <2>1, <2>3, <2>4, <2>5, <2>6, <2>7
<1> QED
  BY <1>1, <1>2

-----------------------------------------------------------------------------
(***************************************************************************)
(* The inductive invariant.  What a child or an orphan has loaded into its *)
(* temporary set and what it has still to add are together its whole list, *)
(* and nobody else works on that set: a running replacement never takes    *)
(* the name of an orphan, and orphans have different names.                *)
(***************************************************************************)
Typed ==
  /\ sets \in [Names -> KernelSet]
  /\ req \in Requests
  /\ temp \in Temps
  /\ child \in SUBSET Restore
  /\ orphans \in SUBSET Restore
  /\ err \in BOOLEAN

\* s: the kernel's sets.
Loaded(s, r) ==
  /\ r.at = "create" => ToSet(r.todo) = r.list
  /\ r.at \in {"add", "swap"} => /\ s[r.temp].kind = "ours"
                                 /\ s[r.temp].maxelem = r.maxelem
                                 /\ s[r.temp].elems \cup ToSet(r.todo) = r.list
  /\ r.at = "add" => r.todo # <<>>
  /\ r.at = "swap" => r.todo = <<>>

IsChild(r) ==
  /\ r.temp = temp
  /\ r.maxelem = req.maxelem
  /\ r.list = ToSet(req.entries)

ChildInv ==
  /\ pc # "restore" => child = {}
  /\ pc = "restore" => \E r \in child : child = {r} /\ IsChild(r)
  /\ pc \notin {"idle", "destroy_after"} => ~ err

Replacing == pc \in {"destroy_before", "script", "restore", "destroy_after"}

OrphanInv ==
  /\ \A r \in orphans : Running(r)
  /\ \A r, o \in orphans : r.temp = o.temp => r = o
  /\ Replacing => \A r \in orphans : r.temp # temp

LoadInv == \A r \in child \cup orphans : Running(r) => Loaded(sets, r)

IInv == Typed /\ ChildInv /\ OrphanInv /\ LoadInv

-----------------------------------------------------------------------------
(***************************************************************************)
(* One line of a script: it keeps its script's temporary set and list,     *)
(* changes no other set but the managed one, and that one only by the swap *)
(* and to the whole list.                                                  *)
(***************************************************************************)
LEMMA LineProps ==
  ASSUME IpsetAssumption, sets \in [Names -> KernelSet],
         NEW r \in Restore, Loaded(sets, r), ExecuteLine(r)
  PROVE  /\ Executed(r) \in Restore
         /\ Executed(r).temp = r.temp
         /\ Executed(r).maxelem = r.maxelem
         /\ Executed(r).list = r.list
         /\ sets' \in [Names -> KernelSet]
         /\ \A n \in Names \ {MANAGED, r.temp} : sets'[n] = sets[n]
         /\ Running(Executed(r)) => Loaded(sets', Executed(r))
         /\ Executed(r).at = "ok" =>
              /\ sets[MANAGED].kind = "ours"
              /\ sets'[MANAGED] = [kind |-> "ours", maxelem |-> r.maxelem, elems |-> r.list]
         /\ Executed(r).at # "ok" => sets'[MANAGED] = sets[MANAGED]
<1>1. /\ r.temp \in Temps /\ r.temp \in Names /\ MANAGED \in Names /\ r.temp # MANAGED
      /\ r.maxelem \in Nat /\ r.todo \in Seq(Entries) /\ r.list \in SUBSET Entries
      /\ r = [temp |-> r.temp, at |-> r.at, maxelem |-> r.maxelem, todo |-> r.todo,
              list |-> r.list]
  BY DEF IpsetAssumption, Restore, Names
<1>2. /\ sets[r.temp] \in KernelSet /\ sets[MANAGED] \in KernelSet
      /\ sets[r.temp] = [kind |-> sets[r.temp].kind, maxelem |-> sets[r.temp].maxelem,
                         elems |-> sets[r.temp].elems]
  BY <1>1 DEF KernelSet
<1>3. CASE ~ Accepted(r)
  BY <1>1, <1>3 DEF ExecuteLine, Executed, Running, Restore
<1>4. CASE Accepted(r) /\ r.at = "create"
  <2>1. sets' = [sets EXCEPT ![r.temp] = EmptySet(r.maxelem)]
    BY <1>4 DEF ExecuteLine, Effect
  <2>2. Executed(r) = [r EXCEPT !.at = IF r.todo = <<>> THEN "swap" ELSE "add"]
    BY <1>4 DEF Executed, After, AfterCreate
  <2>3. EmptySet(r.maxelem) \in KernelSet
    BY <1>1 DEF EmptySet, KernelSet
  <2>4. sets' \in [Names -> KernelSet] /\ sets'[r.temp] = EmptySet(r.maxelem)
        /\ \A n \in Names \ {r.temp} : sets'[n] = sets[n]
    BY <1>1, <2>1, <2>3
  <2>5. /\ Executed(r) \in Restore /\ Executed(r).temp = r.temp
        /\ Executed(r).maxelem = r.maxelem /\ Executed(r).list = r.list
        /\ Executed(r).todo = r.todo
        /\ Executed(r).at = IF r.todo = <<>> THEN "swap" ELSE "add"
    BY <1>1, <2>2 DEF Restore
  <2>6. ToSet(r.todo) = r.list
    BY <1>4 DEF Loaded
  <2>7. Loaded(sets', Executed(r))
    BY <2>4, <2>5, <2>6 DEF Loaded, EmptySet
  <2> QED
    BY <1>1, <2>4, <2>5, <2>7
<1>5. CASE Accepted(r) /\ r.at = "add"
  <2>1. sets' = [sets EXCEPT ![r.temp].elems = @ \cup {Head(r.todo)}]
    BY <1>5 DEF ExecuteLine, Effect
  <2>2. Executed(r) = [r EXCEPT !.todo = Tail(@),
                                !.at = IF Len(r.todo) = 1 THEN "swap" ELSE "add"]
    BY <1>5 DEF Executed, After, AfterAdd
  <2>3. r.todo # <<>> /\ sets[r.temp].kind = "ours" /\ sets[r.temp].maxelem = r.maxelem
        /\ sets[r.temp].elems \cup ToSet(r.todo) = r.list
    BY <1>5 DEF Loaded
  <2>4. /\ Head(r.todo) \in Entries /\ Tail(r.todo) \in Seq(Entries)
        /\ ToSet(r.todo) = {Head(r.todo)} \cup ToSet(Tail(r.todo))
        /\ Len(r.todo) = 1 <=> Tail(r.todo) = <<>>
    BY <1>1, <2>3, TodoProps
  <2>5. /\ Executed(r) \in Restore /\ Executed(r).temp = r.temp
        /\ Executed(r).maxelem = r.maxelem /\ Executed(r).list = r.list
        /\ Executed(r).todo = Tail(r.todo)
        /\ Executed(r).at = IF Len(r.todo) = 1 THEN "swap" ELSE "add"
    BY <1>1, <2>2, <2>4 DEF Restore
  <2>6. /\ sets'[r.temp] = [kind |-> "ours", maxelem |-> r.maxelem,
                            elems |-> sets[r.temp].elems \cup {Head(r.todo)}]
        /\ \A n \in Names \ {r.temp} : sets'[n] = sets[n]
        /\ sets' \in [Names -> KernelSet]
    <3>1. [sets[r.temp] EXCEPT !.elems = @ \cup {Head(r.todo)}]
            = [kind |-> "ours", maxelem |-> r.maxelem,
               elems |-> sets[r.temp].elems \cup {Head(r.todo)}]
      <4>1. sets[r.temp] = [kind |-> "ours", maxelem |-> r.maxelem, elems |-> sets[r.temp].elems]
        BY <1>2, <2>3
      <4>2. \A k : \A n, e, f :
              [[kind |-> k, maxelem |-> n, elems |-> e] EXCEPT !.elems = f]
                = [kind |-> k, maxelem |-> n, elems |-> f]
        OBVIOUS
      <4> QED
        BY <4>1, <4>2
    <3>2. [sets[r.temp] EXCEPT !.elems = @ \cup {Head(r.todo)}] \in KernelSet
      BY <1>1, <1>2, <2>4, <3>1 DEF KernelSet
    <3>3. sets' = [sets EXCEPT ![r.temp] = [sets[r.temp] EXCEPT !.elems = @ \cup {Head(r.todo)}]]
      BY <2>1
    <3> HIDE DEF KernelSet
    <3> QED
      BY <1>1, <3>1, <3>2, <3>3
  <2>7. Loaded(sets', Executed(r))
    BY <2>3, <2>4, <2>5, <2>6 DEF Loaded
  <2> QED
    BY <1>1, <2>5, <2>6, <2>7
<1>6. CASE Accepted(r) /\ r.at = "swap"
  <2>1. sets' = [sets EXCEPT ![r.temp] = sets[MANAGED], ![MANAGED] = sets[r.temp]]
    BY <1>6 DEF ExecuteLine, Effect
  <2>2. Executed(r) = [r EXCEPT !.at = "ok"]
    BY <1>6 DEF Executed, After
  <2>3. sets[MANAGED].kind = "ours"
    BY <1>6 DEF Accepted
  <2>4. sets[r.temp] = [kind |-> "ours", maxelem |-> r.maxelem, elems |-> r.list]
    <3>1. r.todo = <<>> /\ sets[r.temp].kind = "ours" /\ sets[r.temp].maxelem = r.maxelem
          /\ sets[r.temp].elems \cup ToSet(r.todo) = r.list
      BY <1>6 DEF Loaded
    <3>2. sets[r.temp].elems = r.list
      BY <1>1, <3>1, TodoProps
    <3> QED
      BY <1>2, <3>1, <3>2
  <2>5. /\ Executed(r) \in Restore /\ Executed(r).temp = r.temp
        /\ Executed(r).maxelem = r.maxelem /\ Executed(r).list = r.list
        /\ Executed(r).at = "ok"
    BY <1>1, <2>2 DEF Restore
  <2>6. /\ sets' \in [Names -> KernelSet] /\ sets'[MANAGED] = sets[r.temp]
        /\ \A n \in Names \ {MANAGED, r.temp} : sets'[n] = sets[n]
    BY <1>1, <1>2, <2>1
  <2> QED
    BY <2>3, <2>4, <2>5, <2>6 DEF Running
<1> QED
  BY <1>3, <1>4, <1>5, <1>6 DEF ExecuteLine, Running

-----------------------------------------------------------------------------
\* A free name, and the set another tool may make of it, are kernel sets.
LEMMA ForeignSet ==
  /\ Absent \in KernelSet
  /\ [Absent EXCEPT !.kind = "other"] \in KernelSet
BY DEF Absent, KernelSet

\* Before the first sync no child and no orphan runs.
LEMMA InitIInv ==
  ASSUME IpsetAssumption, Init PROVE IInv
<1>1. sets \in [Names -> KernelSet]
  BY ForeignSet DEF Init
<1>2. Typed
  BY <1>1 DEF Init, Typed
<1> QED
  BY <1>2 DEF Init, IInv, ChildInv, OrphanInv, LoadInv

\* A step that starts no restore child and leaves the temporary sets of those
\* that run alone keeps what they have loaded.
LEMMA LoadKept ==
  ASSUME LoadInv, child' \cup orphans' \subseteq child \cup orphans,
         \A r \in child' \cup orphans' : sets'[r.temp] = sets[r.temp]
  PROVE  LoadInv'
<1> SUFFICES ASSUME NEW r \in child' \cup orphans', Running(r) PROVE Loaded(sets', r)
  BY DEF LoadInv
<1>1. Loaded(sets, r) /\ sets'[r.temp] = sets[r.temp]
  BY DEF LoadInv
<1> QED
  BY <1>1 DEF Loaded

\* The commands of the Kidobo process before and after the restore.
LEMMA DestroyIInv ==
  ASSUME IpsetAssumption, IInv, child = {}, Replacing, BestEffortDestroy,
         UNCHANGED <<req, temp, err>>, pc' \in {"script", "idle"},
         pc' = "script" => ~ err
  PROVE  IInv'
<1>1. temp \in Names /\ Absent \in KernelSet
  BY DEF IInv, Typed, Names, Absent, KernelSet
<1>2. child' = {} /\ orphans' = orphans
  BY DEF BestEffortDestroy
<1>3. sets' \in [Names -> KernelSet] /\ \A n \in Names \ {temp} : sets'[n] = sets[n]
  BY <1>1 DEF BestEffortDestroy, IInv, Typed
<1>4. Typed'
  BY <1>2, <1>3 DEF IInv, Typed
<1>5. ChildInv' /\ OrphanInv'
  BY <1>2 DEF IInv, ChildInv, OrphanInv, Replacing, Running
<1>6. \A r \in orphans : r.temp \in Names \ {temp}
  BY DEF IInv, Typed, OrphanInv, Restore, Names
<1>7. LoadInv'
  BY <1>2, <1>3, <1>6, LoadKept DEF IInv
<1> QED
  BY <1>4, <1>5, <1>7 DEF IInv

\* Every action keeps the inductive invariant.
LEMMA NextIInv ==
  ASSUME IpsetAssumption, IInv, Next PROVE IInv'
<1> USE DEF IInv
<1>1. ASSUME NEW q \in Requests, StartSync(q) PROVE IInv'
  <2>1. Typed' /\ ChildInv' /\ OrphanInv'
    BY <1>1 DEF StartSync, kernelVars, Typed, ChildInv, OrphanInv, Replacing, Running
  <2>2. LoadInv'
    BY <1>1, LoadKept DEF StartSync, kernelVars
  <2> QED
    BY <2>1, <2>2
<1>2. CASE InspectIpset
  <2>1. UNCHANGED <<sets, child, orphans, req, temp, err>> /\ pc = "inspect"
        /\ pc' \in {"create", "prepared", "idle"}
    BY <1>2 DEF InspectIpset, kernelVars, GoOn, Fail, End, Typed, KernelSet, Names
  <2>2. Typed' /\ ChildInv' /\ OrphanInv'
    BY <2>1 DEF Typed, ChildInv, OrphanInv, Replacing, Running
  <2>3. LoadInv'
    BY <2>1, LoadKept
  <2> QED
    BY <2>2, <2>3
<1>3. CASE CreateIpset
  <2>1. UNCHANGED <<child, orphans, req, temp, err>> /\ pc = "create"
        /\ pc' \in {"prepared", "idle"}
    BY <1>3 DEF CreateIpset, GoOn, Fail, End
  <2>2. EmptySet(req.maxelem) \in KernelSet
    BY DEF IpsetAssumption, Typed, EmptySet, KernelSet
  <2>3. sets' \in [Names -> KernelSet] /\ \A n \in Temps : sets'[n] = sets[n]
    BY <1>3, <2>2 DEF CreateIpset, Typed, Names, IpsetAssumption
  <2>4. Typed' /\ ChildInv' /\ OrphanInv'
    BY <2>1, <2>3 DEF Typed, ChildInv, OrphanInv, Replacing, Running
  <2>5. \A r \in child' \cup orphans' : r.temp \in Temps
    BY <2>4 DEF Typed, Restore
  <2>6. LoadInv'
    BY <2>1, <2>3, <2>5, LoadKept
  <2> QED
    BY <2>4, <2>6
<1>4. CASE RejectRequest
  <2>1. Typed' /\ ChildInv' /\ OrphanInv'
    BY <1>4 DEF RejectRequest, Fail, End, kernelVars, Typed, ChildInv, OrphanInv,
                Replacing, Running
  <2>2. LoadInv'
    BY <1>4, LoadKept DEF RejectRequest, kernelVars
  <2> QED
    BY <2>1, <2>2
<1>5. ASSUME NEW t \in Temps, BeginReplace(t) PROVE IInv'
  <2>1. Typed' /\ ChildInv' /\ OrphanInv'
    BY <1>5 DEF BeginReplace, kernelVars, Typed, ChildInv, OrphanInv, Replacing, Running
  <2>2. LoadInv'
    BY <1>5, LoadKept DEF BeginReplace, kernelVars
  <2> QED
    BY <2>1, <2>2
<1>6. CASE DestroyBefore
  <2>1. child = {} /\ Replacing /\ BestEffortDestroy /\ UNCHANGED <<req, temp, err>>
        /\ pc' = "script" /\ ~ err
    BY <1>6 DEF DestroyBefore, GoOn, ChildInv, Replacing
  <2> QED
    BY <2>1, DestroyIInv
<1>7. CASE RunRestore
  <2>1. UNCHANGED <<sets, orphans, req, temp>> /\ pc = "script" /\ child = {}
    BY <1>7 DEF RunRestore, ChildInv
  <2>2. WriteRestoreScript \in Restore /\ WriteRestoreScript.at = "create"
        /\ IsChild(WriteRestoreScript) /\ Loaded(sets, WriteRestoreScript)
    <3>1. req.entries \in Seq(Entries) /\ req.maxelem \in Nat /\ temp \in Temps
      BY DEF IpsetAssumption, Typed
    <3>2. /\ SortedUniqueEntries(req.entries) \in Seq(Entries)
          /\ ToSet(SortedUniqueEntries(req.entries)) = ToSet(req.entries)
          /\ ToSet(req.entries) \subseteq Entries
      BY <3>1, ScriptProps DEF IpsetAssumption
    <3> QED
      BY <3>1, <3>2 DEF WriteRestoreScript, Restore, IsChild, Loaded
  <2>3. CASE child' = {WriteRestoreScript} /\ pc' = "restore" /\ UNCHANGED err
    <3>1. Typed'
      BY <2>1, <2>2, <2>3 DEF Typed
    <3>2. ChildInv'
      BY <2>1, <2>2, <2>3 DEF ChildInv, IsChild
    <3>3. OrphanInv'
      BY <2>1, <2>3 DEF OrphanInv, Replacing, Running
    <3>4. LoadInv'
      BY <2>1, <2>2, <2>3 DEF LoadInv
    <3> QED
      BY <3>1, <3>2, <3>3, <3>4
  <2>4. CASE child' = child /\ pc' = "destroy_after" /\ err' = TRUE
    <3>1. Typed' /\ ChildInv' /\ OrphanInv'
      BY <2>1, <2>4 DEF Typed, ChildInv, OrphanInv, Replacing, Running
    <3>2. LoadInv'
      BY <2>1, <2>4, LoadKept
    <3> QED
      BY <3>1, <3>2
  <2> QED
    BY <1>7, <2>3, <2>4 DEF RunRestore
<1>8. CASE ChildLine
  <2>1. PICK r \in child : ExecuteLine(r) /\ child' = {Executed(r)}
    BY <1>8 DEF ChildLine
  <2>2. UNCHANGED <<pc, req, temp, orphans, err>> /\ pc = "restore"
    BY <1>8 DEF ChildLine
  <2>3. r \in Restore /\ child = {r} /\ IsChild(r) /\ Loaded(sets, r)
    BY <2>1, <2>2 DEF Typed, ChildInv, LoadInv, ExecuteLine
  <2>4. /\ Executed(r) \in Restore /\ IsChild(Executed(r)) /\ sets' \in [Names -> KernelSet]
        /\ \A n \in Names \ {MANAGED, r.temp} : sets'[n] = sets[n]
        /\ Running(Executed(r)) => Loaded(sets', Executed(r))
    BY <2>1, <2>3, LineProps DEF Typed, IsChild
  <2>5. Typed'
    BY <2>1, <2>2, <2>4 DEF Typed
  <2>6. ChildInv'
    BY <2>1, <2>2, <2>4 DEF ChildInv, IsChild
  <2>7. OrphanInv'
    BY <2>2 DEF OrphanInv, Replacing, Running
  <2>8. \A o \in orphans : o.temp \in Names \ {MANAGED, r.temp} /\ Loaded(sets, o)
    BY <2>2, <2>3 DEF OrphanInv, Replacing, IsChild, Typed, Restore, Names, IpsetAssumption,
                      LoadInv
  <2>9. \A o \in orphans : Loaded(sets', o)
    BY <2>4, <2>8 DEF Loaded
  <2>10. LoadInv'
    BY <2>1, <2>2, <2>4, <2>9 DEF LoadInv
  <2> QED
    BY <2>5, <2>6, <2>7, <2>10
<1>9. CASE RestoreExits
  <2>1. UNCHANGED <<sets, orphans, req, temp>> /\ pc = "restore" /\ pc' = "destroy_after"
        /\ child' = {} /\ err' \in BOOLEAN
    BY <1>9 DEF RestoreExits
  <2>2. Typed' /\ ChildInv' /\ OrphanInv'
    BY <2>1 DEF Typed, ChildInv, OrphanInv, Replacing, Running
  <2>3. LoadInv'
    BY <2>1, LoadKept
  <2> QED
    BY <2>2, <2>3
<1>10. CASE RestoreKilled
  <2>1. UNCHANGED <<sets, orphans, req, temp>> /\ pc = "restore" /\ pc' = "destroy_after"
        /\ child' = {} /\ err' = TRUE
    BY <1>10 DEF RestoreKilled
  <2>2. Typed' /\ ChildInv' /\ OrphanInv'
    BY <2>1 DEF Typed, ChildInv, OrphanInv, Replacing, Running
  <2>3. LoadInv'
    BY <2>1, LoadKept
  <2> QED
    BY <2>2, <2>3
<1>11. CASE DestroyAfter
  <2>1. child = {} /\ Replacing /\ BestEffortDestroy /\ UNCHANGED <<req, temp, err>>
        /\ pc' = "idle"
    BY <1>11 DEF DestroyAfter, End, ChildInv, Replacing
  <2> QED
    BY <2>1, DestroyIInv
<1>12. CASE OrphanLine
  <2>1. PICK r \in orphans :
          /\ ExecuteLine(r)
          /\ orphans' = (orphans \ {r}) \cup {o \in {Executed(r)} : Running(o)}
    BY <1>12 DEF OrphanLine
  <2>2. UNCHANGED <<pc, req, temp, child, err>>
    BY <1>12 DEF OrphanLine
  <2>3. r \in Restore /\ Loaded(sets, r)
    BY <2>1 DEF Typed, OrphanInv, LoadInv
  <2>4. /\ Executed(r) \in Restore /\ Executed(r).temp = r.temp
        /\ sets' \in [Names -> KernelSet]
        /\ \A n \in Names \ {MANAGED, r.temp} : sets'[n] = sets[n]
        /\ Running(Executed(r)) => Loaded(sets', Executed(r))
    BY <2>1, <2>3, LineProps DEF Typed
  <2>5. Typed'
    BY <2>1, <2>2, <2>4 DEF Typed
  <2>6. ChildInv'
    BY <2>2 DEF ChildInv, IsChild
  <2>7. OrphanInv'
    BY <2>1, <2>2, <2>4 DEF OrphanInv, Replacing, Running
  <2>8. \A o \in child \cup orphans : o # r => o.temp # r.temp
    BY <2>1 DEF OrphanInv, ChildInv, IsChild, Replacing
  <2>9. \A o \in child \cup orphans : o # r => o.temp \in Names \ {MANAGED, r.temp}
    BY <2>8 DEF Typed, Restore, Names, IpsetAssumption
  <2>10. \A o \in child \cup orphans : o # r /\ Running(o) => Loaded(sets', o)
    BY <2>4, <2>9 DEF Loaded, LoadInv
  <2>11. r \notin child
    BY <2>1 DEF OrphanInv, ChildInv, IsChild, Replacing
  <2>12. LoadInv'
    BY <2>1, <2>2, <2>4, <2>10, <2>11 DEF LoadInv
  <2> QED
    BY <2>5, <2>6, <2>7, <2>12
<1>13. CASE Crash
  <2>1. UNCHANGED <<sets, req, temp, err>> /\ child' = {} /\ pc' = "idle" /\ pc # "idle"
        /\ orphans' = orphans \cup {r \in child : Running(r)}
    BY <1>13 DEF Crash, End
  <2>2. Typed'
    BY <2>1 DEF Typed
  <2>3. ChildInv'
    BY <2>1 DEF ChildInv
  <2>4. \A r \in child : \A o \in child : o = r
    BY DEF ChildInv
  <2>5. \A r \in child : \A o \in orphans : o.temp # r.temp
    BY DEF ChildInv, OrphanInv, IsChild, Replacing
  <2>6. OrphanInv'
    BY <2>1, <2>4, <2>5 DEF OrphanInv, Replacing, Running
  <2>7. LoadInv'
    BY <2>1, LoadKept
  <2> QED
    BY <2>2, <2>3, <2>6, <2>7
<1>14. CASE FlushDestroy \/ ForeignCreate
  <2>1. UNCHANGED <<pc, req, temp, child, orphans, err>>
    BY <1>14 DEF FlushDestroy, ForeignCreate
  <2>2. sets' \in [Names -> KernelSet] /\ \A n \in Temps : sets'[n] = sets[n]
    <3>1. \E k \in KernelSet : sets' = [sets EXCEPT ![MANAGED] = k]
      <4>1. CASE FlushDestroy
        BY <4>1, ForeignSet DEF FlushDestroy
      <4>2. CASE ForeignCreate
        <5>1. sets' = [sets EXCEPT ![MANAGED] = [sets[MANAGED] EXCEPT !.kind = "other"]]
          BY <4>2 DEF ForeignCreate
        <5> QED
          BY <4>2, <5>1, ForeignSet DEF ForeignCreate
      <4> QED
        BY <1>14, <4>1, <4>2
    <3> QED
      BY <3>1 DEF Typed, Names, IpsetAssumption
  <2>3. Typed' /\ ChildInv' /\ OrphanInv'
    BY <2>1, <2>2 DEF Typed, ChildInv, IsChild, OrphanInv, Replacing, Running
  <2>4. \A r \in child' \cup orphans' : r.temp \in Temps
    BY <2>3 DEF Typed, Restore
  <2>5. LoadInv'
    BY <2>1, <2>2, <2>4, LoadKept
  <2> QED
    BY <2>3, <2>5
<1> QED
  BY <1>1, <1>2, <1>3, <1>4, <1>5, <1>6, <1>7, <1>8, <1>9, <1>10, <1>11, <1>12, <1>13, <1>14
     DEF Next, Step

-----------------------------------------------------------------------------
(***************************************************************************)
(* Refinement.  Each step of Ipset is a step of AtomicSet or leaves its    *)
(* state alone.                                                            *)
(***************************************************************************)
ListOf(r) == [maxelem |-> r.maxelem, elems |-> r.list]

Late == {ListOf(r) : r \in orphans}

\* The steps of AtomicSet, in the state of Ipset.
LEMMA AbstractSteps ==
  /\ /\ sets'[MANAGED] = sets[MANAGED] /\ req' = req /\ Promise' = Promise /\ Late' = Late
     => UNCHANGED Abstract!vars
  /\ /\ Promise \in {"asked", "installed"} /\ Promise' = "failed"
     /\ sets'[MANAGED] = sets[MANAGED] /\ req' = req
     /\ Late' = Late \/ (Promise = "asked" /\ Late' = Late \cup {Requested(req)})
     => Abstract!Next
  /\ /\ Promise = "asked" /\ sets[MANAGED].kind = "ours" /\ Promise' = "installed"
     /\ sets'[MANAGED] = [kind |-> "ours", maxelem |-> req.maxelem, elems |-> ToSet(req.entries)]
     /\ req' = req /\ Late' = Late
     => Abstract!Next
  /\ \A l \in Late :
       /\ sets[MANAGED].kind = "ours"
       /\ sets'[MANAGED] = [kind |-> "ours", maxelem |-> l.maxelem, elems |-> l.elems]
       /\ Late' \in {Late, Late \ {l}} /\ req' = req /\ Promise' = Promise
       => Abstract!Next
  /\ \A l \in Late :
       /\ sets'[MANAGED] = sets[MANAGED]
       /\ Late' = Late \ {l} /\ req' = req /\ Promise' = Promise
       => Abstract!Next
<1> USE DEF Late, ListOf
<1>1. ASSUME sets'[MANAGED] = sets[MANAGED], req' = req, Promise' = Promise, Late' = Late
      PROVE  UNCHANGED Abstract!vars
  BY <1>1 DEF Abstract!vars
<1>2. ASSUME Promise \in {"asked", "installed"}, Promise' = "failed",
             sets'[MANAGED] = sets[MANAGED], req' = req,
             Late' = Late \/ (Promise = "asked" /\ Late' = Late \cup {Requested(req)})
      PROVE  Abstract!Next
  <2>1. Abstract!Fail
    BY <1>2 DEF Abstract!Fail
  <2> QED
    BY <2>1 DEF Abstract!Next
<1>3. ASSUME Promise = "asked", sets[MANAGED].kind = "ours", Promise' = "installed",
             sets'[MANAGED] = [kind |-> "ours", maxelem |-> req.maxelem,
                               elems |-> ToSet(req.entries)],
             req' = req, Late' = Late
      PROVE  Abstract!Next
  <2>1. Abstract!Install
    BY <1>3 DEF Abstract!Install, Abstract!Whole, Requested
  <2> QED
    BY <2>1 DEF Abstract!Next
<1>4. ASSUME NEW l \in Late, sets[MANAGED].kind = "ours",
             sets'[MANAGED] = [kind |-> "ours", maxelem |-> l.maxelem, elems |-> l.elems],
             Late' \in {Late, Late \ {l}}, req' = req, Promise' = Promise
      PROVE  Abstract!Next
  <2>1. Abstract!InstallLate(l)
    BY <1>4 DEF Abstract!InstallLate, Abstract!Whole
  <2> QED
    BY <2>1 DEF Abstract!Next
<1>5. ASSUME NEW l \in Late, sets'[MANAGED] = sets[MANAGED],
             Late' = Late \ {l}, req' = req, Promise' = Promise
      PROVE  Abstract!Next
  <2>1. Abstract!Lose(l)
    BY <1>5 DEF Abstract!Lose
  <2> QED
    BY <2>1 DEF Abstract!Next
<1> QED
  BY <1>1, <1>2, <1>3, <1>4, <1>5

\* The host before the first sync is an initial state of AtomicSet.
LEMMA InitRefines ==
  ASSUME IpsetAssumption, Init PROVE Abstract!Init
BY DEF Init, IpsetAssumption, Names, Absent, Promise, Abstract!Init, Abstract!NoSet

\* Every action is an AtomicSet step or changes nothing AtomicSet sees.
LEMMA NextRefines ==
  ASSUME IpsetAssumption, IInv, Next PROVE [Abstract!Next]_(Abstract!vars)
<1> USE DEF IInv
<1>1. ASSUME NEW q \in Requests, StartSync(q) PROVE Abstract!Next
  <2>1. Promise' = "asked" /\ req' \in Requests /\ sets' = sets /\ Late' = Late
    BY <1>1 DEF StartSync, kernelVars, Promise, ChildInv, Late, ListOf
  <2>2. Abstract!Ask
    BY <2>1 DEF Abstract!Ask, Late, ListOf
  <2> QED
    BY <2>2 DEF Abstract!Next
<1>2. CASE InspectIpset
  <2>1. UNCHANGED <<sets, child, orphans, req, err>> /\ pc = "inspect" /\ ~ err /\ child = {}
        /\ (pc' \in {"create", "prepared"} \/ (pc' = "idle" /\ result' = "failed"))
    BY <1>2 DEF InspectIpset, kernelVars, GoOn, Fail, End, ChildInv, Typed, KernelSet, Names
  <2>2. Promise = "asked" /\ Promise' \in {"asked", "failed"} /\ Late' = Late
    BY <2>1 DEF Promise, Late, ListOf
  <2> QED
    BY <2>1, <2>2, AbstractSteps
<1>3. CASE CreateIpset
  <2>1. UNCHANGED <<child, orphans, req, err>> /\ pc = "create" /\ ~ err /\ child = {}
        /\ (pc' = "prepared" \/ (pc' = "idle" /\ result' = "failed"))
    BY <1>3 DEF CreateIpset, GoOn, Fail, End, ChildInv
  <2>2. Promise = "asked" /\ Promise' \in {"asked", "failed"} /\ Late' = Late
    BY <2>1 DEF Promise, Late, ListOf
  <2>3. \/ sets'[MANAGED] = sets[MANAGED]
        \/ sets[MANAGED] = Absent /\ sets'[MANAGED] = EmptySet(req.maxelem)
    BY <1>3 DEF CreateIpset, CreateAccepted, Typed, Names
  <2>4. CASE sets'[MANAGED] = sets[MANAGED]
    BY <2>1, <2>2, <2>4, AbstractSteps
  <2>5. CASE sets[MANAGED] = Absent /\ sets'[MANAGED] = EmptySet(req.maxelem)
    <3>1. [Abstract!Whole(Requested(req)) EXCEPT !.elems = {}] = EmptySet(req.maxelem)
      BY DEF Abstract!Whole, Requested, EmptySet
    <3>2. Abstract!Create
      BY <2>1, <2>2, <2>5, <3>1 DEF Abstract!Create, Abstract!NoSet, Absent, Late, ListOf
    <3> QED
      BY <3>2 DEF Abstract!Next
  <2> QED
    BY <2>3, <2>4, <2>5
<1>4. CASE RejectRequest
  <2>1. UNCHANGED <<sets, child, orphans, req, err>> /\ pc = "prepared" /\ ~ err /\ child = {}
        /\ pc' = "idle" /\ result' = "failed"
    BY <1>4 DEF RejectRequest, Fail, End, kernelVars, ChildInv
  <2>2. Promise = "asked" /\ Promise' = "failed" /\ Late' = Late
    BY <2>1 DEF Promise, Late, ListOf
  <2> QED
    BY <2>1, <2>2, AbstractSteps
<1>5. ASSUME NEW t \in Temps, BeginReplace(t) PROVE UNCHANGED Abstract!vars
  <2>1. UNCHANGED <<sets, child, orphans, req, err>> /\ pc = "prepared" /\ ~ err /\ child = {}
        /\ pc' = "destroy_before"
    BY <1>5 DEF BeginReplace, kernelVars, ChildInv
  <2>2. Promise = "asked" /\ Promise' = "asked" /\ Late' = Late
    BY <2>1 DEF Promise, Late, ListOf
  <2> QED
    BY <2>1, <2>2, AbstractSteps
<1>6. ASSUME BestEffortDestroy
      PROVE  sets'[MANAGED] = sets[MANAGED] /\ UNCHANGED <<child, orphans>>
  BY <1>6 DEF BestEffortDestroy, Typed, Names, IpsetAssumption
<1>7. CASE DestroyBefore
  <2>1. UNCHANGED <<req, err>> /\ pc = "destroy_before" /\ ~ err /\ child = {}
        /\ pc' = "script"
    BY <1>7 DEF DestroyBefore, GoOn, ChildInv
  <2>2. sets'[MANAGED] = sets[MANAGED] /\ UNCHANGED <<child, orphans>>
    BY <1>6, <1>7 DEF DestroyBefore
  <2>3. Promise = "asked" /\ Promise' = "asked" /\ Late' = Late
    BY <2>1, <2>2 DEF Promise, Late, ListOf
  <2> QED
    BY <2>1, <2>2, <2>3, AbstractSteps
<1>8. CASE RunRestore
  <2>1. UNCHANGED <<sets, orphans, req>> /\ pc = "script" /\ ~ err /\ child = {}
    BY <1>8 DEF RunRestore, ChildInv
  <2>2. Promise = "asked" /\ Late' = Late
    BY <2>1 DEF Promise, Late, ListOf
  <2>3. CASE child' = {WriteRestoreScript} /\ pc' = "restore" /\ UNCHANGED err
    <3>1. Promise' = "asked"
      BY <2>1, <2>3 DEF Promise, WriteRestoreScript
    <3> QED
      BY <2>1, <2>2, <3>1, AbstractSteps
  <2>4. CASE pc' = "destroy_after" /\ err' = TRUE
    <3>1. Promise' = "failed"
      BY <2>4 DEF Promise
    <3> QED
      BY <2>1, <2>2, <3>1, AbstractSteps
  <2> QED
    BY <1>8, <2>3, <2>4 DEF RunRestore
<1>9. CASE ChildLine
  <2>1. PICK r \in child : ExecuteLine(r) /\ child' = {Executed(r)}
    BY <1>9 DEF ChildLine
  <2>2. UNCHANGED <<pc, req, orphans, err>> /\ pc = "restore" /\ ~ err
    BY <1>9 DEF ChildLine, ChildInv
  <2>3. r \in Restore /\ child = {r} /\ IsChild(r) /\ Loaded(sets, r) /\ Running(r)
    BY <2>1, <2>2 DEF Typed, ChildInv, LoadInv, ExecuteLine
  <2>4. /\ Executed(r).at = "ok" =>
             /\ sets[MANAGED].kind = "ours"
             /\ sets'[MANAGED] = [kind |-> "ours", maxelem |-> r.maxelem, elems |-> r.list]
        /\ Executed(r).at # "ok" => sets'[MANAGED] = sets[MANAGED]
    BY <2>1, <2>3, LineProps DEF Typed
  <2>5. Promise = "asked" /\ Late' = Late
        /\ Promise' = IF Executed(r).at = "ok" THEN "installed" ELSE "asked"
    BY <2>1, <2>2, <2>3 DEF Promise, Late, ListOf, Running
  <2>6. CASE Executed(r).at = "ok"
    BY <2>2, <2>3, <2>4, <2>5, <2>6, AbstractSteps DEF IsChild
  <2>7. CASE Executed(r).at # "ok"
    BY <2>2, <2>4, <2>5, <2>7, AbstractSteps
  <2> QED
    BY <2>6, <2>7
<1>10. CASE RestoreExits
  <2>1. PICK r \in child : ~ Running(r) /\ err' = (r.at = "failed")
    BY <1>10 DEF RestoreExits
  <2>2. UNCHANGED <<sets, orphans, req>> /\ pc = "restore" /\ ~ err /\ child = {r}
        /\ child' = {} /\ pc' = "destroy_after" /\ r.at \in {"ok", "failed"}
    BY <1>10, <2>1 DEF RestoreExits, ChildInv, Typed, Restore, Running
  <2>3. Late' = Late
    BY <2>2 DEF Late, ListOf
  <2>4. CASE r.at = "ok"
    <3>1. Promise = "installed" /\ Promise' = "installed"
      BY <2>1, <2>2, <2>4 DEF Promise
    <3> QED
      BY <2>2, <2>3, <3>1, AbstractSteps
  <2>5. CASE r.at = "failed"
    <3>1. Promise = "asked" /\ Promise' = "failed"
      BY <2>1, <2>2, <2>5 DEF Promise
    <3> QED
      BY <2>2, <2>3, <3>1, AbstractSteps
  <2> QED
    BY <2>2, <2>4, <2>5
<1>11. CASE RestoreKilled
  <2>1. UNCHANGED <<sets, orphans, req>> /\ pc = "restore" /\ ~ err
        /\ pc' = "destroy_after" /\ err' = TRUE
    BY <1>11 DEF RestoreKilled, ChildInv
  <2>2. Promise \in {"asked", "installed"} /\ Promise' = "failed" /\ Late' = Late
    BY <2>1 DEF Promise, Late, ListOf
  <2> QED
    BY <2>1, <2>2, AbstractSteps
<1>12. CASE DestroyAfter
  <2>1. UNCHANGED <<req, err>> /\ pc = "destroy_after" /\ pc' = "idle"
        /\ result' = IF err THEN "failed" ELSE "ok"
    BY <1>12 DEF DestroyAfter, End
  <2>2. sets'[MANAGED] = sets[MANAGED] /\ UNCHANGED <<child, orphans>>
    BY <1>6, <1>12 DEF DestroyAfter
  <2>3. Promise' = Promise /\ Late' = Late
    BY <2>1, <2>2 DEF Promise, Late, ListOf
  <2> QED
    BY <2>1, <2>2, <2>3, AbstractSteps
<1>13. CASE OrphanLine
  <2>1. PICK r \in orphans :
          /\ ExecuteLine(r)
          /\ orphans' = (orphans \ {r}) \cup {o \in {Executed(r)} : Running(o)}
    BY <1>13 DEF OrphanLine
  <2>2. UNCHANGED <<pc, req, child, err, result>>
    BY <1>13 DEF OrphanLine
  <2>3. r \in Restore /\ Loaded(sets, r)
    BY <2>1 DEF Typed, OrphanInv, LoadInv
  <2>4. /\ Executed(r).maxelem = r.maxelem /\ Executed(r).list = r.list
        /\ Executed(r).at = "ok" =>
             /\ sets[MANAGED].kind = "ours"
             /\ sets'[MANAGED] = [kind |-> "ours", maxelem |-> r.maxelem, elems |-> r.list]
        /\ Executed(r).at # "ok" => sets'[MANAGED] = sets[MANAGED]
    BY <2>1, <2>3, LineProps DEF Typed
  <2>5. Promise' = Promise
    BY <2>2 DEF Promise
  <2>6. ListOf(r) \in Late /\ ListOf(r).maxelem = r.maxelem /\ ListOf(r).elems = r.list
    BY <2>1 DEF Late, ListOf
  <2>7. CASE Running(Executed(r))
    <3>1. ListOf(Executed(r)) = ListOf(r) /\ orphans' = (orphans \ {r}) \cup {Executed(r)}
      BY <2>1, <2>4, <2>7 DEF ListOf
    <3>2. Late' = Late
      BY <2>1, <3>1 DEF Late
    <3>3. sets'[MANAGED] = sets[MANAGED]
      BY <2>4, <2>7 DEF Running
    <3> QED
      BY <2>2, <2>5, <3>2, <3>3, AbstractSteps
  <2>8. CASE ~ Running(Executed(r))
    <3>1. orphans' = orphans \ {r}
      BY <2>1, <2>8
    <3>2. Late' \in {Late, Late \ {ListOf(r)}}
      <4> HIDE DEF ListOf
      <4>1. Late \ {ListOf(r)} \subseteq Late' /\ Late' \subseteq Late
        BY <3>1 DEF Late
      <4> QED
        BY <2>6, <4>1
    <3>3. CASE Executed(r).at = "ok"
      BY <2>2, <2>4, <2>5, <2>6, <3>2, <3>3, AbstractSteps
    <3>4. CASE Executed(r).at # "ok"
      BY <2>2, <2>4, <2>5, <2>6, <3>2, <3>4, AbstractSteps
    <3> QED
      BY <3>3, <3>4
  <2> QED
    BY <2>7, <2>8
<1>14. CASE Crash
  <2>1. UNCHANGED <<sets, req, err>> /\ child' = {} /\ pc # "idle" /\ pc' = "idle"
        /\ result' = "failed" /\ orphans' = orphans \cup {r \in child : Running(r)}
    BY <1>14 DEF Crash, End
  <2>2. Promise' = "failed"
    BY <2>1 DEF Promise
  <2>3. Promise \in {"asked", "installed", "failed"}
    BY <2>1 DEF Promise
  <2>4. CASE \E r \in child : Running(r)
    <3>1. PICK r \in child : Running(r)
      BY <2>4
    <3>2. child = {r} /\ IsChild(r) /\ pc = "restore" /\ ~ err
      BY <3>1 DEF ChildInv
    <3>3. Promise = "asked"
      BY <3>1, <3>2 DEF Promise, Running
    <3>4. ListOf(r) = Requested(req) /\ orphans' = orphans \cup {r}
      BY <2>1, <3>1, <3>2 DEF ListOf, Requested, IsChild
    <3>5. Late' = Late \cup {Requested(req)}
      BY <3>4 DEF Late, ListOf
    <3> QED
      BY <2>1, <2>2, <3>3, <3>5, AbstractSteps
  <2>5. CASE ~ \E r \in child : Running(r)
    <3>1. Late' = Late
      BY <2>1, <2>5 DEF Late, ListOf
    <3> QED
      BY <2>1, <2>2, <2>3, <3>1, AbstractSteps
  <2> QED
    BY <2>4, <2>5
<1>15. CASE FlushDestroy
  <2>1. sets'[MANAGED] = Absent /\ UNCHANGED <<req, orphans>>
        /\ pc' = "idle" /\ result' = "none"
    BY <1>15 DEF FlushDestroy, Typed, Names
  <2>2. Promise' = "none" /\ Late' = Late
    BY <2>1 DEF Promise, Late, ListOf
  <2>3. Abstract!Destroy
    BY <2>1, <2>2 DEF Abstract!Destroy, Abstract!NoSet, Absent, Late, ListOf
  <2> QED
    BY <2>3 DEF Abstract!Next
<1>16. CASE ForeignCreate
  <2>1. sets[MANAGED] = Absent /\ sets'[MANAGED] = [Absent EXCEPT !.kind = "other"]
        /\ UNCHANGED <<pc, req, child, orphans, err, result>>
    <3>1. sets' = [sets EXCEPT ![MANAGED] = [sets[MANAGED] EXCEPT !.kind = "other"]]
      BY <1>16 DEF ForeignCreate
    <3> QED
      BY <1>16, <3>1 DEF ForeignCreate, Typed, Names
  <2>2. Promise' = Promise /\ Late' = Late
    BY <2>1 DEF Promise, Late, ListOf
  <2>3. Abstract!Take
    BY <2>1, <2>2 DEF Abstract!Take, Abstract!NoSet, Absent, Late, ListOf
  <2> QED
    BY <2>3 DEF Abstract!Next
<1> QED
  BY <1>1, <1>2, <1>3, <1>4, <1>5, <1>7, <1>8, <1>9, <1>10, <1>11, <1>12, <1>13, <1>14,
     <1>15, <1>16 DEF Next, Step

-----------------------------------------------------------------------------
(***************************************************************************)
(* Success.  Once the child has executed its swap, only the swap of an     *)
(* orphan, which "stale" records, can put another list in the set before   *)
(* the next sync or flush.                                                 *)
(***************************************************************************)
Whole(q) == [kind |-> "ours", maxelem |-> q.maxelem, elems |-> ToSet(q.entries)]

DoneInv ==
  /\ pc # "idle" => result = "none"
  /\ result \in {"none", "ok", "failed"}
  /\ stale \in BOOLEAN
  /\ Promise = "installed" /\ ~ stale => sets[MANAGED] = Whole(req)

\* Every action keeps the list of a success in the set, or is a late swap.
LEMMA NextDone ==
  ASSUME IpsetAssumption, IInv, DoneInv, Next PROVE DoneInv'
<1> USE DEF IInv
<1>1. CASE \/ \E q \in Requests : StartSync(q)
           \/ InspectIpset \/ CreateIpset \/ RejectRequest
           \/ \E t \in Temps : BeginReplace(t)
           \/ DestroyBefore
  <2>1. child' = {} /\ pc' # "destroy_after" /\ (pc' = "idle" => result' = "failed")
        /\ (pc' # "idle" => result' = "none") /\ stale' \in BOOLEAN
    BY <1>1 DEF StartSync, InspectIpset, CreateIpset, RejectRequest, BeginReplace,
                DestroyBefore, BestEffortDestroy, GoOn, Fail, End, kernelVars, ChildInv,
                DoneInv, Typed, KernelSet, Names
  <2> QED
    BY <2>1 DEF DoneInv, Promise
<1>2. CASE RunRestore
  <2>1. pc' # "idle" /\ result' = "none" /\ stale' = stale
        /\ \/ child' = {WriteRestoreScript} /\ pc' = "restore"
           \/ pc' = "destroy_after" /\ err'
    BY <1>2 DEF RunRestore, DoneInv
  <2>2. WriteRestoreScript.at = "create"
    BY DEF WriteRestoreScript
  <2> QED
    BY <2>1, <2>2 DEF DoneInv, Promise
<1>3. CASE ChildLine
  <2>1. PICK r \in child : ExecuteLine(r) /\ child' = {Executed(r)}
    BY <1>3 DEF ChildLine
  <2>2. UNCHANGED <<pc, req, err, result, stale>> /\ pc = "restore"
    BY <1>3 DEF ChildLine
  <2>3. r \in Restore /\ IsChild(r) /\ Loaded(sets, r)
    BY <2>1, <2>2 DEF Typed, ChildInv, LoadInv, ExecuteLine
  <2>4. Executed(r).at = "ok" => sets'[MANAGED] = Whole(req)
    BY <2>1, <2>3, LineProps DEF Typed, IsChild, Whole
  <2>5. Promise' = "installed" => Executed(r).at = "ok"
    BY <2>1, <2>2 DEF Promise
  <2> QED
    BY <2>2, <2>4, <2>5 DEF DoneInv
<1>4. CASE RestoreExits
  <2>1. PICK r \in child : ~ Running(r) /\ err' = (r.at = "failed")
    BY <1>4 DEF RestoreExits
  <2>2. UNCHANGED <<sets, req, result, stale>> /\ pc = "restore" /\ ~ err /\ child = {r}
        /\ pc' = "destroy_after" /\ r.at \in {"ok", "failed"}
    BY <1>4, <2>1 DEF RestoreExits, ChildInv, Typed, Restore, Running
  <2>3. Promise' = "installed" => Promise = "installed"
    BY <2>1, <2>2 DEF Promise
  <2> QED
    BY <2>2, <2>3 DEF DoneInv
<1>5. CASE RestoreKilled
  BY <1>5 DEF RestoreKilled, DoneInv, Promise
<1>6. CASE DestroyAfter
  <2>1. UNCHANGED <<req, err, stale>> /\ pc = "destroy_after" /\ pc' = "idle"
        /\ result' = IF err THEN "failed" ELSE "ok"
    BY <1>6 DEF DestroyAfter, End
  <2>2. sets'[MANAGED] = sets[MANAGED]
    BY <1>6 DEF DestroyAfter, BestEffortDestroy, Typed, Names, IpsetAssumption
  <2>3. Promise' = Promise
    BY <2>1 DEF Promise
  <2> QED
    BY <2>1, <2>2, <2>3 DEF DoneInv
<1>7. CASE OrphanLine
  <2>1. PICK r \in orphans : ExecuteLine(r) /\ stale' = (stale \/ Executed(r).at = "ok")
    BY <1>7 DEF OrphanLine
  <2>2. UNCHANGED <<pc, req, child, err, result>>
    BY <1>7 DEF OrphanLine
  <2>3. r \in Restore /\ Loaded(sets, r)
    BY <2>1 DEF Typed, OrphanInv, LoadInv
  <2>4. Executed(r).at # "ok" => sets'[MANAGED] = sets[MANAGED]
    BY <2>1, <2>3, LineProps DEF Typed
  <2>5. Promise' = Promise
    BY <2>2 DEF Promise
  <2> QED
    BY <2>1, <2>2, <2>4, <2>5 DEF DoneInv
<1>8. CASE Crash \/ FlushDestroy
  BY <1>8 DEF Crash, FlushDestroy, End, DoneInv, Promise
<1>9. CASE ForeignCreate
  <2>1. UNCHANGED <<pc, req, child, err, result, stale>> /\ sets[MANAGED] = Absent
    BY <1>9 DEF ForeignCreate
  <2>2. Promise' = Promise /\ Absent # Whole(req)
    BY <2>1 DEF Promise, Absent, Whole
  <2> QED
    BY <2>1, <2>2 DEF DoneInv
<1> QED
  BY <1>1, <1>2, <1>3, <1>4, <1>5, <1>6, <1>7, <1>8, <1>9 DEF Next, Step

-----------------------------------------------------------------------------
(***************************************************************************)
(* Failure.  While nothing disturbs a process, its set exists and its      *)
(* restore child is ready: what is left to add is new to the temporary set *)
(* and fits it, so the kernel refuses no line.                             *)
(***************************************************************************)
Ready(s, r) ==
  /\ Once(r.todo)
  /\ IsFiniteSet(r.list) /\ Cardinality(r.list) <= r.maxelem
  /\ r.at = "create" => s[r.temp] = Absent
  /\ r.at = "add" => s[r.temp].elems \cap ToSet(r.todo) = {}

CleanInv ==
  pc # "idle" /\ ~ disturbed =>
    /\ orphans = {}
    /\ pc \in {"prepared", "destroy_before", "script", "restore"} => sets[MANAGED].kind = "ours"
    /\ pc \in {"destroy_before", "script", "restore"} => Len(req.entries) <= req.maxelem
    /\ pc = "script" => sets[temp] = Absent
    /\ pc = "restore" => \A r \in child : r.at # "failed" /\ Ready(sets, r)
    /\ pc = "destroy_after" => ~ err

\* The kernel accepts the next line of a script that is ready.
LEMMA ReadyAccepted ==
  ASSUME IpsetAssumption, sets \in [Names -> KernelSet], sets[MANAGED].kind = "ours",
         NEW r \in Restore, Loaded(sets, r), Ready(sets, r), Running(r)
  PROVE  Accepted(r)
<1>1. CASE r.at = "create"
  BY <1>1 DEF Accepted, Ready
<1>2. CASE r.at = "add"
  <2>1. r.temp \in Names /\ r.todo \in Seq(Entries) /\ r.maxelem \in Nat
    BY DEF Restore, Names
  <2>2. /\ r.todo # <<>> /\ sets[r.temp].kind = "ours" /\ sets[r.temp].maxelem = r.maxelem
        /\ sets[r.temp].elems \cup ToSet(r.todo) = r.list
        /\ sets[r.temp].elems \cap ToSet(r.todo) = {}
    BY <1>2 DEF Loaded, Ready
  <2>3. Head(r.todo) \in ToSet(r.todo)
    BY <2>1, <2>2, TodoProps
  <2>4. sets[r.temp].elems \in SUBSET r.list /\ sets[r.temp].elems # r.list
    BY <2>2, <2>3
  <2>5. IsFiniteSet(r.list) /\ Cardinality(r.list) <= r.maxelem
    BY DEF Ready
  <2>6. /\ Cardinality(sets[r.temp].elems) <= Cardinality(r.list)
        /\ Cardinality(sets[r.temp].elems) # Cardinality(r.list)
        /\ Cardinality(r.list) \in Nat /\ Cardinality(sets[r.temp].elems) \in Nat
    BY <2>4, <2>5, FS_Subset, FS_CardinalityType
  <2>7. Cardinality(sets[r.temp].elems) < sets[r.temp].maxelem
    BY <2>1, <2>2, <2>5, <2>6
  <2>8. Head(r.todo) \notin sets[r.temp].elems
    BY <2>2, <2>3
  <2> QED
    BY <1>2, <2>2, <2>7, <2>8 DEF Accepted
<1>3. CASE r.at = "swap"
  BY <1>3 DEF Accepted, Loaded
<1> QED
  BY <1>1, <1>2, <1>3 DEF Running

\* And is ready for the one after it.
LEMMA ReadyLine ==
  ASSUME IpsetAssumption, sets \in [Names -> KernelSet], sets[MANAGED].kind = "ours",
         NEW r \in Restore, Loaded(sets, r), Ready(sets, r), ExecuteLine(r)
  PROVE  /\ Executed(r).at # "failed" /\ Ready(sets', Executed(r))
         /\ sets'[MANAGED].kind = "ours"
<1>1. Accepted(r) /\ Running(r) /\ Executed(r) = After(r) /\ sets' = Effect(r)
  BY ReadyAccepted DEF ExecuteLine, Executed
<1>2. r.temp \in Names /\ r.todo \in Seq(Entries) /\ sets[r.temp] \in KernelSet
  BY DEF Restore, Names
<1>3. Executed(r).temp = r.temp /\ Executed(r).list = r.list /\ Executed(r).maxelem = r.maxelem
      /\ sets'[MANAGED].kind = "ours"
  <2>1. /\ Executed(r).temp = r.temp /\ Executed(r).list = r.list
        /\ Executed(r).maxelem = r.maxelem
    BY LineProps
  <2>2. CASE Executed(r).at = "ok"
    <3>1. sets'[MANAGED] = [kind |-> "ours", maxelem |-> r.maxelem, elems |-> r.list]
      BY <2>2, LineProps
    <3> QED
      BY <2>1, <3>1
  <2>3. CASE Executed(r).at # "ok"
    <3>1. sets'[MANAGED] = sets[MANAGED]
      BY <2>3, LineProps
    <3> QED
      BY <2>1, <3>1
  <2> QED
    BY <2>2, <2>3
<1>4. CASE r.at = "create"
  <2>1. Executed(r) = [r EXCEPT !.at = IF r.todo = <<>> THEN "swap" ELSE "add"]
    BY <1>1, <1>4 DEF After, AfterCreate
  <2>2. Executed(r).todo = r.todo /\ Executed(r).at \in {"swap", "add"}
    BY <2>1 DEF Restore
  <2>3. sets'[r.temp] = EmptySet(r.maxelem)
    BY <1>1, <1>2, <1>4 DEF Effect
  <2> QED
    BY <1>3, <2>2, <2>3 DEF Ready, EmptySet
<1>5. CASE r.at = "add"
  <2>1. Executed(r) = [r EXCEPT !.todo = Tail(@),
                                !.at = IF Len(r.todo) = 1 THEN "swap" ELSE "add"]
    BY <1>1, <1>5 DEF After, AfterAdd
  <2>2. Executed(r).todo = Tail(r.todo) /\ Executed(r).at \in {"swap", "add"}
    BY <2>1 DEF Restore
  <2>3. r.todo # <<>> /\ sets[r.temp].elems \cap ToSet(r.todo) = {}
    BY <1>5 DEF Loaded, Ready
  <2>4. /\ ToSet(r.todo) = {Head(r.todo)} \cup ToSet(Tail(r.todo))
        /\ Once(Tail(r.todo)) /\ Head(r.todo) \notin ToSet(Tail(r.todo))
    BY <1>2, <2>3, TodoProps DEF Ready
  <2>5. sets'[r.temp].elems = sets[r.temp].elems \cup {Head(r.todo)}
    <3>1. sets' = [sets EXCEPT ![r.temp] = [sets[r.temp] EXCEPT !.elems = @ \cup {Head(r.todo)}]]
      BY <1>1, <1>5 DEF Effect
    <3>2. sets'[r.temp] = [sets[r.temp] EXCEPT !.elems = @ \cup {Head(r.todo)}]
      BY <1>2, <3>1
    <3> QED
      BY <1>2, <3>2 DEF KernelSet
  <2>6. sets'[r.temp].elems \cap ToSet(Tail(r.todo)) = {}
    BY <2>3, <2>4, <2>5
  <2> QED
    BY <1>3, <2>2, <2>4, <2>6 DEF Ready
<1>6. CASE r.at = "swap"
  <2>1. Executed(r) = [r EXCEPT !.at = "ok"]
    BY <1>1, <1>6 DEF After
  <2>2. Executed(r).todo = r.todo /\ Executed(r).at = "ok"
    BY <2>1 DEF Restore
  <2> QED
    BY <1>3, <2>2 DEF Ready
<1> QED
  BY <1>1, <1>4, <1>5, <1>6 DEF Running

\* An undisturbed process goes on undisturbed, or meets its first fault.
LEMMA NextClean ==
  ASSUME IpsetAssumption, IInv, CleanInv, Next PROVE CleanInv'
<1> USE DEF IInv
<1> SUFFICES ASSUME pc' # "idle", ~ disturbed' PROVE CleanInv'
  BY DEF CleanInv
<1>1. ASSUME NEW q \in Requests, StartSync(q) PROVE CleanInv'
  BY <1>1 DEF StartSync, kernelVars, CleanInv
<1>2. CASE InspectIpset
  <2>1. UNCHANGED <<sets, child, orphans, disturbed>> /\ pc = "inspect"
        /\ (pc' = "create" \/ (pc' = "prepared" /\ sets[MANAGED].kind = "ours"))
    BY <1>2 DEF InspectIpset, kernelVars, GoOn, Fail, End, Fault, NoFault, Typed, KernelSet,
                Names
  <2> QED
    BY <2>1 DEF CleanInv
<1>3. CASE CreateIpset
  <2>1. UNCHANGED <<child, orphans, disturbed>> /\ pc = "create" /\ pc' = "prepared"
        /\ sets' = [sets EXCEPT ![MANAGED] = EmptySet(req.maxelem)]
    BY <1>3 DEF CreateIpset, GoOn, Fail, End, Fault, NoFault
  <2>2. sets'[MANAGED].kind = "ours"
    BY <2>1 DEF Typed, Names, EmptySet
  <2> QED
    BY <2>1, <2>2 DEF CleanInv
<1>4. CASE RejectRequest
  BY <1>4 DEF RejectRequest, Fail, End
<1>5. ASSUME NEW t \in Temps, BeginReplace(t) PROVE CleanInv'
  BY <1>5 DEF BeginReplace, kernelVars, CleanInv
<1>6. CASE DestroyBefore
  <2>1. UNCHANGED <<child, orphans, req, temp, disturbed>> /\ pc = "destroy_before"
        /\ pc' = "script" /\ sets' = [sets EXCEPT ![temp] = Absent]
    BY <1>6 DEF DestroyBefore, BestEffortDestroy, GoOn, Fault, NoFault
  <2>2. sets'[temp] = Absent /\ sets'[MANAGED] = sets[MANAGED]
    BY <2>1 DEF Typed, Names, IpsetAssumption
  <2> QED
    BY <2>1, <2>2 DEF CleanInv
<1>7. CASE RunRestore
  <2>1. UNCHANGED <<sets, orphans, req, temp, disturbed>> /\ pc = "script"
        /\ pc' = "restore" /\ child' = {WriteRestoreScript}
    BY <1>7 DEF RunRestore, Fault, NoFault
  <2>2. req.entries \in Seq(Entries) /\ req.maxelem \in Nat /\ Len(req.entries) \in Nat
    BY LenProperties DEF IpsetAssumption, Typed
  <2>3. /\ Once(SortedUniqueEntries(req.entries)) /\ IsFiniteSet(ToSet(req.entries))
        /\ Cardinality(ToSet(req.entries)) <= Len(req.entries)
    BY <2>2, ScriptProps DEF IpsetAssumption
  <2>4. Cardinality(ToSet(req.entries)) \in Nat
    BY <2>3, FS_CardinalityType
  <2>5. orphans = {} /\ sets[MANAGED].kind = "ours" /\ Len(req.entries) <= req.maxelem
        /\ sets[temp] = Absent
    BY <2>1 DEF CleanInv
  <2>6. Cardinality(ToSet(req.entries)) <= req.maxelem
    BY <2>2, <2>3, <2>4, <2>5
  <2>7. Ready(sets, WriteRestoreScript) /\ WriteRestoreScript.at = "create"
    BY <2>3, <2>5, <2>6 DEF Ready, WriteRestoreScript
  <2> QED
    BY <2>1, <2>5, <2>7 DEF CleanInv
<1>8. CASE ChildLine
  <2>1. PICK r \in child : ExecuteLine(r) /\ child' = {Executed(r)}
    BY <1>8 DEF ChildLine
  <2>2. UNCHANGED <<pc, orphans, req, disturbed>> /\ pc = "restore"
    BY <1>8 DEF ChildLine
  <2>3. r \in Restore /\ Loaded(sets, r) /\ Ready(sets, r) /\ sets[MANAGED].kind = "ours"
    BY <2>1, <2>2 DEF Typed, LoadInv, ExecuteLine, CleanInv
  <2>4. /\ Executed(r).at # "failed" /\ Ready(sets', Executed(r))
        /\ sets'[MANAGED].kind = "ours"
    BY <2>1, <2>3, ReadyLine DEF Typed
  <2> QED
    BY <2>1, <2>2, <2>4 DEF CleanInv
<1>9. CASE RestoreExits
  <2>1. UNCHANGED <<orphans, disturbed>> /\ pc = "restore" /\ pc' = "destroy_after"
        /\ \E r \in child : err' = (r.at = "failed")
    BY <1>9 DEF RestoreExits, Fault, NoFault
  <2> QED
    BY <2>1 DEF CleanInv
<1>10. CASE RestoreKilled \/ Crash \/ ForeignCreate
  BY <1>10 DEF RestoreKilled, Crash, ForeignCreate, Fault
<1>11. CASE DestroyAfter
  BY <1>11 DEF DestroyAfter, End
<1>12. CASE OrphanLine
  BY <1>12 DEF OrphanLine, CleanInv
<1>13. CASE FlushDestroy
  BY <1>13 DEF FlushDestroy
<1> QED
  BY <1>1, <1>2, <1>3, <1>4, <1>5, <1>6, <1>7, <1>8, <1>9, <1>10, <1>11, <1>12, <1>13
     DEF Next, Step

-----------------------------------------------------------------------------
(***************************************************************************)
(* Leftovers.  Besides the set and the script of the running replacement,  *)
(* every temporary set or orphan and every script is paid for: a fault     *)
(* leaves at most one set and one script behind.                           *)
(***************************************************************************)
Leaked == {t \in Temps : sets[t] # Absent} \cup {r.temp : r \in orphans}

Others == IF Replacing THEN Leaked \ {temp} ELSE Leaked

CountInv ==
  /\ pc \in Pcs
  /\ disturbed \in BOOLEAN
  /\ files \in Nat /\ (pc = "restore" => files # 0)
  /\ faults \in 0 .. MaxFaults
  /\ IsFiniteSet(Others)
  /\ Cardinality(Others) + files <= 2 * faults + (IF pc = "restore" THEN 1 ELSE 0)

\* A step that adds at most the running replacement's set to the leftovers adds
\* at most one.
LEMMA OthersCount ==
  ASSUME IsFiniteSet(Others)
  PROVE  /\ Cardinality(Others) \in Nat
         /\ Others' \subseteq Others =>
              /\ IsFiniteSet(Others') /\ Cardinality(Others') \in Nat
              /\ Cardinality(Others') <= Cardinality(Others)
         /\ Others' \subseteq Others \cup {temp} =>
              /\ IsFiniteSet(Others') /\ Cardinality(Others') \in Nat
              /\ Cardinality(Others') <= Cardinality(Others) + 1
<1>1. Cardinality(Others) \in Nat
  BY FS_CardinalityType
<1>2. ASSUME Others' \subseteq Others
      PROVE  /\ IsFiniteSet(Others') /\ Cardinality(Others') \in Nat
             /\ Cardinality(Others') <= Cardinality(Others)
  BY <1>2, FS_Subset, FS_CardinalityType
<1>3. ASSUME Others' \subseteq Others \cup {temp}
      PROVE  /\ IsFiniteSet(Others') /\ Cardinality(Others') \in Nat
             /\ Cardinality(Others') <= Cardinality(Others) + 1
  <2> DEFINE More == Others \cup {temp}
  <2>1. /\ IsFiniteSet(More)
        /\ Cardinality(More) = Cardinality(Others) \/ Cardinality(More) = Cardinality(Others) + 1
    BY FS_AddElement
  <2>2. /\ IsFiniteSet(Others') /\ Cardinality(Others') \in Nat
        /\ Cardinality(Others') <= Cardinality(More)
    BY <1>3, <2>1, FS_Subset, FS_CardinalityType
  <2> QED
    BY <1>1, <2>1, <2>2
<1> QED
  BY <1>1, <1>2, <1>3

\* Every action pays for what it leaves behind.
LEMMA NextCount ==
  ASSUME IpsetAssumption, IInv, CountInv, Next PROVE CountInv'
<1> USE DEF IInv
<1>0. /\ MaxFaults \in Nat /\ faults \in Nat /\ files \in Nat
      /\ IsFiniteSet(Others) /\ Cardinality(Others) \in Nat
  BY OthersCount DEF CountInv, IpsetAssumption
<1>1. ASSUME \/ \E q \in Requests : StartSync(q)
             \/ InspectIpset \/ CreateIpset \/ RejectRequest
             \/ \E t \in Temps : BeginReplace(t)
             \/ FlushDestroy
      PROVE  CountInv'
  <2>1. \/ UNCHANGED <<faults, disturbed>> \/ Fault
        \/ faults' = faults /\ disturbed' = (orphans # {})
    BY <1>1 DEF StartSync, InspectIpset, CreateIpset, RejectRequest, BeginReplace, FlushDestroy,
                NoFault, Typed, KernelSet, Names
  <2>2. /\ faults' = faults \/ (faults < MaxFaults /\ faults' = faults + 1)
        /\ disturbed' \in BOOLEAN
    BY <2>1 DEF Fault, CountInv
  <2>3. /\ orphans' = orphans /\ files' = files
        /\ pc' \in Pcs /\ pc # "restore" /\ pc' # "restore"
        /\ ~ Replacing /\ (Replacing' => temp' \in Temps)
    BY <1>1 DEF StartSync, InspectIpset, CreateIpset, RejectRequest, BeginReplace, FlushDestroy,
                GoOn, Fail, End, kernelVars, Pcs, Replacing, Typed, KernelSet, Names
  <2>4. \A t \in Temps : sets'[t] = sets[t]
    <3>1. sets' = sets \/ \E k : sets' = [sets EXCEPT ![MANAGED] = k]
      BY <1>1 DEF StartSync, InspectIpset, CreateIpset, RejectRequest, BeginReplace,
                  FlushDestroy, kernelVars
    <3> QED
      BY <3>1 DEF Typed, Names, IpsetAssumption
  <2>5. Others' \subseteq Others
    BY <2>3, <2>4 DEF Others, Leaked
  <2>6. /\ IsFiniteSet(Others') /\ Cardinality(Others') \in Nat
        /\ Cardinality(Others') <= Cardinality(Others)
    BY <1>0, <2>5, OthersCount
  <2> QED
    BY <1>0, <2>2, <2>3, <2>6 DEF CountInv
<1>2. CASE DestroyBefore
  <2>1. /\ orphans' = orphans /\ files' = files /\ temp' = temp /\ pc = "destroy_before"
        /\ pc' = "script" /\ disturbed' \in BOOLEAN
        /\ faults' = faults \/ (faults < MaxFaults /\ faults' = faults + 1)
        /\ \A t \in Temps \ {temp} : sets'[t] = sets[t]
    BY <1>2 DEF DestroyBefore, BestEffortDestroy, GoOn, Fault, NoFault, CountInv, Typed, Names
  <2>2. Others' \subseteq Others
    BY <2>1 DEF Others, Leaked, Replacing
  <2>3. /\ IsFiniteSet(Others') /\ Cardinality(Others') \in Nat
        /\ Cardinality(Others') <= Cardinality(Others)
    BY <1>0, <2>2, OthersCount
  <2> QED
    BY <1>0, <2>1, <2>3 DEF CountInv, Pcs
<1>3. CASE RunRestore
  <2>1. /\ UNCHANGED <<sets, orphans, temp>> /\ pc = "script" /\ disturbed' \in BOOLEAN
        /\ \/ pc' = "restore" /\ files' = files + 1 /\ faults' = faults
           \/ /\ pc' = "destroy_after" /\ files' = files
              /\ faults < MaxFaults /\ faults' = faults + 1
    BY <1>3 DEF RunRestore, Fault, NoFault, CountInv
  <2>2. Others' = Others
    BY <2>1 DEF Others, Leaked, Replacing
  <2> QED
    BY <1>0, <2>1, <2>2 DEF CountInv, Pcs
<1>4. CASE ChildLine
  <2>1. PICK r \in child : ExecuteLine(r)
    BY <1>4 DEF ChildLine
  <2>2. UNCHANGED <<pc, temp, orphans, files, faults, disturbed>> /\ pc = "restore"
    BY <1>4 DEF ChildLine
  <2>3. r \in Restore /\ Loaded(sets, r) /\ r.temp = temp
    BY <2>1, <2>2 DEF Typed, ChildInv, IsChild, LoadInv, ExecuteLine
  <2>4. \A n \in Names \ {MANAGED, temp} : sets'[n] = sets[n]
    BY <2>1, <2>3, LineProps DEF Typed
  <2>5. \A t \in Temps \ {temp} : sets'[t] = sets[t]
    BY <2>4 DEF Names, IpsetAssumption
  <2>6. Others' = Others
    BY <2>2, <2>5 DEF Others, Leaked, Replacing
  <2> QED
    BY <1>0, <2>2, <2>6 DEF CountInv
<1>5. CASE RestoreExits \/ RestoreKilled
  <2>1. /\ UNCHANGED <<sets, orphans, temp>> /\ pc = "restore" /\ pc' = "destroy_after"
        /\ disturbed' \in BOOLEAN
        /\ \/ files' = files - 1 /\ faults' = faults
           \/ /\ files' \in {files, files - 1}
              /\ faults < MaxFaults /\ faults' = faults + 1
    BY <1>5 DEF RestoreExits, RestoreKilled, Fault, NoFault, CountInv
  <2>2. Others' = Others
    BY <2>1 DEF Others, Leaked, Replacing
  <2> QED
    BY <1>0, <2>1, <2>2 DEF CountInv, Pcs
<1>6. CASE DestroyAfter
  <2>1. /\ orphans' = orphans /\ files' = files /\ pc = "destroy_after" /\ pc' = "idle"
        /\ disturbed' \in BOOLEAN
        /\ \A t \in Temps \ {temp} : sets'[t] = sets[t]
        /\ \/ sets'[temp] = Absent /\ faults' = faults
           \/ faults < MaxFaults /\ faults' = faults + 1
    BY <1>6 DEF DestroyAfter, BestEffortDestroy, End, Fault, NoFault, CountInv, Typed, Names
  <2>2. \A r \in orphans : r.temp # temp
    BY <2>1 DEF OrphanInv, Replacing
  <2>3. CASE sets'[temp] = Absent /\ faults' = faults
    <3>1. Others' \subseteq Others
      BY <2>1, <2>2, <2>3 DEF Others, Leaked, Replacing
    <3>2. /\ IsFiniteSet(Others') /\ Cardinality(Others') \in Nat
          /\ Cardinality(Others') <= Cardinality(Others)
      BY <1>0, <3>1, OthersCount
    <3> QED
      BY <1>0, <2>1, <2>3, <3>2 DEF CountInv, Pcs
  <2>4. CASE faults < MaxFaults /\ faults' = faults + 1
    <3>1. Others' \subseteq Others \cup {temp}
      BY <2>1, <2>2 DEF Others, Leaked, Replacing
    <3>2. /\ IsFiniteSet(Others') /\ Cardinality(Others') \in Nat
          /\ Cardinality(Others') <= Cardinality(Others) + 1
      BY <1>0, <3>1, OthersCount
    <3> QED
      BY <1>0, <2>1, <2>4, <3>2 DEF CountInv, Pcs
  <2> QED
    BY <2>1, <2>3, <2>4
<1>7. CASE OrphanLine
  <2>1. PICK r \in orphans :
          /\ ExecuteLine(r)
          /\ orphans' = (orphans \ {r}) \cup {o \in {Executed(r)} : Running(o)}
    BY <1>7 DEF OrphanLine
  <2>2. UNCHANGED <<pc, temp, files, faults, disturbed>>
    BY <1>7 DEF OrphanLine
  <2>3. r \in Restore /\ Loaded(sets, r)
    BY <2>1 DEF Typed, OrphanInv, LoadInv
  <2>4. Executed(r).temp = r.temp /\ \A n \in Names \ {MANAGED, r.temp} : sets'[n] = sets[n]
    BY <2>1, <2>3, LineProps DEF Typed
  <2>5. \A t \in Temps \ {r.temp} : sets'[t] = sets[t]
    BY <2>4 DEF Names, IpsetAssumption
  <2>6. \A o \in orphans' : o.temp = r.temp \/ o \in orphans
    BY <2>1, <2>4
  <2>7. Leaked' \subseteq Leaked
    BY <2>1, <2>5, <2>6 DEF Leaked
  <2>8. Others' \subseteq Others
    BY <2>2, <2>7 DEF Others, Replacing
  <2>9. /\ IsFiniteSet(Others') /\ Cardinality(Others') \in Nat
        /\ Cardinality(Others') <= Cardinality(Others)
    BY <1>0, <2>8, OthersCount
  <2> QED
    BY <1>0, <2>2, <2>9 DEF CountInv
<1>8. CASE Crash
  <2>1. /\ UNCHANGED <<sets, files>> /\ pc' = "idle" /\ disturbed' \in BOOLEAN
        /\ faults < MaxFaults /\ faults' = faults + 1
        /\ orphans' = orphans \cup {r \in child : Running(r)}
    BY <1>8 DEF Crash, End, Fault
  <2>2. \A r \in child : r.temp = temp
    BY DEF ChildInv, IsChild
  <2>3. Others' \subseteq Others \cup {temp}
    BY <2>1, <2>2 DEF Others, Leaked, Replacing
  <2>4. /\ IsFiniteSet(Others') /\ Cardinality(Others') \in Nat
        /\ Cardinality(Others') <= Cardinality(Others) + 1
    BY <1>0, <2>3, OthersCount
  <2> QED
    BY <1>0, <2>1, <2>4 DEF CountInv, Pcs
<1>9. CASE ForeignCreate
  <2>1. /\ UNCHANGED <<pc, temp, orphans, files>> /\ disturbed' \in BOOLEAN
        /\ faults < MaxFaults /\ faults' = faults + 1
        /\ \A t \in Temps : sets'[t] = sets[t]
    BY <1>9 DEF ForeignCreate, Fault, Typed, Names, IpsetAssumption
  <2>2. Others' = Others
    BY <2>1 DEF Others, Leaked, Replacing
  <2> QED
    BY <1>0, <2>1, <2>2 DEF CountInv
<1> QED
  BY <1>1, <1>2, <1>3, <1>4, <1>5, <1>6, <1>7, <1>8, <1>9 DEF Next, Step

-----------------------------------------------------------------------------
\* What a running or orphaned restore has loaded and has still to add are its
\* whole list, and only it works on its temporary set.
THEOREM LoadedIsWhole == ASSUME IpsetAssumption PROVE Spec => []IInv
<1>1. Init => IInv
  BY InitIInv
<1>2. IInv /\ [Next]_vars => IInv'
  <2>1. ASSUME IInv, UNCHANGED vars PROVE IInv'
    BY <2>1 DEF vars, IInv, Typed, ChildInv, IsChild, OrphanInv, Replacing, LoadInv, Loaded
  <2> QED
    BY <2>1, NextIInv
<1> QED
  BY <1>1, <1>2, PTL DEF Spec

\* atomic_replace_ipset_values: for any lists, names, faults, crashes and any
\* number of orphaned restores, the managed set changes only from one whole
\* list that was asked for to another, and success is only reported after it.
THEOREM AtomicReplacement == ASSUME IpsetAssumption PROVE Spec => ReplacesAtomically
<1>1. Init => Abstract!Init
  BY InitRefines
<1>2. IInv /\ [Next]_vars => [Abstract!Next]_(Abstract!vars)
  <2>1. ASSUME UNCHANGED vars PROVE UNCHANGED Abstract!vars
    BY <2>1 DEF vars, Abstract!vars, Promise
  <2> QED
    BY <2>1, NextRefines
<1> QED
  BY <1>1, <1>2, LoadedIsWhole, PTL DEF Spec, ReplacesAtomically, Abstract!Spec

\* A replacement that reports success has installed exactly the requested
\* networks with the configured capacity, and they stay until the next sync or
\* flush, unless the orphan of a killed process swaps its older list in.
THEOREM OkIsInstalled == ASSUME IpsetAssumption PROVE Spec => []OkInstalled
<1>1. Init => DoneInv
  BY DEF Init, DoneInv, Promise
<1>2. IInv /\ DoneInv /\ [Next]_vars => DoneInv'
  <2>1. ASSUME DoneInv, UNCHANGED vars PROVE DoneInv'
    BY <2>1 DEF vars, DoneInv, Promise, Whole
  <2> QED
    BY <2>1, NextDone
<1>3. DoneInv => OkInstalled
  BY DEF DoneInv, OkInstalled, Promise, Whole
<1> QED
  BY <1>1, <1>2, <1>3, LoadedIsWhole, PTL DEF Spec

\* How a sync's replacement ends, for any requests, names and number of faults:
\* success means installed; it fails only for a fault, an orphan, another tool's
\* set or its own capacity check; and what it leaves behind its faults pay for.
THEOREM EndsAsAsked == ASSUME IpsetAssumption PROVE Spec => []EndsAsRequested
<1>1. Init => DoneInv /\ CleanInv
  BY DEF Init, DoneInv, Promise, CleanInv
<1>2. Init => CountInv
  <2> SUFFICES ASSUME Init PROVE CountInv
    OBVIOUS
  <2>1. Others = {}
    BY DEF Init, Others, Leaked, Replacing, IpsetAssumption, Names
  <2>2. IsFiniteSet(Others) /\ Cardinality(Others) = 0
    BY <2>1, FS_EmptySet
  <2>3. pc = "idle" /\ files = 0 /\ faults = 0 /\ disturbed = FALSE /\ MaxFaults \in Nat
    BY DEF Init, IpsetAssumption
  <2>4. pc \in Pcs /\ pc # "restore" /\ disturbed \in BOOLEAN
    BY <2>3 DEF Pcs
  <2>5. faults \in 0 .. MaxFaults /\ files \in Nat
    BY <2>3
  <2>6. Cardinality(Others) + files <= 2 * faults + 0
    BY <2>2, <2>3
  <2> QED
    BY <2>2, <2>4, <2>5, <2>6 DEF CountInv
<1>3. IInv /\ DoneInv /\ CleanInv /\ CountInv /\ [Next]_vars
        => (DoneInv /\ CleanInv /\ CountInv)'
  <2>1. ASSUME DoneInv, CleanInv, CountInv, UNCHANGED vars
        PROVE  (DoneInv /\ CleanInv /\ CountInv)'
    <3>1. DoneInv'
      BY <2>1 DEF vars, DoneInv, Promise, Whole
    <3>2. CleanInv'
      BY <2>1 DEF vars, CleanInv, Ready
    <3>3. CountInv'
      BY <2>1 DEF vars, CountInv, Others, Leaked, Replacing
    <3> QED
      BY <3>1, <3>2, <3>3
  <2> QED
    BY <2>1, NextDone, NextClean, NextCount
<1>4. IInv /\ DoneInv /\ CleanInv /\ CountInv => EndsAsRequested
  <2> SUFFICES ASSUME IInv, DoneInv, CleanInv, CountInv PROVE EndsAsRequested
    OBVIOUS
  <2>1. TypeOK
    BY DEF TypeOK, IInv, Typed, DoneInv, CountInv
  <2>2. OkInstalled
    BY DEF IInv, DoneInv, OkInstalled, Promise, Whole
  <2>3. NoSpuriousFailure
    BY DEF NoSpuriousFailure, CleanInv
  <2>4. LeaksBounded
    <3> SUFFICES ASSUME pc = "idle", orphans = {}
                 PROVE  Cardinality({t \in Temps : sets[t] # Absent}) + files <= 2 * faults
      BY DEF LeaksBounded
    <3>1. Others = {t \in Temps : sets[t] # Absent}
      BY DEF Others, Leaked, Replacing
    <3>2. Cardinality(Others) + files <= 2 * faults + 0
      BY DEF CountInv
    <3>3. faults \in Nat
      BY DEF CountInv
    <3> QED
      BY <3>1, <3>2, <3>3
  <2> QED
    BY <2>1, <2>2, <2>3, <2>4 DEF EndsAsRequested
<1> QED
  BY <1>1, <1>2, <1>3, <1>4, LoadedIsWhole, PTL DEF Spec
=============================================================================
