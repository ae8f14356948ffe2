-------------------------- MODULE RemoteFetchProofs --------------------------
(***************************************************************************)
(* What a sync collects from its feeds does not depend on the schedule of  *)
(* the threads that fetch them, for any configuration, number of workers   *)
(* and contents of the caches and feeds.                                   *)
(***************************************************************************)
EXTENDS RemoteFetch, TLAPS, SequenceTheorems, FiniteSetTheorems, WellFoundedInduction

-----------------------------------------------------------------------------
(***************************************************************************)
(* The inductive invariant.                                                *)
(***************************************************************************)
Size == Len(chunk)

\* A position that is claimed and not yet pushed.
Busy(w) == worker[w].at \in {"read", "ask", "askAgain", "stage", "push"}

Gone == {w \in Workers : worker[w].at = "gone"}

\* The provider is where its threads are, and has an outcome when it has ended.
Control ==
  /\ pc # "join" => Gone = Workers
  /\ pc = "join" => first < Len(unique)
  /\ pc = "chunk" => results = <<>>
  /\ outcome = "none" <=> pc # "done"

\* Every position below the shared index is in one pair of hands or pushed, and
\* the index has passed the chunk when the first worker ends by itself.
Claims ==
  pc = "join" =>
    /\ \A v, w \in Workers : v # w /\ Busy(v) /\ Busy(w) => worker[v].index # worker[w].index
    /\ \A w \in Workers : Busy(w) =>
         worker[w].index < nextIdx /\ \A i \in DOMAIN results : results[i] # worker[w].index
    /\ \A i \in DOMAIN results : results[i] < nextIdx
    /\ \A i, j \in DOMAIN results : results[i] = results[j] => i = j
    /\ \A k \in 1 .. Size : k < nextIdx =>
         (\E i \in DOMAIN results : results[i] = k) \/ \E w \in Workers : Busy(w) /\ worker[w].index = k
    /\ nextIdx <= Size + 1 + Cardinality(Gone)
    /\ worker[1].at = "gone" /\ ~ cancelled => nextIdx > Size

\* Who has pushed, or is about to, has fetched; and nothing was cut short when the
\* results are looked at.
Fetched ==
  /\ pc = "join" =>
       /\ \A i \in DOMAIN results : got[chunk[results[i]]].kind # "none"
       /\ \A w \in Workers : worker[w].at = "push" => got[Feed(w)].kind # "none"
  /\ pc = "collect" =>
       \A k \in 1 .. Size : got[chunk[k]].kind # "none"
  /\ \A u \in Urls : got[u].cut => cancelled /\ pc \in {"join", "done"} /\ outcome # "ok"

\* The results left to look at are the last ones of the chunk, in order.
Ordered ==
  pc = "collect" =>
    /\ Len(results) <= Size
    /\ \A i \in DOMAIN results : results[i] = Size - Len(results) + i

\* The feeds that were looked at.
Seen == IF pc = "collect" THEN first + Size - Len(results) ELSE first

\* The first k feeds have not failed, and the staged state is theirs.
Collected(k) ==
  /\ unique # <<>> =>
       Len(observations) = k /\ \A i \in 1 .. k : observations[i].url = unique[i]
  /\ \A i \in 1 .. k : got[unique[i]].kind \notin {"none", "hard"} /\ ~ Cardinality(UpTo(i)) > AggregateLimit
  /\ aggregate = UpTo(k)
  /\ HandsOver(k)

Failed(error) ==
  \E k \in DOMAIN unique :
    Fails(k, error) /\ \A i \in 1 .. (k - 1) : \A e \in {"staging", "budget"} : ~ Fails(i, e)

Staged ==
  /\ pc # "done" \/ outcome = "ok" =>
       \E k \in 0 .. Len(unique) : k = Seen /\ Collected(k)
  /\ outcome = "ok" => first = Len(unique)
  /\ outcome \in {"staging", "budget"} => Failed(outcome)

IInv ==
  /\ TypeOK /\ unique = Unique(urls)
  /\ Control /\ Claims /\ Fetched /\ Ordered /\ Staged

-----------------------------------------------------------------------------
(***************************************************************************)
(* The operators.                                                          *)
(***************************************************************************)
\* A nonempty set of naturals has a least element.
LEMMA LeastNatural ==
  ASSUME NEW S, S \subseteq Nat, S # {}
  PROVE  \E x \in S : \A y \in S : x <= y
<1>1. PICK x \in S : \A y \in S : ~ (<<y, x>> \in OpToRel(<, Nat))
  BY NatLessThanWellFounded, WFMin
<1>2. ASSUME NEW y \in S
      PROVE  x <= y
  <2>1. <<y, x>> \in OpToRel(<, Nat) <=> <<y, x>> \in Nat \X Nat /\ y < x
    BY Zenon DEF OpToRel
  <2>2. ~ (<<y, x>> \in Nat \X Nat /\ y < x)
    BY <1>1, <2>1, Zenon
  <2> QED
    BY <2>2
<1> QED
  BY <1>2

\* The recursion that Unique is written with.
Adds(list, g, i) ==
  IF i = 0 THEN <<>>
  ELSE IF list[i] \in ToSet(g[i - 1]) THEN g[i - 1] ELSE Append(g[i - 1], list[i])

SeenUpTo(list, g, m) == g = [i \in 0 .. m |-> Adds(list, g, i)]

LEMMA SeenExists ==
  ASSUME NEW list \in Seq(Urls)
  PROVE  \E g : SeenUpTo(list, g, Len(list))
<1> DEFINE Bad == {m \in 0 .. Len(list) : ~ \E g : SeenUpTo(list, g, m)}
<1>0. Len(list) \in 0 .. Len(list)
  OBVIOUS
<1> SUFFICES ASSUME Bad # {} PROVE FALSE
  BY <1>0, Zenon
<1>1. Bad \subseteq Nat
  OBVIOUS
<1>2. PICK m \in Bad : \A k \in Bad : m <= k
  BY <1>1, LeastNatural
<1>3. m \in 0 .. Len(list) /\ ~ \E g : SeenUpTo(list, g, m)
  BY <1>2
<1>4. CASE m = 0
  <2> DEFINE g == [i \in 0 .. 0 |-> <<>>]
  <2>1. \A i \in 0 .. 0 : Adds(list, g, i) = <<>>
    BY DEF Adds
  <2>2. SeenUpTo(list, g, 0)
    BY <2>1 DEF SeenUpTo
  <2> QED
    BY <1>3, <1>4, <2>2
<1>5. CASE m # 0
  <2>1. m - 1 \in 0 .. Len(list) /\ m - 1 \notin Bad
    BY <1>2, <1>3, <1>5
  <2>2. PICK g : SeenUpTo(list, g, m - 1)
    BY <2>1
  <2> DEFINE h == [i \in 0 .. m |-> IF i = m THEN Adds(list, g, m) ELSE g[i]]
  <2>3. \A i \in 0 .. (m - 1) : g[i] = Adds(list, g, i)
    BY <2>2 DEF SeenUpTo
  <2>4. \A i \in 0 .. m : i # m => h[i] = g[i]
    OBVIOUS
  <2>5. ASSUME NEW i \in 0 .. m PROVE h[i] = Adds(list, h, i)
    <3>1. i # 0 => h[i - 1] = g[i - 1]
      BY <1>3, <2>4, <2>5
    <3>2. Adds(list, h, i) = Adds(list, g, i)
      BY <3>1 DEF Adds
    <3>3. i # m => i \in 0 .. (m - 1)
      BY <1>3, <2>5
    <3>4. CASE i = m
      BY <3>2, <3>4
    <3>5. CASE i # m
      BY <2>3, <2>4, <3>2, <3>3, <3>5
    <3> QED
      BY <3>4, <3>5
  <2>6. h = [i \in 0 .. m |-> h[i]]
    OBVIOUS
  <2>7. SeenUpTo(list, h, m)
    <3> HIDE DEF h
    <3> QED
      BY <2>5, <2>6 DEF SeenUpTo
  <2> QED
    BY <1>3, <2>7
<1> QED
  BY <1>4, <1>5

\* No feed is there twice, and no other ones than those of the list.
LEMMA UniqueProps ==
  ASSUME NEW list \in Seq(Urls)
  PROVE  /\ Unique(list) \in Seq(Urls)
         /\ \A i, j \in DOMAIN Unique(list) : Unique(list)[i] = Unique(list)[j] => i = j
         /\ ToSet(Unique(list)) = ToSet(list)
<1>1. PICK g : SeenUpTo(list, g, Len(list)) /\ Unique(list) = g[Len(list)]
  BY SeenExists DEF Unique, SeenUpTo, Adds
<1> DEFINE Right(m) ==
             /\ g[m] \in Seq(Urls)
             /\ \A i, j \in DOMAIN g[m] : g[m][i] = g[m][j] => i = j
             /\ ToSet(g[m]) = {list[k] : k \in 1 .. m}
           Bad == {m \in 0 .. Len(list) : ~ Right(m)}
<1>2. \A i \in 0 .. Len(list) : g[i] = Adds(list, g, i)
  BY <1>1 DEF SeenUpTo
<1>3. Bad = {}
  <2> SUFFICES ASSUME Bad # {} PROVE FALSE
    OBVIOUS
  <2>1. Bad \subseteq Nat
    OBVIOUS
  <2>2. PICK m \in Bad : \A k \in Bad : m <= k
    BY <2>1, LeastNatural
  <2>3. m \in 0 .. Len(list) /\ ~ Right(m)
    BY <2>2
  <2>4. CASE m = 0
    <3>1. g[m] = <<>>
      BY <1>2, <2>3, <2>4 DEF Adds
    <3> QED
      BY <2>3, <2>4, <3>1 DEF ToSet
  <2>5. CASE m # 0
    <3>0. m - 1 \in 0 .. Len(list) /\ ~ m <= m - 1
      BY <2>3, <2>5
    <3>1. m - 1 \notin Bad
      BY <2>2, <3>0, Zenon
    <3>2. Right(m - 1)
      BY <3>0, <3>1, Zenon
    <3> DEFINE s == g[m - 1]
    <3>3. s \in Seq(Urls) /\ (\A i, j \in DOMAIN s : s[i] = s[j] => i = j)
          /\ ToSet(s) = {list[k] : k \in 1 .. (m - 1)}
      BY <3>2
    <3>4. g[m] = IF list[m] \in ToSet(s) THEN s ELSE Append(s, list[m])
      BY <1>2, <2>3, <2>5 DEF Adds
    <3>5. list[m] \in Urls /\ 1 .. m = (1 .. (m - 1)) \cup {m}
      BY <2>3, <2>5
    <3>6. {list[k] : k \in 1 .. m} = {list[k] : k \in 1 .. (m - 1)} \cup {list[m]}
      BY <3>5, Zenon
    <3> HIDE DEF s
    <3>7. CASE list[m] \in ToSet(s)
      <4>1. Right(m)
        BY <3>3, <3>4, <3>6, <3>7, Zenon
      <4> QED
        BY <2>3, <4>1
    <3>8. CASE list[m] \notin ToSet(s)
      <4> DEFINE t == Append(s, list[m])
      <4>1. t \in Seq(Urls) /\ DOMAIN t = 1 .. (Len(s) + 1) /\ t[Len(s) + 1] = list[m]
            /\ \A i \in 1 .. Len(s) : t[i] = s[i]
        BY <3>3, <3>5
      <4>2. \A i \in 1 .. Len(s) : s[i] # list[m]
        BY <3>3, <3>8 DEF ToSet
      <4>3. Len(s) \in Nat /\ DOMAIN s = 1 .. Len(s)
        BY <3>3
      <4> HIDE DEF t
      <4>4. \A i, j \in DOMAIN t : t[i] = t[j] => i = j
        BY <3>3, <4>1, <4>2, <4>3
      <4>5. ToSet(t) = ToSet(s) \cup {list[m]}
        BY <4>1, <4>3 DEF ToSet
      <4>6. g[m] = t
        BY <3>4, <3>8 DEF t
      <4>7. Right(m)
        BY <3>3, <3>6, <4>1, <4>4, <4>5, <4>6, Zenon
      <4> QED
        BY <2>3, <4>7
    <3> QED
      BY <3>7, <3>8
  <2> QED
    BY <2>4, <2>5
<1>4. Right(Len(list))
  <2>1. Len(list) \in 0 .. Len(list)
    OBVIOUS
  <2> QED
    BY <1>3, <2>1, Zenon
<1>5. ToSet(list) = {list[k] : k \in 1 .. Len(list)}
  BY DEF ToSet
<1> QED
  BY <1>1, <1>4, <1>5, Zenon

\* Positions that are all there, each once, are sorted into 1, 2, ...
LEMMA SortedPositions ==
  ASSUME NEW n \in Nat, NEW s \in Seq(1 .. n),
         \A i, j \in DOMAIN s : s[i] = s[j] => i = j,
         \A k \in 1 .. n : \E i \in DOMAIN s : s[i] = k
  PROVE  Len(s) = n /\ SortByIndex(s) = [i \in 1 .. n |-> i]
<1>1. DOMAIN s = 1 .. Len(s) /\ Len(s) \in Nat /\ s \in [1 .. Len(s) -> 1 .. n]
  OBVIOUS
<1>2. Len(s) = n
  <2>1. s \in Bijection(1 .. Len(s), 1 .. n)
    BY <1>1 DEF Bijection, Injection, Surjection, IsInjective
  <2>2. ExistsBijection(1 .. Len(s), 1 .. n)
    BY <2>1, Zenon DEF ExistsBijection
  <2>3. /\ IsFiniteSet(1 .. Len(s)) /\ Cardinality(1 .. Len(s)) = Len(s)
        /\ IsFiniteSet(1 .. n) /\ Cardinality(1 .. n) = n
    <3>1. \A m \in Nat : IsFiniteSet(1 .. m) /\ Cardinality(1 .. m) = IF 1 > m THEN 0 ELSE m - 1 + 1
      BY FS_Interval
    <3>2. \A m \in Nat : (IF 1 > m THEN 0 ELSE m - 1 + 1) = m
      OBVIOUS
    <3> QED
      BY <1>1, <3>1, <3>2
  <2>4. Cardinality(1 .. n) = Cardinality(1 .. Len(s))
    BY <2>2, <2>3, FS_Bijection, Zenon
  <2> QED
    BY <2>3, <2>4
<1> DEFINE D == DOMAIN s
           Sorts(p) == IsInjective(p) /\ \A i, j \in D : i < j => s[p[i]] <= s[p[j]]
           order == CHOOSE p \in [D -> D] : Sorts(p)
           inverse == [k \in D |-> CHOOSE i \in D : s[i] = k]
<1>d. D = 1 .. n
  BY <1>1, <1>2
<1> HIDE DEF D
<1>3. \A k \in D : inverse[k] \in D /\ s[inverse[k]] = k
  BY <1>d DEF D
<1>4. inverse \in [D -> D] /\ Sorts(inverse)
  <2>0. inverse = [k \in D |-> inverse[k]]
    OBVIOUS
  <2> HIDE DEF inverse
  <2>1. inverse \in [D -> D]
    BY <1>3, <2>0
  <2>2. IsInjective(inverse)
    BY <1>3, <2>1 DEF IsInjective
  <2>3. \A i, j \in D : i < j => s[inverse[i]] <= s[inverse[j]]
    BY <1>d, <1>3
  <2> QED
    BY <2>1, <2>2, <2>3
<1> HIDE DEF inverse
<1>5. order \in [D -> D] /\ Sorts(order)
  <2> HIDE DEF Sorts
  <2> QED
    BY <1>4, Zenon
<1>6. SortByIndex(s) = [i \in D |-> s[order[i]]]
  BY Zenon DEF SortByIndex, D
<1> HIDE DEF order
<1> DEFINE r == [i \in D |-> s[order[i]]]
<1>7. /\ r \in [D -> D]
      /\ \A i, j \in D : i < j => r[i] <= r[j]
      /\ IsInjective(r)
  <2>1. r \in [D -> D] /\ \A i, j \in D : i < j => r[i] <= r[j]
    <3>1. \A i \in D : order[i] \in D /\ s[order[i]] \in D
      <4>1. \A i \in D : order[i] \in D
        BY <1>5
      <4>2. \A i \in D : s[i] \in D
        BY <1>1, <1>2, <1>d
      <4> QED
        BY <4>1, <4>2
    <3> QED
      BY <1>5, <3>1
  <2>2. \A i, j \in D : order[i] = order[j] => i = j
    BY <1>5 DEF IsInjective
  <2>3. IsInjective(r)
    <3> SUFFICES ASSUME NEW i \in D, NEW j \in D, s[order[i]] = s[order[j]] PROVE i = j
      BY Zenon DEF IsInjective
    <3>1. order[i] \in D /\ order[j] \in D
      BY <1>5
    <3>2. order[i] = order[j]
      BY <3>1 DEF D
    <3> QED
      BY <2>2, <3>2
  <2> QED
    BY <2>1, <2>3
<1> HIDE DEF r
<1>8. \A k \in D : \E j \in D : r[j] = k
  <2>1. r \in Injection(D, D) /\ IsFiniteSet(D)
    <3>1. r \in Injection(D, D)
      BY <1>7, Zenon DEF Injection
    <3>2. IsFiniteSet(1 .. n)
      BY FS_Interval
    <3> QED
      BY <1>d, <3>1, <3>2
  <2>2. r \in Surjection(D, D)
    BY <2>1, FS_Injection, Zenon
  <2> QED
    BY <2>2 DEF Surjection
<1>9. \A k \in D : r[k] = k
  <2> DEFINE Bad == {k \in D : r[k] # k}
  <2> SUFFICES ASSUME Bad # {} PROVE FALSE
    OBVIOUS
  <2>1. Bad \subseteq Nat
    BY <1>d
  <2>2. PICK k \in Bad : \A i \in Bad : k <= i
    BY <2>1, LeastNatural
  <2>3. k \in D /\ r[k] # k /\ r[k] \in D
    BY <1>7, <2>2
  <2>4. PICK j \in D : r[j] = k
    BY <1>8, <2>3
  <2>5. \A i \in D : i < k => r[i] = i
    BY <1>d, <2>2, <2>3
  <2>6. k < j
    <3>1. k \in Nat /\ j \in Nat
      BY <1>d, <2>3, <2>4
    <3>2. j # k /\ ~ j < k
      BY <2>3, <2>4, <2>5
    <3> QED
      BY <3>1, <3>2
  <2>7. r[k] < k
    BY <1>7, <1>d, <2>3, <2>4, <2>6
  <2>8. r[r[k]] = r[k]
    BY <2>3, <2>5, <2>7
  <2> QED
    BY <1>7, <2>3, <2>8 DEF IsInjective
<1>10. r = [i \in D |-> i]
  BY <1>7, <1>9
<1> QED
  BY <1>2, <1>6, <1>10, <1>d DEF r

-----------------------------------------------------------------------------
(***************************************************************************)
(* Feeds and chunks.                                                       *)
(***************************************************************************)
LEMMA Feeds ==
  ASSUME IInv
  PROVE  /\ unique \in Seq(Urls) /\ Len(unique) \in Nat /\ DOMAIN unique = 1 .. Len(unique)
         /\ \A i, j \in 1 .. Len(unique) : unique[i] = unique[j] => i = j
         /\ ToSet(unique) = ToSet(urls)
         /\ \A i \in 1 .. Len(unique) : unique[i] \in Urls
<1>1. urls \in Seq(Urls) /\ unique = Unique(urls) /\ unique \in Seq(Urls)
  BY ConfiguredAssumption DEF IInv, TypeOK
<1>2. /\ \A i, j \in DOMAIN unique : unique[i] = unique[j] => i = j
      /\ ToSet(unique) = ToSet(urls)
  BY <1>1, UniqueProps
<1> QED
  BY <1>1, <1>2

\* The feeds of a chunk are the next ones, as many as there are workers at most.
LEMMA Chunks ==
  ASSUME unique \in Seq(Urls), first \in 0 .. Len(unique)
  PROVE  /\ Size \in 0 .. MAX_WORKERS /\ first + Size \in 0 .. Len(unique)
         /\ first \in Nat
         /\ first < Len(unique) => Size \in Nat \ {0}
         /\ chunk \in Seq(Urls) /\ DOMAIN chunk = 1 .. Size
         /\ \A k \in 1 .. Size : chunk[k] = unique[first + k] /\ chunk[k] \in Urls
<1> DEFINE last == Least(first + MAX_WORKERS, Len(unique))
<1>1. MAX_WORKERS \in Nat \ {0} /\ Len(unique) \in Nat /\ first \in Nat /\ first <= Len(unique)
  BY WorkersAssumption
<1>2. /\ last \in Nat /\ first <= last /\ last <= Len(unique) /\ last <= first + MAX_WORKERS
      /\ first < Len(unique) => first < last
  BY <1>1 DEF Least
<1> HIDE DEF last
<1>3. chunk = SubSeq(unique, first + 1, last)
  BY DEF chunk, last
<1>4. chunk \in Seq(Urls) /\ Len(chunk) = last - first
      /\ \A k \in 1 .. (last - first) : chunk[k] = unique[first + k]
  BY <1>1, <1>2, <1>3
<1>5. Size = last - first /\ DOMAIN chunk = 1 .. Size
  BY <1>4 DEF Size
<1>6. \A k \in 1 .. Size : chunk[k] = unique[first + k] /\ chunk[k] \in Urls
  <2> SUFFICES ASSUME NEW k \in 1 .. Size
               PROVE  chunk[k] = unique[first + k] /\ chunk[k] \in Urls
    OBVIOUS
  <2>1. first + k \in 1 .. Len(unique)
    BY <1>1, <1>2, <1>5
  <2>2. unique[first + k] \in Urls
    BY <2>1
  <2> QED
    BY <1>4, <1>5, <2>2
<1> QED
  BY <1>1, <1>2, <1>4, <1>5, <1>6

\* The feed of a worker that is not gone is one of the chunk.
LEMMA FeedOf ==
  ASSUME IInv, NEW w \in Workers, worker[w].at # "gone"
  PROVE  /\ worker[w].index \in 1 .. Size
         /\ Feed(w) \in Urls /\ Feed(w) = unique[first + worker[w].index]
         /\ first + worker[w].index \in 1 .. Len(unique)
<1>1. unique \in Seq(Urls) /\ first \in 0 .. Len(unique) /\ worker[w].index \in DOMAIN chunk
  BY DEF IInv, TypeOK
<1>2. /\ Size \in 0 .. MAX_WORKERS /\ first + Size \in 0 .. Len(unique) /\ first \in Nat
      /\ DOMAIN chunk = 1 .. Size
      /\ \A k \in 1 .. Size : chunk[k] = unique[first + k] /\ chunk[k] \in Urls
  BY <1>1, Chunks
<1>3. worker[w].index \in 1 .. Size
  BY <1>1, <1>2
<1>4. MAX_WORKERS \in Nat
  BY WorkersAssumption
<1>5. first + worker[w].index \in 1 .. Len(unique)
  BY <1>1, <1>2, <1>3, <1>4
<1> QED
  BY <1>2, <1>3, <1>5 DEF Feed

\* There are finitely many workers.
LEMMA WorkersFinite ==
  ASSUME NEW S \in SUBSET Workers
  PROVE  IsFiniteSet(S) /\ Cardinality(S) \in 0 .. MAX_WORKERS
<1>1. MAX_WORKERS \in Nat /\ MAX_WORKERS >= 1
  BY WorkersAssumption
<1>2. IsFiniteSet(1 .. MAX_WORKERS)
      /\ Cardinality(1 .. MAX_WORKERS) = IF 1 > MAX_WORKERS THEN 0 ELSE MAX_WORKERS - 1 + 1
  BY <1>1, FS_Interval
<1>3. IsFiniteSet(Workers) /\ Cardinality(Workers) = MAX_WORKERS
  BY <1>1, <1>2 DEF Workers
<1>4. IsFiniteSet(S) /\ Cardinality(S) <= Cardinality(Workers)
  BY <1>3, FS_Subset
<1>5. Cardinality(S) \in Nat
  BY <1>4, FS_CardinalityType
<1> QED
  BY <1>1, <1>3, <1>4, <1>5

-----------------------------------------------------------------------------
(***************************************************************************)
(* What was staged stays what it was as long as the results of its feeds   *)
(* do.                                                                     *)
(***************************************************************************)
LEMMA CollectedFrame ==
  ASSUME NEW k \in Nat, Collected(k),
         UNCHANGED <<unique, observations, aggregate, pending>>,
         \A i \in 1 .. k : got'[unique[i]] = got[unique[i]]
  PROVE  Collected(k)'
<1>1. unique' = unique /\ observations' = observations /\ aggregate' = aggregate /\ pending' = pending
  OBVIOUS
<1>2. ASSUME NEW j \in 0 .. k PROVE UpTo(j)' = UpTo(j)
  <2>1. \A i \in 1 .. j : got'[unique'[i]].networks = got[unique[i]].networks
    BY <1>1
  <2> QED
    BY <2>1 DEF UpTo
<1>3. HandsOver(k)'
  <2>1. {q \in 1 .. k : got'[unique'[q]].source = "network"} = {q \in 1 .. k : got[unique[q]].source = "network"}
    BY <1>1
  <2>2. HandsOver(k)
    BY DEF Collected
  <2>3. ToSet(pending)' = {unique'[p] : p \in {q \in 1 .. k : got'[unique'[q]].source = "network"}}
    <3>1. ToSet(pending)' = ToSet(pending)
      BY <1>1 DEF ToSet
    <3>2. ToSet(pending) = {unique[p] : p \in {q \in 1 .. k : got[unique[q]].source = "network"}}
      BY <2>2 DEF HandsOver
    <3>3. {unique'[p] : p \in {q \in 1 .. k : got'[unique'[q]].source = "network"}}
            = {unique[p] : p \in {q \in 1 .. k : got[unique[q]].source = "network"}}
      BY <1>1, <2>1
    <3> QED
      BY <3>1, <3>2, <3>3, Zenon
  <2>4. (\A i, j \in DOMAIN pending, p, q \in 1 .. k :
           pending[i] = unique[p] /\ pending[j] = unique[q] => (i < j <=> p < q))'
    BY <1>1, <2>2 DEF HandsOver
  <2> QED
    BY <2>3, <2>4 DEF HandsOver
<1>4. ASSUME NEW i \in 1 .. k
      PROVE  (got[unique[i]].kind \notin {"none", "hard"} /\ ~ Cardinality(UpTo(i)) > AggregateLimit)'
  <2>1. got[unique[i]].kind \notin {"none", "hard"} /\ ~ Cardinality(UpTo(i)) > AggregateLimit
    BY DEF Collected
  <2>2. UpTo(i)' = UpTo(i)
    BY <1>2
  <2> QED
    BY <1>1, <2>1, <2>2
<1>5. aggregate' = UpTo(k)'
  BY <1>1, <1>2 DEF Collected
<1>6. unique' # <<>> =>
        Len(observations') = k /\ \A i \in 1 .. k : observations'[i].url = unique'[i]
  BY <1>1 DEF Collected
<1> QED
  BY <1>3, <1>4, <1>5, <1>6 DEF Collected

\* While the threads run, that is so for the chunks before.
LEMMA StagedFrame ==
  ASSUME IInv, pc = "join", UNCHANGED <<unique, first, pc, observations, aggregate, pending, outcome>>,
         \A i \in 1 .. first : got'[unique[i]] = got[unique[i]]
  PROVE  Staged'
<1>1. PICK k \in 0 .. Len(unique) : k = Seen /\ Collected(k)
  BY DEF IInv, Staged
<1>2. outcome = "none"
  BY DEF IInv, Control
<1>3. k = first /\ Seen' = first
  BY <1>1 DEF Seen
<1>4. Collected(k)'
  BY <1>1, <1>3, CollectedFrame
<1> QED
  BY <1>2, <1>3, <1>4 DEF Staged

-----------------------------------------------------------------------------
(***************************************************************************)
(* The provider.                                                           *)
(***************************************************************************)
WorkerType == [at : {"check", "claim", "read", "ask", "askAgain", "stage", "push", "gone"},
               index : Workers, body : SUBSET Nets]

ResultType == [kind : {"none", "ok", "soft", "hard"}, source : Sources,
               networks : SUBSET Nets, cut : BOOLEAN]

ObservationType == [url : Urls, source : Sources] \cup {Disabled}

LEMMA AsleepType ==
  /\ 1 \in Workers /\ Asleep \in WorkerType /\ NoResult \in ResultType
  /\ \A at \in {"check", "gone"} :
       [Asleep EXCEPT !.at = at] \in WorkerType /\ [Asleep EXCEPT !.at = at].at = at
       /\ [Asleep EXCEPT !.at = at].index = 1
<1>1. 1 \in Workers
  BY WorkersAssumption DEF Workers
<1> QED
  BY <1>1 DEF Asleep, WorkerType, NoResult, Result, ResultType, Sources

LEMMA InitInv ==
  ASSUME Init
  PROVE  IInv
<1>1. urls \in Seq(Urls) /\ unique = Unique(urls)
  BY ConfiguredAssumption DEF Init
<1>2. unique \in Seq(Urls) /\ Len(unique) \in Nat
  BY <1>1, UniqueProps
<1>3. \A w \in Workers : worker[w].at = "gone"
  BY DEF Init, Asleep
<1>4. TypeOK
  <2>1. worker \in [Workers -> WorkerType] /\ got \in [Urls -> ResultType]
    BY AsleepType DEF Init
  <2>2. observations \in Seq(ObservationType)
    <3>1. Disabled \in ObservationType
      BY DEF ObservationType
    <3>2. observations = <<Disabled>> \/ observations = <<>>
      BY DEF Init
    <3>3. <<Disabled>> \in Seq(ObservationType) /\ <<>> \in Seq(ObservationType)
      BY <3>1
    <3> QED
      BY <3>2, <3>3
  <2>3. nextIdx \in 1 .. (2 * MAX_WORKERS + 1)
    BY WorkersAssumption DEF Init
  <2>4. results \in Seq(DOMAIN chunk) /\ pending \in Seq(Urls) /\ aggregate \subseteq Nets
    BY DEF Init
  <2>5. first \in 0 .. Len(unique)
    BY <1>2 DEF Init
  <2>6. urls \in Configured /\ cpus \in Cpus /\ cache \in [Urls -> Cache] /\ cancelled = FALSE
        /\ pc = "chunk" /\ outcome = "none"
    BY DEF Init
  <2> QED
    BY <1>2, <1>3, <2>1, <2>2, <2>3, <2>4, <2>5, <2>6 DEF TypeOK, WorkerType, ResultType, ObservationType
<1>5. Control
  BY <1>3 DEF Init, Control, Gone
<1>6. Claims /\ Ordered /\ Fetched
  BY DEF Init, Claims, Ordered, Fetched, NoResult, Result
<1>7. Staged
  <2>1. Seen = 0
    BY DEF Seen, Init
  <2>2. UpTo(0) = {}
    BY DEF UpTo
  <2>3. HandsOver(0)
    BY DEF Init, HandsOver, ToSet
  <2>4. Collected(0)
    BY <2>2, <2>3 DEF Init, Collected
  <2> QED
    BY <1>2, <2>1, <2>4 DEF Init, Staged
<1> QED
  BY <1>1, <1>4, <1>5, <1>6, <1>7 DEF IInv

LEMMA StartChunkInv ==
  ASSUME IInv, StartChunk
  PROVE  IInv'
<1>1. /\ TypeOK /\ unique = Unique(urls) /\ Control /\ Claims /\ Fetched /\ Ordered /\ Staged
      /\ pc = "chunk" /\ first < Len(unique) /\ results = <<>> /\ outcome = "none" /\ Gone = Workers
  BY DEF IInv, Control, StartChunk
<1>2. /\ urls' = urls /\ unique' = unique /\ cpus' = cpus /\ cache' = cache /\ cancelled' = cancelled
      /\ first' = first /\ got' = got /\ observations' = observations /\ aggregate' = aggregate
      /\ pending' = pending
  BY DEF StartChunk, input
<1>3. chunk' = chunk /\ Size' = Size
  BY <1>2 DEF chunk, Size
<1>4. CASE cancelled
  <2>1. outcome' = "cancelled" /\ pc' = "done" /\ nextIdx' = nextIdx /\ worker' = worker /\ results' = results
    BY <1>4 DEF StartChunk, Return
  <2>2. TypeOK'
    BY <1>1, <1>2, <1>3, <2>1 DEF TypeOK
  <2>3. Control'
    BY <1>1, <2>1 DEF Control, Gone
  <2>4. Claims' /\ Ordered'
    BY <2>1 DEF Claims, Ordered
  <2>5. Fetched'
    BY <1>1, <1>2, <2>1 DEF Fetched
  <2>6. Staged'
    BY <2>1 DEF Staged
  <2> QED
    BY <1>1, <1>2, <2>2, <2>3, <2>4, <2>5, <2>6 DEF IInv
<1>5. CASE ~ cancelled
  <2> DEFINE at(w) == IF w <= WorkerCount(Len(chunk)) THEN "check" ELSE "gone"
  <2>1. /\ pc' = "join" /\ nextIdx' = 1 /\ results' = <<>> /\ outcome' = outcome
        /\ worker' = [w \in Workers |-> [Asleep EXCEPT !.at = at(w)]]
    BY <1>5 DEF StartChunk
  <2>2. \A w \in Workers : /\ worker'[w] \in WorkerType /\ worker'[w].at = at(w)
                           /\ worker'[w].index = 1 /\ worker'[w].at \in {"check", "gone"}
    BY <2>1, AsleepType
  <2>3. unique \in Seq(Urls) /\ first \in 0 .. Len(unique)
    BY <1>1 DEF TypeOK
  <2>4. Size \in Nat \ {0} /\ DOMAIN chunk = 1 .. Size
    BY <1>1, <2>3, Chunks
  <2>5. worker'[1].at = "check"
    <3>1. cpus \in Nat \ {0} /\ MAX_WORKERS \in Nat \ {0} /\ Len(chunk) \in Nat \ {0}
      BY <1>1, <2>4, CpusAssumption, WorkersAssumption DEF TypeOK, Size
    <3>2. 1 <= WorkerCount(Len(chunk))
      BY <3>1 DEF WorkerCount, Least
    <3> QED
      BY <2>2, <3>2, AsleepType
  <2>6. TypeOK'
    <3>1. worker' \in [Workers -> WorkerType]
      BY <2>1, <2>2
    <3>2. (\A w \in Workers : worker[w].at # "gone" => worker[w].index \in DOMAIN chunk)'
      BY <1>3, <2>2, <2>4
    <3>3. nextIdx' \in 1 .. (2 * MAX_WORKERS + 1)
      BY <2>1, WorkersAssumption
    <3>4. results' \in Seq(DOMAIN chunk)'
      BY <2>1
    <3> QED
      BY <1>1, <1>2, <2>1, <3>1, <3>2, <3>3, <3>4 DEF TypeOK, WorkerType
  <2>7. Control'
    BY <1>1, <1>2, <2>1 DEF Control
  <2>8. \A w \in Workers : ~ Busy(w)'
    BY <2>2 DEF Busy
  <2>9. Claims'
    <3>1. Cardinality(Gone)' \in Nat
      <4>1. Gone' \in SUBSET Workers
        BY DEF Gone
      <4> QED
        BY <4>1, WorkersFinite, WorkersAssumption
    <3>2. nextIdx' <= Size' + 1 + Cardinality(Gone)'
      BY <1>3, <2>1, <2>4, <3>1
    <3> QED
      BY <1>3, <2>1, <2>4, <2>5, <2>8, <3>2 DEF Claims
  <2>10. Fetched' /\ Ordered'
    BY <1>1, <1>2, <2>1, <2>2 DEF Fetched, Ordered
  <2>11. Staged'
    <3>1. PICK k \in 0 .. Len(unique) : k = Seen /\ Collected(k)
      BY <1>1 DEF Staged
    <3>2. Collected(k)'
      BY <1>2, <3>1, CollectedFrame
    <3>3. Seen' = k
      BY <1>1, <1>2, <2>1, <3>1 DEF Seen
    <3> QED
      BY <1>1, <1>2, <2>1, <3>2, <3>3 DEF Staged
  <2> QED
    BY <1>1, <1>2, <2>6, <2>7, <2>9, <2>10, <2>11 DEF IInv
<1> QED
  BY <1>4, <1>5

LEMMA JoinInv ==
  ASSUME IInv, Join
  PROVE  IInv'
<1>1. /\ TypeOK /\ unique = Unique(urls) /\ Control /\ Claims /\ Fetched /\ Ordered /\ Staged
      /\ pc = "join" /\ first < Len(unique) /\ outcome = "none" /\ Gone = Workers
  BY DEF IInv, Control, Join, Gone
<1>2. /\ urls' = urls /\ unique' = unique /\ cpus' = cpus /\ cache' = cache /\ cancelled' = cancelled
      /\ first' = first /\ nextIdx' = nextIdx /\ worker' = worker /\ got' = got
      /\ observations' = observations /\ aggregate' = aggregate /\ pending' = pending
  BY DEF Join, input
<1>3. chunk' = chunk /\ Size' = Size
  BY <1>2 DEF chunk, Size
<1>4. CASE cancelled
  <2>1. outcome' = "cancelled" /\ pc' = "done" /\ results' = results
    BY <1>4 DEF Join, Return
  <2>2. TypeOK'
    BY <1>1, <1>2, <1>3, <2>1 DEF TypeOK
  <2>3. Control'
    BY <1>1, <1>2, <2>1 DEF Control, Gone
  <2>4. Claims' /\ Ordered'
    BY <2>1 DEF Claims, Ordered
  <2>5. Fetched'
    BY <1>1, <1>2, <2>1 DEF Fetched
  <2>6. Staged'
    BY <2>1 DEF Staged
  <2> QED
    BY <1>1, <1>2, <2>2, <2>3, <2>4, <2>5, <2>6 DEF IInv
<1>5. CASE ~ cancelled
  <2>1. pc' = "collect" /\ results' = SortByIndex(results) /\ outcome' = outcome
    BY <1>5 DEF Join
  <2>2. unique \in Seq(Urls) /\ first \in 0 .. Len(unique) /\ results \in Seq(DOMAIN chunk)
    BY <1>1 DEF TypeOK
  <2>3. Size \in Nat \ {0} /\ DOMAIN chunk = 1 .. Size
    BY <1>1, <2>2, Chunks
  <2>4. nextIdx > Size /\ \A w \in Workers : ~ Busy(w)
    BY <1>1, <1>5, AsleepType DEF Claims, Gone, Busy
  <2>5. \A k \in 1 .. Size : \E i \in DOMAIN results : results[i] = k
    <3>1. nextIdx \in Nat
      BY <1>1 DEF TypeOK
    <3>2. \A k \in 1 .. Size : k < nextIdx
      BY <2>3, <2>4, <3>1
    <3> QED
      BY <1>1, <2>4, <3>2 DEF Claims
  <2>6. \A i, j \in DOMAIN results : results[i] = results[j] => i = j
    BY <1>1 DEF Claims
  <2>7. results' = [i \in 1 .. Size |-> i]
    BY <2>1, <2>2, <2>3, <2>5, <2>6, SortedPositions
  <2>8. results' \in Seq(1 .. Size) /\ Len(results') = Size
    BY <2>3, <2>7
  <2>9. TypeOK'
    BY <1>1, <1>2, <1>3, <2>1, <2>3, <2>8 DEF TypeOK
  <2>10. Control'
    BY <1>1, <1>2, <2>1 DEF Control, Gone
  <2>11. Claims'
    BY <2>1 DEF Claims
  <2>12. Ordered'
    BY <1>3, <2>3, <2>7, <2>8 DEF Ordered
  <2>13. Fetched'
    <3>1. \A k \in 1 .. Size : got[chunk[k]].kind # "none"
      BY <1>1, <2>5 DEF Fetched
    <3>2. \A u \in Urls : ~ got[u].cut
      BY <1>1, <1>5 DEF Fetched
    <3> QED
      BY <1>2, <1>3, <2>1, <3>1, <3>2 DEF Fetched
  <2>14. Staged'
    <3>1. PICK k \in 0 .. Len(unique) : k = Seen /\ Collected(k)
      BY <1>1 DEF Staged
    <3>2. Collected(k)'
      BY <1>2, <3>1, CollectedFrame
    <3>3. Seen' = k
      BY <1>1, <1>2, <1>3, <2>1, <2>2, <2>3, <2>8, <3>1 DEF Seen
    <3> QED
      BY <1>1, <1>2, <2>1, <3>2, <3>3 DEF Staged
  <2> QED
    BY <1>1, <1>2, <2>9, <2>10, <2>11, <2>12, <2>13, <2>14 DEF IInv
<1> QED
  BY <1>4, <1>5

\* One more feed that has been looked at.
LEMMA HandOver ==
  ASSUME IInv, NEW k \in Nat, k + 1 \in 1 .. Len(unique), HandsOver(k),
         UNCHANGED <<unique, got>>,
         pending' = IF got[unique[k + 1]].source = "network" THEN Append(pending, unique[k + 1])
                                                             ELSE pending
  PROVE  HandsOver(k + 1)'
<1> DEFINE Net(q) == got[unique[q]].source = "network"
           staged(m) == {unique[p] : p \in {q \in 1 .. m : Net(q)}}
           new == unique[k + 1]
<1>1. /\ \A i, j \in 1 .. Len(unique) : unique[i] = unique[j] => i = j
      /\ new \in Urls /\ Len(unique) \in Nat
  BY Feeds
<1>2. pending \in Seq(Urls) /\ DOMAIN pending = 1 .. Len(pending) /\ Len(pending) \in Nat
  BY DEF IInv, TypeOK
<1>3. ToSet(pending) = staged(k)
  BY DEF HandsOver
<1>4. \A i, j \in DOMAIN pending, p, q \in 1 .. k :
        pending[i] = unique[p] /\ pending[j] = unique[q] => (i < j <=> p < q)
  BY DEF HandsOver
<1>5. 1 .. (k + 1) = (1 .. k) \cup {k + 1} /\ k + 1 \notin 1 .. k /\ 1 .. k \subseteq 1 .. Len(unique)
  OBVIOUS
<1>6. \A i \in DOMAIN pending : pending[i] # new
  <2> SUFFICES ASSUME NEW i \in DOMAIN pending, pending[i] = new PROVE FALSE
    OBVIOUS
  <2>1. new \in ToSet(pending)
    BY DEF ToSet
  <2>2. PICK p \in 1 .. k : new = unique[p]
    BY <1>3, <2>1
  <2> QED
    BY <1>1, <1>5, <2>2
<1>7. unique' = unique /\ got' = got
  OBVIOUS
<1>8. CASE ~ Net(k + 1)
  <2>1. pending' = pending
    BY <1>8
  <2>2. {q \in 1 .. (k + 1) : Net(q)} = {q \in 1 .. k : Net(q)}
    BY <1>5, <1>8
  <2>3. staged(k + 1) = staged(k)
    BY <2>2
  <2>4. \A i \in DOMAIN pending : pending[i] # unique[k + 1]
    BY <1>6
  <2>5. \A i, j \in DOMAIN pending, p, q \in 1 .. (k + 1) :
          pending[i] = unique[p] /\ pending[j] = unique[q] => (i < j <=> p < q)
    BY <1>4, <1>5, <2>4
  <2> QED
    BY <1>3, <1>7, <2>1, <2>3, <2>5 DEF HandsOver
<1>9. CASE Net(k + 1)
  <2> DEFINE t == Append(pending, new)
  <2>1. pending' = t
    BY <1>9
  <2>2. /\ t \in Seq(Urls) /\ DOMAIN t = 1 .. (Len(pending) + 1) /\ t[Len(pending) + 1] = new
        /\ \A i \in 1 .. Len(pending) : t[i] = pending[i]
    BY <1>1, <1>2
  <2> HIDE DEF t
  <2>3. {q \in 1 .. (k + 1) : Net(q)} = {q \in 1 .. k : Net(q)} \cup {k + 1}
    BY <1>5, <1>9
  <2>4. staged(k + 1) = staged(k) \cup {new}
    BY <2>3
  <2>5. ToSet(t) = ToSet(pending) \cup {new}
    BY <1>2, <2>2 DEF ToSet
  <2>6. ASSUME NEW i \in DOMAIN t, NEW j \in DOMAIN t, NEW p \in 1 .. (k + 1), NEW q \in 1 .. (k + 1),
               t[i] = unique[p], t[j] = unique[q]
        PROVE  i < j <=> p < q
    <3>1. \A a \in DOMAIN t, b \in 1 .. (k + 1) :
            t[a] = unique[b] => (a = Len(pending) + 1 <=> b = k + 1)
      <4> SUFFICES ASSUME NEW a \in DOMAIN t, NEW b \in 1 .. (k + 1), t[a] = unique[b]
                   PROVE  a = Len(pending) + 1 <=> b = k + 1
        OBVIOUS
      <4>1. CASE a = Len(pending) + 1
        BY <1>1, <1>5, <2>2, <4>1
      <4>2. CASE a # Len(pending) + 1
        <5>1. a \in 1 .. Len(pending) /\ t[a] = pending[a]
          BY <1>2, <2>2, <4>2
        <5>2. unique[b] # new
          BY <1>2, <1>6, <5>1
        <5> QED
          BY <4>2, <5>2
      <4> QED
        BY <4>1, <4>2
    <3>2. CASE i = Len(pending) + 1
      <4>1. p = k + 1
        BY <2>6, <3>1, <3>2
      <4> QED
        BY <1>2, <2>2, <3>2, <4>1
    <3>3. CASE i # Len(pending) + 1 /\ j = Len(pending) + 1
      <4>1. q = k + 1 /\ p # k + 1
        BY <2>6, <3>1, <3>3
      <4> QED
        BY <1>2, <2>2, <3>3, <4>1
    <3>4. CASE i # Len(pending) + 1 /\ j # Len(pending) + 1
      <4>1. q # k + 1 /\ p # k + 1
        BY <2>6, <3>1, <3>4
      <4>2. i \in DOMAIN pending /\ j \in DOMAIN pending /\ t[i] = pending[i] /\ t[j] = pending[j]
        BY <1>2, <2>2, <3>4
      <4>3. p \in 1 .. k /\ q \in 1 .. k
        BY <1>5, <4>1
      <4> QED
        BY <1>4, <2>6, <4>2, <4>3
    <3> QED
      BY <3>2, <3>3, <3>4
  <2>7. ToSet(t) = staged(k + 1)
    BY <1>3, <2>4, <2>5
  <2> QED
    BY <1>7, <2>1, <2>6, <2>7 DEF HandsOver
<1> QED
  BY <1>8, <1>9

LEMMA FailedFrame ==
  ASSUME NEW error, Failed(error), UNCHANGED <<unique, got>>
  PROVE  Failed(error)'
<1>1. unique' = unique /\ got' = got
  OBVIOUS
<1>2. \A k : UpTo(k)' = UpTo(k)
  BY <1>1 DEF UpTo
<1>3. \A k, e : Fails(k, e)' <=> Fails(k, e)
  BY <1>1, <1>2 DEF Fails
<1> QED
  BY <1>1, <1>3 DEF Failed

\* The feed that is looked at is the next one.
LEMMA NextResult ==
  ASSUME IInv, Collect
  PROVE  \E k \in Nat :
           /\ k = Seen /\ Collected(k) /\ k + 1 \in 1 .. Len(unique)
           /\ chunk[Head(results)] = unique[k + 1] /\ unique[k + 1] \in Urls
           /\ got[unique[k + 1]].kind # "none"
           /\ k = first + Size - Len(results) /\ Len(results) \in 1 .. Size
           /\ aggregate \cup got[unique[k + 1]].networks = UpTo(k + 1)
           /\ \A i \in 1 .. k, e \in {"staging", "budget"} : ~ Fails(i, e)
<1>1. pc = "collect" /\ results # <<>>
  BY DEF Collect
<1>2. unique \in Seq(Urls) /\ first \in 0 .. Len(unique) /\ results \in Seq(DOMAIN chunk)
  BY DEF IInv, TypeOK
<1>3. /\ Size \in 0 .. MAX_WORKERS /\ first + Size \in 0 .. Len(unique) /\ first \in Nat
      /\ DOMAIN chunk = 1 .. Size
      /\ \A j \in 1 .. Size : chunk[j] = unique[first + j] /\ chunk[j] \in Urls
  BY <1>2, Chunks
<1>4. Len(results) \in 1 .. Size /\ Len(results) \in Nat /\ Head(results) = Size - Len(results) + 1
  <2>1. Len(results) \in Nat \ {0} /\ 1 \in DOMAIN results /\ Head(results) = results[1]
    BY <1>1, <1>2
  <2>2. Len(results) <= Size /\ results[1] = Size - Len(results) + 1
    BY <1>1, <2>1 DEF IInv, Ordered
  <2>3. Size \in Nat
    BY <1>3, WorkersAssumption
  <2> QED
    BY <2>1, <2>2, <2>3
<1>5. PICK k \in 0 .. Len(unique) : k = Seen /\ Collected(k)
  BY <1>1 DEF IInv, Staged
<1>6. k = first + Size - Len(results) /\ Size \in Nat /\ k \in Nat
  BY <1>1, <1>3, <1>5, WorkersAssumption DEF Seen
<1> DEFINE h == Size - Len(results) + 1
<1>7. h \in 1 .. Size /\ first + h = k + 1 /\ k + 1 \in 1 .. Len(unique)
  BY <1>3, <1>4, <1>6
<1>8. chunk[h] = unique[k + 1] /\ unique[k + 1] \in Urls /\ got[unique[k + 1]].kind # "none"
  <2>1. got[chunk[h]].kind # "none"
    BY <1>1, <1>7 DEF IInv, Fetched
  <2> QED
    BY <1>3, <1>7, <2>1
<1>9. aggregate \cup got[unique[k + 1]].networks = UpTo(k + 1)
  <2>1. aggregate = UpTo(k)
    BY <1>5 DEF Collected
  <2>2. 1 .. (k + 1) = (1 .. k) \cup {k + 1}
    BY <1>6
  <2> QED
    BY <2>1, <2>2 DEF UpTo
<1>10. \A i \in 1 .. k, e \in {"staging", "budget"} : ~ Fails(i, e)
  BY <1>5 DEF Collected, Fails
<1> QED
  BY <1>4, <1>5, <1>6, <1>7, <1>8, <1>9, <1>10

LEMMA CollectInv ==
  ASSUME IInv, Collect
  PROVE  IInv'
<1>1. /\ TypeOK /\ unique = Unique(urls) /\ Control /\ Claims /\ Fetched /\ Ordered /\ Staged
      /\ pc = "collect" /\ outcome = "none" /\ Gone = Workers
  BY DEF IInv, Control, Collect
<1>2. /\ urls' = urls /\ unique' = unique /\ cpus' = cpus /\ cache' = cache /\ cancelled' = cancelled
      /\ first' = first /\ nextIdx' = nextIdx /\ worker' = worker /\ got' = got
  BY DEF Collect, input
<1>3. chunk' = chunk /\ Size' = Size
  BY <1>2 DEF chunk, Size
<1>4. PICK k \in Nat :
        /\ k = Seen /\ Collected(k) /\ k + 1 \in 1 .. Len(unique)
        /\ chunk[Head(results)] = unique[k + 1] /\ unique[k + 1] \in Urls
        /\ got[unique[k + 1]].kind # "none"
        /\ k = first + Size - Len(results) /\ Len(results) \in 1 .. Size
        /\ aggregate \cup got[unique[k + 1]].networks = UpTo(k + 1)
        /\ \A i \in 1 .. k, e \in {"staging", "budget"} : ~ Fails(i, e)
  BY NextResult
<1> DEFINE u == unique[k + 1]
           r == got[u]
<1>5. r \in ResultType /\ observations \in Seq(ObservationType) /\ results \in Seq(DOMAIN chunk)
  BY <1>1, <1>4 DEF TypeOK, ResultType, ObservationType
<1>6. unique \in Seq(Urls) /\ first \in 0 .. Len(unique)
  BY <1>1 DEF TypeOK
<1>7. Size \in Nat /\ first + Size \in 0 .. Len(unique) /\ first \in Nat /\ DOMAIN chunk = 1 .. Size
  BY <1>6, Chunks, WorkersAssumption
<1> DEFINE seen == Append(observations, [url |-> u, source |-> r.source])
<1>8. seen \in Seq(ObservationType)
  BY <1>4, <1>5 DEF ResultType, ObservationType
<1>9. CASE r.kind = "hard" \/ OverBudget(UpTo(k + 1))
  <2>1. /\ pc' = "done" /\ results' = results /\ aggregate' = aggregate /\ pending' = pending
        /\ observations' \in {observations, seen}
        /\ \/ r.kind = "hard" /\ outcome' = "staging"
           \/ r.kind # "hard" /\ OverBudget(UpTo(k + 1)) /\ outcome' = "budget"
    BY <1>4, <1>9 DEF Collect, Return
  <2>2. TypeOK'
    <3>1. observations' \in Seq(ObservationType)
      BY <1>5, <1>8, <2>1
    <3>2. outcome' \in {"staging", "budget"}
      BY <2>1
    <3> QED
      BY <1>1, <1>2, <1>3, <2>1, <3>1, <3>2 DEF TypeOK, ObservationType
  <2>3. Control'
    BY <1>1, <1>2, <2>1 DEF Control, Gone
  <2>4. Claims' /\ Ordered'
    BY <2>1 DEF Claims, Ordered
  <2>5. Fetched'
    BY <1>1, <1>2, <2>1 DEF Fetched
  <2>6. Staged'
    <3>1. Fails(k + 1, outcome')
      BY <2>1 DEF Fails, OverBudget
    <3>2. k + 1 \in DOMAIN unique /\ (k + 1) - 1 = k
      BY <1>4, <1>6
    <3>3. Failed(outcome')
      BY <1>4, <3>1, <3>2 DEF Failed
    <3>4. PICK e \in {"staging", "budget"} : e = outcome'
      BY <2>1
    <3>5. Failed(e)'
      BY <1>2, <3>3, <3>4, FailedFrame
    <3> QED
      BY <2>1, <3>4, <3>5 DEF Staged
  <2> QED
    BY <1>1, <1>2, <2>2, <2>3, <2>4, <2>5, <2>6 DEF IInv
<1>10. CASE r.kind # "hard" /\ ~ OverBudget(UpTo(k + 1))
  <2>1. /\ pc' = pc /\ outcome' = outcome /\ results' = Tail(results) /\ observations' = seen
        /\ aggregate' = UpTo(k + 1)
        /\ pending' = IF r.source = "network" THEN Append(pending, u) ELSE pending
    BY <1>4, <1>10 DEF Collect, Return
  <2>2. /\ results' \in Seq(DOMAIN chunk) /\ Len(results') = Len(results) - 1
        /\ \A i \in 1 .. (Len(results) - 1) : results'[i] = results[i + 1]
        /\ DOMAIN results' = 1 .. (Len(results) - 1)
    BY <1>4, <1>5, <2>1
  <2>3. pending' \in Seq(Urls)
    BY <1>1, <1>4, <2>1 DEF TypeOK
  <2>4. aggregate' \subseteq Nets
    BY <1>1, <1>4, <1>5, <2>1 DEF TypeOK, ResultType
  <2>5. TypeOK'
    <3>1. observations' \in Seq(ObservationType)
      BY <1>8, <2>1
    <3> QED
      BY <1>1, <1>2, <1>3, <2>1, <2>2, <2>3, <2>4, <3>1 DEF TypeOK, ObservationType
  <2>6. Control'
    BY <1>1, <1>2, <2>1 DEF Control, Gone
  <2>7. Claims'
    BY <1>1, <2>1 DEF Claims
  <2>8. Ordered'
    <3>1. \A i \in DOMAIN results : results[i] = Size - Len(results) + i
      BY <1>1 DEF Ordered
    <3>2. \A i \in 1 .. (Len(results) - 1) : results'[i] = Size - (Len(results) - 1) + i
      <4> SUFFICES ASSUME NEW i \in 1 .. (Len(results) - 1)
                   PROVE  results'[i] = Size - (Len(results) - 1) + i
        OBVIOUS
      <4>1. Len(results) \in Nat /\ DOMAIN results = 1 .. Len(results)
        BY <1>5
      <4>2. i + 1 \in DOMAIN results
        BY <4>1
      <4>3. results'[i] = Size - Len(results) + (i + 1)
        BY <2>2, <3>1, <4>2
      <4> QED
        BY <1>7, <4>1, <4>3
    <3> QED
      BY <1>3, <1>4, <1>7, <2>2, <3>2 DEF Ordered
  <2>9. Fetched'
    BY <1>1, <1>2, <1>3, <2>1 DEF Fetched
  <2>10. Collected(k + 1)'
    <3>1. 1 .. (k + 1) = (1 .. k) \cup {k + 1} /\ k + 1 \notin 1 .. k
      BY <1>4
    <3>2. \A j : UpTo(j)' = UpTo(j)
      BY <1>2 DEF UpTo
    <3>3. HandsOver(k + 1)'
      BY <1>2, <1>4, <2>1, HandOver DEF Collected
    <3>4. unique # <<>>
      BY <1>4
    <3>5. Len(observations) = k /\ \A i \in 1 .. k : observations[i].url = unique[i]
      BY <1>4, <3>4 DEF Collected
    <3>6. Len(seen) = k + 1 /\ \A i \in 1 .. (k + 1) : seen[i].url = unique[i]
      BY <1>4, <1>5, <3>5
    <3>7. \A i \in 1 .. (k + 1) :
            got[unique[i]].kind \notin {"none", "hard"} /\ ~ Cardinality(UpTo(i)) > AggregateLimit
      BY <1>4, <1>10, <3>1 DEF Collected, OverBudget
    <3> HIDE DEF seen
    <3>8. (\A i \in 1 .. (k + 1) :
             got[unique[i]].kind \notin {"none", "hard"} /\ ~ Cardinality(UpTo(i)) > AggregateLimit)'
      BY <1>2, <3>2, <3>7
    <3> QED
      BY <1>2, <2>1, <3>2, <3>3, <3>6, <3>8 DEF Collected
  <2>11. Staged'
    <3>1. Seen' = k + 1
      BY <1>1, <1>2, <1>3, <1>4, <1>7, <2>1, <2>2 DEF Seen
    <3>2. k + 1 \in 0 .. Len(unique')
      BY <1>2, <1>4
    <3> QED
      BY <1>1, <2>1, <2>10, <3>1, <3>2 DEF Staged
  <2> QED
    BY <1>1, <1>2, <2>5, <2>6, <2>7, <2>8, <2>9, <2>11 DEF IInv
<1> QED
  BY <1>9, <1>10

LEMMA NextChunkInv ==
  ASSUME IInv, NextChunk
  PROVE  IInv'
<1>1. /\ TypeOK /\ unique = Unique(urls) /\ Control /\ Fetched /\ Staged
      /\ pc = "collect" /\ pc' = "chunk" /\ outcome = "none" /\ results = <<>> /\ Gone = Workers
  BY DEF IInv, Control, NextChunk
<1>2. /\ urls' = urls /\ unique' = unique /\ cpus' = cpus /\ cache' = cache /\ cancelled' = cancelled
      /\ first' = first + Size /\ nextIdx' = nextIdx /\ worker' = worker /\ got' = got /\ results' = results
      /\ observations' = observations /\ aggregate' = aggregate /\ pending' = pending
      /\ outcome' = outcome
  BY DEF NextChunk, input, collected, Size
<1>3. unique \in Seq(Urls) /\ first \in 0 .. Len(unique)
  BY <1>1 DEF TypeOK
<1>4. first + Size \in 0 .. Len(unique) /\ first \in Nat /\ Size \in Nat
  BY <1>3, Chunks, WorkersAssumption
<1>5. \A w \in Workers : worker[w].at = "gone"
  BY <1>1 DEF Gone
<1>6. TypeOK'
  <2>1. results' \in Seq(DOMAIN chunk')
    BY <1>1, <1>2
  <2> QED
    BY <1>1, <1>2, <1>4, <1>5, <2>1 DEF TypeOK
<1>7. Control' /\ Claims' /\ Ordered' /\ Fetched'
  BY <1>1, <1>2 DEF Control, Claims, Ordered, Fetched, Gone
<1>8. Staged'
  <2>1. PICK k \in 0 .. Len(unique) : k = Seen /\ Collected(k)
    BY <1>1 DEF Staged
  <2>2. Collected(k)'
    BY <1>2, <2>1, CollectedFrame
  <2>3. Seen' = k
    <3>1. Len(results) = 0
      BY <1>1
    <3> QED
      BY <1>1, <1>2, <1>4, <2>1, <3>1 DEF Seen
  <2> QED
    BY <1>1, <1>2, <2>2, <2>3 DEF Staged
<1> QED
  BY <1>1, <1>2, <1>6, <1>7, <1>8 DEF IInv

LEMMA FinishInv ==
  ASSUME IInv, Finish
  PROVE  IInv'
<1>1. /\ TypeOK /\ unique = Unique(urls) /\ Control /\ Fetched /\ Staged
      /\ pc = "chunk" /\ pc' = "done" /\ outcome' = "ok" /\ results = <<>> /\ Gone = Workers
      /\ first = Len(unique)
  BY DEF IInv, Control, Finish, Return
<1>2. /\ urls' = urls /\ unique' = unique /\ cpus' = cpus /\ cache' = cache /\ cancelled' = cancelled
      /\ first' = first /\ nextIdx' = nextIdx /\ worker' = worker /\ got' = got /\ results' = results
      /\ observations' = observations /\ aggregate' = aggregate /\ pending' = pending
  BY DEF Finish, input
<1>3. chunk' = chunk
  BY <1>2 DEF chunk
<1>4. TypeOK'
  BY <1>1, <1>2, <1>3 DEF TypeOK
<1>5. Control' /\ Claims' /\ Ordered' /\ Fetched'
  BY <1>1, <1>2 DEF Control, Claims, Ordered, Fetched, Gone
<1>6. Staged'
  <2>1. PICK k \in 0 .. Len(unique) : k = Seen /\ Collected(k)
    BY <1>1 DEF Staged
  <2>2. Collected(k)'
    BY <1>2, <2>1, CollectedFrame
  <2>3. Seen' = k
    BY <1>1, <1>2, <2>1 DEF Seen
  <2> QED
    BY <1>1, <1>2, <2>2, <2>3 DEF Staged
<1> QED
  BY <1>1, <1>2, <1>4, <1>5, <1>6 DEF IInv

LEMMA CancelInv ==
  ASSUME IInv, Cancel
  PROVE  IInv'
<1>1. /\ TypeOK /\ unique = Unique(urls) /\ Control /\ Claims /\ Fetched /\ Ordered /\ Staged
      /\ pc # "done" /\ outcome = "none" /\ cancelled = FALSE /\ cancelled' = TRUE
  BY DEF IInv, Control, Cancel
<1>2. /\ urls' = urls /\ unique' = unique /\ cpus' = cpus /\ cache' = cache /\ pc' = pc
      /\ first' = first /\ nextIdx' = nextIdx /\ worker' = worker /\ got' = got /\ results' = results
      /\ observations' = observations /\ aggregate' = aggregate /\ pending' = pending
      /\ outcome' = outcome
  BY DEF Cancel, input, collected
<1>3. chunk' = chunk /\ Size' = Size /\ Gone' = Gone /\ \A w \in Workers : Busy(w)' <=> Busy(w)
  BY <1>2 DEF chunk, Size, Gone, Busy
<1>4. TypeOK'
  BY <1>1, <1>2, <1>3 DEF TypeOK
<1>5. Control'
  BY <1>1, <1>2, <1>3 DEF Control
<1>6. Claims'
  BY <1>1, <1>2, <1>3 DEF Claims
<1>7. Fetched'
  BY <1>1, <1>2, <1>3 DEF Fetched, Feed
<1>8. Ordered'
  BY <1>1, <1>2, <1>3 DEF Ordered
<1>9. Staged'
  <2>1. PICK k \in 0 .. Len(unique) : k = Seen /\ Collected(k)
    BY <1>1 DEF Staged
  <2>2. Collected(k)'
    BY <1>2, <2>1, CollectedFrame
  <2>3. Seen' = k
    BY <1>2, <1>3, <2>1 DEF Seen
  <2> QED
    BY <1>1, <1>2, <2>2, <2>3 DEF Staged
<1> QED
  BY <1>1, <1>2, <1>4, <1>5, <1>6, <1>7, <1>8, <1>9 DEF IInv

-----------------------------------------------------------------------------
(***************************************************************************)
(* The workers.                                                            *)
(***************************************************************************)
\* What a worker leaves alone.
LEMMA WorkerFrame ==
  ASSUME IInv, pc = "join", UNCHANGED workerFrame
  PROVE  /\ urls' = urls /\ unique' = unique /\ cpus' = cpus /\ cache' = cache
         /\ cancelled' = cancelled /\ pc' = "join" /\ first' = first
         /\ observations' = observations /\ aggregate' = aggregate /\ pending' = pending
         /\ outcome' = outcome /\ outcome = "none"
         /\ chunk' = chunk /\ Size' = Size /\ first < Len(unique)
         /\ TypeOK /\ unique = Unique(urls) /\ Claims /\ Fetched
         /\ unique \in Seq(Urls) /\ first \in 0 .. Len(unique)
<1>1. /\ urls' = urls /\ unique' = unique /\ cpus' = cpus /\ cache' = cache
      /\ cancelled' = cancelled /\ pc' = "join" /\ first' = first
      /\ observations' = observations /\ aggregate' = aggregate /\ pending' = pending
      /\ outcome' = outcome
  BY DEF workerFrame, input, collected
<1>2. chunk' = chunk /\ Size' = Size
  BY <1>1 DEF chunk, Size
<1>3. outcome = "none" /\ first < Len(unique)
  BY DEF IInv, Control
<1> QED
  BY <1>1, <1>2, <1>3 DEF IInv, TypeOK

\* The parts of the invariant that no worker disturbs.
LEMMA WorkerStep ==
  ASSUME IInv, pc = "join", UNCHANGED workerFrame,
         worker' \in [Workers -> WorkerType], got' \in [Urls -> ResultType],
         \A w \in Workers : worker'[w].at # "gone" => worker'[w].index \in DOMAIN chunk,
         results' \in Seq(DOMAIN chunk), nextIdx' \in 1 .. (2 * MAX_WORKERS + 1),
         Claims', Fetched',
         \A i \in 1 .. first : got'[unique[i]] = got[unique[i]]
  PROVE  IInv'
<1>1. /\ urls' = urls /\ unique' = unique /\ cpus' = cpus /\ cache' = cache
      /\ cancelled' = cancelled /\ pc' = "join" /\ first' = first
      /\ observations' = observations /\ aggregate' = aggregate /\ pending' = pending
      /\ outcome' = outcome /\ outcome = "none"
      /\ chunk' = chunk /\ Size' = Size /\ first < Len(unique)
      /\ TypeOK /\ unique = Unique(urls)
  BY WorkerFrame
<1>2. TypeOK'
  BY <1>1 DEF TypeOK, WorkerType, ResultType
<1>3. Control' /\ Ordered'
  BY <1>1 DEF Control, Ordered
<1>4. Staged'
  BY <1>1, StagedFrame
<1> QED
  BY <1>1, <1>2, <1>3, <1>4 DEF IInv

\* Nothing is fetched or pushed.
LEMMA FetchedFrame ==
  ASSUME IInv, pc = "join", UNCHANGED <<workerFrame, results, got>>,
         \A v \in Workers : worker'[v].at = "push" => worker[v].at = "push" /\ worker'[v] = worker[v]
  PROVE  Fetched'
<1>1. /\ cancelled' = cancelled /\ pc' = "join" /\ chunk' = chunk /\ Fetched
      /\ outcome' = "none" /\ results' = results /\ got' = got
  BY WorkerFrame
<1>2. \A v \in Workers : worker'[v].at = "push" => worker[v].at = "push" /\ Feed(v)' = Feed(v)
  BY <1>1 DEF Feed
<1>3. \A v \in Workers : worker'[v].at = "push" => got'[Feed(v)'].kind # "none"
  BY <1>1, <1>2 DEF Fetched
<1>4. \A i \in DOMAIN results : got'[chunk'[results[i]]].kind # "none"
  BY <1>1 DEF Fetched
<1>5. \A u \in Urls : got'[u].cut => cancelled'
  BY <1>1 DEF Fetched
<1> QED
  BY <1>1, <1>3, <1>4, <1>5 DEF Fetched

LEMMA CheckInv ==
  ASSUME IInv, pc = "join", NEW w \in Workers, Check(w)
  PROVE  IInv'
<1>1. /\ cancelled' = cancelled /\ pc' = "join" /\ first' = first
      /\ chunk' = chunk /\ Size' = Size /\ TypeOK /\ Claims /\ Fetched
      /\ unique \in Seq(Urls) /\ first \in 0 .. Len(unique) /\ first < Len(unique)
      /\ nextIdx' = nextIdx /\ results' = results /\ got' = got
      /\ worker[w].at = "check"
  BY WorkerFrame DEF Check
<1> DEFINE at == IF cancelled THEN "gone" ELSE "claim"
<1>2. worker \in [Workers -> WorkerType] /\ worker' = [worker EXCEPT ![w].at = at]
  BY <1>1 DEF Check, Goto, TypeOK, WorkerType
<1>3. /\ worker' \in [Workers -> WorkerType]
      /\ \A v \in Workers : worker'[v].index = worker[v].index
      /\ \A v \in Workers : v # w => worker'[v] = worker[v]
      /\ worker'[w].at = at
  BY <1>2 DEF WorkerType
<1> HIDE DEF at
<1>4. at \in {"gone", "claim"} /\ (at = "gone" => cancelled)
  BY DEF at
<1>5. \A v \in Workers : Busy(v)' <=> Busy(v)
  BY <1>1, <1>3, <1>4 DEF Busy
<1>6. Cardinality(Gone)' >= Cardinality(Gone) /\ Cardinality(Gone) \in Nat /\ Cardinality(Gone)' \in Nat
  <2>1. Gone \in SUBSET Gone' /\ Gone \in SUBSET Workers /\ Gone' \in SUBSET Workers
    BY <1>1, <1>3 DEF Gone
  <2>2. IsFiniteSet(Gone') /\ Cardinality(Gone') \in Nat /\ Cardinality(Gone) \in Nat
    BY <2>1, WorkersFinite, WorkersAssumption
  <2> QED
    BY <2>1, <2>2, FS_Subset
<1>7. nextIdx \in Nat /\ Size \in Nat
  BY <1>1, Chunks, WorkersAssumption DEF TypeOK
<1>8. Claims'
  <2>1. nextIdx' <= Size' + 1 + Cardinality(Gone)'
    BY <1>1, <1>6, <1>7 DEF Claims
  <2>2. 1 \in Workers
    BY AsleepType
  <2>3. worker'[1].at = "gone" /\ ~ cancelled' => nextIdx' > Size'
    BY <1>1, <1>3, <1>4, <2>2 DEF Claims
  <2> QED
    BY <1>1, <1>3, <1>5, <2>1, <2>3 DEF Claims
<1>9. UNCHANGED workerFrame
  BY DEF Check
<1>10. Fetched'
  <2>1. \A v \in Workers : worker'[v].at = "push" => worker[v].at = "push" /\ worker'[v] = worker[v]
    BY <1>3, <1>4
  <2> QED
    BY <1>1, <1>9, <2>1, FetchedFrame
<1>11. \A v \in Workers : worker'[v].at # "gone" => worker'[v].index \in DOMAIN chunk
  BY <1>1, <1>3 DEF TypeOK
<1>12. got' \in [Urls -> ResultType] /\ results' \in Seq(DOMAIN chunk) /\ nextIdx' \in 1 .. (2 * MAX_WORKERS + 1)
  BY <1>1 DEF TypeOK, ResultType
<1> QED
  BY <1>1, <1>3, <1>8, <1>10, <1>9, <1>11, <1>12, WorkerStep

LEMMA ClaimInv ==
  ASSUME IInv, pc = "join", NEW w \in Workers, Claim(w)
  PROVE  IInv'
<1>1. /\ cancelled' = cancelled /\ pc' = "join" /\ first' = first
      /\ chunk' = chunk /\ Size' = Size /\ TypeOK /\ Claims /\ Fetched
      /\ unique \in Seq(Urls) /\ first \in 0 .. Len(unique) /\ first < Len(unique)
      /\ nextIdx' = nextIdx + 1 /\ results' = results /\ got' = got
      /\ worker[w].at = "claim"
  BY WorkerFrame DEF Claim
<1>2. /\ worker \in [Workers -> WorkerType]
      /\ nextIdx \in 1 .. (2 * MAX_WORKERS + 1) /\ results \in Seq(DOMAIN chunk)
      /\ got \in [Urls -> ResultType]
      /\ \A v \in Workers : worker[v].at # "gone" => worker[v].index \in DOMAIN chunk
  BY <1>1 DEF TypeOK, WorkerType, ResultType
<1>3. /\ Size \in 0 .. MAX_WORKERS /\ Size \in Nat \ {0} /\ DOMAIN chunk = 1 .. Size
      /\ MAX_WORKERS \in Nat
  BY <1>1, Chunks, WorkersAssumption
<1>4. /\ Gone \in SUBSET Workers /\ IsFiniteSet(Gone) /\ Cardinality(Gone) \in 0 .. MAX_WORKERS
      /\ Gone' \in SUBSET Workers /\ Cardinality(Gone)' \in 0 .. MAX_WORKERS
  BY WorkersFinite DEF Gone
<1>5. UNCHANGED workerFrame
  BY DEF Claim
<1>6. ~ Busy(w)
  BY <1>1 DEF Busy
<1>7. CASE nextIdx <= Size
  <2> DEFINE new == [at |-> "read", index |-> nextIdx, body |-> {}]
  <2>1. worker' = [worker EXCEPT ![w] = new]
    BY <1>7 DEF Claim, Size
  <2>2. nextIdx \in 1 .. Size /\ nextIdx \in Workers /\ nextIdx \in Nat
    BY <1>2, <1>3, <1>7 DEF Workers
  <2>3. new \in WorkerType
    BY <2>2 DEF WorkerType
  <2>4. /\ worker' \in [Workers -> WorkerType]
        /\ worker'[w].at = "read" /\ worker'[w].index = nextIdx
        /\ \A v \in Workers : v # w => worker'[v] = worker[v]
    BY <1>2, <2>1, <2>3
  <2>5. Gone' = Gone
    BY <1>1, <2>4 DEF Gone
  <2>6. nextIdx' \in 1 .. (2 * MAX_WORKERS + 1)
    BY <1>1, <1>2, <1>3, <1>7
  <2>7. Busy(w)' /\ \A v \in Workers : v # w => (Busy(v)' <=> Busy(v))
    BY <2>4 DEF Busy
  <2>8. Claims'
    <3>1. nextIdx' <= Size' + 1 + Cardinality(Gone)'
      BY <1>1, <1>3, <1>4, <1>7, <2>2
    <3>2. \A v \in Workers : Busy(v) => worker[v].index < nextIdx
      BY <1>1 DEF Claims
    <3>3. \A i \in DOMAIN results : results[i] < nextIdx /\ results[i] \in Nat
      BY <1>1, <1>2, <1>3 DEF Claims
    <3>4. \A v \in Workers : Busy(v) => worker[v].index \in Nat
      BY <1>2, <1>3 DEF Busy
    <3>5. (\A u, v \in Workers : u # v /\ Busy(u) /\ Busy(v) => worker[u].index # worker[v].index)'
      <4> SUFFICES ASSUME NEW u \in Workers, NEW v \in Workers, u # v, Busy(u)', Busy(v)'
                   PROVE  worker'[u].index # worker'[v].index
        OBVIOUS
      <4>1. CASE u = w
        <5>1. Busy(v) /\ worker'[v] = worker[v] /\ worker'[u].index = nextIdx
          BY <2>4, <2>7, <4>1
        <5> QED
          BY <2>2, <3>2, <3>4, <5>1
      <4>2. CASE v = w
        <5>1. Busy(u) /\ worker'[u] = worker[u] /\ worker'[v].index = nextIdx
          BY <2>4, <2>7, <4>2
        <5> QED
          BY <2>2, <3>2, <3>4, <5>1
      <4>3. CASE u # w /\ v # w
        BY <1>1, <2>4, <2>7, <4>3 DEF Claims
      <4> QED
        BY <4>1, <4>2, <4>3
    <3>6. (\A v \in Workers : Busy(v) =>
             worker[v].index < nextIdx /\ \A i \in DOMAIN results : results[i] # worker[v].index)'
      <4> SUFFICES ASSUME NEW v \in Workers, Busy(v)'
                   PROVE  worker'[v].index < nextIdx' /\ \A i \in DOMAIN results : results[i] # worker'[v].index
        BY <1>1
      <4>1. CASE v = w
        BY <1>1, <2>2, <2>4, <3>3, <4>1
      <4>2. CASE v # w
        <5>1. Busy(v) /\ worker'[v] = worker[v]
          BY <2>4, <2>7, <4>2
        <5>2. \A i \in DOMAIN results : results[i] # worker[v].index
          BY <1>1, <5>1 DEF Claims
        <5> QED
          BY <1>1, <2>2, <3>2, <3>4, <5>1, <5>2
      <4> QED
        BY <4>1, <4>2
    <3>7. \A i \in DOMAIN results : results[i] < nextIdx'
      BY <1>1, <2>2, <3>3
    <3>8. \A i, j \in DOMAIN results : results[i] = results[j] => i = j
      BY <1>1 DEF Claims
    <3>9. \A k \in 1 .. Size : k < nextIdx' =>
            (\E i \in DOMAIN results : results[i] = k)
            \/ \E v \in Workers : Busy(v)' /\ worker'[v].index = k
      <4> SUFFICES ASSUME NEW k \in 1 .. Size, k < nextIdx', ~ \E i \in DOMAIN results : results[i] = k
                   PROVE  \E v \in Workers : Busy(v)' /\ worker'[v].index = k
        OBVIOUS
      <4>1. CASE k = nextIdx
        BY <2>4, <2>7, <4>1
      <4>2. CASE k # nextIdx
        <5>1. k < nextIdx
          BY <1>1, <2>2, <4>2
        <5>2. PICK v \in Workers : Busy(v) /\ worker[v].index = k
          BY <1>1, <5>1 DEF Claims
        <5>3. v # w
          BY <1>6, <5>2
        <5> QED
          BY <2>4, <2>7, <5>2, <5>3
      <4> QED
        BY <4>1, <4>2
    <3>10. worker'[1].at = "gone" /\ ~ cancelled' => nextIdx' > Size'
      <4>1. 1 \in Workers
        BY AsleepType
      <4>2. worker'[1].at = "gone" => worker[1].at = "gone"
        BY <2>4, <4>1
      <4> QED
        BY <1>1, <1>3, <1>7, <2>2, <4>2 DEF Claims
    <3> QED
      BY <1>1, <3>1, <3>5, <3>6, <3>7, <3>8, <3>9, <3>10 DEF Claims
  <2>9. Fetched'
    <3>1. \A v \in Workers : worker'[v].at = "push" => worker[v].at = "push" /\ worker'[v] = worker[v]
      BY <2>4
    <3> QED
      BY <1>1, <1>5, <3>1, FetchedFrame
  <2>10. \A v \in Workers : worker'[v].at # "gone" => worker'[v].index \in DOMAIN chunk
    BY <1>2, <1>3, <2>2, <2>4
  <2> QED
    BY <1>1, <1>2, <1>5, <2>4, <2>6, <2>8, <2>9, <2>10, WorkerStep
<1>8. CASE ~ nextIdx <= Size
  <2>1. worker' = [worker EXCEPT ![w].at = "gone"]
    BY <1>8 DEF Claim, Size, Goto
  <2>2. /\ worker' \in [Workers -> WorkerType]
        /\ worker'[w].at = "gone"
        /\ \A v \in Workers : v # w => worker'[v] = worker[v]
    BY <1>2, <2>1 DEF WorkerType
  <2>3. Gone' = Gone \cup {w} /\ w \notin Gone
    BY <1>1, <2>2 DEF Gone
  <2>4. Cardinality(Gone') = Cardinality(Gone) + 1
    BY <1>4, <2>3, FS_AddElement
  <2>5. nextIdx' <= Size + 1 + Cardinality(Gone')
    BY <1>1, <1>2, <1>3, <1>4, <2>4 DEF Claims
  <2>6. nextIdx' \in 1 .. (2 * MAX_WORKERS + 1)
    BY <1>1, <1>2, <1>3, <1>4, <2>5
  <2>7. \A v \in Workers : Busy(v)' <=> Busy(v) /\ v # w
    BY <1>6, <2>2 DEF Busy
  <2>8. \A v \in Workers : Busy(v)' => Busy(v) /\ worker'[v] = worker[v]
    BY <2>2, <2>7
  <2>9. \A v \in Workers : Busy(v) => Busy(v)' /\ worker'[v] = worker[v]
    BY <1>6, <2>2, <2>7
  <2>10. \A k \in Nat : k < nextIdx => k < nextIdx'
    BY <1>1, <1>2
  <2>11. Claims'
    <3>1. \A v \in Workers : Busy(v) => worker[v].index \in Nat /\ worker[v].index < nextIdx
      BY <1>1, <1>2, <1>3 DEF Claims, Busy
    <3>2. \A i \in DOMAIN results : results[i] < nextIdx /\ results[i] \in Nat
      BY <1>1, <1>2, <1>3 DEF Claims
    <3>3. \A k \in 1 .. Size : k < nextIdx
      BY <1>2, <1>3, <1>8
    <3>4. (\A u, v \in Workers : u # v /\ Busy(u) /\ Busy(v) => worker[u].index # worker[v].index)'
      BY <1>1, <2>8 DEF Claims
    <3>5. (\A v \in Workers : Busy(v) =>
             worker[v].index < nextIdx /\ \A i \in DOMAIN results : results[i] # worker[v].index)'
      BY <1>1, <2>8, <2>10, <3>1 DEF Claims
    <3>6. \A i \in DOMAIN results : results[i] < nextIdx'
      BY <2>10, <3>2
    <3>7. \A k \in 1 .. Size :
            (\E i \in DOMAIN results : results[i] = k)
            \/ \E v \in Workers : Busy(v)' /\ worker'[v].index = k
      BY <1>1, <2>9, <3>3 DEF Claims
    <3>8. nextIdx' > Size
      BY <1>1, <1>2, <1>3, <1>8
    <3>9. \A i, j \in DOMAIN results : results[i] = results[j] => i = j
      BY <1>1 DEF Claims
    <3> QED
      BY <1>1, <2>5, <3>4, <3>5, <3>6, <3>7, <3>8, <3>9 DEF Claims
  <2>12. Fetched'
    <3>1. \A v \in Workers : worker'[v].at = "push" => worker[v].at = "push" /\ worker'[v] = worker[v]
      BY <2>2
    <3> QED
      BY <1>1, <1>5, <3>1, FetchedFrame
  <2>13. \A v \in Workers : worker'[v].at # "gone" => worker'[v].index \in DOMAIN chunk
    BY <1>2, <2>2
  <2> QED
    BY <1>1, <1>2, <1>5, <2>2, <2>6, <2>11, <2>12, <2>13, WorkerStep
<1> QED
  BY <1>7, <1>8

\* A step of a fetch: the worker keeps its position, and a result it comes to is that
\* of its feed.
FetchStep(w) ==
  \E new \in WorkerType :
    /\ new.at \in {"ask", "askAgain", "stage", "push"} /\ new.index = worker[w].index
    /\ worker' = [worker EXCEPT ![w] = new]
    /\ \/ got' = got /\ new.at # "push"
       \/ \E r \in ResultType :
            /\ r.kind # "none" /\ (r.cut => cancelled)
            /\ got' = [got EXCEPT ![Feed(w)] = r]

LEMMA FetchInv ==
  ASSUME IInv, pc = "join", NEW w \in Workers, worker[w].at \in {"read", "ask", "askAgain", "stage"},
         UNCHANGED <<workerFrame, nextIdx, results>>, FetchStep(w)
  PROVE  IInv'
<1>1. /\ cancelled' = cancelled /\ pc' = "join" /\ first' = first /\ outcome' = "none"
      /\ chunk' = chunk /\ Size' = Size /\ TypeOK /\ Claims /\ Fetched
      /\ unique \in Seq(Urls) /\ first \in 0 .. Len(unique) /\ first < Len(unique)
      /\ nextIdx' = nextIdx /\ results' = results
  BY WorkerFrame
<1>2. /\ worker \in [Workers -> WorkerType]
      /\ nextIdx \in 1 .. (2 * MAX_WORKERS + 1) /\ results \in Seq(DOMAIN chunk)
      /\ got \in [Urls -> ResultType]
      /\ \A v \in Workers : worker[v].at # "gone" => worker[v].index \in DOMAIN chunk
  BY <1>1 DEF TypeOK, WorkerType, ResultType
<1>3. PICK new \in WorkerType :
        /\ new.at \in {"ask", "askAgain", "stage", "push"} /\ new.index = worker[w].index
        /\ worker' = [worker EXCEPT ![w] = new]
        /\ \/ got' = got /\ new.at # "push"
           \/ \E r \in ResultType :
                /\ r.kind # "none" /\ (r.cut => cancelled)
                /\ got' = [got EXCEPT ![Feed(w)] = r]
  BY DEF FetchStep
<1>4. /\ worker' \in [Workers -> WorkerType] /\ worker'[w] = new
      /\ \A v \in Workers : v # w => worker'[v] = worker[v]
      /\ \A v \in Workers : worker'[v].index = worker[v].index
      /\ \A v \in Workers : worker'[v].at = "gone" <=> worker[v].at = "gone"
      /\ \A v \in Workers : v # w => worker'[v].at = worker[v].at
  BY <1>2, <1>3
<1>5. /\ Feed(w) \in Urls /\ Feed(w) = unique[first + worker[w].index]
      /\ worker[w].index \in 1 .. Size /\ first + worker[w].index \in 1 .. Len(unique)
  BY FeedOf
<1>6. /\ got' \in [Urls -> ResultType]
      /\ \A u \in Urls : u # Feed(w) => got'[u] = got[u]
      /\ \A u \in Urls : got'[u].kind = "none" => got[u].kind = "none"
      /\ new.at = "push" => got'[Feed(w)].kind # "none"
      /\ \A u \in Urls : got'[u].cut => cancelled
  <2>1. \A u \in Urls : got[u].cut => cancelled
    BY <1>1 DEF Fetched
  <2>2. CASE got' = got /\ new.at # "push"
    BY <1>2, <2>1, <2>2
  <2>3. CASE \E r \in ResultType :
               /\ r.kind # "none" /\ (r.cut => cancelled)
               /\ got' = [got EXCEPT ![Feed(w)] = r]
    <3>1. PICK r \in ResultType :
               /\ r.kind # "none" /\ (r.cut => cancelled)
               /\ got' = [got EXCEPT ![Feed(w)] = r]
      BY <2>3
    <3>2. got'[Feed(w)] = r /\ \A u \in Urls : u # Feed(w) => got'[u] = got[u]
      BY <1>2, <1>5, <3>1
    <3>3. got' \in [Urls -> ResultType]
      BY <1>2, <3>1
    <3>4. \A u \in Urls : got'[u].kind = "none" => got[u].kind = "none"
      BY <3>1, <3>2
    <3>5. \A u \in Urls : got'[u].cut => cancelled
      BY <2>1, <3>1, <3>2
    <3> QED
      BY <3>1, <3>2, <3>3, <3>4, <3>5
  <2> QED
    BY <1>3, <2>2, <2>3
<1>7. \A v \in Workers : Busy(v)' <=> Busy(v)
  BY <1>3, <1>4 DEF Busy
<1>8. Gone' = Gone
  BY <1>4 DEF Gone
<1>9. Claims'
  <2>1. worker'[1].at = "gone" => worker[1].at = "gone"
    BY <1>4, AsleepType
  <2> QED
    BY <1>1, <1>4, <1>7, <1>8, <2>1 DEF Claims
<1>10. Fetched'
  <2>1. \A v \in Workers : worker'[v].at = "push" => Feed(v)' = Feed(v) /\ Feed(v) \in Urls
    BY <1>1, <1>4, FeedOf DEF Feed
  <2>2. \A v \in Workers : worker'[v].at = "push" => got'[Feed(v)'].kind # "none"
    <3> SUFFICES ASSUME NEW v \in Workers, worker'[v].at = "push" PROVE got'[Feed(v)].kind # "none"
      BY <2>1
    <3>1. CASE v = w
      BY <1>4, <1>6, <3>1
    <3>2. CASE v # w
      <4>1. got[Feed(v)].kind # "none" /\ Feed(v) \in Urls
        BY <1>1, <1>4, <2>1, <3>2 DEF Fetched
      <4> QED
        BY <1>6, <4>1
    <3> QED
      BY <3>1, <3>2
  <2>3. \A i \in DOMAIN results : got'[chunk[results[i]]].kind # "none"
    <3>1. DOMAIN chunk = 1 .. Size /\ \A j \in 1 .. Size : chunk[j] \in Urls
      BY <1>1, Chunks
    <3>2. ASSUME NEW i \in DOMAIN results PROVE chunk[results[i]] \in Urls
      <4>1. results[i] \in DOMAIN chunk
        BY <1>2
      <4> QED
        BY <3>1, <4>1
    <3> QED
      BY <1>1, <1>6, <3>2 DEF Fetched
  <2> QED
    BY <1>1, <1>6, <2>2, <2>3 DEF Fetched
<1>11. \A i \in 1 .. first : got'[unique[i]] = got[unique[i]]
  <2>1. /\ \A i, j \in 1 .. Len(unique) : unique[i] = unique[j] => i = j
        /\ \A i \in 1 .. Len(unique) : unique[i] \in Urls
    BY Feeds
  <2> SUFFICES ASSUME NEW i \in 1 .. first PROVE got'[unique[i]] = got[unique[i]]
    OBVIOUS
  <2>2. first \in Nat /\ Size \in Nat /\ i \in 1 .. Len(unique) /\ i # first + worker[w].index
    BY <1>1, <1>5, Chunks, WorkersAssumption
  <2>3. unique[i] # Feed(w) /\ unique[i] \in Urls
    BY <1>5, <2>1, <2>2
  <2> QED
    BY <1>6, <2>3
<1>12. \A v \in Workers : worker'[v].at # "gone" => worker'[v].index \in DOMAIN chunk
  BY <1>2, <1>4
<1> QED
  BY <1>1, <1>2, <1>4, <1>6, <1>9, <1>10, <1>11, <1>12, WorkerStep

\* What the steps between a claim and a push have in common.
LEMMA PreparedStep ==
  ASSUME IInv, NEW w \in Workers,
         \E r \in ResultType : r.kind # "none" /\ (r.cut => cancelled) /\ Prepared(w, r)
  PROVE  FetchStep(w)
<1>1. worker \in [Workers -> WorkerType]
  BY DEF IInv, TypeOK, WorkerType
<1> DEFINE new == [worker[w] EXCEPT !.at = "push"]
<1>2. new \in WorkerType /\ new.at = "push" /\ new.index = worker[w].index
  BY <1>1 DEF WorkerType
<1>3. worker' = [worker EXCEPT ![w] = new]
  BY <1>1 DEF Prepared, Goto
<1> QED
  BY <1>2, <1>3 DEF FetchStep, Prepared

LEMMA GotoStep ==
  ASSUME IInv, NEW w \in Workers, NEW at \in {"ask", "askAgain"}, Goto(w, at), UNCHANGED got
  PROVE  FetchStep(w)
<1>1. worker \in [Workers -> WorkerType]
  BY DEF IInv, TypeOK, WorkerType
<1> DEFINE new == [worker[w] EXCEPT !.at = at]
<1>2. new \in WorkerType /\ new.at = at /\ new.index = worker[w].index
  BY <1>1 DEF WorkerType
<1>3. worker' = [worker EXCEPT ![w] = new]
  BY <1>1 DEF Goto
<1> QED
  BY <1>2, <1>3 DEF FetchStep

LEMMA CacheNets ==
  ASSUME IInv, NEW w \in Workers, worker[w].at # "gone"
  PROVE  cache[Feed(w)].networks \in SUBSET Nets
<1>1. Feed(w) \in Urls /\ cache \in [Urls -> Cache]
  BY FeedOf DEF IInv, TypeOK
<1> QED
  BY <1>1, BodiesAssumption DEF Cache

LEMMA FallbackStep ==
  ASSUME IInv, NEW w \in Workers, worker[w].at # "gone", NEW cut \in BOOLEAN, cut => cancelled,
         Fallback(w, cut)
  PROVE  FetchStep(w)
<1>1. /\ Result("ok", "fallback", cache[Feed(w)].networks, cut) \in ResultType
      /\ Result("ok", "unavailable", {}, cut) \in ResultType
  BY CacheNets DEF Result, ResultType, Sources
<1>2. \A n : /\ Result("ok", "fallback", n, cut).kind # "none" /\ Result("ok", "fallback", n, cut).cut = cut
             /\ Result("ok", "unavailable", n, cut).kind # "none"
             /\ Result("ok", "unavailable", n, cut).cut = cut
  BY DEF Result
<1>3. CASE HasCache(w)
  BY <1>1, <1>2, <1>3, PreparedStep DEF Fallback
<1>4. CASE ~ HasCache(w)
  BY <1>1, <1>2, <1>4, PreparedStep DEF Fallback
<1> QED
  BY <1>3, <1>4

LEMMA ReadStep ==
  ASSUME IInv, NEW w \in Workers, Read(w)
  PROVE  FetchStep(w)
<1>1. CASE cache[Feed(w)].state = "unreadable"
  <2>1. Prepared(w, Result("soft", "unavailable", {}, FALSE))
    BY <1>1 DEF Read
  <2>2. /\ Result("soft", "unavailable", {}, FALSE) \in ResultType
        /\ Result("soft", "unavailable", {}, FALSE).kind # "none"
        /\ ~ Result("soft", "unavailable", {}, FALSE).cut
    BY DEF Result, ResultType, Sources
  <2> QED
    BY <2>1, <2>2, PreparedStep
<1>2. CASE cache[Feed(w)].state # "unreadable"
  <2>1. Goto(w, "ask") /\ UNCHANGED got
    BY <1>2 DEF Read
  <2> QED
    BY <2>1, GotoStep
<1> QED
  BY <1>1, <1>2

LEMMA AskStep ==
  ASSUME IInv, NEW w \in Workers, Ask(w)
  PROVE  FetchStep(w) /\ worker[w].at \in {"ask", "askAgain"}
<1>0. worker[w].at \in {"ask", "askAgain"}
  BY DEF Ask, Cut, AnswerUnusable, AnswerNotModified, AnswerBody
<1>1. CASE Cut(w)
  BY <1>0, <1>1, FallbackStep DEF Cut
<1>2. CASE AnswerUnusable(w)
  BY <1>0, <1>2, FallbackStep DEF AnswerUnusable
<1>3. CASE AnswerNotModified(w)
  <2>1. CASE HasCache(w)
    <3> DEFINE r == Result("ok", "cache", cache[Feed(w)].networks, FALSE)
    <3>1. r \in ResultType /\ r.kind # "none" /\ ~ r.cut
      BY <1>0, CacheNets DEF Result, ResultType, Sources
    <3>2. Prepared(w, r)
      BY <1>3, <2>1 DEF AnswerNotModified
    <3> HIDE DEF r
    <3> QED
      BY <1>0, <3>1, <3>2, PreparedStep
  <2>2. CASE ~ HasCache(w)
    BY <1>0, <1>3, <2>2, GotoStep DEF AnswerNotModified
  <2> QED
    BY <2>1, <2>2
<1>4. CASE AnswerBody(w)
  <2>1. PICK body \in Bodies :
          worker' = [worker EXCEPT ![w] = [at |-> "stage", index |-> worker[w].index, body |-> body]]
    BY <1>4 DEF AnswerBody
  <2>2. worker \in [Workers -> WorkerType] /\ body \in SUBSET Nets /\ got' = got
    BY <1>4, BodiesAssumption DEF IInv, TypeOK, WorkerType, AnswerBody
  <2> DEFINE new == [at |-> "stage", index |-> worker[w].index, body |-> body]
  <2>3. new \in WorkerType /\ new.at = "stage" /\ new.index = worker[w].index
    BY <2>2 DEF WorkerType
  <2>4. worker' = [worker EXCEPT ![w] = new]
    BY <2>1
  <2> HIDE DEF new
  <2> QED
    BY <1>0, <2>2, <2>3, <2>4 DEF FetchStep
<1> QED
  BY <1>1, <1>2, <1>3, <1>4 DEF Ask

LEMMA StageStep ==
  ASSUME IInv, NEW w \in Workers, Stage(w)
  PROVE  FetchStep(w)
<1>0. worker[w].at = "stage" /\ worker[w].body \in SUBSET Nets
  BY DEF Stage, IInv, TypeOK
<1>1. CASE Prepared(w, Result("ok", "network", worker[w].body, FALSE))
  <2> DEFINE r == Result("ok", "network", worker[w].body, FALSE)
  <2>1. r \in ResultType /\ r.kind # "none" /\ ~ r.cut
    BY <1>0 DEF Result, ResultType, Sources
  <2> HIDE DEF r
  <2>2. Prepared(w, r)
    BY <1>1 DEF r
  <2> QED
    BY <1>0, <2>1, <2>2, PreparedStep
<1>2. CASE Fallback(w, FALSE)
  BY <1>0, <1>2, FallbackStep
<1>3. CASE Prepared(w, Result("hard", "none", {}, FALSE))
  <2> DEFINE r == Result("hard", "none", {}, FALSE)
  <2>1. r \in ResultType /\ r.kind # "none" /\ ~ r.cut
    BY DEF Result, ResultType, Sources
  <2> HIDE DEF r
  <2>2. Prepared(w, r)
    BY <1>3 DEF r
  <2> QED
    BY <1>0, <2>1, <2>2, PreparedStep
<1> QED
  BY <1>1, <1>2, <1>3 DEF Stage

LEMMA PushInv ==
  ASSUME IInv, pc = "join", NEW w \in Workers, Push(w)
  PROVE  IInv'
<1>1. /\ cancelled' = cancelled /\ pc' = "join" /\ first' = first /\ outcome' = "none"
      /\ chunk' = chunk /\ Size' = Size /\ TypeOK /\ Claims /\ Fetched
      /\ unique \in Seq(Urls) /\ first \in 0 .. Len(unique) /\ first < Len(unique)
      /\ nextIdx' = nextIdx /\ got' = got /\ worker[w].at = "push"
      /\ results' = Append(results, worker[w].index)
  BY WorkerFrame DEF Push
<1>2. /\ worker \in [Workers -> WorkerType]
      /\ nextIdx \in 1 .. (2 * MAX_WORKERS + 1) /\ results \in Seq(DOMAIN chunk)
      /\ got \in [Urls -> ResultType]
      /\ \A v \in Workers : worker[v].at # "gone" => worker[v].index \in DOMAIN chunk
  BY <1>1 DEF TypeOK, WorkerType, ResultType
<1>3. Size \in Nat /\ 1 \in 1 .. Size /\ DOMAIN chunk = 1 .. Size
  BY <1>1, Chunks, WorkersAssumption
<1> DEFINE new == [Asleep EXCEPT !.at = "check"]
           i0 == worker[w].index
<1>4. worker' = [worker EXCEPT ![w] = new] /\ UNCHANGED workerFrame
  BY DEF Push
<1>5. new \in WorkerType /\ new.at = "check" /\ new.index = 1
  BY AsleepType
<1> HIDE DEF new
<1>6. /\ worker' \in [Workers -> WorkerType] /\ worker'[w] = new
      /\ \A v \in Workers : v # w => worker'[v] = worker[v]
  BY <1>2, <1>4, <1>5
<1>7. i0 \in 1 .. Size /\ i0 \in Nat /\ Busy(w)
  BY <1>1, <1>2, <1>3 DEF Busy
<1> HIDE DEF i0
<1>8. /\ results' \in Seq(DOMAIN chunk) /\ Len(results) \in Nat
      /\ DOMAIN results = 1 .. Len(results) /\ DOMAIN results' = 1 .. (Len(results) + 1)
      /\ results'[Len(results) + 1] = i0
      /\ \A i \in 1 .. Len(results) : results'[i] = results[i]
  <2>1. results' = Append(results, i0)
    BY <1>1 DEF i0
  <2> QED
    BY <1>2, <1>3, <1>7, <2>1
<1>9. \A v \in Workers : Busy(v)' <=> Busy(v) /\ v # w
  BY <1>5, <1>6 DEF Busy
<1>10. Gone' = Gone
  BY <1>1, <1>5, <1>6 DEF Gone
<1>11. \A i \in DOMAIN results : results[i] # i0
  BY <1>1, <1>7 DEF Claims, i0
<1>12. Claims'
  <2>1. (\A u, v \in Workers : u # v /\ Busy(u) /\ Busy(v) => worker[u].index # worker[v].index)'
    BY <1>1, <1>6, <1>9 DEF Claims
  <2>2. ASSUME NEW v \in Workers, Busy(v)'
        PROVE  worker'[v].index < nextIdx' /\ \A i \in DOMAIN results' : results'[i] # worker'[v].index
    <3>1. v # w /\ Busy(v) /\ worker'[v] = worker[v]
      BY <1>6, <1>9, <2>2
    <3>2. worker[v].index # i0 /\ worker[v].index < nextIdx
          /\ \A i \in DOMAIN results : results[i] # worker[v].index
      BY <1>1, <1>7, <3>1 DEF Claims, i0
    <3> QED
      BY <1>1, <1>8, <3>1, <3>2
  <2>3. \A i \in DOMAIN results' : results'[i] < nextIdx'
    <3>1. i0 < nextIdx /\ \A i \in DOMAIN results : results[i] < nextIdx
      BY <1>1, <1>7 DEF Claims, i0
    <3> QED
      BY <1>1, <1>8, <3>1
  <2>4. \A i, j \in DOMAIN results' : results'[i] = results'[j] => i = j
    <3>1. \A i, j \in DOMAIN results : results[i] = results[j] => i = j
      BY <1>1 DEF Claims
    <3> QED
      BY <1>8, <1>11, <3>1
  <2>5. ASSUME NEW k \in 1 .. Size, k < nextIdx
        PROVE  (\E i \in DOMAIN results' : results'[i] = k)
               \/ \E v \in Workers : Busy(v)' /\ worker'[v].index = k
    <3>1. CASE k = i0
      BY <1>8, <3>1
    <3>2. CASE \E i \in DOMAIN results : results[i] = k
      BY <1>8, <3>2
    <3>3. CASE k # i0 /\ ~ \E i \in DOMAIN results : results[i] = k
      <4>1. PICK v \in Workers : Busy(v) /\ worker[v].index = k
        BY <1>1, <2>5, <3>3 DEF Claims
      <4>2. v # w
        BY <3>3, <4>1 DEF i0
      <4> QED
        BY <1>6, <1>9, <4>1, <4>2
    <3> QED
      BY <3>1, <3>2, <3>3
  <2>6. worker'[1].at = "gone" => worker[1].at = "gone"
    BY <1>5, <1>6, AsleepType
  <2> QED
    BY <1>1, <1>10, <2>1, <2>2, <2>3, <2>4, <2>5, <2>6 DEF Claims
<1>13. Fetched'
  <2>1. \A v \in Workers : worker'[v].at = "push" => worker[v].at = "push" /\ Feed(v)' = Feed(v)
    BY <1>1, <1>5, <1>6 DEF Feed
  <2>2. \A v \in Workers : worker'[v].at = "push" => got'[Feed(v)'].kind # "none"
    BY <1>1, <2>1 DEF Fetched
  <2>3. got[chunk[i0]].kind # "none"
    BY <1>1 DEF Fetched, Feed, i0
  <2>4. \A i \in DOMAIN results' : got[chunk[results'[i]]].kind # "none"
    BY <1>1, <1>8, <2>3 DEF Fetched
  <2>5. \A u \in Urls : got[u].cut => cancelled
    BY <1>1 DEF Fetched
  <2> QED
    BY <1>1, <2>2, <2>4, <2>5 DEF Fetched
<1>14. \A v \in Workers : worker'[v].at # "gone" => worker'[v].index \in DOMAIN chunk
  BY <1>2, <1>3, <1>5, <1>6
<1> QED
  BY <1>1, <1>2, <1>4, <1>6, <1>8, <1>12, <1>13, <1>14, WorkerStep

LEMMA WorkerInv ==
  ASSUME IInv, NEW w \in Workers, Worker(w)
  PROVE  IInv'
<1>1. pc = "join"
  BY DEF Worker
<1>2. CASE Check(w)
  BY <1>1, <1>2, CheckInv
<1>3. CASE Claim(w)
  BY <1>1, <1>3, ClaimInv
<1>4. CASE Read(w)
  <2>1. worker[w].at = "read" /\ UNCHANGED <<workerFrame, nextIdx, results>>
    BY <1>4 DEF Read
  <2> QED
    BY <1>1, <1>4, <2>1, ReadStep, FetchInv
<1>5. CASE Ask(w)
  <2>1. UNCHANGED <<workerFrame, nextIdx, results>>
    BY <1>5 DEF Ask
  <2>2. FetchStep(w) /\ worker[w].at \in {"ask", "askAgain"}
    BY <1>5, AskStep
  <2> QED
    BY <1>1, <2>1, <2>2, FetchInv
<1>6. CASE Stage(w)
  <2>1. worker[w].at = "stage" /\ UNCHANGED <<workerFrame, nextIdx, results>>
    BY <1>6 DEF Stage
  <2> QED
    BY <1>1, <1>6, <2>1, StageStep, FetchInv
<1>7. CASE Push(w)
  BY <1>1, <1>7, PushInv
<1> QED
  BY <1>2, <1>3, <1>4, <1>5, <1>6, <1>7 DEF Worker

LEMMA StutterInv ==
  ASSUME IInv, UNCHANGED vars
  PROVE  IInv'
<1>1. /\ urls' = urls /\ unique' = unique /\ cpus' = cpus /\ cache' = cache
      /\ cancelled' = cancelled /\ pc' = pc /\ first' = first
      /\ observations' = observations /\ aggregate' = aggregate /\ pending' = pending
      /\ outcome' = outcome /\ nextIdx' = nextIdx /\ worker' = worker /\ results' = results /\ got' = got
  BY DEF vars
<1>2. /\ TypeOK /\ unique = Unique(urls) /\ Control /\ Claims /\ Fetched /\ Ordered /\ Staged
  BY DEF IInv
<1>3. chunk' = chunk /\ Size' = Size /\ Gone' = Gone /\ Seen' = Seen
      /\ \A w \in Workers : (Busy(w)' <=> Busy(w)) /\ Feed(w)' = Feed(w)
  BY <1>1 DEF chunk, Size, Gone, Busy, Feed, Seen
<1>4. TypeOK'
  BY <1>1, <1>2, <1>3 DEF TypeOK
<1>5. Control' /\ Fetched' /\ Ordered'
  BY <1>1, <1>2, <1>3 DEF Control, Fetched, Ordered
<1>6. Claims'
  BY <1>1, <1>2, <1>3 DEF Claims
<1>7. Staged'
  <2>1. pc # "done" \/ outcome = "ok" => (\E k \in 0 .. Len(unique) : k = Seen /\ Collected(k))'
    <3> SUFFICES ASSUME pc # "done" \/ outcome = "ok"
                 PROVE  (\E k \in 0 .. Len(unique) : k = Seen /\ Collected(k))'
      OBVIOUS
    <3>1. PICK k \in 0 .. Len(unique) : k = Seen /\ Collected(k)
      BY <1>2 DEF Staged
    <3>2. Collected(k)'
      BY <1>1, <3>1, CollectedFrame
    <3> QED
      BY <1>1, <1>3, <3>1, <3>2
  <2>2. outcome \in {"staging", "budget"} => Failed(outcome)'
    <3> SUFFICES ASSUME NEW e \in {"staging", "budget"}, e = outcome PROVE Failed(e)'
      BY <1>1
    <3> QED
      BY <1>1, <1>2, FailedFrame DEF Staged
  <2> QED
    BY <1>1, <1>2, <2>1, <2>2 DEF Staged
<1> QED
  BY <1>1, <1>2, <1>4, <1>5, <1>6, <1>7 DEF IInv

LEMMA Inductive ==
  ASSUME IInv, [Next]_vars
  PROVE  IInv'
<1>1. CASE Provider
  BY <1>1, StartChunkInv, JoinInv, CollectInv, NextChunkInv, FinishInv DEF Provider
<1>2. CASE \E w \in Workers : Worker(w)
  BY <1>2, WorkerInv
<1>3. CASE Cancel
  BY <1>3, CancelInv
<1>4. CASE UNCHANGED vars
  BY <1>4, StutterInv
<1> QED
  BY <1>1, <1>2, <1>3, <1>4 DEF Next

-----------------------------------------------------------------------------
(***************************************************************************)
(* The result of the collection is that of the feeds one after the other,  *)
(* in the order of the configuration.                                      *)
(***************************************************************************)
LEMMA Success ==
  ASSUME IInv, outcome = "ok"
  PROVE  /\ \A k \in DOMAIN unique :
              got[unique[k]].kind # "none" /\ ~ \E e \in {"staging", "budget"} : Fails(k, e)
         /\ \A u \in Urls : ~ got[u].cut
         /\ aggregate = UpTo(Len(unique))
         /\ Reported
<1>1. pc = "done" /\ first = Len(unique) /\ Seen = first
  BY DEF IInv, Control, Staged, Seen
<1>2. Collected(Len(unique))
  <2>1. PICK k \in 0 .. Len(unique) : k = Seen /\ Collected(k)
    BY DEF IInv, Staged
  <2> QED
    BY <1>1, <2>1
<1>3. /\ unique \in Seq(Urls) /\ Len(unique) \in Nat /\ DOMAIN unique = 1 .. Len(unique)
      /\ \A i, j \in 1 .. Len(unique) : unique[i] = unique[j] => i = j
      /\ ToSet(unique) = ToSet(urls)
  BY Feeds
<1>4. \A k \in DOMAIN unique :
        got[unique[k]].kind # "none" /\ ~ \E e \in {"staging", "budget"} : Fails(k, e)
  BY <1>2, <1>3 DEF Collected, Fails
<1>5. \A u \in Urls : ~ got[u].cut
  BY DEF IInv, Fetched
<1>6. aggregate = UpTo(Len(unique))
  BY <1>2 DEF Collected
<1>7. Reported
  <2> SUFFICES ASSUME unique # <<>>
               PROVE  /\ [k \in DOMAIN observations |-> observations[k].url] = unique
                      /\ Cardinality(ToSet(unique)) = Len(unique)
                      /\ HandsOver(Len(unique))
    BY <1>3 DEF Reported
  <2>1. [k \in DOMAIN observations |-> observations[k].url] = unique
    <3>1. Len(observations) = Len(unique) /\ \A i \in 1 .. Len(unique) : observations[i].url = unique[i]
      BY <1>2 DEF Collected
    <3>2. observations \in Seq(ObservationType)
      BY DEF IInv, TypeOK, ObservationType
    <3>3. DOMAIN observations = 1 .. Len(unique) /\ unique = [k \in 1 .. Len(unique) |-> unique[k]]
      BY <1>3, <3>1, <3>2
    <3> QED
      BY <3>1, <3>3
  <2>2. Cardinality(ToSet(unique)) = Len(unique)
    <3> DEFINE D == 1 .. Len(unique)
    <3>1. unique \in Bijection(D, ToSet(unique))
      BY <1>3 DEF Bijection, Injection, Surjection, IsInjective, ToSet
    <3>2. ExistsBijection(D, ToSet(unique))
      BY <3>1, Zenon DEF ExistsBijection
    <3>3. IsFiniteSet(D) /\ Cardinality(D) = Len(unique)
      <4>1. \A m \in Nat : IsFiniteSet(1 .. m) /\ Cardinality(1 .. m) = IF 1 > m THEN 0 ELSE m - 1 + 1
        BY FS_Interval
      <4>2. \A m \in Nat : (IF 1 > m THEN 0 ELSE m - 1 + 1) = m
        OBVIOUS
      <4> QED
        BY <1>3, <4>1, <4>2
    <3> HIDE DEF D
    <3> QED
      BY <3>2, <3>3, FS_Bijection, Zenon
  <2>3. HandsOver(Len(unique))
    BY <1>2 DEF Collected
  <2> QED
    BY <2>1, <2>2, <2>3
<1> QED
  BY <1>4, <1>5, <1>6, <1>7

LEMMA Independent ==
  ASSUME IInv
  PROVE  FetchesAreIndependent
<1>1. outcome \in {"staging", "budget"} =>
        \E k \in DOMAIN unique : Fails(k, outcome)
          /\ \A j \in 1 .. (k - 1) : ~ \E e \in {"staging", "budget"} : Fails(j, e)
  BY DEF IInv, Staged, Failed
<1>2. OrderIndependent
  BY <1>1, Success DEF OrderIndependent
<1>3. TypeOK
  BY DEF IInv
<1>4. ASSUME NEW v \in Workers, NEW w \in Workers, v # w,
             {worker[v].at, worker[w].at} \subseteq {"read", "ask", "askAgain", "stage"}
      PROVE  Feed(v) # Feed(w)
  <2>1. Busy(v) /\ Busy(w) /\ worker[v].at # "gone" /\ worker[w].at # "gone"
    BY <1>4 DEF Busy
  <2>2. pc = "join"
    BY <2>1 DEF IInv, Control, Gone
  <2>3. worker[v].index # worker[w].index
    BY <1>4, <2>1, <2>2 DEF IInv, Claims
  <2>4. /\ worker[v].index \in 1 .. Size /\ Feed(v) = unique[first + worker[v].index]
        /\ first + worker[v].index \in 1 .. Len(unique)
        /\ worker[w].index \in 1 .. Size /\ Feed(w) = unique[first + worker[w].index]
        /\ first + worker[w].index \in 1 .. Len(unique)
    BY <2>1, FeedOf
  <2>5. \A i, j \in 1 .. Len(unique) : unique[i] = unique[j] => i = j
    BY Feeds
  <2>6. first \in Nat
    BY <1>3 DEF TypeOK
  <2>7. first + worker[v].index # first + worker[w].index
    BY <2>3, <2>4, <2>6
  <2> QED
    BY <2>4, <2>5, <2>7
<1> QED
  BY <1>2, <1>3, <1>4 DEF FetchesAreIndependent, OneWorkerPerStore

(***************************************************************************)
(* FetchesAreIndependent, for any configuration, caches, answers, schedule *)
(* and moment of a cancellation: the outcome of a sync's feeds is that of  *)
(* their order in the configuration, a cut request is never enforced as a  *)
(* result, and no two workers are in the store of one feed                 *)
(* (sync_sources.rs, prepare_remote_networks_in_chunks).                   *)
(***************************************************************************)
THEOREM FetchesAreIndependentHolds == Spec => []FetchesAreIndependent
<1>1. Init => IInv
  BY InitInv
<1>2. IInv /\ [Next]_vars => IInv'
  BY Inductive
<1>3. IInv => FetchesAreIndependent
  BY Independent
<1> QED
  BY <1>1, <1>2, <1>3, PTL DEF Spec

=============================================================================
