--------------------------- MODULE NetworksProofs ---------------------------
(***************************************************************************)
(* The effective blocklist is exact and canonical for every address width  *)
(* and every input: the loops of network.rs lose no address and block no   *)
(* safelisted one, however the lists overlap; they end with the largest    *)
(* blocks that fit, each once; and the radix sort of long lists orders     *)
(* them without losing any.                                                *)
(***************************************************************************)
EXTENDS Networks, SequencesExt, TLAPS, SequenceTheorems, WellFoundedInduction,
        FiniteSetTheorems

\* Min of a nonempty set of naturals is its least element.
LEMMA MinFirst ==
  ASSUME NEW S, S \subseteq Nat, S # {}
  PROVE  Min(S) \in S /\ \A y \in S : Min(S) <= y
<1>1. PICK x \in S : \A y \in S : ~ (<<y, x>> \in OpToRel(<, Nat))
  BY NatLessThanWellFounded, WFMin
<1>2. ASSUME NEW y \in S
      PROVE  x <= y
  <2>1. <<y, x>> \in OpToRel(<, Nat) <=> <<y, x>> \in Nat \X Nat /\ y < x
    BY Zenon DEF OpToRel
  <2>2. ~ (<<y, x>> \in Nat \X Nat /\ y < x)
    BY <1>1, <2>1, Zenon
  <2> QED
    BY <2>2
<1> QED
  BY <1>2 DEF Min

\* One of the first k intervals of the list has the address a.
In(a, list, k) == \E j \in 1 .. k : list[j].start <= a /\ a <= list[j].end

Within(a, i) == i.start <= a /\ a <= i.end

(***************************************************************************)
(* The loops have not begun that come later.                               *)
(***************************************************************************)
StageInv ==
  /\ pc = "sort" => merged[side] = <<>>
  /\ side = "candidates" => merged["safelist"] = <<>>
  /\ pc \notin {"sort", "merge"} => side = "safelist"
  /\ pc \in {"sort", "merge", "subtract"} => b = 1 /\ carveIdx = 1 /\ carved = <<>>
  /\ pc \in {"sort", "merge", "subtract", "skip", "carve"} => n = 1 /\ out = <<>>

(***************************************************************************)
(* While a side is merged: what is merged, current and rest together are   *)
(* the input; rest is in order and does not start before current; current  *)
(* is separated from what is merged.                                       *)
(***************************************************************************)
Source(s) == Intervals(request[s])

MergeInv ==
  pc = "merge" =>
    /\ \A a \in Nat : In(a, Source(side), Len(Source(side))) <=>
         \/ In(a, merged[side], Len(merged[side]))
         \/ Within(a, current)
         \/ In(a, rest, Len(rest))
    /\ \A k \in 1 .. Len(rest) : current.start <= rest[k].start
    /\ \A j, k \in 1 .. Len(rest) : j < k => rest[j].start <= rest[k].start
    /\ \A k \in 1 .. Len(merged[side]) : merged[side][k].end + 1 < current.start
    /\ \A j, k \in 1 .. Len(merged[side]) :
         j < k => merged[side][j].end + 1 < merged[side][k].start

\* A side that is merged: the same addresses, in intervals with gaps between.
MergedSide(s) ==
  /\ \A j, k \in 1 .. Len(merged[s]) : j < k => merged[s][j].end + 1 < merged[s][k].start
  /\ \A a \in Nat : In(a, merged[s], Len(merged[s])) <=> In(a, Source(s), Len(Source(s)))

MergedInv ==
  /\ side = "safelist" => MergedSide("candidates")
  /\ pc \notin {"sort", "merge"} => MergedSide("safelist")

(***************************************************************************)
(* While carving: the result has the addresses of the base intervals done, *)
(* and of the current one up to next_start, that are not safelisted; the   *)
(* carve intervals passed end before all that is still to come.            *)
(***************************************************************************)
Safe(a) == In(a, carve, Len(carve))

CarveInv ==
  /\ pc = "skip" =>
       /\ b <= Len(base) + 1 /\ carveIdx <= Len(carve) + 1
       /\ \A a \in Nat : In(a, carved, Len(carved)) <=> In(a, base, b - 1) /\ ~ Safe(a)
       /\ \A k \in 1 .. (carveIdx - 1), j \in b .. Len(base) : carve[k].end < base[j].start
  /\ pc = "carve" =>
       /\ b <= Len(base) /\ idx <= Len(carve) + 1
       /\ base[b].start <= nextStart /\ nextStart <= base[b].end
       /\ \A a \in Nat : In(a, carved, Len(carved)) <=>
            /\ In(a, base, b - 1) \/ (base[b].start <= a /\ a < nextStart)
            /\ ~ Safe(a)
       /\ \A k \in 1 .. (idx - 1) : carve[k].end < nextStart

(***************************************************************************)
(* While cutting into blocks: the carved intervals are the answer, and the *)
(* blocks have the addresses of those done and of the current one up to    *)
(* start.                                                                  *)
(***************************************************************************)
Answer(a) ==
  In(a, Source("candidates"), Len(Source("candidates"))) /\
  ~ In(a, Source("safelist"), Len(Source("safelist")))

Emitted(a) == In(a, Intervals(out), Len(out))

CoverInv ==
  /\ pc \in {"cover", "block", "done"} =>
       \A a \in Nat : In(a, carved, Len(carved)) <=> Answer(a)
  /\ pc = "cover" =>
       /\ n <= Len(carved) + 1
       /\ \A a \in Nat : Emitted(a) <=> In(a, carved, n - 1)
  /\ pc = "block" =>
       /\ n <= Len(carved)
       /\ carved[n].start <= start /\ start <= carved[n].end + 1
       /\ \A a \in Nat : Emitted(a) <=>
            In(a, carved, n - 1) \/ (carved[n].start <= a /\ a < start)
  /\ pc = "done" => \A a \in Nat : Emitted(a) <=> In(a, carved, Len(carved))

IInv == TypeOK /\ StageInv /\ MergeInv /\ MergedInv /\ CarveInv /\ CoverInv

-----------------------------------------------------------------------------
\* The end of the address space is a natural number, and so is a block's size.
LEMMA SpaceProps ==
  /\ MAX \in Nat
  /\ \A p \in 0 .. Width : Pow[Width - p] \in Nat /\ Pow[Width - p] >= 1
  /\ Pow[0] = 1 /\ Pow[Width] = MAX + 1
BY WidthAssumption, PowAssumption DEF MAX

\* The fields of an interval are numbers in order.
LEMMA IntervalFields ==
  ASSUME NEW i \in Interval
  PROVE  i.start \in Nat /\ i.end \in Nat /\ i.start <= i.end /\ i.end <= MAX
BY SpaceProps DEF Interval

\* A CIDR becomes an interval of the address space.
LEMMA ToIntervalType ==
  ASSUME NEW c \in Parts
  PROVE  ToInterval(c) \in Interval
BY SpaceProps DEF Parts, ToInterval, BlockEnd, HostMask, SatAdd, Interval

\* A list of CIDRs becomes a list of as many intervals.
LEMMA IntervalsType ==
  ASSUME NEW s \in Seq(Parts)
  PROVE  /\ Intervals(s) \in Seq(Interval)
         /\ Len(Intervals(s)) = Len(s)
         /\ \A k \in 1 .. Len(s) : Intervals(s)[k] = ToInterval(s[k])
<1>1. ASSUME NEW k \in 1 .. Len(s) PROVE ToInterval(s[k]) \in Interval
  <2>1. s[k] \in Parts
    OBVIOUS
  <2> QED
    BY <2>1, ToIntervalType
<1>2. /\ Intervals(s) \in Seq(Interval)
      /\ Len(Intervals(s)) = Len(s)
  BY <1>1 DEF Intervals
<1>3. \A k \in 1 .. Len(s) : Intervals(s)[k] = ToInterval(s[k])
  BY DEF Intervals
<1> QED
  BY <1>2, <1>3

\* The interval appended adds its addresses and no others.
LEMMA InAppend ==
  ASSUME NEW list \in Seq(Interval), NEW i \in Interval, NEW a \in Nat
  PROVE  In(a, Append(list, i), Len(Append(list, i))) <=>
           In(a, list, Len(list)) \/ Within(a, i)
<1> DEFINE longer == Append(list, i)
<1>1. /\ Len(list) \in Nat /\ Len(longer) = Len(list) + 1
      /\ \A j \in 1 .. Len(list) : longer[j] = list[j]
      /\ longer[Len(list) + 1] = i
  OBVIOUS
<1> HIDE DEF longer
<1>2. In(a, longer, Len(longer)) <=>
        \/ \E j \in 1 .. Len(list) : longer[j].start <= a /\ a <= longer[j].end
        \/ longer[Len(list) + 1].start <= a /\ a <= longer[Len(list) + 1].end
  BY <1>1 DEF In
<1>3. In(a, longer, Len(longer)) <=> In(a, list, Len(list)) \/ Within(a, i)
  BY <1>1, <1>2 DEF In, Within
<1> QED
  BY <1>3 DEF longer

\* The k-th interval adds its addresses to those of the ones before it.
LEMMA InNext ==
  ASSUME NEW list \in Seq(Interval), NEW k \in 1 .. Len(list), NEW a \in Nat
  PROVE  In(a, list, k) <=> In(a, list, k - 1) \/ Within(a, list[k])
BY DEF In, Within

\* No interval, no address.
LEMMA InNone == ASSUME NEW list, NEW a \in Nat PROVE ~ In(a, list, 0)
BY DEF In

\* The first interval and the rest of a list.
LEMMA InTail ==
  ASSUME NEW list \in Seq(Interval), list # <<>>, NEW a \in Nat
  PROVE  In(a, list, Len(list)) <=>
           Within(a, Head(list)) \/ In(a, Tail(list), Len(Tail(list)))
<1>1. /\ Tail(list) \in Seq(Interval) /\ Len(Tail(list)) = Len(list) - 1
      /\ Len(list) \in Nat \ {0}
      /\ Head(list) = list[1]
      /\ \A j \in 1 .. (Len(list) - 1) : Tail(list)[j] = list[j + 1]
  OBVIOUS
<1>2. ASSUME In(a, list, Len(list))
      PROVE  Within(a, Head(list)) \/ In(a, Tail(list), Len(Tail(list)))
  <2>1. PICK j \in 1 .. Len(list) : list[j].start <= a /\ a <= list[j].end
    BY <1>2 DEF In
  <2>2. CASE j = 1
    BY <2>1, <2>2, <1>1 DEF Within
  <2>3. CASE j # 1
    <3>1. j - 1 \in 1 .. (Len(list) - 1) /\ Tail(list)[j - 1] = list[j]
      BY <2>3, <1>1
    <3> QED
      BY <3>1, <2>1, <1>1 DEF In
  <2> QED
    BY <2>2, <2>3
<1>3. ASSUME Within(a, Head(list)) \/ In(a, Tail(list), Len(Tail(list)))
      PROVE  In(a, list, Len(list))
  <2>1. CASE Within(a, Head(list))
    BY <2>1, <1>1 DEF In, Within
  <2>2. CASE In(a, Tail(list), Len(Tail(list)))
    <3>1. PICK j \in 1 .. (Len(list) - 1) :
            Tail(list)[j].start <= a /\ a <= Tail(list)[j].end
      BY <2>2, <1>1 DEF In
    <3>2. j + 1 \in 1 .. Len(list) /\ Tail(list)[j] = list[j + 1]
      BY <1>1
    <3> QED
      BY <3>1, <3>2 DEF In
  <2> QED
    BY <1>3, <2>1, <2>2
<1> QED
  BY <1>2, <1>3

\* The arguments become lists of intervals.
LEMMA SourceType ==
  ASSUME TypeOK, NEW s \in Sides
  PROVE  Source(s) \in Seq(Interval) /\ Len(Source(s)) = Len(request[s])
<1>1. request[s] \in Seq(Cidr)
  BY DEF TypeOK
<1>2. request[s] \in Seq(Parts)
  <2>1. Cidr \subseteq Parts
    BY DEF Cidr
  <2>2. \A k \in 1 .. Len(request[s]) : request[s][k] \in Parts
    BY <1>1, <2>1
  <2> QED
    BY <1>1, <2>2, SeqDef
<1> QED
  BY <1>2, IntervalsType DEF Source

\* The initial states satisfy the inductive invariant.
LEMMA InitIInv == Init => IInv
<1> SUFFICES ASSUME Init PROVE IInv
  OBVIOUS
<1> USE SpaceProps
<1>1. TypeOK
  <2>1. request \in [candidates : Seq(Cidr), safelist : Seq(Cidr)]
    BY InputAssumption DEF Init
  <2>2. request \in [Sides -> Seq(Cidr)]
    BY <2>1 DEF Sides
  <2>3. current \in Interval
    BY DEF Init, NoInterval, Interval
  <2>4. merged \in [Sides -> Seq(Interval)]
    BY DEF Init
  <2> QED
    BY <2>2, <2>3, <2>4 DEF Init, TypeOK, Sides
<1>2. StageInv /\ MergeInv /\ MergedInv /\ CarveInv /\ CoverInv
  BY DEF Init, StageInv, MergeInv, MergedInv, CarveInv, CoverInv, Sides
<1> QED
  BY <1>1, <1>2 DEF IInv

-----------------------------------------------------------------------------
\* A side whose merged list is complete and separated may be left.
LEMMA MergeDoneIInv ==
  ASSUME IInv, pc \in {"sort", "merge"}, NEW list \in Seq(Interval), MergeDone(list),
         \A j, k \in 1 .. Len(list) : j < k => list[j].end + 1 < list[k].start,
         \A a \in Nat : In(a, list, Len(list)) <=> In(a, Source(side), Len(Source(side)))
  PROVE  IInv'
<1> USE DEF IInv
<1>1. TypeOK'
  <2>1. current' \in Interval
    BY SpaceProps DEF MergeDone, NoInterval, Interval
  <2>2. merged' \in [Sides -> Seq(Interval)]
    BY DEF MergeDone, TypeOK
  <2>3. rest' = <<>>
    BY DEF MergeDone
  <2>4. pc' \in {"sort", "subtract"} /\ side' \in Sides
    BY DEF MergeDone, TypeOK, Sides
  <2> QED
    BY <2>1, <2>2, <2>3, <2>4 DEF MergeDone, TypeOK, carveVars, coverVars
<1>2. merged'[side] = list /\ \A s \in Sides \ {side} : merged'[s] = merged[s]
  BY DEF MergeDone, TypeOK
<1>3. \A s \in Sides : Source(s)' = Source(s)
  BY DEF MergeDone, Source
<1>4. ASSUME NEW s \in Sides, s = side PROVE MergedSide(s)'
  BY <1>2, <1>3, <1>4 DEF MergedSide
<1>5. CASE side = "candidates"
  <2>1. side' = "safelist" /\ pc' = "sort"
    BY <1>5 DEF MergeDone
  <2>2. StageInv'
    BY <1>2, <1>5, <2>1 DEF MergeDone, StageInv, carveVars, coverVars, Sides
  <2>3. MergeInv' /\ CarveInv' /\ CoverInv'
    BY <2>1 DEF MergeInv, CarveInv, CoverInv
  <2>4. MergedInv'
    BY <1>4, <1>5, <2>1 DEF MergedInv, Sides
  <2> QED
    BY <1>1, <2>2, <2>3, <2>4
<1>6. CASE side = "safelist"
  <2>1. side' = "safelist" /\ pc' = "subtract"
    BY <1>6 DEF MergeDone
  <2>2. StageInv'
    BY <1>6, <2>1 DEF MergeDone, StageInv, carveVars, coverVars
  <2>3. MergeInv' /\ CarveInv' /\ CoverInv'
    BY <2>1 DEF MergeInv, CarveInv, CoverInv
  <2>4. MergedSide("candidates")'
    BY <1>2, <1>3, <1>6 DEF MergedInv, MergedSide, Sides
  <2>5. MergedInv'
    BY <1>4, <1>6, <2>1, <2>4 DEF MergedInv, Sides
  <2> QED
    BY <1>1, <2>2, <2>3, <2>5
<1> QED
  BY <1>5, <1>6 DEF TypeOK, Sides

\* An empty side is merged already.
LEMMA MergeEmptyIInv == IInv /\ MergeEmpty => IInv'
<1> SUFFICES ASSUME IInv, MergeEmpty PROVE IInv'
  OBVIOUS
<1>1. TypeOK /\ side \in Sides /\ pc = "sort" /\ MergeDone(<<>>) /\ request[side] = <<>>
  BY DEF IInv, TypeOK, MergeEmpty
<1>2. Len(Source(side)) = 0
  BY <1>1, SourceType
<1>3. \A a \in Nat : In(a, <<>>, Len(<<>>)) <=> In(a, Source(side), Len(Source(side)))
  BY <1>2, InNone
<1>4. <<>> \in Seq(Interval) /\ Len(<<>>) = 0
  OBVIOUS
<1>5. \A j, k \in 1 .. Len(<<>>) : j < k => <<>>[j].end + 1 < <<>>[k].start
  BY <1>4
<1> QED
  BY <1>1, <1>3, <1>4, <1>5, MergeDoneIInv

\* After the last interval of a side, current completes its list.
LEMMA MergeEndIInv == IInv /\ MergeEnd => IInv'
<1> SUFFICES ASSUME IInv, MergeEnd PROVE IInv'
  OBVIOUS
<1> DEFINE list == Append(merged[side], current)
<1>1. /\ TypeOK /\ MergeInv /\ side \in Sides /\ pc = "merge" /\ rest = <<>>
      /\ MergeDone(list) /\ merged[side] \in Seq(Interval) /\ current \in Interval
  BY DEF IInv, TypeOK, MergeEnd
<1>2. list \in Seq(Interval) /\ Len(list) = Len(merged[side]) + 1
      /\ list[Len(merged[side]) + 1] = current
      /\ \A k \in 1 .. Len(merged[side]) : list[k] = merged[side][k]
  BY <1>1
<1>3. \A j, k \in 1 .. Len(list) : j < k => list[j].end + 1 < list[k].start
  BY <1>1, <1>2 DEF MergeInv
<1>4. ASSUME NEW a \in Nat
      PROVE  In(a, list, Len(list)) <=> In(a, Source(side), Len(Source(side)))
  <2>1. ~ In(a, rest, Len(rest))
    BY <1>1, InNone
  <2> QED
    BY <1>1, <2>1, InAppend DEF MergeInv
<1> HIDE DEF list
<1> QED
  BY <1>1, <1>2, <1>3, <1>4, MergeDoneIInv

\* Any order by start will do, whatever order it gives to equal starts.
LEMMA SortForMergeIInv == IInv /\ SortForMerge => IInv'
<1> SUFFICES ASSUME IInv, SortForMerge PROVE IInv'
  OBVIOUS
<1> DEFINE list == Source(side)
           m == Len(list)
<1>1. TypeOK /\ StageInv /\ MergedInv /\ side \in Sides /\ pc = "sort"
  BY DEF IInv, TypeOK, SortForMerge
<1>2. list \in Seq(Interval) /\ m \in Nat /\ m >= 1
  <2>1. list \in Seq(Interval) /\ m = Len(request[side])
    BY <1>1, SourceType
  <2>2. request[side] # <<>> /\ request[side] \in Seq(Cidr)
    BY <1>1 DEF SortForMerge, TypeOK
  <2> QED
    BY <2>1, <2>2
<1>3. PICK f \in Orders(list) :
        LET sorted == [k \in 1 .. m |-> list[f[k]]] IN
        current' = Head(sorted) /\ rest' = Tail(sorted)
  BY DEF SortForMerge, Source
<1> DEFINE sorted == [k \in 1 .. m |-> list[f[k]]]
<1>4. /\ f \in [1 .. m -> 1 .. m]
      /\ \A i \in 1 .. m : \E j \in 1 .. m : f[j] = i
      /\ \A i, j \in 1 .. m : i < j => list[f[i]].start <= list[f[j]].start
  BY <1>3 DEF Orders
<1>5. sorted \in Seq(Interval) /\ Len(sorted) = m
      /\ \A k \in 1 .. m : sorted[k] = list[f[k]]
  <2> HIDE DEF list
  <2>1. ASSUME NEW k \in 1 .. m PROVE list[f[k]] \in Interval
    <3>1. f[k] \in 1 .. Len(list)
      BY <1>4
    <3> QED
      BY <3>1, <1>2
  <2> QED
    BY <2>1, <1>2
<1>6. ASSUME NEW a \in Nat PROVE In(a, sorted, m) <=> In(a, list, m)
  BY <1>4, <1>5 DEF In
<1>7. \A i, j \in 1 .. m : i < j => sorted[i].start <= sorted[j].start
  BY <1>4, <1>5
<1>8. current' = Head(sorted) /\ rest' = Tail(sorted)
  BY <1>3
<1> HIDE DEF sorted, list
<1>9. /\ sorted # <<>> /\ Head(sorted) = sorted[1] /\ Tail(sorted) \in Seq(Interval)
      /\ Len(Tail(sorted)) = m - 1
      /\ \A k \in 1 .. (m - 1) : Tail(sorted)[k] = sorted[k + 1]
  BY <1>2, <1>5
<1>10. TypeOK'
  <2>1. current' \in Interval /\ rest' \in Seq(Interval)
    BY <1>2, <1>5, <1>8, <1>9
  <2> QED
    BY <1>1, <2>1 DEF SortForMerge, TypeOK, carveVars, coverVars
<1>11. StageInv' /\ CarveInv' /\ CoverInv'
  BY <1>1 DEF SortForMerge, StageInv, CarveInv, CoverInv, carveVars, coverVars
<1>12. MergedInv'
  BY <1>1 DEF SortForMerge, MergedInv, MergedSide, Source
<1>13. MergeInv'
  <2>1. merged'[side] = <<>> /\ side' = side /\ Source(side)' = list
    BY <1>1 DEF SortForMerge, StageInv, Source, list
  <2>2. ASSUME NEW a \in Nat
        PROVE  In(a, list, m) <=> Within(a, current') \/ In(a, rest', Len(rest'))
    BY <1>5, <1>6, <1>8, <1>9, InTail
  <2>3. \A k \in 1 .. Len(rest') : current'.start <= rest'[k].start
    BY <1>2, <1>7, <1>8, <1>9
  <2>4. \A j, k \in 1 .. Len(rest') : j < k => rest'[j].start <= rest'[k].start
    BY <1>2, <1>7, <1>8, <1>9
  <2>5. \A a \in Nat : ~ In(a, <<>>, Len(<<>>))
    BY InNone
  <2> QED
    BY <2>1, <2>2, <2>3, <2>4, <2>5 DEF MergeInv
<1> QED
  BY <1>10, <1>11, <1>12, <1>13 DEF IInv

\* One iteration of merge_intervals_*_owned.
LEMMA MergeNextIInv == IInv /\ MergeNext => IInv'
<1> SUFFICES ASSUME IInv, MergeNext PROVE IInv'
  OBVIOUS
<1> DEFINE h == Head(rest)
           r == Tail(rest)
<1>1. /\ TypeOK /\ StageInv /\ MergeInv /\ MergedInv /\ side \in Sides /\ pc = "merge"
      /\ rest \in Seq(Interval) /\ rest # <<>> /\ current \in Interval
      /\ merged \in [Sides -> Seq(Interval)] /\ merged[side] \in Seq(Interval)
      /\ rest' = r /\ side' = side /\ pc' = "merge" /\ request' = request
      /\ UNCHANGED <<carveVars, coverVars>>
  BY DEF IInv, TypeOK, MergeNext
<1>2. /\ h = rest[1] /\ h \in Interval /\ r \in Seq(Interval)
      /\ Len(rest) \in Nat \ {0} /\ Len(r) = Len(rest) - 1
      /\ \A k \in 1 .. (Len(rest) - 1) : r[k] = rest[k + 1]
  BY <1>1
<1>3. MAX \in Nat /\ current.start \in 0 .. MAX /\ current.end \in 0 .. MAX
      /\ current.start <= current.end
      /\ h.start \in 0 .. MAX /\ h.end \in 0 .. MAX /\ h.start <= h.end
      /\ current.start <= h.start
  BY <1>1, <1>2, SpaceProps DEF Interval, MergeInv
<1>4. \A k \in 1 .. Len(r) : h.start <= r[k].start /\ current.start <= r[k].start
  BY <1>1, <1>2 DEF MergeInv
<1>5. \A j, k \in 1 .. Len(r) : j < k => r[j].start <= r[k].start
  BY <1>1, <1>2 DEF MergeInv
<1>6. \A a \in Nat : In(a, rest, Len(rest)) <=> Within(a, h) \/ In(a, r, Len(r))
  BY <1>1, InTail
<1>7. Source(side)' = Source(side)
  BY <1>1 DEF Source
<1> HIDE DEF h, r
<1>8. CASE Touches(h)
  <2>1. current' = Grown(h) /\ merged' = merged
    BY <1>8 DEF MergeNext, h
  <2>2. h.start <= current.end + 1
    BY <1>3, <1>8 DEF Touches, SatAdd
  <2>3. /\ current' \in Interval /\ current'.start = current.start
        /\ \A a \in Nat : Within(a, current') <=> Within(a, current) \/ Within(a, h)
    BY <2>1, <2>2, <1>1, <1>3 DEF Grown, Within, Interval
  <2>4. TypeOK'
    BY <1>1, <1>2, <2>1, <2>3 DEF TypeOK, carveVars, coverVars
  <2>5. StageInv' /\ CarveInv' /\ CoverInv'
    BY <1>1, <2>1 DEF StageInv, CarveInv, CoverInv, carveVars, coverVars
  <2>6. MergedInv'
    BY <1>1, <2>1 DEF MergedInv, MergedSide, Source
  <2>7. MergeInv'
    BY <1>1, <1>4, <1>5, <1>6, <1>7, <2>1, <2>3 DEF MergeInv
  <2> QED
    BY <2>4, <2>5, <2>6, <2>7 DEF IInv
<1>9. CASE ~ Touches(h)
  <2> DEFINE list == Append(merged[side], current)
  <2>1. current' = h /\ merged' = [merged EXCEPT ![side] = list]
    BY <1>9 DEF MergeNext, h
  <2>2. current.end + 1 < h.start
    BY <1>3, <1>9 DEF Touches, SatAdd
  <2>3. /\ list \in Seq(Interval) /\ Len(list) = Len(merged[side]) + 1
        /\ list[Len(merged[side]) + 1] = current
        /\ \A k \in 1 .. Len(merged[side]) : list[k] = merged[side][k]
    BY <1>1
  <2>4. \A a \in Nat : In(a, list, Len(list)) <=>
          In(a, merged[side], Len(merged[side])) \/ Within(a, current)
    BY <1>1, InAppend
  <2> HIDE DEF list
  <2>5. merged' \in [Sides -> Seq(Interval)] /\ merged'[side] = list
        /\ \A s \in Sides \ {side} : merged'[s] = merged[s]
    BY <1>1, <2>1, <2>3
  <2>6. TypeOK'
    BY <1>1, <1>2, <2>1, <2>5 DEF TypeOK, carveVars, coverVars
  <2>7. StageInv' /\ CarveInv' /\ CoverInv'
    BY <1>1, <2>5 DEF StageInv, CarveInv, CoverInv, carveVars, coverVars, Sides
  <2>8. MergedInv'
    <3>1. CASE side = "safelist"
      <4>1. merged'["candidates"] = merged["candidates"]
        BY <2>5, <3>1 DEF Sides
      <4>2. MergedSide("candidates")'
        BY <1>1, <3>1, <4>1 DEF MergedInv, MergedSide, Source
      <4> QED
        BY <1>1, <4>2 DEF MergedInv
    <3>2. CASE side # "safelist"
      BY <1>1, <3>2 DEF MergedInv
    <3> QED
      BY <3>1, <3>2
  <2>9. ASSUME NEW k \in 1 .. Len(list) PROVE list[k].end + 1 < h.start
    <3>1. CASE k = Len(merged[side]) + 1
      BY <2>2, <2>3, <3>1
    <3>2. CASE k \in 1 .. Len(merged[side])
      <4>1. list[k] = merged[side][k] /\ merged[side][k].end + 1 < current.start
        BY <1>1, <2>3, <3>2 DEF MergeInv
      <4>2. merged[side][k] \in Interval
        BY <1>1, <3>2
      <4> QED
        BY <1>3, <4>1, <4>2 DEF Interval
    <3> QED
      BY <1>1, <2>3, <3>1, <3>2
  <2>10. ASSUME NEW j \in 1 .. Len(list), NEW k \in 1 .. Len(list), j < k
         PROVE  list[j].end + 1 < list[k].start
    <3>1. j \in 1 .. Len(merged[side]) /\ list[j] = merged[side][j]
      BY <1>1, <2>3, <2>10
    <3>2. CASE k = Len(merged[side]) + 1
      BY <1>1, <2>3, <3>1, <3>2 DEF MergeInv
    <3>3. CASE k \in 1 .. Len(merged[side])
      BY <1>1, <2>3, <2>10, <3>1, <3>3 DEF MergeInv
    <3> QED
      BY <1>1, <2>3, <3>2, <3>3
  <2>11. MergeInv'
    BY <1>1, <1>4, <1>5, <1>6, <1>7, <2>1, <2>4, <2>5, <2>9, <2>10 DEF MergeInv
  <2> QED
    BY <2>6, <2>7, <2>8, <2>11 DEF IInv
<1> QED
  BY <1>8, <1>9

-----------------------------------------------------------------------------
\* What an action of the later loops leaves alone.
LEMMA LaterFrame ==
  ASSUME IInv, pc \notin {"sort", "merge"}, pc' \notin {"sort", "merge", "subtract"},
         UNCHANGED <<request, mergeVars>>
  PROVE  /\ MergeInv' /\ MergedInv'
         /\ side = "safelist" /\ MergedSide("candidates") /\ MergedSide("safelist")
         /\ base' = base /\ carve' = carve
         /\ base \in Seq(Interval) /\ carve \in Seq(Interval)
         /\ \A s \in Sides : Source(s)' = Source(s)
<1>1. side = "safelist" /\ MergedSide("candidates") /\ MergedSide("safelist")
  BY DEF IInv, StageInv, MergedInv
<1>2. merged' = merged /\ side' = side /\ request' = request
  BY DEF mergeVars
<1>3. MergedSide("candidates")' /\ MergedSide("safelist")'
  BY <1>1, <1>2 DEF MergedSide, Source
<1>4. MergeInv' /\ MergedInv'
  BY <1>3 DEF MergeInv, MergedInv
<1>5. base \in Seq(Interval) /\ carve \in Seq(Interval)
  BY DEF IInv, TypeOK, base, carve, Sides
<1> QED
  BY <1>1, <1>2, <1>4, <1>5 DEF base, carve, Source

\* Carving is over when its result has the candidates that are not safelisted.
LEMMA CarvedAnswer ==
  ASSUME MergedSide("candidates"), MergedSide("safelist"), NEW a \in Nat
  PROVE  In(a, base, Len(base)) /\ ~ Safe(a) <=> Answer(a)
BY DEF MergedSide, Safe, Answer, base, carve

\* Entering and leaving subtract_intervals_*_merged, its early returns included.
LEMMA SubtractStepsIInv ==
  IInv /\ (SubtractTrivial \/ SubtractStart \/ SubtractDone) => IInv'
<1>1. ASSUME IInv, SubtractTrivial PROVE IInv'
  <2>1. /\ pc = "subtract" /\ pc' = "cover" /\ UNCHANGED <<request, mergeVars>>
        /\ carved' = base /\ n' = n /\ start' = start /\ out' = out
        /\ (base = <<>> \/ carve = <<>>)
    BY <1>1 DEF SubtractTrivial, coverVars
  <2>2. /\ MergeInv' /\ MergedInv' /\ side = "safelist"
        /\ MergedSide("candidates") /\ MergedSide("safelist")
        /\ base \in Seq(Interval) /\ \A s \in Sides : Source(s)' = Source(s)
    BY <1>1, <2>1, LaterFrame
  <2>3. TypeOK'
    BY <1>1, <2>1, <2>2 DEF SubtractTrivial, IInv, TypeOK, mergeVars
  <2>4. n = 1 /\ out = <<>>
    BY <1>1, <2>1 DEF IInv, StageInv
  <2>5. StageInv' /\ CarveInv'
    BY <1>1, <2>1, <2>2 DEF IInv, StageInv, CarveInv, mergeVars
  <2>6. ASSUME NEW a \in Nat PROVE In(a, base, Len(base)) <=> Answer(a)
    <3>1. CASE base = <<>>
      BY <2>2, <3>1, CarvedAnswer, InNone
    <3>2. CASE carve = <<>>
      BY <2>2, <3>2, CarvedAnswer, InNone DEF Safe
    <3> QED
      BY <2>1, <3>1, <3>2
  <2>7. \A a \in Nat : Answer(a)' <=> Answer(a)
    BY <2>2 DEF Answer, Sides
  <2>8. Len(out') = 0 /\ \A a \in Nat : ~ Emitted(a)'
    BY <2>1, <2>4, InNone DEF Emitted
  <2>9. CoverInv'
    BY <2>1, <2>2, <2>4, <2>6, <2>7, <2>8, InNone DEF CoverInv
  <2> QED
    BY <2>2, <2>3, <2>5, <2>9 DEF IInv
<1>2. ASSUME IInv, SubtractStart PROVE IInv'
  <2>1. /\ pc = "subtract" /\ pc' = "skip" /\ UNCHANGED <<request, mergeVars>>
        /\ UNCHANGED <<b, carveIdx, idx, nextStart, carved, n, start, out>>
    BY <1>2 DEF SubtractStart, coverVars, carveVars
  <2>2. /\ MergeInv' /\ MergedInv' /\ side = "safelist" /\ base' = base /\ carve' = carve
        /\ base \in Seq(Interval) /\ carve \in Seq(Interval)
    BY <1>2, <2>1, LaterFrame
  <2>3. TypeOK'
    BY <1>2, <2>1 DEF IInv, TypeOK, mergeVars
  <2>4. b = 1 /\ carveIdx = 1 /\ carved = <<>>
    BY <1>2, <2>1 DEF IInv, StageInv
  <2>5. StageInv' /\ CoverInv'
    BY <1>2, <2>1, <2>2 DEF IInv, StageInv, CoverInv, mergeVars
  <2>6. CarveInv'
    BY <2>1, <2>2, <2>4, InNone DEF CarveInv
  <2> QED
    BY <2>2, <2>3, <2>5, <2>6 DEF IInv
<1>3. ASSUME IInv, SubtractDone PROVE IInv'
  <2>1. /\ pc = "skip" /\ pc' = "cover" /\ UNCHANGED <<request, mergeVars>>
        /\ UNCHANGED <<b, carveIdx, idx, nextStart, carved, n, start, out>>
        /\ b > Len(base)
    BY <1>3 DEF SubtractDone, coverVars, carveVars
  <2>2. /\ MergeInv' /\ MergedInv' /\ side = "safelist"
        /\ MergedSide("candidates") /\ MergedSide("safelist")
        /\ base \in Seq(Interval) /\ \A s \in Sides : Source(s)' = Source(s)
    BY <1>3, <2>1, LaterFrame
  <2>3. TypeOK'
    BY <1>3, <2>1 DEF IInv, TypeOK, mergeVars
  <2>4. n = 1 /\ out = <<>> /\ carved \in Seq(Interval)
    BY <1>3, <2>1 DEF IInv, StageInv, TypeOK
  <2>5. StageInv' /\ CarveInv'
    BY <1>3, <2>1, <2>2 DEF IInv, StageInv, CarveInv, mergeVars
  <2>6. ASSUME NEW a \in Nat PROVE In(a, carved, Len(carved)) <=> Answer(a)
    <3>1. b - 1 = Len(base)
      <4>1. b \in Nat /\ b <= Len(base) + 1
        BY <1>3, <2>1 DEF IInv, CarveInv, TypeOK
      <4> QED
        BY <2>1, <2>2, <4>1
    <3> QED
      BY <1>3, <2>1, <2>2, <3>1, CarvedAnswer DEF IInv, CarveInv
  <2>7. \A a \in Nat : Answer(a)' <=> Answer(a)
    BY <2>2 DEF Answer, Sides
  <2>8. Len(out') = 0 /\ \A a \in Nat : ~ Emitted(a)'
    BY <2>1, <2>4, InNone DEF Emitted
  <2>9. CoverInv'
    BY <2>1, <2>4, <2>6, <2>7, <2>8, InNone DEF CoverInv
  <2> QED
    BY <2>2, <2>3, <2>5, <2>9 DEF IInv
<1> QED
  BY <1>1, <1>2, <1>3

\* The first while loop of a base interval and the step into the second.
LEMMA SkipStepsIInv == IInv /\ (SkipCarve \/ EnterBase) => IInv'
<1>1. ASSUME IInv, SkipCarve PROVE IInv'
  <2>1. /\ pc = "skip" /\ pc' = "skip" /\ UNCHANGED <<request, mergeVars>>
        /\ UNCHANGED <<b, idx, nextStart, carved, n, start, out>>
        /\ b <= Len(base) /\ carveIdx <= Len(carve)
        /\ carve[carveIdx].end < base[b].start /\ carveIdx' = carveIdx + 1
    BY <1>1 DEF SkipCarve, coverVars
  <2>2. /\ MergeInv' /\ MergedInv' /\ base' = base /\ carve' = carve
        /\ base \in Seq(Interval) /\ carve \in Seq(Interval)
        /\ MergedSide("candidates") /\ side = "safelist"
    BY <1>1, <2>1, LaterFrame
  <2>3. b \in Nat \ {0} /\ carveIdx \in Nat \ {0}
    BY <1>1 DEF IInv, TypeOK
  <2>4. TypeOK'
    BY <1>1, <2>1, <2>3 DEF IInv, TypeOK, mergeVars
  <2>5. StageInv' /\ CoverInv'
    BY <1>1, <2>1, <2>2 DEF IInv, StageInv, CoverInv, mergeVars
  <2>6. ASSUME NEW k \in 1 .. carveIdx, NEW j \in b .. Len(base)
        PROVE  carve[k].end < base[j].start
    <3>1. base[b].start <= base[j].start
      <4>1. CASE j = b
        BY <2>1, <2>2, <2>3, <4>1 DEF Interval
      <4>2. CASE b < j
        <5>1. base[b].end + 1 < base[j].start
          BY <2>1, <2>2, <2>3, <4>2 DEF MergedSide, base
        <5>2. base[b] \in Interval /\ base[j] \in Interval
          BY <2>1, <2>2, <2>3
        <5> QED
          BY <5>1, <5>2 DEF Interval
      <4> QED
        BY <2>3, <4>1, <4>2
    <3>2. carve[k] \in Interval /\ base[j] \in Interval /\ base[b] \in Interval
      BY <2>1, <2>2, <2>3
    <3>3. CASE k = carveIdx
      BY <2>1, <3>1, <3>2, <3>3 DEF Interval
    <3>4. CASE k \in 1 .. (carveIdx - 1)
      BY <1>1, <2>1, <3>4 DEF IInv, CarveInv
    <3> QED
      BY <2>3, <3>3, <3>4
  <2>7. CarveInv'
    <3>1. /\ b <= Len(base) + 1 /\ carveIdx + 1 <= Len(carve) + 1
          /\ carveIdx' - 1 = carveIdx
      BY <2>1, <2>2, <2>3
    <3>2. \A a \in Nat : In(a, carved, Len(carved)) <=> In(a, base, b - 1) /\ ~ Safe(a)
      BY <1>1, <2>1 DEF IInv, CarveInv
    <3>3. \A a \in Nat : Safe(a)' <=> Safe(a)
      BY <2>2 DEF Safe
    <3> QED
      BY <2>1, <2>2, <2>6, <3>1, <3>2, <3>3 DEF CarveInv
  <2> QED
    BY <2>2, <2>4, <2>5, <2>7 DEF IInv
<1>2. ASSUME IInv, EnterBase PROVE IInv'
  <2>1. /\ pc = "skip" /\ pc' = "carve" /\ UNCHANGED <<request, mergeVars>>
        /\ UNCHANGED <<b, carveIdx, carved, n, start, out>>
        /\ b <= Len(base) /\ idx' = carveIdx /\ nextStart' = base[b].start
    BY <1>2 DEF EnterBase, coverVars
  <2>2. /\ MergeInv' /\ MergedInv' /\ base' = base /\ carve' = carve
        /\ base \in Seq(Interval) /\ carve \in Seq(Interval) /\ side = "safelist"
    BY <1>2, <2>1, LaterFrame
  <2>3. b \in Nat \ {0} /\ carveIdx \in Nat \ {0}
    BY <1>2 DEF IInv, TypeOK
  <2>4. base[b] \in Interval
    BY <2>1, <2>2, <2>3
  <2>5. base[b].start \in 0 .. MAX /\ base[b].end \in 0 .. MAX /\ base[b].start <= base[b].end
    BY <2>4 DEF Interval
  <2>6. TypeOK'
    BY <1>2, <2>1, <2>3, <2>5 DEF IInv, TypeOK, mergeVars
  <2>7. StageInv' /\ CoverInv'
    BY <1>2, <2>1, <2>2 DEF IInv, StageInv, CoverInv, mergeVars
  <2>8. CarveInv'
    <3>1. carveIdx <= Len(carve) + 1
          /\ \A k \in 1 .. (carveIdx - 1) : carve[k].end < base[b].start
      BY <1>2, <2>1, <2>2, <2>3 DEF IInv, CarveInv
    <3>2. \A a \in Nat : In(a, carved, Len(carved)) <=> In(a, base, b - 1) /\ ~ Safe(a)
      BY <1>2, <2>1 DEF IInv, CarveInv
    <3>3. \A a \in Nat : Safe(a)' <=> Safe(a)
      BY <2>2 DEF Safe
    <3>4. \A a \in Nat : ~ (base[b].start <= a /\ a < base[b].start)
      BY <2>5, SpaceProps
    <3> QED
      BY <2>1, <2>2, <2>5, <3>1, <3>2, <3>3, <3>4, SpaceProps DEF CarveInv
  <2> QED
    BY <2>2, <2>6, <2>7, <2>8 DEF IInv
<1> QED
  BY <1>1, <1>2

\* Every fact the three steps of the carve loop start from.
LEMMA CarveFacts ==
  ASSUME IInv, pc = "carve", pc' \in {"carve", "skip"},
         UNCHANGED <<request, mergeVars, coverVars>>
  PROVE  /\ MergeInv' /\ MergedInv' /\ base' = base /\ carve' = carve
         /\ StageInv' /\ CoverInv'
         /\ base \in Seq(Interval) /\ carve \in Seq(Interval)
         /\ carved \in Seq(Interval)
         /\ b \in 1 .. Len(base) /\ idx \in Nat \ {0} /\ idx <= Len(carve) + 1
         /\ nextStart \in 0 .. MAX /\ base[b] \in Interval
         /\ \A k \in 1 .. Len(carve) : carve[k] \in Interval
         /\ base[b].start <= nextStart /\ nextStart <= base[b].end
         /\ \A a \in Nat : In(a, carved, Len(carved)) <=>
              /\ In(a, base, b - 1) \/ (base[b].start <= a /\ a < nextStart)
              /\ ~ Safe(a)
         /\ \A a \in Nat : Safe(a)' <=> Safe(a)
         /\ \A k \in 1 .. (idx - 1) : carve[k].end < nextStart
         /\ \A j, k \in 1 .. Len(carve) : j < k => carve[j].end + 1 < carve[k].start
         /\ \A j, k \in 1 .. Len(base) : j < k => base[j].end + 1 < base[k].start
<1>1. /\ MergeInv' /\ MergedInv' /\ base' = base /\ carve' = carve
      /\ base \in Seq(Interval) /\ carve \in Seq(Interval)
      /\ MergedSide("candidates") /\ MergedSide("safelist") /\ side = "safelist"
  BY LaterFrame
<1>2. StageInv' /\ CoverInv'
  BY <1>1 DEF IInv, StageInv, CoverInv, mergeVars, coverVars
<1>3. carved \in Seq(Interval) /\ b \in Nat \ {0} /\ idx \in Nat \ {0} /\ nextStart \in 0 .. MAX
  BY DEF IInv, TypeOK
<1>4. /\ b <= Len(base) /\ idx <= Len(carve) + 1
      /\ base[b].start <= nextStart /\ nextStart <= base[b].end
      /\ \A a \in Nat : In(a, carved, Len(carved)) <=>
           /\ In(a, base, b - 1) \/ (base[b].start <= a /\ a < nextStart)
           /\ ~ Safe(a)
      /\ \A k \in 1 .. (idx - 1) : carve[k].end < nextStart
  BY DEF IInv, CarveInv
<1>5. b \in 1 .. Len(base) /\ base[b] \in Interval
  BY <1>1, <1>3, <1>4
<1>6. /\ \A j, k \in 1 .. Len(carve) : j < k => carve[j].end + 1 < carve[k].start
      /\ \A j, k \in 1 .. Len(base) : j < k => base[j].end + 1 < base[k].start
  BY <1>1 DEF MergedSide, base, carve
<1>7. \A a \in Nat : Safe(a)' <=> Safe(a)
  BY <1>1 DEF Safe
<1>8. \A k \in 1 .. Len(carve) : carve[k] \in Interval
  BY <1>1
<1> QED
  BY <1>1, <1>2, <1>3, <1>4, <1>5, <1>6, <1>7, <1>8

\* From next_start to the end of the carve interval, that interval alone says
\* what is safelisted.
LEMMA CarveGap ==
  ASSUME carve \in Seq(Interval), idx \in 1 .. Len(carve), nextStart \in Nat,
         \A k \in 1 .. (idx - 1) : carve[k].end < nextStart,
         \A j, k \in 1 .. Len(carve) : j < k => carve[j].end + 1 < carve[k].start,
         NEW a \in Nat, nextStart <= a, a <= carve[idx].end
  PROVE  Safe(a) <=> carve[idx].start <= a
<1>1. ASSUME Safe(a) PROVE carve[idx].start <= a
  <2>1. PICK j \in 1 .. Len(carve) : carve[j].start <= a /\ a <= carve[j].end
    BY <1>1 DEF Safe, In
  <2>2. carve[j] \in Interval /\ carve[idx] \in Interval /\ MAX \in Nat
    BY SpaceProps
  <2>3. ~ (j < idx)
    BY <2>1, <2>2 DEF Interval
  <2>4. ~ (idx < j)
    BY <2>1, <2>2 DEF Interval
  <2>5. j = idx
    BY <2>3, <2>4
  <2> QED
    BY <2>1, <2>5
<1>2. ASSUME carve[idx].start <= a PROVE Safe(a)
  BY <1>2 DEF Safe, In
<1> QED
  BY <1>1, <1>2

\* The piece before a carve interval is what WithGap appends.
LEMMA WithGapProps ==
  ASSUME carved \in Seq(Interval), nextStart \in 0 .. MAX, NEW c \in Interval
  PROVE  /\ WithGap(c) \in Seq(Interval)
         /\ \A a \in Nat : In(a, WithGap(c), Len(WithGap(c))) <=>
              In(a, carved, Len(carved)) \/ (nextStart <= a /\ a < c.start)
<1>1. CASE c.start > nextStart
  <2> DEFINE i == [start |-> nextStart, end |-> c.start - 1]
  <2>1. i \in Interval
    BY <1>1, SpaceProps DEF Interval
  <2>2. WithGap(c) = Append(carved, i)
    BY <1>1 DEF WithGap
  <2>3. \A a \in Nat : Within(a, i) <=> nextStart <= a /\ a < c.start
    BY <1>1, SpaceProps DEF Within, Interval
  <2> HIDE DEF i
  <2> QED
    BY <2>1, <2>2, <2>3, InAppend
<1>2. CASE ~ (c.start > nextStart)
  <2>1. \A a \in Nat : ~ (nextStart <= a /\ a < c.start)
    BY <1>2, SpaceProps DEF Interval
  <2> QED
    BY <1>2, <2>1 DEF WithGap
<1> QED
  BY <1>1, <1>2

\* A carve interval that ends inside the base interval.
LEMMA CarveInsideIInv == IInv /\ CarveInside => IInv'
<1> SUFFICES ASSUME IInv, CarveInside PROVE IInv'
  OBVIOUS
<1> DEFINE c == carve[idx]
<1>1. /\ pc = "carve" /\ pc' = "carve" /\ UNCHANGED <<request, mergeVars, coverVars>>
      /\ UNCHANGED <<b, carveIdx>> /\ idx <= Len(carve) /\ c.start <= base[b].end
      /\ c.end < base[b].end /\ idx' = idx + 1
      /\ carved' = IF c.end < nextStart THEN carved ELSE WithGap(c)
      /\ nextStart' = IF c.end < nextStart THEN nextStart ELSE c.end + 1
  BY DEF CarveInside, Carving
<1>2. /\ MergeInv' /\ MergedInv' /\ base' = base /\ carve' = carve
      /\ StageInv' /\ CoverInv'
      /\ base \in Seq(Interval) /\ carve \in Seq(Interval)
      /\ carved \in Seq(Interval)
      /\ b \in 1 .. Len(base) /\ idx \in Nat \ {0} /\ idx <= Len(carve) + 1
      /\ nextStart \in 0 .. MAX /\ base[b] \in Interval
      /\ \A k \in 1 .. Len(carve) : carve[k] \in Interval
      /\ base[b].start <= nextStart /\ nextStart <= base[b].end
      /\ \A a \in Nat : In(a, carved, Len(carved)) <=>
           /\ In(a, base, b - 1) \/ (base[b].start <= a /\ a < nextStart)
           /\ ~ Safe(a)
      /\ \A a \in Nat : Safe(a)' <=> Safe(a)
      /\ \A k \in 1 .. (idx - 1) : carve[k].end < nextStart
      /\ \A j, k \in 1 .. Len(carve) : j < k => carve[j].end + 1 < carve[k].start
  BY <1>1, CarveFacts
<1>3. idx \in 1 .. Len(carve) /\ c \in Interval
  BY <1>1, <1>2
<1>4. /\ MAX \in Nat /\ c.start \in 0 .. MAX /\ c.end \in 0 .. MAX /\ c.start <= c.end
      /\ base[b].start \in 0 .. MAX /\ base[b].end \in 0 .. MAX
  BY <1>2, <1>3, SpaceProps DEF Interval
<1>5. carved' \in Seq(Interval) /\ nextStart' \in 0 .. MAX
      /\ base[b].start <= nextStart' /\ nextStart' <= base[b].end
      /\ nextStart <= nextStart' /\ c.end < nextStart'
  <2>1. WithGap(c) \in Seq(Interval)
    BY <1>2, <1>3, WithGapProps
  <2>2. carved' \in Seq(Interval)
    BY <1>1, <1>2, <2>1
  <2>3. /\ nextStart \in 0 .. MAX /\ base[b].start <= nextStart /\ nextStart <= base[b].end
        /\ c.end < base[b].end
        /\ nextStart' = IF c.end < nextStart THEN nextStart ELSE c.end + 1
    BY <1>1, <1>2
  <2> HIDE DEF c
  <2>4. nextStart' \in 0 .. MAX
        /\ base[b].start <= nextStart' /\ nextStart' <= base[b].end
        /\ nextStart <= nextStart' /\ c.end < nextStart'
    BY <1>4, <2>3
  <2> QED
    BY <2>2, <2>4
<1>6. TypeOK'
  BY <1>1, <1>2, <1>5 DEF IInv, TypeOK, mergeVars, coverVars
<1>7. ASSUME NEW a \in Nat
      PROVE  In(a, carved', Len(carved')) <=>
               /\ In(a, base, b - 1) \/ (base[b].start <= a /\ a < nextStart')
               /\ ~ Safe(a)
  <2>1. CASE c.end < nextStart
    BY <1>1, <1>2, <2>1
  <2>2. CASE ~ (c.end < nextStart)
    <3>1. In(a, carved', Len(carved')) <=>
            In(a, carved, Len(carved)) \/ (nextStart <= a /\ a < c.start)
      BY <1>1, <1>2, <1>3, <2>2, WithGapProps
    <3>2. nextStart <= a /\ a <= c.end => (Safe(a) <=> c.start <= a)
      BY <1>2, <1>3, <1>4, CarveGap
    <3>3. nextStart' = c.end + 1
      BY <1>1, <2>2
    <3>4. In(a, carved, Len(carved)) <=>
            /\ In(a, base, b - 1) \/ (base[b].start <= a /\ a < nextStart)
            /\ ~ Safe(a)
      BY <1>2
    <3>5. base[b].start <= nextStart /\ nextStart \in 0 .. MAX
      BY <1>2
    <3> HIDE DEF c
    <3> QED
      BY <1>4, <2>2, <3>1, <3>2, <3>3, <3>4, <3>5
  <2> QED
    BY <2>1, <2>2
<1>8. ASSUME NEW k \in 1 .. idx PROVE carve[k].end < nextStart'
  <2>1. carve[k] \in Interval
    BY <1>2, <1>3
  <2>2. CASE k = idx
    BY <1>5, <2>2
  <2>3. CASE k \in 1 .. (idx - 1)
    <3>1. carve[k].end < nextStart /\ nextStart \in Int
      BY <1>2, <2>3
    <3>2. carve[k].end \in Nat
      BY <2>1, IntervalFields
    <3>3. nextStart <= nextStart' /\ nextStart' \in Int
      BY <1>5
    <3> QED
      BY <3>1, <3>2, <3>3
  <2> QED
    BY <1>3, <2>2, <2>3
<1>9. CarveInv'
  <2>1. idx' - 1 = idx /\ idx' <= Len(carve) + 1
    BY <1>1, <1>2
  <2> HIDE DEF c
  <2> QED
    BY <1>1, <1>2, <1>5, <1>7, <1>8, <2>1 DEF CarveInv
<1> QED
  BY <1>2, <1>6, <1>9 DEF IInv

\* The two ways to leave the carve loop of a base interval.
LEMMA CarveLeaveIInv == IInv /\ (CarveToEnd \/ CarveRest) => IInv'
<1> SUFFICES ASSUME IInv, CarveToEnd \/ CarveRest PROVE IInv'
  OBVIOUS
<1> DEFINE c == carve[idx]
<1>1. /\ pc = "carve" /\ pc' = "skip" /\ UNCHANGED <<request, mergeVars, coverVars>>
      /\ UNCHANGED <<idx, nextStart>> /\ b' = b + 1 /\ carveIdx' = idx
  BY DEF CarveToEnd, CarveRest, NextBase
<1>2. /\ MergeInv' /\ MergedInv' /\ base' = base /\ carve' = carve
      /\ StageInv' /\ CoverInv'
      /\ base \in Seq(Interval) /\ carve \in Seq(Interval)
      /\ carved \in Seq(Interval)
      /\ b \in 1 .. Len(base) /\ idx \in Nat \ {0} /\ idx <= Len(carve) + 1
      /\ nextStart \in 0 .. MAX /\ base[b] \in Interval
      /\ \A k \in 1 .. Len(carve) : carve[k] \in Interval
      /\ base[b].start <= nextStart /\ nextStart <= base[b].end
      /\ \A a \in Nat : In(a, carved, Len(carved)) <=>
           /\ In(a, base, b - 1) \/ (base[b].start <= a /\ a < nextStart)
           /\ ~ Safe(a)
      /\ \A a \in Nat : Safe(a)' <=> Safe(a)
      /\ \A k \in 1 .. (idx - 1) : carve[k].end < nextStart
      /\ \A j, k \in 1 .. Len(carve) : j < k => carve[j].end + 1 < carve[k].start
      /\ \A j, k \in 1 .. Len(base) : j < k => base[j].end + 1 < base[k].start
  BY <1>1, CarveFacts
<1>3. MAX \in Nat /\ base[b].start \in 0 .. MAX /\ base[b].end \in 0 .. MAX
  BY <1>2, SpaceProps DEF Interval
<1>4. /\ carved' \in Seq(Interval)
      /\ \A a \in Nat : In(a, carved', Len(carved')) <=>
           In(a, carved, Len(carved)) \/
             (nextStart <= a /\ a <= base[b].end /\ ~ Safe(a))
  <2>1. CASE CarveToEnd
    <3>1. /\ carved' = WithGap(c) /\ idx <= Len(carve) /\ c.start <= base[b].end
          /\ c.end >= nextStart /\ c.end >= base[b].end
      BY <2>1 DEF CarveToEnd, Carving
    <3>2. idx \in 1 .. Len(carve) /\ c \in Interval
      BY <1>2, <3>1
    <3>3. c.start \in 0 .. MAX /\ c.end \in 0 .. MAX
      BY <3>2 DEF Interval
    <3>4. /\ carved' \in Seq(Interval)
          /\ \A a \in Nat : In(a, carved', Len(carved')) <=>
               In(a, carved, Len(carved)) \/ (nextStart <= a /\ a < c.start)
      BY <1>2, <3>1, <3>2, WithGapProps
    <3>5. ASSUME NEW a \in Nat
          PROVE  nextStart <= a /\ a < c.start <=>
                   nextStart <= a /\ a <= base[b].end /\ ~ Safe(a)
      <4>1. nextStart <= a /\ a <= c.end => (Safe(a) <=> c.start <= a)
        BY <1>2, <1>3, <3>2, CarveGap
      <4> HIDE DEF c
      <4> QED
        BY <1>3, <3>1, <3>3, <4>1
    <3> QED
      BY <3>4, <3>5
  <2>2. CASE CarveRest
    <3> DEFINE i == [start |-> nextStart, end |-> base[b].end]
    <3>1. /\ carved' = Append(carved, i)
          /\ ~ (idx <= Len(carve) /\ c.start <= base[b].end)
      BY <1>2, <2>2 DEF CarveRest, Carving
    <3>2. i \in Interval
      BY <1>2, <1>3 DEF Interval
    <3>3. ASSUME NEW a \in Nat, nextStart <= a, a <= base[b].end PROVE ~ Safe(a)
      <4>1. SUFFICES ASSUME NEW j \in 1 .. Len(carve),
                            carve[j].start <= a, a <= carve[j].end
                     PROVE  FALSE
        BY DEF Safe, In
      <4>2. carve[j] \in Interval
        BY <1>2
      <4>3. CASE j < idx
        <5>1. carve[j].end < nextStart /\ nextStart \in Int
          BY <1>2, <4>3
        <5>2. carve[j].end \in Int
          BY <4>2, IntervalFields
        <5> QED
          BY <3>3, <4>1, <5>1, <5>2
      <4>4. CASE ~ (j < idx)
        <5>1. idx \in 1 .. Len(carve) /\ c \in Interval /\ c.start > base[b].end
          <6>1. idx \in 1 .. Len(carve)
            BY <1>2, <4>4
          <6>2. c \in Interval
            BY <1>2, <6>1
          <6>3. c.start \in Nat
            BY <6>2, IntervalFields
          <6> HIDE DEF c
          <6> QED
            BY <1>3, <3>1, <6>1, <6>2, <6>3
        <5>2. CASE j = idx
          BY <1>3, <3>3, <4>1, <5>1, <5>2 DEF Interval
        <5>3. CASE idx < j
          <6>1. c.end + 1 < carve[j].start
            BY <1>2, <5>1, <5>3
          <6> QED
            BY <1>3, <3>3, <4>1, <4>2, <5>1, <6>1 DEF Interval
        <5> QED
          BY <1>2, <4>4, <5>2, <5>3
      <4> QED
        BY <4>3, <4>4
    <3>4. \A a \in Nat : Within(a, i) <=> nextStart <= a /\ a <= base[b].end
      BY DEF Within
    <3>5. \A a \in Nat : In(a, carved', Len(carved')) <=>
            In(a, carved, Len(carved)) \/ Within(a, i)
      BY <1>2, <3>1, <3>2, InAppend
    <3>6. carved' \in Seq(Interval)
      BY <1>2, <3>1, <3>2
    <3> HIDE DEF i
    <3> QED
      BY <3>3, <3>4, <3>5, <3>6
  <2> QED
    BY <2>1, <2>2
<1>5. TypeOK'
  BY <1>1, <1>2, <1>4 DEF IInv, TypeOK, mergeVars, coverVars
<1>6. ASSUME NEW a \in Nat
      PROVE  In(a, carved', Len(carved')) <=> In(a, base, b) /\ ~ Safe(a)
  <2>1. In(a, base, b) <=> In(a, base, b - 1) \/ (base[b].start <= a /\ a <= base[b].end)
    BY <1>2, InNext DEF Within
  <2>2. In(a, carved', Len(carved')) <=>
          In(a, carved, Len(carved)) \/
            (nextStart <= a /\ a <= base[b].end /\ ~ Safe(a))
    BY <1>4
  <2>3. In(a, carved, Len(carved)) <=>
          /\ In(a, base, b - 1) \/ (base[b].start <= a /\ a < nextStart)
          /\ ~ Safe(a)
    BY <1>2
  <2>4. base[b].start <= nextStart /\ nextStart <= base[b].end /\ nextStart \in 0 .. MAX
    BY <1>2
  <2> QED
    BY <1>3, <2>1, <2>2, <2>3, <2>4
<1>7. ASSUME NEW k \in 1 .. (idx - 1), NEW j \in (b + 1) .. Len(base)
      PROVE  carve[k].end < base[j].start
  <2>1. base[b].end + 1 < base[j].start /\ base[j] \in Interval
    BY <1>2
  <2>2. carve[k].end < nextStart /\ carve[k] \in Interval
    BY <1>2
  <2>3. nextStart <= base[b].end /\ nextStart \in Int
    BY <1>2
  <2>4. carve[k].end \in Int /\ base[j].start \in Int /\ base[b].end \in Int
    BY <1>3, <2>1, <2>2, IntervalFields
  <2> QED
    BY <2>1, <2>2, <2>3, <2>4
<1>8. CarveInv'
  <2>1. b' - 1 = b /\ b' <= Len(base) + 1 /\ idx <= Len(carve) + 1
    BY <1>1, <1>2
  <2> HIDE DEF c
  <2> QED
    BY <1>1, <1>2, <1>6, <1>7, <2>1 DEF CarveInv
<1> QED
  BY <1>2, <1>5, <1>8 DEF IInv

-----------------------------------------------------------------------------
\* largest_prefix returns a single address or a block it has tested, and has tested
\* that the next larger one does not do.
LEMMA LargestPrefixProps ==
  ASSUME NEW x, NEW last
  PROVE  LET p == LargestPrefix(x, last) IN
         /\ p \in 0 .. Width
         /\ p = Width \/ Widens(x, last, p)
         /\ p = 0 \/ ~ Widens(x, last, p - 1)
<1> DEFINE P(p) == /\ \A q \in p .. (Width - 1) : Widens(x, last, q)
                   /\ p = 0 \/ ~ Widens(x, last, p - 1)
           S == {p \in 0 .. Width : \A q \in p .. (Width - 1) : Widens(x, last, q)}
<1>1. Width \in S /\ S \subseteq Nat
  BY WidthAssumption
<1>2. Min(S) \in S /\ \A y \in S : Min(S) <= y
  BY <1>1, MinFirst
<1>3. P(Min(S))
  <2> DEFINE m == Min(S)
  <2>1. m \in 0 .. Width /\ \A q \in m .. (Width - 1) : Widens(x, last, q)
    BY <1>2
  <2>2. ASSUME m # 0, Widens(x, last, m - 1) PROVE FALSE
    <3>1. m - 1 \in 0 .. Width
      BY <2>1, <2>2, WidthAssumption
    <3>2. ASSUME NEW q \in (m - 1) .. (Width - 1) PROVE Widens(x, last, q)
      <4>1. CASE q = m - 1
        BY <2>2, <4>1
      <4>2. CASE q \in m .. (Width - 1)
        BY <2>1, <4>2
      <4> HIDE DEF m
      <4> QED
        BY <2>1, <4>1, <4>2, WidthAssumption
    <3>3. m - 1 \in S
      BY <3>1, <3>2
    <3>4. m <= m - 1
      BY <1>2, <3>3
    <3> HIDE DEF m
    <3> QED
      BY <2>1, <3>4
  <2> QED
    BY <2>1, <2>2
<1>4. \E p \in 0 .. Width : P(p)
  BY <1>2, <1>3
<1>5. LargestPrefix(x, last) = CHOOSE p \in 0 .. Width : P(p)
  BY DEF LargestPrefix
<1>6. LargestPrefix(x, last) \in 0 .. Width /\ P(LargestPrefix(x, last))
  BY <1>4, <1>5
<1> DEFINE p == LargestPrefix(x, last)
<1>7. ASSUME p # Width PROVE Widens(x, last, p)
  <2>1. p \in p .. (Width - 1)
    BY <1>6, <1>7, WidthAssumption
  <2> QED
    BY <1>6, <2>1
<1> QED
  BY <1>6, <1>7

(***************************************************************************)
(* The block emitted begins at start and ends inside the interval; when    *)
(* the loop breaks it ends at the end of the address space, otherwise the  *)
(* next block begins right after it.                                       *)
(***************************************************************************)
LEMMA BlockProps ==
  ASSUME NEW x \in 0 .. MAX, NEW last \in 0 .. MAX, x <= last
  PROVE  LET p == LargestPrefix(x, last)
             c == FromParts(x, p)
         IN  /\ p \in 0 .. Width
             /\ c \in Parts
             /\ ToInterval(c).start = x
             /\ ToInterval(c).end \in Nat /\ x <= ToInterval(c).end
             /\ ToInterval(c).end <= last
             /\ p = 0 \/ x > MAX - Pow[Width - p] => ToInterval(c).end = last
             /\ ~ (p = 0 \/ x > MAX - Pow[Width - p]) =>
                  /\ x + Pow[Width - p] \in 0 .. MAX
                  /\ x + Pow[Width - p] = ToInterval(c).end + 1
<1> DEFINE p == LargestPrefix(x, last)
           d == Pow[Width - p]
           c == FromParts(x, p)
<1>1. p \in 0 .. Width /\ (p = Width \/ Widens(x, last, p))
  BY LargestPrefixProps
<1>2. d \in Nat /\ d >= 1 /\ MAX \in Nat /\ Width \in Nat
  BY <1>1, SpaceProps, WidthAssumption
<1>3. x % d = 0
  <2>1. CASE p = Width
    <3>1. d = 1
      BY <2>1, SpaceProps, WidthAssumption
    <3> QED
      BY <3>1
  <2>2. CASE Widens(x, last, p)
    BY <2>2 DEF Widens, IsAligned
  <2> QED
    BY <1>1, <2>1, <2>2
<1>4. c = [network |-> x, prefix |-> p]
  BY <1>3 DEF FromParts
<1>5. c \in Parts
  BY <1>1, <1>4 DEF Parts
<1>6. ToInterval(c).start = x /\ ToInterval(c).end = SatAdd(x, d - 1)
  BY <1>4 DEF ToInterval, BlockEnd, HostMask
<1>7. SatAdd(x, d - 1) <= last
  <2>1. CASE p = Width
    <3>1. d = 1
      BY <2>1, SpaceProps, WidthAssumption
    <3> QED
      BY <3>1, <1>2 DEF SatAdd
  <2>2. CASE Widens(x, last, p)
    BY <2>2 DEF Widens, BlockEnd, HostMask
  <2> QED
    BY <1>1, <2>1, <2>2
<1>8. p = 0 => d = MAX + 1
  BY <1>1, SpaceProps, WidthAssumption
<1> HIDE DEF d, p, c
<1>9. SatAdd(x, d - 1) \in Nat /\ x <= SatAdd(x, d - 1)
  BY <1>2 DEF SatAdd
<1>10. p = 0 \/ x > MAX - d => SatAdd(x, d - 1) = last
  BY <1>2, <1>7, <1>8 DEF SatAdd
<1>11. ~ (p = 0 \/ x > MAX - d) => x + d \in 0 .. MAX /\ x + d = SatAdd(x, d - 1) + 1
  BY <1>2 DEF SatAdd
<1> QED
  BY <1>1, <1>5, <1>6, <1>7, <1>9, <1>10, <1>11 DEF p, c, d

\* What the steps of the last loop leave alone.
LEMMA CoverFrame ==
  ASSUME IInv, pc \in {"cover", "block"}, pc' \in {"cover", "block", "done"},
         UNCHANGED <<request, mergeVars, carveVars>>
  PROVE  /\ MergeInv' /\ MergedInv' /\ StageInv' /\ CarveInv'
         /\ carved' = carved /\ carved \in Seq(Interval)
         /\ \A a \in Nat : In(a, carved, Len(carved)) <=> Answer(a)
         /\ \A a \in Nat : Answer(a)' <=> Answer(a)
         /\ n \in Nat \ {0} /\ out \in Seq(Parts)
<1>1. /\ MergeInv' /\ MergedInv' /\ side = "safelist"
      /\ \A s \in Sides : Source(s)' = Source(s)
  BY LaterFrame
<1>2. StageInv' /\ CarveInv'
  BY <1>1 DEF IInv, StageInv, CarveInv, mergeVars
<1>3. carved' = carved /\ carved \in Seq(Interval) /\ n \in Nat \ {0} /\ out \in Seq(Parts)
  BY DEF IInv, TypeOK, carveVars
<1>4. \A a \in Nat : In(a, carved, Len(carved)) <=> Answer(a)
  BY DEF IInv, CoverInv
<1>5. \A a \in Nat : Answer(a)' <=> Answer(a)
  BY <1>1 DEF Answer, Sides
<1> QED
  BY <1>1, <1>2, <1>3, <1>4, <1>5

\* Entering and leaving the loop over the blocks of an interval.
LEMMA CoverStepsIInv == IInv /\ (NextInterval \/ EndInterval \/ CoverDone) => IInv'
<1>1. ASSUME IInv, NextInterval PROVE IInv'
  <2>1. /\ pc = "cover" /\ pc' = "block" /\ UNCHANGED <<request, mergeVars, carveVars>>
        /\ n' = n /\ out' = out /\ n <= Len(carved) /\ start' = carved[n].start
    BY <1>1 DEF NextInterval
  <2>2. /\ MergeInv' /\ MergedInv' /\ StageInv' /\ CarveInv'
        /\ carved' = carved /\ carved \in Seq(Interval)
        /\ \A a \in Nat : In(a, carved, Len(carved)) <=> Answer(a)
        /\ \A a \in Nat : Answer(a)' <=> Answer(a)
        /\ n \in Nat \ {0} /\ out \in Seq(Parts)
    BY <1>1, <2>1, CoverFrame
  <2>3. carved[n] \in Interval
    BY <2>1, <2>2
  <2>4. /\ carved[n].start \in 0 .. MAX /\ carved[n].start <= carved[n].end + 1
    BY <2>3, SpaceProps DEF Interval
  <2>5. TypeOK'
    BY <1>1, <2>1, <2>4 DEF IInv, TypeOK, mergeVars, carveVars
  <2>6. \A a \in Nat : Emitted(a)' <=> Emitted(a)
    BY <2>1 DEF Emitted
  <2>7. \A a \in Nat : Emitted(a) <=> In(a, carved, n - 1)
    BY <1>1, <2>1 DEF IInv, CoverInv
  <2>8. \A a \in Nat : ~ (carved[n].start <= a /\ a < carved[n].start)
    BY <2>4, SpaceProps
  <2>9. CoverInv'
    BY <2>1, <2>2, <2>4, <2>6, <2>7, <2>8, SpaceProps DEF CoverInv
  <2> QED
    BY <2>2, <2>5, <2>9 DEF IInv
<1>2. ASSUME IInv, EndInterval PROVE IInv'
  <2>1. /\ pc = "block" /\ pc' = "cover" /\ UNCHANGED <<request, mergeVars, carveVars>>
        /\ n' = n + 1 /\ out' = out /\ start' = start /\ start > carved[n].end
    BY <1>2 DEF EndInterval
  <2>2. /\ MergeInv' /\ MergedInv' /\ StageInv' /\ CarveInv'
        /\ carved' = carved /\ carved \in Seq(Interval)
        /\ \A a \in Nat : In(a, carved, Len(carved)) <=> Answer(a)
        /\ \A a \in Nat : Answer(a)' <=> Answer(a)
        /\ n \in Nat \ {0} /\ out \in Seq(Parts)
    BY <1>2, <2>1, CoverFrame
  <2>3. /\ n \in 1 .. Len(carved) /\ start \in 0 .. MAX
        /\ carved[n].start <= start /\ start <= carved[n].end + 1
    BY <1>2, <2>1, <2>2 DEF IInv, CoverInv, TypeOK
  <2>4. carved[n].start \in Nat /\ carved[n].end \in Nat
    BY <2>2, <2>3, IntervalFields
  <2>5. TypeOK'
    BY <1>2, <2>1, <2>2 DEF IInv, TypeOK, mergeVars, carveVars
  <2>6. ASSUME NEW a \in Nat PROVE Emitted(a)' <=> In(a, carved, n)
    <3>1. Emitted(a)' <=> Emitted(a)
      BY <2>1 DEF Emitted
    <3>2. Emitted(a) <=> In(a, carved, n - 1) \/ (carved[n].start <= a /\ a < start)
      BY <1>2, <2>1 DEF IInv, CoverInv
    <3>3. In(a, carved, n) <=>
            In(a, carved, n - 1) \/ (carved[n].start <= a /\ a <= carved[n].end)
      BY <2>2, <2>3, InNext DEF Within
    <3>4. a < start <=> a <= carved[n].end
      BY <2>1, <2>3, <2>4, SpaceProps
    <3> QED
      BY <3>1, <3>2, <3>3, <3>4
  <2>7. CoverInv'
    <3>1. n' - 1 = n /\ n' <= Len(carved) + 1
      BY <2>1, <2>2, <2>3
    <3> QED
      BY <2>1, <2>2, <2>6, <3>1 DEF CoverInv
  <2> QED
    BY <2>2, <2>5, <2>7 DEF IInv
<1>3. ASSUME IInv, CoverDone PROVE IInv'
  <2>1. /\ pc = "cover" /\ pc' = "done" /\ UNCHANGED <<request, mergeVars, carveVars>>
        /\ n' = n /\ out' = out /\ start' = start /\ n > Len(carved)
    BY <1>3 DEF CoverDone, coverVars
  <2>2. /\ MergeInv' /\ MergedInv' /\ StageInv' /\ CarveInv'
        /\ carved' = carved /\ carved \in Seq(Interval)
        /\ \A a \in Nat : In(a, carved, Len(carved)) <=> Answer(a)
        /\ \A a \in Nat : Answer(a)' <=> Answer(a)
        /\ n \in Nat \ {0} /\ out \in Seq(Parts)
    BY <1>3, <2>1, CoverFrame
  <2>3. TypeOK'
    BY <1>3, <2>1 DEF IInv, TypeOK, mergeVars, carveVars
  <2>4. \A a \in Nat : Emitted(a)' <=> Emitted(a)
    BY <2>1 DEF Emitted
  <2>5. /\ n <= Len(carved) + 1
        /\ \A a \in Nat : Emitted(a) <=> In(a, carved, n - 1)
    BY <1>3, <2>1 DEF IInv, CoverInv
  <2>6. n - 1 = Len(carved)
    BY <2>1, <2>2, <2>5
  <2>7. CoverInv'
    BY <2>1, <2>2, <2>4, <2>5, <2>6 DEF CoverInv
  <2> QED
    BY <2>2, <2>3, <2>7 DEF IInv
<1> QED
  BY <1>1, <1>2, <1>3

\* One block: the step after which the code guards its addition.
LEMMA EmitBlockIInv == IInv /\ EmitBlock => IInv'
<1> SUFFICES ASSUME IInv, EmitBlock PROVE IInv'
  OBVIOUS
<1> DEFINE last == carved[n].end
           p == LargestPrefix(start, last)
           c == FromParts(start, p)
           i == ToInterval(c)
<1>1. /\ pc = "block" /\ start <= last /\ out' = Append(out, c)
      /\ IF LastBlock(p) THEN n' = n + 1 /\ pc' = "cover" /\ UNCHANGED start
                         ELSE start' = start + Pow[Width - p] /\ UNCHANGED <<n, pc>>
      /\ UNCHANGED <<request, mergeVars, carveVars>>
  BY DEF EmitBlock
<1>2. pc' \in {"cover", "block"}
  BY <1>1
<1>3. /\ MergeInv' /\ MergedInv' /\ StageInv' /\ CarveInv'
      /\ carved' = carved /\ carved \in Seq(Interval)
      /\ \A a \in Nat : In(a, carved, Len(carved)) <=> Answer(a)
      /\ \A a \in Nat : Answer(a)' <=> Answer(a)
      /\ n \in Nat \ {0} /\ out \in Seq(Parts)
  BY <1>1, <1>2, CoverFrame
<1>4. /\ n \in 1 .. Len(carved) /\ start \in 0 .. MAX /\ carved[n].start <= start
  BY <1>1, <1>3 DEF IInv, CoverInv, TypeOK
<1>5. carved[n].start \in Nat /\ last \in 0 .. MAX /\ MAX \in Nat
  BY <1>3, <1>4, IntervalFields, SpaceProps
<1>6. /\ p \in 0 .. Width /\ c \in Parts
      /\ i.start = start /\ i.end \in Nat /\ start <= i.end /\ i.end <= last
      /\ LastBlock(p) => i.end = last
      /\ ~ LastBlock(p) => /\ start + Pow[Width - p] \in 0 .. MAX
                           /\ start + Pow[Width - p] = i.end + 1
  BY <1>1, <1>4, <1>5, BlockProps DEF LastBlock
<1> HIDE DEF p, c, i
<1>7. out' \in Seq(Parts) /\ Len(out') = Len(out) + 1
      /\ out'[Len(out) + 1] = c /\ \A k \in 1 .. Len(out) : out'[k] = out[k]
  BY <1>1, <1>3, <1>6
<1>8. ASSUME NEW a \in Nat
      PROVE  Emitted(a)' <=>
               In(a, carved, n - 1) \/ (carved[n].start <= a /\ a <= i.end)
  <2>1. Emitted(a) <=> In(a, carved, n - 1) \/ (carved[n].start <= a /\ a < start)
    BY <1>1 DEF IInv, CoverInv
  <2>2. /\ \A k \in 1 .. Len(out) : Intervals(out)[k] = Intervals(out')[k]
        /\ Intervals(out')[Len(out) + 1] = i
    BY <1>3, <1>7, IntervalsType DEF i
  <2>3. Emitted(a)' <=> Emitted(a) \/ (i.start <= a /\ a <= i.end)
    <3> DEFINE old == Intervals(out)
               new == Intervals(out')
               m == Len(out)
    <3>1. m \in Nat /\ Len(out') = m + 1
      BY <1>3, <1>7
    <3>2. (\A k \in 1 .. m : old[k] = new[k]) /\ new[m + 1] = i
      BY <2>2
    <3> HIDE DEF old, new, m
    <3>3. (\E j \in 1 .. (m + 1) : new[j].start <= a /\ a <= new[j].end) <=>
            (\E j \in 1 .. m : old[j].start <= a /\ a <= old[j].end)
              \/ (i.start <= a /\ a <= i.end)
      BY <3>1, <3>2
    <3> QED
      BY <3>1, <3>3 DEF Emitted, In, old, new, m
  <2>4. carved[n].start <= a /\ a <= i.end <=>
          (carved[n].start <= a /\ a < start) \/ (i.start <= a /\ a <= i.end)
    BY <1>4, <1>5, <1>6
  <2> QED
    BY <2>1, <2>3, <2>4
<1>9. CASE LastBlock(p)
  <2>1. n' = n + 1 /\ pc' = "cover" /\ start' = start
    BY <1>1, <1>9
  <2>2. TypeOK'
    BY <1>1, <1>3, <1>7, <2>1 DEF IInv, TypeOK, mergeVars, carveVars
  <2>3. ASSUME NEW a \in Nat PROVE Emitted(a)' <=> In(a, carved, n)
    BY <1>3, <1>4, <1>6, <1>8, <1>9, InNext DEF Within
  <2>4. n' - 1 = n /\ n' <= Len(carved) + 1
    BY <1>3, <1>4, <2>1
  <2>5. CoverInv'
    BY <1>3, <2>1, <2>3, <2>4 DEF CoverInv
  <2> QED
    BY <1>3, <2>2, <2>5 DEF IInv
<1>10. CASE ~ LastBlock(p)
  <2>1. n' = n /\ pc' = "block" /\ start' = i.end + 1 /\ start' \in 0 .. MAX
    BY <1>1, <1>6, <1>10
  <2>2. TypeOK'
    BY <1>1, <1>3, <1>7, <2>1 DEF IInv, TypeOK, mergeVars, carveVars
  <2>3. ASSUME NEW a \in Nat
        PROVE  Emitted(a)' <=> In(a, carved, n - 1) \/ (carved[n].start <= a /\ a < start')
    <3>1. a < start' <=> a <= i.end
      BY <1>6, <2>1
    <3> QED
      BY <1>8, <3>1
  <2>4. carved[n].start <= start' /\ start' <= carved[n].end + 1 /\ n <= Len(carved)
    BY <1>4, <1>5, <1>6, <2>1
  <2>5. CoverInv'
    BY <1>3, <2>1, <2>3, <2>4 DEF CoverInv
  <2> QED
    BY <1>3, <2>2, <2>5 DEF IInv
<1> QED
  BY <1>9, <1>10

-----------------------------------------------------------------------------
\* Every step preserves the inductive invariant.
LEMMA NextIInv == IInv /\ [Next]_vars => IInv'
<1> SUFFICES ASSUME IInv, [Next]_vars PROVE IInv'
  OBVIOUS
<1>1. CASE UNCHANGED vars
  BY <1>1 DEF vars, IInv, TypeOK, StageInv, MergeInv, MergedInv, MergedSide, CarveInv,
              CoverInv, Source, Answer, Emitted, Safe, base, carve
<1>2. CASE Step
  BY <1>2, MergeEmptyIInv, SortForMergeIInv, MergeNextIInv, MergeEndIInv,
     SubtractStepsIInv, SkipStepsIInv, CarveInsideIInv, CarveLeaveIInv,
     CoverStepsIInv, EmitBlockIInv DEF Step
<1> QED
  BY <1>1, <1>2 DEF Next

\* The inductive invariant is an invariant.
LEMMA InvariantHolds == Spec => []IInv
<1> QED
  BY InitIInv, NextIInv, PTL DEF Spec

(***************************************************************************)
(* The loops' variables are well typed; in particular the saturating and   *)
(* guarded additions keep every bound inside the address space.            *)
(***************************************************************************)
THEOREM TypeCorrect == Spec => []TypeOK
<1>1. IInv => TypeOK
  BY DEF IInv
<1> QED
  BY <1>1, InvariantHolds, PTL

\* Covered is the set of the addresses that In finds.
LEMMA CoveredIn ==
  ASSUME NEW list \in Seq(Interval)
  PROVE  Covered(list) = {a \in Nat : In(a, list, Len(list))}
<1>1. ASSUME NEW a, a \in Covered(list)
      PROVE  a \in Nat /\ In(a, list, Len(list))
  <2>1. PICK k \in 1 .. Len(list) : a \in list[k].start .. list[k].end
    BY <1>1 DEF Covered, Addresses
  <2>2. list[k].start \in Nat /\ list[k].end \in Nat
    BY IntervalFields
  <2> QED
    BY <2>1, <2>2 DEF In
<1>2. ASSUME NEW a \in Nat, In(a, list, Len(list)) PROVE a \in Covered(list)
  <2>1. PICK k \in 1 .. Len(list) : list[k].start <= a /\ a <= list[k].end
    BY <1>2 DEF In
  <2>2. list[k].start \in Nat /\ list[k].end \in Nat
    BY IntervalFields
  <2>3. a \in Addresses(list[k])
    BY <2>1, <2>2 DEF Addresses
  <2> QED
    BY <2>3 DEF Covered
<1> QED
  BY <1>1, <1>2

(***************************************************************************)
(* For every width and every two lists of CIDRs, in any order and with any *)
(* overlaps, subtract_safelist_* ends with exactly the candidate addresses *)
(* that are not safelisted.                                                *)
(***************************************************************************)
THEOREM EffectiveIsExact == Spec => []Exact
<1>1. IInv => Exact
  <2> SUFFICES ASSUME IInv, pc = "done"
               PROVE  Covered(Intervals(out)) = Blocked \ Allowed
    BY DEF Exact
  <2>1. TypeOK /\ out \in Seq(Parts)
    BY DEF IInv, TypeOK
  <2>2. Covered(Intervals(out)) = {a \in Nat : Emitted(a)}
    BY <2>1, IntervalsType, CoveredIn DEF Emitted
  <2>3. \A a \in Nat : Emitted(a) <=> Answer(a)
    BY DEF IInv, CoverInv
  <2>4. /\ Blocked = {a \in Nat : In(a, Source("candidates"), Len(Source("candidates")))}
        /\ Allowed = {a \in Nat : In(a, Source("safelist"), Len(Source("safelist")))}
    <3>1. Source("candidates") \in Seq(Interval) /\ Source("safelist") \in Seq(Interval)
      BY <2>1, SourceType DEF Sides
    <3> QED
      BY <3>1, CoveredIn DEF Blocked, Allowed, Source
  <2> QED
    BY <2>2, <2>3, <2>4 DEF Answer
<1> QED
  BY <1>1, InvariantHolds, PTL

-----------------------------------------------------------------------------
\* Multiplication keeps the order, in both directions.
LEMMA TimesOrder ==
  ASSUME NEW u \in Int, NEW v \in Int, NEW s \in Nat, s >= 1
  PROVE  u < v <=> u * s < v * s
<1>1. ASSUME NEW x \in Int, NEW y \in Int, x <= y PROVE x * s <= y * s
  <2>1. PICK d \in Nat : y = x + d
    BY <1>1
  <2>2. d * s >= 0 /\ (x + d) * s = x * s + d * s
    OBVIOUS
  <2> QED
    BY <2>1, <2>2
<1>2. u < v => u * s < v * s
  <2>1. u < v => (u + 1) * s <= v * s
    BY <1>1
  <2>2. (u + 1) * s = u * s + s
    OBVIOUS
  <2> QED
    BY <2>1, <2>2
<1> QED
  BY <1>1, <1>2

\* A multiple is a multiple, and the remainder of one that is cut off says so.
LEMMA Multiples ==
  ASSUME NEW s \in Nat, s >= 1, NEW x \in Nat
  PROVE  /\ x % s = 0 <=> \E q \in Nat : x = q * s
         /\ \A q \in Nat : x - (x % s) = q * s <=> q * s <= x /\ x < q * s + s
<1> DEFINE d == x \div s
           r == x % s
<1>1. d \in Nat /\ r \in 0 .. (s - 1) /\ x = d * s + r
  OBVIOUS
<1> HIDE DEF d, r
<1>2. ASSUME NEW q \in Nat PROVE x - r = q * s <=> q * s <= x /\ x < q * s + s
  <2>1. d < q + 1 <=> d * s < (q + 1) * s
    BY <1>1, TimesOrder
  <2>2. q < d + 1 <=> q * s < (d + 1) * s
    BY <1>1, TimesOrder
  <2>3. (q + 1) * s = q * s + s /\ (d + 1) * s = d * s + s
    BY <1>1
  <2>4. d * s \in Int /\ q * s \in Int
    BY <1>1
  <2>5. q * s <= x /\ x < q * s + s => d = q
    BY <1>1, <2>1, <2>2, <2>3, <2>4
  <2>6. x - r = q * s => q * s <= x /\ x < q * s + s
    BY <1>1, <2>4
  <2> QED
    BY <1>1, <2>4, <2>5, <2>6
<1>3. r = 0 => x = d * s
  BY <1>1
<1>4. ASSUME NEW q \in Nat, x = q * s PROVE r = 0
  <2>1. x - r = q * s
    BY <1>2, <1>4
  <2> QED
    BY <1>1, <1>4, <2>1
<1> QED
  BY <1>1, <1>2, <1>3, <1>4 DEF r

\* A power of two is a multiple of every smaller one.
LEMMA PowersDivide ==
  ASSUME NEW i \in 0 .. Width, NEW j \in i .. Width
  PROVE  \E m \in Nat \ {0} : Pow[j] = m * Pow[i]
<1> DEFINE Fails(k) == k \in i .. Width /\ \A m \in Nat \ {0} : Pow[k] # m * Pow[i]
           S == {k \in Nat : Fails(k)}
<1>1. Width \in Nat /\ i \in Nat /\ Pow[i] \in Nat
  BY WidthAssumption, PowAssumption
<1>2. SUFFICES ASSUME S # {} PROVE FALSE
  BY <1>1
<1>3. PICK k \in S : \A y \in S : k <= y
  <2>1. S \subseteq Nat
    OBVIOUS
  <2> HIDE DEF S
  <2> QED
    BY <1>2, <2>1, MinFirst
<1>4. k # i
  <2>1. Pow[i] = 1 * Pow[i] /\ 1 \in Nat \ {0}
    BY <1>1
  <2> QED
    BY <1>3, <2>1
<1>5. k \in 1 .. Width /\ k - 1 \in i .. Width
  BY <1>1, <1>3, <1>4
<1>6. k - 1 \notin S
  BY <1>3, <1>5
<1>7. PICK m \in Nat \ {0} : Pow[k - 1] = m * Pow[i]
  BY <1>1, <1>5, <1>6
<1>8. Pow[k] = 2 * Pow[k - 1]
  BY <1>5, PowAssumption
<1>9. 2 * m \in Nat \ {0} /\ 2 * (m * Pow[i]) = (2 * m) * Pow[i]
  BY <1>1
<1>10. Pow[k] = (2 * m) * Pow[i]
  BY <1>7, <1>8, <1>9
<1> QED
  BY <1>3, <1>9, <1>10

\* Powers of two increase.
LEMMA PowersIncrease ==
  ASSUME NEW i \in 0 .. Width, NEW j \in 0 .. Width, i < j
  PROVE  Pow[i] < Pow[j]
<1>1. j - 1 \in i .. Width /\ j \in 1 .. Width /\ Width \in Nat
  BY WidthAssumption
<1>2. PICK m \in Nat \ {0} : Pow[j - 1] = m * Pow[i]
  BY <1>1, PowersDivide
<1>3. Pow[j] = 2 * Pow[j - 1] /\ Pow[i] \in Nat \ {0}
  BY <1>1, PowAssumption
<1>4. m * Pow[i] >= Pow[i]
  <2>1. m * Pow[i] = (m - 1) * Pow[i] + Pow[i] /\ (m - 1) * Pow[i] >= 0
    BY <1>3
  <2> QED
    BY <1>3, <2>1
<1> QED
  BY <1>2, <1>3, <1>4

-----------------------------------------------------------------------------
LastOf(c) == ToInterval(c).end

\* A canonical block ends before the end of the address space, without saturation.
LEMMA BlockBounds ==
  ASSUME NEW c \in Cidr
  PROVE  LET s == Pow[Width - c.prefix] IN
         /\ s \in Nat /\ s >= 1 /\ c.prefix \in 0 .. Width
         /\ c.network \in Nat /\ \E q \in Nat : c.network = q * s
         /\ LastOf(c) = c.network + s - 1 /\ LastOf(c) \in 0 .. MAX
<1> DEFINE k == Width - c.prefix
           s == Pow[k]
<1>1. c.network \in 0 .. MAX /\ c.prefix \in 0 .. Width /\ c.network % s = 0
  BY DEF Cidr, Parts
<1>2. k \in 0 .. Width /\ Width \in k .. Width
  BY <1>1, WidthAssumption
<1>3. s \in Nat /\ s >= 1 /\ MAX \in Nat /\ Pow[Width] = MAX + 1
  BY <1>1, SpaceProps
<1>4. PICK m \in Nat \ {0} : MAX + 1 = m * s
  <2> HIDE DEF k
  <2> QED
    BY <1>2, <1>3, PowersDivide
<1>5. c.network \in Nat
  BY <1>1, <1>3
<1> HIDE DEF k, s
<1>6. PICK q \in Nat : c.network = q * s
  BY <1>1, <1>3, <1>5, Multiples
<1>7. c.network + s <= MAX + 1
  <2>1. q < m <=> q * s < m * s
    BY <1>3, TimesOrder
  <2>2. q + 1 < m + 1 <=> (q + 1) * s < (m + 1) * s
    BY <1>3, TimesOrder
  <2>3. m < q + 1 <=> m * s < (q + 1) * s
    BY <1>3, TimesOrder
  <2>4. (q + 1) * s = q * s + s
    BY <1>3
  <2>5. q * s < m * s
    BY <1>1, <1>3, <1>4, <1>6
  <2>6. m * s \in Int /\ (q + 1) * s \in Int
    BY <1>3
  <2>7. (q + 1) * s <= m * s
    BY <2>1, <2>3, <2>5, <2>6
  <2> QED
    BY <1>4, <1>6, <2>4, <2>7
<1>8. LastOf(c) = SatAdd(c.network, s - 1)
  BY DEF LastOf, ToInterval, BlockEnd, HostMask, s, k
<1>9. LastOf(c) = c.network + s - 1 /\ LastOf(c) \in 0 .. MAX
  BY <1>3, <1>5, <1>7, <1>8 DEF SatAdd
<1> QED
  BY <1>1, <1>3, <1>5, <1>6, <1>9 DEF s, k

\* In short: the numbers of a block are natural, and it is not empty.
LEMMA BlockTypes ==
  ASSUME NEW c \in Cidr
  PROVE  c.network \in Nat /\ c.prefix \in Nat /\ LastOf(c) \in Nat /\ c.network <= LastOf(c)
BY BlockBounds, SpaceProps, WidthAssumption

\* The addresses that share a block's prefix are those from its first to its last.
LEMMA MembersAre ==
  ASSUME NEW c \in Cidr
  PROVE  Members(c) = c.network .. LastOf(c)
<1> DEFINE s == Pow[Width - c.prefix]
<1>1. /\ s \in Nat /\ s >= 1 /\ c.network \in Nat
      /\ LastOf(c) = c.network + s - 1 /\ LastOf(c) \in 0 .. MAX /\ MAX \in Nat
  BY BlockBounds, SpaceProps
<1>2. PICK q \in Nat : c.network = q * s
  BY BlockBounds
<1> HIDE DEF s
<1>3. ASSUME NEW a \in Nat
      PROVE  a - (a % s) = c.network <=> c.network <= a /\ a < c.network + s
  BY <1>1, <1>2, Multiples
<1>4. ASSUME NEW a
      PROVE  a \in Members(c) <=> a \in 0 .. MAX /\ a - (a % s) = c.network
  BY DEF Members, s
<1>5. ASSUME NEW a
      PROVE  a \in Members(c) <=> a \in c.network .. LastOf(c)
  <2>1. CASE a \in Nat
    <3>1. a \in Members(c) <=> a <= MAX /\ c.network <= a /\ a < c.network + s
      BY <1>1, <1>3, <1>4, <2>1
    <3> QED
      BY <1>1, <2>1, <3>1
  <2>2. CASE a \notin Nat
    BY <1>1, <1>4, <2>2
  <2> QED
    BY <2>1, <2>2
<1> QED
  BY <1>5

\* Of two blocks with a common address, the smaller one lies in the other.
LEMMA BlocksNest ==
  ASSUME NEW c \in Cidr, NEW d \in Cidr, d.prefix <= c.prefix,
         c.network <= LastOf(d), d.network <= LastOf(c)
  PROVE  d.network <= c.network /\ LastOf(c) <= LastOf(d)
<1> DEFINE s == Pow[Width - c.prefix]
           t == Pow[Width - d.prefix]
<1>1. /\ s \in Nat /\ s >= 1 /\ c.network \in Nat /\ LastOf(c) = c.network + s - 1
      /\ t \in Nat /\ t >= 1 /\ d.network \in Nat /\ LastOf(d) = d.network + t - 1
  BY BlockBounds
<1>2. PICK q \in Nat : c.network = q * s
  BY BlockBounds
<1>3. PICK r \in Nat : d.network = r * t
  BY BlockBounds
<1>4. PICK m \in Nat \ {0} : t = m * s
  <2>1. Width - c.prefix \in 0 .. Width /\ Width - d.prefix \in (Width - c.prefix) .. Width
    BY BlockBounds, WidthAssumption
  <2> QED
    BY <2>1, PowersDivide
<1> HIDE DEF s, t
<1> DEFINE u == r * m
<1>5. u \in Nat /\ d.network = u * s /\ d.network + t = (u + m) * s
  <2>1. r * (m * s) = (r * m) * s /\ (r * m + m) * s = (r * m) * s + m * s
    BY <1>1
  <2> QED
    BY <1>1, <1>3, <1>4, <2>1
<1>6. (q + 1) * s = c.network + s
  BY <1>1, <1>2
<1> HIDE DEF u
<1>7. u < q + 1
  <2>1. u * s < (q + 1) * s
    BY <1>1, <1>5, <1>6
  <2> QED
    BY <1>1, <1>5, <2>1, TimesOrder
<1>8. q < u + m
  <2>1. q * s < (u + m) * s
    BY <1>1, <1>2, <1>5
  <2> QED
    BY <1>1, <1>5, <2>1, TimesOrder
<1>9. ~ (q * s < u * s)
  <2>1. ~ (q < u)
    BY <1>5, <1>7
  <2> QED
    BY <1>1, <1>5, <2>1, TimesOrder
<1>10. ~ ((u + m) * s < (q + 1) * s)
  <2>1. ~ (u + m < q + 1)
    BY <1>5, <1>8
  <2> QED
    BY <1>1, <1>5, <2>1, TimesOrder
<1> QED
  BY <1>1, <1>2, <1>5, <1>6, <1>9, <1>10

\* A block is determined by its first and its last address.
LEMMA BlocksEqual ==
  ASSUME NEW c \in Cidr, NEW d \in Cidr, c.network = d.network, LastOf(c) = LastOf(d)
  PROVE  c = d
<1>1. /\ c.prefix \in 0 .. Width /\ d.prefix \in 0 .. Width
      /\ Pow[Width - c.prefix] \in Nat /\ Pow[Width - d.prefix] \in Nat
  BY BlockBounds
<1>2. Pow[Width - c.prefix] = Pow[Width - d.prefix]
  <2>1. \A x, y, z \in Int : x + y - 1 = x + z - 1 => y = z
    OBVIOUS
  <2>2. /\ LastOf(c) = c.network + Pow[Width - c.prefix] - 1
        /\ LastOf(d) = c.network + Pow[Width - d.prefix] - 1 /\ c.network \in Int
    BY BlockBounds
  <2>3. c.network + Pow[Width - c.prefix] - 1 = c.network + Pow[Width - d.prefix] - 1
    BY <2>2, Zenon
  <2>4. Pow[Width - c.prefix] \in Int /\ Pow[Width - d.prefix] \in Int
    BY <1>1
  <2> QED
    BY <2>1, <2>2, <2>3, <2>4, Zenon
<1>3. Width - c.prefix \in 0 .. Width /\ Width - d.prefix \in 0 .. Width /\ Width \in Nat
  BY <1>1, WidthAssumption
<1>4. ~ (c.prefix < d.prefix)
  <2>1. ~ (Width - d.prefix < Width - c.prefix)
    BY <1>1, <1>2, <1>3, PowersIncrease
  <2> QED
    BY <1>1, <1>3, <2>1
<1>5. ~ (d.prefix < c.prefix)
  <2>1. ~ (Width - c.prefix < Width - d.prefix)
    BY <1>1, <1>2, <1>3, PowersIncrease
  <2> QED
    BY <1>1, <1>3, <2>1
<1>6. c.prefix = d.prefix
  BY <1>1, <1>4, <1>5
<1> QED
  BY <1>6 DEF Cidr, Parts

\* largest_prefix is the widest: no larger block at x is aligned and ends in time.
LEMMA LargestPrefixWidest ==
  ASSUME NEW x \in Nat, NEW last, NEW d \in Cidr, d.network = x, LastOf(d) <= last, last \in Nat
  PROVE  LargestPrefix(x, last) <= d.prefix
<1> DEFINE p == LargestPrefix(x, last)
           w == p - 1
<1>1. p \in 0 .. Width /\ (p = 0 \/ ~ Widens(x, last, p - 1))
  BY LargestPrefixProps
<1> HIDE DEF p
<1>2. SUFFICES ASSUME d.prefix < p PROVE FALSE
  BY <1>1, BlockBounds DEF p
<1> DEFINE s == Pow[Width - w]
           t == Pow[Width - d.prefix]
<1>3. /\ d.prefix \in 0 .. Width /\ t \in Nat /\ t >= 1
      /\ LastOf(d) = x + t - 1 /\ LastOf(d) \in 0 .. MAX
  BY BlockBounds
<1>4. PICK r \in Nat : x = r * t
  BY BlockBounds
<1>5. w \in 0 .. Width /\ Width - w \in 0 .. Width /\ Width - d.prefix \in (Width - w) .. Width
  BY <1>1, <1>2, <1>3, WidthAssumption
<1>6. PICK m \in Nat \ {0} : t = m * s
  BY <1>5, PowersDivide
<1>7. s \in Nat /\ s >= 1 /\ MAX \in Nat
  BY <1>5, SpaceProps
<1> HIDE DEF w, s, t
<1>8. x % s = 0
  <2>1. x = (r * m) * s /\ r * m \in Nat
    BY <1>4, <1>6, <1>7
  <2> QED
    BY <1>7, <2>1, Multiples
<1>9. s <= t
  <2>1. m * s = (m - 1) * s + s /\ (m - 1) * s >= 0
    BY <1>7
  <2> QED
    BY <1>6, <1>7, <2>1
<1>10. SatAdd(x, s - 1) <= last
  BY <1>3, <1>7, <1>9 DEF SatAdd
<1>11. Widens(x, last, w)
  BY <1>8, <1>10 DEF Widens, IsAligned, BlockEnd, HostMask, s
<1> QED
  BY <1>1, <1>2, <1>3, <1>11 DEF w

-----------------------------------------------------------------------------
(***************************************************************************)
(* What is carved is apart: no two pieces touch, so that every run of      *)
(* addresses of the answer lies in one of them.                            *)
(***************************************************************************)
Apart(list) == \A j, k \in 1 .. Len(list) : j < k => list[j].end + 1 < list[k].start

EndsBefore(list, x) == \A k \in 1 .. Len(list) : list[k].end + 1 < x

ApartInv ==
  /\ Apart(carved)
  /\ pc = "skip" => \A j \in b .. Len(base) : EndsBefore(carved, base[j].start)
  /\ pc = "carve" => EndsBefore(carved, nextStart)

\* A piece behind all others keeps the list apart.
LEMMA ApartAppend ==
  ASSUME NEW list \in Seq(Interval), NEW i \in Interval, NEW y \in Nat,
         Apart(list), EndsBefore(list, y), y <= i.start
  PROVE  /\ Apart(Append(list, i))
         /\ \A x \in Nat : i.end + 1 < x => EndsBefore(Append(list, i), x)
<1> DEFINE new == Append(list, i)
           m == Len(list)
<1>1. /\ m \in Nat /\ Len(new) = m + 1 /\ new[m + 1] = i
      /\ \A k \in 1 .. m : new[k] = list[k] /\ list[k] \in Interval
  OBVIOUS
<1>2. \A k \in 1 .. m : list[k].end + 1 < y /\ list[k].end \in Nat /\ list[k].start \in Nat
  BY <1>1, IntervalFields DEF EndsBefore
<1>3. i.start \in Nat /\ i.end \in Nat /\ i.start <= i.end
  BY IntervalFields
<1> HIDE DEF new, m
<1>4. ASSUME NEW j \in 1 .. (m + 1), NEW k \in 1 .. (m + 1), j < k
      PROVE  new[j].end + 1 < new[k].start
  <2>1. j \in 1 .. m
    BY <1>1, <1>4
  <2>2. CASE k = m + 1
    <3>1. new[j] = list[j] /\ new[k] = i
      BY <1>1, <2>1, <2>2
    <3>2. list[j].end + 1 < y /\ list[j].end \in Nat
      BY <1>2, <2>1
    <3> QED
      BY <1>3, <3>1, <3>2
  <2>3. CASE k \in 1 .. m
    BY <1>1, <1>4, <2>1, <2>3 DEF Apart, m
  <2> QED
    BY <1>1, <2>2, <2>3
<1>5. ASSUME NEW x \in Nat, i.end + 1 < x, NEW k \in 1 .. (m + 1)
      PROVE  new[k].end + 1 < x
  <2>1. CASE k = m + 1
    BY <1>1, <1>5, <2>1
  <2>2. CASE k \in 1 .. m
    <3>1. new[k] = list[k] /\ list[k].end + 1 < y /\ list[k].end \in Nat
      BY <1>1, <1>2, <2>2
    <3> QED
      BY <1>3, <1>5, <3>1
  <2> QED
    BY <1>1, <2>1, <2>2
<1> QED
  BY <1>1, <1>4, <1>5 DEF Apart, EndsBefore, new

\* A bound further on is still one.
LEMMA EndsBeforeLater ==
  ASSUME NEW list \in Seq(Interval), NEW x \in Nat, NEW y \in Nat, x <= y, EndsBefore(list, x)
  PROVE  EndsBefore(list, y)
<1> SUFFICES ASSUME NEW k \in 1 .. Len(list) PROVE list[k].end + 1 < y
  BY DEF EndsBefore
<1>1. list[k].end + 1 < x /\ list[k] \in Interval
  BY DEF EndsBefore
<1> QED
  BY <1>1, IntervalFields

\* The piece before a carve interval keeps the result apart, up to behind it.
LEMMA WithGapApart ==
  ASSUME carved \in Seq(Interval), nextStart \in 0 .. MAX, NEW c \in Interval,
         Apart(carved), EndsBefore(carved, nextStart), NEW x \in Nat, nextStart <= x,
         c.start < x
  PROVE  Apart(WithGap(c)) /\ EndsBefore(WithGap(c), x)
<1>1. nextStart \in Nat /\ c.start \in Nat /\ c.start <= MAX /\ MAX \in Nat
  BY IntervalFields, SpaceProps DEF Interval
<1>2. CASE c.start > nextStart
  <2> DEFINE i == [start |-> nextStart, end |-> c.start - 1]
  <2>1. i \in Interval
    BY <1>1, <1>2 DEF Interval
  <2>2. WithGap(c) = Append(carved, i)
    BY <1>2 DEF WithGap
  <2>3. i.start = nextStart /\ i.end + 1 < x
    BY <1>1, <1>2
  <2> HIDE DEF i
  <2>4. nextStart <= i.start
    BY <1>1, <2>3
  <2> QED
    BY <1>1, <2>1, <2>2, <2>3, <2>4, ApartAppend
<1>3. CASE ~ (c.start > nextStart)
  <2>1. WithGap(c) = carved
    BY <1>3 DEF WithGap
  <2> QED
    BY <1>1, <2>1, EndsBeforeLater
<1> QED
  BY <1>2, <1>3

\* The steps before the first piece is carved, and those that take the base as it is.
LEMMA EarlyApart ==
  ASSUME IInv, IInv', ApartInv,
         MergeEmpty \/ SortForMerge \/ MergeNext \/ MergeEnd \/ SubtractTrivial \/ SubtractStart
  PROVE  ApartInv'
<1>1. CASE MergeEmpty \/ SortForMerge \/ MergeNext \/ MergeEnd
  <2>1. pc' \in {"sort", "merge", "subtract"}
    BY <1>1 DEF MergeEmpty, SortForMerge, MergeNext, MergeEnd, MergeDone, IInv, TypeOK
  <2>2. carved' = <<>>
    BY <2>1 DEF IInv, StageInv
  <2> QED
    BY <2>1, <2>2 DEF ApartInv, Apart
<1>2. CASE SubtractTrivial
  <2>1. carved' = base /\ pc' = "cover" /\ MergedSide("candidates")
    BY <1>2 DEF SubtractTrivial, IInv, MergedInv, StageInv
  <2> QED
    BY <2>1 DEF ApartInv, Apart, MergedSide, base
<1>3. CASE SubtractStart
  <2>1. carved' = <<>> /\ pc' = "skip"
    BY <1>3 DEF SubtractStart, IInv, StageInv, carveVars
  <2> QED
    BY <2>1 DEF ApartInv, Apart, EndsBefore
<1> QED
  BY <1>1, <1>2, <1>3

\* The steps that move on without carving.
LEMMA IdleApart ==
  ASSUME IInv, ApartInv,
         SkipCarve \/ EnterBase \/ SubtractDone \/ NextInterval \/ EmitBlock \/ EndInterval
           \/ CoverDone \/ UNCHANGED vars
  PROVE  ApartInv'
<1>1. CASE SkipCarve
  BY <1>1 DEF SkipCarve, ApartInv, mergeVars, base
<1>2. CASE EnterBase
  <2>1. /\ carved' = carved /\ pc' = "carve" /\ nextStart' = base[b].start
        /\ b \in b .. Len(base) /\ pc = "skip"
    BY <1>2 DEF EnterBase, IInv, TypeOK, base
  <2> QED
    BY <2>1 DEF ApartInv
<1>3. CASE UNCHANGED vars
  BY <1>3 DEF vars, ApartInv, base
<1>4. CASE SubtractDone \/ NextInterval \/ EmitBlock \/ EndInterval \/ CoverDone
  <2>1. carved' = carved /\ pc' \in {"cover", "block", "done"}
    BY <1>4 DEF SubtractDone, NextInterval, EmitBlock, EndInterval, CoverDone, carveVars
  <2> QED
    BY <2>1 DEF ApartInv
<1> QED
  BY <1>1, <1>2, <1>3, <1>4

\* Every iteration of the carve loop, and its ends.
LEMMA CarveApart ==
  ASSUME IInv, ApartInv, CarveInside \/ CarveToEnd \/ CarveRest
  PROVE  ApartInv'
<1> DEFINE c == carve[idx]
<1>1. /\ pc = "carve" /\ pc' \in {"carve", "skip"} /\ UNCHANGED <<request, mergeVars, coverVars>>
  BY DEF CarveInside, CarveToEnd, CarveRest, NextBase
<1>2. /\ base' = base /\ base \in Seq(Interval) /\ carve \in Seq(Interval)
      /\ carved \in Seq(Interval)
      /\ b \in 1 .. Len(base) /\ idx \in Nat \ {0} /\ nextStart \in 0 .. MAX
      /\ base[b] \in Interval
      /\ \A k \in 1 .. Len(carve) : carve[k] \in Interval
      /\ base[b].start <= nextStart /\ nextStart <= base[b].end
      /\ \A j, k \in 1 .. Len(base) : j < k => base[j].end + 1 < base[k].start
  BY <1>1, CarveFacts
<1>3. Apart(carved) /\ EndsBefore(carved, nextStart)
  BY <1>1 DEF ApartInv
<1>4. /\ MAX \in Nat /\ nextStart \in Nat /\ base[b].end \in Nat /\ base[b].end + 1 \in Nat
  BY <1>2, IntervalFields, SpaceProps
<1>5. CASE CarveInside
  <2>1. /\ pc' = "carve" /\ idx <= Len(carve)
        /\ carved' = IF c.end < nextStart THEN carved ELSE WithGap(c)
        /\ nextStart' = IF c.end < nextStart THEN nextStart ELSE c.end + 1
    BY <1>5 DEF CarveInside, Carving
  <2>2. c \in Interval
    BY <1>2, <2>1
  <2>3. c.start \in Nat /\ c.end \in Nat /\ c.start <= c.end /\ c.end + 1 \in Nat
    BY <2>2, IntervalFields
  <2> HIDE DEF c
  <2>4. CASE c.end < nextStart
    BY <1>3, <2>1, <2>4 DEF ApartInv
  <2>5. CASE ~ (c.end < nextStart)
    <3>1. nextStart <= c.end + 1 /\ c.start < c.end + 1
      BY <1>4, <2>3, <2>5
    <3>2. Apart(WithGap(c)) /\ EndsBefore(WithGap(c), c.end + 1)
      BY <1>2, <1>3, <2>2, <2>3, <3>1, WithGapApart
    <3> QED
      BY <2>1, <2>5, <3>2 DEF ApartInv
  <2> QED
    BY <2>4, <2>5
<1>6. ASSUME CarveToEnd \/ CarveRest, Apart(carved'), EndsBefore(carved', base[b].end + 2),
             carved' \in Seq(Interval)
      PROVE  ApartInv'
  <2>1. pc' = "skip" /\ b' = b + 1
    BY <1>6 DEF CarveToEnd, CarveRest, NextBase
  <2>2. ASSUME NEW j \in (b + 1) .. Len(base) PROVE EndsBefore(carved', base[j].start)
    <3>1. base[b].end + 1 < base[j].start /\ base[j] \in Interval
      BY <1>2
    <3>2. base[b].end + 2 \in Nat /\ base[j].start \in Nat /\ base[b].end + 2 <= base[j].start
      BY <1>4, <3>1, IntervalFields
    <3> QED
      BY <1>6, <3>2, EndsBeforeLater
  <2> QED
    BY <1>2, <1>6, <2>1, <2>2 DEF ApartInv
<1>7. base[b].end + 2 \in Nat /\ nextStart <= base[b].end + 2
  BY <1>2, <1>4
<1>8. CASE CarveToEnd
  <2>1. carved' = WithGap(c) /\ idx <= Len(carve) /\ c.start <= base[b].end
    BY <1>8 DEF CarveToEnd, Carving
  <2>2. c \in Interval
    BY <1>2, <2>1
  <2>3. c.start \in Nat
    BY <2>2, IntervalFields
  <2> HIDE DEF c
  <2>4. c.start < base[b].end + 2
    BY <1>4, <2>1, <2>3
  <2>5. carved' \in Seq(Interval)
    BY <1>2, <2>1, <2>2, WithGapProps
  <2>6. Apart(WithGap(c)) /\ EndsBefore(WithGap(c), base[b].end + 2)
    BY <1>2, <1>3, <1>7, <2>2, <2>4, WithGapApart
  <2> QED
    BY <1>6, <1>8, <2>1, <2>5, <2>6
<1>9. CASE CarveRest
  <2> DEFINE i == [start |-> nextStart, end |-> base[b].end]
  <2>1. carved' = Append(carved, i)
    BY <1>2, <1>9 DEF CarveRest
  <2>2. i \in Interval /\ i.start = nextStart /\ i.end + 1 < base[b].end + 2
    BY <1>2, <1>4 DEF Interval
  <2> HIDE DEF i
  <2>3. nextStart <= i.start
    BY <1>4, <2>2
  <2>4. Apart(carved') /\ EndsBefore(carved', base[b].end + 2)
    BY <1>2, <1>3, <1>4, <1>7, <2>1, <2>2, <2>3, ApartAppend
  <2> QED
    BY <1>2, <1>6, <1>9, <2>1, <2>2, <2>4
<1> QED
  BY <1>5, <1>8, <1>9

\* Carving keeps its pieces apart in every reachable state.
LEMMA ApartHolds == Spec => []ApartInv
<1>1. Init => ApartInv
  BY DEF Init, ApartInv, Apart
<1>2. IInv /\ IInv' /\ ApartInv /\ [Next]_vars => ApartInv'
  BY EarlyApart, IdleApart, CarveApart DEF Next, Step
<1> QED
  BY <1>1, <1>2, InvariantHolds, PTL DEF Spec

-----------------------------------------------------------------------------
(***************************************************************************)
(* Each block emitted is the largest one around its addresses, because no  *)
(* aligned block that fits into an interval straddles the place where the  *)
(* cutting stands.                                                         *)
(***************************************************************************)
Inside(d, i) == i.start <= d.network /\ LastOf(d) <= i.end

Fitting(d) == \E k \in 1 .. Len(carved) : Inside(d, carved[k])

Nested(c, d) == d.network <= c.network /\ LastOf(c) <= LastOf(d)

Largest(c) ==
  c \in Cidr /\ Fitting(c) /\ \A d \in Cidr : Fitting(d) /\ Nested(c, d) => d = c

Ascending == \A i, j \in 1 .. Len(out) : i < j => LastOf(out[i]) < out[j].network

BlocksInv ==
  pc \in {"cover", "block", "done"} =>
    /\ \A i \in 1 .. Len(out) : Largest(out[i])
    /\ Ascending
    /\ pc = "cover" =>
         \A i \in 1 .. Len(out), k \in n .. Len(carved) : LastOf(out[i]) < carved[k].start
    /\ pc = "block" =>
         /\ \A i \in 1 .. Len(out) : LastOf(out[i]) < start
         /\ \A d \in Cidr : Inside(d, carved[n]) /\ d.network < start => LastOf(d) < start

\* A block that reaches into a piece and fits, fits into that piece.
LEMMA FitsWhereItReaches ==
  ASSUME Apart(carved), carved \in Seq(Interval), NEW k \in 1 .. Len(carved),
         NEW d \in Cidr, Fitting(d), NEW a \in Nat,
         d.network <= a, a <= LastOf(d), carved[k].start <= a, a <= carved[k].end
  PROVE  Inside(d, carved[k])
<1>1. PICK j \in 1 .. Len(carved) : Inside(d, carved[j])
  BY DEF Fitting
<1>2. /\ carved[j].start \in Nat /\ carved[j].end \in Nat
      /\ carved[k].start \in Nat /\ carved[k].end \in Nat
      /\ d.network \in Nat /\ LastOf(d) \in Nat
  BY IntervalFields, BlockTypes
<1>3. carved[j].start <= a /\ a <= carved[j].end
  BY <1>1, <1>2 DEF Inside
<1>4. ~ (j < k)
  <2>1. j < k => carved[j].end + 1 < carved[k].start
    BY DEF Apart
  <2> QED
    BY <1>2, <1>3, <2>1
<1>5. ~ (k < j)
  <2>1. k < j => carved[k].end + 1 < carved[j].start
    BY DEF Apart
  <2> QED
    BY <1>2, <1>3, <2>1
<1>6. j = k
  BY <1>4, <1>5
<1> QED
  BY <1>1, <1>6

\* The block that is emitted.
LEMMA EmittedBlock ==
  ASSUME IInv, ApartInv, BlocksInv, EmitBlock
  PROVE  LET c == FromParts(start, LargestPrefix(start, carved[n].end)) IN
         /\ out' = Append(out, c) /\ carved' = carved
         /\ c \in Cidr /\ c.network = start /\ LastOf(c) <= carved[n].end
         /\ Largest(c)
         /\ pc' = "cover" => n' = n + 1 /\ LastOf(c) = carved[n].end
         /\ pc' = "block" => n' = n /\ start' = LastOf(c) + 1
         /\ pc' \in {"cover", "block"}
<1> DEFINE last == carved[n].end
           p == LargestPrefix(start, last)
           c == FromParts(start, p)
<1>1. /\ pc = "block" /\ start <= last /\ out' = Append(out, c) /\ carved' = carved
      /\ IF LastBlock(p) THEN n' = n + 1 /\ pc' = "cover" /\ UNCHANGED start
                         ELSE start' = start + Pow[Width - p] /\ UNCHANGED <<n, pc>>
  BY DEF EmitBlock, carveVars
<1>2. /\ carved \in Seq(Interval) /\ n \in 1 .. Len(carved) /\ start \in 0 .. MAX
      /\ carved[n].start <= start
  BY <1>1 DEF IInv, CoverInv, TypeOK
<1>3. carved[n].start \in Nat /\ last \in 0 .. MAX /\ MAX \in Nat /\ start \in Nat
  BY <1>2, IntervalFields, SpaceProps
<1>4. /\ p \in 0 .. Width /\ c \in Parts
      /\ ToInterval(c).start = start /\ LastOf(c) <= last
      /\ LastBlock(p) => LastOf(c) = last
      /\ ~ LastBlock(p) => start + Pow[Width - p] = LastOf(c) + 1
  BY <1>1, <1>2, <1>3, BlockProps DEF LastBlock, LastOf
<1>5. c.network = start /\ c.prefix = p
  BY <1>4 DEF FromParts, ToInterval
<1>6. c \in Cidr
  <2>1. p = Width \/ Widens(start, last, p)
    BY LargestPrefixProps
  <2>2. start % Pow[Width - p] = 0
    <3>1. CASE p = Width
      <4>1. Pow[Width - p] = 1
        BY <3>1, SpaceProps, WidthAssumption
      <4> QED
        BY <1>3, <4>1
    <3>2. CASE Widens(start, last, p)
      BY <3>2 DEF Widens, IsAligned
    <3> QED
      BY <2>1, <3>1, <3>2
  <2> HIDE DEF c, p
  <2> QED
    BY <1>4, <1>5, <2>2 DEF Cidr
<1>7. /\ pc' = "cover" => n' = n + 1 /\ LastOf(c) = last
      /\ pc' = "block" => n' = n /\ start' = LastOf(c) + 1
      /\ pc' \in {"cover", "block"}
  BY <1>1, <1>4
<1>8. p <= c.prefix /\ \A d \in Cidr : d.network = start /\ LastOf(d) <= last => p <= d.prefix
  BY <1>3, <1>4, <1>5, LargestPrefixWidest
<1> HIDE DEF c, p
<1>9. Fitting(c)
  BY <1>2, <1>4, <1>5 DEF Fitting, Inside
<1>10. ASSUME NEW d \in Cidr, Fitting(d), Nested(c, d) PROVE d = c
  <2>1. /\ d.network \in Nat /\ LastOf(d) \in Nat /\ LastOf(c) \in Nat /\ d.prefix \in Nat
        /\ c.network <= LastOf(c) /\ c.prefix \in Nat
    BY <1>6, BlockTypes
  <2>2. d.network <= start /\ LastOf(c) <= LastOf(d) /\ start <= LastOf(d)
    BY <1>3, <1>5, <1>10, <2>1 DEF Nested
  <2>3. Inside(d, carved[n])
    BY <1>1, <1>2, <1>3, <1>10, <2>2, FitsWhereItReaches DEF ApartInv
  <2>4. ~ (d.network < start)
    <3>1. d.network < start => LastOf(d) < start
      BY <1>1, <2>3 DEF BlocksInv
    <3> QED
      BY <1>3, <2>1, <2>2, <3>1
  <2>5. d.network = start
    BY <1>3, <2>1, <2>2, <2>4
  <2>6. p <= d.prefix
    BY <1>8, <2>3, <2>5 DEF Inside
  <2>7. LastOf(d) <= LastOf(c)
    <3>1. c.prefix <= d.prefix /\ d.network <= LastOf(c) /\ c.network <= LastOf(d)
      BY <1>3, <1>5, <2>1, <2>2, <2>5, <2>6
    <3> QED
      BY <1>6, <3>1, BlocksNest
  <2>8. LastOf(d) = LastOf(c) /\ d.network = c.network
    BY <1>5, <2>1, <2>2, <2>5, <2>7
  <2> QED
    BY <1>6, <2>8, BlocksEqual
<1> QED
  BY <1>1, <1>4, <1>5, <1>6, <1>7, <1>9, <1>10 DEF Largest, c, p

\* After it no block straddles the place where the next one begins.
LEMMA NoneStraddles ==
  ASSUME IInv, ApartInv, BlocksInv, pc = "block", n \in 1 .. Len(carved),
         NEW c \in Cidr, c.network = start, LastOf(c) <= carved[n].end, Largest(c),
         NEW d \in Cidr, Inside(d, carved[n]), d.network < LastOf(c) + 1
  PROVE  LastOf(d) < LastOf(c) + 1
<1>1. /\ d.network \in Nat /\ LastOf(d) \in Nat /\ LastOf(c) \in Nat /\ c.network \in Nat
      /\ d.prefix \in Nat /\ c.prefix \in Nat
      /\ c.network <= LastOf(c) /\ d.network <= LastOf(d)
  BY BlockTypes
<1>2. SUFFICES ASSUME LastOf(c) < LastOf(d) PROVE FALSE
  BY <1>1
<1>3. c.network <= d.network
  <2>1. d.network < start => LastOf(d) < start
    BY DEF BlocksInv
  <2> QED
    BY <1>1, <1>2, <2>1
<1>4. c.network <= LastOf(d) /\ d.network <= LastOf(c)
  BY <1>1, <1>2
<1>5. d.prefix <= c.prefix
  <2>1. SUFFICES ASSUME c.prefix <= d.prefix PROVE FALSE
    BY <1>1
  <2>2. LastOf(d) <= LastOf(c)
    BY <1>4, <2>1, BlocksNest
  <2> QED
    BY <1>1, <1>2, <2>2
<1>6. d.network <= c.network
  BY <1>4, <1>5, BlocksNest
<1>7. d = c
  BY <1>1, <1>2, <1>6 DEF Largest, Nested, Fitting
<1> QED
  BY <1>1, <1>2, <1>7

\* One more block in the list.
LEMMA MoreBlocks ==
  ASSUME NEW list \in Seq(Parts), NEW c \in Parts
  PROVE  LET new == Append(list, c) IN
         /\ Len(list) \in Nat /\ Len(new) = Len(list) + 1 /\ new[Len(list) + 1] = c
         /\ \A k \in 1 .. Len(list) : new[k] = list[k]
OBVIOUS

\* The block emitted comes after all others and leaves none across the place
\* where the next one begins.
LEMMA EmitBlocksInv ==
  ASSUME IInv, ApartInv, BlocksInv, EmitBlock
  PROVE  BlocksInv'
<1> DEFINE c == FromParts(start, LargestPrefix(start, carved[n].end))
           m == Len(out)
<1>1. /\ out' = Append(out, c) /\ carved' = carved
      /\ c \in Cidr /\ c.network = start /\ LastOf(c) <= carved[n].end
      /\ Largest(c)
      /\ pc' = "cover" => n' = n + 1 /\ LastOf(c) = carved[n].end
      /\ pc' = "block" => n' = n /\ start' = LastOf(c) + 1
      /\ pc' \in {"cover", "block"}
  BY EmittedBlock
<1> HIDE DEF c
<1>2. pc = "block"
  BY DEF EmitBlock
<1>3. /\ carved \in Seq(Interval) /\ n \in 1 .. Len(carved) /\ out \in Seq(Parts)
      /\ carved[n].end \in Nat /\ start \in Nat
  BY <1>2, IntervalFields, SpaceProps DEF IInv, CoverInv, TypeOK
<1>4. /\ \A i \in 1 .. m : Largest(out[i]) /\ LastOf(out[i]) < start
      /\ Ascending
  BY <1>2 DEF BlocksInv
<1>5. /\ m \in Nat /\ Len(out') = m + 1 /\ out'[m + 1] = c
      /\ \A k \in 1 .. m : out'[k] = out[k]
  BY <1>1, <1>3, MoreBlocks DEF Cidr
<1> HIDE DEF m
<1>6. c.network \in Nat /\ LastOf(c) \in Nat /\ c.network <= LastOf(c)
  BY <1>1, BlockTypes
<1>7. \A i \in 1 .. m : out[i] \in Cidr /\ LastOf(out[i]) \in Nat
  BY <1>4, BlockTypes DEF Largest
<1>8. ASSUME NEW e, Largest(e) PROVE Largest(e)'
  BY <1>1, <1>8 DEF Largest, Fitting
\* Every block of the new list is one of these.
<1>9. ASSUME NEW i \in 1 .. (m + 1), NEW e, e = out'[i]
      PROVE  Largest(e) /\ LastOf(e) <= LastOf(c) /\ LastOf(e) \in Nat
  <2>1. CASE i = m + 1
    <3>1. e = c
      BY <1>5, <1>9, <2>1
    <3> QED
      BY <1>1, <1>6, <3>1
  <2>2. CASE i \in 1 .. m
    <3>1. e = out[i]
      BY <1>5, <1>9, <2>2
    <3>2. Largest(e) /\ LastOf(e) < start /\ LastOf(e) \in Nat
      BY <1>4, <1>7, <2>2, <3>1
    <3>3. start <= LastOf(c)
      BY <1>1, <1>6
    <3> QED
      BY <1>3, <1>6, <3>2, <3>3
  <2> QED
    BY <1>5, <2>1, <2>2
<1>10. (\A i \in 1 .. Len(out) : Largest(out[i]))'
  <2>1. \A i \in 1 .. (m + 1) : \A e : e = out'[i] => Largest(e)
    BY <1>9
  <2>2. \A e : Largest(e) => Largest(e)'
    BY <1>8
  <2>3. \A i \in 1 .. Len(out') : Largest(out'[i])
    BY <1>5, <2>1
  <2> QED
    BY <1>1, <2>3 DEF Largest, Fitting
<1>11. Ascending'
  <2> SUFFICES ASSUME NEW i \in 1 .. (m + 1), NEW j \in 1 .. (m + 1), i < j
               PROVE  LastOf(out'[i]) < out'[j].network
    BY <1>5 DEF Ascending
  <2>1. i \in 1 .. m
    BY <1>5
  <2>2. CASE j = m + 1
    BY <1>1, <1>4, <1>5, <2>1, <2>2
  <2>3. CASE j \in 1 .. m
    BY <1>4, <1>5, <2>1, <2>3 DEF Ascending, m
  <2> QED
    BY <1>5, <2>2, <2>3
<1>12. CASE pc' = "cover"
  <2>1. \A i \in 1 .. Len(out'), k \in n' .. Len(carved') : LastOf(out'[i]) < carved'[k].start
    <3> SUFFICES ASSUME NEW i \in 1 .. (m + 1), NEW e, e = out'[i],
                        NEW k \in (n + 1) .. Len(carved)
                 PROVE  LastOf(e) < carved[k].start
      BY <1>1, <1>5, <1>12
    <3>1. k \in 1 .. Len(carved) /\ n < k
      BY <1>3
    <3>2. carved[n].end + 1 < carved[k].start /\ carved[k].start \in Nat
      BY <1>3, <3>1, IntervalFields DEF ApartInv, Apart
    <3>3. LastOf(e) <= LastOf(c) /\ LastOf(e) \in Nat
      BY <1>9
    <3>4. LastOf(c) <= carved[n].end /\ carved[n].end \in Nat
      BY <1>1, <1>3
    <3> HIDE DEF m
    <3> QED
      BY <1>6, <3>2, <3>3, <3>4
  <2>2. (\A i \in 1 .. Len(out), k \in n .. Len(carved) : LastOf(out[i]) < carved[k].start)'
    BY <2>1
  <2> QED
    BY <1>10, <1>11, <1>12, <2>2 DEF BlocksInv
<1>13. CASE pc' = "block"
  <2>1. n' = n /\ start' = LastOf(c) + 1
    BY <1>1, <1>13
  <2>2. \A i \in 1 .. Len(out') : LastOf(out'[i]) < start'
    <3> SUFFICES ASSUME NEW i \in 1 .. (m + 1), NEW e, e = out'[i]
                 PROVE  LastOf(e) < start'
      BY <1>5
    <3>1. LastOf(e) <= LastOf(c) /\ LastOf(e) \in Nat
      BY <1>9
    <3> QED
      BY <1>6, <2>1, <3>1
  <2>3. \A d \in Cidr :
          Inside(d, carved[n]) /\ d.network < LastOf(c) + 1 => LastOf(d) < LastOf(c) + 1
    BY <1>1, <1>2, <1>3, NoneStraddles
  <2>4. \A d \in Cidr : Inside(d, carved'[n']) /\ d.network < start' => LastOf(d) < start'
    BY <1>1, <2>1, <2>3
  <2>5. /\ (\A i \in 1 .. Len(out) : LastOf(out[i]) < start)'
        /\ (\A d \in Cidr : Inside(d, carved[n]) /\ d.network < start => LastOf(d) < start)'
    BY <2>2, <2>4 DEF Inside
  <2> QED
    BY <1>10, <1>11, <1>13, <2>5 DEF BlocksInv
<1> QED
  BY <1>1, <1>12, <1>13

\* No other step adds a block: the cutting begins with none, and moves from a
\* piece that is used up to a later one.
LEMMA OtherBlocksInv ==
  ASSUME IInv, IInv', ApartInv, BlocksInv, [Next]_vars, ~ EmitBlock
  PROVE  BlocksInv'
<1>1. ASSUME pc' \in {"cover", "block", "done"}, pc \notin {"cover", "block", "done"}
      PROVE  BlocksInv'
  <2>1. SubtractTrivial \/ SubtractDone
    BY <1>1 DEF Next, Step, vars, MergeEmpty, SortForMerge, MergeNext, MergeEnd, MergeDone,
       SubtractStart, SkipCarve, EnterBase, CarveInside, CarveToEnd, CarveRest, NextBase,
       NextInterval, EmitBlock, EndInterval, CoverDone, IInv, TypeOK
  <2>2. out' = <<>> /\ pc' = "cover"
    BY <2>1 DEF SubtractTrivial, SubtractDone, IInv, StageInv, coverVars
  <2> QED
    BY <2>2 DEF BlocksInv, Ascending
<1>2. ASSUME pc \in {"cover", "block", "done"},
             NextInterval \/ EndInterval \/ CoverDone \/ UNCHANGED vars
      PROVE  BlocksInv'
  <2>1. /\ carved' = carved /\ out' = out /\ carved \in Seq(Interval) /\ n \in Nat \ {0}
        /\ start \in 0 .. MAX /\ MAX \in Nat
    BY <1>2, SpaceProps
       DEF NextInterval, EndInterval, CoverDone, vars, IInv, TypeOK, carveVars, coverVars
  <2>2. (\A i \in 1 .. Len(out) : Largest(out[i]))' /\ Ascending'
    BY <1>2, <2>1 DEF BlocksInv, Largest, Fitting, Ascending
  <2>3. CASE NextInterval
    <3>1. /\ pc = "cover" /\ pc' = "block" /\ n' = n /\ start' = carved[n].start
          /\ n \in n .. Len(carved)
      BY <2>1, <2>3 DEF NextInterval
    <3>2. \A i \in 1 .. Len(out) : LastOf(out[i]) < carved[n].start
      BY <1>2, <3>1 DEF BlocksInv
    <3>3. ASSUME NEW d \in Cidr, Inside(d, carved[n]), d.network < carved[n].start PROVE FALSE
      <4>1. carved[n].start \in Nat /\ d.network \in Nat
        BY <2>1, <3>1, IntervalFields, BlockTypes
      <4> QED
        BY <3>3, <4>1 DEF Inside
    <3> QED
      BY <2>1, <2>2, <3>1, <3>2, <3>3 DEF BlocksInv
  <2>4. CASE EndInterval
    <3>1. pc = "block" /\ pc' = "cover" /\ n' = n + 1
      BY <2>4 DEF EndInterval
    <3>2. n \in 1 .. Len(carved) /\ start <= carved[n].end + 1
      BY <2>1, <3>1 DEF IInv, CoverInv
    <3>3. ASSUME NEW i \in 1 .. Len(out), NEW k \in (n + 1) .. Len(carved)
          PROVE  LastOf(out[i]) < carved[k].start
      <4>1. LastOf(out[i]) < start /\ out[i] \in Cidr
        BY <1>2, <3>1 DEF BlocksInv, Largest
      <4>2. LastOf(out[i]) \in Nat
        BY <4>1, BlockTypes
      <4>3. k \in 1 .. Len(carved) /\ n < k
        BY <3>2
      <4>4. carved[n].end + 1 < carved[k].start /\ carved[k].start \in Nat /\ carved[n].end \in Nat
        BY <2>1, <3>2, <4>3, IntervalFields DEF ApartInv, Apart
      <4> QED
        BY <2>1, <3>2, <4>1, <4>2, <4>4
    <3> QED
      BY <2>1, <2>2, <3>1, <3>3 DEF BlocksInv
  <2>5. CASE CoverDone
    BY <2>1, <2>2, <2>5 DEF BlocksInv, CoverDone
  <2>6. CASE UNCHANGED vars
    BY <2>1, <2>2, <2>6 DEF BlocksInv, Inside, vars
  <2> QED
    BY <1>2, <2>3, <2>4, <2>5, <2>6
<1>3. pc \in {"cover", "block", "done"} =>
        NextInterval \/ EndInterval \/ CoverDone \/ UNCHANGED vars
  BY DEF Next, Step, MergeEmpty, SortForMerge, MergeNext, MergeEnd,
     SubtractTrivial, SubtractStart, SkipCarve, EnterBase, CarveInside, CarveToEnd, CarveRest,
     SubtractDone
<1>4. pc' \notin {"cover", "block", "done"} => BlocksInv'
  BY DEF BlocksInv
<1> QED
  BY <1>1, <1>2, <1>3, <1>4

\* In every reachable state the blocks so far are largest and ascending.
LEMMA BlocksHold == Spec => []BlocksInv
<1>1. Init => BlocksInv
  BY DEF Init, BlocksInv
<1>2. IInv /\ IInv' /\ ApartInv /\ BlocksInv /\ [Next]_vars => BlocksInv'
  BY EmitBlocksInv, OtherBlocksInv
<1> QED
  BY <1>1, <1>2, InvariantHolds, ApartHolds, PTL DEF Spec

-----------------------------------------------------------------------------
\* A block is within the answer exactly if it fits into one of the pieces.
LEMMA FitsIsFitting ==
  ASSUME IInv, ApartInv, pc = "done", NEW d \in Cidr
  PROVE  Members(d) \subseteq Blocked \ Allowed <=> Fitting(d)
<1>1. carved \in Seq(Interval)
  BY DEF IInv, TypeOK
<1>2. \A a \in Nat : In(a, carved, Len(carved)) <=> Answer(a)
  BY DEF IInv, CoverInv
<1>3. request.candidates \in Seq(Cidr) /\ request.safelist \in Seq(Cidr) /\ Cidr \subseteq Parts
  BY DEF IInv, TypeOK, Sides, Cidr
<1>4. /\ Intervals(request.candidates) \in Seq(Interval)
      /\ Intervals(request.safelist) \in Seq(Interval)
  BY <1>3, IntervalsType
<1>5. Blocked \ Allowed = {a \in Nat : Answer(a)}
  BY <1>4, CoveredIn DEF Blocked, Allowed, Answer, Source
<1>6. d.network \in Nat /\ LastOf(d) \in Nat /\ d.network <= LastOf(d)
  BY BlockTypes
<1>7. Members(d) = d.network .. LastOf(d)
  BY MembersAre
<1>8. ASSUME Fitting(d), NEW a \in d.network .. LastOf(d)
      PROVE  a \in Nat /\ Answer(a)
  <2>1. PICK k \in 1 .. Len(carved) : Inside(d, carved[k])
    BY <1>8 DEF Fitting
  <2>2. carved[k].start \in Nat /\ carved[k].end \in Nat
    BY <1>1, IntervalFields
  <2>3. a \in Nat /\ carved[k].start <= a /\ a <= carved[k].end
    BY <1>6, <1>8, <2>1, <2>2 DEF Inside
  <2> QED
    BY <1>2, <2>3 DEF In
<1>9. ASSUME \A a \in d.network .. LastOf(d) : In(a, carved, Len(carved))
      PROVE  Fitting(d)
  <2>1. PICK k \in 1 .. Len(carved) : carved[k].start <= d.network /\ d.network <= carved[k].end
    BY <1>6, <1>9 DEF In
  <2>2. carved[k].start \in Nat /\ carved[k].end \in Nat
    BY <1>1, IntervalFields
  <2>3. ASSUME carved[k].end < LastOf(d) PROVE FALSE
    <3> DEFINE x == carved[k].end + 1
    <3>1. x \in d.network .. LastOf(d)
      BY <1>6, <2>1, <2>2, <2>3
    <3>2. PICK j \in 1 .. Len(carved) : carved[j].start <= x /\ x <= carved[j].end
      BY <1>9, <3>1 DEF In
    <3>3. carved[j].start \in Nat /\ carved[j].end \in Nat
      BY <1>1, IntervalFields
    <3>4. ~ (j < k) /\ ~ (k < j)
      <4>1. /\ j < k => carved[j].end + 1 < carved[k].start
            /\ k < j => carved[k].end + 1 < carved[j].start
        BY DEF ApartInv, Apart
      <4> QED
        BY <1>6, <2>1, <2>2, <3>2, <3>3, <4>1
    <3>5. j = k
      BY <3>4
    <3> QED
      BY <2>2, <3>2, <3>5
  <2> QED
    BY <1>6, <2>1, <2>2, <2>3 DEF Fitting, Inside
<1>10. Fitting(d) => Members(d) \subseteq Blocked \ Allowed
  BY <1>5, <1>7, <1>8
<1>11. Members(d) \subseteq Blocked \ Allowed => Fitting(d)
  <2> SUFFICES ASSUME Members(d) \subseteq Blocked \ Allowed PROVE Fitting(d)
    OBVIOUS
  <2>1. \A a \in d.network .. LastOf(d) : a \in Nat /\ Answer(a)
    BY <1>5, <1>7
  <2> QED
    BY <1>2, <1>9, <2>1
<1> QED
  BY <1>10, <1>11

\* The largest blocks are all there, and nothing else.
LEMMA MinimalHolds ==
  ASSUME IInv, ApartInv, BlocksInv
  PROVE  Minimal
<1> SUFFICES ASSUME pc = "done" PROVE Minimal
  BY DEF Minimal
<1> DEFINE fits == {c \in Cidr : Members(c) \subseteq Blocked \ Allowed}
<1>1. \A d : d \in fits <=> d \in Cidr /\ Fitting(d)
  BY FitsIsFitting
<1>2. (\A i \in 1 .. Len(out) : Largest(out[i])) /\ Ascending /\ out \in Seq(Parts)
  BY DEF BlocksInv, IInv, TypeOK
<1>3. \A c, d \in Cidr : Members(c) \subseteq Members(d) <=> Nested(c, d)
  <2> SUFFICES ASSUME NEW c \in Cidr, NEW d \in Cidr
               PROVE  Members(c) \subseteq Members(d) <=> Nested(c, d)
    OBVIOUS
  <2>1. /\ c.network \in Nat /\ LastOf(c) \in Nat /\ c.network <= LastOf(c)
        /\ d.network \in Nat /\ LastOf(d) \in Nat
    BY BlockTypes
  <2>2. Members(c) = c.network .. LastOf(c) /\ Members(d) = d.network .. LastOf(d)
    BY MembersAre
  <2>3. c.network \in Members(c) /\ LastOf(c) \in Members(c)
    BY <2>1, <2>2
  <2> QED
    BY <2>1, <2>2, <2>3 DEF Nested
<1>4. \A c : Largest(c) <=> c \in fits /\ \A d \in fits : Members(c) \subseteq Members(d) => c = d
  BY <1>1, <1>3 DEF Largest
<1> HIDE DEF fits
<1>5. ASSUME NEW d, Largest(d) PROVE \E i \in 1 .. Len(out) : out[i] = d
  <2>1. d \in Cidr /\ Fitting(d)
    BY <1>5 DEF Largest
  <2>2. d.network \in Nat /\ LastOf(d) \in Nat /\ d.network <= LastOf(d) /\ d.prefix \in Nat
    BY <2>1, BlockTypes
  <2>3. In(d.network, carved, Len(carved))
    <3>1. PICK k \in 1 .. Len(carved) : Inside(d, carved[k])
      BY <2>1 DEF Fitting
    <3>2. carved \in Seq(Interval)
      BY DEF IInv, TypeOK
    <3>3. carved[k].end \in Nat
      BY <3>2, IntervalFields
    <3> QED
      BY <2>2, <3>1, <3>3 DEF In, Inside
  <2>4. Emitted(d.network)
    BY <2>2, <2>3 DEF IInv, CoverInv
  <2>5. /\ Len(Intervals(out)) = Len(out)
        /\ \A k \in 1 .. Len(out) : Intervals(out)[k] = ToInterval(out[k])
    BY <1>2, IntervalsType
  <2>6. PICK i \in 1 .. Len(out) :
          ToInterval(out[i]).start <= d.network /\ d.network <= ToInterval(out[i]).end
    BY <2>4, <2>5 DEF Emitted, In
  <2> DEFINE c == out[i]
  <2>7. Largest(c) /\ c \in Cidr /\ Fitting(c)
    BY <1>2 DEF Largest
  <2>8. c.network <= d.network /\ d.network <= LastOf(c)
    BY <2>6 DEF LastOf, ToInterval
  <2>9. c.network \in Nat /\ LastOf(c) \in Nat /\ c.network <= LastOf(c) /\ c.prefix \in Nat
    BY <2>7, BlockTypes
  <2> HIDE DEF c
  <2>10. c.network <= LastOf(d)
    BY <2>2, <2>8, <2>9
  <2>11. CASE d.prefix <= c.prefix
    <3>1. Nested(c, d)
      BY <2>1, <2>7, <2>8, <2>10, <2>11, BlocksNest DEF Nested
    <3> QED
      BY <2>1, <2>7, <3>1 DEF Largest, c
  <2>12. CASE c.prefix <= d.prefix
    <3>1. Nested(d, c)
      BY <2>1, <2>7, <2>8, <2>10, <2>12, BlocksNest DEF Nested
    <3> QED
      BY <1>5, <2>7, <3>1 DEF Largest, c
  <2> QED
    BY <2>2, <2>9, <2>11, <2>12
<1>6. ToSet(out) = {c \in fits : \A d \in fits : Members(c) \subseteq Members(d) => c = d}
  <2>1. \A c : c \in ToSet(out) <=> \E i \in 1 .. Len(out) : out[i] = c
    BY <1>2 DEF ToSet
  <2>2. \A c : c \in ToSet(out) <=> Largest(c)
    BY <1>2, <1>5, <2>1
  <2> QED
    BY <1>4, <2>2
<1>7. ASSUME NEW i \in DOMAIN out, NEW j \in DOMAIN out, i < j
      PROVE  out[i].network < out[j].network
  <2>1. i \in 1 .. Len(out) /\ j \in 1 .. Len(out)
    BY <1>2
  <2>2. LastOf(out[i]) < out[j].network /\ out[i] \in Cidr /\ out[j] \in Cidr
    BY <1>2, <1>7, <2>1 DEF Ascending, Largest
  <2>3. /\ out[i].network \in Nat /\ LastOf(out[i]) \in Nat /\ out[i].network <= LastOf(out[i])
        /\ out[j].network \in Nat
    BY <2>2, BlockTypes
  <2> QED
    BY <2>2, <2>3
<1> QED
  BY <1>6, <1>7 DEF Minimal, fits

-----------------------------------------------------------------------------
(***************************************************************************)
(* The radix sort.  The slot of an element is its rank by digit and, among *)
(* equal digits, by index; ranks are different and as many as there are    *)
(* elements, so that a pass permutes the list.                             *)
(***************************************************************************)
Before(d, j, k) == d[j] < d[k] \/ (d[j] = d[k] /\ j < k)

Rank(d, m, k) ==
  1 + Cardinality({j \in 1 .. m : d[j] < d[k]})
    + Cardinality({j \in 1 .. m : j < k /\ d[j] = d[k]})

\* Ranks are 1 .. m, each once, in the order by digit and index.
LEMMA RanksPermute ==
  ASSUME NEW m \in Nat, NEW d, \A k \in 1 .. m : d[k] \in Nat
  PROVE  /\ \A k \in 1 .. m : Rank(d, m, k) \in 1 .. m
         /\ \A j, k \in 1 .. m : Before(d, j, k) <=> Rank(d, m, j) < Rank(d, m, k)
         /\ \A j, k \in 1 .. m : Rank(d, m, j) = Rank(d, m, k) => j = k
         /\ \A p \in 1 .. m : \E k \in 1 .. m : Rank(d, m, k) = p
<1> DEFINE S == 1 .. m
           Less(k) == {j \in S : d[j] < d[k]}
           Same(k) == {j \in S : j < k /\ d[j] = d[k]}
           Below(k) == Less(k) \cup Same(k)
           rank == [k \in S |-> Rank(d, m, k)]
<1>1. IsFiniteSet(S) /\ Cardinality(S) = m
  BY FS_Interval
<1>2. \A k \in S : d[k] \in Nat /\ k \in Nat
  OBVIOUS
<1>3. ASSUME NEW k \in S
      PROVE  /\ rank[k] = 1 + Cardinality(Below(k))
             /\ Below(k) \in SUBSET S /\ IsFiniteSet(Below(k)) /\ Cardinality(Below(k)) \in Nat
  <2>1. Less(k) \in SUBSET S /\ Same(k) \in SUBSET S /\ Below(k) \in SUBSET S
    OBVIOUS
  <2>2. Less(k) \cap Same(k) = {}
    BY <1>2
  <2> HIDE DEF Less, Same, S
  <2>3. IsFiniteSet(Less(k)) /\ IsFiniteSet(Same(k)) /\ IsFiniteSet(Below(k))
    BY <1>1, <2>1, FS_Subset
  <2>4. /\ Cardinality(Less(k)) \in Nat /\ Cardinality(Same(k)) \in Nat
        /\ Cardinality(Below(k)) \in Nat
    BY <2>3, FS_CardinalityType
  <2>5. Cardinality(Less(k) \cap Same(k)) = 0
    BY <2>2, FS_EmptySet
  <2>6. Cardinality(Below(k)) = Cardinality(Less(k)) + Cardinality(Same(k))
    <3> DEFINE u == Cardinality(Less(k) \cup Same(k))
               v == Cardinality(Less(k))
               w == Cardinality(Same(k))
               z == Cardinality(Less(k) \cap Same(k))
    <3>1. u = v + w - z
      BY <2>3, FS_Union
    <3>2. v \in Nat /\ w \in Nat /\ z = 0
      BY <2>4, <2>5
    <3> HIDE DEF u, v, w, z
    <3>3. u = v + w
      BY <3>1, <3>2
    <3> QED
      BY <3>3 DEF u, v, w
  <2>7. rank[k] = 1 + Cardinality(Less(k)) + Cardinality(Same(k))
    BY DEF Rank, Less, Same, S
  <2> QED
    BY <2>1, <2>3, <2>4, <2>6, <2>7
<1>4. \A j, k \in S : j \in Below(k) <=> Before(d, j, k)
  BY DEF Before
<1>5. \A k \in S : k \notin Below(k)
  BY <1>2
<1>6. \A i, j, k \in S : Before(d, i, j) /\ Before(d, j, k) => Before(d, i, k)
  BY <1>2 DEF Before
<1>7. \A j, k \in S : j = k \/ Before(d, j, k) \/ Before(d, k, j)
  BY <1>2 DEF Before
<1>8. \A k \in S : rank[k] = Rank(d, m, k)
  OBVIOUS
<1> HIDE DEF S, Below, rank
<1>9. ASSUME NEW j \in S, NEW k \in S, Before(d, j, k) PROVE rank[j] < rank[k]
  <2>1. Below(j) \in SUBSET Below(k) /\ Below(j) # Below(k)
    BY <1>3, <1>4, <1>5, <1>6, <1>9
  <2>2. /\ Cardinality(Below(j)) <= Cardinality(Below(k))
        /\ Cardinality(Below(j)) # Cardinality(Below(k))
    BY <1>3, <2>1, FS_Subset
  <2> QED
    BY <1>3, <2>2
<1>10. \A k \in S : rank[k] \in 1 .. m
  <2> SUFFICES ASSUME NEW k \in S PROVE rank[k] \in 1 .. m
    OBVIOUS
  <2>1. Cardinality(Below(k)) <= m /\ Cardinality(Below(k)) # m
    BY <1>1, <1>3, <1>5, FS_Subset
  <2> QED
    BY <1>3, <2>1
<1>11. \A j, k \in S :
         /\ rank[j] \in Nat
         /\ rank[j] < rank[k] => ~ (rank[k] < rank[j]) /\ rank[j] # rank[k]
  BY <1>10
<1>12. \A j, k \in S : rank[j] = rank[k] => j = k
  BY <1>7, <1>9, <1>11
<1>13. \A j, k \in S : Before(d, j, k) <=> rank[j] < rank[k]
  BY <1>7, <1>9, <1>11
<1>14. rank \in Injection(S, S)
  BY <1>10, <1>12 DEF Injection, IsInjective, S, rank
<1>15. rank \in Surjection(S, S)
  BY <1>1, <1>14, FS_Injection
<1>16. \A p \in S : \E k \in S : rank[k] = p
  BY <1>15 DEF Surjection
<1> QED
  BY <1>8, <1>10, <1>12, <1>13, <1>16 DEF S

\* A pass permutes the list: by digit, equal digits in their order.
LEMMA PassPermutes ==
  ASSUME NEW list \in Seq(Interval), NEW high \in BOOLEAN
  PROVE  \E g \in [1 .. Len(list) -> 1 .. Len(list)] :
           /\ RadixPass(list, high) = [p \in 1 .. Len(list) |-> list[g[p]]]
           /\ \A p, q \in 1 .. Len(list) : g[p] = g[q] => p = q
           /\ \A k \in 1 .. Len(list) : \E p \in 1 .. Len(list) : g[p] = k
           /\ \A p, q \in 1 .. Len(list) : p < q =>
                \/ Digit(list[g[p]], high) < Digit(list[g[q]], high)
                \/ Digit(list[g[p]], high) = Digit(list[g[q]], high) /\ g[p] < g[q]
<1> DEFINE m == Len(list)
           d == [k \in 1 .. m |-> Digit(list[k], high)]
           g == [p \in 1 .. m |-> CHOOSE k \in DOMAIN list : Slot(list, high, k) = p]
<1>1. m \in Nat /\ DOMAIN list = 1 .. m
  BY LenProperties
<1>2. Radix \in Nat \ {0}
  BY WidthAssumption, PowAssumption DEF Radix
<1>3. \A k \in 1 .. m : list[k].start \in Nat /\ list[k] \in Interval
  BY IntervalFields
<1>4. d \in [1 .. m -> Nat]
  <2>1. \A k \in 1 .. m : Digit(list[k], high) \in Nat
    <3> SUFFICES ASSUME NEW k \in 1 .. m PROVE Digit(list[k], high) \in Nat
      OBVIOUS
    <3>1. list[k].start \in Nat
      BY <1>3
    <3>2. list[k].start \div Radix \in Nat /\ list[k].start % Radix \in Nat
      BY <1>2, <3>1
    <3> QED
      BY <3>2 DEF Digit
  <2> QED
    BY <2>1
<1>5. \A k \in 1 .. m : Slot(list, high, k) = Rank(d, m, k)
  BY <1>1 DEF Slot, Rank
<1>6. \A k \in 1 .. m : d[k] = Digit(list[k], high)
  OBVIOUS
<1>7. RadixPass(list, high) = [p \in 1 .. m |-> list[g[p]]]
  BY DEF RadixPass
<1>8. \A p \in 1 .. m : g[p] = CHOOSE k \in DOMAIN list : Slot(list, high, k) = p
  OBVIOUS
<1>9. DOMAIN g = 1 .. m /\ g = [p \in 1 .. m |-> g[p]]
  OBVIOUS
<1> HIDE DEF d, m, g
<1>10. /\ \A k \in 1 .. m : Rank(d, m, k) \in 1 .. m
       /\ \A j, k \in 1 .. m : Before(d, j, k) <=> Rank(d, m, j) < Rank(d, m, k)
       /\ \A j, k \in 1 .. m : Rank(d, m, j) = Rank(d, m, k) => j = k
       /\ \A p \in 1 .. m : \E k \in 1 .. m : Rank(d, m, k) = p
  <2>1. m \in Nat /\ \A k \in 1 .. m : d[k] \in Nat
    BY <1>1, <1>4
  <2> QED
    BY <2>1, RanksPermute
<1>11. \A p \in 1 .. m : g[p] \in 1 .. m /\ Rank(d, m, g[p]) = p
  <2> SUFFICES ASSUME NEW p \in 1 .. m PROVE g[p] \in 1 .. m /\ Rank(d, m, g[p]) = p
    OBVIOUS
  <2>1. \E k \in DOMAIN list : Slot(list, high, k) = p
    BY <1>1, <1>5, <1>10
  <2>2. g[p] \in DOMAIN list /\ Slot(list, high, g[p]) = p
    BY <1>8, <2>1
  <2> QED
    BY <1>1, <1>5, <2>2
<1>12. g \in [1 .. m -> 1 .. m]
  BY <1>9, <1>11
<1>13. \A p, q \in 1 .. m : g[p] = g[q] => p = q
  BY <1>11
<1>14. \A k \in 1 .. m : \E p \in 1 .. m : g[p] = k
  <2> SUFFICES ASSUME NEW k \in 1 .. m PROVE g[Rank(d, m, k)] = k
    BY <1>10
  <2> QED
    BY <1>10, <1>11
<1>15. ASSUME NEW p \in 1 .. m, NEW q \in 1 .. m, p < q
       PROVE  \/ Digit(list[g[p]], high) < Digit(list[g[q]], high)
              \/ Digit(list[g[p]], high) = Digit(list[g[q]], high) /\ g[p] < g[q]
  <2>1. Before(d, g[p], g[q])
    BY <1>10, <1>11, <1>15
  <2> QED
    BY <1>6, <1>11, <2>1 DEF Before
<1> QED
  BY <1>7, <1>12, <1>13, <1>14, <1>15 DEF m

\* The high digit decides, then the low one.
LEMMA DigitsOrder ==
  ASSUME NEW x \in Nat, NEW y \in Nat, NEW s \in Nat, s >= 1,
         x \div s < y \div s \/ (x \div s = y \div s /\ x % s <= y % s)
  PROVE  x <= y
<1>1. /\ x \div s \in Nat /\ x % s \in 0 .. (s - 1) /\ x = (x \div s) * s + (x % s)
      /\ y \div s \in Nat /\ y % s \in 0 .. (s - 1) /\ y = (y \div s) * s + (y % s)
  OBVIOUS
<1>2. ASSUME NEW u \in Nat, NEW v \in Nat, NEW j \in 0 .. (s - 1), NEW k \in 0 .. (s - 1),
             u < v \/ (u = v /\ j <= k)
      PROVE  u * s + j <= v * s + k
  <2>1. CASE u < v
    <3>1. ~ (v < u + 1)
      BY <2>1
    <3>2. (u + 1) * s <= v * s
      BY <3>1, TimesOrder
    <3>3. (u + 1) * s = u * s + s
      OBVIOUS
    <3> QED
      BY <3>2, <3>3
  <2>2. CASE u = v /\ j <= k
    BY <2>2
  <2> QED
    BY <1>2, <2>1, <2>2
<1> QED
  BY <1>1, <1>2

\* Two passes, the low half first, order a list by start and lose nothing.
LEMMA RadixSortsList ==
  ASSUME NEW list \in Seq(Interval)
  PROVE  \E f \in Orders(list) :
           RadixSort(list) = [k \in 1 .. Len(list) |-> list[f[k]]]
<1> DEFINE m == Len(list)
           low == RadixPass(list, FALSE)
<1>1. m \in Nat /\ Radix \in Nat \ {0}
  BY LenProperties, WidthAssumption, PowAssumption DEF Radix
<1>2. PICK g \in [1 .. m -> 1 .. m] :
        /\ low = [p \in 1 .. m |-> list[g[p]]]
        /\ \A p, q \in 1 .. m : g[p] = g[q] => p = q
        /\ \A k \in 1 .. m : \E p \in 1 .. m : g[p] = k
        /\ \A p, q \in 1 .. m : p < q =>
             \/ Digit(list[g[p]], FALSE) < Digit(list[g[q]], FALSE)
             \/ Digit(list[g[p]], FALSE) = Digit(list[g[q]], FALSE) /\ g[p] < g[q]
  BY PassPermutes
<1>3. low \in Seq(Interval) /\ Len(low) = m /\ \A p \in 1 .. m : low[p] = list[g[p]]
  <2>1. \A p \in 1 .. m : list[g[p]] \in Interval
    <3>1. \A p \in 1 .. m : g[p] \in 1 .. m
      BY <1>2
    <3>2. \A k \in 1 .. m : list[k] \in Interval
      OBVIOUS
    <3> QED
      BY <3>1, <3>2
  <2>2. low \in [1 .. m -> Interval] /\ \A p \in 1 .. m : low[p] = list[g[p]]
    BY <1>2, <2>1
  <2> HIDE DEF low, m
  <2> QED
    BY <1>1, <2>2
<1>4. RadixSort(list) = RadixPass(low, TRUE)
  BY DEF RadixSort
<1> HIDE DEF low
<1>5. PICK h \in [1 .. m -> 1 .. m] :
        /\ RadixPass(low, TRUE) = [p \in 1 .. m |-> low[h[p]]]
        /\ \A p, q \in 1 .. m : h[p] = h[q] => p = q
        /\ \A k \in 1 .. m : \E p \in 1 .. m : h[p] = k
        /\ \A p, q \in 1 .. m : p < q =>
             \/ Digit(low[h[p]], TRUE) < Digit(low[h[q]], TRUE)
             \/ Digit(low[h[p]], TRUE) = Digit(low[h[q]], TRUE) /\ h[p] < h[q]
  <2>1. low \in Seq(Interval) /\ TRUE \in BOOLEAN /\ Len(low) = m
    BY <1>3
  <2>2. \E h \in [1 .. Len(low) -> 1 .. Len(low)] :
          /\ RadixPass(low, TRUE) = [p \in 1 .. Len(low) |-> low[h[p]]]
          /\ \A p, q \in 1 .. Len(low) : h[p] = h[q] => p = q
          /\ \A k \in 1 .. Len(low) : \E p \in 1 .. Len(low) : h[p] = k
          /\ \A p, q \in 1 .. Len(low) : p < q =>
               \/ Digit(low[h[p]], TRUE) < Digit(low[h[q]], TRUE)
               \/ Digit(low[h[p]], TRUE) = Digit(low[h[q]], TRUE) /\ h[p] < h[q]
    BY <2>1, PassPermutes
  <2> QED
    BY <2>1, <2>2
<1> DEFINE f == [p \in 1 .. m |-> g[h[p]]]
<1>6. f \in [1 .. m -> 1 .. m] /\ \A p \in 1 .. m : f[p] = g[h[p]]
  OBVIOUS
<1>7. RadixSort(list) = [k \in 1 .. m |-> list[f[k]]]
  <2>1. \A k \in 1 .. m : low[h[k]] = list[f[k]]
    BY <1>3, <1>6
  <2> QED
    BY <1>4, <1>5, <2>1
<1> HIDE DEF f
<1>8. \A i, j \in 1 .. m : f[i] = f[j] => i = j
  <2> SUFFICES ASSUME NEW i \in 1 .. m, NEW j \in 1 .. m, f[i] = f[j] PROVE i = j
    OBVIOUS
  <2>1. g[h[i]] = g[h[j]] /\ h[i] \in 1 .. m /\ h[j] \in 1 .. m
    BY <1>5, <1>6
  <2>2. h[i] = h[j]
    BY <1>2, <2>1
  <2> QED
    BY <1>5, <2>2
<1>9. \A i \in 1 .. m : \E j \in 1 .. m : f[j] = i
  <2> SUFFICES ASSUME NEW i \in 1 .. m PROVE \E j \in 1 .. m : f[j] = i
    OBVIOUS
  <2>1. PICK p \in 1 .. m : g[p] = i
    BY <1>2
  <2>2. PICK j \in 1 .. m : h[j] = p
    BY <1>5
  <2> QED
    BY <1>6, <2>1, <2>2
<1>10. ASSUME NEW i \in 1 .. m, NEW j \in 1 .. m, i < j
       PROVE  list[f[i]].start <= list[f[j]].start
  <2>1. h[i] \in 1 .. m /\ h[j] \in 1 .. m /\ f[i] \in 1 .. m /\ f[j] \in 1 .. m
    BY <1>5, <1>6
  <2>2. PICK x \in Nat, y \in Nat : x = list[f[i]].start /\ y = list[f[j]].start
    <3>1. list[f[i]] \in Interval /\ list[f[j]] \in Interval
      BY <2>1
    <3> QED
      BY <3>1, IntervalFields
  <2>3. low[h[i]] = list[f[i]] /\ low[h[j]] = list[f[j]]
    BY <1>3, <1>6, <2>1
  <2>4. x \div Radix < y \div Radix \/ (x \div Radix = y \div Radix /\ h[i] < h[j])
    <3>1. /\ Digit(low[h[i]], TRUE) = x \div Radix
          /\ Digit(low[h[j]], TRUE) = y \div Radix
      BY <2>2, <2>3 DEF Digit
    <3>2. \/ Digit(low[h[i]], TRUE) < Digit(low[h[j]], TRUE)
          \/ Digit(low[h[i]], TRUE) = Digit(low[h[j]], TRUE) /\ h[i] < h[j]
      BY <1>5, <1>10
    <3> QED
      BY <3>1, <3>2
  <2>5. h[i] < h[j] => x % Radix <= y % Radix
    <3>1. /\ Digit(list[g[h[i]]], FALSE) = x % Radix
          /\ Digit(list[g[h[j]]], FALSE) = y % Radix
      BY <1>6, <2>2 DEF Digit
    <3>2. h[i] < h[j] => \/ Digit(list[g[h[i]]], FALSE) < Digit(list[g[h[j]]], FALSE)
                         \/ Digit(list[g[h[i]]], FALSE) = Digit(list[g[h[j]]], FALSE)
      BY <1>2, <2>1
    <3>3. x % Radix \in Nat /\ y % Radix \in Nat
      BY <1>1
    <3>4. \A u, v \in Nat : u < v \/ u = v => u <= v
      OBVIOUS
    <3> QED
      BY <3>1, <3>2, <3>3, <3>4, Zenon
  <2>6. x <= y
    <3>1. x \div Radix < y \div Radix \/ (x \div Radix = y \div Radix /\ x % Radix <= y % Radix)
      BY <2>4, <2>5
    <3>2. Radix \in Nat /\ Radix >= 1
      BY <1>1
    <3> QED
      BY <3>1, <3>2, DigitsOrder
  <2> QED
    BY <2>2, <2>6
<1>11. f \in Orders(list)
  BY <1>6, <1>8, <1>9, <1>10 DEF Orders
<1> QED
  BY <1>7, <1>11

\* Canonical form: the radix sort permutes its list into order, and the result
\* consists of the largest blocks that fit, each once and in ascending order
\* (sort_for_merge, intervals_to_*_cidrs_from_merged).
THEOREM EffectiveIsCanonical == Spec => []Canonical
<1>1. IInv => RadixSorts
  <2> SUFFICES ASSUME IInv PROVE RadixSorts
    OBVIOUS
  <2>1. request[side] \in Seq(Parts)
    <3>1. request \in [Sides -> Seq(Cidr)] /\ side \in Sides
      BY DEF IInv, TypeOK
    <3>2. request[side] \in Seq(Cidr) /\ Cidr \subseteq Parts
      BY <3>1 DEF Cidr
    <3> QED
      BY <3>2
  <2>2. Intervals(request[side]) \in Seq(Interval)
    BY <2>1, IntervalsType
  <2> QED
    BY <2>2, RadixSortsList DEF RadixSorts
<1>2. IInv /\ ApartInv /\ BlocksInv => Canonical
  BY <1>1, MinimalHolds DEF Canonical
<1> QED
  BY <1>2, InvariantHolds, ApartHolds, BlocksHold, PTL
=============================================================================
