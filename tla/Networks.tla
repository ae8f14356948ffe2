------------------------------ MODULE Networks ------------------------------
(***************************************************************************)
(* The effective blocklist of one address family: candidates minus         *)
(* safelist, as a minimal list of CIDRs (crates/kidobo-core/src/network.rs *)
(* and network_types.rs, subtract_safelist_ipv4 and _ipv6).                *)
(*                                                                         *)
(* The two families run the same loops on 32 and 128 bits; here the width  *)
(* is a parameter.  Each loop iteration is a step: sort and merge both     *)
(* inputs into intervals, carve one list out of the other, cut what is     *)
(* left into aligned blocks.  Additions that could pass the end of the     *)
(* address space saturate or are guarded, as in the code.                  *)
(***************************************************************************)
EXTENDS Integers, Sequences, FiniteSets, SequencesExt

CONSTANTS
  Width,    \* bits of an address
  Pow,      \* the powers of two up to the width
  Inputs    \* the requests: [candidates, safelist], each a list of CIDRs

MAX == Pow[Width] - 1

\* A CIDR; a canonical one has its host bits cleared (from_parts).
Parts == [network : 0 .. MAX, prefix : 0 .. Width]
Cidr == {c \in Parts : c.network % Pow[Width - c.prefix] = 0}

ASSUME WidthAssumption == Width \in Nat
ASSUME PowAssumption ==
  /\ Pow \in [0 .. Width -> Nat \ {0}]
  /\ Pow[0] = 1
  /\ \A k \in 1 .. Width : Pow[k] = 2 * Pow[k - 1]
ASSUME InputAssumption ==
  Inputs \subseteq [candidates : Seq(Cidr), safelist : Seq(Cidr)]

Interval == {i \in [start : 0 .. MAX, end : 0 .. MAX] : i.start <= i.end}
NoInterval == [start |-> 0, end |-> 0]

Sides == {"candidates", "safelist"}

VARIABLES
  request,   \* the arguments
  pc,        \* the loop the computation is in
  side,      \* the argument that is being merged
  rest,      \* intervals still to merge
  current,   \* the interval being grown
  merged,    \* per side: the merged intervals
  b,         \* index of base_interval
  carveIdx,  \* carve_idx: no later base interval needs an earlier carve interval
  idx,       \* idx, inside one base interval
  nextStart, \* next_start: the part of base_interval before it is settled
  carved,    \* result of subtract_intervals_*_merged
  n,         \* index of the interval being cut into blocks
  start,     \* where the next block begins
  out        \* the CIDRs so far

vars == <<request, pc, side, rest, current, merged, b, carveIdx, idx, nextStart,
          carved, n, start, out>>

mergeVars == <<side, rest, current, merged>>
carveVars == <<b, carveIdx, idx, nextStart, carved>>
coverVars == <<n, start, out>>

-----------------------------------------------------------------------------
(***************************************************************************)
(* Arithmetic of one address width.                                        *)
(***************************************************************************)
SatAdd(x, y) == IF x + y > MAX THEN MAX ELSE x + y

HostMask(prefix) == Pow[Width - prefix] - 1

IsAligned(x, prefix) == x % Pow[Width - prefix] = 0

BlockEnd(x, prefix) == SatAdd(x, HostMask(prefix))

FromParts(x, prefix) ==
  [network |-> x - (x % Pow[Width - prefix]), prefix |-> prefix]

ToInterval(c) == [start |-> c.network, end |-> BlockEnd(c.network, c.prefix)]

Intervals(cidrs) == [k \in 1 .. Len(cidrs) |-> ToInterval(cidrs[k])]

\* largest_prefix: widen while the block is aligned and ends inside; both
\* conditions fail for good once they fail.
Widens(x, last, p) == IsAligned(x, p) /\ BlockEnd(x, p) <= last
LargestPrefix(x, last) ==
  CHOOSE p \in 0 .. Width :
    /\ \A q \in p .. (Width - 1) : Widens(x, last, q)
    /\ p = 0 \/ ~ Widens(x, last, p - 1)

-----------------------------------------------------------------------------
Init ==
  /\ request \in Inputs
  /\ pc = "sort"
  /\ side = "candidates"
  /\ rest = <<>> /\ current = NoInterval
  /\ merged = [s \in Sides |-> <<>>]
  /\ b = 1 /\ carveIdx = 1 /\ idx = 1 /\ nextStart = 0 /\ carved = <<>>
  /\ n = 1 /\ start = 0 /\ out = <<>>

\* The merge of one side is done; subtract_* then handles its early returns.
MergeDone(list) ==
  /\ merged' = [merged EXCEPT ![side] = list]
  /\ rest' = <<>> /\ current' = NoInterval
  /\ IF side = "candidates" THEN side' = "safelist" /\ pc' = "sort"
                            ELSE UNCHANGED side /\ pc' = "subtract"
  /\ UNCHANGED <<request, carveVars, coverVars>>

MergeEmpty ==
  /\ pc = "sort" /\ request[side] = <<>>
  /\ MergeDone(<<>>)

(***************************************************************************)
(* The radix sort of long IPv4 lists: two stable counting passes over the  *)
(* halves of the start, the low half first.                                *)
(***************************************************************************)
Radix == Pow[Width - (Width \div 2)]
Digit(i, high) == IF high THEN i.start \div Radix ELSE i.start % Radix

\* counts, after the prefix sums and the earlier elements of the same bucket.
Slot(list, high, k) ==
  LET d(j) == Digit(list[j], high) IN
  1 + Cardinality({j \in DOMAIN list : d(j) < d(k)})
    + Cardinality({j \in DOMAIN list : j < k /\ d(j) = d(k)})

RadixPass(list, high) ==
  [p \in 1 .. Len(list) |-> list[CHOOSE k \in DOMAIN list : Slot(list, high, k) = p]]

RadixSort(list) == RadixPass(RadixPass(list, FALSE), TRUE)

\* An order of the list by start.  sort_unstable also orders equal starts by
\* their end; the radix sort keeps their given order.
Orders(list) ==
  {f \in [1 .. Len(list) -> 1 .. Len(list)] :
     /\ \A i, j \in 1 .. Len(list) : f[i] = f[j] => i = j
     /\ \A i \in 1 .. Len(list) : \E j \in 1 .. Len(list) : f[j] = i
     /\ \A i, j \in 1 .. Len(list) : i < j => list[f[i]].start <= list[f[j]].start}

SortForMerge ==
  /\ pc = "sort" /\ request[side] # <<>>
  /\ LET list == Intervals(request[side]) IN
     \E f \in Orders(list) :
       LET sorted == [k \in 1 .. Len(list) |-> list[f[k]]] IN
       current' = Head(sorted) /\ rest' = Tail(sorted)
  /\ pc' = "merge"
  /\ UNCHANGED <<request, side, merged, carveVars, coverVars>>

\* Mutant: an interval that only touches the current one is kept apart.
TouchesOverlapping(interval) == interval.start <= current.end

Touches(interval) == interval.start <= SatAdd(current.end, 1)

Grown(interval) ==
  [current EXCEPT !.end = IF interval.end > @ THEN interval.end ELSE @]

MergeNext ==
  /\ pc = "merge" /\ rest # <<>>
  /\ rest' = Tail(rest)
  /\ \/ /\ Touches(Head(rest))
        /\ current' = Grown(Head(rest))
        /\ UNCHANGED merged
     \/ /\ ~ Touches(Head(rest))
        /\ merged' = [merged EXCEPT ![side] = Append(@, current)]
        /\ current' = Head(rest)
  /\ UNCHANGED <<request, pc, side, carveVars, coverVars>>

MergeEnd ==
  /\ pc = "merge" /\ rest = <<>>
  /\ MergeDone(Append(merged[side], current))

-----------------------------------------------------------------------------
(***************************************************************************)
(* subtract_intervals_*_merged.                                            *)
(***************************************************************************)
base == merged["candidates"]
carve == merged["safelist"]

SubtractTrivial ==
  /\ pc = "subtract" /\ (base = <<>> \/ carve = <<>>)
  /\ carved' = base
  /\ pc' = "cover"
  /\ UNCHANGED <<request, mergeVars, b, carveIdx, idx, nextStart, coverVars>>

SubtractStart ==
  /\ pc = "subtract" /\ base # <<>> /\ carve # <<>>
  /\ pc' = "skip"
  /\ UNCHANGED <<request, mergeVars, carveVars, coverVars>>

\* The first while: carve intervals that end before this base interval.
SkipCarve ==
  /\ pc = "skip" /\ b <= Len(base)
  /\ carveIdx <= Len(carve) /\ carve[carveIdx].end < base[b].start
  /\ carveIdx' = carveIdx + 1
  /\ UNCHANGED <<request, pc, mergeVars, b, idx, nextStart, carved, coverVars>>

EnterBase ==
  /\ pc = "skip" /\ b <= Len(base)
  /\ ~ (carveIdx <= Len(carve) /\ carve[carveIdx].end < base[b].start)
  /\ nextStart' = base[b].start
  /\ idx' = carveIdx
  /\ pc' = "carve"
  /\ UNCHANGED <<request, mergeVars, b, carveIdx, carved, coverVars>>

\* The loop goes on: there is a carve interval that starts inside or before.
Carving == idx <= Len(carve) /\ carve[idx].start <= base[b].end

\* What is left of base_interval before the carve interval c is a result.
WithGap(c) ==
  IF c.start > nextStart
  THEN Append(carved, [start |-> nextStart, end |-> c.start - 1]) ELSE carved

\* Mutant: the carve interval that reaches past this base interval is consumed.
NextBaseConsuming(i) == carveIdx' = i + 1 /\ b' = b + 1 /\ pc' = "skip"

\* After the loop: the next base interval begins where this one stopped.
NextBase(i) == carveIdx' = i /\ b' = b + 1 /\ pc' = "skip"

\* One iteration; a carve interval that ends before next_start is passed over.
CarveInside ==
  /\ pc = "carve" /\ Carving /\ carve[idx].end < base[b].end
  /\ LET passed == carve[idx].end < nextStart IN
     /\ carved' = IF passed THEN carved ELSE WithGap(carve[idx])
     /\ nextStart' = IF passed THEN nextStart ELSE carve[idx].end + 1
  /\ idx' = idx + 1
  /\ UNCHANGED <<request, pc, mergeVars, b, carveIdx, coverVars>>

\* fully_carved: the carve interval reaches the end of the base interval.
CarveToEnd ==
  /\ pc = "carve" /\ Carving
  /\ carve[idx].end >= nextStart /\ carve[idx].end >= base[b].end
  /\ carved' = WithGap(carve[idx])
  /\ NextBase(idx)
  /\ UNCHANGED <<request, mergeVars, idx, nextStart, coverVars>>

CarveRest ==
  /\ pc = "carve" /\ ~ Carving
  /\ carved' = IF nextStart <= base[b].end
               THEN Append(carved, [start |-> nextStart, end |-> base[b].end])
               ELSE carved
  /\ NextBase(idx)
  /\ UNCHANGED <<request, mergeVars, idx, nextStart, coverVars>>

SubtractDone ==
  /\ pc = "skip" /\ b > Len(base)
  /\ pc' = "cover"
  /\ UNCHANGED <<request, mergeVars, carveVars, coverVars>>

-----------------------------------------------------------------------------
(***************************************************************************)
(* intervals_to_*_cidrs_from_merged.                                       *)
(***************************************************************************)
NextInterval ==
  /\ pc = "cover" /\ n <= Len(carved)
  /\ start' = carved[n].start
  /\ pc' = "block"
  /\ UNCHANGED <<request, mergeVars, carveVars, n, out>>

\* The breaks: the whole space, or a block that ends at its end.
LastBlock(p) == p = 0 \/ start > MAX - Pow[Width - p]

EmitBlock ==
  /\ pc = "block" /\ start <= carved[n].end
  /\ LET p == LargestPrefix(start, carved[n].end) IN
     /\ out' = Append(out, FromParts(start, p))
     /\ IF LastBlock(p) THEN n' = n + 1 /\ pc' = "cover" /\ UNCHANGED start
                        ELSE start' = start + Pow[Width - p] /\ UNCHANGED <<n, pc>>
  /\ UNCHANGED <<request, mergeVars, carveVars>>

EndInterval ==
  /\ pc = "block" /\ start > carved[n].end
  /\ n' = n + 1 /\ pc' = "cover"
  /\ UNCHANGED <<request, mergeVars, carveVars, start, out>>

CoverDone ==
  /\ pc = "cover" /\ n > Len(carved)
  /\ pc' = "done"
  /\ UNCHANGED <<request, mergeVars, carveVars, coverVars>>

Step ==
  \/ MergeEmpty \/ SortForMerge \/ MergeNext \/ MergeEnd
  \/ SubtractTrivial \/ SubtractStart \/ SkipCarve \/ EnterBase
  \/ CarveInside \/ CarveToEnd \/ CarveRest \/ SubtractDone
  \/ NextInterval \/ EmitBlock \/ EndInterval \/ CoverDone

Next == Step \/ (pc = "done" /\ UNCHANGED vars)

Spec == Init /\ [][Next]_vars

-----------------------------------------------------------------------------
TypeOK ==
  /\ request \in [Sides -> Seq(Cidr)]
  /\ pc \in {"sort", "merge", "subtract", "skip", "carve", "cover", "block", "done"}
  /\ side \in Sides
  /\ rest \in Seq(Interval) /\ current \in Interval
  /\ merged \in [Sides -> Seq(Interval)]
  /\ b \in Nat \ {0} /\ carveIdx \in Nat \ {0} /\ idx \in Nat \ {0}
  /\ nextStart \in 0 .. MAX
  /\ carved \in Seq(Interval)
  /\ n \in Nat \ {0} /\ start \in 0 .. MAX
  /\ out \in Seq(Parts)

\* The addresses of an interval and of a list of them.
Addresses(i) == i.start .. i.end
Covered(list) == UNION {Addresses(list[k]) : k \in 1 .. Len(list)}

Blocked == Covered(Intervals(request.candidates))
Allowed == Covered(Intervals(request.safelist))

(***************************************************************************)
(* The result blocks every candidate address that is not safelisted and no *)
(* other: nothing is lost where lists touch, nest or overlap, nor at       *)
(* either end of the address space, and no safelisted address is blocked.  *)
(***************************************************************************)
Exact == pc = "done" => Covered(Intervals(out)) = Blocked \ Allowed

\* What a CIDR means, by its bits: the addresses that share its prefix.
Members(c) == {a \in 0 .. MAX : a - (a % Pow[Width - c.prefix]) = c.network}

(***************************************************************************)
(* The result is minimal: it consists of the largest blocks that fit into  *)
(* the effective addresses, each once and in ascending order.  The         *)
(* capacity check counts these entries.                                    *)
(***************************************************************************)
Minimal ==
  pc = "done" =>
    /\ LET fits == {c \in Cidr : Members(c) \subseteq Blocked \ Allowed} IN
       ToSet(out) = {c \in fits : \A d \in fits :
                       Members(c) \subseteq Members(d) => c = d}
    /\ \A i, j \in DOMAIN out : i < j => out[i].network < out[j].network

\* The radix sort, which only lists of 16,384 intervals reach, orders by start
\* and neither loses nor repeats an interval.
RadixSorts ==
  pc = "sort" =>
    LET list == Intervals(request[side]) IN
    \E f \in Orders(list) :
      RadixSort(list) = [k \in 1 .. Len(list) |-> list[f[k]]]

(***************************************************************************)
(* Canonical form: however the input was sorted, the result is the one     *)
(* minimal list of its addresses.                                          *)
(***************************************************************************)
Canonical == RadixSorts /\ Minimal
=============================================================================
