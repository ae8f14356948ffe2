--------------------------- MODULE FirewallProofs ---------------------------
(***************************************************************************)
(* Proofs about Firewall for any sets, rules, foreign rules and number of  *)
(* faults.                                                                 *)
(***************************************************************************)
EXTENDS Firewall, SequencesExt, TLAPS, SequenceTheorems, WellFoundedInduction, FiniteSetTheorems

(***************************************************************************)
(* What the operators return that change a chain: RemoveAt, InsertAt,      *)
(* RemoveFirst, and a rule put in front.                                   *)
(***************************************************************************)
\* Min of a nonempty set of naturals is its least element.
LEMMA MinFirst ==
  ASSUME NEW S, S \subseteq Nat, S # {}
  PROVE  Min(S) \in S /\ \A y \in S : Min(S) <= y
<1>1. PICK x \in S : \A y \in S : ~ (<<y, x>> \in OpToRel(<, Nat))
  BY NatLessThanWellFounded, WFMin
<1>2. ASSUME NEW y \in S
      PROVE  x <= y
  <2>1. <<y, x>> \in OpToRel(<, Nat) <=> <<y, x>> \in Nat \X Nat /\ y < x
    BY Zenon DEF OpToRel
  <2>2. ~ (<<y, x>> \in Nat \X Nat /\ y < x)
    BY <1>1, <2>1, Zenon
  <2> QED
    BY <2>2
<1> QED
  BY <1>2 DEF Min

\* RemoveAt drops position p and closes the gap.
LEMMA RemoveAtProps ==
  ASSUME NEW T, NEW s \in Seq(T), NEW p \in 1 .. Len(s)
  PROVE  /\ RemoveAt(s, p) \in Seq(T)
         /\ Len(RemoveAt(s, p)) = Len(s) - 1
         /\ \A i \in 1 .. (Len(s) - 1) :
              RemoveAt(s, p)[i] = IF i < p THEN s[i] ELSE s[i + 1]
<1> DEFINE a == SubSeq(s, 1, p - 1)
           b == SubSeq(s, p + 1, Len(s))
<1>1. a \in Seq(T) /\ Len(a) = p - 1 /\ \A i \in 1 .. (p - 1) : a[i] = s[i]
  OBVIOUS
<1>2. b \in Seq(T) /\ Len(b) = Len(s) - p
      /\ \A i \in 1 .. (Len(s) - p) : b[i] = s[p + i]
  OBVIOUS
<1>3. RemoveAt(s, p) = a \o b
  BY DEF RemoveAt
<1> HIDE DEF a, b
<1>4. a \o b \in Seq(T)
  BY <1>1, <1>2, ConcatProperties, Zenon
<1>5. Len(a \o b) = Len(s) - 1
  BY <1>1, <1>2
<1>6. ASSUME NEW i \in 1 .. (Len(s) - 1)
      PROVE  (a \o b)[i] = IF i < p THEN s[i] ELSE s[i + 1]
  BY <1>1, <1>2
<1> QED
  BY <1>3, <1>4, <1>5, <1>6

\* A leading element shifts the others by one.
LEMMA ConsProps ==
  ASSUME NEW T, NEW s \in Seq(T), NEW x \in T
  PROVE  /\ <<x>> \o s \in Seq(T)
         /\ Len(<<x>> \o s) = Len(s) + 1
         /\ (<<x>> \o s)[1] = x
         /\ \A i \in 1 .. Len(s) : (<<x>> \o s)[i + 1] = s[i]
OBVIOUS

\* InsertAt puts x at position p and shifts what follows.
LEMMA InsertAtProps ==
  ASSUME NEW T, NEW s \in Seq(T), NEW x \in T, NEW p \in 1 .. (Len(s) + 1)
  PROVE  /\ InsertAt(s, p, x) \in Seq(T)
         /\ Len(InsertAt(s, p, x)) = Len(s) + 1
         /\ \A i \in 1 .. (p - 1) : InsertAt(s, p, x)[i] = s[i]
         /\ InsertAt(s, p, x)[p] = x
         /\ \A i \in p .. Len(s) : InsertAt(s, p, x)[i + 1] = s[i]
<1> DEFINE a == SubSeq(s, 1, p - 1)
           b == SubSeq(s, p, Len(s))
<1>1. a \in Seq(T) /\ Len(a) = p - 1 /\ \A i \in 1 .. (p - 1) : a[i] = s[i]
  OBVIOUS
<1>2. b \in Seq(T) /\ Len(b) = Len(s) - p + 1
      /\ \A i \in 1 .. (Len(s) - p + 1) : b[i] = s[p + i - 1]
  OBVIOUS
<1>3. InsertAt(s, p, x) = a \o <<x>> \o b
  BY DEF InsertAt
<1> HIDE DEF a, b
<1> DEFINE c == a \o <<x>>
<1>4. c \in Seq(T) /\ Len(c) = p /\ c[p] = x /\ \A i \in 1 .. (p - 1) : c[i] = s[i]
  BY <1>1
<1> HIDE DEF c
<1>5. c \o b \in Seq(T)
  BY <1>2, <1>4, ConcatProperties, Zenon
<1>6. Len(c \o b) = Len(c) + Len(b)
      /\ \A i \in 1 .. (Len(c) + Len(b)) :
           (c \o b)[i] = IF i <= Len(c) THEN c[i] ELSE b[i - Len(c)]
  BY <1>2, <1>4, ConcatProperties, Zenon
<1>7. Len(c \o b) = Len(s) + 1
  BY <1>2, <1>4, <1>6
<1>8. /\ \A i \in 1 .. (p - 1) : (c \o b)[i] = s[i]
      /\ (c \o b)[p] = x
      /\ \A i \in p .. Len(s) : (c \o b)[i + 1] = s[i]
  <2>1. \A i \in 1 .. (p - 1) : (c \o b)[i] = s[i]
    BY <1>2, <1>4
  <2>2. (c \o b)[p] = x
    BY <1>2, <1>4
  <2>3. ASSUME NEW i \in p .. Len(s)
        PROVE  (c \o b)[i + 1] = s[i]
    <3>1. (c \o b)[i + 1] = b[i + 1 - p]
      BY <1>2, <1>4, <1>6
    <3>2. i + 1 - p \in 1 .. (Len(s) - p + 1) /\ p + (i + 1 - p) - 1 = i
      OBVIOUS
    <3> QED
      BY <1>2, <3>1, <3>2
  <2> QED
    BY <2>1, <2>2, <2>3
<1> QED
  BY <1>3, <1>5, <1>7, <1>8 DEF c

\* RemoveFirst is RemoveAt of the first position that holds x.
LEMMA RemoveFirstProps ==
  ASSUME NEW T, NEW s \in Seq(T), NEW x, Contains(s, x)
  PROVE  \E p \in 1 .. Len(s) :
           /\ s[p] = x
           /\ \A i \in 1 .. (p - 1) : s[i] # x
           /\ RemoveFirst(s, x) = RemoveAt(s, p)
<1> DEFINE I == {i \in 1 .. Len(s) : s[i] = x}
<1>1. I # {} /\ I \subseteq Nat
  BY DEF Contains
<1>2. Min(I) \in I /\ \A y \in I : Min(I) <= y
  BY <1>1, MinFirst
<1>3. SelectInSeq(s, LAMBDA v : v = x) = Min(I)
  BY <1>1 DEF SelectInSeq
<1>4. RemoveFirst(s, x) = RemoveAt(s, Min(I))
  BY <1>3 DEF RemoveFirst, Contains
<1>5. Min(I) \in 1 .. Len(s) /\ s[Min(I)] = x
  BY <1>2
<1>6. \A i \in 1 .. (Min(I) - 1) : s[i] # x
  BY <1>2, <1>5
<1> QED
  BY <1>4, <1>5, <1>6

-----------------------------------------------------------------------------
(***************************************************************************)
(* The inductive invariant.  CountInv: the delete loops always leave the   *)
(* rule that was appended.  RuleInv: once the new rule, or the staging     *)
(* jump, is in its chain, the chain stays nonempty for the rest of the     *)
(* sync.  HookInv: while the jumps of one kind are removed from INPUT, a   *)
(* jump of the other kind stands before all of them.                       *)
(***************************************************************************)
CountInv ==
  /\ pc = "delete_rules" => old >= 1 /\ Len(fw.stable) = old + 1
  /\ pc = "delete_jumps" => old >= 1 /\ fw.staging = old + 1

RuleInv ==
  /\ pc \in {"delete_rules", "ensure_staging", "append_jump", "delete_jumps",
             "insert_staging", "remove_stable", "insert_stable", "remove_staging",
             "flush_staging", "delete_staging", "verify"}
       => fw.stable # <<>>
  /\ pc \in {"delete_jumps", "insert_staging", "remove_stable", "insert_stable",
             "remove_staging"}
       => fw.staging > 0

Precedes(s, a, b) ==
  \E i \in 1 .. Len(s) : s[i] = a /\ \A j \in 1 .. Len(s) : s[j] = b => i < j

HookInv ==
  /\ pc = "remove_stable" => Precedes(fw.input, STAGING, STABLE)
  /\ pc = "remove_staging" => Precedes(fw.input, STABLE, STAGING)
  /\ pc = "flush_staging" => ~ Contains(fw.input, STAGING)

IInv == TypeOK /\ CountInv /\ RuleInv /\ HookInv

InputRules == Jumps \cup Foreign

-----------------------------------------------------------------------------
\* A rule put in front of INPUT precedes every other rule.
LEMMA PrecedesCons ==
  ASSUME NEW s \in Seq(InputRules), NEW a \in InputRules, NEW b, a # b
  PROVE  Precedes(<<a>> \o s, a, b)
<1> DEFINE t == <<a>> \o s
<1>1. t \in Seq(InputRules) /\ Len(t) = Len(s) + 1 /\ t[1] = a
  BY ConsProps
<1>2. \A j \in 1 .. Len(t) : t[j] = b => 1 < j
  BY <1>1
<1> QED
  BY <1>1, <1>2 DEF Precedes

\* Deleting another rule keeps the order of the two.
LEMMA PrecedesRemoveAt ==
  ASSUME NEW s \in Seq(InputRules), NEW p \in 1 .. Len(s), NEW a, NEW b,
         s[p] # a, Precedes(s, a, b)
  PROVE  Precedes(RemoveAt(s, p), a, b)
<1> DEFINE t == RemoveAt(s, p)
<1>1. /\ t \in Seq(InputRules)
      /\ Len(t) = Len(s) - 1
      /\ \A i \in 1 .. (Len(s) - 1) : t[i] = IF i < p THEN s[i] ELSE s[i + 1]
  BY RemoveAtProps
<1> HIDE DEF t
<1>2. PICK i \in 1 .. Len(s) : s[i] = a /\ \A j \in 1 .. Len(s) : s[j] = b => i < j
  BY DEF Precedes
<1>3. i # p
  BY <1>2
<1> DEFINE w == IF i < p THEN i ELSE i - 1
<1>4. w \in 1 .. Len(t) /\ t[w] = a
  BY <1>1, <1>2, <1>3
<1>5. ASSUME NEW j \in 1 .. Len(t), t[j] = b
      PROVE  w < j
  <2>1. CASE j < p
    BY <1>1, <1>2, <1>3, <1>5, <2>1
  <2>2. CASE j >= p
    <3>1. s[j + 1] = b /\ j + 1 \in 1 .. Len(s)
      BY <1>1, <1>5, <2>2
    <3>2. i < j + 1
      BY <1>2, <3>1
    <3> QED
      BY <1>3, <3>2, <2>2
  <2> QED
    BY <1>1, <2>1, <2>2
<1> QED
  BY <1>4, <1>5 DEF Precedes, t

\* So does another tool's insertion.
LEMMA PrecedesInsertAt ==
  ASSUME NEW s \in Seq(InputRules), NEW f \in InputRules, NEW p \in 1 .. (Len(s) + 1),
         NEW a, NEW b, f # b, Precedes(s, a, b)
  PROVE  Precedes(InsertAt(s, p, f), a, b)
<1> DEFINE t == InsertAt(s, p, f)
<1>1. /\ t \in Seq(InputRules)
      /\ Len(t) = Len(s) + 1
      /\ \A i \in 1 .. (p - 1) : t[i] = s[i]
      /\ t[p] = f
      /\ \A i \in p .. Len(s) : t[i + 1] = s[i]
  BY InsertAtProps
<1> HIDE DEF t
<1>2. PICK i \in 1 .. Len(s) : s[i] = a /\ \A j \in 1 .. Len(s) : s[j] = b => i < j
  BY DEF Precedes
<1> DEFINE w == IF i < p THEN i ELSE i + 1
<1>4. w \in 1 .. Len(t) /\ t[w] = a
  BY <1>1, <1>2
<1>5. ASSUME NEW j \in 1 .. Len(t), t[j] = b
      PROVE  w < j
  <2>1. CASE j < p
    BY <1>1, <1>2, <1>5, <2>1
  <2>2. CASE j > p
    <3>1. j - 1 \in p .. Len(s) /\ t[(j - 1) + 1] = s[j - 1] /\ s[j - 1] = b
      BY <1>1, <1>5, <2>2
    <3>2. i < j - 1
      BY <1>2, <3>1
    <3> QED
      BY <3>2, <2>2
  <2> QED
    BY <1>1, <1>5, <2>1, <2>2
<1> QED
  BY <1>4, <1>5 DEF Precedes, t

\* Deleting a rule by its specification leaves a sequence of rules.
LEMMA RemoveFirstInput ==
  ASSUME NEW s \in Seq(InputRules), NEW x
  PROVE  RemoveFirst(s, x) \in Seq(InputRules)
<1>1. CASE Contains(s, x)
  BY <1>1, RemoveFirstProps, RemoveAtProps
<1>2. CASE ~ Contains(s, x)
  BY <1>2 DEF RemoveFirst, Contains
<1> QED
  BY <1>1, <1>2

-----------------------------------------------------------------------------
(***************************************************************************)
(* Type correctness and the inductive invariant.                           *)
(***************************************************************************)
USE DEF SyncSteps, CleanupSteps, Results

\* The tables after boot are a kernel state.
LEMMA EmptyKernelType == EmptyKernel \in Kernel
<1>1. <<>> \in Seq(Jumps \cup Foreign) /\ <<>> \in Seq(Rules)
  OBVIOUS
<1> QED
  BY <1>1 DEF EmptyKernel, Kernel

\* The invariant holds at the start: no sync is under way.
LEMMA InitIInv == Init => IInv
<1> SUFFICES ASSUME Init PROVE IInv
  OBVIOUS
<1>1. TypeOK
  <2>1. faults \in 0 .. MaxFaults /\ old \in Nat
    BY FaultAssumption DEF Init
  <2> QED
    BY <2>1, EmptyKernelType, Zenon DEF Init, TypeOK
<1>2. CountInv /\ RuleInv /\ HookInv
  BY DEF Init, CountInv, RuleInv, HookInv
<1> QED
  BY <1>1, <1>2 DEF IInv

\* Every command turns a kernel state into a kernel state.
LEMMA KernelType ==
  ASSUME NEW k \in Kernel, NEW c \in Jumps, NEW r \in Rules
  PROVE  /\ EnsureChain(k, c) \in Kernel
         /\ AppendRule(k, r) \in Kernel
         /\ k.stable # <<>> => DeleteFirstRule(k) \in Kernel
         /\ AppendJump(k) \in Kernel
         /\ k.staging > 0 => DeleteFirstJump(k) \in Kernel
         /\ InsertInputJump(k, c) \in Kernel
         /\ DeleteInputJump(k, c) \in Kernel
         /\ FlushChain(k, c) \in Kernel
         /\ DeleteChain(k, c) \in Kernel
         /\ CreateSet(k, r.set) \in Kernel
         /\ DestroySet(k, r.set) \in Kernel
<1>1. r.set \in Sets
  BY RuleAssumption
<1>2. k.input \in Seq(InputRules) /\ k.chains \in SUBSET Jumps
      /\ k.stable \in Seq(Rules) /\ k.staging \in Nat /\ k.sets \in SUBSET Sets
  BY DEF Kernel, InputRules
<1>3. EnsureChain(k, c) \in Kernel /\ DeleteChain(k, c) \in Kernel
  BY DEF Kernel, EnsureChain, DeleteChain
<1>4. AppendRule(k, r) \in Kernel
  <2>1. Append(k.stable, r) \in Seq(Rules)
    BY <1>2
  <2> QED
    BY <2>1 DEF Kernel, AppendRule
<1>5. ASSUME k.stable # <<>>
      PROVE  DeleteFirstRule(k) \in Kernel
  <2>1. Tail(k.stable) \in Seq(Rules)
    BY <1>2, <1>5
  <2> QED
    BY <2>1 DEF Kernel, DeleteFirstRule
<1>6. AppendJump(k) \in Kernel
  <2>1. k.staging + 1 \in Nat
    BY <1>2
  <2> QED
    BY <2>1 DEF Kernel, AppendJump
<1>11. ASSUME k.staging > 0
       PROVE  DeleteFirstJump(k) \in Kernel
  <2>1. k.staging - 1 \in Nat
    BY <1>2, <1>11
  <2> QED
    BY <2>1 DEF Kernel, DeleteFirstJump
<1>7. InsertInputJump(k, c) \in Kernel
  <2>1. <<c>> \o k.input \in Seq(InputRules)
    BY <1>2, ConsProps DEF InputRules
  <2> QED
    BY <2>1 DEF Kernel, InsertInputJump, InputRules
<1>8. DeleteInputJump(k, c) \in Kernel
  <2>1. RemoveFirst(k.input, c) \in Seq(InputRules)
    BY <1>2, RemoveFirstInput
  <2> QED
    BY <2>1 DEF Kernel, DeleteInputJump, InputRules
<1>9. FlushChain(k, c) \in Kernel
  <2>1. <<>> \in Seq(Rules) /\ 0 \in Nat
    OBVIOUS
  <2>2. [k EXCEPT !.stable = <<>>] \in Kernel
    BY <2>1 DEF Kernel
  <2>3. [k EXCEPT !.staging = 0] \in Kernel
    BY <2>1 DEF Kernel
  <2> QED
    BY <2>2, <2>3 DEF FlushChain
<1>10. CreateSet(k, r.set) \in Kernel /\ DestroySet(k, r.set) \in Kernel
  BY <1>1 DEF Kernel, CreateSet, DestroySet
<1> QED
  BY <1>3, <1>4, <1>5, <1>6, <1>7, <1>8, <1>9, <1>10, <1>11

PCs == {"idle"} \cup SyncSteps \cup CleanupSteps

\* A command of a sync either ends it or took effect and goes on.
LEMMA SyncControl ==
  ASSUME TypeOK, NEW STATE p, NEW STATE pre, NEW STATE new, NEW STATE next,
         RunChecked(p, pre, new, next), next \in PCs, pre => new \in Kernel
  PROVE  /\ fw' \in Kernel /\ pc' \in PCs /\ plan' \in Rules /\ err' \in BOOLEAN
         /\ result' \in Results /\ faults' \in 0 .. MaxFaults
         /\ disturbed' \in BOOLEAN
         /\ \/ pc' = "idle"
            \/ pre /\ fw' = new /\ pc' = next
<1>1. faults' \in 0 .. MaxFaults
  BY FaultAssumption DEF RunChecked, Proceed, Fault, NoFault, TypeOK
<1>2. /\ fw' \in Kernel /\ plan' \in Rules /\ err' \in BOOLEAN
      /\ result' \in Results /\ disturbed' \in BOOLEAN
  BY Zenon DEF RunChecked, Proceed, Fault, Abort, NoFault, TypeOK
<1>3. pc' = "idle" \/ (pre /\ fw' = new /\ pc' = next)
  BY Zenon DEF RunChecked, Proceed, Abort
<1> QED
  BY <1>1, <1>2, <1>3 DEF PCs

\* The same for a cleanup step.
LEMMA CleanupControl ==
  ASSUME TypeOK, NEW STATE p, NEW STATE pre, NEW STATE new, NEW STATE next,
         Attempt(p, pre, new, next), next \in PCs, pre => new \in Kernel
  PROVE  TypeOK' /\ pc' = next
<1>1. faults' \in 0 .. MaxFaults
  BY FaultAssumption DEF Attempt, Proceed, Fault, NoFault, TypeOK
<1>2. /\ fw' \in Kernel /\ plan' \in Rules /\ err' \in BOOLEAN /\ old' \in Nat
      /\ result' \in Results /\ disturbed' \in BOOLEAN /\ pc' = next
  BY Zenon DEF Attempt, Proceed, Fault, Skip, NoFault, TypeOK
<1> QED
  BY <1>1, <1>2 DEF PCs, TypeOK

\* A round of remove_all_input_jumps_for_chain in a cleanup repeats or goes on.
LEMMA UnhookControl ==
  ASSUME TypeOK, NEW p \in PCs, NEW c \in Jumps, NEW next \in PCs, Unhook(p, c, next)
  PROVE  TypeOK' /\ pc' \in {p, next}
<1>1. DeleteInputJump(fw, c) \in Kernel
  BY KernelType DEF TypeOK
<1>2. CASE Contains(fw.input, c)
  <2>1. faults' \in 0 .. MaxFaults
    BY <1>2, FaultAssumption DEF Unhook, Proceed, Fault, NoFault, TypeOK
  <2>2. /\ fw' \in Kernel /\ plan' \in Rules /\ err' \in BOOLEAN /\ old' \in Nat
        /\ result' \in Results /\ disturbed' \in BOOLEAN /\ pc' \in {p, next}
    BY <1>1, <1>2, Zenon DEF Unhook, Proceed, Fault, Skip, NoFault, TypeOK
  <2> QED
    BY <2>1, <2>2 DEF PCs, TypeOK
<1>3. CASE ~ Contains(fw.input, c)
  <2>1. Attempt(p, TRUE, fw, next)
    BY <1>3 DEF Unhook
  <2> QED
    BY <2>1, CleanupControl DEF TypeOK
<1> QED
  BY <1>2, <1>3

\* Outside the sync steps the invariant asks for nothing but types.
LEMMA OutsideSync ==
  ASSUME TypeOK', pc' \in {"idle", "ensure_set", "ensure_chain", "replace_set",
                           "activate", "append_rule"} \cup CleanupSteps
  PROVE  IInv'
<1>1. CountInv' /\ RuleInv' /\ HookInv'
  BY DEF CountInv, RuleInv, HookInv
<1> QED
  BY <1>1 DEF IInv

\* Another tool's edit of INPUT keeps the order of Kidobo's jumps.
LEMMA ForeignStepIInv ==
  ASSUME IInv, ForeignStep
  PROVE  IInv'
<1> PICK f \in Foreign : ForeignInsert(f) \/ ForeignDelete(f)
  BY DEF ForeignStep
<1> DEFINE s == fw.input
<1>1. s \in Seq(InputRules) /\ f \in InputRules /\ f # STABLE /\ f # STAGING
  BY NameAssumption DEF IInv, TypeOK, Kernel, InputRules
<1>2. /\ fw' = [fw EXCEPT !.input = fw'.input]
      /\ UNCHANGED <<pc, plan, old, err, result, faults>>
      /\ disturbed' \in BOOLEAN
  BY Zenon DEF ForeignInsert, ForeignDelete, Interfere
<1>3. /\ fw'.input \in Seq(InputRules)
      /\ \A a, b \in Jumps : a # b /\ Precedes(s, a, b) => Precedes(fw'.input, a, b)
      /\ ~ Contains(s, STAGING) => ~ Contains(fw'.input, STAGING)
  <2>1. CASE ForeignInsert(f)
    <3>1. PICK i \in 1 .. (Len(s) + 1) : fw'.input = InsertAt(s, i, f)
      BY <2>1 DEF ForeignInsert, Interfere, IInv, TypeOK, Kernel
    <3>2. fw'.input \in Seq(InputRules)
      BY <1>1, <3>1, InsertAtProps
    <3>3. ASSUME NEW a \in Jumps, NEW b \in Jumps, Precedes(s, a, b)
          PROVE  Precedes(fw'.input, a, b)
      BY <1>1, <3>1, <3>3, PrecedesInsertAt DEF Jumps
    <3>4. ASSUME Contains(fw'.input, STAGING)
          PROVE  Contains(s, STAGING)
      <4> DEFINE t == InsertAt(s, i, f)
      <4>1. /\ Len(t) = Len(s) + 1
            /\ \A j \in 1 .. (i - 1) : t[j] = s[j]
            /\ t[i] = f
            /\ \A j \in i .. Len(s) : t[j + 1] = s[j]
        BY <1>1, InsertAtProps
      <4>2. PICK j \in 1 .. Len(t) : t[j] = STAGING
        BY <3>1, <3>4 DEF Contains
      <4>3. j # i
        BY <1>1, <4>1, <4>2
      <4>4. CASE j < i
        BY <4>1, <4>2, <4>4 DEF Contains
      <4>5. CASE j > i
        <5>1. j - 1 \in i .. Len(s) /\ t[(j - 1) + 1] = s[j - 1] /\ s[j - 1] = STAGING
          BY <4>1, <4>2, <4>5
        <5> QED
          BY <5>1 DEF Contains
      <4> QED
        BY <4>3, <4>4, <4>5
    <3> QED
      BY <3>2, <3>3, <3>4
  <2>2. CASE ForeignDelete(f)
    <3>1. PICK i \in 1 .. Len(s) : s[i] = f /\ RemoveFirst(s, f) = RemoveAt(s, i)
      BY <1>1, <2>2, RemoveFirstProps DEF ForeignDelete
    <3>2. fw'.input = RemoveAt(s, i)
      BY <2>2, <3>1 DEF ForeignDelete, Interfere, IInv, TypeOK, Kernel
    <3>3. /\ RemoveAt(s, i) \in Seq(InputRules)
          /\ Len(RemoveAt(s, i)) = Len(s) - 1
          /\ \A j \in 1 .. (Len(s) - 1) :
               RemoveAt(s, i)[j] = IF j < i THEN s[j] ELSE s[j + 1]
      BY <1>1, RemoveAtProps
    <3>4. ASSUME NEW a \in Jumps, NEW b \in Jumps, Precedes(s, a, b)
          PROVE  Precedes(fw'.input, a, b)
      BY <1>1, <3>1, <3>2, <3>4, PrecedesRemoveAt DEF Jumps
    <3>5. ~ Contains(s, STAGING) => ~ Contains(fw'.input, STAGING)
      BY <3>2, <3>3 DEF Contains
    <3> QED
      BY <3>2, <3>3, <3>4, <3>5
  <2> QED
    BY <2>1, <2>2
<1>4. fw' \in Kernel /\ fw'.stable = fw.stable /\ fw'.staging = fw.staging
  BY <1>2, <1>3 DEF IInv, TypeOK, Kernel, InputRules
<1>5. TypeOK'
  BY <1>2, <1>4 DEF IInv, TypeOK
<1>6. CountInv' /\ RuleInv'
  BY <1>2, <1>4 DEF IInv, CountInv, RuleInv
<1>7. HookInv'
  BY <1>2, <1>3 DEF IInv, HookInv, Jumps, STABLE, STAGING
<1> QED
  BY <1>5, <1>6, <1>7 DEF IInv

-----------------------------------------------------------------------------
(***************************************************************************)
(* One lemma per group of sync steps.                                      *)
(***************************************************************************)

\* The steps before the rule is appended.
LEMMA ArtifactStepsIInv ==
  ASSUME IInv, \/ EnsureIpsetExists \/ EnsureFirewallArtifacts \/ ReplaceSet
               \/ EnsureStableChain
  PROVE  IInv'
<1>1. fw \in Kernel /\ plan \in Rules /\ old \in Nat
  BY DEF IInv, TypeOK
<1>2. CreateSet(fw, plan.set) \in Kernel /\ EnsureChain(fw, STABLE) \in Kernel
  BY <1>1, KernelType DEF Jumps
<1>3. CASE EnsureIpsetExists
  BY <1>1, <1>2, <1>3, SyncControl, OutsideSync DEF IInv, TypeOK, PCs, EnsureIpsetExists
<1>4. CASE EnsureFirewallArtifacts
  BY <1>1, <1>2, <1>4, SyncControl, OutsideSync
  DEF IInv, TypeOK, PCs, EnsureFirewallArtifacts
<1>5. CASE ReplaceSet
  BY <1>1, <1>5, SyncControl, OutsideSync DEF IInv, TypeOK, PCs, ReplaceSet
<1>6. CASE EnsureStableChain
  BY <1>1, <1>2, <1>6, SyncControl, OutsideSync
  DEF IInv, TypeOK, PCs, EnsureStableChain
<1> QED
  BY <1>3, <1>4, <1>5, <1>6

\* Counting the old rules and appending the new one.
LEMMA AppendChainRuleIInv ==
  ASSUME IInv, AppendChainRule
  PROVE  IInv'
<1> DEFINE next == IF fw.stable = <<>> THEN "ensure_staging" ELSE "delete_rules"
<1>1. fw \in Kernel /\ plan \in Rules /\ fw.stable \in Seq(Rules)
  BY DEF IInv, TypeOK, Kernel
<1>2. AppendRule(fw, plan) \in Kernel
  BY <1>1, KernelType DEF Jumps
<1>3. TypeOK' /\ old' = Len(fw.stable)
      /\ (pc' = "idle" \/ (fw' = AppendRule(fw, plan) /\ pc' = next))
  BY <1>1, <1>2, SyncControl DEF IInv, TypeOK, PCs, AppendChainRule
<1>4. CASE pc' = "idle"
  BY <1>3, <1>4, OutsideSync
<1>5. CASE fw' = AppendRule(fw, plan) /\ pc' = next
  <2>1. fw'.stable = Append(fw.stable, plan)
    BY <1>1, <1>5 DEF AppendRule, Kernel
  <2>2. fw'.stable # <<>> /\ Len(fw'.stable) = Len(fw.stable) + 1
    BY <1>1, <2>1
  <2>3. fw.stable # <<>> => Len(fw.stable) >= 1
    BY <1>1
  <2>4. CountInv' /\ RuleInv' /\ HookInv'
    BY <1>3, <1>5, <2>2, <2>3 DEF CountInv, RuleInv, HookInv
  <2> QED
    BY <1>3, <2>4 DEF IInv
<1> QED
  BY <1>3, <1>4, <1>5

\* Deleting rule 1 never reaches the rule that was appended.
LEMMA DeleteOldRuleIInv ==
  ASSUME IInv, DeleteOldRule
  PROVE  IInv'
<1> DEFINE next == IF old = 1 THEN "ensure_staging" ELSE "delete_rules"
<1>1. /\ fw \in Kernel /\ fw.stable \in Seq(Rules) /\ fw.stable # <<>>
      /\ pc = "delete_rules" /\ old \in Nat /\ old >= 1 /\ Len(fw.stable) = old + 1
      /\ old' = old - 1
  BY DEF IInv, TypeOK, Kernel, CountInv, RuleInv, DeleteOldRule, RunChecked
<1>2. plan \in Rules /\ DeleteFirstRule(fw) \in Kernel
  BY <1>1, KernelType DEF IInv, TypeOK, Jumps
<1>3. TypeOK' /\ (pc' = "idle" \/ (fw' = DeleteFirstRule(fw) /\ pc' = next))
  BY <1>1, <1>2, SyncControl DEF IInv, TypeOK, PCs, DeleteOldRule
<1>4. CASE pc' = "idle"
  BY <1>3, <1>4, OutsideSync
<1>5. CASE fw' = DeleteFirstRule(fw) /\ pc' = next
  <2>1. fw'.stable = Tail(fw.stable)
    BY <1>1, <1>5 DEF DeleteFirstRule, Kernel
  <2>2. Len(fw'.stable) = old /\ fw'.stable # <<>>
    BY <1>1, <2>1
  <2>3. CountInv' /\ RuleInv' /\ HookInv'
    BY <1>1, <1>5, <2>2 DEF CountInv, RuleInv, HookInv
  <2> QED
    BY <1>3, <2>3 DEF IInv
<1> QED
  BY <1>3, <1>4, <1>5

\* The same for the jump in the staging chain.
LEMMA StagingChainStepsIInv ==
  ASSUME IInv, EnsureStagingChain \/ AppendStagingJump \/ DeleteOldJump
  PROVE  IInv'
<1>1. fw \in Kernel /\ plan \in Rules /\ old \in Nat /\ fw.staging \in Nat
  BY DEF IInv, TypeOK, Kernel
<1>2. EnsureChain(fw, STAGING) \in Kernel /\ AppendJump(fw) \in Kernel
      /\ (fw.staging > 0 => DeleteFirstJump(fw) \in Kernel)
  BY <1>1, KernelType DEF Jumps
<1>3. CASE EnsureStagingChain
  <2>1. TypeOK' /\ (pc' = "idle" \/ (fw' = EnsureChain(fw, STAGING) /\ pc' = "append_jump"))
    BY <1>1, <1>2, <1>3, SyncControl DEF IInv, TypeOK, PCs, EnsureStagingChain
  <2>2. CASE pc' = "idle"
    BY <2>1, <2>2, OutsideSync
  <2>3. CASE fw' = EnsureChain(fw, STAGING) /\ pc' = "append_jump"
    <3>1. fw'.stable = fw.stable /\ fw.stable # <<>>
      BY <1>1, <1>3, <2>3
      DEF EnsureChain, Kernel, IInv, RuleInv, EnsureStagingChain, RunChecked
    <3> QED
      BY <2>1, <2>3, <3>1 DEF IInv, CountInv, RuleInv, HookInv
  <2> QED
    BY <2>1, <2>2, <2>3
<1>4. CASE AppendStagingJump
  <2> DEFINE next == IF fw.staging = 0 THEN "insert_staging" ELSE "delete_jumps"
  <2>1. TypeOK' /\ old' = fw.staging /\ (pc' = "idle" \/ (fw' = AppendJump(fw) /\ pc' = next))
    BY <1>1, <1>2, <1>4, SyncControl DEF IInv, TypeOK, PCs, AppendStagingJump
  <2>2. CASE pc' = "idle"
    BY <2>1, <2>2, OutsideSync
  <2>3. CASE fw' = AppendJump(fw) /\ pc' = next
    <3>1. fw'.stable = fw.stable /\ fw.stable # <<>> /\ fw'.staging = fw.staging + 1
      BY <1>1, <1>4, <2>3
      DEF AppendJump, Kernel, IInv, RuleInv, AppendStagingJump, RunChecked
    <3>2. CountInv' /\ RuleInv' /\ HookInv'
      BY <1>1, <2>1, <2>3, <3>1 DEF CountInv, RuleInv, HookInv
    <3> QED
      BY <2>1, <3>2 DEF IInv
  <2> QED
    BY <2>1, <2>2, <2>3
<1>5. CASE DeleteOldJump
  <2> DEFINE next == IF old = 1 THEN "insert_staging" ELSE "delete_jumps"
  <2>1. pc = "delete_jumps" /\ old >= 1 /\ fw.staging = old + 1 /\ fw.stable # <<>>
        /\ old' = old - 1
    BY <1>5 DEF IInv, CountInv, RuleInv, DeleteOldJump, RunChecked
  <2>2. TypeOK' /\ (pc' = "idle" \/ (fw' = DeleteFirstJump(fw) /\ pc' = next))
    BY <1>1, <1>2, <1>5, <2>1, SyncControl DEF IInv, TypeOK, PCs, DeleteOldJump
  <2>3. CASE pc' = "idle"
    BY <2>2, <2>3, OutsideSync
  <2>4. CASE fw' = DeleteFirstJump(fw) /\ pc' = next
    <3>1. fw'.stable = fw.stable /\ fw'.staging = old
      BY <1>1, <2>1, <2>4 DEF DeleteFirstJump, Kernel
    <3>2. CountInv' /\ RuleInv' /\ HookInv'
      BY <1>1, <2>1, <2>4, <3>1 DEF CountInv, RuleInv, HookInv
    <3> QED
      BY <2>2, <3>2 DEF IInv
  <2> QED
    BY <2>2, <2>3, <2>4
<1> QED
  BY <1>3, <1>4, <1>5

\* Inserting a jump at position 1 puts it before every other jump.
LEMMA InsertStepsIInv ==
  ASSUME IInv, InsertStagingJump \/ InsertStableJump
  PROVE  IInv'
<1>1. fw \in Kernel /\ plan \in Rules /\ old \in Nat /\ fw.input \in Seq(InputRules)
  BY DEF IInv, TypeOK, Kernel, InputRules
<1>2. ASSUME NEW c \in Jumps
      PROVE  /\ InsertInputJump(fw, c) \in Kernel
             /\ InsertInputJump(fw, c).input = <<c>> \o fw.input
             /\ InsertInputJump(fw, c).stable = fw.stable
             /\ InsertInputJump(fw, c).staging = fw.staging
  BY <1>1, KernelType DEF Kernel, InsertInputJump
<1>3. fw.stable # <<>> /\ fw.staging > 0
  BY DEF IInv, RuleInv, InsertStagingJump, InsertStableJump, RunChecked
<1>4. CASE InsertStagingJump
  <2>1. TypeOK' /\ (pc' = "idle" \/ (fw' = InsertInputJump(fw, STAGING) /\ pc' = "remove_stable"))
    BY <1>1, <1>2, <1>4, SyncControl DEF IInv, TypeOK, PCs, InsertStagingJump, Jumps
  <2>2. CASE pc' = "idle"
    BY <2>1, <2>2, OutsideSync
  <2>3. CASE fw' = InsertInputJump(fw, STAGING) /\ pc' = "remove_stable"
    <3>1. Precedes(<<STAGING>> \o fw.input, STAGING, STABLE)
      BY <1>1, PrecedesCons DEF InputRules, Jumps, STAGING, STABLE
    <3>2. CountInv' /\ RuleInv' /\ HookInv'
      BY <1>2, <1>3, <2>3, <3>1 DEF CountInv, RuleInv, HookInv, Jumps
    <3> QED
      BY <2>1, <3>2 DEF IInv
  <2> QED
    BY <2>1, <2>2, <2>3
<1>5. CASE InsertStableJump
  <2>1. TypeOK' /\ (pc' = "idle" \/ (fw' = InsertInputJump(fw, STABLE) /\ pc' = "remove_staging"))
    BY <1>1, <1>2, <1>5, SyncControl DEF IInv, TypeOK, PCs, InsertStableJump, Jumps
  <2>2. CASE pc' = "idle"
    BY <2>1, <2>2, OutsideSync
  <2>3. CASE fw' = InsertInputJump(fw, STABLE) /\ pc' = "remove_staging"
    <3>1. Precedes(<<STABLE>> \o fw.input, STABLE, STAGING)
      BY <1>1, PrecedesCons DEF InputRules, Jumps, STAGING, STABLE
    <3>2. CountInv' /\ RuleInv' /\ HookInv'
      BY <1>2, <1>3, <2>3, <3>1 DEF CountInv, RuleInv, HookInv, Jumps
    <3> QED
      BY <2>1, <3>2 DEF IInv
  <2> QED
    BY <2>1, <2>2, <2>3
<1> QED
  BY <1>4, <1>5

\* What one round of remove_all_input_jumps_for_chain does.
LEMMA DeleteInputJumpEffect ==
  ASSUME NEW k \in Kernel, NEW c \in Jumps, Contains(k.input, c)
  PROVE  /\ DeleteInputJump(k, c) \in Kernel
         /\ DeleteInputJump(k, c).stable = k.stable
         /\ DeleteInputJump(k, c).staging = k.staging
         /\ \E p \in 1 .. Len(k.input) :
              /\ k.input[p] = c
              /\ DeleteInputJump(k, c).input = RemoveAt(k.input, p)
<1>1. k.input \in Seq(InputRules)
  BY DEF Kernel, InputRules
<1>2. \E p \in 1 .. Len(k.input) :
        k.input[p] = c /\ RemoveFirst(k.input, c) = RemoveAt(k.input, p)
  BY <1>1, RemoveFirstProps
<1>3. /\ DeleteInputJump(k, c) \in Kernel
      /\ DeleteInputJump(k, c).stable = k.stable
      /\ DeleteInputJump(k, c).staging = k.staging
      /\ DeleteInputJump(k, c).input = RemoveFirst(k.input, c)
  <2>1. PICK r : r \in {RemoveFirst(k.input, c)}
    OBVIOUS
  <2>2. r \in Seq(InputRules)
    BY <1>1, <2>1, RemoveFirstInput
  <2> QED
    BY <2>1, <2>2 DEF DeleteInputJump, Kernel, InputRules
<1> QED
  BY <1>2, <1>3

\* The staging jump stands while the stable jumps are removed.
LEMMA RemoveStableJumpsIInv ==
  ASSUME IInv, RemoveStableJumps
  PROVE  IInv'
<1>1. fw \in Kernel /\ plan \in Rules /\ old \in Nat /\ old' = old
      /\ fw.input \in Seq(InputRules)
  BY DEF IInv, TypeOK, Kernel, InputRules, RemoveStableJumps
<1>2. /\ pc = "remove_stable" /\ fw.stable # <<>> /\ fw.staging > 0
      /\ Precedes(fw.input, STAGING, STABLE)
  BY DEF IInv, RuleInv, HookInv, RemoveStableJumps, RunChecked
<1>3. CASE Contains(fw.input, STABLE)
  <2> DEFINE new == DeleteInputJump(fw, STABLE)
  <2>1. new \in Kernel /\ new.stable = fw.stable /\ new.staging = fw.staging
    BY <1>1, <1>3, DeleteInputJumpEffect DEF Jumps
  <2>2. PICK p \in 1 .. Len(fw.input) :
          fw.input[p] = STABLE /\ new.input = RemoveAt(fw.input, p)
    BY <1>1, <1>3, DeleteInputJumpEffect DEF Jumps
  <2>3. Precedes(new.input, STAGING, STABLE)
    BY <1>1, <1>2, <2>2, PrecedesRemoveAt DEF STABLE, STAGING
  <2> HIDE DEF new
  <2>4. RunChecked("remove_stable", TRUE, new, "remove_stable")
    BY <1>3 DEF RemoveStableJumps, new
  <2>5. TypeOK' /\ (pc' = "idle" \/ (fw' = new /\ pc' = "remove_stable"))
    BY <1>1, <2>1, <2>4, SyncControl DEF IInv, TypeOK, PCs
  <2>6. CASE pc' = "idle"
    BY <2>5, <2>6, OutsideSync
  <2>7. CASE fw' = new /\ pc' = "remove_stable"
    BY <1>2, <2>1, <2>3, <2>5, <2>7 DEF IInv, CountInv, RuleInv, HookInv
  <2> QED
    BY <2>5, <2>6, <2>7
<1>4. CASE ~ Contains(fw.input, STABLE)
  <2>1. RunChecked("remove_stable", TRUE, fw, "insert_stable")
    BY <1>4 DEF RemoveStableJumps
  <2>2. TypeOK' /\ (pc' = "idle" \/ (fw' = fw /\ pc' = "insert_stable"))
    BY <1>1, <2>1, SyncControl DEF IInv, TypeOK, PCs
  <2>3. CASE pc' = "idle"
    BY <2>2, <2>3, OutsideSync
  <2>4. CASE fw' = fw /\ pc' = "insert_stable"
    BY <1>2, <2>2, <2>4 DEF IInv, CountInv, RuleInv, HookInv
  <2> QED
    BY <2>2, <2>3, <2>4
<1> QED
  BY <1>3, <1>4

\* The stable jump stands while the staging jumps are removed.
LEMMA RemoveStagingJumpsIInv ==
  ASSUME IInv, RemoveStagingJumps
  PROVE  IInv'
<1>1. fw \in Kernel /\ plan \in Rules /\ old \in Nat /\ old' = old
      /\ fw.input \in Seq(InputRules)
  BY DEF IInv, TypeOK, Kernel, InputRules, RemoveStagingJumps
<1>2. /\ pc = "remove_staging" /\ fw.stable # <<>> /\ fw.staging > 0
      /\ Precedes(fw.input, STABLE, STAGING)
  BY DEF IInv, RuleInv, HookInv, RemoveStagingJumps, RunChecked
<1>3. CASE Contains(fw.input, STAGING)
  <2> DEFINE new == DeleteInputJump(fw, STAGING)
  <2>1. new \in Kernel /\ new.stable = fw.stable /\ new.staging = fw.staging
    BY <1>1, <1>3, DeleteInputJumpEffect DEF Jumps
  <2>2. PICK p \in 1 .. Len(fw.input) :
          fw.input[p] = STAGING /\ new.input = RemoveAt(fw.input, p)
    BY <1>1, <1>3, DeleteInputJumpEffect DEF Jumps
  <2>3. Precedes(new.input, STABLE, STAGING)
    BY <1>1, <1>2, <2>2, PrecedesRemoveAt DEF STABLE, STAGING
  <2> HIDE DEF new
  <2>4. RunChecked("remove_staging", TRUE, new, "remove_staging")
    BY <1>3 DEF RemoveStagingJumps, new
  <2>5. TypeOK' /\ (pc' = "idle" \/ (fw' = new /\ pc' = "remove_staging"))
    BY <1>1, <2>1, <2>4, SyncControl DEF IInv, TypeOK, PCs
  <2>6. CASE pc' = "idle"
    BY <2>5, <2>6, OutsideSync
  <2>7. CASE fw' = new /\ pc' = "remove_staging"
    BY <1>2, <2>1, <2>3, <2>5, <2>7 DEF IInv, CountInv, RuleInv, HookInv
  <2> QED
    BY <2>5, <2>6, <2>7
<1>4. CASE ~ Contains(fw.input, STAGING)
  <2>1. RunChecked("remove_staging", TRUE, fw, "flush_staging")
    BY <1>4 DEF RemoveStagingJumps
  <2>2. TypeOK' /\ (pc' = "idle" \/ (fw' = fw /\ pc' = "flush_staging"))
    BY <1>1, <2>1, SyncControl DEF IInv, TypeOK, PCs
  <2>3. CASE pc' = "idle"
    BY <2>2, <2>3, OutsideSync
  <2>4. CASE fw' = fw /\ pc' = "flush_staging"
    BY <1>2, <1>4, <2>2, <2>4 DEF IInv, CountInv, RuleInv, HookInv
  <2> QED
    BY <2>2, <2>3, <2>4
<1> QED
  BY <1>3, <1>4

\* The steps after the last staging jump is gone.
LEMMA FinalStepsIInv ==
  ASSUME IInv, FlushStagingChain \/ DeleteStagingChain \/ VerifyWiring
  PROVE  IInv'
<1>1. fw \in Kernel /\ plan \in Rules /\ old \in Nat /\ fw.stable # <<>>
  BY DEF IInv, TypeOK, RuleInv, FlushStagingChain, DeleteStagingChain, VerifyWiring,
         RunChecked
<1>2. /\ FlushChain(fw, STAGING) \in Kernel /\ DeleteChain(fw, STAGING) \in Kernel
      /\ FlushChain(fw, STAGING).stable = fw.stable
      /\ DeleteChain(fw, STAGING).stable = fw.stable
  BY <1>1, KernelType DEF Jumps, Kernel, FlushChain, DeleteChain, STABLE, STAGING
<1>3. CASE FlushStagingChain
  <2>1. TypeOK' /\ (pc' = "idle" \/ (fw' = FlushChain(fw, STAGING) /\ pc' = "delete_staging"))
    BY <1>1, <1>2, <1>3, SyncControl DEF IInv, TypeOK, PCs, FlushStagingChain
  <2>2. CASE pc' = "idle"
    BY <2>1, <2>2, OutsideSync
  <2>3. CASE fw' = FlushChain(fw, STAGING) /\ pc' = "delete_staging"
    BY <1>1, <1>2, <2>1, <2>3 DEF IInv, CountInv, RuleInv, HookInv
  <2> QED
    BY <2>1, <2>2, <2>3
<1>4. CASE DeleteStagingChain
  <2>1. TypeOK' /\ (pc' = "idle" \/ (fw' = DeleteChain(fw, STAGING) /\ pc' = "verify"))
    BY <1>1, <1>2, <1>4, SyncControl DEF IInv, TypeOK, PCs, DeleteStagingChain
  <2>2. CASE pc' = "idle"
    BY <2>1, <2>2, OutsideSync
  <2>3. CASE fw' = DeleteChain(fw, STAGING) /\ pc' = "verify"
    BY <1>1, <1>2, <2>1, <2>3 DEF IInv, CountInv, RuleInv, HookInv
  <2> QED
    BY <2>1, <2>2, <2>3
<1>5. CASE VerifyWiring
  <2>1. faults' \in 0 .. MaxFaults
    BY <1>5, FaultAssumption DEF VerifyWiring, Fault, NoFault, IInv, TypeOK
  <2>2. TypeOK' /\ pc' = "idle"
    BY <1>5, <2>1, Zenon DEF VerifyWiring, Fault, NoFault, IInv, TypeOK
  <2> QED
    BY <2>2, OutsideSync
<1> QED
  BY <1>3, <1>4, <1>5

\* Cleanup steps stay outside the sync steps.
LEMMA CleanupStepIInv ==
  ASSUME IInv, CleanupStep
  PROVE  IInv'
<1>1. TypeOK /\ fw \in Kernel /\ plan \in Rules /\ STABLE \in Jumps /\ STAGING \in Jumps
  BY DEF IInv, TypeOK, Jumps
<1>2. ASSUME NEW c \in Jumps
      PROVE  FlushChain(fw, c) \in Kernel /\ DeleteChain(fw, c) \in Kernel
  BY <1>1, KernelType
<1>3. CASE UnhookStaging
  BY <1>1, <1>3, UnhookControl, OutsideSync DEF UnhookStaging, PCs
<1>4. CASE UnhookStable
  BY <1>1, <1>4, UnhookControl, OutsideSync DEF UnhookStable, PCs
<1>5. CASE ClearStaging
  BY <1>1, <1>2, <1>5, CleanupControl, OutsideSync DEF ClearStaging, PCs
<1>6. CASE DropStaging
  BY <1>1, <1>2, <1>6, CleanupControl, OutsideSync DEF DropStaging, PCs
<1>7. CASE ClearStable
  BY <1>1, <1>2, <1>7, CleanupControl, OutsideSync DEF ClearStable, PCs
<1>8. CASE DropStable
  BY <1>1, <1>2, <1>8, CleanupControl, OutsideSync DEF DropStable, PCs
<1>9. CASE DestroyIpset
  <2>1. DestroySet(fw, plan.set) \in Kernel
    BY <1>1, KernelType
  <2>2. faults' \in 0 .. MaxFaults
    BY <1>9, FaultAssumption DEF DestroyIpset, Fault, NoFault, IInv, TypeOK
  <2>3. TypeOK' /\ pc' = "idle"
    BY <1>9, <2>1, <2>2, Zenon DEF DestroyIpset, Fault, NoFault, IInv, TypeOK
  <2> QED
    BY <2>3, OutsideSync
<1> QED
  BY <1>3, <1>4, <1>5, <1>6, <1>7, <1>8, <1>9 DEF CleanupStep

\* Every step keeps the invariant.
LEMMA NextIInv == IInv /\ [Next]_vars => IInv'
<1> SUFFICES ASSUME IInv, [Next]_vars PROVE IInv'
  OBVIOUS
<1>1. ASSUME NEW r \in Rules, StartSync(r) \/ StartCleanup(r)
      PROVE  IInv'
  <2>1. old' \in Nat
    BY <1>1 DEF StartSync, StartCleanup
  <2>2. TypeOK' /\ pc' \in {"ensure_set", "unhook_staging"}
    BY <1>1, <2>1, Zenon DEF StartSync, StartCleanup, IInv, TypeOK
  <2> QED
    BY <2>2, OutsideSync
<1>2. CASE SyncStep
  BY <1>2, ArtifactStepsIInv, AppendChainRuleIInv, DeleteOldRuleIInv,
     StagingChainStepsIInv, InsertStepsIInv, RemoveStableJumpsIInv,
     RemoveStagingJumpsIInv, FinalStepsIInv DEF SyncStep
<1>3. CASE CleanupStep
  BY <1>3, CleanupStepIInv
<1>4. CASE Crash
  <2>1. faults' \in 0 .. MaxFaults
    BY <1>4, FaultAssumption DEF Crash, Fault, IInv, TypeOK
  <2>2. TypeOK' /\ pc' = "idle"
    BY <1>4, <2>1, Zenon DEF Crash, Fault, Abort, IInv, TypeOK
  <2> QED
    BY <2>2, OutsideSync
<1>5. CASE ForeignStep
  BY <1>5, ForeignStepIInv
<1>6. CASE Reboot
  <2>1. TypeOK' /\ pc' = "idle"
    BY <1>6, EmptyKernelType, Zenon DEF Reboot, IInv, TypeOK
  <2> QED
    BY <2>1, OutsideSync
<1>7. CASE UNCHANGED vars
  BY <1>7 DEF vars, IInv, TypeOK, CountInv, RuleInv, HookInv
<1> QED
  BY <1>1, <1>2, <1>3, <1>4, <1>5, <1>6, <1>7 DEF Next, Environment

\* The inductive invariant is an invariant.
LEMMA InvariantHolds == Spec => []IInv
<1> QED
  BY InitIInv, NextIInv, PTL DEF Spec

\* Every variable keeps its type under any interleaving of syncs, cleanups,
\* faults and other tools' edits.
THEOREM TypeCorrect == Spec => []TypeOK
<1>1. IInv => TypeOK
  BY DEF IInv
<1> QED
  BY <1>1, InvariantHolds, PTL

-----------------------------------------------------------------------------
(***************************************************************************)
(* Fail closed.  NoLoss is the promise of one step; the lemmas say which   *)
(* changes of the tables keep it.                                          *)
(***************************************************************************)
NoLoss(k, l) == (Enforcing(k) => Enforcing(l)) /\ Covered(k) \subseteq Covered(l)

\* Nothing is lost when INPUT is the same and its chains stay effective.
LEMMA NoLossSameInput ==
  ASSUME NEW k \in Kernel, NEW l \in Kernel, l.input = k.input,
         k.stable # <<>> => l.stable # <<>>,
         k.staging > 0 /\ Contains(k.input, STAGING) => l.staging > 0
  PROVE  NoLoss(k, l)
<1>1. DOMAIN k.input = 1 .. Len(k.input)
  BY DEF Kernel
<1>2. \A i \in DOMAIN k.input : BlocksVia(k, k.input[i]) => BlocksVia(l, l.input[i])
  BY <1>1 DEF BlocksVia, Contains
<1> QED
  BY <1>2 DEF NoLoss, Enforcing, Covered

\* Nothing is lost by a jump inserted at position 1.
LEMMA NoLossInsert ==
  ASSUME NEW k \in Kernel, NEW c \in Jumps
  PROVE  NoLoss(k, InsertInputJump(k, c))
<1> DEFINE l == InsertInputJump(k, c)
           s == k.input
           t == <<c>> \o s
<1>1. s \in Seq(InputRules) /\ c \in InputRules
  BY DEF Kernel, InputRules
<1>2. l.input = t /\ l.stable = k.stable /\ l.staging = k.staging
  BY DEF Kernel, InsertInputJump
<1>3. /\ DOMAIN s = 1 .. Len(s) /\ DOMAIN t = 1 .. (Len(s) + 1)
      /\ \A i \in 1 .. Len(s) : t[i + 1] = s[i]
  BY <1>1, ConsProps
<1>4. \A i \in DOMAIN s : BlocksVia(k, s[i]) => BlocksVia(l, t[i + 1])
  BY <1>2, <1>3 DEF BlocksVia
<1>5. ASSUME Enforcing(k)
      PROVE  Enforcing(l)
  <2>1. PICK i \in DOMAIN s : BlocksVia(k, s[i])
    BY <1>5 DEF Enforcing
  <2>2. i + 1 \in DOMAIN t /\ BlocksVia(l, t[i + 1])
    BY <1>3, <1>4, <2>1
  <2> QED
    BY <1>2, <2>2 DEF Enforcing
<1>6. ASSUME NEW f \in Covered(k)
      PROVE  f \in Covered(l)
  <2>1. PICK i \in DOMAIN s, j \in DOMAIN s : i < j /\ BlocksVia(k, s[i]) /\ s[j] = f
    BY DEF Covered
  <2>2. /\ i + 1 \in DOMAIN t /\ j + 1 \in DOMAIN t /\ i + 1 < j + 1
        /\ BlocksVia(l, t[i + 1]) /\ t[j + 1] = f
    BY <1>3, <1>4, <2>1
  <2> QED
    BY <1>2, <2>2 DEF Covered
<1> QED
  BY <1>5, <1>6 DEF NoLoss

\* Deleting a jump to b is harmless while an effective jump to a stands before it.
LEMMA NoLossRemove ==
  ASSUME NEW k \in Kernel, NEW l \in Kernel, NEW p \in 1 .. Len(k.input),
         NEW a \in Jumps, NEW b \in Jumps, a # b,
         l.input = RemoveAt(k.input, p), k.input[p] = b,
         l.stable = k.stable, l.staging = k.staging,
         k.stable # <<>>, k.staging > 0, Precedes(k.input, a, b)
  PROVE  NoLoss(k, l)
<1> DEFINE s == k.input
           t == l.input
           m(i) == IF i < p THEN i ELSE i - 1
<1>1. s \in Seq(InputRules) /\ DOMAIN s = 1 .. Len(s)
  BY DEF Kernel, InputRules
<1>2. /\ DOMAIN t = 1 .. (Len(s) - 1)
      /\ \A i \in 1 .. (Len(s) - 1) : t[i] = IF i < p THEN s[i] ELSE s[i + 1]
  <2>1. /\ RemoveAt(s, p) \in Seq(InputRules)
        /\ Len(RemoveAt(s, p)) = Len(s) - 1
        /\ \A i \in 1 .. (Len(s) - 1) :
             RemoveAt(s, p)[i] = IF i < p THEN s[i] ELSE s[i + 1]
    BY <1>1, RemoveAtProps
  <2> QED
    BY <2>1
<1>3. ASSUME NEW i \in 1 .. Len(s), i # p
      PROVE  m(i) \in DOMAIN t /\ t[m(i)] = s[i]
  BY <1>1, <1>2, <1>3
<1>4. PICK w \in 1 .. Len(s) : s[w] = a /\ \A j \in 1 .. Len(s) : s[j] = b => w < j
  BY DEF Precedes
<1>5. w < p /\ w \in DOMAIN t /\ t[w] = a
  BY <1>2, <1>4
<1>6. \A c : BlocksVia(k, c) <=> BlocksVia(l, c)
  BY DEF BlocksVia
<1>7. BlocksVia(l, a) /\ \A c : BlocksVia(k, c) => c \in Jumps
  BY DEF BlocksVia, Jumps
<1>8. Enforcing(l)
  BY <1>5, <1>7 DEF Enforcing
<1>9. ASSUME NEW f \in Covered(k)
      PROVE  f \in Covered(l)
  <2>1. PICK i \in DOMAIN s, j \in DOMAIN s : i < j /\ BlocksVia(k, s[i]) /\ s[j] = f
    BY DEF Covered
  <2>2. f \in Foreign /\ j # p
    BY <2>1, NameAssumption DEF Covered, Jumps
  <2>3. m(j) \in DOMAIN t /\ t[m(j)] = f
    BY <1>1, <1>3, <2>1, <2>2
  <2>4. CASE s[i] = b
    <3>1. w < i
      BY <1>1, <1>4, <2>4
    <3>2. w < m(j)
      BY <1>1, <1>5, <2>1, <2>2, <3>1
    <3> QED
      BY <1>5, <1>7, <2>2, <2>3, <3>2 DEF Covered
  <2>5. CASE s[i] # b
    <3>1. i # p
      BY <2>5
    <3>2. m(i) \in DOMAIN t /\ t[m(i)] = s[i] /\ BlocksVia(l, t[m(i)])
      BY <1>1, <1>3, <1>6, <2>1, <3>1
    <3>3. m(i) < m(j)
      BY <1>1, <2>1, <2>2, <3>1
    <3> QED
      BY <2>2, <2>3, <3>2, <3>3 DEF Covered
  <2> QED
    BY <2>4, <2>5
<1> QED
  BY <1>8, <1>9 DEF NoLoss

\* A command of a sync has its effect or none.
LEMMA SyncEffect ==
  ASSUME NEW STATE p, NEW STATE pre, NEW STATE new, NEW STATE next,
         RunChecked(p, pre, new, next)
  PROVE  pc = p /\ (fw' = fw \/ (pre /\ fw' = new))
BY Zenon DEF RunChecked

\* No step of a sync loses anything, by the inductive invariant.
LEMMA SyncStepNoLoss ==
  ASSUME IInv, SyncStep
  PROVE  NoLoss(fw, fw')
<1>1. /\ fw \in Kernel /\ plan \in Rules /\ fw.stable \in Seq(Rules)
      /\ fw.staging \in Nat /\ STABLE \in Jumps /\ STAGING \in Jumps /\ STABLE # STAGING
  BY DEF IInv, TypeOK, Kernel, Jumps, STABLE, STAGING
<1>2. ASSUME fw' = fw PROVE NoLoss(fw, fw')
  BY <1>2 DEF NoLoss
<1>3. CASE EnsureIpsetExists
  <2>1. fw' = fw \/ fw' = CreateSet(fw, plan.set)
    BY <1>3, SyncEffect DEF EnsureIpsetExists
  <2>2. NoLoss(fw, CreateSet(fw, plan.set))
    <3>1. CreateSet(fw, plan.set) \in Kernel
      BY <1>1, KernelType
    <3>2. /\ CreateSet(fw, plan.set).input = fw.input
          /\ CreateSet(fw, plan.set).stable = fw.stable
          /\ CreateSet(fw, plan.set).staging = fw.staging
      BY <1>1 DEF CreateSet, Kernel
    <3> QED
      BY <1>1, <3>1, <3>2, NoLossSameInput
  <2> QED
    BY <1>2, <2>1, <2>2
<1>4. CASE EnsureFirewallArtifacts \/ EnsureStableChain \/ EnsureStagingChain
  <2>1. fw' = fw \/ fw' = EnsureChain(fw, STABLE) \/ fw' = EnsureChain(fw, STAGING)
    BY <1>4, SyncEffect
    DEF EnsureFirewallArtifacts, EnsureStableChain, EnsureStagingChain
  <2>2. ASSUME NEW c \in Jumps PROVE NoLoss(fw, EnsureChain(fw, c))
    <3>1. EnsureChain(fw, c) \in Kernel
      BY <1>1, KernelType
    <3>2. /\ EnsureChain(fw, c).input = fw.input
          /\ EnsureChain(fw, c).stable = fw.stable
          /\ EnsureChain(fw, c).staging = fw.staging
      BY <1>1 DEF EnsureChain, Kernel
    <3> QED
      BY <1>1, <3>1, <3>2, NoLossSameInput
  <2> QED
    BY <1>1, <1>2, <2>1, <2>2
<1>5. CASE ReplaceSet \/ VerifyWiring
  <2>1. fw' = fw
    BY <1>5, SyncEffect DEF ReplaceSet, VerifyWiring
  <2> QED
    BY <1>2, <2>1
<1>6. CASE AppendChainRule
  <2>1. fw' = fw \/ fw' = AppendRule(fw, plan)
    BY <1>6, SyncEffect DEF AppendChainRule
  <2>2. Append(fw.stable, plan) # <<>>
    BY <1>1
  <2>3. NoLoss(fw, AppendRule(fw, plan))
    <3>1. AppendRule(fw, plan) \in Kernel
      BY <1>1, <2>2, KernelType
    <3>2. /\ AppendRule(fw, plan).input = fw.input
          /\ AppendRule(fw, plan).stable = Append(fw.stable, plan)
          /\ AppendRule(fw, plan).staging = fw.staging
      BY <1>1, <2>2 DEF AppendRule, Kernel
    <3> QED
      BY <1>1, <2>2, <3>1, <3>2, NoLossSameInput
  <2> QED
    BY <1>2, <2>1, <2>3
<1>7. CASE DeleteOldRule
  <2>1. fw.stable # <<>> /\ (fw' = fw \/ fw' = DeleteFirstRule(fw))
        /\ old \in Nat /\ old >= 1 /\ Len(fw.stable) = old + 1
    BY <1>7, SyncEffect DEF DeleteOldRule, IInv, TypeOK, CountInv, RuleInv
  <2>2. Tail(fw.stable) # <<>>
    <3>1. Len(Tail(fw.stable)) = old
      BY <1>1, <2>1
    <3> QED
      BY <2>1, <3>1
  <2>3. NoLoss(fw, DeleteFirstRule(fw))
    BY <1>1, <2>1, <2>2, KernelType, NoLossSameInput DEF DeleteFirstRule, Kernel
  <2> QED
    BY <1>2, <2>1, <2>3
<1>8. CASE AppendStagingJump
  <2>1. fw' = fw \/ fw' = AppendJump(fw)
    BY <1>8, SyncEffect DEF AppendStagingJump
  <2>2. fw.staging + 1 > 0
    BY <1>1
  <2>3. NoLoss(fw, AppendJump(fw))
    BY <1>1, <2>2, KernelType, NoLossSameInput DEF AppendJump, Kernel
  <2> QED
    BY <1>2, <2>1, <2>3
<1>9. CASE DeleteOldJump
  <2>1. (fw' = fw \/ fw' = DeleteFirstJump(fw)) /\ old >= 1 /\ old \in Nat
        /\ fw.staging = old + 1
    BY <1>9, SyncEffect DEF DeleteOldJump, IInv, TypeOK, CountInv
  <2>2. fw.staging - 1 > 0 /\ fw.staging > 0
    BY <1>1, <2>1
  <2>3. NoLoss(fw, DeleteFirstJump(fw))
    BY <1>1, <2>2, KernelType, NoLossSameInput DEF DeleteFirstJump, Kernel
  <2> QED
    BY <1>2, <2>1, <2>3
<1>10. CASE InsertStagingJump \/ InsertStableJump
  <2>1. fw' = fw \/ fw' = InsertInputJump(fw, STABLE) \/ fw' = InsertInputJump(fw, STAGING)
    BY <1>10, SyncEffect DEF InsertStagingJump, InsertStableJump
  <2> QED
    BY <1>1, <1>2, <2>1, NoLossInsert
<1>11. CASE RemoveStableJumps
  <2>1. /\ fw.stable # <<>> /\ fw.staging > 0 /\ Precedes(fw.input, STAGING, STABLE)
        /\ fw' = fw \/ (Contains(fw.input, STABLE) /\ fw' = DeleteInputJump(fw, STABLE))
    BY <1>11, SyncEffect DEF RemoveStableJumps, IInv, RuleInv, HookInv
  <2>2. ASSUME Contains(fw.input, STABLE)
        PROVE  NoLoss(fw, DeleteInputJump(fw, STABLE))
    BY <1>1, <2>1, <2>2, DeleteInputJumpEffect, NoLossRemove
  <2> QED
    BY <1>2, <2>1, <2>2
<1>12. CASE RemoveStagingJumps
  <2>1. /\ fw.stable # <<>> /\ fw.staging > 0 /\ Precedes(fw.input, STABLE, STAGING)
        /\ fw' = fw \/ (Contains(fw.input, STAGING) /\ fw' = DeleteInputJump(fw, STAGING))
    BY <1>12, SyncEffect DEF RemoveStagingJumps, IInv, RuleInv, HookInv
  <2>2. ASSUME Contains(fw.input, STAGING)
        PROVE  NoLoss(fw, DeleteInputJump(fw, STAGING))
    BY <1>1, <2>1, <2>2, DeleteInputJumpEffect, NoLossRemove
  <2> QED
    BY <1>2, <2>1, <2>2
<1>13. CASE FlushStagingChain
  <2>1. ~ Contains(fw.input, STAGING) /\ (fw' = fw \/ fw' = FlushChain(fw, STAGING))
    BY <1>13, SyncEffect DEF FlushStagingChain, IInv, HookInv
  <2>2. FlushChain(fw, STAGING) = [fw EXCEPT !.staging = 0]
    BY <1>1 DEF FlushChain
  <2>3. NoLoss(fw, FlushChain(fw, STAGING))
    <3>1. FlushChain(fw, STAGING) \in Kernel
      BY <1>1, <2>1, <2>2, KernelType
    <3>2. /\ FlushChain(fw, STAGING).input = fw.input
          /\ FlushChain(fw, STAGING).stable = fw.stable
          /\ FlushChain(fw, STAGING).staging = 0
      BY <1>1, <2>1, <2>2 DEF Kernel
    <3> QED
      BY <1>1, <2>1, <2>2, <3>1, <3>2, NoLossSameInput
  <2> QED
    BY <1>2, <2>1, <2>3
<1>14. CASE DeleteStagingChain
  <2>1. fw' = fw \/ fw' = DeleteChain(fw, STAGING)
    BY <1>14, SyncEffect DEF DeleteStagingChain
  <2>2. NoLoss(fw, DeleteChain(fw, STAGING))
    <3>1. DeleteChain(fw, STAGING) \in Kernel
      BY <1>1, KernelType
    <3>2. /\ DeleteChain(fw, STAGING).input = fw.input
          /\ DeleteChain(fw, STAGING).stable = fw.stable
          /\ DeleteChain(fw, STAGING).staging = fw.staging
      BY <1>1 DEF DeleteChain, Kernel
    <3> QED
      BY <1>1, <3>1, <3>2, NoLossSameInput
  <2> QED
    BY <1>2, <2>1, <2>2
<1> QED
  BY <1>3, <1>4, <1>5, <1>6, <1>7, <1>8, <1>9, <1>10, <1>11, <1>12, <1>13, <1>14
  DEF SyncStep

\* No command of a sync takes enforcement away or uncovers a rule of INPUT,
\* for any number of faults, foreign rules and configurations.
THEOREM SyncFailsClosed == Spec => FailClosed
<1>1. IInv /\ [Next]_vars =>
        [SyncStep => /\ Enforcing(fw) => Enforcing(fw')
                     /\ Covered(fw) \subseteq Covered(fw')]_vars
  BY SyncStepNoLoss DEF NoLoss
<1> QED
  BY <1>1, InvariantHolds, PTL DEF Spec, FailClosed

-----------------------------------------------------------------------------
(***************************************************************************)
(* How a process ends.  SyncedSoFar: what the commands of a sync before pc *)
(* have established; a sync that is not at its end has met no fault, and   *)
(* another tool can only put its rule before the jump, which the last      *)
(* command finds.  CleanedSoFar: the same for a cleanup, unless an earlier *)
(* step of it failed, which a fault caused.  LeftBehind: what stays until  *)
(* the next process starts.                                                *)
(***************************************************************************)
OneJump(s, c) ==
  \E p \in 1 .. Len(s) : s[p] = c /\ \A j \in 1 .. Len(s) : s[j] = c => j = p

SyncedSoFar ==
  /\ pc \in SyncSteps \ {"ensure_set"} => plan.set \in fw.sets
  /\ pc \in SyncSteps \ {"ensure_set", "ensure_chain"} => STABLE \in fw.chains
  /\ pc \in {"append_jump", "delete_jumps", "insert_staging", "remove_stable",
             "insert_stable", "remove_staging", "flush_staging", "delete_staging"}
       => STAGING \in fw.chains
  /\ pc = "delete_rules" => fw.stable[Len(fw.stable)] = plan
  /\ pc \in {"ensure_staging", "append_jump", "delete_jumps", "insert_staging",
             "remove_stable", "insert_stable", "remove_staging", "flush_staging",
             "delete_staging", "verify"}
       => fw.stable = <<plan>>
  /\ pc = "insert_stable" => ~ Contains(fw.input, STABLE)
  /\ pc \in {"remove_staging", "flush_staging", "delete_staging", "verify"} =>
       OneJump(fw.input, STABLE) /\ (~ disturbed => fw.input[1] = STABLE)
  /\ pc \in {"flush_staging", "delete_staging", "verify"} => ~ Contains(fw.input, STAGING)
  /\ pc \in {"delete_staging", "verify"} => fw.staging = 0
  /\ pc = "verify" => STAGING \notin fw.chains

CleanSoFar ==
  /\ pc # "unhook_staging" => ~ Contains(fw.input, STAGING)
  /\ pc \notin {"unhook_staging", "unhook_stable"} => ~ Contains(fw.input, STABLE)
  /\ pc \in {"drop_staging", "clear_stable", "drop_stable", "destroy_set"} => fw.staging = 0
  /\ pc \in {"clear_stable", "drop_stable", "destroy_set"} => STAGING \notin fw.chains
  /\ pc \in {"drop_stable", "destroy_set"} => fw.stable = <<>>
  /\ pc = "destroy_set" => STABLE \notin fw.chains

CleanedSoFar ==
  pc \in CleanupSteps => IF err THEN disturbed ELSE CleanSoFar

LeftBehind ==
  pc = "idle" =>
    /\ result = "synced" =>
         /\ fw.stable = <<plan>> /\ plan.set \in fw.sets /\ fw.chains = {STABLE}
         /\ OneJump(fw.input, STABLE) /\ ~ Contains(fw.input, STAGING)
    /\ result = "flushed" =>
         /\ ~ Contains(fw.input, STABLE) /\ ~ Contains(fw.input, STAGING)
         /\ fw.chains = {} /\ fw.stable = <<>> /\ fw.staging = 0
         /\ plan.set \notin fw.sets
    /\ result = "failed" => disturbed

EndInv == SyncedSoFar /\ CleanedSoFar /\ LeftBehind

EndsFailed == pc' = "idle" /\ result' = "failed" /\ disturbed' = TRUE

\* A command of a sync that the kernel accepts takes effect, or a fault ends
\* the sync.
LEMMA SyncCommand ==
  ASSUME NEW STATE p, NEW STATE pre, NEW STATE new, NEW STATE next,
         RunChecked(p, pre, new, next), pre
  PROVE  /\ pc = p /\ plan' = plan
         /\ EndsFailed \/ (pc' = next /\ fw' = new /\ disturbed' = disturbed)
BY Zenon DEF RunChecked, Proceed, Fault, Abort, EndsFailed

\* A failure whose cause is known leaves nothing to show.
LEMMA FailedEnds ==
  ASSUME EndsFailed
  PROVE  EndInv'
BY DEF EndsFailed, EndInv, SyncedSoFar, CleanedSoFar, LeftBehind

\* Jumps in INPUT after a jump was put in front of it.
LEMMA JumpsCons ==
  ASSUME NEW s \in Seq(InputRules), NEW a \in InputRules
  PROVE  /\ (<<a>> \o s)[1] = a
         /\ \A b : Contains(<<a>> \o s, b) => b = a \/ Contains(s, b)
         /\ ~ Contains(s, a) => OneJump(<<a>> \o s, a)
<1> DEFINE t == <<a>> \o s
<1>1. /\ Len(t) = Len(s) + 1 /\ t[1] = a
      /\ \A i \in 1 .. Len(s) : t[i + 1] = s[i]
  BY ConsProps
<1>2. \A i \in 1 .. Len(t) : i = 1 \/ (i - 1 \in 1 .. Len(s) /\ t[i] = s[i - 1])
  <2> SUFFICES ASSUME NEW i \in 1 .. Len(t), i # 1
               PROVE  i - 1 \in 1 .. Len(s) /\ t[i] = s[i - 1]
    OBVIOUS
  <2>1. i - 1 \in 1 .. Len(s) /\ (i - 1) + 1 = i
    BY <1>1
  <2> QED
    BY <1>1, <2>1
<1>3. 1 \in 1 .. Len(t)
  BY <1>1
<1> HIDE DEF t
<1>4. \A b : Contains(t, b) => b = a \/ Contains(s, b)
  BY <1>1, <1>2 DEF Contains
<1>5. ASSUME ~ Contains(s, a)
      PROVE  OneJump(t, a)
  <2>1. \A j \in 1 .. Len(t) : t[j] = a => j = 1
    BY <1>2, <1>5 DEF Contains
  <2> QED
    BY <1>1, <1>3, <2>1 DEF OneJump
<1> QED
  BY <1>1, <1>4, <1>5 DEF t

\* Jumps in INPUT after the rule at p was deleted.
LEMMA JumpsRemoveAt ==
  ASSUME NEW s \in Seq(InputRules), NEW p \in 1 .. Len(s)
  PROVE  /\ \A b : Contains(RemoveAt(s, p), b) => Contains(s, b)
         /\ \A a : OneJump(s, a) /\ s[p] # a => OneJump(RemoveAt(s, p), a)
         /\ \A a : s[1] = a /\ s[p] # a => RemoveAt(s, p)[1] = a
<1> DEFINE t == RemoveAt(s, p)
<1>1. /\ Len(t) = Len(s) - 1 /\ Len(s) \in Nat
      /\ \A i \in 1 .. Len(s) - 1 : t[i] = IF i < p THEN s[i] ELSE s[i + 1]
  BY RemoveAtProps, LenProperties
<1> HIDE DEF t
<1>2. \A b : Contains(t, b) => Contains(s, b)
  BY <1>1 DEF Contains
<1>3. ASSUME NEW a, OneJump(s, a), s[p] # a
      PROVE  OneJump(t, a)
  <2>1. PICK q \in 1 .. Len(s) : s[q] = a /\ \A j \in 1 .. Len(s) : s[j] = a => j = q
    BY <1>3 DEF OneJump
  <2> DEFINE m == IF q < p THEN q ELSE q - 1
  <2>2. m \in 1 .. Len(t) /\ t[m] = a
    BY <1>1, <1>3, <2>1
  <2>3. ASSUME NEW j \in 1 .. Len(t), t[j] = a
        PROVE  j = m
    <3>1. CASE j < p
      BY <1>1, <2>1, <2>3, <3>1
    <3>2. CASE ~ (j < p)
      <4>1. j + 1 \in 1 .. Len(s) /\ s[j + 1] = a
        BY <1>1, <2>3, <3>2
      <4> QED
        BY <1>1, <2>1, <3>2, <4>1
    <3> QED
      BY <3>1, <3>2
  <2> QED
    BY <2>2, <2>3 DEF OneJump
<1>4. ASSUME NEW a, s[1] = a, s[p] # a
      PROVE  t[1] = a
  BY <1>1, <1>4
<1> QED
  BY <1>2, <1>3, <1>4 DEF t

\* Jumps in INPUT after another tool put its rule at p.
LEMMA JumpsInsertAt ==
  ASSUME NEW s \in Seq(InputRules), NEW f \in InputRules, NEW p \in 1 .. (Len(s) + 1)
  PROVE  /\ \A b : Contains(InsertAt(s, p, f), b) => b = f \/ Contains(s, b)
         /\ \A a : OneJump(s, a) /\ a # f => OneJump(InsertAt(s, p, f), a)
<1> DEFINE t == InsertAt(s, p, f)
<1>1. /\ Len(t) = Len(s) + 1 /\ Len(s) \in Nat
      /\ \A i \in 1 .. (p - 1) : t[i] = s[i]
      /\ t[p] = f
      /\ \A i \in p .. Len(s) : t[i + 1] = s[i]
  BY InsertAtProps, LenProperties
<1>2. \A i \in 1 .. Len(t) :
        \/ i = p
        \/ i < p /\ i \in 1 .. Len(s) /\ t[i] = s[i]
        \/ i > p /\ i - 1 \in 1 .. Len(s) /\ t[i] = s[i - 1]
  <2> SUFFICES ASSUME NEW i \in 1 .. Len(t), i # p
               PROVE  \/ i < p /\ i \in 1 .. Len(s) /\ t[i] = s[i]
                      \/ i > p /\ i - 1 \in 1 .. Len(s) /\ t[i] = s[i - 1]
    OBVIOUS
  <2>1. CASE i < p
    BY <1>1, <2>1
  <2>2. CASE i > p
    <3>1. i - 1 \in p .. Len(s) /\ (i - 1) + 1 = i
      BY <1>1, <2>2
    <3>2. t[i] = s[i - 1]
      BY <1>1, <3>1
    <3> QED
      BY <1>1, <2>2, <3>1, <3>2
  <2> QED
    BY <2>1, <2>2
<1> HIDE DEF t
<1>3. \A b : Contains(t, b) => b = f \/ Contains(s, b)
  BY <1>1, <1>2 DEF Contains
<1>4. ASSUME NEW a, OneJump(s, a), a # f
      PROVE  OneJump(t, a)
  <2>1. PICK q \in 1 .. Len(s) : s[q] = a /\ \A j \in 1 .. Len(s) : s[j] = a => j = q
    BY <1>4 DEF OneJump
  <2> DEFINE m == IF q < p THEN q ELSE q + 1
  <2>2. m \in 1 .. Len(t) /\ t[m] = a
    BY <1>1, <2>1
  <2>3. ASSUME NEW j \in 1 .. Len(t), t[j] = a
        PROVE  j = m
    <3>1. j # p
      BY <1>1, <1>4, <2>3
    <3>2. CASE j < p
      BY <1>2, <2>1, <2>3, <3>1, <3>2
    <3>3. CASE j > p
      <4>1. j - 1 \in 1 .. Len(s) /\ s[j - 1] = a
        BY <1>2, <2>3, <3>3
      <4>2. j - 1 = q
        BY <2>1, <4>1
      <4> QED
        BY <3>3, <4>2
    <3> QED
      BY <3>1, <3>2, <3>3
  <2> QED
    BY <2>2, <2>3 DEF OneJump
<1> QED
  BY <1>3, <1>4 DEF t

-----------------------------------------------------------------------------
\* Before the rule is appended.
LEMMA ArtifactStepsEnd ==
  ASSUME IInv, EndInv, \/ EnsureIpsetExists \/ EnsureFirewallArtifacts \/ ReplaceSet
                       \/ EnsureStableChain
  PROVE  EndInv'
<1> USE DEF EndInv, SyncedSoFar, CleanedSoFar, LeftBehind
<1>1. fw \in Kernel
  BY DEF IInv, TypeOK
<1>2. CASE EnsureIpsetExists
  <2>1. /\ pc = "ensure_set" /\ plan' = plan
        /\ EndsFailed \/ (pc' = "ensure_chain" /\ fw' = CreateSet(fw, plan.set))
    BY <1>2, SyncCommand DEF EnsureIpsetExists
  <2>2. CreateSet(fw, plan.set).sets = fw.sets \cup {plan.set}
    BY <1>1 DEF CreateSet, Kernel
  <2> QED
    BY <2>1, <2>2, FailedEnds
<1>3. CASE EnsureFirewallArtifacts \/ EnsureStableChain
  <2>1. /\ pc \in {"ensure_chain", "activate"} /\ plan' = plan
        /\ \/ EndsFailed
           \/ pc' \in {"replace_set", "append_rule"} /\ fw' = EnsureChain(fw, STABLE)
    BY <1>3, SyncCommand DEF EnsureFirewallArtifacts, EnsureStableChain
  <2>2. /\ EnsureChain(fw, STABLE).sets = fw.sets
        /\ EnsureChain(fw, STABLE).chains = fw.chains \cup {STABLE}
    BY <1>1 DEF EnsureChain, Kernel
  <2> QED
    BY <2>1, <2>2, FailedEnds
<1>4. CASE ReplaceSet
  <2>1. /\ pc = "replace_set" /\ plan' = plan
        /\ EndsFailed \/ (pc' = "activate" /\ fw' = fw)
    BY <1>4, SyncCommand DEF ReplaceSet
  <2> QED
    BY <2>1, FailedEnds
<1> QED
  BY <1>2, <1>3, <1>4

\* The new rule is the last one of the chain, and the only one at the end.
LEMMA RuleStepsEnd ==
  ASSUME IInv, EndInv, AppendChainRule \/ DeleteOldRule
  PROVE  EndInv'
<1>1. fw \in Kernel /\ fw.stable \in Seq(Rules) /\ plan \in Rules
  BY DEF IInv, TypeOK, Kernel
<1>4. /\ AppendRule(fw, plan).sets = fw.sets /\ AppendRule(fw, plan).chains = fw.chains
      /\ AppendRule(fw, plan).stable = Append(fw.stable, plan)
  BY <1>1 DEF AppendRule, Kernel
<1>5. /\ DeleteFirstRule(fw).sets = fw.sets /\ DeleteFirstRule(fw).chains = fw.chains
      /\ DeleteFirstRule(fw).stable = Tail(fw.stable)
  BY <1>1 DEF DeleteFirstRule, Kernel
<1>6. Append(fw.stable, plan)[Len(Append(fw.stable, plan))] = plan
  BY <1>1
<1>7. fw.stable = <<>> => Append(fw.stable, plan) = <<plan>>
  OBVIOUS
<1> USE DEF EndInv, SyncedSoFar, CleanedSoFar, LeftBehind
<1>2. CASE AppendChainRule
  <2> DEFINE next == IF fw.stable = <<>> THEN "ensure_staging" ELSE "delete_rules"
  <2>1. pc = "append_rule" /\ plan.set \in fw.sets /\ STABLE \in fw.chains
    BY <1>2 DEF AppendChainRule, RunChecked
  <2>2. RunChecked("append_rule", STABLE \in fw.chains /\ plan.set \in fw.sets,
                   AppendRule(fw, plan), next)
    BY <1>2, Zenon DEF AppendChainRule
  <2> HIDE DEF next
  <2>3. /\ plan' = plan
        /\ EndsFailed \/ (pc' = next /\ fw' = AppendRule(fw, plan))
    BY <2>1, <2>2, SyncCommand
  <2> QED
    BY <1>4, <1>6, <1>7, <2>1, <2>3, FailedEnds DEF next
<1>3. CASE DeleteOldRule
  <2> DEFINE next == IF old = 1 THEN "ensure_staging" ELSE "delete_rules"
  <2>1. /\ pc = "delete_rules" /\ plan.set \in fw.sets /\ STABLE \in fw.chains
        /\ fw.stable # <<>> /\ old \in Nat /\ old >= 1 /\ Len(fw.stable) = old + 1
        /\ fw.stable[Len(fw.stable)] = plan
    BY <1>3 DEF DeleteOldRule, RunChecked, IInv, TypeOK, CountInv, RuleInv
  <2>2. RunChecked("delete_rules", fw.stable # <<>>, DeleteFirstRule(fw), next)
    BY <1>3, Zenon DEF DeleteOldRule
  <2> HIDE DEF next
  <2>3. /\ plan' = plan
        /\ EndsFailed \/ (pc' = next /\ fw' = DeleteFirstRule(fw))
    BY <2>1, <2>2, SyncCommand
  <2> DEFINE rest == Tail(fw.stable)
  <2>4. rest \in Seq(Rules) /\ Len(rest) = old /\ rest[old] = plan
    BY <1>1, <2>1
  <2> HIDE DEF rest
  <2>5. rest[Len(rest)] = plan /\ (old = 1 => rest = <<plan>>)
    BY <1>1, <2>4
  <2> QED
    BY <1>5, <2>1, <2>3, <2>5, FailedEnds DEF next, rest
<1> QED
  BY <1>2, <1>3

\* The staging chain exists and is filled before a jump leads to it.
LEMMA StagingStepsEnd ==
  ASSUME IInv, EndInv, EnsureStagingChain \/ AppendStagingJump \/ DeleteOldJump
  PROVE  EndInv'
<1>1. fw \in Kernel
  BY DEF IInv, TypeOK
<1>7. /\ EnsureChain(fw, STAGING).sets = fw.sets
      /\ EnsureChain(fw, STAGING).chains = fw.chains \cup {STAGING}
      /\ EnsureChain(fw, STAGING).stable = fw.stable
  BY <1>1 DEF EnsureChain, Kernel
<1>8. /\ AppendJump(fw).sets = fw.sets /\ AppendJump(fw).chains = fw.chains
      /\ AppendJump(fw).stable = fw.stable
      /\ DeleteFirstJump(fw).sets = fw.sets /\ DeleteFirstJump(fw).chains = fw.chains
      /\ DeleteFirstJump(fw).stable = fw.stable
  BY <1>1 DEF AppendJump, DeleteFirstJump, Kernel
<1> USE DEF EndInv, SyncedSoFar, CleanedSoFar, LeftBehind
<1>2. pc \in {"ensure_staging", "append_jump", "delete_jumps"}
  BY DEF EnsureStagingChain, AppendStagingJump, DeleteOldJump, RunChecked
<1>3. plan.set \in fw.sets /\ STABLE \in fw.chains /\ fw.stable = <<plan>>
      /\ (pc # "ensure_staging" => STAGING \in fw.chains)
  BY <1>2
<1>4. CASE EnsureStagingChain
  <2>1. /\ plan' = plan
        /\ EndsFailed \/ (pc' = "append_jump" /\ fw' = EnsureChain(fw, STAGING))
    BY <1>4, SyncCommand DEF EnsureStagingChain
  <2> QED
    BY <1>3, <1>7, <2>1, FailedEnds
<1>5. CASE AppendStagingJump
  <2>1. pc = "append_jump" /\ Jumps \subseteq fw.chains
    BY <1>3, <1>5 DEF AppendStagingJump, RunChecked, Jumps
  <2>2. /\ plan' = plan
        /\ \/ EndsFailed
           \/ pc' \in {"insert_staging", "delete_jumps"} /\ fw' = AppendJump(fw)
    BY <1>5, <2>1, SyncCommand DEF AppendStagingJump
  <2> QED
    BY <1>3, <1>8, <2>1, <2>2, FailedEnds
<1>6. CASE DeleteOldJump
  <2>1. pc = "delete_jumps" /\ fw.staging > 0
    BY <1>6 DEF DeleteOldJump, RunChecked, IInv, RuleInv
  <2>2. /\ plan' = plan
        /\ \/ EndsFailed
           \/ pc' \in {"insert_staging", "delete_jumps"} /\ fw' = DeleteFirstJump(fw)
    BY <1>6, <2>1, SyncCommand DEF DeleteOldJump
  <2> QED
    BY <1>3, <1>8, <2>1, <2>2, FailedEnds
<1> QED
  BY <1>4, <1>5, <1>6

\* One round of a delete loop in INPUT: it deletes a jump to c, or there is none
\* and the sync goes on.
LEMMA RemoveRound ==
  ASSUME NEW k \in Kernel, NEW c \in Jumps, Contains(k.input, c)
  PROVE  LET l == DeleteInputJump(k, c)
         IN  /\ l.sets = k.sets /\ l.chains = k.chains /\ l.stable = k.stable
             /\ l.staging = k.staging
             /\ \A b : Contains(l.input, b) => Contains(k.input, b)
             /\ \A a : a # c /\ OneJump(k.input, a) => OneJump(l.input, a)
             /\ \A a : a # c /\ k.input[1] = a => l.input[1] = a
<1> DEFINE l == DeleteInputJump(k, c)
<1>1. k.input \in Seq(InputRules)
  BY DEF Kernel, InputRules
<1>2. PICK p \in 1 .. Len(k.input) : k.input[p] = c /\ l.input = RemoveAt(k.input, p)
  BY DeleteInputJumpEffect
<1>3. l.sets = k.sets /\ l.chains = k.chains /\ l.stable = k.stable /\ l.staging = k.staging
  BY DEF DeleteInputJump, Kernel
<1> HIDE DEF l
<1>4. \A b : Contains(l.input, b) => Contains(k.input, b)
  BY <1>1, <1>2, JumpsRemoveAt
<1>5. ASSUME NEW a, a # c, OneJump(k.input, a) PROVE OneJump(l.input, a)
  BY <1>1, <1>2, <1>5, JumpsRemoveAt
<1>6. ASSUME NEW a, a # c, k.input[1] = a PROVE l.input[1] = a
  BY <1>1, <1>2, <1>6, JumpsRemoveAt
<1> QED
  BY <1>3, <1>4, <1>5, <1>6 DEF l

\* INPUT ends with one jump to the stable chain, at position 1 unless another
\* tool put its rule before it, and none to the staging chain.
LEMMA JumpStepsEnd ==
  ASSUME IInv, EndInv, \/ InsertStagingJump \/ RemoveStableJumps \/ InsertStableJump
                       \/ RemoveStagingJumps
  PROVE  EndInv'
<1>1. fw \in Kernel /\ fw.input \in Seq(InputRules)
      /\ STABLE \in Jumps /\ STAGING \in Jumps /\ STABLE # STAGING /\ STABLE \in InputRules
  BY DEF IInv, TypeOK, Kernel, InputRules, Jumps, STABLE, STAGING
<1>2. ASSUME NEW c \in Jumps
      PROVE  /\ InsertInputJump(fw, c).sets = fw.sets
             /\ InsertInputJump(fw, c).chains = fw.chains
             /\ InsertInputJump(fw, c).stable = fw.stable
             /\ InsertInputJump(fw, c).input = <<c>> \o fw.input
  BY <1>1 DEF InsertInputJump, Kernel
<1>3. pc \in {"insert_staging", "remove_stable", "insert_stable", "remove_staging"}
  BY DEF InsertStagingJump, RemoveStableJumps, InsertStableJump, RemoveStagingJumps, RunChecked
<1>4. plan.set \in fw.sets /\ STABLE \in fw.chains /\ STAGING \in fw.chains
      /\ fw.stable = <<plan>>
  BY <1>3 DEF EndInv, SyncedSoFar
<1> USE DEF EndInv, SyncedSoFar, CleanedSoFar, LeftBehind
<1>5. CASE InsertStagingJump
  <2>1. /\ plan' = plan
        /\ EndsFailed \/ (pc' = "remove_stable" /\ fw' = InsertInputJump(fw, STAGING))
    BY <1>4, <1>5, SyncCommand DEF InsertStagingJump
  <2> QED
    BY <1>1, <1>2, <1>4, <2>1, FailedEnds
<1>6. CASE InsertStableJump
  <2>1. pc = "insert_stable" /\ ~ Contains(fw.input, STABLE)
    BY <1>6 DEF InsertStableJump, RunChecked
  <2>2. /\ plan' = plan
        /\ EndsFailed \/ (pc' = "remove_staging" /\ fw' = InsertInputJump(fw, STABLE))
    BY <1>4, <1>6, SyncCommand DEF InsertStableJump
  <2> DEFINE hooked == <<STABLE>> \o fw.input
  <2>3. hooked[1] = STABLE /\ OneJump(hooked, STABLE)
    BY <1>1, <2>1, JumpsCons
  <2>4. InsertInputJump(fw, STABLE).input = hooked
    BY <1>1, <1>2
  <2> HIDE DEF hooked
  <2> QED
    BY <1>1, <1>2, <1>4, <2>2, <2>3, <2>4, FailedEnds
<1>7. CASE RemoveStableJumps
  <2>1. CASE Contains(fw.input, STABLE)
    <3>1. RunChecked("remove_stable", TRUE, DeleteInputJump(fw, STABLE), "remove_stable")
      BY <1>7, <2>1, Zenon DEF RemoveStableJumps
    <3>2. /\ plan' = plan
          /\ EndsFailed \/ (pc' = "remove_stable" /\ fw' = DeleteInputJump(fw, STABLE))
      BY <3>1, SyncCommand
    <3>3. /\ DeleteInputJump(fw, STABLE).sets = fw.sets
          /\ DeleteInputJump(fw, STABLE).chains = fw.chains
          /\ DeleteInputJump(fw, STABLE).stable = fw.stable
      BY <1>1, <2>1, RemoveRound
    <3> QED
      BY <1>4, <3>2, <3>3, FailedEnds
  <2>2. CASE ~ Contains(fw.input, STABLE)
    <3>1. RunChecked("remove_stable", TRUE, fw, "insert_stable")
      BY <1>7, <2>2, Zenon DEF RemoveStableJumps
    <3>2. plan' = plan /\ (EndsFailed \/ (pc' = "insert_stable" /\ fw' = fw))
      BY <3>1, SyncCommand
    <3> QED
      BY <1>4, <2>2, <3>2, FailedEnds
  <2> QED
    BY <2>1, <2>2
<1>8. CASE RemoveStagingJumps
  <2>1. /\ pc = "remove_staging" /\ OneJump(fw.input, STABLE)
        /\ ~ disturbed => fw.input[1] = STABLE
    BY <1>8 DEF RemoveStagingJumps, RunChecked
  <2>2. CASE Contains(fw.input, STAGING)
    <3> DEFINE new == DeleteInputJump(fw, STAGING)
    <3>1. RunChecked("remove_staging", TRUE, new, "remove_staging")
      BY <1>8, <2>2, Zenon DEF RemoveStagingJumps
    <3>2. /\ new.sets = fw.sets /\ new.chains = fw.chains /\ new.stable = fw.stable
          /\ OneJump(new.input, STABLE) /\ (~ disturbed => new.input[1] = STABLE)
      BY <1>1, <2>1, <2>2, RemoveRound
    <3> HIDE DEF new
    <3>3. /\ plan' = plan
          /\ EndsFailed \/ (pc' = "remove_staging" /\ fw' = new /\ disturbed' = disturbed)
      BY <3>1, SyncCommand
    <3> QED
      BY <1>4, <3>2, <3>3, FailedEnds
  <2>3. CASE ~ Contains(fw.input, STAGING)
    <3>1. RunChecked("remove_staging", TRUE, fw, "flush_staging")
      BY <1>8, <2>3, Zenon DEF RemoveStagingJumps
    <3>2. /\ plan' = plan
          /\ EndsFailed \/ (pc' = "flush_staging" /\ fw' = fw /\ disturbed' = disturbed)
      BY <3>1, SyncCommand
    <3> QED
      BY <1>4, <2>1, <2>3, <3>2, FailedEnds
  <2> QED
    BY <2>2, <2>3
<1> QED
  BY <1>5, <1>6, <1>7, <1>8

\* The staging chain goes, and the final listing shows what was wired.
LEMMA FinalStepsEnd ==
  ASSUME IInv, EndInv, FlushStagingChain \/ DeleteStagingChain \/ VerifyWiring
  PROVE  EndInv'
<1>1. fw \in Kernel /\ fw.input \in Seq(InputRules) /\ fw.chains \subseteq Jumps
      /\ STABLE # STAGING
  BY DEF IInv, TypeOK, Kernel, InputRules, Jumps, STABLE, STAGING
<1>2. /\ FlushChain(fw, STAGING).input = fw.input
      /\ FlushChain(fw, STAGING).sets = fw.sets
      /\ FlushChain(fw, STAGING).chains = fw.chains
      /\ FlushChain(fw, STAGING).stable = fw.stable
      /\ FlushChain(fw, STAGING).staging = 0
  BY <1>1 DEF FlushChain, Kernel
<1>3. /\ DeleteChain(fw, STAGING).input = fw.input
      /\ DeleteChain(fw, STAGING).sets = fw.sets
      /\ DeleteChain(fw, STAGING).chains = fw.chains \ {STAGING}
      /\ DeleteChain(fw, STAGING).stable = fw.stable
      /\ DeleteChain(fw, STAGING).staging = fw.staging
  BY <1>1 DEF DeleteChain, Kernel
<1>4. pc \in {"flush_staging", "delete_staging", "verify"}
  BY DEF FlushStagingChain, DeleteStagingChain, VerifyWiring, RunChecked
<1>5. /\ plan.set \in fw.sets /\ STABLE \in fw.chains /\ fw.stable = <<plan>>
      /\ OneJump(fw.input, STABLE) /\ (~ disturbed => fw.input[1] = STABLE)
      /\ ~ Contains(fw.input, STAGING)
  BY <1>4 DEF EndInv, SyncedSoFar
<1>6. ASSUME pc = "verify", ~ disturbed
      PROVE  ExactWiring(fw)
  <2>1. PICK p \in 1 .. Len(fw.input) :
          fw.input[p] = STABLE /\ \A j \in 1 .. Len(fw.input) : fw.input[j] = STABLE => j = p
    BY <1>5 DEF OneJump
  <2>2. DOMAIN fw.input = 1 .. Len(fw.input) /\ 1 \in 1 .. Len(fw.input) /\ fw.input # <<>>
    BY <1>1, <2>1
  <2>3. p = 1
    BY <1>5, <1>6, <2>1, <2>2
  <2>4. \A j \in 1 .. Len(fw.input) : fw.input[j] \in Jumps => fw.input[j] = STABLE
    BY <1>5 DEF Jumps, Contains
  <2> QED
    BY <1>5, <1>6, <2>1, <2>2, <2>3, <2>4 DEF ExactWiring
<1> USE DEF EndInv, SyncedSoFar, CleanedSoFar, LeftBehind
<1>7. CASE FlushStagingChain
  <2>1. /\ pc = "flush_staging" /\ plan' = plan
        /\ \/ EndsFailed
           \/ pc' = "delete_staging" /\ fw' = FlushChain(fw, STAGING) /\ disturbed' = disturbed
    BY <1>7, SyncCommand DEF FlushStagingChain
  <2>2. STAGING \in fw.chains
    BY <2>1
  <2> QED
    BY <1>2, <1>5, <2>1, <2>2, FailedEnds
<1>8. CASE DeleteStagingChain
  <2>1. pc = "delete_staging" /\ fw.staging = 0
    BY <1>8 DEF DeleteStagingChain, RunChecked
  <2>2. Deletable(fw, STAGING)
    BY <1>1, <1>5, <2>1 DEF Deletable
  <2>3. /\ plan' = plan
        /\ \/ EndsFailed
           \/ pc' = "verify" /\ fw' = DeleteChain(fw, STAGING) /\ disturbed' = disturbed
    BY <1>8, <2>2, SyncCommand DEF DeleteStagingChain
  <2> QED
    BY <1>1, <1>3, <1>5, <2>1, <2>3, FailedEnds
<1>9. CASE VerifyWiring
  <2>1. pc = "verify" /\ STAGING \notin fw.chains
    BY <1>9 DEF VerifyWiring
  <2>2. /\ fw' = fw /\ plan' = plan /\ pc' = "idle"
        /\ \/ result' = "synced"
           \/ ~ ExactWiring(fw) /\ result' = "failed" /\ disturbed' = disturbed
           \/ EndsFailed
    BY <1>9, Zenon DEF VerifyWiring, Fault, NoFault, EndsFailed
  <2>3. fw.chains = {STABLE}
    BY <1>1, <1>5, <2>1 DEF Jumps
  <2>4. CASE result' = "synced"
    BY <1>5, <2>2, <2>3, <2>4
  <2>5. CASE ~ ExactWiring(fw) /\ result' = "failed" /\ disturbed' = disturbed
    BY <1>6, <2>1, <2>2, <2>5
  <2> QED
    BY <2>2, <2>4, <2>5, FailedEnds
<1> QED
  BY <1>7, <1>8, <1>9

-----------------------------------------------------------------------------
\* A cleanup that has failed a step goes on to the end and reports it.
LEMMA SkippedEnds ==
  ASSUME pc' \in CleanupSteps, err' = TRUE, disturbed' = TRUE
  PROVE  EndInv'
BY DEF EndInv, SyncedSoFar, CleanedSoFar, LeftBehind

\* A step of a cleanup whose command the kernel accepts while nothing failed.
LEMMA CleanupCommand ==
  ASSUME TypeOK, CleanedSoFar, NEW STATE p, NEW STATE pre, NEW STATE new, NEW STATE next,
         Attempt(p, pre, new, next), p \in CleanupSteps, ~ err /\ CleanSoFar => pre
  PROVE  /\ pc = p /\ plan' = plan /\ pc' = next
         /\ \/ err' = TRUE /\ disturbed' = TRUE
            \/ CleanSoFar /\ err' = FALSE /\ fw' = new
<1>1. /\ pc = p /\ plan' = plan /\ pc' = next /\ err \in BOOLEAN /\ disturbed \in BOOLEAN
      /\ \/ pre /\ fw' = new /\ err' = err /\ disturbed' = disturbed
         \/ err' = TRUE /\ disturbed' = TRUE
         \/ ~ pre /\ err' = TRUE /\ disturbed' = disturbed
  BY Zenon DEF Attempt, Proceed, Skip, Fault, NoFault, TypeOK
<1>2. CASE err = TRUE
  <2>1. disturbed = TRUE
    BY <1>1, <1>2 DEF CleanedSoFar
  <2> QED
    BY <1>1, <1>2, <2>1, Zenon
<1>3. CASE err = FALSE
  <2>1. CleanSoFar
    BY <1>1, <1>3 DEF CleanedSoFar
  <2> QED
    BY <1>1, <1>3, <2>1, Zenon
<1> QED
  BY <1>1, <1>2, <1>3

\* A round of a delete loop of a cleanup: it goes on when no jump is left.
LEMMA UnhookRound ==
  ASSUME TypeOK, CleanedSoFar, NEW STATE p, NEW STATE c, NEW STATE next,
         Unhook(p, c, next), p \in CleanupSteps, next \in CleanupSteps
  PROVE  /\ pc = p /\ plan' = plan /\ pc' \in CleanupSteps
         /\ \/ err' = TRUE /\ disturbed' = TRUE
            \/ /\ CleanSoFar /\ err' = FALSE
               /\ \/ Contains(fw.input, c) /\ pc' = p /\ fw' = DeleteInputJump(fw, c)
                  \/ ~ Contains(fw.input, c) /\ pc' = next /\ fw' = fw
<1>1. CASE ~ Contains(fw.input, c)
  <2>1. Attempt(p, TRUE, fw, next)
    BY <1>1, Zenon DEF Unhook
  <2>2. /\ pc = p /\ plan' = plan /\ pc' = next
        /\ \/ err' = TRUE /\ disturbed' = TRUE
           \/ CleanSoFar /\ err' = FALSE /\ fw' = fw
    BY <2>1, CleanupCommand
  <2> QED
    BY <1>1, <2>2, Zenon
<1>2. CASE Contains(fw.input, c)
  <2>1. /\ pc = p /\ plan' = plan /\ (pc' = p \/ pc' = next)
        /\ err \in BOOLEAN /\ disturbed \in BOOLEAN
        /\ \/ err' = TRUE /\ disturbed' = TRUE
           \/ /\ pc' = p /\ fw' = DeleteInputJump(fw, c)
              /\ err' = err /\ disturbed' = disturbed
    BY <1>2, Zenon DEF Unhook, Proceed, Skip, Fault, TypeOK
  <2>2. CASE err = TRUE
    <3>1. disturbed = TRUE
      BY <2>1, <2>2 DEF CleanedSoFar
    <3> QED
      BY <2>1, <2>2, <3>1, Zenon
  <2>3. CASE err = FALSE
    <3>1. CleanSoFar
      BY <2>1, <2>3 DEF CleanedSoFar
    <3> QED
      BY <1>2, <2>1, <2>3, <3>1, Zenon
  <2> QED
    BY <2>1, <2>2, <2>3
<1> QED
  BY <1>1, <1>2

\* The steps of a cleanup: unhook both chains, clear and drop them, and destroy
\* the set that then no rule matches on.
LEMMA CleanupStepEnd ==
  ASSUME IInv, EndInv, CleanupStep
  PROVE  EndInv'
<1>1. TypeOK /\ CleanedSoFar /\ fw \in Kernel /\ STABLE \in Jumps /\ STAGING \in Jumps
      /\ STABLE # STAGING
  BY DEF IInv, TypeOK, EndInv, Jumps, STABLE, STAGING
<1>2. ASSUME pc' \in CleanupSteps, err' = FALSE, CleanSoFar'
      PROVE  EndInv'
  BY <1>2 DEF EndInv, SyncedSoFar, CleanedSoFar, LeftBehind
<1>3. CASE UnhookStaging
  <2>1. /\ pc = "unhook_staging" /\ pc' \in CleanupSteps
        /\ \/ err' = TRUE /\ disturbed' = TRUE
           \/ /\ CleanSoFar /\ err' = FALSE
              /\ \/ pc' = "unhook_staging"
                 \/ ~ Contains(fw.input, STAGING) /\ pc' = "unhook_stable" /\ fw' = fw
    BY <1>1, <1>3, UnhookRound DEF UnhookStaging
  <2>2. pc' = "unhook_staging" => CleanSoFar'
    BY DEF CleanSoFar
  <2>3. ~ Contains(fw.input, STAGING) /\ pc' = "unhook_stable" /\ fw' = fw => CleanSoFar'
    BY DEF CleanSoFar
  <2> QED
    BY <1>2, <2>1, <2>2, <2>3, SkippedEnds
<1>4. CASE UnhookStable
  <2>1. /\ pc = "unhook_stable" /\ pc' \in CleanupSteps
        /\ \/ err' = TRUE /\ disturbed' = TRUE
           \/ /\ CleanSoFar /\ err' = FALSE
              /\ \/ /\ Contains(fw.input, STABLE) /\ pc' = "unhook_stable"
                    /\ fw' = DeleteInputJump(fw, STABLE)
                 \/ ~ Contains(fw.input, STABLE) /\ pc' = "clear_staging" /\ fw' = fw
    BY <1>1, <1>4, UnhookRound DEF UnhookStable
  <2>2. CASE CleanSoFar /\ err' = FALSE /\ Contains(fw.input, STABLE)
             /\ pc' = "unhook_stable" /\ fw' = DeleteInputJump(fw, STABLE)
    <3>1. ~ Contains(fw'.input, STAGING)
      BY <1>1, <2>1, <2>2, RemoveRound DEF CleanSoFar
    <3>2. CleanSoFar'
      BY <2>2, <3>1 DEF CleanSoFar
    <3> QED
      BY <1>2, <2>1, <2>2, <3>2
  <2>3. CASE CleanSoFar /\ err' = FALSE /\ ~ Contains(fw.input, STABLE)
             /\ pc' = "clear_staging" /\ fw' = fw
    <3>1. CleanSoFar'
      BY <2>1, <2>3 DEF CleanSoFar
    <3> QED
      BY <1>2, <2>1, <2>3, <3>1
  <2> QED
    BY <2>1, <2>2, <2>3, SkippedEnds
<1>5. CASE ClearStaging
  <2>1. /\ pc = "clear_staging" /\ pc' = "drop_staging"
        /\ \/ err' = TRUE /\ disturbed' = TRUE
           \/ CleanSoFar /\ err' = FALSE /\ fw' = FlushChain(fw, STAGING)
    BY <1>1, <1>5, CleanupCommand DEF ClearStaging
  <2>2. FlushChain(fw, STAGING).input = fw.input /\ FlushChain(fw, STAGING).staging = 0
    BY <1>1 DEF FlushChain, Kernel
  <2>3. CleanSoFar /\ fw' = FlushChain(fw, STAGING) => CleanSoFar'
    BY <2>1, <2>2 DEF CleanSoFar
  <2> QED
    BY <1>2, <2>1, <2>3, SkippedEnds
<1>6. CASE DropStaging
  <2>1. pc = "drop_staging"
    BY <1>6 DEF DropStaging, Attempt
  <2>2. CleanSoFar => Deletable(fw, STAGING)
    BY <1>1, <2>1 DEF CleanSoFar, Deletable
  <2>3. /\ pc' = "clear_stable"
        /\ \/ err' = TRUE /\ disturbed' = TRUE
           \/ CleanSoFar /\ err' = FALSE /\ fw' = DeleteChain(fw, STAGING)
    BY <1>1, <1>6, <2>2, CleanupCommand DEF DropStaging
  <2>4. /\ DeleteChain(fw, STAGING).input = fw.input
        /\ DeleteChain(fw, STAGING).staging = fw.staging
        /\ DeleteChain(fw, STAGING).chains = fw.chains \ {STAGING}
    BY <1>1 DEF DeleteChain, Kernel
  <2>5. CleanSoFar /\ fw' = DeleteChain(fw, STAGING) => CleanSoFar'
    BY <2>1, <2>3, <2>4 DEF CleanSoFar
  <2> QED
    BY <1>2, <2>3, <2>5, SkippedEnds
<1>7. CASE ClearStable
  <2>1. /\ pc = "clear_stable" /\ pc' = "drop_stable"
        /\ \/ err' = TRUE /\ disturbed' = TRUE
           \/ CleanSoFar /\ err' = FALSE /\ fw' = FlushChain(fw, STABLE)
    BY <1>1, <1>7, CleanupCommand DEF ClearStable
  <2>2. /\ FlushChain(fw, STABLE).input = fw.input
        /\ FlushChain(fw, STABLE).staging = fw.staging
        /\ FlushChain(fw, STABLE).chains = fw.chains
        /\ FlushChain(fw, STABLE).stable = <<>>
    BY <1>1 DEF FlushChain, Kernel
  <2>3. CleanSoFar /\ fw' = FlushChain(fw, STABLE) => CleanSoFar'
    BY <2>1, <2>2 DEF CleanSoFar
  <2> QED
    BY <1>2, <2>1, <2>3, SkippedEnds
<1>8. CASE DropStable
  <2>1. pc = "drop_stable"
    BY <1>8 DEF DropStable, Attempt
  <2>2. CleanSoFar => Deletable(fw, STABLE)
    BY <1>1, <2>1 DEF CleanSoFar, Deletable
  <2>3. /\ pc' = "destroy_set"
        /\ \/ err' = TRUE /\ disturbed' = TRUE
           \/ CleanSoFar /\ err' = FALSE /\ fw' = DeleteChain(fw, STABLE)
    BY <1>1, <1>8, <2>2, CleanupCommand DEF DropStable
  <2>4. /\ DeleteChain(fw, STABLE).input = fw.input
        /\ DeleteChain(fw, STABLE).staging = fw.staging
        /\ DeleteChain(fw, STABLE).stable = fw.stable
        /\ DeleteChain(fw, STABLE).chains = fw.chains \ {STABLE}
    BY <1>1 DEF DeleteChain, Kernel
  <2>5. CleanSoFar /\ fw' = DeleteChain(fw, STABLE) => CleanSoFar'
    BY <2>1, <2>3, <2>4 DEF CleanSoFar
  <2> QED
    BY <1>2, <2>3, <2>5, SkippedEnds
<1>9. CASE DestroyIpset
  <2>1. pc = "destroy_set" /\ pc' = "idle" /\ plan' = plan /\ err' = err
        /\ err \in BOOLEAN /\ disturbed \in BOOLEAN /\ fw.chains \subseteq Jumps
    BY <1>9 DEF DestroyIpset, IInv, TypeOK, Kernel
  <2>2. \/ EndsFailed
        \/ /\ fw' = DestroySet(fw, plan.set) /\ disturbed' = disturbed
           /\ result' = IF err THEN "failed" ELSE "flushed"
        \/ /\ ~ Destroyable(fw, plan.set) /\ disturbed' = disturbed /\ result' = "failed"
    BY <1>9, Zenon DEF DestroyIpset, Fault, NoFault, EndsFailed
  <2>3. CASE err = TRUE
    <3>1. disturbed = TRUE
      BY <2>1, <2>3 DEF CleanedSoFar, EndInv
    <3>2. EndsFailed
      BY <2>1, <2>2, <2>3, <3>1 DEF EndsFailed
    <3> QED
      BY <3>2, FailedEnds
  <2>4. CASE err = FALSE
    <3>1. CleanSoFar
      BY <2>1, <2>4 DEF CleanedSoFar, EndInv
    <3>2. fw.stable = <<>> /\ fw.staging = 0 /\ fw.chains = {}
          /\ ~ Contains(fw.input, STABLE) /\ ~ Contains(fw.input, STAGING)
      BY <2>1, <3>1 DEF CleanSoFar, Jumps
    <3>3. Destroyable(fw, plan.set)
      BY <3>2 DEF Destroyable
    <3>4. CASE fw' = DestroySet(fw, plan.set) /\ result' = "flushed"
      <4>1. /\ fw'.input = fw.input /\ fw'.chains = fw.chains /\ fw'.stable = fw.stable
            /\ fw'.staging = fw.staging /\ plan.set \notin fw'.sets
        BY <1>1, <3>4 DEF DestroySet, Kernel
      <4> QED
        BY <2>1, <3>2, <3>4, <4>1 DEF EndInv, SyncedSoFar, CleanedSoFar, LeftBehind
    <3> QED
      BY <2>2, <2>4, <3>3, <3>4, FailedEnds
  <2> QED
    BY <2>1, <2>3, <2>4
<1> QED
  BY <1>3, <1>4, <1>5, <1>6, <1>7, <1>8, <1>9 DEF CleanupStep

\* Another tool's edit of INPUT moves no jump of Kidobo's in or out, and a
\* process that it meets is disturbed.
LEMMA ForeignStepEnd ==
  ASSUME IInv, EndInv, ForeignStep
  PROVE  EndInv'
<1> PICK f \in Foreign : ForeignInsert(f) \/ ForeignDelete(f)
  BY DEF ForeignStep
<1> DEFINE s == fw.input
<1>1. s \in Seq(InputRules) /\ f \in InputRules /\ f # STABLE /\ f # STAGING
  BY NameAssumption DEF IInv, TypeOK, Kernel, InputRules
<1>2. /\ fw' = [fw EXCEPT !.input = fw'.input]
      /\ UNCHANGED <<pc, plan, old, err, result>>
      /\ disturbed' = (disturbed \/ pc # "idle") /\ disturbed \in BOOLEAN
  BY Zenon DEF ForeignInsert, ForeignDelete, Interfere, IInv, TypeOK
<1>3. \A c \in Jumps : /\ Contains(fw'.input, c) => Contains(s, c)
                       /\ OneJump(s, c) => OneJump(fw'.input, c)
  <2>1. CASE ForeignInsert(f)
    <3>1. PICK i \in 1 .. (Len(s) + 1) : fw'.input = InsertAt(s, i, f)
      BY <2>1 DEF ForeignInsert, Interfere, IInv, TypeOK, Kernel
    <3> QED
      BY <1>1, <3>1, JumpsInsertAt DEF Jumps
  <2>2. CASE ForeignDelete(f)
    <3>1. PICK i \in 1 .. Len(s) : s[i] = f /\ RemoveFirst(s, f) = RemoveAt(s, i)
      BY <1>1, <2>2, RemoveFirstProps DEF ForeignDelete
    <3>2. fw'.input = RemoveAt(s, i)
      BY <2>2, <3>1 DEF ForeignDelete, Interfere, IInv, TypeOK, Kernel
    <3> QED
      BY <1>1, <3>1, <3>2, JumpsRemoveAt DEF Jumps
  <2> QED
    BY <2>1, <2>2
<1>4. /\ fw'.chains = fw.chains /\ fw'.stable = fw.stable /\ fw'.staging = fw.staging
      /\ fw'.sets = fw.sets
  BY <1>2 DEF IInv, TypeOK, Kernel
<1>5. STABLE \in Jumps /\ STAGING \in Jumps
  BY DEF Jumps
<1> HIDE DEF s
<1>6. SyncedSoFar'
  BY <1>2, <1>3, <1>4, <1>5 DEF EndInv, SyncedSoFar, s
<1>7. CleanedSoFar'
  <2>1. CleanSoFar => CleanSoFar'
    BY <1>2, <1>3, <1>4, <1>5 DEF CleanSoFar, s
  <2>2. disturbed => disturbed'
    BY <1>2
  <2> QED
    BY <1>2, <2>1, <2>2 DEF EndInv, CleanedSoFar
<1>8. LeftBehind'
  BY <1>2, <1>3, <1>4, <1>5 DEF EndInv, LeftBehind, s
<1> QED
  BY <1>6, <1>7, <1>8 DEF EndInv

\* Every step keeps what is promised of an end.
LEMMA NextEnd ==
  ASSUME IInv, EndInv, [Next]_vars
  PROVE  EndInv'
<1>1. ASSUME NEW r \in Rules, StartSync(r) \/ StartCleanup(r)
      PROVE  EndInv'
  <2>1. \/ pc' = "ensure_set"
        \/ pc' = "unhook_staging" /\ err' = FALSE
    BY <1>1 DEF StartSync, StartCleanup
  <2> QED
    BY <2>1 DEF EndInv, SyncedSoFar, CleanedSoFar, CleanSoFar, LeftBehind
<1>2. CASE SyncStep
  BY <1>2, ArtifactStepsEnd, RuleStepsEnd, StagingStepsEnd, JumpStepsEnd, FinalStepsEnd
     DEF SyncStep
<1>3. CASE CleanupStep
  BY <1>3, CleanupStepEnd
<1>4. CASE Crash
  <2>1. EndsFailed
    BY <1>4 DEF Crash, Abort, Fault, EndsFailed
  <2> QED
    BY <2>1, FailedEnds
<1>5. CASE ForeignStep
  BY <1>5, ForeignStepEnd
<1>6. CASE Reboot
  BY <1>6 DEF Reboot, EndInv, SyncedSoFar, CleanedSoFar, LeftBehind
<1>7. CASE UNCHANGED vars
  BY <1>7 DEF vars, EndInv, SyncedSoFar, CleanedSoFar, CleanSoFar, LeftBehind
<1> QED
  BY <1>1, <1>2, <1>3, <1>4, <1>5, <1>6, <1>7 DEF Next, Environment

\* One jump is a count of one, and no jump a count of zero.
LEMMA JumpCounts ==
  ASSUME NEW k \in Kernel, NEW c
  PROVE  /\ OneJump(k.input, c) => JumpCount(k, c) = 1
         /\ ~ Contains(k.input, c) => JumpCount(k, c) = 0
<1>1. DOMAIN k.input = 1 .. Len(k.input)
  BY DEF Kernel
<1>2. ASSUME OneJump(k.input, c) PROVE JumpCount(k, c) = 1
  <2>1. PICK p : {i \in DOMAIN k.input : k.input[i] = c} = {p}
    BY <1>1, <1>2 DEF OneJump
  <2> QED
    BY <2>1, FS_Singleton DEF JumpCount
<1>3. ASSUME ~ Contains(k.input, c) PROVE JumpCount(k, c) = 0
  <2>1. {i \in DOMAIN k.input : k.input[i] = c} = {}
    BY <1>1, <1>3 DEF Contains
  <2> QED
    BY <2>1, FS_EmptySet DEF JumpCount
<1> QED
  BY <1>2, <1>3

\* A sync that reports success leaves exactly its wiring, a cleanup that reports
\* success leaves nothing, and neither fails but for a fault, a kill or another
\* tool's edit, whatever earlier processes left behind and for any number of
\* faults, rules of other tools and configurations.
THEOREM EndsAsItSays == Spec => []EndsAsPromised
<1>1. Init => EndInv
  BY DEF Init, EndInv, SyncedSoFar, CleanedSoFar, LeftBehind
<1>2. IInv /\ EndInv => EndsAsPromised
  <2> SUFFICES ASSUME IInv, EndInv PROVE EndsAsPromised
    OBVIOUS
  <2>1. fw \in Kernel /\ fw.input \in Seq(InputRules)
    BY DEF IInv, TypeOK, Kernel, InputRules
  <2>2. SyncedWiring
    BY <2>1, JumpCounts DEF EndInv, LeftBehind, SyncedWiring
  <2>3. FlushedClean
    <3>1. \A i \in DOMAIN fw.input : fw.input[i] \in InputRules
      BY <2>1
    <3>2. ~ Contains(fw.input, STABLE) /\ ~ Contains(fw.input, STAGING)
            => \A i \in DOMAIN fw.input : fw.input[i] \in Foreign
      BY <2>1, <3>1 DEF Contains, InputRules, Jumps
    <3> QED
      BY <3>2 DEF EndInv, LeftBehind, FlushedClean
  <2>4. FailsOnlyIfDisturbed
    BY DEF EndInv, LeftBehind, FailsOnlyIfDisturbed
  <2> QED
    BY <2>2, <2>3, <2>4 DEF EndsAsPromised
<1> QED
  BY <1>1, <1>2, NextEnd, InvariantHolds, PTL DEF Spec

-----------------------------------------------------------------------------
(***************************************************************************)
(* Other tools' rules.  INPUT before and after a command of Kidobo's are   *)
(* the same, or one has a jump more than the other, at some position.      *)
(***************************************************************************)
OneJumpMore(s, t) ==
  /\ Len(s) = Len(t) + 1
  /\ \E p \in 1 .. Len(s) :
       /\ s[p] \in Jumps
       /\ \A i \in 1 .. Len(t) : t[i] = IF i < p THEN s[i] ELSE s[i + 1]

\* A jump more or less is nothing to the other rules.
LEMMA JumpIsNotForeign ==
  ASSUME NEW k \in Kernel, NEW l \in Kernel, OneJumpMore(k.input, l.input)
  PROVE  Unrelated(k) = Unrelated(l)
<1> DEFINE s == k.input
           t == l.input
<1>1. /\ DOMAIN s = 1 .. Len(s) /\ DOMAIN t = 1 .. Len(t) /\ Len(s) \in Nat /\ Len(t) \in Nat
      /\ Len(s) = Len(t) + 1
  BY LenProperties DEF Kernel, OneJumpMore
<1>2. PICK p \in 1 .. Len(s) :
        /\ s[p] \in Jumps
        /\ \A i \in 1 .. Len(t) : t[i] = IF i < p THEN s[i] ELSE s[i + 1]
  BY DEF OneJumpMore
<1> DEFINE up(i) == IF i < p THEN i ELSE i + 1
           down(i) == IF i < p THEN i ELSE i - 1
<1> HIDE DEF s, t
<1>3. ASSUME NEW i \in 1 .. Len(t) PROVE up(i) \in 1 .. Len(s) /\ s[up(i)] = t[i]
  BY <1>1, <1>2
<1>4. ASSUME NEW i \in 1 .. Len(s), s[i] \in Foreign
      PROVE  i # p /\ down(i) \in 1 .. Len(t) /\ t[down(i)] = s[i]
  <2>1. i # p
    BY <1>2, <1>4, NameAssumption DEF Jumps
  <2> QED
    BY <1>1, <1>2, <2>1
<1>5. ASSUME NEW i \in 1 .. Len(t), NEW j \in 1 .. Len(t), i < j PROVE up(i) < up(j)
  BY <1>5
<1>6. ASSUME NEW i \in 1 .. Len(s), NEW j \in 1 .. Len(s), i < j, i # p, j # p
      PROVE  down(i) < down(j)
  BY <1>6
<1> HIDE DEF up, down
<1>7. \A f \in Foreign : Contains(s, f) <=> Contains(t, f)
  BY <1>3, <1>4 DEF Contains
<1>8. ASSUME NEW f \in Foreign, NEW g \in Foreign
      PROVE  (\E i, j \in DOMAIN s : i < j /\ s[i] = f /\ s[j] = g)
               <=> (\E i, j \in DOMAIN t : i < j /\ t[i] = f /\ t[j] = g)
  <2>1. ASSUME NEW i \in DOMAIN s, NEW j \in DOMAIN s, i < j, s[i] = f, s[j] = g
        PROVE  \E x, y \in DOMAIN t : x < y /\ t[x] = f /\ t[y] = g
    <3>1. /\ i # p /\ down(i) \in DOMAIN t /\ t[down(i)] = f
          /\ j # p /\ down(j) \in DOMAIN t /\ t[down(j)] = g
      BY <1>1, <1>4, <2>1
    <3>2. down(i) < down(j)
      BY <1>1, <1>6, <2>1, <3>1
    <3> QED
      BY <3>1, <3>2
  <2>2. ASSUME NEW i \in DOMAIN t, NEW j \in DOMAIN t, i < j, t[i] = f, t[j] = g
        PROVE  \E x, y \in DOMAIN s : x < y /\ s[x] = f /\ s[y] = g
    <3>1. /\ up(i) \in DOMAIN s /\ s[up(i)] = f /\ up(j) \in DOMAIN s /\ s[up(j)] = g
          /\ up(i) < up(j)
      BY <1>1, <1>3, <1>5, <2>2
    <3> QED
      BY <3>1
  <2> QED
    BY <2>1, <2>2
<1> DEFINE Pairs(r) == {o \in Foreign \X Foreign :
                          \E i, j \in DOMAIN r : i < j /\ r[i] = o[1] /\ r[j] = o[2]}
<1>9. Pairs(s) = Pairs(t)
  <2>1. ASSUME NEW o \in Foreign \X Foreign
        PROVE  o \in Pairs(s) <=> o \in Pairs(t)
    <3>1. o[1] \in Foreign /\ o[2] \in Foreign
      OBVIOUS
    <3> QED
      BY <1>8, <3>1
  <2> QED
    BY <2>1
<1>10. {f \in Foreign : Contains(s, f)} = {f \in Foreign : Contains(t, f)}
  BY <1>7
<1> QED
  BY <1>9, <1>10, Zenon DEF Unrelated, s, t

\* What the jumps' insertions and deletions do to INPUT.
LEMMA JumpCommands ==
  ASSUME NEW k \in Kernel, NEW c \in Jumps
  PROVE  /\ Unrelated(InsertInputJump(k, c)) = Unrelated(k)
         /\ Contains(k.input, c) => Unrelated(DeleteInputJump(k, c)) = Unrelated(k)
<1>1. k.input \in Seq(InputRules) /\ c \in InputRules /\ Len(k.input) \in Nat
  BY LenProperties DEF Kernel, InputRules
<1>2. Unrelated(InsertInputJump(k, c)) = Unrelated(k)
  <2> DEFINE t == <<c>> \o k.input
  <2>1. /\ Len(t) = Len(k.input) + 1 /\ t[1] = c
        /\ \A i \in 1 .. Len(k.input) : t[i + 1] = k.input[i]
    BY <1>1, ConsProps
  <2> HIDE DEF t
  <2>2. 1 \in 1 .. Len(t) /\ \A i \in 1 .. Len(k.input) : ~ (i < 1)
    BY <1>1, <2>1
  <2>3. OneJumpMore(t, k.input)
    BY <2>1, <2>2 DEF OneJumpMore
  <2>4. InsertInputJump(k, c).input = t
    BY DEF InsertInputJump, Kernel, t
  <2>5. InsertInputJump(k, c) \in Kernel
    <3>1. t \in Seq(Jumps \cup Foreign)
      BY <1>1, ConsProps DEF t, InputRules
    <3> QED
      BY <3>1 DEF InsertInputJump, Kernel, t
  <2> QED
    BY <2>3, <2>4, <2>5, JumpIsNotForeign
<1>3. ASSUME Contains(k.input, c)
      PROVE  Unrelated(DeleteInputJump(k, c)) = Unrelated(k)
  <2>1. PICK p \in 1 .. Len(k.input) :
          k.input[p] = c /\ DeleteInputJump(k, c).input = RemoveAt(k.input, p)
    BY <1>3, DeleteInputJumpEffect
  <2>2. /\ Len(RemoveAt(k.input, p)) = Len(k.input) - 1
        /\ \A i \in 1 .. (Len(k.input) - 1) :
             RemoveAt(k.input, p)[i] = IF i < p THEN k.input[i] ELSE k.input[i + 1]
    BY <1>1, RemoveAtProps
  <2>3. OneJumpMore(k.input, RemoveAt(k.input, p))
    BY <1>1, <2>1, <2>2 DEF OneJumpMore
  <2>4. DeleteInputJump(k, c) \in Kernel
    BY <1>3, DeleteInputJumpEffect
  <2> QED
    BY <2>1, <2>3, <2>4, JumpIsNotForeign
<1> QED
  BY <1>2, <1>3

\* A command of a cleanup, too, has its effect or none.
LEMMA CleanupEffect ==
  ASSUME NEW STATE p, NEW STATE pre, NEW STATE new, NEW STATE next,
         Attempt(p, pre, new, next)
  PROVE  fw' = fw \/ fw' = new
BY Zenon DEF Attempt

\* All that a command of Kidobo's does to INPUT is to insert or delete a jump.
LEMMA CommandsOnInput ==
  ASSUME TypeOK, SyncStep \/ CleanupStep
  PROVE  \/ fw'.input = fw.input
         \/ \E c \in Jumps : fw' = InsertInputJump(fw, c)
         \/ \E c \in Jumps : Contains(fw.input, c) /\ fw' = DeleteInputJump(fw, c)
<1>1. fw \in Kernel /\ STABLE \in Jumps /\ STAGING \in Jumps
  BY DEF TypeOK, Jumps
<1>2. \A c \in Jumps : /\ EnsureChain(fw, c).input = fw.input
                       /\ FlushChain(fw, c).input = fw.input
                       /\ DeleteChain(fw, c).input = fw.input
  BY <1>1 DEF EnsureChain, FlushChain, DeleteChain, Kernel
<1>3. /\ AppendRule(fw, plan).input = fw.input
      /\ DeleteFirstRule(fw).input = fw.input
      /\ AppendJump(fw).input = fw.input
      /\ DeleteFirstJump(fw).input = fw.input
      /\ CreateSet(fw, plan.set).input = fw.input
      /\ DestroySet(fw, plan.set).input = fw.input
  BY <1>1 DEF AppendRule, DeleteFirstRule, AppendJump, DeleteFirstJump, CreateSet,
              DestroySet, Kernel
<1>4. CASE \/ EnsureIpsetExists \/ EnsureFirewallArtifacts \/ ReplaceSet
           \/ EnsureStableChain \/ AppendChainRule \/ DeleteOldRule
           \/ EnsureStagingChain \/ AppendStagingJump \/ DeleteOldJump
           \/ FlushStagingChain \/ DeleteStagingChain \/ VerifyWiring
  <2>1. \/ fw' = fw
        \/ fw' = CreateSet(fw, plan.set)
        \/ fw' = EnsureChain(fw, STABLE)
        \/ fw' = AppendRule(fw, plan)
        \/ fw' = DeleteFirstRule(fw)
        \/ fw' = EnsureChain(fw, STAGING)
        \/ fw' = AppendJump(fw)
        \/ fw' = DeleteFirstJump(fw)
        \/ fw' = FlushChain(fw, STAGING)
        \/ fw' = DeleteChain(fw, STAGING)
    BY <1>4, SyncEffect
    DEF EnsureIpsetExists, EnsureFirewallArtifacts, ReplaceSet, EnsureStableChain,
        AppendChainRule, DeleteOldRule, EnsureStagingChain, AppendStagingJump,
        DeleteOldJump, FlushStagingChain, DeleteStagingChain, VerifyWiring
  <2> QED
    BY <1>1, <1>2, <1>3, <2>1
<1>5. CASE InsertStagingJump \/ InsertStableJump
  <2>1. \/ fw' = fw
        \/ fw' = InsertInputJump(fw, STAGING)
        \/ fw' = InsertInputJump(fw, STABLE)
    BY <1>5, SyncEffect DEF InsertStagingJump, InsertStableJump
  <2> QED
    BY <1>1, <2>1
<1>6. CASE RemoveStableJumps \/ RemoveStagingJumps
  <2>1. \/ fw' = fw
        \/ Contains(fw.input, STABLE) /\ fw' = DeleteInputJump(fw, STABLE)
        \/ Contains(fw.input, STAGING) /\ fw' = DeleteInputJump(fw, STAGING)
    BY <1>6, SyncEffect DEF RemoveStableJumps, RemoveStagingJumps
  <2> QED
    BY <1>1, <2>1
<1>7. CASE UnhookStaging \/ UnhookStable
  <2>1. \/ fw' = fw
        \/ Contains(fw.input, STABLE) /\ fw' = DeleteInputJump(fw, STABLE)
        \/ Contains(fw.input, STAGING) /\ fw' = DeleteInputJump(fw, STAGING)
    BY <1>7, CleanupEffect DEF UnhookStaging, UnhookStable, Unhook
  <2> QED
    BY <1>1, <2>1
<1>8. CASE ClearStaging \/ DropStaging \/ ClearStable \/ DropStable \/ DestroyIpset
  <2>1. \/ fw' = fw
        \/ fw' = FlushChain(fw, STAGING)
        \/ fw' = DeleteChain(fw, STAGING)
        \/ fw' = FlushChain(fw, STABLE)
        \/ fw' = DeleteChain(fw, STABLE)
        \/ fw' = DestroySet(fw, plan.set)
    BY <1>8, CleanupEffect
    DEF ClearStaging, DropStaging, ClearStable, DropStable, DestroyIpset
  <2> QED
    BY <1>1, <1>2, <1>3, <2>1
<1> QED
  BY <1>4, <1>5, <1>6, <1>7, <1>8 DEF SyncStep, CleanupStep

\* No command of a sync or a cleanup, whatever earlier runs left behind and
\* other tools do in between, adds, deletes, doubles or reorders a rule of INPUT
\* that is not Kidobo's: the numbered deletions never touch INPUT, and the loop
\* that empties it of jumps deletes by specification.
THEOREM OthersKeepTheirRules == Spec => ForeignUntouched
<1>1. ASSUME TypeOK, SyncStep \/ CleanupStep
      PROVE  Unrelated(fw') = Unrelated(fw)
  <2>1. fw \in Kernel
    BY <1>1 DEF TypeOK
  <2>2. CASE fw'.input = fw.input
    BY <2>2 DEF Unrelated
  <2> QED
    BY <1>1, <2>1, <2>2, CommandsOnInput, JumpCommands, Zenon
<1>2. TypeOK /\ [Next]_vars =>
        [SyncStep \/ CleanupStep => Unrelated(fw') = Unrelated(fw)]_vars
  BY <1>1
<1> QED
  BY <1>2, TypeCorrect, PTL DEF Spec, ForeignUntouched
=============================================================================
