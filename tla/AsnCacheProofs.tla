--------------------------- MODULE AsnCacheProofs ---------------------------
(***************************************************************************)
(* Proofs about AsnCache for any ASNs, prefixes, answers of bgpq4, cache   *)
(* files, clock readings, commands and number of faults.                   *)
(***************************************************************************)
EXTENDS AsnCache, SequencesExt, TLAPS, SequenceTheorems, WellFoundedInduction

\* A nonempty set of naturals has a least element.
LEMMA LeastNatural ==
  ASSUME NEW S, S \subseteq Nat, S # {}
  PROVE  \E x \in S : \A y \in S : x <= y
<1>1. PICK x \in S : \A y \in S : ~ (<<y, x>> \in OpToRel(<, Nat))
  BY NatLessThanWellFounded, WFMin
<1>2. ASSUME NEW y \in S
      PROVE  x <= y
  <2>1. <<y, x>> \in OpToRel(<, Nat) <=> <<y, x>> \in Nat \X Nat /\ y < x
    BY Zenon DEF OpToRel
  <2>2. ~ (<<y, x>> \in Nat \X Nat /\ y < x)
    BY <1>1, <2>1, Zenon
  <2> QED
    BY <2>2
<1> QED
  BY <1>2

(***************************************************************************)
(* The inductive invariant.  Types: what the proofs need of the variables. *)
(* LoadInv: while a command loads, the cache of every ASN it has not come  *)
(* to is as the command found it.  GotInv: what a sync or a ban has loaded *)
(* of an ASN is what the ASN's cache file holds now, be it read or just    *)
(* written.  StepInv: how far a command has come says which command it is, *)
(* and that it has loaded every ASN.  ErrorInv: loading failed because of  *)
(* an ASN without a usable cache.                                          *)
(***************************************************************************)
Types ==
  /\ file \in [Asns -> CacheFiles]
  /\ banned \subseteq Asns /\ temp \subseteq Asns
  /\ cmd.kind \in {"sync", "preview", "ban", "unban"}
  /\ cmd.asns \subseteq Asns
  /\ todo \subseteq cmd.asns
  /\ held \subseteq AllPrefixes
  /\ now \in 0 .. MaxTime

Loading == {"load", "v4", "v6", "save"}

LoadInv ==
  /\ pc \in Loading =>
       /\ cmd.kind # "unban"
       /\ DOMAIN got = cmd.asns \ todo
       /\ \A a \in todo : file[a] = before[a]
  /\ pc \in {"v4", "v6", "save"} => todo # {}
  /\ pc = "save" => held # {}

GotInv ==
  cmd.kind \in {"sync", "ban"} =>
    /\ DOMAIN got \subseteq cmd.asns
    /\ \A a \in DOMAIN got : got[a].prefixes # {} /\ got[a].prefixes = CacheOf(file[a])

StepInv ==
  /\ pc \in {"dedupe", "finish"} => cmd.kind = "ban" /\ DOMAIN got = cmd.asns
  /\ pc = "dedupe" => cmd.asns \subseteq banned
  /\ pc \in {"untemp", "unban", "delete"} => cmd.kind = "unban"
  /\ pc = "idle" /\ res = "ok" /\ cmd.kind = "sync" => DOMAIN got = cmd.asns

ErrorInv ==
  pc = "idle" /\ res = "ResolveFailed" => \E a \in cmd.asns : ~ Usable(before[a])

IInv == Types /\ LoadInv /\ GotInv /\ StepInv /\ ErrorInv

-----------------------------------------------------------------------------
\* The ASN that is next is one of those left.
LEMMA NextAsn ==
  ASSUME NEW S \in SUBSET Nat, S # {}
  PROVE  (CHOOSE a \in S : \A b \in S : a <= b) \in S
<1>1. PICK m \in S : \A b \in S : m <= b
  BY LeastNatural
<1> QED
  BY <1>1

LEMMA AsnIsLeft ==
  ASSUME Types, todo # {}
  PROVE  Asn \in todo /\ Asn \in Asns
<1>1. todo \in SUBSET Nat
  BY AsnAssumption DEF Types
<1> QED
  BY <1>1, NextAsn, Zenon DEF Asn, Types

\* At boot nothing is loaded.
LEMMA InitIInv == Init => IInv
<1> SUFFICES ASSUME Init PROVE IInv
  OBVIOUS
<1>1. Types
  BY FileAssumption, BoundAssumption DEF Init, Types
<1>2. LoadInv /\ GotInv /\ StepInv /\ ErrorInv
  BY DEF Init, LoadInv, GotInv, StepInv, ErrorInv, Loading
<1> QED
  BY <1>1, <1>2 DEF IInv

\* A command that starts has nothing loaded and remembers the caches.
LEMMA BeginIInv ==
  ASSUME IInv, NEW c, NEW next, Begin(c, next),
         c.kind \in {"sync", "preview", "ban", "unban"}, c.asns \subseteq Asns,
         next = IF c.kind = "unban" THEN "untemp" ELSE "load"
  PROVE  IInv'
<1>1. /\ pc' = next /\ cmd' = c /\ todo' = c.asns /\ held' = {} /\ got' = <<>>
      /\ res' = "running" /\ before' = file
      /\ file' = file /\ banned' = banned /\ temp' = temp /\ now' = now
  BY DEF Begin, Step, files
<1>2. DOMAIN got' = {}
  BY <1>1
<1>3. Types'
  BY <1>1 DEF IInv, Types
<1>4. LoadInv'
  BY <1>1, <1>2 DEF LoadInv, Loading
<1>5. GotInv' /\ StepInv' /\ ErrorInv'
  BY <1>1, <1>2 DEF GotInv, StepInv, ErrorInv
<1> QED
  BY <1>3, <1>4, <1>5 DEF IInv

LEMMA StartIInv ==
  ASSUME IInv, StartSync \/ StartPreview \/ StartBan \/ StartUnban
  PROVE  IInv'
<1>1. banned \cup temp \subseteq Asns
  BY DEF IInv, Types
<1>2. ASSUME NEW S \in ValidRequests PROVE S \subseteq Asns
  <2>1. PICK t \in Requests : S = Range(t) /\ \A i \in DOMAIN t : ValidToken(t[i])
    BY <1>2 DEF ValidRequests
  <2>2. t \in Seq(Asns \cup {0})
    BY <2>1, RequestAssumption
  <2>3. \A i \in DOMAIN t : t[i] \in Asns
    BY <2>1, <2>2 DEF ValidToken
  <2> QED
    BY <2>1, <2>3 DEF Range
<1>3. CASE StartSync
  BY <1>1, <1>3, BeginIInv DEF StartSync
<1>4. CASE StartPreview
  BY <1>1, <1>4, BeginIInv DEF StartPreview
<1>5. CASE StartBan
  BY <1>2, <1>5, BeginIInv DEF StartBan
<1>6. CASE StartUnban
  BY <1>2, <1>6, BeginIInv DEF StartUnban
<1> QED
  BY <1>3, <1>4, <1>5, <1>6

\* A command that ends keeps what it has loaded; the file states are typed and
\* a success comes after the last ASN.
LEMMA EndIInv ==
  ASSUME IInv, NEW outcome, End(outcome),
         file' = file, banned' \subseteq Asns, temp' \subseteq Asns, now' = now,
         outcome = "ok" /\ cmd.kind = "sync" => DOMAIN got = cmd.asns,
         outcome = "ResolveFailed" => \E a \in cmd.asns : ~ Usable(before[a])
  PROVE  IInv'
<1>1. pc' = "idle" /\ res' = outcome /\ UNCHANGED <<cmd, todo, held, got, before, started>>
  BY DEF End, Step
<1>2. Types'
  BY <1>1 DEF IInv, Types
<1>3. LoadInv' /\ StepInv' /\ ErrorInv'
  BY <1>1 DEF LoadInv, StepInv, ErrorInv, Loading
<1>4. GotInv'
  BY <1>1 DEF IInv, GotInv
<1> QED
  BY <1>2, <1>3, <1>4 DEF IInv

\* A loaded ASN joins those loaded before.
LEMMA TakeIInv ==
  ASSUME IInv, pc \in Loading, todo # {}, NEW prefixes, NEW stale, NEW origin,
         Take(prefixes, stale, origin),
         file' \in [Asns -> CacheFiles], \A a \in todo \ {Asn} : file'[a] = file[a],
         \A a \in DOMAIN got : file'[a] = file[a],
         UNCHANGED <<banned, temp, now>>,
         cmd.kind # "preview" => prefixes # {} /\ prefixes = CacheOf(file'[Asn])
  PROVE  IInv'
<1> DEFINE new == [prefixes |-> prefixes, stale |-> stale, source |-> origin]
<1>1. /\ got' = [a \in DOMAIN got \cup {Asn} |-> IF a = Asn THEN new ELSE got[a]]
      /\ todo' = todo \ {Asn} /\ held' = {} /\ pc' = "load"
      /\ UNCHANGED <<cmd, res, before, started>>
  BY DEF Take, Step
<1>2. Asn \in todo /\ todo \subseteq cmd.asns /\ DOMAIN got = cmd.asns \ todo
  BY AsnIsLeft DEF IInv, Types, LoadInv
<1>3. new.prefixes = prefixes
  OBVIOUS
<1> HIDE DEF new
<1>4. DOMAIN got' = DOMAIN got \cup {Asn}
  BY <1>1
<1>5. \A a \in DOMAIN got : got'[a] = got[a]
  BY <1>1, <1>2
<1>6. got'[Asn] = new
  BY <1>1
<1>7. Types'
  BY <1>1 DEF IInv, Types
<1>8. LoadInv'
  BY <1>1, <1>2, <1>4 DEF IInv, LoadInv, Loading
<1>9. GotInv'
  <2> SUFFICES ASSUME cmd.kind \in {"sync", "ban"}
               PROVE  /\ DOMAIN got' \subseteq cmd.asns
                      /\ \A a \in DOMAIN got' : /\ got'[a].prefixes # {}
                                                /\ got'[a].prefixes = CacheOf(file'[a])
    BY <1>1 DEF GotInv
  <2>1. DOMAIN got' \subseteq cmd.asns
    BY <1>2, <1>4
  <2>2. ASSUME NEW a \in DOMAIN got
        PROVE  got'[a].prefixes # {} /\ got'[a].prefixes = CacheOf(file'[a])
    BY <1>5, <2>2 DEF IInv, GotInv
  <2>3. got'[Asn].prefixes # {} /\ got'[Asn].prefixes = CacheOf(file'[Asn])
    BY <1>3, <1>6
  <2> QED
    BY <1>4, <2>1, <2>2, <2>3
<1>10. StepInv' /\ ErrorInv'
  BY <1>1 DEF StepInv, ErrorInv
<1> QED
  BY <1>7, <1>8, <1>9, <1>10 DEF IInv

\* An outage is bridged with the cache, which no step has changed since the
\* command started, or ends the command.
LEMMA UnresolvedIInv ==
  ASSUME IInv, pc \in Loading, todo # {}, Unresolved, UNCHANGED <<files, now>>
  PROVE  IInv'
<1>1. Asn \in todo /\ Asn \in cmd.asns /\ file[Asn] = before[Asn]
  BY AsnIsLeft DEF IInv, Types, LoadInv
<1>2. file' = file /\ banned' = banned /\ temp' = temp /\ now' = now
  BY DEF files
<1>3. file \in [Asns -> CacheFiles] /\ banned \subseteq Asns /\ temp \subseteq Asns
  BY DEF IInv, Types
<1>4. CASE Usable(file[Asn])
  <2>1. Take(file[Asn].lines, TRUE, "FallbackCache")
    BY <1>4 DEF Unresolved
  <2>2. CacheOf(file[Asn]) = file[Asn].lines /\ file[Asn].lines # {}
    BY <1>4 DEF CacheOf, Usable
  <2> QED
    BY <1>2, <1>3, <2>1, <2>2, TakeIInv
<1>5. CASE ~ Usable(file[Asn])
  <2>1. End("ResolveFailed")
    BY <1>5 DEF Unresolved
  <2>2. \E a \in cmd.asns : ~ Usable(before[a])
    BY <1>1, <1>5
  <2> QED
    BY <1>2, <1>3, <2>1, <2>2, EndIInv
<1> QED
  BY <1>4, <1>5

\* Reading a cache and calling bgpq4: a usable cache is taken, an answer is
\* held, an unreadable file or an absent cache without a resolver ends it.
LEMMA ReadIInv ==
  ASSUME IInv, ReadCache
  PROVE  IInv'
<1>1. /\ pc = "load" /\ pc \in Loading /\ todo # {}
      /\ file' = file /\ banned' = banned /\ temp' = temp /\ now' = now
  BY DEF ReadCache, files, Loading
<1>2. /\ Asn \in todo /\ Asn \in cmd.asns /\ file[Asn] = before[Asn]
      /\ file \in [Asns -> CacheFiles] /\ banned \subseteq Asns /\ temp \subseteq Asns
  BY <1>1, AsnIsLeft DEF IInv, Types, LoadInv
<1>3. CASE End("CacheRead")
  BY <1>1, <1>2, <1>3, EndIInv
<1>4. CASE Usable(file[Asn]) /\ Take(file[Asn].lines, Stale(file[Asn]), "Cache")
  <2>1. CacheOf(file[Asn]) = file[Asn].lines /\ file[Asn].lines # {}
    BY <1>4 DEF CacheOf, Usable
  <2> QED
    BY <1>1, <1>2, <1>4, <2>1, TakeIInv
<1>5. CASE ~ Usable(file[Asn]) /\ End("ResolveFailed")
  <2>1. \E a \in cmd.asns : ~ Usable(before[a])
    BY <1>2, <1>5
  <2> QED
    BY <1>1, <1>2, <1>5, <2>1, EndIInv
<1>6. CASE Step("v4") /\ UNCHANGED <<cmd, todo, held, got, res, before, started>>
  BY <1>1, <1>6
  DEF Step, IInv, Types, LoadInv, GotInv, StepInv, ErrorInv, Loading
<1> QED
  BY <1>3, <1>4, <1>5, <1>6 DEF ReadCache

LEMMA ResolveIInv ==
  ASSUME IInv, ResolveV4 \/ ResolveV6
  PROVE  IInv'
<1>1. /\ pc \in {"v4", "v6"} /\ pc \in Loading /\ todo # {}
      /\ UNCHANGED <<files, now>>
      /\ file' = file /\ banned' = banned /\ temp' = temp /\ now' = now
  BY DEF ResolveV4, ResolveV6, files, IInv, LoadInv, Loading
<1>2. CASE Unresolved
  BY <1>1, <1>2, UnresolvedIInv
<1>3. ASSUME NEW result \in Answers, Answered(result, V4), held' = result.stdout,
             Step("v6"), UNCHANGED <<cmd, todo, got, res, before, started>>
      PROVE  IInv'
  <2>1. held' \subseteq AllPrefixes
    BY <1>3 DEF Answered, ValidOutput, AllPrefixes
  <2> QED
    BY <1>1, <1>3, <2>1
    DEF Step, IInv, Types, LoadInv, GotInv, StepInv, ErrorInv, Loading
<1>4. ASSUME NEW result \in Answers, Answered(result, V6),
             held' = held \cup result.stdout, held' # {},
             Step("save"), UNCHANGED <<cmd, todo, got, res, before, started>>
      PROVE  IInv'
  <2>1. held' \subseteq AllPrefixes
    BY <1>4 DEF Answered, ValidOutput, AllPrefixes, IInv, Types
  <2> QED
    BY <1>1, <1>4, <2>1
    DEF Step, IInv, Types, LoadInv, GotInv, StepInv, ErrorInv, Loading
<1>5. CASE ResolveV4
  BY <1>2, <1>3, <1>5 DEF ResolveV4
<1>6. CASE ResolveV6
  <2>1. PICK result \in Answers :
          \/ /\ Answered(result, V6) /\ held \cup result.stdout # {}
             /\ held' = held \cup result.stdout
             /\ Step("save")
             /\ UNCHANGED <<cmd, todo, got, res, before, started>>
          \/ Unresolved
    BY <1>6 DEF ResolveV6
  <2> QED
    BY <1>2, <1>4, <2>1
<1> QED
  BY <1>5, <1>6

\* What is saved is found again: the answer has a prefix and no bad line.
LEMMA SaveIInv ==
  ASSUME IInv, SaveCache \/ CheckCache
  PROVE  IInv'
<1>1. /\ pc = "save" /\ pc \in Loading /\ todo # {} /\ held # {}
      /\ Asn \in todo /\ Asn \in Asns /\ DOMAIN got = cmd.asns \ todo
      /\ file \in [Asns -> CacheFiles] /\ banned \subseteq Asns /\ temp \subseteq Asns
      /\ held \subseteq AllPrefixes /\ now \in 0 .. MaxTime
      /\ cmd.asns \subseteq Asns /\ todo \subseteq cmd.asns
  BY AsnIsLeft DEF SaveCache, CheckCache, IInv, Types, LoadInv, Loading
<1> DEFINE saved == [state |-> "text", lines |-> held, modified |-> now]
<1>2. /\ Replaced(Asn) \in [Asns -> CacheFiles]
      /\ Replaced(Asn)[Asn] = saved
      /\ \A a \in Asns \ {Asn} : Replaced(Asn)[a] = file[a]
  <2>1. saved \in CacheFiles
    BY <1>1 DEF CacheFiles, Lines
  <2>2. Replaced(Asn) = [file EXCEPT ![Asn] = saved]
    BY DEF Replaced
  <2> HIDE DEF saved
  <2> QED
    BY <1>1, <2>1, <2>2
<1>3. CacheOf(saved) = held
  <2>1. Junk \notin held
    BY <1>1, FamilyAssumption
  <2> QED
    BY <1>1, <2>1 DEF CacheOf, Usable
<1> HIDE DEF saved
<1>4. CASE /\ file' = Replaced(Asn) /\ Take(held, FALSE, "Network")
           /\ UNCHANGED <<banned, temp, now>>
  <2>1. \A a \in todo \ {Asn} : file'[a] = file[a]
    BY <1>1, <1>2, <1>4
  <2>2. \A a \in DOMAIN got : file'[a] = file[a]
    BY <1>1, <1>2, <1>4
  <2>3. held = CacheOf(file'[Asn])
    BY <1>2, <1>3, <1>4
  <2> QED
    BY <1>1, <1>2, <1>4, <2>1, <2>2, <2>3, TakeIInv
<1>5. CASE /\ file' \in {file, Replaced(Asn)} /\ End("CacheWrite")
           /\ UNCHANGED <<banned, temp, now>>
  <2>1. file' \in [Asns -> CacheFiles] /\ \A a \in DOMAIN got : file'[a] = file[a]
    BY <1>1, <1>2, <1>5
  <2>2. /\ pc' = "idle" /\ res' = "CacheWrite"
        /\ UNCHANGED <<cmd, todo, held, got, before, started>>
    BY <1>5 DEF End, Step
  <2>3. Types'
    BY <1>5, <2>1, <2>2 DEF IInv, Types
  <2>4. GotInv'
    BY <2>1, <2>2 DEF IInv, GotInv
  <2>5. LoadInv' /\ StepInv' /\ ErrorInv'
    BY <2>2 DEF LoadInv, StepInv, ErrorInv, Loading
  <2> QED
    BY <2>3, <2>4, <2>5 DEF IInv
<1>6. CASE CheckCache
  <2>1. /\ cmd.kind = "preview"
        /\ file' = file /\ banned' = banned /\ temp' = temp /\ now' = now
        /\ Take(held, FALSE, "Network") \/ End("CacheWrite")
    BY <1>6 DEF CheckCache, files
  <2> QED
    BY <1>1, <2>1, TakeIInv, EndIInv
<1>7. CASE SaveCache
  BY <1>4, <1>5, <1>7 DEF SaveCache
<1> QED
  BY <1>6, <1>7

\* A command's update of its files: it succeeds and leads on, or ends it.
LEMMA BanIInv ==
  ASSUME IInv, FinishLoad \/ BanTemporarily \/ BanPermanently
  PROVE  IInv'
<1>1. /\ pc = "load" /\ DOMAIN got = cmd.asns /\ file' = file /\ now' = now
      /\ file \in [Asns -> CacheFiles] /\ banned \subseteq Asns /\ temp \subseteq Asns
      /\ cmd.asns \subseteq Asns
  BY DEF FinishLoad, BanTemporarily, BanPermanently, Loaded, files, IInv, Types,
         LoadInv, Loading
<1>2. CASE End("ok") /\ banned' = banned /\ temp' = temp
  BY <1>1, <1>2, EndIInv
<1>3. CASE FinishLoad
  BY <1>2, <1>3 DEF FinishLoad, files
<1>4. CASE End("StateWrite") /\ banned' \subseteq Asns /\ temp' \subseteq Asns
  BY <1>1, <1>4, EndIInv
<1>5. CASE BanTemporarily
  <2>1. cmd.kind = "ban" /\ banned' = banned
    BY <1>5 DEF BanTemporarily
  <2>2. CASE Update(temp, temp \cup (cmd.asns \ banned), "finish")
    <3>1. CASE /\ temp' = temp \cup (cmd.asns \ banned) /\ pc' = "finish"
               /\ UNCHANGED <<cmd, todo, held, got, res, before, started, faults>>
      BY <1>1, <2>1, <3>1 DEF IInv, Types, LoadInv, GotInv, StepInv, ErrorInv, Loading
    <3>2. CASE temp' \in {temp, temp \cup (cmd.asns \ banned)} /\ End("StateWrite")
      BY <1>1, <1>4, <2>1, <3>2
    <3> QED
      BY <2>2, <3>1, <3>2 DEF Update, Step
  <2> QED
    BY <1>2, <1>5, <2>1, <2>2 DEF BanTemporarily
<1>6. CASE BanPermanently
  <2>1. cmd.kind = "ban" /\ temp' = temp /\ Update(banned, banned \cup cmd.asns, "dedupe")
    BY <1>6 DEF BanPermanently
  <2>2. CASE /\ banned' = banned \cup cmd.asns /\ pc' = "dedupe"
             /\ UNCHANGED <<cmd, todo, held, got, res, before, started, faults>>
    BY <1>1, <2>1, <2>2 DEF IInv, Types, LoadInv, GotInv, StepInv, ErrorInv, Loading
  <2>3. CASE banned' \in {banned, banned \cup cmd.asns} /\ End("StateWrite")
    BY <1>1, <1>4, <2>1, <2>3
  <2> QED
    BY <2>1, <2>2, <2>3 DEF Update, Step
<1> QED
  BY <1>3, <1>5, <1>6

\* An unban loads nothing, so the caches it deletes are nobody's.
LEMMA UnbanIInv ==
  ASSUME IInv, UnbanTemporary \/ UnbanConfigured \/ DeleteCache
  PROVE  IInv'
<1>1. /\ pc \in {"untemp", "unban", "delete"} /\ cmd.kind = "unban" /\ now' = now
      /\ file \in [Asns -> CacheFiles] /\ banned \subseteq Asns /\ temp \subseteq Asns
      /\ cmd.asns \subseteq Asns
  BY DEF UnbanTemporary, UnbanConfigured, DeleteCache, IInv, Types, StepInv
<1>2. ASSUME file' \in [Asns -> CacheFiles], banned' \subseteq Asns, temp' \subseteq Asns,
             todo' \subseteq todo, UNCHANGED <<cmd, held, got, before, started>>,
             \/ pc' \in {"unban", "delete"}
             \/ pc' = "idle" /\ res' = "StateWrite"
      PROVE  IInv'
  BY <1>1, <1>2 DEF IInv, Types, LoadInv, GotInv, StepInv, ErrorInv, Loading
<1>3. CASE UnbanTemporary
  <2>1. file' = file /\ banned' = banned
    BY <1>3 DEF UnbanTemporary
  <2>2. PICK next \in {"unban", "delete"} :
          \/ /\ pc' = next
             /\ UNCHANGED <<temp, cmd, todo, held, got, res, before, started, faults>>
          \/ Update(temp, temp \ cmd.asns, next)
    BY <1>3 DEF UnbanTemporary, Step
  <2>3. \/ /\ temp' = temp \ cmd.asns /\ pc' = next
           /\ UNCHANGED <<cmd, todo, held, got, res, before, started, faults>>
        \/ temp' = temp /\ pc' = next
           /\ UNCHANGED <<cmd, todo, held, got, res, before, started, faults>>
        \/ temp' \in {temp, temp \ cmd.asns} /\ End("StateWrite")
    BY <2>2 DEF Update, Step
  <2>4. temp' \subseteq Asns
    BY <1>1, <2>3
  <2> QED
    BY <1>1, <1>2, <2>1, <2>3, <2>4 DEF End, Step
<1>4. CASE UnbanConfigured
  <2>1. /\ file' = file /\ temp' = temp
        /\ \/ /\ banned' = banned \ cmd.asns /\ pc' = "delete"
              /\ UNCHANGED <<cmd, todo, held, got, res, before, started, faults>>
           \/ banned' \in {banned, banned \ cmd.asns} /\ End("StateWrite")
    BY <1>4 DEF UnbanConfigured, Update, Step
  <2>2. banned' \subseteq Asns
    BY <1>1, <2>1
  <2> QED
    BY <1>1, <1>2, <2>1, <2>2 DEF End, Step
<1>5. CASE DeleteCache
  <2>1. /\ file' \in {file, [file EXCEPT ![Asn] = Missing]} /\ todo' = todo \ {Asn}
        /\ pc = "delete"
        /\ UNCHANGED <<banned, temp, now, pc, cmd, held, got, res, before, started>>
    BY <1>5 DEF DeleteCache
  <2>2. Missing \in CacheFiles
    BY DEF CacheFiles
  <2>3. file' \in [Asns -> CacheFiles]
    BY <1>1, <2>1, <2>2
  <2> QED
    BY <1>1, <1>2, <2>1, <2>3
<1> QED
  BY <1>3, <1>4, <1>5

\* The steps that end a command, and those of the clock.
LEMMA OtherIInv ==
  ASSUME IInv,
         \/ RejectTokens \/ Cancel \/ RemoveExactDuplicates \/ Finish \/ Kill
         \/ SetClock \/ Expire
  PROVE  IInv'
<1>1. banned \subseteq Asns /\ temp \subseteq Asns
  BY DEF IInv, Types
<1>2. CASE RejectTokens
  BY <1>1, <1>2, EndIInv DEF RejectTokens, files
<1>3. CASE Cancel
  BY <1>1, <1>3, EndIInv DEF Cancel, files
<1>4. CASE Kill
  BY <1>1, <1>4, EndIInv DEF Kill, files
<1>5. CASE RemoveExactDuplicates
  <2>1. cmd.kind = "ban"
    BY <1>5 DEF RemoveExactDuplicates, IInv, StepInv
  <2> QED
    BY <1>1, <1>5, <2>1, EndIInv DEF RemoveExactDuplicates
<1>6. CASE Finish
  <2>1. cmd.kind \in {"ban", "unban"}
    BY <1>6 DEF Finish, IInv, StepInv
  <2> QED
    BY <1>1, <1>6, <2>1, EndIInv DEF Finish, files
<1>7. CASE SetClock \/ Expire
  <2>1. /\ UNCHANGED <<file, banned, pc, cmd, todo, held, got, res, before>>
        /\ temp' \subseteq temp /\ now' \in 0 .. MaxTime
    BY <1>7 DEF SetClock, Expire, files, IInv, Types
  <2>2. Types'
    BY <2>1 DEF IInv, Types
  <2>3. GotInv'
    BY <2>1 DEF IInv, GotInv
  <2>4. LoadInv' /\ StepInv' /\ ErrorInv'
    BY <2>1 DEF IInv, LoadInv, StepInv, ErrorInv
  <2> QED
    BY <2>2, <2>3, <2>4 DEF IInv
<1> QED
  BY <1>2, <1>3, <1>4, <1>5, <1>6, <1>7

LEMMA NextIInv == IInv /\ [Next]_vars => IInv'
<1> SUFFICES ASSUME IInv, [Next]_vars PROVE IInv'
  OBVIOUS
<1>1. CASE UNCHANGED vars
  <2>1. UNCHANGED <<file, banned, temp, now, pc, cmd, todo, held, got, res, before>>
    BY <1>1 DEF vars, files
  <2>2. Types'
    BY <2>1 DEF IInv, Types
  <2>3. GotInv'
    BY <2>1 DEF IInv, GotInv
  <2>4. LoadInv' /\ StepInv' /\ ErrorInv'
    BY <2>1 DEF IInv, LoadInv, StepInv, ErrorInv
  <2> QED
    BY <2>2, <2>3, <2>4 DEF IInv
<1>2. CASE Next
  BY <1>2, StartIInv, ReadIInv, ResolveIInv, SaveIInv, BanIInv, UnbanIInv, OtherIInv
  DEF Next
<1> QED
  BY <1>1, <1>2

LEMMA InvariantHolds == Spec => []IInv
BY InitIInv, NextIInv, PTL DEF Spec

-----------------------------------------------------------------------------
\* A sync that loads its ASN bans has, for every one of them, a nonempty set of
\* prefixes that its cache holds for the next outage, and fails to load them
\* only for an ASN that had no usable cache when it started, however often
\* bgpq4 fails or answers nonsense and whatever is damaged or killed.
THEOREM OutagesLoseNoBan == Spec => []OutageBridged
<1>1. IInv => OutageBridged
  BY DEF IInv, GotInv, StepInv, ErrorInv, OutageBridged
<1> QED
  BY <1>1, InvariantHolds, PTL

\* No line leaves the local blocklist as a duplicate unless an ASN that is then
\* configured has the prefix in its cache.
THEOREM DuplicatesAreRedundant == Spec => DuplicatesStayCovered
<1>1. ASSUME IInv, [Next]_vars
      PROVE  list \ list' \subseteq UNION {CacheOf(file'[a]) : a \in banned'}
  <2>1. CASE list' = list
    BY <2>1
  <2>2. CASE RemoveExactDuplicates
    <3>1. /\ list \ list' \subseteq Repeated /\ file' = file /\ banned' = banned
          /\ pc = "dedupe"
      BY <2>2 DEF RemoveExactDuplicates
    <3>2. /\ DOMAIN got \subseteq banned
          /\ \A a \in DOMAIN got : got[a].prefixes = CacheOf(file[a])
      BY <1>1, <3>1 DEF IInv, GotInv, StepInv
    <3> QED
      BY <3>1, <3>2 DEF Repeated
  <2>3. list' = list \/ RemoveExactDuplicates
    BY <1>1
    DEF Next, vars, files, RejectTokens, StartSync, StartPreview, StartBan, StartUnban,
        Begin, Cancel, ReadCache, ResolveV4, ResolveV6, SaveCache, CheckCache, FinishLoad,
        BanTemporarily, BanPermanently, UnbanTemporary, UnbanConfigured, DeleteCache,
        Finish, Kill, SetClock, Expire
  <2> QED
    BY <2>1, <2>2, <2>3
<1>2. IInv /\ [Next]_vars =>
        [list \ list' \subseteq UNION {CacheOf(file'[a]) : a \in banned'}]_vars
  BY <1>1
<1> QED
  BY <1>2, InvariantHolds, PTL DEF Spec, DuplicatesStayCovered
=============================================================================
