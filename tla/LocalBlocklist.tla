---------------------------- MODULE LocalBlocklist ----------------------------
(***************************************************************************)
(* The text of the local blocklist: what each command makes of the lines   *)
(* (crates/kidobo-core/src/blocklist.rs), how the file is read and         *)
(* replaced (crates/kidobo-adapters/src/blocklist_file.rs and              *)
(* limited_io.rs), and the state beside it that lets a sync skip a file    *)
(* whose length and modification time it has seen.                         *)
(*                                                                         *)
(* The process lock (Bans) lets one command run at a time; an operator's   *)
(* editor takes no lock.  Reads and writes have a byte limit, a write may  *)
(* fail before or after it replaced the file, and the clock that stamps    *)
(* files is coarse: two changes may get one time.                          *)
(***************************************************************************)
EXTENDS Naturals, Sequences, FiniteSets
LOCAL INSTANCE SequencesExt

CONSTANTS
  Order,      \* the CIDRs, each the set of its addresses, as collapsing sorts them
  Limit,      \* BLOCKLIST_READ_LIMIT
  Texts,      \* contents the file has at the start or is edited to
  NoFile,     \* there is no file
  NoState,    \* no usable fast state
  Commands,   \* the commands
  MaxTime,    \* bound: modification times are in 1 .. MaxTime
  MaxEdits,   \* bound: edits by hand
  MaxFaults   \* bound: failed reads and writes, kills, lost sidecars

Nets == {Order[i] : i \in DOMAIN Order}

\* A line, with the CIDR it stands for; bare is an address without its length.
Entry(n, b) == [kind |-> "entry", net |-> n, bare |-> b]
Other(k) == [kind |-> k, net |-> {}, bare |-> FALSE]
Note == Other("note")
Blank == Other("blank")
Bad == Other("bad")     \* neither blank, nor a comment, nor one IP or CIDR
Lines == {Entry(n, b) : n \in Nets, b \in BOOLEAN} \cup {Note, Blank, Bad}

\* newline: the last line ends with one.
Text(ls, nl) == [lines |-> ls, newline |-> nl]
EmptyText == Text(<<>>, FALSE)

\* A ban and an unban take one target, or a file of them; a duplicate cleanup
\* follows the ban of an ASN; partial is the answer to "remove overlapping
\* entries too?".
CommandType ==
  [kind : {"ban"}, file : BOOLEAN, lines : Seq(Lines)]
    \cup [kind : {"unban"}, nets : SUBSET Nets, partial : BOOLEAN]
    \cup [kind : {"dedupe"}, nets : SUBSET Nets]
    \cup [kind : {"sync"}]

VARIABLES
  text,      \* the blocklist, or NoFile
  time,      \* its modification time
  fast,      \* the sidecar: [len, time], or NoState
  clock,     \* the time a change gets
  pc,        \* the next step, "idle", or "end"
  cmd,       \* the command
  doc,       \* the BlocklistDocument a ban loaded, until it has used it
  draft,     \* the contents it is going to write
  loaded,    \* the CIDRs a sync took from the file
  outcome,   \* how the last command ended
  edits,     \* edits so far
  faults,    \* faults so far
  before,    \* history: the file when the command started
  raced,     \* history: the file was edited while the command ran
  disturbed, \* history: a fault met the command
  blurred    \* history: a change may have escaped the fast state

vars == <<text, time, fast, clock, pc, cmd, doc, draft, loaded, outcome, edits,
          faults, before, raced, disturbed, blurred>>

file == <<text, time, fast, clock, edits, blurred>>
memory == <<cmd, doc, draft, loaded, before, raced>>

Init ==
  /\ text \in Texts
  /\ time = 1 /\ clock = 1
  /\ fast = NoState
  /\ pc = "idle"
  /\ cmd \in Commands
  /\ doc = EmptyText /\ draft = EmptyText
  /\ loaded = {}
  /\ outcome = "none"
  /\ edits = 0 /\ faults = 0
  /\ before = text
  /\ raced = FALSE /\ disturbed = FALSE /\ blurred = FALSE

-----------------------------------------------------------------------------
(***************************************************************************)
(* Lines.                                                                  *)
(***************************************************************************)

\* Bytes without the newline; a canonical address is longer than a bare one.
Width(l) ==
  CASE l.kind = "blank" -> 0
    [] l.kind = "entry" /\ ~ l.bare -> 3
    [] OTHER -> 2

Length(t) ==
  FoldLeft(LAMBDA n, l : n + Width(l) + 1, 0, t.lines)
    - (IF t.lines # <<>> /\ ~ t.newline THEN 1 ELSE 0)

IsEntry(l) == l.kind = "entry"
EntryNets(t) == {l.net : l \in {t.lines[i] : i \in {j \in DOMAIN t.lines : IsEntry(t.lines[j])}}}
Covered(t) == UNION EntryNets(t)

\* A missing file reads as an empty one.
Contents == IF text = NoFile THEN EmptyText ELSE text
Held(t) == IF t = NoFile THEN EmptyText ELSE t

\* The read limit, then BlocklistDocument::parse.
Readable(t) ==
  /\ Length(t) <= Limit
  /\ \A i \in DOMAIN t.lines : t.lines[i] # Bad

\* Lines joined by newlines, with one at the end unless nothing was joined.
Joined(ls) == IF ls \in {<<>>, <<Blank>>} THEN EmptyText ELSE Text(ls, TRUE)

\* canonical_entry_lines: sorted, and as few as cover the same addresses.
CanonicalEntries(t) ==
  LET inside == {n \in Nets : n \subseteq Covered(t)}
      fewest == {n \in inside : \A m \in inside : n \subseteq m => m = n}
      kept == SelectSeq(Order, LAMBDA n : n \in fewest)
  IN [i \in DOMAIN kept |-> Entry(kept[i], FALSE)]

\* The comments and blank lines before the first entry.
Header(t) ==
  LET n == CHOOSE k \in 0 .. Len(t.lines) :
             /\ \A i \in 1 .. k : t.lines[i] \in {Note, Blank}
             /\ k < Len(t.lines) => t.lines[k + 1] \notin {Note, Blank}
  IN SubSeq(t.lines, 1, n)

EndsBlank(ls) == ls # <<>> /\ Last(ls) = Blank

\* Mutant: a separator is added whether or not the header ends with one.
CanonicalizedSpread(t) ==
  LET header == Header(t)
      entries == CanonicalEntries(t)
  IN Joined(IF entries # <<>>
            THEN header \o (IF header = <<>> THEN <<>> ELSE <<Blank>>) \o entries
            ELSE IF EndsBlank(header) THEN Front(header) ELSE header)

\* canonicalized_contents: the header, a blank line, the entries; comments
\* after the first entry go.
Canonicalized(t) ==
  LET header == Header(t)
      entries == CanonicalEntries(t)
  IN Joined(IF entries # <<>>
            THEN header \o (IF header = <<>> \/ EndsBlank(header) THEN <<>> ELSE <<Blank>>)
                        \o entries
            ELSE IF EndsBlank(header) THEN Front(header) ELSE header)

\* Two lines without a newline between them: a comment swallows what follows
\* it, an entry and an entry are neither.
Glued(a, b) ==
  CASE a = Note -> Note
    [] a = Blank -> b
    [] OTHER -> Bad

\* Mutant: no newline before the first new entry.
AppendedGlued(t, nets, addNewline) ==
  LET new == [i \in DOMAIN nets |-> Entry(nets[i], FALSE)]
  IN IF t.lines = <<>> \/ t.newline THEN Text(t.lines \o new, TRUE)
     ELSE Text(Front(t.lines) \o <<Glued(Last(t.lines), new[1])>> \o Tail(new), TRUE)

\* The bytes of the file, perhaps a newline, and each entry with its own.
Appended(t, nets, addNewline) ==
  LET new == [i \in DOMAIN nets |-> Entry(nets[i], FALSE)]
      ended == t.lines = <<>> \/ t.newline
  IN CASE ended /\ ~ addNewline -> Text(t.lines \o new, TRUE)
       [] ended /\ addNewline -> Text(t.lines \o <<Blank>> \o new, TRUE)
       [] ~ ended /\ addNewline -> Text(t.lines \o new, TRUE)
       [] OTHER -> Text(Front(t.lines) \o <<Glued(Last(t.lines), new[1])>> \o Tail(new), TRUE)

\* classify_ban_targets: an earlier target counts as present.
Added(t, targets) ==
  LET fresh == {i \in DOMAIN targets :
                  /\ targets[i].net \notin EntryNets(t)
                  /\ \A j \in 1 .. i - 1 : targets[j].net # targets[i].net}
      kept == SelectSeq([i \in DOMAIN targets |-> i], LAMBDA i : i \in fresh)
  IN [k \in DOMAIN kept |-> targets[kept[k]].net]

Overlaps(n, targets) == n \cap UNION targets # {}

\* UnbanTargetIndex::plan and exact_match_indexes: what is equal to a target
\* goes; what overlaps one goes when the operator agreed.
Removed(c) ==
  {n \in Nets : n \in c.nets \/ (c.kind = "unban" /\ c.partial /\ Overlaps(n, c.nets))}

KeptLines(t, c) ==
  SelectSeq(t.lines, LAMBDA l : ~ (IsEntry(l) /\ l.net \in Removed(c)))

-----------------------------------------------------------------------------
(***************************************************************************)
(* Steps.                                                                  *)
(***************************************************************************)
Go(next) == pc' = next /\ UNCHANGED outcome

End(r) == pc' = "end" /\ outcome' = r

Fault == faults < MaxFaults /\ faults' = faults + 1 /\ disturbed' = TRUE

NoFault == UNCHANGED <<faults, disturbed>>

Start(c) ==
  /\ pc \in {"idle", "end"}
  /\ cmd' = c
  /\ Go(CASE c.kind = "ban" -> "parse" [] c.kind = "sync" -> "stat" [] OTHER -> "load")
  /\ doc' = EmptyText /\ draft' = EmptyText /\ loaded' = {}
  /\ before' = text /\ raced' = FALSE /\ disturbed' = FALSE
  /\ UNCHANGED <<file, faults>>

\* parse_input: one bad target, comments and blank lines included, and nothing
\* is changed.
ParseInput ==
  /\ pc = "parse"
  /\ \/ /\ CASE cmd.lines = <<>> -> End("empty")
             [] \E i \in DOMAIN cmd.lines : ~ IsEntry(cmd.lines[i]) ->
                  End(IF cmd.file THEN "invalid" ELSE "refused")
             [] OTHER -> Go("load")
        /\ NoFault
     \/ cmd.file /\ Fault /\ End("error")
  /\ UNCHANGED <<file, memory>>

\* load_blocklist_document, and what follows from the document.
Load ==
  /\ pc = "load"
  /\ \/ /\ Readable(Contents)
        /\ IF cmd.kind = "ban"
           THEN /\ IF Added(Contents, cmd.lines) = <<>> THEN End("ok") ELSE Go("append")
                /\ doc' = Contents /\ UNCHANGED draft
           ELSE LET kept == KeptLines(Contents, cmd)
                IN /\ IF Len(kept) = Len(Contents.lines) THEN End("ok") ELSE Go("write")
                   /\ draft' = Joined(kept) /\ UNCHANGED doc
        /\ NoFault
     \/ ~ Readable(Contents) /\ End("error") /\ NoFault /\ UNCHANGED <<doc, draft>>
     \/ Fault /\ End("error") /\ UNCHANGED <<doc, draft>>
  /\ UNCHANGED <<file, cmd, loaded, before, raced>>

\* append_entries_with_limit reads the file again and only then adds to it;
\* whether it needs a newline was decided by the document.
AppendEntries ==
  /\ pc = "append"
  /\ \/ /\ Length(Contents) <= Limit
        /\ draft' = Appended(Contents, Added(doc, cmd.lines),
                             doc # EmptyText /\ ~ doc.newline)
        /\ Go("write") /\ NoFault
     \/ Length(Contents) > Limit /\ End("error") /\ NoFault /\ UNCHANGED draft
     \/ Fault /\ End("error") /\ UNCHANGED draft
  /\ doc' = EmptyText
  /\ UNCHANGED <<file, cmd, loaded, before, raced>>

\* Would the fast state take this moment's change for the state it has seen?
Indistinct == fast # NoState /\ fast.time = clock

Publish ==
  /\ text' = draft
  /\ time' = clock
  /\ blurred' = (blurred \/ (Indistinct /\ cmd.kind # "sync"))

\* write_string_atomic_with_limit: a temporary file, renamed, then its
\* directory synced; too long a text is refused before that.
Write ==
  /\ pc = "write"
  /\ \/ /\ Length(draft) <= Limit
        /\ Publish
        /\ IF cmd.kind = "sync" THEN Go("stamp") ELSE End("ok")
        /\ NoFault
     \/ /\ Length(draft) > Limit
        /\ End("error") /\ NoFault /\ UNCHANGED <<text, time, blurred>>
     \/ /\ Length(draft) <= Limit
        /\ Fault /\ End("error")
        /\ Publish \/ UNCHANGED <<text, time, blurred>>
  /\ UNCHANGED <<fast, clock, edits, memory>>

State == [len |-> Length(text), time |-> time]

\* Mutant: only the length is compared.
StatLength ==
  /\ pc = "stat"
  /\ IF text = NoFile \/ (fast # NoState /\ fast.len = State.len) THEN Go("list") ELSE Go("normalize")
  /\ NoFault
  /\ UNCHANGED <<file, memory>>

\* normalize_local_blocklist_with_fast_state: a missing file and one whose
\* state is the recorded one are left alone; a state that cannot be captured
\* or parsed equals none.
Stat ==
  /\ pc = "stat"
  /\ \/ text = NoFile /\ Go("list") /\ NoFault
     \/ text # NoFile /\ fast = State /\ Go("list") /\ NoFault
     \/ text # NoFile /\ fast # State /\ Go("normalize") /\ NoFault
     \/ Fault /\ End("error")
     \/ text # NoFile /\ Fault /\ Go("normalize")
  /\ UNCHANGED <<file, memory>>

\* normalize_local_blocklist; nothing is written when nothing changes.
Normalize ==
  /\ pc = "normalize"
  /\ \/ text = NoFile /\ Go("stamp") /\ NoFault /\ UNCHANGED draft
     \/ /\ Readable(Contents) /\ text # NoFile
        /\ draft' = Canonicalized(text)
        /\ IF draft' = text THEN Go("stamp") ELSE Go("write")
        /\ NoFault
     \/ ~ Readable(Contents) /\ End("error") /\ NoFault /\ UNCHANGED draft
     \/ Fault /\ End("error") /\ UNCHANGED draft
  /\ UNCHANGED <<file, cmd, doc, loaded, before, raced>>

\* The final state is captured from the file, whoever wrote it; the sidecar is
\* best effort.
Stamp ==
  /\ pc = "stamp"
  /\ Go("list")
  /\ \/ /\ fast' = IF text = NoFile THEN fast ELSE State
        /\ blurred' = (raced /\ blurred)
        /\ NoFault
     \/ Fault /\ UNCHANGED <<fast, blurred>>
  /\ UNCHANGED <<text, time, clock, edits, memory>>

\* The provider then loads the document from the file.
List ==
  /\ pc = "list"
  /\ \/ Readable(Contents) /\ loaded' = EntryNets(Contents) /\ End("ok") /\ NoFault
     \/ ~ Readable(Contents) /\ End("error") /\ NoFault /\ UNCHANGED loaded
     \/ Fault /\ End("error") /\ UNCHANGED loaded
  /\ UNCHANGED <<file, cmd, doc, draft, before, raced>>

\* The operator's editor.
Edit(t) ==
  /\ edits < MaxEdits
  /\ edits' = edits + 1
  /\ text' = t /\ time' = clock
  /\ raced' = (raced \/ pc \notin {"idle", "end"})
  /\ blurred' = (blurred \/ Indistinct \/ pc \notin {"idle", "end"})
  /\ pc' = IF pc = "end" THEN "idle" ELSE pc
  /\ UNCHANGED <<fast, clock, cmd, doc, draft, loaded, outcome, faults, before, disturbed>>

Tick ==
  /\ clock < MaxTime
  /\ clock' = clock + 1
  /\ UNCHANGED <<text, time, fast, edits, blurred, pc, outcome, memory, faults, disturbed>>

Kill ==
  /\ pc \notin {"idle", "end"}
  /\ Fault /\ End("killed")
  /\ UNCHANGED <<file, memory>>

\* The cache directory is lost or the sidecar damaged: it does not parse.
LoseState ==
  /\ fast # NoState
  /\ Fault
  /\ fast' = NoState
  /\ UNCHANGED <<text, time, clock, edits, blurred, pc, outcome, memory>>

Next ==
  \/ \E c \in Commands : Start(c)
  \/ ParseInput \/ Load \/ AppendEntries \/ Write
  \/ Stat \/ Normalize \/ Stamp \/ List
  \/ \E t \in Texts : Edit(t)
  \/ Tick \/ Kill \/ LoseState

Spec == Init /\ [][Next]_vars

-----------------------------------------------------------------------------
TypeOK ==
  /\ text = NoFile \/ text \in [lines : Seq(Lines), newline : BOOLEAN]
  /\ {time, clock} \subseteq 1 .. MaxTime
  /\ fast = NoState \/ fast \in [len : Nat, time : 1 .. MaxTime]
  /\ pc \in {"idle", "parse", "load", "append", "write", "stat", "normalize",
             "stamp", "list", "end"}
  /\ cmd \in Commands
  /\ outcome \in {"none", "ok", "empty", "invalid", "refused", "error", "killed"}
  /\ loaded \subseteq Nets
  /\ edits \in 0 .. MaxEdits /\ faults \in 0 .. MaxFaults
  /\ {raced, disturbed, blurred} \subseteq BOOLEAN

Ended(kinds) == pc = "end" /\ ~ raced /\ cmd.kind \in kinds

Was == Held(before)

\* A command that reports success did what it says and no more: a ban leaves
\* every line as it was and has every target in the list, an unban and a
\* cleanup leave every other line.
DoneAsAsked ==
  /\ Ended({"ban"}) /\ outcome = "ok" =>
       /\ IsPrefix(Was.lines, Contents.lines)
       /\ EntryNets(Contents) = EntryNets(Was) \cup {cmd.lines[i].net : i \in DOMAIN cmd.lines}
  /\ Ended({"unban", "dedupe"}) /\ outcome = "ok" =>
       /\ EntryNets(Contents) = EntryNets(Was) \ Removed(cmd)
       /\ Len(SelectSeq(Contents.lines, LAMBDA l : l = Note))
            = Len(SelectSeq(Was.lines, LAMBDA l : l = Note))

\* A sync takes from the file exactly what it said; its rewriting changes
\* neither that nor the comments on top, and leaves only sorted, collapsed
\* entries below them, however many syncs follow each other, unless a change
\* fell into a running sync or into the instant the fast state records.
SyncKeepsMeaning ==
  Ended({"sync"}) =>
    /\ Covered(Contents) = Covered(Was)
    /\ outcome = "ok" => UNION loaded = Covered(Was)
    /\ LET notes(t) == SelectSeq(Header(t), LAMBDA l : l = Note)
       IN notes(Contents) = notes(Was)
    /\ Len(Header(Contents)) <= Len(Header(Was)) + 1
    /\ EndsBlank(Header(Was)) => Len(Header(Contents)) <= Len(Header(Was))
    /\ outcome = "ok" /\ ~ blurred =>
         Contents.lines = Header(Contents) \o CanonicalEntries(Contents)

\* A command never makes a readable list unreadable, whatever it ends with,
\* and an interrupted or failed one leaves the old text or the whole new one.
StaysReadable ==
  pc = "end" /\ ~ raced =>
    /\ Readable(Was) => Readable(Contents)
    /\ outcome \notin {"ok", "none"} => Contents \in {Was, draft}

\* Without a fault a command fails only for a line it cannot parse, a file over
\* the limit, or a new text that would be over the limit.
FailsForCause ==
  pc = "end" /\ ~ raced /\ ~ disturbed /\ outcome = "error" =>
    \/ ~ Readable(Was)
    \/ cmd.kind = "ban" /\ Length(Was) + 4 * Len(Added(Was, cmd.lines)) + 1 > Limit
    \/ cmd.kind = "sync" /\ Length(Canonicalized(Was)) > Limit

(***************************************************************************)
(* The list says what the commands made of it.  Bans, unbans, cleanups and *)
(* syncs in any order, on any of these files, with edits between them and  *)
(* faults inside them.  (The types belong to it.)                          *)
(***************************************************************************)
ListFollowsCommands ==
  TypeOK /\ DoneAsAsked /\ SyncKeepsMeaning /\ StaysReadable /\ FailsForCause
=============================================================================
