------------------------------- MODULE Runlog -------------------------------
(***************************************************************************)
(* The runlog: one file a day, an in-memory index of what the files hold,  *)
(* and the catalogue of tag notes (src/runlog/mod.rs), with the boot that  *)
(* readies their repository, rebuilds the index and prunes old days        *)
(* (src/cli/mod.rs, src/harness/mod.rs run).                               *)
(*                                                                         *)
(* The writer's lock makes a read, a write and their commit one step; a    *)
(* write replaces its file by a rename.  A reader of a conversation takes  *)
(* no lock and reads two files, one after the other.                       *)
(*                                                                         *)
(* An entry is rendered with fields that are not escaped, so what is       *)
(* parsed back of it, a timestamp and labels (source and tags) for each    *)
(* heading, need not be what was written.                                  *)
(***************************************************************************)
EXTENDS FiniteSetsExt, SequencesExt

CONSTANTS
  Label,       \* sources and conversation tags
  Trust,       \* tiers that a note may be stamped with
  DayLength,   \* instants in a day
  KeepDays,    \* runlog_retention_days
  MaxNotes,    \* tag_notes_max
  Stray,       \* what else the free text of an entry may read as, heading by heading
  MaxInstant,  \* bound: instants
  MaxEntries,  \* bound: appended entries
  MaxWritten,  \* bound: notes written
  MaxTrouble   \* bound: failing reads, writes and commits, corruptions and crashes

\* What a heading and the lines under it say.
Meta == [timestamp : Nat, labels : SUBSET Label]

ASSUME RunlogAssumption ==
  /\ DayLength \in Nat \ {0} /\ {KeepDays, MaxNotes} \subseteq Nat
  /\ Stray \subseteq Seq(Meta)
  /\ {MaxInstant, MaxEntries, MaxWritten, MaxTrouble} \subseteq Nat

Day == 0 .. (MaxInstant \div DayLength)
Entry == [run : Nat, written : Meta, parsed : Seq(Meta)]
Note == [tag : Label, trust : Trust]
View == [at : {"none", "half", "read"}, opened : Day, closed : Day, text : Seq(Entry), whole : BOOLEAN]

VARIABLES
  instant,
  boot,       \* "ready", "rebuilt" or "up": how far the daemon has come
  file,       \* file[d]: the entries of day d; a file without any is absent (durable)
  notes,      \* tag-notes.ndjson (durable)
  stats,      \* stats[d][l]: entries of day d with label l, as counted in memory
  view,       \* what the step's reader has of a conversation, and the days it opened files on
  runs,       \* entries appended
  marks,      \* notes written
  trouble,    \* what MaxTrouble counts
  uncounted,  \* history: entries whose append failed after its write
  misread     \* history: days whose file a read failed on

runlogVars == <<instant, boot, file, notes, stats, view, runs, marks, trouble, uncounted, misread>>

Today == instant \div DayLength
NoEntries == [d \in Day |-> << >>]
Uncounted == [d \in Day |-> [l \in Label |-> 0]]
Trouble == trouble < MaxTrouble /\ trouble' = trouble + 1
NoView == [at |-> "none", opened |-> 0, closed |-> 0, text |-> << >>, whole |-> TRUE]

RunlogInit ==
  /\ instant = 0 /\ boot = "ready" /\ file = NoEntries /\ notes = << >> /\ stats = Uncounted
  /\ view = NoView /\ runs = 0 /\ marks = 0 /\ trouble = 0 /\ uncounted = {} /\ misread = {}

Lapse ==
  /\ instant < MaxInstant /\ instant' = instant + 1
  /\ UNCHANGED <<boot, file, notes, stats, view, runs, marks, trouble, uncounted, misread>>

----------------------------------------------------------------------------
(* Boot.                                                                   *)

\* Which headings of the entries in s carry the label.
Found(s, l) ==
  UNION {{i} \X {j \in DOMAIN s[i].parsed : l \in s[i].parsed[j].labels} : i \in DOMAIN s}

Count(s, l) == Cardinality(Found(s, l))

\* rebuild_stats: every day-file, by its date.
RebuildStats ==
  /\ boot = "ready" /\ boot' = "rebuilt"
  /\ stats' = [d \in Day |-> [l \in Label |-> Count(file[d], l)]]
  /\ uncounted' = {} /\ misread' = {}
  /\ UNCHANGED <<instant, file, notes, view, runs, marks, trouble>>

Present == {d \in Day : file[d] # << >>}

\* Mutant of Expired: one day too many.
ExpiredEarly == {d \in Present : Cardinality({x \in Present : x > d}) + 1 >= KeepDays}

\* The days beyond the newest KeepDays; 0 keeps everything.
Expired == {d \in Present : KeepDays > 0 /\ Cardinality({x \in Present : x > d}) >= KeepDays}

\* prune_old_days; the index is left as it is.  A removal that fails is passed over.
Prune ==
  /\ boot = "rebuilt" /\ boot' = "up"
  /\ \E failed \in SUBSET Expired :
       /\ file' = [d \in Day |-> IF d \in Expired \ failed THEN << >> ELSE file[d]]
       /\ IF failed = {} THEN trouble' = trouble ELSE Trouble
  /\ UNCHANGED <<instant, notes, stats, view, runs, marks, uncounted, misread>>

\* The process ends.  What the next one finds is either healthy, or a repository that
\* ensure_runlog_repo discards: no push ever filled the remote that it would clone.
Stop(healthy) ==
  /\ boot # "ready" /\ boot' = "ready" /\ Trouble
  /\ stats' = Uncounted /\ view' = NoView
  /\ IF healthy THEN UNCHANGED <<file, notes>>
     ELSE file' = NoEntries /\ notes' = << >>
  /\ UNCHANGED <<instant, runs, marks, uncounted, misread>>

----------------------------------------------------------------------------
(* Entries.                                                                *)

\* Record: one more for each label.
Recorded(labels) ==
  [stats EXCEPT ![Today] = [l \in Label |-> @[l] + (IF l \in labels THEN 1 ELSE 0)]]

\* What entries_meta makes of the rendering of an entry: what was written, more headings
\* beside it, or other fields in its place.  In which order is left out.
Readings(m) == {<<m>>} \cup {<<m>> \o s : s \in Stray} \cup Stray

Appended(s, written, parsed) ==
  Append(s, [run |-> runs + 1, written |-> written, parsed |-> parsed])

\* An append waits for no lock but for its wake, which has read what it reads.
Appends(written, parsed) ==
  /\ boot = "up" /\ view.at # "half" /\ runs < MaxEntries
  /\ written.timestamp <= instant /\ parsed \in Readings(written)
  /\ runs' = runs + 1 /\ view' = NoView

\* append: to today's file, whenever the stimulus was received.
AppendEntry(written, parsed) ==
  /\ Appends(written, parsed)
  /\ file' = [file EXCEPT ![Today] = Appended(@, written, parsed)]
  /\ stats' = Recorded(written.labels)
  /\ UNCHANGED <<instant, boot, marks, notes, trouble, uncounted, misread>>

\* The write succeeds and its commit fails: the entry stays, and is not counted.
CommitFails(written, parsed) ==
  /\ Appends(written, parsed) /\ Trouble
  /\ file' = [file EXCEPT ![Today] = Appended(@, written, parsed)]
  /\ uncounted' = uncounted \cup {runs + 1}
  /\ UNCHANGED <<instant, boot, marks, notes, stats, misread>>

\* A read that fails counts as an empty file: the entry replaces the day.
ReadFails(written, parsed) ==
  /\ Appends(written, parsed) /\ file[Today] # << >> /\ Trouble
  /\ file' = [file EXCEPT ![Today] = Appended(<< >>, written, parsed)]
  /\ stats' = Recorded(written.labels)
  /\ misread' = misread \cup {Today}
  /\ UNCHANGED <<instant, boot, marks, notes, uncounted>>

----------------------------------------------------------------------------
(* Tag notes.                                                              *)

\* The last n of a sequence.
Lately(s, n) == IF Len(s) <= n THEN s ELSE SubSeq(s, Len(s) - n + 1, Len(s))

\* 0 caps nothing.
Capped(s, n) == IF n = 0 THEN s ELSE Lately(s, n)

AppendTagNote(tag, trust) ==
  /\ boot = "up" /\ view.at # "half" /\ marks < MaxWritten /\ marks' = marks + 1
  /\ notes' = Capped(Append(notes, [tag |-> tag, trust |-> trust]), MaxNotes)
  /\ UNCHANGED <<instant, boot, file, stats, view, runs, trouble, uncounted, misread>>

----------------------------------------------------------------------------
(* Reading a conversation back.                                            *)

\* What read_day gives of a day, if there is one of that name; a read that fails counts as
\* an empty file.
DayText(d, fails) == IF fails \/ d \notin Day THEN << >> ELSE file[d]

Read(d, fails) ==
  IF fails THEN d \in Present /\ Trouble ELSE trouble' = trouble

\* Mutant of Extended: an assignment where the code appends.
ExtendedByAssignment(text, more) == more

Extended(text, more) == text \o more

\* tail_entries looks what day it is and reads the file of the day before.
ReadYesterday(fails) ==
  /\ boot = "up" /\ view.at # "half" /\ Read(Today - 1, fails)
  /\ view' = [at |-> "half", opened |-> Today, closed |-> Today,
              text |-> DayText(Today - 1, fails), whole |-> ~fails]
  /\ UNCHANGED <<instant, boot, file, notes, stats, runs, marks, uncounted, misread>>

\* It looks again what day it is, and reads the file of that one.
ReadToday(fails) ==
  /\ view.at = "half" /\ Read(Today, fails)
  /\ view' = [view EXCEPT !.at = "read", !.closed = Today,
                          !.text = Extended(@, DayText(Today, fails)), !.whole = @ /\ ~fails]
  /\ UNCHANGED <<instant, boot, file, notes, stats, runs, marks, uncounted, misread>>

\* The blocks that the thread-recent block shows: nothing reaches its cap of a thousand.
TailEntries(since, l) ==
  {e \in ToSet(view.text) : \E m \in ToSet(e.parsed) : m.timestamp > since /\ l \in m.labels}

RunlogNext ==
  \/ Lapse
  \/ RebuildStats \/ Prune \/ \E healthy \in BOOLEAN : Stop(healthy)
  \/ \E received \in 0 .. instant, labels \in SUBSET Label :
       LET written == [timestamp |-> received, labels |-> labels] IN
       \E parsed \in Readings(written) :
         \/ AppendEntry(written, parsed) \/ CommitFails(written, parsed)
         \/ ReadFails(written, parsed)
  \/ \E tag \in Label, trust \in Trust : AppendTagNote(tag, trust)
  \/ \E fails \in BOOLEAN : ReadYesterday(fails) \/ ReadToday(fails)

RunlogSpec == RunlogInit /\ [][RunlogNext]_runlogVars

----------------------------------------------------------------------------
(* Properties.                                                             *)

RunlogTypeOK ==
  /\ instant \in 0 .. MaxInstant /\ boot \in {"ready", "rebuilt", "up"}
  /\ file \in [Day -> Seq(Entry)] /\ notes \in Seq(Note)
  /\ stats \in [Day -> [Label -> Nat]]
  /\ view \in View
  /\ {runs, marks, trouble} \subseteq Nat
  /\ uncounted \subseteq 1 .. runs /\ misread \subseteq Day

\* runlog/mod.rs, the header: append-only.  A step without a fault leaves what each
\* day's file holds at its front, or drops the file for KeepDays newer ones; of the notes
\* it drops at most the oldest, when the catalogue is full.
HistoryKept ==
  [][trouble' = trouble =>
       /\ \A d \in Day :
            \/ IsPrefix(file[d], file'[d])
            \/ file'[d] = << >> /\ KeepDays > 0
                 /\ Cardinality({x \in Day : x > d /\ file'[x] # << >>}) >= KeepDays
       /\ \/ IsPrefix(notes, notes')
          \/ Len(notes) = MaxNotes /\ MaxNotes > 0 /\ IsPrefix(Tail(notes), notes')]_runlogVars

\* An entry reads back with a label as it was written: once, or not at all.
ReadsAs(e, l) ==
  Cardinality({j \in DOMAIN e.parsed : l \in e.parsed[j].labels}) =
    IF l \in e.written.labels THEN 1 ELSE 0

\* The index that the environment block shows agrees with the files that are there: a
\* day's count is that of the entries written with the label, without those whose append
\* failed, until a read fails.  That holds across boots, which count what is parsed back,
\* for labels under which every entry of the day reads back as it was written.  (The days that
\* were pruned stay counted until the next boot.)
StatsMatchFiles ==
  boot # "ready" =>
    \A d \in Present \ misread, l \in Label :
      (\A e \in ToSet(file[d]) : ReadsAs(e, l)) =>
        stats[d][l] = Cardinality({i \in DOMAIN file[d] : /\ l \in file[d][i].written.labels
                                                         /\ file[d][i].run \notin uncounted})

\* runlog/mod.rs:457: "Span yesterday + today (chronological) so a thread window crossing
\* midnight stays whole".  Of what a conversation's thread holds since any instant from the
\* day before the first read on, all is shown that reads back as written, under whatever day
\* it was filed; but not, when midnight passes between the two reads, the day that
\* ended, nor anything of a file that could not be read.
ThreadWindowWhole ==
  view.at = "read" /\ view.whole =>
    \A d \in Day, l \in Label, since \in 0 .. instant :
      \A e \in ToSet(file[d]) :
        /\ since + 1 >= DayLength * (view.opened - 1)
        /\ e.written \in ToSet(e.parsed) /\ e.written.timestamp > since /\ l \in e.written.labels
        => e \in TailEntries(since, l) \/ (view.opened <= d /\ d < view.closed)

\* What a step is shown of its memory, the counts and the thread, is what the files hold.
RunlogReadsBack == StatsMatchFiles /\ ThreadWindowWhole
=============================================================================
