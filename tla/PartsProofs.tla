---------------------------- MODULE PartsProofs ----------------------------
(***************************************************************************)
(* Proofs about the runlog, and about the six parts of MCParts together.   *)
(*                                                                         *)
(* The runlog, for any labels, length of the day, retention and caps:      *)
(* RunlogReadsBack speaks of days that have a file; inductive is that the  *)
(* index is also right for the days that may still get one, which needs    *)
(* that nothing lies in the future and that a pruned day is past, and      *)
(* that a boot finds a label as often as it was written where every entry  *)
(* reads back as such.  The window of a thread rests on when a file's      *)
(* entries were received, and on what each of the two reads had before it. *)
(*                                                                         *)
(* The parts: a behaviour of all is one of each, so that what is proved of *)
(* a part, here and in the modules this one extends, holds of all.         *)
(***************************************************************************)
EXTENDS MCParts, ProcessProofs, InvocationProofs, SequenceTheorems, FunctionTheorems, FiniteSetTheorems,
        WellFoundedInduction, TLAPS

\* The catalogue stays within its cap.
NotesCapped == MaxNotes > 0 => Len(notes) <= MaxNotes

\* No file lies in the future, and what a file holds was received by the end of its day, under a
\* number that was given out.
Filed ==
  \A d \in Day :
    /\ d > Today => file[d] = << >>
    /\ \A i \in DOMAIN file[d] : /\ file[d][i].run <= runs
                                 /\ file[d][i].written.timestamp < DayLength * (d + 1)

\* Where the counted entries with label l stand in s, when those in `out` were not counted.
Standing(s, l, out) == {i \in DOMAIN s : l \in s[i].written.labels /\ s[i].run \notin out}

\* Every entry of s reads back with l as it was written.
Readable(s, l) == \A e \in ToSet(s) : ReadsAs(e, l)

\* The index is right for a day that has a file, and for the days that may still get one.
IndexRight ==
  boot # "ready" =>
    \A d \in Day \ misread, l \in Label :
      (d >= Today \/ file[d] # << >>) /\ Readable(file[d], l) =>
        stats[d][l] = Cardinality(Standing(file[d], l, uncounted))

\* What the reader has is of the day before the one it first looked at and, once it has read both,
\* of the one it looked at last, after which no file has begun.
ViewRight ==
  view.at # "none" =>
    /\ boot = "up" /\ view.opened <= view.closed /\ view.closed <= Today
    /\ view.whole /\ view.opened > 0 => ToSet(file[view.opened - 1]) \subseteq ToSet(view.text)
    /\ view.at = "read" =>
         /\ view.whole => ToSet(file[view.closed]) \subseteq ToSet(view.text)
         /\ \A d \in Day : d > view.closed => file[d] = << >>

RunlogIInv == RunlogTypeOK /\ NotesCapped /\ Filed /\ IndexRight /\ ViewRight

----------------------------------------------------------------------------
(* Days and sequences.                                                     *)

\* The bounds are numbers.
LEMMA RunlogBounds ==
  /\ DayLength \in Nat \ {0} /\ KeepDays \in Nat /\ MaxNotes \in Nat /\ MaxInstant \in Nat
  /\ MaxEntries \in Nat /\ Stray \subseteq Seq(Meta) /\ MaxWritten \in Nat /\ MaxTrouble \in Nat
BY RunlogAssumption

\* A day ends where the next begins.
LEMMA InItsDay ==
  ASSUME NEW t \in Nat
  PROVE  /\ t \div DayLength \in Nat
         /\ DayLength * (t \div DayLength) <= t
         /\ t < DayLength * ((t \div DayLength) + 1)
<1>1. t \div DayLength \in Nat /\ t % DayLength \in 0 .. (DayLength - 1)
  BY RunlogBounds
<1>2. t = (DayLength * (t \div DayLength)) + (t % DayLength)
  BY RunlogBounds
<1>3. DayLength * (t \div DayLength) \in Nat
  BY <1>1, RunlogBounds
<1>4. DayLength * ((t \div DayLength) + 1) = (DayLength * (t \div DayLength)) + DayLength
  BY <1>1, RunlogBounds
<1> QED BY <1>1, <1>2, <1>3, <1>4, RunlogBounds

\* Days come in the order of what they begin with.
LEMMA DaysInOrder ==
  ASSUME NEW p \in Nat, NEW q \in Nat, DayLength * p < DayLength * q
  PROVE  p < q
<1> SUFFICES ASSUME q <= p PROVE FALSE
  OBVIOUS
<1>1. PICK r \in Nat : p = q + r
  <2>1. p - q \in Nat /\ p = q + (p - q)
    OBVIOUS
  <2> QED BY <2>1
<1>2. DayLength * p = (DayLength * q) + (DayLength * r)
  BY <1>1, RunlogBounds
<1>3. DayLength * r \in Nat /\ DayLength * q \in Nat
  BY <1>1, RunlogBounds
<1> QED BY <1>2, <1>3

\* A later instant is on no earlier day.
LEMMA LaterDay ==
  ASSUME NEW s \in Nat, NEW t \in Nat, s <= t
  PROVE  s \div DayLength <= t \div DayLength
<1> DEFINE p == s \div DayLength
           q == t \div DayLength
<1>1. p \in Nat /\ q \in Nat /\ DayLength * p <= s /\ t < DayLength * (q + 1)
  BY InItsDay
<1>2. DayLength * p \in Nat /\ DayLength * (q + 1) \in Nat
  BY <1>1, RunlogBounds
<1> HIDE DEF p, q
<1>3. DayLength * p < DayLength * (q + 1)
  BY <1>1, <1>2
<1>4. p < q + 1
  BY <1>1, <1>3, DaysInOrder
<1> QED BY <1>1, <1>4 DEF p, q

\* Today is one of the days that have files.
LEMMA TodayIsADay ==
  ASSUME RunlogTypeOK
  PROVE  Today \in Day /\ Today \in Nat /\ Day \subseteq Nat /\ MaxInstant \div DayLength \in Nat
<1>1. instant \in Nat /\ instant <= MaxInstant
  BY RunlogBounds DEF RunlogTypeOK
<1>2. Today \in Nat /\ MaxInstant \div DayLength \in Nat
  BY <1>1, InItsDay, RunlogBounds DEF Today
<1>3. Today <= MaxInstant \div DayLength
  BY <1>1, LaterDay, RunlogBounds DEF Today
<1> QED BY <1>2, <1>3 DEF Day

\* IsPrefix, element by element.
LEMMA IsPrefixOf ==
  ASSUME NEW S, NEW s \in Seq(S), NEW t \in Seq(S), Len(s) <= Len(t),
         \A i \in 1 .. Len(s) : s[i] = t[i]
  PROVE  IsPrefix(s, t)
<1>1. Len(s) \in Nat /\ Len(t) \in Nat
  BY LenProperties
<1>2. \A i \in 1 .. Len(s) : s[i] \in S /\ t[i] \in S
  BY <1>1, ElementOfSeq
<1>3. /\ SubSeq(s, 1, Len(s)) \in Seq(S) /\ SubSeq(t, 1, Len(s)) \in Seq(S)
      /\ Len(SubSeq(s, 1, Len(s))) = Len(s) /\ Len(SubSeq(t, 1, Len(s))) = Len(s)
      /\ \A i \in 1 .. Len(s) : SubSeq(s, 1, Len(s))[i] = s[i] /\ SubSeq(t, 1, Len(s))[i] = t[i]
  BY <1>1, <1>2, SubSeqProperties
<1>4. SubSeq(s, 1, Len(s)) = SubSeq(t, 1, Len(s))
  BY <1>3, SeqEqual
<1> QED BY <1>4 DEF IsPrefix

\* A sequence that stays is at its own front.
LEMMA PrefixOfItself ==
  ASSUME NEW S, NEW s \in Seq(S)
  PROVE  IsPrefix(s, s)
BY LenProperties, IsPrefixOf

\* So it is after an append.
LEMMA PrefixOfAppend ==
  ASSUME NEW S, NEW s \in Seq(S), NEW e \in S
  PROVE  IsPrefix(s, Append(s, e))
<1>1. /\ Append(s, e) \in Seq(S) /\ Len(Append(s, e)) = Len(s) + 1
      /\ \A i \in 1 .. Len(s) : Append(s, e)[i] = s[i]
  BY AppendProperties
<1>2. Len(s) \in Nat
  BY LenProperties
<1>3. Len(s) <= Len(Append(s, e))
  BY <1>1, <1>2
<1> QED BY <1>1, <1>3, IsPrefixOf

\* What two sequences hold, one after the other.
LEMMA SetOfConcat ==
  ASSUME NEW S, NEW s \in Seq(S), NEW t \in Seq(S)
  PROVE  ToSet(s \o t) = ToSet(s) \cup ToSet(t)
<1>1. Range(s \o t) = Range(s) \cup Range(t)
  BY RangeConcatenation
<1> QED BY <1>1 DEF Range, ToSet

\* A bounded set of numbers has a greatest.
LEMMA Greatest ==
  ASSUME NEW n \in Nat, NEW S \in SUBSET (0 .. n), S # {}
  PROVE  \E x \in S : \A y \in S : y <= x
<1> DEFINE T == {n - x : x \in S}
<1>1. T \subseteq Nat /\ T # {}
  <2>1. \A x \in S : x \in 0 .. n
    OBVIOUS
  <2>2. \A x \in S : n - x \in Nat
    BY <2>1
  <2> QED BY <2>2
<1>2. PICK z \in T : \A y \in T : ~(<<y, z>> \in OpToRel(<, Nat))
  <2> HIDE DEF T
  <2> QED BY <1>1, NatLessThanWellFounded, WFMin
<1>3. \A y \in T : ~(y < z)
  BY <1>1, <1>2 DEF OpToRel
<1>4. PICK x \in S : z = n - x
  OBVIOUS
<1>5. ASSUME NEW y \in S PROVE y <= x
  <2>1. n - y \in T
    OBVIOUS
  <2>2. ~(n - y < n - x)
    BY <1>3, <1>4, <2>1
  <2> QED BY <2>2
<1> QED BY <1>5

----------------------------------------------------------------------------
(* Entries and notes.                                                      *)

\* The entry that an append makes.
NewEntry(written, parsed) == [run |-> runs + 1, written |-> written, parsed |-> parsed]

\* What is parsed back of an entry is headings.
LEMMA ReadingsTyped ==
  ASSUME NEW written \in Meta
  PROVE  Readings(written) \subseteq Seq(Meta)
<1>1. <<written>> \in Seq(Meta)
  OBVIOUS
<1>2. ASSUME NEW s \in Stray PROVE <<written>> \o s \in Seq(Meta)
  BY <1>1, RunlogBounds, ConcatProperties
<1> QED BY <1>1, <1>2, RunlogBounds DEF Readings

\* An entry is filed: it is the last of its file.
LEMMA EntryFiled ==
  ASSUME RunlogTypeOK, NEW written \in Meta, NEW parsed \in Readings(written),
         NEW base \in Seq(Entry)
  PROVE  /\ NewEntry(written, parsed) \in Entry
         /\ NewEntry(written, parsed).run = runs + 1
         /\ NewEntry(written, parsed).written = written
         /\ Appended(base, written, parsed) \in Seq(Entry)
         /\ Appended(base, written, parsed) = Append(base, NewEntry(written, parsed))
<1>1. runs + 1 \in Nat /\ parsed \in Seq(Meta)
  BY RunlogBounds, ReadingsTyped DEF RunlogTypeOK
<1>2. NewEntry(written, parsed) \in Entry
  BY <1>1 DEF Entry, NewEntry
<1>3. Appended(base, written, parsed) = Append(base, NewEntry(written, parsed))
  BY DEF Appended, NewEntry
<1>4. Appended(base, written, parsed) \in Seq(Entry)
  BY <1>2, <1>3, AppendProperties
<1> QED BY <1>2, <1>3, <1>4 DEF NewEntry

\* Each write of an entry: the one whose append fails and the one that loses the day, too.
Writes(base, written, parsed) ==
  /\ file' = [file EXCEPT ![Today] = Appended(base, written, parsed)] /\ runs' = runs + 1
  /\ written.timestamp <= instant /\ UNCHANGED <<instant, boot, notes, marks>> /\ boot = "up"
  /\ view' = NoView

\* The steps, with what an append writes and what is parsed back of it.
LEMMA RunlogSteps ==
  ASSUME RunlogTypeOK, [RunlogNext]_runlogVars
  PROVE  \/ Lapse \/ RebuildStats \/ Prune \/ (\E healthy \in BOOLEAN : Stop(healthy))
         \/ \E written \in Meta : \E parsed \in Readings(written) :
              \/ AppendEntry(written, parsed) \/ CommitFails(written, parsed)
              \/ ReadFails(written, parsed)
         \/ (\E tag \in Label, trust \in Trust : AppendTagNote(tag, trust))
         \/ (\E fails \in BOOLEAN : ReadYesterday(fails) \/ ReadToday(fails))
         \/ UNCHANGED runlogVars
<1>1. ASSUME NEW received \in 0 .. instant, NEW labels \in SUBSET Label
      PROVE  [timestamp |-> received, labels |-> labels] \in Meta
  <2>1. received \in Nat
    BY RunlogBounds DEF RunlogTypeOK
  <2> QED BY <2>1 DEF Meta
<1> QED BY <1>1 DEF RunlogNext

\* Every step that files an entry is a write, without a fault one to today's whole file.
LEMMA EntriesAreWritten ==
  ASSUME RunlogTypeOK, NEW written \in Meta, NEW parsed \in Readings(written),
         \/ AppendEntry(written, parsed) \/ CommitFails(written, parsed)
         \/ ReadFails(written, parsed)
  PROVE  /\ \E base \in Seq(Entry) : /\ Writes(base, written, parsed)
                                     /\ base = file[Today] \/ base = << >>
         /\ trouble' = trouble => Writes(file[Today], written, parsed)
<1>1. file[Today] \in Seq(Entry) /\ << >> \in Seq(Entry) /\ trouble \in Nat
  BY TodayIsADay, EmptySeq DEF RunlogTypeOK
<1>2. CASE AppendEntry(written, parsed)
  <2>1. Writes(file[Today], written, parsed)
    BY <1>2 DEF AppendEntry, Appends, Writes
  <2> QED BY <1>1, <2>1
<1>3. CASE CommitFails(written, parsed)
  <2>1. Writes(file[Today], written, parsed)
    BY <1>3 DEF CommitFails, Appends, Writes
  <2> QED BY <1>1, <2>1
<1>4. CASE ReadFails(written, parsed)
  <2>1. Writes(<< >>, written, parsed) /\ trouble' = trouble + 1
    BY <1>4 DEF ReadFails, Appends, Writes, Trouble
  <2>2. trouble' # trouble
    BY <1>1, <2>1
  <2> QED BY <1>1, <2>1, <2>2
<1> QED BY <1>2, <1>3, <1>4

\* A reader's step leaves all but what it has read.
LEMMA ReadersRead ==
  ASSUME NEW fails \in BOOLEAN, ReadYesterday(fails) \/ ReadToday(fails)
  PROVE  /\ UNCHANGED <<instant, boot, file, notes, stats, runs, marks, uncounted, misread>>
         /\ trouble' \in {trouble, trouble + 1}
BY DEF ReadYesterday, ReadToday, Read, Trouble

\* Files hold entries.
LEMMA FilesTyped ==
  ASSUME RunlogTypeOK, [RunlogNext]_runlogVars
  PROVE  file' \in [Day -> Seq(Entry)]
<1>0. file \in [Day -> Seq(Entry)] /\ << >> \in Seq(Entry)
  BY EmptySeq DEF RunlogTypeOK
<1>1. ASSUME NEW written \in Meta, NEW parsed \in Readings(written), NEW base \in Seq(Entry),
             Writes(base, written, parsed)
      PROVE  file' \in [Day -> Seq(Entry)]
  BY <1>0, <1>1, EntryFiled DEF Writes
<1>2. CASE Prune
  BY <1>0, <1>2 DEF Prune
<1>3. ASSUME NEW healthy \in BOOLEAN, Stop(healthy) PROVE file' \in [Day -> Seq(Entry)]
  BY <1>0, <1>3 DEF Stop, NoEntries
<1>4. CASE Lapse \/ RebuildStats \/ (\E tag \in Label, trust \in Trust : AppendTagNote(tag, trust))
           \/ (\E fails \in BOOLEAN : ReadYesterday(fails) \/ ReadToday(fails)) \/ UNCHANGED runlogVars
  BY <1>0, <1>4, ReadersRead DEF Lapse, RebuildStats, AppendTagNote, runlogVars
<1> QED BY <1>1, <1>2, <1>3, <1>4, EntriesAreWritten, RunlogSteps

\* What the catalogue holds after a note: the note at its end, and all or all but the oldest.
LEMMA NoteFiled ==
  ASSUME notes \in Seq(Note), NotesCapped, NEW note \in Note
  PROVE  LET after == Capped(Append(notes, note), MaxNotes) IN
         /\ after \in Seq(Note)
         /\ MaxNotes > 0 => Len(after) <= MaxNotes
         /\ \/ IsPrefix(notes, after)
            \/ Len(notes) = MaxNotes /\ MaxNotes > 0 /\ IsPrefix(Tail(notes), after)
<1> DEFINE longer == Append(notes, note)
           n == Len(notes)
<1>1. /\ longer \in Seq(Note) /\ Len(longer) = n + 1 /\ n \in Nat
      /\ \A i \in 1 .. n : longer[i] = notes[i]
  BY AppendProperties, LenProperties
<1>2. MaxNotes \in Nat
  BY RunlogBounds
<1>3. IsPrefix(notes, longer)
  BY PrefixOfAppend
<1>4. CASE MaxNotes = 0 \/ n + 1 <= MaxNotes
  <2>1. Capped(longer, MaxNotes) = longer
    BY <1>1, <1>4 DEF Capped, Lately
  <2> QED BY <1>1, <1>2, <1>3, <1>4, <2>1
<1>5. CASE MaxNotes > 0 /\ n = MaxNotes
  <2>1. Capped(longer, MaxNotes) = SubSeq(longer, 2, n + 1)
    <3>1. Len(longer) - MaxNotes + 1 = 2 /\ ~(Len(longer) <= MaxNotes)
      BY <1>1, <1>2, <1>5
    <3> QED BY <1>1, <1>2, <1>5, <3>1 DEF Capped, Lately
  <2>2. /\ SubSeq(longer, 2, n + 1) \in Seq(Note) /\ Len(SubSeq(longer, 2, n + 1)) = n
        /\ \A i \in 1 .. n : SubSeq(longer, 2, n + 1)[i] = longer[i + 1]
    <3>1. \A i \in 2 .. (n + 1) : longer[i] \in Note
      BY <1>1, ElementOfSeq
    <3>2. /\ SubSeq(longer, 2, n + 1) \in Seq(Note)
          /\ Len(SubSeq(longer, 2, n + 1)) = IF 2 <= n + 1 THEN n + 1 - 2 + 1 ELSE 0
          /\ \A i \in 1 .. (n + 1 - 2 + 1) : SubSeq(longer, 2, n + 1)[i] = longer[2 + i - 1]
      BY <1>1, <3>1, SubSeqProperties
    <3>3. 2 <= n + 1 /\ n + 1 - 2 + 1 = n /\ \A i \in 1 .. n : 2 + i - 1 = i + 1
      BY <1>1, <1>2, <1>5
    <3> QED BY <3>2, <3>3
  <2>3. /\ Tail(notes) \in Seq(Note) /\ Len(Tail(notes)) = n - 1
        /\ \A i \in 1 .. (n - 1) : Tail(notes)[i] = notes[i + 1]
    <3>1. notes # << >>
      BY <1>2, <1>5, EmptySeq
    <3> QED BY <1>1, <3>1, HeadTailProperties
  <2>4. IsPrefix(Tail(notes), SubSeq(longer, 2, n + 1))
    <3>1. \A i \in 1 .. (n - 1) : Tail(notes)[i] = SubSeq(longer, 2, n + 1)[i]
      <4>1. ASSUME NEW i \in 1 .. (n - 1) PROVE i \in 1 .. n /\ i + 1 \in 1 .. n
        BY <1>1
      <4> QED BY <1>1, <2>2, <2>3, <4>1
    <3>2. Len(Tail(notes)) <= Len(SubSeq(longer, 2, n + 1))
      BY <1>1, <2>2, <2>3
    <3> HIDE DEF longer
    <3> QED BY <2>2, <2>3, <3>1, <3>2, IsPrefixOf
  <2> QED BY <1>5, <2>1, <2>2, <2>4
<1> QED BY <1>1, <1>2, <1>4, <1>5 DEF NotesCapped

----------------------------------------------------------------------------
(* Counting.                                                               *)

\* The places of a file that are counted are finitely many.
LEMMA StandingIsFinite ==
  ASSUME NEW s \in Seq(Entry), NEW l, NEW out
  PROVE  /\ IsFiniteSet(Standing(s, l, out)) /\ Cardinality(Standing(s, l, out)) \in Nat
         /\ Standing(s, l, out) \subseteq 1 .. Len(s)
<1>1. DOMAIN s = 1 .. Len(s) /\ Len(s) \in Nat
  BY LenProperties
<1>2. Standing(s, l, out) \subseteq 1 .. Len(s) /\ IsFiniteSet(1 .. Len(s))
  BY <1>1, FS_Interval DEF Standing
<1> QED BY <1>2, FS_Subset, FS_CardinalityType

\* One more entry is one more place for each of its labels, if it is counted.
LEMMA OneMore ==
  ASSUME NEW s \in Seq(Entry), NEW e \in Entry, NEW l, NEW out
  PROVE  Cardinality(Standing(Append(s, e), l, out)) =
           Cardinality(Standing(s, l, out)) + (IF l \in e.written.labels /\ e.run \notin out THEN 1 ELSE 0)
<1>1. /\ Append(s, e) \in Seq(Entry) /\ Len(Append(s, e)) = Len(s) + 1 /\ Len(s) \in Nat
      /\ \A i \in 1 .. Len(s) : Append(s, e)[i] = s[i]
      /\ Append(s, e)[Len(s) + 1] = e
      /\ DOMAIN s = 1 .. Len(s) /\ DOMAIN Append(s, e) = 1 .. (Len(s) + 1)
  <2>1. Append(s, e) \in Seq(Entry) /\ Len(Append(s, e)) = Len(s) + 1
    BY AppendProperties
  <2>2. DOMAIN Append(s, e) = 1 .. Len(Append(s, e))
    BY <2>1, LenProperties
  <2> QED BY <2>1, <2>2, AppendProperties, LenProperties
<1>2. 1 .. (Len(s) + 1) = (1 .. Len(s)) \cup {Len(s) + 1} /\ Len(s) + 1 \notin 1 .. Len(s)
  BY <1>1
<1>3. IsFiniteSet(Standing(s, l, out)) /\ Len(s) + 1 \notin Standing(s, l, out)
      /\ Cardinality(Standing(s, l, out)) \in Nat
  BY <1>2, StandingIsFinite
<1>4. CASE l \in e.written.labels /\ e.run \notin out
  <2>1. Standing(Append(s, e), l, out) = Standing(s, l, out) \cup {Len(s) + 1}
    BY <1>1, <1>2, <1>4 DEF Standing
  <2> QED BY <1>3, <1>4, <2>1, FS_AddElement
<1>5. CASE ~(l \in e.written.labels /\ e.run \notin out)
  <2>1. Standing(Append(s, e), l, out) = Standing(s, l, out)
    BY <1>1, <1>2, <1>5 DEF Standing
  <2> QED BY <1>3, <1>5, <2>1
<1> QED BY <1>4, <1>5

\* The headings that carry a label are finitely many.
LEMMA FoundIsFinite ==
  ASSUME NEW s \in Seq(Entry), NEW l
  PROVE  IsFiniteSet(Found(s, l)) /\ Cardinality(Found(s, l)) \in Nat
<1> DEFINE Row(i) == {i} \X {j \in DOMAIN s[i].parsed : l \in s[i].parsed[j].labels}
           Rows == {Row(i) : i \in DOMAIN s}
           row == [i \in DOMAIN s |-> Row(i)]
<1>1. ASSUME NEW i \in DOMAIN s PROVE IsFiniteSet(Row(i))
  <2>1. s[i] \in Entry
    BY LenProperties, ElementOfSeq
  <2>2. s[i].parsed \in Seq(Meta)
    BY <2>1 DEF Entry
  <2>3. DOMAIN s[i].parsed = 1 .. Len(s[i].parsed) /\ Len(s[i].parsed) \in Nat
    BY <2>2, LenProperties
  <2>4. IsFiniteSet(DOMAIN s[i].parsed)
    BY <2>3, FS_Interval
  <2>5. IsFiniteSet({j \in DOMAIN s[i].parsed : l \in s[i].parsed[j].labels})
    BY <2>4, FS_Subset
  <2>6. IsFiniteSet({i})
    BY FS_Singleton
  <2> QED BY <2>5, <2>6, FS_Product
<1>2. IsFiniteSet(DOMAIN s)
  <2>1. DOMAIN s = 1 .. Len(s) /\ Len(s) \in Nat
    BY LenProperties
  <2> QED BY <2>1, FS_Interval
<1>3. Found(s, l) = UNION Rows
  BY DEF Found
<1> HIDE DEF Row
<1>4. row \in Surjection(DOMAIN s, Rows)
  <2>1. row \in [DOMAIN s -> Rows] /\ \A t \in Rows : \E i \in DOMAIN s : row[i] = t
    OBVIOUS
  <2> HIDE DEF row, Rows
  <2> QED BY <2>1, Fun_IsSurj
<1>5. \A t \in Rows : IsFiniteSet(t)
  BY <1>1
<1> HIDE DEF row, Rows
<1>6. IsFiniteSet(Rows)
  BY <1>2, <1>4, FS_Surjection
<1> QED BY <1>3, <1>5, <1>6, FS_UNION, FS_CardinalityType

\* Where every entry reads back as it was written, each that has the label has it under one heading.
LEMMA FoundAsWritten ==
  ASSUME NEW s \in Seq(Entry), NEW l, Readable(s, l)
  PROVE  Count(s, l) = Cardinality(Standing(s, l, {}))
<1> DEFINE At(i) == {j \in DOMAIN s[i].parsed : l \in s[i].parsed[j].labels}
           place == [p \in Found(s, l) |-> p[1]]
<1>1. ASSUME NEW i \in DOMAIN s
      PROVE  IF l \in s[i].written.labels THEN \E j : At(i) = {j} ELSE At(i) = {}
  <2>1. s[i] \in Entry /\ s[i] \in ToSet(s)
    BY LenProperties, ElementOfSeq DEF ToSet
  <2>2. s[i].parsed \in Seq(Meta)
    BY <2>1 DEF Entry
  <2>3. DOMAIN s[i].parsed = 1 .. Len(s[i].parsed) /\ Len(s[i].parsed) \in Nat
    BY <2>2, LenProperties
  <2>4. IsFiniteSet(DOMAIN s[i].parsed)
    BY <2>3, FS_Interval
  <2>5. IsFiniteSet(At(i))
    BY <2>4, FS_Subset
  <2>6. Cardinality(At(i)) = IF l \in s[i].written.labels THEN 1 ELSE 0
    BY <2>1 DEF Readable, ReadsAs
  <2> HIDE DEF At
  <2> QED BY <2>5, <2>6, FS_Singleton, FS_EmptySet
<1>2. Found(s, l) = UNION {{i} \X At(i) : i \in DOMAIN s}
  BY DEF Found
<1>3. \A i \in DOMAIN s : i \in Standing(s, l, {}) <=> l \in s[i].written.labels
  BY DEF Standing
<1>4. Standing(s, l, {}) \subseteq DOMAIN s
  BY DEF Standing
<1> HIDE DEF At
<1>5. \A p \in Found(s, l) : p[1] \in DOMAIN s /\ p[2] \in At(p[1]) /\ p = <<p[1], p[2]>>
  BY <1>2
<1>6. place \in [Found(s, l) -> Standing(s, l, {})]
  BY <1>1, <1>3, <1>5
<1>7. \A p, q \in Found(s, l) : place[p] = place[q] => p = q
  <2>1. ASSUME NEW p \in Found(s, l), NEW q \in Found(s, l), p[1] = q[1] PROVE p = q
    <3>1. \E j : At(p[1]) = {j}
      BY <1>1, <1>5
    <3>2. p[2] = q[2]
      BY <1>5, <2>1, <3>1
    <3> QED BY <1>5, <2>1, <3>2
  <2> QED BY <2>1
<1>8. \A i \in Standing(s, l, {}) : \E p \in Found(s, l) : place[p] = i
  <2>1. ASSUME NEW i \in Standing(s, l, {}) PROVE \E p \in Found(s, l) : p[1] = i
    <3>1. PICK j : At(i) = {j}
      BY <1>1, <1>3, <1>4
    <3>2. <<i, j>> \in {i} \X At(i)
      BY <3>1
    <3>3. <<i, j>> \in Found(s, l)
      BY <1>2, <1>4, <3>2
    <3> QED BY <3>3
  <2> QED BY <2>1
<1>9. place \in Bijection(Found(s, l), Standing(s, l, {}))
  <2> HIDE DEF place
  <2> QED BY <1>6, <1>7, <1>8, Fun_IsBij
<1>10. ExistsBijection(Found(s, l), Standing(s, l, {}))
  <2> HIDE DEF place
  <2> QED BY <1>9, Fun_ExistsBij
<1> QED BY <1>10, FoundIsFinite, FS_Bijection DEF Count

\* What an append adds reads back or does not; what was there does as it did.
LEMMA ReadableBefore ==
  ASSUME NEW s \in Seq(Entry), NEW e \in Entry, NEW l, Readable(Append(s, e), l)
  PROVE  Readable(s, l)
<1>1. /\ \A i \in 1 .. Len(s) : Append(s, e)[i] = s[i]
      /\ DOMAIN s = 1 .. Len(s) /\ 1 .. Len(s) \subseteq DOMAIN Append(s, e)
  <2>1. Append(s, e) \in Seq(Entry) /\ Len(Append(s, e)) = Len(s) + 1 /\ Len(s) \in Nat
    BY AppendProperties, LenProperties
  <2>2. DOMAIN Append(s, e) = 1 .. Len(Append(s, e))
    BY <2>1, LenProperties
  <2> QED BY <2>1, <2>2, AppendProperties, LenProperties
<1> QED BY <1>1 DEF Readable, ToSet

\* What read_day gives is entries.
LEMMA DayTextTyped ==
  ASSUME RunlogTypeOK, NEW d, NEW fails \in BOOLEAN
  PROVE  DayText(d, fails) \in Seq(Entry)
BY EmptySeq DEF DayText, RunlogTypeOK

\* What the reader's two steps leave it with.
LEMMA ReaderHas ==
  ASSUME RunlogTypeOK, NEW fails \in BOOLEAN
  PROVE  /\ ReadYesterday(fails) =>
              /\ view' \in View /\ view'.at = "half" /\ view'.opened = Today /\ view'.closed = Today
              /\ view'.text = DayText(Today - 1, fails) /\ view'.whole = ~fails
         /\ ReadToday(fails) =>
              /\ view' \in View /\ view'.at = "read" /\ view'.opened = view.opened
              /\ view'.closed = Today /\ view'.text = view.text \o DayText(Today, fails)
              /\ view'.whole = (view.whole /\ ~fails)
<1>0. /\ view \in View /\ Today \in Day
      /\ DayText(Today, fails) \in Seq(Entry) /\ DayText(Today - 1, fails) \in Seq(Entry)
  BY TodayIsADay, DayTextTyped DEF RunlogTypeOK
<1>1. ASSUME ReadYesterday(fails)
      PROVE  /\ view' \in View /\ view'.at = "half" /\ view'.opened = Today /\ view'.closed = Today
             /\ view'.text = DayText(Today - 1, fails) /\ view'.whole = ~fails
  BY <1>0, <1>1 DEF ReadYesterday, View
<1>2. ASSUME ReadToday(fails)
      PROVE  /\ view' \in View /\ view'.at = "read" /\ view'.opened = view.opened
             /\ view'.closed = Today /\ view'.text = view.text \o DayText(Today, fails)
             /\ view'.whole = (view.whole /\ ~fails)
  <2>1. view.text \in Seq(Entry) /\ view.whole \in BOOLEAN
    BY <1>0 DEF View
  <2>2. PICK more \in Seq(Entry) : more = view.text \o DayText(Today, fails)
    BY <1>0, <2>1, ConcatProperties
  <2>3. view' = [view EXCEPT !.at = "read", !.closed = Today, !.text = more,
                             !.whole = view.whole /\ ~fails]
    BY <1>2, <2>2 DEF ReadToday, Extended
  <2> QED BY <1>0, <2>1, <2>2, <2>3 DEF View
<1> QED BY <1>1, <1>2

\* The reader has entries, of days that there are.
LEMMA ViewTyped ==
  ASSUME RunlogTypeOK, [RunlogNext]_runlogVars
  PROVE  view' \in View
<1>0. view \in View
  BY DEF RunlogTypeOK
<1>1. NoView \in View
  <2>1. 0 \in Day /\ << >> \in Seq(Entry)
    BY TodayIsADay, EmptySeq DEF Day
  <2> QED BY <2>1 DEF NoView, View
<1>2. CASE \/ Lapse \/ RebuildStats \/ Prune \/ UNCHANGED runlogVars
           \/ (\E tag \in Label, trust \in Trust : AppendTagNote(tag, trust))
  BY <1>0, <1>2 DEF Lapse, RebuildStats, Prune, AppendTagNote, runlogVars
<1>3. CASE \/ (\E healthy \in BOOLEAN : Stop(healthy))
           \/ \E written \in Meta : \E parsed \in Readings(written) :
                \/ AppendEntry(written, parsed) \/ CommitFails(written, parsed)
                \/ ReadFails(written, parsed)
  <2>1. view' = NoView
    BY <1>3 DEF Stop, AppendEntry, CommitFails, ReadFails, Appends
  <2> QED BY <1>1, <2>1
<1>4. CASE \E fails \in BOOLEAN : ReadYesterday(fails) \/ ReadToday(fails)
  BY <1>4, ReaderHas
<1> QED BY <1>2, <1>3, <1>4, RunlogSteps

\* Types.
LEMMA RunlogTypeStep ==
  ASSUME RunlogTypeOK, NotesCapped, [RunlogNext]_runlogVars
  PROVE  RunlogTypeOK' /\ NotesCapped'
<1>0. /\ file' \in [Day -> Seq(Entry)] /\ Today \in Day /\ instant \in 0 .. MaxInstant
      /\ runs \in Nat /\ marks \in Nat /\ trouble \in Nat /\ notes \in Seq(Note)
      /\ stats \in [Day -> [Label -> Nat]] /\ uncounted \subseteq 1 .. runs /\ misread \subseteq Day
      /\ boot \in {"ready", "rebuilt", "up"} /\ MaxInstant \in Nat
      /\ view' \in View
  BY FilesTyped, TodayIsADay, ViewTyped, RunlogBounds DEF RunlogTypeOK
<1>1. ASSUME NEW labels \in SUBSET Label PROVE Recorded(labels) \in [Day -> [Label -> Nat]]
  BY <1>0 DEF Recorded
<1>2. (1 .. runs) \cup {runs + 1} = 1 .. (runs + 1)
  BY <1>0
<1>3. CASE Lapse
  BY <1>0, <1>3 DEF Lapse, RunlogTypeOK, NotesCapped
<1>4. CASE RebuildStats
  <2>1. ASSUME NEW d \in Day, NEW l \in Label PROVE Count(file[d], l) \in Nat
    <3>1. file[d] \in Seq(Entry)
      BY DEF RunlogTypeOK
    <3> QED BY <3>1, FoundIsFinite DEF Count
  <2> QED BY <1>0, <1>4, <2>1 DEF RebuildStats, RunlogTypeOK, NotesCapped
<1>5. CASE Prune
  BY <1>0, <1>5 DEF Prune, Trouble, RunlogTypeOK, NotesCapped
<1>6. ASSUME NEW healthy \in BOOLEAN, Stop(healthy) PROVE RunlogTypeOK' /\ NotesCapped'
  <2>1. /\ (notes' = notes \/ notes' = << >>) /\ stats' = Uncounted /\ boot' = "ready"
        /\ trouble' = trouble + 1 /\ UNCHANGED <<instant, runs, marks, uncounted, misread>>
    BY <1>6 DEF Stop, Trouble
  <2>2. Uncounted \in [Day -> [Label -> Nat]]
    BY DEF Uncounted
  <2>3. notes' \in Seq(Note) /\ NotesCapped'
    <3>1. << >> \in Seq(Note) /\ Len(<< >>) = 0 /\ MaxNotes \in Nat
      BY EmptySeq, RunlogBounds
    <3>2. CASE notes' = notes
      BY <1>0, <3>2 DEF NotesCapped
    <3>3. CASE notes' = << >>
      BY <3>1, <3>3 DEF NotesCapped
    <3> QED BY <2>1, <3>2, <3>3
  <2> QED BY <1>0, <2>1, <2>2, <2>3 DEF RunlogTypeOK
<1>7. ASSUME NEW written \in Meta, NEW parsed \in Readings(written),
             \/ AppendEntry(written, parsed) \/ CommitFails(written, parsed)
             \/ ReadFails(written, parsed)
      PROVE  RunlogTypeOK' /\ NotesCapped'
  <2>0. written.labels \in SUBSET Label
    BY DEF Meta
  <2>1. /\ runs' = runs + 1 /\ boot' = boot /\ stats' \in {stats, Recorded(written.labels)}
        /\ trouble' \in {trouble, trouble + 1} /\ uncounted' \subseteq uncounted \cup {runs + 1}
        /\ misread' \subseteq misread \cup {Today} /\ UNCHANGED <<instant, notes, marks>>
    BY <1>7 DEF AppendEntry, CommitFails, ReadFails, Appends, Trouble
  <2>2. stats' \in [Day -> [Label -> Nat]] /\ uncounted' \subseteq 1 .. runs' /\ misread' \subseteq Day
    BY <1>0, <1>1, <1>2, <2>0, <2>1
  <2> QED BY <1>0, <2>1, <2>2 DEF RunlogTypeOK, NotesCapped
<1>8. ASSUME NEW tag \in Label, NEW trust \in Trust, AppendTagNote(tag, trust)
      PROVE  RunlogTypeOK' /\ NotesCapped'
  <2>1. [tag |-> tag, trust |-> trust] \in Note
    BY <1>0 DEF Note
  <2>2. notes' \in Seq(Note) /\ NotesCapped'
    BY <1>0, <1>8, <2>1, NoteFiled DEF AppendTagNote, NotesCapped
  <2>3. marks' = marks + 1 /\ UNCHANGED <<instant, boot, stats, runs, trouble, uncounted, misread>>
    BY <1>8 DEF AppendTagNote
  <2> QED BY <1>0, <2>2, <2>3 DEF RunlogTypeOK
<1>9. CASE UNCHANGED runlogVars
  BY <1>0, <1>9 DEF runlogVars, RunlogTypeOK, NotesCapped
<1>10. ASSUME NEW fails \in BOOLEAN, ReadYesterday(fails) \/ ReadToday(fails)
       PROVE  RunlogTypeOK' /\ NotesCapped'
  <2>1. /\ UNCHANGED <<instant, boot, file, notes, stats, runs, marks, uncounted, misread>>
        /\ trouble' \in {trouble, trouble + 1}
    BY <1>10, ReadersRead
  <2> QED BY <1>0, <2>1 DEF RunlogTypeOK, NotesCapped
<1> QED BY <1>3, <1>4, <1>5, <1>6, <1>7, <1>8, <1>9, <1>10, RunlogSteps

\* Time passes: the days of the past stay past.
LEMMA TodayGoesOn ==
  ASSUME RunlogTypeOK, [RunlogNext]_runlogVars
  PROVE  Today' \in Nat /\ Today <= Today' /\ instant \in Nat /\ instant' \in Nat
<1>1. instant \in Nat /\ MaxInstant \in Nat
  BY RunlogBounds DEF RunlogTypeOK
<1>2. instant' = instant \/ instant' = instant + 1
  BY DEF RunlogNext, Lapse, RebuildStats, Prune, Stop, AppendEntry, CommitFails, ReadFails,
         AppendTagNote, ReadYesterday, ReadToday, runlogVars
<1>3. instant' \in Nat /\ instant <= instant'
  BY <1>1, <1>2
<1> QED BY <1>1, <1>3, LaterDay, InItsDay DEF Today

----------------------------------------------------------------------------
(* Files and the index.                                                    *)

\* What a write leaves in each file.
LEMMA WritesFile ==
  ASSUME RunlogTypeOK, NEW written \in Meta, NEW parsed \in Readings(written),
         NEW base \in Seq(Entry), Writes(base, written, parsed)
  PROVE  /\ \A d \in Day \ {Today} : file'[d] = file[d]
         /\ file'[Today] = Append(base, NewEntry(written, parsed))
<1>1. Appended(base, written, parsed) = Append(base, NewEntry(written, parsed))
  BY EntryFiled
<1>2. file' = [d \in Day |-> IF d = Today THEN Append(base, NewEntry(written, parsed)) ELSE file[d]]
  BY <1>1 DEF Writes, RunlogTypeOK
<1> QED BY <1>2, TodayIsADay

\* No step files an entry ahead of its day.
LEMMA FiledStep ==
  ASSUME RunlogTypeOK, Filed, [RunlogNext]_runlogVars
  PROVE  Filed'
<1>0. /\ Today \in Day /\ Day \subseteq Nat /\ runs \in Nat /\ Today \in Nat /\ instant \in Nat
      /\ Today' \in Nat /\ Today <= Today' /\ file \in [Day -> Seq(Entry)]
  BY TodayIsADay, TodayGoesOn DEF RunlogTypeOK
<1>1. ASSUME NEW written \in Meta, NEW parsed \in Readings(written), NEW base \in Seq(Entry),
             Writes(base, written, parsed), base = file[Today] \/ base = << >>
      PROVE  Filed'
  <2>1. /\ \A d \in Day \ {Today} : file'[d] = file[d]
        /\ runs' = runs + 1 /\ Today' = Today
    BY <1>1, WritesFile DEF Writes, Today
  <2>2. PICK e \in Entry : /\ file'[Today] = Append(base, e)
                           /\ e.run = runs + 1 /\ e.written = written
    BY <1>1, WritesFile, EntryFiled
  <2>3. ASSUME NEW i \in DOMAIN file'[Today]
        PROVE  file'[Today][i].run <= runs' /\ file'[Today][i].written.timestamp < DayLength * (Today + 1)
    <3>1. /\ DOMAIN Append(base, e) = 1 .. (Len(base) + 1) /\ Len(base) \in Nat
          /\ DOMAIN base = 1 .. Len(base)
          /\ \A j \in 1 .. Len(base) : Append(base, e)[j] = base[j]
          /\ Append(base, e)[Len(base) + 1] = e
      <4>1. Append(base, e) \in Seq(Entry) /\ Len(Append(base, e)) = Len(base) + 1
        BY AppendProperties
      <4> QED BY <4>1, AppendProperties, LenProperties
    <3>2. CASE i = Len(base) + 1
      <4>1. file'[Today][i] = e
        BY <2>2, <3>1, <3>2
      <4>2. written.timestamp \in Nat /\ written.timestamp <= instant /\ instant < DayLength * (Today + 1)
        BY <1>0, <1>1, InItsDay DEF Today, Writes, Meta
      <4>3. DayLength * (Today + 1) \in Nat
        BY <1>0, RunlogBounds
      <4> QED BY <1>0, <2>1, <2>2, <4>1, <4>2, <4>3
    <3>3. CASE i # Len(base) + 1
      <4>1. i \in DOMAIN base /\ file'[Today][i] = base[i]
        BY <2>2, <3>1, <3>3
      <4>2. i \in DOMAIN file[Today] /\ base = file[Today]
        BY <1>1, <3>1, <4>1, EmptySeq
      <4>3. base[i] \in Entry
        BY <3>1, <4>1, ElementOfSeq
      <4>4. base[i].run \in Nat /\ base[i].run <= runs /\ base[i].written.timestamp < DayLength * (Today + 1)
        BY <1>0, <4>2, <4>3 DEF Filed, Entry
      <4> QED BY <1>0, <2>1, <4>1, <4>4
    <3> QED BY <3>2, <3>3
  <2>4. ASSUME NEW d \in Day \ {Today}
        PROVE  /\ d > Today' => file'[d] = << >>
               /\ \A i \in DOMAIN file'[d] : /\ file'[d][i].run <= runs'
                                             /\ file'[d][i].written.timestamp < DayLength * (d + 1)
    <3>1. ASSUME NEW i \in DOMAIN file[d] PROVE file[d][i].run <= runs + 1
      <4>1. file[d] \in Seq(Entry) /\ file[d][i] \in Entry
        BY <1>0, LenProperties, ElementOfSeq
      <4> QED BY <1>0, <4>1 DEF Filed, Entry
    <3> QED BY <2>1, <3>1 DEF Filed
  <2> QED BY <1>0, <2>1, <2>3, <2>4 DEF Filed
<1>2. CASE \A d \in Day : file'[d] = file[d] \/ file'[d] = << >>
  <2>1. runs <= runs' /\ runs' \in Nat
    <3>1. runs' = runs \/ runs' = runs + 1
      BY DEF RunlogNext, Lapse, RebuildStats, Prune, Stop, AppendEntry, CommitFails, ReadFails, Appends,
             AppendTagNote, ReadYesterday, ReadToday, runlogVars
    <3> QED BY <1>0, <3>1
  <2>2. ASSUME NEW d \in Day
        PROVE  /\ d > Today' => file'[d] = << >>
               /\ \A i \in DOMAIN file'[d] : /\ file'[d][i].run <= runs'
                                             /\ file'[d][i].written.timestamp < DayLength * (d + 1)
    <3>1. CASE file'[d] = << >>
      BY <3>1
    <3>2. CASE file'[d] = file[d]
      <4>1. d > Today' => d > Today
        BY <1>0
      <4>2. ASSUME NEW i \in DOMAIN file[d] PROVE file[d][i].run <= runs'
        <5>1. file[d] \in Seq(Entry) /\ file[d][i] \in Entry
          BY <1>0, LenProperties, ElementOfSeq
        <5> QED BY <1>0, <2>1, <5>1 DEF Filed, Entry
      <4> QED BY <3>2, <4>1, <4>2 DEF Filed
    <3> QED BY <1>2, <3>1, <3>2
  <2> QED BY <2>2 DEF Filed
<1>3. CASE \/ Lapse \/ RebuildStats \/ Prune \/ (\E healthy \in BOOLEAN : Stop(healthy))
           \/ (\E tag \in Label, trust \in Trust : AppendTagNote(tag, trust))
           \/ (\E fails \in BOOLEAN : ReadYesterday(fails) \/ ReadToday(fails)) \/ UNCHANGED runlogVars
  <2>1. \A d \in Day : file'[d] = file[d] \/ file'[d] = << >>
    BY <1>0, <1>3, ReadersRead DEF Lapse, RebuildStats, Prune, Stop, NoEntries, AppendTagNote, runlogVars
  <2> QED BY <1>2, <2>1
<1> QED BY <1>1, <1>3, EntriesAreWritten, RunlogSteps

\* How many of the present days are newer than d.
Newer(d) == {x \in Present : x > d}

\* They can be counted.
LEMMA NewerIsFinite ==
  ASSUME RunlogTypeOK, NEW d
  PROVE  IsFiniteSet(Newer(d)) /\ Cardinality(Newer(d)) \in Nat /\ IsFiniteSet(Day)
<1>1. IsFiniteSet(Day)
  BY TodayIsADay, FS_Interval DEF Day
<1>2. Newer(d) \in SUBSET Day
  BY DEF Newer, Present
<1> QED BY <1>1, <1>2, FS_Subset, FS_CardinalityType

\* An expired day is over.
LEMMA ExpiredIsPast ==
  ASSUME RunlogTypeOK, Filed, NEW d \in Expired
  PROVE  d \in Day /\ d < Today
<1>1. d \in Day /\ KeepDays > 0 /\ Cardinality(Newer(d)) >= KeepDays
  BY DEF Expired, Present, Newer
<1>2. SUFFICES ASSUME ~(d < Today) PROVE FALSE
  BY <1>1
<1>3. Newer(d) = {}
  BY <1>1, <1>2, TodayIsADay DEF Newer, Present, Filed
<1> QED BY <1>1, <1>3, FS_EmptySet, RunlogBounds

\* Each write, each append and the boot leave the index right; what is pruned is past.
LEMMA IndexStep ==
  ASSUME RunlogTypeOK, NotesCapped, Filed, IndexRight, [RunlogNext]_runlogVars
  PROVE  IndexRight'
<1>0. /\ file \in [Day -> Seq(Entry)] /\ Today \in Day /\ Today \in Nat /\ Day \subseteq Nat
      /\ Today' \in Nat /\ Today <= Today'
      /\ stats \in [Day -> [Label -> Nat]] /\ uncounted \subseteq 1 .. runs /\ runs \in Nat
  BY TodayIsADay, TodayGoesOn DEF RunlogTypeOK
<1>1. CASE \/ Lapse \/ (\E tag \in Label, trust \in Trust : AppendTagNote(tag, trust))
           \/ (\E fails \in BOOLEAN : ReadYesterday(fails) \/ ReadToday(fails)) \/ UNCHANGED runlogVars
  <2>1. UNCHANGED <<boot, file, stats, uncounted, misread>>
    BY <1>1, ReadersRead DEF Lapse, AppendTagNote, runlogVars
  <2>2. \A d \in Day : d >= Today' => d >= Today
    BY <1>0
  <2> QED BY <2>1, <2>2 DEF IndexRight
<1>2. CASE RebuildStats
  <2>1. /\ \A d \in Day, l \in Label : stats'[d][l] = Count(file[d], l)
        /\ uncounted' = {} /\ file' = file
    BY <1>2 DEF RebuildStats
  <2>2. \A d \in Day, l \in Label :
          Readable(file[d], l) => Count(file[d], l) = Cardinality(Standing(file[d], l, {}))
    BY <1>0, FoundAsWritten
  <2> QED BY <2>1, <2>2 DEF IndexRight
<1>3. CASE Prune
  <2>1. /\ boot = "rebuilt" /\ UNCHANGED <<stats, uncounted, misread>> /\ Today' = Today
        /\ \A d \in Day : file'[d] = file[d] \/ (d \in Expired /\ file'[d] = << >>)
    BY <1>3 DEF Prune, Today
  <2>2. \A d \in Expired : ~(d >= Today)
    <3>1. ASSUME NEW d \in Expired PROVE ~(d >= Today)
      <4>1. d \in Nat /\ d < Today
        BY <1>0, ExpiredIsPast
      <4> QED BY <1>0, <4>1
    <3> QED BY <3>1
  <2> QED BY <2>1, <2>2 DEF IndexRight
<1>4. ASSUME NEW healthy \in BOOLEAN, Stop(healthy) PROVE IndexRight'
  BY <1>4 DEF Stop, IndexRight
<1>5. ASSUME NEW written \in Meta, NEW parsed \in Readings(written), NEW base \in Seq(Entry),
             Writes(base, written, parsed)
      PROVE  /\ \A d \in Day \ {Today} : file'[d] = file[d]
             /\ Today' = Today /\ boot = "up"
  BY <1>5, WritesFile DEF Writes, Today
<1>6. ASSUME NEW written \in Meta, NEW parsed \in Readings(written), AppendEntry(written, parsed)
      PROVE  IndexRight'
  <2>0. file[Today] \in Seq(Entry) /\ Writes(file[Today], written, parsed)
    BY <1>0, <1>6 DEF AppendEntry, Appends, Writes
  <2>1. PICK e \in Entry : file'[Today] = Append(file[Today], e) /\ e.run = runs + 1 /\ e.written = written
    <3>1. file'[Today] = Append(file[Today], NewEntry(written, parsed))
      BY <2>0, WritesFile
    <3> QED BY <2>0, <3>1, EntryFiled
  <2>2. /\ UNCHANGED <<uncounted, misread>>
        /\ \A d \in Day \ {Today}, l \in Label : stats'[d][l] = stats[d][l]
        /\ \A l \in Label : stats'[Today][l] = stats[Today][l] + (IF l \in written.labels THEN 1 ELSE 0)
    BY <1>0, <1>6 DEF AppendEntry, Recorded, Meta
  <2>3. runs + 1 \notin uncounted
    BY <1>0
  <2>4. \A l \in Label : Cardinality(Standing(file'[Today], l, uncounted)) =
          Cardinality(Standing(file[Today], l, uncounted)) + (IF l \in written.labels THEN 1 ELSE 0)
    BY <2>0, <2>1, <2>3, OneMore
  <2>5. boot = "up" /\ Today' = Today /\ \A d \in Day \ {Today} : file'[d] = file[d]
    BY <1>5, <2>0
  <2>6. ASSUME NEW d \in Day \ misread', NEW l \in Label, d >= Today' \/ file'[d] # << >>,
               Readable(file'[d], l)
        PROVE  stats'[d][l] = Cardinality(Standing(file'[d], l, uncounted'))
    <3>1. CASE d = Today
      <4>1. Readable(file[Today], l)
        BY <2>0, <2>1, <2>6, <3>1, ReadableBefore
      <4>2. stats[Today][l] = Cardinality(Standing(file[Today], l, uncounted))
        BY <1>0, <2>2, <2>5, <3>1, <4>1 DEF IndexRight
      <4> QED BY <2>2, <2>4, <3>1, <4>2
    <3>2. CASE d # Today
      BY <2>2, <2>5, <2>6, <3>2 DEF IndexRight
    <3> QED BY <3>1, <3>2
  <2> QED BY <2>6 DEF IndexRight
<1>7. ASSUME NEW written \in Meta, NEW parsed \in Readings(written), CommitFails(written, parsed)
      PROVE  IndexRight'
  <2>0. file[Today] \in Seq(Entry) /\ Writes(file[Today], written, parsed)
    BY <1>0, <1>7 DEF CommitFails, Appends, Writes
  <2>1. PICK e \in Entry : file'[Today] = Append(file[Today], e) /\ e.run = runs + 1 /\ e.written = written
    <3>1. file'[Today] = Append(file[Today], NewEntry(written, parsed))
      BY <2>0, WritesFile
    <3> QED BY <2>0, <3>1, EntryFiled
  <2>2. UNCHANGED <<stats, misread>> /\ uncounted' = uncounted \cup {runs + 1}
    BY <1>7 DEF CommitFails
  <2>3. ASSUME NEW d \in Day, NEW l
        PROVE  Standing(file[d], l, uncounted') = Standing(file[d], l, uncounted)
    <3>1. ASSUME NEW i \in DOMAIN file[d] PROVE file[d][i].run # runs + 1
      <4>1. file[d] \in Seq(Entry) /\ file[d][i] \in Entry
        BY <1>0, LenProperties, ElementOfSeq
      <4>2. file[d][i].run \in Nat /\ file[d][i].run <= runs
        BY <4>1 DEF Filed, Entry
      <4> QED BY <1>0, <4>2
    <3> QED BY <2>2, <3>1 DEF Standing
  <2>4. \A l \in Label : Cardinality(Standing(file'[Today], l, uncounted')) =
          Cardinality(Standing(file[Today], l, uncounted))
    <3>1. e.run \in uncounted'
      BY <2>1, <2>2
    <3>2. \A l \in Label : Cardinality(Standing(file'[Today], l, uncounted')) =
            Cardinality(Standing(file[Today], l, uncounted')) + 0
      BY <2>0, <2>1, <3>1, OneMore
    <3>3. \A l \in Label : Cardinality(Standing(file[Today], l, uncounted')) \in Nat
      BY <2>0, StandingIsFinite
    <3> QED BY <1>0, <2>3, <3>2, <3>3
  <2>5. boot = "up" /\ Today' = Today /\ \A d \in Day \ {Today} : file'[d] = file[d]
    BY <1>5, <2>0
  <2>6. ASSUME NEW d \in Day \ misread', NEW l \in Label, d >= Today' \/ file'[d] # << >>,
               Readable(file'[d], l)
        PROVE  stats'[d][l] = Cardinality(Standing(file'[d], l, uncounted'))
    <3>1. CASE d = Today
      <4>1. Readable(file[Today], l)
        BY <2>0, <2>1, <2>6, <3>1, ReadableBefore
      <4>2. stats[Today][l] = Cardinality(Standing(file[Today], l, uncounted))
        BY <1>0, <2>2, <2>5, <3>1, <4>1 DEF IndexRight
      <4> QED BY <2>2, <2>4, <3>1, <4>2
    <3>2. CASE d # Today
      BY <2>2, <2>3, <2>5, <2>6, <3>2 DEF IndexRight
    <3> QED BY <3>1, <3>2
  <2> QED BY <2>6 DEF IndexRight
<1>8. ASSUME NEW written \in Meta, NEW parsed \in Readings(written), ReadFails(written, parsed)
      PROVE  IndexRight'
  <2>0. << >> \in Seq(Entry) /\ Writes(<< >>, written, parsed)
    BY <1>8, EmptySeq DEF ReadFails, Appends, Writes
  <2>1. boot = "up" /\ Today' = Today /\ \A d \in Day \ {Today} : file'[d] = file[d]
    BY <1>5, <2>0
  <2>2. /\ uncounted' = uncounted /\ misread' = misread \cup {Today}
        /\ \A d \in Day \ {Today}, l \in Label : stats'[d][l] = stats[d][l]
    BY <1>0, <1>8 DEF ReadFails, Recorded
  <2> QED BY <2>1, <2>2 DEF IndexRight
<1> QED BY <1>1, <1>2, <1>3, <1>4, <1>6, <1>7, <1>8, RunlogSteps

\* A step of the reader reads what it should; an append or the end of the process is the end of it.
LEMMA ViewStep ==
  ASSUME RunlogTypeOK, Filed, ViewRight, [RunlogNext]_runlogVars
  PROVE  ViewRight'
<1>0. /\ Today \in Day /\ Today \in Nat /\ Day \subseteq Nat /\ file \in [Day -> Seq(Entry)]
      /\ Today' \in Nat /\ Today <= Today' /\ view \in View /\ view' \in View
  BY TodayIsADay, TodayGoesOn, ViewTyped DEF RunlogTypeOK
<1>1. CASE view' = NoView
  BY <1>1 DEF ViewRight, NoView
<1>2. CASE Lapse \/ (\E tag \in Label, trust \in Trust : AppendTagNote(tag, trust)) \/ UNCHANGED runlogVars
  <2>1. UNCHANGED <<boot, file, view>>
    BY <1>2 DEF Lapse, AppendTagNote, runlogVars
  <2>2. view.closed \in Nat
    BY <1>0 DEF View
  <2>3. view.closed <= Today => view.closed <= Today'
    BY <1>0, <2>2
  <2> QED BY <2>1, <2>3 DEF ViewRight
<1>3. CASE RebuildStats \/ Prune
  <2>1. boot # "up" /\ view' = view
    BY <1>3 DEF RebuildStats, Prune
  <2>2. view.at = "none"
    BY <2>1 DEF ViewRight
  <2> QED BY <2>1, <2>2 DEF ViewRight
<1>4. CASE \/ (\E healthy \in BOOLEAN : Stop(healthy))
           \/ \E written \in Meta : \E parsed \in Readings(written) :
                \/ AppendEntry(written, parsed) \/ CommitFails(written, parsed)
                \/ ReadFails(written, parsed)
  BY <1>1, <1>4 DEF Stop, AppendEntry, CommitFails, ReadFails, Appends
<1>5. ASSUME NEW fails \in BOOLEAN, ReadYesterday(fails) PROVE ViewRight'
  <2>1. UNCHANGED <<instant, file>> /\ boot' = "up" /\ Today' = Today
    BY <1>5 DEF ReadYesterday, Today
  <2>2. /\ view'.at = "half" /\ view'.opened = Today /\ view'.closed = Today
        /\ view'.text = DayText(Today - 1, fails) /\ view'.whole = ~fails
    BY <1>5, ReaderHas
  <2>3. ASSUME Today > 0, ~fails PROVE ToSet(file[Today - 1]) \subseteq ToSet(view'.text)
    <3>1. Today - 1 \in Day
      BY <1>0, <2>3, TodayIsADay DEF Day
    <3> QED BY <2>2, <2>3, <3>1 DEF DayText
  <2> QED BY <1>0, <2>1, <2>2, <2>3 DEF ViewRight
<1>6. ASSUME NEW fails \in BOOLEAN, ReadToday(fails) PROVE ViewRight'
  <2>1. UNCHANGED <<instant, file, boot>> /\ view.at = "half" /\ Today' = Today
    BY <1>6 DEF ReadToday, Today
  <2>2. /\ view'.at = "read" /\ view'.opened = view.opened /\ view'.closed = Today
        /\ view'.text = view.text \o DayText(Today, fails) /\ view'.whole = (view.whole /\ ~fails)
    BY <1>6, ReaderHas
  <2>3. ToSet(view'.text) = ToSet(view.text) \cup ToSet(DayText(Today, fails))
    <3>1. view.text \in Seq(Entry) /\ DayText(Today, fails) \in Seq(Entry)
      BY <1>0, DayTextTyped DEF View
    <3> QED BY <2>2, <3>1, SetOfConcat
  <2>4. ~fails => DayText(Today, fails) = file[Today]
    BY <1>0 DEF DayText
  <2>5. \A d \in Day : d > Today => file[d] = << >>
    BY DEF Filed
  <2>6. view.opened \in Nat /\ view.closed \in Nat /\ view.whole \in BOOLEAN
    BY <1>0 DEF View
  <2>7. boot = "up" /\ view.opened <= view.closed /\ view.closed <= Today
    BY <2>1 DEF ViewRight
  <2>8. view.opened <= Today
    BY <1>0, <2>6, <2>7
  <2>9. view.whole /\ view.opened > 0 => ToSet(file[view.opened - 1]) \subseteq ToSet(view.text)
    BY <2>1 DEF ViewRight
  <2> QED BY <1>0, <2>1, <2>2, <2>3, <2>4, <2>5, <2>7, <2>8, <2>9 DEF ViewRight
<1> QED BY <1>2, <1>3, <1>4, <1>5, <1>6, RunlogSteps

----------------------------------------------------------------------------
(* What is read back, and what is kept.                                    *)

\* It starts with no file.
LEMMA RunlogInitial == RunlogInit => RunlogIInv
<1> SUFFICES ASSUME RunlogInit PROVE RunlogIInv
  OBVIOUS
<1>1. << >> \in Seq(Entry) /\ << >> \in Seq(Note) /\ Len(<< >>) = 0
  BY EmptySeq
<1>2. RunlogTypeOK
  <2>1. 0 \in Day
    BY RunlogBounds, InItsDay DEF Day
  <2>2. NoView \in View
    BY <1>1, <2>1 DEF NoView, View
  <2> QED BY <1>1, <2>2, RunlogBounds DEF RunlogInit, RunlogTypeOK, NoEntries, Uncounted
<1>3. NotesCapped
  BY <1>1, RunlogBounds DEF RunlogInit, NotesCapped
<1>4. Filed /\ IndexRight /\ ViewRight
  BY DEF RunlogInit, Filed, IndexRight, ViewRight, NoView, NoEntries
<1> QED BY <1>2, <1>3, <1>4 DEF RunlogIInv

\* And so it goes on.
LEMMA RunlogInductive ==
  ASSUME RunlogIInv, [RunlogNext]_runlogVars
  PROVE  RunlogIInv'
BY RunlogTypeStep, FiledStep, IndexStep, ViewStep DEF RunlogIInv

\* The strengthening is an invariant of the specification.
LEMMA RunlogInvariant == RunlogSpec => []RunlogIInv
BY RunlogInitial, RunlogInductive, PTL DEF RunlogSpec

\* The counts are the entries of the files.
LEMMA StatsMatch ==
  ASSUME RunlogIInv
  PROVE  StatsMatchFiles
BY DEF RunlogIInv, IndexRight, Readable, StatsMatchFiles, Standing, Present

\* What lies in neither file of a window is of a day that midnight ended between the reads, or it was
\* received before the day of the first.
LEMMA WindowWhole ==
  ASSUME RunlogIInv
  PROVE  ThreadWindowWhole
<1> SUFFICES ASSUME view.at = "read", view.whole, NEW d \in Day, NEW l \in Label,
                    NEW since \in 0 .. instant, NEW e \in ToSet(file[d]),
                    since + 1 >= DayLength * (view.opened - 1),
                    e.written \in ToSet(e.parsed), e.written.timestamp > since, l \in e.written.labels,
                    ~(view.opened <= d /\ d < view.closed)
             PROVE  e \in TailEntries(since, l)
  BY DEF ThreadWindowWhole
<1>1. /\ file[d] \in Seq(Entry) /\ Day \subseteq Nat /\ d \in Nat
      /\ view.opened \in Nat /\ view.closed \in Nat /\ view.opened \in Day /\ view.closed \in Day
  BY TodayIsADay DEF RunlogIInv, RunlogTypeOK, View
<1>2. PICK i \in DOMAIN file[d] : e = file[d][i]
  BY DEF ToSet
<1>3. e \in Entry /\ file[d] # << >>
  BY <1>1, <1>2, LenProperties, ElementOfSeq
<1>4. d <= view.closed
  BY <1>1, <1>3 DEF RunlogIInv, ViewRight
<1>5. e \in ToSet(view.text)
  <2>1. CASE d = view.closed
    BY <2>1 DEF RunlogIInv, ViewRight
  <2>2. CASE d < view.opened
    <3>1. e.written.timestamp \in Nat /\ e.written.timestamp < DayLength * (d + 1)
      BY <1>2, <1>3 DEF RunlogIInv, Filed, Entry, Meta
    <3>2. view.opened - 1 \in Nat /\ d + 1 \in Nat /\ DayLength \in Nat /\ instant \in Nat
      <4>1. instant \in Nat
        BY RunlogBounds DEF RunlogIInv, RunlogTypeOK
      <4>2. view.opened - 1 \in Nat
        BY <1>1, <2>2
      <4> QED BY <1>1, <4>1, <4>2, RunlogBounds
    <3> DEFINE opens == DayLength * (view.opened - 1)
               ends == DayLength * (d + 1)
    <3>3. opens \in Nat /\ ends \in Nat
      BY <3>2
    <3> HIDE DEF opens, ends
    <3>4. opens < ends
      <4>1. since \in Nat /\ since + 1 >= opens /\ e.written.timestamp < ends
        BY <3>1, <3>2 DEF opens, ends
      <4> QED BY <3>1, <3>3, <4>1
    <3>5. DayLength * (view.opened - 1) < DayLength * (d + 1)
      BY <3>4 DEF opens, ends
    <3>6. view.opened - 1 < d + 1
      BY <1>1, <3>2, <3>5, DaysInOrder
    <3>7. d = view.opened - 1 /\ view.opened > 0
      BY <1>1, <2>2, <3>6
    <3> QED BY <3>7 DEF RunlogIInv, ViewRight
  <2> QED BY <1>1, <1>4, <2>1, <2>2
<1> QED BY <1>5 DEF TailEntries

\* The newest KeepDays days that have a file outlive a pruning.
LEMMA NewestStay ==
  ASSUME RunlogTypeOK, NEW d \in Expired
  PROVE  /\ KeepDays > 0
         /\ IsFiniteSet(Newer(d) \ Expired) /\ Cardinality(Newer(d) \ Expired) >= KeepDays
<1>1. Expired \subseteq Day /\ Day = 0 .. (MaxInstant \div DayLength) /\ MaxInstant \div DayLength \in Nat
      /\ Day \subseteq Nat
  BY TodayIsADay DEF Expired, Present, Day
<1>2. PICK m \in Expired : \A x \in Expired : x <= m
  BY <1>1, Greatest
<1>3. KeepDays > 0 /\ Cardinality(Newer(m)) >= KeepDays
  BY <1>2 DEF Expired, Newer
<1>4. Newer(m) \subseteq Newer(d) \ Expired
  <2>1. ASSUME NEW x \in Newer(m) PROVE x \in Newer(d) /\ x \notin Expired
    <3>1. x \in Present /\ x > m /\ x \in Nat /\ m \in Nat /\ d \in Nat /\ d <= m
      BY <1>1, <1>2 DEF Newer, Present
    <3>2. x > d /\ ~(x <= m)
      BY <3>1
    <3> QED BY <1>2, <3>1, <3>2 DEF Newer
  <2> QED BY <2>1
<1>5. IsFiniteSet(Newer(d) \ Expired)
  BY NewerIsFinite, FS_Subset
<1>6. Cardinality(Newer(m)) <= Cardinality(Newer(d) \ Expired) /\ Cardinality(Newer(d) \ Expired) \in Nat
  BY <1>4, <1>5, FS_Subset, FS_CardinalityType
<1> QED BY <1>3, <1>5, <1>6, NewerIsFinite, RunlogBounds

\* What a step without a fault leaves of a day.
DayKept(d) ==
  \/ IsPrefix(file[d], file'[d])
  \/ file'[d] = << >> /\ KeepDays > 0
       /\ Cardinality({x \in Day : x > d /\ file'[x] # << >>}) >= KeepDays

\* Nothing but a pruning takes a file, and it takes an old one.
LEMMA DaysKept ==
  ASSUME RunlogTypeOK, [RunlogNext]_runlogVars, trouble' = trouble, NEW d \in Day
  PROVE  DayKept(d)
<1>0. file[d] \in Seq(Entry) /\ Today \in Day /\ trouble \in Nat
  BY TodayIsADay DEF RunlogTypeOK
<1>1. CASE file'[d] = file[d]
  BY <1>0, <1>1, PrefixOfItself DEF DayKept
<1>2. CASE Lapse \/ RebuildStats \/ (\E tag \in Label, trust \in Trust : AppendTagNote(tag, trust))
           \/ (\E fails \in BOOLEAN : ReadYesterday(fails) \/ ReadToday(fails)) \/ UNCHANGED runlogVars
  BY <1>1, <1>2, ReadersRead DEF Lapse, RebuildStats, AppendTagNote, runlogVars
<1>3. CASE Prune
  <2>1. /\ \A x \in Day : x \notin Expired => file'[x] = file[x]
        /\ file'[d] = file[d] \/ (d \in Expired /\ file'[d] = << >>)
    BY <1>3 DEF Prune
  <2>2. ASSUME d \in Expired, file'[d] = << >> PROVE DayKept(d)
    <3>1. KeepDays > 0 /\ Cardinality(Newer(d) \ Expired) >= KeepDays /\ IsFiniteSet(Newer(d) \ Expired)
      BY <2>2, NewestStay
    <3>2. Newer(d) \ Expired \subseteq {x \in Day : x > d /\ file'[x] # << >>}
      BY <2>1 DEF Newer, Present
    <3>3. IsFiniteSet({x \in Day : x > d /\ file'[x] # << >>})
      BY NewerIsFinite, FS_Subset
    <3>4. Cardinality(Newer(d) \ Expired) <= Cardinality({x \in Day : x > d /\ file'[x] # << >>})
      BY <3>2, <3>3, FS_Subset
    <3>5. Cardinality(Newer(d) \ Expired) \in Nat
          /\ Cardinality({x \in Day : x > d /\ file'[x] # << >>}) \in Nat
      BY <3>1, <3>3, FS_CardinalityType
    <3> QED BY <2>2, <3>1, <3>4, <3>5, RunlogBounds DEF DayKept
  <2> QED BY <1>1, <2>1, <2>2
<1>4. ASSUME NEW healthy \in BOOLEAN, Stop(healthy) PROVE FALSE
  BY <1>0, <1>4 DEF Stop, Trouble
<1>5. ASSUME NEW written \in Meta, NEW parsed \in Readings(written),
             Writes(file[Today], written, parsed)
      PROVE  DayKept(d)
  <2>1. file[Today] \in Seq(Entry)
    BY <1>0 DEF RunlogTypeOK
  <2>2. CASE d = Today
    <3>1. file'[d] = Append(file[d], NewEntry(written, parsed)) /\ NewEntry(written, parsed) \in Entry
      BY <1>5, <2>1, <2>2, WritesFile, EntryFiled
    <3> QED BY <1>0, <3>1, PrefixOfAppend DEF DayKept
  <2>3. CASE d # Today
    <3>1. file'[d] = file[d]
      BY <1>5, <2>1, <2>3, WritesFile
    <3> QED BY <1>1, <3>1
  <2> QED BY <2>2, <2>3
<1> QED BY <1>2, <1>3, <1>4, <1>5, EntriesAreWritten, RunlogSteps

\* Nothing but the cap takes a note, and it takes the oldest.
LEMMA NotesKept ==
  ASSUME RunlogTypeOK, NotesCapped, [RunlogNext]_runlogVars, trouble' = trouble
  PROVE  \/ IsPrefix(notes, notes')
         \/ Len(notes) = MaxNotes /\ MaxNotes > 0 /\ IsPrefix(Tail(notes), notes')
<1>0. notes \in Seq(Note) /\ trouble \in Nat
  BY DEF RunlogTypeOK
<1>1. CASE notes' = notes
  BY <1>0, <1>1, PrefixOfItself
<1>2. ASSUME NEW tag \in Label, NEW trust \in Trust, AppendTagNote(tag, trust)
      PROVE  \/ IsPrefix(notes, notes')
             \/ Len(notes) = MaxNotes /\ MaxNotes > 0 /\ IsPrefix(Tail(notes), notes')
  <2>1. [tag |-> tag, trust |-> trust] \in Note
    BY DEF Note
  <2> QED BY <1>0, <1>2, <2>1, NoteFiled DEF AppendTagNote
<1>3. ASSUME NEW healthy \in BOOLEAN, Stop(healthy) PROVE FALSE
  BY <1>0, <1>3 DEF Stop, Trouble
<1>4. CASE \/ Lapse \/ RebuildStats \/ Prune \/ UNCHANGED runlogVars
           \/ \E written \in Meta : \E parsed \in Readings(written) :
                \/ AppendEntry(written, parsed) \/ CommitFails(written, parsed)
                \/ ReadFails(written, parsed)
           \/ \E fails \in BOOLEAN : ReadYesterday(fails) \/ ReadToday(fails)
  BY <1>1, <1>4, ReadersRead DEF Lapse, RebuildStats, Prune, AppendEntry, CommitFails, ReadFails, runlogVars
<1> QED BY <1>2, <1>3, <1>4, RunlogSteps

\* Files hold entries, the catalogue notes and the index numbers, for days that there are.
THEOREM RunlogTypeCorrect == RunlogSpec => []RunlogTypeOK
BY RunlogInvariant, PTL DEF RunlogIInv

\* runlog/mod.rs rebuild_stats, append, entries_meta, tail_entries: for any length of the day,
\* retention, number of entries and whatever their text reads back as, the counts are those of the
\* entries that were written, but for appends that failed, days a read failed on and labels that do
\* not read back; and a thread since the day before a read is shown whole, but for a day that
\* midnight ended between the two files, entries that do not read back and files that could not be read.
THEOREM ReadsBack == RunlogSpec => []RunlogReadsBack
<1>1. RunlogIInv => RunlogReadsBack
  BY StatsMatch, WindowWhole DEF RunlogReadsBack
<1> QED BY RunlogInvariant, <1>1, PTL

\* runlog/mod.rs append, append_tag_note, prune_old_days: for the same, a step without a fault leaves
\* every file at the front of what it becomes, or drops it for KeepDays newer ones; it drops at most the
\* oldest note of a full catalogue.
THEOREM KeepsHistory == RunlogSpec => HistoryKept
<1>1. RunlogIInv /\ [RunlogNext]_runlogVars =>
        [trouble' = trouble =>
           /\ \A d \in Day :
                \/ IsPrefix(file[d], file'[d])
                \/ file'[d] = << >> /\ KeepDays > 0
                     /\ Cardinality({x \in Day : x > d /\ file'[x] # << >>}) >= KeepDays
           /\ \/ IsPrefix(notes, notes')
              \/ Len(notes) = MaxNotes /\ MaxNotes > 0 /\ IsPrefix(Tail(notes), notes')]_runlogVars
  BY DaysKept, NotesKept DEF RunlogIInv, DayKept
<1> QED BY RunlogInvariant, <1>1, PTL DEF RunlogSpec, HistoryKept

----------------------------------------------------------------------------
(* The six together.                                                       *)

\* A step of the six is a step of one of them, and none of the others.
THEOREM PartsKeepToThemselves ==
  Spec => SupervisorSpec /\ SourcesSpec /\ RunlogSpec /\ WorkersSpec /\ SessionsSpec /\ EngineSpec
<1>1. Init => /\ SupervisorInit /\ SourcesInit /\ RunlogInit /\ WorkersInit /\ SessionsInit
              /\ EngineInit
  BY DEF Init
<1>2. [Next]_partsVars =>
        /\ [SupervisorNext]_supervisorVars /\ [SourcesNext]_sourcesVars /\ [RunlogNext]_runlogVars
        /\ [WorkersNext]_workersVars /\ [SessionsNext]_sessionsVars /\ [EngineNext]_engineVars
  BY DEF Next, Supervises, Triggers, Records, Delegates, Resumes, Decides, partsVars
<1> QED BY <1>1, <1>2, PTL DEF Spec, SupervisorSpec, SourcesSpec, RunlogSpec, WorkersSpec,
                              SessionsSpec, EngineSpec

\* Whatever the six do side by side, each keeps its types: harness/modules.rs, the sources and the
\* reload (sources/cron.rs, harness/ingest.rs), runlog/mod.rs, the workers and the sticky sessions
\* of harness/mod.rs, and the way of a decision from the bridge to the queue.
THEOREM PartsTypeCorrect == Spec => []TypeOK
BY PartsKeepToThemselves, SupervisorTypeCorrect, SourcesTypeCorrect, RunlogTypeCorrect,
   WorkersTypeCorrect, SessionsTypeCorrect, EngineTypeCorrect, PTL DEF TypeOK
=============================================================================
