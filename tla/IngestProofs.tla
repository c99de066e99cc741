------------------------------ MODULE IngestProofs ------------------------------
(***************************************************************************)
(* Theorems about module Ingest: every variable keeps its type, a message  *)
(* is never in two rows, one whose ingestion ended without an error is     *)
(* lost in known ways only, there is one open batch per key, rows are held *)
(* to the dispatch window, a chat never speeds up within a day, and every  *)
(* step is one of MessageLifecycle; for any policies, keys, credits,       *)
(* retries, queue depth and number of faults.                              *)
(*                                                                         *)
(* All rest on the order of the messages: what is stored is older than     *)
(* what is still to be ingested, and what a poll brings is newer than the  *)
(* watermark, which is not behind what is stored.  One open batch rests on *)
(* what the bus has chosen staying true while the loop runs; the pace of a *)
(* chat on every row having its own credit, counted before it was opened;  *)
(* the refinement on what the fate of a message says of where it is.       *)
(***************************************************************************)
EXTENDS Ingest, StimulusQueueProofs, SequenceTheorems, WellFoundedInduction, TLAPS

----------------------------------------------------------------------------
(* The invariant.                                                          *)

Typed ==
  /\ policy \in Policies
  /\ now \in 0 .. MaxTime /\ firedAt \in 0 .. MaxTime
  /\ keyOf \in Seq(Key \cup {NoKey}) /\ Len(keyOf) <= MaxMsg
  /\ taken \in 0 .. Len(keyOf) /\ watermark \in 0 .. Len(keyOf)
  /\ Rows(table)
  /\ items \in [Id -> Seq(Msg)] /\ seenItems \in Seq(Msg)
  /\ cands \in Seq(Msg) /\ index \in Nat /\ index + Len(cands) <= MaxMsg
  /\ chosen \subseteq Id
  /\ step \in {"idle", "mark", "candidate", "supersede", "fold", "credit", "spend", "enqueue"}
  /\ step = "idle" <=> cands = << >>
  /\ loop \in {"boot", "idle", "wake"} /\ (loop = "wake" => wake \in Id)
  /\ accepted \subseteq 1 .. taken

\* What is stored was taken, and is older than what is still to be ingested; of a polled
\* duty it is not newer than the watermark.
Ordered ==
  /\ \A p, q \in 1 .. Len(cands) : p < q => cands[p] < cands[q]
  /\ \A p \in 1 .. Len(cands) : cands[p] <= taken
  /\ \A i \in Id : \A p \in DOMAIN items[i] :
       /\ items[i][p] <= taken
       /\ policy.polled => items[i][p] <= watermark
       /\ \A q \in 1 .. Len(cands) : items[i][p] < cands[q]
  /\ policy.polled /\ step # "mark" => \A p \in 1 .. Len(cands) : cands[p] <= watermark

\* A fold writes back what the row holds, or the row is gone.
Folding ==
  step = "fold" =>
    /\ policy.mode # "latest"
    /\ \E acc \in Id : chosen = {acc} /\ (Present(table, acc) => items[acc] = seenItems)

\* Under `latest` a row holds one message, and what is superseded is older, of this key.
Superseding ==
  /\ policy.mode = "latest" => \A i \in Id : Len(items[i]) <= 1
  /\ step = "supersede" =>
       /\ policy.mode = "latest" /\ ThisKey # NoKey
       /\ \A i \in chosen : \A p \in DOMAIN items[i] : keyOf[items[i][p]] = ThisKey

\* What a leased row holds was heard, or came too late for its wake.
Leased ==
  /\ \A i \in Dispatched(table) : Items(i) \subseteq heard \cup gone
  /\ loop = "wake" => /\ Items(wake) \subseteq heard \cup gone
                      /\ table[wake].status \notin {"pending", "absent"}

IngestIInv ==
  Typed /\ Ordered /\ NoDuplicate /\ Folding /\ Superseding /\ Leased /\ LossesAreKnown

----------------------------------------------------------------------------
(* Types.                                                                  *)

\* The head of a sequence of messages is its first, and its tail the others in their order.
LEMMA TailFits ==
  ASSUME NEW s \in Seq(Msg), s # << >>
  PROVE  /\ Len(s) \in Nat \ {0} /\ Head(s) \in Msg /\ Head(s) = s[1]
         /\ Tail(s) \in Seq(Msg) /\ Len(Tail(s)) = Len(s) - 1
         /\ \A p \in 1 .. Len(Tail(s)) : p + 1 \in 1 .. Len(s) /\ Tail(s)[p] = s[p + 1]
         /\ Tail(s) = << >> <=> Len(s) = 1
<1>1. Len(s) \in Nat \ {0} /\ 1 \in 1 .. Len(s)
  OBVIOUS
<1>2. Head(s) = s[1] /\ s[1] \in Msg
  BY <1>1
<1>3. Tail(s) \in Seq(Msg) /\ Len(Tail(s)) = Len(s) - 1
  BY <1>1
<1>4. \A p \in 1 .. Len(Tail(s)) : p + 1 \in 1 .. Len(s) /\ Tail(s)[p] = s[p + 1]
  BY <1>1, <1>3
<1>5. Tail(s) = << >> <=> Len(s) = 1
  <2>1. Tail(s) = << >> <=> Len(Tail(s)) = 0
    BY <1>3, EmptySeq
  <2> QED BY <1>1, <1>3, <2>1
<1> QED BY <1>1, <1>2, <1>3, <1>4, <1>5

\* The head is the oldest of the candidates.
LEMMA HeadFits ==
  ASSUME Typed, Ordered, cands # << >>
  PROVE  This \in Msg /\ This = cands[1] /\ 1 \in 1 .. Len(cands) /\ This \in 1 .. taken
<1>1. cands \in Seq(Msg) /\ taken \in Nat
  BY DEF Typed
<1>2. Len(cands) \in Nat \ {0} /\ This \in Msg /\ This = cands[1]
  BY <1>1, TailFits DEF This
<1>3. 1 \in 1 .. Len(cands)
  BY <1>2
<1>4. This <= taken
  BY <1>2, <1>3 DEF Ordered
<1> QED BY <1>1, <1>2, <1>3, <1>4, IngestAssumption DEF Msg

\* While a candidate is in hand, the id its row would get is one of the ids.
LEMMA IdTaken ==
  ASSUME Typed
  PROVE  step # "idle" => StimulusId(firedAt, index) \in Id
<1>1. index \in 0 .. MaxMsg
  <2>1. cands \in Seq(Msg) /\ index \in Nat /\ index + Len(cands) <= MaxMsg
    BY DEF Typed
  <2>2. Len(cands) \in Nat
    BY <2>1
  <2> QED BY <2>1, <2>2, IngestAssumption
<1>2. firedAt \in 0 .. MaxTime
  BY DEF Typed
<1> QED BY <1>1, <1>2, IngestAssumption

\* An empty database and an ingestor at rest have their types.
LEMMA InitTyped == Init => Typed
<1> SUFFICES ASSUME Init PROVE Typed
  OBVIOUS
<1>1. Rows(table)
  BY DEF Init, EmptyTable, NoRow, Rows, IsRow
<1>2. /\ 0 \in 0 .. MaxTime /\ Len(keyOf) <= MaxMsg /\ 0 \in 0 .. Len(keyOf)
      /\ index + Len(cands) <= MaxMsg
  BY IngestAssumption DEF Init
<1>3. /\ keyOf \in Seq(Key \cup {NoKey}) /\ items \in [Id -> Seq(Msg)] /\ seenItems \in Seq(Msg)
      /\ cands \in Seq(Msg)
  BY DEF Init
<1> QED BY <1>1, <1>2, <1>3 DEF Init, Typed

\* The end of one candidate's ingestion.
LEMMA NextTyped ==
  ASSUME Typed, Ordered, step # "idle", NextCandidate
  PROVE  /\ cands' \in Seq(Msg) /\ index' \in Nat /\ index' + Len(cands') <= MaxMsg
         /\ chosen' = {} /\ seenItems' = << >>
         /\ step' \in {"idle", "candidate"} /\ (step' = "idle" <=> cands' = << >>)
         /\ accepted' \subseteq 1 .. taken
<1>1. cands \in Seq(Msg) /\ cands # << >>
  BY DEF Typed
<1>2. /\ Len(cands) \in Nat \ {0} /\ Tail(cands) \in Seq(Msg) /\ Len(Tail(cands)) = Len(cands) - 1
      /\ Tail(cands) = << >> <=> Len(cands) = 1
  BY <1>1, TailFits
<1>3. index \in Nat /\ index + Len(cands) <= MaxMsg
  BY DEF Typed
<1>4. index + 1 \in Nat /\ index + 1 + Len(Tail(cands)) <= MaxMsg
  BY <1>2, <1>3, IngestAssumption
<1>5. This \in 1 .. taken
  BY <1>1, HeadFits
<1> QED BY <1>2, <1>4, <1>5 DEF NextCandidate, Typed

\* What a poll or a post brings.
LEMMA ArrivalTyped ==
  ASSUME Typed, Ordered, (\E k \in Key \cup {NoKey} : Receive(k) \/ Publish(k)) \/ Poll
  PROVE  Typed'
<1>0. /\ keyOf \in Seq(Key \cup {NoKey}) /\ Len(keyOf) \in 0 .. MaxMsg /\ MaxMsg \in Nat
      /\ taken \in 0 .. Len(keyOf) /\ watermark \in 0 .. Len(keyOf) /\ accepted \subseteq 1 .. taken
  <2>1. MaxMsg \in Nat
    BY IngestAssumption
  <2>2. /\ keyOf \in Seq(Key \cup {NoKey}) /\ Len(keyOf) <= MaxMsg
        /\ taken \in 0 .. Len(keyOf) /\ watermark \in 0 .. Len(keyOf) /\ accepted \subseteq 1 .. taken
    BY DEF Typed
  <2>3. Len(keyOf) \in Nat
    BY <2>2
  <2> QED BY <2>1, <2>2, <2>3
<1>1. ASSUME NEW k \in Key \cup {NoKey}, Receive(k) \/ Publish(k)
      PROVE  /\ keyOf' \in Seq(Key \cup {NoKey}) /\ Len(keyOf') <= MaxMsg
             /\ Len(keyOf') \in Msg /\ taken \in 0 .. Len(keyOf') /\ watermark \in 0 .. Len(keyOf')
             /\ 1 .. taken \subseteq 1 .. Len(keyOf')
  <2>1. Len(keyOf) < MaxMsg /\ keyOf' = Append(keyOf, k)
    BY <1>1 DEF Receive, Publish
  <2>2. keyOf' \in Seq(Key \cup {NoKey}) /\ Len(keyOf') = Len(keyOf) + 1
    BY <1>0, <2>1
  <2> DEFINE n == Len(keyOf)
  <2>3. n \in 0 .. MaxMsg /\ n < MaxMsg /\ taken \in 0 .. n /\ watermark \in 0 .. n
    BY <1>0, <2>1
  <2> HIDE DEF n
  <2>4. /\ n + 1 <= MaxMsg /\ n + 1 \in 1 .. MaxMsg
        /\ taken \in 0 .. (n + 1) /\ watermark \in 0 .. (n + 1)
        /\ 1 .. taken \subseteq 1 .. (n + 1)
    BY <1>0, <2>3
  <2>5. Len(keyOf') = n + 1
    BY <2>2 DEF n
  <2>6. keyOf' \in Seq(Key \cup {NoKey})
    BY <2>2
  <2> QED BY <2>4, <2>5, <2>6 DEF Msg
<1>2. ASSUME NEW k \in Key \cup {NoKey}, Publish(k) PROVE Typed'
  BY <1>1, <1>2 DEF Publish, Typed, durable, ingestor, mind
<1>3. ASSUME NEW k \in Key \cup {NoKey}, Receive(k) PROVE Typed'
  <2>1. /\ cands' = <<Len(keyOf')>> /\ cands' \in Seq(Msg) /\ Len(cands') = 1 /\ cands' # << >>
        /\ index' = 0 /\ 0 + 1 <= MaxMsg
    BY <1>0, <1>1, <1>3 DEF Receive, Msg
  <2>2. taken' \in 0 .. Len(keyOf') /\ accepted' \subseteq 1 .. taken'
    BY <1>0, <1>1, <1>3 DEF Receive, Msg
  <2> QED BY <1>1, <1>3, <2>1, <2>2 DEF Receive, Typed, durable, mind
<1>4. CASE Poll
  <2>1. Len(keyOf) - watermark \in 1 .. MaxMsg
    BY <1>0, <1>4 DEF Poll
  <2>2. cands' = [n \in 1 .. (Len(keyOf) - watermark) |-> watermark + n]
    BY <1>4 DEF Poll
  <2>3. \A n \in 1 .. (Len(keyOf) - watermark) : watermark + n \in Msg
    BY <1>0, <2>1 DEF Msg
  <2>4. cands' \in Seq(Msg) /\ Len(cands') = Len(keyOf) - watermark
    BY <2>1, <2>2, <2>3
  <2>5. /\ cands' # << >> /\ index' = 0 /\ 0 + Len(cands') <= MaxMsg
    BY <1>4, <2>1, <2>4 DEF Poll
  <2>6. taken' \in 0 .. Len(keyOf) /\ accepted' \subseteq 1 .. taken'
    BY <1>0, <1>4 DEF Poll
  <2> QED BY <1>4, <2>4, <2>5, <2>6 DEF Poll, Typed, durable, mind
<1> QED BY <1>2, <1>3, <1>4

\* The newest candidate is the last.
LEMMA NewestIsLast ==
  ASSUME Typed, Ordered, cands # << >>
  PROVE  /\ Newest \in 1 .. taken /\ Newest \in ToSet(cands)
         /\ \A p \in 1 .. Len(cands) : cands[p] <= Newest
<1>1. cands \in Seq(Msg) /\ Len(cands) \in Nat \ {0} /\ taken \in Nat
  BY TailFits DEF Typed
<1>2. ToSet(cands) = {cands[p] : p \in 1 .. Len(cands)} /\ ToSet(cands) \subseteq Msg
  BY <1>1 DEF ToSet
<1>3. \E m \in ToSet(cands) : \A n \in ToSet(cands) : n <= m
  <2>1. cands[Len(cands)] \in ToSet(cands)
    BY <1>1, <1>2
  <2>2. ASSUME NEW p \in 1 .. Len(cands) PROVE cands[p] <= cands[Len(cands)]
    <3>1. cands[p] \in Nat /\ cands[Len(cands)] \in Nat /\ Len(cands) \in 1 .. Len(cands)
      BY <1>1, IngestAssumption DEF Msg
    <3>2. CASE p = Len(cands)
      BY <3>1, <3>2
    <3>3. CASE p < Len(cands)
      BY <3>1, <3>3 DEF Ordered
    <3> QED BY <1>1, <3>2, <3>3
  <2> QED BY <1>2, <2>1, <2>2
<1>4. Newest \in ToSet(cands) /\ \A n \in ToSet(cands) : n <= Newest
  BY <1>3 DEF Newest
<1> QED BY <1>1, <1>2, <1>4, IngestAssumption DEF Ordered, Msg

\* The bus.
LEMMA BusTyped ==
  ASSUME Typed, Ordered, Folding,
         Mark \/ Coalesce \/ Supersede \/ Fold \/ ReadCredit \/ SpendCredit \/ EnqueueRow
  PROVE  Typed'
<1>0. \A k, b : WithinWindow(k, b) \subseteq Id
  BY DEF WithinWindow, Pending, InStatus
<1>1. CASE Mark
  <2>1. cands # << >>
    BY <1>1 DEF Mark, Typed
  <2>2. watermark' \in 0 .. Len(keyOf)
    BY <1>1, <2>1, NewestIsLast DEF Mark, Typed
  <2> QED BY <1>1, <2>1, <2>2 DEF Mark, Typed, mind
<1>2. CASE Coalesce
  <2>1. cands # << >>
    BY <1>2 DEF Coalesce, Typed
  <2>2. chosen' \subseteq Id /\ seenItems' \in Seq(Msg)
        /\ step' \in {"supersede", "fold", "credit", "enqueue"}
    <3>1. CASE UNCHANGED <<chosen, seenItems>>
      BY <1>2, <3>1 DEF Coalesce, AfterCoalescing, Typed
    <3>2. CASE chosen' = WithinWindow(ThisKey, policy.window) /\ UNCHANGED seenItems
      BY <1>0, <1>2, <3>2 DEF Coalesce, AfterCoalescing, Typed
    <3>3. ASSUME NEW acc \in Oldest(Accumulators(ThisKey)),
                 chosen' = {acc} /\ seenItems' = items[acc] /\ step' = "fold"
          PROVE  acc \in Id /\ seenItems' \in Seq(Msg)
      BY <1>0, <3>3 DEF Oldest, Accumulators, Typed
    <3> QED BY <1>2, <3>1, <3>2, <3>3 DEF Coalesce
  <2> QED BY <1>2, <2>1, <2>2 DEF Coalesce, Typed, durable, mind
<1>3. CASE Supersede
  <2>1. PICK i \in Oldest(chosen) : table' = UpdateStatus(table, i, "coalesced")
                                    /\ chosen' = chosen \ {i}
    BY <1>3 DEF Supersede
  <2>2. i \in Id /\ Rows(table')
    BY <2>1, UpdateStatusStatus DEF Oldest, Typed, Status
  <2>3. cands # << >>
    BY <1>3 DEF Supersede, Typed
  <2> QED BY <1>3, <2>1, <2>2, <2>3 DEF Supersede, Typed, mind
<1>4. CASE Fold
  <2>1. This \in Msg /\ NextCandidate
    BY <1>4, HeadFits DEF Fold, Typed
  <2>2. items' \in [Id -> Seq(Msg)]
    <3>1. MergeBatch(seenItems, This) \in Seq(Msg)
      BY <2>1 DEF MergeBatch, Typed
    <3> QED BY <1>4, <3>1 DEF Fold, Typed
  <2>3. /\ cands' \in Seq(Msg) /\ index' \in Nat /\ index' + Len(cands') <= MaxMsg
        /\ chosen' = {} /\ seenItems' = << >>
        /\ step' \in {"idle", "candidate"} /\ (step' = "idle" <=> cands' = << >>)
        /\ accepted' \subseteq 1 .. taken'
    BY <1>4, <2>1, NextTyped DEF Fold
  <2>4. << >> \in Seq(Msg)
    OBVIOUS
  <2> QED BY <1>4, <2>2, <2>3, <2>4 DEF Fold, Typed, mind
<1>5. CASE ReadCredit
  BY <1>5 DEF ReadCredit, Typed, durable, mind
<1>6. CASE SpendCredit
  BY <1>6 DEF SpendCredit, Typed, mind
<1>7. CASE EnqueueRow
  <2>1. This \in Msg /\ NextCandidate /\ StimulusId(firedAt, index) \in Id
    BY <1>7, HeadFits, IdTaken DEF EnqueueRow, Typed
  <2>2. items' \in [Id -> Seq(Msg)]
    <3>1. <<This>> \in Seq(Msg)
      BY <2>1
    <3> QED BY <1>7, <3>1 DEF EnqueueRow, Typed
  <2>3. Rows(table')
    BY <1>7, <2>1, EnqueueStatus DEF EnqueueRow, Typed
  <2>4. /\ cands' \in Seq(Msg) /\ index' \in Nat /\ index' + Len(cands') <= MaxMsg
        /\ chosen' = {} /\ seenItems' = << >>
        /\ step' \in {"idle", "candidate"} /\ (step' = "idle" <=> cands' = << >>)
        /\ accepted' \subseteq 1 .. taken'
    BY <1>7, <2>1, NextTyped DEF EnqueueRow
  <2>5. << >> \in Seq(Msg)
    OBVIOUS
  <2> QED BY <1>7, <2>2, <2>3, <2>4, <2>5 DEF EnqueueRow, Typed
<1> QED BY <1>1, <1>2, <1>3, <1>4, <1>5, <1>6, <1>7

\* Everything else.
LEMMA RestTyped ==
  ASSUME Typed,
         IngestFails \/ Reclaim \/ WakeEnds \/ WakeTimesOut \/ ShedRows \/ Crash \/ Tick
           \/ (\E i \in Id : Pop(i)) \/ UNCHANGED vars
  PROVE  Typed'
<1>0. << >> \in Seq(Msg) /\ Len(<< >>) = 0
  OBVIOUS
<1>1. index + Len(<< >>) <= MaxMsg /\ index \in Nat
  <2>1. cands \in Seq(Msg) /\ index \in Nat /\ index + Len(cands) <= MaxMsg /\ Len(cands) \in Nat
    BY DEF Typed
  <2> QED BY <1>0, <2>1, IngestAssumption
<1>2. CASE IngestFails
  BY <1>0, <1>1, <1>2 DEF IngestFails, Typed, durable, mind
<1>3. CASE Crash
  BY <1>0, <1>1, <1>3 DEF Crash, Typed, durable
<1>4. CASE Reclaim
  <2>1. Rows(table')
    BY <1>4, ReclaimStatus DEF Reclaim, Typed
  <2> QED BY <1>4, <2>1 DEF Reclaim, Typed, ingestor
<1>5. CASE WakeEnds
  <2>1. Rows(table')
    BY <1>5, UpdateStatusStatus DEF WakeEnds, Typed, Status
  <2> QED BY <1>5, <2>1 DEF WakeEnds, Typed, ingestor
<1>6. CASE WakeTimesOut
  <2>1. Rows(table')
    BY <1>6, RescheduleStatus DEF WakeTimesOut, Typed
  <2> QED BY <1>6, <2>1 DEF WakeTimesOut, Typed, ingestor
<1>7. CASE ShedRows
  <2>1. PICK v \in ShedSoFar(table, QueueMaxDepth) :
          /\ table' = Delete(table, v)
          /\ items' = [i \in Id |-> IF i \in v THEN <<>> ELSE items[i]]
    BY <1>7 DEF ShedRows
  <2>2. Rows(table') /\ items' \in [Id -> Seq(Msg)]
    BY <1>0, <2>1, DeleteStatus DEF Typed
  <2> QED BY <1>7, <2>2 DEF ShedRows, Typed, ingestor, mind
<1>8. CASE Tick
  <2>1. now' \in 0 .. MaxTime
    BY <1>8, IngestAssumption DEF Tick, Typed
  <2> QED BY <1>8, <2>1 DEF Tick, Typed, durable, ingestor, mind
<1>9. ASSUME NEW i \in Id, Pop(i) PROVE Typed'
  <2>1. Rows(table')
    BY <1>9, UpdateStatusStatus DEF Pop, Typed, Status
  <2> QED BY <1>9, <2>1 DEF Pop, Typed, ingestor
<1>10. CASE UNCHANGED vars
  BY <1>10 DEF vars, Typed
<1> QED BY <1>2, <1>3, <1>4, <1>5, <1>6, <1>7, <1>8, <1>9, <1>10

\* No step of the ingestor, of the bus, of the loop or of the environment breaks a type.
LEMMA StepTyped == Typed /\ Ordered /\ Folding /\ [Next]_vars => Typed'
BY ArrivalTyped, BusTyped, RestTyped DEF Next
----------------------------------------------------------------------------
(* The order of the messages.                                              *)

\* At most one place holds something new, which is the candidate.
Grows(a, n) ==
  \A i \in Id : \A p \in DOMAIN items'[i] :
    \/ i = a /\ p = n /\ items'[i][p] = This
    \/ p \in DOMAIN items[i] /\ items'[i][p] = items[i][p]

Kept ==
  \A i \in Id : \A p \in DOMAIN items'[i] :
    p \in DOMAIN items[i] /\ items'[i][p] = items[i][p]

\* A fold adds the message in hand to one row, at its end.
LEMMA FoldGrows ==
  ASSUME Typed, Ordered, Folding, Fold
  PROVE  \E a \in Id : Grows(a, Len(items[a]) + 1)
<1>1. PICK acc \in Id : chosen = {acc} /\ (Present(table, acc) => items[acc] = seenItems)
  BY DEF Folding, Fold
<1>2. /\ items \in [Id -> Seq(Msg)] /\ This \in Msg
  BY HeadFits DEF Typed, Fold
<1>3. items' = IF Present(table, acc)
               THEN [items EXCEPT ![acc] = MergeBatch(seenItems, This)] ELSE items
  BY <1>1 DEF Fold
<1>4. CASE ~Present(table, acc)
  BY <1>3, <1>4 DEF Grows
<1>5. CASE Present(table, acc)
  <2>1. /\ items'[acc] = Append(items[acc], This) /\ items[acc] \in Seq(Msg)
        /\ \A i \in Id \ {acc} : items'[i] = items[i]
    BY <1>1, <1>2, <1>3, <1>5 DEF MergeBatch
  <2>2. ASSUME NEW p \in DOMAIN items'[acc]
        PROVE  \/ p = Len(items[acc]) + 1 /\ items'[acc][p] = This
               \/ p \in DOMAIN items[acc] /\ items'[acc][p] = items[acc][p]
    <3>1. DOMAIN items'[acc] = 1 .. (Len(items[acc]) + 1) /\ Len(items[acc]) \in Nat
          /\ DOMAIN items[acc] = 1 .. Len(items[acc])
      BY <1>2, <2>1
    <3>2. CASE p = Len(items[acc]) + 1
      BY <1>2, <2>1, <3>2
    <3>3. CASE p # Len(items[acc]) + 1
      <4>1. p \in 1 .. Len(items[acc])
        BY <3>1, <3>3
      <4> QED BY <1>2, <2>1, <3>1, <4>1
    <3> QED BY <3>2, <3>3
  <2> QED BY <2>1, <2>2 DEF Grows
<1> QED BY <1>4, <1>5

\* A new row holds the message in hand alone; an id that was taken keeps its row.
LEMMA EnqueueGrows ==
  ASSUME Typed, EnqueueRow
  PROVE  \E a \in Id : Grows(a, 1)
<1> DEFINE a == StimulusId(firedAt, index)
<1>1. a \in Id /\ items \in [Id -> Seq(Msg)]
  BY IdTaken DEF Typed, EnqueueRow
<1>2. items' = IF Present(table, a) THEN items ELSE [items EXCEPT ![a] = <<This>>]
  BY DEF EnqueueRow
<1> HIDE DEF a
<1>3. CASE Present(table, a)
  BY <1>1, <1>2, <1>3 DEF Grows
<1>4. CASE ~Present(table, a)
  <2>1. items'[a] = <<This>> /\ \A i \in Id \ {a} : items'[i] = items[i]
    BY <1>1, <1>2, <1>4
  <2>2. \A p \in DOMAIN items'[a] : p = 1 /\ items'[a][p] = This
    BY <2>1
  <2> QED BY <1>1, <2>1, <2>2 DEF Grows
<1> QED BY <1>3, <1>4

\* Shedding leaves every row what it holds, or nothing.
LEMMA ShedKeeps ==
  ASSUME Typed, ShedRows
  PROVE  Kept
<1>1. PICK v : items' = [i \in Id |-> IF i \in v THEN << >> ELSE items[i]]
  BY DEF ShedRows
<1>2. \A i \in Id : items'[i] = << >> \/ items'[i] = items[i]
  BY <1>1
<1>3. DOMAIN << >> = {}
  OBVIOUS
<1> QED BY <1>2, <1>3 DEF Kept

\* What a row holds are numbers of messages.
LEMMA ItemsTyped ==
  ASSUME Typed, NEW i \in Id
  PROVE  /\ items[i] \in Seq(Msg) /\ DOMAIN items[i] = 1 .. Len(items[i]) /\ Len(items[i]) \in Nat
         /\ \A p \in DOMAIN items[i] : items[i][p] \in Nat
<1>1. items[i] \in Seq(Msg)
  BY DEF Typed
<1> QED BY <1>1, IngestAssumption DEF Msg

\* The candidate moves from the list to a row.
LEMMA NextOrdered ==
  ASSUME Typed, Ordered, NextCandidate, step \notin {"idle", "mark"}, NEW a, NEW n, Grows(a, n),
         UNCHANGED <<policy, taken, watermark>>
  PROVE  Ordered'
<1>1. cands # << >> /\ cands' = Tail(cands)
  BY DEF Typed, NextCandidate
<1>2. This = cands[1] /\ 1 \in 1 .. Len(cands) /\ cands \in Seq(Msg)
  BY <1>1, HeadFits DEF Typed
<1>3. \A q \in 1 .. Len(cands') : q + 1 \in 1 .. Len(cands) /\ cands'[q] = cands[q + 1]
  BY <1>1, <1>2, TailFits
<1>4. Len(cands') \in Nat
  BY <1>1, <1>2, TailFits
<1>5. \A p, q \in 1 .. Len(cands') : p < q => cands'[p] < cands'[q]
  <2> SUFFICES ASSUME NEW p \in 1 .. Len(cands'), NEW q \in 1 .. Len(cands'), p < q
               PROVE  cands'[p] < cands'[q]
    OBVIOUS
  <2>1. p + 1 < q + 1
    BY <1>4
  <2> QED BY <1>3, <2>1 DEF Ordered
<1>6. \A p \in 1 .. Len(cands') : cands'[p] <= taken
  BY <1>3 DEF Ordered
<1>7. policy.polled => \A p \in 1 .. Len(cands') : cands'[p] <= watermark
  BY <1>3 DEF Ordered
<1>8. ASSUME NEW i \in Id, NEW p \in DOMAIN items'[i]
      PROVE  /\ items'[i][p] <= taken
             /\ policy.polled => items'[i][p] <= watermark
             /\ \A q \in 1 .. Len(cands') : items'[i][p] < cands'[q]
  <2>1. CASE p \in DOMAIN items[i] /\ items'[i][p] = items[i][p]
    BY <1>3, <2>1 DEF Ordered
  <2>2. CASE items'[i][p] = This
    <3>1. This <= taken /\ (policy.polled => This <= watermark)
      BY <1>2 DEF Ordered
    <3>2. ASSUME NEW q \in 1 .. Len(cands') PROVE This < cands'[q]
      <4>1. 1 < q + 1
        BY <1>4
      <4> QED BY <1>2, <1>3, <4>1 DEF Ordered
    <3> QED BY <2>2, <3>1, <3>2
  <2> QED BY <2>1, <2>2 DEF Grows
<1> QED BY <1>5, <1>6, <1>7, <1>8 DEF Ordered

\* What comes is newer than all that was stored: of a webhook it is the next message, of a poll what
\* lies beyond the watermark (ingest.rs:63-77).
LEMMA ArrivalOrdered ==
  ASSUME Typed, Ordered, (\E k \in Key \cup {NoKey} : Receive(k) \/ Publish(k)) \/ Poll
  PROVE  Ordered'
<1>0. /\ keyOf \in Seq(Key \cup {NoKey}) /\ Len(keyOf) \in Nat
      /\ taken \in 0 .. Len(keyOf) /\ watermark \in 0 .. Len(keyOf)
  <2>1. keyOf \in Seq(Key \cup {NoKey}) /\ taken \in 0 .. Len(keyOf) /\ watermark \in 0 .. Len(keyOf)
    BY DEF Typed
  <2> QED BY <2>1
<1>1. CASE \E k \in Key \cup {NoKey} : Publish(k)
  BY <1>1 DEF Publish, Ordered, durable, ingestor
<1>2. ASSUME NEW k \in Key \cup {NoKey}, Receive(k) PROVE Ordered'
  <2> DEFINE n == Len(keyOf) + 1
  <2>1. /\ ~policy.polled /\ policy' = policy /\ items' = items
        /\ taken' = n /\ cands' = <<n>> /\ n \in Nat /\ taken < n
    <3>1. Len(keyOf') = Len(keyOf) + 1
      BY <1>0, <1>2 DEF Receive
    <3> QED BY <1>0, <1>2, <3>1 DEF Receive, durable
  <2> HIDE DEF n
  <2>2. Len(cands') = 1 /\ cands'[1] = n /\ \A p \in 1 .. Len(cands') : p = 1
    BY <2>1
  <2>3. ASSUME NEW i \in Id, NEW p \in DOMAIN items[i]
        PROVE  items[i][p] <= taken' /\ items[i][p] < n
    <3>1. items[i][p] \in Nat /\ items[i][p] <= taken
      BY ItemsTyped DEF Ordered
    <3> QED BY <1>0, <2>1, <3>1
  <2> QED BY <2>1, <2>2, <2>3 DEF Ordered
<1>3. CASE Poll
  <2>1. /\ policy.polled /\ policy' = policy /\ items' = items /\ taken' = Len(keyOf)
        /\ watermark' = watermark /\ step' = "mark"
        /\ watermark < Len(keyOf)
        /\ cands' = [q \in 1 .. (Len(keyOf) - watermark) |-> watermark + q]
    BY <1>3 DEF Poll, durable
  <2>2. Len(cands') = Len(keyOf) - watermark
    <3>1. Len(keyOf) - watermark \in Nat
      BY <1>0, <2>1
    <3> QED BY <2>1, <3>1
  <2>3. \A q \in 1 .. Len(cands') :
          cands'[q] = watermark + q /\ watermark < cands'[q] /\ cands'[q] <= taken'
    BY <1>0, <2>1, <2>2
  <2>4. ASSUME NEW i \in Id, NEW p \in DOMAIN items[i]
        PROVE  /\ items[i][p] <= watermark /\ items[i][p] <= taken'
               /\ \A q \in 1 .. Len(cands') : items[i][p] < cands'[q]
    <3>1. items[i][p] \in Nat /\ items[i][p] <= watermark
      BY <2>1, ItemsTyped DEF Ordered
    <3> QED BY <1>0, <2>1, <2>2, <2>3, <3>1
  <2>5. \A p, q \in 1 .. Len(cands') : p < q => cands'[p] < cands'[q]
    BY <1>0, <2>2, <2>3
  <2> QED BY <2>1, <2>3, <2>4, <2>5 DEF Ordered
<1> QED BY <1>1, <1>2, <1>3

\* The watermark is put to the newest candidate (ingest.rs:106-115), so that none lies beyond it.
LEMMA MarkOrdered ==
  ASSUME Typed, Ordered, Mark
  PROVE  Ordered'
<1>1. cands # << >> /\ cands \in Seq(Msg) /\ taken \in Nat
  BY DEF Typed, Mark
<1>2. Newest \in Nat /\ \A p \in 1 .. Len(cands) : cands[p] <= Newest
  BY <1>1, NewestIsLast
<1>3. 1 \in 1 .. Len(cands) /\ cands[1] \in Nat
  BY <1>1, HeadFits, IngestAssumption DEF Msg
<1>4. ASSUME NEW i \in Id, NEW p \in DOMAIN items[i] PROVE items[i][p] <= Newest
  <2>1. items[i][p] \in Nat /\ items[i][p] < cands[1] /\ cands[1] <= Newest
    BY <1>2, <1>3, ItemsTyped DEF Ordered
  <2> QED BY <1>2, <1>3, <2>1
<1> QED BY <1>2, <1>4 DEF Mark, Ordered

\* Every step keeps the order of what is stored and what is still to be ingested.
LEMMA StepOrdered == Typed /\ Ordered /\ Folding /\ [Next]_vars => Ordered'
<1> SUFFICES ASSUME Typed, Ordered, Folding, [Next]_vars PROVE Ordered'
  OBVIOUS
<1>1. CASE (\E k \in Key \cup {NoKey} : Receive(k) \/ Publish(k)) \/ Poll
  BY <1>1, ArrivalOrdered
<1>2. CASE Mark
  BY <1>2, MarkOrdered
<1>3. CASE Fold
  <2>1. PICK a \in Id : Grows(a, Len(items[a]) + 1)
    BY <1>3, FoldGrows
  <2> QED BY <1>3, <2>1, NextOrdered DEF Fold
<1>4. CASE EnqueueRow
  <2>1. PICK a \in Id : Grows(a, 1)
    BY <1>4, EnqueueGrows
  <2> QED BY <1>4, <2>1, NextOrdered DEF EnqueueRow
<1>5. CASE IngestFails \/ Crash
  <2>1. cands' = << >> /\ UNCHANGED <<policy, items, taken, watermark>>
    BY <1>5 DEF IngestFails, Crash, durable
  <2>2. 1 .. Len(cands') = {}
    BY <2>1
  <2> QED BY <2>1, <2>2 DEF Ordered
<1>6. CASE ShedRows
  <2>1. Kept /\ UNCHANGED <<policy, cands, step, taken, watermark>>
    BY <1>6, ShedKeeps DEF ShedRows, ingestor
  <2> QED BY <2>1 DEF Kept, Ordered
<1>7. CASE UNCHANGED <<policy, cands, items, taken, watermark>> /\ (step = "mark" => step' = "mark")
  BY <1>7 DEF Ordered
<1> QED
  BY <1>1, <1>2, <1>3, <1>4, <1>5, <1>6, <1>7
  DEF Next, vars, Coalesce, Supersede, ReadCredit, SpendCredit, Reclaim, WakeEnds, WakeTimesOut,
      Tick, Pop, durable, ingestor

\* What a step does to the statuses.
LEMMA PopStatus ==
  ASSUME Typed, NEW i \in Id, Pop(i)
  PROVE  \A j \in Id : table'[j].status = IF j = i /\ Present(table, i) THEN "dispatched"
                                                                  ELSE table[j].status
<1>1. Rows(table) /\ table' = UpdateStatus(table, i, "dispatched") /\ "dispatched" \in Status
  BY DEF Pop, Status, Typed
<1> QED BY <1>1, UpdateStatusStatus

\* The end of a wake marks its row done and no other.
LEMMA WakeEndsStatus ==
  ASSUME Typed, WakeEnds
  PROVE  \A j \in Id : table'[j].status = IF j = wake /\ Present(table, wake) THEN "done"
                                                                        ELSE table[j].status
<1>1. Rows(table) /\ table' = UpdateStatus(table, wake, "done") /\ wake \in Id /\ "done" \in Status
  BY DEF WakeEnds, Status, Typed
<1> QED BY <1>1, UpdateStatusStatus

\* A retry makes the row of its wake pending again and no other.
LEMMA WakeTimesOutStatus ==
  ASSUME Typed, WakeTimesOut
  PROVE  \A j \in Id : table'[j].status = IF j = wake /\ Present(table, wake) THEN "pending"
                                                                        ELSE table[j].status
<1>1. Rows(table) /\ wake \in Id /\ \E n, gate : table' = Reschedule(table, wake, n, gate)
  BY DEF WakeTimesOut, Typed
<1> QED BY <1>1, RescheduleStatus

\* Superseding marks one of the chosen rows coalesced, and chooses the others still.
LEMMA SupersedeStatus ==
  ASSUME Typed, Supersede
  PROVE  \E i \in chosen :
           /\ chosen' = chosen \ {i}
           /\ \A j \in Id : table'[j].status = IF j = i /\ Present(table, i) THEN "coalesced"
                                                                       ELSE table[j].status
<1>1. PICK i \in Oldest(chosen) : table' = UpdateStatus(table, i, "coalesced")
                                  /\ chosen' = chosen \ {i}
  BY DEF Supersede
<1>2. Rows(table) /\ i \in chosen /\ i \in Id /\ "coalesced" \in Status
  BY <1>1 DEF Oldest, Status, Typed
<1> QED BY <1>1, <1>2, UpdateStatusStatus

\* Between the read of the accumulator and its write nobody but shedding touches the row.
LEMMA StepFolding == Typed /\ Folding /\ [Next]_vars => Folding'
<1> SUFFICES ASSUME Typed, Folding, [Next]_vars PROVE Folding'
  OBVIOUS
<1>0. Rows(table) /\ items \in [Id -> Seq(Msg)]
  BY DEF Typed
<1>1. CASE Coalesce
  <2> SUFFICES ASSUME step' = "fold" PROVE Folding'
    BY DEF Folding
  <2>1. PICK acc \in Oldest(Accumulators(ThisKey)) :
          /\ policy.mode \in {"batch", "adaptive"}
          /\ chosen' = {acc} /\ seenItems' = items[acc]
    BY <1>1 DEF Coalesce, AfterCoalescing
  <2>2. acc \in Id
    BY <2>1 DEF Oldest, Accumulators, WithinWindow, Pending, InStatus
  <2> QED BY <1>1, <2>1, <2>2 DEF Coalesce, Folding, durable
<1>2. CASE step' = step /\ UNCHANGED <<policy, chosen, seenItems>> /\ items' = items
           /\ \A i \in Id : Present(table', i) => Present(table, i)
  BY <1>2 DEF Folding
<1>3. CASE step' # "fold"
  BY <1>3 DEF Folding
<1>4. CASE Reclaim
  <2>1. \A i \in Id : Present(table', i) => Present(table, i)
    BY <1>0, <1>4, ReclaimStatus DEF Reclaim, Present
  <2> QED BY <1>2, <1>4, <2>1 DEF Reclaim, ingestor
<1>5. CASE WakeEnds
  <2>1. \A i \in Id : Present(table', i) => Present(table, i)
    BY <1>5, WakeEndsStatus DEF Present
  <2> QED BY <1>2, <1>5, <2>1 DEF WakeEnds, ingestor
<1>6. CASE WakeTimesOut
  <2>1. \A i \in Id : Present(table', i) => Present(table, i)
    BY <1>6, WakeTimesOutStatus DEF Present
  <2> QED BY <1>2, <1>6, <2>1 DEF WakeTimesOut, ingestor
<1>7. ASSUME NEW i \in Id, Pop(i) PROVE Folding'
  <2>1. \A j \in Id : Present(table', j) => Present(table, j)
    BY <1>7, PopStatus DEF Present
  <2> QED BY <1>2, <1>7, <2>1 DEF Pop, ingestor
<1>8. CASE ShedRows
  <2>1. PICK v \in ShedSoFar(table, QueueMaxDepth) :
          /\ table' = Delete(table, v)
          /\ items' = [i \in Id |-> IF i \in v THEN <<>> ELSE items[i]]
    BY <1>8 DEF ShedRows
  <2>2. \A i \in Id : Present(table', i) => Present(table, i) /\ i \notin v
    BY <1>0, <2>1, DeleteStatus DEF Present
  <2>3. \A i \in Id : i \notin v => items'[i] = items[i]
    BY <2>1
  <2>4. UNCHANGED <<policy, step, chosen, seenItems>>
    BY <1>8 DEF ShedRows, ingestor
  <2> QED BY <2>2, <2>3, <2>4 DEF Folding
<1>9. CASE Tick \/ (\E k \in Key \cup {NoKey} : Publish(k)) \/ UNCHANGED vars
  BY <1>2, <1>9 DEF Tick, Publish, vars, durable, ingestor
<1>10. CASE (\E k \in Key \cup {NoKey} : Receive(k)) \/ Poll \/ Mark \/ Supersede \/ Fold
            \/ ReadCredit \/ SpendCredit \/ EnqueueRow \/ IngestFails \/ Crash
  <2>1. step' # "fold"
    BY <1>10 DEF Receive, Poll, Mark, Supersede, Fold, ReadCredit, SpendCredit, EnqueueRow,
                 IngestFails, Crash, NextCandidate
  <2> QED BY <1>3, <2>1
<1> QED BY <1>1, <1>4, <1>5, <1>6, <1>7, <1>8, <1>9, <1>10 DEF Next

\* No step puts a message where it is already: a message in hand is newer than all stored ones.
LEMMA StepNoDuplicate == Typed /\ Ordered /\ Folding /\ NoDuplicate /\ [Next]_vars => NoDuplicate'
<1> SUFFICES ASSUME Typed, Ordered, Folding, NoDuplicate, [Next]_vars PROVE NoDuplicate'
  OBVIOUS
<1>1. ASSUME cands # << >>, NEW a \in Id, NEW n, Grows(a, n) PROVE NoDuplicate'
  <2>1. \A i \in Id : \A p \in DOMAIN items[i] : items[i][p] # This
    <3> SUFFICES ASSUME NEW i \in Id, NEW p \in DOMAIN items[i] PROVE items[i][p] # This
      OBVIOUS
    <3>1. This = cands[1] /\ 1 \in 1 .. Len(cands) /\ This \in Nat
      BY <1>1, HeadFits, IngestAssumption DEF Msg
    <3>2. items[i][p] \in Nat /\ items[i][p] < This
      BY <3>1, ItemsTyped DEF Ordered
    <3> QED BY <3>1, <3>2
  <2> SUFFICES ASSUME NEW i \in Id, NEW j \in Id,
                      NEW p \in DOMAIN items'[i], NEW q \in DOMAIN items'[j],
                      items'[i][p] = items'[j][q]
               PROVE  i = j /\ p = q
    BY DEF NoDuplicate
  <2> QED BY <1>1, <2>1 DEF Grows, NoDuplicate
<1>2. CASE Fold
  <2>1. cands # << >>
    BY <1>2 DEF Fold, Typed
  <2> QED BY <1>1, <1>2, <2>1, FoldGrows
<1>3. CASE EnqueueRow
  <2>1. cands # << >>
    BY <1>3 DEF EnqueueRow, Typed
  <2> QED BY <1>1, <1>3, <2>1, EnqueueGrows
<1>4. CASE ShedRows
  BY <1>4, ShedKeeps DEF Kept, NoDuplicate
<1>5. CASE items' = items
  BY <1>5 DEF NoDuplicate
<1> QED
  BY <1>2, <1>3, <1>4, <1>5
  DEF Next, vars, Receive, Publish, Poll, Mark, Coalesce, Supersede, ReadCredit, SpendCredit,
      IngestFails, Reclaim, WakeEnds, WakeTimesOut, Crash, Tick, Pop, durable
----------------------------------------------------------------------------
(* Superseding, leases, losses.                                            *)

\* Keys stay what they are.
LEMMA KeysStay ==
  ASSUME Typed, [Next]_vars
  PROVE  /\ taken' \in Nat /\ taken <= taken' /\ policy' = policy
         /\ \A m \in 1 .. taken : keyOf'[m] = keyOf[m]
<1>0. /\ keyOf \in Seq(Key \cup {NoKey}) /\ taken \in Nat /\ Len(keyOf) \in Nat
      /\ taken <= Len(keyOf)
  <2>1. keyOf \in Seq(Key \cup {NoKey}) /\ taken \in 0 .. Len(keyOf)
    BY DEF Typed
  <2> QED BY <2>1
<1>1. policy' = policy
  BY DEF Next, vars, Receive, Publish, Poll, Mark, Coalesce, Supersede, Fold, ReadCredit,
         SpendCredit, EnqueueRow, IngestFails, Reclaim, WakeEnds, WakeTimesOut, ShedRows, Crash,
         Tick, Pop
<1>2. CASE UNCHANGED <<keyOf, taken>>
  BY <1>0, <1>1, <1>2
<1>3. CASE Poll
  BY <1>0, <1>1, <1>3 DEF Poll
<1>4. ASSUME NEW k \in Key \cup {NoKey}, Receive(k) \/ Publish(k)
      PROVE  /\ taken' \in Nat /\ taken <= taken'
             /\ \A m \in 1 .. taken : keyOf'[m] = keyOf[m]
  <2>1. keyOf' = Append(keyOf, k) /\ taken' \in {taken, Len(keyOf')}
    BY <1>4 DEF Receive, Publish
  <2>2. Len(keyOf') = Len(keyOf) + 1 /\ \A m \in 1 .. Len(keyOf) : keyOf'[m] = keyOf[m]
    BY <1>0, <2>1
  <2>3. taken' \in Nat /\ taken <= taken'
    BY <1>0, <2>1, <2>2
  <2>4. \A m \in 1 .. taken : m \in 1 .. Len(keyOf)
    BY <1>0
  <2> QED BY <2>2, <2>3, <2>4
<1> QED
  BY <1>1, <1>2, <1>3, <1>4
  DEF Next, vars, Mark, Coalesce, Supersede, Fold, ReadCredit, SpendCredit, EnqueueRow,
      IngestFails, Reclaim, WakeEnds, WakeTimesOut, ShedRows, Crash, Tick, Pop

\* An item of a row was taken.
LEMMA ItemTaken ==
  ASSUME Typed, Ordered, NEW i \in Id, NEW p \in DOMAIN items[i]
  PROVE  items[i][p] \in 1 .. taken
<1>1. items[i] \in Seq(Msg) /\ taken \in Nat
  BY DEF Typed
<1>2. items[i][p] \in Msg /\ items[i][p] <= taken
  BY <1>1 DEF Ordered
<1> QED BY <1>1, <1>2, IngestAssumption DEF Msg

\* Under `latest` nothing is ever folded, so a row holds one message.
LEMMA StepSingle ==
  ASSUME Typed, Ordered, Folding, Superseding, [Next]_vars, policy.mode = "latest"
  PROVE  \A i \in Id : Len(items'[i]) <= 1
<1>1. \A i \in Id : Len(items[i]) <= 1
  BY DEF Superseding
<1>2. CASE EnqueueRow
  <2>1. items \in [Id -> Seq(Msg)]
    BY DEF Typed
  <2>2. \A i \in Id : items'[i] = items[i] \/ items'[i] = <<This>>
    BY <1>2, <2>1 DEF EnqueueRow
  <2>3. Len(<<This>>) = 1
    OBVIOUS
  <2>4. ASSUME NEW i \in Id PROVE Len(items'[i]) <= 1
    <3>1. CASE items'[i] = items[i]
      BY <1>1, <3>1
    <3>2. CASE items'[i] = <<This>>
      BY <2>3, <3>2
    <3> QED BY <2>2, <3>1, <3>2
  <2> QED BY <2>4
<1>3. CASE ShedRows
  <2>1. \A i \in Id : items'[i] = << >> \/ items'[i] = items[i]
    BY <1>3 DEF ShedRows
  <2>2. Len(<< >>) = 0
    OBVIOUS
  <2> QED BY <1>1, <2>1, <2>2
<1>4. ~Fold
  BY DEF Fold, Folding
<1>5. CASE items' = items
  BY <1>1, <1>5
<1> QED
  BY <1>2, <1>3, <1>4, <1>5
  DEF Next, vars, Receive, Publish, Poll, Mark, Coalesce, Supersede, ReadCredit, SpendCredit,
      IngestFails, Reclaim, WakeEnds, WakeTimesOut, Crash, Tick, Pop, durable

\* While rows are marked one after the other, those still chosen are of the chat in hand.
LEMMA StepSuperseding ==
  ASSUME Typed, Ordered, Folding, Superseding, [Next]_vars
  PROVE  Superseding'
<1>1. policy'.mode = "latest" => \A i \in Id : Len(items'[i]) <= 1
  BY StepSingle, KeysStay
<1>2. SUFFICES ASSUME step' = "supersede"
               PROVE  /\ policy.mode = "latest" /\ ThisKey' # NoKey
                      /\ \A i \in chosen' : \A p \in DOMAIN items'[i] : keyOf'[items'[i][p]] = ThisKey'
  BY <1>1, KeysStay DEF Superseding
<1>3. CASE Coalesce
  <2>1. /\ policy.mode = "latest" /\ ThisKey # NoKey
        /\ chosen' = WithinWindow(ThisKey, policy.window)
    BY <1>2, <1>3 DEF Coalesce, AfterCoalescing
  <2>2. cands' = cands /\ keyOf' = keyOf /\ items' = items
    BY <1>3 DEF Coalesce, durable
  <2>3. ASSUME NEW i \in chosen', NEW p \in DOMAIN items[i] PROVE keyOf[items[i][p]] = ThisKey
    <3>1. i \in Id /\ items[i] # << >> /\ keyOf[Head(items[i])] = ThisKey
      BY <2>1 DEF WithinWindow, Pending, InStatus
    <3>2. items[i] \in Seq(Msg) /\ Len(items[i]) <= 1
      BY <2>1, <3>1 DEF Typed, Superseding
    <3>3. p = 1 /\ Head(items[i]) = items[i][1]
      BY <3>1, <3>2
    <3> QED BY <3>1, <3>3
  <2> QED BY <2>1, <2>2, <2>3 DEF ThisKey, This
<1>4. CASE step = "supersede" /\ cands' = cands /\ chosen' \subseteq chosen
           /\ (items' = items \/ Kept)
  <2>1. cands # << >> /\ chosen \subseteq Id
    BY <1>4 DEF Typed
  <2>2. ThisKey' = ThisKey
    BY <1>4, <2>1, HeadFits, KeysStay DEF ThisKey, This
  <2>3. ASSUME NEW i \in chosen', NEW p \in DOMAIN items'[i] PROVE keyOf'[items'[i][p]] = ThisKey
    <3>1. i \in Id /\ i \in chosen /\ p \in DOMAIN items[i] /\ items'[i][p] = items[i][p]
      BY <1>4, <2>1 DEF Kept
    <3>2. keyOf'[items[i][p]] = keyOf[items[i][p]]
      BY <3>1, ItemTaken, KeysStay
    <3> QED BY <1>4, <3>1, <3>2 DEF Superseding
  <2> QED BY <1>4, <2>2, <2>3 DEF Superseding
<1>5. CASE Supersede
  BY <1>4, <1>5 DEF Supersede
<1>6. CASE ShedRows
  BY <1>2, <1>4, <1>6, ShedKeeps DEF ShedRows, ingestor
<1>7. CASE UNCHANGED ingestor /\ items' = items
  BY <1>2, <1>4, <1>7 DEF ingestor
<1>8. ~NextCandidate
  BY <1>2 DEF NextCandidate
<1> QED
  BY <1>2, <1>3, <1>5, <1>6, <1>7, <1>8
  DEF Next, vars, Receive, Publish, Poll, Mark, Fold, ReadCredit, SpendCredit, EnqueueRow,
      IngestFails, Reclaim, WakeEnds, WakeTimesOut, Crash, Tick, Pop, durable, ingestor

\* No step leases a row unheard, and what comes into a leased row is gone.
LEMMA StepLeased ==
  ASSUME Typed, Ordered, Folding, Leased, [Next]_vars
  PROVE  Leased'
<1>0. Rows(table) /\ items \in [Id -> Seq(Msg)] /\ (loop = "wake" => wake \in Id)
  BY DEF Typed
<1>1. ASSUME NEW i \in Id, Pop(i) PROVE Leased'
  <2>1. i \in Id /\ table[i].status = "pending"
    BY <1>1 DEF Pop, NextRows, Eligible, Pending, InStatus
  <2>2. \A j \in Id : table'[j].status = IF j = i THEN "dispatched" ELSE table[j].status
    BY <1>1, <2>1, PopStatus DEF Present
  <2>3. items' = items /\ heard' = heard \cup Items(i) /\ gone' = gone /\ wake' = i
    BY <1>1 DEF Pop
  <2>4. \A j \in Id : Items(j)' = Items(j)
    BY <2>3 DEF Items
  <2> QED BY <2>1, <2>2, <2>3, <2>4 DEF Leased, Dispatched, InStatus
<1>2. ASSUME loop' # "wake", UNCHANGED <<items, heard, gone>>,
             \A j \in Id : table'[j].status = "dispatched" => table[j].status = "dispatched"
      PROVE  Leased'
  <2>1. \A j \in Id : Items(j)' = Items(j)
    BY <1>2 DEF Items
  <2> QED BY <1>2, <2>1 DEF Leased, Dispatched, InStatus
<1>3. CASE WakeEnds
  <2>1. \A j \in Id : table'[j].status = "dispatched" => table[j].status = "dispatched"
    BY <1>3, WakeEndsStatus
  <2> QED BY <1>2, <1>3, <2>1 DEF WakeEnds
<1>4. CASE WakeTimesOut
  <2>1. \A j \in Id : table'[j].status = "dispatched" => table[j].status = "dispatched"
    BY <1>4, WakeTimesOutStatus
  <2> QED BY <1>2, <1>4, <2>1 DEF WakeTimesOut
<1>5. CASE Reclaim
  <2>1. \A j \in Id : table'[j].status = "dispatched" => table[j].status = "dispatched"
    BY <1>0, <1>5, ReclaimStatus DEF Reclaim
  <2> QED BY <1>2, <1>5, <2>1 DEF Reclaim
<1>6. CASE Crash
  BY <1>2, <1>6 DEF Crash, durable
<1>7. CASE Supersede
  <2>1. PICK i \in chosen :
          \A j \in Id : table'[j].status = IF j = i /\ Present(table, i) THEN "coalesced"
                                                                   ELSE table[j].status
    BY <1>7, SupersedeStatus
  <2>2. items' = items /\ UNCHANGED <<loop, wake, heard, gone>>
    BY <1>7 DEF Supersede, mind
  <2>3. \A j \in Id : Items(j)' = Items(j)
    BY <2>2 DEF Items
  <2>4. Items(wake)' = Items(wake)
    BY <2>2 DEF Items
  <2> QED BY <1>0, <2>1, <2>2, <2>3, <2>4 DEF Leased, Dispatched, InStatus
<1>8. CASE Fold
  <2>1. PICK acc \in Id : chosen = {acc} /\ (Present(table, acc) => items[acc] = seenItems)
    BY <1>8 DEF Folding, Fold
  <2>2. /\ items' = IF Present(table, acc)
                    THEN [items EXCEPT ![acc] = MergeBatch(seenItems, This)] ELSE items
        /\ gone' = IF acc \in Pending(table) THEN gone ELSE gone \cup {This}
        /\ UNCHANGED <<table, loop, wake, heard>>
    BY <1>8, <2>1 DEF Fold, mind
  <2>3. \A j \in Id \ {acc} : Items(j)' = Items(j)
    BY <1>0, <2>2 DEF Items
  <2>4. Items(acc)' \subseteq Items(acc) \cup {This}
    <3>1. PICK a \in Id : Grows(a, Len(items[a]) + 1)
      BY <1>8, FoldGrows
    <3> QED BY <3>1 DEF Grows, Items, ToSet
  <2>5. CASE acc \in Pending(table)
    <3>1. acc \notin Dispatched(table) /\ (loop = "wake" => wake \in Id \ {acc})
      BY <1>0, <2>5 DEF Pending, Dispatched, InStatus, Leased
    <3> QED BY <2>2, <2>3, <2>5, <3>1 DEF Leased, Dispatched, InStatus
  <2>6. CASE acc \notin Pending(table)
    <3>1. \A j \in Id : Items(j)' \subseteq Items(j) \cup {This}
      BY <2>3, <2>4
    <3> QED BY <1>0, <2>2, <2>6, <3>1 DEF Leased, Dispatched, InStatus
  <2> QED BY <2>5, <2>6
<1>9. CASE EnqueueRow
  <2> DEFINE i == StimulusId(firedAt, index)
  <2>1. i \in Id
    BY <1>9, IdTaken DEF EnqueueRow
  <2>2. \A j \in Id : table'[j].status = IF j = i /\ ~Present(table, i) THEN "pending"
                                                                  ELSE table[j].status
    BY <1>0, <1>9, <2>1, EnqueueStatus DEF EnqueueRow
  <2>3. /\ items' = IF Present(table, i) THEN items ELSE [items EXCEPT ![i] = <<This>>]
        /\ UNCHANGED <<loop, wake, heard>> /\ gone \subseteq gone'
    BY <1>9 DEF EnqueueRow
  <2> HIDE DEF i
  <2>4. \A j \in Id : Present(table, j) => Items(j)' = Items(j)
    BY <1>0, <2>1, <2>3 DEF Items
  <2>5. \A j \in Id : table'[j].status = "dispatched" => table[j].status = "dispatched"
    BY <2>2
  <2>6. loop = "wake" => Present(table, wake) /\ table'[wake].status = table[wake].status
    BY <1>0, <2>2 DEF Leased, Present
  <2> QED BY <1>0, <2>3, <2>4, <2>5, <2>6 DEF Leased, Dispatched, InStatus, Present
<1>10. CASE ShedRows
  <2>1. PICK v \in ShedSoFar(table, QueueMaxDepth) : table' = Delete(table, v)
    BY <1>10 DEF ShedRows
  <2>2. \A j \in Id : table'[j].status = "dispatched" => table[j].status = "dispatched"
    BY <1>0, <2>1, DeleteStatus
  <2>3. \A j \in Id : Items(j)' \subseteq Items(j)
    BY <1>10, ShedKeeps DEF Kept, Items, ToSet
  <2>4. loop' # "wake" /\ gone \subseteq gone' /\ heard' = heard
    BY <1>10 DEF ShedRows, mind
  <2> QED BY <2>2, <2>3, <2>4 DEF Leased, Dispatched, InStatus
<1>11. CASE UNCHANGED <<table, items, loop, wake, heard, gone>>
  BY <1>11 DEF Leased, Items, Dispatched, InStatus
<1> QED
  BY <1>1, <1>3, <1>4, <1>5, <1>6, <1>7, <1>8, <1>9, <1>10, <1>11
  DEF Next, vars, Receive, Publish, Poll, Mark, Coalesce, ReadCredit, SpendCredit, IngestFails,
      Tick, durable, mind

\* An overtaken message stays overtaken, and a heard or gone one stays that.
Settled(m) == m \in heard \/ Overtaken(m) \/ m \in gone

\* What is settled stays settled.
LEMMA SettledStays ==
  ASSUME Typed, [Next]_vars, NEW m \in 1 .. taken, Settled(m)
  PROVE  Settled(m)'
<1>1. heard \subseteq heard' /\ gone \subseteq gone'
  BY DEF Next, vars, Receive, Publish, Poll, Mark, Coalesce, Supersede, Fold, ReadCredit,
         SpendCredit, EnqueueRow, IngestFails, Reclaim, WakeEnds, WakeTimesOut, ShedRows, Crash,
         Tick, Pop, mind
<1>2. CASE Overtaken(m)
  <2>1. PICK n \in (m + 1) .. taken : keyOf[n] = keyOf[m]
    BY <1>2 DEF Overtaken
  <2>2. taken \in Nat
    BY DEF Typed
  <2>3. n \in 1 .. taken /\ n \in (m + 1) .. taken'
    BY <2>2, KeysStay
  <2>4. policy'.mode = "latest" /\ keyOf'[m] # NoKey /\ keyOf'[n] = keyOf'[m]
    BY <1>2, <2>1, <2>3, KeysStay DEF Overtaken
  <2>5. Overtaken(m)'
    BY <2>3, <2>4 DEF Overtaken
  <2> QED BY <2>5 DEF Settled
<1> QED BY <1>1, <1>2 DEF Settled

\* A message waits on, when its row keeps it and does not end.
LEMMA WaitsOn ==
  ASSUME NEW m, Waits(m),
         \A i \in Id : table[i].status \in {"pending", "dispatched"} /\ m \in Items(i)
           => table'[i].status \in {"pending", "dispatched"} /\ m \in Items(i)'
  PROVE  Waits(m)'
BY DEF Waits, Pending, Dispatched, InStatus

\* Folding and opening a row let what waits wait.
LEMMA FoldWaits ==
  ASSUME Typed, Ordered, Folding, Fold, NEW m, Waits(m)
  PROVE  Waits(m)'
<1>0. Rows(table) /\ items \in [Id -> Seq(Msg)]
  BY DEF Typed
<1>1. PICK acc \in Id : chosen = {acc} /\ (Present(table, acc) => items[acc] = seenItems)
  BY DEF Folding, Fold
<1>2. /\ items' = IF Present(table, acc)
                  THEN [items EXCEPT ![acc] = MergeBatch(seenItems, This)] ELSE items
      /\ table' = table
  BY <1>1 DEF Fold
<1>3. \A j \in Id \ {acc} : Items(j)' = Items(j)
  BY <1>0, <1>2 DEF Items
<1>4. Items(acc) \subseteq Items(acc)'
  <2>1. CASE ~Present(table, acc)
    BY <1>2, <2>1 DEF Items
  <2>2. CASE Present(table, acc)
    <3>1. items'[acc] = Append(items[acc], This) /\ items[acc] \in Seq(Msg) /\ This \in Msg
      BY <1>0, <1>1, <1>2, <2>2, HeadFits DEF MergeBatch, Fold, Typed
    <3>2. \A p \in DOMAIN items[acc] : p \in DOMAIN items'[acc] /\ items'[acc][p] = items[acc][p]
      BY <3>1
    <3> QED BY <3>2 DEF Items, ToSet
  <2> QED BY <2>1, <2>2
<1> QED BY <1>2, <1>3, <1>4, WaitsOn

\* A new row takes no other row's place: what waits still waits.
LEMMA EnqueueWaits ==
  ASSUME Typed, EnqueueRow, NEW m, Waits(m)
  PROVE  Waits(m)'
<1>0. Rows(table) /\ items \in [Id -> Seq(Msg)]
  BY DEF Typed
<1> DEFINE i == StimulusId(firedAt, index)
<1>1. i \in Id
  BY IdTaken DEF EnqueueRow
<1>2. \A j \in Id : table'[j].status = IF j = i /\ ~Present(table, i) THEN "pending"
                                                                ELSE table[j].status
  BY <1>0, <1>1, EnqueueStatus DEF EnqueueRow
<1>3. items' = IF Present(table, i) THEN items ELSE [items EXCEPT ![i] = <<This>>]
  BY DEF EnqueueRow
<1> HIDE DEF i
<1>4. \A j \in Id : Present(table, j) => Items(j)' = Items(j)
  BY <1>0, <1>1, <1>3 DEF Items
<1> QED BY <1>2, <1>4, WaitsOn DEF Present

\* A message that waited waits, or is settled, after every step.
LEMMA WaitingKnown ==
  ASSUME Typed, Ordered, Folding, Superseding, Leased, [Next]_vars, NEW m \in 1 .. taken, Waits(m)
  PROVE  Waits(m)' \/ Settled(m)'
<1>0. Rows(table) /\ items \in [Id -> Seq(Msg)]
  BY DEF Typed
<1>1. ASSUME NEW i \in Id, Pop(i) PROVE Waits(m)'
  <2>1. \A j \in Id : Items(j)' = Items(j)
    BY <1>1 DEF Pop, Items
  <2> QED BY <1>1, <2>1, PopStatus, WaitsOn
<1>2. CASE WakeTimesOut
  <2>1. \A j \in Id : Items(j)' = Items(j)
    BY <1>2 DEF WakeTimesOut, Items
  <2> QED BY <1>2, <2>1, WakeTimesOutStatus, WaitsOn
<1>3. CASE Reclaim
  <2>1. \A j \in Id : Items(j)' = Items(j)
    BY <1>3 DEF Reclaim, Items
  <2>2. \A j \in Id : table'[j].status = IF table[j].status = "dispatched" THEN "pending"
                                                                          ELSE table[j].status
    BY <1>0, <1>3, ReclaimStatus DEF Reclaim
  <2> QED BY <2>1, <2>2, WaitsOn
<1>4. CASE WakeEnds
  <2>1. \A j \in Id : Items(j)' = Items(j)
    BY <1>4 DEF WakeEnds, Items
  <2>2. CASE m \in Items(wake)
    <3>1. m \in heard \cup gone
      BY <1>4, <2>2 DEF WakeEnds, Leased
    <3> QED BY <3>1, SettledStays DEF Settled
  <2>3. CASE m \notin Items(wake)
    BY <1>4, <2>1, <2>3, WakeEndsStatus, WaitsOn
  <2> QED BY <2>2, <2>3
<1>5. CASE Supersede
  <2>1. PICK i \in chosen :
          \A j \in Id : table'[j].status = IF j = i /\ Present(table, i) THEN "coalesced"
                                                                   ELSE table[j].status
    BY <1>5, SupersedeStatus
  <2>2. \A j \in Id : Items(j)' = Items(j)
    BY <1>5 DEF Supersede, Items
  <2>3. CASE m \notin Items(i)
    BY <2>1, <2>2, <2>3, WaitsOn
  <2>4. CASE m \in Items(i)
    <3>1. PICK p \in DOMAIN items[i] : m = items[i][p]
      BY <2>4 DEF Items, ToSet
    <3>2. i \in Id /\ cands # << >> /\ taken \in Nat
      BY <1>5 DEF Supersede, Typed
    <3>3. /\ This \in 1 .. taken /\ This = cands[1] /\ 1 \in 1 .. Len(cands)
      BY <3>2, HeadFits
    <3>4. m < This
      BY <3>1, <3>2, <3>3 DEF Ordered
    <3>5. policy.mode = "latest" /\ keyOf[m] = keyOf[This] /\ keyOf[m] # NoKey
      BY <1>5, <3>1 DEF Supersede, Superseding, ThisKey
    <3>6. This \in (m + 1) .. taken
      BY <3>2, <3>3, <3>4
    <3>7. Overtaken(m)
      BY <3>5, <3>6 DEF Overtaken
    <3> QED BY <3>7, SettledStays DEF Settled
  <2> QED BY <2>3, <2>4
<1>6. CASE Fold \/ EnqueueRow
  BY <1>6, FoldWaits, EnqueueWaits
<1>8. CASE ShedRows
  <2>1. PICK v \in ShedSoFar(table, QueueMaxDepth) :
          /\ table' = Delete(table, v)
          /\ items' = [i \in Id |-> IF i \in v THEN <<>> ELSE items[i]]
          /\ gone' = gone \cup UNION {Items(i) : i \in v}
    BY <1>8 DEF ShedRows
  <2>2. CASE \E i \in v : m \in Items(i)
    BY <2>1, <2>2 DEF Settled
  <2>3. CASE ~\E i \in v : m \in Items(i)
    <3>1. \A j \in Id : table'[j].status = IF j \in v THEN "absent" ELSE table[j].status
      BY <1>0, <2>1, DeleteStatus
    <3>2. \A j \in Id \ v : Items(j)' = Items(j)
      BY <2>1 DEF Items
    <3> QED BY <2>3, <3>1, <3>2, WaitsOn
  <2> QED BY <2>2, <2>3
<1>9. CASE UNCHANGED <<table, items>>
  BY <1>9 DEF Waits, Items, Pending, Dispatched, InStatus
<1> QED
  BY <1>1, <1>2, <1>3, <1>4, <1>5, <1>6, <1>8, <1>9
  DEF Next, vars, Receive, Publish, Poll, Mark, Coalesce, ReadCredit, SpendCredit, IngestFails,
      Crash, Tick, durable

\* What has just been accepted waits, or is gone.
LEMMA AcceptedKnown ==
  ASSUME Typed, Ordered, Folding, [Next]_vars, NEW m \in accepted', m \notin accepted
  PROVE  Waits(m)' \/ m \in gone'
<1>0. Rows(table) /\ items \in [Id -> Seq(Msg)]
  BY DEF Typed
<1>1. (Fold \/ EnqueueRow) /\ m = This
  BY DEF Next, vars, Receive, Publish, Poll, Mark, Coalesce, Supersede, Fold, ReadCredit,
         SpendCredit, EnqueueRow, IngestFails, Reclaim, WakeEnds, WakeTimesOut, ShedRows, Crash,
         Tick, Pop, NextCandidate
<1>2. This \in Msg
  BY <1>1, HeadFits DEF Fold, EnqueueRow, Typed
<1>3. CASE Fold
  <2>1. PICK acc \in Id : chosen = {acc} /\ (Present(table, acc) => items[acc] = seenItems)
    BY <1>3 DEF Folding, Fold
  <2>2. /\ items' = IF Present(table, acc)
                    THEN [items EXCEPT ![acc] = MergeBatch(seenItems, This)] ELSE items
        /\ table' = table /\ (acc \notin Pending(table) => This \in gone')
    BY <1>3, <2>1 DEF Fold
  <2>3. CASE acc \in Pending(table)
    <3>1. Present(table, acc)
      BY <2>3 DEF Pending, InStatus, Present
    <3>2. items'[acc] = Append(items[acc], This) /\ items[acc] \in Seq(Msg)
      BY <1>0, <2>1, <2>2, <3>1 DEF MergeBatch
    <3>3. Len(items[acc]) + 1 \in DOMAIN items'[acc] /\ items'[acc][Len(items[acc]) + 1] = This
      BY <1>2, <3>2
    <3>4. This \in Items(acc)' /\ acc \in Pending(table')
      BY <2>2, <2>3, <3>3 DEF Items, ToSet
    <3> QED BY <1>1, <3>4 DEF Waits
  <2> QED BY <1>1, <2>2, <2>3
<1>4. CASE EnqueueRow
  <2>1. PICK i \in Id : i = StimulusId(firedAt, index)
    BY <1>4, IdTaken DEF EnqueueRow
  <2>2. \A j \in Id : table'[j].status = IF j = i /\ ~Present(table, i) THEN "pending"
                                                                  ELSE table[j].status
    BY <1>0, <1>4, <2>1, EnqueueStatus DEF EnqueueRow
  <2>3. /\ items' = IF Present(table, i) THEN items ELSE [items EXCEPT ![i] = <<This>>]
        /\ Present(table, i) => This \in gone'
    BY <1>4, <2>1 DEF EnqueueRow
  <2>4. CASE ~Present(table, i)
    <3>1. items'[i] = <<This>>
      BY <1>0, <2>1, <2>3, <2>4
    <3>2. 1 \in DOMAIN items'[i] /\ items'[i][1] = This
      BY <3>1
    <3>3. m \in Items(i)'
      BY <1>1, <3>2 DEF Items, ToSet
    <3>4. i \in Pending(table)'
      BY <2>2, <2>4 DEF Pending, InStatus
    <3> QED BY <3>3, <3>4 DEF Waits
  <2> QED BY <1>1, <2>3, <2>4
<1> QED BY <1>1, <1>3, <1>4

\* No step makes an accepted message vanish: it waits, was heard, or ended in a known way.
LEMMA StepLosses ==
  ASSUME Typed, Ordered, Folding, Superseding, Leased, LossesAreKnown, [Next]_vars
  PROVE  LossesAreKnown'
<1> SUFFICES ASSUME NEW m \in accepted' PROVE (m \in heard \/ Waits(m) \/ Overtaken(m) \/ m \in gone)'
  BY DEF LossesAreKnown
<1>1. CASE m \notin accepted
  BY <1>1, AcceptedKnown
<1>2. CASE m \in accepted
  <2>1. m \in 1 .. taken /\ (Waits(m) \/ Settled(m))
    BY <1>2 DEF LossesAreKnown, Settled, Typed
  <2>2. Waits(m)' \/ Settled(m)'
    BY <2>1, WaitingKnown, SettledStays
  <2> QED BY <2>2 DEF Settled
<1> QED BY <1>1, <1>2

----------------------------------------------------------------------------
(* The dispatch window.                                                    *)

\* The minute of a day is what is left of the whole days.
LEMMA Minute ==
  ASSUME NEW q \in Nat, NEW m \in 0 .. (Day - 1)
  PROVE  (Day * q + m) % Day = m
BY IngestAssumption

\* A time is a day and a minute of it.
LEMMA DayAndMinute ==
  ASSUME NEW t \in Nat
  PROVE  /\ t \div Day \in Nat /\ t % Day \in 0 .. (Day - 1)
         /\ t = (Day * (t \div Day)) + (t % Day) /\ Day * (t \div Day) \in Nat
<1>1. t \div Day \in Nat /\ t % Day \in 0 .. (Day - 1)
  BY IngestAssumption
<1>2. t = (Day * (t \div Day)) + (t % Day)
  BY IngestAssumption
<1>3. Day * (t \div Day) \in Nat
  BY <1>1, IngestAssumption
<1> QED BY <1>1, <1>2, <1>3

\* next_open is the first minute the window is open.
LEMMA NextOpenIsFirst ==
  ASSUME policy \in Policy, Windowed, NEW at \in Nat
  PROVE  /\ NextOpen(at) \in Nat /\ NextOpen(at) >= at /\ Inside(NextOpen(at))
         /\ \A t \in at .. (NextOpen(at) - 1) : ~Inside(t)
<1> DEFINE o == policy.opens
           c == policy.closes
           m == at % Day
           q == at \div Day
           start == Day * q
           In(x) == IF o <= c THEN o <= x /\ x < c ELSE o <= x \/ x < c
<1>1. /\ o \in 0 .. (Day - 1) /\ c \in 0 .. (Day - 1) /\ o # c /\ Day \in Nat \ {0}
  BY IngestAssumption DEF Policy, Windowed
<1>2. q \in Nat /\ m \in 0 .. (Day - 1) /\ start \in Nat /\ at = start + m
  BY DayAndMinute
<1>3. \A t : Inside(t) <=> In(t % Day)
  BY DEF Inside
<1>4. \A x \in 0 .. (Day - 1) : (start + x) % Day = x
  BY <1>2, Minute
<1>5. \A x \in 0 .. (Day - 1) : (start + Day + x) % Day = x
  <2>1. q + 1 \in Nat /\ Day * (q + 1) = start + Day
    BY <1>1, <1>2
  <2> QED BY <2>1, Minute
<1>6. (at - m) + o = start + o
  BY <1>1, <1>2
<1>7. In(o)
  BY <1>1
<1> HIDE DEF start, q, m
<1>8. CASE Inside(at)
  <2>1. NextOpen(at) = at
    BY <1>8 DEF NextOpen
  <2> QED BY <1>8, <2>1
<1>9. CASE ~Inside(at) /\ start + o > at
  <2>1. NextOpen(at) = start + o
    BY <1>6, <1>9 DEF NextOpen, m
  <2>2. Inside(NextOpen(at))
    BY <1>1, <1>3, <1>4, <1>7, <2>1
  <2>3. ASSUME NEW t \in at .. (NextOpen(at) - 1) PROVE ~Inside(t)
    <3>1. t - start \in 0 .. (Day - 1) /\ m <= t - start /\ t - start < o /\ t = start + (t - start)
      BY <1>1, <1>2, <1>9, <2>1
    <3>2. t % Day = t - start
      BY <1>4, <3>1
    <3>3. ~In(m)
      BY <1>3, <1>9 DEF m
    <3>4. ~In(t - start)
      BY <1>1, <1>2, <3>1, <3>3
    <3> QED BY <1>3, <3>2, <3>4
  <2> QED BY <1>1, <1>2, <1>9, <2>1, <2>2, <2>3
<1>10. CASE ~Inside(at) /\ ~(start + o > at)
  <2>1. NextOpen(at) = start + Day + o
    <3>1. NextOpen(at) = start + o + Day
      BY <1>6, <1>10 DEF NextOpen, m
    <3> QED BY <1>1, <1>2, <3>1
  <2>2. Inside(NextOpen(at))
    BY <1>1, <1>3, <1>5, <1>7, <2>1
  <2>3. ~In(m) /\ o <= m
    BY <1>1, <1>2, <1>3, <1>10 DEF m
  <2>4. ASSUME NEW t \in at .. (NextOpen(at) - 1) PROVE ~Inside(t)
    <3>0. t \in Int /\ start + m <= t /\ t < start + Day + o
      BY <1>1, <1>2, <2>1
    <3>1. CASE t < start + Day
      <4>1. t - start \in 0 .. (Day - 1) /\ m <= t - start /\ t = start + (t - start)
        BY <1>1, <1>2, <3>0, <3>1
      <4>2. t % Day = t - start
        BY <1>4, <4>1
      <4>3. ~In(t - start)
        BY <1>1, <1>2, <2>3, <4>1
      <4> QED BY <1>3, <4>2, <4>3
    <3>2. CASE ~(t < start + Day)
      <4> DEFINE x == t - start - Day
      <4>1. x \in 0 .. (Day - 1) /\ x < o /\ t = start + Day + x
        BY <1>1, <1>2, <3>0, <3>2
      <4>2. t % Day = x
        BY <1>5, <4>1
      <4> HIDE DEF x
      <4>3. ~In(x)
        BY <1>1, <1>2, <2>3, <4>1
      <4> QED BY <1>3, <4>2, <4>3
    <3> QED BY <3>1, <3>2
  <2> QED BY <1>1, <1>2, <1>10, <2>1, <2>2, <2>4
<1> QED BY <1>8, <1>9, <1>10

----------------------------------------------------------------------------
(* What a step keeps of a row's stamps.                                    *)

\* The row that the bus opens.
Opens(j) ==
  /\ EnqueueRow /\ j = StimulusId(firedAt, index) /\ ~Present(table, j)
  /\ table'[j] = NewRow("low", firedAt, PopAfter(ThisKey))

\* A step keeps a row's stamps, but for the row it opens and the one it retries.
LEMMA StepStamps ==
  ASSUME Typed, [Next]_vars, NEW j \in Id, Present(table', j)
  PROVE  \/ Opens(j)
         \/ /\ Present(table, j)
            /\ \/ Same(table'[j], table[j])
               \/ /\ WakeTimesOut /\ j = wake
                  /\ table'[j].received = table[j].received
                  /\ table'[j].attempts = table[j].attempts + 1
<1>0. Rows(table) /\ (loop = "wake" => wake \in Id) /\ chosen \subseteq Id
  BY DEF Typed
<1>1. CASE UNCHANGED table
  BY <1>1 DEF Same, Present
<1>2. CASE EnqueueRow
  <2> DEFINE i == StimulusId(firedAt, index)
             row == NewRow("low", firedAt, PopAfter(ThisKey))
  <2>1. table' = Enqueue(table, i, row)
    BY <1>2 DEF EnqueueRow
  <2>2. table'[j] = IF j = i /\ ~Present(table, i) THEN row ELSE table[j]
    <3> HIDE DEF row, i
    <3> QED BY <1>0, <2>1 DEF Enqueue, Rows
  <2> QED BY <1>2, <2>2 DEF Opens, Same, Present
<1>3. CASE Supersede
  <2>1. PICK i \in chosen : table' = UpdateStatus(table, i, "coalesced")
    BY <1>3 DEF Supersede, Oldest
  <2>2. i \in Id /\ "coalesced" \in Status
    BY <1>0, <2>1 DEF Status
  <2>3. Same(table'[j], table[j])
    BY <1>0, <2>1, <2>2, UpdateStamps
  <2>4. Present(table, j)
    BY <1>0, <2>1, <2>2, UpdateStatusStatus DEF Present
  <2> QED BY <2>3, <2>4
<1>4. CASE Reclaim
  <2>1. table' = ReclaimOrphans(table)
    BY <1>4 DEF Reclaim
  <2>2. Same(table'[j], table[j])
    BY <1>0, <2>1, ReclaimStamps
  <2>3. Present(table, j)
    BY <1>0, <2>1, ReclaimStatus DEF Present
  <2> QED BY <2>2, <2>3
<1>5. ASSUME NEW i \in Id, Pop(i) PROVE Present(table, j) /\ Same(table'[j], table[j])
  <2>1. table' = UpdateStatus(table, i, "dispatched") /\ "dispatched" \in Status
    BY <1>5 DEF Pop, Status
  <2> QED BY <1>0, <2>1, UpdateStamps, UpdateStatusStatus DEF Present
<1>6. CASE WakeEnds
  <2>1. table' = UpdateStatus(table, wake, "done") /\ "done" \in Status /\ wake \in Id
    BY <1>0, <1>6 DEF WakeEnds, Status
  <2> QED BY <1>0, <2>1, UpdateStamps, UpdateStatusStatus DEF Present
<1>7. CASE WakeTimesOut
  <2> DEFINE n == table[wake].attempts + 1
  <2>1. wake \in Id /\ table' = Reschedule(table, wake, n, RetryGate(n))
    BY <1>0, <1>7 DEF WakeTimesOut
  <2> HIDE DEF n
  <2>2. Present(table, j)
    BY <1>0, <2>1, RescheduleStatus DEF Present
  <2>3. Same(table'[j], table[j]) \/ (j = wake /\ table'[j].received = table[j].received /\ table'[j].attempts = n)
    BY <1>0, <2>1, RescheduleStamps
  <2> QED BY <1>7, <2>2, <2>3 DEF n
<1>8. CASE ShedRows
  <2>1. PICK v : table' = Delete(table, v)
    BY <1>8 DEF ShedRows
  <2>2. j \notin v
    BY <1>0, <2>1, DeleteStatus DEF Present
  <2>3. table'[j] = table[j]
    BY <2>1, <2>2 DEF Delete
  <2> QED BY <2>3 DEF Same, Present
<1>9. CASE \/ (\E k \in Key \cup {NoKey} : Receive(k) \/ Publish(k)) \/ Poll \/ Mark \/ Coalesce
           \/ Fold \/ ReadCredit \/ SpendCredit \/ IngestFails \/ Crash \/ Tick \/ UNCHANGED vars
  <2>1. UNCHANGED table
    BY <1>9 DEF Receive, Publish, Poll, Mark, Coalesce, Fold, ReadCredit, SpendCredit, IngestFails,
                Crash, Tick, durable, vars
  <2> QED BY <1>1, <2>1
<1> QED BY <1>2, <1>3, <1>4, <1>5, <1>6, <1>7, <1>8, <1>9 DEF Next

----------------------------------------------------------------------------
(* Rows are held to the opening.                                           *)

\* A row was received by the last firing, and holds a message.
Stamped ==
  /\ firedAt <= now
  /\ \A i \in Id : Present(table, i) =>
       table[i].received \in 0 .. firedAt /\ table[i].attempts \in Nat /\ items[i] # << >>

\* What the dispatch window asks of a message received at t.
OpeningAt(t) == IF NextOpen(t) > t THEN NextOpen(t) ELSE 0

\* The gate of a row that was never retried is the opening alone.
Gated ==
  Windowed /\ policy.mode \notin {"batch", "adaptive"} =>
    \A i \in Id : Present(table, i) /\ table[i].attempts = 0 =>
      table[i].popAfter = OpeningAt(table[i].received)

\* The clock does not go back, and no trigger fired in the future.
LEMMA ClockStep ==
  ASSUME Typed, firedAt <= now, [Next]_vars
  PROVE  firedAt' <= now' /\ firedAt <= firedAt' /\ firedAt' \in Nat
<1>1. now \in Nat /\ firedAt \in Nat
  BY IngestAssumption DEF Typed
<1> QED
  BY <1>1 DEF Next, vars, Receive, Publish, Poll, Mark, Coalesce, Supersede, Fold, ReadCredit,
       SpendCredit, EnqueueRow, IngestFails, Reclaim, Pop, WakeEnds, WakeTimesOut, ShedRows, Crash, Tick,
       NextCandidate, ingestor

\* A present row keeps a message.
LEMMA StepFilled ==
  ASSUME Typed, Folding, Stamped, [Next]_vars, NEW j \in Id, Present(table', j)
  PROVE  items'[j] # << >>
<1>0. items \in [Id -> Seq(Msg)] /\ Rows(table)
  BY DEF Typed
<1>1. CASE EnqueueRow
  <2> DEFINE i == StimulusId(firedAt, index)
  <2>1. items' = IF Present(table, i) THEN items ELSE [items EXCEPT ![i] = <<This>>]
    BY <1>1 DEF EnqueueRow
  <2>2. Present(table, j) \/ (j = i /\ ~Present(table, i))
    BY StepStamps DEF Opens
  <2>3. <<This>> # << >>
    OBVIOUS
  <2> HIDE DEF i
  <2> QED BY <1>0, <2>1, <2>2, <2>3 DEF Stamped
<1>2. CASE Fold
  <2>1. PICK acc \in chosen :
          items' = IF Present(table, acc) THEN [items EXCEPT ![acc] = MergeBatch(seenItems, This)] ELSE items
    BY <1>2 DEF Fold
  <2>2. seenItems \in Seq(Msg) /\ MergeBatch(seenItems, This) # << >>
    <3>1. seenItems \in Seq(Msg)
      BY DEF Typed
    <3>2. This \in Msg
      <4>1. cands \in Seq(Msg) /\ cands # << >>
        BY <1>2 DEF Typed, Fold
      <4> QED BY <4>1, TailFits DEF This
    <3>3. Len(Append(seenItems, This)) = Len(seenItems) + 1 /\ Len(seenItems) \in Nat
      BY <3>1, <3>2
    <3>4. Append(seenItems, This) # << >>
      BY <3>3
    <3> QED BY <3>1, <3>4 DEF MergeBatch
  <2>3. Present(table, j)
    BY <1>2 DEF Fold, Present
  <2> QED BY <1>0, <2>1, <2>2, <2>3 DEF Stamped
<1>3. CASE ShedRows
  <2>1. PICK v : /\ table' = Delete(table, v)
                 /\ items' = [i \in Id |-> IF i \in v THEN << >> ELSE items[i]]
    BY <1>3 DEF ShedRows
  <2>2. j \notin v /\ Present(table, j)
    BY <1>0, <2>1, DeleteStatus DEF Present
  <2> QED BY <2>1, <2>2 DEF Stamped
<1>4. CASE ~EnqueueRow /\ ~Fold /\ ~ShedRows
  <2>1. UNCHANGED items
    BY <1>4 DEF Next, vars, Receive, Publish, Poll, Mark, Coalesce, Supersede, ReadCredit,
         SpendCredit, IngestFails, Reclaim, Pop, WakeEnds, WakeTimesOut, Crash, Tick, durable
  <2>2. Present(table, j)
    BY <1>4, StepStamps DEF Opens
  <2> QED BY <2>1, <2>2 DEF Stamped
<1> QED BY <1>1, <1>2, <1>3, <1>4

\* A row keeps the second it was received, which is not after the last firing, and its first message.
LEMMA StepStamped ==
  ASSUME Typed, Folding, Stamped, [Next]_vars
  PROVE  Stamped'
<1>1. firedAt' <= now' /\ firedAt <= firedAt' /\ firedAt' \in Nat /\ firedAt \in Nat
  <2>1. firedAt <= now
    BY DEF Stamped
  <2>2. firedAt \in 0 .. MaxTime /\ MaxTime \in Nat
    BY IngestAssumption DEF Typed
  <2> QED BY <2>1, <2>2, ClockStep
<1>2. ASSUME NEW j \in Id, Present(table', j)
      PROVE  table'[j].received \in 0 .. firedAt' /\ table'[j].attempts \in Nat
  <2>1. CASE Opens(j)
    <3>1. table'[j].received = firedAt /\ table'[j].attempts = 0
      BY <2>1 DEF Opens, NewRow
    <3> QED BY <1>1, <3>1
  <2>2. CASE ~Opens(j)
    <3>1. /\ Present(table, j) /\ table'[j].received = table[j].received
          /\ table'[j].attempts \in {table[j].attempts, table[j].attempts + 1}
      BY <1>2, <2>2, StepStamps DEF Same
    <3>2. table[j].received \in 0 .. firedAt /\ table[j].attempts \in Nat
      BY <3>1 DEF Stamped
    <3> QED BY <1>1, <3>1, <3>2
  <2> QED BY <2>1, <2>2
<1> QED BY <1>1, <1>2, StepFilled DEF Stamped

\* A new row is gated by the next opening, and no statement on the table but a retry moves a gate.
LEMMA StepGated ==
  ASSUME Typed, Stamped, Gated, [Next]_vars
  PROVE  Gated'
<1>0. policy' = policy
  BY KeysStay
<1> SUFFICES ASSUME Windowed, policy.mode \notin {"batch", "adaptive"},
                    NEW j \in Id, Present(table', j), table'[j].attempts = 0
             PROVE  table'[j].popAfter = OpeningAt(table'[j].received)
  BY <1>0 DEF Gated, Windowed, OpeningAt, NextOpen, Inside
<1>1. CASE Opens(j)
  <2>1. table'[j].received = firedAt /\ table'[j].popAfter = PopAfter(ThisKey)
    BY <1>1 DEF Opens, NewRow
  <2>2. firedAt \in Nat /\ policy \in Policy
    BY IngestAssumption DEF Typed
  <2>3. DebounceGate(ThisKey) = 0
    BY DEF DebounceGate
  <2>4. OpeningGate = OpeningAt(firedAt)
    BY DEF OpeningGate, OpeningAt
  <2>5. OpeningAt(firedAt) \in Nat
    BY <2>2, NextOpenIsFirst DEF OpeningAt
  <2>6. PopAfter(ThisKey) = OpeningAt(firedAt)
    BY <2>3, <2>4, <2>5 DEF PopAfter
  <2> QED BY <2>1, <2>6
<1>2. CASE ~Opens(j)
  <2>1. Present(table, j)
    BY <1>2, StepStamps
  <2>2. table[j].attempts \in Nat
    BY <2>1 DEF Stamped
  <2>3. table'[j].attempts # table[j].attempts + 1
    BY <2>2
  <2>4. Same(table'[j], table[j])
    BY <1>2, <2>3, StepStamps
  <2> QED BY <2>1, <2>4 DEF Gated, Same
<1> QED BY <1>1, <1>2

\* A gate at the next opening holds a row to it, neither less nor more.
LEMMA GatedHeld ==
  ASSUME Typed, Stamped, Gated
  PROVE  HeldToOpening
<1> SUFFICES ASSUME Windowed, policy.mode \notin {"batch", "adaptive"},
                    NEW i \in Id, Present(table, i), table[i].attempts = 0
             PROVE  LET first == IF table[i].popAfter = 0 THEN table[i].received ELSE table[i].popAfter
                    IN Inside(first) /\ \A t \in table[i].received .. (first - 1) : ~Inside(t)
  BY DEF HeldToOpening
<1> DEFINE at == table[i].received
<1>1. at \in Nat /\ policy \in Policy /\ table[i].popAfter = OpeningAt(at)
  <2>1. table[i].received \in 0 .. firedAt
    BY DEF Stamped
  <2>2. firedAt \in 0 .. MaxTime /\ MaxTime \in Nat /\ policy \in Policy
    BY IngestAssumption DEF Typed
  <2>3. table[i].popAfter = OpeningAt(table[i].received)
    BY DEF Gated
  <2> QED BY <2>1, <2>2, <2>3
<1> HIDE DEF at
<1>2. /\ NextOpen(at) \in Nat /\ NextOpen(at) >= at /\ Inside(NextOpen(at))
      /\ \A t \in at .. (NextOpen(at) - 1) : ~Inside(t)
  BY <1>1, NextOpenIsFirst
<1>3. (IF table[i].popAfter = 0 THEN at ELSE table[i].popAfter) = NextOpen(at)
  BY <1>1, <1>2 DEF OpeningAt
<1> QED BY <1>2, <1>3 DEF at

----------------------------------------------------------------------------
(* One open batch per key.                                                 *)

\* A leased row, and the row of a wake, was popped.
Leases ==
  /\ Dispatched(table) \subseteq popped
  /\ loop = "wake" => wake \in popped

\* The rows that no wake has had yet.
Waiting == {i \in Pending(table) : Fresh(i)}
WaitingOf(k) == {i \in Waiting : KeyOfRow(i) = k}

\* A row received at second t may stand beside row i.
Apart(i, t) ==
  CASE policy.mode = "latest"   -> policy.window # Unbounded
    [] policy.mode = "batch"    -> policy.window # Unbounded /\ t > table[i].received + policy.window
    [] policy.mode = "adaptive" -> ~ (t < table[i].popAfter)
    [] OTHER                    -> TRUE

\* When the bus is about to open a row, those that wait with the key may stand beside it.
Chosen ==
  ThisKey # NoKey =>
    /\ step \in {"credit", "spend", "enqueue"} => \A i \in WaitingOf(ThisKey) : Apart(i, firedAt)
    /\ step = "supersede" /\ policy.window = Unbounded => WaitingOf(ThisKey) \subseteq chosen

\* Only a pop leases a row, and what was popped stays popped.
LEMMA StepLeases ==
  ASSUME Typed, Leased, Leases, [Next]_vars
  PROVE  Leases'
<1>0. Rows(table) /\ (loop = "wake" => wake \in Id) /\ chosen \subseteq Id
  BY DEF Typed
<1>1. CASE EnqueueRow
  <2> DEFINE a == StimulusId(firedAt, index)
  <2>1. /\ a \in Id
        /\ table' = Enqueue(table, a, NewRow("low", firedAt, PopAfter(ThisKey)))
        /\ popped' = IF Present(table, a) THEN popped ELSE popped \ {a}
        /\ loop' = loop /\ wake' = wake
    BY <1>1, IdTaken DEF EnqueueRow
  <2> HIDE DEF a
  <2>2. \A j \in Id : table'[j].status = IF j = a /\ ~Present(table, a) THEN "pending"
                                                                      ELSE table[j].status
    BY <1>0, <2>1, EnqueueStatus
  <2>3. loop = "wake" => wake \in popped'
    BY <1>0, <2>1 DEF Leased, Leases, Present
  <2> QED BY <2>1, <2>2, <2>3 DEF Leases, Dispatched, InStatus
<1>2. CASE Supersede
  BY <1>2, SupersedeStatus DEF Supersede, mind, Leases, Dispatched, InStatus
<1>3. CASE Reclaim
  <2>1. \A j \in Id : table'[j].status # "dispatched"
    BY <1>0, <1>3, ReclaimStatus DEF Reclaim
  <2> QED BY <1>3, <2>1 DEF Reclaim, Leases, Dispatched, InStatus
<1>4. ASSUME NEW i \in Id, Pop(i) PROVE Leases'
  BY <1>4, PopStatus DEF Pop, Leases, Dispatched, InStatus
<1>5. CASE WakeEnds
  BY <1>5, WakeEndsStatus DEF WakeEnds, Leases, Dispatched, InStatus
<1>6. CASE WakeTimesOut
  BY <1>6, WakeTimesOutStatus DEF WakeTimesOut, Leases, Dispatched, InStatus
<1>7. CASE ShedRows
  <2>1. \E v : table' = Delete(table, v)
    BY <1>7 DEF ShedRows
  <2>2. \A j \in Id : table'[j].status \in {"absent", table[j].status}
    BY <1>0, <2>1, DeleteStatus
  <2> QED BY <1>7, <2>2 DEF ShedRows, mind, Leases, Dispatched, InStatus
<1>8. CASE Crash
  BY <1>8 DEF Crash, durable, Leases, Dispatched
<1>9. CASE UNCHANGED <<table, loop, wake, popped>>
  BY <1>9 DEF Leases, Dispatched
<1> QED
  BY <1>1, <1>2, <1>3, <1>4, <1>5, <1>6, <1>7, <1>8, <1>9
  DEF Next, vars, Receive, Publish, Poll, Mark, Coalesce, Fold, ReadCredit, SpendCredit, IngestFails,
      Tick, durable, mind

\* The first item of a row that stays, stays.
LEMMA StepHead ==
  ASSUME Typed, Ordered, Folding, Stamped, [Next]_vars,
         NEW j \in Id, Present(table', j), ~Opens(j)
  PROVE  /\ Present(table, j) /\ Head(items'[j]) = Head(items[j])
         /\ KeyOfRow(j)' = KeyOfRow(j) /\ Head(items[j]) \in 1 .. taken
<1>1. Present(table, j)
  BY StepStamps
<1>2. items \in [Id -> Seq(Msg)] /\ items[j] # << >> /\ items'[j] # << >>
  BY <1>1, StepFilled DEF Typed, Stamped
<1>3. Head(items[j]) = items[j][1] /\ 1 \in DOMAIN items[j]
  BY <1>2
<1>4. Head(items'[j]) = Head(items[j])
  <2>1. CASE EnqueueRow
    <3> DEFINE a == StimulusId(firedAt, index)
    <3>1. items' = IF Present(table, a) THEN items ELSE [items EXCEPT ![a] = <<This>>]
      BY <2>1 DEF EnqueueRow
    <3>2. Present(table, a) \/ j # a
      BY <1>1
    <3> HIDE DEF a
    <3> QED BY <1>2, <3>1, <3>2
  <2>2. CASE Fold
    <3>1. PICK acc \in Id : chosen = {acc} /\ (Present(table, acc) => items[acc] = seenItems)
      BY <2>2 DEF Folding, Fold
    <3>2. items' = IF Present(table, acc)
                   THEN [items EXCEPT ![acc] = MergeBatch(seenItems, This)] ELSE items
      BY <2>2, <3>1 DEF Fold
    <3>3. CASE j = acc
      <4>1. items'[j] = Append(items[j], This)
        BY <1>1, <1>2, <3>1, <3>2, <3>3 DEF MergeBatch
      <4>2. This \in Msg
        BY <2>2, HeadFits DEF Fold, Typed
      <4>3. Head(Append(items[j], This)) = items[j][1]
        BY <1>2, <4>2
      <4> QED BY <1>3, <4>1, <4>3
    <3>4. CASE j # acc
      BY <1>2, <3>2, <3>4
    <3> QED BY <3>3, <3>4
  <2>3. CASE ShedRows
    <3>1. \E v : items' = [i \in Id |-> IF i \in v THEN << >> ELSE items[i]]
      BY <2>3 DEF ShedRows
    <3> QED BY <1>2, <3>1
  <2>4. CASE items' = items
    BY <2>4
  <2> QED
    BY <2>1, <2>2, <2>3, <2>4
    DEF Next, vars, Receive, Publish, Poll, Mark, Coalesce, Supersede, ReadCredit, SpendCredit,
        IngestFails, Reclaim, Pop, WakeEnds, WakeTimesOut, Crash, Tick, durable
<1>5. Head(items[j]) \in 1 .. taken
  BY <1>3, ItemTaken
<1> QED BY <1>1, <1>4, <1>5, KeysStay DEF KeyOfRow

\* A row that waits unheard did so before, with the same stamps, or is the one just opened.
LEMMA StepWaiting ==
  ASSUME Typed, Ordered, Folding, Stamped, Leases, [Next]_vars, NEW j \in Id, j \in Waiting'
  PROVE  Opens(j) \/ (j \in Waiting /\ Same(table'[j], table[j]))
<1>1. j \in Pending(table') /\ j \notin popped' /\ table'[j].status = "pending" /\ Present(table', j)
  BY DEF Waiting, Fresh, Pending, InStatus, Present
<1> SUFFICES ASSUME ~Opens(j) PROVE j \in Waiting /\ Same(table'[j], table[j])
  OBVIOUS
<1>2. Rows(table) /\ (loop = "wake" => wake \in Id)
  BY DEF Typed
<1>3. Present(table, j)
  BY <1>1, StepStamps
<1>4. j \notin popped
  <2>1. CASE EnqueueRow
    <3> DEFINE a == StimulusId(firedAt, index)
    <3>1. popped' = IF Present(table, a) THEN popped ELSE popped \ {a}
      BY <2>1 DEF EnqueueRow
    <3>2. Present(table, a) \/ j # a
      BY <1>3
    <3> HIDE DEF a
    <3> QED BY <1>1, <3>1, <3>2
  <2>2. ASSUME NEW i \in Id, Pop(i) PROVE popped \subseteq popped'
    BY <2>2 DEF Pop
  <2>3. CASE popped' = popped
    BY <1>1, <2>3
  <2> QED
    BY <1>1, <2>1, <2>2, <2>3
    DEF Next, vars, Receive, Publish, Poll, Mark, Coalesce, Supersede, Fold, ReadCredit, SpendCredit,
        IngestFails, Reclaim, WakeEnds, WakeTimesOut, ShedRows, Crash, Tick, mind
<1>5. ~(WakeTimesOut /\ j = wake)
  BY <1>4 DEF WakeTimesOut, Leases
<1>6. Same(table'[j], table[j])
  BY <1>1, <1>5, StepStamps
<1>7. table[j].status = "pending"
  <2>1. CASE Reclaim
    <3>1. table[j].status \in {"pending", "dispatched"}
      BY <1>1, <1>2, <2>1, ReclaimStatus DEF Reclaim
    <3> QED BY <1>4, <3>1 DEF Leases, Dispatched, InStatus
  <2>2. CASE WakeTimesOut
    BY <1>1, <1>5, <2>2, WakeTimesOutStatus
  <2>3. CASE EnqueueRow
    <3> DEFINE a == StimulusId(firedAt, index)
    <3>1. a \in Id /\ table' = Enqueue(table, a, NewRow("low", firedAt, PopAfter(ThisKey)))
      BY <2>3, IdTaken DEF EnqueueRow
    <3>2. Present(table, a) \/ j # a
      BY <1>3
    <3> HIDE DEF a
    <3> QED BY <1>1, <1>2, <3>1, <3>2, EnqueueStatus
  <2>4. CASE Supersede
    BY <1>1, <2>4, SupersedeStatus
  <2>5. ASSUME NEW i \in Id, Pop(i) PROVE table[j].status = "pending"
    BY <1>1, <2>5, PopStatus
  <2>6. CASE WakeEnds
    BY <1>1, <2>6, WakeEndsStatus
  <2>7. CASE ShedRows
    <3>1. \E v : table' = Delete(table, v)
      BY <2>7 DEF ShedRows
    <3> QED BY <1>1, <1>2, <3>1, DeleteStatus
  <2>8. CASE table' = table
    BY <1>1, <2>8
  <2> QED
    BY <2>1, <2>2, <2>3, <2>4, <2>5, <2>6, <2>7, <2>8
    DEF Next, vars, Receive, Publish, Poll, Mark, Coalesce, Fold, ReadCredit, SpendCredit,
        IngestFails, Crash, Tick, durable
<1> QED BY <1>4, <1>6, <1>7 DEF Waiting, Fresh, Pending, InStatus

\* Nobody but the bus adds to the rows that wait with the key it is about to open a row of.
LEMMA StepBeside ==
  ASSUME Typed, Ordered, Folding, Stamped, Leases, [Next]_vars, ~EnqueueRow,
         cands' = cands, cands # << >>, firedAt' = firedAt
  PROVE  /\ ThisKey' = ThisKey
         /\ \A j \in WaitingOf(ThisKey)' :
              /\ j \in WaitingOf(ThisKey) /\ (Apart(j, firedAt) => Apart(j, firedAt)')
              /\ j \in Id /\ table'[j].status = "pending"
<1>1. This' = This /\ This \in 1 .. taken
  BY HeadFits DEF This
<1>2. ThisKey' = ThisKey /\ policy' = policy
  BY <1>1, KeysStay DEF ThisKey
<1>3. ASSUME NEW j \in WaitingOf(ThisKey)'
      PROVE  /\ j \in WaitingOf(ThisKey) /\ (Apart(j, firedAt) => Apart(j, firedAt)')
             /\ j \in Id /\ table'[j].status = "pending"
  <2>1. j \in Waiting' /\ KeyOfRow(j)' = ThisKey
    BY <1>2 DEF WaitingOf
  <2>2. j \in Id /\ table'[j].status = "pending" /\ Present(table', j) /\ ~Opens(j)
    BY <2>1 DEF Waiting, Pending, InStatus, Present, Opens
  <2>3. j \in Waiting /\ Same(table'[j], table[j])
    BY <2>1, <2>2, StepWaiting
  <2>4. KeyOfRow(j) = ThisKey
    BY <2>1, <2>2, StepHead
  <2>5. Apart(j, firedAt) => Apart(j, firedAt)'
    BY <1>2, <2>3 DEF Apart, Same
  <2> QED BY <2>2, <2>3, <2>4, <2>5 DEF WaitingOf
<1> QED BY <1>2, <1>3

\* What the bus does not find in the window may stand beside.
LEMMA NotFound ==
  ASSUME Typed, Stamped, NEW i \in WaitingOf(ThisKey)
  PROVE  /\ policy.window = Unbounded => i \in WithinWindow(ThisKey, policy.window)
         /\ policy.mode = "latest" /\ i \notin WithinWindow(ThisKey, policy.window) => Apart(i, firedAt)
         /\ policy.mode \in {"batch", "adaptive"} /\ i \notin Accumulators(ThisKey) => Apart(i, firedAt)
<1>1. i \in Id /\ i \in Pending(table) /\ Present(table, i) /\ keyOf[Head(items[i])] = ThisKey
  BY DEF WaitingOf, Waiting, Pending, InStatus, Present, KeyOfRow
<1>2. items[i] # << >> /\ table[i].received \in 0 .. firedAt
  BY <1>1 DEF Stamped
<1>3. /\ policy.window \in Nat \cup {Unbounded} /\ firedAt \in 0 .. MaxTime /\ MaxTime \in Nat
      /\ Unbounded \notin Nat
  BY IngestAssumption DEF Typed, Policy
<1>4. \A bound : bound = Unbounded => i \in WithinWindow(ThisKey, bound)
  BY <1>1, <1>2 DEF WithinWindow
<1>5. ASSUME i \notin WithinWindow(ThisKey, policy.window)
      PROVE  policy.window # Unbounded /\ firedAt > table[i].received + policy.window
  <2>1. policy.window # Unbounded /\ ~(firedAt - table[i].received <= policy.window)
    BY <1>1, <1>2, <1>5 DEF WithinWindow
  <2> QED BY <1>2, <1>3, <2>1
<1>6. ASSUME policy.mode = "latest", i \notin WithinWindow(ThisKey, policy.window) PROVE Apart(i, firedAt)
  BY <1>5, <1>6 DEF Apart
<1>7. ASSUME policy.mode = "batch", i \notin Accumulators(ThisKey) PROVE Apart(i, firedAt)
  <2>1. i \notin WithinWindow(ThisKey, policy.window)
    BY <1>7 DEF Accumulators
  <2> QED BY <1>5, <1>7, <2>1 DEF Apart
<1>8. ASSUME policy.mode = "adaptive", i \notin Accumulators(ThisKey) PROVE Apart(i, firedAt)
  <2>1. ~(firedAt < table[i].popAfter)
    BY <1>4, <1>8 DEF Accumulators
  <2> QED BY <1>8, <2>1 DEF Apart
<1> QED BY <1>4, <1>6, <1>7, <1>8

\* What the bus read is what it will act on: the rows of the chat that were pending, within the
\* window (bus/mod.rs:78-110).
LEMMA CoalesceChosen ==
  ASSUME Typed, Ordered, Folding, Stamped, Leases, Coalesce
  PROVE  Chosen'
<1>1. /\ cands' = cands /\ cands # << >> /\ firedAt' = firedAt /\ [Next]_vars /\ ~EnqueueRow
      /\ policy' = policy
  BY DEF Coalesce, Next, EnqueueRow, Typed
<1>2. SUFFICES ASSUME ThisKey # NoKey
      PROVE  /\ step' \in {"credit", "spend", "enqueue"} => \A i \in WaitingOf(ThisKey) : Apart(i, firedAt)
             /\ step' = "supersede" /\ policy.window = Unbounded => WaitingOf(ThisKey) \subseteq chosen'
  BY <1>1, StepBeside DEF Chosen
<1>3. CASE policy.mode = "none"
  BY <1>3, <1>2 DEF Coalesce, AfterCoalescing, Apart
<1>4. CASE policy.mode = "latest"
  <2>1. /\ chosen' = WithinWindow(ThisKey, policy.window)
        /\ step' = IF chosen' = {} THEN "enqueue" ELSE "supersede"
    BY <1>2, <1>4 DEF Coalesce
  <2> QED BY <1>4, <2>1, NotFound
<1>5. CASE policy.mode \in {"batch", "adaptive"}
  <2>1. \/ Accumulators(ThisKey) = {} /\ step' # "supersede"
        \/ step' = "fold"
    BY <1>2, <1>5 DEF Coalesce, AfterCoalescing
  <2> QED BY <1>5, <2>1, NotFound
<1>6. policy.mode \in Mode
  BY IngestAssumption DEF Typed, Policy
<1> QED BY <1>3, <1>4, <1>5, <1>6 DEF Mode

\* What was chosen stays right for the decision, whatever the loop does to those rows meanwhile.
LEMMA StepChosen ==
  ASSUME Typed, Ordered, Folding, Superseding, Stamped, Leases, Chosen, [Next]_vars
  PROVE  Chosen'
<1>1. CASE step' \in {"idle", "mark", "candidate", "fold"}
  BY <1>1 DEF Chosen
<1>2. CASE Coalesce
  BY <1>2, CoalesceChosen
<1>3. CASE Supersede
  <2>1. PICK i \in chosen : /\ chosen' = chosen \ {i}
                            /\ \A j \in Id : table'[j].status = IF j = i /\ Present(table, i) THEN "coalesced"
                                                                                       ELSE table[j].status
    BY <1>3, SupersedeStatus
  <2>2. /\ cands' = cands /\ cands # << >> /\ firedAt' = firedAt /\ ~EnqueueRow /\ policy' = policy
        /\ step = "supersede" /\ step' = IF chosen' = {} THEN "enqueue" ELSE "supersede"
    BY <1>3 DEF Supersede, EnqueueRow, Typed
  <2>3. policy.mode = "latest" /\ ThisKey # NoKey
    BY <2>2 DEF Superseding
  <2>4. policy.window = Unbounded => WaitingOf(ThisKey)' \subseteq chosen'
    <3>1. ASSUME policy.window = Unbounded, NEW j \in WaitingOf(ThisKey)' PROVE j \in chosen'
      <4>1. j \in WaitingOf(ThisKey) /\ j \in Id /\ table'[j].status = "pending"
        BY <2>2, StepBeside
      <4>2. j \in chosen /\ Present(table, j)
        BY <2>2, <2>3, <3>1, <4>1 DEF Chosen, WaitingOf, Waiting, Pending, InStatus, Present
      <4> QED BY <2>1, <4>1, <4>2
    <3> QED BY <3>1
  <2>5. ASSUME step' \in {"credit", "spend", "enqueue"}, NEW j \in WaitingOf(ThisKey)'
        PROVE  Apart(j, firedAt)'
    <3>1. chosen' = {}
      BY <2>2, <2>5
    <3>2. policy.window # Unbounded
      BY <2>4, <2>5, <3>1
    <3> QED BY <2>2, <2>3, <3>2 DEF Apart
  <2> QED BY <2>2, <2>4, <2>5 DEF Chosen
<1>4. CASE /\ cands' = cands /\ cands # << >> /\ firedAt' = firedAt /\ ~EnqueueRow /\ policy' = policy
           /\ chosen' = chosen
           /\ \/ step' = step
              \/ {step, step'} \subseteq {"credit", "spend", "enqueue"}
  BY <1>4, StepBeside DEF Chosen
<1>5. CASE ReadCredit \/ SpendCredit
  BY <1>4, <1>5 DEF ReadCredit, SpendCredit, EnqueueRow, Typed
<1>6. CASE UNCHANGED ingestor /\ ~EnqueueRow /\ policy' = policy
  BY <1>1, <1>4, <1>6 DEF ingestor, Typed
<1>7. CASE EnqueueRow \/ Fold
  BY <1>1, <1>7 DEF EnqueueRow, Fold, NextCandidate
<1>8. CASE \/ \E k \in Key \cup {NoKey} : Receive(k)
           \/ Poll \/ Mark \/ IngestFails \/ Crash
  BY <1>1, <1>8 DEF Receive, Poll, Mark, IngestFails, Crash
<1>9. CASE \/ \E k \in Key \cup {NoKey} : Publish(k)
           \/ \E i \in Id : Pop(i)
           \/ Reclaim \/ WakeEnds \/ WakeTimesOut \/ ShedRows \/ Tick \/ UNCHANGED vars
  <2>1. UNCHANGED ingestor
    BY <1>9 DEF Publish, Reclaim, Pop, WakeEnds, WakeTimesOut, ShedRows, Tick, vars, ingestor
  <2> QED BY <1>6, <1>7, <2>1, KeysStay
<1> QED BY <1>2, <1>3, <1>5, <1>7, <1>8, <1>9 DEF Next

\* No step opens a second batch beside an open one: the bus opens a row only when it found none,
\* and rows come back to pending only as they were.
LEMMA StepOneOpen ==
  ASSUME Typed, Ordered, Folding, Stamped, Leases, Chosen, OneOpenBatch, [Next]_vars
  PROVE  OneOpenBatch'
<1>0. policy' = policy
  BY KeysStay
<1>1. ASSUME NEW ij \in WaitingTogether'
      PROVE  Apart(ij[1], table[ij[2]].received)'
  <2> DEFINE i == ij[1]
             j == ij[2]
  <2>1. /\ i \in Waiting' /\ j \in Waiting' /\ Head(items'[i]) < Head(items'[j])
        /\ KeyOfRow(i)' = KeyOfRow(j)' /\ KeyOfRow(i)' # NoKey
        /\ ij \in Pending(table') \X Pending(table')
    BY <1>1 DEF WaitingTogether, Waiting
  <2>2. i \in Id /\ j \in Id /\ Present(table', i) /\ Present(table', j)
    BY <2>1 DEF Pending, InStatus, Present
  <2> HIDE DEF i, j
  <2>3. CASE Opens(i)
    <3>1. Head(items'[i]) = This /\ This \in 1 .. taken
      BY <2>2, <2>3, HeadFits DEF Opens, EnqueueRow, Typed
    <3>2. ~Opens(j)
      <4>1. Opens(j) => i = j
        BY <2>3 DEF Opens
      <4>2. Head(items'[i]) \in Nat
        BY <3>1
      <4> QED BY <2>1, <4>1, <4>2
    <3>3. Present(table, j) /\ Head(items'[j]) = Head(items[j])
      BY <2>2, <3>2, StepHead
    <3>4. Head(items[j]) < This
      <4>1. items[j] \in Seq(Msg) /\ items[j] # << >>
        BY <2>2, <3>3 DEF Typed, Stamped
      <4>2. 1 \in DOMAIN items[j] /\ Head(items[j]) = items[j][1]
        BY <4>1
      <4>3. cands # << >>
        BY <2>3 DEF Opens, EnqueueRow, Typed
      <4> QED BY <2>2, <4>2, <4>3, HeadFits DEF Ordered
    <3>5. Head(items[j]) \in Nat /\ This \in Nat
      <4>1. Head(items[j]) \in 1 .. taken /\ This \in 1 .. taken
        BY <2>2, <3>1, <3>2, StepHead
      <4> QED BY <4>1
    <3> QED BY <2>1, <3>1, <3>3, <3>4, <3>5
  <2>4. CASE ~Opens(i) /\ Opens(j)
    <3>1. i \in Waiting /\ Same(table'[i], table[i]) /\ KeyOfRow(i)' = KeyOfRow(i)
      BY <2>1, <2>2, <2>4, StepWaiting, StepHead
    <3>2. table'[j].received = firedAt /\ Head(items'[j]) = This /\ cands # << >> /\ step = "enqueue"
      BY <2>2, <2>4 DEF Opens, EnqueueRow, Typed, NewRow
    <3>3. KeyOfRow(j)' = ThisKey
      BY <3>2, HeadFits, KeysStay DEF KeyOfRow, ThisKey
    <3>4. i \in WaitingOf(ThisKey) /\ ThisKey # NoKey
      BY <2>1, <3>1, <3>3 DEF WaitingOf
    <3>5. Apart(i, firedAt)
      BY <3>2, <3>4 DEF Chosen
    <3> QED BY <1>0, <3>1, <3>2, <3>5 DEF Apart, Same, i, j
  <2>5. CASE ~Opens(i) /\ ~Opens(j)
    <3>1. /\ i \in Waiting /\ Same(table'[i], table[i]) /\ KeyOfRow(i)' = KeyOfRow(i)
          /\ Head(items'[i]) = Head(items[i])
      BY <2>1, <2>2, <2>5, StepWaiting, StepHead
    <3>2. /\ j \in Waiting /\ Same(table'[j], table[j]) /\ KeyOfRow(j)' = KeyOfRow(j)
          /\ Head(items'[j]) = Head(items[j])
      BY <2>1, <2>2, <2>5, StepWaiting, StepHead
    <3>3. <<i, j>> \in WaitingTogether
      BY <2>1, <3>1, <3>2 DEF WaitingTogether, Waiting
    <3>4. Apart(i, table[j].received)
      BY <3>3 DEF OneOpenBatch, Apart
    <3> QED BY <1>0, <3>1, <3>2, <3>4 DEF Apart, Same, i, j
  <2> QED BY <2>3, <2>4, <2>5
<1> QED BY <1>1 DEF OneOpenBatch, Apart

----------------------------------------------------------------------------
(* The adaptive window: the powers it multiplies by, and that it only grows *)
(* as the day's credits are spent.                                         *)

\* What holds at 0 and passes from each number to the next holds of all.
LEMMA NatSetInduction ==
  ASSUME NEW S, 0 \in S, \A n \in Nat : n \in S => n + 1 \in S
  PROVE  Nat \subseteq S
<1> SUFFICES ASSUME Nat \ S # {} PROVE FALSE
  OBVIOUS
<1> DEFINE R == OpToRel(<, Nat)
           T == Nat \ S
<1>1. PICK x \in T : \A y \in T : <<y, x>> \notin R
  <2>1. IsWellFoundedOn(R, Nat)
    BY NatLessThanWellFounded
  <2>2. T \subseteq Nat /\ T # {}
    OBVIOUS
  <2> HIDE DEF R, T
  <2> QED BY <2>1, <2>2, WFMin
<1>2. x - 1 \in Nat /\ x - 1 < x /\ x - 1 \notin S
  OBVIOUS
<1>3. <<x - 1, x>> \in R
  BY <1>2 DEF OpToRel
<1> QED BY <1>1, <1>2, <1>3

\* The first n + 1 powers.
Powers(b, g, n) ==
  /\ g \in [0 .. n -> Nat]
  /\ \A i \in 0 .. n : g[i] = IF i = 0 THEN 1 ELSE b * g[i - 1]

\* The recursion can be followed as far as one likes ...
LEMMA PowersExist ==
  ASSUME NEW b \in Nat
  PROVE  \A n \in Nat : \E g : Powers(b, g, n)
<1> DEFINE S == {n \in Nat : \E g : Powers(b, g, n)}
<1>1. 0 \in S
  <2>1. Powers(b, [i \in 0 .. 0 |-> 1], 0)
    BY DEF Powers
  <2> QED BY <2>1
<1>2. ASSUME NEW n \in Nat, n \in S
      PROVE  n + 1 \in S
  <2>1. PICK g : Powers(b, g, n)
    BY <1>2
  <2> DEFINE h == [i \in 0 .. n + 1 |-> IF i = n + 1 THEN b * g[n] ELSE g[i]]
  <2>2. b * g[n] \in Nat
    BY <2>1 DEF Powers
  <2>3. h \in [0 .. n + 1 -> Nat]
    BY <2>1, <2>2 DEF Powers
  <2>4. ASSUME NEW i \in 0 .. n + 1
        PROVE  h[i] = IF i = 0 THEN 1 ELSE b * h[i - 1]
    <3>1. CASE i = n + 1
      <4>1. i - 1 = n /\ n # n + 1 /\ n \in 0 .. n + 1 /\ i # 0
        BY <3>1
      <4> QED BY <3>1, <4>1
    <3>2. CASE i # n + 1
      <4>1. i \in 0 .. n
        BY <3>2
      <4>2. i # 0 => i - 1 \in 0 .. n + 1 /\ i - 1 # n + 1
        BY <4>1
      <4>3. g[i] = IF i = 0 THEN 1 ELSE b * g[i - 1]
        BY <2>1, <4>1 DEF Powers
      <4> QED BY <3>2, <4>1, <4>2, <4>3
    <3> QED BY <3>1, <3>2
  <2> HIDE DEF h
  <2>5. Powers(b, h, n + 1)
    BY <2>3, <2>4 DEF Powers
  <2> QED BY <2>5
<1> HIDE DEF S
<1>3. Nat \subseteq S
  BY <1>1, <1>2, NatSetInduction
<1> QED BY <1>3 DEF S

\* ... and leads to the same values.
LEMMA PowersAgree ==
  ASSUME NEW b \in Nat, NEW m \in Nat, NEW n \in Nat, NEW g, NEW h,
         Powers(b, g, m), Powers(b, h, n)
  PROVE  \A i \in Nat : i <= m /\ i <= n => g[i] = h[i]
<1> DEFINE S == {i \in Nat : i <= m /\ i <= n => g[i] = h[i]}
<1>1. 0 \in S
  BY DEF Powers
<1>2. ASSUME NEW i \in Nat, i \in S
      PROVE  i + 1 \in S
  BY <1>2 DEF Powers
<1> HIDE DEF S
<1>3. Nat \subseteq S
  BY <1>1, <1>2, NatSetInduction
<1> QED BY <1>3 DEF S

\* The recursion defines a function, so Power(b) is that function.
LEMMA PowerRecursion ==
  ASSUME NEW b \in Nat
  PROVE  /\ Power(b) \in [Nat -> Nat]
         /\ Power(b)[0] = 1
         /\ \A n \in Nat : Power(b)[n + 1] = b * Power(b)[n]
<1> DEFINE G(n) == CHOOSE g : Powers(b, g, n)
           p == [n \in Nat |-> G(n)[n]]
           Recurs(q) == q = [n \in Nat |-> IF n = 0 THEN 1 ELSE b * q[n - 1]]
<1>1. \A n \in Nat : Powers(b, G(n), n)
  BY PowersExist
<1> HIDE DEF G
<1>2. p \in [Nat -> Nat]
  BY <1>1 DEF Powers
<1>3. ASSUME NEW n \in Nat
      PROVE  p[n] = IF n = 0 THEN 1 ELSE b * p[n - 1]
  <2>1. CASE n = 0
    BY <1>1, <2>1 DEF Powers
  <2>2. CASE n # 0
    <3>1. n - 1 \in Nat
      BY <2>2
    <3>2. G(n)[n - 1] = G(n - 1)[n - 1]
      BY <1>1, <3>1, PowersAgree
    <3>3. G(n)[n] = b * G(n)[n - 1]
      BY <1>1, <2>2 DEF Powers
    <3> QED BY <2>2, <3>1, <3>2, <3>3
  <2> QED BY <2>1, <2>2
<1> HIDE DEF p
<1>4. p = [n \in Nat |-> IF n = 0 THEN 1 ELSE b * p[n - 1]]
  BY <1>2, <1>3
<1>5. Recurs(p)
  BY <1>4
<1>6. Power(b) = CHOOSE q : Recurs(q)
  BY DEF Power
<1> HIDE DEF Recurs
<1>7. Recurs(Power(b))
  BY <1>5, <1>6
<1> DEFINE P == Power(b)
<1>8. P = [n \in Nat |-> IF n = 0 THEN 1 ELSE b * P[n - 1]]
  BY <1>7 DEF Recurs
<1> HIDE DEF P
<1>9. P[0] = 1 /\ \A n \in Nat : P[n + 1] = b * P[n]
  <2>1. \A n \in Nat : P[n] = IF n = 0 THEN 1 ELSE b * P[n - 1]
    BY <1>8
  <2>2. \A n \in Nat : n + 1 \in Nat /\ n + 1 # 0 /\ (n + 1) - 1 = n
    OBVIOUS
  <2> QED BY <2>1, <2>2
<1>10. \A n \in Nat : P[n] \in Nat
  <2> DEFINE S == {n \in Nat : P[n] \in Nat}
  <2>1. 0 \in S
    BY <1>9
  <2>2. \A n \in Nat : n \in S => n + 1 \in S
    BY <1>9
  <2> HIDE DEF S
  <2>3. Nat \subseteq S
    BY <2>1, <2>2, NatSetInduction
  <2> QED BY <2>3 DEF S
<1>11. P \in [Nat -> Nat]
  <2>1. DOMAIN P = Nat /\ P = [n \in Nat |-> P[n]]
    BY <1>8
  <2> QED BY <1>10, <2>1
<1> QED BY <1>9, <1>11 DEF P

\* Powers of a base from 1 on are positive and do not fall.
LEMMA PowerRises ==
  ASSUME NEW b \in Nat \ {0}, NEW m \in Nat, NEW n \in Nat, m <= n
  PROVE  Power(b)[m] \in Nat \ {0} /\ Power(b)[n] \in Nat \ {0} /\ Power(b)[m] <= Power(b)[n]
<1> DEFINE P == Power(b)
<1>1. P[0] = 1 /\ \A k \in Nat : P[k] \in Nat /\ P[k + 1] = b * P[k]
  BY PowerRecursion
<1> HIDE DEF P
<1>2. \A k \in Nat : P[k] # 0
  <2> DEFINE S == {k \in Nat : P[k] # 0}
  <2>1. 0 \in S
    BY <1>1
  <2>2. \A k \in Nat : k \in S => k + 1 \in S
    BY <1>1
  <2> HIDE DEF S
  <2>3. Nat \subseteq S
    BY <2>1, <2>2, NatSetInduction
  <2> QED BY <2>3 DEF S
<1>3. \A d \in Nat : P[m] <= P[m + d]
  <2> DEFINE S == {d \in Nat : P[m] <= P[m + d]}
  <2>1. 0 \in S
    BY <1>1
  <2>2. ASSUME NEW d \in Nat, d \in S
        PROVE  d + 1 \in S
    <3>1. m + d \in Nat /\ m + (d + 1) = (m + d) + 1
      OBVIOUS
    <3>2. P[m + d] \in Nat /\ P[(m + d) + 1] = b * P[m + d]
      BY <1>1, <3>1
    <3>3. P[m + d] <= b * P[m + d]
      BY <3>2
    <3> QED BY <1>1, <2>2, <3>1, <3>2, <3>3
  <2> HIDE DEF S
  <2>3. Nat \subseteq S
    BY <2>1, <2>2, NatSetInduction
  <2> QED BY <2>3 DEF S
<1>4. n - m \in Nat /\ m + (n - m) = n
  OBVIOUS
<1> QED BY <1>1, <1>2, <1>3, <1>4 DEF P

\* Nothing halves more often than its own value.
LEMMA PowerOfTwoExceeds == \A n \in Nat : Power(2)[n] > n
<1> DEFINE P == Power(2)
<1>1. P[0] = 1 /\ \A k \in Nat : P[k] \in Nat /\ P[k + 1] = 2 * P[k]
  BY PowerRecursion
<1> HIDE DEF P
<1> DEFINE S == {n \in Nat : P[n] > n}
<1>2. 0 \in S
  BY <1>1
<1>3. \A n \in Nat : n \in S => n + 1 \in S
  BY <1>1
<1> HIDE DEF S
<1>4. Nat \subseteq S
  BY <1>2, <1>3, NatSetInduction
<1> QED BY <1>4 DEF P, S

\* As long as something is left, the credits have halved some number of times.
LEMMA HalvingsExist ==
  ASSUME NEW left \in 1 .. DailyCredits
  PROVE  \E s \in 0 .. DailyCredits : Halved(s, left)
<1> DEFINE P == Power(2)
           S == {s \in Nat : P[s] * left <= DailyCredits}
<1>1. P[0] = 1 /\ \A k \in Nat : P[k] \in Nat /\ P[k + 1] = 2 * P[k]
  BY PowerRecursion
<1>2. \A k \in Nat : P[k] > k
  BY PowerOfTwoExceeds
<1>3. DailyCredits \in Nat
  BY IngestAssumption
<1> HIDE DEF P
<1>4. 0 \in S
  BY <1>1, <1>3
<1>5. \A s \in S : s <= DailyCredits
  <2> SUFFICES ASSUME NEW s \in S PROVE s <= DailyCredits
    OBVIOUS
  <2>1. P[s] <= P[s] * left
    BY <1>1
  <2> QED BY <1>1, <1>2, <1>3, <2>1
<1>6. PICK s \in Nat : s \in S /\ s + 1 \notin S
  <2>1. ~(Nat \subseteq S)
    BY <1>3, <1>5
  <2> HIDE DEF S
  <2> QED BY <1>4, <2>1, NatSetInduction
<1>7. s \in 0 .. DailyCredits
  BY <1>3, <1>5, <1>6
<1>8. P[s] * left <= DailyCredits /\ DailyCredits < P[s + 1] * left
  <2>1. s + 1 \in Nat /\ ~(P[s + 1] * left <= DailyCredits) /\ P[s] * left <= DailyCredits
    BY <1>6
  <2>2. P[s + 1] * left \in Nat
    BY <1>1, <2>1
  <2> QED BY <1>3, <2>1, <2>2
<1> QED BY <1>7, <1>8 DEF Halved, P

\* The less is left, the oftener it has halved.
LEMMA HalvingsRise ==
  ASSUME NEW l \in 1 .. DailyCredits, NEW k \in 1 .. DailyCredits, k <= l,
         NEW s \in 0 .. DailyCredits, NEW t \in 0 .. DailyCredits, Halved(s, l), Halved(t, k)
  PROVE  s <= t
<1> DEFINE P == Power(2)
<1>0. DailyCredits \in Nat
  BY IngestAssumption
<1>1. s \in Nat /\ t \in Nat /\ t + 1 \in Nat
  BY <1>0
<1>2. P[s] \in Nat /\ P[t + 1] \in Nat
  BY <1>1, PowerRecursion
<1>3. P[s] * l < P[t + 1] * k
  <2>1. P[s] * l \in Nat /\ P[t + 1] * k \in Nat
    BY <1>0, <1>2
  <2> QED BY <1>0, <2>1 DEF Halved
<1>4. P[t + 1] * k <= P[t + 1] * l
  BY <1>0, <1>2
<1>5. P[s] < P[t + 1]
  BY <1>0, <1>2, <1>3, <1>4
<1> SUFFICES ASSUME t + 1 <= s PROVE FALSE
  BY <1>1
<1>6. P[t + 1] <= P[s]
  BY <1>1, PowerRises
<1> QED BY <1>2, <1>5, <1>6

\* AdaptiveCoalesce::window_sec does not shrink as the credits go.
LEMMA WindowGrows ==
  ASSUME NEW m \in Nat, NEW n \in Nat, m <= n
  PROVE  /\ AdaptiveWindow(m) \in Nat
         /\ AdaptiveWindow(m) <= AdaptiveWindow(n)
<1>0. DailyCredits \in Nat /\ InitialWindow \in Nat /\ MaxWindow \in Nat
  BY IngestAssumption
<1> DEFINE H(c) == CHOOSE s \in 0 .. DailyCredits : Halved(s, DailyCredits - c)
           W(c) == InitialWindow * Power(10)[H(c)]
<1>1. \A c \in Nat : AdaptiveWindow(c) =
        IF DailyCredits - c <= 0 \/ W(c) > MaxWindow THEN MaxWindow ELSE W(c)
  BY DEF AdaptiveWindow, Halved
<1>2. ASSUME NEW c \in Nat, ~(DailyCredits - c <= 0)
      PROVE  H(c) \in 0 .. DailyCredits /\ Halved(H(c), DailyCredits - c) /\ W(c) \in Nat
  <2>1. DailyCredits - c \in 1 .. DailyCredits
    BY <1>0, <1>2
  <2>2. \E s \in 0 .. DailyCredits : Halved(s, DailyCredits - c)
    BY <2>1, HalvingsExist
  <2>3. H(c) \in 0 .. DailyCredits /\ Halved(H(c), DailyCredits - c)
    BY <2>2
  <2> HIDE DEF H
  <2>4. Power(10)[H(c)] \in Nat
    BY <1>0, <2>3, PowerRecursion
  <2> QED BY <1>0, <2>3, <2>4
<1> HIDE DEF H, W
<1>3. \A c \in Nat : AdaptiveWindow(c) \in Nat /\ AdaptiveWindow(c) <= MaxWindow
  BY <1>0, <1>1, <1>2
<1>4. CASE DailyCredits - n <= 0 \/ W(n) > MaxWindow
  <2>1. AdaptiveWindow(n) = MaxWindow
    BY <1>1, <1>4
  <2> QED BY <1>3, <2>1
<1>5. CASE ~(DailyCredits - n <= 0 \/ W(n) > MaxWindow)
  <2>1. ~(DailyCredits - m <= 0) /\ DailyCredits - n <= DailyCredits - m
    BY <1>0, <1>5
  <2>2. /\ DailyCredits - m \in 1 .. DailyCredits /\ DailyCredits - n \in 1 .. DailyCredits
    BY <1>0, <1>5, <2>1
  <2>3. H(m) <= H(n) /\ H(m) \in Nat /\ H(n) \in Nat
    <3>1. /\ H(m) \in 0 .. DailyCredits /\ Halved(H(m), DailyCredits - m)
          /\ H(n) \in 0 .. DailyCredits /\ Halved(H(n), DailyCredits - n)
      BY <1>2, <1>5, <2>1
    <3> QED BY <1>0, <2>1, <2>2, <3>1, HalvingsRise
  <2>4. Power(10)[H(m)] <= Power(10)[H(n)] /\ Power(10)[H(m)] \in Nat /\ Power(10)[H(n)] \in Nat
    BY <2>3, PowerRises
  <2>5. W(m) <= W(n)
    BY <1>0, <2>4 DEF W
  <2>6. W(m) \in Nat /\ W(n) \in Nat
    BY <1>2, <1>5, <2>1
  <2> QED BY <1>0, <1>1, <1>5, <2>1, <2>5, <2>6
<1> QED BY <1>3, <1>4, <1>5

----------------------------------------------------------------------------
(* What a chat pays for, and how fast it may speak.                        *)

\* The columns and the cursors hold what they are declared to hold.
Columns ==
  /\ table \in Table
  /\ spent \in Nat /\ faults \in Nat
  /\ credits \in [Key -> [0 .. (MaxTime \div Day) -> Nat]]
  /\ wake \in Id \cup {NoWake}
  /\ popped \subseteq Id
  /\ heard \cup gone \subseteq Msg

\* An adaptive row is opened after its credit was counted.
Paid ==
  /\ step \in {"credit", "spend"} => policy.mode = "adaptive" /\ ThisKey # NoKey
  /\ step = "spend" => spent = credits[ThisKey][Today]
  /\ step = "enqueue" /\ policy.mode = "adaptive" /\ ThisKey # NoKey =>
       credits[ThisKey][Today] = spent + 1

\* A row that was never retried waits for the window of a credit already counted.
Paced ==
  policy.mode = "adaptive" /\ ~Windowed =>
    \A i \in Id : Present(table, i) /\ table[i].attempts = 0 /\ KeyOfRow(i) # NoKey =>
      \E n \in Nat : /\ n < credits[KeyOfRow(i)][table[i].received \div Day]
                     /\ table[i].popAfter = table[i].received + AdaptiveWindow(n)

\* A later second is not on an earlier day.
LEMMA DaysPass ==
  ASSUME NEW a \in Nat, NEW b \in Nat, a <= b
  PROVE  a \div Day <= b \div Day
<1> DEFINE p == a \div Day
           q == b \div Day
<1>1. /\ p \in Nat /\ a % Day \in 0 .. (Day - 1) /\ a = (Day * p) + (a % Day) /\ Day * p \in Nat
      /\ q \in Nat /\ b % Day \in 0 .. (Day - 1) /\ b = (Day * q) + (b % Day) /\ Day * q \in Nat
  BY DayAndMinute
<1> HIDE DEF p, q
<1> SUFFICES ASSUME q + 1 <= p PROVE FALSE
  BY <1>1 DEF p, q
<1>2. Day \in Nat /\ Day * (q + 1) <= Day * p /\ Day * (q + 1) = (Day * q) + Day
  BY <1>1, IngestAssumption
<1> QED BY <1>1, <1>2

\* The cursor of a key and a second is one of the credits.
LEMMA CreditFits ==
  ASSUME Columns, NEW k \in Key, NEW t \in 0 .. MaxTime
  PROVE  t \div Day \in 0 .. (MaxTime \div Day) /\ credits[k][t \div Day] \in Nat
<1>1. t \in Nat /\ MaxTime \in Nat /\ t <= MaxTime
  BY IngestAssumption
<1>2. t \div Day <= MaxTime \div Day /\ t \div Day \in Nat /\ MaxTime \div Day \in Nat
  BY <1>1, DaysPass, DayAndMinute
<1>3. t \div Day \in 0 .. (MaxTime \div Day)
  BY <1>2
<1> QED BY <1>3 DEF Columns

\* The key under ingestion is a key, or none.
LEMMA ThisKeyFits ==
  ASSUME Typed, Ordered, cands # << >>
  PROVE  /\ ThisKey \in Key \cup {NoKey} /\ This \in 1 .. taken
         /\ firedAt \in 0 .. MaxTime /\ Today = firedAt \div Day
<1>1. This \in 1 .. taken
  BY HeadFits
<1>2. keyOf \in Seq(Key \cup {NoKey}) /\ taken \in 0 .. Len(keyOf) /\ firedAt \in 0 .. MaxTime
  BY DEF Typed
<1>3. This \in 1 .. Len(keyOf)
  BY <1>1, <1>2
<1> QED BY <1>1, <1>2, <1>3 DEF ThisKey, Today

\* The gate of a new row is a second.
LEMMA PopAfterFits ==
  ASSUME Typed, Columns, NEW k \in Key \cup {NoKey}
  PROVE  PopAfter(k) \in Nat
<1>1. firedAt \in Nat /\ spent \in Nat /\ InitialWindow \in Nat /\ policy \in Policy
  BY IngestAssumption DEF Typed, Columns
<1>2. DebounceGate(k) \in Nat
  <2>1. AdaptiveWindow(spent) \in Nat
    BY <1>1, WindowGrows
  <2>2. CASE policy.mode = "adaptive"
    BY <1>1, <2>1, <2>2 DEF DebounceGate
  <2>3. CASE policy.mode # "adaptive" /\ policy.mode = "batch" /\ policy.window \in Nat \ {0}
    BY <1>1, <2>3 DEF DebounceGate
  <2>4. CASE policy.mode # "adaptive" /\ ~(policy.mode = "batch" /\ policy.window \in Nat \ {0})
    BY <2>4 DEF DebounceGate
  <2> QED BY <2>2, <2>3, <2>4
<1>3. OpeningGate \in Nat
  <2>1. CASE Windowed
    BY <1>1, <2>1, NextOpenIsFirst DEF OpeningGate
  <2>2. CASE ~Windowed
    BY <2>2 DEF OpeningGate
  <2> QED BY <2>1, <2>2
<1> QED BY <1>2, <1>3 DEF PopAfter

\* Every statement of the bus and of the loop keeps the table a table.
LEMMA StepTable ==
  ASSUME Typed, Ordered, Columns, [Next]_vars
  PROVE  table' \in Table
<1>0. table \in Table /\ (loop = "wake" => wake \in Id) /\ chosen \subseteq Id /\ now \in Nat
  BY IngestAssumption DEF Columns, Typed
<1>1. CASE EnqueueRow
  <2>1. StimulusId(firedAt, index) \in Id /\ firedAt \in Nat
    BY <1>1, IdTaken, IngestAssumption DEF EnqueueRow, Typed
  <2>2. cands # << >>
    BY <1>1 DEF EnqueueRow, Typed
  <2>3. PopAfter(ThisKey) \in Nat /\ "low" \in Priority
    BY <2>2, ThisKeyFits, PopAfterFits DEF Priority
  <2>4. NewRow("low", firedAt, PopAfter(ThisKey)) \in Row
    BY <2>1, <2>3, NewRowType
  <2>5. table' = Enqueue(table, StimulusId(firedAt, index), NewRow("low", firedAt, PopAfter(ThisKey)))
    BY <1>1 DEF EnqueueRow
  <2> QED BY <1>0, <2>1, <2>4, <2>5, EnqueueType
<1>2. CASE Supersede
  <2>1. PICK i \in chosen : table' = UpdateStatus(table, i, "coalesced")
    BY <1>2 DEF Supersede, Oldest
  <2> QED BY <1>0, <2>1, UpdateStatusType DEF Status
<1>3. CASE Reclaim
  BY <1>0, <1>3, ReclaimOrphansType DEF Reclaim
<1>4. ASSUME NEW i \in Id, Pop(i) PROVE table' \in Table
  BY <1>0, <1>4, UpdateStatusType DEF Pop, Status
<1>5. CASE WakeEnds
  BY <1>0, <1>5, UpdateStatusType DEF WakeEnds, Status
<1>6. CASE WakeTimesOut
  <2> DEFINE n == table[wake].attempts + 1
  <2>1. wake \in Id /\ table' = Reschedule(table, wake, n, RetryGate(n))
    BY <1>0, <1>6 DEF WakeTimesOut
  <2>2. table[wake].attempts \in Nat
    BY <1>0, <2>1 DEF Table, Row
  <2>3. n \in 1 .. MaxRetries /\ n \in Nat
    BY <1>6, <2>2, IngestAssumption DEF WakeTimesOut
  <2>4. RetryGate(n) \in Nat
    BY <1>0, <2>3, IngestAssumption DEF RetryGate
  <2> HIDE DEF n
  <2> QED BY <1>0, <2>1, <2>3, <2>4, RescheduleType
<1>7. CASE ShedRows
  <2>1. PICK v \in ShedSoFar(table, QueueMaxDepth) : table' = Delete(table, v)
    BY <1>7 DEF ShedRows
  <2> QED BY <1>0, <2>1, ShedSoFarType, DeleteType
<1>8. CASE UNCHANGED table
  BY <1>0, <1>8
<1> QED
  BY <1>1, <1>2, <1>3, <1>4, <1>5, <1>6, <1>7, <1>8
  DEF Next, Receive, Publish, Poll, Mark, Coalesce, Fold, ReadCredit, SpendCredit, IngestFails,
      Crash, Tick, durable, vars

\* The messages of a row are messages.
LEMMA ItemsFit ==
  ASSUME Typed, NEW i \in Id
  PROVE  Items(i) \subseteq Msg
<1>1. items[i] \in Seq(Msg)
  BY DEF Typed
<1> QED BY <1>1 DEF Items, ToSet

\* No step breaks the type of a column, of a credit or of what the steps carry along.
LEMMA StepColumns ==
  ASSUME Typed, Ordered, Columns, Paid, [Next]_vars
  PROVE  Columns'
<1>0. /\ table' \in Table /\ spent \in Nat /\ faults \in Nat
      /\ credits \in [Key -> [0 .. (MaxTime \div Day) -> Nat]]
      /\ wake \in Id \cup {NoWake} /\ popped \subseteq Id /\ heard \cup gone \subseteq Msg
      /\ step = "idle" <=> cands = << >>
  BY StepTable DEF Columns, Typed
<1>1. CASE UNCHANGED <<spent, credits, wake, popped, heard, gone>> /\ faults' \in {faults, faults + 1}
  BY <1>0, <1>1 DEF Columns
<1>2. CASE UNCHANGED <<credits, popped, heard, gone>> /\ spent' = 0 /\ wake' \in {wake, NoWake}
           /\ faults' \in {faults, faults + 1}
  BY <1>0, <1>2 DEF Columns
<1>3. CASE Fold
  <2>1. UNCHANGED <<credits, popped, heard, wake, faults>> /\ spent' = 0
        /\ gone' \in {gone, gone \cup {This}} /\ cands # << >>
    BY <1>0, <1>3 DEF Fold, NextCandidate, mind
  <2> QED BY <1>0, <2>1, HeadFits DEF Columns
<1>4. CASE EnqueueRow
  <2>1. UNCHANGED <<credits, heard, wake, faults>> /\ spent' = 0 /\ popped' \subseteq popped
        /\ gone' \in {gone, gone \cup {This}} /\ cands # << >>
    BY <1>0, <1>4 DEF EnqueueRow, NextCandidate
  <2> QED BY <1>0, <2>1, HeadFits DEF Columns
<1>5. CASE ReadCredit
  <2>1. ThisKey \in Key /\ firedAt \in 0 .. MaxTime /\ Today = firedAt \div Day
    BY <1>0, <1>5, ThisKeyFits DEF ReadCredit, Paid
  <2>2. credits[ThisKey][Today] \in Nat
    BY <2>1, CreditFits
  <2>3. UNCHANGED <<credits, wake, popped, heard, gone, faults>> /\ spent' = credits[ThisKey][Today]
    BY <1>5 DEF ReadCredit, durable, mind
  <2> QED BY <1>0, <2>2, <2>3 DEF Columns
<1>6. CASE SpendCredit
  <2>1. ThisKey \in Key /\ firedAt \in 0 .. MaxTime /\ Today = firedAt \div Day
    BY <1>0, <1>6, ThisKeyFits DEF SpendCredit, Paid
  <2>2. Today \in 0 .. (MaxTime \div Day) /\ spent + 1 \in Nat
    BY <1>0, <2>1, CreditFits
  <2>3. credits' = [credits EXCEPT ![ThisKey][Today] = spent + 1]
    BY <1>6 DEF SpendCredit
  <2>4. UNCHANGED <<spent, wake, popped, heard, gone, faults>>
    BY <1>6 DEF SpendCredit, mind
  <2> QED BY <1>0, <2>1, <2>2, <2>3, <2>4 DEF Columns
<1>7. ASSUME NEW i \in Id, Pop(i) PROVE Columns'
  <2>1. /\ UNCHANGED <<spent, credits, gone, faults>>
        /\ wake' = i /\ popped' = popped \cup {i} /\ heard' = heard \cup Items(i)
    BY <1>7 DEF Pop, ingestor
  <2> QED BY <1>0, <2>1, ItemsFit DEF Columns
<1>8. CASE WakeEnds \/ WakeTimesOut
  BY <1>0, <1>8 DEF Columns, WakeEnds, WakeTimesOut, ingestor
<1>9. CASE ShedRows
  <2>1. PICK v \in ShedSoFar(table, QueueMaxDepth) : gone' = gone \cup UNION {Items(i) : i \in v}
    BY <1>9 DEF ShedRows
  <2>2. v \subseteq Id
    BY <2>1, ShedSoFarType
  <2>3. UNION {Items(i) : i \in v} \subseteq Msg
    BY <2>2, ItemsFit
  <2>4. UNCHANGED <<spent, credits, wake, popped, heard>> /\ faults' \in {faults, faults + 1}
    BY <1>9 DEF ShedRows, Fault, ingestor, mind
  <2> QED BY <1>0, <2>1, <2>3, <2>4 DEF Columns
<1> QED
  BY <1>1, <1>2, <1>3, <1>4, <1>5, <1>6, <1>7, <1>8, <1>9
  DEF Next, Receive, Publish, Poll, Mark, Coalesce, Supersede, IngestFails, Fault, Reclaim, Crash, Tick,
      durable, ingestor, mind, vars

\* The key under ingestion stays the same until the next candidate.
LEMMA ThisKeyStays ==
  ASSUME Typed, Ordered, [Next]_vars, cands # << >>, cands' = cands
  PROVE  ThisKey' = ThisKey
<1>1. This \in 1 .. taken
  BY HeadFits
<1>2. This' = This /\ keyOf'[This] = keyOf[This]
  BY <1>1, KeysStay DEF This
<1> QED BY <1>2 DEF ThisKey

\* The credit that the bus has read and written in two calls is still what it read: nothing else
\* spends the chat's credits (bus/mod.rs:133-142).
LEMMA StepPaid ==
  ASSUME Typed, Ordered, Superseding, Columns, Paid, [Next]_vars
  PROVE  Paid'
<1>0. policy' = policy /\ (step = "idle" <=> cands = << >>)
  BY KeysStay DEF Typed
<1>1. CASE step' \notin {"credit", "spend", "enqueue"}
  BY <1>1 DEF Paid
<1>2. CASE UNCHANGED <<step, cands, firedAt, spent, credits>> /\ step \in {"credit", "spend", "enqueue"}
  <2>1. ThisKey' = ThisKey /\ Today' = Today
    BY <1>0, <1>2, ThisKeyStays DEF Today
  <2> QED BY <1>0, <1>2, <2>1 DEF Paid
<1>3. CASE Coalesce
  <2>1. UNCHANGED <<cands, firedAt, spent, credits>> /\ cands # << >>
    BY <1>0, <1>3 DEF Coalesce, durable
  <2>2. ThisKey' = ThisKey
    BY <2>1, ThisKeyStays
  <2>3. \/ step' = AfterCoalescing
        \/ step' = "enqueue" /\ policy.mode = "latest"
        \/ step' \notin {"credit", "spend", "enqueue"}
    BY <1>3 DEF Coalesce
  <2> QED BY <1>0, <2>2, <2>3 DEF Paid, AfterCoalescing
<1>4. CASE Supersede
  <2>1. step' \notin {"credit", "spend"} /\ cands' = cands /\ cands # << >>
    BY <1>0, <1>4 DEF Supersede
  <2>2. step' = "enqueue" => policy.mode # "adaptive"
    BY <1>4 DEF Supersede, Superseding
  <2> QED BY <1>0, <2>1, <2>2 DEF Paid
<1>5. CASE ReadCredit
  <2>1. UNCHANGED <<cands, firedAt, credits>> /\ cands # << >> /\ step = "credit" /\ step' = "spend"
        /\ spent' = credits[ThisKey][Today]
    BY <1>0, <1>5 DEF ReadCredit, durable
  <2>2. ThisKey' = ThisKey /\ Today' = Today
    BY <2>1, ThisKeyStays DEF Today
  <2> QED BY <1>0, <2>1, <2>2 DEF Paid
<1>6. CASE SpendCredit
  <2>1. UNCHANGED <<cands, firedAt, spent>> /\ cands # << >> /\ step = "spend" /\ step' = "enqueue"
        /\ credits' = [credits EXCEPT ![ThisKey][Today] = spent + 1]
    BY <1>0, <1>6 DEF SpendCredit
  <2>2. ThisKey' = ThisKey /\ Today' = Today
    BY <2>1, ThisKeyStays DEF Today
  <2>3. ThisKey \in Key /\ firedAt \in 0 .. MaxTime /\ Today = firedAt \div Day
    BY <2>1, ThisKeyFits DEF Paid
  <2>4. Today \in 0 .. (MaxTime \div Day)
    BY <2>3, CreditFits
  <2>5. credits'[ThisKey][Today] = spent + 1
    BY <2>1, <2>3, <2>4 DEF Columns
  <2> QED BY <1>0, <2>1, <2>2, <2>5 DEF Paid
<1> QED
  BY <1>0, <1>1, <1>2, <1>3, <1>4, <1>5, <1>6
  DEF Next, Receive, Publish, Poll, Mark, Fold, EnqueueRow, NextCandidate, IngestFails, Reclaim, Pop,
      WakeEnds, WakeTimesOut, ShedRows, Crash, Tick, durable, ingestor, mind, vars

\* A count never falls.
LEMMA CreditsRise ==
  ASSUME Typed, Ordered, Columns, Paid, [Next]_vars, NEW k \in Key, NEW t \in 0 .. MaxTime
  PROVE  credits[k][t \div Day] <= credits'[k][t \div Day]
<1>1. t \div Day \in 0 .. (MaxTime \div Day) /\ credits[k][t \div Day] \in Nat
  BY CreditFits
<1>2. CASE SpendCredit
  <2>1. credits' = [credits EXCEPT ![ThisKey][Today] = spent + 1] /\ spent = credits[ThisKey][Today]
    BY <1>2 DEF SpendCredit, Paid
  <2>2. ThisKey \in Key /\ firedAt \in 0 .. MaxTime /\ Today = firedAt \div Day
    BY <1>2, ThisKeyFits DEF SpendCredit, Paid, Typed
  <2>3. Today \in 0 .. (MaxTime \div Day) /\ credits[ThisKey][Today] \in Nat
    BY <2>2, CreditFits
  <2> QED BY <1>1, <2>1, <2>2, <2>3 DEF Columns
<1>3. CASE ~SpendCredit
  <2>1. UNCHANGED credits
    BY <1>3 DEF Next, Receive, Publish, Poll, Mark, Coalesce, Supersede, Fold, ReadCredit, EnqueueRow,
         IngestFails, Reclaim, Pop, WakeEnds, WakeTimesOut, ShedRows, Crash, Tick, durable, vars
  <2> QED BY <1>1, <2>1
<1> QED BY <1>2, <1>3

\* The row an adaptive duty opens: the credit it waits for has just been counted.
LEMMA OpenedPaced ==
  ASSUME Typed, Ordered, Columns, Paid, policy.mode = "adaptive", ~Windowed,
         NEW j \in Id, Opens(j), KeyOfRow(j)' # NoKey
  PROVE  /\ KeyOfRow(j)' = ThisKey /\ ThisKey \in Key
         /\ table'[j].received = firedAt
         /\ table'[j].popAfter = firedAt + AdaptiveWindow(spent)
         /\ spent \in Nat /\ spent + 1 = credits[ThisKey][Today] /\ credits' = credits
<1>1. step = "enqueue" /\ cands # << >> /\ items \in [Id -> Seq(Msg)]
  BY DEF Opens, EnqueueRow, Typed
<1>2. table'[j].received = firedAt /\ table'[j].popAfter = PopAfter(ThisKey)
  BY DEF Opens, NewRow
<1>3. items'[j] = <<This>> /\ keyOf' = keyOf
  BY <1>1 DEF Opens, EnqueueRow
<1>4. KeyOfRow(j)' = ThisKey
  <2>1. Head(<<This>>) = This
    OBVIOUS
  <2> QED BY <1>3, <2>1 DEF KeyOfRow, ThisKey
<1>5. ThisKey \in Key /\ ThisKey # NoKey
  BY <1>1, <1>4, ThisKeyFits
<1>6. spent \in Nat /\ spent + 1 = credits[ThisKey][Today] /\ credits' = credits
  BY <1>1, <1>5 DEF Opens, EnqueueRow, Columns, Paid
<1>7. AdaptiveWindow(spent) \in Nat /\ firedAt \in Nat
  <2>1. spent \in Nat /\ firedAt \in Nat
    BY <1>6, IngestAssumption DEF Typed
  <2> QED BY <2>1, WindowGrows
<1>8. DebounceGate(ThisKey) = firedAt + AdaptiveWindow(spent) /\ OpeningGate = 0
  BY <1>5 DEF DebounceGate, OpeningGate
<1>9. PopAfter(ThisKey) = firedAt + AdaptiveWindow(spent)
  BY <1>7, <1>8 DEF PopAfter
<1> QED BY <1>2, <1>4, <1>5, <1>6, <1>9

\* A row that was there and was not retried in this step keeps its key and its stamps.
LEMMA UntriedStays ==
  ASSUME Typed, Ordered, Folding, Stamped, [Next]_vars,
         NEW j \in Id, Present(table', j), table'[j].attempts = 0, ~Opens(j)
  PROVE  /\ Present(table, j) /\ table[j].attempts = 0
         /\ table'[j].received = table[j].received /\ table'[j].popAfter = table[j].popAfter
         /\ KeyOfRow(j)' = KeyOfRow(j) /\ KeyOfRow(j) \in Key \cup {NoKey}
         /\ table[j].received \in 0 .. MaxTime /\ table[j].received <= firedAt
<1>1. Present(table, j) /\ KeyOfRow(j)' = KeyOfRow(j) /\ Head(items[j]) \in 1 .. taken
  BY StepHead
<1>2. table[j].attempts \in Nat /\ table[j].received \in 0 .. firedAt /\ firedAt \in 0 .. MaxTime
  BY <1>1 DEF Stamped, Typed
<1>3. Same(table'[j], table[j])
  BY <1>2, StepStamps
<1>4. KeyOfRow(j) \in Key \cup {NoKey}
  <2>1. keyOf \in Seq(Key \cup {NoKey}) /\ taken \in 0 .. Len(keyOf)
    BY DEF Typed
  <2>2. Head(items[j]) \in 1 .. Len(keyOf)
    BY <1>1, <2>1
  <2> QED BY <2>1, <2>2 DEF KeyOfRow
<1>5. table[j].received \in 0 .. MaxTime /\ table[j].received <= firedAt
  BY <1>2, IngestAssumption
<1> QED BY <1>1, <1>3, <1>4, <1>5 DEF Same

\* A new row waits for the window of the credit that was just counted; no counted credit is taken back.
LEMMA StepPaced ==
  ASSUME Typed, Ordered, Folding, Stamped, Columns, Paid, Paced, [Next]_vars
  PROVE  Paced'
<1>0. policy' = policy
  BY KeysStay
<1> SUFFICES ASSUME policy.mode = "adaptive", ~Windowed, NEW j \in Id, Present(table', j),
                    table'[j].attempts = 0, KeyOfRow(j)' # NoKey
             PROVE  \E n \in Nat : /\ n < credits'[KeyOfRow(j)'][table'[j].received \div Day]
                                   /\ table'[j].popAfter = table'[j].received + AdaptiveWindow(n)
  BY <1>0 DEF Paced, Windowed
<1>1. CASE Opens(j)
  <2>1. /\ KeyOfRow(j)' = ThisKey /\ table'[j].received = firedAt
        /\ table'[j].popAfter = firedAt + AdaptiveWindow(spent)
        /\ spent \in Nat /\ spent + 1 = credits[ThisKey][Today] /\ credits' = credits
    BY <1>1, OpenedPaced
  <2>2. spent < credits'[ThisKey][firedAt \div Day]
    BY <2>1 DEF Today
  <2> QED BY <2>1, <2>2
<1>2. CASE ~Opens(j)
  <2> DEFINE k == KeyOfRow(j)
             at == table[j].received
  <2>1. /\ Present(table, j) /\ table[j].attempts = 0 /\ table'[j].received = at
        /\ table'[j].popAfter = table[j].popAfter /\ KeyOfRow(j)' = k /\ k \in Key
        /\ at \in 0 .. MaxTime
    BY <1>2, UntriedStays
  <2>2. PICK n \in Nat : n < credits[k][at \div Day] /\ table[j].popAfter = at + AdaptiveWindow(n)
    BY <2>1 DEF Paced
  <2>3. credits[k][at \div Day] <= credits'[k][at \div Day] /\ credits[k][at \div Day] \in Nat
    BY <2>1, CreditsRise, CreditFits
  <2>4. credits'[k][at \div Day] \in Nat
    <3>1. Columns' /\ Typed'
      BY StepColumns, StepTyped
    <3>2. at \div Day \in 0 .. (MaxTime \div Day)
      BY <2>1, CreditFits
    <3> QED BY <2>1, <3>1, <3>2 DEF Columns
  <2> HIDE DEF k, at
  <2>5. n < credits'[k][at \div Day]
    BY <2>2, <2>3, <2>4
  <2> QED BY <2>1, <2>2, <2>5
<1> QED BY <1>1, <1>2

\* A row that is opened later was paid for later, so it is held for no less time.
LEMMA StepSlows ==
  ASSUME Typed, Ordered, Folding, Stamped, Columns, Paid, Paced, NeverSpeedsUp, [Next]_vars
  PROVE  NeverSpeedsUp'
<1>0. policy' = policy /\ firedAt \in Nat /\ Columns'
  <2>1. firedAt \in 0 .. MaxTime /\ MaxTime \in Nat
    BY IngestAssumption DEF Typed
  <2> QED BY <2>1, KeysStay, StepColumns
<1> SUFFICES ASSUME policy.mode = "adaptive", ~Windowed, NEW i \in Id, NEW j \in Id,
                    Present(table', i), Present(table', j),
                    table'[i].attempts = 0, table'[j].attempts = 0,
                    KeyOfRow(i)' = KeyOfRow(j)', KeyOfRow(i)' # NoKey,
                    table'[i].received < table'[j].received,
                    table'[i].received \div Day = table'[j].received \div Day
             PROVE  table'[i].popAfter - table'[i].received <= table'[j].popAfter - table'[j].received
  BY <1>0 DEF NeverSpeedsUp, Windowed
<1>1. CASE ~Opens(i) /\ ~Opens(j)
  BY <1>1, UntriedStays DEF NeverSpeedsUp
<1>2. CASE Opens(i) /\ Opens(j)
  <2>1. i = j
    BY <1>2 DEF Opens
  <2>2. table'[i].received \in Nat
    BY <1>0 DEF Columns, Table, Row
  <2> QED BY <2>1, <2>2
<1>3. CASE Opens(i) /\ ~Opens(j)
  <2>1. table'[i].received = firedAt
    BY <1>3, OpenedPaced
  <2>2. table'[j].received <= firedAt /\ table'[j].received \in Nat
    BY <1>0, <1>3, UntriedStays DEF Columns, Table, Row
  <2> QED BY <1>0, <2>1, <2>2
<1>4. CASE ~Opens(i) /\ Opens(j)
  <2> DEFINE at == table[i].received
             k == KeyOfRow(i)
  <2>1. /\ Present(table, i) /\ table[i].attempts = 0 /\ table'[i].received = at
        /\ table'[i].popAfter = table[i].popAfter /\ KeyOfRow(i)' = k /\ at \in 0 .. MaxTime
    BY <1>4, UntriedStays
  <2>2. /\ k = ThisKey /\ table'[j].received = firedAt
        /\ table'[j].popAfter = firedAt + AdaptiveWindow(spent)
        /\ spent \in Nat /\ spent + 1 = credits[k][firedAt \div Day]
    BY <1>4, <2>1, OpenedPaced DEF Today
  <2>3. PICK n \in Nat : n < credits[k][at \div Day] /\ table[i].popAfter = at + AdaptiveWindow(n)
    BY <2>1 DEF Paced
  <2>4. at \div Day = firedAt \div Day /\ at \in Nat
    BY <2>1, <2>2, IngestAssumption
  <2> HIDE DEF at, k
  <2>5. n <= spent
    BY <2>2, <2>3, <2>4
  <2>6. AdaptiveWindow(n) <= AdaptiveWindow(spent) /\ AdaptiveWindow(n) \in Nat
        /\ AdaptiveWindow(spent) \in Nat
    BY <2>2, <2>5, WindowGrows
  <2> QED BY <1>0, <2>1, <2>2, <2>3, <2>4, <2>6
<1> QED BY <1>1, <1>2, <1>3, <1>4

----------------------------------------------------------------------------
(* The course of a message.                                                *)

\* What was heard, is gone or lies in a row was accepted, and what was accepted is older than
\* what is in hand.
Accounted ==
  /\ heard \cup gone \subseteq accepted
  /\ \A i \in Id : Items(i) \subseteq accepted
  /\ \A m \in accepted : /\ policy.polled => m <= watermark
                         /\ \A q \in 1 .. Len(cands) : m < cands[q]
  /\ ~policy.polled => taken = Len(keyOf)

\* Until the watermark is advanced, the candidates are what follows it.
Marking ==
  step = "mark" => policy.polled /\ \A q \in 1 .. Len(cands) : cands[q] = watermark + q

\* The row in flight is leased, or was superseded under `latest`, where all of it was heard.
Waking ==
  loop = "wake" =>
    /\ table[wake].status \in {"dispatched", "coalesced"}
    /\ table[wake].status = "coalesced" => policy.mode = "latest"
    /\ policy.mode = "latest" => Items(wake) \subseteq heard

\* The rows' items, when nothing of the kind of a new one is written.
LEMMA ItemsKept ==
  ASSUME Kept, NEW i \in Id
  PROVE  Items(i)' \subseteq Items(i)
BY DEF Kept, Items, ToSet

\* A row that grows holds what it held and the message in hand.
LEMMA ItemsGrow ==
  ASSUME NEW a, NEW n, Grows(a, n), NEW i \in Id
  PROVE  Items(i)' \subseteq Items(i) \cup {This}
BY DEF Grows, Items, ToSet

\* Which steps accept a message, and what they do to the rows.
LEMMA StepAccepts ==
  ASSUME Typed, Ordered, Folding, [Next]_vars
  PROVE  \/ /\ NextCandidate /\ (Fold \/ EnqueueRow) /\ \E a \in Id : \E n : Grows(a, n)
            /\ gone' \subseteq gone \cup {This} /\ heard' = heard
         \/ /\ accepted' = accepted /\ \A i \in Id : Items(i)' \subseteq Items(i)
            /\ heard' \subseteq heard \cup UNION {Items(i) : i \in Id}
            /\ gone' \subseteq gone \cup UNION {Items(i) : i \in Id}
<1>1. CASE Fold
  BY <1>1, FoldGrows DEF Fold, mind
<1>2. CASE EnqueueRow
  BY <1>2, EnqueueGrows DEF EnqueueRow
<1>3. ASSUME NEW i \in Id, Pop(i)
      PROVE  /\ accepted' = accepted /\ \A j \in Id : Items(j)' \subseteq Items(j)
             /\ heard' \subseteq heard \cup UNION {Items(j) : j \in Id} /\ gone' = gone
  BY <1>3 DEF Pop, Items
<1>4. CASE ShedRows
  <2>1. PICK v \in ShedSoFar(table, QueueMaxDepth) :
          gone' = gone \cup UNION {Items(i) : i \in v}
    BY <1>4 DEF ShedRows
  <2>2. v \subseteq Id
    BY <2>1, ShedSoFarType
  <2>3. Kept /\ accepted' = accepted /\ heard' = heard
    BY <1>4, ShedKeeps DEF ShedRows, mind
  <2> QED BY <2>1, <2>2, <2>3, ItemsKept
<1>5. CASE UNCHANGED <<items, accepted, heard, gone>>
  BY <1>5 DEF Items
<1> QED
  BY <1>1, <1>2, <1>3, <1>4, <1>5
  DEF Next, vars, Receive, Publish, Poll, Mark, Coalesce, Supersede, ReadCredit, SpendCredit,
      IngestFails, Reclaim, WakeEnds, WakeTimesOut, Crash, Tick, durable, mind

\* How the candidates, the watermark and what is taken move.
LEMMA StepCandidates ==
  ASSUME [Next]_vars
  PROVE  \/ /\ UNCHANGED <<cands, watermark, taken, keyOf, accepted>>
            /\ step' = "mark" => step = "mark"
         \/ cands' = << >> /\ step' = "idle" /\ UNCHANGED <<watermark, taken, keyOf, accepted>>
         \/ (Fold \/ EnqueueRow) /\ NextCandidate /\ UNCHANGED <<watermark, taken, keyOf>>
         \/ Mark \/ Poll \/ \E k \in Key \cup {NoKey} : Receive(k) \/ Publish(k)
<1>1. CASE Coalesce
  <2>1. step' # "mark"
    BY <1>1 DEF Coalesce, AfterCoalescing
  <2> QED BY <1>1, <2>1 DEF Coalesce, durable
<1>2. CASE Supersede
  BY <1>2 DEF Supersede
<1>3. CASE Fold \/ EnqueueRow
  BY <1>3 DEF Fold, EnqueueRow
<1>4. CASE ReadCredit \/ SpendCredit
  BY <1>4 DEF ReadCredit, SpendCredit, durable
<1>5. CASE IngestFails \/ Crash
  BY <1>5 DEF IngestFails, Crash, durable
<1>6. CASE Reclaim \/ WakeEnds \/ WakeTimesOut \/ ShedRows \/ Tick \/ (\E i \in Id : Pop(i)) \/ UNCHANGED vars
  BY <1>6 DEF Reclaim, WakeEnds, WakeTimesOut, ShedRows, Tick, Pop, vars, ingestor, durable
<1> QED BY <1>1, <1>2, <1>3, <1>4, <1>5, <1>6 DEF Next

\* Until the watermark is written the candidates are all that lies beyond it (ingest.rs:106-115).
LEMMA StepMarking ==
  ASSUME Typed, Marking, [Next]_vars
  PROVE  Marking'
<1>0. policy' = policy
  BY KeysStay
<1>1. CASE UNCHANGED <<cands, watermark>> /\ (step' = "mark" => step = "mark")
  BY <1>0, <1>1 DEF Marking
<1>2. CASE Poll
  <2>1. /\ policy.polled /\ watermark' = watermark /\ Len(keyOf) - watermark \in Nat
        /\ cands' = [n \in 1 .. (Len(keyOf) - watermark) |-> watermark + n]
    BY <1>2 DEF Poll, durable, Typed
  <2>2. Len(cands') = Len(keyOf) - watermark
    BY <2>1
  <2>3. \A q \in 1 .. Len(cands') : cands'[q] = watermark + q
    BY <2>1, <2>2
  <2> QED BY <1>0, <2>1, <2>3 DEF Marking
<1>3. CASE step' # "mark"
  BY <1>3 DEF Marking
<1>4. ASSUME NEW k \in Key \cup {NoKey}, Publish(k) PROVE Marking'
  BY <1>4 DEF Publish, ingestor, durable, Marking
<1> QED
  BY <1>1, <1>2, <1>3, <1>4, StepCandidates DEF NextCandidate, Mark, Receive

\* What is accepted was taken and, of a poll, is not beyond the watermark; the messages are accepted
\* in the order in which they are in hand.
LEMMA StepAccounted ==
  ASSUME Typed, Ordered, Folding, Marking, Accounted, [Next]_vars
  PROVE  Accounted'
<1>0. /\ cands \in Seq(Msg) /\ keyOf \in Seq(Key \cup {NoKey}) /\ Len(keyOf) \in Nat
      /\ accepted \subseteq 1 .. taken /\ taken \in 0 .. Len(keyOf) /\ watermark \in 0 .. Len(keyOf)
      /\ policy' = policy /\ accepted \subseteq Nat /\ taken <= Len(keyOf)
  <2>1. keyOf \in Seq(Key \cup {NoKey}) /\ taken \in 0 .. Len(keyOf) /\ accepted \subseteq 1 .. taken
    BY DEF Typed
  <2>2. Len(keyOf) \in Nat
    BY <2>1
  <2> QED BY <2>1, <2>2, KeysStay DEF Typed
<1>1. heard' \cup gone' \subseteq accepted' /\ \A i \in Id : Items(i)' \subseteq accepted'
  <2>1. CASE /\ NextCandidate /\ \E a \in Id : \E n : Grows(a, n)
             /\ gone' \subseteq gone \cup {This} /\ heard' = heard
    BY <2>1, ItemsGrow DEF Accounted, NextCandidate
  <2>2. CASE /\ accepted' = accepted /\ \A i \in Id : Items(i)' \subseteq Items(i)
             /\ heard' \subseteq heard \cup UNION {Items(i) : i \in Id}
             /\ gone' \subseteq gone \cup UNION {Items(i) : i \in Id}
    BY <2>2 DEF Accounted
  <2> QED BY <2>1, <2>2, StepAccepts
<1>2. /\ \A m \in accepted' : /\ policy.polled => m <= watermark'
                              /\ \A q \in 1 .. Len(cands') : m < cands'[q]
      /\ ~policy.polled => taken' = Len(keyOf')
  <2>1. CASE (Fold \/ EnqueueRow) /\ NextCandidate /\ UNCHANGED <<watermark, taken, keyOf>>
    <3>1. cands # << >> /\ step \notin {"idle", "mark"}
      BY <2>1 DEF Fold, EnqueueRow, Typed
    <3>2. This = cands[1] /\ 1 \in 1 .. Len(cands) /\ Len(cands) \in Nat
      BY <1>0, <3>1, HeadFits
    <3>3. \A q \in 1 .. Len(cands') : q + 1 \in 1 .. Len(cands) /\ cands'[q] = cands[q + 1] /\ 1 < q + 1
      BY <1>0, <2>1, <3>1, TailFits DEF NextCandidate
    <3>4. accepted' = accepted \cup {This}
      BY <2>1 DEF NextCandidate
    <3>5. policy.polled => This <= watermark
      BY <3>1, <3>2 DEF Ordered
    <3>6. \A q \in 1 .. Len(cands') : This < cands'[q]
      BY <3>2, <3>3 DEF Ordered
    <3>7. \A m \in accepted, q \in 1 .. Len(cands') : m < cands'[q]
      BY <3>3 DEF Accounted
    <3> QED BY <2>1, <3>4, <3>5, <3>6, <3>7 DEF Accounted
  <2>2. CASE accepted' = accepted /\ UNCHANGED <<watermark, taken, keyOf>>
             /\ (cands' = cands \/ cands' = << >>)
    <3>1. 1 .. Len(<< >>) = {}
      OBVIOUS
    <3> QED BY <2>2, <3>1 DEF Accounted
  <2>3. CASE Mark
    <3>1. /\ policy.polled /\ cands # << >> /\ watermark' = Newest
          /\ UNCHANGED <<cands, accepted, taken, keyOf>>
      BY <2>3 DEF Mark, Marking, Typed
    <3>2. cands[1] <= Newest /\ 1 \in 1 .. Len(cands) /\ cands[1] \in Nat /\ Newest \in Nat
      BY <1>0, <3>1, NewestIsLast, HeadFits, IngestAssumption DEF Msg
    <3>3. \A m \in accepted : m < cands[1]
      BY <3>2 DEF Accounted
    <3>4. \A m \in accepted : m <= Newest
      BY <1>0, <3>2, <3>3
    <3> QED BY <3>1, <3>4 DEF Accounted
  <2>4. CASE Poll
    <3>1. /\ policy.polled /\ UNCHANGED <<watermark, accepted>> /\ Len(keyOf) - watermark \in Nat
          /\ cands' = [n \in 1 .. (Len(keyOf) - watermark) |-> watermark + n]
      BY <1>0, <2>4 DEF Poll, durable
    <3>2. \A q \in 1 .. Len(cands') : cands'[q] = watermark + q /\ q \in Nat \ {0}
      BY <1>0, <3>1
    <3>3. \A m \in accepted : m <= watermark /\ m \in Nat
      BY <1>0, <3>1 DEF Accounted
    <3>4. \A m \in accepted, q \in 1 .. Len(cands') : m < cands'[q]
      BY <1>0, <3>2, <3>3
    <3> QED BY <3>1, <3>3, <3>4
  <2>5. ASSUME NEW k \in Key \cup {NoKey}, Receive(k)
        PROVE  /\ \A m \in accepted' : /\ policy.polled => m <= watermark'
                                       /\ \A q \in 1 .. Len(cands') : m < cands'[q]
               /\ ~policy.polled => taken' = Len(keyOf')
    <3>1. /\ ~policy.polled /\ keyOf' = Append(keyOf, k) /\ cands' = <<Len(keyOf')>>
          /\ taken' = Len(keyOf') /\ accepted' = accepted
      BY <2>5 DEF Receive
    <3>2. Len(keyOf') = Len(keyOf) + 1
      BY <1>0, <3>1
    <3>3. \A q \in 1 .. Len(cands') : cands'[q] = Len(keyOf) + 1
      BY <3>1, <3>2
    <3>4. \A m \in accepted : m < Len(keyOf) + 1
      BY <1>0
    <3> QED BY <3>1, <3>3, <3>4
  <2>6. ASSUME NEW k \in Key \cup {NoKey}, Publish(k)
        PROVE  /\ \A m \in accepted' : /\ policy.polled => m <= watermark'
                                       /\ \A q \in 1 .. Len(cands') : m < cands'[q]
               /\ ~policy.polled => taken' = Len(keyOf')
    BY <2>6 DEF Publish, Accounted, durable, ingestor
  <2> QED
    BY <2>1, <2>2, <2>3, <2>4, <2>5, <2>6, StepCandidates
<1> QED BY <1>0, <1>1, <1>2 DEF Accounted

\* No step turns the row in flight into one that waits, and under `latest` nothing is folded into it.
LEMMA StepWaking ==
  ASSUME Typed, Ordered, Folding, Superseding, Waking, [Next]_vars
  PROVE  Waking'
<1>0. Rows(table) /\ items \in [Id -> Seq(Msg)] /\ (loop = "wake" => wake \in Id)
      /\ policy' = policy
  BY KeysStay DEF Typed
<1>1. ASSUME NEW i \in Id, Pop(i) PROVE Waking'
  <2>1. table[i].status = "pending" /\ wake' = i /\ items' = items /\ heard' = heard \cup Items(i)
    BY <1>1 DEF Pop, NextRows, Eligible, Pending, InStatus
  <2>2. table'[i].status = "dispatched"
    BY <1>1, <2>1, PopStatus DEF Present
  <2>3. Items(wake)' = Items(i)
    BY <2>1 DEF Items
  <2> QED BY <2>1, <2>2, <2>3 DEF Waking
<1>2. CASE loop' # "wake"
  BY <1>2 DEF Waking
<1>3. CASE Supersede
  <2>1. PICK i \in chosen :
          \A j \in Id : table'[j].status = IF j = i /\ Present(table, i) THEN "coalesced"
                                                                   ELSE table[j].status
    BY <1>3, SupersedeStatus
  <2>2. UNCHANGED <<items, loop, wake, heard>> /\ policy.mode = "latest"
    BY <1>3 DEF Supersede, mind, Superseding
  <2>3. Items(wake)' = Items(wake)
    BY <2>2 DEF Items
  <2> QED BY <1>0, <2>1, <2>2, <2>3 DEF Waking
<1>4. CASE Fold
  <2>1. policy.mode # "latest" /\ UNCHANGED <<table, loop, wake, heard>>
    BY <1>4 DEF Fold, Folding, mind
  <2> QED BY <1>0, <2>1 DEF Waking
<1>5. CASE EnqueueRow
  <2> DEFINE i == StimulusId(firedAt, index)
  <2>1. i \in Id
    BY <1>5, IdTaken DEF EnqueueRow
  <2>2. \A j \in Id : table'[j].status = IF j = i /\ ~Present(table, i) THEN "pending"
                                                                  ELSE table[j].status
    BY <1>0, <1>5, <2>1, EnqueueStatus DEF EnqueueRow
  <2>3. /\ items' = IF Present(table, i) THEN items ELSE [items EXCEPT ![i] = <<This>>]
        /\ UNCHANGED <<loop, wake, heard>>
    BY <1>5 DEF EnqueueRow
  <2> HIDE DEF i
  <2>4. SUFFICES ASSUME loop = "wake" PROVE Waking'
    BY <2>3 DEF Waking
  <2>5. wake \in Id /\ Present(table, wake)
    BY <1>0, <2>4 DEF Waking, Present
  <2>6. table'[wake].status = table[wake].status /\ Items(wake)' = Items(wake)
    <3>1. items'[wake] = items[wake]
      BY <1>0, <2>1, <2>3, <2>5
    <3>2. Items(wake)' = Items(wake)
      BY <2>3, <3>1 DEF Items
    <3> QED BY <2>2, <2>5, <3>2
  <2> QED BY <1>0, <2>3, <2>6 DEF Waking
<1>6. CASE UNCHANGED <<table, items, loop, wake, heard>>
  BY <1>0, <1>6 DEF Waking, Items
<1> QED
  BY <1>1, <1>2, <1>3, <1>4, <1>5, <1>6
  DEF Next, vars, Receive, Publish, Poll, Mark, Coalesce, ReadCredit, SpendCredit, IngestFails,
      Reclaim, WakeEnds, WakeTimesOut, ShedRows, Crash, Tick, durable, mind

\* The fate of what was not accepted is read off the candidates and the cursor.
Ahead(m) == IF m \in ToSet(cands) THEN "inhand" ELSE IF InTime(m) THEN "new" ELSE "dropped"

\* A message that was not accepted is in hand, still to come, or dropped.
LEMMA FateAhead == Accounted => \A m : m \notin accepted => Fate(m) = Ahead(m)
<1> SUFFICES ASSUME Accounted, NEW m, m \notin accepted PROVE Fate(m) = Ahead(m)
  OBVIOUS
<1>1. ~Waits(m)
  BY DEF Accounted, Waits, Pending, Dispatched, InStatus
<1>2. m \notin heard /\ m \notin gone
  BY DEF Accounted
<1> QED BY <1>1, <1>2 DEF Fate, Ahead

\* What was accepted waits or has ended.
AcceptedFates == {"heard", "waiting", "gone", "overtaken"}

\* A message that was accepted waits, was heard, or ended in a known way.
LEMMA FateAccepted == LossesAreKnown => \A m \in accepted : Fate(m) \in AcceptedFates
BY DEF LossesAreKnown, Fate, AcceptedFates

CourseIInv == IngestIInv /\ Accounted /\ Marking /\ Waking

FatesAreKnown == /\ \A m \in accepted : Fate(m) \in AcceptedFates
                 /\ \A m : m \notin accepted => Fate(m) = Ahead(m)

\* The invariant leaves no message without a fate,
LEMMA FatesKnown == CourseIInv => FatesAreKnown
BY FateAhead, FateAccepted DEF CourseIInv, IngestIInv, FatesAreKnown

\* nor does it in the next state.
LEMMA FatesKnownNext == CourseIInv' => FatesAreKnown'
BY FatesKnown, PTL

\* What waits no more, and was not heard, does not wait again.
LEMMA EndedStays ==
  ASSUME CourseIInv, [Next]_vars, NEW m \in accepted, m \notin heard, ~Waits(m)
  PROVE  ~Waits(m)' /\ m \notin heard' /\ (m \in gone' <=> m \in gone)
<1>0. /\ Typed /\ Ordered /\ Folding /\ Leased /\ Accounted /\ Waking /\ Superseding
      /\ Rows(table) /\ items \in [Id -> Seq(Msg)] /\ accepted \subseteq Nat
  BY DEF CourseIInv, IngestIInv, Typed
<1>1. ASSUME \A j \in Id : table'[j].status \in {"pending", "dispatched"} /\ m \in Items(j)'
               => table[j].status \in {"pending", "dispatched"} /\ m \in Items(j)
      PROVE  ~Waits(m)'
  BY <1>1 DEF Waits, Pending, Dispatched, InStatus
<1>2. ASSUME NEW i \in Id, Pop(i)
      PROVE  ~Waits(m)' /\ m \notin heard' /\ (m \in gone' <=> m \in gone)
  <2>1. /\ i \in Pending(table) /\ table[i].status = "pending" /\ items' = items
        /\ heard' = heard \cup Items(i) /\ gone' = gone
    BY <1>2 DEF Pop, NextRows, Eligible, Pending, InStatus
  <2>2. \A j \in Id : Items(j)' = Items(j)
    BY <2>1 DEF Items
  <2>3. ~Waits(m)'
    BY <1>0, <1>1, <1>2, <2>1, <2>2, PopStatus DEF Present
  <2> QED BY <2>1, <2>3 DEF Waits
<1>3. CASE WakeEnds
  <2>1. UNCHANGED <<heard, gone>> /\ \A j \in Id : Items(j)' = Items(j)
    BY <1>3 DEF WakeEnds, Items
  <2>2. \A j \in Id : table'[j].status \in {"pending", "dispatched"} => table'[j].status = table[j].status
    BY <1>0, <1>3, WakeEndsStatus
  <2> QED BY <1>1, <2>1, <2>2
<1>4. CASE WakeTimesOut
  <2>1. UNCHANGED <<heard, gone>> /\ loop = "wake" /\ wake \in Id /\ \A j \in Id : Items(j)' = Items(j)
    BY <1>0, <1>4 DEF WakeTimesOut, Items, Typed
  <2>2. \A j \in Id \ {wake} : table'[j].status = table[j].status
    BY <1>0, <1>4, WakeTimesOutStatus
  <2>3. table[wake].status = "dispatched" \/ m \notin Items(wake)
    BY <1>0, <2>1 DEF Waking
  <2> QED BY <1>1, <2>1, <2>2, <2>3
<1>5. CASE Reclaim
  <2>1. UNCHANGED <<heard, gone>> /\ \A j \in Id : Items(j)' = Items(j)
    BY <1>5 DEF Reclaim, Items
  <2>2. \A j \in Id : table'[j].status = IF table[j].status = "dispatched" THEN "pending"
                                                                          ELSE table[j].status
    BY <1>0, <1>5, ReclaimStatus DEF Reclaim
  <2> QED BY <1>1, <2>1, <2>2
<1>6. CASE Supersede
  <2>1. PICK i \in chosen :
          \A j \in Id : table'[j].status = IF j = i /\ Present(table, i) THEN "coalesced"
                                                                   ELSE table[j].status
    BY <1>0, <1>6, SupersedeStatus
  <2>2. UNCHANGED <<heard, gone>> /\ \A j \in Id : Items(j)' = Items(j)
    BY <1>6 DEF Supersede, Items, mind
  <2>3. \A j \in Id : table'[j].status \in {"pending", "dispatched"} => table'[j].status = table[j].status
    BY <2>1
  <2> QED BY <1>1, <2>2, <2>3
<1>7. CASE Fold
  <2>1. This # m /\ table' = table /\ heard' = heard /\ gone' \in {gone, gone \cup {This}}
    <3>1. cands # << >>
      BY <1>0, <1>7 DEF Fold, Typed
    <3>2. This # m
      BY <1>0, <3>1, HeadFits DEF Accounted
    <3> QED BY <1>7, <3>2 DEF Fold, mind
  <2>2. PICK a \in Id : Grows(a, Len(items[a]) + 1)
    BY <1>0, <1>7, FoldGrows
  <2>3. \A j \in Id : m \in Items(j)' => m \in Items(j)
    BY <2>1, <2>2, ItemsGrow
  <2> QED BY <1>1, <2>1, <2>3
<1>8. CASE EnqueueRow
  <2>1. PICK i \in Id : i = StimulusId(firedAt, index)
    BY <1>0, <1>8, IdTaken DEF EnqueueRow
  <2>2. \A j \in Id : table'[j].status = IF j = i /\ ~Present(table, i) THEN "pending"
                                                                  ELSE table[j].status
    BY <1>0, <1>8, <2>1, EnqueueStatus DEF EnqueueRow
  <2>3. /\ items' = IF Present(table, i) THEN items ELSE [items EXCEPT ![i] = <<This>>]
        /\ heard' = heard /\ gone' \in {gone, gone \cup {This}}
    BY <1>8, <2>1 DEF EnqueueRow
  <2>4. cands # << >> /\ This # m
    <3>1. cands # << >>
      BY <1>0, <1>8 DEF EnqueueRow, Typed
    <3> QED BY <1>0, <3>1, HeadFits DEF Accounted
  <2>5. CASE Present(table, i)
    BY <1>1, <2>2, <2>3, <2>4, <2>5 DEF Items
  <2>6. CASE ~Present(table, i)
    <3>1. \A j \in Id \ {i} : Items(j)' = Items(j)
      BY <1>0, <2>1, <2>3, <2>6 DEF Items
    <3>2. m \notin Items(i)'
      <4>1. items'[i] = <<This>>
        BY <1>0, <2>1, <2>3, <2>6
      <4>2. \A p \in DOMAIN <<This>> : <<This>>[p] = This
        OBVIOUS
      <4> QED BY <2>4, <4>1, <4>2 DEF Items, ToSet
    <3>3. ~Waits(m)'
      <4>1. \A j \in Id \ {i} : table'[j].status = table[j].status
        BY <2>2
      <4> QED BY <1>1, <3>1, <3>2, <4>1
    <3> QED BY <2>3, <2>4, <3>3
  <2> QED BY <2>5, <2>6
<1>9. CASE ShedRows
  <2>1. PICK v \in ShedSoFar(table, QueueMaxDepth) :
          /\ table' = Delete(table, v)
          /\ gone' = gone \cup UNION {Items(i) : i \in v}
    BY <1>9 DEF ShedRows
  <2>2. \A j \in Id : table'[j].status = IF j \in v THEN "absent" ELSE table[j].status
    BY <1>0, <2>1, DeleteStatus
  <2>3. \A j \in Id : Items(j)' \subseteq Items(j)
    BY <1>0, <1>9, ShedKeeps, ItemsKept
  <2>4. \A j \in v : j \in Pending(table)
    BY <2>1, ShedSoFarType DEF LowPending
  <2>5. heard' = heard /\ \A j \in v : m \notin Items(j)
    BY <1>9, <2>4 DEF ShedRows, mind, Waits
  <2> QED BY <1>1, <2>1, <2>2, <2>3, <2>5
<1>10. CASE UNCHANGED <<table, items, heard, gone>>
  BY <1>10 DEF Waits, Items, Pending, Dispatched, InStatus
<1> QED
  BY <1>2, <1>3, <1>4, <1>5, <1>6, <1>7, <1>8, <1>9, <1>10
  DEF Next, vars, Receive, Publish, Poll, Mark, Coalesce, ReadCredit, SpendCredit, IngestFails,
      Crash, Tick, durable, mind

\* Only a message that waits moves on; the others that were accepted have ended.
LEMMA AcceptedCourse ==
  ASSUME CourseIInv, CourseIInv', [Next]_vars, NEW m \in accepted
  PROVE  /\ m \in accepted' /\ Fate(m) \in AcceptedFates /\ Fate(m)' \in AcceptedFates
         /\ Fate(m) # "waiting" => Fate(m)' = Fate(m)
         /\ Fate(m) = "waiting" <=> m \notin heard /\ Waits(m)
         /\ Fate(m)' = "waiting" <=> m \notin heard' /\ Waits(m)'
         /\ Fate(m)' = "heard" <=> m \in heard'
         /\ m \notin heard' /\ m \in gone' => Fate(m)' \in {"waiting", "gone"}
<1>1. m \in accepted'
  <2>1. accepted' = accepted \/ accepted' = accepted \cup {This}
    BY StepAccepts DEF NextCandidate, CourseIInv, IngestIInv
  <2> QED BY <2>1
<1>2. Fate(m) \in AcceptedFates /\ Fate(m)' \in AcceptedFates
  BY <1>1, FatesKnown, FatesKnownNext DEF FatesAreKnown
<1>3. m \in heard => m \in heard'
  BY DEF Next, vars, Receive, Publish, Poll, Mark, Coalesce, Supersede, Fold, ReadCredit,
         SpendCredit, EnqueueRow, IngestFails, Reclaim, WakeEnds, WakeTimesOut, ShedRows, Crash,
         Tick, Pop, mind
<1>4. ASSUME Fate(m) # "waiting" PROVE Fate(m)' = Fate(m)
  <2>1. CASE m \in heard
    BY <1>3, <2>1 DEF Fate
  <2>2. CASE m \notin heard
    <3>1. ~Waits(m)
      BY <1>4, <2>2 DEF Fate
    <3>2. ~Waits(m)' /\ m \notin heard' /\ (m \in gone' <=> m \in gone)
      BY <2>2, <3>1, EndedStays
    <3> QED BY <1>1, <1>2, <2>2, <3>1, <3>2 DEF Fate, AcceptedFates
  <2> QED BY <2>1, <2>2
<1> QED BY <1>1, <1>2, <1>4 DEF Fate, AcceptedFates

\* The abstract state, seen from the messages.
LEMMA CourseIn == \A f : Messages!In(f) = {m \in Msg : Fate(m) = f}
BY DEF Messages!In, Course

\* A step that gives all of S one fate and leaves the others theirs is a move.
LEMMA CourseMoves ==
  ASSUME NEW S, NEW f, \A m \in Msg : Fate(m)' = IF m \in S THEN f ELSE Fate(m)
  PROVE  Messages!Move(S, f)
BY DEF Messages!Move, Course

\* The candidates are the messages in hand, and none of them was accepted.
LEMMA InHand ==
  ASSUME CourseIInv
  PROVE  \A m \in Msg : /\ m \in ToSet(cands) => m \notin accepted
                        /\ Fate(m) = "inhand" <=> m \in ToSet(cands)
<1>1. /\ Accounted /\ FatesAreKnown /\ accepted \subseteq Nat /\ cands \in Seq(Msg)
      /\ accepted \subseteq 1 .. taken
  BY FatesKnown DEF CourseIInv, IngestIInv, Typed
<1>2. ToSet(cands) = {cands[q] : q \in 1 .. Len(cands)}
  BY <1>1 DEF ToSet
<1>3. \A m \in accepted : m \in Nat /\ ~(m < m)
  BY <1>1
<1>4. \A m \in ToSet(cands) : m \notin accepted
  BY <1>1, <1>2, <1>3 DEF Accounted
<1> QED BY <1>1, <1>4 DEF FatesAreKnown, AcceptedFates, Ahead

\* The bus deals with the oldest message in hand.
LEMMA OldestInHand ==
  ASSUME CourseIInv, cands # << >>
  PROVE  Messages!IsOldest(This, Messages!In("inhand")) /\ This \in ToSet(cands)
<1>1. Typed /\ Ordered /\ cands \in Seq(Msg) /\ ToSet(cands) = {cands[q] : q \in 1 .. Len(cands)}
  BY DEF CourseIInv, IngestIInv, Typed, ToSet
<1>2. This = cands[1] /\ 1 \in 1 .. Len(cands) /\ This \in Msg
  BY <1>1, HeadFits
<1>3. ASSUME NEW q \in 1 .. Len(cands) PROVE This <= cands[q]
  <2>1. cands[q] \in Nat /\ This \in Nat /\ (q = 1 \/ 1 < q)
    BY <1>1, <1>2, IngestAssumption DEF Msg
  <2> QED BY <1>1, <1>2, <2>1 DEF Ordered
<1>4. Messages!In("inhand") = ToSet(cands) \cap Msg
  BY InHand, CourseIn
<1> QED BY <1>1, <1>2, <1>3, <1>4 DEF Messages!IsOldest

\* What is not in the hands of the bus, when neither they nor the cursor move.
LEMMA AheadCourse ==
  ASSUME CourseIInv, CourseIInv', [Next]_vars, UNCHANGED <<cands, watermark, taken, accepted>>,
         NEW m, m \notin accepted
  PROVE  Fate(m)' = Fate(m)
<1>1. Typed /\ policy' = policy
  BY KeysStay DEF CourseIInv, IngestIInv
<1>2. Fate(m) = Ahead(m) /\ Fate(m)' = Ahead(m)'
  BY FatesKnown, FatesKnownNext DEF FatesAreKnown
<1> QED BY <1>1, <1>2 DEF Ahead, InTime

\* What was accepted, when no wake hears of it and its row stays, or goes with it.
LEMMA AcceptedRests ==
  ASSUME CourseIInv, CourseIInv', [Next]_vars, heard' = heard, NEW m \in accepted,
         Waits(m) /\ m \notin heard => Waits(m)'
  PROVE  Fate(m)' = Fate(m)
<1>1. m \in heard' <=> m \in heard
  OBVIOUS
<1> QED BY <1>1, AcceptedCourse

\* A step that accepts and hears nothing discards at most.
LEMMA QuietCourse ==
  ASSUME CourseIInv, CourseIInv', [Next]_vars, UNCHANGED <<cands, watermark, taken, accepted, heard>>,
         \A m \in accepted : Waits(m) /\ m \notin heard => Waits(m)' \/ m \in gone'
  PROVE  \E S \in SUBSET Msg : Messages!Discard(S)
<1> DEFINE S == {m \in accepted : Fate(m) = "waiting" /\ Fate(m)' = "gone"}
<1>1. accepted \subseteq Msg
  <2>1. accepted \subseteq 1 .. taken /\ taken \in 0 .. Len(keyOf) /\ Len(keyOf) <= MaxMsg
        /\ keyOf \in Seq(Key \cup {NoKey})
    BY DEF CourseIInv, IngestIInv, Typed
  <2> QED BY <2>1, IngestAssumption DEF Msg
<1>2. ASSUME NEW m \in accepted PROVE Fate(m)' = IF m \in S THEN "gone" ELSE Fate(m)
  <2>1. CASE Fate(m) # "waiting"
    BY <2>1, AcceptedCourse
  <2>2. CASE Fate(m) = "waiting"
    <3>1. m \notin heard' /\ Waits(m)
      BY <2>2, AcceptedCourse
    <3>2. Fate(m)' \in {"waiting", "gone"}
      BY <3>1, AcceptedCourse
    <3> QED BY <2>2, <3>2
  <2> QED BY <2>1, <2>2
<1>3. ASSUME NEW m, m \notin accepted PROVE Fate(m)' = IF m \in S THEN "gone" ELSE Fate(m)
  BY <1>3, AheadCourse
<1>4. S \in SUBSET Msg /\ S \subseteq Messages!In("waiting")
  BY <1>1, CourseIn
<1> HIDE DEF S
<1>5. Messages!Move(S, "gone")
  BY <1>2, <1>3, CourseMoves
<1> QED BY <1>4, <1>5 DEF Messages!Discard

\* The loop's steps.
LEMMA PopCourse ==
  ASSUME CourseIInv, CourseIInv', [Next]_vars, NEW i \in Id, Pop(i)
  PROVE  \E S \in SUBSET Msg : Messages!Hear(S)
<1> DEFINE S == {m \in Msg : Fate(m) = "waiting" /\ Fate(m)' = "heard"}
<1>1. UNCHANGED <<cands, watermark, taken, accepted, items, gone>> /\ Typed
  BY DEF Pop, ingestor, CourseIInv, IngestIInv
<1>2. ASSUME NEW m \in Msg PROVE Fate(m)' = IF m \in S THEN "heard" ELSE Fate(m)
  <2>1. CASE m \notin accepted
    <3>1. Fate(m)' = Fate(m)
      BY <1>1, <2>1, AheadCourse
    <3> QED BY <3>1
  <2>2. CASE m \in accepted /\ Fate(m) # "waiting"
    BY <2>2, AcceptedCourse
  <2>3. CASE m \in accepted /\ Fate(m) = "waiting"
    <3>1. Waits(m) /\ \A j \in Id : Items(j)' = Items(j)
      BY <1>1, <2>3, AcceptedCourse DEF Items
    <3>2. Waits(m)'
      BY <1>1, <3>1, PopStatus, WaitsOn
    <3>3. Fate(m)' \in {"waiting", "heard"}
      BY <2>3, <3>2, AcceptedCourse
    <3> QED BY <2>3, <3>3
  <2> QED BY <2>1, <2>2, <2>3
<1>3. S \in SUBSET Msg /\ S \subseteq Messages!In("waiting")
  BY CourseIn
<1> HIDE DEF S
<1>4. Messages!Move(S, "heard")
  BY <1>2, CourseMoves
<1> QED BY <1>3, <1>4 DEF Messages!Hear

\* Reclaiming, finishing, retrying and shedding discard at most: what was heard stays heard.
LEMMA LoopCourse ==
  ASSUME CourseIInv, CourseIInv', [Next]_vars, Reclaim \/ WakeEnds \/ WakeTimesOut \/ ShedRows
  PROVE  \E S \in SUBSET Msg : Messages!Discard(S)
<1>0. Typed /\ Leased /\ Rows(table)
  BY DEF CourseIInv, IngestIInv, Typed
<1>1. UNCHANGED <<cands, watermark, taken, accepted, heard>>
  BY DEF Reclaim, WakeEnds, WakeTimesOut, ShedRows, ingestor, mind
<1>2. ASSUME NEW m \in accepted, Waits(m), m \notin heard PROVE Waits(m)' \/ m \in gone'
  <2>1. CASE Reclaim
    <3>1. \A j \in Id : Items(j)' = Items(j)
      BY <2>1 DEF Reclaim, Items
    <3>2. \A j \in Id : table'[j].status = IF table[j].status = "dispatched" THEN "pending"
                                                                            ELSE table[j].status
      BY <1>0, <2>1, ReclaimStatus DEF Reclaim
    <3> QED BY <1>2, <3>1, <3>2, WaitsOn
  <2>2. CASE WakeEnds
    <3>1. gone' = gone /\ loop = "wake" /\ \A j \in Id : Items(j)' = Items(j)
      BY <2>2 DEF WakeEnds, Items
    <3>2. CASE m \in Items(wake)
      BY <1>0, <1>2, <3>1, <3>2 DEF Leased
    <3>3. CASE m \notin Items(wake)
      BY <1>0, <1>2, <2>2, <3>1, <3>3, WakeEndsStatus, WaitsOn
    <3> QED BY <3>2, <3>3
  <2>3. CASE WakeTimesOut
    <3>1. \A j \in Id : Items(j)' = Items(j)
      BY <2>3 DEF WakeTimesOut, Items
    <3> QED BY <1>0, <1>2, <2>3, <3>1, WakeTimesOutStatus, WaitsOn
  <2>4. CASE ShedRows
    <3>1. PICK v \in ShedSoFar(table, QueueMaxDepth) :
            /\ table' = Delete(table, v)
            /\ items' = [i \in Id |-> IF i \in v THEN <<>> ELSE items[i]]
            /\ gone' = gone \cup UNION {Items(i) : i \in v}
      BY <2>4 DEF ShedRows
    <3>2. CASE \E i \in v : m \in Items(i)
      BY <3>1, <3>2
    <3>3. CASE ~\E i \in v : m \in Items(i)
      <4>1. \A j \in Id : table'[j].status = IF j \in v THEN "absent" ELSE table[j].status
        BY <1>0, <3>1, DeleteStatus
      <4>2. \A j \in Id \ v : Items(j)' = Items(j)
        BY <3>1 DEF Items
      <4> QED BY <1>2, <3>3, <4>1, <4>2, WaitsOn
    <3> QED BY <3>2, <3>3
  <2> QED BY <2>1, <2>2, <2>3, <2>4
<1> QED BY <1>1, <1>2, QuietCourse

\* Steps that neither end nor begin the course of a message.
LEMMA IdleCourse ==
  ASSUME CourseIInv, CourseIInv', [Next]_vars,
         UNCHANGED <<cands, watermark, taken, accepted, heard, table, items>>
  PROVE  \E S \in SUBSET Msg : Messages!Discard(S)
<1>1. \A m \in accepted : Waits(m) => Waits(m)'
  BY DEF Waits, Items, Pending, Dispatched, InStatus
<1> QED BY <1>1, QuietCourse

\* `latest` overtakes one message at most, by the one in hand.
LEMMA SupersedeCourse ==
  ASSUME CourseIInv, CourseIInv', [Next]_vars, Supersede
  PROVE  \/ \E S \in SUBSET Msg : Messages!Discard(S)
         \/ \E m, n \in Msg : Messages!Overtake(m, n)
<1>0. /\ Typed /\ Ordered /\ Superseding /\ Accounted /\ items \in [Id -> Seq(Msg)]
      /\ cands # << >> /\ keyOf \in Seq(Key \cup {NoKey})
      /\ accepted \subseteq 1 .. taken /\ taken \in Nat /\ taken <= Len(keyOf) /\ taken <= MaxMsg
      /\ Len(keyOf) \in Nat
  <2>1. /\ keyOf \in Seq(Key \cup {NoKey}) /\ taken \in 0 .. Len(keyOf) /\ Len(keyOf) <= MaxMsg
        /\ accepted \subseteq 1 .. taken /\ cands # << >>
    BY DEF CourseIInv, IngestIInv, Typed, Supersede
  <2>2. Len(keyOf) \in Nat
    BY <2>1
  <2>3. taken \in Nat /\ taken <= Len(keyOf) /\ taken <= MaxMsg
    BY <2>1, <2>2, IngestAssumption
  <2>4. Typed /\ Ordered /\ Superseding /\ Accounted /\ items \in [Id -> Seq(Msg)]
    BY DEF CourseIInv, IngestIInv, Typed
  <2> QED BY <2>1, <2>2, <2>3, <2>4
<1>1. PICK i \in chosen :
        \A j \in Id : table'[j].status = IF j = i /\ Present(table, i) THEN "coalesced"
                                                                 ELSE table[j].status
  BY <1>0, SupersedeStatus
<1>2. /\ UNCHANGED <<cands, watermark, taken, accepted, heard>>
      /\ \A j \in Id : Items(j)' = Items(j)
  BY DEF Supersede, Items, mind
<1>3. \A m \in accepted : Waits(m) /\ m \notin Items(i) => Waits(m)'
  BY <1>1, <1>2, WaitsOn
<1>4. CASE \A m \in accepted : Waits(m) /\ m \notin heard => Waits(m)' \/ m \in gone'
  BY <1>2, <1>4, QuietCourse
<1>5. ASSUME NEW m \in accepted, Waits(m), m \notin heard, ~Waits(m)', m \notin gone'
      PROVE  \E n \in Msg : Messages!Overtake(m, n)
  <2>1. Fate(m) = "waiting" /\ Fate(m)' = "overtaken"
    BY <1>2, <1>5, AcceptedCourse DEF AcceptedFates, Fate
  <2>2. ASSUME NEW k \in accepted, k # m PROVE Fate(k)' = Fate(k)
    <3>1. m \in Items(i) /\ i \in Id
      BY <1>0, <1>3, <1>5 DEF Typed
    <3>2. Len(items[i]) <= 1 /\ items[i] \in Seq(Msg)
      BY <1>0, <3>1 DEF Superseding, Supersede
    <3>3. \A p, q \in DOMAIN items[i] : p = q
      BY <3>2
    <3>4. k \notin Items(i)
      BY <2>2, <3>1, <3>3 DEF Items, ToSet
    <3> QED BY <1>2, <1>3, <3>4, AcceptedRests
  <2>3. \A k \in Msg : Fate(k)' = IF k \in {m} THEN "overtaken" ELSE Fate(k)
    <3>1. \A k : k \notin accepted => Fate(k)' = Fate(k)
      BY <1>2, AheadCourse
    <3> QED BY <1>5, <2>1, <2>2, <3>1
  <2>4. Messages!Move({m}, "overtaken")
    BY <2>3, CourseMoves
  <2>5. PICK p \in DOMAIN items[i] : m = items[i][p]
    BY <1>3, <1>5 DEF Items, ToSet
  <2>6. i \in Id /\ This \in 1 .. taken /\ This = cands[1] /\ 1 \in 1 .. Len(cands)
    BY <1>0, HeadFits DEF Typed
  <2>7. m < This
    BY <1>0, <2>5, <2>6 DEF Ordered
  <2>8. policy.mode = "latest" /\ keyOf[m] = keyOf[This] /\ keyOf[This] # NoKey
    BY <1>0, <2>5 DEF Supersede, Superseding, ThisKey
  <2>9. m \in Msg /\ This \in Msg /\ m <= Len(keyOf) /\ This <= Len(keyOf)
    <3>1. /\ m \in 1 .. taken /\ This \in 1 .. taken /\ taken \in Nat /\ Len(keyOf) \in Nat
          /\ taken <= Len(keyOf) /\ taken <= MaxMsg /\ MaxMsg \in Nat
      BY <1>0, <2>6, IngestAssumption
    <3> QED BY <3>1 DEF Msg
  <2>10. ChatOf[m] = ChatOf[This] /\ ChatOf[This] # NoKey
    BY <2>8, <2>9 DEF ChatOf
  <2>11. m \in Messages!In("waiting") /\ Messages!IsOldest(This, Messages!In("inhand"))
    BY <1>0, <2>1, <2>9, CourseIn, OldestInHand
  <2>12. Messages!Overtake(m, This)
    BY <2>4, <2>7, <2>8, <2>10, <2>11 DEF Messages!Overtake
  <2> QED BY <2>9, <2>12
<1>6. accepted \subseteq Msg
  BY <1>0, IngestAssumption DEF Msg
<1> QED BY <1>4, <1>5, <1>6

\* What is dealt with was the oldest in hand.
LEMMA NextCourse ==
  ASSUME CourseIInv, CourseIInv', [Next]_vars, Fold \/ EnqueueRow
  PROVE  \E m \in Msg : Messages!Queue(m) \/ Messages!Lose(m)
<1>0. /\ Typed /\ Ordered /\ Folding /\ Accounted /\ cands # << >> /\ cands \in Seq(Msg)
      /\ policy' = policy /\ UNCHANGED <<watermark, taken, heard>> /\ NextCandidate
  BY KeysStay DEF CourseIInv, IngestIInv, Typed, Fold, EnqueueRow, mind
<1>1. PICK x \in Msg : x = This
  BY <1>0, HeadFits
<1>2. /\ Messages!IsOldest(x, Messages!In("inhand"))
      /\ x = cands[1] /\ 1 \in 1 .. Len(cands) /\ x \notin accepted
      /\ accepted' = accepted \cup {x}
  BY <1>0, <1>1, OldestInHand, HeadFits, InHand DEF NextCandidate
<1>3. Fate(x)' \in {"waiting", "gone"}
  <2>1. x \in accepted' /\ x \notin accepted /\ x \notin heard'
    BY <1>0, <1>2 DEF Accounted
  <2>2. Waits(x)' \/ x \in gone'
    BY <1>0, <2>1, AcceptedKnown
  <2> QED BY <2>1, <2>2 DEF Fate
<1>4. ASSUME NEW m \in accepted PROVE Fate(m)' = Fate(m)
  <2>1. Waits(m) => Waits(m)'
    BY <1>0, FoldWaits, EnqueueWaits
  <2> QED BY <1>0, <2>1, AcceptedRests
<1>5. ASSUME NEW m, m \notin accepted, m # x PROVE Fate(m)' = Fate(m)
  <2>1. Fate(m) = Ahead(m) /\ Fate(m)' = Ahead(m)'
    BY <1>2, <1>5, FatesKnown, FatesKnownNext DEF FatesAreKnown
  <2>2. /\ Len(cands) \in Nat \ {0} /\ cands' \in Seq(Msg) /\ Len(cands') = Len(cands) - 1
        /\ \A p \in 1 .. Len(cands') : p + 1 \in 1 .. Len(cands) /\ cands'[p] = cands[p + 1]
    BY <1>0, TailFits DEF NextCandidate
  <2>3. m \in ToSet(cands') <=> m \in ToSet(cands)
    <3>1. /\ ToSet(cands) = {cands[q] : q \in 1 .. Len(cands)}
          /\ ToSet(cands') = {cands'[q] : q \in 1 .. Len(cands')}
      <4>1. DOMAIN cands = 1 .. Len(cands) /\ DOMAIN cands' = 1 .. Len(cands')
        BY <1>0, <2>2
      <4> QED BY <4>1 DEF ToSet
    <3>2. ASSUME NEW q \in 1 .. Len(cands), m = cands[q] PROVE \E p \in 1 .. Len(cands') : m = cands'[p]
      <4>1. q # 1
        BY <1>2, <1>5, <3>2
      <4>2. q - 1 \in 1 .. Len(cands') /\ (q - 1) + 1 = q
        BY <2>2, <4>1
      <4>3. cands'[q - 1] = m
        BY <2>2, <3>2, <4>2
      <4> QED BY <4>2, <4>3
    <3> QED BY <2>2, <3>1, <3>2
  <2>4. InTime(m)' <=> InTime(m)
    BY <1>0 DEF InTime
  <2> QED BY <2>1, <2>3, <2>4 DEF Ahead
<1>6. \A m \in Msg : Fate(m)' = IF m \in {x} THEN Fate(x)' ELSE Fate(m)
  <2>1. \A m \in Msg \ {x} : Fate(m)' = Fate(m)
    BY <1>4, <1>5
  <2> QED BY <2>1
<1>7. PICK f \in {"waiting", "gone"} : \A m \in Msg : Fate(m)' = IF m \in {x} THEN f ELSE Fate(m)
  BY <1>3, <1>6
<1>8. Messages!Move({x}, f)
  BY <1>7, CourseMoves
<1>9. Messages!Queue(x) \/ Messages!Lose(x)
  BY <1>2, <1>8 DEF Messages!Queue, Messages!Lose
<1> QED BY <1>1, <1>9

\* Arrivals: the next messages are taken in hand, and none is passed over.
LEMMA ArrivalCourse ==
  ASSUME CourseIInv, CourseIInv', [Next]_vars, NEW S \in SUBSET Msg, S # {},
         step = "idle", UNCHANGED <<table, items, heard, accepted>>,
         \A m \in Msg : m \notin accepted =>
           /\ Ahead(m) = "new" <=> InTime(m)
           /\ Ahead(m)' = IF m \in S THEN "inhand" ELSE Ahead(m),
         \A m \in S : m \notin accepted /\ Ahead(m) = "new",
         \A m \in S, n \in Msg \ S : n \notin accepted /\ InTime(n) => m < n
  PROVE  Messages!Take(S)
<1>1. cands = << >> /\ FatesAreKnown /\ FatesAreKnown'
  BY FatesKnown, FatesKnownNext DEF CourseIInv, IngestIInv, Typed
<1>2. Messages!In("inhand") = {}
  <2>1. ToSet(cands) = {}
    BY <1>1 DEF ToSet
  <2> QED BY <2>1, InHand, CourseIn
<1>3. ASSUME NEW m \in accepted PROVE Fate(m)' = Fate(m) /\ Fate(m) # "new"
  <2>1. Waits(m) => Waits(m)'
    BY DEF Waits, Items, Pending, Dispatched, InStatus
  <2> QED BY <1>1, <2>1, AcceptedRests DEF FatesAreKnown, AcceptedFates
<1>4. ASSUME NEW m \in Msg, m \notin accepted
      PROVE  /\ Fate(m)' = IF m \in S THEN "inhand" ELSE Fate(m)
             /\ Fate(m) = "new" <=> InTime(m)
  BY <1>1, <1>4 DEF FatesAreKnown
<1>5. \A m \in Msg : Fate(m)' = IF m \in S THEN "inhand" ELSE Fate(m)
  BY <1>3, <1>4
<1>6. Messages!Move(S, "inhand")
  BY <1>5, CourseMoves
<1>7. Messages!In("new") = {m \in Msg : m \notin accepted /\ InTime(m)}
  BY <1>3, <1>4, CourseIn
<1> QED BY <1>2, <1>6, <1>7 DEF Messages!Take

\* A poll takes all that is new beyond the watermark.
LEMMA PollCourse ==
  ASSUME CourseIInv, CourseIInv', [Next]_vars, Poll
  PROVE  \E S \in SUBSET Msg : Messages!Take(S)
<1> DEFINE last == Len(keyOf)
           S == {m \in Msg : watermark < m /\ m <= last}
<1>0. /\ policy.polled /\ policy' = policy /\ step = "idle" /\ cands = << >> /\ Accounted
      /\ UNCHANGED <<table, items, heard, accepted, watermark>>
      /\ cands' = [n \in 1 .. (last - watermark) |-> watermark + n]
      /\ watermark < last
  BY DEF Poll, CourseIInv, IngestIInv, Typed, durable, mind
<1>1. last \in Nat /\ watermark \in Nat /\ last <= MaxMsg /\ MaxMsg \in Nat /\ accepted \subseteq Nat
  <2>1. keyOf \in Seq(Key \cup {NoKey}) /\ watermark \in 0 .. Len(keyOf) /\ Len(keyOf) <= MaxMsg
        /\ accepted \subseteq 1 .. taken
    BY DEF CourseIInv, IngestIInv, Typed
  <2>2. Len(keyOf) \in Nat
    BY <2>1
  <2> QED BY <2>1, <2>2, IngestAssumption
<1> HIDE DEF last
<1>2. ToSet(cands') = {watermark + n : n \in 1 .. (last - watermark)}
  <2>1. DOMAIN cands' = 1 .. (last - watermark)
    BY <1>0
  <2> QED BY <1>0, <2>1 DEF ToSet
<1>3. \A m \in Msg : m \in ToSet(cands') <=> m \in S
  <2>1. ASSUME NEW m \in Msg, m \in S PROVE m \in ToSet(cands')
    <3>1. m - watermark \in 1 .. (last - watermark) /\ watermark + (m - watermark) = m
      BY <1>1, <2>1 DEF Msg
    <3> QED BY <1>2, <3>1
  <2>2. ASSUME NEW m \in Msg, m \in ToSet(cands') PROVE m \in S
    <3>1. PICK n \in 1 .. (last - watermark) : m = watermark + n
      BY <1>2, <2>2
    <3> QED BY <1>1, <3>1
  <2> QED BY <2>1, <2>2
<1>4. ToSet(cands) = {}
  BY <1>0 DEF ToSet
<1>5. ASSUME NEW m \in Msg
      PROVE  /\ Ahead(m) = "new" <=> InTime(m)
             /\ Ahead(m)' = IF m \in S THEN "inhand" ELSE Ahead(m)
  <2>1. InTime(m)' <=> InTime(m)
    BY <1>0 DEF InTime
  <2>2. Ahead(m) = IF InTime(m) THEN "new" ELSE "dropped"
    BY <1>4 DEF Ahead
  <2>3. Ahead(m)' = IF m \in S THEN "inhand" ELSE IF InTime(m)' THEN "new" ELSE "dropped"
    BY <1>3 DEF Ahead
  <2> QED BY <2>1, <2>2, <2>3
<1>6. \A m \in Msg : InTime(m) <=> m > watermark
  BY <1>0 DEF InTime
<1>7. \A m \in S : m \notin accepted /\ Ahead(m) = "new"
  <2>1. ASSUME NEW m \in S PROVE m \notin accepted /\ m > watermark
    <3>1. m \in Nat /\ watermark < m
      BY <1>1 DEF Msg
    <3>2. m \in accepted => m <= watermark
      BY <1>0 DEF Accounted
    <3> QED BY <1>1, <3>1, <3>2
  <2> QED BY <1>5, <1>6, <2>1
<1>8. \A m \in S, n \in Msg \ S : n \notin accepted /\ InTime(n) => m < n
  <2> SUFFICES ASSUME NEW m \in S, NEW n \in Msg \ S, n > watermark PROVE m < n
    BY <1>6
  <2>1. n > last /\ m <= last /\ m \in Nat /\ n \in Nat
    BY <1>1 DEF Msg
  <2> QED BY <1>1, <2>1
<1>9. last \in S
  BY <1>0, <1>1 DEF Msg
<1> HIDE DEF S
<1>10. S \in SUBSET Msg
  BY DEF S
<1> QED BY <1>0, <1>5, <1>7, <1>8, <1>9, <1>10, ArrivalCourse

\* A webhook takes its message, which is the only new one.
LEMMA ReceiveCourse ==
  ASSUME CourseIInv, CourseIInv', [Next]_vars, NEW k \in Key \cup {NoKey}, Receive(k)
  PROVE  \E S \in SUBSET Msg : Messages!Take(S)
<1>0. /\ ~policy.polled /\ policy' = policy /\ step = "idle" /\ cands = << >> /\ Accounted
      /\ UNCHANGED <<table, items, heard, accepted, watermark>>
      /\ keyOf' = Append(keyOf, k) /\ cands' = <<Len(keyOf')>> /\ taken' = Len(keyOf')
      /\ Len(keyOf) < MaxMsg
  BY DEF Receive, CourseIInv, IngestIInv, Typed, durable, mind
<1>1. /\ taken \in Nat /\ taken = Len(keyOf) /\ MaxMsg \in Nat /\ accepted \subseteq 1 .. taken
      /\ keyOf \in Seq(Key \cup {NoKey})
  <2>1. keyOf \in Seq(Key \cup {NoKey}) /\ accepted \subseteq 1 .. taken /\ taken = Len(keyOf)
    BY <1>0 DEF CourseIInv, IngestIInv, Typed, Accounted
  <2>2. Len(keyOf) \in Nat
    BY <2>1
  <2> QED BY <2>1, <2>2, IngestAssumption
<1>2. PICK x \in Msg : x = taken + 1
  BY <1>0, <1>1 DEF Msg
<1>3. taken' = x /\ cands' = <<x>>
  BY <1>0, <1>1, <1>2
<1>4. ToSet(cands') = {x} /\ ToSet(cands) = {}
  <2>1. ToSet(<<x>>) = {x}
    <3>1. DOMAIN <<x>> = {1} /\ <<x>>[1] = x
      OBVIOUS
    <3> QED BY <3>1 DEF ToSet
  <2> QED BY <1>0, <1>3, <2>1 DEF ToSet
<1>5. ASSUME NEW m \in Msg
      PROVE  /\ Ahead(m) = "new" <=> InTime(m)
             /\ Ahead(m)' = IF m \in {x} THEN "inhand" ELSE Ahead(m)
  <2>1. m # x => (InTime(m)' <=> InTime(m))
    BY <1>0, <1>1, <1>2, <1>3 DEF InTime, Msg
  <2>2. Ahead(m) = IF InTime(m) THEN "new" ELSE "dropped"
    BY <1>4 DEF Ahead
  <2>3. Ahead(m)' = IF m \in {x} THEN "inhand" ELSE IF InTime(m)' THEN "new" ELSE "dropped"
    BY <1>4 DEF Ahead
  <2> QED BY <2>1, <2>2, <2>3
<1>6. \A m \in Msg : InTime(m) <=> m > taken
  BY <1>0 DEF InTime
<1>7. \A m \in {x} : m \notin accepted /\ Ahead(m) = "new"
  <2>1. x > taken /\ x \notin accepted
    BY <1>1, <1>2
  <2> QED BY <1>5, <1>6, <2>1
<1>8. \A m \in {x}, n \in Msg \ {x} : n \notin accepted /\ InTime(n) => m < n
  BY <1>1, <1>2, <1>6 DEF Msg
<1>9. {x} \in SUBSET Msg /\ {x} # {}
  OBVIOUS
<1> QED BY <1>0, <1>5, <1>7, <1>8, <1>9, ArrivalCourse

\* Advancing the watermark leaves what is in hand in hand, and what is newer new.
LEMMA MarkCourse ==
  ASSUME CourseIInv, CourseIInv', [Next]_vars, Mark
  PROVE  Messages!Appear
<1>0. /\ policy.polled /\ policy' = policy /\ cands # << >> /\ cands \in Seq(Msg) /\ watermark' = Newest
      /\ UNCHANGED <<table, items, heard, accepted, taken, cands>>
      /\ \A q \in 1 .. Len(cands) : cands[q] = watermark + q
      /\ watermark \in Nat
  <2>1. keyOf \in Seq(Key \cup {NoKey}) /\ watermark \in 0 .. Len(keyOf)
    BY DEF CourseIInv, IngestIInv, Typed
  <2>2. watermark \in Nat
    BY <2>1
  <2> QED BY <2>2 DEF Mark, CourseIInv, IngestIInv, Typed, Marking, mind
<1>1. ToSet(cands) = {cands[q] : q \in 1 .. Len(cands)} /\ Len(cands) \in Nat
  <2>1. DOMAIN cands = 1 .. Len(cands) /\ Len(cands) \in Nat
    BY <1>0
  <2> QED BY <2>1 DEF ToSet
<1>2. Newest \in ToSet(cands)
  BY <1>0, NewestIsLast DEF CourseIInv, IngestIInv
<1>3. PICK last \in 1 .. Len(cands) : Newest = watermark + last
  BY <1>0, <1>1, <1>2
<1>4. ASSUME NEW m \in Msg, m \notin ToSet(cands) PROVE m > watermark <=> m > Newest
  <2>1. m \in Nat
    BY IngestAssumption DEF Msg
  <2>2. CASE m > watermark /\ m <= watermark + last
    <3>1. m - watermark \in 1 .. Len(cands) /\ watermark + (m - watermark) = m
      BY <1>0, <1>1, <2>1, <2>2
    <3>2. cands[m - watermark] = m
      BY <1>0, <3>1
    <3> QED BY <1>1, <1>4, <3>1, <3>2
  <2> QED BY <1>0, <1>1, <1>3, <2>1, <2>2
<1>5. ASSUME NEW m \in Msg, m \notin accepted PROVE Fate(m)' = Fate(m)
  <2>1. Fate(m) = Ahead(m) /\ Fate(m)' = Ahead(m)'
    BY <1>0, <1>5, FatesKnown, FatesKnownNext DEF FatesAreKnown
  <2>2. m \notin ToSet(cands) => (InTime(m)' <=> InTime(m))
    BY <1>0, <1>4 DEF InTime
  <2> QED BY <1>0, <2>1, <2>2 DEF Ahead
<1>6. ASSUME NEW m \in accepted PROVE Fate(m)' = Fate(m)
  <2>1. Waits(m) => Waits(m)'
    BY <1>0 DEF Waits, Items, Pending, Dispatched, InStatus
  <2> QED BY <1>0, <2>1, AcceptedRests
<1> QED BY <1>5, <1>6 DEF Messages!Appear, Course

\* A firing that ends early: before the watermark is advanced its messages come again with
\* the next poll, later they are lost.
LEMMA EndsEarly ==
  ASSUME CourseIInv, CourseIInv', [Next]_vars, IngestFails \/ Crash
  PROVE  Messages!PutBack \/ Messages!Drop
<1>0. /\ policy' = policy /\ cands' = << >> /\ Marking /\ Ordered
      /\ UNCHANGED <<table, items, heard, accepted, watermark, taken>>
  BY KeysStay DEF IngestFails, Crash, durable, mind, CourseIInv, IngestIInv
<1>1. /\ cands \in Seq(Msg) /\ watermark \in Nat /\ taken \in Nat
      /\ (~policy.polled \/ step = "mark" \/ \A q \in 1 .. Len(cands) : cands[q] <= watermark)
  <2>1. keyOf \in Seq(Key \cup {NoKey}) /\ watermark \in 0 .. Len(keyOf) /\ taken \in 0 .. Len(keyOf)
        /\ cands \in Seq(Msg)
    BY DEF CourseIInv, IngestIInv, Typed
  <2>2. Len(keyOf) \in Nat
    BY <2>1
  <2> QED BY <1>0, <2>1, <2>2 DEF Ordered
<1>2. ToSet(cands) = {cands[q] : q \in 1 .. Len(cands)} /\ ToSet(cands') = {} /\ Len(cands) \in Nat
  <2>1. DOMAIN cands = 1 .. Len(cands) /\ Len(cands) \in Nat /\ DOMAIN << >> = {}
    BY <1>1
  <2> QED BY <1>0, <2>1 DEF ToSet
<1>3. PICK f \in {"new", "dropped"} :
        \A m \in ToSet(cands) : f = IF InTime(m) THEN "new" ELSE "dropped"
  <2>1. CASE step = "mark"
    <3>1. policy.polled /\ \A q \in 1 .. Len(cands) : cands[q] > watermark
      BY <1>0, <1>1, <1>2, <2>1 DEF Marking
    <3> QED BY <1>2, <3>1 DEF InTime
  <2>2. CASE policy.polled /\ step # "mark"
    <3>1. \A q \in 1 .. Len(cands) : cands[q] <= watermark /\ cands[q] \in Nat
      BY <1>1, <2>2, IngestAssumption DEF Msg
    <3>2. \A q \in 1 .. Len(cands) : ~(cands[q] > watermark)
      BY <1>1, <3>1
    <3> QED BY <1>2, <2>2, <3>2 DEF InTime
  <2>3. CASE ~policy.polled
    <3>1. \A q \in 1 .. Len(cands) : cands[q] <= taken /\ cands[q] \in Nat
      BY <1>0, <1>1, IngestAssumption DEF Msg, Ordered
    <3>2. \A q \in 1 .. Len(cands) : ~(cands[q] > taken)
      BY <1>1, <3>1
    <3> QED BY <1>2, <2>3, <3>2 DEF InTime
  <2> QED BY <2>1, <2>2, <2>3
<1>4. ASSUME NEW m \in Msg, m \notin accepted
      PROVE  Fate(m)' = IF m \in ToSet(cands) THEN f ELSE Fate(m)
  <2>1. Fate(m) = Ahead(m) /\ Fate(m)' = Ahead(m)'
    BY <1>0, <1>4, FatesKnown, FatesKnownNext DEF FatesAreKnown
  <2>2. InTime(m)' <=> InTime(m)
    BY <1>0 DEF InTime
  <2> QED BY <1>2, <1>3, <2>1, <2>2 DEF Ahead
<1>5. ASSUME NEW m \in accepted, m \in Msg
      PROVE  Fate(m)' = IF m \in ToSet(cands) THEN f ELSE Fate(m)
  <2>1. Waits(m) => Waits(m)'
    BY <1>0 DEF Waits, Items, Pending, Dispatched, InStatus
  <2> QED BY <1>0, <1>5, <2>1, AcceptedRests, InHand
<1>6. \A m \in Msg : Fate(m)' = IF m \in Messages!In("inhand") THEN f ELSE Fate(m)
  <2>1. \A m \in Msg : m \in Messages!In("inhand") <=> m \in ToSet(cands)
    BY InHand, CourseIn
  <2> QED BY <1>4, <1>5, <2>1
<1>7. Messages!Move(Messages!In("inhand"), f)
  BY <1>6, CourseMoves
<1> QED BY <1>7 DEF Messages!PutBack, Messages!Drop

\* A message that is not new stays in its chat.
LEMMA ChatsKept ==
  ASSUME CourseIInv, CourseIInv', [Next]_vars
  PROVE  Messages!KeepChats
<1>0. /\ keyOf \in Seq(Key \cup {NoKey}) /\ taken \in Nat /\ watermark \in Nat /\ Len(keyOf) \in Nat
      /\ taken <= Len(keyOf) /\ watermark <= Len(keyOf) /\ accepted \subseteq 1 .. taken
      /\ policy' = policy /\ Ordered /\ cands \in Seq(Msg)
  <2>1. keyOf \in Seq(Key \cup {NoKey}) /\ watermark \in 0 .. Len(keyOf) /\ taken \in 0 .. Len(keyOf)
        /\ accepted \subseteq 1 .. taken /\ cands \in Seq(Msg)
    BY DEF CourseIInv, IngestIInv, Typed
  <2>2. Len(keyOf) \in Nat
    BY <2>1
  <2> QED BY <2>1, <2>2, KeysStay DEF CourseIInv, IngestIInv
<1>1. ASSUME NEW m \in Msg, Fate(m) # "new" PROVE m <= Len(keyOf)
  <2>0. m \in Nat
    BY IngestAssumption DEF Msg
  <2>1. CASE m \in accepted
    BY <1>0, <2>1
  <2>2. CASE m \in ToSet(cands)
    <3>1. PICK q \in 1 .. Len(cands) : m = cands[q]
      BY <1>0, <2>2 DEF ToSet
    <3>2. m <= taken
      BY <1>0, <3>1 DEF Ordered
    <3> QED BY <1>0, <2>0, <3>2
  <2>3. CASE m \notin accepted /\ m \notin ToSet(cands)
    <3>1. ~InTime(m)
      BY <1>1, <2>3, FatesKnown DEF FatesAreKnown, Ahead
    <3> QED BY <1>0, <2>0, <3>1 DEF InTime
  <2> QED BY <2>1, <2>2, <2>3
<1>2. /\ keyOf' \in Seq(Key \cup {NoKey}) /\ Len(keyOf') \in Nat /\ Len(keyOf) <= Len(keyOf')
      /\ \A m \in 1 .. Len(keyOf) : keyOf'[m] = keyOf[m]
  <2>1. CASE keyOf' = keyOf
    BY <1>0, <2>1
  <2>2. ASSUME NEW k \in Key \cup {NoKey}, keyOf' = Append(keyOf, k)
        PROVE  /\ keyOf' \in Seq(Key \cup {NoKey}) /\ Len(keyOf') \in Nat /\ Len(keyOf) <= Len(keyOf')
               /\ \A m \in 1 .. Len(keyOf) : keyOf'[m] = keyOf[m]
    <3>1. Len(keyOf') = Len(keyOf) + 1 /\ keyOf' \in Seq(Key \cup {NoKey})
      BY <1>0, <2>2
    <3> QED BY <1>0, <2>2, <3>1
  <2>3. keyOf' = keyOf \/ \E k \in Key \cup {NoKey} : keyOf' = Append(keyOf, k)
    BY StepCandidates DEF Mark, Poll, Receive, Publish, Fold, EnqueueRow
  <2> QED BY <2>1, <2>2, <2>3
<1>3. ASSUME NEW m \in Msg, Course[m] # "new" PROVE ChatOf'[m] = ChatOf[m]
  <2>1. m <= Len(keyOf) /\ m \in 1 .. Len(keyOf)
    <3>1. m <= Len(keyOf)
      BY <1>1, <1>3 DEF Course
    <3> QED BY <1>0, <3>1, IngestAssumption DEF Msg
  <2>2. m <= Len(keyOf')
    BY <1>0, <1>2, <2>1
  <2> QED BY <1>2, <2>1, <2>2 DEF ChatOf
<1>4. ChatOf' \in [Msg -> Key \cup {NoKey}]
  <2>1. ASSUME NEW m \in Msg, m <= Len(keyOf') PROVE keyOf'[m] \in Key \cup {NoKey}
    <3>1. m \in 1 .. Len(keyOf')
      BY <1>2, <2>1, IngestAssumption DEF Msg
    <3> QED BY <1>2, <3>1
  <2> QED BY <2>1 DEF ChatOf
<1> QED BY <1>0, <1>3, <1>4 DEF Messages!KeepChats

\* Every step of the ingestor, of the bus and of the loop is one of MessageLifecycle, or stutters.
LEMMA CourseStep ==
  ASSUME CourseIInv, CourseIInv', [Next]_vars
  PROVE  [Messages!Next]_(Messages!vars)
<1>0. Messages!KeepChats
  BY ChatsKept
<1>1. ASSUME NEW i \in Id, Pop(i) PROVE Messages!Next
  BY <1>0, <1>1, PopCourse DEF Messages!Next
<1>2. CASE Reclaim \/ WakeEnds \/ WakeTimesOut \/ ShedRows
  BY <1>0, <1>2, LoopCourse DEF Messages!Next
<1>3. CASE UNCHANGED <<cands, watermark, taken, accepted, heard, table, items>>
  BY <1>0, <1>3, IdleCourse DEF Messages!Next
<1>4. CASE Supersede
  BY <1>0, <1>4, SupersedeCourse DEF Messages!Next
<1>5. CASE Fold \/ EnqueueRow
  BY <1>0, <1>5, NextCourse DEF Messages!Next
<1>6. CASE Poll
  BY <1>0, <1>6, PollCourse DEF Messages!Next
<1>7. ASSUME NEW k \in Key \cup {NoKey}, Receive(k) PROVE Messages!Next
  BY <1>0, <1>7, ReceiveCourse DEF Messages!Next
<1>8. CASE Mark
  BY <1>0, <1>8, MarkCourse DEF Messages!Next
<1>9. CASE IngestFails \/ Crash
  BY <1>0, <1>9, EndsEarly DEF Messages!Next
<1>10. ASSUME NEW k \in Key \cup {NoKey}, Publish(k)
       PROVE  UNCHANGED <<cands, watermark, taken, accepted, heard, table, items>>
  BY <1>10 DEF Publish, durable, ingestor, mind
<1>11. CASE Coalesce \/ ReadCredit \/ SpendCredit \/ Tick \/ UNCHANGED vars
  BY <1>3, <1>11 DEF Coalesce, ReadCredit, SpendCredit, Tick, vars, durable, ingestor, mind
<1> QED
  BY <1>1, <1>2, <1>3, <1>4, <1>5, <1>6, <1>7, <1>8, <1>9, <1>10, <1>11 DEF Next

----------------------------------------------------------------------------
(* The theorems.                                                           *)

\* Nothing is stored and nothing in hand at first.
LEMMA InitRest == Init => Ordered /\ NoDuplicate /\ Folding /\ Superseding /\ Leased /\ LossesAreKnown
<1> SUFFICES ASSUME Init
             PROVE  Ordered /\ NoDuplicate /\ Folding /\ Superseding /\ Leased /\ LossesAreKnown
  OBVIOUS
<1>1. /\ \A i \in Id : items[i] = << >>
      /\ cands = << >> /\ Len(<< >>) = 0 /\ DOMAIN << >> = {} /\ 1 .. 0 = {}
  BY DEF Init
<1>2. Ordered
  BY <1>1 DEF Ordered
<1>3. NoDuplicate
  BY <1>1 DEF NoDuplicate
<1>4. Folding /\ LossesAreKnown
  BY DEF Init, Folding, LossesAreKnown
<1>5. Superseding
  BY <1>1 DEF Init, Superseding
<1>6. Leased
  <2>1. \A i \in Id : table[i].status = "absent"
    BY DEF Init, EmptyTable, NoRow
  <2> QED BY <2>1 DEF Init, Leased, Dispatched, InStatus
<1> QED BY <1>2, <1>3, <1>4, <1>5, <1>6

\* The order of the messages, and what the bus and the leases hold, throughout.
THEOREM IngestInvariant == Spec => []IngestIInv
<1>1. Init => IngestIInv
  BY InitTyped, InitRest DEF IngestIInv
<1>2. IngestIInv /\ [Next]_vars => IngestIInv'
  BY StepTyped, StepOrdered, StepNoDuplicate, StepFolding, StepSuperseding, StepLeased, StepLosses
     DEF IngestIInv
<1> QED BY <1>1, <1>2, PTL DEF Spec

\* A message is in one row, once, over polls, folds, failures and crashes: a poller never
\* brings up again what it has brought (ingest.rs:96-121, authoring-souls.md:107).
THEOREM StoredOnce == Spec => []NoDuplicate
<1>1. IngestIInv => NoDuplicate
  BY DEF IngestIInv
<1> QED BY IngestInvariant, <1>1, PTL

\* A message whose ingestion ended without an error reaches a wake or waits for one, but
\* for the losses that LossesAreKnown names (bus/mod.rs:60-160).
THEOREM LossesKnown == Spec => []LossesAreKnown
<1>1. IngestIInv => LossesAreKnown
  BY DEF IngestIInv
<1> QED BY IngestInvariant, <1>1, PTL

\* What a firing has written so far, its gates, and the rows that stand side by side.
GatesIInv == IngestIInv /\ Stamped /\ Gated /\ Leases /\ Chosen /\ OneOpenBatch

\* No row is there at first that could break a gate, a lease or a choice.
LEMMA InitGates == Init => Stamped /\ Gated /\ Leases /\ Chosen /\ OneOpenBatch
<1> SUFFICES ASSUME Init PROVE Stamped /\ Gated /\ Leases /\ Chosen /\ OneOpenBatch
  OBVIOUS
<1>1. /\ \A i \in Id : table[i].status = "absent" /\ ~Present(table, i)
      /\ now = 0 /\ firedAt = 0 /\ step = "idle" /\ loop = "boot"
  BY DEF Init, EmptyTable, NoRow, Present
<1>2. Stamped /\ Gated
  BY <1>1 DEF Stamped, Gated
<1>3. Leases /\ Chosen
  BY <1>1 DEF Leases, Chosen, Dispatched, InStatus
<1>4. WaitingTogether = {}
  BY <1>1 DEF WaitingTogether, Pending, InStatus
<1> QED BY <1>2, <1>3, <1>4 DEF OneOpenBatch

\* What gates, leases and choices need holds in every reachable state.
LEMMA GatesInvariant == Spec => []GatesIInv
<1>1. Init => GatesIInv
  BY InitTyped, InitRest, InitGates DEF IngestIInv, GatesIInv
<1>2. GatesIInv /\ [Next]_vars => GatesIInv'
  <2> SUFFICES ASSUME GatesIInv, [Next]_vars PROVE GatesIInv'
    OBVIOUS
  <2>1. Typed /\ Ordered /\ Folding /\ Superseding /\ Leased /\ Stamped /\ Gated /\ Leases /\ Chosen
        /\ OneOpenBatch /\ IngestIInv
    BY DEF GatesIInv, IngestIInv
  <2>2. IngestIInv'
    BY <2>1, StepTyped, StepOrdered, StepNoDuplicate, StepFolding, StepSuperseding, StepLeased,
       StepLosses DEF IngestIInv
  <2>3. Stamped' /\ Gated'
    BY <2>1, StepStamped, StepGated
  <2>4. Leases' /\ Chosen' /\ OneOpenBatch'
    BY <2>1, StepLeases, StepChosen, StepOneOpen
  <2> QED BY <2>2, <2>3, <2>4 DEF GatesIInv
<1> QED BY <1>1, <1>2, PTL DEF Spec

\* A message that arrives outside the dispatch window is held to the first second the
\* window is open, for any window and any length of the day (bus/mod.rs, at pop_after).
THEOREM HeldToOpenings == Spec => []HeldToOpening
<1>1. GatesIInv => HeldToOpening
  BY GatedHeld DEF GatesIInv, IngestIInv
<1> QED BY GatesInvariant, <1>1, PTL

\* Two rows of a key that no wake has had yet are further apart than the window, whatever
\* the loop does between the bus's look at the table and its write (bus/mod.rs:60-160).
THEOREM OneOpenBatchPerKey == Spec => []OneOpenBatch
<1>1. GatesIInv => OneOpenBatch
  BY DEF GatesIInv
<1> QED BY GatesInvariant, <1>1, PTL

\* What is counted, what a row waits for, and what the columns hold.
RatesIInv == GatesIInv /\ Columns /\ Paid /\ Paced /\ NeverSpeedsUp

\* Nothing is paid at first, and no row held.
LEMMA InitRates == Init => Columns /\ Paid /\ Paced /\ NeverSpeedsUp
<1> SUFFICES ASSUME Init PROVE Columns /\ Paid /\ Paced /\ NeverSpeedsUp
  OBVIOUS
<1>1. Columns
  <2>1. table \in Table
    BY DEF Init, EmptyTable, NoRow, Table, Row, Priority
  <2> QED BY <2>1 DEF Init, Columns
<1>2. \A i \in Id : ~Present(table, i)
  BY DEF Init, EmptyTable, NoRow, Present
<1>3. Paid /\ Paced /\ NeverSpeedsUp
  BY <1>2 DEF Init, Paid, Paced, NeverSpeedsUp
<1> QED BY <1>1, <1>3

\* What the chats pay for holds in every reachable state.
LEMMA RatesInvariant == Spec => []RatesIInv
<1>1. Init => Columns /\ Paid /\ Paced /\ NeverSpeedsUp
  BY InitRates
<1>2. /\ GatesIInv /\ Columns /\ Paid /\ Paced /\ NeverSpeedsUp
      /\ [Next]_vars
      => Columns' /\ Paid' /\ Paced' /\ NeverSpeedsUp'
  BY StepColumns, StepPaid, StepPaced, StepSlows DEF GatesIInv, IngestIInv
<1>3. GatesIInv /\ Columns /\ Paid /\ Paced /\ NeverSpeedsUp => RatesIInv
  BY DEF RatesIInv
<1> QED BY GatesInvariant, <1>1, <1>2, <1>3, PTL DEF Spec

\* The clock, the cursors, the rows and the counts of the bus stay what they are declared
\* to be: no gate or credit it computes falls out of the numbers (bus/mod.rs:60-200).
THEOREM IngestTypeCorrect == Spec => []TypeOK
<1>1. RatesIInv => TypeOK
  <2> SUFFICES ASSUME Typed, Columns PROVE TypeOK
    BY DEF RatesIInv, GatesIInv, IngestIInv
  <2>1. /\ now \in 0 .. MaxTime /\ firedAt \in 0 .. MaxTime /\ MaxTime \in Nat
        /\ keyOf \in Seq(Key \cup {NoKey}) /\ taken \in 0 .. Len(keyOf) /\ watermark \in 0 .. Len(keyOf)
        /\ Len(keyOf) <= MaxMsg /\ MaxMsg \in Nat /\ accepted \subseteq 1 .. taken
    BY IngestAssumption DEF Typed
  <2>2. {now, watermark, firedAt, taken} \subseteq Nat /\ accepted \subseteq Msg
    BY <2>1 DEF Msg
  <2> QED BY <2>2 DEF Typed, Columns, TypeOK
<1> QED BY RatesInvariant, <1>1, PTL

\* However a chat's messages are spread over a day, and whatever crashes or fails between
\* counting a credit and writing the row: the debounce of its rows never gets shorter, for
\* any daily credits and windows (config/mod.rs:35-59).
THEOREM SlowsDownOnly == Spec => []NeverSpeedsUp
<1>1. RatesIInv => NeverSpeedsUp
  BY DEF RatesIInv
<1> QED BY RatesInvariant, <1>1, PTL

\* At first every message is new, and no step has been made.
LEMMA InitCourse == Init => Accounted /\ Marking /\ Waking /\ Messages!Init
<1> SUFFICES ASSUME Init PROVE Accounted /\ Marking /\ Waking /\ Messages!Init
  OBVIOUS
<1>1. /\ \A i \in Id : items[i] = << >> /\ table[i].status = "absent"
      /\ cands = << >> /\ keyOf = << >> /\ step = "idle" /\ loop = "boot"
      /\ taken = 0 /\ watermark = 0 /\ accepted = {} /\ heard = {} /\ gone = {}
  BY DEF Init, EmptyTable, NoRow
<1>2. ToSet(<< >>) = {} /\ Len(<< >>) = 0
  BY DEF ToSet
<1>3. \A i \in Id : Items(i) = {}
  BY <1>1, <1>2 DEF Items
<1>4. Accounted /\ Marking /\ Waking
  BY <1>1, <1>2, <1>3 DEF Accounted, Marking, Waking
<1>5. ASSUME NEW m \in Msg PROVE Fate(m) = "new" /\ ChatOf[m] = NoKey
  <2>1. m > 0
    BY <1>5, IngestAssumption DEF Msg
  <2>2. ~Waits(m)
    BY <1>3 DEF Waits, Pending, Dispatched, InStatus
  <2>3. Fate(m) = "new"
    BY <1>1, <1>2, <2>1, <2>2 DEF Fate, InTime
  <2>4. ~(m <= Len(keyOf))
    BY <1>1, <1>2, <2>1, IngestAssumption DEF Msg
  <2> QED BY <2>3, <2>4 DEF ChatOf
<1>6. ChatOf \in [Msg -> Key \cup {NoKey}]
  BY <1>5 DEF ChatOf
<1> QED BY <1>4, <1>5, <1>6 DEF Messages!Init, Course

\* What the course of a message needs holds in every reachable state.
LEMMA CourseInvariant == Spec => []CourseIInv
<1>1. Init => Accounted /\ Marking /\ Waking
  BY InitCourse
<1>2. IngestIInv /\ Accounted /\ Marking /\ Waking /\ [Next]_vars => Accounted' /\ Marking' /\ Waking'
  BY StepAccounted, StepMarking, StepWaking DEF IngestIInv
<1>3. IngestIInv /\ Accounted /\ Marking /\ Waking => CourseIInv
  BY DEF CourseIInv
<1> QED BY IngestInvariant, <1>1, <1>2, <1>3, PTL DEF Spec

\* The bus keeps what MessageLifecycle promises of a duty's messages, for every policy,
\* interleaving with the loop, crash and failing call: they are taken in hand in order and
\* none is passed over, and each ends in one of the known ways and never comes back
\* (bus/mod.rs:60-160, ingest.rs:96-121).
THEOREM EveryMessageIsAccountedFor == Spec => MessagesRunTheirCourse
<1>1. Init => Messages!Init
  BY InitCourse
<1>2. CourseIInv /\ CourseIInv' /\ [Next]_vars => [Messages!Next]_(Messages!vars)
  BY CourseStep
<1> QED BY CourseInvariant, <1>1, <1>2, PTL DEF Spec, MessagesRunTheirCourse, Messages!Spec
=============================================================================
