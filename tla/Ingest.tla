------------------------------- MODULE Ingest -------------------------------
(***************************************************************************)
(* From a fired trigger to a row: Ingestor::process (src/harness/ingest.rs)*)
(* and Bus::ingest (src/bus/mod.rs) for one duty.  The ingestor is one     *)
(* task, but every call it makes on the queue is a transaction of its own, *)
(* and between two of them the consciousness loop may pop, finish, retry   *)
(* or shed the very rows the bus has just looked at.                       *)
(*                                                                         *)
(* A message stands for a candidate's payload; messages are numbered in    *)
(* the order in which they come into being, which is also what a polled    *)
(* duty's watermark field carries.  The trust of a payload is left to      *)
(* module Dispatch.  A model minute is the dispatch window's unit.         *)
(***************************************************************************)
EXTENDS StimulusQueue, Sequences, SequencesExt

CONSTANTS
  Key,              \* dedup keys (threads, chats)
  NoKey,            \* a candidate without one
  Policies,         \* the duties looked at: [mode, window, opens, closes, polled]
  Unbounded,        \* window_sec absent
  DailyCredits, InitialWindow, MaxWindow,   \* AdaptiveCoalesce
  Day,              \* length of a day
  QueueMaxDepth,    \* config.queue_max_depth
  MaxRetries,       \* MAX_TIMEOUT_RETRIES
  Backoff,          \* retry_backoff_secs: attempt -> delay
  MaxMsg,           \* bound: messages
  MaxTime,          \* bound: time
  MaxFaults         \* bound: crashes and failing calls, together

Msg == 1..MaxMsg
Mode == {"none", "latest", "batch", "adaptive"}
Policy == [mode : Mode, window : Nat \cup {Unbounded}, opens : 0..(Day - 1),
           closes : 0..(Day - 1), polled : BOOLEAN]

\* The id of the k-th candidate (from 0) of the firing received at second t.
StimulusId(t, k) == <<t, k>>

ASSUME IngestAssumption ==
  /\ {MaxMsg, MaxTime, MaxFaults, MaxRetries, QueueMaxDepth} \subseteq Nat
  /\ {DailyCredits, InitialWindow, MaxWindow} \subseteq Nat
  /\ Day \in Nat \ {0}
  /\ Backoff \in [1..MaxRetries -> Nat]
  /\ NoKey \notin Key /\ Unbounded \notin Nat
  /\ Policies \subseteq Policy
  /\ \A t \in 0..MaxTime, k \in 0..MaxMsg : StimulusId(t, k) \in Id

VARIABLES
  policy,     \* the duty's front matter
  now,        \* clock
  keyOf,      \* the keys of the messages so far, in order
  table,      \* the stimulus table (durable)
  items,      \* the payload column: items[i] = messages in row i (durable)
  watermark,  \* the duty's cursor (durable)
  credits,    \* credits[k][d]: the cursor credits:{duty}:{k}:{d} (durable)
  step,       \* where the ingestor is
  firedAt,    \* the firing's received_at
  cands,      \* candidates of the firing still to ingest
  index,      \* position of the first of them
  chosen,     \* rows found by find_coalescable, still to supersede or to fold into
  seenItems,  \* their payload as it was read
  spent,      \* the credit count as it was read
  loop,       \* the consciousness loop: "boot", "idle" or "wake"
  wake,       \* the row in flight
  faults,     \* crashes and failed calls so far
  taken,      \* history: messages handed to the ingestor so far
  accepted,   \* history: messages whose ingestion ran to its end
  heard,      \* history: messages some wake had in its payload
  popped,     \* history: ids that were ever popped
  gone        \* history: messages gone with a clash of ids, a late fold or shedding

durable == <<table, items, watermark, credits>>
ingestor == <<step, firedAt, cands, index, chosen, seenItems, spent>>
mind == <<loop, wake, heard, popped>>
vars == <<policy, now, keyOf, table, items, watermark, credits, step, firedAt, cands,
          index, chosen, seenItems, spent, loop, wake, faults, taken, accepted, heard, popped, gone>>

NoWake == <<>>

Init ==
  /\ policy \in Policies
  /\ now = 0 /\ keyOf = <<>>
  /\ table = EmptyTable /\ items = [i \in Id |-> <<>>]
  /\ watermark = 0 /\ credits = [k \in Key |-> [d \in 0..(MaxTime \div Day) |-> 0]]
  /\ step = "idle" /\ firedAt = 0 /\ cands = <<>> /\ index = 0
  /\ chosen = {} /\ seenItems = <<>> /\ spent = 0
  /\ loop = "boot" /\ wake = NoWake
  /\ faults = 0
  /\ taken = 0 /\ accepted = {} /\ heard = {} /\ popped = {} /\ gone = {}

Items(i) == ToSet(items[i])
Fresh(i) == i \notin popped

----------------------------------------------------------------------------
(* Pure parts of the bus.                                                  *)

\* DispatchWindow::contains; equal ends are no window at all.
Windowed == policy.opens # policy.closes
Inside(t) == LET m == t % Day
               IN IF policy.opens <= policy.closes
                  THEN policy.opens <= m /\ m < policy.closes
                  ELSE policy.opens <= m \/ m < policy.closes

\* Mutant of NextOpen: the opening of the same day, even when it is past.
NextOpenToday(at) == IF Inside(at) THEN at ELSE (at - (at % Day)) + policy.opens

\* DispatchWindow::next_open
NextOpen(at) ==
  LET today == (at - (at % Day)) + policy.opens
  IN IF Inside(at) THEN at ELSE IF today > at THEN today ELSE today + Day

\* The powers of b.
Power(b) == LET p[n \in Nat] == IF n = 0 THEN 1 ELSE b * p[n - 1] IN p

\* The credits have halved s times when `left` of them are left: floor(log2(daily / left)) = s.
Halved(s, left) == /\ Power(2)[s] * left <= DailyCredits
                   /\ DailyCredits < Power(2)[s + 1] * left

\* Mutant of AdaptiveWindow: divided where it is multiplied.
AdaptiveWindowShrinking(n) == InitialWindow \div Power(10)[n]

\* AdaptiveCoalesce::window_sec: ten times as long whenever half of what was left of
\* the day's credits is spent, up to a maximum.
AdaptiveWindow(n) ==
  LET left == DailyCredits - n
      halvings == CHOOSE s \in 0..DailyCredits : Halved(s, left)
      window == InitialWindow * Power(10)[halvings]
  IN IF left <= 0 \/ window > MaxWindow THEN MaxWindow ELSE window

\* The debounce gate of a new row, or 0: nothing for none and latest.
DebounceGate(k) ==
  CASE policy.mode = "adaptive" ->
         firedAt + (IF k = NoKey THEN InitialWindow ELSE AdaptiveWindow(spent))
    [] policy.mode = "batch" /\ policy.window \in Nat \ {0} -> firedAt + policy.window
    [] OTHER -> 0

\* The dispatch window's gate, or 0 when the message arrives inside.
OpeningGate == IF Windowed /\ NextOpen(firedAt) > firedAt THEN NextOpen(firedAt) ELSE 0

\* The later of the two.
PopAfter(k) == IF DebounceGate(k) >= OpeningGate THEN DebounceGate(k) ELSE OpeningGate

----------------------------------------------------------------------------
(* The ingestor.  An error of any call ends the firing; what it has        *)
(* written by then stays.                                                  *)

\* The message under ingestion and its key.
This == Head(cands)
ThisKey == keyOf[This]

\* The ingestion of the first candidate is over.
NextCandidate ==
  /\ accepted' = accepted \cup {This}
  /\ cands' = Tail(cands) /\ index' = index + 1
  /\ chosen' = {} /\ seenItems' = <<>> /\ spent' = 0
  /\ step' = IF Len(cands) = 1 THEN "idle" ELSE "candidate"

Fault == faults < MaxFaults /\ faults' = faults + 1

\* A webhook's POST body is its one candidate, received at this second.
Receive(k) ==
  /\ ~policy.polled /\ step = "idle" /\ Len(keyOf) < MaxMsg
  /\ keyOf' = Append(keyOf, k)
  /\ taken' = Len(keyOf')
  /\ cands' = <<Len(keyOf')>> /\ index' = 0 /\ firedAt' = now
  /\ step' = "candidate"
  /\ UNCHANGED <<policy, now, durable, chosen, seenItems, spent, mind, faults,
                 accepted, gone>>

\* Something new for the polled duty appears in the world.
Publish(k) ==
  /\ policy.polled /\ Len(keyOf) < MaxMsg
  /\ keyOf' = Append(keyOf, k)
  /\ UNCHANGED <<policy, now, durable, ingestor, mind, faults, taken, accepted, gone>>

\* The cron fires: the watermark is read and the sensor returns what is newer.
Poll ==
  /\ policy.polled /\ step = "idle" /\ watermark < Len(keyOf)
  /\ taken' = Len(keyOf)
  /\ cands' = [n \in 1..(Len(keyOf) - watermark) |-> watermark + n]
  /\ index' = 0 /\ firedAt' = now
  /\ step' = "mark"
  /\ UNCHANGED <<policy, now, keyOf, durable, chosen, seenItems, spent, mind, faults,
                 accepted, gone>>

\* Mutant of Newest: the watermark goes to the first item of the poll.
NewestFirst == Head(cands)

\* watermark: the maximum over the poll's candidates.
Newest == CHOOSE m \in ToSet(cands) : \A n \in ToSet(cands) : n <= m

\* The watermark is advanced at discovery, before anything is ingested.
Mark ==
  /\ step = "mark"
  /\ watermark' = Newest
  /\ step' = "candidate"
  /\ UNCHANGED <<policy, now, keyOf, table, items, credits, firedAt, cands, index,
                 chosen, seenItems, spent, mind, faults, taken, accepted, gone>>

\* Mutant of WithinWindow: a row exactly as old as the window is too old.
WithinWindowStrictly(k, bound) ==
  {i \in Pending(table) : /\ items[i] # <<>> /\ keyOf[Head(items[i])] = k
                          /\ bound = Unbounded \/ firedAt - table[i].received < bound}

\* find_coalescable and within_window: the pending rows of the key, in the window.
WithinWindow(k, bound) ==
  {i \in Pending(table) : /\ items[i] # <<>> /\ keyOf[Head(items[i])] = k
                          /\ bound = Unbounded \/ firedAt - table[i].received <= bound}

Oldest(S) == {i \in S : \A j \in S : table[i].received <= table[j].received}

\* The rows a batch may fold into; an adaptive one must not be firing already.
Accumulators(k) ==
  IF policy.mode = "adaptive"
  THEN {i \in WithinWindow(k, Unbounded) : firedAt < table[i].popAfter}
  ELSE WithinWindow(k, policy.window)

AfterCoalescing == IF policy.mode = "adaptive" /\ ThisKey # NoKey THEN "credit"
                                                                   ELSE "enqueue"

\* The coalescing policy looks the table over, and chooses.
Coalesce ==
  /\ step = "candidate"
  /\ \/ /\ policy.mode = "none" \/ ThisKey = NoKey
        /\ step' = AfterCoalescing
        /\ UNCHANGED <<chosen, seenItems>>
     \/ /\ policy.mode = "latest" /\ ThisKey # NoKey
        /\ chosen' = WithinWindow(ThisKey, policy.window)
        /\ step' = IF chosen' = {} THEN "enqueue" ELSE "supersede"
        /\ UNCHANGED seenItems
     \/ /\ policy.mode \in {"batch", "adaptive"} /\ ThisKey # NoKey
        /\ \/ /\ Accumulators(ThisKey) = {}
              /\ step' = AfterCoalescing
              /\ UNCHANGED <<chosen, seenItems>>
           \/ \E acc \in Oldest(Accumulators(ThisKey)) :
                /\ chosen' = {acc} /\ seenItems' = items[acc]
                /\ step' = "fold"
  /\ UNCHANGED <<policy, now, keyOf, durable, firedAt, cands, index, spent, mind,
                 faults, taken, accepted, gone>>

\* latest: one found row after the other is marked coalesced, whatever it is by now.
Supersede ==
  /\ step = "supersede"
  /\ \E i \in Oldest(chosen) :
       /\ table' = UpdateStatus(table, i, "coalesced")
       /\ chosen' = chosen \ {i}
  /\ step' = IF chosen' = {} THEN "enqueue" ELSE "supersede"
  /\ UNCHANGED <<policy, now, keyOf, items, watermark, credits, firedAt, cands, index,
                 seenItems, spent, mind, faults, taken, accepted, gone>>

\* Mutant of MergeBatch: a second fold wraps the accumulator's first item only.
MergeBatchAgain(old, m) == <<Head(old), m>>

\* merge_batch: the new payload goes last, the whole history is kept.
MergeBatch(old, m) == Append(old, m)

\* batch: the payload read before is written back with this message in it.
Fold ==
  /\ step = "fold"
  /\ \E acc \in chosen :
       /\ items' = IF Present(table, acc)
                   THEN [items EXCEPT ![acc] = MergeBatch(seenItems, This)] ELSE items
       /\ gone' = IF acc \in Pending(table) THEN gone ELSE gone \cup {This}
  /\ NextCandidate
  /\ UNCHANGED <<policy, now, keyOf, table, watermark, credits, firedAt, mind, faults,
                 taken>>

Today == firedAt \div Day

\* adaptive: the credits this chat has spent today are read, then one is spent.
ReadCredit ==
  /\ step = "credit"
  /\ spent' = credits[ThisKey][Today]
  /\ step' = "spend"
  /\ UNCHANGED <<policy, now, keyOf, durable, firedAt, cands, index, chosen, seenItems,
                 mind, faults, taken, accepted, gone>>

SpendCredit ==
  /\ step = "spend"
  /\ credits' = [credits EXCEPT ![ThisKey][Today] = spent + 1]
  /\ step' = "enqueue"
  /\ UNCHANGED <<policy, now, keyOf, table, items, watermark, firedAt, cands, index,
                 chosen, seenItems, spent, mind, faults, taken, accepted, gone>>

\* A row of its own, unless its id is taken: then the message is gone.
EnqueueRow ==
  /\ step = "enqueue"
  /\ LET i == StimulusId(firedAt, index)
     IN /\ table' = Enqueue(table, i, NewRow("low", firedAt, PopAfter(ThisKey)))
        /\ items' = IF Present(table, i) THEN items ELSE [items EXCEPT ![i] = <<This>>]
        /\ gone' = IF Present(table, i) THEN gone \cup {This} ELSE gone
        /\ popped' = IF Present(table, i) THEN popped ELSE popped \ {i}
  /\ NextCandidate
  /\ UNCHANGED <<policy, now, keyOf, watermark, credits, firedAt, loop, wake, heard,
                 faults, taken>>

\* A call fails and the rest of the firing with it.
IngestFails ==
  /\ step # "idle" /\ Fault
  /\ step' = "idle" /\ cands' = <<>>
  /\ chosen' = {} /\ seenItems' = <<>> /\ spent' = 0
  /\ UNCHANGED <<policy, now, keyOf, durable, firedAt, index, mind, taken, accepted,
                 gone>>

----------------------------------------------------------------------------
(* The consciousness loop, as far as the bus can tell (see Consciousness). *)

Reclaim ==
  /\ loop = "boot"
  /\ loop' = "idle"
  /\ table' = ReclaimOrphans(table)
  /\ UNCHANGED <<policy, now, keyOf, items, watermark, credits, ingestor, wake, heard,
                 popped, faults, taken, accepted, gone>>

Pop(i) ==
  /\ loop = "idle" /\ i \in NextRows(table, now)
  /\ table' = UpdateStatus(table, i, "dispatched")
  /\ loop' = "wake" /\ wake' = i
  /\ heard' = heard \cup Items(i)
  /\ popped' = popped \cup {i}
  /\ UNCHANGED <<policy, now, keyOf, items, watermark, credits, ingestor, faults,
                 taken, accepted, gone>>

\* Done and failed are alike here.
WakeEnds ==
  /\ loop = "wake"
  /\ loop' = "idle" /\ wake' = NoWake
  /\ table' = UpdateStatus(table, wake, "done")
  /\ UNCHANGED <<policy, now, keyOf, items, watermark, credits, ingestor, heard, popped,
                 faults, taken, accepted, gone>>

\* Mutant of RetryGate: the backoff is subtracted.
RetryGateSwapped(n) == now - Backoff[n]

\* The second a retried row may be popped again: retry_backoff_secs from now.
RetryGate(n) == now + Backoff[n]

WakeTimesOut ==
  /\ loop = "wake" /\ table[wake].attempts < MaxRetries
  /\ loop' = "idle" /\ wake' = NoWake
  /\ LET n == table[wake].attempts + 1
     IN table' = Reschedule(table, wake, n, RetryGate(n))
  /\ UNCHANGED <<policy, now, keyOf, items, watermark, credits, ingestor, heard, popped,
                 faults, taken, accepted, gone>>

ShedRows ==
  /\ loop = "idle" /\ Depth(table) > QueueMaxDepth
  /\ \E v \in ShedSoFar(table, QueueMaxDepth) :
       /\ IF v \in ShedSets(table, QueueMaxDepth) THEN UNCHANGED faults ELSE Fault
       /\ table' = Delete(table, v)
       /\ items' = [i \in Id |-> IF i \in v THEN <<>> ELSE items[i]]
       /\ gone' = gone \cup UNION {Items(i) : i \in v}
  /\ UNCHANGED <<policy, now, keyOf, watermark, credits, ingestor, mind, taken, accepted>>

Crash ==
  /\ Fault
  /\ loop' = "boot" /\ wake' = NoWake
  /\ step' = "idle" /\ cands' = <<>>
  /\ chosen' = {} /\ seenItems' = <<>> /\ spent' = 0
  /\ UNCHANGED <<policy, now, keyOf, durable, firedAt, index, heard, popped, taken,
                 accepted, gone>>

Tick ==
  /\ now < MaxTime
  /\ now' = now + 1
  /\ UNCHANGED <<policy, keyOf, durable, ingestor, mind, faults, taken, accepted, gone>>

Next ==
  \/ \E k \in Key \cup {NoKey} : Receive(k) \/ Publish(k)
  \/ Poll \/ Mark \/ Coalesce \/ Supersede \/ Fold
  \/ ReadCredit \/ SpendCredit \/ EnqueueRow \/ IngestFails
  \/ Reclaim \/ WakeEnds \/ WakeTimesOut \/ ShedRows \/ Crash \/ Tick
  \/ \E i \in Id : Pop(i)

Spec == Init /\ [][Next]_vars

----------------------------------------------------------------------------
(* Properties.                                                             *)

TypeOK ==
  /\ policy \in Policies
  /\ {now, watermark, firedAt, index, spent, faults, taken} \subseteq Nat
  /\ keyOf \in Seq(Key \cup {NoKey})
  /\ table \in Table
  /\ items \in [Id -> Seq(Msg)] /\ cands \in Seq(Msg) /\ seenItems \in Seq(Msg)
  /\ credits \in [Key -> [0..(MaxTime \div Day) -> Nat]]
  /\ step \in {"idle", "mark", "candidate", "supersede", "fold", "credit", "spend",
               "enqueue"}
  /\ loop \in {"boot", "idle", "wake"} /\ wake \in Id \cup {NoWake}
  /\ chosen \cup popped \subseteq Id
  /\ accepted \cup heard \cup gone \subseteq Msg

\* Cross-poll dedup (docs/authoring-souls.md:107, "a poller never re-surfaces a handled
\* item"): over polls, folds, failures and crashes a message is in one row, once.
NoDuplicate ==
  \A i, j \in Id : \A p \in DOMAIN items[i], q \in DOMAIN items[j] :
    items[i][p] = items[j][q] => i = j /\ p = q

\* A message whose ingestion ended without an error reaches a wake, or waits in the
\* queue, or is overtaken by a newer one of its key under `latest`, or went in one of
\* three ways: the id of its row was taken, the row it was folded into had been popped
\* or removed meanwhile, or its Low row was shed.
Waits(m) == \E i \in Pending(table) \cup Dispatched(table) : m \in Items(i)
Overtaken(m) == /\ policy.mode = "latest" /\ keyOf[m] # NoKey
                /\ \E n \in (m + 1)..taken : keyOf[n] = keyOf[m]

LossesAreKnown ==
  \A m \in accepted : m \in heard \/ Waits(m) \/ Overtaken(m) \/ m \in gone

\* One open batch per key (src/bus/mod.rs:101-121): of two rows of one key that no wake
\* has had yet, the one opened later was received after the window of the other, for an
\* adaptive one no sooner than its gate; under `latest` there is only one.
KeyOfRow(i) == keyOf[Head(items[i])]
WaitingTogether ==
  {ij \in Pending(table) \X Pending(table) :
     LET i == ij[1]  j == ij[2]
     IN /\ Fresh(i) /\ Fresh(j) /\ Head(items[i]) < Head(items[j])
        /\ KeyOfRow(i) = KeyOfRow(j) /\ KeyOfRow(i) # NoKey}

OneOpenBatch ==
  \A ij \in WaitingTogether :
    LET i == ij[1]  j == ij[2]
    IN CASE policy.mode = "latest"   -> policy.window # Unbounded
         [] policy.mode = "batch"    -> /\ policy.window # Unbounded
                                        /\ table[j].received > table[i].received + policy.window
         [] policy.mode = "adaptive" -> ~ (table[j].received < table[i].popAfter)
         [] OTHER                    -> TRUE

\* A chat that spends its day's credits is slowed down and never speeds up again that
\* day, across crashes and failures (src/config/mod.rs:35-40).
NeverSpeedsUp ==
  policy.mode = "adaptive" /\ ~Windowed =>
    \A i, j \in Id :
      /\ Present(table, i) /\ Present(table, j)
      /\ table[i].attempts = 0 /\ table[j].attempts = 0
      /\ KeyOfRow(i) = KeyOfRow(j) /\ KeyOfRow(i) # NoKey
      /\ table[i].received < table[j].received
      /\ table[i].received \div Day = table[j].received \div Day
      => table[i].popAfter - table[i].received <= table[j].popAfter - table[j].received

\* A message that arrives outside the dispatch window is held to the first second the
\* window is open, neither less nor more (docs/authoring-souls.md:105).
HeldToOpening ==
  Windowed /\ policy.mode \notin {"batch", "adaptive"} =>
    \A i \in Id : Present(table, i) /\ table[i].attempts = 0 =>
      LET first == IF table[i].popAfter = 0 THEN table[i].received ELSE table[i].popAfter
      IN Inside(first) /\ \A t \in table[i].received..(first - 1) : ~Inside(t)

----------------------------------------------------------------------------
(* The messages of the duty run the course MessageLifecycle describes.     *)

\* Where a message is.  One still in hand while the watermark is not advanced comes again
\* with the next poll; later, the firing it came with was its only chance.
InTime(m) == IF policy.polled THEN m > watermark ELSE m > taken

Fate(m) ==
  IF m \in heard THEN "heard"
  ELSE IF Waits(m) THEN "waiting"
  ELSE IF m \in gone THEN "gone"
  ELSE IF m \in accepted THEN IF Overtaken(m) THEN "overtaken" ELSE "unaccounted"
  ELSE IF m \in ToSet(cands) THEN "inhand"
  ELSE IF InTime(m) THEN "new" ELSE "dropped"

Course == [m \in Msg |-> Fate(m)]
ChatOf == [m \in Msg |-> IF m <= Len(keyOf) THEN keyOf[m] ELSE NoKey]

Messages == INSTANCE MessageLifecycle
              WITH Message <- Msg, Chat <- Key \cup {NoKey}, NoChat <- NoKey,
                   fate <- Course, chat <- ChatOf, latest <- policy.mode = "latest"

\* Every message is accounted for: it waits in its order, is heard, or ends in one of the
\* ways the bus knows, and never comes back (src/bus/mod.rs:60-160, ingest.rs:96-121).
MessagesRunTheirCourse == Messages!Spec

----------------------------------------------------------------------------
(* Statements of the code and its docs that the code does not keep.        *)

\* "`latest` (keep only the newest)" (docs/authoring-souls.md:118; config/mod.rs:66): the
\* newest message of a key that was ingested without an error is kept.
NewestIsKept ==
  policy.mode = "latest" =>
    \A m \in accepted : m \in heard \/ Waits(m) \/ Overtaken(m)

\* "a windowed group message still folds for its debounce, then waits for the window"
\* (src/bus/mod.rs, at pop_after): a row's first poppable second is in the window.
WaitsForWindow ==
  Windowed => \A i \in Id : Present(table, i) /\ table[i].attempts = 0 /\ table[i].popAfter > 0
                              => Inside(table[i].popAfter)
=============================================================================
