--------------------------- MODULE StimulusQueue ---------------------------
(***************************************************************************)
(* The durable stimulus table of src/queue/sqlite.rs: one operator per SQL *)
(* statement.  Every statement runs under the connection's mutex and is    *)
(* one SQLite transaction, so a module that uses the table takes one step  *)
(* per operator; what may interleave is two statements of one caller.      *)
(*                                                                         *)
(* The table is a function on the ids that can ever be used; an id with no *)
(* row maps to NoRow.  A row keeps the columns the queue itself reads or   *)
(* writes; payload, tiers and directive belong to the modules that use     *)
(* them.  A NULL pop_after is 0: both SQL tests on it (`pop_after IS NULL  *)
(* OR pop_after <= now` here, `received_at < pop_after` in the bus) give   *)
(* the same answer for NULL and for 0.                                     *)
(***************************************************************************)
EXTENDS Integers, FiniteSets

CONSTANT Id   \* the stimulus ids

Priority == {"urgent", "high", "normal", "low"}

\* Priority::numeric: the lower, the sooner it is popped.
Numeric(p) == CASE p = "urgent" -> 0
                [] p = "high"   -> 10
                [] p = "normal" -> 20
                [] p = "low"    -> 30

Status == {"pending", "coalesced", "dispatched", "done", "failed"}

Row == [status   : Status \cup {"absent"},
        priority : Priority,
        received : Nat,
        popAfter : Nat,
        attempts : Nat]

NoRow == [status |-> "absent", priority |-> "low", received |-> 0,
          popAfter |-> 0, attempts |-> 0]

Table == [Id -> Row]

EmptyTable == [i \in Id |-> NoRow]

\* A row as its producers build it: pending, never tried.
NewRow(p, now, gate) == [status |-> "pending", priority |-> p, received |-> now,
                         popAfter |-> gate, attempts |-> 0]

Present(t, i)  == t[i].status # "absent"
InStatus(t, s) == {i \in Id : t[i].status = s}
Pending(t)     == InStatus(t, "pending")
Dispatched(t)  == InStatus(t, "dispatched")

----------------------------------------------------------------------------
\* Mutant of Enqueue: INSERT OR REPLACE.
EnqueueReplacing(t, i, row) == [t EXCEPT ![i] = row]

\* INSERT OR IGNORE: an id that has a row, in whatever status, keeps it.
Enqueue(t, i, row) == IF Present(t, i) THEN t ELSE [t EXCEPT ![i] = row]

\* Mutant of Eligible: the debounce gate is not looked at.
EligibleUngated(t, now) == Pending(t)

\* The rows next() may choose: pending, with the debounce gate passed.
Eligible(t, now) == {i \in Pending(t) : t[i].popAfter <= now}

\* ORDER BY priority_rank, received_at LIMIT 1.  SQL leaves ties open.
Before(t, i, j) == \/ Numeric(t[i].priority) < Numeric(t[j].priority)
                   \/ /\ t[i].priority = t[j].priority
                      /\ t[i].received <= t[j].received

NextRows(t, now) == {i \in Eligible(t, now) :
                       \A j \in Eligible(t, now) : Before(t, i, j)}

\* UPDATE ... SET status: unconditional, whatever the row's status was.
UpdateStatus(t, i, s) == IF Present(t, i) THEN [t EXCEPT ![i].status = s] ELSE t

\* Mutant of Reschedule: the new count and gate are written, the lease is kept.
RescheduleKeepingLease(t, i, n, gate) ==
  [t EXCEPT ![i] = [@ EXCEPT !.attempts = n, !.popAfter = gate]]

\* Re-pend the same row with its new attempt count, behind a backoff gate.
Reschedule(t, i, n, gate) ==
  IF Present(t, i)
  THEN [t EXCEPT ![i] = [@ EXCEPT !.status = "pending", !.attempts = n, !.popAfter = gate]]
  ELSE t

\* Mutant of ReclaimOrphans: a row that was already retried is not reclaimed.
ReclaimFreshOrphans(t) ==
  [i \in Id |-> IF t[i].status = "dispatched" /\ t[i].attempts = 0
                THEN [t[i] EXCEPT !.status = "pending"] ELSE t[i]]

\* Every dispatched row back to pending; its attempts and its gate are kept.
ReclaimOrphans(t) ==
  [i \in Id |-> IF t[i].status = "dispatched" THEN [t[i] EXCEPT !.status = "pending"]
                                               ELSE t[i]]

\* COUNT(*) of the pending rows.
Depth(t) == Cardinality(Pending(t))

LowPending(t) == {i \in Pending(t) : t[i].priority = "low"}

\* Mutant of ShedSets: one row more than the excess.
ShedSetsTooMany(t, max) ==
  LET excess == IF Depth(t) > max THEN Depth(t) - max + 1 ELSE 0
  IN {v \in SUBSET LowPending(t) :
        /\ \/ Cardinality(v) = excess
           \/ Cardinality(v) < excess /\ v = LowPending(t)
        /\ \A i \in v, j \in LowPending(t) \ v : t[i].received <= t[j].received}

\* The sets shed(max) may delete: as many Low pending rows as the queue is over
\* its cap, or all there are, oldest first.  (The code breaks ties by id.)
ShedSets(t, max) ==
  LET excess == IF Depth(t) > max THEN Depth(t) - max ELSE 0
  IN {v \in SUBSET LowPending(t) :
        /\ \/ Cardinality(v) = excess
           \/ Cardinality(v) < excess /\ v = LowPending(t)
        /\ \A i \in v, j \in LowPending(t) \ v : t[i].received <= t[j].received}

\* Each row is a DELETE of its own.  What shed(max) has deleted when one of its calls fails, or
\* the process dies, is what a higher cap would have had it delete.
ShedSoFar(t, max) == UNION {ShedSets(t, m) : m \in {max} \cup max .. Depth(t)}

Delete(t, v) == [i \in Id |-> IF i \in v THEN NoRow ELSE t[i]]
=============================================================================
