------------------------ MODULE StimulusQueueProofs ------------------------
(***************************************************************************)
(* Lemmas about the statements of module StimulusQueue, for any set of ids *)
(* and any table: what each keeps of the table's type, of the statuses, of *)
(* the leases and of a row's stamps, and how many rows shedding leaves.    *)
(***************************************************************************)
EXTENDS StimulusQueue, FiniteSetTheorems, TLAPS

----------------------------------------------------------------------------
(* Every statement on the table keeps it a table.                          *)

\* What a producer builds is a row.
LEMMA NewRowType ==
  ASSUME NEW p \in Priority, NEW n \in Nat, NEW g \in Nat
  PROVE  NewRow(p, n, g) \in Row
  BY DEF NewRow, Row, Status

\* INSERT OR IGNORE keeps the table a table.
LEMMA EnqueueType ==
  ASSUME NEW t \in Table, NEW i \in Id, NEW row \in Row
  PROVE  Enqueue(t, i, row) \in Table
  BY DEF Enqueue, Table

\* An unconditional status update keeps the table a table.
LEMMA UpdateStatusType ==
  ASSUME NEW t \in Table, NEW i \in Id, NEW s \in Status
  PROVE  UpdateStatus(t, i, s) \in Table
  BY DEF UpdateStatus, Table, Row

\* Re-pending a row keeps the table a table.
LEMMA RescheduleType ==
  ASSUME NEW t \in Table, NEW i \in Id, NEW n \in Nat, NEW g \in Nat
  PROVE  Reschedule(t, i, n, g) \in Table
  BY DEF Reschedule, Table, Row, Status

\* The boot reconciliation keeps the table a table.
LEMMA ReclaimOrphansType ==
  ASSUME NEW t \in Table
  PROVE  ReclaimOrphans(t) \in Table
  BY DEF ReclaimOrphans, Table, Row, Status

\* Deleting rows keeps the table a table.
LEMMA DeleteType ==
  ASSUME NEW t \in Table, NEW v \in SUBSET Id
  PROVE  Delete(t, v) \in Table
  BY DEF Delete, Table, Row, NoRow, Priority

\* Shedding chooses among the pending Low rows.
LEMMA ShedSetsType ==
  ASSUME NEW t, NEW m, NEW v \in ShedSets(t, m)
  PROVE  v \in SUBSET Id /\ v \subseteq LowPending(t)
  BY DEF ShedSets, LowPending, Pending, InStatus

\* So does shedding that is cut short, which is shedding to a higher cap.
LEMMA ShedSoFarType ==
  ASSUME NEW t, NEW m, NEW v \in ShedSoFar(t, m)
  PROVE  v \in SUBSET Id /\ v \subseteq LowPending(t)
  BY ShedSetsType DEF ShedSoFar

\* Shedding that ends is the last of what it may have done so far.
LEMMA ShedIsSoFar ==
  ASSUME NEW t, NEW m
  PROVE  ShedSets(t, m) \subseteq ShedSoFar(t, m)
  BY DEF ShedSoFar

----------------------------------------------------------------------------
(* Leases: what each statement does to the set of dispatched rows.         *)

\* An insert leases nothing.
LEMMA EnqueueLeases ==
  ASSUME NEW t \in Table, NEW i \in Id, NEW row \in Row, row.status = "pending"
  PROVE  /\ Dispatched(Enqueue(t, i, row)) = Dispatched(t)
         /\ \A j \in Dispatched(t) : Enqueue(t, i, row)[j] = t[j]
  BY DEF Enqueue, Present, Dispatched, InStatus, Table, Row

\* Shedding frees no lease.
LEMMA DeleteLeases ==
  ASSUME NEW t \in Table, NEW v \in SUBSET LowPending(t)
  PROVE  /\ Dispatched(Delete(t, v)) = Dispatched(t)
         /\ \A j \in Dispatched(t) : Delete(t, v)[j] = t[j]
  BY DEF Delete, LowPending, Pending, Dispatched, InStatus, NoRow

\* Popping a pending row leases that row and no other.
LEMMA LeaseRow ==
  ASSUME NEW t \in Table, NEW i \in Pending(t)
  PROVE  /\ Dispatched(UpdateStatus(t, i, "dispatched")) = Dispatched(t) \cup {i}
         /\ UpdateStatus(t, i, "dispatched")[i].attempts = t[i].attempts
  BY DEF UpdateStatus, Present, Pending, Dispatched, InStatus, Table, Row

\* Recording an outcome ends the lease of that row and no other.
LEMMA SettleRow ==
  ASSUME NEW t \in Table, NEW i \in Dispatched(t), NEW s \in {"done", "failed"}
  PROVE  Dispatched(UpdateStatus(t, i, s)) = Dispatched(t) \ {i}
  BY DEF UpdateStatus, Present, Dispatched, InStatus, Table, Row

\* Re-pending a row ends the lease of that row and no other.
LEMMA RescheduleRow ==
  ASSUME NEW t \in Table, NEW i \in Dispatched(t), NEW n \in Nat, NEW g \in Nat
  PROVE  Dispatched(Reschedule(t, i, n, g)) = Dispatched(t) \ {i}
  BY DEF Reschedule, Present, Dispatched, InStatus, Table, Row

\* After the boot reconciliation nothing is leased.
LEMMA ReclaimLeases ==
  ASSUME NEW t \in Table
  PROVE  Dispatched(ReclaimOrphans(t)) = {}
  BY DEF ReclaimOrphans, Dispatched, InStatus, Table, Row

----------------------------------------------------------------------------
(* The table, as far as the statuses go.                                   *)

IsRow(r) ==
  /\ r = [status |-> r.status, priority |-> r.priority, received |-> r.received,
          popAfter |-> r.popAfter, attempts |-> r.attempts]
  /\ r.status \in Status \cup {"absent"}

Rows(t) == t = [i \in Id |-> t[i]] /\ \A i \in Id : IsRow(t[i])

\* INSERT OR IGNORE of a new row.
LEMMA EnqueueStatus ==
  ASSUME NEW t, Rows(t), NEW i \in Id, NEW at, NEW gate
  PROVE  LET u == Enqueue(t, i, NewRow("low", at, gate)) IN
         /\ Rows(u)
         /\ \A j \in Id : u[j].status = IF j = i /\ ~Present(t, i) THEN "pending" ELSE t[j].status
<1>1. IsRow(NewRow("low", at, gate)) /\ NewRow("low", at, gate).status = "pending"
  BY DEF NewRow, IsRow, Status
<1> DEFINE row == NewRow("low", at, gate)
<1> HIDE DEF row
<1>2. CASE Present(t, i)
  BY <1>2 DEF Enqueue
<1>3. CASE ~Present(t, i)
  <2>1. Enqueue(t, i, row) = [j \in Id |-> IF j = i THEN row ELSE t[j]]
    BY <1>3 DEF Enqueue, Rows
  <2> QED BY <1>1, <1>3, <2>1 DEF Rows, row
<1> QED BY <1>2, <1>3 DEF row

\* UPDATE of a status.
LEMMA UpdateStatusStatus ==
  ASSUME NEW t, Rows(t), NEW i \in Id, NEW s \in Status
  PROVE  LET u == UpdateStatus(t, i, s) IN
         /\ Rows(u)
         /\ \A j \in Id : u[j].status = IF j = i /\ Present(t, i) THEN s ELSE t[j].status
<1>1. CASE ~Present(t, i)
  BY <1>1 DEF UpdateStatus
<1>2. CASE Present(t, i)
  <2> DEFINE row == [t[i] EXCEPT !.status = s]
  <2>1. IsRow(row) /\ row.status = s
    BY DEF Rows, IsRow
  <2>2. UpdateStatus(t, i, s) = [j \in Id |-> IF j = i THEN row ELSE t[j]]
    BY <1>2 DEF UpdateStatus, Rows
  <2> HIDE DEF row
  <2> QED BY <1>2, <2>1, <2>2 DEF Rows
<1> QED BY <1>1, <1>2

\* The row of a wake that timed out.
LEMMA RescheduleStatus ==
  ASSUME NEW t, Rows(t), NEW i \in Id, NEW n, NEW gate
  PROVE  LET u == Reschedule(t, i, n, gate) IN
         /\ Rows(u)
         /\ \A j \in Id : u[j].status = IF j = i /\ Present(t, i) THEN "pending" ELSE t[j].status
<1>1. CASE ~Present(t, i)
  BY <1>1 DEF Reschedule
<1>2. CASE Present(t, i)
  <2> DEFINE row == [t[i] EXCEPT !.status = "pending", !.attempts = n, !.popAfter = gate]
  <2>0. PICK s, p, at, g, k : t[i] = [status |-> s, priority |-> p, received |-> at,
                                      popAfter |-> g, attempts |-> k]
    BY DEF Rows, IsRow
  <2>1. IsRow(row) /\ row.status = "pending"
    <3>1. t[i] \in [status : {s}, priority : {p}, received : {at}, popAfter : {g}, attempts : {k}]
      BY <2>0
    <3>2. row \in [status : {"pending"}, priority : {p}, received : {at}, popAfter : {gate},
                   attempts : {n}]
      BY <3>1
    <3> HIDE DEF row
    <3> QED BY <3>2 DEF IsRow, Status
  <2>2. Reschedule(t, i, n, gate) = [j \in Id |-> IF j = i THEN row ELSE t[j]]
    BY <1>2 DEF Reschedule, Rows
  <2> HIDE DEF row
  <2> QED BY <1>2, <2>1, <2>2 DEF Rows
<1> QED BY <1>1, <1>2

\* The boot's sweep.
LEMMA ReclaimStatus ==
  ASSUME NEW t, Rows(t)
  PROVE  LET u == ReclaimOrphans(t) IN
         /\ Rows(u)
         /\ \A j \in Id : u[j].status = IF t[j].status = "dispatched" THEN "pending" ELSE t[j].status
<1>1. ASSUME NEW j \in Id
      PROVE  /\ IsRow([t[j] EXCEPT !.status = "pending"])
             /\ [t[j] EXCEPT !.status = "pending"].status = "pending"
  BY DEF Rows, IsRow, Status
<1> QED BY <1>1 DEF ReclaimOrphans, Rows

\* A deleted row is absent, and the others keep their status.
LEMMA DeleteStatus ==
  ASSUME NEW t, Rows(t), NEW v
  PROVE  LET u == Delete(t, v) IN
         /\ Rows(u)
         /\ \A j \in Id : u[j].status = IF j \in v THEN "absent" ELSE t[j].status
<1>1. IsRow(NoRow) /\ NoRow.status = "absent"
  BY DEF NoRow, IsRow
<1> QED BY <1>1 DEF Delete, Rows

----------------------------------------------------------------------------
(* What a row keeps of its stamps.                                         *)

\* The stamps of a row: all the columns but its status and its priority.
Same(r, s) == r.received = s.received /\ r.popAfter = s.popAfter /\ r.attempts = s.attempts

\* A status update touches no stamp.
LEMMA UpdateStamps ==
  ASSUME NEW t, Rows(t), NEW i \in Id, NEW s \in Status
  PROVE  \A j \in Id : Same(UpdateStatus(t, i, s)[j], t[j])
<1>1. CASE ~Present(t, i)
  BY <1>1 DEF UpdateStatus, Same
<1>2. CASE Present(t, i)
  <2> DEFINE row == [t[i] EXCEPT !.status = s]
  <2>1. Same(row, t[i])
    BY DEF Rows, IsRow, Same
  <2>2. UpdateStatus(t, i, s) = [j \in Id |-> IF j = i THEN row ELSE t[j]]
    BY <1>2 DEF UpdateStatus, Rows
  <2> HIDE DEF row
  <2> QED BY <2>1, <2>2 DEF Same
<1> QED BY <1>1, <1>2

\* Re-pending a row stamps its gate and its attempts, and no other row.
LEMMA RescheduleStamps ==
  ASSUME NEW t, Rows(t), NEW i \in Id, NEW n, NEW gate
  PROVE  \A j \in Id : LET r == Reschedule(t, i, n, gate)[j] IN
           \/ Same(r, t[j])
           \/ j = i /\ r.received = t[i].received /\ r.attempts = n
<1>1. CASE ~Present(t, i)
  BY <1>1 DEF Reschedule, Same
<1>2. CASE Present(t, i)
  <2> DEFINE row == [t[i] EXCEPT !.status = "pending", !.attempts = n, !.popAfter = gate]
  <2>0. PICK s, p, at, g, k : t[i] = [status |-> s, priority |-> p, received |-> at,
                                      popAfter |-> g, attempts |-> k]
    BY DEF Rows, IsRow
  <2>1. row.received = t[i].received /\ row.attempts = n
    <3>1. t[i] \in [status : {s}, priority : {p}, received : {at}, popAfter : {g}, attempts : {k}]
      BY <2>0
    <3>2. row \in [status : {"pending"}, priority : {p}, received : {at}, popAfter : {gate},
                   attempts : {n}]
      BY <3>1
    <3>3. t[i].received = at
      BY <2>0
    <3> HIDE DEF row
    <3> QED BY <3>2, <3>3
  <2>2. Reschedule(t, i, n, gate) = [j \in Id |-> IF j = i THEN row ELSE t[j]]
    BY <1>2 DEF Reschedule, Rows
  <2> HIDE DEF row
  <2> QED BY <2>1, <2>2 DEF Same
<1> QED BY <1>1, <1>2

\* The boot reconciliation touches no stamp.
LEMMA ReclaimStamps ==
  ASSUME NEW t, Rows(t)
  PROVE  \A j \in Id : Same(ReclaimOrphans(t)[j], t[j])
<1>1. ASSUME NEW j \in Id PROVE Same([t[j] EXCEPT !.status = "pending"], t[j])
  BY DEF Rows, IsRow, Same
<1> QED BY <1>1 DEF ReclaimOrphans, Same
----------------------------------------------------------------------------
(* How many rows there are.                                                *)

Stored(t) == {i \in Id : Present(t, i)}

\* Only an insert makes a row, and it makes one.
LEMMA EnqueueStored ==
  ASSUME NEW t \in Table, NEW i \in Id, NEW row \in Row
  PROVE  Stored(Enqueue(t, i, row)) \subseteq Stored(t) \cup {i}
  BY DEF Enqueue, Stored, Present, Table

\* No other statement does.
LEMMA UpdateStored ==
  ASSUME NEW t \in Table, NEW i \in Id, NEW s \in Status
  PROVE  Stored(UpdateStatus(t, i, s)) \subseteq Stored(t)
  BY DEF UpdateStatus, Stored, Present, Table, Row

\* Re-pending a row adds none.
LEMMA RescheduleStored ==
  ASSUME NEW t \in Table, NEW i \in Id, NEW n \in Nat, NEW g \in Nat
  PROVE  Stored(Reschedule(t, i, n, g)) \subseteq Stored(t)
  BY DEF Reschedule, Stored, Present, Table, Row

\* The boot reconciliation adds no row.
LEMMA ReclaimStored ==
  ASSUME NEW t \in Table
  PROVE  Stored(ReclaimOrphans(t)) \subseteq Stored(t)
  BY DEF ReclaimOrphans, Stored, Present, Table, Row

\* Deleting rows adds none.
LEMMA DeleteStored ==
  ASSUME NEW t \in Table, NEW v
  PROVE  Stored(Delete(t, v)) \subseteq Stored(t)
  BY DEF Delete, Stored, Present, NoRow

\* shed(max) deletes waiting Low rows only, the oldest of them, and leaves max rows waiting
\* when it deletes any.
LEMMA ShedLeaves ==
  ASSUME NEW t \in Table, IsFiniteSet(Pending(t)), NEW max \in Nat, NEW v \in ShedSets(t, max),
         NEW i \in v
  PROVE  /\ t[i].status = "pending" /\ t[i].priority = "low"
         /\ Depth(Delete(t, v)) >= max
         /\ \A j \in LowPending(Delete(t, v)) : t[i].received <= Delete(t, v)[j].received
  <1> DEFINE excess == IF Depth(t) > max THEN Depth(t) - max ELSE 0
             u == Delete(t, v)
  <1>1. /\ v \subseteq LowPending(t) /\ Cardinality(v) <= excess
        /\ \A j \in LowPending(t) \ v : t[i].received <= t[j].received
    BY FS_Subset, FS_CardinalityType DEF ShedSets, LowPending, Depth
  <1>2. v \subseteq Pending(t) /\ IsFiniteSet(v) /\ Cardinality(v) \in Nat /\ Depth(t) \in Nat
    BY <1>1, FS_Subset, FS_CardinalityType DEF LowPending, Depth
  <1>3. Cardinality(v) # 0
    BY <1>2, FS_EmptySet
  <1>4. Cardinality(v) <= Depth(t) - max
    BY <1>1, <1>2, <1>3
  <1>5. Pending(u) = Pending(t) \ v
    BY DEF Delete, Pending, InStatus, NoRow
  <1>6. Depth(u) = Depth(t) - Cardinality(v)
    <2>1. Pending(t) \cap v = v
      BY <1>2
    <2>2. Cardinality(Pending(t) \ v) = Cardinality(Pending(t)) - Cardinality(Pending(t) \cap v)
      BY FS_Difference
    <2> QED BY <1>5, <2>1, <2>2 DEF Depth
  <1>7. Depth(u) >= max
    BY <1>2, <1>4, <1>6
  <1>8. \A j \in LowPending(u) : j \in LowPending(t) \ v /\ u[j] = t[j]
    <2>1. \A j \in Pending(t) \ v : u[j] = t[j]
      BY DEF Delete, Pending, InStatus
    <2> QED BY <1>5, <2>1 DEF LowPending
  <1>9. t[i].status = "pending" /\ t[i].priority = "low"
    BY <1>1 DEF LowPending, Pending, InStatus
  <1> QED BY <1>1, <1>7, <1>8, <1>9

\* And so it is wherever shedding is cut short.
LEMMA ShedSoFarLeaves ==
  ASSUME NEW t \in Table, IsFiniteSet(Pending(t)), NEW max \in Nat, NEW v \in ShedSoFar(t, max),
         NEW i \in v
  PROVE  /\ t[i].status = "pending" /\ t[i].priority = "low"
         /\ Depth(Delete(t, v)) >= max
         /\ \A j \in LowPending(Delete(t, v)) : t[i].received <= Delete(t, v)[j].received
  <1>1. PICK m \in {max} \cup max .. Depth(t) : v \in ShedSets(t, m)
    BY DEF ShedSoFar
  <1>2. m \in Nat /\ m >= max
    BY FS_CardinalityType DEF Depth
  <1>3. /\ t[i].status = "pending" /\ t[i].priority = "low"
        /\ Depth(Delete(t, v)) >= m
        /\ \A j \in LowPending(Delete(t, v)) : t[i].received <= Delete(t, v)[j].received
    BY <1>1, <1>2, ShedLeaves
  <1>4. Pending(Delete(t, v)) \subseteq Pending(t)
    BY DEF Delete, Pending, InStatus, NoRow
  <1>5. Depth(Delete(t, v)) \in Nat
    BY <1>4, FS_Subset, FS_CardinalityType DEF Depth
  <1> QED BY <1>2, <1>3, <1>5
=============================================================================
