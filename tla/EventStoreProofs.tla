-------------------------- MODULE EventStoreProofs --------------------------
(***************************************************************************)
(* The history of a task is written once, read exactly and ended once; a   *)
(* task and its artifact end together; and no file of the store is         *)
(* forgotten: for any number of tasks, artifacts, subscribers, passes and  *)
(* faults, and any limits.                                                 *)
(***************************************************************************)
EXTENDS EventStore, FiniteSetTheorems, WellFoundedInduction, TLAPS

-----------------------------------------------------------------------------
(* Types. *)

\* A row, or the absence of one, as a record.
Columns == [state : State \cup {"none"}, revision : Revision, retain : Time, lease : Time,
            retention : 0 .. Ttl]

PassState == [step : {"idle", "expired", "removing", "recording"}, todo : SUBSET Intent,
              row : Intent \cup {NoIntent},
              outcome : {"none", "removed", "more", "end", "absent", "failed"}]

ReaderState == [last : Nat, count : Nat, view : State \cup {"none"},
                step : {"idle", "status", "events", "cancel"}]

\* The type of every variable; a task that still runs has room for its end.
TaskTypes ==
  /\ job \in [Job -> Row \cup {NoRow}]
  /\ \A j \in Job : job[j].state \in Active => job[j].revision <= MaxEvents
  /\ events \in [Job -> SUBSET Event]
  /\ log \in [Job -> Seq(State)]

FileTypes ==
  /\ artifact \in [Artifact -> Entry \cup {NoEntry}]
  /\ outbox \subseteq Intent
  /\ place \in [File -> Absent .. OwnName]
  /\ pass \in [Pass -> PassState]
  /\ \A p \in Pass : pass[p].step = "recording" =>
       /\ pass[p].row \in Intent
       /\ pass[p].outcome = "more" => pass[p].row.cursor + 1 < Pages
  /\ used \subseteq Job \cup Artifact \cup File

OtherTypes ==
  /\ clock \in 1 .. MaxClock
  /\ caps \in [Token -> Time \cup {NotIssued}]
  /\ reader \in [Subscriber -> ReaderState]
  /\ faults \in 0 .. MaxFaults

Types == TaskTypes /\ FileTypes /\ OtherTypes

\* Limits are numbers.
LEMMA Limits ==
  /\ LeaseSeconds \in Nat /\ Ttl \in Nat /\ Pages \in Nat /\ MaxEvents \in Nat /\ MaxClock \in Nat
  /\ LeaseSeconds >= 1 /\ Ttl >= 1 /\ Pages >= 1 /\ MaxEvents >= 1 /\ MaxClock >= 1
  /\ BusyWait \in Nat /\ Retained \in Nat /\ MaxActive \in Nat /\ MaxPending \in Nat
  /\ Batch \in Nat /\ MaxFaults \in Nat
BY LimitsAreNumbers

\* What is read of the clock, and every deadline that follows from it, is an instant.
LEMMA Instants ==
  ASSUME clock \in 1 .. MaxClock, NEW t \in Readings
  PROVE  /\ t \in 1 .. clock /\ t \in Time /\ 0 \in Time
         /\ Deadline(t) \in Time /\ clock + LeaseSeconds \in Time
         /\ Retention(t) \in 1 .. Ttl
         /\ \A r \in 0 .. Ttl : t + r \in Time
         /\ \A r \in 1 .. LeaseSeconds : t + r \in Time
BY Limits DEF Readings, Time, Deadline, Retention

\* A row is a record of columns with a state; there is one exactly if it is present.
LEMMA Rows ==
  /\ Row \subseteq Columns /\ NoRow \in Columns /\ NoRow \notin Row
  /\ \A r \in Row \cup {NoRow} : /\ r # NoRow <=> r.state # "none"
                                 /\ r # NoRow <=> r.revision # 0
                                 /\ r # NoRow <=> r \in Row
<1>1. "none" \notin State
  BY DEF State, Active, Terminal
<1>2. QED
  BY <1>1, Limits DEF Row, NoRow, Columns, Revision, Time

\* The columns that the writers set.
LEMMA DatedColumns ==
  ASSUME clock \in 1 .. MaxClock, NEW t \in Readings, NEW r \in Columns, NEW state \in State
  PROVE  /\ Dated(r, state, t) \in Columns
         /\ Dated(r, state, t).state = r.state /\ Dated(r, state, t).revision = r.revision
         /\ Dated(r, state, t).retention \in 1 .. Ttl
<1>1. Retention(t) \in 1 .. Ttl /\ Deadline(t) \in Time /\ clock + LeaseSeconds \in Time /\ 0 \in Time
  BY Instants
<1>2. Retention(t) \in 0 .. Ttl
  BY <1>1, Limits
<1>3. QED
  BY <1>1, <1>2 DEF Dated, Columns

\* The columns of a new task.
LEMMA NewColumns ==
  ASSUME clock \in 1 .. MaxClock, NEW t \in Readings, NEW r \in Columns, NEW state \in State
  PROVE  /\ [Dated(r, state, t) EXCEPT !.retain = Deadline(t)] \in Columns
         /\ [Dated(r, state, t) EXCEPT !.retain = Deadline(t)].revision = r.revision
         /\ [Dated(r, state, t) EXCEPT !.retain = Deadline(t)].retention \in 1 .. Ttl
<1>1. Deadline(t) \in Time
  BY Instants
<1>2. QED
  BY <1>1, DatedColumns DEF Columns

\* The columns of a task that is cancelled or fails by its expiry.
LEMMA EndedColumns ==
  ASSUME clock \in 1 .. MaxClock, NEW now \in Readings, NEW r \in Row
  PROVE  /\ [r EXCEPT !.retain = now + r.retention, !.lease = 0] \in Columns
         /\ [r EXCEPT !.retain = now + r.retention, !.lease = 0].revision = r.revision
         /\ [r EXCEPT !.retain = now + r.retention, !.lease = 0].retention \in 1 .. Ttl
<1>1. r.retention \in 1 .. Ttl
  BY DEF Row
<1>2. now + r.retention \in Time /\ 0 \in Time
  BY <1>1, Instants, Limits
<1>3. QED
  BY <1>1, <1>2, Rows DEF Row, Columns

-----------------------------------------------------------------------------
(* What a step does to the history of a task. *)

\* The history of a task stays, grows by a state, or is retired with its row.
Same(j) ==
  /\ job'[j].state = job[j].state /\ job'[j].revision = job[j].revision
  /\ UNCHANGED <<events[j], log[j]>>

Grown(j, state) ==
  /\ job[j].state \notin Terminal /\ (Present(j) \/ Unused(j))
  /\ job'[j].state = state /\ job'[j].revision = job[j].revision + 1
  /\ events'[j] = Written(j, state) /\ log'[j] = Append(log[j], state)
  /\ j \in used'

Retired(j) ==
  /\ job[j].state \in Terminal
  /\ job'[j] = NoRow /\ events'[j] = {} /\ log'[j] = <<>>

HistoryStep(j) == Same(j) \/ (\E state \in State : Grown(j, state)) \/ Retired(j)

\* The event that is written is one, and so are those that are kept.
LEMMA WrittenEvents ==
  ASSUME TaskTypes, NEW j \in Job, job[j].revision <= MaxEvents, NEW state \in State
  PROVE  Written(j, state) \subseteq Event
<1>1. job[j].revision + 1 \in Revision \ {0}
  BY Limits DEF TaskTypes, Row, NoRow, Revision
<1>2. [revision |-> job[j].revision + 1, state |-> state, completion |-> state = "completed"]
        \in Event
  BY <1>1 DEF Event
<1>3. events[j] \subseteq Event
  BY DEF TaskTypes
<1>4. QED
  BY <1>2, <1>3 DEF Written, Pruned

\* One task is written to.
LEMMA Appended ==
  ASSUME TaskTypes, NEW j \in Job, NEW state \in State,
         NEW row \in Columns, row.revision = job[j].revision, row.retention \in 1 .. Ttl,
         job[j].revision <= MaxEvents, state \in Active => job[j].revision < MaxEvents,
         AppendEvent(j, state, row),
         job[j].state \notin Terminal, Present(j) \/ Unused(j), j \in used'
  PROVE  TaskTypes' /\ \A k \in Job : HistoryStep(k)
<1> DEFINE new == [row EXCEPT !.state = state, !.revision = @ + 1]
<1>0. row.revision <= MaxEvents
  OBVIOUS
<1>1. /\ new \in Row /\ new.state = state /\ new.revision = job[j].revision + 1
  <2>1. row.revision + 1 \in Revision \ {0}
    BY <1>0, Limits DEF Columns, Revision
  <2>2. QED
    BY <2>1 DEF Columns, Row
<1>2. /\ job' = [job EXCEPT ![j] = new]
      /\ events' = [events EXCEPT ![j] = Written(j, state)]
      /\ log' = [log EXCEPT ![j] = Append(@, state)]
  BY DEF AppendEvent
<1> HIDE DEF new
<1>3. /\ job' \in [Job -> Row \cup {NoRow}]
      /\ job'[j] = new /\ \A k \in Job : k # j => job'[k] = job[k]
  BY <1>1, <1>2 DEF TaskTypes
<1>4. /\ events' \in [Job -> SUBSET Event]
      /\ events'[j] = Written(j, state) /\ \A k \in Job : k # j => events'[k] = events[k]
  BY <1>2, WrittenEvents DEF TaskTypes
<1>5. /\ log' \in [Job -> Seq(State)]
      /\ log'[j] = Append(log[j], state) /\ \A k \in Job : k # j => log'[k] = log[k]
  BY <1>2 DEF TaskTypes
<1>6. \A k \in Job : job'[k].state \in Active => job'[k].revision <= MaxEvents
  <2>1. job[j].revision \in Nat
    BY DEF TaskTypes, Row, NoRow, Revision
  <2>2. state \in Active => job[j].revision + 1 <= MaxEvents
    BY <2>1, Limits
  <2>3. QED
    BY <1>1, <1>3, <2>2 DEF TaskTypes
<1>7. Grown(j, state)
  BY <1>1, <1>3, <1>4, <1>5 DEF Grown
<1>8. \A k \in Job : k # j => Same(k)
  BY <1>3, <1>4, <1>5 DEF Same
<1>9. QED
  BY <1>3, <1>4, <1>5, <1>6, <1>7, <1>8 DEF TaskTypes, HistoryStep

\* A step that writes nothing to any task, but may change its deadlines.
LEMMA Undisturbed ==
  ASSUME TaskTypes, UNCHANGED <<events, log>>, job' \in [Job -> Row \cup {NoRow}],
         \A j \in Job : job'[j].state = job[j].state /\ job'[j].revision = job[j].revision
  PROVE  TaskTypes' /\ \A k \in Job : HistoryStep(k)
BY DEF TaskTypes, HistoryStep, Same

\* Every row belongs to an id that was registered.
Registered == \A j \in Job : Present(j) => j \in used

\* A row has a state and a revision; a task that is not over may be written to.
LEMMA RowOf ==
  ASSUME TaskTypes, NEW j \in Job
  PROVE  /\ job[j] \in Columns
         /\ Present(j) <=> job[j] \in Row
         /\ Present(j) <=> job[j].state # "none"
         /\ Present(j) <=> job[j].revision # 0
         /\ Present(j) /\ job[j].state \notin Terminal => /\ job[j].state \in Active
                                                          /\ job[j].revision <= MaxEvents
         /\ job[j].revision \in Nat /\ job[j].state \in State \cup {"none"}
         /\ ~Present(j) => job[j] = NoRow
<1>1. job[j] \in Row \cup {NoRow}
  BY DEF TaskTypes
<1>2. job[j].state \in State \cup {"none"} /\ job[j].revision \in Nat
  BY <1>1, Rows DEF Columns, Revision
<1>3. QED
  BY <1>1, <1>2, Rows DEF TaskTypes, Present, State

\* The writers of a task write its history.
LEMMA WritersWrite ==
  ASSUME clock \in 1 .. MaxClock, TaskTypes, Registered, NEW j \in Job, NEW state \in State,
         RegisterState(j, state) \/ AppendProgress(j, state)
  PROVE  TaskTypes' /\ \A k \in Job : HistoryStep(k)
<1>1. ASSUME NEW called \in Readings, CreateJob(j, state, called)
      PROVE  TaskTypes' /\ \A k \in Job : HistoryStep(k)
  <2> DEFINE row == [Dated(NoRow, state, called) EXCEPT !.retain = Deadline(called)]
  <2>1. ~Present(j) /\ Unused(j) /\ AppendEvent(j, state, row) /\ j \in used'
    BY <1>1 DEF CreateJob
  <2>2. row \in Columns /\ row.revision = 0 /\ row.retention \in 1 .. Ttl
    BY Rows, NewColumns DEF NoRow
  <2>3. job[j].revision = 0 /\ job[j].state \notin Terminal
    BY <2>1, RowOf DEF Terminal
  <2>4. job[j].revision < MaxEvents
    BY <2>3, Limits
  <2> HIDE DEF row
  <2>5. QED
    BY <2>1, <2>2, <2>3, <2>4, Limits, Appended
<1>2. ASSUME NEW called \in Readings, RepeatState(j, state, called)
      PROVE  TaskTypes' /\ \A k \in Job : HistoryStep(k)
  <2> DEFINE row == Dated(job[j], state, called)
  <2>1. /\ Present(j) /\ state \in Active /\ UNCHANGED <<events, log>>
        /\ job' = [job EXCEPT ![j] = row]
    BY <1>2 DEF RepeatState
  <2>2. job[j] \in Row /\ job[j] \in Columns
    BY <2>1, RowOf
  <2>3. row \in Columns /\ row.state = job[j].state /\ row.revision = job[j].revision
        /\ row.retention \in 1 .. Ttl
    BY <2>2, DatedColumns
  <2> HIDE DEF row
  <2>4. row \in Row
    BY <2>2, <2>3 DEF Columns, Row
  <2>5. /\ job' \in [Job -> Row \cup {NoRow}]
        /\ \A k \in Job : job'[k].state = job[k].state /\ job'[k].revision = job[k].revision
    BY <2>1, <2>3, <2>4 DEF TaskTypes
  <2>6. QED
    BY <2>1, <2>5, Undisturbed
<1>3. ASSUME NEW called \in Readings, ChangeState(j, state, called)
      PROVE  TaskTypes' /\ \A k \in Job : HistoryStep(k)
  <2> DEFINE row == Dated(job[j], state, called)
  <2>1. /\ Present(j) /\ job[j].state \notin Terminal /\ Writable(j, state)
        /\ AppendEvent(j, state, row) /\ used' = used
    BY <1>3 DEF ChangeState
  <2>2. job[j] \in Columns /\ job[j].revision <= MaxEvents
    BY <2>1, RowOf
  <2>3. row \in Columns /\ row.revision = job[j].revision /\ row.retention \in 1 .. Ttl
    BY <2>2, DatedColumns
  <2>4. state \in Active => job[j].revision < MaxEvents
    BY <2>1 DEF Writable, Active, Terminal
  <2> HIDE DEF row
  <2>5. QED
    BY <2>1, <2>2, <2>3, <2>4, Appended DEF Registered
<1>4. ASSUME AppendProgress(j, state)
      PROVE  TaskTypes' /\ \A k \in Job : HistoryStep(k)
  <2>1. /\ Present(j) /\ job[j].state \notin Terminal /\ Writable(j, state)
        /\ AppendEvent(j, state, job[j]) /\ used' = used
    BY <1>4 DEF AppendProgress
  <2>2. job[j] \in Columns /\ job[j] \in Row /\ job[j].revision <= MaxEvents
    BY <2>1, RowOf
  <2>3. job[j].retention \in 1 .. Ttl
    BY <2>2 DEF Row
  <2>4. state \in Active => job[j].revision < MaxEvents
    BY <2>1 DEF Writable, Active, Terminal
  <2>5. QED
    BY <2>1, <2>2, <2>3, <2>4, Appended DEF Registered
<1>5. QED
  BY <1>1, <1>2, <1>3, <1>4 DEF RegisterState

\* So does a cancellation; a renewed lease writes nothing.
LEMMA CancellationWrites ==
  ASSUME clock \in 1 .. MaxClock, TaskTypes, Registered, NEW j \in Job, Cancel(j), used' = used
  PROVE  TaskTypes' /\ \A k \in Job : HistoryStep(k)
<1>1. PICK now \in Readings : /\ Present(j) /\ job[j].state \notin Terminal
                              /\ AppendEvent(j, "cancelled", Cancelled(j, now))
  BY DEF Cancel
<1>2. job[j] \in Row /\ job[j].revision <= MaxEvents
  BY <1>1, RowOf
<1>3. /\ Cancelled(j, now) \in Columns /\ Cancelled(j, now).revision = job[j].revision
      /\ Cancelled(j, now).retention \in 1 .. Ttl
  BY <1>2, EndedColumns DEF Cancelled
<1>4. "cancelled" \in State /\ "cancelled" \notin Active
  BY DEF State, Terminal, Active
<1>5. QED
  BY <1>1, <1>2, <1>3, <1>4, Appended DEF Registered

\* A renewed lease writes nothing to the history of its task.
LEMMA RenewalWritesNothing ==
  ASSUME clock \in 1 .. MaxClock, TaskTypes, NEW j \in Job, RenewWorkerLease(j)
  PROVE  TaskTypes' /\ \A k \in Job : HistoryStep(k)
<1>1. PICK now \in Readings, seconds \in 1 .. LeaseSeconds :
        /\ Present(j) /\ job' = [job EXCEPT ![j].lease = now + seconds]
        /\ UNCHANGED <<events, log>>
  BY DEF RenewWorkerLease
<1>2. now + seconds \in Time
  BY Instants
<1>3. job[j] \in Row
  BY <1>1, RowOf
<1>4. [job[j] EXCEPT !.lease = now + seconds] \in Row
  BY <1>2, <1>3 DEF Row
<1>5. /\ job' \in [Job -> Row \cup {NoRow}]
      /\ \A k \in Job : job'[k].state = job[k].state /\ job'[k].revision = job[k].revision
  BY <1>1, <1>3, <1>4 DEF TaskTypes, Row
<1>6. QED
  BY <1>1, <1>5, Undisturbed

\* A set of instants has an earliest one.
LEMMA EarliestInstant ==
  ASSUME NEW T, T \subseteq Nat, T # {}
  PROVE  \E x \in T : \A y \in T : x <= y
<1>1. PICK x \in T : \A y \in T : ~ (<<y, x>> \in OpToRel(<, Nat))
  BY NatLessThanWellFounded, WFMin
<1>2. \A y \in T : ~ (y < x)
  BY <1>1 DEF OpToRel
<1>3. QED
  BY <1>2

\* So the common expiry of a task, its artifact and their capabilities is one of them.
LEMMA CommonIsEarliest ==
  ASSUME clock \in 1 .. MaxClock, job \in [Job -> Row \cup {NoRow}],
         caps \in [Token -> Time \cup {NotIssued}],
         NEW j \in Job, NEW a \in Artifact, NEW proposed \in Time
  PROVE  /\ CommonExpiry(j, a, proposed) \in Time
         /\ CommonExpiry(j, a, proposed) <= proposed
         /\ CommonExpiry(j, a, proposed) <= job[j].retain
         /\ \A t \in LinkCapabilities(j, a) : CommonExpiry(j, a, proposed) <= caps[t]
<1> DEFINE T == {proposed, job[j].retain} \cup {caps[t] : t \in LinkCapabilities(j, a)}
           Common(x) == /\ x <= proposed /\ x <= job[j].retain
                        /\ \A t \in LinkCapabilities(j, a) : x <= caps[t]
<1>1. job[j].retain \in Time
  BY Rows DEF Columns
<1>2. \A t \in LinkCapabilities(j, a) : caps[t] \in Time
  BY Limits DEF LinkCapabilities, Grants, Live, NotIssued
<1>3. T \subseteq Time /\ Time \subseteq Nat
  BY <1>1, <1>2 DEF Time
<1>4. PICK x \in T : \A y \in T : x <= y
  BY <1>3, EarliestInstant
<1>5. Common(x)
  BY <1>4
<1>6. CommonExpiry(j, a, proposed) = CHOOSE y \in T : Common(y)
  BY DEF CommonExpiry
<1> HIDE DEF T, Common
<1>7. CommonExpiry(j, a, proposed) \in T /\ Common(CommonExpiry(j, a, proposed))
  BY <1>4, <1>5, <1>6, Zenon
<1>8. QED
  BY <1>3, <1>7 DEF Common

\* Linking an artifact writes nothing to the task, though it ends sooner.
LEMMA LinkingWritesNothing ==
  ASSUME clock \in 1 .. MaxClock, TaskTypes, caps \in [Token -> Time \cup {NotIssued}],
         NEW j \in Job, NEW a \in Artifact, NEW f \in File, RegisterJobArtifact(j, a, f)
  PROVE  TaskTypes' /\ \A k \in Job : HistoryStep(k)
<1>1. PICK called \in Readings :
        /\ job[j].state = "completed"
        /\ job' = [job EXCEPT ![j].retain = LinkedUntil(j, CommonExpiry(j, a, Deadline(called)))]
        /\ UNCHANGED <<events, log>>
  BY DEF RegisterJobArtifact, StoreEntry
<1> DEFINE until == LinkedUntil(j, CommonExpiry(j, a, Deadline(called)))
<1>2. job[j] \in Row
  BY <1>1, RowOf DEF State, Terminal
<1>3. Deadline(called) \in Time
  BY Instants
<1>4. until \in Time
  BY <1>2, <1>3, CommonIsEarliest DEF LinkedUntil, Smaller, TaskTypes, Row
<1> HIDE DEF until
<1>5. [job[j] EXCEPT !.retain = until] \in Row
  BY <1>2, <1>4 DEF Row
<1>6. /\ job' \in [Job -> Row \cup {NoRow}]
      /\ \A k \in Job : job'[k].state = job[k].state /\ job'[k].revision = job[k].revision
  BY <1>1, <1>2, <1>5 DEF TaskTypes, Row, until
<1>7. QED
  BY <1>1, <1>6, Undisturbed

\* The row of a task that fails by its expiry.
LEMMA FailedRows ==
  ASSUME clock \in 1 .. MaxClock, TaskTypes, NEW j \in Job, job[j].state \in Active,
         NEW now \in Readings
  PROVE  /\ FailedRow(j, now) \in Row /\ FailedRow(j, now).state = "failed"
         /\ FailedRow(j, now).revision = job[j].revision + 1
<1>1. job[j] \in Row /\ job[j].revision <= MaxEvents
  BY RowOf DEF State, Active, Terminal
<1>2. job[j].revision + 1 \in Revision \ {0}
  BY <1>1, Limits DEF Row, Revision
<1>3. job[j].retention \in 1 .. Ttl
  BY <1>1 DEF Row
<1>4. now + job[j].retention \in Time /\ 0 \in Time
  BY <1>3, Instants
<1>5. "failed" \in State
  BY DEF State, Terminal
<1>6. QED
  BY <1>1, <1>2, <1>4, <1>5 DEF FailedRow, Row

\* A pass ends what has run out, and retires what has ended.
LEMMA ExpiryWrites ==
  ASSUME clock \in 1 .. MaxClock, TaskTypes, Registered, NEW p \in Pass, NEW now \in Readings,
         ReconcileAt(p, now)
  PROVE  TaskTypes' /\ \A k \in Job : HistoryStep(k)
<1>1. PICK selected \in Earliest(Selectable(now), JobDeadline, Batch),
           apart \in Earliest(SelectableEntries(now), EntryDeadline, Batch) :
        Expire(selected, apart, Room, now)
  BY Zenon DEF ReconcileAt
<1>2. selected \subseteq Job /\ \A j \in selected : Present(j)
  BY DEF Earliest, Selectable, Due
<1> DEFINE failing == Failing(selected)
           over == {j \in selected : job[j].state \in Terminal /\ job[j].retain <= now}
           filed == {j \in over : Linked(j) # {}}
<1>3. PICK ending \in Earliest(filed, JobDeadline, Room) :
        /\ job' = [j \in Job |-> IF j \in failing THEN FailedRow(j, now)
                                 ELSE IF j \in ending \cup (over \ filed) THEN NoRow ELSE job[j]]
        /\ events' = [j \in Job |-> IF j \in failing THEN Written(j, "failed")
                                    ELSE IF j \in ending \cup (over \ filed) THEN {}
                                    ELSE events[j]]
        /\ log' = [j \in Job |-> IF j \in failing THEN Append(log[j], "failed")
                                 ELSE IF j \in ending \cup (over \ filed) THEN <<>> ELSE log[j]]
  BY <1>1, Zenon DEF Expire
<1> DEFINE retired == ending \cup (over \ filed)
<1>4. ending \subseteq over
  BY DEF Earliest
<1>5. \A j \in failing : j \in Job /\ Present(j) /\ job[j].state \in Active
  BY <1>2 DEF Failing
<1>6. \A j \in retired : j \in Job /\ job[j].state \in Terminal /\ j \notin failing
  BY <1>2, <1>4 DEF Failing, Active, Terminal
<1>7. \A j \in failing : /\ FailedRow(j, now) \in Row /\ FailedRow(j, now).state = "failed"
                         /\ FailedRow(j, now).revision = job[j].revision + 1
                         /\ Written(j, "failed") \subseteq Event /\ "failed" \in State
  BY <1>5, FailedRows, WrittenEvents, RowOf DEF State, Active, Terminal
<1>8. used' = used
  BY DEF ReconcileAt
<1> HIDE DEF failing, over, filed, retired
<1>9. \A j \in Job : /\ j \in failing => Grown(j, "failed")
                     /\ j \in retired => Retired(j)
                     /\ j \notin failing \cup retired => Same(j)
  <2> SUFFICES ASSUME NEW j \in Job
      PROVE  /\ j \in failing => Grown(j, "failed")
             /\ j \in retired => Retired(j)
             /\ j \notin failing \cup retired => Same(j)
    OBVIOUS
  <2>1. ASSUME j \in failing PROVE Grown(j, "failed")
    BY <1>3, <1>5, <1>7, <1>8, <2>1 DEF Grown, Registered, Active, Terminal
  <2>2. ASSUME j \in retired PROVE Retired(j)
    BY <1>3, <1>6, <2>2 DEF Retired, retired
  <2>3. ASSUME j \notin failing \cup retired PROVE Same(j)
    BY <1>3, <2>3 DEF Same, retired
  <2>4. QED
    BY <2>1, <2>2, <2>3
<1>10. TaskTypes'
  <2>1. job' \in [Job -> Row \cup {NoRow}]
    BY <1>3, <1>7 DEF TaskTypes
  <2>2. \A j \in Job : job'[j].state \in Active => job'[j].revision <= MaxEvents
    <3>1. \A j \in Job : j \in failing => job'[j].state \notin Active
      BY <1>9 DEF Grown, Active
    <3>2. NoRow.state \notin Active
      BY DEF NoRow, Active
    <3>3. QED
      BY <1>9, <3>1, <3>2 DEF Retired, Same, TaskTypes
  <2>3. events' \in [Job -> SUBSET Event]
    BY <1>3, <1>7 DEF TaskTypes
  <2>4. log' \in [Job -> Seq(State)]
    BY <1>3, <1>7 DEF TaskTypes
  <2>5. QED
    BY <2>1, <2>2, <2>3, <2>4 DEF TaskTypes
<1>11. QED
  BY <1>7, <1>9, <1>10 DEF HistoryStep

\* The steps that are not about tasks leave them alone.
Untouched == UNCHANGED <<job, events, log>>

\* Storage without a task, tokens, the outbox, readers, names, the clock and a crash are
\* such steps.
LEMMA OtherSteps ==
  /\ \A a \in Artifact, f \in File : RegisterArtifact(a, f) => Untouched
  /\ \A t \in Token : Issue(t) => Untouched
  /\ \A p \in Pass : ReadOutbox(p) \/ RemoveFile(p) \/ RecordRemoval(p) => Untouched
  /\ \A s \in Subscriber : JobEvents(s) \/ JobStatus(s) \/ NoAnswer(s) => Untouched
  /\ \A s \in Subscriber, scope \in {"status", "events", "cancel"} : Authorize(s, scope) => Untouched
  /\ \A f \in File : Rename(f) => Untouched
  /\ Tick \/ Crash \/ UNCHANGED vars => Untouched
<1>1. \A a \in Artifact, f \in File : RegisterArtifact(a, f) => Untouched
  BY DEF RegisterArtifact, StoreEntry, Untouched
<1>2. \A t \in Token : Issue(t) => Untouched
  BY DEF Issue, Untouched
<1>3. \A p \in Pass : ReadOutbox(p) \/ RemoveFile(p) \/ RecordRemoval(p) => Untouched
  BY DEF ReadOutbox, RemoveFile, RecordRemoval, PassFrame, Untouched
<1>4. \A s \in Subscriber : JobEvents(s) \/ JobStatus(s) \/ NoAnswer(s) => Untouched
  BY DEF JobEvents, JobStatus, NoAnswer, Answered, Untouched
<1>5. \A s \in Subscriber, scope \in {"status", "events", "cancel"} :
        Authorize(s, scope) => Untouched
  BY DEF Authorize, Untouched
<1>6. \A f \in File : Rename(f) => Untouched
  BY DEF Rename, Untouched
<1>7. Tick \/ Crash \/ UNCHANGED vars => Untouched
  BY DEF Tick, Crash, vars, Untouched
<1>8. QED
  BY <1>1, <1>2, <1>3, <1>4, <1>5, <1>6, <1>7

\* Every step leaves the history of a task, adds a state to it, or retires it.
LEMMA TaskSteps ==
  ASSUME Types, Registered, [Next]_vars
  PROVE  TaskTypes' /\ \A k \in Job : HistoryStep(k)
<1> DEFINE Goal == TaskTypes' /\ \A k \in Job : HistoryStep(k)
<1>0. clock \in 1 .. MaxClock /\ TaskTypes /\ caps \in [Token -> Time \cup {NotIssued}]
  BY DEF Types, OtherTypes
<1>1. ASSUME NEW j \in Job, NEW state \in State, RegisterState(j, state) \/ AppendProgress(j, state)
      PROVE  Goal
  BY <1>0, <1>1, WritersWrite
<1>2. ASSUME NEW j \in Job, RenewWorkerLease(j) PROVE Goal
  BY <1>0, <1>2, RenewalWritesNothing
<1>3. ASSUME NEW j \in Job, NEW a \in Artifact, NEW f \in File, RegisterJobArtifact(j, a, f)
      PROVE  Goal
  BY <1>0, <1>3, LinkingWritesNothing
<1>4. ASSUME NEW p \in Pass, ReconcileExpired(p) PROVE Goal
  BY <1>0, <1>4, ExpiryWrites DEF ReconcileExpired
<1>5. ASSUME NEW s \in Subscriber, CancelJob(s) PROVE Goal
  <2>1. JobOf(s) \in Job /\ Cancel(JobOf(s)) /\ used' = used
    BY <1>5, SubscribersFollowJobs DEF CancelJob, ReaderFrame, JobOf
  <2>2. QED
    BY <1>0, <2>1, CancellationWrites
<1>6. ASSUME Untouched PROVE Goal
  BY <1>0, <1>6, Undisturbed DEF Untouched, TaskTypes
<1> HIDE DEF Goal
<1>7. Goal
  BY <1>1, <1>2, <1>3, <1>4, <1>5, <1>6, OtherSteps, Zenon DEF Next
<1>8. QED
  BY <1>7 DEF Goal

-----------------------------------------------------------------------------
(* The history of a task and its events. *)

\* The revisions that are kept: the last Retained of the task.
Newest(j, r) == r \in 1 .. job[j].revision /\ job[j].revision - r < Retained

\* The rows of a task agree with what it was; the newest of them are there.
History(j) ==
  /\ Len(log[j]) = job[j].revision
  /\ Present(j) => log[j][job[j].revision] = job[j].state
  /\ \A e \in events[j] : /\ e.revision <= job[j].revision
                          /\ e.state = log[j][e.revision]
                          /\ e.completion <=> e.state = "completed"
  /\ \A e, o \in events[j] : e.revision = o.revision => e = o
  /\ \A r \in Nat : Newest(j, r) => \E e \in events[j] : e.revision = r

\* Sets of events with distinct revisions are no larger than the range of these.
LEMMA FewEvents ==
  ASSUME NEW S, \A e \in S : e.revision \in Nat, NEW a \in Nat, NEW b \in Nat, a <= b,
         \A e \in S : a < e.revision /\ e.revision <= b,
         \A e, o \in S : e.revision = o.revision => e = o
  PROVE  /\ IsFiniteSet(S) /\ Cardinality(S) \in Nat /\ Cardinality(S) <= b - a
         /\ (\A r \in a + 1 .. b : \E e \in S : e.revision = r) => Cardinality(S) = b - a
<1> DEFINE f == [e \in S |-> e.revision]
<1>2. f \in [S -> a + 1 .. b]
  OBVIOUS
<1>3. f \in Injection(S, a + 1 .. b)
  BY <1>2 DEF Injection, IsInjective
<1>4. IsFiniteSet(a + 1 .. b) /\ Cardinality(a + 1 .. b) = b - a
  <2>1. a + 1 \in Int /\ b \in Int
    OBVIOUS
  <2>2. /\ IsFiniteSet(a + 1 .. b)
        /\ Cardinality(a + 1 .. b) = IF a + 1 > b THEN 0 ELSE b - (a + 1) + 1
    BY <2>1, FS_Interval
  <2>3. QED
    BY <2>2
<1>5. IsFiniteSet(S) /\ Cardinality(S) <= b - a
  BY <1>3, <1>4, FS_Injection
<1>6. ASSUME \A r \in a + 1 .. b : \E e \in S : e.revision = r
      PROVE  Cardinality(S) = b - a
  <2>1. f \in Surjection(S, a + 1 .. b)
    BY <1>2, <1>6 DEF Surjection
  <2>2. QED
    BY <1>3, <1>4, <2>1, FS_Injection
<1>7. QED
  BY <1>5, <1>6, FS_CardinalityType

\* What is written keeps the newest events.
LEMMA GrownHistory ==
  ASSUME TaskTypes, NEW j \in Job, History(j), NEW state \in State, Grown(j, state)
  PROVE  History(j)'
<1> DEFINE rev == job[j].revision
           new == [revision |-> rev + 1, state |-> state, completion |-> state = "completed"]
           W == events[j] \cup {new}
           Later(e) == {o \in {x \in W : ~x.completion} : o.revision > e.revision}
<1>0. /\ rev \in Nat /\ job'[j].revision = rev + 1 /\ job'[j].state = state
      /\ log[j] \in Seq(State) /\ Len(log[j]) = rev
      /\ log'[j] = Append(log[j], state) /\ events'[j] = Written(j, state)
  BY RowOf DEF Grown, History, TaskTypes
<1>1. /\ Len(log'[j]) = rev + 1 /\ log'[j][rev + 1] = state
      /\ \A r \in 1 .. rev : log'[j][r] = log[j][r]
  BY <1>0
<1>2. events[j] \subseteq Event
  BY DEF TaskTypes
<1>3. /\ \A e \in events[j] : e.revision \in 1 .. rev
      /\ new.revision = rev + 1 /\ new.state = state /\ (new.completion <=> state = "completed")
  <2>1. \A e \in events[j] : e.revision \in 1 .. rev
    BY <1>0, <1>2 DEF History, Event, Revision
  <2>2. /\ new.revision = rev + 1 /\ new.state = state
        /\ new.completion = (state = "completed")
    OBVIOUS
  <2>3. QED
    BY <2>1, <2>2
<1>4. /\ \A e \in W : /\ e.revision \in 1 .. rev + 1
                      /\ e.state = log'[j][e.revision]
                      /\ e.completion <=> e.state = "completed"
      /\ \A e, o \in W : e.revision = o.revision => e = o
  <2>1. ASSUME NEW e \in W
        PROVE  /\ e.revision \in 1 .. rev + 1
               /\ e.state = log'[j][e.revision]
               /\ e.completion <=> e.state = "completed"
    <3>1. CASE e \in events[j]
      <4>1. /\ e.revision \in 1 .. rev /\ e.state = log[j][e.revision]
            /\ e.completion <=> e.state = "completed"
        BY <1>3, <3>1 DEF History
      <4>2. QED
        BY <1>0, <1>1, <4>1
    <3>2. CASE e = new
      <4>1. e.revision = rev + 1 /\ e.state = state /\ (e.completion <=> state = "completed")
        BY <1>3, <3>2
      <4> HIDE DEF new
      <4>2. QED
        BY <1>0, <1>1, <4>1
    <3>3. QED
      BY <3>1, <3>2
  <2>2. ASSUME NEW e \in W, NEW o \in W, e.revision = o.revision PROVE e = o
    <3>1. CASE e \in events[j] /\ o \in events[j]
      BY <2>2, <3>1 DEF History
    <3>2. CASE e = new \/ o = new
      BY <1>0, <1>3, <2>2, <3>2
    <3>3. QED
      BY <3>1, <3>2
  <2>3. QED
    BY <2>1, <2>2
<1>5. \A e \in events'[j] : e \in W
  BY <1>0 DEF Written, Pruned
<1>6. \A e \in W : e.completion \/ Cardinality(Later(e)) < Retained => e \in events'[j]
  BY <1>0 DEF Written, Pruned
<1>7. W \subseteq Event \cup {new}
  BY <1>2
<1> HIDE DEF W, new
<1>8. ASSUME NEW r \in Nat, Newest(j, r)' PROVE \E e \in events'[j] : e.revision = r
  <2>1. r \in 1 .. rev + 1 /\ rev + 1 - r < Retained
    BY <1>0, <1>8 DEF Newest
  <2>2. PICK e \in W : e.revision = r
    <3>1. CASE r = rev + 1
      BY <1>3, <3>1 DEF W
    <3>2. CASE r # rev + 1
      <4>1. Newest(j, r)
        BY <1>0, <2>1, <3>2, Limits DEF Newest
      <4>2. QED
        BY <4>1 DEF History, W
    <3>3. QED
      BY <3>1, <3>2
  <2> DEFINE S == Later(e)
  <2>3. \A o \in S : o.revision \in Nat /\ r < o.revision /\ o.revision <= rev + 1
    BY <1>4, <2>2
  <2>4. \A o, p \in S : o.revision = p.revision => o = p
    BY <1>4
  <2>5. r \in Nat /\ rev + 1 \in Nat /\ r <= rev + 1
    BY <1>0, <2>1
  <2> DEFINE b == rev + 1
  <2> HIDE DEF S, b
  <2>6. Cardinality(S) \in Nat /\ Cardinality(S) <= b - r
    <3>1. b \in Nat /\ r <= b /\ \A o \in S : o.revision \in Nat /\ r < o.revision /\ o.revision <= b
      BY <2>3, <2>5 DEF b
    <3>2. QED
      BY <2>4, <3>1, FewEvents
  <2>7. Cardinality(S) < Retained
    BY <1>0, <2>1, <2>5, <2>6, Limits DEF b
  <2>8. QED
    BY <1>6, <2>2, <2>7 DEF S
<1>9. QED
  BY <1>0, <1>1, <1>4, <1>5, <1>8 DEF History

\* So every step keeps the history of every task.
LEMMA HistorySteps ==
  ASSUME TaskTypes, TaskTypes', NEW j \in Job, History(j), HistoryStep(j)
  PROVE  History(j)'
<1>1. CASE Same(j)
  <2>1. Present(j)' <=> Present(j)
    BY <1>1, Rows DEF TaskTypes, Present, Same
  <2>2. QED
    BY <1>1, <2>1 DEF Same, History, Newest
<1>2. ASSUME NEW state \in State, Grown(j, state) PROVE History(j)'
  BY <1>2, GrownHistory
<1>3. CASE Retired(j)
  <2>1. /\ job'[j] = NoRow /\ events'[j] = {} /\ log'[j] = <<>> /\ ~Present(j)'
        /\ job'[j].revision = 0
    BY <1>3 DEF Retired, Present, NoRow
  <2>2. \A r \in Nat : ~Newest(j, r)'
    BY <2>1 DEF Newest
  <2>3. QED
    BY <2>1, <2>2 DEF History
<1>4. QED
  BY <1>1, <1>2, <1>3 DEF HistoryStep

-----------------------------------------------------------------------------
(* Every step keeps the types, and forgets no id. *)

\* What these steps keep: types of files and readers, and the ids in use.
OthersKept == FileTypes' /\ OtherTypes' /\ used \subseteq used'

\* The writers of tasks and readers of their events touch no file.
LEMMA WritersKeep ==
  ASSUME Types, NEW j \in Job,
         (\E state \in State : RegisterState(j, state) \/ AppendProgress(j, state))
           \/ RenewWorkerLease(j)
  PROVE  OthersKept
<1>1. Frame /\ used' \in {used, used \cup {j}}
  BY DEF RegisterState, CreateJob, RepeatState, ChangeState, AppendProgress, RenewWorkerLease
<1>2. QED
  BY <1>1 DEF Frame, Types, FileTypes, OtherTypes, OthersKept

\* A stored artifact has an entry.
LEMMA Entries ==
  ASSUME FileTypes, NEW a \in Artifact
  PROVE  /\ Stored(a) => /\ artifact[a] \in Entry /\ artifact[a].job \in Job \cup {NoJob}
                         /\ artifact[a].file \in File /\ artifact[a].expires \in Time
         /\ ~Stored(a) => artifact[a].file = NoFile
         /\ Stored(a) <=> artifact[a].file \in File
BY NamesAreApart DEF FileTypes, Stored, Entry, NoEntry

\* An artifact that is stored, with or without a task.
LEMMA StorageKeeps ==
  ASSUME Types, NEW a \in Artifact, NEW f \in File,
         RegisterArtifact(a, f) \/ \E j \in Job : RegisterJobArtifact(j, a, f)
  PROVE  OthersKept
<1>1. ASSUME RegisterArtifact(a, f) PROVE OthersKept
  <2>1. PICK called \in Readings :
          /\ StoreEntry(a, [job |-> NoJob, file |-> f, expires |-> Deadline(called)])
          /\ UNCHANGED caps
    BY <1>1 DEF RegisterArtifact
  <2> DEFINE entry == [job |-> NoJob, file |-> f, expires |-> Deadline(called)]
  <2>2. entry \in Entry /\ entry.file = f
    BY Instants DEF Entry, Types, OtherTypes
  <2> HIDE DEF entry
  <2>3. QED
    BY <2>1, <2>2 DEF entry, StoreEntry, Types, FileTypes, OtherTypes, OthersKept
<1>2. ASSUME NEW j \in Job, RegisterJobArtifact(j, a, f) PROVE OthersKept
  <2>1. PICK called \in Readings :
          /\ StoreEntry(a, [job |-> j, file |-> f, expires |-> CommonExpiry(j, a, Deadline(called))])
          /\ caps' = Shortened(j, a, CommonExpiry(j, a, Deadline(called)))
    BY <1>2 DEF RegisterJobArtifact
  <2> DEFINE common == CommonExpiry(j, a, Deadline(called))
             entry == [job |-> j, file |-> f, expires |-> common]
  <2>2. common \in Time
    BY Instants, CommonIsEarliest DEF Types, TaskTypes, OtherTypes
  <2> HIDE DEF common
  <2>3. entry \in Entry /\ entry.file = f
    BY <2>2 DEF Entry
  <2>4. caps' \in [Token -> Time \cup {NotIssued}]
    <3>1. caps' = [t \in Token |-> IF t \in LinkCapabilities(j, a) THEN Smaller(caps[t], common)
                                   ELSE caps[t]]
      BY <2>1 DEF Shortened, common
    <3>2. \A t \in Token : Smaller(caps[t], common) \in Time \cup {NotIssued}
      BY <2>2 DEF Smaller, Types, OtherTypes
    <3>3. QED
      BY <3>1, <3>2 DEF Types, OtherTypes
  <2>5. StoreEntry(a, entry)
    BY <2>1 DEF common
  <2> HIDE DEF entry
  <2>6. QED
    BY <2>3, <2>4, <2>5 DEF StoreEntry, Types, FileTypes, OtherTypes, OthersKept
<1>3. QED
  BY <1>1, <1>2

\* What a pass does to the artifacts and the outbox.
Ends(entries, subjects) ==
  /\ \A a \in entries : a \in Artifact /\ Stored(a)
  /\ artifact' = [a \in Artifact |-> IF a \in entries THEN NoEntry ELSE artifact[a]]
  /\ caps' = Revoked(subjects)
  /\ outbox' = Queued(entries)
  /\ \A j \in Job : job'[j] # job[j] => Linked(j) \subseteq entries \/ job[j].state \in Active

\* Every expiry pass (reconcile_expired) is such a step.
LEMMA ExpiryEndsEntries ==
  ASSUME Types, NEW p \in Pass, NEW now \in Readings, ReconcileAt(p, now)
  PROVE  \E entries, subjects : Ends(entries, subjects)
<1>1. PICK selected \in Earliest(Selectable(now), JobDeadline, Batch),
           apart \in Earliest(SelectableEntries(now), EntryDeadline, Batch) :
        Expire(selected, apart, Room, now)
  BY Zenon DEF ReconcileAt
<1> DEFINE failing == Failing(selected)
           over == {j \in selected : job[j].state \in Terminal /\ job[j].retain <= now}
           filed == {j \in over : Linked(j) # {}}
<1> DEFINE Effect(retired, entries) ==
             /\ job' = [j \in Job |-> IF j \in failing THEN FailedRow(j, now)
                                     ELSE IF j \in retired THEN NoRow ELSE job[j]]
             /\ artifact' = [a \in Artifact |-> IF a \in entries THEN NoEntry ELSE artifact[a]]
             /\ caps' = Revoked(retired \cup entries)
             /\ outbox' = Queued(entries)
<1>2. PICK ending \in Earliest(filed, JobDeadline, Room) :
        \E alone \in Earliest(apart, EntryDeadline, Room - Cardinality(ending)) :
          Effect(ending \cup (over \ filed),
                 alone \cup UNION {Linked(j) : j \in ending \cup (over \ filed)})
  BY <1>1, Zenon DEF Expire
<1>3. PICK alone \in Earliest(apart, EntryDeadline, Room - Cardinality(ending)) :
        Effect(ending \cup (over \ filed),
               alone \cup UNION {Linked(j) : j \in ending \cup (over \ filed)})
  BY <1>2
<1> DEFINE retired == ending \cup (over \ filed)
           entries == alone \cup UNION {Linked(j) : j \in retired}
<1>4. apart \subseteq Standalone
  BY DEF Earliest, SelectableEntries
<1>5. alone \subseteq apart
  BY DEF Earliest
<1>6. \A a \in entries : a \in Artifact /\ Stored(a)
  BY <1>4, <1>5 DEF Standalone, Linked
<1>7. \A j \in failing : job[j].state \in Active
  BY DEF Failing
<1>8. \A j \in Job : job'[j] # job[j] => Linked(j) \subseteq entries \/ job[j].state \in Active
  BY <1>3, <1>7
<1>9. Ends(entries, retired \cup entries)
  BY <1>3, <1>6, <1>8 DEF Ends
<1>10. QED
  BY <1>9

\* A pass that expires what has run out.
LEMMA ExpiryKeeps ==
  ASSUME Types, NEW p \in Pass, NEW now \in Readings, ReconcileAt(p, now)
  PROVE  OthersKept
<1>1. PICK entries, subjects : Ends(entries, subjects)
  BY ExpiryEndsEntries
<1>2. artifact' \in [Artifact -> Entry \cup {NoEntry}]
  BY <1>1 DEF Ends, Types, FileTypes
<1>3. caps' \in [Token -> Time \cup {NotIssued}]
  <2>1. 0 \in Time
    BY Limits DEF Time
  <2>2. caps' = [t \in Token |-> IF Subject[t] \in subjects /\ caps[t] # NotIssued THEN 0
                                 ELSE caps[t]]
    BY <1>1 DEF Ends, Revoked
  <2>3. QED
    BY <2>1, <2>2 DEF Types, OtherTypes
<1>4. outbox' \subseteq Intent
  <2>1. \A a \in entries :
          [job |-> artifact[a].job, artifact |-> a, file |-> artifact[a].file, cursor |-> 0,
           again |-> FALSE] \in Intent
    BY <1>1, Entries, Limits DEF Ends, Intent, Types
  <2>2. \A a \in entries : a \in Artifact
    BY <1>1 DEF Ends
  <2>3. \A i \in outbox' : i \in outbox \/ i \in Intended([a \in Artifact |-> artifact[a].job], entries)
    BY <1>1 DEF Ends, Queued
  <2>4. \A i \in Intended([a \in Artifact |-> artifact[a].job], entries) : i \in Intent
    BY <2>1, <2>2 DEF Intended
  <2>5. QED
    BY <2>3, <2>4 DEF Types, FileTypes
<1>5. /\ pass' = [pass EXCEPT ![p].step = "expired"]
      /\ UNCHANGED <<clock, place, reader, faults, used>>
  BY DEF ReconcileAt
<1>6. /\ pass' \in [Pass -> PassState]
      /\ pass'[p].step = "expired" /\ \A q \in Pass : q # p => pass'[q] = pass[q]
  BY <1>5 DEF Types, FileTypes, PassState
<1>7. QED
  BY <1>2, <1>3, <1>4, <1>5, <1>6 DEF Types, FileTypes, OtherTypes, OthersKept

\* What a look for a file may say.
LEMMA ScanSays ==
  \A i : /\ Scan(i) \in {"removed", "more", "end", "absent"}
         /\ Scan(i) = "removed" <=> Found(i)
         /\ Scan(i) = "more" => i.cursor + 1 < Pages
BY DEF Scan

\* Rescheduling an intent changes no other column.
SameIntent(i, o) == i.job = o.job /\ i.artifact = o.artifact /\ i.file = o.file

\* So rescheduling adds and loses no intent.
LEMMA Rescheduling ==
  ASSUME outbox \subseteq Intent, NEW i, NEW c \in 0 .. Pages - 1, NEW b \in BOOLEAN
  PROVE  /\ \A o \in Rescheduled(i, c, b) : o \in Intent /\ \E k \in outbox : SameIntent(k, o)
         /\ \A k \in outbox : \E o \in Rescheduled(i, c, b) : SameIntent(k, o)
<1> DEFINE put(k) == IF k.job = i.job /\ k.artifact = i.artifact
                     THEN [k EXCEPT !.cursor = c, !.again = b] ELSE k
<1>1. \A k \in outbox : put(k) \in Intent /\ SameIntent(k, put(k))
  BY DEF Intent, SameIntent
<1>2. Rescheduled(i, c, b) = {put(k) : k \in outbox}
  BY DEF Rescheduled
<1> HIDE DEF put
<1>3. QED
  BY <1>1, <1>2

\* A pass that works on the outbox.
LEMMA RemovalKeeps ==
  ASSUME Types, NEW p \in Pass, ReadOutbox(p) \/ RemoveFile(p) \/ RecordRemoval(p)
  PROVE  OthersKept
<1>0. UNCHANGED <<clock, artifact, caps, reader, used>>
  BY DEF ReadOutbox, RemoveFile, RecordRemoval, PassFrame
<1>1. Idle \in PassState /\ Idle.step = "idle"
  BY DEF Idle, PassState
<1>2. \A due \in SUBSET Intent :
        /\ [Idle EXCEPT !.step = "removing", !.todo = due] \in PassState
        /\ [Idle EXCEPT !.step = "removing", !.todo = due].step = "removing"
  BY DEF Idle, PassState
<1>3. pass[p] \in PassState /\ pass[p].todo \subseteq Intent /\ pass[p].row \in Intent \cup {NoIntent}
  BY DEF Types, FileTypes, PassState
<1>4. ASSUME ReadOutbox(p) PROVE OthersKept
  <2>1. PICK due \in SUBSET outbox :
          pass' = [pass EXCEPT ![p] = IF due = {} THEN Idle
                                      ELSE [Idle EXCEPT !.step = "removing", !.todo = due]]
    BY <1>4 DEF ReadOutbox
  <2> DEFINE next == IF due = {} THEN Idle ELSE [Idle EXCEPT !.step = "removing", !.todo = due]
  <2>2. next \in PassState /\ next.step # "recording"
    BY <1>1, <1>2 DEF Types, FileTypes
  <2> HIDE DEF next
  <2>3. /\ pass' \in [Pass -> PassState]
        /\ pass'[p].step # "recording" /\ \A q \in Pass : q # p => pass'[q] = pass[q]
    BY <2>1, <2>2 DEF Types, FileTypes, next
  <2>4. UNCHANGED <<outbox, place, faults>>
    BY <1>4 DEF ReadOutbox
  <2>5. QED
    BY <1>0, <2>3, <2>4 DEF Types, FileTypes, OtherTypes, OthersKept
<1>5. ASSUME RemoveFile(p) PROVE OthersKept
  <2>1. PICK i \in pass[p].todo, outcome \in {"removed", "more", "end", "absent", "failed"} :
          /\ outcome \in {Scan(i), "failed"}
          /\ pass' = [pass EXCEPT ![p] = [step |-> "recording", todo |-> pass[p].todo \ {i},
                                          row |-> i, outcome |-> outcome]]
          /\ place' \in {place, [place EXCEPT ![i.file] = Absent]}
          /\ faults' = faults \/ (faults < MaxFaults /\ faults' = faults + 1)
          /\ UNCHANGED outbox
    BY <1>5, ScanSays DEF RemoveFile
  <2> DEFINE next == [step |-> "recording", todo |-> pass[p].todo \ {i}, row |-> i,
                      outcome |-> outcome]
  <2>2. i \in Intent
    BY <1>3
  <2>3. Scan(i) = "more" => i.cursor + 1 < Pages
    BY ScanSays
  <2>4. next \in PassState /\ next.row = i /\ next.outcome = outcome
    BY <1>3, <2>2, <2>3 DEF PassState
  <2> HIDE DEF next
  <2>5. /\ pass' \in [Pass -> PassState]
        /\ pass'[p] = next /\ \A q \in Pass : q # p => pass'[q] = pass[q]
    BY <2>1, <2>4 DEF Types, FileTypes, next
  <2>6. place' \in [File -> Absent .. OwnName]
    <3>1. Absent \in Absent .. OwnName
      BY Limits DEF Absent, OwnName
    <3>2. QED
      BY <2>1, <3>1 DEF Types, FileTypes
  <2>7. faults' \in 0 .. MaxFaults
    BY <2>1, Limits DEF Types, OtherTypes
  <2>8. QED
    BY <1>0, <2>1, <2>2, <2>3, <2>4, <2>5, <2>6, <2>7 DEF Types, FileTypes, OtherTypes, OthersKept
<1>6. ASSUME RecordRemoval(p) PROVE OthersKept
  <2> DEFINE next == IF pass[p].todo = {} THEN Idle
                     ELSE [Idle EXCEPT !.step = "removing", !.todo = pass[p].todo]
             i == pass[p].row
  <2>1. /\ pass[p].step = "recording" /\ outbox' = Recorded(i, pass[p].outcome)
        /\ pass' = [pass EXCEPT ![p] = next] /\ UNCHANGED <<place, faults>>
    BY <1>6 DEF RecordRemoval
  <2>2. next \in PassState /\ next.step # "recording"
    BY <1>1, <1>2, <1>3
  <2>3. i \in Intent /\ (pass[p].outcome = "more" => i.cursor + 1 < Pages)
    BY <2>1 DEF Types, FileTypes
  <2> HIDE DEF next, i
  <2>4. /\ pass' \in [Pass -> PassState]
        /\ pass'[p].step # "recording" /\ \A q \in Pass : q # p => pass'[q] = pass[q]
    BY <2>1, <2>2 DEF Types, FileTypes
  <2>5. \A c \in 0 .. Pages - 1, b \in BOOLEAN : Rescheduled(i, c, b) \subseteq Intent
    BY Rescheduling DEF Types, FileTypes
  <2>6. outbox' \subseteq Intent
    <3>0. i.cursor \in 0 .. Pages - 1 /\ i.again \in BOOLEAN /\ 0 \in 0 .. Pages - 1
      BY <2>3, Limits DEF Intent
    <3>1. CASE pass[p].outcome = "more"
      <4>1. i.cursor + 1 \in 0 .. Pages - 1 /\ i.again \in BOOLEAN
        BY <2>3, <3>0, <3>1, Limits
      <4>2. outbox' = Rescheduled(i, i.cursor + 1, i.again)
        BY <2>1, <3>1 DEF Recorded
      <4>3. QED
        BY <2>5, <4>1, <4>2
    <3>2. CASE pass[p].outcome \in {"end", "absent"}
      <4>1. \E b \in BOOLEAN : outbox' = Rescheduled(i, 0, b)
        BY <2>1, <3>0, <3>2 DEF Recorded
      <4>2. QED
        BY <2>5, <3>0, <4>1
    <3>3. CASE pass[p].outcome \notin {"more", "end", "absent"}
      <4>1. outbox' \subseteq outbox
        BY <2>1, <3>3 DEF Recorded
      <4>2. QED
        BY <4>1 DEF Types, FileTypes
    <3>4. QED
      BY <3>1, <3>2, <3>3
  <2>7. QED
    BY <1>0, <2>1, <2>4, <2>6 DEF Types, FileTypes, OtherTypes, OthersKept
<1>7. QED
  BY <1>4, <1>5, <1>6

\* A complete replay brings as many events as revisions, the last of them the present one.
LEMMA Replays ==
  ASSUME TaskTypes, NEW j \in Job, History(j), NEW last \in Nat, last <= job[j].revision,
         Complete(j, last)
  PROVE  /\ Cardinality(Missing(j, last)) = job[j].revision - last
         /\ Missing(j, last) = {} => last = job[j].revision
         /\ Missing(j, last) # {} =>
              /\ Present(j)
              /\ (CHOOSE e \in Missing(j, last) : e.revision = job[j].revision).state = job[j].state
<1> DEFINE M == Missing(j, last)
           rev == job[j].revision
<1>1. rev \in Nat /\ last <= rev
  BY RowOf
<1>2. {e.revision : e \in M} = last + 1 .. rev
  BY DEF Complete
<1>3. \A e, o \in M : e.revision = o.revision => e = o
  BY DEF Missing, History
<1>4. \A e \in M : e.state = log[j][e.revision]
  BY DEF Missing, History
<1> HIDE DEF M, rev
<1>5. \A e \in M : e.revision \in last + 1 .. rev
  BY <1>2
<1>6. \A r \in last + 1 .. rev : \E e \in M : e.revision = r
  BY <1>2
<1>7. Cardinality(M) = rev - last
  <2>1. \A e \in M : e.revision \in Nat /\ last < e.revision /\ e.revision <= rev
    BY <1>1, <1>5
  <2>2. QED
    BY <1>1, <1>3, <1>6, <2>1, FewEvents
<1>8. M = {} => last = rev
  BY <1>1, <1>6
<1>9. ASSUME M # {} PROVE Present(j) /\ (CHOOSE e \in M : e.revision = rev).state = job[j].state
  <2>1. rev \in last + 1 .. rev
    BY <1>1, <1>5, <1>9
  <2>2. \E e \in M : e.revision = rev
    BY <1>6, <2>1
  <2>3. Present(j)
    BY <1>1, <2>1, RowOf DEF rev
  <2>4. log[j][rev] = job[j].state
    BY <2>3 DEF History, rev
  <2>5. QED
    BY <1>4, <2>2, <2>3, <2>4
<1>10. QED
  BY <1>7, <1>8, <1>9 DEF M, rev

\* What a subscriber knows after an answer.
Answer(s, answer) ==
  LET j == JobOf(s) IN
  /\ answer.last = job[j].revision /\ answer.step = "idle"
  /\ answer \in ReaderState
  /\ reader[s].count = reader[s].last => answer.count = answer.last
  /\ \/ answer.view = job[j].state
     \/ answer.view = reader[s].view /\ reader[s].last = job[j].revision

\* JobEvents and JobStatus give such an answer.
LEMMA Answers ==
  ASSUME TaskTypes, reader \in [Subscriber -> ReaderState], \A j \in Job : History(j),
         NEW s \in Subscriber, JobEvents(s) \/ JobStatus(s)
  PROVE  /\ Present(JobOf(s)) /\ ReaderFrame /\ UNCHANGED <<job, events, log>>
         /\ \E answer : Answer(s, answer) /\ reader' = [reader EXCEPT ![s] = answer]
<1> DEFINE j == JobOf(s)
           rev == job[j].revision
           last == reader[s].last
<1>0. j \in Job /\ Present(j) /\ ReaderFrame /\ UNCHANGED <<job, events, log>>
  BY SubscribersFollowJobs DEF JobOf, JobEvents, JobStatus, Available, Answered
<1>1. reader[s] \in ReaderState /\ last \in Nat /\ reader[s].count \in Nat /\ rev \in Nat
      /\ job[j].state \in State \cup {"none"}
  BY <1>0, RowOf DEF ReaderState
<1>2. Answer(s, Snapshot(j))
  BY <1>1 DEF Answer, Snapshot, ReaderState
<1>3. ASSUME last <= rev, Complete(j, last) PROVE Answer(s, Replayed(s, j))
  <2> DEFINE M == Missing(j, last)
             view == IF M = {} THEN reader[s].view
                     ELSE (CHOOSE e \in M : e.revision = rev).state
  <2>1. /\ Cardinality(M) = rev - last
        /\ M = {} => last = rev /\ view = reader[s].view
        /\ M # {} => view = job[j].state
    BY <1>0, <1>1, <1>3, Replays
  <2>2. Replayed(s, j) = [last |-> rev, count |-> reader[s].count + Cardinality(M),
                          view |-> view, step |-> "idle"]
    BY DEF Replayed
  <2>3. view \in State \cup {"none"}
    BY <1>1, <2>1 DEF ReaderState
  <2> HIDE DEF M, view
  <2>4. reader[s].count + Cardinality(M) \in Nat
    BY <1>1, <1>3, <2>1
  <2>5. Replayed(s, j) \in ReaderState
    BY <1>1, <2>2, <2>3, <2>4 DEF ReaderState
  <2>6. reader[s].count = last => reader[s].count + Cardinality(M) = rev
    BY <1>1, <2>1
  <2>7. view = job[j].state \/ (view = reader[s].view /\ last = rev)
    BY <2>1
  <2>8. QED
    BY <2>2, <2>5, <2>6, <2>7 DEF Answer
<1>4. QED
  BY <1>0, <1>2, <1>3 DEF JobEvents, JobStatus, Answered

\* Who subscribes asks, is answered, or cancels.
LEMMA ReadersKeep ==
  ASSUME Types, \A j \in Job : History(j), NEW s \in Subscriber,
         \/ \E scope \in {"status", "events", "cancel"} : Authorize(s, scope)
         \/ JobEvents(s) \/ JobStatus(s) \/ CancelJob(s) \/ NoAnswer(s)
  PROVE  OthersKept
<1>0. ReaderFrame
  BY DEF Authorize, JobEvents, JobStatus, CancelJob, NoAnswer, Answered
<1>1. reader[s] \in ReaderState /\ JobOf(s) \in Job
  BY SubscribersFollowJobs DEF Types, OtherTypes, JobOf
<1>2. \A step \in {"idle", "status", "events", "cancel"} : [reader[s] EXCEPT !.step = step] \in ReaderState
  BY <1>1 DEF ReaderState
<1>3. reader' \in [Subscriber -> ReaderState]
  <2>1. CASE \E scope \in {"status", "events", "cancel"} : Authorize(s, scope)
    BY <1>2, <2>1 DEF Authorize, Request, Types, OtherTypes, ReaderState
  <2>2. CASE CancelJob(s)
    BY <1>2, <2>2 DEF CancelJob, Request, Types, OtherTypes, ReaderState
  <2>3. CASE NoAnswer(s)
    BY <1>2, <2>3 DEF NoAnswer, Answered, Types, OtherTypes
  <2>4. CASE JobEvents(s) \/ JobStatus(s)
    <3>1. PICK answer \in ReaderState : reader' = [reader EXCEPT ![s] = answer]
      BY <2>4, Answers DEF Answer, Types, OtherTypes
    <3>2. QED
      BY <3>1 DEF Types, OtherTypes
  <2>5. QED
    BY <2>1, <2>2, <2>3, <2>4
<1>4. QED
  BY <1>0, <1>3 DEF ReaderFrame, Types, FileTypes, OtherTypes, OthersKept

\* Tokens, names of files, the clock and a crash.
LEMMA WorldKeeps ==
  ASSUME Types, \/ \E t \in Token : Issue(t)
                \/ \E f \in File : Rename(f)
                \/ Tick \/ Crash \/ UNCHANGED vars
  PROVE  OthersKept
<1>1. ASSUME NEW t \in Token, Issue(t) PROVE OthersKept
  <2>1. clock + 1 \in Time /\ clock + Ttl \in Time
    BY Limits DEF Time, Types, OtherTypes
  <2>2. caps' \in [Token -> Time \cup {NotIssued}]
    BY <1>1, <2>1 DEF Issue, Types, OtherTypes
  <2>3. QED
    BY <1>1, <2>2 DEF Issue, Types, FileTypes, OtherTypes, OthersKept
<1>2. ASSUME NEW f \in File, Rename(f) PROVE OthersKept
  <2>1. PICK page \in 1 .. Pages :
          place' = [place EXCEPT ![f] = page] /\ faults < MaxFaults /\ faults' = faults + 1
    BY <1>2 DEF Rename
  <2>2. page \in Absent .. OwnName
    BY Limits DEF Absent, OwnName
  <2>3. place' \in [File -> Absent .. OwnName] /\ faults' \in 0 .. MaxFaults
    BY <2>1, <2>2, Limits DEF Types, FileTypes, OtherTypes
  <2>4. QED
    BY <1>2, <2>3 DEF Rename, Types, FileTypes, OtherTypes, OthersKept
<1>3. ASSUME Tick PROVE OthersKept
  <2>1. clock' \in 1 .. MaxClock
    BY <1>3, Limits DEF Tick, Types, OtherTypes
  <2>2. QED
    BY <1>3, <2>1 DEF Tick, Types, FileTypes, OtherTypes, OthersKept
<1>4. ASSUME Crash PROVE OthersKept
  <2>1. Idle \in PassState /\ Idle.step # "recording"
    BY DEF Idle, PassState
  <2>2. \A s \in Subscriber : [reader[s] EXCEPT !.step = "idle"] \in ReaderState
    BY DEF Types, OtherTypes, ReaderState
  <2>3. /\ pass' \in [Pass -> PassState] /\ \A p \in Pass : pass'[p].step # "recording"
        /\ reader' \in [Subscriber -> ReaderState] /\ faults' \in 0 .. MaxFaults
    BY <1>4, <2>1, <2>2, Limits DEF Crash, Types, OtherTypes
  <2>4. QED
    BY <1>4, <2>3 DEF Crash, Types, FileTypes, OtherTypes, OthersKept
<1>5. ASSUME UNCHANGED vars PROVE OthersKept
  BY <1>5 DEF vars, Types, FileTypes, OtherTypes, OthersKept
<1>6. QED
  BY <1>1, <1>2, <1>3, <1>4, <1>5

-----------------------------------------------------------------------------
(* The inductive invariant of the tasks. *)

Tasks == Types /\ Registered /\ \A j \in Job : History(j)

\* An empty store is sound.
LEMMA InitTasks == Init => Tasks
<1> SUFFICES ASSUME Init PROVE Tasks
  OBVIOUS
<1>1. TaskTypes
  <2>1. job \in [Job -> Row \cup {NoRow}] /\ NoRow.state \notin Active
    BY DEF Init, NoRow, Active
  <2>2. QED
    BY <2>1 DEF Init, TaskTypes
<1>2. FileTypes
  <2>1. Idle \in PassState /\ Idle.step # "recording"
    BY DEF Idle, PassState
  <2>2. OwnName \in Absent .. OwnName
    BY Limits DEF OwnName, Absent
  <2>3. QED
    BY <2>1, <2>2 DEF Init, FileTypes
<1>3. OtherTypes
  <2>1. Unread \in ReaderState
    BY DEF Unread, ReaderState
  <2>2. QED
    BY <2>1, Limits DEF Init, OtherTypes
<1>4. \A j \in Job : ~Present(j) /\ job[j].revision = 0
  BY DEF Init, Present, NoRow
<1>5. \A j \in Job : History(j)
  <2>1. \A j \in Job, r \in Nat : ~Newest(j, r)
    BY <1>4 DEF Newest
  <2>2. QED
    BY <1>4, <2>1 DEF Init, History
<1>6. QED
  BY <1>1, <1>2, <1>3, <1>4, <1>5 DEF Tasks, Types, Registered

\* What every step does, whatever it is about.
LEMMA TasksStep ==
  ASSUME Tasks, [Next]_vars
  PROVE  Tasks' /\ OthersKept /\ \A j \in Job : HistoryStep(j)
<1>0. Types /\ Registered /\ \A j \in Job : History(j)
  BY DEF Tasks
<1>1. TaskTypes' /\ \A j \in Job : HistoryStep(j)
  BY <1>0, TaskSteps
<1>2. OthersKept
  <2>1. ASSUME NEW j \in Job, (\E state \in State : RegisterState(j, state) \/ AppendProgress(j, state))
                                \/ RenewWorkerLease(j)
        PROVE  OthersKept
    BY <1>0, <2>1, WritersKeep
  <2>2. ASSUME NEW a \in Artifact, NEW f \in File,
               RegisterArtifact(a, f) \/ \E j \in Job : RegisterJobArtifact(j, a, f)
        PROVE  OthersKept
    BY <1>0, <2>2, StorageKeeps
  <2>3. ASSUME NEW p \in Pass, ReconcileExpired(p) PROVE OthersKept
    BY <1>0, <2>3, ExpiryKeeps DEF ReconcileExpired
  <2>4. ASSUME NEW p \in Pass, ReadOutbox(p) \/ RemoveFile(p) \/ RecordRemoval(p) PROVE OthersKept
    BY <1>0, <2>4, RemovalKeeps
  <2>5. ASSUME NEW s \in Subscriber,
               \/ \E scope \in {"status", "events", "cancel"} : Authorize(s, scope)
               \/ JobEvents(s) \/ JobStatus(s) \/ CancelJob(s) \/ NoAnswer(s)
        PROVE  OthersKept
    BY <1>0, <2>5, ReadersKeep
  <2>6. ASSUME \/ \E t \in Token : Issue(t)
               \/ \E f \in File : Rename(f)
               \/ Tick \/ Crash \/ UNCHANGED vars
        PROVE  OthersKept
    BY <1>0, <2>6, WorldKeeps
  <2> HIDE DEF OthersKept
  <2>7. QED
    BY <2>1, <2>2, <2>3, <2>4, <2>5, <2>6, Zenon DEF Next
<1>3. Types'
  BY <1>1, <1>2 DEF OthersKept, Types
<1>4. ASSUME NEW j \in Job, Present(j)' PROVE j \in used'
  <2>1. CASE Same(j)
    <3>1. Present(j)' <=> Present(j)
      BY <1>0, <1>1, <2>1, Rows DEF Same, Types, TaskTypes, Present
    <3>2. QED
      BY <1>0, <1>2, <1>4, <3>1 DEF Registered, OthersKept
  <2>2. CASE \E state \in State : Grown(j, state)
    BY <2>2 DEF Grown
  <2>3. CASE Retired(j)
    BY <1>4, <2>3 DEF Retired, Present
  <2>4. QED
    BY <1>1, <2>1, <2>2, <2>3 DEF HistoryStep
<1>5. \A j \in Job : History(j)'
  BY <1>0, <1>1, HistorySteps DEF Types
<1>6. QED
  BY <1>1, <1>2, <1>3, <1>4, <1>5 DEF Tasks, Registered

\* So the tasks are sound in every state.
LEMMA TasksHold == Spec => []Tasks
<1>1. Tasks /\ [Next]_vars => Tasks'
  BY TasksStep
<1>2. QED
  BY InitTasks, <1>1, PTL DEF Spec

-----------------------------------------------------------------------------
(* Readers. *)

\* Nobody who is behind by no more than the suffix is told to start over.
LEMMA SuffixSuffices == Tasks => NoNeedlessResync
<1> SUFFICES ASSUME Tasks, NEW j \in Job, NEW last \in 0 .. job[j].revision,
                    job[j].revision - last <= Retained
    PROVE  Complete(j, last)
  BY DEF NoNeedlessResync
<1>1. /\ History(j) /\ TaskTypes /\ job[j].revision \in Nat
      /\ \A e \in events[j] : e.revision \in Nat
  BY RowOf DEF Tasks, Types, TaskTypes, Event, Revision
<1>2. ASSUME NEW r \in last + 1 .. job[j].revision
      PROVE  \E e \in Missing(j, last) : e.revision = r
  <2>1. r \in Nat /\ r > last
    BY <1>1
  <2>2. Newest(j, r)
    BY <1>1, <1>2, Limits DEF Newest
  <2>3. QED
    BY <1>1, <2>1, <2>2 DEF History, Missing
<1>3. \A e \in Missing(j, last) : e.revision \in last + 1 .. job[j].revision
  BY <1>1 DEF History, Missing
<1>4. job[j].revision - last <= Retained + 1
  BY <1>1, Limits
<1>5. {e.revision : e \in Missing(j, last)} = last + 1 .. job[j].revision
  BY <1>2, <1>3
<1>6. QED
  BY <1>4, <1>5 DEF Complete

\* A reader that is no more than the retained suffix behind is never told to start over:
\* what append_in_transaction prunes, replay_after does not ask for.
THEOREM ResyncsAreNeeded == Spec => []NoNeedlessResync
BY TasksHold, SuffixSuffices, PTL

\* What a subscriber knows is a state of its task, as long as the task is the same.
Reader(s) ==
  LET j == JobOf(s)
      last == reader[s].last IN
  /\ reader[s].count = last
  /\ last > 0 => j \in used
  /\ Present(j) => last <= job[j].revision
  /\ 0 < last /\ last <= Len(log[j]) => reader[s].view = log[j][last]

\* Tasks are sound, and so is what their subscribers know.
Exact == Tasks /\ \A s \in Subscriber : Reader(s)

\* An answer brings the reader to the end of the history.
LEMMA AnsweredReader ==
  ASSUME Exact, NEW s \in Subscriber, JobEvents(s) \/ JobStatus(s)
  PROVE  /\ Present(JobOf(s)) /\ UNCHANGED <<job, events, log, used>>
         /\ reader'[s].last = job[JobOf(s)].revision
         /\ reader'[s].count = reader'[s].last
         /\ reader'[s].view = job[JobOf(s)].state
         /\ \A o \in Subscriber : o # s => reader'[o] = reader[o]
         /\ reader' \in [Subscriber -> ReaderState]
<1> DEFINE j == JobOf(s)
<1>1. /\ TaskTypes /\ reader \in [Subscriber -> ReaderState] /\ \A k \in Job : History(k)
      /\ Reader(s) /\ j \in Job
  BY SubscribersFollowJobs DEF Exact, Tasks, Types, OtherTypes, JobOf
<1>2. Present(j) /\ ReaderFrame /\ UNCHANGED <<job, events, log>>
  BY <1>1, Answers
<1>3. PICK answer : Answer(s, answer) /\ reader' = [reader EXCEPT ![s] = answer]
  BY <1>1, Answers
<1>4. answer.last = job[j].revision /\ answer \in ReaderState /\ answer.count = answer.last
  BY <1>1, <1>3 DEF Answer, Reader
<1>5. answer.view = job[j].state
  <2>1. CASE answer.view = reader[s].view /\ reader[s].last = job[j].revision
    <3>1. job[j].revision \in Nat /\ job[j].revision # 0 /\ Len(log[j]) = job[j].revision
          /\ log[j][job[j].revision] = job[j].state
      BY <1>1, <1>2, RowOf DEF History
    <3>2. QED
      BY <1>1, <2>1, <3>1 DEF Reader
  <2>2. QED
    BY <1>3, <2>1 DEF Answer
<1>6. QED
  BY <1>1, <1>2, <1>3, <1>4, <1>5 DEF ReaderFrame

\* No other step tells a subscriber anything.
Told(s) == JobEvents(s) \/ JobStatus(s)

LEMMA NothingIsTold ==
  ASSUME Types, [Next]_vars, \A s \in Subscriber : ~Told(s)
  PROVE  \A s \in Subscriber : /\ reader'[s].last = reader[s].last
                               /\ reader'[s].count = reader[s].count
                               /\ reader'[s].view = reader[s].view
<1> DEFINE Goal == \A s \in Subscriber : /\ reader'[s].last = reader[s].last
                                         /\ reader'[s].count = reader[s].count
                                         /\ reader'[s].view = reader[s].view
<1>0. reader \in [Subscriber -> ReaderState]
  BY DEF Types, OtherTypes
<1>1. ASSUME reader' = reader PROVE Goal
  BY <1>1
<1>2. ASSUME NEW s \in Subscriber, NEW step, reader' = [reader EXCEPT ![s].step = step] PROVE Goal
  BY <1>0, <1>2 DEF ReaderState
<1>3. ASSUME NEW j \in Job, NEW state \in State, RegisterState(j, state) \/ AppendProgress(j, state)
      PROVE  Goal
  BY <1>1, <1>3 DEF RegisterState, CreateJob, RepeatState, ChangeState, AppendProgress, Frame
<1>4. ASSUME NEW j \in Job, RenewWorkerLease(j) PROVE Goal
  BY <1>1, <1>4 DEF RenewWorkerLease, Frame
<1>5. ASSUME NEW a \in Artifact, NEW f \in File,
             RegisterArtifact(a, f) \/ \E j \in Job : RegisterJobArtifact(j, a, f)
      PROVE  Goal
  BY <1>1, <1>5 DEF RegisterArtifact, RegisterJobArtifact, StoreEntry
<1>6. ASSUME NEW p \in Pass,
             ReconcileExpired(p) \/ ReadOutbox(p) \/ RemoveFile(p) \/ RecordRemoval(p)
      PROVE  Goal
  BY <1>1, <1>6 DEF ReconcileExpired, ReconcileAt, ReadOutbox, RemoveFile, RecordRemoval, PassFrame
<1>7. ASSUME NEW s \in Subscriber,
             (\E scope \in {"status", "events", "cancel"} : Authorize(s, scope)) \/ CancelJob(s)
      PROVE  Goal
  BY <1>2, <1>7 DEF Authorize, CancelJob, Request
<1>8. ASSUME NEW s \in Subscriber, NoAnswer(s) PROVE Goal
  BY <1>0, <1>8 DEF NoAnswer, Answered, ReaderState
<1>9. ASSUME (\E t \in Token : Issue(t)) \/ (\E f \in File : Rename(f)) \/ Tick \/ UNCHANGED vars
      PROVE  Goal
  BY <1>1, <1>9 DEF Issue, Rename, Tick, vars
<1>10. ASSUME Crash PROVE Goal
  BY <1>0, <1>10 DEF Crash, ReaderState
<1> HIDE DEF Goal
<1>11. Goal
  BY <1>3, <1>4, <1>5, <1>6, <1>7, <1>8, <1>9, <1>10, Zenon DEF Next, Told
<1>12. QED
  BY <1>11 DEF Goal

\* A history that grows keeps what a reader knows of it, unless its id is used again.
LEMMA KeptReader ==
  ASSUME ReuseIds = FALSE, Tasks, Tasks', used \subseteq used', NEW s \in Subscriber, Reader(s),
         JobOf(s) \in Job, HistoryStep(JobOf(s)),
         reader'[s].last = reader[s].last, reader'[s].count = reader[s].count,
         reader'[s].view = reader[s].view
  PROVE  Reader(s)'
<1> DEFINE j == JobOf(s)
           last == reader[s].last
<1>1. TaskTypes /\ TaskTypes' /\ History(j) /\ History(j)' /\ j \in Job /\ last \in Nat
      /\ JobOf(s)' = j
  BY DEF Tasks, Types, OtherTypes, ReaderState, JobOf
<1>2. /\ reader'[s].count = last /\ (last > 0 => j \in used')
  BY DEF Reader
<1>3. Len(log[j]) = job[j].revision /\ job[j].revision \in Nat /\ log[j] \in Seq(State)
  BY <1>1, RowOf DEF History, TaskTypes
<1>4. /\ Present(j)' => last <= job'[j].revision
      /\ 0 < last /\ last <= Len(log'[j]) => reader[s].view = log'[j][last]
  <2>1. CASE Same(j)
    <3>1. Present(j)' <=> Present(j)
      BY <1>1, <2>1, Rows DEF TaskTypes, Present, Same
    <3>2. QED
      BY <2>1, <3>1 DEF Same, Reader
  <2>2. ASSUME NEW state \in State, Grown(j, state)
        PROVE  /\ Present(j)' => last <= job'[j].revision
               /\ 0 < last /\ last <= Len(log'[j]) => reader[s].view = log'[j][last]
    <3>1. log'[j] = Append(log[j], state) /\ job'[j].revision = job[j].revision + 1
      BY <2>2 DEF Grown
    <3>2. CASE Present(j)
      <4>1. last <= job[j].revision /\ last <= Len(log[j])
        BY <1>3, <3>2 DEF Reader
      <4>2. 0 < last => log'[j][last] = log[j][last]
        BY <1>1, <1>3, <3>1, <4>1
      <4>3. QED
        BY <1>1, <1>3, <3>1, <4>1, <4>2 DEF Reader
    <3>3. CASE ~Present(j)
      <4>1. last = 0
        BY <1>1, <2>2, <3>3 DEF Grown, Unused, Reader
      <4>2. QED
        BY <1>3, <3>1, <4>1
    <3>4. QED
      BY <3>2, <3>3
  <2>3. CASE Retired(j)
    BY <1>1, <2>3 DEF Retired, Present
  <2>4. QED
    BY <2>1, <2>2, <2>3 DEF HistoryStep
<1>5. QED
  BY <1>1, <1>2, <1>4 DEF Reader

\* Every step keeps what the subscribers know sound.
LEMMA ReaderSteps ==
  ASSUME ReuseIds = FALSE, Exact, [Next]_vars
  PROVE  Exact'
<1>1. Tasks /\ Tasks' /\ Types /\ used \subseteq used' /\ \A j \in Job : HistoryStep(j)
  BY TasksStep DEF Exact, OthersKept, Tasks
<1>2. \A s \in Subscriber : JobOf(s) \in Job /\ Reader(s)
  BY SubscribersFollowJobs DEF JobOf, Exact
<1>3. ASSUME \A s \in Subscriber : ~Told(s), NEW s \in Subscriber PROVE Reader(s)'
  <2>1. /\ reader'[s].last = reader[s].last /\ reader'[s].count = reader[s].count
        /\ reader'[s].view = reader[s].view
    BY <1>1, <1>3, NothingIsTold
  <2>2. QED
    BY <1>1, <1>2, <2>1, KeptReader
<1>4. ASSUME NEW o \in Subscriber, Told(o), NEW s \in Subscriber PROVE Reader(s)'
  <2> DEFINE j == JobOf(o)
  <2>1. /\ Present(j) /\ UNCHANGED <<job, events, log, used>>
        /\ reader'[o].last = job[j].revision /\ reader'[o].count = reader'[o].last
        /\ reader'[o].view = job[j].state
        /\ \A q \in Subscriber : q # o => reader'[q] = reader[q]
    BY <1>4, AnsweredReader DEF Told
  <2>2. CASE s = o
    <3>1. j \in used /\ Len(log[j]) = job[j].revision /\ log[j][job[j].revision] = job[j].state
          /\ job[j].revision \in Nat
      BY <1>1, <1>2, <2>1, RowOf DEF Tasks, Registered, History, Types
    <3>2. QED
      BY <2>1, <2>2, <3>1 DEF Reader, JobOf
  <2>3. CASE s # o
    BY <1>1, <1>2, <2>1, <2>3, KeptReader
  <2>4. QED
    BY <2>2, <2>3
<1>5. QED
  BY <1>1, <1>3, <1>4 DEF Exact

\* So it is in every state.
LEMMA ExactHolds == ASSUME ReuseIds = FALSE PROVE Spec => []Exact
<1>1. Init => Exact
  <2> SUFFICES ASSUME Init PROVE Exact
    OBVIOUS
  <2>1. \A s \in Subscriber : reader[s].last = 0 /\ reader[s].count = 0 /\ JobOf(s) \in Job
    BY SubscribersFollowJobs DEF Init, Unread, JobOf
  <2>2. \A j \in Job : ~Present(j)
    BY DEF Init, Present
  <2>3. QED
    BY <2>1, <2>2, InitTasks DEF Exact, Reader
<1>2. Exact /\ [Next]_vars => Exact'
  BY ReaderSteps
<1>3. QED
  BY <1>1, <1>2, PTL DEF Spec

\* A subscriber that sends the id of the last event it got has received every event between
\* two snapshots exactly once, and believes in the state the task had at that revision
\* (replay_after, snapshot), if no id is used twice.
THEOREM ReplaysAreExact == ASSUME ReuseIds = FALSE PROVE Spec => []ReplayIsExact
<1>1. Exact => ReplayIsExact
  BY SuffixSuffices DEF Exact, Reader, ReplayIsExact, SubscriberExact
<1>2. QED
  BY <1>1, ExactHolds, PTL

-----------------------------------------------------------------------------
(* The promise of EventLog. *)

\* What is written to the histories is what EventLog records.
LEMMA HistoriesAreRecorded ==
  ASSUME Tasks, Tasks', NEW j \in Job, HistoryStep(j)
  PROVE  log'[j] = log[j] \/ Log!Grows(j) \/ Log!Retires(j)
<1>1. TaskTypes /\ History(j)
  BY DEF Tasks, Types
<1>2. /\ Len(log[j]) = job[j].revision /\ job[j].revision \in Nat /\ log[j] \in Seq(State)
      /\ Present(j) <=> job[j].revision # 0
      /\ Present(j) => log[j][Len(log[j])] = job[j].state
  BY <1>1, RowOf DEF History, TaskTypes
<1>3. log[j] # <<>> <=> Len(log[j]) # 0
  BY <1>2
<1>4. CASE Same(j)
  BY <1>4 DEF Same
<1>5. ASSUME NEW state \in State, Grown(j, state) PROVE Log!Grows(j)
  <2>1. ~Log!Ended(j)
    BY <1>2, <1>3, <1>5 DEF Log!Ended, Grown
  <2>2. QED
    BY <1>5, <2>1 DEF Log!Grows, Grown, State
<1>6. CASE Retired(j)
  <2>1. Present(j)
    BY <1>1, <1>6, RowOf DEF Retired, Terminal
  <2>2. Log!Ended(j)
    BY <1>2, <1>3, <1>6, <2>1 DEF Log!Ended, Retired
  <2>3. QED
    BY <1>6, <2>2 DEF Log!Retires, Retired
<1>7. QED
  BY <1>4, <1>5, <1>6 DEF HistoryStep

\* An answer is a CatchUp, every other step is a Record or nothing to EventLog.
LEMMA StepsAreLogSteps ==
  ASSUME ReuseIds = FALSE, Exact, [Next]_vars
  PROVE  [Log!Next]_<<log, [s \in Subscriber |-> [last |-> reader[s].last,
                                                  view |-> reader[s].view]]>>
<1> DEFINE at == [s \in Subscriber |-> [last |-> reader[s].last, view |-> reader[s].view]]
<1>1. Tasks /\ Tasks' /\ Types /\ \A j \in Job : HistoryStep(j)
  BY TasksStep DEF Exact, Tasks
<1>2. ASSUME \A s \in Subscriber : ~Told(s) PROVE Log!Record
  <2>1. \A s \in Subscriber : reader'[s].last = reader[s].last /\ reader'[s].view = reader[s].view
    BY <1>1, <1>2, NothingIsTold
  <2>2. at' = at
    BY <2>1
  <2>3. \A j \in Job : log'[j] = log[j] \/ Log!Grows(j) \/ Log!Retires(j)
    BY <1>1, HistoriesAreRecorded
  <2>4. DOMAIN log' = Job
    BY <1>1 DEF Tasks, Types, TaskTypes
  <2>5. QED
    BY <2>2, <2>3, <2>4 DEF Log!Record
<1>3. ASSUME NEW s \in Subscriber, Told(s) PROVE Log!CatchUp(s)
  <2> DEFINE j == JobOf(s)
  <2>1. /\ Present(j) /\ UNCHANGED <<job, events, log, used>>
        /\ reader'[s].last = job[j].revision /\ reader'[s].view = job[j].state
        /\ \A o \in Subscriber : o # s => reader'[o] = reader[o]
    BY <1>3, AnsweredReader DEF Told
  <2>2. j \in Job /\ Len(log[j]) = job[j].revision /\ log[j][job[j].revision] = job[j].state
        /\ job[j].revision \in Nat /\ job[j].revision # 0 /\ log[j] # <<>>
    <3>1. j \in Job /\ History(j) /\ TaskTypes
      BY <1>1, SubscribersFollowJobs DEF JobOf, Tasks, Types
    <3>2. Len(log[j]) = job[j].revision /\ log[j][job[j].revision] = job[j].state
          /\ job[j].revision \in Nat /\ job[j].revision # 0
      BY <2>1, <3>1, RowOf DEF History
    <3>3. QED
      BY <3>1, <3>2
  <2>3. at' = [at EXCEPT ![s] = [last |-> Len(log[j]), view |-> log[j][Len(log[j])]]]
    BY <2>1, <2>2
  <2>4. [q \in Subscriber |-> JobOf(q)][s] = j
    OBVIOUS
  <2> HIDE DEF at, j
  <2>5. QED
    BY <2>1, <2>2, <2>3, <2>4 DEF Log!CatchUp, at
<1>4. QED
  BY <1>2, <1>3 DEF Log!Next

\* The store implements the history of EventLog: it grows, ends with at most one terminal
\* state and is retired after it, and an answer brings a subscriber to its end.
THEOREM LogIsImplemented == ASSUME ReuseIds = FALSE PROVE Spec => ImplementsLog
<1>1. Init => Log!Init
  BY DEF Init, Unread, Log!Init, Log!Unread
<1>2. Exact /\ [Next]_vars =>
        [Log!Next]_<<log, [s \in Subscriber |-> [last |-> reader[s].last, view |-> reader[s].view]]>>
  BY StepsAreLogSteps
<1>3. QED
  BY <1>1, <1>2, ExactHolds, PTL DEF Spec, ImplementsLog, Log!Spec

-----------------------------------------------------------------------------
(* A task, its artifact and their capabilities end together. *)

\* No step but those of storage and expiry changes a task that is completed.
LEMMA CompletedStays ==
  ASSUME TaskTypes, NEW j \in Job,
         \/ \E state \in State : RegisterState(j, state) \/ AppendProgress(j, state)
         \/ RenewWorkerLease(j) \/ Cancel(j)
  PROVE  \A k \in Job : job[k].state = "completed" => job'[k] = job[k]
<1>0. "completed" \in Terminal /\ "completed" \notin Active
  BY DEF Terminal, Active
<1>1. ASSUME NEW row, job' = [job EXCEPT ![j] = row], job[j].state # "completed"
      PROVE  \A k \in Job : job[k].state = "completed" => job'[k] = job[k]
  BY <1>1 DEF TaskTypes
<1>2. ASSUME NEW state \in State, RegisterState(j, state) PROVE job[j].state # "completed"
  <2>1. ASSUME NEW called \in Readings, CreateJob(j, state, called) PROVE job[j].state # "completed"
    BY <2>1, RowOf DEF CreateJob
  <2>2. ASSUME NEW called \in Readings, RepeatState(j, state, called)
        PROVE  job[j].state # "completed"
    BY <1>0, <2>2 DEF RepeatState
  <2>3. ASSUME NEW called \in Readings, ChangeState(j, state, called)
        PROVE  job[j].state # "completed"
    BY <1>0, <2>3 DEF ChangeState
  <2>4. QED
    BY <1>2, <2>1, <2>2, <2>3 DEF RegisterState
<1>3. ASSUME NEW state \in State, RegisterState(j, state) \/ AppendProgress(j, state)
      PROVE  \A k \in Job : job[k].state = "completed" => job'[k] = job[k]
  <2>1. job[j].state # "completed"
    BY <1>0, <1>2, <1>3 DEF AppendProgress
  <2>2. \E row : job' = [job EXCEPT ![j] = row]
    BY <1>3, Zenon DEF RegisterState, CreateJob, RepeatState, ChangeState, AppendProgress, AppendEvent
  <2>3. QED
    BY <1>1, <2>1, <2>2
<1>4. ASSUME RenewWorkerLease(j) PROVE \A k \in Job : job[k].state = "completed" => job'[k] = job[k]
  BY <1>0, <1>4 DEF RenewWorkerLease, TaskTypes
<1>5. ASSUME Cancel(j) PROVE \A k \in Job : job[k].state = "completed" => job'[k] = job[k]
  BY <1>0, <1>1, <1>5 DEF Cancel, AppendEvent
<1>6. QED
  BY <1>3, <1>4, <1>5

\* Links stay in a step that leaves the artifacts and every completed task alone.
LEMMA LinksStay ==
  ASSUME Types, LinkedTogether, UNCHANGED artifact,
         \A k \in Job : job[k].state = "completed" => job'[k] = job[k]
  PROVE  LinkedTogether'
<1>1. \A a \in Artifact : Stored(a) => artifact[a].job \in Job \cup {NoJob}
  BY Entries DEF Types
<1>2. QED
  BY <1>1 DEF LinkedTogether, Stored

\* A link ends a task when it ends the artifact.
LEMMA LinkingLinks ==
  ASSUME Types, LinkedTogether, NEW a \in Artifact, NEW f \in File,
         RegisterArtifact(a, f) \/ \E j \in Job : RegisterJobArtifact(j, a, f)
  PROVE  LinkedTogether'
<1>0. artifact \in [Artifact -> Entry \cup {NoEntry}]
  BY DEF Types, FileTypes
<1>1. ASSUME RegisterArtifact(a, f) PROVE LinkedTogether'
  <2>1. PICK called \in Readings :
          /\ artifact' = [artifact EXCEPT ![a] = [job |-> NoJob, file |-> f,
                                                  expires |-> Deadline(called)]]
          /\ job' = job
    BY <1>1 DEF RegisterArtifact, StoreEntry
  <2>2. QED
    BY <1>0, <2>1 DEF LinkedTogether, Stored
<1>2. ASSUME NEW j \in Job, RegisterJobArtifact(j, a, f) PROVE LinkedTogether'
  <2>1. PICK called \in Readings :
          /\ job[j].state = "completed" /\ Linked(j) = {}
          /\ job' = [job EXCEPT ![j].retain = LinkedUntil(j, CommonExpiry(j, a, Deadline(called)))]
          /\ artifact' = [artifact EXCEPT ![a] =
                            [job |-> j, file |-> f,
                             expires |-> CommonExpiry(j, a, Deadline(called))]]
    BY <1>2 DEF RegisterJobArtifact, StoreEntry
  <2> DEFINE common == CommonExpiry(j, a, Deadline(called))
  <2>2. /\ common \in Time /\ common <= job[j].retain /\ job[j].retain \in Time
    BY Instants, CommonIsEarliest, Rows DEF Types, TaskTypes, OtherTypes, Columns
  <2>3. LinkedUntil(j, common) = common
    BY <2>2 DEF LinkedUntil, Smaller, Time
  <2> HIDE DEF common
  <2>4. job[j] \in Columns /\ job \in [Job -> Row \cup {NoRow}]
    BY RowOf DEF Types, TaskTypes
  <2>5. /\ job'[j].state = "completed" /\ job'[j].retain = common
        /\ \A k \in Job : k # j => job'[k] = job[k]
    BY <2>1, <2>3, <2>4 DEF common, Columns
  <2>6. artifact'[a].expires = common /\ artifact'[a].job = j
        /\ \A b \in Artifact : b # a => artifact'[b] = artifact[b]
    BY <1>0, <2>1 DEF common
  <2>7. SUFFICES ASSUME NEW b \in Artifact, Stored(b)', artifact'[b].job # NoJob
        PROVE  /\ job'[artifact'[b].job].state = "completed"
               /\ job'[artifact'[b].job].retain = artifact'[b].expires
    BY DEF LinkedTogether
  <2>8. CASE b = a
    BY <2>5, <2>6, <2>8
  <2>9. CASE b # a
    <3>1. artifact'[b] = artifact[b] /\ Stored(b)
      BY <2>6, <2>7, <2>9 DEF Stored
    <3>2. artifact[b].job \in Job /\ artifact[b].job # j
      BY <2>1, <2>7, <3>1, Entries DEF Linked, Types
    <3>3. QED
      BY <2>5, <2>7, <3>1, <3>2 DEF LinkedTogether
  <2>10. QED
    BY <2>8, <2>9
<1>3. QED
  BY <1>1, <1>2

\* A task is retired with its artifact.
LEMMA ExpiryUnlinks ==
  ASSUME Types, LinkedTogether, NEW p \in Pass, NEW now \in Readings, ReconcileAt(p, now)
  PROVE  LinkedTogether'
<1>1. PICK entries, subjects : Ends(entries, subjects)
  BY ExpiryEndsEntries
<1>2. SUFFICES ASSUME NEW b \in Artifact, Stored(b)', artifact'[b].job # NoJob
      PROVE  /\ job'[artifact'[b].job].state = "completed"
             /\ job'[artifact'[b].job].retain = artifact'[b].expires
  BY DEF LinkedTogether
<1>3. artifact'[b] = artifact[b] /\ b \notin entries /\ Stored(b)
  BY <1>1, <1>2 DEF Ends, Stored
<1>4. artifact[b].job \in Job /\ b \in Linked(artifact[b].job)
      /\ job[artifact[b].job].state = "completed"
  BY <1>2, <1>3, Entries DEF LinkedTogether, Linked, Types
<1>5. job'[artifact[b].job] = job[artifact[b].job]
  BY <1>1, <1>3, <1>4 DEF Ends, Active
<1>6. QED
  BY <1>2, <1>3, <1>4, <1>5 DEF LinkedTogether

\* Every step keeps the links.
LEMMA LinkedStep ==
  ASSUME Tasks, LinkedTogether, [Next]_vars
  PROVE  LinkedTogether'
<1>0. Types /\ TaskTypes
  BY DEF Tasks, Types
<1>1. ASSUME NEW j \in Job, \/ \E state \in State : RegisterState(j, state) \/ AppendProgress(j, state)
                            \/ RenewWorkerLease(j)
      PROVE  LinkedTogether'
  <2>1. UNCHANGED artifact
    BY <1>1 DEF RegisterState, CreateJob, RepeatState, ChangeState, AppendProgress,
                RenewWorkerLease, Frame
  <2>2. QED
    BY <1>0, <1>1, <2>1, CompletedStays, LinksStay
<1>2. ASSUME NEW a \in Artifact, NEW f \in File,
             RegisterArtifact(a, f) \/ \E j \in Job : RegisterJobArtifact(j, a, f)
      PROVE  LinkedTogether'
  BY <1>0, <1>2, LinkingLinks
<1>3. ASSUME NEW p \in Pass, ReconcileExpired(p) PROVE LinkedTogether'
  BY <1>0, <1>3, ExpiryUnlinks DEF ReconcileExpired
<1>4. ASSUME NEW s \in Subscriber, CancelJob(s) PROVE LinkedTogether'
  <2>1. JobOf(s) \in Job /\ Cancel(JobOf(s)) /\ UNCHANGED artifact
    BY <1>4, SubscribersFollowJobs DEF CancelJob, ReaderFrame, JobOf
  <2>2. QED
    BY <1>0, <2>1, CompletedStays, LinksStay
<1>5. ASSUME UNCHANGED <<job, artifact>> PROVE LinkedTogether'
  BY <1>0, <1>5, LinksStay
<1>6. ASSUME \/ \E t \in Token : Issue(t)
             \/ \E p \in Pass : ReadOutbox(p) \/ RemoveFile(p) \/ RecordRemoval(p)
             \/ \E s \in Subscriber : \/ \E scope \in {"status", "events", "cancel"} : Authorize(s, scope)
                                      \/ JobEvents(s) \/ JobStatus(s) \/ NoAnswer(s)
             \/ \E f \in File : Rename(f)
             \/ Tick \/ Crash \/ UNCHANGED vars
      PROVE  UNCHANGED <<job, artifact>>
  <2>1. (\E t \in Token : Issue(t)) => UNCHANGED <<job, artifact>>
    BY DEF Issue
  <2>2. (\E p \in Pass : ReadOutbox(p) \/ RemoveFile(p) \/ RecordRemoval(p))
          => UNCHANGED <<job, artifact>>
    BY DEF ReadOutbox, RemoveFile, RecordRemoval, PassFrame
  <2>3. (\E s \in Subscriber : \/ \E scope \in {"status", "events", "cancel"} : Authorize(s, scope)
                               \/ JobEvents(s) \/ JobStatus(s) \/ NoAnswer(s))
          => UNCHANGED <<job, artifact>>
    BY DEF Authorize, JobEvents, JobStatus, NoAnswer, Answered, ReaderFrame
  <2>4. (\E f \in File : Rename(f)) \/ Tick \/ Crash \/ UNCHANGED vars => UNCHANGED <<job, artifact>>
    BY DEF Rename, Tick, Crash, vars
  <2>5. QED
    BY <1>6, <2>1, <2>2, <2>3, <2>4
<1>7. QED
  BY <1>1, <1>2, <1>3, <1>4, <1>5, <1>6, Zenon DEF Next

\* A stored artifact that is linked to a task ends with it, at the same second: neither the
\* link, nor a late call of a writer, nor a cancellation, nor an expiry parts them.
THEOREM LinksHold == Spec => []LinkedTogether
<1>1. Init => LinkedTogether
  BY DEF Init, LinkedTogether, Stored
<1>2. Tasks /\ LinkedTogether /\ [Next]_vars => LinkedTogether'
  BY LinkedStep
<1>3. QED
  BY <1>1, <1>2, TasksHold, PTL DEF Spec

\* A capability is issued once, and is only shortened or revoked afterwards.
LEMMA CapsOnlyShrink ==
  ASSUME Types, [Next]_vars
  PROVE  \A t \in Token : caps[t] # NotIssued => caps'[t] <= caps[t]
<1> DEFINE Goal == \A t \in Token : caps[t] # NotIssued => caps'[t] <= caps[t]
<1>0. /\ caps \in [Token -> Time \cup {NotIssued}] /\ \A x \in Time : x \in Nat
      /\ \A t \in Token : caps[t] # NotIssued => caps[t] \in Nat
  BY DEF Types, OtherTypes, Time
<1>1. ASSUME caps' = caps PROVE Goal
  BY <1>0, <1>1
<1>2. ASSUME NEW t \in Token, Issue(t) PROVE Goal
  BY <1>0, <1>2 DEF Issue
<1>3. ASSUME NEW a \in Artifact, NEW f \in File, NEW j \in Job, RegisterJobArtifact(j, a, f) PROVE Goal
  <2>1. PICK called \in Readings :
          caps' = Shortened(j, a, CommonExpiry(j, a, Deadline(called)))
    BY <1>3 DEF RegisterJobArtifact
  <2> DEFINE common == CommonExpiry(j, a, Deadline(called))
  <2>2. common \in Time
    BY Instants, CommonIsEarliest DEF Types, TaskTypes, OtherTypes
  <2> HIDE DEF common
  <2>3. caps' = [t \in Token |-> IF t \in LinkCapabilities(j, a) THEN Smaller(caps[t], common)
                                 ELSE caps[t]]
    BY <2>1 DEF Shortened, common
  <2>4. QED
    BY <1>0, <2>2, <2>3 DEF Smaller
<1>4. ASSUME NEW p \in Pass, ReconcileExpired(p) PROVE Goal
  <2>1. PICK entries, subjects : Ends(entries, subjects)
    BY <1>4, ExpiryEndsEntries DEF ReconcileExpired
  <2>2. \A t \in Token : caps'[t] \in {0, caps[t]}
    BY <2>1 DEF Ends, Revoked
  <2>3. QED
    BY <1>0, <2>2
<1>5. ASSUME NEW j \in Job, \/ \E state \in State : RegisterState(j, state) \/ AppendProgress(j, state)
                            \/ RenewWorkerLease(j)
      PROVE  Goal
  BY <1>1, <1>5 DEF RegisterState, CreateJob, RepeatState, ChangeState, AppendProgress,
                    RenewWorkerLease, Frame
<1>6. ASSUME NEW a \in Artifact, NEW f \in File, RegisterArtifact(a, f) PROVE Goal
  BY <1>1, <1>6 DEF RegisterArtifact
<1>7. ASSUME NEW p \in Pass, ReadOutbox(p) \/ RemoveFile(p) \/ RecordRemoval(p) PROVE Goal
  BY <1>1, <1>7 DEF ReadOutbox, RemoveFile, RecordRemoval, PassFrame
<1>8. ASSUME NEW s \in Subscriber, \/ \E scope \in {"status", "events", "cancel"} : Authorize(s, scope)
                                   \/ JobEvents(s) \/ JobStatus(s) \/ CancelJob(s) \/ NoAnswer(s)
      PROVE  Goal
  BY <1>1, <1>8 DEF Authorize, JobEvents, JobStatus, CancelJob, NoAnswer, Answered, ReaderFrame
<1>9. ASSUME (\E f \in File : Rename(f)) \/ Tick \/ Crash \/ UNCHANGED vars PROVE Goal
  BY <1>1, <1>9 DEF Rename, Tick, Crash, vars
<1> HIDE DEF Goal
<1>10. Goal
  BY <1>2, <1>3, <1>4, <1>5, <1>6, <1>7, <1>8, <1>9, Zenon DEF Next
<1>11. QED
  BY <1>10 DEF Goal

\* No step makes a capability live longer, and none that was revoked becomes live again:
\* linking (register_job_artifact) and the expiry of an artifact only shorten them.
THEOREM NothingIsRevived == Spec => NoRevival
<1>1. Tasks /\ [Next]_vars => [\A t \in Token : caps[t] # NotIssued => caps'[t] <= caps[t]]_vars
  BY CapsOnlyShrink DEF Tasks
<1>2. QED
  BY <1>1, TasksHold, PTL DEF Spec, NoRevival

-----------------------------------------------------------------------------
(* No file is forgotten. *)

\* The intents of the outbox, and those a pass has read from it.
Pending == {i \in Intent : \/ i \in outbox
                           \/ \E p \in Pass : \/ i \in pass[p].todo
                                              \/ (pass[p].step = "recording" /\ i = pass[p].row)}

\* They are intents for artifacts.
LEMMA PendingIntents ==
  ASSUME FileTypes
  PROVE  \A i \in Pending : i \in Intent /\ i.artifact \in Artifact
  BY DEF Pending, Intent

\* An intent belongs to an artifact that is gone for good, one file to each; what a pass
\* is about to record as removed is removed.
Filed ==
  /\ \A a \in Artifact : Stored(a) => a \in used /\ artifact[a].file \in used
  /\ \A i \in Pending : i.artifact \in used /\ i.file \in used /\ ~Stored(i.artifact)
  /\ \A i, k \in Pending : i.artifact = k.artifact => i.file = k.file /\ i.job = k.job
  /\ \A p \in Pass : pass[p].step = "recording" /\ pass[p].outcome = "removed"
                       => place[pass[p].row.file] = Absent
  /\ NothingForgotten

\* Steps that touch neither files nor intents, although one may forget what it has read.
LEMMA FilesUndisturbed ==
  ASSUME Filed, UNCHANGED <<artifact, outbox, place>>, used \subseteq used',
         \A f \in File : f \in used' => f \in used,
         pass' = pass \/ pass' = [p \in Pass |-> Idle]
  PROVE  Filed'
<1>1. \A i \in Pending' : i \in Pending
  <2>1. CASE pass' = pass
    BY <2>1 DEF Pending
  <2>2. CASE pass' = [p \in Pass |-> Idle]
    BY <2>2 DEF Pending, Idle
  <2>3. QED
    BY <2>1, <2>2
<1>2. \A p \in Pass : pass'[p].step = "recording" => pass'[p] = pass[p]
  BY DEF Idle
<1>3. NothingForgotten'
  BY DEF Filed, NothingForgotten
<1>4. \A a \in Artifact : Stored(a)' <=> Stored(a)
  BY DEF Stored
<1>5. \A a : Stored(a)' <=> Stored(a)
  BY DEF Stored
<1>6. QED
  BY <1>1, <1>2, <1>3, <1>5 DEF Filed

\* A file is registered for one artifact, under an id that was not used.
LEMMA StorageFiles ==
  ASSUME ReuseIds = FALSE, Types, Filed, NEW a \in Artifact, NEW f \in File,
         RegisterArtifact(a, f) \/ \E j \in Job : RegisterJobArtifact(j, a, f)
  PROVE  Filed'
<1>1. PICK entry : StoreEntry(a, entry) /\ entry.file = f /\ entry # NoEntry
  <2>1. ASSUME NEW j, NEW x
        PROVE  [job |-> j, file |-> f, expires |-> x].file = f
               /\ [job |-> j, file |-> f, expires |-> x] # NoEntry
    BY NamesAreApart DEF NoEntry
  <2>2. \E j, x : StoreEntry(a, [job |-> j, file |-> f, expires |-> x])
    BY Zenon DEF RegisterArtifact, RegisterJobArtifact
  <2>3. QED
    BY <2>1, <2>2
<1>2. ~Stored(a) /\ a \notin used /\ f \notin used
  BY DEF RegisterArtifact, RegisterJobArtifact, Registrable, Unused
<1>3. /\ artifact' = [artifact EXCEPT ![a] = entry] /\ used' = used \cup {a, f}
      /\ UNCHANGED <<outbox, place, pass>>
  BY <1>1 DEF StoreEntry
<1>4. /\ artifact'[a] = entry /\ \A b \in Artifact : b # a => artifact'[b] = artifact[b]
  BY <1>3 DEF Types, FileTypes
<1>5. Pending' = Pending
  BY <1>3 DEF Pending
<1>6. \A i \in Pending : i.artifact \in Artifact /\ i.artifact # a
  <2>1. \A i \in Pending : i.artifact # a
    BY <1>2 DEF Filed
  <2>2. QED
    BY <2>1, PendingIntents DEF Types
<1>7. \A b \in Artifact : b # a => (Stored(b)' <=> Stored(b))
  BY <1>4 DEF Stored
<1>8. NothingForgotten'
  <2> SUFFICES ASSUME NEW g \in File, g \in used', place'[g] # Absent
      PROVE  \/ \E b \in Artifact : artifact'[b].file = g
             \/ \E o \in outbox' : o.file = g
    BY DEF NothingForgotten
  <2>1. CASE g = f
    BY <1>1, <1>4, <2>1
  <2>2. CASE g # f
    <3>1. g \in used /\ place[g] # Absent
      BY <1>3, <2>2, NamesAreApart
    <3>2. CASE \E o \in outbox : o.file = g
      BY <1>3, <3>2
    <3>3. ASSUME NEW b \in Artifact, artifact[b].file = g PROVE \E c \in Artifact : artifact'[c].file = g
      <4>1. b # a
        BY <1>2, <3>3, Entries DEF Types
      <4>2. QED
        BY <1>4, <3>3, <4>1
    <3>4. QED
      BY <3>1, <3>2, <3>3 DEF Filed, NothingForgotten
  <2>3. QED
    BY <2>1, <2>2
<1>9. \A b \in Artifact : Stored(b)' => b \in used' /\ artifact'[b].file \in used'
  BY <1>1, <1>3, <1>4, <1>7 DEF Filed
<1>10. \A i \in Pending' : i.artifact \in used' /\ i.file \in used' /\ ~Stored(i.artifact)'
  BY <1>3, <1>5, <1>6, <1>7 DEF Filed
<1>11. \A i, k \in Pending' : i.artifact = k.artifact => i.file = k.file /\ i.job = k.job
  BY <1>5 DEF Filed
<1>12. \A p \in Pass : pass'[p].step = "recording" /\ pass'[p].outcome = "removed"
                         => place'[pass'[p].row.file] = Absent
  BY <1>3 DEF Filed
<1>13. QED
  BY <1>8, <1>9, <1>10, <1>11, <1>12 DEF Filed

\* What expires leaves an intent for its file.
LEMMA ExpiryFiles ==
  ASSUME Types, Filed, NEW p \in Pass, NEW now \in Readings, ReconcileAt(p, now)
  PROVE  Filed'
<1>1. PICK entries, subjects : Ends(entries, subjects)
  BY ExpiryEndsEntries
<1>2. /\ pass' = [pass EXCEPT ![p].step = "expired"] /\ UNCHANGED <<place, used>>
  BY DEF ReconcileAt
<1>3. /\ \A q \in Pass : pass'[q].todo = pass[q].todo /\ pass'[q].row = pass[q].row
                         /\ pass'[q].outcome = pass[q].outcome
      /\ \A q \in Pass : pass'[q].step = "recording" => pass[q].step = "recording"
  BY <1>2 DEF Types, FileTypes, PassState
<1> DEFINE intent(a) == [job |-> artifact[a].job, artifact |-> a, file |-> artifact[a].file,
                         cursor |-> 0, again |-> FALSE]
<1>4. \A a \in entries : a \in Artifact /\ Stored(a)
  BY <1>1 DEF Ends
<1>5. /\ \A i \in outbox' : i \in outbox \/ \E a \in entries : i = intent(a)
      /\ outbox \subseteq outbox'
      /\ \A a \in entries : intent(a) \in outbox'
  <2>1. outbox \subseteq Pending
    BY DEF Pending, Types, FileTypes
  <2>2. \A a \in entries : ~ \E o \in outbox : o.artifact = a
    BY <1>4, <2>1 DEF Filed
  <2> DEFINE owner == [a \in Artifact |-> artifact[a].job]
             I == Intended(owner, entries)
  <2>3. outbox' = outbox \cup {i \in I : ~ \E o \in outbox : o.job = i.job /\ o.artifact = i.artifact}
    BY <1>1 DEF Ends, Queued
  <2>4. /\ \A i \in I : \E a \in entries : i = intent(a)
        /\ \A a \in entries : intent(a) \in I
    BY <1>4 DEF Intended
  <2>5. \A a \in entries : intent(a).artifact = a
    OBVIOUS
  <2> HIDE DEF I, intent
  <2>6. QED
    BY <2>2, <2>3, <2>4, <2>5
<1>6. \A a \in entries : intent(a).artifact = a /\ intent(a).file = artifact[a].file
                         /\ intent(a).job = artifact[a].job
  OBVIOUS
<1> HIDE DEF intent
<1>7. \A i \in Pending' : i \in Pending \/ \E a \in entries : i = intent(a)
  BY <1>3, <1>5 DEF Pending
<1>8. /\ \A a \in Artifact : a \in entries => ~Stored(a)'
      /\ \A a \in Artifact : a \notin entries => artifact'[a] = artifact[a]
  BY <1>1 DEF Ends, Stored
<1>9. \A i \in Pending : ~Stored(i.artifact) /\ i.artifact \notin entries
  BY <1>4 DEF Filed
<1>10. \A i \in Pending : i.artifact \in Artifact
  BY PendingIntents DEF Types
<1>11. \A i \in Pending' : i.artifact \in used' /\ i.file \in used' /\ ~Stored(i.artifact)'
  <2> SUFFICES ASSUME NEW i \in Pending'
      PROVE  i.artifact \in used' /\ i.file \in used' /\ ~Stored(i.artifact)'
    OBVIOUS
  <2>1. CASE i \in Pending
    BY <1>2, <1>8, <1>9, <1>10, <2>1 DEF Filed, Stored
  <2>2. ASSUME NEW a \in entries, i = intent(a)
        PROVE  i.artifact \in used' /\ i.file \in used' /\ ~Stored(i.artifact)'
    BY <1>2, <1>4, <1>6, <1>8, <2>2 DEF Filed
  <2>3. QED
    BY <1>7, <2>1, <2>2
<1>12. \A i, k \in Pending' : i.artifact = k.artifact => i.file = k.file /\ i.job = k.job
  BY <1>6, <1>7, <1>9 DEF Filed
<1>13. NothingForgotten'
  <2> SUFFICES ASSUME NEW g \in File, g \in used', place'[g] # Absent
      PROVE  \/ \E b \in Artifact : artifact'[b].file = g
             \/ \E o \in outbox' : o.file = g
    BY DEF NothingForgotten
  <2>1. \/ \E b \in Artifact : artifact[b].file = g
        \/ \E o \in outbox : o.file = g
    BY <1>2 DEF Filed, NothingForgotten
  <2>2. QED
    BY <1>5, <1>6, <1>8, <2>1
<1>14. \A b \in Artifact : Stored(b)' => b \in used' /\ artifact'[b].file \in used'
  BY <1>2, <1>8 DEF Filed, Stored
<1>15. \A q \in Pass : pass'[q].step = "recording" /\ pass'[q].outcome = "removed"
                         => place'[pass'[q].row.file] = Absent
  BY <1>2, <1>3 DEF Filed
<1>16. QED
  BY <1>11, <1>12, <1>13, <1>14, <1>15 DEF Filed

\* A pass that reads the outbox, removes a file, or records what it did.
LEMMA RemovalFiles ==
  ASSUME Types, Types', Filed, NEW p \in Pass, ReadOutbox(p) \/ RemoveFile(p) \/ RecordRemoval(p)
  PROVE  Filed'
<1>0. /\ UNCHANGED <<artifact, used>> /\ FileTypes
      /\ \A a : Stored(a)' <=> Stored(a)
  BY DEF ReadOutbox, RemoveFile, RecordRemoval, PassFrame, Stored, Types
<1>1. \A i \in Pending : i \in Intent
  BY <1>0, PendingIntents
\* It is enough that every intent is one there was, and that none is lost for a file
\* that is there.
<1>2. ASSUME \A i \in Pending' : \E k \in Pending : SameIntent(k, i),
             \A f \in File : place'[f] # Absent => place[f] # Absent,
             \A f \in File, o \in outbox :
               place'[f] # Absent /\ o.file = f => \E n \in outbox' : n.file = f,
             \A q \in Pass : pass'[q].step = "recording" /\ pass'[q].outcome = "removed"
                               => place'[pass'[q].row.file] = Absent
      PROVE  Filed'
  <2>1. \A i \in Pending' : i.artifact \in used' /\ i.file \in used' /\ ~Stored(i.artifact)'
    BY <1>0, <1>2 DEF Filed, SameIntent
  <2>2. \A i, k \in Pending' : i.artifact = k.artifact => i.file = k.file /\ i.job = k.job
    BY <1>2 DEF Filed, SameIntent
  <2>3. NothingForgotten'
    BY <1>0, <1>2 DEF Filed, NothingForgotten
  <2>4. \A a \in Artifact : Stored(a)' => a \in used' /\ artifact'[a].file \in used'
    BY <1>0 DEF Filed
  <2>5. QED
    BY <1>2, <2>1, <2>2, <2>3, <2>4 DEF Filed
<1>3. \A i : SameIntent(i, i)
  BY DEF SameIntent
<1>4. ASSUME ReadOutbox(p) PROVE Filed'
  <2>1. PICK due \in SUBSET outbox :
          pass' = [pass EXCEPT ![p] = IF due = {} THEN Idle
                                      ELSE [Idle EXCEPT !.step = "removing", !.todo = due]]
    BY <1>4 DEF ReadOutbox
  <2>2. UNCHANGED <<outbox, place>>
    BY <1>4 DEF ReadOutbox
  <2>3. /\ pass'[p].todo \in {due, {}} /\ pass'[p].step # "recording"
        /\ \A q \in Pass : q # p => pass'[q] = pass[q]
    BY <1>0, <2>1 DEF FileTypes, Idle
  <2>4. \A i \in Pending' : i \in Pending
    BY <2>1, <2>2, <2>3 DEF Pending
  <2>5. \A q \in Pass : pass'[q].step = "recording" => pass'[q] = pass[q]
    BY <2>3
  <2>6. QED
    BY <1>2, <1>3, <2>2, <2>4, <2>5 DEF Filed
<1>5. ASSUME RemoveFile(p) PROVE Filed'
  <2>1. PICK i \in pass[p].todo, outcome \in {"removed", "more", "end", "absent", "failed"} :
          /\ pass' = [pass EXCEPT ![p] = [step |-> "recording", todo |-> pass[p].todo \ {i},
                                          row |-> i, outcome |-> outcome]]
          /\ \/ place' = place /\ outcome # "removed"
             \/ place' = [place EXCEPT ![i.file] = Absent]
          /\ UNCHANGED outbox
    BY <1>5, ScanSays DEF RemoveFile
  <2>2. i \in Pending /\ i.file \in File
    <3>1. i \in Intent
      BY <1>0 DEF FileTypes, PassState
    <3>2. QED
      BY <3>1 DEF Pending, Intent
  <2>3. /\ pass'[p].todo = pass[p].todo \ {i} /\ pass'[p].row = i /\ pass'[p].outcome = outcome
        /\ \A q \in Pass : q # p => pass'[q] = pass[q]
    BY <1>0, <2>1 DEF FileTypes
  <2>4. \A k \in Pending' : k \in Pending
    BY <2>1, <2>2, <2>3 DEF Pending
  <2>5. /\ \A f \in File : place'[f] \in {place[f], Absent}
        /\ outcome = "removed" => place'[i.file] = Absent
    BY <1>0, <2>1, <2>2 DEF FileTypes
  <2>6. ASSUME NEW q \in Pass, pass'[q].step = "recording", pass'[q].outcome = "removed"
        PROVE  place'[pass'[q].row.file] = Absent
    <3>1. CASE q = p
      BY <2>3, <2>5, <2>6, <3>1
    <3>2. CASE q # p
      <4>1. place[pass[q].row.file] = Absent /\ pass[q].row \in Intent
        BY <1>0, <2>3, <2>6, <3>2 DEF Filed, FileTypes
      <4>2. QED
        BY <2>3, <2>5, <3>2, <4>1 DEF Intent
    <3>3. QED
      BY <3>1, <3>2
  <2>7. QED
    BY <1>2, <1>3, <2>1, <2>4, <2>5, <2>6
<1>6. ASSUME RecordRemoval(p) PROVE Filed'
  <2> DEFINE i == pass[p].row
             outcome == pass[p].outcome
  <2>1. /\ pass[p].step = "recording" /\ outbox' = Recorded(i, outcome)
        /\ pass' = [pass EXCEPT ![p] = IF pass[p].todo = {} THEN Idle
                                       ELSE [Idle EXCEPT !.step = "removing",
                                                         !.todo = pass[p].todo]]
        /\ UNCHANGED place
    BY <1>6 DEF RecordRemoval
  <2>2. /\ pass'[p].todo = pass[p].todo /\ pass'[p].step # "recording"
        /\ \A q \in Pass : q # p => pass'[q] = pass[q]
    BY <1>0, <2>1 DEF FileTypes, Idle
  <2>3. i \in Pending /\ i \in Intent /\ (outcome = "more" => i.cursor + 1 < Pages)
    BY <1>0, <2>1 DEF Pending, FileTypes
  <2>4. i.cursor \in 0 .. Pages - 1 /\ i.again \in BOOLEAN /\ 0 \in 0 .. Pages - 1
    BY <2>3, Limits DEF Intent
  <2>5. outbox \subseteq Intent
    BY <1>0 DEF FileTypes
  <2> HIDE DEF i, outcome
  <2>6. \/ outcome = "removed" /\ outbox' = {o \in outbox : o.job # i.job \/ o.artifact # i.artifact}
        \/ outbox' = outbox
        \/ \E c \in 0 .. Pages - 1, b \in BOOLEAN : outbox' = Rescheduled(i, c, b)
    <3>1. CASE outcome = "more"
      <4>1. i.cursor + 1 \in 0 .. Pages - 1
        BY <2>3, <2>4, <3>1, Limits
      <4>2. outbox' = Rescheduled(i, i.cursor + 1, i.again)
        BY <2>1, <3>1 DEF Recorded
      <4>3. QED
        BY <2>4, <4>1, <4>2
    <3>2. CASE outcome \in {"end", "absent"}
      <4>1. \E b \in BOOLEAN : outbox' = Rescheduled(i, 0, b)
        BY <2>1, <2>4, <3>2 DEF Recorded
      <4>2. QED
        BY <2>4, <4>1
    <3>3. CASE outcome \notin {"more", "end", "absent"}
      BY <2>1, <3>3 DEF Recorded
    <3>4. QED
      BY <3>1, <3>2, <3>3
  <2>7. /\ \A o \in outbox' : \E k \in outbox : SameIntent(k, o)
        /\ \/ outcome = "removed" /\ \A o \in outbox : o \in outbox' \/ o.artifact = i.artifact
           \/ \A k \in outbox : \E o \in outbox' : SameIntent(k, o)
    BY <1>3, <2>5, <2>6, Rescheduling
  <2>8. outbox \subseteq Pending
    BY <2>5 DEF Pending
  <2>9. \A k \in Pending' : \E o \in Pending : SameIntent(o, k)
    <3>1. ASSUME NEW k \in Pending' PROVE k \in outbox' \/ k \in Pending
      <4>1. k \in Intent
        BY DEF Pending
      <4>2. ASSUME NEW q \in Pass,
                   k \in pass'[q].todo \/ (pass'[q].step = "recording" /\ k = pass'[q].row)
            PROVE  k \in Pending
        <5>1. CASE q = p
          BY <2>2, <4>1, <4>2, <5>1 DEF Pending
        <5>2. CASE q # p
          BY <2>2, <4>1, <4>2, <5>2 DEF Pending
        <5>3. QED
          BY <5>1, <5>2
      <4>3. QED
        BY <4>2 DEF Pending
    <3>2. QED
      BY <1>3, <2>7, <2>8, <3>1
  <2>10. \A q \in Pass : pass'[q].step = "recording" => pass'[q] = pass[q]
    BY <2>2
  <2>11. ASSUME NEW f \in File, NEW o \in outbox, place'[f] # Absent, o.file = f
         PROVE  \E n \in outbox' : n.file = f
    <3>1. CASE \A k \in outbox : \E n \in outbox' : SameIntent(k, n)
      BY <2>11, <3>1 DEF SameIntent
    <3>2. CASE outcome = "removed" /\ \A k \in outbox : k \in outbox' \/ k.artifact = i.artifact
      <4>1. place[i.file] = Absent
        BY <2>1, <3>2 DEF Filed, i, outcome
      <4>2. o.artifact # i.artifact
        BY <2>1, <2>3, <2>8, <2>11, <4>1 DEF Filed
      <4>3. QED
        BY <2>11, <3>2, <4>2
    <3>3. QED
      BY <2>7, <3>1, <3>2
  <2>12. QED
    BY <1>2, <2>1, <2>9, <2>10, <2>11 DEF Filed
<1>7. QED
  BY <1>4, <1>5, <1>6

\* Every step keeps the files and their intents in order.
LEMMA FiledStep ==
  ASSUME ReuseIds = FALSE, Tasks, Filed, [Next]_vars
  PROVE  Filed'
<1>0. Types /\ Types' /\ used \subseteq used'
  BY TasksStep DEF Tasks, OthersKept
<1>1. ASSUME NEW j \in Job, \/ \E state \in State : RegisterState(j, state) \/ AppendProgress(j, state)
                            \/ RenewWorkerLease(j)
      PROVE  Filed'
  <2>1. UNCHANGED <<artifact, outbox, place, pass>> /\ used' \in {used, used \cup {j}}
    BY <1>1 DEF RegisterState, CreateJob, RepeatState, ChangeState, AppendProgress,
                RenewWorkerLease, Frame
  <2>2. \A f \in File : f \in used' => f \in used
    BY <2>1, NamesAreApart
  <2>3. QED
    BY <1>0, <2>1, <2>2, FilesUndisturbed
<1>2. ASSUME NEW a \in Artifact, NEW f \in File,
             RegisterArtifact(a, f) \/ \E j \in Job : RegisterJobArtifact(j, a, f)
      PROVE  Filed'
  BY <1>0, <1>2, StorageFiles
<1>3. ASSUME NEW p \in Pass, ReconcileExpired(p) PROVE Filed'
  BY <1>0, <1>3, ExpiryFiles DEF ReconcileExpired
<1>4. ASSUME NEW p \in Pass, ReadOutbox(p) \/ RemoveFile(p) \/ RecordRemoval(p) PROVE Filed'
  BY <1>0, <1>4, RemovalFiles
<1>5. ASSUME NEW f \in File, Rename(f) PROVE Filed'
  <2>1. PICK page \in 1 .. Pages :
          place[f] # Absent /\ place' = [place EXCEPT ![f] = page]
          /\ UNCHANGED <<artifact, outbox, pass, used>>
    BY <1>5 DEF Rename
  <2>2. \A g \in File : g # f => place'[g] = place[g]
    BY <2>1
  <2>3. Pending' = Pending /\ \A a : Stored(a)' <=> Stored(a)
    BY <2>1 DEF Pending, Stored
  <2>4. ASSUME NEW p \in Pass, pass[p].step = "recording", pass[p].outcome = "removed"
        PROVE  place'[pass[p].row.file] = Absent
    <3>1. place[pass[p].row.file] = Absent /\ pass[p].row \in Intent
      BY <1>0, <2>4 DEF Filed, Types, FileTypes
    <3>2. pass[p].row.file \in File /\ pass[p].row.file # f
      BY <2>1, <3>1 DEF Intent
    <3>3. QED
      BY <2>2, <3>1, <3>2
  <2>5. NothingForgotten'
    BY <2>1, <2>2 DEF Filed, NothingForgotten
  <2>6. QED
    BY <2>1, <2>3, <2>4, <2>5 DEF Filed
<1>6. ASSUME \/ \E t \in Token : Issue(t)
             \/ \E s \in Subscriber : \/ \E scope \in {"status", "events", "cancel"} : Authorize(s, scope)
                                      \/ JobEvents(s) \/ JobStatus(s) \/ CancelJob(s) \/ NoAnswer(s)
             \/ Tick \/ Crash \/ UNCHANGED vars
      PROVE  Filed'
  <2> DEFINE Quiet == UNCHANGED <<artifact, outbox, place, used>>
                      /\ (pass' = pass \/ pass' = [p \in Pass |-> Idle])
  <2>1. (\E t \in Token : Issue(t)) => Quiet
    BY DEF Issue
  <2>2. (\E s \in Subscriber : \/ \E scope \in {"status", "events", "cancel"} : Authorize(s, scope)
                               \/ JobEvents(s) \/ JobStatus(s) \/ CancelJob(s) \/ NoAnswer(s))
          => Quiet
    BY DEF Authorize, JobEvents, JobStatus, CancelJob, NoAnswer, Answered, ReaderFrame
  <2>3. Tick \/ Crash \/ UNCHANGED vars => Quiet
    BY DEF Tick, Crash, vars
  <2>4. Quiet
    BY <1>6, <2>1, <2>2, <2>3
  <2>5. QED
    BY <2>4, FilesUndisturbed
<1>7. QED
  BY <1>1, <1>2, <1>3, <1>4, <1>5, <1>6, Zenon DEF Next

\* A file that was registered is one of a stored artifact or its removal is pending, whatever
\* passes run at once, fail or are cut off by a crash, if no id is used twice.
THEOREM RegisteredFilesAreKept == ASSUME ReuseIds = FALSE PROVE Spec => []NothingForgotten
<1>1. Init => Filed
  <2> SUFFICES ASSUME Init PROVE Filed
    OBVIOUS
  <2>1. Pending = {} /\ used = {} /\ \A p \in Pass : pass[p].step = "idle"
    BY DEF Init, Pending, Idle
  <2>2. \A a \in Artifact : ~Stored(a)
    BY DEF Init, Stored
  <2>3. QED
    BY <2>1, <2>2 DEF Filed, NothingForgotten
<1>2. Tasks /\ Filed /\ [Next]_vars => Filed'
  BY FiledStep
<1>3. Filed => NothingForgotten
  BY DEF Filed
<1>4. QED
  BY <1>1, <1>2, <1>3, TasksHold, PTL DEF Spec

-----------------------------------------------------------------------------
(* The outbox has room for every removal that is put into it. *)

\* A task has one artifact (job_id is unique).
OneLink ==
  \A a, b \in Artifact :
    Stored(a) /\ Stored(b) /\ artifact[a].job = artifact[b].job /\ artifact[a].job # NoJob => a = b

\* No more removals are pending than the outbox has room for.
Bounded == IsFiniteSet(outbox) /\ Cardinality(outbox) <= MaxPending

\* An image has no more members than what it is an image of.
LEMMA ImageIsNoLarger ==
  ASSUME NEW S, IsFiniteSet(S), NEW T, NEW f \in [S -> T], \A t \in T : \E s \in S : f[s] = t
  PROVE  IsFiniteSet(T) /\ Cardinality(T) <= Cardinality(S)
<1>1. f \in Surjection(S, T)
  BY DEF Surjection
<1>2. QED
  BY <1>1, FS_Surjection

\* The artifacts of some tasks are no more than the tasks.
LEMMA FewLinked ==
  ASSUME FileTypes, OneLink, NEW J \in SUBSET Job
  PROVE  LET A == UNION {Linked(j) : j \in J} IN
         IsFiniteSet(A) /\ Cardinality(A) <= Cardinality(J)
<1> DEFINE A == UNION {Linked(j) : j \in J}
           f == [a \in A |-> artifact[a].job]
<1>1. IsFiniteSet(J)
  BY FS_Subset, TablesAreFinite
<1>2. \A a \in A : a \in Artifact /\ Stored(a) /\ artifact[a].job \in J
  BY DEF Linked
<1>3. f \in [A -> J]
  BY <1>2
<1>4. \A a, b \in A : f[a] = f[b] => a = b
  <2>1. NoJob \notin J
    BY NamesAreApart
  <2>2. QED
    BY <1>2, <2>1 DEF OneLink
<1> HIDE DEF A, f
<1>5. f \in Injection(A, J)
  BY <1>3, <1>4 DEF Injection, IsInjective
<1>6. QED
  BY <1>1, <1>5, FS_Injection DEF A

\* A selection takes no more than it was asked for.
LEMMA SelectionIsBounded ==
  ASSUME NEW C, IsFiniteSet(C), NEW D, NEW n \in Nat, NEW B \in Earliest(C, D, n)
  PROVE  B \subseteq C /\ IsFiniteSet(B) /\ Cardinality(B) \in Nat /\ Cardinality(B) <= n
<1>1. B \subseteq C /\ Cardinality(B) = Smaller(n, Cardinality(C))
  BY DEF Earliest
<1>2. IsFiniteSet(B) /\ Cardinality(B) \in Nat /\ Cardinality(C) \in Nat
  BY <1>1, FS_Subset, FS_CardinalityType
<1>3. QED
  BY <1>1, <1>2 DEF Smaller

\* What is queued is at most one intent for each artifact that ends.
LEMMA QueueGrowsBy ==
  ASSUME IsFiniteSet(outbox), NEW entries \in SUBSET Artifact
  PROVE  /\ IsFiniteSet(Queued(entries))
         /\ Cardinality(Queued(entries)) <= Cardinality(outbox) + Cardinality(entries)
<1> DEFINE intent(a) == [job |-> artifact[a].job, artifact |-> a, file |-> artifact[a].file,
                         cursor |-> 0, again |-> FALSE]
           I == {intent(a) : a \in entries}
           f == [a \in entries |-> intent(a)]
           new == {i \in I : ~ \E o \in outbox : o.job = i.job /\ o.artifact = i.artifact}
<1>1. IsFiniteSet(entries)
  BY FS_Subset, TablesAreFinite
<1>2. Intended([a \in Artifact |-> artifact[a].job], entries) = I
  BY DEF Intended
<1>3. Queued(entries) = outbox \cup new
  BY <1>2 DEF Queued
<1>4. f \in [entries -> I] /\ \A i \in I : \E a \in entries : f[a] = i
  OBVIOUS
<1>5. new \in SUBSET I
  OBVIOUS
<1> HIDE DEF I, f, new
<1>6. IsFiniteSet(I) /\ Cardinality(I) <= Cardinality(entries)
  BY <1>1, <1>4, ImageIsNoLarger
<1>7. IsFiniteSet(new) /\ Cardinality(new) <= Cardinality(I)
  BY <1>5, <1>6, FS_Subset
<1>8. /\ IsFiniteSet(outbox \cup new)
      /\ Cardinality(outbox \cup new) =
           Cardinality(outbox) + Cardinality(new) - Cardinality(outbox \cap new)
  BY <1>7, FS_Union
<1>9. IsFiniteSet(outbox \cap new)
  BY <1>7, FS_Intersection
<1>10. /\ Cardinality(outbox) \in Nat /\ Cardinality(new) \in Nat /\ Cardinality(I) \in Nat
       /\ Cardinality(entries) \in Nat /\ Cardinality(outbox \cap new) \in Nat
  BY <1>1, <1>6, <1>7, <1>9, FS_CardinalityType
<1>11. QED
  BY <1>3, <1>6, <1>7, <1>8, <1>10

\* An expiry pass ends no more entries than the outbox has room for, however many have run out:
\* it counts the tasks it retires before the artifacts of no task.
LEMMA ExpiryIsBounded ==
  ASSUME Types, OneLink, Bounded, NEW p \in Pass, NEW now \in Readings, ReconcileAt(p, now)
  PROVE  Bounded'
<1>1. PICK selected \in Earliest(Selectable(now), JobDeadline, Batch),
           apart \in Earliest(SelectableEntries(now), EntryDeadline, Batch) :
        Expire(selected, apart, Room, now)
  BY Zenon DEF ReconcileAt
<1> DEFINE over == {j \in selected : job[j].state \in Terminal /\ job[j].retain <= now}
           filed == {j \in over : Linked(j) # {}}
<1>2. PICK ending \in Earliest(filed, JobDeadline, Room) :
        \E alone \in Earliest(apart, EntryDeadline, Room - Cardinality(ending)) :
          outbox' = Queued(alone \cup UNION {Linked(j) : j \in ending \cup (over \ filed)})
  BY <1>1, Zenon DEF Expire
<1>3. PICK alone \in Earliest(apart, EntryDeadline, Room - Cardinality(ending)) :
        outbox' = Queued(alone \cup UNION {Linked(j) : j \in ending \cup (over \ filed)})
  BY <1>2
<1> DEFINE owned == UNION {Linked(j) : j \in ending}
<1>4. selected \subseteq Job /\ apart \subseteq Artifact
  BY DEF Earliest, Selectable, SelectableEntries, Due, Standalone
<1>5. filed \in SUBSET Job /\ \A j \in over \ filed : Linked(j) = {}
  BY <1>4
<1>6. UNION {Linked(j) : j \in ending \cup (over \ filed)} = owned
  BY <1>5
<1> HIDE DEF over, filed, owned
<1>7. IsFiniteSet(filed) /\ IsFiniteSet(apart)
  BY <1>4, <1>5, FS_Subset, TablesAreFinite
<1>8. Cardinality(outbox) \in Nat /\ Room \in Nat /\ Room = MaxPending - Cardinality(outbox)
  BY Limits, FS_CardinalityType DEF Bounded, Room
<1>9. ending \subseteq filed /\ Cardinality(ending) \in Nat /\ Cardinality(ending) <= Room
  BY <1>7, <1>8, SelectionIsBounded
<1>10. /\ alone \subseteq apart /\ IsFiniteSet(alone)
       /\ Cardinality(alone) \in Nat /\ Cardinality(alone) <= Room - Cardinality(ending)
  <2>1. Room - Cardinality(ending) \in Nat
    BY <1>8, <1>9
  <2>2. QED
    BY <1>7, <2>1, SelectionIsBounded
<1>11. IsFiniteSet(owned) /\ Cardinality(owned) <= Cardinality(ending)
  <2>1. ending \in SUBSET Job
    BY <1>5, <1>9
  <2>2. QED
    BY <2>1, FewLinked DEF owned, Types
<1>12. /\ IsFiniteSet(alone \cup owned)
       /\ Cardinality(alone \cup owned) <= Cardinality(alone) + Cardinality(owned)
  <2>1. IsFiniteSet(alone \cap owned)
    BY <1>10, FS_Intersection
  <2>2. /\ IsFiniteSet(alone \cup owned)
        /\ Cardinality(alone \cup owned) =
             Cardinality(alone) + Cardinality(owned) - Cardinality(alone \cap owned)
    BY <1>10, <1>11, FS_Union
  <2>3. Cardinality(alone \cap owned) \in Nat /\ Cardinality(owned) \in Nat
    BY <1>11, <2>1, FS_CardinalityType
  <2>4. QED
    BY <1>10, <2>2, <2>3
<1>13. alone \cup owned \in SUBSET Artifact
  BY <1>4, <1>10 DEF owned, Linked
<1>14. /\ IsFiniteSet(outbox')
       /\ Cardinality(outbox') <= Cardinality(outbox) + Cardinality(alone \cup owned)
  <2>1. outbox' = Queued(alone \cup owned)
    BY <1>3, <1>6
  <2>2. QED
    BY <1>13, <2>1, QueueGrowsBy DEF Bounded
<1>15. Cardinality(owned) \in Nat /\ Cardinality(alone \cup owned) \in Nat
       /\ Cardinality(outbox') \in Nat
  BY <1>11, <1>12, <1>14, FS_CardinalityType
<1>16. QED
  BY <1>8, <1>9, <1>10, <1>11, <1>12, <1>14, <1>15, Limits DEF Bounded

\* Recording a removal adds no intent.
LEMMA RecordingIsBounded ==
  ASSUME Bounded, NEW p \in Pass, RecordRemoval(p)
  PROVE  Bounded'
<1> DEFINE i == pass[p].row
           outcome == pass[p].outcome
<1>1. outbox' = Recorded(i, outcome)
  BY DEF RecordRemoval
<1>2. ASSUME NEW c, NEW b, outbox' = Rescheduled(i, c, b) PROVE Bounded'
  <2> DEFINE put(k) == IF k.job = i.job /\ k.artifact = i.artifact
                       THEN [k EXCEPT !.cursor = c, !.again = b] ELSE k
             f == [k \in outbox |-> put(k)]
             T == {put(k) : k \in outbox}
  <2>1. outbox' = T
    BY <1>2 DEF Rescheduled
  <2>2. f \in [outbox -> T] /\ \A t \in T : \E k \in outbox : f[k] = t
    OBVIOUS
  <2> HIDE DEF f, T
  <2>3. IsFiniteSet(T) /\ Cardinality(T) <= Cardinality(outbox)
    BY <2>2, ImageIsNoLarger DEF Bounded
  <2>4. Cardinality(outbox) \in Nat /\ Cardinality(T) \in Nat
    BY <2>3, FS_CardinalityType DEF Bounded
  <2>5. QED
    BY <2>1, <2>3, <2>4, Limits DEF Bounded
<1>3. ASSUME outbox' \in SUBSET outbox PROVE Bounded'
  <2>1. IsFiniteSet(outbox') /\ Cardinality(outbox') <= Cardinality(outbox)
    BY <1>3, FS_Subset DEF Bounded
  <2>2. Cardinality(outbox) \in Nat /\ Cardinality(outbox') \in Nat
    BY <2>1, FS_CardinalityType DEF Bounded
  <2>3. QED
    BY <2>1, <2>2, Limits DEF Bounded
<1> HIDE DEF i, outcome
<1>4. CASE outcome = "more"
  BY <1>1, <1>2, <1>4 DEF Recorded
<1>5. CASE outcome \in {"end", "absent"}
  BY <1>1, <1>2, <1>5 DEF Recorded
<1>6. CASE outcome \notin {"more", "end", "absent"}
  BY <1>1, <1>3, <1>6 DEF Recorded
<1>7. QED
  BY <1>4, <1>5, <1>6

\* A task gets its artifact when it has none, and entries only go together with their owner.
LEMMA OneLinkStep ==
  ASSUME Types, OneLink, [Next]_vars
  PROVE  OneLink'
<1>1. ASSUME \A b \in Artifact : artifact'[b] \in {artifact[b], NoEntry} PROVE OneLink'
  BY <1>1 DEF OneLink, Stored
<1>2. ASSUME UNCHANGED artifact PROVE OneLink'
  BY <1>2 DEF OneLink, Stored
<1>3. ASSUME NEW a \in Artifact, NEW entry, StoreEntry(a, entry),
             entry.job # NoJob => Linked(entry.job) = {}
      PROVE  OneLink'
  <2>1. /\ artifact'[a] = entry
        /\ \A b \in Artifact : b # a => artifact'[b] = artifact[b]
    BY <1>3 DEF StoreEntry, Types, FileTypes
  <2>2. \A b \in Artifact : Stored(b) /\ artifact[b].job = entry.job => entry.job = NoJob
    BY <1>3 DEF Linked
  <2>3. QED
    BY <2>1, <2>2 DEF OneLink, Stored
<1>4. ASSUME NEW a \in Artifact, NEW f \in File, RegisterArtifact(a, f) PROVE OneLink'
  BY <1>3, <1>4 DEF RegisterArtifact
<1>5. ASSUME NEW j \in Job, NEW a \in Artifact, NEW f \in File, RegisterJobArtifact(j, a, f)
      PROVE  OneLink'
  <2>1. Linked(j) = {} /\ \E common : StoreEntry(a, [job |-> j, file |-> f, expires |-> common])
    BY <1>5 DEF RegisterJobArtifact
  <2>2. QED
    BY <1>3, <2>1
<1>6. ASSUME NEW p \in Pass, ReconcileExpired(p) PROVE OneLink'
  <2>1. PICK entries, subjects : Ends(entries, subjects)
    BY <1>6, ExpiryEndsEntries DEF ReconcileExpired
  <2>2. QED
    BY <1>1, <2>1 DEF Ends
<1>7. ASSUME NEW j \in Job, \/ \E state \in State : RegisterState(j, state) \/ AppendProgress(j, state)
                            \/ RenewWorkerLease(j)
      PROVE  OneLink'
  BY <1>2, <1>7 DEF RegisterState, CreateJob, RepeatState, ChangeState, AppendProgress,
                    RenewWorkerLease, Frame
<1>8. ASSUME NEW p \in Pass, ReadOutbox(p) \/ RemoveFile(p) \/ RecordRemoval(p) PROVE OneLink'
  BY <1>2, <1>8 DEF ReadOutbox, RemoveFile, RecordRemoval, PassFrame
<1>9. ASSUME NEW s \in Subscriber, \/ \E scope \in {"status", "events", "cancel"} : Authorize(s, scope)
                                   \/ JobEvents(s) \/ JobStatus(s) \/ CancelJob(s) \/ NoAnswer(s)
      PROVE  OneLink'
  BY <1>2, <1>9 DEF Authorize, JobEvents, JobStatus, CancelJob, NoAnswer, Answered, ReaderFrame
<1>10. ASSUME \/ \E t \in Token : Issue(t)
              \/ \E f \in File : Rename(f)
              \/ Tick \/ Crash \/ UNCHANGED vars
       PROVE  OneLink'
  BY <1>2, <1>10 DEF Issue, Rename, Tick, Crash, vars
<1>11. QED
  BY <1>4, <1>5, <1>6, <1>7, <1>8, <1>9, <1>10, Zenon DEF Next

\* Only an expiry pass adds to the outbox, and only the record of a removal changes it.
LEMMA BoundedStep ==
  ASSUME Types, OneLink, Bounded, [Next]_vars
  PROVE  Bounded'
<1>1. ASSUME UNCHANGED outbox PROVE Bounded'
  BY <1>1 DEF Bounded
<1>2. ASSUME NEW p \in Pass, ReconcileExpired(p) PROVE Bounded'
  BY <1>2, ExpiryIsBounded DEF ReconcileExpired
<1>3. ASSUME NEW p \in Pass, RecordRemoval(p) PROVE Bounded'
  BY <1>3, RecordingIsBounded
<1>4. ASSUME NEW p \in Pass, ReadOutbox(p) \/ RemoveFile(p) PROVE Bounded'
  BY <1>1, <1>4 DEF ReadOutbox, RemoveFile
<1>5. ASSUME NEW j \in Job, \/ \E state \in State : RegisterState(j, state) \/ AppendProgress(j, state)
                            \/ RenewWorkerLease(j)
      PROVE  Bounded'
  BY <1>1, <1>5 DEF RegisterState, CreateJob, RepeatState, ChangeState, AppendProgress,
                    RenewWorkerLease, Frame
<1>6. ASSUME NEW a \in Artifact, NEW f \in File,
             RegisterArtifact(a, f) \/ \E j \in Job : RegisterJobArtifact(j, a, f)
      PROVE  Bounded'
  BY <1>1, <1>6 DEF RegisterArtifact, RegisterJobArtifact, StoreEntry
<1>7. ASSUME NEW s \in Subscriber, \/ \E scope \in {"status", "events", "cancel"} : Authorize(s, scope)
                                   \/ JobEvents(s) \/ JobStatus(s) \/ CancelJob(s) \/ NoAnswer(s)
      PROVE  Bounded'
  BY <1>1, <1>7 DEF Authorize, JobEvents, JobStatus, CancelJob, NoAnswer, Answered, ReaderFrame
<1>8. ASSUME \/ \E t \in Token : Issue(t)
             \/ \E f \in File : Rename(f)
             \/ Tick \/ Crash \/ UNCHANGED vars
      PROVE  Bounded'
  BY <1>1, <1>8 DEF Issue, Rename, Tick, Crash, vars
<1>9. QED
  BY <1>2, <1>3, <1>4, <1>5, <1>6, <1>7, <1>8, Zenon DEF Next

\* No more removals are ever pending than the outbox has room for, whatever runs out at once.
LEMMA BoundHolds == Spec => [](OneLink /\ Bounded)
<1>1. Init => OneLink /\ Bounded
  <2> SUFFICES ASSUME Init PROVE OneLink /\ Bounded
    OBVIOUS
  <2>1. outbox = {} /\ \A a \in Artifact : ~Stored(a)
    BY DEF Init, Stored
  <2>2. QED
    BY <2>1, FS_EmptySet, Limits DEF OneLink, Bounded
<1>2. Tasks /\ OneLink /\ Bounded /\ [Next]_vars => (OneLink /\ Bounded)'
  BY OneLinkStep, BoundedStep DEF Tasks
<1>3. QED
  BY <1>1, <1>2, TasksHold, PTL DEF Spec

\* Every row has its columns' types, an event has a revision its task has had, and no more
\* removals are pending than MAX_PENDING_CLEANUPS, although a pass retires many tasks and
\* artifacts at once and passes interleave (reconcile_expired counts what is pending).
THEOREM Typed == Spec => []TypeOK
<1>1. Tasks /\ Bounded => TypeOK
  <2> SUFFICES ASSUME Tasks, Bounded PROVE TypeOK
    OBVIOUS
  <2>1. TaskTypes /\ FileTypes /\ OtherTypes
    BY DEF Tasks, Types
  <2>2. \A j \in Job : /\ events[j] \subseteq Event
                       /\ \A e \in events[j] : e.revision <= job[j].revision
    BY <2>1 DEF Tasks, History, TaskTypes
  <2>3. QED
    BY <2>1, <2>2 DEF TypeOK, TaskTypes, FileTypes, OtherTypes, Bounded
<1>2. QED
  BY <1>1, TasksHold, BoundHolds, PTL

=============================================================================
