----------------------------- MODULE EventStore -----------------------------
(***************************************************************************)
(* The task event store of the server probe (events.rs), with the handlers *)
(* that read it (routes.rs) and the capabilities it shortens and revokes   *)
(* (auth.rs): tasks with a revision and a worker lease, the bounded suffix *)
(* of their events, artifacts whose files are removed through an outbox,   *)
(* and the passes that expire all of it together.                          *)
(*                                                                         *)
(* One action is one immediate transaction.  A function that reads the     *)
(* clock before its transaction begins may wait for the write lock: it     *)
(* works with a reading that is up to BusyWait old.                        *)
(*                                                                         *)
(* X_Fault(...) before a definition X(...) is a faulty variant of it, which *)
(* PROJECT.json substitutes for X to show which property notices.          *)
(*                                                                         *)
(* Left out: the lengths and characters of ids, names and payloads (every  *)
(* function refuses a bad one before it touches the store); the columns    *)
(* added by open to an older database; attempt_count and next_attempt_at   *)
(* (a pending removal may be tried again at any time).  An event's payload *)
(* is the state of the snapshot written with it.                           *)
(***************************************************************************)
EXTENDS Integers, FiniteSets, Sequences

CONSTANTS
  Job, Artifact, File, Token, Subscriber,
  Subject,        \* of each token: the task or artifact it is issued for
  Scopes,         \* of each token
  Holds,          \* of each subscriber: the token it presents
  Pass,           \* the passes that may run at once: the maintenance pass, requests
  NoJob, NoArtifact, NoFile,
  LeaseSeconds,   \* DEFAULT_JOB_LEASE_SECONDS
  Ttl,            \* capability_ttl
  BusyWait,       \* SQLITE_BUSY_TIMEOUT
  Retained,       \* MAX_RETAINED_SUFFIX
  MaxActive,      \* MAX_ACTIVE_JOBS_AND_CLEANUPS
  MaxPending,     \* MAX_PENDING_CLEANUPS
  Batch,          \* MAX_EXPIRY_BATCH
  Pages,          \* pages of the artifact directory
  ReuseIds,       \* whether a caller may use the id of a retired task or artifact again
  MaxClock,       \* bound: the last second
  MaxEvents,      \* bound: the revision up to which a task that still runs is written to
  MaxFaults       \* bound: crashes, failed removals and renamed files

ASSUME NamesAreApart ==
  /\ NoJob \notin Job /\ NoArtifact \notin Artifact /\ NoFile \notin File
  /\ File \cap (Job \cup Artifact) = {} /\ Job \cap Artifact = {}
ASSUME SubscribersFollowJobs == \A s \in Subscriber : Subject[Holds[s]] \in Job
ASSUME TablesAreFinite == IsFiniteSet(Job) /\ IsFiniteSet(Artifact) /\ IsFiniteSet(Token)
ASSUME LimitsAreNumbers ==
  /\ {LeaseSeconds, Ttl, Pages, MaxEvents, MaxClock} \subseteq Nat \ {0}
  /\ {BusyWait, Retained, MaxActive, MaxPending, Batch, MaxFaults} \subseteq Nat
  /\ ReuseIds \in BOOLEAN

VARIABLES
  clock,
  job,        \* event_jobs
  events,     \* job_events
  artifact,   \* event_artifacts
  outbox,     \* event_expiry_outbox
  caps,       \* capabilities: expires_at
  place,      \* the artifact directory: the page that lists a file
  pass,       \* what each pass is doing
  reader,     \* what each subscriber knows and has asked for
  faults,
  log,        \* auxiliary: every state of a task since it was created
  used        \* auxiliary: the ids and files registered so far

vars == <<clock, job, events, artifact, outbox, caps, place, pass, reader, faults, log, used>>

-----------------------------------------------------------------------------
(* Rows. *)

Active == {"queued", "running"}
Terminal == {"completed", "failed", "cancelled"}
State == Active \cup Terminal

Revision == 0 .. MaxEvents + 1
Time == 0 .. MaxClock + Ttl + LeaseSeconds

NoRow == [state |-> "none", revision |-> 0, retain |-> 0, lease |-> 0, retention |-> 0]
Row == [state : State, revision : Revision \ {0}, retain : Time, lease : Time,
        retention : 1 .. Ttl]

Event == [revision : Revision \ {0}, state : State, completion : BOOLEAN]

NoEntry == [job |-> NoJob, file |-> NoFile, expires |-> 0]
Entry == [job : Job \cup {NoJob}, file : File, expires : Time]

Intent == [job : Job \cup {NoJob}, artifact : Artifact, file : File,
           cursor : 0 .. Pages - 1, again : BOOLEAN]

NoIntent == [job |-> NoJob, artifact |-> NoArtifact, file |-> NoFile, cursor |-> 0,
             again |-> FALSE]

NotIssued == -1

\* A file is listed under its own name, under another name on one of the pages
\* of the directory, or not at all.
Absent == 0
OwnName == Pages + 1

Idle == [step |-> "idle", todo |-> {}, row |-> NoIntent, outcome |-> "none"]
Unread == [last |-> 0, count |-> 0, view |-> "none", step |-> "idle"]

JobOf(s) == Subject[Holds[s]]

-----------------------------------------------------------------------------
(* Time. *)

Readings == {t \in clock - BusyWait .. clock : t >= 1}

Smaller(a, b) == IF a <= b THEN a ELSE b

Expired(row, now) ==
  IF row.state \in Terminal THEN row.retain <= now ELSE row.lease <= now

Live(t, now) == caps[t] > now

-----------------------------------------------------------------------------
Init ==
  /\ clock = 1
  /\ job = [j \in Job |-> NoRow]
  /\ events = [j \in Job |-> {}]
  /\ artifact = [a \in Artifact |-> NoEntry]
  /\ outbox = {}
  /\ caps = [t \in Token |-> NotIssued]
  /\ place = [f \in File |-> OwnName]
  /\ pass = [p \in Pass |-> Idle]
  /\ reader = [s \in Subscriber |-> Unread]
  /\ faults = 0
  /\ log = [j \in Job |-> <<>>]
  /\ used = {}

Present(j) == job[j] # NoRow
Stored(a) == artifact[a] # NoEntry
Standalone == {a \in Artifact : Stored(a) /\ artifact[a].job = NoJob}

\* The artifact that is joined to a task; job_id is unique.
Linked(j) == {a \in Artifact : Stored(a) /\ artifact[a].job = j}

Admits ==
  Cardinality({j \in Job : job[j].lease > clock \/ job[j].retain > clock})
    + Cardinality({a \in Standalone : artifact[a].expires > clock}) < MaxActive

Room == MaxPending - Cardinality(outbox)

Unused(id) == ReuseIds \/ id \notin used

-----------------------------------------------------------------------------
(* Events of a task. *)

\* The newest ordinary events stay, and the completion.
Pruned(written) ==
  LET ordinary == {e \in written : ~e.completion} IN
  {e \in written : e.completion
     \/ Cardinality({o \in ordinary : o.revision > e.revision}) < Retained}

Written(j, state) ==
  Pruned(events[j] \cup {[revision |-> job[j].revision + 1, state |-> state,
                          completion |-> state = "completed"]})

\* append_in_transaction, for one task; the caller sets the deadlines.
AppendEvent(j, state, row) ==
  /\ job' = [job EXCEPT ![j] = [row EXCEPT !.state = state, !.revision = @ + 1]]
  /\ events' = [events EXCEPT ![j] = Written(j, state)]
  /\ log' = [log EXCEPT ![j] = Append(@, state)]

Frame == UNCHANGED <<clock, artifact, outbox, caps, place, pass, reader, faults>>

Writable(j, state) == state \in Terminal \/ job[j].revision < MaxEvents

-----------------------------------------------------------------------------
(* Writers of a task. *)

Deadline(called) == called + Ttl
Retention(called) == IF Deadline(called) > clock THEN Deadline(called) - clock ELSE 1

\* The row of a task in a state that it is registered with now.
Dated(row, state, called) ==
  IF state \in Terminal
  THEN [row EXCEPT !.retain = Deadline(called), !.lease = 0, !.retention = Retention(called)]
  ELSE [row EXCEPT !.lease = clock + LeaseSeconds, !.retention = Retention(called)]

CreateJob(j, state, called) ==
  /\ ~Present(j) /\ Unused(j) /\ Admits
  /\ state \in Terminal => Deadline(called) > clock
  /\ AppendEvent(j, state, [Dated(NoRow, state, called) EXCEPT !.retain = Deadline(called)])
  /\ used' = used \cup {j}
  /\ Frame

\* The state it has: a task that runs gets a new lease.
RepeatState(j, state, called) ==
  /\ Present(j) /\ ~Expired(job[j], clock)
  /\ job[j].state = state /\ state \in Active
  /\ job' = [job EXCEPT ![j] = Dated(@, state, called)]
  /\ Frame /\ UNCHANGED <<events, log, used>>

ChangeState_Fault(j, state, called) ==
  /\ Present(j) /\ ~Expired(job[j], clock)
  /\ job[j].state # state /\ Writable(j, state)
  /\ AppendEvent(j, state, Dated(job[j], state, called))
  /\ Frame /\ UNCHANGED used

ChangeState(j, state, called) ==
  /\ Present(j) /\ ~Expired(job[j], clock)
  /\ job[j].state # state /\ job[j].state \notin Terminal /\ Writable(j, state)
  /\ AppendEvent(j, state, Dated(job[j], state, called))
  /\ Frame /\ UNCHANGED used

RegisterState(j, state) ==
  \E called \in Readings : \/ CreateJob(j, state, called)
                           \/ RepeatState(j, state, called)
                           \/ ChangeState(j, state, called)

\* An event of a task that runs; its snapshot may not be terminal.
AppendProgress(j, state) ==
  /\ Present(j) /\ job[j].state \notin Terminal /\ state \in Active
  /\ ~Expired(job[j], clock) /\ Writable(j, state)
  /\ AppendEvent(j, state, job[j])
  /\ Frame /\ UNCHANGED used

\* `now' is read before the transaction; append_in_transaction reads it again.
Cancelled(j, now) ==
  [job[j] EXCEPT !.retain = now + job[j].retention, !.lease = 0]

Cancel(j) == \E now \in Readings :
  /\ Present(j) /\ ~Expired(job[j], now) /\ ~Expired(job[j], clock)
  /\ job[j].state \notin Terminal
  /\ AppendEvent(j, "cancelled", Cancelled(j, now))

RenewWorkerLease(j) == \E now \in Readings, seconds \in 1 .. LeaseSeconds :
  /\ Present(j) /\ job[j].state \notin Terminal
  /\ job[j].lease > now
  /\ job' = [job EXCEPT ![j].lease = now + seconds]
  /\ Frame /\ UNCHANGED <<events, log, used>>

-----------------------------------------------------------------------------
(* Capabilities and artifacts. *)

Issue(t) == \E expires \in {clock + 1, clock + Ttl} :
  /\ caps[t] = NotIssued
  /\ caps' = [caps EXCEPT ![t] = expires]
  /\ UNCHANGED <<clock, job, events, artifact, outbox, place, pass, reader, faults, log, used>>

\* The file must be there under its name; each file is registered once.
Registrable(a, f) ==
  /\ ~Stored(a) /\ Unused(a)
  /\ f \notin used /\ place[f] = OwnName
  /\ Room > 0

StoreEntry(a, entry) ==
  /\ artifact' = [artifact EXCEPT ![a] = entry]
  /\ used' = used \cup {a, entry.file}
  /\ UNCHANGED <<clock, events, outbox, place, pass, reader, faults, log>>

RegisterArtifact(a, f) == \E called \in Readings :
  /\ Registrable(a, f) /\ Admits
  /\ StoreEntry(a, [job |-> NoJob, file |-> f, expires |-> Deadline(called)])
  /\ UNCHANGED <<job, caps>>

Grants(subject, scope) == {t \in Token : Subject[t] = subject /\ scope \in Scopes[t]}

\* The live capabilities that open the task's state, its events or the file.
LinkCapabilities(j, a) ==
  {t \in Grants(j, "status") \cup Grants(j, "events") \cup Grants(a, "download") :
     Live(t, clock)}

CommonExpiry(j, a, proposed) ==
  CHOOSE x \in {proposed, job[j].retain} \cup {caps[t] : t \in LinkCapabilities(j, a)} :
    /\ x <= proposed /\ x <= job[j].retain
    /\ \A t \in LinkCapabilities(j, a) : x <= caps[t]

Shortened_Fault(j, a, common) ==
  [t \in Token |-> IF Subject[t] \in {j, a} /\ caps[t] # NotIssued THEN common ELSE caps[t]]

Shortened(j, a, common) ==
  [t \in Token |-> IF t \in LinkCapabilities(j, a) THEN Smaller(caps[t], common) ELSE caps[t]]

LinkedUntil_Fault(j, common) == job[j].retain

LinkedUntil(j, common) == Smaller(job[j].retain, common)

RegisterJobArtifact(j, a, f) == \E called \in Readings :
  LET common == CommonExpiry(j, a, Deadline(called))
      Granted(subject, scope) == \E t \in Grants(subject, scope) : Live(t, clock)
  IN
  /\ Registrable(a, f) /\ Linked(j) = {}
  /\ job[j].state = "completed"
  /\ job[j].retain > clock /\ Deadline(called) > clock
  /\ Granted(j, "status") /\ Granted(j, "events") /\ Granted(a, "download")
  /\ common > clock
  /\ caps' = Shortened(j, a, common)
  /\ job' = [job EXCEPT ![j].retain = LinkedUntil(j, common)]
  /\ StoreEntry(a, [job |-> j, file |-> f, expires |-> common])

-----------------------------------------------------------------------------
(* Expiry. *)

\* At most `size' of the candidates, the earliest first; ties fall by id.
Earliest(candidates, deadline, size) ==
  {B \in SUBSET candidates :
     /\ Cardinality(B) = Smaller(size, Cardinality(candidates))
     /\ \A b \in B, c \in candidates \ B : deadline[b] <= deadline[c]}

Due(now) == {j \in Job : Present(j) /\ IF job[j].lease > 0 THEN job[j].lease <= now
                                                         ELSE job[j].retain <= now}

JobDeadline == [j \in Job |-> IF job[j].lease > 0 THEN job[j].lease ELSE job[j].retain]
EntryDeadline == [a \in Artifact |-> artifact[a].expires]

FailedRow(j, now) ==
  [job[j] EXCEPT !.state = "failed", !.revision = @ + 1,
                 !.retain = now + job[j].retention, !.lease = 0]

\* INSERT OR IGNORE: an intent with the same key stays as it is.
Intended(owner, entries) ==
  {[job |-> owner[a], artifact |-> a, file |-> artifact[a].file, cursor |-> 0,
    again |-> FALSE] : a \in entries}

Queued(entries) ==
  outbox \cup {i \in Intended([a \in Artifact |-> artifact[a].job], entries) :
                 ~ \E o \in outbox : o.job = i.job /\ o.artifact = i.artifact}

Revoked(subjects) ==
  [t \in Token |-> IF Subject[t] \in subjects /\ caps[t] # NotIssued THEN 0 ELSE caps[t]]

\* A worker that is expired may still end its task in this way only.
Failing(selected) == {j \in selected : job[j].state \in Active}

\* What one pass does to the tasks in `selected' (at most Batch of them) and to
\* the artifacts of no task in `apart'.
Expire(selected, apart, room, now) ==
  LET failing == Failing(selected)
      over == {j \in selected : job[j].state \in Terminal /\ job[j].retain <= now}
      filed == {j \in over : Linked(j) # {}}
  IN
  \E ending \in Earliest(filed, JobDeadline, room) :
    LET retired == ending \cup (over \ filed)
        left == room - Cardinality(ending)
    IN
    \E alone \in Earliest(apart, EntryDeadline, left) :
      LET entries == alone \cup UNION {Linked(j) : j \in retired} IN
      /\ job' = [j \in Job |-> IF j \in failing THEN FailedRow(j, now)
                               ELSE IF j \in retired THEN NoRow ELSE job[j]]
      /\ events' = [j \in Job |-> IF j \in failing THEN Written(j, "failed")
                                  ELSE IF j \in retired THEN {} ELSE events[j]]
      /\ log' = [j \in Job |-> IF j \in failing THEN Append(log[j], "failed")
                               ELSE IF j \in retired THEN <<>> ELSE log[j]]
      /\ artifact' = [a \in Artifact |-> IF a \in entries THEN NoEntry ELSE artifact[a]]
      /\ caps' = Revoked(retired \cup entries)
      /\ outbox' = Queued(entries)

\* Without room in the outbox, tasks and artifacts that have a file wait.
Selectable(now) ==
  IF Room > 0 THEN Due(now)
  ELSE {j \in Due(now) : Linked(j) = {} \/ (job[j].lease > 0 /\ job[j].lease <= now)}

SelectableEntries(now) ==
  IF Room > 0 THEN {a \in Standalone : artifact[a].expires <= now} ELSE {}

ReconcileAt(p, now) ==
  /\ pass[p].step = "idle"
  /\ \E selected \in Earliest(Selectable(now), JobDeadline, Batch),
        apart \in Earliest(SelectableEntries(now), EntryDeadline, Batch) :
       Expire(selected, apart, Room, now)
  /\ pass' = [pass EXCEPT ![p].step = "expired"]
  /\ UNCHANGED <<clock, place, reader, faults, used>>

ReconcileExpired(p) == \E now \in Readings : ReconcileAt(p, now)

-----------------------------------------------------------------------------
(* Removal of the files. *)

PassFrame == UNCHANGED <<clock, job, events, artifact, caps, reader, log, used>>

\* The batch of due intents, read without a transaction.
ReadOutbox(p) ==
  /\ pass[p].step = "expired"
  /\ \E due \in SUBSET outbox :
       /\ Cardinality(due) = Smaller(Batch, Cardinality(outbox))
       /\ pass' = [pass EXCEPT ![p] =
                     IF due = {} THEN Idle ELSE [Idle EXCEPT !.step = "removing", !.todo = due]]
  /\ PassFrame /\ UNCHANGED <<outbox, place, faults>>

\* remove_named_file_if_identity_page: the name first, then one page.
Found_Fault(i) == place[i.file] = OwnName

Found(i) == place[i.file] \in {OwnName, i.cursor + 1}

Scan(i) ==
  CASE Found(i) -> "removed"
    [] ~Found(i) /\ i.cursor + 1 < Pages -> "more"
    [] ~Found(i) /\ i.cursor + 1 = Pages /\ i.cursor > 0 -> "end"
    [] OTHER -> "absent"

RemoveFile(p) == \E i \in pass[p].todo :
  LET Goes(outcome) ==
        pass' = [pass EXCEPT ![p] = [step |-> "recording", todo |-> pass[p].todo \ {i},
                                     row |-> i, outcome |-> outcome]]
  IN
  /\ pass[p].step = "removing"
  /\ \/ /\ place' = IF Found(i) THEN [place EXCEPT ![i.file] = Absent] ELSE place
        /\ Goes(Scan(i)) /\ UNCHANGED faults
     \/ /\ faults < MaxFaults /\ faults' = faults + 1
        /\ Goes("failed") /\ UNCHANGED place
  /\ PassFrame /\ UNCHANGED outbox

\* UPDATE and DELETE find their row by its key; the row may be gone.
Rescheduled(i, cursor, again) ==
  {IF o.job = i.job /\ o.artifact = i.artifact
   THEN [o EXCEPT !.cursor = cursor, !.again = again] ELSE o : o \in outbox}

Recorded_Fault(i, outcome) ==
  IF outcome \in {"removed", "more"}
  THEN {o \in outbox : o.job # i.job \/ o.artifact # i.artifact}
  ELSE outbox

Recorded(i, outcome) ==
  CASE outcome = "removed" -> {o \in outbox : o.job # i.job \/ o.artifact # i.artifact}
    [] outcome = "more" -> Rescheduled(i, i.cursor + 1, i.again)
    [] outcome = "end" -> Rescheduled(i, 0, ~i.again)   \* one pass more, then a review
    [] outcome = "absent" -> Rescheduled(i, 0, FALSE)   \* absence proves nothing
    [] OTHER -> outbox

RecordRemoval(p) ==
  /\ pass[p].step = "recording"
  /\ outbox' = Recorded(pass[p].row, pass[p].outcome)
  /\ pass' = [pass EXCEPT ![p] =
                IF pass[p].todo = {} THEN Idle
                ELSE [Idle EXCEPT !.step = "removing", !.todo = pass[p].todo]]
  /\ PassFrame /\ UNCHANGED <<place, faults>>

-----------------------------------------------------------------------------
(* Readers: the requests for events, and for the end of a task. *)

Request(s, step) == reader' = [reader EXCEPT ![s].step = step]

ReaderFrame == UNCHANGED <<clock, artifact, outbox, caps, place, pass, faults, used>>

\* authorize is a transaction of its own.
Authorize(s, scope) ==
  /\ reader[s].step = "idle"
  /\ scope \in Scopes[Holds[s]] /\ Live(Holds[s], clock)
  /\ Request(s, scope)
  /\ ReaderFrame /\ UNCHANGED <<job, events, log>>

Missing(j, last) == {e \in events[j] : e.revision > last}

\* All events after `last', in an unbroken row up to the current revision.
Complete_Fault(j, last) == job[j].revision - last <= Retained + 1

Complete(j, last) ==
  /\ job[j].revision - last <= Retained + 1
  /\ {e.revision : e \in Missing(j, last)} = last + 1 .. job[j].revision

\* The answer brings the events that are missing, or the snapshot; the reader
\* goes by the last event it gets, and counts them.
Snapshot(j) ==
  [last |-> job[j].revision, count |-> job[j].revision, view |-> job[j].state,
   step |-> "idle"]

Replayed(s, j) ==
  LET missing == Missing(j, reader[s].last) IN
  [last |-> job[j].revision,
   count |-> reader[s].count + Cardinality(missing),
   view |-> IF missing = {} THEN reader[s].view
            ELSE (CHOOSE e \in missing : e.revision = job[j].revision).state,
   step |-> "idle"]

\* The answer to a request for events or for the status; it may be lost.
Answered(s, answer) == /\ reader' = [reader EXCEPT ![s] = answer]
                       /\ ReaderFrame /\ UNCHANGED <<job, events, log>>

Available(j) == Present(j) /\ ~Expired(job[j], clock)

JobEvents(s) ==
  LET j == JobOf(s) IN
  /\ reader[s].step = "events"
  /\ Available(j) /\ reader[s].last <= job[j].revision
  /\ Answered(s, IF Complete(j, reader[s].last) THEN Replayed(s, j) ELSE Snapshot(j))

JobStatus(s) ==
  /\ reader[s].step = "status" /\ Available(JobOf(s))
  /\ Answered(s, Snapshot(JobOf(s)))

NoAnswer(s) == reader[s].step # "idle" /\ Answered(s, [reader[s] EXCEPT !.step = "idle"])

CancelJob(s) ==
  /\ reader[s].step = "cancel"
  /\ Cancel(JobOf(s))
  /\ Request(s, "idle")
  /\ ReaderFrame

-----------------------------------------------------------------------------
(* The environment. *)

Tick == /\ clock < MaxClock /\ clock' = clock + 1
        /\ UNCHANGED <<job, events, artifact, outbox, caps, place, pass, reader, faults, log,
                       used>>

\* A file that is already known gets another name, or moves to another page.
Rename(f) == \E page \in 1 .. Pages :
  /\ f \in used /\ place[f] # Absent /\ faults < MaxFaults
  /\ place' = [place EXCEPT ![f] = page] /\ faults' = faults + 1
  /\ UNCHANGED <<clock, job, events, artifact, outbox, caps, pass, reader, log, used>>

\* Only the database and the directory outlive the process.
Crash == /\ faults < MaxFaults /\ faults' = faults + 1
         /\ pass' = [p \in Pass |-> Idle]
         /\ reader' = [s \in Subscriber |-> [reader[s] EXCEPT !.step = "idle"]]
         /\ UNCHANGED <<clock, job, events, artifact, outbox, caps, place, log, used>>

Next ==
  \/ \E j \in Job :
       \/ \E state \in State : RegisterState(j, state) \/ AppendProgress(j, state)
       \/ RenewWorkerLease(j)
       \/ \E a \in Artifact, f \in File : RegisterJobArtifact(j, a, f)
  \/ \E a \in Artifact, f \in File : RegisterArtifact(a, f)
  \/ \E t \in Token : Issue(t)
  \/ \E p \in Pass : ReconcileExpired(p) \/ ReadOutbox(p) \/ RemoveFile(p) \/ RecordRemoval(p)
  \/ \E s \in Subscriber : \/ \E scope \in {"status", "events", "cancel"} : Authorize(s, scope)
                           \/ JobEvents(s) \/ JobStatus(s) \/ CancelJob(s) \/ NoAnswer(s)
  \/ \E f \in File : Rename(f)
  \/ Tick \/ Crash

Spec == Init /\ [][Next]_vars

\* Each maintenance tick runs a pass to its end; of the passes that follow each
\* other, one gets the write lock at once and works with the present second.
Fairness == \A p \in Pass :
  /\ SF_vars(ReconcileAt(p, clock))
  /\ WF_vars(ReadOutbox(p)) /\ WF_vars(RemoveFile(p)) /\ WF_vars(RecordRemoval(p))

FairSpec == Spec /\ Fairness

-----------------------------------------------------------------------------
(* Properties. *)

\* Every row has its columns' types; an event's revision is one its task has had.
TypeOK ==
  /\ clock \in 1 .. MaxClock
  /\ job \in [Job -> Row \cup {NoRow}]
  /\ \A j \in Job : /\ events[j] \subseteq Event
                    /\ \A e \in events[j] : e.revision <= job[j].revision
  /\ artifact \in [Artifact -> Entry \cup {NoEntry}]
  /\ outbox \subseteq Intent /\ Cardinality(outbox) <= MaxPending
  /\ caps \in [Token -> Time \cup {NotIssued}]
  /\ place \in [File -> Absent .. OwnName]
  /\ faults \in 0 .. MaxFaults

\* A subscriber that sends the id of the last event it got has received each
\* event between two snapshots exactly once, and the state it believes in is
\* the one the task had at that revision (replay_after, snapshot), although the
\* oldest events are pruned, answers are lost and tasks fail by expiry.
SubscriberExact ==
  \A s \in Subscriber :
    LET history == log[JobOf(s)] IN
    /\ reader[s].count = reader[s].last
    /\ 0 < reader[s].last /\ reader[s].last <= Len(history)
         => reader[s].view = history[reader[s].last]

\* A reader that is no more than the retained suffix behind is never told to
\* start over (append_in_transaction prunes what replay_after asks for).
NoNeedlessResync ==
  \A j \in Job : \A last \in 0 .. job[j].revision :
    job[j].revision - last <= Retained => Complete(j, last)

\* Replay neither skips nor repeats an event, nor gives up without need.
ReplayIsExact == SubscriberExact /\ NoNeedlessResync

\* A task and the artifact linked to it end at the same second: neither the
\* link, nor a late call of a writer, nor a cancellation parts them.
LinkedTogether ==
  \A a \in Artifact :
    Stored(a) /\ artifact[a].job # NoJob =>
      /\ job[artifact[a].job].state = "completed"
      /\ job[artifact[a].job].retain = artifact[a].expires

\* Linking an artifact only shortens capabilities, and none that has expired or
\* was revoked becomes live again.
NoRevival == [][\A t \in Token : caps[t] # NotIssued => caps'[t] <= caps[t]]_vars

\* A file that was registered is there for a download, or its removal is
\* pending: nothing leaves it behind in the directory.
NothingForgotten ==
  \A f \in File : f \in used /\ place[f] # Absent =>
    \/ \E a \in Artifact : artifact[a].file = f
    \/ \E o \in outbox : o.file = f

\* After the terminal state of a task nothing is written to it.
Log == INSTANCE EventLog WITH
  Follows <- [s \in Subscriber |-> JobOf(s)],
  at <- [s \in Subscriber |-> [last |-> reader[s].last, view |-> reader[s].view]]

ImplementsLog == Log!Spec

\* A worker that is lost does not leave its task running: it ends and is
\* retired.
LapsedJobEnds ==
  \A j \in Job : (job[j].state \in Active /\ job[j].lease <= clock)
                    ~> (job[j].state \notin Active \/ job[j].lease > clock)

\* What has run out is removed from the directory as well, wherever a rename
\* has put it.
FilesRemoved ==
  \A f \in File : (\E o \in outbox : o.file = f) ~> (place[f] = Absent)

\* So a pass that comes again and again leaves nothing behind.
ExpiryEnds == LapsedJobEnds /\ FilesRemoved

=============================================================================
