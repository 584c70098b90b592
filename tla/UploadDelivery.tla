--------------------------- MODULE UploadDelivery ---------------------------
(***************************************************************************)
(* How the server of routes.rs receives an upload and answers it: request  *)
(* handlers that wait with deadlines, upload workers that cannot be        *)
(* cancelled, the bounded storage pool, connections that break, the        *)
(* maintenance pass and the shutdown.                                      *)
(*                                                                         *)
(* The ledger is what its transactions promise here (UploadLedger has      *)
(* them in full): a session with its charge and its settlement intent.     *)
(* A deadline may pass at any moment a handler waits: what it waits for is *)
(* then late, and nobody's.                                                *)
(***************************************************************************)
EXTENDS Naturals, FiniteSets

CONSTANTS
  Creation,         \* POST requests, each creates a session of its own
  Upload,           \* PUT requests, each on a connection of its own
  Target,           \* [Upload -> Creation]: the session a PUT names
  UploadPermits,    \* max_upload_workers
  StoragePermits,   \* max_storage_workers
  MaxChunks,        \* chunks a client sends (bound of the model)
  MaxFaults         \* storage errors, panics, lapsed leases (bound of the model)

ASSUME RequestsAssumption ==
  /\ Creation \cap Upload = {} /\ "none" \notin Upload /\ Target \in [Upload -> Creation]
  /\ MaxChunks \in Nat /\ MaxFaults \in Nat

Session == Creation      \* a session is named by the request that created it
Request == Creation \cup Upload
Maintenance == "maintenance"

\* Operations that run on the storage pool, named by owner and kind.
Kind == {"begin", "mark", "abort", "acknowledge"}
Op(owner, kind) == <<owner, kind>>
Reconciliation == Op(Maintenance, "reconcile")
Operation == {Op(c, "reserve") : c \in Creation} \cup {Op(u, kind) : u \in Upload, kind \in Kind}
               \cup {Reconciliation}

VARIABLES
  ledger,     \* [Session -> Row]
  handler,    \* [Request -> what the handler of the request waits for]
  chunks,     \* [Upload -> chunks accepted]
  answer,     \* [Request -> what the handler decided to answer]
  transport,  \* [Upload -> what became of the connection]
  worker,     \* [Upload -> what the upload worker is doing]
  claimed,    \* [Upload -> the worker holds the receiving lease]
  mailbox,    \* [Upload -> the command in the worker's channel, of capacity 1]
  reply,      \* [Upload -> the answer of the worker to the current command]
  active,     \* active_uploads
  job,        \* [Operation -> its phase on the storage pool]
  spared,     \* the uploads the running maintenance pass excludes
  unacknowledged, \* uploads counted by pending_delivery_acknowledgements
  lateFailures,   \* failed_late_compensations
  server,     \* "serving", "draining", "aborted", "stopped" or "failed"
  serveError, \* serve_error
  faults

requestVars == <<handler, chunks, answer, transport>>
workerVars  == <<worker, claimed, mailbox, reply, active>>
serverVars  == <<spared, unacknowledged, lateFailures, server, serveError>>
vars == <<ledger, requestVars, workerVars, job, serverVars, faults>>

-----------------------------------------------------------------------------
Row == [state : {"absent", "reserved", "receiving", "uploaded", "expired"},
        lapsed : BOOLEAN,            \* the receiving lease has run out
        charged : BOOLEAN,
        intent : {"none", "pending", "attempted", "marked"},
        by : Upload \cup {"none"}]   \* the upload that settled it
Absent == [state |-> "absent", lapsed |-> FALSE, charged |-> FALSE, intent |-> "none",
           by |-> "none"]

Waiting == {"starting", "writing", "finishing", "stopping"}  \* await_upload_worker
Job == {"none", "queued", "executing", "compensating", "done", "failed"}

TypeOK ==
  /\ ledger \in [Session -> Row]
  /\ handler \in [Request -> {"idle", "creating", "streaming", "beginning", "marking",
                              "aborting", "writingAnswer", "acknowledging", "closed"} \cup Waiting]
  /\ chunks \in [Upload -> 0 .. MaxChunks]
  /\ answer \in [Request -> {"none", "success", "error", "cut"}]
  /\ transport \in [Upload -> {"open", "written", "broken"}]
  /\ worker \in [Upload -> {"none", "idle", "start", "open", "write", "finish", "settled",
                            "abort", "panicked", "ended"}]
  /\ claimed \in [Upload -> BOOLEAN] /\ active \subseteq Session
  /\ mailbox \in [Upload -> {"empty", "start", "write", "finish", "abort"}]
  /\ reply \in [Upload -> {"none", "ok", "error"}]
  /\ job \in [Operation -> Job]
  /\ spared \subseteq Session /\ unacknowledged \subseteq Upload
  /\ lateFailures \in Nat
  /\ server \in {"serving", "draining", "aborted", "stopped", "failed"}
  /\ serveError \in BOOLEAN /\ faults \in 0 .. MaxFaults

Init ==
  /\ ledger = [s \in Session |-> Absent]
  /\ handler = [r \in Request |-> "idle"]
  /\ chunks = [u \in Upload |-> 0]
  /\ answer = [r \in Request |-> "none"]
  /\ transport = [u \in Upload |-> "open"]
  /\ worker = [u \in Upload |-> "none"]
  /\ claimed = [u \in Upload |-> FALSE]
  /\ mailbox = [u \in Upload |-> "empty"]
  /\ reply = [u \in Upload |-> "none"]
  /\ active = {}
  /\ job = [o \in Operation |-> "none"]
  /\ spared = {}
  /\ unacknowledged = {}
  /\ lateFailures = 0
  /\ server = "serving"
  /\ serveError = FALSE
  /\ faults = 0

Fault == faults < MaxFaults /\ faults' = faults + 1

-----------------------------------------------------------------------------
(* The ledger's transactions, as UploadLedger has them.                    *)

Set(s, r) == ledger' = [ledger EXCEPT ![s] = r]
Reserved == [Absent EXCEPT !.state = "reserved"]
Received(r) == [r EXCEPT !.state = "receiving"]
Lapsed(r) == [r EXCEPT !.lapsed = TRUE]
SettledBy(r, u) == [r EXCEPT !.state = "uploaded", !.charged = TRUE, !.intent = "pending",
                             !.by = u]
With(r, intent) == [r EXCEPT !.intent = intent]
Expired(r) == [r EXCEPT !.state = "expired"]
Refunded(r) == [r EXCEPT !.state = "expired", !.charged = FALSE, !.intent = "none"]
MayExpire(r) == r.state \notin {"absent", "expired"} /\ r.intent # "marked"

\* cleanup_upload_worker ignores the result of expire.
CleanedUp(s) == \/ UNCHANGED <<ledger, faults>> /\ ~MayExpire(ledger[s])
                \/ UNCHANGED ledger /\ Fault
                \/ Set(s, Expired(ledger[s])) /\ MayExpire(ledger[s]) /\ UNCHANGED faults

-----------------------------------------------------------------------------
(* run_storage: an operation waits for a permit, starts unless its deadline *)
(* has passed, and may outlive the one who waits for it.                    *)

InPool(o) == job[o] \in {"executing", "compensating"}
Busy == {o \in Operation : InPool(o)}

Queue(o) == job' = [job EXCEPT ![o] = "queued"]

\* The one who waits no longer does: a queued operation is forgotten with its future,
\* a running one goes on.
Forsake(os) ==
  job' = [o \in Operation |-> IF o \in os /\ ~InPool(o) THEN "none" ELSE job[o]]

Awaited(o) ==
  CASE o[2] = "reserve" -> handler[o[1]] = "creating"
    [] o[2] = "begin" -> handler[o[1]] = "beginning"
    [] o[2] = "mark" -> handler[o[1]] = "marking"
    [] o[2] = "abort" -> handler[o[1]] = "aborting"
    [] o[2] = "acknowledge" -> handler[o[1]] = "acknowledging"
    [] o[2] = "reconcile" -> server = "serving"

\* With a permit the blocking closure starts, its deadline has not passed.
Begin(o) ==
  /\ job[o] = "queued" /\ Cardinality(Busy) < StoragePermits
  /\ job' = [job EXCEPT ![o] = "executing"]
  /\ UNCHANGED <<ledger, requestVars, workerVars, serverVars, faults>>

Ended(o, phase) == job' = [job EXCEPT ![o] = IF Awaited(o) THEN phase ELSE "none"]

Fails(o) ==
  /\ job[o] = "executing" /\ Fault
  /\ Ended(o, "failed")
  /\ UNCHANGED <<ledger, requestVars, workerVars, serverVars>>

-----------------------------------------------------------------------------
(* POST: a reservation whose answer nobody waits for is taken back.        *)

Create(c) ==
  /\ server = "serving" /\ handler[c] = "idle"
  /\ handler' = [handler EXCEPT ![c] = "creating"]
  /\ Queue(Op(c, "reserve"))
  /\ UNCHANGED <<ledger, chunks, answer, transport, workerVars, serverVars, faults>>

\* A late reservation is taken back, by reserve_internal_until and, when that fails, by
\* the completion of the operation.
Reserve(c) ==
  LET o == Op(c, "reserve")
  IN /\ job[o] = "executing"
     /\ Set(c, Reserved)
     /\ job' = [job EXCEPT ![o] = IF Awaited(o) THEN "done" ELSE "compensating"]
     /\ UNCHANGED <<requestVars, workerVars, serverVars, faults>>

\* compensate_late_bootstrap_result.
Compensate(c) ==
  LET o == Op(c, "reserve")
  IN /\ job[o] = "compensating"
     /\ job' = [job EXCEPT ![o] = "none"]
     /\ \/ /\ Set(c, Expired(ledger[c])) /\ UNCHANGED <<lateFailures, faults>>
        \/ /\ Fault /\ lateFailures' = lateFailures + 1 /\ UNCHANGED ledger
     /\ UNCHANGED <<requestVars, workerVars, spared, unacknowledged, server, serveError>>

\* The handler's answer. Its timeout may strike at any time, although the result is on
\* its way.
Created(c) ==
  LET o == Op(c, "reserve")
  IN /\ handler[c] = "creating"
     /\ \/ job[o] = "done" /\ answer' = [answer EXCEPT ![c] = "success"]
        \/ answer' = [answer EXCEPT ![c] = "error"]
     /\ handler' = [handler EXCEPT ![c] = "closed"]
     /\ job' = [job EXCEPT ![o] = IF InPool(o) THEN @ ELSE "none"]
     /\ UNCHANGED <<ledger, chunks, transport, workerVars, serverVars, faults>>

-----------------------------------------------------------------------------
(* PUT: the handler.                                                       *)

Alive(u) == worker[u] \notin {"none", "ended"}
Workers == {u \in Upload : Alive(u)}

Answer(u, a) == /\ answer' = [answer EXCEPT ![u] = a]
                /\ handler' = [handler EXCEPT ![u] = "writingAnswer"]

\* UploadWorker::start. A second PUT of a session that is being received is refused
\* and leaves the first one's entry in active_uploads.
Refused_Released(u) == active' = active \ {Target[u]}
Refused(u) == UNCHANGED active

Start(u) ==
  LET s == Target[u]
  IN /\ server = "serving" /\ handler[u] = "idle" /\ answer[s] = "success"
     /\ Cardinality(Workers) < UploadPermits
     /\ IF s \in active
        THEN /\ Answer(u, "error") /\ Refused(u)
             /\ UNCHANGED <<worker, mailbox>>
        ELSE /\ active' = active \cup {s}
             /\ worker' = [worker EXCEPT ![u] = "idle"]
             /\ mailbox' = [mailbox EXCEPT ![u] = "start"]
             /\ handler' = [handler EXCEPT ![u] = "starting"]
             /\ UNCHANGED answer
     /\ UNCHANGED <<ledger, chunks, transport, claimed, reply, job, serverVars, faults>>

\* No permit in time.
StartTimesOut(u) ==
  /\ server = "serving" /\ handler[u] = "idle" /\ answer[Target[u]] = "success"
  /\ Cardinality(Workers) = UploadPermits
  /\ Answer(u, "error")
  /\ UNCHANGED <<ledger, chunks, transport, workerVars, job, serverVars, faults>>

\* UploadWorker::drop: the abort is sent only if the channel has room.
Dropped(u) == mailbox' = [mailbox EXCEPT ![u] = IF @ = "empty" /\ Alive(u) THEN "abort" ELSE @]

Command(u, command, next) ==
  /\ mailbox[u] = "empty" /\ Alive(u)
  /\ mailbox' = [mailbox EXCEPT ![u] = command]
  /\ handler' = [handler EXCEPT ![u] = next]
  /\ reply' = [reply EXCEPT ![u] = "none"]

\* The next chunk, or the end of the body; the worker may be gone meanwhile.
Chunk(u) ==
  /\ handler[u] = "streaming" /\ chunks[u] < MaxChunks
  /\ Command(u, "write", "writing")
  /\ UNCHANGED <<ledger, chunks, answer, transport, worker, claimed, active, job, serverVars, faults>>

EndOfBody(u) ==
  /\ handler[u] = "streaming"
  /\ Command(u, "finish", "finishing")
  /\ UNCHANGED <<ledger, chunks, answer, transport, worker, claimed, active, job, serverVars, faults>>

\* An idle client, a broken body, or a worker that has left its channel.
StreamFails(u) ==
  /\ handler[u] = "streaming"
  /\ \/ Command(u, "abort", "stopping") /\ UNCHANGED answer
     \/ /\ Answer(u, "error") /\ Dropped(u)
        /\ UNCHANGED reply
  /\ UNCHANGED <<ledger, chunks, transport, worker, claimed, active, job, serverVars, faults>>

\* await_upload_worker.
Accepted(u) ==
  /\ reply[u] = "ok" /\ handler[u] \in {"starting", "writing", "finishing"}
  /\ handler' = [handler EXCEPT ![u] = IF @ = "finishing" THEN "beginning" ELSE "streaming"]
  /\ chunks' = [chunks EXCEPT ![u] = IF handler[u] = "writing" THEN @ + 1 ELSE @]
  /\ job' = IF handler[u] = "finishing"
            THEN [job EXCEPT ![Op(u, "begin")] = "queued"]
            ELSE job
  /\ UNCHANGED <<ledger, answer, transport, workerVars, serverVars, faults>>

\* An error, the end of the worker, or the deadline, which passes at any time: a reply
\* may be lost to a timeout that strikes at the same moment. After a timeout nobody
\* waits for the cleanup.
NotAccepted(u) ==
  /\ handler[u] \in Waiting
  /\ Answer(u, "error") /\ Dropped(u)
  /\ UNCHANGED <<ledger, chunks, transport, worker, claimed, reply, active, job,
                 serverVars, faults>>

-----------------------------------------------------------------------------
(* The upload worker, run_upload_worker, and its heartbeat.                *)

Delivered(u) == handler[u] \in Waiting
Reply(u, r) == reply' = [reply EXCEPT ![u] = IF Delivered(u) THEN r ELSE @]
Leaves(u) == /\ worker' = [worker EXCEPT ![u] = "ended"]
             /\ mailbox' = [mailbox EXCEPT ![u] = "empty"]
             /\ active' = active \ {Target[u]}

Take(u) ==
  /\ worker[u] = "idle" /\ mailbox[u] # "empty"
  /\ worker' = [worker EXCEPT ![u] = mailbox[u]]
  /\ mailbox' = [mailbox EXCEPT ![u] = "empty"]
  /\ UNCHANGED <<ledger, requestVars, claimed, reply, active, job, serverVars, faults>>

Claim(u) ==
  LET s == Target[u]
  IN /\ worker[u] = "start" /\ ledger[s].state = "reserved"
     /\ Set(s, Received(ledger[s]))
     /\ claimed' = [claimed EXCEPT ![u] = TRUE]
     /\ worker' = [worker EXCEPT ![u] = "open"]
     /\ UNCHANGED <<requestVars, mailbox, reply, active, job, serverVars, faults>>

\* A command that was not answered in time, or to nobody, ends the worker: a sender
\* of its channel stays with the heartbeat, so no other command may ever come.
GoesOn_Always(u) == TRUE
GoesOn(u) == Delivered(u)

\* The file is open, or a chunk written, before the deadline.
Progress(u) ==
  /\ worker[u] \in {"open", "write"}
  /\ ledger[Target[u]].state = "receiving"
  /\ worker[u] = "write" => ~ledger[Target[u]].lapsed     \* renew_receiving_lease
  /\ Reply(u, "ok")
  /\ IF GoesOn(u)
     THEN /\ worker' = [worker EXCEPT ![u] = "idle"]
          /\ UNCHANGED <<ledger, mailbox, active, faults>>
     ELSE Leaves(u) /\ CleanedUp(Target[u])
  /\ UNCHANGED <<requestVars, claimed, job, serverVars>>

\* Anything that fails before the ledger has settled: a late command, a claim or a
\* renewal the ledger refuses, an error of the file; or an abort, whose answer is nobody's
\* or that of a handler which goes on whatever it is. A command left in the channel is
\* dropped, which its handler sees as an error.
GivesUp(u) ==
  /\ worker[u] \in {"start", "open", "write", "finish", "abort"}
  /\ Reply(u, "error")
  /\ Leaves(u)
  /\ IF claimed[u] THEN CleanedUp(Target[u]) ELSE UNCHANGED <<ledger, faults>>
  /\ UNCHANGED <<requestVars, claimed, job, serverVars>>

\* settle_pinned_until: the session, its charge and its intent in one transaction.
Settle(u) ==
  LET s == Target[u]
  IN /\ worker[u] = "finish" /\ ledger[s].state = "receiving"
     /\ Set(s, SettledBy(ledger[s], u))
     /\ worker' = [worker EXCEPT ![u] = "settled"]
     /\ UNCHANGED <<requestVars, claimed, mailbox, reply, active, job, serverVars, faults>>

\* The receipt reaches the handler. If it does not, or the commit was late, the worker
\* refunds what it has settled, unless the maintenance pass was faster; if that fails,
\* the intent stays for recovery.
HandOver(u) ==
  /\ worker[u] = "settled" /\ Delivered(u)
  /\ Reply(u, "ok") /\ Leaves(u)
  /\ UNCHANGED <<ledger, requestVars, claimed, job, serverVars, faults>>

TakeBack(u) ==
  LET s == Target[u]
  IN /\ worker[u] = "settled"
     /\ Reply(u, "error") /\ Leaves(u)
     /\ \/ ledger[s].intent = "pending" /\ Set(s, Refunded(ledger[s])) /\ UNCHANGED faults
        \/ ledger[s].intent # "pending" /\ UNCHANGED <<ledger, faults>>
        \/ Set(s, Expired(ledger[s])) /\ Fault
     /\ UNCHANGED <<requestVars, claimed, job, serverVars>>

\* The heartbeat aborts an upload whose lease it cannot renew.
HeartbeatFails(u) ==
  /\ claimed[u] /\ Alive(u) /\ mailbox[u] = "empty" /\ Fault
  /\ mailbox' = [mailbox EXCEPT ![u] = "abort"]
  /\ UNCHANGED <<ledger, requestVars, worker, claimed, reply, active, job, serverVars>>

LeaseLapses(s) ==
  /\ ledger[s].state = "receiving" /\ ~ledger[s].lapsed /\ Fault
  /\ Set(s, Lapsed(ledger[s]))
  /\ UNCHANGED <<requestVars, workerVars, job, serverVars>>

\* Only the injected writer of a chunk is code that may panic.
Panic(u) ==
  /\ worker[u] = "write" /\ Fault
  /\ worker' = [worker EXCEPT ![u] = "panicked"]
  /\ mailbox' = [mailbox EXCEPT ![u] = "empty"]
  /\ UNCHANGED <<ledger, requestVars, claimed, reply, active, job, serverVars>>

\* recover_upload_worker, by the heartbeat that joins the worker.
Recover(u) ==
  /\ worker[u] = "panicked"
  /\ Leaves(u) /\ CleanedUp(Target[u])
  /\ UNCHANGED <<requestVars, claimed, reply, job, serverVars>>

-----------------------------------------------------------------------------
(* Delivering the answer: an attempt, the marker, and if its outcome is     *)
(* unknown the abort of the attempt.                                       *)

\* begin_settlement_delivery_attempt, mark_settlement_delivery_possible,
\* abort_settlement_delivery_attempt and acknowledge_settlement.
Allowed(u, kind) ==
  LET r == ledger[Target[u]]
  IN CASE kind = "begin" -> r.state = "uploaded" /\ r.intent = "pending"
       [] kind = "mark" -> r.state = "uploaded" /\ r.intent = "attempted" /\ r.by = u
       [] kind = "abort" -> r.intent \in {"attempted", "marked"} /\ r.by = u
       [] kind = "acknowledge" -> r.state = "uploaded"
Effect(u, kind) ==
  LET r == ledger[Target[u]]
  IN CASE kind = "begin" -> With(r, "attempted")
       [] kind = "mark" -> With(r, "marked")
       [] kind = "abort" -> Refunded(r)
       [] kind = "acknowledge" -> With(r, "none")

Deliver(u, kind) ==
  LET o == Op(u, kind)
  IN /\ job[o] = "executing"
     /\ IF Allowed(u, kind)
        THEN Set(Target[u], Effect(u, kind)) /\ Ended(o, "done")
        ELSE Ended(o, "failed") /\ UNCHANGED ledger
     /\ UNCHANGED <<requestVars, workerVars, serverVars, faults>>

Succeeds(u, kind) == job[Op(u, kind)] = "done"
\* An error, or the deadline, which passes at any time.
Undecided(u, kind) == TRUE

\* What a handler that goes on leaves of the operation it waited for, and the one it
\* queues next.
Onward(u, kind, next) ==
  [o \in Operation |-> IF o = Op(u, kind) /\ ~InPool(o) THEN "none"
                       ELSE IF o = Op(u, next) THEN "queued"
                       ELSE job[o]]

Begun(u) ==
  /\ handler[u] = "beginning"
  /\ \/ /\ Succeeds(u, "begin")
        /\ handler' = [handler EXCEPT ![u] = "marking"]
        /\ job' = Onward(u, "begin", "mark")
        /\ UNCHANGED answer
     \/ /\ Undecided(u, "begin")
        /\ Answer(u, "cut")
        /\ job' = Onward(u, "begin", "none")
  /\ UNCHANGED <<ledger, chunks, transport, workerVars, serverVars, faults>>

Marked(u) ==
  /\ handler[u] = "marking"
  /\ \/ /\ Succeeds(u, "mark")
        /\ Answer(u, "success")
        /\ unacknowledged' = unacknowledged \cup {u}
        /\ job' = Onward(u, "mark", "none")
     \/ /\ Undecided(u, "mark")
        /\ handler' = [handler EXCEPT ![u] = "aborting"]
        /\ job' = Onward(u, "mark", "abort")
        /\ UNCHANGED <<answer, unacknowledged>>
  /\ UNCHANGED <<ledger, chunks, transport, workerVars, spared, lateFailures, server,
                 serveError, faults>>

\* Only a committed abort is an answer; otherwise the marker may still win.
Unclassified_Error(u) == "error"
Unclassified(u) == "cut"

Aborted(u) ==
  /\ handler[u] = "aborting"
  /\ \/ Succeeds(u, "abort") /\ Answer(u, "error")
     \/ Undecided(u, "abort") /\ Answer(u, Unclassified(u))
  /\ job' = Onward(u, "abort", "none")
  /\ UNCHANGED <<ledger, chunks, transport, workerVars, serverVars, faults>>

-----------------------------------------------------------------------------
(* The connection: serve_connection ends, whatever its result, and the     *)
(* acknowledgment is tried until it succeeds.                              *)

Finished(u) == answer[u] # "none"

\* The connection task goes on to its list of acknowledgments.
AfterTransport(u) == IF u \in unacknowledged THEN "acknowledging" ELSE "closed"
Acknowledging(u, jobs) ==
  job' = IF u \in unacknowledged
         THEN [jobs EXCEPT ![Op(u, "acknowledge")] = "queued"]
         ELSE jobs

AnswerSent(u) ==
  /\ handler[u] = "writingAnswer"
  /\ transport' = [transport EXCEPT ![u] = IF answer[u] = "cut" THEN "broken" ELSE "written"]
  /\ handler' = [handler EXCEPT ![u] = AfterTransport(u)]
  /\ Acknowledging(u, job)
  /\ UNCHANGED <<ledger, chunks, answer, workerVars, serverVars, faults>>

\* The operations of u that its handler or connection waits for.
Operations(u) == {Op(u, kind) : kind \in Kind}

\* The client goes away: the handler is dropped wherever it waits.
Disconnect(u) ==
  /\ handler[u] \notin {"idle", "acknowledging", "closed"} /\ Fault
  /\ transport' = [transport EXCEPT ![u] = "broken"]
  /\ handler' = [handler EXCEPT ![u] = AfterTransport(u)]
  /\ Dropped(u)
  /\ Acknowledging(u, [o \in Operation |->
       IF o \in Operations(u) /\ ~InPool(o) THEN "none" ELSE job[o]])
  /\ UNCHANGED <<ledger, chunks, answer, worker, claimed, reply, active, serverVars>>

Acknowledged(u) ==
  /\ handler[u] = "acknowledging" /\ Succeeds(u, "acknowledge")
  /\ handler' = [handler EXCEPT ![u] = "closed"]
  /\ unacknowledged' = unacknowledged \ {u}
  /\ job' = Onward(u, "acknowledge", "none")
  /\ UNCHANGED <<ledger, chunks, answer, transport, workerVars, spared, lateFailures,
                 server, serveError, faults>>

\* After an error or a timeout it is tried again; an earlier try that still runs has
\* the same effect, so the model waits for it.
AcknowledgeAgain(u) ==
  /\ handler[u] = "acknowledging" /\ Undecided(u, "acknowledge")
  /\ ~InPool(Op(u, "acknowledge"))
  /\ Queue(Op(u, "acknowledge"))
  /\ UNCHANGED <<ledger, requestVars, workerVars, serverVars, faults>>

-----------------------------------------------------------------------------
(* The accept loop: maintenance and shutdown.                              *)

\* The tick reads active_uploads before the pass waits for a permit.
Tick ==
  /\ server = "serving" /\ job[Reconciliation] = "none"
  /\ Queue(Reconciliation)
  /\ spared' = active
  /\ UNCHANGED <<ledger, requestVars, workerVars, unacknowledged, lateFailures, server,
                 serveError, faults>>

\* Which settlements are old enough for recovery depends on the clock; a marked one
\* is left alone.
Recoverable(s) == ledger[s].intent \in {"pending", "attempted"}
Abandoned(s) == ledger[s].state = "receiving" /\ ledger[s].lapsed /\ s \notin spared

Reconcile ==
  /\ job[Reconciliation] = "executing"
  /\ \E old \in SUBSET {s \in Session : Recoverable(s)} :
       ledger' = [s \in Session |-> IF s \in old THEN Refunded(ledger[s])
                                    ELSE IF Abandoned(s) THEN Expired(ledger[s])
                                    ELSE ledger[s]]
  /\ Ended(Reconciliation, "done")
  /\ UNCHANGED <<requestVars, workerVars, serverVars, faults>>

\* A pass that fails or is late stops the server.
Reconciled ==
  /\ server = "serving"
  /\ \/ /\ job[Reconciliation] = "done" /\ UNCHANGED <<server, serveError>>
     \/ /\ job[Reconciliation] # "none"
        /\ server' = "draining" /\ serveError' = TRUE
  /\ job' = [job EXCEPT ![Reconciliation] = IF InPool(Reconciliation) THEN @ ELSE "none"]
  /\ spared' = IF InPool(Reconciliation) THEN spared ELSE {}
  /\ UNCHANGED <<ledger, requestVars, workerVars, unacknowledged, lateFailures, faults>>

Shutdown ==
  /\ server = "serving" /\ job[Reconciliation] = "none"
  /\ server' = "draining"
  /\ UNCHANGED <<ledger, requestVars, workerVars, job, spared, unacknowledged, lateFailures,
                 serveError, faults>>

Open(r) == handler[r] \notin {"idle", "closed"}

\* The grace is over: every connection task is dropped where it waits.
AbortConnections ==
  /\ server = "draining" /\ \E r \in Request : Open(r)
  /\ server' = "aborted"
  /\ transport' = [u \in Upload |-> IF Open(u) /\ transport[u] = "open"
                                    THEN "broken" ELSE transport[u]]
  /\ handler' = [r \in Request |-> IF Open(r) THEN "closed" ELSE handler[r]]
  /\ mailbox' = [u \in Upload |-> IF Open(u) /\ mailbox[u] = "empty" /\ Alive(u)
                                  THEN "abort" ELSE mailbox[u]]
  /\ Forsake(Operation \ {Reconciliation})
  /\ UNCHANGED <<ledger, chunks, answer, worker, claimed, reply, active, spared,
                 unacknowledged, lateFailures, serveError, faults>>

\* wait_until_idle counts upload workers and operations of the storage pool.
Idle_Workers == Workers = {}
Idle == Workers = {} /\ Busy = {}

Stop ==
  /\ server \in {"draining", "aborted"} /\ \A r \in Request : ~Open(r)
  /\ \/ /\ unacknowledged = {} /\ Idle /\ lateFailures = 0 /\ ~serveError
        /\ server' = "stopped"
     \/ /\ unacknowledged # {} \/ lateFailures > 0 \/ serveError \/ ~Idle
        /\ server' = "failed"
  /\ UNCHANGED <<ledger, requestVars, workerVars, job, spared, unacknowledged, lateFailures,
                 serveError, faults>>

-----------------------------------------------------------------------------
HandlerStep(u) ==
  \/ Start(u) \/ StartTimesOut(u) \/ Chunk(u) \/ EndOfBody(u)
  \/ StreamFails(u) \/ Accepted(u) \/ NotAccepted(u)
  \/ Begun(u) \/ Marked(u) \/ Aborted(u)
  \/ AnswerSent(u) \/ Disconnect(u) \/ Acknowledged(u) \/ AcknowledgeAgain(u)

WorkerStep(u) ==
  \/ Take(u) \/ Claim(u) \/ Progress(u) \/ GivesUp(u) \/ Settle(u) \/ HandOver(u)
  \/ TakeBack(u) \/ HeartbeatFails(u) \/ Panic(u) \/ Recover(u)

PoolStep(o) == Begin(o) \/ Fails(o)

ServerStep == Tick \/ Reconcile \/ Reconciled \/ Shutdown \/ AbortConnections \/ Stop

Running == server \notin {"stopped", "failed"}

Next ==
  /\ Running
  /\ \/ \E c \in Creation : Create(c) \/ Reserve(c) \/ Compensate(c) \/ Created(c)
     \/ \E u \in Upload : HandlerStep(u) \/ WorkerStep(u)
     \/ \E u \in Upload, kind \in Kind : Deliver(u, kind)
     \/ \E o \in Operation : PoolStep(o)
     \/ \E s \in Session : LeaseLapses(s)
     \/ ServerStep

Spec == Init /\ [][Next]_vars

\* Timers fire, handlers go on, and a system call of a worker returns at some time; of
\* the storage pool nothing is assumed.
HandlerGoesOn(u) == StreamFails(u) \/ NotAccepted(u) \/ Begun(u) \/ Marked(u) \/ Aborted(u)
WorkerGoesOn(u) == \/ Take(u) \/ Claim(u) \/ Progress(u) \/ GivesUp(u) \/ Settle(u)
                   \/ HandOver(u) \/ TakeBack(u) \/ Recover(u)
Fairness == \A u \in Upload : /\ WF_vars(Running /\ HandlerGoesOn(u))
                              /\ WF_vars(Running /\ WorkerGoesOn(u))

FairSpec == Spec /\ Fairness

-----------------------------------------------------------------------------
(* Properties.                                                             *)

Kept(u) ==
  LET r == ledger[Target[u]]
  IN r.by = u /\ r.state = "uploaded" /\ r.charged /\ r.intent \in {"marked", "none"}

\* What a client is told is what it is charged: 204 is answered only for an upload
\* whose charge and file can no longer be taken back, and an error only for one that
\* is not charged in the end, whoever timed out on whom (routes.rs, the deadlines of
\* run_storage and await_upload_worker).
HonestAnswers ==
  \A u \in Upload : /\ (answer[u] = "success" => Kept(u))
                    /\ (answer[u] = "error" => ~Kept(u))

\* While a worker holds the receiving lease its session stays in active_uploads, so
\* that the next maintenance tick spares it: a refused second PUT or a panic takes
\* nothing away (UploadWorker::start).
ReceiverIsSpared ==
  \A u \in Upload : claimed[u] /\ Alive(u) => Target[u] \in active

\* The server reports a clean shutdown only if no worker, no storage operation and no
\* compensation is left, and every answer it delivered is acknowledged
\* (serve_with_authorization, after 'accept).
ShutdownIsQuiet ==
  server = "stopped" =>
    /\ Workers = {} /\ Busy = {}
    /\ \A u \in Upload : answer[u] = "success" => ledger[Target[u]].intent = "none"
    /\ \A u \in Upload : claimed[u] => Target[u] \notin active

\* The handler waits for somebody, or has left a worker behind.
Engaged(u) ==
  \/ handler[u] \in Waiting \cup {"streaming", "beginning", "marking", "aborting"}
  \/ handler[u] = "closed" /\ Alive(u)

\* Handler and worker wait for each other over the channel and the storage pool, and
\* neither waits for ever: every wait of the handler has a deadline, even if the pool
\* never grants anything (run_storage, await_upload_worker), and a worker ends once its
\* handler is gone, although the heartbeat keeps its channel open (UploadWorker::drop).
UploadEnds == \A u \in Upload : []<>(~Engaged(u) \/ ~Running)

\* docs/superpowers/specs/2026-09-27-task-12-fix-1-streaming-lifecycle-design.md:17,
\* "only successful Hyper connection completion removes the pending intent".
AcknowledgedAfterTransport ==
  \A u \in Upload : Kept(u) /\ ledger[Target[u]].intent = "none" => transport[u] = "written"

=============================================================================
