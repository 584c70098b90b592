------------------------ MODULE UploadDeliveryProofs ------------------------
(***************************************************************************)
(* What an upload's client is told agrees with what it is charged, for any *)
(* number of sessions, requests and permits. The inductive invariant says,  *)
(* part by part, how far the POST handler, the PUT handler, the worker, the *)
(* channel between them, the operations of the storage pool and the row of  *)
(* the ledger may be apart; there is one lemma per part.                    *)
(***************************************************************************)
EXTENDS UploadDelivery, TLAPS

-----------------------------------------------------------------------------
(* The inductive invariant.                                                *)

Handling == {"idle", "creating", "streaming", "beginning", "marking", "aborting", "writingAnswer",
             "acknowledging", "closed"} \cup Waiting
Receiving == Waiting \cup {"streaming"}
Deciding == {"beginning", "marking", "aborting"}
RowOf(u) == ledger[Target[u]]
Settled(u) == RowOf(u).by = u
Box(u, set) == mailbox[u] \in {"empty"} \cup set
Jobs(u, phase) == \A k \in Kind : job[Op(u, k)] = phase

\* A row is settled by an upload or by none, and active_uploads is the set of sessions
\* that have a worker.
Rows(s) ==
  /\ ledger[s].state \in {"absent", "reserved", "receiving"}
       => ledger[s].by = "none" /\ ledger[s].intent = "none"
  /\ ledger[s].state = "uploaded" => ledger[s].by # "none" /\ ledger[s].charged
  /\ s \in active <=> \E u \in Upload : Alive(u) /\ Target[u] = s

\* A reservation is told to its client or taken back.
Posts(c) ==
  /\ handler[c] \in {"idle", "creating", "closed"}
  /\ handler[c] = "idle" => ledger[c].state = "absent" /\ job[Op(c, "reserve")] = "none"
  /\ job[Op(c, "reserve")] \in {"queued", "executing"} => ledger[c].state = "absent"
  /\ job[Op(c, "reserve")] = "compensating"
       => ledger[c].state = "reserved" /\ answer[c] # "success" /\ handler[c] = "closed"
  /\ answer[c] # "none" => handler[c] = "closed"
  /\ answer[c] = "success" => job[Op(c, "reserve")] = "none"

\* What the handler waits for is what the worker is doing or has in its channel, unless
\* it was aborted; it hears of a success only from a worker that is ready for more, and
\* goes on to the delivery only after a worker that has settled and ended.
Puts(u) ==
  /\ handler[u] # "creating"
  /\ handler[u] = "idle" => worker[u] = "none" /\ answer[u] = "none" /\ reply[u] = "none"
  /\ handler[u] # "idle" => answer[Target[u]] = "success"
  /\ worker[u] = "none" => /\ ~claimed[u] /\ mailbox[u] = "empty" /\ reply[u] = "none"
                           /\ handler[u] \in {"idle", "writingAnswer", "closed"}
  /\ handler[u] = "starting" => /\ worker[u] \in {"idle", "start", "open", "abort", "ended"}
                                /\ Box(u, {"start", "abort"})
  /\ handler[u] = "writing" => /\ worker[u] \in {"idle", "write", "panicked", "abort", "ended"}
                               /\ Box(u, {"write", "abort"})
                               /\ chunks[u] < MaxChunks
  /\ handler[u] = "finishing" => /\ worker[u] \in {"idle", "finish", "settled", "abort", "ended"}
                                 /\ Box(u, {"finish", "abort"})
  /\ handler[u] \in {"streaming", "stopping"}
       \/ (handler[u] \in {"starting", "writing"} /\ reply[u] = "ok")
       => worker[u] \in {"idle", "abort", "ended"} /\ Box(u, {"abort"})
  /\ handler[u] = "finishing" /\ reply[u] = "ok" => worker[u] = "ended" /\ Settled(u)
  /\ handler[u] \in Deciding \cup {"acknowledging"} => worker[u] = "ended" /\ Settled(u)
  /\ handler[u] \in Receiving \cup Deciding => answer[u] = "none"

\* Who works on a file has claimed the receiving lease, and only who has settles the row.
Claims(u) ==
  /\ worker[u] \in {"open", "write", "finish", "settled", "panicked"} => claimed[u]
  /\ mailbox[u] \in {"write", "finish"} \/ reply[u] = "ok"
       \/ handler[u] \in {"streaming", "writing", "finishing"} => claimed[u]
  /\ claimed[u] => RowOf(u).state \notin {"absent", "reserved"}
  /\ worker[u] = "settled" => Settled(u)
  /\ Settled(u) => claimed[u] /\ worker[u] \in {"settled", "ended"}

\* A session is claimed by one upload ever, and has one worker at a time.
OneReceiver ==
  \A u, v \in Upload :
    Target[u] = Target[v] /\ ((claimed[u] /\ claimed[v]) \/ (Alive(u) /\ Alive(v))) => u = v

\* Only an abort follows a command that is being carried out.
Channels(u) == worker[u] \in {"start", "open", "write", "finish"} => Box(u, {"abort"})

\* How far the delivery of an answer is ahead of the row, or behind it.
Deliveries(u) ==
  /\ handler[u] \in {"idle"} \cup Receiving => Jobs(u, "none")
  /\ ~Jobs(u, "none") => worker[u] = "ended" /\ Settled(u)
  /\ Settled(u) /\ RowOf(u).state = "uploaded" /\ (handler[u] \in Receiving \/ answer[u] = "error")
       => RowOf(u).intent = "pending" /\ Jobs(u, "none")
  /\ job[Op(u, "mark")] = "done" => handler[u] = "marking" /\ Kept(u)
  /\ handler[u] \in {"beginning", "marking"} => job[Op(u, "abort")] = "none"
  /\ job[Op(u, "abort")] = "done" => handler[u] = "aborting" /\ RowOf(u).state = "expired"
  /\ u \in unacknowledged => answer[u] = "success"
  /\ handler[u] = "acknowledging" => u \in unacknowledged
  /\ job[Op(u, "acknowledge")] # "none" => u \in unacknowledged
  /\ job[Op(u, "acknowledge")] = "done" => RowOf(u).intent = "none"
  /\ answer[u] = "success" => Kept(u) /\ job[Op(u, "abort")] = "none" /\ worker[u] = "ended"
  /\ answer[u] = "success" /\ u \notin unacknowledged => RowOf(u).intent = "none"

Inv ==
  /\ TypeOK /\ OneReceiver /\ ShutdownIsQuiet
  /\ \A s \in Session : Rows(s) /\ Posts(s)
  /\ \A u \in Upload : Puts(u) /\ Claims(u) /\ Deliveries(u) /\ Channels(u)

-----------------------------------------------------------------------------
\* Operations are named apart.
LEMMA Named ==
  /\ \A a, b, k, l : Op(a, k) = Op(b, l) <=> a = b /\ k = l
  /\ \A c \in Creation : Op(c, "reserve") \in Operation
  /\ \A u \in Upload, k \in Kind : Op(u, k) \in Operation
  /\ Reconciliation \in Operation
  /\ \A o \in Operation : \/ \E c \in Creation : o = Op(c, "reserve")
                          \/ \E u \in Upload, k \in Kind : o = Op(u, k)
                          \/ o = Reconciliation
<1>1. \A a, b, k, l : Op(a, k) = Op(b, l) <=> a = b /\ k = l
  BY DEF Op
<1>2. QED
  BY <1>1 DEF Operation

\* Who asks for what.
LEMMA Requests ==
  /\ \A c \in Creation : c \in Request /\ c \notin Upload
  /\ \A u \in Upload : u \in Request /\ u \notin Creation /\ Target[u] \in Session /\ u # "none"
  /\ Session = Creation
BY RequestsAssumption DEF Request, Session

\* Who waits for an operation.
LEMMA Waits ==
  /\ \A c \in Creation : Awaited(Op(c, "reserve")) <=> handler[c] = "creating"
  /\ \A u \in Upload : /\ Awaited(Op(u, "begin")) <=> handler[u] = "beginning"
                       /\ Awaited(Op(u, "mark")) <=> handler[u] = "marking"
                       /\ Awaited(Op(u, "abort")) <=> handler[u] = "aborting"
                       /\ Awaited(Op(u, "acknowledge")) <=> handler[u] = "acknowledging"
BY DEF Awaited, Op

\* What a row holds.
LEMMA RowsHave ==
  \A r \in Row : /\ r.state \in {"absent", "reserved", "receiving", "uploaded", "expired"}
                  /\ r.intent \in {"none", "pending", "attempted", "marked"}
                  /\ r.by \in Upload \cup {"none"}
BY DEF Row

\* A new row, and no row.
LEMMA NewRows ==
  /\ Reserved \in Row /\ Reserved.state = "reserved"
  /\ Reserved.by = "none" /\ Reserved.intent = "none"
  /\ Absent \in Row /\ Absent.state = "absent" /\ Absent.by = "none" /\ Absent.intent = "none"
BY DEF Reserved, Absent, Row

\* A row whose lease is claimed.
LEMMA RowsReceived ==
  \A r \in Row : /\ Received(r) \in Row /\ Received(r).state = "receiving"
                  /\ Received(r).by = r.by /\ Received(r).intent = r.intent
BY DEF Row, Received

\* A row whose lease has lapsed.
LEMMA RowsLapsed ==
  \A r \in Row : /\ Lapsed(r) \in Row /\ Lapsed(r).state = r.state
                  /\ Lapsed(r).by = r.by /\ Lapsed(r).intent = r.intent
BY DEF Row, Lapsed

\* A row that has expired, or is refunded.
LEMMA RowsEnded ==
  \A r \in Row : /\ Expired(r) \in Row /\ Refunded(r) \in Row
                  /\ Expired(r).state = "expired" /\ Expired(r).by = r.by
                  /\ Expired(r).intent = r.intent
                  /\ Refunded(r).state = "expired" /\ Refunded(r).by = r.by
                  /\ Refunded(r).intent = "none"
BY DEF Row, Expired, Refunded

\* A row that is settled.
LEMMA RowsSettled ==
  \A r \in Row, u \in Upload :
    /\ SettledBy(r, u) \in Row /\ SettledBy(r, u).state = "uploaded" /\ SettledBy(r, u).by = u
    /\ SettledBy(r, u).intent = "pending" /\ SettledBy(r, u).charged = TRUE
BY DEF Row, SettledBy

\* A row whose settlement has come further.
LEMMA RowsDelivered ==
  \A r \in Row, i \in {"none", "attempted", "marked"} :
    /\ With(r, i) \in Row /\ With(r, i).state = r.state /\ With(r, i).by = r.by
    /\ With(r, i).intent = i /\ With(r, i).charged = r.charged
BY DEF Row, With

\* What the operations of a delivery ask and do.
LEMMA Effects ==
  \A u \in Upload :
    /\ Allowed(u, "begin") <=> RowOf(u).state = "uploaded" /\ RowOf(u).intent = "pending"
    /\ Allowed(u, "mark") <=> /\ RowOf(u).state = "uploaded" /\ RowOf(u).intent = "attempted"
                              /\ RowOf(u).by = u
    /\ Allowed(u, "abort") <=> RowOf(u).intent \in {"attempted", "marked"} /\ RowOf(u).by = u
    /\ Allowed(u, "acknowledge") <=> RowOf(u).state = "uploaded"
    /\ Effect(u, "begin") = With(RowOf(u), "attempted")
    /\ Effect(u, "mark") = With(RowOf(u), "marked")
    /\ Effect(u, "abort") = Refunded(RowOf(u))
    /\ Effect(u, "acknowledge") = With(RowOf(u), "none")
BY DEF Allowed, Effect, RowOf

\* Every step keeps the types.
LEMMA TypeStep == Inv /\ [Next]_vars => TypeOK'
<1> SUFFICES ASSUME Inv, [Next]_vars PROVE TypeOK'
  OBVIOUS
<1>0. TypeOK /\ \A u \in Upload : Puts(u) /\ Claims(u)
  BY DEF Inv
<1> DEFINE
  LedgerType == ledger \in [Session -> Row]
  HandlerType == handler \in [Request -> Handling]
  AnswerType == chunks \in [Upload -> 0 .. MaxChunks] /\ answer \in [Request -> {"none",
     "success", "error", "cut"}] /\ transport \in [Upload -> {"open", "written", "broken"}]
  WorkerType == worker \in [Upload -> {"none", "idle", "start", "open", "write", "finish",
     "settled", "abort", "panicked", "ended"}] /\ claimed \in [Upload -> BOOLEAN] /\ active
     \subseteq Session
  ChannelType == mailbox \in [Upload -> {"empty", "start", "write", "finish", "abort"}] /\
     reply \in [Upload -> {"none", "ok", "error"}]
  JobType == job \in [Operation -> Job]
  RestType == spared \subseteq Session /\ unacknowledged \subseteq Upload /\ lateFailures
     \in Nat /\ server \in {"serving", "draining", "aborted", "stopped", "failed"} /\ faults
     \in 0 .. MaxFaults
  ErrorType == serveError \in BOOLEAN
<1>1. ASSUME NEW c \in Creation, Create(c) PROVE TypeOK'
  BY SMTT(30), <1>0, <1>1, Named, Requests DEF Create, Queue, requestVars, workerVars,
     serverVars, TypeOK, Waiting, Handling, Kind, Job
<1>2. ASSUME NEW c \in Creation, Reserve(c) PROVE TypeOK'
  BY SMTT(30), <1>0, <1>2, Named, Requests, NewRows DEF Reserve, Set, Absent, requestVars,
     workerVars, serverVars, TypeOK, Waiting, Handling, Kind, Job
<1>3. ASSUME NEW c \in Creation, Compensate(c) PROVE TypeOK'
  BY SMTT(30), <1>0, <1>3, Named, Requests, Waits, RowsEnded, RequestsAssumption DEF
     Compensate, Set, Fault, requestVars, workerVars, serverVars, TypeOK, Waiting, Handling,
     Kind, Job, Puts
<1>4. ASSUME NEW c \in Creation, Created(c) PROVE TypeOK'
  BY SMTT(30), <1>0, <1>4, Named, Requests DEF Created, InPool, requestVars, workerVars,
     serverVars, TypeOK, Waiting, Handling, Kind, Job
<1>5. ASSUME NEW u \in Upload, Start(u) PROVE TypeOK'
  BY SMTT(30), <1>0, <1>5, Requests DEF Start, Answer, Refused, requestVars, workerVars,
     serverVars, TypeOK, Waiting, Handling, Kind
<1>6. ASSUME NEW u \in Upload, StartTimesOut(u) PROVE TypeOK'
  BY SMTT(30), <1>0, <1>6, Named, Requests DEF StartTimesOut, Answer, requestVars,
     workerVars, serverVars, TypeOK, Waiting, Handling, Kind, Job
<1>7. ASSUME NEW u \in Upload, Chunk(u) PROVE TypeOK'
  BY SMTT(30), <1>0, <1>7, Named, Requests DEF Chunk, Command, requestVars, workerVars,
     serverVars, TypeOK, Waiting, Handling, Kind, Job
<1>8. ASSUME NEW u \in Upload, EndOfBody(u) PROVE TypeOK'
  BY SMTT(30), <1>0, <1>8, Named, Requests DEF EndOfBody, Command, requestVars, workerVars,
     serverVars, TypeOK, Waiting, Handling, Kind, Job
<1>9. ASSUME NEW u \in Upload, StreamFails(u) PROVE TypeOK'
  BY SMTT(30), <1>0, <1>9, Requests DEF StreamFails, Command, Answer, Dropped, requestVars,
     workerVars, serverVars, TypeOK, Waiting, Handling, Kind
<1>10. ASSUME NEW u \in Upload, Accepted(u) PROVE TypeOK'
  BY SMTT(30), <1>0, <1>10, Named, Requests, Waits, RequestsAssumption DEF Accepted,
     requestVars, workerVars, serverVars, TypeOK, Waiting, Handling, Kind, Job, Puts
<1>11. ASSUME NEW u \in Upload, NotAccepted(u) PROVE TypeOK'
  BY SMTT(30), <1>0, <1>11, Named, Requests DEF NotAccepted, Answer, Dropped, requestVars,
     workerVars, serverVars, TypeOK, Waiting, Handling, Kind, Job
<1>12. ASSUME NEW u \in Upload, Begun(u) PROVE TypeOK'
  BY SMTT(30), <1>0, <1>12, Named, Requests DEF Begun, Succeeds, Undecided, Answer, Onward,
     InPool, requestVars, workerVars, serverVars, TypeOK, Waiting, Handling, Kind, Job
<1>13. ASSUME NEW u \in Upload, Marked(u) PROVE TypeOK'
  BY SMTT(30), <1>0, <1>13, Requests DEF Marked, Succeeds, Undecided, Answer, Onward,
     InPool, requestVars, workerVars, serverVars, TypeOK, Waiting, Handling, Kind, RowOf,
     Job
<1>14. ASSUME NEW u \in Upload, Aborted(u) PROVE TypeOK'
  BY SMTT(30), <1>0, <1>14, Requests DEF Aborted, Succeeds, Undecided, Unclassified, Answer,
     Onward, InPool, requestVars, workerVars, serverVars, TypeOK, Waiting, Handling, Kind,
     RowOf, Job
<1>15. ASSUME NEW u \in Upload, AnswerSent(u) PROVE TypeOK'
  BY SMTT(30), <1>0, <1>15, Named, Requests DEF AnswerSent, AfterTransport, Acknowledging,
     requestVars, workerVars, serverVars, TypeOK, Waiting, Handling, Kind, Job
<1>16. ASSUME NEW u \in Upload, Disconnect(u) PROVE TypeOK'
  BY SMTT(30), <1>0, <1>16, Named, Requests, Waits, RequestsAssumption DEF Disconnect,
     AfterTransport, Acknowledging, Dropped, Fault, InPool, Operations, requestVars,
     workerVars, serverVars, TypeOK, Waiting, Handling, Kind, Job, Puts
<1>17. ASSUME NEW u \in Upload, Acknowledged(u) PROVE TypeOK'
  BY SMTT(30), <1>0, <1>17, Named, Requests DEF Acknowledged, Succeeds, Onward, InPool,
     requestVars, workerVars, serverVars, TypeOK, Waiting, Handling, Kind, Job
<1>18. ASSUME NEW u \in Upload, AcknowledgeAgain(u) PROVE TypeOK'
  BY SMTT(30), <1>0, <1>18, Named, Requests DEF AcknowledgeAgain, Undecided, Queue, InPool,
     requestVars, workerVars, serverVars, TypeOK, Waiting, Handling, Kind, Job
<1>19. ASSUME NEW u \in Upload, Take(u) PROVE TypeOK'
  BY SMTT(30), <1>0, <1>19, Named, Requests DEF Take, requestVars, workerVars, serverVars,
     TypeOK, Waiting, Handling, Kind, Job
<1>20. ASSUME NEW u \in Upload, Claim(u) PROVE TypeOK'
  BY SMTT(30), <1>0, <1>20, Named, Requests, RowsReceived DEF Claim, Set, requestVars,
     workerVars, serverVars, TypeOK, Waiting, Handling, Kind, Job
<1>21. ASSUME NEW u \in Upload, Progress(u) PROVE TypeOK'
  <2>1. LedgerType'
    BY SMTT(30), <1>0, <1>21, Named, Requests, RowsEnded DEF Progress, Reply, GoesOn,
       Delivered, Leaves, CleanedUp, Set, MayExpire, Fault, requestVars, workerVars,
       serverVars, TypeOK, Waiting, Handling, Kind, Job
  <2>2. HandlerType'
    BY SMTT(30), <1>0, <1>21, Named, Requests, RowsEnded DEF Progress, Reply, GoesOn,
       Delivered, Leaves, CleanedUp, Set, MayExpire, Fault, requestVars, workerVars,
       serverVars, TypeOK, Waiting, Handling, Kind, Job
  <2>3. AnswerType'
    BY SMTT(30), <1>0, <1>21, Named, Requests, RowsEnded DEF Progress, Reply, GoesOn,
       Delivered, Leaves, CleanedUp, Set, MayExpire, Fault, requestVars, workerVars,
       serverVars, TypeOK, Waiting, Handling, Kind, Job
  <2>4. WorkerType'
    BY SMTT(30), <1>0, <1>21, Named, Requests, RowsEnded DEF Progress, Reply, GoesOn,
       Delivered, Leaves, CleanedUp, Set, MayExpire, Fault, requestVars, workerVars,
       serverVars, TypeOK, Waiting, Handling, Kind, Job
  <2>5. ChannelType'
    BY SMTT(30), <1>0, <1>21, Named, Requests, RowsEnded DEF Progress, Reply, GoesOn,
       Delivered, Leaves, CleanedUp, Set, MayExpire, Fault, requestVars, workerVars,
       serverVars, TypeOK, Waiting, Handling, Kind, Job
  <2>6. JobType'
    BY SMTT(30), <1>0, <1>21, Named, Requests, RowsEnded DEF Progress, Reply, GoesOn,
       Delivered, Leaves, CleanedUp, Set, MayExpire, Fault, requestVars, workerVars,
       serverVars, TypeOK, Waiting, Handling, Kind, Job
  <2>7. RestType'
    BY SMTT(30), <1>0, <1>21, Named, Requests, Waits, RowsEnded, RequestsAssumption DEF
       Progress, Reply, GoesOn, Delivered, Leaves, CleanedUp, Set, MayExpire, Fault,
       requestVars, workerVars, serverVars, TypeOK, Waiting, Handling, Kind, Job, Puts
  <2>8. ErrorType'
    BY SMTT(30), <1>0, <1>21, Named, Requests, RowsEnded DEF Progress, Reply, GoesOn,
       Delivered, Leaves, CleanedUp, Set, MayExpire, Fault, requestVars, workerVars,
       serverVars, TypeOK, Waiting, Handling, Kind, Job
  <2> QED
    BY <2>1, <2>2, <2>3, <2>4, <2>5, <2>6, <2>7, <2>8 DEF TypeOK, Handling
<1>22. ASSUME NEW u \in Upload, GivesUp(u) PROVE TypeOK'
  BY SMTT(30), <1>0, <1>22, Named, Requests, Waits, RowsEnded, RequestsAssumption DEF
     GivesUp, Reply, Delivered, Leaves, CleanedUp, Set, MayExpire, Fault, requestVars,
     workerVars, serverVars, TypeOK, Waiting, Handling, Kind, Job, Puts
<1>23. ASSUME NEW u \in Upload, Settle(u) PROVE TypeOK'
  BY SMTT(30), <1>0, <1>23, Named, Requests, RowsSettled DEF Settle, Set, requestVars,
     workerVars, serverVars, TypeOK, Waiting, Handling, Kind, Job
<1>24. ASSUME NEW u \in Upload, HandOver(u) PROVE TypeOK'
  BY SMTT(30), <1>0, <1>24, Named, Requests DEF HandOver, Reply, Delivered, Leaves,
     requestVars, workerVars, serverVars, TypeOK, Waiting, Handling, Kind, Job
<1>25. ASSUME NEW u \in Upload, TakeBack(u) PROVE TypeOK'
  BY SMTT(30), <1>0, <1>25, Named, Requests, Waits, RowsEnded, RequestsAssumption DEF
     TakeBack, Reply, Delivered, Leaves, Set, Fault, requestVars, workerVars, serverVars,
     TypeOK, Waiting, Handling, Kind, Job, Puts
<1>26. ASSUME NEW u \in Upload, HeartbeatFails(u) PROVE TypeOK'
  BY SMTT(30), <1>0, <1>26, Named, Requests, Waits, RequestsAssumption DEF HeartbeatFails,
     Fault, requestVars, workerVars, serverVars, TypeOK, Waiting, Handling, Kind, Job, Puts
<1>27. ASSUME NEW u \in Upload, Panic(u) PROVE TypeOK'
  BY SMTT(30), <1>0, <1>27, Named, Requests, Waits, RequestsAssumption DEF Panic, Fault,
     requestVars, workerVars, serverVars, TypeOK, Waiting, Handling, Kind, Job, Puts
<1>28. ASSUME NEW u \in Upload, Recover(u) PROVE TypeOK'
  BY SMTT(30), <1>0, <1>28, RequestsAssumption, RowsEnded, Requests DEF Recover, Leaves,
     CleanedUp, Set, MayExpire, Fault, requestVars, workerVars, serverVars, TypeOK, Waiting,
     Handling, Kind, Row, Recoverable
<1>29. ASSUME NEW u \in Upload, Deliver(u, "begin") PROVE TypeOK'
  BY SMTT(30), <1>0, <1>29, Requests, Effects, RowsDelivered DEF Deliver, Set, Ended, RowOf,
     requestVars, workerVars, serverVars, TypeOK, Waiting, Handling, Kind, Job
<1>30. ASSUME NEW u \in Upload, Deliver(u, "mark") PROVE TypeOK'
  BY SMTT(30), <1>0, <1>30, Requests, Effects, RowsDelivered DEF Deliver, Set, Ended, RowOf,
     requestVars, workerVars, serverVars, TypeOK, Waiting, Handling, Kind, Job
<1>31. ASSUME NEW u \in Upload, Deliver(u, "abort") PROVE TypeOK'
  BY SMTT(30), <1>0, <1>31, Requests, Effects, RowsEnded DEF Deliver, Set, Ended, RowOf,
     requestVars, workerVars, serverVars, TypeOK, Waiting, Handling, Kind, Job
<1>32. ASSUME NEW u \in Upload, Deliver(u, "acknowledge") PROVE TypeOK'
  BY SMTT(30), <1>0, <1>32, Named, Requests, Waits, Effects, RowsDelivered,
     RequestsAssumption DEF Deliver, Set, Ended, RowOf, requestVars, workerVars, serverVars,
     TypeOK, Waiting, Handling, Kind, Job, Puts
<1>33. ASSUME NEW o \in Operation, Begin(o) PROVE TypeOK'
  BY SMTT(30), <1>0, <1>33, Named, Requests DEF Begin, requestVars, workerVars, serverVars,
     TypeOK, Waiting, Handling, Kind, Job
<1>34. ASSUME NEW o \in Operation, Fails(o) PROVE TypeOK'
  BY SMTT(30), <1>0, <1>34, Named, Requests, Waits, RequestsAssumption DEF Fails, Ended,
     Fault, requestVars, workerVars, serverVars, TypeOK, Waiting, Handling, Kind, Job, Puts
<1>35. ASSUME NEW s \in Session, LeaseLapses(s) PROVE TypeOK'
  BY SMTT(30), <1>0, <1>35, Named, Requests, Waits, RowsLapsed, RequestsAssumption DEF
     LeaseLapses, Set, Fault, requestVars, workerVars, serverVars, TypeOK, Waiting,
     Handling, Kind, Job, Puts
<1>36. ASSUME Tick PROVE TypeOK'
  BY SMTT(30), <1>0, <1>36, Named, Requests DEF Tick, Queue, requestVars, workerVars,
     serverVars, TypeOK, Waiting, Handling, Kind, Job, Reconciliation
<1>37. ASSUME Reconcile PROVE TypeOK'
  BY SMTT(30), <1>0, <1>37, Named, Requests, RowsEnded DEF Reconcile, Recoverable,
     Abandoned, Ended, requestVars, workerVars, serverVars, TypeOK, Waiting, Handling, Kind,
     Job, Reconciliation
<1>38. ASSUME Reconciled PROVE TypeOK'
  <2>1. LedgerType'
    BY SMTT(30), <1>0, <1>38, Named, Requests DEF Reconciled, InPool, requestVars,
       workerVars, serverVars, TypeOK, Waiting, Handling, Kind, Job
  <2>2. HandlerType'
    BY SMTT(30), <1>0, <1>38, Named, Requests DEF Reconciled, InPool, requestVars,
       workerVars, serverVars, TypeOK, Waiting, Handling, Kind, Job
  <2>3. AnswerType'
    BY SMTT(30), <1>0, <1>38, Named, Requests DEF Reconciled, InPool, requestVars,
       workerVars, serverVars, TypeOK, Waiting, Handling, Kind, Job
  <2>4. WorkerType'
    BY SMTT(30), <1>0, <1>38, Named, Requests DEF Reconciled, InPool, requestVars,
       workerVars, serverVars, TypeOK, Waiting, Handling, Kind, Job
  <2>5. ChannelType'
    BY SMTT(30), <1>0, <1>38, Named, Requests DEF Reconciled, InPool, requestVars,
       workerVars, serverVars, TypeOK, Waiting, Handling, Kind, Job
  <2>6. JobType'
    BY SMTT(30), <1>0, <1>38, Named, Requests DEF Reconciled, InPool, requestVars,
       workerVars, serverVars, TypeOK, Waiting, Handling, Kind, Job
  <2>7. RestType'
    BY SMTT(30), <1>0, <1>38, Named, Requests DEF Reconciled, InPool, requestVars,
       workerVars, serverVars, TypeOK, Waiting, Handling, Kind, Job
  <2>8. ErrorType'
    BY Zenon, <1>0, <1>38 DEF Reconciled, InPool, requestVars, workerVars, serverVars,
       TypeOK
  <2> QED
    BY <2>1, <2>2, <2>3, <2>4, <2>5, <2>6, <2>7, <2>8 DEF TypeOK, Handling
<1>39. ASSUME Shutdown PROVE TypeOK'
  BY SMTT(30), <1>0, <1>39, Named, Requests DEF Shutdown, requestVars, workerVars,
     serverVars, TypeOK, Waiting, Handling, Kind, Job
<1>40. ASSUME AbortConnections PROVE TypeOK'
  BY SMTT(30), <1>0, <1>40, Named, Requests DEF AbortConnections, Open, Forsake, InPool,
     requestVars, workerVars, serverVars, TypeOK, Waiting, Handling, Kind, Job
<1>41. ASSUME Stop PROVE TypeOK'
  BY SMTT(30), <1>0, <1>41, Named, Requests DEF Stop, Open, Idle, requestVars, workerVars,
     serverVars, TypeOK, Waiting, Handling, Kind, Job
<1>42. ASSUME UNCHANGED vars PROVE TypeOK'
  BY SMTT(30), <1>0, <1>42, Named, Requests DEF vars, requestVars, workerVars, serverVars,
     TypeOK, Waiting, Handling, Kind, Job
<1> QED
  BY <1>1, <1>2, <1>3, <1>4, <1>5, <1>6, <1>7, <1>8, <1>9, <1>10, <1>11, <1>12, <1>13,
     <1>14, <1>15, <1>16, <1>17, <1>18, <1>19, <1>20, <1>21, <1>22, <1>23, <1>24, <1>25,
     <1>26, <1>27, <1>28, <1>29, <1>30, <1>31, <1>32, <1>33, <1>34, <1>35, <1>36, <1>37,
     <1>38, <1>39, <1>40, <1>41, <1>42 DEF Next, HandlerStep, WorkerStep, PoolStep,
     ServerStep, Kind

\* A row is settled by somebody or by nobody, and active_uploads is the set of sessions that
\* have a worker, after every step.
LEMMA RowsStep == Inv /\ [Next]_vars => \A q \in Session : Rows(q)'
<1> SUFFICES ASSUME Inv, [Next]_vars PROVE \A q \in Session : Rows(q)'
  OBVIOUS
<1>0. /\ TypeOK /\ TypeOK' /\ OneReceiver /\ \A s \in Session : Rows(s) /\ Posts(s)
      /\ \A u \in Upload : Puts(u) /\ Claims(u) /\ Deliveries(u)
  BY TypeStep DEF Inv
<1>1. ASSUME NEW c \in Creation, Create(c) PROVE \A q \in Session : Rows(q)'
  BY SMTT(30), <1>0, <1>1, Requests DEF Create, Queue, requestVars, workerVars, serverVars,
     TypeOK, Kind, Rows, Alive
<1>2. ASSUME NEW c \in Creation, Reserve(c) PROVE \A q \in Session : Rows(q)'
  BY SMTT(30), <1>0, <1>2, Requests, NewRows DEF Reserve, Set, Absent, requestVars,
     workerVars, serverVars, TypeOK, Kind, Rows, Alive
<1>3. ASSUME NEW c \in Creation, Compensate(c) PROVE \A q \in Session : Rows(q)'
  BY SMTT(30), <1>0, <1>3, Requests, RowsEnded DEF Compensate, Set, Fault, requestVars,
     workerVars, serverVars, TypeOK, Kind, Rows, Alive
<1>4. ASSUME NEW c \in Creation, Created(c) PROVE \A q \in Session : Rows(q)'
  BY SMTT(30), <1>0, <1>4, Requests DEF Created, InPool, requestVars, workerVars,
     serverVars, TypeOK, Kind, Rows, Alive
<1>5. ASSUME NEW u \in Upload, Start(u) PROVE \A q \in Session : Rows(q)'
  BY SMTT(30), <1>0, <1>5, Requests DEF Start, Answer, Refused, requestVars, workerVars,
     serverVars, TypeOK, Kind, Rows, Alive
<1>6. ASSUME NEW u \in Upload, StartTimesOut(u) PROVE \A q \in Session : Rows(q)'
  BY SMTT(30), <1>0, <1>6, Requests DEF StartTimesOut, Answer, requestVars, workerVars,
     serverVars, TypeOK, Kind, Rows, Alive
<1>7. ASSUME NEW u \in Upload, Chunk(u) PROVE \A q \in Session : Rows(q)'
  BY SMTT(30), <1>0, <1>7, Requests DEF Chunk, Command, requestVars, workerVars, serverVars,
     TypeOK, Kind, Rows, Alive
<1>8. ASSUME NEW u \in Upload, EndOfBody(u) PROVE \A q \in Session : Rows(q)'
  BY SMTT(30), <1>0, <1>8, Requests DEF EndOfBody, Command, requestVars, workerVars,
     serverVars, TypeOK, Kind, Rows, Alive
<1>9. ASSUME NEW u \in Upload, StreamFails(u) PROVE \A q \in Session : Rows(q)'
  BY SMTT(30), <1>0, <1>9, Requests DEF StreamFails, Command, Answer, Dropped, requestVars,
     workerVars, serverVars, TypeOK, Kind, Rows, Alive
<1>10. ASSUME NEW u \in Upload, Accepted(u) PROVE \A q \in Session : Rows(q)'
  BY SMTT(30), <1>0, <1>10, Requests DEF Accepted, requestVars, workerVars, serverVars,
     TypeOK, Kind, Rows, Alive
<1>11. ASSUME NEW u \in Upload, NotAccepted(u) PROVE \A q \in Session : Rows(q)'
  BY SMTT(30), <1>0, <1>11, Requests DEF NotAccepted, Answer, Dropped, requestVars,
     workerVars, serverVars, TypeOK, Kind, Rows, Alive
<1>12. ASSUME NEW u \in Upload, Begun(u) PROVE \A q \in Session : Rows(q)'
  BY SMTT(30), <1>0, <1>12, Requests DEF Begun, Succeeds, Undecided, Answer, Onward, InPool,
     requestVars, workerVars, serverVars, TypeOK, Kind, Rows, Alive
<1>13. ASSUME NEW u \in Upload, Marked(u) PROVE \A q \in Session : Rows(q)'
  BY SMTT(30), <1>0, <1>13, Requests DEF Marked, Succeeds, Undecided, Answer, Onward,
     InPool, requestVars, workerVars, serverVars, TypeOK, Kind, Rows, Alive
<1>14. ASSUME NEW u \in Upload, Aborted(u) PROVE \A q \in Session : Rows(q)'
  BY SMTT(30), <1>0, <1>14, Requests DEF Aborted, Succeeds, Undecided, Unclassified, Answer,
     Onward, InPool, requestVars, workerVars, serverVars, TypeOK, Kind, Rows, Alive
<1>15. ASSUME NEW u \in Upload, AnswerSent(u) PROVE \A q \in Session : Rows(q)'
  BY SMTT(30), <1>0, <1>15, Requests DEF AnswerSent, AfterTransport, Acknowledging,
     requestVars, workerVars, serverVars, TypeOK, Kind, Rows, Alive
<1>16. ASSUME NEW u \in Upload, Disconnect(u) PROVE \A q \in Session : Rows(q)'
  BY SMTT(30), <1>0, <1>16, Requests DEF Disconnect, AfterTransport, Acknowledging, Dropped,
     Fault, InPool, Operations, requestVars, workerVars, serverVars, TypeOK, Kind, Rows,
     Alive
<1>17. ASSUME NEW u \in Upload, Acknowledged(u) PROVE \A q \in Session : Rows(q)'
  BY SMTT(30), <1>0, <1>17, Requests DEF Acknowledged, Succeeds, Onward, InPool,
     requestVars, workerVars, serverVars, TypeOK, Kind, Rows, Alive
<1>18. ASSUME NEW u \in Upload, AcknowledgeAgain(u) PROVE \A q \in Session : Rows(q)'
  BY SMTT(30), <1>0, <1>18, Requests DEF AcknowledgeAgain, Undecided, Queue, InPool,
     requestVars, workerVars, serverVars, TypeOK, Kind, Rows, Alive
<1>19. ASSUME NEW u \in Upload, Take(u) PROVE \A q \in Session : Rows(q)'
  BY SMTT(30), <1>0, <1>19, Requests DEF Take, requestVars, workerVars, serverVars, TypeOK,
     Kind, Rows, Alive
<1>20. ASSUME NEW u \in Upload, Claim(u) PROVE \A q \in Session : Rows(q)'
  BY SMTT(30), <1>0, <1>20, Requests, RowsReceived DEF Claim, Set, requestVars, workerVars,
     serverVars, TypeOK, Kind, Rows, Alive
<1>21. ASSUME NEW u \in Upload, Progress(u) PROVE \A q \in Session : Rows(q)'
  BY SMTT(30), <1>0, <1>21, Requests, RowsEnded DEF Progress, Reply, GoesOn, Delivered,
     Leaves, CleanedUp, Set, MayExpire, Fault, requestVars, workerVars, serverVars, TypeOK,
     Kind, Rows, Alive, OneReceiver
<1>22. ASSUME NEW u \in Upload, GivesUp(u) PROVE \A q \in Session : Rows(q)'
  BY SMTT(30), <1>0, <1>22, Requests, RowsEnded DEF GivesUp, Reply, Delivered, Leaves,
     CleanedUp, Set, MayExpire, Fault, requestVars, workerVars, serverVars, TypeOK, Kind,
     Rows, Alive, OneReceiver
<1>23. ASSUME NEW u \in Upload, Settle(u) PROVE \A q \in Session : Rows(q)'
  BY SMTT(30), <1>0, <1>23, Requests, RowsSettled DEF Settle, Set, requestVars, workerVars,
     serverVars, TypeOK, Kind, Rows, Alive
<1>24. ASSUME NEW u \in Upload, HandOver(u) PROVE \A q \in Session : Rows(q)'
  BY SMTT(30), <1>0, <1>24, Requests DEF HandOver, Reply, Delivered, Leaves, requestVars,
     workerVars, serverVars, TypeOK, Kind, Rows, Alive, OneReceiver
<1>25. ASSUME NEW u \in Upload, TakeBack(u) PROVE \A q \in Session : Rows(q)'
  BY SMTT(30), <1>0, <1>25, Requests, RowsEnded DEF TakeBack, Reply, Delivered, Leaves, Set,
     Fault, requestVars, workerVars, serverVars, TypeOK, Kind, Rows, Alive, OneReceiver
<1>26. ASSUME NEW u \in Upload, HeartbeatFails(u) PROVE \A q \in Session : Rows(q)'
  BY SMTT(30), <1>0, <1>26, Requests DEF HeartbeatFails, Fault, requestVars, workerVars,
     serverVars, TypeOK, Kind, Rows, Alive
<1>27. ASSUME NEW u \in Upload, Panic(u) PROVE \A q \in Session : Rows(q)'
  BY SMTT(30), <1>0, <1>27, Requests DEF Panic, Fault, requestVars, workerVars, serverVars,
     TypeOK, Kind, Rows, Alive
<1>28. ASSUME NEW u \in Upload, Recover(u) PROVE \A q \in Session : Rows(q)'
  BY SMTT(30), <1>0, <1>28, Requests, RowsEnded DEF Recover, Leaves, CleanedUp, Set,
     MayExpire, Fault, requestVars, workerVars, serverVars, TypeOK, Kind, Rows, Alive,
     OneReceiver
<1>29. ASSUME NEW u \in Upload, Deliver(u, "begin") PROVE \A q \in Session : Rows(q)'
  BY SMTT(30), <1>0, <1>29, Requests, Effects, RowsDelivered DEF Deliver, Set, Ended, RowOf,
     requestVars, workerVars, serverVars, TypeOK, Kind, Rows, Alive
<1>30. ASSUME NEW u \in Upload, Deliver(u, "mark") PROVE \A q \in Session : Rows(q)'
  BY SMTT(30), <1>0, <1>30, Requests, Effects, RowsDelivered DEF Deliver, Set, Ended, RowOf,
     requestVars, workerVars, serverVars, TypeOK, Kind, Rows, Alive
<1>31. ASSUME NEW u \in Upload, Deliver(u, "abort") PROVE \A q \in Session : Rows(q)'
  BY SMTT(30), <1>0, <1>31, Requests, Effects, RowsEnded DEF Deliver, Set, Ended, RowOf,
     requestVars, workerVars, serverVars, TypeOK, Kind, Rows, Alive
<1>32. ASSUME NEW u \in Upload, Deliver(u, "acknowledge") PROVE \A q \in Session : Rows(q)'
  BY SMTT(30), <1>0, <1>32, Requests, Effects, RowsDelivered DEF Deliver, Set, Ended, RowOf,
     requestVars, workerVars, serverVars, TypeOK, Kind, Rows, Alive
<1>33. ASSUME NEW o \in Operation, Begin(o) PROVE \A q \in Session : Rows(q)'
  BY SMTT(30), <1>0, <1>33, Requests DEF Begin, requestVars, workerVars, serverVars, TypeOK,
     Kind, Rows, Alive
<1>34. ASSUME NEW o \in Operation, Fails(o) PROVE \A q \in Session : Rows(q)'
  BY SMTT(30), <1>0, <1>34, Requests DEF Fails, Ended, Fault, requestVars, workerVars,
     serverVars, TypeOK, Kind, Rows, Alive
<1>35. ASSUME NEW s \in Session, LeaseLapses(s) PROVE \A q \in Session : Rows(q)'
  BY SMTT(30), <1>0, <1>35, Requests, RowsLapsed DEF LeaseLapses, Set, Fault, requestVars,
     workerVars, serverVars, TypeOK, Kind, Rows, Alive
<1>36. ASSUME Tick PROVE \A q \in Session : Rows(q)'
  BY SMTT(30), <1>0, <1>36, Requests, Named DEF Tick, Queue, requestVars, workerVars,
     serverVars, TypeOK, Kind, Rows, Alive, Reconciliation
<1>37. ASSUME Reconcile PROVE \A q \in Session : Rows(q)'
  BY SMTT(30), <1>0, <1>37, Requests, RowsEnded, Named DEF Reconcile, Recoverable,
     Abandoned, Ended, requestVars, workerVars, serverVars, TypeOK, Kind, Rows, Alive,
     Reconciliation
<1>38. ASSUME Reconciled PROVE \A q \in Session : Rows(q)'
  BY SMTT(30), <1>0, <1>38, Requests DEF Reconciled, InPool, requestVars, workerVars,
     serverVars, TypeOK, Kind, Rows, Alive
<1>39. ASSUME Shutdown PROVE \A q \in Session : Rows(q)'
  BY SMTT(30), <1>0, <1>39, Requests DEF Shutdown, requestVars, workerVars, serverVars,
     TypeOK, Kind, Rows, Alive
<1>40. ASSUME AbortConnections PROVE \A q \in Session : Rows(q)'
  BY SMTT(30), <1>0, <1>40, Requests DEF AbortConnections, Open, Forsake, InPool,
     requestVars, workerVars, serverVars, TypeOK, Kind, Rows, Alive
<1>41. ASSUME Stop PROVE \A q \in Session : Rows(q)'
  BY SMTT(30), <1>0, <1>41, Requests DEF Stop, Open, Idle, requestVars, workerVars,
     serverVars, TypeOK, Kind, Rows, Alive
<1>42. ASSUME UNCHANGED vars PROVE \A q \in Session : Rows(q)'
  BY SMTT(30), <1>0, <1>42, Requests DEF vars, requestVars, workerVars, serverVars, TypeOK,
     Kind, Rows, Alive
<1> QED
  BY <1>1, <1>2, <1>3, <1>4, <1>5, <1>6, <1>7, <1>8, <1>9, <1>10, <1>11, <1>12, <1>13,
     <1>14, <1>15, <1>16, <1>17, <1>18, <1>19, <1>20, <1>21, <1>22, <1>23, <1>24, <1>25,
     <1>26, <1>27, <1>28, <1>29, <1>30, <1>31, <1>32, <1>33, <1>34, <1>35, <1>36, <1>37,
     <1>38, <1>39, <1>40, <1>41, <1>42 DEF Next, HandlerStep, WorkerStep, PoolStep,
     ServerStep, Kind

\* A reservation is made for a handler that is told, or taken back, after every step.
LEMMA PostsStep == Inv /\ [Next]_vars => \A q \in Session : Posts(q)'
<1> SUFFICES ASSUME Inv, [Next]_vars PROVE \A q \in Session : Posts(q)'
  OBVIOUS
<1>0. /\ TypeOK /\ TypeOK' /\ OneReceiver /\ \A s \in Session : Rows(s) /\ Posts(s)
      /\ \A u \in Upload : Puts(u) /\ Claims(u) /\ Deliveries(u)
  BY TypeStep DEF Inv
<1> DEFINE
  PostPhases == \A q \in Session : handler[q] \in {"idle", "creating", "closed"}
  Untouched == \A q \in Session : handler[q] = "idle" => ledger[q].state = "absent" /\
     job[Op(q, "reserve")] = "none"
  NotReserved == \A q \in Session : job[Op(q, "reserve")] \in {"queued", "executing"} =>
     ledger[q].state = "absent"
  TakenBack == \A q \in Session : job[Op(q, "reserve")] = "compensating" => ledger[q].state
     = "reserved" /\ answer[q] # "success" /\ handler[q] = "closed"
  AnsweredOnce == \A q \in Session : answer[q] # "none" => handler[q] = "closed"
  Told == \A q \in Session : answer[q] = "success" => job[Op(q, "reserve")] = "none"
<1>1. ASSUME NEW c \in Creation, Create(c) PROVE \A q \in Session : Posts(q)'
  BY SMTT(30), <1>0, <1>1, Requests, Named, Waits DEF Create, Queue, requestVars,
     workerVars, serverVars, TypeOK, Kind, Posts
<1>2. ASSUME NEW c \in Creation, Reserve(c) PROVE \A q \in Session : Posts(q)'
  BY SMTT(30), <1>0, <1>2, Requests, NewRows, Named, Waits DEF Reserve, Set, Absent,
     requestVars, workerVars, serverVars, TypeOK, Kind, Posts
<1>3. ASSUME NEW c \in Creation, Compensate(c) PROVE \A q \in Session : Posts(q)'
  BY SMTT(30), <1>0, <1>3, Requests, RowsEnded, Named, Waits DEF Compensate, Set, Fault,
     requestVars, workerVars, serverVars, TypeOK, Kind, Posts
<1>4. ASSUME NEW c \in Creation, Created(c) PROVE \A q \in Session : Posts(q)'
  BY SMTT(30), <1>0, <1>4, Requests, Named, Waits DEF Created, InPool, requestVars,
     workerVars, serverVars, TypeOK, Kind, Posts
<1>5. ASSUME NEW u \in Upload, Start(u) PROVE \A q \in Session : Posts(q)'
  BY SMTT(30), <1>0, <1>5, Requests, Named, Waits DEF Start, Answer, Refused, requestVars,
     workerVars, serverVars, TypeOK, Kind, Posts
<1>6. ASSUME NEW u \in Upload, StartTimesOut(u) PROVE \A q \in Session : Posts(q)'
  BY SMTT(30), <1>0, <1>6, Requests, Named, Waits DEF StartTimesOut, Answer, requestVars,
     workerVars, serverVars, TypeOK, Kind, Posts
<1>7. ASSUME NEW u \in Upload, Chunk(u) PROVE \A q \in Session : Posts(q)'
  BY SMTT(30), <1>0, <1>7, Requests, Named, Waits DEF Chunk, Command, requestVars,
     workerVars, serverVars, TypeOK, Kind, Posts
<1>8. ASSUME NEW u \in Upload, EndOfBody(u) PROVE \A q \in Session : Posts(q)'
  BY SMTT(30), <1>0, <1>8, Requests, Named, Waits DEF EndOfBody, Command, requestVars,
     workerVars, serverVars, TypeOK, Kind, Posts
<1>9. ASSUME NEW u \in Upload, StreamFails(u) PROVE \A q \in Session : Posts(q)'
  BY SMTT(30), <1>0, <1>9, Requests, Named, Waits DEF StreamFails, Command, Answer, Dropped,
     requestVars, workerVars, serverVars, TypeOK, Kind, Posts
<1>10. ASSUME NEW u \in Upload, Accepted(u) PROVE \A q \in Session : Posts(q)'
  BY SMTT(30), <1>0, <1>10, Requests, Named, Waits DEF Accepted, requestVars, workerVars,
     serverVars, TypeOK, Kind, Posts
<1>11. ASSUME NEW u \in Upload, NotAccepted(u) PROVE \A q \in Session : Posts(q)'
  BY SMTT(30), <1>0, <1>11, Requests, Named, Waits DEF NotAccepted, Answer, Dropped,
     requestVars, workerVars, serverVars, TypeOK, Kind, Posts
<1>12. ASSUME NEW u \in Upload, Begun(u) PROVE \A q \in Session : Posts(q)'
  BY SMTT(30), <1>0, <1>12, Requests, Named, Waits DEF Begun, Succeeds, Undecided, Answer,
     Onward, InPool, requestVars, workerVars, serverVars, TypeOK, Kind, Posts
<1>13. ASSUME NEW u \in Upload, Marked(u) PROVE \A q \in Session : Posts(q)'
  BY SMTT(30), <1>0, <1>13, Requests, Named, Waits DEF Marked, Succeeds, Undecided, Answer,
     Onward, InPool, requestVars, workerVars, serverVars, TypeOK, Kind, Posts
<1>14. ASSUME NEW u \in Upload, Aborted(u) PROVE \A q \in Session : Posts(q)'
  BY SMTT(30), <1>0, <1>14, Requests, Named, Waits DEF Aborted, Succeeds, Undecided,
     Unclassified, Answer, Onward, InPool, requestVars, workerVars, serverVars, TypeOK,
     Kind, Posts
<1>15. ASSUME NEW u \in Upload, AnswerSent(u) PROVE \A q \in Session : Posts(q)'
  BY SMTT(30), <1>0, <1>15, Requests, Named, Waits DEF AnswerSent, AfterTransport,
     Acknowledging, requestVars, workerVars, serverVars, TypeOK, Kind, Posts
<1>16. ASSUME NEW u \in Upload, Disconnect(u) PROVE \A q \in Session : Posts(q)'
  BY SMTT(30), <1>0, <1>16, Requests, Named, Waits DEF Disconnect, AfterTransport,
     Acknowledging, Dropped, Fault, InPool, Operations, requestVars, workerVars, serverVars,
     TypeOK, Kind, Posts
<1>17. ASSUME NEW u \in Upload, Acknowledged(u) PROVE \A q \in Session : Posts(q)'
  BY SMTT(30), <1>0, <1>17, Requests, Named, Waits DEF Acknowledged, Succeeds, Onward,
     InPool, requestVars, workerVars, serverVars, TypeOK, Kind, Posts
<1>18. ASSUME NEW u \in Upload, AcknowledgeAgain(u) PROVE \A q \in Session : Posts(q)'
  BY SMTT(30), <1>0, <1>18, Requests, Named, Waits DEF AcknowledgeAgain, Undecided, Queue,
     InPool, requestVars, workerVars, serverVars, TypeOK, Kind, Posts
<1>19. ASSUME NEW u \in Upload, Take(u) PROVE \A q \in Session : Posts(q)'
  BY SMTT(30), <1>0, <1>19, Requests, Named, Waits DEF Take, requestVars, workerVars,
     serverVars, TypeOK, Kind, Posts
<1>20. ASSUME NEW u \in Upload, Claim(u) PROVE \A q \in Session : Posts(q)'
  BY SMTT(30), <1>0, <1>20, Requests, RowsReceived, Named, Waits DEF Claim, Set,
     requestVars, workerVars, serverVars, TypeOK, Kind, Posts, Puts
<1>21. ASSUME NEW u \in Upload, Progress(u) PROVE \A q \in Session : Posts(q)'
  BY SMTT(30), <1>0, <1>21, Requests, RowsEnded, Named, Waits DEF Progress, Reply, GoesOn,
     Delivered, Leaves, CleanedUp, Set, MayExpire, Fault, requestVars, workerVars,
     serverVars, TypeOK, Kind, Posts
<1>22. ASSUME NEW u \in Upload, GivesUp(u) PROVE \A q \in Session : Posts(q)'
  BY SMTT(30), <1>0, <1>22, Requests, Named DEF GivesUp, Reply, Delivered, Leaves,
     CleanedUp, Set, MayExpire, Fault, requestVars, workerVars, serverVars, TypeOK, Kind,
     Posts, Puts
<1>23. ASSUME NEW u \in Upload, Settle(u) PROVE \A q \in Session : Posts(q)'
  BY SMTT(30), <1>0, <1>23, Requests, RowsSettled, Named, Waits DEF Settle, Set,
     requestVars, workerVars, serverVars, TypeOK, Kind, Posts
<1>24. ASSUME NEW u \in Upload, HandOver(u) PROVE \A q \in Session : Posts(q)'
  BY SMTT(30), <1>0, <1>24, Requests, Named, Waits DEF HandOver, Reply, Delivered, Leaves,
     requestVars, workerVars, serverVars, TypeOK, Kind, Posts
<1>25. ASSUME NEW u \in Upload, TakeBack(u) PROVE \A q \in Session : Posts(q)'
  BY SMTT(30), <1>0, <1>25, Requests, RowsEnded, Named, Waits DEF TakeBack, Reply,
     Delivered, Leaves, Set, Fault, requestVars, workerVars, serverVars, TypeOK, Kind,
     Posts, Puts
<1>26. ASSUME NEW u \in Upload, HeartbeatFails(u) PROVE \A q \in Session : Posts(q)'
  BY SMTT(30), <1>0, <1>26, Requests, Named, Waits DEF HeartbeatFails, Fault, requestVars,
     workerVars, serverVars, TypeOK, Kind, Posts
<1>27. ASSUME NEW u \in Upload, Panic(u) PROVE \A q \in Session : Posts(q)'
  BY SMTT(30), <1>0, <1>27, Requests, Named, Waits DEF Panic, Fault, requestVars,
     workerVars, serverVars, TypeOK, Kind, Posts
<1>28. ASSUME NEW u \in Upload, Recover(u) PROVE \A q \in Session : Posts(q)'
  BY SMTT(30), <1>0, <1>28, Requests, RowsEnded DEF Recover, Leaves, CleanedUp, Set,
     MayExpire, Fault, requestVars, workerVars, serverVars, TypeOK, Kind, Posts, Puts
<1>29. ASSUME NEW u \in Upload, Deliver(u, "begin") PROVE \A q \in Session : Posts(q)'
  BY SMTT(30), <1>0, <1>29, Requests, Effects, RowsDelivered, Named, Waits DEF Deliver, Set,
     Ended, RowOf, requestVars, workerVars, serverVars, TypeOK, Kind, Posts, Puts
<1>30. ASSUME NEW u \in Upload, Deliver(u, "mark") PROVE \A q \in Session : Posts(q)'
  BY SMTT(30), <1>0, <1>30, Requests, Effects, RowsDelivered, Named, Waits DEF Deliver, Set,
     Ended, RowOf, requestVars, workerVars, serverVars, TypeOK, Kind, Posts
<1>31. ASSUME NEW u \in Upload, Deliver(u, "abort") PROVE \A q \in Session : Posts(q)'
  <2>1. PostPhases'
    BY SMTT(30), <1>0, <1>31, Requests, Effects, RowsEnded, Named, Waits DEF Deliver, Set,
       Ended, RowOf, requestVars, workerVars, serverVars, TypeOK, Kind, Posts
  <2>2. Untouched'
    BY SMTT(30), <1>0, <1>31, Requests, Effects, RowsEnded, Named, Waits DEF Deliver, Set,
       Ended, RowOf, requestVars, workerVars, serverVars, TypeOK, Kind, Posts, Claims,
       Settled, Puts
  <2>3. NotReserved'
    <3> SUFFICES ASSUME NEW q \in Session, job'[Op(q, "reserve")] \in {"queued", "executing"}
        PROVE ledger'[q].state = "absent"
      OBVIOUS
    <3>1. Op(q, "reserve") # Op(u, "abort")
      BY Named
    <3>2. job'[Op(q, "reserve")] = job[Op(q, "reserve")]
      BY <1>0, <1>31, <3>1, Named, Requests DEF TypeOK, Deliver, Ended
    <3>3. ledger[q].state = "absent" /\ ledger[q].by = "none"
      BY <1>0, <3>2, Requests DEF Posts, Rows
    <3>4. CASE ledger' = ledger
      BY <3>3, <3>4
    <3>5. CASE Allowed(u, "abort") /\ ledger' = [ledger EXCEPT ![Target[u]] = Effect(u, "abort")]
      <4>1. q # Target[u]
        BY <3>3, <3>5, Effects, Requests DEF RowOf
      <4> QED
        BY <1>0, <3>3, <3>5, <4>1 DEF TypeOK
    <3> QED
      BY <1>31, <3>4, <3>5 DEF Deliver, Set
  <2>4. TakenBack'
    BY SMTT(30), <1>0, <1>31, Requests, Effects, RowsEnded, Named, Waits DEF Deliver, Set,
       Ended, RowOf, requestVars, workerVars, serverVars, TypeOK, Kind, Posts, Claims,
       Settled, Puts
  <2>5. AnsweredOnce'
    BY SMTT(30), <1>0, <1>31, Requests, Effects, RowsEnded, Named, Waits DEF Deliver, Set,
       Ended, RowOf, requestVars, workerVars, serverVars, TypeOK, Kind, Posts
  <2>6. Told'
    BY SMTT(30), <1>0, <1>31, Requests, Effects, RowsEnded, Named, Waits DEF Deliver, Set,
       Ended, RowOf, requestVars, workerVars, serverVars, TypeOK, Kind, Posts
  <2> QED
    BY <2>1, <2>2, <2>3, <2>4, <2>5, <2>6 DEF Posts
<1>32. ASSUME NEW u \in Upload, Deliver(u, "acknowledge") PROVE \A q \in Session : Posts(q)'
  BY SMTT(30), <1>0, <1>32, Requests, Effects, RowsDelivered, Named, Waits DEF Deliver, Set,
     Ended, RowOf, requestVars, workerVars, serverVars, TypeOK, Kind, Posts
<1>33. ASSUME NEW o \in Operation, Begin(o) PROVE \A q \in Session : Posts(q)'
  BY SMTT(30), <1>0, <1>33, Requests, Named, Waits DEF Begin, requestVars, workerVars,
     serverVars, TypeOK, Kind, Posts
<1>34. ASSUME NEW o \in Operation, Fails(o) PROVE \A q \in Session : Posts(q)'
  BY SMTT(30), <1>0, <1>34, Requests, Named, Waits DEF Fails, Ended, Fault, requestVars,
     workerVars, serverVars, TypeOK, Kind, Posts
<1>35. ASSUME NEW s \in Session, LeaseLapses(s) PROVE \A q \in Session : Posts(q)'
  BY SMTT(30), <1>0, <1>35, Requests, RowsLapsed, Named, Waits DEF LeaseLapses, Set, Fault,
     requestVars, workerVars, serverVars, TypeOK, Kind, Posts
<1>36. ASSUME Tick PROVE \A q \in Session : Posts(q)'
  BY SMTT(30), <1>0, <1>36, Requests, Named, Waits DEF Tick, Queue, requestVars, workerVars,
     serverVars, TypeOK, Kind, Posts, Reconciliation
<1>37. ASSUME Reconcile PROVE \A q \in Session : Posts(q)'
  BY SMTT(30), <1>0, <1>37, Requests, RowsEnded, Named, Waits DEF Reconcile, Recoverable,
     Abandoned, Ended, requestVars, workerVars, serverVars, TypeOK, Kind, Posts, Rows,
     Settled, RowOf, Reconciliation
<1>38. ASSUME Reconciled PROVE \A q \in Session : Posts(q)'
  BY SMTT(30), <1>0, <1>38, Requests, Named, Waits DEF Reconciled, InPool, requestVars,
     workerVars, serverVars, TypeOK, Kind, Posts
<1>39. ASSUME Shutdown PROVE \A q \in Session : Posts(q)'
  BY SMTT(30), <1>0, <1>39, Requests, Named, Waits DEF Shutdown, requestVars, workerVars,
     serverVars, TypeOK, Kind, Posts
<1>40. ASSUME AbortConnections PROVE \A q \in Session : Posts(q)'
  BY SMTT(30), <1>0, <1>40, Requests, Named, Waits DEF AbortConnections, Open, Forsake,
     InPool, requestVars, workerVars, serverVars, TypeOK, Kind, Posts
<1>41. ASSUME Stop PROVE \A q \in Session : Posts(q)'
  BY SMTT(30), <1>0, <1>41, Requests, Named, Waits DEF Stop, Open, Idle, requestVars,
     workerVars, serverVars, TypeOK, Kind, Posts
<1>42. ASSUME UNCHANGED vars PROVE \A q \in Session : Posts(q)'
  BY SMTT(30), <1>0, <1>42, Requests, Named, Waits DEF vars, requestVars, workerVars,
     serverVars, TypeOK, Kind, Posts
<1> QED
  BY <1>1, <1>2, <1>3, <1>4, <1>5, <1>6, <1>7, <1>8, <1>9, <1>10, <1>11, <1>12, <1>13,
     <1>14, <1>15, <1>16, <1>17, <1>18, <1>19, <1>20, <1>21, <1>22, <1>23, <1>24, <1>25,
     <1>26, <1>27, <1>28, <1>29, <1>30, <1>31, <1>32, <1>33, <1>34, <1>35, <1>36, <1>37,
     <1>38, <1>39, <1>40, <1>41, <1>42 DEF Next, HandlerStep, WorkerStep, PoolStep,
     ServerStep, Kind

\* A handler and its worker wait for each other's next word only, after every step.
LEMMA PutsStep == Inv /\ [Next]_vars => \A q \in Upload : Puts(q)'
<1> SUFFICES ASSUME Inv, [Next]_vars PROVE \A q \in Upload : Puts(q)'
  OBVIOUS
<1>0. /\ TypeOK /\ TypeOK' /\ OneReceiver /\ \A s \in Session : Rows(s) /\ Posts(s)
      /\ \A u \in Upload : Puts(u) /\ Claims(u) /\ Deliveries(u)
  BY TypeStep DEF Inv
<1> DEFINE
  PutPhases == \A q \in Upload : handler[q] # "creating"
  Fresh == \A q \in Upload : handler[q] = "idle" => worker[q] = "none" /\ answer[q] = "none"
     /\ reply[q] = "none"
  Announced == \A q \in Upload : handler[q] # "idle" => answer[Target[q]] = "success"
  NoWorker == \A q \in Upload : worker[q] = "none" => ~claimed[q] /\ mailbox[q] = "empty" /\
     reply[q] = "none" /\ handler[q] \in {"idle", "writingAnswer", "closed"}
  Starting == \A q \in Upload : handler[q] = "starting" => worker[q] \in {"idle", "start",
     "open", "abort", "ended"} /\ Box(q, {"start", "abort"})
  Writing == \A q \in Upload : handler[q] = "writing" => worker[q] \in {"idle", "write",
     "panicked", "abort", "ended"} /\ Box(q, {"write", "abort"}) /\ chunks[q] < MaxChunks
  Finishing == \A q \in Upload : handler[q] = "finishing" => worker[q] \in {"idle",
     "finish", "settled", "abort", "ended"} /\ Box(q, {"finish", "abort"})
  Heard == \A q \in Upload : handler[q] \in {"streaming", "stopping"} \/ (handler[q] \in
     {"starting", "writing"} /\ reply[q] = "ok") => worker[q] \in {"idle", "abort", "ended"}
     /\ Box(q, {"abort"})
  Receipt == \A q \in Upload : handler[q] = "finishing" /\ reply[q] = "ok" => worker[q] =
     "ended" /\ Settled(q)
  Deciders == \A q \in Upload : handler[q] \in Deciding \cup {"acknowledging"} => worker[q]
     = "ended" /\ Settled(q)
  Unanswered == \A q \in Upload : handler[q] \in Receiving \cup Deciding => answer[q] =
     "none"
<1>1. ASSUME NEW c \in Creation, Create(c) PROVE \A q \in Upload : Puts(q)'
  BY SMTT(30), <1>0, <1>1, Requests DEF Create, Queue, requestVars, workerVars, serverVars,
     TypeOK, Kind, Puts, Waiting, Receiving, Deciding, Box, Settled, RowOf
<1>2. ASSUME NEW c \in Creation, Reserve(c) PROVE \A q \in Upload : Puts(q)'
  <2>1. PutPhases'
    BY SMTT(30), <1>0, <1>2, Requests, NewRows DEF Reserve, Set, Absent, requestVars,
       workerVars, serverVars, TypeOK, Kind, Puts, Waiting, Receiving, Deciding, Box
  <2>2. Fresh'
    BY SMTT(30), <1>0, <1>2, Requests, NewRows DEF Reserve, Set, Absent, requestVars,
       workerVars, serverVars, TypeOK, Kind, Puts, Waiting, Receiving, Deciding, Box
  <2>3. Announced'
    BY SMTT(30), <1>0, <1>2, Requests, NewRows DEF Reserve, Set, Absent, requestVars,
       workerVars, serverVars, TypeOK, Kind, Puts, Waiting, Receiving, Deciding, Box
  <2>4. NoWorker'
    BY SMTT(30), <1>0, <1>2, Requests, NewRows DEF Reserve, Set, Absent, requestVars,
       workerVars, serverVars, TypeOK, Kind, Puts, Waiting, Receiving, Deciding, Box
  <2>5. Starting'
    BY SMTT(30), <1>0, <1>2, Requests, NewRows DEF Reserve, Set, Absent, requestVars,
       workerVars, serverVars, TypeOK, Kind, Puts, Waiting, Receiving, Deciding, Box
  <2>6. Writing'
    BY SMTT(30), <1>0, <1>2, Requests, NewRows DEF Reserve, Set, Absent, requestVars,
       workerVars, serverVars, TypeOK, Kind, Puts, Waiting, Receiving, Deciding, Box
  <2>7. Finishing'
    BY SMTT(30), <1>0, <1>2, Requests, NewRows DEF Reserve, Set, Absent, requestVars,
       workerVars, serverVars, TypeOK, Kind, Puts, Waiting, Receiving, Deciding, Box
  <2>8. Heard'
    BY SMTT(30), <1>0, <1>2, Requests, NewRows DEF Reserve, Set, Absent, requestVars,
       workerVars, serverVars, TypeOK, Kind, Puts, Waiting, Receiving, Deciding, Box
  <2>9. Receipt'
    BY SMTT(30), <1>0, <1>2, Requests, NewRows DEF Reserve, Set, Absent, requestVars,
       workerVars, serverVars, TypeOK, Kind, Puts, Waiting, Receiving, Deciding, Box,
       Settled, RowOf, Claims, Rows, Alive, OneReceiver, Posts
  <2>10. Deciders'
    BY SMTT(30), <1>0, <1>2, Requests, NewRows DEF Reserve, Set, Absent, requestVars,
       workerVars, serverVars, TypeOK, Kind, Puts, Waiting, Receiving, Deciding, Box,
       Settled, RowOf, Claims, Rows, Alive, OneReceiver, Posts
  <2>11. Unanswered'
    BY SMTT(30), <1>0, <1>2, Requests, NewRows DEF Reserve, Set, Absent, requestVars,
       workerVars, serverVars, TypeOK, Kind, Puts, Waiting, Receiving, Deciding, Box
  <2> QED
    BY <2>1, <2>2, <2>3, <2>4, <2>5, <2>6, <2>7, <2>8, <2>9, <2>10, <2>11 DEF Puts,
       Receiving, Deciding
<1>3. ASSUME NEW c \in Creation, Compensate(c) PROVE \A q \in Upload : Puts(q)'
  BY SMTT(30), <1>0, <1>3, Requests, RowsEnded DEF Compensate, Set, Fault, requestVars,
     workerVars, serverVars, TypeOK, Kind, Puts, Waiting, Receiving, Deciding, Box, Settled,
     RowOf
<1>4. ASSUME NEW c \in Creation, Created(c) PROVE \A q \in Upload : Puts(q)'
  <2>1. PutPhases'
    BY SMTT(30), <1>0, <1>4, Requests DEF Created, InPool, requestVars, workerVars,
       serverVars, TypeOK, Kind, Puts, Waiting, Receiving, Deciding, Box
  <2>2. Fresh'
    BY SMTT(30), <1>0, <1>4, Requests DEF Created, InPool, requestVars, workerVars,
       serverVars, TypeOK, Kind, Puts, Waiting, Receiving, Deciding, Box
  <2>3. Announced'
    BY SMTT(30), <1>0, <1>4, Requests DEF Created, InPool, requestVars, workerVars,
       serverVars, TypeOK, Kind, Puts, Waiting, Receiving, Deciding, Box, Settled, RowOf,
       Claims, Rows, Alive, OneReceiver, Posts
  <2>4. NoWorker'
    BY SMTT(30), <1>0, <1>4, Requests DEF Created, InPool, requestVars, workerVars,
       serverVars, TypeOK, Kind, Puts, Waiting, Receiving, Deciding, Box
  <2>5. Starting'
    BY SMTT(30), <1>0, <1>4, Requests DEF Created, InPool, requestVars, workerVars,
       serverVars, TypeOK, Kind, Puts, Waiting, Receiving, Deciding, Box
  <2>6. Writing'
    BY SMTT(30), <1>0, <1>4, Requests DEF Created, InPool, requestVars, workerVars,
       serverVars, TypeOK, Kind, Puts, Waiting, Receiving, Deciding, Box
  <2>7. Finishing'
    BY SMTT(30), <1>0, <1>4, Requests DEF Created, InPool, requestVars, workerVars,
       serverVars, TypeOK, Kind, Puts, Waiting, Receiving, Deciding, Box
  <2>8. Heard'
    BY SMTT(30), <1>0, <1>4, Requests DEF Created, InPool, requestVars, workerVars,
       serverVars, TypeOK, Kind, Puts, Waiting, Receiving, Deciding, Box
  <2>9. Receipt'
    BY SMTT(30), <1>0, <1>4, Requests DEF Created, InPool, requestVars, workerVars,
       serverVars, TypeOK, Kind, Puts, Waiting, Receiving, Deciding, Box, Settled, RowOf
  <2>10. Deciders'
    BY SMTT(30), <1>0, <1>4, Requests DEF Created, InPool, requestVars, workerVars,
       serverVars, TypeOK, Kind, Puts, Waiting, Receiving, Deciding, Box, Settled, RowOf
  <2>11. Unanswered'
    BY SMTT(30), <1>0, <1>4, Requests DEF Created, InPool, requestVars, workerVars,
       serverVars, TypeOK, Kind, Puts, Waiting, Receiving, Deciding, Box
  <2> QED
    BY <2>1, <2>2, <2>3, <2>4, <2>5, <2>6, <2>7, <2>8, <2>9, <2>10, <2>11 DEF Puts,
       Receiving, Deciding
<1>5. ASSUME NEW u \in Upload, Start(u) PROVE \A q \in Upload : Puts(q)'
  BY SMTT(30), <1>0, <1>5, Requests DEF Start, Answer, Refused, requestVars, workerVars,
     serverVars, TypeOK, Kind, Puts, Waiting, Receiving, Deciding, Box, Settled, RowOf
<1>6. ASSUME NEW u \in Upload, StartTimesOut(u) PROVE \A q \in Upload : Puts(q)'
  BY SMTT(30), <1>0, <1>6, Requests DEF StartTimesOut, Answer, requestVars, workerVars,
     serverVars, TypeOK, Kind, Puts, Waiting, Receiving, Deciding, Box, Settled, RowOf
<1>7. ASSUME NEW u \in Upload, Chunk(u) PROVE \A q \in Upload : Puts(q)'
  BY SMTT(30), <1>0, <1>7, Requests DEF Chunk, Command, requestVars, workerVars, serverVars,
     TypeOK, Kind, Puts, Waiting, Receiving, Deciding, Box, Settled, RowOf
<1>8. ASSUME NEW u \in Upload, EndOfBody(u) PROVE \A q \in Upload : Puts(q)'
  BY SMTT(30), <1>0, <1>8, Requests DEF EndOfBody, Command, requestVars, workerVars,
     serverVars, TypeOK, Kind, Puts, Waiting, Receiving, Deciding, Box, Settled, RowOf
<1>9. ASSUME NEW u \in Upload, StreamFails(u) PROVE \A q \in Upload : Puts(q)'
  BY SMTT(30), <1>0, <1>9, Requests DEF StreamFails, Command, Answer, Dropped, requestVars,
     workerVars, serverVars, TypeOK, Kind, Puts, Waiting, Receiving, Deciding, Box, Settled,
     RowOf
<1>10. ASSUME NEW u \in Upload, Accepted(u) PROVE \A q \in Upload : Puts(q)'
  BY SMTT(30), <1>0, <1>10, Requests DEF Accepted, requestVars, workerVars, serverVars,
     TypeOK, Kind, Puts, Waiting, Receiving, Deciding, Box, Settled, RowOf
<1>11. ASSUME NEW u \in Upload, NotAccepted(u) PROVE \A q \in Upload : Puts(q)'
  BY SMTT(30), <1>0, <1>11, Requests DEF NotAccepted, Answer, Dropped, requestVars,
     workerVars, serverVars, TypeOK, Kind, Puts, Waiting, Receiving, Deciding, Box, Settled,
     RowOf
<1>12. ASSUME NEW u \in Upload, Begun(u) PROVE \A q \in Upload : Puts(q)'
  BY SMTT(30), <1>0, <1>12, Requests DEF Begun, Succeeds, Undecided, Answer, Onward, InPool,
     requestVars, workerVars, serverVars, TypeOK, Kind, Puts, Waiting, Receiving, Deciding,
     Box, Settled, RowOf
<1>13. ASSUME NEW u \in Upload, Marked(u) PROVE \A q \in Upload : Puts(q)'
  BY SMTT(30), <1>0, <1>13, Requests DEF Marked, Succeeds, Undecided, Answer, Onward,
     InPool, requestVars, workerVars, serverVars, TypeOK, Kind, Puts, Waiting, Receiving,
     Deciding, Box, Settled, RowOf
<1>14. ASSUME NEW u \in Upload, Aborted(u) PROVE \A q \in Upload : Puts(q)'
  BY SMTT(30), <1>0, <1>14, Requests DEF Aborted, Succeeds, Undecided, Unclassified, Answer,
     Onward, InPool, requestVars, workerVars, serverVars, TypeOK, Kind, Puts, Waiting,
     Receiving, Deciding, Box, Settled, RowOf
<1>15. ASSUME NEW u \in Upload, AnswerSent(u) PROVE \A q \in Upload : Puts(q)'
  <2>1. PutPhases'
    BY SMTT(30), <1>0, <1>15, Requests DEF AnswerSent, AfterTransport, Acknowledging,
       requestVars, workerVars, serverVars, TypeOK, Kind, Puts, Waiting, Receiving,
       Deciding, Box
  <2>2. Fresh'
    BY SMTT(30), <1>0, <1>15, Requests DEF AnswerSent, AfterTransport, Acknowledging,
       requestVars, workerVars, serverVars, TypeOK, Kind, Puts, Waiting, Receiving,
       Deciding, Box
  <2>3. Announced'
    BY SMTT(30), <1>0, <1>15, Requests DEF AnswerSent, AfterTransport, Acknowledging,
       requestVars, workerVars, serverVars, TypeOK, Kind, Puts, Waiting, Receiving,
       Deciding, Box
  <2>4. NoWorker'
    <3>1. \A q \in Upload : q \in unacknowledged => worker[q] = "ended" /\ Settled(q)
      BY <1>0 DEF Deliveries, Kept, Settled, RowOf
    <3> QED
      BY SMTT(20), <1>0, <1>15, <3>1, Requests
         DEF AnswerSent, AfterTransport, workerVars, serverVars, TypeOK, Puts,
             Waiting, Alive
  <2>5. Starting'
    BY SMTT(30), <1>0, <1>15, Requests DEF AnswerSent, AfterTransport, Acknowledging,
       requestVars, workerVars, serverVars, TypeOK, Kind, Puts, Waiting, Receiving,
       Deciding, Box
  <2>6. Writing'
    BY SMTT(30), <1>0, <1>15, Requests DEF AnswerSent, AfterTransport, Acknowledging,
       requestVars, workerVars, serverVars, TypeOK, Kind, Puts, Waiting, Receiving,
       Deciding, Box
  <2>7. Finishing'
    BY SMTT(30), <1>0, <1>15, Requests DEF AnswerSent, AfterTransport, Acknowledging,
       requestVars, workerVars, serverVars, TypeOK, Kind, Puts, Waiting, Receiving,
       Deciding, Box
  <2>8. Heard'
    BY SMTT(30), <1>0, <1>15, Requests DEF AnswerSent, AfterTransport, Acknowledging,
       requestVars, workerVars, serverVars, TypeOK, Kind, Puts, Waiting, Receiving,
       Deciding, Box
  <2>9. Receipt'
    BY SMTT(30), <1>0, <1>15, Requests DEF AnswerSent, AfterTransport, Acknowledging,
       requestVars, workerVars, serverVars, TypeOK, Kind, Puts, Waiting, Receiving,
       Deciding, Box, Settled, RowOf
  <2>10. Deciders'
    <3>1. \A q \in Upload : q \in unacknowledged => worker[q] = "ended" /\ Settled(q)
      BY <1>0 DEF Deliveries, Kept, Settled, RowOf
    <3> QED
      BY SMTT(20), <1>0, <1>15, <3>1, Requests
         DEF AnswerSent, AfterTransport, workerVars, serverVars, TypeOK, Puts,
             Waiting, Deciding, Settled, RowOf
  <2>11. Unanswered'
    BY SMTT(30), <1>0, <1>15, Requests DEF AnswerSent, AfterTransport, Acknowledging,
       requestVars, workerVars, serverVars, TypeOK, Kind, Puts, Waiting, Receiving,
       Deciding, Box
  <2> QED
    BY <2>1, <2>2, <2>3, <2>4, <2>5, <2>6, <2>7, <2>8, <2>9, <2>10, <2>11 DEF Puts,
       Receiving, Deciding
<1>16. ASSUME NEW u \in Upload, Disconnect(u) PROVE \A q \in Upload : Puts(q)'
  <2>1. PutPhases'
    BY SMTT(30), <1>0, <1>16, Requests DEF Disconnect, AfterTransport, Acknowledging,
       Dropped, Fault, InPool, Operations, requestVars, workerVars, serverVars, TypeOK,
       Kind, Puts, Waiting, Receiving, Deciding, Box
  <2>2. Fresh'
    BY SMTT(30), <1>0, <1>16, Requests DEF Disconnect, AfterTransport, Acknowledging,
       Dropped, Fault, InPool, Operations, requestVars, workerVars, serverVars, TypeOK,
       Kind, Puts, Waiting, Receiving, Deciding, Box
  <2>3. Announced'
    BY SMTT(30), <1>0, <1>16, Requests DEF Disconnect, AfterTransport, Acknowledging,
       Dropped, Fault, InPool, Operations, requestVars, workerVars, serverVars, TypeOK,
       Kind, Puts, Waiting, Receiving, Deciding, Box
  <2>4. NoWorker'
    <3>1. \A q \in Upload : q \in unacknowledged => worker[q] = "ended" /\ Settled(q)
      BY <1>0 DEF Deliveries, Kept, Settled, RowOf
    <3> QED
      BY SMTT(20), <1>0, <1>16, <3>1, Requests
         DEF Disconnect, AfterTransport, Fault, Dropped, workerVars, serverVars, TypeOK, Puts,
             Waiting, Alive
  <2>5. Starting'
    BY SMTT(30), <1>0, <1>16, Requests DEF Disconnect, AfterTransport, Acknowledging,
       Dropped, Fault, InPool, Operations, requestVars, workerVars, serverVars, TypeOK,
       Kind, Puts, Waiting, Receiving, Deciding, Box
  <2>6. Writing'
    BY SMTT(30), <1>0, <1>16, Requests DEF Disconnect, AfterTransport, Acknowledging,
       Dropped, Fault, InPool, Operations, requestVars, workerVars, serverVars, TypeOK,
       Kind, Puts, Waiting, Receiving, Deciding, Box
  <2>7. Finishing'
    BY SMTT(30), <1>0, <1>16, Requests DEF Disconnect, AfterTransport, Acknowledging,
       Dropped, Fault, InPool, Operations, requestVars, workerVars, serverVars, TypeOK,
       Kind, Puts, Waiting, Receiving, Deciding, Box
  <2>8. Heard'
    BY SMTT(30), <1>0, <1>16, Requests DEF Disconnect, AfterTransport, Acknowledging,
       Dropped, Fault, InPool, Operations, requestVars, workerVars, serverVars, TypeOK,
       Kind, Puts, Waiting, Receiving, Deciding, Box
  <2>9. Receipt'
    BY SMTT(30), <1>0, <1>16, Requests DEF Disconnect, AfterTransport, Acknowledging,
       Dropped, Fault, InPool, Operations, requestVars, workerVars, serverVars, TypeOK,
       Kind, Puts, Waiting, Receiving, Deciding, Box, Settled, RowOf
  <2>10. Deciders'
    <3>1. \A q \in Upload : q \in unacknowledged => worker[q] = "ended" /\ Settled(q)
      BY <1>0 DEF Deliveries, Kept, Settled, RowOf
    <3> QED
      BY SMTT(20), <1>0, <1>16, <3>1, Requests
         DEF Disconnect, AfterTransport, Fault, Dropped, workerVars, serverVars, TypeOK, Puts,
             Waiting, Deciding, Settled, RowOf
  <2>11. Unanswered'
    BY SMTT(30), <1>0, <1>16, Requests DEF Disconnect, AfterTransport, Acknowledging,
       Dropped, Fault, InPool, Operations, requestVars, workerVars, serverVars, TypeOK,
       Kind, Puts, Waiting, Receiving, Deciding, Box
  <2> QED
    BY <2>1, <2>2, <2>3, <2>4, <2>5, <2>6, <2>7, <2>8, <2>9, <2>10, <2>11 DEF Puts,
       Receiving, Deciding
<1>17. ASSUME NEW u \in Upload, Acknowledged(u) PROVE \A q \in Upload : Puts(q)'
  BY SMTT(30), <1>0, <1>17, Requests DEF Acknowledged, Succeeds, Onward, InPool,
     requestVars, workerVars, serverVars, TypeOK, Kind, Puts, Waiting, Receiving, Deciding,
     Box, Settled, RowOf
<1>18. ASSUME NEW u \in Upload, AcknowledgeAgain(u) PROVE \A q \in Upload : Puts(q)'
  BY SMTT(30), <1>0, <1>18, Requests DEF AcknowledgeAgain, Undecided, Queue, InPool,
     requestVars, workerVars, serverVars, TypeOK, Kind, Puts, Waiting, Receiving, Deciding,
     Box, Settled, RowOf
<1>19. ASSUME NEW u \in Upload, Take(u) PROVE \A q \in Upload : Puts(q)'
  BY SMTT(30), <1>0, <1>19, Requests DEF Take, requestVars, workerVars, serverVars, TypeOK,
     Kind, Puts, Waiting, Receiving, Deciding, Box, Settled, RowOf
<1>20. ASSUME NEW u \in Upload, Claim(u) PROVE \A q \in Upload : Puts(q)'
  BY SMTT(30), <1>0, <1>20, Requests, RowsReceived DEF Claim, Set, requestVars, workerVars,
     serverVars, TypeOK, Kind, Puts, Waiting, Receiving, Deciding, Box, Settled, RowOf
<1>21. ASSUME NEW u \in Upload, Progress(u) PROVE \A q \in Upload : Puts(q)'
  <2>1. PutPhases'
    BY SMTT(30), <1>0, <1>21, Requests, RowsEnded DEF Progress, Reply, GoesOn, Delivered,
       Leaves, CleanedUp, Set, MayExpire, Fault, requestVars, workerVars, serverVars,
       TypeOK, Kind, Puts, Waiting, Receiving, Deciding, Box
  <2>2. Fresh'
    BY SMTT(30), <1>0, <1>21, Requests, RowsEnded DEF Progress, Reply, GoesOn, Delivered,
       Leaves, CleanedUp, Set, MayExpire, Fault, requestVars, workerVars, serverVars,
       TypeOK, Kind, Puts, Waiting, Receiving, Deciding, Box
  <2>3. Announced'
    BY SMTT(30), <1>0, <1>21, Requests, RowsEnded DEF Progress, Reply, GoesOn, Delivered,
       Leaves, CleanedUp, Set, MayExpire, Fault, requestVars, workerVars, serverVars,
       TypeOK, Kind, Puts, Waiting, Receiving, Deciding, Box
  <2>4. NoWorker'
    BY SMTT(30), <1>0, <1>21, Requests, RowsEnded DEF Progress, Reply, GoesOn, Delivered,
       Leaves, CleanedUp, Set, MayExpire, Fault, requestVars, workerVars, serverVars,
       TypeOK, Kind, Puts, Waiting, Receiving, Deciding, Box
  <2>5. Starting'
    BY SMTT(30), <1>0, <1>21, Requests, RowsEnded DEF Progress, Reply, GoesOn, Delivered,
       Leaves, CleanedUp, Set, MayExpire, Fault, requestVars, workerVars, serverVars,
       TypeOK, Kind, Puts, Waiting, Receiving, Deciding, Box
  <2>6. Writing'
    BY SMTT(30), <1>0, <1>21, Requests, RowsEnded DEF Progress, Reply, GoesOn, Delivered,
       Leaves, CleanedUp, Set, MayExpire, Fault, requestVars, workerVars, serverVars,
       TypeOK, Kind, Puts, Waiting, Receiving, Deciding, Box
  <2>7. Finishing'
    BY SMTT(30), <1>0, <1>21, Requests, RowsEnded DEF Progress, Reply, GoesOn, Delivered,
       Leaves, CleanedUp, Set, MayExpire, Fault, requestVars, workerVars, serverVars,
       TypeOK, Kind, Puts, Waiting, Receiving, Deciding, Box
  <2>8. Heard'
    <3>1. Box(u, {"abort"})
      BY <1>21, Inv DEF Inv, Channels, Progress
    <3>2. UNCHANGED <<handler, chunks>> /\ reply'[u] \in {"ok", reply[u]}
      BY <1>0, <1>21, Requests DEF Progress, Reply, TypeOK, requestVars
    <3>3. worker'[u] \in {"idle", "ended"} /\ mailbox'[u] \in {mailbox[u], "empty"}
      BY <1>0, <1>21, Requests DEF Progress, Leaves, TypeOK
    <3>4. \A q \in Upload : q # u => worker'[q] = worker[q] /\ mailbox'[q] = mailbox[q]
                                     /\ reply'[q] = reply[q]
      BY <1>0, <1>21, Requests DEF Progress, Leaves, Reply, TypeOK
    <3> QED
      BY SMTT(20), <1>0, <3>1, <3>2, <3>3, <3>4 DEF Puts, Box
  <2>9. Receipt'
    BY SMTT(30), <1>0, <1>21, Requests, RowsEnded DEF Progress, Reply, GoesOn, Delivered,
       Leaves, CleanedUp, Set, MayExpire, Fault, requestVars, workerVars, serverVars,
       TypeOK, Kind, Puts, Waiting, Receiving, Deciding, Box, Settled, RowOf
  <2>10. Deciders'
    BY SMTT(30), <1>0, <1>21, Requests, RowsEnded DEF Progress, Reply, GoesOn, Delivered,
       Leaves, CleanedUp, Set, MayExpire, Fault, requestVars, workerVars, serverVars,
       TypeOK, Kind, Puts, Waiting, Receiving, Deciding, Box, Settled, RowOf
  <2>11. Unanswered'
    BY SMTT(30), <1>0, <1>21, Requests, RowsEnded DEF Progress, Reply, GoesOn, Delivered,
       Leaves, CleanedUp, Set, MayExpire, Fault, requestVars, workerVars, serverVars,
       TypeOK, Kind, Puts, Waiting, Receiving, Deciding, Box
  <2> QED
    BY <2>1, <2>2, <2>3, <2>4, <2>5, <2>6, <2>7, <2>8, <2>9, <2>10, <2>11 DEF Puts,
       Receiving, Deciding
<1>22. ASSUME NEW u \in Upload, GivesUp(u) PROVE \A q \in Upload : Puts(q)'
  BY SMTT(30), <1>0, <1>22, Requests, RowsEnded DEF GivesUp, Reply, Delivered, Leaves,
     CleanedUp, Set, MayExpire, Fault, requestVars, workerVars, serverVars, TypeOK, Kind,
     Puts, Waiting, Receiving, Deciding, Box, Settled, RowOf
<1>23. ASSUME NEW u \in Upload, Settle(u) PROVE \A q \in Upload : Puts(q)'
  <2>1. PutPhases'
    BY SMTT(30), <1>0, <1>23, Requests, RowsSettled DEF Settle, Set, requestVars,
       workerVars, serverVars, TypeOK, Kind, Puts, Waiting, Receiving, Deciding, Box
  <2>2. Fresh'
    BY SMTT(30), <1>0, <1>23, Requests, RowsSettled DEF Settle, Set, requestVars,
       workerVars, serverVars, TypeOK, Kind, Puts, Waiting, Receiving, Deciding, Box
  <2>3. Announced'
    BY SMTT(30), <1>0, <1>23, Requests, RowsSettled DEF Settle, Set, requestVars,
       workerVars, serverVars, TypeOK, Kind, Puts, Waiting, Receiving, Deciding, Box
  <2>4. NoWorker'
    BY SMTT(30), <1>0, <1>23, Requests, RowsSettled DEF Settle, Set, requestVars,
       workerVars, serverVars, TypeOK, Kind, Puts, Waiting, Receiving, Deciding, Box
  <2>5. Starting'
    BY SMTT(30), <1>0, <1>23, Requests, RowsSettled DEF Settle, Set, requestVars,
       workerVars, serverVars, TypeOK, Kind, Puts, Waiting, Receiving, Deciding, Box
  <2>6. Writing'
    BY SMTT(30), <1>0, <1>23, Requests, RowsSettled DEF Settle, Set, requestVars,
       workerVars, serverVars, TypeOK, Kind, Puts, Waiting, Receiving, Deciding, Box
  <2>7. Finishing'
    BY SMTT(30), <1>0, <1>23, Requests, RowsSettled DEF Settle, Set, requestVars,
       workerVars, serverVars, TypeOK, Kind, Puts, Waiting, Receiving, Deciding, Box
  <2>8. Heard'
    BY SMTT(30), <1>0, <1>23, Requests, RowsSettled DEF Settle, Set, requestVars,
       workerVars, serverVars, TypeOK, Kind, Puts, Waiting, Receiving, Deciding, Box
  <2>9. Receipt'
    BY SMTT(30), <1>0, <1>23, Requests, RowsSettled DEF Settle, Set, requestVars,
       workerVars, serverVars, TypeOK, Kind, Puts, Waiting, Receiving, Deciding, Box,
       Settled, RowOf, Claims, Rows, Alive, OneReceiver, Posts
  <2>10. Deciders'
    BY SMTT(30), <1>0, <1>23, Requests, RowsSettled DEF Settle, Set, requestVars,
       workerVars, serverVars, TypeOK, Kind, Puts, Waiting, Receiving, Deciding, Box,
       Settled, RowOf, Claims, Rows, Alive, OneReceiver, Posts
  <2>11. Unanswered'
    BY SMTT(30), <1>0, <1>23, Requests, RowsSettled DEF Settle, Set, requestVars,
       workerVars, serverVars, TypeOK, Kind, Puts, Waiting, Receiving, Deciding, Box
  <2> QED
    BY <2>1, <2>2, <2>3, <2>4, <2>5, <2>6, <2>7, <2>8, <2>9, <2>10, <2>11 DEF Puts,
       Receiving, Deciding
<1>24. ASSUME NEW u \in Upload, HandOver(u) PROVE \A q \in Upload : Puts(q)'
  <2>1. PutPhases'
    BY SMTT(30), <1>0, <1>24, Requests DEF HandOver, Reply, Delivered, Leaves, requestVars,
       workerVars, serverVars, TypeOK, Kind, Puts, Waiting, Receiving, Deciding, Box
  <2>2. Fresh'
    BY SMTT(30), <1>0, <1>24, Requests DEF HandOver, Reply, Delivered, Leaves, requestVars,
       workerVars, serverVars, TypeOK, Kind, Puts, Waiting, Receiving, Deciding, Box
  <2>3. Announced'
    BY SMTT(30), <1>0, <1>24, Requests DEF HandOver, Reply, Delivered, Leaves, requestVars,
       workerVars, serverVars, TypeOK, Kind, Puts, Waiting, Receiving, Deciding, Box
  <2>4. NoWorker'
    BY SMTT(30), <1>0, <1>24, Requests DEF HandOver, Reply, Delivered, Leaves, requestVars,
       workerVars, serverVars, TypeOK, Kind, Puts, Waiting, Receiving, Deciding, Box
  <2>5. Starting'
    BY SMTT(30), <1>0, <1>24, Requests DEF HandOver, Reply, Delivered, Leaves, requestVars,
       workerVars, serverVars, TypeOK, Kind, Puts, Waiting, Receiving, Deciding, Box
  <2>6. Writing'
    BY SMTT(30), <1>0, <1>24, Requests DEF HandOver, Reply, Delivered, Leaves, requestVars,
       workerVars, serverVars, TypeOK, Kind, Puts, Waiting, Receiving, Deciding, Box
  <2>7. Finishing'
    BY SMTT(30), <1>0, <1>24, Requests DEF HandOver, Reply, Delivered, Leaves, requestVars,
       workerVars, serverVars, TypeOK, Kind, Puts, Waiting, Receiving, Deciding, Box
  <2>8. Heard'
    BY SMTT(30), <1>0, <1>24, Requests DEF HandOver, Reply, Delivered, Leaves, requestVars,
       workerVars, serverVars, TypeOK, Kind, Puts, Waiting, Receiving, Deciding, Box
  <2>9. Receipt'
    BY SMTT(30), <1>0, <1>24, Requests DEF HandOver, Reply, Delivered, Leaves, requestVars,
       workerVars, serverVars, TypeOK, Kind, Puts, Waiting, Receiving, Deciding, Box,
       Settled, RowOf, Claims, Rows, Alive, OneReceiver, Posts
  <2>10. Deciders'
    BY SMTT(30), <1>0, <1>24, Requests DEF HandOver, Reply, Delivered, Leaves, requestVars,
       workerVars, serverVars, TypeOK, Kind, Puts, Waiting, Receiving, Deciding, Box,
       Settled, RowOf
  <2>11. Unanswered'
    BY SMTT(30), <1>0, <1>24, Requests DEF HandOver, Reply, Delivered, Leaves, requestVars,
       workerVars, serverVars, TypeOK, Kind, Puts, Waiting, Receiving, Deciding, Box
  <2> QED
    BY <2>1, <2>2, <2>3, <2>4, <2>5, <2>6, <2>7, <2>8, <2>9, <2>10, <2>11 DEF Puts,
       Receiving, Deciding
<1>25. ASSUME NEW u \in Upload, TakeBack(u) PROVE \A q \in Upload : Puts(q)'
  BY SMTT(30), <1>0, <1>25, Requests, RowsEnded DEF TakeBack, Reply, Delivered, Leaves, Set,
     Fault, requestVars, workerVars, serverVars, TypeOK, Kind, Puts, Waiting, Receiving,
     Deciding, Box, Settled, RowOf
<1>26. ASSUME NEW u \in Upload, HeartbeatFails(u) PROVE \A q \in Upload : Puts(q)'
  BY SMTT(30), <1>0, <1>26, Requests DEF HeartbeatFails, Fault, requestVars, workerVars,
     serverVars, TypeOK, Kind, Puts, Waiting, Receiving, Deciding, Box, Settled, RowOf
<1>27. ASSUME NEW u \in Upload, Panic(u) PROVE \A q \in Upload : Puts(q)'
  BY SMTT(30), <1>0, <1>27, Requests DEF Panic, Fault, requestVars, workerVars, serverVars,
     TypeOK, Kind, Puts, Waiting, Receiving, Deciding, Box, Settled, RowOf
<1>28. ASSUME NEW u \in Upload, Recover(u) PROVE \A q \in Upload : Puts(q)'
  BY SMTT(30), <1>0, <1>28, Requests, RowsEnded DEF Recover, Leaves, CleanedUp, Set,
     MayExpire, Fault, requestVars, workerVars, serverVars, TypeOK, Kind, Puts, Waiting,
     Receiving, Deciding, Box, Settled, RowOf
<1>29. ASSUME NEW u \in Upload, Deliver(u, "begin") PROVE \A q \in Upload : Puts(q)'
  BY SMTT(30), <1>0, <1>29, Requests, Effects, RowsDelivered DEF Deliver, Set, Ended, RowOf,
     requestVars, workerVars, serverVars, TypeOK, Kind, Puts, Waiting, Receiving, Deciding,
     Box, Settled
<1>30. ASSUME NEW u \in Upload, Deliver(u, "mark") PROVE \A q \in Upload : Puts(q)'
  BY SMTT(30), <1>0, <1>30, Requests, Effects, RowsDelivered DEF Deliver, Set, Ended, RowOf,
     requestVars, workerVars, serverVars, TypeOK, Kind, Puts, Waiting, Receiving, Deciding,
     Box, Settled
<1>31. ASSUME NEW u \in Upload, Deliver(u, "abort") PROVE \A q \in Upload : Puts(q)'
  BY SMTT(30), <1>0, <1>31, Requests, Effects, RowsEnded DEF Deliver, Set, Ended, RowOf,
     requestVars, workerVars, serverVars, TypeOK, Kind, Puts, Waiting, Receiving, Deciding,
     Box, Settled
<1>32. ASSUME NEW u \in Upload, Deliver(u, "acknowledge") PROVE \A q \in Upload : Puts(q)'
  BY SMTT(30), <1>0, <1>32, Requests, Effects, RowsDelivered DEF Deliver, Set, Ended, RowOf,
     requestVars, workerVars, serverVars, TypeOK, Kind, Puts, Waiting, Receiving, Deciding,
     Box, Settled
<1>33. ASSUME NEW o \in Operation, Begin(o) PROVE \A q \in Upload : Puts(q)'
  BY SMTT(30), <1>0, <1>33, Requests DEF Begin, requestVars, workerVars, serverVars, TypeOK,
     Kind, Puts, Waiting, Receiving, Deciding, Box, Settled, RowOf
<1>34. ASSUME NEW o \in Operation, Fails(o) PROVE \A q \in Upload : Puts(q)'
  BY SMTT(30), <1>0, <1>34, Requests DEF Fails, Ended, Fault, requestVars, workerVars,
     serverVars, TypeOK, Kind, Puts, Waiting, Receiving, Deciding, Box, Settled, RowOf
<1>35. ASSUME NEW s \in Session, LeaseLapses(s) PROVE \A q \in Upload : Puts(q)'
  BY SMTT(30), <1>0, <1>35, Requests, RowsLapsed DEF LeaseLapses, Set, Fault, requestVars,
     workerVars, serverVars, TypeOK, Kind, Puts, Waiting, Receiving, Deciding, Box, Settled,
     RowOf
<1>36. ASSUME Tick PROVE \A q \in Upload : Puts(q)'
  BY SMTT(30), <1>0, <1>36, Requests, Named DEF Tick, Queue, requestVars, workerVars,
     serverVars, TypeOK, Kind, Puts, Waiting, Receiving, Deciding, Box, Settled, RowOf,
     Reconciliation
<1>37. ASSUME Reconcile PROVE \A q \in Upload : Puts(q)'
  BY SMTT(30), <1>0, <1>37, Requests, RowsEnded, Named DEF Reconcile, Recoverable,
     Abandoned, Ended, requestVars, workerVars, serverVars, TypeOK, Kind, Puts, Waiting,
     Receiving, Deciding, Box, Settled, RowOf, Reconciliation
<1>38. ASSUME Reconciled PROVE \A q \in Upload : Puts(q)'
  BY SMTT(30), <1>0, <1>38, Requests DEF Reconciled, InPool, requestVars, workerVars,
     serverVars, TypeOK, Kind, Puts, Waiting, Receiving, Deciding, Box, Settled, RowOf
<1>39. ASSUME Shutdown PROVE \A q \in Upload : Puts(q)'
  BY SMTT(30), <1>0, <1>39, Requests DEF Shutdown, requestVars, workerVars, serverVars,
     TypeOK, Kind, Puts, Waiting, Receiving, Deciding, Box, Settled, RowOf
<1>40. ASSUME AbortConnections PROVE \A q \in Upload : Puts(q)'
  <2>1. PutPhases'
    BY SMTT(30), <1>0, <1>40, Requests DEF AbortConnections, Open, Forsake, InPool,
       requestVars, workerVars, serverVars, TypeOK, Kind, Puts, Waiting, Receiving,
       Deciding, Box
  <2>2. Fresh'
    BY SMTT(30), <1>0, <1>40, Requests DEF AbortConnections, Open, Forsake, InPool,
       requestVars, workerVars, serverVars, TypeOK, Kind, Puts, Waiting, Receiving,
       Deciding, Box
  <2>3. Announced'
    BY SMTT(30), <1>0, <1>40, Requests DEF AbortConnections, Open, Forsake, InPool,
       requestVars, workerVars, serverVars, TypeOK, Kind, Puts, Waiting, Receiving,
       Deciding, Box
  <2>4. NoWorker'
    BY SMTT(30), <1>0, <1>40, Requests DEF AbortConnections, Open, Forsake, InPool,
       requestVars, workerVars, serverVars, TypeOK, Kind, Puts, Waiting, Receiving,
       Deciding, Box, Settled, RowOf, Claims, Rows, Alive, OneReceiver, Posts
  <2>5. Starting'
    BY SMTT(30), <1>0, <1>40, Requests DEF AbortConnections, Open, Forsake, InPool,
       requestVars, workerVars, serverVars, TypeOK, Kind, Puts, Waiting, Receiving,
       Deciding, Box
  <2>6. Writing'
    BY SMTT(30), <1>0, <1>40, Requests DEF AbortConnections, Open, Forsake, InPool,
       requestVars, workerVars, serverVars, TypeOK, Kind, Puts, Waiting, Receiving,
       Deciding, Box
  <2>7. Finishing'
    BY SMTT(30), <1>0, <1>40, Requests DEF AbortConnections, Open, Forsake, InPool,
       requestVars, workerVars, serverVars, TypeOK, Kind, Puts, Waiting, Receiving,
       Deciding, Box
  <2>8. Heard'
    BY SMTT(30), <1>0, <1>40, Requests DEF AbortConnections, Open, Forsake, InPool,
       requestVars, workerVars, serverVars, TypeOK, Kind, Puts, Waiting, Receiving,
       Deciding, Box
  <2>9. Receipt'
    BY SMTT(30), <1>0, <1>40, Requests DEF AbortConnections, Open, Forsake, InPool,
       requestVars, workerVars, serverVars, TypeOK, Kind, Puts, Waiting, Receiving,
       Deciding, Box
  <2>10. Deciders'
    BY SMTT(30), <1>0, <1>40, Requests DEF AbortConnections, Open, Forsake, InPool,
       requestVars, workerVars, serverVars, TypeOK, Kind, Puts, Waiting, Receiving,
       Deciding, Box
  <2>11. Unanswered'
    BY SMTT(30), <1>0, <1>40, Requests DEF AbortConnections, Open, Forsake, InPool,
       requestVars, workerVars, serverVars, TypeOK, Kind, Puts, Waiting, Receiving,
       Deciding, Box
  <2> QED
    BY <2>1, <2>2, <2>3, <2>4, <2>5, <2>6, <2>7, <2>8, <2>9, <2>10, <2>11 DEF Puts,
       Receiving, Deciding
<1>41. ASSUME Stop PROVE \A q \in Upload : Puts(q)'
  BY SMTT(30), <1>0, <1>41, Requests DEF Stop, Open, Idle, requestVars, workerVars,
     serverVars, TypeOK, Kind, Puts, Waiting, Receiving, Deciding, Box
<1>42. ASSUME UNCHANGED vars PROVE \A q \in Upload : Puts(q)'
  BY SMTT(30), <1>0, <1>42, Requests DEF vars, requestVars, workerVars, serverVars, TypeOK,
     Kind, Puts, Waiting, Receiving, Deciding, Box, Settled, RowOf
<1> QED
  BY <1>1, <1>2, <1>3, <1>4, <1>5, <1>6, <1>7, <1>8, <1>9, <1>10, <1>11, <1>12, <1>13,
     <1>14, <1>15, <1>16, <1>17, <1>18, <1>19, <1>20, <1>21, <1>22, <1>23, <1>24, <1>25,
     <1>26, <1>27, <1>28, <1>29, <1>30, <1>31, <1>32, <1>33, <1>34, <1>35, <1>36, <1>37,
     <1>38, <1>39, <1>40, <1>41, <1>42 DEF Next, HandlerStep, WorkerStep, PoolStep,
     ServerStep, Kind

\* Who holds the receiving lease, after every step.
LEMMA ClaimsStep == Inv /\ [Next]_vars => \A q \in Upload : Claims(q)'
<1> SUFFICES ASSUME Inv, [Next]_vars PROVE \A q \in Upload : Claims(q)'
  OBVIOUS
<1>0. /\ TypeOK /\ TypeOK' /\ OneReceiver /\ \A s \in Session : Rows(s) /\ Posts(s)
      /\ \A u \in Upload : Puts(u) /\ Claims(u) /\ Deliveries(u)
  BY TypeStep DEF Inv
<1> DEFINE
  ClaimedFirst == \A q \in Upload : worker[q] \in {"open", "write", "finish", "settled",
     "panicked"} => claimed[q]
  ClaimedHeard == \A q \in Upload : mailbox[q] \in {"write", "finish"} \/ reply[q] = "ok" \/
     handler[q] \in {"streaming", "writing", "finishing"} => claimed[q]
  ClaimedRow == \A q \in Upload : claimed[q] => RowOf(q).state \notin {"absent", "reserved"}
  SettledLast == \A q \in Upload : worker[q] = "settled" => Settled(q)
  SettledBefore == \A q \in Upload : Settled(q) => claimed[q] /\ worker[q] \in {"settled",
     "ended"}
<1>1. ASSUME NEW c \in Creation, Create(c) PROVE \A q \in Upload : Claims(q)'
  BY SMTT(30), <1>0, <1>1, Requests DEF Create, Queue, requestVars, workerVars, serverVars,
     TypeOK, Kind, Claims, Settled, RowOf
<1>2. ASSUME NEW c \in Creation, Reserve(c) PROVE \A q \in Upload : Claims(q)'
  <2>1. ClaimedFirst'
    BY SMTT(30), <1>0, <1>2, Requests, NewRows DEF Reserve, Set, Absent, requestVars,
       workerVars, serverVars, TypeOK, Kind, Claims
  <2>2. ClaimedHeard'
    BY SMTT(30), <1>0, <1>2, Requests, NewRows DEF Reserve, Set, Absent, requestVars,
       workerVars, serverVars, TypeOK, Kind, Claims
  <2>3. ClaimedRow'
    BY SMTT(30), <1>0, <1>2, Requests, NewRows DEF Reserve, Set, Absent, requestVars,
       workerVars, serverVars, TypeOK, Kind, Claims, Settled, RowOf, Posts, Puts
  <2>4. SettledLast'
    BY SMTT(30), <1>0, <1>2, Requests, NewRows DEF Reserve, Set, Absent, requestVars,
       workerVars, serverVars, TypeOK, Kind, Claims, Settled, RowOf, Posts, Puts
  <2>5. SettledBefore'
    BY SMTT(30), <1>0, <1>2, Requests, NewRows DEF Reserve, Set, Absent, requestVars,
       workerVars, serverVars, TypeOK, Kind, Claims, Settled, RowOf
  <2> QED
    BY <2>1, <2>2, <2>3, <2>4, <2>5 DEF Claims
<1>3. ASSUME NEW c \in Creation, Compensate(c) PROVE \A q \in Upload : Claims(q)'
  BY SMTT(30), <1>0, <1>3, Requests, RowsEnded DEF Compensate, Set, Fault, requestVars,
     workerVars, serverVars, TypeOK, Kind, Claims, Settled, RowOf
<1>4. ASSUME NEW c \in Creation, Created(c) PROVE \A q \in Upload : Claims(q)'
  BY SMTT(30), <1>0, <1>4, Requests DEF Created, InPool, requestVars, workerVars,
     serverVars, TypeOK, Kind, Claims, Settled, RowOf
<1>5. ASSUME NEW u \in Upload, Start(u) PROVE \A q \in Upload : Claims(q)'
  <2>1. ClaimedFirst'
    BY SMTT(30), <1>0, <1>5, Requests DEF Start, Answer, Refused, requestVars, workerVars,
       serverVars, TypeOK, Kind, Claims
  <2>2. ClaimedHeard'
    BY SMTT(30), <1>0, <1>5, Requests DEF Start, Answer, Refused, requestVars, workerVars,
       serverVars, TypeOK, Kind, Claims
  <2>3. ClaimedRow'
    BY SMTT(30), <1>0, <1>5, Requests DEF Start, Answer, Refused, requestVars, workerVars,
       serverVars, TypeOK, Kind, Claims, Settled, RowOf
  <2>4. SettledLast'
    BY SMTT(30), <1>0, <1>5, Requests DEF Start, Answer, Refused, requestVars, workerVars,
       serverVars, TypeOK, Kind, Claims, Settled, RowOf
  <2>5. SettledBefore'
    BY SMTT(30), <1>0, <1>5, Requests DEF Start, Answer, Refused, requestVars, workerVars,
       serverVars, TypeOK, Kind, Claims, Settled, RowOf, Puts, Waiting, Receiving, Deciding,
       Box
  <2> QED
    BY <2>1, <2>2, <2>3, <2>4, <2>5 DEF Claims
<1>6. ASSUME NEW u \in Upload, StartTimesOut(u) PROVE \A q \in Upload : Claims(q)'
  BY SMTT(30), <1>0, <1>6, Requests DEF StartTimesOut, Answer, requestVars, workerVars,
     serverVars, TypeOK, Kind, Claims, Settled, RowOf
<1>7. ASSUME NEW u \in Upload, Chunk(u) PROVE \A q \in Upload : Claims(q)'
  BY SMTT(30), <1>0, <1>7, Requests DEF Chunk, Command, requestVars, workerVars, serverVars,
     TypeOK, Kind, Claims, Settled, RowOf
<1>8. ASSUME NEW u \in Upload, EndOfBody(u) PROVE \A q \in Upload : Claims(q)'
  BY SMTT(30), <1>0, <1>8, Requests DEF EndOfBody, Command, requestVars, workerVars,
     serverVars, TypeOK, Kind, Claims, Settled, RowOf
<1>9. ASSUME NEW u \in Upload, StreamFails(u) PROVE \A q \in Upload : Claims(q)'
  BY SMTT(30), <1>0, <1>9, Requests DEF StreamFails, Command, Answer, Dropped, requestVars,
     workerVars, serverVars, TypeOK, Kind, Claims, Settled, RowOf
<1>10. ASSUME NEW u \in Upload, Accepted(u) PROVE \A q \in Upload : Claims(q)'
  BY SMTT(30), <1>0, <1>10, Requests DEF Accepted, requestVars, workerVars, serverVars,
     TypeOK, Kind, Claims, Settled, RowOf
<1>11. ASSUME NEW u \in Upload, NotAccepted(u) PROVE \A q \in Upload : Claims(q)'
  BY SMTT(30), <1>0, <1>11, Requests DEF NotAccepted, Answer, Dropped, requestVars,
     workerVars, serverVars, TypeOK, Kind, Claims, Settled, RowOf
<1>12. ASSUME NEW u \in Upload, Begun(u) PROVE \A q \in Upload : Claims(q)'
  BY SMTT(30), <1>0, <1>12, Requests DEF Begun, Succeeds, Undecided, Answer, Onward, InPool,
     requestVars, workerVars, serverVars, TypeOK, Kind, Claims, Settled, RowOf
<1>13. ASSUME NEW u \in Upload, Marked(u) PROVE \A q \in Upload : Claims(q)'
  BY SMTT(30), <1>0, <1>13, Requests DEF Marked, Succeeds, Undecided, Answer, Onward,
     InPool, requestVars, workerVars, serverVars, TypeOK, Kind, Claims, Settled, RowOf
<1>14. ASSUME NEW u \in Upload, Aborted(u) PROVE \A q \in Upload : Claims(q)'
  BY SMTT(30), <1>0, <1>14, Requests DEF Aborted, Succeeds, Undecided, Unclassified, Answer,
     Onward, InPool, requestVars, workerVars, serverVars, TypeOK, Kind, Claims, Settled,
     RowOf
<1>15. ASSUME NEW u \in Upload, AnswerSent(u) PROVE \A q \in Upload : Claims(q)'
  BY SMTT(30), <1>0, <1>15, Requests DEF AnswerSent, AfterTransport, Acknowledging,
     requestVars, workerVars, serverVars, TypeOK, Kind, Claims, Settled, RowOf
<1>16. ASSUME NEW u \in Upload, Disconnect(u) PROVE \A q \in Upload : Claims(q)'
  BY SMTT(30), <1>0, <1>16, Requests DEF Disconnect, AfterTransport, Acknowledging, Dropped,
     Fault, InPool, Operations, requestVars, workerVars, serverVars, TypeOK, Kind, Claims,
     Settled, RowOf
<1>17. ASSUME NEW u \in Upload, Acknowledged(u) PROVE \A q \in Upload : Claims(q)'
  BY SMTT(30), <1>0, <1>17, Requests DEF Acknowledged, Succeeds, Onward, InPool,
     requestVars, workerVars, serverVars, TypeOK, Kind, Claims, Settled, RowOf
<1>18. ASSUME NEW u \in Upload, AcknowledgeAgain(u) PROVE \A q \in Upload : Claims(q)'
  BY SMTT(30), <1>0, <1>18, Requests DEF AcknowledgeAgain, Undecided, Queue, InPool,
     requestVars, workerVars, serverVars, TypeOK, Kind, Claims, Settled, RowOf
<1>19. ASSUME NEW u \in Upload, Take(u) PROVE \A q \in Upload : Claims(q)'
  BY SMTT(30), <1>0, <1>19, Requests DEF Take, requestVars, workerVars, serverVars, TypeOK,
     Kind, Claims, Settled, RowOf
<1>20. ASSUME NEW u \in Upload, Claim(u) PROVE \A q \in Upload : Claims(q)'
  BY SMTT(30), <1>0, <1>20, Requests, RowsReceived DEF Claim, Set, requestVars, workerVars,
     serverVars, TypeOK, Kind, Claims, Settled, RowOf
<1>21. ASSUME NEW u \in Upload, Progress(u) PROVE \A q \in Upload : Claims(q)'
  BY SMTT(30), <1>0, <1>21, Requests, RowsEnded DEF Progress, Reply, GoesOn, Delivered,
     Leaves, CleanedUp, Set, MayExpire, Fault, requestVars, workerVars, serverVars, TypeOK,
     Kind, Claims, Settled, RowOf
<1>22. ASSUME NEW u \in Upload, GivesUp(u) PROVE \A q \in Upload : Claims(q)'
  BY SMTT(30), <1>0, <1>22, Requests, RowsEnded DEF GivesUp, Reply, Delivered, Leaves,
     CleanedUp, Set, MayExpire, Fault, requestVars, workerVars, serverVars, TypeOK, Kind,
     Claims, Settled, RowOf
<1>23. ASSUME NEW u \in Upload, Settle(u) PROVE \A q \in Upload : Claims(q)'
  <2>1. ClaimedFirst'
    BY SMTT(30), <1>0, <1>23, Requests, RowsSettled DEF Settle, Set, requestVars,
       workerVars, serverVars, TypeOK, Kind, Claims
  <2>2. ClaimedHeard'
    BY SMTT(30), <1>0, <1>23, Requests, RowsSettled DEF Settle, Set, requestVars,
       workerVars, serverVars, TypeOK, Kind, Claims
  <2>3. ClaimedRow'
    BY SMTT(30), <1>0, <1>23, Requests, RowsSettled DEF Settle, Set, requestVars,
       workerVars, serverVars, TypeOK, Kind, Claims, Settled, RowOf
  <2>4. SettledLast'
    BY SMTT(30), <1>0, <1>23, Requests, RowsSettled DEF Settle, Set, requestVars,
       workerVars, serverVars, TypeOK, Kind, Claims, Settled, RowOf, Rows, OneReceiver,
       Alive
  <2>5. SettledBefore'
    BY SMTT(30), <1>0, <1>23, Requests, RowsSettled DEF Settle, Set, requestVars,
       workerVars, serverVars, TypeOK, Kind, Claims, Settled, RowOf
  <2> QED
    BY <2>1, <2>2, <2>3, <2>4, <2>5 DEF Claims
<1>24. ASSUME NEW u \in Upload, HandOver(u) PROVE \A q \in Upload : Claims(q)'
  BY SMTT(30), <1>0, <1>24, Requests DEF HandOver, Reply, Delivered, Leaves, requestVars,
     workerVars, serverVars, TypeOK, Kind, Claims, Settled, RowOf
<1>25. ASSUME NEW u \in Upload, TakeBack(u) PROVE \A q \in Upload : Claims(q)'
  BY SMTT(30), <1>0, <1>25, Requests, RowsEnded DEF TakeBack, Reply, Delivered, Leaves, Set,
     Fault, requestVars, workerVars, serverVars, TypeOK, Kind, Claims, Settled, RowOf
<1>26. ASSUME NEW u \in Upload, HeartbeatFails(u) PROVE \A q \in Upload : Claims(q)'
  BY SMTT(30), <1>0, <1>26, Requests DEF HeartbeatFails, Fault, requestVars, workerVars,
     serverVars, TypeOK, Kind, Claims, Settled, RowOf
<1>27. ASSUME NEW u \in Upload, Panic(u) PROVE \A q \in Upload : Claims(q)'
  BY SMTT(30), <1>0, <1>27, Requests DEF Panic, Fault, requestVars, workerVars, serverVars,
     TypeOK, Kind, Claims, Settled, RowOf
<1>28. ASSUME NEW u \in Upload, Recover(u) PROVE \A q \in Upload : Claims(q)'
  BY SMTT(30), <1>0, <1>28, Requests, RowsEnded DEF Recover, Leaves, CleanedUp, Set,
     MayExpire, Fault, requestVars, workerVars, serverVars, TypeOK, Kind, Claims, Settled,
     RowOf
<1>29. ASSUME NEW u \in Upload, Deliver(u, "begin") PROVE \A q \in Upload : Claims(q)'
  <2>1. ClaimedFirst'
    BY SMTT(30), <1>0, <1>29, Requests, Effects, RowsDelivered DEF Deliver, Set, Ended,
       RowOf, requestVars, workerVars, serverVars, TypeOK, Kind, Claims
  <2>2. ClaimedHeard'
    BY SMTT(30), <1>0, <1>29, Requests, Effects, RowsDelivered DEF Deliver, Set, Ended,
       RowOf, requestVars, workerVars, serverVars, TypeOK, Kind, Claims
  <2>3. ClaimedRow'
    BY SMTT(30), <1>0, <1>29, Requests, Effects, RowsDelivered DEF Deliver, Set, Ended,
       RowOf, requestVars, workerVars, serverVars, TypeOK, Kind, Claims
  <2>4. SettledLast'
    BY SMTT(30), <1>0, <1>29, Requests, Effects, RowsDelivered DEF Deliver, Set, Ended,
       RowOf, requestVars, workerVars, serverVars, TypeOK, Kind, Claims, Settled
  <2>5. SettledBefore'
    BY SMTT(30), <1>0, <1>29, Requests, Effects, RowsDelivered DEF Deliver, Set, Ended,
       RowOf, requestVars, workerVars, serverVars, TypeOK, Kind, Claims, Settled
  <2> QED
    BY <2>1, <2>2, <2>3, <2>4, <2>5 DEF Claims
<1>30. ASSUME NEW u \in Upload, Deliver(u, "mark") PROVE \A q \in Upload : Claims(q)'
  BY SMTT(30), <1>0, <1>30, Requests, Effects, RowsDelivered DEF Deliver, Set, Ended, RowOf,
     requestVars, workerVars, serverVars, TypeOK, Kind, Claims, Settled
<1>31. ASSUME NEW u \in Upload, Deliver(u, "abort") PROVE \A q \in Upload : Claims(q)'
  BY SMTT(30), <1>0, <1>31, Requests, Effects, RowsEnded DEF Deliver, Set, Ended, RowOf,
     requestVars, workerVars, serverVars, TypeOK, Kind, Claims, Settled
<1>32. ASSUME NEW u \in Upload, Deliver(u, "acknowledge") PROVE \A q \in Upload : Claims(q)'
  BY SMTT(30), <1>0, <1>32, Requests, Effects, RowsDelivered DEF Deliver, Set, Ended, RowOf,
     requestVars, workerVars, serverVars, TypeOK, Kind, Claims, Settled
<1>33. ASSUME NEW o \in Operation, Begin(o) PROVE \A q \in Upload : Claims(q)'
  BY SMTT(30), <1>0, <1>33, Requests DEF Begin, requestVars, workerVars, serverVars, TypeOK,
     Kind, Claims, Settled, RowOf
<1>34. ASSUME NEW o \in Operation, Fails(o) PROVE \A q \in Upload : Claims(q)'
  BY SMTT(30), <1>0, <1>34, Requests DEF Fails, Ended, Fault, requestVars, workerVars,
     serverVars, TypeOK, Kind, Claims, Settled, RowOf
<1>35. ASSUME NEW s \in Session, LeaseLapses(s) PROVE \A q \in Upload : Claims(q)'
  BY SMTT(30), <1>0, <1>35, Requests, RowsLapsed DEF LeaseLapses, Set, Fault, requestVars,
     workerVars, serverVars, TypeOK, Kind, Claims, Settled, RowOf
<1>36. ASSUME Tick PROVE \A q \in Upload : Claims(q)'
  BY SMTT(30), <1>0, <1>36, Requests, Named DEF Tick, Queue, requestVars, workerVars,
     serverVars, TypeOK, Kind, Claims, Settled, RowOf, Reconciliation
<1>37. ASSUME Reconcile PROVE \A q \in Upload : Claims(q)'
  BY SMTT(30), <1>0, <1>37, Requests, RowsEnded, Named DEF Reconcile, Recoverable,
     Abandoned, Ended, requestVars, workerVars, serverVars, TypeOK, Kind, Claims, Settled,
     RowOf, Reconciliation
<1>38. ASSUME Reconciled PROVE \A q \in Upload : Claims(q)'
  BY SMTT(30), <1>0, <1>38, Requests DEF Reconciled, InPool, requestVars, workerVars,
     serverVars, TypeOK, Kind, Claims, Settled, RowOf
<1>39. ASSUME Shutdown PROVE \A q \in Upload : Claims(q)'
  BY SMTT(30), <1>0, <1>39, Requests DEF Shutdown, requestVars, workerVars, serverVars,
     TypeOK, Kind, Claims, Settled, RowOf
<1>40. ASSUME AbortConnections PROVE \A q \in Upload : Claims(q)'
  BY SMTT(30), <1>0, <1>40, Requests DEF AbortConnections, Open, Forsake, InPool,
     requestVars, workerVars, serverVars, TypeOK, Kind, Claims, Settled, RowOf
<1>41. ASSUME Stop PROVE \A q \in Upload : Claims(q)'
  BY SMTT(30), <1>0, <1>41, Requests DEF Stop, Open, Idle, requestVars, workerVars,
     serverVars, TypeOK, Kind, Claims, Settled, RowOf
<1>42. ASSUME UNCHANGED vars PROVE \A q \in Upload : Claims(q)'
  BY SMTT(30), <1>0, <1>42, Requests DEF vars, requestVars, workerVars, serverVars, TypeOK,
     Kind, Claims, Settled, RowOf
<1> QED
  BY <1>1, <1>2, <1>3, <1>4, <1>5, <1>6, <1>7, <1>8, <1>9, <1>10, <1>11, <1>12, <1>13,
     <1>14, <1>15, <1>16, <1>17, <1>18, <1>19, <1>20, <1>21, <1>22, <1>23, <1>24, <1>25,
     <1>26, <1>27, <1>28, <1>29, <1>30, <1>31, <1>32, <1>33, <1>34, <1>35, <1>36, <1>37,
     <1>38, <1>39, <1>40, <1>41, <1>42 DEF Next, HandlerStep, WorkerStep, PoolStep,
     ServerStep, Kind

\* A session is never received twice (active_uploads).
LEMMA OneReceiverStep == Inv /\ [Next]_vars => OneReceiver'
<1> SUFFICES ASSUME Inv, [Next]_vars PROVE OneReceiver'
  OBVIOUS
<1>0. /\ TypeOK /\ TypeOK' /\ OneReceiver /\ \A s \in Session : Rows(s) /\ Posts(s)
      /\ \A u \in Upload : Puts(u) /\ Claims(u) /\ Deliveries(u)
  BY TypeStep DEF Inv
<1>1. ASSUME NEW c \in Creation, Create(c) PROVE OneReceiver'
  BY SMTT(30), <1>0, <1>1, Requests DEF Create, Queue, requestVars, workerVars, serverVars,
     TypeOK, OneReceiver, Alive
<1>2. ASSUME NEW c \in Creation, Reserve(c) PROVE OneReceiver'
  BY SMTT(30), <1>0, <1>2, Requests, NewRows DEF Reserve, Set, Absent, requestVars,
     workerVars, serverVars, TypeOK, OneReceiver, Alive
<1>3. ASSUME NEW c \in Creation, Compensate(c) PROVE OneReceiver'
  BY SMTT(30), <1>0, <1>3, Requests, RowsEnded DEF Compensate, Set, Fault, requestVars,
     workerVars, serverVars, TypeOK, OneReceiver, Alive
<1>4. ASSUME NEW c \in Creation, Created(c) PROVE OneReceiver'
  BY SMTT(30), <1>0, <1>4, Requests DEF Created, InPool, requestVars, workerVars,
     serverVars, TypeOK, OneReceiver, Alive
<1>5. ASSUME NEW u \in Upload, Start(u) PROVE OneReceiver'
  BY SMTT(30), <1>0, <1>5, Requests DEF Start, Answer, Refused, requestVars, workerVars,
     serverVars, TypeOK, OneReceiver, Alive, Rows
<1>6. ASSUME NEW u \in Upload, StartTimesOut(u) PROVE OneReceiver'
  BY SMTT(30), <1>0, <1>6, Requests DEF StartTimesOut, Answer, requestVars, workerVars,
     serverVars, TypeOK, OneReceiver, Alive
<1>7. ASSUME NEW u \in Upload, Chunk(u) PROVE OneReceiver'
  BY SMTT(30), <1>0, <1>7, Requests DEF Chunk, Command, requestVars, workerVars, serverVars,
     TypeOK, OneReceiver, Alive
<1>8. ASSUME NEW u \in Upload, EndOfBody(u) PROVE OneReceiver'
  BY SMTT(30), <1>0, <1>8, Requests DEF EndOfBody, Command, requestVars, workerVars,
     serverVars, TypeOK, OneReceiver, Alive
<1>9. ASSUME NEW u \in Upload, StreamFails(u) PROVE OneReceiver'
  BY SMTT(30), <1>0, <1>9, Requests DEF StreamFails, Command, Answer, Dropped, requestVars,
     workerVars, serverVars, TypeOK, OneReceiver, Alive
<1>10. ASSUME NEW u \in Upload, Accepted(u) PROVE OneReceiver'
  BY SMTT(30), <1>0, <1>10, Requests DEF Accepted, requestVars, workerVars, serverVars,
     TypeOK, OneReceiver, Alive
<1>11. ASSUME NEW u \in Upload, NotAccepted(u) PROVE OneReceiver'
  BY SMTT(30), <1>0, <1>11, Requests DEF NotAccepted, Answer, Dropped, requestVars,
     workerVars, serverVars, TypeOK, OneReceiver, Alive
<1>12. ASSUME NEW u \in Upload, Begun(u) PROVE OneReceiver'
  BY SMTT(30), <1>0, <1>12, Requests DEF Begun, Succeeds, Undecided, Answer, Onward, InPool,
     requestVars, workerVars, serverVars, TypeOK, OneReceiver, Alive
<1>13. ASSUME NEW u \in Upload, Marked(u) PROVE OneReceiver'
  BY SMTT(30), <1>0, <1>13, Requests DEF Marked, Succeeds, Undecided, Answer, Onward,
     InPool, requestVars, workerVars, serverVars, TypeOK, OneReceiver, Alive
<1>14. ASSUME NEW u \in Upload, Aborted(u) PROVE OneReceiver'
  BY SMTT(30), <1>0, <1>14, Requests DEF Aborted, Succeeds, Undecided, Unclassified, Answer,
     Onward, InPool, requestVars, workerVars, serverVars, TypeOK, OneReceiver, Alive
<1>15. ASSUME NEW u \in Upload, AnswerSent(u) PROVE OneReceiver'
  BY SMTT(30), <1>0, <1>15, Requests DEF AnswerSent, AfterTransport, Acknowledging,
     requestVars, workerVars, serverVars, TypeOK, OneReceiver, Alive
<1>16. ASSUME NEW u \in Upload, Disconnect(u) PROVE OneReceiver'
  BY SMTT(30), <1>0, <1>16, Requests DEF Disconnect, AfterTransport, Acknowledging, Dropped,
     Fault, InPool, Operations, requestVars, workerVars, serverVars, TypeOK, OneReceiver,
     Alive
<1>17. ASSUME NEW u \in Upload, Acknowledged(u) PROVE OneReceiver'
  BY SMTT(30), <1>0, <1>17, Requests DEF Acknowledged, Succeeds, Onward, InPool,
     requestVars, workerVars, serverVars, TypeOK, OneReceiver, Alive
<1>18. ASSUME NEW u \in Upload, AcknowledgeAgain(u) PROVE OneReceiver'
  BY SMTT(30), <1>0, <1>18, Requests DEF AcknowledgeAgain, Undecided, Queue, InPool,
     requestVars, workerVars, serverVars, TypeOK, OneReceiver, Alive
<1>19. ASSUME NEW u \in Upload, Take(u) PROVE OneReceiver'
  BY SMTT(30), <1>0, <1>19, Requests DEF Take, requestVars, workerVars, serverVars, TypeOK,
     OneReceiver, Alive
<1>20. ASSUME NEW u \in Upload, Claim(u) PROVE OneReceiver'
  BY SMTT(30), <1>0, <1>20, Requests, RowsReceived DEF Claim, Set, requestVars, workerVars,
     serverVars, TypeOK, OneReceiver, Alive, Claims, RowOf
<1>21. ASSUME NEW u \in Upload, Progress(u) PROVE OneReceiver'
  BY SMTT(30), <1>0, <1>21, Requests, RowsEnded DEF Progress, Reply, GoesOn, Delivered,
     Leaves, CleanedUp, Set, MayExpire, Fault, requestVars, workerVars, serverVars, TypeOK,
     OneReceiver, Alive
<1>22. ASSUME NEW u \in Upload, GivesUp(u) PROVE OneReceiver'
  BY SMTT(30), <1>0, <1>22, Requests, RowsEnded DEF GivesUp, Reply, Delivered, Leaves,
     CleanedUp, Set, MayExpire, Fault, requestVars, workerVars, serverVars, TypeOK,
     OneReceiver, Alive
<1>23. ASSUME NEW u \in Upload, Settle(u) PROVE OneReceiver'
  BY SMTT(30), <1>0, <1>23, Requests, RowsSettled DEF Settle, Set, requestVars, workerVars,
     serverVars, TypeOK, OneReceiver, Alive
<1>24. ASSUME NEW u \in Upload, HandOver(u) PROVE OneReceiver'
  BY SMTT(30), <1>0, <1>24, Requests DEF HandOver, Reply, Delivered, Leaves, requestVars,
     workerVars, serverVars, TypeOK, OneReceiver, Alive
<1>25. ASSUME NEW u \in Upload, TakeBack(u) PROVE OneReceiver'
  BY SMTT(30), <1>0, <1>25, Requests, RowsEnded DEF TakeBack, Reply, Delivered, Leaves, Set,
     Fault, requestVars, workerVars, serverVars, TypeOK, OneReceiver, Alive
<1>26. ASSUME NEW u \in Upload, HeartbeatFails(u) PROVE OneReceiver'
  BY SMTT(30), <1>0, <1>26, Requests DEF HeartbeatFails, Fault, requestVars, workerVars,
     serverVars, TypeOK, OneReceiver, Alive
<1>27. ASSUME NEW u \in Upload, Panic(u) PROVE OneReceiver'
  BY SMTT(30), <1>0, <1>27, Requests DEF Panic, Fault, requestVars, workerVars, serverVars,
     TypeOK, OneReceiver, Alive
<1>28. ASSUME NEW u \in Upload, Recover(u) PROVE OneReceiver'
  BY SMTT(30), <1>0, <1>28, Requests, RowsEnded DEF Recover, Leaves, CleanedUp, Set,
     MayExpire, Fault, requestVars, workerVars, serverVars, TypeOK, OneReceiver, Alive
<1>29. ASSUME NEW u \in Upload, Deliver(u, "begin") PROVE OneReceiver'
  BY SMTT(30), <1>0, <1>29, Requests, Effects, RowsDelivered DEF Deliver, Set, Ended, RowOf,
     requestVars, workerVars, serverVars, TypeOK, OneReceiver, Alive
<1>30. ASSUME NEW u \in Upload, Deliver(u, "mark") PROVE OneReceiver'
  BY SMTT(30), <1>0, <1>30, Requests, Effects, RowsDelivered DEF Deliver, Set, Ended, RowOf,
     requestVars, workerVars, serverVars, TypeOK, OneReceiver, Alive
<1>31. ASSUME NEW u \in Upload, Deliver(u, "abort") PROVE OneReceiver'
  BY SMTT(30), <1>0, <1>31, Requests, Effects, RowsEnded DEF Deliver, Set, Ended, RowOf,
     requestVars, workerVars, serverVars, TypeOK, OneReceiver, Alive
<1>32. ASSUME NEW u \in Upload, Deliver(u, "acknowledge") PROVE OneReceiver'
  BY SMTT(30), <1>0, <1>32, Requests, Effects, RowsDelivered DEF Deliver, Set, Ended, RowOf,
     requestVars, workerVars, serverVars, TypeOK, OneReceiver, Alive
<1>33. ASSUME NEW o \in Operation, Begin(o) PROVE OneReceiver'
  BY SMTT(30), <1>0, <1>33, Requests DEF Begin, requestVars, workerVars, serverVars, TypeOK,
     OneReceiver, Alive
<1>34. ASSUME NEW o \in Operation, Fails(o) PROVE OneReceiver'
  BY SMTT(30), <1>0, <1>34, Requests DEF Fails, Ended, Fault, requestVars, workerVars,
     serverVars, TypeOK, OneReceiver, Alive
<1>35. ASSUME NEW s \in Session, LeaseLapses(s) PROVE OneReceiver'
  BY SMTT(30), <1>0, <1>35, Requests, RowsLapsed DEF LeaseLapses, Set, Fault, requestVars,
     workerVars, serverVars, TypeOK, OneReceiver, Alive
<1>36. ASSUME Tick PROVE OneReceiver'
  BY SMTT(30), <1>0, <1>36, Requests, Named DEF Tick, Queue, requestVars, workerVars,
     serverVars, TypeOK, OneReceiver, Alive, Reconciliation
<1>37. ASSUME Reconcile PROVE OneReceiver'
  BY SMTT(30), <1>0, <1>37, Requests, RowsEnded, Named DEF Reconcile, Recoverable,
     Abandoned, Ended, requestVars, workerVars, serverVars, TypeOK, OneReceiver, Alive,
     Reconciliation
<1>38. ASSUME Reconciled PROVE OneReceiver'
  BY SMTT(30), <1>0, <1>38, Requests DEF Reconciled, InPool, requestVars, workerVars,
     serverVars, TypeOK, OneReceiver, Alive
<1>39. ASSUME Shutdown PROVE OneReceiver'
  BY SMTT(30), <1>0, <1>39, Requests DEF Shutdown, requestVars, workerVars, serverVars,
     TypeOK, OneReceiver, Alive
<1>40. ASSUME AbortConnections PROVE OneReceiver'
  BY SMTT(30), <1>0, <1>40, Requests DEF AbortConnections, Open, Forsake, InPool,
     requestVars, workerVars, serverVars, TypeOK, OneReceiver, Alive
<1>41. ASSUME Stop PROVE OneReceiver'
  BY SMTT(30), <1>0, <1>41, Requests DEF Stop, Open, Idle, requestVars, workerVars,
     serverVars, TypeOK, OneReceiver, Alive
<1>42. ASSUME UNCHANGED vars PROVE OneReceiver'
  BY SMTT(30), <1>0, <1>42, Requests DEF vars, requestVars, workerVars, serverVars, TypeOK,
     OneReceiver, Alive
<1> QED
  BY <1>1, <1>2, <1>3, <1>4, <1>5, <1>6, <1>7, <1>8, <1>9, <1>10, <1>11, <1>12, <1>13,
     <1>14, <1>15, <1>16, <1>17, <1>18, <1>19, <1>20, <1>21, <1>22, <1>23, <1>24, <1>25,
     <1>26, <1>27, <1>28, <1>29, <1>30, <1>31, <1>32, <1>33, <1>34, <1>35, <1>36, <1>37,
     <1>38, <1>39, <1>40, <1>41, <1>42 DEF Next, HandlerStep, WorkerStep, PoolStep,
     ServerStep, Kind

\* Only an abort follows a command that is being carried out.
LEMMA ChannelsStep == Inv /\ [Next]_vars => \A q \in Upload : Channels(q)'
<1> SUFFICES ASSUME Inv, [Next]_vars PROVE \A q \in Upload : Channels(q)'
  OBVIOUS
<1>0. TypeOK /\ TypeOK' /\ \A u \in Upload : Puts(u) /\ Claims(u) /\ Channels(u)
  BY TypeStep DEF Inv
<1>1. ASSUME NEW c \in Creation, Create(c) PROVE \A q \in Upload : Channels(q)'
  BY SMTT(30), <1>0, <1>1, Requests DEF Create, Queue, requestVars, workerVars, serverVars,
     TypeOK, Kind, Channels, Box
<1>2. ASSUME NEW c \in Creation, Reserve(c) PROVE \A q \in Upload : Channels(q)'
  BY SMTT(30), <1>0, <1>2, Requests, NewRows DEF Reserve, Set, Absent, requestVars,
     workerVars, serverVars, TypeOK, Kind, Channels, Box
<1>3. ASSUME NEW c \in Creation, Compensate(c) PROVE \A q \in Upload : Channels(q)'
  BY SMTT(30), <1>0, <1>3, Requests, RowsEnded DEF Compensate, Set, Fault, requestVars,
     workerVars, serverVars, TypeOK, Kind, Channels, Box
<1>4. ASSUME NEW c \in Creation, Created(c) PROVE \A q \in Upload : Channels(q)'
  BY SMTT(30), <1>0, <1>4, Requests DEF Created, InPool, requestVars, workerVars,
     serverVars, TypeOK, Kind, Channels, Box
<1>5. ASSUME NEW u \in Upload, Start(u) PROVE \A q \in Upload : Channels(q)'
  BY SMTT(30), <1>0, <1>5, Requests DEF Start, Answer, Refused, requestVars, workerVars,
     serverVars, TypeOK, Kind, Channels, Box
<1>6. ASSUME NEW u \in Upload, StartTimesOut(u) PROVE \A q \in Upload : Channels(q)'
  BY SMTT(30), <1>0, <1>6, Requests DEF StartTimesOut, Answer, requestVars, workerVars,
     serverVars, TypeOK, Kind, Channels, Box
<1>7. ASSUME NEW u \in Upload, Chunk(u) PROVE \A q \in Upload : Channels(q)'
  BY SMTT(30), <1>0, <1>7, Requests DEF Chunk, Command, requestVars, workerVars, serverVars,
     TypeOK, Kind, Channels, Box, Puts, Waiting, Receiving, Deciding
<1>8. ASSUME NEW u \in Upload, EndOfBody(u) PROVE \A q \in Upload : Channels(q)'
  BY SMTT(30), <1>0, <1>8, Requests DEF EndOfBody, Command, requestVars, workerVars,
     serverVars, TypeOK, Kind, Channels, Box, Puts, Waiting, Receiving, Deciding
<1>9. ASSUME NEW u \in Upload, StreamFails(u) PROVE \A q \in Upload : Channels(q)'
  BY SMTT(30), <1>0, <1>9, Requests DEF StreamFails, Command, Answer, Dropped, requestVars,
     workerVars, serverVars, TypeOK, Kind, Channels, Box
<1>10. ASSUME NEW u \in Upload, Accepted(u) PROVE \A q \in Upload : Channels(q)'
  BY SMTT(30), <1>0, <1>10, Requests DEF Accepted, requestVars, workerVars, serverVars,
     TypeOK, Kind, Channels, Box
<1>11. ASSUME NEW u \in Upload, NotAccepted(u) PROVE \A q \in Upload : Channels(q)'
  BY SMTT(30), <1>0, <1>11, Requests DEF NotAccepted, Answer, Dropped, requestVars,
     workerVars, serverVars, TypeOK, Kind, Channels, Box
<1>12. ASSUME NEW u \in Upload, Begun(u) PROVE \A q \in Upload : Channels(q)'
  BY SMTT(30), <1>0, <1>12, Requests DEF Begun, Succeeds, Undecided, Answer, Onward, InPool,
     requestVars, workerVars, serverVars, TypeOK, Kind, Channels, Box
<1>13. ASSUME NEW u \in Upload, Marked(u) PROVE \A q \in Upload : Channels(q)'
  BY SMTT(30), <1>0, <1>13, Requests DEF Marked, Succeeds, Undecided, Answer, Onward,
     InPool, requestVars, workerVars, serverVars, TypeOK, Kind, Channels, Box
<1>14. ASSUME NEW u \in Upload, Aborted(u) PROVE \A q \in Upload : Channels(q)'
  BY SMTT(30), <1>0, <1>14, Requests DEF Aborted, Succeeds, Undecided, Unclassified, Answer,
     Onward, InPool, requestVars, workerVars, serverVars, TypeOK, Kind, Channels, Box
<1>15. ASSUME NEW u \in Upload, AnswerSent(u) PROVE \A q \in Upload : Channels(q)'
  BY SMTT(30), <1>0, <1>15, Requests DEF AnswerSent, AfterTransport, Acknowledging,
     requestVars, workerVars, serverVars, TypeOK, Kind, Channels, Box
<1>16. ASSUME NEW u \in Upload, Disconnect(u) PROVE \A q \in Upload : Channels(q)'
  BY SMTT(30), <1>0, <1>16, Requests DEF Disconnect, AfterTransport, Acknowledging, Dropped,
     Fault, InPool, Operations, requestVars, workerVars, serverVars, TypeOK, Kind, Channels,
     Box
<1>17. ASSUME NEW u \in Upload, Acknowledged(u) PROVE \A q \in Upload : Channels(q)'
  BY SMTT(30), <1>0, <1>17, Requests DEF Acknowledged, Succeeds, Onward, InPool,
     requestVars, workerVars, serverVars, TypeOK, Kind, Channels, Box
<1>18. ASSUME NEW u \in Upload, AcknowledgeAgain(u) PROVE \A q \in Upload : Channels(q)'
  BY SMTT(30), <1>0, <1>18, Requests DEF AcknowledgeAgain, Undecided, Queue, InPool,
     requestVars, workerVars, serverVars, TypeOK, Kind, Channels, Box
<1>19. ASSUME NEW u \in Upload, Take(u) PROVE \A q \in Upload : Channels(q)'
  BY SMTT(30), <1>0, <1>19, Requests DEF Take, requestVars, workerVars, serverVars, TypeOK,
     Kind, Channels, Box
<1>20. ASSUME NEW u \in Upload, Claim(u) PROVE \A q \in Upload : Channels(q)'
  BY SMTT(30), <1>0, <1>20, Requests, RowsReceived DEF Claim, Set, requestVars, workerVars,
     serverVars, TypeOK, Kind, Channels, Box
<1>21. ASSUME NEW u \in Upload, Progress(u) PROVE \A q \in Upload : Channels(q)'
  BY SMTT(30), <1>0, <1>21, Requests, RowsEnded DEF Progress, Reply, GoesOn, Delivered,
     Leaves, CleanedUp, Set, MayExpire, Fault, requestVars, workerVars, serverVars, TypeOK,
     Kind, Channels, Box
<1>22. ASSUME NEW u \in Upload, GivesUp(u) PROVE \A q \in Upload : Channels(q)'
  BY SMTT(30), <1>0, <1>22, Requests, RowsEnded DEF GivesUp, Reply, Delivered, Leaves,
     CleanedUp, Set, MayExpire, Fault, requestVars, workerVars, serverVars, TypeOK, Kind,
     Channels, Box
<1>23. ASSUME NEW u \in Upload, Settle(u) PROVE \A q \in Upload : Channels(q)'
  BY SMTT(30), <1>0, <1>23, Requests, RowsSettled DEF Settle, Set, requestVars, workerVars,
     serverVars, TypeOK, Kind, Channels, Box
<1>24. ASSUME NEW u \in Upload, HandOver(u) PROVE \A q \in Upload : Channels(q)'
  BY SMTT(30), <1>0, <1>24, Requests DEF HandOver, Reply, Delivered, Leaves, requestVars,
     workerVars, serverVars, TypeOK, Kind, Channels, Box
<1>25. ASSUME NEW u \in Upload, TakeBack(u) PROVE \A q \in Upload : Channels(q)'
  BY SMTT(30), <1>0, <1>25, Requests, RowsEnded DEF TakeBack, Reply, Delivered, Leaves, Set,
     Fault, requestVars, workerVars, serverVars, TypeOK, Kind, Channels, Box
<1>26. ASSUME NEW u \in Upload, HeartbeatFails(u) PROVE \A q \in Upload : Channels(q)'
  BY SMTT(30), <1>0, <1>26, Requests DEF HeartbeatFails, Fault, requestVars, workerVars,
     serverVars, TypeOK, Kind, Channels, Box
<1>27. ASSUME NEW u \in Upload, Panic(u) PROVE \A q \in Upload : Channels(q)'
  BY SMTT(30), <1>0, <1>27, Requests DEF Panic, Fault, requestVars, workerVars, serverVars,
     TypeOK, Kind, Channels, Box
<1>28. ASSUME NEW u \in Upload, Recover(u) PROVE \A q \in Upload : Channels(q)'
  BY SMTT(30), <1>0, <1>28, Requests, RowsEnded DEF Recover, Leaves, CleanedUp, Set,
     MayExpire, Fault, requestVars, workerVars, serverVars, TypeOK, Kind, Channels, Box
<1>29. ASSUME NEW u \in Upload, Deliver(u, "begin") PROVE \A q \in Upload : Channels(q)'
  BY SMTT(30), <1>0, <1>29, Requests, Effects, RowsDelivered DEF Deliver, Set, Ended, RowOf,
     requestVars, workerVars, serverVars, TypeOK, Kind, Channels, Box
<1>30. ASSUME NEW u \in Upload, Deliver(u, "mark") PROVE \A q \in Upload : Channels(q)'
  BY SMTT(30), <1>0, <1>30, Requests, Effects, RowsDelivered DEF Deliver, Set, Ended, RowOf,
     requestVars, workerVars, serverVars, TypeOK, Kind, Channels, Box
<1>31. ASSUME NEW u \in Upload, Deliver(u, "abort") PROVE \A q \in Upload : Channels(q)'
  BY SMTT(30), <1>0, <1>31, Requests, Effects, RowsEnded DEF Deliver, Set, Ended, RowOf,
     requestVars, workerVars, serverVars, TypeOK, Kind, Channels, Box
<1>32. ASSUME NEW u \in Upload, Deliver(u, "acknowledge") PROVE \A q \in Upload : Channels(q)'
  BY SMTT(30), <1>0, <1>32, Requests, Effects, RowsDelivered DEF Deliver, Set, Ended, RowOf,
     requestVars, workerVars, serverVars, TypeOK, Kind, Channels, Box
<1>33. ASSUME NEW o \in Operation, Begin(o) PROVE \A q \in Upload : Channels(q)'
  BY SMTT(30), <1>0, <1>33, Requests DEF Begin, requestVars, workerVars, serverVars, TypeOK,
     Kind, Channels, Box
<1>34. ASSUME NEW o \in Operation, Fails(o) PROVE \A q \in Upload : Channels(q)'
  BY SMTT(30), <1>0, <1>34, Requests DEF Fails, Ended, Fault, requestVars, workerVars,
     serverVars, TypeOK, Kind, Channels, Box
<1>35. ASSUME NEW s \in Session, LeaseLapses(s) PROVE \A q \in Upload : Channels(q)'
  BY SMTT(30), <1>0, <1>35, Requests, RowsLapsed DEF LeaseLapses, Set, Fault, requestVars,
     workerVars, serverVars, TypeOK, Kind, Channels, Box
<1>36. ASSUME Tick PROVE \A q \in Upload : Channels(q)'
  BY SMTT(30), <1>0, <1>36, Requests, Named DEF Tick, Queue, requestVars, workerVars,
     serverVars, TypeOK, Kind, Channels, Box, Reconciliation
<1>37. ASSUME Reconcile PROVE \A q \in Upload : Channels(q)'
  BY SMTT(30), <1>0, <1>37, Requests, RowsEnded, Named DEF Reconcile, Recoverable,
     Abandoned, Ended, requestVars, workerVars, serverVars, TypeOK, Kind, Channels, Box,
     Reconciliation
<1>38. ASSUME Reconciled PROVE \A q \in Upload : Channels(q)'
  BY SMTT(30), <1>0, <1>38, Requests DEF Reconciled, InPool, requestVars, workerVars,
     serverVars, TypeOK, Kind, Channels, Box
<1>39. ASSUME Shutdown PROVE \A q \in Upload : Channels(q)'
  BY SMTT(30), <1>0, <1>39, Requests DEF Shutdown, requestVars, workerVars, serverVars,
     TypeOK, Kind, Channels, Box
<1>40. ASSUME AbortConnections PROVE \A q \in Upload : Channels(q)'
  BY SMTT(30), <1>0, <1>40, Requests DEF AbortConnections, Open, Forsake, InPool,
     requestVars, workerVars, serverVars, TypeOK, Kind, Channels, Box
<1>41. ASSUME Stop PROVE \A q \in Upload : Channels(q)'
  BY SMTT(30), <1>0, <1>41, Requests DEF Stop, Open, Idle, requestVars, workerVars,
     serverVars, TypeOK, Kind, Channels, Box
<1>42. ASSUME UNCHANGED vars PROVE \A q \in Upload : Channels(q)'
  BY SMTT(30), <1>0, <1>42, Requests DEF vars, requestVars, workerVars, serverVars, TypeOK,
     Kind, Channels, Box
<1> QED
  BY <1>1, <1>2, <1>3, <1>4, <1>5, <1>6, <1>7, <1>8, <1>9, <1>10, <1>11, <1>12, <1>13,
     <1>14, <1>15, <1>16, <1>17, <1>18, <1>19, <1>20, <1>21, <1>22, <1>23, <1>24, <1>25,
     <1>26, <1>27, <1>28, <1>29, <1>30, <1>31, <1>32, <1>33, <1>34, <1>35, <1>36, <1>37,
     <1>38, <1>39, <1>40, <1>41, <1>42 DEF Next, HandlerStep, WorkerStep, PoolStep,
     ServerStep, Kind

\* A step that leaves q's delivery alone.
Frame(q) ==
  /\ handler'[q] = handler[q] /\ answer'[q] = answer[q] /\ worker'[q] = worker[q]
  /\ \A k \in Kind : job'[Op(q, k)] = job[Op(q, k)]
  /\ q \in unacknowledged' <=> q \in unacknowledged
  /\ Settled(q)' <=> Settled(q)
  /\ Settled(q) => RowOf(q)' = RowOf(q)

LEMMA Undisturbed ==
  ASSUME NEW q \in Upload, Deliveries(q), Frame(q)
  PROVE  Deliveries(q)'
BY DEF Frame, Deliveries, Jobs, Kept, Kind, Settled, RowOf

\* What Begin, Fails and AbortConnections do: nothing is done that was not, and nobody
\* starts anew.
LEMMA Interrupted ==
  ASSUME NEW q \in Upload, Deliveries(q), handler'[q] \in {handler[q], "closed"},
         UNCHANGED <<ledger, answer, worker, unacknowledged>>,
         \A k \in Kind :
            \/ job'[Op(q, k)] = job[Op(q, k)]
            \/ job[Op(q, k)] # "none" /\ job'[Op(q, k)] # "done",
         \A k \in Kind : job'[Op(q, k)] = "done" => handler'[q] = handler[q]
  PROVE  Deliveries(q)'
<1>1. /\ Settled(q)' <=> Settled(q)
      /\ RowOf(q)' = RowOf(q)
      /\ Kept(q)' <=> Kept(q)
  BY DEF Settled, RowOf, Kept
<1>2. Jobs(q, "none") => Jobs(q, "none")'
  BY DEF Jobs
<1>3. \A k \in {"mark", "abort", "acknowledge"} :
        /\ job'[Op(q, k)] = "done" => job[Op(q, k)] = "done" /\ handler'[q] = handler[q]
        /\ job[Op(q, k)] = "none" => job'[Op(q, k)] = "none"
  BY DEF Kind
<1> DEFINE mark == job[Op(q, "mark")]
           abort == job[Op(q, "abort")]
           ack == job[Op(q, "acknowledge")]
<1>4. /\ mark' = "done" => mark = "done" /\ handler'[q] = handler[q]
      /\ abort' = "done" => abort = "done" /\ handler'[q] = handler[q]
      /\ ack' = "done" => ack = "done"
      /\ abort = "none" => abort' = "none"
      /\ ack = "none" => ack' = "none"
  BY <1>3
<1> HIDE DEF mark, abort, ack
<1>5. QED
  BY <1>1, <1>2, <1>4, SMTT(30) DEF Deliveries, Waiting, Receiving, mark, abort, ack

\* What the maintenance pass does to a settlement.
LEMMA Repaid ==
  ASSUME NEW q \in Upload, Deliveries(q), Settled(q), RowOf(q) \in Row, Recoverable(Target[q]),
         RowOf(q)' = Refunded(RowOf(q)),
         UNCHANGED <<handler, answer, worker, unacknowledged>>,
         \A k \in Kind : job'[Op(q, k)] = job[Op(q, k)]
  PROVE  Deliveries(q)'
<1>1. /\ RowOf(q)'.state = "expired" /\ RowOf(q)'.intent = "none" /\ Settled(q)'
  BY RowsEnded DEF Settled, RowOf
<1>2. RowOf(q).intent \in {"pending", "attempted"}
  BY DEF Recoverable, RowOf
<1>3. Jobs(q, "none")' <=> Jobs(q, "none")
  BY DEF Jobs
<1>4. ~Kept(q)
  BY <1>2 DEF Kept, RowOf
<1>5. QED
  BY <1>1, <1>2, <1>3, <1>4, SMTT(30) DEF Deliveries, Kind

\* What a handler that goes on leaves of its operations.
LEMMA GoesOnward ==
  ASSUME TypeOK, NEW u \in Upload, NEW kind \in Kind, NEW next
  PROVE  \A k \in Kind :
           Onward(u, kind, next)[Op(u, k)] = IF k = kind /\ ~InPool(Op(u, k)) THEN "none"
                                             ELSE IF k = next THEN "queued"
                                             ELSE job[Op(u, k)]
<1>1. \A k \in Kind : Op(u, k) \in Operation
  BY Named
<1>2. QED
  BY <1>1, Named, SMTT(30) DEF Onward

\* What the parts of Deliveries(u) say of a handler whose upload is settled.
LEMMA Progressed ==
  ASSUME NEW u \in Upload, worker'[u] = "ended", Settled(u), ledger' = ledger,
         handler'[u] \notin Receiving \cup {"idle"},
         answer'[u] = "error" /\ RowOf(u).state = "uploaded"
           => RowOf(u).intent = "pending" /\ Jobs(u, "none")',
         job'[Op(u, "mark")] = "done" => handler'[u] = "marking" /\ Kept(u),
         handler'[u] \in {"beginning", "marking"} => job'[Op(u, "abort")] = "none",
         job'[Op(u, "abort")] = "done" => handler'[u] = "aborting" /\ RowOf(u).state = "expired",
         u \in unacknowledged' => answer'[u] = "success",
         handler'[u] = "acknowledging" => u \in unacknowledged',
         job'[Op(u, "acknowledge")] # "none" => u \in unacknowledged',
         job'[Op(u, "acknowledge")] = "done" => RowOf(u).intent = "none",
         answer'[u] = "success" => Kept(u) /\ job'[Op(u, "abort")] = "none",
         answer'[u] = "success" /\ u \notin unacknowledged' => RowOf(u).intent = "none"
  PROVE  Deliveries(u)'
<1>1. RowOf(u)' = RowOf(u) /\ Settled(u)' /\ (Kept(u)' <=> Kept(u))
  BY DEF RowOf, Settled, Kept
<1>2. handler'[u] \notin Receiving
  OBVIOUS
<1>3. Receiving' = Receiving
  BY DEF Receiving, Waiting
<1>4. QED
  BY <1>1, <1>2, <1>3, SMTT(30) DEF Deliveries

\* What is answered agrees with the row of the ledger, after every step.
LEMMA DeliveriesStep == Inv /\ [Next]_vars => \A q \in Upload : Deliveries(q)'
<1> SUFFICES ASSUME Inv, [Next]_vars PROVE \A q \in Upload : Deliveries(q)'
  OBVIOUS
<1>0. /\ TypeOK /\ TypeOK' /\ OneReceiver /\ \A s \in Session : Rows(s) /\ Posts(s)
      /\ \A u \in Upload : Puts(u) /\ Claims(u) /\ Deliveries(u)
  BY TypeStep DEF Inv
<1>1. ASSUME NEW c \in Creation, Create(c) PROVE \A q \in Upload : Deliveries(q)'
  <2>1. \A q \in Upload : Frame(q)
    BY SMTT(30), <1>0, <1>1, Requests, Named DEF Create, Queue, requestVars, workerVars,
       serverVars, TypeOK, Frame, Settled, RowOf
  <2> QED
    BY <1>0, <2>1, Undisturbed
<1>2. ASSUME NEW c \in Creation, Reserve(c) PROVE \A q \in Upload : Deliveries(q)'
  <2>1. \A q \in Upload : Frame(q)
    BY SMTT(30), <1>0, <1>2, Requests, Named, NewRows DEF Reserve, Set, Absent, requestVars,
       workerVars, serverVars, TypeOK, Frame, Settled, RowOf, Rows, Posts
  <2> QED
    BY <1>0, <2>1, Undisturbed
<1>3. ASSUME NEW c \in Creation, Compensate(c) PROVE \A q \in Upload : Deliveries(q)'
  <2>1. \A q \in Upload : Frame(q)
    BY SMTT(30), <1>0, <1>3, Requests, Named, RowsEnded DEF Compensate, Set, Fault,
       requestVars, workerVars, serverVars, TypeOK, Frame, Settled, RowOf, Rows, Posts
  <2> QED
    BY <1>0, <2>1, Undisturbed
<1>4. ASSUME NEW c \in Creation, Created(c) PROVE \A q \in Upload : Deliveries(q)'
  <2>1. \A q \in Upload : Frame(q)
    BY SMTT(30), <1>0, <1>4, Requests, Named DEF Created, InPool, requestVars, workerVars,
       serverVars, TypeOK, Frame, Settled, RowOf
  <2> QED
    BY <1>0, <2>1, Undisturbed
<1>5. ASSUME NEW u \in Upload, Start(u) PROVE \A q \in Upload : Deliveries(q)'
  <2>1. \A q \in Upload \ {u} : Frame(q)
    BY SMTT(30), <1>0, <1>5, Requests, Named DEF Start, Answer, Refused, requestVars,
       workerVars, serverVars, TypeOK, Frame, Settled, RowOf
  <2>2. Deliveries(u)'
    BY SMTT(30), <1>0, <1>5, Requests, Named DEF Start, Answer, Refused, requestVars,
       workerVars, serverVars, TypeOK, Deliveries, Jobs, Settled, RowOf, Kept, Waiting,
       Receiving, Deciding, Claims, Puts
  <2> QED
    BY <1>0, <2>1, <2>2, Undisturbed
<1>6. ASSUME NEW u \in Upload, StartTimesOut(u) PROVE \A q \in Upload : Deliveries(q)'
  <2>1. \A q \in Upload \ {u} : Frame(q)
    BY SMTT(30), <1>0, <1>6, Requests, Named DEF StartTimesOut, Answer, requestVars,
       workerVars, serverVars, TypeOK, Frame, Settled, RowOf
  <2>2. Deliveries(u)'
    BY SMTT(30), <1>0, <1>6, Requests, Named DEF StartTimesOut, Answer, requestVars,
       workerVars, serverVars, TypeOK, Deliveries, Jobs, Settled, RowOf, Kept, Waiting,
       Receiving, Deciding, Claims, Puts
  <2> QED
    BY <1>0, <2>1, <2>2, Undisturbed
<1>7. ASSUME NEW u \in Upload, Chunk(u) PROVE \A q \in Upload : Deliveries(q)'
  <2>1. \A q \in Upload \ {u} : Frame(q)
    BY SMTT(30), <1>0, <1>7, Requests, Named DEF Chunk, Command, requestVars, workerVars,
       serverVars, TypeOK, Frame, Settled, RowOf
  <2>2. Deliveries(u)'
    BY SMTT(30), <1>0, <1>7, Requests, Named DEF Chunk, Command, requestVars, workerVars,
       serverVars, TypeOK, Deliveries, Jobs, Settled, RowOf, Kept, Waiting, Receiving,
       Deciding, Kind
  <2> QED
    BY <1>0, <2>1, <2>2, Undisturbed
<1>8. ASSUME NEW u \in Upload, EndOfBody(u) PROVE \A q \in Upload : Deliveries(q)'
  <2>1. \A q \in Upload \ {u} : Frame(q)
    BY SMTT(30), <1>0, <1>8, Requests, Named DEF EndOfBody, Command, requestVars,
       workerVars, serverVars, TypeOK, Frame, Settled, RowOf
  <2>2. Deliveries(u)'
    BY SMTT(30), <1>0, <1>8, Requests, Named DEF EndOfBody, Command, requestVars,
       workerVars, serverVars, TypeOK, Deliveries, Jobs, Settled, RowOf, Kept, Waiting,
       Receiving, Deciding, Kind
  <2> QED
    BY <1>0, <2>1, <2>2, Undisturbed
<1>9. ASSUME NEW u \in Upload, StreamFails(u) PROVE \A q \in Upload : Deliveries(q)'
  <2>1. \A q \in Upload \ {u} : Frame(q)
    BY SMTT(30), <1>0, <1>9, Requests, Named DEF StreamFails, Command, Answer, Dropped,
       requestVars, workerVars, serverVars, TypeOK, Frame, Settled, RowOf
  <2>2. Deliveries(u)'
    BY SMTT(30), <1>0, <1>9, Requests, Named DEF StreamFails, Command, Answer, Dropped,
       requestVars, workerVars, serverVars, TypeOK, Deliveries, Jobs, Settled, RowOf, Kept,
       Waiting, Receiving, Deciding, Kind
  <2> QED
    BY <1>0, <2>1, <2>2, Undisturbed
<1>10. ASSUME NEW u \in Upload, Accepted(u) PROVE \A q \in Upload : Deliveries(q)'
  <2>1. \A q \in Upload \ {u} : Frame(q)
    BY SMTT(30), <1>0, <1>10, Requests, Named DEF Accepted, requestVars, workerVars,
       serverVars, TypeOK, Frame, Settled, RowOf
  <2>2. Deliveries(u)'
    <3>1. UNCHANGED <<ledger, answer, worker, unacknowledged>> /\ Jobs(u, "none")
      BY <1>0, <1>10 DEF Accepted, workerVars, serverVars, Deliveries, Receiving, Waiting
    <3>2. CASE handler[u] # "finishing"
      <4>1. handler'[u] = "streaming" /\ job' = job
        BY <1>0, <1>10, <3>2, Requests DEF Accepted, TypeOK
      <4>2. Jobs(u, "none")'
        BY <3>1, <4>1 DEF Jobs
      <4>3. handler[u] \in Receiving /\ answer[u] = "none"
        BY <1>0, <1>10 DEF Accepted, Puts, Receiving, Waiting
      <4> QED
        BY SMTT(30), <1>0, <3>1, <4>1, <4>2, <4>3
           DEF Deliveries, Settled, RowOf, Kept, Jobs, Kind, Receiving, Waiting
    <3>3. CASE handler[u] = "finishing"
      <4>1. worker[u] = "ended" /\ Settled(u) /\ answer[u] = "none" /\ handler'[u] = "beginning"
        BY <1>0, <1>10, <3>3, Requests DEF Accepted, TypeOK, Puts, Receiving, Waiting
      <4>2. \A k \in Kind \ {"begin"} : job'[Op(u, k)] = "none"
        BY <1>0, <1>10, <3>1, <3>3, Named DEF Accepted, Jobs, TypeOK
      <4>3. u \notin unacknowledged'
        BY <1>0, <3>1, <4>1 DEF Deliveries
      <4> QED
        BY <3>1, <4>1, <4>2, <4>3, Progressed DEF Kind, Receiving, Waiting
    <3> QED
      BY <3>2, <3>3
  <2> QED
    BY <1>0, <2>1, <2>2, Undisturbed
<1>11. ASSUME NEW u \in Upload, NotAccepted(u) PROVE \A q \in Upload : Deliveries(q)'
  <2>1. \A q \in Upload \ {u} : Frame(q)
    BY SMTT(30), <1>0, <1>11, Requests, Named DEF NotAccepted, Answer, Dropped, requestVars,
       workerVars, serverVars, TypeOK, Frame, Settled, RowOf
  <2>2. Deliveries(u)'
    BY SMTT(30), <1>0, <1>11, Requests, Named DEF NotAccepted, Answer, Dropped, requestVars,
       workerVars, serverVars, TypeOK, Deliveries, Jobs, Settled, RowOf, Kept, Waiting,
       Receiving, Deciding, Kind
  <2> QED
    BY <1>0, <2>1, <2>2, Undisturbed
<1>12. ASSUME NEW u \in Upload, Begun(u) PROVE \A q \in Upload : Deliveries(q)'
  <2>1. \A q \in Upload \ {u} : Frame(q)
    BY SMTT(30), <1>0, <1>12, Requests, Named DEF Begun, Succeeds, Undecided, Answer,
       Onward, InPool, requestVars, workerVars, serverVars, TypeOK, Frame, Settled, RowOf
  <2>2. Deliveries(u)'
    <3>1. worker'[u] = "ended" /\ Settled(u) /\ answer[u] = "none" /\ ledger' = ledger
      BY <1>0, <1>12 DEF Begun, workerVars, Puts, Deciding
    <3>2. /\ u \notin unacknowledged /\ u \notin unacknowledged'
          /\ job[Op(u, "mark")] # "done" /\ job[Op(u, "abort")] = "none"
          /\ job[Op(u, "acknowledge")] = "none"
      BY <1>0, <1>12, <3>1 DEF Begun, serverVars, Deliveries
    <3>3. /\ handler'[u] \in {"marking", "writingAnswer"} /\ answer'[u] \in {"none", "cut"}
          /\ \E next \in {"mark", "none"} : job' = Onward(u, "begin", next)
      BY <1>0, <1>12, <3>1, Requests DEF Begun, Answer, TypeOK
    <3>4. /\ job'[Op(u, "mark")] # "done" /\ job'[Op(u, "abort")] = "none"
          /\ job'[Op(u, "acknowledge")] = "none"
      BY <1>0, <3>2, <3>3, GoesOnward DEF Kind
    <3> QED
      BY <3>1, <3>2, <3>3, <3>4, Progressed DEF Receiving, Waiting
  <2> QED
    BY <1>0, <2>1, <2>2, Undisturbed
<1>13. ASSUME NEW u \in Upload, Marked(u) PROVE \A q \in Upload : Deliveries(q)'
  <2>1. \A q \in Upload \ {u} : Frame(q)
    BY SMTT(30), <1>0, <1>13, Requests, Named DEF Marked, Succeeds, Undecided, Answer,
       Onward, InPool, requestVars, workerVars, serverVars, TypeOK, Frame, Settled, RowOf
  <2>2. Deliveries(u)'
    <3>1. worker'[u] = "ended" /\ Settled(u) /\ answer[u] = "none" /\ ledger' = ledger
      BY <1>0, <1>13 DEF Marked, workerVars, Puts, Deciding
    <3>2. /\ u \notin unacknowledged /\ job[Op(u, "abort")] = "none"
          /\ job[Op(u, "acknowledge")] = "none" /\ (job[Op(u, "mark")] = "done" => Kept(u))
      BY <1>0, <1>13, <3>1 DEF Marked, Deliveries
    <3>3. CASE Succeeds(u, "mark") /\ Answer(u, "success") /\ job' = Onward(u, "mark", "none")
               /\ unacknowledged' = unacknowledged \cup {u}
      <4>1. Kept(u) /\ handler'[u] = "writingAnswer" /\ answer'[u] = "success"
        BY <1>0, <3>2, <3>3, Requests DEF Succeeds, Answer, TypeOK
      <4>2. job'[Op(u, "abort")] = "none" /\ job'[Op(u, "acknowledge")] = "none"
        BY <1>0, <3>2, <3>3, GoesOnward DEF Kind
      <4>3. job'[Op(u, "mark")] = "none"
        BY <1>0, <3>3, GoesOnward, SMTT(30) DEF Kind, Succeeds, InPool
      <4> QED
        BY <3>1, <3>3, <4>1, <4>2, <4>3, Progressed DEF Receiving, Waiting
    <3>4. CASE /\ handler' = [handler EXCEPT ![u] = "aborting"] /\ job' = Onward(u, "mark", "abort")
               /\ UNCHANGED <<answer, unacknowledged>>
      <4>1. handler'[u] = "aborting" /\ answer'[u] = "none" /\ u \notin unacknowledged'
        BY <1>0, <3>1, <3>2, <3>4, Requests DEF TypeOK
      <4>2. job'[Op(u, "abort")] = "queued" /\ job'[Op(u, "acknowledge")] = "none"
        BY <1>0, <3>2, <3>4, GoesOnward DEF Kind
      <4>3. job'[Op(u, "mark")] # "done"
        BY <1>0, <3>4, GoesOnward, SMTT(30) DEF Kind, InPool
      <4> QED
        BY <3>1, <4>1, <4>2, <4>3, Progressed DEF Receiving, Waiting
    <3> QED
      BY <1>13, <3>3, <3>4 DEF Marked
  <2> QED
    BY <1>0, <2>1, <2>2, Undisturbed
<1>14. ASSUME NEW u \in Upload, Aborted(u) PROVE \A q \in Upload : Deliveries(q)'
  <2>1. \A q \in Upload \ {u} : Frame(q)
    BY SMTT(30), <1>0, <1>14, Requests, Named DEF Aborted, Succeeds, Undecided,
       Unclassified, Answer, Onward, InPool, requestVars, workerVars, serverVars, TypeOK,
       Frame, Settled, RowOf
  <2>2. Deliveries(u)'
    <3>1. worker'[u] = "ended" /\ Settled(u) /\ answer[u] = "none" /\ ledger' = ledger
      BY <1>0, <1>14 DEF Aborted, workerVars, Puts, Deciding
    <3>2. /\ u \notin unacknowledged /\ u \notin unacknowledged'
          /\ job[Op(u, "acknowledge")] = "none" /\ job[Op(u, "mark")] # "done"
          /\ (job[Op(u, "abort")] = "done" => RowOf(u).state = "expired")
      BY <1>0, <1>14, <3>1 DEF Aborted, serverVars, Deliveries
    <3>3. /\ handler'[u] = "writingAnswer" /\ answer'[u] \in {"error", "cut"}
          /\ answer'[u] = "error" => job[Op(u, "abort")] = "done"
      BY <1>0, <1>14, Requests DEF Aborted, Answer, Unclassified, Succeeds, TypeOK
    <3>4. /\ job'[Op(u, "mark")] # "done" /\ job'[Op(u, "acknowledge")] = "none"
          /\ job'[Op(u, "abort")] # "done"
      BY <1>0, <1>14, <3>2, GoesOnward, SMTT(30) DEF Aborted, Kind, InPool
    <3> QED
      BY <3>1, <3>2, <3>3, <3>4, Progressed DEF Receiving, Waiting
  <2> QED
    BY <1>0, <2>1, <2>2, Undisturbed
<1>15. ASSUME NEW u \in Upload, AnswerSent(u) PROVE \A q \in Upload : Deliveries(q)'
  <2>1. \A q \in Upload \ {u} : Frame(q)
    BY SMTT(30), <1>0, <1>15, Requests, Named DEF AnswerSent, AfterTransport, Acknowledging,
       requestVars, workerVars, serverVars, TypeOK, Frame, Settled, RowOf
  <2>2. Deliveries(u)'
    BY SMTT(30), <1>0, <1>15, Requests, Named DEF AnswerSent, AfterTransport, Acknowledging,
       requestVars, workerVars, serverVars, TypeOK, Deliveries, Jobs, Settled, RowOf, Kept,
       Waiting, Receiving, Deciding, Kind
  <2> QED
    BY <1>0, <2>1, <2>2, Undisturbed
<1>16. ASSUME NEW u \in Upload, Disconnect(u) PROVE \A q \in Upload : Deliveries(q)'
  <2>1. \A q \in Upload \ {u} : Frame(q)
    BY SMTT(30), <1>0, <1>16, Requests, Named DEF Disconnect, AfterTransport, Acknowledging,
       Dropped, Fault, InPool, Operations, requestVars, workerVars, serverVars, TypeOK,
       Frame, Settled, RowOf
  <2>2. Deliveries(u)'
    BY SMTT(30), <1>0, <1>16, Requests, Named DEF Disconnect, AfterTransport, Acknowledging,
       Dropped, Fault, InPool, Operations, requestVars, workerVars, serverVars, TypeOK,
       Deliveries, Jobs, Settled, RowOf, Kept, Waiting, Receiving, Deciding, Kind
  <2> QED
    BY <1>0, <2>1, <2>2, Undisturbed
<1>17. ASSUME NEW u \in Upload, Acknowledged(u) PROVE \A q \in Upload : Deliveries(q)'
  <2>1. \A q \in Upload \ {u} : Frame(q)
    BY SMTT(30), <1>0, <1>17, Requests, Named DEF Acknowledged, Succeeds, Onward, InPool,
       requestVars, workerVars, serverVars, TypeOK, Frame, Settled, RowOf
  <2>2. Deliveries(u)'
    BY SMTT(30), <1>0, <1>17, Requests, Named DEF Acknowledged, Succeeds, Onward, InPool,
       requestVars, workerVars, serverVars, TypeOK, Deliveries, Jobs, Settled, RowOf, Kept,
       Waiting, Receiving, Deciding, Kind
  <2> QED
    BY <1>0, <2>1, <2>2, Undisturbed
<1>18. ASSUME NEW u \in Upload, AcknowledgeAgain(u) PROVE \A q \in Upload : Deliveries(q)'
  <2>1. \A q \in Upload \ {u} : Frame(q)
    BY SMTT(30), <1>0, <1>18, Requests, Named DEF AcknowledgeAgain, Undecided, Queue,
       InPool, requestVars, workerVars, serverVars, TypeOK, Frame, Settled, RowOf
  <2>2. Deliveries(u)'
    <3>1. /\ worker'[u] = "ended" /\ Settled(u)
          /\ UNCHANGED <<ledger, handler, answer, unacknowledged>>
      BY <1>0, <1>18 DEF AcknowledgeAgain, requestVars, workerVars, serverVars, Puts
    <3>2. u \in unacknowledged
      BY <1>0, <1>18 DEF AcknowledgeAgain, Deliveries
    <3>3. /\ job'[Op(u, "acknowledge")] = "queued"
          /\ \A k \in Kind \ {"acknowledge"} : job'[Op(u, k)] = job[Op(u, k)]
      BY <1>0, <1>18, Named DEF AcknowledgeAgain, Queue, TypeOK, Kind
    <3> QED
      BY <1>0, <1>18, <3>1, <3>2, <3>3, Progressed
         DEF AcknowledgeAgain, Deliveries, Kind, Receiving, Waiting
  <2> QED
    BY <1>0, <2>1, <2>2, Undisturbed
<1>19. ASSUME NEW u \in Upload, Take(u) PROVE \A q \in Upload : Deliveries(q)'
  <2>1. \A q \in Upload \ {u} : Frame(q)
    BY SMTT(30), <1>0, <1>19, Requests, Named DEF Take, requestVars, workerVars, serverVars,
       TypeOK, Frame, Settled, RowOf
  <2>2. Deliveries(u)'
    BY SMTT(30), <1>0, <1>19, Requests, Named DEF Take, requestVars, workerVars, serverVars,
       TypeOK, Deliveries, Jobs, Settled, RowOf, Kept
  <2> QED
    BY <1>0, <2>1, <2>2, Undisturbed
<1>20. ASSUME NEW u \in Upload, Claim(u) PROVE \A q \in Upload : Deliveries(q)'
  <2>1. \A q \in Upload \ {u} : Frame(q)
    BY SMTT(30), <1>0, <1>20, Requests, Named, RowsReceived DEF Claim, Set, requestVars,
       workerVars, serverVars, TypeOK, Frame, Settled, RowOf, Rows, Posts
  <2>2. Deliveries(u)'
    BY SMTT(30), <1>0, <1>20, Requests, Named, RowsReceived DEF Claim, Set, requestVars,
       workerVars, serverVars, TypeOK, Deliveries, Jobs, Settled, RowOf, Kept, Waiting,
       Receiving, Deciding
  <2> QED
    BY <1>0, <2>1, <2>2, Undisturbed
<1>21. ASSUME NEW u \in Upload, Progress(u) PROVE \A q \in Upload : Deliveries(q)'
  <2>1. \A q \in Upload \ {u} : Frame(q)
    BY SMTT(30), <1>0, <1>21, Requests, Named, RowsEnded DEF Progress, Reply, GoesOn,
       Delivered, Leaves, CleanedUp, Set, MayExpire, Fault, requestVars, workerVars,
       serverVars, TypeOK, Frame, Settled, RowOf, Rows, Posts
  <2>2. Deliveries(u)'
    BY SMTT(30), <1>0, <1>21, Requests, Named, RowsEnded DEF Progress, Reply, GoesOn,
       Delivered, Leaves, CleanedUp, Set, MayExpire, Fault, requestVars, workerVars,
       serverVars, TypeOK, Deliveries, Jobs, Settled, RowOf, Kept, Waiting, Receiving,
       Deciding
  <2> QED
    BY <1>0, <2>1, <2>2, Undisturbed
<1>22. ASSUME NEW u \in Upload, GivesUp(u) PROVE \A q \in Upload : Deliveries(q)'
  <2>1. \A q \in Upload \ {u} : Frame(q)
    BY SMTT(30), <1>0, <1>22, Requests, Named, RowsEnded DEF GivesUp, Reply, Delivered,
       Leaves, CleanedUp, Set, MayExpire, Fault, requestVars, workerVars, serverVars,
       TypeOK, Frame, Settled, RowOf, Rows, Posts, Claims, OneReceiver, Alive
  <2>2. Deliveries(u)'
    BY SMTT(30), <1>0, <1>22, Requests, Named, RowsEnded DEF GivesUp, Reply, Delivered,
       Leaves, CleanedUp, Set, MayExpire, Fault, requestVars, workerVars, serverVars,
       TypeOK, Deliveries, Jobs, Settled, RowOf, Kept, Waiting, Receiving, Deciding, Claims,
       Puts
  <2> QED
    BY <1>0, <2>1, <2>2, Undisturbed
<1>23. ASSUME NEW u \in Upload, Settle(u) PROVE \A q \in Upload : Deliveries(q)'
  <2>1. \A q \in Upload \ {u} : Frame(q)
    BY SMTT(30), <1>0, <1>23, Requests, Named, RowsSettled DEF Settle, Set, requestVars,
       workerVars, serverVars, TypeOK, Frame, Settled, RowOf, Rows, Posts
  <2>2. Deliveries(u)'
    BY SMTT(30), <1>0, <1>23, Requests, Named, RowsSettled DEF Settle, Set, requestVars,
       workerVars, serverVars, TypeOK, Deliveries, Jobs, Settled, RowOf, Kept, Waiting,
       Receiving, Deciding
  <2> QED
    BY <1>0, <2>1, <2>2, Undisturbed
<1>24. ASSUME NEW u \in Upload, HandOver(u) PROVE \A q \in Upload : Deliveries(q)'
  <2>1. \A q \in Upload \ {u} : Frame(q)
    BY SMTT(30), <1>0, <1>24, Requests, Named DEF HandOver, Reply, Delivered, Leaves,
       requestVars, workerVars, serverVars, TypeOK, Frame, Settled, RowOf
  <2>2. Deliveries(u)'
    BY SMTT(30), <1>0, <1>24, Requests, Named DEF HandOver, Reply, Delivered, Leaves,
       requestVars, workerVars, serverVars, TypeOK, Deliveries, Jobs, Settled, RowOf, Kept
  <2> QED
    BY <1>0, <2>1, <2>2, Undisturbed
<1>25. ASSUME NEW u \in Upload, TakeBack(u) PROVE \A q \in Upload : Deliveries(q)'
  <2>1. \A q \in Upload \ {u} : Frame(q)
    BY SMTT(30), <1>0, <1>25, Requests, Named, RowsEnded DEF TakeBack, Reply, Delivered,
       Leaves, Set, Fault, requestVars, workerVars, serverVars, TypeOK, Frame, Settled,
       RowOf, Rows, Posts, Claims, OneReceiver, Alive
  <2>2. Deliveries(u)'
    BY SMTT(30), <1>0, <1>25, Requests, Named, RowsEnded DEF TakeBack, Reply, Delivered,
       Leaves, Set, Fault, requestVars, workerVars, serverVars, TypeOK, Deliveries, Jobs,
       Settled, RowOf, Kept, Waiting, Receiving, Deciding, Claims, Puts
  <2> QED
    BY <1>0, <2>1, <2>2, Undisturbed
<1>26. ASSUME NEW u \in Upload, HeartbeatFails(u) PROVE \A q \in Upload : Deliveries(q)'
  <2>1. \A q \in Upload \ {u} : Frame(q)
    BY SMTT(30), <1>0, <1>26, Requests, Named DEF HeartbeatFails, Fault, requestVars,
       workerVars, serverVars, TypeOK, Frame, Settled, RowOf
  <2>2. Deliveries(u)'
    BY SMTT(30), <1>0, <1>26, Requests, Named DEF HeartbeatFails, Fault, requestVars,
       workerVars, serverVars, TypeOK, Deliveries, Jobs, Settled, RowOf, Kept
  <2> QED
    BY <1>0, <2>1, <2>2, Undisturbed
<1>27. ASSUME NEW u \in Upload, Panic(u) PROVE \A q \in Upload : Deliveries(q)'
  <2>1. \A q \in Upload \ {u} : Frame(q)
    BY SMTT(30), <1>0, <1>27, Requests, Named DEF Panic, Fault, requestVars, workerVars,
       serverVars, TypeOK, Frame, Settled, RowOf
  <2>2. Deliveries(u)'
    BY SMTT(30), <1>0, <1>27, Requests, Named DEF Panic, Fault, requestVars, workerVars,
       serverVars, TypeOK, Deliveries, Jobs, Settled, RowOf, Kept
  <2> QED
    BY <1>0, <2>1, <2>2, Undisturbed
<1>28. ASSUME NEW u \in Upload, Recover(u) PROVE \A q \in Upload : Deliveries(q)'
  <2>1. \A q \in Upload \ {u} : Frame(q)
    BY SMTT(30), <1>0, <1>28, Requests, Named, RowsEnded DEF Recover, Leaves, CleanedUp,
       Set, MayExpire, Fault, requestVars, workerVars, serverVars, TypeOK, Frame, Settled,
       RowOf, Rows, Posts, Claims, OneReceiver, Alive
  <2>2. Deliveries(u)'
    BY SMTT(30), <1>0, <1>28, Requests, Named, RowsEnded DEF Recover, Leaves, CleanedUp,
       Set, MayExpire, Fault, requestVars, workerVars, serverVars, TypeOK, Deliveries, Jobs,
       Settled, RowOf, Kept, Waiting, Receiving, Deciding, Claims, Puts
  <2> QED
    BY <1>0, <2>1, <2>2, Undisturbed
<1>29. ASSUME NEW u \in Upload, Deliver(u, "begin") PROVE \A q \in Upload : Deliveries(q)'
  <2>1. \A q \in Upload \ {u} : Frame(q)
    BY SMTT(30), <1>0, <1>29, Requests, Named, Effects, RowsDelivered DEF Deliver, Set,
       Ended, RowOf, requestVars, workerVars, serverVars, TypeOK, Frame, Settled,
       Deliveries, Jobs, Kind
  <2>2. Deliveries(u)'
    BY SMTT(30), <1>0, <1>29, Requests, Named, Effects, RowsDelivered, Waits DEF Deliver,
       Set, Ended, RowOf, requestVars, workerVars, serverVars, TypeOK, Deliveries, Jobs,
       Settled, Kept, Waiting, Receiving, Deciding, Kind, InPool
  <2> QED
    BY <1>0, <2>1, <2>2, Undisturbed
<1>30. ASSUME NEW u \in Upload, Deliver(u, "mark") PROVE \A q \in Upload : Deliveries(q)'
  <2>1. \A q \in Upload \ {u} : Frame(q)
    BY SMTT(30), <1>0, <1>30, Requests, Named, Effects, RowsDelivered DEF Deliver, Set,
       Ended, RowOf, requestVars, workerVars, serverVars, TypeOK, Frame, Settled
  <2>2. Deliveries(u)'
    <3>1. /\ worker'[u] = "ended" /\ Settled(u) /\ handler'[u] \notin Receiving \cup {"idle"}
          /\ UNCHANGED <<handler, answer, unacknowledged>>
      BY <1>0, <1>30 DEF Deliver, requestVars, workerVars, serverVars, Deliveries, Jobs, Kind
    <3>2. \A k \in Kind \ {"mark"} : job'[Op(u, k)] = job[Op(u, k)]
      BY <1>0, <1>30, Named, SMTT(30) DEF Deliver, Ended, TypeOK, Kind
    <3>3. CASE ~Allowed(u, "mark")
      <4>1. ledger' = ledger /\ job'[Op(u, "mark")] \in {"failed", "none"}
        BY <1>0, <1>30, <3>3, Named, SMTT(30) DEF Deliver, Ended, TypeOK, Kind
      <4>2. Jobs(u, "none") => FALSE
        BY <1>30 DEF Deliver, Jobs, Kind
      <4> QED
        BY <1>0, <3>1, <3>2, <4>1, <4>2, Progressed DEF Deliveries, Kind
    <3>4. CASE Allowed(u, "mark")
      <4>1. /\ RowOf(u) \in Row /\ RowOf(u).state = "uploaded" /\ RowOf(u).intent = "attempted"
            /\ RowOf(u).charged
        BY <1>0, <3>4, Requests, SMTT(30) DEF Allowed, Rows, RowOf, TypeOK
      <4>2. /\ RowOf(u)' = With(RowOf(u), "marked")
            /\ job'[Op(u, "mark")] = IF handler[u] = "marking" THEN "done" ELSE "none"
        BY <1>0, <1>30, <3>4, Named, Requests, Effects, Waits, SMTT(30)
           DEF Deliver, Set, Ended, TypeOK, Kind, RowOf
      <4>3. answer[u] \notin {"success", "error"}
        BY <1>0, <3>1, <4>1, <1>30 DEF Deliver, Deliveries, Kept, RowOf, Jobs, Kind
      <4>4. Settled(u)' /\ Kept(u)'
        BY <3>1, <4>1, <4>2, RowsDelivered, SMTT(30) DEF Kept, Settled, RowOf, With
      <4>5. Receiving' = Receiving
        BY DEF Receiving, Waiting
      <4> QED
        BY <1>0, <3>1, <3>2, <4>1, <4>2, <4>3, <4>4, <4>5, SMTT(30) DEF Deliveries, Kind
    <3> QED
      BY <3>3, <3>4
  <2> QED
    BY <1>0, <2>1, <2>2, Undisturbed
<1>31. ASSUME NEW u \in Upload, Deliver(u, "abort") PROVE \A q \in Upload : Deliveries(q)'
  <2>1. \A q \in Upload \ {u} : Frame(q)
    BY SMTT(30), <1>0, <1>31, Requests, Named, Effects, RowsEnded DEF Deliver, Set, Ended,
       RowOf, requestVars, workerVars, serverVars, TypeOK, Frame, Settled
  <2>2. Deliveries(u)'
    BY SMTT(30), <1>0, <1>31, Requests, Named, Effects, RowsEnded, Waits DEF Deliver, Set,
       Ended, RowOf, requestVars, workerVars, serverVars, TypeOK, Deliveries, Jobs, Settled,
       Kept, Waiting, Receiving, Deciding, Kind, InPool
  <2> QED
    BY <1>0, <2>1, <2>2, Undisturbed
<1>32. ASSUME NEW u \in Upload, Deliver(u, "acknowledge") PROVE \A q \in Upload : Deliveries(q)'
  <2>1. \A q \in Upload \ {u} : Frame(q)
    BY SMTT(30), <1>0, <1>32, Requests, Named, Effects, RowsDelivered DEF Deliver, Set,
       Ended, RowOf, requestVars, workerVars, serverVars, TypeOK, Frame, Settled,
       Deliveries, Jobs, Kind
  <2>2. Deliveries(u)'
    BY SMTT(30), <1>0, <1>32, Requests, Named, Effects, RowsDelivered, Waits DEF Deliver,
       Set, Ended, RowOf, requestVars, workerVars, serverVars, TypeOK, Deliveries, Jobs,
       Settled, Kept, Waiting, Receiving, Deciding, Kind, InPool
  <2> QED
    BY <1>0, <2>1, <2>2, Undisturbed
<1>33. ASSUME NEW o \in Operation, Begin(o) PROVE \A q \in Upload : Deliveries(q)'
  <2>1. \A q \in Upload, k \in Kind :
          \/ job'[Op(q, k)] = job[Op(q, k)]
          \/ job[Op(q, k)] # "none" /\ job'[Op(q, k)] # "done"
    <3> SUFFICES ASSUME NEW q \in Upload, NEW k \in Kind
        PROVE  \/ job'[Op(q, k)] = job[Op(q, k)]
               \/ job[Op(q, k)] # "none" /\ job'[Op(q, k)] # "done"
      OBVIOUS
    <3>1. Op(q, k) \in Operation
      BY Named
    <3> QED
      BY <1>0, <1>33, <3>1 DEF Begin, TypeOK
  <2>2. UNCHANGED <<ledger, handler, answer, worker, unacknowledged>>
    BY <1>33 DEF Begin, requestVars, workerVars, serverVars
  <2> QED
    BY <1>0, <2>1, <2>2, Interrupted
<1>34. ASSUME NEW o \in Operation, Fails(o) PROVE \A q \in Upload : Deliveries(q)'
  <2>1. \A q \in Upload, k \in Kind :
          \/ job'[Op(q, k)] = job[Op(q, k)]
          \/ job[Op(q, k)] # "none" /\ job'[Op(q, k)] # "done"
    <3> SUFFICES ASSUME NEW q \in Upload, NEW k \in Kind
        PROVE  \/ job'[Op(q, k)] = job[Op(q, k)]
               \/ job[Op(q, k)] # "none" /\ job'[Op(q, k)] # "done"
      OBVIOUS
    <3>1. Op(q, k) \in Operation
      BY Named
    <3> QED
      BY <1>0, <1>34, <3>1 DEF Fails, Ended, TypeOK
  <2>2. UNCHANGED <<ledger, handler, answer, worker, unacknowledged>>
    BY <1>34 DEF Fails, requestVars, workerVars, serverVars
  <2> QED
    BY <1>0, <2>1, <2>2, Interrupted
<1>35. ASSUME NEW s \in Session, LeaseLapses(s) PROVE \A q \in Upload : Deliveries(q)'
  <2>1. \A q \in Upload : Frame(q)
    BY SMTT(30), <1>0, <1>35, Requests, Named, RowsLapsed DEF LeaseLapses, Set, Fault,
       requestVars, workerVars, serverVars, TypeOK, Frame, Settled, RowOf, Rows, Posts
  <2> QED
    BY <1>0, <2>1, Undisturbed
<1>36. ASSUME Tick PROVE \A q \in Upload : Deliveries(q)'
  <2>1. \A q \in Upload : Frame(q)
    BY SMTT(30), <1>0, <1>36, Requests, Named DEF Tick, Queue, requestVars, workerVars,
       serverVars, TypeOK, Frame, Settled, RowOf, Kind, Reconciliation
  <2> QED
    BY <1>0, <2>1, Undisturbed
<1>37. ASSUME Reconcile PROVE \A q \in Upload : Deliveries(q)'
  <2> SUFFICES ASSUME NEW q \in Upload PROVE Deliveries(q)'
    OBVIOUS
  <2>1. \A k \in Kind : job'[Op(q, k)] = job[Op(q, k)]
    BY <1>0, <1>37, Named DEF Reconcile, Ended, TypeOK, Reconciliation, Kind
  <2>2. UNCHANGED <<handler, answer, worker, unacknowledged>>
    BY <1>37 DEF Reconcile, requestVars, workerVars, serverVars
  <2>3. Deliveries(q) /\ RowOf(q) \in Row /\ Target[q] \in Session
    BY <1>0, Requests DEF TypeOK, RowOf
  <2>4. \/ RowOf(q)' = RowOf(q)
        \/ Recoverable(Target[q]) /\ RowOf(q)' = Refunded(RowOf(q))
        \/ Abandoned(Target[q]) /\ RowOf(q)' = Expired(RowOf(q))
    BY <1>37, <2>3 DEF Reconcile, RowOf
  <2>5. CASE ~Settled(q) \/ Abandoned(Target[q])
    <3>1. ~Settled(q) /\ ~Settled(q)'
      <4>1. ~Settled(q)
        BY <1>0, <2>3, <2>5, Requests DEF Rows, Abandoned, Settled, RowOf
      <4>2. RowOf(q)'.by = RowOf(q).by
        BY <2>3, <2>4, RowsEnded
      <4> QED
        BY <4>1, <4>2 DEF Settled, RowOf
    <3> QED
      BY <2>1, <2>2, <2>3, <3>1, Undisturbed DEF Frame
  <2>6. CASE Settled(q) /\ RowOf(q)' = RowOf(q)
    <3>1. Frame(q)
      BY <2>1, <2>2, <2>6 DEF Frame, Settled, RowOf
    <3> QED
      BY <2>3, <3>1, Undisturbed
  <2>7. CASE Settled(q) /\ Recoverable(Target[q]) /\ RowOf(q)' = Refunded(RowOf(q))
    BY <2>1, <2>2, <2>3, <2>7, Repaid
  <2> QED
    BY <2>4, <2>5, <2>6, <2>7
<1>38. ASSUME Reconciled PROVE \A q \in Upload : Deliveries(q)'
  <2>1. \A q \in Upload : Frame(q)
    BY SMTT(30), <1>0, <1>38, Requests, Named
       DEF Reconciled, requestVars, workerVars, TypeOK, Frame, Settled, RowOf, Kind, Reconciliation
  <2> QED
    BY <1>0, <2>1, Undisturbed
<1>39. ASSUME Shutdown PROVE \A q \in Upload : Deliveries(q)'
  <2>1. \A q \in Upload : Frame(q)
    BY SMTT(30), <1>0, <1>39, Requests, Named DEF Shutdown, requestVars, workerVars,
       serverVars, TypeOK, Frame, Settled, RowOf
  <2> QED
    BY <1>0, <2>1, Undisturbed
<1>40. ASSUME AbortConnections PROVE \A q \in Upload : Deliveries(q)'
  <2>1. \A q \in Upload, k \in Kind :
          /\ job'[Op(q, k)] = job[Op(q, k)] \/ job[Op(q, k)] # "none"
          /\ job'[Op(q, k)] # "done"
    BY <1>0, <1>40, Named DEF AbortConnections, Forsake, InPool, TypeOK, Reconciliation, Kind
  <2>2. \A q \in Upload : handler'[q] \in {handler[q], "closed"}
    BY <1>0, <1>40, Requests DEF AbortConnections, TypeOK
  <2>3. UNCHANGED <<ledger, answer, worker, unacknowledged>>
    BY <1>40 DEF AbortConnections
  <2> QED
    BY <1>0, <2>1, <2>2, <2>3, Interrupted
<1>41. ASSUME Stop PROVE \A q \in Upload : Deliveries(q)'
  <2>1. \A q \in Upload : Frame(q)
    BY SMTT(30), <1>0, <1>41, Requests, Named DEF Stop, Open, Idle, requestVars, workerVars,
       serverVars, TypeOK, Frame, Settled, RowOf
  <2> QED
    BY <1>0, <2>1, Undisturbed
<1>42. ASSUME UNCHANGED vars PROVE \A q \in Upload : Deliveries(q)'
  <2>1. \A q \in Upload : Frame(q)
    BY SMTT(30), <1>0, <1>42, Requests, Named DEF vars, requestVars, workerVars, serverVars,
       TypeOK, Frame, Settled, RowOf
  <2> QED
    BY <1>0, <2>1, Undisturbed
<1> QED
  BY <1>1, <1>2, <1>3, <1>4, <1>5, <1>6, <1>7, <1>8, <1>9, <1>10, <1>11, <1>12, <1>13,
     <1>14, <1>15, <1>16, <1>17, <1>18, <1>19, <1>20, <1>21, <1>22, <1>23, <1>24, <1>25,
     <1>26, <1>27, <1>28, <1>29, <1>30, <1>31, <1>32, <1>33, <1>34, <1>35, <1>36, <1>37,
     <1>38, <1>39, <1>40, <1>41, <1>42 DEF Next, HandlerStep, WorkerStep, PoolStep,
     ServerStep, Kind

\* Only Stop reports a clean shutdown.
LEMMA OnlyStop == Next /\ server' = "stopped" => Stop
<1> SUFFICES ASSUME Next, server' = "stopped" PROVE Stop
  OBVIOUS
<1>1. server # "stopped"
  BY DEF Next, Running
<1>2. ASSUME NEW c \in Creation, Create(c) \/ Reserve(c) \/ Compensate(c) \/ Created(c) PROVE FALSE
  BY <1>1, <1>2 DEF Create, Reserve, Compensate, Created, serverVars
<1>3. ASSUME NEW u \in Upload, HandlerStep(u) PROVE FALSE
  BY <1>1, <1>3 DEF HandlerStep, Start, StartTimesOut, Chunk, EndOfBody, StreamFails, Accepted,
     NotAccepted, Begun, Marked, Aborted, AnswerSent, Disconnect, Acknowledged, AcknowledgeAgain,
     serverVars
<1>4. ASSUME NEW u \in Upload, WorkerStep(u) PROVE FALSE
  BY <1>1, <1>4 DEF WorkerStep, Take, Claim, Progress, GivesUp, Settle, HandOver, TakeBack,
     HeartbeatFails, Panic, Recover, serverVars
<1>5. ASSUME NEW u \in Upload, NEW k \in Kind, Deliver(u, k) PROVE FALSE
  BY <1>1, <1>5 DEF Deliver, serverVars
<1>6. ASSUME NEW o \in Operation, PoolStep(o) PROVE FALSE
  BY <1>1, <1>6 DEF PoolStep, Begin, Fails, serverVars
<1>7. ASSUME NEW s \in Session, LeaseLapses(s) PROVE FALSE
  BY <1>1, <1>7 DEF LeaseLapses, serverVars
<1>8. ASSUME Tick \/ Reconcile \/ Reconciled \/ Shutdown \/ AbortConnections PROVE FALSE
  BY <1>1, <1>8 DEF Tick, Reconcile, Reconciled, Shutdown, AbortConnections, serverVars
<1> QED
  BY <1>2, <1>3, <1>4, <1>5, <1>6, <1>7, <1>8 DEF Next, ServerStep

\* A clean shutdown is quiet, and it is the last thing that happens.
LEMMA QuietStep == Inv /\ [Next]_vars => ShutdownIsQuiet'
<1> SUFFICES ASSUME Inv, [Next]_vars, server' = "stopped" PROVE ShutdownIsQuiet'
  BY DEF ShutdownIsQuiet
<1>0. /\ TypeOK /\ TypeOK' /\ OneReceiver /\ \A s \in Session : Rows(s) /\ Posts(s)
      /\ \A u \in Upload : Puts(u) /\ Claims(u) /\ Deliveries(u)
  BY TypeStep DEF Inv
<1>1. CASE Next
  <2>1. Stop
    BY <1>1, OnlyStop
  <2>2. UNCHANGED <<ledger, requestVars, workerVars, job>> /\ unacknowledged = {} /\ Workers = {}
        /\ Busy = {}
    BY <2>1 DEF Stop, Idle
  <2>3. Workers' = {} /\ Busy' = {}
    BY <2>2 DEF Workers, Busy, Alive, InPool, workerVars
  <2>4. \A u \in Upload : answer[u] = "success" => ledger[Target[u]].intent = "none"
    BY <1>0, <2>2 DEF Deliveries, RowOf
  <2>5. \A u \in Upload : Target[u] \notin active
    BY <1>0, <2>2, Requests DEF Rows, Workers
  <2> QED
    BY <2>2, <2>3, <2>4, <2>5 DEF ShutdownIsQuiet, requestVars, workerVars
<1>2. CASE UNCHANGED vars
  <2>1. ShutdownIsQuiet
    BY DEF Inv
  <2>2. UNCHANGED <<server, ledger, answer, active, claimed, worker, job>>
    BY <1>2 DEF vars, requestVars, workerVars, serverVars
  <2>3. Workers' = Workers /\ Busy' = Busy
    BY <2>2 DEF Workers, Busy, Alive, InPool
  <2> QED
    BY <2>1, <2>2, <2>3 DEF ShutdownIsQuiet
<1> QED
  BY <1>1, <1>2

-----------------------------------------------------------------------------
(* The theorems.                                                           *)

\* Nobody has asked for anything yet.
LEMMA InitInv == Init => Inv
<1> SUFFICES ASSUME Init PROVE Inv
  OBVIOUS
<1>1. TypeOK
  <2>1. 0 \in 0 .. MaxChunks /\ 0 \in 0 .. MaxFaults
    BY RequestsAssumption
  <2>2. ledger \in [Session -> Row] /\ job \in [Operation -> Job]
    BY NewRows DEF Init, Job
  <2> QED
    BY <2>1, <2>2 DEF Init, TypeOK
<1>2. OneReceiver
  BY DEF Init, OneReceiver, Alive
<1>3. ShutdownIsQuiet
  BY DEF Init, ShutdownIsQuiet
<1>4. ASSUME NEW s \in Session PROVE Rows(s) /\ Posts(s)
  <2>1. ledger[s] = Absent /\ s \notin active /\ s \in Request
    BY Requests DEF Init
  <2>2. \A u \in Upload : ~Alive(u)
    BY DEF Init, Alive
  <2>3. Rows(s)
    BY <2>1, <2>2, NewRows DEF Rows
  <2>4. job[Op(s, "reserve")] = "none"
    BY Named, Requests DEF Init
  <2>5. handler[s] = "idle" /\ answer[s] = "none"
    BY <2>1 DEF Init
  <2>6. Posts(s)
    BY <2>1, <2>4, <2>5, NewRows DEF Posts
  <2> QED
    BY <2>3, <2>6
<1>5. ASSUME NEW u \in Upload PROVE Puts(u) /\ Claims(u) /\ Deliveries(u) /\ Channels(u)
  <2>1. /\ handler[u] = "idle" /\ answer[u] = "none" /\ worker[u] = "none" /\ ~claimed[u]
        /\ mailbox[u] = "empty" /\ reply[u] = "none" /\ u \notin unacknowledged
    BY Requests DEF Init
  <2>2. ~Settled(u)
    BY Requests, NewRows DEF Init, Settled, RowOf
  <2>3. \A k \in Kind : job[Op(u, k)] = "none"
    BY Named DEF Init
  <2>4. Puts(u)
    BY <2>1 DEF Puts, Waiting, Receiving, Deciding
  <2>5. Claims(u)
    BY <2>1, <2>2 DEF Claims
  <2>6. Deliveries(u)
    BY <2>1, <2>2, <2>3 DEF Deliveries, Jobs, Kind
  <2>7. Channels(u)
    BY <2>1 DEF Channels
  <2> QED
    BY <2>4, <2>5, <2>6, <2>7
<1> QED
  BY <1>1, <1>2, <1>3, <1>4, <1>5 DEF Inv

\* Every step keeps the invariant.
LEMMA InvStep == Inv /\ [Next]_vars => Inv'
BY TypeStep, RowsStep, PostsStep, PutsStep, ClaimsStep, OneReceiverStep, DeliveriesStep,
   ChannelsStep, QuietStep DEF Inv, Session

\* Every behaviour keeps the invariant.
LEMMA InvHolds == Spec => []Inv
BY InitInv, InvStep, PTL DEF Spec

\* Every variable keeps its type.
THEOREM TypesAreKept == Spec => []TypeOK
<1>1. Inv => TypeOK
  BY DEF Inv
<1> QED
  BY <1>1, InvHolds, PTL

\* What a client is told is what it is charged in the end, whoever timed out on whom
\* (routes.rs, the deadlines of run_storage and await_upload_worker).
THEOREM AnswersAreHonest == Spec => []HonestAnswers
<1>1. Inv => HonestAnswers
  <2> SUFFICES ASSUME Inv, NEW u \in Upload
      PROVE /\ answer[u] = "success" => Kept(u)
            /\ answer[u] = "error" => ~Kept(u)
    BY DEF HonestAnswers
  <2>1. Deliveries(u)
    BY DEF Inv
  <2>2. answer[u] = "success" => Kept(u)
    BY <2>1 DEF Deliveries
  <2>3. ASSUME answer[u] = "error", Kept(u) PROVE FALSE
    <3>1. Settled(u) /\ RowOf(u).state = "uploaded" /\ RowOf(u).intent # "pending"
      BY <2>3 DEF Kept, Settled, RowOf
    <3> QED
      BY <2>1, <2>3, <3>1 DEF Deliveries
  <2> QED
    BY <2>2, <2>3
<1> QED
  BY <1>1, InvHolds, PTL

\* The maintenance pass spares whoever holds a receiving lease (UploadWorker::start).
THEOREM ReceiversAreSpared == Spec => []ReceiverIsSpared
<1>1. Inv => ReceiverIsSpared
  BY Requests DEF Inv, Rows, ReceiverIsSpared
<1> QED
  BY <1>1, InvHolds, PTL

\* A clean shutdown leaves nothing running, nothing half done and nothing unacknowledged
\* (serve_with_authorization, after 'accept).
THEOREM ShutdownsAreQuiet == Spec => []ShutdownIsQuiet
<1>1. Inv => ShutdownIsQuiet
  BY DEF Inv
<1> QED
  BY <1>1, InvHolds, PTL

=============================================================================
