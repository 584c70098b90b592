------------------------- MODULE BatchQueueProofs -------------------------
(***************************************************************************)
(* Theorems about the batch queue, for any number of tasks, any files and  *)
(* any number of callbacks on their way.                                   *)
(***************************************************************************)
EXTENDS BatchQueue, WellFoundedInduction, SequenceTheorems, TLAPS

Final == {"Succeeded", "Cancelled"}

-----------------------------------------------------------------------------
(* The operators of the model.                                              *)

\* Some task of any nonempty set of numbers comes first.
LEMMA FirstIsFirst ==
  ASSUME NEW S \in SUBSET Nat, S # {}
  PROVE  First(S) \in S /\ \A t \in S : First(S) <= t
<1> DEFINE R == {ss \in Nat \X Nat : ss[1] < ss[2]}
<1>a. R = OpToRel(<, Nat)
  BY Zenon DEF OpToRel
<1>b. IsWellFoundedOn(R, Nat)
  BY <1>a, NatLessThanWellFounded, Zenon
<1>c. \A x, y \in Nat : x < y => <<x, y>> \in R
  OBVIOUS
<1> HIDE DEF R
<1>1. PICK x \in S : \A y \in S : ~(<<y, x>> \in R)
  BY <1>b, WFMin, Zenon
<1>d. \A y \in S : ~(y < x)
  BY <1>1, <1>c, Zenon
<1>2. \A y \in S : x <= y
  <2> SUFFICES ASSUME NEW y \in S PROVE x <= y
    OBVIOUS
  <2>1. x \in Nat /\ y \in Nat
    OBVIOUS
  <2>2. QED
    BY <2>1, <1>d
<1>3. QED
  BY <1>2 DEF First

\* Every task has a status.
LEMMA StatusOfTask ==
  ASSUME NEW tasks \in Seq(Row), NEW t \in DOMAIN tasks
  PROVE  tasks[t].status \in Status
<1>1. tasks[t] \in Row
  BY ElementOfSeq
<1>2. QED
  BY <1>1 DEF Row

\* What SetStatus does: the chosen tasks get the status, nothing else changes.
LEMMA SetStatusEffect ==
  ASSUME NEW tasks \in Seq(Row), NEW which, NEW status \in Status
  PROVE  /\ SetStatus(tasks, which, status) \in Seq(Row)
         /\ DOMAIN SetStatus(tasks, which, status) = DOMAIN tasks
         /\ Len(SetStatus(tasks, which, status)) = Len(tasks)
         /\ \A t \in DOMAIN tasks :
              /\ t \in which => SetStatus(tasks, which, status)[t].status = status
              /\ t \notin which => SetStatus(tasks, which, status)[t] = tasks[t]
<1> DEFINE after == SetStatus(tasks, which, status)
<1>1. \A t \in DOMAIN tasks : tasks[t] \in Row
  BY ElementOfSeq
<1>2. after = [t \in 1 .. Len(tasks) |->
                [tasks[t] EXCEPT !.status = IF t \in which THEN status ELSE @]]
  BY DEF SetStatus
<1>3. \A t \in DOMAIN tasks :
        /\ after[t] \in Row
        /\ t \in which => after[t].status = status
        /\ t \notin which => after[t] = tasks[t]
  <2> SUFFICES ASSUME NEW t \in DOMAIN tasks
               PROVE  /\ after[t] \in Row
                      /\ t \in which => after[t].status = status
                      /\ t \notin which => after[t] = tasks[t]
    OBVIOUS
  <2>1. after[t] = [tasks[t] EXCEPT !.status = IF t \in which THEN status ELSE tasks[t].status]
    BY <1>2
  <2>2. tasks[t] \in Row
    BY <1>1
  <2> HIDE DEF after
  <2>3. QED
    BY <2>1, <2>2 DEF Row
<1> HIDE DEF after
<1>4. after \in Seq(Row) /\ DOMAIN after = DOMAIN tasks /\ Len(after) = Len(tasks)
  <2>1. after = [t \in 1 .. Len(tasks) |-> after[t]]
    BY <1>2
  <2>2. DOMAIN tasks = 1 .. Len(tasks) /\ Len(tasks) \in Nat
    BY LenProperties
  <2>3. \A t \in 1 .. Len(tasks) : after[t] \in Row
    BY <1>3, <2>2
  <2>4. after \in [1 .. Len(tasks) -> Row]
    BY <2>1, <2>3
  <2>5. QED
    BY <2>2, <2>4
<1>5. QED
  BY <1>3, <1>4 DEF after

\* Which tasks HavingStatus chooses.
LEMMA HavingStatusIs ==
  ASSUME NEW tasks, NEW statuses, live \subseteq DOMAIN tasks
  PROVE  \A t \in DOMAIN tasks :
           t \in HavingStatus(tasks, statuses) <=> t \in live /\ tasks[t].status \in statuses
BY DEF HavingStatus

\* What a run may be entered or continued with: the tasks of the run that are
\* left can be converted, all others are settled or removed, and none runs.
Enterable(tasks, rest) ==
  /\ tasks \in Seq(Row)
  /\ live \subseteq DOMAIN tasks
  /\ rest \subseteq live
  /\ \A t \in rest : tasks[t].status \in {"Pending", "Failed"}
  /\ \A t \in live \ rest : tasks[t].status \in Settled
  /\ \A t \in DOMAIN tasks : tasks[t].status # "Running"

\* A run that is over: every queued task is settled.
Over ==
  /\ busy' = FALSE /\ cancel' = FALSE /\ todo' = {} /\ current' = 0 /\ conv' = "idle"
  /\ \A t \in live : task'[t].status \in Settled
  /\ \A t \in DOMAIN task' : task'[t].status # "Running"

\* A run that awaits its next task, which nobody has asked to stop.
Going ==
  /\ busy' = TRUE /\ ~cancel /\ cancel' = cancel
  /\ current' \in live /\ todo' \subseteq live /\ conv' \in {"ensure", "tool"}
  /\ task'[current'].status = "Running"
  /\ \A t \in todo' : t > current' /\ task'[t].status \in {"Pending", "Failed"}
  /\ \A t \in live : t \in todo' \/ t = current' \/ task'[t].status \in Settled
  /\ \A t \in DOMAIN task' : task'[t].status = "Running" => t = current'

\* The tasks after a step of the run: the same ones, and the final ones as before.
Kept(tasks) ==
  /\ task' \in Seq(Row)
  /\ Len(task') = Len(tasks)
  /\ DOMAIN task' = DOMAIN tasks
  /\ \A t \in DOMAIN tasks :
       tasks[t].status \in Final => task'[t].status = tasks[t].status

\* A stop settles every queued task and keeps the final ones.
LEMMA StopEnds ==
  ASSUME NEW tasks \in Seq(Row), live \subseteq DOMAIN tasks,
         \A t \in DOMAIN tasks : tasks[t].status # "Running",
         Finish(MarkUnfinishedTasksAsCancelled(tasks))
  PROVE  Kept(tasks) /\ Over
<1> DEFINE marked == HavingStatus(tasks, Unfinished)
<1>1. task' = SetStatus(tasks, marked, "Cancelled")
  BY DEF Finish, MarkUnfinishedTasksAsCancelled
<1>2. \A t \in DOMAIN tasks : t \in marked <=> t \in live /\ tasks[t].status \in Unfinished
  BY HavingStatusIs
<1> HIDE DEF marked
<1>3. /\ task' \in Seq(Row) /\ DOMAIN task' = DOMAIN tasks /\ Len(task') = Len(tasks)
      /\ \A t \in DOMAIN tasks :
           /\ t \in marked => task'[t].status = "Cancelled"
           /\ t \notin marked => task'[t] = tasks[t]
  BY <1>1, SetStatusEffect DEF Status
<1>4. \A t \in DOMAIN tasks : tasks[t].status \in Status
  BY StatusOfTask
<1>5. Kept(tasks)
  BY <1>2, <1>3 DEF Kept, Final, Unfinished
<1>6. \A t \in live : task'[t].status \in Settled
  BY <1>2, <1>3, <1>4 DEF Settled, Unfinished, Status
<1>7. \A t \in DOMAIN task' : task'[t].status # "Running"
  BY <1>3
<1>8. QED
  BY <1>5, <1>6, <1>7 DEF Over, Finish

\* A run that has nothing left but failures ends.
LEMMA FailuresEnd ==
  ASSUME NEW tasks, NEW rest, Enterable(tasks, rest),
         Finish(SetStatus(tasks, rest, "Failed"))
  PROVE  Kept(tasks) /\ Over
<1>1. task' = SetStatus(tasks, rest, "Failed")
  BY DEF Finish
<1>2. /\ task' \in Seq(Row) /\ DOMAIN task' = DOMAIN tasks /\ Len(task') = Len(tasks)
      /\ \A t \in DOMAIN tasks :
           /\ t \in rest => task'[t].status = "Failed"
           /\ t \notin rest => task'[t] = tasks[t]
  BY <1>1, SetStatusEffect DEF Status, Enterable
<1>3. Kept(tasks)
  BY <1>2 DEF Kept, Final, Enterable
<1>4. \A t \in live : task'[t].status \in Settled
  BY <1>2 DEF Settled, Enterable
<1>5. \A t \in DOMAIN task' : task'[t].status # "Running"
  BY <1>2 DEF Enterable
<1>6. QED
  BY <1>3, <1>4, <1>5 DEF Over, Finish

\* The next task is the first that is left and does not fail at once.
LEMMA AwaitGoes ==
  ASSUME NEW tasks, NEW rest, NEW office, Enterable(tasks, rest), ~Stops(rest),
         Await(tasks, rest, office)
  PROVE  Kept(tasks) /\ Going
<1> DEFINE failing == {t \in rest : FailsAtOnce(tasks[t], office)}
           next    == NextOf(rest \ failing)
           passed  == {t \in failing : t < next}
           middle  == SetStatus(tasks, passed, "Failed")
<1>1. /\ rest # failing /\ busy' = TRUE /\ current' = next
      /\ task' = SetStatus(middle, {next}, "Running")
      /\ todo' = rest \ (passed \cup {next})
      /\ conv' \in {"ensure", "tool"} /\ cancel' = cancel
  BY DEF Await
<1>2. failing \subseteq rest
  OBVIOUS
<1>a. rest \subseteq Nat /\ rest \subseteq DOMAIN tasks
  BY LenProperties DEF Enterable
<1>b. rest \ failing \in SUBSET Nat /\ rest \ failing # {}
  BY <1>1, <1>2, <1>a
<1> HIDE DEF failing
<1>3. next \in rest \ failing /\ \A t \in rest \ failing : next <= t
  BY <1>b, FirstIsFirst DEF NextOf
<1>4. ~cancel
  BY <1>1, <1>2 DEF Stops
<1>5. \A t : t \in passed <=> t \in failing /\ t < next
  OBVIOUS
<1> HIDE DEF next, passed
<1>6. /\ middle \in Seq(Row) /\ DOMAIN middle = DOMAIN tasks /\ Len(middle) = Len(tasks)
      /\ \A t \in DOMAIN tasks :
           /\ t \in passed => middle[t].status = "Failed"
           /\ t \notin passed => middle[t] = tasks[t]
  BY SetStatusEffect DEF Status, Enterable
<1> HIDE DEF middle
<1>7. /\ task' \in Seq(Row) /\ DOMAIN task' = DOMAIN tasks /\ Len(task') = Len(tasks)
      /\ \A t \in DOMAIN tasks :
           /\ t = next => task'[t].status = "Running"
           /\ t # next => task'[t] = middle[t]
  BY <1>1, <1>6, SetStatusEffect DEF Status
<1>8. next \in live /\ next \in DOMAIN tasks /\ tasks[next].status \in {"Pending", "Failed"}
  BY <1>3 DEF Enterable
<1>9. \A t \in passed : t \in rest /\ tasks[t].status \in {"Pending", "Failed"}
  BY <1>2, <1>5 DEF Enterable
<1>10. Kept(tasks)
  BY <1>6, <1>7, <1>8, <1>9 DEF Kept, Final
<1>11. \A t \in todo' : t > current' /\ task'[t].status \in {"Pending", "Failed"}
  <2> SUFFICES ASSUME NEW t \in todo'
               PROVE  t > current' /\ task'[t].status \in {"Pending", "Failed"}
    OBVIOUS
  <2>1. t \in rest /\ t # next /\ t \notin passed /\ t \in Nat /\ next \in Nat
    BY <1>1, <1>3, <1>a
  <2>2. t > next
    BY <2>1, <1>3, <1>5
  <2>3. task'[t] = tasks[t]
    BY <2>1, <1>6, <1>7, <1>a
  <2>4. QED
    BY <2>1, <2>2, <2>3, <1>1 DEF Enterable
<1>12. \A t \in live : t \in todo' \/ t = current' \/ task'[t].status \in Settled
  <2> SUFFICES ASSUME NEW t \in live, t \notin todo', t # current'
               PROVE  task'[t].status \in Settled
    OBVIOUS
  <2>1. t \in passed \/ t \notin rest
    BY <1>1
  <2>2. t \in DOMAIN tasks
    BY DEF Enterable
  <2>3. CASE t \in passed
    BY <2>2, <2>3, <1>1, <1>6, <1>7 DEF Settled
  <2>4. CASE t \notin passed
    <3>1. task'[t] = tasks[t]
      BY <2>2, <2>4, <1>1, <1>6, <1>7
    <3>2. t \in live \ rest
      BY <2>1, <2>4
    <3>3. QED
      BY <3>1, <3>2 DEF Enterable
  <2>5. QED
    BY <2>3, <2>4
<1>13. \A t \in DOMAIN task' : task'[t].status = "Running" => t = current'
  <2> SUFFICES ASSUME NEW t \in DOMAIN task', t # current'
               PROVE  task'[t].status # "Running"
    OBVIOUS
  <2>1. t \in DOMAIN tasks /\ task'[t] = middle[t]
    BY <1>1, <1>7
  <2>2. CASE t \in passed
    BY <2>1, <2>2, <1>6
  <2>3. CASE t \notin passed
    BY <2>1, <2>3, <1>6 DEF Enterable
  <2>4. QED
    BY <2>2, <2>3
<1>14. task'[current'].status = "Running" /\ current' \in live /\ todo' \subseteq live
  BY <1>1, <1>7, <1>8 DEF Enterable
<1>15. QED
  BY <1>1, <1>4, <1>10, <1>11, <1>12, <1>13, <1>14 DEF Going

\* The loop keeps what is final, and leaves the run over or going.
LEMMA LoopEffect ==
  ASSUME NEW tasks, NEW rest, Enterable(tasks, rest), Loop(tasks, rest)
  PROVE  Kept(tasks) /\ (Over \/ Going)
<1>1. CASE Stops(rest) /\ Finish(MarkUnfinishedTasksAsCancelled(tasks))
  BY <1>1, StopEnds DEF Enterable
<1>2. CASE ~Stops(rest) /\ \E office \in BOOLEAN : Await(tasks, rest, office)
  BY <1>2, AwaitGoes
<1>3. CASE Finish(SetStatus(tasks, rest, "Failed"))
  BY <1>3, FailuresEnd
<1>4. QED
  BY <1>1, <1>2, <1>3 DEF Loop

-----------------------------------------------------------------------------
(* The dispatcher's queue.                                                  *)

\* An answer on its way is that of the awaited task, which still runs or
\* already shows it.
AnswerFits(p, tasks, cur, where) ==
  /\ where = "answered" /\ p.task = cur /\ p.status \in Settled
  /\ tasks[cur].status \in {"Running", p.status}

\* A callback that can change nothing any more.
Gone(p, tasks) == tasks[p.task].status \in Final

\* A callback on its way is gone, or that of the awaited task, which runs; it
\* shows an end only after the answer.
CallbackFits(p, tasks, cur, where) ==
  /\ p.status \in Final \cup {"Running"}
  /\ \/ Gone(p, tasks)
     \/ /\ p.task = cur /\ tasks[cur].status = "Running"
        /\ p.status # "Running" => where = "answered"

\* A callback and an answer that are both on their way: no callback of a
\* failed conversion is behind its answer, and an end is the answer's.
Agree(q, i, j) ==
  /\ q[j].status = "Failed" => i < j
  /\ q[i].status # "Running" => q[i].status = q[j].status

Answering(q) == {i \in DOMAIN q : q[i].kind # "progress"}
Calling(q) == {i \in DOMAIN q : q[i].kind = "progress"}

PostsInv(q, tasks, cur, where) ==
  /\ \A i \in Answering(q) : AnswerFits(q[i], tasks, cur, where)
  /\ \A i, j \in Answering(q) : i = j
  /\ \A i \in Calling(q) : CallbackFits(q[i], tasks, cur, where)
  /\ \A i \in Calling(q), j \in Answering(q) : Gone(q[i], tasks) \/ Agree(q, i, j)

\* A reader of a killed tool is of a task that is final, or of the awaited
\* one, and then the answer is that it was stopped.
LateInv(readers, q, tasks, cur, where) ==
  \A t \in readers :
    \/ tasks[t].status \in Final
    \/ /\ t = cur /\ where = "answered" /\ tasks[t].status = "Running"
       /\ \A i \in Answering(q) : q[i].status = "Cancelled"

\* Nothing in the queue can change anything.
AllGone(q, tasks) == \A i \in DOMAIN q :
  q[i].kind = "progress" /\ q[i].status \in Final \cup {"Running"} /\ Gone(q[i], tasks)

\* The items of a queue that got one more.
LEMMA Appended ==
  ASSUME NEW q \in Seq(Post), NEW p \in Post
  PROVE  /\ Append(q, p) \in Seq(Post)
         /\ \A i \in DOMAIN Append(q, p) :
              \/ i \in DOMAIN q /\ Append(q, p)[i] = q[i]
              \/ i = Len(q) + 1 /\ Append(q, p)[i] = p
         /\ \A i \in DOMAIN q : i < Len(q) + 1
BY AppendProperties, LenProperties

\* The items of a queue without its head.
LEMMA Taken ==
  ASSUME NEW q \in Seq(Post), q # << >>
  PROVE  /\ Tail(q) \in Seq(Post) /\ Head(q) \in Post
         /\ 1 \in DOMAIN q /\ Head(q) = q[1]
         /\ \A i \in DOMAIN Tail(q) : i \in Nat /\ i + 1 \in DOMAIN q /\ i + 1 # 1
                                     /\ Tail(q)[i] = q[i + 1]
<1>1. Tail(q) \in Seq(Post) /\ Head(q) \in Post /\ Len(Tail(q)) = Len(q) - 1
  BY HeadTailProperties
<1>2. Len(q) \in Nat /\ Len(q) # 0 /\ DOMAIN q = 1 .. Len(q)
  BY LenProperties, EmptySeq
<1>3. DOMAIN Tail(q) = 1 .. Len(q) - 1
  BY <1>1, LenProperties
<1>4. \A i \in 1 .. Len(q) - 1 : Tail(q)[i] = q[i + 1]
  BY <1>2
<1>5. Head(q) = q[1]
  BY <1>2
<1>6. QED
  BY <1>1, <1>2, <1>3, <1>4, <1>5

\* A queue of gone callbacks satisfies the invariant whatever is awaited.
LEMMA GoneFits ==
  ASSUME NEW q, NEW tasks, NEW cur, NEW where, AllGone(q, tasks)
  PROVE  PostsInv(q, tasks, cur, where)
BY DEF AllGone, PostsInv, Answering, Calling, CallbackFits

\* Callbacks that are gone stay so while final statuses are kept.
LEMMA GoneStays ==
  ASSUME NEW q, NEW before, NEW after, AllGone(q, before),
         \A i \in DOMAIN q : q[i].task \in DOMAIN before,
         \A t \in DOMAIN before :
            before[t].status \in Final => after[t].status = before[t].status
  PROVE  AllGone(q, after)
BY DEF AllGone, Gone

\* The answer of the awaited converter joins the queue.
LEMMA AnswerJoins ==
  ASSUME NEW q \in Seq(Post), NEW p \in Post, NEW tasks, NEW cur, NEW where,
         PostsInv(q, tasks, cur, where), where # "answered",
         p.kind = "answer", p.task = cur, p.status \in Settled,
         tasks[cur].status = "Running"
  PROVE  PostsInv(Append(q, p), tasks, cur, "answered")
<1> DEFINE r == Append(q, p)
<1>1. /\ \A i \in DOMAIN r :
           (i \in DOMAIN q /\ r[i] = q[i]) \/ (i = Len(q) + 1 /\ r[i] = p)
      /\ \A i \in DOMAIN q : i < Len(q) + 1
  BY Appended
<1> HIDE DEF r
<1>2. Answering(q) = {}
  BY DEF PostsInv, AnswerFits
<1>3. \A i \in Answering(r) : i = Len(q) + 1 /\ r[i] = p
  BY <1>1, <1>2 DEF Answering
<1>4. \A i \in Calling(r) : i \in DOMAIN q /\ r[i] = q[i] /\ i \in Calling(q) /\ i < Len(q) + 1
  BY <1>1 DEF Calling
<1>5. \A i \in Calling(q) : CallbackFits(q[i], tasks, cur, where)
  BY DEF PostsInv
<1>6. \A i \in Calling(r) : CallbackFits(r[i], tasks, cur, "answered")
  BY <1>4, <1>5 DEF CallbackFits
<1>7. \A i \in Calling(r), j \in Answering(r) : Gone(r[i], tasks) \/ Agree(r, i, j)
  BY <1>3, <1>4, <1>5 DEF CallbackFits, Agree
<1>8. \A i \in Answering(r) : AnswerFits(r[i], tasks, cur, "answered")
  BY <1>3 DEF AnswerFits
<1>9. PostsInv(r, tasks, cur, "answered")
  BY <1>3, <1>6, <1>7, <1>8 DEF PostsInv
<1>10. QED
  BY <1>9 DEF r

\* A line of output joins the queue: of the running tool, or of a killed one.
LEMMA ReportJoins ==
  ASSUME NEW q \in Seq(Post), NEW p \in Post, NEW tasks, NEW cur, NEW where,
         PostsInv(q, tasks, cur, where),
         p.kind = "progress", p.status = "Running",
         \/ Gone(p, tasks)
         \/ /\ p.task = cur /\ tasks[cur].status = "Running"
            /\ \A i \in Answering(q) : q[i].status # "Failed"
  PROVE  PostsInv(Append(q, p), tasks, cur, where)
<1> DEFINE r == Append(q, p)
<1>1. \A i \in DOMAIN r :
        (i \in DOMAIN q /\ r[i] = q[i]) \/ (i = Len(q) + 1 /\ r[i] = p)
  BY Appended
<1> HIDE DEF r
<1>2. \A i \in Answering(r) : i \in Answering(q) /\ r[i] = q[i]
  BY <1>1 DEF Answering
<1>3. \A i \in Calling(r) : (i \in Calling(q) /\ r[i] = q[i]) \/ r[i] = p
  BY <1>1 DEF Calling
<1>4. \A i \in Answering(r) : AnswerFits(r[i], tasks, cur, where)
  BY <1>2 DEF PostsInv
<1>5. \A i, j \in Answering(r) : i = j
  BY <1>2 DEF PostsInv
<1>6. \A i \in Calling(r) : CallbackFits(r[i], tasks, cur, where)
  <2>1. CallbackFits(p, tasks, cur, where)
    BY DEF CallbackFits
  <2>2. QED
    BY <1>3, <2>1 DEF PostsInv
<1>7. \A i \in Calling(r), j \in Answering(r) : Gone(r[i], tasks) \/ Agree(r, i, j)
  <2> SUFFICES ASSUME NEW i \in Calling(r), NEW j \in Answering(r)
               PROVE  Gone(r[i], tasks) \/ Agree(r, i, j)
    OBVIOUS
  <2>1. CASE i \in Calling(q) /\ r[i] = q[i]
    BY <1>2, <2>1 DEF PostsInv, Agree
  <2>2. CASE r[i] = p
    BY <1>2, <2>2 DEF Agree
  <2>3. QED
    BY <1>3, <2>1, <2>2
<1>8. PostsInv(r, tasks, cur, where)
  BY <1>4, <1>5, <1>6, <1>7 DEF PostsInv
<1>9. QED
  BY <1>8 DEF r

\* The dispatcher takes the head.
LEMMA TailFits ==
  ASSUME NEW q \in Seq(Post), q # << >>, NEW tasks, NEW cur, NEW where,
         PostsInv(q, tasks, cur, where)
  PROVE  /\ PostsInv(Tail(q), tasks, cur, where)
         /\ \A i \in Answering(Tail(q)) : i + 1 \in Answering(q) /\ Tail(q)[i] = q[i + 1]
         /\ \A i \in Calling(Tail(q)) : i + 1 \in Calling(q) /\ Tail(q)[i] = q[i + 1]
<1> DEFINE r == Tail(q)
<1>1. \A i \in DOMAIN r : i \in Nat /\ i + 1 \in DOMAIN q /\ r[i] = q[i + 1]
  BY Taken
<1> HIDE DEF r
<1>2. \A i \in Answering(r) : i \in Nat /\ i + 1 \in Answering(q) /\ r[i] = q[i + 1]
  BY <1>1 DEF Answering
<1>3. \A i \in Calling(r) : i \in Nat /\ i + 1 \in Calling(q) /\ r[i] = q[i + 1]
  BY <1>1 DEF Calling
<1>4. \A i \in Answering(r) : AnswerFits(r[i], tasks, cur, where)
  BY <1>2 DEF PostsInv
<1>5. \A i, j \in Answering(r) : i = j
  <2> SUFFICES ASSUME NEW i \in Answering(r), NEW j \in Answering(r) PROVE i = j
    OBVIOUS
  <2>1. i + 1 = j + 1
    BY <1>2 DEF PostsInv
  <2>2. QED
    BY <1>2, <2>1
<1>6. \A i \in Calling(r) : CallbackFits(r[i], tasks, cur, where)
  BY <1>3 DEF PostsInv
<1>7. \A i \in Calling(r), j \in Answering(r) : Gone(r[i], tasks) \/ Agree(r, i, j)
  <2> SUFFICES ASSUME NEW i \in Calling(r), NEW j \in Answering(r)
               PROVE  Gone(r[i], tasks) \/ Agree(r, i, j)
    OBVIOUS
  <2>1. Gone(q[i + 1], tasks) \/ Agree(q, i + 1, j + 1)
    BY <1>2, <1>3 DEF PostsInv
  <2>2. i \in Nat /\ j \in Nat /\ r[i] = q[i + 1] /\ r[j] = q[j + 1]
    BY <1>2, <1>3
  <2>3. CASE Gone(q[i + 1], tasks)
    BY <2>2, <2>3
  <2>4. CASE Agree(q, i + 1, j + 1)
    BY <2>2, <2>4 DEF Agree
  <2>5. QED
    BY <2>1, <2>3, <2>4
<1>8. PostsInv(r, tasks, cur, where)
  BY <1>4, <1>5, <1>6, <1>7 DEF PostsInv
<1>9. QED
  BY <1>2, <1>3, <1>8 DEF r

\* A callback sets the status of the awaited task.
LEMMA CallbackShown ==
  ASSUME NEW q, NEW before, NEW after, NEW cur, NEW where, NEW status \in Final \cup {"Running"},
         PostsInv(q, before, cur, where),
         \A i \in DOMAIN q : q[i].task \in DOMAIN before,
         before[cur].status = "Running",
         after[cur].status = status,
         \A t \in DOMAIN before : t # cur => after[t] = before[t],
         \A j \in Answering(q) : status # "Running" => q[j].status = status
  PROVE  PostsInv(q, after, cur, where)
<1>1. \A i \in Answering(q) : AnswerFits(q[i], after, cur, where)
  BY DEF PostsInv, AnswerFits
<1>2. \A i \in DOMAIN q : Gone(q[i], before) => Gone(q[i], after)
  <2> SUFFICES ASSUME NEW i \in DOMAIN q, Gone(q[i], before)
               PROVE  Gone(q[i], after)
    OBVIOUS
  <2>1. q[i].task # cur
    BY DEF Gone, Final
  <2>2. after[q[i].task] = before[q[i].task]
    BY <2>1
  <2>3. QED
    BY <2>2 DEF Gone
<1>3. \A i \in Calling(q) : CallbackFits(q[i], after, cur, where)
  <2> SUFFICES ASSUME NEW i \in Calling(q)
               PROVE  CallbackFits(q[i], after, cur, where)
    OBVIOUS
  <2>1. CallbackFits(q[i], before, cur, where) /\ i \in DOMAIN q
    BY DEF PostsInv, Calling
  <2>2. CASE Gone(q[i], before)
    BY <1>2, <2>1, <2>2 DEF CallbackFits
  <2>3. CASE ~Gone(q[i], before) /\ status = "Running"
    BY <2>1, <2>3 DEF CallbackFits
  <2>4. CASE ~Gone(q[i], before) /\ status \in Final
    BY <2>1, <2>4 DEF CallbackFits, Gone
  <2>5. QED
    BY <2>2, <2>3, <2>4
<1>4. \A i \in Calling(q), j \in Answering(q) : Gone(q[i], after) \/ Agree(q, i, j)
  BY <1>2 DEF PostsInv, Calling
<1>5. \A i, j \in Answering(q) : i = j
  BY DEF PostsInv
<1>6. QED
  BY <1>1, <1>3, <1>4, <1>5 DEF PostsInv

\* The converter's continuation puts its report and the loop's continuation
\* into the queue, where its answer was.
LEMMA AnswerPassesOn ==
  ASSUME NEW q \in Seq(Post), q # << >>, NEW tasks, NEW cur,
         PostsInv(q, tasks, cur, "answered"), Head(q).kind = "answer",
         Head(q).status \in Settled, \A i \in DOMAIN q : q[i].task \in DOMAIN tasks
  PROVE  LET r == Append(Reported(Tail(q), Head(q)), [Head(q) EXCEPT !.kind = "done"])
         IN  /\ r \in Seq(Post)
             /\ PostsInv(r, tasks, cur, "answered")
             /\ \A i \in Answering(r) : r[i].status = Head(q).status
             /\ \A i \in DOMAIN r : r[i].task \in DOMAIN tasks
<1> DEFINE p == Head(q)
           rest == Tail(q)
           report == [p EXCEPT !.kind = "progress"]
           done == [p EXCEPT !.kind = "done"]
           front == Reported(rest, p)
           r == Append(front, done)
<1>1. /\ p \in Post /\ p.kind = "answer" /\ p.status \in Settled /\ rest \in Seq(Post)
      /\ 1 \in DOMAIN q /\ p = q[1]
      /\ \A i \in DOMAIN rest : i \in Nat /\ i + 1 \in DOMAIN q /\ i + 1 # 1 /\ rest[i] = q[i + 1]
  BY Taken
<1>2. /\ report \in Post /\ report.kind = "progress" /\ report.task = p.task /\ report.status = p.status
      /\ done \in Post /\ done.kind = "done" /\ done.task = p.task /\ done.status = p.status
  BY <1>1 DEF Post
<1>3. PostsInv(rest, tasks, cur, "answered")
  BY TailFits
<1>4. front = IF p.status = "Failed" THEN rest ELSE Append(rest, report)
  BY DEF Reported
<1> HIDE DEF p, rest, report, done, front
<1>5. 1 \in Answering(q)
  BY <1>1 DEF Answering
<1>6. p.task = cur /\ tasks[cur].status \in {"Running", p.status}
  BY <1>1, <1>5 DEF PostsInv, AnswerFits
<1>7. \A i \in DOMAIN rest : rest[i].kind = "progress"
  BY <1>1, <1>5 DEF PostsInv, Answering
<1>8. \A i \in Calling(rest) :
        /\ CallbackFits(rest[i], tasks, cur, "answered")
        /\ \/ Gone(rest[i], tasks)
           \/ /\ p.status # "Failed"
              /\ rest[i].status # "Running" => rest[i].status = p.status
  <2> SUFFICES ASSUME NEW i \in Calling(rest)
               PROVE  \/ Gone(rest[i], tasks)
                      \/ /\ p.status # "Failed"
                         /\ rest[i].status # "Running" => rest[i].status = p.status
    BY <1>3 DEF PostsInv
  <2>1. i \in Nat /\ i + 1 \in Calling(q) /\ rest[i] = q[i + 1]
    BY <1>1, <1>7 DEF Calling
  <2>2. Gone(q[i + 1], tasks) \/ Agree(q, i + 1, 1)
    BY <1>5, <2>1 DEF PostsInv
  <2>3. QED
    BY <1>1, <2>1, <2>2 DEF Agree
<1>9. /\ front \in Seq(Post)
      /\ \A i \in DOMAIN front :
           \/ i \in DOMAIN rest /\ front[i] = rest[i]
           \/ front[i] = report /\ p.status # "Failed"
  <2>1. CASE p.status = "Failed"
    BY <1>1, <1>4, <2>1
  <2>2. CASE p.status # "Failed"
    BY <1>1, <1>2, <1>4, <2>2, Appended
  <2>3. QED
    BY <2>1, <2>2
<1>10. \A i \in DOMAIN front :
         /\ front[i].kind = "progress"
         /\ CallbackFits(front[i], tasks, cur, "answered")
         /\ \/ Gone(front[i], tasks)
            \/ /\ p.status # "Failed"
               /\ front[i].status # "Running" => front[i].status = p.status
  <2> SUFFICES ASSUME NEW i \in DOMAIN front
               PROVE  /\ front[i].kind = "progress"
                      /\ CallbackFits(front[i], tasks, cur, "answered")
                      /\ \/ Gone(front[i], tasks)
                         \/ /\ p.status # "Failed"
                            /\ front[i].status # "Running" => front[i].status = p.status
    OBVIOUS
  <2>1. CASE i \in DOMAIN rest /\ front[i] = rest[i]
    <3>1. i \in Calling(rest)
      BY <1>7, <2>1 DEF Calling
    <3>2. QED
      BY <1>7, <1>8, <2>1, <3>1
  <2>2. CASE front[i] = report /\ p.status # "Failed"
    <3>1. report.status \in Final
      BY <1>1, <1>2, <2>2 DEF Final, Settled
    <3>2. CallbackFits(report, tasks, cur, "answered")
      BY <1>2, <1>6, <3>1 DEF CallbackFits, Gone
    <3>3. QED
      BY <1>2, <2>2, <3>2
  <2>3. QED
    BY <1>9, <2>1, <2>2
<1>11. /\ r \in Seq(Post)
       /\ \A i \in DOMAIN r :
            (i \in DOMAIN front /\ r[i] = front[i]) \/ (i = Len(front) + 1 /\ r[i] = done)
  BY <1>2, <1>9, Appended
<1> HIDE DEF r
<1>12. \A i \in Answering(r) : i = Len(front) + 1 /\ r[i] = done
  BY <1>10, <1>11 DEF Answering
<1>13. \A i \in Calling(r) : i \in DOMAIN front /\ r[i] = front[i]
  BY <1>2, <1>11 DEF Calling
<1>14. AnswerFits(done, tasks, cur, "answered")
  BY <1>1, <1>2, <1>6 DEF AnswerFits
<1>15. \A i \in Calling(r), j \in Answering(r) : Gone(r[i], tasks) \/ Agree(r, i, j)
  BY <1>2, <1>10, <1>12, <1>13 DEF Agree
<1>16. PostsInv(r, tasks, cur, "answered")
  BY <1>10, <1>12, <1>13, <1>14, <1>15 DEF PostsInv
<1>17. \A i \in DOMAIN r : r[i].task \in DOMAIN tasks
  BY <1>1, <1>2, <1>6, <1>9, <1>11
<1>18. \A i \in Answering(r) : r[i].status = p.status
  BY <1>2, <1>12
<1>19. QED
  BY <1>11, <1>16, <1>17, <1>18 DEF r, front, done, rest, p

\* When the loop continues instead, nothing in the queue can change anything:
\* the answer is the task's status by then, and no failure has a callback left.
LEMMA AnswerContinues ==
  ASSUME NEW q \in Seq(Post), q # << >>, NEW tasks, NEW cur, NEW after,
         PostsInv(q, tasks, cur, "answered"), Head(q).kind # "progress",
         \A i \in DOMAIN q : q[i].task \in DOMAIN tasks,
         \A t \in DOMAIN tasks :
            tasks[t].status \in Final => after[t].status = tasks[t].status,
         Head(q).status \in Final => after[cur].status = Head(q).status
  PROVE  /\ AllGone(Tail(q), after) /\ AllGone(Reported(Tail(q), Head(q)), after)
         /\ Reported(Tail(q), Head(q)) \in Seq(Post)
         /\ \A i \in DOMAIN Reported(Tail(q), Head(q)) :
              Reported(Tail(q), Head(q))[i].task \in DOMAIN tasks
<1> DEFINE p == Head(q)
           rest == Tail(q)
           report == [p EXCEPT !.kind = "progress"]
           front == Reported(rest, p)
<1>1. /\ p \in Post /\ p.kind # "progress" /\ rest \in Seq(Post)
      /\ 1 \in DOMAIN q /\ p = q[1]
      /\ \A i \in DOMAIN rest : i \in Nat /\ i + 1 \in DOMAIN q /\ i + 1 # 1 /\ rest[i] = q[i + 1]
  BY Taken
<1>2. /\ report \in Post /\ report.kind = "progress" /\ report.task = p.task /\ report.status = p.status
  BY <1>1 DEF Post
<1>3. front = IF p.status = "Failed" THEN rest ELSE Append(rest, report)
  BY DEF Reported
<1>a. p.status \in Final => after[cur].status = p.status
  OBVIOUS
<1> HIDE DEF p, rest, report, front
<1>4. 1 \in Answering(q)
  BY <1>1 DEF Answering
<1>5. p.task = cur /\ p.status \in Settled /\ tasks[cur].status \in {"Running", p.status}
  BY <1>1, <1>4 DEF PostsInv, AnswerFits
<1>6. \A i \in DOMAIN rest : rest[i].kind = "progress"
  BY <1>1, <1>4 DEF PostsInv, Answering
<1>7. ASSUME NEW i \in DOMAIN rest
      PROVE  rest[i].status \in Final \cup {"Running"} /\ Gone(rest[i], after)
  <2>1. i \in Nat /\ i + 1 \in Calling(q) /\ rest[i] = q[i + 1] /\ i + 1 \in DOMAIN q
    BY <1>1, <1>6 DEF Calling
  <2>2. CallbackFits(rest[i], tasks, cur, "answered")
    BY <2>1 DEF PostsInv
  <2>3. Gone(q[i + 1], tasks) \/ Agree(q, i + 1, 1)
    BY <1>4, <2>1 DEF PostsInv
  <2>4. CASE Gone(rest[i], tasks)
    BY <2>1, <2>2, <2>4 DEF Gone, CallbackFits
  <2>5. CASE ~Gone(rest[i], tasks)
    <3>1. p.status # "Failed"
      BY <1>1, <2>1, <2>3, <2>5 DEF Agree
    <3>2. p.status \in Final
      BY <1>5, <3>1 DEF Settled, Final
    <3>3. rest[i].task = cur
      BY <2>2, <2>5 DEF CallbackFits
    <3>4. after[cur].status \in Final
      BY <1>a, <3>2
    <3>5. QED
      BY <2>2, <3>3, <3>4 DEF Gone, CallbackFits
  <2>6. QED
    BY <2>4, <2>5
<1>8. AllGone(rest, after)
  BY <1>6, <1>7 DEF AllGone
<1>9. /\ front \in Seq(Post)
      /\ \A i \in DOMAIN front :
           \/ i \in DOMAIN rest /\ front[i] = rest[i]
           \/ front[i] = report /\ p.status # "Failed"
  <2>1. CASE p.status = "Failed"
    BY <1>1, <1>3, <2>1
  <2>2. CASE p.status # "Failed"
    BY <1>1, <1>2, <1>3, <2>2, Appended
  <2>3. QED
    BY <2>1, <2>2
<1>10. p.status # "Failed" => report.status \in Final /\ Gone(report, after)
  BY <1>2, <1>5, <1>a DEF Settled, Final, Gone
<1>11. AllGone(front, after)
  BY <1>2, <1>6, <1>7, <1>9, <1>10 DEF AllGone
<1>12. \A i \in DOMAIN front : front[i].task \in DOMAIN tasks
  BY <1>1, <1>2, <1>9
<1>13. QED
  BY <1>8, <1>9, <1>11, <1>12 DEF front, rest, p

-----------------------------------------------------------------------------
(* The inductive invariant.                                                 *)

\* What TypeOK needs to be inductive.
BoundInv ==
  /\ Len(task) + Len(pending.files) <= MaxTasks
  /\ \A i \in DOMAIN posts : posts[i].task \in DOMAIN task
  /\ ~busy => todo = {}

\* The tasks of a run: the awaited one runs, those behind it can be converted,
\* and every other one in the queue is settled.
QueueInv ==
  /\ \A t \in DOMAIN task : task[t].status = "Running" => t = current
  /\ \A t \in todo : t > current /\ task[t].status \in {"Pending", "Failed"}
  /\ busy => \A t \in live : t \in todo \/ t = current \/ task[t].status \in Settled
  /\ conv \in {"ensure", "tool"} => task[current].status = "Running"

Inv ==
  /\ TypeOK
  /\ BoundInv
  /\ QueueInv
  /\ PostsInv(posts, task, current, conv)
  /\ LateInv(late, posts, task, current, conv)

\* What a step may never do to the tasks.
FinalKept ==
  \A t \in DOMAIN task :
     task[t].status \in Final => task'[t].status = task[t].status

\* An idle window has only gone callbacks and finished readers.
LEMMA IdleIsQuiet ==
  ASSUME Inv, ~busy
  PROVE  /\ conv = "idle" /\ current = 0 /\ todo = {} /\ ~cancel
         /\ \A t \in DOMAIN task : task[t].status # "Running"
         /\ AllGone(posts, task)
         /\ \A t \in late : task[t].status \in Final
<1>1. conv = "idle" /\ current = 0 /\ todo = {} /\ ~cancel /\ 0 \notin DOMAIN task
      /\ DOMAIN task = 1 .. Len(task) /\ late \subseteq DOMAIN task
  BY LenProperties DEF Inv, TypeOK, BoundInv
<1>2. \A t \in DOMAIN task : task[t].status # "Running"
  BY <1>1 DEF Inv, QueueInv
<1>3. \A t \in late : task[t].status \in Final
  BY <1>1 DEF Inv, LateInv
<1>4. \A i \in DOMAIN posts : posts[i].kind = "progress"
  BY <1>1 DEF Inv, PostsInv, Answering, AnswerFits
<1>5. \A i \in DOMAIN posts : CallbackFits(posts[i], task, current, conv) /\ posts[i].task # current
  BY <1>1, <1>4 DEF Inv, BoundInv, PostsInv, Calling
<1>6. AllGone(posts, task)
  BY <1>4, <1>5 DEF AllGone, CallbackFits
<1>7. QED
  BY <1>1, <1>2, <1>3, <1>6

\* The invariant holds initially.
LEMMA InitInv == Init => Inv
<1> SUFFICES ASSUME Init PROVE Inv
  OBVIOUS
<1>1. DOMAIN << >> = {} /\ Len(<< >>) = 0
  OBVIOUS
<1>2. pending \in [files : Seq(File), category : Category \cup {None},
                   format : Formats \cup {None}]
  BY DEF Init, Reset
<1>a. task \in Seq(Row) /\ posts \in Seq(Post)
  BY DEF Init
<1>b. Len(task) <= MaxTasks
  BY <1>1, BatchAssumption DEF Init
<1>3. TypeOK
  BY <1>2, <1>a, <1>b, Zenon DEF Init, TypeOK
<1>4. BoundInv
  BY <1>1, BatchAssumption DEF Init, BoundInv, Reset
<1>5. QueueInv
  BY <1>1 DEF Init, QueueInv
<1>6. PostsInv(posts, task, current, conv) /\ LateInv(late, posts, task, current, conv)
  BY <1>1 DEF Init, PostsInv, LateInv, Answering, Calling
<1>7. QED
  BY <1>3, <1>4, <1>5, <1>6 DEF Inv

-----------------------------------------------------------------------------
(* The steps.                                                               *)

PendingType == [files : Seq(File), category : Category \cup {None},
                format : Formats \cup {None}]

\* A step that changes nothing but the pending batch.
LEMMA PendingOnly ==
  ASSUME Inv, UNCHANGED <<task, live, runVars, conv, late, posts>>,
         pending' \in PendingType, Len(task) + Len(pending'.files) <= MaxTasks
  PROVE  Inv' /\ FinalKept
<1>1. /\ task' = task /\ live' = live /\ busy' = busy /\ cancel' = cancel /\ todo' = todo
      /\ current' = current /\ conv' = conv /\ late' = late /\ posts' = posts
  BY DEF runVars
<1>2. TypeOK'
  BY <1>1, Zenon DEF Inv, TypeOK, PendingType
<1>3. BoundInv'
  BY <1>1 DEF Inv, BoundInv
<1>4. QueueInv'
  BY <1>1, Zenon DEF Inv, QueueInv
<1>5. PostsInv(posts, task, current, conv)' /\ LateInv(late, posts, task, current, conv)'
  BY <1>1, Zenon DEF Inv
<1>6. FinalKept
  BY <1>1 DEF FinalKept
<1>7. QED
  BY <1>2, <1>3, <1>4, <1>5, <1>6 DEF Inv

\* Adding a file changes the pending batch only.
LEMMA AddFilesKeeps ==
  ASSUME Inv, NEW f \in File, NEW default \in Formats, AddFiles(f, default)
  PROVE  Inv' /\ FinalKept
<1> DEFINE c == GuessCategory(ExtensionOf[f])
<1>1. pending \in PendingType
  BY DEF Inv, TypeOK, PendingType
<1>2. c \in Category
  BY DEF GuessCategory, Category
<1>3. pending' = [TryAddFile(f, c) EXCEPT !.format = IF @ = None THEN default ELSE @]
  BY DEF AddFiles
<1> HIDE DEF c
<1>4. /\ Append(pending.files, f) \in Seq(File)
      /\ Len(Append(pending.files, f)) = Len(pending.files) + 1
      /\ Len(pending.files) \in Nat
  <2>1. pending.files \in Seq(File)
    BY <1>1 DEF PendingType
  <2>2. QED
    BY <2>1, AppendProperties, LenProperties
<1>5. pending' = [files |-> Append(pending.files, f), category |-> c,
                 format |-> IF pending.format = None THEN default ELSE pending.format]
  BY <1>1, <1>3 DEF TryAddFile, PendingType
<1>6. pending' \in PendingType
  BY <1>1, <1>2, <1>4, <1>5 DEF PendingType
<1>7. Len(task) \in Nat /\ Len(task) + Len(pending.files) < MaxTasks
  BY LenProperties DEF Inv, TypeOK, AddFiles
<1>8. Len(task) + Len(pending'.files) <= MaxTasks
  BY <1>4, <1>5, <1>7, BatchAssumption
<1>9. QED
  BY <1>6, <1>8, PendingOnly DEF AddFiles

\* Applying a format changes the pending batch only, also while a run is going on.
LEMMA ApplyFormatKeeps ==
  ASSUME Inv, NEW c \in Category, NEW format \in Formats, ApplyFormat(c, format)
  PROVE  Inv' /\ FinalKept
<1>1. pending \in PendingType
  BY DEF Inv, TypeOK, PendingType
<1>2. pending' \in PendingType /\ pending'.files = pending.files
  BY <1>1 DEF ApplyFormat, PendingType
<1>3. QED
  BY <1>2, PendingOnly DEF ApplyFormat, Inv, BoundInv

\* Clearing the pending batch changes nothing else.
LEMMA ClearPendingBatchKeeps ==
  ASSUME Inv, ClearPendingBatch
  PROVE  Inv' /\ FinalKept
<1>1. pending' \in PendingType /\ Len(pending'.files) = 0
  BY DEF ClearPendingBatch, Reset, PendingType
<1>2. Len(task) \in Nat /\ Len(task) <= MaxTasks
  BY LenProperties DEF Inv, TypeOK
<1>3. QED
  BY <1>1, <1>2, PendingOnly DEF ClearPendingBatch

\* A step of an idle window that keeps the final tasks.
LEMMA IdleStep ==
  ASSUME Inv, ~busy, UNCHANGED <<runVars, conv, late, posts>>,
         task' \in Seq(Row), Len(task') <= MaxTasks, DOMAIN task \subseteq DOMAIN task',
         live' \subseteq DOMAIN task', FinalKept,
         \A t \in DOMAIN task' : task'[t].status # "Running",
         pending' \in PendingType, Len(task') + Len(pending'.files) <= MaxTasks
  PROVE  Inv'
<1>1. /\ busy' = busy /\ cancel' = cancel /\ todo' = todo
      /\ current' = current /\ conv' = conv /\ late' = late /\ posts' = posts
  BY DEF runVars
<1>2. /\ conv = "idle" /\ current = 0 /\ todo = {} /\ ~cancel
      /\ AllGone(posts, task) /\ \A t \in late : task[t].status \in Final
  BY IdleIsQuiet
<1>3. late \subseteq DOMAIN task /\ posts \in Seq(Post)
      /\ \A i \in DOMAIN posts : posts[i].task \in DOMAIN task
  BY DEF Inv, TypeOK, BoundInv
<1>4. TypeOK'
  <2>1. busy' = FALSE /\ cancel' = FALSE /\ todo' \subseteq live' /\ current' \in live' \cup {0}
        /\ late' \subseteq DOMAIN task' /\ posts' \in Seq(Post) /\ conv' = "idle" /\ current' = 0
    BY <1>1, <1>2, <1>3 DEF Inv, TypeOK
  <2>2. QED
    BY <2>1 DEF TypeOK, PendingType
<1>5. BoundInv'
  BY <1>1, <1>2, <1>3 DEF BoundInv
<1>6. QueueInv'
  BY <1>1, <1>2 DEF QueueInv
<1>7. AllGone(posts, task')
  BY <1>2, <1>3, GoneStays DEF FinalKept
<1>8. PostsInv(posts, task, current, conv)'
  BY <1>1, <1>7, GoneFits
<1>9. LateInv(late, posts, task, current, conv)'
  BY <1>1, <1>2, <1>3 DEF LateInv, FinalKept
<1>10. QED
  BY <1>4, <1>5, <1>6, <1>8, <1>9 DEF Inv

\* New tasks are waiting, and the old ones are as they were.
LEMMA EnqueuePendingBatchKeeps ==
  ASSUME Inv, EnqueuePendingBatch
  PROVE  Inv' /\ FinalKept
<1> DEFINE created == [i \in DOMAIN pending.files |-> CreateTask(pending.files[i])]
<1>1. /\ pending \in PendingType /\ task \in Seq(Row) /\ live \subseteq DOMAIN task
      /\ Len(task) + Len(pending.files) <= MaxTasks
  BY DEF Inv, TypeOK, BoundInv, PendingType
<1>2. pending.files \in Seq(File) /\ pending.category \in Category /\ pending.format \in Formats
  BY <1>1 DEF EnqueuePendingBatch, PendingType
<1>3. Len(pending.files) \in Nat /\ DOMAIN pending.files = 1 .. Len(pending.files)
      /\ Len(task) \in Nat /\ DOMAIN task = 1 .. Len(task)
  BY <1>1, <1>2, LenProperties
<1>4. \A i \in 1 .. Len(pending.files) :
        created[i] \in Row /\ created[i].status = "Pending"
  BY <1>2, <1>3, ElementOfSeq DEF CreateTask, Row, Status
<1>5. created = [i \in 1 .. Len(pending.files) |-> created[i]]
  BY <1>3
<1>6. task' = task \o created
  BY DEF EnqueuePendingBatch
<1> HIDE DEF created
<1>7. created \in Seq(Row) /\ Len(created) = Len(pending.files)
  <2>1. created \in [1 .. Len(pending.files) -> Row]
    BY <1>4, <1>5
  <2>2. QED
    BY <1>3, <2>1
<1>8. /\ task' \in Seq(Row) /\ Len(task') = Len(task) + Len(pending.files)
      /\ \A t \in 1 .. Len(task') :
           task'[t] = IF t <= Len(task) THEN task[t] ELSE created[t - Len(task)]
  <2> DEFINE both == task \o created
  <2>1. /\ both \in Seq(Row) /\ Len(both) = Len(task) + Len(created)
        /\ \A t \in 1 .. Len(task) + Len(created) :
             both[t] = IF t <= Len(task) THEN task[t] ELSE created[t - Len(task)]
    BY <1>1, <1>7, ConcatProperties
  <2>2. task' = both
    BY <1>6
  <2> HIDE DEF both
  <2>3. QED
    BY <1>7, <2>1, <2>2
<1>9. DOMAIN task' = 1 .. Len(task')
  BY <1>8, LenProperties
<1>10. DOMAIN task \subseteq DOMAIN task' /\ \A t \in DOMAIN task : task'[t] = task[t]
  BY <1>3, <1>8, <1>9
<1>11. \A t \in DOMAIN task' : task'[t].status # "Running"
  <2> SUFFICES ASSUME NEW t \in DOMAIN task' PROVE task'[t].status # "Running"
    OBVIOUS
  <2>1. CASE t \in DOMAIN task
    BY <1>10, <2>1, IdleIsQuiet DEF EnqueuePendingBatch
  <2>2. CASE t \notin DOMAIN task
    <3>1. t - Len(task) \in 1 .. Len(pending.files) /\ task'[t] = created[t - Len(task)]
      BY <1>3, <1>8, <1>9, <2>2
    <3>2. QED
      BY <1>4, <3>1
  <2>3. QED
    BY <2>1, <2>2
<1>12. live' \subseteq DOMAIN task'
  BY <1>1, <1>10 DEF EnqueuePendingBatch
<1>13. pending' \in PendingType /\ Len(pending'.files) = 0
  BY DEF EnqueuePendingBatch, Reset, PendingType
<1>14. FinalKept
  BY <1>10 DEF FinalKept
<1>15. Len(task') <= MaxTasks /\ Len(task') + Len(pending'.files) <= MaxTasks
  BY <1>1, <1>3, <1>8, <1>13, BatchAssumption
<1>16. QED
  BY <1>8, <1>10, <1>11, <1>12, <1>13, <1>14, <1>15, IdleStep DEF EnqueuePendingBatch

\* A retry touches failed tasks only, which no callback on its way is about.
LEMMA RetryFailedTasksKeeps ==
  ASSUME Inv, RetryFailedTasks
  PROVE  Inv' /\ FinalKept
<1> DEFINE chosen == HavingStatus(task, Retryable)
<1>1. /\ pending \in PendingType /\ task \in Seq(Row) /\ live \subseteq DOMAIN task
      /\ Len(task) + Len(pending.files) <= MaxTasks /\ Len(task) <= MaxTasks
  BY DEF Inv, TypeOK, BoundInv, PendingType
<1>2. \A t \in DOMAIN task : t \in chosen <=> t \in live /\ task[t].status = "Failed"
  BY <1>1, HavingStatusIs DEF Retryable
<1>3. task' = SetStatus(task, chosen, "Pending")
  BY DEF RetryFailedTasks
<1> HIDE DEF chosen
<1>4. /\ task' \in Seq(Row) /\ DOMAIN task' = DOMAIN task /\ Len(task') = Len(task)
      /\ \A t \in DOMAIN task :
           /\ t \in chosen => task'[t].status = "Pending"
           /\ t \notin chosen => task'[t] = task[t]
  BY <1>1, <1>3, SetStatusEffect DEF Status
<1>5. FinalKept
  BY <1>2, <1>4 DEF FinalKept, Final
<1>6. \A t \in DOMAIN task' : task'[t].status # "Running"
  BY <1>4, IdleIsQuiet DEF RetryFailedTasks
<1>7. QED
  BY <1>1, <1>4, <1>5, <1>6, IdleStep DEF RetryFailedTasks

\* Tasks leave the queue.
LEMMA RemovalKeeps ==
  ASSUME Inv, ClearTasks \/ \E t \in live : RemoveTask(t)
  PROVE  Inv' /\ FinalKept
<1>1. /\ ~busy /\ live' \subseteq live /\ task' = task /\ pending' = pending
      /\ UNCHANGED <<runVars, conv, late, posts>>
  BY DEF ClearTasks, RemoveTask
<1>2. /\ pending \in PendingType /\ task \in Seq(Row) /\ live \subseteq DOMAIN task
      /\ Len(task) + Len(pending.files) <= MaxTasks /\ Len(task) <= MaxTasks
  BY DEF Inv, TypeOK, BoundInv, PendingType
<1>3. FinalKept
  BY <1>1 DEF FinalKept
<1>4. \A t \in DOMAIN task' : task'[t].status # "Running"
  BY <1>1, IdleIsQuiet
<1>5. QED
  BY <1>1, <1>2, <1>3, <1>4, IdleStep

\* A stop is asked for.
LEMMA CancelConversionKeeps ==
  ASSUME Inv, CancelConversion
  PROVE  Inv' /\ FinalKept
<1>1. /\ pending' = pending /\ task' = task /\ live' = live /\ busy' = busy /\ cancel' = TRUE
      /\ todo' = todo /\ current' = current /\ conv' = conv /\ late' = late /\ posts' = posts
      /\ busy
  BY DEF CancelConversion
<1>2. TypeOK'
  BY <1>1, Zenon DEF Inv, TypeOK
<1>3. BoundInv' /\ QueueInv'
  BY <1>1, Zenon DEF Inv, BoundInv, QueueInv
<1>4. PostsInv(posts, task, current, conv)' /\ LateInv(late, posts, task, current, conv)'
  BY <1>1, Zenon DEF Inv
<1>5. QED
  BY <1>1, <1>2, <1>3, <1>4 DEF Inv, FinalKept

\* A step of the loop leaves the invariant, if nothing in the queue can change
\* anything any more.
LEMMA RunStep ==
  ASSUME Inv, Kept(task), Over \/ Going, UNCHANGED <<pending, live, late>>,
         posts' \in Seq(Post), AllGone(posts', task'),
         \A i \in DOMAIN posts' : posts'[i].task \in DOMAIN task,
         \A t \in late : task'[t].status \in Final
  PROVE  Inv' /\ FinalKept
<1>1. /\ pending \in PendingType /\ Len(task) <= MaxTasks
      /\ live \subseteq DOMAIN task /\ late \subseteq DOMAIN task
      /\ Len(task) + Len(pending.files) <= MaxTasks /\ DOMAIN task = 1 .. Len(task)
  BY LenProperties DEF Inv, TypeOK, BoundInv, PendingType
<1>2. task' \in Seq(Row) /\ Len(task') = Len(task) /\ DOMAIN task' = DOMAIN task
  BY DEF Kept
<1>3. FinalKept
  BY DEF Kept, FinalKept
<1>4. /\ busy' \in BOOLEAN /\ cancel' \in BOOLEAN /\ todo' \subseteq live
      /\ current' \in live \cup {0} /\ conv' \in {"idle", "ensure", "tool", "answered"}
      /\ busy' <=> conv' # "idle"
      /\ busy' <=> current' # 0
      /\ cancel' => busy'
      /\ ~busy' => todo' = {}
  <2>1. CASE Over
    BY <2>1 DEF Over
  <2>2. CASE Going
    <3>1. current' \in live /\ current' # 0
      BY <1>1, <2>2 DEF Going
    <3>2. cancel \in BOOLEAN
      BY DEF Inv, TypeOK
    <3>3. QED
      BY <2>2, <3>1, <3>2 DEF Going
  <2>3. QED
    BY <2>1, <2>2
<1>5. TypeOK'
  BY <1>1, <1>2, <1>4 DEF TypeOK, PendingType
<1>6. BoundInv'
  BY <1>1, <1>2, <1>4 DEF BoundInv
<1>7. QueueInv'
  <2>1. CASE Over
    BY <2>1 DEF Over, QueueInv
  <2>2. CASE Going
    BY <2>2 DEF Going, QueueInv
  <2>3. QED
    BY <2>1, <2>2
<1>8. PostsInv(posts, task, current, conv)'
  BY GoneFits
<1>9. LateInv(late, posts, task, current, conv)'
  BY DEF LateInv
<1>10. QED
  BY <1>3, <1>5, <1>6, <1>7, <1>8, <1>9 DEF Inv

\* A run begins, and may end at once.
LEMMA StartConversionKeeps ==
  ASSUME Inv, StartConversion
  PROVE  Inv' /\ FinalKept
<1>1. /\ ~busy /\ task \in Seq(Row) /\ live \subseteq DOMAIN task /\ posts \in Seq(Post)
      /\ late \subseteq DOMAIN task /\ \A i \in DOMAIN posts : posts[i].task \in DOMAIN task
      /\ Loop(task, PendingTasks) /\ UNCHANGED <<pending, live, late, posts>>
  BY DEF Inv, TypeOK, BoundInv, StartConversion
<1>2. /\ \A t \in DOMAIN task : task[t].status # "Running"
      /\ AllGone(posts, task) /\ \A t \in late : task[t].status \in Final
  BY <1>1, IdleIsQuiet
<1>3. PendingTasks \subseteq live
      /\ \A t \in DOMAIN task : t \in PendingTasks
                               <=> t \in live /\ task[t].status \in {"Pending", "Failed"}
  BY <1>1, HavingStatusIs DEF PendingTasks, HavingStatus
<1>4. \A t \in DOMAIN task : task[t].status \in Status
  BY <1>1, StatusOfTask
<1>5. Enterable(task, PendingTasks)
  BY <1>1, <1>2, <1>3, <1>4 DEF Enterable, Settled, Status
<1>6. Kept(task) /\ (Over \/ Going)
  BY <1>1, <1>5, LoopEffect
<1>7. AllGone(posts', task') /\ \A t \in late : task'[t].status \in Final
  BY <1>1, <1>2, <1>6, GoneStays DEF Kept
<1>8. QED
  BY <1>1, <1>6, <1>7, RunStep

\* The loop continues with the answer at the head of the queue.
LEMMA ContinueEffect ==
  ASSUME Inv, posts # << >>, Head(posts).kind # "progress", Continue(Head(posts).status)
  PROVE  /\ Kept(task) /\ (Over \/ Going) /\ conv = "answered"
         /\ Head(posts).status \in Final => task'[current].status = Head(posts).status
<1> DEFINE result == Head(posts).status
           tasks == SetStatus(task, {current}, result)
<1>1. /\ task \in Seq(Row) /\ live \subseteq DOMAIN task /\ todo \subseteq live
      /\ posts \in Seq(Post) /\ DOMAIN task = 1 .. Len(task) /\ current \in live \cup {0}
      /\ busy <=> conv # "idle"
      /\ busy <=> current # 0
  BY LenProperties DEF Inv, TypeOK
<1>2. 1 \in DOMAIN posts /\ Head(posts) = posts[1]
  BY <1>1, Taken
<1>3. 1 \in Answering(posts)
  BY <1>2 DEF Answering
<1>4. /\ conv = "answered" /\ result \in Settled
      /\ task[current].status \in {"Running", result}
  BY <1>2, <1>3 DEF Inv, PostsInv, AnswerFits
<1>5. busy /\ current \in DOMAIN task /\ current \in live
  BY <1>1, <1>4
<1>6. IF cancel /\ result # "Succeeded" THEN Finish(AfterStop(tasks)) ELSE Loop(tasks, todo)
  BY DEF Continue
<1>7. /\ tasks \in Seq(Row) /\ DOMAIN tasks = DOMAIN task /\ Len(tasks) = Len(task)
      /\ \A t \in DOMAIN task :
           /\ t = current => tasks[t].status = result
           /\ t # current => tasks[t] = task[t]
  <2>1. result \in Status
    BY <1>4 DEF Settled, Status
  <2>2. QED
    BY <1>1, <2>1, SetStatusEffect
<1> HIDE DEF result, tasks
<1>8. \A t \in todo : t > current /\ task[t].status \in {"Pending", "Failed"}
  BY DEF Inv, QueueInv
<1>9. current \notin todo /\ \A t \in todo : t # current
  BY <1>1, <1>5, <1>8
<1>10. Enterable(tasks, todo)
  <2>1. \A t \in todo : tasks[t].status \in {"Pending", "Failed"}
    BY <1>1, <1>7, <1>8, <1>9
  <2>2. \A t \in live \ todo : tasks[t].status \in Settled
    BY <1>1, <1>4, <1>5, <1>7 DEF Inv, QueueInv
  <2>3. \A t \in DOMAIN tasks : tasks[t].status # "Running"
    BY <1>4, <1>7 DEF Inv, QueueInv, Settled
  <2>4. QED
    BY <1>1, <1>7, <2>1, <2>2, <2>3 DEF Enterable
<1>11. Kept(tasks) /\ (Over \/ Going)
  <2>1. CASE cancel /\ result # "Succeeded"
    <3>1. Finish(MarkUnfinishedTasksAsCancelled(tasks))
      BY <1>6, <2>1 DEF AfterStop
    <3>2. QED
      BY <1>10, <3>1, StopEnds DEF Enterable
  <2>2. CASE ~(cancel /\ result # "Succeeded")
    BY <1>6, <1>10, <2>2, LoopEffect
  <2>3. QED
    BY <2>1, <2>2
<1>12. \A t \in DOMAIN task : task[t].status \in Final => tasks[t].status = task[t].status
  BY <1>4, <1>7 DEF Final
<1>13. Kept(task)
  BY <1>7, <1>11, <1>12 DEF Kept
<1>14. result \in Final => task'[current].status = result
  BY <1>5, <1>7, <1>11 DEF Kept
<1>15. QED
  BY <1>4, <1>11, <1>13, <1>14 DEF result

\* The awaited task is one of the queue and runs until its answer is there.
LEMMA AwaitedRuns ==
  ASSUME Inv, conv \in {"ensure", "tool"}
  PROVE  /\ busy /\ current \in DOMAIN task /\ task[current].status = "Running"
         /\ Answering(posts) = {} /\ current \in 1 .. MaxTasks
<1>1. busy /\ current \in live /\ live \subseteq DOMAIN task /\ DOMAIN task = 1 .. Len(task)
      /\ Len(task) <= MaxTasks /\ Len(task) \in Nat
  BY LenProperties DEF Inv, TypeOK
<1>2. Answering(posts) = {}
  BY DEF Inv, PostsInv, AnswerFits
<1>3. QED
  BY <1>1, <1>2, BatchAssumption DEF Inv, QueueInv

\* The converter answers.
LEMMA AnswerKeeps ==
  ASSUME Inv, conv \in {"ensure", "tool"}, NEW result \in Settled, Answer(result),
         late' = late \/ (result = "Cancelled" /\ late' = late \cup {current})
  PROVE  Inv' /\ FinalKept
<1> DEFINE p == [kind |-> "answer", task |-> current, status |-> result]
<1>1. /\ pending' = pending /\ task' = task /\ live' = live /\ busy' = busy /\ cancel' = cancel
      /\ todo' = todo /\ current' = current /\ conv' = "answered" /\ posts' = Append(posts, p)
  BY DEF Answer, runVars
<1>2. /\ busy /\ current \in DOMAIN task /\ task[current].status = "Running"
      /\ Answering(posts) = {} /\ current \in 1 .. MaxTasks
  BY AwaitedRuns
<1>3. posts \in Seq(Post) /\ late \subseteq DOMAIN task
      /\ \A i \in DOMAIN posts : posts[i].task \in DOMAIN task
  BY DEF Inv, TypeOK, BoundInv
<1>4. p \in Post /\ p.kind = "answer" /\ p.task = current /\ p.status = result
  BY <1>2 DEF Post, Settled, Status
<1> HIDE DEF p
<1>5. /\ posts' \in Seq(Post)
      /\ \A i \in DOMAIN posts' : (i \in DOMAIN posts /\ posts'[i] = posts[i]) \/ posts'[i] = p
  BY <1>1, <1>3, <1>4, Appended
<1>6. TypeOK'
  <2>1. late' \subseteq DOMAIN task
    BY <1>2, <1>3
  <2>2. QED
    BY <1>1, <1>2, <1>5, <2>1 DEF Inv, TypeOK
<1>7. BoundInv'
  BY <1>1, <1>2, <1>3, <1>4, <1>5 DEF Inv, BoundInv
<1>8. QueueInv'
  BY <1>1 DEF Inv, QueueInv
<1>9. PostsInv(posts, task, current, conv)'
  <2>1. PostsInv(posts, task, current, conv) /\ conv # "answered"
    BY DEF Inv
  <2>2. PostsInv(Append(posts, p), task, current, "answered")
    BY <1>2, <1>3, <1>4, <2>1, AnswerJoins
  <2>3. QED
    BY <1>1, <2>2, Zenon
<1>10. LateInv(late, posts, task, current, conv)'
  <2> SUFFICES ASSUME NEW t \in late'
               PROVE  \/ task[t].status \in Final
                      \/ /\ t = current /\ task[t].status = "Running"
                         /\ \A i \in Answering(posts') : posts'[i].status = "Cancelled"
    BY <1>1 DEF LateInv
  <2>1. CASE t \in late
    BY <2>1 DEF Inv, LateInv
  <2>2. CASE t \notin late
    <3>1. result = "Cancelled" /\ t = current
      BY <2>2
    <3>2. \A i \in Answering(posts') : posts'[i] = p
      BY <1>2, <1>5 DEF Answering
    <3>3. QED
      BY <1>2, <1>4, <3>1, <3>2
  <2>3. QED
    BY <2>1, <2>2
<1>11. QED
  BY <1>1, <1>6, <1>7, <1>8, <1>9, <1>10 DEF Inv, FinalKept

\* The executable is there.
LEMMA EnsureAvailableKeeps ==
  ASSUME Inv, EnsureAvailable
  PROVE  Inv' /\ FinalKept
<1>1. /\ pending' = pending /\ task' = task /\ live' = live /\ busy' = busy /\ cancel' = cancel
      /\ todo' = todo /\ current' = current /\ conv = "ensure" /\ conv' = "tool"
      /\ late' = late /\ posts' = posts
  BY DEF EnsureAvailable, runVars
<1>2. busy /\ Answering(posts) = {} /\ task[current].status = "Running"
  BY <1>1, AwaitedRuns
<1>3. TypeOK'
  BY <1>1, <1>2 DEF Inv, TypeOK
<1>4. BoundInv' /\ QueueInv'
  BY <1>1, <1>2 DEF Inv, BoundInv, QueueInv
<1>5. PostsInv(posts, task, current, conv)'
  BY <1>1, <1>2 DEF Inv, PostsInv, CallbackFits
<1>6. LateInv(late, posts, task, current, conv)'
  BY <1>1 DEF Inv, LateInv
<1>7. QED
  BY <1>1, <1>3, <1>4, <1>5, <1>6 DEF Inv, FinalKept

\* A line of output of the awaited task, or of a killed tool, is posted.
LEMMA ReportKeeps ==
  ASSUME Inv, NEW t \in DOMAIN task,
         posts' = Append(posts, [kind |-> "progress", task |-> t, status |-> "Running"]),
         UNCHANGED <<pending, task, live, runVars, conv>>, late' \subseteq late,
         \/ task[t].status \in Final
         \/ /\ t = current /\ task[t].status = "Running"
            /\ \A i \in Answering(posts) : posts[i].status = "Cancelled"
  PROVE  Inv' /\ FinalKept
<1> DEFINE p == [kind |-> "progress", task |-> t, status |-> "Running"]
<1>1. /\ pending' = pending /\ task' = task /\ live' = live /\ busy' = busy /\ cancel' = cancel
      /\ todo' = todo /\ current' = current /\ conv' = conv /\ posts' = Append(posts, p)
  BY DEF runVars
<1>2. posts \in Seq(Post) /\ late \subseteq DOMAIN task /\ t \in 1 .. MaxTasks
      /\ \A i \in DOMAIN posts : posts[i].task \in DOMAIN task
  <2>1. DOMAIN task = 1 .. Len(task) /\ Len(task) \in Nat /\ Len(task) <= MaxTasks
    BY LenProperties DEF Inv, TypeOK
  <2>2. QED
    BY <2>1, BatchAssumption DEF Inv, TypeOK, BoundInv
<1>3. p \in Post /\ p.kind = "progress" /\ p.task = t /\ p.status = "Running"
  BY <1>2 DEF Post, Status
<1> HIDE DEF p
<1>4. /\ posts' \in Seq(Post)
      /\ \A i \in DOMAIN posts' : (i \in DOMAIN posts /\ posts'[i] = posts[i]) \/ posts'[i] = p
  BY <1>1, <1>2, <1>3, Appended
<1>5. TypeOK'
  BY <1>1, <1>2, <1>4, Zenon DEF Inv, TypeOK
<1>6. BoundInv'
  BY <1>1, <1>2, <1>3, <1>4 DEF Inv, BoundInv
<1>7. QueueInv'
  BY <1>1 DEF Inv, QueueInv
<1>8. PostsInv(posts, task, current, conv)'
  <2>1. PostsInv(Append(posts, p), task, current, conv)
    BY <1>2, <1>3, ReportJoins DEF Inv, Gone
  <2>2. QED
    BY <1>1, <2>1, Zenon
<1>9. LateInv(late, posts, task, current, conv)'
  <2>1. \A i \in Answering(posts') : i \in Answering(posts) /\ posts'[i] = posts[i]
    BY <1>3, <1>4 DEF Answering
  <2>2. QED
    BY <1>1, <2>1 DEF Inv, LateInv
<1>10. QED
  BY <1>1, <1>5, <1>6, <1>7, <1>8, <1>9 DEF Inv, FinalKept

\* The converter's steps keep the invariant.
LEMMA ConverterStepKeeps ==
  ASSUME Inv, ConverterStep
  PROVE  Inv' /\ FinalKept
<1>1. CASE EnsureAvailable
  BY <1>1, EnsureAvailableKeeps
<1>2. CASE EnsureFails
  BY <1>2, AnswerKeeps DEF EnsureFails, Settled
<1>3. CASE EnsureStopped
  BY <1>3, AnswerKeeps DEF EnsureStopped, Settled
<1>4. CASE Report
  <2>1. current \in DOMAIN task /\ task[current].status = "Running" /\ Answering(posts) = {}
    BY <1>4, AwaitedRuns DEF Report
  <2>2. QED
    BY <1>4, <2>1, ReportKeeps DEF Report
<1>5. CASE ToolExits
  BY <1>5, AnswerKeeps DEF ToolExits, Settled
<1>6. CASE ToolKilled
  <2>1. late' = late \/ late' = late \cup {current}
    BY <1>6 DEF ToolKilled
  <2>2. QED
    BY <1>6, <2>1, AnswerKeeps DEF ToolKilled, Settled
<1>7. ASSUME NEW t \in late, LateReport(t)
      PROVE  Inv' /\ FinalKept
  <2>1. t \in DOMAIN task
    BY DEF Inv, TypeOK
  <2>2. \/ task[t].status \in Final
        \/ /\ t = current /\ task[t].status = "Running"
           /\ \A i \in Answering(posts) : posts[i].status = "Cancelled"
    BY DEF Inv, LateInv
  <2>3. QED
    BY <1>7, <2>1, <2>2, ReportKeeps DEF LateReport
<1>8. QED
  BY <1>1, <1>2, <1>3, <1>4, <1>5, <1>6, <1>7 DEF ConverterStep

\* The dispatcher takes a callback: it shows the awaited task's state, or
\* changes nothing.
LEMMA DispatchProgressKeeps ==
  ASSUME Inv, DispatchProgress
  PROVE  Inv' /\ FinalKept
<1> DEFINE p == Head(posts)
           rest == Tail(posts)
<1>1. /\ pending' = pending /\ live' = live /\ busy' = busy /\ cancel' = cancel
      /\ todo' = todo /\ current' = current /\ conv' = conv /\ late' = late
      /\ posts' = rest /\ posts # << >> /\ p.kind = "progress"
      /\ task' = IF Shown(p) THEN SetStatus(task, {p.task}, p.status) ELSE task
  BY DEF DispatchProgress, runVars
<1>2. /\ posts \in Seq(Post) /\ task \in Seq(Row) /\ late \subseteq DOMAIN task
      /\ live \subseteq DOMAIN task /\ todo \subseteq live /\ DOMAIN task \subseteq Nat
      /\ \A i \in DOMAIN posts : posts[i].task \in DOMAIN task
      /\ PostsInv(posts, task, current, conv)
  BY LenProperties DEF Inv, TypeOK, BoundInv
<1>3. /\ rest \in Seq(Post) /\ p \in Post /\ 1 \in DOMAIN posts /\ p = posts[1]
      /\ \A i \in DOMAIN rest : i + 1 \in DOMAIN posts /\ rest[i] = posts[i + 1]
  BY <1>1, <1>2, Taken
<1>4. /\ PostsInv(rest, task, current, conv)
      /\ \A i \in Answering(rest) : i + 1 \in Answering(posts) /\ rest[i] = posts[i + 1]
  BY <1>1, <1>2, TailFits
<1> HIDE DEF p, rest
<1>5. \A i \in DOMAIN rest : rest[i].task \in DOMAIN task
  BY <1>2, <1>3
<1>6. CASE ~Shown(p)
  <2>1. task' = task
    BY <1>1, <1>6
  <2>2. TypeOK'
    BY <1>1, <1>3, <2>1, Zenon DEF Inv, TypeOK
  <2>3. BoundInv'
    BY <1>1, <1>5, <2>1, Zenon DEF Inv, BoundInv
  <2>4. QueueInv'
    BY <1>1, <2>1, Zenon DEF Inv, QueueInv
  <2>5. PostsInv(posts, task, current, conv)'
    BY <1>1, <1>4, <2>1, Zenon
  <2>6. LateInv(late, posts, task, current, conv)'
    BY <1>1, <1>4, <2>1 DEF Inv, LateInv
  <2>7. QED
    BY <2>1, <2>2, <2>3, <2>4, <2>5, <2>6 DEF Inv, FinalKept
<1>7. CASE Shown(p)
  <2>1. 1 \in Calling(posts) /\ ~Gone(p, task)
    BY <1>1, <1>3, <1>7 DEF Calling, Shown, Gone, Final, Settled
  <2>2. /\ p.task = current /\ task[current].status = "Running" /\ current \in DOMAIN task
        /\ p.status \in Final \cup {"Running"}
        /\ p.status # "Running" => conv = "answered"
    BY <1>2, <1>3, <2>1 DEF PostsInv, CallbackFits
  <2>3. /\ task' \in Seq(Row) /\ DOMAIN task' = DOMAIN task /\ Len(task') = Len(task)
        /\ task'[current].status = p.status
        /\ \A t \in DOMAIN task : t # current => task'[t] = task[t]
    <3>1. task' = SetStatus(task, {current}, p.status) /\ p.status \in Status
      BY <1>1, <1>7, <2>2 DEF Final, Status
    <3>2. QED
      BY <1>2, <2>2, <3>1, SetStatusEffect
  <2>4. \A j \in Answering(rest) : p.status # "Running" => rest[j].status = p.status
    <3> SUFFICES ASSUME NEW j \in Answering(rest), p.status # "Running"
                 PROVE  rest[j].status = p.status
      OBVIOUS
    <3>1. j + 1 \in Answering(posts) /\ rest[j] = posts[j + 1]
      BY <1>4
    <3>2. Agree(posts, 1, j + 1)
      BY <1>2, <1>3, <2>1, <3>1 DEF PostsInv
    <3>3. QED
      BY <1>3, <3>1, <3>2 DEF Agree
  <2>5. TypeOK'
    BY <1>1, <1>3, <2>3, Zenon DEF Inv, TypeOK
  <2>6. BoundInv'
    BY <1>1, <1>5, <2>3 DEF Inv, BoundInv
  <2>7. QueueInv'
    <3>1. \A t \in DOMAIN task' : task'[t].status = "Running" => t = current
      BY <2>3 DEF Inv, QueueInv
    <3>2. \A t \in todo : t > current /\ task'[t].status \in {"Pending", "Failed"}
      <4> SUFFICES ASSUME NEW t \in todo
                   PROVE  t > current /\ task'[t].status \in {"Pending", "Failed"}
        OBVIOUS
      <4>1. t > current /\ task[t].status \in {"Pending", "Failed"} /\ t \in DOMAIN task
        BY <1>2 DEF Inv, QueueInv
      <4>2. t # current
        BY <2>2, <4>1
      <4>3. QED
        BY <2>3, <4>1, <4>2
    <3>3. busy => \A t \in live : t \in todo \/ t = current \/ task'[t].status \in Settled
      BY <1>2, <2>3 DEF Inv, QueueInv
    <3>4. conv \in {"ensure", "tool"} => task'[current].status = "Running"
      BY <2>2, <2>3
    <3>5. QED
      BY <1>1, <3>1, <3>2, <3>3, <3>4 DEF QueueInv
  <2>8. PostsInv(posts, task, current, conv)'
    <3>1. PostsInv(rest, task', current, conv)
      BY <1>4, <1>5, <2>2, <2>3, <2>4, CallbackShown
    <3>2. QED
      BY <1>1, <3>1, Zenon
  <2>9. LateInv(late, posts, task, current, conv)'
    <3> SUFFICES ASSUME NEW t \in late
                 PROVE  \/ task'[t].status \in Final
                        \/ /\ t = current /\ conv = "answered" /\ task'[t].status = "Running"
                           /\ \A i \in Answering(rest) : rest[i].status = "Cancelled"
      BY <1>1 DEF LateInv
    <3>1. CASE task[t].status \in Final
      BY <1>2, <2>2, <2>3, <3>1 DEF Final
    <3>2. CASE task[t].status \notin Final
      <4>1. /\ t = current /\ conv = "answered"
            /\ \A i \in Answering(posts) : posts[i].status = "Cancelled"
        BY <3>2 DEF Inv, LateInv
      <4>2. QED
        BY <1>4, <2>2, <2>3, <4>1
    <3>3. QED
      BY <3>1, <3>2
  <2>10. FinalKept
    BY <2>2, <2>3 DEF FinalKept, Final
  <2>11. QED
    BY <2>5, <2>6, <2>7, <2>8, <2>9, <2>10 DEF Inv
<1>8. QED
  BY <1>6, <1>7

\* What the head is when it answers, and what it says of the killed tools.
LEMMA HeadAnswers ==
  ASSUME Inv, posts # << >>, Head(posts).kind # "progress"
  PROVE  /\ Head(posts) \in Post /\ Head(posts).status \in Settled
         /\ Head(posts).task = current /\ conv = "answered" /\ current \in DOMAIN task
         /\ \A t \in late : \/ task[t].status \in Final
                            \/ t = current /\ Head(posts).status = "Cancelled"
<1>1. posts \in Seq(Post) /\ \A i \in DOMAIN posts : posts[i].task \in DOMAIN task
  BY DEF Inv, TypeOK, BoundInv
<1>2. Head(posts) \in Post /\ 1 \in DOMAIN posts /\ Head(posts) = posts[1]
  BY <1>1, Taken
<1>3. 1 \in Answering(posts)
  BY <1>2 DEF Answering
<1>4. AnswerFits(posts[1], task, current, conv)
  BY <1>3 DEF Inv, PostsInv
<1>5. \A t \in late : \/ task[t].status \in Final
                      \/ t = current /\ posts[1].status = "Cancelled"
  BY <1>3 DEF Inv, LateInv
<1>6. QED
  BY <1>1, <1>2, <1>4, <1>5 DEF AnswerFits

\* The loop continues, and what was before and behind the answer is gone.
LEMMA ContinueKeeps ==
  ASSUME Inv, posts # << >>, Head(posts).kind # "progress", Continue(Head(posts).status),
         posts' \in {Tail(posts), Reported(Tail(posts), Head(posts))},
         UNCHANGED <<pending, live, late>>
  PROVE  Inv' /\ FinalKept
<1>1. /\ posts \in Seq(Post) /\ late \subseteq DOMAIN task
      /\ \A i \in DOMAIN posts : posts[i].task \in DOMAIN task
      /\ PostsInv(posts, task, current, conv)
  BY DEF Inv, TypeOK, BoundInv
<1>2. /\ Kept(task) /\ (Over \/ Going) /\ conv = "answered"
      /\ Head(posts).status \in Final => task'[current].status = Head(posts).status
  BY ContinueEffect
<1>3. /\ \A t \in DOMAIN task :
           task[t].status \in Final => task'[t].status = task[t].status
      /\ PostsInv(posts, task, current, "answered")
  BY <1>1, <1>2 DEF Kept
<1>4. /\ AllGone(Tail(posts), task')
      /\ AllGone(Reported(Tail(posts), Head(posts)), task')
      /\ Reported(Tail(posts), Head(posts)) \in Seq(Post)
      /\ \A i \in DOMAIN Reported(Tail(posts), Head(posts)) :
           Reported(Tail(posts), Head(posts))[i].task \in DOMAIN task
  <2>1. posts \in Seq(Post) /\ posts # << >> /\ Head(posts).kind # "progress"
    BY <1>1
  <2>2. \A i \in DOMAIN posts : posts[i].task \in DOMAIN task
    BY <1>1
  <2>3. Head(posts).status \in Final => task'[current].status = Head(posts).status
    BY <1>2
  <2>4. QED
    BY <1>3, <2>1, <2>2, <2>3, AnswerContinues
<1>5. /\ Tail(posts) \in Seq(Post)
      /\ \A i \in DOMAIN Tail(posts) : i + 1 \in DOMAIN posts /\ Tail(posts)[i] = posts[i + 1]
  BY <1>1, Taken
<1>6. posts' \in Seq(Post) /\ AllGone(posts', task')
  BY <1>4, <1>5
<1>7. \A i \in DOMAIN posts' : posts'[i].task \in DOMAIN task
  <2>1. CASE posts' = Tail(posts)
    BY <1>1, <1>5, <2>1
  <2>2. CASE posts' = Reported(Tail(posts), Head(posts))
    BY <1>1, <1>4, <2>2
  <2>3. QED
    BY <2>1, <2>2
<1>8. \A t \in late : task'[t].status \in Final
  BY <1>1, <1>2, <1>3, HeadAnswers DEF Final
<1>9. QED
  BY <1>2, <1>6, <1>7, <1>8, RunStep

\* The converter's end is dispatched.
LEMMA DispatchAnswerKeeps ==
  ASSUME Inv, DispatchAnswer
  PROVE  Inv' /\ FinalKept
<1> DEFINE done == [Head(posts) EXCEPT !.kind = "done"]
           r == Append(Reported(Tail(posts), Head(posts)), done)
<1>1. /\ posts # << >> /\ Head(posts).kind = "answer"
      /\ UNCHANGED <<pending, live, late>>
  BY DEF DispatchAnswer
<1>2. CASE /\ posts' = Reported(Tail(posts), Head(posts))
           /\ Continue(Head(posts).status)
  BY <1>1, <1>2, ContinueKeeps
<1>3. CASE posts' = r /\ UNCHANGED <<task, runVars, conv>>
  <2>1. /\ pending' = pending /\ task' = task /\ live' = live /\ busy' = busy
        /\ cancel' = cancel /\ todo' = todo /\ current' = current /\ conv' = conv
        /\ late' = late /\ posts' = r
    BY <1>1, <1>3 DEF runVars
  <2>2. /\ Head(posts).status \in Settled /\ conv = "answered" /\ current \in DOMAIN task
        /\ \A t \in late : \/ task[t].status \in Final
                           \/ t = current /\ Head(posts).status = "Cancelled"
    BY <1>1, HeadAnswers
  <2>3. /\ posts \in Seq(Post) /\ PostsInv(posts, task, current, "answered")
        /\ \A i \in DOMAIN posts : posts[i].task \in DOMAIN task
    BY <2>2 DEF Inv, TypeOK, BoundInv
  <2>4. /\ r \in Seq(Post) /\ PostsInv(r, task, current, "answered")
        /\ \A i \in Answering(r) : r[i].status = Head(posts).status
        /\ \A i \in DOMAIN r : r[i].task \in DOMAIN task
    <3>1. Head(posts).status \in Settled
      BY <2>2
    <3>2. QED
      BY <1>1, <2>3, <3>1, AnswerPassesOn
  <2> HIDE DEF r
  <2>5. TypeOK'
    BY <2>1, <2>4, Zenon DEF Inv, TypeOK
  <2>6. BoundInv'
    BY <2>1, <2>2, <2>3, <2>4 DEF Inv, BoundInv
  <2>7. QueueInv'
    BY <2>1, Zenon DEF Inv, QueueInv
  <2>8. PostsInv(posts, task, current, conv)'
    BY <2>1, <2>2, <2>4
  <2>9. LateInv(late, posts, task, current, conv)'
    BY <2>1, <2>2, <2>4 DEF Inv, LateInv
  <2>10. QED
    BY <2>1, <2>5, <2>6, <2>7, <2>8, <2>9 DEF Inv, FinalKept
<1>4. QED
  BY <1>2, <1>3 DEF DispatchAnswer

\* The dispatcher's steps keep the invariant.
LEMMA DispatchKeeps ==
  ASSUME Inv, Dispatch
  PROVE  Inv' /\ FinalKept
<1>1. CASE DispatchProgress
  BY <1>1, DispatchProgressKeeps
<1>2. CASE DispatchAnswer
  BY <1>2, DispatchAnswerKeeps
<1>3. CASE DispatchDone
  BY <1>3, ContinueKeeps DEF DispatchDone
<1>4. QED
  BY <1>1, <1>2, <1>3 DEF Dispatch

\* Every step keeps the invariant and what is final.
LEMMA StepKeeps ==
  ASSUME Inv, [Next]_vars
  PROVE  Inv' /\ FinalKept
<1>1. CASE PendingCommand
  <2>1. ASSUME NEW f \in File, NEW format \in Formats, AddFiles(f, format)
        PROVE  Inv' /\ FinalKept
    BY <2>1, AddFilesKeeps
  <2>2. ASSUME NEW c \in Category, NEW format \in Formats, ApplyFormat(c, format)
        PROVE  Inv' /\ FinalKept
    BY <2>2, ApplyFormatKeeps
  <2>3. QED
    BY <1>1, <2>1, <2>2, ClearPendingBatchKeeps, EnqueuePendingBatchKeeps
    DEF PendingCommand
<1>2. CASE QueueCommand
  BY <1>2, RetryFailedTasksKeeps, RemovalKeeps, StartConversionKeeps, CancelConversionKeeps
  DEF QueueCommand
<1>3. CASE ConverterStep
  BY <1>3, ConverterStepKeeps
<1>4. CASE Dispatch
  BY <1>4, DispatchKeeps
<1>5. CASE UNCHANGED vars
  <2>1. /\ pending' = pending /\ task' = task /\ UNCHANGED <<task, live, runVars, conv, late, posts>>
    BY <1>5 DEF vars
  <2>2. pending \in PendingType /\ Len(task) + Len(pending.files) <= MaxTasks
    BY DEF Inv, TypeOK, BoundInv, PendingType
  <2>3. QED
    BY <2>1, <2>2, PendingOnly
<1>6. QED
  BY <1>1, <1>2, <1>3, <1>4, <1>5 DEF Next

-----------------------------------------------------------------------------
(* The theorems.                                                            *)

\* The inductive invariant of the window's queue.
LEMMA Invariant == Spec => []Inv
<1>1. Inv /\ [Next]_vars => Inv'
  BY StepKeeps
<1>2. QED
  BY InitInv, <1>1, PTL DEF Spec

\* Every variable of MainViewModel's queue keeps its type: the awaited task and
\* the waiting ones are queued tasks, and an idle window has no run left.
THEOREM Typed == Spec => []TypeOK
<1>1. Inv => TypeOK
  BY DEF Inv
<1>2. QED
  BY Invariant, <1>1, PTL

\* Only the awaited task is shown as running, whatever callback of an earlier
\* conversion is still on its way (the progress callback of StartConversion).
THEOREM AwaitedIsTheOnlyOneRunning == Spec => []OnlyCurrentRuns
<1>1. Inv => OnlyCurrentRuns
  <2> SUFFICES ASSUME Inv, NEW t \in DOMAIN task, task[t].status = "Running"
               PROVE  busy /\ t = current
    BY DEF OnlyCurrentRuns
  <2>1. t = current
    BY DEF Inv, QueueInv
  <2>2. busy
    BY IdleIsQuiet
  <2>3. QED
    BY <2>1, <2>2
<1>2. QED
  BY Invariant, <1>1, PTL

\* The tasks are converted in the order of the batches: the earlier ones are
\* settled, the later ones of the run untouched (the loop of StartConversion).
THEOREM ConvertedInOrder == Spec => []InOrder
<1>1. Inv => InOrder
  <2> SUFFICES ASSUME Inv, busy
               PROVE  /\ \A t \in live : t < current => task[t].status \in Settled
                      /\ \A t \in todo : /\ t > current
                                         /\ task[t].status \in {"Pending", "Failed"}
    BY DEF InOrder
  <2>1. \A t \in todo : t > current /\ task[t].status \in {"Pending", "Failed"}
    BY DEF Inv, QueueInv
  <2>2. live \subseteq Nat /\ current \in Nat /\ todo \subseteq live
    BY LenProperties DEF Inv, TypeOK
  <2>3. ASSUME NEW t \in live, t < current
        PROVE  task[t].status \in Settled
    <3>1. t \in Nat /\ t # current
      BY <2>2, <2>3
    <3>2. t \notin todo
      BY <2>1, <2>2, <2>3, <3>1
    <3>3. QED
      BY <3>1, <3>2 DEF Inv, QueueInv
  <2>4. QED
    BY <2>1, <2>3
<1>2. QED
  BY Invariant, <1>1, PTL

\* A succeeded or stopped task never changes again (RetryFailedTasks, the
\* filter of pendingTasks, the progress callback and the two marking loops).
THEOREM FinalForEver == Spec => SettledIsFinal
<1>1. Inv /\ [Next]_vars
        => [\A t \in DOMAIN task :
              task[t].status \in {"Succeeded", "Cancelled"}
                => task'[t].status = task[t].status]_vars
  BY StepKeeps DEF FinalKept, Final
<1>2. QED
  BY Invariant, <1>1, PTL DEF Spec, SettledIsFinal

\* Only the loop moves a run on, and it leaves it over or going.
LEMMA RunMoves ==
  ASSUME Inv, [Next]_vars
  PROVE  (busy' = busy /\ current' = current) \/ Over \/ Going
<1>1. CASE PendingCommand
  BY <1>1 DEF PendingCommand, AddFiles, ApplyFormat, ClearPendingBatch,
              EnqueuePendingBatch, runVars
<1>2. CASE QueueCommand
  <2>1. CASE StartConversion
    <3>1. /\ ~busy /\ task \in Seq(Row) /\ live \subseteq DOMAIN task
          /\ Loop(task, PendingTasks)
      BY <2>1 DEF Inv, TypeOK, StartConversion
    <3>2. \A t \in DOMAIN task : task[t].status # "Running"
      BY <3>1, IdleIsQuiet
    <3>3. PendingTasks \subseteq live
          /\ \A t \in DOMAIN task : t \in PendingTasks
                                   <=> t \in live /\ task[t].status \in {"Pending", "Failed"}
      BY <3>1, HavingStatusIs DEF PendingTasks, HavingStatus
    <3>4. \A t \in DOMAIN task : task[t].status \in Status
      BY <3>1, StatusOfTask
    <3>5. Enterable(task, PendingTasks)
      BY <3>1, <3>2, <3>3, <3>4 DEF Enterable, Settled, Status
    <3>6. QED
      BY <3>1, <3>5, LoopEffect
  <2>2. CASE RetryFailedTasks \/ ClearTasks \/ CancelConversion
    BY <2>2 DEF RetryFailedTasks, ClearTasks, CancelConversion, runVars
  <2>3. CASE \E t \in live : RemoveTask(t)
    BY <2>3 DEF RemoveTask, runVars
  <2>4. QED
    BY <1>2, <2>1, <2>2, <2>3 DEF QueueCommand
<1>3. CASE ConverterStep
  BY <1>3 DEF ConverterStep, EnsureAvailable, EnsureFails, EnsureStopped, Report,
              ToolExits, ToolKilled, LateReport, Answer, runVars
<1>4. CASE Dispatch
  <2>1. CASE DispatchProgress
    BY <2>1 DEF DispatchProgress, runVars
  <2>2. CASE DispatchDone
    BY <2>2, ContinueEffect DEF DispatchDone
  <2>3. CASE DispatchAnswer
    <3>1. posts # << >> /\ Head(posts).kind # "progress"
      BY <2>3 DEF DispatchAnswer
    <3>2. UNCHANGED runVars \/ Continue(Head(posts).status)
      BY <2>3 DEF DispatchAnswer
    <3>3. QED
      BY <3>1, <3>2, ContinueEffect DEF runVars
  <2>4. QED
    BY <1>4, <2>1, <2>2, <2>3 DEF Dispatch
<1>5. CASE UNCHANGED vars
  BY <1>5 DEF vars, runVars
<1>6. QED
  BY <1>1, <1>2, <1>3, <1>4, <1>5 DEF Next

\* A run that ends leaves no queued task waiting or running (the three ways
\* out of the loop of StartConversion).
THEOREM EndedRunIsSettled == Spec => RunSettles
<1>1. ASSUME Inv, [Next]_vars, busy, ~busy'
      PROVE  HavingStatus(task', Unfinished) = {}
  <2>1. Over
    BY <1>1, RunMoves DEF Going
  <2>2. \A t \in live : task'[t].status \notin Unfinished
    BY <2>1 DEF Over, Settled, Unfinished
  <2>3. QED
    BY <2>2 DEF HavingStatus
<1>2. Inv /\ [Next]_vars
        => [busy /\ ~busy' => HavingStatus(task', Unfinished) = {}]_vars
  BY <1>1
<1>3. QED
  BY Invariant, <1>2, PTL DEF Spec, RunSettles

\* Once the user has asked to stop, the run awaits no other task (the checks of
\* the token at the top of the loop and behind the await).
THEOREM StoppedRunStartsNothing == Spec => StopStartsNothing
<1>1. Inv /\ [Next]_vars => [cancel => (current' = current \/ current' = 0)]_vars
  BY RunMoves DEF Over, Going
<1>2. QED
  BY Invariant, <1>1, PTL DEF Spec, StopStartsNothing
=============================================================================
