----------------------------- MODULE BatchQueue -----------------------------
(***************************************************************************)
(* The queue of the WPF application: the batch that is being put together, *)
(* the queued tasks, and the loop that converts them one after the other.  *)
(*                                                                         *)
(* Everything that touches this state runs on the dispatcher thread, but   *)
(* StartConversion gives it up at its await: the user's commands, the      *)
(* progress callbacks and the continuation itself then arrive as items of  *)
(* the dispatcher's queue (posts), in the order in which they were posted. *)
(*                                                                         *)
(* A task is known by its number; the batches only group consecutive       *)
(* numbers, so that the order of Batches.SelectMany is the order of the    *)
(* numbers.  A removed task keeps its record: a callback may still refer   *)
(* to it.  Two of the four categories stand for all of them, one for each  *)
(* converter, with a few of their formats.                                 *)
(***************************************************************************)
EXTENDS Naturals, Sequences, FiniteSets

CONSTANTS
    File,        \* the files the user may add
    ExtensionOf, \* the extension of each file
    MaxTasks,    \* tasks ever queued or pending
    MaxReports   \* callbacks that wait in the dispatcher's queue

ASSUME BatchAssumption == MaxTasks \in Nat /\ MaxReports \in Nat

VARIABLES
    pending,  \* PendingBatch: its files, category and output format
    task,     \* the tasks ever queued, in the order of their creation
    live,     \* those that are still in Batches
    busy,     \* IsBusy
    cancel,   \* _cts.IsCancellationRequested
    todo,     \* what the foreach over pendingTasks has not reached
    current,  \* the task whose conversion is awaited
    conv,     \* where that conversion is
    late,     \* killed tools whose last line of output is still being read
    posts     \* the items of the dispatcher's queue

runVars == <<busy, cancel, todo, current>>
vars == <<pending, task, live, runVars, conv, late, posts>>

None == "none"
Category == {"Video", "Document"}
Status == {"Pending", "Running", "Succeeded", "Failed", "Cancelled"}
Settled == {"Succeeded", "Failed", "Cancelled"}
Unfinished == {"Pending", "Running"}

\* What the converters of the service read and write.
SupportedInputFormats(c) == IF c = "Video" THEN {"mp4"} ELSE {"pdf"}
GetFormats(c) == SupportedInputFormats(c)
Formats == UNION {GetFormats(c) : c \in Category}

FindConverter(input, output) ==
    {c \in Category : /\ input \in SupportedInputFormats(c)
                      /\ output \in GetFormats(c)}

\* An extension that no list holds counts as a video.
GuessCategory(extension) == IF extension = "pdf" THEN "Document" ELSE "Video"

Reset == [files |-> << >>, category |-> None, format |-> None]

Init ==
    /\ pending = Reset
    /\ task = << >>
    /\ live = {}
    /\ busy = FALSE
    /\ cancel = FALSE
    /\ todo = {}
    /\ current = 0
    /\ conv = "idle"
    /\ late = {}
    /\ posts = << >>

-----------------------------------------------------------------------------
(* The batch that is being put together.                                    *)

TryAddFile(f, c) == [pending EXCEPT !.category = c, !.files = Append(@, f)]

\* A batch holds files of one category.  The default of a category is the
\* format last applied to it: any that it has.
AddFiles(f, default) ==
    LET c == GuessCategory(ExtensionOf[f]) IN
    /\ ~busy
    /\ Len(task) + Len(pending.files) < MaxTasks
    /\ pending.category \in {None, c}
    /\ default \in GetFormats(c)
    /\ pending' = [TryAddFile(f, c) EXCEPT !.format = IF @ = None THEN default ELSE @]
    /\ UNCHANGED <<task, live, runVars, conv, late, posts>>

\* The category is the pending one or, before there is one, any that the user
\* selects to see its formats.  This is allowed while a run is going on.
ApplyFormat(c, format) ==
    /\ pending.category \in {None, c}
    /\ format \in GetFormats(c)
    /\ pending' = [pending EXCEPT !.format = format]
    /\ UNCHANGED <<task, live, runVars, conv, late, posts>>

ClearPendingBatch ==
    /\ ~busy
    /\ pending # Reset
    /\ pending' = Reset
    /\ UNCHANGED <<task, live, runVars, conv, late, posts>>

CreateTask(f) ==
    [input |-> ExtensionOf[f], category |-> pending.category,
     format |-> pending.format, status |-> "Pending"]

EnqueuePendingBatch ==
    /\ ~busy
    /\ pending.category # None /\ pending.files # << >> /\ pending.format # None
    /\ task' = task \o [i \in DOMAIN pending.files |-> CreateTask(pending.files[i])]
    /\ live' = live \cup (DOMAIN task' \ DOMAIN task)
    /\ pending' = Reset
    /\ UNCHANGED <<runVars, conv, late, posts>>

-----------------------------------------------------------------------------
(* The queued tasks.                                                        *)

\* The tasks of `which` get this status.
SetStatus(tasks, which, status) ==
    [t \in DOMAIN tasks |->
        [tasks[t] EXCEPT !.status = IF t \in which THEN status ELSE @]]

HavingStatus(tasks, statuses) ==
    {t \in live \cap DOMAIN tasks : tasks[t].status \in statuses}

MarkUnfinishedTasksAsCancelled_ButFailed(tasks) ==
    SetStatus(tasks, HavingStatus(tasks, Status \ {"Failed"}), "Cancelled")

MarkUnfinishedTasksAsCancelled(tasks) ==
    SetStatus(tasks, HavingStatus(tasks, Unfinished), "Cancelled")

Retryable == {"Failed"}

RetryFailedTasks ==
    /\ ~busy
    /\ HavingStatus(task, Retryable) # {}
    /\ task' = SetStatus(task, HavingStatus(task, Retryable), "Pending")
    /\ UNCHANGED <<pending, live, runVars, conv, late, posts>>

RemoveTask(t) ==
    /\ ~busy
    /\ t \in live
    /\ live' = live \ {t}
    /\ UNCHANGED <<pending, task, runVars, conv, late, posts>>

ClearTasks ==
    /\ ~busy
    /\ live # {}
    /\ live' = {}
    /\ UNCHANGED <<pending, task, runVars, conv, late, posts>>

-----------------------------------------------------------------------------
(* The loop of StartConversion, from the top of its body to the next await  *)
(* or to the end.                                                           *)

First(tasks) == CHOOSE t \in tasks : \A u \in tasks : t <= u
Last(tasks) == CHOOSE t \in tasks : \A u \in tasks : t >= u

PendingTasks == HavingStatus(task, {"Pending", "Failed"})

\* The answer is there before anything is awaited, and it is a failure: the
\* format is not one of the category, no converter reads the input, or there
\* is no LibreOffice (which is never downloaded).
FailsAtOnce(row, office) ==
    \/ row.format \notin GetFormats(row.category)
    \/ FindConverter(row.input, row.format) = {}
    \/ "Document" \in FindConverter(row.input, row.format) /\ ~office

Finish(tasks) ==
    /\ task' = tasks
    /\ busy' = FALSE
    /\ cancel' = FALSE
    /\ todo' = {}
    /\ current' = 0
    /\ conv' = "idle"

NextOf(waiting) == First(waiting)

Await(tasks, rest, office) ==
    LET failing == {t \in rest : FailsAtOnce(tasks[t], office)}
        next    == NextOf(rest \ failing)
        passed  == {t \in failing : t < next}
    IN  /\ rest # failing
        /\ busy' = TRUE
        /\ task' = SetStatus(SetStatus(tasks, passed, "Failed"), {next}, "Running")
        /\ todo' = rest \ (passed \cup {next})
        /\ current' = next
        /\ conv' \in IF tasks[next].category = "Video" THEN {"ensure", "tool"} ELSE {"tool"}
        /\ UNCHANGED cancel

\* The check at the top of the loop's body.
Stops(rest) == cancel /\ rest # {}

Loop(tasks, rest) ==
    \/ Stops(rest) /\ Finish(MarkUnfinishedTasksAsCancelled(tasks))
    \/ /\ ~Stops(rest)
       /\ \E office \in BOOLEAN :
            \/ Await(tasks, rest, office)
            \/ /\ \A t \in rest : FailsAtOnce(tasks[t], office)
               /\ Finish(SetStatus(tasks, rest, "Failed"))

StartConversion ==
    /\ ~busy
    /\ live # {}
    /\ Loop(task, PendingTasks)
    /\ UNCHANGED <<pending, live, late, posts>>

CancelConversion ==
    /\ busy
    /\ cancel' = TRUE
    /\ UNCHANGED <<pending, task, live, busy, todo, current, conv, late, posts>>

AfterStop_LeavesOthers(tasks) == tasks

\* The user's stop, met after an answer that is not a success.
AfterStop(tasks) == MarkUnfinishedTasksAsCancelled(tasks)

\* What follows the await once the answer is there.
Continue(result) ==
    LET tasks == SetStatus(task, {current}, result) IN
    IF cancel /\ result # "Succeeded"
      THEN Finish(AfterStop(tasks))
      ELSE Loop(tasks, todo)

-----------------------------------------------------------------------------
(* The converter that is awaited: the executable is found or downloaded,    *)
(* then the tool runs.  Its answers reach the dispatcher as items.          *)

Answer(result) ==
    /\ conv' = "answered"
    /\ posts' = Append(posts, [kind |-> "answer", task |-> current, status |-> result])
    /\ UNCHANGED <<pending, task, live, runVars>>

EnsureAvailable ==
    /\ conv = "ensure"
    /\ conv' = "tool"
    /\ UNCHANGED <<pending, task, live, runVars, late, posts>>

\* No executable, an exception, or the timeout of the client, which arrives
\* as an OperationCanceledException although nobody asked to stop.
EnsureFails ==
    /\ conv = "ensure"
    /\ \E result \in {"Failed", "Cancelled"} : Answer(result)
    /\ UNCHANGED late

EnsureStopped_Deaf == conv = "ensure" /\ cancel /\ UNCHANGED vars

EnsureStopped ==
    /\ conv = "ensure"
    /\ cancel
    /\ Answer("Cancelled")
    /\ UNCHANGED late

\* A line of the tool's output, read on another thread.
Report ==
    /\ conv = "tool"
    /\ Len(posts) < MaxReports
    /\ posts' = Append(posts, [kind |-> "progress", task |-> current, status |-> "Running"])
    /\ UNCHANGED <<pending, task, live, runVars, conv, late>>

\* The exit is awaited together with the end of the output.
ToolExits ==
    /\ conv = "tool"
    /\ \E result \in {"Succeeded", "Failed"} : Answer(result)
    /\ UNCHANGED late

\* A killed tool is not awaited that long.
ToolKilled ==
    /\ conv = "tool"
    /\ cancel
    /\ Answer("Cancelled")
    /\ late' \in {late, late \cup {current}}

LateReport(t) ==
    /\ Len(posts) < MaxReports
    /\ late' = late \ {t}
    /\ posts' = Append(posts, [kind |-> "progress", task |-> t, status |-> "Running"])
    /\ UNCHANGED <<pending, task, live, runVars, conv>>

-----------------------------------------------------------------------------
(* The dispatcher.                                                          *)

\* The callback of progress leaves a settled task alone.
Shown(post) == task[post.task].status \notin Settled

DispatchProgress ==
    /\ posts # << >> /\ Head(posts).kind = "progress"
    /\ task' = IF Shown(Head(posts))
                 THEN SetStatus(task, {Head(posts).task}, Head(posts).status)
                 ELSE task
    /\ posts' = Tail(posts)
    /\ UNCHANGED <<pending, live, runVars, conv, late>>

\* The converter reports what it returns, but a failure.
Reported(queue, post) ==
    IF post.status = "Failed" THEN queue
    ELSE Append(queue, [post EXCEPT !.kind = "progress"])

\* The end of the converter completes the awaited task: its continuation is
\* another item, or runs at once, before the report is dispatched.
DispatchAnswer ==
    /\ posts # << >> /\ Head(posts).kind = "answer"
    /\ LET reported == Reported(Tail(posts), Head(posts)) IN
       \/ /\ posts' = Append(reported, [Head(posts) EXCEPT !.kind = "done"])
          /\ UNCHANGED <<task, runVars, conv>>
       \/ /\ posts' = reported
          /\ Continue(Head(posts).status)
    /\ UNCHANGED <<pending, live, late>>

DispatchDone ==
    /\ posts # << >> /\ Head(posts).kind = "done"
    /\ posts' = Tail(posts)
    /\ Continue(Head(posts).status)
    /\ UNCHANGED <<pending, live, late>>

Dispatch == DispatchProgress \/ DispatchAnswer \/ DispatchDone

PendingCommand ==
    \/ \E f \in File, format \in Formats : AddFiles(f, format)
    \/ \E c \in Category, format \in Formats : ApplyFormat(c, format)
    \/ ClearPendingBatch \/ EnqueuePendingBatch

QueueCommand ==
    \/ RetryFailedTasks \/ ClearTasks \/ StartConversion \/ CancelConversion
    \/ \E t \in live : RemoveTask(t)

ConverterStep ==
    \/ EnsureAvailable \/ EnsureFails \/ EnsureStopped
    \/ Report \/ ToolExits \/ ToolKilled
    \/ \E t \in late : LateReport(t)

Next == PendingCommand \/ QueueCommand \/ ConverterStep \/ Dispatch

\* The dispatcher takes its items; a stop reaches the download and the tool.
\* Nothing makes a tool end by itself.
Fairness == WF_vars(Dispatch) /\ WF_vars(EnsureStopped \/ ToolKilled)

Spec == Init /\ [][Next]_vars /\ Fairness

-----------------------------------------------------------------------------
(* Properties.                                                              *)

Row == [input : {ExtensionOf[f] : f \in File}, category : Category,
        format : Formats, status : Status]
Post == [kind : {"progress", "answer", "done"}, task : 1..MaxTasks, status : Status]

\* Every variable holds a value of its kind; an idle window has no run left.
TypeOK ==
    /\ pending \in [files : Seq(File), category : Category \cup {None},
                    format : Formats \cup {None}]
    /\ task \in Seq(Row)
    /\ Len(task) <= MaxTasks
    /\ live \subseteq DOMAIN task
    /\ busy \in BOOLEAN /\ cancel \in BOOLEAN
    /\ todo \subseteq live
    /\ current \in live \cup {0}
    /\ conv \in {"idle", "ensure", "tool", "answered"}
    /\ late \subseteq DOMAIN task
    /\ posts \in Seq(Post)
    /\ busy <=> conv # "idle"
    /\ busy <=> current # 0
    /\ cancel => busy

\* One task at a time is shown as running, the awaited one, and none while the
\* window is idle: no callback of an earlier conversion revives its task, not
\* even after a retry (the progress callback of StartConversion).
OnlyCurrentRuns ==
    \A t \in DOMAIN task : task[t].status = "Running" => busy /\ t = current

\* While one task is awaited, every earlier one in the order of the batches
\* is settled and every later one of the run is untouched.
InOrder ==
    busy => /\ \A t \in live : t < current => task[t].status \in Settled
            /\ \A t \in todo : t > current /\ task[t].status \in {"Pending", "Failed"}

\* A task that succeeded, or that a stop cancelled, never changes again, by
\* whatever retry, run, stop or late callback follows.
SettledIsFinal ==
    [][\A t \in DOMAIN task :
          task[t].status \in {"Succeeded", "Cancelled"}
            => task'[t].status = task[t].status]_vars

\* When a run ends, by its last task or by a stop, no queued task is left
\* waiting or running.
RunSettles ==
    [][busy /\ ~busy' => HavingStatus(task', Unfinished) = {}]_vars

\* After the user's stop no further conversion begins, also when the answer
\* that was on its way is a success.
StopStartsNothing ==
    [][cancel => (current' = current \/ current' = 0)]_vars

\* A stop ends the run, whatever the tool and the download do.
StopReturns == []<>~(busy /\ cancel)
=============================================================================
