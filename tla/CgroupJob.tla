----------------------------- MODULE CgroupJob -----------------------------
(***************************************************************************)
(* A job cgroup and the spawns into it: the handshake of a spawning thread *)
(* with the supervisor it forks, the placement of the tool by either       *)
(* clone3(CLONE_INTO_CGROUP) or the parent's attach barrier, the handles   *)
(* of the children, and kill_all, which any holder of a handle may call    *)
(* while spawns are in flight.  Waits that the code bounds by five seconds *)
(* may give up at any time their condition is false.                       *)
(***************************************************************************)
CONSTANTS
  Spawn,     \* calls of prepare_spawn and spawn_blocked
  Owner,     \* the holder of the CgroupV2Job
  Nobody     \* nobody holds the cleanup lock

ASSUME Callers == Owner \notin Spawn /\ Nobody \notin Spawn \cup {Owner}

VARIABLES
  placement,    \* how this kernel places a tool: "clone" or "attach"
  closing,      \* CgroupJobState.closing
  removed,      \* CgroupJobState.removed
  reapers,      \* spawns whose ChildReaper is on the job's list
  registered,   \* spawns whose ChildReaper knows the supervisor's pid
  at,           \* where each spawning thread, or the holder of a handle, is
  supervisor, tool,   \* the two processes of a spawn
  report,       \* the message in the pipe from the supervisor
  signal,       \* what the parent wrote to it: "none", "ack" or "release"
  members,      \* living processes that are in the job's cgroup
  doomed,       \* living processes with a SIGKILL pending
  cleaner,      \* who holds the cleanup lock
  stage,        \* and how far run_cgroup_cleanup_sequence has come
  fault         \* the failure that has happened: at most one (a bound)

jobVars == <<placement, closing, removed, reapers>>
processVars == <<supervisor, tool, report, members, doomed>>
cleanVars == <<cleaner, stage>>
vars == <<jobVars, registered, at, processVars, signal, cleanVars, fault>>

Caller == Spawn \cup {Owner}
Sup(s) == <<"supervisor", s>>
Tool(s) == <<"tool", s>>

\* Between prepare_spawn and the return of spawn_blocked a spawn holds a lease.
Admitting == {"prepared", "pinning", "attesting", "admitting", "readying",
              "rechecking", "attaching", "verifying", "confirming", "registering", "returning", "killing", "striking", "burying"}
Kept == {"owned", "waiting", "closing", "dropping"}
Leased == {s \in Spawn : at[s] \in Admitting}
Open == ~closing /\ ~removed

SupLives(s) == supervisor[s] \notin {"none", "zombie", "reaped"}
ToolLives(s) == tool[s] \in {"new", "running"}
Goto(s, where) == at' = [at EXCEPT ![s] = where]

Init ==
  /\ placement \in {"clone", "attach"}
  /\ closing = FALSE /\ removed = FALSE /\ reapers = {} /\ registered = {}
  /\ at = [c \in Caller |-> IF c = Owner THEN "owned" ELSE "idle"]
  /\ supervisor = [s \in Spawn |-> "none"] /\ tool = [s \in Spawn |-> "none"]
  /\ report = [s \in Spawn |-> "none"] /\ signal = [s \in Spawn |-> "none"]
  /\ members = {} /\ doomed = {}
  /\ cleaner = Nobody /\ stage = "kill" /\ fault = "none"

Fails == fault = "none" /\ fault' = "step"
KillFails == fault = "none" /\ fault' = "kill"

-----------------------------------------------------------------------------
(* The spawning thread.                                                    *)

\* prepare_spawn, under the lock of the job's state; then it opens controls.
Listed(s) == reapers \cup {s}

Prepare(s) ==
  /\ at[s] = "idle" /\ at[Owner] \in {"owned", "closing"}
  /\ IF Open
     THEN Goto(s, "prepared") /\ reapers' = Listed(s)
     ELSE Goto(s, "failed") /\ UNCHANGED reapers
  /\ UNCHANGED <<placement, closing, removed, registered, processVars, signal, cleanVars, fault>>

\* The controls cannot be opened, the caller drops its placement, the job is closed,
\* or the policy does not hold: nothing was forked yet.
GiveUp(s) ==
  /\ at[s] \in {"prepared", "pinning"}
  /\ Goto(s, "failed")
  /\ UNCHANGED <<jobVars, registered, processVars, signal, cleanVars, fault>>

Begin(s) ==
  /\ at[s] = "prepared" /\ Open
  /\ Goto(s, "pinning")
  /\ UNCHANGED <<jobVars, registered, processVars, signal, cleanVars, fault>>

\* The pinned policy becomes the supervisor's mounts.
Fork(s) ==
  /\ at[s] = "pinning"
  /\ Goto(s, "attesting")
  /\ supervisor' = [supervisor EXCEPT ![s] = "setup"]
  /\ UNCHANGED <<jobVars, registered, tool, report, members, doomed, signal, cleanVars, fault>>

\* The supervisor died: the pipe has lost its only writer.
EndOfReport(s) == report[s] = "none" /\ supervisor[s] = "zombie"

\* The report is an error, ends, or does not attest a private namespace.
Refuse(s) ==
  /\ at[s] \in {"attesting", "readying"}
  /\ \/ report[s] = "error" /\ UNCHANGED fault
     \/ EndOfReport(s) /\ UNCHANGED fault
     \/ report[s] \in {"attest", "ready"} /\ Fails
  /\ Goto(s, "killing")
  /\ UNCHANGED <<jobVars, registered, processVars, signal, cleanVars>>

ReadReport(s) ==
  /\ \/ at[s] = "attesting" /\ report[s] = "attest" /\ Goto(s, "admitting")
     \/ at[s] = "readying" /\ report[s] = "ready" /\ Goto(s, "rechecking")
  /\ report' = [report EXCEPT ![s] = "none"]
  /\ UNCHANGED <<jobVars, registered, supervisor, tool, members, doomed, signal, cleanVars, fault>>

\* The job must be open when a byte is sent; what closes it between the check and the
\* write might as well come after the write.  A dead supervisor takes no byte.
SendByte(s, from, byte, next) ==
  /\ at[s] = from
  /\ IF Open /\ SupLives(s)
     THEN signal' = [signal EXCEPT ![s] = byte] /\ Goto(s, next)
     ELSE UNCHANGED signal /\ Goto(s, "killing")
  /\ UNCHANGED <<jobVars, registered, processVars, cleanVars, fault>>

Acknowledge(s) == SendByte(s, "admitting", "ack", "readying")
Release(s) == SendByte(s, "confirming", "release", "registering")

\* It must be open once more when the supervisor is ready.
EnsureOpen(s) ==
  /\ at[s] = "rechecking"
  /\ Goto(s, CASE ~Open -> "killing"
               [] Open /\ placement = "attach" -> "attaching"
               [] OTHER -> "registering")
  /\ UNCHANGED <<jobVars, registered, processVars, signal, cleanVars, fault>>

\* attach_and_release checks that the job is open (once more, for the check at its
\* caller came just before) and writes the supervisor's pid to cgroup.procs ...
Attach(s) ==
  /\ at[s] = "attaching"
  /\ \/ SupLives(s) /\ Goto(s, "verifying") /\ members' = members \cup {Sup(s)} /\ UNCHANGED fault
     \/ SupLives(s) /\ Goto(s, "verifying") /\ UNCHANGED members /\ Fails
     \/ (~SupLives(s) \/ ~Open) /\ Goto(s, "killing") /\ UNCHANGED <<members, fault>>
  /\ UNCHANGED <<jobVars, registered, supervisor, tool, report, doomed, signal, cleanVars>>

\* ... and reads back whether it is there.
Placed_Trusted(s) == TRUE
Placed(s) == Sup(s) \in members

Verify(s) ==
  /\ at[s] = "verifying"
  /\ Goto(s, IF Placed(s) THEN "confirming" ELSE "killing")
  /\ UNCHANGED <<jobVars, registered, processVars, signal, cleanVars, fault>>

Register(s) ==
  /\ at[s] = "registering"
  /\ registered' = registered \cup {s} /\ Goto(s, "returning")
  /\ UNCHANGED <<jobVars, processVars, signal, cleanVars, fault>>

\* The placement and its lease are dropped when spawn_blocked returns.
Return(s) ==
  /\ at[s] = "returning" /\ Goto(s, "owned")
  /\ UNCHANGED <<jobVars, registered, processVars, signal, cleanVars, fault>>

\* A failed spawn kills everything in the cgroup, then its supervisor, and reaps it.
Struck_SupervisorOnly(s) == {}
Struck(s) == members

KillMembers(s) ==
  /\ at[s] = "killing" /\ Goto(s, "striking")
  /\ \/ doomed' = doomed \cup Struck(s) /\ UNCHANGED fault
     \/ UNCHANGED doomed /\ KillFails
  /\ UNCHANGED <<jobVars, registered, supervisor, tool, report, members, signal, cleanVars>>

KillSupervisor(s) ==
  /\ at[s] = "striking" /\ Goto(s, "burying")
  /\ doomed' = doomed \cup (IF SupLives(s) THEN {Sup(s)} ELSE {})
  /\ UNCHANGED <<jobVars, registered, supervisor, tool, report, members, signal, cleanVars, fault>>

Bury(s) ==
  /\ at[s] = "burying" /\ supervisor[s] = "zombie"
  /\ supervisor' = [supervisor EXCEPT ![s] = "reaped"] /\ Goto(s, "failed")
  /\ report' = [report EXCEPT ![s] = "none"] /\ signal' = [signal EXCEPT ![s] = "none"]
  /\ UNCHANGED <<jobVars, registered, tool, members, doomed, cleanVars, fault>>

-----------------------------------------------------------------------------
(* The supervisor and the tool.  A process with a SIGKILL pending only dies. *)

Acts(p) == p \notin doomed
Send(s, message) == report' = [report EXCEPT ![s] = message]
Consumed(s) == signal' = [signal EXCEPT ![s] = "none"]
Becomes(s, state) == supervisor' = [supervisor EXCEPT ![s] = state]

\* Namespaces, mounts, limits and capabilities are set up and attested ...
SetUp(s) ==
  /\ supervisor[s] = "setup" /\ Acts(Sup(s))
  /\ Becomes(s, "attested") /\ Send(s, "attest")
  /\ UNCHANGED <<jobVars, registered, at, tool, members, doomed, signal, cleanVars, fault>>

Exits(s) == /\ Becomes(s, "zombie")
            /\ members' = members \ {Sup(s)} /\ doomed' = doomed \ {Sup(s)}

\* ... or fail_and_exit reports which step of the set-up failed.
FailAndExit(s) ==
  /\ supervisor[s] \in {"setup", "acked"} /\ Acts(Sup(s))
  /\ Fails /\ Exits(s) /\ Send(s, "error")
  /\ UNCHANGED <<jobVars, registered, at, tool, signal, cleanVars>>

AfterParentAck(s) ==
  /\ supervisor[s] = "attested" /\ signal[s] = "ack" /\ Acts(Sup(s))
  /\ Becomes(s, "acked") /\ Consumed(s)
  /\ UNCHANGED <<jobVars, registered, at, tool, report, members, doomed, cleanVars, fault>>

NewTool(s, into) ==
  /\ tool' = [tool EXCEPT ![s] = "new"]
  /\ members' = IF into THEN members \cup {Tool(s)} ELSE members

\* clone3 puts the tool into the cgroup as it creates it.
Clone(s) ==
  /\ placement = "clone" /\ supervisor[s] = "acked" /\ Acts(Sup(s))
  /\ Becomes(s, "cloned") /\ NewTool(s, TRUE)
  /\ UNCHANGED <<jobVars, registered, at, report, doomed, signal, cleanVars, fault>>

Ready(s) ==
  /\ Acts(Sup(s)) /\ Send(s, "ready")
  /\ \/ supervisor[s] = "cloned" /\ Becomes(s, "waiting")
     \/ supervisor[s] = "acked" /\ placement = "attach" /\ Becomes(s, "parked")
  /\ UNCHANGED <<jobVars, registered, at, tool, members, doomed, signal, cleanVars, fault>>

\* Behind the barrier the tool inherits the cgroup its supervisor is in by then; a
\* policy that does not hold any more ends the supervisor instead.
AfterRelease(s) ==
  /\ supervisor[s] = "parked" /\ signal[s] = "release" /\ Acts(Sup(s)) /\ Consumed(s)
  /\ \/ /\ Becomes(s, "waiting") /\ NewTool(s, Sup(s) \in members)
        /\ UNCHANGED <<doomed, fault>>
     \/ Fails /\ Exits(s) /\ UNCHANGED tool
  /\ UNCHANGED <<jobVars, registered, at, report, cleanVars>>

Exec(s) ==
  /\ tool[s] = "new" /\ Acts(Tool(s))
  /\ tool' = [tool EXCEPT ![s] = "running"]
  /\ UNCHANGED <<jobVars, registered, at, supervisor, report, members, doomed, signal, cleanVars, fault>>

\* The tool ends by itself, could not be executed, or is killed: it is the init of
\* its namespace, so its descendants end with it.
ToolEnds(s) ==
  /\ ToolLives(s)
  /\ tool' = [tool EXCEPT ![s] = "dead"]
  /\ members' = members \ {Tool(s)} /\ doomed' = doomed \ {Tool(s)}
  /\ UNCHANGED <<jobVars, registered, at, supervisor, report, signal, cleanVars, fault>>

\* wait_target_or_exit returns with the status of the tool.
SupervisorExits(s) ==
  /\ supervisor[s] = "waiting" /\ ~ToolLives(s)
  /\ Exits(s)
  /\ UNCHANGED <<jobVars, registered, at, tool, report, signal, cleanVars, fault>>

SupervisorKilled(s) ==
  /\ SupLives(s)
  /\ \/ Sup(s) \in doomed /\ UNCHANGED fault
     \/ Fails
  /\ Exits(s)
  /\ UNCHANGED <<jobVars, registered, at, tool, report, signal, cleanVars>>

-----------------------------------------------------------------------------
(* The handle of a child, and that of the job.                             *)

\* wait holds the reaper's lock until the supervisor is over; kill ends with a wait.
Wait(s) ==
  /\ at[s] = "owned" /\ Goto(s, "waiting")
  /\ UNCHANGED <<jobVars, registered, processVars, signal, cleanVars, fault>>

Reaped(s) == /\ supervisor[s] \in {"zombie", "reaped"}
             /\ supervisor' = [supervisor EXCEPT ![s] = "reaped"]

WaitReturns(s) ==
  /\ at[s] = "waiting" /\ Reaped(s)
  /\ Goto(s, "owned")
  /\ UNCHANGED <<jobVars, registered, tool, report, members, doomed, signal, cleanVars, fault>>

-----------------------------------------------------------------------------
(* kill_all, one caller at a time: one that waits for the lock has not      *)
(* called yet.                                                             *)

Answered(c, ok) ==
  Goto(c, CASE at[c] = "dropping" -> "gone"
            [] at[c] = "closing" /\ ok /\ c \in Spawn -> "waiting"
            [] OTHER -> "owned")

\* Called by kill, or by wait_timeout after its time, and by the holder of the job;
\* or called by the drop of either handle, which ignores the result.
KillAll(c, why) ==
  /\ cleaner = Nobody /\ at[c] = "owned" /\ ~removed
  /\ Goto(c, why) /\ closing' = TRUE /\ cleaner' = c /\ stage' = "kill"
  /\ UNCHANGED <<placement, removed, reapers, registered, processVars, signal, fault>>

\* A removed job has nothing left to kill; its handles may still be dropped.
KillRemoved(c) ==
  /\ cleaner = Nobody /\ at[c] = "owned" /\ removed
  /\ Goto(c, "gone")
  /\ UNCHANGED <<jobVars, registered, processVars, signal, cleanVars, fault>>

LeaveCleanup(ok) == Answered(cleaner, ok) /\ cleaner' = Nobody /\ stage' = "kill"

\* The processes that are in the cgroup when cgroup.kill is written, and no others.
CleanupKill ==
  /\ cleaner # Nobody /\ stage \in {"kill", "again"}
  /\ \/ /\ doomed' = doomed \cup members
        /\ stage' = IF stage = "kill" THEN "leases" ELSE "empty"
        /\ UNCHANGED <<cleaner, at, fault>>
     \/ KillFails /\ LeaveCleanup(FALSE) /\ UNCHANGED doomed
  /\ UNCHANGED <<jobVars, registered, supervisor, tool, report, members, signal>>

\* What a stage waits for.  A reaper without a pid has nothing to reap.
Unreaped_None == {}
Unreaped == {s \in reapers \cap registered : supervisor[s] # "reaped"}
Awaited == [leases |-> Leased = {}, empty |-> members = {}, reap |-> Unreaped = {}]
After == [leases |-> "again", empty |-> "reap", reap |-> "remove"]

Proceed ==
  /\ cleaner # Nobody /\ stage \in DOMAIN After /\ Awaited[stage]
  /\ stage' = After[stage]
  /\ UNCHANGED <<jobVars, registered, at, processVars, signal, cleaner, fault>>

\* The reaper's lock is not bounded by the deadline.
Blocked == stage = "reap" /\ \E s \in Unreaped : at[s] = "waiting"

TimeOut_NotForLeases ==
  /\ cleaner # Nobody /\ stage \in {"empty", "reap"} /\ ~Awaited[stage] /\ ~Blocked
  /\ LeaveCleanup(FALSE)
  /\ UNCHANGED <<jobVars, registered, processVars, signal, fault>>

TimeOut ==
  /\ cleaner # Nobody /\ stage \in DOMAIN After /\ ~Awaited[stage] /\ ~Blocked
  /\ LeaveCleanup(FALSE)
  /\ UNCHANGED <<jobVars, registered, processVars, signal, fault>>

Reap(s) ==
  /\ cleaner # Nobody /\ stage = "reap"
  /\ s \in Unreaped /\ at[s] # "waiting" /\ Reaped(s)
  /\ UNCHANGED <<jobVars, registered, at, tool, report, members, doomed, signal, cleanVars, fault>>

\* rmdir refuses a cgroup that is populated.
Remove ==
  /\ cleaner # Nobody /\ stage = "remove"
  /\ IF members = {} THEN removed' = TRUE /\ LeaveCleanup(TRUE)
                     ELSE LeaveCleanup(FALSE) /\ UNCHANGED removed
  /\ UNCHANGED <<placement, closing, reapers, registered, processVars, signal, fault>>

-----------------------------------------------------------------------------
SpawnStep(s) ==
  \/ Prepare(s) \/ GiveUp(s) \/ Begin(s) \/ Fork(s) \/ Refuse(s) \/ ReadReport(s) \/ EnsureOpen(s)
  \/ Acknowledge(s) \/ Release(s) \/ Attach(s) \/ Verify(s) \/ Register(s) \/ Return(s)
  \/ KillMembers(s) \/ KillSupervisor(s) \/ Bury(s)

SupervisorStep(s) ==
  \/ SetUp(s) \/ FailAndExit(s) \/ AfterParentAck(s) \/ Clone(s) \/ Ready(s) \/ AfterRelease(s)
  \/ SupervisorExits(s) \/ SupervisorKilled(s)

Cleanup == CleanupKill \/ Proceed \/ TimeOut \/ Remove \/ \E s \in Spawn : Reap(s)

Next ==
  \/ \E s \in Spawn : SpawnStep(s) \/ SupervisorStep(s) \/ Exec(s) \/ ToolEnds(s)
                        \/ Wait(s) \/ WaitReturns(s)
  \/ \E c \in Caller : KillAll(c, "closing") \/ KillAll(c, "dropping") \/ KillRemoved(c)
  \/ Cleanup

Spec == Init /\ [][Next]_vars

\* A thread goes on with what it has begun, a process is scheduled and a killed one
\* dies.  Nobody is obliged to call anything, no tool ends by itself.
ThreadStep(s) == (at[s] \notin {"idle", "prepared"} /\ SpawnStep(s)) \/ WaitReturns(s)
ProcessStep(s) == SupervisorStep(s) \/ (Tool(s) \in doomed /\ ToolEnds(s))

Fairness ==
  WF_vars(Cleanup) /\ \A s \in Spawn : WF_vars(ThreadStep(s)) /\ WF_vars(ProcessStep(s))

FairSpec == Spec /\ Fairness

-----------------------------------------------------------------------------
TypeOK ==
  /\ placement \in {"clone", "attach"} /\ closing \in BOOLEAN /\ removed \in BOOLEAN
  /\ reapers \subseteq Spawn /\ registered \subseteq reapers
  /\ at \in [Caller -> {"idle", "failed", "gone"} \cup Admitting \cup Kept]
  /\ supervisor \in [Spawn -> {"none", "setup", "attested", "acked", "cloned", "parked",
                               "waiting", "zombie", "reaped"}]
  /\ tool \in [Spawn -> {"none", "new", "running", "dead"}]
  /\ report \in [Spawn -> {"none", "attest", "ready", "error"}]
  /\ signal \in [Spawn -> {"none", "ack", "release"}]
  /\ members \subseteq {Sup(s) : s \in Spawn} \cup {Tool(s) : s \in Spawn}
  /\ doomed \subseteq {Sup(s) : s \in Spawn} \cup {Tool(s) : s \in Spawn}
  /\ cleaner \in Caller \cup {Nobody}
  /\ stage \in {"kill", "leases", "again", "empty", "reap", "remove"}
  /\ fault \in {"none", "step", "kill"}

\* A tool never runs outside the job's cgroup, where neither its limits nor
\* cgroup.kill would reach it, whichever way it was placed.
Confined == \A s \in Spawn : ToolLives(s) => Tool(s) \in members

\* From the second kill on, nothing in the cgroup has been missed: a spawn that passed
\* its last check before the job closed was waited for.
LastKillSuffices ==
  cleaner # Nobody /\ stage \in {"empty", "reap", "remove"} => members \subseteq doomed

\* A process that is not being killed has somebody who answers for it, whatever
\* timeouts made kill_all give up: the thread that spawns it, the holder of its handle,
\* the holder of the job, or a cleanup under way.  A supervisor that only waits for a
\* killed tool needs nobody.  Only a cgroup.kill that fails breaks this.
Unowned(s) == at[s] \notin Admitting \cup Kept /\ at[Owner] = "gone" /\ cleaner = Nobody

\* Nor has a spawn that failed left a process that could still start or run a tool.
NobodyForgotten ==
  \A s \in Spawn :
    /\ Unowned(s) /\ fault # "kill" =>
         /\ ToolLives(s) => Tool(s) \in doomed
         /\ SupLives(s) => Sup(s) \in doomed \/ supervisor[s] = "waiting"
    /\ at[s] = "failed" =>
         /\ supervisor[s] \in {"none", "reaped"}
         /\ ToolLives(s) /\ fault # "kill" => Tool(s) \in doomed

\* Once the job is removed its processes are over and reaped.
RemovedIsOver ==
  removed => /\ Leased = {}
             /\ \A s \in Spawn : supervisor[s] \in {"none", "reaped"} /\ ~ToolLives(s)

\* A spawn returns, once and for all: no side of the handshake waits for ever for the other.
SpawnsReturn == <>[](\A s \in Spawn : at[s] \in Admitting => at[s] = "prepared")

\* kill_all returns, also while somebody holds a placement or waits for the child.
CleanupReturns == []<>(cleaner = Nobody)

\* So neither call hangs on the other, on a child that is stuck or on one that is waited for.
CallsReturn == SpawnsReturn /\ CleanupReturns

\* A job keeps what ToolJob promises.
Phase == IF removed THEN "removed" ELSE IF closing THEN "closing" ELSE "open"
Live == {s \in Spawn : SupLives(s) \/ supervisor[s] = "zombie" \/ ToolLives(s)}
Over == {s \in Spawn : supervisor[s] # "none"} \ Live
Job == INSTANCE ToolJob WITH phase <- Phase, live <- Live, ended <- Over
ImplementsJob == Job!Spec

=============================================================================
