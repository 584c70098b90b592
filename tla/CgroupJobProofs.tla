-------------------------- MODULE CgroupJobProofs --------------------------
(***************************************************************************)
(* Proofs about CgroupJob, for any number of spawns: a tool runs in the    *)
(* cgroup of its job or not at all, no living process is left without      *)
(* somebody who answers for it, and a job keeps what ToolJob promises.     *)
(***************************************************************************)
EXTENDS CgroupJob, TLAPS

-----------------------------------------------------------------------------
(* The invariant.                                                          *)

Before == {"idle", "prepared", "pinning"}
Passed == {"rechecking", "attaching", "verifying", "confirming"}
Handed == {"registering", "returning", "gone"} \cup Kept
Failing == {"killing", "striking", "burying"}
Cleaning == {"closing", "dropping"}

\* How far the supervisor is when its spawning thread is at some point: neither side
\* of the handshake gets ahead of the other by more than a message.
Shake(s) ==
  /\ at[s] \in Before => supervisor[s] = "none"
  /\ at[s] = "attesting" => supervisor[s] \in {"setup", "attested", "zombie"}
  /\ at[s] = "admitting" => supervisor[s] \in {"attested", "zombie"}
  /\ at[s] = "readying" => supervisor[s] \notin {"none", "setup", "reaped"}
  /\ at[s] \in Passed => supervisor[s] \in {"waiting", "parked", "zombie"}
  /\ at[s] \in Handed => supervisor[s] \in {"waiting", "parked", "zombie", "reaped"}
  /\ at[s] \in Failing => supervisor[s] \in {"attested", "waiting", "parked", "zombie"}
  /\ at[s] = "failed" => supervisor[s] \in {"none", "reaped"}

\* What lies in the pipes between them.
Pipes(s) ==
  /\ signal[s] = "ack" => \/ at[s] = "readying" /\ supervisor[s] = "attested"
                          \/ supervisor[s] \in {"zombie", "reaped"}
  /\ signal[s] = "release" => at[s] \in Handed
  /\ report[s] = "attest" => /\ at[s] \in {"attesting"} \cup Failing
                             /\ supervisor[s] \in {"attested", "zombie"}
  /\ report[s] = "ready" => /\ at[s] \in {"readying"} \cup Failing
                            /\ supervisor[s] \in {"waiting", "parked", "zombie"}
  /\ report[s] = "error" => supervisor[s] \in {"zombie", "reaped"}

\* A supervisor that could still create a tool after its spawn was handed over is in
\* the cgroup, as is every tool.
Tools(s) ==
  /\ supervisor[s] \in {"none", "setup", "attested", "acked", "parked"} => tool[s] = "none"
  /\ placement = "clone" => supervisor[s] # "parked"
  /\ ToolLives(s) => Tool(s) \in members
  /\ placement = "attach" /\ at[s] \in {"confirming"} \cup Handed /\ SupLives(s) => Sup(s) \in members

Listings(s) ==
  /\ at[s] \in Admitting \cup Kept \cup {"gone"} => s \in reapers
  /\ s \in registered <=> at[s] \in {"returning", "gone"} \cup Kept

\* Nothing of a spawn can start or run a tool.
Safe(s) ==
  /\ ToolLives(s) => Tool(s) \in doomed
  /\ SupLives(s) => Sup(s) \in doomed \/ supervisor[s] = "waiting"

Killed(s) ==
  fault # "kill" =>
    /\ at[s] \in {"failed", "striking", "burying"} /\ ToolLives(s) => Tool(s) \in doomed
    /\ at[s] = "gone" \/ (at[s] = "dropping" /\ stage # "kill") => Safe(s)

Lock ==
  /\ at[Owner] \in {"owned", "closing", "dropping", "gone"}
  /\ \A c \in Caller : at[c] \in Cleaning <=> cleaner = c
  /\ cleaner # Nobody => closing /\ ~removed
  /\ removed => closing

\* What kill_all knows at its stages: after the leases nobody enters the cgroup but
\* from within it, after the second kill everybody in it dies.
Stages ==
  /\ cleaner # Nobody /\ stage \notin {"kill", "leases"} => Leased = {}
  /\ LastKillSuffices
  /\ cleaner # Nobody /\ stage = "remove" => Unreaped = {}
  /\ RemovedIsOver

Inv ==
  /\ TypeOK /\ Lock /\ Stages
  /\ \A s \in Spawn : Shake(s) /\ Pipes(s) /\ Tools(s) /\ Listings(s) /\ Killed(s)

-----------------------------------------------------------------------------
\* What each stage waits for and leads to.
LEMMA StagesKnown ==
  /\ DOMAIN After = {"leases", "empty", "reap"}
  /\ After["leases"] = "again" /\ After["empty"] = "reap" /\ After["reap"] = "remove"
  /\ Awaited["leases"] = (Leased = {}) /\ Awaited["empty"] = (members = {}) /\ Awaited["reap"] = (Unreaped = {})
BY DEF After, Awaited

\* Processes of different spawns, and of different kinds, are different.
LEMMA Processes ==
  ASSUME NEW s \in Spawn, NEW q \in Spawn
  PROVE Sup(s) # Tool(q) /\ (Sup(s) = Sup(q) => s = q) /\ (Tool(s) = Tool(q) => s = q)
BY DEF Sup, Tool

-----------------------------------------------------------------------------
(* The steps.  The first of each lemma take the actions together that keep the *)
(* conjunct by themselves, the others need what else the invariant says.       *)

\* Type correctness; a spawn is registered only when its reaper is on the list.
LEMMA TypeStep == Inv /\ [Next]_vars => TypeOK'
<1> SUFFICES ASSUME Inv, [Next]_vars PROVE TypeOK'
  OBVIOUS
<1>0. TypeOK /\ Lock /\ \A s \in Spawn : Shake(s) /\ Listings(s)
  BY DEF Inv
<1> USE Callers DEF jobVars, processVars, cleanVars, Goto, TypeOK, Caller, Admitting, Kept
<1>1. ASSUME NEW s \in Spawn, Prepare(s) \/ GiveUp(s) \/ Begin(s) \/ Fork(s) \/ Refuse(s) \/
         ReadReport(s) \/ EnsureOpen(s) \/ Acknowledge(s) \/ Release(s) \/ Attach(s) \/ Verify(s) \/
         Return(s) \/ KillMembers(s) \/ KillSupervisor(s) \/ Bury(s)
      PROVE TypeOK'
  BY <1>0, <1>1 DEF Prepare, Listed, GiveUp, Begin, Fork, Refuse, EndOfReport, Fails, ReadReport,
     EnsureOpen, Acknowledge, SendByte, Release, Attach, Verify, Placed, Return, KillMembers,
     Struck, KillFails, KillSupervisor, Bury
<1>2. ASSUME NEW s \in Spawn, SetUp(s) \/ FailAndExit(s) \/ AfterParentAck(s) \/ Clone(s) \/
         Ready(s) \/ AfterRelease(s) \/ SupervisorExits(s) \/ SupervisorKilled(s) \/ Exec(s) \/
         ToolEnds(s) \/ Wait(s) \/ WaitReturns(s) \/ Reap(s)
      PROVE TypeOK'
  BY <1>0, <1>2 DEF SetUp, Becomes, Send, Acts, FailAndExit, Fails, Exits, AfterParentAck, Consumed,
     Clone, NewTool, Ready, AfterRelease, SupervisorExits, SupervisorKilled, Exec, ToolEnds, Wait,
     WaitReturns, Reaped, Reap
<1>3. CASE (\E c \in Caller : KillRemoved(c)) \/ CleanupKill \/ TimeOut \/ UNCHANGED vars
  BY <1>0, <1>3 DEF KillRemoved, CleanupKill, KillFails, LeaveCleanup, Answered, TimeOut, vars
<1>4. ASSUME NEW s \in Spawn, Register(s) PROVE TypeOK'
  BY <1>0, <1>4 DEF Register, Listings
<1>5. ASSUME NEW c \in Caller, NEW why \in Cleaning, KillAll(c, why) PROVE TypeOK'
  BY <1>0, <1>5 DEF KillAll, Lock, Cleaning
<1>6. ASSUME Proceed PROVE TypeOK'
  BY StagesKnown, <1>0, <1>6 DEF Proceed
<1>7. ASSUME Remove PROVE TypeOK'
  BY <1>0, <1>7 DEF Remove, LeaveCleanup, Answered
<1> QED
  BY <1>1, <1>2, <1>3, <1>4, <1>5, <1>6, <1>7 DEF Next, SpawnStep, SupervisorStep, Cleanup, Cleaning

\* Whoever is inside kill_all holds the cleanup lock, and the job stays closed.
LEMMA LockStep == Inv /\ [Next]_vars => Lock'
<1> SUFFICES ASSUME Inv, [Next]_vars PROVE Lock'
  OBVIOUS
<1>0. TypeOK /\ TypeOK' /\ Lock
  BY TypeStep DEF Inv
<1> USE Callers DEF jobVars, processVars, cleanVars, Goto, TypeOK, Caller, Admitting, Kept, Lock,
     Cleaning
<1>1. ASSUME NEW s \in Spawn, Prepare(s) \/ GiveUp(s) \/ Begin(s) \/ Fork(s) \/ Refuse(s) \/
         ReadReport(s) \/ EnsureOpen(s) \/ Acknowledge(s) \/ Release(s) \/ Attach(s) \/ Verify(s) \/
         Register(s) \/ Return(s) \/ KillMembers(s) \/ KillSupervisor(s) \/ Bury(s)
      PROVE Lock'
  BY <1>0, <1>1 DEF Prepare, Listed, GiveUp, Begin, Fork, Refuse, EndOfReport, Fails, ReadReport,
     EnsureOpen, Acknowledge, SendByte, Release, Attach, Verify, Placed, Register, Return,
     KillMembers, Struck, KillFails, KillSupervisor, Bury
<1>2. ASSUME NEW s \in Spawn, SetUp(s) \/ FailAndExit(s) \/ AfterParentAck(s) \/ Clone(s) \/
         Ready(s) \/ AfterRelease(s) \/ SupervisorExits(s) \/ SupervisorKilled(s) \/ Exec(s) \/
         ToolEnds(s) \/ Wait(s) \/ WaitReturns(s) \/ Reap(s)
      PROVE Lock'
  BY <1>0, <1>2 DEF SetUp, Becomes, Send, Acts, FailAndExit, Fails, Exits, AfterParentAck, Consumed,
     Clone, NewTool, Ready, AfterRelease, SupervisorExits, SupervisorKilled, Exec, ToolEnds, Wait,
     WaitReturns, Reaped, Reap
<1>3. CASE (\E c \in Caller, why \in Cleaning : KillAll(c, why)) \/ (\E c \in Caller :
         KillRemoved(c)) \/ CleanupKill \/ Proceed \/ TimeOut \/ Remove \/ UNCHANGED vars
  BY <1>0, <1>3 DEF KillAll, KillRemoved, CleanupKill, KillFails, LeaveCleanup, Answered, Proceed,
     TimeOut, Remove, vars, Cleaning
<1> QED
  BY <1>1, <1>2, <1>3 DEF Next, SpawnStep, SupervisorStep, Cleanup, Cleaning

\* The handshake keeps both sides within a message of each other.
LEMMA ShakeStep == Inv /\ [Next]_vars => \A q \in Spawn : Shake(q)'
<1> SUFFICES ASSUME Inv, [Next]_vars PROVE \A q \in Spawn : Shake(q)'
  OBVIOUS
<1>0. TypeOK /\ TypeOK' /\ Lock /\ \A s \in Spawn : Shake(s) /\ Pipes(s) /\ Tools(s) /\ Listings(s)
  BY TypeStep DEF Inv
<1> USE Callers DEF jobVars, processVars, cleanVars, Goto, TypeOK, Caller, Admitting, Kept, Shake,
     Before, Passed, Handed, Failing
<1>1. ASSUME NEW s \in Spawn, Prepare(s) \/ GiveUp(s) \/ Begin(s) \/ Fork(s) \/ EnsureOpen(s) \/
         Acknowledge(s) \/ Release(s) \/ Attach(s) \/ Verify(s) \/ Register(s) \/ Return(s) \/
         KillMembers(s) \/ KillSupervisor(s) \/ Bury(s)
      PROVE \A q \in Spawn : Shake(q)'
  BY <1>0, <1>1 DEF Prepare, Listed, GiveUp, Begin, Fork, EnsureOpen, Acknowledge, SendByte,
     Release, Attach, Fails, Verify, Placed, Register, Return, KillMembers, Struck, KillFails,
     KillSupervisor, Bury
<1>2. ASSUME NEW s \in Spawn, SetUp(s) \/ FailAndExit(s) \/ Clone(s) \/ Ready(s) \/
         AfterRelease(s) \/ SupervisorExits(s) \/ Exec(s) \/ ToolEnds(s) \/ Wait(s) \/
         WaitReturns(s)
      PROVE \A q \in Spawn : Shake(q)'
  BY <1>0, <1>2 DEF SetUp, Becomes, Send, Acts, FailAndExit, Fails, Exits, Clone, NewTool, Ready,
     AfterRelease, Consumed, SupervisorExits, Exec, ToolEnds, Wait, WaitReturns, Reaped
<1>3. CASE (\E c \in Caller : KillRemoved(c)) \/ Proceed \/ UNCHANGED vars
  BY <1>0, <1>3 DEF KillRemoved, Proceed, vars
<1>4. ASSUME NEW s \in Spawn, Refuse(s) PROVE \A q \in Spawn : Shake(q)'
  BY <1>0, <1>4 DEF Refuse, EndOfReport, Fails, Pipes
<1>5. ASSUME NEW s \in Spawn, ReadReport(s) PROVE \A q \in Spawn : Shake(q)'
  BY <1>0, <1>5 DEF ReadReport, Pipes
<1>6. ASSUME NEW s \in Spawn, AfterParentAck(s) PROVE \A q \in Spawn : Shake(q)'
  BY <1>0, <1>6 DEF AfterParentAck, Becomes, Consumed, Acts, Pipes
<1>7. ASSUME NEW s \in Spawn, SupervisorKilled(s) PROVE \A q \in Spawn : Shake(q)'
  BY <1>0, <1>7 DEF SupervisorKilled, Exits, Becomes, Fails, SupLives
<1>8. ASSUME NEW s \in Spawn, Reap(s) PROVE \A q \in Spawn : Shake(q)'
  BY <1>0, <1>8 DEF Reap, Reaped, Listings, Unreaped
<1>9. ASSUME NEW c \in Caller, NEW why \in Cleaning, KillAll(c, why)
      PROVE \A q \in Spawn : Shake(q)'
  BY <1>0, <1>9 DEF KillAll, Lock, Cleaning
<1>10. ASSUME CleanupKill PROVE \A q \in Spawn : Shake(q)'
  BY <1>0, <1>10 DEF CleanupKill, KillFails, LeaveCleanup, Answered, Lock, Cleaning
<1>11. ASSUME TimeOut PROVE \A q \in Spawn : Shake(q)'
  BY <1>0, <1>11 DEF TimeOut, LeaveCleanup, Answered, Lock, Cleaning
<1>12. ASSUME Remove PROVE \A q \in Spawn : Shake(q)'
  BY <1>0, <1>12 DEF Remove, LeaveCleanup, Answered, Lock, Cleaning
<1> QED
  BY <1>1, <1>2, <1>3, <1>4, <1>5, <1>6, <1>7, <1>8, <1>9, <1>10, <1>11, <1>12 DEF Next, SpawnStep,
     SupervisorStep, Cleanup, Cleaning

\* Nothing is left in a pipe that its reader could take for something newer.
LEMMA PipesStep == Inv /\ [Next]_vars => \A q \in Spawn : Pipes(q)'
<1> SUFFICES ASSUME Inv, [Next]_vars PROVE \A q \in Spawn : Pipes(q)'
  OBVIOUS
<1>0. TypeOK /\ TypeOK' /\ Lock /\ \A s \in Spawn : Shake(s) /\ Pipes(s) /\ Listings(s)
  BY TypeStep DEF Inv
<1> USE Callers DEF jobVars, processVars, cleanVars, Goto, TypeOK, Caller, Admitting, Kept, Pipes,
     Handed, Failing
<1>1. ASSUME NEW s \in Spawn, Prepare(s) \/ GiveUp(s) \/ Begin(s) \/ Refuse(s) \/ ReadReport(s) \/
         EnsureOpen(s) \/ Release(s) \/ Attach(s) \/ Verify(s) \/ Register(s) \/ Return(s) \/
         KillMembers(s) \/ KillSupervisor(s) \/ Bury(s)
      PROVE \A q \in Spawn : Pipes(q)'
  BY <1>0, <1>1 DEF Prepare, Listed, GiveUp, Begin, Refuse, EndOfReport, Fails, ReadReport,
     EnsureOpen, Release, SendByte, Attach, Verify, Placed, Register, Return, KillMembers, Struck,
     KillFails, KillSupervisor, Bury
<1>2. ASSUME NEW s \in Spawn, FailAndExit(s) \/ AfterParentAck(s) \/ Clone(s) \/ AfterRelease(s)
         \/ SupervisorExits(s) \/ SupervisorKilled(s) \/ Exec(s) \/ ToolEnds(s) \/ Wait(s) \/
         WaitReturns(s)
      PROVE \A q \in Spawn : Pipes(q)'
  BY <1>0, <1>2 DEF FailAndExit, Fails, Exits, Becomes, Send, Acts, AfterParentAck, Consumed, Clone,
     NewTool, AfterRelease, SupervisorExits, SupervisorKilled, Exec, ToolEnds, Wait, WaitReturns,
     Reaped
<1>3. CASE (\E c \in Caller : KillRemoved(c)) \/ Proceed \/ UNCHANGED vars
  BY <1>0, <1>3 DEF KillRemoved, Proceed, vars
<1>4. ASSUME NEW s \in Spawn, Fork(s) PROVE \A q \in Spawn : Pipes(q)'
  BY <1>0, <1>4 DEF Fork, Shake, Before, Passed
<1>5. ASSUME NEW s \in Spawn, Acknowledge(s) PROVE \A q \in Spawn : Pipes(q)'
  BY <1>0, <1>5 DEF Acknowledge, SendByte, Shake, Before, Passed
<1>6. ASSUME NEW s \in Spawn, SetUp(s) PROVE \A q \in Spawn : Pipes(q)'
  BY <1>0, <1>6 DEF SetUp, Becomes, Send, Acts, Shake, Before, Passed
<1>7. ASSUME NEW s \in Spawn, Ready(s) PROVE \A q \in Spawn : Pipes(q)'
  BY <1>0, <1>7 DEF Ready, Becomes, Send, Acts, Shake, Before, Passed
<1>8. ASSUME NEW s \in Spawn, Reap(s) PROVE \A q \in Spawn : Pipes(q)'
  BY <1>0, <1>8 DEF Reap, Reaped, Listings, Unreaped
<1>9. ASSUME NEW c \in Caller, NEW why \in Cleaning, KillAll(c, why)
      PROVE \A q \in Spawn : Pipes(q)'
  BY <1>0, <1>9 DEF KillAll, Lock, Cleaning
<1>10. ASSUME CleanupKill PROVE \A q \in Spawn : Pipes(q)'
  BY <1>0, <1>10 DEF CleanupKill, KillFails, LeaveCleanup, Answered, Lock, Cleaning
<1>11. ASSUME TimeOut PROVE \A q \in Spawn : Pipes(q)'
  BY <1>0, <1>11 DEF TimeOut, LeaveCleanup, Answered, Lock, Cleaning
<1>12. ASSUME Remove PROVE \A q \in Spawn : Pipes(q)'
  BY <1>0, <1>12 DEF Remove, LeaveCleanup, Answered, Lock, Cleaning
<1> QED
  BY <1>1, <1>2, <1>3, <1>4, <1>5, <1>6, <1>7, <1>8, <1>9, <1>10, <1>11, <1>12 DEF Next, SpawnStep,
     SupervisorStep, Cleanup, Cleaning

\* What kill_all reaps are the spawns that were handed over.
LEMMA ListingsStep == Inv /\ [Next]_vars => \A q \in Spawn : Listings(q)'
<1> SUFFICES ASSUME Inv, [Next]_vars PROVE \A q \in Spawn : Listings(q)'
  OBVIOUS
<1>0. TypeOK /\ TypeOK' /\ Lock /\ \A s \in Spawn : Listings(s)
  BY TypeStep DEF Inv
<1> USE Callers DEF jobVars, processVars, cleanVars, Goto, TypeOK, Caller, Admitting, Kept,
     Listings
<1>1. ASSUME NEW s \in Spawn, Prepare(s) \/ GiveUp(s) \/ Begin(s) \/ Fork(s) \/ Refuse(s) \/
         ReadReport(s) \/ EnsureOpen(s) \/ Acknowledge(s) \/ Release(s) \/ Attach(s) \/ Verify(s) \/
         Register(s) \/ Return(s) \/ KillMembers(s) \/ KillSupervisor(s) \/ Bury(s)
      PROVE \A q \in Spawn : Listings(q)'
  BY <1>0, <1>1 DEF Prepare, Listed, GiveUp, Begin, Fork, Refuse, EndOfReport, Fails, ReadReport,
     EnsureOpen, Acknowledge, SendByte, Release, Attach, Verify, Placed, Register, Return,
     KillMembers, Struck, KillFails, KillSupervisor, Bury
<1>2. ASSUME NEW s \in Spawn, SetUp(s) \/ FailAndExit(s) \/ AfterParentAck(s) \/ Clone(s) \/
         Ready(s) \/ AfterRelease(s) \/ SupervisorExits(s) \/ SupervisorKilled(s) \/ Exec(s) \/
         ToolEnds(s) \/ Wait(s) \/ WaitReturns(s) \/ Reap(s)
      PROVE \A q \in Spawn : Listings(q)'
  BY <1>0, <1>2 DEF SetUp, Becomes, Send, Acts, FailAndExit, Fails, Exits, AfterParentAck, Consumed,
     Clone, NewTool, Ready, AfterRelease, SupervisorExits, SupervisorKilled, Exec, ToolEnds, Wait,
     WaitReturns, Reaped, Reap
<1>3. CASE (\E c \in Caller : KillRemoved(c)) \/ Proceed \/ UNCHANGED vars
  BY <1>0, <1>3 DEF KillRemoved, Proceed, vars
<1>4. ASSUME NEW c \in Caller, NEW why \in Cleaning, KillAll(c, why)
      PROVE \A q \in Spawn : Listings(q)'
  BY <1>0, <1>4 DEF KillAll, Lock, Cleaning
<1>5. ASSUME CleanupKill PROVE \A q \in Spawn : Listings(q)'
  BY <1>0, <1>5 DEF CleanupKill, KillFails, LeaveCleanup, Answered, Lock, Cleaning
<1>6. ASSUME TimeOut PROVE \A q \in Spawn : Listings(q)'
  BY <1>0, <1>6 DEF TimeOut, LeaveCleanup, Answered, Lock, Cleaning
<1>7. ASSUME Remove PROVE \A q \in Spawn : Listings(q)'
  BY <1>0, <1>7 DEF Remove, LeaveCleanup, Answered, Lock, Cleaning
<1> QED
  BY <1>1, <1>2, <1>3, <1>4, <1>5, <1>6, <1>7 DEF Next, SpawnStep, SupervisorStep, Cleanup, Cleaning

\* Tools are confined: clone3 puts them into the cgroup, or the barrier held until their
\* supervisor was in it.
LEMMA ToolsStep == Inv /\ [Next]_vars => \A q \in Spawn : Tools(q)'
<1> SUFFICES ASSUME Inv, [Next]_vars PROVE \A q \in Spawn : Tools(q)'
  OBVIOUS
<1>0. TypeOK /\ TypeOK' /\ Lock /\ \A s \in Spawn : Shake(s) /\ Pipes(s) /\ Tools(s)
  BY TypeStep DEF Inv
<1> USE Callers, Processes DEF jobVars, processVars, cleanVars, Goto, TypeOK, Caller, Admitting,
     Kept, Tools, SupLives, ToolLives, Handed
<1>1. ASSUME NEW s \in Spawn, Prepare(s) \/ GiveUp(s) \/ Begin(s) \/ Refuse(s) \/ ReadReport(s) \/
         EnsureOpen(s) \/ Acknowledge(s) \/ Release(s) \/ Attach(s) \/ Verify(s) \/ Register(s) \/
         Return(s) \/ KillMembers(s) \/ KillSupervisor(s) \/ Bury(s)
      PROVE \A q \in Spawn : Tools(q)'
  BY <1>0, <1>1 DEF Prepare, Listed, GiveUp, Begin, Refuse, EndOfReport, Fails, ReadReport,
     EnsureOpen, Acknowledge, SendByte, Release, Attach, Verify, Placed, Register, Return,
     KillMembers, Struck, KillFails, KillSupervisor, Bury
<1>2. ASSUME NEW s \in Spawn, SetUp(s) \/ FailAndExit(s) \/ AfterParentAck(s) \/ Clone(s) \/
         Ready(s) \/ SupervisorExits(s) \/ SupervisorKilled(s) \/ Exec(s) \/ ToolEnds(s) \/ Wait(s)
         \/ WaitReturns(s) \/ Reap(s)
      PROVE \A q \in Spawn : Tools(q)'
  BY <1>0, <1>2 DEF SetUp, Becomes, Send, Acts, FailAndExit, Fails, Exits, AfterParentAck, Consumed,
     Clone, NewTool, Ready, SupervisorExits, SupervisorKilled, Exec, ToolEnds, Wait, WaitReturns,
     Reaped, Reap
<1>3. CASE (\E c \in Caller, why \in Cleaning : KillAll(c, why)) \/ (\E c \in Caller :
         KillRemoved(c)) \/ Proceed \/ UNCHANGED vars
  BY <1>0, <1>3 DEF KillAll, KillRemoved, Proceed, vars, Cleaning
<1>4. ASSUME NEW s \in Spawn, Fork(s) PROVE \A q \in Spawn : Tools(q)'
  BY <1>0, <1>4 DEF Fork, Shake, Before, Passed, Failing
<1>5. ASSUME NEW s \in Spawn, AfterRelease(s) PROVE \A q \in Spawn : Tools(q)'
  BY <1>0, <1>5 DEF AfterRelease, Becomes, Consumed, Acts, NewTool, Fails, Exits, Pipes
<1>6. ASSUME CleanupKill PROVE \A q \in Spawn : Tools(q)'
  BY <1>0, <1>6 DEF CleanupKill, KillFails, LeaveCleanup, Answered, Lock, Cleaning
<1>7. ASSUME TimeOut PROVE \A q \in Spawn : Tools(q)'
  BY <1>0, <1>7 DEF TimeOut, LeaveCleanup, Answered, Lock, Cleaning
<1>8. ASSUME Remove PROVE \A q \in Spawn : Tools(q)'
  BY <1>0, <1>8 DEF Remove, LeaveCleanup, Answered, Lock, Cleaning
<1> QED
  BY <1>1, <1>2, <1>3, <1>4, <1>5, <1>6, <1>7, <1>8 DEF Next, SpawnStep, SupervisorStep, Cleanup,
     Cleaning

\* A spawn that failed or was dropped has been killed, unless cgroup.kill failed.
LEMMA KilledStep == Inv /\ [Next]_vars => \A q \in Spawn : Killed(q)'
<1> SUFFICES ASSUME Inv, [Next]_vars PROVE \A q \in Spawn : Killed(q)'
  OBVIOUS
<1>0. TypeOK /\ TypeOK' /\ Lock /\ Stages /\ \A s \in Spawn : Shake(s) /\ Pipes(s) /\ Tools(s) /\ Killed(s)
  BY TypeStep DEF Inv
<1> USE Callers, Processes DEF jobVars, processVars, cleanVars, Goto, TypeOK, Caller, Admitting,
     Kept, Killed, Safe, SupLives, ToolLives
<1>1. ASSUME NEW s \in Spawn, Begin(s) \/ Fork(s) \/ Refuse(s) \/ ReadReport(s) \/ EnsureOpen(s)
         \/ Acknowledge(s) \/ Release(s) \/ Attach(s) \/ Verify(s) \/ Register(s) \/ Return(s) \/
         KillSupervisor(s) \/ Bury(s)
      PROVE \A q \in Spawn : Killed(q)'
  BY <1>0, <1>1 DEF Begin, Fork, Refuse, EndOfReport, Fails, ReadReport, EnsureOpen, Acknowledge,
     SendByte, Release, Attach, Verify, Placed, Register, Return, KillSupervisor, Bury
<1>2. ASSUME NEW s \in Spawn, SetUp(s) \/ FailAndExit(s) \/ AfterParentAck(s) \/ Ready(s) \/
         SupervisorExits(s) \/ SupervisorKilled(s) \/ Exec(s) \/ ToolEnds(s) \/ Wait(s) \/
         WaitReturns(s) \/ Reap(s)
      PROVE \A q \in Spawn : Killed(q)'
  BY <1>0, <1>2 DEF SetUp, Becomes, Send, Acts, FailAndExit, Fails, Exits, AfterParentAck, Consumed,
     Ready, SupervisorExits, SupervisorKilled, Exec, ToolEnds, Wait, WaitReturns, Reaped, Reap
<1>3. CASE Remove \/ UNCHANGED vars
  BY <1>0, <1>3 DEF Remove, LeaveCleanup, Answered, vars
<1>4. ASSUME NEW s \in Spawn, Prepare(s) PROVE \A q \in Spawn : Killed(q)'
  BY <1>0, <1>4 DEF Prepare, Listed, Tools, Shake, Before, Passed, Handed, Failing
<1>5. ASSUME NEW s \in Spawn, GiveUp(s) PROVE \A q \in Spawn : Killed(q)'
  BY <1>0, <1>5 DEF GiveUp, Tools, Shake, Before, Passed, Handed, Failing
<1>6. ASSUME NEW s \in Spawn, KillMembers(s) PROVE \A q \in Spawn : Killed(q)'
  BY <1>0, <1>6 DEF KillMembers, Struck, KillFails, Tools
<1>7. ASSUME NEW s \in Spawn, Clone(s) PROVE \A q \in Spawn : Killed(q)'
  BY <1>0, <1>7 DEF Clone, Becomes, NewTool, Acts, Shake, Before, Passed, Handed, Failing
<1>8. ASSUME NEW s \in Spawn, AfterRelease(s) PROVE \A q \in Spawn : Killed(q)'
  BY <1>0, <1>8 DEF AfterRelease, Becomes, Consumed, Acts, NewTool, Fails, Exits, Shake, Before,
     Passed, Handed, Failing, Pipes
<1>9. ASSUME NEW c \in Caller, NEW why \in Cleaning, KillAll(c, why)
      PROVE \A q \in Spawn : Killed(q)'
  BY <1>0, <1>9 DEF KillAll, Lock, Cleaning
<1>10. ASSUME NEW c \in Caller, KillRemoved(c) PROVE \A q \in Spawn : Killed(q)'
  BY <1>0, <1>10 DEF KillRemoved, Stages, RemovedIsOver
<1>11. ASSUME CleanupKill PROVE \A q \in Spawn : Killed(q)'
  BY <1>0, <1>11 DEF CleanupKill, KillFails, LeaveCleanup, Answered, Tools, Shake, Before, Passed,
     Handed, Failing
<1>12. ASSUME Proceed PROVE \A q \in Spawn : Killed(q)'
  BY StagesKnown, <1>0, <1>12 DEF Proceed
<1>13. ASSUME TimeOut PROVE \A q \in Spawn : Killed(q)'
  BY StagesKnown, <1>0, <1>13 DEF TimeOut, LeaveCleanup, Answered
<1> QED
  BY <1>1, <1>2, <1>3, <1>4, <1>5, <1>6, <1>7, <1>8, <1>9, <1>10, <1>11, <1>12, <1>13 DEF Next,
     SpawnStep, SupervisorStep, Cleanup, Cleaning

\* The stages of kill_all: what it has waited for stays so.
LEMMA StagesStep == Inv /\ [Next]_vars => Stages'
<1> SUFFICES ASSUME Inv, [Next]_vars PROVE Stages'
  OBVIOUS
<1>0. TypeOK /\ TypeOK' /\ Lock /\ Stages /\ \A s \in Spawn : Shake(s) /\ Pipes(s) /\ Tools(s) /\ Listings(s)
  BY TypeStep DEF Inv
<1> USE Callers, Processes DEF jobVars, processVars, cleanVars, Goto, TypeOK, Caller, Admitting,
     Kept, Stages, LastKillSuffices, RemovedIsOver, Leased, Unreaped
<1>1. ASSUME NEW s \in Spawn, GiveUp(s) \/ Begin(s) \/ Fork(s) \/ Refuse(s) \/ ReadReport(s) \/
         EnsureOpen(s) \/ Acknowledge(s) \/ Release(s) \/ Attach(s) \/ Verify(s) \/ Register(s) \/
         Return(s) \/ KillMembers(s) \/ KillSupervisor(s) \/ Bury(s)
      PROVE Stages'
  BY <1>0, <1>1 DEF GiveUp, Begin, Fork, Refuse, EndOfReport, Fails, ReadReport, EnsureOpen,
     Acknowledge, SendByte, Release, Attach, Verify, Placed, Register, Return, KillMembers, Struck,
     KillFails, KillSupervisor, Bury
<1>2. ASSUME NEW s \in Spawn, SetUp(s) \/ FailAndExit(s) \/ AfterParentAck(s) \/ Ready(s) \/
         AfterRelease(s) \/ SupervisorExits(s) \/ ToolEnds(s) \/ Reap(s)
      PROVE Stages'
  BY <1>0, <1>2 DEF SetUp, Becomes, Send, Acts, FailAndExit, Fails, Exits, AfterParentAck, Consumed,
     Ready, AfterRelease, NewTool, SupervisorExits, ToolEnds, Reap, Reaped
<1>3. CASE (\E c \in Caller, why \in Cleaning : KillAll(c, why))
  BY <1>0, <1>3 DEF KillAll, Cleaning
<1>4. ASSUME NEW s \in Spawn, Prepare(s) PROVE Stages'
  BY <1>0, <1>4 DEF Prepare, Listed, Lock, Cleaning, SupLives, ToolLives, Tools, Open
<1>5. ASSUME NEW s \in Spawn, Clone(s) PROVE Stages'
  BY <1>0, <1>5 DEF Clone, Becomes, NewTool, Acts, Shake, Before, Passed, Handed, Failing
<1>6. ASSUME NEW s \in Spawn, SupervisorKilled(s) PROVE Stages'
  BY <1>0, <1>6 DEF SupervisorKilled, Exits, Becomes, Fails, SupLives, ToolLives, Tools
<1>7. ASSUME NEW s \in Spawn, Exec(s) PROVE Stages'
  BY <1>0, <1>7 DEF Exec, Acts, SupLives, ToolLives, Tools
<1>8. ASSUME NEW s \in Spawn, Wait(s) PROVE Stages'
  BY <1>0, <1>8 DEF Wait, SupLives, ToolLives, Tools
<1>9. ASSUME NEW s \in Spawn, WaitReturns(s) PROVE Stages'
  BY <1>0, <1>9 DEF WaitReturns, Reaped, SupLives, ToolLives, Tools
<1>10. ASSUME NEW c \in Caller, KillRemoved(c) PROVE Stages'
  BY <1>0, <1>10 DEF KillRemoved, SupLives, ToolLives, Tools
<1>11. ASSUME CleanupKill PROVE Stages'
  BY <1>0, <1>11 DEF CleanupKill, KillFails, LeaveCleanup, Answered, Lock, Cleaning
<1>12. ASSUME Proceed PROVE Stages'
  BY StagesKnown, <1>0, <1>12 DEF Proceed, Lock, Cleaning
<1>13. ASSUME TimeOut PROVE Stages'
  BY <1>0, <1>13 DEF TimeOut, LeaveCleanup, Answered, Lock, Cleaning
<1>14. ASSUME Remove PROVE Stages'
  BY <1>0, <1>14 DEF Remove, LeaveCleanup, Answered, SupLives, ToolLives, Tools, Shake, Before,
     Passed, Handed, Failing, Pipes, Listings
<1>15. ASSUME UNCHANGED vars PROVE Stages'
  BY <1>0, <1>15 DEF vars, SupLives, ToolLives, Tools
<1> QED
  BY <1>1, <1>2, <1>3, <1>4, <1>5, <1>6, <1>7, <1>8, <1>9, <1>10, <1>11, <1>12, <1>13, <1>14, <1>15
     DEF Next, SpawnStep, SupervisorStep, Cleanup, Cleaning

-----------------------------------------------------------------------------
\* No spawn has begun.
LEMMA InitInv == Init => Inv
<1> SUFFICES ASSUME Init PROVE Inv
  OBVIOUS
<1> USE Callers DEF Init
<1>1. TypeOK
  BY DEF TypeOK, Caller, Kept, Admitting
<1>2. Lock /\ Stages
  BY DEF Lock, Stages, LastKillSuffices, RemovedIsOver, Cleaning, Caller
<1>3. \A s \in Spawn : Shake(s) /\ Pipes(s) /\ Tools(s) /\ Listings(s) /\ Killed(s)
  BY DEF Shake, Pipes, Tools, Listings, Killed, Before, Passed, Handed, Failing, Admitting, Kept,
         Caller, SupLives, ToolLives
<1> QED
  BY <1>1, <1>2, <1>3 DEF Inv

\* The conjuncts together.
LEMMA InvStep == Inv /\ [Next]_vars => Inv'
BY TypeStep, LockStep, ShakeStep, PipesStep, ListingsStep, ToolsStep, KilledStep, StagesStep DEF Inv

\* The invariant holds in every reachable state.
THEOREM Invariant == Spec => []Inv
<1>1. Inv /\ [Next]_vars => Inv'
  BY InvStep
<1> QED
  BY <1>1, InitInv, PTL DEF Spec

\* The types of every variable hold in every reachable state.
THEOREM Typed == Spec => []TypeOK
<1>1. Inv => TypeOK
  BY DEF Inv
<1> QED
  BY <1>1, Invariant, PTL

\* Whatever is killed, fails or is closed meanwhile, a tool never runs outside the
\* cgroup of its job.
THEOREM ToolsAreConfined == Spec => []Confined
<1>1. Inv => Confined
  BY DEF Inv, Tools, Confined
<1> QED
  BY <1>1, Invariant, PTL

\* A process that is not being killed has a thread, a handle or a cleanup that answers
\* for it, and a spawn that failed has left none.
THEOREM NobodyIsForgotten == Spec => []NobodyForgotten
<1>1. ASSUME Inv PROVE NobodyForgotten
  <2> SUFFICES ASSUME NEW s \in Spawn
               PROVE  /\ Unowned(s) /\ fault # "kill" => Safe(s)
                      /\ at[s] = "failed" => /\ supervisor[s] \in {"none", "reaped"}
                                             /\ ToolLives(s) /\ fault # "kill" => Tool(s) \in doomed
    BY DEF NobodyForgotten, Safe
  <2>1. TypeOK /\ Shake(s) /\ Tools(s) /\ Killed(s)
    BY <1>1 DEF Inv
  <2>2. at[s] \notin Admitting \cup Kept => at[s] \in {"idle", "failed", "gone"}
    BY <2>1 DEF TypeOK, Caller
  <2>3. at[s] \in {"idle", "failed"} => ~SupLives(s)
    BY <2>1 DEF Shake, Before, SupLives
  <2>4. at[s] = "idle" => ~ToolLives(s)
    BY <2>1 DEF Shake, Before, Tools, ToolLives
  <2> QED
    BY <2>1, <2>2, <2>3, <2>4 DEF Shake, Killed, Safe, Unowned
<1> QED
  BY <1>1, Invariant, PTL

\* From the second cgroup.kill on, kill_all has missed nobody: no spawn that passed its
\* last check before the job closed can still bring a process into the cgroup.
THEOREM TheLastKillSuffices == Spec => []LastKillSuffices
<1>1. Inv => LastKillSuffices
  BY DEF Inv, Stages
<1> QED
  BY <1>1, Invariant, PTL

\* A job that was removed has no process, and none that was not reaped.
THEOREM RemovedJobsAreOver == Spec => []RemovedIsOver
<1>1. Inv => RemovedIsOver
  BY DEF Inv, Stages
<1> QED
  BY <1>1, Invariant, PTL

-----------------------------------------------------------------------------
(* The refinement.                                                         *)

\* A new job is open and has no process.
LEMMA JobInit == Init => Job!Init
BY DEF Init, Job!Init, Live, Over, Phase, SupLives, ToolLives

\* Starting, ending, closing and removing are steps of ToolJob, all else leaves it still.
LEMMA JobStep == Inv /\ Inv' /\ [Next]_vars => [Job!Next]_Job!vars
<1> SUFFICES ASSUME Inv, Inv', [Next]_vars PROVE [Job!Next]_Job!vars
  OBVIOUS
<1>0. /\ TypeOK /\ Lock /\ RemovedIsOver /\ RemovedIsOver'
      /\ \A s \in Spawn : Shake(s) /\ Tools(s)
  BY DEF Inv, Stages
<1> DEFINE Still == UNCHANGED <<Phase, Live, Over>>
<1> USE DEF Live, Over, Phase, SupLives, ToolLives, jobVars, processVars, cleanVars, Goto
<1>1. ASSUME NEW s \in Spawn, Fork(s) PROVE Job!Start(s)
  BY <1>0, <1>1 DEF Fork, Job!Start, TypeOK, Caller, Shake, Before, Tools, RemovedIsOver, Leased, Admitting
<1>2. ASSUME NEW s \in Spawn,
             Prepare(s) \/ GiveUp(s) \/ Begin(s) \/ Refuse(s) \/ ReadReport(s) \/ EnsureOpen(s)
             \/ Acknowledge(s) \/ Release(s) \/ Attach(s) \/ Verify(s) \/ Register(s) \/ Return(s)
             \/ KillMembers(s) \/ KillSupervisor(s)
      PROVE Still
  BY <1>2 DEF Prepare, GiveUp, Begin, Refuse, ReadReport, EnsureOpen, Acknowledge, Release, SendByte,
              Attach, Verify, Register, Return, KillMembers, KillSupervisor
<1>3. ASSUME NEW s \in Spawn,
             SetUp(s) \/ FailAndExit(s) \/ AfterParentAck(s) \/ Ready(s) \/ SupervisorExits(s)
             \/ SupervisorKilled(s)
      PROVE Still
  BY <1>0, <1>3 DEF SetUp, FailAndExit, AfterParentAck, Ready, SupervisorExits, SupervisorKilled,
                    Becomes, Exits, TypeOK
<1>4. ASSUME NEW s \in Spawn, Clone(s) \/ AfterRelease(s) \/ Exec(s) \/ Wait(s) PROVE Still
  BY <1>0, <1>4 DEF Clone, AfterRelease, Exec, Wait, Becomes, Exits, NewTool, TypeOK
<1>5. ASSUME NEW s \in Spawn, ToolEnds(s) PROVE Still \/ Job!End(s)
  <2>1. tool' = [tool EXCEPT ![s] = "dead"] /\ UNCHANGED <<supervisor, closing, removed>> /\ ToolLives(s)
    BY <1>5 DEF ToolEnds
  <2>2. s \in Live /\ supervisor[s] # "none"
    BY <1>0, <2>1 DEF Tools
  <2>3. CASE supervisor[s] = "reaped"
    BY <1>0, <2>1, <2>2, <2>3 DEF Job!End, TypeOK
  <2>4. CASE supervisor[s] # "reaped"
    BY <1>0, <2>1, <2>2, <2>4 DEF TypeOK
  <2> QED
    BY <2>3, <2>4
<1>6. ASSUME NEW s \in Spawn, Bury(s) \/ WaitReturns(s) \/ Reap(s) PROVE Still \/ Job!End(s)
  BY <1>0, <1>6 DEF Bury, WaitReturns, Reap, Reaped, Job!End, TypeOK
<1>7. ASSUME NEW c \in Caller, NEW why \in Cleaning, KillAll(c, why) PROVE Still \/ Job!Close
  BY <1>7 DEF KillAll, Job!Close
<1>8. CASE (\E c \in Caller : KillRemoved(c)) \/ CleanupKill \/ Proceed \/ TimeOut \/ UNCHANGED vars
  <2>1. UNCHANGED <<supervisor, tool, closing, removed>>
    BY <1>8 DEF KillRemoved, CleanupKill, Proceed, TimeOut, vars
  <2> QED
    BY <2>1 DEF Job!vars
<1>9. CASE Remove
  <2>1. Still \/ Job!Remove
    BY <1>0, <1>9 DEF Remove, Job!Remove, RemovedIsOver, Lock
  <2> QED
    BY <2>1 DEF Job!Next, Job!vars
<1> QED
  BY <1>1, <1>2, <1>3, <1>4, <1>5, <1>6, <1>7, <1>8, <1>9
  DEF Next, SpawnStep, SupervisorStep, Cleanup, Cleaning, Job!Next, Job!vars

\* The detailed job keeps what ToolJob promises: it is removed only when every tool and
\* every supervisor is over, and nothing starts in a removed job.
THEOREM JobsAreToolJobs == Spec => ImplementsJob
<1>1. Inv /\ Inv' /\ [Next]_vars => [Job!Next]_Job!vars
  BY JobStep
<1> QED
  BY <1>1, JobInit, Invariant, PTL DEF Spec, ImplementsJob, Job!Spec

=============================================================================
