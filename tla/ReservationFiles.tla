-------------------------- MODULE ReservationFiles --------------------------
(***************************************************************************)
(* The reservation directory and the cleanup outbox of the upload ledger,  *)
(* step by step: UploadLedger has a cleanup in one step, this module has   *)
(* the maintenance pass and the upload workers as concurrent cleaners that *)
(* look a file up by its pinned identity (device and inode), move it to a  *)
(* quarantine name, verify it, unlink it, and record the outcome in a      *)
(* transaction of its own.  A crash may fall between any two steps.        *)
(*                                                                         *)
(* X_Fault(...) before a definition X(...) is a faulty variant of it, which *)
(* PROJECT.json substitutes for X to show which property notices.          *)
(*                                                                         *)
(* Left out, because no step of the service leads there: hard links and    *)
(* entries that another program renames or replaces; the time bounds of    *)
(* the scans; the back-off (a job may be tried again at any time).         *)
(***************************************************************************)
EXTENDS Integers, FiniteSets

CONSTANTS
  Session,            \* sessions, numbered from 1; each has a leaf name of its own
  Inode,              \* inode numbers
  ReuseInodes,        \* whether the file system gives a free inode to a new file
  Maintenance,        \* the cleaner of the maintenance pass and of startup
  Worker,             \* cleaners of upload workers
  PageSize,           \* MAX_IDENTITY_SCAN_ENTRIES
  MaxTemp,            \* bound: quarantine names in use at once
  MaxCalls,           \* bound: cleanups asked for by upload workers
  MaxCrashes          \* bound: crashes

ASSUME SessionsAreNumbered == Session \subseteq Nat \ {0} /\ IsFiniteSet(Session)
ASSUME InodesAreNumbered == Inode \subseteq Nat \ {0} /\ IsFiniteSet(Inode)
ASSUME ReuseIsBoolean == ReuseInodes \in BOOLEAN
ASSUME MaintenanceIsNoWorker == Maintenance \notin Worker
ASSUME BoundsAreNumbers ==
  PageSize \in Nat \ {0} /\ MaxTemp \in Nat /\ MaxCalls \in Nat /\ MaxCrashes \in Nat

VARIABLES
  phase,    \* "down", "cleaning" and "sweeping" (open_internal), "serving"
  life,     \* of the uploads row: "new", "reserving" (not committed), "live",
            \* "dead", "aborted" (never committed)
  inode,    \* file_identity of the uploads row
  dir,      \* the reservation directory: the inode of a name
  open,     \* sessions whose file an upload worker holds open
  jobs,     \* cleanup_outbox
  cursor,   \* scan_cursor of the jobs
  work,     \* what each cleaner is doing
  calls,    \* cleanups asked for by workers so far
  crashes   \* crashes so far

vars == <<phase, life, inode, dir, open, jobs, cursor, work, calls, crashes>>

-----------------------------------------------------------------------------
(* Names and inodes. *)

NoInode == 0
NoName == 0      \* scan_cursor IS NULL, and no candidate
NoJob == 0

Cleaner == {Maintenance} \cup Worker

\* ".cleanup-<uuid>.tmp" sorts before "<uuid>.upload".
Temp == 1 .. MaxTemp
Leaf(s) == MaxTemp + s
Name == Temp \cup {Leaf(s) : s \in Session}

Work == [at : {"idle", "named", "scan", "match", "take", "verify", "unlink", "record"},
         job : Session \cup {NoJob},
         cursor : Name \cup {NoName}, \* scan_cursor as read with the job
         page : SUBSET Name,          \* candidates of the scan
         next : Name \cup {NoName},   \* next_cursor of the scan
         scanned : BOOLEAN,           \* the candidate comes from the scan
         candidate : Name \cup {NoName},
         quarantine : Temp \cup {NoName},
         outcome : {"none", "removed", "continue", "failed"}]
Idle == [at |-> "idle", job |-> NoJob, cursor |-> NoName, page |-> {}, next |-> NoName,
         scanned |-> FALSE, candidate |-> NoName, quarantine |-> NoName, outcome |-> "none"]

TypeOK ==
  /\ phase \in {"down", "cleaning", "sweeping", "serving"}
  /\ life \in [Session -> {"new", "reserving", "live", "dead", "aborted"}]
  /\ inode \in [Session -> Inode \cup {NoInode}]
  /\ dir \in [Name -> Inode \cup {NoInode}]
  /\ open \in SUBSET Session
  /\ jobs \in SUBSET Session
  /\ cursor \in [Session -> Name \cup {NoName}]
  /\ work \in [Cleaner -> Work]
  /\ \A c \in Cleaner : /\ work[c].at # "idle" => work[c].job \in Session
                        /\ work[c].at = "take" => work[c].candidate \in Name
                        /\ work[c].at \in {"verify", "unlink"} => work[c].quarantine \in Temp
  /\ calls \in 0 .. MaxCalls
  /\ crashes \in 0 .. MaxCrashes

Init ==
  /\ phase = "serving"
  /\ life = [s \in Session |-> "new"]
  /\ inode = [s \in Session |-> NoInode]
  /\ dir = [n \in Name |-> NoInode]
  /\ open = {}
  /\ jobs = {}
  /\ cursor = [s \in Session |-> NoName]
  /\ work = [c \in Cleaner |-> Idle]
  /\ calls = 0
  /\ crashes = 0

Entries == {n \in Name : dir[n] # NoInode}
Linked(i) == \E n \in Name : dir[n] = i

\* An inode is free once no name and no open handle refers to it.
Free == {i \in Inode : /\ ~Linked(i)
                       /\ \A s \in open : inode[s] # i
                       /\ ReuseInodes \/ \A s \in Session : inode[s] # i}

\* A new UUID: a name that no entry has and no cleaner remembers.
Fresh == {n \in Temp \ Entries :
            \A c \in Cleaner : n # work[c].quarantine /\ n # work[c].candidate /\ n \notin work[c].page}

\* The write lock of the database is held by a reservation that is under way.
Locked == \E s \in Session : life[s] = "reserving"

Serving == phase = "serving"

-----------------------------------------------------------------------------
(* Sessions. *)

\* create_reserved_file, in the transaction of reserve.
CreateFile(s, i) ==
  /\ Serving /\ life[s] = "new" /\ ~Locked
  /\ i \in Free
  /\ life' = [life EXCEPT ![s] = "reserving"]
  /\ inode' = [inode EXCEPT ![s] = i]
  /\ dir' = [dir EXCEPT ![Leaf(s)] = i]
  /\ UNCHANGED <<phase, open, jobs, cursor, work, calls, crashes>>

CommitReservation(s) ==
  /\ Serving /\ life[s] = "reserving"
  /\ life' = [life EXCEPT ![s] = "live"]
  /\ UNCHANGED <<phase, inode, dir, open, jobs, cursor, work, calls, crashes>>

\* An error after the file was created: the guard removes it, then the transaction
\* rolls back.
RollBackReservation(s) ==
  /\ Serving /\ life[s] = "reserving"
  /\ life' = [life EXCEPT ![s] = "aborted"]
  /\ dir' = [n \in Name |-> IF dir[n] = inode[s] THEN NoInode ELSE dir[n]]
  /\ UNCHANGED <<phase, inode, open, jobs, cursor, work, calls, crashes>>

\* open_receiving_upload_file checks that the name still has the pinned identity.
OpenFile(s) ==
  /\ Serving /\ life[s] = "live" /\ s \notin open
  /\ dir[Leaf(s)] = inode[s]
  /\ open' = open \cup {s}
  /\ UNCHANGED <<phase, life, inode, dir, jobs, cursor, work, calls, crashes>>

CloseFile(s) ==
  /\ Serving /\ s \in open
  /\ open' = open \ {s}
  /\ UNCHANGED <<phase, life, inode, dir, jobs, cursor, work, calls, crashes>>

Die_LeavesOpenFiles(s) ==
  /\ Serving /\ life[s] = "live" /\ ~Locked
  /\ life' = [life EXCEPT ![s] = "dead"]
  /\ jobs' = IF s \in open THEN jobs ELSE jobs \cup {s}
  /\ UNCHANGED <<phase, inode, dir, open, cursor, work, calls, crashes>>

\* Every way a session dies (expire, reject, refund) enqueues its cleanup.
Die(s) ==
  /\ Serving /\ life[s] = "live" /\ ~Locked
  /\ life' = [life EXCEPT ![s] = "dead"]
  /\ jobs' = jobs \cup {s}
  /\ UNCHANGED <<phase, inode, dir, open, cursor, work, calls, crashes>>

SessionStep(s) ==
  \/ \E i \in Inode : CreateFile(s, i)
  \/ CommitReservation(s) \/ RollBackReservation(s)
  \/ OpenFile(s) \/ CloseFile(s)
  \/ Die(s)

-----------------------------------------------------------------------------
(* Cleaners: reconcile_cleanup_job_once.                                   *)

Goes(c, w) == work' = [work EXCEPT ![c] = w]

\* What a cleaner does changes nothing but the directory, the outbox and itself.
CleanerFrame == UNCHANGED <<life, inode, open, crashes>>

\* SELECT relative_path, file_identity, scan_cursor.
ReadJob(c, s) ==
  /\ work[c].at = "idle" /\ s \in jobs
  /\ \/ Serving
     \/ phase = "cleaning" /\ c = Maintenance
  /\ c = Maintenance \/ calls < MaxCalls
  /\ calls' = IF c = Maintenance THEN calls ELSE calls + 1
  /\ Goes(c, [Idle EXCEPT !.at = "named", !.job = s, !.cursor = cursor[s]])
  /\ UNCHANGED <<phase, dir, jobs, cursor>> /\ CleanerFrame

\* The known name first.
LookUpName(c) ==
  LET w == work[c]
  IN /\ w.at = "named"
     /\ Goes(c, IF dir[Leaf(w.job)] = inode[w.job]
                THEN [w EXCEPT !.at = "take", !.candidate = Leaf(w.job)]
                ELSE [w EXCEPT !.at = "scan"])
     /\ UNCHANGED <<phase, dir, jobs, cursor, calls>> /\ CleanerFrame

\* enumerate_identity_scan_page: the page after the cursor, from the start when
\* there is none, and the cursor of the next page.
Remaining(n) == LET later == {m \in Entries : m > n} IN IF later = {} THEN Entries ELSE later
Page(n) == {m \in Remaining(n) : Cardinality({k \in Remaining(n) : k < m}) < PageSize}
NextCursor(n, next) ==
  IF Page(n) = Remaining(n) THEN next = NoName
  ELSE next \in Page(n) /\ \A m \in Page(n) : m <= next

Scan(c) ==
  LET w == work[c]
  IN /\ w.at = "scan"
     /\ \E next \in Name \cup {NoName} :
          /\ NextCursor(w.cursor, next)
          /\ Goes(c, [w EXCEPT !.at = "match", !.page = Page(w.cursor), !.next = next])
     /\ UNCHANGED <<phase, dir, jobs, cursor, calls>> /\ CleanerFrame

\* The page did not hold the file: a failure if it was the whole directory.
Missed(w) == [w EXCEPT !.at = "record", !.page = {}, !.candidate = NoName,
                       !.outcome = IF w.next = NoName /\ w.cursor = NoName
                                   THEN "failed" ELSE "continue"]
\* remove_identity_entry returned false.
Lost(w) == IF w.scanned THEN Missed(w)
           ELSE [w EXCEPT !.at = "scan", !.candidate = NoName, !.quarantine = NoName]

Matches_AnyFile(c) == work[c].page \cap Entries
Matches(c) == {n \in work[c].page : dir[n] = inode[work[c].job]}

Match(c) ==
  LET w == work[c]
  IN /\ w.at = "match"
     /\ \/ /\ Matches(c) = {}
           /\ Goes(c, Missed(w))
        \/ \E n \in Matches(c) :
             Goes(c, [w EXCEPT !.at = "take", !.page = {}, !.scanned = TRUE, !.candidate = n])
     /\ UNCHANGED <<phase, dir, jobs, cursor, calls>> /\ CleanerFrame

\* rename_file(candidate, quarantine).
Take(c) ==
  LET w == work[c]
  IN /\ w.at = "take"
     /\ \/ /\ dir[w.candidate] = NoInode
           /\ Goes(c, Lost(w))
           /\ UNCHANGED dir
        \/ /\ dir[w.candidate] # NoInode
           /\ \E q \in Fresh :
                /\ \A r \in Fresh : q <= r
                /\ dir' = [dir EXCEPT ![w.candidate] = NoInode, ![q] = dir[w.candidate]]
                /\ Goes(c, [w EXCEPT !.at = "verify", !.quarantine = q])
     /\ UNCHANGED <<phase, jobs, cursor, calls>> /\ CleanerFrame

\* open_readonly_file(quarantine), twice: another cleaner may have taken it away.
Verify(c) ==
  LET w == work[c]
  IN /\ w.at = "verify"
     /\ Goes(c, IF dir[w.quarantine] = NoInode THEN Lost(w) ELSE [w EXCEPT !.at = "unlink"])
     /\ UNCHANGED <<phase, dir, jobs, cursor, calls>> /\ CleanerFrame

\* remove_file(quarantine).
Unlink(c) ==
  LET w == work[c]
  IN /\ w.at = "unlink"
     /\ dir' = [dir EXCEPT ![w.quarantine] = NoInode]
     /\ Goes(c, [w EXCEPT !.at = "record", !.candidate = NoName, !.quarantine = NoName,
                          !.outcome = IF dir[w.quarantine] = NoInode THEN "failed" ELSE "removed"])
     /\ UNCHANGED <<phase, jobs, cursor, calls>> /\ CleanerFrame

\* The transaction that records the outcome.
Record(c) ==
  LET w == work[c]
  IN /\ w.at = "record" /\ ~Locked
     /\ \/ w.outcome = "removed" /\ jobs' = jobs \ {w.job} /\ UNCHANGED cursor
        \/ /\ w.outcome = "continue" /\ w.job \in jobs
           /\ cursor' = [cursor EXCEPT ![w.job] = w.next] /\ UNCHANGED jobs
        \/ w.outcome = "failed" /\ w.job \in jobs /\ UNCHANGED <<jobs, cursor>>
     /\ Goes(c, Idle)
     /\ UNCHANGED <<phase, dir, calls>> /\ CleanerFrame

\* The transaction fails: it waited too long for the lock, or SELECT attempts finds
\* no row.  A worker ignores that, the maintenance pass stops the server.
Fails(c) ==
  LET w == work[c]
  IN /\ w.at = "record"
     /\ \/ Locked
        \/ w.outcome # "removed" /\ w.job \notin jobs
     /\ IF c = Maintenance
        THEN /\ phase' = "down" /\ open' = {}
             /\ life' = [s \in Session |-> IF life[s] = "reserving" THEN "aborted" ELSE life[s]]
             /\ work' = [d \in Cleaner |-> Idle]
        ELSE Goes(c, Idle) /\ UNCHANGED <<phase, open, life>>
     /\ UNCHANGED <<inode, dir, jobs, cursor, calls, crashes>>

CleanerStep(c) ==
  \/ \E s \in Session : ReadJob(c, s)
  \/ LookUpName(c) \/ Scan(c) \/ Match(c)
  \/ Take(c) \/ Verify(c) \/ Unlink(c)
  \/ Record(c) \/ Fails(c)

-----------------------------------------------------------------------------
(* Crash and restart. *)

Crash ==
  /\ phase # "down" /\ crashes < MaxCrashes
  /\ phase' = "down"
  /\ crashes' = crashes + 1
  /\ life' = [s \in Session |-> IF life[s] = "reserving" THEN "aborted" ELSE life[s]]
  /\ open' = {}
  /\ work' = [c \in Cleaner |-> Idle]
  /\ UNCHANGED <<inode, dir, jobs, cursor, calls>>

\* The first transaction of open_internal: the sessions D have been abandoned, the
\* others must still have their files.
OpenLedger(D) ==
  /\ phase = "down"
  /\ \A s \in D : life[s] = "live"
  /\ \A s \in Session \ D : life[s] = "live" => dir[Leaf(s)] = inode[s]
  /\ phase' = "cleaning"
  /\ life' = [s \in Session |-> IF s \in D THEN "dead" ELSE life[s]]
  /\ jobs' = jobs \cup D
  /\ UNCHANGED <<inode, dir, open, cursor, work, calls, crashes>>

\* The cleanup pass of open_internal is over.
EndPass ==
  /\ phase = "cleaning" /\ work[Maintenance].at = "idle"
  /\ phase' = "sweeping"
  /\ UNCHANGED <<life, inode, dir, open, jobs, cursor, work, calls, crashes>>

\* reconcile_unreferenced_files: every managed name that no row refers to.
Referenced_ByJobsOnly == {Leaf(s) : s \in jobs}
Referenced == {Leaf(s) : s \in {r \in Session : life[r] \in {"live", "dead"}}}
Orphans_QuarantinedOnly == (Entries \ Referenced) \cap Temp
Orphans == Entries \ Referenced

RemoveOrphan(n) ==
  /\ phase = "sweeping" /\ n \in Orphans
  /\ dir' = [dir EXCEPT ![n] = NoInode]
  /\ UNCHANGED <<phase, life, inode, open, jobs, cursor, work, calls, crashes>>

FinishOpen ==
  /\ phase = "sweeping" /\ Orphans = {}
  /\ phase' = "serving"
  /\ UNCHANGED <<life, inode, dir, open, jobs, cursor, work, calls, crashes>>

ProcessStep ==
  \/ Crash
  \/ \E D \in SUBSET Session : OpenLedger(D)
  \/ EndPass
  \/ \E n \in Name : RemoveOrphan(n)
  \/ FinishOpen

-----------------------------------------------------------------------------
Next ==
  \/ \E s \in Session : SessionStep(s)
  \/ \E c \in Cleaner : CleanerStep(c)
  \/ ProcessStep

Spec == Init /\ [][Next]_vars

\* What happens sooner or later: a reservation ends, the maintenance pass gets to every
\* job and finishes what it began, a stopped server is started again.
Fairness ==
  /\ \A s \in Session : /\ WF_vars(CommitReservation(s) \/ RollBackReservation(s))
                        /\ SF_vars(ReadJob(Maintenance, s))
  /\ \A c \in Cleaner : WF_vars(work[c].at # "idle" /\ CleanerStep(c))
  /\ WF_vars(ProcessStep /\ ~Crash)

FairSpec == Spec /\ Fairness

-----------------------------------------------------------------------------
(* Properties. *)

\* A session that lives has its file, under its own name and with its own inode,
\* whatever the cleaners of other sessions look for, move and unlink.
LiveFileKept == \A s \in Session : life[s] = "live" => dir[Leaf(s)] = inode[s]

\* Once the server serves, no file of the directory is forgotten: each belongs to a
\* session, or to one that is being reserved, or a job will look for its inode.
NothingForgotten ==
  Serving => \A n \in Entries :
               \/ \E s \in Session : n = Leaf(s) /\ life[s] \in {"reserving", "live"}
               \/ \E s \in jobs : inode[s] = dir[n]

\* A dead session's file is unlinked in the end: after a crash in the middle of its
\* cleanup, with two cleaners that take it from each other, page by page.
DeadFileIsRemoved == \A s \in Session : life[s] = "dead" ~> ~Linked(inode[s])

\* The refinement mapping: a session that is not committed is none; a file is present
\* while its inode has a name, be it the leaf or a quarantine name.
SessionLife == [s \in Session |-> IF life[s] \in {"live", "dead"} THEN life[s] ELSE "none"]
Present == {s \in Session : inode[s] # NoInode /\ Linked(inode[s])}

Reclaim == INSTANCE FileReclaim WITH life <- SessionLife, present <- Present

\* The steps of the cleaners, crashes and restarts implement the promise.
Implements == Reclaim!Promise

=============================================================================
