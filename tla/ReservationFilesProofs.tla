----------------------- MODULE ReservationFilesProofs -----------------------
(***************************************************************************)
(* If inodes are not reused, the cleaners never touch the file of a live   *)
(* session, their steps implement FileReclaim, and no file is forgotten,   *)
(* for any number of sessions, cleaners, crashes and names.                *)
(***************************************************************************)
EXTENDS ReservationFiles, TLAPS

-----------------------------------------------------------------------------
(* The inductive invariant. *)

\* Each session has an inode of its own, from the creation of its file on.
Distinct ==
  /\ \A s \in Session : (life[s] = "new") <=> (inode[s] = NoInode)
  /\ \A r, s \in Session : inode[r] = inode[s] /\ inode[r] # NoInode => r = s

\* An inode has one name at most, and is that of a session.
OneName ==
  /\ \A m, n \in Name : dir[m] = dir[n] /\ dir[m] # NoInode => m = n
  /\ \A n \in Name : dir[n] # NoInode => \E s \in Session : inode[s] = dir[n]

\* The leaf of a session names its inode or nothing, and names it while it lives.
Leaves ==
  \A s \in Session : /\ dir[Leaf(s)] \in {NoInode, inode[s]}
                     /\ life[s] \in {"reserving", "live"} => dir[Leaf(s)] = inode[s]

\* A cleaner works on a dead session, and holds no name but one of that session's file
\* (with the directory d, the lives l and the inodes i).
HoldsItsOwn(w, d, l, i) ==
  /\ w.at # "idle" => w.job \in Session /\ l[w.job] = "dead"
  /\ w.at = "take" => /\ w.candidate \in Temp \cup {Leaf(w.job)}
                      /\ d[w.candidate] \in {NoInode, i[w.job]}
  /\ w.at \in {"verify", "unlink"} => /\ w.quarantine \in Temp
                                      /\ d[w.quarantine] \in {NoInode, i[w.job]}

CleanersKnow == /\ \A s \in jobs : life[s] = "dead"
                /\ \A c \in Cleaner : HoldsItsOwn(work[c], dir, life, inode)

\* No reservation is under way when the server is not serving: what the sweep of the
\* directory removes is not a file of one.
NonePending == phase # "serving" => \A s \in Session : life[s] # "reserving"

FilesInvariant == TypeOK /\ Distinct /\ OneName /\ Leaves /\ CleanersKnow /\ NonePending

-----------------------------------------------------------------------------
(* Names and records. *)

\* Names are numbers; a leaf is no quarantine name and belongs to one session.
LEMMA Names ==
  /\ Name \subseteq Nat \ {NoName}
  /\ \A s \in Session : Leaf(s) \in Name /\ Leaf(s) \notin Temp
  /\ \A r, s \in Session : Leaf(r) = Leaf(s) => r = s
  /\ Temp \subseteq Name
  /\ \A i \in Inode : i # NoInode
  /\ NoJob \notin Session
BY SessionsAreNumbered, InodesAreNumbered, BoundsAreNumbers
   DEF Name, Leaf, Temp, NoName, NoInode, NoJob

\* A cleaner that has nothing to do is well typed.
LEMMA IdleType == Idle \in Work
BY DEF Idle, Work

\* What a cleaner's record becomes is a record of its type.
LEMMA WorkType ==
  ASSUME NEW w \in Work
  PROVE  /\ Missed(w) \in Work
         /\ Lost(w) \in Work
         /\ [w EXCEPT !.at = "scan"] \in Work
         /\ [w EXCEPT !.at = "unlink"] \in Work
         /\ \A n \in Name : [w EXCEPT !.at = "take", !.candidate = n] \in Work
         /\ \A n \in Name : [w EXCEPT !.at = "take", !.page = {}, !.scanned = TRUE,
                                      !.candidate = n] \in Work
         /\ \A q \in Temp : [w EXCEPT !.at = "verify", !.quarantine = q] \in Work
<1>1. Missed(w) \in Work
  BY DEF Missed, Work
<1>2. [w EXCEPT !.at = "scan", !.candidate = NoName, !.quarantine = NoName] \in Work
  BY DEF Work
<1>3. Lost(w) \in Work
  BY <1>1, <1>2 DEF Lost
<1>4. [w EXCEPT !.at = "scan"] \in Work /\ [w EXCEPT !.at = "unlink"] \in Work
  BY DEF Work
<1>5. \A n \in Name : [w EXCEPT !.at = "take", !.candidate = n] \in Work
  BY DEF Work
<1>6. \A n \in Name : [w EXCEPT !.at = "take", !.page = {}, !.scanned = TRUE,
                                !.candidate = n] \in Work
  BY DEF Work
<1>7. \A q \in Temp : [w EXCEPT !.at = "verify", !.quarantine = q] \in Work
  BY DEF Work
<1>8. QED
  BY <1>1, <1>3, <1>4, <1>5, <1>6, <1>7

\* A cleaner that gives a file up is at none of the steps that hold a name.
LEMMA GivesUp ==
  ASSUME NEW w \in Work
  PROVE  /\ Missed(w).at = "record" /\ Missed(w).job = w.job
         /\ Lost(w).at \in {"scan", "record"} /\ Lost(w).job = w.job
<1>1. Missed(w).at = "record" /\ Missed(w).job = w.job
  BY DEF Missed, Work
<1>2. QED
  BY <1>1 DEF Lost, Work

\* What a cleaner has moved away it is about to verify.
LEMMA Quarantines ==
  ASSUME NEW w \in Work, NEW q \in Temp
  PROVE  /\ [w EXCEPT !.at = "verify", !.quarantine = q].at = "verify"
         /\ [w EXCEPT !.at = "verify", !.quarantine = q].quarantine = q
         /\ [w EXCEPT !.at = "verify", !.quarantine = q].job = w.job
BY DEF Work

\* The record of a cleaner that has unlinked its file.
LEMMA Unlinks ==
  ASSUME NEW w \in Work, NEW v, NEW o \in {"removed", "failed"},
         v = [w EXCEPT !.at = "record", !.candidate = NoName, !.quarantine = NoName,
                       !.outcome = o]
  PROVE  v \in Work /\ v.at = "record" /\ v.job = w.job
BY DEF Work

-----------------------------------------------------------------------------
(* Steps of the sessions. *)

\* The steps of a session preserve the invariant, if no inode is reused.
LEMMA SessionKeepsFiles ==
  ASSUME FilesInvariant, ReuseInodes = FALSE, NEW s \in Session, SessionStep(s)
  PROVE  FilesInvariant'
<1> USE DEF FilesInvariant
<1>1. ASSUME NEW i \in Inode, CreateFile(s, i)
      PROVE  FilesInvariant'
  <2>1. /\ life[s] = "new" /\ inode[s] = NoInode /\ dir[Leaf(s)] = NoInode
        /\ i # NoInode /\ \A r \in Session : inode[r] # i
        /\ \A n \in Name : dir[n] # i
    BY <1>1, Names DEF CreateFile, Distinct, Leaves, Free, Linked
  <2>2. /\ life' = [life EXCEPT ![s] = "reserving"]
        /\ inode' = [inode EXCEPT ![s] = i]
        /\ dir' = [dir EXCEPT ![Leaf(s)] = i]
        /\ UNCHANGED <<phase, open, jobs, cursor, work, calls, crashes>>
    BY <1>1 DEF CreateFile
  <2>3. TypeOK'
    BY <2>2, Names DEF TypeOK
  <2>4. Distinct'
    BY <2>1, <2>2 DEF Distinct, TypeOK
  <2>5. OneName'
    BY <2>1, <2>2, Names DEF OneName, TypeOK
  <2>6. Leaves'
    BY <2>1, <2>2, Names DEF Leaves, TypeOK
  <2>7. CleanersKnow'
    <3>1. \A r \in jobs' : life'[r] = "dead"
      BY <2>1, <2>2 DEF CleanersKnow, TypeOK
    <3>2. \A n \in Temp : dir'[n] = dir[n]
      BY <2>2, Names DEF TypeOK
    <3>3. \A r \in Session \ {s} : /\ dir'[Leaf(r)] = dir[Leaf(r)]
                                   /\ inode'[r] = inode[r] /\ life'[r] = life[r]
      BY <2>2, Names DEF TypeOK
    <3>4. ASSUME NEW c \in Cleaner
          PROVE  HoldsItsOwn(work[c], dir, life, inode)'
      <4>1. HoldsItsOwn(work[c], dir, life, inode) /\ work'[c] = work[c]
        BY <2>2 DEF CleanersKnow
      <4>2. work[c].at # "idle" => work[c].job \in Session \ {s}
        BY <2>1, <4>1 DEF HoldsItsOwn
      <4>3. QED
        BY <3>2, <3>3, <4>1, <4>2 DEF HoldsItsOwn
    <3>5. QED
      BY <3>1, <3>4 DEF CleanersKnow
  <2>8. NonePending'
    BY <1>1, <2>2 DEF CreateFile, Serving, NonePending
  <2>9. QED
    BY <2>3, <2>4, <2>5, <2>6, <2>7, <2>8
<1>2. ASSUME CommitReservation(s)
      PROVE  FilesInvariant'
  <2>1. TypeOK' /\ Distinct' /\ OneName' /\ Leaves'
    BY <1>2 DEF CommitReservation, TypeOK, Distinct, OneName, Leaves
  <2>2. CleanersKnow'
    BY <1>2 DEF CommitReservation, CleanersKnow, HoldsItsOwn, TypeOK
  <2>3. NonePending'
    BY <1>2 DEF CommitReservation, Serving, NonePending
  <2>4. QED
    BY <2>1, <2>2, <2>3
<1>3. ASSUME RollBackReservation(s)
      PROVE  FilesInvariant'
  <2>1. /\ life[s] = "reserving" /\ life' = [life EXCEPT ![s] = "aborted"]
        /\ dir' = [n \in Name |-> IF dir[n] = inode[s] THEN NoInode ELSE dir[n]]
        /\ UNCHANGED <<phase, inode, open, jobs, cursor, work, calls, crashes>>
    BY <1>3 DEF RollBackReservation
  <2>2. \A r \in Session \ {s} : inode[r] = inode[s] => inode[r] = NoInode
    BY DEF Distinct
  <2>3. TypeOK'
    BY <2>1, Names DEF TypeOK
  <2>4. Distinct' /\ OneName'
    BY <2>1 DEF Distinct, OneName, TypeOK
  <2>5. Leaves'
    BY <2>1, <2>2, Names DEF Leaves, TypeOK
  <2>6. CleanersKnow'
    <3>1. \A n \in Name : dir'[n] \in {dir[n], NoInode}
      BY <2>1
    <3>2. \A r \in Session : life[r] = "dead" => life'[r] = "dead"
      BY <2>1 DEF TypeOK
    <3>3. ASSUME NEW c \in Cleaner
          PROVE  HoldsItsOwn(work[c], dir, life, inode)'
      <4>1. HoldsItsOwn(work[c], dir, life, inode) /\ work'[c] = work[c] /\ inode' = inode
        BY <2>1 DEF CleanersKnow
      <4>2. QED
        BY <3>1, <3>2, <4>1, Names DEF HoldsItsOwn
    <3>4. \A r \in jobs' : life'[r] = "dead"
      BY <2>1, <3>2 DEF CleanersKnow, TypeOK
    <3>5. QED
      BY <3>3, <3>4 DEF CleanersKnow
  <2>7. NonePending'
    BY <1>3, <2>1 DEF RollBackReservation, Serving, NonePending
  <2>8. QED
    BY <2>3, <2>4, <2>5, <2>6, <2>7
<1>4. ASSUME OpenFile(s) \/ CloseFile(s)
      PROVE  FilesInvariant'
  <2>1. /\ open' \in SUBSET Session
        /\ UNCHANGED <<phase, life, inode, dir, jobs, cursor, work, calls, crashes>>
    BY <1>4 DEF OpenFile, CloseFile, TypeOK
  <2>2. QED
    BY <2>1 DEF TypeOK, Distinct, OneName, Leaves, CleanersKnow, HoldsItsOwn, NonePending
<1>5. ASSUME Die(s)
      PROVE  FilesInvariant'
  <2>1. TypeOK' /\ Distinct' /\ OneName' /\ Leaves'
    BY <1>5 DEF Die, TypeOK, Distinct, OneName, Leaves
  <2>2. CleanersKnow'
    BY <1>5 DEF Die, CleanersKnow, HoldsItsOwn, TypeOK
  <2>3. NonePending'
    BY <1>5 DEF Die, Serving, NonePending
  <2>4. QED
    BY <2>1, <2>2, <2>3
<1>6. QED
  BY <1>1, <1>2, <1>3, <1>4, <1>5 DEF SessionStep

-----------------------------------------------------------------------------
(* Steps of the cleaners. *)

\* A cleaner that holds what is its own is well formed.
LEMMA OwnIsWellFormed ==
  ASSUME NEW w \in Work, NEW d, NEW l, NEW i, HoldsItsOwn(w, d, l, i)
  PROVE  /\ w.at # "idle" => w.job \in Session
         /\ w.at = "take" => w.candidate \in Name
         /\ w.at \in {"verify", "unlink"} => w.quarantine \in Temp
BY Names DEF HoldsItsOwn, Work

\* A step of a cleaner that leaves the directory alone preserves the invariant, if the
\* cleaner's new record holds nothing but its own.
LEMMA QuietStep ==
  ASSUME FilesInvariant, NEW c \in Cleaner, NEW w \in Work, HoldsItsOwn(w, dir, life, inode), Goes(c, w),
         UNCHANGED <<phase, life, inode, dir, open, crashes>>,
         jobs' \in SUBSET jobs, cursor' \in [Session -> Name \cup {NoName}],
         calls' \in 0 .. MaxCalls
  PROVE  FilesInvariant'
<1> USE DEF FilesInvariant
<1>1. work' = [work EXCEPT ![c] = w] /\ work \in [Cleaner -> Work]
  BY DEF Goes, TypeOK
<1>2. ASSUME NEW d \in Cleaner
      PROVE  HoldsItsOwn(work[d], dir, life, inode)'
  <2>1. HoldsItsOwn(work[d], dir, life, inode)
    BY DEF CleanersKnow
  <2>2. work'[d] = IF d = c THEN w ELSE work[d]
    BY <1>1
  <2>3. HoldsItsOwn(work'[d], dir', life', inode')
    BY <2>1, <2>2
  <2>4. QED
    BY <2>3 DEF HoldsItsOwn
<1>3. CleanersKnow'
  BY <1>2 DEF CleanersKnow
<1>4. TypeOK'
  <2>1. work' \in [Cleaner -> Work]
    BY <1>1
  <2>2. \A d \in Cleaner : work'[d] \in Work /\ HoldsItsOwn(work'[d], dir', life', inode')
    BY <1>2, <2>1 DEF HoldsItsOwn
  <2>3. \A d \in Cleaner : /\ work'[d].at # "idle" => work'[d].job \in Session
                           /\ work'[d].at = "take" => work'[d].candidate \in Name
                           /\ work'[d].at \in {"verify", "unlink"} => work'[d].quarantine \in Temp
    BY <2>2, OwnIsWellFormed
  <2>4. QED
    BY <2>1, <2>3 DEF TypeOK
<1>5. Distinct' /\ OneName' /\ Leaves' /\ NonePending'
  BY DEF Distinct, OneName, Leaves, NonePending
<1>6. QED
  BY <1>3, <1>4, <1>5

\* Looking for a file, losing it and recording the outcome preserve the invariant.
LEMMA LookingKeepsFiles ==
  ASSUME FilesInvariant, NEW c \in Cleaner,
         \/ \E s \in Session : ReadJob(c, s)
         \/ LookUpName(c) \/ Scan(c) \/ Match(c) \/ Verify(c) \/ Record(c)
         \/ Take(c) /\ dir[work[c].candidate] = NoInode
  PROVE  FilesInvariant'
<1> DEFINE w == work[c]
<1>1. /\ w \in Work /\ HoldsItsOwn(w, dir, life, inode) /\ cursor \in [Session -> Name \cup {NoName}]
      /\ calls \in 0 .. MaxCalls /\ inode \in [Session -> Inode \cup {NoInode}]
  BY DEF FilesInvariant, TypeOK, CleanersKnow
<1>2. \/ w.at = "idle"
      \/ /\ HoldsItsOwn(Lost(w), dir, life, inode)
         /\ HoldsItsOwn(Missed(w), dir, life, inode)
  BY <1>1, GivesUp DEF HoldsItsOwn
<1>3. ASSUME NEW s \in Session, ReadJob(c, s)
      PROVE  FilesInvariant'
  <2> DEFINE v == [Idle EXCEPT !.at = "named", !.job = s, !.cursor = cursor[s]]
  <2>1. v \in Work /\ v.at = "named" /\ v.job = s
    BY <1>1 DEF Idle, Work
  <2>2. life[s] = "dead"
    BY <1>3 DEF ReadJob, FilesInvariant, CleanersKnow
  <2>3. HoldsItsOwn(v, dir, life, inode)
    BY <2>1, <2>2 DEF HoldsItsOwn
  <2>4. Goes(c, v) /\ UNCHANGED <<phase, life, inode, dir, open, jobs, cursor, crashes>>
    BY <1>3 DEF ReadJob, CleanerFrame
  <2>5. calls' \in 0 .. MaxCalls
    <3>1. CASE c = Maintenance
      BY <1>1, <1>3, <3>1 DEF ReadJob
    <3>2. CASE c # Maintenance
      <4>1. calls' = calls + 1 /\ calls < MaxCalls
        BY <1>3, <3>2 DEF ReadJob
      <4>2. QED
        BY <1>1, <4>1, BoundsAreNumbers
    <3>3. QED
      BY <3>1, <3>2
  <2> HIDE DEF v
  <2>6. QED
    BY <1>1, <2>1, <2>3, <2>4, <2>5, QuietStep
<1>4. ASSUME LookUpName(c)
      PROVE  FilesInvariant'
  <2> DEFINE v == IF dir[Leaf(w.job)] = inode[w.job]
                  THEN [w EXCEPT !.at = "take", !.candidate = Leaf(w.job)]
                  ELSE [w EXCEPT !.at = "scan"]
  <2>1. w.at = "named" /\ w.job \in Session /\ life[w.job] = "dead"
    BY <1>1, <1>4 DEF LookUpName, HoldsItsOwn
  <2>2. v \in Work
    BY <1>1, <2>1, WorkType, Names
  <2>3. HoldsItsOwn(v, dir, life, inode)
    BY <1>1, <2>1 DEF HoldsItsOwn, Work
  <2>4. Goes(c, v) /\ UNCHANGED <<phase, life, inode, dir, open, jobs, cursor, calls, crashes>>
    BY <1>4 DEF LookUpName, CleanerFrame
  <2> HIDE DEF v
  <2>5. QED
    BY <1>1, <2>2, <2>3, <2>4, QuietStep
<1>5. ASSUME Scan(c)
      PROVE  FilesInvariant'
  <2>1. PICK next \in Name \cup {NoName} :
          Goes(c, [w EXCEPT !.at = "match", !.page = Page(w.cursor), !.next = next])
    BY <1>5 DEF Scan
  <2> DEFINE v == [w EXCEPT !.at = "match", !.page = Page(w.cursor), !.next = next]
  <2>2. w.at = "scan" /\ w.job \in Session /\ life[w.job] = "dead"
    BY <1>1, <1>5 DEF Scan, HoldsItsOwn
  <2>3. Page(w.cursor) \in SUBSET Name
    BY DEF Page, Remaining, Entries
  <2>4. v \in Work
    BY <1>1, <2>3 DEF Work
  <2>5. HoldsItsOwn(v, dir, life, inode)
    BY <1>1, <2>2 DEF HoldsItsOwn, Work
  <2>6. Goes(c, v) /\ UNCHANGED <<phase, life, inode, dir, open, jobs, cursor, calls, crashes>>
    BY <1>5, <2>1 DEF Scan, CleanerFrame
  <2> HIDE DEF v
  <2>7. QED
    BY <1>1, <2>4, <2>5, <2>6, QuietStep
<1>6. ASSUME Match(c)
      PROVE  FilesInvariant'
  <2>1. /\ w.at = "match" /\ w.job \in Session /\ life[w.job] = "dead"
        /\ inode[w.job] # NoInode
    BY <1>1, <1>6 DEF Match, HoldsItsOwn, FilesInvariant, Distinct
  <2>2. UNCHANGED <<phase, life, inode, dir, open, jobs, cursor, calls, crashes>>
    BY <1>6 DEF Match, CleanerFrame
  <2>3. CASE Goes(c, Missed(w))
    BY <1>1, <1>2, <2>1, <2>2, <2>3, WorkType, QuietStep
  <2>4. ASSUME NEW n \in Matches(c),
               Goes(c, [w EXCEPT !.at = "take", !.page = {}, !.scanned = TRUE, !.candidate = n])
        PROVE  FilesInvariant'
    <3> DEFINE v == [w EXCEPT !.at = "take", !.page = {}, !.scanned = TRUE, !.candidate = n]
    <3>1. n \in Name /\ dir[n] = inode[w.job]
      BY <1>1 DEF Matches, Work
    <3>2. n \in Temp \cup {Leaf(w.job)}
      <4>1. ASSUME NEW r \in Session, n = Leaf(r)
            PROVE  r = w.job
        BY <2>1, <3>1, <4>1 DEF FilesInvariant, Distinct, Leaves
      <4>2. QED
        BY <3>1, <4>1 DEF Name
    <3>3. v \in Work
      BY <1>1, <3>1, WorkType
    <3>4. HoldsItsOwn(v, dir, life, inode)
      BY <1>1, <2>1, <3>1, <3>2 DEF HoldsItsOwn, Work
    <3> HIDE DEF v
    <3>5. Goes(c, v)
      BY <2>4 DEF v
    <3>6. QED
      BY <1>1, <2>2, <3>3, <3>4, <3>5, QuietStep
  <2>5. QED
    BY <1>6, <2>3, <2>4 DEF Match
<1>7. ASSUME Verify(c)
      PROVE  FilesInvariant'
  <2> DEFINE v == IF dir[w.quarantine] = NoInode THEN Lost(w) ELSE [w EXCEPT !.at = "unlink"]
  <2>1. w.at = "verify"
    BY <1>7 DEF Verify
  <2>2. v \in Work
    BY <1>1, WorkType
  <2>3. HoldsItsOwn([w EXCEPT !.at = "unlink"], dir, life, inode)
    BY <1>1, <2>1 DEF HoldsItsOwn, Work
  <2>4. HoldsItsOwn(v, dir, life, inode)
    BY <1>2, <2>1, <2>3
  <2>5. Goes(c, v) /\ UNCHANGED <<phase, life, inode, dir, open, jobs, cursor, calls, crashes>>
    BY <1>7 DEF Verify, CleanerFrame
  <2> HIDE DEF v
  <2>6. QED
    BY <1>1, <2>2, <2>4, <2>5, QuietStep
<1>8. ASSUME Record(c)
      PROVE  FilesInvariant'
  <2>1. Idle \in Work /\ HoldsItsOwn(Idle, dir, life, inode)
    BY IdleType DEF HoldsItsOwn, Idle
  <2>2. /\ Goes(c, Idle) /\ jobs' \in SUBSET jobs
        /\ UNCHANGED <<phase, life, inode, dir, open, calls, crashes>>
    BY <1>8 DEF Record, CleanerFrame, FilesInvariant, TypeOK
  <2>3. cursor' \in [Session -> Name \cup {NoName}]
    BY <1>1, <1>8 DEF Record, Work
  <2>4. QED
    BY <1>1, <2>1, <2>2, <2>3, QuietStep
<1>9. ASSUME Take(c), dir[w.candidate] = NoInode
      PROVE  FilesInvariant'
  <2>1. /\ Goes(c, Lost(w)) /\ w.at = "take"
        /\ UNCHANGED <<phase, life, inode, dir, open, jobs, cursor, calls, crashes>>
    BY <1>9 DEF Take, CleanerFrame
  <2>2. HoldsItsOwn(Lost(w), dir, life, inode) /\ Lost(w) \in Work
    BY <1>1, <1>2, <2>1, WorkType
  <2>3. QED
    BY <1>1, <2>1, <2>2, QuietStep
<1>10. QED
  BY <1>3, <1>4, <1>5, <1>6, <1>7, <1>8, <1>9

\* The other cleaners keep what is theirs when a name changes that they do not hold,
\* or that changes to nothing.
LEMMA OthersKeepTheirs ==
  ASSUME FilesInvariant, NEW d \in Cleaner,
         UNCHANGED <<life, inode>>, work'[d] = work[d],
         \A n \in Name : \/ dir'[n] \in {dir[n], NoInode}
                         \/ n \in Fresh
  PROVE  HoldsItsOwn(work[d], dir, life, inode)'
<1>1. HoldsItsOwn(work[d], dir, life, inode) /\ work[d] \in Work
  BY DEF FilesInvariant, CleanersKnow, TypeOK
<1>2. work[d].at = "take" => /\ work[d].candidate \in Name
                             /\ work[d].candidate \notin Fresh
  BY <1>1, OwnIsWellFormed DEF Fresh
<1>3. work[d].at \in {"verify", "unlink"} => /\ work[d].quarantine \in Name
                                             /\ work[d].quarantine \notin Fresh
  BY <1>1, OwnIsWellFormed, Names DEF Fresh
<1>4. QED
  BY <1>1, <1>2, <1>3 DEF HoldsItsOwn

\* Moving the file of a dead session to a fresh quarantine name preserves the invariant.
LEMMA TakingKeepsFiles ==
  ASSUME FilesInvariant, NEW c \in Cleaner, Take(c), dir[work[c].candidate] # NoInode
  PROVE  FilesInvariant'
<1> DEFINE w == work[c]
           n == w.candidate
<1>1. PICK q \in Fresh : /\ dir' = [dir EXCEPT ![n] = NoInode, ![q] = dir[n]]
                         /\ Goes(c, [w EXCEPT !.at = "verify", !.quarantine = q])
  BY DEF Take
<1> DEFINE v == [w EXCEPT !.at = "verify", !.quarantine = q]
<1>2. UNCHANGED <<phase, life, inode, open, jobs, cursor, calls, crashes>>
  BY DEF Take, CleanerFrame
<1>3. /\ w \in Work /\ HoldsItsOwn(w, dir, life, inode) /\ w.at = "take"
      /\ dir \in [Name -> Inode \cup {NoInode}] /\ work \in [Cleaner -> Work]
  BY DEF Take, FilesInvariant, TypeOK, CleanersKnow
<1>4. /\ w.job \in Session /\ life[w.job] = "dead" /\ dir[n] = inode[w.job]
      /\ n \in Temp \cup {Leaf(w.job)} /\ n \in Name /\ n # q
  BY <1>1, <1>3, Names DEF HoldsItsOwn, Fresh, Entries
<1>5. q \in Temp /\ q \in Name /\ dir[q] = NoInode
  BY Names DEF Fresh, Entries
<1>6. \A m \in Name : dir'[m] = IF m = q THEN dir[n] ELSE IF m = n THEN NoInode ELSE dir[m]
  BY <1>1, <1>3, <1>4, <1>5
<1>7. v \in Work /\ HoldsItsOwn(v, dir', life', inode')
  <2>1. v \in Work
    BY <1>3, <1>5, WorkType
  <2>2. v.at = "verify" /\ v.quarantine = q /\ v.job = w.job
    BY <1>3, <1>5, Quarantines
  <2> HIDE DEF v
  <2>3. QED
    BY <1>2, <1>4, <1>5, <1>6, <2>1, <2>2 DEF HoldsItsOwn
<1>8. work' = [work EXCEPT ![c] = v]
  BY <1>1 DEF Goes
<1> HIDE DEF v
<1>9. ASSUME NEW d \in Cleaner
      PROVE  HoldsItsOwn(work[d], dir, life, inode)'
  <2>1. CASE d = c
    <3>1. work'[c] = v
      BY <1>3, <1>8
    <3>2. QED
      BY <1>7, <2>1, <3>1 DEF HoldsItsOwn
  <2>2. CASE d # c
    <3>1. work'[d] = work[d]
      BY <1>3, <1>8, <2>2
    <3>2. \A m \in Name : dir'[m] \in {dir[m], NoInode} \/ m \in Fresh
      BY <1>6
    <3>3. QED
      BY <1>2, <3>1, <3>2, OthersKeepTheirs
  <2>3. QED
    BY <2>1, <2>2
<1>10. CleanersKnow'
  BY <1>2, <1>9 DEF FilesInvariant, CleanersKnow
<1>11. TypeOK'
  <2>1. work' \in [Cleaner -> Work]
    BY <1>3, <1>7, <1>8
  <2>2. \A d \in Cleaner : work'[d] \in Work /\ HoldsItsOwn(work'[d], dir', life', inode')
    BY <1>9, <2>1
  <2>3. \A d \in Cleaner : /\ work'[d].at # "idle" => work'[d].job \in Session
                           /\ work'[d].at = "take" => work'[d].candidate \in Name
                           /\ work'[d].at \in {"verify", "unlink"} => work'[d].quarantine \in Temp
    BY <2>2, OwnIsWellFormed
  <2>4. dir' \in [Name -> Inode \cup {NoInode}]
    BY <1>1, <1>3, <1>4
  <2>5. QED
    BY <1>2, <2>1, <2>3, <2>4 DEF FilesInvariant, TypeOK
<1>12. Distinct' /\ OneName'
  BY <1>2, <1>4, <1>5, <1>6 DEF FilesInvariant, Distinct, OneName
<1>13. Leaves'
  <2>1. \A s \in Session : Leaf(s) \in Name /\ Leaf(s) # q
    BY <1>5, Names
  <2>2. \A s \in Session : life[s] \in {"reserving", "live"} => Leaf(s) # n
    BY <1>4, Names
  <2>3. QED
    BY <1>2, <1>6, <2>1, <2>2 DEF FilesInvariant, Leaves
<1>14. NonePending'
  BY <1>2 DEF FilesInvariant, NonePending
<1>15. QED
  BY <1>10, <1>11, <1>12, <1>13, <1>14 DEF FilesInvariant

\* Unlinking a quarantined file of a dead session preserves the invariant.
LEMMA UnlinkKeepsFiles ==
  ASSUME FilesInvariant, NEW c \in Cleaner, Unlink(c)
  PROVE  FilesInvariant'
<1> DEFINE w == work[c]
           q == w.quarantine
<1>1. /\ w \in Work /\ HoldsItsOwn(w, dir, life, inode) /\ w.at = "unlink"
      /\ dir \in [Name -> Inode \cup {NoInode}] /\ work \in [Cleaner -> Work]
      /\ dir' = [dir EXCEPT ![q] = NoInode]
      /\ UNCHANGED <<phase, life, inode, open, jobs, cursor, calls, crashes>>
  BY DEF Unlink, CleanerFrame, FilesInvariant, TypeOK, CleanersKnow
<1>2. /\ w.job \in Session /\ life[w.job] = "dead" /\ q \in Temp /\ q \in Name
  BY <1>1, Names DEF HoldsItsOwn
<1>3. \A m \in Name : dir'[m] = IF m = q THEN NoInode ELSE dir[m]
  BY <1>1
<1> DEFINE o == IF dir[q] = NoInode THEN "failed" ELSE "removed"
           v == [w EXCEPT !.at = "record", !.candidate = NoName, !.quarantine = NoName,
                          !.outcome = o]
<1>4. v \in Work /\ v.at = "record" /\ v.job = w.job /\ work' = [work EXCEPT ![c] = v]
  <2>1. o \in {"removed", "failed"}
    OBVIOUS
  <2>2. work' = [work EXCEPT ![c] = v]
    BY DEF Unlink, Goes
  <2> HIDE DEF o
  <2>3. QED
    BY <1>1, <2>1, <2>2, Unlinks
<1> HIDE DEF v, o
<1>5. ASSUME NEW d \in Cleaner
      PROVE  HoldsItsOwn(work'[d], dir', life', inode')
  <2>1. CASE d = c
    BY <1>1, <1>2, <1>4, <2>1 DEF HoldsItsOwn
  <2>2. CASE d # c
    <3>1. work'[d] = work[d]
      BY <1>1, <1>4, <2>2
    <3>2. \A m \in Name : dir'[m] \in {dir[m], NoInode} \/ m \in Fresh
      BY <1>3
    <3>3. QED
      BY <1>1, <3>1, <3>2, OthersKeepTheirs
  <2>3. QED
    BY <2>1, <2>2
<1>6. CleanersKnow'
  BY <1>1, <1>5 DEF FilesInvariant, CleanersKnow
<1>7. TypeOK'
  <2>1. work' \in [Cleaner -> Work]
    BY <1>1, <1>4
  <2>2. \A d \in Cleaner : /\ work'[d].at # "idle" => work'[d].job \in Session
                           /\ work'[d].at = "take" => work'[d].candidate \in Name
                           /\ work'[d].at \in {"verify", "unlink"} => work'[d].quarantine \in Temp
    BY <1>5, <2>1, OwnIsWellFormed
  <2>3. dir' \in [Name -> Inode \cup {NoInode}]
    BY <1>1
  <2>4. QED
    BY <1>1, <2>1, <2>2, <2>3 DEF FilesInvariant, TypeOK
<1>8. Distinct' /\ OneName' /\ NonePending'
  BY <1>1, <1>3 DEF FilesInvariant, Distinct, OneName, NonePending
<1>9. Leaves'
  BY <1>1, <1>2, <1>3, Names DEF FilesInvariant, Leaves
<1>10. QED
  BY <1>6, <1>7, <1>8, <1>9 DEF FilesInvariant

-----------------------------------------------------------------------------
(* Crashes, restarts and the steps of open_internal. *)

\* The end of the process preserves the invariant: what was being done is lost.
LEMMA StopKeepsFiles ==
  ASSUME FilesInvariant, phase' = "down", open' = {},
         life' = [s \in Session |-> IF life[s] = "reserving" THEN "aborted" ELSE life[s]],
         work' = [d \in Cleaner |-> Idle], crashes' \in 0 .. MaxCrashes,
         UNCHANGED <<inode, dir, jobs, cursor, calls>>
  PROVE  FilesInvariant'
<1> USE DEF FilesInvariant
<1>1. \A s \in Session : life'[s] = IF life[s] = "reserving" THEN "aborted" ELSE life[s]
  OBVIOUS
<1>2. TypeOK'
  <2>1. Idle.at = "idle" /\ Idle \in Work
    BY IdleType DEF Idle
  <2>2. QED
    BY <2>1 DEF TypeOK
<1>3. CleanersKnow'
  <2>1. \A s \in jobs' : life'[s] = "dead"
    BY <1>1 DEF CleanersKnow, TypeOK
  <2>2. \A d \in Cleaner : HoldsItsOwn(work'[d], dir', life', inode')
    BY DEF HoldsItsOwn, Idle
  <2>3. QED
    BY <2>1, <2>2 DEF CleanersKnow
<1>4. Distinct' /\ OneName' /\ Leaves' /\ NonePending'
  BY <1>1 DEF TypeOK, Distinct, OneName, Leaves, NonePending
<1>5. QED
  BY <1>2, <1>3, <1>4

\* A transaction that fails preserves the invariant.
LEMMA FailureKeepsFiles ==
  ASSUME FilesInvariant, NEW c \in Cleaner, Fails(c)
  PROVE  FilesInvariant'
<1>1. CASE c = Maintenance
  <2>1. /\ phase' = "down" /\ open' = {} /\ work' = [d \in Cleaner |-> Idle]
        /\ life' = [s \in Session |-> IF life[s] = "reserving" THEN "aborted" ELSE life[s]]
        /\ UNCHANGED <<inode, dir, jobs, cursor, calls, crashes>>
    BY <1>1 DEF Fails
  <2>2. crashes' \in 0 .. MaxCrashes
    BY <2>1 DEF FilesInvariant, TypeOK
  <2>3. QED
    BY <2>1, <2>2, StopKeepsFiles
<1>2. CASE c # Maintenance
  <2>1. Goes(c, Idle) /\ UNCHANGED <<phase, life, inode, dir, open, jobs, cursor, calls, crashes>>
    BY <1>2 DEF Fails
  <2>2. Idle \in Work /\ HoldsItsOwn(Idle, dir, life, inode)
    BY IdleType DEF HoldsItsOwn, Idle
  <2>3. cursor' \in [Session -> Name \cup {NoName}] /\ calls' \in 0 .. MaxCalls
    BY <2>1 DEF FilesInvariant, TypeOK
  <2>4. QED
    BY <2>1, <2>2, <2>3, QuietStep
<1>3. QED
  BY <1>1, <1>2

\* Crashes, restarts, the cleanup pass of startup and the sweep of the directory
\* preserve the invariant.
LEMMA ProcessKeepsFiles ==
  ASSUME FilesInvariant, ProcessStep
  PROVE  FilesInvariant'
<1>1. CASE Crash
  <2>1. crashes' \in 0 .. MaxCrashes
    BY <1>1, BoundsAreNumbers DEF Crash, FilesInvariant, TypeOK
  <2>2. QED
    BY <1>1, <2>1, StopKeepsFiles DEF Crash
<1>2. ASSUME NEW D \in SUBSET Session, OpenLedger(D)
      PROVE  FilesInvariant'
  <2> USE DEF FilesInvariant
  <2>1. /\ life' = [s \in Session |-> IF s \in D THEN "dead" ELSE life[s]]
        /\ phase = "down" /\ phase' = "cleaning" /\ jobs' = jobs \cup D
        /\ \A s \in D : life[s] = "live"
        /\ UNCHANGED <<inode, dir, open, cursor, work, calls, crashes>>
    BY <1>2 DEF OpenLedger
  <2>2. TypeOK'
    BY <2>1 DEF TypeOK
  <2>3. Distinct' /\ OneName' /\ Leaves' /\ NonePending'
    BY <2>1 DEF TypeOK, Distinct, OneName, Leaves, NonePending
  <2>4. CleanersKnow'
    BY <2>1 DEF TypeOK, CleanersKnow, HoldsItsOwn
  <2>5. QED
    BY <2>2, <2>3, <2>4
<1>3. CASE EndPass \/ FinishOpen
  <2>1. /\ phase \in {"cleaning", "sweeping"} /\ phase' \in {"sweeping", "serving"}
        /\ UNCHANGED <<life, inode, dir, open, jobs, cursor, work, calls, crashes>>
    BY <1>3 DEF EndPass, FinishOpen
  <2>2. QED
    BY <2>1 DEF FilesInvariant, TypeOK, Distinct, OneName, Leaves, CleanersKnow,
                HoldsItsOwn, NonePending
<1>4. ASSUME NEW n \in Name, RemoveOrphan(n)
      PROVE  FilesInvariant'
  <2> USE DEF FilesInvariant
  <2>1. /\ phase = "sweeping" /\ n \notin Referenced
        /\ dir' = [dir EXCEPT ![n] = NoInode]
        /\ UNCHANGED <<phase, life, inode, open, jobs, cursor, work, calls, crashes>>
    BY <1>4 DEF RemoveOrphan, Orphans
  <2>2. \A m \in Name : dir'[m] = IF m = n THEN NoInode ELSE dir[m]
    BY <2>1 DEF TypeOK
  <2>3. TypeOK' /\ Distinct' /\ OneName' /\ NonePending'
    BY <2>1, <2>2 DEF TypeOK, Distinct, OneName, NonePending
  <2>4. Leaves'
    <3>1. \A s \in Session : life[s] \in {"reserving", "live"} => Leaf(s) # n
      BY <2>1 DEF NonePending, Referenced
    <3>2. QED
      BY <2>1, <2>2, <3>1, Names DEF Leaves
  <2>5. CleanersKnow'
    <3>1. \A m \in Name : dir'[m] \in {dir[m], NoInode} \/ m \in Fresh
      BY <2>2
    <3>2. \A d \in Cleaner : HoldsItsOwn(work[d], dir, life, inode)'
      BY <2>1, <3>1, OthersKeepTheirs
    <3>3. QED
      BY <2>1, <3>2 DEF CleanersKnow
  <2>6. QED
    BY <2>3, <2>4, <2>5
<1>5. QED
  BY <1>1, <1>2, <1>3, <1>4 DEF ProcessStep

-----------------------------------------------------------------------------
(* The theorems. *)

\* The invariant holds initially.
LEMMA InitFiles == Init => FilesInvariant
<1> SUFFICES ASSUME Init PROVE FilesInvariant
  OBVIOUS
<1> USE DEF Init
<1>1. Idle.at = "idle" /\ Idle \in Work
  BY IdleType DEF Idle
<1>2. TypeOK
  BY <1>1, BoundsAreNumbers DEF TypeOK
<1>3. Distinct /\ OneName /\ Leaves /\ NonePending
  BY Names DEF Distinct, OneName, Leaves, NonePending
<1>4. CleanersKnow
  BY <1>1 DEF CleanersKnow, HoldsItsOwn
<1>5. QED
  BY <1>2, <1>3, <1>4 DEF FilesInvariant

\* Every step preserves the invariant, if no inode is reused.
LEMMA NextKeepsFiles ==
  ASSUME FilesInvariant, ReuseInodes = FALSE, [Next]_vars
  PROVE  FilesInvariant'
<1>1. ASSUME NEW s \in Session, SessionStep(s)
      PROVE  FilesInvariant'
  BY <1>1, SessionKeepsFiles
<1>2. ASSUME NEW c \in Cleaner, CleanerStep(c)
      PROVE  FilesInvariant'
  <2>1. CASE Take(c)
    BY <2>1, LookingKeepsFiles, TakingKeepsFiles
  <2>2. CASE \/ \E s \in Session : ReadJob(c, s)
             \/ LookUpName(c) \/ Scan(c) \/ Match(c) \/ Verify(c) \/ Record(c)
    BY <2>2, LookingKeepsFiles
  <2>3. CASE Unlink(c) \/ Fails(c)
    BY <2>3, UnlinkKeepsFiles, FailureKeepsFiles
  <2>4. QED
    BY <1>2, <2>1, <2>2, <2>3 DEF CleanerStep
<1>3. CASE ProcessStep
  BY <1>3, ProcessKeepsFiles
<1>4. CASE UNCHANGED vars
  BY <1>4 DEF vars, FilesInvariant, TypeOK, Distinct, OneName, Leaves, CleanersKnow,
              HoldsItsOwn, NonePending
<1>5. QED
  BY <1>1, <1>2, <1>3, <1>4 DEF Next

\* The invariant holds in every reachable state.
THEOREM FilesInvariantHolds ==
  ASSUME ReuseInodes = FALSE
  PROVE  Spec => []FilesInvariant
<1>1. FilesInvariant /\ [Next]_vars => FilesInvariant'
  BY NextKeepsFiles
<1>2. QED
  BY <1>1, InitFiles, PTL DEF Spec

\* Under inodes that are not reused the types are right, and no cleaner ever moves or
\* unlinks the file of a live session: reserve, settle, expire, the cleaners of the
\* maintenance pass and of the workers, and startup share one directory without a lock.
THEOREM LiveFilesSurvive ==
  ASSUME ReuseInodes = FALSE
  PROVE  Spec => [](TypeOK /\ LiveFileKept)
<1>1. FilesInvariant => TypeOK /\ LiveFileKept
  BY DEF FilesInvariant, Leaves, LiveFileKept
<1>2. QED
  BY <1>1, FilesInvariantHolds, PTL

-----------------------------------------------------------------------------
(* The refinement of FileReclaim. *)

\* The mapping, element by element.
LEMMA Mapped ==
  /\ \A s \in Session : SessionLife[s] = IF life[s] \in {"live", "dead"} THEN life[s] ELSE "none"
  /\ \A s \in Session : s \in Present <=> inode[s] # NoInode /\ Linked(inode[s])
  /\ Present \subseteq Session
BY DEF SessionLife, Present

\* A step that changes no inode and no life of a committed session leaves the mapped
\* lives alone, and the mapped files if the linked inodes stay the same.
LEMMA SameLives ==
  ASSUME \A s \in Session : \/ life'[s] = life[s]
                            \/ {life[s], life'[s]} \cap {"live", "dead"} = {}
  PROVE  SessionLife' = SessionLife
BY DEF SessionLife

LEMMA SameFiles ==
  ASSUME inode' = inode, \A i : Linked(i)' <=> Linked(i)
  PROVE  Present' = Present
BY DEF Present

\* Emptying the only name of a session's inode removes that session's file, no other.
LEMMA RemovesOne ==
  ASSUME FilesInvariant, inode' = inode, NEW s \in Session, NEW n \in Name,
         dir[n] = inode[s], dir[n] # NoInode,
         \A m \in Name : dir'[m] = IF m = n THEN NoInode ELSE dir[m]
  PROVE  s \in Present /\ Present' = Present \ {s}
<1>1. s \in Present
  BY DEF Present, Linked
<1>2. ~Linked(inode[s])'
  BY DEF Linked, FilesInvariant, OneName
<1>3. \A r \in Session \ {s} : inode[r] # NoInode => (Linked(inode[r])' <=> Linked(inode[r]))
  BY DEF Linked, FilesInvariant, Distinct
<1>4. \A r \in Session : r \in Present' <=> r \in Present /\ r # s
  BY <1>2, <1>3 DEF Present
<1>5. QED
  BY <1>1, <1>4 DEF Present

\* The steps of a session implement Create, Commit, Remove and Die.
LEMMA SessionRefines ==
  ASSUME FilesInvariant, ReuseInodes = FALSE, NEW s \in Session, SessionStep(s)
  PROVE  Reclaim!Next \/ UNCHANGED <<SessionLife, Present>>
<1>1. ASSUME NEW i \in Inode, CreateFile(s, i)
      PROVE  Reclaim!Create(s)
  <2>1. /\ life[s] = "new" /\ life' = [life EXCEPT ![s] = "reserving"]
        /\ inode' = [inode EXCEPT ![s] = i] /\ dir' = [dir EXCEPT ![Leaf(s)] = i]
        /\ inode[s] = NoInode /\ dir[Leaf(s)] = NoInode /\ i # NoInode /\ Leaf(s) \in Name
        /\ \A r \in Session : inode[r] # i
        /\ life \in [Session -> {"new", "reserving", "live", "dead", "aborted"}]
        /\ inode \in [Session -> Inode \cup {NoInode}]
        /\ dir \in [Name -> Inode \cup {NoInode}]
    BY <1>1, Names DEF CreateFile, Free, FilesInvariant, TypeOK, Distinct, Leaves
  <2>2. SessionLife' = SessionLife /\ SessionLife[s] = "none"
    BY <2>1, SameLives DEF SessionLife
  <2>3. \A m \in Name : dir'[m] = IF m = Leaf(s) THEN i ELSE dir[m]
    BY <2>1
  <2>4. \A r \in Session : r # s => (r \in Present' <=> r \in Present)
    BY <2>1, <2>3 DEF Present, Linked
  <2>5. s \notin Present /\ s \in Present'
    BY <2>1, <2>3 DEF Present, Linked
  <2>6. Present' = Present \cup {s}
    BY <2>4, <2>5 DEF Present
  <2>7. QED
    BY <2>2, <2>5, <2>6 DEF Reclaim!Create
<1>2. ASSUME CommitReservation(s)
      PROVE  Reclaim!Commit(s)
  <2>1. /\ life[s] = "reserving" /\ life' = [life EXCEPT ![s] = "live"]
        /\ UNCHANGED <<inode, dir>>
        /\ life \in [Session -> {"new", "reserving", "live", "dead", "aborted"}]
    BY <1>2 DEF CommitReservation, FilesInvariant, TypeOK
  <2>2. s \in Present
    BY <2>1, Names DEF Present, Linked, FilesInvariant, Distinct, Leaves
  <2>3. Present' = Present
    BY <2>1 DEF Present, Linked
  <2>4. SessionLife' = [SessionLife EXCEPT ![s] = "live"] /\ SessionLife[s] = "none"
    BY <2>1 DEF SessionLife
  <2>5. QED
    BY <2>2, <2>3, <2>4 DEF Reclaim!Commit
<1>3. ASSUME RollBackReservation(s)
      PROVE  Reclaim!Remove(s)
  <2>1. /\ life[s] = "reserving" /\ life' = [life EXCEPT ![s] = "aborted"]
        /\ dir' = [n \in Name |-> IF dir[n] = inode[s] THEN NoInode ELSE dir[n]]
        /\ inode' = inode
        /\ life \in [Session -> {"new", "reserving", "live", "dead", "aborted"}]
    BY <1>3 DEF RollBackReservation, FilesInvariant, TypeOK
  <2>2. Leaf(s) \in Name /\ dir[Leaf(s)] = inode[s] /\ inode[s] # NoInode
    BY <2>1, Names DEF FilesInvariant, Leaves, Distinct
  <2>3. \A m \in Name : dir'[m] = IF m = Leaf(s) THEN NoInode ELSE dir[m]
    BY <2>1, <2>2 DEF FilesInvariant, OneName
  <2>4. s \in Present /\ Present' = Present \ {s}
    BY <2>1, <2>2, <2>3, RemovesOne
  <2>5. SessionLife' = SessionLife /\ SessionLife[s] # "live"
    BY <2>1, SameLives DEF SessionLife
  <2>6. QED
    BY <2>4, <2>5 DEF Reclaim!Remove
<1>4. ASSUME OpenFile(s) \/ CloseFile(s)
      PROVE  UNCHANGED <<SessionLife, Present>>
  BY <1>4 DEF OpenFile, CloseFile, SessionLife, Present, Linked
<1>5. ASSUME Die(s)
      PROVE  Reclaim!Die({s})
  <2>1. /\ life[s] = "live" /\ life' = [life EXCEPT ![s] = "dead"] /\ UNCHANGED <<inode, dir>>
        /\ life \in [Session -> {"new", "reserving", "live", "dead", "aborted"}]
    BY <1>5 DEF Die, FilesInvariant, TypeOK
  <2>2. Present' = Present
    BY <2>1 DEF Present, Linked
  <2>3. SessionLife[s] = "live"
    BY <2>1 DEF SessionLife
  <2>4. SessionLife' = [r \in Session |-> IF r \in {s} THEN "dead" ELSE SessionLife[r]]
    BY <2>1 DEF SessionLife
  <2>5. QED
    BY <2>2, <2>3, <2>4 DEF Reclaim!Die
<1>6. QED
  BY <1>1, <1>2, <1>3, <1>4, <1>5 DEF SessionStep, Reclaim!Next

\* Looking, verifying and recording change nothing of the mapping, nor does moving a
\* file; unlinking it implements Remove.
LEMMA CleanerRefines ==
  ASSUME FilesInvariant, NEW c \in Cleaner, CleanerStep(c)
  PROVE  Reclaim!Next \/ UNCHANGED <<SessionLife, Present>>
<1> DEFINE w == work[c]
<1>1. CASE /\ UNCHANGED <<life, inode, dir>>
  BY <1>1 DEF SessionLife, Present, Linked
<1>2. ASSUME Take(c), dir[w.candidate] # NoInode
      PROVE  UNCHANGED <<SessionLife, Present>>
  <2> DEFINE n == w.candidate
  <2>1. PICK q \in Fresh : dir' = [dir EXCEPT ![n] = NoInode, ![q] = dir[n]]
    BY <1>2 DEF Take
  <2>2. /\ n \in Name /\ q \in Name /\ dir[q] = NoInode /\ n # q
        /\ dir \in [Name -> Inode \cup {NoInode}]
    BY <1>2, Names DEF Take, Fresh, Entries, FilesInvariant, TypeOK
  <2>3. \A m \in Name : dir'[m] = IF m = q THEN dir[n] ELSE IF m = n THEN NoInode ELSE dir[m]
    BY <2>1, <2>2
  <2>4. \A i : i # NoInode => (Linked(i)' <=> Linked(i))
    BY <1>2, <2>2, <2>3 DEF Linked
  <2>5. UNCHANGED <<life, inode>>
    BY <1>2 DEF Take, CleanerFrame
  <2>6. QED
    BY <2>4, <2>5 DEF SessionLife, Present
<1>3. ASSUME Unlink(c), dir[w.quarantine] # NoInode
      PROVE  Reclaim!Remove(w.job)
  <2> DEFINE q == w.quarantine
  <2>1. /\ dir' = [dir EXCEPT ![q] = NoInode] /\ UNCHANGED <<life, inode>>
        /\ w.job \in Session /\ life[w.job] = "dead" /\ q \in Name /\ dir[q] = inode[w.job]
    BY <1>3, Names DEF Unlink, CleanerFrame, FilesInvariant, CleanersKnow, HoldsItsOwn
  <2>2. \A m \in Name : dir'[m] = IF m = q THEN NoInode ELSE dir[m]
    BY <2>1 DEF FilesInvariant, TypeOK
  <2>3. w.job \in Present /\ Present' = Present \ {w.job}
    BY <1>3, <2>1, <2>2, RemovesOne
  <2>4. SessionLife' = SessionLife /\ SessionLife[w.job] = "dead"
    BY <2>1 DEF SessionLife
  <2>5. QED
    BY <2>3, <2>4 DEF Reclaim!Remove
<1>4. ASSUME Unlink(c), dir[w.quarantine] = NoInode
      PROVE  UNCHANGED <<life, inode, dir>>
  BY <1>4 DEF Unlink, CleanerFrame, FilesInvariant, TypeOK
<1>5. ASSUME Fails(c)
      PROVE  UNCHANGED <<SessionLife, Present>>
  <2>1. /\ UNCHANGED <<inode, dir>>
        /\ \/ life' = life
           \/ life' = [s \in Session |-> IF life[s] = "reserving" THEN "aborted" ELSE life[s]]
    BY <1>5 DEF Fails
  <2>2. SessionLife' = SessionLife
    BY <2>1, SameLives
  <2>3. QED
    BY <2>1, <2>2 DEF Present, Linked
<1>6. CASE \/ \E s \in Session : ReadJob(c, s)
           \/ LookUpName(c) \/ Scan(c) \/ Match(c) \/ Verify(c) \/ Record(c)
  BY <1>1, <1>6 DEF ReadJob, LookUpName, Scan, Match, Verify, Record, CleanerFrame
<1>7. CASE Take(c)
  BY <1>1, <1>2, <1>7 DEF Take, CleanerFrame
<1>8. CASE Unlink(c)
  <2>1. CASE dir[w.quarantine] = NoInode
    BY <1>1, <1>4, <1>8, <2>1
  <2>2. CASE dir[w.quarantine] # NoInode
    <3>1. w.job \in Session
      BY <1>8 DEF Unlink, FilesInvariant, TypeOK
    <3>2. QED
      BY <1>3, <1>8, <2>2, <3>1 DEF Reclaim!Next
  <2>3. QED
    BY <2>1, <2>2
<1>9. QED
  BY <1>5, <1>6, <1>7, <1>8 DEF CleanerStep

\* A crash changes nothing of the mapping, startup implements Die and Remove.
LEMMA ProcessRefines ==
  ASSUME FilesInvariant, ProcessStep
  PROVE  Reclaim!Next \/ UNCHANGED <<SessionLife, Present>>
<1>1. CASE Crash
  <2>1. /\ UNCHANGED <<inode, dir>>
        /\ life' = [s \in Session |-> IF life[s] = "reserving" THEN "aborted" ELSE life[s]]
    BY <1>1 DEF Crash
  <2>2. SessionLife' = SessionLife
    BY <2>1, SameLives
  <2>3. QED
    BY <2>1, <2>2 DEF Present, Linked
<1>2. ASSUME NEW D \in SUBSET Session, OpenLedger(D)
      PROVE  Reclaim!Die(D)
  <2>1. /\ life' = [s \in Session |-> IF s \in D THEN "dead" ELSE life[s]]
        /\ \A s \in D : life[s] = "live"
        /\ UNCHANGED <<inode, dir>>
    BY <1>2 DEF OpenLedger
  <2>2. Present' = Present
    BY <2>1 DEF Present, Linked
  <2>3. \A s \in D : SessionLife[s] = "live"
    BY <2>1 DEF SessionLife
  <2>4. SessionLife' = [s \in Session |-> IF s \in D THEN "dead" ELSE SessionLife[s]]
    BY <2>1 DEF SessionLife
  <2>5. QED
    BY <2>2, <2>3, <2>4 DEF Reclaim!Die
<1>3. CASE EndPass \/ FinishOpen
  BY <1>3 DEF EndPass, FinishOpen, SessionLife, Present, Linked
<1>4. ASSUME NEW n \in Name, RemoveOrphan(n)
      PROVE  \E s \in Session : Reclaim!Remove(s)
  <2>1. /\ phase = "sweeping" /\ dir[n] # NoInode /\ n \notin Referenced
        /\ dir' = [dir EXCEPT ![n] = NoInode] /\ UNCHANGED <<life, inode>>
    BY <1>4 DEF RemoveOrphan, Orphans, Entries
  <2>2. PICK s \in Session : inode[s] = dir[n]
    BY <2>1 DEF FilesInvariant, OneName
  <2>3. life[s] # "live"
    BY <2>1, <2>2, Names DEF FilesInvariant, Leaves, OneName, Referenced
  <2>4. \A m \in Name : dir'[m] = IF m = n THEN NoInode ELSE dir[m]
    BY <2>1 DEF FilesInvariant, TypeOK
  <2>5. s \in Present /\ Present' = Present \ {s}
    BY <2>1, <2>2, <2>4, RemovesOne
  <2>6. SessionLife' = SessionLife /\ SessionLife[s] # "live"
    BY <2>1, <2>3 DEF SessionLife
  <2>7. QED
    BY <2>5, <2>6 DEF Reclaim!Remove
<1>5. QED
  BY <1>1, <1>2, <1>3, <1>4 DEF ProcessStep, Reclaim!Next

\* With inodes that are not reused, sessions, concurrent cleaners, crashes and restarts
\* implement FileReclaim!Safe: a file exists before its session is committed and is
\* removed only when its session is dead or was rolled back.
THEOREM FilesImplementReclaim ==
  ASSUME ReuseInodes = FALSE
  PROVE  Spec => Reclaim!Safe
<1>1. Init => Reclaim!Init
  BY DEF Init, Reclaim!Init, SessionLife, Present
<1>2. FilesInvariant /\ [Next]_vars => [Reclaim!Next]_<<SessionLife, Present>>
  <2> SUFFICES ASSUME FilesInvariant, [Next]_vars
               PROVE  Reclaim!Next \/ UNCHANGED <<SessionLife, Present>>
    OBVIOUS
  <2>1. CASE UNCHANGED vars
    BY <2>1 DEF vars, SessionLife, Present, Linked
  <2>2. CASE Next
    BY <2>2, SessionRefines, CleanerRefines, ProcessRefines DEF Next
  <2>3. QED
    BY <2>1, <2>2
<1>3. QED
  BY <1>1, <1>2, FilesInvariantHolds, PTL DEF Spec, Reclaim!Safe


-----------------------------------------------------------------------------
(* No file is forgotten. *)

\* Whoever is dead and still has a file is looked for; a cleaner that is about to strike
\* a job off has removed its file; and the sweep of a startup leaves no file of a
\* reservation that was never committed.
Sought ==
  /\ \A s \in Present : life[s] = "dead" => s \in jobs
  /\ \A c \in Cleaner : work[c].at = "record" /\ work[c].outcome = "removed"
                          => work[c].job \notin Present
  /\ Serving => \A s \in Present : life[s] # "aborted"

\* Where names are only emptied, no session gains a file.
LEMMA FewerFiles ==
  ASSUME inode' = inode, \A m \in Name : dir'[m] \in {NoInode, dir[m]}
  PROVE  Present' \subseteq Present
BY DEF Present, Linked

\* A session has no file but the one it was created with: what was removed stays away.
LEMMA NoNewFiles ==
  ASSUME FilesInvariant, ReuseInodes = FALSE, [Next]_vars,
         NEW s \in Present', life[s] # "new"
  PROVE  s \in Present
<1>0. /\ s \in Session /\ inode[s] # NoInode
      /\ dir \in [Name -> Inode \cup {NoInode}]
  BY DEF Present, FilesInvariant, Distinct, TypeOK
<1>1. ASSUME NEW r \in Session, NEW i \in Inode, CreateFile(r, i)
      PROVE  s \in Present
  <2>1. /\ r # s /\ inode' = [inode EXCEPT ![r] = i] /\ dir' = [dir EXCEPT ![Leaf(r)] = i]
        /\ inode[s] # i
    BY <1>0, <1>1 DEF CreateFile, Free
  <2>2. \A m \in Name : dir'[m] = IF m = Leaf(r) THEN i ELSE dir[m]
    BY <1>0, <2>1
  <2>3. inode'[s] = inode[s]
    BY <1>0, <2>1 DEF FilesInvariant, TypeOK
  <2>4. QED
    BY <1>0, <2>1, <2>2, <2>3 DEF Present, Linked
<1>2. ASSUME NEW r \in Session,
             CommitReservation(r) \/ RollBackReservation(r) \/ OpenFile(r) \/ CloseFile(r) \/ Die(r)
      PROVE  s \in Present
  <2>1. inode' = inode /\ \A m \in Name : dir'[m] \in {NoInode, dir[m]}
    BY <1>2 DEF CommitReservation, RollBackReservation, OpenFile, CloseFile, Die
  <2>2. QED
    BY <2>1, FewerFiles
<1>3. ASSUME NEW c \in Cleaner, CleanerStep(c)
      PROVE  s \in Present
  <2> DEFINE w == work[c]
  <2>1. CASE inode' = inode /\ \A m \in Name : dir'[m] \in {NoInode, dir[m]}
    BY <2>1, FewerFiles
  <2>2. CASE Take(c)
    <3>1. /\ w.at = "take" /\ inode' = inode
          /\ \/ dir[w.candidate] = NoInode /\ dir' = dir
             \/ \E q \in Fresh : dir' = [dir EXCEPT ![w.candidate] = NoInode,
                                                   ![q] = dir[w.candidate]]
      BY <2>2, Zenon DEF Take, CleanerFrame
    <3>2. CASE dir' = dir
      BY <2>1, <3>1, <3>2
    <3>3. ASSUME NEW q \in Fresh,
                 dir' = [dir EXCEPT ![w.candidate] = NoInode, ![q] = dir[w.candidate]]
          PROVE  s \in Present
      <4>1. w.candidate \in Name
        BY <3>1 DEF FilesInvariant, TypeOK
      <4>2. q \in Name
        BY Names DEF Fresh
      <4>3. \A m \in Name : dir'[m] \in {NoInode, dir[m], dir[w.candidate]}
        BY <1>0, <3>3, <4>2
      <4>4. QED
        BY <3>1, <4>1, <4>3 DEF Present, Linked
    <3>4. QED
      BY <3>1, <3>2, <3>3
  <2>3. CASE Unlink(c)
    BY <1>0, <2>1, <2>3 DEF Unlink, CleanerFrame
  <2>4. CASE \/ \E r \in Session : ReadJob(c, r)
             \/ LookUpName(c) \/ Scan(c) \/ Match(c) \/ Verify(c) \/ Record(c) \/ Fails(c)
    <3>1. inode' = inode /\ dir' = dir
      BY <2>4, Zenon DEF ReadJob, LookUpName, Scan, Match, Verify, Record, Fails, CleanerFrame
    <3>2. QED
      BY <2>1, <3>1
  <2>5. QED
    BY <1>3, <2>2, <2>3, <2>4 DEF CleanerStep
<1>4. CASE ProcessStep
  <2>1. inode' = inode /\ \A m \in Name : dir'[m] \in {NoInode, dir[m]}
    BY <1>0, <1>4 DEF ProcessStep, Crash, OpenLedger, EndPass, RemoveOrphan, FinishOpen
  <2>2. QED
    BY <2>1, FewerFiles
<1>5. CASE UNCHANGED vars
  BY <1>5 DEF vars, Present, Linked
<1>6. QED
  BY <1>1, <1>2, <1>3, <1>4, <1>5 DEF Next, SessionStep

\* A cleaner's record says that the file was removed only after the unlink.
LEMMA OutcomeOf ==
  ASSUME NEW w \in Work
  PROVE  /\ Missed(w).outcome # "removed"
         /\ Lost(w).at = "record" => Lost(w).outcome # "removed"
         /\ [w EXCEPT !.at = "scan"].at # "record" /\ [w EXCEPT !.at = "unlink"].at # "record"
         /\ \A n \in Name : [w EXCEPT !.at = "take", !.candidate = n].at # "record"
         /\ \A n \in Name : [w EXCEPT !.at = "take", !.page = {}, !.scanned = TRUE,
                                      !.candidate = n].at # "record"
         /\ \A q \in Temp : [w EXCEPT !.at = "verify", !.quarantine = q].at # "record"
         /\ \A p \in SUBSET Name, n \in Name \cup {NoName} :
              [w EXCEPT !.at = "match", !.page = p, !.next = n].at # "record"
         /\ \A s \in Session, n \in Name \cup {NoName} :
              [Idle EXCEPT !.at = "named", !.job = s, !.cursor = n].at # "record"
         /\ Idle.at # "record"
<1>1. Missed(w).outcome # "removed"
  BY DEF Missed, Work
<1>2. Lost(w).at = "record" => Lost(w).outcome # "removed"
  BY <1>1 DEF Lost, Work
<1>3. QED
  BY <1>1, <1>2 DEF Work, Idle

\* Nobody has a file, nobody cleans.
LEMMA InitSought == Init => Sought
BY DEF Init, Sought, Present, Idle

\* A session whose file still exists is looked for from its death on.
LEMMA DeadAreSought ==
  ASSUME FilesInvariant, Sought, ReuseInodes = FALSE, [Next]_vars,
         NEW s \in Present', life'[s] = "dead"
  PROVE  s \in jobs'
<1>0. s \in Session /\ life \in [Session -> {"new", "reserving", "live", "dead", "aborted"}]
  BY DEF Present, FilesInvariant, TypeOK
<1>1. CASE life[s] = "dead"
  <2>1. s \in Present /\ s \in jobs
    BY <1>1, NoNewFiles DEF Sought
  <2>2. ASSUME NEW c \in Cleaner, Record(c)
        PROVE  s \in jobs'
    <3>1. CASE work[c].outcome = "removed"
      <4>1. work[c].job # s
        BY <2>1, <2>2, <3>1 DEF Record, Sought
      <4> QED
        BY <2>1, <2>2, <4>1 DEF Record
    <3>2. CASE work[c].outcome # "removed"
      BY <2>1, <2>2, <3>2 DEF Record
    <3>3. QED
      BY <3>1, <3>2
  <2>3. ASSUME NEW r \in Session, SessionStep(r)
        PROVE  s \in jobs'
    BY <2>1, <2>3 DEF SessionStep, CreateFile, CommitReservation, RollBackReservation, OpenFile,
                      CloseFile, Die
  <2>4. ASSUME NEW c \in Cleaner, CleanerStep(c)
        PROVE  s \in jobs'
    BY <2>1, <2>2, <2>4, Zenon DEF CleanerStep, ReadJob, LookUpName, Scan,
                                  Match, Take, Verify, Unlink, Fails
  <2>5. CASE ProcessStep
    BY <2>1, <2>5 DEF ProcessStep, Crash, OpenLedger, EndPass, RemoveOrphan, FinishOpen
  <2>6. QED
    BY <2>1, <2>3, <2>4, <2>5 DEF Next, vars
<1>2. CASE life[s] # "dead"
  <2>1. ASSUME NEW r \in Session, SessionStep(r)
        PROVE  s \in jobs'
    BY <1>0, <1>2, <2>1 DEF SessionStep, CreateFile, CommitReservation, RollBackReservation,
                            OpenFile, CloseFile, Die
  <2>2. ASSUME NEW c \in Cleaner, CleanerStep(c)
        PROVE  FALSE
    <3>1. CASE Fails(c)
      BY <1>0, <1>2, <3>1 DEF Fails
    <3>2. CASE life' = life
      BY <1>2, <3>2
    <3>3. QED
      BY <2>2, <3>1, <3>2, Zenon DEF CleanerStep, CleanerFrame, ReadJob, LookUpName, Scan,
                                    Match, Take, Verify, Unlink, Record
  <2>3. CASE ProcessStep
    BY <1>0, <1>2, <2>3 DEF ProcessStep, Crash, OpenLedger, EndPass, RemoveOrphan, FinishOpen
  <2>4. QED
    BY <1>2, <2>1, <2>2, <2>3 DEF Next, vars
<1>3. QED
  BY <1>1, <1>2

\* A cleaner that is about to strike a job off has removed the file.
LEMMA RemovedAreGone ==
  ASSUME FilesInvariant, Sought, ReuseInodes = FALSE, [Next]_vars,
         NEW c \in Cleaner, work'[c].at = "record", work'[c].outcome = "removed"
  PROVE  work'[c].job \notin Present'
<1> DEFINE w == work[c]
<1>0. /\ w \in Work /\ work \in [Cleaner -> Work]
      /\ cursor \in [Session -> Name \cup {NoName}] /\ jobs \subseteq Session
  BY DEF FilesInvariant, TypeOK
<1>1. CASE work'[c] = work[c]
  <2>1. w.at = "record" /\ w.outcome = "removed"
    BY <1>1
  <2>2. w.job \notin Present /\ life[w.job] = "dead"
    BY <2>1 DEF Sought, FilesInvariant, CleanersKnow, HoldsItsOwn
  <2>3. QED
    BY <1>1, <2>2, NoNewFiles
<1>2. CASE work'[c] = Idle
  BY <1>0, <1>2, OutcomeOf
<1>3. CASE Unlink(c)
  <2>1. /\ w.at = "unlink" /\ inode' = inode /\ dir' = [dir EXCEPT ![w.quarantine] = NoInode]
        /\ work' = [work EXCEPT ![c] =
                      [w EXCEPT !.at = "record", !.candidate = NoName, !.quarantine = NoName,
                                !.outcome = IF dir[w.quarantine] = NoInode
                                            THEN "failed" ELSE "removed"]]
    BY <1>3 DEF Unlink, Goes, CleanerFrame
  <2>2. work'[c].job = w.job /\ dir[w.quarantine] # NoInode
    BY <1>0, <2>1 DEF Work
  <2>3. /\ w.quarantine \in Temp /\ w.job \in Session /\ dir[w.quarantine] = inode[w.job]
        /\ dir \in [Name -> Inode \cup {NoInode}]
    BY <2>1, <2>2 DEF FilesInvariant, CleanersKnow, HoldsItsOwn, TypeOK
  <2>4. w.quarantine \in Name
    BY <2>3, Names
  <2>5. \A m \in Name : dir'[m] = IF m = w.quarantine THEN NoInode ELSE dir[m]
    BY <2>1, <2>3, <2>4
  <2>6. Present' = Present \ {w.job}
    BY <2>1, <2>2, <2>3, <2>4, <2>5, RemovesOne
  <2>7. QED
    BY <2>2, <2>6
<1>4. ASSUME NEW s \in Session, ReadJob(c, s)
      PROVE  FALSE
  <2>1. cursor[s] \in Name \cup {NoName}
    BY <1>0
  <2>2. work'[c] = [Idle EXCEPT !.at = "named", !.job = s, !.cursor = cursor[s]]
    BY <1>0, <1>4 DEF ReadJob, Goes
  <2>3. QED
    BY <1>0, <2>1, <2>2, OutcomeOf
<1>5. CASE LookUpName(c)
  <2>1. w.job \in Session
    BY <1>5 DEF LookUpName, FilesInvariant, TypeOK
  <2>2. work'[c] = [w EXCEPT !.at = "scan"]
          \/ work'[c] = [w EXCEPT !.at = "take", !.candidate = Leaf(w.job)]
    BY <1>0, <1>5 DEF LookUpName, Goes
  <2>3. QED
    BY <1>0, <2>1, <2>2, Names, OutcomeOf
<1>6. CASE Scan(c)
  <2>1. PICK next \in Name \cup {NoName} :
          work' = [work EXCEPT ![c] = [w EXCEPT !.at = "match", !.page = Page(w.cursor),
                                                !.next = next]]
    BY <1>6, Zenon DEF Scan, Goes
  <2>2. Page(w.cursor) \in SUBSET Name
    BY DEF Page, Remaining, Entries
  <2>3. QED
    BY <1>0, <2>1, <2>2, OutcomeOf
<1>7. CASE Match(c)
  <2>1. Matches(c) \subseteq Name
    BY <1>0 DEF Matches, Work
  <2>2. \/ work' = [work EXCEPT ![c] = Missed(w)]
        \/ \E n \in Matches(c) :
             work' = [work EXCEPT ![c] = [w EXCEPT !.at = "take", !.page = {}, !.scanned = TRUE,
                                                   !.candidate = n]]
    BY <1>7, Zenon DEF Match, Goes
  <2>3. CASE work' = [work EXCEPT ![c] = Missed(w)]
    BY <1>0, <2>3, OutcomeOf
  <2>4. ASSUME NEW n \in Matches(c),
               work' = [work EXCEPT ![c] = [w EXCEPT !.at = "take", !.page = {},
                                                     !.scanned = TRUE, !.candidate = n]]
        PROVE  FALSE
    <3>1. n \in Name
      BY <2>1
    <3>2. work'[c] = [w EXCEPT !.at = "take", !.page = {}, !.scanned = TRUE, !.candidate = n]
      BY <1>0, <2>4
    <3>3. QED
      BY <1>0, <3>1, <3>2, OutcomeOf
  <2>5. QED
    BY <2>2, <2>3, <2>4, Zenon
<1>8. CASE Take(c)
  <2>1. \/ work' = [work EXCEPT ![c] = Lost(w)]
        \/ \E q \in Fresh :
             work' = [work EXCEPT ![c] = [w EXCEPT !.at = "verify", !.quarantine = q]]
    BY <1>8, Zenon DEF Take, Goes
  <2>2. CASE work' = [work EXCEPT ![c] = Lost(w)]
    BY <1>0, <2>2, OutcomeOf
  <2>3. ASSUME NEW q \in Fresh,
               work' = [work EXCEPT ![c] = [w EXCEPT !.at = "verify", !.quarantine = q]]
        PROVE  FALSE
    <3>1. q \in Temp
      BY DEF Fresh
    <3>2. work'[c] = [w EXCEPT !.at = "verify", !.quarantine = q]
      BY <1>0, <2>3
    <3>3. QED
      BY <1>0, <3>1, <3>2, OutcomeOf
  <2>4. QED
    BY <2>1, <2>2, <2>3, Zenon
<1>9. CASE Verify(c)
  <2>1. work'[c] = Lost(w) \/ work'[c] = [w EXCEPT !.at = "unlink"]
    BY <1>0, <1>9 DEF Verify, Goes
  <2>2. QED
    BY <1>0, <2>1, OutcomeOf
<1>10. CASE Record(c)
  BY <1>0, <1>2, <1>10 DEF Record, Goes
<1>11. ASSUME NEW d \in Cleaner, Fails(d)
       PROVE  work'[c] = Idle \/ work'[c] = work[c]
  BY <1>0, <1>11 DEF Fails, Goes
<1>12. ASSUME NEW d \in Cleaner, d # c, CleanerStep(d)
       PROVE  work'[c] = Idle \/ work'[c] = work[c]
  <2>1. CASE Fails(d)
    BY <1>11, <2>1
  <2>2. CASE \E v : Goes(d, v)
    BY <1>0, <1>12, <2>2 DEF Goes
  <2>3. QED
    BY <1>12, <2>1, <2>2, Zenon DEF CleanerStep, ReadJob, LookUpName, Scan, Match, Take, Verify,
                                    Unlink, Record
<1>13. CASE ProcessStep
  BY <1>0, <1>1, <1>2, <1>13 DEF ProcessStep, Crash, OpenLedger, EndPass, RemoveOrphan, FinishOpen
<1>14. ASSUME NEW s \in Session, SessionStep(s)
       PROVE  work' = work
  BY <1>14 DEF SessionStep, CreateFile, CommitReservation, RollBackReservation, OpenFile,
               CloseFile, Die
<1>15. CASE \E d \in Cleaner : CleanerStep(d)
  BY <1>1, <1>2, <1>3, <1>4, <1>5, <1>6, <1>7, <1>8, <1>9, <1>10, <1>11, <1>12, <1>15
     DEF CleanerStep
<1>16. QED
  BY <1>1, <1>13, <1>14, <1>15 DEF Next, vars

\* A server that serves has swept away what was never committed.
LEMMA AbortedAreSwept ==
  ASSUME FilesInvariant, Sought, ReuseInodes = FALSE, [Next]_vars,
         NEW s \in Present', Serving'
  PROVE  life'[s] # "aborted"
<1>0. /\ s \in Session /\ life \in [Session -> {"new", "reserving", "live", "dead", "aborted"}]
      /\ dir \in [Name -> Inode \cup {NoInode}]
  BY DEF Present, FilesInvariant, TypeOK
<1>1. CASE Serving /\ life[s] = "aborted" /\ life'[s] = "aborted"
  BY <1>1, NoNewFiles DEF Sought
<1>2. CASE Serving /\ life[s] # "aborted"
  <2>1. ASSUME NEW r \in Session, RollBackReservation(r), life'[s] = "aborted"
        PROVE  FALSE
    <3>1. /\ r = s /\ inode' = inode
          /\ dir' = [n \in Name |-> IF dir[n] = inode[s] THEN NoInode ELSE dir[n]]
      BY <1>0, <1>2, <2>1 DEF RollBackReservation
    <3>2. inode[s] # NoInode
      BY <3>1, NoNewFiles DEF Present
    <3>3. \A n \in Name : dir'[n] # inode[s]
      BY <3>1, <3>2
    <3>4. QED
      BY <3>1, <3>3 DEF Present, Linked
  <2>2. ASSUME NEW r \in Session,
               \/ \E i \in Inode : CreateFile(r, i)
               \/ CommitReservation(r) \/ OpenFile(r) \/ CloseFile(r) \/ Die(r)
        PROVE  life'[s] # "aborted"
    BY <1>0, <1>2, <2>2 DEF CreateFile, CommitReservation, OpenFile, CloseFile, Die
  <2>3. ASSUME NEW c \in Cleaner, CleanerStep(c)
        PROVE  life' = life
    <3>1. CASE Fails(c)
      BY <3>1 DEF Fails, Serving
    <3>2. QED
      BY <2>3, <3>1, Zenon DEF CleanerStep, CleanerFrame, ReadJob, LookUpName, Scan, Match, Take,
                               Verify, Unlink, Record
  <2>4. CASE ProcessStep
    BY <1>0, <1>2, <2>4 DEF ProcessStep, Crash, OpenLedger, EndPass, RemoveOrphan, FinishOpen,
                            Serving
  <2>5. QED
    BY <1>2, <2>1, <2>2, <2>3, <2>4 DEF Next, SessionStep, vars
<1>3. CASE ~Serving
  <2>1. FinishOpen
    <3>1. ASSUME NEW r \in Session, SessionStep(r)
          PROVE  FALSE
      BY <1>3, <3>1 DEF SessionStep, CreateFile, CommitReservation, RollBackReservation, OpenFile,
                        CloseFile, Die
    <3>2. ASSUME NEW c \in Cleaner, CleanerStep(c)
          PROVE  phase' \in {phase, "down"}
      BY <3>2, Zenon DEF CleanerStep, ReadJob, LookUpName, Scan, Match, Take, Verify, Unlink,
                         Record, Fails
    <3>3. CASE ProcessStep
      BY <1>3, <3>3 DEF ProcessStep, Crash, OpenLedger, EndPass, RemoveOrphan, Serving
    <3>4. QED
      BY <1>3, <3>1, <3>2, <3>3 DEF Next, vars, Serving
  <2>2. Orphans = {} /\ UNCHANGED <<life, inode, dir>>
    BY <2>1 DEF FinishOpen
  <2>3. PICK n \in Name : dir[n] = inode[s] /\ dir[n] # NoInode
    BY <2>2 DEF Present, Linked
  <2>4. PICK r \in Session : n = Leaf(r) /\ life[r] \in {"live", "dead"}
    BY <2>2, <2>3 DEF Orphans, Entries, Referenced
  <2>5. r = s
    BY <1>0, <2>3, <2>4 DEF FilesInvariant, Leaves, Distinct
  <2>6. QED
    BY <2>2, <2>4, <2>5
<1>4. QED
  <2>1. ASSUME Serving, life[s] = "aborted"
        PROVE  life'[s] # "aborted"
    BY <1>1, <2>1
  <2>2. QED
    BY <1>2, <1>3, <2>1

\* While the server serves, every file of the directory belongs to a session that is
\* reserved or lives, or a job looks for it: no crash between rename, unlink and
\* record, and no failed reservation, leaves one behind for ever.
THEOREM FilesAreNotForgotten ==
  ASSUME ReuseInodes = FALSE
  PROVE  Spec => []NothingForgotten
<1>1. FilesInvariant /\ Sought /\ [Next]_vars => Sought'
  BY DeadAreSought, RemovedAreGone, AbortedAreSwept DEF Sought
<1>2. FilesInvariant /\ Sought => NothingForgotten
  <2> SUFFICES ASSUME FilesInvariant, Sought, Serving, NEW n \in Entries
               PROVE  \/ \E s \in Session : n = Leaf(s) /\ life[s] \in {"reserving", "live"}
                      \/ \E s \in jobs : inode[s] = dir[n]
    BY DEF NothingForgotten
  <2>1. n \in Name /\ dir[n] # NoInode
    BY DEF Entries
  <2>2. PICK s \in Session : inode[s] = dir[n]
    BY <2>1 DEF FilesInvariant, OneName
  <2>3. s \in Present /\ life[s] # "new"
    BY <2>1, <2>2 DEF Present, Linked, FilesInvariant, Distinct
  <2>4. CASE life[s] \in {"reserving", "live"}
    <3>1. dir[Leaf(s)] = dir[n] /\ Leaf(s) \in Name
      BY <2>2, <2>4, Names DEF FilesInvariant, Leaves
    <3>2. n = Leaf(s)
      BY <2>1, <3>1 DEF FilesInvariant, OneName
    <3>3. QED
      BY <2>4, <3>2
  <2>5. CASE life[s] = "dead"
    BY <2>2, <2>3, <2>5 DEF Sought
  <2>6. QED
    BY <2>3, <2>4, <2>5 DEF Sought, FilesInvariant, TypeOK
<1>3. QED
  BY <1>1, <1>2, InitSought, FilesInvariantHolds, PTL DEF Spec

=============================================================================
