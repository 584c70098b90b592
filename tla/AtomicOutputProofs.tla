------------------------- MODULE AtomicOutputProofs -------------------------
(***************************************************************************)
(* Proofs about AtomicOutput, for any number of reservations, names,       *)
(* contents, crashes and failing calls: what readers find is what was      *)
(* validated, receipts hold, an abort leaves nothing, and all of it        *)
(* implements PublishedOutput.                                             *)
(***************************************************************************)
EXTENDS AtomicOutput, TLAPS

-----------------------------------------------------------------------------
(* The invariant.                                                          *)

Private == {"none", "creating", "journaling", "writing", "reopening", "probing", "probed",
            "recording", "validated", "committing", "aborting", "aborted"}
Sealed == {"probing", "probed", "recording", "validated", "committing"}
Judged == Sealed \ {"probing"}

\* A tool writes to a file that is still partial, and never beside a handle that
\* shares no writing.
ToolInv(r) ==
  /\ tool[r] => partial[r]
  /\ at[r] \in {"none", "creating", "journaling"} => ~tool[r]

\* From the second hash to the rename nobody can write, so that what was hashed, what
\* was judged and what the file holds are the same.
SealedInv(r) ==
  /\ at[r] \in Sealed => handle[r] = "exclusive"
  /\ at[r] \in Judged => accepted[r] = content[r] /\ content[r] \in Whole

\* A file has one name: the partial one until the rename, the final one after it.
NamedInv(r) ==
  /\ at[r] \in Private => final[Target[r]] # r
  /\ final[Target[r]] = r => ~partial[r] /\ accepted[r] = content[r] /\ content[r] \in Whole

\* The final name of a receipt is taken over by none but one that replaces.
Holds(r) ==
  \/ final[Target[r]] = r
  \/ \E q \in Reservation : final[Target[r]] = q /\ Target[q] = Target[r] /\ Policy[q] = "replace"

EndInv(r) ==
  /\ at[r] \in {"checked", "committed"} => Holds(r)
  /\ at[r] \in {"aborting", "aborted"} => ~partial[r] /\ handle[r] = "none"
  /\ at[r] = "aborted" => ~journal[r]

Inv ==
  /\ TypeOK
  /\ \A n \in Name : final[n] \in Reservation => Target[final[n]] = n
  /\ \A r \in Reservation : ToolInv(r) /\ SealedInv(r) /\ NamedInv(r) /\ EndInv(r)

-----------------------------------------------------------------------------
\* Type correctness, action by action.
LEMMA TypeStep == Inv /\ [Next]_vars => TypeOK'
<1> SUFFICES ASSUME Inv, [Next]_vars PROVE TypeOK'
  OBVIOUS
<1>0. TypeOK /\ \A r \in Reservation : at[r] = "aborting" => handle[r] = "none"
  BY DEF Inv, EndInv
<1> USE WritersAssumption
<1>1. ASSUME NEW r \in Reservation, CreatePartial(r) PROVE TypeOK'
  BY <1>0, <1>1 DEF CreatePartial, Goto, Close, Remove, Write, disk, memory, Record, Torn,
     Content, Held, Over, TypeOK
<1>2. ASSUME NEW r \in Reservation, CreateJournal(r) PROVE TypeOK'
  BY <1>0, <1>2 DEF CreateJournal, Goto, Close, Remove, Write, disk, memory, Record, Torn,
     Content, Held, Over, TypeOK
<1>3. ASSUME NEW r \in Reservation, WriteJournal(r) PROVE TypeOK'
  BY <1>0, <1>3 DEF WriteJournal, Goto, Close, Remove, Write, disk, memory, Record, Torn,
     Content, Held, Over, TypeOK
<1>4. ASSUME NEW r \in Reservation, CreateFails(r) PROVE TypeOK'
  <2>1. CASE Remove(partial, r) /\ Remove(journal, r)
    BY <1>0, <1>4, <2>1 DEF CreateFails, Fault, Goto, Close, Remove, Write, disk, memory,
       Record, Torn, Content, Held, Over, TypeOK
  <2>2. CASE UNCHANGED <<partial, journal>>
    BY <1>0, <1>4, <2>2 DEF CreateFails, Fault, Goto, Close, Remove, Write, disk, memory,
       Record, Torn, Content, Held, Over, TypeOK
  <2>3. QED
    BY <1>0, <1>4, <2>1, <2>2 DEF CreateFails
<1>5. ASSUME NEW r \in Reservation, OpenTool(r) PROVE TypeOK'
  BY <1>0, <1>5 DEF OpenTool, Goto, Close, Remove, Write, disk, memory, Record, Torn, Content,
     Held, Over, TypeOK
<1>6. ASSUME NEW r \in Reservation, WriteTool(r) PROVE TypeOK'
  BY <1>0, <1>6 DEF WriteTool, Goto, Close, Remove, Write, disk, memory, Record, Torn, Content,
     Held, Over, TypeOK
<1>7. ASSUME NEW r \in Reservation, CloseTool(r) PROVE TypeOK'
  BY <1>0, <1>7 DEF CloseTool, Goto, Close, Remove, Write, disk, memory, Record, Torn, Content,
     Held, Over, TypeOK
<1>8. ASSUME NEW r \in Reservation, BeginValidate(r) PROVE TypeOK'
  BY <1>0, <1>8 DEF BeginValidate, Goto, Close, Remove, Write, disk, memory, Record, Torn,
     Content, Held, Over, TypeOK
<1>9. ASSUME NEW r \in Reservation, Reopen(r) PROVE TypeOK'
  BY <1>0, <1>9 DEF Reopen, Reopened, Goto, Close, Remove, Write, disk, memory, Record, Torn,
     Content, Held, Over, TypeOK
<1>10. ASSUME NEW r \in Reservation, ReopenFails(r) PROVE TypeOK'
  BY <1>0, <1>10 DEF ReopenFails, Fault, Goto, Close, Remove, Write, disk, memory, Record, Torn,
     Content, Held, Over, TypeOK
<1>11. ASSUME NEW r \in Reservation, Probe(r) PROVE TypeOK'
  BY <1>0, <1>11 DEF Probe, Goto, Close, Remove, Write, disk, memory, Record, Torn, Content,
     Held, Over, TypeOK
<1>12. ASSUME NEW r \in Reservation, Measure(r) PROVE TypeOK'
  <2>1. record' \in [Reservation -> Record]
    BY <1>0, <1>12 DEF Measure, Write, Torn, Record, TypeOK
  <2>2. at' \in [Reservation -> Held \cup Over] /\ at' = [at EXCEPT ![r] = at'[r]] /\ at'[r] \notin Over
    BY <1>0, <1>12 DEF Measure, Goto, Held, Over, TypeOK
  <2>3. UNCHANGED <<final, partial, journal, content, tool, handle, measured, accepted, pass, crashes, faults>>
    BY <1>12 DEF Measure
  <2>4. QED
    BY <1>0, <2>1, <2>2, <2>3 DEF TypeOK
<1>13. ASSUME NEW r \in Reservation, RecordHash(r) PROVE TypeOK'
  <2>1. record' \in [Reservation -> Record]
    BY <1>0, <1>13 DEF RecordHash, Write, Record, TypeOK
  <2>2. at' \in [Reservation -> Held \cup Over] /\ at' = [at EXCEPT ![r] = at'[r]] /\ at'[r] \notin Over
    BY <1>0, <1>13 DEF RecordHash, Goto, Held, Over, TypeOK
  <2>3. UNCHANGED <<final, partial, journal, content, tool, handle, measured, accepted, pass, crashes>>
    BY <1>13 DEF RecordHash
  <2>4. faults' \in 0 .. MaxFaults
    BY <1>0, <1>13 DEF RecordHash, Fault, TypeOK
  <2>5. QED
    BY <1>0, <2>1, <2>2, <2>3, <2>4 DEF TypeOK
<1>14. ASSUME NEW r \in Reservation, BeginCommit(r) PROVE TypeOK'
  BY <1>0, <1>14 DEF BeginCommit, Goto, Close, Remove, Write, disk, memory, Record, Torn,
     Content, Held, Over, TypeOK
<1>15. ASSUME NEW r \in Reservation, Rename(r) PROVE TypeOK'
  BY <1>0, <1>15 DEF Rename, DestinationExists, MayReplace, Goto, Close, Remove, Write, disk,
     memory, Record, Torn, Content, Held, Over, TypeOK
<1>16. ASSUME NEW r \in Reservation, Confirm(r) PROVE TypeOK'
  BY <1>0, <1>16 DEF Confirm, Goto, Close, Remove, Write, disk, memory, Record, Torn, Content,
     Held, Over, TypeOK
<1>17. ASSUME NEW r \in Reservation, CleanJournal(r) PROVE TypeOK'
  BY <1>0, <1>17 DEF CleanJournal, Goto, Close, Remove, Write, disk, memory, Record, Torn,
     Content, Held, Over, TypeOK
<1>18. ASSUME NEW r \in Reservation, CommitFails(r) PROVE TypeOK'
  BY <1>0, <1>18 DEF CommitFails, Fault, DestinationExists, MayReplace, Goto, Close, Remove,
     Write, disk, memory, Record, Torn, Content, Held, Over, TypeOK
<1>19. ASSUME NEW r \in Reservation, AbortPartial(r) PROVE TypeOK'
  BY <1>0, <1>19 DEF AbortPartial, Goto, Close, Remove, Write, disk, memory, Record, Torn,
     Content, Held, Over, TypeOK
<1>20. ASSUME NEW r \in Reservation, AbortJournal(r) PROVE TypeOK'
  <2>1. CASE Remove(journal, r) /\ Goto(r, "aborted") /\ UNCHANGED faults
    BY <1>0, <1>20, <2>1 DEF AbortJournal, Unremoved, Fault, Goto, Close, Remove, Write, disk,
       memory, Record, Torn, Content, Held, Over, TypeOK
  <2>2. CASE Unremoved(r)
    BY <1>0, <1>20, <2>2 DEF AbortJournal, Unremoved, Fault, Goto, Close, Remove, Write, disk,
       memory, Record, Torn, Content, Held, Over, TypeOK
  <2>3. QED
    BY <1>0, <1>20, <2>1, <2>2 DEF AbortJournal, Unremoved
<1>21. ASSUME NEW r \in Reservation, Drop(r) PROVE TypeOK'
  BY <1>0, <1>21 DEF Drop, Goto, Close, Remove, Write, disk, memory, Record, Torn, Content, Held, Over, TypeOK
<1>22. ASSUME NEW r \in Reservation, ReconcilePublished(r) PROVE TypeOK'
  BY <1>0, <1>22 DEF ReconcilePublished, Quiet, Goto, Close, Remove, Write, disk, memory,
     Record, Torn, Content, Held, Over, TypeOK
<1>23. ASSUME NEW r \in Reservation, ReconcilePartial(r) PROVE TypeOK'
  BY <1>0, <1>23 DEF ReconcilePartial, Quiet, Goto, Close, Remove, Write, disk, memory, Record,
     Torn, Content, Held, Over, TypeOK
<1>24. CASE ReconcileJournal
  <2>1. CASE Remove(journal, pass) /\ UNCHANGED faults
    BY <1>0, <1>24, <2>1 DEF ReconcileJournal, Fault, Goto, Close, Remove, Write, disk, memory,
       Record, Torn, Content, Held, Over, TypeOK
  <2>2. CASE UNCHANGED journal /\ Fault
    BY <1>0, <1>24, <2>2 DEF ReconcileJournal, Fault, Goto, Close, Remove, Write, disk, memory,
       Record, Torn, Content, Held, Over, TypeOK
  <2>3. QED
    BY <1>0, <1>24, <2>1, <2>2 DEF ReconcileJournal
<1>25. CASE Crash
  BY <1>0, <1>25 DEF Crash, Goto, Close, Remove, Write, disk, memory, Record, Torn, Content,
     Held, Over, TypeOK
<1>26. CASE UNCHANGED vars
  BY <1>0, <1>26 DEF vars, Goto, Close, Remove, Write, disk, memory, Record, Torn, Content, Held, Over, TypeOK
<1>27. QED
  BY <1>1, <1>2, <1>3, <1>4, <1>5, <1>6, <1>7, <1>8, <1>9, <1>10, <1>11, <1>12, <1>13, <1>14,
     <1>15, <1>16, <1>17, <1>18, <1>19, <1>20, <1>21, <1>22, <1>23, <1>24, <1>25, <1>26 DEF Next,
     ReservationStep, ToolStep
\* The invariant, action by action.
LEMMA InvStep == Inv /\ [Next]_vars => Inv'
<1> SUFFICES ASSUME Inv, [Next]_vars PROVE Inv'
  OBVIOUS
<1> USE WritersAssumption
<1> DEFINE Good(x) == ToolInv(x) /\ SealedInv(x) /\ NamedInv(x) /\ EndInv(x)
<1>0. /\ TypeOK /\ TypeOK'
      /\ \A n \in Name : final[n] \in Reservation => Target[final[n]] = n
      /\ \A x \in Reservation : Good(x)
  BY TypeStep DEF Inv
<1>1. ASSUME NEW r \in Reservation, CreatePartial(r), NEW x \in Reservation PROVE Good(x)'
  BY <1>0, <1>1 DEF CreatePartial, Goto, Close, Remove, Write, disk, memory, Held, Over, TypeOK,
     ToolInv, SealedInv, NamedInv, EndInv, Holds, Private, Sealed, Judged, Content
<1>2. ASSUME NEW r \in Reservation, CreateJournal(r), NEW x \in Reservation PROVE Good(x)'
  BY <1>0, <1>2 DEF CreateJournal, Goto, Close, Remove, Write, disk, memory, Held, Over, TypeOK,
     ToolInv, SealedInv, NamedInv, EndInv, Holds, Private, Sealed, Judged, Content
<1>3. ASSUME NEW r \in Reservation, WriteJournal(r), NEW x \in Reservation PROVE Good(x)'
  BY <1>0, <1>3 DEF WriteJournal, Goto, Close, Remove, Write, disk, memory, Held, Over, TypeOK,
     ToolInv, SealedInv, NamedInv, EndInv, Holds, Private, Sealed, Judged, Content
<1>4. ASSUME NEW r \in Reservation, CreateFails(r), NEW x \in Reservation PROVE Good(x)'
  BY <1>0, <1>4 DEF CreateFails, Fault, Goto, Close, Remove, Write, disk, memory, Held, Over,
     TypeOK, ToolInv, SealedInv, NamedInv, EndInv, Holds, Private, Sealed, Judged, Content
<1>5. ASSUME NEW r \in Reservation, OpenTool(r), NEW x \in Reservation PROVE Good(x)'
  BY <1>0, <1>5 DEF OpenTool, Goto, Close, Remove, Write, disk, memory, Held, Over, TypeOK,
     ToolInv, SealedInv, NamedInv, EndInv, Holds, Private, Sealed, Judged, Content
<1>6. ASSUME NEW r \in Reservation, WriteTool(r), NEW x \in Reservation PROVE Good(x)'
  BY <1>0, <1>6 DEF WriteTool, Goto, Close, Remove, Write, disk, memory, Held, Over, TypeOK,
     ToolInv, SealedInv, NamedInv, EndInv, Holds, Private, Sealed, Judged, Content
<1>7. ASSUME NEW r \in Reservation, CloseTool(r), NEW x \in Reservation PROVE Good(x)'
  BY <1>0, <1>7 DEF CloseTool, Goto, Close, Remove, Write, disk, memory, Held, Over, TypeOK,
     ToolInv, SealedInv, NamedInv, EndInv, Holds, Private, Sealed, Judged, Content
<1>8. ASSUME NEW r \in Reservation, BeginValidate(r), NEW x \in Reservation PROVE Good(x)'
  BY <1>0, <1>8 DEF BeginValidate, Goto, Close, Remove, Write, disk, memory, Held, Over, TypeOK,
     ToolInv, SealedInv, NamedInv, EndInv, Holds, Private, Sealed, Judged, Content
<1>9. ASSUME NEW r \in Reservation, Reopen(r), NEW x \in Reservation PROVE Good(x)'
  BY <1>0, <1>9 DEF Reopen, Reopened, Goto, Close, Remove, Write, disk, memory, Held, Over,
     TypeOK, ToolInv, SealedInv, NamedInv, EndInv, Holds, Private, Sealed, Judged, Content
<1>10. ASSUME NEW r \in Reservation, ReopenFails(r), NEW x \in Reservation PROVE Good(x)'
  BY <1>0, <1>10 DEF ReopenFails, Fault, Goto, Close, Remove, Write, disk, memory, Held, Over,
     TypeOK, ToolInv, SealedInv, NamedInv, EndInv, Holds, Private, Sealed, Judged, Content
<1>11. ASSUME NEW r \in Reservation, Probe(r), NEW x \in Reservation PROVE Good(x)'
  BY <1>0, <1>11 DEF Probe, Goto, Close, Remove, Write, disk, memory, Held, Over, TypeOK,
     ToolInv, SealedInv, NamedInv, EndInv, Holds, Private, Sealed, Judged, Content
<1>12. ASSUME NEW r \in Reservation, Measure(r), NEW x \in Reservation PROVE Good(x)'
  BY <1>0, <1>12 DEF Measure, Goto, Close, Remove, Write, disk, memory, Held, Over, TypeOK,
     ToolInv, SealedInv, NamedInv, EndInv, Holds, Private, Sealed, Judged, Content
<1>13. ASSUME NEW r \in Reservation, RecordHash(r), NEW x \in Reservation PROVE Good(x)'
  BY <1>0, <1>13 DEF RecordHash, Fault, Goto, Close, Remove, Write, disk, memory, Held, Over,
     TypeOK, ToolInv, SealedInv, NamedInv, EndInv, Holds, Private, Sealed, Judged, Content
<1>14. ASSUME NEW r \in Reservation, BeginCommit(r), NEW x \in Reservation PROVE Good(x)'
  BY <1>0, <1>14 DEF BeginCommit, Goto, Close, Remove, Write, disk, memory, Held, Over, TypeOK,
     ToolInv, SealedInv, NamedInv, EndInv, Holds, Private, Sealed, Judged, Content
<1>15. ASSUME NEW r \in Reservation, Rename(r), NEW x \in Reservation PROVE Good(x)'
  BY <1>0, <1>15 DEF Rename, DestinationExists, MayReplace, Goto, Close, Remove, Write, disk,
     memory, Held, Over, TypeOK, ToolInv, SealedInv, NamedInv, EndInv, Holds, Private, Sealed,
     Judged, Content
<1>16. ASSUME NEW r \in Reservation, Confirm(r), NEW x \in Reservation PROVE Good(x)'
  BY <1>0, <1>16 DEF Confirm, Goto, Close, Remove, Write, disk, memory, Held, Over, TypeOK,
     ToolInv, SealedInv, NamedInv, EndInv, Holds, Private, Sealed, Judged, Content
<1>17. ASSUME NEW r \in Reservation, CleanJournal(r), NEW x \in Reservation PROVE Good(x)'
  BY <1>0, <1>17 DEF CleanJournal, Goto, Close, Remove, Write, disk, memory, Held, Over, TypeOK,
     ToolInv, SealedInv, NamedInv, EndInv, Holds, Private, Sealed, Judged, Content
<1>18. ASSUME NEW r \in Reservation, CommitFails(r), NEW x \in Reservation PROVE Good(x)'
  BY <1>0, <1>18 DEF CommitFails, Fault, Goto, Close, Remove, Write, disk, memory, Held, Over,
     TypeOK, ToolInv, SealedInv, NamedInv, EndInv, Holds, Private, Sealed, Judged, Content
<1>19. ASSUME NEW r \in Reservation, AbortPartial(r), NEW x \in Reservation PROVE Good(x)'
  BY <1>0, <1>19 DEF AbortPartial, Goto, Close, Remove, Write, disk, memory, Held, Over, TypeOK,
     ToolInv, SealedInv, NamedInv, EndInv, Holds, Private, Sealed, Judged, Content
<1>20. ASSUME NEW r \in Reservation, AbortJournal(r), NEW x \in Reservation PROVE Good(x)'
  BY <1>0, <1>20 DEF AbortJournal, Fault, Unremoved, Goto, Close, Remove, Write, disk, memory,
     Held, Over, TypeOK, ToolInv, SealedInv, NamedInv, EndInv, Holds, Private, Sealed, Judged,
     Content
<1>21. ASSUME NEW r \in Reservation, Drop(r), NEW x \in Reservation PROVE Good(x)'
  BY <1>0, <1>21 DEF Drop, Goto, Close, Remove, Write, disk, memory, Held, Over, TypeOK,
     ToolInv, SealedInv, NamedInv, EndInv, Holds, Private, Sealed, Judged, Content
<1>22. ASSUME NEW r \in Reservation, ReconcilePublished(r), NEW x \in Reservation PROVE Good(x)'
  BY <1>0, <1>22 DEF ReconcilePublished, Goto, Close, Remove, Write, disk, memory, Held, Over,
     TypeOK, ToolInv, SealedInv, NamedInv, EndInv, Holds, Private, Sealed, Judged, Content
<1>23. ASSUME NEW r \in Reservation, ReconcilePartial(r), NEW x \in Reservation PROVE Good(x)'
  BY <1>0, <1>23 DEF ReconcilePartial, Goto, Close, Remove, Write, disk, memory, Held, Over,
     TypeOK, ToolInv, SealedInv, NamedInv, EndInv, Holds, Private, Sealed, Judged, Content
<1>24. ASSUME ReconcileJournal, NEW x \in Reservation PROVE Good(x)'
  BY <1>0, <1>24 DEF ReconcileJournal, Fault, Goto, Close, Remove, Write, disk, memory, Held,
     Over, TypeOK, ToolInv, SealedInv, NamedInv, EndInv, Holds, Private, Sealed, Judged, Content
<1>25. ASSUME Crash, NEW x \in Reservation PROVE Good(x)'
  BY <1>0, <1>25 DEF Crash, Goto, Close, Remove, Write, disk, memory, Held, Over, TypeOK,
     ToolInv, SealedInv, NamedInv, EndInv, Holds, Private, Sealed, Judged, Content
<1>26. ASSUME UNCHANGED vars, NEW x \in Reservation PROVE Good(x)'
  BY <1>0, <1>26 DEF vars, Goto, Close, Remove, Write, disk, memory, Held, Over, TypeOK,
     ToolInv, SealedInv, NamedInv, EndInv, Holds, Private, Sealed, Judged, Content
<1>27. ASSUME NEW n \in Name, final'[n] \in Reservation PROVE Target[final'[n]] = n
  <2>1. CASE UNCHANGED final
    BY <1>0, <1>27, <2>1
  <2>2. ASSUME NEW r \in Reservation, Rename(r) PROVE Target[final'[n]] = n
    BY <1>0, <1>27, <2>2 DEF Rename, TypeOK
  <2>3. QED
    BY <2>1, <2>2 DEF Next, ReservationStep, ToolStep, vars, disk, CreatePartial, CreateJournal,
       WriteJournal, CreateFails, OpenTool, WriteTool, CloseTool, BeginValidate, Reopen,
       ReopenFails, Probe, Measure, RecordHash, BeginCommit, Confirm, CleanJournal, CommitFails,
       AbortPartial, AbortJournal, Drop, ReconcilePublished, ReconcilePartial, ReconcileJournal,
       Crash
<1>28. QED
  BY <1>0, <1>1, <1>2, <1>3, <1>4, <1>5, <1>6, <1>7, <1>8, <1>9, <1>10, <1>11, <1>12, <1>13,
     <1>14, <1>15, <1>16, <1>17, <1>18, <1>19, <1>20, <1>21, <1>22, <1>23, <1>24, <1>25, <1>26,
     <1>27 DEF Inv, Next, ReservationStep, ToolStep

\* No reservation has been made.
LEMMA InvInit == Init => Inv
BY WritersAssumption DEF Init, Inv, TypeOK, Record, Torn, Content, Held, Over, ToolInv, SealedInv,
   NamedInv, EndInv, Judged, Sealed, Private

\* The invariant holds in every reachable state.
THEOREM Invariant == Spec => []Inv
BY InvInit, InvStep, PTL DEF Spec

-----------------------------------------------------------------------------
(* What it gives.                                                          *)

\* Every variable holds a value of its kind; a reservation that is over has no handle,
\* and the handle that validates shares the file with no writer.
THEOREM Typed == Spec => []TypeOK
<1>1. Inv => TypeOK
  BY DEF Inv
<1>2. QED
  BY <1>1, Invariant, PTL

\* A final name holds the content that the validator accepted, for as long as any
\* tool lives (validate's share modes and hashes, commit's rename of an open handle).
THEOREM OutputsAreValidated == Spec => []PublishedIsValidated
<1>1. Inv => PublishedIsValidated
  <2> SUFFICES ASSUME Inv, NEW n \in Name, final[n] \in Reservation
               PROVE  content[final[n]] = accepted[final[n]]
    BY DEF PublishedIsValidated
  <2>1. Target[final[n]] = n /\ NamedInv(final[n])
    BY DEF Inv
  <2>2. QED
    BY <2>1 DEF NamedInv
<1>2. QED
  BY <1>1, Invariant, PTL

\* A committed output is under its name until one that replaces takes it.
THEOREM ReceiptsAreKept == Spec => []ReceiptIsKept
<1>1. Inv => ReceiptIsKept
  BY DEF Inv, EndInv, Holds, ReceiptIsKept
<1>2. QED
  BY <1>1, Invariant, PTL

\* An aborted output was never published and leaves neither file nor journal.
THEOREM AbortsLeaveNothing == Spec => []AbortedLeavesNothing
<1>1. Inv => AbortedLeavesNothing
  BY DEF Inv, EndInv, NamedInv, Private, AbortedLeavesNothing
<1>2. QED
  BY <1>1, Invariant, PTL

-----------------------------------------------------------------------------
(* The refinement.                                                         *)

\* At first no name holds an output of a reservation.
LEMMA ReaderInit == Init => Reader!Init
BY WritersAssumption DEF Init, Reader!Init, Output

\* What a name shows changes only with the name or with the file it names.
LEMMA OutputUnchanged ==
  ASSUME final' = final,
         \A n \in Name : final[n] \in Reservation => content'[final[n]] = content[final[n]]
  PROVE  Output' = Output
BY DEF Output

\* The rename publishes a content that was judged whole, under a name that was free
\* or may be replaced.
LEMMA RenamePublishes ==
  ASSUME Inv, NEW r \in Reservation, Rename(r)
  PROVE  Reader!Publish(Target[r])
<1>1. /\ TypeOK /\ Target[r] \in Name
      /\ content[r] \in Whole
  BY WritersAssumption DEF Inv, SealedInv, Judged, Sealed, Rename
<1>2. Output[Target[r]] = Nothing \/ Target[r] \in {Target[q] : q \in {p \in Reservation : Policy[p] = "replace"}}
  BY <1>1, WritersAssumption DEF Rename, DestinationExists, MayReplace, Output
<1>3. Output' = [Output EXCEPT ![Target[r]] = content[r]]
  BY <1>1 DEF Rename, Output, TypeOK
<1>4. QED
  BY <1>1, <1>2, <1>3 DEF Reader!Publish

\* Every other step leaves what readers see: a file that has a final name is not written.
LEMMA ReaderStep == Inv /\ [Next]_vars => [Reader!Next]_Output
<1> SUFFICES ASSUME Inv, [Next]_vars PROVE [Reader!Next]_Output
  OBVIOUS
<1>1. ASSUME NEW r \in Reservation, Rename(r) PROVE Reader!Next
  BY <1>1, RenamePublishes, WritersAssumption DEF Reader!Next
<1>2. ASSUME NEW r \in Reservation, WriteTool(r) PROVE Output' = Output
  <2>1. ASSUME NEW n \in Name, final[n] \in Reservation PROVE content'[final[n]] = content[final[n]]
    <3>1. Target[final[n]] = n /\ NamedInv(final[n]) /\ ToolInv(r) /\ TypeOK
      BY <2>1 DEF Inv
    <3>2. final[n] # r
      BY <1>2, <3>1 DEF NamedInv, ToolInv, WriteTool
    <3>3. QED
      BY <1>2, <2>1, <3>1, <3>2 DEF WriteTool, TypeOK
  <2>2. QED
    BY <1>2, <2>1, OutputUnchanged DEF WriteTool
<1>3. CASE UNCHANGED <<final, content>>
  BY <1>3, OutputUnchanged
<1>4. QED
  BY <1>1, <1>2, <1>3 DEF Next, ReservationStep, ToolStep, vars, disk, CreatePartial, CreateJournal,
     WriteJournal, CreateFails, OpenTool, CloseTool, BeginValidate, Reopen, ReopenFails, Probe, Measure,
     RecordHash, BeginCommit, Confirm, CleanJournal, CommitFails, AbortPartial, AbortJournal, Drop,
     ReconcilePublished, ReconcilePartial, ReconcileJournal, Crash

\* Readers see outputs as a whole or not at all, and each change in one step: the
\* module implements PublishedOutput.
THEOREM OutputsAreAtomic == Spec => Implements
BY ReaderInit, ReaderStep, Invariant, PTL DEF Spec, Implements, Reader!Spec

=============================================================================
