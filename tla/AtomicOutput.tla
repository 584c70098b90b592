---------------------------- MODULE AtomicOutput ----------------------------
(***************************************************************************)
(* The life of an output file in fluxform-atomic-output, on Windows (on    *)
(* Unix every operation is refused): a tool writes a partial file, which   *)
(* is validated, renamed to its final name and forgotten, or aborted; a    *)
(* journal beside it lets reconcile clean up after a crash.                *)
(*                                                                         *)
(* Every system call that another thread, the tool or a crash can tell     *)
(* apart is an action. A hash of a content is the content.                 *)
(***************************************************************************)
EXTENDS Naturals

CONSTANTS
  Reservation,  \* output reservations, each of a job of its own
  Name,         \* final names
  Target,       \* [Reservation -> Name]
  Policy,       \* [Reservation -> {"reject", "replace"}], OverwritePolicyV1
  Whole,        \* contents the validator accepts
  Cut,          \* any other content
  Earlier,      \* a file that was there before
  Nothing,      \* no file, no content
  MaxCrashes,   \* crashes of the process (bound of the model)
  MaxFaults     \* system calls that fail for no reason (bound of the model)

ASSUME WritersAssumption ==
  /\ Target \in [Reservation -> Name]
  /\ Policy \in [Reservation -> {"reject", "replace"}]
  /\ Earlier \notin Reservation /\ Nothing \notin Reservation
  /\ MaxCrashes \in Nat /\ MaxFaults \in Nat

Content == Whole \cup {Cut}

VARIABLES
  final,     \* [Name -> the file under the final name]
  partial,   \* [Reservation -> its partial file is in the directory]
  journal,   \* [Reservation -> its journal is in the directory]
  record,    \* [Reservation -> what the journal says]
  content,   \* [Reservation -> content of the file the reservation created]
  tool,      \* [Reservation -> the tool has the file open for writing]
  at,        \* [Reservation -> Phase, or where an operation is in it]
  handle,    \* [Reservation -> the handle in the slot of the partial file]
  measured,  \* [Reservation -> the hash validation took]
  accepted,  \* [Reservation -> the content the validator saw]
  pass,      \* the reservation whose journal reconcile still has to delete
  crashes, faults

disk == <<final, partial, journal, record, content>>
memory == <<at, handle, measured, accepted, pass>>
vars == <<disk, tool, memory, crashes, faults>>

Record == [phase : {"torn", "writing", "validated"}, hash : Content \cup {Nothing}]
Torn == [phase |-> "torn", hash |-> Nothing]

\* Phase::Writing, Validated and Committing; the steps of create, validate, commit and
\* abort; "stuck" is a commit that returned an error.
Held == {"creating", "journaling", "writing", "reopening", "probing", "probed", "recording",
         "validated", "committing", "renamed", "checked", "aborting", "stuck"}
Over == {"none", "dropped", "committed", "aborted"}

TypeOK ==
  /\ final \in [Name -> Reservation \cup {Earlier, Nothing}]
  /\ partial \in [Reservation -> BOOLEAN] /\ journal \in [Reservation -> BOOLEAN]
  /\ record \in [Reservation -> Record]
  /\ content \in [Reservation -> Content] /\ tool \in [Reservation -> BOOLEAN]
  /\ at \in [Reservation -> Held \cup Over]
  /\ handle \in [Reservation -> {"none", "shared", "exclusive"}]
  /\ measured \in [Reservation -> Content \cup {Nothing}]
  /\ accepted \in [Reservation -> Content \cup {Nothing}]
  /\ pass \in Reservation \cup {Nothing}
  /\ \A r \in Reservation : at[r] \in Over => handle[r] = "none"
  /\ \A r \in Reservation : handle[r] = "exclusive" => ~tool[r]
  /\ crashes \in 0 .. MaxCrashes /\ faults \in 0 .. MaxFaults

Init ==
  /\ final \in [Name -> {Earlier, Nothing}]
  /\ partial = [r \in Reservation |-> FALSE] /\ journal = [r \in Reservation |-> FALSE]
  /\ record = [r \in Reservation |-> Torn]
  /\ content = [r \in Reservation |-> Cut] /\ tool = [r \in Reservation |-> FALSE]
  /\ at = [r \in Reservation |-> "none"] /\ handle = [r \in Reservation |-> "none"]
  /\ measured = [r \in Reservation |-> Nothing] /\ accepted = [r \in Reservation |-> Nothing]
  /\ pass = Nothing /\ crashes = 0 /\ faults = 0

Fault == faults < MaxFaults /\ faults' = faults + 1
Goto(r, place) == at' = [at EXCEPT ![r] = place]
Close(r) == handle' = [handle EXCEPT ![r] = "none"]
Remove(file, r) == file' = [file EXCEPT ![r] = FALSE]
Write(r, rec) == record' = [record EXCEPT ![r] = rec]

-----------------------------------------------------------------------------
(* OutputReservation::create.                                              *)

CreatePartial(r) ==
  /\ at[r] = "none" /\ pass = Nothing
  /\ partial' = [partial EXCEPT ![r] = TRUE]
  /\ handle' = [handle EXCEPT ![r] = "shared"]
  /\ Goto(r, "creating")
  /\ UNCHANGED <<final, journal, record, content, tool, measured, accepted, pass, crashes, faults>>

CreateJournal(r) ==
  /\ at[r] = "creating"
  /\ journal' = [journal EXCEPT ![r] = TRUE]
  /\ Goto(r, "journaling")
  /\ UNCHANGED <<final, partial, record, content, tool, handle, measured, accepted, pass,
                 crashes, faults>>

\* write_journal truncates the file before it writes.
WriteJournal(r) ==
  /\ at[r] = "journaling"
  /\ Write(r, [phase |-> "writing", hash |-> Nothing])
  /\ Goto(r, "writing")
  /\ UNCHANGED <<final, partial, journal, content, tool, handle, measured, accepted, pass,
                 crashes, faults>>

\* An error: what was created is deleted, and nobody asks whether that worked.
CreateFails(r) ==
  /\ at[r] \in {"creating", "journaling"} /\ Fault
  /\ \/ Remove(partial, r) /\ Remove(journal, r)
     \/ UNCHANGED <<partial, journal>>
  /\ Goto(r, "dropped") /\ Close(r)
  /\ UNCHANGED <<final, record, content, tool, measured, accepted, pass, crashes>>

-----------------------------------------------------------------------------
(* The tool: it opens the partial path without sharing deletion, and may   *)
(* outlive the process.                                                    *)

OpenTool(r) ==
  /\ partial[r] /\ ~tool[r] /\ at[r] \in Held /\ at[r] \notin {"creating", "journaling"}
  /\ handle[r] # "exclusive"
  /\ tool' = [tool EXCEPT ![r] = TRUE]
  /\ UNCHANGED <<disk, memory, crashes, faults>>

WriteTool(r) ==
  /\ tool[r]
  /\ \E c \in Content : content' = [content EXCEPT ![r] = c]
  /\ UNCHANGED <<final, partial, journal, record, tool, memory, crashes, faults>>

CloseTool(r) ==
  /\ tool[r]
  /\ tool' = [tool EXCEPT ![r] = FALSE]
  /\ UNCHANGED <<disk, memory, crashes, faults>>

-----------------------------------------------------------------------------
(* OutputReservation::validate, under the state lock.                      *)

BeginValidate(r) ==
  /\ at[r] = "writing" /\ handle[r] # "none"
  /\ measured' = [measured EXCEPT ![r] = content[r]]
  /\ Close(r) /\ Goto(r, "reopening")
  /\ UNCHANGED <<disk, tool, accepted, pass, crashes, faults>>

\* The new handle shares neither with a tool that still writes nor with one that would.
Reopened(r) == ~tool[r] /\ handle' = [handle EXCEPT ![r] = "exclusive"]

Reopen(r) ==
  /\ at[r] = "reopening"
  /\ Reopened(r)
  /\ Goto(r, IF content[r] = measured[r] THEN "probing" ELSE "writing")
  /\ UNCHANGED <<disk, tool, measured, accepted, pass, crashes, faults>>

\* Without its handle the reservation can only be aborted.
ReopenFails(r) ==
  /\ at[r] = "reopening"
  /\ \/ tool[r] /\ UNCHANGED faults
     \/ Fault
  /\ Goto(r, "writing")
  /\ UNCHANGED <<disk, tool, handle, measured, accepted, pass, crashes>>

\* The validator looks at the file; it may reject it, or time out.
Probe(r) ==
  /\ at[r] = "probing"
  /\ \/ /\ content[r] \in Whole
        /\ accepted' = [accepted EXCEPT ![r] = content[r]]
        /\ Goto(r, "probed")
     \/ Goto(r, "writing") /\ UNCHANGED accepted
  /\ UNCHANGED <<disk, tool, handle, measured, pass, crashes, faults>>

\* The journal is written anew: it says nothing between truncation and write.
Measure(r) ==
  /\ at[r] = "probed"
  /\ IF content[r] = measured[r]
     THEN Write(r, Torn) /\ Goto(r, "recording")
     ELSE UNCHANGED record /\ Goto(r, "writing")
  /\ UNCHANGED <<final, partial, journal, content, tool, handle, measured, accepted, pass,
                 crashes, faults>>

RecordHash(r) ==
  /\ at[r] = "recording"
  /\ \/ /\ Write(r, [phase |-> "validated", hash |-> measured[r]])
        /\ Goto(r, "validated") /\ UNCHANGED faults
     \/ Fault /\ Goto(r, "writing") /\ UNCHANGED record
  /\ UNCHANGED <<final, partial, journal, content, tool, handle, measured, accepted, pass, crashes>>

-----------------------------------------------------------------------------
(* ValidatedOutput::commit, under the state lock. Its boundaries are those *)
(* of CommitBoundary.                                                      *)

BeginCommit(r) ==
  /\ at[r] = "validated"
  /\ Goto(r, "committing")
  /\ UNCHANGED <<disk, tool, handle, measured, accepted, pass, crashes, faults>>

\* rename_relative: the file system decides whether the name is free, as it renames.
MayReplace_Always(r) == TRUE
MayReplace(r) == Policy[r] = "replace"
DestinationExists(r) == final[Target[r]] # Nothing /\ ~MayReplace(r)

\* A delete-then-rename, for comparison.
Rename_InTwoSteps(r) ==
  /\ at[r] = "committing" /\ ~DestinationExists(r)
  /\ IF final[Target[r]] # Nothing
     THEN /\ final' = [final EXCEPT ![Target[r]] = Nothing]
          /\ UNCHANGED <<partial, at>>
     ELSE /\ final' = [final EXCEPT ![Target[r]] = r]
          /\ Remove(partial, r) /\ Goto(r, "renamed")
  /\ UNCHANGED <<journal, record, content, tool, handle, measured, accepted, pass, crashes, faults>>

Rename(r) ==
  /\ at[r] = "committing" /\ ~DestinationExists(r)
  /\ final' = [final EXCEPT ![Target[r]] = r]
  /\ Remove(partial, r) /\ Goto(r, "renamed")
  /\ UNCHANGED <<journal, record, content, tool, handle, measured, accepted, pass, crashes, faults>>

\* The final name is opened again: another writer may have replaced it.
Confirm(r) ==
  /\ at[r] = "renamed"
  /\ Goto(r, IF final[Target[r]] = r /\ content[r] = measured[r] THEN "checked" ELSE "stuck")
  /\ UNCHANGED <<disk, tool, handle, measured, accepted, pass, crashes, faults>>

CleanJournal(r) ==
  /\ at[r] = "checked"
  /\ Remove(journal, r) /\ Goto(r, "committed") /\ Close(r)
  /\ UNCHANGED <<final, partial, record, content, tool, measured, accepted, pass, crashes, faults>>

\* An error at any boundary; the output may be published or not.
CommitFails(r) ==
  /\ \/ at[r] = "committing" /\ DestinationExists(r) /\ UNCHANGED faults
     \/ at[r] \in {"committing", "renamed", "checked"} /\ Fault
  /\ Goto(r, "stuck")
  /\ UNCHANGED <<disk, tool, handle, measured, accepted, pass, crashes>>

-----------------------------------------------------------------------------
(* OutputReservation::abort, under the state lock.                         *)

\* The tool must have closed the file.
AbortPartial(r) ==
  /\ at[r] = "writing" /\ partial[r] /\ ~tool[r]
  /\ Remove(partial, r) /\ Close(r) /\ Goto(r, "aborting")
  /\ UNCHANGED <<final, journal, record, content, tool, measured, accepted, pass, crashes, faults>>

\* A failure leaves a reservation without its partial, which cannot be aborted again.
Unremoved_Anyway(r) == UNCHANGED journal /\ Fault /\ Goto(r, "aborted")
Unremoved(r) == UNCHANGED journal /\ Fault /\ Goto(r, "writing")

AbortJournal(r) ==
  /\ at[r] = "aborting"
  /\ \/ Remove(journal, r) /\ Goto(r, "aborted") /\ UNCHANGED faults
     \/ Unremoved(r)
  /\ UNCHANGED <<final, partial, record, content, tool, handle, measured, accepted, pass, crashes>>

\* A reservation that goes out of scope closes its handles and deletes nothing.
Drop(r) ==
  /\ at[r] \in {"writing", "validated", "stuck"}
  /\ Goto(r, "dropped") /\ Close(r)
  /\ UNCHANGED <<disk, tool, measured, accepted, pass, crashes, faults>>

Crash ==
  /\ crashes < MaxCrashes /\ crashes' = crashes + 1
  /\ at' = [r \in Reservation |-> IF at[r] \in Held THEN "dropped" ELSE at[r]]
  /\ handle' = [r \in Reservation |-> "none"]
  /\ pass' = Nothing
  /\ UNCHANGED <<disk, tool, measured, accepted, faults>>

-----------------------------------------------------------------------------
(* TaskOutputDir::reconcile, as its callers use it: nothing else of the    *)
(* process works in the directory.                                         *)

Quiet == pass = Nothing /\ \A r \in Reservation : at[r] \in Over
Readable(r) == journal[r] /\ record[r].phase # "torn"

\* The final name holds the file the journal describes.
Published(r) ==
  /\ record[r].phase = "validated"
  /\ final[Target[r]] = r /\ content[r] = record[r].hash

ReconcilePublished(r) ==
  /\ Quiet /\ Readable(r) /\ Published(r)
  /\ Remove(journal, r)
  /\ UNCHANGED <<final, partial, record, content, tool, memory, crashes, faults>>

ReconcilePartial(r) ==
  /\ Quiet /\ Readable(r) /\ ~Published(r)
  /\ partial[r] /\ ~tool[r]
  /\ Remove(partial, r) /\ pass' = r
  /\ UNCHANGED <<final, journal, record, content, tool, at, handle, measured, accepted,
                 crashes, faults>>

ReconcileJournal ==
  /\ pass # Nothing
  /\ \/ Remove(journal, pass) /\ UNCHANGED faults
     \/ UNCHANGED journal /\ Fault
  /\ pass' = Nothing
  /\ UNCHANGED <<final, partial, record, content, tool, at, handle, measured, accepted, crashes>>

-----------------------------------------------------------------------------
ReservationStep(r) ==
  \/ CreatePartial(r) \/ CreateJournal(r) \/ WriteJournal(r) \/ CreateFails(r)
  \/ BeginValidate(r) \/ Reopen(r) \/ ReopenFails(r) \/ Probe(r) \/ Measure(r) \/ RecordHash(r)
  \/ BeginCommit(r) \/ Rename(r) \/ Confirm(r) \/ CleanJournal(r) \/ CommitFails(r)
  \/ AbortPartial(r) \/ AbortJournal(r) \/ Drop(r)

ToolStep(r) == OpenTool(r) \/ WriteTool(r) \/ CloseTool(r)

Next ==
  \/ \E r \in Reservation : ReservationStep(r) \/ ToolStep(r)
                              \/ ReconcilePublished(r) \/ ReconcilePartial(r)
  \/ ReconcileJournal
  \/ Crash

Spec == Init /\ [][Next]_vars

-----------------------------------------------------------------------------
(* Properties.                                                             *)

\* What a reader finds under a final name is the content the validator accepted, even
\* while tools keep writing and processes die (validate's share modes and two hashes,
\* commit's rename of the open handle).
PublishedIsValidated ==
  \A n \in Name : final[n] \in Reservation => content[final[n]] = accepted[final[n]]

\* A committed output that may not be replaced stays: of two writers of a name, each
\* told that its output is there, neither lost it to one that rejects existing files.
ReceiptIsKept ==
  \A r \in Reservation :
    at[r] = "committed" =>
      \/ final[Target[r]] = r
      \/ \E q \in Reservation : final[Target[r]] = q /\ Target[q] = Target[r] /\ Policy[q] = "replace"

\* An output that was reported as aborted was never published and left nothing behind,
\* also when an earlier attempt to abort it failed halfway.
AbortedLeavesNothing ==
  \A r \in Reservation :
    at[r] = "aborted" => ~partial[r] /\ ~journal[r] /\ final[Target[r]] # r

\* Readers see the outputs of PublishedOutput: old or new, never missing or partial.
Output == [n \in Name |-> IF final[n] \in Reservation THEN content[final[n]] ELSE final[n]]
Reader == INSTANCE PublishedOutput
            WITH output <- Output,
                 Replaceable <- {Target[r] : r \in {q \in Reservation : Policy[q] = "replace"}}
Implements == Reader!Spec

=============================================================================
