------------------------------ MODULE ToolJob ------------------------------
(***************************************************************************)
(* What a job cgroup promises to the service that runs tools in it: tools  *)
(* run while the job is open, none can run once kill_all has removed it.   *)
(***************************************************************************)
CONSTANT Spawn

VARIABLES
  phase,    \* "open", "closing" while somebody kills the job, "removed"
  live,     \* spawns whose supervisor or tool is a process of the system
  ended     \* spawns whose processes are over

vars == <<phase, live, ended>>

Init == phase = "open" /\ live = {} /\ ended = {}

\* A spawn that was admitted may become a process while the job is closing.
Start(s) == /\ phase # "removed" /\ s \notin live \cup ended
            /\ live' = live \cup {s} /\ UNCHANGED <<phase, ended>>

End(s) == /\ s \in live
          /\ live' = live \ {s} /\ ended' = ended \cup {s} /\ UNCHANGED phase

Close == phase = "open" /\ phase' = "closing" /\ UNCHANGED <<live, ended>>

Remove == /\ phase = "closing" /\ live = {}
          /\ phase' = "removed" /\ UNCHANGED <<live, ended>>

Next == Close \/ Remove \/ \E s \in Spawn : Start(s) \/ End(s)

Spec == Init /\ [][Next]_vars

=============================================================================
