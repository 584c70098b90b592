---------------------------- MODULE MCEventStore ----------------------------
(***************************************************************************)
(* Instances of EventStore for TLC.                                        *)
(***************************************************************************)
EXTENDS EventStore, TLC

CONSTANTS j1, j2, a1, a2, f1, f2, t1, t2, t3, s1

\* A token of the task's owner, one that opens its artifact, one that only reads events.
Subjects == (t1 :> j1) @@ (t2 :> a1) @@ (t3 :> j1)
AllScopes == (t1 :> {"status", "events", "cancel"}) @@ (t2 :> {"download"}) @@ (t3 :> {"events"})
Owner == s1 :> t1

=============================================================================
