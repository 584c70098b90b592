---------------------------- MODULE FileReclaim ----------------------------
(***************************************************************************)
(* What the ledger promises about the reservation files of its sessions: a *)
(* file is there as long as its session lives, is removed only when its    *)
(* session is dead or was never committed, and once its session is dead it *)
(* is removed sooner or later.                                             *)
(***************************************************************************)
CONSTANT Session

VARIABLES
  life,    \* "none", "live" or "dead"
  present  \* the sessions whose file exists

Init == life = [s \in Session |-> "none"] /\ present = {}

\* The file comes first, the session's row is committed after it.
Create(s) == /\ life[s] = "none" /\ s \notin present
             /\ present' = present \cup {s} /\ UNCHANGED life

Commit(s) == /\ life[s] = "none" /\ s \in present
             /\ life' = [life EXCEPT ![s] = "live"] /\ UNCHANGED present

\* A restart may find several sessions abandoned and ends them together.
Die(D) == /\ \A s \in D : life[s] = "live"
          /\ life' = [s \in Session |-> IF s \in D THEN "dead" ELSE life[s]]
          /\ UNCHANGED present

Remove(s) == /\ life[s] # "live" /\ s \in present
             /\ present' = present \ {s} /\ UNCHANGED life

Next == \/ \E s \in Session : Create(s) \/ Commit(s) \/ Remove(s)
        \/ \E D \in SUBSET Session : Die(D)

Safe == Init /\ [][Next]_<<life, present>>

\* The file of a dead session is removed in the end.
Promise ==
  Safe /\ \A s \in Session :
            WF_<<life, present>>(life[s] = "dead" /\ Remove(s))

=============================================================================
