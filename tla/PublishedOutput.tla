-------------------------- MODULE PublishedOutput --------------------------
(***************************************************************************)
(* What a reader of a task directory sees under the final names: an output *)
(* is there as a whole or not at all, and it changes in one step.          *)
(***************************************************************************)
CONSTANTS
  Name,          \* final names
  Replaceable,   \* those some writer replaces
  Whole,         \* contents that are complete and valid
  Earlier,       \* what a name held before
  Nothing        \* no file

VARIABLE output  \* [Name -> what a reader finds]

Init == output \in [Name -> {Earlier, Nothing}]

Publish(n) ==
  /\ output[n] = Nothing \/ n \in Replaceable
  /\ \E c \in Whole : output' = [output EXCEPT ![n] = c]

Next == \E n \in Name : Publish(n)

Spec == Init /\ [][Next]_output
=============================================================================
