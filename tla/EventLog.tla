------------------------------ MODULE EventLog ------------------------------
(***************************************************************************)
(* What the task event store promises to a reader of a task: the task has  *)
(* one numbered history that only grows, ends with at most one terminal    *)
(* state, and is retired only after it; a subscriber that asks for what it *)
(* missed is brought to the end of that history, event by event or by a    *)
(* snapshot, and never to a state the task was not in.                     *)
(***************************************************************************)
EXTENDS Integers, Sequences

CONSTANTS Job, Subscriber, Follows, Active, Terminal

VARIABLES
  log,   \* log[j][r]: the state of task j at revision r; empty without a task
  at     \* of each subscriber: the last revision it knows, and its state

Unread == [last |-> 0, view |-> "none"]

Init == log = [j \in Job |-> <<>>] /\ at = [s \in Subscriber |-> Unread]

Ended(j) == log[j] # <<>> /\ log[j][Len(log[j])] \in Terminal

Grows(j) == ~Ended(j) /\ \E s \in Active \cup Terminal : log'[j] = Append(log[j], s)

Retires(j) == Ended(j) /\ log'[j] = <<>>

\* A pass over the tasks may end and retire several of them together.
Record == /\ \A j \in Job : log'[j] = log[j] \/ Grows(j) \/ Retires(j)
          /\ DOMAIN log' = Job
          /\ UNCHANGED at

CatchUp(s) ==
  LET history == log[Follows[s]] IN
  /\ history # <<>>
  /\ at' = [at EXCEPT ![s] = [last |-> Len(history), view |-> history[Len(history)]]]
  /\ UNCHANGED log

Next == Record \/ \E s \in Subscriber : CatchUp(s)

Spec == Init /\ [][Next]_<<log, at>>

=============================================================================
