\* Two writers of one name, one of which replaces, their tools, a crash and a failing call.
SPECIFICATION Spec
CONSTANTS
  r1 = r1  r2 = r2  n1 = n1  w1 = w1  w2 = w2
  Reservation = {r1, r2}  Name = {n1}
  Target <- OneName  Policy <- RejectAndReplace
  Whole = {w1, w2}  Cut = Cut  Earlier = Earlier  Nothing = Nothing
  MaxCrashes = 1  MaxFaults = 2
INVARIANTS ReceiptIsKept AbortedLeavesNothing
PROPERTY Implements
CHECK_DEADLOCK FALSE
