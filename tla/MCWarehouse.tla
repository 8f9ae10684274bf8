---------------------------- MODULE MCWarehouse ----------------------------
(* Stops of one day and an event of the day after, on two partitions. *)
EXTENDS Warehouse

CONSTANT None

Stop == [type |-> "SESSION_STOP", day |-> 1, cost |-> 2, peak |-> TRUE, meter |-> 3]
OtherStop == [type |-> "SESSION_STOP", day |-> 1, cost |-> 1, peak |-> FALSE, meter |-> 2]
NextDay == [type |-> "STATUS_CHANGE", day |-> 2, cost |-> 0, peak |-> FALSE, meter |-> None]

OneStop == {Stop, NextDay}
TwoStops == {Stop, OtherStop, NextDay}

\* The stop and the event of the next day are read independently.
Spread == [e \in TwoStops |-> IF e = Stop THEN "p1" ELSE "p2"]
=============================================================================
