---------------------------- MODULE AtLeastOnce ----------------------------
(***************************************************************************)
(* What the analytics group promises its downstream, without workers,      *)
(* batches or a dedup cache: an event once delivered stays delivered, and  *)
(* a record of the raw topic is acknowledged only after its event was      *)
(* delivered (to the clean topic or to the dead-letter topic).  The        *)
(* acknowledged offset itself may move either way: redelivery is allowed,  *)
(* loss is not.                                                            *)
(***************************************************************************)
EXTENDS Naturals, Sequences

CONSTANTS Partitions, Events, Logs

VARIABLES
    raw,        \* the records to deliver
    delivered,  \* events that are durable downstream
    acked       \* acked[p]: how many records of p are acknowledged

vars == <<raw, delivered, acked>>

Init ==
    /\ raw \in Logs
    /\ delivered = {}
    /\ acked = [p \in Partitions |-> 0]

Deliver ==
    /\ delivered \subseteq delivered'
    /\ delivered' \subseteq Events
    /\ UNCHANGED <<raw, acked>>

Ack ==
    /\ acked' \in [Partitions -> Nat]
    /\ \A p \in Partitions :
         /\ acked'[p] <= Len(raw[p])
         /\ \A o \in 1 .. acked'[p] : raw[p][o] \in delivered
    /\ UNCHANGED <<raw, delivered>>

Next == Deliver \/ Ack

Spec == Init /\ [][Next]_vars
=============================================================================
