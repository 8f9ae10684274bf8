--------------------------- MODULE MCRealtimePath ---------------------------
(* Small instances of RealtimePath for TLC: one connector of one station. *)
EXTENDS RealtimePath, TLC

CONSTANTS w1, w2, p1

MCWorkers == {w1, w2}

Event(type, ts, status, session_id, power) ==
    [type |-> type, station |-> "st", conn |-> 1, ts |-> ts, status |-> status,
     session |-> session_id, power |-> power]

available == Event("STATUS_CHANGE", 1, "Available", "", None)
started   == Event("SESSION_START", 2, "", "s", 0)
charging  == Event("STATUS_CHANGE", 2, "Charging", "", None)
meter     == Event("METER_UPDATE", 3, "", "s", 7)
alert     == Event("FAULT_ALERT", 5, "", "", None)
stop      == Event("SESSION_STOP", 5, "", "s", 0)
faulted   == Event("STATUS_CHANGE", 5, "Faulted", "", None)
unknown   == Event("METER_UPDATE", 6, "", "s", 9)
beat      == [Event("HEARTBEAT", 4, "", "", None) EXCEPT !.conn = 0]

MCEvents == {available, started, charging, meter, alert, stop, faulted, unknown, beat}

\* All but the reading that fails validation.
MCAccepted == MCEvents \ {unknown}

\* A fault aborts a session (one time for all three events); a reading that was
\* delayed arrives after the stop, next to a heartbeat and a reject.
StateLogs == {[p \in {p1} |-> <<alert, stop, faulted>>],
              [p \in {p1} |-> <<stop, meter, beat>>],
              [p \in {p1} |-> <<started, unknown, charging>>]}

\* A session begins and its meter reports.
SessionLog == {[p \in {p1} |-> <<available, charging, meter>>]}

ShortLog == {[p \in {p1} |-> <<charging, meter>>]}

WorkerSymmetry == Permutations(MCWorkers)
=============================================================================
