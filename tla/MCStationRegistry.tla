------------------------- MODULE MCStationRegistry -------------------------
(* Small instances of StationRegistry for TLC. *)
EXTENDS StationRegistry

CONSTANTS w1, s1, s2, t1, t2

Row(id, meta) == [id |-> id, meta |-> meta]

Roster(stations, tariffs) == [stations |-> stations, tariffs |-> tariffs]

\* A first roster; one in which s1 has other connectors and s2 is new; one that
\* has shrunk.  Tariff t1 is in all of them.
MCSeeds ==
    {Roster({Row(s1, "old")}, {t1}),
     Roster({Row(s1, "new"), Row(s2, "old")}, {t1, t2}),
     Roster({Row(s2, "old")}, {t1})}

Event(station, meta, tariff, defect) ==
    [station |-> station, meta |-> meta, tariff |-> tariff, defect |-> defect]

\* An event every roster that knows its station accepts, one of the new tariff,
\* one of a station with two versions, one that is itself malformed.
MCArriving ==
    {Event(s2, "old", t1, "none"), Event(s2, "old", t2, "none"),
     Event(s1, "old", NoTariff, "none"), Event(s1, "new", t1, "body")}
=============================================================================
