-------------------------- MODULE MCAnalyticsPath --------------------------
(* Small instances of AnalyticsPath for TLC. *)
EXTENDS AnalyticsPath, TLC

CONSTANTS w1, w2, p1, a, b

MCWorkers == {w1, w2}
MCEvents == {a, b}

\* A partition with two different events, or with a resend of its first.
PairLogs == {[p \in {p1} |-> <<a, b>>], [p \in {p1} |-> <<a, a>>]}

\* One record that dedups and one that does not validate.
ShortLog == {[p \in {p1} |-> <<a, b>>]}

\* A registry that does not know b's station, so b is dead-lettered.
OneRoster == {{a}}

\* A registry that a refresh can extend by b's station, or take it from.
TwoRosters == {{a, b}, {a}}

WorkerSymmetry == Permutations(MCWorkers)
=============================================================================
