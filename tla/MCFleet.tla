------------------------------ MODULE MCFleet ------------------------------
(* A small fleet for TLC. *)
EXTENDS Fleet

OneOutletEach == [s \in 1 .. 2 |-> 1]

Standard == [base |-> 2, peak |-> 2]
PeakRate == [base |-> 3, peak |-> 5]
Catalog == {Standard, PeakRate}

\* From soc 4 on the power is half of the full one.
Curve == [soc \in 4 .. 6 |-> 1]
=============================================================================
