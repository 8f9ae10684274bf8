-------------------------- MODULE StationRegistry --------------------------
(***************************************************************************)
(* The station and tariff registry: seeded into Postgres by the simulator  *)
(* (simulator/registry.go), loaded and refreshed by the processor          *)
(* (processor/registry.go) and read by every Validate (validate.go).       *)
(*                                                                         *)
(* Three things interleave: a seed transaction, a load of the registry,    *)
(* which is two queries of their own (stations, then tariffs), and         *)
(* Validate, which reads the snapshot once for the station and once more   *)
(* for the tariff.  TRUNCATE locks both tables until the transaction ends, *)
(* so a query waits for it and then sees what it left.                     *)
(*                                                                         *)
(* A station row is its id and its metadata (operator, city, coordinates,  *)
(* connectors).  The rules of Validate that look at the event alone are    *)
(* its defect: the part of the event that breaks one, if any.              *)
(***************************************************************************)
EXTENDS Naturals, Sequences, FiniteSets

CONSTANTS
    Workers,      \* goroutines that validate
    Seeds,        \* the rosters a simulator may seed
    Arriving,     \* the events to validate
    NoTariff,     \* the tariff of an event that names none
    None,         \* nothing: no transaction, no event, no snapshot
    MaxSeeds,     \* bound on the seed transactions
    MaxFailures   \* bound on failed loads, timeouts and process ends

Defects == {"none", "header", "fields", "body"}

\* LoadConfig wants at least one station, tariffCatalog is not empty, and
\* station_id is the primary key.
ASSUME SeedsAssumption ==
    \A r \in Seeds :
        /\ r.stations # {} /\ r.tariffs # {}
        /\ \A x, y \in r.stations : x.id = y.id => x = y

ASSUME ArrivingAssumption ==
    /\ None \notin Arriving \cup Seeds
    /\ \A e \in Arriving : e.defect \in Defects

ASSUME BoundsAssumption == MaxSeeds \in Nat /\ MaxFailures \in Nat

VARIABLES
    db,        \* what Postgres holds: [stations, tariffs]
    tx,        \* the roster of the seed transaction that holds the locks
    seeds,     \* seed transactions so far
    proc,      \* the processor: "gone", "loading" (start-up) or "running"
    loader,    \* loadRegistry: "idle" or "half", between its two queries
    half,      \* the station rows its first query read
    snapshot,  \* the active snapshot (Registry.snap)
    judging,   \* judging[w]: the event that passed w's station checks
    verdict,   \* history: event and rule of the Validate that returned last
    seeded,    \* history: the rosters that were committed, in their order
    failures   \* failed loads, timeouts and process ends so far

dbVars == <<db, tx, seeds, seeded>>
loadVars == <<proc, loader, half, snapshot, failures>>
vars == <<dbVars, loadVars, judging, verdict>>

Unseeded == [stations |-> {}, tariffs |-> {}]

TypeOK ==
    /\ db \in Seeds \cup {Unseeded}
    /\ tx \in Seeds \cup {None}
    /\ seeds \in 0 .. MaxSeeds
    /\ proc \in {"gone", "loading", "running"}
    /\ loader \in {"idle", "half"}
    /\ half \in {r.stations : r \in Seeds \cup {Unseeded}}
    /\ snapshot \in {None} \cup [stations : {r.stations : r \in Seeds},
                                 tariffs : {r.tariffs : r \in Seeds}]
    /\ judging \in [Workers -> Arriving \cup {None}]
    /\ seeded \in Seq(Seeds)
    /\ failures \in 0 .. MaxFailures

\* Postgres starts empty, or with the roster of an earlier deployment (a
\* reused volume).
Init ==
    /\ db \in Seeds \cup {Unseeded}
    /\ seeded = IF db = Unseeded THEN <<>> ELSE <<db>>
    /\ tx = None
    /\ seeds = 0
    /\ proc = "gone"
    /\ loader = "idle"
    /\ half = {}
    /\ snapshot = None
    /\ judging = [w \in Workers |-> None]
    /\ verdict = None
    /\ failures = 0

----------------------------------------------------------------------------
(* simulator/registry.go *)

\* Mutated: the TRUNCATE is not part of the transaction.
TruncateAtOnce(r) ==
    /\ tx = None
    /\ seeds < MaxSeeds
    /\ tx' = r
    /\ seeds' = seeds + 1
    /\ db' = Unseeded
    /\ UNCHANGED <<seeded, loadVars, judging, verdict>>

\* SeedRegistry opens its transaction and truncates.
BeginSeed(r) ==
    /\ tx = None
    /\ seeds < MaxSeeds
    /\ tx' = r
    /\ seeds' = seeds + 1
    /\ UNCHANGED <<db, seeded, loadVars, judging, verdict>>

\* Mutated: the tariffs are left to a later transaction.
CommitStationsOnly ==
    /\ tx # None
    /\ db' = [stations |-> tx.stations, tariffs |-> {}]
    /\ seeded' = Append(seeded, tx)
    /\ tx' = None
    /\ UNCHANGED <<seeds, loadVars, judging, verdict>>

\* All rows are inserted and the transaction commits.
CommitSeed ==
    /\ tx # None
    /\ db' = tx
    /\ seeded' = Append(seeded, tx)
    /\ tx' = None
    /\ UNCHANGED <<seeds, loadVars, judging, verdict>>

\* A statement fails or the simulator dies; seedWithRetry may begin anew.
RollbackSeed ==
    /\ tx # None
    /\ tx' = None
    /\ UNCHANGED <<db, seeds, seeded, loadVars, judging, verdict>>

----------------------------------------------------------------------------
(* processor/registry.go *)

Failure == failures < MaxFailures /\ failures' = failures + 1

\* The processor is started and begins to poll for the registry.
Launch ==
    /\ proc = "gone"
    /\ proc' = "loading"
    /\ UNCHANGED <<dbVars, loader, half, snapshot, failures, judging, verdict>>

\* loadRegistry's first query.
QueryStations ==
    /\ proc # "gone"
    /\ loader = "idle"
    /\ tx = None
    /\ half' = db.stations
    /\ loader' = "half"
    /\ UNCHANGED <<dbVars, proc, snapshot, failures, judging, verdict>>

\* Mutated: the registry is loaded once, a later load changes nothing.
QueryTariffsOnce ==
    /\ loader = "half"
    /\ tx = None
    /\ loader' = "idle"
    /\ half' = {}
    /\ IF half = {} \/ proc = "running" THEN UNCHANGED <<proc, snapshot>>
       ELSE /\ proc' = "running"
            /\ snapshot' = [stations |-> half, tariffs |-> db.tariffs]
    /\ UNCHANGED <<dbVars, failures, judging, verdict>>

\* Mutated: a refresh reloads the stations and keeps the tariffs it has.
QueryTariffsKept ==
    /\ loader = "half"
    /\ tx = None
    /\ loader' = "idle"
    /\ half' = {}
    /\ IF half = {} THEN UNCHANGED <<proc, snapshot>>
       ELSE /\ proc' = "running"
            /\ snapshot' = [stations |-> half,
                            tariffs |-> IF proc = "running" THEN snapshot.tariffs ELSE db.tariffs]
    /\ UNCHANGED <<dbVars, failures, judging, verdict>>

\* Its second query, in a transaction of its own.  LoadRegistryWithRetry and
\* Refresh both take the result only if it has stations; the first one starts
\* the workers with it, the second one swaps it in.
QueryTariffs ==
    /\ loader = "half"
    /\ tx = None
    /\ loader' = "idle"
    /\ half' = {}
    /\ IF half = {} THEN UNCHANGED <<proc, snapshot>>
       ELSE /\ proc' = "running"
            /\ snapshot' = [stations |-> half, tariffs |-> db.tariffs]
    /\ UNCHANGED <<dbVars, failures, judging, verdict>>

\* A query or the connection fails: start-up polls again, a refresh keeps the
\* snapshot and waits for the next tick.
LoadFails ==
    /\ proc # "gone"
    /\ loader' = "idle"
    /\ half' = {}
    /\ Failure
    /\ UNCHANGED <<dbVars, proc, snapshot, judging, verdict>>

\* The process ends: the registry was not ready by the deadline (log.Fatalf),
\* or a running processor is stopped or dies.
ProcessEnds ==
    /\ proc # "gone"
    /\ Failure
    /\ proc' = "gone"
    /\ loader' = "idle"
    /\ half' = {}
    /\ snapshot' = None
    /\ judging' = [w \in Workers |-> None]
    /\ UNCHANGED <<dbVars, verdict>>

----------------------------------------------------------------------------
(* processor/validate.go *)

\* A row for the event's station, and the row the event agrees with.
StationMeta(r, e) == \E row \in r.stations : row.id = e.station
MetaMatches(r, e) == \E row \in r.stations : row.id = e.station /\ row.meta = e.meta

TariffKnown(r, e) == e.tariff = NoTariff \/ e.tariff \in r.tariffs

\* The first rule that fails up to the tariff, under one read of the snapshot.
StationRule(r, e) ==
    IF e.defect = "header" THEN "header"
    ELSE IF ~StationMeta(r, e) THEN "unknown_station"
    ELSE IF e.defect = "fields" THEN "fields"
    ELSE IF ~MetaMatches(r, e) THEN "mismatch"
    ELSE "none"

\* The rest, under another read.
TariffRule(r, e) ==
    IF ~TariffKnown(r, e) THEN "unknown_tariff"
    ELSE IF e.defect = "body" THEN "body"
    ELSE "none"

Returns(e, rule) == verdict' = [event |-> e, rule |-> rule]

\* Decode, and Validate up to and including the station's checks.
ValidateStation(w, e) ==
    /\ proc = "running"
    /\ judging[w] = None
    /\ \/ /\ StationRule(snapshot, e) # "none"
          /\ Returns(e, StationRule(snapshot, e))
          /\ UNCHANGED judging
       \/ /\ StationRule(snapshot, e) = "none"
          /\ judging' = [judging EXCEPT ![w] = e]
          /\ UNCHANGED verdict
    /\ UNCHANGED <<dbVars, loadVars>>

\* The rest of Validate.
ValidateTariff(w) ==
    /\ judging[w] # None
    /\ Returns(judging[w], TariffRule(snapshot, judging[w]))
    /\ judging' = [judging EXCEPT ![w] = None]
    /\ UNCHANGED <<dbVars, loadVars>>

----------------------------------------------------------------------------

Next ==
    \/ \E r \in Seeds : BeginSeed(r)
    \/ CommitSeed
    \/ RollbackSeed
    \/ Launch
    \/ QueryStations
    \/ QueryTariffs
    \/ LoadFails
    \/ ProcessEnds
    \/ \E w \in Workers : (\E e \in Arriving : ValidateStation(w, e)) \/ ValidateTariff(w)

\* A transaction ends one way or the other, and a processor that runs goes on
\* polling and refreshing (registry.refresh_sec is positive).  Nothing is
\* assumed of seeds, starts and failures.
Fairness ==
    /\ WF_vars(CommitSeed \/ RollbackSeed)
    /\ WF_vars(QueryStations)
    /\ WF_vars(QueryTariffs)

Spec == Init /\ [][Next]_vars

FairSpec == Spec /\ Fairness

----------------------------------------------------------------------------
(* Properties *)

\* "a transient DB blip or a mid-reseed truncation must not blank the roster"
\* (registry.go, Refresh): a running processor always has stations and tariffs,
\* although a load reads the two tables at different times.
RunningHasRoster ==
    proc = "running" => snapshot.stations # {} /\ snapshot.tariffs # {}

\* What Validate says of e when its first read is of roster r and its second of q.
Judged(r, q, e) == IF StationRule(r, e) # "none" THEN StationRule(r, e) ELSE TariffRule(q, e)

\* Two reads of the snapshot, two queries of a load, and seeds and refreshes in
\* between (validate.go, registry.go): a verdict may mix two committed rosters, but
\* then the tariffs are those of the later one.  An event is never judged by a
\* station row that is newer than the tariffs, so that a new station's sessions are
\* not dead-lettered for a tariff that was seeded together with it.
VerdictsJustified ==
    verdict # None => \E i, j \in DOMAIN seeded :
        i <= j /\ verdict.rule = Judged(seeded[i], seeded[j], verdict.event)

\* A snapshot is a "point-in-time view of the station/tariff roster" (registry.go),
\* the processor "reads tariffs from the same snapshot" as the stations
\* (simulator/registry.go), and an event must not be judged "against two different
\* rosters" (validate.go): each verdict is that of one committed roster.
OneRosterVerdicts ==
    verdict # None => \E i \in DOMAIN seeded :
        verdict.rule = Judged(seeded[i], seeded[i], verdict.event)

\* "picks up new stations and tariff changes without a restart" (registry.go):
\* a processor that keeps running ends up with the roster Postgres holds, also
\* after refreshes that failed or that read across a seed.
EventuallyCurrent == <>[](proc = "running" => snapshot = db)
=============================================================================
