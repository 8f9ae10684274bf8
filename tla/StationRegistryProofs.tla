----------------------- MODULE StationRegistryProofs -----------------------
(***************************************************************************)
(* Proofs about StationRegistry, for any rosters and events, any number of *)
(* validating goroutines, seeds and failures.                              *)
(***************************************************************************)
EXTENDS StationRegistry, TLAPS

\* The station rows of a load come from a committed roster, its tariffs from the
\* same one or a later one.
FromSeeded(s) ==
    \E i, j \in DOMAIN seeded :
        i <= j /\ s = [stations |-> seeded[i].stations, tariffs |-> seeded[j].tariffs]

\* Postgres holds what was committed last, and a load has read what was committed.
LoadInv ==
    /\ db = IF seeded = <<>> THEN Unseeded ELSE seeded[Len(seeded)]
    /\ half # {} => \E i \in DOMAIN seeded : half = seeded[i].stations
    /\ proc = "running" => FromSeeded(snapshot)

\* An event between the two reads of Validate has passed the first under a roster
\* that is not newer than the tariffs the second one will see.
JudgingInv(w) ==
    judging[w] # None =>
        /\ proc = "running"
        /\ \E i, j \in DOMAIN seeded :
             /\ i <= j
             /\ StationRule(seeded[i], judging[w]) = "none"
             /\ snapshot.tariffs = seeded[j].tariffs

\* The inductive invariant.
RegistryInv ==
    /\ TypeOK
    /\ LoadInv
    /\ \A w \in Workers : JudgingInv(w)
    /\ VerdictsJustified

\* A roster is never the empty database.
LEMMA SeedNotEmpty ==
    ASSUME NEW r \in Seeds
    PROVE  r # Unseeded /\ r # None /\ r.stations # {} /\ r.tariffs # {}
BY SeedsAssumption, ArrivingAssumption DEF Unseeded

\* Initially nothing is loaded and nothing was judged.
LEMMA InitRegistryInv == Init => RegistryInv
<1> SUFFICES ASSUME Init PROVE RegistryInv
  OBVIOUS
<1>1. TypeOK
  <2>1. Unseeded.stations = {}
    BY DEF Unseeded
  <2>2. half \in {r.stations : r \in Seeds \cup {Unseeded}}
    BY <2>1 DEF Init
  <2> QED
    BY <2>2, BoundsAssumption DEF Init, TypeOK
<1>2. LoadInv
  BY <1>1, SeedNotEmpty DEF Init, LoadInv, TypeOK
<1> QED
  BY <1>1, <1>2 DEF Init, RegistryInv, JudgingInv, VerdictsJustified

\* Once something was committed, Postgres holds the latest of it.
LEMMA LatestSeed ==
    ASSUME TypeOK, LoadInv, NEW i \in DOMAIN seeded
    PROVE  /\ Len(seeded) \in DOMAIN seeded /\ i <= Len(seeded)
           /\ db = seeded[Len(seeded)] /\ db \in Seeds /\ seeded[i] \in Seeds
<1>1. seeded \in Seq(Seeds) /\ DOMAIN seeded = 1 .. Len(seeded) /\ Len(seeded) \in Nat
  BY DEF TypeOK
<1>2. Len(seeded) \in DOMAIN seeded /\ i <= Len(seeded) /\ seeded # <<>>
  BY <1>1
<1>3. seeded[Len(seeded)] \in Seeds /\ seeded[i] \in Seeds
  BY <1>1, <1>2
<1> QED
  BY <1>2, <1>3 DEF LoadInv

Extends(old, new) ==
    DOMAIN old \subseteq DOMAIN new /\ \A i \in DOMAIN old : new[i] = old[i]

\* The committed rosters are never forgotten and keep their order.
LEMMA SeededGrows == TypeOK /\ [Next]_vars => Extends(seeded, seeded')
<1> SUFFICES ASSUME TypeOK, [Next]_vars PROVE Extends(seeded, seeded')
  OBVIOUS
<1>1. CASE CommitSeed
  <2>1. seeded \in Seq(Seeds) /\ tx \in Seeds /\ seeded' = Append(seeded, tx)
    BY <1>1 DEF CommitSeed, TypeOK
  <2> QED
    BY <2>1 DEF Extends
<1>2. CASE seeded' = seeded
  BY <1>2 DEF Extends
<1> QED
  BY <1>1, <1>2 DEF Next, BeginSeed, RollbackSeed, Launch, QueryStations, QueryTariffs,
     LoadFails, ProcessEnds, ValidateStation, ValidateTariff, vars, dbVars, loadVars

\* A load that came from committed rosters still does after further commits.
LEMMA FromSeededStays ==
    ASSUME NEW s, FromSeeded(s), Extends(seeded, seeded')
    PROVE  \E i, j \in DOMAIN seeded' :
               i <= j /\ s = [stations |-> seeded'[i].stations, tariffs |-> seeded'[j].tariffs]
BY DEF FromSeeded, Extends

\* Types are kept.
LEMMA RegistryTypeStep == RegistryInv /\ [Next]_vars => TypeOK'
<1> SUFFICES ASSUME RegistryInv, [Next]_vars PROVE TypeOK'
  OBVIOUS
<1> USE DEF TypeOK
<1>0. TypeOK /\ LoadInv
  BY DEF RegistryInv
<1>1. ASSUME NEW r \in Seeds, BeginSeed(r) PROVE TypeOK'
  BY <1>0, <1>1, BoundsAssumption DEF BeginSeed, loadVars
<1>2. CASE CommitSeed
  BY <1>0, <1>2 DEF CommitSeed, loadVars
<1>3. CASE RollbackSeed
  BY <1>0, <1>3 DEF RollbackSeed, loadVars
<1>4. CASE Launch
  BY <1>0, <1>4 DEF Launch, dbVars
<1>5. CASE QueryStations
  BY <1>0, <1>5 DEF QueryStations, dbVars
<1>6. CASE QueryTariffs
  <2>1. half # {} => /\ half \in {r.stations : r \in Seeds}
                     /\ db.tariffs \in {r.tariffs : r \in Seeds}
    BY <1>0, LatestSeed DEF LoadInv
  <2>2. Unseeded.stations = {}
    BY DEF Unseeded
  <2>3. half' \in {r.stations : r \in Seeds \cup {Unseeded}}
    BY <1>6, <2>2 DEF QueryTariffs
  <2> QED
    BY <1>0, <1>6, <2>1, <2>3 DEF QueryTariffs, dbVars
<1>7. CASE LoadFails \/ ProcessEnds
  <2>1. Unseeded.stations = {}
    BY DEF Unseeded
  <2>2. half' \in {r.stations : r \in Seeds \cup {Unseeded}}
    BY <1>7, <2>1 DEF LoadFails, ProcessEnds
  <2> QED
    BY <1>0, <1>7, <2>2, BoundsAssumption DEF LoadFails, ProcessEnds, Failure, dbVars
<1>8. ASSUME NEW w \in Workers, (\E e \in Arriving : ValidateStation(w, e)) \/ ValidateTariff(w)
      PROVE  TypeOK'
  BY <1>0, <1>8 DEF ValidateStation, ValidateTariff, dbVars, loadVars
<1>9. CASE UNCHANGED vars
  BY <1>0, <1>9 DEF vars, dbVars, loadVars
<1> QED
  BY <1>1, <1>2, <1>3, <1>4, <1>5, <1>6, <1>7, <1>8, <1>9 DEF Next

\* What is loaded stays justified: a commit adds a roster, a query copies one.
LEMMA LoadStep == RegistryInv /\ [Next]_vars => LoadInv'
<1> SUFFICES ASSUME RegistryInv, [Next]_vars PROVE LoadInv'
  OBVIOUS
<1>0. TypeOK /\ LoadInv
  BY DEF RegistryInv
<1>1. ASSUME NEW r \in Seeds, BeginSeed(r) PROVE LoadInv'
  BY <1>0, <1>1 DEF BeginSeed, loadVars, LoadInv, FromSeeded
<1>2. CASE CommitSeed
  <2>1. /\ seeded \in Seq(Seeds) /\ tx \in Seeds /\ seeded' = Append(seeded, tx)
        /\ db' = tx /\ UNCHANGED <<half, proc, snapshot>>
    BY <1>0, <1>2 DEF CommitSeed, loadVars, TypeOK
  <2>2. Extends(seeded, seeded')
    BY <1>0, SeededGrows
  <2>3. seeded' # <<>> /\ db' = seeded'[Len(seeded')]
    BY <2>1
  <2>4. proc' = "running" => FromSeeded(snapshot)'
    BY <1>0, <2>1, <2>2, FromSeededStays DEF LoadInv, FromSeeded
  <2>5. half' # {} => \E i \in DOMAIN seeded' : half' = seeded'[i].stations
    BY <1>0, <2>1, <2>2 DEF LoadInv, Extends
  <2> QED
    BY <2>3, <2>4, <2>5 DEF LoadInv
<1>3. CASE RollbackSeed \/ Launch
  BY <1>0, <1>3 DEF RollbackSeed, Launch, dbVars, loadVars, LoadInv, FromSeeded
<1>4. CASE QueryStations
  <2>1. UNCHANGED <<db, seeded, proc, snapshot>> /\ half' = db.stations
    BY <1>4 DEF QueryStations, dbVars
  <2>2. half' # {} => \E i \in DOMAIN seeded : half' = seeded[i].stations
    <3>1. CASE seeded = <<>>
      BY <1>0, <2>1, <3>1 DEF LoadInv, Unseeded
    <3>2. CASE seeded # <<>>
      <4>1. Len(seeded) \in DOMAIN seeded
        BY <1>0, <3>2 DEF TypeOK
      <4> QED
        BY <1>0, <2>1, <3>2, <4>1 DEF LoadInv
    <3> QED
      BY <3>1, <3>2
  <2> QED
    BY <1>0, <2>1, <2>2 DEF LoadInv, FromSeeded
<1>5. CASE QueryTariffs
  <2>1. UNCHANGED <<db, seeded>> /\ half' = {}
    BY <1>5 DEF QueryTariffs, dbVars
  <2>2. CASE half = {}
    BY <1>0, <1>5, <2>1, <2>2 DEF QueryTariffs, LoadInv, FromSeeded
  <2>3. CASE half # {}
    <3>1. snapshot' = [stations |-> half, tariffs |-> db.tariffs]
      BY <1>5, <2>3 DEF QueryTariffs
    <3>2. PICK i \in DOMAIN seeded : half = seeded[i].stations
      BY <1>0, <2>3 DEF LoadInv
    <3>3. db = seeded[Len(seeded)] /\ Len(seeded) \in DOMAIN seeded /\ i <= Len(seeded)
      BY <1>0, LatestSeed
    <3>4. FromSeeded(snapshot)'
      BY <2>1, <3>1, <3>2, <3>3 DEF FromSeeded
    <3> QED
      BY <1>0, <2>1, <3>4 DEF LoadInv
  <2> QED
    BY <2>2, <2>3
<1>6. CASE LoadFails \/ ProcessEnds
  BY <1>0, <1>6 DEF LoadFails, ProcessEnds, dbVars, LoadInv, FromSeeded
<1>7. ASSUME NEW w \in Workers, (\E e \in Arriving : ValidateStation(w, e)) \/ ValidateTariff(w)
      PROVE  LoadInv'
  BY <1>0, <1>7 DEF ValidateStation, ValidateTariff, dbVars, loadVars, LoadInv, FromSeeded
<1>8. CASE UNCHANGED vars
  BY <1>0, <1>8 DEF vars, dbVars, loadVars, LoadInv, FromSeeded
<1> QED
  BY <1>1, <1>2, <1>3, <1>4, <1>5, <1>6, <1>7, <1>8 DEF Next

\* The checks of Validate read one half of a roster each.
LEMMA RulesReadHalves ==
    ASSUME NEW r, NEW s, NEW e
    PROVE  /\ r.stations = s.stations => StationRule(r, e) = StationRule(s, e)
           /\ r.tariffs = s.tariffs => TariffRule(r, e) = TariffRule(s, e)
BY DEF StationRule, StationMeta, MetaMatches, TariffRule, TariffKnown

\* Some station rows, with tariffs as new, give this verdict of e.
Justified(e, rule) ==
    \E i, j \in DOMAIN seeded : i <= j /\ rule = Judged(seeded[i], seeded[j], e)

\* A verdict that was justified is justified after further commits.
LEMMA JustifiedStays ==
    ASSUME NEW e, NEW rule, Justified(e, rule), Extends(seeded, seeded')
    PROVE  Justified(e, rule)'
BY DEF Justified, Extends

\* What the first read of Validate decides.
LEMMA StationVerdict ==
    ASSUME NEW s, FromSeeded(s), NEW e, StationRule(s, e) # "none"
    PROVE  Justified(e, StationRule(s, e))
<1>1. PICK i, j \in DOMAIN seeded :
         i <= j /\ s = [stations |-> seeded[i].stations, tariffs |-> seeded[j].tariffs]
  BY DEF FromSeeded
<1>2. s.stations = seeded[i].stations
  BY <1>1
<1>3. StationRule(s, e) = StationRule(seeded[i], e)
  BY <1>2, RulesReadHalves
<1> QED
  BY <1>1, <1>3 DEF Justified, Judged

\* What the second read decides about an event that passed the first.
LEMMA TariffVerdict ==
    ASSUME NEW w \in Workers, JudgingInv(w), judging[w] # None
    PROVE  Justified(judging[w], TariffRule(snapshot, judging[w]))
<1>1. PICK i, j \in DOMAIN seeded :
         /\ i <= j /\ StationRule(seeded[i], judging[w]) = "none"
         /\ snapshot.tariffs = seeded[j].tariffs
  BY DEF JudgingInv
<1>2. TariffRule(snapshot, judging[w]) = TariffRule(seeded[j], judging[w])
  BY <1>1, RulesReadHalves
<1> QED
  BY <1>1, <1>2 DEF Justified, Judged

\* An event under way stays where it is while other things happen: commits only
\* add rosters, and a refresh brings the latest tariffs.
LEMMA JudgingStays ==
    ASSUME RegistryInv, NEW w \in Workers, Extends(seeded, seeded'),
           judging'[w] = judging[w], proc = "running" => proc' = "running",
           \/ snapshot' = snapshot
           \/ seeded' = seeded /\ snapshot'.tariffs = db.tariffs
    PROVE  JudgingInv(w)'
<1> SUFFICES ASSUME judging[w] # None PROVE JudgingInv(w)'
  BY DEF JudgingInv
<1>0. TypeOK /\ LoadInv /\ JudgingInv(w)
  BY DEF RegistryInv
<1>1. PICK i, j \in DOMAIN seeded :
         /\ i <= j /\ StationRule(seeded[i], judging[w]) = "none"
         /\ snapshot.tariffs = seeded[j].tariffs
  BY <1>0 DEF JudgingInv
<1>2. i \in DOMAIN seeded' /\ j \in DOMAIN seeded' /\ seeded'[i] = seeded[i]
      /\ seeded'[j] = seeded[j] /\ proc' = "running"
  BY <1>0 DEF Extends, JudgingInv
<1>3. StationRule(seeded'[i], judging'[w]) = "none"
  BY <1>1, <1>2
<1>4. CASE snapshot' = snapshot
  BY <1>1, <1>2, <1>3, <1>4 DEF JudgingInv
<1>5. CASE seeded' = seeded /\ snapshot'.tariffs = db.tariffs
  <2>1. /\ Len(seeded) \in DOMAIN seeded' /\ i <= Len(seeded)
        /\ snapshot'.tariffs = seeded'[Len(seeded)].tariffs
    BY <1>0, <1>5, LatestSeed
  <2> QED
    BY <1>2, <1>3, <2>1 DEF JudgingInv
<1> QED
  BY <1>4, <1>5

\* Verdicts and the events under way.
LEMMA JudgeStep ==
    RegistryInv /\ [Next]_vars => (\A w \in Workers : JudgingInv(w)') /\ VerdictsJustified'
<1> SUFFICES ASSUME RegistryInv, [Next]_vars
             PROVE  (\A w \in Workers : JudgingInv(w)') /\ VerdictsJustified'
  OBVIOUS
<1>0. /\ TypeOK /\ LoadInv /\ \A w \in Workers : JudgingInv(w)
      /\ verdict # None => Justified(verdict.event, verdict.rule)
      /\ Extends(seeded, seeded')
  BY SeededGrows DEF RegistryInv, VerdictsJustified, Justified
<1>1. ASSUME verdict' = verdict PROVE VerdictsJustified'
  BY <1>0, <1>1, JustifiedStays DEF VerdictsJustified, Justified
<1>2. ASSUME NEW e, NEW rule, Justified(e, rule), Returns(e, rule) PROVE VerdictsJustified'
  <2>1. Justified(e, rule)'
    BY <1>0, <1>2, JustifiedStays
  <2>2. verdict'.event = e /\ verdict'.rule = rule
    BY <1>2 DEF Returns
  <2> QED
    BY <2>1, <2>2 DEF VerdictsJustified, Justified
<1>3. CASE \/ \E r \in Seeds : BeginSeed(r)
           \/ CommitSeed \/ RollbackSeed \/ Launch \/ QueryStations \/ LoadFails
           \/ UNCHANGED vars
  <2>1. UNCHANGED <<judging, verdict, snapshot>>
    BY <1>3 DEF BeginSeed, CommitSeed, RollbackSeed, Launch, QueryStations, LoadFails,
       vars, loadVars
  <2>2. proc = "running" => proc' = "running"
    BY <1>3 DEF BeginSeed, CommitSeed, RollbackSeed, Launch, QueryStations, LoadFails,
       vars, loadVars
  <2> QED
    BY <1>0, <1>1, <2>1, <2>2, JudgingStays
<1>4. CASE QueryTariffs
  <2>1. /\ UNCHANGED <<judging, verdict, seeded>>
        /\ proc = "running" => proc' = "running"
        /\ snapshot' = snapshot \/ snapshot'.tariffs = db.tariffs
    BY <1>4 DEF QueryTariffs, dbVars
  <2> QED
    BY <1>0, <1>1, <2>1, JudgingStays
<1>5. CASE ProcessEnds
  BY <1>1, <1>5 DEF ProcessEnds, JudgingInv
<1>6. ASSUME NEW w \in Workers, NEW e \in Arriving, ValidateStation(w, e)
      PROVE  (\A u \in Workers : JudgingInv(u)') /\ VerdictsJustified'
  <2>0. UNCHANGED <<seeded, proc, snapshot>> /\ proc = "running" /\ FromSeeded(snapshot)
    BY <1>0, <1>6 DEF ValidateStation, dbVars, loadVars, LoadInv
  <2>1. CASE StationRule(snapshot, e) # "none"
    <3>1. Returns(e, StationRule(snapshot, e)) /\ UNCHANGED judging
      BY <1>6, <2>1 DEF ValidateStation
    <3>2. Justified(e, StationRule(snapshot, e))
      BY <2>0, <2>1, StationVerdict
    <3> QED
      BY <1>0, <1>2, <2>0, <3>1, <3>2, JudgingStays
  <2>2. CASE StationRule(snapshot, e) = "none"
    <3>1. judging' = [judging EXCEPT ![w] = e] /\ UNCHANGED verdict
      BY <1>6, <2>2 DEF ValidateStation
    <3>2. judging'[w] = e /\ \A u \in Workers \ {w} : judging'[u] = judging[u]
      BY <1>0, <3>1 DEF TypeOK
    <3>3. PICK i, j \in DOMAIN seeded :
             i <= j /\ snapshot = [stations |-> seeded[i].stations, tariffs |-> seeded[j].tariffs]
      BY <2>0 DEF FromSeeded
    <3>4. snapshot.stations = seeded[i].stations /\ snapshot.tariffs = seeded[j].tariffs
      BY <3>3
    <3>5. StationRule(seeded[i], e) = "none"
      BY <2>2, <3>4, RulesReadHalves
    <3>6. JudgingInv(w)'
      BY <2>0, <3>2, <3>3, <3>4, <3>5 DEF JudgingInv
    <3>7. ASSUME NEW u \in Workers \ {w} PROVE JudgingInv(u)'
      BY <1>0, <2>0, <3>2, JudgingStays
    <3> QED
      BY <1>1, <3>1, <3>6, <3>7
  <2> QED
    BY <2>1, <2>2
<1>7. ASSUME NEW w \in Workers, ValidateTariff(w)
      PROVE  (\A u \in Workers : JudgingInv(u)') /\ VerdictsJustified'
  <2>0. /\ UNCHANGED <<seeded, proc, snapshot>> /\ judging[w] # None
        /\ judging' = [judging EXCEPT ![w] = None]
        /\ Returns(judging[w], TariffRule(snapshot, judging[w]))
    BY <1>7 DEF ValidateTariff, dbVars, loadVars
  <2>1. VerdictsJustified'
    BY <1>0, <1>2, <2>0, TariffVerdict
  <2>2. judging'[w] = None /\ \A u \in Workers \ {w} : judging'[u] = judging[u]
    BY <1>0, <2>0 DEF TypeOK
  <2>3. JudgingInv(w)'
    BY <2>2 DEF JudgingInv
  <2>4. ASSUME NEW u \in Workers \ {w} PROVE JudgingInv(u)'
    BY <1>0, <2>0, <2>2, JudgingStays
  <2> QED
    BY <2>1, <2>3, <2>4
<1> QED
  BY <1>3, <1>4, <1>5, <1>6, <1>7 DEF Next

----------------------------------------------------------------------------
(* Theorems *)

\* In every behaviour of the registry the inductive invariant holds.
THEOREM RegistryInvariant == Spec => []RegistryInv
<1>1. RegistryInv /\ [Next]_vars => RegistryInv'
  BY RegistryTypeStep, LoadStep, JudgeStep DEF RegistryInv
<1> QED
  BY <1>1, InitRegistryInv, PTL DEF Spec

\* Types: the database always holds a whole roster or none, also while a seed
\* transaction is under way.
THEOREM RegistryTypeCorrect == Spec => []TypeOK
<1>1. RegistryInv => TypeOK
  BY DEF RegistryInv
<1> QED
  BY <1>1, RegistryInvariant, PTL

\* A running processor has stations and tariffs, whatever seeds and failed loads
\* came between its two queries (loadRegistry, Refresh).
THEOREM RosterNeverBlank == Spec => []RunningHasRoster
<1>1. RegistryInv => RunningHasRoster
  <2> SUFFICES ASSUME RegistryInv, proc = "running"
               PROVE  snapshot.stations # {} /\ snapshot.tariffs # {}
    BY DEF RunningHasRoster
  <2>1. PICK i, j \in DOMAIN seeded :
           snapshot = [stations |-> seeded[i].stations, tariffs |-> seeded[j].tariffs]
    BY DEF RegistryInv, LoadInv, FromSeeded
  <2>2. seeded[i] \in Seeds /\ seeded[j] \in Seeds
    BY LatestSeed DEF RegistryInv
  <2> QED
    BY <2>1, <2>2, SeedNotEmpty
<1> QED
  BY <1>1, RegistryInvariant, PTL

\* Validate reads the snapshot twice and a load reads the tables apart, but a verdict
\* never rests on tariffs older than its station rows (loadRegistry, Validate).
THEOREM VerdictsAreJustified == Spec => []VerdictsJustified
<1>1. RegistryInv => VerdictsJustified
  BY DEF RegistryInv
<1> QED
  BY <1>1, RegistryInvariant, PTL
=============================================================================
