---------------------------- MODULE FleetProofs ----------------------------
(***************************************************************************)
(* Theorems about Fleet, for any roster, number of groups and random draws *)
(* and any bound on the clock.                                             *)
(***************************************************************************)
EXTENDS Fleet, FiniteSetTheorems, SequenceTheorems, TLAPS

Statuses == {"Available", "Charging", "Faulted"}
Readings == {"SESSION_START", "METER_UPDATE"}

Event ==
    [type : {"STATUS_CHANGE"}, conn : Nat, ts : Times, status : Statuses]
    \cup [type : {"FAULT_ALERT", "HEARTBEAT"}, conn : Nat, ts : Times]
    \cup [type : Readings, conn : Nat, ts : Times, session : Times, tariff : Tariffs,
          energy : Amounts, soc : 0 .. Full]
    \cup [type : {"SESSION_STOP"}, conn : Nat, ts : Times, session : Times, tariff : Tariffs,
          energy : Amounts, soc : 0 .. Full, cost : Nat, peak : BOOLEAN]

Op ==
    [op : {"send"}, station : StationIds, event : Event]
    \cup [op : {"count"}, by : {1, -1}]
    \cup [op : {"set"}, value : Int]

Session ==
    [status : {"Charging"}, startedAt : Times, endsAt : Nat, energy : Amounts,
     soc : 0 .. Full, tariff : Tariffs, lastMeterAt : Times, nextMeterAt : Nat]

\* The connectors of a group, and the places its loop goes through.
Stations(g) == Groups[g].first .. Groups[g].last
Owned(g) == {c \in Connectors : c[1] \in Stations(g)}
Visited == Connectors \cup {<<s, 0>> : s \in StationIds}
Places(g) == {v \in Visited : v[1] \in Stations(g)} \cup {<<Groups[g].last + 1, 0>>}

Before(c, v) == c[1] < v[1] \/ (c[1] = v[1] /\ c[2] < v[2])

\* Shutdown with a rate cap: no event is sent any more.
Dropping == cancelled /\ RateCap > 0

\* The sends for connector c among the operations w.
Pending(c, w) ==
    {i \in 1 .. Len(w) : /\ w[i].op = "send"
                         /\ w[i].station = c[1] /\ w[i].event.conn = c[2]}

----------------------------------------------------------------------------
(* The inductive invariant.  Its parts speak of a connector c with state s, the *)
(* reader's knowledge o of it, and its group's pending work w at tick t.        *)

\* Types, with places and operations.
StateType ==
    /\ clock \in Times /\ cancelled \in BOOLEAN
    /\ boot \in Connectors \cup {<<StationCount + 1, 1>>}
    /\ now \in [GroupIds -> Times]
    /\ DOMAIN turn = GroupIds /\ \A g \in GroupIds : turn[g] \in Places(g)
    /\ work \in [GroupIds -> Seq(Op)]
    /\ returned \subseteq GroupIds
    /\ conn \in [Connectors -> ConnectorStates]
    /\ beat \in [StationIds -> Nat]
    /\ DOMAIN out = Visited /\ \A v \in Visited : out[v].last.ts \in Times
    /\ n \in Int /\ gauge \in Int

\* What a group does is about its own stations.
OwnWork(g) ==
    \A i \in 1 .. Len(work[g]) : work[g][i].op = "send" =>
        /\ work[g][i].station \in Stations(g)
        /\ <<work[g][i].station, work[g][i].event.conn>> \in Visited

\* Before there are groups nothing has happened but the first statuses.
BootInv ==
    ~Booted =>
        /\ \A g \in GroupIds : TurnOver(g) /\ work[g] = <<>>
        /\ \A c \in Connectors :
             /\ conn[c].status = "Available"
             /\ out[c].last.ts = 0 /\ out[c].open = <<>>
             /\ Before(c, boot) /\ ~Dropping => out[c].status = "Available"

\* A session's readings lie between its start and both its end and the last tick,
\* and it has not charged above full power.
SessionOK(s, t) ==
    s.status = "Charging" =>
        /\ s.startedAt <= s.lastMeterAt /\ s.lastMeterAt <= s.endsAt /\ s.lastMeterAt <= t
        /\ s.energy <= Fast * (s.lastMeterAt - s.startedAt)

\* The status told last, or about to be told, is the connector's.
StatusOK(c, s, o, w) ==
    /\ \A i \in Pending(c, w) :
         w[i].event.type = "STATUS_CHANGE" => w[i].event.status = s.status
    /\ \/ \E i \in Pending(c, w) : w[i].event.type = "STATUS_CHANGE"
       \/ o.status = s.status

\* The time up to which the events of a connector may be stamped: a session that
\* goes on may yet be stopped with any later time.
Horizon(s, t) == IF s.status = "Charging" THEN s.lastMeterAt ELSE t

OrderOK(c, s, o, w, t) ==
    /\ o.last.ts <= Horizon(s, t)
    /\ \A i \in Pending(c, w) :
         o.last.ts <= w[i].event.ts /\ w[i].event.ts <= Horizon(s, t)
    /\ \A i, j \in Pending(c, w) : i <= j => w[i].event.ts <= w[j].event.ts

\* A session that arrived with soc has charged at full power so far, if that stays
\* below the taper.
AtFullPower(soc, s) ==
    LET full == Fast * (s.lastMeterAt - s.startedAt) IN
    soc + full <= TaperAt => s.energy = full /\ s.soc = soc + full

\* The session s is the one that start opened, with the last reading told.
Tally(start, reading, s) ==
    /\ start.session = s.startedAt /\ start.ts = s.startedAt /\ start.tariff = s.tariff
    /\ start.soc \in Nat /\ reading.energy \in Nat
    /\ reading.energy <= s.energy
    /\ AtFullPower(start.soc, s)

SessionTypes == Readings \cup {"SESSION_STOP"}

\* What holds of the event that opens, reads or closes a session until it is sent.
Fits(s, o, e) ==
    \/ /\ e.type = "SESSION_START"
       /\ s.status = "Charging" /\ o.open = <<>>
       /\ Tally(e, e, s)
    \/ /\ e.type = "METER_UPDATE"
       /\ s.status = "Charging" /\ o.open # <<>>
       /\ Tally(o.open[1], o.open[2], s)
       /\ e.session = s.startedAt /\ e.energy = s.energy
    \/ /\ e.type = "SESSION_STOP"
       /\ s.status # "Charging" /\ o.open # <<>>
       /\ LET full == Fast * (e.ts - o.open[1].ts) IN
          /\ o.open[1].session = e.session
          /\ o.open[2].energy <= e.energy /\ e.energy <= full
          /\ o.open[1].soc + full <= TaperAt => e.energy = full
          /\ Priced(o.open[1], e)

\* The session that is open for the reader is the connector's.
Settled(s, o) ==
    IF s.status = "Charging" THEN o.open # <<>> /\ Tally(o.open[1], o.open[2], s)
    ELSE o.open = <<>>

\* It is, but for the one session event that may be on its way.
NestOK(c, s, o, w) ==
    /\ \A i \in Pending(c, w) : w[i].event.type \in SessionTypes => Fits(s, o, w[i].event)
    /\ \A i, j \in Pending(c, w) :
         w[i].event.type \in SessionTypes /\ w[j].event.type \in SessionTypes => i = j
    /\ \/ \E i \in Pending(c, w) : w[i].event.type \in SessionTypes
       \/ Settled(s, o)

\* A connector that the tick has visited is not overdue.
ConnInv(g, c) ==
    /\ SessionOK(conn[c], now[g])
    /\ Charging(c) /\ Before(c, turn[g]) => conn[c].endsAt >= now[g]
    /\ Booted /\ ~Dropping => StatusOK(c, conn[c], out[c], work[g])
    /\ OrderOK(c, conn[c], out[c], work[g], now[g])
    /\ ~Dropping => NestOK(c, conn[c], out[c], work[g])

\* The counter: an update on its way is followed by the status of the connector
\* it is for, which has its new state already.
Subject(c, w) == Len(w) \in Pending(c, w)

Counting(w, by) == \E i \in 1 .. Len(w) : w[i].op = "count" /\ w[i].by = by

CountInv(g) ==
    /\ \A i, j \in 1 .. Len(work[g]) :
         work[g][i].op = "count" /\ work[g][j].op = "count" => i = j
    /\ Counting(work[g], 1) => \E c \in Owned(g) : Subject(c, work[g]) /\ Charging(c)
    /\ Counting(work[g], -1) => \E c \in Owned(g) : Subject(c, work[g]) /\ ~Charging(c)

\* The counter has seen the session of s start and not stop.
Counts(c, s, w) ==
    \/ s.status = "Charging" /\ ~(Subject(c, w) /\ Counting(w, 1))
    \/ Subject(c, w) /\ Counting(w, -1)

Counted == {c \in Connectors : Counts(c, conn[c], work[Owner(c[1])])}

FleetInv ==
    /\ StateType
    /\ BootInv
    /\ \A g \in GroupIds : OwnWork(g) /\ CountInv(g) /\ \A c \in Owned(g) : ConnInv(g, c)
    /\ n = Cardinality(Counted)

----------------------------------------------------------------------------
(* The partition into groups *)

\* Rounded up division: what partition cuts the roster with.
LEMMA Rounding ==
    ASSUME NEW m \in Nat \ {0}, NEW d \in Nat \ {0}
    PROVE  LET q == (m + d - 1) \div d IN
           /\ q \in Nat \ {0}
           /\ (q - 1) * d < m /\ m <= q * d
<1> DEFINE q == (m + d - 1) \div d
           r == (m + d - 1) % d
<1>1. m + d - 1 \in Nat /\ d > 0
  OBVIOUS
<1>2. q \in Int /\ r \in 0 .. d - 1 /\ m + d - 1 = q * d + r
  BY <1>1, Z3
<1> HIDE DEF q, r
<1>3. q * d + d > m + d - 1 /\ q * d <= m + d - 1
  BY <1>2, Z3
<1>4. (q - 1) * d = q * d - d
  BY <1>2, Z3
<1>5. q > 0
  <2>1. SUFFICES ASSUME q <= 0 PROVE FALSE
    BY <1>2
  <2>2. q * d <= 0
    BY <1>2, <2>1, Z3
  <2> QED
    BY <1>2, <1>3, <2>2
<1> QED
  BY <1>2, <1>3, <1>4, <1>5 DEF q

GroupCount == IF NumCPU < 2 THEN 2 ELSE NumCPU
Width == LET k == IF GroupCount > StationCount THEN StationCount ELSE GroupCount
         IN (StationCount + k - 1) \div k

\* The groups by number.
LEMMA GroupShape ==
    /\ Width \in Nat \ {0}
    /\ Len(Groups) \in Nat \ {0}
    /\ (Len(Groups) - 1) * Width < StationCount /\ StationCount <= Len(Groups) * Width
    /\ \A g \in GroupIds :
         /\ Groups[g].first = (g - 1) * Width + 1
         /\ Groups[g].last = IF g * Width > StationCount THEN StationCount ELSE g * Width
<1> DEFINE k == IF GroupCount > StationCount THEN StationCount ELSE GroupCount
           q == (StationCount + Width - 1) \div Width
<1>0. StationCount \in Nat \ {0} /\ NumCPU \in Nat
  BY ConfigAssumption, PhysicsAssumption DEF LoadConfig
<1>1. GroupCount \in Nat /\ GroupCount >= 2 /\ k \in Nat \ {0}
  BY <1>0 DEF GroupCount
<1>2. Width = (StationCount + k - 1) \div k
  BY DEF Width
<1> HIDE DEF k
<1>3. Width \in Nat \ {0}
  BY <1>0, <1>1, <1>2, Rounding
<1>4. /\ q \in Nat \ {0}
      /\ (q - 1) * Width < StationCount /\ StationCount <= q * Width
  BY <1>0, <1>3, Rounding
<1>5. Groups = [i \in 1 .. q |->
                  [first |-> (i - 1) * Width + 1,
                   last  |-> IF i * Width > StationCount THEN StationCount ELSE i * Width]]
  <2>1. Groups = partition(StationCount, GroupCount)
    BY DEF Groups, GroupCount
  <2>2. k = IF GroupCount < 1 THEN 1
            ELSE IF GroupCount > StationCount THEN StationCount ELSE GroupCount
    BY <1>1 DEF k
  <2> QED
    BY <1>2, <2>1, <2>2, Zenon DEF partition
<1> HIDE DEF q
<1>6. Len(Groups) = q
  <2>1. Groups \in [1 .. q -> {Groups[i] : i \in 1 .. q}]
    BY <1>5
  <2>2. Groups \in Seq({Groups[i] : i \in 1 .. q})
    BY <1>4, <2>1, SeqDef
  <2>3. DOMAIN Groups = 1 .. q /\ DOMAIN Groups = 1 .. Len(Groups) /\ Len(Groups) \in Nat
    BY <2>1, <2>2, LenProperties
  <2> QED
    BY <1>4, <2>3
<1> QED
  BY <1>3, <1>4, <1>5, <1>6 DEF GroupIds

\* The groups' ranges of stations lie in the roster, are disjoint and cover it.
LEMMA GroupRanges ==
    /\ StationCount \in Nat \ {0}
    /\ \A g \in GroupIds :
         /\ g \in Nat /\ Groups[g].first \in StationIds /\ Groups[g].last \in StationIds
         /\ Groups[g].first <= Groups[g].last
    /\ \A g, h \in GroupIds : g < h => Groups[g].last < Groups[h].first
    /\ \A s \in StationIds : \E g \in GroupIds : s \in Stations(g)
<1>0. StationCount \in Nat \ {0}
  BY ConfigAssumption DEF LoadConfig
<1>1. PICK w \in Nat \ {0}, k \in Nat \ {0} : w = Width /\ k = Len(Groups)
  BY GroupShape
<1>2. (k - 1) * w < StationCount /\ StationCount <= k * w
  BY <1>1, GroupShape
<1>3. \A g \in 1 .. k : /\ Groups[g].first = (g - 1) * w + 1
                        /\ Groups[g].last = IF g * w > StationCount THEN StationCount ELSE g * w
  BY <1>1, GroupShape DEF GroupIds
<1>4. \A g, h \in Nat : g <= h => g * w <= h * w
  <2> SUFFICES ASSUME NEW g \in Nat, NEW h \in Nat, g <= h PROVE g * w <= h * w
    OBVIOUS
  <2>1. (h - g) * w >= 0
    BY <1>1, Z3
  <2> QED
    BY <1>1, <2>1, Z3
<1>5. \A g \in 1 .. k :
         /\ g - 1 \in Nat /\ g * w \in Nat /\ (g - 1) * w \in Nat
         /\ g * w = (g - 1) * w + w /\ (g - 1) * w < StationCount
  <2> SUFFICES ASSUME NEW g \in 1 .. k
               PROVE  /\ g - 1 \in Nat /\ g * w \in Nat /\ (g - 1) * w \in Nat
                      /\ g * w = (g - 1) * w + w /\ (g - 1) * w < StationCount
    OBVIOUS
  <2>1. g - 1 \in Nat /\ k - 1 \in Nat /\ g - 1 <= k - 1
    OBVIOUS
  <2>2. (g - 1) * w <= (k - 1) * w
    BY <1>4, <2>1
  <2>3. g * w \in Nat /\ (g - 1) * w \in Nat /\ (k - 1) * w \in Nat /\ g * w = (g - 1) * w + w
    BY <2>1, Z3
  <2> QED
    BY <1>0, <1>2, <2>1, <2>2, <2>3
<1>6. \A g \in GroupIds :
         /\ g \in Nat /\ Groups[g].first \in StationIds /\ Groups[g].last \in StationIds
         /\ Groups[g].first <= Groups[g].last
  BY <1>0, <1>1, <1>3, <1>5 DEF GroupIds, StationIds
<1>7. \A g, h \in GroupIds : g < h => Groups[g].last < Groups[h].first
  <2> SUFFICES ASSUME NEW g \in 1 .. k, NEW h \in 1 .. k, g < h
               PROVE  Groups[g].last < Groups[h].first
    BY <1>1 DEF GroupIds
  <2>1. g * w <= (h - 1) * w
    BY <1>4
  <2>2. Groups[g].last <= g * w /\ Groups[h].first = (h - 1) * w + 1
    BY <1>0, <1>3, <1>5
  <2>3. Groups[g].last \in Int /\ Groups[h].first \in Int
    BY <1>0, <1>3, <1>5
  <2> QED
    BY <1>5, <2>1, <2>2, <2>3
<1>8. \A s \in StationIds : \E g \in GroupIds : s \in Stations(g)
  <2> SUFFICES ASSUME NEW s \in Nat \ {0}, s <= StationCount
               PROVE  \E g \in 1 .. k : s \in Groups[g].first .. Groups[g].last
    BY <1>0, <1>1 DEF GroupIds, StationIds, Stations
  <2>1. PICK g \in Nat \ {0} : (g - 1) * w < s /\ s <= g * w
    BY Rounding
  <2>2. g <= k
    <3>1. SUFFICES ASSUME k <= g - 1 PROVE FALSE
      OBVIOUS
    <3>2. k * w <= (g - 1) * w
      BY <1>4, <3>1
    <3>3. k * w \in Nat /\ (g - 1) * w \in Nat
      BY <1>1, Z3
    <3> QED
      BY <1>0, <1>2, <2>1, <3>2, <3>3
  <2>3. g \in 1 .. k
    BY <2>2
  <2>4. s \in Groups[g].first .. Groups[g].last
    BY <1>0, <1>3, <1>5, <2>1, <2>3
  <2> QED
    BY <2>3, <2>4
<1> QED
  BY <1>0, <1>6, <1>7, <1>8

\* Every connector belongs to one group.
LEMMA OneOwner ==
    /\ \A c \in Connectors : Owner(c[1]) \in GroupIds /\ c \in Owned(Owner(c[1]))
    /\ \A g, h \in GroupIds : \A s \in Stations(g) : s \in Stations(h) => g = h
<1>1. \A c \in Connectors : c[1] \in StationIds
  BY DEF Connectors
<1>2. \A c \in Connectors : Owner(c[1]) \in GroupIds /\ c \in Owned(Owner(c[1]))
  <2> TAKE c \in Connectors
  <2>1. \E g \in GroupIds : c[1] \in Groups[g].first .. Groups[g].last
    BY <1>1, GroupRanges DEF Stations
  <2>2. Owner(c[1]) \in GroupIds /\ c[1] \in Groups[Owner(c[1])].first .. Groups[Owner(c[1])].last
    BY <2>1 DEF Owner
  <2> QED
    BY <2>2 DEF Owned, Stations
<1>3. \A g, h \in GroupIds : \A s \in Stations(g) : s \in Stations(h) => g = h
  <2> SUFFICES ASSUME NEW g \in GroupIds, NEW h \in GroupIds, NEW s \in Stations(g),
                      s \in Stations(h), g # h
               PROVE  FALSE
    OBVIOUS
  <2>1. g \in Nat /\ h \in Nat
    BY GroupRanges
  <2>2. g < h => Groups[g].last < Groups[h].first
    BY GroupRanges
  <2>3. h < g => Groups[h].last < Groups[g].first
    BY GroupRanges
  <2>4. /\ StationCount \in Nat
        /\ Groups[g].first \in Nat /\ Groups[g].last \in Nat
        /\ Groups[h].first \in Nat /\ Groups[h].last \in Nat
    BY GroupRanges DEF StationIds
  <2> QED
    BY <2>1, <2>2, <2>3, <2>4 DEF Stations
<1> QED
  BY <1>2, <1>3

\* A roster has finitely many connectors.
LEMMA FiniteFleet == IsFiniteSet(Connectors)
<1> DEFINE At(s) == {<<s, i>> : i \in 1 .. Outlets[s]}
           All == {At(s) : s \in StationIds}
<1>1. StationCount \in Nat /\ \A s \in StationIds : Outlets[s] \in Nat
  BY ConfigAssumption DEF LoadConfig, StationIds
<1>2. \A s \in StationIds : IsFiniteSet(At(s))
  <2> TAKE s \in StationIds
  <2>1. [i \in 1 .. Outlets[s] |-> <<s, i>>] \in Surjection(1 .. Outlets[s], At(s))
    BY DEF Surjection
  <2>2. IsFiniteSet(1 .. Outlets[s])
    BY <1>1, FS_Interval
  <2> QED
    BY <2>1, <2>2, FS_Surjection
<1>3. IsFiniteSet(All)
  <2>1. [s \in StationIds |-> At(s)] \in Surjection(StationIds, All)
    BY DEF Surjection
  <2>2. IsFiniteSet(StationIds)
    BY <1>1, FS_Interval DEF StationIds
  <2> QED
    BY <2>1, <2>2, FS_Surjection
<1>4. IsFiniteSet(UNION All)
  BY <1>2, <1>3, FS_UNION
<1> QED
  BY <1>4 DEF Connectors

----------------------------------------------------------------------------
(* Places *)

\* What can be visited is a station <<s, 0>> or one of its connectors <<s, i>>.
LEMMA PlaceFacts ==
    /\ StationCount \in Nat \ {0} /\ \A s \in StationIds : Outlets[s] \in Nat \ {0}
    /\ \A v \in Visited : /\ v = <<v[1], v[2]>>
                          /\ v[1] \in StationIds /\ v[2] \in 0 .. Outlets[v[1]]
                          /\ v \in Connectors <=> v[2] # 0
    /\ \A s \in StationIds : \A i \in 0 .. Outlets[s] : <<s, i>> \in Visited
    /\ Connectors \subseteq Visited
<1>1. StationCount \in Nat \ {0} /\ \A s \in StationIds : Outlets[s] \in Nat \ {0}
  BY ConfigAssumption DEF LoadConfig, StationIds
<1>2. \A c \in Connectors : /\ c = <<c[1], c[2]>>
                            /\ c[1] \in StationIds /\ c[2] \in 1 .. Outlets[c[1]]
  BY DEF Connectors
<1>3. \A s \in StationIds : \A i \in 1 .. Outlets[s] : <<s, i>> \in Connectors
  BY DEF Connectors
<1>4. Connectors \subseteq Visited
  BY DEF Visited
<1>5. \A s \in StationIds : <<s, 0>> \in Visited
  BY DEF Visited
<1>6. \A v \in Visited : v \in Connectors \/ \E s \in StationIds : v = <<s, 0>>
  BY DEF Visited
<1>7. \A s \in StationIds : \A i \in 0 .. Outlets[s] : <<s, i>> \in Visited
  <2> TAKE s \in StationIds
  <2> TAKE i \in 0 .. Outlets[s]
  <2>1. i = 0 \/ i \in 1 .. Outlets[s]
    BY <1>1
  <2> QED
    BY <1>3, <1>4, <1>5, <2>1
<1>8. \A v \in Visited : /\ v = <<v[1], v[2]>>
                         /\ v[1] \in StationIds /\ v[2] \in 0 .. Outlets[v[1]]
                         /\ v \in Connectors <=> v[2] # 0
  <2> TAKE v \in Visited
  <2>1. CASE v \in Connectors
    BY <1>1, <1>2, <2>1
  <2>2. CASE \E s \in StationIds : v = <<s, 0>>
    <3>1. v = <<v[1], v[2]>> /\ v[1] \in StationIds /\ v[2] = 0
      BY <2>2
    <3>2. v \notin Connectors
      BY <1>1, <1>2, <3>1
    <3> QED
      BY <1>1, <3>1, <3>2
  <2> QED
    BY <1>6, <2>1, <2>2
<1> QED
  BY <1>1, <1>4, <1>7, <1>8

\* A group's stations and connectors are its own, and lie in the roster.
LEMMA OwnedFacts ==
    ASSUME NEW g \in GroupIds
    PROVE  /\ Owned(g) \subseteq Connectors
           /\ \A c \in Owned(g) : c[1] \in Stations(g)
           /\ \A c \in Connectors : c[1] \in Stations(g) => c \in Owned(g)
           /\ \A h \in GroupIds : h # g => \A c \in Owned(g) : c \notin Owned(h) /\ c[1] \notin Stations(h)
           /\ Groups[g].last \in Nat /\ Groups[g].first \in Nat
           /\ Groups[g].first <= Groups[g].last /\ Groups[g].last <= StationCount
           /\ Stations(g) \subseteq StationIds
<1>1. \A h \in GroupIds : h # g => \A s \in Stations(g) : s \notin Stations(h)
  BY OneOwner
<1>2. /\ StationCount \in Nat
      /\ Groups[g].first \in 1 .. StationCount /\ Groups[g].last \in 1 .. StationCount
      /\ Groups[g].first <= Groups[g].last
  BY GroupRanges DEF StationIds
<1> QED
  BY <1>1, <1>2 DEF Owned, Stations, StationIds

\* A place of the loop that is not its end.
LEMMA PlaceVisited ==
    ASSUME NEW g \in GroupIds, NEW v \in Places(g), ~(v[1] > Groups[g].last)
    PROVE  v \in Visited /\ v[1] \in Stations(g)
<1>1. v # <<Groups[g].last + 1, 0>>
  BY OwnedFacts
<1> QED
  BY <1>1 DEF Places

\* The loop of a tick moves on, and has then come past the same connectors and v.
LEMMA NextPlace ==
    ASSUME NEW g \in GroupIds, NEW v \in Places(g), ~(v[1] > Groups[g].last)
    PROVE  /\ After(v, 0) \in Places(g)
           /\ \A c \in Owned(g) : Before(c, After(v, 0)) => Before(c, v) \/ c = v
<1>1. v \in Visited /\ v[1] \in Stations(g)
  BY PlaceVisited
<1>2. PICK s \in StationIds, i \in Nat : v = <<s, i>> /\ i \in 0 .. Outlets[s]
  BY <1>1, PlaceFacts DEF StationIds
<1>3. /\ StationCount \in Nat /\ Outlets[s] \in Nat \ {0} /\ s \in Nat /\ i \in Nat
      /\ Groups[g].first <= s /\ s <= Groups[g].last
      /\ Groups[g].first \in Nat /\ Groups[g].last \in Nat /\ Groups[g].last <= StationCount
  BY <1>1, <1>2, PlaceFacts, OwnedFacts DEF StationIds, Stations
<1>4. CASE i < Outlets[s]
  <2>1. After(v, 0) = <<s, i + 1>>
    BY <1>2, <1>4 DEF After
  <2>2. <<s, i + 1>> \in Visited
    BY <1>3, <1>4, PlaceFacts
  <2>3. After(v, 0) \in Places(g)
    BY <1>1, <1>2, <2>1, <2>2 DEF Places
  <2>4. ASSUME NEW c \in Owned(g), Before(c, After(v, 0))
        PROVE  Before(c, v) \/ c = v
    <3>1. c = <<c[1], c[2]>> /\ c[1] \in Nat /\ c[2] \in Nat
      BY OwnedFacts, PlaceFacts DEF StationIds
    <3> QED
      BY <1>2, <1>3, <2>1, <2>4, <3>1 DEF Before
  <2> QED
    BY <2>3, <2>4
<1>5. CASE i = Outlets[s]
  <2>1. After(v, 0) = <<s + 1, 0>>
    BY <1>2, <1>3, <1>5 DEF After
  <2>2. s + 1 <= Groups[g].last => s + 1 \in StationIds /\ s + 1 \in Stations(g)
    BY <1>3 DEF StationIds, Stations
  <2>3. s + 1 <= Groups[g].last => <<s + 1, 0>> \in Visited
    BY <2>2 DEF Visited
  <2>4. After(v, 0) \in Places(g)
    <3>1. CASE s + 1 <= Groups[g].last
      BY <2>1, <2>2, <2>3, <3>1 DEF Places
    <3>2. CASE s = Groups[g].last
      BY <2>1, <3>2 DEF Places
    <3> QED
      BY <1>3, <3>1, <3>2
  <2>5. ASSUME NEW c \in Owned(g), Before(c, After(v, 0))
        PROVE  Before(c, v) \/ c = v
    <3>1. /\ c = <<c[1], c[2]>> /\ c[1] \in Nat /\ c[2] \in Nat
          /\ c[1] = s => c[2] <= Outlets[s]
      BY OwnedFacts, PlaceFacts DEF StationIds
    <3> QED
      BY <1>2, <1>3, <1>5, <2>1, <2>5, <3>1 DEF Before
  <2> QED
    BY <2>4, <2>5
<1> QED
  BY <1>2, <1>3, <1>4, <1>5

\* The same for emitInitialStatuses.
LEMMA NextBoot ==
    ASSUME NEW b \in Connectors
    PROVE  /\ After(b, 1) \in Connectors \cup {<<StationCount + 1, 1>>}
           /\ \A c \in Connectors : Before(c, After(b, 1)) => Before(c, b) \/ c = b
<1>1. PICK s \in StationIds, i \in Nat : b = <<s, i>> /\ i \in 1 .. Outlets[s]
  BY DEF Connectors
<1>2. StationCount \in Nat /\ Outlets[s] \in Nat \ {0} /\ s \in 1 .. StationCount /\ i \in Nat \ {0}
  BY <1>1, PlaceFacts DEF StationIds
<1>3. \A c \in Connectors : /\ c = <<c[1], c[2]>> /\ c[1] \in Nat /\ c[2] \in Nat \ {0}
                            /\ c[1] = s => c[2] <= Outlets[s]
  <2> TAKE c \in Connectors
  <2>1. c \in Visited /\ c[2] # 0
    BY PlaceFacts
  <2> QED
    BY <2>1, PlaceFacts DEF StationIds
<1>4. CASE i < Outlets[s]
  <2>1. After(b, 1) = <<s, i + 1>>
    BY <1>1, <1>4 DEF After
  <2>2. <<s, i + 1>> \in Connectors
    BY <1>2, <1>4 DEF Connectors
  <2> QED
    BY <1>1, <1>2, <1>3, <2>1, <2>2 DEF Before
<1>5. CASE i = Outlets[s]
  <2>1. After(b, 1) = <<s + 1, 1>>
    BY <1>1, <1>2, <1>5 DEF After
  <2>2. s + 1 <= StationCount => <<s + 1, 1>> \in Connectors
    <3>1. s + 1 <= StationCount => s + 1 \in StationIds /\ 1 \in 1 .. Outlets[s + 1]
      BY <1>2, PlaceFacts DEF StationIds
    <3> QED
      BY <3>1 DEF Connectors
  <2>3. \A c \in Connectors : Before(c, <<s + 1, 1>>) => Before(c, b) \/ c = b
    BY <1>1, <1>2, <1>3, <1>5 DEF Before
  <2>4. s + 1 <= StationCount \/ s = StationCount
    BY <1>2
  <2> QED
    BY <2>1, <2>2, <2>3, <2>4
<1> QED
  BY <1>1, <1>2, <1>4, <1>5

----------------------------------------------------------------------------
(* Charging *)

\* The numbers a session is charged with.
LEMMA Physics ==
    /\ MaxTime \in Nat /\ Full \in Nat /\ TaperAt \in Nat /\ TaperAt <= Full
    /\ Fast \in Nat \ {0} /\ Arrivals \subseteq 0 .. TaperAt
    /\ \A a \in TaperAt .. Full : Taper[a] \in 1 .. Fast
BY PhysicsAssumption

\* Multiplication is monotone and distributes over a difference.
LEMMA Products ==
    ASSUME NEW a \in Nat, NEW b \in Nat, NEW k \in Nat, a <= b
    PROVE  a * k \in Nat /\ b * k \in Nat /\ a * k <= b * k
           /\ k * a \in Nat /\ k * b \in Nat /\ k * a <= k * b
           /\ k * b = k * a + k * (b - a)
<1>1. (b - a) * k \in Nat
  BY Z3
<1> QED
  BY <1>1, Z3

\* Charging up to t adds no more than full power, and exactly that below the taper.
LEMMA ChargeFacts ==
    ASSUME NEW s \in Session, NEW t \in Times,
           s.startedAt <= s.lastMeterAt, s.lastMeterAt <= t,
           s.energy <= Fast * (s.lastMeterAt - s.startedAt)
    PROVE  LET q == Charge(s, t) IN
           /\ q \in Session
           /\ q.startedAt = s.startedAt /\ q.endsAt = s.endsAt /\ q.lastMeterAt = t
           /\ s.energy <= q.energy /\ q.energy <= Fast * (t - s.startedAt)
           /\ \A soc \in Nat : AtFullPower(soc, s) => AtFullPower(soc, q)
<1> DEFINE q == Charge(s, t)
           a == chargingPower(s) * (t - s.lastMeterAt)
<1> USE Physics
<1>1. /\ s.startedAt \in Nat /\ s.lastMeterAt \in Nat /\ t \in Nat /\ t <= MaxTime
      /\ s.energy \in Nat /\ s.soc \in Nat /\ s.soc <= Full
  BY DEF Session, Times, Amounts
<1>2. /\ chargingPower(s) \in Nat /\ chargingPower(s) <= Fast
      /\ s.soc < TaperAt => chargingPower(s) = Fast
  BY <1>1 DEF chargingPower
<1>3. PICK d \in Nat, b \in Nat : d = t - s.lastMeterAt /\ b = s.lastMeterAt - s.startedAt
  BY <1>1
<1>4. /\ a \in Nat /\ a <= Fast * d /\ Fast * d \in Nat
      /\ s.soc < TaperAt => a = Fast * d
  BY <1>2, <1>3, Products
<1>5. /\ Fast * (t - s.startedAt) = Fast * b + Fast * d /\ Fast * b \in Nat
      /\ Fast * (t - s.startedAt) <= Fast * MaxTime /\ Fast * MaxTime \in Nat
  <2>1. t - s.startedAt \in Nat /\ t - s.startedAt = b + d /\ t - s.startedAt <= MaxTime
    BY <1>1, <1>3
  <2>2. Fast * (b + d) = Fast * b + Fast * d
    BY <1>3, Z3
  <2>3. Fast * b \in Nat
    BY <1>3, Products
  <2>4. Fast * (t - s.startedAt) <= Fast * MaxTime /\ Fast * MaxTime \in Nat
    BY <2>1, Products
  <2> QED
    BY <2>1, <2>2, <2>3, <2>4
<1> HIDE DEF a
<1>6. q = [s EXCEPT !.energy = s.energy + a,
                    !.soc = IF s.soc + a > Full THEN Full ELSE s.soc + a, !.lastMeterAt = t]
  BY DEF Charge, a
<1>7. /\ q.startedAt = s.startedAt /\ q.endsAt = s.endsAt /\ q.lastMeterAt = t
      /\ q.energy = s.energy + a /\ q.soc = IF s.soc + a > Full THEN Full ELSE s.soc + a
  BY <1>6 DEF Session
<1>8. s.energy + a \in Amounts /\ (IF s.soc + a > Full THEN Full ELSE s.soc + a) \in 0 .. Full
  BY <1>1, <1>3, <1>4, <1>5 DEF Amounts
<1>9. q \in Session
  BY <1>6, <1>8 DEF Session
<1> HIDE DEF q
<1>10. s.energy <= q.energy /\ q.energy <= Fast * (t - s.startedAt)
  BY <1>1, <1>3, <1>4, <1>5, <1>7
<1>11. ASSUME NEW soc \in Nat, AtFullPower(soc, s), soc + Fast * (t - s.startedAt) <= TaperAt
       PROVE  q.energy = Fast * (t - s.startedAt) /\ q.soc = soc + Fast * (t - s.startedAt)
  <2>1. soc + Fast * b <= TaperAt
    BY <1>4, <1>5, <1>11
  <2>2. s.energy = Fast * b /\ s.soc = soc + Fast * b
    BY <1>3, <1>11, <2>1 DEF AtFullPower
  <2>3. a = Fast * d
    <3>1. CASE d = 0
      <4>1. Fast * d = 0
        BY <3>1
      <4> QED
        BY <1>4, <4>1
    <3>2. CASE d > 0
      <4>1. Fast * d > 0
        BY <1>3, <3>2, Z3
      <4> QED
        BY <1>1, <1>4, <1>5, <1>11, <2>2, <4>1
    <3> QED
      BY <1>3, <3>1, <3>2
  <2> QED
    BY <1>1, <1>4, <1>5, <1>7, <1>11, <2>2, <2>3
<1>12. \A soc \in Nat : AtFullPower(soc, s) => AtFullPower(soc, q)
  BY <1>7, <1>11 DEF AtFullPower
<1> QED
  BY <1>7, <1>9, <1>10, <1>12 DEF q

\* The totals of a stop at time t.
LEMMA StopFacts ==
    ASSUME NEW s \in Session, NEW t \in Times,
           s.startedAt <= s.lastMeterAt, s.lastMeterAt <= t,
           s.energy <= Fast * (s.lastMeterAt - s.startedAt)
    PROVE  LET q == FinalTotals(s, t)
               full == Fast * (t - s.startedAt) IN
           /\ q \in Session
           /\ s.energy <= q.energy /\ q.energy <= full
           /\ \A soc \in Nat :
                AtFullPower(soc, s) /\ soc + full <= TaperAt => q.energy = full
<1> USE Physics
<1>1. /\ s.startedAt \in Nat /\ s.lastMeterAt \in Nat /\ t \in Nat
      /\ s.energy \in Nat /\ s.soc \in Nat /\ s.soc <= Full
  BY DEF Session, Times, Amounts
<1>2. CASE s.soc < Full /\ t > s.lastMeterAt
  <2>1. FinalTotals(s, t) = Charge(s, t)
    BY <1>2 DEF FinalTotals
  <2>2. PICK q : q = Charge(s, t)
    OBVIOUS
  <2>3. /\ q \in Session
        /\ q.startedAt = s.startedAt /\ q.lastMeterAt = t
        /\ s.energy <= q.energy /\ q.energy <= Fast * (t - s.startedAt)
        /\ \A soc \in Nat : AtFullPower(soc, s) => AtFullPower(soc, q)
    BY <2>2, ChargeFacts
  <2> QED
    BY <2>1, <2>2, <2>3 DEF AtFullPower
<1>3. CASE ~(s.soc < Full /\ t > s.lastMeterAt)
  <2>1. FinalTotals(s, t) = s
    BY <1>3 DEF FinalTotals
  <2>2. PICK b \in Nat, d \in Nat : b = s.lastMeterAt - s.startedAt /\ d = t - s.startedAt /\ b <= d
    BY <1>1
  <2>3. Fast * b \in Nat /\ Fast * d \in Nat /\ Fast * b <= Fast * d
    BY <2>2, Products
  <2>4. s.energy <= Fast * d
    BY <1>1, <2>2, <2>3
  <2>5. ASSUME NEW soc \in Nat, AtFullPower(soc, s), soc + Fast * d <= TaperAt
        PROVE  s.energy = Fast * d
    <3>1. s.energy = Fast * b /\ s.soc = soc + Fast * b
      BY <2>2, <2>3, <2>5 DEF AtFullPower
    <3>2. CASE t = s.lastMeterAt
      BY <2>2, <3>1, <3>2
    <3>3. CASE s.soc = Full
      BY <2>3, <2>5, <3>1, <3>3
    <3> QED
      BY <1>1, <1>3, <3>2, <3>3
  <2> QED
    BY <1>1, <2>1, <2>2, <2>4, <2>5
<1> QED
  BY <1>2, <1>3

\* The state of a connector that charges.
LEMMA ChargingIsSession ==
    ASSUME NEW s \in ConnectorStates
    PROVE  /\ s.status = "Charging" => s \in Session
           /\ s.status # "Charging" => s.status \in {"Available", "Faulted"} /\ s.until \in Nat
BY DEF ConnectorStates, Session

\* A session is a state a connector can be in.
LEMMA SessionIsState == Session \subseteq ConnectorStates
BY DEF ConnectorStates, Session

----------------------------------------------------------------------------
(* Events and operations *)

\* The types of the events without a session.
LEMMA PlainEvents ==
    ASSUME NEW c \in Visited, NEW t \in Times
    PROVE  /\ \A st \in Statuses : statusChange(c, t, st) \in Event
           /\ faultAlert(c, t) \in Event
           /\ heartbeat(t) \in Event
<1>1. c[2] \in Nat
  BY PlaceFacts
<1>2. \A st \in Statuses : statusChange(c, t, st) \in Event
  BY <1>1 DEF statusChange, Event
<1>3. faultAlert(c, t) \in Event
  BY <1>1 DEF faultAlert, Event
<1>4. heartbeat(t) \in Event
  BY DEF heartbeat, Event
<1> QED
  BY <1>2, <1>3, <1>4

\* The type of a start or a reading.
LEMMA ReadingEvents ==
    ASSUME NEW c \in Visited, NEW t \in Times, NEW s \in Session, NEW type \in Readings
    PROVE  SessionEvent(type, c, s, t) \in Event
<1>1. c[2] \in Nat
  BY PlaceFacts
<1> QED
  BY <1>1 DEF SessionEvent, Event, Session

\* The type of a stop.
LEMMA StopEvents ==
    ASSUME NEW c \in Visited, NEW s \in Session, NEW t \in Times,
           s.startedAt <= s.lastMeterAt, s.lastMeterAt <= t,
           s.energy <= Fast * (s.lastMeterAt - s.startedAt)
    PROVE  stopEvent(c, s, t) \in Event
<1>1. c[2] \in Nat
  BY PlaceFacts
<1>2. PICK q : q = FinalTotals(s, t)
  OBVIOUS
<1>3. q \in Session
  BY <1>2, StopFacts
<1>4. s.startedAt \in Times /\ s.tariff \in Tariffs /\ q.energy \in Amounts /\ q.soc \in 0 .. Full
  BY <1>3 DEF Session
<1>5. rate(s.tariff, t) \in Nat /\ peakPriced(s.tariff, t) \in BOOLEAN
  BY <1>4, PhysicsAssumption DEF rate, peakPriced, inPeakWindow
<1>6. q.energy \in Nat
  BY <1>4, Physics DEF Amounts
<1>7. q.energy * rate(s.tariff, t) \in Nat
  BY <1>5, <1>6, Products
<1>8. stopEvent(c, s, t) =
        [type |-> "SESSION_STOP", conn |-> c[2], ts |-> t, session |-> s.startedAt,
         tariff |-> s.tariff, energy |-> q.energy, soc |-> q.soc,
         cost |-> q.energy * rate(s.tariff, t), peak |-> peakPriced(s.tariff, t)]
  BY <1>2 DEF stopEvent
<1> HIDE DEF stopEvent
<1> QED
  BY <1>1, <1>4, <1>5, <1>7, <1>8 DEF Event

\* The types of the operations a visit leaves.
LEMMA OpTypes ==
    /\ \A s \in StationIds : \A e \in Event : ToSend(s, e) \in Op
    /\ Count(1) \in Op /\ Count(-1) \in Op
BY DEF ToSend, Count, Op

\* What is left of w after its first operation.
LEMMA Rest ==
    ASSUME NEW w \in Seq(Op), w # <<>>
    PROVE  /\ w[1] \in Op /\ Tail(w) \in Seq(Op)
           /\ Len(w) \in Nat \ {0} /\ Len(Tail(w)) = Len(w) - 1
           /\ \A i \in 1 .. Len(Tail(w)) : i + 1 \in 1 .. Len(w) /\ Tail(w)[i] = w[i + 1]
           /\ \A i \in 1 .. Len(w) : i # 1 => i - 1 \in 1 .. Len(Tail(w)) /\ w[i] = Tail(w)[i - 1]
<1>1. Len(w) \in Nat \ {0}
  BY EmptySeq
<1>2. Tail(w) \in Seq(Op) /\ Len(Tail(w)) = Len(w) - 1
  BY HeadTailProperties
<1>3. \A i \in 1 .. Len(Tail(w)) : i + 1 \in 1 .. Len(w) /\ Tail(w)[i] = w[i + 1]
  BY <1>1, <1>2, HeadTailProperties
<1>4. w[1] \in Op
  BY <1>1, ElementOfSeq
<1>5. ASSUME NEW i \in 1 .. Len(w), i # 1
      PROVE  i - 1 \in 1 .. Len(Tail(w)) /\ w[i] = Tail(w)[i - 1]
  <2>1. i - 1 \in 1 .. Len(Tail(w)) /\ (i - 1) + 1 = i
    BY <1>1, <1>2, <1>5
  <2>2. Tail(w)[i - 1] = w[(i - 1) + 1]
    BY <1>3, <2>1
  <2> QED
    BY <2>1, <2>2
<1> QED
  BY <1>1, <1>2, <1>3, <1>4, <1>5

\* What is pending for c after the first operation, one place further on.
LEMMA PendingRest ==
    ASSUME NEW w \in Seq(Op), w # <<>>, NEW c
    PROVE  /\ \A i \in Pending(c, Tail(w)) :
                /\ i \in Nat /\ i + 1 \in Pending(c, w) /\ i + 1 # 1
                /\ Tail(w)[i].event = w[i + 1].event
           /\ \A i \in Pending(c, w) : i # 1 =>
                i - 1 \in Pending(c, Tail(w)) /\ w[i].event = Tail(w)[i - 1].event
           /\ \A i \in Pending(c, w) : i \in Nat /\ 1 <= i
<1>1. \A i \in Pending(c, Tail(w)) :
                /\ i \in Nat /\ i + 1 \in Pending(c, w) /\ i + 1 # 1
                /\ Tail(w)[i].event = w[i + 1].event
  BY Rest DEF Pending
<1>2. \A i \in Pending(c, w) : i # 1 =>
                i - 1 \in Pending(c, Tail(w)) /\ w[i].event = Tail(w)[i - 1].event
  BY Rest DEF Pending
<1>3. \A i \in Pending(c, w) : i \in Nat /\ 1 <= i
  BY Rest DEF Pending
<1> QED
  BY <1>1, <1>2, <1>3

----------------------------------------------------------------------------
(* A connector while its group works *)

\* What the reader knows after each kind of event.
LEMMA Heard ==
    ASSUME NEW o, NEW e
    PROVE  /\ Hear(o, e).last = e
           /\ Hear(o, e).status = IF e.type = "STATUS_CHANGE" THEN e.status ELSE o.status
           /\ e.type = "SESSION_START" => Hear(o, e).open = <<e, e>>
           /\ e.type = "METER_UPDATE" /\ o.open # <<>> => Hear(o, e).open = <<o.open[1], e>>
           /\ e.type = "SESSION_STOP" => Hear(o, e).open = <<>>
           /\ e.type \notin SessionTypes => Hear(o, e).open = o.open
BY DEF Hear, SessionTypes, Readings

\* The first operation is a send for c.
LEMMA HeadSent ==
    ASSUME NEW w \in Seq(Op), w # <<>>, NEW c, NEW s \in ConnectorStates, NEW o, NEW t,
           1 \in Pending(c, w), NEW e, e = w[1].event
    PROVE  /\ StatusOK(c, s, o, w) => StatusOK(c, s, Hear(o, e), Tail(w))
           /\ OrderOK(c, s, o, w, t) => OrderOK(c, s, Hear(o, e), Tail(w), t)
           /\ NestOK(c, s, o, w) => NestOK(c, s, Hear(o, e), Tail(w))
<1> DEFINE u == Tail(w)
<1>1. PICK p : p = Hear(o, e)
  OBVIOUS
<1>2. /\ p.last = e
      /\ p.status = IF e.type = "STATUS_CHANGE" THEN e.status ELSE o.status
      /\ e.type = "SESSION_START" => p.open = <<e, e>>
      /\ e.type = "METER_UPDATE" /\ o.open # <<>> => p.open = <<o.open[1], e>>
      /\ e.type = "SESSION_STOP" => p.open = <<>>
      /\ e.type \notin SessionTypes => p.open = o.open
  BY <1>1, Heard
<1>3. /\ \A i \in Pending(c, u) :
           /\ i \in Nat /\ i + 1 \in Pending(c, w) /\ i + 1 # 1
           /\ u[i].event = w[i + 1].event
      /\ \A i \in Pending(c, w) : i # 1 =>
           i - 1 \in Pending(c, u) /\ w[i].event = u[i - 1].event
      /\ \A i \in Pending(c, w) : i \in Nat /\ 1 <= i
  BY PendingRest
<1> HIDE DEF u
<1>4. ASSUME StatusOK(c, s, o, w) PROVE StatusOK(c, s, p, u)
  <2>1. \A i \in Pending(c, u) :
          u[i].event.type = "STATUS_CHANGE" => u[i].event.status = s.status
    <3> TAKE i \in Pending(c, u)
    <3>1. i + 1 \in Pending(c, w) /\ u[i].event = w[i + 1].event
      BY <1>3
    <3> QED
      BY <1>4, <3>1 DEF StatusOK
  <2>2. CASE e.type = "STATUS_CHANGE"
    <3>1. p.status = s.status
      BY <1>2, <1>4, <2>2 DEF StatusOK
    <3> QED
      BY <2>1, <3>1 DEF StatusOK
  <2>3. CASE e.type # "STATUS_CHANGE"
    <3>1. p.status = o.status
      BY <1>2, <2>3
    <3>2. CASE o.status = s.status
      BY <2>1, <3>1, <3>2 DEF StatusOK
    <3>3. CASE \E i \in Pending(c, w) : w[i].event.type = "STATUS_CHANGE"
      <4>1. PICK i \in Pending(c, w) : w[i].event.type = "STATUS_CHANGE"
        BY <3>3
      <4>2. i - 1 \in Pending(c, u) /\ u[i - 1].event.type = "STATUS_CHANGE"
        BY <1>3, <2>3, <4>1
      <4> QED
        BY <2>1, <4>2 DEF StatusOK
    <3> QED
      BY <1>4, <3>2, <3>3 DEF StatusOK
  <2> QED
    BY <2>2, <2>3
<1>5. ASSUME OrderOK(c, s, o, w, t) PROVE OrderOK(c, s, p, u, t)
  <2>1. p.last.ts <= Horizon(s, t)
    BY <1>2, <1>5 DEF OrderOK
  <2>2. \A i \in Pending(c, u) : p.last.ts <= u[i].event.ts /\ u[i].event.ts <= Horizon(s, t)
    <3> TAKE i \in Pending(c, u)
    <3>1. i + 1 \in Pending(c, w) /\ 1 <= i + 1 /\ u[i].event = w[i + 1].event
      BY <1>3
    <3>2. w[1].event.ts <= w[i + 1].event.ts /\ w[i + 1].event.ts <= Horizon(s, t)
      BY <1>5, <3>1 DEF OrderOK
    <3> QED
      BY <1>2, <3>1, <3>2
  <2>3. \A i, j \in Pending(c, u) : i <= j => u[i].event.ts <= u[j].event.ts
    <3> SUFFICES ASSUME NEW i \in Pending(c, u), NEW j \in Pending(c, u), i <= j
                 PROVE  u[i].event.ts <= u[j].event.ts
      OBVIOUS
    <3>1. /\ i + 1 \in Pending(c, w) /\ u[i].event = w[i + 1].event
          /\ j + 1 \in Pending(c, w) /\ u[j].event = w[j + 1].event
          /\ i + 1 <= j + 1
      BY <1>3
    <3> QED
      BY <1>5, <3>1 DEF OrderOK
  <2> QED
    BY <2>1, <2>2, <2>3 DEF OrderOK
<1>6. ASSUME NestOK(c, s, o, w) PROVE NestOK(c, s, p, u)
  <2>1. \A i, j \in Pending(c, u) :
          u[i].event.type \in SessionTypes /\ u[j].event.type \in SessionTypes => i = j
    <3> SUFFICES ASSUME NEW i \in Pending(c, u), NEW j \in Pending(c, u),
                        u[i].event.type \in SessionTypes, u[j].event.type \in SessionTypes
                 PROVE  i = j
      OBVIOUS
    <3>1. i + 1 = j + 1
      BY <1>3, <1>6 DEF NestOK
    <3> QED
      BY <1>3, <3>1
  <2>2. CASE e.type \in SessionTypes
    <3>1. \A i \in Pending(c, u) : u[i].event.type \notin SessionTypes
      BY <1>3, <1>6, <2>2 DEF NestOK
    <3>2. Fits(s, o, e)
      BY <1>6, <2>2 DEF NestOK
    <3>3. s.status = "Charging" => s.energy \in Nat
      BY ChargingIsSession, Physics DEF Session, Amounts
    <3>4. Settled(s, p)
      BY <1>2, <3>2, <3>3 DEF Fits, Settled, Tally
    <3> QED
      BY <2>1, <3>1, <3>4 DEF NestOK
  <2>3. CASE e.type \notin SessionTypes
    <3>1. p.open = o.open
      BY <1>2, <2>3
    <3>2. \A x : Fits(s, o, x) => Fits(s, p, x)
      BY <3>1 DEF Fits
    <3>3. \A i \in Pending(c, u) : u[i].event.type \in SessionTypes => Fits(s, p, u[i].event)
      BY <1>3, <1>6, <3>2 DEF NestOK
    <3>4. CASE Settled(s, o)
      <4>1. Settled(s, p)
        BY <3>1, <3>4 DEF Settled
      <4> QED
        BY <2>1, <3>3, <4>1 DEF NestOK
    <3>5. CASE \E i \in Pending(c, w) : w[i].event.type \in SessionTypes
      <4>1. PICK i \in Pending(c, w) : w[i].event.type \in SessionTypes
        BY <3>5
      <4>2. i - 1 \in Pending(c, u) /\ u[i - 1].event.type \in SessionTypes
        BY <1>3, <2>3, <4>1
      <4> QED
        BY <2>1, <3>3, <4>2 DEF NestOK
    <3> QED
      BY <1>6, <3>4, <3>5 DEF NestOK
  <2> QED
    BY <2>2, <2>3
<1> QED
  BY <1>1, <1>4, <1>5, <1>6 DEF u

\* The pending sends for c are the same in w and u, up to their places.
LEMMA SamePending ==
    ASSUME NEW c, NEW s, NEW o, NEW t, NEW w, NEW u, NEW d \in Int,
           \A i \in Pending(c, u) :
             i \in Nat /\ i + d \in Pending(c, w) /\ u[i].event = w[i + d].event,
           \A i \in Pending(c, w) :
             i \in Nat /\ i - d \in Pending(c, u) /\ w[i].event = u[i - d].event
    PROVE  /\ StatusOK(c, s, o, w) => StatusOK(c, s, o, u)
           /\ OrderOK(c, s, o, w, t) => OrderOK(c, s, o, u, t)
           /\ NestOK(c, s, o, w) => NestOK(c, s, o, u)
<1>1. ASSUME NEW i \in Pending(c, u), NEW j \in Pending(c, u)
      PROVE  /\ i + d \in Pending(c, w) /\ u[i].event = w[i + d].event
             /\ j + d \in Pending(c, w) /\ u[j].event = w[j + d].event
             /\ i <= j => i + d <= j + d
             /\ i + d = j + d => i = j
  OBVIOUS
<1>2. StatusOK(c, s, o, w) => StatusOK(c, s, o, u)
  BY <1>1 DEF StatusOK
<1>3. OrderOK(c, s, o, w, t) => OrderOK(c, s, o, u, t)
  BY <1>1 DEF OrderOK
<1>4. NestOK(c, s, o, w) => NestOK(c, s, o, u)
  BY <1>1 DEF NestOK
<1> QED
  BY <1>2, <1>3, <1>4

\* The first operation is none of c's.
LEMMA HeadSkipped ==
    ASSUME NEW w \in Seq(Op), w # <<>>, NEW c, NEW s, NEW o, NEW t, 1 \notin Pending(c, w)
    PROVE  /\ StatusOK(c, s, o, w) => StatusOK(c, s, o, Tail(w))
           /\ OrderOK(c, s, o, w, t) => OrderOK(c, s, o, Tail(w), t)
           /\ NestOK(c, s, o, w) => NestOK(c, s, o, Tail(w))
<1> DEFINE u == Tail(w)
<1>0. PICK d \in Int : d = 1
  OBVIOUS
<1>1. \A i \in Pending(c, u) :
             i \in Nat /\ i + d \in Pending(c, w) /\ u[i].event = w[i + d].event
  BY <1>0, PendingRest
<1>2. \A i \in Pending(c, w) :
             i \in Nat /\ i - d \in Pending(c, u) /\ w[i].event = u[i - d].event
  BY <1>0, PendingRest
<1> HIDE DEF u
<1>3. /\ StatusOK(c, s, o, w) => StatusOK(c, s, o, u)
      /\ OrderOK(c, s, o, w, t) => OrderOK(c, s, o, u, t)
      /\ NestOK(c, s, o, w) => NestOK(c, s, o, u)
  BY <1>1, <1>2, SamePending
<1> QED
  BY <1>3 DEF u

\* The first operation is dropped.
LEMMA HeadDropped ==
    ASSUME NEW w \in Seq(Op), w # <<>>, NEW c, NEW s, NEW o, NEW t, OrderOK(c, s, o, w, t)
    PROVE  OrderOK(c, s, o, Tail(w), t)
<1>1. ASSUME NEW i \in Pending(c, Tail(w)), NEW j \in Pending(c, Tail(w))
      PROVE  /\ i + 1 \in Pending(c, w) /\ Tail(w)[i].event = w[i + 1].event
             /\ j + 1 \in Pending(c, w) /\ Tail(w)[j].event = w[j + 1].event
             /\ i <= j => i + 1 <= j + 1
  <2>1. i \in Nat /\ j \in Nat
    BY PendingRest
  <2>2. i + 1 \in Pending(c, w) /\ Tail(w)[i].event = w[i + 1].event
    BY PendingRest
  <2>3. j + 1 \in Pending(c, w) /\ Tail(w)[j].event = w[j + 1].event
    BY PendingRest
  <2>4. i <= j => i + 1 <= j + 1
    BY <2>1
  <2> QED
    BY <2>2, <2>3, <2>4
<1> QED
  BY <1>1 DEF OrderOK

\* A counter update becomes the gauge's.
LEMMA HeadReplaced ==
    ASSUME NEW w \in Seq(Op), w # <<>>, NEW c, NEW s, NEW o, NEW t, NEW x \in Op,
           w[1].op # "send", x.op # "send"
    PROVE  LET u == [w EXCEPT ![1] = x] IN
           /\ StatusOK(c, s, o, w) => StatusOK(c, s, o, u)
           /\ OrderOK(c, s, o, w, t) => OrderOK(c, s, o, u, t)
           /\ NestOK(c, s, o, w) => NestOK(c, s, o, u)
<1> DEFINE u == [w EXCEPT ![1] = x]
<1>1. 1 \in 1 .. Len(w) /\ Len(w) \in Nat
  BY Rest
<1>2. /\ Len(u) = Len(w)
      /\ \A j \in 1 .. Len(w) : u[j] = IF j = 1 THEN x ELSE w[j]
  BY <1>1, ExceptSeq
<1> HIDE DEF u
<1>3. \A i \in Pending(c, u) :
             i \in Nat /\ i + 0 \in Pending(c, w) /\ u[i].event = w[i + 0].event
  BY <1>1, <1>2 DEF Pending
<1>4. \A i \in Pending(c, w) :
             i \in Nat /\ i - 0 \in Pending(c, u) /\ w[i].event = u[i - 0].event
  BY <1>1, <1>2 DEF Pending
<1>5. 0 \in Int
  OBVIOUS
<1> QED
  BY <1>3, <1>4, <1>5, SamePending DEF u

\* Nothing of c's is pending before or after.
LEMMA NonePending ==
    ASSUME NEW c, NEW s, NEW o, NEW t, NEW w, NEW u, Pending(c, w) = {}, Pending(c, u) = {}
    PROVE  /\ StatusOK(c, s, o, w) => StatusOK(c, s, o, u)
           /\ OrderOK(c, s, o, w, t) => OrderOK(c, s, o, u, t)
           /\ NestOK(c, s, o, w) => NestOK(c, s, o, u)
BY DEF StatusOK, OrderOK, NestOK

----------------------------------------------------------------------------
(* A visit of a connector *)

\* A visit at tick t makes q of the state s and leaves ops to do.
VisitOK(c, t, s, o, q, ops) ==
    /\ q \in ConnectorStates /\ ops \in Seq(Op)
    /\ \A i \in 1 .. Len(ops) : ops[i].op = "send" => i \in Pending(c, ops)
    /\ SessionOK(q, t)
    /\ q.status = "Charging" => q.endsAt >= t
    /\ o.status = s.status => StatusOK(c, q, o, ops)
    /\ o.last.ts <= Horizon(s, t) => OrderOK(c, q, o, ops, t)
    /\ Settled(s, o) => NestOK(c, q, o, ops)
    /\ \A i, j \in 1 .. Len(ops) : ops[i].op = "count" /\ ops[j].op = "count" => i = j
    /\ \/ /\ ~Counting(ops, 1) /\ ~Counting(ops, -1)
          /\ s.status = "Charging" <=> q.status = "Charging"
       \/ /\ Counting(ops, 1) /\ ~Counting(ops, -1) /\ Subject(c, ops)
          /\ s.status # "Charging" /\ q.status = "Charging"
       \/ /\ Counting(ops, -1) /\ ~Counting(ops, 1) /\ Subject(c, ops)
          /\ s.status = "Charging" /\ q.status # "Charging"

\* The lists that visits leave: sends for c, with a counter update before the last.
LEMMA NoOps ==
    ASSUME NEW c
    PROVE  /\ <<>> \in Seq(Op) /\ Len(<<>>) = 0 /\ Pending(c, <<>>) = {}
           /\ ~Counting(<<>>, 1) /\ ~Counting(<<>>, -1)
BY DEF Pending, Counting

\* A reading, or the status of a recovery.
LEMMA OneSend ==
    ASSUME NEW c \in Connectors, NEW a \in Event, a.conn = c[2]
    PROVE  LET w == <<ToSend(c[1], a)>> IN
           /\ w \in Seq(Op) /\ Len(w) = 1 /\ Pending(c, w) = {1} /\ w[1].event = a
           /\ \A i \in 1 .. Len(w) : w[i].op = "send"
           /\ ~Counting(w, 1) /\ ~Counting(w, -1)
<1> DEFINE w == <<ToSend(c[1], a)>>
<1>1. ToSend(c[1], a) \in Op
  BY PlaceFacts, OpTypes
<1>2. w \in Seq(Op) /\ Len(w) = 1 /\ w[1] = ToSend(c[1], a)
  BY <1>1
<1> HIDE DEF w
<1>3. Pending(c, w) = {1} /\ w[1].event = a /\ w[1].op = "send"
  BY <1>2 DEF Pending, ToSend
<1> QED
  BY <1>2, <1>3 DEF w, Counting

\* The alert and the status of a fault.
LEMMA TwoSends ==
    ASSUME NEW c \in Connectors, NEW a \in Event, NEW b \in Event, a.conn = c[2], b.conn = c[2]
    PROVE  LET w == <<ToSend(c[1], a), ToSend(c[1], b)>> IN
           /\ w \in Seq(Op) /\ Len(w) = 2 /\ Pending(c, w) = {1, 2}
           /\ w[1].event = a /\ w[2].event = b
           /\ \A i \in 1 .. Len(w) : w[i].op = "send"
           /\ ~Counting(w, 1) /\ ~Counting(w, -1)
<1> DEFINE w == <<ToSend(c[1], a), ToSend(c[1], b)>>
<1>1. ToSend(c[1], a) \in Op /\ ToSend(c[1], b) \in Op
  BY PlaceFacts, OpTypes
<1>2. w \in Seq(Op) /\ Len(w) = 2 /\ w[1] = ToSend(c[1], a) /\ w[2] = ToSend(c[1], b)
  BY <1>1
<1> HIDE DEF w
<1>3. Pending(c, w) = {1, 2} /\ w[1].event = a /\ w[2].event = b /\ w[1].op = "send" /\ w[2].op = "send"
  BY <1>2 DEF Pending, ToSend
<1> QED
  BY <1>2, <1>3 DEF w, Counting

\* The start or the stop of a session.
LEMMA CountedSends ==
    ASSUME NEW c \in Connectors, NEW a \in Event, NEW b \in Event, a.conn = c[2], b.conn = c[2],
           NEW by \in {1, -1}, NEW w, w = <<ToSend(c[1], a), Count(by), ToSend(c[1], b)>>
    PROVE  /\ w \in Seq(Op) /\ Len(w) = 3 /\ Pending(c, w) = {1, 3}
           /\ w[1].event = a /\ w[3].event = b
           /\ w[1].op = "send" /\ w[2].op = "count" /\ w[3].op = "send"
           /\ Subject(c, w) /\ \A k \in {1, -1} : Counting(w, k) <=> k = by
<1>1. ToSend(c[1], a) \in Op /\ ToSend(c[1], b) \in Op /\ Count(by) \in Op
  BY PlaceFacts, OpTypes
<1>2. /\ w \in Seq(Op) /\ Len(w) = 3
      /\ w[1] = ToSend(c[1], a) /\ w[2] = Count(by) /\ w[3] = ToSend(c[1], b)
  BY <1>1
<1>3. /\ w[1].event = a /\ w[3].event = b
      /\ w[1].op = "send" /\ w[2].op = "count" /\ w[3].op = "send" /\ w[2].by = by
  BY <1>2 DEF ToSend, Count
<1>4. Pending(c, w) = {1, 3}
  BY <1>2, <1>3 DEF Pending, ToSend
<1>5. \A k \in {1, -1} : Counting(w, k) <=> k = by
  BY <1>2, <1>3 DEF Counting
<1> QED
  BY <1>2, <1>3, <1>4, <1>5 DEF Subject

\* A fault that aborts a session.
LEMMA AlertedSends ==
    ASSUME NEW c \in Connectors, NEW a \in Event, NEW b \in Event, NEW d \in Event,
           a.conn = c[2], b.conn = c[2], d.conn = c[2]
    PROVE  LET w == <<ToSend(c[1], a), ToSend(c[1], b), Count(-1), ToSend(c[1], d)>> IN
           /\ w \in Seq(Op) /\ Len(w) = 4 /\ Pending(c, w) = {1, 2, 4}
           /\ w[1].event = a /\ w[2].event = b /\ w[4].event = d
           /\ w[1].op = "send" /\ w[2].op = "send" /\ w[3].op = "count" /\ w[4].op = "send"
           /\ Subject(c, w) /\ Counting(w, -1) /\ ~Counting(w, 1)
<1> DEFINE w == <<ToSend(c[1], a), ToSend(c[1], b), Count(-1), ToSend(c[1], d)>>
<1>1. ToSend(c[1], a) \in Op /\ ToSend(c[1], b) \in Op /\ ToSend(c[1], d) \in Op /\ Count(-1) \in Op
  BY PlaceFacts, OpTypes
<1>2. /\ w \in Seq(Op) /\ Len(w) = 4
      /\ w[1] = ToSend(c[1], a) /\ w[2] = ToSend(c[1], b)
      /\ w[3] = Count(-1) /\ w[4] = ToSend(c[1], d)
  BY <1>1
<1> HIDE DEF w
<1>3. /\ w[1].event = a /\ w[2].event = b /\ w[4].event = d /\ w[3].by = -1
      /\ w[1].op = "send" /\ w[2].op = "send" /\ w[3].op = "count" /\ w[4].op = "send"
  BY <1>2 DEF ToSend, Count
<1>4. Pending(c, w) = {1, 2, 4}
  BY <1>2, <1>3 DEF Pending, ToSend
<1>5. Counting(w, -1) /\ ~Counting(w, 1)
  BY <1>2, <1>3 DEF Counting
<1> QED
  BY <1>2, <1>3, <1>4, <1>5 DEF w, Subject

\* Each visit does what the invariant needs.
LEMMA PassOK ==
    ASSUME NEW c \in Connectors, NEW t \in Times, NEW s \in ConnectorStates, NEW o,
           SessionOK(s, t), s.status = "Charging" => ~SessionOver(s, t)
    PROVE  VisitOK(c, t, s, o, s, <<>>)
<1>1. s.status = "Charging" => s.endsAt >= t
  <2>1. s.status = "Charging" => s.endsAt \in Nat /\ t \in Nat
    BY ChargingIsSession, Physics DEF Session, Times
  <2> QED
    BY <2>1 DEF SessionOver
<1>2. /\ o.status = s.status => StatusOK(c, s, o, <<>>)
      /\ o.last.ts <= Horizon(s, t) => OrderOK(c, s, o, <<>>, t)
      /\ Settled(s, o) => NestOK(c, s, o, <<>>)
  BY NoOps DEF StatusOK, OrderOK, NestOK
<1>3. \A i \in 1 .. Len(<<>>) : FALSE
  BY NoOps
<1> QED
  BY <1>1, <1>2, <1>3, NoOps DEF VisitOK

\* A status that is told.
LEMMA StatusEvent ==
    ASSUME NEW c \in Connectors, NEW t \in Times, NEW st \in Statuses
    PROVE  LET e == statusChange(c, t, st) IN
           /\ e \in Event /\ e.conn = c[2] /\ e.ts = t
           /\ e.type = "STATUS_CHANGE" /\ e.status = st /\ e.type \notin SessionTypes
<1>1. c \in Visited
  BY PlaceFacts
<1> QED
  BY <1>1, PlainEvents DEF statusChange, SessionTypes, Readings

\* A fault that is told.
LEMMA AlertEvent ==
    ASSUME NEW c \in Connectors, NEW t \in Times
    PROVE  LET e == faultAlert(c, t) IN
           /\ e \in Event /\ e.conn = c[2] /\ e.ts = t
           /\ e.type # "STATUS_CHANGE" /\ e.type \notin SessionTypes
<1>1. c \in Visited
  BY PlaceFacts
<1> QED
  BY <1>1, PlainEvents DEF faultAlert, SessionTypes, Readings

\* The times of a visit.
LEMMA VisitTimes ==
    ASSUME NEW t \in Times, NEW s \in ConnectorStates, SessionOK(s, t)
    PROVE  /\ t \in Nat /\ t <= t
           /\ Horizon(s, t) \in Nat /\ Horizon(s, t) <= t
           /\ s.status = "Charging" => s.lastMeterAt \in Nat /\ s.endsAt \in Nat
<1>1. t \in Nat
  BY Physics DEF Times
<1>2. s.status = "Charging" => s.lastMeterAt \in Nat /\ s.endsAt \in Nat
  BY ChargingIsSession, Physics DEF Session, Times
<1> QED
  BY <1>1, <1>2 DEF Horizon, SessionOK

\* A connector without a session gets another state without one.
LEMMA RecoverOK ==
    ASSUME NEW c \in Connectors, NEW t \in Times, NEW s \in ConnectorStates, NEW o,
           o.last.ts \in Times, SessionOK(s, t), s.status = "Faulted", NEW q \in Idling(t)
    PROVE  VisitOK(c, t, s, o, q, <<ToSend(c[1], statusChange(c, t, "Available"))>>)
<1>1. PICK a : a = statusChange(c, t, "Available")
  OBVIOUS
<1>2. /\ a \in Event /\ a.conn = c[2] /\ a.ts = t
      /\ a.type = "STATUS_CHANGE" /\ a.status = "Available" /\ a.type \notin SessionTypes
  BY <1>1, StatusEvent DEF Statuses
<1>3. PICK w : w = <<ToSend(c[1], a)>>
  OBVIOUS
<1>4. /\ w \in Seq(Op) /\ Len(w) = 1 /\ Pending(c, w) = {1} /\ w[1].event = a
      /\ \A i \in 1 .. Len(w) : w[i].op = "send"
      /\ ~Counting(w, 1) /\ ~Counting(w, -1)
  BY <1>2, <1>3, OneSend
<1>5. q \in ConnectorStates /\ q.status = "Available"
  BY PhysicsAssumption, VisitTimes DEF Idling, ConnectorStates
<1>6. StatusOK(c, q, o, w)
  BY <1>2, <1>4, <1>5 DEF StatusOK
<1>7. o.last.ts <= Horizon(s, t) => OrderOK(c, q, o, w, t)
  <2>1. o.last.ts \in Nat
    BY Physics DEF Times
  <2> QED
    BY <1>2, <1>4, <1>5, <2>1, VisitTimes DEF OrderOK, Horizon
<1>8. Settled(s, o) => NestOK(c, q, o, w)
  BY <1>2, <1>4, <1>5 DEF Settled, NestOK
<1>9. SessionOK(q, t)
  BY <1>5 DEF SessionOK
<1>10. VisitOK(c, t, s, o, q, w)
  BY <1>4, <1>5, <1>6, <1>7, <1>8, <1>9 DEF VisitOK
<1> QED
  BY <1>1, <1>3, <1>10

\* The same for a fault of an idle connector: alert, then status.
LEMMA FaultWhenIdleOK ==
    ASSUME NEW c \in Connectors, NEW t \in Times, NEW s \in ConnectorStates, NEW o,
           o.last.ts \in Times, SessionOK(s, t), s.status = "Available", NEW q \in Downtime(t)
    PROVE  VisitOK(c, t, s, o, q, <<ToSend(c[1], faultAlert(c, t)),
                                    ToSend(c[1], statusChange(c, t, "Faulted"))>>)
<1>1. PICK a : a = faultAlert(c, t)
  OBVIOUS
<1>2. PICK b : b = statusChange(c, t, "Faulted")
  OBVIOUS
<1>3. /\ a \in Event /\ a.conn = c[2] /\ a.ts = t
      /\ a.type # "STATUS_CHANGE" /\ a.type \notin SessionTypes
      /\ b \in Event /\ b.conn = c[2] /\ b.ts = t
      /\ b.type = "STATUS_CHANGE" /\ b.status = "Faulted" /\ b.type \notin SessionTypes
  BY <1>1, <1>2, StatusEvent, AlertEvent DEF Statuses
<1>4. PICK w : w = <<ToSend(c[1], a), ToSend(c[1], b)>>
  OBVIOUS
<1>5. /\ w \in Seq(Op) /\ Len(w) = 2 /\ Pending(c, w) = {1, 2}
      /\ w[1].event = a /\ w[2].event = b
      /\ \A i \in 1 .. Len(w) : w[i].op = "send"
      /\ ~Counting(w, 1) /\ ~Counting(w, -1)
  BY <1>3, <1>4, TwoSends
<1>6. q \in ConnectorStates /\ q.status = "Faulted"
  BY PhysicsAssumption, VisitTimes DEF Downtime, ConnectorStates
<1>7. StatusOK(c, q, o, w)
  BY <1>3, <1>5, <1>6 DEF StatusOK
<1>8. o.last.ts <= Horizon(s, t) => OrderOK(c, q, o, w, t)
  <2>1. o.last.ts \in Nat
    BY Physics DEF Times
  <2> QED
    BY <1>3, <1>5, <1>6, <2>1, VisitTimes DEF OrderOK, Horizon
<1>9. Settled(s, o) => NestOK(c, q, o, w)
  BY <1>3, <1>5, <1>6 DEF Settled, NestOK
<1>10. SessionOK(q, t)
  BY <1>6 DEF SessionOK
<1>11. \A i \in 1 .. Len(w) : i \in Pending(c, w)
  BY <1>5
<1>12. VisitOK(c, t, s, o, q, w)
  BY <1>5, <1>6, <1>7, <1>8, <1>9, <1>10, <1>11 DEF VisitOK
<1> QED
  BY <1>1, <1>2, <1>4, <1>12

\* A session starts: the counter goes up between the start and the status.
LEMMA StartOK ==
    ASSUME NEW c \in Connectors, NEW t \in Times, NEW s \in ConnectorStates, NEW o,
           o.last.ts \in Times, SessionOK(s, t), s.status = "Available",
           NEW end \in EndsAt(t), NEW meter \in NextMeter(t),
           NEW soc \in Arrivals, NEW tariff \in pickTariff(t), NEW q,
           q = [status |-> "Charging", startedAt |-> t, endsAt |-> end,
                energy |-> 0, soc |-> soc, tariff |-> tariff,
                lastMeterAt |-> t, nextMeterAt |-> meter]
    PROVE  VisitOK(c, t, s, o, q, <<ToSend(c[1], startEvent(c, q)), Count(1),
                                    ToSend(c[1], statusChange(c, t, "Charging"))>>)
<1>0. t \in Nat /\ end \in Nat /\ t <= end /\ meter \in Nat
  <2>1. t \in Nat /\ SessionTimes \subseteq Nat \ {0} /\ MeterTimes \subseteq Nat \ {0}
    BY VisitTimes, ConfigAssumption DEF LoadConfig
  <2> QED
    BY <2>1 DEF EndsAt, NextMeter
<1>1. PICK a : a = startEvent(c, q)
  OBVIOUS
<1>2. PICK b : b = statusChange(c, t, "Charging")
  OBVIOUS
<1>3. soc \in 0 .. Full /\ soc \in Nat /\ tariff \in Tariffs /\ 0 \in Amounts
  <2>1. tariff \in Tariffs
    BY DEF pickTariff
  <2>2. 0 \in Amounts
    BY Physics, Products DEF Amounts
  <2> QED
    BY <2>1, <2>2, Physics
<1>4. q \in Session
  BY <1>0, <1>3 DEF Session
<1>5. a = [type |-> "SESSION_START", conn |-> c[2], ts |-> t, session |-> t,
           tariff |-> tariff, energy |-> 0, soc |-> soc]
  BY <1>1 DEF startEvent, SessionEvent
<1>6. a \in Event
  <2>1. c \in Visited /\ q.startedAt = t /\ "SESSION_START" \in Readings
    BY PlaceFacts DEF Readings
  <2> QED
    BY <1>1, <1>4, <2>1, ReadingEvents DEF startEvent
<1>7. /\ a.conn = c[2] /\ a.ts = t /\ a.type = "SESSION_START" /\ a.type \in SessionTypes
      /\ b \in Event /\ b.conn = c[2] /\ b.ts = t
      /\ b.type = "STATUS_CHANGE" /\ b.status = "Charging" /\ b.type \notin SessionTypes
  BY <1>2, <1>5, StatusEvent DEF Statuses, SessionTypes, Readings
<1>8. PICK w : w = <<ToSend(c[1], a), Count(1), ToSend(c[1], b)>>
  OBVIOUS
<1>9. /\ w \in Seq(Op) /\ Len(w) = 3 /\ Pending(c, w) = {1, 3}
      /\ w[1].event = a /\ w[3].event = b
      /\ w[1].op = "send" /\ w[2].op = "count" /\ w[3].op = "send"
      /\ Subject(c, w) /\ Counting(w, 1) /\ ~Counting(w, -1)
  <2>1. PICK by \in {1, -1} : by = 1
    OBVIOUS
  <2>2. w = <<ToSend(c[1], a), Count(by), ToSend(c[1], b)>>
    BY <1>8, <2>1
  <2>3. /\ w \in Seq(Op) /\ Len(w) = 3 /\ Pending(c, w) = {1, 3}
        /\ w[1].event = a /\ w[3].event = b
        /\ w[1].op = "send" /\ w[2].op = "count" /\ w[3].op = "send"
        /\ Subject(c, w) /\ \A k \in {1, -1} : Counting(w, k) <=> k = by
    BY <1>6, <1>7, <2>2, CountedSends
  <2> QED
    BY <2>1, <2>3
<1>10. q.status = "Charging" /\ q.lastMeterAt = t /\ q.startedAt = t /\ q.endsAt = end
       /\ q.energy = 0 /\ q.soc = soc /\ q.tariff = tariff
  OBVIOUS
<1>11. StatusOK(c, q, o, w)
  BY <1>7, <1>9, <1>10 DEF StatusOK
<1>12. o.last.ts <= Horizon(s, t) => OrderOK(c, q, o, w, t)
  <2>1. o.last.ts \in Nat
    BY Physics DEF Times
  <2> QED
    BY <1>0, <1>7, <1>9, <1>10, <2>1, VisitTimes DEF OrderOK, Horizon
<1>13. Fast * (t - t) = 0
  BY <1>0, Physics
<1>14. Tally(a, a, q)
  BY <1>3, <1>5, <1>10, <1>13 DEF Tally, AtFullPower
<1>15. Settled(s, o) => NestOK(c, q, o, w)
  BY <1>7, <1>9, <1>10, <1>14 DEF Settled, NestOK, Fits
<1>16. SessionOK(q, t) /\ q.endsAt >= t
  BY <1>0, <1>10, <1>13 DEF SessionOK
<1>17. q \in ConnectorStates
  BY <1>4, SessionIsState
<1>18. /\ \A i \in 1 .. Len(w) : w[i].op = "send" => i \in Pending(c, w)
       /\ \A i, j \in 1 .. Len(w) : w[i].op = "count" /\ w[j].op = "count" => i = j
  BY <1>9
<1>19. VisitOK(c, t, s, o, q, w)
  BY <1>9, <1>10, <1>11, <1>12, <1>15, <1>16, <1>17, <1>18 DEF VisitOK
<1> QED
  BY <1>1, <1>2, <1>8, <1>19

\* A reading carries what the session has charged up to the tick.
LEMMA MeterOK ==
    ASSUME NEW c \in Connectors, NEW t \in Times, NEW s \in ConnectorStates, NEW o,
           o.last.ts \in Times, SessionOK(s, t), s.status = "Charging", ~SessionOver(s, t),
           NEW meter \in NextMeter(t), NEW q, q = [Charge(s, t) EXCEPT !.nextMeterAt = meter]
    PROVE  VisitOK(c, t, s, o, q, <<ToSend(c[1], SessionEvent("METER_UPDATE", c, q, t))>>)
<1>0. t \in Nat /\ meter \in Nat
  <2>1. t \in Nat /\ MeterTimes \subseteq Nat \ {0}
    BY VisitTimes, ConfigAssumption DEF LoadConfig
  <2> QED
    BY <2>1 DEF NextMeter
<1>1. s \in Session /\ s.endsAt \in Nat /\ s.lastMeterAt \in Nat /\ s.energy \in Nat
  BY ChargingIsSession, Physics DEF Session, Times, Amounts
<1>2. PICK r : r = Charge(s, t)
  OBVIOUS
<1>3. /\ r \in Session
      /\ r.startedAt = s.startedAt /\ r.endsAt = s.endsAt /\ r.lastMeterAt = t
      /\ s.energy <= r.energy /\ r.energy <= Fast * (t - s.startedAt)
      /\ \A soc \in Nat : AtFullPower(soc, s) => AtFullPower(soc, r)
  BY <1>1, <1>2, ChargeFacts DEF SessionOK
<1>4. /\ q \in Session /\ q.status = "Charging"
      /\ q.startedAt = s.startedAt /\ q.endsAt = s.endsAt /\ q.lastMeterAt = t
      /\ q.energy = r.energy /\ q.soc = r.soc
  BY <1>0, <1>2, <1>3 DEF Session
<1>4a. q.tariff = s.tariff
  <2>1. r.tariff = s.tariff
    BY <1>1, <1>2 DEF Charge, Session
  <2> QED
    BY <1>2, <1>3, <2>1 DEF Session
<1>5. PICK a : a = SessionEvent("METER_UPDATE", c, q, t)
  OBVIOUS
<1>6. a \in Event
  <2>1. c \in Visited /\ "METER_UPDATE" \in Readings
    BY PlaceFacts DEF Readings
  <2> QED
    BY <1>4, <1>5, <2>1, ReadingEvents
<1>7. /\ a.conn = c[2] /\ a.ts = t /\ a.type = "METER_UPDATE" /\ a.type \in SessionTypes
      /\ a.session = q.startedAt /\ a.energy = q.energy
  BY <1>5 DEF SessionEvent, SessionTypes, Readings
<1>8. PICK w : w = <<ToSend(c[1], a)>>
  OBVIOUS
<1>9. /\ w \in Seq(Op) /\ Len(w) = 1 /\ Pending(c, w) = {1} /\ w[1].event = a
      /\ \A i \in 1 .. Len(w) : w[i].op = "send"
      /\ ~Counting(w, 1) /\ ~Counting(w, -1)
  BY <1>6, <1>7, <1>8, OneSend
<1>10. o.status = s.status => StatusOK(c, q, o, w)
  BY <1>4, <1>7, <1>9 DEF StatusOK
<1>11. o.last.ts <= Horizon(s, t) => OrderOK(c, q, o, w, t)
  <2>1. o.last.ts \in Nat
    BY Physics DEF Times
  <2> QED
    BY <1>0, <1>4, <1>7, <1>9, <2>1, VisitTimes DEF OrderOK, Horizon
<1>12. ASSUME NEW start, NEW reading, Tally(start, reading, s)
       PROVE  Tally(start, reading, q)
  <2>1. AtFullPower(start.soc, r)
    BY <1>3, <1>12 DEF Tally
  <2>2. AtFullPower(start.soc, q)
    BY <1>3, <1>4, <2>1 DEF AtFullPower
  <2>3. r.energy \in Nat
    BY <1>3, Physics DEF Session, Amounts
  <2>4. reading.energy \in Nat /\ reading.energy <= q.energy
    BY <1>1, <1>3, <1>4, <1>12, <2>3 DEF Tally
  <2> QED
    BY <1>4, <1>4a, <1>12, <2>2, <2>4 DEF Tally
<1>13. Settled(s, o) => NestOK(c, q, o, w)
  <2>1. SUFFICES ASSUME Settled(s, o) PROVE NestOK(c, q, o, w)
    OBVIOUS
  <2>2. o.open # <<>> /\ Tally(o.open[1], o.open[2], q)
    BY <1>12, <2>1 DEF Settled
  <2>3. Fits(q, o, a)
    BY <1>4, <1>7, <2>2 DEF Fits
  <2> QED
    BY <1>7, <1>9, <2>3 DEF NestOK
<1>14. t <= s.endsAt
  BY <1>0, <1>1 DEF SessionOver
<1>15. SessionOK(q, t) /\ q.endsAt >= t
  <2>1. s.startedAt \in Nat /\ s.startedAt <= t
    BY <1>0, <1>1, Physics DEF SessionOK, Session, Times
  <2> QED
    BY <1>0, <1>1, <1>3, <1>4, <1>14, <2>1 DEF SessionOK
<1>16. q \in ConnectorStates
  BY <1>4, SessionIsState
<1>17. VisitOK(c, t, s, o, q, w)
  BY <1>4, <1>9, <1>10, <1>11, <1>13, <1>15, <1>16 DEF VisitOK
<1> QED
  BY <1>5, <1>8, <1>17

\* A stop of s with a time x that is not before its last reading.
LEMMA StopEventOK ==
    ASSUME NEW c \in Connectors, NEW s \in Session, NEW t, SessionOK(s, t), NEW o,
           NEW x \in Times, s.lastMeterAt <= x, NEW q, q.status # "Charging"
    PROVE  LET e == stopEvent(c, s, x) IN
           /\ e \in Event /\ e.conn = c[2] /\ e.ts = x /\ e.type = "SESSION_STOP"
           /\ Settled(s, o) => Fits(q, o, e)
<1>1. s.status = "Charging" /\ s.startedAt <= s.lastMeterAt
      /\ s.energy <= Fast * (s.lastMeterAt - s.startedAt)
  BY DEF Session, SessionOK
<1>2. PICK e : e = stopEvent(c, s, x)
  OBVIOUS
<1>3. c \in Visited
  BY PlaceFacts
<1>4. e \in Event
  BY <1>1, <1>2, <1>3, StopEvents
<1>5. PICK r : r = FinalTotals(s, x)
  OBVIOUS
<1>6. /\ r \in Session
      /\ s.energy <= r.energy /\ r.energy <= Fast * (x - s.startedAt)
      /\ \A soc \in Nat :
           AtFullPower(soc, s) /\ soc + Fast * (x - s.startedAt) <= TaperAt
              => r.energy = Fast * (x - s.startedAt)
  BY <1>1, <1>5, StopFacts
<1>7. /\ e.conn = c[2] /\ e.ts = x /\ e.type = "SESSION_STOP"
      /\ e.session = s.startedAt /\ e.energy = r.energy
      /\ e.cost = r.energy * rate(s.tariff, x) /\ e.peak = peakPriced(s.tariff, x)
  BY <1>2, <1>5 DEF stopEvent
<1>8. ASSUME Settled(s, o) PROVE Fits(q, o, e)
  <2>1. o.open # <<>> /\ Tally(o.open[1], o.open[2], s)
    BY <1>1, <1>8 DEF Settled
  <2>2. PICK start, reading : start = o.open[1] /\ reading = o.open[2]
    OBVIOUS
  <2>3. /\ start.session = s.startedAt /\ start.ts = s.startedAt /\ start.tariff = s.tariff
        /\ start.soc \in Nat /\ reading.energy \in Nat
        /\ reading.energy <= s.energy
        /\ AtFullPower(start.soc, s)
    BY <2>1, <2>2 DEF Tally
  <2>4. s.energy \in Nat /\ r.energy \in Nat
    BY <1>6, Physics DEF Session, Amounts
  <2>5. reading.energy <= e.energy
    BY <1>6, <1>7, <2>3, <2>4
  <2>6. e.energy <= Fast * (e.ts - start.ts)
    BY <1>6, <1>7, <2>3
  <2>7. start.soc + Fast * (e.ts - start.ts) <= TaperAt => e.energy = Fast * (e.ts - start.ts)
    BY <1>6, <1>7, <2>3
  <2>8. Priced(start, e)
    <3>1. s.tariff \in Tariffs /\ s.tariff.base \in Nat
      BY PhysicsAssumption DEF Session
    <3>2. rate(s.tariff, x) > s.tariff.base <=> peakPriced(s.tariff, x)
      BY <3>1 DEF rate, peakPriced
    <3> QED
      BY <1>7, <2>3, <3>2 DEF Priced
  <2> QED
    BY <1>7, <2>1, <2>2, <2>3, <2>5, <2>6, <2>7, <2>8 DEF Fits
<1> QED
  BY <1>2, <1>4, <1>7, <1>8

\* A session stops at its effective end, not before its last reading.
LEMMA StopOK ==
    ASSUME NEW c \in Connectors, NEW t \in Times, NEW s \in ConnectorStates, NEW o,
           o.last.ts \in Times, SessionOK(s, t), s.status = "Charging", NEW q \in Idling(t)
    PROVE  VisitOK(c, t, s, o, q,
                   <<ToSend(c[1], stopEvent(c, s, effectiveStopAt(s, t))), Count(-1),
                     ToSend(c[1], statusChange(c, t, "Available"))>>)
<1>0. t \in Nat /\ t <= MaxTime /\ o.last.ts \in Nat
  BY Physics DEF Times
<1>1. s \in Session /\ s.endsAt \in Nat /\ s.lastMeterAt \in Nat
  BY ChargingIsSession, VisitTimes
<1>2. PICK x : x = effectiveStopAt(s, t)
  OBVIOUS
<1>3. x \in Nat /\ x \in Times /\ s.lastMeterAt <= x /\ x <= t
  BY <1>0, <1>1, <1>2, Physics DEF effectiveStopAt, SessionOK, Times
<1>4. q \in ConnectorStates /\ q.status = "Available"
  BY PhysicsAssumption, VisitTimes DEF Idling, ConnectorStates
<1>5. PICK a : a = stopEvent(c, s, x)
  OBVIOUS
<1>6. PICK b : b = statusChange(c, t, "Available")
  OBVIOUS
<1>7. /\ a \in Event /\ a.conn = c[2] /\ a.ts = x /\ a.type = "SESSION_STOP"
      /\ Settled(s, o) => Fits(q, o, a)
  BY <1>1, <1>3, <1>4, <1>5, StopEventOK
<1>8. /\ b \in Event /\ b.conn = c[2] /\ b.ts = t
      /\ b.type = "STATUS_CHANGE" /\ b.status = "Available" /\ b.type \notin SessionTypes
      /\ a.type \in SessionTypes
  BY <1>6, <1>7, StatusEvent DEF Statuses, SessionTypes
<1>9. PICK w : w = <<ToSend(c[1], a), Count(-1), ToSend(c[1], b)>>
  OBVIOUS
<1>10. /\ w \in Seq(Op) /\ Len(w) = 3 /\ Pending(c, w) = {1, 3}
       /\ w[1].event = a /\ w[3].event = b
       /\ w[1].op = "send" /\ w[2].op = "count" /\ w[3].op = "send"
       /\ Subject(c, w) /\ Counting(w, -1) /\ ~Counting(w, 1)
  <2>1. PICK by \in {1, -1} : by = -1
    OBVIOUS
  <2>2. w = <<ToSend(c[1], a), Count(by), ToSend(c[1], b)>>
    BY <1>9, <2>1
  <2>3. /\ w \in Seq(Op) /\ Len(w) = 3 /\ Pending(c, w) = {1, 3}
        /\ w[1].event = a /\ w[3].event = b
        /\ w[1].op = "send" /\ w[2].op = "count" /\ w[3].op = "send"
        /\ Subject(c, w) /\ \A k \in {1, -1} : Counting(w, k) <=> k = by
    BY <1>7, <1>8, <2>2, CountedSends
  <2> QED
    BY <2>1, <2>3
<1>11. StatusOK(c, q, o, w)
  BY <1>4, <1>7, <1>8, <1>10 DEF StatusOK
<1>12. o.last.ts <= Horizon(s, t) => OrderOK(c, q, o, w, t)
  BY <1>0, <1>1, <1>3, <1>4, <1>7, <1>8, <1>10 DEF OrderOK, Horizon
<1>13. Settled(s, o) => NestOK(c, q, o, w)
  BY <1>7, <1>8, <1>10 DEF NestOK
<1>14. SessionOK(q, t)
  BY <1>4 DEF SessionOK
<1>15. /\ \A i \in 1 .. Len(w) : w[i].op = "send" => i \in Pending(c, w)
       /\ \A i, j \in 1 .. Len(w) : w[i].op = "count" /\ w[j].op = "count" => i = j
  BY <1>10
<1>16. VisitOK(c, t, s, o, q, w)
  BY <1>4, <1>10, <1>11, <1>12, <1>13, <1>14, <1>15 DEF VisitOK
<1> QED
  BY <1>2, <1>5, <1>6, <1>9, <1>16

\* A fault stops the session at the tick, after its alert.
LEMMA FaultWhenChargingOK ==
    ASSUME NEW c \in Connectors, NEW t \in Times, NEW s \in ConnectorStates, NEW o,
           o.last.ts \in Times, SessionOK(s, t), s.status = "Charging", NEW q \in Downtime(t)
    PROVE  VisitOK(c, t, s, o, q,
                   <<ToSend(c[1], faultAlert(c, t)), ToSend(c[1], stopEvent(c, s, t)),
                     Count(-1), ToSend(c[1], statusChange(c, t, "Faulted"))>>)
<1>0. t \in Nat /\ t <= MaxTime /\ o.last.ts \in Nat
  BY Physics DEF Times
<1>1. s \in Session /\ s.lastMeterAt \in Nat /\ s.lastMeterAt <= t
  BY ChargingIsSession, VisitTimes DEF SessionOK
<1>2. q \in ConnectorStates /\ q.status = "Faulted"
  BY PhysicsAssumption, VisitTimes DEF Downtime, ConnectorStates
<1>3. PICK a : a = faultAlert(c, t)
  OBVIOUS
<1>4. PICK b : b = stopEvent(c, s, t)
  OBVIOUS
<1>5. PICK d : d = statusChange(c, t, "Faulted")
  OBVIOUS
<1>6. /\ b \in Event /\ b.conn = c[2] /\ b.ts = t /\ b.type = "SESSION_STOP"
      /\ Settled(s, o) => Fits(q, o, b)
  BY <1>1, <1>2, <1>4, StopEventOK
<1>7. /\ a \in Event /\ a.conn = c[2] /\ a.ts = t
      /\ a.type # "STATUS_CHANGE" /\ a.type \notin SessionTypes
      /\ d \in Event /\ d.conn = c[2] /\ d.ts = t
      /\ d.type = "STATUS_CHANGE" /\ d.status = "Faulted" /\ d.type \notin SessionTypes
      /\ b.type \in SessionTypes
  BY <1>3, <1>5, <1>6, StatusEvent, AlertEvent DEF Statuses, SessionTypes
<1>8. PICK w : w = <<ToSend(c[1], a), ToSend(c[1], b), Count(-1), ToSend(c[1], d)>>
  OBVIOUS
<1>9. /\ w \in Seq(Op) /\ Len(w) = 4 /\ Pending(c, w) = {1, 2, 4}
      /\ w[1].event = a /\ w[2].event = b /\ w[4].event = d
      /\ w[1].op = "send" /\ w[2].op = "send" /\ w[3].op = "count" /\ w[4].op = "send"
      /\ Subject(c, w) /\ Counting(w, -1) /\ ~Counting(w, 1)
  BY <1>6, <1>7, <1>8, AlertedSends
<1>10. StatusOK(c, q, o, w)
  BY <1>2, <1>6, <1>7, <1>9 DEF StatusOK
<1>11. o.last.ts <= Horizon(s, t) => OrderOK(c, q, o, w, t)
  BY <1>0, <1>1, <1>2, <1>6, <1>7, <1>9 DEF OrderOK, Horizon
<1>12. Settled(s, o) => NestOK(c, q, o, w)
  BY <1>6, <1>7, <1>9 DEF NestOK
<1>13. SessionOK(q, t)
  BY <1>2 DEF SessionOK
<1>14. /\ \A i \in 1 .. Len(w) : w[i].op = "send" => i \in Pending(c, w)
       /\ \A i, j \in 1 .. Len(w) : w[i].op = "count" /\ w[j].op = "count" => i = j
  BY <1>9
<1>15. VisitOK(c, t, s, o, q, w)
  BY <1>2, <1>9, <1>10, <1>11, <1>12, <1>13, <1>14 DEF VisitOK
<1> QED
  BY <1>3, <1>4, <1>5, <1>8, <1>15

----------------------------------------------------------------------------
(* Steps *)

\* A visit as the invariant sees it: of a station or of a connector.
StationVisit(g, v, ops) ==
    /\ v[2] = 0 /\ UNCHANGED conn
    /\ ops = <<>> \/ ops = <<ToSend(v[1], heartbeat(now[g]))>>
    /\ beat' \in [StationIds -> Nat]

ConnectorVisit(g, c, ops) ==
    /\ c \in Owned(g) /\ UNCHANGED beat
    /\ \E q : /\ conn' = [conn EXCEPT ![c] = q]
              /\ VisitOK(c, now[g], conn[c], out[c], q, ops)

VisitStep(g) ==
    \E ops \in Seq(Op) :
        LET v == turn[g] IN
        /\ v \in Visited /\ v[1] \in Stations(g) /\ ~TurnOver(g)
        /\ Visit(g, v, ops)
        /\ StationVisit(g, v, ops) \/ ConnectorVisit(g, v, ops)

\* Every action of VisitNext is such a visit.
LEMMA VisitCases ==
    ASSUME FleetInv, NEW g \in GroupIds, VisitNext(g)
    PROVE  VisitStep(g)
<1>1. StateType /\ \A c \in Owned(g) : ConnInv(g, c)
  BY DEF FleetInv
<1>2. PICK v : v = turn[g]
  OBVIOUS
<1>3. v \in Visited /\ v[1] \in Stations(g) /\ ~TurnOver(g)
  <2>1. v \in Places(g) /\ ~(v[1] > Groups[g].last) /\ ~TurnOver(g)
    BY <1>1, <1>2 DEF StateType, VisitNext, TurnOver
  <2> QED
    BY <2>1, PlaceVisited
<1>4. PICK t \in Times : t = now[g]
  BY <1>1 DEF StateType
<1>5. t \in Nat
  BY <1>4, Physics DEF Times
<1>6. CASE v[2] = 0
  <2>1. v \notin Connectors /\ v[1] \in StationIds
    BY <1>3, <1>6, PlaceFacts
  <2>2. Pass(g, v) \/ Heartbeat(g, v)
    BY <1>2, <1>6 DEF VisitNext
  <2>3. CASE Pass(g, v)
    <3>1. Visit(g, v, <<>>) /\ UNCHANGED <<conn, beat>> /\ <<>> \in Seq(Op)
      BY <2>3, NoOps DEF Pass, fleetVars
    <3>2. StationVisit(g, v, <<>>)
      BY <1>1, <1>6, <3>1 DEF StationVisit, StateType
    <3> QED
      BY <1>2, <1>3, <3>1, <3>2 DEF VisitStep
  <2>4. CASE Heartbeat(g, v)
    <3>1. PICK ops : ops = <<ToSend(v[1], heartbeat(t))>>
      OBVIOUS
    <3>2. ops \in Seq(Op)
      BY <1>3, <2>1, <3>1, PlainEvents, OpTypes
    <3>3. Visit(g, v, ops) /\ UNCHANGED conn
      BY <1>4, <2>4, <3>1 DEF Heartbeat
    <3>4. beat' \in [StationIds -> Nat]
      <4>1. PICK d \in BeatTimes : beat' = [beat EXCEPT ![v[1]] = t + d]
        BY <1>4, <2>4 DEF Heartbeat
      <4>2. t + d \in Nat /\ beat \in [StationIds -> Nat]
        BY <1>1, <1>5, PhysicsAssumption DEF StateType
      <4> QED
        BY <4>1, <4>2
    <3>5. StationVisit(g, v, ops)
      BY <1>4, <1>6, <3>1, <3>3, <3>4 DEF StationVisit
    <3> QED
      BY <1>2, <1>3, <3>2, <3>3, <3>5 DEF VisitStep
  <2> QED
    BY <2>2, <2>3, <2>4
<1>7. CASE v[2] # 0
  <2>1. v \in Connectors /\ v \in Owned(g)
    BY <1>3, <1>7, PlaceFacts, OwnedFacts
  <2>2. PICK s \in ConnectorStates : s = conn[v]
    BY <1>1, <2>1 DEF StateType
  <2>3. PICK o : o = out[v]
    OBVIOUS
  <2>4. o.last.ts \in Times /\ SessionOK(s, t) /\ conn \in [Connectors -> ConnectorStates]
    BY <1>1, <1>3, <1>4, <2>1, <2>2, <2>3 DEF StateType, ConnInv
  <2>5. SUFFICES ASSUME NEW q, NEW ops, conn' = [conn EXCEPT ![v] = q], UNCHANGED beat,
                        Visit(g, v, ops), VisitOK(v, t, s, o, q, ops)
                 PROVE  VisitStep(g)
    <3>1. \/ Pass(g, v) \/ Recover(g, v) \/ FaultWhenIdle(g, v) \/ startSession(g, v)
          \/ FaultWhenCharging(g, v) \/ stopSession(g, v) \/ meterTick(g, v)
      BY <1>2, <1>7 DEF VisitNext, Heartbeat
    <3>2. CASE Pass(g, v)
      <4>1. s.status = "Charging" => ~SessionOver(s, t)
        BY <1>4, <1>7, <2>2, <3>2 DEF Pass, Charging
      <4>2. VisitOK(v, t, s, o, s, <<>>)
        BY <2>1, <2>4, <4>1, PassOK
      <4>3. conn' = [conn EXCEPT ![v] = s] /\ UNCHANGED beat /\ Visit(g, v, <<>>)
        BY <2>1, <2>2, <2>4, <3>2 DEF Pass, fleetVars
      <4> QED
        BY <4>2, <4>3
    <3>3. CASE Recover(g, v)
      <4>1. PICK q \in Idling(t) : conn' = [conn EXCEPT ![v] = q]
        BY <1>4, <3>3 DEF Recover, Become
      <4>2. s.status = "Faulted" /\ UNCHANGED beat
            /\ Visit(g, v, <<ToSend(v[1], statusChange(v, t, "Available"))>>)
        BY <1>4, <2>2, <3>3 DEF Recover
      <4>3. VisitOK(v, t, s, o, q, <<ToSend(v[1], statusChange(v, t, "Available"))>>)
        BY <2>1, <2>4, <4>1, <4>2, RecoverOK
      <4> QED
        BY <4>1, <4>2, <4>3
    <3>4. CASE FaultWhenIdle(g, v)
      <4> DEFINE ops == <<ToSend(v[1], faultAlert(v, t)),
                          ToSend(v[1], statusChange(v, t, "Faulted"))>>
      <4>1. PICK q \in Downtime(t) : conn' = [conn EXCEPT ![v] = q]
        BY <1>4, <3>4 DEF FaultWhenIdle, Become
      <4>2. s.status = "Available" /\ UNCHANGED beat /\ Visit(g, v, ops)
        BY <1>4, <2>2, <3>4 DEF FaultWhenIdle
      <4>3. VisitOK(v, t, s, o, q, ops)
        BY <2>1, <2>4, <4>1, <4>2, FaultWhenIdleOK
      <4> QED
        BY <4>1, <4>2, <4>3
    <3>5. CASE startSession(g, v)
      <4>1. PICK end \in EndsAt(now[g]), meter \in NextMeter(now[g]),
                 soc \in Arrivals, tariff \in pickTariff(now[g]) :
              LET r == [status |-> "Charging", startedAt |-> now[g], endsAt |-> end,
                        energy |-> 0, soc |-> soc, tariff |-> tariff,
                        lastMeterAt |-> now[g], nextMeterAt |-> meter]
              IN /\ Visit(g, v, <<ToSend(v[1], startEvent(v, r)), Count(1),
                                  ToSend(v[1], statusChange(v, now[g], "Charging"))>>)
                 /\ Become(v, r)
        BY <3>5, Zenon DEF startSession
      <4>2. PICK q : q = [status |-> "Charging", startedAt |-> t, endsAt |-> end,
                          energy |-> 0, soc |-> soc, tariff |-> tariff,
                          lastMeterAt |-> t, nextMeterAt |-> meter]
        OBVIOUS
      <4> DEFINE ops == <<ToSend(v[1], startEvent(v, q)), Count(1),
                          ToSend(v[1], statusChange(v, t, "Charging"))>>
      <4>3. s.status = "Available" /\ UNCHANGED beat /\ Visit(g, v, ops)
            /\ conn' = [conn EXCEPT ![v] = q]
        BY <1>4, <2>2, <3>5, <4>1, <4>2 DEF startSession, Become
      <4>4. VisitOK(v, t, s, o, q, ops)
        BY <1>4, <2>1, <2>4, <4>1, <4>2, <4>3, StartOK
      <4> QED
        BY <4>3, <4>4
    <3>6. CASE FaultWhenCharging(g, v)
      <4> DEFINE ops == <<ToSend(v[1], faultAlert(v, t)), ToSend(v[1], stopEvent(v, s, t)),
                          Count(-1), ToSend(v[1], statusChange(v, t, "Faulted"))>>
      <4>1. PICK q \in Downtime(t) : conn' = [conn EXCEPT ![v] = q]
        BY <1>4, <3>6 DEF FaultWhenCharging, Become
      <4>2. s.status = "Charging" /\ UNCHANGED beat /\ Visit(g, v, ops)
        BY <1>4, <2>2, <3>6 DEF FaultWhenCharging, Charging
      <4>3. VisitOK(v, t, s, o, q, ops)
        BY <2>1, <2>4, <4>1, <4>2, FaultWhenChargingOK
      <4> QED
        BY <4>1, <4>2, <4>3
    <3>7. CASE stopSession(g, v)
      <4> DEFINE ops == <<ToSend(v[1], stopEvent(v, s, effectiveStopAt(s, t))), Count(-1),
                          ToSend(v[1], statusChange(v, t, "Available"))>>
      <4>1. PICK q \in Idling(t) : conn' = [conn EXCEPT ![v] = q]
        BY <1>4, <3>7 DEF stopSession, Become
      <4>2. s.status = "Charging" /\ UNCHANGED beat /\ Visit(g, v, ops)
        BY <1>4, <2>2, <3>7 DEF stopSession, Charging
      <4>3. VisitOK(v, t, s, o, q, ops)
        BY <2>1, <2>4, <4>1, <4>2, StopOK
      <4> QED
        BY <4>1, <4>2, <4>3
    <3>8. CASE meterTick(g, v)
      <4>1. PICK meter \in NextMeter(t) :
              LET r == [Charge(s, t) EXCEPT !.nextMeterAt = meter]
              IN /\ Visit(g, v, <<ToSend(v[1], SessionEvent("METER_UPDATE", v, r, t))>>)
                 /\ conn' = [conn EXCEPT ![v] = r]
        BY <1>4, <2>2, <3>8 DEF meterTick, Become
      <4>2. PICK q : q = [Charge(s, t) EXCEPT !.nextMeterAt = meter]
        OBVIOUS
      <4> DEFINE ops == <<ToSend(v[1], SessionEvent("METER_UPDATE", v, q, t))>>
      <4>3. s.status = "Charging" /\ ~SessionOver(s, t) /\ UNCHANGED beat
            /\ Visit(g, v, ops) /\ conn' = [conn EXCEPT ![v] = q]
        BY <1>4, <2>2, <3>8, <4>1, <4>2 DEF meterTick, Charging
      <4>4. VisitOK(v, t, s, o, q, ops)
        BY <2>1, <2>4, <4>2, <4>3, MeterOK
      <4> QED
        BY <4>3, <4>4
    <3> QED
      BY <3>1, <3>2, <3>3, <3>4, <3>5, <3>6, <3>7, <3>8
  <2>6. ops \in Seq(Op)
    BY <2>5 DEF VisitOK
  <2>7. ConnectorVisit(g, v, ops)
    BY <1>4, <2>1, <2>2, <2>3, <2>5 DEF ConnectorVisit
  <2> QED
    BY <1>2, <1>3, <2>5, <2>6, <2>7 DEF VisitStep
<1> QED
  BY <1>6, <1>7

\* What does not concern a connector or a group leaves its part of the invariant.
LEMMA SameConn ==
    ASSUME NEW g \in GroupIds, NEW c \in Owned(g), ConnInv(g, c),
           conn'[c] = conn[c], now'[g] = now[g], turn'[g] = turn[g], work'[g] = work[g],
           out'[c] = out[c], Booted' <=> Booted, cancelled => cancelled'
    PROVE  ConnInv(g, c)'
BY DEF ConnInv, Charging, Dropping

\* The same for what a group has to do and to count.
LEMMA SameCount ==
    ASSUME NEW g \in GroupIds, OwnWork(g), CountInv(g), work'[g] = work[g],
           \A c \in Owned(g) : conn'[c] = conn[c]
    PROVE  OwnWork(g)' /\ CountInv(g)'
<1>1. OwnWork(g)'
  BY DEF OwnWork
<1>2. CountInv(g)'
  BY DEF CountInv, Charging
<1> QED
  BY <1>1, <1>2

\* Operations for v are for no other place.
LEMMA OnlyFor ==
    ASSUME NEW v \in Visited, NEW c \in Visited, c # v, NEW w,
           \A i \in 1 .. Len(w) : w[i].op = "send" =>
             w[i].station = v[1] /\ w[i].event.conn = v[2]
    PROVE  Pending(c, w) = {}
<1>1. c = <<c[1], c[2]>> /\ v = <<v[1], v[2]>>
  BY PlaceFacts
<1> QED
  BY <1>1 DEF Pending

\* A group that does something is past the boot.
LEMMA WorkingIsBooted ==
    ASSUME FleetInv, NEW g \in GroupIds, ~TurnOver(g) \/ work[g] # <<>>
    PROVE  Booted
BY DEF FleetInv, BootInv

\* A visit keeps the types.
LEMMA VisitKeepsType ==
    ASSUME FleetInv, NEW g \in GroupIds, VisitStep(g)
    PROVE  StateType' /\ BootInv'
<1>1. StateType
  BY DEF FleetInv
<1>2. PICK ops \in Seq(Op) :
        /\ turn[g] \in Visited /\ turn[g][1] \in Stations(g) /\ ~TurnOver(g)
        /\ Visit(g, turn[g], ops)
        /\ StationVisit(g, turn[g], ops) \/ ConnectorVisit(g, turn[g], ops)
  BY DEF VisitStep
<1>3. /\ turn' = [turn EXCEPT ![g] = After(turn[g], 0)]
      /\ work' = [work EXCEPT ![g] = ops]
      /\ UNCHANGED <<clock, cancelled, boot, now, returned, out, n, gauge>>
  BY <1>2 DEF Visit, counterVars
<1>4. After(turn[g], 0) \in Places(g)
  <2>1. turn[g] \in Places(g) /\ ~(turn[g][1] > Groups[g].last)
    BY <1>1, <1>2 DEF StateType, TurnOver
  <2> QED
    BY <2>1, NextPlace
<1>5. DOMAIN turn' = GroupIds /\ \A h \in GroupIds : turn'[h] \in Places(h)
  BY <1>1, <1>3, <1>4 DEF StateType
<1>6. work' \in [GroupIds -> Seq(Op)]
  BY <1>1, <1>3 DEF StateType
<1>7. conn' \in [Connectors -> ConnectorStates] /\ beat' \in [StationIds -> Nat]
  <2>1. conn \in [Connectors -> ConnectorStates] /\ beat \in [StationIds -> Nat]
    BY <1>1 DEF StateType
  <2>2. CASE StationVisit(g, turn[g], ops)
    BY <2>1, <2>2 DEF StationVisit
  <2>3. CASE ConnectorVisit(g, turn[g], ops)
    <3>1. PICK q : /\ conn' = [conn EXCEPT ![turn[g]] = q]
                   /\ VisitOK(turn[g], now[g], conn[turn[g]], out[turn[g]], q, ops)
      BY <2>3 DEF ConnectorVisit
    <3>2. q \in ConnectorStates /\ beat' = beat
      BY <2>3, <3>1 DEF VisitOK, ConnectorVisit
    <3> QED
      BY <2>1, <3>1, <3>2
  <2> QED
    BY <1>2, <2>2, <2>3
<1>8. StateType'
  BY <1>1, <1>3, <1>5, <1>6, <1>7 DEF StateType
<1>9. Booted /\ Booted'
  BY <1>2, <1>3, WorkingIsBooted DEF Booted
<1> QED
  BY <1>8, <1>9 DEF BootInv

\* The operations of a visit are for what is visited.
LEMMA VisitOps ==
    ASSUME FleetInv, NEW g \in GroupIds, NEW v \in Visited, v[1] \in Stations(g), NEW ops \in Seq(Op),
           StationVisit(g, v, ops) \/ ConnectorVisit(g, v, ops)
    PROVE  /\ \A i \in 1 .. Len(ops) : ops[i].op = "send" =>
                ops[i].station = v[1] /\ ops[i].event.conn = v[2]
           /\ \A c \in Connectors : c # v => Pending(c, ops) = {}
           /\ StationVisit(g, v, ops) => v \notin Connectors /\ \A k : ~Counting(ops, k)
<1>1. ASSUME StationVisit(g, v, ops)
      PROVE  /\ \A i \in 1 .. Len(ops) : ops[i].op = "send" =>
                  ops[i].station = v[1] /\ ops[i].event.conn = v[2]
             /\ v \notin Connectors /\ \A k : ~Counting(ops, k)
  <2>1. v[2] = 0 /\ v \notin Connectors
    BY <1>1, PlaceFacts DEF StationVisit
  <2>2. CASE ops = <<>>
    BY <2>1, <2>2 DEF Counting
  <2>3. CASE ops = <<ToSend(v[1], heartbeat(now[g]))>>
    <3>1. /\ Len(ops) = 1 /\ ops[1].op = "send" /\ ops[1].station = v[1] /\ ops[1].event.conn = 0
      BY <2>3 DEF ToSend, heartbeat
    <3> QED
      BY <2>1, <3>1 DEF Counting
  <2> QED
    BY <1>1, <2>2, <2>3 DEF StationVisit
<1>2. ASSUME ConnectorVisit(g, v, ops)
      PROVE  \A i \in 1 .. Len(ops) : ops[i].op = "send" =>
               ops[i].station = v[1] /\ ops[i].event.conn = v[2]
  <2>1. PICK q : VisitOK(v, now[g], conn[v], out[v], q, ops)
    BY <1>2 DEF ConnectorVisit
  <2>2. \A i \in 1 .. Len(ops) : ops[i].op = "send" => i \in Pending(v, ops)
    BY <2>1 DEF VisitOK
  <2> QED
    BY <2>2 DEF Pending
<1>3. \A i \in 1 .. Len(ops) : ops[i].op = "send" =>
                ops[i].station = v[1] /\ ops[i].event.conn = v[2]
  BY <1>1, <1>2
<1>4. \A c \in Connectors : c # v => Pending(c, ops) = {}
  <2> SUFFICES ASSUME NEW c \in Connectors, c # v PROVE Pending(c, ops) = {}
    OBVIOUS
  <2>1. c \in Visited
    BY PlaceFacts
  <2> QED
    BY <1>3, <2>1, OnlyFor
<1> QED
  BY <1>1, <1>3, <1>4

\* At rest the parts of the invariant say that everything has been told.
LEMMA RestFacts ==
    ASSUME NEW c, NEW s, NEW o, NEW t
    PROVE  /\ StatusOK(c, s, o, <<>>) => o.status = s.status
           /\ OrderOK(c, s, o, <<>>, t) => o.last.ts <= Horizon(s, t)
           /\ NestOK(c, s, o, <<>>) => Settled(s, o)
BY NoOps DEF StatusOK, OrderOK, NestOK

\* A visit keeps what holds of each connector, the visited one and the others.
LEMMA VisitKeepsConn ==
    ASSUME FleetInv, NEW g \in GroupIds, VisitStep(g), NEW h \in GroupIds, NEW c \in Owned(h)
    PROVE  ConnInv(h, c)'
<1>1. StateType /\ ConnInv(h, c)
  BY DEF FleetInv
<1>2. PICK v : v = turn[g]
  OBVIOUS
<1>3. PICK ops \in Seq(Op) :
        /\ v \in Visited /\ v[1] \in Stations(g) /\ ~TurnOver(g)
        /\ Visit(g, v, ops)
        /\ StationVisit(g, v, ops) \/ ConnectorVisit(g, v, ops)
  BY <1>2 DEF VisitStep
<1>4. /\ turn' = [turn EXCEPT ![g] = After(v, 0)]
      /\ work[g] = <<>> /\ work' = [work EXCEPT ![g] = ops]
      /\ UNCHANGED <<cancelled, boot, now, out>>
  BY <1>3 DEF Visit
<1>5. Booted /\ Booted'
  BY <1>3, <1>4, WorkingIsBooted DEF Booted
<1>6. c \in Connectors
  BY OwnedFacts
<1>7. CASE c = v /\ h = g
  <2>1. ConnectorVisit(g, v, ops)
    BY <1>3, <1>6, <1>7, VisitOps
  <2>2. PICK q : /\ conn' = [conn EXCEPT ![v] = q]
                 /\ VisitOK(v, now[g], conn[v], out[v], q, ops)
    BY <2>1 DEF ConnectorVisit
  <2>3. PICK t, s, o : t = now[g] /\ s = conn[c] /\ o = out[c]
    OBVIOUS
  <2>4. conn'[c] = q /\ out'[c] = o /\ now'[g] = t /\ work'[g] = ops
    BY <1>1, <1>4, <1>6, <1>7, <2>2, <2>3 DEF StateType
  <2>5. /\ SessionOK(q, t)
        /\ q.status = "Charging" => q.endsAt >= t
        /\ o.status = s.status => StatusOK(c, q, o, ops)
        /\ o.last.ts <= Horizon(s, t) => OrderOK(c, q, o, ops, t)
        /\ Settled(s, o) => NestOK(c, q, o, ops)
    BY <1>7, <2>2, <2>3 DEF VisitOK
  <2>6. /\ ~Dropping => StatusOK(c, s, o, <<>>)
        /\ OrderOK(c, s, o, <<>>, t)
        /\ ~Dropping => NestOK(c, s, o, <<>>)
    BY <1>1, <1>4, <1>5, <1>7, <2>3 DEF ConnInv
  <2>7. /\ ~Dropping => StatusOK(c, q, o, ops)
        /\ OrderOK(c, q, o, ops, t)
        /\ ~Dropping => NestOK(c, q, o, ops)
    BY <2>5, <2>6, RestFacts
  <2> QED
    BY <1>4, <1>7, <2>4, <2>5, <2>7 DEF ConnInv, Charging, Dropping
<1>8. CASE c # v
  <2>1. conn'[c] = conn[c]
    BY <1>1, <1>3, <1>6, <1>8 DEF StationVisit, ConnectorVisit, StateType
  <2>2. CASE h # g
    <3>1. now'[h] = now[h] /\ turn'[h] = turn[h] /\ work'[h] = work[h] /\ out'[c] = out[c]
      BY <1>1, <1>4, <2>2 DEF StateType
    <3> QED
      BY <1>1, <1>4, <1>5, <2>1, <3>1, SameConn
  <2>3. CASE h = g
    <3>1. Pending(c, ops) = {} /\ Pending(c, <<>>) = {}
      BY <1>3, <1>6, <1>8, VisitOps, NoOps
    <3>2. PICK t, s, o : t = now[g] /\ s = conn[c] /\ o = out[c]
      OBVIOUS
    <3>3. /\ StatusOK(c, s, o, <<>>) => StatusOK(c, s, o, ops)
          /\ OrderOK(c, s, o, <<>>, t) => OrderOK(c, s, o, ops, t)
          /\ NestOK(c, s, o, <<>>) => NestOK(c, s, o, ops)
      BY <3>1, NonePending
    <3>4. /\ ~Dropping => StatusOK(c, s, o, <<>>)
          /\ OrderOK(c, s, o, <<>>, t)
          /\ ~Dropping => NestOK(c, s, o, <<>>)
          /\ SessionOK(s, t)
          /\ s.status = "Charging" /\ Before(c, v) => s.endsAt >= t
      BY <1>1, <1>2, <1>4, <1>5, <2>3, <3>2 DEF ConnInv, Charging
    <3>5. conn'[c] = s /\ out'[c] = o /\ now'[g] = t /\ work'[g] = ops /\ turn'[g] = After(v, 0)
      BY <1>1, <1>4, <2>1, <3>2 DEF StateType
    <3>6. Before(c, After(v, 0)) => Before(c, v)
      <4>1. v \in Places(g) /\ ~(v[1] > Groups[g].last)
        BY <1>1, <1>2, <1>3 DEF StateType, TurnOver
      <4> QED
        BY <1>8, <2>3, <4>1, NextPlace
    <3> QED
      BY <1>4, <2>3, <3>3, <3>4, <3>5, <3>6 DEF ConnInv, Charging, Dropping
  <2> QED
    BY <2>2, <2>3
<1>9. c = v => h = g
  BY <1>3, OwnedFacts
<1> QED
  BY <1>7, <1>8, <1>9

\* A counter update that is not for c does not matter to whether c is counted.
LEMMA CountsAtRest ==
    ASSUME NEW c, NEW s, NEW w, Pending(c, w) = {}
    PROVE  Counts(c, s, w) <=> s.status = "Charging"
BY DEF Counts, Subject

\* A visit counts nothing yet: the counter still stands for the state before it.
LEMMA VisitCounts ==
    ASSUME NEW c, NEW t, NEW s, NEW o, NEW q, NEW ops, VisitOK(c, t, s, o, q, ops)
    PROVE  Counts(c, q, ops) <=> s.status = "Charging"
BY DEF VisitOK, Counts

\* A visit keeps the counter's part of the invariant.
LEMMA VisitKeepsCount ==
    ASSUME FleetInv, NEW g \in GroupIds, VisitStep(g)
    PROVE  /\ \A h \in GroupIds : OwnWork(h)' /\ CountInv(h)'
           /\ n' = Cardinality(Counted')
<1>1. StateType /\ \A h \in GroupIds : OwnWork(h) /\ CountInv(h)
  BY DEF FleetInv
<1>2. PICK v : v = turn[g]
  OBVIOUS
<1>3. PICK ops \in Seq(Op) :
        /\ v \in Visited /\ v[1] \in Stations(g) /\ ~TurnOver(g)
        /\ Visit(g, v, ops)
        /\ StationVisit(g, v, ops) \/ ConnectorVisit(g, v, ops)
  BY <1>2 DEF VisitStep
<1>4. work[g] = <<>> /\ work' = [work EXCEPT ![g] = ops] /\ n' = n
  BY <1>3 DEF Visit, counterVars
<1>5. work'[g] = ops /\ \A h \in GroupIds : h # g => work'[h] = work[h]
  BY <1>1, <1>4 DEF StateType
<1>6. \A c \in Connectors : c # v => conn'[c] = conn[c]
  BY <1>1, <1>3 DEF StationVisit, ConnectorVisit, StateType
<1>7. ASSUME NEW h \in GroupIds, h # g PROVE OwnWork(h)' /\ CountInv(h)'
  <2>1. \A c \in Owned(h) : conn'[c] = conn[c]
    <3> SUFFICES ASSUME NEW c \in Owned(h) PROVE conn'[c] = conn[c]
      OBVIOUS
    <3>1. c \in Connectors /\ c[1] \notin Stations(g)
      BY <1>7, OwnedFacts
    <3> QED
      BY <1>3, <1>6, <3>1
  <2> QED
    BY <1>1, <1>5, <1>7, <2>1, SameCount
<1>8. OwnWork(g)'
  <2>1. \A i \in 1 .. Len(ops) : ops[i].op = "send" =>
                ops[i].station = v[1] /\ ops[i].event.conn = v[2]
    BY <1>3, VisitOps
  <2>2. v = <<v[1], v[2]>>
    BY <1>3, PlaceFacts
  <2>3. \A i \in 1 .. Len(ops) : ops[i].op = "send" =>
          ops[i].station \in Stations(g) /\ <<ops[i].station, ops[i].event.conn>> \in Visited
    BY <1>3, <2>1, <2>2
  <2> QED
    BY <1>5, <2>3 DEF OwnWork
<1>9. CountInv(g)'
  <2>1. CASE StationVisit(g, v, ops)
    <3>1. \A k : ~Counting(ops, k)
      BY <1>3, <2>1, VisitOps
    <3>2. \A i \in 1 .. Len(ops) : ops[i].op # "count"
      BY <3>1 DEF Counting
    <3> QED
      BY <1>5, <3>1, <3>2 DEF CountInv
  <2>2. CASE ConnectorVisit(g, v, ops)
    <3>1. PICK q : /\ conn' = [conn EXCEPT ![v] = q]
                   /\ VisitOK(v, now[g], conn[v], out[v], q, ops)
      BY <2>2 DEF ConnectorVisit
    <3>2. v \in Owned(g) /\ conn'[v] = q
      BY <1>1, <2>2, <3>1, OwnedFacts DEF ConnectorVisit, StateType
    <3>3. \A i, j \in 1 .. Len(ops) : ops[i].op = "count" /\ ops[j].op = "count" => i = j
      BY <3>1 DEF VisitOK
    <3>4. /\ Counting(ops, 1) => Subject(v, ops) /\ q.status = "Charging"
          /\ Counting(ops, -1) => Subject(v, ops) /\ q.status # "Charging"
      BY <3>1 DEF VisitOK
    <3> QED
      BY <1>5, <3>2, <3>3, <3>4 DEF CountInv, Charging
  <2> QED
    BY <1>3, <2>1, <2>2
<1>10. ASSUME NEW c \in Connectors
       PROVE  Counts(c, conn'[c], work'[Owner(c[1])]) <=> Counts(c, conn[c], work[Owner(c[1])])
  <2>1. Owner(c[1]) \in GroupIds /\ c \in Owned(Owner(c[1]))
    BY OneOwner
  <2>2. CASE c = v
    <3>1. ConnectorVisit(g, v, ops)
      BY <1>3, <2>2, VisitOps
    <3>2. PICK q : /\ conn' = [conn EXCEPT ![v] = q]
                   /\ VisitOK(v, now[g], conn[v], out[v], q, ops)
      BY <3>1 DEF ConnectorVisit
    <3>3. Owner(c[1]) = g
      BY <1>3, <2>1, <2>2, OwnedFacts
    <3>4. conn'[c] = q
      BY <1>1, <2>2, <3>2 DEF StateType
    <3>5. Counts(c, q, ops) <=> conn[c].status = "Charging"
      BY <2>2, <3>2, VisitCounts
    <3>6. Counts(c, conn[c], <<>>) <=> conn[c].status = "Charging"
      BY NoOps, CountsAtRest
    <3> QED
      BY <1>4, <1>5, <3>3, <3>4, <3>5, <3>6
  <2>3. CASE c # v /\ Owner(c[1]) = g
    <3>1. Pending(c, ops) = {} /\ Pending(c, <<>>) = {}
      BY <1>3, <2>3, VisitOps, NoOps
    <3> QED
      BY <1>4, <1>5, <1>6, <2>3, <3>1, CountsAtRest
  <2>4. CASE c # v /\ Owner(c[1]) # g
    BY <1>5, <1>6, <2>1, <2>4
  <2> QED
    BY <2>2, <2>3, <2>4
<1>11. Counted' = Counted
  <2>1. Counted' = {c \in Connectors : Counts(c, conn'[c], work'[Owner(c[1])])}
    BY DEF Counted
  <2> QED
    BY <1>10, <2>1 DEF Counted
<1> QED
  BY <1>4, <1>7, <1>8, <1>9, <1>11 DEF FleetInv

\* An operation other than a counter update is done: the counter's part stays.
LEMMA CountRest ==
    ASSUME NEW w \in Seq(Op), w # <<>>, w[1].op # "count"
    PROVE  /\ \A k : Counting(Tail(w), k) <=> Counting(w, k)
           /\ \A k, c : Counting(w, k) => (Subject(c, w) <=> Subject(c, Tail(w)))
           /\ \A i, j \in 1 .. Len(Tail(w)) :
                (\A a, b \in 1 .. Len(w) : w[a].op = "count" /\ w[b].op = "count" => a = b)
                /\ Tail(w)[i].op = "count" /\ Tail(w)[j].op = "count" => i = j
<1>1. /\ Len(w) \in Nat \ {0} /\ Len(Tail(w)) = Len(w) - 1
      /\ \A i \in 1 .. Len(Tail(w)) : i + 1 \in 1 .. Len(w) /\ Tail(w)[i] = w[i + 1]
      /\ \A i \in 1 .. Len(w) : i # 1 => i - 1 \in 1 .. Len(Tail(w)) /\ w[i] = Tail(w)[i - 1]
  BY Rest
<1>2. ASSUME NEW k PROVE Counting(Tail(w), k) <=> Counting(w, k)
  <2>1. ASSUME Counting(Tail(w), k) PROVE Counting(w, k)
    <3>1. PICK i \in 1 .. Len(Tail(w)) : Tail(w)[i].op = "count" /\ Tail(w)[i].by = k
      BY <2>1 DEF Counting
    <3>2. i + 1 \in 1 .. Len(w) /\ w[i + 1].op = "count" /\ w[i + 1].by = k
      BY <1>1, <3>1
    <3> QED
      BY <3>2 DEF Counting
  <2>2. ASSUME Counting(w, k) PROVE Counting(Tail(w), k)
    <3>1. PICK i \in 1 .. Len(w) : w[i].op = "count" /\ w[i].by = k
      BY <2>2 DEF Counting
    <3>2. i # 1
      BY <3>1
    <3>3. i - 1 \in 1 .. Len(Tail(w)) /\ Tail(w)[i - 1].op = "count" /\ Tail(w)[i - 1].by = k
      BY <1>1, <3>1, <3>2
    <3> QED
      BY <3>3 DEF Counting
  <2> QED
    BY <2>1, <2>2
<1>3. ASSUME NEW k, NEW c, Counting(w, k) PROVE Subject(c, w) <=> Subject(c, Tail(w))
  <2>1. PICK i \in 1 .. Len(w) : w[i].op = "count"
    BY <1>3 DEF Counting
  <2>2. i # 1
    BY <2>1
  <2>3. Len(w) # 1 /\ Len(w) \in Nat
    BY <1>1, <2>2
  <2>4. /\ \A j \in Pending(c, Tail(w)) : j + 1 \in Pending(c, w)
        /\ \A j \in Pending(c, w) : j # 1 => j - 1 \in Pending(c, Tail(w))
    BY PendingRest
  <2>5. (Len(w) - 1) + 1 = Len(w)
    BY <2>3
  <2> QED
    BY <1>1, <2>3, <2>4, <2>5 DEF Subject
<1>4. ASSUME NEW i \in 1 .. Len(Tail(w)), NEW j \in 1 .. Len(Tail(w)),
             \A a, b \in 1 .. Len(w) : w[a].op = "count" /\ w[b].op = "count" => a = b,
             Tail(w)[i].op = "count", Tail(w)[j].op = "count"
      PROVE  i = j
  <2>1. /\ i + 1 \in 1 .. Len(w) /\ w[i + 1].op = "count"
        /\ j + 1 \in 1 .. Len(w) /\ w[j + 1].op = "count"
    BY <1>1, <1>4
  <2>2. i + 1 = j + 1
    BY <1>4, <2>1
  <2> QED
    BY <1>1, <2>2
<1> QED
  BY <1>2, <1>3, <1>4

\* A group does such an operation.
LEMMA WorkKeepsCount ==
    ASSUME FleetInv, NEW g \in GroupIds, NEW w, w = work[g], w # <<>>, w[1].op # "count",
           work' = [work EXCEPT ![g] = Tail(w)], UNCHANGED <<conn, n>>
    PROVE  /\ \A h \in GroupIds : OwnWork(h)' /\ CountInv(h)'
           /\ n' = Cardinality(Counted')
<1>1. StateType /\ \A h \in GroupIds : OwnWork(h) /\ CountInv(h)
  BY DEF FleetInv
<1>2. w \in Seq(Op)
  BY <1>1 DEF StateType
<1>3. work'[g] = Tail(w) /\ \A h \in GroupIds : h # g => work'[h] = work[h]
  BY <1>1 DEF StateType
<1>4. \A h \in GroupIds : h # g => OwnWork(h)' /\ CountInv(h)'
  BY <1>1, <1>3, SameCount
<1>5. OwnWork(g)'
  <2>1. \A i \in 1 .. Len(Tail(w)) : i + 1 \in 1 .. Len(w) /\ Tail(w)[i] = w[i + 1]
    BY <1>2, Rest
  <2>2. \A i \in 1 .. Len(w) : w[i].op = "send" =>
          w[i].station \in Stations(g) /\ <<w[i].station, w[i].event.conn>> \in Visited
    BY <1>1 DEF OwnWork
  <2>3. \A i \in 1 .. Len(Tail(w)) : Tail(w)[i].op = "send" =>
          /\ Tail(w)[i].station \in Stations(g)
          /\ <<Tail(w)[i].station, Tail(w)[i].event.conn>> \in Visited
    BY <2>1, <2>2
  <2> QED
    BY <1>3, <2>3 DEF OwnWork
<1>6. CountInv(g)'
  <2>1. /\ \A i, j \in 1 .. Len(w) : w[i].op = "count" /\ w[j].op = "count" => i = j
        /\ Counting(w, 1) => \E c \in Owned(g) : Subject(c, w) /\ Charging(c)
        /\ Counting(w, -1) => \E c \in Owned(g) : Subject(c, w) /\ ~Charging(c)
    BY <1>1 DEF CountInv
  <2>2. \A i, j \in 1 .. Len(Tail(w)) :
          Tail(w)[i].op = "count" /\ Tail(w)[j].op = "count" => i = j
    BY <1>2, <2>1, CountRest
  <2>3. Counting(Tail(w), 1) => \E c \in Owned(g) : Subject(c, Tail(w)) /\ Charging(c)
    BY <1>2, <2>1, CountRest
  <2>4. Counting(Tail(w), -1) => \E c \in Owned(g) : Subject(c, Tail(w)) /\ ~Charging(c)
    BY <1>2, <2>1, CountRest
  <2>5. \A c \in Owned(g) : Charging(c)' <=> Charging(c)
    BY DEF Charging
  <2> QED
    BY <1>3, <2>2, <2>3, <2>4, <2>5 DEF CountInv
<1>7. ASSUME NEW c \in Connectors
      PROVE  Counts(c, conn'[c], work'[Owner(c[1])]) <=> Counts(c, conn[c], work[Owner(c[1])])
  <2>1. Owner(c[1]) \in GroupIds
    BY OneOwner
  <2>2. /\ Counting(Tail(w), 1) <=> Counting(w, 1)
        /\ Counting(Tail(w), -1) <=> Counting(w, -1)
        /\ Counting(w, 1) => (Subject(c, w) <=> Subject(c, Tail(w)))
        /\ Counting(w, -1) => (Subject(c, w) <=> Subject(c, Tail(w)))
    BY <1>2, CountRest
  <2>3. \A s : Counts(c, s, Tail(w)) <=> Counts(c, s, w)
    BY <2>2 DEF Counts
  <2>4. conn'[c] = conn[c]
    OBVIOUS
  <2>5. CASE Owner(c[1]) = g
    BY <1>3, <2>3, <2>4, <2>5
  <2>6. CASE Owner(c[1]) # g
    BY <1>3, <2>1, <2>4, <2>6
  <2> QED
    BY <2>5, <2>6
<1>8. Counted' = Counted
  <2>1. Counted' = {c \in Connectors : Counts(c, conn'[c], work'[Owner(c[1])])}
    BY DEF Counted
  <2> QED
    BY <1>7, <2>1 DEF Counted
<1> QED
  BY <1>4, <1>5, <1>6, <1>8 DEF FleetInv

\* A step that only works off what a visit has left keeps what it does not touch.
LEMMA WorkKeepsType ==
    ASSUME FleetInv, NEW g \in GroupIds, work[g] # <<>>, NEW u \in Seq(Op),
           work' = [work EXCEPT ![g] = u],
           UNCHANGED <<clock, cancelled, boot, now, turn, returned, conn, beat>>,
           DOMAIN out' = Visited, \A v \in Visited : out'[v].last.ts \in Times,
           n' \in Int, gauge' \in Int
    PROVE  StateType' /\ BootInv'
<1>1. StateType
  BY DEF FleetInv
<1>2. work' \in [GroupIds -> Seq(Op)]
  BY <1>1 DEF StateType
<1>3. StateType'
  BY <1>1, <1>2 DEF StateType
<1>4. Booted /\ Booted'
  BY WorkingIsBooted DEF Booted
<1> QED
  BY <1>3, <1>4 DEF BootInv

\* What is sent and to whom.
LEMMA SendFacts ==
    ASSUME FleetInv, NEW g \in GroupIds, SendNext(g), NEW w, w = work[g], NEW e, e = w[1].event,
           NEW a, a = <<w[1].station, e.conn>>
    PROVE  /\ w \in Seq(Op) /\ w # <<>> /\ w[1].op = "send"
           /\ e \in Event /\ e.ts \in Times
           /\ a \in Visited /\ a[1] \in Stations(g)
           /\ \A c \in Visited : 1 \in Pending(c, w) <=> c = a
           /\ work' = [work EXCEPT ![g] = Tail(w)]
           /\ UNCHANGED <<clock, cancelled, boot, now, turn, returned, conn, beat, n, gauge>>
           /\ out' = IF Dropping THEN out ELSE [out EXCEPT ![a] = Hear(@, e)]
<1>1. StateType /\ OwnWork(g)
  BY DEF FleetInv
<1>2. w \in Seq(Op) /\ w # <<>> /\ w[1].op = "send"
  BY <1>1 DEF StateType, SendNext, Step
<1>3. w[1] \in Op /\ Len(w) \in Nat \ {0}
  BY <1>2, Rest
<1>4. e \in Event /\ e.ts \in Times
  <2>1. w[1] \in [op : {"send"}, station : StationIds, event : Event]
    BY <1>2, <1>3 DEF Op
  <2>2. e \in Event
    BY <2>1
  <2> QED
    BY <2>2 DEF Event
<1>5. a \in Visited /\ a[1] \in Stations(g)
  <2>1. 1 \in 1 .. Len(w)
    BY <1>3
  <2> QED
    BY <1>1, <1>2, <2>1 DEF OwnWork
<1>6. ASSUME NEW c \in Visited PROVE 1 \in Pending(c, w) <=> c = a
  <2>1. c = <<c[1], c[2]>>
    BY PlaceFacts
  <2>2. 1 \in 1 .. Len(w)
    BY <1>3
  <2> QED
    BY <1>2, <2>1, <2>2 DEF Pending
<1>7. /\ work' = [work EXCEPT ![g] = Tail(w)]
      /\ UNCHANGED <<clock, cancelled, boot, now, turn, returned, conn, beat, n, gauge>>
  BY DEF SendNext, Step, fleetVars, counterVars
<1>8. out' = IF Dropping THEN out ELSE [out EXCEPT ![a] = Hear(@, e)]
  BY DEF SendNext, Send, Dropping
<1> QED
  BY <1>2, <1>4, <1>5, <1>6, <1>7, <1>8

\* A send keeps the invariant, whether shutdown drops the event or not.
LEMMA SendKeeps ==
    ASSUME FleetInv, NEW g \in GroupIds, SendNext(g)
    PROVE  FleetInv'
<1>1. StateType /\ \A h \in GroupIds : \A c \in Owned(h) : ConnInv(h, c)
  BY DEF FleetInv
<1>2. PICK w : w = work[g]
  OBVIOUS
<1>3. PICK e : e = w[1].event
  OBVIOUS
<1>4. PICK a : a = <<w[1].station, e.conn>>
  OBVIOUS
<1>5. /\ w \in Seq(Op) /\ w # <<>> /\ w[1].op = "send"
      /\ e \in Event /\ e.ts \in Times
      /\ a \in Visited /\ a[1] \in Stations(g)
      /\ \A c \in Visited : 1 \in Pending(c, w) <=> c = a
      /\ work' = [work EXCEPT ![g] = Tail(w)]
      /\ UNCHANGED <<clock, cancelled, boot, now, turn, returned, conn, beat, n, gauge>>
      /\ out' = IF Dropping THEN out ELSE [out EXCEPT ![a] = Hear(@, e)]
  BY <1>2, <1>3, <1>4, SendFacts
<1>6. DOMAIN out = Visited /\ \A v \in Visited : out[v].last.ts \in Times
  BY <1>1 DEF StateType
<1>7. DOMAIN out' = Visited /\ \A v \in Visited : out'[v].last.ts \in Times
  <2>1. CASE Dropping
    BY <1>5, <1>6, <2>1
  <2>2. CASE ~Dropping
    <3>1. out' = [out EXCEPT ![a] = Hear(@, e)]
      BY <1>5, <2>2
    <3>2. DOMAIN out' = Visited
      BY <1>6, <3>1
    <3>3. ASSUME NEW v \in Visited PROVE out'[v].last.ts \in Times
      <4>1. CASE v = a
        <5>1. out'[v] = Hear(out[v], e)
          BY <1>6, <3>1, <4>1
        <5>2. Hear(out[v], e).last = e
          BY Heard
        <5> QED
          BY <1>5, <5>1, <5>2
      <4>2. CASE v # a
        BY <1>6, <3>1, <4>2
      <4> QED
        BY <4>1, <4>2
    <3> QED
      BY <3>2, <3>3
  <2> QED
    BY <2>1, <2>2
<1>8. StateType' /\ BootInv'
  <2>1. Tail(w) \in Seq(Op) /\ n' \in Int /\ gauge' \in Int
    BY <1>1, <1>5, Rest DEF StateType
  <2> QED
    BY <1>2, <1>5, <1>7, <2>1, WorkKeepsType
<1>9. (\A h \in GroupIds : OwnWork(h)' /\ CountInv(h)') /\ n' = Cardinality(Counted')
  BY <1>2, <1>5, WorkKeepsCount
<1>10. ASSUME NEW h \in GroupIds, NEW c \in Owned(h) PROVE ConnInv(h, c)'
  <2>1. c \in Visited
    BY OwnedFacts, PlaceFacts
  <2>2. (Booted' <=> Booted) /\ (Dropping' <=> Dropping)
    BY <1>5 DEF Booted, Dropping
  <2>3. CASE h # g
    <3>1. c # a
      BY <1>5, <2>3, OwnedFacts
    <3>2. out'[c] = out[c] /\ work'[h] = work[h]
      BY <1>1, <1>5, <1>6, <2>1, <2>3, <3>1 DEF StateType
    <3> QED
      BY <1>1, <1>5, <2>2, <3>2, SameConn
  <2>4. CASE h = g
    <3>1. PICK t, s, o : t = now[g] /\ s = conn[c] /\ o = out[c]
      OBVIOUS
    <3>2. /\ SessionOK(s, t)
          /\ s.status = "Charging" /\ Before(c, turn[g]) => s.endsAt >= t
          /\ Booted /\ ~Dropping => StatusOK(c, s, o, w)
          /\ OrderOK(c, s, o, w, t)
          /\ ~Dropping => NestOK(c, s, o, w)
      BY <1>1, <1>2, <2>4, <3>1 DEF ConnInv, Charging
    <3>3. s \in ConnectorStates
      BY <1>1, <3>1, OwnedFacts DEF StateType
    <3>4. work'[g] = Tail(w) /\ now'[g] = t /\ conn'[c] = s /\ turn'[g] = turn[g]
      BY <1>1, <1>5, <3>1 DEF StateType
    <3>5. /\ Booted /\ ~Dropping => StatusOK(c, s, out'[c], Tail(w))
          /\ OrderOK(c, s, out'[c], Tail(w), t)
          /\ ~Dropping => NestOK(c, s, out'[c], Tail(w))
      <4>1. CASE Dropping
        <5>1. out'[c] = o
          BY <1>5, <3>1, <4>1
        <5> QED
          BY <1>5, <3>2, <4>1, <5>1, HeadDropped
      <4>2. CASE ~Dropping /\ c = a
        <5>1. out'[c] = Hear(o, e)
          BY <1>5, <1>6, <2>1, <3>1, <4>2
        <5>2. 1 \in Pending(c, w)
          BY <1>5, <2>1, <4>2
        <5>3. /\ StatusOK(c, s, o, w) => StatusOK(c, s, Hear(o, e), Tail(w))
              /\ OrderOK(c, s, o, w, t) => OrderOK(c, s, Hear(o, e), Tail(w), t)
              /\ NestOK(c, s, o, w) => NestOK(c, s, Hear(o, e), Tail(w))
          BY <1>3, <1>5, <3>3, <5>2, HeadSent
        <5> QED
          BY <3>2, <5>1, <5>3
      <4>3. CASE ~Dropping /\ c # a
        <5>1. out'[c] = o
          BY <1>5, <1>6, <2>1, <3>1, <4>3
        <5>2. 1 \notin Pending(c, w)
          BY <1>5, <2>1, <4>3
        <5>3. /\ StatusOK(c, s, o, w) => StatusOK(c, s, o, Tail(w))
              /\ OrderOK(c, s, o, w, t) => OrderOK(c, s, o, Tail(w), t)
              /\ NestOK(c, s, o, w) => NestOK(c, s, o, Tail(w))
          BY <1>5, <5>2, HeadSkipped
        <5> QED
          BY <3>2, <5>1, <5>3
      <4> QED
        BY <4>1, <4>2, <4>3
    <3> QED
      BY <2>2, <2>4, <3>2, <3>4, <3>5 DEF ConnInv, Charging
  <2> QED
    BY <2>3, <2>4
<1> QED
  BY <1>8, <1>9, <1>10 DEF FleetInv

\* A counter operation: nothing is sent.
LEMMA CounterKeepsConn ==
    ASSUME FleetInv, NEW g \in GroupIds, NEW w, w = work[g], w # <<>>, w[1].op # "send",
           NEW u, u = Tail(w) \/ \E x \in Op : x.op # "send" /\ u = [w EXCEPT ![1] = x],
           work' = [work EXCEPT ![g] = u],
           UNCHANGED <<cancelled, boot, now, turn, conn, out>>,
           NEW h \in GroupIds, NEW c \in Owned(h)
    PROVE  ConnInv(h, c)'
<1>1. StateType /\ ConnInv(h, c)
  BY DEF FleetInv
<1>2. w \in Seq(Op)
  BY <1>1 DEF StateType
<1>3. (Booted' <=> Booted) /\ (Dropping' <=> Dropping)
  BY DEF Booted, Dropping
<1>4. CASE h # g
  <2>1. work'[h] = work[h]
    BY <1>1, <1>4 DEF StateType
  <2> QED
    BY <1>1, <1>3, <2>1, SameConn
<1>5. CASE h = g
  <2>1. PICK t, s, o : t = now[g] /\ s = conn[c] /\ o = out[c]
    OBVIOUS
  <2>2. /\ StatusOK(c, s, o, w) => StatusOK(c, s, o, u)
        /\ OrderOK(c, s, o, w, t) => OrderOK(c, s, o, u, t)
        /\ NestOK(c, s, o, w) => NestOK(c, s, o, u)
    <3>1. CASE u = Tail(w)
      <4>1. 1 \notin Pending(c, w)
        BY DEF Pending
      <4> QED
        BY <1>2, <3>1, <4>1, HeadSkipped
    <3>2. CASE \E x \in Op : x.op # "send" /\ u = [w EXCEPT ![1] = x]
      <4>1. PICK x \in Op : x.op # "send" /\ u = [w EXCEPT ![1] = x]
        BY <3>2
      <4> QED
        BY <1>2, <4>1, HeadReplaced
    <3> QED
      BY <3>1, <3>2
  <2>3. work'[g] = u
    BY <1>1 DEF StateType
  <2> QED
    BY <1>1, <1>3, <1>5, <2>1, <2>2, <2>3 DEF ConnInv, Charging
<1> QED
  BY <1>4, <1>5

\* So does setting the gauge.
LEMMA SetGaugeKeeps ==
    ASSUME FleetInv, NEW g \in GroupIds, SetGauge(g)
    PROVE  FleetInv'
<1>1. StateType
  BY DEF FleetInv
<1>2. PICK w : w = work[g]
  OBVIOUS
<1>3. /\ w # <<>> /\ w[1].op = "set"
      /\ work' = [work EXCEPT ![g] = Tail(w)] /\ gauge' = w[1].value
      /\ UNCHANGED <<clock, cancelled, boot, now, turn, returned, conn, beat, out, n>>
  BY <1>2 DEF SetGauge, Step, fleetVars
<1>4. w \in Seq(Op)
  BY <1>1, <1>2 DEF StateType
<1>5. w[1] \in Op /\ Tail(w) \in Seq(Op)
  BY <1>3, <1>4, Rest
<1>6. gauge' \in Int /\ n' \in Int
  BY <1>1, <1>3, <1>5 DEF Op, StateType
<1>7. StateType' /\ BootInv'
  <2>1. DOMAIN out' = Visited /\ \A v \in Visited : out'[v].last.ts \in Times
    BY <1>1, <1>3 DEF StateType
  <2> QED
    BY <1>2, <1>3, <1>5, <1>6, <2>1, WorkKeepsType
<1>8. (\A h \in GroupIds : OwnWork(h)' /\ CountInv(h)') /\ n' = Cardinality(Counted')
  BY <1>2, <1>3, WorkKeepsCount
<1>9. \A h \in GroupIds : \A c \in Owned(h) : ConnInv(h, c)'
  BY <1>2, <1>3, CounterKeepsConn
<1> QED
  BY <1>7, <1>8, <1>9 DEF FleetInv

OneCount(w) == \A i, j \in 1 .. Len(w) : w[i].op = "count" /\ w[j].op = "count" => i = j

\* The counter is updated for c, whose status is the last thing to tell.
LEMMA CountDone ==
    ASSUME NEW w \in Seq(Op), w # <<>>, w[1].op = "count", NEW x \in Op, x.op = "set",
           NEW u, u = [w EXCEPT ![1] = x], NEW k \in {1, -1}, k = w[1].by, OneCount(w)
    PROVE  /\ u \in Seq(Op) /\ Len(u) = Len(w) /\ u[1] = x
           /\ \A i \in 1 .. Len(w) : i # 1 => u[i] = w[i]
           /\ \A i \in 1 .. Len(u) : u[i].op # "count"
           /\ \A m : ~Counting(u, m)
           /\ Counting(w, k) /\ ~Counting(w, -k)
           /\ \A c : Subject(c, u) <=> Subject(c, w)
<1>1. Len(w) \in Nat \ {0} /\ 1 \in 1 .. Len(w)
  BY Rest
<1>2. u \in Seq(Op) /\ Len(u) = Len(w) /\ u[1] = x /\ \A i \in 1 .. Len(w) : i # 1 => u[i] = w[i]
  BY <1>1
<1>3. \A i \in 1 .. Len(u) : u[i].op # "count"
  <2> SUFFICES ASSUME NEW i \in 1 .. Len(u), u[i].op = "count" PROVE FALSE
    OBVIOUS
  <2>1. i # 1
    BY <1>2
  <2>2. i \in 1 .. Len(w) /\ w[i].op = "count"
    BY <1>2, <2>1
  <2> QED
    BY <1>1, <2>1, <2>2 DEF OneCount
<1>4. \A m : ~Counting(u, m)
  BY <1>3 DEF Counting
<1>5. Counting(w, k)
  BY <1>1 DEF Counting
<1>6. ~Counting(w, -k)
  <2> SUFFICES ASSUME NEW i \in 1 .. Len(w), w[i].op = "count", w[i].by = -k PROVE FALSE
    BY DEF Counting
  <2>1. i = 1
    BY <1>1 DEF OneCount
  <2>2. k = -k
    BY <2>1
  <2> QED
    BY <2>2
<1>7. ASSUME NEW c PROVE Subject(c, u) <=> Subject(c, w)
  <2>1. CASE Len(w) = 1
    BY <1>2, <2>1 DEF Subject, Pending
  <2>2. CASE Len(w) # 1
    <3>1. u[Len(w)] = w[Len(w)]
      BY <1>1, <1>2, <2>2
    <3> QED
      BY <1>1, <1>2, <3>1 DEF Subject, Pending
  <2> QED
    BY <2>1, <2>2
<1> QED
  BY <1>2, <1>3, <1>4, <1>5, <1>6, <1>7

\* The connector that an update is for is the only one, and is counted from then
\* on, or no more.
LEMMA AddIntCounts ==
    ASSUME FleetInv, NEW g \in GroupIds, NEW w, w = work[g], w # <<>>, w[1].op = "count",
           NEW x \in Op, x.op = "set", NEW u, u = [w EXCEPT ![1] = x], NEW k \in {1, -1}, k = w[1].by,
           work' = [work EXCEPT ![g] = u], conn' = conn
    PROVE  \E c \in Connectors :
             \/ k = 1 /\ c \notin Counted /\ Counted' = Counted \cup {c}
             \/ k = -1 /\ c \in Counted /\ Counted' = Counted \ {c}
<1>1. StateType /\ CountInv(g)
  BY DEF FleetInv
<1>2. w \in Seq(Op)
  BY <1>1 DEF StateType
<1>3. OneCount(w)
  BY <1>1 DEF CountInv, OneCount
<1>4. /\ \A m : ~Counting(u, m)
      /\ Counting(w, k) /\ ~Counting(w, -k)
      /\ \A c : Subject(c, u) <=> Subject(c, w)
  BY <1>2, <1>3, CountDone
<1>5. PICK c0 \in Owned(g) : Subject(c0, w) /\ (Charging(c0) <=> k = 1)
  <2>1. CASE k = 1
    BY <1>1, <1>4, <2>1 DEF CountInv
  <2>2. CASE k = -1
    BY <1>1, <1>4, <2>2 DEF CountInv
  <2> QED
    BY <2>1, <2>2
<1>6. c0 \in Connectors /\ Owner(c0[1]) = g
  <2>1. c0 \in Connectors
    BY OwnedFacts
  <2>2. Owner(c0[1]) \in GroupIds /\ c0 \in Owned(Owner(c0[1]))
    BY <2>1, OneOwner
  <2> QED
    BY <2>1, <2>2, OwnedFacts
<1>7. work'[g] = u /\ \A h \in GroupIds : h # g => work'[h] = work[h]
  BY <1>1 DEF StateType
<1>8. ASSUME NEW c \in Connectors, c # c0
      PROVE  Counts(c, conn'[c], work'[Owner(c[1])]) <=> Counts(c, conn[c], work[Owner(c[1])])
  <2>1. Owner(c[1]) \in GroupIds
    BY OneOwner
  <2>2. ~Subject(c, w)
    <3>1. c = <<c[1], c[2]>> /\ c0 = <<c0[1], c0[2]>>
      BY <1>6, PlaceFacts
    <3>2. w[Len(w)].station = c0[1] /\ w[Len(w)].event.conn = c0[2]
      BY <1>5 DEF Subject, Pending
    <3> QED
      BY <1>8, <3>1, <3>2 DEF Subject, Pending
  <2>3. \A s : Counts(c, s, u) <=> Counts(c, s, w)
    BY <1>4, <2>2 DEF Counts
  <2>4. CASE Owner(c[1]) = g
    BY <1>7, <2>3, <2>4
  <2>5. CASE Owner(c[1]) # g
    BY <1>7, <2>1, <2>5
  <2> QED
    BY <2>4, <2>5
<1>9. Counted' = {c \in Connectors : Counts(c, conn'[c], work'[Owner(c[1])])}
  BY DEF Counted
<1>10. \A c \in Connectors : c # c0 => (c \in Counted' <=> c \in Counted)
  BY <1>8, <1>9 DEF Counted
<1>11. c0 \in Counted' <=> Charging(c0)
  <2>1. Counts(c0, conn'[c0], u) <=> conn'[c0].status = "Charging"
    BY <1>4 DEF Counts
  <2> QED
    BY <1>6, <1>7, <1>9, <2>1 DEF Charging
<1>12. c0 \in Counted <=> ~Charging(c0)
  <2>1. CASE k = 1
    BY <1>4, <1>5, <1>6, <2>1 DEF Counts, Counted, Charging
  <2>2. CASE k = -1
    BY <1>4, <1>5, <1>6, <2>2 DEF Counts, Counted, Charging
  <2> QED
    BY <2>1, <2>2
<1>13. Counted \subseteq Connectors /\ Counted' \subseteq Connectors
  BY <1>9 DEF Counted
<1>14. CASE k = 1
  <2>1. c0 \notin Counted /\ Counted' = Counted \cup {c0}
    BY <1>5, <1>6, <1>10, <1>11, <1>12, <1>13, <1>14
  <2> QED
    BY <1>6, <1>14, <2>1
<1>15. CASE k = -1
  <2>1. c0 \in Counted /\ Counted' = Counted \ {c0}
    BY <1>5, <1>6, <1>10, <1>11, <1>12, <1>13, <1>15
  <2> QED
    BY <1>6, <1>15, <2>1
<1> QED
  BY <1>14, <1>15

\* And so does the counter's update: n follows the set of counted connectors.
LEMMA AddIntKeeps ==
    ASSUME FleetInv, NEW g \in GroupIds, AddInt64(g)
    PROVE  FleetInv'
<1>1. StateType /\ \A h \in GroupIds : OwnWork(h) /\ CountInv(h)
  BY DEF FleetInv
<1>2. PICK w : w = work[g]
  OBVIOUS
<1>3. PICK x : x = [op |-> "set", value |-> n + w[1].by]
  OBVIOUS
<1>4. PICK u : u = [w EXCEPT ![1] = x]
  OBVIOUS
<1>5. /\ w # <<>> /\ w[1].op = "count"
      /\ work' = [work EXCEPT ![g] = u] /\ n' = n + w[1].by
      /\ UNCHANGED <<clock, cancelled, boot, now, turn, returned, conn, beat, out, gauge>>
  BY <1>2, <1>3, <1>4 DEF AddInt64, Step, fleetVars
<1>6. w \in Seq(Op)
  BY <1>1, <1>2 DEF StateType
<1>7. w[1] \in Op /\ n \in Int
  BY <1>1, <1>5, <1>6, Rest DEF StateType
<1>8. PICK k \in {1, -1} : k = w[1].by
  BY <1>5, <1>7 DEF Op
<1>9. x \in Op /\ x.op = "set"
  BY <1>3, <1>7, <1>8 DEF Op
<1>10. OneCount(w)
  BY <1>1, <1>2 DEF CountInv, OneCount
<1>11. /\ u \in Seq(Op) /\ Len(u) = Len(w) /\ u[1] = x
       /\ \A i \in 1 .. Len(w) : i # 1 => u[i] = w[i]
       /\ \A i \in 1 .. Len(u) : u[i].op # "count"
       /\ \A m : ~Counting(u, m)
  <2>1. w # <<>> /\ w[1].op = "count"
    BY <1>5
  <2>2. x \in Op /\ x.op = "set" /\ k = w[1].by
    BY <1>8, <1>9
  <2>3. u \in Seq(Op)
    BY <1>4, <1>6, <1>10, <2>1, <2>2, CountDone
  <2>4. Len(u) = Len(w) /\ u[1] = x
    BY <1>4, <1>6, <1>10, <2>1, <2>2, CountDone
  <2>5. \A i \in 1 .. Len(w) : i # 1 => u[i] = w[i]
    BY <1>4, <1>6, <1>10, <2>1, <2>2, CountDone
  <2>6. \A i \in 1 .. Len(u) : u[i].op # "count"
    BY <1>4, <1>6, <1>10, <2>1, <2>2, CountDone
  <2>7. \A m : ~Counting(u, m)
    BY <1>4, <1>6, <1>10, <2>1, <2>2, CountDone
  <2> QED
    BY <2>3, <2>4, <2>5, <2>6, <2>7
<1>12. StateType' /\ BootInv'
  <2>1. /\ DOMAIN out' = Visited /\ \A v \in Visited : out'[v].last.ts \in Times
        /\ n' \in Int /\ gauge' \in Int
    BY <1>1, <1>5, <1>7, <1>8 DEF StateType
  <2> QED
    BY <1>2, <1>5, <1>11, <2>1, WorkKeepsType
<1>13. \A h \in GroupIds : \A c \in Owned(h) : ConnInv(h, c)'
  BY <1>2, <1>4, <1>5, <1>9, CounterKeepsConn
<1>14. work'[g] = u /\ \A h \in GroupIds : h # g => work'[h] = work[h]
  BY <1>1, <1>5 DEF StateType
<1>15. ASSUME NEW h \in GroupIds PROVE OwnWork(h)' /\ CountInv(h)'
  <2>1. CASE h # g
    BY <1>1, <1>5, <1>14, <2>1, SameCount
  <2>2. OwnWork(g)'
    <3>1. \A i \in 1 .. Len(w) : w[i].op = "send" =>
            w[i].station \in Stations(g) /\ <<w[i].station, w[i].event.conn>> \in Visited
      BY <1>1, <1>2 DEF OwnWork
    <3>2. \A i \in 1 .. Len(u) : u[i].op = "send" =>
            u[i].station \in Stations(g) /\ <<u[i].station, u[i].event.conn>> \in Visited
      BY <1>9, <1>11, <3>1
    <3> QED
      BY <1>14, <3>2 DEF OwnWork
  <2>3. CountInv(g)'
    BY <1>11, <1>14 DEF CountInv
  <2> QED
    BY <2>1, <2>2, <2>3
<1>16. n' = Cardinality(Counted')
  <2>1. PICK c \in Connectors :
             \/ k = 1 /\ c \notin Counted /\ Counted' = Counted \cup {c}
             \/ k = -1 /\ c \in Counted /\ Counted' = Counted \ {c}
    BY <1>2, <1>4, <1>5, <1>8, <1>9, AddIntCounts
  <2>2. IsFiniteSet(Counted)
    BY FiniteFleet, FS_Subset DEF Counted
  <2>3. n = Cardinality(Counted) /\ n' = n + k
    BY <1>5, <1>8 DEF FleetInv
  <2>4. CASE k = 1
    BY <2>1, <2>2, <2>3, <2>4, FS_AddElement
  <2>5. CASE k = -1
    BY <2>1, <2>2, <2>3, <2>5, <1>7, FS_RemoveElement
  <2> QED
    BY <2>4, <2>5
<1> QED
  BY <1>12, <1>13, <1>15, <1>16 DEF FleetInv

----------------------------------------------------------------------------
(* The steps that are no group's work *)

\* The clock, the cancellation and the return of a group.
LEMMA IdleKeeps ==
    ASSUME FleetInv, UNCHANGED <<boot, now, turn, work, conn, beat, out, n, gauge>>,
           clock' \in Times, cancelled' \in BOOLEAN, cancelled => cancelled',
           returned' \subseteq GroupIds
    PROVE  FleetInv'
<1>1. /\ StateType /\ BootInv
      /\ \A g \in GroupIds : OwnWork(g) /\ CountInv(g) /\ \A c \in Owned(g) : ConnInv(g, c)
  BY DEF FleetInv
<1>2. StateType'
  BY <1>1 DEF StateType
<1>3. BootInv'
  <2>1. (Booted' <=> Booted) /\ (~Dropping' => ~Dropping)
    BY DEF Booted, Dropping
  <2>2. \A g \in GroupIds : TurnOver(g)' <=> TurnOver(g)
    BY DEF TurnOver
  <2> QED
    BY <1>1, <2>1, <2>2 DEF BootInv
<1>4. \A g \in GroupIds : OwnWork(g)' /\ CountInv(g)'
  BY <1>1, SameCount
<1>5. ASSUME NEW g \in GroupIds, NEW c \in Owned(g) PROVE ConnInv(g, c)'
  <2>1. Booted' <=> Booted
    BY DEF Booted
  <2> QED
    BY <1>1, <2>1, SameConn
<1>6. n' = Cardinality(Counted')
  BY DEF FleetInv, Counted
<1> QED
  BY <1>2, <1>3, <1>4, <1>5, <1>6 DEF FleetInv

\* A tick moves a group's time on; nothing is before the place it starts from.
LEMMA TickKeeps ==
    ASSUME FleetInv, NEW g \in GroupIds, Tick(g)
    PROVE  FleetInv'
<1>1. /\ StateType
      /\ \A h \in GroupIds : OwnWork(h) /\ CountInv(h) /\ \A c \in Owned(h) : ConnInv(h, c)
  BY DEF FleetInv
<1>2. PICK v : v = <<Groups[g].first, 0>>
  OBVIOUS
<1>3. /\ Booted /\ work[g] = <<>> /\ clock > now[g]
      /\ now' = [now EXCEPT ![g] = clock] /\ turn' = [turn EXCEPT ![g] = v]
      /\ UNCHANGED <<clock, cancelled, boot, work, returned, conn, beat, out, n, gauge>>
  BY <1>2 DEF Tick, fleetVars, counterVars
<1>4. v \in Places(g)
  <2>1. Groups[g].first \in Stations(g) /\ Groups[g].first \in StationIds
    BY OwnedFacts, GroupRanges DEF Stations
  <2>2. v \in Visited
    BY <1>2, <2>1 DEF Visited
  <2> QED
    BY <1>2, <2>1, <2>2 DEF Places
<1>5. StateType'
  <2>1. now' \in [GroupIds -> Times]
    BY <1>1, <1>3 DEF StateType
  <2>2. DOMAIN turn' = GroupIds /\ \A h \in GroupIds : turn'[h] \in Places(h)
    BY <1>1, <1>3, <1>4 DEF StateType
  <2> QED
    BY <1>1, <1>3, <2>1, <2>2 DEF StateType
<1>6. Booted' /\ (Dropping' <=> Dropping)
  BY <1>3 DEF Booted, Dropping
<1>7. BootInv'
  BY <1>6 DEF BootInv
<1>8. \A h \in GroupIds : OwnWork(h)' /\ CountInv(h)'
  BY <1>1, <1>3, SameCount
<1>9. ASSUME NEW h \in GroupIds, NEW c \in Owned(h) PROVE ConnInv(h, c)'
  <2>1. CASE h # g
    <3>1. now'[h] = now[h] /\ turn'[h] = turn[h]
      BY <1>1, <1>3, <2>1 DEF StateType
    <3> QED
      BY <1>1, <1>3, <1>6, <3>1, SameConn
  <2>2. CASE h = g
    <3>1. PICK t, s, o : t = now[g] /\ s = conn[c] /\ o = out[c]
      OBVIOUS
    <3>2. /\ SessionOK(s, t)
          /\ ~Dropping => StatusOK(c, s, o, <<>>)
          /\ OrderOK(c, s, o, <<>>, t)
          /\ ~Dropping => NestOK(c, s, o, <<>>)
      BY <1>1, <1>3, <2>2, <3>1 DEF ConnInv
    <3>3. c \in Connectors /\ s \in ConnectorStates /\ o.last.ts \in Times
      BY <1>1, <3>1, OwnedFacts, PlaceFacts DEF StateType
    <3>4. t \in Times /\ clock \in Times /\ t <= clock
      BY <1>1, <1>3, <3>1 DEF StateType, Times
    <3>5. s.status = "Charging" => s.lastMeterAt \in Times
      BY <3>3, ChargingIsSession DEF Session
    <3>6. SessionOK(s, clock)
      BY <3>2, <3>4, <3>5 DEF SessionOK, Times
    <3>7. o.last.ts <= Horizon(s, clock)
      <4>1. o.last.ts <= Horizon(s, t)
        BY <3>2, RestFacts
      <4> QED
        BY <3>3, <3>4, <3>5, <4>1 DEF Horizon, Times
    <3>8. OrderOK(c, s, o, <<>>, clock)
      BY <3>7, NoOps DEF OrderOK
    <3>9. ~Before(c, v)
      <4>1. c[1] \in Nat /\ c[2] \in Nat
        BY <3>3, PlaceFacts DEF StationIds
      <4>2. c[1] >= Groups[g].first /\ Groups[g].first \in Nat
        BY <2>2, OwnedFacts DEF Stations
      <4> QED
        BY <1>2, <4>1, <4>2 DEF Before
    <3>10. /\ now'[g] = clock /\ conn'[c] = s /\ out'[c] = o
           /\ turn'[g] = v /\ work'[g] = <<>>
      BY <1>1, <1>3, <3>1 DEF StateType
    <3> QED
      BY <1>3, <1>6, <2>2, <3>2, <3>6, <3>8, <3>9, <3>10 DEF ConnInv
  <2> QED
    BY <2>1, <2>2
<1>10. n' = Cardinality(Counted')
  BY <1>3 DEF FleetInv, Counted
<1> QED
  BY <1>5, <1>7, <1>8, <1>9, <1>10 DEF FleetInv

\* A connector that has done nothing yet.
LEMMA AtStart ==
    ASSUME NEW c, NEW s, NEW o, NEW t \in Nat,
           s.status = "Available", o.last.ts = 0, o.open = <<>>
    PROVE  /\ SessionOK(s, t) /\ OrderOK(c, s, o, <<>>, t) /\ NestOK(c, s, o, <<>>)
           /\ o.status = "Available" => StatusOK(c, s, o, <<>>)
<1>1. Pending(c, <<>>) = {}
  BY NoOps
<1>2. SessionOK(s, t)
  BY DEF SessionOK
<1>3. OrderOK(c, s, o, <<>>, t)
  BY <1>1 DEF OrderOK, Horizon
<1>4. NestOK(c, s, o, <<>>)
  BY <1>1 DEF NestOK, Settled
<1>5. o.status = "Available" => StatusOK(c, s, o, <<>>)
  BY <1>1 DEF StatusOK
<1> QED
  BY <1>2, <1>3, <1>4, <1>5

\* The first status of connector boot.
LEMMA EmitFacts ==
    ASSUME FleetInv, EmitInitialStatus, NEW b, b = boot, NEW e, e = statusChange(b, 0, "Available")
    PROVE  /\ b \in Connectors /\ boot' = After(b, 1) /\ e.ts = 0 /\ 0 \in Times
           /\ UNCHANGED <<clock, cancelled, now, turn, work, returned, conn, beat, n, gauge>>
           /\ out' = IF Dropping THEN out ELSE [out EXCEPT ![b] = Hear(@, e)]
           /\ Hear(out[b], e).last = e /\ Hear(out[b], e).status = "Available"
           /\ Hear(out[b], e).open = out[b].open
<1>1. StateType /\ StationCount \in Nat
  BY PlaceFacts DEF FleetInv
<1>2. b \in Connectors
  BY <1>1 DEF StateType, EmitInitialStatus, Booted
<1>3. /\ boot' = After(b, 1)
      /\ UNCHANGED <<clock, cancelled, now, turn, work, returned, conn, beat, n, gauge>>
  BY DEF EmitInitialStatus, groupVars, fleetVars, counterVars
<1>4. e.ts = 0 /\ e.conn = b[2] /\ e.type = "STATUS_CHANGE" /\ e.status = "Available"
  BY DEF statusChange
<1>5. out' = IF Dropping THEN out ELSE [out EXCEPT ![b] = Hear(@, e)]
  <2>1. b = <<b[1], e.conn>>
    BY <1>2, <1>4, PlaceFacts
  <2> QED
    BY <2>1 DEF EmitInitialStatus, Send, Dropping
<1>6. /\ Hear(out[b], e).last = e /\ Hear(out[b], e).status = "Available"
      /\ Hear(out[b], e).open = out[b].open
  <2>1. e.type \notin SessionTypes
    BY <1>4 DEF SessionTypes, Readings
  <2> QED
    BY <1>4, <2>1, Heard
<1>7. 0 \in Times
  BY Physics DEF Times
<1> QED
  BY <1>2, <1>3, <1>4, <1>5, <1>6, <1>7

\* The first statuses: when the last is sent, all have been told.
LEMMA EmitKeeps ==
    ASSUME FleetInv, EmitInitialStatus
    PROVE  FleetInv'
<1>1. /\ StateType /\ BootInv /\ ~Booted
      /\ \A h \in GroupIds : OwnWork(h) /\ CountInv(h)
  BY DEF FleetInv, EmitInitialStatus
<1>2. PICK b : b = boot
  OBVIOUS
<1>3. PICK e : e = statusChange(b, 0, "Available")
  OBVIOUS
<1>4. /\ b \in Connectors /\ boot' = After(b, 1) /\ e.ts = 0 /\ 0 \in Times
      /\ UNCHANGED <<clock, cancelled, now, turn, work, returned, conn, beat, n, gauge>>
      /\ out' = IF Dropping THEN out ELSE [out EXCEPT ![b] = Hear(@, e)]
      /\ Hear(out[b], e).last = e /\ Hear(out[b], e).status = "Available"
      /\ Hear(out[b], e).open = out[b].open
  BY <1>2, <1>3, EmitFacts
<1>5. /\ \A g \in GroupIds : TurnOver(g) /\ work[g] = <<>>
      /\ \A c \in Connectors :
           /\ conn[c].status = "Available"
           /\ out[c].last.ts = 0 /\ out[c].open = <<>>
           /\ Before(c, b) /\ ~Dropping => out[c].status = "Available"
  BY <1>1, <1>2 DEF BootInv
<1>6. DOMAIN out = Visited /\ b \in Visited
  BY <1>1, <1>4, PlaceFacts DEF StateType
<1>7. ASSUME ~Dropping
      PROVE  /\ DOMAIN out' = Visited /\ out'[b] = Hear(out[b], e)
             /\ \A v \in Visited : v # b => out'[v] = out[v]
  BY <1>4, <1>6, <1>7
<1>8. DOMAIN out' = Visited /\ \A v \in Visited : out'[v].last.ts \in Times
  BY <1>1, <1>4, <1>6, <1>7 DEF StateType
<1>9. boot' \in Connectors \cup {<<StationCount + 1, 1>>}
  BY <1>4, NextBoot
<1>10. StateType'
  BY <1>1, <1>4, <1>8, <1>9 DEF StateType
<1>11. Dropping' <=> Dropping
  BY <1>4 DEF Dropping
<1>12. ASSUME NEW c \in Connectors
       PROVE  /\ conn'[c].status = "Available"
              /\ out'[c].last.ts = 0 /\ out'[c].open = <<>>
              /\ Before(c, boot') /\ ~Dropping => out'[c].status = "Available"
  <2>1. c \in Visited
    BY PlaceFacts
  <2>2. Before(c, boot') => Before(c, b) \/ c = b
    BY <1>4, NextBoot
  <2>3. CASE Dropping
    BY <1>4, <1>5, <2>3
  <2>4. CASE ~Dropping /\ c = b
    BY <1>4, <1>5, <1>7, <2>4
  <2>5. CASE ~Dropping /\ c # b
    BY <1>4, <1>5, <1>7, <2>1, <2>2, <2>5
  <2> QED
    BY <2>3, <2>4, <2>5
<1>13. BootInv'
  <2>1. \A g \in GroupIds : TurnOver(g)' /\ work'[g] = <<>>
    BY <1>4, <1>5 DEF TurnOver
  <2> QED
    BY <1>11, <1>12, <2>1 DEF BootInv
<1>14. \A h \in GroupIds : OwnWork(h)' /\ CountInv(h)'
  BY <1>1, <1>4, SameCount
<1>15. ASSUME NEW h \in GroupIds, NEW c \in Owned(h) PROVE ConnInv(h, c)'
  <2>1. c \in Connectors
    BY OwnedFacts
  <2>2. PICK s, o, t : s = conn'[c] /\ o = out'[c] /\ t = now'[h]
    OBVIOUS
  <2>3. t \in Nat /\ work'[h] = <<>>
    BY <1>1, <1>4, <1>5, <2>2 DEF StateType, Times
  <2>4. s.status = "Available" /\ o.last.ts = 0 /\ o.open = <<>>
    BY <1>12, <2>1, <2>2
  <2>5. Booted' /\ ~Dropping => o.status = "Available"
    <3>1. SUFFICES ASSUME Booted' PROVE Before(c, boot')
      BY <1>12, <2>1, <2>2
    <3>2. c[1] \in Nat /\ c[1] <= StationCount /\ StationCount \in Nat
      BY <2>1, PlaceFacts DEF StationIds
    <3>3. boot'[1] \in Nat
      BY <1>9, <3>2, PlaceFacts DEF StationIds
    <3> QED
      BY <3>1, <3>2, <3>3 DEF Before, Booted
  <2>6. /\ SessionOK(s, t) /\ OrderOK(c, s, o, <<>>, t) /\ NestOK(c, s, o, <<>>)
        /\ o.status = "Available" => StatusOK(c, s, o, <<>>)
    BY <2>3, <2>4, AtStart
  <2> QED
    BY <1>11, <2>2, <2>3, <2>4, <2>5, <2>6 DEF ConnInv, Charging
<1>16. n' = Cardinality(Counted')
  BY <1>4 DEF FleetInv, Counted
<1> QED
  BY <1>10, <1>13, <1>14, <1>15, <1>16 DEF FleetInv

\* The invariant holds when the simulation starts.
LEMMA InitOK ==
    ASSUME Init
    PROVE  FleetInv
<1>1. /\ clock = 0 /\ cancelled = FALSE /\ boot = <<1, 1>>
      /\ now = [g \in GroupIds |-> 0]
      /\ turn = [g \in GroupIds |-> <<Groups[g].last + 1, 0>>]
      /\ work = [g \in GroupIds |-> <<>>] /\ returned = {}
      /\ conn \in [Connectors -> {[status |-> "Available", until |-> t] : t \in IdleTimes}]
      /\ beat \in [StationIds -> BeatTimes]
      /\ out = [v \in Visited |-> Unheard] /\ n = 0 /\ gauge = 0
  BY DEF Init, Visited
<1>2. /\ IdleTimes \subseteq Nat /\ BeatTimes \subseteq Nat /\ 0 \in Times
  BY PhysicsAssumption DEF Times
<1>3. \A g \in GroupIds : <<Groups[g].last + 1, 0>> \in Places(g)
  BY DEF Places
<1>4. <<1, 1>> \in Connectors
  <2>1. 1 \in StationIds /\ 1 \in 0 .. Outlets[1]
    BY PlaceFacts DEF StationIds
  <2>2. <<1, 1>> \in Visited
    BY <2>1, PlaceFacts
  <2> QED
    BY <2>2, PlaceFacts
<1>5. ASSUME NEW c \in Connectors
      PROVE  /\ conn[c] \in [status : {"Available"}, until : Nat]
             /\ conn[c].status = "Available" /\ c \in Visited
             /\ out[c].last.ts = 0 /\ out[c].open = <<>>
  <2>1. c \in Visited
    BY PlaceFacts
  <2>2. PICK t \in IdleTimes : conn[c] = [status |-> "Available", until |-> t]
    BY <1>1
  <2>3. out[c] = Unheard
    BY <1>1, <2>1
  <2>4. Unheard.last.ts = 0 /\ Unheard.open = <<>>
    BY DEF Unheard
  <2> QED
    BY <1>2, <2>1, <2>2, <2>3, <2>4
<1>6. StateType
  <2>1. conn \in [Connectors -> ConnectorStates]
    BY <1>1, <1>5 DEF ConnectorStates
  <2>2. DOMAIN out = Visited /\ \A v \in Visited : out[v].last.ts \in Times
    BY <1>1, <1>2 DEF Unheard
  <2>3. beat \in [StationIds -> Nat] /\ now \in [GroupIds -> Times]
    BY <1>1, <1>2
  <2>4. <<>> \in Seq(Op)
    OBVIOUS
  <2>5. work \in [GroupIds -> Seq(Op)]
    BY <1>1, <2>4
  <2>6. DOMAIN turn = GroupIds /\ \A g \in GroupIds : turn[g] \in Places(g)
    BY <1>1, <1>3
  <2>7. clock \in Times /\ cancelled \in BOOLEAN /\ boot \in Connectors /\ returned \subseteq GroupIds
    BY <1>1, <1>2, <1>4
  <2> QED
    BY <1>1, <2>1, <2>2, <2>3, <2>5, <2>6, <2>7 DEF StateType
<1>7. ASSUME NEW c \in Connectors PROVE ~Before(c, boot)
  <2>1. c[1] \in Nat \ {0} /\ c[2] \in Nat \ {0}
    BY <1>5, PlaceFacts DEF StationIds
  <2> QED
    BY <1>1, <2>1 DEF Before
<1>8. ~Booted
  BY <1>1, PlaceFacts DEF Booted
<1>9. \A g \in GroupIds : TurnOver(g) /\ work[g] = <<>>
  <2> SUFFICES ASSUME NEW g \in GroupIds PROVE TurnOver(g) /\ work[g] = <<>>
    OBVIOUS
  <2>1. Groups[g].last \in Nat
    BY OwnedFacts
  <2> QED
    BY <1>1, <2>1 DEF TurnOver
<1>10. BootInv
  BY <1>5, <1>7, <1>9 DEF BootInv
<1>11. \A g \in GroupIds : OwnWork(g) /\ CountInv(g)
  <2>1. Len(<<>>) = 0
    OBVIOUS
  <2> QED
    BY <1>9, <2>1 DEF OwnWork, CountInv, Counting
<1>12. ASSUME NEW g \in GroupIds, NEW c \in Owned(g) PROVE ConnInv(g, c)
  <2>1. c \in Connectors
    BY OwnedFacts
  <2>2. PICK s, o, t : s = conn[c] /\ o = out[c] /\ t = now[g]
    OBVIOUS
  <2>3. t \in Nat /\ work[g] = <<>>
    BY <1>1, <1>9, <2>2
  <2>4. s.status = "Available" /\ o.last.ts = 0 /\ o.open = <<>>
    BY <1>5, <2>1, <2>2
  <2>5. SessionOK(s, t) /\ OrderOK(c, s, o, <<>>, t) /\ NestOK(c, s, o, <<>>)
    BY <2>3, <2>4, AtStart
  <2> QED
    BY <1>8, <2>2, <2>3, <2>4, <2>5 DEF ConnInv, Charging
<1>13. n = Cardinality(Counted)
  <2>1. ASSUME NEW c \in Connectors PROVE ~Counts(c, conn[c], work[Owner(c[1])])
    <3>1. work[Owner(c[1])] = <<>>
      BY <1>9, OneOwner
    <3>2. Counts(c, conn[c], <<>>) <=> conn[c].status = "Charging"
      BY NoOps, CountsAtRest
    <3> QED
      BY <1>5, <3>1, <3>2
  <2>2. Counted = {}
    BY <2>1 DEF Counted
  <2> QED
    BY <1>1, <2>2, FS_EmptySet
<1> QED
  BY <1>6, <1>10, <1>11, <1>12, <1>13 DEF FleetInv

----------------------------------------------------------------------------
(* The theorems *)

\* Every step keeps the invariant.
LEMMA NextOK ==
    ASSUME FleetInv, [Next]_vars
    PROVE  FleetInv'
<1>1. StateType /\ MaxTime \in Nat
  BY Physics DEF FleetInv
<1>2. CASE EmitInitialStatus
  BY <1>2, EmitKeeps
<1>3. ASSUME NEW g \in GroupIds, GroupStep(g) PROVE FleetInv'
  <2>1. CASE Tick(g)
    BY <2>1, TickKeeps
  <2>2. CASE VisitNext(g)
    <3>1. VisitStep(g)
      BY <2>2, VisitCases
    <3>2. StateType' /\ BootInv'
      BY <3>1, VisitKeepsType
    <3>3. (\A h \in GroupIds : OwnWork(h)' /\ CountInv(h)') /\ n' = Cardinality(Counted')
      BY <3>1, VisitKeepsCount
    <3>4. \A h \in GroupIds : \A c \in Owned(h) : ConnInv(h, c)'
      BY <3>1, VisitKeepsConn
    <3> QED
      BY <3>2, <3>3, <3>4 DEF FleetInv
  <2>3. CASE SendNext(g)
    BY <2>3, SendKeeps
  <2>4. CASE AddInt64(g)
    BY <2>4, AddIntKeeps
  <2>5. CASE SetGauge(g)
    BY <2>5, SetGaugeKeeps
  <2> QED
    BY <1>3, <2>1, <2>2, <2>3, <2>4, <2>5 DEF GroupStep
<1>4. ASSUME NEW g \in GroupIds, Return(g) PROVE FleetInv'
  BY <1>1, <1>4, IdleKeeps DEF Return, fleetVars, counterVars, StateType
<1>5. CASE Advance
  <2>1. clock' \in Times
    BY <1>1, <1>5 DEF Advance, StateType, Times
  <2> QED
    BY <1>1, <1>5, <2>1, IdleKeeps DEF Advance, groupVars, fleetVars, counterVars, StateType
<1>6. CASE Cancel
  BY <1>1, <1>6, IdleKeeps DEF Cancel, groupVars, fleetVars, counterVars, StateType
<1>7. CASE UNCHANGED vars
  BY <1>1, <1>7, IdleKeeps DEF vars, groupVars, fleetVars, counterVars, StateType
<1> QED
  BY <1>2, <1>3, <1>4, <1>5, <1>6, <1>7 DEF Next, Wait

\* For any roster and number of groups, what each group has done and has still to
\* do fits its connectors, what was sent of them and the shared counter.
THEOREM FleetInvariant == Spec => []FleetInv
<1>1. Init => FleetInv
  BY InitOK
<1>2. FleetInv /\ [Next]_vars => FleetInv'
  BY NextOK
<1> QED
  BY <1>1, <1>2, PTL DEF Spec

\* The types of the simulation, its connectors and its groups' work.
THEOREM FleetTypeCorrect == Spec => []TypeOK
<1>1. FleetInv => TypeOK
  <2> SUFFICES ASSUME FleetInv PROVE TypeOK
    OBVIOUS
  <2>1. StateType
    BY DEF FleetInv
  <2>2. ASSUME NEW g \in GroupIds
        PROVE  /\ turn[g] \in Nat \X Nat
               /\ \A i \in DOMAIN work[g] : work[g][i].op \in {"send", "count", "set"}
    <3>1. turn[g] \in Places(g)
      BY <2>1 DEF StateType
    <3>2. \A v \in Visited : v \in Nat \X Nat
      BY PlaceFacts DEF StationIds
    <3>3. Groups[g].last \in Nat
      BY OwnedFacts
    <3>4. turn[g] \in Nat \X Nat
      BY <3>1, <3>2, <3>3 DEF Places
    <3>5. work[g] \in Seq(Op)
      BY <2>1 DEF StateType
    <3>6. \A i \in DOMAIN work[g] : work[g][i] \in Op
      BY <3>5
    <3> QED
      BY <3>4, <3>6 DEF Op
  <2> QED
    BY <2>1, <2>2 DEF StateType, TypeOK
<1> QED
  BY <1>1, FleetInvariant, PTL

\* A reader of the sent status changes knows each connector's state once the visit
\* is over, as long as shutdown has dropped nothing: every path of stepGroup that
\* changes a status sends it.
THEOREM StatusesTold == Spec => []StatusAnnounced
<1>1. FleetInv => StatusAnnounced
  <2> SUFFICES ASSUME FleetInv, NEW c \in Connectors, ~cancelled, Booted, work[Owner(c[1])] = <<>>
               PROVE  out[c].status = conn[c].status
    BY DEF StatusAnnounced
  <2>1. ConnInv(Owner(c[1]), c)
    BY OneOwner DEF FleetInv
  <2>2. StatusOK(c, conn[c], out[c], <<>>)
    BY <2>1 DEF ConnInv, Dropping
  <2> QED
    BY <2>2, RestFacts
<1> QED
  BY <1>1, FleetInvariant, PTL

\* The shared counter is never negative and exact when all is done, for any
\* interleaving of the groups' updates.
THEOREM CounterIsExact == Spec => []CounterExact
<1>1. FleetInv => CounterExact
  <2> SUFFICES ASSUME FleetInv PROVE CounterExact
    OBVIOUS
  <2>1. n = Cardinality(Counted)
    BY DEF FleetInv
  <2>2. IsFiniteSet(Counted)
    BY FiniteFleet, FS_Subset DEF Counted
  <2>3. n \in Nat
    BY <2>1, <2>2, FS_CardinalityType
  <2>4. ASSUME AtRest PROVE Counted = {c \in Connectors : Charging(c)}
    <3>1. ASSUME NEW c \in Connectors
          PROVE  Counts(c, conn[c], work[Owner(c[1])]) <=> Charging(c)
      <4>1. work[Owner(c[1])] = <<>>
        BY <2>4, OneOwner DEF AtRest
      <4>2. Counts(c, conn[c], <<>>) <=> conn[c].status = "Charging"
        BY NoOps, CountsAtRest
      <4> QED
        BY <4>1, <4>2 DEF Charging
    <3> QED
      BY <3>1 DEF Counted
  <2> QED
    BY <2>1, <2>3, <2>4 DEF CounterExact
<1> QED
  BY <1>1, FleetInvariant, PTL

\* A tick stops every session of the group whose planned end it has passed, so
\* none is overdue when the tick is over.
THEOREM NoneOverdue == Spec => []NoOverdueSession
<1>1. FleetInv => NoOverdueSession
  <2> SUFFICES ASSUME FleetInv, NEW c \in Connectors, NEW g, g = Owner(c[1]),
                      TurnOver(g), Charging(c)
               PROVE  conn[c].endsAt >= now[g]
    BY DEF NoOverdueSession
  <2>1. g \in GroupIds /\ c \in Owned(g)
    BY OneOwner
  <2>2. ConnInv(g, c) /\ StateType
    BY <2>1 DEF FleetInv
  <2>3. Before(c, turn[g])
    <3>1. turn[g] \in Places(g)
      BY <2>1, <2>2 DEF StateType
    <3>2. /\ Groups[g].last \in Nat /\ c[1] \in Nat /\ c[1] <= Groups[g].last
      BY <2>1, OwnedFacts, PlaceFacts DEF Stations, StationIds
    <3>3. turn[g][1] \in Nat
      BY <3>1, <3>2, PlaceFacts DEF Places, StationIds
    <3> QED
      BY <3>2, <3>3 DEF Before, TurnOver
  <2> QED
    BY <2>2, <2>3 DEF ConnInv
<1> QED
  BY <1>1, FleetInvariant, PTL

\* An event leaves no earlier than the one before it, and the events of a session
\* fit the session that the reader knows.
LEMMA SentInOrder ==
    ASSUME FleetInv, [Next]_vars, NEW c \in Connectors, Sends(c),
           NEW o, o = out[c], NEW e, e = out'[c].last
    PROVE  /\ e.ts >= o.last.ts /\ e.ts \in Times /\ o.last.ts \in Times
           /\ e.type \in SessionTypes => Fits(conn[c], o, e)
<1>1. StateType /\ c \in Visited /\ DOMAIN out = Visited /\ o.last.ts \in Times
  BY PlaceFacts DEF FleetInv, StateType
<1>2. CASE EmitInitialStatus
  <2>1. PICK b, f : b = boot /\ f = statusChange(b, 0, "Available")
    OBVIOUS
  <2>2. /\ f.ts = 0 /\ 0 \in Times
        /\ out' = IF Dropping THEN out ELSE [out EXCEPT ![b] = Hear(@, f)]
        /\ Hear(out[b], f).last = f
    BY <1>2, <2>1, EmitFacts
  <2>3. c = b /\ out'[c] = Hear(out[b], f)
    BY <1>1, <2>2 DEF Sends
  <2>4. e = f
    BY <2>2, <2>3
  <2>5. f.type \notin SessionTypes
    BY <2>1 DEF statusChange, SessionTypes, Readings
  <2>6. o.last.ts = 0
    BY <1>2 DEF FleetInv, BootInv, EmitInitialStatus
  <2> QED
    BY <1>1, <2>2, <2>4, <2>5, <2>6
<1>3. ASSUME NEW g \in GroupIds, SendNext(g)
      PROVE  /\ e.ts >= o.last.ts /\ e.ts \in Times
             /\ e.type \in SessionTypes => Fits(conn[c], o, e)
  <2>1. PICK w : w = work[g]
    OBVIOUS
  <2>2. PICK f : f = w[1].event
    OBVIOUS
  <2>3. PICK a : a = <<w[1].station, f.conn>>
    OBVIOUS
  <2>4. /\ f.ts \in Times /\ a[1] \in Stations(g)
        /\ 1 \in Pending(c, w) <=> c = a
        /\ out' = IF Dropping THEN out ELSE [out EXCEPT ![a] = Hear(@, f)]
    BY <1>1, <1>3, <2>1, <2>2, <2>3, SendFacts
  <2>5. ~Dropping /\ c = a /\ out'[c] = Hear(o, f)
    BY <1>1, <2>4 DEF Sends
  <2>6. e = f /\ 1 \in Pending(c, w)
    BY <2>4, <2>5, Heard
  <2>7. c \in Owned(g)
    BY <2>4, <2>5, OwnedFacts
  <2>8. ConnInv(g, c)
    BY <2>7 DEF FleetInv
  <2>9. OrderOK(c, conn[c], o, w, now[g]) /\ NestOK(c, conn[c], o, w)
    BY <2>1, <2>5, <2>8 DEF ConnInv
  <2>10. o.last.ts <= e.ts
    BY <2>2, <2>6, <2>9 DEF OrderOK
  <2>11. e.type \in SessionTypes => Fits(conn[c], o, e)
    BY <2>2, <2>6, <2>9 DEF NestOK
  <2> QED
    BY <1>1, <2>4, <2>6, <2>10, <2>11 DEF Times
<1>4. ASSUME UNCHANGED out PROVE FALSE
  BY <1>4 DEF Sends
<1>5. ASSUME NEW g \in GroupIds, GroupStep(g), ~SendNext(g) PROVE UNCHANGED out
  BY <1>5 DEF GroupStep, Tick, VisitNext, Pass, Heartbeat, Recover, FaultWhenIdle, startSession,
              FaultWhenCharging, stopSession, meterTick, Visit, AddInt64, SetGauge
<1>6. ASSUME (\E g \in GroupIds : Return(g)) \/ Advance \/ Cancel \/ Wait \/ UNCHANGED vars
      PROVE  UNCHANGED out
  BY <1>6 DEF Return, Advance, Cancel, Wait, vars
<1> QED
  BY <1>1, <1>2, <1>3, <1>4, <1>5, <1>6 DEF Next

\* A connector's events leave in the order of their timestamps, although stopSession
\* stamps a stop with a time before its tick.
THEOREM EventsInTimeOrder == Spec => TimesInOrder
<1>1. FleetInv /\ [Next]_vars =>
        [\A c \in Connectors : Sends(c) => out'[c].last.ts >= out[c].last.ts]_vars
  BY SentInOrder
<1> QED
  BY <1>1, FleetInvariant, PTL DEF Spec, TimesInOrder

\* The sessions of a connector nest for a reader of its events, faults included.
THEOREM SessionsDoNest == Spec => SessionsNest
<1> DEFINE Nests(c) ==
      LET e == out'[c].last IN
      /\ e.type = "SESSION_START" => out[c].open = <<>>
      /\ e.type \in {"METER_UPDATE", "SESSION_STOP"} =>
           out[c].open # <<>> /\ out[c].open[1].session = e.session
<1>1. ASSUME FleetInv, [Next]_vars, NEW c \in Connectors, Sends(c) PROVE Nests(c)
  <2>1. PICK o, e : o = out[c] /\ e = out'[c].last
    OBVIOUS
  <2>2. e.type \in SessionTypes => Fits(conn[c], o, e)
    BY <1>1, <2>1, SentInOrder
  <2>3. e.type = "SESSION_START" => o.open = <<>>
    BY <2>2 DEF Fits, SessionTypes, Readings
  <2>4. e.type = "METER_UPDATE" => o.open # <<>> /\ o.open[1].session = e.session
    BY <2>2 DEF Fits, SessionTypes, Readings, Tally
  <2>5. e.type = "SESSION_STOP" => o.open # <<>> /\ o.open[1].session = e.session
    BY <2>2 DEF Fits, SessionTypes
  <2> QED
    BY <2>1, <2>3, <2>4, <2>5
<1>2. FleetInv /\ [Next]_vars => [\A c \in Connectors : Sends(c) => Nests(c)]_vars
  BY <1>1
<1> QED
  BY <1>2, FleetInvariant, PTL DEF Spec, SessionsNest

\* The energy of a stop is that of the whole session: stopSession adds what came
\* after the last reading, and no path counts an interval twice.  Its price is that of
\* the tariff the start announced at the time the stop carries.
THEOREM StopsBillInFull == Spec => BilledInFull
<1> DEFINE Billed(c) ==
      LET stop == out'[c].last
          start == out[c].open[1]
          full == Fast * (stop.ts - start.ts)
      IN /\ out[c].open[2].energy <= stop.energy
         /\ stop.energy <= full
         /\ start.soc + full <= TaperAt => stop.energy = full
         /\ Priced(start, stop)
<1>1. ASSUME FleetInv, [Next]_vars, NEW c \in Connectors, Sends(c),
             out'[c].last.type = "SESSION_STOP"
      PROVE  Billed(c)
  <2>1. PICK o, e : o = out[c] /\ e = out'[c].last
    OBVIOUS
  <2>2. Fits(conn[c], o, e) /\ e.type = "SESSION_STOP"
    BY <1>1, <2>1, SentInOrder DEF SessionTypes
  <2>3. LET full == Fast * (e.ts - o.open[1].ts) IN
        /\ o.open[2].energy <= e.energy /\ e.energy <= full
        /\ o.open[1].soc + full <= TaperAt => e.energy = full
        /\ Priced(o.open[1], e)
    BY <2>2 DEF Fits
  <2> QED
    BY <2>1, <2>3
<1>2. FleetInv /\ [Next]_vars =>
        [\A c \in Connectors : (Sends(c) /\ out'[c].last.type = "SESSION_STOP") => Billed(c)]_vars
  BY <1>1
<1> QED
  BY <1>2, FleetInvariant, PTL DEF Spec, BilledInFull
=============================================================================
