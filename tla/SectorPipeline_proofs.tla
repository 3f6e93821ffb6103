------------------------ MODULE SectorPipeline_proofs -------------------------
(*****************************************************************************)
(* Proofs about the Sector scripts: what the radar stored and remembered,    *)
(* what an output cites, and what the Risk Manager is shown of an asset.     *)
(*                                                                           *)
(* The radar's part rests on identities: two events that the radar detects   *)
(* in one run never share one, so that the insertion, which skips an         *)
(* identity that is there, stores each of them.  It is a fact about how each *)
(* kind of event is identified and about the snapshots a run reads: those of *)
(* a sector that has one, of one date.  What reads a radar's database reads  *)
(* one that no longer changes, because its run has ended.                    *)
(*****************************************************************************)
EXTENDS SectorPipeline, SequenceTheorems, FiniteSetTheorems, TLAPS

-------------------------------------------------------------------------------
(* The identity of an event                                                  *)

\* Of the events of a set no two share an identity.
OneEach(events) == \A e, f \in events : e.id = f.id => e = f

LEMMA EventIs ==
  ASSUME NEW e
  PROVE  /\ Event(e).id = EventId(e)
         /\ \A f \in DOMAIN e \ {"id"} : Event(e)[f] = e[f]
  BY DEF Event

LEMMA PriceEventIs ==
  ASSUME NEW sector, NEW asset, NEW last, NEW memberships, NEW cutoff
  PROVE  LET e == PriceEvent(sector, asset, last, memberships, cutoff)
         IN  /\ e.id = <<"price_volume", sector, AssetChains(asset, memberships), {asset},
                         {asset}, Midnight(last.day), {<<"bar", asset, last.day>>}>>
             /\ e.sector = sector /\ e.sources = {asset}
BY EventIs DEF PriceEvent, EventId

LEMMA StateEventIs ==
  ASSUME NEW type, NEW sector, NEW severity, NEW time, NEW cutoff, NEW evidence
  PROVE  LET e == StateEvent(type, sector, severity, time, cutoff, evidence)
         IN  /\ e.id = <<type, sector, {}, {}, {}, time, evidence>>
             /\ e.chains = {} /\ e.sources = {}
BY EventIs DEF StateEvent, EventId

LEMMA CandidateIs ==
  ASSUME NEW e, NEW chains, NEW affected, NEW cutoff
  PROVE  Candidate(e, chains, affected, cutoff).id
           = <<"propagation", e.sector, chains, e.sources, affected, e.time, e.evidence>>
BY EventIs DEF Candidate, EventId

\* An event without chains and assets is propagated to no one.
LEMMA SectorEventsStay ==
  ASSUME NEW e, e.chains = {}, e.sources = {}, NEW memberships, NEW connections, NEW cutoff
  PROVE  PropagationOf(e, memberships, connections, cutoff) = {}
BY DEF PropagationOf

\* What the radar detects of a sector of which it is told prices and macro series.
PriceAt(state, bars, memberships, cutoff, a) ==
  PriceEvent(state.sector, a, LastBar(bars, a), memberships, cutoff)

Breadth(state, cutoff) ==
  StateEvent("breadth", state.sector, "medium", cutoff, cutoff,
             {<<"state", state.sector, state.asOf>>})

Signals(macro) == UNION {macro.cycle[d].signals : d \in DOMAIN macro.cycle}

LEMMA BaseIs ==
  ASSUME NEW state, NEW macro, NEW bars, NEW memberships, NEW cutoff,
         NEW e \in BaseEvents(state, macro, bars, {}, {}, memberships, cutoff)
  PROVE  \/ \E a : e = PriceAt(state, bars, memberships, cutoff, a)
         \/ e = Breadth(state, cutoff)
         \/ \E s \in Signals(macro) : e = MacroEvent(macro, s, cutoff)
<1>1. CASE e \in PriceEvents(state, bars, memberships, cutoff)
  BY <1>1 DEF PriceEvents, PriceAt
<1>2. CASE e \in BreadthEvents(state, cutoff)
  BY <1>2 DEF BreadthEvents, Breadth
<1>3. CASE e \in MacroEvents(macro, cutoff)
  BY <1>3 DEF MacroEvents, Signals
<1>4. CorporateEvents(state, {}, memberships, cutoff) = {}
  BY DEF CorporateEvents
<1>5. NewsEvents(state, {}, memberships, cutoff) = {}
  BY DEF NewsEvents
<1> QED
  BY <1>1, <1>2, <1>3, <1>4, <1>5 DEF BaseEvents

LEMMA DetectedIs ==
  ASSUME NEW state, NEW macro, NEW bars, NEW memberships, NEW nodes, NEW edges, NEW cutoff,
         NEW e \in Detect(state, macro, bars, {}, {}, memberships, nodes, edges, cutoff)
  PROVE  \/ \E a : e = PriceAt(state, bars, memberships, cutoff, a)
         \/ e = Breadth(state, cutoff)
         \/ \E s \in Signals(macro) : e = MacroEvent(macro, s, cutoff)
         \/ \E a, chains, affected :
              e = Candidate(PriceAt(state, bars, memberships, cutoff, a), chains, affected,
                            cutoff)
<1> DEFINE base == BaseEvents(state, macro, bars, {}, {}, memberships, cutoff)
           connections == Connections(nodes, edges)
<1>1. CASE e \in base
  BY <1>1, BaseIs
<1>2. ASSUME NEW b \in base, e \in PropagationOf(b, memberships, connections, cutoff)
      PROVE  \E a, chains, affected :
               e = Candidate(PriceAt(state, bars, memberships, cutoff, a), chains, affected,
                             cutoff)
  <2>1. PICK chains, affected : e = Candidate(b, chains, affected, cutoff)
    BY <1>2 DEF PropagationOf
  <2>2. ~(b.chains = {} /\ b.sources = {})
    BY <1>2, SectorEventsStay
  <2>3. \E a : b = PriceAt(state, bars, memberships, cutoff, a)
    <3>1. b # Breadth(state, cutoff)
      BY <2>2, StateEventIs DEF Breadth
    <3>2. \A s : b # MacroEvent(macro, s, cutoff)
      BY <2>2, StateEventIs DEF MacroEvent
    <3> QED  BY <3>1, <3>2, BaseIs
  <2> QED
    BY <2>1, <2>3
<1> QED
  BY <1>1, <1>2 DEF Detect

LEMMA DetectedHaveIds ==
  ASSUME NEW state, NEW macro, NEW bars, NEW memberships, NEW nodes, NEW edges, NEW cutoff,
         \A s, t \in Signals(macro) : s.series = t.series => s = t
  PROVE  OneEach(Detect(state, macro, bars, {}, {}, memberships, nodes, edges, cutoff))
<1> DEFINE Price(a) == PriceAt(state, bars, memberships, cutoff, a)
<1>1. ASSUME NEW a, NEW b, Price(a).id = Price(b).id  PROVE a = b
  BY <1>1, PriceEventIs DEF PriceAt
<1>2. ASSUME NEW s \in Signals(macro), NEW t \in Signals(macro),
             MacroEvent(macro, s, cutoff).id = MacroEvent(macro, t, cutoff).id
      PROVE  s = t
  <2>1. {<<"macro", macro.sector, macro.asOf>>, <<"series", s.series, s.day>>}
          = {<<"macro", macro.sector, macro.asOf>>, <<"series", t.series, t.day>>}
    BY <1>2, StateEventIs DEF MacroEvent
  <2>2. <<"series", s.series, s.day>> # <<"macro", macro.sector, macro.asOf>>
    OBVIOUS
  <2>3. <<"series", s.series, s.day>> = <<"series", t.series, t.day>>
    BY <2>1, <2>2
  <2> QED  BY <2>3
<1>3. ASSUME NEW a, NEW b, NEW c1, NEW c2, NEW d1, NEW d2,
             Candidate(Price(a), c1, d1, cutoff).id = Candidate(Price(b), c2, d2, cutoff).id
      PROVE  a = b /\ c1 = c2 /\ d1 = d2
  <2>1. Price(a).sources = {a} /\ Price(b).sources = {b}
    BY PriceEventIs DEF PriceAt
  <2>2. Price(a).sources = Price(b).sources /\ c1 = c2 /\ d1 = d2
    BY <1>3, CandidateIs
  <2> QED  BY <2>1, <2>2
<1>4. \A a : Price(a).id[1] = "price_volume"
  BY PriceEventIs DEF PriceAt
<1>5. Breadth(state, cutoff).id[1] = "breadth"
  BY StateEventIs DEF Breadth
<1>6. \A s : MacroEvent(macro, s, cutoff).id[1] = "macro_shock"
  BY StateEventIs DEF MacroEvent
<1>7. \A a, chains, affected : Candidate(Price(a), chains, affected, cutoff).id[1] = "propagation"
  BY CandidateIs
<1> HIDE DEF Price
<1> QED
  BY <1>1, <1>2, <1>3, <1>4, <1>5, <1>6, <1>7, DetectedIs DEF OneEach, Price

\* The second part of an identity is the sector.
LEMMA DetectedOfSector ==
  ASSUME NEW state, NEW macro, NEW bars, NEW memberships, NEW nodes, NEW edges, NEW cutoff,
         state.sector = macro.sector,
         NEW e \in Detect(state, macro, bars, {}, {}, memberships, nodes, edges, cutoff)
  PROVE  e.id[2] = state.sector
<1>1. \A a : /\ PriceAt(state, bars, memberships, cutoff, a).id[2] = state.sector
             /\ PriceAt(state, bars, memberships, cutoff, a).sector = state.sector
  BY PriceEventIs DEF PriceAt
<1>2. Breadth(state, cutoff).id[2] = state.sector
  BY StateEventIs DEF Breadth
<1>3. \A s : MacroEvent(macro, s, cutoff).id[2] = state.sector
  BY StateEventIs DEF MacroEvent
<1>4. \A a, chains, affected :
        Candidate(PriceAt(state, bars, memberships, cutoff, a), chains, affected, cutoff).id[2]
          = state.sector
  BY <1>1, CandidateIs
<1> QED
  BY <1>1, <1>2, <1>3, <1>4, DetectedIs

-------------------------------------------------------------------------------
(* Databases                                                                 *)

Tables(db) ==
  {"nodes", "edges", "memberships", "scopes", "benchmarks", "universes", "states", "macros",
   "events", "links"} \subseteq DOMAIN db

LEMMA SeedTablesAre ==
  Tables(SeedTables) /\ SeedTables.events = {} /\ SeedTables.links = {}
BY DEF SeedTables, InstallSeed, EmptyTables, Tables

LEMMA ResearchUniverseIs ==
  ASSUME NEW bars, NEW date  PROVE Tables(ResearchUniverse(bars, date))
BY SeedTablesAre DEF ResearchUniverse, AddMemberships, AddBenchmarks, Tables

LEMMA SavedIs ==
  ASSUME NEW db, Tables(db), NEW e
  PROVE  /\ Tables(SaveEvent(db, e))
         /\ SaveEvent(db, e).events = InsertNew(db.events, {e}, {"id"})
         /\ SaveEvent(db, e).links
              = db.links \union {<<e.id, s>> : s \in RequestedScopes(db, e)}
BY DEF SaveEvent, Tables

LEMMA StateIs ==
  ASSUME NEW universe, NEW bars, NEW filings
  PROVE  /\ ComputeState(universe, bars, filings).sector = universe.sector
         /\ ComputeState(universe, bars, filings).asOf = universe.asOf
BY DEF ComputeState

LEMMA MacroIs ==
  ASSUME NEW universe, NEW state, NEW bars, NEW observations
  PROVE  LET m == ComputeMacro(universe, state, bars, observations)
         IN  /\ m.sector = universe.sector /\ m.asOf = universe.asOf
             /\ \A s, t \in Signals(m) : s.series = t.series => s = t
<1> DEFINE m == ComputeMacro(universe, state, bars, observations)
           At(x) == CycleSignal(observations, x)
           signals == [x \in Series |-> At(x)]
<1>1. \A x : At(x) # None => At(x).series = x
  BY DEF CycleSignal
<1>2. m.sector = universe.sector /\ m.asOf = universe.asOf
  BY DEF ComputeMacro
<1>3. m.cycle = [d \in DOMAIN Dimensions |->
                  DimensionState({signals[s] : s \in {x \in Dimensions[d] : signals[x] # None}},
                                 Cardinality(Dimensions[d]))]
  BY DEF ComputeMacro
<1>4. \A seen, n : DimensionState(seen, n).signals = seen
  BY DEF DimensionState
<1>5. ASSUME NEW s \in Signals(m)
      PROVE  s # None /\ \E x : s = At(x)
  <2>1. PICK d \in DOMAIN Dimensions : s \in m.cycle[d].signals
    BY <1>3, <1>5 DEF Signals
  <2>2. m.cycle[d].signals = {signals[x] : x \in {y \in Dimensions[d] : signals[y] # None}}
    BY <1>3, <1>4
  <2>3. Dimensions[d] \subseteq Series
    BY DEF Series
  <2> QED  BY <2>1, <2>2, <2>3
<1> HIDE DEF m, At
<1>6. ASSUME NEW s \in Signals(m), NEW t \in Signals(m), s.series = t.series  PROVE s = t
  BY <1>1, <1>5, <1>6
<1> QED
  BY <1>2, <1>6 DEF m

\* The newest snapshot of a sector in a table whose rows are all of one date.
LEMMA LatestIs ==
  ASSUME NEW table, NEW sector, NEW date \in Int, \A t \in table : t.asOf = date,
         \E t \in table : t.sector = sector
  PROVE  Latest(table, sector, date) \in table /\ Latest(table, sector, date).sector = sector
<1> DEFINE known == {s \in table : s.sector = sector /\ s.asOf <= date}
<1>1. known # {}
  OBVIOUS
<1>2. \E s \in known : \A k \in known : k.asOf <= s.asOf
  BY <1>1
<1>3. Latest(table, sector, date) = CHOOSE s \in known : \A k \in known : k.asOf <= s.asOf
  BY <1>1 DEF Latest
<1> HIDE DEF known
<1>4. Latest(table, sector, date) \in known
  BY <1>2, <1>3
<1> QED
  BY <1>4 DEF known
-------------------------------------------------------------------------------
(* The runs                                                                  *)

\* The databases of a run hold a snapshot of every sector, of the date of its cutoff.
StateWhole(s) ==
  /\ s.clock \in Clocks
  /\ \A x \in ToSet(Sectors) :
       (\E u \in s.db.universes : u.sector = x) /\ (\E t \in s.db.states : t.sector = x)
  /\ \A u \in s.db.universes \union s.db.states : u.asOf = Cutoff(s)

MacroWhole(m) ==
  /\ m.clock \in Clocks
  /\ \A x \in ToSet(Sectors) : \E t \in m.db.macros : t.sector = x
  /\ \A t \in m.db.macros :
       /\ t.asOf = Cutoff(m)
       /\ \A p, q \in Signals(t) : p.series = q.series => p = q

Remembered(r) == {<<m.event, m.scope>> : m \in r.memories}
Owed(r) == {<<r.event.id, s>> : s \in r.scopes}

\* Every event of the plan is stored or left, and every link remembered or owed.
RadarWhole(r) ==
  /\ {"db", "memories", "event", "scopes", "plan", "left", "detects", "status"}
        \subseteq DOMAIN r
  /\ Tables(r.db)
  /\ OneEach(r.plan)
  /\ r.left \subseteq r.plan /\ r.db.events \union r.left = r.plan
  /\ IsFiniteSet(r.db.events)
  /\ {l[1] : l \in r.db.links} = {e.id : e \in r.db.events}
  /\ r.db.links = Remembered(r) \union Owed(r)
  /\ r.status = "complete" => r.left = {} /\ r.scopes = {}

Listing(s) == s = [i \in 1..Len(s) |-> s[i]] /\ Len(s) \in Nat

PlanIInv ==
  /\ \A s \in states : StateWhole(s)
  /\ \A m \in macros : MacroWhole(m)
  /\ Listing(radars)
  /\ \A n \in DOMAIN radars : RadarWhole(radars[n])

\* What was made of a radar run was made when the run had ended.
OutputWhole(o) ==
  /\ o.radar \in DOMAIN radars /\ ~Running(o.radar)
  /\ \A e \in Mandatory(Seen(o)) :
       \E n \in DOMAIN o.output.claims : EventRef(e) \in o.output.claims[n].cites

ContextWhole(c) ==
  /\ c.radar \in DOMAIN radars /\ ~Running(c.radar)
  /\ \A e \in Mandatory(AnomaliesForScope(
             radars[c.radar].db, Scope[c.bundle.sector], c.clock.at)) :
       \/ e.chains = {}
       \/ e.chains \intersect c.bundle.chains # {}
       \/ c.bundle.asset \in e.sources \union e.affected
       => LET shown == ForRole(c.bundle, "risk")
           IN  \E r \in shown.events : /\ r.event = e.id
                                      /\ r.claims \intersect shown.validated # {}

IInv ==
  /\ PlanIInv
  /\ \A o \in outputs : OutputWhole(o)
  /\ \A c \in contexts : ContextWhole(c)

LEMMA CutoffIsInt ==
  ASSUME NEW c \in Clocks  PROVE Day(c.at) \in Int
BY PipelineAssumption DEF Day

LEMMA RunStateKeeps ==
  ASSUME PlanIInv, NEW clock \in Clocks, RunState(clock)
  PROVE  \A s \in states' : StateWhole(s)
<1> DEFINE bars == FetchedBars(clock, now)
           filings == FetchedFilings(clock, now)
           db == ResearchUniverse(bars, Day(clock.at))
           Uni(x) == Universe(db, x, Day(clock.at), CuratedVersion)
           universes == {Uni(x) : x \in ToSet(Sectors)}
           new == {ComputeState(u, bars, filings) : u \in universes}
           run == [clock |-> clock, at |-> now,
                   db |-> [db EXCEPT !.universes = universes, !.states = new]]
<1>1. states' = states \union {run}
  BY DEF RunState
<1>2. Tables(db)
  BY ResearchUniverseIs
<1>3. run.db.universes = universes /\ run.db.states = new /\ run.clock = clock
  BY <1>2 DEF Tables
<1>4. \A x : Uni(x).sector = x /\ Uni(x).asOf = Day(clock.at)
  BY DEF Universe
<1> HIDE DEF bars, filings, db, Uni
<1>5. \A t \in new : \E u \in universes : t.sector = u.sector /\ t.asOf = u.asOf
  BY StateIs
<1>6. \A u \in universes : \E t \in new : t.sector = u.sector
  BY StateIs
<1>7. \A u \in universes : u.asOf = Day(clock.at)
  BY <1>4
<1>8. \A x \in ToSet(Sectors) : \E u \in universes : u.sector = x
  BY <1>4
<1> HIDE DEF universes, new, run
<1>9. StateWhole(run)
  BY <1>3, <1>5, <1>6, <1>7, <1>8 DEF StateWhole, Cutoff
<1> QED
  BY <1>1, <1>9 DEF PlanIInv

LEMMA RunMacroKeeps ==
  ASSUME PlanIInv, NEW clock \in Clocks, NEW state \in states, RunMacro(state, clock)
  PROVE  \A m \in macros' : MacroWhole(m)
<1> DEFINE observations == FetchedObservations(clock, now)
           Of(u) == {b \in FetchedBars(clock, now) : b.asset = u.benchmarks[1]}
           New(u) == ComputeMacro(u, StateOf(state, u.sector), Of(u), observations)
           new == {New(u) : u \in state.db.universes}
           run == [clock |-> clock, at |-> now,
                   db |-> [SeedTables EXCEPT !.universes = state.db.universes,
                                             !.states = state.db.states,
                                             !.macros = new]]
<1>1. macros' = macros \union {run} /\ Day(clock.at) = Cutoff(state)
  BY DEF RunMacro
<1>2. run.db.macros = new /\ run.clock = clock
  BY SeedTablesAre DEF Tables
<1>3. StateWhole(state)
  BY DEF PlanIInv
<1>4. \A u : /\ New(u).sector = u.sector /\ New(u).asOf = u.asOf
             /\ \A p, q \in Signals(New(u)) : p.series = q.series => p = q
  BY MacroIs
<1> HIDE DEF New
<1>5. \A t \in new : /\ t.asOf = Day(clock.at)
                     /\ \A p, q \in Signals(t) : p.series = q.series => p = q
  BY <1>1, <1>3, <1>4 DEF StateWhole
<1>6. \A x \in ToSet(Sectors) : \E t \in new : t.sector = x
  BY <1>3, <1>4 DEF StateWhole
<1> HIDE DEF new, run
<1>7. MacroWhole(run)
  BY <1>2, <1>5, <1>6 DEF MacroWhole, Cutoff
<1> QED
  BY <1>1, <1>7 DEF PlanIInv

-------------------------------------------------------------------------------
(* The radar                                                                 *)

\* What is detected of a sector has identities of its own, and names the sector.
LEMMA DetectionIs ==
  ASSUME PlanIInv, NEW state \in states, NEW macro \in macros, NEW clock \in Clocks,
         SameDate(state, macro, clock), NEW x \in ToSet(Sectors)
  PROVE  /\ OneEach(Detection(state, macro, clock, x).events)
         /\ \A e \in Detection(state, macro, clock, x).events : e.id[2] = x
<1>1. StateWhole(state) /\ MacroWhole(macro)
  BY DEF PlanIInv
<1>2. Cutoff(state) \in Int /\ Cutoff(macro) \in Int
  BY <1>1, CutoffIsInt DEF StateWhole, MacroWhole, Cutoff
<1>3. StateOf(state, x).sector = x
  BY <1>1, <1>2, LatestIs DEF StateWhole, StateOf
<1>4. MacroOf(macro, x) \in macro.db.macros /\ MacroOf(macro, x).sector = x
  BY <1>1, <1>2, LatestIs DEF MacroWhole, MacroOf
<1>5. \A p, q \in Signals(MacroOf(macro, x)) : p.series = q.series => p = q
  BY <1>1, <1>4 DEF MacroWhole
<1>6. PICK bars, memberships, nodes, edges :
        Detection(state, macro, clock, x).events
          = Detect(StateOf(state, x), MacroOf(macro, x), bars, {}, {}, memberships, nodes,
                   edges, clock.at)
  BY DEF Detection
<1>7. OneEach(Detection(state, macro, clock, x).events)
  BY <1>5, <1>6, DetectedHaveIds
<1>8. \A e \in Detection(state, macro, clock, x).events : e.id[2] = x
  BY <1>3, <1>4, <1>6, DetectedOfSector
<1> QED
  BY <1>7, <1>8

LEMMA AppendedIs ==
  ASSUME NEW s, Listing(s), NEW x
  PROVE  /\ Listing(Append(s, x)) /\ DOMAIN Append(s, x) = DOMAIN s \union {Len(s) + 1}
         /\ DOMAIN s = 1..Len(s)
         /\ \A i \in DOMAIN s : Append(s, x)[i] = s[i]
         /\ Append(s, x)[Len(s) + 1] = x
<1> DEFINE S == ToSet(s) \union {x}
<1>1. s \in Seq(S) /\ DOMAIN s = 1..Len(s)
  BY DEF Listing, ToSet
<1> HIDE DEF S
<1>2. x \in S
  BY DEF S
<1>3. /\ Append(s, x) \in Seq(S) /\ Len(Append(s, x)) = Len(s) + 1
      /\ \A i \in 1..Len(s) : Append(s, x)[i] = s[i]
      /\ Append(s, x)[Len(s) + 1] = x
  BY <1>1, <1>2
<1>4. DOMAIN Append(s, x) = 1..Len(s) + 1
  BY <1>3
<1>5. Append(s, x) = [i \in 1..Len(Append(s, x)) |-> Append(s, x)[i]]
  <2>1. Append(s, x) \in [1..Len(Append(s, x)) -> S]
    BY <1>3, LenProperties
  <2> QED  BY <2>1
<1>6. Len(s) \in Nat
  BY DEF Listing
<1> QED
  BY <1>1, <1>3, <1>4, <1>5, <1>6 DEF Listing

LEMMA StartRadarKeeps ==
  ASSUME PlanIInv, NEW state \in states, NEW macro \in macros, NEW clock \in Clocks,
         StartRadar(state, macro, clock)
  PROVE  /\ Listing(radars') /\ DOMAIN radars \subseteq DOMAIN radars'
         /\ \A n \in DOMAIN radars : radars'[n] = radars[n]
         /\ \A n \in DOMAIN radars' : RadarWhole(radars'[n])
<1> DEFINE found == [n \in DOMAIN Sectors |-> Detection(state, macro, clock, Sectors[n])]
           reached == {n \in DOMAIN Sectors : \A k \in 1 .. n : ~found[k].fails}
           plan == UNION {found[n].events : n \in reached}
           run == [db |-> SeedTables, memories |-> {}, event |-> None, scopes |-> {},
                   plan |-> plan, left |-> plan,
                   detects |-> reached = DOMAIN Sectors, status |-> "running"]
<1>1. radars' = Append(radars, run) /\ SameDate(state, macro, clock)
  BY DEF StartRadar
<1>2. \A e \in plan : \E x \in ToSet(Sectors) : e \in Detection(state, macro, clock, x).events
  BY DEF ToSet
<1> HIDE DEF found, reached, plan
<1>3. OneEach(plan)
  BY <1>1, <1>2, DetectionIs DEF OneEach
<1>4. RadarWhole(run)
  <2>1. IsFiniteSet({})
    BY FS_EmptySet
  <2> QED  BY <1>3, <2>1, SeedTablesAre DEF RadarWhole, Remembered, Owed
<1> HIDE DEF run
<1> QED
  BY <1>1, <1>4, AppendedIs DEF PlanIInv

\* The steps of one radar run leave the others alone.
LEMMA RadarStep ==
  ASSUME PlanIInv, NEW n \in DOMAIN radars, NEW r, RadarWhole(r),
         radars' = [radars EXCEPT ![n] = r]
  PROVE  /\ Listing(radars') /\ DOMAIN radars' = DOMAIN radars
         /\ \A k \in DOMAIN radars \ {n} : radars'[k] = radars[k]
         /\ \A k \in DOMAIN radars' : RadarWhole(radars'[k])
<1>1. radars = [i \in 1..Len(radars) |-> radars[i]] /\ Len(radars) \in Nat
  BY DEF PlanIInv, Listing
<1>2. DOMAIN radars' = 1..Len(radars) /\ radars' = [i \in 1..Len(radars) |-> radars'[i]]
  BY <1>1
<1>3. Len(radars') = Len(radars)
  BY <1>1, <1>2
<1>4. \A k \in DOMAIN radars : radars'[k] = IF k = n THEN r ELSE radars[k]
  OBVIOUS
<1> QED
  BY <1>1, <1>2, <1>3, <1>4 DEF PlanIInv, Listing

LEMMA PersistKeeps ==
  ASSUME NEW r, RadarWhole(r), NEW e \in r.left, r.scopes = {}, r.status = "running",
         ~ScopesRejected(r.db, e)
  PROVE  RadarWhole([r EXCEPT !.db = SaveEvent(r.db, e), !.event = e,
                              !.scopes = RequestedScopes(r.db, e), !.left = r.left \ {e}])
<1> DEFINE q == [r EXCEPT !.db = SaveEvent(r.db, e), !.event = e,
                          !.scopes = RequestedScopes(r.db, e), !.left = r.left \ {e}]
           scopes == RequestedScopes(r.db, e)
           db == SaveEvent(r.db, e)
<1>1. /\ q.db = db /\ q.event = e /\ q.scopes = scopes /\ q.left = r.left \ {e}
      /\ q.plan = r.plan /\ q.memories = r.memories /\ q.status = r.status
      /\ DOMAIN q = DOMAIN r
  BY DEF RadarWhole
<1>2. scopes # {}
  <2>1. Cardinality(SectorScopes(r.db, e.sector, Day(e.asOf))) = 1
    BY DEF ScopesRejected
  <2>2. SectorScopes(r.db, e.sector, Day(e.asOf)) # {}
    BY <2>1, FS_EmptySet
  <2> QED  BY <2>2 DEF RequestedScopes
<1>3. /\ Tables(db) /\ db.events = InsertNew(r.db.events, {e}, {"id"})
      /\ db.links = r.db.links \union {<<e.id, s>> : s \in scopes}
  BY SavedIs DEF RadarWhole
<1>4. db.events = r.db.events \union {e}
  <2>1. \A t \in r.db.events : t.id = e.id => t = e
    BY DEF RadarWhole, OneEach
  <2> QED  BY <1>3, <2>1 DEF InsertNew
<1> HIDE DEF q, scopes, db
<1>5. IsFiniteSet(db.events)
  <2>1. IsFiniteSet(r.db.events)
    BY DEF RadarWhole
  <2>2. IsFiniteSet(r.db.events \union {e})
    BY ONLY <2>1, FS_AddElement
  <2> QED  BY ONLY <1>4, <2>2
<1>6. {l[1] : l \in db.links} = {k.id : k \in db.events}
  <2>1. {l[1] : l \in r.db.links} = {k.id : k \in r.db.events}
    BY DEF RadarWhole
  <2>2. {l[1] : l \in db.links} = {l[1] : l \in r.db.links} \union {e.id}
    <3>1. PICK s \in scopes : TRUE
      BY <1>2
    <3>2. <<e.id, s>> \in db.links /\ r.db.links \subseteq db.links
      BY <1>3, <3>1
    <3>3. \A l \in db.links : l \in r.db.links \/ l[1] = e.id
      BY <1>3
    <3>4. {l[1] : l \in db.links} \subseteq {l[1] : l \in r.db.links} \union {e.id}
      BY <3>3
    <3>5. <<e.id, s>>[1] = e.id
      OBVIOUS
    <3> QED  BY <3>2, <3>4, <3>5
  <2>3. {k.id : k \in db.events} = {k.id : k \in r.db.events} \union {e.id}
    BY <1>4
  <2> QED  BY <2>1, <2>2, <2>3
<1>7. db.links = Remembered(q) \union Owed(q)
  <2>1. Remembered(q) = r.db.links
    BY <1>1 DEF RadarWhole, Remembered, Owed
  <2>2. Owed(q) = {<<e.id, s>> : s \in scopes}
    BY <1>1 DEF Owed
  <2> QED  BY <1>3, <2>1, <2>2
<1>8. RadarWhole(q)
  BY <1>1, <1>3, <1>4, <1>5, <1>6, <1>7 DEF RadarWhole
<1> QED
  BY <1>8 DEF q

LEMMA RememberKeeps ==
  ASSUME NEW r, RadarWhole(r), NEW scope \in r.scopes, r.status = "running"
  PROVE  LET left == r.scopes \ {scope}
         IN  RadarWhole([r EXCEPT !.memories = r.memories \union {EventMemory(r.event, scope)},
                                  !.scopes = left,
                                  !.event = IF left = {} THEN None ELSE r.event])
<1> DEFINE left == r.scopes \ {scope}
           event == IF left = {} THEN None ELSE r.event
           q == [r EXCEPT !.memories = r.memories \union {EventMemory(r.event, scope)},
                          !.scopes = left, !.event = event]
<1>1. /\ q.db = r.db /\ q.event = event /\ q.scopes = left /\ q.left = r.left
      /\ q.plan = r.plan /\ q.status = r.status /\ DOMAIN q = DOMAIN r
      /\ q.memories = r.memories \union {EventMemory(r.event, scope)}
  BY DEF RadarWhole
<1>2. left # {} => event = r.event
  OBVIOUS
<1> HIDE DEF event, q
<1>3. Remembered(q) = Remembered(r) \union {<<r.event.id, scope>>}
  <2>1. /\ EventMemory(r.event, scope).event = r.event.id
        /\ EventMemory(r.event, scope).scope = scope
    BY DEF EventMemory
  <2> QED  BY <1>1, <2>1 DEF Remembered
<1>4. Owed(q) \union {<<r.event.id, scope>>} = Owed(r)
  <2>1. \A s \in left : q.event = r.event
    BY <1>1, <1>2
  <2>2. Owed(q) = {<<r.event.id, s>> : s \in left}
    BY <1>1, <2>1 DEF Owed
  <2> QED  BY <2>2 DEF Owed
<1>5. RadarWhole(q)
  BY <1>1, <1>3, <1>4 DEF RadarWhole
<1> QED
  BY <1>5 DEF q, event

LEMMA EndKeeps ==
  ASSUME NEW r, RadarWhole(r), NEW status, status = "complete" => r.left = {} /\ r.scopes = {}
  PROVE  RadarWhole([r EXCEPT !.status = status])
<1> DEFINE q == [r EXCEPT !.status = status]
<1>1. /\ q.db = r.db /\ q.event = r.event /\ q.scopes = r.scopes /\ q.left = r.left
      /\ q.plan = r.plan /\ q.memories = r.memories /\ q.status = status
      /\ DOMAIN q = DOMAIN r
  BY DEF RadarWhole
<1> HIDE DEF q
<1>2. RadarWhole(q)
  BY <1>1 DEF RadarWhole, Remembered, Owed
<1> QED
  BY <1>2 DEF q

\* A step of a radar run that is running, seen as one update of its record.
LEMMA RadarRunKeeps ==
  ASSUME PlanIInv, NEW n \in DOMAIN radars,
         PersistEvent(n) \/ WriteMemory(n) \/ FinishRadar(n) \/ AbortRadar(n)
  PROVE  Running(n) /\ \E r : RadarWhole(r) /\ radars' = [radars EXCEPT ![n] = r]
<1>1. RadarWhole(radars[n])
  BY DEF PlanIInv
<1>2. CASE PersistEvent(n)
  <2>1. PICK e \in Current(n) :
          /\ ~ScopesRejected(radars[n].db, e)
          /\ radars' = [radars EXCEPT ![n].db = SaveEvent(@, e), ![n].event = e,
                                      ![n].scopes = RequestedScopes(radars[n].db, e),
                                      ![n].left = @ \ {e}]
    BY <1>2 DEF PersistEvent
  <2>2. e \in radars[n].left /\ radars[n].scopes = {} /\ radars[n].status = "running"
    BY <1>2 DEF PersistEvent, Running, Current
  <2> DEFINE r == [radars[n] EXCEPT !.db = SaveEvent(radars[n].db, e), !.event = e,
                                    !.scopes = RequestedScopes(radars[n].db, e),
                                    !.left = radars[n].left \ {e}]
  <2>3. radars' = [radars EXCEPT ![n] = r]
    BY <1>1, <2>1 DEF RadarWhole
  <2>4. RadarWhole(r)
    BY <1>1, <2>1, <2>2, PersistKeeps
  <2> QED  BY <2>2, <2>3, <2>4 DEF Running
<1>3. CASE WriteMemory(n)
  <2> DEFINE scope == CHOOSE s \in radars[n].scopes : TRUE
             left == radars[n].scopes \ {scope}
             r == [radars[n] EXCEPT
                     !.memories = radars[n].memories \union
                                    {EventMemory(radars[n].event, scope)},
                     !.scopes = left,
                     !.event = IF left = {} THEN None ELSE radars[n].event]
  <2>1. scope \in radars[n].scopes /\ radars[n].status = "running"
    BY <1>3 DEF WriteMemory, Running
  <2>2. radars' = Remembering(n, scope, left)
    BY <1>3 DEF WriteMemory
  <2> HIDE DEF scope
  <2>3. radars' = [radars EXCEPT ![n] = r]
    BY <1>1, <2>2 DEF Remembering, RadarWhole
  <2>4. RadarWhole(r)
    BY <1>1, <2>1, RememberKeeps
  <2> QED  BY <2>1, <2>3, <2>4 DEF Running
<1>4. CASE FinishRadar(n)
  <2> DEFINE status == IF radars[n].detects THEN "complete" ELSE "failed"
  <2>1. radars' = [radars EXCEPT ![n] = [radars[n] EXCEPT !.status = status]]
    BY <1>4 DEF FinishRadar
  <2>2. radars[n].left = {} /\ radars[n].scopes = {}
    BY <1>4 DEF FinishRadar
  <2>3. RadarWhole([radars[n] EXCEPT !.status = status])
    BY <1>1, <2>2, EndKeeps
  <2> QED  BY <1>4, <2>1, <2>3 DEF FinishRadar
<1>5. CASE AbortRadar(n)
  <2>1. radars' = [radars EXCEPT ![n] = [radars[n] EXCEPT !.status = "failed"]]
    BY <1>5 DEF AbortRadar
  <2>2. RadarWhole([radars[n] EXCEPT !.status = "failed"])
    BY <1>1, EndKeeps
  <2> QED  BY <1>5, <2>1, <2>2 DEF AbortRadar
<1> QED
  BY <1>2, <1>3, <1>4, <1>5
-------------------------------------------------------------------------------
(* The claims                                                                *)

\* Accepted claims are numbered from one, each by a number of its own.
LEMMA NumberIs ==
  ASSUME NEW accepted, accepted \subseteq Int, IsFiniteSet(accepted), NEW n \in accepted
  PROVE  /\ Number(accepted, n) \in 1..Cardinality(accepted)
         /\ \A m \in accepted : Number(accepted, m) = Number(accepted, n) => m = n
<1> DEFINE Upto(k) == {m \in accepted : m <= k}
<1>1. ASSUME NEW k \in accepted
      PROVE  /\ IsFiniteSet(Upto(k)) /\ Cardinality(Upto(k)) \in Nat
             /\ Cardinality(Upto(k)) <= Cardinality(accepted)
  BY FS_Subset, FS_CardinalityType
<1>2. ASSUME NEW k \in accepted, NEW m \in accepted, m < k
      PROVE  Cardinality(Upto(m)) # Cardinality(Upto(k))
  <2>1. /\ Upto(m) \subseteq Upto(k)
        /\ k \in Upto(k) /\ k \notin Upto(m)
    <3>1. m \in Int /\ k \in Int /\ ~(k <= m) /\ k <= k
      BY <1>2
    <3>2. \A x \in accepted : x <= m => x <= k
      BY <1>2, <3>1
    <3> QED  BY <3>1, <3>2
  <2> QED  BY <1>1, <2>1, FS_Subset
<1>3. Cardinality(Upto(n)) # 0
  BY <1>1, FS_EmptySet
<1>4. Cardinality(accepted) \in Nat
  BY FS_CardinalityType
<1> HIDE DEF Upto
<1>5. \A k \in accepted : Number(accepted, k) = Cardinality(Upto(k))
  BY DEF Number, Upto
<1>6. ASSUME NEW m \in accepted, Cardinality(Upto(m)) = Cardinality(Upto(n))  PROVE m = n
  BY <1>2, <1>6
<1> QED
  BY <1>1, <1>3, <1>4, <1>5, <1>6

\* A claim that was accepted is in the output.
LEMMA AcceptedIsOutput ==
  ASSUME NEW in, NEW draft, NEW evidence, NEW N \in Nat, DOMAIN draft.claims = 1..N,
         NEW n \in Accepted(draft, evidence)
  PROVE  LET claims == Output(in, draft, evidence).claims
         IN  \E k \in DOMAIN claims : /\ claims[k].cites = draft.claims[n].cites
                                     /\ claims[k].category = draft.claims[n].category
<1> DEFINE accepted == Accepted(draft, evidence)
           At(k) == CHOOSE m \in accepted : Number(accepted, m) = k
           claims == [k \in 1 .. Cardinality(accepted) |->
                        [category |-> draft.claims[At(k)].category,
                         cites |-> draft.claims[At(k)].cites]]
<1>1. accepted \subseteq 1..N
  BY DEF Accepted
<1>2. IsFiniteSet(accepted)
  BY <1>1, FS_Interval, FS_Subset
<1>3. Output(in, draft, evidence).claims = claims
  BY DEF Output
<1> HIDE DEF accepted
<1>4. n \in accepted
  BY DEF accepted
<1>5. /\ Number(accepted, n) \in 1..Cardinality(accepted)
      /\ \A m \in accepted : Number(accepted, m) = Number(accepted, n) => m = n
  <2>1. accepted \subseteq Int
    BY <1>1
  <2> QED  BY <1>2, <1>4, <2>1, NumberIs
<1>6. At(Number(accepted, n)) = n
  BY <1>4, <1>5
<1> HIDE DEF At
<1>7. /\ Number(accepted, n) \in DOMAIN claims
      /\ claims[Number(accepted, n)].cites = draft.claims[n].cites
      /\ claims[Number(accepted, n)].category = draft.claims[n].category
  BY <1>5, <1>6
<1> QED
  BY <1>3, <1>7

\* An execution that succeeds has an accepted claim on every mandatory event.
LEMMA ExecutionIs ==
  ASSUME NEW in, NEW answer, NEW evidence, Execution(in, answer, evidence).status = "ok"
  PROVE  /\ Execution(in, answer, evidence).output = Output(in, answer, evidence)
         /\ \A e \in Mandatory(in.events) :
              \E n \in Accepted(answer, evidence) : EventRef(e) \in answer.claims[n].cites
<1>1. answer.status = "draft" /\ ~DraftRejected(in, answer, evidence)
  BY DEF Execution
<1>2. Uncovered(in.events, answer, evidence) = {}
  BY <1>1 DEF DraftRejected
<1>3. Execution(in, answer, evidence).output = Output(in, answer, evidence)
  BY <1>1 DEF Execution
<1> QED
  BY <1>2, <1>3 DEF Uncovered

LEMMA OutputIs ==
  ASSUME NEW in, NEW draft, NEW evidence
  PROVE  /\ Output(in, draft, evidence).sector = in.sector
         /\ Output(in, draft, evidence).scope = in.scope
         /\ Output(in, draft, evidence).asOf = in.asOf
BY DEF Output

LEMMA InputIs ==
  ASSUME NEW state, NEW macro, NEW radar, NEW clock, NEW x
  PROVE  LET in == InputOf(state, macro, radar, clock, x)
         IN  /\ in.sector = x /\ in.scope = Scope[x] /\ in.asOf = clock.at
             /\ in.events = AnomaliesForScope(radar.db, Scope[x], clock.at)
BY DEF InputOf

LEMMA ResearchKeeps ==
  ASSUME IInv, NEW state \in states, NEW macro \in macros, NEW n \in DOMAIN radars,
         NEW clock \in Clocks, Research(state, macro, n, clock)
  PROVE  \A o \in outputs' : OutputWhole(o)
<1> DEFINE inputs == Inputs(state, macro, radars[n], clock)
<1>1. PICK t \in Templates :
        outputs' = {[radar |-> n, snapshot |-> state.clock, clock |-> clock,
                     output |-> x.output] :
                       x \in {e \in {Execution(i.in, AnswerOf(t, i.evidence), i.evidence) :
                                        i \in inputs} : e.status = "ok"}}
  BY DEF Research
<1>2. ~Running(n)
  BY DEF Research
<1>3. PICK N \in Nat : DOMAIN t.claims = 1..N
  <2>1. t.claims \in Seq(Range(t.claims))
    BY PipelineAssumption
  <2> QED  BY <2>1, LenProperties
<1>4. SUFFICES ASSUME NEW o \in outputs'  PROVE OutputWhole(o)
  OBVIOUS
<1>5. PICK i \in inputs :
        LET x == Execution(i.in, AnswerOf(t, i.evidence), i.evidence)
        IN  x.status = "ok" /\ o = [radar |-> n, snapshot |-> state.clock, clock |-> clock,
                                    output |-> x.output]
  BY <1>1, <1>4
<1> DEFINE answer == AnswerOf(t, i.evidence)
<1>6. o.radar = n /\ o.clock = clock /\ o.output = Output(i.in, answer, i.evidence)
  BY <1>5, ExecutionIs
<1>7. DOMAIN answer.claims = 1..N
  BY <1>3 DEF AnswerOf
<1>8. PICK x : i.in = InputOf(state, macro, radars[n], clock, x)
  BY <1>5 DEF Inputs
<1>9. Seen(o) = i.in.events
  BY <1>6, <1>8, InputIs, OutputIs DEF Seen
<1>10. ASSUME NEW e \in Mandatory(Seen(o))
       PROVE  \E k \in DOMAIN o.output.claims : EventRef(e) \in o.output.claims[k].cites
  <2>1. PICK m \in Accepted(answer, i.evidence) : EventRef(e) \in answer.claims[m].cites
    BY <1>5, <1>9, <1>10, ExecutionIs
  <2> HIDE DEF answer
  <2> QED  BY <1>6, <1>7, <2>1, AcceptedIsOutput
<1> QED
  BY <1>2, <1>6, <1>10 DEF OutputWhole

-------------------------------------------------------------------------------
(* The context of an asset                                                   *)

LEMMA EventEvidenceIs ==
  ASSUME NEW e
  PROVE  EventEvidence(e).id = EventRef(e) /\ EventEvidence(e).kind = "anomaly_event"
BY DEF EventEvidence, Evidence

LEMMA EvidenceIs ==
  ASSUME NEW id, NEW kind, NEW degraded
  PROVE  /\ Evidence(id, kind, degraded).id = id
         /\ [Evidence(id, kind, degraded) EXCEPT !.association = TRUE].id = id
BY DEF Evidence

LEMMA OtherEvidenceIs ==
  ASSUME NEW in, NEW e \in EvidenceOf(in), e.kind \in ToSet(FixedKinds)
  PROVE  \A k : e.id # EventRef(k)
<1>1. CASE e \in MetricEvidence(in.state)
  BY <1>1 DEF MetricEvidence, Evidence, EventRef
<1>2. CASE e \in MacroEvidence(in.macro)
  <2> DEFINE macro == in.macro
  <2>1. CASE e \in SignalEvidence(macro)
    <3>1. PICK d \in DOMAIN macro.cycle :
            e \in {Evidence(<<"macro", d, s.series>>, "macro_state",
                            Degrades(macro.cycle[d].status)) : s \in macro.cycle[d].signals}
      BY <2>1 DEF SignalEvidence
    <3>2. PICK s \in macro.cycle[d].signals :
            e = Evidence(<<"macro", d, s.series>>, "macro_state",
                         Degrades(macro.cycle[d].status))
      BY <3>1
    <3>3. e.id = <<"macro", d, s.series>>
      BY <3>2, EvidenceIs
    <3> QED  BY <3>3 DEF EventRef
  <2>2. CASE e \in SensitivityEvidence(macro)
    <3>1. PICK x \in macro.estimates :
            e = [Evidence(<<"sensitivity", x.series>>, "macro_sensitivity",
                          Degrades(x.status)) EXCEPT !.association = TRUE]
      BY <2>2 DEF SensitivityEvidence
    <3>2. e.id = <<"sensitivity", x.series>>
      BY <3>1, EvidenceIs
    <3> QED  BY <3>2 DEF EventRef
  <2> QED  BY <1>2, <2>1, <2>2 DEF MacroEvidence
<1>3. CASE e = CoverageEvidence(in.state, in.mapping)
  BY <1>3 DEF CoverageEvidence, Evidence, EventRef
<1>4. CASE e \in OntologyEvidence(in)
  <2>1. ASSUME NEW c \in in.chains,
               e = [Evidence(<<"chain", c.chain, c.version>>, "industry_chain", FALSE)
                      EXCEPT !.chains = {c.chain}]
        PROVE  e.id[1] = "chain"
    <3>1. e.id = <<"chain", c.chain, c.version>>
      BY <2>1 DEF Evidence
    <3> QED  BY <3>1
  <2>2. ASSUME NEW m \in in.memberships,
               e = [Evidence(<<"membership", m.asset, m.sector, m.version>>, "membership",
                             FALSE) EXCEPT !.chains = ToSet(m.chains)]
        PROVE  e.id[1] = "membership"
    <3>1. e.id = <<"membership", m.asset, m.sector, m.version>>
      BY <2>2 DEF Evidence
    <3> QED  BY <3>1
  <2>3. ASSUME NEW r \in Related(in),
               e = Evidence(<<"edge", r.edge, r.version>>, "graph_relation", FALSE)
        PROVE  e.id[1] = "edge"
    <3>1. e.id = <<"edge", r.edge, r.version>>
      BY <2>3, EvidenceIs
    <3> QED  BY <3>1
  <2>4. ASSUME NEW m \in in.memory, e = Evidence(<<"memory", m.id>>, "memory", FALSE)
        PROVE  e.id[1] = "memory"
    <3>1. e.id = <<"memory", m.id>>
      BY <2>4, EvidenceIs
    <3> QED  BY <3>1
  <2>5. e.id[1] \in {"chain", "membership", "edge", "memory"}
    BY <1>4, <2>1, <2>2, <2>3, <2>4 DEF OntologyEvidence
  <2> QED  BY <2>5 DEF EventRef
<1>5. CASE \E k \in in.events : e = EventEvidence(k)
  BY <1>5, EventEvidenceIs DEF ToSet, FixedKinds
<1> QED
  BY <1>1, <1>2, <1>3, <1>4, <1>5 DEF EvidenceOf

\* A claim of the fixed draft that cites an event is filed as an anomaly.
LEMMA FixedClaimsAre ==
  ASSUME NEW in, IsFiniteSet(in.events), ~FixedFails(EvidenceOf(in))
  PROVE  /\ \E N \in Nat : DOMAIN FixedAnswer(in, EvidenceOf(in)).claims = 1..N
         /\ \A n \in DOMAIN FixedAnswer(in, EvidenceOf(in)).claims :
              LET c == FixedAnswer(in, EvidenceOf(in)).claims[n]
              IN  \A k : EventRef(k) \in c.cites => c.category = "anomalies"
<1> DEFINE evidence == EvidenceOf(in)
           first == [n \in DOMAIN FixedKinds |->
                       CHOOSE e \in Kinds(evidence, FixedKinds[n]) : TRUE]
           marked == Mandatory(in.events)
           high == {EventEvidence(e) : e \in marked}
           items == [n \in 1 .. 3 + Cardinality(high) |->
                       IF n <= 3 THEN first[n] ELSE SetToSeq(high)[n - 3]]
           category == <<"trend", "macro_environment", "macro_sensitivity">>
           claims == [n \in DOMAIN items |->
                        FixedClaim(n, items[n], IF n <= 3 THEN category[n] ELSE "anomalies")]
<1>1. FixedAnswer(in, evidence).claims = claims
  BY DEF FixedAnswer
<1>2. Cardinality(high) \in Nat
  <2>1. IsFiniteSet(marked)
    BY FS_Subset DEF Mandatory
  <2> DEFINE f == [e \in marked |-> EventEvidence(e)]
  <2>2. f \in Surjection(marked, high)
    BY DEF Surjection
  <2> HIDE DEF f, marked, high
  <2> QED  BY <2>1, <2>2, FS_Surjection, FS_CardinalityType
<1>3. DOMAIN FixedKinds = 1..3
  BY DEF FixedKinds
<1>4. ASSUME NEW n \in 1..3  PROVE \A k : first[n].id # EventRef(k)
  <2>1. Kinds(evidence, FixedKinds[n]) # {}
    BY <1>3 DEF FixedFails
  <2>2. first[n] \in Kinds(evidence, FixedKinds[n])
    BY <1>3, <2>1
  <2>3. first[n] \in evidence /\ first[n].kind \in ToSet(FixedKinds)
    BY <1>3, <2>2 DEF Kinds, ToSet
  <2> HIDE DEF first
  <2> QED  BY <2>3, OtherEvidenceIs
<1> HIDE DEF first, high
<1>5. DOMAIN claims = 1..3 + Cardinality(high)
  OBVIOUS
<1>6. ASSUME NEW n \in DOMAIN claims, NEW k, EventRef(k) \in claims[n].cites
      PROVE  claims[n].category = "anomalies"
  <2>1. claims[n].cites = {items[n].id}
    BY DEF FixedClaim
  <2>2. ~(n <= 3)
    <3>1. SUFFICES ASSUME n <= 3  PROVE FALSE
      OBVIOUS
    <3>2. n \in 1..3 /\ items[n] = first[n]
      BY <1>2, <1>5, <3>1
    <3> HIDE DEF items, claims
    <3> QED  BY <1>4, <1>6, <2>1, <3>2
  <2> QED  BY <2>2 DEF FixedClaim
<1>7. 3 + Cardinality(high) \in Nat
  BY <1>2
<1> HIDE DEF claims
<1> QED
  BY <1>1, <1>5, <1>6, <1>7

\* A context that is written is of an output whose sector it has, and its events
\* are those an accepted claim of that output cites.
LEMMA BundleIs ==
  ASSUME NEW asset, NEW asOf, NEW memberships, NEW output, NEW state, NEW macro, NEW events,
         NEW chains
  PROVE  LET b == BundleOf(asset, asOf, memberships, output, state, macro, events, chains)
             sector == Primary(memberships).sector
         IN  /\ b.sector = sector /\ b.asset = asset /\ b.claims = output.claims
             /\ b.events = EventReferences(ActiveEvents(events, asset, sector, b.chains, asOf),
                                           b.chains, output.claims)
BY DEF BundleOf

LEMMA ResolveIs ==
  ASSUME NEW state, NEW macro, NEW radar, NEW clock, NEW asset, NEW results, NEW bundle,
         bundle = Resolve(state, macro, radar, clock, asset, results).bundle, bundle # None
  PROVE  \E output, events :
           /\ output \in results
           /\ bundle.sector = output.sector /\ bundle.claims = output.claims
           /\ bundle.asset = asset
           /\ AnomaliesForScope(radar.db, output.scope, clock.at) \subseteq events
           /\ bundle.events = EventReferences(
                ActiveEvents(events, asset, output.sector, bundle.chains, clock.at),
                bundle.chains, output.claims)
<1> DEFINE held == ListMemberships(state.db, asset, Day(clock.at))
           sector == Primary(held).sector
           mine == {r \in results : r.sector = sector}
           output == IF mine = {} THEN None ELSE CHOOSE r \in mine : TRUE
           events == UNION {AnomaliesForScope(radar.db, s, clock.at) :
                               s \in ResolverScopes(sector, held, output)}
           res == Resolution(asset, clock.at, held, output, StateOf(state, sector),
                             MacroOf(macro, sector), events, ToSet(Seed.chains))
<1>1. held # {} /\ Resolve(state, macro, radar, clock, asset, results) = res
  BY DEF Resolve
<1>2. {m \in held : m.asset = asset /\ Effective(m, Day(clock.at))} = held
  BY DEF ListMemberships, EffectiveRows
<1> DEFINE b == BundleOf(asset, clock.at, held, output, StateOf(state, sector),
                         MacroOf(macro, sector), events, ToSet(Seed.chains))
<1> HIDE DEF held, sector, output, events
<1>3. output # None /\ res.bundle = b
  <2> DEFINE St == StateOf(state, sector)
             Ma == MacroOf(macro, sector)
             refused == \/ AlignmentRejected(clock.at, Primary(held).sector, output, St, Ma)
                        \/ BundleRejected(b)
  <2>1. res = IF BuildDegrades(held, output, St, Ma) THEN [refused |-> FALSE, bundle |-> None]
              ELSE [refused |-> refused, bundle |-> b]
    BY <1>2 DEF Resolution
  <2> HIDE DEF res, b, refused, St, Ma
  <2>2. ~BuildDegrades(held, output, St, Ma)
    BY <1>1, <2>1
  <2> QED  BY <2>1, <2>2 DEF BuildDegrades
<1>4. output \in results /\ output.sector = sector
  BY <1>3 DEF output
<1>5. output.scope \in ResolverScopes(sector, held, output)
  BY <1>3 DEF ResolverScopes
<1>6. AnomaliesForScope(radar.db, output.scope, clock.at) \subseteq events
  BY <1>5 DEF events
<1>7. /\ b.sector = sector /\ b.asset = asset /\ b.claims = output.claims
      /\ b.events = EventReferences(ActiveEvents(events, asset, sector, b.chains, clock.at),
                                    b.chains, output.claims)
  BY BundleIs DEF sector
<1> HIDE DEF b
<1> QED
  BY <1>1, <1>3, <1>4, <1>6, <1>7

LEMMA IntegrateKeeps ==
  ASSUME IInv, NEW state \in states, NEW macro \in macros, NEW n \in DOMAIN radars,
         NEW clock \in Clocks, Integrate(state, macro, n, clock)
  PROVE  \A c \in contexts' : ContextWhole(c)
<1> DEFINE inputs == Inputs(state, macro, radars[n], clock)
           Done(i) == Execution(i.in, FixedAnswer(i.in, i.evidence), i.evidence)
           results == {e.output : e \in {Done(i) : i \in inputs}}
           At(k) == Resolve(state, macro, radars[n], clock, Assets[k], results)
<1>1. /\ ~Running(n) /\ ~InputsRefused(inputs)
      /\ \A i \in inputs : ~FixedFails(i.evidence) /\ Done(i).status = "ok"
  BY DEF Integrate
<1>2. ASSUME NEW c \in contexts'
      PROVE  \E k \in DOMAIN Assets :
               /\ At(k).bundle # None
               /\ c = [radar |-> n, clock |-> clock, bundle |-> At(k).bundle]
  BY <1>2 DEF Integrate
<1>3. SUFFICES ASSUME NEW c \in contexts'  PROVE ContextWhole(c)
  OBVIOUS
<1>4. PICK k \in DOMAIN Assets :
        /\ At(k).bundle # None
        /\ c = [radar |-> n, clock |-> clock, bundle |-> At(k).bundle]
  BY <1>2, <1>3
<1> DEFINE b == At(k).bundle
<1> HIDE DEF results, inputs
<1>5. c.radar = n /\ c.clock = clock /\ c.bundle = b
  BY <1>4
<1> HIDE DEF b
<1>6. PICK output, events :
        /\ output \in results
        /\ b.sector = output.sector /\ b.claims = output.claims /\ b.asset = Assets[k]
        /\ AnomaliesForScope(radars[n].db, output.scope, clock.at) \subseteq events
        /\ b.events = EventReferences(
             ActiveEvents(events, Assets[k], output.sector, b.chains, clock.at),
             b.chains, output.claims)
  <2>1. b = Resolve(state, macro, radars[n], clock, Assets[k], results).bundle /\ b # None
    BY <1>4 DEF b
  <2> QED  BY <2>1, ResolveIs
<1>7. PICK i \in inputs : output = Done(i).output
  BY <1>6 DEF results
<1>8. PICK x : i.in = InputOf(state, macro, radars[n], clock, x) /\ i.evidence = EvidenceOf(i.in)
  BY <1>7 DEF Inputs, inputs
<1> DEFINE answer == FixedAnswer(i.in, i.evidence)
<1>9. /\ output = Output(i.in, answer, i.evidence)
      /\ \A e \in Mandatory(i.in.events) :
           \E m \in Accepted(answer, i.evidence) : EventRef(e) \in answer.claims[m].cites
  BY <1>1, <1>7, ExecutionIs
<1>10. /\ output.sector = x /\ output.scope = Scope[x] /\ i.in.sector = x
       /\ i.in.events = AnomaliesForScope(radars[n].db, Scope[x], clock.at)
  BY <1>8, <1>9, InputIs, OutputIs
<1>11. IsFiniteSet(i.in.events)
  <2>1. IsFiniteSet(radars[n].db.events)
    BY DEF IInv, PlanIInv, RadarWhole
  <2> QED  BY <1>10, <2>1, FS_Subset DEF AnomaliesForScope
<1>12. /\ \E N \in Nat : DOMAIN answer.claims = 1..N
       /\ \A m \in DOMAIN answer.claims : \A e :
            EventRef(e) \in answer.claims[m].cites => answer.claims[m].category = "anomalies"
  BY <1>1, <1>7, <1>8, <1>11, FixedClaimsAre
<1>13. \A e \in i.in.events : e.sector = x
  BY <1>1, <1>7, <1>10 DEF InputsRefused, InputRejected
<1> HIDE DEF answer, results, inputs, Done, At
<1>14. ASSUME NEW e \in Mandatory(i.in.events)
       PROVE  \E m \in DOMAIN b.claims : /\ EventRef(e) \in b.claims[m].cites
                                       /\ b.claims[m].category = "anomalies"
  <2>1. PICK m \in Accepted(answer, i.evidence) : EventRef(e) \in answer.claims[m].cites
    BY <1>9, <1>14
  <2>2. m \in DOMAIN answer.claims
    BY <2>1 DEF Accepted
  <2>3. answer.claims[m].category = "anomalies"
    BY <1>12, <2>1, <2>2
  <2> QED  BY <1>6, <1>9, <1>12, <2>1, <2>3, AcceptedIsOutput
<1>15. ASSUME NEW e \in Mandatory(i.in.events), Concerns(e, Assets[k], b.chains)
       PROVE  LET shown == ForRole(b, "risk")
              IN  \E r \in shown.events : /\ r.event = e.id
                                         /\ r.claims \intersect shown.validated # {}
  <2>1. PICK m \in DOMAIN b.claims : /\ EventRef(e) \in b.claims[m].cites
                                   /\ b.claims[m].category = "anomalies"
    BY <1>14, <1>15
  <2>2. m \in ClaimsOn(e, b.claims)
    BY <2>1 DEF ClaimsOn
  <2>3. e \in ActiveEvents(events, Assets[k], x, b.chains, clock.at)
    BY <1>6, <1>10, <1>13, <1>15 DEF ActiveEvents, AnomaliesForScope, Mandatory
  <2> DEFINE r == Reference(e, b.chains, b.claims)
  <2>4. r \in b.events /\ r.event = e.id /\ r.claims = ClaimsOn(e, b.claims)
    BY <1>6, <1>10, <2>2, <2>3 DEF EventReferences, Reference
  <2> HIDE DEF r
  <2> DEFINE selected == {j \in DOMAIN b.claims : b.claims[j].category \in RoleCategories["risk"]}
  <2>5. m \in selected
    BY <2>1 DEF RoleCategories
  <2>6. /\ ForRole(b, "risk").validated = selected
        /\ ForRole(b, "risk").events = {j \in b.events : j.claims \intersect selected # {}}
    BY DEF ForRole, Managers, EventRoles
  <2> HIDE DEF selected, b
  <2> QED  BY <2>2, <2>4, <2>5, <2>6
<1>16. AnomaliesForScope(radars[n].db, Scope[b.sector], clock.at) = i.in.events
  BY <1>6, <1>10
<1> HIDE DEF b
<1>17. \A e \in Mandatory(i.in.events) :
         \/ e.chains = {}
         \/ e.chains \intersect b.chains # {}
         \/ b.asset \in e.sources \union e.affected
         => Concerns(e, Assets[k], b.chains)
  BY <1>6 DEF Concerns
<1> QED
  BY <1>1, <1>5, <1>15, <1>16, <1>17 DEF ContextWhole

-------------------------------------------------------------------------------
(* The invariant                                                             *)

LEMMA InitIInv == Init => IInv
BY DEF Init, IInv, PlanIInv, Listing

\* What was made of a run that had ended stays true while no ended run changes.
LEMMA EndedStays ==
  ASSUME DOMAIN radars \subseteq DOMAIN radars',
         \A k \in DOMAIN radars : ~Running(k) => radars'[k] = radars[k]
  PROVE  /\ \A o : OutputWhole(o) => OutputWhole(o)'
         /\ \A c : ContextWhole(c) => ContextWhole(c)'
<1>1. ASSUME NEW o, OutputWhole(o)  PROVE OutputWhole(o)'
  <2>1. o.radar \in DOMAIN radars /\ radars'[o.radar] = radars[o.radar]
    BY <1>1 DEF OutputWhole
  <2> QED  BY <1>1, <2>1 DEF OutputWhole, Running, Seen
<1>2. ASSUME NEW c, ContextWhole(c)  PROVE ContextWhole(c)'
  <2>1. c.radar \in DOMAIN radars /\ radars'[c.radar] = radars[c.radar]
    BY <1>2 DEF ContextWhole
  <2> QED  BY <1>2, <2>1 DEF ContextWhole, Running
<1> QED
  BY <1>1, <1>2

LEMMA NextIInv == IInv /\ [Next]_vars => IInv'
<1> SUFFICES ASSUME IInv, [Next]_vars  PROVE IInv'
  OBVIOUS
<1>1. PlanIInv
  BY DEF IInv
<1>2. Given \subseteq Clocks
  BY DEF Given
<1> DEFINE Outputs == \A o \in outputs' : OutputWhole(o)
           Contexts == \A c \in contexts' : ContextWhole(c)
           Ended == /\ DOMAIN radars \subseteq DOMAIN radars'
                    /\ \A k \in DOMAIN radars : ~Running(k) => radars'[k] = radars[k]
           Readers == UNCHANGED <<outputs, contexts>>
<1>3. Readers => Outputs /\ Contexts
  BY DEF IInv
<1>4. radars' = radars => Ended
  OBVIOUS
<1>5. PlanIInv' /\ Outputs /\ Contexts /\ Ended
  <2>1. UNCHANGED <<states, macros, radars>> => PlanIInv'
    BY <1>1 DEF PlanIInv, Listing, StateWhole, MacroWhole, RadarWhole
  <2>2. CASE UNCHANGED vars
    BY <1>3, <1>4, <2>1, <2>2 DEF vars
  <2>3. CASE Tick
    BY <1>3, <1>4, <2>1, <2>3 DEF Tick
  <2>4. ASSUME NEW c \in Given, RunState(c)  PROVE PlanIInv' /\ Outputs /\ Contexts /\ Ended
    <3>1. UNCHANGED <<macros, radars, outputs, contexts>>
      BY <2>4 DEF RunState
    <3>2. \A s \in states' : StateWhole(s)
      BY <1>1, <1>2, <2>4, RunStateKeeps
    <3>3. PlanIInv'
      BY <1>1, <3>1, <3>2 DEF PlanIInv, Listing
    <3> QED  BY <1>3, <1>4, <3>1, <3>3
  <2>5. ASSUME NEW s \in states, NEW c \in Given, RunMacro(s, c)
        PROVE  PlanIInv' /\ Outputs /\ Contexts /\ Ended
    <3>1. UNCHANGED <<states, radars, outputs, contexts>>
      BY <2>5 DEF RunMacro
    <3>2. \A m \in macros' : MacroWhole(m)
      BY <1>1, <1>2, <2>5, RunMacroKeeps
    <3>3. PlanIInv'
      BY <1>1, <3>1, <3>2 DEF PlanIInv, Listing
    <3> QED  BY <1>3, <1>4, <3>1, <3>3
  <2>6. ASSUME NEW s \in states, NEW m \in macros, NEW c \in Given, StartRadar(s, m, c)
        PROVE  PlanIInv' /\ Outputs /\ Contexts /\ Ended
    <3>1. UNCHANGED <<states, macros, outputs, contexts>>
      BY <2>6 DEF StartRadar
    <3>2. /\ Listing(radars') /\ Ended
          /\ \A n \in DOMAIN radars' : RadarWhole(radars'[n])
      BY <1>1, <1>2, <2>6, StartRadarKeeps
    <3>3. PlanIInv'
      BY <1>1, <3>1, <3>2 DEF PlanIInv
    <3> QED  BY <1>3, <3>1, <3>2, <3>3
  <2>7. ASSUME NEW n \in DOMAIN radars,
               PersistEvent(n) \/ WriteMemory(n) \/ FinishRadar(n) \/ AbortRadar(n)
        PROVE  PlanIInv' /\ Outputs /\ Contexts /\ Ended
    <3>1. UNCHANGED <<states, macros, outputs, contexts>>
      BY <2>7 DEF PersistEvent, WriteMemory, FinishRadar, AbortRadar
    <3>2. PICK r : Running(n) /\ RadarWhole(r) /\ radars' = [radars EXCEPT ![n] = r]
      BY <1>1, <2>7, RadarRunKeeps
    <3>3. /\ Listing(radars') /\ DOMAIN radars' = DOMAIN radars
          /\ \A k \in DOMAIN radars \ {n} : radars'[k] = radars[k]
          /\ \A k \in DOMAIN radars' : RadarWhole(radars'[k])
      BY <1>1, <3>2, RadarStep
    <3>4. PlanIInv'
      BY <1>1, <3>1, <3>3 DEF PlanIInv
    <3>5. Ended
      BY <3>2, <3>3
    <3> QED  BY <1>3, <3>1, <3>4, <3>5
  <2>8. ASSUME NEW s \in states, NEW m \in macros, NEW n \in DOMAIN radars, NEW c \in Given,
               Research(s, m, n, c)
        PROVE  PlanIInv' /\ Outputs /\ Contexts /\ Ended
    <3>1. UNCHANGED <<states, macros, radars, contexts>>
      BY <2>8 DEF Research
    <3>2. Outputs
      BY <1>2, <2>8, ResearchKeeps
    <3> QED  BY <1>4, <2>1, <3>1, <3>2 DEF IInv
  <2>9. ASSUME NEW s \in states, NEW m \in macros, NEW n \in DOMAIN radars, NEW c \in Given,
               Integrate(s, m, n, c)
        PROVE  PlanIInv' /\ Outputs /\ Contexts /\ Ended
    <3>1. UNCHANGED <<states, macros, radars, outputs>>
      BY <2>9 DEF Integrate
    <3>2. Contexts
      BY <1>2, <2>9, IntegrateKeeps
    <3> QED  BY <1>4, <2>1, <3>1, <3>2 DEF IInv
  <2> HIDE DEF Outputs, Contexts, Ended
  <2> QED
    BY <2>2, <2>3, <2>4, <2>5, <2>6, <2>7, <2>8, <2>9 DEF Next
<1>6. /\ \A o : OutputWhole(o) => OutputWhole(o)'
      /\ \A c : ContextWhole(c) => ContextWhole(c)'
  BY <1>5, EndedStays
<1> QED
  BY <1>5, <1>6 DEF IInv

\* Every reachable state keeps the invariant the properties below follow from: the
\* databases of a run hold a snapshot of every sector, a radar run has stored or
\* still has to store each event it detected, and what reads a radar reads an ended
\* one (the order of the smoke scripts and of persist in sector_radar.py).
THEOREM Inductive == Spec => []IInv
BY InitIInv, NextIInv, PTL DEF Spec

\* Whatever was stored by an abort is linked before it is remembered, and a complete
\* run stored every event it detected and remembered each under every scope it was
\* linked to, because the events of the sectors have identities of their own.
THEOREM RadarsAreProjected == Spec => []RadarIsProjected
<1>1. IInv => RadarIsProjected
  <2> SUFFICES ASSUME IInv, NEW n \in DOMAIN radars
               PROVE  LET r == radars[n]
                          remembered == {<<m.event, m.scope>> : m \in r.memories}
                      IN  /\ remembered \subseteq r.db.links
                          /\ {l[1] : l \in r.db.links} = {e.id : e \in r.db.events}
                          /\ r.status = "complete" =>
                                /\ r.db.links \subseteq remembered
                                /\ r.db.events = r.plan
    BY DEF RadarIsProjected
  <2>1. RadarWhole(radars[n])
    BY DEF IInv, PlanIInv
  <2> QED  BY <2>1 DEF RadarWhole, Remembered, Owed
<1> QED
  BY <1>1, Inductive, PTL

\* Whatever the model drafts, an output cites every high or critical event its input
\* was shown: an execution that leaves one out fails.
THEOREM MandatoryEventsStayCited == Spec => []MandatoryEventsAreCited
<1>1. IInv => MandatoryEventsAreCited
  BY DEF IInv, OutputWhole, MandatoryEventsAreCited
<1> QED
  BY <1>1, Inductive, PTL

\* A high event that concerns an asset and was there by the cutoff reaches the Risk
\* Manager with a claim on it: the fixed draft files the claims on events, and no
\* others, as anomalies, a category that role is shown.
THEOREM HighEventsAreShownToRisk == Spec => []HighEventsReachRisk
<1>1. IInv => HighEventsReachRisk
  BY DEF IInv, ContextWhole, HighEventsReachRisk
<1> QED
  BY <1>1, Inductive, PTL
===============================================================================
