--------------------------- MODULE SectorPipeline ---------------------------
(***************************************************************************)
(* The scripts that produce Sector intelligence: one that snapshots the    *)
(* state of every sector, one its macro state, one that runs the radar and *)
(* remembers its events, one that runs the research Agent, and one that    *)
(* binds the research to assets.  Each starts a database of its own, reads *)
(* the databases it is pointed at, and is given a cutoff: a date, whose    *)
(* end it replays, or the instant of a live run.                           *)
(*                                                                         *)
(* A run is kept as its cutoff, the instant it ran at and its database.    *)
(***************************************************************************)
EXTENDS SectorContext

CONSTANTS
    Sectors,         \* the sectors, in the order the scripts take them
    Scope,           \* sector -> the scope its research is filed under
    Seed,            \* the ontology seed
    CuratedVersion,  \* the version of the memberships of the research universe
    Candidates,      \* sector -> its benchmark candidates
    Prices,          \* what the price provider holds
    Filings,         \* what the fundamentals provider holds
    Observations,    \* what the macro provider holds
    Assets,          \* the assets contexts are built for
    Templates,       \* what the model may draft
    Clocks,          \* the cutoffs runs are given
    FirstInstant, LastInstant,     \* bounds: the instants
    MaxStates, MaxMacros, MaxRadars      \* bounds: runs

(* Cutoffs are instants, and the claims of a draft a list.                 *)
ASSUME PipelineAssumption ==
    /\ \A c \in Clocks : c.at \in Nat
    /\ \A t \in Templates : t.claims \in Seq(Range(t.claims))

VARIABLES
    now,        \* the instant
    states,     \* runs of the state script
    macros,     \* runs of the macro script
    radars,     \* runs of the radar script, with what they detected
    outputs,    \* research outputs, with what they were made from
    contexts    \* asset contexts, with what they were made from

vars == <<now, states, macros, radars, outputs, contexts>>

ModeOf(clock) == IF clock.mode = "date" THEN "replay" ELSE "live"
Given == {c \in Clocks : IF c.mode = "date" THEN Day(c.at) <= Day(now) ELSE c.at <= now}

---------------------------------------------------------------------------
(* What the providers answer at an instant to a run with a cutoff.         *)

FetchedBars(clock, at) ==
    {[asset |-> p.asset, day |-> p.day, close |-> p.close, shock |-> p.shock,
      ingested |-> at] :
        p \in {q \in Prices : q.day <= SessionDay(clock.at) /\ Close(q.day) <= at}}

FetchedFilings(clock, at) ==
    {[asset |-> f.asset, period |-> f.period, accepted |-> f.accepted,
      source |-> f.source, growth |-> f.growth, pe |-> f.pe, ingested |-> at] :
        f \in {g \in Filings : g.period <= Day(clock.at) /\ g.accepted <= at}}

FetchedObservations(clock, at) ==
    {[series |-> o.series, day |-> o.day, vintage |-> o.vintage, value |-> o.value,
      ingested |-> at] :
        o \in {p \in Observations : p.vintage <= ProviderDay(clock.at)
                                    /\ p.vintage <= ProviderDay(at)}}

---------------------------------------------------------------------------
(* The databases.                                                          *)

Cutoff(run) == Day(run.clock.at)
SeedTables == InstallSeed(EmptyTables, Seed)

UniverseOf(run, sector) == Latest(run.db.universes, sector, Cutoff(run))
StateOf(run, sector) == Latest(run.db.states, sector, Cutoff(run))
MacroOf(run, sector) == Latest(run.db.macros, sector, Cutoff(run))

(* The seed, its memberships again as curated ones, and the mappings of    *)
(* the benchmarks that have prices.                                        *)
ResearchUniverse(bars, date) ==
    LET priced == {b.asset : b \in bars}
        curated == AddMemberships(SeedTables,
                                  Promoted(ToSet(Seed.memberships), CuratedVersion))
    IN  AddBenchmarks(curated, {ResolvedBenchmark(Candidates[s], priced, date) :
                                    s \in ToSet(Sectors)})

---------------------------------------------------------------------------
Init ==
    /\ now = FirstInstant
    /\ states = {}
    /\ macros = {}
    /\ radars = <<>>
    /\ outputs = {}
    /\ contexts = {}

Tick ==
    /\ now < LastInstant
    /\ now' = now + 1
    /\ UNCHANGED <<states, macros, radars, outputs, contexts>>

(* The state script.  The seed must be valid, every price series there,    *)
(* every input usable.                                                     *)
RunState(clock) ==
    LET bars == FetchedBars(clock, now)
        filings == FetchedFilings(clock, now)
        db == ResearchUniverse(bars, Day(clock.at))
        universes == {Universe(db, s, Day(clock.at), CuratedVersion) : s \in ToSet(Sectors)}
    IN  /\ Cardinality(states) < MaxStates
        /\ ~SeedRejected(Seed, ToSet(Sectors))
        /\ {p.asset : p \in Prices} \subseteq {b.asset : b \in bars}
        /\ ~StateInputRejected(Day(clock.at), bars, filings, clock.at, ModeOf(clock))
        /\ states' = states \union
               {[clock |-> clock, at |-> now,
                 db |-> [db EXCEPT !.universes = universes,
                                   !.states = {ComputeState(u, bars, filings) :
                                                  u \in universes}]]}
        /\ UNCHANGED <<now, macros, radars, outputs, contexts>>

(* The macro script: it copies universes and states into its own database. *)
RunMacro(state, clock) ==
    LET bars == FetchedBars(clock, now)
        observations == FetchedObservations(clock, now)
        Of(universe) == {b \in bars : b.asset = universe.benchmarks[1]}
        computed == {ComputeMacro(u, StateOf(state, u.sector), Of(u), observations) :
                        u \in state.db.universes}
    IN  /\ Cardinality(macros) < MaxMacros
        /\ Day(clock.at) = Cutoff(state)
        /\ \A u \in state.db.universes :
              /\ u.benchmarks # <<>>
              /\ ~MacroInputRejected(u, StateOf(state, u.sector), Of(u), observations,
                                     clock.at, ModeOf(clock))
        /\ macros' = macros \union
               {[clock |-> clock, at |-> now,
                 db |-> [SeedTables EXCEPT !.universes = state.db.universes,
                                           !.states = state.db.states,
                                           !.macros = computed]]}
        /\ UNCHANGED <<now, states, radars, outputs, contexts>>

---------------------------------------------------------------------------
(* The radar script.  The databases of the two snapshots are of the date   *)
(* of the cutoff; the bars are those stored with the state.                *)

SameDate(state, macro, clock) ==
    Day(clock.at) = Cutoff(state) /\ Day(clock.at) = Cutoff(macro)

(* What is detected of a sector: nothing but a failure when its input or   *)
(* an event is refused.                                                    *)
Detection(state, macro, clock, sector) ==
    LET universe == UniverseOf(state, sector)
        bars == {b \in FetchedBars(state.clock, state.at) : b.asset \in universe.assets}
        memberships == ListSectorMemberships(state.db, sector, Day(clock.at))
        events == Detect(StateOf(state, sector), MacroOf(macro, sector), bars, {}, {},
                         memberships, EffectiveRows(state.db.nodes, Day(clock.at)),
                         EffectiveRows(state.db.edges, Day(clock.at)), clock.at)
    IN  [events |-> events,
         fails |-> \/ RadarInputRejected(StateOf(state, sector), MacroOf(macro, sector),
                                         bars, {}, {}, memberships, clock.at,
                                         ModeOf(clock))
                   \/ \E e \in events : EventRejected(e)]

(* The sectors are taken in order, up to one whose detection fails.        *)
StartRadar(state, macro, clock) ==
    LET found == [n \in DOMAIN Sectors |-> Detection(state, macro, clock, Sectors[n])]
        reached == {n \in DOMAIN Sectors : \A k \in 1 .. n : ~found[k].fails}
        plan == UNION {found[n].events : n \in reached}
    IN  /\ Len(radars) < MaxRadars
        /\ SameDate(state, macro, clock)
        /\ radars' = Append(radars,
               [db |-> SeedTables, memories |-> {}, event |-> None, scopes |-> {},
                plan |-> plan, left |-> plan,
                detects |-> reached = DOMAIN Sectors, status |-> "running"])
        /\ UNCHANGED <<now, states, macros, outputs, contexts>>

Running(n) == radars[n].status = "running"

(* Events are taken by the place of their sector, then by their time.      *)
Sooner(e, f) ==
    \E i, j \in DOMAIN Sectors :
        /\ Sectors[i] = e.sector /\ Sectors[j] = f.sector
        /\ i < j \/ (i = j /\ e.time <= f.time)

Current(n) == {e \in radars[n].left : \A f \in radars[n].left : Sooner(e, f)}

(* The event and its links are committed before its memories are written.  *)
PersistEvent(n) ==
    /\ Running(n)
    /\ radars[n].scopes = {}
    /\ \E e \in Current(n) :
          /\ ~ScopesRejected(radars[n].db, e)
          /\ radars' = [radars EXCEPT ![n].db = SaveEvent(@, e),
                                      ![n].event = e,
                                      ![n].scopes = RequestedScopes(radars[n].db, e),
                                      ![n].left = @ \ {e}]
    /\ UNCHANGED <<now, states, macros, outputs, contexts>>

Remembering(n, scope, left) ==
    [radars EXCEPT ![n].memories = @ \union {EventMemory(radars[n].event, scope)},
                   ![n].scopes = left,
                   ![n].event = IF left = {} THEN None ELSE @]

(* An event is remembered under its first scope only.                      *)
WriteOneMemory(n) ==
    LET scope == CHOOSE s \in radars[n].scopes : TRUE
    IN  /\ Running(n)
        /\ radars[n].scopes # {}
        /\ radars' = Remembering(n, scope, {})
        /\ UNCHANGED <<now, states, macros, outputs, contexts>>

WriteMemory(n) ==
    LET scope == CHOOSE s \in radars[n].scopes : TRUE
    IN  /\ Running(n)
        /\ radars[n].scopes # {}
        /\ radars' = Remembering(n, scope, radars[n].scopes \ {scope})
        /\ UNCHANGED <<now, states, macros, outputs, contexts>>

FinishRadar(n) ==
    /\ Running(n)
    /\ radars[n].left = {} /\ radars[n].scopes = {}
    /\ radars' = [radars EXCEPT ![n].status = IF radars[n].detects
                                              THEN "complete" ELSE "failed"]
    /\ UNCHANGED <<now, states, macros, outputs, contexts>>

(* A write of memory fails, an event has no scope, or the process dies:    *)
(* what was committed stays.                                               *)
AbortRadar(n) ==
    /\ Running(n)
    /\ radars' = [radars EXCEPT ![n].status = "failed"]
    /\ UNCHANGED <<now, states, macros, outputs, contexts>>

---------------------------------------------------------------------------
(* The research script.                                                    *)

InputOf(state, macro, radar, clock, sector) ==
    LET date == Day(clock.at)
        nodes == EffectiveRows(state.db.nodes, date)
        own == {n.node : n \in {k \in nodes : k.sector = sector}}
        edges == {e \in EffectiveRows(state.db.edges, date) :
                     {e.source, e.target} \intersect own # {}}
        near == own \union UNION {{e.source, e.target} : e \in edges}
    IN  [asOf |-> clock.at, sector |-> sector, scope |-> Scope[sector],
         universe |-> UniverseOf(state, sector), state |-> StateOf(state, sector),
         macro |-> MacroOf(macro, sector),
         mapping |-> GetBenchmark(state.db, sector, date),
         chains |-> {c \in ToSet(Seed.chains) :
                        c.sector = sector /\ c.active /\ Effective(c, date)},
         memberships |-> ListSectorMemberships(state.db, sector, date),
         nodes |-> {n \in nodes : n.node \in near}, edges |-> edges,
         chainScopes |-> {}, memory |-> {},
         events |-> AnomaliesForScope(radar.db, Scope[sector], clock.at)]

(* The inputs of all sectors, with their evidence; refused when one is.    *)
Inputs(state, macro, radar, clock) ==
    {[in |-> i, evidence |-> EvidenceOf(i)] :
        i \in {InputOf(state, macro, radar, clock, s) : s \in ToSet(Sectors)}}

InputsRefused(inputs) == \E i \in inputs : InputRejected(i.in) \/ EvidenceRepeats(i.in)

(* A bound: one run of the two scripts that read a radar's database.  They *)
(* write files of their own and neither reads the other's.                 *)
NoReader == outputs = {} /\ contexts = {}

(* A draft of the model: each claim cites all evidence of some kinds, and  *)
(* an identity it made up when it is said to invent.                       *)
AnswerOf(template, evidence) ==
    LET CitesOf(c) == {e.id : e \in {k \in evidence : k.kind \in c.kinds}}
                        \union (IF c.invents THEN {<<"unknown">>} ELSE {})
    IN  [status |-> template.status, support |-> template.support,
         uncertainties |-> {},
         claims |-> [n \in DOMAIN template.claims |->
                       [path |-> n, cites |-> CitesOf(template.claims[n])]
                           @@ template.claims[n]]]

(* An input that is refused ends the script before it writes anything; a   *)
(* sector whose execution fails is left out.                               *)
Research(state, macro, n, clock) ==
    LET inputs == Inputs(state, macro, radars[n], clock)
    IN  /\ SameDate(state, macro, clock)
        /\ ~Running(n)
        /\ NoReader
        /\ ~InputsRefused(inputs)
        /\ \E t \in Templates :
              outputs' = {[radar |-> n, snapshot |-> state.clock, clock |-> clock,
                           output |-> x.output] :
                             x \in {e \in {Execution(i.in, AnswerOf(t, i.evidence), i.evidence) :
                                              i \in inputs} : e.status = "ok"}}
        /\ UNCHANGED <<now, states, macros, radars, contexts>>

(* The context of an asset, from the memberships and events a resolver     *)
(* finds; refused when its parts disagree.                                 *)
Resolve(state, macro, radar, clock, asset, results) ==
    LET held == ListMemberships(state.db, asset, Day(clock.at))
        sector == Primary(held).sector
        mine == {r \in results : r.sector = sector}
        output == IF mine = {} THEN None ELSE CHOOSE r \in mine : TRUE
        events == UNION {AnomaliesForScope(radar.db, s, clock.at) :
                            s \in ResolverScopes(sector, held, output)}
    IN  IF held = {} THEN [refused |-> FALSE, bundle |-> None]
        ELSE Resolution(asset, clock.at, held, output, StateOf(state, sector),
                        MacroOf(macro, sector), events, ToSet(Seed.chains))

(* The fixed draft for every sector, then the context of every asset in    *)
(* turn: one that is refused ends the script, the earlier ones are written.*)
Integrate(state, macro, n, clock) ==
    LET inputs == Inputs(state, macro, radars[n], clock)
        executed == {Execution(i.in, FixedAnswer(i.in, i.evidence), i.evidence) :
                        i \in inputs}
        results == {e.output : e \in executed}
        resolved == [k \in DOMAIN Assets |->
                       Resolve(state, macro, radars[n], clock, Assets[k], results)]
        refused == {k \in DOMAIN Assets : resolved[k].refused}
        written == {k \in DOMAIN Assets : \A i \in refused : k < i}
    IN  /\ NoReader
        /\ SameDate(state, macro, clock)
        /\ ~Running(n)
        /\ ~InputsRefused(inputs)
        /\ \A i \in inputs : ~FixedFails(i.evidence)
        /\ \A e \in executed : e.status = "ok"
        /\ contexts' = {[radar |-> n, clock |-> clock, bundle |-> resolved[k].bundle] :
                            k \in {i \in written : resolved[i].bundle # None}}
        /\ UNCHANGED <<now, states, macros, radars, outputs>>

Next ==
    \/ Tick
    \/ \E c \in Given : RunState(c)
    \/ \E s \in states, c \in Given : RunMacro(s, c)
    \/ \E s \in states, m \in macros, c \in Given : StartRadar(s, m, c)
    \/ \E n \in DOMAIN radars : PersistEvent(n)
    \/ \E n \in DOMAIN radars : WriteMemory(n)
    \/ \E n \in DOMAIN radars : FinishRadar(n)
    \/ \E n \in DOMAIN radars : AbortRadar(n)
    \/ \E s \in states, m \in macros, n \in DOMAIN radars, c \in Given :
          Research(s, m, n, c)
    \/ \E s \in states, m \in macros, n \in DOMAIN radars, c \in Given :
          Integrate(s, m, n, c)

Spec == Init /\ [][Next]_vars

---------------------------------------------------------------------------
(* What a research input sees of the radar.                                *)
Seen(o) == AnomaliesForScope(radars[o.radar].db, Scope[o.output.sector], o.clock.at)

(* Every high or critical event filed under the sector by the cutoff is    *)
(* cited by a claim that survived validation, and not by one that calls a  *)
(* propagation candidate certain: the count is of accepted claims          *)
(* (_mandatory_event_coverage_matrix), whatever the model drafted.         *)
MandatoryEventsAreCited ==
    \A o \in outputs : \A e \in Mandatory(Seen(o)) :
        \E n \in DOMAIN o.output.claims : EventRef(e) \in o.output.claims[n].cites

(* The same, of a live run and of every event that was available at its    *)
(* cutoff, as the radar query says of itself (list_anomalies_for_scope).   *)
AvailableEventsAreCited ==
    \A o \in outputs : \A e \in Mandatory(radars[o.radar].db.events) :
        /\ ModeOf(o.clock) = "live"
        /\ <<e.id, Scope[o.output.sector]>> \in radars[o.radar].db.links
        /\ e.asOf = o.clock.at
        /\ e.available <= o.clock.at
        => \E n \in DOMAIN o.output.claims : EventRef(e) \in o.output.claims[n].cites

(* From the radar's database to the role that must weigh it: a high event  *)
(* that concerns an asset and was there by the cutoff is referenced by the *)
(* asset's context and shown to the Risk Manager with a claim on it, after *)
(* scope filing, retrieval, coverage, the context's filter and projection. *)
(* The draft is the integration script's own, which files every high event *)
(* under a category the Risk Manager is shown.                             *)
HighEventsReachRisk ==
    \A c \in contexts : \A e \in Mandatory(AnomaliesForScope(
            radars[c.radar].db, Scope[c.bundle.sector], c.clock.at)) :
        \/ e.chains = {}
        \/ e.chains \intersect c.bundle.chains # {}
        \/ c.bundle.asset \in e.sources \union e.affected
        => LET shown == ForRole(c.bundle, "risk")
            IN  \E r \in shown.events : /\ r.event = e.id
                                        /\ r.claims \intersect shown.validated # {}

(* At every point of a radar run, an abort included, a memory stands for a *)
(* stored event linked to the memory's scope; a complete run has stored    *)
(* every event and remembered it under every scope it is linked to.        *)
RadarIsProjected ==
    \A n \in DOMAIN radars :
        LET r == radars[n]
            remembered == {<<m.event, m.scope>> : m \in r.memories}
        IN  /\ remembered \subseteq r.db.links
            /\ {l[1] : l \in r.db.links} = {e.id : e \in r.db.events}
            /\ r.status = "complete" =>
                  /\ r.db.links \subseteq remembered
                  /\ r.db.events = r.plan
=============================================================================
