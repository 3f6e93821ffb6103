---------------------------- MODULE SectorRadar ----------------------------
(***************************************************************************)
(* The anomaly radar of a sector: the events its deterministic rules find  *)
(* in prices, breadth, company events, news and macro series, the          *)
(* candidates they propagate to along the ontology, and the scopes an      *)
(* event is filed and remembered under.                                    *)
(*                                                                         *)
(* Whether a bar is anomalous (its z-score and its volume ratio) is part   *)
(* of the bar: "none", "medium" or "high".  Directions, confidences and    *)
(* the wording of summaries are left out.                                  *)
(***************************************************************************)
EXTENDS SectorState

CONSTANTS
    MinBars,             \* bars a price anomaly needs
    WideDispersion,      \* dispersion of returns that counts as an anomaly
    WideDivergence,      \* percent by which the shares of two windows must differ
    MaterialSurprise,    \* earnings surprise that counts as one
    MaterialChange,      \* change of a macro series that counts as one
    SevereChange,        \* and that makes the event severe
    Correlated           \* series whose association with the sector is strong

---------------------------------------------------------------------------
(* Events.  The identity digests type, sector, chains, assets, time and    *)
(* evidence; neither the severity nor the times of availability.           *)

EventId(e) == <<e.type, e.sector, e.chains, e.sources, e.affected, e.time, e.evidence>>

Event(e) == [f \in {"id"} \union DOMAIN e |-> IF f = "id" THEN EventId(e) ELSE e[f]]

EventTimes(e) ==
    [available |-> e.available, ingested |-> e.ingested, asOf |-> e.asOf,
     from |-> Unknown, to |-> Unknown]

(* What the event contract refuses: an event or a publication later than   *)
(* its availability, and an event that was not available at its cutoff.    *)
EventRejected(e) ==
    \/ e.time > e.available
    \/ e.published > e.available
    \/ ~UsableAt(EventTimes(e), e.asOf, "live")
    \/ (e.status = "candidate") # (e.type = "propagation")
    \/ e.status = "candidate" /\ e.chains = {}

AssetChains(asset, memberships) ==
    UNION {ToSet(m.chains) : m \in {k \in memberships : k.asset = asset}}

BarsOf(bars, asset) == {b \in bars : b.asset = asset}

LastBar(bars, asset) ==
    CHOOSE b \in BarsOf(bars, asset) : \A c \in BarsOf(bars, asset) : c.day <= b.day

PriceEvent(sector, asset, last, memberships, cutoff) ==
    Event([type |-> "price_volume", sector |-> sector,
           chains |-> AssetChains(asset, memberships),
           sources |-> {asset}, affected |-> {asset}, severity |-> last.shock,
           time |-> Midnight(last.day), published |-> Midnight(last.day),
           available |-> Close(last.day), ingested |-> last.ingested,
           asOf |-> cutoff, evidence |-> {<<"bar", asset, last.day>>},
           status |-> "detected"])

PriceEvents(state, bars, memberships, cutoff) ==
    {PriceEvent(state.sector, a, LastBar(bars, a), memberships, cutoff) :
        a \in {b.asset : b \in {c \in bars :
                  /\ Cardinality(BarsOf(bars, c.asset)) >= MinBars
                  /\ LastBar(bars, c.asset).shock # "none"}}}

(* Events of the state as a whole: they name no chain and no asset.        *)
StateEvent(type, sector, severity, time, cutoff, evidence) ==
    Event([type |-> type, sector |-> sector, chains |-> {}, sources |-> {},
           affected |-> {}, severity |-> severity, time |-> time,
           published |-> time, available |-> cutoff, ingested |-> cutoff,
           asOf |-> cutoff, evidence |-> evidence, status |-> "detected"])

Size(change) == IF change < 0 THEN -change ELSE change

(* The shares of assets above their average, or with a gain, of which the  *)
(* metrics are counts, differ between two windows.                         *)
Diverge(short, long) ==
    /\ short.value # None /\ long.value # None
    /\ Size(short.value * long.coverage - long.value * short.coverage) * 100
         >= WideDivergence * short.coverage * long.coverage

BreadthEvents(state, cutoff) ==
    LET breadth == state.breadth
        anomalous == \/ Diverge(breadth.above20, breadth.above60)
                     \/ Diverge(breadth.positive5, breadth.positive20)
                     \/ /\ breadth.dispersion.value # None
                        /\ breadth.dispersion.value >= WideDispersion
    IN  IF anomalous
        THEN {StateEvent("breadth", state.sector, "medium", cutoff, cutoff,
                         {<<"state", state.sector, state.asOf>>})}
        ELSE {}

(* Earnings with both figures count by their surprise; any other company   *)
(* event by its severity.                                                  *)
Surprising(r) == r.surprise >= MaterialSurprise \/ r.surprise <= -MaterialSurprise
CorporateType(r) == IF r.earnings /\ r.surprise # None THEN "earnings" ELSE "news"
Corporate(r) ==
    IF CorporateType(r) = "earnings" THEN Surprising(r)
    ELSE r.severity \in {"high", "critical"}

CorporateEvents(state, records, memberships, cutoff) ==
    {Event([type |-> CorporateType(r), sector |-> state.sector,
            chains |-> AssetChains(r.asset, memberships),
            sources |-> {r.asset}, affected |-> {r.asset}, severity |-> r.severity,
            time |-> r.time, published |-> r.time, available |-> r.time,
            ingested |-> r.time, asOf |-> cutoff,
            evidence |-> {<<"document", r.document>>}, status |-> "detected"]) :
        r \in {k \in records : k.asset # None /\ Corporate(k)}}

NewsEvents(state, records, memberships, cutoff) ==
    {Event([type |-> "news", sector |-> state.sector,
            chains |-> AssetChains(r.asset, memberships),
            sources |-> {r.asset}, affected |-> {r.asset}, severity |-> "medium",
            time |-> r.created, published |-> r.created,
            available |-> Max({r.created, r.ingested}), ingested |-> r.ingested,
            asOf |-> cutoff, evidence |-> {<<"news", r.news>>},
            status |-> "detected"]) : r \in {k \in records : k.material}}

(* A strong change of a series the sector is measurably associated with.   *)
MacroEvent(macro, signal, cutoff) ==
    StateEvent("macro_shock", macro.sector,
               IF Size(signal.change) >= SevereChange THEN "high" ELSE "medium",
               Midnight(signal.day), cutoff,
               {<<"macro", macro.sector, macro.asOf>>,
                <<"series", signal.series, signal.day>>})

MacroEvents(macro, cutoff) ==
    LET signals == UNION {macro.cycle[d].signals : d \in DOMAIN macro.cycle}
        strong == {s \in signals :
                      /\ \E e \in macro.estimates :
                            e.series = s.series /\ e.status = "available"
                      /\ s.change # None
                      /\ Size(s.change) >= MaterialChange
                      /\ s.series \in Correlated}
    IN  {MacroEvent(macro, s, cutoff) : s \in strong}

---------------------------------------------------------------------------
(* Propagation along the graph.                                            *)

(* The chains each asset is connected to by an edge between the two nodes; *)
(* of two asset nodes, or of two chains, the source is taken for both.     *)
Connections(nodes, edges) ==
    LET NodeOf(id) == {n \in nodes : n.node = id}
        AssetEnd(s, t) == IF s.type = "asset" THEN s ELSE t
        ChainEnd(s, t) == IF t.type = "chain" THEN t ELSE s
    IN  {c \in {n.asset : n \in nodes} \X {n.chain : n \in nodes} :
            \E e \in edges : \E s \in NodeOf(e.source), t \in NodeOf(e.target) :
                /\ c[1] # None /\ AssetEnd(s, t).asset = c[1]
                /\ c[2] # None /\ ChainEnd(s, t).chain = c[2]}

Candidate(event, chains, affected, cutoff) ==
    Event([type |-> "propagation", sector |-> event.sector, chains |-> chains,
           sources |-> event.sources, affected |-> affected,
           severity |-> event.severity, time |-> event.time,
           published |-> event.published, available |-> event.available,
           ingested |-> event.ingested, asOf |-> cutoff,
           evidence |-> event.evidence, status |-> "candidate"])

PropagationOf(event, memberships, connections, cutoff) ==
    LET chains == event.chains \union
                    {c[2] : c \in {k \in connections : k[1] \in event.sources}}
        members == {m.asset : m \in {k \in memberships :
                                        ToSet(k.chains) \intersect chains # {}}}
        connected == {c[1] : c \in {k \in connections : k[2] \in chains}}
        affected == (members \union connected) \ event.sources
    IN  IF chains = {} \/ affected = {} THEN {}
        ELSE {Candidate(event, chains, affected, cutoff)}

---------------------------------------------------------------------------
(* Detection.                                                              *)

RadarInputRejected(state, macro, bars, corporate, news, memberships, cutoff, mode) ==
    \/ Day(cutoff) # state.asOf
    \/ <<state.sector, state.asOf>> # <<macro.sector, macro.asOf>>
    \/ \E b \in bars : b.day > Day(cutoff) \/ ~UsableAt(BarTimes(b), cutoff, mode)
    \/ \E r \in corporate : ~UsableAt(Times(r.time, Unknown), cutoff, mode)
    \/ \E r \in news : ~UsableAt(Times(r.created, r.ingested), cutoff, mode)
    \/ \E m \in memberships : m.sector # state.sector \/ ~Effective(m, Day(cutoff))

BaseEvents(state, macro, bars, corporate, news, memberships, cutoff) ==
    PriceEvents(state, bars, memberships, cutoff)
        \union BreadthEvents(state, cutoff)
        \union CorporateEvents(state, corporate, memberships, cutoff)
        \union NewsEvents(state, news, memberships, cutoff)
        \union MacroEvents(macro, cutoff)

Detect(state, macro, bars, corporate, news, memberships, nodes, edges, cutoff) ==
    LET base == BaseEvents(state, macro, bars, corporate, news, memberships, cutoff)
        connections == Connections(nodes, edges)
    IN  base \union UNION {PropagationOf(e, memberships, connections, cutoff) : e \in base}

---------------------------------------------------------------------------
(* The scopes of an event: its sector's, found by the name the ontology    *)
(* gives the sector, its chains' and its source assets'.                   *)

ScopeOfChain(c) == <<"chain", c>>
ScopeOfAsset(a) == <<"asset", a>>

SectorScopes(db, sector, date) ==
    LET names == {n.name : n \in {k \in EffectiveRows(db.nodes, date) :
                                     k.type = "sector" /\ k.sector = sector}}
    IN  {s.scope : s \in {k \in EffectiveRows(db.scopes, date) :
                             k.type = "sector" /\ k.name \in names}}

RequestedScopes(db, event) ==
    SectorScopes(db, event.sector, Day(event.asOf))
        \union {ScopeOfChain(c) : c \in event.chains}
        \union {ScopeOfAsset(a) : a \in event.sources}

ScopesRejected(db, event) ==
    LET known == {s.scope : s \in EffectiveRows(db.scopes, Day(event.asOf))}
    IN  \/ Cardinality(SectorScopes(db, event.sector, Day(event.asOf))) # 1
        \/ ~(RequestedScopes(db, event) \subseteq known)

(* The event and its links are one transaction; a known event is kept.     *)
SaveEvent(db, event) ==
    [db EXCEPT
       !.events = InsertNew(@, {event}, {"id"}),
       !.links = @ \union {<<event.id, s>> : s \in RequestedScopes(db, event)}]

(* The memory of an event under one of its scopes.                         *)
EventMemory(event, scope) ==
    [scope |-> scope, event |-> event.id,
     level |-> IF event.type = "macro_shock" THEN "L1" ELSE "L2",
     asset |-> IF \E a \in event.sources : scope = ScopeOfAsset(a)
               THEN CHOOSE a \in event.sources : scope = ScopeOfAsset(a) ELSE None,
     time |-> event.available, weight |-> event.severity]
=============================================================================
