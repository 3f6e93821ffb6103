--------------------------- MODULE SectorContext ----------------------------
(***************************************************************************)
(* The Sector context of an asset: which membership is its primary one,    *)
(* what of the sector's research, state and events is bound to it, and     *)
(* what of that each Agent role is shown.                                  *)
(***************************************************************************)
EXTENDS SectorResearch

CONSTANT Rank       \* sector -> its place in the order of the identities

---------------------------------------------------------------------------
(* The primary membership: the highest weight, then the highest            *)
(* confidence, then the sector; a last tie leaves the sector as it is.     *)

Precedes(m, k) ==
    \/ m.weight > k.weight
    \/ /\ m.weight = k.weight
       /\ \/ m.confidence > k.confidence
          \/ /\ m.confidence = k.confidence
             /\ Rank[m.sector] <= Rank[k.sector]

Primary(memberships) == CHOOSE m \in memberships : \A k \in memberships : Precedes(m, k)

SectorMemberships(memberships) ==
    {m \in memberships : m.sector = Primary(memberships).sector}

---------------------------------------------------------------------------
CombinedQuality(state, macro, seedOnly) ==
    IF "missing" \in {state.status, macro.status} THEN "missing"
    ELSE IF seedOnly \/ "partial" \in {state.status, macro.status} THEN "partial"
    ELSE "available"

AlignmentRejected(asOf, sector, output, state, macro) ==
    \/ \E s \in {output, state, macro} : s.sector # sector
    \/ output.asOf # asOf
    \/ state.asOf > Day(asOf)
    \/ macro.asOf > Day(asOf)
    \/ macro.source # state

(* The events of the sector as a whole, or of one of the asset's chains.   *)
SharesChain(event, asset, chains) ==
    event.chains = {} \/ event.chains \intersect chains # {}

(* The events that concern the asset: those of the sector as a whole, of   *)
(* one of its chains, or those that name it.                               *)
Concerns(event, asset, chains) ==
    \/ event.chains = {}
    \/ event.chains \intersect chains # {}
    \/ asset \in event.sources \union event.affected

ActiveEvents(events, asset, sector, chains, asOf) ==
    {e \in events : /\ e.sector = sector
                    /\ e.available <= asOf
                    /\ e.ingested <= asOf
                    /\ Concerns(e, asset, chains)}

ClaimsOn(event, claims) == {n \in DOMAIN claims : EventRef(event) \in claims[n].cites}

Reference(event, chains, claims) ==
    [event |-> event.id, severity |-> event.severity, available |-> event.available,
     chains |-> event.chains \intersect chains, claims |-> ClaimsOn(event, claims)]

(* Of the events, those an accepted claim cites.                           *)
EventReferences(events, chains, claims) ==
    {Reference(e, chains, claims) : e \in {k \in events : ClaimsOn(k, claims) # {}}}

(* The identity digests asset, cutoff, sector, the claims' numbers and the *)
(* versions of the memberships.                                            *)
ContextId(asset, asOf, output, memberships) ==
    <<asset, asOf, output.sector, DOMAIN output.claims, {m.version : m \in memberships}>>

BundleOf(asset, asOf, memberships, output, state, macro, events, chains) ==
    LET own == SectorMemberships(memberships)
        sector == Primary(memberships).sector
        active == (UNION {ToSet(m.chains) : m \in own})
                    \intersect {c.chain : c \in {k \in chains :
                                    k.sector = sector /\ Effective(k, Day(asOf))}}
        refs == EventReferences(ActiveEvents(events, asset, sector, active, asOf),
                                active, output.claims)
        seedOnly == \A m \in own : m.source = "seed"
    IN  [id |-> ContextId(asset, asOf, output, own),
         asset |-> asset, sector |-> sector, scope |-> output.scope, asOf |-> asOf,
         versions |-> {m.version : m \in own}, chains |-> active,
         cycle |-> output.cycle, claims |-> output.claims, events |-> refs,
         memberships |-> Cardinality(own),
         quality |-> CombinedQuality(state, macro, seedOnly),
         seedOnly |-> seedOnly, missing |-> output.missing]

(* What the bundle and resolution contracts refuse: an event that is not   *)
(* yet available, or a bundle whose quality is missing.                    *)
BundleRejected(bundle) ==
    \/ \E r \in bundle.events : \/ r.available > bundle.asOf
                                \/ ~(r.claims \subseteq DOMAIN bundle.claims)
    \/ bundle.quality = "missing"

---------------------------------------------------------------------------
(* The builder.  Absent research degrades to a missing resolution; parts   *)
(* that disagree are an error.                                             *)

BuildDegrades(effective, output, state, macro) ==
    effective = {} \/ output = None \/ state = None \/ macro = None

Resolution(asset, asOf, memberships, output, state, macro, events, chains) ==
    LET effective == {m \in memberships : m.asset = asset /\ Effective(m, Day(asOf))}
        bundle == BundleOf(asset, asOf, effective, output, state, macro, events, chains)
    IN  IF BuildDegrades(effective, output, state, macro)
        THEN [refused |-> FALSE, bundle |-> None]
        ELSE [refused |-> \/ AlignmentRejected(asOf, Primary(effective).sector,
                                               output, state, macro)
                          \/ BundleRejected(bundle),
              bundle |-> bundle]

(* The events a resolver reads: those filed under the sector's own name,   *)
(* under the scope of its research, and under the asset's chains.          *)
ResolverScopes(sector, memberships, output) ==
    {<<"sector", sector>>}
        \union {ScopeOfChain(c) : c \in UNION {ToSet(m.chains) : m \in memberships}}
        \union (IF output = None THEN {} ELSE {output.scope})

---------------------------------------------------------------------------
(* What each role is shown.                                                *)

Analysts == {"fundamental", "technical_text", "sentiment", "news_event"}
Managers == {"research", "bull", "bear", "risk"}
Roles == Analysts \union Managers

RoleCategories ==
    [fundamental |-> {"fundamentals", "valuation", "cycle", "anomalies"},
     technical_text |-> {"trend", "breadth", "leaders_laggards", "cycle", "anomalies"},
     sentiment |-> {"anomalies", "catalysts", "risks"},
     news_event |-> {"anomalies", "industry_chains", "catalysts", "risks"},
     research |-> Categories,
     bull |-> {"trend", "fundamentals", "macro_environment", "industry_chains",
               "catalysts", "cycle"},
     bear |-> {"trend", "breadth", "macro_sensitivity", "anomalies", "risks", "cycle"},
     risk |-> {"macro_environment", "macro_sensitivity", "industry_chains",
               "anomalies", "risks", "cycle"}]

EventRoles == {"news_event", "research", "risk"}

(* An analyst is given summaries, a manager claims it may name upstream.   *)
ForRole(bundle, role) ==
    LET selected == {n \in DOMAIN bundle.claims :
                        bundle.claims[n].category \in RoleCategories[role]}
    IN  [context |-> IF role \in Analysts THEN selected ELSE {},
         validated |-> IF role \in Managers THEN selected ELSE {},
         events |-> IF role \in EventRoles
                    THEN {r \in bundle.events : r.claims \intersect selected # {}}
                    ELSE {}]

=============================================================================
