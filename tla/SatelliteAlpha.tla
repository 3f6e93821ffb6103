---------------------------- MODULE SatelliteAlpha ----------------------------
(***************************************************************************)
(* Satellite observations: raw research descriptors read off one frozen    *)
(* state, each with the coverage it has and the references it rests on.    *)
(* The name of a normalized feature is a pair of its namespace and its     *)
(* item, <<"risk", "demand">> for satellite.risk.demand; a claim id is a   *)
(* triple of the agent, the path in its output and the index there.        *)
(***************************************************************************)
EXTENDS ResearchState, SequencesExt

(* The families: who may use a descriptor, the sections it is read from    *)
(* and the number of states it needs.                                      *)
Family(usage, dimensions, points) ==
    [usage |-> usage, dimensions |-> dimensions, points |-> points]

Registry ==
    [CHAIN_BENEFIT_ELASTICITY |-> Family("SELECTION", {"industry_chain"}, 1),
     EXPECTATION_REVISION     |-> Family("BOTH", {"event", "thesis"}, 1),
     LOGIC_CERTAINTY          |-> Family("SELECTION", {"event", "thesis"}, 1),
     RISK_BURDEN              |-> Family("SELECTION", {"risk"}, 1),
     EVIDENCE_STRENGTH        |-> Family("SELECTION", Sections, 1),
     SECTOR_CHAIN_ALIGNMENT   |->
        Family("SELECTION", {"sector", "industry_chain"}, 1),
     RESEARCH_DISAGREEMENT    |-> Family("SELECTION", {"debate"}, 1),
     STATE_TRANSITION         |-> Family("TIMING", Sections, 2),
     EXPECTATION_REVISION_VELOCITY |->
        Family("TIMING", {"event", "thesis"}, 3),
     EVENT_WINDOW             |-> Family("TIMING", {"event"}, 1),
     THESIS_UPGRADE_DOWNGRADE |-> Family("TIMING", {"thesis"}, 2),
     RISK_ESCALATION          |-> Family("TIMING", {"risk"}, 2),
     EVIDENCE_CONFIRMATION    |-> Family("TIMING", Sections, 2),
     CATALYST_PROXIMITY       |-> Family("TIMING", {"event", "thesis"}, 1)]

Families == DOMAIN Registry
SelectionFamilies == {f \in Families : Registry[f].usage # "TIMING"}

LogicStages ==
    {"rumor", "early_signal", "expectation_forming", "order_expectation",
     "order_confirmed", "delivery_confirmed", "revenue_realized",
     "repeated_validation", "invalidated", "uncertain"}
RevisionDirections ==
    {"upgrade", "unchanged", "downgrade", "mixed", "uncertain"}
Alignments ==
    {"positive_alignment", "negative_alignment", "mixed", "weak_relation",
     "uncertain"}
Disagreements ==
    {"consensus_positive", "consensus_negative", "high_disagreement",
     "risk_dominant", "mixed", "uncertain"}

---------------------------------------------------------------------------
(* Looking up features: pairs of a section and a feature of it.            *)
SectionOrder ==
    <<"identity", "macro", "sector", "industry_chain", "fundamental",
      "valuation", "technical", "sentiment", "event", "market_context",
      "debate", "risk", "thesis", "data_quality", "memory_context">>

Normalized(namespace, item) == <<"field", <<namespace, item>>>>

In(state, sections) ==
    UNION {{<<s, f>> : f \in state.sections[s].features} : s \in sections}

(* The feature of that name in the first section that has one, or None.    *)
Find(state, order, name) ==
    LET holding == {i \in DOMAIN order :
                      \E f \in state.sections[order[i]].features :
                          f.name = name}
        section == order[Min(holding)]
    IN IF holding = {} THEN None
       ELSE <<section, CHOOSE f \in state.sections[section].features :
                          f.name = name>>

Ref(x) == <<x[1], x[2].name>>
Sort(x) == IF x = None THEN "none" ELSE x[2].value[1]

NotAvailable(state, sections) ==
    \A s \in sections : state.sections[s].status = "not_available_at_source_run"

---------------------------------------------------------------------------
(* A component, its value resting on features; refs may be narrower than   *)
(* the features themselves.                                                *)
Component(name, value, refs, features) ==
    [name |-> name, value |-> value, refs |-> refs,
     claims |-> UNION {f.claims : f \in features},
     evidence |-> UNION {f.evidence : f \in features},
     artifacts |-> UNION {f.artifacts : f \in features}]

CategoricalComponent(name, x) == Component(name, x[2].value, {Ref(x)}, {x[2]})

CountComponent(name, selected) ==
    Component(name, <<"num", Cardinality(selected)>>,
              {Ref(x) : x \in selected}, {x[2] : x \in selected})

(* One count component for each name with something to count.              *)
Counts(selected) ==
    {CountComponent(name, selected[name]) :
        name \in {n \in DOMAIN selected : selected[n] # {}}}

ComponentContract(c) ==
    /\ c.refs # {}
    /\ c.claims # {} \/ c.evidence # {} \/ c.artifacts # {}
    /\ c.value \notin {<<"text", w>> : w \in {"buy", "sell", "long", "short"}}

Described(coverage, value, components, reasons) ==
    [coverage |-> coverage, value |-> value, components |-> components,
     reasons |-> reasons]
Unavailable(coverage, reason) == Described(coverage, None, {}, {reason})

(* What an observation promises about its own completeness.                *)
DescriptorContract(d) ==
    LET content == d.value # None \/ d.components # {}
    IN /\ CASE d.coverage = "AVAILABLE" -> content /\ d.reasons = {}
            [] d.coverage = "PARTIAL" -> content /\ d.reasons # {}
            [] OTHER -> ~content /\ d.reasons # {}
       /\ \A c \in d.components : ComponentContract(c)
       /\ \A c, e \in d.components : c.name = e.name => c = e

---------------------------------------------------------------------------
(* The descriptors of one state, family by family.                         *)
SourceCoverage(state, sections) ==
    IF NotAvailable(state, sections) THEN "NOT_AVAILABLE_AT_SOURCE_RUN"
                                     ELSE "MISSING_INPUT"

EvidenceComponents(state) ==
    LET all == In(state, Sections)
    IN Counts([attributable_feature_count |-> all,
               claim_backed_feature_count |->
                   {x \in all : x[2].claims # {}},
               evidence_backed_feature_count |->
                   {x \in all : x[2].evidence # {}},
               artifact_backed_feature_count |->
                   {x \in all : x[2].artifacts # {}}])

EvidenceStrength(state) ==
    LET components == EvidenceComponents(state)
    IN IF components = {} THEN Unavailable("EMPTY_VALID", "no features")
       ELSE Described("PARTIAL", None, components,
                      {"authority not retained", "conflicts not retained"})

ChainBenefits ==
    {"business_binding_depth", "revenue_exposure",
     "incremental_revenue_potential", "incremental_earnings_potential",
     "capacity_readiness", "competitive_position", "evidence_quality"}

ChainBenefit(state, item) ==
    LET x == Find(state, <<"industry_chain">>, Normalized("chain_benefit", item))
    IN IF Sort(x) \in {"text", "bool"} THEN x ELSE None

ChainBinding(state) ==
    LET exact == {n \in ChainBenefits : ChainBenefit(state, n) # None}
        all == In(state, {"industry_chain"})
    IN IF NotAvailable(state, {"industry_chain"})
       THEN Unavailable("NOT_AVAILABLE_AT_SOURCE_RUN", "no chain semantics")
       ELSE IF state.chains = {}
       THEN Unavailable("NOT_APPLICABLE", "no chain scope")
       ELSE IF exact # {}
       THEN Described(IF exact = ChainBenefits THEN "AVAILABLE" ELSE "PARTIAL",
                      None,
                      {CategoricalComponent(n, ChainBenefit(state, n)) :
                          n \in exact},
                      ChainBenefits \ exact)
       ELSE IF all = {} THEN Unavailable("MISSING_INPUT", "no chain binding")
       ELSE Described("PARTIAL", None,
                      {CountComponent("chain_context_feature_count", all)},
                      {"exposure unavailable"})

(* The category of a feature must be in the vocabulary.                    *)
Category(x, vocabulary, component) ==
    IF x[2].value[2] \in vocabulary
    THEN Described("AVAILABLE", x[2].value[2],
                   {CategoricalComponent(component, x)}, {})
    ELSE Unavailable("MISSING_INPUT", "outside vocabulary")

SectorAlignment(state) ==
    LET exact == Find(state, <<"sector", "industry_chain">>,
                      Normalized("sector_chain_alignment", ""))
        all == In(state, {"sector", "industry_chain"})
    IN IF NotAvailable(state, {"sector"})
       THEN Unavailable("NOT_AVAILABLE_AT_SOURCE_RUN", "no sector semantics")
       ELSE IF state.sectorScope = None \/ state.chains = {}
       THEN Unavailable("NOT_APPLICABLE", "no scopes")
       ELSE IF Sort(exact) = "text"
       THEN Category(exact, Alignments, "alignment")
       ELSE IF all = {} THEN Unavailable("MISSING_INPUT", "no relationship")
       ELSE Described("PARTIAL", "uncertain",
                      {CountComponent("relationship_context_count", all)},
                      {"no directional alignment"})

Thesis == <<"event", "thesis">>

ExpectationRevision(state) ==
    LET direction == Find(state, Thesis,
                          Normalized("expectation_revision", "direction"))
        subtype == Find(state, Thesis,
                        Normalized("expectation_revision", "subtype"))
        d == Category(direction, RevisionDirections, "direction")
    IN IF Sort(direction) # "text"
       THEN Unavailable(SourceCoverage(state, {"event", "thesis"}),
                        "no expectation direction")
       ELSE IF d.coverage = "AVAILABLE" /\ Sort(subtype) = "text"
       THEN [d EXCEPT !.components =
                @ \union {CategoricalComponent("subtype", subtype)}]
       ELSE d

LogicCertainty(state) ==
    LET stage == Find(state, Thesis, Normalized("logic_certainty", ""))
    IN IF Sort(stage) # "text"
       THEN Unavailable(SourceCoverage(state, {"event", "thesis"}),
                        "no logic stage")
       ELSE Category(stage, LogicStages, "logic_stage")

ClaimsAt(state, section, agent, path) ==
    {x \in In(state, {section}) :
        /\ x[2].name[1] = "claim"
        /\ x[2].name[2][1] = agent
        /\ path \in {None, x[2].name[2][2]}}

RiskBurden(state) ==
    LET components ==
            Counts([confirmed_risk_count |->
                        ClaimsAt(state, "risk", "risk", "confirmed_risks"),
                    scenario_risk_count |->
                        ClaimsAt(state, "risk", "risk", "scenario_risks"),
                    watch_item_count |->
                        ClaimsAt(state, "risk", "risk", "watch_items")])
    IN IF NotAvailable(state, {"risk"})
       THEN Unavailable("NOT_AVAILABLE_AT_SOURCE_RUN", "no risk claims")
       ELSE IF components = {}
       THEN Unavailable("MISSING_INPUT", "no risk paths")
       ELSE Described("PARTIAL", None, components, {"no fine categories"})

ResearchDisagreement(state) ==
    LET exact == Find(state, <<"debate">>,
                      Normalized("research_disagreement", ""))
        bull == ClaimsAt(state, "debate", "bull", None)
        bear == ClaimsAt(state, "debate", "bear", None)
        components == Counts([bull_claim_count |-> bull,
                              bear_claim_count |-> bear])
    IN IF NotAvailable(state, {"debate"})
       THEN Unavailable("NOT_AVAILABLE_AT_SOURCE_RUN", "no debate claims")
       ELSE IF Sort(exact) = "text"
       THEN Category(exact, Disagreements, "disposition")
       ELSE IF components = {} THEN Unavailable("NOT_RESEARCHED", "no debate")
       ELSE Described("PARTIAL",
                      IF bull # {} /\ bear # {} THEN "mixed" ELSE "uncertain",
                      components, {"no explicit disposition"})

(* The count of a section's features, for a family of which the state      *)
(* keeps no more.                                                          *)
SectionInventory(state, section, component) ==
    LET all == In(state, {section})
    IN IF NotAvailable(state, {section})
       THEN Unavailable("NOT_AVAILABLE_AT_SOURCE_RUN", "no section")
       ELSE IF all = {} THEN Unavailable("NOT_RESEARCHED", "empty section")
       ELSE Described("PARTIAL", None, {CountComponent(component, all)},
                      {"no event identity"})

Descriptor(state, family) ==
    CASE Registry[family].points > 1 ->
            Unavailable("REQUIRES_HISTORY", "one state")
      [] family = "EVIDENCE_STRENGTH" -> EvidenceStrength(state)
      [] family = "CHAIN_BENEFIT_ELASTICITY" -> ChainBinding(state)
      [] family = "SECTOR_CHAIN_ALIGNMENT" -> SectorAlignment(state)
      [] family = "RISK_BURDEN" -> RiskBurden(state)
      [] family = "RESEARCH_DISAGREEMENT" -> ResearchDisagreement(state)
      [] family = "EXPECTATION_REVISION" -> ExpectationRevision(state)
      [] family = "LOGIC_CERTAINTY" -> LogicCertainty(state)
      [] family = "EVENT_WINDOW" ->
            SectionInventory(state, "event", "accepted_event_context_count")
      [] family = "CATALYST_PROXIMITY" ->
            Unavailable(SourceCoverage(state, Registry[family].dimensions),
                        "no semantic field")

---------------------------------------------------------------------------
(* An observation.  Its references are those of its components and of the  *)
(* events of the sector context that touch them.  in.sector is the frozen  *)
(* [context, scope, events] it was given, or None.                         *)
OfComponents(d) ==
    [refs |-> UNION {c.refs : c \in d.components},
     claims |-> UNION {c.claims : c \in d.components},
     evidence |-> UNION {c.evidence : c \in d.components},
     artifacts |-> UNION {c.artifacts : c \in d.components}]

RelatedEvents(state, sector, sectorClaims) ==
    IF sector = None THEN {}
    ELSE {e \in sector.events : \/ e.chains \intersect state.chains # {}
                                \/ e.claims \intersect sectorClaims # {}}

(* The id digests every part of an observation but its clock of creation.  *)
SelectionId(o) == [o EXCEPT !.created = Unknown]

SelectionObservation(in, family, d) ==
    LET state == in.state
        of == OfComponents(d)
        lineage == UNION {x[2].claims : x \in In(state, {"macro", "sector"})}
        sectorClaims == of.claims \intersect lineage
        events == RelatedEvents(state, in.sector, sectorClaims)
        o == [id |-> None, family |-> family, usage |-> Registry[family].usage,
              coverage |-> d.coverage, value |-> d.value,
              components |-> d.components, reasons |-> d.reasons,
              asset |-> state.asset, asOf |-> state.asOf,
              state |-> state.id, previous |-> None, transition |-> None,
              episode |-> IF in.episode = None THEN None ELSE in.episode.id,
              sector |-> IF in.sector = None THEN None ELSE in.sector.scope,
              chains |-> state.chains, refs |-> of.refs, claims |-> of.claims,
              events |-> {e.id : e \in events},
              sectorClaims |->
                  sectorClaims \union UNION {e.claims : e \in events},
              evidence |-> of.evidence,
              artifacts |-> of.artifacts \union {<<"state", state.id>>}
                  \union (IF in.sector = None THEN {}
                          ELSE {in.sector.context}),
              available |-> in.available, created |-> in.created]
    IN [o EXCEPT !.id = SelectionId(o)]

(* Which episodes belong to a state, and which inputs the mapper refuses.  *)
EpisodeOf(episode, state) ==
    /\ episode.stateId = state.id
    /\ episode.asset = state.asset /\ episode.asOf = state.asOf

SelectionInputRejected(in) ==
    \/ in.episode # None /\ (\/ ~EpisodeOf(in.episode, in.state)
                             \/ in.available < in.episode.created)
    \/ in.available < in.state.asOf \/ in.created < in.available
    \/ in.sector # None
       /\ \/ in.state.sectorId \notin {None, in.sector.context}
          \/ \E e \in in.sector.events : e.available > in.state.asOf

(* A boolean chain benefit is taken for a category and then refused as a   *)
(* number, which ends the whole build.                                     *)
BuildSelection(in, families) ==
    LET described == {<<f, Descriptor(in.state, f)>> : f \in families}
    IN
    IF \/ SelectionInputRejected(in)
       \/ \E s \in Sections : \E f \in in.state.sections[s].features :
             ~VisibleFeature(f, in.state.asOf)
       \/ /\ "CHAIN_BENEFIT_ELASTICITY" \in families
          /\ in.state.chains # {}
          /\ \E n \in ChainBenefits : Sort(ChainBenefit(in.state, n)) = "bool"
       \/ \E x \in described : ~DescriptorContract(x[2])
    THEN None
    ELSE {SelectionObservation(in, x[1], x[2]) : x \in described}
=============================================================================
