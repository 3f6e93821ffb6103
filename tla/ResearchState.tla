---------------------------- MODULE ResearchState ----------------------------
(***************************************************************************)
(* The machine state a research run leaves behind: a pure projection of    *)
(* frozen inputs (one research data bundle, accepted claims, an optional   *)
(* sector context, an optional memory retrieval and normalized features)   *)
(* on fifteen sections of features, each feature with its own clock.       *)
(* A fingerprint is modelled by what it digests: the id of a snapshot is a *)
(* record of its inputs.  None stands for an absent value, and a value *)
(* or a name is a pair of its sort and what it is.                         *)
(***************************************************************************)
EXTENDS PointInTime, FiniteSets

CONSTANT None

(* The twelve capabilities of a bundle, and the section that the items of  *)
(* eight of them are projected on.                                         *)
Capabilities ==
    {"asset_identity", "market_context", "ohlcv", "technical_features",
     "fundamentals", "valuation", "corporate_events", "filings",
     "macro_indicators", "industry_sector_context", "news_evidence",
     "sentiment_evidence"}

SectionOfData ==
    [asset_identity |-> "identity", macro_indicators |-> "macro",
     fundamentals |-> "fundamental", valuation |-> "valuation",
     technical_features |-> "technical", sentiment_evidence |-> "sentiment",
     market_context |-> "market_context",
     industry_sector_context |-> "market_context"]

SectionOfRole ==
    [fundamental_analyst |-> "fundamental",
     technical_text_analyst |-> "technical",
     sentiment_analyst |-> "sentiment", news_event_analyst |-> "event",
     research_manager |-> "thesis", bull_manager |-> "debate",
     bear_manager |-> "debate", risk_manager |-> "risk"]

Sections ==
    {"identity", "macro", "sector", "industry_chain", "fundamental",
     "valuation", "technical", "sentiment", "event", "market_context",
     "debate", "risk", "thesis", "data_quality", "memory_context"}

---------------------------------------------------------------------------
(* Features.  "kind" is the declared type, "asOf" the time the value is    *)
(* about, "available" when it could first be known, and the last three     *)
(* sets are its provenance.                                                *)
Feature(name, kind, value, asOf, available, claims, evidence, artifacts) ==
    [name |-> name, kind |-> kind, value |-> value, asOf |-> asOf,
     available |-> available, claims |-> claims, evidence |-> evidence,
     artifacts |-> artifacts, version |-> "v1", transform |-> None]

(* A feature with a value has provenance, and exactly the normalized ones  *)
(* name the transform that produced them.                                  *)
FeatureContract(f) ==
    /\ f.claims # {} \/ f.evidence # {} \/ f.artifacts # {}
    /\ (f.kind = "normalized") <=> (f.transform # None)

(* A feature may be read at a cutoff if it was available, or, where no     *)
(* availability is recorded, effective, by then.                           *)
VisibleFeature(f, cutoff) ==
    LET at == IF Known(f.available) THEN f.available ELSE f.asOf
    IN UsableAt([available |-> at, ingested |-> Unknown, asOf |-> Unknown,
                 from |-> Unknown, to |-> Unknown], cutoff, "replay")

(* Of the items of a section, one for each field: the latest observed,     *)
(* then the latest effective, then the greatest evidence id.               *)
Supersedes(j, i) ==
    /\ j.field = i.field
    /\ \/ j.observed > i.observed
       \/ j.observed = i.observed /\ j.effective > i.effective
       \/ /\ j.observed = i.observed /\ j.effective = i.effective
          /\ j.id > i.id

LatestByField(items) ==
    {i \in items : ~ \E j \in items : Supersedes(j, i)}

FeatureFromEvidence(i) ==
    Feature(<<"field", i.field>>,
            IF i.value[1] = "num" THEN "numeric" ELSE "semantic", i.value,
            i.effective, i.observed, {}, {i.id}, {})

---------------------------------------------------------------------------
(* The claim graph: the accepted claims of the agents and those of the     *)
(* sector context, which must close over their upstream claims.            *)
InputClaims(in) ==
    {c.claim : c \in in.claims}
        \union (IF in.sector = None THEN {} ELSE in.sector.claims)

Cyclic(claims) ==
    \E S \in SUBSET claims :
        S # {} /\ \A c \in S : \E p \in S : p.id \in c.up

ClaimGraphRejected(in) ==
    LET claims == InputClaims(in)
        ids == {c.id : c \in claims}
        sector == IF in.sector = None THEN {} ELSE in.sector.claims
    IN \/ \E c, d \in in.claims : c # d /\ c.claim.id = d.claim.id
       \/ \E c \in in.claims : \E d \in sector : c.claim.id = d.id
       \/ \E c \in claims : c.direct /\ ~c.sourced
       \/ \E c \in claims : ~(c.up \subseteq ids)
       \/ Cyclic(claims)

---------------------------------------------------------------------------
(* The six projections; each yields <<section, feature>> pairs.            *)
ProjectData(bundle) ==
    UNION {{<<SectionOfData[d], FeatureFromEvidence(i)>> :
                i \in LatestByField(bundle.data[d].items)} :
           d \in DOMAIN SectionOfData}

ProjectClaims(in) ==
    {<<SectionOfRole[c.role],
       Feature(<<"claim", c.claim.id>>, "semantic", <<"text", c.claim.text>>,
               in.bundle.asOf, Unknown, {c.claim.id}, {}, {})>> :
     c \in in.claims}

ProjectSector(in) ==
    IF in.sector = None THEN {}
    ELSE LET ctx == in.sector
         IN {<<IF c.id \in ctx.macroClaims THEN "macro" ELSE "sector",
               Feature(<<"sector_claim", c.id>>, "semantic", <<"text", c.text>>,
                       ctx.asOf, Unknown, {c.id}, {}, {})>> :
             c \in ctx.claims}
            \union {<<"sector",
                      Feature(<<"cycle", ctx.id>>, "semantic",
                              <<"text", ctx.cycle>>, ctx.asOf, Unknown,
                              ctx.cycleClaims, {}, {})>>}
            \union {<<"industry_chain",
                      Feature(<<"active_chain", h>>, "semantic",
                              <<"text", h>>, ctx.asOf, Unknown,
                              {}, {}, {ctx.id})>> :
                    h \in ctx.chains}

ProjectNormalized(in) ==
    {<<n.section,
       [Feature(<<"field", n.name>>, "normalized", n.value, n.asOf, Unknown,
                n.claims, n.evidence, {}) EXCEPT !.transform = n.transform]>> :
     n \in in.normalized}

NormalizedRejected(in) ==
    \E n \in in.normalized :
        \/ ~(n.claims \subseteq {c.id : c \in InputClaims(in)})
        \/ n.claims = {} /\ n.evidence = {}

ProjectDataQuality(bundle) ==
    {<<"data_quality",
       Feature(<<"capability", d>>, "semantic",
               <<"text", bundle.data[d].status>>,
               bundle.asOf, Unknown, {}, {}, {bundle.id})>> :
     d \in Capabilities}

ProjectMemory(in) ==
    IF in.memory = None THEN {}
    ELSE {<<"memory_context",
            Feature(<<"memory", n>>,
                    IF n = "result_count" THEN "numeric" ELSE "semantic",
                    IF n = "result_count" THEN <<"num", in.memory.count>>
                                          ELSE <<"text", in.memory.status>>,
                    in.memory.asOf, Unknown, {}, {}, {in.memory.id})>> :
          n \in {"retrieval_status", "result_count"}}

Projected(in) ==
    ProjectData(in.bundle) \union ProjectClaims(in) \union ProjectSector(in)
        \union ProjectNormalized(in) \union ProjectDataQuality(in.bundle)
        \union ProjectMemory(in)

---------------------------------------------------------------------------
(* Why a section is not complete: None, or the status it takes when it has *)
(* no feature.  Later reasons overwrite earlier ones.                      *)
UnavailableSections(in) ==
    (IF in.sector = None THEN {"sector", "industry_chain"} ELSE {})
        \union (IF in.claims = {} THEN {"debate", "risk", "thesis"} ELSE {})
        \union (IF /\ in.claims = {}
                   /\ in.bundle.data["corporate_events"].items = {}
                THEN {"event"} ELSE {})
        \union (IF in.memory = None THEN {"memory_context"} ELSE {})

ReasonSource ==
    [identity |-> "asset_identity", macro |-> "macro_indicators",
     fundamental |-> "fundamentals", valuation |-> "valuation",
     technical |-> "technical_features", sentiment |-> "sentiment_evidence",
     event |-> "corporate_events", market_context |-> "market_context"]

SectionReason(in, s) ==
    IF s \in UnavailableSections(in) THEN "not_available_at_source_run"
    ELSE IF s \notin DOMAIN ReasonSource THEN None
    ELSE LET data == in.bundle.data[ReasonSource[s]]
         IN IF data.status = "present" THEN None
            ELSE IF data.items # {} THEN "partial" ELSE "missing"

(* With features a section is present, or partial if there is a reason;    *)
(* without it takes the reason's status, or is missing.                    *)
MakeSection(in, projected, s) ==
    LET features == {p[2] : p \in {q \in projected : q[1] = s}}
        reason == SectionReason(in, s)
    IN [status |-> IF features # {}
                   THEN IF reason = None THEN "present" ELSE "partial"
                   ELSE IF reason = None THEN "missing" ELSE reason,
        features |-> features]

(* The contract of a section: unambiguous names, features exactly in an    *)
(* available section.                                                      *)
SectionContract(section) ==
    /\ \A f, g \in section.features : f.name = g.name => f = g
    /\ (section.features # {}) <=> (section.status \in {"present", "partial"})

---------------------------------------------------------------------------
(* The id digests the inputs; frozen ones are known by their own ids.       *)
StateId(in) ==
    [data |-> in.bundle.id, run |-> in.run, claims |-> in.claims,
     sector |-> IF in.sector = None THEN None ELSE in.sector.id,
     memory |-> IF in.memory = None THEN None ELSE in.memory.id,
     normalized |-> in.normalized]

Snapshot(in) ==
    LET projected == Projected(in)
    IN [id |-> StateId(in),
        asset |-> in.bundle.asset,
        asOf |-> in.bundle.asOf,
        sectorScope |-> IF in.sector = None THEN None ELSE in.sector.scope,
        chains |-> IF in.sector = None THEN {} ELSE in.sector.chains,
        run |-> in.run,
        dataId |-> in.bundle.id,
        sectorId |-> IF in.sector = None THEN None ELSE in.sector.id,
        memoryId |-> IF in.memory = None THEN None ELSE in.memory.id,
        agentRuns |-> {c.run : c \in in.claims},
        sections |-> [s \in Sections |-> MakeSection(in, projected, s)]]

(* The order of the checks does not matter here: each one ends the build   *)
(* with an error and leaves nothing behind.                                *)
StateRejected(in) ==
    \/ in.sector # None /\ (\/ in.sector.asset # in.bundle.asset
                            \/ in.sector.asOf # in.bundle.asOf)
    \/ in.memory # None /\ in.memory.asOf # in.bundle.asOf
    \/ ClaimGraphRejected(in)
    \/ NormalizedRejected(in)
    \/ LET snapshot == Snapshot(in)
       IN \E s \in Sections :
            \/ ~SectionContract(snapshot.sections[s])
            \/ \E f \in snapshot.sections[s].features :
                  \/ ~FeatureContract(f)
                  \/ ~VisibleFeature(f, snapshot.asOf)
=============================================================================
