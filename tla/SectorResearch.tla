--------------------------- MODULE SectorResearch ---------------------------
(***************************************************************************)
(* The Sector research Agent: the direct-upstream evidence it shows the    *)
(* model, and the drafts it promotes to validated claims and a cycle       *)
(* assessment.                                                             *)
(*                                                                         *)
(* A claim's text is what the local validators read in it: whether it is   *)
(* prohibited, grounded, causal, certain, and discloses degradation.       *)
(***************************************************************************)
EXTENDS SectorRadar

MinimumClaims == 3
Categories == {"trend", "breadth", "fundamentals", "valuation", "leaders_laggards",
               "macro_environment", "macro_sensitivity", "industry_chains",
               "anomalies", "catalysts", "risks", "cycle"}

---------------------------------------------------------------------------
(* The input: snapshots, events, ontology and memory of one sector.        *)

InputRejected(in) ==
    LET date == Day(in.asOf)
    IN  \/ \E s \in {in.universe, in.state, in.macro} :
              s.sector # in.sector \/ s.asOf # date
        \/ in.macro.source # in.state
        \/ /\ in.mapping # None
           /\ \/ in.mapping.sector # in.sector
              \/ ~Effective(in.mapping, date)
              \/ in.mapping.benchmarks # in.universe.benchmarks
        \/ \E e \in in.events : e.sector # in.sector \/ e.asOf # in.asOf
        \/ \E r \in in.chains \union in.memberships :
              r.sector # in.sector \/ ~Effective(r, date)
        \/ \E r \in in.nodes \union in.edges : ~Effective(r, date)
        \/ \E m \in in.memory : m.scope \notin {in.scope} \union in.chainScopes

---------------------------------------------------------------------------
(* The evidence.                                                           *)

Evidence(id, kind, degraded) ==
    [id |-> id, kind |-> kind, degraded |-> degraded, chains |-> {}, events |-> {},
     association |-> FALSE, candidate |-> FALSE]

Degrades(status) == status # "available"

MetricSections ==
    [market |-> "market_state", breadth |-> "breadth_state",
     fundamental |-> "fundamental_state", valuation |-> "valuation_state"]

MetricEvidence(state) ==
    UNION {{Evidence(<<"metric", section, name>>, MetricSections[section],
                     Degrades(state[section][name].status)) :
                name \in DOMAIN state[section]} : section \in DOMAIN MetricSections}

CoverageEvidence(state, mapping) ==
    Evidence(<<"coverage">>, "coverage",
             Degrades(state.status) \/ mapping = None \/ Degrades(mapping.status))

SignalEvidence(macro) ==
    UNION {{Evidence(<<"macro", d, s.series>>, "macro_state",
                     Degrades(macro.cycle[d].status)) : s \in macro.cycle[d].signals} :
               d \in DOMAIN macro.cycle}

SensitivityEvidence(macro) ==
    {[Evidence(<<"sensitivity", e.series>>, "macro_sensitivity", Degrades(e.status))
        EXCEPT !.association = TRUE] : e \in macro.estimates}

MacroEvidence(macro) == SignalEvidence(macro) \union SensitivityEvidence(macro)

EventRef(event) == <<"event", event.id>>

EventEvidence(event) ==
    [Evidence(EventRef(event), "anomaly_event", event.status = "candidate")
        EXCEPT !.candidate = event.status = "candidate",
               !.chains = event.chains, !.events = {event.id}]

(* A relation is shown when the input holds both of its ends.              *)
Related(in) ==
    LET known == {n.node : n \in in.nodes}
    IN  {e \in in.edges : {e.source, e.target} \subseteq known}

OntologyEvidence(in) ==
    {[Evidence(<<"chain", c.chain, c.version>>, "industry_chain", FALSE)
        EXCEPT !.chains = {c.chain}] : c \in in.chains}
    \union {[Evidence(<<"membership", m.asset, m.sector, m.version>>, "membership", FALSE)
                EXCEPT !.chains = ToSet(m.chains)] : m \in in.memberships}
    \union {Evidence(<<"edge", e.edge, e.version>>, "graph_relation", FALSE) :
                e \in Related(in)}
    \union {Evidence(<<"memory", m.id>>, "memory", FALSE) : m \in in.memory}

EvidenceOf(in) ==
    MetricEvidence(in.state) \union {CoverageEvidence(in.state, in.mapping)}
        \union MacroEvidence(in.macro) \union OntologyEvidence(in)
        \union {EventEvidence(e) : e \in in.events}

(* Two rows that would share an identity: an asset with two roles, or two  *)
(* revisions of a chain or an edge under one version.  No execution result *)
(* is made of this: the error leaves the Agent.                            *)
EvidenceRepeats(in) ==
    \/ \E m, k \in in.memberships :
          m # k /\ <<m.asset, m.version>> = <<k.asset, k.version>>
    \/ \E c, k \in in.chains : c # k /\ <<c.chain, c.version>> = <<k.chain, k.version>>
    \/ \E e, k \in Related(in) : e # k /\ <<e.edge, e.version>> = <<k.edge, k.version>>

---------------------------------------------------------------------------
(* Promotion of a draft.                                                   *)

Bound(evidence, claim) == {e \in evidence : e.id \in claim.cites}

ClaimRejected(claim, evidence) ==
    \/ claim.cites = {}
    \/ ~(claim.cites \subseteq {e.id : e \in evidence})
    \/ claim.prohibited
    \/ ~claim.grounded
    \/ claim.causal /\ \E e \in Bound(evidence, claim) : e.association
    \/ claim.certain /\ \E e \in Bound(evidence, claim) : e.candidate
    \/ ~claim.disclosed /\ \E e \in Bound(evidence, claim) : e.degraded
    \/ claim.category = "catalysts"
       /\ \A e \in Bound(evidence, claim) : e.kind # "anomaly_event"

(* The places of the claims that are accepted; a claim is numbered by      *)
(* those accepted up to it.                                                *)
Accepted(draft, evidence) ==
    {n \in DOMAIN draft.claims : ~ClaimRejected(draft.claims[n], evidence)}

Number(accepted, n) == Cardinality({m \in accepted : m <= n})

Mandatory(events) == {e \in events : e.severity \in {"high", "critical"}}

(* Coverage counted over the claims that were submitted.                   *)
Unsubmitted(events, draft, evidence) ==
    {e \in Mandatory(events) : \A c \in ToSet(draft.claims) : EventRef(e) \notin c.cites}

(* Coverage is counted over the claims that were accepted.                 *)
Uncovered(events, draft, evidence) ==
    {e \in Mandatory(events) :
        \A n \in Accepted(draft, evidence) : EventRef(e) \notin draft.claims[n].cites}

MissingData(in, evidence) ==
    {e.id : e \in {k \in evidence : k.degraded /\ k.id[1] = "metric"}}
    \union (IF in.mapping = None THEN {<<"benchmark">>}
            ELSE IF Degrades(in.mapping.status) THEN {<<"benchmark">>} ELSE {})
    \union (IF in.events = {} THEN {<<"radar_events">>} ELSE {})
    \union (IF in.memory = {} THEN {<<"sector_memory">>} ELSE {})

DraftRejected(in, draft, evidence) ==
    LET submitted == {c.path : c \in ToSet(draft.claims)}
        accepted == Accepted(draft, evidence)
    IN  \/ Repeats(draft.claims, "path")
        \/ ~(draft.support \subseteq submitted)
        \/ Cardinality(accepted) < MinimumClaims
        \/ Uncovered(in.events, draft, evidence) # {}
        \/ \A n \in accepted : draft.claims[n].path \notin draft.support
        \/ /\ \E e \in evidence : e.degraded
           /\ draft.uncertainties \union MissingData(in, evidence) = {}

(* Accepted claims are numbered anew: a claim's number is its identity.    *)
Output(in, draft, evidence) ==
    LET accepted == Accepted(draft, evidence)
        Numbered(k) == draft.claims[CHOOSE n \in accepted : Number(accepted, n) = k]
        kept == {n \in accepted : draft.claims[n].path \in draft.support}
        dropped == draft.support \ {draft.claims[n].path : n \in accepted}
    IN  [sector |-> in.sector, scope |-> in.scope, asOf |-> in.asOf,
         claims |-> [k \in 1 .. Cardinality(accepted) |->
                        [category |-> Numbered(k).category, cites |-> Numbered(k).cites]],
         cycle |-> [support |-> {Number(accepted, n) : n \in kept}, dropped |-> dropped,
                    status |-> IF dropped = {} THEN "available" ELSE "partial"],
         uncertainties |-> draft.uncertainties \union MissingData(in, evidence),
         missing |-> MissingData(in, evidence)]

(* One execution, given what the gateway answers: a draft, or an error of  *)
(* its cache, its provider or its schema.                                  *)
Execution(in, answer, evidence) ==
    IF answer.status # "draft" \/ DraftRejected(in, answer, evidence)
    THEN [status |-> "error", output |-> None]
    ELSE [status |-> "ok", output |-> Output(in, answer, evidence)]

---------------------------------------------------------------------------
(* The fixed draft of the smoke scripts: a claim on one item of each of    *)
(* three kinds, then one on every high event, the first two as support.    *)

Kinds(evidence, kind) == {e \in evidence : e.kind = kind}

FixedKinds == <<"market_state", "macro_state", "macro_sensitivity">>

FixedClaim(number, item, category) ==
    [path |-> number, cites |-> {item.id}, category |-> category, prohibited |-> FALSE,
     grounded |-> TRUE, causal |-> FALSE, certain |-> FALSE, disclosed |-> item.degraded]

(* Without an item of one of the three kinds the script's search fails.    *)
FixedFails(evidence) == \E n \in DOMAIN FixedKinds : Kinds(evidence, FixedKinds[n]) = {}

FixedAnswer(in, evidence) ==
    LET first == [n \in DOMAIN FixedKinds |->
                    CHOOSE e \in Kinds(evidence, FixedKinds[n]) : TRUE]
        high == {EventEvidence(e) : e \in Mandatory(in.events)}
        items == [n \in 1 .. 3 + Cardinality(high) |->
                    IF n <= 3 THEN first[n] ELSE SetToSeq(high)[n - 3]]
        category == <<"trend", "macro_environment", "macro_sensitivity">>
    IN  [status |-> "draft", support |-> {1, 2}, uncertainties |-> {<<"fixed">>},
         claims |-> [n \in DOMAIN items |->
                       FixedClaim(n, items[n],
                                  IF n <= 3 THEN category[n] ELSE "anomalies")]]
=============================================================================
