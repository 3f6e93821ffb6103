-------------------------- MODULE ResearchTransition --------------------------
(***************************************************************************)
(* How the state of an asset changed: the transition from its nearest      *)
(* earlier state, and the seven timing observations derived from it, from  *)
(* the longer history and from dated events.  One unit of time is a day.   *)
(* Rates are compared exactly, where the code divides floats.              *)
(***************************************************************************)
EXTENDS SatelliteAlpha

(* The component name made from the name of a feature; two features that   *)
(* differ in punctuation only have one component name.                     *)
CONSTANT ComponentName

LogicOrder ==
    [rumor |-> 0, early_signal |-> 1, expectation_forming |-> 2,
     order_expectation |-> 3, order_confirmed |-> 4, delivery_confirmed |-> 5,
     revenue_realized |-> 6, repeated_validation |-> 7, invalidated |-> -1,
     uncertain |-> 0]

ThesisOrder ==
    [invalidated |-> -2, negative |-> -1, uncertain |-> 0, neutral |-> 0,
     positive |-> 1]

EvidenceStatuses ==
    {"confirmed", "partially_confirmed", "contradicted", "unresolved",
     "mixed"}

TimingFamilies ==
    {"STATE_TRANSITION", "EXPECTATION_REVISION_VELOCITY",
     "THESIS_UPGRADE_DOWNGRADE", "RISK_ESCALATION", "EVIDENCE_CONFIRMATION",
     "EVENT_WINDOW", "CATALYST_PROXIMITY"}

---------------------------------------------------------------------------
(* The input: a state and its episode, the other states at hand and their  *)
(* episodes, dated events [id, kind, time, available, ref, claims,         *)
(* evidence, outcome] and retrieved memories [id, available, effective,    *)
(* claims].  The state's own episode may be that of another state.         *)
TimingInputRejected(in) ==
    LET states == in.history \union {in.current}
    IN \/ in.available < in.current.asOf \/ in.created < in.available
       \/ \E e \in (in.episodes \union {in.episode}) \ {None} :
             \/ ~ \E s \in states : EpisodeOf(e, s)
             \/ e.created > in.available

VisibleEvent(e, cutoff) ==
    /\ e.available <= cutoff
    /\ e.outcome # Unknown => e.outcome <= cutoff /\ cutoff >= e.time

VisibleMemory(m, cutoff) ==
    UsableAt([available |-> m.available, ingested |-> Unknown,
              asOf |-> Unknown, from |-> m.effective, to |-> Unknown],
             cutoff, "replay")

ExternalRejected(in) ==
    \/ \E e \in in.events : ~VisibleEvent(e, in.current.asOf)
    \/ \E m \in in.memories : ~VisibleMemory(m, in.current.asOf)

Peers(in) == {s \in in.history : s.asset = in.current.asset}

InvalidAtOwnCutoff(state) ==
    \E s \in Sections : \E f \in state.sections[s].features :
        ~VisibleFeature(f, state.asOf)

(* Mutant of HistoryRejected: a valid state may be of any time.            *)
HistoryRejectedIfInvalid(in) ==
    \E s \in Peers(in) \union {in.current} : InvalidAtOwnCutoff(s)

(* Any state of the asset at or after the cutoff ends the build.           *)
HistoryRejected(in) ==
    \/ InvalidAtOwnCutoff(in.current)
    \/ \E s \in Peers(in) : InvalidAtOwnCutoff(s) \/ s.asOf >= in.current.asOf

(* Two states at one cutoff are ordered by their ids, here by their runs.  *)
CONSTANT Rank
Later(s, t) ==
    s.asOf > t.asOf \/ (s.asOf = t.asOf /\ Rank[s.run] > Rank[t.run])

SelectPredecessor(in) ==
    CHOOSE s \in Peers(in) : \A t \in Peers(in) : s = t \/ Later(s, t)

---------------------------------------------------------------------------
(* Comparing two states.                                                   *)
FindAny(state, name) == Find(state, SectionOrder, name)
SemanticValue(state, name) ==
    LET x == FindAny(state, name)
    IN IF Sort(x) = "text" THEN x[2].value[2] ELSE None

Compatible(f, g) ==
    /\ f.kind = g.kind /\ f.version = g.version /\ f.transform = g.transform

(* The last section that has the feature, for a family of names.           *)
NamesIn(state, sections, namespace) ==
    {x[2].name : x \in {y \in In(state, sections) :
                          y[2].name[1] = "field" /\ y[2].name[2][1] = namespace}}
FindLast(state, name) == Find(state, Reverse(SectionOrder), name)

Change(name, left, right, class, section, leftSection, states) ==
    LET features == {f \in {left, right} : f # None}
    IN [name |-> name,
        from |-> IF left = None THEN None ELSE left.value,
        to |-> IF right = None THEN None ELSE right.value,
        class |-> class,
        refs |-> {<<leftSection, name>>, <<section, name>>},
        claims |-> UNION {f.claims : f \in features},
        evidence |-> UNION {f.evidence : f \in features},
        artifacts |-> {<<"state", s.id>> : s \in states}]

LogicDirection(from, to) ==
    IF from \notin DOMAIN LogicOrder \/ to \notin DOMAIN LogicOrder
    THEN "unknown"
    ELSE IF from = to THEN "unchanged"
    ELSE IF to = "invalidated" \/ LogicOrder[to] < LogicOrder[from]
    THEN "downgrade"
    ELSE IF LogicOrder[to] > LogicOrder[from] THEN "upgrade"
    ELSE "mixed"

ExpectationChanges(p, c) ==
    LET names == {Normalized("expectation_revision", i) :
                    i \in {"direction", "value"}}
        Comparable(n) == /\ FindAny(p, n) # None /\ FindAny(c, n) # None
                         /\ Compatible(FindAny(p, n)[2], FindAny(c, n)[2])
    IN {LET l == FindAny(p, n) r == FindAny(c, n)
        IN Change(n, l[2], r[2],
                  IF l[2].value = r[2].value THEN "unchanged" ELSE "changed",
                  r[1], l[1], {p, c}) :
        n \in {m \in names : Comparable(m)}}

ThesisChange(p, c) ==
    LET before == SemanticValue(p, Normalized("thesis", "disposition"))
        after == SemanticValue(c, Normalized("thesis", "disposition"))
    IN IF before \notin DOMAIN ThesisOrder \/ after \notin DOMAIN ThesisOrder
       THEN None
       ELSE IF after = "invalidated" THEN "invalidated"
       ELSE IF ThesisOrder[after] > ThesisOrder[before] THEN "upgraded"
       ELSE IF ThesisOrder[after] < ThesisOrder[before] THEN "downgraded"
       ELSE IF before = after THEN "unchanged" ELSE "uncertain"

RiskClass(left, right) ==
    CASE left = None -> "new_risk"
      [] left # None /\ right = None -> "uncertain"
      [] OTHER ->
         IF right.value \in {<<"text", "resolved">>, <<"text", "escalating">>,
                             <<"text", "deescalating">>}
         THEN right.value[2]
         ELSE IF left.value = right.value THEN "stable" ELSE "uncertain"

RiskChanges(p, c) ==
    LET Listed(s) == s.sections["risk"].status \in {"present", "partial"}
        Risk(s, n) == LET x == Find(s, <<"risk">>, n)
                      IN IF x = None THEN None ELSE x[2]
    IN IF ~(Listed(p) /\ Listed(c)) THEN {}
       ELSE {Change(n, Risk(p, n), Risk(c, n),
                    RiskClass(Risk(p, n), Risk(c, n)), "risk", "risk", {p, c}) :
             n \in NamesIn(p, {"risk"}, "risk")
                     \union NamesIn(c, {"risk"}, "risk")}

CatalystChanges(p, c) ==
    {LET l == FindLast(p, n) r == FindLast(c, n)
     IN Change(n, l[2], r[2], "changed", r[1], l[1], {p, c}) :
     n \in {m \in NamesIn(p, Sections, "catalyst")
                    \intersect NamesIn(c, Sections, "catalyst") :
              FindLast(p, m)[2].value # FindLast(c, m)[2].value}}

(* A hypothesis is unresolved until later evidence bears on it.            *)
EvidenceClass(left, right) ==
    IF /\ right.value \in {<<"text", s>> : s \in EvidenceStatuses}
       /\ ~(right.evidence \subseteq left.evidence)
    THEN right.value[2] ELSE "unresolved"

EvidenceChanges(p, c) ==
    {LET l == FindLast(p, n) r == FindLast(c, n)
     IN Change(n, l[2], r[2], EvidenceClass(l[2], r[2]), r[1], l[1], {p, c}) :
     n \in NamesIn(p, Sections, "hypothesis")
             \intersect NamesIn(c, Sections, "hypothesis")}

ChangedDimensions(p, c) ==
    {s \in Sections :
       LET l == p.sections[s].features
           r == c.sections[s].features
       IN \/ {f.name : f \in l} # {f.name : f \in r}
          \/ \E f \in l, g \in r : /\ f.name = g.name /\ f.value # g.value
                                   /\ Compatible(f, g)}

(* Retrieved memories whose source claims the state still holds.           *)
UsedMemories(in) ==
    LET held == UNION {x[2].claims : x \in In(in.current, Sections)}
    IN {m.id : m \in {n \in in.memories : n.claims \intersect held # {}}}

Logic == Normalized("logic_certainty", "")

(* The id digests the whole transition, which these references determine.  *)
TransitionId(t) ==
    [previous |-> t.previous, current |-> t.current,
     previousEpisode |-> t.previousEpisode, episode |-> t.episode,
     events |-> t.events, artifacts |-> t.artifacts]

WithId(t) == [t EXCEPT !.id = TransitionId(t)]

Comparison(in, p, c) ==
    LET from == SemanticValue(p, Logic)
        to == SemanticValue(c, Logic)
        expectation == ExpectationChanges(p, c)
        risk == RiskChanges(p, c)
        catalyst == CatalystChanges(p, c)
        evidence == EvidenceChanges(p, c)
        changes == expectation \union risk \union catalyst \union evidence
        logic == {x[2] : x \in {FindAny(p, Logic), FindAny(c, Logic)} \ {None}}
        staged == from # None /\ to # None
    IN [id |-> None, asset |-> c.asset, previous |-> p.id, current |-> c.id,
        previousEpisode |->
            {e.id : e \in {x \in in.episodes : x.stateId = p.id}},
        episode |-> IF in.episode = None THEN None ELSE in.episode.id,
        previousAsOf |-> p.asOf, currentAsOf |-> c.asOf,
        dimensions |-> ChangedDimensions(p, c),
        direction |-> LogicDirection(from, to), from |-> from, to |-> to,
        expectation |-> expectation, thesis |-> ThesisChange(p, c),
        risk |-> risk, catalyst |-> catalyst, evidence |-> evidence,
        claims |-> (UNION {f.claims : f \in logic})
                       \union UNION {x.claims : x \in changes},
        events |-> {e.id : e \in in.events},
        sources |-> (UNION {f.evidence : f \in logic})
                        \union UNION {x.evidence : x \in changes},
        artifacts |-> {<<"state", p.id>>, <<"state", c.id>>}
                          \union UsedMemories(in),
        coverage |-> IF staged THEN "AVAILABLE" ELSE "PARTIAL",
        available |-> in.available, created |-> in.created]

Transition(in) ==
    IF Peers(in) = {} THEN None
    ELSE WithId(Comparison(in, SelectPredecessor(in), in.current))

---------------------------------------------------------------------------
(* The seven timing descriptors.                                           *)
FromTransition(name, value, ref, t) ==
    [name |-> name, value |-> <<"text", value>>, refs |-> {ref},
     claims |-> t.claims, evidence |-> t.sources,
     artifacts |-> {<<"transition", t.id>>}]

FromChange(change, t) ==
    [name |-> ComponentName[change.name], value |-> <<"text", change.class>>,
     refs |-> change.refs, claims |-> change.claims,
     evidence |-> change.evidence,
     artifacts |-> change.artifacts \union {<<"transition", t.id>>}]

FromEvent(name, value, event) ==
    [name |-> name, value |-> value, refs |-> {event.ref},
     claims |-> event.claims, evidence |-> event.evidence,
     artifacts |-> {event.id}]

StateDescriptor(in, t) ==
    IF t = None THEN Unavailable("REQUIRES_HISTORY", "no predecessor")
    ELSE IF t.from = None \/ t.to = None
    THEN Unavailable("MISSING_INPUT", "no logic stages")
    ELSE Described("AVAILABLE", t.direction,
                   {FromTransition("transition_direction", t.direction,
                                   <<"event", Logic>>, t)}, {})

(* The states of the asset's history, the latest last: each at the place   *)
(* that the number of the earlier ones gives it.                           *)
Ordered(in) ==
    LET states == Peers(in) \union {in.current}
        Earlier(s) == {t \in states : Later(s, t)}
    IN [n \in 1..Cardinality(states) |->
          CHOOSE s \in states : Cardinality(Earlier(s)) = n - 1]

ValueName == Normalized("expectation_revision", "value")
NumericFeature(state) ==
    LET x == FindAny(state, ValueName)
    IN IF Sort(x) = "num" THEN x[2] ELSE None

Absolute(n) == IF n < 0 THEN -n ELSE n
SignOf(n) == IF n > 0 THEN "upgrade" ELSE IF n < 0 THEN "downgrade"
             ELSE "unchanged"

(* Mutant of SecondOrder: the change against the one before it, whatever   *)
(* time each took.                                                         *)
ChangeOfDelta(d1, e1, d0, e0) ==
    IF Absolute(d1) > Absolute(d0) THEN "accelerating"
    ELSE IF Absolute(d1) < Absolute(d0) THEN "decelerating" ELSE "steady"

SecondOrder(d1, e1, d0, e0) ==
    LET now == Absolute(d1) * e0 before == Absolute(d0) * e1
    IN IF now > before THEN "accelerating"
       ELSE IF now < before THEN "decelerating" ELSE "steady"

Points(in) ==
    LET ordered == Ordered(in)
    IN [i \in DOMAIN ordered |->
          [at |-> ordered[i].asOf, feature |-> NumericFeature(ordered[i])]]

HasThird(points) ==
    Len(points) >= 3 /\ points[Len(points) - 2].feature # None

Velocity(points) ==
    LET n == Len(points)
        Value(i) == points[i].feature.value[2]
        Delta(i) == Value(i) - Value(i - 1)
        Elapsed(i) == points[i].at - points[i - 1].at
        refs == {<<"thesis", ValueName>>}
        two == {points[n - 1].feature, points[n].feature}
        three == two \union {points[n - 2].feature}
        first == {Component("direction", <<"text", SignOf(Delta(n))>>, refs, two),
                  Component("delta", <<"num", Delta(n)>>, refs, two),
                  Component("change_rate", <<"rate", Delta(n), Elapsed(n)>>,
                            refs, two)}
        order == SecondOrder(Delta(n), Elapsed(n), Delta(n - 1), Elapsed(n - 1))
    IN IF HasThird(points)
       THEN Described("AVAILABLE", SignOf(Delta(n)),
                first \union
                {Component("second_order_change", <<"text", order>>, refs, three),
                 Component("change_rate_delta",
                           <<"rate", Delta(n) * Elapsed(n - 1)
                                       - Delta(n - 1) * Elapsed(n),
                             Elapsed(n) * Elapsed(n - 1)>>, refs, three)}, {})
       ELSE Described("PARTIAL", SignOf(Delta(n)), first, {"two points"})

VelocityDescriptor(in, points) ==
    LET n == Len(points)
        direction == FindAny(in.current,
                             Normalized("expectation_revision", "direction"))
    IN IF n < 2 THEN Unavailable("REQUIRES_HISTORY", "one point")
       ELSE IF points[n].feature # None /\ points[n - 1].feature # None
       THEN Velocity(points)
       ELSE IF Sort(direction) # "text"
       THEN Unavailable("MISSING_INPUT", "no expectation")
       ELSE Described("PARTIAL", direction[2].value[2],
                      {Component("direction", direction[2].value,
                                 {Ref(direction)}, {direction[2]})},
                      {"no rate"})

(* The rate before the last one is divided by the time between two states  *)
(* of the history, and nothing keeps them from having the same cutoff.     *)
DividesByZero(in) ==
    LET points == Points(in)
        n == Len(points)
    IN /\ n >= 3 /\ \A i \in n - 2..n : points[i].feature # None
       /\ points[n - 1].at = points[n - 2].at

NoHistory(in, family) ==
    IF NotAvailable(in.current, Registry[family].dimensions)
    THEN Unavailable("NOT_AVAILABLE_AT_SOURCE_RUN", "no semantics")
    ELSE Unavailable("REQUIRES_HISTORY", "no predecessor")

ThesisDescriptor(in, t) ==
    IF t = None THEN NoHistory(in, "THESIS_UPGRADE_DOWNGRADE")
    ELSE IF t.thesis = None THEN Unavailable("MISSING_INPUT", "no disposition")
    ELSE Described("AVAILABLE", t.thesis,
                   {FromTransition("thesis_change", t.thesis,
                        <<"thesis", Normalized("thesis", "disposition")>>, t)},
                   {})

Classes(changes) == {x.class : x \in changes}
Summary(changes) ==
    IF Cardinality(Classes(changes)) = 1
    THEN CHOOSE class \in Classes(changes) : TRUE ELSE "mixed"

RiskDescriptor(in, t) ==
    IF t = None THEN NoHistory(in, "RISK_ESCALATION")
    ELSE IF t.risk = {} THEN Unavailable("MISSING_INPUT", "no risks")
    ELSE Described("AVAILABLE", Summary(t.risk),
                   {FromChange(x, t) : x \in t.risk}, {})

EvidenceDescriptor(in, t) ==
    IF t = None THEN NoHistory(in, "EVIDENCE_CONFIRMATION")
    ELSE IF t.evidence = {} THEN Unavailable("MISSING_INPUT", "no hypothesis")
    ELSE LET open == "unresolved" \in Classes(t.evidence)
         IN Described(IF open THEN "PARTIAL" ELSE "AVAILABLE",
                      Summary(t.evidence), {FromChange(x, t) : x \in t.evidence},
                      IF open THEN {"no distinct evidence"} ELSE {})

NoEvent(in) ==
    Unavailable(IF NotAvailable(in.current, {"event"})
                THEN "NOT_AVAILABLE_AT_SOURCE_RUN" ELSE "MISSING_INPUT",
                "no event")

Window(days) ==
    IF Absolute(days) > 30 THEN "outside_window"
    ELSE IF days > 1 THEN "pre_event"
    ELSE IF days >= -1 THEN "event_window" ELSE "post_event"

Proximity(days) ==
    IF days <= 7 THEN "imminent" ELSE IF days <= 30 THEN "near_term"
    ELSE IF days <= 90 THEN "medium_term" ELSE "distant"

(* The event nearest to the cutoff, on either side; the next catalyst.     *)
Nearest(events, cutoff) ==
    CHOOSE e \in events : \A f \in events :
        LET d == Absolute(e.time - cutoff) g == Absolute(f.time - cutoff)
        IN d < g \/ (d = g /\ e.id[2] <= f.id[2])

NearestEvent(in) ==
    LET events == {e \in in.events : e.kind = "event"}
    IN IF events = {} THEN None ELSE Nearest(events, in.current.asOf)

NextCatalyst(in) ==
    LET ahead == {e \in in.events : /\ e.kind = "catalyst"
                                    /\ e.time >= in.current.asOf}
    IN IF ahead = {} THEN None ELSE Nearest(ahead, in.current.asOf)

(* The position of an event is its window, that of a catalyst how near it is. *)
DatedDescriptor(in, event, position, distance) ==
    LET days == event.time - in.current.asOf
        where == IF position = "proximity" THEN Proximity(days) ELSE Window(days)
    IN IF event = None THEN NoEvent(in)
       ELSE Described("AVAILABLE", where,
                {FromEvent(position, <<"text", where>>, event),
                 FromEvent(distance, <<"num", days>>, event)}, {})

TimingDescriptor(in, t, family) ==
    CASE family = "STATE_TRANSITION" -> StateDescriptor(in, t)
      [] family = "EXPECTATION_REVISION_VELOCITY" -> VelocityDescriptor(in, Points(in))
      [] family = "THESIS_UPGRADE_DOWNGRADE" -> ThesisDescriptor(in, t)
      [] family = "RISK_ESCALATION" -> RiskDescriptor(in, t)
      [] family = "EVIDENCE_CONFIRMATION" -> EvidenceDescriptor(in, t)
      [] family = "EVENT_WINDOW" ->
            DatedDescriptor(in, NearestEvent(in),
                            "window_position", "distance_to_event_days")
      [] family = "CATALYST_PROXIMITY" ->
            DatedDescriptor(in, NextCatalyst(in),
                            "proximity", "distance_to_catalyst_days")

TimingObservation(in, t, family, d) ==
    LET c == in.current
        of == OfComponents(d)
        event == CASE family = "EVENT_WINDOW" -> NearestEvent(in)
                   [] family = "CATALYST_PROXIMITY" -> NextCatalyst(in)
                   [] OTHER -> None
        o == [id |-> None, family |-> family, usage |-> "TIMING",
              coverage |-> d.coverage, value |-> d.value,
              components |-> d.components, reasons |-> d.reasons,
              asset |-> c.asset, asOf |-> c.asOf, state |-> c.id,
              previous |-> IF t = None THEN None ELSE t.previous,
              transition |-> IF t = None THEN None ELSE t.id,
              episode |-> IF in.episode = None THEN None ELSE in.episode.id,
              sector |-> None, chains |-> c.chains, refs |-> of.refs,
              claims |-> of.claims,
              events |-> IF event = None THEN {} ELSE {event.id},
              sectorClaims |-> {}, evidence |-> of.evidence,
              artifacts |-> of.artifacts \union {<<"state", c.id>>}
                  \union UsedMemories(in)
                  \union (IF t = None THEN {} ELSE t.artifacts),
              available |-> Unknown, created |-> Unknown]
    IN [o EXCEPT !.id = o, !.available = in.available, !.created = in.created]

(* The two operations; None when the input is refused.                     *)
BuildTransition(in) ==
    IF TimingInputRejected(in) \/ ExternalRejected(in) \/ HistoryRejected(in)
    THEN None ELSE Transition(in)

(* t is the transition of the input, or None.  The build fails as a whole, *)
(* for all seven families, when one of the observations cannot be made.    *)
BuildTiming(in, t) ==
    LET described == {<<f, TimingDescriptor(in, t, f)>> : f \in TimingFamilies}
    IN
    IF \/ TimingInputRejected(in) \/ ExternalRejected(in) \/ HistoryRejected(in)
       \/ DividesByZero(in)
       \/ \E x \in described : ~DescriptorContract(x[2])
    THEN None
    ELSE {TimingObservation(in, t, x[1], x[2]) : x \in described}
=============================================================================
