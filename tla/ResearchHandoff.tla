---------------------------- MODULE ResearchHandoff ----------------------------
(***************************************************************************)
(* From the frozen states of assets to the files a quant consumer reads:   *)
(* selection and timing observations, the opportunity candidate, the       *)
(* handoff bundle and the exported batch.  Every artifact is a pure        *)
(* function of frozen inputs, each made by its own call, with the history, *)
(* the events and the clock its caller has by then; the bundle is where    *)
(* they must agree.  An artifact is held as the call that made it, and a   *)
(* bundle, which is kept, as its call and its content.                     *)
(***************************************************************************)
EXTENDS ResearchTransition

CONSTANTS Frozen,         \* key -> the input a state is frozen from
          Created,        \* key -> when the episode of the state was made
          SectorContext,  \* the [context, scope, events] given to the mapper
          Memories,       \* the memories a caller may have retrieved
          SelectionCalls, \* [key, episode, sector, all, at]
          TimingCalls,    \* [key, history, episode, events, at]
          Clocks,         \* when a candidate or a bundle may be made
          MaxCalls,       \* bound: calls that make artifacts
          MaxBundles,     \* bound: bundles kept for export
          MaxFiles        \* bound: JSONL files under different names

Keys == DOMAIN Frozen

(* What a key or a call makes, tabulated.  The id of a state digests its   *)
(* content: it is written as the first key that freezes to the same        *)
(* content.                                                                *)
Lookup(table, key) == (CHOOSE entry \in table : entry[1] = key)[2]

EpisodeOn(key, state) ==
    [id |-> <<"episode", key>>, stateId |-> state.id, asset |-> state.asset,
     asOf |-> state.asOf, dataId |-> state.dataId, created |-> Created[key]]

States ==
    LET inputs == {<<k, Frozen[k]>> : k \in Keys}
        snapshots == {<<i[1], Snapshot(i[2])>> : i \in inputs}
        FirstWith(id) == CHOOSE k \in Keys : Lookup(snapshots, k).id = id
    IN {<<s[1], [s[2] EXCEPT !.id = FirstWith(s[2].id)]>> : s \in snapshots}
Episodes == {<<s[1], EpisodeOn(s[1], s[2])>> : s \in States}

StateOf(k) == Lookup(States, k)
EpisodeFor(k) == Lookup(Episodes, k)

---------------------------------------------------------------------------
(* The calls.  at is both the availability and the creation of the result. *)
SelectionInput(call) ==
    [state |-> StateOf(call.key),
     episode |-> IF call.episode THEN EpisodeFor(call.key) ELSE None,
     sector |-> IF call.sector THEN SectorContext ELSE None,
     available |-> call.at, created |-> call.at]

TimingInput(call) ==
    [current |-> StateOf(call.key),
     history |-> {StateOf(k) : k \in call.history},
     episode |-> IF call.episode = None THEN None ELSE EpisodeFor(call.episode),
     episodes |-> {EpisodeFor(k) : k \in {h \in call.history :
                                            Created[h] <= call.at}},
     events |-> call.events, memories |-> Memories,
     available |-> call.at, created |-> call.at]

SelectionInputs == {<<call, SelectionInput(call)>> : call \in SelectionCalls}
TimingInputs == {<<call, TimingInput(call)>> : call \in TimingCalls}

Selections ==
    {<<i[1], BuildSelection(i[2], IF i[1].all THEN Families
                                              ELSE SelectionFamilies)>> :
        i \in SelectionInputs}
Transitions == {<<i[1], BuildTransition(i[2])>> : i \in TimingInputs}
TransitionOf(call) == Lookup(Transitions, call)

Timings ==
    LET both == {<<i[1], i[2], TransitionOf(i[1])>> : i \in TimingInputs}
    IN {<<b[1], BuildTiming(b[2], b[3])>> : b \in both}

SelectionOf(call) == Lookup(Selections, call)
TimingOf(call) == Lookup(Timings, call)

(* A call names frozen states, and a history is given item by item.  Equal *)
(* digests are those of equal content, so an id determines its state, and  *)
(* Rank, which orders by id, sets different states apart.  What a state is *)
(* frozen from, an event, a memory and a context have ids of their own     *)
(* sorts, and None stands for none of the things it is compared with.      *)
Foreign(id) == id[1] \notin {"state", "transition"}

ASSUME HandoffAssumption ==
    /\ Clocks \subseteq Nat
    /\ \A call \in TimingCalls :
          /\ call.key \in Keys /\ call.history \subseteq Keys
          /\ IsFiniteSet(call.history) /\ IsFiniteSet(call.events)
          /\ \A e \in call.events : /\ Foreign(e.id)
                                    /\ e.time \in Nat /\ e.id[2] \in Int
    /\ \A call \in SelectionCalls : call.key \in Keys
    /\ \A m \in Memories : Foreign(m.id)
    /\ Foreign(SectorContext.context)
    /\ \A k \in Keys :
          /\ Frozen[k].bundle.asOf \in Nat
          /\ Foreign(Frozen[k].bundle.id)
          /\ Frozen[k].sector # None => Foreign(Frozen[k].sector.id)
          /\ Frozen[k].memory # None => Foreign(Frozen[k].memory.id)
          /\ \A s \in Sections : None \notin StateOf(k).sections[s].features
    /\ \A k, l \in Keys :
          /\ StateId(Frozen[k]) = StateId(Frozen[l])
               => Snapshot(Frozen[k]) = Snapshot(Frozen[l])
          /\ Rank[Frozen[k].run] \in Int
          /\ StateOf(k) # StateOf(l) => Rank[Frozen[k].run] # Rank[Frozen[l].run]
    /\ None \notin TimingCalls
    /\ \A call \in TimingCalls :
          TransitionOf(call) # None => TransitionOf(call).id # None

---------------------------------------------------------------------------
(* The opportunity candidate: rules over the selection descriptors and the *)
(* claims of the state, each a pair of a type and its reason.              *)
OfFamily(observations, family) ==
    LET found == {o \in observations : o.family = family}
    IN IF found = {} THEN None ELSE CHOOSE o \in found : TRUE

ValueOf(observations, family) ==
    LET o == OfFamily(observations, family)
    IN IF o = None THEN None
       ELSE IF o.coverage = "AVAILABLE" THEN o.value ELSE None

ClaimsOf(observation) == IF observation = None THEN {} ELSE observation.claims

Qualifying(state, obs) ==
    {rule \in {"sector_chain", "expectation_change", "logic_stage",
               "research_debate", "material_thesis", "asset_event",
               "risk_research"} :
       CASE rule = "sector_chain" ->
              ValueOf(obs, "SECTOR_CHAIN_ALIGNMENT") \in
                {"positive_alignment", "negative_alignment", "mixed"}
         [] rule = "expectation_change" ->
              ValueOf(obs, "EXPECTATION_REVISION")
                \notin {"unchanged", "uncertain", None}
         [] rule = "logic_stage" ->
              ValueOf(obs, "LOGIC_CERTAINTY")
                \notin {"rumor", "uncertain", None}
         [] rule = "research_debate" ->
              ValueOf(obs, "RESEARCH_DISAGREEMENT") \notin {"uncertain", None}
         [] rule = "material_thesis" ->
              ClaimsAt(state, "thesis", "research", None) # {}
         [] rule = "asset_event" ->
              ClaimsAt(state, "event", "news_event_analyst", None) # {}
         [] rule = "risk_research" ->
              ClaimsOf(OfFamily(obs, "RISK_BURDEN")) # {}}

(* The direction is read whatever the coverage of the observation.         *)
Direction(obs) ==
    LET alignment == OfFamily(obs, "SECTOR_CHAIN_ALIGNMENT")
        disagreement == OfFamily(obs, "RESEARCH_DISAGREEMENT")
        ByAlignment == [positive_alignment |-> "positive",
                        negative_alignment |-> "negative", mixed |-> "mixed"]
        ByDebate == [consensus_positive |-> "positive",
                     consensus_negative |-> "negative",
                     high_disagreement |-> "mixed", risk_dominant |-> "negative",
                     mixed |-> "mixed"]
        a == IF alignment = None THEN None ELSE alignment.value
        b == IF disagreement = None THEN None ELSE disagreement.value
    IN IF a \in DOMAIN ByAlignment THEN ByAlignment[a]
       ELSE IF b \in DOMAIN ByDebate THEN ByDebate[b] ELSE "uncertain"

CandidateCoverage(obs, qualified) ==
    LET statuses == {o.coverage : o \in obs}
    IN IF qualified
       THEN IF statuses \subseteq {"AVAILABLE", "NOT_APPLICABLE"}
            THEN "AVAILABLE" ELSE "PARTIAL"
       ELSE IF \E s \in {"NOT_AVAILABLE_AT_SOURCE_RUN", "NOT_APPLICABLE"} :
                 statuses = {s}
       THEN CHOOSE s \in statuses : TRUE
       ELSE "MISSING_INPUT"

(* Invalidators are debate claims under that path of their output.         *)
Invalidators(state) ==
    UNION {x[2].claims : x \in {y \in In(state, {"debate"}) :
                                   /\ y[2].name[1] = "claim"
                                   /\ y[2].name[2][2] = "invalidators"}}

CandidateRejected(state, episode, obs, at) ==
    \/ \E o \in obs : \/ o.usage = "TIMING"
                      \/ o.asset # state.asset \/ o.asOf # state.asOf
                      \/ o.state # state.id
                      \/ o.created > at
                      \/ o.episode \notin {None, episode.id}
    \/ episode.created > at

CandidateContent(state, episode, obs, rules) ==
    [id |-> None, qualified |-> rules # {}, rules |-> rules,
     asset |-> state.asset, asOf |-> state.asOf,
     available |-> Max({o.available : o \in obs}),
     sectors |-> {o.sector : o \in obs} \ {None},
     chains |-> UNION {o.chains : o \in obs},
     direction |-> Direction(obs),
     stage |-> ValueOf(obs, "LOGIC_CERTAINTY"),
     observations |-> {o.id : o \in obs},
     risks |-> ClaimsOf(OfFamily(obs, "RISK_BURDEN")),
     invalidators |-> Invalidators(state),
     state |-> state.id, episode |-> episode.id,
     claims |-> UNION {o.claims : o \in obs},
     events |-> UNION {o.events : o \in obs},
     sectorClaims |-> UNION {o.sectorClaims : o \in obs},
     coverage |-> CandidateCoverage(obs, rules # {}), created |-> Unknown]

Unsupported(c) ==
    c.qualified /\ c.claims \union c.events \union c.sectorClaims = {}

CandidateMade(c, at) ==
    IF Unsupported(c) THEN None ELSE [c EXCEPT !.id = c, !.created = at]

Candidate(state, episode, obs, at) ==
    IF CandidateRejected(state, episode, obs, at) THEN None
    ELSE CandidateMade(CandidateContent(state, episode, obs,
                                        Qualifying(state, obs)), at)

CandidateOf(call) ==
    LET obs == SelectionOf(call.selection)
    IN Candidate(StateOf(call.key), EpisodeFor(call.key), obs, call.at)

---------------------------------------------------------------------------
(* The bundle.  Its parts are given as they are; a missing one is {} or    *)
(* None.                                                                   *)
Parts(call) ==
    [state |-> StateOf(call.key), episode |-> EpisodeFor(call.key),
     selection |-> IF call.selection = None THEN {}
                   ELSE SelectionOf(call.selection),
     timing |-> IF call.timing = None THEN {} ELSE TimingOf(call.timing),
     candidate |-> IF call.candidate = None THEN None
                   ELSE CandidateOf(call.candidate),
     transition |-> IF call.transition = None THEN None
                    ELSE TransitionOf(call.transition),
     at |-> call.at]

Materialized(available, created, at) ==
    UsableAt([available |-> available, ingested |-> created,
              asOf |-> Unknown, from |-> Unknown, to |-> Unknown], at, "replay")

(* The features an observation may refer to: those of the state and those  *)
(* the changes of the transition name.                                     *)
Referable(in) ==
    {Ref(x) : x \in In(in.state, Sections)}
        \union IF in.transition = None THEN {}
               ELSE UNION {c.refs : c \in in.transition.expectation
                                            \union in.transition.risk
                                            \union in.transition.catalyst
                                            \union in.transition.evidence}

ObservationRejected(in, o) ==
    \/ o.asset # in.state.asset \/ o.asOf # in.state.asOf
    \/ o.state # in.state.id
    \/ o.episode \notin {None, in.episode.id}
    \/ ~Materialized(o.available, o.created, in.at)
    \/ ~(o.refs \subseteq Referable(in))

CandidateDisagrees(in) ==
    LET c == in.candidate
    IN /\ c # None
       /\ \/ c.asset # in.state.asset \/ c.asOf # in.state.asOf
          \/ c.state # in.state.id
          \/ c.episode \notin {None, in.episode.id}
          \/ ~(c.observations \subseteq {o.id : o \in in.selection})
          \/ ~Materialized(c.available, c.created, in.at)

(* Mutant of TransitionDisagrees: the transition need only be one of the   *)
(* same asset.                                                             *)
TransitionOfAsset(in) ==
    in.transition # None /\ in.transition.asset # in.state.asset

TransitionDisagrees(in) ==
    LET t == in.transition
    IN /\ t # None
       /\ \/ t.asset # in.state.asset \/ t.current # in.state.id
          \/ t.currentAsOf # in.state.asOf \/ t.previousAsOf >= t.currentAsOf
          \/ t.episode \notin {None, in.episode.id}
          \/ ~Materialized(t.available, t.created, in.at)

(* Mutant of TimingDisagrees: a handoff without a transition takes any.    *)
TimingDisagreesWithGiven(in) ==
    /\ in.transition # None
    /\ \E o \in in.timing : o.transition \notin {None, in.transition.id}

TimingDisagrees(in) ==
    \E o \in in.timing :
        o.transition \notin
            {None, IF in.transition = None THEN None ELSE in.transition.id}

HandoffRejected(in) ==
    LET observations == in.selection \union in.timing
        sectors == ({o.sector : o \in observations} \ {None})
                     \union IF in.candidate = None THEN {}
                            ELSE in.candidate.sectors
    IN \/ in.episode.dataId # in.state.dataId
       \/ in.episode.created > in.at
       \/ observations = {}
       \/ \E o \in in.selection : o.usage = "TIMING"
       \/ \E o \in in.timing : o.usage = "SELECTION"
       \/ \E o \in observations : ObservationRejected(in, o)
       \/ CandidateDisagrees(in)
       \/ TransitionDisagrees(in)
       \/ TimingDisagrees(in)
       \/ Cardinality(sectors) > 1

BundleCoverage(in) ==
    LET statuses == {o.coverage : o \in in.selection \union in.timing}
                      \union IF in.candidate = None THEN {}
                             ELSE {in.candidate.coverage}
    IN IF Cardinality(statuses) = 1 THEN CHOOSE s \in statuses : TRUE
       ELSE "PARTIAL"

Provenance(in) ==
    LET observations == in.selection \union in.timing
        c == IF in.candidate = None THEN {} ELSE {in.candidate}
        t == IF in.transition = None THEN {} ELSE {in.transition}
    IN [claims |-> (UNION {x.claims : x \in observations \union c \union t})
                   \union UNION {x.risks \union x.invalidators : x \in c},
        evidence |-> (UNION {o.evidence : o \in observations})
                     \union UNION {x.sources : x \in t},
        events |-> UNION {x.events : x \in observations \union c \union t},
        sectorClaims |-> UNION {x.sectorClaims : x \in observations \union c},
        artifacts |->
            {<<"state", in.state.id>>, in.episode.id}
            \union {<<"observation", o.id>> : o \in observations}
            \union (UNION {o.artifacts : o \in observations})
            \union {<<"candidate", x.id>> : x \in c}
            \union {<<"transition", x.id>> : x \in t}
            \union UNION {x.artifacts : x \in t}]

(* What the reader of a bundle is given of an observation.                 *)
Reference(o) ==
    [id |-> o.id, family |-> o.family, usage |-> o.usage,
     coverage |-> o.coverage, value |-> o.value, components |-> o.components,
     reasons |-> o.reasons, available |-> o.available]

HandoffBundle(call, in) ==
    LET chains == in.state.chains
                    \union UNION {o.chains : o \in in.selection \union in.timing}
        b == [asset |-> in.state.asset, asOf |-> in.state.asOf,
              chains |-> chains, state |-> in.state.id,
              episode |-> in.episode.id,
              candidate |-> IF in.candidate = None THEN None
                            ELSE in.candidate.id,
              transition |-> IF in.transition = None THEN None
                             ELSE in.transition.id,
              selection |-> {Reference(o) : o \in in.selection},
              timing |-> {Reference(o) : o \in in.timing},
              coverage |-> BundleCoverage(in), provenance |-> Provenance(in),
              run |-> in.state.run]
    IN [call |-> call, id |-> b, created |-> in.at]

---------------------------------------------------------------------------
VARIABLES selection, timing, transition, candidate,
                          \* the call behind each artifact at hand, or None
          bundles,        \* the bundles at hand: each a [call, id, created]
          lines,          \* the JSONL files: each the set of its bundles
          batchManifests, \* the manifests: each a [batch, at]
          exporting,      \* the [batch, at] half-way exported, or None
          calls           \* calls so far

handoffVars == <<selection, timing, transition, candidate, bundles, lines,
                 batchManifests, exporting, calls>>
export == <<lines, batchManifests, exporting>>

HandoffInit ==
    /\ selection = None /\ timing = None /\ transition = None
    /\ candidate = None /\ bundles = {} /\ calls = 0
    /\ lines = {} /\ batchManifests = {} /\ exporting = None

Building == calls < MaxCalls /\ calls' = calls + 1

MapSelection ==
    /\ Building
    /\ \E call \in SelectionCalls : SelectionOf(call) # None /\ selection' = call
    /\ UNCHANGED <<timing, transition, candidate, bundles, export>>

CompareStates ==
    /\ Building
    /\ \E call \in TimingCalls : TransitionOf(call) # None /\ transition' = call
    /\ UNCHANGED <<selection, timing, candidate, bundles, export>>

ObserveTiming ==
    /\ Building
    /\ \E call \in TimingCalls : TimingOf(call) # None /\ timing' = call
    /\ UNCHANGED <<selection, transition, candidate, bundles, export>>

Qualify ==
    /\ Building
    /\ selection # None
    /\ \E k \in Keys, at \in Clocks :
          LET call == [key |-> k, selection |-> selection, at |-> at]
          IN CandidateOf(call) # None /\ candidate' = call
    /\ UNCHANGED <<selection, timing, transition, bundles, export>>

Assemble ==
    /\ Building
    /\ Cardinality(bundles) < MaxBundles
    /\ \E call \in [key : Keys, selection : {None, selection},
                    timing : {None, timing}, transition : {None, transition},
                    candidate : {None, candidate}, at : Clocks] :
          \E in \in {Parts(call)} :
             /\ ~HandoffRejected(in)
             /\ bundles' = bundles \union {HandoffBundle(call, in)}
    /\ UNCHANGED <<selection, timing, transition, candidate, export>>

---------------------------------------------------------------------------
(* The export of a batch: its lines, then its manifest, each under a name  *)
(* made of the ids of its bundles, over what is there; it may be lost      *)
(* between the two.                                                        *)
Name(batch) == {bundle.id : bundle \in batch}
JoinKey(bundle) == <<bundle.id.asset, bundle.id.asOf>>

(* Mutant of BatchRejected: only the identities are compared.              *)
BatchRepeatsId(batch, at) ==
    \/ Cardinality(Name(batch)) # Cardinality(batch)
    \/ \E bundle \in batch : bundle.created > at

BatchRejected(batch, at) ==
    \/ Cardinality(Name(batch)) # Cardinality(batch)
    \/ Cardinality({JoinKey(bundle) : bundle \in batch}) # Cardinality(batch)
    \/ \E bundle \in batch : bundle.created > at

(* The manifests once this one is written: one of its name is replaced.    *)
Filed(manifest) ==
    {m \in batchManifests : Name(m.batch) # Name(manifest.batch)}
        \union {manifest}

(* Mutant of WriteLines: the manifest goes first.                          *)
WriteLinesLast ==
    /\ exporting = None
    /\ \E batch \in (SUBSET bundles) \ {{}}, at \in Clocks :
          /\ ~BatchRejected(batch, at)
          /\ batchManifests' = Filed([batch |-> batch, at |-> at])
          /\ exporting' = [batch |-> batch, at |-> at]
    /\ UNCHANGED <<selection, timing, transition, candidate, bundles,
                   lines, calls>>

WriteLines ==
    /\ exporting = None
    /\ \E batch \in (SUBSET bundles) \ {{}}, at \in Clocks :
          /\ ~BatchRejected(batch, at)
          /\ lines' = {f \in lines : Name(f) # Name(batch)} \union {batch}
          /\ Cardinality(lines') <= MaxFiles
          /\ exporting' = [batch |-> batch, at |-> at]
    /\ UNCHANGED <<selection, timing, transition, candidate, bundles,
                   batchManifests, calls>>

WriteBatchManifest ==
    /\ exporting # None
    /\ batchManifests' = Filed(exporting)
    /\ exporting' = None
    /\ UNCHANGED <<selection, timing, transition, candidate, bundles,
                   lines, calls>>

Lost ==
    /\ exporting # None
    /\ exporting' = None
    /\ UNCHANGED <<selection, timing, transition, candidate, bundles,
                   lines, batchManifests, calls>>

HandoffNext ==
    \/ MapSelection \/ CompareStates \/ ObserveTiming \/ Qualify
    \/ Assemble \/ WriteLines \/ WriteBatchManifest \/ Lost

HandoffSpec == HandoffInit /\ [][HandoffNext]_handoffVars

---------------------------------------------------------------------------
(* The states a bundle may name, its own and the one its calls compared it *)
(* with, and those it may draw claims and evidence from: the series of its *)
(* timing as well, since a velocity cites the third value it is taken over *)
(* without naming the state that has it.                                   *)
Given(call) == {call.timing, call.transition} \ {None}

Compared(call) ==
    LET made == {TransitionOf(c) : c \in Given(call)} \ {None}
    IN {s[2] : s \in {x \in States : \/ x[1] = call.key
                                     \/ \E t \in made : t.previous = x[2].id}}

Series(call) == UNION {Peers(TimingInput(c)) : c \in {call.timing} \ {None}}

(* Everything a bundle cites comes from its own state, the nearest earlier *)
(* one its timing was compared with, the states of its timing's series and *)
(* the events, memories and sector context of its calls; nothing comes     *)
(* from a state at or after its cutoff, or from another asset.             *)
BundleIsClosed ==
    \A bundle \in bundles : \A own \in {Compared(bundle.call)} :
        LET b == bundle.id
            drawn == own \union Series(bundle.call)
            features == UNION {{x[2] : x \in In(s, Sections)} : s \in drawn}
            events == UNION {c.events : c \in Given(bundle.call)}
        IN /\ \A s \in drawn : /\ s.asset = b.asset
                               /\ s.id = b.state \/ s.asOf < b.asOf
           /\ b.provenance.claims \subseteq
                UNION {x.claims : x \in features \union events}
           /\ b.provenance.evidence \subseteq
                UNION {x.evidence : x \in features \union events}
           /\ {a \in b.provenance.artifacts : a[1] = "state"}
                = {<<"state", s.id>> : s \in own}
           /\ {a \in b.provenance.artifacts : a[1] = "transition"}
                \subseteq {<<"transition", b.transition>>}

(* What a caller asks about, and the earlier states of that asset in the   *)
(* history it gives.                                                       *)
Question(call) == <<call.key, call.episode, call.events, call.at>>

Past(call) ==
    {k \in call.history : /\ StateOf(k).asset = StateOf(call.key).asset
                          /\ StateOf(k).asOf < StateOf(call.key).asOf}

(* "Later revisions cannot alter the earlier observation": a transition    *)
(* and a timing build that were not refused are those of any other call    *)
(* with the same question and the same past, whatever states at or after   *)
(* the cutoff, or of other assets, either caller had in its history.       *)
PastDecides ==
    (/\ timing # None /\ transition # None
     /\ Question(timing) = Question(transition)
     /\ Past(timing) = Past(transition))
    => /\ TransitionOf(timing) = TransitionOf(transition)
       /\ TimingOf(timing) = TimingOf(transition)

(* A velocity is complete only over three values at three cutoffs, and it  *)
(* accelerates exactly when carrying the earlier rate over the last        *)
(* interval would have moved the value less than it moved.                 *)
VelocityIsPerDay ==
    \A history \in {Points(i[2]) : i \in {x \in TimingInputs : x[1] = timing}} :
    \A o \in TimingOf(timing) :
        (o.family = "EXPECTATION_REVISION_VELOCITY" /\ o.coverage = "AVAILABLE")
        => LET last == SubSeq(history, Len(history) - 2, Len(history))
               v == [i \in 1..3 |-> last[i].feature.value[2]]
               days(i) == last[i].at - last[i - 1].at
               Moved(i) == Absolute(v[i] - v[i - 1])
               order == CHOOSE c \in o.components :
                            c.name = "second_order_change"
           IN /\ last[1].at < last[2].at /\ last[2].at < last[3].at
              /\ (order.value = <<"text", "accelerating">>)
                    <=> (Moved(2) * days(3) < Moved(3) * days(2))

(* Every manifest on disk has the JSONL file it names, with the bundles it *)
(* lists, one for each asset and cutoff and none made after the export, as *)
(* far as the file has not been written again since.                       *)
ManifestHasItsLines ==
    \A m \in batchManifests :
        /\ \E batch \in lines : Name(batch) = Name(m.batch)
        /\ \A bundle, other \in m.batch :
              /\ bundle.created <= m.at
              /\ JoinKey(bundle) = JoinKey(other) => bundle = other

(* "T2 Evidence must not be reachable from T1": a hypothesis counts as     *)
(* confirmed or contradicted only on evidence that no feature of the       *)
(* earlier state rests on.                                                 *)
ConfirmationIsDistinct ==
    \A call \in {transition} \ {None} :
    \A c \in TransitionOf(call).evidence : c.class # "unresolved" =>
        \E k \in Keys :
            /\ StateOf(k).id = TransitionOf(call).previous
            /\ ~(c.evidence \subseteq
                   UNION {x[2].evidence : x \in In(StateOf(k), Sections)})

(* "Return one truthful existing Observation for every Timing family": the *)
(* input of a transition gives the seven timing observations as well.      *)
TimingIsTotal == transition # None => TimingOf(transition) # None
=============================================================================
