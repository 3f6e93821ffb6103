---------------------------- MODULE GoldenReplay ----------------------------
(***************************************************************************)
(* The golden replay gate: a frozen run is built again from the rows and   *)
(* the context it came from, with no provider and no model, and a manifest *)
(* is written when state, episode, attribution and sample all come out as  *)
(* the files on disk say.  The program replays two runs: one of which the  *)
(* database and the manifest were kept, and an older one of which a        *)
(* summary was.  Nothing in it names the report whose rows it reads.       *)
(***************************************************************************)
EXTENDS ResearchHistory

VARIABLE golden            \* replay name -> the manifest last written

goldenVars == <<vars, golden>>

(* Five deliberately late objects must all be refused at the cutoff: four  *)
(* available an instant after it, and a membership effective from that     *)
(* instant's day, which may well be the day of the cutoff.                 *)
Challenges(cutoff) ==
    LET late == [available |-> cutoff + 1, ingested |-> Unknown,
                 asOf |-> Unknown, from |-> Unknown, to |-> Unknown]
    IN {late, [late EXCEPT !.available = Unknown,
                           !.from = Midnight(Day(cutoff + 1))]}

LeakageRefused ==
    \A m \in Challenges(state.asOf) : ~UsableAt(m, state.asOf, "replay")

---------------------------------------------------------------------------
(* The artifacts built again, compared with the files.  Once the state has *)
(* been found equal, the file stands for it in what follows.               *)
StateReplays(in) == ~StateRejected(in) /\ Snapshot(in) = state
EpisodeReplays(in) == ~EpisodeRejected(in) /\ Episode(in) = episode

(* The attribution is built from the episode and the context alone: links  *)
(* and retrievals that the file was made with are not given again.         *)
AttributionReplays(with) ==
    with # None =>
        /\ ~AttributionRejected(episode, Context, {}, {})
        /\ Attribution(episode, Context, {}, {}) = with

(* Mutant of SampleReplays: the rebuilt sample is not compared.            *)
SampleBuilds(with, sample) ==
    ~IdentityRejected(with) /\ ~TemporalRejected(with)

SampleReplays(with, sample) ==
    /\ ~IdentityRejected(with) /\ ~TemporalRejected(with)
    /\ Sample(with) = sample

---------------------------------------------------------------------------
(* The reference paths a manifest must show: a feature with its evidence,  *)
(* a manager's claim with the one it rests on, a used sector claim, a used *)
(* piece of context.  A manifest needs three paths, one of which is always *)
(* the sample's; a sector-aware replay fails without the latter two.       *)
FeatureTraced ==
    \E s \in {"fundamental", "valuation", "technical", "macro",
              "market_context"} :
        \E f \in state.sections[s].features : f.evidence # {}

ManagerTraced(claims) ==
    \E c \in claims : c.role = "research_manager" /\ c.claim.up # {}

SectorTraced ==
    (UNION {u.usedClaims : u \in episode.usage})
        \intersect Ids(Context.claims) # {}

UsageTraced(with) == \E a \in with.items : a.used

TracesSuffice(claims, with) ==
    IF with = None THEN FeatureTraced /\ ManagerTraced(claims)
                   ELSE SectorTraced /\ UsageTraced(with)

Manifest(run, sample) ==
    [run |-> run, stateId |-> state.id, episodeId |-> episode.id,
     sample |-> sample]

Replays(stateIn, episodeIn, with, sample) ==
    /\ sample.id \in outputs
    /\ LeakageRefused
    /\ StateReplays(stateIn)
    /\ EpisodeReplays(episodeIn)
    /\ AttributionReplays(with)
    /\ SampleReplays(with, sample)
    /\ TracesSuffice(stateIn.claims, with)

(* The run whose database was kept: all the successful claims of that      *)
(* database, no sector context and no attribution.                         *)
ReplayManifest(r) ==
    /\ state # None /\ episode # None /\ manifests[r] # None
    /\ \E sample \in samples :
          /\ Replays(StateInput(LoadAgentClaims(None), None),
                     ManifestEpisodeInput(r, None), None, sample)
          /\ golden' = [golden EXCEPT !["manifest"] = Manifest(r, sample)]
    /\ UNCHANGED vars

(* The run of which a summary was kept: no claims, but the sector context  *)
(* and the attribution.  It declares that no memory was retrieved, which   *)
(* the rebuilt attribution never contradicts.                              *)
ReplaySummary(summary) ==
    /\ state # None /\ episode # None /\ attribution # None
    /\ \E sample \in samples :
          /\ Replays(StateInput({}, Context),
                     SummaryEpisodeInput(summary), attribution, sample)
          /\ golden' = [golden EXCEPT !["summary"] =
                                          Manifest("summary", sample)]
    /\ UNCHANGED vars

GoldenInit == Init /\ golden = [n \in {"manifest", "summary"} |-> None]

GoldenNext ==
    \/ Next /\ UNCHANGED golden
    \/ \E r \in Reports : ReplayManifest(r)
    \/ \E summary \in Summaries : ReplaySummary(summary)

GoldenSpec == GoldenInit /\ [][GoldenNext]_goldenVars
---------------------------------------------------------------------------
(* What a golden manifest certifies is one execution: the claims in the    *)
(* state of its sample are exactly those the successful agents of the      *)
(* named report left, and its episode is that report's, although the       *)
(* replay reads the rows of every report, any of the files may have been   *)
(* rebuilt since the sample was made, and the state may have been frozen   *)
(* without the database.                                                   *)
GoldenIsOneRun ==
    LET g == golden["manifest"]
        accepted == UNION {row.accepted : row \in
                        {q \in RowsOf(g.run) : q.status = "ok"}}
    IN g # None =>
          /\ {c.claim : c \in g.sample.stateId.claims} = accepted
          /\ \A c \in g.sample.stateId.claims : c.run[1] = g.run
          /\ g.sample.episodeId.report = g.run
          /\ g.sample.episodeId.state = g.sample.stateId
=============================================================================
