--------------------------- MODULE ResearchHistory ---------------------------
(***************************************************************************)
(* How the history of an asset is frozen.  A research run leaves rows of   *)
(* agent runs in a shared database and a manifest; offline programs then   *)
(* freeze a state, an episode, an attribution and a dataset sample, each   *)
(* from the files of the earlier ones.  One database may hold the runs of  *)
(* two reports (a live rerun); a program may be run again and overwrite    *)
(* its file while those made from the old one are still there; and a       *)
(* program may be lost between two of its writes.                          *)
(***************************************************************************)
EXTENDS ResearchAttribution, Sequences, SequencesExt

CONSTANTS Reports,        \* the reports of the database
          Contents,       \* what a run may leave: [rows, created]
          Bundle,         \* the research data bundle of the runs
          Context,        \* the frozen sector context of the runs
          Summaries,      \* old runs of which only counts were kept
          Provisions,     \* sets of memory retrievals, with their links
          MaxSamples,     \* bound: rows of the dataset
          MaxBuilds       \* bound: runs of the programs that freeze

(* What a run leaves is a list of rows; times are instants; and no report  *)
(* has the name under which the runs of a summary are known.               *)
ASSUME HistoryAssumption ==
    /\ \A c \in Contents : c.rows \in Seq(Range(c.rows)) /\ c.created \in Nat
    /\ \A s \in Summaries : s.created \in Nat
    /\ Bundle.asOf \in Nat
    /\ "fixed" \notin Reports

VARIABLES db,             \* agent_runs, in the order of creation
          manifests,      \* report -> its manifest's timestamp
          state, episode, attribution,      \* the frozen artifacts on disk
          samples,        \* the rows of research_dataset_samples
          outputs,        \* sample ids whose JSON file has been written
          indexed,        \* sample ids whose manifest has been written
          job,            \* the dataset build in progress, or None
          builds          \* runs of the freezing programs so far

vars == <<db, manifests, state, episode, attribution, samples, outputs,
          indexed, job, builds>>
frozen == <<state, episode, attribution, builds>>
dataset == <<samples, outputs, indexed, job>>

Init ==
    /\ db = <<>>
    /\ manifests = [r \in Reports |-> None]
    /\ state = None /\ episode = None /\ attribution = None
    /\ samples = {} /\ outputs = {} /\ indexed = {}
    /\ job = None /\ builds = 0

RowsOf(r) == {db[i] : i \in {j \in DOMAIN db : db[j].report = r}}

---------------------------------------------------------------------------
(* A research run: its agents' rows, then its manifest, whose timestamp is *)
(* the wall clock at the end of the run.                                   *)
RunRow(r, row) ==
    [report |-> r, run |-> <<r, row.role>>, role |-> row.role,
     status |-> row.status, given |-> row.given, accepted |-> row.accepted,
     rejected |-> row.rejected]

RunReport(r) ==
    /\ manifests[r] = None
    /\ \E content \in Contents :
          /\ db' = db \o [i \in DOMAIN content.rows |->
                            RunRow(r, content.rows[i])]
          /\ manifests' = [manifests EXCEPT ![r] = content.created]
    /\ UNCHANGED <<frozen, dataset>>

---------------------------------------------------------------------------
(* The claims of the successful runs of one report, or of all of them when *)
(* the operator names none.                                                *)
LoadAgentClaims(filter) ==
    UNION {{[role |-> row.role, run |-> row.run, claim |-> c] :
              c \in row.accepted} :
           row \in {q \in ToSet(db) : /\ q.status = "ok"
                                      /\ filter \in {None, q.report}}}

StateInput(claims, sector) ==
    [bundle |-> Bundle, sector |-> sector, memory |-> None,
     claims |-> claims, normalized |-> {}, run |-> "source"]

(* build_research_state: with or without an agent database, a report id    *)
(* and a sector context.                                                   *)
FreezeState ==
    /\ builds < MaxBuilds /\ builds' = builds + 1
    /\ \E filter \in Reports \union {None}, withDb \in BOOLEAN,
          sector \in {None, Context} :
          LET in == StateInput(IF withDb THEN LoadAgentClaims(filter) ELSE {},
                               sector)
          IN /\ ~StateRejected(in)
             /\ state' = Snapshot(in)
    /\ UNCHANGED <<db, manifests, episode, attribution, dataset>>

(* build_research_episode from a run manifest and the agent database.      *)
ManifestEpisodeInput(r, ctx) ==
    [state |-> state, traces |-> {CompleteTrace(row) : row \in RowsOf(r)},
     usage |-> IF ctx = None THEN {} ELSE SectorUsage(ctx, RowsOf(r)),
     report |-> r, created |-> manifests[r], missing |-> {}]

(* build_research_episode from a summary that kept counts only.            *)
SummaryEpisodeInput(summary) ==
    [state |-> state,
     traces |-> {PartialTrace(role, summary.agents[role], summary.usage) :
                   role \in DOMAIN summary.agents},
     usage |-> summary.usage, report |-> None, created |-> summary.created,
     missing |-> {"claim_identities", "latency"}]

EpisodeInputs ==
    {ManifestEpisodeInput(r, ctx) :
        r \in {q \in Reports : manifests[q] # None}, ctx \in {None, Context}}
    \union {SummaryEpisodeInput(s) : s \in Summaries}

FreezeEpisode ==
    /\ builds < MaxBuilds /\ builds' = builds + 1
    /\ state # None
    /\ \E in \in EpisodeInputs :
          /\ ~EpisodeRejected(in)
          /\ episode' = Episode(in)
    /\ UNCHANGED <<db, manifests, state, attribution, dataset>>

(* build_research_attribution: the whole agent database is read for links. *)
(* A caller of the builder may also hand it memory retrievals.             *)
FreezeAttribution ==
    /\ builds < MaxBuilds /\ builds' = builds + 1
    /\ episode # None
    /\ \E ctx \in {None, Context}, withDb \in BOOLEAN, memory \in Provisions :
          LET links == memory.links \union
                         (IF withDb /\ ctx # None
                          THEN ClaimLinks(db, episode, ctx) ELSE {})
          IN /\ ~AttributionRejected(episode, ctx, memory.provisions, links)
             /\ attribution' =
                  Attribution(episode, ctx, memory.provisions, links)
    /\ UNCHANGED <<db, manifests, state, episode, dataset>>

---------------------------------------------------------------------------
(* The dataset sample: its identity leaves out when it was materialized.   *)
VisibleAt(available, asOf, cutoff) ==
    UsableAt([available |-> available, ingested |-> Unknown, asOf |-> asOf,
              from |-> Unknown, to |-> Unknown], cutoff, "replay")

(* Mutant of ForeignAttribution: the cutoff alone is compared.             *)
LateAttribution(with) == with.asOf # state.asOf

ForeignAttribution(with) ==
    with.episodeId # episode.id \/ with.asOf # state.asOf

IdentityRejected(with) ==
    \/ episode.stateId # state.id
    \/ episode.asset # state.asset \/ episode.asOf # state.asOf
    \/ episode.dataId # state.dataId
    \/ episode.sectorId # state.sectorId
    \/ episode.memoryId # state.memoryId
    \/ state.agentRuns # {} /\ episode.agentRuns # state.agentRuns
    \/ with # None /\ ForeignAttribution(with)

TemporalRejected(with) ==
    \/ ~VisibleAt(state.asOf, state.asOf, state.asOf)
    \/ ~VisibleAt(episode.created, episode.asOf, state.asOf)
    \/ /\ with # None
       /\ ~VisibleAt(with.asOf, with.asOf, state.asOf)

ComponentStatus(section, id) ==
    IF id = None THEN "not_available"
    ELSE IF section.status = "present" THEN "available" ELSE "partial"

MemoryIsEmpty ==
    \E f \in state.sections["memory_context"].features :
        f.name = <<"memory", "result_count">> /\ f.value = <<"num", 0>>

(* Of the fifteen sections, the twelve every run must have.                *)
CoreSections == Sections \ {"sector", "industry_chain", "memory_context"}

Quality(with) ==
    [state |-> IF \A s \in CoreSections :
                    state.sections[s].status = "present"
               THEN "available" ELSE "partial",
     episode |-> IF episode.complete THEN "available" ELSE "partial",
     sector |-> ComponentStatus(state.sections["sector"], episode.sectorId),
     memory |-> IF episode.memoryId # None /\ MemoryIsEmpty
                THEN "empty_valid"
                ELSE ComponentStatus(state.sections["memory_context"],
                                     episode.memoryId),
     attribution |-> IF with # None THEN "available"
                     ELSE "not_available"]

Sample(with) ==
    [id |-> <<state.id, episode.id,
              IF with = None THEN None ELSE with.id>>,
     asset |-> state.asset, asOf |-> state.asOf,
     stateId |-> state.id, episodeId |-> episode.id,
     attributionId |-> IF with = None THEN None ELSE with.id,
     quality |-> Quality(with)]

(* ResearchDatasetRepository.save: an insert, refused when the identity or *)
(* the episode is already there.                                           *)
SaveRefused(sample) ==
    \E s \in samples : s.id = sample.id \/ s.episodeId = sample.episodeId

(* build_research_dataset: build and insert, then the file, then the       *)
(* manifest that names it.                                                 *)
SaveSample ==
    /\ job = None /\ state # None /\ episode # None
    /\ Cardinality(samples) < MaxSamples
    /\ \E with \in {None, attribution} :
          LET sample == Sample(with)
          IN /\ ~IdentityRejected(with)
             /\ ~TemporalRejected(with)
             /\ ~SaveRefused(sample)
             /\ samples' = samples \union {sample}
             /\ job' = [sample |-> sample, step |-> "output"]
    /\ UNCHANGED <<db, manifests, frozen, outputs, indexed>>

WriteOutput ==
    /\ job # None /\ job.step = "output"
    /\ outputs' = outputs \union {job.sample.id}
    /\ job' = [job EXCEPT !.step = "manifest"]
    /\ UNCHANGED <<db, manifests, frozen, samples, indexed>>

(* Mutant of WriteManifest: the manifest is written before the file.       *)
WriteManifestEarly ==
    /\ job # None /\ job.step = "output"
    /\ indexed' = indexed \union {job.sample.id}
    /\ job' = None
    /\ UNCHANGED <<db, manifests, frozen, samples, outputs>>

WriteManifest ==
    /\ job # None /\ job.step = "manifest"
    /\ indexed' = indexed \union {job.sample.id}
    /\ job' = None
    /\ UNCHANGED <<db, manifests, frozen, samples, outputs>>

(* A write fails, or the program dies: what it has written stays.          *)
BuildDies ==
    /\ job # None
    /\ job' = None
    /\ UNCHANGED <<db, manifests, frozen, samples, outputs, indexed>>

Next ==
    \/ \E r \in Reports : RunReport(r)
    \/ FreezeState \/ FreezeEpisode \/ FreezeAttribution
    \/ SaveSample \/ WriteOutput \/ WriteManifest \/ BuildDies

Spec == Init /\ [][Next]_vars
---------------------------------------------------------------------------
(* Two executions are never merged: the runs of an episode, and the runs   *)
(* whose claims its state holds, are all of one report, although both      *)
(* reports share a database and a state may be built from all of it.       *)
RunsBehind(e) == e.agentRuns \union {c.run : c \in e.id.state.claims}

EpisodeIsOneExecution ==
    episode # None =>
        \E r \in Reports \union {"fixed"} :
            \A run \in RunsBehind(episode) : run[1] = r

(* A sample joins artifacts of one run, although any of its files may have *)
(* been rebuilt after the others: what its state holds of the agents and   *)
(* what its attribution says they used are claims that its episode         *)
(* accepted, and the episode was recorded by the cutoff.                   *)
SampleIsClosed ==
    \A s \in samples :
        LET accepted == UNION {t.accepted : t \in s.episodeId.traces}
        IN /\ {c.claim.id : c \in s.stateId.claims} \subseteq accepted
           /\ s.episodeId.state = s.stateId
           /\ s.episodeId.created <= s.asOf
           /\ s.attributionId # None =>
                 \A a \in s.attributionId[3] : a.usedBy \subseteq accepted

(* In the attribution of a complete episode, context counts as used        *)
(* exactly when an accepted claim of that run says so; in that of a        *)
(* partial one a use without a claim is marked as not available.           *)
UseIsEvidenced ==
    attribution # None =>
        \A a \in attribution.items :
            /\ a.usedBy # {} => a.used
            /\ a.used /\ a.usedBy = {} =>
                  /\ a.status = "not_available"
                  /\ attribution.episodeId.report = None

(* A manifest names a file that exists, and a file a row that exists,      *)
(* wherever the program was lost.                                          *)
IndexedSampleIsWhole ==
    /\ indexed \subseteq outputs
    /\ outputs \subseteq {s.id : s \in samples}

(* A link between a claim and a sector claim is one of the lineage of the  *)
(* report the claim was made in.                                           *)
LinksAreExact ==
    attribution # None /\ attribution.episodeId.report # None =>
        LET rows == RowsOf(attribution.episodeId.report)
            claims == UNION {r.accepted : r \in rows}
            index == claims \union Context.claims
        IN \A a \in attribution.items : \A c \in claims :
              a.type = "sector_claim" /\ c.id \in a.usedBy =>
                  a.context \in SectorAncestors(index, Ids(Context.claims), c)
=============================================================================
