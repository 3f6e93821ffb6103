# Verification of deepinsight

TLA+ models, TLC runs and TLAPS proofs for deepinsight, a research system that
accepts a request for a report over HTTP, acquires point-in-time evidence, lets a
fixed chain of eight LLM agents interpret it, and stores an attributable report
together with a memory of it. Paths below are relative to the repository; every
definition that stands for code names its lines in `PROJECT.json` under `map`.

## 1. Inventory

| Part | State it keeps | Operations | What makes it correct |
| --- | --- | --- | --- |
| Durable report jobs (`src/api/services.py`, `src/repositories/report_jobs.py`) | DuckDB table `report_jobs` | `submit`, `claim`, `complete`, `fail`, `fail_queued`, `requeue_interrupted`, `list_queued` | an accepted job is executed and finishes; a finished row is final; duplicates of an id change nothing |
| Queue and Worker (`src/orchestration/job_queue.py`, `report_worker.py`, `apps/worker/main.py`) | Redis list of ids; the id in hand | `enqueue`, `dequeue`, `recover_interrupted`, `run_once` | Redis only transports ids, losing or repeating one is harmless |
| Research workflow (`src/orchestration/research_workflow.py`) | none of its own | ingest, index, retrieve, run the agents, run the pipeline | the order of its calls; no report without evidence |
| Data ingestion (`src/services/data_ingestion.py`, `document_processing.py`, repositories) | `ingestion_jobs`, provider tables, raw text files, `text_documents`, `document_chunks` | `run` | counts are those of committed rows; a document, its file and its chunks belong together |
| Document indexing (`src/services/document_embedding.py`) | chunk status, namespace `docs_v1` | `index_document` | indexed chunks have vectors, and no other have |
| Vector repository (`src/repositories/vector.py`) | per namespace three files and a cached copy | `add`, `remove`, `rebuild`, `search` | files and cache describe the same vectors |
| Memory (`src/memory/service.py`, `src/repositories/memory.py`) | `memory_items`, L1 to L3 namespaces | `write`, `delete`, `rebuild_level`, `search` | sidecars and vectors agree, failures are compensated |
| Retrieval (`src/memory/retrieval.py`) | none | `build_research_context` | evidence is complete, attributable and not from the future |
| Report pipeline (`src/orchestration/report_pipeline.py`, `src/repositories/reports.py`) | table `reports` | `execute` | a COMPLETED report has its trace |
| Backups (`src/operations/artifacts.py`) | archives | create, restore | one consistent pair of stores |
| Agent chain (`src/agents/coordinator.py`, `base.py`, `analysts.py`, `managers.py`) | table `agent_runs`, the results of one task | `run` of the coordinator and of each agent | failure policy, provenance of every claim, complete audit |
| LLM gateway (`src/services/llm_gateway.py`, `src/repositories/llm_cache.py`, `llm_provider.py`) | single-flight registry, table `llm_cache` | `invoke_json_with_metadata` | one execution per fingerprint at a time, paid answers are kept |
| Point-in-time access (`src/schemas/temporal.py`, `src/temporal_mapping.py`, `src/services/research_clock.py`) | none | selection under a cutoff | no record from the future, half-open validity |
| Live runs (`src/scripts/live_report.py`, `src/services/research_data_bundle.py`) | provider tables, a run directory with its manifest | acquire, bundle, resume, replay | a replay sees no record from after its cutoff |
| Frozen artifacts (`src/services/research_state.py`, `research_episode.py`, `research_attribution.py` and the `src/scripts/build_research_*.py`) | one JSON file of each kind for a run | `build`, each from a run's rows and the files of the earlier ones | an artifact is about one execution; a use of context is evidenced by a claim |
| Dataset (`src/services/research_dataset.py`, `src/scripts/build_research_dataset.py`) | table `research_dataset_samples`, a JSON file and a manifest for a sample | validate, save, write | a sample joins artifacts of one run, recorded by its cutoff |
| Golden replay (`src/services/golden_replay.py`, `src/scripts/replay_golden.py`) | golden manifests | rebuild a sample from its inputs and compare | a manifest certifies one execution |
| Selection, timing, opportunity, handoff (`src/services/satellite_alpha.py`, `research_state_transition.py`, `opportunity.py`, `research_quant_handoff.py`) | JSONL files and their manifests | `build` of each, `export_batch` | no later state and no other asset in a bundle; what is said of a cutoff rests on its past alone |
| Sector snapshots (`src/operators/sector_*.py`, `src/services/sector_ontology.py`, `sector_universe.py`, `src/repositories/sectors.py`) | one DuckDB file for each script run: ontology, universes, states, macro states, events and links | install a seed, snapshot, detect, resolve at a date | the version valid at the cutoff; events, links and memories agree |
| Sector research and context (`src/agents/sector_research.py`, `src/services/sector_context.py`) | research outputs, context files of assets | assemble evidence, validate a draft, project for a role | no high event is lost on its way to the role that weighs it |
| Scheduler (`apps/scheduler`) | none | submit one task per asset | stops at the first failure |
| In-process report tasks, API, web viewer, adapters, evaluation, benchmarks, scripts | dicts, result rows | | |

How the parts interact. The API process commits a row and pushes its id to Redis.
One Worker process pops ids and runs the workflow for each: ingestion, indexing,
retrieval, the agent chain (which calls the gateway for every agent and writes one
audit row for each) and the pipeline. All durable structure is in one DuckDB file
that every process opens per transaction under a file lock; vectors are in files
that only the Worker writes and that no lock protects. A backup is a third process
that takes the DuckDB lock and reads both. There is no message back: clients poll
the job row.

Everything after a report is offline. The programs that freeze artifacts read the rows
the agents left in a DuckDB file that later runs of the same asset also write to, and the
JSON files of the programs before them, which may be run again at any time; nothing but
the identities inside the files ties them together. Selection, timing, candidate, bundle
and export are called by a consumer, with the history, the events and the clock it has.
The sector scripts (`smoke_sector_*.py`) each write a database of their own and are
pointed at the databases of the earlier ones; their last product, a context file for each
asset, is what a live run hands to its agents.

What is hard here. Two stores without a common transaction, compensated by hand
and interrupted by process deaths; a queue that loses and repeats ids; a cached
namespace that is never compared with its files; two locks around a registry that
deletes its own entries; failures in the middle of provider streams; eight agents
whose outputs are validated several times by rules that differ in detail; artifacts made
at different times, by hand, from files and rows that change in between; filters in a row
that were each written for a purpose of their own. The
hazards in `PROJECT.json` list each at its line.

## 2. Modules

| Module | Models | Extends |
| --- | --- | --- |
| `ReportTasks` | abstract: what the report service promises | |
| `ReportJobs` | job table, Redis list, API and Worker processes, recovery | |
| `ReportJobs_proofs` | theorems about `ReportJobs` | `ReportJobs` |
| `VectorNamespace` | one namespace: files, cache, the three replacements of `_persist` | |
| `ReportMemory` | generations of reports over DuckDB and the L3 namespace, rebuild, backup | `VectorNamespace` |
| `ReportMemory_proofs` | theorems about `ReportMemory` | `ReportMemory` |
| `DataIngestion` | ingestion jobs, one document with revisions, indexing in `docs_v1` | `VectorNamespace` |
| `DataIngestion_proofs` | theorems about `DataIngestion` | `DataIngestion` |
| `LLMGateway` | threads that share one gateway, single flight, cache, provider | |
| `LLMGateway_proofs` | theorems about `LLMGateway` | `LLMGateway` |
| `AgentChain` | one research task: agents, repair, quarantine, provenance, audit | |
| `ReportAssembly` | the sections of a task's report, and the sector context added to it later | `AgentChain` |
| `AgentChain_proofs` | theorems about `AgentChain` and `ReportAssembly` | `ReportAssembly` |
| `AgentChainMC` | values of the constants of `ReportAssembly` | `ReportAssembly` |
| `PointInTime` | the temporal contract: instants, calendars, `validate_temporal_access` | |
| `ResearchData` | acquisition of structured records and the bundle of a run at its cutoff | `PointInTime` |
| `ResearchData_proofs` | theorems about `ResearchData` | `ResearchData` |
| `ResearchDataMC` | values of the constants of `ResearchData` | `ResearchData` |
| `ResearchState` | the state of a run: sections, features, statuses, accepted claims | `PointInTime` |
| `ResearchEpisode` | the episode of a run: traces, claim counts, sector usage | `ResearchState` |
| `ResearchAttribution` | what was given to a run and what its claims used | `ResearchEpisode` |
| `ResearchHistory` | the programs that freeze, over a shared database and files that change | `ResearchAttribution` |
| `GoldenReplay` | golden replays of the artifacts on disk | `ResearchHistory` |
| `ResearchHistoryMC` | values of the constants of `GoldenReplay` | `GoldenReplay` |
| `SatelliteAlpha` | the selection observations of a state | `ResearchState` |
| `ResearchTransition` | the predecessor, the classified changes, the timing observations | `SatelliteAlpha` |
| `ResearchHandoff` | candidate, bundle, batch, and the calls that make them | `ResearchTransition` |
| `ResearchHandoffMC` | values of the constants of `ResearchHandoff` | `ResearchHandoff` |
| `ResearchArtifacts_proofs` | theorems about `GoldenReplay` and `ResearchHandoff` | both |
| `SectorOntology` | the contracts of a seed, the sector tables and their queries, universes | `PointInTime` |
| `SectorState` | state and macro snapshots of a sector | `SectorOntology` |
| `SectorRadar` | detection of events, their links and memories | `SectorState` |
| `SectorResearch` | the evidence of a sector, the validation of a draft about it | `SectorRadar` |
| `SectorContext` | the context of an asset and what each role is shown of it | `SectorResearch` |
| `SectorPipeline` | the scripts, their databases and the clock | `SectorContext` |
| `SectorPipeline_proofs` | theorems about `SectorPipeline` | `SectorPipeline` |
| `SectorPipelineMC` | values of the constants of `SectorPipeline` | `SectorPipeline` |

A name that begins like a method is that method, or the part of it between two
points where something else can happen: every DuckDB call is one transaction and
one action, every Redis call, provider call and file replacement is an action. An
action whose name ends in `Fails` is the same call raising. A definition under a
comment that begins with "Mutant of" is not part of the model: it is a faulty
variant of the definition after it, which the property named in `PROJECT.json`
must refute.

### ReportJobs

`rows` is the table, `queue` the Redis list, `apc` and `wpc` the places of the two
processes. The handler `create_research_task` is a coroutine that calls `submit`
synchronously, so one submission is in flight at a time and job `k` is the `k`-th.
`PushFails` leaves the queue with or without the id, because redis-py raises the
same error when only the answer is lost. `ApiCrash` is a death of the API inside
`submit`. `WorkerDown` ends the Worker at any point: a kill, or any error that
`main` does not catch, so that a pop whose answer is lost is `Dequeue` followed by
`WorkerDown`; docker restarts it, and `Requeue`, `ListQueued` and `RecoverPush` are
its recovery.
The generation is one step that stores a report or fails; its inside is the subject
of the next modules.

### VectorNamespace, ReportMemory, DataIngestion

`disk` has the ids in `index.faiss`, in the metadata and which files exist, `cache`
the state the process loaded. `Replace` is one `os.replace`; a failure or death
stops between two of them. In `ReportMemory`, report `n` writes trace `n`; `told`
remembers what `MemoryService` answered, so that `OutcomesHold` can compare it with
both stores at every later moment, also after a restart. Retrieval takes the
candidates before the filters and the ranking: they only remove candidates, and the
code resolves every candidate before it filters. In `DataIngestion` one document is
enough, because no statement about a document reads another; the rows of the other
streams are only counted.

### LLMGateway

Each thread has the place, the key, the lock and the retry count of its call.
`Register` and `Deregister` are the two critical sections of the registry guard,
`Acquire` and `Release` those of the lock of a fingerprint. In production every
agent has a gateway of its own (`apps/worker/runtime.py:202`) and the Worker is one
thread; sharing it between threads is what `docs/coordination/LLM_GATEWAY.md` and
`tests/integration/services/test_llm_cache_reliability.py` promise.

### AgentChain, ReportAssembly

A claim is its id, its literals and what it refers to. `Retained` is the quarantine,
`Verbatim` the strict validation after it, `Accept` the binding of an accepted
claim to its sources. `Indexed` resolves a claim id as `_upstream_claim_index`
does, to the last agent in the input that used it. What a manager's input holds is
the contract of that manager, in the order of its fields. Left out: the wording
and the intent of a claim (an answer that loses claims for them is the answer
without these claims) and the default ids of claims (they are ids the model may
choose as well). The `model_validate` calls of the coordinator on an output that
the agent has validated with the same model are treated as unreachable.

`ReportAssembly` adds what the workflow does with a task that completed. `Assemble` is
`ReportAssembler.assemble`: it refuses (`AssemblyRefused`) or makes the ten sections, of
which a section of the model keeps the statements, each with its agent, its group and its
claim, and the disclosures the assembler itself writes. `Keeps` is the filter of the
sentiment section; the constants `Posts` and `Aggregates` say which evidence is a single
post and which a snapshot. `SurfaceSectorContext` is the live run that is resumed over a
report in the database; it reads every section back, which validates it (`Readable`). The
sections of the analysts and managers are named after them. Left out: the uncertainties
agents state themselves, rendering, and the check for trading instructions.

### PointInTime, ResearchData

An instant is one of three of a UTC day, which is as few as tell apart the calendars
the code uses: UTC dates for documents and for `as_of`, New York sessions for bars
(`SessionDay`), Chicago dates for the vintages of FRED (`ProviderDay`). `AccessReason`
is the decision order of `validate_temporal_access`.

`rows` are the normalized tables, one row to a key as their `ON CONFLICT` clauses have
it. Of a record the model keeps when its content was created, the time and the date
the provider gives it, and when it was acquired. `Upserted` replaces them all, the
ingestion time too, so that acquiring a record again hides it from a replay of an
earlier cutoff; a document keeps its `created_at` and a corporate event has no such
column. `Answers` has what each adapter returns, with the lineage it may lose: an
acceptance that cannot be parsed is midnight of the filing date, one that is not
among the recent submissions is absent, FMP ratios may have no date at all.

`run` is a run with the steps it has still to do. `StartLive` is
`apps.orchestrator.live_report`, whose directory must be new, `Resume` its
`--resume-acquired-run`, `StartWorker` the generation of a report for a date,
`StartDiagnostic` a bundle from stored data alone. `Selects` has one operator for
the query of each section, `Observed` the `observed_at` of its evidence, and
`Bundle` refuses the whole build when one item has none or a later one.

Stocktwits gives messages and snapshots. The points of a snapshot's history are as of
their own time; the current one, which `Snapshots` adds after them, is as of the moment it
is collected and is stored at the time of the provider's last update (`updated_at`, or the
collection when it is absent), over a point of the history with that time. It has the
`as_of` of the only record of a bundle that carries one (`asOf`); the mapping to the
temporal contract (`Metadata`) reads it, the section does not. Left out: the start of the
windows, weekends and holidays, the choice between the SEC and the FMP value of one metric
and the features computed from the items. These choose among items that a section has
admitted already.

### ResearchState, ResearchEpisode, ResearchAttribution, ResearchHistory, GoldenReplay

The first three are functions from inputs to artifacts, each with the conditions under
which the code refuses. An identity is the digest of a content in the code and the content
itself here, so that two artifacts have one identity exactly when they are equal.
`ResearchHistory` has the database with the rows of up to two reports, the manifest of each
run, the files `state`, `episode` and `attribution`, which `FreezeState`, `FreezeEpisode`
and `FreezeAttribution` overwrite with any of the arguments an operator may give, and the
dataset. A dataset build is three writes (`SaveSample`, `WriteOutput`, `WriteManifest`) and
`BuildDies` loses it between two. `LoadAgentClaims` indexes the rows as the scripts do:
with a report id those of that report, without one those of all. `ReplayManifest` reads a
sample back, rebuilds each artifact from the files and the rows there are by then, and
writes a golden manifest when all are equal; `ReplaySummary` is the same for runs of which
only counts were kept. A replay that refuses changes nothing. The program replays two runs
and writes only when both pass; the model replays one.

### SatelliteAlpha, ResearchTransition, ResearchHandoff

`SatelliteAlpha` maps the features of one state to the selection families, with the status
of each; `ResearchTransition` finds the predecessor (`SelectPredecessor`), compares the two
states and observes the timing families. `ResearchHandoff` holds an artifact as the call
that made it, because all are pure: `MapSelection`, `CompareStates`, `ObserveTiming`,
`Qualify`, `Assemble`, then the two writes of an export, `WriteLines` and
`WriteBatchManifest`, with `Lost` between them. Every
caller chooses its own history, episode and events; only the bundle and the candidate
compare what they are given. What a call makes is tabulated (`Selections`, `Transitions`,
`Timings`), once for a call. `Given`, `Compared` and `Series` are what a bundle may have
been drawn from: its calls, its state with the one its transition starts from, and the
states of its timing's history.

### SectorOntology to SectorPipeline

A day has three instants, as in `PointInTime`. `SectorOntology` has the checks of a seed in
the order of `validate_sector_ontology_seed`, the tables with their conflict clauses and
the queries with the version that is valid on a date. A metric is its value, or `None`
below the sample of two, with its coverage. `SectorState`
keeps the windows of its returns and averages as constants (`Window5`, `Window20`,
`Window60`), so that a few days of bars fill them. `SectorRadar` turns changes of prices, breadth
and macro series into events, files each under scopes and writes its memories;
`SectorResearch` states what evidence a draft may cite and which claims of a draft survive;
`SectorContext` is the choice of the research of an asset's sector and the projection for
a role. `SectorPipeline` has the scripts as actions on databases of their own. `Tick` is the
clock; providers answer with what exists at the instant. The radar's writes are steps
(`PersistEvent`, `WriteMemory`, `AbortRadar`), because each may be the last; a run has the
events still to file (`left`), the one in hand (`event`) and the scopes it has still to be
remembered under (`scopes`), out of what it detected (`plan`).

## 3. Runs

| Run | Question | Result | Bounds and why they are enough |
| --- | --- | --- | --- |
| `report_jobs` | does the job service stay consistent, implement `ReportTasks` and finish what it accepted? | holds | 2 jobs, 4 failures or deaths. Two jobs are enough for every pair that competes (one executes, one is submitted, queued twice or recovered); four failures allow a lost push, a lost pop, a death in recovery and one in the execution in one behaviour. |
| `report_memory` | do both stores keep what was promised after failures and deaths? | holds | 3 generations, 3 failures, 1 backup: a failed one, one that reads its remains, one after a rebuild |
| `report_memory_bundle` | is a backup consistent? | violated | 2 reports, no failure |
| `data_ingestion` | are counts, documents and vectors exact? | holds | 2 jobs, 2 versions of the document, 3 failures: the first run leaves any partial state and the second meets it |
| `llm_gateway` | do turns exclude each other, are answers paid once, do calls return? | holds | 3 threads (one in its turn, one waiting, one arriving or leaving), 2 fingerprints, 3 calls, 2 failures, one retry of each kind |
| `agent_chain` | do policy, provenance and audit of a task hold, does it end, and does its report say what was accepted and what failed? | holds | 3 of the 4 analysts (one with claims of the code's own; the two whose sections the assembler treats apart, on sentiment and news), up to two claims in an answer and none from an analyst that may have none, ids that collide within and across agents |
| `research_data` | does a run know no more than its cutoff allows, whatever is acquired again? | holds | 2 days of 3 instants (a cutoff with an instant before and one after it, in every calendar), 2 versions of a record, 2 runs (for two replays of one cutoff, or a live run and its resumption), acquisitions without bound. One source at a time: sections share neither a table nor a query. |
| `research_data_events` | is nothing in a replay that was acquired after its cutoff? | violated | the same, one filing |
| `research_history` | are the frozen artifacts of one execution, its uses evidenced and its dataset whole? | holds | 2 reports in one database, with 4 kinds of lineage (a claim through another, cited directly, without a context, all rejected in a live run); 4 builds, enough to make each artifact and to rebuild one after it was used; 1 sample, lost at any of its writes |
| `research_history_links` | is every link that an attribution recovers one of its own report? | violated | the same |
| `research_handoff` | is a bundle closed, does what is said of a cutoff depend on its past alone, are velocities justified, does an export match its manifest? | holds | 5 states: one asset at three cutoffs, run twice at the second, and another asset; 5 calls, which is one of each kind or two bundles of the same parts; 2 bundles to make a batch with two of one key, 1 file name |
| `sector_context` | do high events reach the research and the Risk Manager, and is a radar's database consistent at every point? | holds | 2 sectors, 3 assets (one in both sectors, one reached over an edge), one day's two instants and a replay of its date; one run of the state, macro and radar scripts, research and contexts without bound |

The bounds `MaxFaults`, `MaxJobs`, `MaxReports`, `MaxBundles`, `MaxRuns`, `MaxVersions`,
`MaxRows`, `MaxCalls`, `MaxSamples`, `MaxBuilds`, `MaxFiles`, `MaxStates`, `MaxMacros`,
`MaxRadars`, `FirstInstant` and `LastInstant` are guards that cut the model off; nothing
in the code has them. Deadlock is not checked where they make the system stop,
and not in `AgentChain`, whose task ends. Within them `sector_context` does not meet a macro
state computed from another state snapshot, which needs two runs of the state script.

What the runs with a violation show, in the words of the repository against the
code, is under `findings`:

1. *A bundle is not consistent.* `_persist` does not take the file lock, so that the
   files of an archive may be from two states, without any failure.
2. *A replay shows what was acquired later.* `corporate_events` has no ingestion time
   and its query compares the time of publication only, so that an event acquired
   after the cutoff is in the bundle of a replay, although the contract wants
   ingestion by the cutoff (`docs/MASTER_SPEC.md:1824-1825`).
3. *A link of another report.* `_claim_links` indexes the claims of every report in the
   database by an id that is not unique between them: a link of one report is resolved
   through the claim a later report made under the same id.

Nine more statements of the repository that the code does not keep are stated in the modules
and not run. Each is refuted at once when it is added as an INVARIANT to the configuration
named with it.

- `RejectedNeverExecutes` (`ReportJobs.cfg`): *a 503 may execute.* The push reaches Redis,
  its answer does not; the Worker claims the row before `fail_queued` looks for a QUEUED one.
- `NoHiddenPartialWrite` (`ReportMemory.cfg`): the second replacement in `_persist` fails
  after the first has put the vector in `index.faiss`. In memory nothing has changed, and
  the namespace does not open after a restart until `rebuild_level`.
- `FailedJobIsExact` (`DataIngestion.cfg`): a provider that fails within a stream loses the
  count of the helper that persists it.
- `InvalidAnalystIsOmitted` (`AgentChain.cfg`): a repeated claim id passes the agent's
  validation, which only looks at claim paths, and is refused by the contract of the next
  agent outside of any `try`, which ends the task.
- `SectionsHaveContent` (`AgentChain.cfg`): the sentiment filter copies its section without
  validation, so that a section whose statements all rest on single posts is stored empty
  (`reports/contracts.py:57`: "Reject a section without evidence, analysis, risk, or
  uncertainty."), and a run that is resumed fails when it reads the report.
- `TimingIsTotal` (`ResearchHandoff.cfg`): with two earlier states at one cutoff the
  comparison of rates divides by zero, and none of the seven observations is returned
  (`services/research_state_transition.py:253` promises one for every family).
- `SnapshotPrecedesCutoff` (`ResearchData.cfg`): live acquisition "still requires source
  `available_at` and snapshot time to be no later than the cutoff" (`docs/schema.md:424-426`).
  The current sentiment snapshot of a live run is as of its collection, after the cutoff,
  and the section admits it by the time of its last update.
- `ConfirmationIsDistinct` (`ResearchHandoff.cfg`): "T2 Evidence must not be reachable from
  T1" (`docs/coordination/MEMORY.md:457`, and lines 470-473 on section-qualified identity).
  `_evidence_changes` joins features by their bare name and takes the last section that has
  it (`services/research_state_transition.py:1047-1076`), so that a hypothesis counts as
  confirmed on evidence the earlier state had for it in another section, or for another
  feature.
- `AvailableEventsAreCited` (`SectorContext.cfg`): the query "available at the cutoff"
  (`repositories/sectors.py:444`) also wants ingestion by the cutoff, which a live radar run
  stamps later, so that its research is not asked for events that were available.

Two observations about the agents that no property states. A claim with a number that the quarantine accepts
by *Numeric Grounding Equivalence v1* fails its analyst in
`_build_manifest_evidence`, which wants the literal itself. And when two agents use
one claim id, a manager is shown the first claim with it
(`_manager_inference_payload`) and validated against the last
(`_upstream_claim_index`); provenance remains sound, as `ProvenanceIsAccepted`
says, but it is that of a claim the manager was not shown.

Two more about the report. An analyst that succeeds without an accepted claim, which
`claim_policy.py` allows to all but the fundamental one, costs a completed task its report
(`EmptyAgentOutputError`), while an analyst that fails does not (ADR-0023);
`FailedAnalystIsDisclosed` states exactly that. And a resumed run adds the chain claims of
its context to a report whose agents never saw that context, but not those whose id the
executive view already has.

What the properties of `research_data` do not say is as deliberate as what they say.
`ReplayIsPointInTime` is about replays: a live bundle may show a content that was
revised after its cutoff, because it is acquired later (an edited article, ratios
recomputed since, an observation revised on the same Chicago day), and
`--as-of YYYY-MM-DD` sets the cutoff to the end of the day, an instant still to come.
`LaterReplayIsNoNewer` does not say that replays of one cutoff are equal: they are
not, since acquiring a record again removes it. At two days the run meets at most one
vintage between the cutoff and the second replay; the theorem covers any number. `FailureIsExplained` lists the
three ways in which one item makes a whole build raise. `AgreesWithContract` has two
exceptions: metrics without any date, which the contract admits by their ingestion and the
bundle refuses, and the current sentiment snapshot of a live run, which the bundle admits
and the contract refuses as `future_snapshot` (`SnapshotPrecedesCutoff` above). In a replay
the ingestion gate keeps that snapshot out as well as the contract would. `NewestVintageWins` rests
on FRED's refusal of a date still to come in Chicago
(`tests/unit/adapters/test_fred_adapter.py:224`): without it, an observation could be
stored under a vintage later than the day it was seen.

What the runs of the frozen artifacts do not say:

- `SampleIsClosed` and `EpisodeIsOneExecution` hold because the code refuses, and it
  refuses much: an episode of a run that has an agent without accepted claims beside others
  with claims (`services/research_episode.py:41`); the sample of any live run, whose manifest
  is stamped after its cutoff (`services/research_dataset.py:143-164`); a second attribution of
  a sample (UNIQUE).
- `IndexedSampleIsWhole` says that an index entry has its file and a file its row. The
  converse fails when the build dies: the row stays without its file, and building again
  is refused by the key of the row (`scripts/build_research_dataset.py:75-80`).
- `GoldenIsOneRun` is about replays that pass. Samples whose attribution has links or
  retrievals do not, nor do those whose database has received rows of another report
  since; and the program's own leakage fixture is dated by a day
  (`scripts/replay_golden.py:66-85`), so that it is usable, and the replay refused, with a
  cutoff that is not at the end of a day.
- `BundleIsClosed` bounds what a bundle cites and says that it names the states it compares.
  It does not name all it cites: a velocity rests on claims and evidence of three
  states (`services/research_state_transition.py:358-499`), and its bundle names the last two
  at most, so that a reader finds evidence of a state no artifact of the bundle leads to.
- `PastDecides` is about calls that were not refused, and of equal availability: a build
  refuses as a whole when its history has a state at or after the cutoff, and so protects
  the earlier observation by giving none. It does not say that a state is final: a state of
  an earlier cutoff that is frozen later belongs to the past of the next call, and changes
  what it says.
- A bundle also accepts timing observations
  that belong to no transition next to a given one, and an episode of an earlier state in
  the timing input. Velocities are compared whatever their units are (`_compatible` is not
  asked), components of long names may collide in `_safe_component_name`, and a boolean
  chain benefit passes `_chain_binding` and makes `_categorical_component` raise.
- `ManifestHasItsLines` names the file, not its bytes: an export that is lost between its
  two writes leaves new lines beside the older manifest.

And those of the sector scripts. Cutoffs are compared by date, so that research for an instant
may read a snapshot made later that day. Two events of one digest keep the first row. A radar
database whose run was aborted is accepted by the research. The inputs of a radar that was
run for another cutoff are refused with a ValueError in the middle of a script, after the
context files of earlier assets have been written. `HighEventsReachRisk`
holds of the drafts of the integration script, the one program that writes contexts: a
drafted claim of the category `catalysts` would cover an event and not be shown to the Risk
Manager, so that with the claims of a model in that place the property would fail. Restarting a
radar run writes its memories again under new identities.

## 4. Fairness

- `ReportJobs`: weak fairness of the steps of a submission that has begun and of the
  Worker's steps, deaths and new requests not included. Both are loops that docker restarts, Redis calls and generations
  end in time (every request of a provider has a timeout). Failures are finitely
  many; with infinitely many, a job that kills the Worker is requeued for ever.
- `LLMGateway`: weak fairness of each thread's steps: threads are scheduled and
  every call a turn makes is bounded. Locks are not assumed to be fair; with
  finitely many calls a waiting thread is eventually the only one, which is all
  that `EveryCallReturns` needs. With an endless stream of calls for one
  fingerprint Python's `Lock` could starve a thread.
- `AgentChain`, and so `ReportAssembly`: weak fairness of the next step of the task, which is
  one thread, and the gateway's calls end. Nothing is assumed of the report: an operator
  resumes runs.

`ReportMemory` and `DataIngestion` have no liveness property: what they leave after
a failure is repaired by a later generation or an operator, if at all. Nor have the
modules of the frozen artifacts and of the sector scripts: an operator starts each program,
and nothing in the code makes one follow another.

## 5. Proofs

Every safety property that a passing run checks, and the refinement of `ReportTasks`, is
stated by a theorem, for all values of the constants that satisfy the named assumptions.
These say no more than the code guarantees of its inputs:

- bounds are natural numbers; threads are finite, keys and locks positive; portfolios are
  sets of sources;
- analysts are distinct, answers have the form the gateway's schema enforces, every manager
  must state at least one claim, and no analyst has the name of a section
  (`ChainAssumption`, `ClaimsAssumption`, `AssemblyAssumption`);
- cutoffs are instants and the claims of a draft a list (`PipelineAssumption`); rows are a
  list, times instants, and no report has the name of the replay without one
  (`HistoryAssumption`);
- the calls of a consumer name frozen states, with finite histories and finitely many dated
  events; a digest determines a content; `Rank`, the order of digests, separates
  different states; the inputs' identities are of other sorts than those of states,
  transitions and episodes (`HandoffAssumption`).

TLC evaluates all of them. An invariant that is proved was first given to TLC as an
invariant of the run. `UNION` and `SUBSET` stand in parentheses where an operator follows
them, since the prover and TLC group such expressions differently.

- `ReportJobs_proofs`: `TypeCorrect`, `OneExecutionAtATime`, `AcceptedJobsStayReachable`,
  `DuplicatesNeverReexecute`, `CompletedJobsHaveReports`, `FinishedJobsAreFinal` and
  `JobsImplementTasks`, the refinement of `ReportTasks`. The inductive invariant adds
  to the checked ones that jobs not yet submitted have no row (or a created row
  would overwrite one), that only failed rows have an error, and that the Worker
  completes a job only with a report it stored. `NextMapsToTaskNext` has one step per
  action; `OneTaskSteps` reduces each to the one row it changes.
- `ReportMemory_proofs`: `TypeCorrect`, `Inductive`, `CompletedReportsHaveTraces`,
  `OutcomesStayTrue`, `EvidenceStaysComplete`, for any number of generations and failures.
  What `MemoryService` told is compared with stores that later generations also change, so
  the invariant says how far the write or the removal of the current trace has come
  (`TraceOfCur`), how far `_persist` has (`PersistPhase`), and that what it writes has every
  trace told as written and none told as removed (`TracesHold`).
- `DataIngestion_proofs`: `TypeCorrect`, `Inductive`, `JobsCountCommittedRows`,
  `DeliveredDocumentIsWhole`, `IndexedChunksHaveVectors`. The rows a helper has committed
  and not returned are owed to the count (`Unreturned`); the parts of the document in hand
  are there up to the place of the Worker (`PartsOfDocument`), whatever an earlier run left.
- `LLMGateway_proofs`: `TypeCorrect`, `RegistryStaysExact`, `TurnsNeverOverlap`,
  `AnswersAreNotRepeated`. Typing alone is not inductive, since the users of an entry
  could become negative: the invariant is typing, `RegistryIsExact`, that the thread
  in its turn is the one holder of its lock, and `AnswersArePaid`, which counts, for each fingerprint, the
  answer that is in the cache or in the hands of the thread that has the turn.
- `AgentChain_proofs`, on the chain: `TypeCorrect`, `NumbersStayGrounded`,
  `ProvenanceStaysAccepted`, `PolicyIsKept`, `AuditStaysComplete`, for any number of analysts. `UpstreamIsEarlier`
  says that every contract lists agents that come earlier in the chain; with `Order`
  (everyone before the turn has a result and its row, nobody after it has) what a
  manager was judged by never changes afterwards (`UpstreamIsFixed`). `Policy` and
  `Listing` say what must have succeeded, and who is listed as missing, at each place
  of the chain; `Listing` leaves out the bull until the bear has returned, because
  the code looks at both results together. On the report: `ReportsAreTheirClaims` and
  `FailedAnalystsAreDisclosed`, about `AssemblySpec`, whose steps are steps of the chain or
  leave its variables alone, so that its invariant is that of the chain and what the
  sections keep of the accepted claims.
- `ResearchData_proofs`: all safety properties of the run, for any number of days,
  revisions and runs and for sources in any combination. The invariant has four parts.
  Published instants lie in the past (`Past`). Rows are sound (`RowsAreSound`): a record
  existed when it was ingested, has the dates its section takes for granted, and a
  vintage is not later than the provider's day and shows the newest observation of the
  days before it; the last is where FRED's refusal of dates to come is needed. A replay
  has the cutoff of its day (`RunIsSound`). A bundle made after its cutoff still covers
  every record that a replay of this cutoff would take now (`Covers`): a record that is
  acquired again gets an ingestion time after the cutoff and is no such record any
  more. `FailureIsExplained`, `AgreesWithContract` and `NewestVintageWins` follow from sound
  rows alone, section by section; that no snapshot is as of an instant after its ingestion
  is part of sound rows, and why a replay needs no gate on it.
- `ResearchArtifacts_proofs`, on the frozen history: `Inductive`,
  `EpisodesAreOneExecution`, `SamplesAreClosed`, `UsesAreEvidenced`,
  `IndexedSamplesAreWhole`, `GoldenRunsAreOne`, under `GoldenSpec`. Any file may be built
  again while those made from it are there, so that no invariant relates the files to each
  other; it says of each artifact what its identity digests (`StateWhole`, `EpisodeWhole`,
  `AttributionWhole`), and a sample or a manifest inherits that when identities are
  compared. Rows are only appended, and those of a report all at once, before its
  manifest.
- The same module, on the handoff: `HandoffInductive`, `ManifestsHaveTheirLines`,
  `PastDecidesTiming`, `VelocitiesArePerDay`, `BundlesAreClosed`, under
  `HandoffSpec`, for any states, histories and calls. The invariant (`HandoffIInv`) is
  short: what is at hand was made by a call that was not refused, and every batch that is
  due or listed has its lines. The work is in the builders. States of a history are ranked
  by how many are below them, so the lemmas on finite linear orders give the predecessor,
  the series of a velocity and the nearest event; `Find` and `FindLast` are lookups whose
  result is a feature of the state; then every descriptor and every change rests on
  features of the states it was given (`Rests`, `Between`, `Cites`), the parts of a bundle
  agree on one state and one transition because `HandoffRejected` refuses all else, and a
  bundle is the union of its parts. For `PastDecidesTiming`
  every operator that reads an input is shown to read of its history only the states of
  the asset (`Same`), which for a build that was not refused are those of the past, and an
  id determines its state, so that the episodes on the predecessor are those of keys of
  the past.
- `SectorPipeline_proofs`: `Inductive`, `RadarsAreProjected`, `MandatoryEventsStayCited`,
  `HighEventsAreShownToRisk`. The first rests on the identities of the events one run
  detects being distinct, so that an insertion that skips an identity loses none; links and
  memories are those remembered or still owed by the step in progress. The others follow
  an event from a radar whose run has ended through the
  evidence, the draft and its validation to the role; that a draft files its event claims
  as anomalies is used of the fixed draft only.

Only model-checked: the liveness properties `AcceptedFinishes`, `RecoveredFinishes`,
`EveryCallReturns` and `TaskEnds` (temporal reasoning with fairness is out of the prover's
reach), and the expected violations. `CompletedHasItsReport` and `FinishedIsFinal` are proved and not run:
`ImplementsTasks` already says that a finished task stays as it is and that a completed one has
a report of its own. Of the type invariants five are proved (`ReportJobs`, `ReportMemory`,
`DataIngestion`, `LLMGateway`, `AgentChain`) and none is listed in a run, where they would
only repeat what the theorem says. That of `ResearchData` is left to TLC when it is wanted
(its steps are filtered with `SelectSeq`, whose theorems need induction); the modules after
it keep artifacts whose contents, not their types, are what can go wrong.

## 6. What is not modelled

- Redis is assumed to keep its list (the compose file enables AOF); retries inside
  the Redis client, which could lose an id without an exception, are not modelled.
- A DuckDB commit either happened or raised; one that did both is not modelled.
- Dimension and embedding-model checks of a namespace depend on configuration only.
- In-process report tasks, the scheduler, the web viewer, settings, prompts, JSON schemas,
  rendering and report text; provider payload parsing; evaluation and benchmarks.
- The memory that sector research writes about itself (`agents/sector_research.py:290-349`,
  a failure of which leaves memories of an output that is lost), and the resolver that
  reads context files back in a live run.
- The wording of features and claims, the ratios and thresholds inside a feature (only
  whether it is present, its sign or its rank are kept), file names but for their identity.
- The arguments of the offline programs beyond those listed in the MC modules: a consumer
  may call the builders of `ResearchHandoff` with anything; the tests are their only callers
  in the repository.

Known limits of the code that no property states, each seen while modelling and out of
the bounds or beside the question of a run: a job whose execution kills the Worker is requeued
by every restart (`repositories/report_jobs.py:195`); the Redis client may repeat a BLPOP
whose answer was lost (`orchestration/job_queue.py:65`); a report stays RUNNING when the
Worker dies in it (`orchestration/report_pipeline.py:74`), as does an ingestion job
(`services/data_ingestion.py:442`); `rebuild_level` brings back a trace whose deletion
failed half-way (`memory/service.py:331`); chunks of an earlier text of a revised document
stay evidence (`services/document_embedding.py:52`); `docs_v1` has no rebuild
(`repositories/vector.py:447`); a submission of the scheduler that times out may have been
accepted (`apps/scheduler/jobs.py:47`).

## 7. Plan

Modelled first, because everything else feeds it or reads from it, was the path of one
report; then the artifacts frozen from its rows and the sector context handed to its
agents. Then the safety properties of each were proved. What is left, in this order:

1. `Scheduler` with the API and the bounded HTTP retries of the adapters: lost
   answers, repeated submissions, assets left out.
2. The memory of sector research and the resolver of frozen contexts.
3. An abstract specification of `MemoryService` (a set of traces, a report or nothing) that
   `ReportMemory` implements outside of its write, and of the gateway (one answer for a
   fingerprint).
4. What `BundleIsClosed` does not say: that a timing observation without a transition is
   of the same history as the bundle's.
