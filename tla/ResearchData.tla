---------------------------- MODULE ResearchData ----------------------------
(***************************************************************************)
(* Where a research run gets its structured data, and which of it: the     *)
(* provider adapters and MarketDataRepository acquire records into DuckDB, *)
(* ResearchDataBundleService.build selects from them what the run may know *)
(* at its cutoff.  Runs follow one another and share the database:         *)
(*  - a live run fixes its cutoff when it starts, then acquires from every *)
(*    provider into a new database, builds the core bundle, and builds a   *)
(*    bundle once more inside the report workflow; it may be resumed;      *)
(*  - a Worker (or offline) run replays the last instant of a report day;  *)
(*  - a diagnostic run builds a replay bundle from the stored data alone.  *)
(* Between them ingestion jobs acquire the records of one provider, again  *)
(* too: that is how an incremental or a repair job is used.                *)
(*                                                                         *)
(* A record's content is named by the instant at which the provider        *)
(* created it, so that "known at the cutoff" is a comparison.  A stream    *)
(* is stored in one step: what a failure leaves behind in the middle of    *)
(* one is the subject of DataIngestion.                                    *)
(***************************************************************************)
EXTENDS PointInTime, Sequences, FiniteSets

CONSTANTS
  LastDay,       \* bound: the clock stops at the end of this day
  Portfolios,    \* the sets of sources of which one is followed
  MaxRevisions,  \* bound: how often the provider publishes one record
  MaxRuns        \* bound: how many runs are started

Days     == 0..LastDay
Instants == 0..EndOfDay(LastDay)
Times    == Instants \union {Unknown}

Sources ==
  {<<"bar", d>> : d \in Days} \union
  ({"fundamental", "ttm", "macro", "news", "sentiment", "snapshot", "filing"} \X {0})

ASSUME DataBounds ==
  /\ LastDay \in Nat /\ MaxRevisions \in Nat \ {0} /\ MaxRuns \in Nat
  /\ Portfolios \subseteq SUBSET Sources

\* The keys of the tables: bars by trade date, macro observations by vintage,
\* sentiment snapshots by source_timestamp.
\* "fundamental" is the SEC row of a period, "ttm" the FMP row of that period;
\* a document also leaves a row in corporate_events.
Keys ==
  ({"bar", "macro"} \X Days) \union ({"snapshot"} \X Instants) \union
  ({"fundamental", "ttm", "news", "sentiment", "filing",
    "news_event", "filing_event"} \X {0})

VARIABLES
  now,        \* the wall clock
  tracked,    \* the sources this behaviour follows
  revisions,  \* when the provider published and revised each source
  rows,       \* DuckDB: the normalized records
  run,        \* the run in progress
  started,    \* how many runs were started
  acquired,   \* whether a live run has acquired every provider
  bundles     \* the ResearchDataBundles of the replays, built or refused

vars == <<now, tracked, revisions, rows, run, started, acquired, bundles>>

(* published is accepted_at, created_at, publish_ts or source_timestamp;   *)
(* filed is filing_date, asOf the as_of of a sentiment snapshot; first is   *)
(* created_at of a document, and for other tables, which have no such      *)
(* column, a history of the acquisition.                                   *)
Row == [content : Times, published : Times, filed : Days \union {Unknown},
        asOf : Times, first : Times, ingested : Times]
NoRow == [content |-> Unknown, published |-> Unknown, filed |-> Unknown,
          asOf |-> Unknown, first |-> Unknown, ingested |-> Unknown]
Stored(k) == Known(rows[k].content)

\* What each acquisition asks for; those of which nothing is followed store
\* nothing and are left out of a run.
Acquisitions == {"sec_range", "sec", "fmp", "bars", "news", "macro", "sentiment"}
Feeds(step) ==
  CASE step \in {"sec_range", "sec"} -> {"fundamental", "filing"}
    [] step = "fmp"  -> {"ttm"}
    [] step = "bars" -> {"bar"}
    [] step = "sentiment" -> {"sentiment", "snapshot"}
    [] step \in {"news", "macro"} -> {step}
Steps == Acquisitions \union {"core_bundle", "report_bundle", "diagnostic_bundle"}
Followed(step) == step \in Acquisitions => \E i \in tracked : i[1] \in Feeds(step)

WorkerSteps     == SelectSeq(<<"sec", "report_bundle">>, Followed)
DiagnosticSteps == <<"diagnostic_bundle">>
LiveSteps       == SelectSeq(<<"sec_range", "fmp", "bars", "news", "macro", "sentiment",
                               "core_bundle", "sec", "report_bundle">>, Followed)
ResumedSteps    == {<<"core_bundle">>, <<"core_bundle", "report_bundle">>}

Run == [mode : {"replay", "live"}, asOf : Instants, day : Days,
        dataEnd : Days, todo : Seq(Steps)]
Idle == [mode |-> "replay", asOf |-> 0, day |-> 0, dataEnd |-> 0,
         todo |-> <<>>]

Step(s) == run.todo # <<>> /\ Head(run.todo) = s
Proceed == run' = IF Len(run.todo) = 1 THEN Idle
                  ELSE [run EXCEPT !.todo = Tail(@)]
Abort   == run' = Idle

---------------------------------------------------------------------------
(* The providers.                                                          *)

Latest(S)   == CHOOSE t \in S : \A u \in S : u <= t
Earliest(S) == CHOOSE t \in S : \A u \in S : t <= u

\* Bars are corrected, statements amended, ratios recomputed, articles edited,
\* observations revised and scores moved; a filing and a message stay as they are.
Revised == {"bar", "fundamental", "ttm", "macro", "news", "snapshot"}

Publish(i) ==
  /\ i \in tracked /\ now \notin revisions[i]
  /\ Cardinality(revisions[i]) < MaxRevisions
  /\ i[1] \in Revised \/ revisions[i] = {}
  /\ i[1] = "bar" => now > Midnight(i[2])
  /\ revisions' = [revisions EXCEPT ![i] = @ \union {now}]
  /\ UNCHANGED <<now, tracked, rows, run, started, acquired, bundles>>

Tick ==
  /\ now < EndOfDay(LastDay)
  /\ now' = now + 1
  /\ UNCHANGED <<tracked, revisions, rows, run, started, acquired, bundles>>

---------------------------------------------------------------------------
(* What the adapters return: fetched records by the key they are stored at *)

Fetched(content, published, filed) ==
  [content |-> content, published |-> published, filed |-> filed, asOf |-> Unknown]

\* SEC Company Facts: the statement filed last in the range.  Its acceptance
\* comes from the recent submissions, is replaced by midnight of the filing
\* date when it cannot be parsed, and is None for an accession not in there.
SecFact(end, acceptance) ==
  LET filed == {r \in revisions[<<"fundamental", 0>>] : Day(r) <= end}
      last  == Latest(filed)
      at    == [exact |-> last, date |-> Midnight(Day(last)), none |-> Unknown]
  IN  [k \in IF filed = {} THEN {} ELSE {<<"fundamental", 0>>} |->
         Fetched(last, at[acceptance], Day(last))]

\* SEC filing documents, each with its corporate event.
SecFiling(end, acceptance) ==
  LET filed == {r \in revisions[<<"filing", 0>>] : Day(r) <= end}
      last  == Latest(filed)
      at    == IF acceptance = "exact" THEN last ELSE Midnight(Day(last))
  IN  [k \in IF filed = {} THEN {} ELSE {"filing", "filing_event"} \X {0} |->
         Fetched(last, at, Unknown)]

\* The ingestion of SEC data handles the statements and then the filings.
SecAnswers(end) ==
  {[k \in DOMAIN SecFact(end, fact) \union DOMAIN SecFiling(end, filing) |->
      IF k[1] = "fundamental" THEN SecFact(end, fact)[k] ELSE SecFiling(end, filing)[k]] :
   fact \in {"exact", "date", "none"}, filing \in {"exact", "date"}}

\* FMP: the current trailing ratios with the dates of the last statement.
FmpMetrics(lineage) ==
  LET values    == revisions[<<"ttm", 0>>]
      statement == Earliest(values)
  IN  [k \in IF values = {} THEN {} ELSE {<<"ttm", 0>>} |->
         Fetched(Latest(values),
                 IF lineage = "accepted" THEN statement ELSE Unknown,
                 IF lineage = "none" THEN Unknown ELSE Day(statement))]

\* Alpaca daily bars, the one of a session that is still open included.
AlpacaBars(end) ==
  [k \in {i \in {"bar"} \X (0..end) : revisions[i] # {}} |->
     Fetched(Latest(revisions[k]), Unknown, Unknown)]

\* Alpaca News, by the time of creation; an article that was updated after the
\* end of the last day is not in the answer, or makes the adapter raise.
AlpacaNews(end) ==
  LET article == revisions[<<"news", 0>>]
      overdue == article # {} /\ Latest(article) > EndOfDay(end)
  IN  [k \in IF article = {} \/ overdue THEN {} ELSE {"news", "news_event"} \X {0} |->
         Fetched(Latest(article), Earliest(article), Unknown)]

\* FRED: the observation as of the provider's date, which is its vintage.  A
\* date that is still to come in Chicago is refused ("Future realtime_start").
FredVintage(asOf) ==
  LET vintage == ProviderDay(asOf)
      known   == {r \in revisions[<<"macro", 0>>] : ProviderDay(r) <= vintage}
  IN  IF vintage > ProviderDay(now) THEN {}
      ELSE {[k \in IF known = {} THEN {} ELSE {<<"macro", vintage>>} |->
               Fetched(Latest(known), Unknown, Unknown)]}

\* Stocktwits messages created in the range.
Messages(end) ==
  LET sent == {r \in revisions[<<"sentiment", 0>>] : Day(r) <= end}
  IN  [k \in IF sent = {} THEN {} ELSE {<<"sentiment", 0>>} |->
         Fetched(Latest(sent), Latest(sent), Unknown)]

Snapshot(content, at, asOf) ==
  [content |-> content, published |-> at, filed |-> Unknown, asOf |-> asOf]

\* Stocktwits snapshots: the points of the history in the range, each as of its
\* own time, and after them the current one, of any day, with the volume of the
\* moment.  It is as of its collection and stored at the provider's updated_at,
\* or at the collection if that is absent, over a point of the history there.
Snapshots(end, updatedAt) ==
  LET scores  == revisions[<<"snapshot", 0>>]
      history == {r \in scores : Day(r) <= end}
      current == IF updatedAt = "given" THEN Latest(scores) ELSE now
  IN  [k \in {"snapshot"} \X (IF scores = {} THEN {} ELSE history \union {current}) |->
         IF k[2] = current THEN Snapshot(now, current, now)
         ELSE Snapshot(k[2], k[2], k[2])]

\* The adapter raises while the provider has no current score.
Community(end) ==
  IF <<"snapshot", 0>> \in tracked /\ revisions[<<"snapshot", 0>>] = {} THEN {}
  ELSE {[k \in DOMAIN Messages(end) \union DOMAIN Snapshots(end, updatedAt) |->
           IF k[1] = "sentiment" THEN Messages(end)[k] ELSE Snapshots(end, updatedAt)[k]] :
        updatedAt \in {"given", "absent"}}

Answers(step, end, asOf) ==
  CASE step \in {"sec_range", "sec"} -> SecAnswers(end)
    [] step = "fmp"       -> {FmpMetrics(l) : l \in {"accepted", "filed", "none"}}
    [] step = "bars"      -> {AlpacaBars(end)}
    [] step = "news"      -> {AlpacaNews(end)}
    [] step = "macro"     -> FredVintage(asOf)
    [] step = "sentiment" -> Community(end)

\* Mutant of Upserted: the ingestion time of the first acquisition is kept.
UpsertedKeepingIngestion(k, record) ==
  [content |-> record.content, published |-> record.published,
   filed |-> record.filed, asOf |-> record.asOf,
   first |-> IF Stored(k) THEN rows[k].first ELSE now,
   ingested |-> IF Stored(k) THEN rows[k].ingested ELSE now]

\* INSERT ... ON CONFLICT DO UPDATE: every column of the stored row is
\* replaced, its ingestion time too, except the created_at of a document.
Upserted(k, record) ==
  [content |-> record.content, published |-> record.published,
   filed |-> record.filed, asOf |-> record.asOf,
   first |-> IF Stored(k) THEN rows[k].first ELSE now,
   ingested |-> now]

Store(records) ==
  rows' = [k \in Keys |-> IF k \in DOMAIN records
                          THEN Upserted(k, records[k]) ELSE rows[k]]

---------------------------------------------------------------------------
(* The selection of build: what each section reads from its table.         *)

Ingested(k, asOf, mode) == mode = "replay" => rows[k].ingested <= asOf

SelectsBar(k, asOf, mode, window) ==
  /\ k[2] <= window
  /\ Ingested(k, asOf, mode)

\* Mutant of SelectsFundamental: the acceptance is taken for sufficient.
SelectsAccepted(k, asOf, mode) ==
  /\ Known(rows[k].published) => rows[k].published <= asOf
  /\ ~Known(rows[k].published) /\ Known(rows[k].filed) => rows[k].filed <= Day(asOf)

\* Mutant of SelectsFundamental: the day of the filing itself is excluded.
SelectsFiledBefore(k, asOf, mode) ==
  /\ Ingested(k, asOf, mode)
  /\ Known(rows[k].published) => rows[k].published <= asOf
  /\ ~Known(rows[k].published) /\ Known(rows[k].filed) => rows[k].filed < Day(asOf)

SelectsFundamental(k, asOf, mode) ==
  LET accepted == rows[k].published
      filed    == rows[k].filed
  IN  /\ Ingested(k, asOf, mode)
      /\ Known(accepted) => accepted <= asOf
      /\ ~Known(accepted) /\ Known(filed) => filed <= Day(asOf)

AdmitsVintage(k, asOf, mode) ==
  /\ k[1] = "macro" /\ Stored(k)
  /\ k[2] <= Day(asOf)
  /\ Ingested(k, asOf, mode)

\* Mutant of SelectsVintage: the subquery lacks the ingestion predicate.
SelectsStoredVintage(k, asOf, mode) ==
  /\ AdmitsVintage(k, asOf, mode)
  /\ \A v \in Keys : v[1] = "macro" /\ Stored(v) /\ v[2] <= Day(asOf) => v[2] <= k[2]

\* max(newer.realtime_start) among the vintages the cutoff admits.
SelectsVintage(k, asOf, mode) ==
  /\ AdmitsVintage(k, asOf, mode)
  /\ \A v \in Keys : AdmitsVintage(v, asOf, mode) => v[2] <= k[2]

\* Mutant of SelectsMessage: the ingestion predicate is missing.
SelectsPublished(k, asOf, mode) == rows[k].published <= asOf

SelectsMessage(k, asOf, mode) ==
  /\ rows[k].published <= asOf
  /\ Ingested(k, asOf, mode)

SelectsFiling(k, asOf, window) ==
  /\ Day(rows[k].published) <= window
  /\ rows[k].published <= asOf

SelectsEvent(k, asOf) == rows[k].published <= asOf

Selects(k, asOf, mode, window) ==
  CASE k[1] = "bar"                     -> SelectsBar(k, asOf, mode, window)
    [] k[1] \in {"fundamental", "ttm"}  -> SelectsFundamental(k, asOf, mode)
    [] k[1] = "macro"                   -> SelectsVintage(k, asOf, mode)
    [] k[1] \in {"news", "sentiment", "snapshot"} -> SelectsMessage(k, asOf, mode)
    [] k[1] = "filing"                  -> SelectsFiling(k, asOf, window)
    [] OTHER                            -> SelectsEvent(k, asOf)

Selected(asOf, mode, window, documents) ==
  {k \in Keys : /\ Stored(k)
                /\ k[1] = "filing" => documents
                /\ Selects(k, asOf, mode, window)}

\* observed_at of the evidence: the ingestion in a replay (the acceptance of
\* a statement, created_at of a document), the provider's availability live.
StatementTime(k) ==
  IF Known(rows[k].published) THEN rows[k].published
  ELSE IF Known(rows[k].filed) THEN Midnight(rows[k].filed) ELSE Unknown

Observed(k, mode) ==
  IF mode = "replay"
  THEN CASE k[1] \in {"fundamental", "ttm"} ->
              IF Known(rows[k].published) THEN rows[k].published
              ELSE rows[k].ingested
         [] k[1] = "filing"                      -> rows[k].first
         [] k[1] \in {"news_event", "filing_event"} -> rows[k].published
         [] OTHER                                -> rows[k].ingested
  ELSE CASE k[1] = "bar"                    -> Close(k[2])
         [] k[1] \in {"fundamental", "ttm"} -> StatementTime(k)
         [] k[1] = "macro"                  -> Midnight(k[2])
         [] OTHER                           -> rows[k].published

\* An item without an observation time, or with one after the cutoff, fails
\* the whole build: _record_observed_at or the validator of its section raises.
Offends(k, asOf, mode, window, documents) ==
  /\ k[1] = "filing" => documents
  /\ Selects(k, asOf, mode, window)
  /\ ~Reached(Observed(k, mode), asOf)
Offending(asOf, mode, window, documents) ==
  {k \in Keys : Stored(k) /\ Offends(k, asOf, mode, window, documents)}

Item(k) == [key |-> k, content |-> rows[k].content, first |-> rows[k].first]

Bundle(asOf, mode, window, documents) ==
  LET offending == Offending(asOf, mode, window, documents)
  IN  [asOf |-> asOf, at |-> now, refused |-> offending # {},
       items |-> IF offending # {} THEN {}
                 ELSE {Item(k) : k \in Selected(asOf, mode, window, documents)}]

---------------------------------------------------------------------------
(* The runs.                                                               *)

Init ==
  /\ now = 1                          \* the first session
  /\ tracked \in Portfolios
  /\ revisions = [i \in Sources |-> {}]
  /\ rows = [k \in Keys |-> NoRow]
  /\ run = Idle /\ started = 0 /\ acquired = FALSE /\ bundles = {}

StartRun(mode, asOf, day, dataEnd, steps) ==
  /\ run.todo = <<>> /\ started < MaxRuns
  /\ run' = [mode |-> mode, asOf |-> asOf, day |-> day, dataEnd |-> dataEnd,
             todo |-> steps]
  /\ started' = started + 1
  /\ UNCHANGED <<now, tracked, revisions, rows, acquired, bundles>>

\* ResearchWorkflowService.generate for any report date, past or to come.
StartWorker(d) == StartRun("replay", EndOfDay(d), d, d, WorkerSteps)

StartDiagnostic(d) == StartRun("replay", EndOfDay(d), d, d, DiagnosticSteps)

\* The cutoff of live_report is the instant of its start, or the --as-of it is
\* given, here the end of the day; LIVE_DATA_END is the last session or that day.
Cutoffs == {now, EndOfDay(Day(now))}

\* root.mkdir refuses a directory that exists.
StartLive ==
  /\ started = 0 /\ \A k \in Keys : ~Stored(k)
  /\ \E t \in Cutoffs : \E dataEnd \in {SessionDay(t), Day(t)} \intersect Days :
       StartRun("live", t, Day(t), dataEnd, LiveSteps)

\* --resume-acquired-run once every provider was acquired; a report that is
\* stored already is not generated again.
Resume ==
  /\ acquired
  /\ \E t \in Cutoffs, steps \in ResumedSteps :
       StartRun("live", t, Day(t), Day(t), steps)

\* DataIngestionService.run: the records of a provider, for a range of days.
Ingest ==
  /\ run.todo = <<>>                  \* bound: between the runs
  /\ \E step \in Acquisitions :
       /\ Followed(step)
       /\ \E records \in Answers(step, Day(now), now) : Store(records)
  /\ UNCHANGED <<now, tracked, revisions, run, started, acquired, bundles>>

\* One ingestion of a run: the workflow's own one is for the report day.
Acquire ==
  /\ \E step \in Acquisitions :
       /\ Step(step)
       /\ LET end == IF step = "sec" THEN run.day ELSE run.dataEnd
          IN  \E records \in Answers(step, end, run.asOf) : Store(records)
  /\ Proceed
  /\ UNCHANGED <<now, tracked, revisions, started, acquired, bundles>>

\* IngestionRunError ends the run: a provider is unavailable or refuses to answer.
AcquisitionFails ==
  /\ \E s \in Acquisitions : Step(s)
  /\ Abort
  /\ UNCHANGED <<now, tracked, revisions, rows, started, acquired, bundles>>

\* The bundles of replays are kept, to be compared with one another.
Build(step, window, documents) ==
  LET bundle == Bundle(run.asOf, run.mode, window, documents)
  IN  /\ Step(step)
      /\ bundles' = IF run.mode = "replay" THEN bundles \union {bundle} ELSE bundles
      /\ acquired' = (acquired \/ run.mode = "live")
      /\ IF bundle.refused THEN Abort ELSE Proceed
      /\ UNCHANGED <<now, tracked, revisions, rows, started>>

BuildCore       == Build("core_bundle", SessionDay(run.asOf), TRUE)
BuildReport     == Build("report_bundle", run.day, run.mode = "live")
BuildDiagnostic == Build("diagnostic_bundle", run.day, TRUE)

Next ==
  \/ Tick
  \/ \E i \in Sources : Publish(i)
  \/ \E d \in Days : StartWorker(d) \/ StartDiagnostic(d)
  \/ StartLive \/ Resume
  \/ Ingest \/ Acquire
  \/ AcquisitionFails
  \/ BuildCore \/ BuildReport \/ BuildDiagnostic

Spec == Init /\ [][Next]_vars

---------------------------------------------------------------------------
(* Properties.                                                             *)

\* The records and bundles have the shapes the repositories and the bundle
\* schema give them.
TypeOK ==
  /\ now \in Instants /\ tracked \in Portfolios
  /\ revisions \in [Sources -> SUBSET Instants]
  /\ rows \in [Keys -> Row]
  /\ run \in Run /\ started \in 0..MaxRuns /\ acquired \in BOOLEAN
  /\ \A b \in bundles :
       /\ b.asOf \in Instants /\ b.at \in Instants /\ b.refused \in BOOLEAN
       /\ \A i \in b.items : /\ i.key \in Keys
                             /\ i.content \in Instants /\ i.first \in Instants

\* The tables with an ingestion time; documents keep the one of their first
\* acquisition, corporate events have none.
Dated(k) ==
  k[1] \in {"bar", "fundamental", "ttm", "macro", "news", "sentiment", "snapshot"}

\* A replay never learns from the future: however often a record was revised
\* and acquired again since, the content a replay bundle shows of a dated
\* table existed, and was in this database, at the cutoff.
ReplayIsPointInTime ==
  \A b \in bundles : \A i \in b.items :
    Dated(i.key) => i.content <= b.asOf /\ i.first <= b.asOf

\* Two replays of one cutoff that are both made after it: the later one may
\* have lost records that were acquired again, and fall back to an older
\* vintage, but it shows nothing newer than the earlier one and nothing of
\* which the earlier one had no trace.
Subject(k) == IF k[1] = "macro" THEN <<"macro", 0>> ELSE k
LaterReplayIsNoNewer ==
  \A b \in bundles, c \in bundles :
    b.asOf = c.asOf /\ b.asOf < b.at /\ b.at < c.at /\ ~b.refused
    => \A i \in c.items : Dated(i.key) =>
         \E j \in b.items : /\ Subject(j.key) = Subject(i.key)
                            /\ i.content <= j.content

\* The gates of the sections keep out everything the validator of a section
\* would raise on, so that a build fails for no more than three reasons: live,
\* a bar whose session was open at the cutoff, or FMP metrics without any date;
\* in a replay, a filing that was acquired after the cutoff (read only with a
\* DocumentRepository, which the Worker does not inject).  The build checked is
\* the widest, with documents and up to the day of the cutoff: what offends in
\* another one of that cutoff and mode offends in it.
FailureIsExplained ==
  \A k \in {x \in Keys : Stored(x)}, t \in Instants :
    /\ Offends(k, t, "live", Day(t), TRUE) =>
         \/ k[1] = "bar" /\ t < Close(k[2])
         \/ k[1] = "ttm" /\ ~Known(StatementTime(k))
    /\ Offends(k, t, "replay", Day(t), TRUE) => k[1] = "filing" /\ rows[k].first > t

\* The Temporal Contract of a record, as temporal_metadata_for maps it.
Metadata(k) ==
  LET r == rows[k]
      statement == StatementTime(k)
      available == CASE k[1] = "bar"   -> Close(k[2])
                     [] k[1] = "macro" -> Midnight(k[2])
                     [] k[1] \in {"fundamental", "ttm"} ->
                          IF Known(statement) THEN statement ELSE r.ingested
                     [] OTHER          -> r.published
      ingested  == CASE Dated(k)         -> r.ingested
                     [] k[1] = "filing"  -> r.first
                     [] OTHER            -> Unknown
  IN  [available |-> available, ingested |-> ingested,
       asOf |-> r.asOf, from |-> Unknown, to |-> Unknown]

Admits(k, asOf, mode, window) ==
  /\ IF k[1] = "macro" THEN AdmitsVintage(k, asOf, mode)
     ELSE Selects(k, asOf, mode, window)
  /\ Reached(Observed(k, mode), asOf)
InWindow(k, window) ==
  /\ k[1] = "bar" => k[2] <= window
  /\ k[1] = "filing" => Day(rows[k].published) <= window
Attested(k) == k[1] = "ttm" => Known(StatementTime(k))

\* The answers of the contract that let a record into a bundle.
Passing(k, mode) ==
  {"usable"} \union (IF k[1] = "snapshot" /\ mode = "live" THEN {"future_snapshot"} ELSE {})

\* The bundle and the shared contract: of the records in its window, a build
\* admits exactly those that validate_temporal_access accepts, though every
\* section has gates and observation times of its own, with two exceptions.
\* Of metrics without any date the contract accepts the ingestion, the bundle
\* does not.  A live build never reads the as_of of a sentiment snapshot, and
\* so admits the current one, collected after the cutoff, which the contract
\* refuses; a replay needs no such gate, for no snapshot is as of an instant
\* after its ingestion, however often it was acquired again.
AgreesFor(k, asOf, mode, window) ==
  InWindow(k, window) /\ Attested(k) =>
    (Admits(k, asOf, mode, window)
       <=> AccessReason(Metadata(k), asOf, mode) \in Passing(k, mode))

AgreesWithContract ==
  \A k \in {x \in Keys : Stored(x)} :
    /\ \A d \in Days : AgreesFor(k, EndOfDay(d), "replay", d)
    /\ \A t \in Instants : AgreesFor(k, t, "live", Day(t))

\* docs/schema.md of live acquisition: "still requires source available_at and
\* snapshot time to be no later than the cutoff": no run checks it, for it does
\* not hold of the current snapshot, see AgreesWithContract.
SnapshotPrecedesCutoff ==
  \A k \in {x \in Keys : Stored(x) /\ x[1] = "snapshot"}, t \in Instants :
    Admits(k, t, "live", Day(t)) => rows[k].asOf <= t

\* Choosing a vintage by its date chooses the newest observation: whatever
\* was acquired again, and in whichever calendar, of the vintages a cutoff
\* admits exactly one is selected and none of the others is more recent.
NewestVintageWins ==
  \A t \in Instants, mode \in {"replay", "live"} :
    LET admitted == {k \in Keys : AdmitsVintage(k, t, mode)}
        chosen   == {k \in Keys : SelectsVintage(k, t, mode)}
    IN  admitted # {} =>
          \E k \in chosen : /\ chosen = {k}
                            /\ \A v \in admitted :
                                 rows[v].content <= rows[k].content

\* docs/MASTER_SPEC.md: "historical replay additionally requires ingestion by
\* the replay cutoff": no item of a replay was first acquired after it.
ReplayRequiresIngestion ==
  \A b \in bundles : \A i \in b.items : i.first <= b.asOf
=============================================================================
