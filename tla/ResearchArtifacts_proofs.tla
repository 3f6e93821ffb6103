------------------------ MODULE ResearchArtifacts_proofs ----------------------
(*****************************************************************************)
(* Proofs about the frozen history of an asset (state, episode, attribution, *)
(* dataset sample, golden manifest) and about what is drawn from it for a    *)
(* quantitative reader (observations, candidate, transition, handoff bundle, *)
(* exported batch).                                                          *)
(*                                                                           *)
(* Any of the files of the history may be built again while those made from  *)
(* the old one are still there, so no invariant relates the files on disk to *)
(* each other.  What holds is what an artifact says of those it was made     *)
(* from, which its identity digests: the claims of a state were accepted by  *)
(* the runs it names, the claims of an episode's state in the traces of that *)
(* episode, the uses of an attribution by its episode's traces.  A sample    *)
(* and a golden manifest inherit these facts when identities are compared.   *)
(* Rows of the database are only appended, and those of a report all at      *)
(* once, before its manifest.                                                *)
(*                                                                           *)
(* The artifacts of the handoff are results of pure builders, so the         *)
(* invariant of its machine is short: what is at hand was built by a call    *)
(* that was not refused, and a batch that is written or due has its lines.   *)
(* The work is in the builders: ranking a finite linear order, the feature   *)
(* the first section holds, and what each descriptor and each change of a    *)
(* transition rests on.                                                      *)
(*****************************************************************************)
EXTENDS GoldenReplay, ResearchHandoff, SequenceTheorems, FiniteSetTheorems, TLAPS

-------------------------------------------------------------------------------
(* What the database and the files say                                       *)

\* The claims the runs of an episode accepted.
AcceptedOf(id) == UNION {t.accepted : t \in id.traces}

Listing(s) == s = [i \in 1..Len(s) |-> s[i]] /\ Len(s) \in Nat

\* A row and its run name the report that left it.
Database ==
  /\ Listing(db)
  /\ \A i \in DOMAIN db :
       /\ db[i].report \in Reports
       /\ db[i].run = <<db[i].report, db[i].role>>
  /\ DOMAIN manifests = Reports
  /\ \A r \in Reports : manifests[r] = None \/ manifests[r] \in Nat

\* The claims of a state were accepted by the runs it names.
StateWhole(s) ==
  /\ s.asOf = Bundle.asOf
  /\ s.agentRuns = {c.run : c \in s.id.claims}
  /\ \A c \in s.id.claims :
       \E i \in DOMAIN db : db[i].run = c.run /\ c.claim \in db[i].accepted

\* The claims of the state of an episode were accepted in its one execution, and
\* only a summary leaves it incomplete.
EpisodeWhole(e) ==
  /\ e.stateId = e.id.state /\ e.traces = e.id.traces
  /\ e.created = e.id.created /\ e.created \in Nat
  /\ \A c \in e.id.state.claims :
       c.run \in e.agentRuns /\ \E t \in e.traces : c.claim.id \in t.accepted
  /\ \E r \in Reports \union {"fixed"} : \A run \in e.agentRuns : run[1] = r
  /\ ~e.complete => e.id.report = None

AttributionWhole(a) ==
  /\ a.id[1] = a.episodeId /\ a.id[3] = a.items
  /\ \A x \in a.items :
       /\ x.usedBy \subseteq AcceptedOf(a.episodeId)
       /\ x.usedBy # {} => x.used
       /\ x.used /\ x.usedBy = {} =>
            x.status = "not_available" /\ a.episodeId.report = None

SampleWhole(s) ==
  /\ {c.claim.id : c \in s.stateId.claims} \subseteq AcceptedOf(s.episodeId)
  /\ s.episodeId.state = s.stateId
  /\ s.episodeId.created <= s.asOf
  /\ s.attributionId # None =>
       \A x \in s.attributionId[3] : x.usedBy \subseteq AcceptedOf(s.episodeId)

\* The row of a build was there before its file, and the file before the manifest.
JobWhole(j) ==
  /\ {"sample", "step"} \subseteq DOMAIN j
  /\ j.sample \in samples
  /\ j.step = "manifest" => j.sample.id \in outputs

\* The report of a golden manifest has its rows, and those are what it certifies.
GoldenWhole(g) ==
  /\ g.run \in Reports /\ manifests[g.run] # None
  /\ {c.claim : c \in g.sample.stateId.claims}
       = UNION {row.accepted : row \in {q \in RowsOf(g.run) : q.status = "ok"}}
  /\ \A c \in g.sample.stateId.claims : c.run[1] = g.run
  /\ g.sample.episodeId.report = g.run
  /\ g.sample.episodeId.state = g.sample.stateId

IInv ==
  /\ Database
  /\ state # None => StateWhole(state)
  /\ episode # None => EpisodeWhole(episode)
  /\ attribution # None => AttributionWhole(attribution)
  /\ \A s \in samples : SampleWhole(s)
  /\ job # None => JobWhole(job)
  /\ IndexedSampleIsWhole
  /\ DOMAIN golden = {"manifest", "summary"}
  /\ golden["manifest"] # None => GoldenWhole(golden["manifest"])

-------------------------------------------------------------------------------
(* The state                                                                 *)

LEMMA SnapshotIs ==
  ASSUME NEW in
  PROVE  /\ Snapshot(in).id.claims = in.claims
         /\ Snapshot(in).asOf = in.bundle.asOf
         /\ Snapshot(in).agentRuns = {c.run : c \in in.claims}
BY DEF Snapshot, StateId

LEMMA InputIs ==
  ASSUME NEW claims, NEW sector
  PROVE  /\ StateInput(claims, sector).claims = claims
         /\ StateInput(claims, sector).bundle = Bundle
BY DEF StateInput

\* A claim that is loaded is one of a successful row, and each of these is loaded.
LEMMA LoadedIs ==
  ASSUME NEW filter
  PROVE  /\ \A c \in LoadAgentClaims(filter) :
              \E i \in DOMAIN db : /\ db[i].run = c.run /\ c.claim \in db[i].accepted
                                   /\ db[i].status = "ok"
         /\ filter = None =>
              \A i \in DOMAIN db : \A x \in db[i].accepted :
                 db[i].status = "ok" =>
                   [role |-> db[i].role, run |-> db[i].run, claim |-> x]
                     \in LoadAgentClaims(filter)
<1>1. \A row : row \in ToSet(db) <=> \E i \in DOMAIN db : row = db[i]
  BY DEF ToSet
<1>2. ASSUME NEW c \in LoadAgentClaims(filter)
      PROVE  \E i \in DOMAIN db : /\ db[i].run = c.run /\ c.claim \in db[i].accepted
                                  /\ db[i].status = "ok"
  <2>1. PICK row \in ToSet(db) :
          /\ row.status = "ok"
          /\ c \in {[role |-> row.role, run |-> row.run, claim |-> x] : x \in row.accepted}
    BY <1>2 DEF LoadAgentClaims
  <2>2. c.run = row.run /\ c.claim \in row.accepted
    BY <2>1
  <2> QED  BY <1>1, <2>1, <2>2
<1>3. ASSUME filter = None, NEW i \in DOMAIN db, NEW x \in db[i].accepted,
             db[i].status = "ok"
      PROVE  [role |-> db[i].role, run |-> db[i].run, claim |-> x] \in LoadAgentClaims(filter)
  <2>1. db[i] \in {q \in ToSet(db) : q.status = "ok" /\ filter \in {None, q.report}}
    BY <1>1, <1>3
  <2> QED  BY <2>1 DEF LoadAgentClaims
<1> QED
  BY <1>2, <1>3

LEMMA FreezeStateKeeps ==
  ASSUME IInv, FreezeState
  PROVE  StateWhole(state')
<1>1. PICK filter \in Reports \union {None}, withDb \in BOOLEAN, sector \in {None, Context} :
        state' = Snapshot(StateInput(IF withDb THEN LoadAgentClaims(filter) ELSE {}, sector))
  BY DEF FreezeState
<1> DEFINE claims == IF withDb THEN LoadAgentClaims(filter) ELSE {}
<1>2. /\ state'.id.claims = claims /\ state'.asOf = Bundle.asOf
      /\ state'.agentRuns = {c.run : c \in claims}
  BY <1>1, SnapshotIs, InputIs
<1>3. \A c \in claims : \E i \in DOMAIN db : db[i].run = c.run /\ c.claim \in db[i].accepted
  BY LoadedIs
<1> QED
  BY <1>2, <1>3 DEF StateWhole

-------------------------------------------------------------------------------
(* The episode                                                               *)

LEMMA CompleteTraceIs ==
  ASSUME NEW row
  PROVE  /\ CompleteTrace(row).run = row.run
         /\ CompleteTrace(row).accepted = Ids(row.accepted)
         /\ CompleteTrace(row).complete = TRUE
BY DEF CompleteTrace

LEMMA EpisodeIs ==
  ASSUME NEW in
  PROVE  LET e == Episode(in)
         IN  /\ e.id.state = in.state.id /\ e.id.traces = in.traces
             /\ e.id.report = in.report /\ e.id.created = in.created
             /\ e.id.usage = in.usage
             /\ e.stateId = in.state.id /\ e.created = in.created
             /\ e.traces = in.traces /\ e.agentRuns = {t.run : t \in in.traces}
             /\ e.complete = EpisodeIsComplete(in)
BY DEF Episode, EpisodeId

\* The runs of a report are the ones that name it.
LEMMA RowsOfIs ==
  ASSUME Database, NEW r
  PROVE  /\ \A row \in RowsOf(r) : row.report = r /\ row.run[1] = r
         /\ \A i \in DOMAIN db : db[i].run[1] = r => db[i] \in RowsOf(r)
<1>1. \A row : row \in RowsOf(r) <=> \E i \in DOMAIN db : db[i].report = r /\ row = db[i]
  BY DEF RowsOf
<1>2. \A i \in DOMAIN db : db[i].run[1] = db[i].report
  BY DEF Database
<1> QED
  BY <1>1, <1>2

\* An episode holds the claims of its state in its one execution.
LEMMA EpisodeKeeps ==
  ASSUME IInv, state # None, NEW in \in EpisodeInputs, ~EpisodeRejected(in)
  PROVE  EpisodeWhole(Episode(in))
<1> DEFINE e == Episode(in)
           runs == {t.run : t \in in.traces}
<1>1. Database /\ StateWhole(state)
  BY DEF IInv
<1>2. ~RunsDisagree(in.state, runs)
  BY DEF EpisodeRejected
<1>3. /\ e.id.state = in.state.id /\ e.id.traces = in.traces
      /\ e.id.report = in.report /\ e.id.created = in.created
      /\ e.stateId = in.state.id /\ e.created = in.created
      /\ e.traces = in.traces /\ e.agentRuns = runs
      /\ e.complete = EpisodeIsComplete(in)
  BY EpisodeIs
<1>4. \A x : x \in runs <=> \E t \in in.traces : x = t.run
  OBVIOUS
<1> HIDE DEF e, runs
<1>5. ASSUME NEW r \in Reports, NEW ctx, manifests[r] # None,
             in = ManifestEpisodeInput(r, ctx)
      PROVE  EpisodeWhole(e)
  <2>1. /\ in.state = state /\ in.traces = {CompleteTrace(row) : row \in RowsOf(r)}
        /\ in.created = manifests[r] /\ in.missing = {}
    BY <1>5 DEF ManifestEpisodeInput
  <2>2. in.created \in Nat
    BY <1>1, <1>5, <2>1 DEF Database
  <2>3. \A t \in in.traces : \E row \in RowsOf(r) : t = CompleteTrace(row)
    BY <2>1
  <2>4. \A row \in RowsOf(r) : CompleteTrace(row) \in in.traces
    BY <2>1
  <2>5. \A x \in runs : \E row \in RowsOf(r) : x = CompleteTrace(row).run
    BY <1>4, <2>3
  <2>6. \A row \in RowsOf(r) : row.run[1] = r
    BY <1>1, RowsOfIs
  <2>7. ASSUME NEW x \in runs  PROVE x[1] = r
    <3>1. PICK row \in RowsOf(r) : x = CompleteTrace(row).run
      BY <2>5
    <3> QED  BY <2>6, <3>1, CompleteTraceIs
  <2>8. ASSUME NEW c \in state.id.claims
        PROVE  c.run \in runs /\ \E t \in in.traces : c.claim.id \in t.accepted
    <3>1. c.run \in runs
      BY <1>1, <1>2, <2>1 DEF StateWhole, RunsDisagree
    <3>2. PICK i \in DOMAIN db : db[i].run = c.run /\ c.claim \in db[i].accepted
      BY <1>1 DEF StateWhole
    <3>3. db[i].run[1] = r
      BY <2>7, <3>1, <3>2
    <3>4. db[i] \in RowsOf(r)
      BY <1>1, <3>3, RowsOfIs
    <3>5. CompleteTrace(db[i]) \in in.traces
      BY <2>4, <3>4
    <3>6. c.claim.id \in CompleteTrace(db[i]).accepted
      BY <3>2, CompleteTraceIs DEF Ids
    <3> QED  BY <3>1, <3>5, <3>6
  <2>9. \A t \in in.traces : t.complete = TRUE
    BY <2>3, CompleteTraceIs
  <2>10. EpisodeIsComplete(in)
    BY <2>1, <2>9 DEF EpisodeIsComplete
  <2>11. ~e.complete => e.id.report = None
    BY <1>3, <2>10
  <2>12. \A c \in e.id.state.claims :
           c.run \in e.agentRuns /\ \E t \in e.traces : c.claim.id \in t.accepted
    BY <1>3, <2>1, <2>8
  <2>13. \A x \in e.agentRuns : x[1] = r
    BY <1>3, <2>7
  <2> QED
    BY <1>3, <2>2, <2>11, <2>12, <2>13 DEF EpisodeWhole
<1>6. ASSUME NEW s \in Summaries, in = SummaryEpisodeInput(s)
      PROVE  EpisodeWhole(e)
  <2>1. /\ in.state = state /\ in.report = None /\ in.created = s.created
        /\ in.traces = {PartialTrace(role, s.agents[role], s.usage) : role \in DOMAIN s.agents}
    BY <1>6 DEF SummaryEpisodeInput
  <2>2. in.created \in Nat
    BY <2>1, HistoryAssumption
  <2>3. \A x \in runs : x[1] = "fixed"
    <3>1. \A role, m, u : PartialTrace(role, m, u).run = <<"fixed", role>>
      BY DEF PartialTrace
    <3> QED  BY <1>4, <2>1, <3>1
  <2>4. state.id.claims = {}
    <3>1. SUFFICES ASSUME NEW c \in state.id.claims  PROVE FALSE
      OBVIOUS
    <3>2. c.run \in runs
      BY <1>1, <1>2, <2>1 DEF StateWhole, RunsDisagree
    <3>3. PICK i \in DOMAIN db : db[i].run = c.run
      BY <1>1 DEF StateWhole
    <3>4. db[i].run[1] \in Reports
      BY <1>1 DEF Database
    <3> QED  BY <2>3, <3>2, <3>3, <3>4, HistoryAssumption
  <2>5. e.id.state.claims = {}
    BY <1>3, <2>1, <2>4
  <2>6. \A x \in e.agentRuns : x[1] = "fixed"
    BY <1>3, <2>3
  <2>7. e.id.report = None
    BY <1>3, <2>1
  <2> QED
    BY <1>3, <2>2, <2>5, <2>6, <2>7 DEF EpisodeWhole
<1>7. \/ in \in {ManifestEpisodeInput(r, ctx) :
                r \in {q \in Reports : manifests[q] # None}, ctx \in {None, Context}}
      \/ in \in {SummaryEpisodeInput(s) : s \in Summaries}
  BY DEF EpisodeInputs
<1>8. ASSUME in \in {ManifestEpisodeInput(r, ctx) :
                r \in {q \in Reports : manifests[q] # None}, ctx \in {None, Context}}
      PROVE  EpisodeWhole(e)
  <2>1. PICK r \in {q \in Reports : manifests[q] # None}, ctx \in {None, Context} :
          in = ManifestEpisodeInput(r, ctx)
    BY <1>8
  <2> QED  BY <1>5, <2>1
<1>9. EpisodeWhole(e)
  BY <1>6, <1>7, <1>8
<1> QED
  BY <1>9 DEF e

-------------------------------------------------------------------------------
(* The attribution                                                           *)

\* The accepted claims that are linked to a piece of context.
Evidence(links, run, type, context) == LinkedTo(links, run, type, context, TRUE)

\* Claims that are linked as accepted were accepted in a trace of the episode.
LEMMA LinksAreTraced ==
  ASSUME NEW e, NEW links, ~LinksRejected(e, links), NEW run, NEW type, NEW context
  PROVE  Evidence(links, run, type, context) \subseteq UNION {t.accepted : t \in e.traces}
<1>1. ASSUME NEW x \in Evidence(links, run, type, context)
      PROVE  \E t \in e.traces : x \in t.accepted
  <2>1. PICK l \in links : l.accepted = TRUE /\ x = l.claim
    BY <1>1 DEF LinkedTo, Evidence
  <2>2. \E t \in e.traces : l.claim \in IF l.accepted THEN t.accepted ELSE t.rejected
    BY DEF LinksRejected
  <2> QED  BY <2>1, <2>2
<1> QED
  BY <1>1

\* A use that no accepted claim evidences is marked, and the episode is incomplete.
Marked(e, a) == a.used /\ a.usedBy = {} => a.status = "not_available" /\ ~e.complete

LEMMA MemoriesAre ==
  ASSUME NEW e, NEW provision, NEW links, NEW a \in MemoryAttributions(provision, links)
  PROVE  /\ \E run, type, context : a.usedBy = Evidence(links, run, type, context)
         /\ Marked(e, a)
<1>1. PICK c \in provision.candidates :
        a = Attributed(provision.run, "memory", c.id, c.selected,
                       Evidence(links, provision.run, "memory", c.id) # {}, links,
                       "complete")
  BY DEF MemoryAttributions, Evidence
<1> DEFINE accepted == Evidence(links, provision.run, "memory", c.id)
           used == accepted # {}
<1>2. a = Attributed(provision.run, "memory", c.id, c.selected, used, links, "complete")
  BY <1>1
<1> HIDE DEF used
<1>3. a.usedBy = accepted /\ a.used = used
  BY <1>2 DEF Attributed, Evidence
<1>4. Marked(e, a)
  BY <1>3 DEF Marked, used
<1> QED
  BY <1>3, <1>4

LEMMA ContextsAre ==
  ASSUME NEW e, NEW run, NEW type, NEW shown, NEW used, NEW links,
         \A x \in shown :
           x \in used /\ Evidence(links, run, type, x) = {} => ~e.complete,
         NEW a \in ContextAttributions(e, run, type, shown, used, links)
  PROVE  /\ \E x : a.usedBy = Evidence(links, run, type, x)
         /\ Marked(e, a)
<1>1. PICK x \in shown :
        a = Attributed(run, type, x, TRUE, x \in used, links,
                       LinkStatus(e, x \in used, Evidence(links, run, type, x)))
  BY DEF ContextAttributions, Evidence
<1> DEFINE accepted == Evidence(links, run, type, x)
           uses == x \in used
           status == LinkStatus(e, uses, accepted)
<1>2. a = Attributed(run, type, x, TRUE, uses, links, status)
  BY <1>1
<1>3. (uses /\ accepted = {}) => ~e.complete
  OBVIOUS
<1>4. (uses /\ accepted = {}) => status = "not_available"
  BY DEF LinkStatus
<1> HIDE DEF accepted, uses, status
<1>5. a.usedBy = accepted /\ a.used = uses /\ a.status = status
  BY <1>2 DEF Attributed, Evidence, accepted
<1>6. Marked(e, a)
  BY <1>3, <1>4, <1>5 DEF Marked
<1> QED
  BY <1>5, <1>6 DEF accepted

LEMMA UsagesAre ==
  ASSUME NEW e, NEW ctx, NEW u, NEW links, ~UsageRejected(e, ctx, u, links),
         NEW a \in UsageAttributions(e, u, links)
  PROVE  /\ \E run, type, context : a.usedBy = Evidence(links, run, type, context)
         /\ Marked(e, a)
<1> DEFINE runs == RunsOf(e, u.role)
           run == CHOOSE r \in runs : TRUE
           items == {<<"sector_claim", c, c \in u.usedClaims>> : c \in u.claims}
                      \union {<<"radar_event", k, k \in u.usedEvents>> : k \in u.events}
<1>1. Cardinality(runs) = 1
  BY DEF UsageRejected
<1>2. run \in runs
  BY <1>1, FS_EmptySet
<1>3. \A x \in items : \A r \in runs :
        ~DiagnosticRejected(e, x[3], Evidence(links, r, x[1], x[2]))
  BY DEF UsageRejected, Evidence
<1>4. a \in ContextAttributions(e, run, "sector_claim", u.claims, u.usedClaims, links)
      \/ a \in ContextAttributions(e, run, "radar_event", u.events, u.usedEvents, links)
  BY DEF UsageAttributions
<1> HIDE DEF run, runs
<1>5. ASSUME NEW c \in u.claims, c \in u.usedClaims,
             Evidence(links, run, "sector_claim", c) = {}
      PROVE  ~e.complete
  <2> DEFINE x == <<"sector_claim", c, c \in u.usedClaims>>
  <2>1. x \in items
    OBVIOUS
  <2>2. x[1] = "sector_claim" /\ x[2] = c /\ x[3]
    BY <1>5
  <2> HIDE DEF x, items
  <2>3. ~DiagnosticRejected(e, x[3], Evidence(links, run, x[1], x[2]))
    BY <1>2, <1>3, <2>1
  <2>4. Evidence(links, run, x[1], x[2]) = {}
    BY <1>5, <2>2
  <2> QED  BY <2>2, <2>3, <2>4 DEF DiagnosticRejected
<1>6. ASSUME NEW k \in u.events, k \in u.usedEvents,
             Evidence(links, run, "radar_event", k) = {}
      PROVE  ~e.complete
  <2> DEFINE x == <<"radar_event", k, k \in u.usedEvents>>
  <2>1. x \in items
    OBVIOUS
  <2>2. x[1] = "radar_event" /\ x[2] = k /\ x[3]
    BY <1>6
  <2> HIDE DEF x, items
  <2>3. ~DiagnosticRejected(e, x[3], Evidence(links, run, x[1], x[2]))
    BY <1>2, <1>3, <2>1
  <2>4. Evidence(links, run, x[1], x[2]) = {}
    BY <1>6, <2>2
  <2> QED  BY <2>2, <2>3, <2>4 DEF DiagnosticRejected
<1> HIDE DEF items
<1>7. CASE a \in ContextAttributions(e, run, "sector_claim", u.claims, u.usedClaims, links)
  BY <1>5, <1>7, ContextsAre
<1>8. CASE a \in ContextAttributions(e, run, "radar_event", u.events, u.usedEvents, links)
  BY <1>6, <1>8, ContextsAre
<1> QED
  BY <1>4, <1>7, <1>8

LEMMA AttributionKeeps ==
  ASSUME NEW e, EpisodeWhole(e), NEW ctx, NEW provisions, NEW links,
         ~AttributionRejected(e, ctx, provisions, links)
  PROVE  AttributionWhole(Attribution(e, ctx, provisions, links))
<1> DEFINE items == AttributionItems(e, ctx, provisions, links)
           a == Attribution(e, ctx, provisions, links)
<1>1. /\ a.id[1] = e.id /\ a.id[3] = items /\ a.episodeId = e.id /\ a.items = items
  BY DEF Attribution
<1>2. /\ ~LinksRejected(e, links)
      /\ \A x \in items : AttributionContract(x)
      /\ ctx # None => \A u \in e.usage : ~UsageRejected(e, ctx, u, links)
  BY DEF AttributionRejected
<1> HIDE DEF a
<1>3. ASSUME NEW x \in items
      PROVE  /\ \E run, type, context : x.usedBy = Evidence(links, run, type, context)
             /\ Marked(e, x)
  <2>1. CASE \E p \in provisions : x \in MemoryAttributions(p, links)
    BY <2>1, MemoriesAre
  <2>2. CASE ctx # None /\ \E u \in e.usage : x \in UsageAttributions(e, u, links)
    <3>1. PICK u \in e.usage : x \in UsageAttributions(e, u, links)
      BY <2>2
    <3>2. ~UsageRejected(e, ctx, u, links)
      BY <1>2, <2>2, <3>1
    <3> QED  BY <3>1, <3>2, UsagesAre
  <2> QED  BY <2>1, <2>2 DEF AttributionItems
<1>4. UNION {t.accepted : t \in e.traces} = AcceptedOf(e.id)
  BY DEF EpisodeWhole, AcceptedOf
<1> HIDE DEF items
<1>5. ASSUME NEW x \in items
      PROVE  /\ x.usedBy \subseteq AcceptedOf(e.id)
             /\ x.usedBy # {} => x.used
             /\ x.used /\ x.usedBy = {} => x.status = "not_available" /\ e.id.report = None
  <2>1. x.usedBy \subseteq AcceptedOf(e.id)
    BY <1>2, <1>3, <1>4, LinksAreTraced
  <2>2. x.usedBy # {} => x.used
    BY <1>2 DEF AttributionContract
  <2>3. x.used /\ x.usedBy = {} => x.status = "not_available" /\ ~e.complete
    BY <1>3 DEF Marked
  <2> QED  BY <2>1, <2>2, <2>3 DEF EpisodeWhole
<1>6. AttributionWhole(a)
  BY <1>1, <1>5 DEF AttributionWhole
<1> QED
  BY <1>6 DEF a

-------------------------------------------------------------------------------
(* The database                                                              *)

\* Rows are appended: the earlier ones keep their place.
LEMMA JoinedIs ==
  ASSUME NEW s, Listing(s), NEW t, Listing(t)
  PROVE  /\ Listing(s \o t) /\ DOMAIN s = 1..Len(s) /\ DOMAIN t = 1..Len(t)
         /\ DOMAIN (s \o t) = 1..(Len(s) + Len(t))
         /\ \A i \in DOMAIN s : (s \o t)[i] = s[i]
         /\ \A i \in DOMAIN (s \o t) :
              i \in DOMAIN s \/ (i - Len(s) \in DOMAIN t /\ (s \o t)[i] = t[i - Len(s)])
<1> DEFINE S == ToSet(s) \union ToSet(t)
<1>1. s \in Seq(S) /\ DOMAIN s = 1..Len(s)
  BY DEF Listing, ToSet
<1>2. t \in Seq(S) /\ DOMAIN t = 1..Len(t)
  BY DEF Listing, ToSet
<1> HIDE DEF S
<1>3. /\ s \o t \in Seq(S) /\ Len(s \o t) = Len(s) + Len(t)
      /\ \A i \in 1..(Len(s) + Len(t)) :
           (s \o t)[i] = IF i <= Len(s) THEN s[i] ELSE t[i - Len(s)]
  BY <1>1, <1>2, ConcatProperties
<1>4. /\ s \o t \in [1..Len(s \o t) -> S] /\ DOMAIN (s \o t) = 1..Len(s \o t)
      /\ Len(s \o t) \in Nat
  BY <1>3, LenProperties
<1>5. Listing(s \o t)
  BY <1>4 DEF Listing
<1>6. Len(s) \in Nat /\ Len(t) \in Nat
  BY DEF Listing
<1> HIDE DEF Listing
<1>7. \A i \in DOMAIN s : (s \o t)[i] = s[i]
  BY <1>1, <1>3, <1>6
<1>8. ASSUME NEW i \in DOMAIN (s \o t)
      PROVE  i \in DOMAIN s \/ (i - Len(s) \in DOMAIN t /\ (s \o t)[i] = t[i - Len(s)])
  BY <1>1, <1>2, <1>3, <1>4, <1>6
<1> QED
  BY <1>1, <1>2, <1>3, <1>4, <1>5, <1>7, <1>8

LEMMA RunReportKeeps ==
  ASSUME IInv, NEW r \in Reports, RunReport(r)
  PROVE  /\ Database'
         /\ \A i \in DOMAIN db : i \in DOMAIN db' /\ db'[i] = db[i]
         /\ \A k \in Reports : manifests[k] # None =>
              manifests'[k] # None /\ RowsOf(k)' = RowsOf(k)
<1>1. PICK content \in Contents :
        /\ db' = db \o [i \in DOMAIN content.rows |-> RunRow(r, content.rows[i])]
        /\ manifests' = [manifests EXCEPT ![r] = content.created]
  BY DEF RunReport
<1>2. manifests[r] = None
  BY DEF RunReport
<1> DEFINE more == [i \in DOMAIN content.rows |-> RunRow(r, content.rows[i])]
<1>3. Database
  BY DEF IInv
<1>4. /\ DOMAIN content.rows = 1..Len(content.rows) /\ Len(content.rows) \in Nat
      /\ content.created \in Nat
  BY HistoryAssumption, LenProperties
<1>5. Listing(more) /\ DOMAIN more = DOMAIN content.rows
  BY <1>4 DEF Listing
<1>6. \A i \in DOMAIN more : more[i] = RunRow(r, content.rows[i])
  BY <1>4
<1>7. db' = db \o more
  BY <1>1
<1> HIDE DEF more
<1>8. /\ Listing(db') /\ DOMAIN db = 1..Len(db) /\ DOMAIN db' = 1..(Len(db) + Len(more))
      /\ \A i \in DOMAIN db : db'[i] = db[i]
      /\ \A i \in DOMAIN db' :
           i \in DOMAIN db \/ (i - Len(db) \in DOMAIN more /\ db'[i] = more[i - Len(db)])
      /\ Len(db) \in Nat /\ Len(more) \in Nat
  BY <1>3, <1>5, <1>7, JoinedIs DEF Database, Listing
<1>9. \A i \in DOMAIN db : i \in DOMAIN db' /\ db'[i] = db[i]
  BY <1>8
<1>10. ASSUME NEW i \in DOMAIN db', i \notin DOMAIN db
       PROVE  db'[i].report = r /\ db'[i].run = <<r, db'[i].role>>
  BY <1>6, <1>8, <1>10 DEF RunRow
<1>11. Database'
  <2>1. \A i \in DOMAIN db' :
          db'[i].report \in Reports /\ db'[i].run = <<db'[i].report, db'[i].role>>
    BY <1>3, <1>9, <1>10 DEF Database
  <2>2. /\ DOMAIN manifests' = Reports
        /\ \A k \in Reports : manifests'[k] = None \/ manifests'[k] \in Nat
    BY <1>1, <1>3, <1>4 DEF Database
  <2> QED  BY <1>8, <2>1, <2>2 DEF Database
<1>12. ASSUME NEW k \in Reports, manifests[k] # None
       PROVE  manifests'[k] # None /\ RowsOf(k)' = RowsOf(k)
  <2>1. k # r
    BY <1>2, <1>12
  <2>2. manifests'[k] # None
    BY <1>1, <1>3, <1>12, <2>1 DEF Database
  <2>3. \A row : row \in RowsOf(k) <=> \E i \in DOMAIN db : db[i].report = k /\ row = db[i]
    BY DEF RowsOf
  <2>4. \A row : row \in RowsOf(k)' <=> \E i \in DOMAIN db' : db'[i].report = k /\ row = db'[i]
    BY DEF RowsOf
  <2>5. \A i \in DOMAIN db' : db'[i].report = k => i \in DOMAIN db /\ db'[i] = db[i]
    BY <1>9, <1>10, <2>1
  <2>6. \A row : row \in RowsOf(k)' <=> row \in RowsOf(k)
    BY <1>9, <2>3, <2>4, <2>5
  <2> QED  BY <2>2, <2>6
<1> QED
  BY <1>9, <1>11, <1>12

-------------------------------------------------------------------------------
(* The sample                                                                *)

\* What is visible at a cutoff was available by then.
LEMMA VisibleIs ==
  ASSUME NEW available \in Nat, NEW asOf, NEW cutoff, VisibleAt(available, asOf, cutoff)
  PROVE  ~(available > cutoff)
<1> DEFINE m == [available |-> available, ingested |-> Unknown, asOf |-> asOf,
                 from |-> Unknown, to |-> Unknown]
<1>1. AccessReason(m, cutoff, "replay") = "usable"
  BY DEF VisibleAt, UsableAt
<1>2. m.available = available
  OBVIOUS
<1> HIDE DEF m
<1>3. ~After(m.available, cutoff)
  BY <1>1 DEF AccessReason
<1> QED
  BY <1>2, <1>3 DEF After, Known, Unknown

LEMMA SampleIs ==
  ASSUME NEW with
  PROVE  /\ Sample(with).asOf = state.asOf
         /\ Sample(with).stateId = state.id /\ Sample(with).episodeId = episode.id
         /\ Sample(with).attributionId = IF with = None THEN None ELSE with.id
BY DEF Sample

\* The identities of the artifacts that a sample joins were compared.
LEMMA SampleKeeps ==
  ASSUME IInv, state # None, episode # None, NEW with \in {None, attribution},
         ~IdentityRejected(with), ~TemporalRejected(with)
  PROVE  SampleWhole(Sample(with))
<1> DEFINE s == Sample(with)
<1>1. /\ s.asOf = state.asOf /\ s.stateId = state.id /\ s.episodeId = episode.id
      /\ s.attributionId = IF with = None THEN None ELSE with.id
  BY SampleIs
<1> HIDE DEF s
<1>2. StateWhole(state) /\ EpisodeWhole(episode)
  BY DEF IInv
<1>3. episode.id.state = state.id
  BY <1>2 DEF IdentityRejected, EpisodeWhole
<1>4. ASSUME NEW c \in state.id.claims  PROVE c.claim.id \in AcceptedOf(episode.id)
  BY <1>2, <1>3 DEF EpisodeWhole, AcceptedOf
<1>5. episode.created <= state.asOf
  <2>1. VisibleAt(episode.created, episode.asOf, state.asOf)
    BY DEF TemporalRejected
  <2>2. episode.created \in Nat /\ state.asOf \in Nat
    BY <1>2, HistoryAssumption DEF EpisodeWhole, StateWhole
  <2> QED  BY <2>1, <2>2, VisibleIs
<1>6. ASSUME s.attributionId # None
      PROVE  \A x \in s.attributionId[3] : x.usedBy \subseteq AcceptedOf(episode.id)
  <2>1. with # None /\ s.attributionId = with.id
    BY <1>1, <1>6
  <2>2. with = attribution /\ AttributionWhole(attribution)
    BY <2>1 DEF IInv
  <2>3. with.episodeId = episode.id
    BY <2>1 DEF IdentityRejected, ForeignAttribution
  <2> QED  BY <2>1, <2>2, <2>3 DEF AttributionWhole
<1>7. episode.id.created <= state.asOf
  BY <1>2, <1>5 DEF EpisodeWhole
<1>8. {c.claim.id : c \in s.stateId.claims} \subseteq AcceptedOf(s.episodeId)
  BY <1>1, <1>4
<1>9. SampleWhole(s)
  BY <1>1, <1>3, <1>6, <1>7, <1>8 DEF SampleWhole
<1> QED
  BY <1>9 DEF s

\* A manifest is written for the report whose rows the sample holds.
LEMMA ReplayKeeps ==
  ASSUME IInv, NEW r \in Reports, state # None, episode # None, manifests[r] # None,
         NEW sample,
         Replays(StateInput(LoadAgentClaims(None), None), ManifestEpisodeInput(r, None),
                 None, sample)
  PROVE  GoldenWhole(Manifest(r, sample))
<1> DEFINE g == Manifest(r, sample)
           in == ManifestEpisodeInput(r, None)
<1>1. g.run = r /\ g.sample = sample
  BY DEF Manifest
<1>2. Database /\ EpisodeWhole(episode)
  BY DEF IInv
<1>3. state.id.claims = LoadAgentClaims(None)
  BY SnapshotIs, InputIs DEF Replays, StateReplays
<1>4. Episode(in) = episode /\ ~IdentityRejected(None) /\ Sample(None) = sample
  BY DEF Replays, EpisodeReplays, SampleReplays
<1>5. in.report = r /\ in.traces = {CompleteTrace(row) : row \in RowsOf(r)}
  BY DEF ManifestEpisodeInput
<1> HIDE DEF in
<1>6. episode.id.report = r
  BY <1>4, <1>5, EpisodeIs
<1>7. \A x \in episode.agentRuns : \E row \in RowsOf(r) : x = CompleteTrace(row).run
  <2>1. episode.agentRuns = {t.run : t \in in.traces}
    BY <1>4, EpisodeIs
  <2> QED  BY <1>5, <2>1
<1>8. sample.stateId = state.id /\ sample.episodeId = episode.id
  BY <1>4, SampleIs
<1>9. episode.id.state = state.id
  BY <1>2, <1>4 DEF IdentityRejected, EpisodeWhole
<1> HIDE DEF g
<1>10. \A row \in RowsOf(r) : row.run[1] = r
  BY <1>2, RowsOfIs
<1>11. ASSUME NEW c \in state.id.claims  PROVE c.run[1] = r
  <2>1. c.run \in episode.agentRuns
    BY <1>2, <1>9 DEF EpisodeWhole
  <2>2. PICK row \in RowsOf(r) : c.run = CompleteTrace(row).run
    BY <1>7, <2>1
  <2> QED  BY <1>10, <2>2, CompleteTraceIs
<1> DEFINE left == UNION {row.accepted : row \in {q \in RowsOf(r) : q.status = "ok"}}
<1>12. ASSUME NEW c \in state.id.claims  PROVE c.claim \in left
  <2>1. PICK i \in DOMAIN db : /\ db[i].run = c.run /\ c.claim \in db[i].accepted
                               /\ db[i].status = "ok"
    BY <1>3, LoadedIs
  <2>2. db[i] \in RowsOf(r)
    BY <1>2, <1>11, <2>1, RowsOfIs
  <2> QED  BY <2>1, <2>2
<1>13. ASSUME NEW x \in left  PROVE \E c \in state.id.claims : x = c.claim
  <2>1. PICK row \in RowsOf(r) : row.status = "ok" /\ x \in row.accepted
    OBVIOUS
  <2>2. PICK i \in DOMAIN db : row = db[i]
    BY DEF RowsOf
  <2>3. [role |-> db[i].role, run |-> db[i].run, claim |-> x] \in LoadAgentClaims(None)
    BY <2>1, <2>2, LoadedIs
  <2> QED  BY <1>3, <2>3
<1> HIDE DEF left
<1>14. {c.claim : c \in state.id.claims} = left
  BY <1>12, <1>13
<1>15. GoldenWhole(g)
  BY <1>1, <1>6, <1>8, <1>9, <1>11, <1>14 DEF GoldenWhole, left
<1> QED
  BY <1>15 DEF g

-------------------------------------------------------------------------------
(* Every step keeps the invariant                                            *)

LEMMA InitIInv ==
  GoldenInit => IInv
<1> SUFFICES ASSUME GoldenInit  PROVE IInv
  OBVIOUS
<1>1. Init
  BY DEF GoldenInit
<1>2. db = <<>> /\ manifests = [r \in Reports |-> None]
  BY <1>1 DEF Init
<1>3. Listing(db) /\ DOMAIN db = {}
  BY <1>2 DEF Listing
<1>4. Database
  BY <1>2, <1>3 DEF Database
<1>5. /\ state = None /\ episode = None /\ attribution = None /\ job = None
      /\ samples = {} /\ outputs = {} /\ indexed = {}
  BY <1>1 DEF Init
<1>6. DOMAIN golden = {"manifest", "summary"} /\ golden["manifest"] = None
  BY DEF GoldenInit
<1>7. IndexedSampleIsWhole
  BY <1>5 DEF IndexedSampleIsWhole
<1> QED
  BY <1>4, <1>5, <1>6, <1>7 DEF IInv

LEMMA RunReportKeepsIInv ==
  ASSUME IInv, NEW r \in Reports, RunReport(r), UNCHANGED golden
  PROVE  IInv'
<1>1. /\ Database'
      /\ \A i \in DOMAIN db : i \in DOMAIN db' /\ db'[i] = db[i]
      /\ \A k \in Reports : manifests[k] # None =>
           manifests'[k] # None /\ RowsOf(k)' = RowsOf(k)
  BY RunReportKeeps
<1>2. /\ UNCHANGED <<state, episode, attribution, samples, outputs, indexed, job>>
  BY DEF RunReport, frozen, dataset
<1>3. state # None => StateWhole(state)'
  <2>1. SUFFICES ASSUME state # None  PROVE StateWhole(state)'
    OBVIOUS
  <2>2. StateWhole(state)
    BY <2>1 DEF IInv
  <2> QED  BY <1>1, <1>2, <2>2 DEF StateWhole
<1>4. /\ episode # None => EpisodeWhole(episode)'
      /\ attribution # None => AttributionWhole(attribution)'
      /\ \A s \in samples : SampleWhole(s)'
  BY <1>2 DEF IInv, EpisodeWhole, AttributionWhole, SampleWhole
<1>5. job # None => JobWhole(job)'
  BY <1>2 DEF IInv, JobWhole
<1>6. IndexedSampleIsWhole'
  BY <1>2 DEF IInv, IndexedSampleIsWhole
<1>7. golden["manifest"] # None => GoldenWhole(golden["manifest"])'
  <2> DEFINE g == golden["manifest"]
  <2>1. SUFFICES ASSUME g # None  PROVE GoldenWhole(g)'
    OBVIOUS
  <2>2. GoldenWhole(g) /\ golden' = golden
    BY <2>1 DEF IInv
  <2>3. g' = g
    BY <2>2
  <2> QED  BY <1>1, <2>2, <2>3 DEF GoldenWhole
<1> QED
  BY <1>1, <1>2, <1>3, <1>4, <1>5, <1>6, <1>7 DEF IInv

LEMMA NextIInv ==
  IInv /\ [GoldenNext]_goldenVars => IInv'
<1> SUFFICES ASSUME IInv, [GoldenNext]_goldenVars
             PROVE  IInv'
  OBVIOUS
<1>1. ASSUME NEW r \in Reports, RunReport(r), UNCHANGED golden
      PROVE  IInv'
  BY <1>1, RunReportKeepsIInv
<1>2. ASSUME db' = db, manifests' = manifests
      PROVE  /\ Database'
             /\ state # None /\ state' = state => StateWhole(state)'
             /\ golden["manifest"] # None /\ golden' = golden =>
                  GoldenWhole(golden["manifest"])'
  <2>1. Database'
    BY <1>2 DEF IInv, Database
  <2>2. ASSUME state # None, state' = state  PROVE StateWhole(state)'
    <3>1. StateWhole(state)
      BY <2>2 DEF IInv
    <3> QED  BY <1>2, <2>2, <3>1 DEF StateWhole
  <2>3. ASSUME golden["manifest"] # None, golden' = golden
        PROVE  GoldenWhole(golden["manifest"])'
    <3>1. GoldenWhole(golden["manifest"])
      BY <2>3 DEF IInv
    <3> QED  BY <1>2, <2>3, <3>1 DEF GoldenWhole, RowsOf
  <2> QED  BY <2>1, <2>2, <2>3
<1> DEFINE Rest ==
      /\ \A s \in samples : SampleWhole(s)
      /\ job # None => JobWhole(job)
      /\ IndexedSampleIsWhole
           Files ==
      /\ episode # None => EpisodeWhole(episode)
      /\ attribution # None => AttributionWhole(attribution)
<1>3. ASSUME UNCHANGED dataset  PROVE Rest'
  BY <1>3 DEF IInv, SampleWhole, JobWhole, IndexedSampleIsWhole, dataset
<1>4. ASSUME UNCHANGED <<episode, attribution>>  PROVE Files'
  BY <1>4 DEF IInv
<1>5. ASSUME FreezeState, UNCHANGED golden  PROVE IInv'
  <2>1. StateWhole(state')
    BY <1>5, FreezeStateKeeps
  <2>2. /\ db' = db /\ manifests' = manifests
        /\ UNCHANGED <<episode, attribution, dataset>>
    BY <1>5 DEF FreezeState
  <2>3. StateWhole(state)'
    BY <2>1, <2>2 DEF StateWhole
  <2> QED  BY <1>2, <1>3, <1>4, <1>5, <2>2, <2>3 DEF IInv
<1>6. ASSUME FreezeEpisode, UNCHANGED golden  PROVE IInv'
  <2>1. PICK in \in EpisodeInputs : ~EpisodeRejected(in) /\ episode' = Episode(in)
    BY <1>6 DEF FreezeEpisode
  <2>2. EpisodeWhole(Episode(in))
    BY <1>6, <2>1, EpisodeKeeps DEF FreezeEpisode
  <2>3. UNCHANGED <<db, manifests, state, attribution, dataset>>
    BY <1>6 DEF FreezeEpisode
  <2>4. EpisodeWhole(episode')
    BY <2>1, <2>2
  <2>5. AttributionWhole(attribution)' \/ attribution' = None
    BY <2>3 DEF IInv, AttributionWhole
  <2> QED  BY <1>2, <1>3, <1>6, <2>3, <2>4, <2>5 DEF IInv, EpisodeWhole
<1>7. ASSUME FreezeAttribution, UNCHANGED golden  PROVE IInv'
  <2>1. PICK ctx, provisions, links :
          /\ ~AttributionRejected(episode, ctx, provisions, links)
          /\ attribution' = Attribution(episode, ctx, provisions, links)
    BY <1>7 DEF FreezeAttribution
  <2>2. EpisodeWhole(episode)
    BY <1>7 DEF FreezeAttribution, IInv
  <2>3. AttributionWhole(attribution')
    BY <2>1, <2>2, AttributionKeeps
  <2>4. UNCHANGED <<db, manifests, state, episode, dataset>>
    BY <1>7 DEF FreezeAttribution
  <2> QED  BY <1>2, <1>3, <1>7, <2>2, <2>3, <2>4 DEF IInv, AttributionWhole, EpisodeWhole
<1>8. ASSUME SaveSample, UNCHANGED golden  PROVE IInv'
  <2>1. PICK with \in {None, attribution} :
          /\ ~IdentityRejected(with) /\ ~TemporalRejected(with)
          /\ samples' = samples \union {Sample(with)}
          /\ job' = [sample |-> Sample(with), step |-> "output"]
    BY <1>8 DEF SaveSample
  <2>2. SampleWhole(Sample(with))
    BY <1>8, <2>1, SampleKeeps DEF SaveSample
  <2>3. UNCHANGED <<db, manifests, frozen, outputs, indexed>>
    BY <1>8 DEF SaveSample
  <2>4. \A s \in samples' : SampleWhole(s)
    BY <2>1, <2>2 DEF IInv
  <2>5. JobWhole(job)'
    BY <2>1 DEF JobWhole
  <2>6. IndexedSampleIsWhole'
    BY <2>1, <2>3 DEF IInv, IndexedSampleIsWhole
  <2> QED  BY <1>2, <1>4, <1>8, <2>3, <2>4, <2>5, <2>6 DEF IInv, SampleWhole, frozen
<1>9. ASSUME WriteOutput, UNCHANGED golden  PROVE IInv'
  <2>1. job # None /\ JobWhole(job)
    BY <1>9 DEF WriteOutput, IInv
  <2>2. /\ outputs' = outputs \union {job.sample.id}
        /\ job' = [job EXCEPT !.step = "manifest"]
        /\ UNCHANGED <<db, manifests, frozen, samples, indexed>>
    BY <1>9 DEF WriteOutput
  <2>3. {"sample", "step"} \subseteq DOMAIN job' /\ job'.sample = job.sample
    BY <2>1, <2>2 DEF JobWhole
  <2>4. JobWhole(job)'
    BY <2>1, <2>2, <2>3 DEF JobWhole
  <2>5. IndexedSampleIsWhole'
    BY <2>1, <2>2 DEF IInv, JobWhole, IndexedSampleIsWhole
  <2>6. \A s \in samples' : SampleWhole(s)
    BY <2>2 DEF IInv
  <2> QED  BY <1>2, <1>4, <1>9, <2>2, <2>4, <2>5, <2>6 DEF IInv, SampleWhole, frozen
<1>10. ASSUME WriteManifest, UNCHANGED golden  PROVE IInv'
  <2>1. job # None /\ JobWhole(job) /\ job.step = "manifest"
    BY <1>10 DEF WriteManifest, IInv
  <2>2. /\ indexed' = indexed \union {job.sample.id} /\ job' = None
        /\ UNCHANGED <<db, manifests, frozen, samples, outputs>>
    BY <1>10 DEF WriteManifest
  <2>3. IndexedSampleIsWhole'
    BY <2>1, <2>2 DEF IInv, JobWhole, IndexedSampleIsWhole
  <2>4. \A s \in samples' : SampleWhole(s)
    BY <2>2 DEF IInv
  <2> QED  BY <1>2, <1>4, <1>10, <2>2, <2>3, <2>4 DEF IInv, SampleWhole, frozen
<1>11. ASSUME BuildDies, UNCHANGED golden  PROVE IInv'
  <2>1. job' = None /\ UNCHANGED <<db, manifests, frozen, samples, outputs, indexed>>
    BY <1>11 DEF BuildDies
  <2>2. IndexedSampleIsWhole' /\ \A s \in samples' : SampleWhole(s)
    BY <2>1 DEF IInv, IndexedSampleIsWhole
  <2> QED  BY <1>2, <1>4, <1>11, <2>1, <2>2 DEF IInv, SampleWhole, frozen
<1> HIDE DEF Rest, Files
<1>12. ASSUME UNCHANGED vars
       PROVE  /\ Database' /\ Rest' /\ Files'
              /\ state # None => StateWhole(state)'
              /\ state' = state
  BY <1>2, <1>3, <1>4, <1>12 DEF vars, dataset
<1>13. ASSUME NEW r \in Reports, ReplayManifest(r)  PROVE IInv'
  <2>1. PICK sample :
          /\ Replays(StateInput(LoadAgentClaims(None), None),
                     ManifestEpisodeInput(r, None), None, sample)
          /\ golden' = [golden EXCEPT !["manifest"] = Manifest(r, sample)]
    BY <1>13 DEF ReplayManifest
  <2>2. GoldenWhole(Manifest(r, sample))
    BY <1>13, <2>1, ReplayKeeps DEF ReplayManifest
  <2>3. DOMAIN golden = {"manifest", "summary"}
    BY DEF IInv
  <2>4. DOMAIN golden' = {"manifest", "summary"} /\ golden'["manifest"] = Manifest(r, sample)
    BY <2>1, <2>3
  <2>5. UNCHANGED vars
    BY <1>13 DEF ReplayManifest
  <2>6. GoldenWhole(golden["manifest"])'
    BY <2>2, <2>4, <2>5 DEF GoldenWhole, RowsOf, vars
  <2> QED  BY <1>12, <2>4, <2>5, <2>6 DEF IInv, Rest, Files, vars
<1>14. ASSUME NEW summary \in Summaries, ReplaySummary(summary)  PROVE IInv'
  <2>1. PICK sample :
          golden' = [golden EXCEPT !["summary"] = Manifest("summary", sample)]
    BY <1>14 DEF ReplaySummary
  <2>2. UNCHANGED vars
    BY <1>14 DEF ReplaySummary
  <2>3. DOMAIN golden' = {"manifest", "summary"} /\ golden'["manifest"] = golden["manifest"]
    BY <2>1 DEF IInv
  <2>4. golden'["manifest"] # None => GoldenWhole(golden["manifest"])'
    <3>1. SUFFICES ASSUME golden'["manifest"] # None  PROVE GoldenWhole(golden["manifest"])'
      OBVIOUS
    <3>2. GoldenWhole(golden["manifest"])
      BY <2>3, <3>1 DEF IInv
    <3> QED  BY <2>2, <2>3, <3>2 DEF GoldenWhole, RowsOf, vars
  <2> QED  BY <1>12, <2>2, <2>3, <2>4 DEF IInv, Rest, Files, vars
<1>15. ASSUME UNCHANGED goldenVars  PROVE IInv'
  <2>1. UNCHANGED vars /\ golden' = golden
    BY <1>15 DEF goldenVars
  <2>2. golden["manifest"] # None => GoldenWhole(golden["manifest"])'
    BY <1>2, <2>1 DEF vars
  <2>3. DOMAIN golden' = {"manifest", "summary"}
    BY <2>1 DEF IInv
  <2>4. state # None => StateWhole(state)'
    BY <1>12, <2>1
  <2>5. golden'["manifest"] = golden["manifest"] /\ state' = state
    BY <1>12, <2>1
  <2> QED  BY <1>12, <2>1, <2>2, <2>3, <2>4, <2>5 DEF IInv, Rest, Files
<1> QED
  BY <1>1, <1>5, <1>6, <1>7, <1>8, <1>9, <1>10, <1>11, <1>13, <1>14, <1>15
  DEF GoldenNext, Next

-------------------------------------------------------------------------------
(* What the frozen artifacts guarantee                                       *)

\* Whatever is frozen, rebuilt, indexed or replayed, each artifact keeps what its
\* checks established when it was built, and a build loses nothing it had written.
THEOREM Inductive == GoldenSpec => []IInv
  BY InitIInv, NextIInv, PTL DEF GoldenSpec

\* Two executions are never merged in one episode, although both share a database
\* and a state may be built from all of it (build_research_episode).
THEOREM EpisodesAreOneExecution == GoldenSpec => []EpisodeIsOneExecution
<1>1. IInv => EpisodeIsOneExecution
  <2> SUFFICES ASSUME IInv, episode # None
               PROVE  \E r \in Reports \union {"fixed"} :
                        \A run \in RunsBehind(episode) : run[1] = r
    BY DEF EpisodeIsOneExecution
  <2>1. EpisodeWhole(episode)
    BY DEF IInv
  <2>2. PICK r \in Reports \union {"fixed"} : \A run \in episode.agentRuns : run[1] = r
    BY <2>1 DEF EpisodeWhole
  <2>3. \A run \in RunsBehind(episode) : run \in episode.agentRuns
    BY <2>1 DEF RunsBehind, EpisodeWhole
  <2> QED  BY <2>2, <2>3
<1> QED
  BY <1>1, Inductive, PTL

\* A dataset sample joins artifacts of one run, recorded by its cutoff, although any
\* file may have been rebuilt after the others (build_research_dataset).
THEOREM SamplesAreClosed == GoldenSpec => []SampleIsClosed
<1>1. IInv => SampleIsClosed
  BY DEF IInv, SampleIsClosed, SampleWhole, AcceptedOf
<1> QED
  BY <1>1, Inductive, PTL

\* Context counts as used when an accepted claim of the run says so; only a partial
\* episode has uses without a claim, and they are marked (build_research_attribution).
THEOREM UsesAreEvidenced == GoldenSpec => []UseIsEvidenced
<1>1. IInv => UseIsEvidenced
  BY DEF IInv, UseIsEvidenced, AttributionWhole
<1> QED
  BY <1>1, Inductive, PTL

\* A manifest names a file and the file a row, wherever the program was lost
\* (build_research_dataset inserts, writes the file and then the manifest).
THEOREM IndexedSamplesAreWhole == GoldenSpec => []IndexedSampleIsWhole
  BY Inductive, PTL DEF IInv

\* A golden manifest certifies one execution: exactly the claims that the successful
\* agents of the named report left, and that report's episode (golden replay).
THEOREM GoldenRunsAreOne == GoldenSpec => []GoldenIsOneRun
<1>1. IInv => GoldenIsOneRun
  BY DEF IInv, GoldenIsOneRun, GoldenWhole
<1> QED
  BY <1>1, Inductive, PTL

-------------------------------------------------------------------------------
(* Ranks in a finite linear order                                            *)

\* R is a strict linear order of the set S.
LinearlyOrders(R, S) ==
  /\ \A s \in S : <<s, s>> \notin R
  /\ \A s, t, u \in S : <<s, t>> \in R /\ <<t, u>> \in R => <<s, u>> \in R
  /\ \A s, t \in S : s = t \/ <<s, t>> \in R \/ <<t, s>> \in R

Below(S, R, s) == {t \in S : <<t, s>> \in R}

LEMMA RanksClimb ==
  ASSUME NEW S, NEW R, IsFiniteSet(S), LinearlyOrders(R, S)
  PROVE  /\ \A s \in S : Cardinality(Below(S, R, s)) \in 0..(Cardinality(S) - 1)
         /\ \A s, t \in S : <<s, t>> \in R =>
              Cardinality(Below(S, R, s)) < Cardinality(Below(S, R, t))
<1>0. Cardinality(S) \in Nat
  BY FS_CardinalityType
<1>1. \A s \in S : /\ IsFiniteSet(Below(S, R, s))
                   /\ Cardinality(Below(S, R, s)) \in Nat
                   /\ Cardinality(Below(S, R, s)) < Cardinality(S)
  <2> TAKE s \in S
  <2>1. Below(S, R, s) \in SUBSET S /\ s \notin Below(S, R, s)
    BY DEF Below, LinearlyOrders
  <2>2. /\ IsFiniteSet(Below(S, R, s))
        /\ Cardinality(Below(S, R, s)) <= Cardinality(S)
        /\ Cardinality(Below(S, R, s)) # Cardinality(S)
    BY <2>1, FS_Subset
  <2>3. Cardinality(Below(S, R, s)) \in Nat
    BY <2>2, FS_CardinalityType
  <2> QED BY <1>0, <2>2, <2>3
<1>2. ASSUME NEW s \in S, NEW t \in S, <<s, t>> \in R
      PROVE  Cardinality(Below(S, R, s)) < Cardinality(Below(S, R, t))
  <2>1. Below(S, R, s) \in SUBSET Below(S, R, t)
    BY <1>2 DEF Below, LinearlyOrders
  <2>2. s \in Below(S, R, t) /\ s \notin Below(S, R, s)
    BY <1>2 DEF Below, LinearlyOrders
  <2>3. /\ Cardinality(Below(S, R, s)) <= Cardinality(Below(S, R, t))
        /\ Cardinality(Below(S, R, s)) # Cardinality(Below(S, R, t))
    BY <2>1, <2>2, <1>1, FS_Subset
  <2> QED BY <2>3, <1>1
<1> QED BY <1>0, <1>1, <1>2

LEMMA RanksAreTaken ==
  ASSUME NEW S, NEW R, IsFiniteSet(S), LinearlyOrders(R, S),
         NEW n \in 1..Cardinality(S)
  PROVE  \E s \in S : Cardinality(Below(S, R, s)) = n - 1
<1> DEFINE N == 0..(Cardinality(S) - 1)
           f == [s \in S |-> Cardinality(Below(S, R, s))]
<1>0. Cardinality(S) \in Nat /\ Cardinality(S) >= 1
  BY FS_CardinalityType
<1>1. f \in [S -> N]
  BY RanksClimb
<1>2. \A s, t \in S : f[s] = f[t] => s = t
  <2> SUFFICES ASSUME NEW s \in S, NEW t \in S, f[s] = f[t], s # t
               PROVE  FALSE
    OBVIOUS
  <2>1. <<s, t>> \in R \/ <<t, s>> \in R
    BY DEF LinearlyOrders
  <2>2. f[s] \in Int /\ f[t] \in Int
    BY <1>1, <1>0
  <2>3. f[s] = Cardinality(Below(S, R, s)) /\ f[t] = Cardinality(Below(S, R, t))
    OBVIOUS
  <2>4. CASE <<s, t>> \in R
    BY <2>2, <2>3, <2>4, RanksClimb
  <2>5. CASE <<t, s>> \in R
    BY <2>2, <2>3, <2>5, RanksClimb
  <2> QED BY <2>1, <2>4, <2>5
<1>3. IsFiniteSet(N) /\ Cardinality(N) = Cardinality(S)
  <2>1. Cardinality(S) - 1 \in Int /\ 0 \in Int /\ ~(0 > Cardinality(S) - 1)
    BY <1>0
  <2>2. /\ IsFiniteSet(N)
        /\ Cardinality(N) = IF 0 > Cardinality(S) - 1 THEN 0
                            ELSE (Cardinality(S) - 1) - 0 + 1
    BY <2>1, FS_Interval, Zenon
  <2>3. Cardinality(N) = (Cardinality(S) - 1) - 0 + 1
    BY <2>1, <2>2
  <2> HIDE DEF N
  <2> QED BY <2>2, <2>3, <1>0
<1>4. f \in Surjection(S, N)
  <2>1. f \in Injection(S, N)
    BY <1>1, <1>2 DEF Injection, IsInjective
  <2> HIDE DEF f, N
  <2> QED BY <2>1, <1>3, FS_Injection
<1>5. n - 1 \in N
  BY <1>0
<1>6. \E s \in S : f[s] = n - 1
  <2> HIDE DEF f, N
  <2> QED BY <1>4, <1>5 DEF Surjection
<1> QED BY <1>6

LEMMA LeastExists ==
  ASSUME NEW N \in Nat, NEW S \in SUBSET (1..N), S # {}
  PROVE  Min(S) \in S /\ \A y \in S : Min(S) <= y
<1> DEFINE R == {x \in S \X S : x[1] < x[2]}
<1>1. IsFiniteSet(S)
  <2>1. IsFiniteSet(1..N)
    BY FS_Interval
  <2> QED BY <2>1, FS_Subset
<1>2. \A s, t \in S : <<s, t>> \in R <=> s < t
  OBVIOUS
<1>3. LinearlyOrders(R, S)
  <2> HIDE DEF R
  <2> QED BY <1>2 DEF LinearlyOrders
<1>4. Cardinality(S) \in Nat /\ Cardinality(S) >= 1
  BY <1>1, FS_CardinalityType, FS_EmptySet
<1>5. PICK s \in S : Cardinality(Below(S, R, s)) = 0
  <2> HIDE DEF R
  <2>1. 1 \in 1..Cardinality(S) /\ 1 - 1 = 0
    BY <1>4
  <2> QED BY <1>1, <1>3, <2>1, RanksAreTaken
<1>6. Below(S, R, s) = {}
  <2>1. IsFiniteSet(Below(S, R, s))
    BY <1>1, FS_Subset DEF Below
  <2> HIDE DEF R
  <2> QED BY <2>1, <1>5, FS_EmptySet
<1>7. \A y \in S : s <= y
  <2> TAKE y \in S
  <2>1. ~(y < s)
    <3> HIDE DEF R
    <3> QED BY <1>6, <1>2 DEF Below
  <2>2. s \in Int /\ y \in Int
    OBVIOUS
  <2> QED BY <2>1, <2>2
<1> QED BY <1>7 DEF Min

-------------------------------------------------------------------------------
(* The feature a section order finds                                         *)

\* x is a section and a feature of that name in it.
Names(x, st, name) ==
  \E s \in Sections : \E f \in st.sections[s].features :
     x = <<s, f>> /\ f.name = name

\* An order of sections to look a feature up in.
Searched(order) ==
  \E n \in Nat : DOMAIN order = 1..n /\ \A i \in 1..n : order[i] \in Sections

LEMMA FoundIsHeld ==
  ASSUME NEW st, NEW order, NEW name, Searched(order),
         \/ Find(st, order, name) # None
         \/ \E i \in DOMAIN order :
              \E f \in st.sections[order[i]].features : f.name = name
  PROVE  Names(Find(st, order, name), st, name)
<1> DEFINE holding == {i \in DOMAIN order :
                         \E f \in st.sections[order[i]].features :
                            f.name = name}
           section == order[Min(holding)]
           found == CHOOSE f \in st.sections[section].features : f.name = name
<1>1. Find(st, order, name) = IF holding = {} THEN None ELSE <<section, found>>
  BY DEF Find
<1>2. holding # {}
  BY <1>1
<1>3. PICK n \in Nat : DOMAIN order = 1..n /\ \A i \in 1..n : order[i] \in Sections
  BY DEF Searched
<1>4. holding \in SUBSET (1..n)
  BY <1>3
<1>5. Min(holding) \in holding
  <2> HIDE DEF holding
  <2> QED BY <1>2, <1>4, LeastExists
<1>6. section \in Sections
  <2> HIDE DEF holding
  <2> QED BY <1>3, <1>4, <1>5
<1>7. \E f \in st.sections[section].features : f.name = name
  BY <1>5
<1>8. found \in st.sections[section].features /\ found.name = name
  <2> HIDE DEF section
  <2> QED BY <1>7
<1> HIDE DEF holding, section, found
<1> QED BY <1>1, <1>2, <1>6, <1>8 DEF Names

LEMMA OrdersAreSearched ==
  /\ Searched(SectionOrder)
  /\ Searched(Reverse(SectionOrder))
  /\ \A s \in Sections : Searched(<<s>>)
  /\ \A s, t \in Sections : Searched(<<s, t>>)
  /\ \A s \in Sections : \E i \in DOMAIN Reverse(SectionOrder) :
       Reverse(SectionOrder)[i] = s
<1>1. DOMAIN SectionOrder = 1..15 /\ Len(SectionOrder) = 15
  BY DEF SectionOrder
<1>2. \A i \in 1..15 : SectionOrder[i] \in Sections
  BY DEF SectionOrder, Sections
<1>3. /\ DOMAIN Reverse(SectionOrder) = 1..15
      /\ \A i \in 1..15 : Reverse(SectionOrder)[i] = SectionOrder[16 - i]
  <2>1. Reverse(SectionOrder) = [i \in 1..15 |-> SectionOrder[(15 - i) + 1]]
    BY <1>1 DEF Reverse
  <2>2. \A i \in 1..15 : (15 - i) + 1 = 16 - i
    OBVIOUS
  <2> QED BY <2>1, <2>2
<1>4. Searched(SectionOrder)
  BY <1>1, <1>2 DEF Searched
<1>5. Searched(Reverse(SectionOrder))
  <2>1. \A i \in 1..15 : 16 - i \in 1..15
    OBVIOUS
  <2> QED BY <2>1, <1>2, <1>3 DEF Searched
<1>6. \A s \in Sections : Searched(<<s>>)
  BY DEF Searched
<1>7. \A s, t \in Sections : Searched(<<s, t>>)
  <2> TAKE s, t \in Sections
  <2>1. DOMAIN <<s, t>> = 1..2 /\ \A i \in 1..2 : <<s, t>>[i] \in Sections
    OBVIOUS
  <2> QED BY <2>1 DEF Searched
<1>8. \A s \in Sections : \E i \in 1..15 : SectionOrder[i] = s
  <2> TAKE s \in Sections
  <2> USE DEF SectionOrder
  <2>1. CASE s = "identity" BY <2>1, 1 \in 1..15
  <2>2. CASE s = "macro" BY <2>2, 2 \in 1..15
  <2>3. CASE s = "sector" BY <2>3, 3 \in 1..15
  <2>4. CASE s = "industry_chain" BY <2>4, 4 \in 1..15
  <2>5. CASE s = "fundamental" BY <2>5, 5 \in 1..15
  <2>6. CASE s = "valuation" BY <2>6, 6 \in 1..15
  <2>7. CASE s = "technical" BY <2>7, 7 \in 1..15
  <2>8. CASE s = "sentiment" BY <2>8, 8 \in 1..15
  <2>9. CASE s = "event" BY <2>9, 9 \in 1..15
  <2>10. CASE s = "market_context" BY <2>10, 10 \in 1..15
  <2>11. CASE s = "debate" BY <2>11, 11 \in 1..15
  <2>12. CASE s = "risk" BY <2>12, 12 \in 1..15
  <2>13. CASE s = "thesis" BY <2>13, 13 \in 1..15
  <2>14. CASE s = "data_quality" BY <2>14, 14 \in 1..15
  <2>15. CASE s = "memory_context" BY <2>15, 15 \in 1..15
  <2> QED BY <2>1, <2>2, <2>3, <2>4, <2>5, <2>6, <2>7, <2>8, <2>9, <2>10,
             <2>11, <2>12, <2>13, <2>14, <2>15 DEF Sections
<1>9. \A s \in Sections : \E i \in DOMAIN Reverse(SectionOrder) :
        Reverse(SectionOrder)[i] = s
  <2> TAKE s \in Sections
  <2>1. PICK i \in 1..15 : SectionOrder[i] = s
    BY <1>8
  <2>2. 16 - i \in 1..15 /\ 16 - (16 - i) = i
    OBVIOUS
  <2> QED BY <2>1, <2>2, <1>3
<1> QED BY <1>4, <1>5, <1>6, <1>7, <1>9

-------------------------------------------------------------------------------
(* The states of the asset and their predecessors                            *)

\* The state of a key, under the key that stands for its content.
IdOf(k) == CHOOSE j \in Keys : Snapshot(Frozen[j]).id = Snapshot(Frozen[k]).id
StateAt(k) == [Snapshot(Frozen[k]) EXCEPT !.id = IdOf(k)]

AllStates == {StateOf(k) : k \in Keys}

LEMMA LookupFinds ==
  ASSUME NEW table, NEW x \in table, \A y \in table : y[1] = x[1] => y = x
  PROVE  Lookup(table, x[1]) = x[2]
<1> DEFINE entry == CHOOSE y \in table : y[1] = x[1]
<1>1. entry \in table /\ entry[1] = x[1]
  OBVIOUS
<1>2. entry = x
  <2> HIDE DEF entry
  <2> QED BY <1>1
<1> HIDE DEF entry
<1>3. Lookup(table, x[1]) = entry[2]
  BY DEF Lookup, entry
<1> QED BY <1>2, <1>3

LEMMA StatesAreTabulated ==
  /\ \A k \in Keys : StateOf(k) = StateAt(k)
  /\ \A x \in States : x[1] \in Keys /\ x[2] = StateOf(x[1])
  /\ \A k \in Keys : <<k, StateOf(k)>> \in States
<1> DEFINE snapshots == {<<k, Snapshot(Frozen[k])>> : k \in Keys}
           inputs == {<<k, Frozen[k]>> : k \in Keys}
           given == {<<i[1], Snapshot(i[2])>> : i \in inputs}
           FirstWith(id) == CHOOSE k \in Keys : Lookup(snapshots, k).id = id
<1>1. given = snapshots
  <2>1. \A i \in inputs : i[1] \in Keys /\ i[2] = Frozen[i[1]]
    OBVIOUS
  <2>2. \A k \in Keys : <<k, Frozen[k]>> \in inputs
    OBVIOUS
  <2>3. ASSUME NEW y \in given
        PROVE  y \in snapshots
    <3> HIDE DEF inputs
    <3>1. PICK i \in inputs : y = <<i[1], Snapshot(i[2])>>
      OBVIOUS
    <3> QED BY <2>1, <3>1
  <2>4. ASSUME NEW k \in Keys
        PROVE  <<k, Snapshot(Frozen[k])>> \in given
    <3> DEFINE i == <<k, Frozen[k]>>
    <3>1. i \in inputs /\ i[1] = k /\ i[2] = Frozen[k]
      BY <2>2
    <3>2. <<i[1], Snapshot(i[2])>> \in given
      <4> HIDE DEF i, inputs
      <4> QED BY <3>1
    <3> HIDE DEF i, given
    <3> QED BY <3>1, <3>2
  <2> HIDE DEF given
  <2> QED BY <2>3, <2>4
<1>2. \A k \in Keys : Lookup(snapshots, k) = Snapshot(Frozen[k])
  <2> TAKE k \in Keys
  <2> DEFINE x == <<k, Snapshot(Frozen[k])>>
  <2>1. x \in snapshots
    OBVIOUS
  <2>2. \A y \in snapshots : y[1] = x[1] => y = x
    OBVIOUS
  <2>3. x[1] = k /\ x[2] = Snapshot(Frozen[k])
    OBVIOUS
  <2>4. Lookup(snapshots, x[1]) = x[2]
    <3> HIDE DEF x, snapshots
    <3> QED BY <2>1, <2>2, LookupFinds
  <2> QED BY <2>3, <2>4
<1>3. \A id : FirstWith(id) = CHOOSE j \in Keys : Snapshot(Frozen[j]).id = id
  <2> TAKE id
  <2>1. \A j \in Keys : Lookup(snapshots, j).id = id <=> Snapshot(Frozen[j]).id = id
    BY <1>2
  <2> HIDE DEF snapshots
  <2> QED BY <2>1
<1>4. States = {<<s[1], [s[2] EXCEPT !.id = FirstWith(s[2].id)]>> : s \in snapshots}
  BY <1>1 DEF States
<1>5. States = {<<k, StateAt(k)>> : k \in Keys}
  <2>1. \A k \in Keys : FirstWith(Snapshot(Frozen[k]).id) = IdOf(k)
    BY <1>3 DEF IdOf
  <2> HIDE DEF FirstWith
  <2>2. ASSUME NEW x \in States
        PROVE  x \in {<<k, StateAt(k)>> : k \in Keys}
    <3>1. PICK s \in snapshots : x = <<s[1], [s[2] EXCEPT !.id = FirstWith(s[2].id)]>>
      BY <1>4
    <3>2. PICK k \in Keys : s = <<k, Snapshot(Frozen[k])>>
      OBVIOUS
    <3>3. s[1] = k /\ s[2] = Snapshot(Frozen[k])
      BY <3>2
    <3>4. x = <<k, [Snapshot(Frozen[k]) EXCEPT !.id = FirstWith(Snapshot(Frozen[k]).id)]>>
      BY <3>1, <3>3
    <3> QED BY <3>4, <2>1 DEF StateAt
  <2>3. ASSUME NEW k \in Keys
        PROVE  <<k, StateAt(k)>> \in States
    <3> DEFINE s == <<k, Snapshot(Frozen[k])>>
    <3>1. s \in snapshots /\ s[1] = k /\ s[2] = Snapshot(Frozen[k])
      OBVIOUS
    <3>2. <<s[1], [s[2] EXCEPT !.id = FirstWith(s[2].id)]>> \in States
      <4> HIDE DEF s, snapshots
      <4> QED BY <1>4, <3>1
    <3>3. <<k, [Snapshot(Frozen[k]) EXCEPT !.id = FirstWith(Snapshot(Frozen[k]).id)]>>
            \in States
      <4> HIDE DEF s
      <4> QED BY <3>1, <3>2
    <3> QED BY <3>3, <2>1 DEF StateAt
  <2> QED BY <2>2, <2>3
<1>6. \A k \in Keys : StateOf(k) = StateAt(k)
  <2> TAKE k \in Keys
  <2> DEFINE x == <<k, StateAt(k)>>
  <2>1. /\ x \in States /\ x[1] = k /\ x[2] = StateAt(k)
        /\ \A y \in States : y[1] = x[1] => y = x
    BY <1>5
  <2> HIDE DEF x
  <2>2. Lookup(States, x[1]) = x[2]
    BY <2>1, LookupFinds
  <2> QED BY <2>1, <2>2 DEF StateOf
<1> QED BY <1>5, <1>6

\* What the theorems need to know of a state.
LEMMA StateIsItsInput ==
  ASSUME NEW k \in Keys
  PROVE  /\ StateOf(k).id = IdOf(k)
         /\ StateOf(k).asset = Frozen[k].bundle.asset
         /\ StateOf(k).asOf = Frozen[k].bundle.asOf
         /\ StateOf(k).run = Frozen[k].run
         /\ StateOf(k).sections = Snapshot(Frozen[k]).sections
         /\ IdOf(k) \in Keys
         /\ StateId(Frozen[IdOf(k)]) = StateId(Frozen[k])
<1> DEFINE s == Snapshot(Frozen[k])
<1>1. /\ s.id = StateId(Frozen[k]) /\ s.asset = Frozen[k].bundle.asset
      /\ s.asOf = Frozen[k].bundle.asOf /\ s.run = Frozen[k].run
      /\ {"id", "asset", "asOf", "run", "sections"} \subseteq DOMAIN s
  BY DEF Snapshot
<1>2. StateOf(k) = [s EXCEPT !.id = IdOf(k)]
  BY StatesAreTabulated DEF StateAt
<1>3. IdOf(k) \in Keys /\ Snapshot(Frozen[IdOf(k)]).id = s.id
  BY DEF IdOf
<1>4. Snapshot(Frozen[IdOf(k)]).id = StateId(Frozen[IdOf(k)])
  BY DEF Snapshot
<1> HIDE DEF s
<1>5. /\ StateOf(k).id = IdOf(k) /\ StateOf(k).asset = s.asset
      /\ StateOf(k).asOf = s.asOf /\ StateOf(k).run = s.run
      /\ StateOf(k).sections = s.sections
  BY <1>1, <1>2
<1>6. s.sections = Snapshot(Frozen[k]).sections
  BY DEF s
<1> QED BY <1>1, <1>3, <1>4, <1>5, <1>6

\* An id determines its state.
LEMMA StatesAreTheirIds ==
  ASSUME NEW s \in AllStates, NEW t \in AllStates, s.id = t.id
  PROVE  s = t
<1>1. PICK k \in Keys : s = StateOf(k)
  BY DEF AllStates
<1>2. PICK l \in Keys : t = StateOf(l)
  BY DEF AllStates
<1>3. IdOf(k) = IdOf(l)
  BY <1>1, <1>2, StateIsItsInput
<1>4. StateId(Frozen[k]) = StateId(Frozen[l])
  BY <1>3, StateIsItsInput
<1>5. Snapshot(Frozen[k]) = Snapshot(Frozen[l])
  BY <1>4, HandoffAssumption
<1>6. StateAt(k) = StateAt(l)
  BY <1>3, <1>5 DEF StateAt
<1> QED BY <1>1, <1>2, <1>6, StatesAreTabulated

\* The episode of a key is its own, on the state of the key.
LEMMA EpisodesAreTabulated ==
  ASSUME NEW k \in Keys
  PROVE  /\ EpisodeFor(k).id = <<"episode", k>>
         /\ EpisodeFor(k).stateId = StateOf(k).id
<1> DEFINE Row(s) == <<s[1], EpisodeOn(s[1], s[2])>>
           x == <<k, StateOf(k)>>
<1>1. Episodes = {Row(s) : s \in States}
  BY DEF Episodes
<1>2. x \in States /\ x[1] = k /\ x[2] = StateOf(k)
  BY StatesAreTabulated
<1>3. \A s \in States : s[1] = k => s = x
  <2> TAKE s \in States
  <2>1. s[1] \in Keys /\ s[2] = StateOf(s[1])
    BY StatesAreTabulated
  <2>2. \E u, v : s = <<u, v>>
    BY DEF States
  <2> QED BY <2>1, <2>2
<1>4. Row(x)[1] = x[1] /\ \A s : Row(s)[1] = s[1]
  OBVIOUS
<1>5. Row(x)[2].id = <<"episode", x[1]>> /\ Row(x)[2].stateId = x[2].id
  BY DEF EpisodeOn
<1> HIDE DEF Row, x
<1>6. Row(x) \in Episodes /\ \A y \in Episodes : y[1] = Row(x)[1] => y = Row(x)
  BY <1>1, <1>2, <1>3, <1>4
<1>7. Lookup(Episodes, Row(x)[1]) = Row(x)[2]
  BY <1>6, LookupFinds
<1> QED BY <1>2, <1>4, <1>5, <1>7 DEF EpisodeFor

LEMMA CallsAreTabulated ==
  /\ \A call \in SelectionCalls :
       SelectionOf(call) =
         BuildSelection(SelectionInput(call),
                        IF call.all THEN Families ELSE SelectionFamilies)
  /\ \A call \in TimingCalls :
       /\ TransitionOf(call) = BuildTransition(TimingInput(call))
       /\ TimingOf(call) = BuildTiming(TimingInput(call), TransitionOf(call))
<1>1. ASSUME NEW call \in SelectionCalls
      PROVE  SelectionOf(call) =
               BuildSelection(SelectionInput(call),
                              IF call.all THEN Families ELSE SelectionFamilies)
  <2> DEFINE Row(i) == <<i[1], BuildSelection(i[2], IF i[1].all THEN Families
                                                    ELSE SelectionFamilies)>>
             in == <<call, SelectionInput(call)>>
  <2>1. \A i \in SelectionInputs : i[1] = call => i = in
    BY DEF SelectionInputs
  <2>2. in \in SelectionInputs
    BY DEF SelectionInputs
  <2>3. Selections = {Row(i) : i \in SelectionInputs}
    BY DEF Selections
  <2>4. Row(in)[1] = call /\ \A i : Row(i)[1] = i[1]
    OBVIOUS
  <2>5. Lookup(Selections, Row(in)[1]) = Row(in)[2]
    <3> HIDE DEF Row, in
    <3>1. Row(in) \in Selections
      BY <2>2, <2>3
    <3>2. \A y \in Selections : y[1] = Row(in)[1] => y = Row(in)
      BY <2>1, <2>3, <2>4
    <3> QED BY <3>1, <3>2, LookupFinds
  <2> QED BY <2>4, <2>5 DEF SelectionOf
<1>2. ASSUME NEW call \in TimingCalls
      PROVE  TransitionOf(call) = BuildTransition(TimingInput(call))
  <2> DEFINE Row(i) == <<i[1], BuildTransition(i[2])>>
             in == <<call, TimingInput(call)>>
  <2>1. \A i \in TimingInputs : i[1] = call => i = in
    BY DEF TimingInputs
  <2>2. in \in TimingInputs
    BY DEF TimingInputs
  <2>3. Transitions = {Row(i) : i \in TimingInputs}
    BY DEF Transitions
  <2>4. Row(in)[1] = call /\ \A i : Row(i)[1] = i[1]
    OBVIOUS
  <2>5. Lookup(Transitions, Row(in)[1]) = Row(in)[2]
    <3> HIDE DEF Row, in
    <3>1. Row(in) \in Transitions
      BY <2>2, <2>3
    <3>2. \A y \in Transitions : y[1] = Row(in)[1] => y = Row(in)
      BY <2>1, <2>3, <2>4
    <3> QED BY <3>1, <3>2, LookupFinds
  <2> QED BY <2>4, <2>5 DEF TransitionOf
<1>3. ASSUME NEW call \in TimingCalls
      PROVE  TimingOf(call) = BuildTiming(TimingInput(call), TransitionOf(call))
  <2> DEFINE Both(i) == <<i[1], i[2], TransitionOf(i[1])>>
             both == {Both(i) : i \in TimingInputs}
             Row(b) == <<b[1], BuildTiming(b[2], b[3])>>
             in == <<call, TimingInput(call)>>
             full == Both(in)
  <2>1. \A i \in TimingInputs : i[1] = call => i = in
    BY DEF TimingInputs
  <2>2. in \in TimingInputs
    BY DEF TimingInputs
  <2>3. Timings = {Row(b) : b \in both}
    BY DEF Timings
  <2>4. \A i : Both(i)[1] = i[1]
    OBVIOUS
  <2>5. full \in both /\ \A b \in both : b[1] = call => b = full
    <3>1. full \in both
      BY <2>2
    <3>2. ASSUME NEW b \in both, b[1] = call
          PROVE  b = full
      <4>1. PICK i \in TimingInputs : b = Both(i)
        OBVIOUS
      <4>2. i[1] = call
        BY <3>2, <4>1, <2>4
      <4> HIDE DEF in
      <4> QED BY <4>1, <4>2, <2>1
    <3> QED BY <3>1, <3>2
  <2>6. full[1] = call /\ full[2] = TimingInput(call) /\ full[3] = TransitionOf(call)
    OBVIOUS
  <2>7. \A b : Row(b)[1] = b[1]
    OBVIOUS
  <2>8. Lookup(Timings, Row(full)[1]) = Row(full)[2]
    <3> HIDE DEF Row, full, both
    <3>1. Row(full) \in Timings
      BY <2>3, <2>5
    <3>2. \A y \in Timings : y[1] = Row(full)[1] => y = Row(full)
      BY <2>3, <2>5, <2>6, <2>7
    <3> QED BY <3>1, <3>2, LookupFinds
  <2>9. Row(full)[2] = BuildTiming(full[2], full[3])
    OBVIOUS
  <2> HIDE DEF Row, full
  <2> QED BY <2>6, <2>7, <2>8, <2>9 DEF TimingOf
<1> QED BY <1>1, <1>2, <1>3

LEMMA InputsAreStates ==
  ASSUME NEW call \in TimingCalls
  PROVE  /\ TimingInput(call).current \in AllStates
         /\ TimingInput(call).history \subseteq AllStates
         /\ IsFiniteSet(TimingInput(call).history)
         /\ TimingInput(call).current = StateOf(call.key)
         /\ TimingInput(call).events = call.events
         /\ TimingInput(call).memories = Memories
<1>1. call.key \in Keys /\ call.history \subseteq Keys /\ IsFiniteSet(call.history)
  BY HandoffAssumption
<1>2. TimingInput(call).history = {StateOf(k) : k \in call.history}
  BY DEF TimingInput
<1>3. IsFiniteSet({StateOf(k) : k \in call.history})
  <2> DEFINE T == {StateOf(k) : k \in call.history}
             f == [k \in call.history |-> StateOf(k)]
  <2>1. f \in Surjection(call.history, T)
    BY DEF Surjection
  <2> HIDE DEF f, T
  <2>2. IsFiniteSet(T)
    BY <2>1, <1>1, FS_Surjection
  <2> QED BY <2>2 DEF T
<1> QED BY <1>1, <1>2, <1>3 DEF TimingInput, AllStates

-------------------------------------------------------------------------------
\* Of two states the one with the later cutoff, then with the greater id, is later.
OrderOf(S) == {x \in S \X S : Later(x[2], x[1])}

LEMMA StatesAreOrdered ==
  ASSUME NEW S \in SUBSET AllStates
  PROVE  LinearlyOrders(OrderOf(S), S)
<1>1. \A s, t \in S : <<s, t>> \in OrderOf(S) <=> Later(t, s)
  BY DEF OrderOf
<1>2. \A s \in S : s.asOf \in Int /\ Rank[s.run] \in Int
  BY StateIsItsInput, HandoffAssumption DEF AllStates
<1>3. ASSUME NEW s \in S, NEW t \in S, s # t
      PROVE  Rank[s.run] # Rank[t.run]
  <2>1. PICK k \in Keys : s = StateOf(k)
    BY DEF AllStates
  <2>2. PICK l \in Keys : t = StateOf(l)
    BY DEF AllStates
  <2> QED BY <1>3, <2>1, <2>2, StateIsItsInput, HandoffAssumption
<1>4. \A s \in S : <<s, s>> \notin OrderOf(S)
  BY <1>1, <1>2 DEF Later
<1>5. \A s, t, u \in S : <<s, t>> \in OrderOf(S) /\ <<t, u>> \in OrderOf(S)
                           => <<s, u>> \in OrderOf(S)
  BY <1>1, <1>2 DEF Later
<1>6. \A s, t \in S : s = t \/ <<s, t>> \in OrderOf(S) \/ <<t, s>> \in OrderOf(S)
  <2> SUFFICES ASSUME NEW s \in S, NEW t \in S, s # t
               PROVE  Later(t, s) \/ Later(s, t)
    BY <1>1
  <2>1. s.asOf \in Int /\ t.asOf \in Int
    BY <1>2
  <2>2. Rank[s.run] \in Int /\ Rank[t.run] \in Int
    BY <1>2
  <2>3. Rank[s.run] # Rank[t.run]
    BY <1>3
  <2> QED BY <2>1, <2>2, <2>3 DEF Later
<1> QED BY <1>4, <1>5, <1>6 DEF LinearlyOrders

\* The predecessor is one of the states at hand, and before the cutoff.
LEMMA PredecessorIsPeer ==
  ASSUME NEW in, in.current \in AllStates, in.history \subseteq AllStates,
         IsFiniteSet(in.history), Peers(in) # {}
  PROVE  SelectPredecessor(in) \in Peers(in)
<1> DEFINE S == Peers(in)
           n == Cardinality(S)
<1>1. S \in SUBSET in.history /\ S \in SUBSET AllStates
  BY DEF Peers
<1>2. IsFiniteSet(S)
  BY <1>1, FS_Subset
<1>3. n \in Nat /\ n # 0
  BY <1>2, FS_CardinalityType, FS_EmptySet
<1>4. LinearlyOrders(OrderOf(S), S)
  BY <1>1, StatesAreOrdered
<1>5. n \in 1..Cardinality(S)
  BY <1>3
<1>6. PICK s \in S : Cardinality(Below(S, OrderOf(S), s)) = n - 1
  <2> HIDE DEF S, n
  <2> QED BY <1>2, <1>4, <1>5, RanksAreTaken
<1>7. \A t \in S : s = t \/ Later(s, t)
  <2> TAKE t \in S
  <2>1. SUFFICES ASSUME s # t, ~Later(s, t) PROVE FALSE
    OBVIOUS
  <2>2. <<s, t>> \in OrderOf(S)
    BY <1>4, <2>1 DEF LinearlyOrders, OrderOf
  <2>3. /\ Cardinality(Below(S, OrderOf(S), t)) \in 0..(n - 1)
        /\ n - 1 < Cardinality(Below(S, OrderOf(S), t))
    <3> HIDE DEF S
    <3> QED BY <1>2, <1>4, <1>6, <2>2, RanksClimb
  <2> HIDE DEF n
  <2> QED BY <2>3, <1>3
<1> QED BY <1>7 DEF SelectPredecessor

LEMMA ComparisonParts ==
  ASSUME NEW in, NEW p, NEW c, NEW t, t = WithId(Comparison(in, p, c))
  PROVE  /\ t.asset = c.asset /\ t.previous = p.id /\ t.current = c.id
         /\ t.previousAsOf = p.asOf /\ t.currentAsOf = c.asOf
         /\ t.expectation = ExpectationChanges(p, c)
         /\ t.risk = RiskChanges(p, c)
         /\ t.catalyst = CatalystChanges(p, c)
         /\ t.evidence = EvidenceChanges(p, c)
         /\ t.artifacts = {<<"state", p.id>>, <<"state", c.id>>}
                            \union UsedMemories(in)
<1> DEFINE r == Comparison(in, p, c)
<1>1. /\ r.asset = c.asset /\ r.previous = p.id /\ r.current = c.id
      /\ r.previousAsOf = p.asOf /\ r.currentAsOf = c.asOf
      /\ r.expectation = ExpectationChanges(p, c)
      /\ r.risk = RiskChanges(p, c)
      /\ r.catalyst = CatalystChanges(p, c)
      /\ r.evidence = EvidenceChanges(p, c)
      /\ r.artifacts = {<<"state", p.id>>, <<"state", c.id>>}
                         \union UsedMemories(in)
  BY DEF Comparison
<1>2. {"id", "asset", "previous", "current", "previousAsOf", "currentAsOf",
       "expectation", "risk", "catalyst", "evidence", "artifacts"}
        \subseteq DOMAIN r
  BY DEF Comparison
<1>3. t = [r EXCEPT !.id = TransitionId(r)]
  BY DEF WithId
<1> HIDE DEF r
<1>4. \A f \in DOMAIN r : f # "id" => t[f] = r[f]
  BY <1>3
<1> QED BY <1>1, <1>2, <1>4

\* The features and the changes that a transition between two states cites.
LogicOf(p, c) == {x[2] : x \in {FindAny(p, Logic), FindAny(c, Logic)} \ {None}}
ChangesOf(p, c) ==
  ExpectationChanges(p, c) \union RiskChanges(p, c)
    \union CatalystChanges(p, c) \union EvidenceChanges(p, c)

LEMMA ComparisonSources ==
  ASSUME NEW in, NEW p, NEW c, NEW t, t = WithId(Comparison(in, p, c))
  PROVE  /\ t.claims = (UNION {f.claims : f \in LogicOf(p, c)})
                         \union UNION {x.claims : x \in ChangesOf(p, c)}
         /\ t.sources = (UNION {f.evidence : f \in LogicOf(p, c)})
                          \union UNION {x.evidence : x \in ChangesOf(p, c)}
<1> DEFINE r == Comparison(in, p, c)
<1>1. /\ r.claims = (UNION {f.claims : f \in LogicOf(p, c)})
                      \union UNION {x.claims : x \in ChangesOf(p, c)}
      /\ r.sources = (UNION {f.evidence : f \in LogicOf(p, c)})
                       \union UNION {x.evidence : x \in ChangesOf(p, c)}
  BY DEF Comparison, LogicOf, ChangesOf
<1>2. {"id", "claims", "sources"} \subseteq DOMAIN r
  BY DEF Comparison
<1>3. t = [r EXCEPT !.id = TransitionId(r)]
  BY DEF WithId
<1> HIDE DEF r
<1>4. t.claims = r.claims /\ t.sources = r.sources
  BY <1>2, <1>3
<1> QED BY <1>1, <1>4

\* What a transition that was built compares.
LEMMA TransitionCompares ==
  ASSUME NEW call \in TimingCalls, TransitionOf(call) # None
  PROVE  LET in == TimingInput(call)
             p == SelectPredecessor(in)
         IN /\ TransitionOf(call) = WithId(Comparison(in, p, in.current))
            /\ p \in Peers(in) /\ p \in AllStates
            /\ p.asset = in.current.asset /\ p.asOf < in.current.asOf
<1> DEFINE in == TimingInput(call)
           p == SelectPredecessor(in)
<1>1. TransitionOf(call) = BuildTransition(in)
  BY CallsAreTabulated
<1>2. ~HistoryRejected(in) /\ TransitionOf(call) = Transition(in)
  BY <1>1 DEF BuildTransition
<1>3. Peers(in) # {} /\ TransitionOf(call) = WithId(Comparison(in, p, in.current))
  BY <1>2 DEF Transition
<1>4. /\ in.current \in AllStates /\ in.history \subseteq AllStates
      /\ IsFiniteSet(in.history)
  BY InputsAreStates
<1>5. p \in Peers(in)
  <2> HIDE DEF in
  <2> QED BY <1>3, <1>4, PredecessorIsPeer
<1>6. /\ p \in AllStates /\ p.asset = in.current.asset
      /\ ~(p.asOf >= in.current.asOf)
  <2> HIDE DEF in, p
  <2> QED BY <1>2, <1>4, <1>5 DEF Peers, HistoryRejected
<1>7. \A s \in AllStates : s.asOf \in Int
  BY StateIsItsInput, HandoffAssumption DEF AllStates
<1>8. p.asOf < in.current.asOf
  <2> HIDE DEF in, p
  <2> QED BY <1>4, <1>6, <1>7
<1> QED BY <1>3, <1>5, <1>6, <1>8

\* A feature that the last section holds under a name the state has.
LEMMA LastIsHeld ==
  ASSUME NEW st, NEW namespace, NEW n \in NamesIn(st, Sections, namespace)
  PROVE  Names(FindLast(st, n), st, n)
<1>1. PICK s \in Sections : \E f \in st.sections[s].features : f.name = n
  <2>1. PICK y \in In(st, Sections) : n = y[2].name
    BY DEF NamesIn
  <2>2. PICK s \in Sections : \E f \in st.sections[s].features : y = <<s, f>>
    BY <2>1 DEF In
  <2> QED BY <2>1, <2>2
<1>2. \E i \in DOMAIN Reverse(SectionOrder) :
        \E f1 \in st.sections[Reverse(SectionOrder)[i]].features : f1.name = n
  BY <1>1, OrdersAreSearched
<1> QED BY <1>2, OrdersAreSearched, FoundIsHeld DEF FindLast

-------------------------------------------------------------------------------
(* The series of a timing call                                               *)

\* The states of a call whose timing was built, in the order of their cutoffs; the
\* state itself is the last.
LEMMA SeriesIsOrdered ==
  ASSUME NEW call \in TimingCalls, ~HistoryRejected(TimingInput(call))
  PROVE  LET in == TimingInput(call)
             N == Cardinality(Peers(in) \union {in.current})
             s == Ordered(in)
         IN /\ N \in Nat /\ N >= 1 /\ DOMAIN s = 1..N
            /\ \A i \in 1..N : s[i] \in Peers(in) \union {in.current}
            /\ \A i \in 1..N : s[i].asOf \in Int
            /\ \A i, j \in 1..N : i < j => s[i].asOf <= s[j].asOf
            /\ N >= 2 => s[N - 1].asOf < s[N].asOf
<1> DEFINE in == TimingInput(call)
           S == Peers(in) \union {in.current}
           R == OrderOf(S)
           N == Cardinality(S)
           s == Ordered(in)
<1>1. /\ S \in SUBSET AllStates /\ IsFiniteSet(S) /\ in.current \in S
      /\ Peers(in) \in SUBSET in.history
  <2>1. Peers(in) \in SUBSET in.history
    BY DEF Peers
  <2>2. /\ in.current \in AllStates /\ in.history \subseteq AllStates
        /\ IsFiniteSet(in.history)
    BY InputsAreStates
  <2>3. IsFiniteSet(Peers(in))
    BY <2>1, <2>2, FS_Subset
  <2> HIDE DEF in
  <2>4. IsFiniteSet(S)
    BY <2>3, FS_AddElement
  <2> QED BY <2>1, <2>2, <2>4
<1>2. LinearlyOrders(R, S)
  BY <1>1, StatesAreOrdered
<1>3. N \in Nat /\ N >= 1
  <2> HIDE DEF S
  <2>1. N \in Nat /\ N # 0
    BY <1>1, FS_CardinalityType, FS_EmptySet
  <2> QED BY <2>1
<1>4. s = [n \in 1..N |-> CHOOSE x \in S :
                            Cardinality({t \in S : Later(x, t)}) = n - 1]
  BY DEF Ordered
<1>5. \A x \in S : {t \in S : Later(x, t)} = Below(S, R, x)
  BY DEF Below, OrderOf
<1> HIDE DEF in, S, R, N, s
<1>6. DOMAIN s = 1..N /\ \A n \in 1..N :
        s[n] \in S /\ Cardinality(Below(S, R, s[n])) = n - 1
  <2>1. DOMAIN s = 1..N
    BY <1>4
  <2>2. ASSUME NEW n \in 1..N
        PROVE  s[n] \in S /\ Cardinality(Below(S, R, s[n])) = n - 1
    <3>1. \E x \in S : Cardinality(Below(S, R, x)) = n - 1
      BY <1>1, <1>2, RanksAreTaken DEF N
    <3>2. \E x \in S : Cardinality({t \in S : Later(x, t)}) = n - 1
      BY <3>1, <1>5
    <3>3. s[n] = CHOOSE x \in S : Cardinality({t \in S : Later(x, t)}) = n - 1
      BY <1>4
    <3>4. s[n] \in S /\ Cardinality({t \in S : Later(s[n], t)}) = n - 1
      BY <3>2, <3>3
    <3> QED BY <3>4, <1>5
  <2> QED BY <2>1, <2>2
<1>7. \A x \in S : x.asOf \in Int /\ Rank[x.run] \in Int
  BY <1>1, StateIsItsInput, HandoffAssumption DEF AllStates
<1>8. \A i, j \in 1..N : i < j => s[i].asOf <= s[j].asOf
  <2> SUFFICES ASSUME NEW i \in 1..N, NEW j \in 1..N, i < j
               PROVE  s[i].asOf <= s[j].asOf
    OBVIOUS
  <2>1. s[i] \in S /\ s[j] \in S
    BY <1>6
  <2>2. s[i] # s[j]
    BY <1>6, <1>3
  <2>3. <<s[j], s[i]>> \notin R
    <3>1. ~(Cardinality(Below(S, R, s[j])) < Cardinality(Below(S, R, s[i])))
      BY <1>6, <1>3
    <3> QED BY <3>1, <2>1, <1>1, <1>2, RanksClimb
  <2>4. <<s[i], s[j]>> \in R
    BY <2>1, <2>2, <2>3, <1>2 DEF LinearlyOrders
  <2>5. Later(s[j], s[i])
    BY <2>4 DEF R, OrderOf
  <2>6. s[i].asOf \in Int /\ s[j].asOf \in Int
    BY <2>1, <1>7
  <2> QED BY <2>5, <2>6 DEF Later
<1>9. \A x \in S : x = in.current \/ x.asOf < in.current.asOf
  <2> SUFFICES ASSUME NEW x \in S, x # in.current
               PROVE  x.asOf < in.current.asOf
    OBVIOUS
  <2>1. x \in Peers(in)
    BY DEF S
  <2>2. ~(x.asOf >= in.current.asOf)
    BY <2>1 DEF in, HistoryRejected
  <2> QED BY <2>2, <1>1, <1>7
<1>10. s[N] = in.current
  <2> SUFFICES ASSUME s[N] # in.current PROVE FALSE
    OBVIOUS
  <2>1. N \in 1..N /\ s[N] \in S
    BY <1>3, <1>6
  <2>2. Later(in.current, s[N])
    <3>1. s[N].asOf < in.current.asOf
      BY <1>9, <2>1
    <3>2. s[N].asOf \in Int /\ in.current.asOf \in Int
      BY <2>1, <1>1, <1>7
    <3> QED BY <3>1, <3>2 DEF Later
  <2>3. <<s[N], in.current>> \in R
    BY <2>1, <2>2, <1>1 DEF R, OrderOf
  <2>4. /\ Cardinality(Below(S, R, s[N])) = N - 1
        /\ Cardinality(Below(S, R, s[N])) < Cardinality(Below(S, R, in.current))
        /\ Cardinality(Below(S, R, in.current)) \in 0..(N - 1)
    BY <2>1, <2>3, <1>1, <1>2, <1>6, RanksClimb DEF N
  <2> QED BY <2>4, <1>3
<1>11. ASSUME N >= 2
       PROVE  s[N - 1].asOf < s[N].asOf
  <2>1. N - 1 \in 1..N /\ N \in 1..N /\ N - 1 - 1 # N - 1
    BY <1>3, <1>11
  <2>2. s[N - 1] # s[N]
    BY <1>6, <2>1
  <2>3. s[N - 1] \in S
    BY <1>6, <2>1
  <2> QED BY <2>2, <2>3, <1>9, <1>10
<1>12. \A i \in 1..N : s[i].asOf \in Int
  BY <1>6, <1>7
<1> QED BY <1>3, <1>6, <1>8, <1>11, <1>12 DEF in, S, N, s

\* A timing observation is made of the descriptor of its family.
LEMMA TimingIsDescribed ==
  ASSUME NEW call \in TimingCalls, TimingOf(call) # None
  PROVE  LET in == TimingInput(call)
             t == TransitionOf(call)
         IN /\ ~HistoryRejected(in) /\ ~DividesByZero(in)
            /\ TimingOf(call) =
                 {TimingObservation(in, t, f, TimingDescriptor(in, t, f)) :
                    f \in TimingFamilies}
<1> DEFINE in == TimingInput(call)
           t == TransitionOf(call)
           described == {<<f, TimingDescriptor(in, t, f)>> : f \in TimingFamilies}
<1>1. TimingOf(call) = BuildTiming(in, t)
  BY CallsAreTabulated
<1> HIDE DEF in, t
<1>2. /\ ~HistoryRejected(in) /\ ~DividesByZero(in)
      /\ TimingOf(call) = {TimingObservation(in, t, x[1], x[2]) : x \in described}
  BY <1>1 DEF BuildTiming
<1>3. {TimingObservation(in, t, x[1], x[2]) : x \in described} =
        {TimingObservation(in, t, f, TimingDescriptor(in, t, f)) :
           f \in TimingFamilies}
  <2>1. ASSUME NEW x \in described
        PROVE  /\ x[1] \in TimingFamilies
               /\ TimingObservation(in, t, x[1], x[2]) =
                    TimingObservation(in, t, x[1], TimingDescriptor(in, t, x[1]))
    OBVIOUS
  <2>2. ASSUME NEW f \in TimingFamilies
        PROVE  \E x \in described :
                 TimingObservation(in, t, x[1], x[2]) =
                   TimingObservation(in, t, f, TimingDescriptor(in, t, f))
    <3> DEFINE x == <<f, TimingDescriptor(in, t, f)>>
    <3>1. x \in described /\ x[1] = f /\ x[2] = TimingDescriptor(in, t, f)
      OBVIOUS
    <3> HIDE DEF x, described
    <3> QED BY <3>1
  <2> HIDE DEF described
  <2> QED BY <2>1, <2>2
<1> QED BY <1>2, <1>3 DEF in, t

LEMMA TimingObservationParts ==
  ASSUME NEW in, NEW t, NEW f, NEW d, NEW o, o = TimingObservation(in, t, f, d)
  PROVE  /\ o.family = f /\ o.coverage = d.coverage
         /\ o.components = d.components
         /\ o.state = in.current.id
         /\ o.asset = in.current.asset /\ o.asOf = in.current.asOf
         /\ o.transition = IF t = None THEN None ELSE t.id
         /\ o.claims = OfComponents(d).claims
         /\ o.evidence = OfComponents(d).evidence
         /\ o.artifacts = OfComponents(d).artifacts
                \union {<<"state", in.current.id>>} \union UsedMemories(in)
                \union (IF t = None THEN {} ELSE t.artifacts)
         /\ o.events \subseteq {e.id : e \in {NearestEvent(in), NextCatalyst(in)}}
  BY DEF TimingObservation

\* The two last rates are compared as whole numbers.
LEMMA VelocityCompares ==
  ASSUME NEW points, NEW o, o \in Velocity(points).components,
         Velocity(points).coverage = "AVAILABLE", o.name = "second_order_change"
  PROVE  LET n == Len(points)
             Value(i) == points[i].feature.value[2]
             Delta(i) == Value(i) - Value(i - 1)
             Elapsed(i) == points[i].at - points[i - 1].at
         IN o.value = <<"text", SecondOrder(Delta(n), Elapsed(n),
                                            Delta(n - 1), Elapsed(n - 1))>>
  BY DEF Velocity, Described, Component

LEMMA PointsAreOrdered ==
  ASSUME NEW call \in TimingCalls, ~HistoryRejected(TimingInput(call))
  PROVE  LET p == Points(TimingInput(call))
         IN /\ Len(p) \in Nat /\ DOMAIN p = 1..Len(p)
            /\ \A i \in 1..Len(p) : p[i].at \in Int
            /\ \A i, j \in 1..Len(p) : i < j => p[i].at <= p[j].at
            /\ Len(p) >= 2 => p[Len(p) - 1].at < p[Len(p)].at
<1> DEFINE in == TimingInput(call)
           N == Cardinality(Peers(in) \union {in.current})
           s == Ordered(in)
           p == Points(in)
<1>1. /\ N \in Nat /\ N >= 1 /\ DOMAIN s = 1..N
      /\ \A i \in 1..N : s[i].asOf \in Int
      /\ \A i, j \in 1..N : i < j => s[i].asOf <= s[j].asOf
      /\ N >= 2 => s[N - 1].asOf < s[N].asOf
  BY SeriesIsOrdered
<1>2. p = [i \in DOMAIN s |-> [at |-> s[i].asOf, feature |-> NumericFeature(s[i])]]
  BY DEF Points
<1> HIDE DEF in, N, s, p
<1>3. DOMAIN p = 1..N /\ \A i \in 1..N : p[i].at = s[i].asOf
  BY <1>1, <1>2
<1>4. Len(p) = N
  BY <1>1, <1>3
<1>5. N >= 2 => N - 1 \in 1..N /\ N \in 1..N
  BY <1>1
<1> QED BY <1>1, <1>3, <1>4, <1>5 DEF p, in

LEMMA CompleteVelocityHasThree ==
  ASSUME NEW in, NEW points, VelocityDescriptor(in, points).coverage = "AVAILABLE"
  PROVE  /\ ~(Len(points) < 2) /\ points[Len(points)].feature # None
         /\ points[Len(points) - 1].feature # None
         /\ VelocityDescriptor(in, points) = Velocity(points)
         /\ HasThird(points)
         /\ \E c \in Velocity(points).components : c.name = "second_order_change"
<1>1. /\ ~(Len(points) < 2) /\ points[Len(points)].feature # None
      /\ points[Len(points) - 1].feature # None
      /\ VelocityDescriptor(in, points) = Velocity(points)
  BY DEF VelocityDescriptor, Unavailable, Described
<1>2. HasThird(points)
  <2>1. ~HasThird(points) => Velocity(points).coverage = "PARTIAL"
    BY DEF Velocity, Described
  <2> QED BY <1>1, <2>1
<1>3. \E c \in Velocity(points).components : c.name = "second_order_change"
  <2> DEFINE n == Len(points)
             Delta(i) == points[i].feature.value[2] - points[i - 1].feature.value[2]
             Elapsed(i) == points[i].at - points[i - 1].at
             order == SecondOrder(Delta(n), Elapsed(n), Delta(n - 1), Elapsed(n - 1))
             c == Component("second_order_change", <<"text", order>>,
                            {<<"thesis", ValueName>>},
                            {points[n - 1].feature, points[n].feature}
                              \union {points[n - 2].feature})
  <2>1. c.name = "second_order_change"
    BY DEF Component
  <2>2. c \in Velocity(points).components
    BY <1>2 DEF Velocity, Described
  <2> HIDE DEF c
  <2> QED BY <2>1, <2>2
<1> QED BY <1>1, <1>2, <1>3

LEMMA VelocityIsOverThree ==
  ASSUME NEW call \in TimingCalls, TimingOf(call) # None,
         NEW o \in TimingOf(call), o.family = "EXPECTATION_REVISION_VELOCITY",
         o.coverage = "AVAILABLE"
  PROVE  LET p == Points(TimingInput(call))
         IN /\ ~HistoryRejected(TimingInput(call))
            /\ Len(p) \in Nat /\ Len(p) >= 3
            /\ p[Len(p) - 2].at < p[Len(p) - 1].at
            /\ p[Len(p) - 1].at < p[Len(p)].at
            /\ o.components = Velocity(p).components
            /\ Velocity(p).coverage = "AVAILABLE"
            /\ \E c \in o.components : c.name = "second_order_change"
<1> DEFINE in == TimingInput(call)
           t == TransitionOf(call)
           p == Points(in)
           n == Len(p)
<1>1. PICK f \in TimingFamilies :
        o = TimingObservation(in, t, f, TimingDescriptor(in, t, f))
  BY TimingIsDescribed
<1>2. /\ ~HistoryRejected(in) /\ ~DividesByZero(in)
  BY TimingIsDescribed
<1>3. /\ n \in Nat /\ DOMAIN p = 1..n
      /\ \A i \in 1..n : p[i].at \in Int
      /\ \A i, j \in 1..n : i < j => p[i].at <= p[j].at
      /\ n >= 2 => p[n - 1].at < p[n].at
  BY <1>2, PointsAreOrdered
<1> HIDE DEF in, t
<1>4. f = "EXPECTATION_REVISION_VELOCITY"
  BY <1>1, TimingObservationParts
<1>5. TimingDescriptor(in, t, f) = VelocityDescriptor(in, p)
  BY <1>4 DEF TimingDescriptor
<1>6. /\ o.components = VelocityDescriptor(in, p).components
      /\ VelocityDescriptor(in, p).coverage = "AVAILABLE"
  BY <1>1, <1>5, TimingObservationParts
<1> HIDE DEF p
<1>7. /\ n >= 2 /\ p[n].feature # None /\ p[n - 1].feature # None
      /\ VelocityDescriptor(in, p) = Velocity(p)
  <2>1. ~(n < 2)
    BY <1>6, CompleteVelocityHasThree
  <2> QED BY <2>1, <1>3, <1>6, CompleteVelocityHasThree
<1>8. HasThird(p)
  BY <1>6, CompleteVelocityHasThree
<1>9. n >= 3 /\ p[n - 2].feature # None
  BY <1>8 DEF HasThird
<1>10. p[n - 1].at # p[n - 2].at
  <2>1. \A i \in (n - 2)..n : i = n - 2 \/ i = n - 1 \/ i = n
    <3> HIDE DEF n
    <3> QED BY <1>3
  <2>2. \A i \in (n - 2)..n : p[i].feature # None
    <3> HIDE DEF n
    <3> QED BY <2>1, <1>7, <1>9
  <2> QED BY <2>2, <1>2, <1>9 DEF DividesByZero, p
<1>11. p[n - 2].at < p[n - 1].at
  <2>1. n - 2 \in 1..n /\ n - 1 \in 1..n /\ n - 2 < n - 1
    BY <1>3, <1>9
  <2>2. p[n - 2].at <= p[n - 1].at /\ p[n - 2].at \in Int /\ p[n - 1].at \in Int
    BY <2>1, <1>3
  <2> QED BY <2>2, <1>10
<1>12. \E c \in o.components : c.name = "second_order_change"
  BY <1>6, <1>7, CompleteVelocityHasThree
<1> QED BY <1>2, <1>3, <1>6, <1>7, <1>9, <1>11, <1>12 DEF p, in

\* The three points of a complete velocity, and what its second order says.
LEMMA VelocityHolds ==
  ASSUME NEW call \in TimingCalls, TimingOf(call) # None,
         NEW o \in TimingOf(call), o.family = "EXPECTATION_REVISION_VELOCITY",
         o.coverage = "AVAILABLE"
  PROVE  LET history == Points(TimingInput(call))
             last == SubSeq(history, Len(history) - 2, Len(history))
             v == [i \in 1..3 |-> last[i].feature.value[2]]
             days(i) == last[i].at - last[i - 1].at
             Moved(i) == Absolute(v[i] - v[i - 1])
             order == CHOOSE c \in o.components : c.name = "second_order_change"
         IN /\ last[1].at < last[2].at /\ last[2].at < last[3].at
            /\ (order.value = <<"text", "accelerating">>)
                 <=> (Moved(2) * days(3) < Moved(3) * days(2))
<1> DEFINE p == Points(TimingInput(call))
           n == Len(p)
           last == SubSeq(p, n - 2, n)
           v == [i \in 1..3 |-> last[i].feature.value[2]]
           days(i) == last[i].at - last[i - 1].at
           Moved(i) == Absolute(v[i] - v[i - 1])
           order == CHOOSE c \in o.components : c.name = "second_order_change"
           Value(i) == p[i].feature.value[2]
           Delta(i) == Value(i) - Value(i - 1)
           Elapsed(i) == p[i].at - p[i - 1].at
<1>1. /\ n \in Nat /\ n >= 3
      /\ p[n - 2].at < p[n - 1].at /\ p[n - 1].at < p[n].at
      /\ o.components = Velocity(p).components
      /\ Velocity(p).coverage = "AVAILABLE"
      /\ \E c \in o.components : c.name = "second_order_change"
      /\ DOMAIN p = 1..n
  BY VelocityIsOverThree, PointsAreOrdered
<1> HIDE DEF p
<1>2. last[1] = p[n - 2] /\ last[2] = p[n - 1] /\ last[3] = p[n]
  <2> DEFINE T == {p[i] : i \in (n - 2)..n}
  <2>1. \A i \in (n - 2)..n : p[i] \in T
    OBVIOUS
  <2>2. n - 2 \in Int /\ n \in Int
    BY <1>1
  <2> HIDE DEF T, n
  <2>3. \A i \in 1..(n - (n - 2) + 1) : SubSeq(p, n - 2, n)[i] = p[(n - 2) + i - 1]
    BY <2>1, <2>2, SubSeqProperties
  <2>4. n - (n - 2) + 1 = 3 /\ (n - 2) + 1 - 1 = n - 2 /\ (n - 2) + 2 - 1 = n - 1
        /\ (n - 2) + 3 - 1 = n
    BY <1>1
  <2>5. 1 \in 1..3 /\ 2 \in 1..3 /\ 3 \in 1..3
    OBVIOUS
  <2> HIDE DEF last
  <2> QED BY <2>3, <2>4, <2>5 DEF last
<1>3. order \in o.components /\ order.name = "second_order_change"
  BY <1>1
<1>4. order.value = <<"text", SecondOrder(Delta(n), Elapsed(n),
                                          Delta(n - 1), Elapsed(n - 1))>>
  <2> HIDE DEF order
  <2> QED BY <1>1, <1>3, VelocityCompares
<1>5. /\ Moved(2) = Absolute(Delta(n - 1)) /\ Moved(3) = Absolute(Delta(n))
      /\ days(2) = Elapsed(n - 1) /\ days(3) = Elapsed(n)
  <2>1. (n - 1) - 1 = n - 2
    BY <1>1
  <2> QED BY <1>2, <2>1
<1>6. SecondOrder(Delta(n), Elapsed(n), Delta(n - 1), Elapsed(n - 1))
        = "accelerating"
      <=> Absolute(Delta(n - 1)) * Elapsed(n) < Absolute(Delta(n)) * Elapsed(n - 1)
  BY DEF SecondOrder
<1>7. /\ last[1].at < last[2].at /\ last[2].at < last[3].at
  BY <1>1, <1>2
<1> HIDE DEF n, last, v, days, Moved, order, Value, Delta, Elapsed
<1>8. (order.value = <<"text", "accelerating">>)
        <=> (Moved(2) * days(3) < Moved(3) * days(2))
  BY <1>4, <1>5, <1>6
<1> QED BY <1>7, <1>8 DEF n, last, v, days, Moved, order, p

-------------------------------------------------------------------------------
(* Two calls about one past                                                  *)

\* What a comparison and the series of a velocity depend on, besides the state.
SelectFrom(S) == CHOOSE s \in S : \A t \in S : s = t \/ Later(s, t)
OrderedFrom(states) ==
  [n \in 1..Cardinality(states) |->
     CHOOSE s \in states : Cardinality({t \in states : Later(s, t)}) = n - 1]
PointsFrom(ordered) ==
  [i \in DOMAIN ordered |->
     [at |-> ordered[i].asOf, feature |-> NumericFeature(ordered[i])]]
UsedFrom(memories, st) ==
  {m.id : m \in {n \in memories :
     n.claims \intersect UNION {x[2].claims : x \in In(st, Sections)} # {}}}
NearestFrom(events, cutoff) ==
  LET dated == {e \in events : e.kind = "event"}
  IN IF dated = {} THEN None ELSE Nearest(dated, cutoff)
NextFrom(events, cutoff) ==
  LET ahead == {e \in events : e.kind = "catalyst" /\ e.time >= cutoff}
  IN IF ahead = {} THEN None ELSE Nearest(ahead, cutoff)

\* Two inputs that differ in their histories at most outside of the past.
Same(a, b) ==
  /\ a.current = b.current /\ Peers(a) = Peers(b)
  /\ a.episode = b.episode /\ a.events = b.events /\ a.memories = b.memories
  /\ a.available = b.available /\ a.created = b.created

\* What an input reads off its history it reads off the states of the asset in it.
LEMMA SameParts ==
  ASSUME NEW a, NEW b, Same(a, b)
  PROVE  /\ SelectPredecessor(a) = SelectPredecessor(b)
         /\ Points(a) = Points(b)
         /\ UsedMemories(a) = UsedMemories(b)
         /\ NearestEvent(a) = NearestEvent(b)
         /\ NextCatalyst(a) = NextCatalyst(b)
<1>1. \A in : SelectPredecessor(in) = SelectFrom(Peers(in))
  BY DEF SelectPredecessor, SelectFrom
<1>2. \A in : Points(in) = PointsFrom(OrderedFrom(Peers(in) \union {in.current}))
  <2> TAKE in
  <2>1. Ordered(in) = OrderedFrom(Peers(in) \union {in.current})
    BY DEF Ordered, OrderedFrom
  <2>2. Points(in) = PointsFrom(Ordered(in))
    BY DEF Points, PointsFrom
  <2> QED BY <2>1, <2>2
<1>3. \A in : UsedMemories(in) = UsedFrom(in.memories, in.current)
  BY DEF UsedMemories, UsedFrom
<1>4. \A in : NearestEvent(in) = NearestFrom(in.events, in.current.asOf)
  BY DEF NearestEvent, NearestFrom
<1>5. \A in : NextCatalyst(in) = NextFrom(in.events, in.current.asOf)
  BY DEF NextCatalyst, NextFrom
<1>6. Peers(a) \union {a.current} = Peers(b) \union {b.current}
  BY DEF Same
<1> QED BY <1>1, <1>2, <1>3, <1>4, <1>5, <1>6 DEF Same

\* So the descriptors of the two are equal, family by family,
LEMMA SameDescribed ==
  ASSUME NEW a, NEW b, Same(a, b), NEW t, NEW f \in TimingFamilies
  PROVE  TimingDescriptor(a, t, f) = TimingDescriptor(b, t, f)
<1>1. /\ a.current = b.current /\ Points(a) = Points(b)
      /\ NearestEvent(a) = NearestEvent(b) /\ NextCatalyst(a) = NextCatalyst(b)
  BY SameParts DEF Same
<1>2. /\ \A family : NoHistory(a, family) = NoHistory(b, family)
      /\ NoEvent(a) = NoEvent(b)
  BY <1>1 DEF NoHistory, NoEvent
<1>3. StateDescriptor(a, t) = StateDescriptor(b, t)
  BY DEF StateDescriptor
<1>4. \A points : VelocityDescriptor(a, points) = VelocityDescriptor(b, points)
  BY <1>1 DEF VelocityDescriptor
<1>5. ThesisDescriptor(a, t) = ThesisDescriptor(b, t)
  BY <1>2 DEF ThesisDescriptor
<1>6. RiskDescriptor(a, t) = RiskDescriptor(b, t)
  BY <1>2 DEF RiskDescriptor
<1>7. EvidenceDescriptor(a, t) = EvidenceDescriptor(b, t)
  BY <1>2 DEF EvidenceDescriptor
<1>8. \A event, position, distance :
        DatedDescriptor(a, event, position, distance)
          = DatedDescriptor(b, event, position, distance)
  BY <1>1, <1>2 DEF DatedDescriptor
<1> QED BY <1>1, <1>3, <1>4, <1>5, <1>6, <1>7, <1>8
        DEF TimingDescriptor, TimingFamilies

\* and so are the observations made of them.
LEMMA SameObserved ==
  ASSUME NEW a, NEW b, Same(a, b), NEW t, NEW f \in TimingFamilies, NEW d
  PROVE  TimingObservation(a, t, f, d) = TimingObservation(b, t, f, d)
<1>1. /\ a.current = b.current /\ a.episode = b.episode
      /\ a.available = b.available /\ a.created = b.created
      /\ UsedMemories(a) = UsedMemories(b)
      /\ NearestEvent(a) = NearestEvent(b) /\ NextCatalyst(a) = NextCatalyst(b)
  BY SameParts DEF Same
<1> QED BY <1>1 DEF TimingObservation

\* The episodes that the comparison names as those of the state compared with.
EpisodesOn(in, p) == {e.id : e \in {x \in in.episodes : x.stateId = p.id}}

\* The comparison with one state is the same when the same episodes are on it.
LEMMA SameCompared ==
  ASSUME NEW a, NEW b, Same(a, b), NEW p, EpisodesOn(a, p) = EpisodesOn(b, p)
  PROVE  WithId(Comparison(a, p, a.current)) = WithId(Comparison(b, p, b.current))
<1>1. /\ a.current = b.current /\ a.episode = b.episode
      /\ a.available = b.available /\ a.created = b.created
      /\ UsedMemories(a) = UsedMemories(b)
      /\ {e.id : e \in a.events} = {e.id : e \in b.events}
  BY SameParts DEF Same
<1>2. Comparison(a, p, a.current) = Comparison(b, p, b.current)
  BY <1>1 DEF Comparison, EpisodesOn
<1> QED BY <1>2

\* A build that was not refused has read the states of its past and no other.
LEMMA PeersArePast ==
  ASSUME NEW c \in TimingCalls, ~HistoryRejected(TimingInput(c))
  PROVE  Peers(TimingInput(c)) = {StateOf(k) : k \in Past(c)}
<1>1. /\ TimingInput(c).current = StateOf(c.key)
      /\ TimingInput(c).history = {StateOf(k) : k \in c.history}
      /\ c.key \in Keys /\ c.history \subseteq Keys
  BY HandoffAssumption DEF TimingInput
<1>2. \A k \in Keys : StateOf(k).asOf \in Int
  BY StateIsItsInput, HandoffAssumption
<1>3. \A s \in Peers(TimingInput(c)) : ~(s.asOf >= StateOf(c.key).asOf)
  BY <1>1 DEF HistoryRejected
<1>4. ASSUME NEW s \in Peers(TimingInput(c))
      PROVE  \E k \in Past(c) : s = StateOf(k)
  <2>1. PICK k \in c.history : s = StateOf(k) /\ s.asset = StateOf(c.key).asset
    BY <1>1 DEF Peers
  <2>2. StateOf(k).asOf < StateOf(c.key).asOf
    BY <1>1, <1>2, <1>3, <2>1
  <2> QED BY <2>1, <2>2 DEF Past
<1>5. ASSUME NEW k \in Past(c)
      PROVE  StateOf(k) \in Peers(TimingInput(c))
  BY <1>1 DEF Past, Peers
<1> QED BY <1>4, <1>5

\* The episodes at hand on a state of the past are those of keys of the past.
LEMMA EpisodesArePast ==
  ASSUME NEW c \in TimingCalls, NEW p, \E k \in Past(c) : p = StateOf(k)
  PROVE  EpisodesOn(TimingInput(c), p) =
           {<<"episode", k>> : k \in {j \in Past(c) : /\ StateOf(j).id = p.id
                                                     /\ Created[j] <= c.at}}
<1> DEFINE in == TimingInput(c)
           E == EpisodesOn(in, p)
           K == {j \in Past(c) : StateOf(j).id = p.id /\ Created[j] <= c.at}
<1>1. c.key \in Keys /\ c.history \subseteq Keys
  BY HandoffAssumption
<1>2. in.episodes = {EpisodeFor(k) : k \in {h \in c.history : Created[h] <= c.at}}
  BY DEF TimingInput
<1>3. PICK q \in Past(c) : p = StateOf(q)
  OBVIOUS
<1>4. Past(c) \subseteq c.history
  BY DEF Past
<1>5. ASSUME NEW k \in c.history, StateOf(k).id = p.id
      PROVE  k \in Past(c)
  <2>1. StateOf(k) = StateOf(q)
    BY <1>1, <1>3, <1>4, <1>5, StatesAreTheirIds DEF AllStates
  <2> QED BY <2>1 DEF Past
<1> HIDE DEF in
<1>6. ASSUME NEW x \in E PROVE \E k \in K : x = <<"episode", k>>
  <2>1. PICK e \in in.episodes : x = e.id /\ e.stateId = p.id
    BY DEF EpisodesOn
  <2>2. PICK k \in c.history : e = EpisodeFor(k) /\ Created[k] <= c.at
    BY <1>2, <2>1
  <2>3. e.id = <<"episode", k>> /\ e.stateId = StateOf(k).id
    BY <1>1, <2>2, EpisodesAreTabulated
  <2> QED BY <1>5, <2>1, <2>2, <2>3
<1>7. ASSUME NEW k \in K PROVE <<"episode", k>> \in E
  <2>1. k \in c.history /\ Created[k] <= c.at /\ StateOf(k).id = p.id
    BY <1>4
  <2>2. EpisodeFor(k) \in in.episodes
    BY <1>2, <2>1
  <2>3. EpisodeFor(k).id = <<"episode", k>> /\ EpisodeFor(k).stateId = p.id
    BY <1>1, <2>1, EpisodesAreTabulated
  <2> QED BY <2>2, <2>3 DEF EpisodesOn
<1> HIDE DEF E, K
<1> QED BY <1>6, <1>7 DEF E, K, in


\* Two calls that were not refused, with one question and one past.
LEMMA SamePastSameResults ==
  ASSUME NEW c \in TimingCalls, TimingOf(c) # None,
         NEW d \in TimingCalls, TransitionOf(d) # None,
         Question(c) = Question(d), Past(c) = Past(d)
  PROVE  TransitionOf(c) = TransitionOf(d) /\ TimingOf(c) = TimingOf(d)
<1> DEFINE a == TimingInput(c)
           b == TimingInput(d)
           p == SelectPredecessor(a)
           t == TransitionOf(c)
<1>1. /\ TimingOf(c) = BuildTiming(a, t) /\ TransitionOf(c) = BuildTransition(a)
      /\ TimingOf(d) = BuildTiming(b, TransitionOf(d))
      /\ TransitionOf(d) = BuildTransition(b)
  BY CallsAreTabulated
<1>2. ~TimingInputRejected(a) /\ ~ExternalRejected(a) /\ ~HistoryRejected(a)
  <2> HIDE DEF a, t
  <2> QED BY <1>1 DEF BuildTiming
<1>3. /\ ~TimingInputRejected(b) /\ ~ExternalRejected(b) /\ ~HistoryRejected(b)
      /\ TransitionOf(d) = Transition(b)
  <2> HIDE DEF b
  <2> QED BY <1>1 DEF BuildTransition
<1>4. TransitionOf(c) = Transition(a)
  <2> HIDE DEF a
  <2> QED BY <1>1, <1>2 DEF BuildTransition
<1>5. /\ c.key = d.key /\ c.episode = d.episode /\ c.events = d.events
      /\ c.at = d.at
  BY DEF Question
<1>6. /\ Peers(a) = {StateOf(k) : k \in Past(c)}
      /\ Peers(b) = {StateOf(k) : k \in Past(d)}
  BY <1>2, <1>3, PeersArePast
<1>7. Same(a, b)
  <2>1. Peers(a) = Peers(b)
    BY <1>6
  <2>2. /\ a.current = b.current /\ a.episode = b.episode
        /\ a.events = b.events /\ a.memories = b.memories
        /\ a.available = b.available /\ a.created = b.created
    BY <1>5 DEF TimingInput
  <2> QED BY <2>1, <2>2 DEF Same
<1>8. Peers(a) # {} /\ Peers(b) # {}
  <2> HIDE DEF a, b
  <2> QED BY <1>3, <1>7 DEF Transition, Same
<1>9. \E k \in Past(c) : p = StateOf(k)
  <2>1. p \in Peers(a)
    BY <1>8, InputsAreStates, PredecessorIsPeer
  <2> HIDE DEF a, p
  <2> QED BY <1>6, <2>1
<1>10. EpisodesOn(a, p) = EpisodesOn(b, p)
  <2>1. EpisodesOn(a, p) =
          {<<"episode", k>> : k \in {j \in Past(c) : StateOf(j).id = p.id
                                                  /\ Created[j] <= c.at}}
    BY <1>9, EpisodesArePast
  <2>2. EpisodesOn(b, p) =
          {<<"episode", k>> : k \in {j \in Past(d) : StateOf(j).id = p.id
                                                  /\ Created[j] <= d.at}}
    BY <1>9, EpisodesArePast
  <2> HIDE DEF a, b, p
  <2> QED BY <1>5, <2>1, <2>2
<1>11. Transition(a) = Transition(b)
  <2> HIDE DEF a, b
  <2>1. p = SelectPredecessor(b)
    BY <1>7, SameParts
  <2>2. WithId(Comparison(a, p, a.current)) = WithId(Comparison(b, p, b.current))
    BY <1>7, <1>10, SameCompared
  <2> QED BY <1>8, <2>1, <2>2 DEF Transition
<1>12. TransitionOf(d) = t
  BY <1>3, <1>4, <1>11
<1>13. BuildTiming(a, t) = BuildTiming(b, t)
  <2> HIDE DEF a, b, t
  <2>1. {<<f, TimingDescriptor(a, t, f)>> : f \in TimingFamilies}
          = {<<f, TimingDescriptor(b, t, f)>> : f \in TimingFamilies}
    <3>1. \A f \in TimingFamilies : TimingDescriptor(a, t, f) = TimingDescriptor(b, t, f)
      BY <1>7, SameDescribed
    <3> QED BY <3>1
  <2> DEFINE described == {<<f, TimingDescriptor(a, t, f)>> : f \in TimingFamilies}
  <2>2. \A x \in described :
          TimingObservation(a, t, x[1], x[2]) = TimingObservation(b, t, x[1], x[2])
    <3> TAKE x \in described
    <3>1. x[1] \in TimingFamilies
      OBVIOUS
    <3> HIDE DEF described
    <3> QED BY <1>7, <3>1, SameObserved
  <2>3. DividesByZero(a) <=> DividesByZero(b)
    BY <1>7, SameParts DEF DividesByZero
  <2>4. {TimingObservation(a, t, x[1], x[2]) : x \in described}
          = {TimingObservation(b, t, x[1], x[2]) : x \in described}
    <3> HIDE DEF described
    <3> QED BY <2>2
  <2>5. BuildTiming(a, t) =
          IF DividesByZero(a) \/ \E x \in described : ~DescriptorContract(x[2])
          THEN None ELSE {TimingObservation(a, t, x[1], x[2]) : x \in described}
    BY <1>2 DEF BuildTiming
  <2>6. BuildTiming(b, t) =
          IF DividesByZero(b) \/ \E x \in described : ~DescriptorContract(x[2])
          THEN None ELSE {TimingObservation(b, t, x[1], x[2]) : x \in described}
    BY <1>3, <2>1 DEF BuildTiming
  <2> HIDE DEF described
  <2> QED BY <2>3, <2>4, <2>5, <2>6
<1> HIDE DEF a, b, t
<1> QED BY <1>1, <1>3, <1>4, <1>11, <1>12, <1>13

-------------------------------------------------------------------------------
(* Every step of the handoff keeps the invariant                             *)

\* A batch that was exported: one bundle for each asset and cutoff, none of them
\* made after the export.
Exported(x) ==
  /\ {"batch", "at"} \subseteq DOMAIN x
  /\ \A bundle, other \in x.batch :
       /\ bundle.created <= x.at
       /\ JoinKey(bundle) = JoinKey(other) => bundle = other

\* The calls whose results are at hand were not refused.
TimingMade(c) == c # None => c \in TimingCalls /\ TimingOf(c) # None
TransitionMade(c) == c # None => c \in TimingCalls /\ TransitionOf(c) # None
SelectionMade(c) == c # None => c \in SelectionCalls /\ SelectionOf(c) # None
CandidateIsMade(c) ==
  c # None => /\ c.key \in Keys
              /\ c.selection \in SelectionCalls /\ SelectionOf(c.selection) # None
              /\ CandidateOf(c) # None

BundleMade(bundle) ==
  /\ bundle = HandoffBundle(bundle.call, Parts(bundle.call))
  /\ bundle.created \in Clocks
  /\ bundle.call.key \in Keys
  /\ TimingMade(bundle.call.timing) /\ TransitionMade(bundle.call.transition)
  /\ SelectionMade(bundle.call.selection)
  /\ CandidateIsMade(bundle.call.candidate)
  /\ ~HandoffRejected(Parts(bundle.call))

ArtifactsMade ==
  /\ TimingMade(timing) /\ TransitionMade(transition)
  /\ SelectionMade(selection) /\ CandidateIsMade(candidate)
  /\ IsFiniteSet(bundles)
  /\ \A bundle \in bundles : BundleMade(bundle)

\* A file is there under the name of every manifest, and of the batch whose
\* manifest is due.
ExportWhole ==
  /\ exporting # None => Exported(exporting) /\ exporting.batch \in lines
  /\ \A m \in batchManifests :
       /\ Exported(m)
       /\ \E batch \in lines : Name(batch) = Name(m.batch)

HandoffIInv == ArtifactsMade /\ ExportWhole

LEMMA CountedApart ==
  ASSUME NEW S, IsFiniteSet(S), NEW f, DOMAIN f = S,
         Cardinality({f[x] : x \in S}) = Cardinality(S)
  PROVE  \A x, y \in S : f[x] = f[y] => x = y
<1> DEFINE T == {f[x] : x \in S}
           g == [x \in S |-> f[x]]
<1>1. g \in Surjection(S, T)
  BY DEF Surjection
<1>2. g \in Injection(S, T)
  <2> HIDE DEF g, T
  <2> QED BY <1>1, FS_Surjection DEF T
<1>3. \A x \in S : g[x] = f[x]
  OBVIOUS
<1> HIDE DEF g
<1> QED BY <1>2, <1>3 DEF Injection, IsInjective

LEMMA BatchesAreApart ==
  ASSUME NEW batch, NEW at \in Clocks, IsFiniteSet(batch),
         \A b \in batch : b.created \in Clocks,
         ~BatchRejected(batch, at)
  PROVE  Exported([batch |-> batch, at |-> at])
<1> DEFINE f == [b \in batch |-> JoinKey(b)]
<1>1. {f[b] : b \in batch} = {JoinKey(b) : b \in batch}
  OBVIOUS
<1>2. \A x, y \in batch : f[x] = f[y] => x = y
  <2>1. DOMAIN f = batch
    OBVIOUS
  <2>2. Cardinality({f[b] : b \in batch}) = Cardinality(batch)
    BY <1>1 DEF BatchRejected
  <2> HIDE DEF f
  <2> QED BY <2>1, <2>2, CountedApart
<1>3. \A b \in batch : b.created <= at
  <2> TAKE b \in batch
  <2>1. ~(b.created > at)
    BY DEF BatchRejected
  <2>2. b.created \in Nat /\ at \in Nat
    BY HandoffAssumption
  <2> QED BY <2>1, <2>2
<1>4. \A x, y \in batch : JoinKey(x) = JoinKey(y) => x = y
  BY <1>2
<1> QED BY <1>3, <1>4 DEF Exported

-------------------------------------------------------------------------------
LEMMA BundleWasMade ==
  ASSUME NEW call, call.key \in Keys, call.at \in Clocks,
         TimingMade(call.timing), TransitionMade(call.transition),
         SelectionMade(call.selection), CandidateIsMade(call.candidate),
         ~HandoffRejected(Parts(call))
  PROVE  BundleMade(HandoffBundle(call, Parts(call)))
<1> DEFINE b == HandoffBundle(call, Parts(call))
<1>1. b.call = call /\ b.created = Parts(call).at
  BY DEF HandoffBundle
<1>2. Parts(call).at = call.at
  BY DEF Parts
<1> HIDE DEF b
<1>3. b = HandoffBundle(b.call, Parts(b.call))
  BY <1>1 DEF b
<1> QED BY <1>1, <1>2, <1>3 DEF BundleMade, b

LEMMA ArtifactsStayMade ==
  ASSUME HandoffIInv, [HandoffNext]_handoffVars
  PROVE  ArtifactsMade'
<1> USE DEF HandoffIInv, ArtifactsMade
<1>1. CASE MapSelection
  <2>1. UNCHANGED <<timing, transition, candidate, bundles>> /\ SelectionMade(selection)'
    BY <1>1 DEF MapSelection, SelectionMade
  <2> QED BY <2>1
<1>2. CASE CompareStates
  <2>1. UNCHANGED <<selection, timing, candidate, bundles>> /\ TransitionMade(transition)'
    BY <1>2 DEF CompareStates, TransitionMade
  <2> QED BY <2>1
<1>3. CASE ObserveTiming
  <2>1. UNCHANGED <<selection, transition, candidate, bundles>> /\ TimingMade(timing)'
    BY <1>3 DEF ObserveTiming, TimingMade
  <2> QED BY <2>1
<1>4. CASE Qualify
  <2>1. selection # None /\ UNCHANGED <<selection, timing, transition, bundles>>
    BY <1>4 DEF Qualify
  <2>2. PICK k \in Keys, at \in Clocks :
          LET call == [key |-> k, selection |-> selection, at |-> at]
          IN CandidateOf(call) # None /\ candidate' = call
    BY <1>4 DEF Qualify
  <2>3. /\ candidate'.key = k /\ candidate'.selection = selection
        /\ CandidateOf(candidate') # None
    BY <2>2
  <2>4. CandidateIsMade(candidate')
    BY <2>1, <2>3 DEF CandidateIsMade, SelectionMade
  <2> QED BY <2>1, <2>4
<1>5. CASE Assemble
  <2>1. UNCHANGED <<selection, timing, transition, candidate>>
    BY <1>5 DEF Assemble
  <2>2. PICK call \in [key : Keys, selection : {None, selection},
                       timing : {None, timing}, transition : {None, transition},
                       candidate : {None, candidate}, at : Clocks] :
          /\ ~HandoffRejected(Parts(call))
          /\ bundles' = bundles \union {HandoffBundle(call, Parts(call))}
    BY <1>5 DEF Assemble
  <2>3. /\ call.key \in Keys /\ call.at \in Clocks
        /\ call.timing \in {None, timing} /\ call.transition \in {None, transition}
        /\ call.selection \in {None, selection}
        /\ call.candidate \in {None, candidate}
    OBVIOUS
  <2>4. /\ TimingMade(call.timing) /\ TransitionMade(call.transition)
        /\ SelectionMade(call.selection) /\ CandidateIsMade(call.candidate)
    <3>1. TimingMade(call.timing)
      BY <2>3 DEF TimingMade
    <3>2. TransitionMade(call.transition)
      BY <2>3 DEF TransitionMade
    <3>3. SelectionMade(call.selection)
      BY <2>3 DEF SelectionMade
    <3>4. CandidateIsMade(call.candidate)
      BY <2>3 DEF CandidateIsMade
    <3> QED BY <3>1, <3>2, <3>3, <3>4
  <2>5. BundleMade(HandoffBundle(call, Parts(call)))
    BY <2>2, <2>3, <2>4, BundleWasMade
  <2>6. IsFiniteSet(bundles')
    BY <2>2, FS_AddElement
  <2> QED BY <2>1, <2>2, <2>5, <2>6
<1>6. CASE WriteLines
  BY <1>6 DEF WriteLines
<1>7. CASE WriteBatchManifest
  BY <1>7 DEF WriteBatchManifest
<1>8. CASE Lost
  BY <1>8 DEF Lost
<1>9. CASE UNCHANGED handoffVars
  BY <1>9 DEF handoffVars
<1> QED BY <1>1, <1>2, <1>3, <1>4, <1>5, <1>6, <1>7, <1>8, <1>9 DEF HandoffNext

LEMMA ExportStaysWhole ==
  ASSUME HandoffIInv, [HandoffNext]_handoffVars
  PROVE  ExportWhole'
<1> USE DEF HandoffIInv
<1>1. CASE MapSelection
  BY <1>1 DEF MapSelection, export, ExportWhole
<1>2. CASE CompareStates
  BY <1>2 DEF CompareStates, export, ExportWhole
<1>3. CASE ObserveTiming
  BY <1>3 DEF ObserveTiming, export, ExportWhole
<1>4. CASE Qualify
  BY <1>4 DEF Qualify, export, ExportWhole
<1>5. CASE Assemble
  BY <1>5 DEF Assemble, export, ExportWhole
<1>6. CASE WriteLines
  <2>1. PICK batch \in SUBSET bundles, at \in Clocks :
          /\ ~BatchRejected(batch, at)
          /\ lines' = {f \in lines : Name(f) # Name(batch)} \union {batch}
          /\ exporting' = [batch |-> batch, at |-> at]
    BY <1>6 DEF WriteLines
  <2>2. batchManifests' = batchManifests
    BY <1>6 DEF WriteLines
  <2>3. IsFiniteSet(batch) /\ \A b \in batch : b.created \in Clocks
    BY FS_Subset DEF ArtifactsMade, BundleMade
  <2>4. Exported(exporting')
    BY <2>1, <2>3, BatchesAreApart
  <2>5. exporting'.batch \in lines'
    BY <2>1
  <2>6. ASSUME NEW m \in batchManifests
        PROVE  Exported(m) /\ \E f \in lines' : Name(f) = Name(m.batch)
    <3>1. PICK f \in lines : Name(f) = Name(m.batch)
      BY DEF ExportWhole
    <3>2. CASE Name(f) = Name(batch)
      BY <3>1, <3>2, <2>1 DEF ExportWhole
    <3>3. CASE Name(f) # Name(batch)
      BY <3>1, <3>3, <2>1 DEF ExportWhole
    <3> QED BY <3>2, <3>3
  <2> QED BY <2>2, <2>4, <2>5, <2>6 DEF ExportWhole
<1>7. CASE WriteBatchManifest
  BY <1>7 DEF WriteBatchManifest, Filed, ExportWhole
<1>8. CASE Lost
  BY <1>8 DEF Lost, ExportWhole
<1>9. CASE UNCHANGED handoffVars
  BY <1>9 DEF handoffVars, ExportWhole
<1> QED BY <1>1, <1>2, <1>3, <1>4, <1>5, <1>6, <1>7, <1>8, <1>9 DEF HandoffNext

-------------------------------------------------------------------------------
(* What the selection descriptors rest on                                    *)

FeaturesOf(st) == {x[2] : x \in In(st, Sections)}

\* Claims and evidence that are those of the given features, or dated events.
DrawnFrom(c, F) ==
  /\ c.claims \subseteq UNION {f.claims : f \in F}
  /\ c.evidence \subseteq UNION {f.evidence : f \in F}

\* A component that rests on features of one state.
OnState(c, st) ==
  /\ DrawnFrom(c, FeaturesOf(st))
  /\ \A a \in c.artifacts : Foreign(a)

LEMMA FeaturesAreHeld ==
  ASSUME NEW st
  PROVE  /\ \A x \in In(st, Sections) : x[2] \in FeaturesOf(st)
         /\ \A S \in SUBSET Sections : In(st, S) \subseteq In(st, Sections)
         /\ \A s \in Sections : \A f \in st.sections[s].features :
              f \in FeaturesOf(st)
         /\ \A x, name : Names(x, st, name) => x[2] \in FeaturesOf(st)
<1>1. \A x \in In(st, Sections) : x[2] \in FeaturesOf(st)
  BY DEF FeaturesOf
<1>2. \A S \in SUBSET Sections : In(st, S) \subseteq In(st, Sections)
  BY DEF In
<1>3. \A s \in Sections : \A f \in st.sections[s].features :
        f \in FeaturesOf(st)
  <2> TAKE s \in Sections
  <2> TAKE f \in st.sections[s].features
  <2>1. <<s, f>> \in In(st, Sections) /\ <<s, f>>[2] = f
    BY DEF In
  <2> QED BY <2>1, <1>1
<1>4. \A x, name : Names(x, st, name) => x[2] \in FeaturesOf(st)
  BY <1>3 DEF Names
<1> QED BY <1>1, <1>2, <1>3, <1>4

LEMMA FeaturesAreForeign ==
  ASSUME NEW st \in AllStates, NEW f \in FeaturesOf(st), NEW a \in f.artifacts
  PROVE  Foreign(a)
<1>1. PICK k \in Keys : st = StateOf(k)
  BY DEF AllStates
<1> DEFINE in == Frozen[k]
<1>2. PICK s \in Sections : f \in st.sections[s].features
  BY DEF FeaturesOf, In
<1>3. st.sections = Snapshot(in).sections
  BY <1>1, StateIsItsInput
<1>4. f \in {p[2] : p \in {q \in Projected(in) : q[1] = s}}
  <2>1. Snapshot(in).sections[s] = MakeSection(in, Projected(in), s)
    BY DEF Snapshot
  <2> QED BY <1>2, <1>3, <2>1 DEF MakeSection
<1>5. PICK q \in Projected(in) : f = q[2]
  BY <1>4
<1>6. /\ Foreign(in.bundle.id)
      /\ in.sector # None => Foreign(in.sector.id)
      /\ in.memory # None => Foreign(in.memory.id)
  BY HandoffAssumption
<1> HIDE DEF in
<1>7. CASE q \in ProjectData(in.bundle)
  BY <1>5, <1>7 DEF ProjectData, FeatureFromEvidence, Feature
<1>8. CASE q \in ProjectClaims(in)
  BY <1>5, <1>8 DEF ProjectClaims, Feature
<1>9. CASE q \in ProjectSector(in)
  <2>1. in.sector # None
    BY <1>9 DEF ProjectSector
  <2>2. f.artifacts = {} \/ f.artifacts = {in.sector.id}
    BY <1>5, <1>9, <2>1 DEF ProjectSector, Feature
  <2> QED BY <1>6, <2>1, <2>2
<1>10. CASE q \in ProjectNormalized(in)
  <2>1. PICK n \in in.normalized :
          f = [Feature(<<"field", n.name>>, "normalized", n.value, n.asOf,
                       Unknown, n.claims, n.evidence, {})
                 EXCEPT !.transform = n.transform]
    <3> DEFINE G(n) == [Feature(<<"field", n.name>>, "normalized", n.value,
                                n.asOf, Unknown, n.claims, n.evidence, {})
                          EXCEPT !.transform = n.transform]
    <3>1. ProjectNormalized(in) = {<<n.section, G(n)>> : n \in in.normalized}
      BY DEF ProjectNormalized
    <3> HIDE DEF G
    <3>2. \E n \in in.normalized : f = G(n)
      BY <1>5, <1>10, <3>1
    <3> QED BY <3>2 DEF G
  <2>2. f.artifacts = {}
    BY <2>1 DEF Feature
  <2> QED BY <2>2
<1>11. CASE q \in ProjectDataQuality(in.bundle)
  <2>1. f.artifacts = {in.bundle.id}
    BY <1>5, <1>11 DEF ProjectDataQuality, Feature
  <2> QED BY <1>6, <2>1
<1>12. CASE q \in ProjectMemory(in)
  <2>1. in.memory # None
    BY <1>12 DEF ProjectMemory
  <2>2. f.artifacts = {in.memory.id}
    BY <1>5, <1>12, <2>1 DEF ProjectMemory, Feature
  <2> QED BY <1>6, <2>1, <2>2
<1> QED BY <1>5, <1>7, <1>8, <1>9, <1>10, <1>11, <1>12 DEF Projected

LEMMA ComponentsRest ==
  ASSUME NEW st \in AllStates, NEW name, NEW value, NEW refs,
         NEW F, F \subseteq FeaturesOf(st)
  PROVE  OnState(Component(name, value, refs, F), st)
<1> DEFINE c == Component(name, value, refs, F)
<1>1. /\ c.claims = UNION {f.claims : f \in F}
      /\ c.evidence = UNION {f.evidence : f \in F}
      /\ c.artifacts = UNION {f.artifacts : f \in F}
  BY DEF Component
<1> HIDE DEF c
<1>2. DrawnFrom(c, FeaturesOf(st))
  BY <1>1 DEF DrawnFrom
<1>3. \A a \in c.artifacts : Foreign(a)
  BY <1>1, FeaturesAreForeign
<1> QED BY <1>2, <1>3 DEF OnState, c

LEMMA CategoriesRest ==
  ASSUME NEW st \in AllStates, NEW name, NEW x, x[2] \in FeaturesOf(st)
  PROVE  OnState(CategoricalComponent(name, x), st)
BY ComponentsRest DEF CategoricalComponent

LEMMA CountsRest ==
  ASSUME NEW st \in AllStates, NEW name, NEW S, S \subseteq In(st, Sections)
  PROVE  OnState(CountComponent(name, S), st)
<1>1. {x[2] : x \in S} \subseteq FeaturesOf(st)
  BY FeaturesAreHeld
<1> QED BY <1>1, ComponentsRest DEF CountComponent

LEMMA AllCountsRest ==
  ASSUME NEW st \in AllStates, NEW selected,
         \A n \in DOMAIN selected : selected[n] \subseteq In(st, Sections),
         NEW c \in Counts(selected)
  PROVE  OnState(c, st)
<1>1. PICK n \in DOMAIN selected : c = CountComponent(n, selected[n])
  BY DEF Counts
<1> QED BY <1>1, CountsRest

\* Every component of a descriptor rests on features of the state.
Rests(d, st) == \A c \in d.components : OnState(c, st)

LEMMA UnavailableRests ==
  ASSUME NEW st, NEW coverage, NEW reason
  PROVE  Rests(Unavailable(coverage, reason), st)
BY DEF Rests, Unavailable, Described

LEMMA DescribedRests ==
  ASSUME NEW st, NEW coverage, NEW value, NEW components, NEW reasons,
         \A c \in components : OnState(c, st)
  PROVE  Rests(Described(coverage, value, components, reasons), st)
BY DEF Rests, Described

LEMMA CategoryRests ==
  ASSUME NEW st \in AllStates, NEW x, NEW vocabulary, NEW component,
         x[2] \in FeaturesOf(st)
  PROVE  Rests(Category(x, vocabulary, component), st)
BY CategoriesRest, UnavailableRests, DescribedRests DEF Category

\* Anything that was found has been found in the state.
LEMMA SortedIsHeld ==
  ASSUME NEW st, NEW order, NEW name, NEW sorts, Searched(order),
         "none" \notin sorts, Sort(Find(st, order, name)) \in sorts
  PROVE  Find(st, order, name)[2] \in FeaturesOf(st)
<1>1. Find(st, order, name) # None
  BY DEF Sort
<1> QED BY <1>1, FoundIsHeld, FeaturesAreHeld

LEMMA InventoryRests ==
  ASSUME NEW st \in AllStates, NEW section \in Sections, NEW component
  PROVE  Rests(SectionInventory(st, section, component), st)
<1>1. In(st, {section}) \subseteq In(st, Sections)
  BY FeaturesAreHeld
<1>2. OnState(CountComponent(component, In(st, {section})), st)
  BY <1>1, CountsRest
<1>3. SectionInventory(st, section, component) \in
        {Unavailable("NOT_AVAILABLE_AT_SOURCE_RUN", "no section"),
         Unavailable("NOT_RESEARCHED", "empty section"),
         Described("PARTIAL", None, {CountComponent(component, In(st, {section}))},
                   {"no event identity"})}
  BY DEF SectionInventory
<1> QED BY <1>2, <1>3, UnavailableRests, DescribedRests

LEMMA EvidenceStrengthRests ==
  ASSUME NEW st \in AllStates
  PROVE  Rests(EvidenceStrength(st), st)
<1>1. \A c \in EvidenceComponents(st) : OnState(c, st)
  <2> DEFINE all == In(st, Sections)
             selected ==
               [attributable_feature_count |-> all,
                claim_backed_feature_count |-> {x \in all : x[2].claims # {}},
                evidence_backed_feature_count |-> {x \in all : x[2].evidence # {}},
                artifact_backed_feature_count |->
                  {x \in all : x[2].artifacts # {}}]
  <2>1. EvidenceComponents(st) = Counts(selected)
    BY DEF EvidenceComponents
  <2>2. \A n \in DOMAIN selected : selected[n] \subseteq In(st, Sections)
    OBVIOUS
  <2> HIDE DEF selected
  <2> QED BY <2>1, <2>2, AllCountsRest
<1> QED BY <1>1, UnavailableRests, DescribedRests DEF EvidenceStrength

LEMMA ChainBindingRests ==
  ASSUME NEW st \in AllStates
  PROVE  Rests(ChainBinding(st), st)
<1> DEFINE exact == {n \in ChainBenefits : ChainBenefit(st, n) # None}
           exactComponents ==
             {CategoricalComponent(n, ChainBenefit(st, n)) : n \in exact}
           all == In(st, {"industry_chain"})
<1>1. \A c \in exactComponents : OnState(c, st)
  <2> TAKE c \in exactComponents
  <2>1. PICK n \in exact : c = CategoricalComponent(n, ChainBenefit(st, n))
    OBVIOUS
  <2> DEFINE x == Find(st, <<"industry_chain">>, Normalized("chain_benefit", n))
  <2>2. ChainBenefit(st, n) = x /\ Sort(x) \in {"text", "bool"}
    BY <2>1 DEF ChainBenefit
  <2>3. Searched(<<"industry_chain">>)
    BY OrdersAreSearched DEF Sections
  <2>4. x[2] \in FeaturesOf(st)
    BY <2>2, <2>3, SortedIsHeld
  <2> QED BY <2>1, <2>2, <2>4, CategoriesRest
<1>2. all \subseteq In(st, Sections)
  BY FeaturesAreHeld DEF Sections
<1>3. \A c \in {CountComponent("chain_context_feature_count", all)} :
        OnState(c, st)
  BY <1>2, CountsRest
<1> QED BY <1>1, <1>3, UnavailableRests, DescribedRests DEF ChainBinding

LEMMA SectorAlignmentRests ==
  ASSUME NEW st \in AllStates
  PROVE  Rests(SectorAlignment(st), st)
<1> DEFINE exact == Find(st, <<"sector", "industry_chain">>,
                         Normalized("sector_chain_alignment", ""))
           all == In(st, {"sector", "industry_chain"})
<1>1. Sort(exact) = "text" => exact[2] \in FeaturesOf(st)
  <2>1. Searched(<<"sector", "industry_chain">>)
    BY OrdersAreSearched DEF Sections
  <2> QED BY <2>1, SortedIsHeld, Sort(exact) = "text" => Sort(exact) \in {"text"}
<1>2. all \subseteq In(st, Sections)
  BY FeaturesAreHeld DEF Sections
<1>3. \A c \in {CountComponent("relationship_context_count", all)} :
        OnState(c, st)
  BY <1>2, CountsRest
<1> HIDE DEF exact
<1>4. Sort(exact) = "text" => Rests(Category(exact, Alignments, "alignment"), st)
  BY <1>1, CategoryRests
<1> QED BY <1>3, <1>4, UnavailableRests, DescribedRests DEF SectorAlignment, exact

LEMMA ThesisIsHeld ==
  ASSUME NEW st, NEW name, Sort(Find(st, Thesis, name)) = "text"
  PROVE  Find(st, Thesis, name)[2] \in FeaturesOf(st)
<1>1. Searched(Thesis)
  BY OrdersAreSearched DEF Sections, Thesis
<1>2. Sort(Find(st, Thesis, name)) \in {"text"} /\ "none" \notin {"text"}
  OBVIOUS
<1> QED BY <1>1, <1>2, SortedIsHeld

LEMMA ExpectationRevisionRests ==
  ASSUME NEW st \in AllStates
  PROVE  Rests(ExpectationRevision(st), st)
<1> DEFINE direction == Find(st, Thesis,
                             Normalized("expectation_revision", "direction"))
           subtype == Find(st, Thesis,
                           Normalized("expectation_revision", "subtype"))
           d == Category(direction, RevisionDirections, "direction")
           e == [d EXCEPT !.components =
                   @ \union {CategoricalComponent("subtype", subtype)}]
<1>1. /\ Sort(direction) = "text" => direction[2] \in FeaturesOf(st)
      /\ Sort(subtype) = "text" => subtype[2] \in FeaturesOf(st)
  BY ThesisIsHeld
<1>2. Sort(direction) = "text" => Rests(d, st)
  <2> HIDE DEF direction
  <2> QED BY <1>1, CategoryRests
<1>3. Sort(subtype) = "text" => OnState(CategoricalComponent("subtype", subtype), st)
  <2> HIDE DEF subtype
  <2> QED BY <1>1, CategoriesRest
<1>4. "components" \in DOMAIN d
  BY DEF Category, Described, Unavailable
<1>5. e.components = d.components \union {CategoricalComponent("subtype", subtype)}
  <2> HIDE DEF d, subtype
  <2> QED BY <1>4
<1>6. \/ \E s \in {SourceCoverage(st, {"event", "thesis"})} :
           ExpectationRevision(st) = Unavailable(s, "no expectation direction")
      \/ Sort(direction) = "text" /\ ExpectationRevision(st) = d
      \/ /\ Sort(direction) = "text" /\ Sort(subtype) = "text"
         /\ ExpectationRevision(st) = e
  BY DEF ExpectationRevision
<1> HIDE DEF direction, subtype, d, e
<1>7. Sort(direction) = "text" /\ Sort(subtype) = "text" => Rests(e, st)
  BY <1>2, <1>3, <1>5 DEF Rests
<1> QED BY <1>2, <1>6, <1>7, UnavailableRests

LEMMA LogicCertaintyRests ==
  ASSUME NEW st \in AllStates
  PROVE  Rests(LogicCertainty(st), st)
<1> DEFINE stage == Find(st, Thesis, Normalized("logic_certainty", ""))
<1>1. Sort(stage) = "text" => stage[2] \in FeaturesOf(st)
  BY ThesisIsHeld
<1> HIDE DEF stage
<1>2. Sort(stage) = "text" => Rests(Category(stage, LogicStages, "logic_stage"), st)
  BY <1>1, CategoryRests
<1> QED BY <1>2, UnavailableRests DEF LogicCertainty, stage

LEMMA RiskBurdenRests ==
  ASSUME NEW st \in AllStates
  PROVE  Rests(RiskBurden(st), st)
<1> DEFINE At(path) == ClaimsAt(st, "risk", "risk", path)
           selected == [confirmed_risk_count |-> At("confirmed_risks"),
                        scenario_risk_count |-> At("scenario_risks"),
                        watch_item_count |-> At("watch_items")]
<1>1. \A path : At(path) \subseteq In(st, Sections)
  BY FeaturesAreHeld DEF ClaimsAt, Sections
<1>2. \A n \in DOMAIN selected : selected[n] \subseteq In(st, Sections)
  BY <1>1
<1>3. \A c \in Counts(selected) : OnState(c, st)
  <2> HIDE DEF selected
  <2> QED BY <1>2, AllCountsRest
<1> QED BY <1>3, UnavailableRests, DescribedRests DEF RiskBurden

LEMMA ResearchDisagreementRests ==
  ASSUME NEW st \in AllStates
  PROVE  Rests(ResearchDisagreement(st), st)
<1> DEFINE exact == Find(st, <<"debate">>, Normalized("research_disagreement", ""))
           selected == [bull_claim_count |-> ClaimsAt(st, "debate", "bull", None),
                        bear_claim_count |-> ClaimsAt(st, "debate", "bear", None)]
<1>1. \A n \in DOMAIN selected : selected[n] \subseteq In(st, Sections)
  BY FeaturesAreHeld DEF ClaimsAt, Sections
<1>2. \A c \in Counts(selected) : OnState(c, st)
  <2> HIDE DEF selected
  <2> QED BY <1>1, AllCountsRest
<1>3. Sort(exact) = "text" => exact[2] \in FeaturesOf(st)
  <2>1. Searched(<<"debate">>)
    BY OrdersAreSearched DEF Sections
  <2> QED BY <2>1, SortedIsHeld, Sort(exact) = "text" => Sort(exact) \in {"text"}
<1> HIDE DEF exact
<1>4. Sort(exact) = "text" =>
        Rests(Category(exact, Disagreements, "disposition"), st)
  BY <1>3, CategoryRests
<1> QED BY <1>2, <1>4, UnavailableRests, DescribedRests
        DEF ResearchDisagreement, exact

LEMMA DescriptorsRest ==
  ASSUME NEW st \in AllStates, NEW f \in Families
  PROVE  Rests(Descriptor(st, f), st)
<1> DEFINE d == Descriptor(st, f)
<1>1. CASE f \in {"STATE_TRANSITION", "EXPECTATION_REVISION_VELOCITY",
                  "THESIS_UPGRADE_DOWNGRADE", "RISK_ESCALATION",
                  "EVIDENCE_CONFIRMATION"}
  <2>1. Registry[f].points > 1
    BY <1>1 DEF Registry, Family
  <2>2. d = Unavailable("REQUIRES_HISTORY", "one state")
    BY <1>1, <2>1 DEF Descriptor
  <2> QED BY <2>2, UnavailableRests
<1>2. CASE f \in {"CHAIN_BENEFIT_ELASTICITY", "EXPECTATION_REVISION",
                  "LOGIC_CERTAINTY", "RISK_BURDEN", "EVIDENCE_STRENGTH",
                  "SECTOR_CHAIN_ALIGNMENT", "RESEARCH_DISAGREEMENT",
                  "EVENT_WINDOW", "CATALYST_PROXIMITY"}
  <2>1. ~(Registry[f].points > 1)
    BY <1>2 DEF Registry, Family
  <2>2. d \in {EvidenceStrength(st), ChainBinding(st),
               SectorAlignment(st), RiskBurden(st),
               ResearchDisagreement(st), ExpectationRevision(st),
               LogicCertainty(st),
               SectionInventory(st, "event", "accepted_event_context_count"),
               Unavailable(SourceCoverage(st, Registry[f].dimensions),
                           "no semantic field")}
    BY <1>2, <2>1 DEF Descriptor
  <2> HIDE DEF d
  <2>3. "event" \in Sections
    BY DEF Sections
  <2>4. Rests(d, st)
    BY <2>2, <2>3, EvidenceStrengthRests, ChainBindingRests,
       SectorAlignmentRests, RiskBurdenRests, ResearchDisagreementRests,
       ExpectationRevisionRests, LogicCertaintyRests, InventoryRests,
       UnavailableRests
  <2> QED BY <2>4 DEF d
<1> QED BY <1>1, <1>2 DEF Families, Registry

-------------------------------------------------------------------------------
(* What an artifact may lead to                                              *)

\* An artifact a reader may be sent to: an input, or one of the given states or
\* transitions.
Leads(a, ids, transitions) ==
  \/ Foreign(a)
  \/ \E id \in ids : a = <<"state", id>>
  \/ \E id \in transitions : a = <<"transition", id>>

LEMMA ComponentsTogether ==
  ASSUME NEW d, NEW st, Rests(d, st)
  PROVE  OnState(OfComponents(d), st)
<1> DEFINE of == OfComponents(d)
<1>1. /\ of.claims = UNION {c.claims : c \in d.components}
      /\ of.evidence = UNION {c.evidence : c \in d.components}
      /\ of.artifacts = UNION {c.artifacts : c \in d.components}
  BY DEF OfComponents
<1> HIDE DEF of
<1>2. \A c \in d.components :
        /\ c.claims \subseteq UNION {f.claims : f \in FeaturesOf(st)}
        /\ c.evidence \subseteq UNION {f.evidence : f \in FeaturesOf(st)}
        /\ \A a \in c.artifacts : Foreign(a)
  BY DEF Rests, OnState, DrawnFrom
<1>3. of.claims \subseteq UNION {f.claims : f \in FeaturesOf(st)}
  <2> HIDE DEF of
  <2> SUFFICES ASSUME NEW x \in of.claims
               PROVE  x \in UNION {f.claims : f \in FeaturesOf(st)}
    OBVIOUS
  <2>1. PICK c \in d.components : x \in c.claims
    BY <1>1
  <2> QED BY <2>1, <1>2
<1>4. of.evidence \subseteq UNION {f.evidence : f \in FeaturesOf(st)}
  <2> SUFFICES ASSUME NEW x \in of.evidence
               PROVE  x \in UNION {f.evidence : f \in FeaturesOf(st)}
    OBVIOUS
  <2>1. PICK c \in d.components : x \in c.evidence
    BY <1>1
  <2> QED BY <2>1, <1>2
<1>5. \A a \in of.artifacts : Foreign(a)
  BY <1>1, <1>2
<1> QED BY <1>3, <1>4, <1>5 DEF OnState, DrawnFrom, of

LEMMA SelectionObservationParts ==
  ASSUME NEW in, NEW f, NEW d, NEW o, o = SelectionObservation(in, f, d)
  PROVE  /\ o.state = in.state.id
         /\ o.claims = OfComponents(d).claims
         /\ o.evidence = OfComponents(d).evidence
         /\ o.artifacts = OfComponents(d).artifacts
              \union {<<"state", in.state.id>>}
              \union (IF in.sector = None THEN {} ELSE {in.sector.context})
  BY DEF SelectionObservation

\* What a selection observation cites is a feature of its state.
LEMMA SelectionIsDrawn ==
  ASSUME NEW call \in SelectionCalls, SelectionOf(call) # None,
         NEW o \in SelectionOf(call)
  PROVE  /\ StateOf(call.key) \in AllStates /\ o.state = StateOf(call.key).id
         /\ DrawnFrom(o, FeaturesOf(StateOf(call.key)))
         /\ \A a \in o.artifacts : Leads(a, {o.state}, {})
<1> DEFINE in == SelectionInput(call)
           s == in.state
           families == IF call.all THEN Families ELSE SelectionFamilies
           described == {<<f, Descriptor(s, f)>> : f \in families}
<1>1. s = StateOf(call.key) /\ s \in AllStates
  BY HandoffAssumption DEF SelectionInput, AllStates
<1>2. in.sector = None \/ in.sector.context = SectorContext.context
  BY DEF SelectionInput
<1>3. SelectionOf(call) = BuildSelection(in, families)
  BY CallsAreTabulated
<1>4. families \subseteq Families
  BY DEF SelectionFamilies
<1> HIDE DEF families, in
<1>5. SelectionOf(call) = {SelectionObservation(in, x[1], x[2]) : x \in described}
  BY <1>3 DEF BuildSelection
<1>6. PICK x \in described : o = SelectionObservation(in, x[1], x[2])
  <2> HIDE DEF described
  <2> QED BY <1>5
<1>7. PICK f \in families : x = <<f, Descriptor(s, f)>>
  OBVIOUS
<1> DEFINE d == Descriptor(s, f)
<1>8. o = SelectionObservation(in, f, d)
  BY <1>6, <1>7
<1>9. Rests(d, s)
  BY <1>1, <1>4, DescriptorsRest
<1> HIDE DEF d
<1>10. OnState(OfComponents(d), s)
  BY <1>9, ComponentsTogether
<1>11. /\ o.state = s.id /\ o.claims = OfComponents(d).claims
       /\ o.evidence = OfComponents(d).evidence
       /\ o.artifacts = OfComponents(d).artifacts \union {<<"state", s.id>>}
            \union (IF in.sector = None THEN {} ELSE {in.sector.context})
  BY <1>8, SelectionObservationParts
<1>12. DrawnFrom(o, FeaturesOf(s))
  BY <1>10, <1>11 DEF OnState, DrawnFrom
<1>13. Foreign(SectorContext.context)
  BY HandoffAssumption
<1>14. ASSUME NEW a \in o.artifacts
       PROVE  Leads(a, {o.state}, {})
  <2>1. CASE a \in OfComponents(d).artifacts
    BY <2>1, <1>10 DEF OnState, Leads
  <2>2. CASE a = <<"state", s.id>>
    BY <2>2, <1>11 DEF Leads
  <2>3. CASE in.sector # None /\ a = in.sector.context
    BY <2>3, <1>2, <1>13 DEF Leads
  <2> QED BY <2>1, <2>2, <2>3, <1>11
<1> QED BY <1>1, <1>11, <1>12, <1>14

LEMMA CandidateParts ==
  ASSUME NEW st, NEW ep, NEW obs, NEW rules, NEW at, NEW c,
         c = CandidateMade(CandidateContent(st, ep, obs, rules), at),
         c # None
  PROVE  /\ c.state = st.id
         /\ c.claims = UNION {o.claims : o \in obs}
         /\ c.risks = ClaimsOf(OfFamily(obs, "RISK_BURDEN"))
         /\ c.invalidators = Invalidators(st)
<1> DEFINE r == CandidateContent(st, ep, obs, rules)
<1>1. /\ r.state = st.id
      /\ r.claims = UNION {o.claims : o \in obs}
      /\ r.risks = ClaimsOf(OfFamily(obs, "RISK_BURDEN"))
      /\ r.invalidators = Invalidators(st)
      /\ {"id", "created", "state", "claims", "risks", "invalidators"}
           \subseteq DOMAIN r
  BY DEF CandidateContent
<1> HIDE DEF r
<1>2. c = [r EXCEPT !.id = r, !.created = at]
  BY DEF CandidateMade, r
<1> QED BY <1>1, <1>2

\* The claims of a candidate, its risks and its invalidators are its state's.
LEMMA CandidateIsDrawn ==
  ASSUME NEW call, call # None, CandidateIsMade(call)
  PROVE  LET c == CandidateOf(call)
             s == StateOf(call.key)
         IN /\ s \in AllStates /\ c.state = s.id
            /\ c.claims \union c.risks \union c.invalidators
                 \subseteq UNION {f.claims : f \in FeaturesOf(s)}
<1> DEFINE c == CandidateOf(call)
           s == StateOf(call.key)
           e == EpisodeFor(call.key)
           obs == SelectionOf(call.selection)
           mine == UNION {f.claims : f \in FeaturesOf(s)}
<1>1. /\ s \in AllStates /\ call.selection \in SelectionCalls
      /\ obs # None /\ c # None
  BY DEF CandidateIsMade, AllStates
<1>2. c = Candidate(s, e, obs, call.at)
  BY DEF CandidateOf
<1> HIDE DEF s, e, obs, c
<1>3. /\ ~CandidateRejected(s, e, obs, call.at)
      /\ c = CandidateMade(CandidateContent(s, e, obs, Qualifying(s, obs)), call.at)
  BY <1>1, <1>2 DEF Candidate
<1>4. /\ c.state = s.id /\ c.claims = UNION {o.claims : o \in obs}
      /\ c.risks = ClaimsOf(OfFamily(obs, "RISK_BURDEN"))
      /\ c.invalidators = Invalidators(s)
  BY <1>1, <1>3, CandidateParts
<1>5. ASSUME NEW o \in obs
      PROVE  o.claims \subseteq mine
  <2>1. o.state = s.id
    BY <1>3 DEF CandidateRejected
  <2>2. /\ StateOf(call.selection.key) \in AllStates
        /\ o.state = StateOf(call.selection.key).id
        /\ DrawnFrom(o, FeaturesOf(StateOf(call.selection.key)))
    BY <1>1, SelectionIsDrawn DEF obs
  <2>3. StateOf(call.selection.key) = s
    BY <1>1, <2>1, <2>2, StatesAreTheirIds
  <2> QED BY <2>2, <2>3 DEF DrawnFrom
<1>6. c.claims \subseteq mine
  <2> HIDE DEF mine
  <2> QED BY <1>4, <1>5
<1>7. c.risks \subseteq mine
  <2>1. OfFamily(obs, "RISK_BURDEN") = None \/ OfFamily(obs, "RISK_BURDEN") \in obs
    BY DEF OfFamily
  <2> HIDE DEF mine
  <2> QED BY <1>4, <1>5, <2>1 DEF ClaimsOf
<1>8. c.invalidators \subseteq mine
  <2>1. ASSUME NEW x \in In(s, {"debate"})
        PROVE  x[2].claims \subseteq mine
    <3>1. x \in In(s, Sections)
      BY FeaturesAreHeld DEF Sections
    <3>2. x[2] \in FeaturesOf(s)
      BY <3>1, FeaturesAreHeld
    <3> QED BY <3>2
  <2> HIDE DEF mine
  <2> QED BY <1>4, <2>1 DEF Invalidators
<1> QED BY <1>1, <1>4, <1>6, <1>7, <1>8 DEF c, s

-------------------------------------------------------------------------------
(* What a transition is drawn from                                           *)

\* A change between the two states.
Between(x, p, c) ==
  /\ DrawnFrom(x, FeaturesOf(p) \union FeaturesOf(c))
  /\ x.artifacts = {<<"state", p.id>>, <<"state", c.id>>}

LEMMA ChangesAreBetween ==
  ASSUME NEW p, NEW c, NEW name, NEW left, NEW right, NEW class, NEW section,
         NEW leftSection, NEW x,
         x = Change(name, left, right, class, section, leftSection, {p, c}),
         left = None \/ left \in FeaturesOf(p) \/ left \in FeaturesOf(c),
         right = None \/ right \in FeaturesOf(p) \/ right \in FeaturesOf(c)
  PROVE  Between(x, p, c)
<1> DEFINE F == FeaturesOf(p) \union FeaturesOf(c)
           given == {f \in {left, right} : f # None}
<1>1. /\ x.claims = UNION {f.claims : f \in given}
      /\ x.evidence = UNION {f.evidence : f \in given}
      /\ x.artifacts = {<<"state", s.id>> : s \in {p, c}}
  BY DEF Change
<1>2. given \subseteq F
  OBVIOUS
<1> HIDE DEF F, given
<1>3. DrawnFrom(x, F)
  BY <1>1, <1>2 DEF DrawnFrom
<1>4. x.artifacts = {<<"state", p.id>>, <<"state", c.id>>}
  BY <1>1
<1> QED BY <1>3, <1>4 DEF Between, F

LEMMA AnyIsHeld ==
  ASSUME NEW st, NEW name, FindAny(st, name) # None
  PROVE  FindAny(st, name)[2] \in FeaturesOf(st)
BY OrdersAreSearched, FoundIsHeld, FeaturesAreHeld DEF FindAny

LEMMA AllChangesAreBetween ==
  ASSUME NEW p, NEW c
  PROVE  /\ \A x \in ExpectationChanges(p, c) : Between(x, p, c)
         /\ \A x \in RiskChanges(p, c) : Between(x, p, c)
         /\ \A x \in CatalystChanges(p, c) : Between(x, p, c)
         /\ \A x \in EvidenceChanges(p, c) : Between(x, p, c)
<1>1. ASSUME NEW x \in ExpectationChanges(p, c)
      PROVE  Between(x, p, c)
  <2>1. PICK n, class :
          /\ FindAny(p, n) # None /\ FindAny(c, n) # None
          /\ x = Change(n, FindAny(p, n)[2], FindAny(c, n)[2], class,
                        FindAny(c, n)[1], FindAny(p, n)[1], {p, c})
    BY <1>1 DEF ExpectationChanges
  <2>2. FindAny(p, n)[2] \in FeaturesOf(p) /\ FindAny(c, n)[2] \in FeaturesOf(c)
    BY <2>1, AnyIsHeld
  <2> QED BY <2>1, <2>2, ChangesAreBetween
<1>2. ASSUME NEW x \in RiskChanges(p, c)
      PROVE  Between(x, p, c)
  <2> DEFINE Risk(s, n) == LET y == Find(s, <<"risk">>, n)
                           IN IF y = None THEN None ELSE y[2]
  <2>1. PICK n, class :
          x = Change(n, Risk(p, n), Risk(c, n), class, "risk", "risk", {p, c})
    BY <1>2 DEF RiskChanges
  <2>2. \A s : Risk(s, n) = None \/ Risk(s, n) \in FeaturesOf(s)
    <3> TAKE s
    <3>1. Searched(<<"risk">>)
      BY OrdersAreSearched DEF Sections
    <3>2. Find(s, <<"risk">>, n) # None =>
            Find(s, <<"risk">>, n)[2] \in FeaturesOf(s)
      BY <3>1, FoundIsHeld, FeaturesAreHeld
    <3> QED BY <3>2
  <2> HIDE DEF Risk
  <2> QED BY <2>1, <2>2, ChangesAreBetween
<1>3. ASSUME NEW x \in CatalystChanges(p, c)
      PROVE  Between(x, p, c)
  <2>1. PICK n \in NamesIn(p, Sections, "catalyst")
                     \intersect NamesIn(c, Sections, "catalyst") :
          x = Change(n, FindLast(p, n)[2], FindLast(c, n)[2], "changed",
                     FindLast(c, n)[1], FindLast(p, n)[1], {p, c})
    BY <1>3 DEF CatalystChanges
  <2> DEFINE l == FindLast(p, n)[2]
             r == FindLast(c, n)[2]
             m == FindLast(p, n)[1]
             k == FindLast(c, n)[1]
             class == "changed"
  <2>2. Names(FindLast(p, n), p, n) /\ Names(FindLast(c, n), c, n)
    BY <2>1, LastIsHeld
  <2>3. l \in FeaturesOf(p) /\ r \in FeaturesOf(c)
    BY <2>2, FeaturesAreHeld
  <2>4. x = Change(n, l, r, class, k, m, {p, c})
    BY <2>1
  <2> HIDE DEF l, r, m, k, class
  <2> QED BY <2>3, <2>4, ChangesAreBetween
<1>4. ASSUME NEW x \in EvidenceChanges(p, c)
      PROVE  Between(x, p, c)
  <2>1. PICK n \in NamesIn(p, Sections, "hypothesis")
                     \intersect NamesIn(c, Sections, "hypothesis") :
          x = Change(n, FindLast(p, n)[2], FindLast(c, n)[2],
                     EvidenceClass(FindLast(p, n)[2], FindLast(c, n)[2]),
                     FindLast(c, n)[1], FindLast(p, n)[1], {p, c})
    BY <1>4 DEF EvidenceChanges
  <2> DEFINE l == FindLast(p, n)[2]
             r == FindLast(c, n)[2]
             m == FindLast(p, n)[1]
             k == FindLast(c, n)[1]
             class == EvidenceClass(l, r)
  <2>2. Names(FindLast(p, n), p, n) /\ Names(FindLast(c, n), c, n)
    BY <2>1, LastIsHeld
  <2>3. l \in FeaturesOf(p) /\ r \in FeaturesOf(c)
    BY <2>2, FeaturesAreHeld
  <2>4. x = Change(n, l, r, class, k, m, {p, c})
    BY <2>1
  <2> HIDE DEF l, r, m, k, class
  <2> QED BY <2>3, <2>4, ChangesAreBetween
<1> QED BY <1>1, <1>2, <1>3, <1>4

LEMMA MemoriesAreForeign ==
  ASSUME NEW in, in.memories = Memories, NEW a \in UsedMemories(in)
  PROVE  Foreign(a)
BY HandoffAssumption DEF UsedMemories

\* What a transition cites: the two states, and the memories that it used.
LEMMA TransitionIsDrawn ==
  ASSUME NEW call \in TimingCalls, TransitionOf(call) # None
  PROVE  LET t == TransitionOf(call)
             c == TimingInput(call).current
             p == SelectPredecessor(TimingInput(call))
             F == FeaturesOf(p) \union FeaturesOf(c)
         IN /\ p \in Peers(TimingInput(call)) /\ p \in AllStates /\ c \in AllStates
            /\ p.asset = c.asset /\ p.asOf < c.asOf
            /\ t.previous = p.id /\ t.current = c.id
            /\ t.claims \subseteq UNION {f.claims : f \in F}
            /\ t.sources \subseteq UNION {f.evidence : f \in F}
            /\ \A x \in t.expectation \union t.risk \union t.catalyst
                          \union t.evidence : Between(x, p, c)
            /\ {<<"state", p.id>>, <<"state", c.id>>} \subseteq t.artifacts
            /\ \A a \in t.artifacts : Leads(a, {p.id, c.id}, {})
<1> DEFINE in == TimingInput(call)
           t == TransitionOf(call)
           c == in.current
           p == SelectPredecessor(in)
           F == FeaturesOf(p) \union FeaturesOf(c)
<1>1. /\ t = WithId(Comparison(in, p, c)) /\ p \in Peers(in) /\ p \in AllStates
      /\ p.asset = c.asset /\ p.asOf < c.asOf
  BY TransitionCompares
<1>2. c \in AllStates /\ in.memories = Memories
  BY InputsAreStates
<1> HIDE DEF t, in, p, c
<1>3. /\ t.previous = p.id /\ t.current = c.id
      /\ t.expectation \union t.risk \union t.catalyst \union t.evidence
           = ChangesOf(p, c)
      /\ t.artifacts = {<<"state", p.id>>, <<"state", c.id>>}
                         \union UsedMemories(in)
  BY <1>1, ComparisonParts DEF ChangesOf
<1>4. /\ t.claims = (UNION {f.claims : f \in LogicOf(p, c)})
                      \union UNION {x.claims : x \in ChangesOf(p, c)}
      /\ t.sources = (UNION {f.evidence : f \in LogicOf(p, c)})
                       \union UNION {x.evidence : x \in ChangesOf(p, c)}
  BY <1>1, ComparisonSources
<1>5. \A x \in ChangesOf(p, c) : Between(x, p, c)
  BY AllChangesAreBetween DEF ChangesOf
<1>6. LogicOf(p, c) \subseteq F
  <2> SUFFICES ASSUME NEW f \in LogicOf(p, c)
               PROVE  f \in F
    OBVIOUS
  <2>1. \/ FindAny(p, Logic) # None /\ f = FindAny(p, Logic)[2]
        \/ FindAny(c, Logic) # None /\ f = FindAny(c, Logic)[2]
    BY DEF LogicOf
  <2> QED BY <2>1, AnyIsHeld
<1>7. \A x \in ChangesOf(p, c) : DrawnFrom(x, F)
  BY <1>5 DEF Between
<1> HIDE DEF F
<1>8. t.claims \subseteq UNION {f.claims : f \in F}
  <2>1. UNION {f.claims : f \in LogicOf(p, c)} \subseteq UNION {f.claims : f \in F}
    BY <1>6
  <2>2. UNION {x.claims : x \in ChangesOf(p, c)} \subseteq UNION {f.claims : f \in F}
    BY <1>7 DEF DrawnFrom
  <2> DEFINE A == UNION {f.claims : f \in LogicOf(p, c)}
             B == UNION {x.claims : x \in ChangesOf(p, c)}
             C == UNION {f.claims : f \in F}
  <2>3. A \subseteq C /\ B \subseteq C /\ t.claims = A \union B
    BY <2>1, <2>2, <1>4
  <2> HIDE DEF A, B, C
  <2>4. t.claims \subseteq C
    BY <2>3
  <2> QED BY <2>4 DEF C
<1>9. t.sources \subseteq UNION {f.evidence : f \in F}
  <2>1. UNION {f.evidence : f \in LogicOf(p, c)} \subseteq UNION {f.evidence : f \in F}
    BY <1>6
  <2>2. UNION {x.evidence : x \in ChangesOf(p, c)} \subseteq UNION {f.evidence : f \in F}
    BY <1>7 DEF DrawnFrom
  <2> DEFINE A == UNION {f.evidence : f \in LogicOf(p, c)}
             B == UNION {x.evidence : x \in ChangesOf(p, c)}
             C == UNION {f.evidence : f \in F}
  <2>3. A \subseteq C /\ B \subseteq C /\ t.sources = A \union B
    BY <2>1, <2>2, <1>4
  <2> HIDE DEF A, B, C
  <2>4. t.sources \subseteq C
    BY <2>3
  <2> QED BY <2>4 DEF C
<1>10. \A a \in t.artifacts : Leads(a, {p.id, c.id}, {})
  BY <1>2, <1>3, MemoriesAreForeign DEF Leads
<1>11. {<<"state", p.id>>, <<"state", c.id>>} \subseteq t.artifacts
  BY <1>3
<1>12. \A x \in t.expectation \union t.risk \union t.catalyst \union t.evidence :
         Between(x, p, c)
  BY <1>3, <1>5
<1> QED BY <1>1, <1>2, <1>3, <1>8, <1>9, <1>10, <1>11, <1>12 DEF t, in, p, c, F

\* The nearest of some dated events is one of them.
LEMMA NearestIsOne ==
  ASSUME NEW E, IsFiniteSet(E), E # {}, NEW cutoff \in Int,
         \A e \in E : e.time \in Int /\ e.id[2] \in Int
  PROVE  Nearest(E, cutoff) \in E
<1> DEFINE Far(e) == Absolute(e.time - cutoff)
           f == [e \in E |-> <<Far(e), e.id[2]>>]
           S == {f[e] : e \in E}
           R == {x \in S \X S : \/ x[1][1] < x[2][1]
                                \/ x[1][1] = x[2][1] /\ x[1][2] < x[2][2]}
<1>1. \A e \in E : /\ f[e] = <<Far(e), e.id[2]>>
                   /\ f[e][1] = Far(e) /\ f[e][2] = e.id[2]
                   /\ Far(e) \in Int /\ e.id[2] \in Int
  BY DEF Absolute
<1>2. \A s \in S : s = <<s[1], s[2]>> /\ s[1] \in Int /\ s[2] \in Int
  <2> HIDE DEF f, Far
  <2> QED BY <1>1
<1>3. IsFiniteSet(S) /\ S # {}
  <2>1. f \in Surjection(E, S)
    BY DEF Surjection
  <2> HIDE DEF f, Far
  <2>2. S # {}
    OBVIOUS
  <2> HIDE DEF S
  <2> QED BY <2>1, <2>2, FS_Surjection
<1>4. \A s, t \in S : <<s, t>> \in R <=> (s[1] < t[1] \/ (s[1] = t[1] /\ s[2] < t[2]))
  <2> HIDE DEF S
  <2> QED OBVIOUS
<1> HIDE DEF R
<1>5. LinearlyOrders(R, S)
  <2> HIDE DEF S
  <2>1. \A s \in S : <<s, s>> \notin R
    BY <1>2, <1>4
  <2>2. \A s, t, u \in S : <<s, t>> \in R /\ <<t, u>> \in R => <<s, u>> \in R
    BY <1>2, <1>4
  <2>3. \A s, t \in S : s = t \/ <<s, t>> \in R \/ <<t, s>> \in R
    <3> SUFFICES ASSUME NEW s \in S, NEW t \in S
                 PROVE  s = t \/ <<s, t>> \in R \/ <<t, s>> \in R
      OBVIOUS
    <3>1. CASE s[1] = t[1] /\ s[2] = t[2]
      BY <3>1, <1>2
    <3>2. CASE s[1] # t[1] \/ s[2] # t[2]
      BY <3>2, <1>2, <1>4
    <3> QED BY <3>1, <3>2
  <2> QED BY <2>1, <2>2, <2>3 DEF LinearlyOrders
<1>6. PICK s \in S : Below(S, R, s) = {}
  <2> HIDE DEF S
  <2>1. Cardinality(S) \in Nat /\ Cardinality(S) # 0
    BY <1>3, FS_CardinalityType, FS_EmptySet
  <2>2. 1 \in 1..Cardinality(S)
    BY <2>1
  <2>3. PICK s \in S : Cardinality(Below(S, R, s)) = 1 - 1
    BY <1>3, <1>5, <2>2, RanksAreTaken
  <2>4. IsFiniteSet(Below(S, R, s))
    BY <1>3, FS_Subset DEF Below
  <2> QED BY <2>3, <2>4, FS_EmptySet
<1>7. PICK e \in E : s = f[e]
  OBVIOUS
<1>8. ASSUME NEW g \in E
      PROVE  Far(e) < Far(g) \/ (Far(e) = Far(g) /\ e.id[2] <= g.id[2])
  <2>1. f[g] \in S
    OBVIOUS
  <2>2. <<f[g], s>> \notin R
    BY <1>6, <2>1 DEF Below
  <2>3. ~(f[g][1] < s[1] \/ (f[g][1] = s[1] /\ f[g][2] < s[2]))
    <3> HIDE DEF f, S
    <3> QED BY <2>1, <2>2, <1>4
  <2>4. /\ s[1] = Far(e) /\ s[2] = e.id[2] /\ f[g][1] = Far(g)
        /\ f[g][2] = g.id[2]
    BY <1>1, <1>7
  <2>5. /\ Far(e) \in Int /\ Far(g) \in Int
        /\ e.id[2] \in Int /\ g.id[2] \in Int
    BY <1>1
  <2> HIDE DEF f, Far, S
  <2> QED BY <2>3, <2>4, <2>5
<1>9. \A g \in E : LET d == Absolute(e.time - cutoff)
                       h == Absolute(g.time - cutoff)
                   IN d < h \/ (d = h /\ e.id[2] <= g.id[2])
  BY <1>8
<1> HIDE DEF f, Far, S
<1> QED BY <1>9 DEF Nearest

LEMMA NearestAreGiven ==
  ASSUME NEW call \in TimingCalls
  PROVE  LET in == TimingInput(call)
         IN \A e \in {NearestEvent(in), NextCatalyst(in)} : e = None \/ e \in in.events
<1> DEFINE in == TimingInput(call)
           past == {e \in in.events : e.kind = "event"}
           ahead == {e \in in.events : /\ e.kind = "catalyst"
                                       /\ e.time >= in.current.asOf}
<1>1. /\ IsFiniteSet(in.events) /\ in.current.asOf \in Int
      /\ \A e \in in.events : e.time \in Int /\ e.id[2] \in Int
  <2>1. in.current.asOf \in Int
    BY InputsAreStates, StateIsItsInput, HandoffAssumption DEF AllStates
  <2> QED BY <2>1, InputsAreStates, HandoffAssumption
<1> HIDE DEF in
<1>2. \A E \in SUBSET in.events : E # {} => Nearest(E, in.current.asOf) \in in.events
  <2> TAKE E \in SUBSET in.events
  <2>1. IsFiniteSet(E) /\ \A e \in E : e.time \in Int /\ e.id[2] \in Int
    BY <1>1, FS_Subset
  <2>2. E # {} => Nearest(E, in.current.asOf) \in E
    BY <2>1, <1>1, NearestIsOne
  <2> QED BY <2>2
<1>3. NearestEvent(in) = None \/ NearestEvent(in) \in in.events
  <2>1. past \in SUBSET in.events
    OBVIOUS
  <2>2. NearestEvent(in) = IF past = {} THEN None ELSE Nearest(past, in.current.asOf)
    BY DEF NearestEvent
  <2> HIDE DEF past
  <2> QED BY <2>1, <2>2, <1>2
<1>4. NextCatalyst(in) = None \/ NextCatalyst(in) \in in.events
  <2>1. ahead \in SUBSET in.events
    OBVIOUS
  <2>2. NextCatalyst(in) = IF ahead = {} THEN None ELSE Nearest(ahead, in.current.asOf)
    BY DEF NextCatalyst
  <2> HIDE DEF ahead
  <2> QED BY <2>1, <2>2, <1>2
<1> QED BY <1>3, <1>4 DEF in

-------------------------------------------------------------------------------
(* What a timing observation cites                                           *)

\* What a timing observation may cite: features of the state and of its series, and
\* the dated events of its call.
TimingSources(in) ==
  (UNION {FeaturesOf(s) : s \in Peers(in) \union {in.current}}) \union in.events

StatesNamed(in, t) ==
  {in.current.id} \union (IF t = None THEN {} ELSE {t.previous})
TransitionsNamed(t) == IF t = None THEN {} ELSE {t.id}

Cites(x, in, t) ==
  /\ DrawnFrom(x, TimingSources(in))
  /\ \A a \in x.artifacts : Leads(a, StatesNamed(in, t), TransitionsNamed(t))

\* What is drawn from some things is drawn from more.
LEMMA DrawnFromMore ==
  ASSUME NEW x, NEW F, NEW G, DrawnFrom(x, F), F \subseteq G
  PROVE  DrawnFrom(x, G)
<1>1. UNION {f.claims : f \in F} \subseteq UNION {f.claims : f \in G}
  OBVIOUS
<1>2. UNION {f.evidence : f \in F} \subseteq UNION {f.evidence : f \in G}
  OBVIOUS
<1> QED BY <1>1, <1>2 DEF DrawnFrom

LEMMA SourcesAreStates ==
  ASSUME NEW in, NEW s \in Peers(in) \union {in.current}
  PROVE  FeaturesOf(s) \subseteq TimingSources(in)
BY DEF TimingSources

LEMMA SourcesAreEvents ==
  ASSUME NEW in
  PROVE  in.events \subseteq TimingSources(in)
BY DEF TimingSources

\* What the transition of a call cites is what its timing may cite.
LEMMA TransitionIsCited ==
  ASSUME NEW call \in TimingCalls, NEW in, in = TimingInput(call),
         NEW t, t = TransitionOf(call), t # None
  PROVE  /\ t.claims \subseteq UNION {f.claims : f \in TimingSources(in)}
         /\ t.sources \subseteq UNION {f.evidence : f \in TimingSources(in)}
         /\ \A x \in t.risk \union t.evidence :
              /\ DrawnFrom(x, TimingSources(in))
              /\ \A a \in x.artifacts : Leads(a, StatesNamed(in, t), {})
         /\ \A a \in t.artifacts : Leads(a, StatesNamed(in, t), {})
         /\ {<<"state", id>> : id \in StatesNamed(in, t)} \subseteq t.artifacts
         /\ t.current = in.current.id
<1> DEFINE c == in.current
           p == SelectPredecessor(in)
           F == FeaturesOf(p) \union FeaturesOf(c)
<1>1. /\ p \in Peers(in)
      /\ t.previous = p.id /\ t.current = c.id
      /\ t.claims \subseteq UNION {f.claims : f \in F}
      /\ t.sources \subseteq UNION {f.evidence : f \in F}
      /\ \A x \in t.expectation \union t.risk \union t.catalyst
                    \union t.evidence : Between(x, p, c)
      /\ {<<"state", p.id>>, <<"state", c.id>>} \subseteq t.artifacts
      /\ \A a \in t.artifacts : Leads(a, {p.id, c.id}, {})
  BY TransitionIsDrawn
<1>2. F \subseteq TimingSources(in)
  <2>1. FeaturesOf(p) \subseteq TimingSources(in)
    BY <1>1, SourcesAreStates
  <2>2. FeaturesOf(c) \subseteq TimingSources(in)
    BY SourcesAreStates
  <2> QED BY <2>1, <2>2
<1>3. StatesNamed(in, t) = {p.id, c.id}
  BY <1>1 DEF StatesNamed
<1> HIDE DEF c, p, F
<1>4. /\ UNION {f.claims : f \in F} \subseteq UNION {f.claims : f \in TimingSources(in)}
      /\ UNION {f.evidence : f \in F}
           \subseteq UNION {f.evidence : f \in TimingSources(in)}
  <2>1. UNION {f.claims : f \in F} \subseteq UNION {f.claims : f \in TimingSources(in)}
    BY <1>2
  <2>2. UNION {f.evidence : f \in F}
          \subseteq UNION {f.evidence : f \in TimingSources(in)}
    BY <1>2
  <2> QED BY <2>1, <2>2
<1>5. /\ t.claims \subseteq UNION {f.claims : f \in TimingSources(in)}
      /\ t.sources \subseteq UNION {f.evidence : f \in TimingSources(in)}
  <2> DEFINE A == UNION {f.claims : f \in F}
             B == UNION {f.evidence : f \in F}
             C == UNION {f.claims : f \in TimingSources(in)}
             D == UNION {f.evidence : f \in TimingSources(in)}
  <2>1. t.claims \subseteq A /\ t.sources \subseteq B /\ A \subseteq C /\ B \subseteq D
    BY <1>1, <1>4 DEF F
  <2> HIDE DEF A, B, C, D
  <2>2. t.claims \subseteq C /\ t.sources \subseteq D
    BY <2>1
  <2> QED BY <2>2 DEF C, D
<1>6. ASSUME NEW x \in t.risk \union t.evidence
      PROVE  /\ DrawnFrom(x, TimingSources(in))
             /\ \A a \in x.artifacts : Leads(a, StatesNamed(in, t), {})
  <2>1. Between(x, p, c)
    BY <1>1
  <2>2. DrawnFrom(x, F) /\ x.artifacts = {<<"state", p.id>>, <<"state", c.id>>}
    BY <2>1 DEF Between, F
  <2>3. DrawnFrom(x, TimingSources(in))
    BY <2>2, <1>2, DrawnFromMore
  <2>4. \A a \in x.artifacts : Leads(a, StatesNamed(in, t), {})
    BY <2>2, <1>3 DEF Leads
  <2> QED BY <2>3, <2>4
<1>7. {<<"state", id>> : id \in StatesNamed(in, t)} \subseteq t.artifacts
  BY <1>1, <1>3
<1> QED BY <1>1, <1>3, <1>5, <1>6, <1>7 DEF c

\* The components of the descriptors, by what they are made from.
LEMMA PartsAreCited ==
  ASSUME NEW call \in TimingCalls, NEW in, in = TimingInput(call),
         NEW t, t = TransitionOf(call)
  PROVE  /\ t # None => \A name, value, ref :
              Cites(FromTransition(name, value, ref, t), in, t)
         /\ t # None => \A x \in t.risk \union t.evidence :
              Cites(FromChange(x, t), in, t)
         /\ \A name, value : \A e \in in.events : Cites(FromEvent(name, value, e), in, t)
         /\ \A name, value, refs : \A F \in SUBSET
              UNION {FeaturesOf(s) : s \in Peers(in) \union {in.current}} :
                 Cites(Component(name, value, refs, F), in, t)
<1>1. ASSUME t # None, NEW name, NEW value, NEW ref
      PROVE  Cites(FromTransition(name, value, ref, t), in, t)
  <2> DEFINE y == FromTransition(name, value, ref, t)
  <2>1. y.claims = t.claims /\ y.evidence = t.sources
        /\ y.artifacts = {<<"transition", t.id>>}
    BY DEF FromTransition
  <2> HIDE DEF y
  <2>2. DrawnFrom(y, TimingSources(in))
    BY <1>1, <2>1, TransitionIsCited DEF DrawnFrom
  <2>3. \A a \in y.artifacts : Leads(a, StatesNamed(in, t), TransitionsNamed(t))
    BY <1>1, <2>1 DEF Leads, TransitionsNamed
  <2>4. Cites(y, in, t)
    BY <2>2, <2>3 DEF Cites
  <2> QED BY <2>4 DEF y
<1>2. ASSUME t # None, NEW x \in t.risk \union t.evidence
      PROVE  Cites(FromChange(x, t), in, t)
  <2> DEFINE y == FromChange(x, t)
  <2>1. y.claims = x.claims /\ y.evidence = x.evidence
        /\ y.artifacts = x.artifacts \union {<<"transition", t.id>>}
    BY DEF FromChange
  <2>2. /\ DrawnFrom(x, TimingSources(in))
        /\ \A a \in x.artifacts : Leads(a, StatesNamed(in, t), {})
    BY <1>2, TransitionIsCited
  <2> HIDE DEF y
  <2>3. DrawnFrom(y, TimingSources(in))
    BY <2>1, <2>2 DEF DrawnFrom
  <2>4. \A a \in y.artifacts : Leads(a, StatesNamed(in, t), TransitionsNamed(t))
    BY <1>2, <2>1, <2>2 DEF Leads, TransitionsNamed
  <2>5. Cites(y, in, t)
    BY <2>3, <2>4 DEF Cites
  <2> QED BY <2>5 DEF y
<1>3. ASSUME NEW name, NEW value, NEW e \in in.events
      PROVE  Cites(FromEvent(name, value, e), in, t)
  <2> DEFINE y == FromEvent(name, value, e)
  <2>1. y.claims = e.claims /\ y.evidence = e.evidence /\ y.artifacts = {e.id}
    BY DEF FromEvent
  <2>2. Foreign(e.id)
    BY InputsAreStates, HandoffAssumption
  <2>3. e \in TimingSources(in)
    BY SourcesAreEvents
  <2> HIDE DEF y
  <2>4. DrawnFrom(y, TimingSources(in))
    BY <2>1, <2>3 DEF DrawnFrom
  <2>5. \A a \in y.artifacts : Leads(a, StatesNamed(in, t), TransitionsNamed(t))
    BY <2>1, <2>2 DEF Leads
  <2>6. Cites(y, in, t)
    BY <2>4, <2>5 DEF Cites
  <2> QED BY <2>6 DEF y
<1>4. ASSUME NEW name, NEW value, NEW refs,
             NEW F \in SUBSET
               UNION {FeaturesOf(s) : s \in Peers(in) \union {in.current}}
      PROVE  Cites(Component(name, value, refs, F), in, t)
  <2> DEFINE y == Component(name, value, refs, F)
  <2>1. /\ y.claims = UNION {f.claims : f \in F}
        /\ y.evidence = UNION {f.evidence : f \in F}
        /\ y.artifacts = UNION {f.artifacts : f \in F}
    BY DEF Component
  <2> HIDE DEF y
  <2>2. DrawnFrom(y, F)
    BY <2>1 DEF DrawnFrom
  <2>3. F \subseteq TimingSources(in)
    BY DEF TimingSources
  <2>4. DrawnFrom(y, TimingSources(in))
    BY <2>2, <2>3, DrawnFromMore
  <2>5. Peers(in) \union {in.current} \subseteq AllStates
    BY InputsAreStates DEF Peers
  <2>6. ASSUME NEW a \in y.artifacts
        PROVE  Foreign(a)
    <3>1. PICK f \in F : a \in f.artifacts
      BY <2>1
    <3>2. PICK s \in Peers(in) \union {in.current} : f \in FeaturesOf(s)
      OBVIOUS
    <3> QED BY <2>5, <3>1, <3>2, FeaturesAreForeign
  <2>7. Cites(y, in, t)
    BY <2>4, <2>6 DEF Cites, Leads
  <2> QED BY <2>7 DEF y
<1> QED BY <1>1, <1>2, <1>3, <1>4

AllCite(d, in, t) == \A c \in d.components : Cites(c, in, t)

LEMMA UnavailableCites ==
  ASSUME NEW in, NEW t, NEW coverage, NEW reason
  PROVE  AllCite(Unavailable(coverage, reason), in, t)
BY DEF AllCite, Unavailable, Described

LEMMA DescribedCites ==
  ASSUME NEW in, NEW t, NEW coverage, NEW value, NEW components, NEW reasons,
         \A c \in components : Cites(c, in, t)
  PROVE  AllCite(Described(coverage, value, components, reasons), in, t)
BY DEF AllCite, Described

\* A value found in a state is one of its features.
LEMMA NumericIsHeld ==
  ASSUME NEW st, NumericFeature(st) # None
  PROVE  NumericFeature(st) \in FeaturesOf(st)
<1>1. /\ Sort(FindAny(st, ValueName)) = "num"
      /\ NumericFeature(st) = FindAny(st, ValueName)[2]
  BY DEF NumericFeature
<1>2. FindAny(st, ValueName) # None
  BY <1>1 DEF Sort
<1> QED BY <1>1, <1>2, AnyIsHeld

LEMMA PointsAreFeatures ==
  ASSUME NEW call \in TimingCalls, NEW in, in = TimingInput(call),
         ~HistoryRejected(in)
  PROVE  LET p == Points(in)
         IN /\ Len(p) \in Nat
            /\ \A i \in 1..Len(p) : p[i].feature # None =>
                 p[i].feature \in
                   UNION {FeaturesOf(s) : s \in Peers(in) \union {in.current}}
<1> DEFINE N == Cardinality(Peers(in) \union {in.current})
           s == Ordered(in)
           p == Points(in)
<1>1. /\ N \in Nat /\ DOMAIN s = 1..N
      /\ \A i \in 1..N : s[i] \in Peers(in) \union {in.current}
  BY SeriesIsOrdered
<1>2. p = [i \in DOMAIN s |-> [at |-> s[i].asOf, feature |-> NumericFeature(s[i])]]
  BY DEF Points
<1> HIDE DEF N, s, p
<1>3. DOMAIN p = 1..N /\ \A i \in 1..N : p[i].feature = NumericFeature(s[i])
  BY <1>1, <1>2
<1>4. Len(p) = N
  BY <1>1, <1>3
<1>5. ASSUME NEW i \in 1..N, p[i].feature # None
      PROVE  p[i].feature \in
               UNION {FeaturesOf(x) : x \in Peers(in) \union {in.current}}
  <2>1. s[i] \in Peers(in) \union {in.current}
    BY <1>1
  <2>2. p[i].feature \in FeaturesOf(s[i])
    BY <1>3, <1>5, NumericIsHeld
  <2> QED BY <2>1, <2>2
<1> QED BY <1>1, <1>4, <1>5 DEF p

LEMMA VelocityCites ==
  ASSUME NEW call \in TimingCalls, NEW in, in = TimingInput(call),
         NEW t, t = TransitionOf(call), ~HistoryRejected(in),
         ~(Len(Points(in)) < 2), Points(in)[Len(Points(in))].feature # None,
         Points(in)[Len(Points(in)) - 1].feature # None
  PROVE  AllCite(Velocity(Points(in)), in, t)
<1> DEFINE p == Points(in)
           n == Len(p)
           All == UNION {FeaturesOf(s) : s \in Peers(in) \union {in.current}}
           Delta(i) == p[i].feature.value[2] - p[i - 1].feature.value[2]
           Elapsed(i) == p[i].at - p[i - 1].at
           refs == {<<"thesis", ValueName>>}
           two == {p[n - 1].feature, p[n].feature}
           three == two \union {p[n - 2].feature}
           first == {Component("direction", <<"text", SignOf(Delta(n))>>, refs, two),
                     Component("delta", <<"num", Delta(n)>>, refs, two),
                     Component("change_rate", <<"rate", Delta(n), Elapsed(n)>>,
                               refs, two)}
           order == SecondOrder(Delta(n), Elapsed(n), Delta(n - 1), Elapsed(n - 1))
           second == {Component("second_order_change", <<"text", order>>, refs, three),
                      Component("change_rate_delta",
                        <<"rate", Delta(n) * Elapsed(n - 1)
                                    - Delta(n - 1) * Elapsed(n),
                          Elapsed(n) * Elapsed(n - 1)>>, refs, three)}
<1>1. /\ n \in Nat /\ n >= 2
      /\ \A i \in 1..n : p[i].feature # None => p[i].feature \in All
  BY PointsAreFeatures
<1>2. two \subseteq All
  <2>1. n \in 1..n /\ n - 1 \in 1..n
    BY <1>1
  <2> HIDE DEF All, n, p
  <2>2. p[n].feature # None /\ p[n - 1].feature # None
    BY DEF n, p
  <2> QED BY <1>1, <2>1, <2>2
<1>3. HasThird(p) => three \subseteq All
  <2> SUFFICES ASSUME HasThird(p) PROVE three \subseteq All
    OBVIOUS
  <2>1. n - 2 \in 1..n /\ p[n - 2].feature # None
    BY <1>1 DEF HasThird
  <2> HIDE DEF All, n, p
  <2> QED BY <1>1, <1>2, <2>1
<1>4. \A name, value, r : \A F \in SUBSET All : Cites(Component(name, value, r, F), in, t)
  BY PartsAreCited
<1>5. \/ Velocity(p) = Described("PARTIAL", SignOf(Delta(n)), first, {"two points"})
      \/ /\ HasThird(p)
         /\ Velocity(p) = Described("AVAILABLE", SignOf(Delta(n)),
                                    first \union second, {})
  BY DEF Velocity
<1> HIDE DEF p, n, All, two, three, refs, order, Delta, Elapsed
<1>6. \A c \in first : Cites(c, in, t)
  BY <1>2, <1>4
<1>7. HasThird(p) => \A c \in second : Cites(c, in, t)
  BY <1>3, <1>4
<1> HIDE DEF first, second
<1>8. HasThird(p) => \A c \in first \union second : Cites(c, in, t)
  BY <1>6, <1>7
<1>9. AllCite(Velocity(p), in, t)
  BY <1>5, <1>6, <1>8, DescribedCites
<1> QED BY <1>9 DEF p

LEMMA VelocityDescriptorCites ==
  ASSUME NEW call \in TimingCalls, NEW in, in = TimingInput(call),
         NEW t, t = TransitionOf(call), ~HistoryRejected(in)
  PROVE  AllCite(VelocityDescriptor(in, Points(in)), in, t)
<1> DEFINE p == Points(in)
           x == FindAny(in.current, Normalized("expectation_revision", "direction"))
           c == Component("direction", x[2].value, {Ref(x)}, {x[2]})
<1>1. \/ \E a, b : VelocityDescriptor(in, p) = Unavailable(a, b)
      \/ /\ ~(Len(p) < 2) /\ p[Len(p)].feature # None
         /\ p[Len(p) - 1].feature # None
         /\ VelocityDescriptor(in, p) = Velocity(p)
      \/ /\ Sort(x) = "text"
         /\ VelocityDescriptor(in, p) =
              Described("PARTIAL", x[2].value[2], {c}, {"no rate"})
  BY DEF VelocityDescriptor
<1>2. Sort(x) = "text" => Cites(c, in, t)
  <2> SUFFICES ASSUME Sort(x) = "text" PROVE Cites(c, in, t)
    OBVIOUS
  <2>1. x # None
    BY DEF Sort
  <2>2. x[2] \in FeaturesOf(in.current)
    BY <2>1, AnyIsHeld
  <2> HIDE DEF x
  <2>3. {x[2]} \in SUBSET UNION {FeaturesOf(s) : s \in Peers(in) \union {in.current}}
    BY <2>2
  <2> QED BY <2>3, PartsAreCited
<1> HIDE DEF p, x, c
<1>3. Sort(x) = "text" => \A d \in {c} : Cites(d, in, t)
  BY <1>2
<1>4. AllCite(VelocityDescriptor(in, p), in, t)
  BY <1>1, <1>3, VelocityCites, UnavailableCites, DescribedCites DEF p
<1> QED BY <1>4 DEF p

LEMMA DatedCites ==
  ASSUME NEW call \in TimingCalls, NEW in, in = TimingInput(call),
         NEW t, t = TransitionOf(call), NEW e, e = None \/ e \in in.events,
         NEW position, NEW distance
  PROVE  AllCite(DatedDescriptor(in, e, position, distance), in, t)
<1> DEFINE days == e.time - in.current.asOf
           where == IF position = "proximity" THEN Proximity(days) ELSE Window(days)
           made == {FromEvent(position, <<"text", where>>, e),
                    FromEvent(distance, <<"num", days>>, e)}
<1>1. \/ \E a, b : DatedDescriptor(in, e, position, distance) = Unavailable(a, b)
      \/ /\ e # None
         /\ DatedDescriptor(in, e, position, distance) =
              Described("AVAILABLE", where, made, {})
  BY DEF DatedDescriptor, NoEvent
<1> HIDE DEF days, where
<1>2. e # None => \A c \in made : Cites(c, in, t)
  BY PartsAreCited
<1> HIDE DEF made
<1> QED BY <1>1, <1>2, UnavailableCites, DescribedCites

LEMMA TransitionDescriptorsCite ==
  ASSUME NEW call \in TimingCalls, NEW in, in = TimingInput(call),
         NEW t, t = TransitionOf(call)
  PROVE  /\ AllCite(StateDescriptor(in, t), in, t)
         /\ AllCite(ThesisDescriptor(in, t), in, t)
         /\ AllCite(RiskDescriptor(in, t), in, t)
         /\ AllCite(EvidenceDescriptor(in, t), in, t)
<1>1. AllCite(StateDescriptor(in, t), in, t)
  <2> DEFINE made == {FromTransition("transition_direction", t.direction,
                                     <<"event", Logic>>, t)}
  <2>1. \/ \E a, b : StateDescriptor(in, t) = Unavailable(a, b)
        \/ /\ t # None
           /\ StateDescriptor(in, t) = Described("AVAILABLE", t.direction, made, {})
    BY DEF StateDescriptor
  <2>2. t # None => \A c \in made : Cites(c, in, t)
    BY PartsAreCited
  <2> HIDE DEF made
  <2> QED BY <2>1, <2>2, UnavailableCites, DescribedCites
<1>2. AllCite(ThesisDescriptor(in, t), in, t)
  <2> DEFINE made == {FromTransition("thesis_change", t.thesis,
                        <<"thesis", Normalized("thesis", "disposition")>>, t)}
  <2>1. \/ \E a, b : ThesisDescriptor(in, t) = Unavailable(a, b)
        \/ /\ t # None
           /\ ThesisDescriptor(in, t) = Described("AVAILABLE", t.thesis, made, {})
    BY DEF ThesisDescriptor, NoHistory
  <2>2. t # None => \A c \in made : Cites(c, in, t)
    BY PartsAreCited
  <2> HIDE DEF made
  <2> QED BY <2>1, <2>2, UnavailableCites, DescribedCites
<1>3. AllCite(RiskDescriptor(in, t), in, t)
  <2> DEFINE made == {FromChange(x, t) : x \in t.risk}
  <2>1. \/ \E a, b : RiskDescriptor(in, t) = Unavailable(a, b)
        \/ /\ t # None
           /\ \E v : RiskDescriptor(in, t) = Described("AVAILABLE", v, made, {})
    BY DEF RiskDescriptor, NoHistory
  <2>2. t # None => \A c \in made : Cites(c, in, t)
    BY PartsAreCited
  <2> HIDE DEF made
  <2> QED BY <2>1, <2>2, UnavailableCites, DescribedCites
<1>4. AllCite(EvidenceDescriptor(in, t), in, t)
  <2> DEFINE made == {FromChange(x, t) : x \in t.evidence}
  <2>1. \/ \E a, b : EvidenceDescriptor(in, t) = Unavailable(a, b)
        \/ /\ t # None
           /\ \E a, v, r : EvidenceDescriptor(in, t) = Described(a, v, made, r)
    BY DEF EvidenceDescriptor, NoHistory
  <2>2. t # None => \A c \in made : Cites(c, in, t)
    BY PartsAreCited
  <2> HIDE DEF made
  <2> QED BY <2>1, <2>2, UnavailableCites, DescribedCites
<1> QED BY <1>1, <1>2, <1>3, <1>4

LEMMA TimingDescriptorsCite ==
  ASSUME NEW call \in TimingCalls, NEW in, in = TimingInput(call),
         NEW t, t = TransitionOf(call), ~HistoryRejected(in),
         NEW f \in TimingFamilies
  PROVE  AllCite(TimingDescriptor(in, t, f), in, t)
<1> DEFINE d == TimingDescriptor(in, t, f)
<1>1. d \in {StateDescriptor(in, t), VelocityDescriptor(in, Points(in)),
             ThesisDescriptor(in, t), RiskDescriptor(in, t),
             EvidenceDescriptor(in, t),
             DatedDescriptor(in, NearestEvent(in),
                             "window_position", "distance_to_event_days"),
             DatedDescriptor(in, NextCatalyst(in),
                             "proximity", "distance_to_catalyst_days")}
  BY DEF TimingDescriptor, TimingFamilies
<1>2. \A e \in {NearestEvent(in), NextCatalyst(in)} : e = None \/ e \in in.events
  BY NearestAreGiven
<1> HIDE DEF d
<1>3. AllCite(d, in, t)
  BY <1>1, <1>2, TransitionDescriptorsCite, VelocityDescriptorCites, DatedCites
<1> QED BY <1>3 DEF d

-------------------------------------------------------------------------------
(* The parts of a bundle                                                     *)

LEMMA DescribedTogether ==
  ASSUME NEW d, NEW in, NEW t, AllCite(d, in, t)
  PROVE  Cites(OfComponents(d), in, t)
<1> DEFINE of == OfComponents(d)
           C == UNION {f.claims : f \in TimingSources(in)}
           E == UNION {f.evidence : f \in TimingSources(in)}
<1>1. /\ of.claims = UNION {c.claims : c \in d.components}
      /\ of.evidence = UNION {c.evidence : c \in d.components}
      /\ of.artifacts = UNION {c.artifacts : c \in d.components}
  BY DEF OfComponents
<1> HIDE DEF of
<1>2. \A c \in d.components :
        /\ c.claims \subseteq C /\ c.evidence \subseteq E
        /\ \A a \in c.artifacts : Leads(a, StatesNamed(in, t), TransitionsNamed(t))
  BY DEF AllCite, Cites, DrawnFrom
<1> HIDE DEF C, E
<1>3. of.claims \subseteq C
  <2> SUFFICES ASSUME NEW x \in of.claims PROVE x \in C
    OBVIOUS
  <2>1. PICK c \in d.components : x \in c.claims
    BY <1>1
  <2> QED BY <2>1, <1>2
<1>4. of.evidence \subseteq E
  <2> SUFFICES ASSUME NEW x \in of.evidence PROVE x \in E
    OBVIOUS
  <2>1. PICK c \in d.components : x \in c.evidence
    BY <1>1
  <2> QED BY <2>1, <1>2
<1>5. \A a \in of.artifacts : Leads(a, StatesNamed(in, t), TransitionsNamed(t))
  BY <1>1, <1>2
<1>6. Cites(of, in, t)
  BY <1>3, <1>4, <1>5 DEF Cites, DrawnFrom, C, E
<1> QED BY <1>6 DEF of

\* What a timing observation cites, and the states it was made from.
LEMMA TimingIsDrawn ==
  ASSUME NEW call \in TimingCalls, TimingOf(call) # None,
         NEW in, in = TimingInput(call), NEW t, t = TransitionOf(call),
         NEW o \in TimingOf(call)
  PROVE  /\ o.state = in.current.id
         /\ o.transition = IF t = None THEN None ELSE t.id
         /\ Cites(o, in, t)
         /\ {<<"state", id>> : id \in StatesNamed(in, t)} \subseteq o.artifacts
<1>1. PICK f \in TimingFamilies :
        o = TimingObservation(in, t, f, TimingDescriptor(in, t, f))
  BY TimingIsDescribed
<1>2. ~HistoryRejected(in)
  BY TimingIsDescribed
<1> DEFINE d == TimingDescriptor(in, t, f)
           of == OfComponents(d)
<1>3. Cites(of, in, t)
  <2>1. AllCite(d, in, t)
    BY <1>2, TimingDescriptorsCite
  <2> HIDE DEF d
  <2> QED BY <2>1, DescribedTogether
<1>4. /\ o.state = in.current.id
      /\ o.transition = IF t = None THEN None ELSE t.id
      /\ o.claims = of.claims /\ o.evidence = of.evidence
      /\ o.artifacts = of.artifacts
             \union {<<"state", in.current.id>>} \union UsedMemories(in)
             \union (IF t = None THEN {} ELSE t.artifacts)
  BY <1>1, TimingObservationParts
<1>5. in.memories = Memories
  BY InputsAreStates
<1> HIDE DEF of
<1>6. ASSUME NEW a \in o.artifacts
      PROVE  Leads(a, StatesNamed(in, t), TransitionsNamed(t))
  <2>1. CASE a \in of.artifacts
    BY <2>1, <1>3 DEF Cites
  <2>2. CASE a = <<"state", in.current.id>>
    BY <2>2 DEF Leads, StatesNamed
  <2>3. CASE a \in UsedMemories(in)
    BY <2>3, <1>5, MemoriesAreForeign DEF Leads
  <2>4. CASE t # None /\ a \in t.artifacts
    <3>1. Leads(a, StatesNamed(in, t), {})
      BY <2>4, TransitionIsCited
    <3> QED BY <3>1 DEF Leads
  <2> QED BY <2>1, <2>2, <2>3, <2>4, <1>4
<1>7. Cites(o, in, t)
  BY <1>3, <1>4, <1>6 DEF Cites, DrawnFrom
<1>8. {<<"state", id>> : id \in StatesNamed(in, t)} \subseteq o.artifacts
  <2>1. CASE t = None
    <3>1. StatesNamed(in, t) = {in.current.id}
      BY <2>1 DEF StatesNamed
    <3> QED BY <3>1, <1>4
  <2>2. CASE t # None
    <3>1. {<<"state", id>> : id \in StatesNamed(in, t)} \subseteq t.artifacts
      BY <2>2, TransitionIsCited
    <3> QED BY <2>2, <3>1, <1>4
  <2> QED BY <2>1, <2>2
<1> QED BY <1>4, <1>7, <1>8

-------------------------------------------------------------------------------
\* The call of a bundle that was not refused.
Admitted(call) ==
  /\ call.key \in Keys
  /\ TimingMade(call.timing) /\ TransitionMade(call.transition)
  /\ SelectionMade(call.selection) /\ CandidateIsMade(call.candidate)
  /\ ~HandoffRejected(Parts(call))

\* Everything a bundle was made from is about its state.
LEMMA PartsAreOfOneState ==
  ASSUME NEW call, Admitted(call), NEW S, S = StateOf(call.key)
  PROVE  /\ S \in AllStates
         /\ call.timing # None =>
              /\ call.timing \in TimingCalls /\ TimingOf(call.timing) # None
              /\ TimingOf(call.timing) # {}
              /\ TimingInput(call.timing).current = S
              /\ ~HistoryRejected(TimingInput(call.timing))
         /\ call.transition # None =>
              /\ call.transition \in TimingCalls /\ TransitionOf(call.transition) # None
              /\ TimingInput(call.transition).current = S
         /\ call.selection # None =>
              /\ call.selection \in SelectionCalls /\ SelectionOf(call.selection) # None
              /\ \A o \in SelectionOf(call.selection) : o.state = S.id
         /\ call.candidate # None => CandidateOf(call.candidate).state = S.id
<1> DEFINE in == Parts(call)
<1>1. /\ in.state = S
      /\ in.selection = IF call.selection = None THEN {} ELSE SelectionOf(call.selection)
      /\ in.timing = IF call.timing = None THEN {} ELSE TimingOf(call.timing)
      /\ in.candidate = IF call.candidate = None THEN None
                        ELSE CandidateOf(call.candidate)
      /\ in.transition = IF call.transition = None THEN None
                         ELSE TransitionOf(call.transition)
  BY DEF Parts
<1>2. ~HandoffRejected(in)
  BY DEF Admitted
<1> HIDE DEF in
<1>3. /\ \A o \in in.selection \union in.timing : o.state = in.state.id
      /\ in.candidate # None => in.candidate.state = in.state.id
      /\ in.transition # None => in.transition.current = in.state.id
  BY <1>2 DEF HandoffRejected, ObservationRejected, CandidateDisagrees,
     TransitionDisagrees
<1>4. S \in AllStates
  BY DEF Admitted, AllStates
<1>5. ASSUME call.timing # None
      PROVE  /\ call.timing \in TimingCalls /\ TimingOf(call.timing) # None
             /\ TimingOf(call.timing) # {}
             /\ TimingInput(call.timing).current = S
             /\ ~HistoryRejected(TimingInput(call.timing))
  <2> DEFINE c == call.timing
             tin == TimingInput(c)
             t == TransitionOf(c)
  <2>1. c \in TimingCalls /\ TimingOf(c) # None
    BY <1>5 DEF Admitted, TimingMade
  <2> HIDE DEF c
  <2>2. /\ ~HistoryRejected(tin)
        /\ TimingOf(c) = {TimingObservation(tin, t, f, TimingDescriptor(tin, t, f)) :
                            f \in TimingFamilies}
    BY <2>1, TimingIsDescribed
  <2>3. PICK o : o \in TimingOf(c)
    <3>1. "EVENT_WINDOW" \in TimingFamilies
      BY DEF TimingFamilies
    <3> QED BY <2>2, <3>1
  <2>4. o.state = tin.current.id
    BY <2>1, <2>3, TimingIsDrawn
  <2>5. o.state = S.id
    BY <1>1, <1>3, <1>5, <2>3 DEF c
  <2>6. tin.current \in AllStates
    BY <2>1, InputsAreStates
  <2>7. tin.current = S
    BY <1>4, <2>4, <2>5, <2>6, StatesAreTheirIds
  <2> QED BY <2>1, <2>2, <2>3, <2>7 DEF c
<1>6. ASSUME call.transition # None
      PROVE  /\ call.transition \in TimingCalls /\ TransitionOf(call.transition) # None
             /\ TimingInput(call.transition).current = S
  <2> DEFINE c == call.transition
             tin == TimingInput(c)
  <2>1. c \in TimingCalls /\ TransitionOf(c) # None
    BY <1>6 DEF Admitted, TransitionMade
  <2>2. TransitionOf(c).current = S.id
    BY <1>1, <1>3, <1>6, <2>1
  <2> HIDE DEF c
  <2>3. TransitionOf(c).current = tin.current.id
    BY <2>1, TransitionIsCited
  <2>4. tin.current \in AllStates
    BY <2>1, InputsAreStates
  <2>5. tin.current = S
    BY <1>4, <2>2, <2>3, <2>4, StatesAreTheirIds
  <2> QED BY <2>1, <2>5 DEF c
<1>7. ASSUME call.selection # None
      PROVE  /\ call.selection \in SelectionCalls /\ SelectionOf(call.selection) # None
             /\ \A o \in SelectionOf(call.selection) : o.state = S.id
  BY <1>1, <1>3, <1>7 DEF Admitted, SelectionMade
<1>8. ASSUME call.candidate # None
      PROVE  CandidateOf(call.candidate).state = S.id
  BY <1>1, <1>3, <1>8 DEF Admitted, CandidateIsMade
<1> QED BY <1>4, <1>5, <1>6, <1>7, <1>8

LEMMA GivenCompare ==
  ASSUME NEW call, Admitted(call), NEW S, S = StateOf(call.key),
         NEW c \in Given(call)
  PROVE  /\ c \in TimingCalls /\ TimingInput(c).current = S
         /\ TransitionOf(c) # None =>
              \E p \in AllStates :
                 /\ p = SelectPredecessor(TimingInput(c))
                 /\ p.id = TransitionOf(c).previous
                 /\ p.asset = S.asset /\ p.asOf < S.asOf
<1>1. /\ c \in TimingCalls /\ TimingInput(c).current = S
  BY PartsAreOfOneState DEF Given
<1>2. ASSUME TransitionOf(c) # None
      PROVE  \E p \in AllStates :
                 /\ p = SelectPredecessor(TimingInput(c))
                 /\ p.id = TransitionOf(c).previous
                 /\ p.asset = S.asset /\ p.asOf < S.asOf
  <2> DEFINE p == SelectPredecessor(TimingInput(c))
  <2>1. /\ p \in AllStates /\ TransitionOf(c).previous = p.id
        /\ p.asset = S.asset /\ p.asOf < S.asOf
    BY <1>1, <1>2, TransitionIsDrawn
  <2> HIDE DEF p
  <2> QED BY <2>1 DEF p
<1> QED BY <1>1, <1>2

\* The states a bundle may draw from: its own, and earlier ones of its asset.
LEMMA DrawnAreEarlier ==
  ASSUME NEW call, Admitted(call), NEW S, S = StateOf(call.key)
  PROVE  /\ S \in Compared(call)
         /\ \A c \in Given(call) : TransitionOf(c) # None =>
              SelectPredecessor(TimingInput(c)) \in Compared(call)
         /\ \A s \in Compared(call) :
              \/ s = S
              \/ \E c \in Given(call) : /\ TransitionOf(c) # None
                                        /\ s.id = TransitionOf(c).previous
         /\ \A s \in Compared(call) \union Series(call) :
              /\ s.asset = S.asset
              /\ s.id = S.id \/ s.asOf < S.asOf
<1> DEFINE made == {TransitionOf(c) : c \in Given(call)} \ {None}
           own == {x \in States : \/ x[1] = call.key
                                  \/ \E t \in made : t.previous = x[2].id}
<1>1. Compared(call) = {x[2] : x \in own}
  BY DEF Compared
<1>2. call.key \in Keys
  BY DEF Admitted
<1>3. /\ \A x \in States : x[1] \in Keys /\ x[2] = StateOf(x[1])
      /\ \A k \in Keys : <<k, StateOf(k)>> \in States
  BY StatesAreTabulated
<1>4. S \in Compared(call)
  <2> DEFINE x == <<call.key, S>>
  <2>1. x \in States /\ x[1] = call.key /\ x[2] = S
    BY <1>2, <1>3
  <2> HIDE DEF x, made
  <2>2. x \in own
    BY <2>1
  <2> QED BY <1>1, <2>1, <2>2
<1>5. ASSUME NEW c \in Given(call), TransitionOf(c) # None
      PROVE  SelectPredecessor(TimingInput(c)) \in Compared(call)
  <2>1. PICK p \in AllStates :
          p = SelectPredecessor(TimingInput(c)) /\ p.id = TransitionOf(c).previous
    BY <1>5, GivenCompare
  <2>2. PICK k \in Keys : p = StateOf(k)
    BY DEF AllStates
  <2> DEFINE x == <<k, p>>
  <2>3. x \in States /\ x[2] = p
    BY <2>2, <1>3
  <2>4. TransitionOf(c) \in made
    BY <1>5
  <2> HIDE DEF x, made
  <2>5. x \in own
    BY <2>1, <2>3, <2>4
  <2>6. p \in Compared(call)
    BY <1>1, <2>3, <2>5
  <2> QED BY <2>1, <2>6
<1>6. ASSUME NEW s \in Compared(call)
      PROVE  /\ s \in AllStates
             /\ \/ s = S
                \/ \E c \in Given(call) : /\ TransitionOf(c) # None
                                          /\ s.id = TransitionOf(c).previous
  <2>1. PICK x \in own : s = x[2]
    <3> HIDE DEF own
    <3> QED BY <1>1
  <2>2. x \in States /\ x[1] \in Keys /\ s = StateOf(x[1])
    BY <2>1, <1>3
  <2>3. s \in AllStates
    BY <2>2 DEF AllStates
  <2>4. CASE x[1] = call.key
    BY <2>2, <2>3, <2>4
  <2>5. CASE \E t \in made : t.previous = x[2].id
    <3>1. PICK t \in made : t.previous = x[2].id
      BY <2>5
    <3>2. PICK c \in Given(call) : t = TransitionOf(c) /\ TransitionOf(c) # None
      OBVIOUS
    <3> QED BY <2>1, <2>3, <3>1, <3>2
  <2> QED BY <2>4, <2>5
<1> HIDE DEF made, own
<1>7. ASSUME NEW s \in Compared(call)
      PROVE  s.asset = S.asset /\ (s.id = S.id \/ s.asOf < S.asOf)
  <2>1. CASE s = S
    BY <2>1
  <2>2. CASE \E c \in Given(call) : TransitionOf(c) # None /\ s.id = TransitionOf(c).previous
    <3>1. PICK c \in Given(call) : TransitionOf(c) # None /\ s.id = TransitionOf(c).previous
      BY <2>2
    <3>2. PICK p \in AllStates : /\ p.id = TransitionOf(c).previous
                                 /\ p.asset = S.asset /\ p.asOf < S.asOf
      BY <3>1, GivenCompare
    <3>3. s = p
      BY <1>6, <3>1, <3>2, StatesAreTheirIds
    <3> QED BY <3>2, <3>3
  <2> QED BY <2>1, <2>2, <1>6
<1>8. ASSUME NEW s \in Series(call)
      PROVE  s.asset = S.asset /\ s.asOf < S.asOf
  <2> DEFINE in == TimingInput(call.timing)
  <2>1. call.timing # None /\ s \in Peers(in)
    BY DEF Series
  <2>2. /\ in.current = S /\ ~HistoryRejected(in) /\ call.timing \in TimingCalls
    BY <2>1, PartsAreOfOneState
  <2>3. s \in AllStates /\ S \in AllStates
    BY <2>1, <2>2, InputsAreStates DEF Peers
  <2>4. s.asOf \in Int /\ S.asOf \in Int
    BY <2>3, StateIsItsInput, HandoffAssumption DEF AllStates
  <2> HIDE DEF in
  <2>5. s.asset = S.asset /\ ~(s.asOf >= S.asOf)
    BY <2>1, <2>2 DEF Peers, HistoryRejected
  <2> QED BY <2>4, <2>5
<1> QED BY <1>4, <1>5, <1>6, <1>7, <1>8

Held(call) ==
  (UNION {FeaturesOf(s) : s \in Compared(call) \union Series(call)})
    \union UNION {c.events : c \in Given(call)}

StatesOfBundle(call) == {s.id : s \in Compared(call)}
TransitionsOfBundle(in) == IF in.transition = None THEN {} ELSE {in.transition.id}

LEMMA HeldAreFeatures ==
  ASSUME NEW call, NEW s \in Compared(call) \union Series(call)
  PROVE  FeaturesOf(s) \subseteq Held(call)
BY DEF Held

LEMMA HeldAreEvents ==
  ASSUME NEW call, NEW c \in Given(call)
  PROVE  c.events \subseteq Held(call)
BY DEF Held

\* What the observations, the candidate and the transition of a bundle cite.
LEMMA SelectionIsClosed ==
  ASSUME NEW call, Admitted(call), call.selection # None,
         NEW o \in SelectionOf(call.selection)
  PROVE  /\ DrawnFrom(o, Held(call))
         /\ \A a \in o.artifacts : Leads(a, StatesOfBundle(call), {})
<1> DEFINE S == StateOf(call.key)
           k == call.selection.key
<1>1. /\ S \in AllStates /\ call.selection \in SelectionCalls
      /\ SelectionOf(call.selection) # None /\ o.state = S.id
  BY PartsAreOfOneState
<1>2. /\ StateOf(k) \in AllStates /\ o.state = StateOf(k).id
      /\ DrawnFrom(o, FeaturesOf(StateOf(k)))
      /\ \A a \in o.artifacts : Leads(a, {o.state}, {})
  BY <1>1, SelectionIsDrawn
<1>3. StateOf(k) = S
  BY <1>1, <1>2, StatesAreTheirIds
<1>4. S \in Compared(call)
  BY DrawnAreEarlier
<1> HIDE DEF S, k
<1>5. DrawnFrom(o, Held(call))
  BY <1>2, <1>3, <1>4, HeldAreFeatures, DrawnFromMore
<1>6. \A a \in o.artifacts : Leads(a, StatesOfBundle(call), {})
  BY <1>1, <1>2, <1>4 DEF Leads, StatesOfBundle
<1> QED BY <1>5, <1>6

LEMMA CandidateIsClosed ==
  ASSUME NEW call, Admitted(call), call.candidate # None,
         NEW c, c = CandidateOf(call.candidate)
  PROVE  c.claims \union c.risks \union c.invalidators
           \subseteq UNION {f.claims : f \in Held(call)}
<1> DEFINE S == StateOf(call.key)
           K == StateOf(call.candidate.key)
           mine == UNION {f.claims : f \in FeaturesOf(S)}
           all == UNION {f.claims : f \in Held(call)}
<1>1. S \in AllStates /\ c.state = S.id
  BY PartsAreOfOneState
<1>2. /\ K \in AllStates /\ c.state = K.id
      /\ c.claims \union c.risks \union c.invalidators
           \subseteq UNION {f.claims : f \in FeaturesOf(K)}
  BY CandidateIsDrawn DEF Admitted
<1>3. K = S
  BY <1>1, <1>2, StatesAreTheirIds
<1>4. S \in Compared(call)
  BY DrawnAreEarlier
<1> HIDE DEF S, K
<1>5. FeaturesOf(S) \subseteq Held(call)
  BY <1>4, HeldAreFeatures
<1>6. mine \subseteq all
  BY <1>5
<1>7. c.claims \union c.risks \union c.invalidators \subseteq mine
  BY <1>2, <1>3
<1> HIDE DEF mine, all
<1>8. c.claims \union c.risks \union c.invalidators \subseteq all
  BY <1>6, <1>7
<1> QED BY <1>8 DEF all

LEMMA TransitionIsClosed ==
  ASSUME NEW call, Admitted(call), NEW c \in Given(call), NEW t,
         t = TransitionOf(c), t # None
  PROVE  /\ t.claims \subseteq UNION {f.claims : f \in Held(call)}
         /\ t.sources \subseteq UNION {f.evidence : f \in Held(call)}
         /\ \A a \in t.artifacts : Leads(a, StatesOfBundle(call), {})
         /\ {<<"state", StateOf(call.key).id>>, <<"state", t.previous>>}
              \subseteq t.artifacts
         /\ t.previous \in StatesOfBundle(call)
<1> DEFINE S == StateOf(call.key)
           in == TimingInput(c)
           p == SelectPredecessor(in)
           F == FeaturesOf(p) \union FeaturesOf(in.current)
           A == UNION {f.claims : f \in F}
           B == UNION {f.evidence : f \in F}
           C == UNION {f.claims : f \in Held(call)}
           D == UNION {f.evidence : f \in Held(call)}
<1>1. c \in TimingCalls /\ in.current = S
  BY GivenCompare
<1>2. /\ t.previous = p.id /\ t.claims \subseteq A /\ t.sources \subseteq B
      /\ {<<"state", p.id>>, <<"state", in.current.id>>} \subseteq t.artifacts
      /\ \A a \in t.artifacts : Leads(a, {p.id, in.current.id}, {})
  BY <1>1, TransitionIsDrawn
<1>3. S \in Compared(call) /\ p \in Compared(call)
  BY DrawnAreEarlier
<1> HIDE DEF S, in, p
<1>4. F \subseteq Held(call)
  BY <1>1, <1>3, HeldAreFeatures
<1> HIDE DEF F
<1>5. A \subseteq C /\ B \subseteq D
  <2>1. A \subseteq C
    BY <1>4
  <2>2. B \subseteq D
    BY <1>4
  <2> QED BY <2>1, <2>2
<1> HIDE DEF A, B, C, D
<1>6. t.claims \subseteq C /\ t.sources \subseteq D
  BY <1>2, <1>5
<1>7. \A a \in t.artifacts : Leads(a, StatesOfBundle(call), {})
  BY <1>1, <1>2, <1>3 DEF Leads, StatesOfBundle
<1>8. t.previous \in StatesOfBundle(call)
  BY <1>2, <1>3 DEF StatesOfBundle
<1>9. {<<"state", S.id>>, <<"state", t.previous>>} \subseteq t.artifacts
  BY <1>1, <1>2
<1> QED BY <1>6, <1>7, <1>8, <1>9 DEF C, D, S

LEMMA TimingIsClosed ==
  ASSUME NEW call, Admitted(call), call.timing # None,
         NEW o \in TimingOf(call.timing), NEW t, t = TransitionOf(call.timing)
  PROVE  /\ DrawnFrom(o, Held(call))
         /\ \A a \in o.artifacts :
              Leads(a, StatesOfBundle(call), IF t = None THEN {} ELSE {t.id})
         /\ o.transition = IF t = None THEN None ELSE t.id
         /\ t # None => {<<"state", StateOf(call.key).id>>, <<"state", t.previous>>}
                          \subseteq o.artifacts
<1> DEFINE c == call.timing
           S == StateOf(call.key)
           in == TimingInput(c)
<1>1. c \in TimingCalls /\ TimingOf(c) # None /\ in.current = S
  BY PartsAreOfOneState
<1>2. /\ Cites(o, in, t) /\ o.transition = IF t = None THEN None ELSE t.id
      /\ {<<"state", id>> : id \in StatesNamed(in, t)} \subseteq o.artifacts
  BY <1>1, TimingIsDrawn
<1>3. c \in Given(call) /\ in.events = c.events
  BY <1>1, InputsAreStates DEF Given
<1>4. S \in Compared(call)
  BY DrawnAreEarlier
<1>5. Peers(in) \subseteq Series(call)
  BY DEF Series
<1> HIDE DEF in, S, c
<1>6. TimingSources(in) \subseteq Held(call)
  <2>1. c.events \subseteq Held(call)
    BY <1>3, HeldAreEvents
  <2>2. ASSUME NEW s \in Peers(in) \union {in.current}
        PROVE  FeaturesOf(s) \subseteq Held(call)
    <3>1. s \in Compared(call) \union Series(call)
      BY <1>1, <1>4, <1>5
    <3> QED BY <3>1, HeldAreFeatures
  <2> QED BY <1>3, <2>1, <2>2 DEF TimingSources
<1>7. DrawnFrom(o, Held(call))
  BY <1>2, <1>6, DrawnFromMore DEF Cites
<1>8. StatesNamed(in, t) \subseteq StatesOfBundle(call)
  <2>1. S.id \in StatesOfBundle(call)
    BY <1>4 DEF StatesOfBundle
  <2>2. t # None => t.previous \in StatesOfBundle(call)
    BY <1>3, TransitionIsClosed DEF c
  <2> QED BY <1>1, <2>1, <2>2 DEF StatesNamed
<1>9. \A a \in o.artifacts : Leads(a, StatesOfBundle(call), TransitionsNamed(t))
  BY <1>2, <1>8 DEF Cites, Leads
<1>10. t # None => {<<"state", S.id>>, <<"state", t.previous>>} \subseteq o.artifacts
  BY <1>1, <1>2 DEF StatesNamed
<1> QED BY <1>2, <1>7, <1>9, <1>10 DEF TransitionsNamed, S

Made(x) == IF x = None THEN {} ELSE {x}

LEMMA BundleParts ==
  ASSUME NEW call, NEW in, NEW b, b = HandoffBundle(call, in).id
  PROVE  /\ b.asset = in.state.asset /\ b.asOf = in.state.asOf
         /\ b.state = in.state.id /\ b.provenance = Provenance(in)
         /\ b.transition = IF in.transition = None THEN None ELSE in.transition.id
BY DEF HandoffBundle

LEMMA ProvenanceParts ==
  ASSUME NEW in, NEW v, v = Provenance(in)
  PROVE  LET observations == in.selection \union in.timing
             c == Made(in.candidate)
             t == Made(in.transition)
         IN /\ v.claims = (UNION {x.claims : x \in observations \union c \union t})
                            \union UNION {x.risks \union x.invalidators : x \in c}
            /\ v.evidence = (UNION {o.evidence : o \in observations})
                              \union UNION {x.sources : x \in t}
            /\ v.artifacts =
                 {<<"state", in.state.id>>, in.episode.id}
                 \union {<<"observation", o.id>> : o \in observations}
                 \union (UNION {o.artifacts : o \in observations})
                 \union {<<"candidate", x.id>> : x \in c}
                 \union {<<"transition", x.id>> : x \in t}
                 \union UNION {x.artifacts : x \in t}
BY DEF Provenance, Made

\* The artifacts a call names, which its bundle may be made of.
Assembled(in, call) ==
  /\ in.state = StateOf(call.key) /\ in.episode = EpisodeFor(call.key)
  /\ in.selection = IF call.selection = None THEN {} ELSE SelectionOf(call.selection)
  /\ in.timing = IF call.timing = None THEN {} ELSE TimingOf(call.timing)
  /\ in.candidate = IF call.candidate = None THEN None
                    ELSE CandidateOf(call.candidate)
  /\ in.transition = IF call.transition = None THEN None
                     ELSE TransitionOf(call.transition)
  /\ ~HandoffRejected(in)

LEMMA PartsAreAssembled ==
  ASSUME NEW call, Admitted(call)
  PROVE  Assembled(Parts(call), call)
BY DEF Parts, Assembled, Admitted

\* The parts of an admitted bundle, each closed over what the bundle holds.
LEMMA PartsAreClosed ==
  ASSUME NEW call, Admitted(call), NEW in, Assembled(in, call)
  PROVE  /\ in.state = StateOf(call.key)
         /\ \E k : in.episode.id = <<"episode", k>>
         /\ \A o \in in.selection \union in.timing :
              /\ DrawnFrom(o, Held(call))
              /\ \A a \in o.artifacts :
                   Leads(a, StatesOfBundle(call), TransitionsOfBundle(in))
         /\ \A c \in Made(in.candidate) :
              c.claims \union c.risks \union c.invalidators
                \subseteq UNION {f.claims : f \in Held(call)}
         /\ \A t \in Made(in.transition) :
              /\ t.claims \subseteq UNION {f.claims : f \in Held(call)}
              /\ t.sources \subseteq UNION {f.evidence : f \in Held(call)}
              /\ \A a \in t.artifacts : Leads(a, StatesOfBundle(call), {})
         /\ \A id \in StatesOfBundle(call) :
              \/ id = in.state.id
              \/ \E o \in in.timing : <<"state", id>> \in o.artifacts
              \/ \E t \in Made(in.transition) : <<"state", id>> \in t.artifacts
<1>1. /\ in.state = StateOf(call.key) /\ in.episode = EpisodeFor(call.key)
      /\ in.selection = IF call.selection = None THEN {} ELSE SelectionOf(call.selection)
      /\ in.timing = IF call.timing = None THEN {} ELSE TimingOf(call.timing)
      /\ in.candidate = IF call.candidate = None THEN None
                        ELSE CandidateOf(call.candidate)
      /\ in.transition = IF call.transition = None THEN None
                         ELSE TransitionOf(call.transition)
  BY DEF Assembled
<1>2. ~HandoffRejected(in) /\ call.key \in Keys
  BY DEF Assembled, Admitted
<1>3. \E k : in.episode.id = <<"episode", k>>
  BY <1>1, <1>2, EpisodesAreTabulated
<1>4. ASSUME NEW o \in in.selection
      PROVE  /\ DrawnFrom(o, Held(call))
             /\ \A a \in o.artifacts :
                  Leads(a, StatesOfBundle(call), TransitionsOfBundle(in))
  <2>1. call.selection # None /\ o \in SelectionOf(call.selection)
    BY <1>1
  <2>2. /\ DrawnFrom(o, Held(call))
        /\ \A a \in o.artifacts : Leads(a, StatesOfBundle(call), {})
    BY <2>1, SelectionIsClosed
  <2> QED BY <2>2 DEF Leads
<1>5. ASSUME NEW o \in in.timing
      PROVE  /\ DrawnFrom(o, Held(call))
             /\ \A a \in o.artifacts :
                  Leads(a, StatesOfBundle(call), TransitionsOfBundle(in))
  <2> DEFINE t == TransitionOf(call.timing)
  <2>1. call.timing # None /\ o \in TimingOf(call.timing)
    BY <1>1
  <2>2. /\ DrawnFrom(o, Held(call))
        /\ \A a \in o.artifacts :
             Leads(a, StatesOfBundle(call), IF t = None THEN {} ELSE {t.id})
        /\ o.transition = IF t = None THEN None ELSE t.id
    BY <2>1, TimingIsClosed
  <2>3. t # None => t.id # None
    BY <2>1, PartsAreOfOneState, HandoffAssumption
  <2>4. o.transition \in
          {None, IF in.transition = None THEN None ELSE in.transition.id}
    BY <1>2 DEF HandoffRejected, TimingDisagrees
  <2> HIDE DEF t
  <2>5. t # None => in.transition # None /\ t.id = in.transition.id
    BY <2>2, <2>3, <2>4
  <2> QED BY <2>2, <2>5 DEF Leads, TransitionsOfBundle
<1>6. ASSUME NEW c \in Made(in.candidate)
      PROVE  c.claims \union c.risks \union c.invalidators
                \subseteq UNION {f.claims : f \in Held(call)}
  <2>1. call.candidate # None /\ c = CandidateOf(call.candidate)
    BY <1>1 DEF Made
  <2> QED BY <2>1, CandidateIsClosed
<1>7. ASSUME NEW t \in Made(in.transition)
      PROVE  /\ t.claims \subseteq UNION {f.claims : f \in Held(call)}
             /\ t.sources \subseteq UNION {f.evidence : f \in Held(call)}
             /\ \A a \in t.artifacts : Leads(a, StatesOfBundle(call), {})
  <2>1. call.transition \in Given(call) /\ t = TransitionOf(call.transition) /\ t # None
    BY <1>1 DEF Made, Given
  <2> QED BY <2>1, TransitionIsClosed
<1>8. ASSUME NEW id \in StatesOfBundle(call)
      PROVE  \/ id = in.state.id
             \/ \E o \in in.timing : <<"state", id>> \in o.artifacts
             \/ \E t \in Made(in.transition) : <<"state", id>> \in t.artifacts
  <2>1. PICK s \in Compared(call) : id = s.id
    BY DEF StatesOfBundle
  <2>2. CASE s = StateOf(call.key)
    BY <2>1, <2>2, <1>1
  <2>3. CASE \E c \in Given(call) : /\ TransitionOf(c) # None
                                    /\ s.id = TransitionOf(c).previous
    <3>1. PICK c \in Given(call) : /\ TransitionOf(c) # None
                                   /\ s.id = TransitionOf(c).previous
      BY <2>3
    <3>2. c # None /\ (c = call.timing \/ c = call.transition)
      BY DEF Given
    <3>3. CASE c = call.transition
      <4>1. TransitionOf(c) \in Made(in.transition)
        BY <1>1, <3>1, <3>2, <3>3 DEF Made
      <4>2. <<"state", TransitionOf(c).previous>> \in TransitionOf(c).artifacts
        BY <3>1, TransitionIsClosed
      <4> QED BY <2>1, <3>1, <4>1, <4>2
    <3>4. CASE c = call.timing
      <4>1. TimingOf(c) # {} /\ in.timing = TimingOf(c)
        BY <1>1, <3>2, <3>4, PartsAreOfOneState
      <4>2. PICK o \in TimingOf(c) : TRUE
        BY <4>1
      <4>3. <<"state", TransitionOf(c).previous>> \in o.artifacts
        BY <3>1, <3>2, <3>4, TimingIsClosed
      <4> QED BY <2>1, <3>1, <4>1, <4>3
    <3> QED BY <3>2, <3>3, <3>4
  <2> QED BY <2>1, <2>2, <2>3, DrawnAreEarlier
<1> QED BY <1>1, <1>3, <1>4, <1>5, <1>6, <1>7, <1>8

-------------------------------------------------------------------------------
(* A bundle names all it was drawn from                                      *)

LEMMA ClaimsAreClosed ==
  ASSUME NEW call, Admitted(call), NEW in, Assembled(in, call),
         NEW v, v = Provenance(in)
  PROVE  /\ v.claims \subseteq UNION {f.claims : f \in Held(call)}
         /\ v.evidence \subseteq UNION {f.evidence : f \in Held(call)}
<1> DEFINE observations == in.selection \union in.timing
           c == Made(in.candidate)
           t == Made(in.transition)
           C == UNION {f.claims : f \in Held(call)}
           D == UNION {f.evidence : f \in Held(call)}
<1>1. /\ v.claims = (UNION {x.claims : x \in observations \union c \union t})
                      \union UNION {x.risks \union x.invalidators : x \in c}
      /\ v.evidence = (UNION {o.evidence : o \in observations})
                        \union UNION {x.sources : x \in t}
  BY ProvenanceParts
<1>2. /\ \A o \in observations : o.claims \subseteq C /\ o.evidence \subseteq D
      /\ \A x \in c : /\ x.claims \subseteq C
                      /\ x.risks \union x.invalidators \subseteq C
      /\ \A x \in t : x.claims \subseteq C /\ x.sources \subseteq D
  <2>1. ASSUME NEW o \in observations
        PROVE  o.claims \subseteq C /\ o.evidence \subseteq D
    BY PartsAreClosed DEF DrawnFrom
  <2>2. ASSUME NEW x \in c
        PROVE  x.claims \subseteq C /\ x.risks \union x.invalidators \subseteq C
    <3>1. x.claims \union x.risks \union x.invalidators \subseteq C
      BY PartsAreClosed
    <3> HIDE DEF C
    <3> QED BY <3>1
  <2>3. ASSUME NEW x \in t
        PROVE  x.claims \subseteq C /\ x.sources \subseteq D
    BY PartsAreClosed
  <2> QED BY <2>1, <2>2, <2>3
<1> HIDE DEF observations, c, t, C, D
<1>3. v.claims \subseteq C
  <2> SUFFICES ASSUME NEW e \in v.claims PROVE e \in C
    OBVIOUS
  <2>1. \/ \E x \in observations \union c \union t : e \in x.claims
        \/ \E x \in c : e \in x.risks \union x.invalidators
    BY <1>1
  <2> QED BY <2>1, <1>2
<1>4. v.evidence \subseteq D
  <2> SUFFICES ASSUME NEW e \in v.evidence PROVE e \in D
    OBVIOUS
  <2>1. \/ \E o \in observations : e \in o.evidence
        \/ \E x \in t : e \in x.sources
    BY <1>1
  <2> QED BY <2>1, <1>2
<1> QED BY <1>3, <1>4 DEF C, D

LEMMA ArtifactsAreClosed ==
  ASSUME NEW call, Admitted(call), NEW in, Assembled(in, call),
         NEW v, v = Provenance(in)
  PROVE  /\ \A a \in v.artifacts : a[1] = "state" =>
              \E id \in StatesOfBundle(call) : a = <<"state", id>>
         /\ \A id \in StatesOfBundle(call) : <<"state", id>> \in v.artifacts
         /\ \A a \in v.artifacts : a[1] = "transition" =>
              in.transition # None /\ a = <<"transition", in.transition.id>>
<1> DEFINE observations == in.selection \union in.timing
           c == Made(in.candidate)
           t == Made(in.transition)
<1>1. v.artifacts =
        {<<"state", in.state.id>>, in.episode.id}
        \union {<<"observation", o.id>> : o \in observations}
        \union (UNION {o.artifacts : o \in observations})
        \union {<<"candidate", x.id>> : x \in c}
        \union {<<"transition", x.id>> : x \in t}
        \union UNION {x.artifacts : x \in t}
  BY ProvenanceParts
<1>2. /\ in.state = StateOf(call.key)
      /\ \E k : in.episode.id = <<"episode", k>>
      /\ \A o \in observations : \A a \in o.artifacts :
           Leads(a, StatesOfBundle(call), TransitionsOfBundle(in))
      /\ \A x \in t : \A a \in x.artifacts : Leads(a, StatesOfBundle(call), {})
      /\ \A id \in StatesOfBundle(call) :
           \/ id = in.state.id
           \/ \E o \in in.timing : <<"state", id>> \in o.artifacts
           \/ \E x \in t : <<"state", id>> \in x.artifacts
  BY PartsAreClosed
<1>3. in.state.id \in StatesOfBundle(call)
  BY <1>2, DrawnAreEarlier DEF StatesOfBundle
<1>4. \A x \in t : in.transition # None /\ x = in.transition
  BY DEF Made
<1>5. \A o \in in.timing : o \in observations
  OBVIOUS
<1> HIDE DEF observations, c, t
<1>6. ASSUME NEW a \in v.artifacts
      PROVE  /\ a[1] = "state" => \E id \in StatesOfBundle(call) : a = <<"state", id>>
             /\ a[1] = "transition" =>
                  in.transition # None /\ a = <<"transition", in.transition.id>>
  <2>1. CASE a = <<"state", in.state.id>>
    BY <2>1, <1>3
  <2>2. CASE a = in.episode.id
    BY <2>2, <1>2
  <2>3. CASE \E o \in observations : a = <<"observation", o.id>>
    BY <2>3
  <2>4. CASE \E o \in observations : a \in o.artifacts
    <3>1. Leads(a, StatesOfBundle(call), TransitionsOfBundle(in))
      BY <2>4, <1>2
    <3> QED BY <3>1 DEF Leads, Foreign, TransitionsOfBundle
  <2>5. CASE \E x \in c : a = <<"candidate", x.id>>
    BY <2>5
  <2>6. CASE \E x \in t : a = <<"transition", x.id>>
    BY <2>6, <1>4
  <2>7. CASE \E x \in t : a \in x.artifacts
    <3>1. Leads(a, StatesOfBundle(call), {})
      BY <2>7, <1>2
    <3> QED BY <3>1 DEF Leads, Foreign
  <2> QED BY <2>1, <2>2, <2>3, <2>4, <2>5, <2>6, <2>7, <1>1
<1>7. ASSUME NEW id \in StatesOfBundle(call)
      PROVE  <<"state", id>> \in v.artifacts
  <2>1. CASE id = in.state.id
    BY <2>1, <1>1
  <2>2. CASE \E o \in in.timing : <<"state", id>> \in o.artifacts
    BY <2>2, <1>1, <1>5
  <2>3. CASE \E x \in t : <<"state", id>> \in x.artifacts
    BY <2>3, <1>1
  <2> QED BY <2>1, <2>2, <2>3, <1>2
<1> QED BY <1>6, <1>7

-------------------------------------------------------------------------------
(* What the handoff guarantees                                               *)

\* Whatever is built, lost or exported again, what is at hand was made by a call that
\* was not refused, and every batch that is due or listed has its lines.
THEOREM HandoffInductive == HandoffSpec => []HandoffIInv
<1>1. HandoffInit => HandoffIInv
  BY FS_EmptySet DEF HandoffInit, HandoffIInv, ArtifactsMade, ExportWhole,
     TimingMade, TransitionMade, SelectionMade, CandidateIsMade
<1>2. HandoffIInv /\ [HandoffNext]_handoffVars => HandoffIInv'
  BY ArtifactsStayMade, ExportStaysWhole DEF HandoffIInv
<1> QED BY <1>1, <1>2, PTL DEF HandoffSpec

\* A manifest of a batch never stands before its file: the lines are replaced first,
\* and a lost process leaves lines without a manifest, never the reverse; each bundle
\* of a batch is of another asset or cutoff and was made before the export
\* (ResearchQuantHandoffExporter.export_batch).
THEOREM ManifestsHaveTheirLines == HandoffSpec => []ManifestHasItsLines
<1>1. HandoffIInv => ManifestHasItsLines
  BY DEF HandoffIInv, ExportWhole, Exported, ManifestHasItsLines
<1> QED BY <1>1, HandoffInductive, PTL

\* What is said of an asset at a cutoff depends on the question and on the asset's own
\* earlier states alone: two calls that were not refused agree, whatever later states or
\* states of other assets their histories held (select_predecessor, build_transition,
\* build_timing).
THEOREM PastDecidesTiming == HandoffSpec => []PastDecides
<1>1. ASSUME HandoffIInv
      PROVE  PastDecides
  <2> SUFFICES ASSUME timing # None, transition # None,
                      Question(timing) = Question(transition),
                      Past(timing) = Past(transition)
               PROVE  /\ TransitionOf(timing) = TransitionOf(transition)
                      /\ TimingOf(timing) = TimingOf(transition)
    BY DEF PastDecides
  <2>1. /\ timing \in TimingCalls /\ TimingOf(timing) # None
        /\ transition \in TimingCalls /\ TransitionOf(transition) # None
    BY <1>1 DEF HandoffIInv, ArtifactsMade, TimingMade, TransitionMade
  <2> QED BY <2>1, SamePastSameResults
<1> QED BY <1>1, HandoffInductive, PTL

\* A revision velocity compares three points at rising cutoffs, and calls the change
\* accelerating when the amount per day rose, however unequal the intervals are
\* (the velocity descriptor of the timing observations).
THEOREM VelocitiesArePerDay == HandoffSpec => []VelocityIsPerDay
<1>1. ASSUME HandoffIInv
      PROVE  VelocityIsPerDay
  <2> SUFFICES ASSUME NEW x \in TimingInputs, x[1] = timing,
                      NEW o \in TimingOf(timing),
                      o.family = "EXPECTATION_REVISION_VELOCITY",
                      o.coverage = "AVAILABLE"
               PROVE  LET history == Points(x[2])
                          last == SubSeq(history, Len(history) - 2, Len(history))
                          v == [i \in 1..3 |-> last[i].feature.value[2]]
                          days(i) == last[i].at - last[i - 1].at
                          Moved(i) == Absolute(v[i] - v[i - 1])
                          order == CHOOSE c \in o.components :
                                     c.name = "second_order_change"
                      IN /\ last[1].at < last[2].at /\ last[2].at < last[3].at
                         /\ (order.value = <<"text", "accelerating">>)
                              <=> (Moved(2) * days(3) < Moved(3) * days(2))
    BY DEF VelocityIsPerDay
  <2>1. timing \in TimingCalls /\ x[2] = TimingInput(timing)
    BY DEF TimingInputs
  <2>2. TimingOf(timing) # None
    BY <2>1, <1>1, HandoffAssumption DEF HandoffIInv, ArtifactsMade, TimingMade
  <2> QED BY <2>1, <2>2, VelocityHolds
<1> QED BY <1>1, HandoffInductive, PTL

\* A handoff bundle names every state and transition its parts were drawn from, and
\* holds no claim or evidence of another asset, of a later cutoff or of a state it does
\* not name, beyond those of the points of its velocity (build_handoff_bundle).
THEOREM BundlesAreClosed == HandoffSpec => []BundleIsClosed
<1>1. ASSUME HandoffIInv, NEW bundle \in bundles
      PROVE  LET call == bundle.call
                 own == Compared(call)
                 b == bundle.id
                 drawn == own \union Series(call)
                 features == UNION {{x[2] : x \in In(s, Sections)} : s \in drawn}
                 events == UNION {c.events : c \in Given(call)}
             IN /\ \A s \in drawn : /\ s.asset = b.asset
                                    /\ s.id = b.state \/ s.asOf < b.asOf
                /\ b.provenance.claims \subseteq
                     UNION {x.claims : x \in features \union events}
                /\ b.provenance.evidence \subseteq
                     UNION {x.evidence : x \in features \union events}
                /\ {a \in b.provenance.artifacts : a[1] = "state"}
                     = {<<"state", s.id>> : s \in own}
                /\ {a \in b.provenance.artifacts : a[1] = "transition"}
                     \subseteq {<<"transition", b.transition>>}
  <2> DEFINE call == bundle.call
             in == Parts(call)
             b == bundle.id
             S == StateOf(call.key)
             v == Provenance(in)
             drawn == Compared(call) \union Series(call)
             features == UNION {{x[2] : x \in In(s, Sections)} : s \in drawn}
             events == UNION {c.events : c \in Given(call)}
  <2>1. Admitted(call) /\ bundle = HandoffBundle(call, in) /\ Assembled(in, call)
    BY <1>1, PartsAreAssembled DEF HandoffIInv, ArtifactsMade, BundleMade, Admitted
  <2> HIDE DEF call, v
  <2>2. b = HandoffBundle(call, in).id
    BY <2>1
  <2>3. /\ b.asset = in.state.asset /\ b.asOf = in.state.asOf
        /\ b.state = in.state.id /\ b.provenance = v
        /\ b.transition = IF in.transition = None THEN None ELSE in.transition.id
    <3> HIDE DEF b, in
    <3> QED BY <2>2, BundleParts DEF v, in
  <2>4. in.state = S
    BY <2>1, PartsAreClosed
  <2> HIDE DEF b, in
  <2>5. \A s \in drawn : s.asset = b.asset /\ (s.id = b.state \/ s.asOf < b.asOf)
    BY <2>1, <2>3, <2>4, DrawnAreEarlier
  <2>6. features \union events = Held(call)
    BY DEF Held, FeaturesOf
  <2> HIDE DEF features, events
  <2>7. /\ v.claims \subseteq UNION {f.claims : f \in Held(call)}
        /\ v.evidence \subseteq UNION {f.evidence : f \in Held(call)}
    BY <2>1, ClaimsAreClosed DEF v, in
  <2>8. /\ \A a \in v.artifacts : a[1] = "state" =>
             \E id \in StatesOfBundle(call) : a = <<"state", id>>
        /\ \A id \in StatesOfBundle(call) : <<"state", id>> \in v.artifacts
        /\ \A a \in v.artifacts : a[1] = "transition" =>
             in.transition # None /\ a = <<"transition", in.transition.id>>
    BY <2>1, ArtifactsAreClosed DEF v, in
  <2>9. {a \in v.artifacts : a[1] = "state"} = {<<"state", s.id>> : s \in Compared(call)}
    <3>1. ASSUME NEW a \in v.artifacts, a[1] = "state"
          PROVE  \E s \in Compared(call) : a = <<"state", s.id>>
      BY <2>8, <3>1 DEF StatesOfBundle
    <3>2. ASSUME NEW s \in Compared(call)
          PROVE  <<"state", s.id>> \in v.artifacts
      BY <2>8 DEF StatesOfBundle
    <3> QED BY <3>1, <3>2
  <2>10. {a \in v.artifacts : a[1] = "transition"} \subseteq {<<"transition", b.transition>>}
    BY <2>3, <2>8
  <2>11. /\ v.claims \subseteq UNION {x.claims : x \in features \union events}
         /\ v.evidence \subseteq UNION {x.evidence : x \in features \union events}
    BY <2>6, <2>7
  <2> QED BY <2>3, <2>5, <2>9, <2>10, <2>11 DEF b, features, events, call
<1>2. HandoffIInv => BundleIsClosed
  BY <1>1 DEF BundleIsClosed
<1> QED BY <1>2, HandoffInductive, PTL
===============================================================================
