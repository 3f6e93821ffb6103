------------------------- MODULE ResearchAttribution -------------------------
(***************************************************************************)
(* Which context each agent run of an episode was provided with, selected  *)
(* and used: memories, sector claims and radar events, each use tied to    *)
(* the accepted claims it ended in.  A link says that a claim of a run     *)
(* refers to one piece of context.                                         *)
(***************************************************************************)
EXTENDS ResearchEpisode

Link(role, run, type, context, claim, accepted) ==
    [role |-> role, run |-> run, type |-> type, context |-> context,
     claim |-> claim, accepted |-> accepted]

(* The links the materializer recovers from the agent database.  It reads  *)
(* the rows of every report, and since claim ids do not name their report, *)
(* a later row replaces the claims of an earlier one in the index.  "rows" *)
(* is in the order of their creation.                                      *)
LatestClaims(rows) ==
    {c \in UNION {rows[i].accepted : i \in DOMAIN rows} :
        \E i \in DOMAIN rows :
            /\ c \in rows[i].accepted
            /\ \A j \in DOMAIN rows :
                  j > i => c.id \notin Ids(rows[j].accepted)}

ClaimLinks(rows, episode, ctx) ==
    LET sectorIds == Ids(ctx.claims)
        latest == LatestClaims(rows)
        index == latest \union {c \in ctx.claims : c.id \notin Ids(latest)}
        Own(t) == UNION {rows[i].accepted :
                    i \in {j \in DOMAIN rows : /\ rows[j].run = t.run
                                               /\ rows[j].role = t.role}}
        Contexts(u, s) ==
            {<<"sector_claim", s>>}
              \union {<<"radar_event", e.id>> :
                        e \in {f \in ctx.events : /\ s \in f.claims
                                                  /\ f.id \in u.usedEvents}}
        LinksOf(t, u) ==
            UNION {{Link(t.role, t.run, x[1], x[2], c.id, TRUE) :
                      x \in UNION {Contexts(u, s) :
                              s \in SectorAncestors(index, sectorIds, c)
                                      \intersect u.usedClaims}} :
                   c \in Own(t)}
    IN UNION {LinksOf(p[1], p[2]) :
              p \in {q \in episode.traces \X episode.usage :
                       q[1].role = q[2].role}}

---------------------------------------------------------------------------
(* Every link names a trace of the episode and a claim that trace accepted *)
(* or rejected.                                                            *)
LinksRejected(episode, links) ==
    \E l \in links :
        \/ ~ \E t \in episode.traces :
                /\ t.run = l.run /\ t.role = l.role
                /\ l.claim \in IF l.accepted THEN t.accepted ELSE t.rejected
        \/ \E k \in links : k # l /\ k = [l EXCEPT !.accepted = k.accepted]

LinkedTo(links, run, type, context, accepted) ==
    {l.claim : l \in {k \in links : /\ k.run = run /\ k.type = type
                                    /\ k.context = context
                                    /\ k.accepted = accepted}}

(* One context item of one run.                                            *)
Attributed(run, type, context, given, used, links, status) ==
    [run |-> run, type |-> type, context |-> context,
     provided |-> given, selected |-> given, used |-> used,
     usedBy |-> LinkedTo(links, run, type, context, TRUE),
     rejectedBy |-> LinkedTo(links, run, type, context, FALSE),
     status |-> status]

AttributionContract(a) ==
    /\ a.selected => a.provided
    /\ a.used => a.selected
    /\ a.usedBy \intersect a.rejectedBy = {}
    /\ a.usedBy # {} => a.used
    /\ a.used /\ a.status = "complete" => a.usedBy # {}
    /\ a.status = "not_available" => a.usedBy = {} /\ a.rejectedBy = {}

---------------------------------------------------------------------------
(* Memory: a provision is what one run's retrieval returned, candidates in *)
(* rank order.  A memory is used exactly when an accepted claim links it.  *)
CandidateVisible(c, cutoff) ==
    UsableAt([available |-> c.available, ingested |-> Unknown,
              asOf |-> Unknown, from |-> c.effective, to |-> Unknown],
             cutoff, "replay")

MemoryAttributions(provision, links) ==
    LET run == provision.run
    IN {Attributed(run, "memory", c.id, c.selected,
                   LinkedTo(links, run, "memory", c.id, TRUE) # {}, links,
                   "complete") :
        c \in provision.candidates}

MemoryRejected(episode, provision, links) ==
    \/ ~ \E t \in episode.traces :
            t.run = provision.run /\ t.role = provision.role
    \/ provision.asOf # episode.asOf
    \/ \E c \in provision.candidates :
          \/ ~CandidateVisible(c, episode.asOf)
          \/ ~c.scoped
          \/ /\ ~c.selected
             /\ \E l \in links : /\ l.run = provision.run
                                 /\ l.type = "memory" /\ l.context = c.id

---------------------------------------------------------------------------
(* Sector context: what the diagnostic of a role says it used must agree   *)
(* with the accepted links, unless the source run did not keep its claims. *)
LinkStatus(episode, used, accepted) ==
    IF used /\ accepted = {} THEN "not_available" ELSE "complete"

(* Mutant of DiagnosticRejected: a use without a claim always passes.      *)
UnevidencedUsePasses(episode, used, accepted) == accepted # {} /\ ~used

DiagnosticRejected(episode, used, accepted) ==
    \/ used /\ accepted = {} /\ episode.complete
    \/ accepted # {} /\ ~used

(* The runs a diagnostic is about: there must be exactly one.              *)
RunsOf(episode, role) == {t.run : t \in {u \in episode.traces : u.role = role}}

ContextAttributions(episode, run, type, shown, used, links) ==
    {LET accepted == LinkedTo(links, run, type, x, TRUE)
     IN Attributed(run, type, x, TRUE, x \in used, links,
                   LinkStatus(episode, x \in used, accepted)) :
     x \in shown}

UsageAttributions(episode, u, links) ==
    LET run == CHOOSE r \in RunsOf(episode, u.role) : TRUE
    IN ContextAttributions(episode, run, "sector_claim", u.claims,
                           u.usedClaims, links)
       \union ContextAttributions(episode, run, "radar_event", u.events,
                                  u.usedEvents, links)

(* The sources of an event are those of the claims that support it.        *)
EventSourced(ctx, e) ==
    /\ e.claims \subseteq Ids(ctx.claims)
    /\ \E c \in ctx.claims : c.id \in e.claims /\ c.sourced

UsageRejected(episode, ctx, u, links) ==
    \/ Cardinality(RunsOf(episode, u.role)) # 1
    \/ ~(u.claims \subseteq Ids(ctx.claims))
    \/ ~(u.events \subseteq {e.id : e \in ctx.events})
    \/ \E e \in ctx.events : e.id \in u.events /\ ~EventSourced(ctx, e)
    \/ \E x \in {<<"sector_claim", c, c \in u.usedClaims>> : c \in u.claims}
                 \union {<<"radar_event", e, e \in u.usedEvents>> :
                           e \in u.events} :
          \E r \in RunsOf(episode, u.role) :
              DiagnosticRejected(episode, x[3],
                                 LinkedTo(links, r, x[1], x[2], TRUE))

---------------------------------------------------------------------------
(* The whole artifact.  "ctx" is the frozen sector context or None.        *)
AttributionItems(episode, ctx, provisions, links) ==
    (UNION {MemoryAttributions(p, links) : p \in provisions})
      \union (IF ctx = None THEN {}
              ELSE UNION {UsageAttributions(episode, u, links) :
                          u \in episode.usage})

Attribution(episode, ctx, provisions, links) ==
    LET items == AttributionItems(episode, ctx, provisions, links)
    IN [id |-> <<episode.id, provisions, items>>,
        episodeId |-> episode.id, asOf |-> episode.asOf, items |-> items]

AttributionRejected(episode, ctx, provisions, links) ==
    \/ LinksRejected(episode, links)
    \/ \E p \in provisions : MemoryRejected(episode, p, links)
    \/ \E p, q \in provisions :                  \* one memory, provided twice
          /\ p # q /\ p.run = q.run
          /\ Ids(p.candidates) \intersect Ids(q.candidates) # {}
    \/ ctx = None /\ episode.usage # {}
    \/ /\ ctx # None
       /\ \/ ctx.id # episode.sectorId \/ ctx.asOf # episode.asOf
          \/ \E u \in episode.usage : UsageRejected(episode, ctx, u, links)
    \/ LET items == AttributionItems(episode, ctx, provisions, links)
       IN \/ \E l \in links :                    \* a link to nothing
                ~ \E a \in items : /\ a.run = l.run /\ a.type = l.type
                                   /\ a.context = l.context
          \/ \E a \in items : ~AttributionContract(a)
=============================================================================
