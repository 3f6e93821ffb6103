--------------------------- MODULE ResearchEpisode ---------------------------
(***************************************************************************)
(* The record of one research process: which agent runs it had, what each  *)
(* was given and what became of its claims.  A run's claims are sets of    *)
(* [id, up, ...] records; a trace keeps their ids and, apart, their        *)
(* counts, since an old run may have persisted only the counts.            *)
(***************************************************************************)
EXTENDS ResearchState, FiniteSetsExt

(* The roles of the agents, and what each is shown of a sector context.    *)
CONSTANTS Roles,
          ShownClaims,       \* role -> sector claims projected to it
          ShownEvents        \* role -> radar events projected to it

Ids(claims) == {c.id : c \in claims}

(* The identities of the rejected claims of a run are made from the run    *)
(* and the claim's place in its output.                                    *)
RejectedIds(run, n) == {<<"rejected", run, i>> : i \in 1..n}

(* A complete trace, read from a row of agent_runs.                        *)
CompleteTrace(row) ==
    [role |-> row.role, run |-> row.run, status |-> row.status,
     provided |-> Ids(row.given), accepted |-> Ids(row.accepted),
     rejected |-> RejectedIds(row.run, row.rejected),
     acceptedCount |-> Cardinality(Ids(row.accepted)),
     rejectedCount |-> row.rejected,
     complete |-> TRUE, missing |-> {}]

(* A partial trace, read from a summary that kept only the counts.         *)
PartialTrace(role, metrics, usage) ==
    [role |-> role, run |-> <<"fixed", role>>, status |-> metrics.status,
     provided |-> UNION {u.claims : u \in {v \in usage : v.role = role}},
     accepted |-> {}, rejected |-> {},
     acceptedCount |-> metrics.valid, rejectedCount |-> metrics.rejected,
     complete |-> FALSE,
     missing |-> {"accepted_claim_ids", "latency_ms"}
                   \union IF metrics.rejected > 0
                          THEN {"rejected_claim_ids"} ELSE {}]

TraceContract(t) ==
    /\ t.accepted \intersect t.rejected = {}
    /\ t.acceptedCount >= Cardinality(t.accepted)
    /\ t.rejectedCount >= Cardinality(t.rejected)
    /\ t.complete <=> (t.missing = {})
    /\ t.complete => /\ t.acceptedCount = Cardinality(t.accepted)
                     /\ t.rejectedCount = Cardinality(t.rejected)

---------------------------------------------------------------------------
(* The claims a claim descends from, in an index of claims: it lies in     *)
(* every set that holds the parents of its members.  The climb stops at a  *)
(* sector claim.                                                           *)
ParentsIn(index, sectorIds, id) ==
    IF id \in sectorIds THEN {}
    ELSE UNION {c.up : c \in {d \in index : d.id = id}}

Ancestors(index, sectorIds, id) ==
    LET all == Ids(index) \union (UNION {c.up : c \in index}) \union {id}
        closed == {S \in SUBSET all :
                     /\ id \in S
                     /\ \A x \in S : ParentsIn(index, sectorIds, x) \subseteq S}
    IN {s \in sectorIds : \A S \in closed : s \in S}

SectorAncestors(index, sectorIds, claim) ==
    UNION {Ancestors(index, sectorIds, p) : p \in claim.up}

(* What each role was shown of the sector context and what its accepted    *)
(* claims used of it: one diagnostic for every role.  The index holds the  *)
(* claims of one report.                                                   *)
SectorUsage(ctx, rows) ==
    LET sectorIds == Ids(ctx.claims)
        index == ctx.claims \union UNION {r.accepted : r \in rows}
        Own(role) == UNION {r.accepted : r \in {q \in rows : q.role = role}}
        Used(role) == ShownClaims[role] \intersect
            UNION {SectorAncestors(index, sectorIds, c) : c \in Own(role)}
    IN {[role |-> role, context |-> ctx.id,
         claims |-> ShownClaims[role],
         usedClaims |-> Used(role),
         events |-> {e.id : e \in ctx.events} \intersect ShownEvents[role],
         usedEvents |-> {e.id : e \in {f \in ctx.events :
                            /\ f.id \in ShownEvents[role]
                            /\ f.claims \intersect Used(role) # {}}}] :
        role \in Roles}

---------------------------------------------------------------------------
(* The inputs of an episode: the state it ran under, its traces, its       *)
(* sector usage, the source run's own timestamp.                           *)
SectorClaimsOf(state) ==
    UNION {f.claims : f \in state.sections["macro"].features
                               \union state.sections["sector"].features}

EpisodeIsComplete(in) ==
    in.missing = {} /\ \A t \in in.traces : t.complete

(* Mutant of RunsDisagree: the state may hold the claims of more runs.     *)
RunsMissing(state, runs) ==
    state.agentRuns # {} /\ ~(runs \subseteq state.agentRuns)

(* The runs whose claims the state holds are the runs of the episode; a    *)
(* state without claims goes with any.                                     *)
RunsDisagree(state, runs) ==
    state.agentRuns # {} /\ state.agentRuns # runs

EpisodeRejected(in) ==
    LET state == in.state
        runs == {t.run : t \in in.traces}
    IN \/ RunsDisagree(state, runs)
       \/ /\ in.usage # {}
          /\ \/ state.sectorId = None
             \/ \E u \in in.usage : u.context # state.sectorId
             \/ ~(UNION {u.claims : u \in in.usage}
                    \subseteq SectorClaimsOf(state))
       \/ \E t \in in.traces : ~TraceContract(t)
       \/ \E t, u \in in.traces : t # u /\ t.run = u.run
       \/ /\ EpisodeIsComplete(in)
          /\ \/ MapThenSumSet(LAMBDA t : t.acceptedCount, in.traces)
                  # Cardinality(UNION {t.accepted : t \in in.traces})
             \/ MapThenSumSet(LAMBDA t : t.rejectedCount, in.traces)
                  # Cardinality(UNION {t.rejected : t \in in.traces})

AcceptedBy(in, roles) ==
    UNION {t.accepted : t \in {u \in in.traces : u.role \in roles}}

EpisodeId(in) ==
    [state |-> in.state.id, traces |-> in.traces, usage |-> in.usage,
     report |-> in.report, created |-> in.created, missing |-> in.missing]

Episode(in) ==
    [id |-> EpisodeId(in),
     asset |-> in.state.asset, asOf |-> in.state.asOf,
     stateId |-> in.state.id, dataId |-> in.state.dataId,
     sectorId |-> in.state.sectorId, memoryId |-> in.state.memoryId,
     agentRuns |-> {t.run : t \in in.traces},
     provided |-> (UNION {t.provided : t \in in.traces})
                    \union UNION {u.claims : u \in in.usage},
     accepted |-> UNION {t.accepted : t \in in.traces},
     rejected |-> UNION {t.rejected : t \in in.traces},
     final |-> AcceptedBy(in, {"research_manager", "bull_manager",
                               "bear_manager", "risk_manager"}),
     traces |-> in.traces, usage |-> in.usage,
     complete |-> EpisodeIsComplete(in),
     missing |-> in.missing \union UNION {t.missing : t \in in.traces},
     created |-> in.created]
=============================================================================
