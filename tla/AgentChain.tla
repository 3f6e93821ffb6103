------------------------------ MODULE AgentChain ------------------------------
(***************************************************************************)
(* One research task: the analysts in their order, the Research Manager,   *)
(* the Bull and the Bear Manager and the Risk Manager.  Every agent asks   *)
(* the model at most twice, quarantines the claims of the answer, binds    *)
(* the rest to evidence or to claims accepted upstream and writes one      *)
(* audit row; ResearchCoordinator decides from the results how to go on.   *)
(* A claim is its id, its numeric literals and what it refers to: evidence *)
(* for an analyst, upstream claim ids for a manager.                       *)
(***************************************************************************)
EXTENDS Naturals, Sequences, FiniteSets

CONSTANTS
  Analysts,        \* ANALYST_ORDER
  Evidence, Literals, Ids,
  Manifest,        \* the evidence in the manifest of each analyst
  Tokens,          \* numeric_tokens of each evidence
  Grounds,         \* literals validate_numeric_grounding finds in each evidence
  Canonical,       \* claims the code itself appends for each analyst
  SectorClaims,    \* accepted claims of the sector context
  Minimum,         \* MINIMUM_VALID_CLAIMS of each role
  Answers,         \* the answers the model may give to each role
  RepairSupported  \* supports_structured_repair of the gateway

AnalystSet == {Analysts[i] : i \in 1..Len(Analysts)}
Managers   == {"research", "bull", "bear", "risk"}
Roles      == AnalystSet \union Managers
Chain      == Analysts \o <<"research", "bull", "bear", "risk">>

\* What a claim of an answer refers to, and an accepted claim.
Draft(r) ==
  [id : Ids, nums : SUBSET Literals,
   links : IF r \in AnalystSet THEN SUBSET Evidence ELSE SUBSET Ids]
Claim == [id : Ids, nums : SUBSET Literals, cites : SUBSET Evidence,
          parents : SUBSET Ids]

\* The literals that are tokens of a set of evidence.
TokensOf(cited) == UNION {Tokens[e] : e \in cited}

ASSUME ChainAssumption ==
  /\ Analysts \in Seq(AnalystSet) /\ Len(Analysts) >= 1
  /\ AnalystSet \intersect (Managers \union {"sector"}) = {}
  /\ \A i, j \in 1..Len(Analysts) : Analysts[i] = Analysts[j] => i = j
  /\ Manifest \in [AnalystSet -> SUBSET Evidence]
  /\ Tokens \in [Evidence -> SUBSET Literals]
  /\ Grounds \in [Evidence -> SUBSET Literals]
  /\ Minimum \in [Roles -> Nat]
  /\ RepairSupported \in BOOLEAN

\* Every answer has the form of the gateway's draft schema, and the claims of the
\* sector context were accepted by the same rules.
ASSUME ClaimsAssumption ==
  /\ \A a \in AnalystSet : Canonical[a] \subseteq Draft(a)
  /\ \A r \in Roles : Answers[r] \subseteq SUBSET Draft(r)
  /\ SectorClaims \subseteq Claim
  /\ \A c \in SectorClaims : c.cites # {} /\ c.nums \subseteq TokensOf(c.cites)

VARIABLES
  task,      \* "running", or how ResearchCoordinator.run ended
  turn,      \* whose turn it is in Chain
  calls,     \* gateway calls of that agent
  result,    \* status of each AgentExecutionResult
  accepted,  \* claim_evidence of each output, and the claims of the sector
  audit,     \* status of each row of agent_runs
  missing    \* missing_agents

vars == <<task, turn, calls, result, accepted, audit, missing>>

Init ==
  /\ task = "running" /\ turn = 1 /\ calls = 0
  /\ result = [r \in Roles |-> "none"]
  /\ accepted = [r \in Roles \union {"sector"} |->
                   IF r = "sector" THEN SectorClaims ELSE {}]
  /\ audit = [r \in Roles |-> "none"]
  /\ missing = {}

-------------------------------------------------------------------------------
(* BaseAgent: quarantine and strict validation of an answer                  *)

\* The code's own claims replace those of the model about the same evidence.
Enrich(r, answer) ==
  IF r \in AnalystSet
  THEN {c \in answer : \A d \in Canonical[r] : c.links \intersect d.links = {}}
         \union Canonical[r]
  ELSE answer

\* The outputs in a manager's input, in the order in which its contract lists them.
Upstream ==
  LET first == <<"sector">> \o Analysts
      theses == Append(first, "research")
  IN [research |-> first, bull |-> theses, bear |-> theses,
      risk |-> theses \o <<"bull", "bear">>]

UpstreamClaims(r) == UNION {accepted[Upstream[r][i]] : i \in 1..Len(Upstream[r])}

\* _upstream_claim_index: when two agents used one id, the later agent's claim.
Indexed(r, id, p) ==
  \E i \in 1..Len(Upstream[r]) :
    /\ p \in accepted[Upstream[r][i]] /\ p.id = id
    /\ \A j \in (i + 1)..Len(Upstream[r]) :
         \A q \in accepted[Upstream[r][j]] : q.id # id

Parents(r, c) == {p \in UpstreamClaims(r) : \E id \in c.links : Indexed(r, id, p)}

AnalystClaimHolds(r, c) ==
  /\ c.links # {} /\ c.links \subseteq Manifest[r]
  /\ \A n \in c.nums : \E e \in c.links : n \in Grounds[e]

\* Mutant of ManagerClaimHolds: literals are not looked up in the parents.
ManagerClaimAnyNumber(r, c) ==
  /\ c.links # {}
  /\ \A id \in c.links : \E p \in UpstreamClaims(r) : Indexed(r, id, p)

ManagerClaimHolds(r, c) ==
  /\ c.links # {}
  /\ \A id \in c.links : \E p \in UpstreamClaims(r) : Indexed(r, id, p)
  /\ \A n \in c.nums : \E p \in Parents(r, c) : n \in p.nums

Retained(r, answer) ==
  {c \in Enrich(r, answer) :
     IF r \in AnalystSet THEN AnalystClaimHolds(r, c) ELSE ManagerClaimHolds(r, c)}

\* The validation after the quarantine wants the literals of an analyst's claim
\* verbatim; for a manager it repeats the quarantine.
Verbatim(r, claims) ==
  r \in AnalystSet => \A c \in claims : c.nums \subseteq TokensOf(c.links)

\* Mutant of Accept: a manager's claim inherits everything its input cites.
AcceptAll(r, c) ==
  [id |-> c.id, nums |-> c.nums,
   cites |-> IF r \in AnalystSet THEN Manifest[r]
             ELSE UNION {p.cites : p \in UpstreamClaims(r)},
   parents |-> IF r \in AnalystSet THEN {} ELSE c.links]

Accept(r, c) ==
  [id |-> c.id, nums |-> c.nums,
   cites |-> IF r \in AnalystSet THEN c.links
             ELSE UNION {p.cites : p \in Parents(r, c)},
   parents |-> IF r \in AnalystSet THEN {} ELSE c.links]

-------------------------------------------------------------------------------
(* BaseAgent.run                                                             *)

Turn(r)     == task = "running" /\ Chain[turn] = r
Asking(r)   == Turn(r) /\ result[r] = "none"
Finished(r) == Turn(r) /\ result[r] # "none" /\ audit[r] = "none"

Ends(r, status, claims) ==
  /\ result' = [result EXCEPT ![r] = status]
  /\ accepted' = [accepted EXCEPT ![r] = claims]

\* The model answers within the schema; too few claims, or one that is not
\* verbatim, fail the agent without a repair.
Answer(r) ==
  /\ Asking(r)
  /\ calls' = calls + 1
  /\ \E answer \in Answers[r] :
       LET claims == Retained(r, answer)
       IN IF Cardinality(claims) >= Minimum[r] /\ Verbatim(r, claims)
          THEN Ends(r, "ok", {Accept(r, c) : c \in claims})
          ELSE Ends(r, "error", {})
  /\ UNCHANGED <<task, turn, audit, missing>>

\* Mutant of AnswerInvalid: every invalid answer is repaired.
AnswerInvalidAgain(r) ==
  /\ Asking(r)
  /\ calls' = IF calls = 1 THEN 2 ELSE 1
  /\ IF RepairSupported
     THEN UNCHANGED <<result, accepted>> ELSE Ends(r, "error", {})
  /\ UNCHANGED <<task, turn, audit, missing>>

\* LLMSchemaValidationError or ValidationError: one repair attempt.
AnswerInvalid(r) ==
  /\ Asking(r)
  /\ calls' = calls + 1
  /\ IF calls = 0 /\ RepairSupported
     THEN UNCHANGED <<result, accepted>> ELSE Ends(r, "error", {})
  /\ UNCHANGED <<task, turn, audit, missing>>

\* Any other exception, before, in or after a call of the gateway.
AgentFails(r) ==
  /\ Asking(r)
  /\ Ends(r, "error", {})
  /\ UNCHANGED <<task, turn, calls, audit, missing>>

\* Mutant of Save: only successful runs are audited, with the turn going on.
SaveOk(r) ==
  /\ Finished(r)
  /\ audit' = [audit EXCEPT ![r] = "ok"]
  /\ UNCHANGED <<task, turn, calls, result, accepted, missing>>

\* One row of agent_runs for every agent, successful or not.
Save(r) ==
  /\ Finished(r)
  /\ audit' = [audit EXCEPT ![r] = result[r]]
  /\ UNCHANGED <<task, turn, calls, result, accepted, missing>>

\* The save is outside of the try block: its error leaves the coordinator.
SaveFails(r) ==
  /\ Finished(r)
  /\ task' = "raised"
  /\ UNCHANGED <<turn, calls, result, accepted, audit, missing>>

-------------------------------------------------------------------------------
(* ResearchCoordinator.run                                                   *)

Returned(r) == Turn(r) /\ audit[r] # "none"

GoOn    == turn' = turn + 1 /\ calls' = 0 /\ UNCHANGED task
Stop(s) == task' = s /\ UNCHANGED <<turn, calls>>

Failed(rs) == {r \in rs : result[r] = "error"}

\* VersionedUpstreamOutputV1 refuses an output that uses a claim id twice, with a
\* ValidationError that nobody handles.
Repeats(r) == \E c, d \in accepted[r] : c # d /\ c.id = d.id

\* The next agent gets the outputs of rs, if they can be put in its contract.
HandOver(rs) == IF \E r \in rs : Repeats(r) THEN Stop("raised") ELSE GoOn

\* A failed analyst is listed as missing; the last analyst ends the task if all failed.
AnalystReturns(r) ==
  /\ r \in AnalystSet /\ Returned(r)
  /\ missing' = missing \union Failed({r})
  /\ IF turn < Len(Analysts) THEN GoOn
     ELSE IF Failed(AnalystSet) = AnalystSet THEN Stop("error")
     ELSE HandOver(AnalystSet)
  /\ UNCHANGED <<result, accepted, audit>>

\* Without the synthesis there is no thesis review.
ResearchReturns ==
  /\ Returned("research")
  /\ missing' = missing \union Failed({"research"})
  /\ IF result["research"] = "error" THEN Stop("error") ELSE HandOver({"research"})
  /\ UNCHANGED <<result, accepted, audit>>

\* The Bear Manager is asked whatever became of the Bull Manager.
BullReturns ==
  /\ Returned("bull")
  /\ GoOn
  /\ UNCHANGED <<result, accepted, audit, missing>>

\* Mutant of BearReturns: one thesis is enough for the risk review.
BearReturnsOneSided ==
  /\ Returned("bear")
  /\ missing' = missing \union Failed({"bull", "bear"})
  /\ IF Failed({"bull", "bear"}) = {"bull", "bear"} THEN Stop("error")
     ELSE HandOver({"bull", "bear"})
  /\ UNCHANGED <<result, accepted, audit>>

\* The risk review needs both theses.
BearReturns ==
  /\ Returned("bear")
  /\ missing' = missing \union Failed({"bull", "bear"})
  /\ IF Failed({"bull", "bear"}) # {} THEN Stop("error")
     ELSE HandOver({"bull", "bear"})
  /\ UNCHANGED <<result, accepted, audit>>

RiskReturns ==
  /\ Returned("risk")
  /\ missing' = missing \union Failed({"risk"})
  /\ Stop(result["risk"])
  /\ UNCHANGED <<result, accepted, audit>>

AgentStep(r) ==
  \/ Answer(r) \/ AnswerInvalid(r) \/ AgentFails(r) \/ Save(r) \/ SaveFails(r)

CoordinatorStep ==
  \/ \E r \in AnalystSet : AnalystReturns(r)
  \/ ResearchReturns \/ BullReturns \/ BearReturns \/ RiskReturns

Next == (\E r \in Roles : AgentStep(r)) \/ CoordinatorStep

Spec == Init /\ [][Next]_vars

\* The task is one thread; the gateway's timeouts end every call.
LiveSpec == Spec /\ WF_vars(Next)

-------------------------------------------------------------------------------
(* Properties                                                                *)

\* Types; only the agent whose turn it is may have a result without a row.
TypeOK ==
  /\ task \in {"running", "ok", "error", "raised"}
  /\ turn \in 1..Len(Chain)
  /\ calls \in 0..2
  /\ result \in [Roles -> {"none", "ok", "error"}]
  /\ accepted \in [Roles \union {"sector"} -> SUBSET Claim]
  /\ audit \in [Roles -> {"none", "ok", "error"}]
  /\ missing \subseteq Roles

\* However many agents a number has passed through, it is a token of evidence that
\* the claim cites, and no accepted claim is without evidence.
NumbersReachEvidence ==
  \A r \in Roles : \A c \in accepted[r] :
    c.cites # {} /\ c.nums \subseteq TokensOf(c.cites)

\* Evidence that an analyst which succeeded, or the sector context, has bound.
Bound ==
  UNION {c.cites : c \in accepted["sector"] \union
           UNION {accepted[a] : a \in {b \in AnalystSet : result[b] = "ok"}}}

\* A manager cites only through the claims it names: each id it names is an accepted
\* claim upstream whose evidence it inherits, it cites no evidence that none of them
\* has, and nothing that a failed analyst alone has bound.
ProvenanceIsAccepted ==
  \A r \in Managers : \A c \in accepted[r] :
    LET named == {p \in UpstreamClaims(r) : p.id \in c.parents}
    IN /\ \A id \in c.parents :
            \E p \in named : p.id = id /\ p.cites \subseteq c.cites
       /\ c.cites \subseteq UNION {p.cites : p \in named}
       /\ c.cites \subseteq Bound

\* A failed analyst is tolerated as long as one succeeds, any other failure stops
\* the review where the documents say, and a task that returns names exactly the
\* agents that failed.
FailurePolicy ==
  /\ result["research"] # "none" => \E a \in AnalystSet : result[a] = "ok"
  /\ \A r \in {"bull", "bear"} : result[r] # "none" => result["research"] = "ok"
  /\ result["risk"] # "none" => result["bull"] = "ok" /\ result["bear"] = "ok"
  /\ task = "ok" => \A r \in Managers : result[r] = "ok"
  /\ task \in {"ok", "error"} => missing = Failed(Roles)

\* A task that returns has an audit row with the right status for exactly the agents
\* it invoked, and one that raises lacks at most the row of the last of them.
AuditIsComplete ==
  /\ task \in {"ok", "error"} => audit = result
  /\ \A r \in Roles : audit[r] # result[r] => audit[r] = "none" /\ Chain[turn] = r

\* Every task ends, however often the model's answers are invalid.
TaskEnds == <>(task # "running")

\* "One invalid Analyst should remain visible while other evidence proceeds."  Only
\* an audit row that cannot be written may end the task with an exception.
InvalidAnalystIsOmitted == task = "raised" => audit # result
===============================================================================
