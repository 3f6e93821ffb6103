----------------------------- MODULE ReportAssembly -----------------------------
(***************************************************************************)
(* The report of a completed research task: ReportAssembler puts the       *)
(* accepted claims of the agents into the standard sections, or refuses,   *)
(* and a resumed live run adds the industry chain claims of a sector       *)
(* context to a report that exists.  The sections of an agent carry its    *)
(* name.  Wording, intents and the uncertainties an agent states (it may   *)
(* state none) are left out.                                               *)
(***************************************************************************)
EXTENDS AgentChain

CONSTANTS
  GroupOf,         \* role -> id -> the group of its section a claim is listed in
  Macro,           \* evidence of the provider of macro series
  Posts,           \* evidence that is a single community post
  Aggregates,      \* evidence that is a snapshot computed from posts
  ChainClaims,     \* the sector claims about an active industry chain
  LaterClaims      \* those of the context a resumed run is given

Groups == {"facts", "inferences", "risk_warnings"}

ASSUME AssemblyAssumption ==
  /\ {"sentiment", "news"} \subseteq AnalystSet
  /\ AnalystSet \intersect {"executive_view", "macro_context", "final_synthesis"} = {}
  /\ \A m \in Managers : Minimum[m] >= 1
  /\ Posts \intersect Aggregates = {}
  /\ ChainClaims \subseteq SectorClaims /\ LaterClaims \subseteq Claim
  /\ \A r \in Roles : GroupOf[r] \in [Ids -> Groups]

VARIABLES
  report,    \* "none", "refused" or "made"
  sections   \* name -> the statements of a section and its disclosures

reportVars == <<report, sections>>
allVars    == <<vars, report, sections>>

SectionNames ==
  AnalystSet \union {"executive_view", "macro_context", "bull", "bear", "risk",
                     "final_synthesis"}

Section(statements, notes) == [statements |-> statements, notes |-> notes]

AssemblyInit ==
  /\ Init
  /\ report = "none"
  /\ sections = [n \in SectionNames |-> Section({}, {})]

-------------------------------------------------------------------------------
(* Sections                                                                  *)

Statement(r, group, c) == [by |-> r, group |-> group, claim |-> c]

Statements(r) == {Statement(r, GroupOf[r][c.id], c) : c \in accepted[r]}

OfChains(claims) == {Statement("sector", "facts", c) : c \in claims}

\* Mutant of Keeps: one post among the citations is enough to leave a claim out.
KeepsWithoutPosts(c) == c.cites \intersect Posts = {}

\* _prefer_aggregate_sentiment: a claim that cites posts needs a snapshot as well.
Keeps(c) == c.cites \intersect Posts # {} => c.cites \intersect Aggregates # {}

Shown(r) ==
  IF r = "sentiment" THEN {s \in Statements(r) : Keeps(s.claim)} ELSE Statements(r)

\* An analyst without an output has an empty section that says so.
AnalystSection(r) ==
  Section(Shown(r), IF result[r] = "error" THEN {"unavailable"} ELSE {})

\* News on macro series, once more, whatever its group is there.
MacroStatements ==
  {[s EXCEPT !.group = "facts"] :
     s \in {t \in Statements("news") : t.claim.cites \intersect Macro # {}}}

MacroSection ==
  Section(MacroStatements, IF MacroStatements = {} THEN {"unaddressed"} ELSE {})

FinalStatements ==
  Statements("research")
    \union {s \in Statements("risk") : s.group = "risk_warnings"}

Sections ==
  [n \in SectionNames |->
     CASE n \in AnalystSet        -> AnalystSection(n)
       [] n \in Managers          -> Section(Statements(n), {})
       [] n = "executive_view"    -> Section(OfChains(ChainClaims)
                                               \union Statements("research"), {})
       [] n = "macro_context"     -> MacroSection
       [] n = "final_synthesis"   -> Section(FinalStatements, {})]

Said(n) == sections[n].statements

-------------------------------------------------------------------------------
(* ReportAssembler                                                           *)

\* Mutant of AssemblyRefused: every analyst must have succeeded.
AssemblyRefusedDegraded ==
  \E r \in Roles : accepted[r] = {} \/ \E c \in accepted[r] : c.cites = {}

\* An agent that succeeded has no content, or a claim has no citation.
AssemblyRefused ==
  \E r \in Roles :
    result[r] = "ok" /\ (accepted[r] = {} \/ \E c \in accepted[r] : c.cites = {})

\* The workflow hands over a task that completed, and no other.
Assemble ==
  /\ task = "ok" /\ report = "none"
  /\ IF AssemblyRefused
     THEN report' = "refused" /\ UNCHANGED sections
     ELSE report' = "made" /\ sections' = Sections
  /\ UNCHANGED vars

\* StandardReportSection refuses a section without any content when it is read.
Readable == \A n \in SectionNames : Said(n) # {} \/ sections[n].notes # {}

\* The claims of a context whose ids the executive view does not have.
Projected ==
  {c \in LaterClaims : \A s \in Said("executive_view") : s.claim.id # c.id}

\* surface_sector_context, by a live run that is resumed: it reads every section.
SurfaceSectorContext ==
  /\ report = "made" /\ Readable
  /\ sections' = [sections EXCEPT
                    !["executive_view"].statements = @ \union OfChains(Projected)]
  /\ UNCHANGED <<vars, report>>

AssemblyNext ==
  \/ Next /\ UNCHANGED reportVars
  \/ Assemble
  \/ SurfaceSectorContext

\* Reports are assembled by the thread of the task; an operator resumes a run.
AssemblySpec == AssemblyInit /\ [][AssemblyNext]_allVars /\ WF_vars(Next)

-------------------------------------------------------------------------------
(* Properties                                                                *)

\* A report says what the agents' accepted claims say, no less and no more: an
\* accepted claim is in the section of its agent (the Research Manager's are in
\* the executive view) unless it is about sentiment and rests on single posts
\* alone, news on macro series is in the macro context too, and every statement
\* is a claim of an agent that succeeded, or of the sector, on evidence that an
\* analyst which succeeded, or the sector context, has bound.
ReportIsItsClaims ==
  report = "made" =>
    /\ \A r \in Roles : \A c \in accepted[r] :
         LET home == IF r = "research" THEN "executive_view" ELSE r
         IN (\E s \in Said(home) : s.by = r /\ s.claim = c)
              <=> ~(r = "sentiment" /\ c.cites \intersect Posts # {}
                                    /\ c.cites \intersect Aggregates = {})
    /\ \A c \in accepted["news"] : c.cites \intersect Macro # {} =>
         \E s \in Said("macro_context") : s.claim = c
    /\ \A n \in SectionNames : \A s \in Said(n) :
         IF s.by = "sector" THEN s.claim \in SectorClaims \union LaterClaims
         ELSE /\ result[s.by] = "ok" /\ s.claim \in accepted[s.by]
              /\ s.claim.cites # {} /\ s.claim.cites \subseteq Bound

\* "The report assembler follows the coordinator's existing degraded-Analyst
\* contract" (ADR-0023): a failed analyst does not cost the report, its section
\* says that it failed, and a completed task has no report only when an analyst
\* succeeded without a single accepted claim.
FailedAnalystIsDisclosed ==
  /\ report = "made" => \A a \in AnalystSet : result[a] = "error" =>
       Said(a) = {} /\ "unavailable" \in sections[a].notes
  /\ report = "refused" => \E a \in AnalystSet : result[a] = "ok" /\ accepted[a] = {}

\* "Reject a section without evidence, analysis, risk, or uncertainty."
\* (StandardReportSection.require_content): a report that was made can be read.
SectionsHaveContent == report = "made" => Readable
===============================================================================
