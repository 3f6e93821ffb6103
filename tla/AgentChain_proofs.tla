-------------------------- MODULE AgentChain_proofs --------------------------
(***************************************************************************)
(* Provenance, failure policy and audit of AgentChain, for every number of *)
(* analysts and every set of evidence, claims and answers; and of the      *)
(* report ReportAssembly makes of it, for every kind of evidence and every *)
(* context a resumed run is given.                                         *)
(***************************************************************************)
EXTENDS ReportAssembly, SequenceTheorems, FiniteSetTheorems, TLAPS

K == Len(Analysts)

\* Everyone whose output an agent may read.
Sources == Roles \union {"sector"}

-------------------------------------------------------------------------------
(* The order of the agents                                                   *)

LEMMA AnalystsAreSources ==
  /\ Analysts \in Seq(Sources) /\ Len(Analysts) \in Nat /\ Len(Analysts) >= 1
  /\ \A i \in 1..Len(Analysts) : Analysts[i] \in AnalystSet
<1>1. Analysts \in Seq(AnalystSet) /\ Len(Analysts) >= 1
  BY ChainAssumption
<1>2. AnalystSet \subseteq Sources
  BY DEF Sources, Roles
<1> QED
  BY <1>1, <1>2, SeqMonotonic

\* The chain is the analysts and then the four managers, every role once.
LEMMA ChainFacts ==
  /\ K \in Nat /\ K >= 1
  /\ Len(Chain) = K + 4
  /\ \A i \in 1..K : Chain[i] = Analysts[i] /\ Chain[i] \in AnalystSet
  /\ Chain[K + 1] = "research" /\ Chain[K + 2] = "bull"
  /\ Chain[K + 3] = "bear" /\ Chain[K + 4] = "risk"
<1> DEFINE M == <<"research", "bull", "bear", "risk">>
<1>1. Analysts \in Seq(Sources) /\ K >= 1 /\ K \in Nat
  BY AnalystsAreSources DEF K
<1>2. M \in Seq(Sources) /\ Len(M) = 4
  BY DEF Sources, Roles, Managers
<1>3. Len(Chain) = K + 4
  BY <1>1, <1>2 DEF Chain, K
<1>4. \A i \in 1..K : Chain[i] = Analysts[i] /\ Chain[i] \in AnalystSet
  BY <1>1, <1>2, AnalystsAreSources DEF Chain, K
<1>5. \A i \in 1..4 : Chain[K + i] = M[i]
  BY <1>1, <1>2 DEF Chain, K
<1>6. M[1] = "research" /\ M[2] = "bull" /\ M[3] = "bear" /\ M[4] = "risk"
  OBVIOUS
<1> QED
  BY <1>1, <1>3, <1>4, <1>5, <1>6

\* Two places of the chain have two roles.
LEMMA ChainIsInjective ==
  \A i, j \in 1..Len(Chain) : Chain[i] = Chain[j] => i = j
<1>1. \A i, j \in 1..K : Chain[i] = Chain[j] => i = j
  BY ChainFacts, ChainAssumption DEF K
<1>2. \A i \in 1..K : Chain[i] \notin Managers
  BY ChainFacts, ChainAssumption
<1>3. \A i \in 1..K + 4 : i \in 1..K \/ i = K + 1 \/ i = K + 2 \/ i = K + 3 \/ i = K + 4
  BY ChainFacts
<1> QED
  BY <1>1, <1>2, <1>3, ChainFacts DEF Managers

\* Every role has its place.
LEMMA EveryRoleHasAPlace ==
  /\ \A i \in 1..Len(Chain) : Chain[i] \in Roles
  /\ \A r \in Roles : \E i \in 1..Len(Chain) : Chain[i] = r
  /\ \A a \in AnalystSet : \E i \in 1..K : Chain[i] = a
  /\ AnalystSet \intersect Managers = {} /\ "sector" \notin Roles
<1>1. \A a \in AnalystSet : \E i \in 1..K : Chain[i] = a
  BY ChainFacts DEF AnalystSet, K
<1>2. \A i \in 1..K + 4 : i \in 1..K \/ i = K + 1 \/ i = K + 2 \/ i = K + 3 \/ i = K + 4
  BY ChainFacts
<1>3. \A i \in 1..Len(Chain) : Chain[i] \in Roles
  BY <1>2, ChainFacts DEF Roles, Managers
<1>4. \A r \in Managers : \E i \in 1..Len(Chain) : Chain[i] = r
  BY ChainFacts DEF Managers
<1>5. AnalystSet \intersect Managers = {} /\ "sector" \notin Roles
  BY ChainAssumption DEF Roles, Managers
<1> QED
  BY <1>1, <1>3, <1>4, <1>5, ChainFacts DEF Roles

\* A sequence followed by two elements.
LEMMA TwoMore ==
  ASSUME NEW S, NEW s \in Seq(S), NEW t \in Seq(S), Len(t) = 2
  PROVE  /\ Len(s) \in Nat /\ Len(s \o t) = Len(s) + 2
         /\ \A i \in 1..Len(s) : (s \o t)[i] = s[i]
         /\ (s \o t)[Len(s) + 1] = t[1] /\ (s \o t)[Len(s) + 2] = t[2]
<1> DEFINE u == s \o t
<1>1. /\ Len(u) = Len(s) + Len(t)
      /\ \A i \in 1..Len(s) + Len(t) : u[i] = IF i <= Len(s) THEN s[i] ELSE t[i - Len(s)]
  BY ConcatProperties
<1>2. PICK n \in Nat : n = Len(s)
  OBVIOUS
<1> HIDE DEF u
<1>3. Len(u) = n + 2 /\ \A i \in 1..n + 2 : u[i] = IF i <= n THEN s[i] ELSE t[i - n]
  BY <1>1, <1>2
<1>4. u[n + 1] = t[1] /\ u[n + 2] = t[2]
  BY <1>3
<1>5. \A i \in 1..n : u[i] = s[i]
  BY <1>3
<1> QED
  BY <1>2, <1>3, <1>4, <1>5 DEF u

\* What a manager reads is the sector context or an agent before it.
LEMMA UpstreamIsEarlier ==
  \A r \in Managers : \A i \in 1..Len(Upstream[r]) :
    \/ Upstream[r][i] = "sector"
    \/ \E j, k \in 1..Len(Chain) : Chain[j] = Upstream[r][i] /\ Chain[k] = r /\ j < k
<1> DEFINE first  == <<"sector">> \o Analysts
           theses == Append(first, "research")
           all    == theses \o <<"bull", "bear">>
<1>1. first \in Seq(Sources) /\ Len(first) = K + 1
  BY AnalystsAreSources DEF K, Sources
<1>2. \A i \in 1..K + 1 : first[i] = "sector" \/ \E j \in 1..K : first[i] = Chain[j]
  <2>1. <<"sector">> \in Seq(Sources) /\ Len(<<"sector">>) = 1
    BY DEF Sources
  <2>2. \A i \in 1..1 + K : first[i] = IF i <= 1 THEN <<"sector">>[i] ELSE Analysts[i - 1]
    BY <2>1, AnalystsAreSources, ConcatProperties DEF K
  <2>3. K \in Nat /\ \A i \in 1..K : Analysts[i] = Chain[i]
    BY ChainFacts
  <2> HIDE DEF first
  <2>4. first[1] = "sector" /\ \A i \in 2..K + 1 : first[i] = Analysts[i - 1]
    BY <2>2, <2>3
  <2> QED  BY <2>3, <2>4
<1>3. theses \in Seq(Sources) /\ Len(theses) = K + 2
  BY <1>1, ChainFacts DEF Sources, Roles, Managers
<1>4. \A i \in 1..K + 2 : theses[i] = "sector" \/ \E j \in 1..K + 1 : theses[i] = Chain[j]
  <2> SUFFICES ASSUME NEW i \in 1..K + 2
               PROVE  theses[i] = "sector" \/ \E j \in 1..K + 1 : theses[i] = Chain[j]
    OBVIOUS
  <2>1. CASE i \in 1..K + 1
    <3>1. theses[i] = first[i]
      BY <1>1, <2>1, ChainFacts
    <3> HIDE DEF first, theses
    <3> QED  BY <3>1, <2>1, <1>2, ChainFacts
  <2>2. CASE i = K + 2
    <3>1. theses[i] = "research"
      BY <1>1, <2>2, ChainFacts
    <3> HIDE DEF first, theses
    <3> QED  BY <3>1, ChainFacts
  <2> HIDE DEF first, theses
  <2> QED  BY <2>1, <2>2, ChainFacts
<1>5. /\ Len(all) = K + 4
      /\ \A i \in 1..K + 2 : all[i] = theses[i]
      /\ all[K + 3] = "bull" /\ all[K + 4] = "bear"
  <2> DEFINE both == <<"bull", "bear">>
  <2>1. both \in Seq(Sources) /\ Len(both) = 2 /\ both[1] = "bull" /\ both[2] = "bear"
    BY DEF Sources, Roles, Managers
  <2> HIDE DEF theses, both
  <2>2. /\ Len(theses \o both) = K + 4
        /\ \A i \in 1..K + 2 : (theses \o both)[i] = theses[i]
        /\ (theses \o both)[K + 3] = both[1] /\ (theses \o both)[K + 4] = both[2]
    BY <1>3, <2>1, TwoMore, ChainFacts
  <2> QED  BY <2>1, <2>2 DEF both
<1>6. \A i \in 1..K + 4 : all[i] = "sector" \/ \E j \in 1..K + 3 : all[i] = Chain[j]
  <2> SUFFICES ASSUME NEW i \in 1..K + 4
               PROVE  all[i] = "sector" \/ \E j \in 1..K + 3 : all[i] = Chain[j]
    OBVIOUS
  <2> HIDE DEF theses, all
  <2>1. CASE i \in 1..K + 2
    BY <2>1, <1>4, <1>5, ChainFacts
  <2>2. CASE i = K + 3 \/ i = K + 4
    BY <2>2, <1>5, ChainFacts
  <2> QED  BY <2>1, <2>2, ChainFacts
<1>7. /\ Upstream["research"] = first /\ Upstream["bull"] = theses
      /\ Upstream["bear"] = theses /\ Upstream["risk"] = all
  BY DEF Upstream
<1> HIDE DEF first, theses, all
<1>8. \A i \in 1..Len(Upstream["research"]) :
        \/ Upstream["research"][i] = "sector"
        \/ \E j \in 1..Len(Chain) : Chain[j] = Upstream["research"][i] /\ j < K + 1
  BY <1>1, <1>2, <1>7, ChainFacts
<1>9. \A i \in 1..Len(Upstream["bull"]) :
        \/ Upstream["bull"][i] = "sector"
        \/ \E j \in 1..Len(Chain) : Chain[j] = Upstream["bull"][i] /\ j < K + 2
  BY <1>3, <1>4, <1>7, ChainFacts
<1>10. \A i \in 1..Len(Upstream["bear"]) :
        \/ Upstream["bear"][i] = "sector"
        \/ \E j \in 1..Len(Chain) : Chain[j] = Upstream["bear"][i] /\ j < K + 3
  BY <1>3, <1>4, <1>7, ChainFacts
<1>11. \A i \in 1..Len(Upstream["risk"]) :
        \/ Upstream["risk"][i] = "sector"
        \/ \E j \in 1..Len(Chain) : Chain[j] = Upstream["risk"][i] /\ j < K + 4
  BY <1>5, <1>6, <1>7, ChainFacts
<1> QED
  BY <1>8, <1>9, <1>10, <1>11, ChainFacts DEF Managers

-------------------------------------------------------------------------------
(* How a step changes the results                                            *)

\* The two ways in which an agent ends.
Fails(r) == Asking(r) /\ Ends(r, "error", {})

Succeeds(r) ==
  /\ Asking(r)
  /\ \E answer \in Answers[r] :
       /\ Verbatim(r, Retained(r, answer))
       /\ Ends(r, "ok", {Accept(r, c) : c \in Retained(r, answer)})

LEMMA AnswerEnds ==
  ASSUME NEW r \in Roles, Answer(r)
  PROVE  Fails(r) \/ Succeeds(r)
<1>1. PICK answer \in Answers[r] :
        IF Cardinality(Retained(r, answer)) >= Minimum[r] /\ Verbatim(r, Retained(r, answer))
        THEN Ends(r, "ok", {Accept(r, c) : c \in Retained(r, answer)})
        ELSE Ends(r, "error", {})
  BY DEF Answer
<1>2. Asking(r)
  BY DEF Answer
<1>3. \/ Ends(r, "error", {})
      \/ /\ Verbatim(r, Retained(r, answer))
         /\ Ends(r, "ok", {Accept(r, c) : c \in Retained(r, answer)})
  BY <1>1
<1> QED
  BY <1>2, <1>3 DEF Fails, Succeeds

\* A step ends the agent whose turn it is, or changes no result.
LEMMA ResultSteps ==
  ASSUME [Next]_vars
  PROVE  \/ \E r \in Roles : /\ Fails(r) \/ Succeeds(r)
                             /\ UNCHANGED <<task, turn, audit, missing>>
         \/ UNCHANGED <<result, accepted>>
<1>2. ASSUME NEW r \in Roles, AgentStep(r)
      PROVE  \/ /\ Fails(r) \/ Succeeds(r)
                /\ UNCHANGED <<task, turn, audit, missing>>
             \/ UNCHANGED <<result, accepted>>
  <2>1. CASE Answer(r)
    BY <2>1, AnswerEnds DEF Answer
  <2>2. CASE AnswerInvalid(r)
    BY <2>2 DEF AnswerInvalid, Fails
  <2>3. CASE AgentFails(r)
    BY <2>3 DEF AgentFails, Fails
  <2>4. CASE Save(r) \/ SaveFails(r)
    BY <2>4 DEF Save, SaveFails
  <2> QED  BY <1>2, <2>1, <2>2, <2>3, <2>4 DEF AgentStep
<1>3. CoordinatorStep => UNCHANGED <<result, accepted>>
  BY DEF CoordinatorStep, AnalystReturns, ResearchReturns, BullReturns, BearReturns,
         RiskReturns
<1>4. UNCHANGED vars => UNCHANGED <<result, accepted>>
  BY DEF vars
<1> QED
  BY <1>2, <1>3, <1>4 DEF Next

\* A claim that survives the quarantine has the form of a draft and holds.
LEMMA RetainedHolds ==
  ASSUME NEW r \in Roles, NEW answer \in Answers[r], NEW c \in Retained(r, answer)
  PROVE  /\ c \in Draft(r)
         /\ r \in AnalystSet => AnalystClaimHolds(r, c)
         /\ r \notin AnalystSet => ManagerClaimHolds(r, c)
<1>1. answer \subseteq Draft(r)
  BY ClaimsAssumption
<1>2. c \in Enrich(r, answer)
  BY DEF Retained
<1>3. c \in answer \/ (r \in AnalystSet /\ c \in Canonical[r])
  <2>1. CASE r \in AnalystSet
    <3>1. c \in {d \in answer : \A e \in Canonical[r] : d.links \intersect e.links = {}}
                 \union Canonical[r]
      BY <1>2, <2>1, Zenon DEF Enrich
    <3> QED  BY <2>1, <3>1
  <2>2. CASE r \notin AnalystSet
    BY <1>2, <2>2, Zenon DEF Enrich
  <2> QED  BY <2>1, <2>2
<1>4. c \in Draft(r)
  BY <1>1, <1>3, ClaimsAssumption
<1>5. IF r \in AnalystSet THEN AnalystClaimHolds(r, c) ELSE ManagerClaimHolds(r, c)
  BY DEF Retained
<1> QED
  BY <1>4, <1>5

LEMMA DraftFields ==
  ASSUME NEW r \in Roles, NEW c \in Draft(r)
  PROVE  /\ c.id \in Ids /\ c.nums \in SUBSET Literals
         /\ r \in AnalystSet => c.links \in SUBSET Evidence
         /\ r \notin AnalystSet => c.links \in SUBSET Ids
BY DEF Draft

\* The claims a manager reads were accepted of an agent or of the sector context.
LEMMA UpstreamAccepted ==
  ASSUME NEW r \in Managers, NEW p \in UpstreamClaims(r)
  PROVE  \E q \in Sources : p \in accepted[q]
<1>1. PICK i \in 1..Len(Upstream[r]) : p \in accepted[Upstream[r][i]]
  BY DEF UpstreamClaims
<1>2. Upstream[r][i] \in Sources
  BY UpstreamIsEarlier, EveryRoleHasAPlace DEF Sources
<1> QED
  BY <1>1, <1>2

LEMMA AcceptedIsTyped ==
  ASSUME accepted \in [Sources -> SUBSET Claim],
         NEW r \in Roles, NEW answer \in Answers[r], NEW c \in Retained(r, answer)
  PROVE  Accept(r, c) \in Claim
<1>1. c \in Draft(r)
  BY RetainedHolds
<1>2. /\ c.id \in Ids /\ c.nums \in SUBSET Literals
      /\ r \in AnalystSet => c.links \in SUBSET Evidence
      /\ r \notin AnalystSet => c.links \in SUBSET Ids
  BY <1>1, DraftFields
<1>3. CASE r \in AnalystSet
  BY <1>2, <1>3 DEF Accept, Claim
<1>4. CASE r \notin AnalystSet
  <2>1. \A p \in Parents(r, c) : p.cites \in SUBSET Evidence
    <3> SUFFICES ASSUME NEW p \in Parents(r, c)  PROVE p.cites \in SUBSET Evidence
      OBVIOUS
    <3>1. p \in UpstreamClaims(r) /\ r \in Managers
      BY <1>4 DEF Parents, Roles
    <3>2. p \in Claim
      BY <3>1, UpstreamAccepted
    <3> QED  BY <3>2 DEF Claim
  <2>2. UNION {p.cites : p \in Parents(r, c)} \in SUBSET Evidence
    BY <2>1
  <2> QED  BY <1>2, <1>4, <2>2 DEF Accept, Claim
<1> QED
  BY <1>3, <1>4

-------------------------------------------------------------------------------
(* Numbers and evidence                                                      *)

\* What the accepted claims are, and where they come from.
Accepted ==
  /\ accepted \in [Sources -> SUBSET Claim]
  /\ accepted["sector"] = SectorClaims
  /\ result \in [Roles -> {"none", "ok", "error"}]
  /\ \A r \in Roles : accepted[r] # {} => result[r] = "ok"

LEMMA InitAccepted == Init => Accepted /\ NumbersReachEvidence
BY ClaimsAssumption, EveryRoleHasAPlace DEF Init, Accepted, NumbersReachEvidence, Sources, Roles

\* Every claim that a manager can read is bound to evidence with its numbers.
LEMMA UpstreamIsGrounded ==
  ASSUME Accepted, NumbersReachEvidence, NEW r \in Managers, NEW p \in UpstreamClaims(r)
  PROVE  p \in Claim /\ p.cites # {} /\ p.nums \subseteq TokensOf(p.cites)
<1>1. PICK q \in Sources : p \in accepted[q]
  BY UpstreamAccepted
<1>2. p \in Claim
  BY <1>1 DEF Accepted
<1>3. CASE q = "sector"
  BY <1>1, <1>2, <1>3, ClaimsAssumption DEF Accepted
<1>4. CASE q \in Roles
  BY <1>1, <1>2, <1>4 DEF NumbersReachEvidence
<1> QED
  BY <1>3, <1>4 DEF Sources

\* More evidence has more tokens.
LEMMA TokensGrow ==
  ASSUME NEW A, NEW B, A \subseteq B
  PROVE  TokensOf(A) \subseteq TokensOf(B)
BY DEF TokensOf

LEMMA AcceptedReachesEvidence ==
  ASSUME Accepted, NumbersReachEvidence, NEW r \in Roles, NEW answer \in Answers[r],
         Verbatim(r, Retained(r, answer)), NEW c \in Retained(r, answer)
  PROVE  /\ Accept(r, c).cites # {}
         /\ Accept(r, c).nums \subseteq TokensOf(Accept(r, c).cites)
<1>1. CASE r \in AnalystSet
  <2>1. Accept(r, c).cites = c.links /\ Accept(r, c).nums = c.nums
    BY <1>1 DEF Accept
  <2>2. c.links # {}
    BY <1>1, RetainedHolds DEF AnalystClaimHolds
  <2>3. c.nums \subseteq TokensOf(c.links)
    BY <1>1 DEF Verbatim
  <2> QED  BY <2>1, <2>2, <2>3
<1>2. CASE r \notin AnalystSet
  <2>1. r \in Managers
    BY <1>2 DEF Roles
  <2> DEFINE cites == UNION {p.cites : p \in Parents(r, c)}
  <2>2. Accept(r, c).cites = cites /\ Accept(r, c).nums = c.nums
    BY <1>2 DEF Accept
  <2>3. ManagerClaimHolds(r, c)
    BY <1>2, RetainedHolds
  <2>4. \A p \in Parents(r, c) : p \in UpstreamClaims(r) /\ p.cites \subseteq cites
    BY DEF Parents
  <2>5. PICK id \in c.links : \E p \in UpstreamClaims(r) : Indexed(r, id, p)
    BY <2>3 DEF ManagerClaimHolds
  <2>6. PICK p \in Parents(r, c) : TRUE
    BY <2>5 DEF Parents
  <2>7. cites # {}
    BY <2>1, <2>4, <2>6, UpstreamIsGrounded
  <2>8. ASSUME NEW n \in c.nums  PROVE n \in TokensOf(cites)
    <3>1. PICK q \in Parents(r, c) : n \in q.nums
      BY <2>3 DEF ManagerClaimHolds
    <3>2. n \in TokensOf(q.cites)
      BY <2>1, <2>4, <3>1, UpstreamIsGrounded
    <3> HIDE DEF cites
    <3> QED  BY <2>4, <3>2, TokensGrow
  <2> QED  BY <2>2, <2>7, <2>8
<1> QED
  BY <1>1, <1>2

LEMMA NextAccepted ==
  Accepted /\ NumbersReachEvidence /\ [Next]_vars => Accepted' /\ NumbersReachEvidence'
<1> SUFFICES ASSUME Accepted, NumbersReachEvidence, [Next]_vars
             PROVE  Accepted' /\ NumbersReachEvidence'
  OBVIOUS
<1>1. CASE UNCHANGED <<result, accepted>>
  BY <1>1 DEF Accepted, NumbersReachEvidence
<1>2. ASSUME NEW r \in Roles, Fails(r)
      PROVE  Accepted' /\ NumbersReachEvidence'
  <2>1. /\ accepted' = [accepted EXCEPT ![r] = {}]
        /\ result' = [result EXCEPT ![r] = "error"]
    BY <1>2 DEF Fails, Ends
  <2>2. \A q \in Sources : q # r => accepted'[q] = accepted[q]
    BY <2>1 DEF Accepted
  <2>3. accepted'[r] = {} /\ accepted' \in [Sources -> SUBSET Claim]
    BY <2>1 DEF Accepted, Sources
  <2>4. \A q \in Roles : accepted'[q] # {} => result'[q] = "ok"
    BY <2>1, <2>2, <2>3 DEF Accepted, Sources, Fails, Asking
  <2>5. result' \in [Roles -> {"none", "ok", "error"}]
    BY <2>1 DEF Accepted
  <2> QED  BY <2>2, <2>3, <2>4, <2>5, EveryRoleHasAPlace
           DEF Accepted, NumbersReachEvidence, Sources
<1>3. ASSUME NEW r \in Roles, Succeeds(r)
      PROVE  Accepted' /\ NumbersReachEvidence'
  <2>1. PICK answer \in Answers[r] :
          /\ Verbatim(r, Retained(r, answer))
          /\ Ends(r, "ok", {Accept(r, c) : c \in Retained(r, answer)})
    BY <1>3 DEF Succeeds
  <2> DEFINE new == {Accept(r, c) : c \in Retained(r, answer)}
  <2>2. /\ new \in SUBSET Claim
        /\ \A c \in new : c.cites # {} /\ c.nums \subseteq TokensOf(c.cites)
    BY <2>1, AcceptedIsTyped, AcceptedReachesEvidence DEF Accepted
  <2>3. /\ accepted' = [accepted EXCEPT ![r] = new]
        /\ result' = [result EXCEPT ![r] = "ok"]
    BY <2>1 DEF Ends
  <2> HIDE DEF new
  <2>4. \A q \in Sources : q # r => accepted'[q] = accepted[q]
    BY <2>3 DEF Accepted
  <2>5. accepted'[r] = new /\ accepted' \in [Sources -> SUBSET Claim]
    BY <2>2, <2>3 DEF Accepted, Sources
  <2>6. \A q \in Roles : accepted'[q] # {} => result'[q] = "ok"
    BY <2>3, <2>4 DEF Accepted, Sources
  <2>7. result' \in [Roles -> {"none", "ok", "error"}]
    BY <2>3 DEF Accepted
  <2> QED  BY <2>2, <2>4, <2>5, <2>6, <2>7, EveryRoleHasAPlace
           DEF Accepted, NumbersReachEvidence, Sources
<1> QED
  BY <1>1, <1>2, <1>3, ResultSteps

-------------------------------------------------------------------------------
(* The order of results and audit rows                                       *)

\* Everyone before the turn has a result and its row, nobody after it has either.
Order ==
  /\ turn \in 1..Len(Chain)
  /\ audit \in [Roles -> {"none", "ok", "error"}]
  /\ \A i \in 1..Len(Chain) : i > turn => result[Chain[i]] = "none"
  /\ \A i \in 1..Len(Chain) : i < turn =>
       result[Chain[i]] # "none" /\ audit[Chain[i]] = result[Chain[i]]
  /\ \A r \in Roles : audit[r] # "none" => audit[r] = result[r]
  /\ calls \in 0..2 /\ (result[Chain[turn]] = "none" => calls <= 1)
  /\ task \in {"running", "ok", "error", "raised"}
  /\ task \in {"ok", "error"} => audit[Chain[turn]] # "none"

LEMMA InitOrder == Init => Order
<1> SUFFICES ASSUME Init PROVE Order
  OBVIOUS
<1>1. turn = 1 /\ Len(Chain) \in Nat /\ Len(Chain) >= 1
  BY ChainFacts DEF Init
<1>2. \A i \in 1..Len(Chain) : Chain[i] \in Roles
  BY EveryRoleHasAPlace
<1> QED
  BY <1>1, <1>2 DEF Init, Order

\* A step of an agent is that of the one whose turn it is, and changes its own
\* entries only: the result once, and the row once after that.
LEMMA AgentShape ==
  ASSUME Accepted, Order, NEW r \in Roles, AgentStep(r)
  PROVE  /\ task = "running" /\ Chain[turn] = r
         /\ UNCHANGED <<turn, missing>> /\ task' \in {"running", "raised"}
         /\ audit' \in [Roles -> {"none", "ok", "error"}]
         /\ \A q \in Roles : q # r => result'[q] = result[q] /\ audit'[q] = audit[q]
         /\ result[r] # "none" => result'[r] = result[r]
         /\ audit'[r] # "none" => audit'[r] = result'[r]
         /\ audit[r] # "none" => audit'[r] # "none"
         /\ calls' \in 0..2 /\ (result'[r] = "none" => calls' <= 1)
<1> USE DEF Accepted, Order
<1>1. CASE Answer(r)
  <2>1. Fails(r) \/ Succeeds(r)
    BY <1>1, AnswerEnds
  <2>2. result[r] = "none" /\ task = "running" /\ Chain[turn] = r
    BY <1>1 DEF Answer, Asking, Turn
  <2>3. UNCHANGED <<task, turn, audit, missing>> /\ calls' = calls + 1
    BY <1>1 DEF Answer
  <2>4. \E s \in {"ok", "error"} : result' = [result EXCEPT ![r] = s]
    BY <2>1 DEF Fails, Succeeds, Ends
  <2> QED  BY <2>2, <2>3, <2>4
<1>2. CASE AnswerInvalid(r)
  <2>1. result[r] = "none" /\ task = "running" /\ Chain[turn] = r
    BY <1>2 DEF AnswerInvalid, Asking, Turn
  <2>2. UNCHANGED <<task, turn, audit, missing>> /\ calls' = calls + 1
    BY <1>2 DEF AnswerInvalid
  <2>3. \/ calls = 0 /\ result' = result
        \/ result' = [result EXCEPT ![r] = "error"]
    BY <1>2 DEF AnswerInvalid, Ends
  <2> QED  BY <2>1, <2>2, <2>3
<1>3. CASE AgentFails(r)
  BY <1>3 DEF AgentFails, Asking, Turn, Ends
<1>4. CASE Save(r)
  BY <1>4 DEF Save, Finished, Turn
<1>5. CASE SaveFails(r)
  BY <1>5 DEF SaveFails, Finished, Turn
<1> QED
  BY <1>1, <1>2, <1>3, <1>4, <1>5 DEF AgentStep

\* A step of the coordinator follows the row of the agent whose turn it was, and
\* passes the turn on or ends the task.
LEMMA CoordinatorShape ==
  ASSUME Accepted, Order, CoordinatorStep
  PROVE  /\ task = "running" /\ audit[Chain[turn]] # "none"
         /\ UNCHANGED <<result, accepted, audit>>
         /\ \/ turn' = turn + 1 /\ turn < Len(Chain) /\ calls' = 0 /\ task' = task
            \/ turn' = turn /\ calls' = calls /\ task' \in {"ok", "error", "raised"}
<1> USE DEF Accepted, Order
<1>1. CASE \E r \in AnalystSet : AnalystReturns(r)
  <2>1. PICK r \in AnalystSet : AnalystReturns(r)
    BY <1>1
  <2>2. turn < Len(Chain)
    BY <2>1, ChainFacts, ChainIsInjective, EveryRoleHasAPlace
    DEF AnalystReturns, Returned, Turn, Managers
  <2> QED  BY <2>1, <2>2 DEF AnalystReturns, Returned, Turn, GoOn, Stop, HandOver
<1>2. CASE ResearchReturns
  <2>1. turn < Len(Chain)
    BY <1>2, ChainFacts DEF ResearchReturns, Returned, Turn
  <2> QED  BY <1>2, <2>1 DEF ResearchReturns, Returned, Turn, GoOn, Stop, HandOver
<1>3. CASE BullReturns
  <2>1. turn < Len(Chain)
    BY <1>3, ChainFacts DEF BullReturns, Returned, Turn
  <2> QED  BY <1>3, <2>1 DEF BullReturns, Returned, Turn, GoOn
<1>4. CASE BearReturns
  <2>1. turn < Len(Chain)
    BY <1>4, ChainFacts DEF BearReturns, Returned, Turn
  <2> QED  BY <1>4, <2>1 DEF BearReturns, Returned, Turn, GoOn, Stop, HandOver
<1>5. CASE RiskReturns
  <2>1. "risk" \in Roles
    BY DEF Roles, Managers
  <2>2. result["risk"] \in {"ok", "error"}
    BY <1>5, <2>1 DEF RiskReturns, Returned
  <2> QED  BY <1>5, <2>2 DEF RiskReturns, Returned, Turn, Stop
<1> QED
  BY <1>1, <1>2, <1>3, <1>4, <1>5 DEF CoordinatorStep

LEMMA NextOrder == Accepted /\ Order /\ [Next]_vars => Order'
<1> SUFFICES ASSUME Accepted, Order, [Next]_vars  PROVE Order'
  OBVIOUS
<1>0. \A i \in 1..Len(Chain) : Chain[i] \in Roles
  BY EveryRoleHasAPlace
<1>1. ASSUME NEW r \in Roles, AgentStep(r)  PROVE Order'
  <2>1. \A i \in 1..Len(Chain) : i # turn => Chain[i] # r
    BY <1>1, AgentShape, ChainIsInjective DEF Order
  <2> QED  BY <1>0, <1>1, <2>1, AgentShape DEF Order
<1>2. CASE CoordinatorStep
  <2>1. turn \in Nat /\ turn >= 1 /\ Len(Chain) \in Nat /\ turn <= Len(Chain)
    BY ChainFacts DEF Order
  <2>2. CASE turn' = turn + 1 /\ turn < Len(Chain) /\ calls' = 0 /\ task' = task
    <3>1. audit[Chain[turn]] = result[Chain[turn]] /\ result[Chain[turn]] # "none"
      BY <1>0, <1>2, CoordinatorShape DEF Order
    <3>2. turn' \in 1..Len(Chain) /\ task' = "running"
      BY <2>1, <2>2, <1>2, CoordinatorShape
    <3>3. \A i \in 1..Len(Chain) :
            (i > turn' => i > turn) /\ (i < turn' => i < turn \/ i = turn)
      BY <2>1, <2>2
    <3> QED  BY <1>2, <2>2, <3>1, <3>2, <3>3, CoordinatorShape DEF Order
  <2>3. CASE turn' = turn /\ calls' = calls /\ task' \in {"ok", "error", "raised"}
    BY <1>2, <2>3, CoordinatorShape DEF Order
  <2> QED  BY <1>2, <2>2, <2>3, CoordinatorShape
<1>3. CASE UNCHANGED vars
  BY <1>3 DEF vars, Order
<1> QED
  BY <1>1, <1>2, <1>3 DEF Next

-------------------------------------------------------------------------------
(* The failure policy and the audit                                          *)

\* What must have succeeded for the turn to come this far, and who is listed as
\* missing by then: the bull's result is looked at together with the bear's.
Counted(i) == i < turn /\ ~(turn = K + 3 /\ i = K + 2)

Policy ==
  /\ turn > K => \E a \in AnalystSet : result[a] = "ok"
  /\ turn > K + 1 => result["research"] = "ok"
  /\ turn > K + 3 => result["bull"] = "ok" /\ result["bear"] = "ok"
  /\ task = "ok" => turn = K + 4 /\ result["risk"] = "ok"

Listing ==
  /\ missing \in SUBSET Roles
  /\ task = "running" =>
       \A i \in 1..Len(Chain) :
         Chain[i] \in missing <=> result[Chain[i]] = "error" /\ Counted(i)
  /\ task \in {"ok", "error"} =>
       \A r \in Roles : r \in missing <=> result[r] = "error"

LEMMA InitPolicy == Init => Policy /\ Listing
<1> SUFFICES ASSUME Init PROVE Policy /\ Listing
  OBVIOUS
<1>1. turn = 1 /\ K \in Nat /\ K >= 1 /\ task = "running" /\ missing = {}
  BY ChainFacts DEF Init
<1>2. \A i \in 1..Len(Chain) : result[Chain[i]] = "none"
  BY EveryRoleHasAPlace DEF Init
<1> QED
  BY <1>1, <1>2 DEF Policy, Listing

\* The roles of the managers and their places.
LEMMA ManagerPlaces ==
  /\ "research" \in Roles /\ "bull" \in Roles /\ "bear" \in Roles /\ "risk" \in Roles
  /\ K + 1 \in 1..Len(Chain) /\ K + 2 \in 1..Len(Chain)
  /\ K + 3 \in 1..Len(Chain) /\ K + 4 \in 1..Len(Chain)
BY ChainFacts DEF Roles, Managers

LEMMA AgentKeepsPolicy ==
  ASSUME Accepted, Order, Policy, Listing, NEW r \in Roles, AgentStep(r)
  PROVE  Policy' /\ Listing'
<1>1. /\ task = "running" /\ Chain[turn] = r
      /\ UNCHANGED <<turn, missing>> /\ task' \in {"running", "raised"}
      /\ \A q \in Roles : q # r => result'[q] = result[q]
      /\ result[r] # "none" => result'[r] = result[r]
  BY AgentShape
<1>2. \A q \in Roles : result[q] = "ok" => result'[q] = "ok"
  BY <1>1
<1>3. \A i \in 1..Len(Chain) : i # turn => Chain[i] # r /\ Chain[i] \in Roles
  BY <1>1, ChainIsInjective, EveryRoleHasAPlace DEF Order
<1>4. \A i \in 1..Len(Chain) : Counted(i) => i # turn
  BY ChainFacts DEF Counted, Order
<1>5. Policy'
  BY <1>1, <1>2, ManagerPlaces DEF Policy, Roles
<1>6. \A i \in 1..Len(Chain) :
        (result'[Chain[i]] = "error" /\ Counted(i)) <=> (result[Chain[i]] = "error" /\ Counted(i))
  BY <1>1, <1>3, <1>4
<1>7. \A i \in 1..Len(Chain) : Counted(i)' <=> Counted(i)
  BY <1>1 DEF Counted
<1> QED
  BY <1>1, <1>5, <1>6, <1>7 DEF Listing

\* The place of the turn is the place of the role that has it.
LEMMA TurnPlaces ==
  ASSUME Order
  PROVE  /\ turn \in Nat /\ K \in Nat /\ turn <= K + 4 /\ turn >= 1
         /\ \A r \in AnalystSet : Turn(r) => turn <= K
         /\ Turn("research") => turn = K + 1
         /\ Turn("bull") => turn = K + 2
         /\ Turn("bear") => turn = K + 3
         /\ Turn("risk") => turn = K + 4
<1>1. turn \in 1..Len(Chain) /\ K \in Nat /\ Len(Chain) = K + 4
  BY ChainFacts DEF Order
<1>2. ASSUME NEW r \in AnalystSet, Turn(r)  PROVE turn <= K
  <2>1. PICK i \in 1..K : Chain[i] = r
    BY EveryRoleHasAPlace
  <2>2. i \in 1..Len(Chain) /\ Chain[turn] = Chain[i]
    BY <1>1, <1>2, <2>1 DEF Turn
  <2>3. turn = i
    BY <1>1, <2>2, ChainIsInjective
  <2> QED  BY <2>1, <2>3, <1>1
<1>3. /\ Turn("research") => turn = K + 1
      /\ Turn("bull") => turn = K + 2
      /\ Turn("bear") => turn = K + 3
      /\ Turn("risk") => turn = K + 4
  BY <1>1, ChainFacts, ChainIsInjective, ManagerPlaces DEF Turn
<1> QED
  BY <1>1, <1>2, <1>3

\* The agent that returns is the last with a result, and it has succeeded or failed.
LEMMA ReturnedResult ==
  ASSUME Accepted, Order, NEW r \in Roles, Returned(r)
  PROVE  /\ task = "running" /\ Chain[turn] = r /\ result[r] \in {"ok", "error"}
         /\ \A i \in 1..Len(Chain) : i > turn => result[Chain[i]] = "none"
         /\ \A i \in 1..Len(Chain) : i < turn => result[Chain[i]] \in {"ok", "error"}
<1>1. task = "running" /\ Chain[turn] = r /\ audit[r] # "none"
  BY DEF Returned, Turn
<1>2. result[r] \in {"ok", "error"}
  BY <1>1 DEF Accepted, Order
<1>3. \A i \in 1..Len(Chain) : i < turn => result[Chain[i]] \in {"ok", "error"}
  BY EveryRoleHasAPlace DEF Accepted, Order
<1> QED
  BY <1>1, <1>2, <1>3 DEF Order

\* Adding the failed agents of rs to those listed as missing.
LEMMA ListingGrows ==
  ASSUME Accepted, Order, Listing, task = "running", NEW rs \in SUBSET Roles,
         missing' = missing \union Failed(rs), UNCHANGED result,
         task' # "running" =>
           \A i \in 1..Len(Chain) : Counted(i) \/ Chain[i] \in rs \/ result[Chain[i]] # "error",
         task' = "running" =>
           \A i \in 1..Len(Chain) : Counted(i)' <=> Counted(i) \/ Chain[i] \in rs
  PROVE  Listing'
<1>1. missing' \in SUBSET Roles
  BY DEF Listing, Failed
<1>2. \A i \in 1..Len(Chain) :
        Chain[i] \in missing' <=> result[Chain[i]] = "error" /\ (Counted(i) \/ Chain[i] \in rs)
  BY DEF Listing, Failed
<1>3. ASSUME task' # "running", NEW r \in Roles
      PROVE  r \in missing' <=> result[r] = "error"
  <2>1. PICK i \in 1..Len(Chain) : Chain[i] = r
    BY EveryRoleHasAPlace
  <2> QED  BY <1>2, <1>3, <2>1
<1> QED
  BY <1>1, <1>2, <1>3 DEF Listing

LEMMA AnalystReturnKeepsPolicy ==
  ASSUME Accepted, Order, Policy, Listing, NEW r \in AnalystSet, AnalystReturns(r)
  PROVE  Policy' /\ Listing'
<1>0. r \in Roles
  BY DEF Roles
<1>1. /\ task = "running" /\ Chain[turn] = r /\ Turn(r)
      /\ \A i \in 1..Len(Chain) : i > turn => result[Chain[i]] = "none"
      /\ \A i \in 1..Len(Chain) : i < turn => result[Chain[i]] \in {"ok", "error"}
      /\ result[r] \in {"ok", "error"}
  BY <1>0, ReturnedResult DEF AnalystReturns, Returned
<1>2. turn <= K /\ turn \in Nat /\ turn >= 1 /\ K \in Nat /\ Len(Chain) = K + 4
  BY <1>1, TurnPlaces, ChainFacts
<1>3. missing' = missing \union Failed({r}) /\ UNCHANGED result
  BY DEF AnalystReturns
<1>4. \/ turn' = turn + 1 /\ task' = "running"
      \/ turn' = turn /\ task' \in {"error", "raised"}
  BY <1>1 DEF AnalystReturns, GoOn, Stop, HandOver
<1>5. Listing'
  <2>1. \A i \in 1..Len(Chain) : Counted(i) \/ Chain[i] \in {r} \/ result[Chain[i]] # "error"
    BY <1>1, <1>2 DEF Counted
  <2>2. \A i \in 1..Len(Chain) : Chain[i] = r <=> i = turn
    BY <1>1, ChainIsInjective DEF Order
  <2>3. turn' = turn + 1 =>
          \A i \in 1..Len(Chain) : Counted(i)' <=> Counted(i) \/ Chain[i] \in {r}
    BY <1>2, <2>2 DEF Counted
  <2> QED  BY <1>0, <1>1, <1>3, <1>4, <2>1, <2>3, ListingGrows
<1>6. Policy'
  <2>1. CASE turn' = turn /\ task' \in {"error", "raised"}
    BY <1>2, <1>3, <2>1 DEF Policy
  <2>2. CASE turn' = turn + 1 /\ task' = "running" /\ turn < K
    BY <1>2, <1>3, <2>2 DEF Policy
  <2>3. CASE turn' = turn + 1 /\ task' = "running" /\ turn = K
    <3>1. Failed(AnalystSet) # AnalystSet
      BY <1>1, <2>3 DEF AnalystReturns, Stop, K
    <3>2. PICK a \in AnalystSet : result[a] # "error"
      BY <3>1 DEF Failed
    <3>3. PICK i \in 1..K : Chain[i] = a
      BY EveryRoleHasAPlace
    <3>4. result[a] \in {"ok", "error"}
      BY <1>1, <1>2, <2>3, <3>3
    <3>5. \E b \in AnalystSet : result[b] = "ok"
      BY <3>2, <3>4
    <3> QED  BY <1>2, <1>3, <2>3, <3>5 DEF Policy
  <2> QED  BY <1>2, <1>4, <2>1, <2>2, <2>3
<1> QED
  BY <1>5, <1>6

LEMMA ManagerReturnKeepsPolicy ==
  ASSUME Accepted, Order, Policy, Listing,
         ResearchReturns \/ BullReturns \/ BearReturns \/ RiskReturns
  PROVE  Policy' /\ Listing'
<1>0. K \in Nat /\ Len(Chain) = K + 4 /\ turn \in Nat
  BY ChainFacts, TurnPlaces
<1>1. CASE ResearchReturns
  <2>1. /\ task = "running" /\ Chain[turn] = "research" /\ turn = K + 1
        /\ result["research"] \in {"ok", "error"}
        /\ \A i \in 1..Len(Chain) : i > turn => result[Chain[i]] = "none"
    BY <1>1, ReturnedResult, ManagerPlaces, TurnPlaces DEF ResearchReturns, Returned
  <2>2. missing' = missing \union Failed({"research"}) /\ UNCHANGED result
    BY <1>1 DEF ResearchReturns
  <2>3. \/ turn' = turn + 1 /\ task' = "running" /\ result["research"] # "error"
        \/ turn' = turn /\ task' \in {"error", "raised"}
    BY <1>1, <2>1 DEF ResearchReturns, GoOn, Stop, HandOver
  <2>4. \A i \in 1..Len(Chain) : Chain[i] = "research" <=> i = K + 1
    BY ChainFacts, ManagerPlaces, ChainIsInjective
  <2>5. \A i \in 1..Len(Chain) :
          Counted(i) \/ Chain[i] \in {"research"} \/ result[Chain[i]] # "error"
    BY <1>0, <2>1, <2>4 DEF Counted
  <2>6. turn' = turn + 1 =>
          \A i \in 1..Len(Chain) : Counted(i)' <=> Counted(i) \/ Chain[i] \in {"research"}
    BY <1>0, <2>1, <2>4 DEF Counted
  <2>7. Listing'
    <3>1. {"research"} \in SUBSET Roles
      BY ManagerPlaces
    <3>2. task' = "running" =>
            \A i \in 1..Len(Chain) : Counted(i)' <=> Counted(i) \/ Chain[i] \in {"research"}
      <4> HAVE task' = "running"
      <4>1. turn' = turn + 1
        BY <2>3
      <4> QED  BY <4>1, <2>6
    <3> QED  BY <2>1, <2>2, <2>5, <3>1, <3>2, ListingGrows
  <2>8. Policy'
    BY <1>0, <2>1, <2>2, <2>3 DEF Policy
  <2> QED  BY <2>7, <2>8
<1>2. CASE BullReturns
  <2>1. /\ task = "running" /\ turn = K + 2
    BY <1>2, TurnPlaces DEF BullReturns, Returned, Turn
  <2>2. UNCHANGED <<missing, result, task>> /\ turn' = turn + 1
    BY <1>2 DEF BullReturns, GoOn
  <2>3. \A i \in 1..Len(Chain) : Counted(i)' <=> Counted(i)
    BY <1>0, <2>1, <2>2 DEF Counted
  <2>4. Listing'
    BY <2>1, <2>2, <2>3 DEF Listing
  <2>5. Policy'
    BY <1>0, <2>1, <2>2 DEF Policy
  <2> QED  BY <2>4, <2>5
<1>3. CASE BearReturns
  <2>1. /\ task = "running" /\ turn = K + 3
        /\ result["bear"] \in {"ok", "error"}
        /\ \A i \in 1..Len(Chain) : i > turn => result[Chain[i]] = "none"
        /\ result[Chain[K + 2]] \in {"ok", "error"}
    BY <1>0, <1>3, ReturnedResult, ManagerPlaces, TurnPlaces DEF BearReturns, Returned
  <2>2. missing' = missing \union Failed({"bull", "bear"}) /\ UNCHANGED result
    BY <1>3 DEF BearReturns
  <2>3. \/ turn' = turn + 1 /\ task' = "running" /\ Failed({"bull", "bear"}) = {}
        \/ turn' = turn /\ task' \in {"error", "raised"}
    BY <1>3, <2>1 DEF BearReturns, GoOn, Stop, HandOver
  <2>4. \A i \in 1..Len(Chain) : Chain[i] \in {"bull", "bear"} <=> i = K + 2 \/ i = K + 3
    BY ChainFacts, ManagerPlaces, ChainIsInjective
  <2>5. \A i \in 1..Len(Chain) :
          Counted(i) \/ Chain[i] \in {"bull", "bear"} \/ result[Chain[i]] # "error"
    BY <1>0, <2>1, <2>4 DEF Counted
  <2>6. turn' = turn + 1 =>
          \A i \in 1..Len(Chain) : Counted(i)' <=> Counted(i) \/ Chain[i] \in {"bull", "bear"}
    BY <1>0, <2>1, <2>4 DEF Counted
  <2>7. Listing'
    <3>1. {"bull", "bear"} \in SUBSET Roles
      BY ManagerPlaces
    <3>2. task' = "running" =>
            \A i \in 1..Len(Chain) : Counted(i)' <=> Counted(i) \/ Chain[i] \in {"bull", "bear"}
      <4> HAVE task' = "running"
      <4>1. turn' = turn + 1
        BY <2>3
      <4> QED  BY <4>1, <2>6
    <3> QED  BY <2>1, <2>2, <2>5, <3>1, <3>2, ListingGrows
  <2>8. turn' = turn + 1 => result["bull"] = "ok" /\ result["bear"] = "ok"
    BY <1>0, <2>1, <2>3, ChainFacts DEF Failed
  <2>9. Policy'
    BY <1>0, <2>1, <2>2, <2>3, <2>8 DEF Policy
  <2> QED  BY <2>7, <2>9
<1>4. CASE RiskReturns
  <2>1. /\ task = "running" /\ turn = K + 4 /\ result["risk"] \in {"ok", "error"}
    BY <1>4, ReturnedResult, ManagerPlaces, TurnPlaces DEF RiskReturns, Returned
  <2>2. missing' = missing \union Failed({"risk"}) /\ UNCHANGED result
    BY <1>4 DEF RiskReturns
  <2>3. turn' = turn /\ task' = result["risk"]
    BY <1>4 DEF RiskReturns, Stop
  <2>4. \A i \in 1..Len(Chain) : Chain[i] \in {"risk"} <=> i = K + 4
    BY ChainFacts, ManagerPlaces, ChainIsInjective
  <2>5. \A i \in 1..Len(Chain) :
          Counted(i) \/ Chain[i] \in {"risk"} \/ result[Chain[i]] # "error"
    BY <1>0, <2>1, <2>4 DEF Counted
  <2>6. Listing'
    BY <2>1, <2>2, <2>3, <2>5, ManagerPlaces, ListingGrows
  <2>7. Policy'
    BY <1>0, <2>1, <2>2, <2>3 DEF Policy
  <2> QED  BY <2>6, <2>7
<1> QED
  BY <1>1, <1>2, <1>3, <1>4

LEMMA NextPolicy ==
  Accepted /\ Order /\ Policy /\ Listing /\ [Next]_vars => Policy' /\ Listing'
<1> SUFFICES ASSUME Accepted, Order, Policy, Listing, [Next]_vars
             PROVE  Policy' /\ Listing'
  OBVIOUS
<1>1. CASE UNCHANGED vars
  BY <1>1 DEF vars, Policy, Listing, Counted
<1> QED
  BY <1>1, AgentKeepsPolicy, AnalystReturnKeepsPolicy, ManagerReturnKeepsPolicy
  DEF Next, CoordinatorStep

-------------------------------------------------------------------------------
(* Where a manager's claims come from                                        *)

\* Nothing upstream of an agent with accepted claims changes any more, nor upstream
\* of the one that is asked.
LEMMA UpstreamIsFixed ==
  ASSUME Accepted, Order, NEW r \in Roles, Asking(r), NEW new,
         accepted' = [accepted EXCEPT ![r] = new],
         NEW q \in Managers, q = r \/ accepted[q] # {}
  PROVE  UpstreamClaims(q)' = UpstreamClaims(q)
<1>1. Chain[turn] = r /\ turn \in 1..Len(Chain) /\ result[r] = "none"
  BY DEF Asking, Turn, Order
<1>2. PICK k \in 1..Len(Chain) : Chain[k] = q
  BY EveryRoleHasAPlace DEF Roles
<1>3. k <= turn
  <2>1. q # r => result[q] = "ok"
    BY DEF Accepted, Roles
  <2>2. q # r => ~(k > turn)
    BY <1>2, <2>1 DEF Order
  <2>3. q = r => k = turn
    BY <1>1, <1>2, ChainIsInjective
  <2> QED  BY <1>1, <1>2, <2>2, <2>3, ChainFacts
<1>4. \A i \in 1..Len(Upstream[q]) : Upstream[q][i] # r /\ Upstream[q][i] \in Sources
  <2> SUFFICES ASSUME NEW i \in 1..Len(Upstream[q])
               PROVE  Upstream[q][i] # r /\ Upstream[q][i] \in Sources
    OBVIOUS
  <2>1. CASE Upstream[q][i] = "sector"
    BY <2>1, EveryRoleHasAPlace DEF Sources
  <2>2. CASE \E j, l \in 1..Len(Chain) : Chain[j] = Upstream[q][i] /\ Chain[l] = q /\ j < l
    <3>1. PICK j, l \in 1..Len(Chain) : Chain[j] = Upstream[q][i] /\ Chain[l] = q /\ j < l
      BY <2>2
    <3>2. l = k
      BY <1>2, <3>1, ChainIsInjective
    <3>3. j # turn
      BY <1>1, <1>3, <3>1, <3>2, ChainFacts
    <3>4. Chain[j] # Chain[turn]
      BY <1>1, <3>1, <3>3, ChainIsInjective
    <3> QED  BY <1>1, <3>1, <3>4, EveryRoleHasAPlace DEF Sources
  <2> QED  BY <2>1, <2>2, UpstreamIsEarlier
<1>5. \A i \in 1..Len(Upstream[q]) : accepted'[Upstream[q][i]] = accepted[Upstream[q][i]]
  BY <1>4 DEF Accepted
<1>6. Upstream' = Upstream
  BY DEF Upstream
<1> QED
  BY <1>5, <1>6 DEF UpstreamClaims

\* Evidence that was bound stays bound when another agent ends.
LEMMA BoundGrows ==
  ASSUME Accepted, NEW r \in Roles, Asking(r), NEW new, NEW status,
         accepted' = [accepted EXCEPT ![r] = new],
         result' = [result EXCEPT ![r] = status]
  PROVE  Bound \subseteq Bound'
<1>1. \A b \in AnalystSet : result[b] = "ok" =>
        result'[b] = "ok" /\ accepted'[b] = accepted[b]
  BY DEF Accepted, Asking, Roles, Sources
<1>2. accepted'["sector"] = accepted["sector"]
  BY EveryRoleHasAPlace DEF Accepted, Sources
<1> QED
  BY <1>1, <1>2 DEF Bound

\* Whatever a manager reads is bound to evidence of analysts that succeeded.
LEMMA UpstreamIsBound ==
  ASSUME Accepted, ProvenanceIsAccepted, NEW r \in Managers, NEW p \in UpstreamClaims(r)
  PROVE  p.cites \subseteq Bound
<1>1. PICK q \in Sources : p \in accepted[q]
  BY UpstreamAccepted
<1>2. CASE q = "sector"
  BY <1>1, <1>2 DEF Bound
<1>3. CASE q \in AnalystSet
  <2>1. result[q] = "ok"
    BY <1>1, <1>3 DEF Accepted, Roles
  <2> QED  BY <1>1, <1>3, <2>1 DEF Bound
<1>4. CASE q \in Managers
  BY <1>1, <1>4 DEF ProvenanceIsAccepted
<1> QED
  BY <1>1, <1>2, <1>3, <1>4 DEF Sources, Roles

\* An accepted claim of a manager names claims of its input and has their evidence.
LEMMA AcceptedIsNamed ==
  ASSUME NEW r \in Managers, NEW answer \in Answers[r], NEW d \in Retained(r, answer)
  PROVE  LET c == Accept(r, d)
             named == {p \in UpstreamClaims(r) : p.id \in c.parents}
         IN /\ \A id \in c.parents :
                 \E p \in named : p.id = id /\ p.cites \subseteq c.cites
            /\ c.cites \subseteq UNION {p.cites : p \in named}
<1> DEFINE cites == UNION {p.cites : p \in Parents(r, d)}
           named == {p \in UpstreamClaims(r) : p.id \in d.links}
<1>1. r \in Roles /\ r \notin AnalystSet
  BY EveryRoleHasAPlace DEF Roles
<1>2. Accept(r, d).cites = cites /\ Accept(r, d).parents = d.links
  BY <1>1 DEF Accept
<1>3. \A id \in d.links : \E p \in UpstreamClaims(r) : Indexed(r, id, p)
  BY <1>1, RetainedHolds DEF ManagerClaimHolds
<1>4. \A id \in d.links : \A p \in UpstreamClaims(r) :
        Indexed(r, id, p) => p.id = id /\ p \in named /\ p \in Parents(r, d)
  BY DEF Indexed, Parents
<1>5. \A p \in Parents(r, d) : p \in named
  BY <1>4 DEF Parents
<1>6. \A id \in d.links : \E p \in named : p.id = id /\ p.cites \subseteq cites
  BY <1>3, <1>4
<1>7. cites \subseteq UNION {p.cites : p \in named}
  BY <1>5
<1> QED
  BY <1>2, <1>6, <1>7

LEMMA NextProvenance ==
  Accepted /\ Order /\ ProvenanceIsAccepted /\ [Next]_vars => ProvenanceIsAccepted'
<1> SUFFICES ASSUME Accepted, Order, ProvenanceIsAccepted, [Next]_vars
             PROVE  ProvenanceIsAccepted'
  OBVIOUS
<1>1. CASE UNCHANGED <<result, accepted>>
  <2>1. \A r \in Managers : UpstreamClaims(r)' = UpstreamClaims(r)
    BY <1>1 DEF UpstreamClaims, Upstream
  <2>2. Bound' = Bound
    BY <1>1 DEF Bound
  <2> QED  BY <1>1, <2>1, <2>2 DEF ProvenanceIsAccepted
<1>2. ASSUME NEW r \in Roles, Asking(r), NEW new, NEW status,
             accepted' = [accepted EXCEPT ![r] = new],
             result' = [result EXCEPT ![r] = status],
             new = {} \/ \E answer \in Answers[r] :
                           new = {Accept(r, d) : d \in Retained(r, answer)}
      PROVE  ProvenanceIsAccepted'
  <2>1. Bound \subseteq Bound'
    BY <1>2, BoundGrows
  <2> SUFFICES ASSUME NEW q \in Managers, NEW c \in accepted'[q]
               PROVE  LET named == {p \in UpstreamClaims(q)' : p.id \in c.parents}
                      IN /\ \A id \in c.parents :
                              \E p \in named : p.id = id /\ p.cites \subseteq c.cites
                         /\ c.cites \subseteq UNION {p.cites : p \in named}
                         /\ c.cites \subseteq Bound'
    BY DEF ProvenanceIsAccepted
  <2>2. q \in Roles
    BY DEF Roles
  <2>3. CASE q # r
    <3>1. c \in accepted[q]
      BY <1>2, <2>2, <2>3 DEF Accepted, Sources
    <3>2. UpstreamClaims(q)' = UpstreamClaims(q)
      BY <1>2, <3>1, UpstreamIsFixed
    <3>3. LET named == {p \in UpstreamClaims(q) : p.id \in c.parents}
          IN /\ \A id \in c.parents :
                  \E p \in named : p.id = id /\ p.cites \subseteq c.cites
             /\ c.cites \subseteq UNION {p.cites : p \in named}
             /\ c.cites \subseteq Bound
      BY <3>1 DEF ProvenanceIsAccepted
    <3> QED  BY <2>1, <3>2, <3>3
  <2>4. CASE q = r
    <3>1. c \in new
      BY <1>2, <2>2, <2>4 DEF Accepted, Sources
    <3>2. PICK answer \in Answers[q] : \E d \in Retained(q, answer) : c = Accept(q, d)
      BY <1>2, <2>4, <3>1
    <3>3. PICK d \in Retained(q, answer) : c = Accept(q, d)
      BY <3>2
    <3>4. UpstreamClaims(q)' = UpstreamClaims(q)
      BY <1>2, <2>4, UpstreamIsFixed
    <3>5. LET named == {p \in UpstreamClaims(q) : p.id \in c.parents}
          IN /\ \A id \in c.parents :
                  \E p \in named : p.id = id /\ p.cites \subseteq c.cites
             /\ c.cites \subseteq UNION {p.cites : p \in named}
      BY <3>3, AcceptedIsNamed
    <3>6. \A p \in UpstreamClaims(q) : p.cites \subseteq Bound
      BY UpstreamIsBound
    <3>7. c.cites \subseteq Bound
      BY <3>5, <3>6
    <3> QED  BY <2>1, <3>4, <3>5, <3>7
  <2> QED  BY <2>3, <2>4
<1>3. ASSUME NEW r \in Roles, Fails(r)  PROVE ProvenanceIsAccepted'
  BY <1>2, <1>3 DEF Fails, Ends
<1>4. ASSUME NEW r \in Roles, Succeeds(r)  PROVE ProvenanceIsAccepted'
  BY <1>2, <1>4 DEF Succeeds, Ends
<1> QED
  BY <1>1, <1>3, <1>4, ResultSteps

-------------------------------------------------------------------------------
(* The theorems                                                              *)

\* What holds in every state: none of these facts is inductive without the others,
\* since a claim is judged by claims that were accepted earlier.
IInv ==
  /\ Accepted /\ NumbersReachEvidence /\ ProvenanceIsAccepted
  /\ Order /\ Policy /\ Listing

LEMMA InitIInv == Init => IInv
<1>1. Init => ProvenanceIsAccepted
  BY EveryRoleHasAPlace DEF Init, ProvenanceIsAccepted, Roles
<1> QED
  BY <1>1, InitAccepted, InitOrder, InitPolicy DEF IInv

LEMMA NextIInv == IInv /\ [Next]_vars => IInv'
  BY NextAccepted, NextProvenance, NextOrder, NextPolicy DEF IInv

LEMMA InvariantHolds == Spec => []IInv
  BY InitIInv, NextIInv, PTL DEF Spec

\* A number in an accepted claim is a token of evidence which that claim cites,
\* however many managers have passed it on (validate_numeric_grounding).
THEOREM NumbersStayGrounded == Spec => []NumbersReachEvidence
<1>1. IInv => NumbersReachEvidence
  BY DEF IInv
<1> QED
  BY <1>1, InvariantHolds, PTL

\* A manager's claim has the evidence of the claims it names and no other, and none
\* that only a failed analyst has bound (_upstream_claim_index, _bind_claims).
THEOREM ProvenanceStaysAccepted == Spec => []ProvenanceIsAccepted
<1>1. IInv => ProvenanceIsAccepted
  BY DEF IInv
<1> QED
  BY <1>1, InvariantHolds, PTL

\* The variables keep their types; in particular no agent is called three times.
THEOREM TypeCorrect == Spec => []TypeOK
<1>1. IInv => TypeOK
  BY DEF IInv, TypeOK, Accepted, Order, Listing, Sources
<1> QED
  BY <1>1, InvariantHolds, PTL

\* A role with a result has its place at the turn or before it.
LEMMA ResultsComeInOrder ==
  ASSUME Order, NEW i \in 1..Len(Chain), result[Chain[i]] # "none"
  PROVE  turn >= i
BY ChainFacts DEF Order

\* ResearchCoordinator keeps the failure policy and lists the agents that failed.
THEOREM PolicyIsKept == Spec => []FailurePolicy
<1>1. ASSUME IInv  PROVE FailurePolicy
  <2> USE <1>1 DEF IInv
  <2>1. /\ result["research"] # "none" => turn >= K + 1
        /\ result["bull"] # "none" => turn >= K + 2
        /\ result["bear"] # "none" => turn >= K + 3
        /\ result["risk"] # "none" => turn >= K + 4
    BY ChainFacts, ManagerPlaces, ResultsComeInOrder
  <2>2. K \in Nat /\ turn \in Nat
    BY ChainFacts, TurnPlaces
  <2>3. /\ result["research"] # "none" => \E a \in AnalystSet : result[a] = "ok"
        /\ result["bull"] # "none" => result["research"] = "ok"
        /\ result["bear"] # "none" => result["research"] = "ok"
        /\ result["risk"] # "none" => result["bull"] = "ok" /\ result["bear"] = "ok"
    BY <2>1, <2>2 DEF Policy
  <2>4. task = "ok" => \A r \in Managers : result[r] = "ok"
    BY <2>2 DEF Policy, Managers
  <2>5. task \in {"ok", "error"} => missing = Failed(Roles)
    BY DEF Listing, Failed
  <2> QED  BY <2>3, <2>4, <2>5 DEF FailurePolicy
<1> QED
  BY <1>1, InvariantHolds, PTL

\* A task that returns has exactly the audit rows of the agents it invoked
\* (BaseAgent.run, _save_run).
THEOREM AuditStaysComplete == Spec => []AuditIsComplete
<1>1. ASSUME IInv  PROVE AuditIsComplete
  <2> USE <1>1 DEF IInv
  <2>1. ASSUME NEW r \in Roles, audit[r] # result[r]
        PROVE  audit[r] = "none" /\ Chain[turn] = r
    <3>1. PICK i \in 1..Len(Chain) : Chain[i] = r
      BY EveryRoleHasAPlace
    <3>2. audit[r] = "none"
      BY <2>1 DEF Order
    <3>3. ~(i < turn) /\ ~(i > turn)
      BY <2>1, <3>1, <3>2 DEF Order
    <3>4. i = turn
      BY <3>3, ChainFacts, TurnPlaces
    <3> QED  BY <3>1, <3>2, <3>4
  <2>2. ASSUME task \in {"ok", "error"}  PROVE audit = result
    <3>1. \A r \in Roles : audit[r] = result[r]
      BY <2>1, <2>2 DEF Order
    <3> QED  BY <3>1 DEF Order, Accepted
  <2> QED  BY <2>1, <2>2 DEF AuditIsComplete
<1> QED
  BY <1>1, InvariantHolds, PTL
-------------------------------------------------------------------------------
(* The report                                                                *)

\* A manager that succeeded has a claim: MINIMUM_VALID_CLAIMS wants one of each.
ManagersHaveClaims ==
  \A m \in Managers : result[m] = "ok" => accepted[m] # {}

LEMMA NextManagersHaveClaims ==
  ASSUME IInv, ManagersHaveClaims, [Next]_vars
  PROVE  ManagersHaveClaims'
<1>1. accepted \in [Sources -> SUBSET Claim] /\ result \in [Roles -> {"none", "ok", "error"}]
  BY DEF IInv, Accepted
<1>2. Managers \subseteq Roles /\ Roles \subseteq Sources
  BY DEF Roles, Sources
<1>3. CASE UNCHANGED <<result, accepted>>
  BY <1>3 DEF ManagersHaveClaims
<1>4. ASSUME NEW r \in Roles, Fails(r)  PROVE ManagersHaveClaims'
  BY <1>1, <1>2, <1>4 DEF Fails, Ends, ManagersHaveClaims
<1>5. ASSUME NEW r \in Roles, Answer(r), ~Fails(r)  PROVE ManagersHaveClaims'
  <2>1. PICK answer \in Answers[r] :
          /\ Cardinality(Retained(r, answer)) >= Minimum[r]
          /\ Ends(r, "ok", {Accept(r, c) : c \in Retained(r, answer)})
    BY <1>5 DEF Answer, Fails
  <2>2. ASSUME r \in Managers  PROVE Retained(r, answer) # {}
    <3>1. Minimum[r] \in Nat /\ Minimum[r] >= 1
      BY <2>2, ChainAssumption, AssemblyAssumption
    <3>2. ~(0 >= Minimum[r])
      BY <3>1
    <3> QED  BY <2>1, <3>2, FS_EmptySet
  <2> DEFINE new == {Accept(r, c) : c \in Retained(r, answer)}
  <2>3. r \in Managers => new # {}
    BY <2>2
  <2>4. /\ accepted' = [accepted EXCEPT ![r] = new]
        /\ result' = [result EXCEPT ![r] = "ok"]
    BY <2>1 DEF Ends
  <2> HIDE DEF new
  <2> QED  BY <1>1, <1>2, <2>3, <2>4 DEF ManagersHaveClaims
<1>6. ASSUME NEW r \in Roles, AgentStep(r)  PROVE ManagersHaveClaims'
  BY <1>3, <1>4, <1>5, <1>6
     DEF AgentStep, AnswerInvalid, AgentFails, Fails, Save, SaveFails
<1>7. CASE CoordinatorStep
  BY <1>3, <1>7 DEF CoordinatorStep, AnalystReturns, ResearchReturns, BullReturns,
     BearReturns, RiskReturns
<1>8. CASE UNCHANGED vars
  BY <1>3, <1>8 DEF vars
<1> QED
  BY <1>6, <1>7, <1>8 DEF Next

\* Who a role's section belongs to, and what it is when it has been assembled.
LEMMA AssembledSections ==
  /\ AnalystSet \subseteq SectionNames
  /\ \A a \in AnalystSet : Sections[a] = AnalystSection(a)
  /\ \A m \in {"bull", "bear", "risk"} : Sections[m] = Section(Statements(m), {})
  /\ Sections["executive_view"]
       = Section(OfChains(ChainClaims) \union Statements("research"), {})
  /\ Sections["macro_context"] = MacroSection
  /\ Sections["final_synthesis"] = Section(FinalStatements, {})
<1>1. AnalystSet \intersect Managers = {}
  BY ChainAssumption
<1>2. AnalystSet \intersect {"executive_view", "macro_context", "final_synthesis"} = {}
  BY AssemblyAssumption
<1> QED
  BY <1>1, <1>2 DEF SectionNames, Sections, Managers

\* The section of an analyst holds the statements it shows, and says so if it failed.
LEMMA AnalystSectionIs ==
  ASSUME NEW a
  PROVE  /\ AnalystSection(a).statements = Shown(a)
         /\ result[a] = "error" => "unavailable" \in AnalystSection(a).notes
         /\ AnalystSection(a) = Section(AnalystSection(a).statements, AnalystSection(a).notes)
<1> DEFINE notes == IF result[a] = "error" THEN {"unavailable"} ELSE {}
<1>1. AnalystSection(a) = Section(Shown(a), notes)
  BY DEF AnalystSection
<1>2. result[a] = "error" => "unavailable" \in notes
  OBVIOUS
<1> HIDE DEF notes
<1> QED
  BY <1>1, <1>2 DEF Section

LEMMA MacroSectionIs ==
  /\ MacroSection.statements = MacroStatements
  /\ MacroSection = Section(MacroSection.statements, MacroSection.notes)
<1> DEFINE notes == IF MacroStatements = {} THEN {"unaddressed"} ELSE {}
<1>1. MacroSection = Section(MacroStatements, notes)
  BY DEF MacroSection
<1> HIDE DEF notes
<1> QED
  BY <1>1 DEF Section

LEMMA ShownAreStatements ==
  ASSUME NEW r
  PROVE  /\ Shown(r) \subseteq Statements(r)
         /\ r # "sentiment" => Shown(r) = Statements(r)
BY DEF Shown

\* Every statement of a role is a claim the role was accepted for.
LEMMA StatementIs ==
  ASSUME NEW r, NEW s \in Statements(r)
  PROVE  s.by = r /\ s.claim \in accepted[r]
BY DEF Statements, Statement

\* The statement about a claim, if it is listed at all.
LEMMA ClaimIsStated ==
  ASSUME NEW r, NEW c \in accepted[r]
  PROVE  \E s \in Statements(r) : s.by = r /\ s.claim = c
<1>1. Statement(r, GroupOf[r][c.id], c) \in Statements(r)
  BY DEF Statements
<1> QED
  BY <1>1 DEF Statement

\* A claim that was accepted rests on evidence that counts.
LEMMA AcceptedIsBound ==
  ASSUME IInv, NEW r \in Roles, NEW c \in accepted[r]
  PROVE  result[r] = "ok" /\ c.cites # {} /\ c.cites \subseteq Bound
<1>1. result[r] = "ok" /\ c.cites # {}
  BY DEF IInv, Accepted, NumbersReachEvidence
<1>2. CASE r \in Managers
  BY <1>1, <1>2 DEF IInv, ProvenanceIsAccepted
<1>3. CASE r \in AnalystSet
  BY <1>1, <1>3 DEF Bound
<1> QED
  BY <1>1, <1>2, <1>3 DEF Roles

\* A task that has ended takes no step.
LEMMA EndedTaskRests ==
  ASSUME task # "running"  PROVE ~Next
BY DEF Next, AgentStep, Answer, AnswerInvalid, AgentFails, Save, SaveFails, Asking, Finished,
       CoordinatorStep, AnalystReturns, ResearchReturns, BullReturns, BearReturns, RiskReturns,
       Returned, Turn

\* Each section is its statements and its notes.
Shape ==
  /\ sections = [n \in SectionNames |-> sections[n]]
  /\ \A n \in SectionNames : sections[n] = Section(sections[n].statements, sections[n].notes)

\* The report is made from a task that ended well, and nothing it was made from
\* changes after that.
AssemblyIInv ==
  /\ IInv /\ ManagersHaveClaims /\ Shape
  /\ report \in {"none", "refused", "made"}
  /\ report # "none" => task = "ok"
  /\ ReportIsItsClaims /\ FailedAnalystIsDisclosed

LEMMA InitAssembly == AssemblyInit => AssemblyIInv
<1> SUFFICES ASSUME AssemblyInit PROVE AssemblyIInv
  OBVIOUS
<1>1. IInv
  BY InitIInv DEF AssemblyInit
<1>2. ManagersHaveClaims
  BY DEF AssemblyInit, Init, ManagersHaveClaims, Roles
<1>3. Shape
  BY DEF AssemblyInit, Shape, Section
<1>4. report = "none"
  BY DEF AssemblyInit
<1> QED
  BY <1>1, <1>2, <1>3, <1>4 DEF AssemblyIInv, ReportIsItsClaims, FailedAnalystIsDisclosed

\* The sections as they are assembled say what was accepted.
LEMMA MadeReportIsItsClaims ==
  IInv /\ sections = Sections => ReportIsItsClaims
<1> SUFFICES ASSUME IInv, sections = Sections PROVE ReportIsItsClaims
  OBVIOUS
<1> DEFINE Home(r) == IF r = "research" THEN "executive_view" ELSE r
           Kept(r, c) == ~(r = "sentiment" /\ c.cites \intersect Posts # {}
                                           /\ c.cites \intersect Aggregates = {})
<1>1. ASSUME NEW r \in Roles, NEW c \in accepted[r]
      PROVE  (\E s \in Said(Home(r)) : s.by = r /\ s.claim = c) <=> Kept(r, c)
  <2>1. \E s \in Statements(r) : s.by = r /\ s.claim = c
    BY <1>1, ClaimIsStated
  <2>2. CASE r \in AnalystSet
    <3>1. Home(r) = r
      BY <2>2, ChainAssumption DEF Managers
    <3>4. Said(r) = Shown(r)
      BY <2>2, AssembledSections, AnalystSectionIs DEF Said
    <3>2. CASE r = "sentiment"
      BY <2>1, <3>1, <3>2, <3>4 DEF Shown, Keeps
    <3>3. CASE r # "sentiment"
      BY <2>1, <3>1, <3>3, <3>4 DEF Shown
    <3> QED  BY <3>2, <3>3
  <2>3. CASE r \in {"bull", "bear", "risk"}
    <3>1. Home(r) = r /\ Said(r) = Statements(r) /\ r # "sentiment"
      BY <2>3, AssembledSections DEF Said, Section
    <3> QED  BY <2>1, <3>1
  <2>4. CASE r = "research"
    <3>1. Statements(r) \subseteq Said(Home(r)) /\ r # "sentiment"
      BY <2>4, AssembledSections DEF Said, Section
    <3> QED  BY <2>1, <3>1
  <2> QED  BY <2>2, <2>3, <2>4 DEF Roles, Managers
<1>2. ASSUME NEW c \in accepted["news"], c.cites \intersect Macro # {}
      PROVE  \E s \in Said("macro_context") : s.claim = c
  <2>1. PICK s \in Statements("news") : s = Statement("news", GroupOf["news"][c.id], c)
    BY <1>2 DEF Statements
  <2>2. [s EXCEPT !.group = "facts"] \in MacroStatements
    BY <1>2, <2>1 DEF MacroStatements, Statement
  <2>3. [s EXCEPT !.group = "facts"].claim = c
    BY <2>1 DEF Statement
  <2>4. Said("macro_context") = MacroStatements
    BY AssembledSections DEF Said, MacroSection, Section
  <2> QED  BY <2>2, <2>3, <2>4
<1>3. ASSUME NEW n \in SectionNames, NEW s \in Said(n)
      PROVE  \/ s \in OfChains(ChainClaims)
             \/ \E r \in Roles : s.by = r /\ s.claim \in accepted[r]
  <2>1. CASE n \in AnalystSet
    <3>1. s \in Statements(n)
      BY <1>3, <2>1, AssembledSections, AnalystSectionIs, ShownAreStatements DEF Said
    <3> QED  BY <2>1, <3>1, StatementIs DEF Roles
  <2>2. CASE n \in {"bull", "bear", "risk"}
    <3>1. s \in Statements(n)
      BY <1>3, <2>2, AssembledSections DEF Said, Section
    <3> QED  BY <2>2, <3>1, StatementIs DEF Roles, Managers
  <2>3. CASE n = "executive_view"
    <3>1. s \in OfChains(ChainClaims) \/ s \in Statements("research")
      BY <1>3, <2>3, AssembledSections DEF Said, Section
    <3> QED  BY <3>1, StatementIs DEF Roles, Managers
  <2>4. CASE n = "macro_context"
    <3>1. PICK t \in Statements("news") : s = [t EXCEPT !.group = "facts"]
      BY <1>3, <2>4, AssembledSections DEF Said, MacroSection, Section, MacroStatements
    <3>2. PICK c \in accepted["news"] : t = Statement("news", GroupOf["news"][c.id], c)
      BY DEF Statements
    <3>3. s.by = "news" /\ s.claim = c
      BY <3>1, <3>2 DEF Statement
    <3> QED  BY <3>3, AssemblyAssumption DEF Roles
  <2>5. CASE n = "final_synthesis"
    <3>1. s \in Statements("research") \/ s \in Statements("risk")
      BY <1>3, <2>5, AssembledSections DEF Said, Section, FinalStatements
    <3> QED  BY <3>1, StatementIs DEF Roles, Managers
  <2> QED  BY <2>1, <2>2, <2>3, <2>4, <2>5 DEF SectionNames
<1>4. ASSUME NEW n \in SectionNames, NEW s \in Said(n)
      PROVE  IF s.by = "sector" THEN s.claim \in SectorClaims \union LaterClaims
             ELSE /\ result[s.by] = "ok" /\ s.claim \in accepted[s.by]
                  /\ s.claim.cites # {} /\ s.claim.cites \subseteq Bound
  <2>1. CASE s \in OfChains(ChainClaims)
    BY <2>1, AssemblyAssumption DEF OfChains, Statement
  <2>2. CASE \E r \in Roles : s.by = r /\ s.claim \in accepted[r]
    <3>1. "sector" \notin Roles
      BY ChainAssumption DEF Roles, Managers
    <3> QED  BY <2>2, <3>1, AcceptedIsBound
  <2> QED  BY <1>3, <1>4, <2>1, <2>2
<1> QED
  BY <1>1, <1>2, <1>4 DEF ReportIsItsClaims

LEMMA MadeReportIsItsClaimsNext == (IInv /\ sections = Sections => ReportIsItsClaims)'
  BY MadeReportIsItsClaims, PTL

\* Assembling, or refusing to.
LEMMA AssembleKeeps ==
  ASSUME AssemblyIInv, Assemble
  PROVE  AssemblyIInv'
<1>1. IInv /\ ManagersHaveClaims /\ Shape /\ task = "ok" /\ UNCHANGED vars
  BY DEF AssemblyIInv, Assemble
<1>2. IInv' /\ ManagersHaveClaims' /\ task' = "ok"
  BY <1>1, NextIInv DEF vars, ManagersHaveClaims
<1>3. CASE AssemblyRefused
  <2>1. report' = "refused" /\ sections' = sections
    BY <1>3 DEF Assemble
  <2>2. PICK r \in Roles : result[r] = "ok" /\ accepted[r] = {}
    BY <1>1, <1>3 DEF AssemblyRefused, IInv, NumbersReachEvidence
  <2>3. r \in AnalystSet
    BY <1>1, <2>2 DEF ManagersHaveClaims, Roles
  <2>4. FailedAnalystIsDisclosed' /\ ReportIsItsClaims'
    BY <1>1, <2>1, <2>2, <2>3 DEF FailedAnalystIsDisclosed, ReportIsItsClaims, vars
  <2>5. Shape'
    BY <1>1, <2>1 DEF Shape
  <2> QED  BY <1>2, <2>1, <2>4, <2>5 DEF AssemblyIInv
<1>4. CASE ~AssemblyRefused
  <2>1. report' = "made" /\ sections' = Sections /\ Sections' = Sections
    BY <1>1, <1>4 DEF Assemble, vars, Sections, AnalystSection, Shown, Statements, OfChains,
       MacroSection, MacroStatements, FinalStatements
  <2>2. ReportIsItsClaims'
    BY <1>2, <2>1, MadeReportIsItsClaimsNext
  <2>3. ASSUME NEW a \in AnalystSet, result[a] = "error"
        PROVE  sections'[a].statements = {} /\ "unavailable" \in sections'[a].notes
    <3>1. accepted[a] = {}
      BY <1>1, <2>3 DEF IInv, Accepted, Roles
    <3>2. Shown(a) = {}
      BY <3>1 DEF Shown, Statements
    <3> QED  BY <2>1, <2>3, <3>2, AssembledSections, AnalystSectionIs
  <2>4. FailedAnalystIsDisclosed'
    BY <1>1, <2>1, <2>3 DEF FailedAnalystIsDisclosed, Said, vars
  <2>5. Shape'
    <3>1. \A n \in SectionNames :
            Sections[n] = Section(Sections[n].statements, Sections[n].notes)
      <4>1. ASSUME NEW n \in SectionNames
            PROVE  \/ n \in AnalystSet /\ Sections[n] = AnalystSection(n)
                   \/ Sections[n] = MacroSection
                   \/ \E statements : Sections[n] = Section(statements, {})
        BY AssembledSections DEF SectionNames
      <4>2. ASSUME NEW statements  PROVE Section(statements, {})
              = Section(Section(statements, {}).statements, Section(statements, {}).notes)
        BY DEF Section
      <4> QED  BY <4>1, <4>2, AnalystSectionIs, MacroSectionIs
    <3>2. Sections = [n \in SectionNames |-> Sections[n]]
      <4> DEFINE at(n) == CASE n \in AnalystSet        -> AnalystSection(n)
                            [] n \in Managers          -> Section(Statements(n), {})
                            [] n = "executive_view"    -> Section(OfChains(ChainClaims)
                                                            \union Statements("research"), {})
                            [] n = "macro_context"     -> MacroSection
                            [] n = "final_synthesis"   -> Section(FinalStatements, {})
      <4>1. Sections = [n \in SectionNames |-> at(n)]
        BY DEF Sections
      <4> HIDE DEF at
      <4> QED  BY <4>1
    <3> QED  BY <2>1, <3>1, <3>2 DEF Shape
  <2> QED  BY <1>2, <2>1, <2>2, <2>4, <2>5 DEF AssemblyIInv
<1> QED
  BY <1>3, <1>4

\* A resumed run adds statements of the sector to the executive view and no other.
LEMMA SurfaceKeeps ==
  ASSUME AssemblyIInv, SurfaceSectorContext
  PROVE  AssemblyIInv'
<1>1. /\ IInv /\ ManagersHaveClaims /\ Shape /\ task = "ok" /\ report = "made"
      /\ UNCHANGED <<vars, report>> /\ ReportIsItsClaims /\ FailedAnalystIsDisclosed
  BY DEF AssemblyIInv, SurfaceSectorContext
<1>2. IInv' /\ ManagersHaveClaims' /\ task' = "ok"
  BY <1>1, NextIInv DEF vars, ManagersHaveClaims
<1> DEFINE new == OfChains(Projected)
<1>3. \A n \in SectionNames :
        /\ sections'[n].statements
             = sections[n].statements \union (IF n = "executive_view" THEN new ELSE {})
        /\ sections'[n].notes = sections[n].notes
  BY <1>1 DEF SurfaceSectorContext, Shape, Section
<1>4. Shape'
  <2>1. sections' = [n \in SectionNames |-> sections'[n]]
    BY <1>1 DEF SurfaceSectorContext, Shape
  <2>2. ASSUME NEW n \in SectionNames
        PROVE  sections'[n] = Section(sections'[n].statements, sections'[n].notes)
    <3>1. sections[n] = Section(sections[n].statements, sections[n].notes)
      BY <1>1 DEF Shape
    <3>2. CASE n = "executive_view"
      <4> DEFINE more == sections[n].statements \union OfChains(Projected)
      <4>1. sections'[n] = [sections[n] EXCEPT !.statements = more]
        BY <1>1, <3>2 DEF SurfaceSectorContext, Shape
      <4> HIDE DEF more
      <4>2. sections'[n] = Section(more, sections[n].notes)
        BY <3>1, <4>1 DEF Section
      <4> QED  BY <4>2 DEF Section
    <3>3. CASE n # "executive_view"
      <4>1. sections'[n] = sections[n]
        BY <1>1, <3>3 DEF SurfaceSectorContext, Shape
      <4> QED  BY <3>1, <4>1
    <3> QED  BY <3>2, <3>3
  <2> QED  BY <2>1, <2>2 DEF Shape
<1>5. \A s \in new : s.by = "sector" /\ s.claim \in LaterClaims
  BY DEF OfChains, Statement, Projected
<1>6. "sector" \notin Roles /\ "executive_view" \notin AnalystSet
      /\ \A r \in Roles \ {"research"} : r \in SectionNames
  BY ChainAssumption, AssemblyAssumption DEF Roles, Managers, SectionNames
<1>7. \A n \in SectionNames : Said(n) \subseteq Said(n)' /\ Said(n)' \subseteq Said(n) \union new
  BY <1>3 DEF Said
<1>8. UNCHANGED <<accepted, result, report, Bound>>
  BY <1>1 DEF vars, Bound
<1> HIDE DEF new
<1>9. ReportIsItsClaims'
  <2>1. ASSUME NEW n \in SectionNames, NEW s \in Said(n)'
        PROVE  IF s.by = "sector" THEN s.claim \in SectorClaims \union LaterClaims
               ELSE /\ result[s.by] = "ok" /\ s.claim \in accepted[s.by]
                    /\ s.claim.cites # {} /\ s.claim.cites \subseteq Bound
    BY <1>1, <1>5, <1>7, <2>1 DEF ReportIsItsClaims
  <2>2. ASSUME NEW c \in accepted["news"], c.cites \intersect Macro # {}
        PROVE  \E s \in Said("macro_context")' : s.claim = c
    BY <1>1, <1>7, <2>2 DEF ReportIsItsClaims, SectionNames
  <2>3. ASSUME NEW r \in Roles, NEW n \in SectionNames, NEW c
        PROVE  (\E s \in Said(n) : s.by = r /\ s.claim = c)
                 <=> (\E s \in Said(n)' : s.by = r /\ s.claim = c)
    BY <1>5, <1>6, <1>7
  <2>4. ASSUME NEW r \in Roles, NEW c \in accepted[r]
        PROVE  LET home == IF r = "research" THEN "executive_view" ELSE r
               IN (\E s \in Said(home)' : s.by = r /\ s.claim = c)
                    <=> ~(r = "sentiment" /\ c.cites \intersect Posts # {}
                                          /\ c.cites \intersect Aggregates = {})
    <3> DEFINE home == IF r = "research" THEN "executive_view" ELSE r
    <3>1. home \in SectionNames
      BY <1>6 DEF SectionNames
    <3>2. (\E s \in Said(home) : s.by = r /\ s.claim = c)
            <=> ~(r = "sentiment" /\ c.cites \intersect Posts # {}
                                  /\ c.cites \intersect Aggregates = {})
      BY <1>1 DEF ReportIsItsClaims
    <3> HIDE DEF home
    <3>3. (\E s \in Said(home) : s.by = r /\ s.claim = c)
            <=> (\E s \in Said(home)' : s.by = r /\ s.claim = c)
      BY <2>3, <3>1
    <3>4. (\E s \in Said(home)' : s.by = r /\ s.claim = c)
            <=> ~(r = "sentiment" /\ c.cites \intersect Posts # {}
                                  /\ c.cites \intersect Aggregates = {})
      BY <3>2, <3>3
    <3> QED  BY <3>4 DEF home
  <2> QED  BY <1>8, <2>1, <2>2, <2>4 DEF ReportIsItsClaims, Said
<1>10. FailedAnalystIsDisclosed'
  <2>1. ASSUME NEW a \in AnalystSet
        PROVE  sections'[a].statements = sections[a].statements
               /\ sections'[a].notes = sections[a].notes
    BY <1>3, <1>6, AssembledSections
  <2> QED  BY <1>1, <1>8, <2>1 DEF FailedAnalystIsDisclosed, Said
<1> QED
  BY <1>1, <1>2, <1>4, <1>9, <1>10 DEF AssemblyIInv

LEMMA NextAssembly == AssemblyIInv /\ [AssemblyNext]_allVars => AssemblyIInv'
<1> SUFFICES ASSUME AssemblyIInv, [AssemblyNext]_allVars PROVE AssemblyIInv'
  OBVIOUS
<1>1. CASE Next /\ UNCHANGED reportVars
  <2>1. report = "none" /\ report' = "none" /\ sections' = sections
    BY <1>1, EndedTaskRests DEF AssemblyIInv, reportVars
  <2>2. IInv' /\ ManagersHaveClaims' /\ Shape'
    BY <1>1, <2>1, NextIInv, NextManagersHaveClaims DEF AssemblyIInv, Shape
  <2> QED  BY <2>1, <2>2 DEF AssemblyIInv, ReportIsItsClaims, FailedAnalystIsDisclosed
<1>2. CASE Assemble
  BY <1>2, AssembleKeeps
<1>3. CASE SurfaceSectorContext
  BY <1>3, SurfaceKeeps
<1>4. CASE UNCHANGED allVars
  <2>1. UNCHANGED vars /\ UNCHANGED <<report, sections>>
    BY <1>4 DEF allVars
  <2>2. IInv' /\ ManagersHaveClaims' /\ Shape'
    BY <2>1, NextIInv DEF AssemblyIInv, ManagersHaveClaims, Shape, vars
  <2>3. ReportIsItsClaims' /\ FailedAnalystIsDisclosed'
    BY <2>1 DEF AssemblyIInv, ReportIsItsClaims, FailedAnalystIsDisclosed, Said, Bound, vars
  <2> QED  BY <2>1, <2>2, <2>3 DEF AssemblyIInv, vars
<1> QED
  BY <1>1, <1>2, <1>3, <1>4 DEF AssemblyNext

LEMMA AssemblyHolds == AssemblySpec => []AssemblyIInv
  BY InitAssembly, NextAssembly, PTL DEF AssemblySpec

\* ReportAssembler and surface_sector_context: a report that was made lists the
\* accepted claims, no less and no more, on evidence that has been bound, whatever
\* the agents answered and however often a live run is resumed.
THEOREM ReportsAreTheirClaims == AssemblySpec => []ReportIsItsClaims
<1>1. AssemblyIInv => ReportIsItsClaims
  BY DEF AssemblyIInv
<1> QED
  BY <1>1, AssemblyHolds, PTL

\* A failed analyst is disclosed in its section, and only an analyst that succeeded
\* with nothing to say costs the report: a manager that succeeded has a claim, and
\* an accepted claim has a citation.
THEOREM FailedAnalystsAreDisclosed == AssemblySpec => []FailedAnalystIsDisclosed
<1>1. AssemblyIInv => FailedAnalystIsDisclosed
  BY DEF AssemblyIInv
<1> QED
  BY <1>1, AssemblyHolds, PTL
==============================================================================
