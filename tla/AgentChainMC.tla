---------------------------- MODULE AgentChainMC ----------------------------
(***************************************************************************)
(* A chain of three analysts, one of them with claims of the code's own,   *)
(* and its report.  The answers are chosen so that every way to refuse a   *)
(* claim, every collision of claim ids and every use of the sector context *)
(* occurs.  The sentiment analyst may cite a single post, a snapshot or    *)
(* both, or have nothing to say.                                           *)
(***************************************************************************)
EXTENDS ReportAssembly

MCAnalysts == <<"fundamental", "sentiment", "news">>
MCEvidence == {"metric", "filing", "post", "snapshot"}
MCLiterals == {"1000", "7"}
MCIds      == {"canonical", "shared", "sector", "own"}

MCManifest == [fundamental |-> {"metric", "filing"}, sentiment |-> {"post", "snapshot"},
               news |-> {"filing"}]
MCTokens   == [metric |-> {"1000"}, filing |-> {"7"}, post |-> {}, snapshot |-> {}]

\* The filing has a scaled form of the literal 1000.
MCGrounds == [MCTokens EXCEPT !["filing"] = {"1000", "7"}]

MCMinimum ==
  [fundamental |-> 2, sentiment |-> 0, news |-> 0, research |-> 1, bull |-> 1,
   bear |-> 2, risk |-> 1]

MCCanonical ==
  [fundamental |-> {[id |-> "canonical", nums |-> {"1000"}, links |-> {"metric"}]},
   sentiment   |-> {},
   news        |-> {}]

MCSectorClaims ==
  {[id |-> "sector", nums |-> {"7"}, cites |-> {"filing"}, parents |-> {}]}

Drafts(ids, numbers, links) == [id : ids, nums : numbers, links : links]

UpToTwo(drafts) == {{}} \union {{c, d} : c, d \in drafts}

AnalystDrafts ==
  Drafts({"canonical", "shared"}, {{"7"}, {"1000"}}, {{"metric"}, {"filing"}})

MCAnswers ==
  [fundamental |-> UpToTwo(AnalystDrafts),
   sentiment   |-> {{}} \union {{c} : c \in Drafts({"own"}, {{}},
                        {{"post"}, {"snapshot"}, {"post", "snapshot"}})},
   news        |-> UpToTwo(AnalystDrafts),
   research    |-> {{c} : c \in Drafts({"shared", "own"}, {{}, {"7"}, {"1000"}},
                                       {{}, {"canonical"}, {"shared"}, {"sector"}})},
   bull        |-> {{c} : c \in Drafts({"own"}, {{"7"}},
                                       {{"own"}, {"shared", "sector"}})},
   bear        |-> {{c, d} : c, d \in Drafts({"shared", "own"}, {{}, {"1000"}},
                                             {{"canonical"}, {"shared"}})},
   risk        |-> {{c} : c \in Drafts({"own"}, {{}, {"7"}},
                                       {{"own"}, {"shared"}, {"sector", "canonical"}})}]

\* The sentiment analyst states inferences, everyone else lists risks as well.
MCGroupOf ==
  [r \in Roles |-> [i \in Ids |-> IF r # "sentiment" /\ i = "own" THEN "risk_warnings"
                                  ELSE "inferences"]]

MCMacro == {"filing"}
MCLaterClaims ==
  {[id |-> i, nums |-> {}, cites |-> {"metric"}, parents |-> {}] : i \in {"shared", "own"}}
=============================================================================
