-------------------------- MODULE SectorPipelineMC --------------------------
(***************************************************************************)
(* Two sectors: S1 with two assets on two chains, of which one asset also  *)
(* belongs, with less weight, to S2, and S2 with one asset and a chain     *)
(* that an edge connects to the first asset of S1.  Another edge connects  *)
(* the second asset of S1 to the first one's chain.  The first asset's     *)
(* price moves on day 2, while the second one's recovers from a fall: the  *)
(* breadth of S1 differs between the windows, the returns of S2 disperse.  *)
(* A macro series moves with the benchmark.                                *)
(***************************************************************************)
EXTENDS SectorPipeline

Always == [from |-> 0, to |-> None, version |-> "v1"]

MCSectors == <<"S1", "S2">>
MCRank == [S1 |-> 2, S2 |-> 1]
MCScope == [S1 |-> <<"named", "S1">>, S2 |-> <<"named", "S2">>]

ScopeRow(type, scope, parent, name) ==
    Always @@ [type |-> type, scope |-> scope, parent |-> parent, name |-> name]
Chain(chain, sector) == Always @@ [chain |-> chain, sector |-> sector, active |-> TRUE]
Membership(asset, sector, chains, weight) ==
    Always @@ [asset |-> asset, sector |-> sector, chains |-> chains, role |-> "member",
               source |-> "seed", weight |-> weight, confidence |-> 1]
Node(type, node, sector, chain, asset) ==
    Always @@ [type |-> type, node |-> node, sector |-> sector, chain |-> chain,
               asset |-> asset, name |-> node]

MCSeed ==
    [chains |-> <<Chain("C1", "S1"), Chain("C2", "S1"), Chain("C3", "S2")>>,
     memberships |-> <<Membership("A1", "S1", <<"C1">>, 2), Membership("A2", "S1", <<"C2">>, 1),
                       Membership("A1", "S2", <<>>, 1), Membership("A3", "S2", <<"C3">>, 1)>>,
     scopes |-> <<ScopeRow("global", <<"global">>, None, "world"),
                  ScopeRow("macro", <<"macro">>, <<"global">>, "us"),
                  ScopeRow("sector", MCScope.S1, <<"macro">>, "S1"),
                  ScopeRow("sector", MCScope.S2, <<"macro">>, "S2"),
                  ScopeRow("chain", ScopeOfChain("C1"), MCScope.S1, "C1"),
                  ScopeRow("chain", ScopeOfChain("C2"), MCScope.S1, "C2"),
                  ScopeRow("chain", ScopeOfChain("C3"), MCScope.S2, "C3"),
                  ScopeRow("asset", ScopeOfAsset("A1"), ScopeOfChain("C1"), "A1"),
                  ScopeRow("asset", ScopeOfAsset("A2"), ScopeOfChain("C2"), "A2"),
                  ScopeRow("asset", ScopeOfAsset("A3"), MCScope.S2, "A3")>>,
     nodes |-> <<Node("sector", "S1", "S1", None, None), Node("sector", "S2", "S2", None, None),
                 Node("chain", "N3", "S2", "C3", None), Node("asset", "NA", None, None, "A1"),
                 Node("chain", "N1", "S1", "C1", None), Node("asset", "NB", None, None, "A2")>>,
     edges |-> <<Always @@ [edge |-> "E1", source |-> "NA", target |-> "N3"],
                 Always @@ [edge |-> "E2", source |-> "NB", target |-> "N1"]>>]

MCCandidates ==
    [s \in {"S1", "S2"} |->
        [sector |-> s, candidates |-> IF s = "S1" THEN <<"B">> ELSE <<"B", "B2">>,
         status |-> "available"]]

Price(asset, day, close, shock) ==
    [asset |-> asset, day |-> day, close |-> close, shock |-> shock]
MCPrices ==
    {Price(a, d, 10 + d, "none") : a \in {"B", "M"}, d \in 0 .. 2}
        \union {Price("A1", 0, 10, "none"), Price("A1", 1, 10, "none"),
                Price("A1", 2, 15, "high"), Price("A2", 0, 13, "none"),
                Price("A2", 1, 11, "none"), Price("A2", 2, 12, "none"),
                Price("A3", 0, 16, "none"), Price("A3", 1, 15, "none"),
                Price("A3", 2, 12, "medium")}

MCFilings == {[asset |-> "A1", period |-> 1, accepted |-> 5, source |-> "fmp",
               growth |-> 3, pe |-> 20]}
MCObservations == {[series |-> "X", day |-> d, vintage |-> d, value |-> 7 * d] : d \in 1 .. 2}
MCDimensions == [rates |-> {"X"}]

MCAssets == <<"A1", "A2", "A3">>

Cut(mode, at) == [mode |-> mode, at |-> at]

MCClocks == {Cut("date", 8), Cut("instant", 8), Cut("instant", 9)}

Claim(kinds, category, disclosed, certain, causal) ==
    [kinds |-> kinds, category |-> category, disclosed |-> disclosed, certain |-> certain,
     causal |-> causal, invents |-> FALSE, prohibited |-> FALSE, grounded |-> TRUE]
Careful(kinds, category) == Claim(kinds, category, TRUE, FALSE, FALSE)
Draft(claims, support) == [status |-> "draft", claims |-> claims, support |-> support]

(* A careful draft; one that calls candidates certain; one whose first     *)
(* claims are rejected, so that what remains is renumbered; one that       *)
(* leaves the events out; an answer that is no draft.                      *)
Three == <<Careful({"market_state"}, "trend"), Careful({"breadth_state"}, "breadth"),
           Careful({"macro_state"}, "macro_environment")>>
MCTemplates ==
    {Draft(Three \o <<Careful({"anomaly_event"}, "anomalies")>>, {1, 4}),
     Draft(Three \o <<Claim({"anomaly_event"}, "catalysts", TRUE, TRUE, FALSE)>>, {1}),
     Draft(<<[Careful({"market_state"}, "trend") EXCEPT !.invents = TRUE],
             Claim({"macro_sensitivity"}, "cycle", TRUE, FALSE, TRUE)>>
               \o Three \o <<Careful({"anomaly_event"}, "risks")>>, {1, 3}),
     Draft(Three, {1}),
     [status |-> "error", claims |-> <<>>, support |-> {}]}

=============================================================================
