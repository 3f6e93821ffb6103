-------------------------- MODULE ResearchHandoffMC --------------------------
(***************************************************************************)
(* An instance of ResearchHandoff: an asset with runs at three cutoffs,    *)
(* one of them run twice, and a second asset.  The runs differ in where    *)
(* and what the normalized features are and in the evidence behind them.   *)
(***************************************************************************)
EXTENDS ResearchHandoff

Claim(id) ==
    [id |-> id, text |-> "text", up |-> {}, direct |-> TRUE, sourced |-> TRUE]

Accepted(role, id) == [role |-> role, run |-> role, claim |-> Claim(id)]

Value(section, namespace, item, value, cutoff, evidence) ==
    [section |-> section, name |-> <<namespace, item>>, value |-> value,
     asOf |-> cutoff, claims |-> {}, evidence |-> evidence,
     transform |-> "transform"]

Text(s) == <<"text", s>>

Item(cutoff) ==
    [field |-> <<"data", "">>, observed |-> cutoff - 1, effective |-> 0,
     id |-> 0, value |-> <<"num", 1>>]

Bundle_(asset, cutoff) ==
    [asset |-> asset, asOf |-> cutoff, id |-> <<"bundle", asset>>,
     data |-> [d \in Capabilities |->
                 IF d = "asset_identity"
                 THEN [status |-> "present", items |-> {Item(cutoff)}]
                 ELSE [status |-> "missing", items |-> {}]]]

s0 == <<"sector", "", 0>>
Context ==
    [id |-> <<"context", "c">>, asset |-> "a", asOf |-> 30, scope |-> "SECTOR",
     chains |-> {"chain"}, cycle |-> "expansion", cycleClaims |-> {s0},
     claims |-> {Claim(s0)}, macroClaims |-> {}]

Run(name, asset, cutoff, claims, sector, normalized) ==
    [run |-> name, bundle |-> Bundle_(asset, cutoff), claims |-> claims,
     sector |-> sector, memory |-> None, normalized |-> normalized]

e1 == 1
e2 == 2
e3 == 3

MCFrozen ==
    [a1 |-> Run("a1", "a", 14, {Accepted("research_manager",
                                         <<"research", "thesis", 0>>)}, None,
        {Value("event", "logic_certainty", "", Text("early_signal"), 14, {e1}),
         Value("thesis", "expectation_revision", "value", <<"num", 2>>, 14,
               {e3}),
         Value("event", "hypothesis", "h", Text("open"), 14, {e2}),
         Value("thesis", "thesis", "disposition", Text("neutral"), 14, {e1}),
         Value("risk", "risk", "demand", Text("open"), 14, {e1}),
         Value("thesis", "hypothesis", "h", Text("open"), 14, {e1})}),
     a2 |-> Run("a2", "a", 20, {Accepted("research_manager",
                                         <<"research", "thesis", 0>>)}, None,
        {Value("event", "logic_certainty", "", Text("order_confirmed"), 20, {e1}),
         Value("thesis", "expectation_revision", "value", <<"num", 6>>, 20, {e1}),
         Value("thesis", "thesis", "disposition", Text("positive"), 20, {e1}),
         Value("risk", "risk", "supply", Text("escalating"), 20, {e1}),
         Value("thesis", "hypothesis", "h", Text("confirmed"), 20, {e1})}),
     a2r |-> Run("a2r", "a", 20, {}, None,
        {Value("thesis", "expectation_revision", "value", <<"num", 3>>, 20, {e2}),
         Value("thesis", "hypothesis", "h", Text("open"), 20, {})}),
     a3 |-> Run("a3", "a", 30,
                {Accepted("risk_manager", <<"risk", "confirmed_risks", 0>>),
                 Accepted("bull_manager", <<"bull", "invalidators", 0>>),
                 Accepted("bear_manager", <<"bear", "case", 0>>)},
                Context,
        {Value("event", "logic_certainty", "", Text("invalidated"), 30, {e2}),
         Value("thesis", "expectation_revision", "value", <<"num", 11>>, 30, {e2}),
         Value("thesis", "expectation_revision", "direction", Text("upgrade"),
               30, {e2}),
         Value("thesis", "thesis", "disposition", Text("invalidated"), 30, {e2}),
         Value("risk", "risk", "supply", Text("resolved"), 30, {e2}),
         Value("sector", "sector_chain_alignment", "",
               Text("positive_alignment"), 30, {e2}),
         Value("industry_chain", "chain_benefit", "revenue_exposure",
               Text("high"), 30, {e2}),
         Value("thesis", "hypothesis", "h", Text("confirmed"), 30, {e1, e2})}),
     b1 |-> Run("b1", "b", 20, {}, None, {})]

MCCreated == [a1 |-> 35, a2 |-> 35, a2r |-> 45, a3 |-> 35, b1 |-> 35]
MCRank == [a1 |-> 1, a2 |-> 2, a2r |-> 3, a3 |-> 4, b1 |-> 5]

MCSectorContext ==
    [context |-> <<"context", "c">>, scope |-> "SECTOR",
     events |-> {[id |-> <<"event", 1>>, available |-> 15,
                  chains |-> {"chain"}, claims |-> {s0}],
                 [id |-> <<"event", 2>>, available |-> 5,
                  chains |-> {}, claims |-> {}]}]

Dated(n, kind, time, available, outcome) ==
    [id |-> <<"event", n>>, kind |-> kind, time |-> time,
     available |-> available, outcome |-> outcome,
     ref |-> <<"identity", <<"field", <<"data", "">>>>>>,
     claims |-> {}, evidence |-> {10 + n}]

Schedule == {Dated(3, "event", 12, 9, Unknown),
             Dated(4, "catalyst", 50, 15, Unknown)}
Leak == {Dated(5, "event", 40, 15, 25)}      \* an outcome before its event

MCSelectionCalls ==
    {[key |-> k, episode |-> k # "b1", sector |-> k = "a3", all |-> FALSE,
      at |-> 40] : k \in {"a2", "a3", "b1"}}
    \union {[key |-> "a3", episode |-> FALSE, sector |-> FALSE, all |-> TRUE,
             at |-> 40]}

Timing(key, history, episode, events) ==
    [key |-> key, history |-> history, episode |-> episode, events |-> events,
     at |-> 40]

MCTimingCalls ==
    {Timing("a3", {}, "a3", {}), Timing("a3", {"a1", "b1"}, "a3", {}),
     Timing("a3", {"a1"}, "a3", {}),
     Timing("a3", {"a1", "a2"}, "a3", Schedule),
     Timing("a3", {"a1", "a2"}, "a2", {}), Timing("a3", {"a1", "a2"}, "a3", Leak),
     Timing("a3", {"a2", "a2r"}, "a3", {}),
     Timing("a2", {"a1"}, "a2", {}), Timing("a2", {"a1", "a3"}, "a2", {})}

MCMemories ==
    {[id |-> <<"memory", 1>>, available |-> 5, effective |-> 0,
      claims |-> {<<"research", "thesis", 0>>}]}

MCComponentName ==
    [n \in {Normalized("risk", "demand"), Normalized("risk", "supply"),
            Normalized("hypothesis", "h")} |-> n[2][2]]
=============================================================================
