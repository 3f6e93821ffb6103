-------------------------- MODULE ResearchHistoryMC --------------------------
(***************************************************************************)
(* An instance of ResearchHistory with its golden replays: two reports in  *)
(* one database, three roles, one sector claim shown to both managers and  *)
(* one to the research manager alone, and runs that differ in the lineage  *)
(* of their claims.                                                        *)
(***************************************************************************)
EXTENDS GoldenReplay

CONSTANTS r1, r2

Cutoff == 2

Claim(id, up) ==
    [id |-> id, text |-> "text", up |-> up, direct |-> up = {},
     sourced |-> TRUE]

f0 == <<"fundamental_analyst", 0>>
f1 == <<"fundamental_analyst", 1>>
b0 == <<"bull_manager", 0>>
m0 == <<"research_manager", 0>>
m1 == <<"research_manager", 1>>
s0 == <<"sector", 0>>
s1 == <<"sector", 1>>
e0 == <<"event", 0>>

MCRoles == {"fundamental_analyst", "bull_manager", "research_manager"}
MCShownClaims ==
    [fundamental_analyst |-> {}, bull_manager |-> {s0},
     research_manager |-> {s0, s1}]
MCShownEvents ==
    [fundamental_analyst |-> {}, bull_manager |-> {},
     research_manager |-> {e0}]

MCContext ==
    [id |-> "ctx", asset |-> "asset", asOf |-> Cutoff, scope |-> "SECTOR",
     chains |-> {"chain"}, cycle |-> "expansion", cycleClaims |-> {s0},
     claims |-> {Claim(s0, {}), Claim(s1, {})}, macroClaims |-> {s1},
     events |-> {[id |-> e0, claims |-> {s0}]}]

Row(role, status, accepted, rejected) ==
    [role |-> role, status |-> status, given |-> {Claim(s0, {})},
     accepted |-> accepted, rejected |-> rejected]

Direct == Row("fundamental_analyst", "ok", {Claim(f0, {})}, 0)

MCContents ==
    {[rows |-> <<Direct,                        \* the sector claim, through
                 Row("bull_manager", "ok",      \* the bull case
                     {Claim(b0, {s0})}, 0),
                 Row("research_manager", "ok",
                     {Claim(m0, {b0})}, 1)>>,
      created |-> Cutoff],
     [rows |-> <<Direct,                        \* a bull case of its own,
                 Row("bull_manager", "ok",      \* and the sector claim
                     {Claim(b0, {f0})}, 0),     \* cited directly
                 Row("research_manager", "ok",
                     {Claim(m0, {b0}), Claim(m1, {s0})}, 0)>>,
      created |-> Cutoff],
     [rows |-> <<Direct,                        \* no sector context at all
                 Row("research_manager", "ok",
                     {Claim(m0, {f0})}, 0)>>,
      created |-> Cutoff],
     [rows |-> <<Row("fundamental_analyst", "ok",
                     {Claim(f1, {})}, 0),       \* a manager whose claims
                 Row("bull_manager", "failed",  \* were all rejected, in a
                     {}, 1)>>,                  \* live run: stamped after
      created |-> Cutoff + 1]}                  \* its cutoff

Item(field, value) ==
    [field |-> field, observed |-> Cutoff - 1, effective |-> 0, id |-> 1,
     value |-> value]

MCBundle ==
    [asset |-> "asset", asOf |-> Cutoff, id |-> "bundle",
     data |-> [d \in Capabilities |->
                 IF d = "filings" THEN [status |-> "missing", items |-> {}]
                 ELSE [status |-> "present",
                       items |-> {Item(d, <<"num", 1>>)}]]]

MCSummaries ==
    {[agents |-> [research_manager |->
                    [status |-> "ok", valid |-> 1, rejected |-> 0]],
      usage |-> {[role |-> "research_manager", context |-> "ctx",
                  claims |-> {s0}, usedClaims |-> {s0}, events |-> {},
                  usedEvents |-> {}]},
      created |-> Cutoff]}

Memory(n, selected, available) ==
    [id |-> <<"memory", n>>, selected |-> selected, scoped |-> TRUE,
     effective |-> 0, available |-> available]

Retrieval(candidates) ==
    [run |-> <<r1, "research_manager">>, role |-> "research_manager",
     asOf |-> Cutoff, candidates |-> candidates]

MemoryLink(n) ==
    Link("research_manager", <<r1, "research_manager">>, "memory",
         <<"memory", n>>, m0, TRUE)

MCProvisions ==
    {[provisions |-> {}, links |-> {}],
     [provisions |-> {Retrieval({Memory(0, TRUE, 1), Memory(1, FALSE, 1)})},
      links |-> {MemoryLink(0)}],
     [provisions |-> {Retrieval({Memory(0, TRUE, 1), Memory(1, FALSE, 1)})},
      links |-> {MemoryLink(1)}]}
=============================================================================
