--------------------------- MODULE ResearchDataMC ---------------------------
(***************************************************************************)
(* The portfolios of the runs: each source alone, for the sections share   *)
(* neither a table nor a query, and a filing.                              *)
(***************************************************************************)
EXTENDS ResearchData

Alone  == {{i} : i \in Sources}
Filing == {{<<"filing", 0>>}}
=============================================================================
