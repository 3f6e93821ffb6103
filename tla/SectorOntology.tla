--------------------------- MODULE SectorOntology ---------------------------
(***************************************************************************)
(* The versioned sector ontology: which revisions of memberships, chains,  *)
(* scopes, graph nodes and edges are effective on a date, when a seed of   *)
(* them is accepted, how rows enter the sector tables and which of them    *)
(* a point-in-time query returns, and the universe snapshot of a sector.   *)
(*                                                                         *)
(* A date is a day number, None an open end.  A database is a record of    *)
(* tables, each a set of rows; the digests that name snapshots stand for   *)
(* the content they are computed from.                                     *)
(***************************************************************************)
EXTENDS PointInTime, Sequences, FiniteSets, SequencesExt

CONSTANT None       \* an absent optional value

---------------------------------------------------------------------------
(* Effective intervals: inclusive start, exclusive optional end.           *)

Effective(row, date) == row.from <= date /\ (row.to = None \/ date < row.to)

IntervalRejected(row) == row.to # None /\ row.to <= row.from

ContainsInterval(parent, child) ==
    /\ child.from >= parent.from
    /\ \/ parent.to = None
       \/ child.to # None /\ child.to <= parent.to

---------------------------------------------------------------------------
(* Contracts of single rows.                                               *)

ScopeTypes == {"global", "macro", "sector", "chain", "asset", "episode"}

AllowedParents ==
    [macro |-> {"global"}, sector |-> {"macro"}, chain |-> {"sector"},
     asset |-> {"sector", "chain"}, episode |-> {"asset"}]

ScopeRejected(scope) ==
    \/ IntervalRejected(scope)
    \/ (scope.type = "global") # (scope.parent = None)
    \/ scope.scope = scope.parent

NodeRejected(node) ==
    \/ IntervalRejected(node)
    \/ /\ node.type = "sector"
       /\ node.sector = None \/ node.chain # None \/ node.asset # None
    \/ /\ node.type = "chain"
       /\ node.chain = None \/ node.sector = None \/ node.asset # None
    \/ node.type = "asset" /\ (node.asset = None \/ node.chain # None)

EdgeRejected(edge) == IntervalRejected(edge) \/ edge.source = edge.target

BenchmarkRejected(mapping) ==
    \/ IntervalRejected(mapping)
    \/ ~IsInjective(mapping.benchmarks)
    \/ (mapping.status = "missing") # (mapping.benchmarks = <<>>)

---------------------------------------------------------------------------
(* Contracts over the objects of a seed.  Its parts are sequences, so that *)
(* a repeated identity is visible.                                         *)

Repeats(items, key) ==
    \E i, j \in DOMAIN items : i < j /\ items[i][key] = items[j][key]

(* The scopes met on the way up from one of them, itself included.         *)
ParentOf(scopes, scope) == {s \in scopes : s.scope = scope.parent}

ScopeAncestors(scopes, scope) ==
    LET up[n \in 0 .. Cardinality(scopes)] ==
            IF n = 0 THEN {scope}
            ELSE up[n - 1] \union UNION {ParentOf(scopes, s) : s \in up[n - 1]}
    IN  up[Cardinality(scopes)]

(* The walk from a scope to the root meets a scope a second time.          *)
CyclicScope(scopes, scope) ==
    \E s \in ScopeAncestors(scopes, scope), p \in ScopeAncestors(scopes, scope) :
        /\ p.scope = s.parent
        /\ s \in ScopeAncestors(scopes, p)

HierarchyRejected(items) ==
    LET scopes == ToSet(items)
    IN  \/ Repeats(items, "scope")
        \/ Cardinality({s \in scopes : s.type = "global"}) # 1
        \/ \E s \in scopes :
              /\ s.type # "global"
              /\ \/ ParentOf(scopes, s) = {}
                 \/ \E p \in ParentOf(scopes, s) :
                       \/ p.type \notin AllowedParents[s.type]
                       \/ ~ContainsInterval(p, s)
        \/ \E s \in scopes : CyclicScope(scopes, s)

MembershipRejected(membership, chains) ==
    \E c \in ToSet(membership.chains) :
        LET matched == {k \in chains : k.chain = c}
        IN  \/ matched = {}
            \/ \E k \in matched : \/ k.sector # membership.sector
                                  \/ ~ContainsInterval(k, membership)

EdgeEndsRejected(edge, nodes) ==
    \E end \in {edge.source, edge.target} :
        LET matched == {n \in nodes : n.node = end}
        IN  matched = {} \/ \E n \in matched : ~ContainsInterval(n, edge)

SeedRejected(seed, sectors) ==
    \/ \E k \in ToSet(seed.chains) \union ToSet(seed.memberships) :
          IntervalRejected(k) \/ k.sector \notin sectors
    \/ \E s \in ToSet(seed.scopes) : ScopeRejected(s)
    \/ \E n \in ToSet(seed.nodes) : NodeRejected(n)
    \/ \E e \in ToSet(seed.edges) : EdgeRejected(e)
    \/ Repeats(seed.chains, "chain")
    \/ \E m \in ToSet(seed.memberships) : MembershipRejected(m, ToSet(seed.chains))
    \/ Repeats(seed.nodes, "node")
    \/ Repeats(seed.edges, "edge")
    \/ \E e \in ToSet(seed.edges) : EdgeEndsRejected(e, ToSet(seed.nodes))
    \/ HierarchyRejected(seed.scopes)

---------------------------------------------------------------------------
(* The sector tables of one database.                                      *)

EmptyTables ==
    [nodes |-> {}, edges |-> {}, memberships |-> {}, scopes |-> {},
     benchmarks |-> {}, universes |-> {}, states |-> {}, macros |-> {},
     events |-> {}, links |-> {}]

(* INSERT ... ON CONFLICT DO NOTHING: a row whose key is taken is dropped. *)
InsertNew(table, rows, key) ==
    table \union {r \in rows : \A t \in table : \E f \in key : t[f] # r[f]}

MembershipKey(m) == <<m.asset, m.sector, m.role, m.from, m.version>>

InstallSeed(db, seed) ==
    [db EXCEPT
       !.nodes = InsertNew(@, ToSet(seed.nodes), {"node", "version", "from"}),
       !.edges = InsertNew(@, ToSet(seed.edges), {"edge", "version", "from"}),
       !.memberships = InsertNew(@, ToSet(seed.memberships),
                                {"asset", "sector", "role", "from", "version"}),
       !.scopes = InsertNew(@, ToSet(seed.scopes), {"scope", "version", "from"})]

(* Plain inserts: the statement fails on a taken key.                      *)
AddMembershipRejected(db, m) ==
    \E t \in db.memberships : MembershipKey(t) = MembershipKey(m)

AddMemberships(db, rows) == [db EXCEPT !.memberships = @ \union rows]
AddBenchmarks(db, rows) == [db EXCEPT !.benchmarks = @ \union rows]

(* Snapshot tables are keyed by identity, and hold one row per sector,     *)
(* date and version of the features or the memberships.                    *)
SaveSnapshotRejected(table, snapshot) ==
    \E t \in table : t.sector = snapshot.sector /\ t.asOf = snapshot.asOf

---------------------------------------------------------------------------
(* Point-in-time queries.                                                  *)

EffectiveRows(table, date) == {row \in table : Effective(row, date)}

ListMemberships(db, asset, date) ==
    {m \in EffectiveRows(db.memberships, date) : m.asset = asset}

ListSectorMemberships(db, sector, date) ==
    {m \in EffectiveRows(db.memberships, date) : m.sector = sector}

GetBenchmark(db, sector, date) ==
    LET known == {m \in EffectiveRows(db.benchmarks, date) : m.sector = sector}
    IN  IF known = {} THEN None
        ELSE CHOOSE m \in known : \A k \in known : k.from <= m.from

(* The newest snapshot of a sector by a date.                              *)
Latest(table, sector, date) ==
    LET known == {s \in table : s.sector = sector /\ s.asOf <= date}
    IN  IF known = {} THEN None
        ELSE CHOOSE s \in known : \A k \in known : k.asOf <= s.asOf

(* The events linked to a scope that were available, and stored by this    *)
(* system, by the cutoff.                                                  *)
AnomaliesForScope(db, scope, cutoff) ==
    {e \in db.events : /\ <<e.id, scope>> \in db.links
                       /\ e.available <= cutoff
                       /\ e.ingested <= cutoff}

---------------------------------------------------------------------------
(* The universe of a sector, from the memberships of one version.          *)

Promoted(memberships, version) ==
    {[m EXCEPT !.version = version, !.source = "curated"] : m \in memberships}

(* Only tickers that have prices are promoted into a mapping.              *)
ResolvedBenchmark(candidate, validated, date) ==
    LET Priced(b) == b \in validated
        kept == SelectSeq(candidate.candidates, Priced)
    IN  [sector |-> candidate.sector, benchmarks |-> kept, from |-> date,
         to |-> None,
         status |-> IF kept = <<>> THEN "missing"
                    ELSE IF Len(kept) < Len(candidate.candidates) THEN "partial"
                    ELSE candidate.status]

Universe(db, sector, date, version) ==
    LET members == {m.asset : m \in {k \in ListSectorMemberships(db, sector, date) :
                                        k.version = version}}
        mapping == GetBenchmark(db, sector, date)
    IN  [sector |-> sector, asOf |-> date, assets |-> members,
         benchmarks |-> IF mapping = None THEN <<>> ELSE mapping.benchmarks,
         version |-> version,
         quality |-> IF members = {} THEN "warning" ELSE "pass"]
=============================================================================
