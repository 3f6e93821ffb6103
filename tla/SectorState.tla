---------------------------- MODULE SectorState ----------------------------
(***************************************************************************)
(* The deterministic snapshots of a sector: its state, aggregated from the *)
(* prices and fundamentals of its universe, and its macro state, which     *)
(* joins the sector's benchmark with macro series.                         *)
(*                                                                         *)
(* Values are integers, a ratio is kept as a count with its coverage, and  *)
(* a median doubled; the median over 20 sessions stands for those over 1,  *)
(* 5 and 60.  A snapshot is named by a digest of its content, so two       *)
(* snapshots have one identity when they are equal.                        *)
(***************************************************************************)
EXTENDS SectorOntology, FiniteSetsExt

CONSTANTS
    Dimensions,      \* macro dimension -> the series it is read from
    Window5, Window20, Window60,     \* the windows of these names, in sessions
    MinOverlap,      \* months of common history a sensitivity needs
    Market           \* the market benchmark

MinSample == 2

---------------------------------------------------------------------------
(* What each record says of its own times.                                 *)

Times(available, ingested) ==
    [available |-> available, ingested |-> ingested, asOf |-> Unknown,
     from |-> Unknown, to |-> Unknown]

BarTimes(bar) == Times(Close(bar.day), bar.ingested)

FilingTimes(filing) ==
    Times(IF filing.accepted = None THEN filing.ingested ELSE filing.accepted,
          filing.ingested)

MacroTimes(obs) == Times(Midnight(obs.vintage), obs.ingested)

---------------------------------------------------------------------------
(* Metrics with their coverage.                                            *)

Metric(value, covered, universe) ==
    [value |-> value, coverage |-> covered,
     status |-> IF covered = 0 THEN "missing"
                ELSE IF value = None \/ covered < universe THEN "partial"
                ELSE "available"]

(* Samples are pairs <<asset, value>>, those without a value left out.     *)
Samples(values) == {<<a, values[a]>> : a \in {b \in DOMAIN values : values[b] # None}}

MedianTwice(samples) ==
    LET s == SetToSortSeq(samples, LAMBDA x, y : x[2] < y[2])
        n == Len(s)
    IN  s[(n + 1) \div 2][2] + s[(n + 2) \div 2][2]

MedianMetric(samples, universe) ==
    Metric(IF Cardinality(samples) >= MinSample THEN MedianTwice(samples) ELSE None,
           Cardinality(samples), universe)

(* How many of the samples are among the counted ones.                     *)
CountMetric(samples, counted, universe) ==
    Metric(IF Cardinality(samples) >= MinSample THEN Cardinality(counted) ELSE None,
           Cardinality(samples), universe)

ExcessMetric(median, reference, universe) ==
    Metric(IF median.value = None \/ reference = None THEN None
           ELSE median.value - 2 * reference,
           median.coverage, universe)

(* Advances over declines: without a decline there is no ratio.            *)
AdvanceDecline(samples, universe) ==
    LET up == Cardinality({s \in samples : s[2] > 0})
        down == Cardinality({s \in samples : s[2] < 0})
    IN  Metric(IF down = 0 THEN None ELSE <<up, down>>, Cardinality(samples), universe)

DispersionMetric(samples, universe) ==
    LET values == {s[2] : s \in samples}
    IN  Metric(IF Cardinality(samples) >= MinSample
               THEN Max(values) - Min(values) ELSE None,
               Cardinality(samples), universe)

---------------------------------------------------------------------------
(* The sector state.                                                       *)

StateInputRejected(asOf, bars, filings, cutoff, mode) ==
    \/ Day(cutoff) # asOf
    \/ \E b \in bars : b.day > asOf \/ ~UsableAt(BarTimes(b), cutoff, mode)
    \/ \E f \in filings : f.period > asOf \/ ~UsableAt(FilingTimes(f), cutoff, mode)

BarsInOrder(bars, asset) ==
    SetToSortSeq({b \in bars : b.asset = asset}, LAMBDA x, y : x.day < y.day)

(* The change of an asset's price over a window, and its price over the    *)
(* mean of a window, times the window: unknown with too few bars.          *)
ReturnOver(bars, asset, window) ==
    LET own == BarsInOrder(bars, asset)
        n == Len(own)
    IN  IF n <= window THEN None ELSE own[n].close - own[n - window].close

AboveAverage(bars, asset, window) ==
    LET own == BarsInOrder(bars, asset)
        n == Len(own)
    IN  IF n < window THEN None
        ELSE MapThenSumSet(LAMBDA k : own[n].close - own[k].close, n - window + 1 .. n)

(* The fundamental record used for an asset: those of the standardised     *)
(* provider are preferred, then the latest period, then the latest filing. *)
Acceptance(filing) == IF filing.accepted = None THEN -1 ELSE filing.accepted

LatestFundamental(filings, asset) ==
    LET own == {f \in filings : f.asset = asset}
        standard == {f \in own : f.source = "fmp"}
        candidates == IF standard # {} THEN standard ELSE own
    IN  IF own = {} THEN None
        ELSE CHOOSE f \in candidates : \A g \in candidates :
                \/ g.period < f.period
                \/ g.period = f.period /\ Acceptance(g) <= Acceptance(f)

SnapshotStatus(universe, market, fundamental) ==
    IF universe = 0 \/ (market = 0 /\ fundamental = 0)
    THEN "missing"
    ELSE IF universe < MinSample \/ market < universe \/ fundamental < universe
    THEN "partial"
    ELSE "available"

ComputeState(universe, bars, filings) ==
    LET n == Cardinality(universe.assets)
        Returns(window) ==
            Samples([a \in universe.assets |-> ReturnOver(bars, a, window)])
        Levels(window) ==
            Samples([a \in universe.assets |-> AboveAverage(bars, a, window)])
        returns == Returns(Window20)
        records == [a \in universe.assets |-> LatestFundamental(filings, a)]
        Field(name) == Samples([a \in universe.assets |->
                          IF records[a] = None THEN None ELSE records[a][name]])
        market == ReturnOver(bars, Market, Window20)
        benchmark == IF universe.benchmarks = <<>> THEN None
                     ELSE ReturnOver(bars, universe.benchmarks[1], Window20)
        median == MedianMetric(returns, n)
        Positive(samples) == {s \in samples : s[2] > 0}
        Share(samples) == CountMetric(samples, Positive(samples), n)
        compared == IF benchmark = None THEN {} ELSE returns
        filed == {a \in universe.assets : records[a] # None}
    IN  [sector |-> universe.sector, asOf |-> universe.asOf, universe |-> n,
         market |-> [return |-> median,
                     excess_market |-> ExcessMetric(median, market, n),
                     excess_benchmark |-> ExcessMetric(median, benchmark, n)],
         breadth |-> [above20 |-> Share(Levels(Window20)),
                      above60 |-> Share(Levels(Window60)),
                      positive5 |-> Share(Returns(Window5)),
                      positive20 |-> Share(returns),
                      advance_decline |-> AdvanceDecline(Returns(1), n),
                      dispersion |-> DispersionMetric(returns, n),
                      leaders |-> CountMetric(compared, {s \in compared : s[2] > benchmark}, n),
                      laggards |-> CountMetric(compared, {s \in compared : s[2] < benchmark}, n)],
         fundamental |-> [growth |-> MedianMetric(Field("growth"), n),
                          positive_growth |-> Share(Field("growth"))],
         valuation |-> [pe |-> MedianMetric(Field("pe"), n)],
         status |-> SnapshotStatus(n, Cardinality(Returns(1)), Cardinality(filed))]

---------------------------------------------------------------------------
(* The macro state.                                                        *)

Series == UNION {Dimensions[d] : d \in DOMAIN Dimensions}

MacroInputRejected(universe, state, bars, observations, cutoff, mode) ==
    \/ <<universe.sector, universe.asOf>> # <<state.sector, state.asOf>>
    \/ Day(cutoff) # universe.asOf
    \/ \E b \in bars : \/ b.asset \notin ToSet(universe.benchmarks)
                       \/ b.day > universe.asOf
                       \/ ~UsableAt(BarTimes(b), cutoff, mode)
    \/ \E o \in observations : \/ o.day > universe.asOf
                               \/ o.vintage > universe.asOf
                               \/ ~UsableAt(MacroTimes(o), cutoff, mode)

DirectionOf(change) ==
    IF change = None THEN "unknown"
    ELSE IF change = 0 THEN "stable"
    ELSE IF change > 0 THEN "rising" ELSE "falling"

(* The signal of a series: its latest value and its change; none at all    *)
(* without an observation.                                                 *)
CycleSignal(observations, series) ==
    LET own == SetToSortSeq({o \in observations : o.series = series},
                            LAMBDA x, y : x.day < y.day)
        n == Len(own)
        change == IF n < 2 THEN None ELSE own[n].value - own[n - 1].value
    IN  IF n = 0 THEN None
        ELSE [series |-> series, day |-> own[n].day, value |-> own[n].value,
              change |-> change, direction |-> DirectionOf(change)]

(* The direction most signals agree on, mixed on a tie.                    *)
DimensionState(signals, expected) ==
    LET known == {s \in signals : s.direction # "unknown"}
        Votes(d) == Cardinality({s \in known : s.direction = d})
        leaders == {d \in {s.direction : s \in known} :
                        \A s \in known : Votes(s.direction) <= Votes(d)}
        direction == IF known = {} THEN "unknown"
                     ELSE IF Cardinality(leaders) = 1 THEN CHOOSE d \in leaders : TRUE
                     ELSE "mixed"
    IN  [direction |-> direction, signals |-> signals,
         status |-> IF signals = {} THEN "missing"
                    ELSE IF \/ Cardinality(signals) < expected
                            \/ direction \in {"unknown", "mixed"}
                    THEN "partial" ELSE "available"]

(* The association of a series with the benchmark: estimated only on       *)
(* enough common months, one per day here.                                 *)
SensitivityEstimate(observations, bars, series) ==
    LET changed == {o.day : o \in {p \in observations :
                        p.series = series /\ \E q \in observations :
                            q.series = series /\ q.day < p.day}}
        returned == {b.day : b \in {c \in bars : \E d \in bars : d.day < c.day}}
        overlap == Cardinality(changed \intersect returned)
    IN  [series |-> series, overlap |-> overlap,
         status |-> IF overlap = 0 THEN "missing"
                    ELSE IF overlap < MinOverlap THEN "partial" ELSE "available"]

AggregateStatus(statuses) ==
    IF statuses \subseteq {"missing"} THEN "missing"
    ELSE IF statuses = {"available"} THEN "available"
    ELSE "partial"

ComputeMacro(universe, state, bars, observations) ==
    LET signals == [s \in Series |-> CycleSignal(observations, s)]
        cycle == [d \in DOMAIN Dimensions |->
                    DimensionState({signals[s] : s \in {x \in Dimensions[d] :
                                                           signals[x] # None}},
                                   Cardinality(Dimensions[d]))]
        estimates == {SensitivityEstimate(observations, bars, s) : s \in Series}
        cycleStatus == AggregateStatus({cycle[d].status : d \in DOMAIN cycle})
        sensitivityStatus == AggregateStatus({e.status : e \in estimates})
    IN  [sector |-> universe.sector, asOf |-> universe.asOf, source |-> state,
         momentum |-> state.market.return, cycle |-> cycle, estimates |-> estimates,
         status |-> AggregateStatus({cycleStatus, sensitivityStatus})]
=============================================================================
