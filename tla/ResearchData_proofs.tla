------------------------ MODULE ResearchData_proofs ------------------------
(***************************************************************************)
(* Theorems about the acquisition and the selection of research data, for  *)
(* any number of days, revisions and runs and any choice of sources.       *)
(***************************************************************************)
EXTENDS ResearchData, WellFoundedInduction, TLAPS

---------------------------------------------------------------------------
(* Extrema and calendars.                                                  *)

\* A set of natural numbers has a least element.
LEMMA NatMinimum ==
  ASSUME NEW S, S \subseteq Nat, S # {}
  PROVE  \E t \in S : \A u \in S : t <= u
<1> DEFINE R == OpToRel(<, Nat)
<1>1. IsWellFoundedOn(R, Nat)
  BY NatLessThanWellFounded
<1>2. \A x, y \in Nat : x < y => <<x, y>> \in R
  BY DEF OpToRel
<1> HIDE DEF R
<1>3. PICK t \in S : \A u \in S : ~ (<<u, t>> \in R)
  BY <1>1, WFMin
<1>4. \A u \in S : ~ (u < t)
  BY <1>2, <1>3
<1> QED BY <1>3, <1>4

\* Earliest chooses a member.
LEMMA EarliestIsOne ==
  ASSUME NEW S, S \subseteq Nat, S # {}
  PROVE  Earliest(S) \in S
<1>1. \E t \in S : \A u \in S : t <= u
  BY NatMinimum
<1> QED BY <1>1 DEF Earliest

\* Latest chooses the greatest member of a bounded set.
LEMMA LatestIsOne ==
  ASSUME NEW n \in Nat, NEW S, S \subseteq 0..n, S # {}
  PROVE  /\ Latest(S) \in S
         /\ \A u \in S : u <= Latest(S)
<1> DEFINE T == {n - t : t \in S}
<1>1. \A t \in S : t \in Int /\ n - t \in Nat
  OBVIOUS
<1>2. PICK s \in S : TRUE
  OBVIOUS
<1>3. n - s \in T
  BY <1>2
<1>4. T \subseteq Nat /\ T # {}
  BY <1>1, <1>3, Zenon
<1>5. PICK d \in T : \A u \in T : d <= u
  BY <1>4, NatMinimum
<1>6. PICK t \in S : d = n - t
  BY <1>5
<1>7. \A u \in S : u <= t
  BY <1>5, <1>6
<1> QED BY <1>6, <1>7 DEF Latest

\* How the calendars order days and instants.
LEMMA Calendars ==
  /\ \A s \in Nat, t \in Nat : s <= t => ProviderDay(s) <= ProviderDay(t)
  /\ \A d \in Nat, t \in Nat : d <= Day(t) <=> Midnight(d) <= t
  /\ \A d \in Nat : Day(EndOfDay(d)) = d /\ SessionDay(EndOfDay(d)) = d
  /\ \A t \in Nat : Day(t) \in Nat /\ ProviderDay(t) \in Int
<1>1. \A s \in Nat, t \in Nat : s <= t => ProviderDay(s) <= ProviderDay(t)
  BY DEF ProviderDay, Day
<1>2. \A d \in Nat, t \in Nat : d <= Day(t) <=> Midnight(d) <= t
  BY DEF Day, Midnight
<1>3. \A d \in Nat : Day(EndOfDay(d)) = d /\ SessionDay(EndOfDay(d)) = d
  BY DEF Day, EndOfDay, SessionDay
<1>4. \A t \in Nat : Day(t) \in Nat /\ ProviderDay(t) \in Int
  BY DEF Day, ProviderDay
<1> QED BY <1>1, <1>2, <1>3, <1>4

---------------------------------------------------------------------------
(* The inductive invariant.                                                *)

\* What the providers published lies in the past.
Past ==
  /\ now \in Instants
  /\ revisions \in [Sources -> SUBSET Instants]
  /\ \A i \in Sources : \A r \in revisions[i] : r <= now

Optional == Nat \union {Unknown}

\* The times of a record at the key k: what its section takes for granted.
Lineage(k, r) ==
  /\ r.content \in Nat /\ r.content <= now
  /\ k[1] \in {"fundamental", "ttm"} =>
       r.published \in Optional /\ r.filed \in Optional
  /\ k[1] = "fundamental" => r.filed \in Nat
  /\ k[1] \in {"news", "sentiment", "snapshot", "filing", "news_event", "filing_event"} =>
       r.published \in Nat
  /\ k[1] = "snapshot" => r.asOf \in Nat /\ r.asOf <= now
  /\ k[1] # "snapshot" => r.asOf = Unknown

\* A vintage is not later than the provider's day and shows the newest
\* observation of the days before it, or one of its own day.
Vintage(k, content) ==
  LET observations == revisions[<<"macro", 0>>]
  IN  k[1] = "macro" =>
        /\ content \in observations
        /\ ProviderDay(content) <= k[2]
        /\ \A r \in observations : ProviderDay(r) < k[2] => r <= content
        /\ k[2] <= ProviderDay(now)

Acquisition(k) ==
  /\ rows[k].first \in Nat /\ rows[k].first <= rows[k].ingested
  /\ rows[k].ingested \in Nat /\ rows[k].ingested <= now
  /\ rows[k].content <= rows[k].ingested
  /\ k[1] = "snapshot" => rows[k].asOf <= rows[k].ingested

RowsAreSound ==
  \A k \in Keys : Stored(k) => /\ Lineage(k, rows[k])
                               /\ Vintage(k, rows[k].content)
                               /\ Acquisition(k)

\* What DataBounds says of days, instants and sources.
LEMMA Types ==
  /\ LastDay \in Nat /\ Days \subseteq Nat /\ EndOfDay(LastDay) \in Nat
  /\ Instants \subseteq Nat /\ Instants = 0..EndOfDay(LastDay)
  /\ <<"macro", 0>> \in Sources /\ <<"news", 0>> \in Sources
  /\ <<"fundamental", 0>> \in Sources /\ <<"filing", 0>> \in Sources
  /\ <<"ttm", 0>> \in Sources /\ <<"sentiment", 0>> \in Sources
  /\ <<"snapshot", 0>> \in Sources
  /\ \A d \in Days : <<"bar", d>> \in Sources
BY DataBounds DEF Days, Instants, EndOfDay, Sources

Kinds == {"bar", "macro", "snapshot", "fundamental", "ttm", "news", "sentiment",
          "filing", "news_event", "filing_event"}

\* The tables, and what their records are stored under.
LEMMA KeyKinds ==
  ASSUME NEW k \in Keys
  PROVE  /\ k = <<k[1], k[2]>> /\ k[1] \in Kinds
         /\ k[1] \in {"bar", "macro"} => k[2] \in Days
<1>1. CASE k \in {"bar", "macro"} \X Days
  BY <1>1 DEF Kinds
<1>2. CASE k \in {"snapshot"} \X Instants
  BY <1>2 DEF Kinds
<1>3. CASE k \in {"fundamental", "ttm", "news", "sentiment", "filing",
                  "news_event", "filing_event"} \X {0}
  BY <1>3 DEF Kinds
<1> QED BY <1>1, <1>2, <1>3 DEF Keys

\* Bars and macro observations are stored under a day.
LEMMA KeyDays ==
  \A k \in Keys : k[1] \in {"bar", "macro"} => k = <<k[1], k[2]>> /\ k[2] \in Nat
BY KeyKinds, Types

\* Extrema of what a provider has published.
LEMMA PublishedInstants ==
  ASSUME Past, NEW i \in Sources, NEW S, S \subseteq revisions[i], S # {}
  PROVE  /\ Latest(S) \in S /\ \A u \in S : u <= Latest(S)
         /\ Latest(S) \in Nat /\ Latest(S) <= now
         /\ Earliest(S) \in S /\ Earliest(S) \in Nat
<1>1. S \subseteq Instants
  BY DEF Past
<1>2. Latest(S) \in S /\ \A u \in S : u <= Latest(S)
  BY <1>1, LatestIsOne, Types
<1>3. Earliest(S) \in S
  BY <1>1, EarliestIsOne, Types
<1> QED BY <1>1, <1>2, <1>3, Types DEF Past

---------------------------------------------------------------------------
(* What the adapters return is sound at the key it is stored at.           *)

Sound(k, r) == Lineage(k, r) /\ Vintage(k, r.content)

\* SEC statements, whatever becomes of their acceptance.
LEMMA SecFactIsSound ==
  ASSUME Past, NEW end, NEW acceptance \in {"exact", "date", "none"},
         NEW k \in DOMAIN SecFact(end, acceptance)
  PROVE  k = <<"fundamental", 0>> /\ Sound(k, SecFact(end, acceptance)[k])
<1> DEFINE filed == {r \in revisions[<<"fundamental", 0>>] : Day(r) <= end}
           at    == [exact |-> Latest(filed), date |-> Midnight(Day(Latest(filed))),
                     none |-> Unknown]
<1>1. k = <<"fundamental", 0>> /\ filed # {}
  BY DEF SecFact
<1>2. Latest(filed) \in Nat /\ Latest(filed) <= now
  BY <1>1, PublishedInstants, Types
<1>3. Day(Latest(filed)) \in Nat
  BY <1>2, Calendars
<1>4. at[acceptance] \in Optional
  BY <1>2, <1>3 DEF Optional, Midnight
<1>5. SecFact(end, acceptance)[k] =
        Fetched(Latest(filed), at[acceptance], Day(Latest(filed)))
  BY <1>1 DEF SecFact
<1> HIDE DEF filed, at
<1> QED BY <1>1, <1>2, <1>3, <1>4, <1>5
        DEF Sound, Lineage, Vintage, Fetched, Optional

\* SEC filings and their events.
LEMMA SecFilingIsSound ==
  ASSUME Past, NEW end, NEW acceptance \in {"exact", "date"},
         NEW k \in DOMAIN SecFiling(end, acceptance)
  PROVE  /\ k[1] \in {"filing", "filing_event"}
         /\ Sound(k, SecFiling(end, acceptance)[k])
<1> DEFINE filed == {r \in revisions[<<"filing", 0>>] : Day(r) <= end}
           at    == IF acceptance = "exact" THEN Latest(filed)
                    ELSE Midnight(Day(Latest(filed)))
<1>1. k \in {"filing", "filing_event"} \X {0} /\ filed # {}
  BY DEF SecFiling
<1>1a. k[1] \in {"filing", "filing_event"}
  BY <1>1
<1>2. Latest(filed) \in Nat /\ Latest(filed) <= now
  BY <1>1, PublishedInstants, Types
<1>3. at \in Nat
  BY <1>2, Calendars DEF Midnight
<1>4. SecFiling(end, acceptance)[k] = Fetched(Latest(filed), at, Unknown)
  BY <1>1 DEF SecFiling
<1> HIDE DEF filed, at
<1> QED BY <1>1a, <1>2, <1>3, <1>4 DEF Sound, Lineage, Vintage, Fetched

\* Both, as one ingestion of SEC data.
LEMMA SecIsSound ==
  ASSUME Past, NEW end, NEW records \in SecAnswers(end), NEW k \in DOMAIN records
  PROVE  Sound(k, records[k])
<1>1. PICK fact \in {"exact", "date", "none"}, filing \in {"exact", "date"} :
        records = [x \in DOMAIN SecFact(end, fact) \union DOMAIN SecFiling(end, filing) |->
                     IF x[1] = "fundamental" THEN SecFact(end, fact)[x]
                     ELSE SecFiling(end, filing)[x]]
  BY DEF SecAnswers
<1>2. CASE k \in DOMAIN SecFact(end, fact)
  <2>1. k[1] = "fundamental" /\ Sound(k, SecFact(end, fact)[k])
    BY <1>2, SecFactIsSound
  <2> QED BY <1>1, <2>1
<1>3. CASE k \in DOMAIN SecFiling(end, filing)
  <2>1. k[1] # "fundamental" /\ Sound(k, SecFiling(end, filing)[k])
    BY <1>3, SecFilingIsSound
  <2> QED BY <1>1, <2>1
<1> QED BY <1>1, <1>2, <1>3

\* FMP metrics, whatever dates they have.
LEMMA FmpIsSound ==
  ASSUME Past, NEW lineage, NEW k \in DOMAIN FmpMetrics(lineage)
  PROVE  Sound(k, FmpMetrics(lineage)[k])
<1> DEFINE values == revisions[<<"ttm", 0>>]
           published == IF lineage = "accepted" THEN Earliest(values) ELSE Unknown
           filed == IF lineage = "none" THEN Unknown ELSE Day(Earliest(values))
<1>1. k = <<"ttm", 0>> /\ values # {}
  BY DEF FmpMetrics
<1>2. Latest(values) \in Nat /\ Latest(values) <= now /\ Earliest(values) \in Nat
  BY <1>1, PublishedInstants, Types
<1>3. published \in Optional /\ filed \in Optional
  BY <1>2, Calendars DEF Optional
<1>4. FmpMetrics(lineage)[k] = Fetched(Latest(values), published, filed)
  BY <1>1 DEF FmpMetrics
<1> HIDE DEF values, published, filed
<1> QED BY <1>1, <1>2, <1>3, <1>4 DEF Sound, Lineage, Vintage, Fetched

\* Alpaca bars.
LEMMA BarsAreSound ==
  ASSUME Past, NEW end, NEW k \in Keys, k \in DOMAIN AlpacaBars(end)
  PROVE  Sound(k, AlpacaBars(end)[k])
<1>1a. k \in {"bar"} \X (0..end) /\ revisions[k] # {}
  BY DEF AlpacaBars
<1>1. k = <<"bar", k[2]>> /\ k[2] \in Days
  <2>1. k[1] = "bar"
    BY <1>1a
  <2> QED BY <2>1, KeyKinds
<1>2. Latest(revisions[k]) \in Nat /\ Latest(revisions[k]) <= now
  <2>1. k \in Sources
    BY <1>1, Types
  <2> QED BY <1>1a, <2>1, PublishedInstants
<1>3. AlpacaBars(end)[k] = Fetched(Latest(revisions[k]), Unknown, Unknown)
  BY DEF AlpacaBars
<1>4. k[1] = "bar"
  BY <1>1
<1> QED BY <1>2, <1>3, <1>4 DEF Sound, Lineage, Vintage, Fetched

\* Alpaca news and its event.
LEMMA NewsIsSound ==
  ASSUME Past, NEW end, NEW k \in DOMAIN AlpacaNews(end)
  PROVE  Sound(k, AlpacaNews(end)[k])
<1> DEFINE article == revisions[<<"news", 0>>]
<1>1. k \in {"news", "news_event"} \X {0} /\ article # {}
  BY DEF AlpacaNews
<1>1a. k[1] \in {"news", "news_event"}
  BY <1>1
<1>2. Latest(article) \in Nat /\ Latest(article) <= now /\ Earliest(article) \in Nat
  BY <1>1, PublishedInstants, Types
<1>3. AlpacaNews(end)[k] = Fetched(Latest(article), Earliest(article), Unknown)
  BY DEF AlpacaNews
<1> HIDE DEF article
<1> QED BY <1>1a, <1>2, <1>3 DEF Sound, Lineage, Vintage, Fetched

\* Stocktwits messages.
LEMMA MessagesAreSound ==
  ASSUME Past, NEW end, NEW k \in DOMAIN Messages(end)
  PROVE  k[1] = "sentiment" /\ Sound(k, Messages(end)[k])
<1> DEFINE sent == {r \in revisions[<<"sentiment", 0>>] : Day(r) <= end}
<1>1. k = <<"sentiment", 0>> /\ sent # {}
  BY DEF Messages
<1>2. Latest(sent) \in Nat /\ Latest(sent) <= now
  BY <1>1, PublishedInstants, Types
<1>3. Messages(end)[k] = Fetched(Latest(sent), Latest(sent), Unknown)
  BY <1>1 DEF Messages
<1> HIDE DEF sent
<1> QED BY <1>1, <1>2, <1>3 DEF Sound, Lineage, Vintage, Fetched

\* Stocktwits snapshots, the points of the history and the current one.
LEMMA SnapshotsAreSound ==
  ASSUME Past, NEW end, NEW updatedAt, NEW k \in DOMAIN Snapshots(end, updatedAt)
  PROVE  k[1] = "snapshot" /\ Sound(k, Snapshots(end, updatedAt)[k])
<1> DEFINE scores  == revisions[<<"snapshot", 0>>]
           current == IF updatedAt = "given" THEN Latest(scores) ELSE now
           history == {r \in scores : Day(r) <= end}
<1>1. scores # {} /\ k \in {"snapshot"} \X (history \union {current})
  BY DEF Snapshots
<1>2. k[1] = "snapshot" /\ (k[2] \in scores \/ k[2] = current)
  BY <1>1
<1>3. Snapshots(end, updatedAt)[k] =
        IF k[2] = current THEN Snapshot(now, current, now) ELSE Snapshot(k[2], k[2], k[2])
  BY <1>1 DEF Snapshots
<1>4. now \in Nat /\ \A r \in scores : r \in Nat /\ r <= now
  BY Types DEF Past
<1>5. current \in Nat
  BY <1>1, <1>4, PublishedInstants, Types
<1> HIDE DEF scores, current, history
<1>6. CASE k[2] = current
  BY <1>2, <1>3, <1>4, <1>5, <1>6 DEF Sound, Lineage, Vintage, Snapshot
<1>7. CASE k[2] # current
  BY <1>2, <1>3, <1>4, <1>7 DEF Sound, Lineage, Vintage, Snapshot
<1> QED BY <1>2, <1>6, <1>7

\* Both, as one ingestion of community data.
LEMMA CommunityIsSound ==
  ASSUME Past, NEW end, NEW records \in Community(end), NEW k \in DOMAIN records
  PROVE  Sound(k, records[k])
<1>1. PICK updatedAt \in {"given", "absent"} :
        records = [x \in DOMAIN Messages(end) \union DOMAIN Snapshots(end, updatedAt) |->
                     IF x[1] = "sentiment" THEN Messages(end)[x]
                     ELSE Snapshots(end, updatedAt)[x]]
  BY DEF Community
<1>2. CASE k \in DOMAIN Messages(end)
  <2>1. k[1] = "sentiment" /\ Sound(k, Messages(end)[k])
    BY <1>2, MessagesAreSound
  <2> QED BY <1>1, <2>1
<1>3. CASE k \in DOMAIN Snapshots(end, updatedAt)
  <2>1. k[1] # "sentiment" /\ Sound(k, Snapshots(end, updatedAt)[k])
    BY <1>3, SnapshotsAreSound
  <2> QED BY <1>1, <2>1
<1> QED BY <1>1, <1>2, <1>3

\* A FRED observation belongs to its vintage; this needs the refusal of dates
\* that are still to come.
LEMMA FredIsSound ==
  ASSUME Past, NEW asOf \in Nat, NEW records \in FredVintage(asOf),
         NEW k \in DOMAIN records
  PROVE  Sound(k, records[k])
<1> DEFINE observations == revisions[<<"macro", 0>>]
           vintage == ProviderDay(asOf)
           known == {r \in observations : ProviderDay(r) <= vintage}
<1>1. ~ (vintage > ProviderDay(now))
  BY DEF FredVintage
<1>2. records = [x \in IF known = {} THEN {} ELSE {<<"macro", vintage>>} |->
                   Fetched(Latest(known), Unknown, Unknown)]
  BY <1>1 DEF FredVintage
<1>3. k = <<"macro", vintage>> /\ known # {}
  BY <1>2
<1>4. /\ Latest(known) \in known /\ \A r \in known : r <= Latest(known)
      /\ Latest(known) \in Nat /\ Latest(known) <= now
  BY <1>3, PublishedInstants, Types
<1>5. records[k] = Fetched(Latest(known), Unknown, Unknown)
  BY <1>2
<1>6. vintage \in Int /\ ProviderDay(now) \in Int
  BY Calendars, Types DEF Past
<1>7. \A r \in observations : r \in Nat /\ ProviderDay(r) \in Int
  BY Calendars, Types DEF Past
<1>8. Lineage(k, records[k])
  BY <1>3, <1>4, <1>5 DEF Lineage, Fetched
<1>9. Vintage(k, Latest(known))
  <2>1. Latest(known) \in observations /\ ProviderDay(Latest(known)) <= vintage
    BY <1>4
  <2>2. \A r \in observations : ProviderDay(r) < vintage => r <= Latest(known)
    BY <1>4, <1>6, <1>7
  <2> QED BY <1>1, <1>3, <1>6, <2>1, <2>2 DEF Vintage
<1> QED BY <1>5, <1>8, <1>9 DEF Sound, Fetched

\* Whatever an adapter answers is sound where it is stored.
LEMMA AnswersAreSound ==
  ASSUME Past, NEW step \in Acquisitions, NEW end, NEW asOf \in Nat,
         NEW records \in Answers(step, end, asOf),
         NEW k \in Keys, k \in DOMAIN records
  PROVE  Sound(k, records[k])
<1>1. CASE step \in {"sec_range", "sec"}
  BY <1>1, SecIsSound DEF Answers
<1>2. CASE step = "fmp"
  BY <1>2, FmpIsSound DEF Answers
<1>3. CASE step = "bars"
  BY <1>3, BarsAreSound DEF Answers
<1>4. CASE step = "news"
  BY <1>4, NewsIsSound DEF Answers
<1>5. CASE step = "macro"
  BY <1>5, FredIsSound DEF Answers
<1>6. CASE step = "sentiment"
  BY <1>6, CommunityIsSound DEF Answers
<1> QED BY <1>1, <1>2, <1>3, <1>4, <1>5, <1>6 DEF Acquisitions

---------------------------------------------------------------------------
(* The rows stay sound: time passes, providers publish, records are stored *)

\* The rows stay sound while the clock moves on.
LEMMA TimePasses ==
  ASSUME Past, RowsAreSound, now' \in Instants, now <= now',
         rows' = rows, revisions' = revisions
  PROVE  Past' /\ RowsAreSound'
<1>1. Past'
  BY Types DEF Past
<1>2. ProviderDay(now) <= ProviderDay(now)' /\ ProviderDay(now) \in Int
      /\ ProviderDay(now)' \in Int
  BY Types, Calendars DEF Past
<1>3. ASSUME NEW k \in Keys, Stored(k)'
      PROVE  Lineage(k, rows[k])' /\ Vintage(k, rows[k].content)' /\ Acquisition(k)'
  <2>1. Lineage(k, rows[k]) /\ Vintage(k, rows[k].content) /\ Acquisition(k)
    BY <1>3 DEF RowsAreSound, Stored
  <2>2. Lineage(k, rows[k])'
    BY <2>1, Types DEF Lineage, Past
  <2>3. Vintage(k, rows[k].content)'
    <3>1. CASE k[1] = "macro"
      <4>1. k[2] <= ProviderDay(now) /\ k[2] \in Int
        BY <2>1, <3>1, KeyDays DEF Vintage
      <4>2. k[2] <= ProviderDay(now)'
        BY <1>2, <4>1
      <4> QED BY <2>1, <4>2 DEF Vintage
    <3>2. CASE k[1] # "macro"
      BY <3>2 DEF Vintage
    <3> QED BY <3>1, <3>2
  <2>4. Acquisition(k)'
    BY <2>1, Types DEF Acquisition, Past
  <2> QED BY <2>2, <2>3, <2>4
<1> QED BY <1>1, <1>3 DEF RowsAreSound

\* A revision is not older than the day of any stored vintage.
LEMMA PublishKeepsRows ==
  ASSUME Past, RowsAreSound, NEW i \in Sources, Publish(i)
  PROVE  Past' /\ RowsAreSound'
<1>1. /\ now' = now /\ rows' = rows
      /\ revisions' = [revisions EXCEPT ![i] = @ \union {now}]
  BY DEF Publish
<1>2. revisions' \in [Sources -> SUBSET Instants]
  BY <1>1 DEF Past
<1>3. \A j \in Sources : revisions[j] \subseteq revisions'[j]
                         /\ \A r \in revisions'[j] : r \in revisions[j] \/ r = now
  BY <1>1 DEF Past
<1>4. Past'
  BY <1>1, <1>2, <1>3, Types DEF Past
<1>5. ASSUME NEW k \in Keys, Stored(k)'
      PROVE  Lineage(k, rows[k])' /\ Vintage(k, rows[k].content)' /\ Acquisition(k)'
  <2>1. Lineage(k, rows[k]) /\ Vintage(k, rows[k].content) /\ Acquisition(k)
    BY <1>1, <1>5 DEF RowsAreSound, Stored
  <2>2. Lineage(k, rows[k])'
    BY <1>1, <2>1 DEF Lineage
  <2>3. Vintage(k, rows[k].content)'
    <3>1. CASE k[1] = "macro"
      <4>1. /\ rows[k].content \in revisions[<<"macro", 0>>]
            /\ ProviderDay(rows[k].content) <= k[2]
            /\ \A r \in revisions[<<"macro", 0>>] :
                 ProviderDay(r) < k[2] => r <= rows[k].content
            /\ k[2] <= ProviderDay(now)
        BY <2>1, <3>1 DEF Vintage
      <4>2. k[2] \in Int /\ ProviderDay(now) \in Int
        BY <3>1, KeyDays, Calendars, Types DEF Past
      <4>3. ~ (ProviderDay(now) < k[2])
        BY <4>1, <4>2
      <4>4. \A r \in revisions'[<<"macro", 0>>] :
              ProviderDay(r) < k[2] => r <= rows[k].content
        BY <1>3, <4>1, <4>3, Types
      <4>5. rows[k].content \in revisions'[<<"macro", 0>>]
        BY <1>3, <4>1, Types
      <4> QED BY <1>1, <4>1, <4>4, <4>5 DEF Vintage, ProviderDay, Day
    <3>2. CASE k[1] # "macro"
      BY <3>2 DEF Vintage
    <3> QED BY <3>1, <3>2
  <2>4. Acquisition(k)'
    BY <1>1, <2>1 DEF Acquisition
  <2> QED BY <2>2, <2>3, <2>4
<1> QED BY <1>4, <1>5 DEF RowsAreSound

\* Upserting sound records keeps the rows sound and dates what it replaces.
LEMMA StoreKeepsRows ==
  ASSUME Past, RowsAreSound, now' = now, revisions' = revisions,
         NEW records, Store(records),
         \A k \in Keys : k \in DOMAIN records => Sound(k, records[k])
  PROVE  /\ Past' /\ RowsAreSound'
         /\ \A k \in Keys : rows'[k] = rows[k] \/ rows'[k].ingested = now
<1>1. \A k \in Keys : rows'[k] = IF k \in DOMAIN records
                                 THEN Upserted(k, records[k]) ELSE rows[k]
  BY DEF Store
<1>2. \A k \in Keys : rows'[k] = rows[k] \/ rows'[k].ingested = now
  <2> SUFFICES ASSUME NEW k \in Keys
               PROVE  rows'[k] = rows[k] \/ rows'[k].ingested = now
    OBVIOUS
  <2>1. CASE k \in DOMAIN records
    <3>1. rows'[k] = Upserted(k, records[k])
      BY <1>1, <2>1
    <3>2. Upserted(k, records[k]).ingested = now
      BY DEF Upserted
    <3> QED BY <3>1, <3>2
  <2>2. CASE k \notin DOMAIN records
    BY <1>1, <2>2
  <2> QED BY <2>1, <2>2
<1>3. Past' /\ now \in Nat
  BY Types DEF Past
<1>4. ASSUME NEW k \in Keys, Stored(k)'
      PROVE  Lineage(k, rows[k])' /\ Vintage(k, rows[k].content)' /\ Acquisition(k)'
  <2>1. CASE k \in DOMAIN records
    <3>1. rows'[k] = Upserted(k, records[k]) /\ Sound(k, records[k])
      BY <1>1, <2>1
    <3> DEFINE f == records[k]
    <3>2. /\ rows'[k].content = f.content /\ rows'[k].published = f.published
          /\ rows'[k].filed = f.filed /\ rows'[k].asOf = f.asOf
          /\ rows'[k].ingested = now
          /\ rows'[k].first = IF Stored(k) THEN rows[k].first ELSE now
      BY <3>1 DEF Upserted
    <3>3. Lineage(k, rows[k])'
      BY <3>1, <3>2 DEF Sound, Lineage
    <3>4. Vintage(k, f.content)
      BY <3>1 DEF Sound
    <3>5. Vintage(k, rows[k].content)'
      BY <3>2, <3>4 DEF Vintage, ProviderDay, Day
    <3>6. rows'[k].first \in Nat /\ rows'[k].first <= now
      <4>1. CASE Stored(k)
        <5>1. Acquisition(k)
          BY <4>1 DEF RowsAreSound
        <5> QED BY <1>3, <3>2, <4>1, <5>1 DEF Acquisition
      <4>2. CASE ~Stored(k)
        BY <1>3, <3>2, <4>2
      <4> QED BY <4>1, <4>2
    <3>7. Acquisition(k)'
      <4>1. f.content <= now /\ (k[1] = "snapshot" => f.asOf <= now)
        BY <3>1 DEF Sound, Lineage
      <4> QED BY <1>3, <3>2, <3>6, <4>1 DEF Acquisition
    <3> QED BY <3>3, <3>5, <3>7
  <2>2. CASE k \notin DOMAIN records
    <3>1. rows'[k] = rows[k]
      BY <1>1, <2>2
    <3>2. Lineage(k, rows[k]) /\ Vintage(k, rows[k].content) /\ Acquisition(k)
      BY <1>4, <3>1 DEF RowsAreSound, Stored
    <3>3. Lineage(k, rows[k])'
      BY <3>1, <3>2 DEF Lineage
    <3>4. Vintage(k, rows[k].content)'
      BY <3>1, <3>2 DEF Vintage, ProviderDay, Day
    <3>5. Acquisition(k)'
      BY <3>1, <3>2 DEF Acquisition
    <3> QED BY <3>3, <3>4, <3>5
  <2> QED BY <2>1, <2>2
<1> QED BY <1>2, <1>3, <1>4 DEF RowsAreSound

---------------------------------------------------------------------------
(* What a build selects, and what follows from sound rows alone.           *)

\* What the gates select has an observation time by the cutoff, but for the
\* exceptions that FailureIsExplained lists.
LEMMA SelectedIsObserved ==
  ASSUME Past, RowsAreSound, NEW t \in Instants, NEW mode \in {"replay", "live"},
         NEW window, NEW documents \in BOOLEAN,
         NEW k \in Selected(t, mode, window, documents)
  PROVE  \/ Reached(Observed(k, mode), t)
         \/ mode = "live" /\ k[1] = "bar" /\ t < Close(k[2])
         \/ mode = "live" /\ k[1] = "ttm" /\ ~Known(StatementTime(k))
         \/ mode = "replay" /\ k[1] = "filing" /\ documents /\ rows[k].first > t
<1>1. k \in Keys /\ Stored(k) /\ Selects(k, t, mode, window)
      /\ (k[1] = "filing" => documents)
  BY DEF Selected
<1>2. Lineage(k, rows[k]) /\ Acquisition(k)
  BY <1>1 DEF RowsAreSound
<1>3. t \in Nat
  BY Types
<1>4. CASE k[1] = "bar"
  <2>1. Close(k[2]) \in Nat
    BY <1>1, <1>4, KeyDays DEF Close
  <2>2. mode = "replay" => rows[k].ingested <= t
    BY <1>1, <1>4 DEF Selects, SelectsBar, Ingested
  <2> QED BY <1>2, <1>3, <1>4, <2>1, <2>2
          DEF Reached, Known, Unknown, Observed, Acquisition
<1>5. CASE k[1] \in {"fundamental", "ttm"}
  <2>1. SelectsFundamental(k, t, mode)
    BY <1>1, <1>5 DEF Selects
  <2>2. rows[k].published \in Optional /\ rows[k].filed \in Optional
        /\ (k[1] = "fundamental" => rows[k].filed \in Nat)
    BY <1>2, <1>5 DEF Lineage
  <2>3. CASE Known(rows[k].published)
    BY <1>5, <2>1, <2>3
       DEF SelectsFundamental, Observed, StatementTime, Reached
  <2>4. CASE ~Known(rows[k].published) /\ mode = "replay"
    <3>1. Observed(k, mode) = rows[k].ingested
      BY <1>5, <2>4 DEF Observed
    <3>2. rows[k].ingested <= t
      BY <2>1, <2>4 DEF SelectsFundamental, Ingested
    <3> QED BY <1>2, <3>1, <3>2 DEF Reached, Known, Unknown, Acquisition
  <2>5. CASE ~Known(rows[k].published) /\ mode = "live" /\ Known(rows[k].filed)
    <3>1. Observed(k, mode) = Midnight(rows[k].filed)
      BY <1>5, <2>5 DEF Observed, StatementTime
    <3>2. rows[k].filed \in Nat /\ rows[k].filed <= Day(t)
      BY <2>1, <2>2, <2>5 DEF SelectsFundamental, Optional, Known
    <3>3. Midnight(rows[k].filed) <= t /\ Midnight(rows[k].filed) \in Nat
      BY <1>3, <3>2, Calendars DEF Midnight
    <3> QED BY <3>1, <3>3 DEF Reached, Known, Unknown
  <2>6. CASE ~Known(rows[k].published) /\ mode = "live" /\ ~Known(rows[k].filed)
    <3>1. k[1] = "ttm"
      BY <1>5, <2>2, <2>6 DEF Known, Unknown
    <3>2. ~Known(StatementTime(k))
      BY <2>6 DEF StatementTime, Known
    <3> QED BY <2>6, <3>1, <3>2
  <2> QED BY <2>3, <2>4, <2>5, <2>6
<1>6. CASE k[1] = "macro"
  <2>1. AdmitsVintage(k, t, mode)
    BY <1>1, <1>6 DEF Selects, SelectsVintage
  <2>2. k[2] \in Nat /\ k[2] <= Day(t) /\ (mode = "replay" => rows[k].ingested <= t)
    BY <1>1, <1>6, <2>1, KeyDays DEF AdmitsVintage, Ingested
  <2>3. Midnight(k[2]) <= t /\ Midnight(k[2]) \in Nat
    BY <1>3, <2>2, Calendars DEF Midnight
  <2> QED BY <1>2, <1>6, <2>2, <2>3
          DEF Observed, Reached, Known, Unknown, Acquisition
<1>7. CASE k[1] \in {"news", "sentiment", "snapshot"}
  <2>1. rows[k].published <= t /\ (mode = "replay" => rows[k].ingested <= t)
    BY <1>1, <1>7 DEF Selects, SelectsMessage, Ingested
  <2> QED BY <1>2, <1>7, <2>1
          DEF Observed, Reached, Known, Unknown, Acquisition, Lineage
<1>8. CASE k[1] = "filing"
  <2>1. rows[k].published <= t
    BY <1>1, <1>8 DEF Selects, SelectsFiling
  <2> QED BY <1>1, <1>2, <1>3, <1>8, <2>1
          DEF Observed, Reached, Known, Unknown, Acquisition, Lineage
<1>9. CASE k[1] \in {"news_event", "filing_event"}
  <2>1. rows[k].published <= t
    BY <1>1, <1>9 DEF Selects, SelectsEvent
  <2> QED BY <1>2, <1>9, <2>1 DEF Observed, Reached, Known, Unknown, Lineage
<1> QED BY <1>1, <1>4, <1>5, <1>6, <1>7, <1>8, <1>9, KeyKinds DEF Kinds

\* FailureIsExplained follows from sound rows.
LEMMA SoundFailures ==
  ASSUME Past, RowsAreSound
  PROVE  FailureIsExplained
<1> SUFFICES ASSUME NEW k \in Keys, Stored(k), NEW t \in Instants
    PROVE  /\ Offends(k, t, "live", Day(t), TRUE) =>
                \/ k[1] = "bar" /\ t < Close(k[2])
                \/ k[1] = "ttm" /\ ~Known(StatementTime(k))
           /\ Offends(k, t, "replay", Day(t), TRUE) =>
                k[1] = "filing" /\ rows[k].first > t
  BY DEF FailureIsExplained
<1>1. ASSUME NEW mode \in {"replay", "live"}, NEW window, NEW documents \in BOOLEAN,
             Offends(k, t, mode, window, documents)
      PROVE  /\ k \in Selected(t, mode, window, documents)
             /\ ~Reached(Observed(k, mode), t)
  BY <1>1 DEF Offends, Selected
<1>2. ASSUME NEW window, Offends(k, t, "live", window, TRUE)
      PROVE  \/ k[1] = "bar" /\ t < Close(k[2])
             \/ k[1] = "ttm" /\ ~Known(StatementTime(k))
  BY <1>1, <1>2, SelectedIsObserved
<1>3. ASSUME NEW documents \in BOOLEAN, Offends(k, t, "replay", Day(t), documents)
      PROVE  documents /\ k[1] = "filing" /\ rows[k].first > t
  BY <1>1, <1>3, SelectedIsObserved
<1> QED BY <1>2, <1>3

\* The contract for metadata without a snapshot or an effective interval.
LEMMA UsableIsVisible ==
  ASSUME NEW m, NEW t \in Nat, NEW mode \in {"replay", "live"},
         m = [available |-> m.available, ingested |-> m.ingested,
              asOf |-> Unknown, from |-> Unknown, to |-> Unknown],
         m.available \in Nat, m.ingested \in Optional
  PROVE  UsableAt(m, t, mode) <=>
           /\ m.available <= t
           /\ mode = "replay" /\ Known(m.ingested) => m.ingested <= t
<1>1. ~After(m.asOf, t) /\ ~After(m.from, t) /\ ~Reached(m.to, t)
  BY DEF After, Reached, Known
<1>2. m.available \in Visibility(m, mode)
  BY DEF Visibility, Known, Unknown
<1>3. Visibility(m, mode) # {}
  BY <1>2
<1>4. UsableAt(m, t, mode) <=>
        ~After(m.available, t) /\ ~ (mode = "replay" /\ After(m.ingested, t))
  BY <1>1, <1>3 DEF UsableAt, AccessReason
<1> QED BY <1>4 DEF After, Known, Unknown, Optional

\* What a build admits of a record, in the terms of its metadata.
LEMMA AdmittedIsUsable ==
  ASSUME Past, RowsAreSound, NEW t \in Instants, NEW mode \in {"replay", "live"},
         NEW window, NEW k \in Keys, Stored(k),
         InWindow(k, window), Attested(k), k[1] # "snapshot",
         mode = "replay" /\ k[1] = "bar" => Close(k[2]) <= t
  PROVE  Admits(k, t, mode, window) <=> UsableAt(Metadata(k), t, mode)
<1> DEFINE m == Metadata(k)
<1>1. Lineage(k, rows[k]) /\ Acquisition(k)
  BY DEF RowsAreSound
<1>2. t \in Nat
  BY Types
<1>3. m = [available |-> m.available, ingested |-> m.ingested,
           asOf |-> Unknown, from |-> Unknown, to |-> Unknown]
  BY <1>1 DEF Metadata, Lineage
<1>4. rows[k].ingested \in Nat /\ rows[k].first \in Nat
  BY <1>1 DEF Acquisition
<1>5. CASE k[1] = "bar"
  <2>1. m.available = Close(k[2]) /\ m.ingested = rows[k].ingested
    BY <1>5 DEF Metadata, Dated
  <2>2. Close(k[2]) \in Nat
    BY <1>5, KeyDays DEF Close
  <2>3. UsableAt(m, t, mode) <=>
          Close(k[2]) <= t /\ (mode = "replay" => rows[k].ingested <= t)
    <3> HIDE DEF m
    <3> QED BY <1>2, <1>3, <1>4, <2>1, <2>2, UsableIsVisible
            DEF Optional, Known, Unknown
  <2>4. Admits(k, t, mode, window) <=>
          /\ mode = "replay" => rows[k].ingested <= t
          /\ Reached(Observed(k, mode), t)
    BY <1>5 DEF Admits, Selects, SelectsBar, Ingested, InWindow
  <2> QED BY <1>4, <1>5, <2>2, <2>3, <2>4 DEF Observed, Reached, Known, Unknown
<1>6. CASE k[1] \in {"fundamental", "ttm"}
  <2> DEFINE p == rows[k].published
             f == rows[k].filed
  <2>1. p \in Optional /\ f \in Optional /\ (Known(p) \/ Known(f))
    BY <1>1, <1>6 DEF Lineage, Optional, Known, Unknown, Attested, StatementTime
  <2>2. m.available = (IF Known(p) THEN p ELSE Midnight(f)) /\ m.available \in Nat
    BY <1>6, <2>1
       DEF Metadata, StatementTime, Known, Unknown, Optional, Midnight
  <2>3. m.ingested = rows[k].ingested
    BY <1>6 DEF Metadata, Dated
  <2>4. UsableAt(m, t, mode) <=>
          m.available <= t /\ (mode = "replay" => rows[k].ingested <= t)
    <3> HIDE DEF m
    <3> QED BY <1>2, <1>3, <1>4, <2>2, <2>3, UsableIsVisible
            DEF Optional, Known, Unknown
  <2>5. ~Known(p) => (f <= Day(t) <=> Midnight(f) <= t)
    BY <1>2, <2>1, Calendars DEF Optional, Known
  <2>6. SelectsFundamental(k, t, mode) <=>
          /\ mode = "replay" => rows[k].ingested <= t
          /\ m.available <= t
    <3> HIDE DEF m
    <3> QED BY <2>1, <2>2, <2>5 DEF SelectsFundamental, Ingested
  <2>7. SelectsFundamental(k, t, mode) => Reached(Observed(k, mode), t)
    <3> HIDE DEF m
    <3>1. CASE Known(p)
      BY <1>6, <2>2, <2>6, <3>1 DEF Observed, StatementTime, Reached
    <3>2. CASE ~Known(p) /\ mode = "replay"
      BY <1>4, <1>6, <2>6, <3>2 DEF Observed, Reached, Known, Unknown
    <3>3. CASE ~Known(p) /\ mode = "live"
      BY <1>6, <2>1, <2>2, <2>6, <3>3
         DEF Observed, StatementTime, Reached, Known, Unknown
    <3> QED BY <3>1, <3>2, <3>3
  <2>8. Admits(k, t, mode, window) <=>
          SelectsFundamental(k, t, mode) /\ Reached(Observed(k, mode), t)
    BY <1>6 DEF Admits, Selects
  <2> QED BY <2>4, <2>6, <2>7, <2>8
<1>7. CASE k[1] = "macro"
  <2>1. m.available = Midnight(k[2]) /\ m.ingested = rows[k].ingested
    BY <1>7 DEF Metadata, Dated
  <2>2. k[2] \in Nat /\ Midnight(k[2]) \in Nat
    BY <1>7, KeyDays DEF Midnight
  <2>3. UsableAt(m, t, mode) <=>
          Midnight(k[2]) <= t /\ (mode = "replay" => rows[k].ingested <= t)
    <3> HIDE DEF m
    <3> QED BY <1>2, <1>3, <1>4, <2>1, <2>2, UsableIsVisible
            DEF Optional, Known, Unknown
  <2>4. AdmitsVintage(k, t, mode) <=>
          Midnight(k[2]) <= t /\ (mode = "replay" => rows[k].ingested <= t)
    BY <1>2, <1>7, <2>2, Calendars DEF AdmitsVintage, Ingested
  <2>5. Admits(k, t, mode, window) <=>
          AdmitsVintage(k, t, mode) /\ Reached(Observed(k, mode), t)
    BY <1>7 DEF Admits
  <2> QED BY <1>4, <1>7, <2>2, <2>3, <2>4, <2>5
          DEF Observed, Reached, Known, Unknown
<1>8. CASE k[1] \in {"news", "sentiment"}
  <2>1. m.available = rows[k].published /\ m.ingested = rows[k].ingested
    BY <1>8 DEF Metadata, Dated
  <2>2. rows[k].published \in Nat
    BY <1>1, <1>8 DEF Lineage
  <2>3. UsableAt(m, t, mode) <=>
          rows[k].published <= t /\ (mode = "replay" => rows[k].ingested <= t)
    <3> HIDE DEF m
    <3> QED BY <1>2, <1>3, <1>4, <2>1, <2>2, UsableIsVisible
            DEF Optional, Known, Unknown
  <2>4. Admits(k, t, mode, window) <=>
          /\ rows[k].published <= t
          /\ mode = "replay" => rows[k].ingested <= t
          /\ Reached(Observed(k, mode), t)
    BY <1>8 DEF Admits, Selects, SelectsMessage, Ingested
  <2> QED BY <1>4, <1>8, <2>2, <2>3, <2>4 DEF Observed, Reached, Known, Unknown
<1>9. CASE k[1] = "filing"
  <2>1. m.available = rows[k].published /\ m.ingested = rows[k].first
    BY <1>9 DEF Metadata, Dated
  <2>2. rows[k].published \in Nat
    BY <1>1, <1>9 DEF Lineage
  <2>3. UsableAt(m, t, mode) <=>
          rows[k].published <= t /\ (mode = "replay" => rows[k].first <= t)
    <3> HIDE DEF m
    <3> QED BY <1>2, <1>3, <1>4, <2>1, <2>2, UsableIsVisible
            DEF Optional, Known, Unknown
  <2>4. Admits(k, t, mode, window) <=>
          rows[k].published <= t /\ Reached(Observed(k, mode), t)
    BY <1>9 DEF Admits, Selects, SelectsFiling, InWindow
  <2> QED BY <1>4, <1>9, <2>2, <2>3, <2>4 DEF Observed, Reached, Known, Unknown
<1>10. CASE k[1] \in {"news_event", "filing_event"}
  <2>1. m.available = rows[k].published /\ m.ingested = Unknown
    BY <1>10 DEF Metadata, Dated
  <2>2. rows[k].published \in Nat
    BY <1>1, <1>10 DEF Lineage
  <2>3. UsableAt(m, t, mode) <=> rows[k].published <= t
    <3> HIDE DEF m
    <3> QED BY <1>2, <1>3, <2>1, <2>2, UsableIsVisible DEF Optional, Known, Unknown
  <2>4. Admits(k, t, mode, window) <=>
          rows[k].published <= t /\ Reached(Observed(k, mode), t)
    BY <1>10 DEF Admits, Selects, SelectsEvent
  <2> QED BY <1>10, <2>2, <2>3, <2>4 DEF Observed, Reached, Known, Unknown
<1> QED BY <1>5, <1>6, <1>7, <1>8, <1>9, <1>10, KeyKinds DEF Kinds

\* The contract for a snapshot: it is refused as a future one when only its
\* as_of lies after the cutoff.
LEMMA ReasonOfSnapshot ==
  ASSUME NEW m, NEW t \in Nat, NEW mode \in {"replay", "live"},
         m = [available |-> m.available, ingested |-> m.ingested,
              asOf |-> m.asOf, from |-> Unknown, to |-> Unknown],
         m.available \in Nat, m.ingested \in Nat, m.asOf \in Nat
  PROVE  AccessReason(m, t, mode) =
           IF m.available > t THEN "future_available"
           ELSE IF mode = "replay" /\ m.ingested > t THEN "future_ingestion"
           ELSE IF m.asOf > t THEN "future_snapshot" ELSE "usable"
<1>1. ~After(m.from, t) /\ ~Reached(m.to, t)
  BY DEF After, Reached, Known
<1>2. /\ After(m.available, t) <=> m.available > t
      /\ After(m.ingested, t) <=> m.ingested > t
      /\ After(m.asOf, t) <=> m.asOf > t
  BY DEF After, Known, Unknown
<1>3. m.available \in Visibility(m, mode)
  BY DEF Visibility, Known, Unknown
<1>4. Visibility(m, mode) # {}
  BY <1>3
<1> QED BY <1>1, <1>2, <1>4 DEF AccessReason

\* A build admits of the snapshots those that the contract accepts, and live
\* those that it refuses as future ones.
LEMMA AdmittedSnapshot ==
  ASSUME Past, RowsAreSound, NEW t \in Instants, NEW mode \in {"replay", "live"},
         NEW window, NEW k \in Keys, Stored(k), k[1] = "snapshot"
  PROVE  Admits(k, t, mode, window)
           <=> AccessReason(Metadata(k), t, mode) \in Passing(k, mode)
<1> DEFINE m == Metadata(k)
<1>1. Lineage(k, rows[k]) /\ Acquisition(k)
  BY DEF RowsAreSound
<1>2. t \in Nat
  BY Types
<1>3. /\ rows[k].published \in Nat /\ rows[k].asOf \in Nat
      /\ rows[k].ingested \in Nat /\ rows[k].asOf <= rows[k].ingested
  BY <1>1 DEF Lineage, Acquisition
<1>4. m = [available |-> rows[k].published, ingested |-> rows[k].ingested,
           asOf |-> rows[k].asOf, from |-> Unknown, to |-> Unknown]
  BY DEF Metadata, Dated
<1>5. AccessReason(m, t, mode) =
        IF rows[k].published > t THEN "future_available"
        ELSE IF mode = "replay" /\ rows[k].ingested > t THEN "future_ingestion"
        ELSE IF rows[k].asOf > t THEN "future_snapshot" ELSE "usable"
  <2> HIDE DEF m
  <2> QED BY <1>2, <1>3, <1>4, ReasonOfSnapshot
<1>6. AccessReason(m, t, mode) \in Passing(k, mode) <=>
        /\ rows[k].published <= t
        /\ mode = "replay" => rows[k].ingested <= t
  <2> HIDE DEF m
  <2>1. CASE mode = "live"
    BY <1>2, <1>3, <1>5, <2>1 DEF Passing
  <2>2. CASE mode = "replay"
    BY <1>2, <1>3, <1>5, <2>2 DEF Passing
  <2> QED BY <2>1, <2>2
<1>7. Admits(k, t, mode, window) <=>
        /\ rows[k].published <= t
        /\ mode = "replay" => rows[k].ingested <= t
        /\ Reached(Observed(k, mode), t)
  BY DEF Admits, Selects, SelectsMessage, Ingested
<1>8. Observed(k, mode) = IF mode = "replay" THEN rows[k].ingested ELSE rows[k].published
  BY DEF Observed
<1> HIDE DEF m
<1>9. Admits(k, t, mode, window) <=>
        /\ rows[k].published <= t
        /\ mode = "replay" => rows[k].ingested <= t
  BY <1>3, <1>7, <1>8 DEF Reached, Known, Unknown
<1> QED BY <1>6, <1>9 DEF m

\* AgreesWithContract follows from sound rows.
LEMMA SoundAgreement ==
  ASSUME Past, RowsAreSound
  PROVE  AgreesWithContract
<1> SUFFICES ASSUME NEW k \in Keys, Stored(k)
    PROVE  /\ \A d \in Days : AgreesFor(k, EndOfDay(d), "replay", d)
           /\ \A t \in Instants : AgreesFor(k, t, "live", Day(t))
  BY DEF AgreesWithContract
<1>1. ASSUME NEW t \in Instants, NEW mode \in {"replay", "live"}, NEW window,
             mode = "replay" /\ k[1] = "bar" /\ InWindow(k, window) => Close(k[2]) <= t
      PROVE  AgreesFor(k, t, mode, window)
  <2>1. CASE k[1] = "snapshot"
    BY <1>1, <2>1, AdmittedSnapshot DEF AgreesFor
  <2>2. CASE k[1] # "snapshot"
    <3>1. Passing(k, mode) = {"usable"}
      BY <2>2 DEF Passing
    <3>2. AccessReason(Metadata(k), t, mode) \in Passing(k, mode)
            <=> UsableAt(Metadata(k), t, mode)
      BY <3>1 DEF UsableAt
    <3> QED BY <1>1, <2>2, <3>2, AdmittedIsUsable DEF AgreesFor
  <2> QED BY <2>1, <2>2
<1>2. ASSUME NEW d \in Days
      PROVE  AgreesFor(k, EndOfDay(d), "replay", d)
  <2>1. EndOfDay(d) \in Instants
    BY <1>2, DataBounds DEF Days, Instants, EndOfDay
  <2>2. InWindow(k, d) => (k[1] = "bar" => Close(k[2]) <= EndOfDay(d))
    BY <1>2, Types, KeyDays DEF InWindow, Close, EndOfDay
  <2> QED BY <1>1, <2>1, <2>2
<1> QED BY <1>1, <1>2

\* Of the vintages a cutoff admits the one with the latest date is selected,
\* and it shows the newest observation.
LEMMA NewestIsSelected ==
  ASSUME Past, RowsAreSound, NEW t, NEW mode,
         NEW v \in Keys, AdmitsVintage(v, t, mode)
  PROVE  \E k \in Keys :
           /\ SelectsVintage(k, t, mode)
           /\ \A u \in Keys : SelectsVintage(u, t, mode) => u = k
           /\ \A u \in Keys : AdmitsVintage(u, t, mode) =>
                                rows[u].content <= rows[k].content
<1> DEFINE D == {d \in Days : AdmitsVintage(<<"macro", d>>, t, mode)}
<1>1. \A u \in Keys : AdmitsVintage(u, t, mode) =>
        u = <<"macro", u[2]>> /\ u[2] \in Days
  <2> SUFFICES ASSUME NEW u \in Keys, AdmitsVintage(u, t, mode)
               PROVE  u = <<"macro", u[2]>> /\ u[2] \in Days
    OBVIOUS
  <2>1. u[1] = "macro"
    BY DEF AdmitsVintage
  <2> QED BY <2>1, KeyKinds
<1>2. D \subseteq 0..LastDay
  BY DEF Days
<1>3. v[2] \in D
  BY <1>1
<1>4. Latest(D) \in D /\ \A d \in D : d <= Latest(D)
  <2> HIDE DEF D
  <2> QED BY <1>2, <1>3, LatestIsOne, Types
<1> DEFINE k == <<"macro", Latest(D)>>
<1>5. k \in Keys /\ AdmitsVintage(k, t, mode) /\ k[2] = Latest(D)
  BY <1>4 DEF Keys
<1>6. \A u \in Keys : AdmitsVintage(u, t, mode) => u[2] \in D /\ u[2] <= k[2]
  BY <1>1, <1>4
<1>7. SelectsVintage(k, t, mode)
  <2> HIDE DEF k, D
  <2> QED BY <1>5, <1>6 DEF SelectsVintage
<1>8. ASSUME NEW u \in Keys, SelectsVintage(u, t, mode)
      PROVE  u = k
  <2>1. AdmitsVintage(u, t, mode) /\ k[2] <= u[2]
    <3> HIDE DEF k, D
    <3> QED BY <1>5, <1>8 DEF SelectsVintage
  <2>2. u[2] <= k[2] /\ u = <<"macro", u[2]>> /\ u[2] \in Days
    BY <1>1, <1>6, <2>1
  <2>3. u[2] \in Int /\ k[2] \in Int
    <3> HIDE DEF k, D
    <3>1. u[2] \in Days
      BY <2>2
    <3>2. Latest(D) \in Days
      BY <1>4 DEF D
    <3>3. Days \subseteq Int
      BY Types
    <3> QED BY <1>5, <3>1, <3>2, <3>3
  <2>4. u[2] = Latest(D)
    <3> HIDE DEF D
    <3> QED BY <1>5, <2>1, <2>2, <2>3
  <2> QED BY <2>2, <2>4
<1>9. ASSUME NEW u \in Keys, AdmitsVintage(u, t, mode)
      PROVE  rows[u].content <= rows[k].content
  <2>1. u = <<"macro", u[2]>> /\ u[2] \in Nat /\ u[2] <= k[2] /\ k[2] \in Nat
    BY <1>1, <1>2, <1>4, <1>5, <1>6, <1>9, Types
  <2>2. u[1] = "macro" /\ k[1] = "macro" /\ Stored(u) /\ Stored(k)
    BY <1>5, <1>9 DEF AdmitsVintage
  <2> HIDE DEF k
  <2>3. Vintage(u, rows[u].content) /\ Lineage(u, rows[u])
        /\ Vintage(k, rows[k].content) /\ Lineage(k, rows[k])
    BY <1>5, <2>2 DEF RowsAreSound
  <2>4. rows[u].content \in Nat /\ rows[k].content \in Nat
    BY <2>3 DEF Lineage
  <2>5. CASE u[2] < k[2]
    <3>1. /\ rows[u].content \in revisions[<<"macro", 0>>]
          /\ ProviderDay(rows[u].content) <= u[2]
          /\ \A r \in revisions[<<"macro", 0>>] :
               ProviderDay(r) < k[2] => r <= rows[k].content
      BY <2>2, <2>3 DEF Vintage
    <3>2. ProviderDay(rows[u].content) \in Int
      BY <2>4, Calendars
    <3>3. ProviderDay(rows[u].content) < k[2]
      BY <2>1, <2>5, <3>1, <3>2
    <3> QED BY <3>1, <3>3
  <2>6. CASE u[2] = k[2]
    <3>1. u = k
      BY <2>1, <2>6 DEF k
    <3> QED BY <2>4, <3>1
  <2> QED BY <2>1, <2>5, <2>6
<1> HIDE DEF k
<1> QED BY <1>5, <1>7, <1>8, <1>9

\* NewestVintageWins follows from sound rows.
LEMMA SoundVintages ==
  ASSUME Past, RowsAreSound
  PROVE  NewestVintageWins
<1> SUFFICES ASSUME NEW t \in Instants, NEW mode \in {"replay", "live"},
                    NEW v \in Keys, AdmitsVintage(v, t, mode)
    PROVE \E k \in {u \in Keys : SelectsVintage(u, t, mode)} :
            /\ {u \in Keys : SelectsVintage(u, t, mode)} = {k}
            /\ \A u \in {x \in Keys : AdmitsVintage(x, t, mode)} :
                 rows[u].content <= rows[k].content
  BY DEF NewestVintageWins
<1>1. PICK k \in Keys :
        /\ SelectsVintage(k, t, mode)
        /\ \A u \in Keys : SelectsVintage(u, t, mode) => u = k
        /\ \A u \in Keys : AdmitsVintage(u, t, mode) =>
                             rows[u].content <= rows[k].content
  BY NewestIsSelected
<1> QED BY <1>1

---------------------------------------------------------------------------
(* The bundles.                                                            *)

RunIsSound ==
  /\ run = [mode |-> run.mode, asOf |-> run.asOf, day |-> run.day,
            dataEnd |-> run.dataEnd, todo |-> run.todo]
  /\ run.mode \in {"replay", "live"} /\ run.asOf \in Nat
  /\ run.mode = "replay" /\ run.todo # <<>> =>
       run.day \in Nat /\ run.asOf = EndOfDay(run.day)

\* What a replay with the cutoff t would take of a dated table.
Candidate(k, t) ==
  /\ Stored(k) /\ Dated(k)
  /\ IF k[1] = "macro" THEN AdmitsVintage(k, t, "replay")
     ELSE Selects(k, t, "replay", Day(t))

\* A bundle made after its cutoff has a trace, as new as they are, of all the
\* records that a replay of that cutoff would still take.
Covers(b) ==
  b.asOf < b.at /\ ~b.refused =>
    \A k \in Keys : Candidate(k, b.asOf) =>
      \E j \in b.items : Subject(j.key) = Subject(k) /\ rows[k].content <= j.content

BundlesAreSound ==
  \A b \in bundles : b.asOf \in Nat /\ b.at \in Nat /\ b.at <= now /\ Covers(b)

IInv ==
  /\ Past /\ RowsAreSound /\ RunIsSound /\ BundlesAreSound
  /\ ReplayIsPointInTime /\ LaterReplayIsNoNewer

\* Every query of a dated table compares the ingestion time.
LEMMA CandidateIsIngested ==
  ASSUME NEW k \in Keys, NEW t, Candidate(k, t)
  PROVE  rows[k].ingested <= t
<1>1. k[1] \in {"bar", "fundamental", "ttm", "macro", "news", "sentiment", "snapshot"}
  BY DEF Candidate, Dated
<1>2. CASE k[1] = "bar"
  BY <1>2 DEF Candidate, Selects, SelectsBar, Ingested
<1>3. CASE k[1] \in {"fundamental", "ttm"}
  BY <1>3 DEF Candidate, Selects, SelectsFundamental, Ingested
<1>4. CASE k[1] = "macro"
  BY <1>4 DEF Candidate, AdmitsVintage, Ingested
<1>5. CASE k[1] \in {"news", "sentiment", "snapshot"}
  BY <1>5 DEF Candidate, Selects, SelectsMessage, Ingested
<1> QED BY <1>1, <1>2, <1>3, <1>4, <1>5

\* Candidates depend on their rows only.
LEMMA CandidateDependsOnRow ==
  ASSUME NEW k \in Keys, NEW t, rows'[k] = rows[k]
  PROVE  Candidate(k, t)' <=> Candidate(k, t)
BY DEF Candidate, Stored, Known, Dated, AdmitsVintage, Selects, SelectsBar,
       SelectsFundamental, SelectsVintage, SelectsMessage, Ingested, Day

\* A replay takes only candidates of dated tables,
LEMMA SelectedIsCandidate ==
  ASSUME NEW t, NEW documents, NEW k \in Selected(t, "replay", Day(t), documents)
  PROVE  k \in Keys /\ Stored(k) /\ (Dated(k) => Candidate(k, t))
<1>1. k \in Keys /\ Stored(k) /\ Selects(k, t, "replay", Day(t))
  BY DEF Selected
<1>2. k[1] = "macro" => AdmitsVintage(k, t, "replay")
  BY <1>1 DEF Selects, SelectsVintage
<1> QED BY <1>1, <1>2 DEF Candidate

\* and of every candidate it takes a trace that is as new.
LEMMA CandidateIsShown ==
  ASSUME Past, RowsAreSound, NEW t \in Nat, NEW documents,
         NEW k \in Keys, Candidate(k, t)
  PROVE  \E j \in Selected(t, "replay", Day(t), documents) :
           Subject(j) = Subject(k) /\ rows[k].content <= rows[j].content
<1>1. Stored(k) /\ Dated(k)
  BY DEF Candidate
<1>2. CASE k[1] = "macro"
  <2>1. AdmitsVintage(k, t, "replay")
    BY <1>2 DEF Candidate
  <2>2. PICK j \in Keys : /\ SelectsVintage(j, t, "replay")
                          /\ rows[k].content <= rows[j].content
    BY <2>1, NewestIsSelected
  <2>3. j[1] = "macro" /\ Stored(j)
    BY <2>2 DEF SelectsVintage, AdmitsVintage
  <2>4. j \in Selected(t, "replay", Day(t), documents)
    BY <2>2, <2>3 DEF Selected, Selects
  <2> QED BY <1>2, <2>2, <2>3, <2>4 DEF Subject
<1>3. CASE k[1] # "macro"
  <2>1. Selects(k, t, "replay", Day(t)) /\ k[1] # "filing"
    BY <1>1, <1>3 DEF Candidate, Dated
  <2>2. k \in Selected(t, "replay", Day(t), documents)
    BY <1>1, <2>1 DEF Selected
  <2>3. rows[k].content \in Nat
    BY <1>1 DEF RowsAreSound, Lineage
  <2> QED BY <2>2, <2>3
<1> QED BY <1>2, <1>3

\* A step that leaves bundles alone and either keeps a row or acquires it now.
LEMMA BundlesStaySound ==
  ASSUME Past, RowsAreSound, BundlesAreSound, Past',
         now <= now', bundles' = bundles,
         \A k \in Keys : rows'[k] = rows[k] \/ rows'[k].ingested = now
  PROVE  BundlesAreSound'
<1> SUFFICES ASSUME NEW b \in bundles
             PROVE  b.at <= now' /\ Covers(b)'
  BY DEF BundlesAreSound
<1>1. b.asOf \in Nat /\ b.at \in Nat /\ b.at <= now /\ Covers(b)
  BY DEF BundlesAreSound
<1>2. now \in Nat /\ now' \in Nat
  BY Types DEF Past
<1>3. b.at <= now'
  BY <1>1, <1>2
<1>4. ASSUME b.asOf < b.at, ~b.refused, NEW k \in Keys, Candidate(k, b.asOf)'
      PROVE  \E j \in b.items : Subject(j.key) = Subject(k)
                                /\ rows'[k].content <= j.content
  <2>1. CASE rows'[k] = rows[k]
    <3>1. Candidate(k, b.asOf)
      BY <1>4, <2>1, CandidateDependsOnRow
    <3> QED BY <1>1, <1>4, <2>1, <3>1 DEF Covers
  <2>2. CASE rows'[k].ingested = now
    <3>1. rows'[k].ingested <= b.asOf
      <4>1. k[1] \in {"bar", "fundamental", "ttm", "macro", "news", "sentiment", "snapshot"}
        BY <1>4 DEF Candidate, Dated
      <4>2. CASE k[1] = "bar"
        BY <1>4, <4>2 DEF Candidate, Selects, SelectsBar, Ingested
      <4>3. CASE k[1] \in {"fundamental", "ttm"}
        BY <1>4, <4>3 DEF Candidate, Selects, SelectsFundamental, Ingested
      <4>4. CASE k[1] = "macro"
        BY <1>4, <4>4 DEF Candidate, AdmitsVintage, Ingested
      <4>5. CASE k[1] \in {"news", "sentiment", "snapshot"}
        BY <1>4, <4>5 DEF Candidate, Selects, SelectsMessage, Ingested
      <4> QED BY <4>1, <4>2, <4>3, <4>4, <4>5
    <3> QED BY <1>1, <1>2, <1>4, <2>2, <3>1
  <2> QED BY <2>1, <2>2
<1>5. Covers(b)'
  BY <1>4 DEF Covers, Subject
<1> QED BY <1>3, <1>5

\* A new replay bundle satisfies all that is said of bundles.
LEMMA NewBundle ==
  ASSUME Past, RowsAreSound, NEW t \in Nat, NEW documents, NEW n,
         n = Bundle(t, "replay", Day(t), documents)
  PROVE  /\ n.asOf = t /\ n.at = now
         /\ Covers(n)
         /\ \A i \in n.items : Dated(i.key) =>
              /\ i.content <= t /\ i.first <= t
              /\ i.key \in Keys /\ Candidate(i.key, t)
              /\ i.content = rows[i.key].content
<1> DEFINE S == Selected(t, "replay", Day(t), documents)
<1>1. n.asOf = t /\ n.at = now
  BY DEF Bundle
<1>2. \A i \in n.items : \E k \in S : i = Item(k)
  <2> HIDE DEF S
  <2> QED BY DEF Bundle, S
<1>3. ~n.refused => \A k \in S : Item(k) \in n.items
  BY DEF Bundle
<1> HIDE DEF S
<1>4. Covers(n)
  <2> SUFFICES ASSUME ~n.refused, NEW k \in Keys, Candidate(k, t)
      PROVE  \E j \in n.items : Subject(j.key) = Subject(k)
                                /\ rows[k].content <= j.content
    BY <1>1 DEF Covers
  <2>1. PICK j \in S : Subject(j) = Subject(k) /\ rows[k].content <= rows[j].content
    BY CandidateIsShown DEF S
  <2>2. Item(j) \in n.items /\ Item(j).key = j /\ Item(j).content = rows[j].content
    BY <1>3 DEF Item
  <2> QED BY <2>1, <2>2
<1>5. ASSUME NEW i \in n.items, Dated(i.key)
      PROVE  /\ i.content <= t /\ i.first <= t
             /\ i.key \in Keys /\ Candidate(i.key, t)
             /\ i.content = rows[i.key].content
  <2>1. PICK k \in S : i = Item(k)
    BY <1>2, <1>5
  <2>2. i.key = k /\ i.content = rows[k].content /\ i.first = rows[k].first
    BY <2>1 DEF Item
  <2>3. k \in Keys /\ Stored(k) /\ Candidate(k, t)
    BY <1>5, <2>1, <2>2, SelectedIsCandidate DEF S
  <2>4. rows[k].ingested <= t
    BY <2>3, CandidateIsIngested
  <2>5. Lineage(k, rows[k]) /\ Acquisition(k)
    BY <2>3 DEF RowsAreSound
  <2> QED BY <2>2, <2>3, <2>4, <2>5 DEF Lineage, Acquisition
<1> QED BY <1>1, <1>4, <1>5

---------------------------------------------------------------------------
(* The steps.                                                              *)

\* The initial states.
LEMMA InitIsSound ==
  ASSUME Init
  PROVE  IInv
<1>1. Past
  <2>1. 1 \in Instants
    BY DataBounds DEF Instants, EndOfDay
  <2>2. revisions = [i \in Sources |-> {}] /\ now = 1
    BY DEF Init
  <2> QED BY <2>1, <2>2 DEF Past
<1>2. RowsAreSound
  <2>1. \A k \in Keys : rows[k] = NoRow
    BY DEF Init
  <2> QED BY <2>1 DEF RowsAreSound, Stored, NoRow, Known
<1>3. RunIsSound
  BY DEF Init, Idle, RunIsSound
<1>4. bundles = {}
  BY DEF Init
<1> QED BY <1>1, <1>2, <1>3, <1>4
        DEF IInv, BundlesAreSound, ReplayIsPointInTime, LaterReplayIsNoNewer

\* A run that goes on or ends.
LEMMA RunProceeds ==
  ASSUME RunIsSound, run.todo # <<>>, Proceed \/ Abort
  PROVE  RunIsSound'
<1>1. CASE run' = Idle
  BY <1>1 DEF RunIsSound, Idle
<1>2. CASE run' = [run EXCEPT !.todo = Tail(@)]
  <2>1. run' = [mode |-> run.mode, asOf |-> run.asOf, day |-> run.day,
                dataEnd |-> run.dataEnd, todo |-> Tail(run.todo)]
    BY <1>2 DEF RunIsSound
  <2> QED BY <2>1 DEF RunIsSound
<1> QED BY <1>1, <1>2 DEF Proceed, Abort

\* A run that starts.
LEMMA RunStarts ==
  ASSUME NEW mode \in {"replay", "live"}, NEW asOf \in Nat, NEW day \in Nat,
         NEW dataEnd, NEW steps, StartRun(mode, asOf, day, dataEnd, steps),
         mode = "replay" => asOf = EndOfDay(day)
  PROVE  RunIsSound' /\ UNCHANGED <<now, revisions, rows, bundles>>
<1>1. run' = [mode |-> mode, asOf |-> asOf, day |-> day, dataEnd |-> dataEnd,
              todo |-> steps]
  BY DEF StartRun
<1>2. RunIsSound'
  BY <1>1 DEF RunIsSound
<1> QED BY <1>2 DEF StartRun

\* A build, the one step that adds a bundle.
LEMMA BuildIsSound ==
  ASSUME IInv, NEW step, NEW window, NEW documents,
         Build(step, window, documents),
         run.mode = "replay" => window = Day(run.asOf)
  PROVE  IInv'
<1> DEFINE n == Bundle(run.asOf, run.mode, window, documents)
<1>1. /\ now' = now /\ revisions' = revisions /\ rows' = rows
      /\ run.todo # <<>> /\ (Proceed \/ Abort)
  BY DEF Build, Step
<1>2. bundles' = IF run.mode = "replay" THEN bundles \union {n} ELSE bundles
  BY DEF Build
<1> HIDE DEF n
<1>3. Past' /\ RowsAreSound' /\ RunIsSound'
  <2>1. now \in Nat
    BY Types DEF IInv, Past
  <2>2. now' \in Instants /\ now <= now'
    BY <1>1, <2>1 DEF IInv, Past
  <2> QED BY <1>1, <2>2, TimePasses, RunProceeds DEF IInv
<1>4. \A b : Covers(b)' <=> Covers(b)
  <2> SUFFICES ASSUME NEW b PROVE Covers(b)' <=> Covers(b)
    OBVIOUS
  <2>1. \A k \in Keys : Candidate(k, b.asOf)' <=> Candidate(k, b.asOf)
    BY <1>1, CandidateDependsOnRow
  <2> QED BY <1>1, <2>1 DEF Covers, Subject
<1>5. CASE run.mode # "replay"
  <2>1. bundles' = bundles
    BY <1>2, <1>5
  <2>2. BundlesAreSound'
    BY <1>1, <1>4, <2>1 DEF IInv, BundlesAreSound
  <2>3. ReplayIsPointInTime' /\ LaterReplayIsNoNewer'
    BY <2>1 DEF IInv, ReplayIsPointInTime, LaterReplayIsNoNewer, Dated, Subject
  <2> QED BY <1>3, <2>2, <2>3 DEF IInv
<1>6. CASE run.mode = "replay"
  <2>1. n = Bundle(run.asOf, "replay", Day(run.asOf), documents) /\ run.asOf \in Nat
    BY <1>6 DEF n, IInv, RunIsSound
  <2>2. /\ n.asOf = run.asOf /\ n.at = now /\ Covers(n)
        /\ \A i \in n.items : Dated(i.key) =>
             /\ i.content <= run.asOf /\ i.first <= run.asOf
             /\ i.key \in Keys /\ Candidate(i.key, run.asOf)
             /\ i.content = rows[i.key].content
    BY <2>1, NewBundle DEF IInv
  <2>3. bundles' = bundles \union {n}
    BY <1>2, <1>6
  <2>4. now \in Nat
    BY Types DEF IInv, Past
  <2>5. \A b \in bundles : /\ b.asOf \in Nat /\ b.at \in Nat
                           /\ b.at <= now /\ Covers(b)
    BY DEF IInv, BundlesAreSound
  <2>6. BundlesAreSound'
    <3> SUFFICES ASSUME NEW b \in bundles'
        PROVE b.asOf \in Nat /\ b.at \in Nat /\ b.at <= now /\ Covers(b)
      BY <1>1, <1>4 DEF BundlesAreSound
    <3>1. CASE b \in bundles
      BY <2>5, <3>1
    <3>2. CASE b = n
      BY <2>1, <2>2, <2>4, <3>2
    <3> QED BY <2>3, <3>1, <3>2
  <2>7. ReplayIsPointInTime'
    <3> SUFFICES ASSUME NEW b \in bundles', NEW i \in b.items, Dated(i.key)
                 PROVE  i.content <= b.asOf /\ i.first <= b.asOf
      BY DEF ReplayIsPointInTime, Dated
    <3>1. CASE b \in bundles
      BY <3>1 DEF IInv, ReplayIsPointInTime
    <3>2. CASE b = n
      BY <2>2, <3>2
    <3> QED BY <2>3, <3>1, <3>2
  <2>8. LaterReplayIsNoNewer'
    <3> SUFFICES ASSUME NEW b \in bundles', NEW c \in bundles',
                        b.asOf = c.asOf, b.asOf < b.at, b.at < c.at, ~b.refused,
                        NEW i \in c.items, Dated(i.key)
                 PROVE  \E j \in b.items : Subject(j.key) = Subject(i.key)
                                           /\ i.content <= j.content
      BY DEF LaterReplayIsNoNewer, Dated, Subject
    <3>1. c.at <= now /\ c.at \in Nat
      BY <2>2, <2>3, <2>4, <2>5
    <3>2. CASE b \in bundles /\ c \in bundles
      BY <3>2 DEF IInv, LaterReplayIsNoNewer
    <3>3. CASE b = n
      BY <2>2, <2>4, <3>1, <3>3
    <3>4. CASE b \in bundles /\ c = n
      <4>1. i.key \in Keys /\ Candidate(i.key, b.asOf)
            /\ i.content = rows[i.key].content
        BY <2>2, <3>4
      <4> QED BY <2>5, <3>4, <4>1 DEF Covers
    <3> QED BY <2>3, <3>2, <3>3, <3>4
  <2> QED BY <1>3, <2>6, <2>7, <2>8 DEF IInv
<1> QED BY <1>5, <1>6

\* The steps that leave the bundles alone.
LEMMA OtherStepsAreSound ==
  ASSUME IInv, Past', RowsAreSound', RunIsSound', now <= now', bundles' = bundles,
         \A k \in Keys : rows'[k] = rows[k] \/ rows'[k].ingested = now
  PROVE  IInv'
<1>1. BundlesAreSound'
  BY BundlesStaySound DEF IInv
<1>2. ReplayIsPointInTime' /\ LaterReplayIsNoNewer'
  BY DEF IInv, ReplayIsPointInTime, LaterReplayIsNoNewer, Dated, Subject
<1> QED BY <1>1, <1>2 DEF IInv

\* Every step.
LEMMA NextIsSound ==
  ASSUME IInv, [Next]_vars
  PROVE  IInv'
<1>1. now \in Nat /\ now \in Instants
  BY Types DEF IInv, Past
<1>2. ASSUME UNCHANGED <<now, revisions, rows, bundles>>, RunIsSound'
      PROVE  IInv'
  <2>1. now' \in Instants /\ now <= now'
    BY <1>1, <1>2
  <2>2. Past' /\ RowsAreSound'
    BY <1>2, <2>1, TimePasses DEF IInv
  <2> QED BY <1>2, <2>1, <2>2, OtherStepsAreSound
<1>3. ASSUME run' = run
      PROVE  RunIsSound'
  BY <1>3 DEF IInv, RunIsSound
<1>4. ASSUME UNCHANGED <<now, revisions, bundles>>, RunIsSound', NEW records,
             Store(records),
             \A k \in Keys : k \in DOMAIN records => Sound(k, records[k])
      PROVE  IInv'
  <2>1. /\ Past' /\ RowsAreSound'
        /\ \A k \in Keys : rows'[k] = rows[k] \/ rows'[k].ingested = now
    BY <1>4, StoreKeepsRows DEF IInv
  <2>2. now <= now'
    BY <1>1, <1>4
  <2> QED BY <1>4, <2>1, <2>2, OtherStepsAreSound
<1>5. CASE Tick
  <2>1. /\ now' = now + 1 /\ now < EndOfDay(LastDay) /\ run' = run
        /\ rows' = rows /\ revisions' = revisions /\ bundles' = bundles
    BY <1>5 DEF Tick
  <2>2. now' \in Instants /\ now <= now'
    BY <1>1, <2>1, Types
  <2>3. Past' /\ RowsAreSound'
    BY <2>1, <2>2, TimePasses DEF IInv
  <2> QED BY <1>3, <2>1, <2>2, <2>3, OtherStepsAreSound
<1>6. CASE \E i \in Sources : Publish(i)
  <2>1. PICK i \in Sources : Publish(i)
    BY <1>6
  <2>2. Past' /\ RowsAreSound'
    BY <2>1, PublishKeepsRows DEF IInv
  <2>3. now' = now /\ rows' = rows /\ run' = run /\ bundles' = bundles
    BY <2>1 DEF Publish
  <2>4. now <= now'
    BY <1>1, <2>3
  <2> QED BY <1>3, <2>2, <2>3, <2>4, OtherStepsAreSound
<1>7. CASE \E d \in Days : StartWorker(d) \/ StartDiagnostic(d)
  <2>1. PICK d \in Days : StartWorker(d) \/ StartDiagnostic(d)
    BY <1>7
  <2>2. d \in Nat /\ EndOfDay(d) \in Nat
    BY Types DEF EndOfDay
  <2>3. RunIsSound' /\ UNCHANGED <<now, revisions, rows, bundles>>
    BY <2>1, <2>2, RunStarts DEF StartWorker, StartDiagnostic
  <2> QED BY <1>2, <2>3
<1>8. CASE StartLive \/ Resume
  <2>1. PICK t \in Cutoffs : \E e, steps : StartRun("live", t, Day(t), e, steps)
    BY <1>8 DEF StartLive, Resume
  <2>1a. PICK e, steps : StartRun("live", t, Day(t), e, steps)
    BY <2>1
  <2>2. Day(now) \in Nat
    BY <1>1, Calendars
  <2>3. t \in Nat
    BY <1>1, <2>2 DEF Cutoffs, EndOfDay
  <2>4. Day(t) \in Nat
    BY <2>3, Calendars
  <2>5. RunIsSound' /\ UNCHANGED <<now, revisions, rows, bundles>>
    BY <2>1a, <2>3, <2>4, RunStarts
  <2> QED BY <1>2, <2>5
<1>9. CASE Ingest
  <2>1. PICK step \in Acquisitions :
          \E records \in Answers(step, Day(now), now) : Store(records)
    BY <1>9 DEF Ingest
  <2>1a. PICK records \in Answers(step, Day(now), now) : Store(records)
    BY <2>1
  <2>2. \A k \in Keys : k \in DOMAIN records => Sound(k, records[k])
    BY <1>1, AnswersAreSound DEF IInv
  <2>3. run' = run /\ UNCHANGED <<now, revisions, bundles>>
    BY <1>9 DEF Ingest
  <2> QED BY <1>3, <1>4, <2>1a, <2>2, <2>3
<1>10. CASE Acquire
  <2>1. PICK step \in Acquisitions :
          /\ Step(step)
          /\ \E end : \E records \in Answers(step, end, run.asOf) : Store(records)
    BY <1>10 DEF Acquire
  <2>2. PICK end : \E records \in Answers(step, end, run.asOf) : Store(records)
    BY <2>1
  <2>3. PICK records \in Answers(step, end, run.asOf) : Store(records)
    BY <2>2
  <2>4. run.asOf \in Nat
    BY DEF IInv, RunIsSound
  <2>5. \A k \in Keys : k \in DOMAIN records => Sound(k, records[k])
    BY <2>4, AnswersAreSound DEF IInv
  <2>6. RunIsSound'
    BY <1>10, <2>1, RunProceeds DEF Acquire, Step, IInv
  <2>7. UNCHANGED <<now, revisions, bundles>>
    BY <1>10 DEF Acquire
  <2> QED BY <1>4, <2>3, <2>5, <2>6, <2>7
<1>11. CASE AcquisitionFails
  <2>1. RunIsSound'
    BY <1>11, RunProceeds DEF AcquisitionFails, Step, IInv
  <2>2. UNCHANGED <<now, revisions, rows, bundles>>
    BY <1>11 DEF AcquisitionFails
  <2> QED BY <1>2, <2>1, <2>2
<1>12. CASE BuildCore \/ BuildReport \/ BuildDiagnostic
  <2>1. run.todo # <<>>
    BY <1>12 DEF BuildCore, BuildReport, BuildDiagnostic, Build, Step
  <2>2. run.mode = "replay" =>
          SessionDay(run.asOf) = Day(run.asOf) /\ run.day = Day(run.asOf)
    BY <2>1, Calendars DEF IInv, RunIsSound
  <2>3. CASE BuildCore
    BY <2>2, <2>3, BuildIsSound DEF BuildCore
  <2>4. CASE BuildReport
    BY <2>2, <2>4, BuildIsSound DEF BuildReport
  <2>5. CASE BuildDiagnostic
    BY <2>2, <2>5, BuildIsSound DEF BuildDiagnostic
  <2> QED BY <1>12, <2>3, <2>4, <2>5
<1>13. CASE UNCHANGED vars
  BY <1>2, <1>3, <1>13 DEF vars
<1> QED BY <1>5, <1>6, <1>7, <1>8, <1>9, <1>10, <1>11, <1>12, <1>13 DEF Next

\* The invariant is inductive: providers, acquisitions and runs keep the rows
\* sound, and acquiring a record again can only hide it from the replays of an
\* earlier cutoff.
THEOREM IInvHolds == Spec => []IInv
<1>1. Init => IInv
  BY InitIsSound
<1>2. IInv /\ [Next]_vars => IInv'
  BY NextIsSound
<1> QED BY <1>1, <1>2, PTL DEF Spec

\* No replay bundle shows a content of a dated table that did not exist, or was
\* not in the database, at its cutoff.
THEOREM ReplaysArePointInTime == Spec => []ReplayIsPointInTime
<1>1. IInv => ReplayIsPointInTime
  BY DEF IInv
<1> QED BY <1>1, IInvHolds, PTL

\* Of two replays of one cutoff the later one shows nothing newer, and nothing
\* of which the earlier one had no trace, whatever was ingested in between.
THEOREM LaterReplaysAreNoNewer == Spec => []LaterReplayIsNoNewer
<1>1. IInv => LaterReplayIsNoNewer
  BY DEF IInv
<1> QED BY <1>1, IInvHolds, PTL

\* ResearchDataBundleService.build fails for no more than the three reasons, at
\* every cutoff and after every sequence of acquisitions.
THEOREM FailuresAreExplained == Spec => []FailureIsExplained
<1>1. IInv => FailureIsExplained
  BY SoundFailures DEF IInv
<1> QED BY <1>1, IInvHolds, PTL

\* The gates of every section admit exactly the records that
\* validate_temporal_access accepts, but for metrics without any date; a live
\* build also admits the sentiment snapshots that it refuses as future ones,
\* and nothing else.
THEOREM BuildsFollowTheContract == Spec => []AgreesWithContract
<1>1. IInv => AgreesWithContract
  BY SoundAgreement DEF IInv
<1> QED BY <1>1, IInvHolds, PTL

\* The vintage with the latest realtime_start is unique and shows the newest
\* observation of all that the cutoff admits.
THEOREM NewestVintagesWin == Spec => []NewestVintageWins
<1>1. IInv => NewestVintageWins
  BY SoundVintages DEF IInv
<1> QED BY <1>1, IInvHolds, PTL
=============================================================================
