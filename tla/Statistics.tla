----------------------------- MODULE Statistics -----------------------------
(***************************************************************************)
(* GET /api/stats: the handler that completes a request, get_stats that    *)
(* picks the rollup table to answer from, the query, and the dashboard's   *)
(* points.  Time passes between these steps, and connections end.          *)
(*                                                                         *)
(* A rollup table has a row per bucket and country of the connections that *)
(* ended in that bucket.  TimescaleDB removes buckets that are older than  *)
(* the table's retention, at some time of its own, and fills in the newest *)
(* ones some time later: a query finds what is within these two limits.    *)
(* Bytes and time spent are summed like connects and left out, and so are  *)
(* the orders in which points and countries are listed.                    *)
(***************************************************************************)
EXTENDS Integers, Sequences, FiniteSetsExt

CONSTANTS
    Conns, CountryOf,   \* connections, and the country of each
    Tiers,              \* the rollup tables, finest first: TIERS, or a small version of it
    Origin,             \* where the grid of buckets is anchored (2000-01-03)
    Week, WeeklyAfter,  \* buckets of the open-ended request, past this age
    DefaultSpan,        \* 24 hours
    Lag,                \* how far the newest buckets may trail behind
    Inputs,             \* bound: the points in time that are asked for
    MaxTime,            \* bound: the clock
    Absent, Invalid,    \* a parameter that is not there, or cannot be parsed
    OpenEnd             \* the request has no range

NoLimit == -1
Minute == 60
Hour == 60 * Minute
Day == 24 * Hour

TIERS ==
    << [width |-> Minute,     maxSpan |-> 24 * Hour, retention |-> 48 * Hour],
       [width |-> 5 * Minute, maxSpan |-> 7 * Day,   retention |-> 7 * Day],
       [width |-> Hour,       maxSpan |-> 30 * Day,  retention |-> 40 * Day],
       [width |-> Day,        maxSpan |-> NoLimit,   retention |-> NoLimit] >>

\* Finer tables have narrower buckets, shorter spans and shorter memories; the coarsest
\* one has no limits.
Graded(tiers) ==
    LET last == Len(tiers)
    IN /\ tiers \in Seq([width : Nat \ {0}, maxSpan : Nat \cup {NoLimit},
                         retention : Nat \cup {NoLimit}])
       /\ last > 0 /\ tiers[last].maxSpan = NoLimit /\ tiers[last].retention = NoLimit
       /\ \A j \in 1..last : \A i \in 1..j - 1 :
             /\ tiers[i].width < tiers[j].width
             /\ NoLimit \notin {tiers[i].maxSpan, tiers[i].retention}
             /\ tiers[j].maxSpan # NoLimit => tiers[i].maxSpan <= tiers[j].maxSpan
             /\ tiers[j].retention # NoLimit => tiers[i].retention <= tiers[j].retention

ASSUME StatisticsConstants ==
    /\ Graded(Tiers)
    /\ Origin \in Int
    /\ IsFiniteSet(Conns)
    /\ {Week, WeeklyAfter, DefaultSpan, Lag, MaxTime} \subseteq Nat
    /\ Week > 0 /\ Week % Tiers[Len(Tiers)].width = 0
    /\ Inputs \subseteq Int
    /\ Absent \notin Inputs /\ Invalid \notin Inputs
    /\ OpenEnd \notin Int

VARIABLES
    now,            \* the clock
    ended,          \* when each connection has ended
    phase,          \* how far the request is
    from, to,       \* what is asked for, or all of the time
    table, width,   \* the index of the table it is answered from, the width of a bucket
    chosenAt, queriedAt,
    rows,           \* the response
    points          \* what the chart shows

requestVars == <<phase, from, to, table, width, chosenAt, queriedAt, rows, points>>
statsVars == <<now, ended, requestVars>>

Trapped == -1
Last == Len(Tiers)

\* time_bucket, and the buckets of the chart: both are anchored at Origin.
BucketOf(t, w) == Origin + ((t - Origin) \div w) * w

\* Mutant: the grid of the chart is anchored at zero.
SnapUpFromZero(t, w) == -(((-t) \div w) * w)

SnapUp(t, w) == Origin - ((Origin - t) \div w) * w

StatsInit ==
    /\ now = 0
    /\ ended = [c \in Conns |-> Trapped]
    /\ phase = "idle"
    /\ from = OpenEnd /\ to = OpenEnd
    /\ table = Last /\ width = Tiers[Last].width
    /\ chosenAt = 0 /\ queriedAt = 0
    /\ rows = {} /\ points = << >>

-----------------------------------------------------------------------------
(* The request *)

\* stats_handler: what is missing or cannot be parsed is filled in.
Ask(fromGiven, toGiven) ==
    /\ phase \in {"idle", "shown", "refused", "failed"}
    /\ IF fromGiven = Absent /\ toGiven = Absent
       THEN from' = OpenEnd /\ to' = OpenEnd /\ phase' = "parsed"
       ELSE /\ to' = IF toGiven \in Inputs THEN toGiven ELSE now
            /\ from' = IF fromGiven \in Inputs THEN fromGiven ELSE to' - DefaultSpan
            /\ phase' = IF from' > to' THEN "refused" ELSE "parsed"
    /\ table' = Last /\ width' = Tiers[Last].width
    /\ chosenAt' = 0 /\ queriedAt' = 0
    /\ rows' = {} /\ points' = << >>
    /\ UNCHANGED <<now, ended>>

Within(x, limit) == limit = NoLimit \/ x <= limit

\* Tier::finest: the first tier that covers, the coarsest one if none does.
Finest(covering) ==
    CHOOSE i \in covering \cup {Last} : \A j \in covering \cup {Last} : i <= j

BySpan(span) == Finest({i \in 1..Last : Within(span, Tiers[i].maxSpan)})
ByRetention(age) == Finest({i \in 1..Last : Within(age, Tiers[i].retention)})

\* Mutant: the age is that of the end of the range.
ChooseTierByEnd ==
    /\ phase = "parsed" /\ from # OpenEnd
    /\ table' = IF BySpan(to - from) >= ByRetention(now - to)
                THEN BySpan(to - from) ELSE ByRetention(now - to)
    /\ width' = Tiers[table'].width
    /\ chosenAt' = now
    /\ phase' = "chosen"
    /\ UNCHANGED <<now, ended, from, to, queriedAt, rows, points>>

ChooseTier ==
    /\ phase = "parsed" /\ from # OpenEnd
    /\ table' = IF BySpan(to - from) >= ByRetention(now - from)
                THEN BySpan(to - from) ELSE ByRetention(now - from)
    /\ width' = Tiers[table'].width
    /\ chosenAt' = now
    /\ phase' = "chosen"
    /\ UNCHANGED <<now, ended, from, to, queriedAt, rows, points>>

\* The connections a table has rows of: its retention has removed the buckets up to
\* oldest, and nothing after newest is there yet.
Held(i, oldest, newest) ==
    {c \in Conns : /\ ended[c] # Trapped /\ ended[c] < newest
                   /\ BucketOf(ended[c], Tiers[i].width) + Tiers[i].width > oldest}

\* Up to where retention has removed the buckets of table i: nowhere yet, before the
\* first of them, or up to any moment that is a retention ago.
Removed(i) ==
    {BucketOf(0, Tiers[i].width)} \cup
        (IF Tiers[i].retention = NoLimit THEN {} ELSE 0..(now - Tiers[i].retention))

\* The open-ended request: weeks when the oldest day is old enough.
ChooseAll ==
    /\ phase = "parsed" /\ from = OpenEnd
    /\ \E newest \in (now - Lag)..(now + 1) :
          LET days == {BucketOf(ended[c], Tiers[Last].width) :
                          c \in Held(Last, BucketOf(0, Tiers[Last].width), newest)}
          IN width' = IF days # {} /\ now - Min(days) > WeeklyAfter
                      THEN Week ELSE Tiers[Last].width
    /\ table' = Last
    /\ chosenAt' = now
    /\ phase' = "chosen"
    /\ UNCHANGED <<now, ended, from, to, queriedAt, rows, points>>

\* The rows of these connections, in buckets of the table, then of the response.
RowBucket(c) == BucketOf(BucketOf(ended[c], Tiers[table].width), width)

RowsOf(conns) ==
    {[bucket |-> RowBucket(c), country |-> CountryOf[c],
      connects |-> Cardinality({d \in conns : /\ RowBucket(d) = RowBucket(c)
                                              /\ CountryOf[d] = CountryOf[c]})] :
        c \in conns}

\* Mutants: the bucket that begins at the end of the range is included; the first bucket is not.
AskedThroughEnd(c) == from = OpenEnd \/ (from <= RowBucket(c) /\ RowBucket(c) <= to)
AskedAfterStart(c) == from = OpenEnd \/ (from < RowBucket(c) /\ RowBucket(c) < to)

Asked(c) == from = OpenEnd \/ (from <= RowBucket(c) /\ RowBucket(c) < to)

Query ==
    /\ phase = "chosen"
    /\ \E oldest \in Removed(table), newest \in (now - Lag)..(now + 1) :
          rows' = RowsOf({c \in Held(table, oldest, newest) : Asked(c)})
    /\ queriedAt' = now
    /\ phase' = "answered"
    /\ UNCHANGED <<now, ended, from, to, table, width, chosenAt, points>>

QueryFails ==
    /\ phase \in {"parsed", "chosen"}
    /\ phase' = "failed"
    /\ UNCHANGED <<now, ended, from, to, table, width, chosenAt, queriedAt, rows, points>>

-----------------------------------------------------------------------------
(* The dashboard *)

Connects(someRows) == SumFunction([r \in someRows |-> r.connects])

\* The buckets of [start, end), those of the rows among them or not.
Grid(start, end) ==
    {t \in SnapUp(start, width)..(end - 1) : (t - SnapUp(start, width)) % width = 0}

\* aggregate: a point for each bucket that has rows, and for the empty ones of the range.
Aggregate(start, end) ==
    [b \in {r.bucket : r \in rows} \cup Grid(start, end) |->
        Connects({r \in rows : r.bucket = b})]

\* topCountries, before it is sorted and cut off.
CountryTotals ==
    [k \in {r.country : r \in rows} |-> Connects({r \in rows : r.country = k})]

\* fetchStats: an open-ended answer spans its first row to now.
FirstShown ==
    IF from # OpenEnd THEN from
    ELSE IF rows = {} THEN now
    ELSE Min({r.bucket : r \in rows})

LastShown == IF to = OpenEnd THEN now ELSE to

Show ==
    /\ phase = "answered"
    /\ points' = Aggregate(FirstShown, LastShown)
    /\ phase' = "shown"
    /\ UNCHANGED <<now, ended, from, to, table, width, chosenAt, queriedAt, rows>>

-----------------------------------------------------------------------------
(* The world *)

ConnectionEnds(c) ==
    /\ ended[c] = Trapped
    /\ ended' = [ended EXCEPT ![c] = now]
    /\ UNCHANGED <<now, requestVars>>

Tick ==
    /\ now < MaxTime
    /\ now' = now + 1
    /\ UNCHANGED <<ended, requestVars>>

Given == Inputs \cup {Absent, Invalid}

StatsNext ==
    \/ \E f, t \in Given : Ask(f, t)
    \/ ChooseTier \/ ChooseAll \/ Query \/ QueryFails \/ Show
    \/ \E c \in Conns : ConnectionEnds(c)
    \/ Tick

StatsSpec == StatsInit /\ [][StatsNext]_statsVars

-----------------------------------------------------------------------------
(* Properties *)

Ranged == from # OpenEnd /\ phase \in {"chosen", "answered", "shown"}

\* Every variable has its type; a range that is served ends where it begins or later.
StatsTypeOK ==
    /\ now \in 0..MaxTime
    /\ ended \in [Conns -> 0..MaxTime \cup {Trapped}]
    /\ phase \in {"idle", "parsed", "refused", "chosen", "answered", "shown", "failed"}
    /\ {from, to} \subseteq Int \cup {OpenEnd} /\ (from = OpenEnd <=> to = OpenEnd)
    /\ phase \notin {"refused", "failed"} /\ from # OpenEnd => from <= to
    /\ table \in 1..Last
    /\ width \in {Tiers[table].width, Week}
    /\ chosenAt \in 0..MaxTime /\ queriedAt \in 0..MaxTime

\* The table reaches over the whole range and back to its beginning, at the exact limits
\* too, and no finer one does (db.rs:288, "Pick the finest tier whose retention still
\* covers `from`, coarsened by span").
TierCovers ==
    Ranged =>
        LET Covers(i) == /\ Within(to - from, Tiers[i].maxSpan)
                         /\ Within(chosenAt - from, Tiers[i].retention)
        IN Covers(table) /\ \A i \in 1..table - 1 : ~Covers(i)

\* The query runs soon enough after the choice.
InTime == Tiers[table].retention = NoLimit \/ queriedAt - chosenAt < width

\* The connections that ended in a bucket of the range.
EndedIn(until) ==
    {c \in Conns : /\ ended[c] # Trapped /\ ended[c] < until
                   /\ \/ from = OpenEnd
                      \/ /\ SnapUp(from, width) <= ended[c]
                         /\ ended[c] < SnapUp(to, width)}

\* A query that runs within a bucket's width of the choice finds everything that ended in
\* a bucket of the range, whatever has been removed meanwhile, and the chart counts it
\* once, like the list of countries (db.rs:301-304; stats-buckets.ts:29, 58).
AnswerIsComplete ==
    phase = "shown" =>
        LET charted == SumFunction(points)
            listed == SumFunction(CountryTotals)
        IN /\ InTime => Cardinality(EndedIn(queriedAt - Lag)) <= charted
           /\ charted <= Cardinality(EndedIn(queriedAt + 1))
           /\ listed = charted

\* The chart has a point for each bucket that begins in its range and for no other
\* moment, weekly buckets included (stats-buckets.ts:16-17, "Every narrower width divides
\* a day evenly, so only the weekly grid depends on the anchor"; 92).
PointsAreTheGrid ==
    phase = "shown" =>
        /\ from # OpenEnd => DOMAIN points = {t \in from..(to - 1) : (t - Origin) % width = 0}
        /\ \A a, b \in DOMAIN points : (a - b) % width = 0
=============================================================================
