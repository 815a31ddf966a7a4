------------------------------ MODULE History ------------------------------
(***************************************************************************)
(* What is read back from the events table: the CSV download and the       *)
(* Events page, which page through it (web/routes/events.py, pages.py),    *)
(* and the Reports page, which reads it three times (web/reports.py), all  *)
(* by storage/repositories.py, while capture threads add rows and purges   *)
(* remove them.                                                            *)
(*                                                                         *)
(* Timestamps are naive UTC; reports speak of local days and hours         *)
(* (localtime.py).  Time is counted in ticks, Day of them a day; zone[t]   *)
(* is the offset of local time at t, and may change with t as clocks are   *)
(* put forward or back.                                                    *)
(***************************************************************************)
EXTENDS Integers, Sequences, FiniteSetsExt

CONSTANTS
    Day,            \* ticks in a day
    Begin,          \* the clock at the start: zones are known from 0
    MaxClock,       \* bound: the last tick
    MaxRows,        \* bound: rows inserted in one behaviour
    Zones,          \* the local times considered: functions from ticks
    Filters,        \* the filters considered
    Span,           \* Span[w]: the length of window w, "7d" or "30d"
    CsvPage,        \* limit of a query of the download (500)
    ScrollPage      \* limit of a query of the Events page (24)

Times == 0..MaxClock
Direction == {"L2R", "R2L"}
Filter == [start : Int, end : Int, dirs : SUBSET Direction]

ASSUME DayAssumption == Day \in Nat \ {0}
ASSUME ClockAssumption == MaxClock \in Nat /\ Begin \in 1..MaxClock
ASSUME RowsAssumption == MaxRows \in Nat
ASSUME PageAssumption == CsvPage \in Nat \ {0} /\ ScrollPage \in Nat \ {0}
ASSUME FiltersAssumption == Filters \subseteq Filter
ASSUME SpanAssumption == Span \in [{"7d", "30d"} -> Nat]
\* The offset is known back to the midnight before the start.
ASSUME ZonesAssumption == \A z \in Zones :
    /\ z \in [Times -> Int]
    /\ \A t \in Begin..MaxClock : z[0] <= t + z[t] - ((t + z[t]) % Day)
\* The clocks are changed once at most (they are twice a year), are not put
\* back into the day before, and are put forward over a midnight only at it.
ASSUME ChangeAssumption == \A z \in Zones :
    /\ \E at \in Times : \A t \in Times :
         z[t] = IF t < at THEN z[0] ELSE z[MaxClock]
    /\ \A t \in 1..MaxClock :
         /\ (t - 1 + z[t - 1]) \div Day <= (t + z[t]) \div Day
         /\ \A w \in (t + z[t - 1] + 1)..(t + z[t] - 1) : w % Day # 0

VARIABLES
    clock,          \* now_utc()
    rows,           \* the committed rows of the events table
    zone,           \* server.timezone
    task,           \* what the reader is doing
    filter,         \* EventFilter of the listing
    cursor,         \* no row, or the last one listed
    out,            \* the pages listed so far, each newest first
    report,         \* what build_context has computed so far
    taken,          \* history: rows inserted so far
    kept,           \* history: rows that have been there since the reader began
    met             \* history: rows that have been there at all since

table == <<clock, rows, taken>>
reader == <<task, filter, cursor, out, report>>
seen == <<kept, met>>
vars == <<clock, rows, zone, task, filter, cursor, out, report, taken, kept, met>>

\* n is history: it tells events apart, whatever their ids.
Row == [n : Nat, id : Nat, ts : Int, dir : Direction]
NoFilter == [start |-> 0, end |-> MaxClock, dirs |-> Direction]
Window == {"today", "7d", "30d", "all"}
Listing == {"csv", "scroll"}

---------------------------------------------------------------------------
(* localtime.py, and the rules of datetime it rests on.                    *)

\* to_local(t, tz)
Local(t) == t + zone[t]
Date(t) == Local(t) \div Day
Hour(t) == Local(t) % Day
UtcHour(t) == t % Day
\* fold = 1: the clocks have been put back, and showed this time before.
Fold(t) == \E u \in DOMAIN zone : u < t /\ Local(u) = Local(t)
\* astimezone(UTC) of the local time w: of a time shown twice the fold tells
\* which; of a time that was skipped, what offset to subtract.
Utc(w, fold) ==
    LET shown == {t \in DOMAIN zone : Local(t) = w}
        jump == Min({t \in DOMAIN zone : Local(t) > w})
    IN  IF shown # {} THEN IF fold THEN Max(shown) ELSE Min(shown)
        ELSE w - zone[IF fold THEN jump ELSE jump - 1]

---------------------------------------------------------------------------
(* The table.                                                              *)

NextId == 1 + Max({r.id : r \in rows} \cup {0})

\* A track's time is taken before its row is inserted.
Insert(dir) == \E ts \in {clock - 1, clock} :
    LET r == [n |-> taken + 1, id |-> NextId, ts |-> ts, dir |-> dir]
    IN  /\ taken < MaxRows
        /\ taken' = taken + 1
        /\ rows' = rows \cup {r}
        /\ met' = IF task = "none" THEN met ELSE met \cup {r}
        /\ UNCHANGED <<clock, zone, reader, kept>>

\* EventRepo.delete_older_than, of a purge that runs alone.
Purge == \E days \in 1..(MaxClock \div Day) :
    /\ rows' = {r \in rows : r.ts >= clock - days * Day}
    /\ rows' # rows
    /\ kept' = kept \cap rows'
    /\ UNCHANGED <<clock, zone, reader, taken, met>>

Tick ==
    /\ clock < MaxClock
    /\ clock' = clock + 1
    /\ UNCHANGED <<rows, zone, reader, taken, seen>>

---------------------------------------------------------------------------
(* Listings.  EventRepo.query: newest first, after the cursor.             *)

Newer(a, b) == a.ts > b.ts \/ (a.ts = b.ts /\ a.id > b.id)
Matches(f, r) == f.start <= r.ts /\ r.ts <= f.end /\ r.dir \in f.dirs
\* Or by the time alone.
PastTime(c, r) == r.ts < c.ts
Past(c, r) == Newer(c, r)

Query(f, cur, limit) ==
    LET found == {r \in rows : Matches(f, r) /\ \A c \in cur : Past(c, r)}
    IN  {r \in found : Cardinality({q \in found : Newer(q, r)}) < limit}

StartListing(how) == \E f \in Filters :
    /\ task = "none"
    /\ task' = how /\ filter' = f
    /\ cursor' = {} /\ out' = << >>
    /\ kept' = rows /\ met' = rows
    /\ UNCHANGED <<table, zone, report>>

\* One page, and where the next begins: after its last row.
Listed(page) ==
    /\ out' = Append(out, page)
    /\ cursor' = {r \in page : \A q \in page : ~Newer(r, q)}

\* api_events_csv: until a page is empty.
CsvPageRead ==
    LET page == Query(filter, cursor, CsvPage)
    IN  /\ task = "csv"
        /\ IF page = {} THEN task' = "listed" /\ UNCHANGED <<out, cursor>>
           ELSE Listed(page) /\ UNCHANGED task
        /\ UNCHANGED <<table, zone, filter, report, seen>>

\* events_page and api_events: until a page is not full, which has no
\* "Load more".
ScrollPageRead ==
    LET page == Query(filter, cursor, ScrollPage)
    IN  /\ task = "scroll"
        /\ Listed(page)
        /\ task' = IF Cardinality(page) = ScrollPage THEN "scroll" ELSE "listed"
        /\ UNCHANGED <<table, zone, filter, report, seen>>

---------------------------------------------------------------------------
(* Reports.  build_context: the start of the window is computed once, then *)
(* the rows since then are read for the summary, the hours and the days.   *)

\* window_start; no time for "all".  Or UTC's midnight.
UtcWindowStart(window, now) ==
    CASE window = "all" -> {}
      [] window = "today" -> {now - UtcHour(now)}
      [] OTHER -> {now - Span[window]}
WindowStart(window, now) ==
    CASE window = "all" -> {}
      [] window = "today" -> {Utc(Local(now) - Hour(now), Fold(now))}
      [] OTHER -> {now - Span[window]}

InHour(S, h) == {r \in S : Hour(r.ts) = h}
InDay(S, d) == {r \in S : Date(r.ts) = d}
RowsSince(start) == {r \in rows : \A s \in start : r.ts >= s}

NoReport == [window |-> "all", now |-> 0, start |-> {}, pairs |-> {},
             hours |-> << >>, trend |-> << >>]

StartReport(window) ==
    /\ task = "none"
    /\ task' = "pairs"
    /\ report' = [NoReport EXCEPT !.window = window, !.now = clock,
                                  !.start = WindowStart(window, clock)]
    /\ kept' = rows /\ met' = rows
    /\ UNCHANGED <<table, zone, filter, cursor, out>>

\* speed_dirs_since: the pairs that summary, histogram and directions use.
ReadPairs ==
    /\ task = "pairs"
    /\ report' = [report EXCEPT !.pairs = RowsSince(report.start)]
    /\ task' = "hours"
    /\ UNCHANGED <<table, zone, filter, cursor, out, seen>>

\* by_hour; or of a window whose start each query computes for itself.
HourCounts(S) == [h \in 0..(Day - 1) |-> Cardinality(InHour(S, h))]
ReadHoursAnew ==
    LET since == RowsSince(WindowStart(report.window, clock))
    IN  /\ task = "hours"
        /\ report' = [report EXCEPT !.hours = HourCounts(since)]
        /\ task' = "days"
        /\ UNCHANGED <<table, zone, filter, cursor, out, seen>>
ReadHours ==
    /\ task = "hours"
    /\ report' = [report EXCEPT !.hours = HourCounts(RowsSince(report.start))]
    /\ task' = "days"
    /\ UNCHANGED <<table, zone, filter, cursor, out, seen>>

\* _fill_daily of daily_counts: a day of the window without events counts 0.
\* The first day is the UTC date of the start.  Or only the days with events.
TrendOfDays(S, start, today) ==
    [d \in {Date(r.ts) : r \in S} |-> Cardinality(InDay(S, d))]
Trend(S, start, today) ==
    LET first == {s \div Day : s \in start}
        days == IF start = {} THEN {Date(r.ts) : r \in S} ELSE first
    IN  IF days = {} THEN << >>
        ELSE [d \in Min(days)..today |-> Cardinality(InDay(S, d))]
ReadDays ==
    /\ task = "days"
    /\ report' = [report EXCEPT
         !.trend = Trend(RowsSince(report.start), report.start, Date(report.now))]
    /\ task' = "reported"
    /\ UNCHANGED <<table, zone, filter, cursor, out, seen>>

\* The response is sent, and the reader may ask for something else.
Answer ==
    /\ task \in {"listed", "reported"}
    /\ task' = "none"
    /\ filter' = NoFilter /\ cursor' = {} /\ out' = << >> /\ report' = NoReport
    /\ kept' = {} /\ met' = {}
    /\ UNCHANGED <<table, zone>>

---------------------------------------------------------------------------
Init ==
    /\ clock = Begin /\ rows = {} /\ taken = 0
    /\ zone \in Zones
    /\ task = "none" /\ filter = NoFilter
    /\ cursor = {} /\ out = << >> /\ report = NoReport
    /\ kept = {} /\ met = {}

Next ==
    \/ \E dir \in Direction : Insert(dir)
    \/ Purge \/ Tick
    \/ \E how \in Listing : StartListing(how)
    \/ CsvPageRead \/ ScrollPageRead
    \/ \E window \in Window : StartReport(window)
    \/ ReadPairs \/ ReadHours \/ ReadDays
    \/ Answer

Spec == Init /\ [][Next]_vars

---------------------------------------------------------------------------
(* Properties.                                                             *)

TypeOK ==
    /\ clock \in Nat /\ taken \in Nat /\ rows \subseteq Row
    /\ zone \in Zones
    /\ task \in {"none", "csv", "scroll", "listed", "pairs", "hours", "days", "reported"}
    /\ filter \in Filter
    /\ cursor \subseteq Row
    /\ out \in Seq(SUBSET Row)
    /\ report.window \in Window /\ report.now \in Nat
    /\ report.start \subseteq Int
    /\ report.pairs \subseteq Row
    /\ \A h \in DOMAIN report.hours : h \in 0..(Day - 1) /\ report.hours[h] \in Nat
    /\ \A d \in DOMAIN report.trend : d \in Int /\ report.trend[d] \in Nat
    /\ kept \subseteq Row /\ met \subseteq Row

\* "Newest-first, keyset-paginated" (EventRepo.query): however rows come and
\* go between the pages, no page has a row that is as new as one of a page
\* before, every row listed is one the filter asks for, and when the listing
\* ends it has every such row that was there all the time.
ListingExact ==
    /\ \A i, j \in DOMAIN out :
         i < j => \A r \in out[i], q \in out[j] : Newer(r, q)
    /\ \A i \in DOMAIN out : \A r \in out[i] : r \in met /\ Matches(filter, r)
    /\ task = "listed" =>
         \A r \in kept : Matches(filter, r) => \E i \in DOMAIN out : r \in out[i]

\* Of a time that is shown twice, the first midnight of a day.
FirstMidnight(t) == Local(t) - Hour(t)
TwoMidnights(t) == \E u, v \in DOMAIN zone :
    u # v /\ Local(u) = FirstMidnight(t) /\ Local(v) = FirstMidnight(t)

\* The report of "today" is about the local day: whatever the clocks do, it
\* counts no event of another day up to now and misses none of today, but for
\* the hour after a midnight that the clocks show twice: when they show it for
\* the second time, replace(hour=0) keeps the fold and finds the second.
TodayIsToday ==
    (report.window = "today" /\ task \in {"hours", "days", "reported"}) =>
        /\ \A r \in report.pairs : r.ts <= report.now =>
             Date(r.ts) = Date(report.now)
        /\ ~(Fold(report.now) /\ TwoMidnights(report.now)) =>
             \A r \in kept : Date(r.ts) = Date(report.now) => r \in report.pairs

\* Each part of a report is read by a query of its own (reports.py:88-89), so
\* the parts need not agree: of an hour or a day they may count more events than
\* the summary, or fewer.  But only by events of that hour or day that came or
\* went while the report was being made; if none did, the parts agree exactly.
InWindow(S) == {r \in S : \A s \in report.start : r.ts >= s}
Drifts(n, counted, came, went) ==
    /\ n - Cardinality(counted) <= Cardinality(came)
    /\ Cardinality(counted) - n <= Cardinality(went)
DriftIsExplained ==
    LET came == InWindow(met \ kept) \ report.pairs
        went == report.pairs \ kept
    IN  task = "reported" =>
          /\ \A h \in DOMAIN report.hours :
               Drifts(report.hours[h], InHour(report.pairs, h),
                      InHour(came, h), InHour(went, h))
          /\ \A d \in DOMAIN report.trend :
               Drifts(report.trend[d], InDay(report.pairs, d),
                      InDay(came, d), InDay(went, d))

\* Why: every part counts all that was there all the time, and nothing that was
\* never there.
Between(n, least, most) == Cardinality(least) <= n /\ n <= Cardinality(most)
PartsBetween ==
    LET always == InWindow(kept)
        ever == InWindow(met)
    IN  /\ task \in {"hours", "days", "reported"} =>
             always \subseteq report.pairs /\ report.pairs \subseteq ever
        /\ \A h \in DOMAIN report.hours :
             Between(report.hours[h], InHour(always, h), InHour(ever, h))
        /\ \A d \in DOMAIN report.trend :
             Between(report.trend[d], InDay(always, d), InDay(ever, d))

\* "One entry per calendar day across the window" (_fill_daily): the days of
\* the trend have no gap and end today, and what the summary counts up to now
\* is in one of them, but for a first day that is yesterday's in UTC.
TrendCovers ==
    task = "reported" =>
        LET days == DOMAIN report.trend
            today == Date(report.now)
            InTime == {r \in InWindow(kept) : Date(r.ts) <= today}
        IN  /\ \A d \in days : d..today \subseteq days
            /\ \A r \in InTime :
                 Date(r.ts) \in days
                 \/ \E s \in report.start : Date(r.ts) < s \div Day
=============================================================================
