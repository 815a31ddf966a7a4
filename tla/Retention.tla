----------------------------- MODULE Retention -----------------------------
(***************************************************************************)
(* RetentionSweeper (storage/retention.py): a sweep deletes the oldest     *)
(* events, rows and pictures, until no day has more than MaxPerDay events  *)
(* and the pictures take no more room than DiskCap.  It runs next to       *)
(* capture threads and purges, which here act in one step each: EventStore *)
(* has them in detail, with the same rules for ids, paths and write lock.  *)
(***************************************************************************)
EXTENDS Integers, FiniteSetsExt

CONSTANTS
    Day,            \* ticks of the clock in a day
    MaxPerDay,      \* max_events_per_day
    DiskCap,        \* max_total_disk_mb, as a number of pictures
    MaxClock,       \* bound: ticks in one behaviour
    MaxEvents,      \* bound: events in one behaviour
    MaxSweeps       \* bound: sweeps in one behaviour

ASSUME DayAssumption == Day \in Nat \ {0}
ASSUME CapAssumption == MaxPerDay \in Nat /\ DiskCap \in Nat
ASSUME BoundsAssumption == {MaxClock, MaxEvents, MaxSweeps} \subseteq Nat

VARIABLES
    clock,          \* now_utc()
    rows,           \* the committed rows of the events table
    disk,           \* the files under the media root
    locked,         \* the sweeper's transaction has written
    pc,             \* where the sweeper is
    days,           \* the days over the cap that it has still to visit
    victims,        \* of the day being visited, or the oldest event
    doomed,         \* rows marked by s.delete and not committed
    kept,           \* a file of the victim could not be unlinked
    taken,          \* history: events so far
    sweeps,         \* history: sweeps so far
    stripped,       \* history: rows whose pictures the sweeper went for
    swept,          \* history: what the current sweep deleted
    alone           \* history: nothing failed and nobody else did anything
                    \* since this sweep began

table == <<clock, rows, disk, taken>>
sweep == <<locked, pc, days, victims, doomed, kept>>
past == <<sweeps, stripped, swept, alone>>
vars == <<clock, rows, disk, locked, pc, days, victims, doomed, kept, taken,
          sweeps, stripped, swept, alone>>

\* n is history: it tells events apart, whatever their ids.
Row == [n : Nat, id : Nat, ts : Nat]
\* A row that a sweep deleted, and the event it had marked: the DELETE goes by id.
Deletion == [marked : Row, row : Row]
Kind == {"full", "thumb"}
MediaFile == [day : Nat, id : Nat, kind : Kind, n : Nat]
DayOf(ts) == ts \div Day
File(r, kind) == [day |-> DayOf(r.ts), id |-> r.id, kind |-> kind, n |-> r.n]
Files(r) == {File(r, kind) : kind \in Kind}
\* What unlink(image_path or thumb_path) removes; or with no date in the path.
AtAnyDay(r, kind) == {f \in disk : f.id = r.id /\ f.kind = kind}
At(r, kind) == {f \in disk : f.day = DayOf(r.ts) /\ f.id = r.id /\ f.kind = kind}
OfDay(d) == {r \in rows : DayOf(r.ts) = d}
Newest(S) == Max({r.id : r \in S} \cup {0})

Init ==
    /\ clock = 0 /\ rows = {} /\ disk = {} /\ taken = 0
    /\ locked = FALSE /\ pc = "idle"
    /\ days = {} /\ victims = {} /\ doomed = {} /\ kept = FALSE
    /\ sweeps = 0 /\ stripped = {} /\ swept = {} /\ alone = FALSE

---------------------------------------------------------------------------
(* The others.                                                             *)

Tick ==
    /\ clock < MaxClock
    /\ clock' = clock + 1
    /\ UNCHANGED <<rows, disk, taken, sweep, past>>

\* _persist_track: a row and its pictures, or after a rollback the pictures.
Record ==
    LET r == [n |-> taken + 1, id |-> 1 + Newest(rows), ts |-> clock]
        over == UNION {At(r, kind) : kind \in Kind}
    IN  /\ taken < MaxEvents /\ ~locked
        /\ taken' = taken + 1
        /\ disk' = (disk \ over) \cup Files(r)
        /\ rows' = rows \cup {r} \/ UNCHANGED rows
        /\ alone' = FALSE
        /\ UNCHANGED <<clock, sweep, sweeps, stripped, swept>>

\* delete_older_than: the rows and their pictures; purge_events of days ago.
PurgeRows(old) ==
    /\ ~locked /\ old # {}
    /\ rows' = rows \ old
    /\ disk' = disk \ UNION {At(r, kind) : r \in old, kind \in Kind}
    /\ alone' = FALSE
    /\ UNCHANGED <<clock, taken, sweep, sweeps, stripped, swept>>
Purge == \E back \in 1..(MaxClock \div Day) :
    PurgeRows({r \in rows : r.ts < clock - back * Day})

---------------------------------------------------------------------------
(* How a sweep goes on and ends.                                           *)

\* An exception: the session rolls back, the sweep is over.
Fail ==
    /\ pc' = "idle" /\ locked' = FALSE
    /\ days' = {} /\ victims' = {} /\ doomed' = {} /\ kept' = FALSE
    /\ alone' = FALSE
    /\ UNCHANGED <<table, sweeps, stripped, swept>>

\* DELETE ... WHERE id = ? of what is marked.
Hit == {r \in rows : \E v \in doomed : v.id = r.id}

\* The process is killed; or the sweeper's commit or flush is "locked" out by
\* a transaction that lasts.
Crash == pc # "idle" /\ Fail
LockTimesOut ==
    /\ pc \in {"days", "deleteOldest"} /\ doomed # {} /\ ~locked
    /\ Fail

\* p.unlink of both files; each may raise OSError and stay.  The event is
\* marked when both are gone; or whatever happened.
DeleteFilesAlways(r) == \E stay \in SUBSET {k \in Kind : At(r, k) # {}} :
    /\ disk' = disk \ UNION {At(r, k) : k \in Kind \ stay}
    /\ kept' = (stay # {})
    /\ doomed' = doomed \cup {r}
    /\ stripped' = stripped \cup {r}
    /\ alone' = (alone /\ stay = {})
DeleteFiles(r) == \E stay \in SUBSET {k \in Kind : At(r, k) # {}} :
    /\ disk' = disk \ UNION {At(r, k) : k \in Kind \ stay}
    /\ kept' = (stay # {})
    /\ doomed' = IF stay = {} THEN doomed \cup {r} ELSE doomed
    /\ stripped' = stripped \cup {r}
    /\ alone' = (alone /\ stay = {})

Commit ==
    /\ rows' = rows \ Hit
    /\ swept' = swept \cup {d \in [marked : doomed, row : rows] : d.marked.id = d.row.id}
    /\ doomed' = {} /\ locked' = FALSE

---------------------------------------------------------------------------
(* _enforce_per_day_cap.                                                   *)

\* GROUP BY day HAVING count > max_events_per_day
OverCap == {d \in {DayOf(r.ts) : r \in rows} : Cardinality(OfDay(d)) > MaxPerDay}
StartSweep ==
    /\ pc = "idle" /\ sweeps < MaxSweeps
    /\ sweeps' = sweeps + 1
    /\ days' = OverCap
    /\ pc' = "days"
    /\ swept' = {} /\ alone' = TRUE
    /\ UNCHANGED <<table, locked, victims, doomed, kept, stripped>>

\* order_by(ts_utc.asc()): the n oldest of S, or the newest.
Before(q, r) == q.ts < r.ts \/ (q.ts = r.ts /\ q.id < r.id)
Oldest(S, n) == {r \in S : Cardinality({q \in S : Before(q, r)}) < n}
Latest(S, n) == {r \in S : Cardinality({q \in S : Before(r, q)}) < n}

\* victims[: len(victims) - max_per_day]: a negative bound counts from the end.
Bound(S) ==
    LET bound == Cardinality(S) - MaxPerDay
    IN  IF bound < 0 THEN Cardinality(S) + bound ELSE bound
SliceLatest(S) == Latest(S, Bound(S))
Slice(S) == Oldest(S, Bound(S))

\* The query for the next day's events first flushes the deletes so far, which
\* takes the write lock until the commit.
VisitDay == \E d \in days :
    LET flushed == rows \ Hit
    IN  /\ pc = "days"
        /\ days' = days \ {d}
        /\ victims' = Slice({r \in flushed : DayOf(r.ts) = d})
        /\ locked' = (locked \/ doomed # {})
        /\ pc' = "victims"
        /\ UNCHANGED <<table, doomed, kept, past>>

DeleteVictim == \E r \in Oldest(victims, 1) :
    /\ pc = "victims"
    /\ DeleteFiles(r)
    /\ victims' = victims \ {r}
    /\ UNCHANGED <<clock, rows, taken, locked, pc, days, sweeps, swept>>

DayDone ==
    /\ pc = "victims" /\ victims = {}
    /\ pc' = "days"
    /\ UNCHANGED <<table, locked, days, victims, doomed, kept, past>>

CommitDays ==
    /\ pc = "days" /\ days = {}
    /\ Commit
    /\ pc' = "total"
    /\ UNCHANGED <<clock, disk, taken, days, victims, kept, sweeps, stripped, alone>>

---------------------------------------------------------------------------
(* _enforce_disk_cap: until there is room, or no event, or an event whose  *)
(* files stay.                                                             *)

\* _total_media_bytes counts every file, also those without a row.
MeasureDisk ==
    /\ pc = "total"
    /\ pc' = IF Cardinality(disk) <= DiskCap THEN "done" ELSE "oldest"
    /\ UNCHANGED <<table, locked, days, victims, doomed, kept, past>>
\* A file that a purge unlinks between is_file() and stat() raises.
MeasureDiskFails == pc = "total" /\ disk # {} /\ Fail

PickOldest ==
    /\ pc = "oldest"
    /\ victims' = Oldest(rows, 1)
    /\ pc' = IF rows = {} THEN "done" ELSE "unlinkOldest"
    /\ UNCHANGED <<table, locked, days, doomed, kept, past>>

UnlinkOldest == \E r \in victims :
    /\ pc = "unlinkOldest"
    /\ DeleteFiles(r)
    /\ victims' = {}
    /\ pc' = "deleteOldest"
    /\ UNCHANGED <<clock, rows, taken, locked, days, sweeps, swept>>

\* "Abort so we don't infinite-loop on the same event"; or try again.
Retry ==
    /\ pc = "deleteOldest" /\ kept
    /\ pc' = "total"
    /\ kept' = FALSE
    /\ UNCHANGED <<table, locked, days, victims, doomed, past>>
Abort ==
    /\ pc = "deleteOldest" /\ kept
    /\ pc' = "done"
    /\ UNCHANGED <<table, locked, days, victims, doomed, kept, past>>

DeleteOldest ==
    /\ pc = "deleteOldest" /\ ~kept
    /\ Commit
    /\ pc' = "total"
    /\ UNCHANGED <<clock, disk, taken, days, victims, kept, sweeps, stripped, alone>>

\* sweep() returns the number of events deleted.
Return ==
    /\ pc = "done"
    /\ pc' = "idle"
    /\ victims' = {} /\ kept' = FALSE
    /\ UNCHANGED <<table, locked, days, doomed, past>>

Sweep ==
    \/ VisitDay \/ DeleteVictim \/ DayDone \/ CommitDays
    \/ MeasureDisk \/ PickOldest \/ UnlinkOldest \/ Abort \/ DeleteOldest \/ Return
Trouble == LockTimesOut \/ MeasureDiskFails \/ Crash

Next == Tick \/ Record \/ Purge \/ StartSweep \/ Sweep \/ Trouble

Spec == Init /\ [][Next]_vars
\* A sweep that has begun goes on.
FairSpec == Spec /\ WF_vars(Sweep)

---------------------------------------------------------------------------
(* Properties.                                                             *)

TypeOK ==
    /\ clock \in Nat /\ taken \in Nat /\ sweeps \in Nat
    /\ rows \subseteq Row
    /\ disk \subseteq MediaFile
    /\ pc \in {"idle", "days", "victims", "total", "oldest", "unlinkOldest",
               "deleteOldest", "done"}
    /\ days \subseteq Nat /\ victims \subseteq Row
    /\ doomed \subseteq Row /\ stripped \subseteq Row /\ swept \subseteq Deletion
    /\ locked \in BOOLEAN /\ kept \in BOOLEAN /\ alone \in BOOLEAN

\* An event that a sweep marked and deleted has left no picture.  And if it
\* deleted another than it had marked, by the id, then one more than a day
\* younger: a purge had taken the marked one, which only then freed its id.
OrphansExplained == \A d \in swept :
    /\ d.row = d.marked => \A f \in disk : f.n # d.row.n
    /\ d.row # d.marked => d.marked.ts + Day < d.row.ts

\* A row without its pictures is one that a sweep meant to delete: a failed
\* commit or a crash strips no other, nor does a path that is used again.
OnlyVictimsStripped ==
    \A r \in rows : Files(r) \subseteq disk \/ r \in stripped

\* A sweep that nobody disturbs and in which nothing fails leaves both caps
\* kept, or no events at all; and of a day it deletes the oldest.
CapsHold ==
    (pc = "done" /\ alone) =>
        /\ \A r \in rows : Cardinality(OfDay(DayOf(r.ts))) <= MaxPerDay
        /\ rows = {} \/ Cardinality(disk) <= DiskCap
        /\ \A r \in rows, d \in swept :
             DayOf(r.ts) = DayOf(d.row.ts) => d.row.ts <= r.ts

\* Every sweep ends: the disk cap cannot loop on an event that it cannot
\* delete, nor on files that belong to no event.
SweepEnds == pc # "idle" ~> pc = "idle"

---------------------------------------------------------------------------
(* What the documents say and the code does not do (see README.md).        *)

\* "The sweeper deletes the DB row AND the JPEG + thumbnail" (retention.py:7), and
\* keeps the row when a file stays "so the file is not orphaned" (63): of what a
\* sweep deleted no picture is left.  One is left of an event that it deleted
\* without having marked it.
NoOrphans == \A d \in swept : \A f \in disk : f.n # d.row.n

\* "no-op if everything is under cap" (retention.py:8): of a day with no more
\* than MaxPerDay events the day's cap deletes none.  It does, when a purge has
\* thinned the day out since it was counted: the slice's bound is negative then.
SparesDaysUnderCap ==
    [][\A d \in days \ days' :
         Cardinality({r \in rows \ Hit : DayOf(r.ts) = d}) <= MaxPerDay
           => victims' = {}]_vars
=============================================================================
