----------------------------- MODULE EventStore -----------------------------
(***************************************************************************)
(* Speed events at rest: the rows of the events table and the two JPEGs of *)
(* each (storage/models.py, repositories.py, media.py).  Capture threads   *)
(* persist finalised tracks (pipeline/runner.py); the privacy button       *)
(* purges old events from a threadpool thread (web/routes/settings.py).    *)
(*                                                                         *)
(* SQLite lets one connection write at a time: a transaction that has      *)
(* written holds `writer` until it ends, another waits for it and gives up *)
(* after five seconds.  Reads never wait (WAL).  The id of a new row is    *)
(* one more than the largest in the table, so ids are used again; the      *)
(* files of an event are named by its id and its UTC date.                 *)
(***************************************************************************)
EXTENDS Integers, FiniteSetsExt

CONSTANTS
    Writers,        \* capture threads
    Purges,         \* purge requests
    Nobody,         \* no holder of the write lock
    Broken,         \* content of a file that imwrite could not finish
    Day,            \* ticks of the clock in a day
    MaxClock,       \* bound: ticks in one behaviour
    MaxEvents       \* bound: tracks that qualify as events in one behaviour

ASSUME ThreadAssumption ==
    Nobody \notin Writers \cup Purges /\ Writers \cap Purges = {}
ASSUME DayAssumption == Day \in Nat \ {0, 1}
ASSUME LimitAssumption == MaxClock \in Nat /\ MaxEvents \in Nat
ASSUME BrokenAssumption == Broken \notin Nat

VARIABLES
    clock,          \* now_utc()
    rows,           \* the committed rows of the events table
    disk,           \* what the files under the media root contain
    writer,         \* the thread whose transaction has written
    pc,             \* pc[t]: where thread t is
    row,            \* row[w]: the row w is persisting
    victims,        \* victims[h]: the rows purge h has selected
    togo,           \* togo[h]: the files h has still to unlink
    taken,          \* history: number of events so far
    drawn,          \* history: images that were written whole
    published,      \* history: rows announced on the bus
    deleted         \* history: deleted[h]: the rows h's current purge deleted

store == <<rows, disk>>
persisting == <<row, taken, drawn, published>>
purging == <<victims, togo, deleted>>
vars == <<clock, rows, disk, writer, pc, row, victims, togo, taken, drawn,
          published, deleted>>

\* n is history: it tells events apart, whatever their ids.
Row == [id : Nat, ts : Nat, n : Nat]
Kind == {"full", "thumb"}
DayOf(ts) == ts \div Day
\* events/YYYY/MM/DD/event_<id>.jpg and thumbs/...; or without the date.
FileNoDate(r, kind) == [kind |-> kind, day |-> 0, id |-> r.id]
File(r, kind) == [kind |-> kind, day |-> DayOf(r.ts), id |-> r.id]

\* INTEGER PRIMARY KEY without AUTOINCREMENT.
NextId == 1 + Max({r.id : r \in rows} \cup {0})

Init ==
    /\ clock = 0 /\ rows = {} /\ disk = << >>
    /\ writer = Nobody
    /\ pc = [t \in Writers \cup Purges |-> "idle"]
    /\ row = [w \in Writers |-> [id |-> 0, ts |-> 0, n |-> 0]]
    /\ victims = [h \in Purges |-> {}] /\ togo = [h \in Purges |-> {}]
    /\ taken = 0 /\ drawn = {} /\ published = {}
    /\ deleted = [h \in Purges |-> {}]

Goto(t, place) == pc' = [pc EXCEPT ![t] = place]

---------------------------------------------------------------------------
(* PipelineRunner._persist_track, for a track that is calibrated, moved,   *)
(* and fast enough.                                                        *)

\* ts_utc = now_utc(), before the session is opened.
Finalise(w) ==
    /\ pc[w] = "idle" /\ taken < MaxEvents
    /\ taken' = taken + 1
    /\ row' = [row EXCEPT ![w] = [id |-> 0, ts |-> clock, n |-> taken + 1]]
    /\ Goto(w, "insert")
    /\ UNCHANGED <<clock, store, writer, drawn, published, purging>>

\* s.add(ev); s.flush(): the INSERT takes the write lock and assigns the id.
Insert(w) ==
    /\ pc[w] = "insert" /\ writer = Nobody
    /\ writer' = w
    /\ row' = [row EXCEPT ![w].id = NextId]
    /\ Goto(w, "full")
    /\ UNCHANGED <<clock, store, taken, drawn, published, purging>>

\* "database is locked": the exception ends the capture loop's round.
InsertTimesOut(w) ==
    /\ pc[w] = "insert" /\ writer # Nobody
    /\ Goto(w, "idle")
    /\ UNCHANGED <<clock, store, writer, persisting, purging>>

\* MediaWriter.save_event_image: one imwrite, whose result nobody looks at.
\* A file that fails is left broken, or was never created.
WriteImage(w, kind, next) ==
    LET f == File(row[w], kind)
        Content(c) == [g \in DOMAIN disk \cup {f} |-> IF g = f THEN c ELSE disk[g]]
    IN  /\ pc[w] = kind
        /\ \/ disk' = Content(row[w].n) /\ drawn' = drawn \cup {<<row[w].n, kind>>}
           \/ disk' = Content(Broken) /\ UNCHANGED drawn
           \/ f \notin DOMAIN disk /\ UNCHANGED <<disk, drawn>>
        /\ Goto(w, next)
        /\ UNCHANGED <<clock, rows, writer, row, taken, published, purging>>
WriteFull(w) == WriteImage(w, "full", "thumb")
WriteThumb(w) == WriteImage(w, "thumb", "commit")

CommitEvent(w) ==
    /\ pc[w] = "commit"
    /\ rows' = rows \cup {row[w]}
    /\ writer' = Nobody
    /\ Goto(w, "publish")
    /\ UNCHANGED <<clock, disk, persisting, purging>>

\* mkdir, resize or the commit raises: the session rolls the row back, but the
\* files stay; or the exception is swallowed and the event announced.
RollbackButPublish(w) ==
    /\ pc[w] \in {"full", "thumb", "commit"}
    /\ writer' = Nobody
    /\ Goto(w, "publish")
    /\ UNCHANGED <<clock, store, persisting, purging>>
Rollback(w) ==
    /\ pc[w] \in {"full", "thumb", "commit"}
    /\ writer' = Nobody
    /\ Goto(w, "idle")
    /\ UNCHANGED <<clock, store, persisting, purging>>

\* publish_threadsafe, after the commit.
Announce(w) ==
    /\ pc[w] = "publish"
    /\ published' = published \cup {row[w]}
    /\ Goto(w, "idle")
    /\ UNCHANGED <<clock, store, writer, row, taken, drawn, purging>>

---------------------------------------------------------------------------
(* purge_events and EventRepo.delete_older_than.                           *)

\* Form(ge=1): a purge reaches back at least a day; or may ask for zero days.
AnyDays == 0..(MaxClock \div Day)
Days == 1..(MaxClock \div Day)

\* The SELECT, outside any transaction that writes.
Select(h) == \E days \in Days :
    /\ pc[h] = "idle"
    /\ clock >= days * Day
    /\ victims' = [victims EXCEPT ![h] = {r \in rows : r.ts < clock - days * Day}]
    /\ deleted' = [deleted EXCEPT ![h] = {}]
    /\ Goto(h, "delete")
    /\ UNCHANGED <<clock, store, writer, persisting, togo>>

\* image_path and thumb_path of each row; or the image alone.
FullImages(rs) == {File(r, "full") : r \in rs}
MediaPaths(rs) == {File(r, kind) : r \in rs, kind \in Kind}

\* DELETE ... WHERE id = ? for each row selected, and the commit: without a
\* victim there is nothing to write.
DeleteRows(h) ==
    LET ids == {r.id : r \in victims[h]}
        hit == {r \in rows : r.id \in ids}
    IN  /\ pc[h] = "delete" /\ (writer = Nobody \/ victims[h] = {})
        /\ rows' = rows \ hit
        /\ deleted' = [deleted EXCEPT ![h] = hit]
        /\ togo' = [togo EXCEPT ![h] = MediaPaths(victims[h])]
        /\ Goto(h, "unlink")
        /\ UNCHANGED <<clock, disk, writer, persisting, victims>>

DeleteTimesOut(h) ==
    /\ pc[h] = "delete" /\ writer # Nobody /\ victims[h] # {}
    /\ Goto(h, "idle")
    /\ UNCHANGED <<clock, store, writer, persisting, purging>>

\* unlink(missing_ok=True), one file after another.
Unlink(h) == \E f \in togo[h] :
    /\ pc[h] = "unlink"
    /\ disk' = [g \in DOMAIN disk \ {f} |-> disk[g]]
    /\ togo' = [togo EXCEPT ![h] = @ \ {f}]
    /\ UNCHANGED <<clock, rows, writer, pc, persisting, victims, deleted>>

\* Any other OSError ends the request; the files that are left have no row.
UnlinkFails(h) == \E f \in togo[h] :
    /\ pc[h] = "unlink" /\ f \in DOMAIN disk
    /\ togo' = [togo EXCEPT ![h] = {}]
    /\ Goto(h, "idle")
    /\ UNCHANGED <<clock, store, writer, persisting, victims, deleted>>

\* Response(status_code=204).
AnswerPurge(h) ==
    /\ pc[h] = "unlink" /\ togo[h] = {}
    /\ Goto(h, "idle")
    /\ UNCHANGED <<clock, store, writer, persisting, purging>>

---------------------------------------------------------------------------
\* The process is killed and started again: rows and files stay.
Crash ==
    /\ writer' = Nobody
    /\ pc' = [t \in Writers \cup Purges |-> "idle"]
    /\ togo' = [h \in Purges |-> {}]
    /\ UNCHANGED <<clock, store, persisting, victims, deleted>>

\* An insert waits for seconds, not for days: it keeps within a tick.
Tick ==
    /\ clock < MaxClock
    /\ \A w \in Writers : pc[w] # "idle" => clock <= row[w].ts
    /\ clock' = clock + 1
    /\ UNCHANGED <<store, writer, pc, persisting, purging>>

Persist(w) ==
    \/ Finalise(w) \/ Insert(w) \/ InsertTimesOut(w) \/ WriteFull(w)
    \/ WriteThumb(w) \/ CommitEvent(w) \/ Rollback(w) \/ Announce(w)
Purge(h) ==
    \/ Select(h) \/ DeleteRows(h) \/ DeleteTimesOut(h) \/ Unlink(h)
    \/ UnlinkFails(h) \/ AnswerPurge(h)

Next ==
    \/ \E w \in Writers : Persist(w)
    \/ \E h \in Purges : Purge(h)
    \/ Crash \/ Tick

Spec == Init /\ [][Next]_vars

---------------------------------------------------------------------------
(* Properties.                                                             *)

Path == [kind : Kind, day : Nat, id : Nat]
Content == Nat \cup {Broken}
WriterPlace == {"idle", "insert", "full", "thumb", "commit", "publish"}
PurgePlace == {"idle", "delete", "unlink"}

TypeOK ==
    /\ clock \in Nat /\ taken \in Nat
    /\ rows \subseteq Row
    /\ DOMAIN disk \subseteq Path /\ \A f \in DOMAIN disk : disk[f] \in Content
    /\ writer \in Writers \cup Purges \cup {Nobody}
    /\ pc \in [Writers \cup Purges -> WriterPlace \cup PurgePlace]
    /\ \A w \in Writers : pc[w] \in WriterPlace
    /\ \A h \in Purges : pc[h] \in PurgePlace
    /\ row \in [Writers -> Row]
    /\ victims \in [Purges -> SUBSET Row] /\ deleted \in [Purges -> SUBSET Row]
    /\ togo \in [Purges -> SUBSET Path]
    /\ drawn \subseteq Nat \X Kind
    /\ published \subseteq Row

\* An event whose image was written keeps it, and what it shows is its own:
\* no purge that is still unlinking, no rolled-back event and no second capture
\* thread with the same id on another day takes or replaces it.
OwnPictures ==
    \A r \in rows, kind \in Kind :
        LET f == File(r, kind)
        IN  /\ <<r.n, kind>> \in drawn => f \in DOMAIN disk /\ disk[f] = r.n
            /\ f \in DOMAIN disk => disk[f] \in {r.n, Broken}

\* What the bus announces can be looked up: the row was committed, and is
\* there unless it is older than any purge reaches.
AnnouncedIsStored ==
    \A r \in published : r \in rows \/ r.ts + Day < clock

\* "Delete rows AND their media files" (purge_events): when a purge is about
\* to answer 204, no picture of an event it deleted is left.
PurgeKeepsItsWord ==
    \A h \in Purges :
        (pc[h] = "unlink" /\ togo[h] = {}) =>
            \A r \in deleted[h], kind \in Kind :
                File(r, kind) \in DOMAIN disk => disk[File(r, kind)] # r.n

\* However many purges run, a row that one of them deletes is more than a day
\* old; or DELETE went by the id of an older row, which that purge had selected
\* and another deleted first, and which the new row was given again.
DeletesOldOrReused ==
    [][\A r \in rows \ rows' :
         \/ r.ts + Day < clock
         \/ \E h \in Purges : \E v \in victims[h] \ rows :
              r \in deleted'[h] /\ v.id = r.id /\ v.ts + Day <= r.ts]_vars

\* What the documents say and the code does not do.

\* delete_older_than: "Delete event rows older than cutoff": a purge, which
\* reaches back a day or more, deletes no row that is younger.
PurgeDeletesOldOnly ==
    [][\A r \in rows \ rows' : r.ts < clock - Day]_vars

---------------------------------------------------------------------------
(* With one purge at a time the rows are an EventLog.                      *)
Recorded == {[n |-> r.n, ts |-> r.ts] : r \in rows}
Log == INSTANCE EventLog WITH log <- Recorded, now <- clock
IsEventLog == Log!Spec
=============================================================================
