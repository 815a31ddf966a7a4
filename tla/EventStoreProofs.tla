--------------------------- MODULE EventStoreProofs ---------------------------
(***************************************************************************)
(* What holds of the event store for every number of capture threads, and  *)
(* of its purges when one runs at a time.                                  *)
(***************************************************************************)
EXTENDS EventStore, WellFoundedInduction, TLAPS

LEMMA DayType == \A ts \in Nat : DayOf(ts) \in Nat
  BY DayAssumption DEF DayOf

(* A day or more apart is on different days.                               *)
LEMMA DayApart == \A s, t \in Nat : s + Day <= t => DayOf(s) # DayOf(t)
  BY DayAssumption DEF DayOf

(* A set of numbers with a bound has a largest.                            *)
LEMMA MaxOfBounded ==
    ASSUME NEW b \in Nat, NEW S \in SUBSET Nat, S # {}, \A x \in S : x <= b
    PROVE  Max(S) \in S /\ \A x \in S : x <= Max(S)
  <1> DEFINE T == {b - x : x \in S}
  <1>0. T # {}
    OBVIOUS
  <1>1. ASSUME NEW y \in T PROVE y \in Nat
    <2>1. PICK x \in S : y = b - x
      OBVIOUS
    <2> QED BY <2>1
  <1> DEFINE less == OpToRel(<, Nat)
  <1>2. PICK t \in T : \A y \in T : ~(<<y, t>> \in less)
    BY <1>0, <1>1, NatLessThanWellFounded, WFMin, Zenon
  <1>3. PICK m \in S : t = b - m
    OBVIOUS
  <1>4. \A x \in S : x <= m
    <2> SUFFICES ASSUME NEW x \in S, x > m PROVE FALSE
      OBVIOUS
    <2>1. b - x \in T /\ b - x \in Nat /\ t \in Nat /\ b - x < t
      BY <1>3
    <2> QED BY <1>2, <2>1 DEF OpToRel
  <1> QED BY <1>4 DEF Max

---------------------------------------------------------------------------
(* Types.                                                                  *)

(* There is a largest id, so NextId is above every id in the table.        *)
Bounded == \E b \in Nat : \A r \in rows : r.id <= b

TypeInv == TypeOK /\ Bounded

LEMMA NextIdType ==
    ASSUME TypeInv
    PROVE  NextId \in Nat /\ \A r \in rows : r.id < NextId
  <1> DEFINE S == {r.id : r \in rows} \cup {0}
  <1>1. S \in SUBSET Nat /\ S # {}
    BY DEF TypeInv, TypeOK, Row
  <1>2. PICK b \in Nat : \A x \in S : x <= b
    BY DEF TypeInv, Bounded
  <1>3. Max(S) \in S /\ \A x \in S : x <= Max(S)
    BY <1>1, <1>2, MaxOfBounded
  <1>4. Max(S) \in Nat /\ NextId = 1 + Max(S)
    BY <1>1, <1>3 DEF NextId
  <1>5. \A r \in rows : r.id \in S /\ r.id \in Nat
    BY <1>1
  <1> HIDE DEF S
  <1> QED BY <1>3, <1>4, <1>5

LEMMA FileType ==
    ASSUME NEW r \in Row, NEW kind \in Kind
    PROVE  File(r, kind) \in Path
  BY DayType DEF Row, File, Path

(* Where the threads are: everything of TypeOK that Goto touches.          *)
PlaceOK ==
    /\ pc \in [Writers \cup Purges -> WriterPlace \cup PurgePlace]
    /\ \A w \in Writers : pc[w] \in WriterPlace
    /\ \A h \in Purges : pc[h] \in PurgePlace

LEMMA GotoWriter ==
    ASSUME PlaceOK, NEW w \in Writers, NEW place \in WriterPlace, Goto(w, place)
    PROVE  /\ PlaceOK' /\ pc'[w] = place
           /\ \A t \in Writers \cup Purges : t # w => pc'[t] = pc[t]
  BY ThreadAssumption DEF Goto, PlaceOK

LEMMA GotoPurge ==
    ASSUME PlaceOK, NEW h \in Purges, NEW place \in PurgePlace, Goto(h, place)
    PROVE  /\ PlaceOK' /\ pc'[h] = place
           /\ \A t \in Writers \cup Purges : t # h => pc'[t] = pc[t]
  BY ThreadAssumption DEF Goto, PlaceOK

LEMMA TypeInit == Init => TypeInv
  <1> SUFFICES ASSUME Init PROVE TypeInv
    OBVIOUS
  <1>1. PlaceOK
    BY DEF Init, PlaceOK, WriterPlace, PurgePlace
  <1>2. DOMAIN disk = {}
    BY DEF Init
  <1>3. row \in [Writers -> Row]
    BY DEF Init, Row
  <1>4. TypeOK
    BY <1>1, <1>2, <1>3 DEF Init, TypeOK, PlaceOK
  <1> QED BY <1>4 DEF Init, TypeInv, Bounded

LEMMA TypeStep == TypeInv /\ [Next]_vars => TypeInv'
  <1> SUFFICES ASSUME TypeInv, [Next]_vars PROVE TypeInv'
    OBVIOUS
  <1>a. TypeOK /\ Bounded /\ PlaceOK
    BY DEF TypeInv, TypeOK, PlaceOK
  <1>1. ASSUME NEW w \in Writers, Persist(w) PROVE TypeInv'
    <2>1. PlaceOK'
      BY <1>1, <1>a, GotoWriter
         DEF Persist, Finalise, Insert, InsertTimesOut, WriteFull, WriteThumb, WriteImage,
             CommitEvent, Rollback, Announce, WriterPlace
    <2>2. CASE Finalise(w)
      <3>1. [id |-> 0, ts |-> clock, n |-> taken + 1] \in Row
        BY <1>a DEF TypeOK, Row
      <3> QED BY <2>1, <2>2, <3>1, <1>a
            DEF Finalise, store, purging, TypeInv, TypeOK, Bounded, PlaceOK
    <2>3. CASE Insert(w)
      <3>1. row' \in [Writers -> Row]
        BY <2>3, <1>a, NextIdType DEF Insert, TypeInv, TypeOK, Row
      <3> QED BY <2>1, <2>3, <3>1, <1>a
            DEF Insert, store, purging, TypeInv, TypeOK, Bounded, PlaceOK
    <2>4. CASE InsertTimesOut(w) \/ Rollback(w) \/ Announce(w)
      BY <2>1, <2>4, <1>a DEF InsertTimesOut, Rollback, Announce, store, persisting, purging,
         TypeInv, TypeOK, Bounded, PlaceOK
    <2>5. ASSUME NEW kind \in Kind, NEW next \in WriterPlace, WriteImage(w, kind, next)
          PROVE  TypeInv'
      <3>1. File(row[w], kind) \in Path /\ row[w].n \in Nat
        BY <1>a, FileType DEF TypeOK, Row
      <3>2. DOMAIN disk' \subseteq Path /\ \A f \in DOMAIN disk' : disk'[f] \in Content
        BY <2>5, <3>1, <1>a DEF WriteImage, TypeOK, Content
      <3>3. drawn' \subseteq Nat \X Kind
        BY <2>5, <3>1, <1>a DEF WriteImage, TypeOK
      <3> QED BY <2>1, <2>5, <3>2, <3>3, <1>a
            DEF WriteImage, purging, TypeInv, TypeOK, Bounded, PlaceOK
    <2>6. CASE WriteFull(w) \/ WriteThumb(w)
      BY <2>5, <2>6 DEF WriteFull, WriteThumb, Kind, WriterPlace
    <2>7. CASE CommitEvent(w)
      <3>1. PICK b \in Nat : \A r \in rows : r.id <= b
        BY <1>a DEF Bounded
      <3>2. row[w] \in Row /\ row[w].id \in Nat /\ \A r \in rows : r.id \in Nat
        BY <1>a DEF TypeOK, Row
      <3>3. \A r \in rows' : r.id <= b + row[w].id
        BY <2>7, <3>1, <3>2 DEF CommitEvent
      <3>4. Bounded'
        BY <3>2, <3>3 DEF Bounded
      <3> QED BY <2>1, <2>7, <3>2, <3>4, <1>a
            DEF CommitEvent, persisting, purging, TypeInv, TypeOK, PlaceOK
    <2> QED BY <1>1, <2>2, <2>3, <2>4, <2>6, <2>7 DEF Persist
  <1>2. ASSUME NEW h \in Purges, Purge(h) PROVE TypeInv'
    <2>1. PlaceOK'
      <3>1. CASE \E f \in togo[h] : Unlink(h)
        BY <3>1, <1>a DEF Unlink, PlaceOK
      <3> QED BY <1>2, <3>1, <1>a, GotoPurge
         DEF Purge, Select, DeleteRows, DeleteTimesOut, Unlink, UnlinkFails, AnswerPurge,
             PurgePlace
    <2>2. CASE Select(h)
      <3>1. PICK V \in SUBSET rows : /\ victims' = [victims EXCEPT ![h] = V]
                                     /\ deleted' = [deleted EXCEPT ![h] = {}]
        BY <2>2 DEF Select
      <3> QED BY <2>1, <2>2, <3>1, <1>a
            DEF Select, store, persisting, TypeInv, TypeOK, Bounded, PlaceOK
    <2>3. CASE DeleteRows(h)
      <3>1. MediaPaths(victims[h]) \subseteq Path
        BY <1>a, FileType DEF MediaPaths, TypeOK
      <3>2. PICK hit \in SUBSET rows : /\ rows' = rows \ hit
                                       /\ deleted' = [deleted EXCEPT ![h] = hit]
        BY <2>3 DEF DeleteRows
      <3> QED BY <2>1, <2>3, <3>1, <3>2, <1>a
            DEF DeleteRows, persisting, TypeInv, TypeOK, Bounded, PlaceOK
    <2>4. CASE DeleteTimesOut(h) \/ UnlinkFails(h) \/ AnswerPurge(h)
      BY <2>1, <2>4, <1>a DEF DeleteTimesOut, UnlinkFails, AnswerPurge, store, persisting,
         purging, TypeInv, TypeOK, Bounded, PlaceOK
    <2>5. CASE Unlink(h)
      BY <2>1, <2>5, <1>a DEF Unlink, persisting, TypeInv, TypeOK, Bounded, PlaceOK
    <2> QED BY <1>2, <2>2, <2>3, <2>4, <2>5 DEF Purge
  <1>3. CASE Crash
    <2>1. PlaceOK'
      BY <1>3 DEF Crash, PlaceOK, WriterPlace, PurgePlace
    <2> QED BY <1>3, <2>1, <1>a DEF Crash, store, persisting, TypeInv, TypeOK, Bounded,
          PlaceOK
  <1>4. CASE Tick
    BY <1>4, <1>a DEF Tick, store, persisting, purging, TypeInv, TypeOK, Bounded
  <1>5. CASE UNCHANGED vars
    BY <1>5, <1>a DEF vars, TypeInv, TypeOK, Bounded
  <1> QED BY <1>1, <1>2, <1>3, <1>4, <1>5 DEF Next

(* The variables keep their types, for all threads, days and bounds        *)
(* (storage/models.py, repositories.py, media.py, pipeline/runner.py).     *)
THEOREM TypeCorrect == Spec => []TypeOK
  <1>1. TypeInv => TypeOK
    BY DEF TypeInv
  <1> QED BY <1>1, TypeInit, TypeStep, PTL DEF Spec

---------------------------------------------------------------------------
(* Rows and times, when one purge runs at a time.                          *)

OnePurge == \A g, h \in Purges : g = h

(* The lock is held by the one writer that has inserted, whose id is above *)
(* every id in the table; so ids are unique.                               *)
InTx(w) == pc[w] \in {"full", "thumb", "commit"}
Locked == \A w \in Writers : InTx(w) => writer = w
AboveAll == \A w \in Writers : InTx(w) => \A r \in rows : r.id < row[w].id
UniqueIds == \A q, r \in rows : q.id = r.id => q = r

(* Tracks are of now or of a tick ago; what is being deleted is what is    *)
(* older than a cutoff at least a day back.                                *)
Fresh ==
    /\ \A w \in Writers : pc[w] # "idle" => row[w].ts <= clock /\ clock <= row[w].ts + 1
    /\ \A r \in rows : r.ts <= clock
CutOff == \A h \in Purges :
    pc[h] = "delete" => \E cutoff \in 0..(clock - Day) :
                            victims[h] = {r \in rows : r.ts < cutoff}
Committed == \A w \in Writers : pc[w] = "publish" => row[w] \in rows

RowInv ==
    /\ TypeInv
    /\ Locked /\ AboveAll /\ UniqueIds /\ Fresh /\ CutOff /\ Committed
    /\ AnnouncedIsStored

LEMMA RowInit == Init => RowInv
  BY TypeInit, ThreadAssumption DEF Init, RowInv, Locked, InTx, AboveAll, UniqueIds, Fresh,
     CutOff, Committed, AnnouncedIsStored

(* A writer's step that changes neither the clock nor the rows.            *)
LEMMA RowQuietWriter ==
    ASSUME RowInv, TypeInv', NEW w \in Writers, NEW place \in WriterPlace,
           Goto(w, place),
           UNCHANGED <<clock, rows, victims>>,
           \A u \in Writers : u # w => row'[u] = row[u],
           \/ writer' = writer /\ (place \in {"full", "thumb", "commit"} => InTx(w))
           \/ writer' = w /\ writer = Nobody
           \/ writer' = Nobody /\ InTx(w) /\ place \notin {"full", "thumb", "commit"},
           place \in {"full", "thumb", "commit"} => \A r \in rows : r.id < row'[w].id,
           place # "idle" => row'[w].ts <= clock /\ clock <= row'[w].ts + 1,
           place # "publish",
           published' \subseteq published \cup {r \in {row[w]} : pc[w] = "publish"}
    PROVE  RowInv'
  <1>a. PlaceOK /\ TypeOK
    BY DEF RowInv, TypeInv, TypeOK, PlaceOK
  <1>b. /\ pc'[w] = place
        /\ \A t \in Writers \cup Purges : t # w => pc'[t] = pc[t]
    BY <1>a, GotoWriter
  <1>c. \A h \in Purges : pc'[h] = pc[h]
    BY <1>b, ThreadAssumption
  <1>1. Locked'
    BY <1>b, ThreadAssumption DEF RowInv, Locked, InTx
  <1>2. AboveAll'
    BY <1>b DEF RowInv, AboveAll, InTx
  <1>3. Fresh'
    BY <1>b DEF RowInv, Fresh
  <1>4. CutOff'
    BY <1>c DEF RowInv, CutOff
  <1>5. Committed'
    BY <1>b DEF RowInv, Committed
  <1>6. AnnouncedIsStored'
    BY DEF RowInv, Committed, AnnouncedIsStored
  <1> QED BY <1>1, <1>2, <1>3, <1>4, <1>5, <1>6 DEF RowInv, UniqueIds

(* A purge's step that changes neither the clock nor the rows.             *)
LEMMA RowQuietPurge ==
    ASSUME RowInv, TypeInv', NEW h \in Purges, NEW place \in PurgePlace,
           Goto(h, place) \/ pc' = pc, place # "delete",
           UNCHANGED <<clock, rows, row, writer, victims, published>>
    PROVE  RowInv'
  <1>a. PlaceOK /\ TypeOK
    BY DEF RowInv, TypeInv, TypeOK, PlaceOK
  <1>b. \A t \in Writers \cup Purges : t # h => pc'[t] = pc[t]
    BY <1>a, GotoPurge
  <1>c. \A w \in Writers : pc'[w] = pc[w]
    BY <1>b, ThreadAssumption
  <1>d. pc'[h] = "delete" => pc[h] = "delete"
    BY <1>a, GotoPurge
  <1>1. CutOff'
    BY <1>b, <1>d DEF RowInv, CutOff
  <1> QED BY <1>c, <1>1 DEF RowInv, Locked, InTx, AboveAll, UniqueIds, Fresh, Committed,
          AnnouncedIsStored

(* What a purge deletes: its victims and nothing else.                     *)
LEMMA DeletesVictims ==
    ASSUME RowInv, NEW h \in Purges, DeleteRows(h)
    PROVE  \E cutoff \in 0..(clock - Day) :
              /\ victims[h] = {r \in rows : r.ts < cutoff}
              /\ rows' = rows \ victims[h]
              /\ deleted' = [deleted EXCEPT ![h] = victims[h]]
  <1>1. pc[h] = "delete"
    BY DEF DeleteRows
  <1>2. PICK cutoff \in 0..(clock - Day) : victims[h] = {r \in rows : r.ts < cutoff}
    BY <1>1 DEF RowInv, CutOff
  <1>3. victims[h] \subseteq rows
    BY <1>2
  <1> DEFINE hit == {r \in rows : r.id \in {v.id : v \in victims[h]}}
  <1>4. hit = victims[h]
    BY <1>3 DEF RowInv, UniqueIds
  <1>5. rows' = rows \ hit /\ deleted' = [deleted EXCEPT ![h] = hit]
    BY DEF DeleteRows
  <1> QED BY <1>2, <1>4, <1>5

LEMMA RowStep ==
    ASSUME OnePurge
    PROVE  RowInv /\ [Next]_vars => RowInv'
  <1> SUFFICES ASSUME RowInv, [Next]_vars PROVE RowInv'
    OBVIOUS
  <1>a. TypeInv /\ TypeInv' /\ TypeOK /\ PlaceOK
    BY TypeStep DEF RowInv, TypeInv, TypeOK, PlaceOK
  <1>b. clock \in Nat /\ Day \in Nat /\ Day >= 2
    BY <1>a, DayAssumption DEF TypeOK
  <1>c. \A r \in rows : r.ts \in Nat /\ r.id \in Nat
    BY <1>a DEF TypeOK, Row
  <1>d. \A w \in Writers : row[w] \in Row /\ row[w].ts \in Nat /\ row[w].id \in Nat
    BY <1>a DEF TypeOK, Row
  <1>1. ASSUME NEW w \in Writers, Persist(w) PROVE RowInv'
    <2>1. CASE Finalise(w)
      <3>1. row'[w].ts = clock /\ \A u \in Writers : u # w => row'[u] = row[u]
        BY <2>1, <1>a DEF Finalise, TypeOK
      <3>2. Goto(w, "insert") /\ UNCHANGED <<clock, rows, victims, writer, published>>
        BY <2>1 DEF Finalise, store, purging
      <3> QED BY <3>1, <3>2, <1>a, <1>b, RowQuietWriter DEF WriterPlace
    <2>2. CASE Insert(w)
      <3>1. row' = [row EXCEPT ![w].id = NextId]
        BY <2>2 DEF Insert
      <3>2. /\ row'[w].ts = row[w].ts /\ row'[w].id = NextId
            /\ \A u \in Writers : u # w => row'[u] = row[u]
        BY <3>1, <1>a DEF TypeOK, Row
      <3>3. /\ Goto(w, "full") /\ writer' = w /\ writer = Nobody /\ pc[w] = "insert"
            /\ UNCHANGED <<clock, rows, victims, published>>
        BY <2>2 DEF Insert, store, purging
      <3>4. row[w].ts <= clock /\ clock <= row[w].ts + 1
        BY <3>3 DEF RowInv, Fresh
      <3> QED BY <3>2, <3>3, <3>4, <1>a, NextIdType, RowQuietWriter DEF WriterPlace
    <2>3. CASE InsertTimesOut(w)
      BY <2>3, <1>a, RowQuietWriter DEF InsertTimesOut, store, persisting, purging, WriterPlace
    <2>4. CASE Rollback(w)
      BY <2>4, <1>a, RowQuietWriter DEF Rollback, InTx, store, persisting, purging, WriterPlace
    <2>5. CASE Announce(w)
      <3>1. /\ Goto(w, "idle") /\ pc[w] = "publish" /\ published' = published \cup {row[w]}
            /\ UNCHANGED <<clock, rows, victims, writer, row>>
        BY <2>5 DEF Announce, store, purging
      <3> QED BY <3>1, <1>a, RowQuietWriter DEF WriterPlace
    <2>6. ASSUME NEW kind \in {"full", "thumb"}, NEW next \in {"thumb", "commit"},
                 WriteImage(w, kind, next)
          PROVE  RowInv'
      <3>1. /\ Goto(w, next) /\ pc[w] = kind
            /\ UNCHANGED <<clock, rows, victims, writer, row, published>>
        BY <2>6 DEF WriteImage, purging
      <3>2. /\ InTx(w) /\ \A r \in rows : r.id < row[w].id
            /\ row[w].ts <= clock /\ clock <= row[w].ts + 1
        BY <3>1 DEF RowInv, AboveAll, Fresh, InTx
      <3> QED BY <3>1, <3>2, <1>a, RowQuietWriter DEF WriterPlace
    <2>7. CASE WriteFull(w) \/ WriteThumb(w)
      BY <2>6, <2>7 DEF WriteFull, WriteThumb
    <2>8. CASE CommitEvent(w)
      <3>1. /\ pc[w] = "commit" /\ Goto(w, "publish")
            /\ rows' = rows \cup {row[w]} /\ writer' = Nobody
            /\ UNCHANGED <<clock, row, victims, published>>
        BY <2>8 DEF CommitEvent, persisting, purging
      <3>2. /\ pc'[w] = "publish"
            /\ \A u \in Writers : u # w => pc'[u] = pc[u]
            /\ \A h \in Purges : pc'[h] = pc[h]
        BY <3>1, <1>a, GotoWriter, ThreadAssumption DEF WriterPlace
      <3>3. /\ InTx(w) /\ writer = w /\ \A r \in rows : r.id < row[w].id
            /\ row[w].ts <= clock /\ clock <= row[w].ts + 1
        BY <3>1 DEF RowInv, Locked, AboveAll, Fresh, InTx
      <3>4. \A u \in Writers : ~InTx(u)'
        BY <3>2, <3>3 DEF RowInv, Locked, InTx
      <3>5. Locked' /\ AboveAll'
        BY <3>4 DEF Locked, AboveAll
      <3>6. UniqueIds'
        BY <3>1, <3>3, <1>c, <1>d DEF RowInv, UniqueIds
      <3>7. Fresh'
        BY <3>1, <3>2, <3>3 DEF RowInv, Fresh
      <3>8. CutOff'
        <4> SUFFICES ASSUME NEW h \in Purges, pc[h] = "delete",
                            NEW cutoff \in 0..(clock - Day),
                            victims[h] = {r \in rows : r.ts < cutoff}
                     PROVE  victims[h] = {r \in rows' : r.ts < cutoff}
          BY <3>1, <3>2 DEF RowInv, CutOff
        <4>1. ~(row[w].ts < cutoff)
          BY <3>3, <1>b, <1>d
        <4> QED BY <4>1, <3>1
      <3>9. Committed' /\ AnnouncedIsStored'
        BY <3>1, <3>2 DEF RowInv, Committed, AnnouncedIsStored
      <3> QED BY <1>a, <3>5, <3>6, <3>7, <3>8, <3>9 DEF RowInv
    <2> QED BY <1>1, <2>1, <2>2, <2>3, <2>4, <2>5, <2>7, <2>8 DEF Persist
  <1>2. ASSUME NEW h \in Purges, Purge(h) PROVE RowInv'
    <2>1. CASE Select(h)
      <3>1. PICK days \in Days :
              /\ clock >= days * Day
              /\ victims' = [victims EXCEPT ![h] = {r \in rows : r.ts < clock - days * Day}]
        BY <2>1 DEF Select
      <3>2. /\ Goto(h, "delete")
            /\ UNCHANGED <<clock, rows, row, writer, published>>
        BY <2>1 DEF Select, store, persisting
      <3>3. /\ pc'[h] = "delete" /\ \A w \in Writers : pc'[w] = pc[w]
        BY <3>2, <1>a, GotoPurge, ThreadAssumption DEF PurgePlace
      <3>4. clock - days * Day \in 0..(clock - Day)
        <4>1. days \in Nat /\ days >= 1
          BY DEF Days
        <4>2. days * Day \in Nat /\ days * Day >= Day
          BY <4>1, <1>b
        <4> DEFINE span == days * Day
        <4>3. span \in Nat /\ span >= Day /\ clock >= span
          BY <4>2, <3>1
        <4> HIDE DEF span
        <4>4. clock - span \in 0..(clock - Day)
          BY <4>3, <1>b
        <4> QED BY <4>4 DEF span
      <3>5. victims'[h] = {r \in rows : r.ts < clock - days * Day}
        BY <3>1, <1>a DEF TypeOK
      <3>6. CutOff'
        BY <3>2, <3>4, <3>5 DEF CutOff, OnePurge
      <3> QED BY <1>a, <3>2, <3>3, <3>6 DEF RowInv, Locked, InTx, AboveAll, UniqueIds, Fresh,
              Committed, AnnouncedIsStored
    <2>2. CASE DeleteRows(h)
      <3>1. PICK cutoff \in 0..(clock - Day) :
              /\ victims[h] = {r \in rows : r.ts < cutoff}
              /\ rows' = rows \ victims[h]
        BY <2>2, DeletesVictims
      <3>2. Goto(h, "unlink") /\ UNCHANGED <<clock, row, writer, published, victims>>
        BY <2>2 DEF DeleteRows, persisting
      <3>3. /\ pc'[h] = "unlink" /\ \A w \in Writers : pc'[w] = pc[w]
        BY <3>2, <1>a, GotoPurge, ThreadAssumption DEF PurgePlace
      <3>4. \A r \in rows : r \notin rows' => r.ts + Day < clock
        BY <3>1, <1>b, <1>c
      <3>5. Committed'
        <4> SUFFICES ASSUME NEW w \in Writers, pc[w] = "publish"
                     PROVE  row[w] \in rows'
          BY <3>2, <3>3 DEF Committed
        <4>1. row[w] \in rows /\ clock <= row[w].ts + 1
          BY DEF RowInv, Committed, Fresh
        <4> QED BY <4>1, <3>4, <1>b, <1>c
      <3>6. AnnouncedIsStored'
        BY <3>2, <3>4 DEF RowInv, AnnouncedIsStored
      <3>7. CutOff'
        BY <3>3 DEF CutOff, OnePurge
      <3>8. rows' \subseteq rows
        BY <3>1
      <3> QED BY <1>a, <3>2, <3>3, <3>5, <3>6, <3>7, <3>8
            DEF RowInv, Locked, InTx, AboveAll, UniqueIds, Fresh
    <2>3. CASE DeleteTimesOut(h) \/ UnlinkFails(h) \/ AnswerPurge(h)
      BY <2>3, <1>a, RowQuietPurge DEF DeleteTimesOut, UnlinkFails, AnswerPurge, store,
         persisting, purging, PurgePlace
    <2>4. CASE Unlink(h)
      BY <2>4, <1>a, RowQuietPurge DEF Unlink, persisting, PurgePlace
    <2> QED BY <1>2, <2>1, <2>2, <2>3, <2>4 DEF Purge
  <1>3. CASE Crash
    <2>1. \A t \in Writers \cup Purges : pc'[t] = "idle"
      BY <1>3 DEF Crash
    <2> QED BY <1>3, <2>1, <1>a DEF Crash, store, persisting, RowInv, Locked, InTx, AboveAll,
          UniqueIds, Fresh, CutOff, Committed, AnnouncedIsStored
  <1>4. CASE Tick
    <2>1. /\ clock' = clock + 1
          /\ \A w \in Writers : pc[w] # "idle" => clock <= row[w].ts
          /\ UNCHANGED <<rows, writer, pc, row, published, victims>>
      BY <1>4 DEF Tick, store, persisting, purging
    <2>2. Fresh'
      BY <2>1, <1>b, <1>c, <1>d DEF RowInv, Fresh
    <2>3. 0..(clock - Day) \subseteq (0..(clock - Day))'
      BY <2>1, <1>b
    <2>4. CutOff'
      BY <2>1, <2>3 DEF RowInv, CutOff
    <2>5. \A r \in published : r.ts \in Nat
      BY <1>a DEF TypeOK, Row
    <2>6. AnnouncedIsStored'
      BY <2>1, <2>5, <1>b DEF RowInv, AnnouncedIsStored
    <2> QED BY <2>1, <2>2, <2>4, <2>6, <1>a DEF RowInv, Locked, InTx, AboveAll, UniqueIds,
          Committed
  <1>5. CASE UNCHANGED vars
    BY <1>5, <1>a DEF vars, RowInv, Locked, InTx, AboveAll, UniqueIds, Fresh, CutOff,
       Committed, AnnouncedIsStored
  <1> QED BY <1>1, <1>2, <1>3, <1>4, <1>5 DEF Next

LEMMA RowInvariant ==
    ASSUME OnePurge
    PROVE  Spec => []RowInv
  BY RowInit, RowStep, PTL DEF Spec

(* With one purge at a time, whatever the bus announces is in the table,   *)
(* or more than a day old (pipeline/runner.py: _persist_track publishes    *)
(* after the commit).                                                      *)
THEOREM AnnouncedIsStoredHolds ==
    ASSUME OnePurge
    PROVE  Spec => []AnnouncedIsStored
  <1>1. RowInv => AnnouncedIsStored
    BY DEF RowInv
  <1> QED BY <1>1, RowInvariant, PTL

---------------------------------------------------------------------------
(* However many purges: what they delete.                                  *)

(* An id is given again only when no row has it: a row with the id of one  *)
(* that a purge has selected is that one, or at least a day younger.       *)
Held == rows \cup {row[w] : w \in {u \in Writers : InTx(u)}}
Aged == \A h \in Purges : pc[h] = "delete" =>
    \A v \in victims[h] :
        /\ v.ts + Day < clock
        /\ \A r \in Held : r.id = v.id => r = v \/ v.ts + Day <= r.ts

AgeInv == TypeInv /\ Locked /\ AboveAll /\ UniqueIds /\ Fresh /\ Aged

LEMMA AgeInit == Init => AgeInv
  BY TypeInit, ThreadAssumption DEF Init, AgeInv, Locked, InTx, AboveAll, UniqueIds, Fresh, Aged

(* A writer's step after which it holds no row that it did not hold.       *)
LEMMA AgeQuiet ==
    ASSUME AgeInv, TypeInv', NEW w \in Writers, NEW place \in WriterPlace, Goto(w, place),
           UNCHANGED <<clock, rows, victims>>,
           \A u \in Writers : u # w => row'[u] = row[u],
           \/ writer' = writer /\ row' = row /\ (place \in {"full", "thumb", "commit"} => InTx(w))
           \/ writer' = writer /\ ~InTx(w) /\ place = "insert"
           \/ writer' = Nobody /\ row' = row /\ InTx(w) /\ place = "idle",
           place # "idle" => row'[w].ts <= clock /\ clock <= row'[w].ts + 1
    PROVE  AgeInv'
  <1>a. PlaceOK /\ TypeOK
    BY DEF AgeInv, TypeInv, TypeOK, PlaceOK
  <1>b. /\ pc'[w] = place
        /\ \A t \in Writers \cup Purges : t # w => pc'[t] = pc[t]
    BY <1>a, GotoWriter
  <1>c. \A h \in Purges : pc'[h] = pc[h]
    BY <1>b, ThreadAssumption
  <1>d. \A u \in Writers : InTx(u)' => InTx(u) /\ row'[u] = row[u]
    BY <1>b DEF InTx
  <1>1. Locked'
    BY <1>b, <1>d, ThreadAssumption DEF AgeInv, Locked, InTx
  <1>2. AboveAll'
    BY <1>d DEF AgeInv, AboveAll
  <1>3. Fresh'
    BY <1>b DEF AgeInv, Fresh
  <1>4. Held' \subseteq Held
    BY <1>d DEF Held
  <1>5. Aged'
    BY <1>c, <1>4 DEF AgeInv, Aged
  <1> QED BY <1>1, <1>2, <1>3, <1>5 DEF AgeInv, UniqueIds

(* A purge's step that selects nothing.                                    *)
LEMMA AgePurge ==
    ASSUME AgeInv, TypeInv', NEW h \in Purges,
           Goto(h, "idle") \/ Goto(h, "unlink") \/ pc' = pc,
           rows' \subseteq rows, clock' = clock, row' = row, writer' = writer,
           victims' = victims
    PROVE  AgeInv'
  <1>a. PlaceOK /\ TypeOK
    BY DEF AgeInv, TypeInv, TypeOK, PlaceOK
  <1>b. \A t \in Writers \cup Purges : t # h => pc'[t] = pc[t]
    BY <1>a, GotoPurge DEF PurgePlace
  <1>c. pc'[h] = "delete" => pc[h] = "delete"
    BY <1>a, GotoPurge DEF PurgePlace
  <1>d. \A w \in Writers : pc'[w] = pc[w]
    BY <1>b, ThreadAssumption
  <1>1. Held' \subseteq Held
    BY <1>d DEF Held, InTx
  <1>2. \A g \in Purges : pc'[g] = "delete" => pc[g] = "delete"
    BY <1>b, <1>c
  <1>3. Aged'
    BY <1>1, <1>2 DEF AgeInv, Aged
  <1> QED BY <1>d, <1>3 DEF AgeInv, Locked, InTx, AboveAll, UniqueIds, Fresh

LEMMA AgeStep == AgeInv /\ [Next]_vars => AgeInv'
  <1> SUFFICES ASSUME AgeInv, [Next]_vars PROVE AgeInv'
    OBVIOUS
  <1>a. TypeInv /\ TypeInv' /\ TypeOK /\ PlaceOK
    BY TypeStep DEF AgeInv, TypeInv, TypeOK, PlaceOK
  <1>b. clock \in Nat /\ Day \in Nat /\ Day >= 2
    BY <1>a, DayAssumption DEF TypeOK
  <1>c. \A r \in rows : r.ts \in Nat /\ r.id \in Nat
    BY <1>a DEF TypeOK, Row
  <1>d. \A w \in Writers : row[w] \in Row /\ row[w].ts \in Nat /\ row[w].id \in Nat
    BY <1>a DEF TypeOK, Row
  <1>e. \A h \in Purges : \A v \in victims[h] : v.ts \in Nat /\ v.id \in Nat
    BY <1>a DEF TypeOK, Row
  <1>1. ASSUME NEW w \in Writers, Persist(w) PROVE AgeInv'
    <2>1. CASE Finalise(w)
      <3>1. row'[w].ts = clock /\ \A u \in Writers : u # w => row'[u] = row[u]
        BY <2>1, <1>a DEF Finalise, TypeOK
      <3>2. /\ Goto(w, "insert") /\ ~InTx(w)
            /\ UNCHANGED <<clock, rows, victims, writer>>
        BY <2>1 DEF Finalise, InTx, store, purging
      <3> QED BY <3>1, <3>2, <1>a, <1>b, AgeQuiet DEF WriterPlace
    <2>2. CASE Insert(w)
      <3>1. row' = [row EXCEPT ![w].id = NextId]
        BY <2>2 DEF Insert
      <3>2. /\ row'[w].ts = row[w].ts /\ row'[w].id = NextId
            /\ \A u \in Writers : u # w => row'[u] = row[u]
        BY <3>1, <1>a DEF TypeOK, Row
      <3>3. /\ Goto(w, "full") /\ writer' = w /\ writer = Nobody /\ pc[w] = "insert"
            /\ UNCHANGED <<clock, rows, victims>>
        BY <2>2 DEF Insert, store, purging
      <3>4. /\ pc'[w] = "full"
            /\ \A u \in Writers : u # w => pc'[u] = pc[u]
            /\ \A h \in Purges : pc'[h] = pc[h]
        BY <3>3, <1>a, GotoWriter, ThreadAssumption DEF WriterPlace
      <3>5. \A u \in Writers : InTx(u)' => u = w
        BY <3>3, <3>4, ThreadAssumption DEF AgeInv, Locked, InTx
      <3>6. Locked' /\ AboveAll'
        BY <3>2, <3>3, <3>5, <1>a, NextIdType DEF Locked, AboveAll
      <3>7. Fresh'
        BY <3>2, <3>3, <3>4 DEF AgeInv, Fresh
      <3>8. Held' \subseteq rows \cup {row'[w]}
        BY <3>3, <3>5 DEF Held
      <3>9. ASSUME NEW h \in Purges, pc[h] = "delete", NEW v \in victims[h],
                   NextId = v.id
            PROVE  v.ts + Day <= row'[w].ts
        <4>1. v.ts + Day < clock /\ clock <= row[w].ts + 1
          BY <3>3, <3>9 DEF AgeInv, Aged, Fresh
        <4> QED BY <4>1, <3>2, <1>b, <1>d, <1>e
      <3>10. rows \subseteq Held
        BY DEF Held
      <3>11. Aged'
        BY <3>2, <3>3, <3>4, <3>8, <3>9, <3>10 DEF AgeInv, Aged
      <3> QED BY <1>a, <3>3, <3>6, <3>7, <3>11 DEF AgeInv, UniqueIds
    <2>3. CASE InsertTimesOut(w) \/ Rollback(w) \/ Announce(w)
      BY <2>3, <1>a, AgeQuiet DEF InsertTimesOut, Rollback, Announce, InTx, store, persisting,
         purging, WriterPlace
    <2>4. ASSUME NEW kind \in {"full", "thumb"}, NEW next \in {"thumb", "commit"},
                 WriteImage(w, kind, next)
          PROVE  AgeInv'
      <3>1. /\ Goto(w, next) /\ pc[w] = kind
            /\ UNCHANGED <<clock, rows, victims, writer, row>>
        BY <2>4 DEF WriteImage, purging
      <3>2. InTx(w) /\ row[w].ts <= clock /\ clock <= row[w].ts + 1
        BY <3>1 DEF AgeInv, Fresh, InTx
      <3> QED BY <3>1, <3>2, <1>a, AgeQuiet DEF WriterPlace
    <2>5. CASE WriteFull(w) \/ WriteThumb(w)
      BY <2>4, <2>5 DEF WriteFull, WriteThumb
    <2>6. CASE CommitEvent(w)
      <3>1. /\ pc[w] = "commit" /\ Goto(w, "publish")
            /\ rows' = rows \cup {row[w]} /\ writer' = Nobody
            /\ UNCHANGED <<clock, row, victims>>
        BY <2>6 DEF CommitEvent, persisting, purging
      <3>2. /\ pc'[w] = "publish"
            /\ \A u \in Writers : u # w => pc'[u] = pc[u]
            /\ \A h \in Purges : pc'[h] = pc[h]
        BY <3>1, <1>a, GotoWriter, ThreadAssumption DEF WriterPlace
      <3>3. /\ InTx(w) /\ writer = w /\ \A r \in rows : r.id < row[w].id
            /\ row[w].ts <= clock /\ clock <= row[w].ts + 1
        BY <3>1 DEF AgeInv, Locked, AboveAll, Fresh, InTx
      <3>4. \A u \in Writers : ~InTx(u)'
        BY <3>2, <3>3 DEF AgeInv, Locked, InTx
      <3>5. Locked' /\ AboveAll'
        BY <3>4 DEF Locked, AboveAll
      <3>6. UniqueIds'
        BY <3>1, <3>3, <1>c, <1>d DEF AgeInv, UniqueIds
      <3>7. Fresh'
        BY <3>1, <3>2, <3>3 DEF AgeInv, Fresh
      <3>8. Held' \subseteq Held
        BY <3>1, <3>3, <3>4 DEF Held
      <3>9. Aged'
        BY <3>1, <3>2, <3>8 DEF AgeInv, Aged
      <3> QED BY <1>a, <3>5, <3>6, <3>7, <3>9 DEF AgeInv
    <2> QED BY <1>1, <2>1, <2>2, <2>3, <2>5, <2>6 DEF Persist
  <1>2. ASSUME NEW h \in Purges, Purge(h) PROVE AgeInv'
    <2>1. CASE Select(h)
      <3>1. PICK days \in Days :
              victims' = [victims EXCEPT ![h] = {r \in rows : r.ts < clock - days * Day}]
        BY <2>1 DEF Select
      <3>2. Goto(h, "delete") /\ UNCHANGED <<clock, rows, row, writer>>
        BY <2>1 DEF Select, store, persisting
      <3>3. \A t \in Writers \cup Purges : t # h => pc'[t] = pc[t]
        BY <3>2, <1>a, GotoPurge DEF PurgePlace
      <3>4. \A w \in Writers : pc'[w] = pc[w]
        BY <3>3, ThreadAssumption
      <3>5. \A v \in victims'[h] : v \in rows /\ v.ts + Day < clock
        <4>1. days \in Nat /\ days >= 1
          BY DEF Days
        <4> DEFINE span == days * Day
        <4>2. span \in Nat /\ span >= Day
          BY <4>1, <1>b
        <4>3. victims'[h] = {r \in rows : r.ts < clock - span}
          BY <3>1, <1>a DEF TypeOK
        <4> HIDE DEF span
        <4> QED BY <4>2, <4>3, <1>b, <1>c
      <3>6. \A g \in Purges : g # h => victims'[g] = victims[g]
        BY <3>1, <1>a DEF TypeOK
      <3>7. Held' = Held
        BY <3>2, <3>4 DEF Held, InTx
      <3>8. ASSUME NEW v \in rows, NEW r \in Held, r.id = v.id PROVE r = v
        BY <3>8, <1>c, <1>d DEF Held, AgeInv, UniqueIds, AboveAll
      <3>9. Aged'
        <4> SUFFICES ASSUME NEW g \in Purges, pc'[g] = "delete", NEW v \in victims'[g]
                     PROVE  /\ v.ts + Day < clock
                            /\ \A r \in Held : r.id = v.id => r = v \/ v.ts + Day <= r.ts
          BY <3>2, <3>7 DEF Aged
        <4>1. CASE g = h
          BY <4>1, <3>5, <3>8
        <4>2. CASE g # h
          BY <4>2, <3>3, <3>6 DEF AgeInv, Aged
        <4> QED BY <4>1, <4>2
      <3> QED BY <1>a, <3>2, <3>4, <3>9 DEF AgeInv, Locked, InTx, AboveAll, UniqueIds, Fresh
    <2>2. CASE DeleteRows(h)
      <3>1. Goto(h, "unlink") /\ rows' \subseteq rows
        BY <2>2 DEF DeleteRows
      <3>2. clock' = clock /\ row' = row /\ writer' = writer /\ victims' = victims
        BY <2>2 DEF DeleteRows, persisting
      <3> QED BY <3>1, <3>2, <1>a, AgePurge
    <2>3. CASE DeleteTimesOut(h) \/ UnlinkFails(h) \/ AnswerPurge(h) \/ Unlink(h)
      <3>1. Goto(h, "idle") \/ pc' = pc
        BY <2>3 DEF DeleteTimesOut, UnlinkFails, AnswerPurge, Unlink
      <3>2. /\ clock' = clock /\ row' = row /\ writer' = writer /\ victims' = victims
            /\ rows' = rows
        BY <2>3 DEF DeleteTimesOut, UnlinkFails, AnswerPurge, Unlink, store, persisting, purging
      <3> QED BY <3>1, <3>2, <1>a, AgePurge
    <2> QED BY <1>2, <2>1, <2>2, <2>3 DEF Purge
  <1>3. CASE Crash
    <2>1. \A t \in Writers \cup Purges : pc'[t] = "idle"
      BY <1>3 DEF Crash
    <2> QED BY <1>3, <2>1, <1>a DEF Crash, store, persisting, AgeInv, Locked, InTx, AboveAll,
          UniqueIds, Fresh, Aged
  <1>4. CASE Tick
    <2>1. /\ clock' = clock + 1
          /\ \A w \in Writers : pc[w] # "idle" => clock <= row[w].ts
          /\ UNCHANGED <<rows, writer, pc, row, victims>>
      BY <1>4 DEF Tick, store, persisting, purging
    <2>2. Fresh'
      BY <2>1, <1>b, <1>c, <1>d DEF AgeInv, Fresh
    <2>3. Held' = Held
      BY <2>1 DEF Held, InTx
    <2>4. Aged'
      BY <2>1, <2>3, <1>b, <1>e DEF AgeInv, Aged
    <2> QED BY <2>1, <2>2, <2>4, <1>a DEF AgeInv, Locked, InTx, AboveAll, UniqueIds
  <1>5. CASE UNCHANGED vars
    <2>1. Held' = Held
      BY <1>5 DEF vars, Held, InTx
    <2> QED BY <1>5, <2>1, <1>a DEF vars, AgeInv, Locked, InTx, AboveAll, UniqueIds, Fresh, Aged
  <1> QED BY <1>1, <1>2, <1>3, <1>4, <1>5 DEF Next

(* However many purges run next to each other, a row that one deletes is   *)
(* more than a day old, or its id was freed by another purge and given     *)
(* again, at least a day later, before DELETE went by it: two purges that  *)
(* overlap can take no row but these (repositories.py: delete_older_than). *)
THEOREM DeletesOldOrReusedHolds == Spec => DeletesOldOrReused
  <1> DEFINE Explained == \A r \in rows \ rows' :
         \/ r.ts + Day < clock
         \/ \E h \in Purges : \E v \in victims[h] \ rows :
              r \in deleted'[h] /\ v.id = r.id /\ v.ts + Day <= r.ts
  <1>1. AgeInv /\ [Next]_vars => [Explained]_vars
    <2> SUFFICES ASSUME AgeInv, Next, NEW r \in rows, r \notin rows', ~(r.ts + Day < clock)
                 PROVE  \E h \in Purges : \E v \in victims[h] \ rows :
                            r \in deleted'[h] /\ v.id = r.id /\ v.ts + Day <= r.ts
      OBVIOUS
    <2>1. PICK h \in Purges : DeleteRows(h)
      BY DEF Next, Persist, Purge, Finalise, Insert, InsertTimesOut, WriteFull, WriteThumb,
         WriteImage, CommitEvent, Rollback, Announce, Select, DeleteTimesOut, Unlink,
         UnlinkFails, AnswerPurge, Crash, Tick, store
    <2> DEFINE hit == {q \in rows : q.id \in {v.id : v \in victims[h]}}
    <2>2. pc[h] = "delete" /\ rows' = rows \ hit /\ deleted' = [deleted EXCEPT ![h] = hit]
      BY <2>1 DEF DeleteRows
    <2>3. r \in hit /\ r \in deleted'[h]
      BY <2>2 DEF AgeInv, TypeInv, TypeOK
    <2>4. PICK v \in victims[h] : v.id = r.id
      BY <2>3
    <2>5. v.ts + Day < clock /\ (r = v \/ v.ts + Day <= r.ts)
      BY <2>2, <2>4 DEF AgeInv, Aged, Held
    <2>6. v # r /\ v.ts + Day <= r.ts
      BY <2>5
    <2>7. v \notin rows
      BY <2>4, <2>6 DEF AgeInv, UniqueIds
    <2> QED BY <2>3, <2>4, <2>6, <2>7
  <1>2. AgeInv /\ [Next]_vars => AgeInv'
    BY AgeStep
  <1> QED BY <1>1, <1>2, AgeInit, PTL DEF Spec, DeletesOldOrReused

---------------------------------------------------------------------------
(* Events are told apart: what is still to be inserted or committed has a  *)
(* number that no row has, none that the current purge deleted, and no     *)
(* other writer; its pictures are not drawn before their turn.             *)

Pending(w) == pc[w] \in {"insert", "full", "thumb", "commit"}
Counted ==
    /\ \A r \in rows : r.n <= taken
    /\ \A w \in Writers : row[w].n <= taken
    /\ \A h \in Purges : \A r \in deleted[h] : r.n <= taken
    /\ \A n \in Nat, kind \in Kind : <<n, kind>> \in drawn => n <= taken
OwnNumber ==
    \A w \in Writers : Pending(w) =>
        /\ \A r \in rows : r.n # row[w].n
        /\ \A h \in Purges : \A r \in deleted[h] : r.n # row[w].n
        /\ \A u \in Writers : u # w /\ Pending(u) => row[u].n # row[w].n
        /\ pc[w] \in {"insert", "full"} => <<row[w].n, "full">> \notin drawn
        /\ pc[w] # "commit" => <<row[w].n, "thumb">> \notin drawn

NumInv == RowInv /\ Counted /\ OwnNumber

LEMMA NumInit == Init => NumInv
  BY RowInit, ThreadAssumption DEF Init, NumInv, Counted, OwnNumber, Pending

(* A step after which no thread has more before it, and no number is new.  *)
LEMMA NumQuiet ==
    ASSUME NumInv, RowInv', UNCHANGED <<taken, drawn>>,
           \A w \in Writers : Pending(w)' =>
               /\ Pending(w)
               /\ pc'[w] # pc[w] => pc[w] = "insert" /\ pc'[w] = "full",
           \A w \in Writers : row'[w].n = row[w].n,
           rows' \subseteq rows,
           \A h \in Purges : deleted'[h] \subseteq rows \cup deleted[h]
    PROVE  NumInv'
  BY DEF NumInv, Counted, OwnNumber

LEMMA NumStep ==
    ASSUME OnePurge
    PROVE  NumInv /\ [Next]_vars => NumInv'
  <1> SUFFICES ASSUME NumInv, [Next]_vars PROVE NumInv'
    OBVIOUS
  <1>a. RowInv /\ RowInv' /\ TypeOK /\ PlaceOK
    BY RowStep DEF NumInv, RowInv, TypeInv, TypeOK, PlaceOK
  <1>b. /\ taken \in Nat /\ \A r \in rows : r.n \in Nat
        /\ \A w \in Writers : row[w] \in Row /\ row[w].n \in Nat
        /\ \A h \in Purges : \A r \in deleted[h] : r.n \in Nat
    BY <1>a DEF TypeOK, Row
  <1>1. ASSUME NEW w \in Writers, Persist(w) PROVE NumInv'
    <2>a. \A place \in WriterPlace : Goto(w, place) =>
            pc'[w] = place /\ \A u \in Writers : u # w => pc'[u] = pc[u]
      BY <1>a, GotoWriter
    <2>1. CASE Finalise(w)
      <3>1. /\ taken' = taken + 1 /\ row'[w].n = taken + 1
            /\ \A u \in Writers : u # w => row'[u] = row[u]
            /\ UNCHANGED <<rows, drawn, deleted>> /\ Goto(w, "insert")
        BY <2>1, <1>a DEF Finalise, TypeOK, store, purging
      <3>2. Counted'
        BY <3>1, <1>b DEF NumInv, Counted
      <3>3. /\ \A n \in Nat, kind \in Kind : <<n, kind>> \in drawn => n # taken + 1
            /\ pc'[w] = "insert" /\ \A u \in Writers : u # w => pc'[u] = pc[u]
        BY <3>1, <2>a, <1>b DEF NumInv, Counted, WriterPlace
      <3>4. OwnNumber'
        BY <3>1, <3>3, <1>b DEF NumInv, Counted, OwnNumber, Pending, Kind
      <3> QED BY <1>a, <3>2, <3>4 DEF NumInv
    <2>2. CASE Insert(w)
      <3>1. /\ \A u \in Writers : row'[u].n = row[u].n
            /\ pc[w] = "insert" /\ Goto(w, "full")
            /\ UNCHANGED <<rows, taken, drawn, deleted>>
        BY <2>2, <1>a, <1>b DEF Insert, store, purging, TypeOK, Row
      <3> QED BY <3>1, <2>a, <1>a, NumQuiet DEF Pending, WriterPlace
    <2>3. CASE InsertTimesOut(w) \/ Rollback(w) \/ Announce(w)
      <3>1. Goto(w, "idle") /\ UNCHANGED <<rows, row, taken, drawn, deleted>>
        BY <2>3 DEF InsertTimesOut, Rollback, Announce, store, persisting, purging
      <3> QED BY <3>1, <2>a, <1>a, NumQuiet DEF Pending, WriterPlace
    <2>4. ASSUME NEW kind \in Kind, NEW next,
                 <<kind, next>> \in {<<"full", "thumb">>, <<"thumb", "commit">>},
                 WriteImage(w, kind, next)
          PROVE  NumInv'
      <3>1. /\ Goto(w, next) /\ pc[w] = kind
            /\ drawn' = drawn \/ drawn' = drawn \cup {<<row[w].n, kind>>}
            /\ UNCHANGED <<rows, row, taken, deleted>>
        BY <2>4 DEF WriteImage, purging
      <3>2. pc'[w] = next /\ \A u \in Writers : u # w => pc'[u] = pc[u]
        BY <3>1, <2>4, <2>a DEF WriterPlace
      <3>3. Counted'
        BY <3>1, <1>b DEF NumInv, Counted
      <3>4. Pending(w)
        BY <3>1, <2>4 DEF Pending
      <3>5. ASSUME NEW u \in Writers, u # w, Pending(u), NEW k,
                   <<row[u].n, k>> \notin drawn
            PROVE  <<row[u].n, k>> \notin drawn'
        <4>1. row[u].n # row[w].n
          BY <3>4, <3>5 DEF NumInv, OwnNumber
        <4>2. <<row[u].n, k>> # <<row[w].n, kind>>
          BY <4>1
        <4> QED BY <3>1, <3>5, <4>2
      <3>6. OwnNumber'
        BY <3>1, <3>2, <3>4, <3>5, <2>4 DEF NumInv, OwnNumber, Pending
      <3> QED BY <1>a, <3>3, <3>6 DEF NumInv
    <2>5. CASE WriteFull(w) \/ WriteThumb(w)
      BY <2>4, <2>5 DEF WriteFull, WriteThumb, Kind
    <2>6. CASE CommitEvent(w)
      <3>1. /\ Goto(w, "publish") /\ pc[w] = "commit" /\ rows' = rows \cup {row[w]}
            /\ UNCHANGED <<row, taken, drawn, deleted>>
        BY <2>6 DEF CommitEvent, persisting, purging
      <3>2. pc'[w] = "publish" /\ \A u \in Writers : u # w => pc'[u] = pc[u]
        BY <3>1, <2>a DEF WriterPlace
      <3> QED BY <1>a, <3>1, <3>2 DEF NumInv, Counted, OwnNumber, Pending
    <2> QED BY <1>1, <2>1, <2>2, <2>3, <2>5, <2>6 DEF Persist
  <1>2. ASSUME NEW h \in Purges, Purge(h) PROVE NumInv'
    <2>1. /\ rows' \subseteq rows /\ UNCHANGED <<row, taken, drawn>>
          /\ \A g \in Purges : deleted'[g] \subseteq rows \cup deleted[g]
      <3>1. CASE Select(h)
        <4>1. deleted' = [deleted EXCEPT ![h] = {}]
          BY <3>1 DEF Select
        <4> QED BY <3>1, <4>1, <1>a DEF Select, store, persisting, TypeOK
      <3>2. CASE DeleteRows(h)
        <4>1. PICK hit \in SUBSET rows : /\ rows' = rows \ hit
                                         /\ deleted' = [deleted EXCEPT ![h] = hit]
          BY <3>2 DEF DeleteRows
        <4> QED BY <3>2, <4>1, <1>a DEF DeleteRows, persisting, TypeOK
      <3>3. CASE DeleteTimesOut(h) \/ UnlinkFails(h) \/ AnswerPurge(h) \/ Unlink(h)
        BY <3>3 DEF DeleteTimesOut, UnlinkFails, AnswerPurge, Unlink, store, persisting, purging
      <3> QED BY <1>2, <3>1, <3>2, <3>3 DEF Purge
    <2>2. \A w \in Writers : pc'[w] = pc[w]
      BY <1>2, <1>a, GotoPurge, ThreadAssumption
         DEF Purge, Select, DeleteRows, DeleteTimesOut, Unlink, UnlinkFails, AnswerPurge,
             PurgePlace
    <2> QED BY <2>1, <2>2, <1>a, NumQuiet DEF Pending
  <1>3. CASE Crash
    <2>1. \A w \in Writers : ~Pending(w)'
      BY <1>3 DEF Crash, Pending
    <2> QED BY <1>3, <2>1, <1>a, NumQuiet DEF Crash, store, persisting
  <1>4. CASE Tick \/ UNCHANGED vars
    BY <1>4, <1>a, NumQuiet DEF Tick, vars, store, persisting, purging, Pending
  <1> QED BY <1>1, <1>2, <1>3, <1>4 DEF Next

LEMMA NumInvariant ==
    ASSUME OnePurge
    PROVE  Spec => []NumInv
  BY NumInit, NumStep, PTL DEF Spec

---------------------------------------------------------------------------
(* The rows are a log.                                                     *)

Entry(r) == [n |-> r.n, ts |-> r.ts]

LEMMA LogStep ==
    ASSUME OnePurge
    PROVE  NumInv /\ [Next]_vars => [Log!Next]_<<Recorded, clock>>
  <1> SUFFICES ASSUME NumInv, [Next]_vars PROVE [Log!Next]_<<Recorded, clock>>
    OBVIOUS
  <1>a. RowInv /\ TypeOK
    BY DEF NumInv, RowInv, TypeInv
  <1>b. Recorded = {Entry(r) : r \in rows} /\ Recorded' = {Entry(r) : r \in rows'}
    BY DEF Recorded, Entry
  <1>c. \A r : Entry(r).n = r.n /\ Entry(r).ts = r.ts
    BY DEF Entry
  <1>1. ASSUME NEW w \in Writers, CommitEvent(w) PROVE Log!Record
    <2>1. pc[w] = "commit" /\ rows' = rows \cup {row[w]} /\ clock' = clock
      BY <1>1 DEF CommitEvent
    <2>2. Recorded' = Recorded \cup {Entry(row[w])}
      BY <1>b, <2>1
    <2>3. \A f \in Recorded : f.n # Entry(row[w]).n
      <3>1. \A r \in rows : r.n # row[w].n
        BY <2>1 DEF NumInv, OwnNumber, Pending
      <3>2. SUFFICES ASSUME NEW r \in rows PROVE Entry(r).n # Entry(row[w]).n
        BY <1>b
      <3> QED BY <3>1, <1>c
    <2>4. Entry(row[w]).ts <= clock
      BY <1>a, <1>c, <2>1 DEF RowInv, Fresh
    <2> QED BY <2>1, <2>2, <2>3, <2>4 DEF Log!Record
  <1>2. ASSUME NEW h \in Purges, DeleteRows(h) PROVE Log!Purge
    <2>1. PICK cutoff \in 0..(clock - Day) :
              /\ victims[h] = {r \in rows : r.ts < cutoff}
              /\ rows' = rows \ victims[h]
      BY <1>2, <1>a, DeletesVictims
    <2>2. clock' = clock
      BY <1>2 DEF DeleteRows
    <2>3. cutoff \in Int /\ \A r \in rows : r.ts \in Nat
      BY <1>a DEF TypeOK, Row
    <2>4. rows' = {r \in rows : r.ts >= cutoff}
      BY <2>1, <2>3
    <2>5. Recorded' = {e \in Recorded : e.ts >= cutoff}
      BY <1>b, <1>c, <2>4
    <2> QED BY <2>2, <2>5 DEF Log!Purge
  <1>3. CASE Tick
    BY <1>3, <1>b DEF Tick, store, Log!Next, Log!Tick
  <1>4. CASE UNCHANGED <<rows, clock>>
    BY <1>4, <1>b
  <1>5. CASE \E w \in Writers : Persist(w) /\ ~CommitEvent(w)
    BY <1>4, <1>5 DEF Persist, Finalise, Insert, InsertTimesOut, WriteFull, WriteThumb,
       WriteImage, Rollback, Announce, store
  <1>6. CASE \E h \in Purges : Purge(h) /\ ~DeleteRows(h)
    BY <1>4, <1>6 DEF Purge, Select, DeleteTimesOut, Unlink, UnlinkFails, AnswerPurge, store
  <1>7. CASE Crash \/ UNCHANGED vars
    BY <1>4, <1>7 DEF Crash, vars, store
  <1> QED BY <1>1, <1>2, <1>3, <1>5, <1>6, <1>7 DEF Next, Log!Next

(* With one purge at a time the table is a log: every step of capture      *)
(* threads, purge and crashes records one new event of now or before, or   *)
(* removes all that is older than a cutoff a day or more back, or changes  *)
(* nothing (pipeline/runner.py: _persist_track; repositories.py:           *)
(* delete_older_than).                                                     *)
THEOREM IsEventLogHolds ==
    ASSUME OnePurge
    PROVE  Spec => IsEventLog
  <1>1. Init => Log!Init
    BY DEF Init, Log!Init, Recorded
  <1> QED BY <1>1, NumInvariant, LogStep, PTL DEF Spec, IsEventLog, Log!Spec

---------------------------------------------------------------------------
(* Pictures.                                                               *)

(* r's picture of this kind is where it belongs, if it was drawn, and what *)
(* is there is r's.                                                        *)
Good(r, kind) ==
    LET f == File(r, kind)
    IN  /\ <<r.n, kind>> \in drawn => f \in DOMAIN disk /\ disk[f] = r.n
        /\ f \in DOMAIN disk => disk[f] \in {r.n, Broken}

AllGood == \A r \in rows, kind \in Kind : Good(r, kind)
Written ==
    \A w \in Writers :
        /\ pc[w] \in {"thumb", "commit"} => Good(row[w], "full")
        /\ pc[w] = "commit" => Good(row[w], "thumb")

(* What a purge has still to unlink is of no row, and of a day of which no *)
(* row can come any more; until it is unlinked, or another event's, it is  *)
(* on the list.                                                            *)
Past ==
    \A h \in Purges : \A f \in togo[h] :
        /\ \A t \in Nat : clock <= t + 1 => DayOf(t) # f.day
        /\ \A r \in rows, kind \in Kind : File(r, kind) # f
Remaining ==
    \A h \in Purges : pc[h] = "unlink" =>
        \A r \in deleted[h], kind \in Kind :
            \/ File(r, kind) \in togo[h]
            \/ File(r, kind) \notin DOMAIN disk
            \/ disk[File(r, kind)] # r.n

DiskInv == NumInv /\ AllGood /\ Written /\ Past /\ Remaining

LEMMA DiskInit == Init => DiskInv
  <1> SUFFICES ASSUME Init PROVE DiskInv
    OBVIOUS
  <1>1. \A t \in Writers \cup Purges : pc[t] = "idle"
    BY DEF Init
  <1>2. rows = {} /\ \A h \in Purges : togo[h] = {}
    BY DEF Init
  <1> QED BY <1>1, <1>2, NumInit DEF DiskInv, AllGood, Written, Past, Remaining

(* Neither pictures nor rows change, and nobody comes to have more before  *)
(* or behind it.                                                           *)
LEMMA DiskQuiet ==
    ASSUME DiskInv, NumInv', UNCHANGED <<disk, drawn, rows>>,
           clock' = clock \/ (clock \in Nat /\ clock' = clock + 1),
           \A w \in Writers : pc'[w] \in {"thumb", "commit"} =>
               pc'[w] = pc[w] /\ row'[w] = row[w],
           \A h \in Purges : togo'[h] \subseteq togo[h],
           \A h \in Purges : pc'[h] = "unlink" =>
               pc[h] = "unlink" /\ togo'[h] = togo[h] /\ deleted'[h] = deleted[h]
    PROVE  DiskInv'
  <1>1. Past'
    BY DEF DiskInv, Past, File, DayOf
  <1>2. AllGood' /\ Written' /\ Remaining'
    BY DEF DiskInv, AllGood, Written, Remaining, Good, File, DayOf
  <1> QED BY <1>1, <1>2 DEF DiskInv

(* What writing an image does to the disk.                                 *)
LEMMA WriteOnDisk ==
    ASSUME TypeOK, NEW w \in Writers, NEW kind \in Kind, NEW next,
           WriteImage(w, kind, next), <<row[w].n, kind>> \notin drawn
    PROVE  LET f == File(row[w], kind)
           IN  /\ \A g : g # f =>
                    /\ g \in DOMAIN disk' <=> g \in DOMAIN disk
                    /\ g \in DOMAIN disk => disk'[g] = disk[g]
               /\ f \in DOMAIN disk' => disk'[f] \in {row[w].n, Broken}
               /\ <<row[w].n, kind>> \in drawn' => f \in DOMAIN disk' /\ disk'[f] = row[w].n
               /\ drawn' \subseteq drawn \cup {<<row[w].n, kind>>}
               /\ drawn \subseteq drawn'
  <1>1. row[w].n # Broken
    BY BrokenAssumption DEF TypeOK, Row
  <1> QED BY <1>1 DEF WriteImage

LEMMA DiskWrite ==
    ASSUME DiskInv, NumInv', NEW w \in Writers, NEW kind \in Kind, NEW next,
           <<kind, next>> \in {<<"full", "thumb">>, <<"thumb", "commit">>},
           WriteImage(w, kind, next)
    PROVE  DiskInv'
  <1>a. RowInv /\ TypeOK /\ PlaceOK
    BY DEF DiskInv, NumInv, RowInv, TypeInv, TypeOK, PlaceOK
  <1>b. /\ pc[w] = kind /\ Goto(w, next)
        /\ UNCHANGED <<clock, rows, row, togo, deleted>>
    BY DEF WriteImage, purging
  <1>c. InTx(w) /\ Pending(w)
    BY <1>b DEF InTx, Pending
  <1>d. /\ pc'[w] = next /\ \A u \in Writers : u # w => pc'[u] = pc[u]
        /\ \A h \in Purges : pc'[h] = pc[h]
    BY <1>a, <1>b, GotoWriter, ThreadAssumption DEF WriterPlace
  <1>e. <<row[w].n, kind>> \notin drawn
    BY <1>b, <1>c DEF DiskInv, NumInv, OwnNumber, Kind
  <1> DEFINE f == File(row[w], kind)
  <1>1. /\ \A g : g # f => /\ g \in DOMAIN disk' <=> g \in DOMAIN disk
                           /\ g \in DOMAIN disk => disk'[g] = disk[g]
        /\ f \in DOMAIN disk' => disk'[f] \in {row[w].n, Broken}
        /\ <<row[w].n, kind>> \in drawn' => f \in DOMAIN disk' /\ disk'[f] = row[w].n
        /\ drawn' \subseteq drawn \cup {<<row[w].n, kind>>}
    BY <1>a, <1>e, WriteOnDisk
  <1>2. Good(row[w], kind)'
    BY <1>1, <1>b DEF Good, File, DayOf
  <1>3. ASSUME NEW r, NEW k \in Kind, Good(r, k), File(r, k) # f,
               r.n # row[w].n \/ k # kind
        PROVE  Good(r, k)'
    <2>1. <<r.n, k>> # <<row[w].n, kind>>
      BY <1>3
    <2>2. File(r, k)' = File(r, k)
      BY DEF File, DayOf
    <2> HIDE DEF f
    <2> QED BY <1>1, <1>3, <2>1, <2>2 DEF Good
  <1>4. AllGood'
    <2> SUFFICES ASSUME NEW r \in rows, NEW k \in Kind PROVE Good(r, k)'
      BY <1>b DEF AllGood
    <2>1. r.id < row[w].id /\ r.id \in Nat /\ row[w].id \in Nat
      BY <1>a, <1>c DEF RowInv, AboveAll, TypeOK, Row
    <2>2. File(r, k) # f
      BY <2>1 DEF File
    <2>3. r.n # row[w].n
      BY <1>c DEF DiskInv, NumInv, OwnNumber
    <2> QED BY <1>3, <2>2, <2>3 DEF DiskInv, AllGood
  <1>5. Written'
    <2>1. ASSUME NEW u \in Writers, u # w PROVE ~InTx(u)
      BY <1>a, <1>c, <2>1 DEF RowInv, Locked
    <2>2. next = "commit" => Good(row[w], "full")'
      <3> SUFFICES ASSUME next = "commit" PROVE Good(row[w], "full")'
        OBVIOUS
      <3>1. kind = "thumb" /\ File(row[w], "full") # f
        BY DEF File
      <3>2. Good(row[w], "full")
        BY <1>b, <3>1 DEF DiskInv, Written
      <3>3. \A r : r = row[w] => Good(r, "full")'
        BY <1>3, <3>1, <3>2 DEF Kind
      <3> QED BY <3>3, <1>b DEF Good, File, DayOf
    <2>3. next = "thumb" => kind = "full"
      OBVIOUS
    <2>4. next = "commit" => kind = "thumb"
      OBVIOUS
    <2>5. \A u \in Writers : pc'[u] \in {"thumb", "commit"} => u = w
      BY <1>d, <2>1 DEF InTx
    <2> QED BY <1>2, <1>b, <1>d, <2>2, <2>3, <2>4, <2>5 DEF Written
  <1>6. Past'
    BY <1>b DEF DiskInv, Past, File, DayOf
  <1>7. Remaining'
    <2> SUFFICES ASSUME NEW h \in Purges, pc[h] = "unlink", NEW r \in deleted[h],
                        NEW k \in Kind, File(r, k) \notin togo[h],
                        File(r, k) \in DOMAIN disk'
                 PROVE  disk'[File(r, k)] # r.n
      BY <1>b, <1>d DEF Remaining, File, DayOf
    <2>1. File(r, k) \notin DOMAIN disk \/ disk[File(r, k)] # r.n
      BY DEF DiskInv, Remaining
    <2>2. CASE File(r, k) = f
      <3>1. r.n # row[w].n
        BY <1>c DEF DiskInv, NumInv, OwnNumber
      <3>2. r.n # Broken
        BY <1>a, BrokenAssumption DEF TypeOK, Row
      <3> QED BY <1>1, <2>2, <3>1, <3>2
    <2>3. CASE File(r, k) # f
      <3> HIDE DEF f
      <3> QED BY <1>1, <2>1, <2>3
    <2> QED BY <2>2, <2>3
  <1> QED BY <1>4, <1>5, <1>6, <1>7 DEF DiskInv

LEMMA DiskCommit ==
    ASSUME DiskInv, NumInv', NEW w \in Writers, CommitEvent(w)
    PROVE  DiskInv'
  <1>a. RowInv /\ TypeOK /\ PlaceOK
    BY DEF DiskInv, NumInv, RowInv, TypeInv, TypeOK, PlaceOK
  <1>b. /\ pc[w] = "commit" /\ Goto(w, "publish") /\ rows' = rows \cup {row[w]}
        /\ UNCHANGED <<clock, disk, drawn, row, togo, deleted>>
    BY DEF CommitEvent, persisting, purging
  <1>c. /\ pc'[w] = "publish" /\ \A u \in Writers : u # w => pc'[u] = pc[u]
        /\ \A h \in Purges : pc'[h] = pc[h]
    BY <1>a, <1>b, GotoWriter, ThreadAssumption DEF WriterPlace
  <1>d. \A r, k : Good(r, k)' <=> Good(r, k)
    BY <1>b DEF Good, File, DayOf
  <1>1. Good(row[w], "full") /\ Good(row[w], "thumb")
    BY <1>b DEF DiskInv, Written
  <1>2. AllGood'
    BY <1>b, <1>d, <1>1 DEF DiskInv, AllGood, Kind
  <1>3. Written'
    BY <1>b, <1>c, <1>d DEF DiskInv, Written
  <1>4. row[w].ts \in Nat /\ clock <= row[w].ts + 1
    BY <1>a, <1>b DEF RowInv, Fresh, TypeOK, Row
  <1>5. ASSUME NEW h \in Purges, NEW f \in togo[h], NEW k \in Kind
        PROVE  File(row[w], k) # f
    <2>1. DayOf(row[w].ts) # f.day
      BY <1>4 DEF DiskInv, Past
    <2> QED BY <2>1 DEF File
  <1>6. Past'
    BY <1>b, <1>5 DEF DiskInv, Past, File, DayOf
  <1>7. Remaining'
    BY <1>b, <1>c DEF DiskInv, Remaining, File, DayOf
  <1> QED BY <1>2, <1>3, <1>6, <1>7 DEF DiskInv

LEMMA DiskDelete ==
    ASSUME DiskInv, NumInv', NEW h \in Purges, DeleteRows(h)
    PROVE  DiskInv'
  <1>a. RowInv /\ TypeOK /\ PlaceOK
    BY DEF DiskInv, NumInv, RowInv, TypeInv, TypeOK, PlaceOK
  <1>b. /\ Goto(h, "unlink") /\ togo' = [togo EXCEPT ![h] = MediaPaths(victims[h])]
        /\ UNCHANGED <<clock, disk, drawn, row>>
    BY DEF DeleteRows, persisting
  <1>c. /\ \A g \in Purges : g # h => pc'[g] = pc[g]
        /\ \A w \in Writers : pc'[w] = pc[w]
    BY <1>a, <1>b, GotoPurge, ThreadAssumption DEF PurgePlace
  <1>1. PICK cutoff \in 0..(clock - Day) :
          /\ victims[h] = {r \in rows : r.ts < cutoff}
          /\ rows' = rows \ victims[h]
          /\ deleted' = [deleted EXCEPT ![h] = victims[h]]
    BY <1>a, DeletesVictims
  <1>2. /\ togo'[h] = MediaPaths(victims[h]) /\ deleted'[h] = victims[h]
        /\ \A g \in Purges : g # h => togo'[g] = togo[g] /\ deleted'[g] = deleted[g]
    BY <1>1, <1>b, <1>a DEF TypeOK
  <1>d. \A r, k : Good(r, k)' <=> Good(r, k)
    BY <1>b DEF Good, File, DayOf
  <1>3. AllGood' /\ Written'
    BY <1>1, <1>b, <1>c, <1>d DEF DiskInv, AllGood, Written
  <1>4. ASSUME NEW v \in victims[h], NEW k \in Kind
        PROVE  /\ \A t \in Nat : clock <= t + 1 => DayOf(t) # File(v, k).day
               /\ \A r \in rows', kind \in Kind : File(r, kind) # File(v, k)
    <2>1. v \in rows /\ v.ts < cutoff /\ v.ts \in Nat /\ clock \in Nat /\ Day \in Nat
      BY <1>1, <1>a, DayAssumption DEF TypeOK, Row
    <2>2. \A t \in Nat : clock <= t + 1 => v.ts + Day <= t
      BY <2>1
    <2>3. \A t \in Nat : clock <= t + 1 => DayOf(v.ts) # DayOf(t)
      BY <2>1, <2>2, DayApart
    <2>4. \A r \in rows' : r.id # v.id
      BY <1>1, <2>1, <1>a DEF RowInv, UniqueIds
    <2> QED BY <2>3, <2>4 DEF File
  <1>5. Past'
    <2> SUFFICES ASSUME NEW g \in Purges, NEW f \in togo'[g]
                 PROVE  /\ \A t \in Nat : clock <= t + 1 => DayOf(t) # f.day
                        /\ \A r \in rows', kind \in Kind : File(r, kind) # f
      BY <1>b DEF Past, File, DayOf
    <2>1. CASE g = h
      <3>1. PICK v \in victims[h], k \in Kind : f = File(v, k)
        BY <2>1, <1>2 DEF MediaPaths
      <3> QED BY <3>1, <1>4
    <2>2. CASE g # h
      BY <2>2, <1>1, <1>2 DEF DiskInv, Past
    <2> QED BY <2>1, <2>2
  <1>6. Remaining'
    <2> SUFFICES ASSUME NEW g \in Purges, pc'[g] = "unlink", NEW r \in deleted'[g],
                        NEW k \in Kind
                 PROVE  \/ File(r, k) \in togo'[g]
                        \/ File(r, k) \notin DOMAIN disk
                        \/ disk[File(r, k)] # r.n
      BY <1>b DEF Remaining, File, DayOf
    <2>1. CASE g = h
      BY <2>1, <1>2 DEF MediaPaths
    <2>2. CASE g # h
      BY <2>2, <1>2, <1>c DEF DiskInv, Remaining
    <2> QED BY <2>1, <2>2
  <1> QED BY <1>3, <1>5, <1>6 DEF DiskInv

LEMMA DiskUnlink ==
    ASSUME DiskInv, NumInv', NEW h \in Purges, Unlink(h)
    PROVE  DiskInv'
  <1>a. RowInv /\ TypeOK
    BY DEF DiskInv, NumInv, RowInv, TypeInv
  <1>1. PICK f \in togo[h] :
          /\ disk' = [g \in DOMAIN disk \ {f} |-> disk[g]]
          /\ togo' = [togo EXCEPT ![h] = @ \ {f}]
          /\ UNCHANGED <<clock, rows, pc, row, drawn, deleted>>
    BY DEF Unlink, persisting
  <1>2. \A g : /\ g \in DOMAIN disk' <=> g \in DOMAIN disk /\ g # f
               /\ g \in DOMAIN disk' => disk'[g] = disk[g]
    BY <1>1
  <1>3. togo'[h] = togo[h] \ {f} /\ \A g \in Purges : g # h => togo'[g] = togo[g]
    BY <1>1, <1>a DEF TypeOK
  <1>4. \A r, k : Good(r, k) /\ File(r, k) # f => Good(r, k)'
    BY <1>1, <1>2 DEF Good, File, DayOf
  <1>5. AllGood'
    BY <1>1, <1>4 DEF DiskInv, AllGood, Past
  <1>6. ASSUME NEW w \in Writers, InTx(w), NEW k PROVE File(row[w], k) # f
    <2>1. row[w].ts \in Nat /\ clock <= row[w].ts + 1
      BY <1>6, <1>a DEF InTx, RowInv, Fresh, TypeOK, Row
    <2>2. DayOf(row[w].ts) # f.day
      BY <2>1 DEF DiskInv, Past
    <2> QED BY <2>2 DEF File
  <1>7. Written'
    BY <1>1, <1>4, <1>6 DEF DiskInv, Written, InTx
  <1>8. Past'
    BY <1>1, <1>3 DEF DiskInv, Past, File, DayOf
  <1>9. Remaining'
    BY <1>1, <1>2, <1>3 DEF DiskInv, Remaining, File, DayOf
  <1> QED BY <1>5, <1>7, <1>8, <1>9 DEF DiskInv

LEMMA DiskStep ==
    ASSUME OnePurge
    PROVE  DiskInv /\ [Next]_vars => DiskInv'
  <1> SUFFICES ASSUME DiskInv, [Next]_vars PROVE DiskInv'
    OBVIOUS
  <1>a. NumInv /\ NumInv' /\ TypeOK /\ PlaceOK
    BY NumStep DEF DiskInv, NumInv, RowInv, TypeInv, TypeOK, PlaceOK
  <1>1. ASSUME NEW w \in Writers, Persist(w) PROVE DiskInv'
    <2>1. CASE Finalise(w) \/ Insert(w) \/ InsertTimesOut(w) \/ Rollback(w) \/ Announce(w)
      <3>1. PICK place \in {"insert", "full", "idle"} : Goto(w, place)
        BY <2>1 DEF Finalise, Insert, InsertTimesOut, Rollback, Announce
      <3>2. /\ pc'[w] = place /\ \A u \in Writers : u # w => pc'[u] = pc[u]
            /\ \A h \in Purges : pc'[h] = pc[h]
        BY <3>1, <1>a, GotoWriter, ThreadAssumption DEF WriterPlace
      <3>3. /\ UNCHANGED <<disk, drawn, rows, clock, togo, deleted>>
            /\ \A u \in Writers : u # w => row'[u] = row[u]
        BY <2>1, <1>a DEF Finalise, Insert, InsertTimesOut, Rollback, Announce, store,
           persisting, purging, TypeOK
      <3> QED BY <3>2, <3>3, <1>a, DiskQuiet
    <2>2. CASE WriteFull(w) \/ WriteThumb(w)
      BY <2>2, <1>a, DiskWrite DEF WriteFull, WriteThumb, Kind
    <2>3. CASE CommitEvent(w)
      BY <2>3, <1>a, DiskCommit
    <2> QED BY <1>1, <2>1, <2>2, <2>3 DEF Persist
  <1>2. ASSUME NEW h \in Purges, Purge(h) PROVE DiskInv'
    <2>1. CASE Select(h) \/ DeleteTimesOut(h) \/ UnlinkFails(h) \/ AnswerPurge(h)
      <3>1. PICK place \in {"delete", "idle"} : Goto(h, place)
        BY <2>1 DEF Select, DeleteTimesOut, UnlinkFails, AnswerPurge
      <3>2. /\ pc'[h] = place /\ \A g \in Purges : g # h => pc'[g] = pc[g]
            /\ \A w \in Writers : pc'[w] = pc[w]
        BY <3>1, <1>a, GotoPurge, ThreadAssumption DEF PurgePlace
      <3>3. /\ UNCHANGED <<disk, drawn, rows, clock, row>>
            /\ \A g \in Purges : togo'[g] \subseteq togo[g]
            /\ \A g \in Purges : g # h => togo'[g] = togo[g] /\ deleted'[g] = deleted[g]
        BY <2>1, <1>a DEF Select, DeleteTimesOut, UnlinkFails, AnswerPurge, store,
           persisting, purging, TypeOK
      <3> QED BY <3>2, <3>3, <1>a, DiskQuiet
    <2>2. CASE DeleteRows(h)
      BY <2>2, <1>a, DiskDelete
    <2>3. CASE Unlink(h)
      BY <2>3, <1>a, DiskUnlink
    <2> QED BY <1>2, <2>1, <2>2, <2>3 DEF Purge
  <1>3. CASE Crash
    <2>1. \A t \in Writers \cup Purges : pc'[t] = "idle"
      BY <1>3 DEF Crash
    <2> QED BY <1>3, <2>1, <1>a, DiskQuiet DEF Crash, store, persisting
  <1>4. CASE Tick \/ UNCHANGED vars
    BY <1>4, <1>a, DiskQuiet DEF Tick, vars, store, persisting, purging, TypeOK
  <1> QED BY <1>1, <1>2, <1>3, <1>4 DEF Next

LEMMA DiskInvariant ==
    ASSUME OnePurge
    PROVE  Spec => []DiskInv
  BY DiskInit, DiskStep, PTL DEF Spec

(* With one purge at a time, an event whose picture was written keeps it,  *)
(* and it shows that event and no other, although ids and so file names    *)
(* are used again (storage/media.py: _date_path; pipeline/runner.py).      *)
THEOREM OwnPicturesHolds ==
    ASSUME OnePurge
    PROVE  Spec => []OwnPictures
  <1>1. DiskInv => OwnPictures
    BY DEF DiskInv, AllGood, Good, OwnPictures
  <1> QED BY <1>1, DiskInvariant, PTL

(* With one purge at a time, when it answers 204 no picture of an event    *)
(* that it deleted is left (web/routes/settings.py: purge_events).         *)
THEOREM PurgeKeepsItsWordHolds ==
    ASSUME OnePurge
    PROVE  Spec => []PurgeKeepsItsWord
  <1>1. DiskInv => PurgeKeepsItsWord
    BY DEF DiskInv, Remaining, PurgeKeepsItsWord
  <1> QED BY <1>1, DiskInvariant, PTL
=============================================================================
