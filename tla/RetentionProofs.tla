--------------------------- MODULE RetentionProofs ---------------------------
(***************************************************************************)
(* What holds of the sweeper for every cap, length of a day and bound.     *)
(***************************************************************************)
EXTENDS Retention, FiniteSetTheorems, WellFoundedInduction, TLAPS

LEMMA DayType == \A ts \in Nat : DayOf(ts) \in Nat
  BY DayAssumption DEF DayOf

(* More than a day apart is on different days.                             *)
LEMMA DayApart == \A s, t \in Nat : s + Day < t => DayOf(s) # DayOf(t)
  BY DayAssumption DEF DayOf

(* A set of numbers with a bound has a largest.                            *)
LEMMA MaxOfBounded ==
    ASSUME NEW b \in Nat, NEW S \in SUBSET Nat, S # {}, \A x \in S : x <= b
    PROVE  Max(S) \in S /\ \A x \in S : x <= Max(S)
  <1> DEFINE T == {b - x : x \in S}
  <1>0. T # {}
    OBVIOUS
  <1>1. ASSUME NEW y \in T PROVE y \in Nat
    <2>1. PICK x \in S : y = b - x
      OBVIOUS
    <2> QED BY <2>1
  <1> DEFINE less == OpToRel(<, Nat)
  <1>2. PICK t \in T : \A y \in T : ~(<<y, t>> \in less)
    BY <1>0, <1>1, NatLessThanWellFounded, WFMin, Zenon
  <1>3. PICK m \in S : t = b - m
    OBVIOUS
  <1>4. \A x \in S : x <= m
    <2> SUFFICES ASSUME NEW x \in S, x > m PROVE FALSE
      OBVIOUS
    <2>1. b - x \in T /\ b - x \in Nat /\ t \in Nat /\ b - x < t
      BY <1>3
    <2> QED BY <1>2, <2>1 DEF OpToRel
  <1> QED BY <1>4 DEF Max

(* Ids are bounded, as Newest needs; a set of victims is only there while  *)
(* it is worked through.                                                   *)
Bounded == \A r \in rows : r.id <= taken
Working == pc \notin {"victims", "unlinkOldest"} => victims = {}

TypeInv == TypeOK /\ Bounded /\ Working

LEMMA NewestType ==
    ASSUME TypeOK, Bounded
    PROVE  /\ Newest(rows) \in 0..taken
           /\ \A r \in rows : r.id <= Newest(rows)
  <1> DEFINE S == {r.id : r \in rows} \cup {0}
  <1>1. S \in SUBSET Nat /\ S # {}
    BY DEF TypeOK, Row
  <1>2. \A x \in S : x <= taken
    BY DEF TypeOK, Bounded
  <1>3. Max(S) \in S /\ \A x \in S : x <= Max(S)
    BY <1>1, <1>2, MaxOfBounded DEF TypeOK
  <1>4. Max(S) \in 0..taken
    BY <1>1, <1>2, <1>3
  <1>5. \A r \in rows : r.id \in S
    OBVIOUS
  <1>6. Newest(rows) = Max(S)
    BY DEF Newest
  <1> QED BY <1>3, <1>4, <1>5, <1>6

LEMMA FileType ==
    ASSUME NEW r \in Row, NEW kind \in Kind
    PROVE  File(r, kind) \in MediaFile
  BY DayType DEF Row, File, MediaFile

(* What a commit deletes: by the id, a row for every event that is marked. *)
LEMMA CommitSweeps ==
    ASSUME Commit, NEW d \in swept'
    PROVE  \/ d \in swept
           \/ /\ d \in [marked : doomed, row : rows]
              /\ d.marked \in doomed /\ d.row \in rows /\ d.marked.id = d.row.id
  BY DEF Commit

LEMMA TypeInit == Init => TypeInv
  <1> SUFFICES ASSUME Init PROVE TypeInv
    OBVIOUS
  <1>1. locked \in BOOLEAN /\ kept \in BOOLEAN /\ alone \in BOOLEAN
    BY DEF Init
  <1>2. TypeOK
    BY <1>1 DEF Init, TypeOK
  <1> QED BY <1>2 DEF Init, TypeInv, Bounded, Working

LEMMA TypeStep == TypeInv /\ [Next]_vars => TypeInv'
  <1> SUFFICES ASSUME TypeInv, [Next]_vars PROVE TypeInv'
    OBVIOUS
  <1>a. TypeOK /\ Bounded /\ Working
    BY DEF TypeInv
  <1>1. CASE Tick
    BY <1>1, <1>a DEF Tick, sweep, past, TypeInv, TypeOK, Bounded, Working
  <1>2. CASE Record
    <2> DEFINE r == [n |-> taken + 1, id |-> 1 + Newest(rows), ts |-> clock]
    <2>1. /\ taken' = taken + 1 /\ rows' \subseteq rows \cup {r}
          /\ disk' \subseteq disk \cup Files(r) /\ alone' = FALSE
          /\ UNCHANGED <<clock, sweep, sweeps, stripped, swept>>
      BY <1>2 DEF Record
    <2>2. r \in Row /\ r.id <= taken + 1
      BY <1>a, NewestType DEF TypeOK, Row
    <2>3. Files(r) \subseteq MediaFile
      BY <2>2, FileType DEF Files
    <2>a. (alone \in BOOLEAN)'
      BY <2>1
    <2>4. TypeOK'
      BY <2>1, <2>2, <2>3, <2>a, <1>a DEF sweep, TypeOK
    <2>5. Bounded' /\ Working'
      BY <2>1, <2>2, <1>a DEF sweep, TypeOK, Row, Bounded, Working
    <2> QED BY <2>4, <2>5 DEF TypeInv
  <1>3. CASE Purge
    <2>1. /\ rows' \subseteq rows /\ disk' \subseteq disk /\ alone' = FALSE
          /\ UNCHANGED <<clock, taken, sweep, sweeps, stripped, swept>>
      BY <1>3 DEF Purge, PurgeRows
    <2>2. (alone \in BOOLEAN)'
      BY <2>1
    <2> QED BY <2>1, <2>2, <1>a DEF sweep, TypeInv, TypeOK, Bounded, Working
  <1>4. CASE StartSweep
    <2>1. OverCap \subseteq Nat
      BY <1>a, DayType DEF OverCap, TypeOK, Row
    <2> QED BY <1>4, <2>1, <1>a DEF StartSweep, table, TypeInv, TypeOK, Bounded, Working
  <1>5. ASSUME NEW r \in Row, DeleteFiles(r),
               UNCHANGED <<clock, rows, taken, locked, sweeps, swept>>,
               days' \subseteq days, victims' \subseteq victims,
               pc' \in {"victims", "deleteOldest"},
               pc' = "deleteOldest" => victims' = {}
        PROVE  TypeInv'
    BY <1>5, <1>a DEF DeleteFiles, TypeInv, TypeOK, Bounded, Working
  <1>6. CASE Sweep
    <2>1. CASE VisitDay
      <3>1. PICK d \in days : victims' = Slice({r \in rows \ Hit : DayOf(r.ts) = d})
        BY <2>1 DEF VisitDay
      <3>2. victims' \subseteq rows
        BY <3>1 DEF Slice, Oldest
      <3> QED BY <2>1, <3>2, <1>a DEF VisitDay, table, past, TypeInv, TypeOK, Bounded, Working
    <2>2. CASE DeleteVictim
      <3>1. PICK r \in Oldest(victims, 1) :
              /\ pc = "victims" /\ DeleteFiles(r) /\ victims' = victims \ {r}
              /\ UNCHANGED <<clock, rows, taken, locked, pc, days, sweeps, swept>>
        BY <2>2 DEF DeleteVictim
      <3>2. r \in Row
        BY <1>a DEF Oldest, TypeOK
      <3> QED BY <3>1, <3>2, <1>5
    <2>3. CASE DayDone \/ MeasureDisk \/ Abort \/ Return
      BY <2>3, <1>a DEF DayDone, MeasureDisk, Abort, Return, table, past, TypeInv, TypeOK,
         Bounded, Working
    <2>4. CASE CommitDays \/ DeleteOldest
      <3>1. Commit
        BY <2>4 DEF CommitDays, DeleteOldest
      <3>2. swept' \subseteq Deletion
        BY <3>1, <1>a, CommitSweeps DEF TypeOK, Deletion
      <3>3. TypeOK'
        BY <2>4, <3>1, <3>2, <1>a DEF CommitDays, DeleteOldest, Commit, TypeOK
      <3>4. Bounded' /\ Working'
        BY <2>4, <3>1, <1>a DEF CommitDays, DeleteOldest, Commit, Bounded, Working
      <3> QED BY <3>3, <3>4 DEF TypeInv
    <2>5. CASE PickOldest
      <3>1. Oldest(rows, 1) \subseteq rows
        BY DEF Oldest
      <3>2. rows = {} => Oldest(rows, 1) = {}
        BY <3>1
      <3> QED BY <2>5, <3>1, <3>2, <1>a
            DEF PickOldest, table, past, TypeInv, TypeOK, Bounded, Working
    <2>6. CASE UnlinkOldest
      <3>1. PICK r \in victims :
              /\ DeleteFiles(r) /\ victims' = {} /\ pc' = "deleteOldest"
              /\ UNCHANGED <<clock, rows, taken, locked, days, sweeps, swept>>
        BY <2>6 DEF UnlinkOldest
      <3>2. r \in Row
        BY <1>a DEF TypeOK
      <3> QED BY <3>1, <3>2, <1>5
    <2> QED BY <1>6, <2>1, <2>2, <2>3, <2>4, <2>5, <2>6 DEF Sweep
  <1>7. CASE Trouble
    BY <1>7, <1>a DEF Trouble, LockTimesOut, MeasureDiskFails, Crash, Fail, table,
       TypeInv, TypeOK, Bounded, Working
  <1>8. CASE UNCHANGED vars
    BY <1>8, <1>a DEF vars, TypeInv, TypeOK, Bounded, Working
  <1> QED BY <1>1, <1>2, <1>3, <1>4, <1>6, <1>7, <1>8 DEF Next

LEMMA TypeInvariant == Spec => []TypeInv
  BY TypeInit, TypeStep, PTL DEF Spec

(* The variables of the sweeper keep their types, for every length of a    *)
(* day and every cap (retention.py: RetentionSweeper).                     *)
THEOREM TypeCorrect == Spec => []TypeOK
  <1>1. TypeInv => TypeOK
    BY DEF TypeInv
  <1> QED BY <1>1, TypeInvariant, PTL

---------------------------------------------------------------------------
(* Deleted with both pictures.                                             *)

(* Every picture of an event, the ones a sweep deleted included, is at the *)
(* event's own two paths; of an event marked, and of a marked event that   *)
(* was deleted, there is none.                                             *)
Known == rows \cup victims \cup doomed \cup {d.row : d \in swept}
Deleted == doomed \cup {d.row : d \in {e \in swept : e.row = e.marked}}
Numbered ==
    /\ \A f \in disk : f.n <= taken
    /\ \A r \in Known : r.n <= taken
OwnFiles == \A r \in Known : \A f \in disk : f.n = r.n => f \in Files(r)
Gone == \A r \in Deleted : \A f \in disk : f.n # r.n

FileInv == TypeInv /\ Numbered /\ OwnFiles /\ Gone

LEMMA FileInit == Init => FileInv
  BY TypeInit DEF Init, FileInv, Numbered, OwnFiles, Gone, Known, Deleted

(* A step that adds no row, no picture and no victim but from the rows.    *)
LEMMA FileQuiet ==
    ASSUME FileInv, TypeInv', taken' = taken, disk' \subseteq disk,
           Known' \subseteq Known, Deleted' \subseteq Deleted
    PROVE  FileInv'
  BY DEF FileInv, Numbered, OwnFiles, Gone, Files, File, DayOf

LEMMA FileDelete ==
    ASSUME FileInv, TypeInv', NEW v \in victims, DeleteFiles(v),
           victims' \subseteq victims, UNCHANGED <<rows, taken, swept>>
    PROVE  FileInv'
  <1>1. PICK stay \in SUBSET {k \in Kind : At(v, k) # {}} :
          /\ disk' = disk \ UNION {At(v, k) : k \in Kind \ stay}
          /\ doomed' = IF stay = {} THEN doomed \cup {v} ELSE doomed
    BY DEF DeleteFiles
  <1>2. Numbered' /\ OwnFiles'
    BY <1>1 DEF FileInv, Numbered, OwnFiles, Known, Files, File, DayOf
  <1>3. ASSUME stay = {}, NEW f \in disk', f.n = v.n PROVE FALSE
    <2>1. PICK k \in Kind : f = File(v, k)
      BY <1>1, <1>3 DEF FileInv, OwnFiles, Known, Files
    <2>2. f \in At(v, k)
      BY <1>1, <2>1 DEF At, File
    <2> QED BY <1>1, <1>3, <2>2
  <1>4. Deleted' \subseteq Deleted \cup {v} /\ (stay # {} => Deleted' = Deleted)
    BY <1>1 DEF Deleted
  <1>5. Gone'
    BY <1>1, <1>3, <1>4 DEF FileInv, Gone
  <1> QED BY <1>2, <1>5 DEF FileInv

LEMMA FileCommit ==
    ASSUME FileInv, TypeInv', Commit, UNCHANGED <<taken, disk, victims>>
    PROVE  FileInv'
  <1>1. rows' \subseteq rows /\ doomed' = {}
    BY DEF Commit
  <1>2. ASSUME NEW d \in swept' PROVE d.row \in Known /\ (d.row = d.marked => d.row \in Deleted)
    BY CommitSweeps DEF Known, Deleted
  <1>3. Known' \subseteq Known
    BY <1>1, <1>2 DEF Known
  <1>4. Deleted' \subseteq Deleted
    BY <1>1, <1>2 DEF Deleted
  <1> QED BY <1>3, <1>4, FileQuiet

LEMMA FileStep == FileInv /\ [Next]_vars => FileInv'
  <1> SUFFICES ASSUME FileInv, [Next]_vars PROVE FileInv'
    OBVIOUS
  <1>a. TypeInv /\ TypeInv'
    BY TypeStep DEF FileInv
  <1>1. CASE Tick \/ Purge \/ StartSweep
    BY <1>1, <1>a, FileQuiet DEF Tick, Purge, PurgeRows, StartSweep, table, sweep, past, Known,
       Deleted
  <1>2. CASE Record
    <2> DEFINE r == [n |-> taken + 1, id |-> 1 + Newest(rows), ts |-> clock]
    <2>1. /\ taken' = taken + 1 /\ rows' \subseteq rows \cup {r}
          /\ disk' \subseteq disk \cup Files(r)
          /\ UNCHANGED <<victims, doomed, swept>>
      BY <1>2 DEF Record, sweep
    <2>2. r.n = taken + 1 /\ \A f \in Files(r) : f.n = taken + 1
      BY DEF Files, File
    <2>a. Known \subseteq Row
      BY <1>a DEF TypeInv, TypeOK, Deletion, Known
    <2>3. taken \in Nat /\ (\A f \in disk : f.n \in Nat) /\ \A q \in Known : q.n \in Nat
      BY <1>a, <2>a DEF TypeInv, TypeOK, Row, MediaFile
    <2>4. Known' \subseteq Known \cup {r}
      BY <2>1 DEF Known
    <2> HIDE DEF r
    <2>5. Numbered'
      BY <2>1, <2>2, <2>3, <2>4 DEF FileInv, Numbered
    <2>6. OwnFiles'
      <3> SUFFICES ASSUME NEW q \in Known', NEW f \in disk', f.n = q.n
                   PROVE  f \in Files(q)'
        BY DEF OwnFiles
      <3>1. Files(q)' = Files(q)
        BY DEF Files, File, DayOf
      <3>2. CASE q \in Known
        BY <3>1, <3>2, <2>1, <2>2, <2>3 DEF FileInv, Numbered, OwnFiles
      <3>3. CASE q = r
        BY <3>1, <3>3, <2>1, <2>2, <2>3 DEF FileInv, Numbered
      <3> QED BY <2>4, <3>2, <3>3
    <2>7. Gone'
      <3>1. Deleted' = Deleted
        BY <2>1 DEF Deleted
      <3>2. Deleted \subseteq Known
        BY DEF Deleted, Known
      <3> QED BY <3>1, <3>2, <2>1, <2>2, <2>3 DEF FileInv, Numbered, Gone
    <2> QED BY <1>a, <2>5, <2>6, <2>7 DEF FileInv
  <1>3. CASE Sweep
    <2>1. CASE VisitDay
      <3>1. PICK d \in days : victims' = Slice({r \in rows \ Hit : DayOf(r.ts) = d})
        BY <2>1 DEF VisitDay
      <3>2. victims' \subseteq rows
        BY <3>1 DEF Slice, Oldest
      <3> QED BY <2>1, <3>2, <1>a, FileQuiet DEF VisitDay, table, past, Known, Deleted
    <2>2. CASE DeleteVictim
      BY <2>2, <1>a, FileDelete DEF DeleteVictim, Oldest
    <2>3. CASE DayDone \/ MeasureDisk \/ Abort \/ Return
      BY <2>3, <1>a, FileQuiet DEF DayDone, MeasureDisk, Abort, Return, table, past, Known,
         Deleted
    <2>4. CASE CommitDays \/ DeleteOldest
      BY <2>4, <1>a, FileCommit DEF CommitDays, DeleteOldest
    <2>5. CASE PickOldest
      <3>1. Oldest(rows, 1) \subseteq rows
        BY DEF Oldest
      <3> QED BY <2>5, <3>1, <1>a, FileQuiet DEF PickOldest, table, past, Known, Deleted
    <2>6. CASE UnlinkOldest
      BY <2>6, <1>a, FileDelete DEF UnlinkOldest
    <2> QED BY <1>3, <2>1, <2>2, <2>3, <2>4, <2>5, <2>6 DEF Sweep
  <1>4. CASE Trouble
    BY <1>4, <1>a, FileQuiet DEF Trouble, LockTimesOut, MeasureDiskFails, Crash, Fail,
       table, Known, Deleted
  <1>5. CASE UNCHANGED vars
    BY <1>5, <1>a, FileQuiet DEF vars, Known, Deleted
  <1> QED BY <1>1, <1>2, <1>3, <1>4, <1>5 DEF Next

---------------------------------------------------------------------------
(* Stripped only if chosen.                                                *)

(* A victim that is gone was purged, at more than a day's age; so a row    *)
(* that comes to have the victim's id is more than a day younger, and what *)
(* a commit deletes is what was marked, or so much younger.                *)
UniqueIds == \A q, r \in rows : q.id = r.id => q = r
Marked == victims \cup doomed
VictimsThere == \A v \in Marked : v \in rows \/ v.ts + Day < clock
Apart == \A v \in Marked : \A r \in rows : r.id = v.id => r = v \/ v.ts + Day < r.ts
SweptApart == \A d \in swept : d.row = d.marked \/ d.marked.ts + Day < d.row.ts

StripInv == TypeInv /\ UniqueIds /\ VictimsThere /\ Apart /\ SweptApart /\ OnlyVictimsStripped

LEMMA StripInit == Init => StripInv
  BY TypeInit DEF Init, StripInv, UniqueIds, Marked, VictimsThere, Apart, SweptApart,
     OnlyVictimsStripped

(* No new row, every picture as it was, and only rows are marked.          *)
LEMMA StripQuiet ==
    ASSUME StripInv, TypeInv', clock' = clock, disk' = disk, stripped' = stripped,
           swept' \subseteq swept, rows' = rows, Marked' \subseteq Marked \cup rows
    PROVE  StripInv'
  <1>1. UniqueIds' /\ VictimsThere' /\ Apart'
    BY DEF StripInv, UniqueIds, VictimsThere, Apart
  <1>2. SweptApart'
    BY DEF StripInv, SweptApart
  <1>3. OnlyVictimsStripped'
    BY DEF StripInv, OnlyVictimsStripped, Files, File, DayOf
  <1> QED BY <1>1, <1>2, <1>3 DEF StripInv

LEMMA StripCommit ==
    ASSUME StripInv, TypeInv', Commit, victims = {}, UNCHANGED <<clock, disk, stripped, victims>>
    PROVE  StripInv'
  <1>1. rows' \subseteq rows /\ Marked' = {}
    BY DEF Commit, Marked
  <1>2. UniqueIds' /\ VictimsThere' /\ Apart'
    BY <1>1 DEF StripInv, UniqueIds, VictimsThere, Apart
  <1>3. SweptApart'
    BY CommitSweeps DEF StripInv, SweptApart, Apart, Marked
  <1>4. OnlyVictimsStripped'
    BY <1>1 DEF StripInv, OnlyVictimsStripped, Files, File, DayOf
  <1> QED BY <1>2, <1>3, <1>4 DEF StripInv

LEMMA StripDelete ==
    ASSUME StripInv, TypeInv', NEW v \in victims, DeleteFiles(v),
           victims' \subseteq victims, UNCHANGED <<rows, clock, swept>>
    PROVE  StripInv'
  <1>1. PICK stay \in SUBSET Kind :
          disk' = disk \ UNION {At(v, k) : k \in Kind \ stay}
    BY DEF DeleteFiles
  <1>2. stripped' = stripped \cup {v} /\ doomed' \subseteq doomed \cup {v}
    BY DEF DeleteFiles
  <1>3. OnlyVictimsStripped'
    <2> SUFFICES ASSUME NEW r \in rows, r # v, Files(r) \subseteq disk,
                        NEW f \in Files(r), f \notin disk'
                 PROVE  FALSE
      BY <1>2 DEF StripInv, OnlyVictimsStripped, Files, File, DayOf
    <2>1. PICK k \in Kind : f \in At(v, k)
      BY <1>1
    <2>2. f.id = r.id /\ f.day = DayOf(r.ts)
      BY DEF Files, File
    <2>3. r.id = v.id /\ DayOf(r.ts) = DayOf(v.ts)
      BY <2>1, <2>2 DEF At
    <2>4. v.ts + Day < r.ts
      BY <2>3 DEF StripInv, Apart, Marked
    <2>5. v.ts \in Nat /\ r.ts \in Nat
      BY DEF StripInv, TypeInv, TypeOK, Row
    <2> QED BY <2>3, <2>4, <2>5, DayApart
  <1>4. Marked' \subseteq Marked
    BY <1>2 DEF Marked
  <1>5. VictimsThere' /\ Apart' /\ UniqueIds' /\ SweptApart'
    BY <1>4 DEF StripInv, UniqueIds, VictimsThere, Apart, SweptApart
  <1> QED BY <1>3, <1>5 DEF StripInv

LEMMA StripStep == StripInv /\ [Next]_vars => StripInv'
  <1> SUFFICES ASSUME StripInv, [Next]_vars PROVE StripInv'
    OBVIOUS
  <1>a. TypeInv /\ TypeInv'
    BY TypeStep DEF StripInv
  <1>b. TypeOK /\ Bounded /\ Working
    BY <1>a DEF TypeInv
  <1>1. CASE Tick
    <2>1. clock \in Nat /\ \A v \in Marked : v.ts \in Nat
      BY <1>b DEF TypeOK, Row, Marked
    <2>2. clock' = clock + 1 /\ Marked' = Marked /\ UNCHANGED <<rows, disk, stripped, swept>>
      BY <1>1 DEF Tick, sweep, past, Marked
    <2>3. VictimsThere'
      BY <2>1, <2>2, DayAssumption DEF StripInv, VictimsThere
    <2>4. UniqueIds' /\ Apart' /\ SweptApart'
      BY <2>2 DEF StripInv, UniqueIds, Apart, SweptApart
    <2>5. OnlyVictimsStripped'
      BY <2>2 DEF StripInv, OnlyVictimsStripped, Files, File, DayOf
    <2> QED BY <1>a, <2>3, <2>4, <2>5 DEF StripInv
  <1>2. CASE Record
    <2> DEFINE r == [n |-> taken + 1, id |-> 1 + Newest(rows), ts |-> clock]
               over == UNION {At(r, kind) : kind \in Kind}
    <2>1. /\ rows' = rows \cup {r} \/ rows' = rows
          /\ disk' = (disk \ over) \cup Files(r)
          /\ Marked' = Marked /\ UNCHANGED <<clock, stripped, swept>>
      BY <1>2 DEF Record, sweep, Marked
    <2>2. \A q \in rows : q.id < r.id
      BY <1>b, NewestType DEF TypeOK, Row
    <2>3. r.ts = clock /\ r.id \in Nat /\ clock \in Nat
      BY <1>b, NewestType DEF TypeOK
    <2>4. \A f \in over : f.id = r.id
      BY DEF At
    <2>5. \A q \in rows : \A f \in Files(q) : f.id = q.id
      BY DEF Files, File
    <2>6. \A q \in rows : q.id \in Nat
      BY <1>b DEF TypeOK, Row
    <2>7. \A v \in Marked : v.ts \in Nat
      BY <1>b DEF TypeOK, Row, Marked
    <2> HIDE DEF r, over
    <2>8. UniqueIds'
      BY <2>1, <2>2, <2>3, <2>6 DEF StripInv, UniqueIds
    <2>9. VictimsThere'
      BY <2>1 DEF StripInv, VictimsThere
    <2>10. Apart'
      <3> SUFFICES ASSUME NEW v \in Marked, r.id = v.id
                   PROVE  v.ts + Day < r.ts
        BY <2>1 DEF StripInv, Apart
      <3>1. v \notin rows
        BY <2>2, <2>3, <2>6
      <3>2. v.ts + Day < clock
        BY <3>1 DEF StripInv, VictimsThere
      <3> QED BY <3>2, <2>3
    <2>11. OnlyVictimsStripped'
      <3>1. \A q : Files(q)' = Files(q)
        BY DEF Files, File, DayOf
      <3>2. \A q \in rows : Files(q) \cap over = {}
        BY <2>2, <2>3, <2>4, <2>5, <2>6
      <3> QED BY <2>1, <3>1, <3>2 DEF StripInv, OnlyVictimsStripped
    <2>12. SweptApart'
      BY <2>1 DEF StripInv, SweptApart
    <2> QED BY <1>a, <2>8, <2>9, <2>10, <2>11, <2>12 DEF StripInv
  <1>3. CASE Purge
    <2>1. PICK back \in 1..(MaxClock \div Day) :
            PurgeRows({r \in rows : r.ts < clock - back * Day})
      BY <1>3 DEF Purge
    <2> DEFINE old == {r \in rows : r.ts < clock - back * Day}
    <2>2. Marked' = Marked /\ UNCHANGED <<clock, stripped, swept>>
      BY <2>1 DEF PurgeRows, sweep, Marked
    <2>3. \A r \in old : r.ts + Day < clock
      <3>1. back \in Nat /\ back >= 1 /\ Day \in Nat /\ Day >= 1
        BY DayAssumption
      <3>2. back * Day >= Day /\ back * Day \in Nat
        BY <3>1
      <3>3. clock \in Nat /\ \A r \in rows : r.ts \in Nat
        BY <1>b DEF TypeOK, Row
      <3> DEFINE span == back * Day
      <3>4. span \in Nat /\ span >= Day /\ \A r \in old : r.ts < clock - span
        BY <3>2
      <3> HIDE DEF span
      <3> QED BY <3>1, <3>3, <3>4
    <2>4. /\ rows' = rows \ old
          /\ disk' = disk \ UNION {At(r, kind) : r \in old, kind \in Kind}
          /\ old \subseteq rows
      BY <2>1 DEF PurgeRows
    <2> HIDE DEF old
    <2>5. VictimsThere'
      BY <2>2, <2>3, <2>4 DEF StripInv, VictimsThere
    <2>6. OnlyVictimsStripped'
      <3> SUFFICES ASSUME NEW r \in rows, r \notin old, Files(r) \subseteq disk,
                          NEW f \in Files(r), f \notin disk'
                   PROVE  FALSE
        BY <2>2, <2>4 DEF StripInv, OnlyVictimsStripped, Files, File, DayOf
      <3>1. PICK q \in old, k \in Kind : f \in At(q, k)
        BY <2>4
      <3>2. f.id = r.id /\ f.id = q.id
        BY <3>1 DEF Files, File, At
      <3> QED BY <3>1, <3>2, <2>4 DEF StripInv, UniqueIds
    <2>7. UniqueIds' /\ Apart' /\ SweptApart'
      BY <2>2, <2>4 DEF StripInv, UniqueIds, Apart, SweptApart
    <2> QED BY <1>a, <2>5, <2>6, <2>7 DEF StripInv
  <1>4. CASE StartSweep
    BY <1>4, <1>a, StripQuiet DEF StartSweep, table, Marked
  <1>5. CASE Sweep
    <2>1. CASE VisitDay
      <3>1. PICK d \in days : victims' = Slice({r \in rows \ Hit : DayOf(r.ts) = d})
        BY <2>1 DEF VisitDay
      <3>2. victims' \subseteq rows
        BY <3>1 DEF Slice, Oldest
      <3> QED BY <2>1, <3>2, <1>a, StripQuiet DEF VisitDay, table, past, Marked
    <2>2. CASE DeleteVictim
      BY <2>2, <1>a, StripDelete DEF DeleteVictim, Oldest
    <2>3. CASE DayDone \/ MeasureDisk \/ Abort \/ Return
      BY <2>3, <1>a, StripQuiet DEF DayDone, MeasureDisk, Abort, Return, table, past,
         Marked
    <2>4. CASE CommitDays \/ DeleteOldest
      <3>1. victims = {}
        BY <2>4, <1>b DEF CommitDays, DeleteOldest, Working
      <3> QED BY <2>4, <3>1, <1>a, StripCommit DEF CommitDays, DeleteOldest
    <2>5. CASE PickOldest
      <3>1. Oldest(rows, 1) \subseteq rows
        BY DEF Oldest
      <3> QED BY <2>5, <3>1, <1>a, StripQuiet DEF PickOldest, table, past, Marked
    <2>6. CASE UnlinkOldest
      BY <2>6, <1>a, StripDelete DEF UnlinkOldest
    <2> QED BY <1>5, <2>1, <2>2, <2>3, <2>4, <2>5, <2>6 DEF Sweep
  <1>6. CASE Trouble
    BY <1>6, <1>a, StripQuiet DEF Trouble, LockTimesOut, MeasureDiskFails, Crash, Fail,
       table, Marked
  <1>7. CASE UNCHANGED vars
    BY <1>7, <1>a, StripQuiet DEF vars, Marked
  <1> QED BY <1>1, <1>2, <1>3, <1>4, <1>5, <1>6, <1>7 DEF Next

(* A row has its pictures unless a sweep chose it: unlinking the pictures  *)
(* of a victim never takes those of another event, even when a purge has   *)
(* taken the victim away and a new event got its id (retention.py:         *)
(* _delete_event_files unlinks by the paths that the row has).             *)
THEOREM OnlyVictimsStrippedHolds == Spec => []OnlyVictimsStripped
  <1>1. StripInv => OnlyVictimsStripped
    BY DEF StripInv
  <1> QED BY <1>1, StripInit, StripStep, PTL DEF Spec

(* An event that a sweep marked and deleted has left no picture on the     *)
(* disk, whatever fails or is killed in between and whichever ids are used *)
(* again; and one that it deleted without having marked it, because DELETE *)
(* goes by the id, is more than a day younger than the one it meant, which *)
(* a purge had taken (retention.py: _delete_event_files, then s.delete).   *)
THEOREM OrphansExplainedHolds == Spec => []OrphansExplained
  <1>1. FileInv /\ StripInv => OrphansExplained
    <2> SUFFICES ASSUME FileInv, StripInv, NEW d \in swept
                 PROVE  /\ d.row = d.marked => \A f \in disk : f.n # d.row.n
                        /\ d.row # d.marked => d.marked.ts + Day < d.row.ts
      BY DEF OrphansExplained
    <2>1. d.row = d.marked => d.row \in Deleted
      BY DEF Deleted
    <2> QED BY <2>1 DEF FileInv, Gone, StripInv, SweptApart
  <1> QED BY <1>1, FileInit, FileStep, StripInit, StripStep, PTL DEF Spec
---------------------------------------------------------------------------
(* The oldest of a finite set.                                             *)

LEMMA BeforeOrder ==
    ASSUME NEW q \in Row, NEW r \in Row, NEW s \in Row
    PROVE  /\ ~Before(r, r)
           /\ Before(q, r) /\ Before(r, s) => Before(q, s)
           /\ ~Before(q, r) => r.ts <= q.ts
  BY DEF Before, Row

LEMMA EarlierFinite ==
    ASSUME NEW S, IsFiniteSet(S), NEW r
    PROVE  /\ IsFiniteSet({q \in S : Before(q, r)})
           /\ Cardinality({q \in S : Before(q, r)}) \in Nat
  <1>1. {q \in S : Before(q, r)} \in SUBSET S
    OBVIOUS
  <1> QED BY <1>1, FS_Subset, FS_CardinalityType

LEMMA EarlierFewer ==
    ASSUME NEW S, IsFiniteSet(S), S \subseteq Row,
           NEW q \in S, NEW r \in S, Before(q, r)
    PROVE  Cardinality({x \in S : Before(x, q)}) < Cardinality({x \in S : Before(x, r)})
  <1> DEFINE A == {x \in S : Before(x, q)}
             B == {x \in S : Before(x, r)}
  <1>1. A \in SUBSET B
    BY BeforeOrder
  <1>2. q \in B /\ q \notin A
    BY BeforeOrder
  <1>3. IsFiniteSet(B) /\ Cardinality(A) \in Nat /\ Cardinality(B) \in Nat
    BY EarlierFinite
  <1> HIDE DEF A, B
  <1>4. Cardinality(A) <= Cardinality(B) /\ Cardinality(A) # Cardinality(B)
    BY <1>1, <1>2, <1>3, FS_Subset
  <1>5. Cardinality(A) < Cardinality(B)
    BY <1>3, <1>4
  <1> QED BY <1>5 DEF A, B

(* Of what is not empty there is an element that none of it is before.     *)
LEMMA EarliestOf ==
    ASSUME NEW S, IsFiniteSet(S), S \subseteq Row, NEW T, T \subseteq S, T # {}
    PROVE  \E m \in T : \A q \in T : ~Before(q, m)
  <1> DEFINE f(r) == Cardinality({x \in S : Before(x, r)})
             F == {f(r) : r \in T}
             less == OpToRel(<, Nat)
  <1>1. \A r \in T : f(r) \in Nat
    BY EarlierFinite
  <1> HIDE DEF f
  <1>2. F # {} /\ \A y \in F : y \in Nat
    BY <1>1
  <1>3. PICK y \in F : \A z \in F : ~(<<z, y>> \in less)
    BY <1>2, NatLessThanWellFounded, WFMin, Zenon
  <1>4. PICK m \in T : y = f(m)
    OBVIOUS
  <1>5. ASSUME NEW q \in T, Before(q, m) PROVE FALSE
    <2>1. q \in S /\ m \in S
      OBVIOUS
    <2>2. f(q) < f(m)
      BY <2>1, <1>5, EarlierFewer DEF f
    <2>3. f(q) \in Nat /\ f(m) \in Nat /\ f(q) \in F /\ f(m) = y
      BY <1>1, <1>4
    <2> HIDE DEF F
    <2>4. <<f(q), y>> \in less
      BY <2>2, <2>3 DEF OpToRel
    <2> QED BY <1>3, <2>3, <2>4
  <1> QED BY <1>5

(* Slicing: the n oldest are n, if there are so many; and they are the     *)
(* oldest.                                                                 *)
LEMMA OldestAreEnough ==
    ASSUME NEW S, IsFiniteSet(S), S \subseteq Row,
           NEW n \in Nat, n <= Cardinality(S)
    PROVE  Cardinality(Oldest(S, n)) >= n
  <1> DEFINE T == Oldest(S, n)
  <1>1. T \in SUBSET S
    BY DEF Oldest
  <1>2. IsFiniteSet(T) /\ Cardinality(T) \in Nat /\ Cardinality(S) \in Nat
    BY <1>1, FS_Subset, FS_CardinalityType
  <1> SUFFICES ASSUME Cardinality(T) < n PROVE FALSE
    BY <1>2
  <1>3. T # S
    BY <1>2
  <1>4. PICK m \in S \ T : \A q \in S \ T : ~Before(q, m)
    <2>1. S \ T \subseteq S /\ S \ T # {}
      BY <1>1, <1>3
    <2> HIDE DEF T
    <2> QED BY <2>1, EarliestOf
  <1> DEFINE P == {q \in S : Before(q, m)}
  <1>5. Cardinality(P) \in Nat
    BY EarlierFinite
  <1>6. ~(Cardinality(P) < n)
    BY <1>4 DEF Oldest
  <1>7. P \in SUBSET T
    BY <1>4
  <1> HIDE DEF P, T
  <1>8. Cardinality(P) <= Cardinality(T)
    BY <1>2, <1>7, FS_Subset
  <1> QED BY <1>2, <1>5, <1>6, <1>8

LEMMA OldestFirst ==
    ASSUME NEW S, IsFiniteSet(S), S \subseteq Row, NEW n \in Nat,
           NEW q \in Oldest(S, n), NEW r \in S \ Oldest(S, n)
    PROVE  q.ts <= r.ts
  <1>1. q \in S /\ q \in Row /\ r \in Row
    BY DEF Oldest
  <1>2. ASSUME Before(r, q) PROVE FALSE
    <2> DEFINE a == Cardinality({x \in S : Before(x, r)})
               b == Cardinality({x \in S : Before(x, q)})
    <2>1. a < b
      BY <1>1, <1>2, EarlierFewer
    <2>2. a \in Nat /\ b \in Nat
      BY EarlierFinite
    <2>3. b < n /\ ~(a < n)
      BY DEF Oldest
    <2> HIDE DEF a, b
    <2> QED BY <2>1, <2>2, <2>3
  <1> QED BY <1>1, <1>2, BeforeOrder

(* The one oldest is no later than any.                                    *)
LEMMA OldestOne ==
    ASSUME NEW S, IsFiniteSet(S), S \subseteq Row, NEW q \in Oldest(S, 1), NEW r \in S
    PROVE  q.ts <= r.ts
  <1> DEFINE P == {x \in S : Before(x, q)}
  <1>1. q \in S /\ Cardinality(P) < 1
    BY DEF Oldest
  <1>2. IsFiniteSet(P) /\ Cardinality(P) \in Nat
    BY EarlierFinite
  <1>3. P = {}
    <2> HIDE DEF P
    <2>1. Cardinality(P) = 0
      BY <1>1, <1>2
    <2> QED BY <1>2, <2>1, FS_EmptySet
  <1>4. ~Before(r, q)
    BY <1>3
  <1> QED BY <1>1, <1>4, BeforeOrder

---------------------------------------------------------------------------
(* The caps.                                                               *)

(* The sweeper between its transactions.                                   *)
Clean ==
    /\ pc \in {"idle", "total", "oldest", "unlinkOldest", "done"} => doomed = {}
    /\ pc = "idle" => kept = FALSE
    /\ pc = "deleteOldest" /\ kept => doomed = {}

(* Who is deleted of day d: nobody before the day is visited, then the     *)
(* oldest that are too many.                                               *)
Chosen(d) == {r \in doomed \cup victims : DayOf(r.ts) = d}
TooMany(d) == Cardinality(OfDay(d)) > MaxPerDay
Excess(d) == Oldest(OfDay(d), Cardinality(OfDay(d)) - MaxPerDay)
DayByDay ==
    /\ swept = {} /\ doomed \cup victims \subseteq rows
    /\ \A d \in days : TooMany(d)
    /\ \A d \in Nat : Chosen(d) = IF TooMany(d) /\ d \notin days THEN Excess(d) ELSE {}

(* After that the days' caps hold, and of all events the oldest are next.  *)
DaysKept == \A d \in Nat : ~TooMany(d)
OldestGo == \A r \in rows, d \in swept :
    DayOf(r.ts) = DayOf(d.row.ts) => d.row.ts <= r.ts
OldestNext == \A v \in victims \cup doomed : v \in rows /\ \A r \in rows : v.ts <= r.ts
RoomOrEmpty == rows = {} \/ Cardinality(disk) <= DiskCap

Undisturbed == alone =>
    /\ kept = FALSE
    /\ pc \in {"days", "victims"} => DayByDay
    /\ pc \in {"total", "oldest", "unlinkOldest", "deleteOldest", "done"} =>
         DaysKept /\ OldestGo /\ OldestNext
    /\ pc = "done" => RoomOrEmpty

CapInv == StripInv /\ IsFiniteSet(rows) /\ Clean /\ Undisturbed

LEMMA CapInit == Init => CapInv
  <1> SUFFICES ASSUME Init PROVE CapInv
    OBVIOUS
  <1>1. IsFiniteSet(rows)
    BY FS_EmptySet DEF Init
  <1>2. Clean /\ Undisturbed
    BY DEF Init, Clean, Undisturbed
  <1> QED BY <1>1, <1>2, StripInit DEF CapInv

(* Somebody else does something, or something fails.                       *)
LEMMA CapDisturbed ==
    ASSUME CapInv, StripInv', Clean', IsFiniteSet(rows'), alone' = FALSE
    PROVE  CapInv'
  BY DEF CapInv, Undisturbed

LEMMA DayOfFinite ==
    ASSUME IsFiniteSet(rows), TypeOK, NEW d
    PROVE  /\ OfDay(d) \in SUBSET rows /\ OfDay(d) \subseteq Row
           /\ IsFiniteSet(OfDay(d)) /\ Cardinality(OfDay(d)) \in Nat
  <1>1. OfDay(d) \in SUBSET rows
    BY DEF OfDay
  <1> QED BY <1>1, FS_Subset, FS_CardinalityType DEF TypeOK

LEMMA CapVisitDay == CapInv /\ VisitDay => CapInv'
  <1> SUFFICES ASSUME CapInv, VisitDay PROVE CapInv'
    OBVIOUS
  <1>1. StripInv /\ StripInv' /\ TypeOK /\ Working /\ UniqueIds
    BY StripStep DEF CapInv, Next, Sweep, StripInv, TypeInv
  <1>2. PICK d \in days :
          LET flushed == rows \ Hit
          IN  /\ pc = "days"
              /\ days' = days \ {d}
              /\ victims' = Slice({r \in flushed : DayOf(r.ts) = d})
              /\ pc' = "victims"
              /\ UNCHANGED <<table, doomed, kept, past>>
    BY DEF VisitDay
  <1>3. rows' = rows /\ UNCHANGED <<doomed, kept, alone, swept>>
    BY <1>2 DEF table, past
  <1>4. IsFiniteSet(rows) /\ IsFiniteSet(rows') /\ Clean'
    BY <1>2, <1>3 DEF CapInv, Clean
  <1>5. ASSUME alone PROVE DayByDay'
    <2>1. DayByDay /\ kept = FALSE
      BY <1>2, <1>5 DEF CapInv, Undisturbed
    <2>2. victims = {} /\ d \in Nat /\ days \subseteq Nat
      BY <1>1, <1>2 DEF Working, TypeOK
    <2>3. TooMany(d) /\ Chosen(d) = {}
      BY <2>1, <2>2 DEF DayByDay
    <2>4. Hit = doomed
      BY <1>1, <2>1 DEF Hit, UniqueIds, DayByDay
    <2>5. {r \in rows \ Hit : DayOf(r.ts) = d} = OfDay(d)
      BY <2>3, <2>4 DEF Chosen, OfDay
    <2>6. Cardinality(OfDay(d)) \in Nat
      BY <1>1, <1>4, DayOfFinite
    <2>7. Bound(OfDay(d)) = Cardinality(OfDay(d)) - MaxPerDay
      BY <2>3, <2>6, CapAssumption DEF Bound, TooMany
    <2>8. victims' = Excess(d)
      BY <1>2, <2>5, <2>7 DEF Slice, Excess
    <2>9. \A e : OfDay(e)' = OfDay(e) /\ TooMany(e)' = TooMany(e) /\ Excess(e)' = Excess(e)
      BY <1>3 DEF OfDay, TooMany, Excess, Oldest, DayOf, Before
    <2>10. \A r \in victims' : r \in rows /\ DayOf(r.ts) = d
      BY <2>8 DEF Excess, Oldest, OfDay
    <2>11. Chosen(d)' = Excess(d)
      BY <1>3, <2>3, <2>8, <2>10 DEF Chosen, DayOf
    <2>12. \A e : e # d => Chosen(e)' = Chosen(e)
      BY <1>3, <2>2, <2>10 DEF Chosen, DayOf
    <2>13. \A e \in Nat : Chosen(e)' =
              IF TooMany(e)' /\ e \notin days' THEN Excess(e)' ELSE {}
      BY <1>2, <2>1, <2>3, <2>9, <2>11, <2>12 DEF DayByDay
    <2>14. swept' = {} /\ doomed' \cup victims' \subseteq rows'
      BY <1>3, <2>1, <2>10 DEF DayByDay
    <2>15. \A e \in days' : TooMany(e)'
      BY <1>2, <2>1, <2>9 DEF DayByDay
    <2> QED BY <2>13, <2>14, <2>15 DEF DayByDay
  <1>6. Undisturbed'
    BY <1>2, <1>3, <1>5 DEF CapInv, Undisturbed
  <1> QED BY <1>1, <1>4, <1>6 DEF CapInv

LEMMA CapDeleteVictim == CapInv /\ DeleteVictim => CapInv'
  <1> SUFFICES ASSUME CapInv, DeleteVictim PROVE CapInv'
    OBVIOUS
  <1>1. StripInv /\ StripInv'
    BY StripStep DEF CapInv, Next, Sweep
  <1>2. PICK r \in Oldest(victims, 1) :
          /\ pc = "victims"
          /\ DeleteFiles(r)
          /\ victims' = victims \ {r}
          /\ UNCHANGED <<clock, rows, taken, locked, pc, days, sweeps, swept>>
    BY DEF DeleteVictim
  <1>3. r \in victims
    BY DEF Oldest
  <1>4. IsFiniteSet(rows') /\ Clean'
    BY <1>2 DEF CapInv, Clean
  <1>5. ASSUME alone' PROVE kept' = FALSE /\ DayByDay'
    <2>1. alone /\ kept' = FALSE /\ doomed' = doomed \cup {r}
      BY <1>2, <1>5 DEF DeleteFiles
    <2>2. DayByDay
      BY <1>2, <2>1 DEF CapInv, Undisturbed
    <2>3. doomed' \cup victims' = doomed \cup victims
      BY <1>2, <1>3, <2>1
    <2>4. \A e : OfDay(e)' = OfDay(e) /\ TooMany(e)' = TooMany(e)
                 /\ Excess(e)' = Excess(e) /\ Chosen(e)' = Chosen(e)
      BY <1>2, <2>3 DEF OfDay, TooMany, Excess, Oldest, DayOf, Before, Chosen
    <2> QED BY <1>2, <2>1, <2>2, <2>3, <2>4 DEF DayByDay
  <1>6. Undisturbed'
    BY <1>2, <1>5 DEF Undisturbed
  <1> QED BY <1>1, <1>4, <1>6 DEF CapInv

LEMMA CapCommitDays == CapInv /\ CommitDays => CapInv'
  <1> SUFFICES ASSUME CapInv, CommitDays PROVE CapInv'
    OBVIOUS
  <1>1. StripInv /\ StripInv' /\ TypeOK /\ Working /\ UniqueIds
    BY StripStep DEF CapInv, Next, Sweep, StripInv, TypeInv
  <1>2. /\ pc = "days" /\ days = {} /\ pc' = "total"
        /\ rows' = rows \ Hit /\ doomed' = {}
        /\ Commit
        /\ UNCHANGED <<disk, victims, kept, alone>>
    BY DEF CommitDays, Commit
  <1>3. victims = {} /\ IsFiniteSet(rows)
    BY <1>1, <1>2 DEF Working, CapInv
  <1>4. IsFiniteSet(rows') /\ Clean'
    BY <1>2, <1>3, FS_Difference DEF Clean
  <1>5. ASSUME alone PROVE kept = FALSE /\ DaysKept' /\ OldestGo' /\ OldestNext'
    <2>1. DayByDay /\ kept = FALSE
      BY <1>2, <1>5 DEF CapInv, Undisturbed
    <2>2. rows' = rows \ doomed /\ doomed \subseteq rows
      BY <1>1, <1>2, <2>1 DEF Hit, UniqueIds, DayByDay
    <2>a. \A e \in swept' : e.row \in doomed
      BY <1>1, <1>2, <2>1, <2>2, CommitSweeps DEF UniqueIds, DayByDay
    <2>3. \A d \in Nat : {r \in doomed : DayOf(r.ts) = d} =
             IF TooMany(d) THEN Excess(d) ELSE {}
      BY <1>2, <1>3, <2>1 DEF DayByDay, Chosen
    <2>4. ASSUME NEW d \in Nat PROVE ~TooMany(d)'
      <3> DEFINE S == OfDay(d)
                 T == {r \in doomed : DayOf(r.ts) = d}
                 c == Cardinality(S)
      <3>1. OfDay(d)' = S \ T
        BY <2>2 DEF OfDay, DayOf
      <3>2. S \subseteq Row /\ IsFiniteSet(S) /\ c \in Nat
        BY <1>1, <1>3, DayOfFinite
      <3>3. CASE TooMany(d)
        <4>1. c - MaxPerDay \in Nat /\ c - MaxPerDay <= c
          BY <3>2, <3>3, CapAssumption DEF TooMany
        <4>2. T = Oldest(S, c - MaxPerDay)
          BY <3>3, <2>3 DEF Excess
        <4> HIDE DEF S, T
        <4>3. Cardinality(T) >= c - MaxPerDay
          BY <3>2, <4>1, <4>2, OldestAreEnough
        <4>4. T \in SUBSET S
          BY <4>2 DEF Oldest
        <4>5. S \cap T = T /\ IsFiniteSet(T) /\ Cardinality(T) \in Nat
          BY <3>2, <4>4, FS_Subset, FS_CardinalityType
        <4>6. Cardinality(S \ T) = c - Cardinality(T)
          BY <3>2, <4>5, FS_Difference
        <4>7. ~(Cardinality(S \ T) > MaxPerDay)
          BY <3>2, <4>3, <4>5, <4>6, CapAssumption
        <4> QED BY <3>1, <4>7 DEF TooMany
      <3>4. CASE ~TooMany(d)
        <4>1. T = {}
          BY <3>4, <2>3
        <4>2. OfDay(d)' = OfDay(d)
          BY <3>1, <4>1
        <4> QED BY <3>4, <4>2 DEF TooMany
      <3> QED BY <3>3, <3>4
    <2>5. ASSUME NEW r \in rows', NEW s \in doomed, DayOf(r.ts) = DayOf(s.ts)
          PROVE  s.ts <= r.ts
      <3> DEFINE d == DayOf(s.ts)
                 S == OfDay(d)
                 c == Cardinality(S)
      <3>1. r \in rows /\ r \notin doomed /\ s \in doomed /\ s \in rows
        BY <2>2
      <3>2. d \in Nat
        BY <1>1, <3>1, DayType DEF TypeOK, Row
      <3>3. s \in {x \in doomed : DayOf(x.ts) = d} /\ r \notin {x \in doomed : DayOf(x.ts) = d}
        BY <3>1
      <3>4. TooMany(d) /\ s \in Oldest(S, c - MaxPerDay) /\ r \notin Oldest(S, c - MaxPerDay)
        BY <2>3, <3>2, <3>3 DEF Excess
      <3>5. S \subseteq Row /\ IsFiniteSet(S) /\ c \in Nat
        BY <1>1, <1>3, DayOfFinite
      <3>6. c - MaxPerDay \in Nat
        BY <3>4, <3>5, CapAssumption DEF TooMany
      <3>7. r \in S
        BY <2>5, <3>1 DEF OfDay
      <3> HIDE DEF d, S, c
      <3> QED BY <3>4, <3>5, <3>6, <3>7, OldestFirst
    <2>6. OldestNext'
      BY <1>2, <1>3 DEF OldestNext
    <2>7. DaysKept'
      BY <2>4 DEF DaysKept
    <2>8. OldestGo'
      BY <2>5, <2>a DEF OldestGo, DayOf
    <2> QED BY <2>1, <2>6, <2>7, <2>8
  <1>6. Undisturbed'
    BY <1>2, <1>5 DEF Undisturbed
  <1> QED BY <1>1, <1>4, <1>6 DEF CapInv

(* The step that deletes the oldest event of all.                          *)
LEMMA CapDeleteOldest == CapInv /\ DeleteOldest => CapInv'
  <1> SUFFICES ASSUME CapInv, DeleteOldest PROVE CapInv'
    OBVIOUS
  <1>1. StripInv /\ StripInv' /\ TypeOK /\ Working /\ UniqueIds
    BY StripStep DEF CapInv, Next, Sweep, StripInv, TypeInv
  <1>2. /\ pc = "deleteOldest" /\ ~kept /\ pc' = "total"
        /\ rows' = rows \ Hit /\ doomed' = {}
        /\ Commit
        /\ UNCHANGED <<disk, victims, kept, alone>>
    BY DEF DeleteOldest, Commit
  <1>3. victims = {} /\ IsFiniteSet(rows)
    BY <1>1, <1>2 DEF Working, CapInv
  <1>4. IsFiniteSet(rows') /\ Clean'
    BY <1>2, <1>3, FS_Difference DEF Clean
  <1>5. ASSUME alone PROVE kept = FALSE /\ DaysKept' /\ OldestGo' /\ OldestNext'
    <2>1. kept = FALSE /\ DaysKept /\ OldestGo /\ OldestNext
      BY <1>2, <1>5 DEF CapInv, Undisturbed
    <2>2. ASSUME NEW d \in Nat PROVE ~TooMany(d)'
      <3>1. OfDay(d)' \in SUBSET OfDay(d)
        BY <1>2 DEF OfDay, DayOf
      <3>2. IsFiniteSet(OfDay(d)) /\ Cardinality(OfDay(d)) \in Nat
        BY <1>1, <1>3, DayOfFinite
      <3>3. /\ Cardinality(OfDay(d)') <= Cardinality(OfDay(d))
            /\ Cardinality(OfDay(d)') \in Nat
        BY <3>1, <3>2, FS_Subset, FS_CardinalityType
      <3> QED BY <2>1, <3>2, <3>3, CapAssumption DEF DaysKept, TooMany
    <2>3. DaysKept'
      BY <2>2 DEF DaysKept
    <2>a. \A e \in swept' : e \in swept \/ e.row \in doomed
      BY <1>1, <1>2, <2>1, CommitSweeps DEF UniqueIds, OldestNext
    <2>b. rows' \subseteq rows
      BY <1>2
    <2>4. OldestGo'
      BY <2>1, <2>a, <2>b DEF OldestGo, OldestNext, DayOf
    <2>5. OldestNext'
      BY <1>2, <1>3 DEF OldestNext
    <2> QED BY <2>1, <2>3, <2>4, <2>5
  <1>6. Undisturbed'
    BY <1>2, <1>5 DEF Undisturbed
  <1> QED BY <1>1, <1>4, <1>6 DEF CapInv

LEMMA CapTotal ==
    ASSUME CapInv, MeasureDisk \/ PickOldest \/ UnlinkOldest \/ Abort
    PROVE  CapInv'
  <1>1. StripInv /\ StripInv' /\ TypeOK /\ Working /\ TypeOK'
    BY StripStep DEF CapInv, Next, Sweep, StripInv, TypeInv
  <1>2. rows' = rows /\ swept' = swept /\ IsFiniteSet(rows) /\ rows \subseteq Row
    BY <1>1 DEF MeasureDisk, PickOldest, UnlinkOldest, Abort, table, past, CapInv, TypeOK
  <1>3. \A e : OfDay(e)' = OfDay(e) /\ TooMany(e)' = TooMany(e)
    BY <1>2 DEF OfDay, TooMany, DayOf
  <1>4. DaysKept /\ OldestGo => DaysKept' /\ OldestGo'
    BY <1>2, <1>3 DEF DaysKept, OldestGo, DayOf
  <1>5. CASE MeasureDisk
    <2>1. Clean'
      BY <1>5 DEF MeasureDisk, Clean, past, CapInv
    <2>2. UNCHANGED <<victims, doomed, kept, alone, disk>> /\ pc = "total"
          /\ (pc' = "done" => Cardinality(disk) <= DiskCap) /\ pc' \in {"done", "oldest"}
      BY <1>5 DEF MeasureDisk, table, past
    <2>3. OldestNext => OldestNext'
      BY <1>2, <2>2 DEF OldestNext
    <2>4. Undisturbed'
      BY <1>4, <2>2, <2>3 DEF CapInv, Undisturbed, RoomOrEmpty
    <2> QED BY <1>1, <1>2, <2>1, <2>4 DEF CapInv
  <1>6. CASE PickOldest
    <2>1. Clean'
      BY <1>6 DEF PickOldest, Clean, past, CapInv
    <2>2. /\ UNCHANGED <<doomed, kept, alone, disk>> /\ pc = "oldest"
          /\ victims' = Oldest(rows, 1) /\ pc' \in {"done", "unlinkOldest"}
          /\ pc' = "done" => rows = {}
      BY <1>6 DEF PickOldest, table, past
    <2>3. doomed = {}
      BY <2>2 DEF CapInv, Clean
    <2>4. OldestNext'
      <3>1. ASSUME NEW v \in Oldest(rows, 1) PROVE v \in rows /\ \A r \in rows : v.ts <= r.ts
        BY <1>2, OldestOne DEF Oldest
      <3> QED BY <1>2, <2>2, <2>3, <3>1 DEF OldestNext
    <2>5. Undisturbed'
      BY <1>2, <1>4, <2>2, <2>4 DEF CapInv, Undisturbed, RoomOrEmpty
    <2> QED BY <1>1, <1>2, <2>1, <2>5 DEF CapInv
  <1>7. CASE UnlinkOldest
    <2>1. PICK r \in victims : pc = "unlinkOldest" /\ DeleteFiles(r) /\ victims' = {}
                               /\ pc' = "deleteOldest"
      BY <1>7 DEF UnlinkOldest
    <2>2. doomed = {}
      BY <2>1 DEF CapInv, Clean
    <2>3. PICK stay \in SUBSET {k \in Kind : At(r, k) # {}} :
            /\ kept' = (stay # {})
            /\ doomed' = IF stay = {} THEN doomed \cup {r} ELSE doomed
            /\ alone' = (alone /\ stay = {})
      BY <2>1 DEF DeleteFiles
    <2>4. Clean'
      BY <2>1, <2>2, <2>3 DEF Clean
    <2>5. ASSUME alone' PROVE kept' = FALSE /\ DaysKept' /\ OldestGo' /\ OldestNext'
      <3>1. alone /\ stay = {} /\ DaysKept /\ OldestGo /\ OldestNext
        BY <2>1, <2>3, <2>5, <1>1 DEF CapInv, Undisturbed, TypeOK
      <3>2. doomed' = {r}
        BY <2>2, <2>3, <3>1
      <3>3. OldestNext'
        BY <1>2, <2>1, <3>1, <3>2 DEF OldestNext
      <3> QED BY <1>4, <2>3, <3>1, <3>3
    <2>6. Undisturbed'
      BY <2>1, <2>5 DEF Undisturbed
    <2> QED BY <1>1, <1>2, <2>4, <2>6 DEF CapInv
  <1>8. CASE Abort
    <2>1. Clean'
      BY <1>8 DEF Abort, Clean, past, CapInv
    <2>2. alone' = alone /\ ~alone
      BY <1>8 DEF Abort, past, CapInv, Undisturbed
    <2> QED BY <1>1, <1>2, <2>1, <2>2 DEF CapInv, Undisturbed
  <1> QED BY <1>5, <1>6, <1>7, <1>8

LEMMA CapStartSweep == CapInv /\ StartSweep => CapInv'
  <1> SUFFICES ASSUME CapInv, StartSweep PROVE CapInv'
    OBVIOUS
  <1>1. StripInv /\ StripInv' /\ TypeOK /\ Working
    BY StripStep DEF CapInv, Next, StripInv, TypeInv
  <1>2. /\ pc = "idle" /\ pc' = "days" /\ days' = OverCap /\ swept' = {}
        /\ UNCHANGED <<rows, victims, doomed, kept>>
    BY DEF StartSweep, table
  <1>3. victims = {} /\ doomed = {} /\ kept = FALSE
    BY <1>1, <1>2 DEF Working, CapInv, Clean
  <1>4. IsFiniteSet(rows') /\ Clean'
    BY <1>2 DEF CapInv, Clean
  <1>5. \A e : OfDay(e)' = OfDay(e) /\ TooMany(e)' = TooMany(e) /\ Chosen(e)' = {}
    BY <1>2, <1>3 DEF OfDay, TooMany, DayOf, Chosen
  <1>6. ASSUME NEW d \in Nat, TooMany(d) PROVE d \in OverCap
    <2>1. OfDay(d) # {}
      <3> SUFFICES ASSUME OfDay(d) = {} PROVE FALSE
        OBVIOUS
      <3>1. Cardinality(OfDay(d)) = 0
        BY FS_EmptySet
      <3> QED BY <1>6, <3>1, CapAssumption DEF TooMany
    <2>2. PICK r \in rows : DayOf(r.ts) = d
      BY <2>1 DEF OfDay
    <2> QED BY <1>6, <2>2 DEF OverCap, TooMany
  <1>7. \A d \in OverCap : TooMany(d)
    BY DEF OverCap, TooMany
  <1>8. DayByDay'
    BY <1>2, <1>3, <1>5, <1>6, <1>7 DEF DayByDay
  <1>9. Undisturbed'
    BY <1>2, <1>3, <1>8 DEF Undisturbed
  <1> QED BY <1>1, <1>4, <1>9 DEF CapInv

(* The clock moves, a day is done, a sweep returns.                        *)
LEMMA CapQuiet ==
    ASSUME CapInv, Tick \/ DayDone \/ Return \/ UNCHANGED vars
    PROVE  CapInv'
  <1>1. StripInv /\ StripInv' /\ TypeOK /\ Working
    BY StripStep DEF CapInv, Next, Sweep, StripInv, TypeInv
  <1>2. UNCHANGED <<rows, disk, days, doomed, swept, alone>>
    BY DEF Tick, DayDone, Return, vars, table, sweep, past
  <1>3. \/ UNCHANGED <<pc, victims, kept>>
        \/ pc = "victims" /\ pc' = "days" /\ UNCHANGED <<victims, kept>>
        \/ pc = "done" /\ pc' = "idle" /\ victims' = {} /\ kept' = FALSE
    BY DEF Tick, DayDone, Return, vars, table, sweep, past
  <1>4. IsFiniteSet(rows') /\ Clean'
    BY <1>2, <1>3 DEF CapInv, Clean
  <1>5. \A e : OfDay(e)' = OfDay(e) /\ TooMany(e)' = TooMany(e) /\ Excess(e)' = Excess(e)
    BY <1>2 DEF OfDay, TooMany, Excess, Oldest, DayOf, Before
  <1>6. CASE UNCHANGED <<victims, kept>>
    <2>1. \A e : Chosen(e)' = Chosen(e)
      BY <1>2, <1>6 DEF Chosen, DayOf
    <2>2. DayByDay => DayByDay'
      BY <1>2, <1>5, <1>6, <2>1 DEF DayByDay
    <2>3. (DaysKept => DaysKept') /\ (OldestGo => OldestGo') /\ (OldestNext => OldestNext')
          /\ (RoomOrEmpty => RoomOrEmpty')
      BY <1>2, <1>5, <1>6 DEF DaysKept, OldestGo, OldestNext, RoomOrEmpty, DayOf
    <2> QED BY <1>1, <1>2, <1>3, <1>4, <1>6, <2>2, <2>3 DEF CapInv, Undisturbed
  <1>7. CASE pc = "done" /\ pc' = "idle" /\ victims' = {} /\ kept' = FALSE
    BY <1>1, <1>4, <1>7 DEF CapInv, Undisturbed
  <1> QED BY <1>3, <1>6, <1>7

LEMMA CapStep == CapInv /\ [Next]_vars => CapInv'
  <1> SUFFICES ASSUME CapInv, [Next]_vars PROVE CapInv'
    OBVIOUS
  <1>1. StripInv'
    BY StripStep DEF CapInv
  <1>2. CASE Record
    <2> DEFINE r == [n |-> taken + 1, id |-> 1 + Newest(rows), ts |-> clock]
    <2>1. rows' = rows \cup {r} \/ rows' = rows
      BY <1>2 DEF Record
    <2>2. IsFiniteSet(rows')
      <3> HIDE DEF r
      <3> QED BY <2>1, FS_AddElement DEF CapInv
    <2>3. Clean' /\ alone' = FALSE
      BY <1>2 DEF Record, sweep, CapInv, Clean
    <2> QED BY <1>1, <2>2, <2>3, CapDisturbed
  <1>3. CASE Purge
    <2>0. PICK back \in 1..(MaxClock \div Day) :
            PurgeRows({r \in rows : r.ts < clock - back * Day})
      BY <1>3 DEF Purge
    <2> DEFINE old == {r \in rows : r.ts < clock - back * Day}
    <2>1. rows' = rows \ old /\ alone' = FALSE /\ UNCHANGED sweep
      BY <2>0 DEF PurgeRows
    <2> HIDE DEF old
    <2>2. IsFiniteSet(rows')
      BY <2>1, FS_Difference DEF CapInv
    <2>3. Clean'
      BY <2>1 DEF sweep, CapInv, Clean
    <2> QED BY <1>1, <2>1, <2>2, <2>3, CapDisturbed
  <1>4. CASE Trouble
    <2>1. Fail
      BY <1>4 DEF Trouble, LockTimesOut, MeasureDiskFails, Crash
    <2>2. rows' = rows /\ alone' = FALSE /\ Clean'
      BY <2>1 DEF Fail, table, Clean
    <2> QED BY <1>1, <2>2, CapDisturbed DEF CapInv
  <1> QED BY <1>2, <1>3, <1>4, CapVisitDay, CapDeleteVictim, CapCommitDays,
             CapDeleteOldest, CapTotal, CapStartSweep, CapQuiet DEF Next, Sweep

(* A sweep that nobody disturbs and in which nothing fails leaves at most  *)
(* MaxPerDay events on every day, the newest of that day, and no more than *)
(* DiskCap pictures, unless no event is left to delete (retention.py:      *)
(* sweep).                                                                 *)
THEOREM CapsHoldHolds == Spec => []CapsHold
  <1>1. CapInv => CapsHold
    <2> SUFFICES ASSUME CapInv, pc = "done", alone PROVE CapsHold
      BY DEF CapsHold
    <2>1. DaysKept /\ OldestGo /\ RoomOrEmpty
      BY DEF CapInv, Undisturbed
    <2>2. TypeOK /\ IsFiniteSet(rows)
      BY DEF CapInv, StripInv, TypeInv
    <2>3. ASSUME NEW r \in rows PROVE Cardinality(OfDay(DayOf(r.ts))) <= MaxPerDay
      <3>1. DayOf(r.ts) \in Nat
        BY <2>2, DayType DEF TypeOK, Row
      <3>2. Cardinality(OfDay(DayOf(r.ts))) \in Nat
        BY <2>2, DayOfFinite
      <3> QED BY <2>1, <3>1, <3>2, CapAssumption DEF DaysKept, TooMany
    <2> QED BY <2>1, <2>3 DEF CapsHold, OldestGo, RoomOrEmpty
  <1> QED BY <1>1, CapInit, CapStep, PTL DEF Spec
=============================================================================
