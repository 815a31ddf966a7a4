---------------------------- MODULE HistoryProofs ----------------------------
(***************************************************************************)
(* What holds of listings and reports for every page size, length of a     *)
(* day, window, filter and local time.                                     *)
(***************************************************************************)
EXTENDS History, FiniteSetTheorems, SequenceTheorems, WellFoundedInduction, TLAPS

(* Of finitely many elements one has the least value.                      *)
LEMMA LeastOf ==
    ASSUME NEW S, IsFiniteSet(S), S # {}, NEW f \in [S -> Int]
    PROVE  \E m \in S : \A q \in S : f[m] <= f[q]
  <1> DEFINE below(r) == {q \in S : f[q] < f[r]}
             count(r) == Cardinality(below(r))
             F == {count(r) : r \in S}
             less == OpToRel(<, Nat)
  <1>1. \A r \in S : IsFiniteSet(below(r)) /\ count(r) \in Nat
    <2>1. \A r \in S : below(r) \in SUBSET S
      OBVIOUS
    <2> HIDE DEF below
    <2> QED BY <2>1, FS_Subset, FS_CardinalityType
  <1>2. ASSUME NEW q \in S, NEW r \in S, f[q] < f[r] PROVE count(q) < count(r)
    <2>1. below(q) \in SUBSET below(r)
      BY <1>2
    <2>2. q \in below(r) /\ q \notin below(q)
      BY <1>2
    <2> HIDE DEF below
    <2>3. count(q) <= count(r) /\ count(q) # count(r)
      BY <1>1, <2>1, <2>2, FS_Subset
    <2>4. count(q) \in Nat /\ count(r) \in Nat
      BY <1>1
    <2> HIDE DEF count
    <2> QED BY <2>3, <2>4
  <1> HIDE DEF count
  <1>3. F # {} /\ \A y \in F : y \in Nat
    BY <1>1
  <1>4. PICK y \in F : \A z \in F : ~(<<z, y>> \in less)
    BY <1>3, NatLessThanWellFounded, WFMin, Zenon
  <1>5. PICK m \in S : y = count(m)
    OBVIOUS
  <1>6. ASSUME NEW q \in S, ~(f[m] <= f[q]) PROVE FALSE
    <2>1. f[q] < f[m]
      BY <1>6
    <2>2. count(q) < count(m) /\ count(q) \in Nat /\ count(m) \in Nat /\ count(q) \in F
      BY <1>1, <1>2, <2>1
    <2> HIDE DEF F
    <2>3. <<count(q), y>> \in less
      BY <1>5, <2>2 DEF OpToRel
    <2> QED BY <1>4, <2>2, <2>3
  <1> QED BY <1>6

LEMMA MinIs ==
    ASSUME NEW T, NEW m \in T, m \in Int, \A x \in T : x \in Int /\ m <= x
    PROVE  Min(T) \in T /\ \A x \in T : Min(T) <= x
  BY DEF Min

LEMMA MaxIs ==
    ASSUME NEW T, NEW m \in T, m \in Int, \A x \in T : x \in Int /\ x <= m
    PROVE  Max(T) \in T /\ \A x \in T : x <= Max(T)
  BY DEF Max

---------------------------------------------------------------------------
(* The order of the rows.                                                  *)

LEMMA NewerOrder ==
    ASSUME NEW a \in Row, NEW b \in Row, NEW c \in Row
    PROVE  /\ ~Newer(a, a)
           /\ Newer(a, b) /\ Newer(b, c) => Newer(a, c)
           /\ Newer(a, b) \/ Newer(b, a) \/ a.id = b.id
  BY DEF Newer, Row

(* Rows that are told apart by their ids have a newest and an oldest.      *)
Apart(S) == \A q, r \in S : q.id = r.id => q = r

LEMMA NewestOf ==
    ASSUME NEW S, S \subseteq Row, IsFiniteSet(S), Apart(S), S # {}
    PROVE  \E m \in S : \A q \in S : q = m \/ Newer(m, q)
  <1> DEFINE f == [r \in S |-> 0 - r.ts]
  <1>1. f \in [S -> Int]
    BY DEF Row
  <1>2. PICK t \in S : \A q \in S : f[t] <= f[q]
    <2> HIDE DEF f
    <2> QED BY <1>1, LeastOf
  <1>3. \A q \in S : q.ts <= t.ts
    BY <1>2 DEF Row
  <1> DEFINE T == {r \in S : r.ts = t.ts}
             g == [r \in T |-> 0 - r.id]
  <1>4. T \in SUBSET S /\ T # {} /\ g \in [T -> Int]
    BY DEF Row
  <1>5. IsFiniteSet(T)
    <2> HIDE DEF T
    <2> QED BY <1>4, FS_Subset
  <1>6. PICK m \in T : \A q \in T : g[m] <= g[q]
    <2> HIDE DEF g, T
    <2> QED BY <1>4, <1>5, LeastOf
  <1>7. \A q \in T : q.id <= m.id
    BY <1>6 DEF Row
  <1>8. ASSUME NEW q \in S, q # m PROVE Newer(m, q)
    <2>1. m \in S /\ m.ts = t.ts /\ q.id # m.id
      BY <1>8 DEF Apart
    <2>2. CASE q.ts = t.ts
      <3>1. q.id <= m.id
        BY <1>7, <2>2
      <3> QED BY <2>1, <2>2, <3>1 DEF Newer, Row
    <2>3. CASE q.ts # t.ts
      BY <1>3, <2>1, <2>3 DEF Newer, Row
    <2> QED BY <2>2, <2>3
  <1> QED BY <1>8

LEMMA OldestOf ==
    ASSUME NEW S, S \subseteq Row, IsFiniteSet(S), Apart(S), S # {}
    PROVE  \E m \in S : \A q \in S : q = m \/ Newer(q, m)
  <1> DEFINE f == [r \in S |-> r.ts]
  <1>1. f \in [S -> Int]
    BY DEF Row
  <1>2. PICK t \in S : \A q \in S : f[t] <= f[q]
    <2> HIDE DEF f
    <2> QED BY <1>1, LeastOf
  <1>3. \A q \in S : t.ts <= q.ts
    BY <1>2 DEF Row
  <1> DEFINE T == {r \in S : r.ts = t.ts}
             g == [r \in T |-> r.id]
  <1>4. T \in SUBSET S /\ T # {} /\ g \in [T -> Int]
    BY DEF Row
  <1>5. IsFiniteSet(T)
    <2> HIDE DEF T
    <2> QED BY <1>4, FS_Subset
  <1>6. PICK m \in T : \A q \in T : g[m] <= g[q]
    <2> HIDE DEF g, T
    <2> QED BY <1>4, <1>5, LeastOf
  <1>7. \A q \in T : m.id <= q.id
    BY <1>6 DEF Row
  <1>8. ASSUME NEW q \in S, q # m PROVE Newer(q, m)
    <2>1. m \in S /\ m.ts = t.ts /\ q.id # m.id
      BY <1>8 DEF Apart
    <2>2. CASE q.ts = t.ts
      <3>1. m.id <= q.id
        BY <1>7, <2>2
      <3> QED BY <2>1, <2>2, <3>1 DEF Newer, Row
    <2>3. CASE q.ts # t.ts
      BY <1>3, <2>1, <2>3 DEF Newer, Row
    <2> QED BY <2>2, <2>3
  <1> QED BY <1>8

---------------------------------------------------------------------------
(* A page: the newest of what is found, as many as the limit.              *)

Ahead(S, r) == {q \in S : Newer(q, r)}
Page(S, limit) == {r \in S : Cardinality(Ahead(S, r)) < limit}

LEMMA AheadFinite ==
    ASSUME NEW S, IsFiniteSet(S), NEW r
    PROVE  IsFiniteSet(Ahead(S, r)) /\ Cardinality(Ahead(S, r)) \in Nat
  <1>1. Ahead(S, r) \in SUBSET S
    BY DEF Ahead
  <1> QED BY <1>1, FS_Subset, FS_CardinalityType

LEMMA AheadFewer ==
    ASSUME NEW S, S \subseteq Row, IsFiniteSet(S), NEW q \in S, NEW r \in S, Newer(q, r)
    PROVE  Cardinality(Ahead(S, q)) < Cardinality(Ahead(S, r))
  <1>1. Ahead(S, q) \in SUBSET Ahead(S, r)
    BY NewerOrder DEF Ahead
  <1>2. q \in Ahead(S, r) /\ q \notin Ahead(S, q)
    BY NewerOrder DEF Ahead
  <1>3. /\ IsFiniteSet(Ahead(S, r))
        /\ Cardinality(Ahead(S, q)) \in Nat /\ Cardinality(Ahead(S, r)) \in Nat
    BY AheadFinite
  <1>4. /\ Cardinality(Ahead(S, q)) <= Cardinality(Ahead(S, r))
        /\ Cardinality(Ahead(S, q)) # Cardinality(Ahead(S, r))
    BY <1>1, <1>2, <1>3, FS_Subset
  <1> QED BY <1>3, <1>4

(* What is not on the page is older than all that is.                      *)
LEMMA PageAhead ==
    ASSUME NEW S, S \subseteq Row, IsFiniteSet(S), Apart(S), NEW limit \in Nat \ {0},
           NEW c \in Page(S, limit), NEW r \in S \ Page(S, limit)
    PROVE  Newer(c, r)
  <1>1. c \in S /\ c # r
    BY DEF Page
  <1>2. Newer(c, r) \/ Newer(r, c)
    BY <1>1, NewerOrder DEF Apart
  <1>3. ASSUME Newer(r, c) PROVE FALSE
    <2>1. Cardinality(Ahead(S, r)) < Cardinality(Ahead(S, c))
      BY <1>1, <1>3, AheadFewer
    <2>2. Cardinality(Ahead(S, c)) < limit /\ ~(Cardinality(Ahead(S, r)) < limit)
      BY DEF Page
    <2>3. Cardinality(Ahead(S, c)) \in Nat /\ Cardinality(Ahead(S, r)) \in Nat
      BY AheadFinite
    <2> QED BY <2>1, <2>2, <2>3
  <1> QED BY <1>2, <1>3

LEMMA PageNotEmpty ==
    ASSUME NEW S, S \subseteq Row, IsFiniteSet(S), Apart(S), NEW limit \in Nat \ {0},
           S # {}
    PROVE  Page(S, limit) # {}
  <1>1. PICK m \in S : \A q \in S : q = m \/ Newer(m, q)
    BY NewestOf
  <1>2. Ahead(S, m) = {}
    <2> SUFFICES ASSUME NEW q \in Ahead(S, m) PROVE FALSE
      OBVIOUS
    <2>1. q \in S /\ q \in Row /\ m \in Row /\ Newer(q, m)
      BY DEF Ahead
    <2>2. Newer(m, m)
      BY <1>1, <2>1, NewerOrder
    <2> QED BY <2>1, <2>2, NewerOrder
  <1>3. Cardinality(Ahead(S, m)) = 0
    BY <1>2, FS_EmptySet
  <1> QED BY <1>3 DEF Page

(* A page that leaves something out is full.                               *)
LEMMA PageFull ==
    ASSUME NEW S, S \subseteq Row, IsFiniteSet(S), Apart(S), NEW limit \in Nat \ {0},
           Page(S, limit) # S
    PROVE  Cardinality(Page(S, limit)) = limit
  <1> DEFINE P == Page(S, limit)
             N == S \ P
  <1>1. P \in SUBSET S
    BY DEF Page
  <1>2. IsFiniteSet(P) /\ Cardinality(P) \in Nat
    BY <1>1, FS_Subset, FS_CardinalityType
  <1>3. N \in SUBSET S /\ N # {} /\ N \subseteq Row /\ Apart(N)
    BY <1>1 DEF Apart
  <1>4. PICK m \in N : \A q \in N : q = m \/ Newer(m, q)
    <2>1. IsFiniteSet(N)
      BY <1>3, FS_Subset
    <2> HIDE DEF N
    <2> QED BY <1>3, <2>1, NewestOf
  <1>5. Ahead(S, m) \in SUBSET P
    <2> SUFFICES ASSUME NEW q \in S, Newer(q, m), q \in N PROVE FALSE
      BY DEF Ahead
    <2>1. m \in Row /\ q \in Row /\ (q = m \/ Newer(m, q))
      BY <1>4
    <2> QED BY <2>1, NewerOrder
  <1>6. Cardinality(Ahead(S, m)) \in Nat /\ Cardinality(Ahead(S, m)) >= limit
    <2>1. ~(Cardinality(Ahead(S, m)) < limit)
      BY <1>4 DEF Page
    <2> QED BY <2>1, AheadFinite
  <1>7. Cardinality(P) >= limit
    <2>1. Cardinality(Ahead(S, m)) <= Cardinality(P)
      BY <1>2, <1>5, FS_Subset
    <2> QED BY <1>2, <1>6, <2>1
  <1>8. P # {}
    BY PageNotEmpty
  <1>9. PICK c \in P : \A q \in P : q = c \/ Newer(q, c)
    <2>1. P \subseteq Row /\ Apart(P)
      BY <1>1 DEF Apart
    <2> HIDE DEF P
    <2> QED BY <1>2, <1>8, <2>1, OldestOf
  <1>10. P \in SUBSET (Ahead(S, c) \cup {c})
    BY <1>1, <1>9 DEF Ahead
  <1>11. Cardinality(Ahead(S, c)) < limit /\ Cardinality(Ahead(S, c)) \in Nat
         /\ IsFiniteSet(Ahead(S, c))
    BY AheadFinite DEF Page
  <1>12. /\ IsFiniteSet(Ahead(S, c) \cup {c})
         /\ Cardinality(Ahead(S, c) \cup {c}) <= Cardinality(Ahead(S, c)) + 1
    <2> DEFINE A == Ahead(S, c)
    <2> HIDE DEF A
    <2>1. IsFiniteSet(A) /\ Cardinality(A) \in Nat
      BY <1>11 DEF A
    <2>2. /\ IsFiniteSet(A \cup {c})
          /\ Cardinality(A \cup {c}) = IF c \in A THEN Cardinality(A) ELSE Cardinality(A) + 1
      BY <2>1, FS_AddElement
    <2>3. Cardinality(A \cup {c}) <= Cardinality(A) + 1
      BY <2>1, <2>2
    <2> QED BY <2>2, <2>3 DEF A
  <1>13. Cardinality(P) <= Cardinality(Ahead(S, c) \cup {c})
         /\ Cardinality(Ahead(S, c) \cup {c}) \in Nat
    BY <1>10, <1>12, FS_Subset, FS_CardinalityType
  <1> QED BY <1>2, <1>7, <1>11, <1>12, <1>13
---------------------------------------------------------------------------
(* Local time.                                                             *)

LEMMA DivMod ==
    ASSUME NEW x \in Int
    PROVE  /\ x \div Day \in Int /\ x % Day \in 0..(Day - 1)
           /\ x - (x % Day) \in Int /\ x - (x % Day) <= x
           /\ (x - (x % Day)) \div Day = x \div Day
  BY DayAssumption

LEMMA MidnightDivides ==
    ASSUME NEW x \in Int PROVE (x - (x % Day)) % Day = 0
  <1>1. \A y \in Int : y = Day * (y \div Day) + (y % Day)
    BY DayAssumption
  <1> DEFINE y == x - (x % Day)
  <1>2. y \in Int /\ y \div Day = x \div Day /\ x % Day \in Int /\ x \div Day \in Int
    BY DivMod
  <1>3. y % Day \in Int /\ Day * (x \div Day) \in Int
    <2> HIDE DEF y
    <2> QED BY <1>2, DivMod, DayAssumption
  <1>4. x = Day * (x \div Day) + (x % Day)
    BY <1>1
  <1>5. y = Day * (x \div Day) + (y % Day)
    <2> HIDE DEF y
    <2> QED BY <1>1, <1>2
  <1> QED BY <1>2, <1>3, <1>4, <1>5

LEMMA DivMonotone ==
    ASSUME NEW x \in Int, NEW y \in Int
    PROVE  /\ x <= y => x \div Day <= y \div Day
           /\ x \div Day = y \div Day => x - (x % Day) <= y
  BY DayAssumption

LEMMA LocalType ==
    ASSUME zone \in Zones, NEW t \in Times
    PROVE  /\ DOMAIN zone = Times /\ zone[t] \in Int
           /\ Local(t) \in Int /\ Date(t) \in Int /\ Hour(t) \in 0..(Day - 1)
  <1>1. zone \in [Times -> Int] /\ Times \subseteq Int
    BY ZonesAssumption DEF Times
  <1>2. Local(t) \in Int
    BY <1>1 DEF Local
  <1> QED BY <1>1, <1>2, DivMod DEF Date, Hour

LEMMA TimesExtremes ==
    ASSUME NEW T \in SUBSET Times, T # {}
    PROVE  /\ Min(T) \in T /\ \A x \in T : Min(T) <= x
           /\ Max(T) \in T /\ \A x \in T : x <= Max(T)
  <1>1. IsFiniteSet(T)
    <2>1. IsFiniteSet(0..MaxClock)
      BY ClockAssumption, FS_Interval
    <2> QED BY <2>1, FS_Subset DEF Times
  <1>2. T \subseteq Int
    BY DEF Times
  <1> DEFINE f == [x \in T |-> x]
             g == [x \in T |-> 0 - x]
  <1>3. f \in [T -> Int] /\ g \in [T -> Int]
    BY <1>2
  <1>4. PICK a \in T : \A x \in T : f[a] <= f[x]
    <2> HIDE DEF f
    <2> QED BY <1>1, <1>3, LeastOf
  <1>5. PICK b \in T : \A x \in T : g[b] <= g[x]
    <2> HIDE DEF g
    <2> QED BY <1>1, <1>3, LeastOf
  <1>6. \A x \in T : x \in Int /\ a <= x /\ x <= b
    BY <1>2, <1>4, <1>5
  <1> QED BY <1>6, MinIs, MaxIs

LEMMA FirstKnown ==
    ASSUME zone \in Zones, NEW now \in Begin..MaxClock
    PROVE  zone[0] <= Local(now) - Hour(now)
  <1>1. now \in Times /\ 0 \in Times /\ Times \subseteq Int
    BY ClockAssumption DEF Times
  <1>2. zone[0] <= now + zone[now] - ((now + zone[now]) % Day)
    BY ZonesAssumption
  <1>3. Local(now) = now + zone[now] /\ Hour(now) = Local(now) % Day
    BY DEF Local, Hour
  <1>4. zone[now] \in Int /\ now \in Int /\ Local(now) % Day \in Int
    BY <1>1, LocalType DEF Hour
  <1> QED BY <1>2, <1>3, <1>4

(* The midnight before now: shown by the clock, once or twice, or skipped. *)
LEMMA MidnightIs ==
    ASSUME zone \in Zones, NEW now \in Begin..MaxClock, NEW fold \in BOOLEAN,
           NEW w, w = Local(now) - Hour(now),
           NEW shown, shown = {t \in DOMAIN zone : Local(t) = w}
    PROVE  /\ w \in Int /\ w <= Local(now) /\ Utc(w, fold) \in Int
           /\ \/ /\ shown # {} /\ Utc(w, fold) \in shown
                 /\ fold => \A x \in shown : x <= Utc(w, fold)
                 /\ ~fold => \A x \in shown : Utc(w, fold) <= x
              \/ \E j \in 1..now :
                   /\ shown = {} /\ Local(j) > w
                   /\ \A t \in 0..(j - 1) : Local(t) < w
                   /\ Utc(w, fold) = w - zone[IF fold THEN j ELSE j - 1]
  <1>1. now \in Times /\ 0 \in Times /\ Times \subseteq Int
    BY ClockAssumption DEF Times
  <1>2. w \in Int /\ w <= Local(now)
    BY <1>1, LocalType, DivMod DEF Hour
  <1> DEFINE J == {t \in DOMAIN zone : Local(t) > w}
  <1>3. Utc(w, fold) = IF shown # {} THEN IF fold THEN Max(shown) ELSE Min(shown)
                       ELSE w - zone[IF fold THEN Min(J) ELSE Min(J) - 1]
    BY DEF Utc
  <1>4. CASE shown # {}
    <2>1. shown \in SUBSET Times
      BY <1>1, LocalType
    <2>2. /\ Min(shown) \in shown /\ \A x \in shown : Min(shown) <= x
          /\ Max(shown) \in shown /\ \A x \in shown : x <= Max(shown)
      BY <1>4, <2>1, TimesExtremes
    <2>3. Utc(w, fold) \in shown
      BY <1>3, <1>4, <2>2
    <2> QED BY <1>1, <1>2, <1>3, <1>4, <2>1, <2>2, <2>3
  <1>5. CASE shown = {}
    <2>1. \A t \in Times : Local(t) # w /\ Local(t) \in Int
      BY <1>5, LocalType
    <2>2. now \in J /\ J \in SUBSET Times
      BY <1>1, <1>2, <2>1, LocalType
    <2>3. Min(J) \in J /\ \A x \in J : Min(J) <= x
      BY <2>2, TimesExtremes
    <2>4. PICK j \in Times : j = Min(J) /\ Local(j) > w /\ \A x \in J : j <= x
      BY <2>2, <2>3
    <2>5. Utc(w, fold) = w - zone[IF fold THEN j ELSE j - 1]
      BY <1>3, <1>5, <2>4
    <2>6. Local(0) <= w
      <3>1. Local(0) = zone[0] /\ zone[0] \in Int
        BY <1>1, LocalType DEF Local
      <3> QED BY <3>1, FirstKnown
    <2>7. j # 0
      BY <1>1, <1>2, <2>1, <2>4, <2>6
    <2>8. j \in 1..now /\ j - 1 \in Times
      <3>1. j <= now
        BY <2>2, <2>4
      <3> QED BY <1>1, <2>4, <2>7, <3>1, ClockAssumption DEF Times
    <2>9. ASSUME NEW t \in 0..(j - 1) PROVE Local(t) < w
      <3>1. t \in Times /\ t < j
        BY <2>8, ClockAssumption DEF Times
      <3>2. ASSUME t \in J PROVE FALSE
        <4>1. j <= t /\ j \in Int /\ t \in Int
          BY <1>1, <2>4, <3>1, <3>2
        <4> QED BY <3>1, <4>1
      <3>3. ~(Local(t) > w)
        BY <3>1, <3>2, <1>1, LocalType
      <3> QED BY <1>2, <2>1, <3>1, <3>3
    <2>10. Utc(w, fold) \in Int
      <3>1. (IF fold THEN j ELSE j - 1) \in Times
        BY <2>4, <2>8
      <3>2. zone[IF fold THEN j ELSE j - 1] \in Int
        BY <3>1, LocalType
      <3> QED BY <1>2, <2>5, <3>2
    <2> HIDE DEF J
    <2> QED BY <1>2, <1>5, <2>4, <2>5, <2>8, <2>9, <2>10
  <1> QED BY <1>4, <1>5

LEMMA WindowStartType ==
    ASSUME zone \in Zones, NEW window \in Window, NEW now \in Begin..MaxClock
    PROVE  /\ WindowStart(window, now) \subseteq Int
           /\ \A s, t \in WindowStart(window, now) : s = t
  <1>1. CASE window = "all"
    BY <1>1 DEF WindowStart
  <1>2. CASE window = "today"
    <2> DEFINE w == Local(now) - Hour(now)
               shown == {t \in DOMAIN zone : Local(t) = w}
    <2>1. Fold(now) \in BOOLEAN
      BY DEF Fold
    <2>2. Utc(w, Fold(now)) \in Int
      BY <2>1, MidnightIs
    <2>3. WindowStart(window, now) = {Utc(w, Fold(now))}
      BY <1>2 DEF WindowStart
    <2> QED BY <2>2, <2>3
  <1>3. CASE window \in {"7d", "30d"}
    <2>1. Span[window] \in Nat /\ now \in Int
      BY <1>3, SpanAssumption, ClockAssumption
    <2>2. WindowStart(window, now) = {now - Span[window]}
      BY <1>3 DEF WindowStart
    <2> QED BY <2>1, <2>2
  <1> QED BY <1>1, <1>2, <1>3 DEF Window

---------------------------------------------------------------------------
(* The table and its reader.                                               *)

Reporting == task \in {"pairs", "hours", "days", "reported"}

(* Every time is one whose offset is known.                                *)
Timely ==
    /\ clock \in Begin..MaxClock
    /\ \A r \in rows \cup kept \cup met : r.ts \in Times
    /\ Reporting => report.now \in Begin..MaxClock

(* Ids tell apart the rows that are there at one time.                     *)
Finite == IsFiniteSet(rows) /\ IsFiniteSet(kept) /\ IsFiniteSet(met) /\ Apart(rows)

(* A report is filled in field by field.                                   *)
Filled ==
    /\ report = [window |-> report.window, now |-> report.now, start |-> report.start,
                 pairs |-> report.pairs, hours |-> report.hours, trend |-> report.trend]
    /\ Reporting => report.start = WindowStart(report.window, report.now)
    /\ ~Reporting => report = NoReport
    /\ task \notin {"days", "reported"} => report.hours = << >>
    /\ task # "reported" => report.trend = << >>

(* A reader's rows: those that stay are there, those that are there are    *)
(* known to have been.                                                     *)
Known == IF task = "none" THEN kept = {} /\ met = {} ELSE kept \subseteq rows /\ rows \subseteq met

TypeInv == TypeOK /\ Timely /\ Finite /\ Filled /\ Known

LEMMA NextIdIs ==
    ASSUME rows \subseteq Row, IsFiniteSet(rows)
    PROVE  NextId \in Nat /\ \A r \in rows : r.id < NextId
  <1> DEFINE ids == {r.id : r \in rows} \cup {0}
  <1>1. \A x \in ids : x \in Nat
    BY DEF Row
  <1>2. CASE rows = {}
    <2>1. ids = {0}
      BY <1>2
    <2>2. Max(ids) \in ids
      BY <2>1, MaxIs
    <2> QED BY <1>1, <1>2, <2>2 DEF NextId
  <1>3. CASE rows # {}
    <2> DEFINE f == [r \in rows |-> 0 - r.id]
    <2>1. f \in [rows -> Int]
      BY DEF Row
    <2>2. PICK m \in rows : \A q \in rows : f[m] <= f[q]
      <3> HIDE DEF f
      <3> QED BY <1>3, <2>1, LeastOf
    <2>3. \A q \in rows : q.id \in Nat /\ q.id <= m.id
      BY <2>2 DEF Row
    <2>4. m.id \in ids /\ m.id \in Int /\ \A x \in ids : x \in Int /\ x <= m.id
      BY <2>3
    <2>5. \A r \in rows : r.id \in ids
      OBVIOUS
    <2> HIDE DEF ids
    <2>6. Max(ids) \in ids /\ \A x \in ids : x <= Max(ids)
      BY <2>4, MaxIs
    <2>7. NextId = 1 + Max(ids)
      BY DEF NextId, ids
    <2>8. Max(ids) \in Nat
      BY <1>1, <2>6
    <2> QED BY <2>3, <2>5, <2>6, <2>7, <2>8
  <1> QED BY <1>2, <1>3

LEMMA TypeInit == Init => TypeInv
  <1> SUFFICES ASSUME Init PROVE TypeInv
    OBVIOUS
  <1>1. NoFilter \in Filter /\ << >> \in Seq(SUBSET Row)
    BY ClockAssumption DEF NoFilter, Filter
  <1>2. TypeOK
    <2>1. /\ report = NoReport /\ cursor = {} /\ kept = {} /\ met = {} /\ rows = {}
          /\ clock = Begin /\ taken = 0 /\ filter = NoFilter /\ out = << >>
          /\ zone \in Zones /\ task = "none"
      BY DEF Init
    <2>2. /\ report.window = "all" /\ report.now = 0 /\ report.start = {}
          /\ report.pairs = {} /\ report.hours = << >> /\ report.trend = << >>
      BY <2>1 DEF NoReport
    <2>3. DOMAIN report.hours = {} /\ DOMAIN report.trend = {}
      BY <2>2
    <2>4. clock \in Nat /\ taken \in Nat
      BY <2>1, ClockAssumption
    <2> QED BY <1>1, <2>1, <2>2, <2>3, <2>4 DEF TypeOK, Window
  <1>3. Timely
    BY ClockAssumption DEF Init, Timely, Reporting
  <1>4. Finite
    BY FS_EmptySet DEF Init, Finite, Apart
  <1>5. Filled /\ Known
    BY DEF Init, Filled, Known, Reporting, NoReport
  <1> QED BY <1>2, <1>3, <1>4, <1>5 DEF TypeInv

LEMMA InsertType == ASSUME NEW dir \in Direction PROVE TypeInv /\ Insert(dir) => TypeInv'
  <1> SUFFICES ASSUME TypeInv, Insert(dir) PROVE TypeInv'
    OBVIOUS
  <1> USE DEF TypeInv
  <1>1. PICK ts \in {clock - 1, clock} :
          LET r == [n |-> taken + 1, id |-> NextId, ts |-> ts, dir |-> dir]
          IN  /\ taken' = taken + 1
              /\ rows' = rows \cup {r}
              /\ met' = IF task = "none" THEN met ELSE met \cup {r}
              /\ UNCHANGED <<clock, zone, reader, kept>>
    BY DEF Insert
  <1> DEFINE r == [n |-> taken + 1, id |-> NextId, ts |-> ts, dir |-> dir]
  <1>2. NextId \in Nat /\ \A q \in rows : q.id < NextId
    BY NextIdIs DEF TypeOK, Finite
  <1>3. ts \in Times /\ ts \in Int
    BY ClockAssumption DEF Timely, Times
  <1>4. r \in Row /\ r.ts \in Times /\ r.id = NextId
    BY <1>2, <1>3 DEF TypeOK, Row
  <1> HIDE DEF r
  <1>5. rows' = rows \cup {r} /\ met' \in {met, met \cup {r}}
        /\ UNCHANGED <<clock, zone, task, filter, cursor, out, report, kept>>
        /\ taken' = taken + 1 /\ (task # "none" => met' = met \cup {r})
        /\ (task = "none" => met' = met)
    BY <1>1 DEF r, reader
  <1>6. TypeOK'
    BY <1>4, <1>5 DEF TypeOK
  <1>7. Timely'
    BY <1>4, <1>5 DEF Timely, Reporting
  <1>8. Finite'
    <2>1. IsFiniteSet(rows') /\ IsFiniteSet(met') /\ IsFiniteSet(kept')
      <3>1. IsFiniteSet(rows \cup {r}) /\ IsFiniteSet(met \cup {r})
        BY FS_AddElement DEF Finite
      <3> QED BY <1>5, <3>1 DEF Finite
    <2>2. \A q \in rows : q.id \in Nat
      BY DEF TypeOK, Row
    <2>3. Apart(rows')
      BY <1>2, <1>4, <1>5, <2>2 DEF Finite, Apart
    <2> QED BY <2>1, <2>3 DEF Finite
  <1>9. Filled'
    BY <1>5 DEF Filled, Reporting, WindowStart, Utc, Local, Hour, Fold
  <1>10. Known'
    BY <1>5 DEF Known
  <1> QED BY <1>6, <1>7, <1>8, <1>9, <1>10

(* Rows leave the table, or nothing happens to it.                         *)
LEMMA TableType == TypeInv /\ (Purge \/ Tick \/ UNCHANGED vars) => TypeInv'
  <1> SUFFICES ASSUME TypeInv, Purge \/ Tick \/ UNCHANGED vars PROVE TypeInv'
    OBVIOUS
  <1> USE DEF TypeInv
  <1>1. /\ rows' \subseteq rows /\ kept' \subseteq kept /\ met' = met
        /\ kept' = kept \cap rows' \/ (rows' = rows /\ kept' = kept)
        /\ clock' \in {clock, clock + 1} /\ (clock' = clock \/ clock < MaxClock)
        /\ UNCHANGED <<zone, task, filter, cursor, out, report, taken>>
    BY DEF Purge, Tick, vars, reader, seen
  <1>2. TypeOK'
    BY <1>1 DEF TypeOK
  <1>3. Timely'
    BY <1>1, ClockAssumption DEF Timely, Reporting
  <1>4. Finite'
    <2>1. rows' \in SUBSET rows /\ kept' \in SUBSET kept
      BY <1>1
    <2>2. IsFiniteSet(rows') /\ IsFiniteSet(kept') /\ IsFiniteSet(met')
      BY <1>1, <2>1, FS_Subset DEF Finite
    <2>3. Apart(rows')
      BY <1>1 DEF Finite, Apart
    <2> QED BY <2>2, <2>3 DEF Finite
  <1>5. Filled'
    BY <1>1 DEF Filled, Reporting, WindowStart, Utc, Local, Hour, Fold
  <1>6. Known'
    BY <1>1 DEF Known
  <1> QED BY <1>2, <1>3, <1>4, <1>5, <1>6

(* A reader begins and ends.                                               *)
LEMMA StartListingType ==
    ASSUME NEW how \in Listing PROVE TypeInv /\ StartListing(how) => TypeInv'
  <1> SUFFICES ASSUME TypeInv, StartListing(how) PROVE TypeInv'
    OBVIOUS
  <1> USE DEF TypeInv
  <1>1. PICK f \in Filters :
          /\ task = "none" /\ task' = how /\ filter' = f
          /\ cursor' = {} /\ out' = << >> /\ kept' = rows /\ met' = rows
          /\ UNCHANGED <<table, zone, report>>
    BY DEF StartListing
  <1>2. filter' \in Filter /\ << >> \in Seq(SUBSET Row) /\ task' \in {"csv", "scroll"}
    BY <1>1, FiltersAssumption DEF Listing
  <1>3. TypeOK'
    BY <1>1, <1>2 DEF TypeOK, table
  <1>4. Timely' /\ Finite' /\ Known'
    BY <1>1, <1>2 DEF Timely, Finite, Known, table, Reporting
  <1>5. Filled'
    BY <1>1, <1>2 DEF Filled, Reporting
  <1> QED BY <1>3, <1>4, <1>5

LEMMA AnswerType == TypeInv /\ Answer => TypeInv'
  <1> SUFFICES ASSUME TypeInv, Answer PROVE TypeInv'
    OBVIOUS
  <1> USE DEF TypeInv
  <1>1. /\ task' = "none" /\ filter' = NoFilter /\ cursor' = {} /\ out' = << >>
        /\ report' = NoReport /\ kept' = {} /\ met' = {}
        /\ UNCHANGED <<clock, rows, taken, zone>>
    BY DEF Answer, table
  <1>2. NoFilter \in Filter /\ << >> \in Seq(SUBSET Row)
    BY ClockAssumption DEF NoFilter, Filter
  <1>3. /\ report'.window = "all" /\ report'.now = 0 /\ report'.start = {}
        /\ report'.pairs = {} /\ report'.hours = << >> /\ report'.trend = << >>
    BY <1>1 DEF NoReport
  <1>4. DOMAIN report'.hours = {} /\ DOMAIN report'.trend = {}
    BY <1>3
  <1>5. TypeOK'
    BY <1>1, <1>2, <1>3, <1>4 DEF TypeOK, Window
  <1>6. Timely' /\ Finite' /\ Known'
    BY <1>1, FS_EmptySet DEF Timely, Finite, Known, Reporting
  <1>7. Filled'
    BY <1>1 DEF Filled, Reporting, NoReport
  <1> QED BY <1>5, <1>6, <1>7

(* A page is read.                                                         *)
LEMMA ListedIs ==
    ASSUME TypeInv, NEW cur, NEW limit, NEW page, page = Query(filter, cur, limit)
    PROVE  page \subseteq rows /\ page \in SUBSET Row
  BY DEF Query, TypeInv, TypeOK

LEMMA PageReadType == TypeInv /\ (CsvPageRead \/ ScrollPageRead) => TypeInv'
  <1> SUFFICES ASSUME TypeInv, CsvPageRead \/ ScrollPageRead PROVE TypeInv'
    OBVIOUS
  <1> USE DEF TypeInv
  <1>1. PICK page \in SUBSET Row :
          /\ task \in {"csv", "scroll"} /\ task' \in {"csv", "scroll", "listed"}
          /\ UNCHANGED <<out, cursor>> \/ Listed(page)
          /\ UNCHANGED <<table, zone, filter, report, seen>>
    BY ListedIs DEF CsvPageRead, ScrollPageRead
  <1>2. cursor' \subseteq Row /\ out' \in Seq(SUBSET Row)
    <2>1. CASE UNCHANGED <<out, cursor>>
      BY <2>1 DEF TypeOK
    <2>2. CASE Listed(page)
      <3>1. Append(out, page) \in Seq(SUBSET Row)
        BY AppendProperties DEF TypeOK
      <3> QED BY <2>2, <3>1 DEF Listed
    <2> QED BY <1>1, <2>1, <2>2
  <1>3. TypeOK'
    BY <1>1, <1>2 DEF TypeOK, table, seen
  <1>4. Timely' /\ Finite' /\ Known'
    BY <1>1 DEF Timely, Finite, Known, table, seen, Reporting
  <1>5. Filled'
    BY <1>1 DEF Filled, Reporting
  <1> QED BY <1>3, <1>4, <1>5

(* A part of a report is read.                                             *)
LEMMA StartReportType ==
    ASSUME NEW window \in Window PROVE TypeInv /\ StartReport(window) => TypeInv'
  <1> SUFFICES ASSUME TypeInv, StartReport(window) PROVE TypeInv'
    OBVIOUS
  <1> USE DEF TypeInv
  <1> DEFINE start == WindowStart(window, clock)
  <1>1. /\ task = "none" /\ task' = "pairs"
        /\ report' = [NoReport EXCEPT !.window = window, !.now = clock, !.start = start]
        /\ kept' = rows /\ met' = rows
        /\ UNCHANGED <<clock, rows, taken, zone, filter, cursor, out>>
    BY DEF StartReport, table
  <1>2. start \subseteq Int
    BY WindowStartType DEF TypeOK, Timely
  <1>3. start' = start
    BY <1>1 DEF WindowStart, Utc, Local, Hour, Fold
  <1> HIDE DEF start
  <1>4. /\ report' = [window |-> window, now |-> clock, start |-> start, pairs |-> {},
                      hours |-> << >>, trend |-> << >>]
    BY <1>1 DEF NoReport
  <1>5. /\ report'.window = window /\ report'.now = clock /\ report'.start = start
        /\ report'.pairs = {} /\ report'.hours = << >> /\ report'.trend = << >>
    BY <1>4
  <1>6. DOMAIN report'.hours = {} /\ DOMAIN report'.trend = {}
    BY <1>5
  <1>7. TypeOK'
    BY <1>1, <1>2, <1>5, <1>6 DEF TypeOK
  <1>8. Timely' /\ Finite' /\ Known'
    BY <1>1, <1>5 DEF Timely, Finite, Known, Reporting
  <1>9. Filled'
    <2>1. \A w, n : WindowStart(w, n)' = WindowStart(w, n)
      BY <1>1 DEF WindowStart, Utc, Local, Hour, Fold
    <2>2. (report.start = WindowStart(report.window, report.now))'
      BY <1>5, <2>1 DEF start
    <2> QED BY <1>1, <1>4, <1>5, <2>2 DEF Filled, Reporting
  <1> QED BY <1>7, <1>8, <1>9

LEMMA CountType ==
    ASSUME NEW S, IsFiniteSet(S), NEW x
    PROVE  Cardinality(InHour(S, x)) \in Nat /\ Cardinality(InDay(S, x)) \in Nat
  <1>1. InHour(S, x) \in SUBSET S /\ InDay(S, x) \in SUBSET S
    BY DEF InHour, InDay
  <1> QED BY <1>1, FS_Subset, FS_CardinalityType

LEMMA SinceIs ==
    ASSUME TypeInv, NEW start
    PROVE  RowsSince(start) \in SUBSET rows /\ IsFiniteSet(RowsSince(start))
  <1>1. RowsSince(start) \in SUBSET rows
    BY DEF RowsSince
  <1> QED BY <1>1, FS_Subset DEF TypeInv, Finite

LEMMA TrendIs ==
    ASSUME NEW S, NEW start, NEW today, IsFiniteSet(S)
    PROVE  \A d \in DOMAIN Trend(S, start, today) :
             /\ d \in Int
             /\ Trend(S, start, today)[d] = Cardinality(InDay(S, d))
             /\ Trend(S, start, today)[d] \in Nat
  <1> DEFINE first == {s \div Day : s \in start}
             days == IF start = {} THEN {Date(r.ts) : r \in S} ELSE first
             f == [d \in Min(days)..today |-> Cardinality(InDay(S, d))]
  <1>1. Trend(S, start, today) = IF days = {} THEN << >> ELSE f
    BY DEF Trend
  <1>2. DOMAIN f \subseteq Int /\ \A d \in DOMAIN f : f[d] = Cardinality(InDay(S, d))
    OBVIOUS
  <1>3. \A d \in DOMAIN f : f[d] \in Nat
    BY <1>2, CountType
  <1> HIDE DEF f, days
  <1> QED BY <1>1, <1>2, <1>3

LEMMA ReadType == TypeInv /\ (ReadPairs \/ ReadHours \/ ReadDays) => TypeInv'
  <1> SUFFICES ASSUME TypeInv, ReadPairs \/ ReadHours \/ ReadDays PROVE TypeInv'
    OBVIOUS
  <1> USE DEF TypeInv
  <1> DEFINE since == RowsSince(report.start)
             today == Date(report.now)
  <1>1. UNCHANGED <<clock, rows, taken, zone, filter, cursor, out, kept, met>>
    BY DEF ReadPairs, ReadHours, ReadDays, table, seen
  <1>2. since \subseteq rows /\ since \subseteq Row /\ IsFiniteSet(since)
    BY SinceIs DEF TypeOK
  <1>3. \A w, n : WindowStart(w, n)' = WindowStart(w, n)
    BY <1>1 DEF WindowStart, Utc, Local, Hour, Fold
  <1> DEFINE R(pairs, hours, trend) ==
               [window |-> report.window, now |-> report.now, start |-> report.start,
                pairs |-> pairs, hours |-> hours, trend |-> trend]
  <1>4. CASE ReadPairs
    <2>1. task = "pairs" /\ task' = "hours" /\ report' = [report EXCEPT !.pairs = since]
      BY <1>4 DEF ReadPairs
    <2>2. report.hours = << >> /\ report.trend = << >>
      BY <2>1 DEF Filled
    <2>3. report' = R(since, << >>, << >>)
      <3>1. report = R(report.pairs, << >>, << >>)
        BY <2>2 DEF Filled
      <3> HIDE DEF since
      <3> QED BY <2>1, <3>1
    <2> HIDE DEF since
    <2>4. /\ report'.window = report.window /\ report'.now = report.now
          /\ report'.start = report.start /\ report'.pairs = since
          /\ report'.hours = << >> /\ report'.trend = << >>
      BY <2>3
    <2>5. DOMAIN report'.hours = {} /\ DOMAIN report'.trend = {}
      BY <2>4
    <2>6. TypeOK'
      BY <1>1, <1>2, <2>1, <2>4, <2>5 DEF TypeOK
    <2>7. Timely' /\ Finite' /\ Known'
      BY <1>1, <2>1, <2>4 DEF Timely, Finite, Known, Reporting
    <2>8. Filled'
      BY <1>3, <2>1, <2>3, <2>4 DEF Filled, Reporting
    <2> QED BY <2>6, <2>7, <2>8
  <1>5. CASE ReadHours
    <2> DEFINE hours == HourCounts(since)
    <2>1. task = "hours" /\ task' = "days" /\ report' = [report EXCEPT !.hours = hours]
      BY <1>5 DEF ReadHours
    <2>2. report.trend = << >>
      BY <2>1 DEF Filled
    <2>3. \A h \in DOMAIN hours : h \in 0..(Day - 1) /\ hours[h] \in Nat
      <3> HIDE DEF since
      <3> QED BY <1>2, CountType DEF HourCounts
    <2> HIDE DEF since, hours
    <2>4. report' = R(report.pairs, hours, << >>)
      <3>1. report = R(report.pairs, report.hours, << >>)
        BY <2>2 DEF Filled
      <3> QED BY <2>1, <3>1
    <2>5. /\ report'.window = report.window /\ report'.now = report.now
          /\ report'.start = report.start /\ report'.pairs = report.pairs
          /\ report'.hours = hours /\ report'.trend = << >>
      BY <2>4
    <2>6. DOMAIN report'.trend = {}
      BY <2>5
    <2>7. TypeOK'
      BY <1>1, <2>1, <2>3, <2>5, <2>6 DEF TypeOK
    <2>8. Timely' /\ Finite' /\ Known'
      BY <1>1, <2>1, <2>5 DEF Timely, Finite, Known, Reporting
    <2>9. Filled'
      BY <1>3, <2>1, <2>4, <2>5 DEF Filled, Reporting
    <2> QED BY <2>7, <2>8, <2>9
  <1>6. CASE ReadDays
    <2> DEFINE trend == Trend(since, report.start, today)
    <2>1. task = "days" /\ task' = "reported" /\ report' = [report EXCEPT !.trend = trend]
      BY <1>6 DEF ReadDays
    <2>3. \A d \in DOMAIN trend : d \in Int /\ trend[d] \in Nat
      BY <1>2, TrendIs
    <2> HIDE DEF since, trend
    <2>4. report' = R(report.pairs, report.hours, trend)
      <3>1. report = R(report.pairs, report.hours, report.trend)
        BY DEF Filled
      <3> QED BY <2>1, <3>1
    <2>5. /\ report'.window = report.window /\ report'.now = report.now
          /\ report'.start = report.start /\ report'.pairs = report.pairs
          /\ report'.hours = report.hours /\ report'.trend = trend
      BY <2>4
    <2>6. TypeOK'
      BY <1>1, <2>1, <2>3, <2>5 DEF TypeOK
    <2>7. Timely' /\ Finite' /\ Known'
      BY <1>1, <2>1, <2>5 DEF Timely, Finite, Known, Reporting
    <2>8. Filled'
      BY <1>3, <2>1, <2>4, <2>5 DEF Filled, Reporting
    <2> QED BY <2>6, <2>7, <2>8
  <1> QED BY <1>4, <1>5, <1>6

LEMMA TypeStep == TypeInv /\ [Next]_vars => TypeInv'
  BY InsertType, TableType, StartListingType, AnswerType, PageReadType,
     StartReportType, ReadType DEF Next

LEMMA TypeInvariant == Spec => []TypeInv
  BY TypeInit, TypeStep, PTL DEF Spec

(* The table, the reader's place and its report keep their types, whatever *)
(* the local time is and whichever window or filter is asked for.          *)
THEOREM TypeCorrect == Spec => []TypeOK
  <1>1. TypeInv => TypeOK
    BY DEF TypeInv
  <1> QED BY <1>1, TypeInvariant, PTL

---------------------------------------------------------------------------
(* A listing goes down from its cursor: every row listed is the cursor or  *)
(* newer, every row still to be listed is older.                           *)

Paging == task \in {"csv", "scroll"}
IsListed(r) == \E i \in DOMAIN out : r \in out[i]

FromCursor == Paging =>
    /\ cursor = {} => out = << >>
    /\ \A c \in cursor, i \in DOMAIN out : \A r \in out[i] : r = c \/ Newer(r, c)
    /\ \A r \in kept : Matches(filter, r) => IsListed(r) \/ \A c \in cursor : Newer(c, r)

NoneListed == (task # "listed" /\ ~Paging) => out = << >>

ListInv == TypeInv /\ FromCursor /\ NoneListed /\ ListingExact

(* What the reader does not do leaves the listing exact: rows that come    *)
(* are met, rows that go are no longer owed.                               *)
LEMMA ListFrame ==
    ASSUME ListInv, TypeInv', UNCHANGED <<filter, cursor, out>>,
           kept' \subseteq kept, met \subseteq met',
           task' = task \/ (Reporting /\ Reporting')
    PROVE  ListInv'
  <1>1. ~(Reporting /\ Paging) /\ ~(Reporting /\ Paging)' /\ (Reporting => task # "listed")
        /\ (Reporting' => task' # "listed")
    BY DEF Reporting, Paging
  <1>2. \A r : IsListed(r)' = IsListed(r)
    BY DEF IsListed
  <1>3. Paging' = Paging /\ (Paging => task' = task)
    BY <1>1 DEF Paging
  <1>4. FromCursor'
    BY <1>2, <1>3 DEF ListInv, FromCursor, Matches
  <1>5. NoneListed'
    BY <1>1, <1>3 DEF ListInv, NoneListed, Paging, Reporting
  <1>6. ListingExact'
    BY <1>1 DEF ListInv, ListingExact, Matches
  <1> QED BY <1>4, <1>5, <1>6 DEF ListInv

(* A reader that begins has listed nothing.                                *)
LEMMA ListNothing ==
    ASSUME TypeInv', out' = << >>, task' # "listed", Paging' => cursor' = {}
    PROVE  ListInv'
  <1>1. DOMAIN out' = {}
    OBVIOUS
  <1>2. FromCursor' /\ NoneListed' /\ ListingExact'
    BY <1>1 DEF FromCursor, NoneListed, ListingExact, IsListed
  <1> QED BY <1>2 DEF ListInv

(* One page goes on where the cursor is, and moves it to its oldest row.   *)
LEMMA ListPage ==
    ASSUME ListInv, TypeInv', Paging, UNCHANGED <<rows, filter, kept, met>>,
           NEW limit \in Nat \ {0}, NEW page, page = Query(filter, cursor, limit),
           Listed(page),
           \/ Paging' /\ page # {}
           \/ task' = "listed" /\ Cardinality(page) # limit
    PROVE  ListInv'
  <1> DEFINE found == {r \in rows : Matches(filter, r) /\ \A c \in cursor : Newer(c, r)}
  <1>1. page = Page(found, limit)
    BY DEF Query, Past, Page, Ahead
  <1>2. found \subseteq Row /\ IsFiniteSet(found) /\ Apart(found) /\ found \subseteq rows
    <2>1. found \in SUBSET rows
      OBVIOUS
    <2> HIDE DEF found
    <2> QED BY <2>1, FS_Subset DEF ListInv, TypeInv, TypeOK, Finite, Apart
  <1>3. page \subseteq found
    BY <1>1 DEF Page
  <1>4. \A r \in found : /\ Matches(filter, r) /\ r \in met
                        /\ \A c \in cursor : Newer(c, r)
    BY DEF ListInv, TypeInv, Known, Paging
  <1>5. \A r \in kept : Matches(filter, r) => IsListed(r) \/ r \in found
    BY DEF ListInv, FromCursor, TypeInv, Known, Paging
  <1> HIDE DEF found
  <1>6. /\ out \in Seq(SUBSET Row) /\ out' = Append(out, page)
        /\ cursor' = {r \in page : \A q \in page : ~Newer(r, q)}
        /\ cursor \subseteq Row
    BY DEF Listed, ListInv, TypeInv, TypeOK
  <1>7. /\ DOMAIN out' = DOMAIN out \cup {Len(out) + 1}
        /\ \A i \in DOMAIN out : out'[i] = out[i] /\ out[i] \subseteq Row
        /\ out'[Len(out) + 1] = page
        /\ \A i \in DOMAIN out : i < Len(out) + 1
        /\ Len(out) \in Nat /\ DOMAIN out = 1..Len(out)
    BY <1>2, <1>3, <1>6
  <1>8. \A i \in DOMAIN out : \A r \in out[i], q \in page : Newer(r, q)
    <2> SUFFICES ASSUME NEW i \in DOMAIN out, NEW r \in out[i], NEW q \in page
                 PROVE  Newer(r, q)
      OBVIOUS
    <2>1. cursor # {}
      BY <1>7 DEF ListInv, FromCursor
    <2>2. PICK c \in cursor : TRUE
      BY <2>1
    <2>3. (r = c \/ Newer(r, c)) /\ Newer(c, q)
      BY <1>3, <1>4 DEF ListInv, FromCursor
    <2>4. r \in Row /\ c \in Row /\ q \in Row
      BY <1>2, <1>3, <1>6, <1>7
    <2> QED BY <2>3, <2>4, NewerOrder
  <1>9. \A c \in cursor', i \in DOMAIN out' : \A r \in out'[i] : r = c \/ Newer(r, c)
    <2>1. \A c \in cursor', r \in page : r = c \/ Newer(r, c)
      BY <1>2, <1>3, <1>6, NewerOrder DEF Apart
    <2> QED BY <1>6, <1>7, <1>8, <2>1
  <1>10. \A r : IsListed(r)' <=> IsListed(r) \/ r \in page
    BY <1>7 DEF IsListed
  <1>11. \A r \in found : r \in page \/ \A c \in page : Newer(c, r)
    BY <1>1, <1>2, PageAhead
  <1>12. FromCursor'
    <2>1. Paging' => cursor' # {}
      <3> SUFFICES ASSUME page # {} PROVE cursor' # {}
        BY DEF Paging
      <3>1. page \subseteq Row /\ Apart(page) /\ page \in SUBSET found
        BY <1>2, <1>3 DEF Apart
      <3>2. IsFiniteSet(page)
        BY <1>2, <3>1, FS_Subset
      <3>3. PICK m \in page : \A q \in page : q = m \/ Newer(q, m)
        BY <3>1, <3>2, OldestOf
      <3>4. \A q \in page : ~Newer(m, q)
        BY <3>1, <3>3, NewerOrder
      <3> QED BY <1>6, <3>4
    <2>2. \A r \in kept : Matches(filter, r) =>
            IsListed(r)' \/ \A c \in cursor' : Newer(c, r)
      BY <1>5, <1>6, <1>10, <1>11
    <2>3. \A r : Matches(filter, r)' = Matches(filter, r)
      BY DEF Matches
    <2> QED BY <1>9, <2>1, <2>2, <2>3 DEF FromCursor, Matches
  <1>13. ListingExact'
    <2>1. \A i, j \in DOMAIN out' :
            i < j => \A r \in out'[i], q \in out'[j] : Newer(r, q)
      BY <1>7, <1>8 DEF ListInv, ListingExact
    <2>2. \A i \in DOMAIN out' : \A r \in out'[i] : r \in met /\ Matches(filter, r)
      BY <1>3, <1>4, <1>7 DEF ListInv, ListingExact
    <2>3. ASSUME task' = "listed", NEW r \in kept, Matches(filter, r) PROVE IsListed(r)'
      <3>1. Page(found, limit) = found
        BY <1>1, <1>2, <2>3, PageFull DEF Paging
      <3> QED BY <1>1, <1>5, <1>10, <2>3, <3>1
    <2> QED BY <2>1, <2>2, <2>3 DEF ListingExact, IsListed, Matches
  <1>14. NoneListed'
    BY DEF NoneListed
  <1> QED BY <1>12, <1>13, <1>14 DEF ListInv

(* An empty page of the download: nothing older is left.                   *)
LEMMA ListEnd ==
    ASSUME ListInv, TypeInv', Paging, UNCHANGED <<rows, filter, kept, met, out>>,
           NEW limit \in Nat \ {0}, Query(filter, cursor, limit) = {}, task' = "listed"
    PROVE  ListInv'
  <1> DEFINE found == {r \in rows : Matches(filter, r) /\ \A c \in cursor : Newer(c, r)}
  <1>1. Page(found, limit) = {}
    BY DEF Query, Past, Page, Ahead
  <1>2. found \subseteq Row /\ IsFiniteSet(found) /\ Apart(found)
    <2>1. found \in SUBSET rows
      OBVIOUS
    <2> HIDE DEF found
    <2> QED BY <2>1, FS_Subset DEF ListInv, TypeInv, TypeOK, Finite, Apart
  <1>3. \A r \in kept : Matches(filter, r) => IsListed(r) \/ r \in found
    BY DEF ListInv, FromCursor, TypeInv, Known, Paging
  <1> HIDE DEF found
  <1>4. found = {}
    BY <1>1, <1>2, PageNotEmpty
  <1>5. \A r \in kept : Matches(filter, r) => \E i \in DOMAIN out : r \in out[i]
    BY <1>3, <1>4 DEF IsListed
  <1>6. ListingExact'
    BY <1>5 DEF ListInv, ListingExact, Matches
  <1>7. FromCursor' /\ NoneListed'
    BY DEF FromCursor, NoneListed, Paging
  <1> QED BY <1>6, <1>7 DEF ListInv

LEMMA ListStep == ListInv /\ [Next]_vars => ListInv'
  <1> SUFFICES ASSUME ListInv, [Next]_vars PROVE ListInv'
    OBVIOUS
  <1>1. TypeInv /\ TypeInv'
    BY TypeStep DEF ListInv
  <1>2. CASE \E dir \in Direction : Insert(dir)
    BY <1>1, <1>2, ListFrame DEF Insert, reader
  <1>3. CASE Purge \/ Tick \/ UNCHANGED vars
    BY <1>1, <1>3, ListFrame DEF Purge, Tick, vars, reader, seen
  <1>4. CASE ReadPairs \/ ReadHours \/ ReadDays
    BY <1>1, <1>4, ListFrame DEF ReadPairs, ReadHours, ReadDays, seen, Reporting
  <1>5. CASE \E how \in Listing : StartListing(how)
    BY <1>1, <1>5, ListNothing DEF StartListing, Listing
  <1>6. CASE \E window \in Window : StartReport(window)
    <2>1. task = "none" /\ task' = "pairs" /\ out' = out
      BY <1>6 DEF StartReport
    <2>2. out' = << >>
      BY <2>1 DEF ListInv, NoneListed, Paging
    <2> QED BY <1>1, <2>1, <2>2, ListNothing DEF Paging
  <1>7. CASE Answer
    BY <1>1, <1>7, ListNothing DEF Answer
  <1>8. CASE CsvPageRead
    <2> DEFINE page == Query(filter, cursor, CsvPage)
    <2>1. /\ task = "csv" /\ UNCHANGED <<rows, filter, kept, met>>
          /\ IF page = {} THEN task' = "listed" /\ UNCHANGED <<out, cursor>>
             ELSE Listed(page) /\ UNCHANGED task
      BY <1>8 DEF CsvPageRead, table, seen
    <2>2. Paging /\ CsvPage \in Nat \ {0}
      BY <2>1, PageAssumption DEF Paging
    <2>3. CASE page = {}
      BY <1>1, <2>1, <2>2, <2>3, ListEnd
    <2>4. CASE page # {}
      <3>1. Paging' /\ Listed(page)
        BY <2>1, <2>4 DEF Paging
      <3> QED BY <1>1, <2>1, <2>2, <2>4, <3>1, ListPage
    <2> QED BY <2>3, <2>4
  <1>9. CASE ScrollPageRead
    <2> DEFINE page == Query(filter, cursor, ScrollPage)
    <2>1. /\ task = "scroll" /\ UNCHANGED <<rows, filter, kept, met>> /\ Listed(page)
          /\ task' = IF Cardinality(page) = ScrollPage THEN "scroll" ELSE "listed"
      BY <1>9 DEF ScrollPageRead, table, seen
    <2>2. Paging /\ ScrollPage \in Nat \ {0}
      BY <2>1, PageAssumption DEF Paging
    <2>3. \/ Paging' /\ page # {}
          \/ task' = "listed" /\ Cardinality(page) # ScrollPage
      <3>1. page = {} => Cardinality(page) # ScrollPage
        BY <2>2, FS_EmptySet
      <3> QED BY <2>1, <3>1 DEF Paging
    <2> HIDE DEF page
    <2> QED BY <1>1, <2>1, <2>2, <2>3, ListPage DEF page
  <1> QED BY <1>2, <1>3, <1>4, <1>5, <1>6, <1>7, <1>8, <1>9 DEF Next

(* "Newest-first, keyset-paginated" (EventRepo.query): whatever is         *)
(* inserted or purged between two pages, a page is older than those before *)
(* it, all it has is asked for, and a listing that ends has every row that *)
(* was asked for and there all the time.                                   *)
THEOREM ListingExactHolds == Spec => []ListingExact
  <1>1. Init => ListInv
    <2> SUFFICES ASSUME Init PROVE ListInv
      OBVIOUS
    <2>1. TypeInv /\ task = "none" /\ DOMAIN out = {} /\ out = << >>
      BY TypeInit DEF Init
    <2> QED BY <2>1 DEF ListInv, FromCursor, NoneListed, ListingExact, Paging
  <1>2. ListInv => ListingExact
    BY DEF ListInv
  <1> QED BY <1>1, <1>2, ListStep, PTL DEF Spec

---------------------------------------------------------------------------
(* The queries of one report.  Each counts the rows that are there when it *)
(* is made: no fewer than those that stay, no more than those ever there.  *)

ReportInv == TypeInv /\ PartsBetween

LEMMA Within ==
    ASSUME NEW S, NEW A, NEW B, A \subseteq S, S \subseteq B, IsFiniteSet(B), NEW x
    PROVE  /\ Between(Cardinality(InHour(S, x)), InHour(A, x), InHour(B, x))
           /\ Between(Cardinality(InDay(S, x)), InDay(A, x), InDay(B, x))
  <1>1. ASSUME NEW P, NEW Q, P \in SUBSET Q, Q \in SUBSET B
        PROVE  Cardinality(P) <= Cardinality(Q)
    <2>1. IsFiniteSet(Q)
      BY <1>1, FS_Subset
    <2> QED BY <1>1, <2>1, FS_Subset
  <1>2. /\ InHour(A, x) \in SUBSET InHour(S, x) /\ InHour(S, x) \in SUBSET InHour(B, x)
        /\ InHour(B, x) \in SUBSET B /\ InHour(S, x) \in SUBSET B
    BY DEF InHour
  <1>3. /\ InDay(A, x) \in SUBSET InDay(S, x) /\ InDay(S, x) \in SUBSET InDay(B, x)
        /\ InDay(B, x) \in SUBSET B /\ InDay(S, x) \in SUBSET B
    BY DEF InDay
  <1> QED BY <1>1, <1>2, <1>3 DEF Between

(* What lies between stays between as more rows come and more go.          *)
LEMMA StillBetween ==
    ASSUME NEW A, NEW B, NEW C, NEW D, C \subseteq A, B \subseteq D,
           IsFiniteSet(A), IsFiniteSet(D), NEW n \in Nat, NEW x
    PROVE  /\ Between(n, InHour(A, x), InHour(B, x)) => Between(n, InHour(C, x), InHour(D, x))
           /\ Between(n, InDay(A, x), InDay(B, x)) => Between(n, InDay(C, x), InDay(D, x))
  <1>0. IsFiniteSet(B) /\ IsFiniteSet(C)
    <2>1. B \in SUBSET D /\ C \in SUBSET A
      OBVIOUS
    <2> QED BY <2>1, FS_Subset
  <1>1. Between(Cardinality(InHour(A, x)), InHour(C, x), InHour(A, x))
        /\ Between(Cardinality(InDay(A, x)), InDay(C, x), InDay(A, x))
    BY Within
  <1>2. Between(Cardinality(InHour(B, x)), InHour(B, x), InHour(D, x))
        /\ Between(Cardinality(InDay(B, x)), InDay(B, x), InDay(D, x))
    BY Within
  <1>3. \A S \in {A, B, C, D} :
          Cardinality(InHour(S, x)) \in Nat /\ Cardinality(InDay(S, x)) \in Nat
    BY <1>0, CountType
  <1> QED BY <1>1, <1>2, <1>3 DEF Between

LEMMA AgreeFrame ==
    ASSUME ReportInv, TypeInv', UNCHANGED <<zone, report>>,
           kept' \subseteq kept, met \subseteq met',
           task' \in {"hours", "days", "reported"} => task' = task
    PROVE  PartsBetween'
  <1> DEFINE always == InWindow(kept)
             ever == InWindow(met)
  <1>1. always' \subseteq always /\ ever \subseteq ever'
    BY DEF InWindow
  <1>2. IsFiniteSet(always) /\ IsFiniteSet(ever')
    <2>1. always \in SUBSET kept /\ ever' \in SUBSET met'
      BY DEF InWindow
    <2> QED BY <2>1, FS_Subset DEF ReportInv, TypeInv, Finite
  <1>3. \A S, x : InHour(S, x)' = InHour(S', x) /\ InDay(S, x)' = InDay(S', x)
    BY DEF InHour, InDay, Hour, Date, Local
  <1>4. \A h \in DOMAIN report.hours : report.hours[h] \in Nat
    BY DEF ReportInv, TypeInv, TypeOK
  <1>5. \A d \in DOMAIN report.trend : report.trend[d] \in Nat
    BY DEF ReportInv, TypeInv, TypeOK
  <1>6. /\ task \in {"hours", "days", "reported"} =>
             always \subseteq report.pairs /\ report.pairs \subseteq ever
        /\ \A h \in DOMAIN report.hours :
             Between(report.hours[h], InHour(always, h), InHour(ever, h))
        /\ \A d \in DOMAIN report.trend :
             Between(report.trend[d], InDay(always, d), InDay(ever, d))
    BY DEF ReportInv, PartsBetween
  <1>0. ASSUME NEW n \in Nat, NEW x
        PROVE  /\ Between(n, InHour(always, x), InHour(ever, x)) =>
                    Between(n, InHour(always', x), InHour(ever', x))
               /\ Between(n, InDay(always, x), InDay(ever, x)) =>
                    Between(n, InDay(always', x), InDay(ever', x))
    <2> HIDE DEF always, ever
    <2> QED BY <1>1, <1>2, StillBetween
  <1> HIDE DEF always, ever
  <1>7. ASSUME NEW h \in DOMAIN report.hours
        PROVE  Between(report.hours[h], InHour(always', h), InHour(ever', h))
    BY <1>0, <1>4, <1>6
  <1>8. ASSUME NEW d \in DOMAIN report.trend
        PROVE  Between(report.trend[d], InDay(always', d), InDay(ever', d))
    BY <1>0, <1>5, <1>6
  <1>9. /\ task' \in {"hours", "days", "reported"} =>
             always' \subseteq report'.pairs /\ report'.pairs \subseteq ever'
    BY <1>1, <1>6
  <1> QED BY <1>3, <1>7, <1>8, <1>9 DEF PartsBetween, Between, always, ever

(* Nothing has been read of a report.                                      *)
LEMMA AgreeNothing ==
    ASSUME report'.hours = << >>, report'.trend = << >>,
           task' \notin {"hours", "days", "reported"}
    PROVE  PartsBetween'
  <1>1. DOMAIN report'.hours = {} /\ DOMAIN report'.trend = {}
    OBVIOUS
  <1> QED BY <1>1 DEF PartsBetween

(* One query of the report is made.                                        *)
LEMMA AgreeRead ==
    ASSUME ReportInv, ReadPairs \/ ReadHours \/ ReadDays
    PROVE  PartsBetween'
  <1> USE DEF ReportInv, TypeInv
  <1> DEFINE since == RowsSince(report.start)
             always == InWindow(kept)
             ever == InWindow(met)
             trend == Trend(since, report.start, Date(report.now))
  <1>1. UNCHANGED <<zone, kept, met>>
    BY DEF ReadPairs, ReadHours, ReadDays, seen
  <1>2. always \subseteq since /\ since \subseteq ever /\ IsFiniteSet(ever)
    <2>1. kept \subseteq rows /\ rows \subseteq met
      BY DEF ReadPairs, ReadHours, ReadDays, Known
    <2>2. ever \in SUBSET met
      BY DEF InWindow
    <2>3. always \subseteq since /\ since \subseteq ever
      BY <2>1 DEF InWindow, RowsSince
    <2> HIDE DEF since, ever
    <2> QED BY <2>2, <2>3, FS_Subset DEF Finite
  <1>3. /\ task \in {"hours", "days", "reported"} =>
             always \subseteq report.pairs /\ report.pairs \subseteq ever
        /\ \A h \in DOMAIN report.hours :
             Between(report.hours[h], InHour(always, h), InHour(ever, h))
        /\ \A d \in DOMAIN report.trend :
             Between(report.trend[d], InDay(always, d), InDay(ever, d))
    BY DEF PartsBetween
  <1>4. report'.start = report.start
    <2>1. report = [window |-> report.window, now |-> report.now, start |-> report.start,
                    pairs |-> report.pairs, hours |-> report.hours, trend |-> report.trend]
      BY DEF Filled
    <2> QED BY <2>1 DEF ReadPairs, ReadHours, ReadDays
  <1>5. always' = always /\ ever' = ever
    BY <1>1, <1>4 DEF InWindow
  <1>6. \A S, x : InHour(S, x)' = InHour(S', x) /\ InDay(S, x)' = InDay(S', x)
    BY <1>1 DEF InHour, InDay, Hour, Date, Local
  <1>7. report = [window |-> report.window, now |-> report.now, start |-> report.start,
                  pairs |-> report.pairs, hours |-> report.hours, trend |-> report.trend]
    BY DEF Filled
  <1> HIDE DEF since, always, ever, trend
  <1>8. /\ task' \in {"hours", "days", "reported"} =>
             always \subseteq report'.pairs /\ report'.pairs \subseteq ever
        /\ \A h \in DOMAIN report'.hours :
             Between(report'.hours[h], InHour(always, h), InHour(ever, h))
        /\ \A d \in DOMAIN report'.trend :
             Between(report'.trend[d], InDay(always, d), InDay(ever, d))
    <2>1. CASE ReadPairs
      <3>1. report' = [report EXCEPT !.pairs = since]
        BY <2>1 DEF ReadPairs, since
      <3>2. report'.pairs = since /\ report'.hours = report.hours /\ report'.trend = report.trend
        BY <1>7, <3>1
      <3> QED BY <1>2, <1>3, <3>2
    <2>2. CASE ReadHours
      <3>1. task = "hours" /\ report' = [report EXCEPT !.hours = HourCounts(since)]
        BY <2>2 DEF ReadHours, since
      <3>2. /\ report'.pairs = report.pairs /\ report'.hours = HourCounts(since)
            /\ report'.trend = report.trend
        BY <1>7, <3>1
      <3>3. \A h \in DOMAIN HourCounts(since) :
              HourCounts(since)[h] = Cardinality(InHour(since, h))
        BY DEF HourCounts
      <3>4. \A h \in DOMAIN report'.hours :
              Between(report'.hours[h], InHour(always, h), InHour(ever, h))
        BY <1>2, <3>2, <3>3, Within
      <3> QED BY <1>3, <3>1, <3>2, <3>4
    <2>3. CASE ReadDays
      <3>1. task = "days" /\ report' = [report EXCEPT !.trend = trend]
        BY <2>3 DEF ReadDays, since, trend
      <3>2. /\ report'.pairs = report.pairs /\ report'.hours = report.hours
            /\ report'.trend = trend
        BY <1>7, <3>1
      <3>3. IsFiniteSet(since)
        BY SinceIs DEF since
      <3>4. \A d \in DOMAIN trend : trend[d] = Cardinality(InDay(since, d))
        BY <3>3, TrendIs DEF trend
      <3>5. \A d \in DOMAIN report'.trend :
              Between(report'.trend[d], InDay(always, d), InDay(ever, d))
        BY <1>2, <3>2, <3>4, Within
      <3> QED BY <1>3, <3>1, <3>2, <3>5
    <2> QED BY <2>1, <2>2, <2>3
  <1> QED BY <1>5, <1>6, <1>8 DEF PartsBetween, Between, always, ever

LEMMA ReportStep == ReportInv /\ [Next]_vars => ReportInv'
  <1> SUFFICES ASSUME ReportInv, [Next]_vars PROVE PartsBetween'
    BY TypeStep DEF ReportInv
  <1>1. TypeInv /\ TypeInv'
    BY TypeStep DEF ReportInv
  <1>2. CASE \E dir \in Direction : Insert(dir)
    BY <1>1, <1>2, AgreeFrame DEF Insert, reader
  <1>3. CASE Purge \/ Tick \/ UNCHANGED vars
    BY <1>1, <1>3, AgreeFrame DEF Purge, Tick, vars, reader, seen
  <1>4. CASE CsvPageRead \/ ScrollPageRead
    BY <1>1, <1>4, AgreeFrame DEF CsvPageRead, ScrollPageRead, seen
  <1>5. CASE ReadPairs \/ ReadHours \/ ReadDays
    BY <1>5, AgreeRead
  <1>6. CASE Answer \/ \E window \in Window : StartReport(window)
    <2>1. task' \in {"none", "pairs"}
      BY <1>6 DEF Answer, StartReport
    <2>2. report'.hours = << >> /\ report'.trend = << >>
      BY <1>1, <2>1 DEF TypeInv, Filled
    <2> QED BY <2>1, <2>2, AgreeNothing
  <1>7. CASE \E how \in Listing : StartListing(how)
    <2>1. task = "none" /\ task' \in {"csv", "scroll"} /\ report' = report
      BY <1>7 DEF StartListing, Listing
    <2>2. report.hours = << >> /\ report.trend = << >>
      BY <1>1, <2>1 DEF TypeInv, Filled
    <2> QED BY <2>1, <2>2, AgreeNothing
  <1> QED BY <1>2, <1>3, <1>4, <1>5, <1>6, <1>7 DEF Next

(* How far a count may be from another when both are between A and B.      *)
LEMMA DriftBetween ==
    ASSUME NEW B, IsFiniteSet(B), NEW P \in SUBSET B, NEW A \in SUBSET P,
           NEW n \in Nat, Between(n, A, B)
    PROVE  Drifts(n, P, B \ P, P \ A)
  <1>1. IsFiniteSet(P) /\ A \in SUBSET B
    BY FS_Subset
  <1>2. IsFiniteSet(A)
    BY <1>1, FS_Subset
  <1>3. B \cap P = P /\ P \cap A = A
    OBVIOUS
  <1>4. /\ Cardinality(B \ P) = Cardinality(B) - Cardinality(P)
        /\ Cardinality(P \ A) = Cardinality(P) - Cardinality(A)
    BY <1>1, <1>2, <1>3, FS_Difference
  <1>5. /\ Cardinality(A) \in Nat /\ Cardinality(P) \in Nat /\ Cardinality(B) \in Nat
    BY <1>1, <1>2, FS_CardinalityType
  <1>6. Cardinality(A) <= n /\ n <= Cardinality(B)
    BY DEF Between
  <1>7. /\ n - Cardinality(P) <= Cardinality(B \ P)
        /\ Cardinality(P) - n <= Cardinality(P \ A)
    BY <1>4, <1>5, <1>6
  <1> QED BY <1>7 DEF Drifts

LEMMA DriftFollows == ReportInv => DriftIsExplained
  <1> SUFFICES ASSUME ReportInv, task = "reported" PROVE DriftIsExplained
    BY DEF DriftIsExplained
  <1> DEFINE always == InWindow(kept)
             ever == InWindow(met)
             pairs == report.pairs
             came == InWindow(met \ kept) \ pairs
             went == pairs \ kept
  <1>1. always \subseteq pairs /\ pairs \subseteq ever
    BY DEF ReportInv, PartsBetween
  <1>2. IsFiniteSet(ever)
    <2>1. ever \in SUBSET met
      BY DEF InWindow
    <2> QED BY <2>1, FS_Subset DEF ReportInv, TypeInv, Finite
  <1>3. came = ever \ pairs /\ went = pairs \ always
    BY <1>1 DEF InWindow
  <1>4. /\ \A h \in DOMAIN report.hours :
             /\ report.hours[h] \in Nat
             /\ Between(report.hours[h], InHour(always, h), InHour(ever, h))
        /\ \A d \in DOMAIN report.trend :
             /\ report.trend[d] \in Nat
             /\ Between(report.trend[d], InDay(always, d), InDay(ever, d))
    BY DEF ReportInv, TypeInv, TypeOK, PartsBetween
  <1> HIDE DEF always, ever, pairs, came, went
  <1>5. ASSUME NEW n \in Nat, NEW x
        PROVE  /\ Between(n, InHour(always, x), InHour(ever, x)) =>
                    Drifts(n, InHour(pairs, x), InHour(came, x), InHour(went, x))
               /\ Between(n, InDay(always, x), InDay(ever, x)) =>
                    Drifts(n, InDay(pairs, x), InDay(came, x), InDay(went, x))
    <2>1. /\ InHour(pairs, x) \in SUBSET InHour(ever, x)
          /\ InHour(always, x) \in SUBSET InHour(pairs, x)
          /\ InHour(came, x) = InHour(ever, x) \ InHour(pairs, x)
          /\ InHour(went, x) = InHour(pairs, x) \ InHour(always, x)
          /\ InHour(ever, x) \in SUBSET ever
      BY <1>1, <1>3 DEF InHour
    <2>2. /\ InDay(pairs, x) \in SUBSET InDay(ever, x)
          /\ InDay(always, x) \in SUBSET InDay(pairs, x)
          /\ InDay(came, x) = InDay(ever, x) \ InDay(pairs, x)
          /\ InDay(went, x) = InDay(pairs, x) \ InDay(always, x)
          /\ InDay(ever, x) \in SUBSET ever
      BY <1>1, <1>3 DEF InDay
    <2>3. IsFiniteSet(InHour(ever, x)) /\ IsFiniteSet(InDay(ever, x))
      BY <1>2, <2>1, <2>2, FS_Subset
    <2>4. Between(n, InHour(always, x), InHour(ever, x)) =>
            Drifts(n, InHour(pairs, x), InHour(came, x), InHour(went, x))
      BY <2>1, <2>3, DriftBetween
    <2>5. Between(n, InDay(always, x), InDay(ever, x)) =>
            Drifts(n, InDay(pairs, x), InDay(came, x), InDay(went, x))
      BY <2>2, <2>3, DriftBetween
    <2> QED BY <2>4, <2>5
  <1>6. ASSUME NEW h \in DOMAIN report.hours
        PROVE  Drifts(report.hours[h], InHour(pairs, h), InHour(came, h), InHour(went, h))
    BY <1>4, <1>5
  <1>7. ASSUME NEW d \in DOMAIN report.trend
        PROVE  Drifts(report.trend[d], InDay(pairs, d), InDay(came, d), InDay(went, d))
    BY <1>4, <1>5
  <1> QED BY <1>6, <1>7 DEF DriftIsExplained, pairs, came, went

(* The summary, the hours and the days of one report are read by queries   *)
(* of their own (build_context), between which rows come and go: of each   *)
(* hour and each day they differ from the summary by no more events than   *)
(* came or went in that hour or day while the report was being made.       *)
THEOREM DriftIsExplainedHolds == Spec => []DriftIsExplained
  <1>1. Init => ReportInv
    <2> SUFFICES ASSUME Init PROVE ReportInv
      OBVIOUS
    <2>1. report.hours = << >> /\ report.trend = << >> /\ task = "none" /\ TypeInv
      BY TypeInit DEF Init, NoReport
    <2>2. DOMAIN report.hours = {} /\ DOMAIN report.trend = {}
      BY <2>1
    <2> QED BY <2>1, <2>2 DEF ReportInv, PartsBetween
  <1> QED BY <1>1, DriftFollows, ReportStep, PTL DEF Spec

---------------------------------------------------------------------------
(* The days of the trend.                                                  *)

TrendInv == TypeInv /\ TrendCovers

LEMMA TrendDays ==
    ASSUME TypeInv, Reporting, NEW S, S \subseteq rows, NEW today \in Int,
           NEW days, days = DOMAIN Trend(S, report.start, today)
    PROVE  /\ \A d \in days : d..today \subseteq days
           /\ \A r \in S : Date(r.ts) <= today =>
                Date(r.ts) \in days \/ \E s \in report.start : Date(r.ts) < s \div Day
  <1> DEFINE start == report.start
             ofRows == {Date(r.ts) : r \in S}
             starts == IF start = {} THEN ofRows ELSE {s \div Day : s \in start}
  <1>1. \A r \in S : Date(r.ts) \in Int
    BY LocalType DEF TypeInv, TypeOK, Timely
  <1>2. IsFiniteSet(S)
    BY FS_Subset DEF TypeInv, Finite
  <1>3. start \subseteq Int /\ \A s, t \in start : s = t
    BY WindowStartType DEF TypeInv, TypeOK, Timely, Filled
  <1>4. starts # {} => days = Min(starts)..today
    BY DEF Trend
  <1>5. starts = {} => days = {}
    BY DEF Trend
  <1>6. starts # {} => /\ Min(starts) \in starts /\ Min(starts) \in Int
                       /\ \A x \in starts : Min(starts) <= x
    <2>1. CASE start = {} /\ S # {}
      <3> DEFINE f == [r \in S |-> Date(r.ts)]
      <3>1. f \in [S -> Int]
        BY <1>1
      <3>2. PICK m \in S : \A q \in S : f[m] <= f[q]
        <4> HIDE DEF f
        <4> QED BY <1>2, <2>1, <3>1, LeastOf
      <3>3. \A x \in starts : x \in Int /\ Date(m.ts) <= x
        BY <1>1, <2>1, <3>2
      <3>4. Date(m.ts) \in starts /\ Date(m.ts) \in Int
        BY <1>1, <2>1
      <3> HIDE DEF starts
      <3> QED BY <3>3, <3>4, MinIs
    <2>2. CASE start # {}
      <3>1. PICK s \in start : start = {s}
        BY <1>3, <2>2
      <3>2. starts = {s \div Day} /\ s \div Day \in Int
        BY <1>3, <3>1, DivMod
      <3> HIDE DEF starts
      <3> QED BY <3>2, MinIs
    <2>3. start = {} /\ S = {} => starts = {}
      OBVIOUS
    <2> QED BY <2>1, <2>2, <2>3
  <1>7. \A d \in days : d..today \subseteq days
    <2> HIDE DEF starts
    <2> QED BY <1>4, <1>5, <1>6
  <1>8. ASSUME NEW r \in S, Date(r.ts) <= today
        PROVE  Date(r.ts) \in days \/ \E s \in start : Date(r.ts) < s \div Day
    <2>1. CASE start = {}
      <3>1. Date(r.ts) \in starts
        BY <2>1
      <3> HIDE DEF starts
      <3>2. starts # {}
        BY <3>1
      <3> QED BY <1>1, <1>4, <1>6, <1>8, <3>1, <3>2
    <2>2. CASE start # {}
      <3>1. PICK s \in start : start = {s}
        BY <1>3, <2>2
      <3>2. starts = {s \div Day} /\ s \div Day \in Int
        BY <1>3, <3>1, DivMod
      <3> HIDE DEF starts
      <3>3. days = (s \div Day)..today
        BY <1>4, <1>6, <3>2
      <3> QED BY <1>1, <1>8, <3>2, <3>3
    <2> QED BY <2>1, <2>2
  <1> QED BY <1>7, <1>8

LEMMA TrendStep == TrendInv /\ [Next]_vars => TrendInv'
  <1> SUFFICES ASSUME TrendInv, [Next]_vars PROVE TrendCovers'
    BY TypeStep DEF TrendInv
  <1> USE DEF TrendInv
  <1>1. CASE task' # "reported"
    BY <1>1 DEF TrendCovers
  <1>2. CASE task' = task /\ kept' \subseteq kept /\ UNCHANGED <<zone, report>>
    BY <1>2 DEF TrendCovers, InWindow, Date, Local
  <1>3. CASE ReadDays
    <2> DEFINE since == RowsSince(report.start)
               today == Date(report.now)
               trend == Trend(since, report.start, today)
    <2>1. Reporting /\ kept \subseteq rows
      BY <1>3 DEF ReadDays, Reporting, TypeInv, Known
    <2>2. since \subseteq rows /\ InWindow(kept) \subseteq since
      BY <2>1 DEF RowsSince, InWindow
    <2>3. today \in Int
      <3>1. report.now \in Times
        BY <2>1, ClockAssumption DEF TypeInv, Timely, Times
      <3> QED BY <3>1, LocalType DEF TypeInv, TypeOK
    <2>4. report' = [report EXCEPT !.trend = trend] /\ UNCHANGED <<zone, kept>>
      BY <1>3 DEF ReadDays, seen
    <2> HIDE DEF since
    <2>5. /\ \A d \in DOMAIN trend : d..today \subseteq DOMAIN trend
          /\ \A r \in since : Date(r.ts) <= today =>
               Date(r.ts) \in DOMAIN trend \/ \E s \in report.start : Date(r.ts) < s \div Day
      BY <2>1, <2>2, <2>3, TrendDays
    <2> HIDE DEF trend
    <2>6. report'.trend = trend /\ report'.start = report.start /\ report'.now = report.now
      <3>1. report = [window |-> report.window, now |-> report.now, start |-> report.start,
                      pairs |-> report.pairs, hours |-> report.hours, trend |-> report.trend]
        BY DEF TypeInv, Filled
      <3> QED BY <2>4, <3>1
    <2>7. \A t : Date(t)' = Date(t')
      BY <2>4 DEF Date, Local
    <2>8. InWindow(kept)' = InWindow(kept) /\ Date(report.now)' = today
      BY <2>4, <2>6 DEF InWindow, Date, Local
    <2> QED BY <2>2, <2>4, <2>5, <2>6, <2>8 DEF TrendCovers, Date, Local
  <1>4. CASE \E dir \in Direction : Insert(dir)
    BY <1>2, <1>4 DEF Insert, reader
  <1>5. CASE Purge \/ Tick \/ UNCHANGED vars
    BY <1>2, <1>5 DEF Purge, Tick, vars, reader, seen
  <1>6. CASE CsvPageRead \/ ScrollPageRead \/ ReadPairs \/ ReadHours \/ Answer
    BY <1>1, <1>6 DEF CsvPageRead, ScrollPageRead, ReadPairs, ReadHours, Answer
  <1>7. CASE \E how \in Listing : StartListing(how)
    BY <1>1, <1>7 DEF StartListing, Listing
  <1>8. CASE \E window \in Window : StartReport(window)
    BY <1>1, <1>8 DEF StartReport
  <1> QED BY <1>3, <1>4, <1>5, <1>6, <1>7, <1>8 DEF Next

(* "One entry per calendar day across the window" (_fill_daily): whatever  *)
(* the window and the local time, the days of the trend have no gap, end   *)
(* today, and hold what the summary counts up to now, but for a first day  *)
(* that is not yet UTC's.                                                  *)
THEOREM TrendCoversHolds == Spec => []TrendCovers
  <1>1. Init => TrendInv
    BY TypeInit DEF Init, TrendInv, TrendCovers
  <1>2. TrendInv => TrendCovers
    BY DEF TrendInv
  <1> QED BY <1>1, <1>2, TrendStep, PTL DEF Spec

---------------------------------------------------------------------------
(* The local day.                                                          *)

(* The offset before the change, and after.                                *)
LEMMA TwoOffsets ==
    ASSUME zone \in Zones
    PROVE  \E at \in Times, before \in Int, after \in Int :
             \A t \in Times : zone[t] = IF t < at THEN before ELSE after
  <1>1. PICK at \in Times : \A t \in Times :
          zone[t] = IF t < at THEN zone[0] ELSE zone[MaxClock]
    BY ChangeAssumption
  <1>2. zone[0] \in Int /\ zone[MaxClock] \in Int
    BY LocalType, ClockAssumption DEF Times
  <1> QED BY <1>1, <1>2

LEMMA DateMonotone ==
    ASSUME zone \in Zones, NEW t \in Times, NEW u \in Times, t <= u
    PROVE  Date(t) <= Date(u)
  <1>1. PICK at \in Times, before \in Int, after \in Int :
          \A x \in Times : zone[x] = IF x < at THEN before ELSE after
    BY TwoOffsets
  <1>2. /\ Local(t) = t + zone[t] /\ Local(u) = u + zone[u]
        /\ Local(t) \in Int /\ Local(u) \in Int /\ t \in Int /\ u \in Int /\ at \in Int
    BY LocalType DEF Local, Times
  <1>3. CASE u < at \/ at <= t
    <2>1. zone[t] = zone[u] /\ zone[t] \in Int
      BY <1>1, <1>2, <1>3
    <2>2. Local(t) <= Local(u)
      BY <1>2, <2>1
    <2> QED BY <1>2, <2>2, DivMonotone DEF Date
  <1>4. CASE t < at /\ at <= u
    <2>1. at \in 1..MaxClock /\ at - 1 \in Times
      BY <1>2, <1>4, ClockAssumption DEF Times
    <2>2. Date(at - 1) <= Date(at)
      BY <2>1, ChangeAssumption DEF Date, Local
    <2>3. zone[t] = before /\ zone[at - 1] = before /\ zone[at] = after /\ zone[u] = after
      BY <1>1, <1>2, <1>4, <2>1
    <2>4. Local(t) <= Local(at - 1) /\ Local(at) <= Local(u)
      BY <1>2, <1>4, <2>3 DEF Local
    <2>5. Local(at - 1) \in Int /\ Local(at) \in Int
          /\ Date(at - 1) \in Int /\ Date(at) \in Int /\ Date(t) \in Int /\ Date(u) \in Int
      BY <2>1, LocalType
    <2>6. Date(t) <= Date(at - 1) /\ Date(at) <= Date(u)
      BY <1>2, <2>4, <2>5, DivMonotone DEF Date
    <2> QED BY <2>2, <2>5, <2>6
  <1> QED BY <1>2, <1>3, <1>4

(* Between the start of "today" and now it is today; and all of today is   *)
(* from then on, unless a second midnight was taken for the first.         *)
LEMMA TodayStart ==
    ASSUME zone \in Zones, NEW now \in Begin..MaxClock,
           NEW s, s = Utc(FirstMidnight(now), Fold(now)), NEW t \in Times
    PROVE  /\ s <= t /\ t <= now => Date(t) = Date(now)
           /\ ~(Fold(now) /\ TwoMidnights(now)) /\ Date(t) = Date(now) => s <= t
  <1> DEFINE w == FirstMidnight(now)
             shown == {x \in DOMAIN zone : Local(x) = w}
  <1>1. now \in Times /\ Times \subseteq Int /\ Fold(now) \in BOOLEAN
    BY ClockAssumption DEF Times, Fold
  <1>2. /\ Local(now) \in Int /\ Local(t) \in Int
        /\ Date(now) \in Int /\ Date(t) \in Int /\ DOMAIN zone = Times
    BY <1>1, LocalType
  <1>0. w = Local(now) - Hour(now) /\ Hour(now) = Local(now) % Day
    BY DEF FirstMidnight, Hour
  <1>3. /\ w \in Int /\ w <= Local(now) /\ s \in Int
        /\ \/ /\ shown # {} /\ s \in shown
              /\ Fold(now) => \A x \in shown : x <= s
              /\ ~Fold(now) => \A x \in shown : s <= x
           \/ \E j \in 1..now :
                /\ shown = {} /\ Local(j) > w
                /\ \A x \in 0..(j - 1) : Local(x) < w
                /\ s = w - zone[IF Fold(now) THEN j ELSE j - 1]
    <2>1. s = Utc(w, Fold(now))
      OBVIOUS
    <2>2. shown = {x \in DOMAIN zone : Local(x) = w}
      OBVIOUS
    <2> HIDE DEF w, shown
    <2>3. PICK fold \in BOOLEAN : fold = Fold(now)
      BY <1>1
    <2>4. s = Utc(w, fold)
      BY <2>1, <2>3
    <2> QED BY <1>0, <2>2, <2>3, <2>4, MidnightIs
  <1>4. w \div Day = Date(now) /\ w % Day = 0
    <2> HIDE DEF w
    <2> QED BY <1>0, <1>2, DivMod, MidnightDivides DEF Date
  <1>5. Date(t) = Date(now) => w <= Local(t)
    <2> HIDE DEF w
    <2> QED BY <1>0, <1>2, DivMonotone DEF Date
  <1>6. PICK at \in Times, before \in Int, after \in Int :
          \A x \in Times : zone[x] = IF x < at THEN before ELSE after
    BY TwoOffsets
  <1>7. t <= now => Date(t) <= Date(now)
    BY <1>1, DateMonotone
  <1> HIDE DEF w, shown
  <1>8. CASE shown # {}
    <2>1. s \in Times /\ Local(s) = w
      BY <1>2, <1>3, <1>8 DEF shown
    <2>2. s <= t /\ t <= now => Date(t) = Date(now)
      <3>1. Date(s) = Date(now)
        BY <1>4, <2>1 DEF Date
      <3>2. s <= t => Date(s) <= Date(t)
        BY <2>1, DateMonotone
      <3> QED BY <1>2, <1>7, <3>1, <3>2
    <2>3. ASSUME ~(Fold(now) /\ TwoMidnights(now)), Date(t) = Date(now), ~(s <= t)
          PROVE  FALSE
      <3>1. \A x \in shown : s <= x
        <4>1. CASE Fold(now)
          <5>1. \A x \in shown : x = s
            BY <1>2, <2>1, <2>3, <4>1 DEF TwoMidnights, shown, w
          <5> QED BY <2>1, <1>1, <5>1
        <4>2. CASE ~Fold(now)
          BY <1>3, <1>8, <4>2
        <4> QED BY <4>1, <4>2
      <3>2. t < s /\ w <= Local(t) /\ Local(t) # w
        <4>1. t < s
          BY <1>1, <2>1, <2>3
        <4>2. Local(t) # w
          BY <1>1, <1>2, <2>1, <3>1, <4>1 DEF shown
        <4> QED BY <1>5, <2>3, <4>1, <4>2
      <3>3. Local(t) = t + zone[t] /\ Local(s) = s + zone[s] /\ at \in Int /\ t \in Int /\ s \in Int
        BY <1>1, <1>6, <2>1 DEF Local
      <3>4. t < at /\ zone[t] = before
        <4>1. at <= t => zone[t] = zone[s] /\ zone[s] \in Int
          BY <1>6, <2>1, <3>2, <3>3
        <4> QED BY <1>6, <2>1, <3>2, <3>3, <4>1
      <3> DEFINE u == w - before
      <3>5. u < t /\ u \in Int /\ w = u + before
        BY <1>2, <1>3, <3>2, <3>3, <3>4
      <3>6. 0 <= u
        <4>1. zone[0] <= w
          BY <1>0, FirstKnown
        <4>2. 0 \in Times /\ 0 < at
          BY <1>1, <3>3, <3>4, ClockAssumption DEF Times
        <4>3. zone[0] = before
          BY <1>6, <4>2
        <4> QED BY <1>3, <4>1, <4>3
      <3> HIDE DEF u
      <3>7. u \in Times /\ u < at
        BY <3>3, <3>4, <3>5, <3>6, ClockAssumption DEF Times
      <3>8. Local(u) = w
        <4>1. zone[u] = before
          BY <1>6, <3>7
        <4> QED BY <3>5, <4>1 DEF Local
      <3>9. s <= u
        BY <1>2, <3>1, <3>7, <3>8 DEF shown
      <3> QED BY <3>2, <3>3, <3>5, <3>9
    <2> QED BY <2>2, <2>3
  <1>9. CASE shown = {}
    <2>1. PICK j \in 1..now :
            /\ Local(j) > w /\ \A x \in 0..(j - 1) : Local(x) < w
            /\ s = w - zone[IF Fold(now) THEN j ELSE j - 1]
      BY <1>3, <1>9
    <2>2. j \in Times /\ j - 1 \in Times /\ j \in 1..MaxClock /\ j - 1 \in 0..(j - 1)
      BY <1>1, ClockAssumption DEF Times
    <2>3. /\ zone[j] \in Int /\ zone[j - 1] \in Int
          /\ Local(j) = j + zone[j] /\ Local(j - 1) = j - 1 + zone[j - 1]
          /\ Local(j) \in Int /\ Date(j) \in Int
      BY <2>2, LocalType DEF Local
    <2>4. w = j + zone[j - 1]
      <3>1. j + zone[j - 1] <= w /\ w <= j + zone[j] - 1
        BY <1>3, <2>1, <2>2, <2>3
      <3>2. w \notin (j + zone[j - 1] + 1)..(j + zone[j] - 1)
        BY <1>4, <2>2, ChangeAssumption
      <3> QED BY <1>3, <2>3, <3>1, <3>2
    <2>5. zone[j - 1] < zone[j]
      BY <1>3, <2>1, <2>3, <2>4
    <2>6. at = j /\ before = zone[j - 1] /\ after = zone[j]
      <3>1. at \in Int /\ j \in Int
        BY <1>1
      <3> QED BY <1>6, <2>2, <2>3, <2>5, <3>1
    <2>7. ~Fold(now)
      <3> SUFFICES ASSUME NEW u \in Times, u < now, Local(u) = Local(now) PROVE FALSE
        BY <1>2 DEF Fold
      <3>1. zone[now] = after /\ zone[u] \in {before, after}
        BY <1>1, <1>6, <2>6
      <3>2. zone[u] <= zone[now] /\ zone[u] \in Int /\ zone[now] \in Int
        BY <2>3, <2>5, <2>6, <3>1
      <3>3. u + zone[u] = now + zone[now]
        BY DEF Local
      <3> QED BY <1>1, <3>2, <3>3
    <2>8. s = j
      BY <1>3, <2>1, <2>3, <2>4, <2>7
    <2>9. s <= t => Date(now) <= Date(t)
      <3>1. Date(now) <= Date(j)
        BY <1>3, <1>4, <2>1, <2>3, DivMonotone DEF Date
      <3>2. j <= t => Date(j) <= Date(t)
        BY <2>2, DateMonotone
      <3> QED BY <1>2, <2>3, <2>8, <3>1, <3>2
    <2>10. Date(t) = Date(now) => s <= t
      <3> SUFFICES ASSUME Date(t) = Date(now), ~(j <= t) PROVE FALSE
        BY <2>8
      <3>1. t \in 0..(j - 1)
        BY <2>2 DEF Times
      <3> QED BY <1>2, <1>3, <1>5, <2>1, <3>1
    <2> QED BY <1>2, <1>7, <2>9, <2>10
  <1> QED BY <1>8, <1>9

TodayInv == TypeInv /\ TodayIsToday

LEMMA TodayFrame ==
    ASSUME TodayIsToday, zone' = zone, kept' \subseteq kept,
           report'.window = report.window, report'.now = report.now,
           report'.pairs = report.pairs,
           task' \in {"hours", "days", "reported"} => task \in {"hours", "days", "reported"}
    PROVE  TodayIsToday'
  <1>1. \A t : /\ Date(t)' = Date(t') /\ Fold(t)' = Fold(t')
               /\ TwoMidnights(t)' = TwoMidnights(t')
    BY DEF Date, Fold, TwoMidnights, FirstMidnight, Hour, Local
  <1> QED BY <1>1 DEF TodayIsToday, Date, Fold, TwoMidnights, FirstMidnight, Hour, Local

LEMMA TodayRead == TodayInv /\ ReadPairs => TodayIsToday'
  <1> SUFFICES ASSUME TodayInv, ReadPairs PROVE TodayIsToday'
    OBVIOUS
  <1> USE DEF TodayInv, TypeInv
  <1> DEFINE now == report.now
             since == RowsSince(report.start)
  <1>1. /\ Reporting /\ kept \subseteq rows /\ UNCHANGED <<zone, kept>>
        /\ report' = [report EXCEPT !.pairs = since]
    BY DEF ReadPairs, Reporting, Known, seen
  <1>2. /\ report'.window = report.window /\ report'.now = now
        /\ report'.pairs = since
    <2>1. report = [window |-> report.window, now |-> report.now, start |-> report.start,
                    pairs |-> report.pairs, hours |-> report.hours, trend |-> report.trend]
      BY DEF Filled
    <2> HIDE DEF since
    <2> QED BY <1>1, <2>1
  <1>3. SUFFICES ASSUME report.window = "today"
                 PROVE  /\ \A r \in since : r.ts <= now => Date(r.ts) = Date(now)
                        /\ ~(Fold(now) /\ TwoMidnights(now)) =>
                             \A r \in kept : Date(r.ts) = Date(now) => r \in since
    BY <1>1, <1>2 DEF TodayIsToday, Date, Fold, TwoMidnights, FirstMidnight, Hour, Local
  <1>4. report.start = {Utc(FirstMidnight(now), Fold(now))}
    BY <1>1, <1>3 DEF Filled, WindowStart, FirstMidnight
  <1>5. now \in Begin..MaxClock /\ zone \in Zones /\ \A r \in rows : r.ts \in Times
    BY <1>1 DEF Timely, TypeOK
  <1>6. \A r : r \in since <=> r \in rows /\ r.ts >= Utc(FirstMidnight(now), Fold(now))
    BY <1>4 DEF RowsSince
  <1>7. Utc(FirstMidnight(now), Fold(now)) \in Int
    BY <1>4 DEF TypeOK
  <1> HIDE DEF now, since
  <1>8. \A r \in since : r.ts <= now => Date(r.ts) = Date(now)
    <2> SUFFICES ASSUME NEW r \in since, r.ts <= now PROVE Date(r.ts) = Date(now)
      OBVIOUS
    <2>1. r.ts \in Times /\ Utc(FirstMidnight(now), Fold(now)) <= r.ts
      BY <1>5, <1>6, <1>7 DEF Times
    <2> QED BY <1>5, <2>1, TodayStart
  <1>9. ASSUME ~(Fold(now) /\ TwoMidnights(now)), NEW r \in kept, Date(r.ts) = Date(now)
        PROVE  r \in since
    <2>1. r \in rows /\ r.ts \in Times
      BY <1>1, <1>5
    <2>2. Utc(FirstMidnight(now), Fold(now)) <= r.ts
      BY <1>5, <1>9, <2>1, TodayStart
    <2> QED BY <1>6, <1>7, <2>1, <2>2 DEF Times
  <1> QED BY <1>8, <1>9

LEMMA TodayStep == TodayInv /\ [Next]_vars => TodayInv'
  <1> SUFFICES ASSUME TodayInv, [Next]_vars PROVE TodayIsToday'
    BY TypeStep DEF TodayInv
  <1> USE DEF TodayInv
  <1>1. CASE task' \notin {"hours", "days", "reported"}
    BY <1>1 DEF TodayIsToday
  <1>2. CASE \E dir \in Direction : Insert(dir)
    BY <1>2, TodayFrame DEF Insert, reader
  <1>3. CASE Purge \/ Tick \/ UNCHANGED vars
    BY <1>3, TodayFrame DEF Purge, Tick, vars, reader, seen
  <1>4. CASE ReadPairs
    BY <1>4, TodayRead
  <1>5. CASE ReadHours \/ ReadDays
    <2>1. report = [window |-> report.window, now |-> report.now, start |-> report.start,
                    pairs |-> report.pairs, hours |-> report.hours, trend |-> report.trend]
      BY DEF TypeInv, Filled
    <2>2. /\ report'.window = report.window /\ report'.now = report.now
          /\ report'.pairs = report.pairs
      BY <1>5, <2>1 DEF ReadHours, ReadDays
    <2> QED BY <1>5, <2>2, TodayFrame DEF ReadHours, ReadDays, seen
  <1>6. CASE CsvPageRead \/ ScrollPageRead \/ Answer
    BY <1>1, <1>6 DEF CsvPageRead, ScrollPageRead, Answer
  <1>7. CASE \E how \in Listing : StartListing(how)
    BY <1>1, <1>7 DEF StartListing, Listing
  <1>8. CASE \E window \in Window : StartReport(window)
    BY <1>1, <1>8 DEF StartReport
  <1> QED BY <1>2, <1>3, <1>4, <1>5, <1>6, <1>7, <1>8 DEF Next

(* The report of "today" is about the local day (window_start): clocks put *)
(* forward or back, it counts no event of another day up to now, and       *)
(* misses none of today but in the hour after a second midnight.           *)
THEOREM TodayIsTodayHolds == Spec => []TodayIsToday
  <1>1. Init => TodayInv
    BY TypeInit DEF Init, TodayInv, TodayIsToday
  <1>2. TodayInv => TodayIsToday
    BY DEF TodayInv
  <1> QED BY <1>1, <1>2, TodayStep, PTL DEF Spec

=============================================================================
