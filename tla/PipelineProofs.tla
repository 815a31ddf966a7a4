------------------------- MODULE PipelineProofs -------------------------
(***************************************************************************)
(* What holds of the two sides of a pipeline runner.  First its capture    *)
(* thread (CaptureLoop): for every view of every frame, every distance and *)
(* shortest track, and exceptions and stops at any moment.  Then the live  *)
(* preview taken from it (LiveTap): for every set of streams, rate limit   *)
(* and number of restarts.                                                 *)
(***************************************************************************)
EXTENDS CaptureLoop, LiveTap, SequenceTheorems, FiniteSetTheorems, TLAPS

LastOf(t) == Last(t.detections)

(* Every track has a detection, and an id that was given out.              *)
Solid == \A t \in Tracks :
    /\ t \in Track /\ t.detections # <<>>
    /\ t.id \in 1..made

(* last_full_frame is the last frame read, prev_full_frame the one before. *)
Frames == last \in {0, n} /\ prev \in {0, n - 1}

(* The tracks in flight were seen in the last frame, of this session.      *)
Current == \A t \in live :
    /\ LastOf(t).at = n /\ LastOf(t).in = session
    /\ last # 0 /\ pc \in {"frame", "persist"}

(* The picture for the tracks that wait shows them.                        *)
Pictured == \A t \in todo : pic \in {LastOf(t).at - 1, LastOf(t).at}

RideInv == TypeOK /\ Solid /\ Frames /\ Current /\ Pictured
           /\ OneRide /\ PictureShowsVehicle

(* No two tracks have the same id; a track that was persisted is gone.     *)
Distinct ==
    /\ \A t, u \in live \cup todo : t.id = u.id => t = u
    /\ live \cap todo = {}
    /\ \A h \in handled : h.track.id \notin Ids(live) \cup Ids(todo)
    /\ \A g, h \in handled : g.track.id = h.track.id => g = h

(* No detection is of a frame to come.                                     *)
Past == \A t \in Tracks : \A d \in ToSet(t.detections) : d.at <= n

BlobInv == RideInv /\ Distinct /\ Past /\ NoBlobTwice

(* Who has been long enough is long enough, or gone.                       *)
Kept ==
    /\ seen \subseteq 1..made
    /\ \A t \in live : t.id \in seen => LongEnough(t)

TrackInv == BlobInv /\ Kept /\ NoTrackForgotten

---------------------------------------------------------------------------
(* The tracker.                                                            *)

LEMMA DetectionsType ==
    ASSUME TypeOK, NEW view \in Views
    PROVE  /\ Detections(view) \subseteq Detection
           /\ \A d \in Detections(view) : d.at = n + 1 /\ d.in = session
           /\ \A d, e \in Detections(view) : d.no = e.no => d = e
  <1>1. view \in Seq(Blob) /\ n \in Nat /\ session \in Nat
    BY ViewsAssumption DEF TypeOK
  <1>2. DOMAIN view \subseteq Nat /\ \A k \in DOMAIN view : view[k] \in Blob
    BY <1>1
  <1> QED BY <1>1, <1>2 DEF Detections, Detection, Blob

LEMMA LastType ==
    ASSUME NEW t \in Track, t.detections # <<>>
    PROVE  /\ t.detections \in Seq(Detection) /\ t.id \in Nat
           /\ Len(t.detections) \in Nat \ {0}
           /\ DOMAIN t.detections = 1..Len(t.detections)
           /\ LastOf(t) \in Detection
           /\ LastOf(t) = t.detections[Len(t.detections)]
  <1>1. t.detections \in Seq(Detection) /\ t.id \in Nat
    BY DEF Track
  <1>2. Len(t.detections) \in Nat \ {0}
    BY <1>1, EmptySeq, LenProperties
  <1> QED BY <1>1, <1>2 DEF LastOf, Last

LEMMA DetectionAt ==
    ASSUME NEW t \in Track, NEW d \in ToSet(t.detections)
    PROVE  d.at \in Nat
  <1>1. t.detections \in Seq(Detection)
    BY DEF Track
  <1>2. d \in Detection
    BY <1>1 DEF ToSet
  <1> QED BY <1>2 DEF Detection

LEMMA ClosestOne ==
    ASSUME NEW t \in Track, t.detections # <<>>, NEW ds, ds \subseteq Detection,
           \A d, e \in ds : d.no = e.no => d = e
    PROVE  /\ Closest(t, ds) \subseteq ds
           /\ \A d, e \in Closest(t, ds) : d = e
  <1>1. LastOf(t).x \in Int /\ LastOf(t) = Last(t.detections)
    BY LastType DEF Detection, LastOf
  <1>2. \A d \in Detection : Distance(t, d) \in Int /\ d.no \in Nat
    BY <1>1 DEF Distance, Detection
  <1>3. ASSUME NEW d \in Closest(t, ds), NEW e \in Closest(t, ds) PROVE d = e
    <2>1. d \in ds /\ e \in ds
      BY DEF Closest
    <2>2. Distance(t, d) <= Distance(t, e) /\ Distance(t, e) <= Distance(t, d)
      BY <2>1 DEF Closest
    <2>3. Distance(t, d) = Distance(t, e)
      BY <1>2, <2>1, <2>2
    <2>4. d.no <= e.no /\ e.no <= d.no
      BY <2>1, <2>3 DEF Closest
    <2> QED BY <1>2, <2>1, <2>4
  <1> QED BY <1>3 DEF Closest

LEMMA LargestOne ==
    ASSUME NEW ds, ds \subseteq Detection, \A d, e \in ds : d.no = e.no => d = e
    PROVE  Largest(ds) \subseteq ds /\ \A d, e \in Largest(ds) : d = e
  <1>1. ASSUME NEW d \in Largest(ds), NEW e \in Largest(ds) PROVE d = e
    <2>1. d \in ds /\ e \in ds /\ d.area \in Nat /\ e.area \in Nat
          /\ d.no \in Nat /\ e.no \in Nat
      BY DEF Largest, Detection
    <2>2. d.area = e.area
      BY <2>1 DEF Largest
    <2>3. d.no <= e.no /\ e.no <= d.no
      BY <2>1, <2>2 DEF Largest
    <2> QED BY <2>1, <2>3
  <1> QED BY <1>1 DEF Largest

LEMMA ExtendedType ==
    ASSUME NEW t \in Track, t.detections # <<>>, NEW d \in Detection
    PROVE  /\ Extended(t, d) \in Track
           /\ Extended(t, d).id = t.id
           /\ Extended(t, d).detections # <<>>
           /\ LastOf(Extended(t, d)) = d
           /\ Len(Extended(t, d).detections) = Len(t.detections) + 1
           /\ Extended(t, d).detections[Len(t.detections) + 1] = d
           /\ \A k \in 1..Len(t.detections) :
                Extended(t, d).detections[k] = t.detections[k]
           /\ ToSet(Extended(t, d).detections) = ToSet(t.detections) \cup {d}
  <1> DEFINE s == t.detections
             l == Len(s)
  <1>1. s \in Seq(Detection) /\ l \in Nat \ {0} /\ DOMAIN s = 1..l
    BY LastType
  <1>2. Extended(t, d) = [t EXCEPT !.detections = Append(s, d)]
    BY DEF Extended
  <1>3. Append(s, d) \in Seq(Detection) /\ Len(Append(s, d)) = l + 1
    BY <1>1, AppendProperties
  <1>4. Append(s, d)[l + 1] = d /\ \A k \in 1..l : Append(s, d)[k] = s[k]
    BY <1>1, AppendProperties
  <1>5. DOMAIN Append(s, d) = 1..(l + 1)
    BY <1>1, <1>3
  <1>6. ToSet(Append(s, d)) = ToSet(s) \cup {d}
    <2>1. 1..(l + 1) = 1..l \cup {l + 1}
      BY <1>1
    <2> HIDE DEF s, l
    <2> QED BY <1>1, <1>4, <1>5, <2>1 DEF ToSet
  <1>7. /\ Extended(t, d) \in Track /\ Extended(t, d).id = t.id
        /\ Extended(t, d).detections = Append(s, d)
    BY <1>2, <1>3 DEF Track
  <1>8. Append(s, d) # <<>>
    BY <1>1, AppendProperties
  <1> HIDE DEF s, l
  <1>9. LastOf(Extended(t, d)) = d
    BY <1>1, <1>3, <1>4, <1>7 DEF LastOf, Last
  <1> QED BY <1>3, <1>4, <1>6, <1>7, <1>8, <1>9 DEF s, l

(* Who claims claims one detection of the new frame, and nobody else's.    *)
LEMMA ClaimsApart ==
    ASSUME TypeOK, Solid, NEW view \in Views, NEW claim \in Claims(Detections(view))
    PROVE  /\ \A t \in live : claim[t] \subseteq Detections(view)
           /\ \A t \in live : \A d, e \in claim[t] : d = e
           /\ \A t, u \in live : t.id # u.id => claim[t] \cap claim[u] = {}
  <1> DEFINE ds == Detections(view)
             Left(t) == ds \ UNION {claim[u] : u \in {v \in live : v.id < t.id}}
  <1>1. ds \subseteq Detection /\ \A d, e \in ds : d.no = e.no => d = e
    BY DetectionsType
  <1>2. \A t \in live : claim[t] = Closest(t, Left(t))
    BY DEF Claims
  <1>3. \A t \in live : Left(t) \subseteq ds
    OBVIOUS
  <1>4. \A t \in live : t \in Track /\ t.detections # <<>> /\ t.id \in Nat
    BY DEF TypeOK, Solid, Tracks, Track
  <1> HIDE DEF ds
  <1>5. ASSUME NEW t \in live
        PROVE  claim[t] \subseteq Left(t) /\ \A d, e \in claim[t] : d = e
    <2>1. Left(t) \subseteq Detection /\ \A d, e \in Left(t) : d.no = e.no => d = e
      BY <1>1, <1>3
    <2> HIDE DEF Left
    <2> QED BY <2>1, <1>2, <1>4, ClosestOne
  <1>6. ASSUME NEW t \in live, NEW u \in live, t.id < u.id
        PROVE  claim[t] \cap claim[u] = {}
    BY <1>5, <1>6
  <1>7. ASSUME NEW t \in live, NEW u \in live, t.id # u.id
        PROVE  claim[t] \cap claim[u] = {}
    <2>1. t.id < u.id \/ u.id < t.id
      BY <1>4, <1>7
    <2> QED BY <2>1, <1>6
  <1>8. \A t \in live : claim[t] \subseteq ds
    BY <1>3, <1>5
  <1> QED BY <1>5, <1>7, <1>8 DEF ds

(* A survivor is a track that was in flight, with one detection more.      *)
LEMMA SurvivorIs ==
    ASSUME TypeOK, Solid, NEW view \in Views, NEW claim \in Claims(Detections(view)),
           NEW u \in Survivors(claim)
    PROVE  \E t \in live : \E d \in claim[t] :
             /\ u = Extended(t, d) /\ d \in Detections(view)
             /\ t \in Track /\ t.detections # <<>> /\ d \in Detection
  <1>1. PICK t \in live : \E d \in claim[t] : u = Extended(t, d)
    BY DEF Survivors
  <1>2. t \in Track /\ t.detections # <<>>
    BY DEF TypeOK, Solid, Tracks
  <1> QED BY <1>1, <1>2, ClaimsApart, DetectionsType

(* A new track is one detection that nobody claimed, with the next id.     *)
LEMMA StartedIs ==
    ASSUME TypeOK, NEW view \in Views, NEW claim
    PROVE  /\ \A u \in Started(claim, Detections(view)) :
                /\ u \in Track /\ u.id = made + 1
                /\ \E d \in Detections(view) :
                     /\ u.detections = <<d>> /\ LastOf(u) = d
                     /\ \A t \in live : d \notin claim[t]
           /\ \A u, v \in Started(claim, Detections(view)) : u = v
  <1> DEFINE left == Detections(view) \ UNION {claim[t] : t \in live}
  <1>1. left \subseteq Detection /\ \A d, e \in left : d.no = e.no => d = e
    BY DetectionsType
  <1>2. Largest(left) \subseteq left /\ \A d, e \in Largest(left) : d = e
    <2> HIDE DEF left
    <2> QED BY <1>1, LargestOne
  <1>3. Started(claim, Detections(view)) =
          {[id |-> made + 1, detections |-> <<d>>] : d \in Largest(left)}
    BY DEF Started
  <1>4. ASSUME NEW u \in Started(claim, Detections(view))
        PROVE  /\ u \in Track /\ u.id = made + 1
               /\ \E d \in Detections(view) :
                    /\ u.detections = <<d>> /\ LastOf(u) = d
                    /\ \A t \in live : d \notin claim[t]
    <2>1. PICK d \in Largest(left) : u = [id |-> made + 1, detections |-> <<d>>]
      BY <1>3
    <2>2. d \in Detection /\ d \in Detections(view) /\ \A t \in live : d \notin claim[t]
      BY <1>1, <1>2
    <2>3. <<d>> \in Seq(Detection) /\ Len(<<d>>) = 1 /\ <<d>>[1] = d
      BY <2>2
    <2>4. made + 1 \in Nat
      BY DEF TypeOK
    <2>5. LastOf(u) = d
      BY <2>1, <2>3 DEF LastOf, Last
    <2> QED BY <2>1, <2>2, <2>3, <2>4, <2>5 DEF Track
  <1> QED BY <1>2, <1>3, <1>4
---------------------------------------------------------------------------
(* One ride.                                                               *)

Ride(t) == \A k \in 1..(Len(t.detections) - 1) :
    /\ t.detections[k + 1].at = t.detections[k].at + 1
    /\ t.detections[k + 1].in = t.detections[k].in

LEMMA RideGrows ==
    ASSUME NEW t \in Track, t.detections # <<>>, Ride(t), NEW d \in Detection,
           d.at = LastOf(t).at + 1, d.in = LastOf(t).in
    PROVE  Ride(Extended(t, d))
  <1> DEFINE l == Len(t.detections)
             e == Extended(t, d)
  <1>1. l \in Nat \ {0} /\ LastOf(t) = t.detections[l]
    BY LastType
  <1>2. /\ Len(e.detections) = l + 1 /\ e.detections[l + 1] = d
        /\ \A k \in 1..l : e.detections[k] = t.detections[k]
    BY ExtendedType
  <1> HIDE DEF e
  <1>3. ASSUME NEW k \in 1..l
        PROVE  /\ e.detections[k + 1].at = e.detections[k].at + 1
               /\ e.detections[k + 1].in = e.detections[k].in
    <2>1. CASE k = l
      BY <1>1, <1>2, <2>1
    <2>2. CASE k # l
      <3>1. k \in 1..(l - 1) /\ k + 1 \in 1..l
        BY <1>1, <2>2
      <3> QED BY <1>2, <3>1 DEF Ride
    <2> QED BY <2>1, <2>2
  <1>4. Len(e.detections) - 1 = l
    BY <1>1, <1>2
  <1> QED BY <1>3, <1>4 DEF Ride, e

LEMMA RideBegins ==
    ASSUME NEW t, NEW d, t.detections = <<d>>
    PROVE  Ride(t)
  BY DEF Ride

(* A step that takes no frame has no new tracks.                           *)
LEMMA RidesRemain ==
    ASSUME Solid, OneRide, Tracks' \subseteq Tracks, made' = made
    PROVE  Solid' /\ OneRide'
  BY DEF Solid, OneRide

LEMMA InitRide == Init => RideInv
  <1> SUFFICES ASSUME Init PROVE RideInv
    OBVIOUS
  <1>1. Tracks = {}
    BY DEF Init, Tracks, Persisted
  <1>2. TypeOK
    <2>1. {session, n, prev, last, pic, made} \subseteq Nat
      BY DEF Init
    <2>2. live = {} /\ todo = {} /\ handled = {} /\ seen = {} /\ lost = {}
      BY DEF Init
    <2>3. pc = "check" /\ stop \in BOOLEAN /\ persistent \in BOOLEAN
      BY DEF Init
    <2> QED BY <2>1, <2>2, <2>3 DEF TypeOK
  <1>3. Solid /\ OneRide
    BY <1>1 DEF Solid, OneRide
  <1>4. Frames /\ Current /\ Pictured /\ PictureShowsVehicle
    BY DEF Init, Frames, Current, Pictured, PictureShowsVehicle
  <1> QED BY <1>2, <1>3, <1>4 DEF RideInv

LEMMA OpenSessionRide == RideInv /\ OpenSession => RideInv'
  <1> SUFFICES ASSUME RideInv, OpenSession PROVE RideInv'
    OBVIOUS
  <1> USE DEF RideInv
  <1>1. live = {} /\ todo = {}
    BY DEF OpenSession, Current, TypeOK
  <1>2. TypeOK'
    BY <1>1 DEF OpenSession, TypeOK, history
  <1>3. Tracks' \subseteq Tracks /\ made' = made
    BY DEF OpenSession, history, Tracks, Persisted
  <1>4. Solid' /\ OneRide'
    BY <1>3, RidesRemain
  <1>5. Frames' /\ Current' /\ Pictured' /\ PictureShowsVehicle'
    BY <1>1 DEF OpenSession, Frames, Current, Pictured, PictureShowsVehicle
  <1> QED BY <1>2, <1>4, <1>5

LEMMA FirstFrameRide == RideInv /\ FirstFrame => RideInv'
  <1> SUFFICES ASSUME RideInv, FirstFrame PROVE RideInv'
    OBVIOUS
  <1> USE DEF RideInv
  <1>1. live = {} /\ todo = {} /\ n \in Nat
    BY DEF FirstFrame, Current, TypeOK
  <1>2. TypeOK'
    BY <1>1 DEF FirstFrame, TypeOK, history
  <1>3. Tracks' \subseteq Tracks /\ made' = made
    BY DEF FirstFrame, history, Tracks, Persisted
  <1>4. Solid' /\ OneRide'
    BY <1>3, RidesRemain
  <1>5. Frames' /\ Current' /\ Pictured' /\ PictureShowsVehicle'
    BY <1>1 DEF FirstFrame, Frames, Current, Pictured, PictureShowsVehicle
  <1> QED BY <1>2, <1>4, <1>5

(* What a frame makes of the tracks.                                       *)
LEMMA LiveAfterFrame ==
    ASSUME RideInv, NEW view \in Views, NEW claim \in Claims(Detections(view)),
           NEW u \in Survivors(claim) \cup Started(claim, Detections(view))
    PROVE  /\ u \in Track /\ u.detections # <<>>
           /\ u.id \in 1..(made + 1)
           /\ u \in Survivors(claim) => u.id \in 1..made
           /\ LastOf(u).at = n + 1 /\ LastOf(u).in = session
           /\ Ride(u)
  <1> USE DEF RideInv
  <1>1. made \in Nat /\ n \in Nat /\ session \in Nat
    BY DEF TypeOK
  <1>2. CASE u \in Survivors(claim)
    <2>0. PICK t \in live : \E d \in claim[t] :
            /\ u = Extended(t, d) /\ d \in Detections(view)
            /\ t \in Track /\ t.detections # <<>> /\ d \in Detection
      BY <1>2, SurvivorIs
    <2>1. PICK d \in claim[t] :
            /\ u = Extended(t, d) /\ d \in Detections(view)
            /\ t \in Track /\ t.detections # <<>> /\ d \in Detection
      BY <2>0
    <2>2. d.at = n + 1 /\ d.in = session
      BY <2>1, DetectionsType
    <2>3. LastOf(t).at = n /\ LastOf(t).in = session
      BY DEF Current
    <2>4. t.id \in 1..made /\ Ride(t)
      BY DEF Solid, OneRide, Ride, Tracks
    <2>5. Ride(u)
      BY <2>1, <2>2, <2>3, <2>4, RideGrows
    <2>6. u \in Track /\ u.id = t.id /\ u.detections # <<>> /\ LastOf(u) = d
      BY <2>1, ExtendedType
    <2> QED BY <1>1, <2>2, <2>4, <2>5, <2>6
  <1>3. CASE u \in Started(claim, Detections(view))
    <2>1. /\ u \in Track /\ u.id = made + 1
          /\ \E d \in Detections(view) : u.detections = <<d>> /\ LastOf(u) = d
      BY <1>3, StartedIs
    <2>2. PICK d \in Detections(view) : u.detections = <<d>> /\ LastOf(u) = d
      BY <2>1
    <2>3. d.at = n + 1 /\ d.in = session
      BY DetectionsType
    <2>4. Ride(u)
      BY <2>2, RideBegins
    <2>5. u.detections # <<>>
      BY <2>2
    <2>6. u.id \in 1..(made + 1) /\ u.id \notin 1..made
      BY <1>1, <2>1
    <2>7. u \notin Survivors(claim)
      <3>1. SUFFICES ASSUME u \in Survivors(claim) PROVE FALSE
        OBVIOUS
      <3>2. PICK t \in live : \E d2 \in claim[t] :
              /\ u = Extended(t, d2) /\ t \in Track /\ t.detections # <<>>
              /\ d2 \in Detection
        BY <3>1, SurvivorIs
      <3>3. u.id = t.id /\ t.id \in 1..made
        BY <3>2, ExtendedType DEF Solid, Tracks
      <3> QED BY <2>6, <3>3
    <2> QED BY <2>1, <2>2, <2>3, <2>4, <2>5, <2>6, <2>7
  <1> QED BY <1>2, <1>3

LEMMA NextFrameRide == RideInv /\ NextFrame => RideInv'
  <1> SUFFICES ASSUME RideInv, NextFrame PROVE RideInv'
    OBVIOUS
  <1>0. PICK view \in Views : \E claim \in Claims(Detections(view)) :
          Process(claim, Started(claim, Detections(view)))
    BY DEF NextFrame
  <1>1. PICK claim \in Claims(Detections(view)) :
          Process(claim, Started(claim, Detections(view)))
    BY <1>0
  <1> DEFINE new == Started(claim, Detections(view))
  <1> USE DEF Process
  <1>2. TypeOK
    BY DEF RideInv
  <1>3. n \in Nat /\ made \in Nat /\ made' \in Nat /\ (made' = made \/ made' = made + 1)
    BY <1>1, <1>2 DEF TypeOK
  <1>4. \A u \in live' :
          /\ u \in Track /\ u.detections # <<>> /\ u.id \in 1..made'
          /\ LastOf(u).at = n + 1 /\ LastOf(u).in = session /\ Ride(u)
    <2>1. SUFFICES ASSUME NEW u \in live'
                   PROVE  /\ u \in Track /\ u.detections # <<>> /\ u.id \in 1..made'
                          /\ LastOf(u).at = n + 1 /\ LastOf(u).in = session /\ Ride(u)
      OBVIOUS
    <2>2. u \in Survivors(claim) \cup new
      BY <1>1
    <2>3. u \notin Survivors(claim) => made' = made + 1
      BY <1>1, <2>2
    <2>4. u \in Track /\ u.detections # <<>> /\ u.id \in 1..(made + 1)
          /\ (u \in Survivors(claim) => u.id \in 1..made)
          /\ LastOf(u).at = n + 1 /\ LastOf(u).in = session /\ Ride(u)
      BY <2>2, LiveAfterFrame
    <2> QED BY <1>3, <2>3, <2>4
  <1>5. todo' \subseteq live
    BY <1>1 DEF Finalised
  <1>6. \A u \in Tracks' : u \in live' \/ u \in Tracks
    BY <1>1, <1>5 DEF Tracks, Persisted
  <1>7. \A u \in live' : LongEnough(u) => u.id \in Nat
    BY <1>4 DEF Track
  <1>8. TypeOK'
    <2>1. pc' \in {"frame", "persist"} /\ (pc' = "persist" <=> todo' # {})
      BY <1>1
    <2>2. live' \subseteq Track /\ todo' \subseteq Track
      BY <1>2, <1>4, <1>5 DEF TypeOK
    <2>3. seen' \subseteq Nat
      BY <1>1, <1>2, <1>7 DEF TypeOK, Ids
    <2>4. {session', n', prev', last', pic', made'} \subseteq Nat
      BY <1>1, <1>2, <1>3 DEF TypeOK, PictureBefore
    <2> QED BY <1>1, <1>2, <2>1, <2>2, <2>3, <2>4 DEF TypeOK
  <1>9. Solid'
    <2>1. \A u \in Tracks : u \in Track /\ u.detections # <<>> /\ u.id \in 1..made'
      BY <1>3 DEF RideInv, Solid
    <2> QED BY <1>4, <1>6, <2>1 DEF Solid
  <1>10. OneRide'
    <2>1. \A u \in Tracks : Ride(u)
      BY DEF RideInv, OneRide, Ride
    <2> QED BY <1>4, <1>6, <2>1 DEF OneRide, Ride
  <1>11. last = n
    BY <1>1 DEF RideInv, Frames
  <1>12. Frames' /\ PictureShowsVehicle'
    BY <1>1, <1>3, <1>11 DEF RideInv, Frames, PictureShowsVehicle
  <1>13. Current'
    BY <1>1, <1>3, <1>4 DEF Current
  <1>14. Pictured'
    BY <1>1, <1>5, <1>11 DEF RideInv, Current, Pictured, PictureBefore
  <1> QED BY <1>8, <1>9, <1>10, <1>12, <1>13, <1>14 DEF RideInv

LEMMA PersistTrackRide == RideInv /\ PersistTrack => RideInv'
  <1> SUFFICES ASSUME RideInv, PersistTrack PROVE RideInv'
    OBVIOUS
  <1> USE DEF RideInv
  <1>1. PICK t \in todo :
          /\ pc \in {"persist", "flush"}
          /\ handled' = handled \cup {[track |-> t, picture |-> pic]}
          /\ todo' = todo \ {t}
          /\ pc' = IF todo' # {} THEN pc
                   ELSE IF pc = "persist" THEN "frame" ELSE AfterSession
          /\ UNCHANGED <<persistent, stop, session, n, frames, live, pic, history>>
    BY DEF PersistTrack
  <1>2. t \in Track /\ pic \in Nat
    BY DEF TypeOK
  <1>3. AfterSession \in {"check", "ended"}
    BY DEF AfterSession
  <1>4. TypeOK'
    BY <1>1, <1>2, <1>3 DEF TypeOK, frames, history
  <1>5. Tracks' \subseteq Tracks /\ made' = made
    BY <1>1 DEF history, Tracks, Persisted
  <1>6. Solid' /\ OneRide'
    BY <1>5, RidesRemain
  <1>7. Frames' /\ Pictured'
    BY <1>1 DEF frames, Frames, Pictured
  <1>8. Current'
    <2>1. CASE pc = "flush"
      BY <1>1, <2>1 DEF Current
    <2>2. CASE pc = "persist"
      BY <1>1, <2>2 DEF Current, frames
    <2> QED BY <1>1, <2>1, <2>2
  <1>9. PictureShowsVehicle'
    BY <1>1 DEF Pictured, PictureShowsVehicle, LastOf
  <1> QED BY <1>4, <1>6, <1>7, <1>8, <1>9

LEMMA EndSessionRide == RideInv /\ EndSession => RideInv'
  <1> SUFFICES ASSUME RideInv, EndSession PROVE RideInv'
    OBVIOUS
  <1> USE DEF RideInv
  <1>1. todo = {} /\ (last = 0 => live = {}) /\ (last # 0 => last = n)
    BY DEF EndSession, Current, TypeOK, Frames
  <1>2. live' = {} /\ todo' \subseteq live
    BY <1>1 DEF EndSession, Leave, Flush
  <1>3. AfterSession \in {"check", "ended"}
    BY DEF AfterSession
  <1>4. TypeOK'
    BY <1>2, <1>3 DEF EndSession, Leave, TypeOK, frames, history
  <1>5. Tracks' \subseteq Tracks /\ made' = made
    BY <1>2 DEF EndSession, Leave, history, Tracks, Persisted
  <1>6. Solid' /\ OneRide'
    BY <1>5, RidesRemain
  <1>7. Frames' /\ Current' /\ PictureShowsVehicle'
    BY <1>2 DEF EndSession, Leave, frames, Frames, Current, PictureShowsVehicle
  <1>8. Pictured'
    BY <1>1, <1>2 DEF EndSession, Leave, frames, Frames, Current, Pictured
  <1> QED BY <1>4, <1>6, <1>7, <1>8

LEMMA RaiseRide == RideInv /\ Raise => RideInv'
  <1> SUFFICES ASSUME RideInv, Raise PROVE RideInv'
    OBVIOUS
  <1> USE DEF RideInv
  <1>1. AfterSession \in {"check", "ended"}
    BY DEF AfterSession
  <1>2. Ids(todo) \subseteq Nat /\ Ids(live) \subseteq Nat
    BY DEF TypeOK, Ids, Track
  <1>3. TypeOK'
    BY <1>1, <1>2 DEF Raise, TypeOK, frames
  <1>4. Tracks' \subseteq Tracks /\ made' = made
    BY DEF Raise, Tracks, Persisted
  <1>5. Solid' /\ OneRide'
    BY <1>4, RidesRemain
  <1>6. Frames' /\ Current' /\ Pictured' /\ PictureShowsVehicle'
    BY DEF Raise, frames, Frames, Current, Pictured, PictureShowsVehicle
  <1> QED BY <1>3, <1>5, <1>6

(* A stop, the end and a step that changes nothing leave the tracks alone. *)
LEMMA QuietRide ==
    ASSUME RideInv, Stop \/ End \/ UNCHANGED vars
    PROVE  RideInv'
  <1> USE DEF RideInv
  <1>1. /\ UNCHANGED <<persistent, session, n, frames, live, todo, pic, handled, history>>
        /\ stop' \in BOOLEAN
        /\ pc' = pc \/ (pc = "check" /\ pc' = "ended")
    BY DEF Stop, End, vars, frames, history, TypeOK
  <1>2. TypeOK'
    BY <1>1 DEF TypeOK, frames, history
  <1>3. Tracks' \subseteq Tracks /\ made' = made
    BY <1>1 DEF history, Tracks, Persisted
  <1>4. Solid' /\ OneRide'
    BY <1>3, RidesRemain
  <1>5. Frames' /\ Current' /\ Pictured' /\ PictureShowsVehicle'
    BY <1>1 DEF frames, Frames, Current, Pictured, PictureShowsVehicle
  <1> QED BY <1>2, <1>4, <1>5

LEMMA RideStep == RideInv /\ [Next]_vars => RideInv'
  BY OpenSessionRide, FirstFrameRide, NextFrameRide, PersistTrackRide,
     EndSessionRide, RaiseRide, QuietRide DEF Next

LEMMA RideHolds == Spec => []RideInv
  BY InitRide, RideStep, PTL DEF Spec

(* Every state of a capture thread is well-formed: it persists tracks      *)
(* exactly while some wait.                                                *)
THEOREM TypeCorrect == Spec => []TypeOK
  <1>1. RideInv => TypeOK
    BY DEF RideInv
  <1> QED BY <1>1, RideHolds, PTL

(* A track's detections are of consecutive frames of one session, whatever *)
(* is seen and wherever an exception strikes.                              *)
THEOREM OneRideHolds == Spec => []OneRide
  <1>1. RideInv => OneRide
    BY DEF RideInv
  <1> QED BY <1>1, RideHolds, PTL

(* An event's picture is of one of the last two frames its vehicle moved   *)
(* between.                                                                *)
THEOREM PictureShowsVehicleHolds == Spec => []PictureShowsVehicle
  <1>1. RideInv => PictureShowsVehicle
    BY DEF RideInv
  <1> QED BY <1>1, RideHolds, PTL
---------------------------------------------------------------------------
(* No blob twice.                                                          *)

LEMMA InitBlob == Init => BlobInv
  <1> SUFFICES ASSUME Init PROVE BlobInv
    OBVIOUS
  <1>1. Tracks = {} /\ live = {} /\ todo = {} /\ handled = {}
    BY DEF Init, Tracks, Persisted
  <1> QED BY <1>1, InitRide DEF BlobInv, Distinct, Past, NoBlobTwice, Ids

(* A step that takes no frame and moves no track but out.                  *)
LEMMA BlobsRemain ==
    ASSUME BlobInv, RideInv', n <= n', n' \in Nat, handled' = handled,
           live' \cup todo' \subseteq live \cup todo, live' \cap todo' = {}
    PROVE  BlobInv'
  <1> USE DEF BlobInv
  <1>1. Tracks' \subseteq Tracks
    BY DEF Tracks, Persisted
  <1>2. Distinct'
    BY DEF Distinct, Ids
  <1>3. Past'
    <2>1. ASSUME NEW t \in Tracks', NEW d \in ToSet(t.detections)
          PROVE  d.at <= n'
      <3>1. t \in Tracks /\ d.at \in Nat
        BY <1>1, DetectionAt DEF RideInv, Solid
      <3>2. d.at <= n /\ n \in Nat
        BY <3>1 DEF Past, RideInv, TypeOK
      <3> QED BY <3>1, <3>2
    <2> QED BY <2>1 DEF Past
  <1>4. NoBlobTwice'
    BY <1>1 DEF NoBlobTwice
  <1> QED BY <1>2, <1>3, <1>4

(* After a frame a track is as it was, or has one of the frame's detections *)
(* more, or is one alone.                                                  *)
Survives(view, claim, u) == \E t \in live : \E d \in claim[t] :
    /\ u = Extended(t, d) /\ u.id = t.id /\ d \in Detections(view)
    /\ ToSet(u.detections) = ToSet(t.detections) \cup {d}
Begins(view, claim, u) ==
    /\ u.id = made + 1 /\ u \in Started(claim, Detections(view))
    /\ \E d \in Detections(view) :
         /\ ToSet(u.detections) = {d}
         /\ \A t \in live : d \notin claim[t]

LEMMA AfterFrame ==
    ASSUME TypeOK, Solid, NEW view \in Views, NEW claim \in Claims(Detections(view)),
           Process(claim, Started(claim, Detections(view)))
    PROVE  /\ \A u \in live' : Survives(view, claim, u) \/ Begins(view, claim, u)
           /\ \A u \in todo' : u \in live /\ claim[u] = {}
           /\ Persisted' = Persisted /\ handled' = handled
  <1> DEFINE new == Started(claim, Detections(view))
  <1>1. ASSUME NEW u \in Survivors(claim) PROVE Survives(view, claim, u)
    <2>1. PICK t \in live : \E d \in claim[t] :
            /\ u = Extended(t, d) /\ d \in Detections(view)
            /\ t \in Track /\ t.detections # <<>> /\ d \in Detection
      BY <1>1, SurvivorIs
    <2>2. PICK d \in claim[t] :
            /\ u = Extended(t, d) /\ d \in Detections(view)
            /\ t \in Track /\ t.detections # <<>> /\ d \in Detection
      BY <2>1
    <2>3. u.id = t.id /\ ToSet(u.detections) = ToSet(t.detections) \cup {d}
      BY <2>2, ExtendedType
    <2> QED BY <2>2, <2>3 DEF Survives
  <1>2. ASSUME NEW u \in new PROVE Begins(view, claim, u)
    <2>1. /\ u.id = made + 1
          /\ \E d \in Detections(view) :
               u.detections = <<d>> /\ \A t \in live : d \notin claim[t]
      BY <1>2, StartedIs
    <2>2. PICK d \in Detections(view) :
               u.detections = <<d>> /\ \A t \in live : d \notin claim[t]
      BY <2>1
    <2>3. ToSet(u.detections) = {d}
      BY <2>2 DEF ToSet
    <2> QED BY <2>1, <2>2, <2>3 DEF Begins
  <1>3. live' = Survivors(claim) \cup new
    BY DEF Process
  <1>4. \A u \in todo' : u \in live /\ claim[u] = {}
    BY DEF Process, Finalised
  <1>5. Persisted' = Persisted /\ handled' = handled
    BY DEF Process, Persisted
  <1> QED BY <1>1, <1>2, <1>3, <1>4, <1>5

LEMMA ProcessBlob ==
    ASSUME BlobInv, RideInv', NEW view \in Views, NEW claim \in Claims(Detections(view)),
           Process(claim, Started(claim, Detections(view)))
    PROVE  BlobInv'
  <1> DEFINE ds == Detections(view)
             new == Started(claim, ds)
             S(u) == Survives(view, claim, u)
             B(u) == Begins(view, claim, u)
  <1>0. TypeOK /\ Solid
    BY DEF BlobInv, RideInv
  <1>1. /\ \A u \in live' : S(u) \/ B(u)
        /\ \A u \in todo' : u \in live /\ claim[u] = {}
        /\ Persisted' = Persisted /\ handled' = handled
    BY <1>0, AfterFrame
  <1>2. n \in Nat /\ n' = n + 1 /\ todo = {} /\ made \in Nat
    BY DEF BlobInv, RideInv, TypeOK, Process
  <1>3. \A d \in ds : d.at = n + 1
    BY <1>0, DetectionsType
  <1>4. \A u \in Tracks : u.id \in 1..made /\ u.id # made + 1
    BY <1>0, <1>2 DEF Solid
  <1>5. \A u \in Tracks : \A d \in ToSet(u.detections) : d.at <= n /\ d \notin ds
    <2>1. ASSUME NEW u \in Tracks, NEW d \in ToSet(u.detections)
          PROVE  d.at <= n /\ d \notin ds
      BY <1>2, <1>3 DEF BlobInv, Past
    <2> QED BY <2>1
  <1>6. /\ \A t \in live : claim[t] \subseteq ds
        /\ \A t \in live : \A d, e \in claim[t] : d = e
        /\ \A t, u \in live : t.id # u.id => claim[t] \cap claim[u] = {}
    BY <1>0, ClaimsApart
  <1>7. \A u, v \in new : u = v
    BY <1>0, StartedIs
  <1>8. \A t, u \in live : t.id = u.id => t = u
    BY DEF BlobInv, Distinct
  <1>9. live \subseteq Tracks /\ Persisted \subseteq Tracks
    BY DEF Tracks
  <1>10. \A h \in handled : h.track \in Tracks /\ h.track.id \notin Ids(live)
    BY DEF Tracks, Persisted, BlobInv, Distinct, Ids
  <1>11. \A u \in live' : S(u) => \E t \in live : \E d \in claim[t] :
           /\ u = Extended(t, d) /\ u.id = t.id /\ d \in ds
           /\ ToSet(u.detections) = ToSet(t.detections) \cup {d}
    BY DEF Survives
  <1>12. \A u \in live' : B(u) =>
           /\ u.id = made + 1 /\ u \in new
           /\ \E d \in ds : ToSet(u.detections) = {d} /\ \A t \in live : d \notin claim[t]
    BY DEF Begins
  <1> HIDE DEF ds, new, S, B
  <1>13. Distinct'
    <2>1. ASSUME NEW u \in live', NEW v \in live', u.id = v.id PROVE u = v
      <3>1. CASE S(u) /\ S(v)
        BY <2>1, <3>1, <1>6, <1>8, <1>11
      <3>2. CASE B(u) /\ B(v)
        BY <3>2, <1>7, <1>12
      <3>3. CASE S(u) /\ B(v)
        BY <2>1, <3>3, <1>4, <1>9, <1>11, <1>12
      <3>4. CASE B(u) /\ S(v)
        BY <2>1, <3>4, <1>4, <1>9, <1>11, <1>12
      <3> QED BY <1>1, <3>1, <3>2, <3>3, <3>4
    <2>2. ASSUME NEW u \in live', NEW v \in todo' PROVE u.id # v.id
      <3>1. v \in live /\ claim[v] = {}
        BY <1>1
      <3>2. CASE S(u)
        BY <3>1, <3>2, <1>8, <1>11
      <3>3. CASE B(u)
        BY <3>1, <3>3, <1>4, <1>9, <1>12
      <3> QED BY <1>1, <3>2, <3>3
    <2>3. ASSUME NEW u \in todo', NEW v \in todo', u.id = v.id PROVE u = v
      BY <2>3, <1>1, <1>8
    <2>4. ASSUME NEW h \in handled', NEW u \in live' PROVE h.track.id # u.id
      <3>1. h.track \in Tracks /\ h.track.id \notin Ids(live)
        BY <1>1, <1>10
      <3>2. CASE S(u)
        BY <3>1, <3>2, <1>11 DEF Ids
      <3>3. CASE B(u)
        BY <3>1, <3>3, <1>4, <1>12
      <3> QED BY <1>1, <3>2, <3>3
    <2>5. ASSUME NEW h \in handled', NEW u \in todo' PROVE h.track.id # u.id
      BY <1>1, <1>10 DEF Ids
    <2>6. \A g, h \in handled' : g.track.id = h.track.id => g = h
      BY <1>1 DEF BlobInv, Distinct
    <2> QED BY <2>1, <2>2, <2>3, <2>4, <2>5, <2>6 DEF Distinct, Ids
  <1>14. \A u \in Tracks' : u \in Tracks \/ (u \in live' /\ (S(u) \/ B(u)))
    BY <1>1, <1>9 DEF Tracks
  <1>15. Past'
    <2>1. ASSUME NEW u \in Tracks', NEW d \in ToSet(u.detections) PROVE d.at <= n'
      <3>1. CASE u \in Tracks
        <4>1. d.at <= n /\ u.detections \in Seq(Detection)
          BY <3>1, <1>0, <1>5 DEF Solid, Track
        <4>2. d.at \in Nat
          BY <2>1, <3>1, <1>0, DetectionAt DEF Solid
        <4> QED BY <4>1, <4>2, <1>2
      <3>2. CASE u \in live' /\ S(u)
        <4>1. PICK t \in live : \E e \in claim[t] :
                e \in ds /\ ToSet(u.detections) = ToSet(t.detections) \cup {e}
          BY <3>2, <1>11
        <4>2. d \in ds \/ d \in ToSet(t.detections)
          BY <4>1
        <4>3. CASE d \in ds
          BY <4>3, <1>2, <1>3
        <4>4. CASE d \in ToSet(t.detections)
          <5>1. t \in Tracks /\ d.at <= n /\ t.detections \in Seq(Detection)
            BY <4>4, <1>0, <1>5, <1>9 DEF Solid, Track
          <5>2. d.at \in Nat
            BY <4>4, <5>1, <1>0, DetectionAt DEF Solid
          <5> QED BY <5>1, <5>2, <1>2
        <4> QED BY <4>2, <4>3, <4>4
      <3>3. CASE u \in live' /\ B(u)
        BY <3>3, <1>2, <1>3, <1>12
      <3> QED BY <1>14, <3>1, <3>2, <3>3
    <2> QED BY <2>1 DEF Past
  <1>16. NoBlobTwice'
    <2> DEFINE Apart(t, u) == ToSet(t.detections) \cap ToSet(u.detections) = {}
    <2>1. \A t, u \in Tracks : t.id # u.id => Apart(t, u)
      BY DEF BlobInv, NoBlobTwice
    <2>2. ASSUME NEW t \in Tracks, NEW u \in live', S(u), t.id # u.id
          PROVE  Apart(t, u)
      BY <2>1, <2>2, <1>5, <1>9, <1>11
    <2>3. ASSUME NEW t \in Tracks, NEW u \in live', B(u)
          PROVE  Apart(t, u)
      BY <2>3, <1>5, <1>12
    <2>4. ASSUME NEW t \in live', NEW u \in live', S(t), S(u), t.id # u.id
          PROVE  Apart(t, u)
      <3>1. PICK t0 \in live : \E d \in claim[t0] :
              /\ t.id = t0.id /\ d \in ds
              /\ ToSet(t.detections) = ToSet(t0.detections) \cup {d}
        BY <2>4, <1>11
      <3>2. PICK u0 \in live : \E d \in claim[u0] :
              /\ u.id = u0.id /\ d \in ds
              /\ ToSet(u.detections) = ToSet(u0.detections) \cup {d}
        BY <2>4, <1>11
      <3>3. t0 \in Tracks /\ u0 \in Tracks /\ t0.id # u0.id
        BY <2>4, <3>1, <3>2, <1>9
      <3>4. ToSet(t0.detections) \cap ToSet(u0.detections) = {}
            /\ claim[t0] \cap claim[u0] = {}
            /\ ToSet(t0.detections) \cap ds = {} /\ ToSet(u0.detections) \cap ds = {}
        BY <3>3, <2>1, <1>5, <1>6
      <3> QED BY <3>1, <3>2, <3>4
    <2>5. ASSUME NEW t \in live', NEW u \in live', S(t), B(u)
          PROVE  Apart(t, u)
      <3>1. PICK t0 \in live : \E d \in claim[t0] :
              /\ d \in ds
              /\ ToSet(t.detections) = ToSet(t0.detections) \cup {d}
        BY <2>5, <1>11
      <3>2. ToSet(t0.detections) \cap ds = {}
        BY <1>5, <1>9
      <3>3. PICK e \in ds : ToSet(u.detections) = {e} /\ e \notin claim[t0]
        BY <2>5, <1>12
      <3> QED BY <3>1, <3>2, <3>3
    <2>6. ASSUME NEW t \in live', NEW u \in live', B(t), B(u)
          PROVE  t = u
      BY <2>6, <1>7, <1>12
    <2>7. ASSUME NEW t \in Tracks', NEW u \in Tracks', t.id # u.id
          PROVE  Apart(t, u)
      <3>1. Apart(t, u) <=> Apart(u, t)
        OBVIOUS
      <3> HIDE DEF Apart
      <3> QED BY <2>1, <2>2, <2>3, <2>4, <2>5, <2>6, <2>7, <3>1, <1>14
    <2> QED BY <2>7 DEF NoBlobTwice
  <1> QED BY <1>13, <1>15, <1>16 DEF BlobInv

LEMMA NextFrameBlob == BlobInv /\ NextFrame => BlobInv'
  <1> SUFFICES ASSUME BlobInv, NextFrame PROVE BlobInv'
    OBVIOUS
  <1>1. RideInv'
    BY NextFrameRide DEF BlobInv
  <1>2. PICK view \in Views : \E claim \in Claims(Detections(view)) :
          Process(claim, Started(claim, Detections(view)))
    BY DEF NextFrame
  <1>3. PICK claim \in Claims(Detections(view)) :
          Process(claim, Started(claim, Detections(view)))
    BY <1>2
  <1> QED BY <1>1, <1>3, ProcessBlob

LEMMA PersistedGrows ==
    ASSUME NEW t, NEW p, handled' = handled \cup {[track |-> t, picture |-> p]}
    PROVE  Persisted' = Persisted \cup {t}
  <1> DEFINE r == [track |-> t, picture |-> p]
  <1>1. r.track = t /\ handled' = handled \cup {r}
    OBVIOUS
  <1> HIDE DEF r
  <1>2. ASSUME NEW u \in Persisted' PROVE u \in Persisted \cup {t}
    BY <1>1 DEF Persisted
  <1>3. ASSUME NEW u \in Persisted \cup {t} PROVE u \in Persisted'
    BY <1>1 DEF Persisted
  <1> QED BY <1>2, <1>3

LEMMA PersistTrackBlob == BlobInv /\ PersistTrack => BlobInv'
  <1> SUFFICES ASSUME BlobInv, PersistTrack PROVE BlobInv'
    OBVIOUS
  <1> USE DEF BlobInv
  <1>1. RideInv'
    BY PersistTrackRide
  <1>2. PICK t \in todo :
          /\ handled' = handled \cup {[track |-> t, picture |-> pic]}
          /\ todo' = todo \ {t} /\ live' = live /\ n' = n
    BY DEF PersistTrack
  <1>3. Tracks' = Tracks
    BY <1>2, PersistedGrows DEF Tracks
  <1>4. \A h \in handled : h.track.id # t.id
    BY DEF Distinct, Ids
  <1>5. \A u \in live' \cup todo' : u.id # t.id
    BY <1>2 DEF Distinct
  <1>6. Distinct'
    BY <1>2, <1>4, <1>5 DEF Distinct, Ids
  <1>7. Past' /\ NoBlobTwice'
    BY <1>2, <1>3 DEF Past, NoBlobTwice
  <1> QED BY <1>1, <1>6, <1>7

LEMMA OtherBlob ==
    ASSUME BlobInv, RideInv',
           OpenSession \/ FirstFrame \/ EndSession \/ Raise \/ Stop \/ End
             \/ UNCHANGED vars
    PROVE  BlobInv'
  <1>1. n \in Nat /\ n' \in Nat /\ n <= n' /\ handled' = handled
    BY DEF BlobInv, RideInv, TypeOK, OpenSession, FirstFrame, EndSession, Leave,
           Raise, Stop, End, vars, frames
  <1>2. \/ live' = live /\ todo' = todo
        \/ live' = {} /\ todo' \subseteq live
        \/ live' = live /\ todo' = {}
    BY DEF OpenSession, FirstFrame, EndSession, Leave, Flush, Raise, Stop, End, vars
  <1>3. live' \cup todo' \subseteq live \cup todo /\ live' \cap todo' = {}
    BY <1>2 DEF BlobInv, Distinct
  <1> QED BY <1>1, <1>3, BlobsRemain

LEMMA BlobStep == BlobInv /\ [Next]_vars => BlobInv'
  <1> SUFFICES ASSUME BlobInv, [Next]_vars PROVE BlobInv'
    OBVIOUS
  <1>1. RideInv'
    BY RideStep DEF BlobInv
  <1> QED BY <1>1, NextFrameBlob, PersistTrackBlob, OtherBlob DEF Next

LEMMA BlobHolds == Spec => []BlobInv
  BY InitBlob, BlobStep, PTL DEF Spec

(* No detection is in two tracks, however many claim it at once.           *)
THEOREM NoBlobTwiceHolds == Spec => []NoBlobTwice
  <1>1. BlobInv => NoBlobTwice
    BY DEF BlobInv
  <1> QED BY <1>1, BlobHolds, PTL

---------------------------------------------------------------------------
(* No track forgotten.                                                     *)

LEMMA InitTrack == Init => TrackInv
  <1> SUFFICES ASSUME Init PROVE TrackInv
    OBVIOUS
  <1>1. live = {} /\ todo = {} /\ handled = {} /\ seen = {}
    BY DEF Init
  <1> QED BY <1>1, InitBlob DEF TrackInv, Kept, NoTrackForgotten, Ids

LEMMA NextFrameTrack == TrackInv /\ NextFrame => TrackInv'
  <1> SUFFICES ASSUME TrackInv, NextFrame PROVE TrackInv'
    OBVIOUS
  <1>1. BlobInv /\ BlobInv'
    BY NextFrameBlob DEF TrackInv
  <1>2. PICK view \in Views : \E claim \in Claims(Detections(view)) :
          Process(claim, Started(claim, Detections(view)))
    BY DEF NextFrame
  <1>3. PICK claim \in Claims(Detections(view)) :
          Process(claim, Started(claim, Detections(view)))
    BY <1>2
  <1> DEFINE S(u) == Survives(view, claim, u)
             B(u) == Begins(view, claim, u)
             long == Ids({t \in live' : LongEnough(t)})
  <1>4. TypeOK /\ Solid /\ TypeOK' /\ Solid' /\ Distinct' /\ todo = {} /\ made \in Nat
    BY <1>1, <1>3 DEF BlobInv, RideInv, TypeOK, Process
  <1>5. /\ \A u \in live' : S(u) \/ B(u)
        /\ \A u \in todo' : u \in live /\ claim[u] = {}
        /\ Persisted' = Persisted /\ handled' = handled
    BY <1>3, <1>4, AfterFrame
  <1>6. /\ live' = Survivors(claim) \cup Started(claim, Detections(view))
        /\ todo' = Finalised(claim) /\ seen' = seen \cup long /\ lost' = lost
        /\ made' \in {made, made + 1}
    BY <1>3 DEF Process
  <1>7. Kept'
    <2>1. seen' \subseteq 1..made'
      <3>1. long \subseteq 1..made'
        BY <1>4 DEF Ids, Solid, Tracks
      <3>2. seen \subseteq 1..made'
        BY <1>4, <1>6 DEF TrackInv, Kept
      <3> HIDE DEF long
      <3> QED BY <3>1, <3>2, <1>6
    <2>2. ASSUME NEW u \in live', u.id \in seen' PROVE LongEnough(u)
      <3>1. CASE u.id \in long
        BY <3>1, <1>4 DEF Ids, Distinct
      <3>2. CASE u.id \in seen /\ S(u)
        <4>1. PICK t \in live : \E d \in claim[t] :
                u = Extended(t, d) /\ u.id = t.id /\ d \in Detections(view)
          BY <3>2 DEF Survives
        <4>2. PICK d \in Detection : u = Extended(t, d)
          BY <4>1, <1>4, DetectionsType
        <4>3. LongEnough(t)
          BY <3>2, <4>1 DEF TrackInv, Kept
        <4>4. t \in Track /\ t.detections # <<>>
          BY <1>4 DEF Solid, Tracks
        <4>5. /\ Len(u.detections) = Len(t.detections) + 1
              /\ Len(t.detections) \in Nat
          BY <4>2, <4>4, ExtendedType, LastType
        <4> QED BY <4>3, <4>5, DetectorAssumption DEF LongEnough
      <3>3. CASE u.id \in seen /\ B(u)
        BY <3>3, <1>4 DEF Begins, TrackInv, Kept
      <3> QED BY <2>2, <1>5, <1>6, <3>1, <3>2, <3>3
    <2> QED BY <2>1, <2>2 DEF Kept
  <1>8. ASSUME NEW i \in seen'
        PROVE  i \in Ids(live') \cup Ids(todo') \cup lost' \cup Ids(Persisted')
    <2>1. CASE i \in long
      BY <2>1 DEF Ids
    <2>2. CASE i \in seen /\ i \in Ids(live)
      <3>1. PICK t \in live : t.id = i
        BY <2>2 DEF Ids
      <3>2. CASE claim[t] = {}
        <4>1. t \in todo'
          BY <2>2, <3>1, <3>2, <1>6 DEF TrackInv, Kept, Finalised
        <4> QED BY <3>1, <4>1 DEF Ids
      <3>3. CASE claim[t] # {}
        <4>1. PICK d \in claim[t] : TRUE
          BY <3>3
        <4>2. d \in Detection /\ t \in Track /\ t.detections # <<>>
          BY <1>4, ClaimsApart, DetectionsType DEF Solid, Tracks
        <4>3. Extended(t, d).id = i
          BY <3>1, <4>2, ExtendedType
        <4>4. Extended(t, d) \in live'
          BY <1>6, <4>1 DEF Survivors
        <4> QED BY <4>3, <4>4 DEF Ids
      <3> QED BY <3>2, <3>3
    <2>3. CASE i \in lost \cup Ids(Persisted)
      BY <2>3, <1>5, <1>6
    <2>4. Ids(todo) = {}
      BY <1>4 DEF Ids
    <2> QED BY <2>1, <2>2, <2>3, <2>4, <1>6 DEF TrackInv, NoTrackForgotten
  <1>9. NoTrackForgotten'
    BY <1>4, <1>8 DEF NoTrackForgotten, Distinct
  <1> QED BY <1>1, <1>7, <1>9 DEF TrackInv

LEMMA PersistTrackTrack == TrackInv /\ PersistTrack => TrackInv'
  <1> SUFFICES ASSUME TrackInv, PersistTrack PROVE TrackInv'
    OBVIOUS
  <1>1. BlobInv /\ BlobInv'
    BY PersistTrackBlob DEF TrackInv
  <1>2. PICK t \in todo :
          /\ handled' = handled \cup {[track |-> t, picture |-> pic]}
          /\ todo' = todo \ {t} /\ live' = live
          /\ made' = made /\ seen' = seen /\ lost' = lost
    BY DEF PersistTrack, history
  <1>3. Kept'
    BY <1>2 DEF TrackInv, Kept
  <1>4. Persisted' = Persisted \cup {t}
    BY <1>2, PersistedGrows
  <1>5. Ids(todo) \subseteq Ids(todo') \cup Ids(Persisted')
        /\ Ids(Persisted) \subseteq Ids(Persisted') /\ Ids(live') = Ids(live)
    BY <1>2, <1>4 DEF Ids
  <1>6. NoTrackForgotten'
    BY <1>1, <1>2, <1>5 DEF TrackInv, NoTrackForgotten, BlobInv, Distinct
  <1> QED BY <1>1, <1>3, <1>6 DEF TrackInv

LEMMA EndSessionTrack == TrackInv /\ EndSession => TrackInv'
  <1> SUFFICES ASSUME TrackInv, EndSession PROVE TrackInv'
    OBVIOUS
  <1>1. BlobInv /\ RideInv /\ BlobInv'
    BY EndSessionRide, OtherBlob DEF TrackInv, BlobInv
  <1>2. /\ live' = {} /\ todo = {}
        /\ last # 0 => todo' = Flush(live)
        /\ last = 0 => live = {} /\ todo' = {}
    BY <1>1 DEF EndSession, Leave, RideInv, TypeOK, Current
  <1>3. handled' = handled /\ made' = made /\ seen' = seen /\ lost' = lost
    BY DEF EndSession, Leave, history
  <1>4. Kept'
    BY <1>2, <1>3 DEF TrackInv, Kept
  <1>5. Persisted' = Persisted
    BY <1>3 DEF Persisted
  <1>6. seen \cap Ids(live) \subseteq Ids(todo')
    BY <1>2 DEF TrackInv, Kept, Flush, Ids
  <1>7. NoTrackForgotten'
    BY <1>1, <1>2, <1>3, <1>5, <1>6
       DEF TrackInv, NoTrackForgotten, BlobInv, Distinct, Ids
  <1> QED BY <1>1, <1>4, <1>7 DEF TrackInv

LEMMA RaiseTrack == TrackInv /\ Raise => TrackInv'
  <1> SUFFICES ASSUME TrackInv, Raise PROVE TrackInv'
    OBVIOUS
  <1>1. BlobInv /\ BlobInv'
    BY RaiseRide, OtherBlob DEF TrackInv, BlobInv
  <1>2. live' = {} /\ todo' = {} /\ lost' = lost \cup Ids(todo) \cup Ids(live)
        /\ handled' = handled /\ made' = made /\ seen' = seen
    BY DEF Raise
  <1>3. Kept' /\ Persisted' = Persisted
    BY <1>2 DEF TrackInv, Kept, Persisted
  <1>4. NoTrackForgotten'
    BY <1>2, <1>3 DEF TrackInv, NoTrackForgotten, Ids
  <1> QED BY <1>1, <1>3, <1>4 DEF TrackInv

LEMMA OtherTrack ==
    ASSUME TrackInv, OpenSession \/ FirstFrame \/ Stop \/ End \/ UNCHANGED vars
    PROVE  TrackInv'
  <1>1. BlobInv /\ BlobInv'
    BY BlobStep DEF TrackInv, Next
  <1>2. UNCHANGED <<live, todo, handled, history>>
    BY DEF OpenSession, FirstFrame, Stop, End, vars, history
  <1> QED BY <1>1, <1>2 DEF TrackInv, Kept, NoTrackForgotten, Persisted, history

LEMMA TrackStep == TrackInv /\ [Next]_vars => TrackInv'
  BY NextFrameTrack, PersistTrackTrack, EndSessionTrack, RaiseTrack, OtherTrack
     DEF Next

(* A track that has been long enough is in flight, waits, was handled once, *)
(* or was lost to an exception: neither a stop nor the end of a session     *)
(* forgets it.                                                              *)
THEOREM NoTrackForgottenHolds == Spec => []NoTrackForgotten
  <1>1. TrackInv => NoTrackForgotten
    BY DEF TrackInv
  <1> QED BY <1>1, InitTrack, TrackStep, PTL DEF Spec

---------------------------------------------------------------------------
(* The live preview.                                                       *)

(* What one runner's step leaves of the others, and of its own count.      *)
Keeps(i, t) ==
    /\ t \in Tap /\ t.viewers = runners[i].viewers
    /\ runners' = [runners EXCEPT ![i] = t]

LEMMA KeepsType ==
    ASSUME runners \in Seq(Tap), NEW i \in DOMAIN runners, NEW t \in Tap,
           runners' = [runners EXCEPT ![i] = t]
    PROVE  /\ runners' \in Seq(Tap) /\ Len(runners') = Len(runners)
           /\ DOMAIN runners' = DOMAIN runners
           /\ runners'[i] = t /\ \A j \in DOMAIN runners : j # i => runners'[j] = runners[j]
  OBVIOUS

LEMMA AppendType ==
    ASSUME runners \in Seq(Tap), runners' = Append(runners, NewRunner)
    PROVE  /\ runners' \in Seq(Tap) /\ Len(runners') = Len(runners) + 1
           /\ DOMAIN runners' = 1..(Len(runners) + 1)
           /\ runners'[Len(runners) + 1] = NewRunner
           /\ DOMAIN runners = 1..Len(runners) /\ Len(runners) \in Nat
  <1>1. NewRunner \in Tap
    BY TapAssumption DEF TapAssumption, NewRunner, Tap, Picture
  <1> QED BY <1>1

LEMMA TapFrameType ==
    ASSUME NEW t \in Tap
    PROVE  TapFrame(t) \in Tap /\ TapFrame(t).viewers = t.viewers
  <1>1. Aged(t) \in Tap /\ Aged(t).viewers = t.viewers
    BY TapAssumption DEF TapAssumption, Aged, Ripe, Tap
  <1>2. \A u \in Tap : Faded(u) \in Tap /\ Faded(u).viewers = u.viewers
    BY DEF Faded, Tap, Picture
  <1>3. [t EXCEPT !.encoding = TRUE, !.since = 0] \in Tap
    <2>1. 0 \in 0..Gap
      BY TapAssumption DEF TapAssumption
    <2> QED BY <2>1 DEF Tap
  <1>4. [t EXCEPT !.encoding = TRUE, !.since = 0].viewers = t.viewers
    BY DEF Tap
  <1> QED BY <1>1, <1>2, <1>3, <1>4 DEF TapFrame

(* A capture thread and a stop leave the count alone.                      *)
LEMMA CaptureKeeps ==
    ASSUME runners \in Seq(Tap), NEW i \in DOMAIN runners, Capture(i)
    PROVE  \E t : Keeps(i, t)
  <1>a. runners[i] \in Tap
    OBVIOUS
  <1>1. CASE Frame(i)
    BY <1>1, <1>a, TapFrameType DEF Frame, Keeps
  <1>2. CASE Encoded(i)
    <2>1. runners' = [runners EXCEPT ![i] = [runners[i] EXCEPT !.encoding = FALSE,
                                                               !.slot = "live"]]
      BY <1>2 DEF Encoded
    <2> QED BY <2>1, <1>a DEF Keeps, Tap, Picture
  <1>3. CASE EncodeFails(i)
    <2>1. runners' = [runners EXCEPT ![i] = [runners[i] EXCEPT !.encoding = FALSE]]
      BY <1>3 DEF EncodeFails
    <2> QED BY <2>1, <1>a DEF Keeps, Tap
  <1>4. CASE ThreadEnds(i)
    <2>1. runners' = [runners EXCEPT ![i] = [Faded(runners[i]) EXCEPT !.alive = FALSE]]
      BY <1>4 DEF ThreadEnds
    <2>2. Faded(runners[i]) \in Tap /\ Faded(runners[i]).viewers = runners[i].viewers
      BY <1>a DEF Faded, Tap, Picture
    <2> QED BY <2>1, <2>2 DEF Keeps, Tap
  <1> QED BY <1>1, <1>2, <1>3, <1>4 DEF Capture

---------------------------------------------------------------------------
(* Types.                                                                  *)

(* A restart has room for its runner.                                      *)
TapTypeInv == TapTypeOK /\ (restarting => Len(runners) < MaxRunners)

LEMMA TapTypeInit == TapInit => TapTypeInv
  <1> SUFFICES ASSUME TapInit PROVE TapTypeInv
    OBVIOUS
  <1>1. NewRunner \in Tap
    BY TapAssumption DEF TapAssumption, NewRunner, Tap, Picture
  <1>2. runners \in Seq(Tap) /\ Len(runners) = 1 /\ DOMAIN runners = {1}
    BY <1>1 DEF TapInit
  <1>3. counted \in [Streams -> 0..Len(runners)] /\ Len(runners) <= MaxRunners
    BY <1>2, TapAssumption DEF TapAssumption, TapInit
  <1> QED BY <1>2, <1>3 DEF TapInit, TapTypeInv, TapTypeOK, Picture

LEMMA StrayGrows ==
    ASSUME TapTypeOK
    PROVE  /\ [stray EXCEPT ![runner] = @ + 1] \in [1..MaxRunners -> Nat]
           /\ [stray EXCEPT ![runner] = @ + 1][runner] = stray[runner] + 1
           /\ stray[runner] \in Nat
  <1>1. /\ stray \in [1..MaxRunners -> Nat] /\ runners \in Seq(Tap)
        /\ runner \in DOMAIN runners /\ Len(runners) <= MaxRunners
    BY DEF TapTypeOK
  <1>2. runner \in 1..MaxRunners
    BY <1>1, TapAssumption DEF TapAssumption
  <1> QED BY <1>1, <1>2

LEMMA TapTypeStep == TapTypeInv /\ [TapNext]_tapVars => TapTypeInv'
  <1> SUFFICES ASSUME TapTypeInv, [TapNext]_tapVars PROVE TapTypeInv'
    OBVIOUS
  <1>a. /\ runners \in Seq(Tap) /\ runner \in DOMAIN runners
        /\ runners[runner] \in Tap
    BY DEF TapTypeInv, TapTypeOK
  <1>b. runners[runner].viewers \in Nat
    BY <1>a DEF Tap
  <1>1. ASSUME NEW i \in DOMAIN runners, NEW t \in Tap, runners' = [runners EXCEPT ![i] = t],
               runner' = runner,
               restarting' = restarting \/ StopRunner,
               conn' \in [Streams -> {"closed", "requested", "open"}],
               shows' \in [Streams -> Picture],
               counted' \in [Streams -> 0..Len(runners)],
               stray' \in [1..MaxRunners -> Nat]
        PROVE  TapTypeInv'
    <2>1. /\ runners' \in Seq(Tap) /\ Len(runners') = Len(runners)
          /\ DOMAIN runners' = DOMAIN runners
      BY <1>1, <1>a, KeepsType
    <2>2. restarting' \in BOOLEAN
      BY <1>1 DEF StopRunner, TapTypeInv, TapTypeOK
    <2>3. restarting' => Len(runners) < MaxRunners
      BY <1>1 DEF StopRunner, TapTypeInv
    <2>4. TapTypeOK'
      BY <1>1, <1>a, <2>1, <2>2 DEF TapTypeInv, TapTypeOK
    <2> QED BY <2>1, <2>3, <2>4 DEF TapTypeInv
  <1>2. ASSUME NEW i \in DOMAIN runners, Capture(i) PROVE TapTypeInv'
    <2>1. PICK t : Keeps(i, t)
      BY <1>2, <1>a, CaptureKeeps
    <2> QED BY <1>1, <1>2, <2>1
         DEF Keeps, Capture, Frame, Encoded, EncodeFails, ThreadEnds,
          streams, TapTypeInv, TapTypeOK
  <1>3. CASE Restart
    <2>1. CASE StopRunner
      <3>1. [runners[runner] EXCEPT !.stop = TRUE] \in Tap
        BY <1>a DEF Tap
      <3>2. runners' = [runners EXCEPT ![runner] = [runners[runner] EXCEPT !.stop = TRUE]]
        BY <2>1 DEF StopRunner
      <3> QED BY <1>1, <1>a, <2>1, <3>1, <3>2 DEF StopRunner, streams, TapTypeInv, TapTypeOK
    <2>2. CASE ReplaceRunner
      <3>1. /\ runners' \in Seq(Tap) /\ Len(runners') = Len(runners) + 1
            /\ DOMAIN runners' = 1..(Len(runners) + 1)
            /\ DOMAIN runners = 1..Len(runners) /\ Len(runners) \in Nat
        BY <2>2, <1>a, AppendType DEF ReplaceRunner
      <3>2. Len(runners) + 1 <= MaxRunners /\ restarting' = FALSE
        BY <2>2, <3>1, TapAssumption DEF TapAssumption, ReplaceRunner, TapTypeInv
      <3>3. counted \in [Streams -> 0..(Len(runners) + 1)]
        BY <3>1 DEF TapTypeInv, TapTypeOK
      <3>4. /\ runner' = Len(runners) + 1
            /\ UNCHANGED <<conn, shows, counted, stray>>
        BY <2>2 DEF ReplaceRunner, streams
      <3>5. stray' \in [1..MaxRunners -> Nat] /\ runner' \in 1..(Len(runners) + 1)
        BY <3>1, <3>4 DEF TapTypeInv, TapTypeOK
      <3>6. restarting' \in BOOLEAN
        BY <3>2
      <3>7. TapTypeOK'
        BY <3>1, <3>2, <3>3, <3>4, <3>5, <3>6 DEF TapTypeInv, TapTypeOK
      <3> QED BY <3>2, <3>7 DEF TapTypeInv
    <2>3. CASE BuildFails
      BY <2>3 DEF BuildFails, streams, TapTypeInv, TapTypeOK
    <2> QED BY <1>3, <2>1, <2>2, <2>3 DEF Restart
  <1>4. ASSUME NEW s \in Streams, Stream(s) PROVE TapTypeInv'
    <2>1. CASE Request(s)
      <3>1. PICK on \in BOOLEAN : runners' = [runners EXCEPT ![runner] =
                                                [runners[runner] EXCEPT !.overlay = on]]
        BY <2>1 DEF Request
      <3>2. [runners[runner] EXCEPT !.overlay = on] \in Tap
        BY <1>a DEF Tap
      <3>3. /\ UNCHANGED <<runner, restarting, shows, counted, stray>>
            /\ conn' = [conn EXCEPT ![s] = "requested"]
        BY <2>1 DEF Request
      <3>4. conn' \in [Streams -> {"closed", "requested", "open"}]
        BY <3>3 DEF TapTypeInv, TapTypeOK
      <3>5. /\ shows' \in [Streams -> Picture]
            /\ counted' \in [Streams -> 0..Len(runners)]
            /\ stray' \in [1..MaxRunners -> Nat]
            /\ restarting' = restarting \/ StopRunner
        BY <3>3 DEF StopRunner, TapTypeInv, TapTypeOK
      <3> QED BY <1>1, <1>a, <3>1, <3>2, <3>3, <3>4, <3>5
    <2>2. CASE Enter(s)
      <3>a. runners[runner].viewers + 1 \in Nat
        BY <1>b
      <3>1. [runners[runner] EXCEPT !.viewers = @ + 1] \in Tap
        BY <1>a, <3>a DEF Tap
      <3>2. runners' = [runners EXCEPT ![runner] = [runners[runner] EXCEPT !.viewers = @ + 1]]
        BY <2>2 DEF Enter
      <3>3. runner \in 0..Len(runners)
        BY <1>a
      <3> QED BY <1>1, <1>a, <2>2, <3>1, <3>2, <3>3 DEF Enter, TapTypeInv, TapTypeOK, Picture
    <2>3. CASE Abandon(s)
      BY <2>3 DEF Abandon, taps, TapTypeInv, TapTypeOK
    <2>4. CASE Show(s)
      <3>1. runners[runner].slot \in Picture
        BY <1>a DEF Tap
      <3> QED BY <2>4, <3>1 DEF Show, taps, TapTypeInv, TapTypeOK
    <2>5. CASE LeaveStream(s)
      <3>1. RemoveViewer(runners[runner].viewers) \in Nat
        BY <1>b DEF RemoveViewer
      <3>2. [runners[runner] EXCEPT !.viewers = RemoveViewer(@)] \in Tap
        BY <1>a, <3>1 DEF Tap
      <3>3. runners' = [runners EXCEPT ![runner] =
                          [runners[runner] EXCEPT !.viewers = RemoveViewer(@)]]
        BY <2>5 DEF LeaveStream
      <3>4. stray' \in [1..MaxRunners -> Nat]
        BY <2>5, StrayGrows DEF LeaveStream, TapTypeInv, TapTypeOK
      <3> QED BY <1>1, <1>a, <2>5, <3>2, <3>3, <3>4 DEF LeaveStream, TapTypeInv, TapTypeOK
    <2> QED BY <1>4, <2>1, <2>2, <2>3, <2>4, <2>5 DEF Stream
  <1>5. CASE UNCHANGED tapVars
    BY <1>5 DEF tapVars, TapTypeInv, TapTypeOK
  <1> QED BY <1>2, <1>3, <1>4, <1>5 DEF TapNext

(* Runners, streams and counts keep their types, for every set of streams, *)
(* rate limit and number of runners (web/streams.py, pipeline/runner.py).  *)
THEOREM TapTypeCorrect == TapSpec => []TapTypeOK
  <1>1. TapTypeInv => TapTypeOK
    BY DEF TapTypeInv
  <1> QED BY <1>1, TapTypeInit, TapTypeStep, PTL DEF TapSpec

---------------------------------------------------------------------------
(* The count of viewers.                                                   *)

CountInv == TapTypeInv /\ CountsViewers

LEMMA ViewersFinite == IsFiniteSet(Viewers)
  <1>1. Viewers \subseteq Streams
    BY DEF Viewers, Open
  <1> QED BY <1>1, StreamsAssumption, FS_Subset DEF StreamsAssumption

LEMMA CountInit == TapInit => CountInv
  <1> SUFFICES ASSUME TapInit PROVE CountInv
    OBVIOUS
  <1>1. Viewers = {}
    BY DEF TapInit, Viewers, Open
  <1>2. Cardinality(Viewers) = 0
    BY <1>1, FS_EmptySet
  <1>3. runners[runner].viewers = 0
    BY DEF TapInit, NewRunner
  <1>4. TapTypeInv /\ stray[runner] \in Nat
    BY TapTypeInit, StrayGrows DEF TapTypeInv
  <1> QED BY <1>2, <1>3, <1>4 DEF CountInv, CountsViewers

(* A step that leaves the viewers of the current runner and its count.     *)
LEMMA CountQuiet ==
    ASSUME CountInv, TapTypeInv', Viewers' = Viewers, stray' = stray, runner' = runner,
           runners'[runner].viewers = runners[runner].viewers
    PROVE  CountInv'
  BY DEF CountInv, CountsViewers

LEMMA CountStep == CountInv /\ [TapNext]_tapVars => CountInv'
  <1> SUFFICES ASSUME CountInv, [TapNext]_tapVars PROVE CountInv'
    OBVIOUS
  <1>a. /\ TapTypeInv /\ TapTypeInv' /\ TapTypeOK
        /\ runners \in Seq(Tap) /\ runner \in DOMAIN runners
        /\ runners[runner] \in Tap
    BY TapTypeStep DEF CountInv, TapTypeInv, TapTypeOK
  <1>b. runners[runner].viewers \in Nat
    BY <1>a DEF Tap
  <1>c. IsFiniteSet(Viewers) /\ Cardinality(Viewers) \in Nat
    BY ViewersFinite, FS_CardinalityType
  <1>1. ASSUME NEW i \in DOMAIN runners, Capture(i) PROVE CountInv'
    <2>1. PICK t : Keeps(i, t)
      BY <1>1, <1>a, CaptureKeeps
    <2>2. runners'[runner].viewers = runners[runner].viewers
      BY <2>1, <1>a, KeepsType DEF Keeps
    <2>3. UNCHANGED <<runner, conn, counted, stray>>
      BY <1>1 DEF Capture, Frame, Encoded, EncodeFails, ThreadEnds, streams
    <2> QED BY <2>2, <2>3, <1>a, CountQuiet DEF Viewers, Open
  <1>2. CASE StopRunner
    <2>1. runners'[runner].viewers = runners[runner].viewers
      BY <1>2, <1>a DEF StopRunner, Tap
    <2> QED BY <1>2, <2>1, <1>a, CountQuiet DEF StopRunner, streams, Viewers, Open
  <1>3. CASE ReplaceRunner
    <2>1. /\ runner' = Len(runners) + 1 /\ runners'[runner'] = NewRunner
          /\ DOMAIN runners = 1..Len(runners) /\ Len(runners) \in Nat
          /\ UNCHANGED <<conn, counted, stray>>
      BY <1>3, <1>a, AppendType DEF ReplaceRunner, streams
    <2>2. \A s \in Streams : counted[s] # Len(runners) + 1
      BY <1>a, <2>1 DEF TapTypeOK
    <2>3. Viewers' = {}
      BY <2>1, <2>2 DEF Viewers, Open
    <2>4. Cardinality(Viewers') = 0
      BY <2>3, FS_EmptySet
    <2>5. runners'[runner'].viewers = 0
      BY <2>1 DEF NewRunner
    <2>6. stray'[runner'] \in Nat
      <3>1. /\ stray' \in [1..MaxRunners -> Nat] /\ runners' \in Seq(Tap)
            /\ runner' \in DOMAIN runners' /\ Len(runners') <= MaxRunners
        BY <1>a DEF TapTypeInv, TapTypeOK
      <3>2. runner' \in 1..MaxRunners
        BY <3>1, TapAssumption DEF TapAssumption
      <3> QED BY <3>1, <3>2
    <2> QED BY <1>a, <2>4, <2>5, <2>6 DEF CountInv, CountsViewers
  <1>4. CASE BuildFails
    BY <1>4, <1>a, CountQuiet DEF BuildFails, streams, Viewers, Open
  <1>5. ASSUME NEW s \in Streams, Request(s) PROVE CountInv'
    <2>1. runners'[runner].viewers = runners[runner].viewers
      BY <1>5, <1>a DEF Request, Tap
    <2>2. Open' = Open
      BY <1>5, <1>a DEF Request, Open, TapTypeOK
    <2> QED BY <1>5, <2>1, <2>2, <1>a, CountQuiet DEF Request, Viewers
  <1>6. ASSUME NEW s \in Streams, Enter(s) PROVE CountInv'
    <2>1. runners'[runner].viewers = runners[runner].viewers + 1
      BY <1>6, <1>a DEF Enter, Tap
    <2>2. s \notin Viewers /\ Viewers' = Viewers \cup {s}
      BY <1>6, <1>a DEF Enter, TapTypeOK, Viewers, Open
    <2>3. Cardinality(Viewers') = Cardinality(Viewers) + 1
      BY <2>2, <1>c, FS_AddElement
    <2>4. runner' = runner /\ stray' = stray
      BY <1>6 DEF Enter
    <2> QED BY <1>a, <1>b, <1>c, <2>1, <2>3, <2>4 DEF CountInv, CountsViewers
  <1>7. ASSUME NEW s \in Streams, Abandon(s) \/ Show(s) PROVE CountInv'
    <2>1. Open' = Open /\ UNCHANGED <<runners, runner, counted, stray>>
      BY <1>7, <1>a DEF Abandon, Show, Open, TapTypeOK, taps
    <2> QED BY <2>1, <1>a, CountQuiet DEF Viewers
  <1>8. ASSUME NEW s \in Streams, LeaveStream(s) PROVE CountInv'
    <2> DEFINE count == runners[runner].viewers
    <2>1. runners'[runner].viewers = RemoveViewer(count)
      BY <1>8, <1>a DEF LeaveStream, Tap
    <2>2. runner' = runner /\ counted' = counted
      BY <1>8 DEF LeaveStream
    <2>3. Open' = Open \ {s} /\ s \in Open
      BY <1>8, <1>a DEF LeaveStream, Open, TapTypeOK
    <2>4. count \in Nat /\ count <= Cardinality(Viewers)
          /\ Cardinality(Viewers) - count <= stray[runner]
          /\ stray[runner] \in Nat
      BY <1>a, <1>b, StrayGrows DEF CountInv, CountsViewers
    <2>5. CASE counted[s] = runner
      <3>1. s \in Viewers /\ Viewers' = Viewers \ {s}
        BY <2>2, <2>3, <2>5 DEF Viewers
      <3>2. Cardinality(Viewers') = Cardinality(Viewers) - 1
        BY <3>1, <1>c, FS_RemoveElement
      <3>3. Cardinality(Viewers) # 0
        BY <3>1, <1>c, FS_EmptySet
      <3>4. stray' = stray
        BY <1>8, <2>5 DEF LeaveStream
      <3> HIDE DEF count
      <3> QED BY <1>a, <1>c, <2>1, <2>2, <2>4, <3>2, <3>3, <3>4
            DEF CountInv, CountsViewers, RemoveViewer
    <2>6. CASE counted[s] # runner
      <3>1. Viewers' = Viewers
        BY <2>2, <2>3, <2>6 DEF Viewers
      <3>2. stray'[runner] = IF count > 0 THEN stray[runner] + 1 ELSE stray[runner]
        BY <1>a, <1>8, <2>6, StrayGrows DEF LeaveStream
      <3> HIDE DEF count
      <3> QED BY <1>a, <1>c, <2>1, <2>2, <2>4, <3>1, <3>2
            DEF CountInv, CountsViewers, RemoveViewer
    <2> QED BY <2>5, <2>6
  <1>9. CASE UNCHANGED tapVars
    BY <1>9, <1>a, CountQuiet DEF tapVars, Viewers, Open
  <1> QED BY <1>1, <1>2, <1>3, <1>4, <1>5, <1>6, <1>7, <1>8, <1>9
       DEF TapNext, Restart, Stream

(* A runner counts none but its own viewers, and misses no more of them    *)
(* than there were streams of earlier runners that were taken off its      *)
(* count when they ended (web/streams.py: the finally of mjpeg_generator asks the runner   *)
(* there is then; pipeline/runner.py: remove_viewer).                      *)
THEOREM CountsViewersHolds == TapSpec => []CountsViewers
  <1>1. CountInv => CountsViewers
    BY DEF CountInv
  <1> QED BY <1>1, CountInit, CountStep, PTL DEF TapSpec
=============================================================================
