---------------------------- MODULE CaptureLoop ----------------------------
(***************************************************************************)
(* What one capture thread does with its frames (pipeline/runner.py): it   *)
(* compares each frame with the one before, hands the blobs that moved to  *)
(* the tracker (detector/tracker.py), and persists every track the tracker *)
(* gives up, with a picture of the vehicle.  A session with the camera     *)
(* ends when a read gives nothing or the thread is told to stop, and its   *)
(* tracks are flushed; or with an exception, and they are dropped.         *)
(***************************************************************************)
EXTENDS Integers, SequencesExt

CONSTANTS
    Views,          \* what find_motion can see: sequences of blobs [x, area]
    MaxDist,        \* detector.max_dist_px
    MinFrames,      \* detector.min_track_frames
    MaxFrames,      \* bound: frames in one behaviour
    MaxSessions     \* bound: times the camera is opened

Blob == [x : Nat, area : Nat]

ASSUME ViewsAssumption == Views \subseteq Seq(Blob)
ASSUME DetectorAssumption == MaxDist \in Nat \ {0} /\ MinFrames \in Nat \ {0}
ASSUME BoundAssumption == MaxFrames \in Nat /\ MaxSessions \in Nat

VARIABLES
    persistent,     \* camera.is_persistent: all but a replay that ends
    pc,             \* the thread: "check", "frame", "persist", "flush", "ended"
    stop,           \* _stop is set
    session,        \* times the camera has been opened
    n,              \* frames read so far: the number of the last one
    prev, last,     \* prev_full_frame and last_full_frame, 0 for None
    live,           \* the tracker's tracks in flight: a list, by id
    todo,           \* finalised tracks that are still to be persisted
    pic,            \* the frame they are persisted with
    made,           \* history: number of tracks so far
    seen,           \* history: tracks that have been long enough
    handled,        \* history: tracks persisted or skipped, with their picture
    lost            \* history: tracks an exception has dropped

frames == <<prev, last>>
history == <<made, seen, lost>>
vars == <<persistent, pc, stop, session, n, prev, last, live, todo, pic, made, seen,
          handled, lost>>

\* no: the place of a detection in what find_motion lists; at, in: its frame
\* and its session.
Detection == [x : Nat, area : Nat, at : Nat, in : Nat, no : Nat]
\* Ids count up and new tracks come last, so the ids give the lists' order.
Track == [id : Nat, detections : Seq(Detection)]

Init ==
    /\ persistent \in BOOLEAN
    /\ pc = "check" /\ stop = FALSE /\ session = 0 /\ n = 0
    /\ prev = 0 /\ last = 0
    /\ live = {} /\ todo = {} /\ pic = 0
    /\ made = 0 /\ seen = {} /\ handled = {} /\ lost = {}

---------------------------------------------------------------------------
(* Tracker.                                                                *)

Ids(tracks) == {t.id : t \in tracks}
LongEnough(t) == Len(t.detections) >= MinFrames
Distance(t, d) ==
    LET x == Last(t.detections).x IN IF x < d.x THEN d.x - x ELSE x - d.x

\* The first of the closest of ds, if that is close enough; as a set.
Closest(t, ds) ==
    {d \in ds :
        /\ Distance(t, d) <= MaxDist
        /\ \A e \in ds :
             /\ Distance(t, d) <= Distance(t, e)
             /\ Distance(t, d) = Distance(t, e) => d.no <= e.no}

\* update(): the tracks in flight claim in turn, each the closest detection
\* that is left, or none; or what another has claimed as well.
ClaimsShared(ds) ==
    {claim \in [live -> SUBSET ds] : \A t \in live : claim[t] = Closest(t, ds)}
Claims(ds) ==
    {claim \in [live -> SUBSET ds] : \A t \in live :
        claim[t] = Closest(t, ds \ UNION {claim[u] : u \in {v \in live : v.id < t.id}})}

\* The tracks that claimed one live on; the others are lost, and finalised if
\* they are long enough.
Extended(t, d) == [t EXCEPT !.detections = Append(@, d)]
Survivors(claim) == UNION {{Extended(t, d) : d \in claim[t]} : t \in live}
Finalised(claim) == {t \in live : claim[t] = {} /\ LongEnough(t)}

\* The first of the largest detections that nobody claimed starts a new track.
Largest(ds) ==
    {d \in ds :
        \A e \in ds :
            /\ e.area <= d.area
            /\ e.area = d.area => d.no <= e.no}
Started(claim, ds) ==
    {[id |-> made + 1, detections |-> <<d>>] :
        d \in Largest(ds \ UNION {claim[t] : t \in live})}

\* Tracker.flush
Flush(tracks) == {t \in tracks : LongEnough(t)}

---------------------------------------------------------------------------
(* PipelineRunner.run_until_camera_exhausted and _loop_with_reconnect.     *)

\* A session is over: a live camera is opened again, a replay is not.
AfterSession == IF persistent THEN "check" ELSE "ended"

\* camera.open(): nothing is known of any frame yet.
OpenSession ==
    /\ pc = "check" /\ ~stop /\ session < MaxSessions
    /\ session' = session + 1
    /\ prev' = 0 /\ last' = 0
    /\ pc' = "frame"
    /\ UNCHANGED <<persistent, stop, n, live, todo, pic, handled, history>>

\* find_motion, on the frame before and this one.
Detections(view) ==
    {[x |-> view[k].x, area |-> view[k].area, at |-> n + 1, in |-> session,
      no |-> k] : k \in DOMAIN view}

\* The frame the finalised tracks are persisted with: last_full_frame, which
\* they were last seen in; or the new one.
PictureNow == n + 1
PictureBefore == last

\* read() gives a frame: _process_frame, unless it is the first.
FirstFrame ==
    /\ pc = "frame" /\ ~stop /\ n < MaxFrames /\ last = 0
    /\ n' = n + 1 /\ prev' = 0 /\ last' = n + 1
    /\ UNCHANGED <<persistent, pc, stop, session, live, todo, pic, handled, history>>
Process(claim, new) ==
    /\ pc = "frame" /\ ~stop /\ n < MaxFrames /\ last # 0
    /\ n' = n + 1 /\ prev' = last /\ last' = n + 1
    /\ live' = Survivors(claim) \cup new
    /\ todo' = Finalised(claim)
    /\ pic' = PictureBefore
    /\ pc' = IF Finalised(claim) = {} THEN "frame" ELSE "persist"
    /\ made' = IF new = {} THEN made ELSE made + 1
    /\ seen' = seen \cup Ids({t \in live' : LongEnough(t)})
    /\ UNCHANGED <<persistent, stop, session, handled, lost>>
NextFrame == \E view \in Views : \E claim \in Claims(Detections(view)) :
    Process(claim, Started(claim, Detections(view)))

\* _persist_track stores an event, or skips a track it cannot measure or that
\* was too slow; in EventStore, from Finalise on.
PersistTrack == \E t \in todo :
    /\ pc \in {"persist", "flush"}
    /\ \A u \in todo : t.id <= u.id
    /\ handled' = handled \cup {[track |-> t, picture |-> pic]}
    /\ todo' = todo \ {t}
    /\ pc' = IF todo' # {} THEN pc
             ELSE IF pc = "persist" THEN "frame" ELSE AfterSession
    /\ UNCHANGED <<persistent, stop, session, n, frames, live, pic, history>>

\* The loop ends: stopped, or read() gave None; the tracks in flight are
\* flushed, or forgotten when it was a stop.
Leave(flushed) ==
    /\ live' = IF last = 0 THEN live ELSE {}
    /\ todo' = IF last = 0 THEN {} ELSE flushed
    /\ pic' = IF prev # 0 THEN prev ELSE last
    /\ pc' = IF todo' = {} THEN AfterSession ELSE "flush"
    /\ UNCHANGED <<persistent, stop, session, n, frames, handled, history>>
StopForgets ==
    /\ pc = "frame"
    /\ Leave(IF stop THEN {} ELSE Flush(live))
EndSession ==
    /\ pc = "frame"
    /\ Leave(Flush(live))

\* open, read, find_motion or persisting raises: a new Tracker; or the old one;
\* or the thread ends.
RaiseEndsThread ==
    /\ pc \in {"check", "frame", "persist", "flush"} /\ (pc = "check" => ~stop)
    /\ pc' = "dead"
    /\ UNCHANGED <<persistent, stop, session, n, frames, live, todo, pic, handled, history>>
RaiseKeepsTracker ==
    /\ pc \in {"check", "frame", "persist", "flush"} /\ (pc = "check" => ~stop)
    /\ lost' = lost \cup Ids(todo)
    /\ todo' = {} /\ pc' = AfterSession
    /\ UNCHANGED <<persistent, stop, session, n, frames, live, pic, made, seen, handled>>
Raise ==
    /\ pc \in {"check", "frame", "persist", "flush"} /\ (pc = "check" => ~stop)
    /\ lost' = lost \cup Ids(todo) \cup Ids(live)
    /\ live' = {} /\ todo' = {} /\ pc' = AfterSession
    /\ UNCHANGED <<persistent, stop, session, n, frames, pic, made, seen, handled>>

\* stop(), by another thread.
Stop ==
    /\ ~stop /\ stop' = TRUE
    /\ UNCHANGED <<persistent, pc, session, n, frames, live, todo, pic, handled, history>>

\* The reconnect loop sees it.
End ==
    /\ pc = "check" /\ stop /\ pc' = "ended"
    /\ UNCHANGED <<persistent, stop, session, n, frames, live, todo, pic, handled, history>>

Next ==
    \/ OpenSession \/ FirstFrame \/ NextFrame \/ PersistTrack \/ EndSession
    \/ Raise \/ Stop \/ End

Spec == Init /\ [][Next]_vars

---------------------------------------------------------------------------
(* Properties.                                                             *)

TypeOK ==
    /\ pc \in {"check", "frame", "persist", "flush", "ended"}
    /\ stop \in BOOLEAN /\ persistent \in BOOLEAN
    /\ {session, n, prev, last, pic, made} \subseteq Nat
    /\ live \subseteq Track /\ todo \subseteq Track
    /\ pc \in {"persist", "flush"} <=> todo # {}
    /\ handled \subseteq [track : Track, picture : Nat]
    /\ seen \subseteq Nat /\ lost \subseteq Nat

Persisted == {h.track : h \in handled}
Tracks == live \cup todo \cup Persisted

\* A track is one ride past the camera: its detections are of consecutive
\* frames of one session, so that the times its speed is taken from belong
\* together (web specification: after a crash "stale frame_ts values cannot
\* poison the first post-reconnect speed reading").
OneRide ==
    \A t \in Tracks : \A k \in 1..(Len(t.detections) - 1) :
        /\ t.detections[k + 1].at = t.detections[k].at + 1
        /\ t.detections[k + 1].in = t.detections[k].in

\* No blob counts for two vehicles.
NoBlobTwice ==
    \A t, u \in Tracks : t.id # u.id =>
        ToSet(t.detections) \cap ToSet(u.detections) = {}

\* The picture of an event is one of the two frames whose difference was the
\* last that was seen of the vehicle: not the frame after, where it has gone.
PictureShowsVehicle ==
    \A h \in handled :
        h.picture \in {Last(h.track.detections).at - 1, Last(h.track.detections).at}

\* A track that is long enough is still in flight, or waits, or was persisted
\* (or skipped), once; only an exception loses it.
NoTrackForgotten ==
    /\ seen \subseteq Ids(live) \cup Ids(todo) \cup lost \cup Ids(Persisted)
    /\ \A h, g \in handled : h.track.id = g.track.id => h = g
    /\ \A h \in handled : h.track.id \notin Ids(live) \cup Ids(todo)
=============================================================================
