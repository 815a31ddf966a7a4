------------------------------ MODULE LiveTap ------------------------------
(***************************************************************************)
(* The live preview: MJPEG streams (web/streams.py, web/routes/stream.py)  *)
(* read the one encoded picture of the current runner (pipeline/runner.py),*)
(* which encodes only while its viewer count or its overlay flag asks for  *)
(* it.  Count, flag and picture belong to the runner; the streams belong   *)
(* to the server, and stay open when a restart replaces the runner         *)
(* (web/supervisor.py).  Init, Next and the like are named for the tap, as *)
(* proofs put it beside CaptureLoop.                                       *)
(***************************************************************************)
EXTENDS Integers, Sequences, FiniteSets

CONSTANTS
    Streams,        \* MJPEG connections
    Gap,            \* frames that must pass between two encodes
    MaxRunners      \* bound: runners built in one behaviour

ASSUME StreamsAssumption == IsFiniteSet(Streams)
ASSUME TapAssumption == Gap \in Nat \ {0} /\ MaxRunners \in Nat \ {0}

VARIABLES
    runners,        \* every PipelineRunner, with its tap
    runner,         \* Supervisor._runner
    restarting,     \* a restart is between the stop and the new runner
    conn,           \* a stream: "closed", "requested" or "open"
    shows,          \* the picture it last sent
    counted,        \* history: the runner that counted it
    stray           \* history: how often the count of a runner was lowered for
                    \* a stream that an earlier runner had counted

taps == <<runners, runner, restarting>>
streams == <<conn, shows, counted>>
tapVars == <<runners, runner, restarting, conn, shows, counted, stray>>

\* A picture is live while pictures like it are still being made.
Picture == {"none", "live", "stale"}

\* since: frames since the last encode, as far as the rate limit counts them.
\* encoding: the capture thread has decided to encode and has not written yet.
Tap == [alive : BOOLEAN, stop : BOOLEAN, viewers : Nat, overlay : BOOLEAN,
        since : 0..Gap, encoding : BOOLEAN, slot : Picture]
NewRunner == [alive |-> TRUE, stop |-> FALSE, viewers |-> 0, overlay |-> FALSE,
              since |-> Gap, encoding |-> FALSE, slot |-> "none"]

\* Supervisor.start has run before the server takes a request.
TapInit ==
    /\ runners = <<NewRunner>> /\ runner = 1 /\ restarting = FALSE
    /\ conn = [s \in Streams |-> "closed"]
    /\ shows = [s \in Streams |-> "none"]
    /\ counted = [s \in Streams |-> 0]
    /\ stray = [i \in 1..MaxRunners |-> 0]

---------------------------------------------------------------------------
(* The capture thread of runner i: _tap_frame.                             *)

Wanted(t) == t.viewers > 0 \/ t.overlay
Ripe(t) == t.since = Gap
Aged(t) == [t EXCEPT !.since = IF Ripe(t) THEN Gap ELSE t.since + 1]
Faded(t) == [t EXCEPT !.slot = IF t.slot = "live" THEN "stale" ELSE t.slot]

\* The next frame, as far as the first release of _frame_lock; or, with the
\* time of the encode taken for every frame that is wanted.
TapRestartsClock(t) ==
    IF ~Wanted(t) THEN Faded(Aged(t))
    ELSE [t EXCEPT !.encoding = Ripe(t), !.since = 0]
TapFrame(t) ==
    IF ~Wanted(t) THEN Faded(Aged(t))
    ELSE IF Ripe(t) THEN [t EXCEPT !.encoding = TRUE, !.since = 0]
    ELSE Aged(t)

Frame(i) ==
    /\ runners[i].alive /\ ~runners[i].encoding
    /\ runners' = [runners EXCEPT ![i] = TapFrame(runners[i])]
    /\ UNCHANGED <<runner, restarting, streams, stray>>

\* imencode, and the slot under the lock.
Encoded(i) ==
    /\ runners[i].encoding
    /\ runners' = [runners EXCEPT ![i].encoding = FALSE, ![i].slot = "live"]
    /\ UNCHANGED <<runner, restarting, streams, stray>>
EncodeFails(i) ==
    /\ runners[i].encoding
    /\ runners' = [runners EXCEPT ![i].encoding = FALSE]
    /\ UNCHANGED <<runner, restarting, streams, stray>>

---------------------------------------------------------------------------
(* Supervisor.restart, in a threadpool thread.                             *)

StopRunner ==
    /\ ~restarting /\ restarting' = TRUE
    /\ Len(runners) < MaxRunners
    /\ runners' = [runners EXCEPT ![runner].stop = TRUE]
    /\ UNCHANGED <<runner, streams, stray>>

\* A capture thread that has been told to stop ends, sooner or later.
ThreadEnds(i) ==
    /\ runners[i].alive /\ ~runners[i].encoding
    /\ runners[i].stop
    /\ runners' = [runners EXCEPT ![i] = [Faded(@) EXCEPT !.alive = FALSE]]
    /\ UNCHANGED <<runner, restarting, streams, stray>>

\* The join returned, or timed out, and a new runner takes the place.
ReplaceRunner ==
    /\ restarting /\ restarting' = FALSE
    /\ runners' = Append(runners, NewRunner)
    /\ runner' = Len(runners) + 1
    /\ UNCHANGED <<streams, stray>>

\* The build raises: the runner that was stopped stays in place.
BuildFails ==
    /\ restarting /\ restarting' = FALSE
    /\ UNCHANGED <<runners, runner, streams, stray>>

---------------------------------------------------------------------------
(* The streams.                                                            *)

\* The handler: set_overlay, in a threadpool thread, and the response.
Request(s) == \E on \in BOOLEAN :
    /\ conn[s] = "closed" /\ conn' = [conn EXCEPT ![s] = "requested"]
    /\ runners' = [runners EXCEPT ![runner].overlay = on]
    /\ UNCHANGED <<runner, restarting, shows, counted, stray>>

\* mjpeg_generator begins: add_viewer.
Enter(s) ==
    /\ conn[s] = "requested" /\ conn' = [conn EXCEPT ![s] = "open"]
    /\ runners' = [runners EXCEPT ![runner].viewers = @ + 1]
    /\ counted' = [counted EXCEPT ![s] = runner]
    /\ shows' = [shows EXCEPT ![s] = "none"]
    /\ UNCHANGED <<runner, restarting, stray>>

\* The client has gone before the generator began: it has no `finally`.
Abandon(s) ==
    /\ conn[s] = "requested" /\ conn' = [conn EXCEPT ![s] = "closed"]
    /\ UNCHANGED <<taps, shows, counted, stray>>

\* latest_annotated() or the placeholder, every 200 ms.
Show(s) ==
    /\ conn[s] = "open"
    /\ shows' = [shows EXCEPT ![s] = runners[runner].slot]
    /\ UNCHANGED <<taps, conn, counted, stray>>

\* remove_viewer: max(0, self._viewers - 1); or nothing, or below zero.
KeepViewer(n) == n
LessViewer(n) == n - 1
RemoveViewer(n) == IF n = 0 THEN 0 ELSE n - 1

\* The `finally` of the generator; it asks the runner there is now.
LeaveStream(s) ==
    /\ conn[s] = "open" /\ conn' = [conn EXCEPT ![s] = "closed"]
    /\ runners' = [runners EXCEPT ![runner].viewers = RemoveViewer(@)]
    /\ stray' = IF counted[s] # runner /\ runners[runner].viewers > 0
                THEN [stray EXCEPT ![runner] = @ + 1] ELSE stray
    /\ UNCHANGED <<runner, restarting, shows, counted>>

---------------------------------------------------------------------------
Capture(i) == Frame(i) \/ Encoded(i) \/ EncodeFails(i) \/ ThreadEnds(i)
Restart == StopRunner \/ ReplaceRunner \/ BuildFails
Stream(s) == Request(s) \/ Enter(s) \/ Abandon(s) \/ Show(s) \/ LeaveStream(s)

TapNext ==
    \/ \E i \in DOMAIN runners : Capture(i)
    \/ Restart
    \/ \E s \in Streams : Stream(s)

TapSpec == TapInit /\ [][TapNext]_tapVars

\* A stream that is open goes on sending.
TapFairSpec == TapSpec /\ \A s \in Streams : WF_tapVars(Show(s))

\* The camera delivers frames, and not every one of them fails to encode.
CameraWorks ==
    \A i \in 1..MaxRunners :
        /\ WF_tapVars(i \in DOMAIN runners /\ Frame(i))
        /\ SF_tapVars(i \in DOMAIN runners /\ Encoded(i))

---------------------------------------------------------------------------
(* Properties.                                                             *)

TapTypeOK ==
    /\ runners \in Seq(Tap) /\ Len(runners) <= MaxRunners
    /\ runner \in DOMAIN runners
    /\ restarting \in BOOLEAN
    /\ conn \in [Streams -> {"closed", "requested", "open"}]
    /\ shows \in [Streams -> Picture]
    /\ counted \in [Streams -> 0..Len(runners)]
    /\ stray \in [1..MaxRunners -> Nat]

Open == {s \in Streams : conn[s] = "open"}
Viewers == {s \in Open : counted[s] = runner}

\* The runner never counts more viewers than it has, whatever restarts and
\* connections that ended early did to the count; and it misses no more of them
\* than there were streams of earlier runners whose end was taken off its count.
\* (What the count is for is another matter: see EncodesOnlyWatched.)
CountsViewers ==
    LET count == runners[runner].viewers
    IN  /\ count <= Cardinality(Viewers)
        /\ Cardinality(Viewers) - count <= stray[runner]

\* A stream that its runner has counted comes to show live pictures and goes
\* on showing them, however often its picture had been stale before and
\* whoever else watches or leaves: the rate limit starves nobody.
Served(s) ==
    /\ s \in Viewers /\ stray[runner] = 0
    /\ runners[runner].alive
CountedIsServed ==
    CameraWorks =>
        \A s \in Streams : <>[]Served(s) => <>[](shows[s] = "live")

---------------------------------------------------------------------------
(* What the documents say and the code does not do (see README.md).        *)

\* "the runner stops encoding when nobody is watching" (web/streams.py:5), "with
\* zero viewers no JPEG encoding happens" (docs/plans/2026-05-28-curbcam-mvp-2-
\* web.md:1124): the current runner encodes no frame while no stream is open or
\* asked for.  It does: the overlay flag that a stream has set outlives it.
EncodesOnlyWatched ==
    [][(\A s \in Streams : conn[s] = "closed")
         => (runners'[runner].encoding => runners[runner].encoding)]_tapVars

\* The picture of a runner that has stopped encoding for want of viewers "goes
\* stale and is treated as None" (docs/specs/2026-05-28-curbcam-mvp-2-web.md:
\* 186-187): no stream sends it.  One does: the slot is never cleared.
StaleIsNone ==
    [][\A s \in Streams :
         (Show(s) /\ runners[runner].alive) => shows'[s] # "stale"]_tapVars
=============================================================================
