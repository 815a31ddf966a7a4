# Formal model of curbcam

curbcam is a speed camera in one Python process: a capture thread reads a
camera, tracks vehicles and stores speed events with pictures; a FastAPI server
shows them live, lets the owner change settings (which restarts the pipeline)
and purge old events; a dispatcher sends alerts. This directory holds TLA+
models of the parts where threads, coroutines, files and failures meet, TLC
configurations that check them on small instances, and TLAPS proofs of the
properties that matter most for instances of any size.

Line numbers below refer to `src/src/curbcam/`.

## 1. The system

Three kinds of thread share the state of the process.

* **The event loop.** HTTP handlers declared `async`, the MJPEG and SSE
  streams, the statistics task and the alert dispatcher are coroutines of one
  loop: between two awaits a coroutine has the loop to itself.
* **Threadpool threads.** `Supervisor.restart`, and every handler declared with
  a plain `def` (purge, calibration, tokens), run concurrently with the loop and
  with each other.
* **Capture threads.** One per `PipelineRunner`. `stop()` waits at most five
  seconds for it, so two can be alive at once.

| Component | State | Operations | What is hard | What makes it correct |
|---|---|---|---|---|
| Supervisor, `web/supervisor.py`, with the thread of `pipeline/runner.py` | `_runner`, `_lock`; each runner's `_stop` and `_thread` | start, stop, restart, reconnect loop | restarts queue on a lock while the file changes; join timeout; build failure; exclusive camera | one unsignalled capture; versions applied in order; at rest the saved settings run |
| Settings store, `config/store.py`, and its handlers | `settings.yaml` | load, load_raw, save_raw; form, crop, wizard, import | truncate-then-write against a concurrent load; read-modify-write; crash | "saved" means applied; the defaults of a half-written file do not last |
| Event bus, `pipeline/events.py`, SSE in `web/streams.py` | `_subs`, one bounded queue each; callbacks of the loop | bind_loop, publish, publish_threadsafe, subscribe, unsubscribe, get | threads against the loop; stalled clients | bounded, newest kept, catches up; one client sees a subsequence of what was published |
| Event store, `storage/`, with `_persist_track` and `purge_events` | rows, JPEG files | persist, purge | reused ids, select-then-delete, files outside the transaction, lock timeouts, crash | a row keeps its own pictures; announced means stored; a purge removes what it says |
| Alert dispatcher, `alerts/dispatcher.py` | settings cache, `_last_fired`, queue | refresh, handle, fire | cache invalidation by messages that can be lost; time taken before awaits | stale only for a known reason; cooldown only after a send |
| MQTT channel, `alerts/channels.py` | `_mqtt`, `_mqtt_sig`, `_started` | publish, aclose, test alert | replaced across awaits by concurrent senders | right broker; no stray client |
| Capture loop, tracker, `detector/` | frames, live tracks | process frame, flush, persist | one-frame delay, failures in the loop | each vehicle stored once, with the frame it was in |
| Live tap, `runner.py:83-147`, `streams.py:37-50` | viewer count, overlay flag, encoded slot | add/remove viewer, tap | streams outlive runners | nobody is counted who is not there; counted means served |
| Calibration, `web/routes/calibration.py`, `cli.py calibrate` | the active row of `calibrations` | measure, save_new_active, get_active | read, then save in a later transaction; write lock | a measured direction keeps its scale; one row is active |
| Password, sessions, stream tokens, `web/auth.py`, `deps.py`, `middleware.py` | `auth.json` | set_password, secret_key, mint, revoke; gate, login | truncate-then-write from threads without a lock; the key is drawn on demand | a session stays valid; the gate stays open; tokens are those minted and not revoked |
| Retention sweeper, `storage/retention.py` | rows, files, one transaction for all days | per-day cap, disk cap | files go before the commit; deletes by id; a file that stays | no picture of an event that was marked and deleted; no other event stripped; caps kept by a sweep that nobody disturbs; sweeps end |
| Listings and reports, `web/routes/events.py`, `pages.py`, `web/reports.py`, `localtime.py` | a cursor; a window of local days | CSV download, Events page, report | several queries of a table that changes; clocks put forward and back | no row twice, none missed; "today" is the local day; the parts of a report differ only by what came and went meanwhile |
| Settings schema and form, camera drivers, discovery, command line, static pages | none that outlives a call | validation, rendering, device input and output | | see *Not modelled* |

Components meet in these places: handlers call `restart` (supervisor); `restart`
publishes `settings_changed` on the bus; capture threads persist events and then
publish them on the bus; the dispatcher is a client of the bus and reads the
settings file. The models repeat the side they need of a neighbour: Supervisor
contains the file and the handlers; Alerts contains the bounded queue of
EventBus and sees a restart as one step that announces or raises; EventStore
takes any number of capture threads because Supervisor shows (JoinTimesOut) that
one may outlive its restart.

`PROJECT.json` lists every component with its status, and every hazard found
in the code at its line with the property that covers it or the reason none does.

## 2. The modules

### Supervisor (with AppliedSettings)

| TLA+ | code |
|---|---|
| `file`, `Read` | `settings.yaml`; `Empty` is the file between `open("w")` and the dump, which loads as `{}`, that is the defaults |
| `PostSource`, `PostCrop`, `PostImport` (via `BeginSave`), `EndSave` | the handlers up to `await run_in_threadpool(sup.restart)`; two steps, because the loads of other threads see the truncated file |
| `AcquireLock` ... `SpawnThread`, `BuildFails` | `Supervisor.restart`, one step per point where another thread can observe or change something |
| `NotifyAndAnswer` | the publish after the lock, and the response |
| `CheckStop`, `OpenCamera`, `OpenFails`, `LeaveFrameLoop`, `CloseCamera`, `WakeUp` | `_loop_with_reconnect` and `run_until_camera_exhausted` of one capture thread |
| `Boot`, `Shutdown`, `Exit`, `Crash` | lifespan of the application, and a kill at any moment |
| `persisted`, `mine`, `loaded[h].ver`, `runners[i].ver`, `applied`, `boots` | history and bounds, read by no guard of the code; `ver` is 0 for the defaults that a load of the truncated file gives, which are no version of it |

A settings value has two fields: `source` decides whether a runner can be built,
`crop` stands for all others. `Exclusive` names the sources only one handle can
hold (`/dev/video0`); an RTSP URL would not be among them.

AppliedSettings is the promise without threads, lock or file: the settings that were
saved, those that run, and whether a request is pending. What runs is one of the saved
settings, in the order they were saved (an apply may skip superseded ones), and was stopped
before anything else is applied. The one exception is in it: the defaults may stand in while
a request is pending, which does not go away without having stopped them. That is
the load of a file that another request is writing (`LoadSettings`). `KeepsPromise` is the
refinement, and compares contents: `Running` is the `cfg` of a current runner that nobody has
stopped.

### EventBus (with LossyStream)

`PublishThreadsafe` is `call_soon_threadsafe`, `ready` the callbacks of the loop,
`RunCallback` the loop running the oldest, `PublishOnLoop` the statistics task,
which publishes at once and so overtakes waiting callbacks. `Put` is the body of
`publish` for one queue. LossyStream is what one client sees: it may skip, never
repeats or reorders, and only gets what is among the last `Window` items.

### EventStore (with EventLog)

`Finalise` to `Announce` are the steps of `_persist_track`: the time is taken
first, the INSERT takes SQLite's write lock and assigns `max(id)+1`, each
`imwrite` writes a file whole, broken or not at all (its result is ignored), the
commit publishes the row, and only then is the event announced. `Select`,
`DeleteRows`, `Unlink`, `AnswerPurge` are `purge_events`; `...TimesOut` is "database
is locked" after five seconds; `Rollback` and `UnlinkFails` are exceptions.
`n` in a row is history: the identity of a vehicle, whatever its id. EventLog is
the abstract log: record one, purge all that is older than a cutoff. Any number of purges
may run; with two of them an id that one has selected may be freed by the other and given
again, and `DeletesOldOrReused` says that nothing else makes a purge delete a young row.

### Alerts

One task: `Take` is `queue.get`, `Refresh` the reload, `Handle` an event that
qualifies, `Disregard` one that does not. `Offer(k, c, t)` is the loop over
`CHANNELS` from place k to the next await; as nothing awaits in between it is one
step. `SendOk` and `SendFails` end an await of `_fire`. `Save` writes the file,
`RestartDone` or `RestartFails` ends the restart that follows.

### MqttChannel

`Reuse`, `Replace` and `Close` are `_publish_mqtt` up to its first await, `Closed`,
`Connected` and `ConnectFails` what follows each await. `CloseFails` is an exception of
`_stop`, after which the old publisher stays in place, and `MakeFails` one of the factory, after
which the closed one does. `publishers` remembers the
broker of every publisher ever made, `running` those with `_started` set.

### LiveTap

`Frame` is `_tap_frame` up to the first release of its lock, with the wish to encode
and the rate limit; `Encoded` writes the slot. `Request` is the route, which sets the
overlay in a threadpool thread, `Enter` the first step of the generator, `Show` one
picture, `LeaveStream` its `finally`. `stray` is history: for each runner, how many streams of
an earlier one were taken off its count, which is what `CountsViewers` allows it to miss. Each of the Supervisor's methods of the tap reads
`_runner` once; a restart that replaces it between that read and the call is the
same as a call just before the replacement, so they are one step. A picture is
*live* while pictures like it are being made, *stale* afterwards; frames are the
clock of the rate limit. The wish to encode is the code's: viewers, or the overlay flag, which
outlives the stream that set it.

### CaptureLoop

`OpenSession` is `camera.open()` and the locals that are reset with it, `FirstFrame` and
`NextFrame` one turn of the frame loop. `Detections` is what `find_motion` returned, and
`Tracker.update` comes in three parts: `Claims`, in which the tracks in flight claim, by id, each
the closest blob that is left; `Survivors` and `Finalised`, the tracks that claimed one and
those that did not; and `Started`, the new track of the largest blob left over. `Process` is
what a frame changes once they are known. `pc = "persist"` and `"flush"` are the loops over finalised tracks,
one `PersistTrack` for each, since each of them may raise. `EndSession` is the end of
the loop with the flush, on a stop or when `read()` gives `None`; `Raise` an exception of
`open`, `read`, `find_motion` or `_persist_track`. `AfterSession` is what the caller makes of
the end of a session: a persistent camera (`persistent`, all that `camera_from_source` gives the
Supervisor) is opened again with a new tracker; for a replay, which `curbcam detect` runs, the
end of the file or an exception is the end. A frame is its number, which stands for its
time as well; `in` and `no` in a detection are history. Another thread's `Stop` is seen
before the next frame, so a frame read meanwhile is one read just before.

### FirstRun, from AuthStore and Calibrations

`AuthStore` is `auth.json`: what each operation makes of the mapping it read, and the two steps
of `_write` that other threads see, `Truncate` and `Write`; the second leaves a `mixed` file
when a shorter text is laid over a longer one that another thread has put there in
between. `Calibrations` is the table with SQLite's write lock. `FirstRun` composes the two
with the requests: `Arrive` picks what is asked and with which cookie, `Gate...` are the two
reads of `first_run_gate`, `Session` is `require_session`, which draws a key when there is
none, `CheckPassword` and `SetupPassword` the wizard's check and rewrite, `IssueSession` the
cookie. `Begin` reads `auth.json` and makes the new mapping in one step, as nothing between
the two can be observed. A key or a token is its number; `Unreadable` is the 500 that an
exception of `json.loads` ends in. `Crash` leaves the file as it is.

### Retention

One sweep, in the steps between which others act: the GROUP BY that finds `days`; for each
day the query that first flushes the deletes so far (and so takes the write lock); the unlinking of
one victim's files; the one commit; and the loop of the disk cap, which measures,
picks the oldest event, unlinks and commits. `Slice` is the Python slice, negative bounds
included. `DeleteFiles` marks the event only when both files are gone. `Commit` deletes by id, as the
DELETE statements do, and `swept` remembers both what was marked and the row that was deleted
for it. Capture
(`Record`) and purges (`Purge`) act in one step each; EventStore has them in detail.

### History

`StartListing` begins a download or a scrolling page with a filter, `CsvPageRead` and
`ScrollPageRead` read one page after the cursor. `StartReport` computes the start of the
window once, `ReadPairs`, `ReadHours` and `ReadDays` are the three queries of
`build_context`. Rows come and go between any two of them. `zone` is local time as a
function of UTC, with `Utc` and `Fold` the rules of `datetime` for times that are shown
twice or skipped. Of local time the module assumes what the proofs need and its run evaluates:
the offset is known back to the midnight before the start (`ZonesAssumption`); within the
bounds the clocks are changed once at most, are not put back into the day before, and are
put forward over a midnight only at it (`ChangeAssumption`). That is so in the zones that
change at midnight today (Azores, Nuuk, Havana, Beirut); it was not in St. John's until 2011,
which put its clocks back over midnight at 00:01, nor in Toronto in 1919, which put them
forward from 23:30. What the reports do there is not claimed.

## 3. What the runs check

`MCxxx.tla` names the model values, `MCxxx.cfg` gives the bounds.

| Run | Result | Shows |
|---|---|---|
| `supervisor` | 146 396 states, holds | two requests, three versions, two boots, an unknown source, loads of the half-written file, crashes: OneCapture, Converged, SavedMeansApplied, and the refinement KeepsPromise |
| `supervisor_live` | 17 377 states, holds | one boot, with fairness: EveryRequestAnswered, StoppedThreadsEnd, CameraHandedOver |
| `bus` | 81 977 states, holds | two publishers, two clients, queues of two: CatchesUp, and the refinement IsLossyStream |
| `store` | 630 957 states, holds | two capture threads and a purge, two events: OwnPictures, AnnouncedIsStored, PurgeKeepsItsWord, DeletesOldOrReused, and the refinement IsEventLog |
| `store_two_purges` | violated | two purges and a vehicle: the slower purge deletes the new row, which has the id of an old one (PurgeDeletesOldOnly) |
| `alerts` | 112 540 states, holds | two requests, two channels, a queue of two: StaleIsExplained, SilencedAfterSend, SettingsReachDispatcher |
| `mqtt` | 49 200 states, holds | alerts and two test alerts, two brokers: RightBroker, NoStrayClient |
| `tap` | 494 432 states, holds | two streams, a restart: TapTypeOK (a count is never negative), CountsViewers, CountedIsServed |
| `loop` | 268 157 states, holds | seven frames in two sessions of a live camera or a replay, up to two blobs at a time, exceptions anywhere: TypeOK, OneRide, NoBlobTwice, PictureShowsVehicle, NoTrackForgotten |
| `first_run` | 2 343 101 states, holds | two requests of every kind, crashes, the command line: KeyStable, GateStaysOpen, TokensKept, ScaleKept |
| `retention` | 790 674 states, holds | two sweeps next to capture and purges, with failing unlinks, locks and commits: OrphansExplained, OnlyVictimsStripped, CapsHold, and SweepEnds under fairness |
| `history` | 4 876 522 states, holds | both listings and all reports over three rows, in six local times: ListingExact, TodayIsToday, DriftIsExplained, TrendCovers |

Some properties name the interleavings they do not cover, because the code gives no more:
`crossed` (TokensKept), `founded` (KeyStable), `undercut` (ScaleKept), `~tested` (NoStrayClient),
`alone` (CapsHold), a purge that answers (PurgeKeepsItsWord). What happens in those is under
*Known behaviours* and *Disagreements*.

Every property of a passing run has a mutant in `PROJECT.json`: a definition
altered as a plausible bug would (no signal before a join, a lock that is not
released, settings taken from the request instead of the file, ...), with which
TLC finds the property violated. The altered definitions stand beside the ones they
alter, and their comments say "or ...".

### Bounds

* Supervisor: two requests are enough for every pairwise race on the loop, the
  lock and the file; three versions let a third save fall into the restart of the
  second while the first is superseded; two boots let a crash be followed by a life
  that reads what it left.
* EventBus: with queues of two and three envelopes per publisher each queue
  overflows, also after a client has left and come back.
* EventStore: a day is two ticks and four ticks pass, so that a row is past the
  cutoff of a purge of one or two days while newer rows exist; two events are enough
  for an id to be used again and for two capture threads to be persisting at once. One
  purge, since the log is kept with one only; DeletesOldOrReused is proved for any number.
* Alerts: with a queue of two and three other envelopes the news is evicted or not;
  the clock reaches three, past a cooldown of two.
* LiveTap: two streams, so that one can be older than a runner the other is counted
  by; two runners, so that there is a restart; one frame of every two may be encoded.
* CaptureLoop: with two frames for the shortest track, seven frames give a session with a
  track that is lost while another goes on and a session before or after it; two
  blobs, close to each other or far apart and listed in either order of size, are the
  least that two tracks compete for. The road has six places and a track reaches one.
* MqttChannel: four publishers let each of the three senders make one and the
  first be replaced once more.
* FirstRun: two requests give every pairwise overlap of rewrites, gate and saves; two
  keys let two requests draw one each, or a second be drawn after a file without one;
  one token is there or not; two calibrations let one be saved over another. `Foreign`
  is a key that the device never draws.
* Retention: days of two ticks with one event allowed and room for three pictures, so
  that one sweep meets the per-day cap and the disk cap; four events use ids again;
  five ticks are two days and a half, so that a purge can go past a day.
* History: three rows and pages of two and of one give full, short and empty last
  pages with a cursor between rows of equal time; days of three ticks, from tick 10 to 13,
  in local times that are a tick ahead or behind, or are put back by a tick to a midnight or
  from one, or forward over a midnight or to one: a midnight that is shown twice, one
  that is skipped, and each change just beside a midnight.

Deadlock is checked except in `alerts`, `mqtt`, `loop` and `retention`: there the bounds, or a
thread that has ended, really leave nothing to do.

### Fairness

* `Serve(h)`: an accepted request is a coroutine or a thread that nobody cancels, and
  the lock is given to a waiter when it is free. `Progress(i)`: a capture thread is
  never blocked for ever: `open` gives up after its attempts, a frame loop that has been
  told to stop leaves, sleeps end. It does not assume that a camera ever works;
  `CameraHandedOver` says what follows *if* the camera can be opened again and again
  (strong fairness of `OpenCamera`, as antecedent of the property).
* `RunCallback`, `Get`: the loop runs its callbacks and a stream that is being read
  takes from its queue.
* `Show`: an open stream goes on sending. That the camera delivers frames and not
  every encode fails (`CameraWorks`) is an antecedent of the properties.
* `Dispatch`, `FinishRestart`: HTTP sends have a timeout of their own, a connection
  attempt ends, and a restart does, by `EveryRequestAnswered`.
* `Sweep`: a sweep that has begun goes on; it need not be started.

## 4. What is proved

Eight modules hold proofs: `SupervisorProofs`, `EventBusProofs`, `EventStoreProofs`,
`FirstRunProofs`, `RetentionProofs` and `HistoryProofs` about the module they are named
after, `AlertsProofs` about Alerts and MqttChannel, `PipelineProofs` about CaptureLoop and LiveTap,
the two sides of a pipeline runner (which is why MqttChannel and LiveTap have names such as
`MqttSpec` and `TapSpec`). They rest on the assumptions named in the modules (the model values
are distinct, bounds are natural numbers, queues hold at least one, a day has ticks, local time is
as said in section 2) and hold for every value of the constants: any number of requests,
threads, clients, streams, brokers, rows, any views, pages, filters and local times, any bounds.

* **Supervisor: TypeCorrect, OneCaptureHolds, InOrderHolds, SavedMeansAppliedHolds,
  ConvergedHolds, Refinement.** OneCapture alone is not inductive: a new
  runner may only be appended when the old one is signalled, which depends on who is inside the
  lock. `SupervisorInv` adds `LockInv` (who is inside holds the lock), `Signalled` (between the
  signal and the build the current runner is stopped), `FileInv` (what a load finds in the file),
  `VersionInv` (what a restart inside the lock has loaded has the content of its version, which is
  no older than any runner's) and `DefaultsPass`: the defaults of a half-written file are
  built, and run, only while a request is there that will stop them. `SaveInv` says that
  a restart builds at least what its request saved, or those defaults;
  `ConvInv` that whenever the current runner has not the saved settings, somebody
  will still load them or has loaded them. The refinement of AppliedSettings follows
  step by step.
* **EventBus: TypeCorrect, BoundedHolds, QueueIsLatestHolds, NoLossBelowLimitHolds,
  Refinement.** The refinement needs `SeenBeforeQueue`: a
  client has got nothing that its queue still holds, so every `Get` moves forward.
* **EventStore: TypeCorrect, DeletesOldOrReusedHolds, AnnouncedIsStoredHolds,
  IsEventLogHolds, OwnPicturesHolds, PurgeKeepsItsWordHolds**, with any number of
  capture threads. The first two hold for any number of purges: by `AgeInv`, of two rows with
  one id the second is at least a day younger than the one a purge has selected (`Aged`), as an id is
  given again only when no row has it. The others assume `OnePurge`: at most one purge at
  a time, which the code does not enforce. The
  run `store_two_purges` is why: with two of them a young row is deleted.
  `RowInv` says that the one writer that has inserted holds the lock and has an id above
  all others (`Locked`, `AboveAll`, so `UniqueIds`), that tracks are of now or of a
  tick ago (`Fresh`), and that what a purge goes for is older than a cutoff at least a day
  back (`CutOff`): so a row it deletes by id is the row it selected. `NumInv` tells
  the vehicles apart, for the refinement of EventLog. `DiskInv` says that a picture that
  was drawn is at its path and shows its vehicle (`AllGood`), and that a path which a purge
  has still to unlink is of a day of which no row can come any more (`Past`), which is why
  an id that is used again is safe; `Remaining` that a picture of a deleted
  event is either gone or still on the list.
* **LiveTap: TapTypeCorrect, CountsViewersHolds.** TapTypeOK, with the count a natural
  number, needs that a restart has room for its runner; the count is the cardinality of the
  set of viewers until a stream of an earlier runner has been taken off it.
* **CaptureLoop: TypeCorrect, OneRideHolds, PictureShowsVehicleHolds, NoBlobTwiceHolds,
  NoTrackForgottenHolds.** `RideInv`: every track has a detection (`Solid`), a track in
  flight was last seen in the last frame, in the session that is open (`Current`), and tracks
  that wait were last seen in the frame they are persisted with or in the one after
  (`Pictured`). `BlobInv`: ids tell the tracks apart, also those persisted
  (`Distinct`), and no detection is of a frame to come (`Past`), so the blobs of a new frame are
  nobody's; `ClaimsApart` says that no two tracks claim the same one. `TrackInv`
  (`Kept`) follows an id from the track in flight to the one that waits and the one persisted.
* **Alerts: TypeCorrect, StaleIsExplainedHolds, SilencedAfterSendHolds.** `AlertsInv`
  adds that the time of the event being handled is not later than the send under way.
* **MqttChannel: MqttTypeCorrect, RightBrokerHolds, NoStrayClientHolds.** The heart of the
  first is that the signature is always that of the held publisher and that a sender that
  connects uses a publisher of the broker it wants; of the other `AloneInv`, which says
  where the only sender can be.
* **FirstRun: TypeCorrect, KeyStableHolds, TokensKeptHolds, GateStaysOpenHolds,
  ScaleKeptHolds.** `Route` ties the place of a request to what it asked for. `KeyInv`: a file that
  can be read and every mapping that is being written have a key, the file was there before any
  cookie, and unless two requests found no key at once it is the same one everywhere. `TokenInv`: while no rewrites overlap there is at most
  one, which leaves the granted tokens. `GateInv`: since there are
  cookies there is a password in the file and in every rewrite (a request that draws a key
  does so alone), and a request that came when all was set up finds it so. `ScaleInv`: what was measured is what is active, and who saves over what he
  has read keeps the other direction.
* **Retention: TypeCorrect, OrphansExplainedHolds, OnlyVictimsStrippedHolds, CapsHoldHolds.** Every
  picture is at the two paths of its event and an event that is marked, or was marked and deleted,
  has none (`Gone`); a victim that is gone was purged at more than a day's age, so a row that comes to
  have its id is of another day, and has other paths (`Apart`, and `SweptApart` of what a commit
  has deleted). CapsHold counts rows and files, for a sweep that
  nobody disturbed: `CapInv` follows it day by day (`DayByDay`: of a day
  that was visited the oldest that are too many are chosen, of the others nobody), through the commit
  (`DaysKept`, `OldestGo`) to the loop of the disk cap (`OldestNext`, `RoomOrEmpty`). The lemma it
  turns on is `OldestAreEnough`: the k oldest of a finite set, taken in the order of the query,
  are k.
* **History: TypeCorrect, ListingExactHolds, DriftIsExplainedHolds, TrendCoversHolds,
  TodayIsTodayHolds.** `ListInv` adds `FromCursor`: the cursor is the oldest row listed, and
  a row that is owed is listed or older; with `PageFull` (a page that is not full is the
  last) a listing that has ended has missed nothing. `ReportInv` rests on
  the three queries' sharing one start of the window: each counts all that was there all the time
  and nothing that never was (`PartsBetween`), which bounds what two of them can differ by
  (`DriftBetween`); `TrendInv` on dates of UTC going up with time
  (`TrendDays`). `TodayInv` is about clocks: `MidnightIs` says which instant
  `replace(hour=0)` and the way back to UTC give, whether it is shown once, twice or never;
  `DateMonotone` that local dates never go back; so the rows since that instant are
  those of the local day (`TodayStart`), unless the report is asked in the hour that is shown
  twice.

What remains with TLC are the liveness properties: EveryRequestAnswered, StoppedThreadsEnd,
CameraHandedOver, CatchesUp, SettingsReachDispatcher, CountedIsServed and SweepEnds. TLAPS as used
here proves no liveness and no ENABLED. Every invariant, safety action property and
refinement that a run checks is a theorem as well. The other way round, InOrder, Bounded, QueueIsLatest
and NoLossBelowLimit are proved and in no run, and so are the type invariants of
all modules but LiveTap and CaptureLoop. The inductive invariants were checked with TLC on the
instances of section 3 before they were proved.

## 5. Abstractions

* A posted form that is rejected changes nothing and is left out. Environment
  variables override the file in the same way for the life of a process, so they
  are left out as well.
* The settings file and `auth.json` are smaller than Python's write buffer: their content
  reaches the disk in one write, so the empty file is the only intermediate content of one writer.
* The dispatcher reloads settings on the event loop, where the file is also written:
  it never sees it half written. The server takes its first request after the task
  of the dispatcher has been created, and has none in flight when it shuts down.
* SQLite in WAL mode: readers never wait, a crash of the process loses no commit. Loss of
  power with `synchronous=NORMAL` is not modelled. A file that can be created can be
  written over. Persisting one event keeps within a tick of the clock (half a day).
* The stop of an MQTT client in a thread and the reset of `_started` after it are
  one step; whether paho accepts a message is a free choice. A cancelled task's
  thread ends by itself and starts nothing. At shutdown the client is taken to stop: `loop_stop` has
  ended its thread before `disconnect` could raise.
* CaptureLoop lets `find_motion` see any view at any frame, whatever moved before: no
  property may rest on vehicles that move smoothly. Positions have one coordinate, which
  is all that a comparison of distances needs. A track that `_persist_track` skips (no
  calibration, no speed, too slow) counts as handled.
* FirstRun: hashing, signing and expiry are left out; a cookie is the key it was signed
  with. A request without a cookie is turned away as one with a cookie of an earlier
  installation is, and reads less. Scales are the numbers of the measures they come from.
* Retention: capture and purges next to a sweep act in one step each, and a picture has
  size one. Nothing in the application instantiates the sweeper yet (its tests do), so who runs
  it and how often is not modelled: two sweeps, one after the other.
* History: a purge runs alone and in one step; speeds, percentiles, the histogram and the
  charts are functions of the pairs that are kept, and are left out.
* Payloads, texts, formatting and logging are left out.

### Known behaviours

These are in the models, and no document quoted below is about them: a join that
times out leaves the old thread running beside the new one; a purge that fails half way leaves
pictures without rows (PurgeKeepsItsWord is about the others); a restart that raises leaves the dispatcher with old settings; a crash
between truncation and dump leaves the defaults; a saved source that no driver knows makes the next
boot fail. And of the components of the first run and of history:
* Two rewrites of `auth.json` that overlap lose one of the changes (`crossed`); that, or a crash after the
  truncation, can leave a file that every later request answers with 500 until it is
  repaired by hand. Of two overlapping setups the second password wins.
* A measure saved over one that it had not read undoes that one (`undercut`).
* In the sweeper, a commit that fails leaves rows without pictures; files
  without a row count towards the disk cap, which then deletes events in their stead.
* When clocks are put back over midnight, the report of `today` starts at the second
  midnight while the clocks show that hour again (`replace` keeps the fold).

### Disagreements with a comment or a document

`store_two_purges` is the one with a run of its own. The following are in the models. Where a
property is named, the module states the quoted sentence under *What the documents say and
the code does not do*, and TLC finds it violated when it takes the place of the
properties in the module's configuration.

* "the runner stops encoding when nobody is watching" (`web/streams.py:5`), "with zero viewers no
  JPEG encoding happens" (`docs/plans/2026-05-28-curbcam-mvp-2-web.md:1124`): `_tap_frame` encodes
  when there are viewers *or* the overlay flag is set (`runner.py:127`). `mjpeg_stream` sets the flag
  (`web/routes/stream.py:21`) and nothing resets it when the stream closes, so after a stream with
  `?overlay=true` the runner goes on encoding with nobody watching until another stream or a restart
  clears it (`EncodesOnlyWatched` of LiveTap). The web specification, line 186, has the overlay
  as an exception, but none that outlasts its stream.
* "The sweeper deletes the DB row AND the JPEG + thumbnail" (`retention.py:7`), and keeps the row when
  a file stays "so the file is not orphaned" (lines 62-63): `s.delete(ev)` becomes `DELETE ... WHERE
  id = ?` at the flush or the commit. When a purge has taken the event by then and a vehicle has
  passed, the id is a new event's, whose row is deleted and whose pictures stay (`NoOrphans` of
  Retention; OrphansExplained says that nothing else leaves any).
* "no-op if everything is under cap" (`retention.py:8`): when a day has lost events since the GROUP
  BY, the slice (line 59) has a negative bound and takes from the front all but that many, instead
  of nothing (`SparesDaysUnderCap` of Retention, with `MaxPerDay = 3` and `DiskCap = 8`).
* "`secret_key` is generated once when the password is first set"
  (`docs/specs/2026-05-28-curbcam-mvp-2-web.md:263`): a request with a cookie of an earlier
  installation that comes while the wizard sets the password makes both find no key and draw one
  (`auth.py:73-76`), and the wizard's cookie may be signed with the one that is overwritten
  (`KeyDrawnOnce` of FirstRun; `founded` names the case in KeyStable).
* `restart` stops the old runner before it builds the new one (`supervisor.py:110-113`).
  When the source is one no driver knows, the build raises and `_runner` stays the
  stopped runner (`BuildFails`), although the web specification
  (`docs/specs/2026-05-28-curbcam-mvp-2-web.md:174-176`) says that the lock keeps the supervisor
  from pointing at "a half-built or already-dead thread".
* A restart that loads `settings.yaml` while another request writes it reads an empty
  file, and runs the defaults, which nobody saved, until the writing request's own restart; the
  request that it belongs to is answered "saved" meanwhile. SavedMeansApplied and AppliedSettings name the case.
* `alerts/registry.py:38` calls the cooldown the "minimum seconds between sends", but
  `_fire` marks a channel with the time of the event (`dispatcher.py:120`): behind a
  slow channel two sends can be closer together. `began` in Alerts shows it.
* The news of new settings can be evicted from the dispatcher's full queue: its cache is
  then stale until the next save. StaleIsExplained names the case.
* Two senders that replace the MQTT publisher across each other's awaits forget one that
  is still connecting (`dispatcher.py:128-133`): it stays connected, and neither a later
  send nor a shutdown stops it. NoStrayClient holds only while no test alert was sent.
* A preview that is open while the camera is saved shows nothing of the new one
  (`streams.py`: the generator was counted by the old runner), although the wizard answers "preview
  below should update" (`web/routes/setup.py:73`).
* "otherwise `latest_frame` goes stale and is treated as `None`"
  (`docs/specs/2026-05-28-curbcam-mvp-2-web.md:186-187`): `latest_annotated` returns the old
  picture, which nothing clears, and a new viewer is sent it (`StaleIsNone` of LiveTap).
* "The other direction defaults to the same value until separately calibrated"
  (`docs/specs/2026-05-28-curbcam-mvp-2-web.md:409-411`): measuring the *first* direction a
  second time leaves the default of the other at the first value.
* "Daily-volume trend - count per day across the window"
  (`docs/specs/2026-06-01-curbcam-alerts-reports.md:196`): the trend begins at the UTC date
  of the start of the window (`reports.py:58`). West of Greenwich the local date can be the day
  before, whose events are then in the summary and not in the trend. TrendCovers names that day.

## 6. Not modelled

* **Settings schema and form rendering**: validation and conversion of single values
  without state; a post is accepted or changes nothing.
* **Camera drivers and discovery**: device input and output behind `open`, `read` and
  `close`, whose outcomes (success, failure, blocking, end) Supervisor and CaptureLoop choose freely.
* **Command line, mDNS announcement, templates, static pages**: start-up glue and output.
  The two commands that write or capture are modelled where they belong: `calibrate` in
  Calibrations, `detect` in CaptureLoop.
* **Direction and speed of a track, drawing, encoding, percentiles**: arithmetic on one
  value, which unit tests reach.

## 7. Plan

The components that keep state and run concurrently are all modelled, and what their runs check
of safety is proved. What would add most next:

1. Retention composed with EventStore, once the application runs the sweeper: its steps then
   interleave with those of a purge and of `_persist_track`.
2. A refinement for MqttChannel (one connection that is moved from broker to broker) and one for
   Calibrations (a table of two scales), as Supervisor, EventBus and EventStore have theirs.
3. The liveness properties, if a prover for them is at hand: the fairness of section 3 is stated per
   thread for that.
