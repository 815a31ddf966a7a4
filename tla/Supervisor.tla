---------------------------- MODULE Supervisor ----------------------------
(***************************************************************************)
(* The Supervisor of the web process (web/supervisor.py), the capture      *)
(* threads it starts and stops (pipeline/runner.py), the HTTP handlers     *)
(* that save settings and then restart the pipeline (web/routes/settings,  *)
(* crop, setup, backup) and the YAML file they share (config/store.py).    *)
(*                                                                         *)
(* Three kinds of thread run here.  Handlers are coroutines of ONE event   *)
(* loop: between two awaits a handler owns the loop.  Supervisor.restart   *)
(* runs in a threadpool thread per request and holds the Supervisor's      *)
(* lock.  Every PipelineRunner has a capture thread of its own, which      *)
(* looks at its stop flag only at the top of its loops.                    *)
(***************************************************************************)
EXTENDS Integers, Sequences

CONSTANTS
    Requests,       \* settings-saving HTTP requests in flight
    Source,         \* camera.source strings a user can save
    KnownSource,    \* those camera_from_source has a driver for
    Exclusive,      \* those naming a device only one handle can hold
    Crop,           \* values of detector.crop
    Empty,          \* the YAML file between open("w") and the dump
    Defaults,       \* the Settings an empty mapping stands for
    Nobody,         \* no holder of the lock, no user of the loop
    Lifespan,       \* the application's startup and shutdown code
    MaxSaves,       \* bound: settings persisted in one behaviour
    MaxBoots        \* bound: process starts in one behaviour

\* camera.source and detector.crop stand for the whole mapping: a field that
\* decides whether a runner can be built, and one that does not.
Settings == [source : Source, crop : Crop]

ASSUME SettingsAssumption ==
    /\ KnownSource \subseteq Source
    /\ Defaults \in Settings
    /\ Empty \notin Settings
ASSUME ActorAssumption ==
    /\ Nobody \notin Requests \cup {Lifespan}
    /\ Lifespan \notin Requests
ASSUME BoundAssumption == MaxSaves \in Nat /\ MaxBoots \in Nat

VARIABLES
    file,       \* content of settings.yaml
    persisted,  \* history: every content the file was given, oldest first
    loop,       \* the request between load_raw and save_raw on the event loop
    draft,      \* draft[h]: the mapping h is about to write
    mine,       \* mine[h]: the version of the file that h wrote
    pc,         \* pc[h]: where request h is
    loaded,     \* loaded[h]: the Settings h's restart read, and their version,
                \* 0 for the defaults of a file that was being written
    lock,       \* holder of Supervisor._lock
    runner,     \* Supervisor._runner: index in runners, 0 for None
    runners,    \* every PipelineRunner of this process
    applied,    \* history: the newest version this process built a runner from
    life,       \* the process: "down", "up" or "stopping"
    boots       \* number of process starts

vars == <<file, persisted, loop, draft, mine, pc, loaded, lock, runner,
          runners, applied, life, boots>>
disk == <<file, persisted>>
handlers == <<loop, draft, mine>>
pipeline == <<runner, runners, applied>>
process == <<life, boots>>

ThreadState == {"new", "check", "opening", "reading", "closing", "sleeping",
                "ended"}
Runner == [state : ThreadState, stop : BOOLEAN, cfg : Settings, ver : Nat]
Where == {"idle", "writing", "queued", "joining", "loading", "building",
          "spawning", "notifying"}
\* The part of restart() that runs inside `with self._lock`.
Locked == {"joining", "loading", "building", "spawning"}

\* load(), and load_raw(), of an empty file: `yaml.safe_load(f) or {}`.
Read(content) == IF content = Empty THEN Defaults ELSE content

\* PipelineRunner.__init__, for the settings s of version v.
NewRunner(s, v) == [state |-> "new", stop |-> FALSE, cfg |-> s, ver |-> v]

Holds(i) == runners[i].state \in {"reading", "closing"}
Alive(i) == runners[i].state \notin {"new", "ended"}
Blocked(i) == runners[i].state \in {"opening", "reading", "closing"}

Init ==
    /\ file \in Settings /\ persisted = <<file>>
    /\ loop = Nobody
    /\ draft = [h \in Requests |-> Defaults]
    /\ mine = [h \in Requests |-> 0]
    /\ pc = [h \in Requests |-> "idle"]
    /\ loaded = [h \in Requests |-> [cfg |-> Defaults, ver |-> 0]]
    /\ lock = Nobody
    /\ runner = 0 /\ runners = <<>> /\ applied = 0
    /\ life = "down" /\ boots = 0

---------------------------------------------------------------------------
(* The handlers: load_raw, overlay, save_raw, then await the restart.      *)

\* load_raw .. the truncation in _write_yaml's open("w").  There is no await
\* from the load to the dump, so no other handler runs in between.
BeginSave(h, raw) ==
    /\ life = "up" /\ loop = Nobody
    /\ pc[h] = "idle" /\ Len(persisted) < MaxSaves
    /\ draft' = [draft EXCEPT ![h] = raw]
    /\ file' = Empty
    /\ loop' = h
    /\ pc' = [pc EXCEPT ![h] = "writing"]
    /\ UNCHANGED <<persisted, mine, loaded, lock, pipeline, process>>

\* The settings form and the camera step of the wizard overlay their fields.
PostSource(h) == \E s \in Source :
    BeginSave(h, [Read(file) EXCEPT !.source = s])
\* The alignment wizard overlays detector.crop.
PostCrop(h) == \E c \in Crop :
    BeginSave(h, [Read(file) EXCEPT !.crop = c])
\* An import replaces the whole mapping.
PostImport(h) == \E s \in Settings : BeginSave(h, s)

\* The dump; the handler then awaits run_in_threadpool(sup.restart).
EndSave(h) ==
    /\ pc[h] = "writing"
    /\ file' = draft[h]
    /\ persisted' = Append(persisted, draft[h])
    /\ mine' = [mine EXCEPT ![h] = Len(persisted) + 1]
    /\ loop' = Nobody
    /\ pc' = [pc EXCEPT ![h] = "queued"]
    /\ UNCHANGED <<draft, loaded, lock, pipeline, process>>

---------------------------------------------------------------------------
(* Supervisor.restart, in the request's threadpool thread.                 *)

LockIgnored == TRUE
LockFree == lock = Nobody

\* runner.stop(): the flag is set before the join; or forgotten.
SignalForgotten(rs) == rs
Signal(rs) == IF runner = 0 THEN rs ELSE [rs EXCEPT ![runner].stop = TRUE]

\* A runner that was stopped before has forgotten its thread: nothing to join.
ToJoin == runner # 0 /\ ~runners[runner].stop

AcquireLock(h) ==
    /\ pc[h] = "queued" /\ LockFree
    /\ lock' = h
    /\ runners' = Signal(runners)
    /\ pc' = [pc EXCEPT ![h] = IF ToJoin THEN "joining" ELSE "loading"]
    /\ UNCHANGED <<disk, handlers, loaded, runner, applied, process>>

\* thread.join(timeout=5) returned, because the thread ended ...
JoinReturns(h) ==
    /\ pc[h] = "joining" /\ runners[runner].state = "ended"
    /\ pc' = [pc EXCEPT ![h] = "loading"]
    /\ UNCHANGED <<disk, handlers, loaded, lock, pipeline, process>>

\* ... or because five seconds went by, in an RTSP open() that backs off for
\* up to 15.5 s, a read() that blocks, or a flush that waits for the database.
\* Nobody looks at which of the two it was.
JoinTimesOut(h) ==
    /\ pc[h] = "joining" /\ Blocked(runner)
    /\ pc' = [pc EXCEPT ![h] = "loading"]
    /\ UNCHANGED <<disk, handlers, loaded, lock, pipeline, process>>

\* A restart that applies the settings its own request has posted.
LoadDraft(h) ==
    /\ pc[h] = "loading"
    /\ loaded' = [loaded EXCEPT ![h] = [cfg |-> draft[h], ver |-> mine[h]]]
    /\ pc' = [pc EXCEPT ![h] = "building"]
    /\ UNCHANGED <<disk, handlers, lock, pipeline, process>>

\* ConfigStore.load() in the threadpool thread, which does not exclude a
\* handler that is writing the file on the event loop: what is read then is
\* the defaults, which are no version of the file.
LoadSettings(h) ==
    /\ pc[h] = "loading"
    /\ loaded' = [loaded EXCEPT ![h] =
                    [cfg |-> Read(file),
                     ver |-> IF loop = Nobody THEN Len(persisted) ELSE 0]]
    /\ pc' = [pc EXCEPT ![h] = "building"]
    /\ UNCHANGED <<disk, handlers, lock, pipeline, process>>

BuildRunner(h) ==
    /\ pc[h] = "building" /\ loaded[h].cfg.source \in KnownSource
    /\ runners' = Append(runners, NewRunner(loaded[h].cfg, loaded[h].ver))
    /\ runner' = Len(runners) + 1
    /\ applied' = IF loaded[h].ver = 0 THEN applied ELSE loaded[h].ver
    /\ pc' = [pc EXCEPT ![h] = "spawning"]
    /\ UNCHANGED <<disk, handlers, loaded, lock, process>>

\* camera_from_source raises ValueError: the lock is released, the request
\* ends in a 500 and self._runner is still the runner that was stopped.  Or,
\* without the `with` statement, the lock is not released.
BuildFailsLocked(h) ==
    /\ pc[h] = "building" /\ loaded[h].cfg.source \notin KnownSource
    /\ pc' = [pc EXCEPT ![h] = "idle"]
    /\ UNCHANGED <<disk, handlers, loaded, lock, pipeline, process>>
BuildFails(h) ==
    /\ pc[h] = "building" /\ loaded[h].cfg.source \notin KnownSource
    /\ lock' = Nobody
    /\ pc' = [pc EXCEPT ![h] = "idle"]
    /\ UNCHANGED <<disk, handlers, loaded, pipeline, process>>

\* run_in_background_thread, then the end of the `with` block.
SpawnThread(h) ==
    /\ pc[h] = "spawning"
    /\ runners' = [runners EXCEPT ![runner].state = "check"]
    /\ lock' = Nobody
    /\ pc' = [pc EXCEPT ![h] = "notifying"]
    /\ UNCHANGED <<disk, handlers, loaded, runner, applied, process>>

\* publish_threadsafe(settings_changed) and the response.
NotifyAndAnswer(h) ==
    /\ pc[h] = "notifying"
    /\ pc' = [pc EXCEPT ![h] = "idle"]
    /\ UNCHANGED <<disk, handlers, loaded, lock, pipeline, process>>

---------------------------------------------------------------------------
(* A capture thread: _loop_with_reconnect around run_until_camera_exhausted*)
(* of a persistent camera (Supervisor always builds it with loop=True).    *)

Become(i, s) ==
    /\ runners' = [runners EXCEPT ![i].state = s]
    /\ UNCHANGED <<disk, handlers, pc, loaded, lock, runner, applied, process>>

\* `while not self._stop.is_set()` of the reconnect loop; or `while True`.
CheckStopForgotten(i) ==
    /\ runners[i].state = "check"
    /\ Become(i, "opening")
CheckStop(i) ==
    /\ runners[i].state = "check"
    /\ Become(i, IF runners[i].stop THEN "ended" ELSE "opening")

\* Camera.open() succeeds: not for a device that another thread holds.
OpenCamera(i) ==
    /\ runners[i].state = "opening"
    /\ runners[i].cfg.source \in Exclusive =>
         \A j \in DOMAIN runners :
            Holds(j) => runners[j].cfg.source # runners[i].cfg.source
    /\ Become(i, "reading")

\* Camera.open() raises; run_until_camera_exhausted has nothing to close.
OpenFails(i) ==
    /\ runners[i].state = "opening"
    /\ Become(i, "sleeping")

\* The frame loop ends: the flag is set, read() gave None, or a frame raised.
LeaveFrameLoop(i) ==
    /\ runners[i].state = "reading"
    /\ Become(i, "closing")

\* What stop() makes inevitable, as opposed to a camera that fails by chance.
ObeyStop(i) == runners[i].stop /\ LeaveFrameLoop(i)

\* The flush of in-flight tracks, then `finally: self._camera.close()`.
CloseCamera(i) ==
    /\ runners[i].state = "closing"
    /\ Become(i, "sleeping")

\* time.sleep(0.5) after a clean end, time.sleep(2.0) after an exception.
WakeUp(i) ==
    /\ runners[i].state = "sleeping"
    /\ Become(i, "check")

---------------------------------------------------------------------------
(* The process: lifespan startup and shutdown, and a crash at any moment.  *)

\* What a process that ends leaves behind is the disk alone.
LoseMemory ==
    /\ loop' = Nobody /\ lock' = Nobody
    /\ pc' = [h \in Requests |-> "idle"]
    /\ runner' = 0 /\ runners' = <<>> /\ applied' = 0
    /\ life' = "down"
    /\ UNCHANGED <<draft, mine, loaded, boots>>

\* Supervisor.start(): no handler runs before the startup code has returned.
Boot ==
    /\ life = "down" /\ boots < MaxBoots
    /\ Read(file).source \in KnownSource
    /\ runners' = <<[NewRunner(Read(file), Len(persisted))
                        EXCEPT !.state = "check"]>>
    /\ runner' = 1 /\ applied' = Len(persisted)
    /\ life' = "up" /\ boots' = boots + 1
    /\ UNCHANGED <<disk, handlers, pc, loaded, lock>>

\* Supervisor.stop(), once the server has no request in flight.
Shutdown ==
    /\ life = "up" /\ lock = Nobody
    /\ \A h \in Requests : pc[h] = "idle"
    /\ lock' = Lifespan
    /\ runners' = Signal(runners)
    /\ life' = "stopping"
    /\ UNCHANGED <<disk, handlers, pc, loaded, runner, applied, boots>>

\* The join returned or timed out; the capture threads are daemons.
Exit ==
    /\ life = "stopping"
    /\ LoseMemory
    /\ UNCHANGED disk

\* Killed between two steps.  A file caught empty stays empty, which is to
\* say that it now holds the defaults.
Crash ==
    /\ life # "down"
    /\ LoseMemory
    /\ persisted' = IF loop = Nobody THEN persisted
                                     ELSE Append(persisted, Defaults)
    /\ UNCHANGED file

\* The process is not running.
Off == life = "down" /\ UNCHANGED vars

---------------------------------------------------------------------------
Post(h) == PostSource(h) \/ PostCrop(h) \/ PostImport(h)
Restart(h) ==
    \/ AcquireLock(h) \/ JoinReturns(h) \/ JoinTimesOut(h)
    \/ LoadSettings(h) \/ BuildRunner(h) \/ BuildFails(h) \/ SpawnThread(h)
    \/ NotifyAndAnswer(h)
Serve(h) == EndSave(h) \/ Restart(h)
Capture(i) ==
    \/ CheckStop(i) \/ OpenCamera(i) \/ OpenFails(i) \/ LeaveFrameLoop(i)
    \/ CloseCamera(i) \/ WakeUp(i)
\* A capture thread that goes on, frame after frame, unless it is stopped.
Progress(i) ==
    \/ CheckStop(i) \/ OpenCamera(i) \/ OpenFails(i) \/ ObeyStop(i)
    \/ CloseCamera(i) \/ WakeUp(i)

Next ==
    \/ \E h \in Requests : Post(h) \/ Serve(h)
    \/ \E i \in DOMAIN runners : Capture(i)
    \/ Boot \/ Shutdown \/ Exit \/ Crash \/ Off

Spec == Init /\ [][Next]_vars

\* A handler that has started runs to its end, and so does a thread that has
\* been told to stop: open() gives up after its attempts and read() returns.
RunnerIds == 1..(MaxSaves + MaxBoots)
Fairness ==
    /\ \A h \in Requests : WF_vars(Serve(h))
    /\ \A i \in RunnerIds : WF_vars(i \in DOMAIN runners /\ Progress(i))
FairSpec == Spec /\ Fairness

\* The camera can be opened again and again when nobody else holds it.
CameraWorks == \A i \in RunnerIds : SF_vars(i \in DOMAIN runners /\ OpenCamera(i))

---------------------------------------------------------------------------
(* Properties.                                                             *)

TypeOK ==
    /\ file \in Settings \cup {Empty}
    /\ persisted \in Seq(Settings)
    /\ loop \in Requests \cup {Nobody}
    /\ draft \in [Requests -> Settings]
    /\ mine \in [Requests -> Nat]
    /\ pc \in [Requests -> Where]
    /\ loaded \in [Requests -> [cfg : Settings, ver : Nat]]
    /\ lock \in Requests \cup {Nobody, Lifespan}
    /\ runners \in Seq(Runner)
    /\ runner \in 0..Len(runners) /\ applied \in Nat
    /\ life \in {"down", "up", "stopping"}
    /\ boots \in Nat

Quiet == \A h \in Requests : pc[h] = "idle"

\* Of all capture threads, only the one of Supervisor._runner has not been
\* told to stop (supervisor.py: "two threads writing self._runner would leak
\* a camera handle"): whoever replaces a runner has signalled it first.
OneCapture ==
    \A i \in DOMAIN runners : i # runner => runners[i].stop

\* When no save is under way and the persisted source has a driver, a runner
\* that nobody stopped is capturing with exactly the persisted settings,
\* however the saves and their restarts interleaved (the web specification:
\* two quick saves converge to the last-saved state).
Converged ==
    (life = "up" /\ Quiet /\ Read(file).source \in KnownSource) =>
        /\ runner # 0
        /\ ~runners[runner].stop /\ Alive(runner)
        /\ runners[runner].cfg = Read(file)

\* The settings that r was built from: version v of the file, or the defaults
\* of a file that was being written.
BuiltFrom(r) == IF r.ver = 0 THEN r.cfg = Defaults ELSE r.cfg = persisted[r.ver]

\* A request whose own restart has still to stop whatever runs.
Pending == \E h \in Requests : pc[h] \in {"writing", "queued"}

\* Restarts apply the saved versions in order: every runner has the content
\* of a version of the file, and no runner that of an older one than a runner
\* before it; or it has the defaults.
InOrder ==
    /\ \A i \in DOMAIN runners : BuiltFrom(runners[i])
    /\ \A i, j \in DOMAIN runners :
         (i < j /\ runners[j].ver # 0) => runners[i].ver <= runners[j].ver

\* When a request is about to be answered "saved", the current runner was
\* built from the content of the version it saved or of a later one; or its
\* load met another request's half-written file, and then that request's
\* restart has stopped the defaults, or will.
SavedMeansApplied ==
    \A h \in Requests : pc[h] = "notifying" =>
        /\ runner # 0 /\ BuiltFrom(runners[runner])
        /\ \/ runners[runner].ver >= mine[h]
           \/ runners[runner].ver = 0 /\ (runners[runner].stop \/ Pending)

\* `with self._lock`: a request inside it holds the lock, and nobody has it
\* while the process shuts down; a process that is down has nothing.
LockInv ==
    /\ \A h \in Requests : pc[h] \in Locked => lock = h
    /\ life = "stopping" => lock = Lifespan
    /\ life = "down" => runner = 0
    /\ life # "up" => Quiet

\* Between the signal to the old runner and the new one in its place.
Signalled ==
    \A h \in Requests :
        (pc[h] \in {"joining", "loading", "building"} /\ runner # 0)
            => runners[runner].stop

\* While nobody is writing the file it has the content of its newest version.
FileInv ==
    /\ persisted # <<>>
    /\ loop = Nobody => Read(file) = persisted[Len(persisted)]
    /\ loop # Nobody => loop \in Requests /\ pc[loop] = "writing" /\ file = Empty
    /\ \A h \in Requests : pc[h] = "writing" => loop = h

\* What a restart has loaded is at least as new as anything built so far, and
\* has the content of its version.
VersionInv ==
    /\ runner = Len(runners) /\ applied <= Len(persisted)
    /\ \A i \in DOMAIN runners : runners[i].ver <= applied
    /\ \A h \in Requests : pc[h] = "building" =>
         /\ BuiltFrom(loaded[h]) /\ loaded[h].ver <= Len(persisted)
         /\ loaded[h].ver # 0 => applied <= loaded[h].ver

\* Defaults that nobody saved are built, and run, only while a request is
\* there that will stop them.
DefaultsPass ==
    /\ \A h \in Requests : (pc[h] = "building" /\ loaded[h].ver = 0) => Pending
    /\ (runner # 0 /\ runners[runner].ver = 0) =>
         runners[runner].stop \/ Pending

\* Why OneCapture and InOrder hold: the facts above are what every step of
\* every thread preserves together with them.
SupervisorInv ==
    LockInv /\ Signalled /\ OneCapture /\ FileInv /\ VersionInv /\ InOrder
        /\ DefaultsPass

\* Every save that reached the disk is answered: the lock is always released,
\* after a failed build and after a join that timed out too.
EveryRequestAnswered == \A h \in Requests : pc[h] = "queued" ~> pc[h] = "idle"

\* A thread that was told to stop ends, even when its join timed out: nobody
\* waits for it any more, and it closes its camera by itself.
StoppedThreadsEnd ==
    \A i \in RunnerIds :
        (i \in DOMAIN runners /\ runners[i].stop)
            ~> (i \in DOMAIN runners => runners[i].state = "ended")

\* After the last restart the new runner gets the camera, and gets it again
\* after every failure, although the old thread may have held the device when
\* the new one first tried to open it.
Capturing == runner # 0 /\ Holds(runner)
CameraHandedOver ==
    CameraWorks =>
        (<>[](life = "up" /\ Quiet /\ Read(file).source \in KnownSource)
            => []<>Capturing)

---------------------------------------------------------------------------
(* The Supervisor keeps the promise of AppliedSettings: the pipeline runs  *)
(* one saved version at a time, in order, or for a while the defaults.     *)
Running ==
    IF runner = 0 \/ runners[runner].stop THEN Empty ELSE runners[runner].cfg
Promise == INSTANCE AppliedSettings WITH
    saved <- persisted, pending <- Pending, running <- Running, Nothing <- Empty
KeepsPromise == Promise!Spec
=============================================================================
