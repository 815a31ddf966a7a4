-------------------------- MODULE SupervisorProofs --------------------------
(***************************************************************************)
(* What holds of the Supervisor for every number of requests, sources,     *)
(* saves and process starts: its types, that at most one capture thread    *)
(* has not been told to stop, that restarts apply the contents of saved    *)
(* versions in order, that what is answered "saved" runs or will, that at  *)
(* rest the saved settings run, and that it implements AppliedSettings.    *)
(***************************************************************************)
EXTENDS Supervisor, SequenceTheorems, TLAPS

USE DEF disk, handlers, pipeline, process

---------------------------------------------------------------------------

LEMMA InitTypeOK == Init => TypeOK
BY SettingsAssumption DEF Init, TypeOK, Settings, Where

(* load() and load_raw() always give a whole Settings.                     *)
LEMMA ReadType ==
    ASSUME file \in Settings \cup {Empty}
    PROVE  Read(file) \in Settings
BY SettingsAssumption DEF Read

LEMMA ThreadStates ==
    {"check", "opening", "reading", "closing", "sleeping", "ended"}
        \subseteq ThreadState
BY DEF ThreadState

LEMMA RunnerType ==
    ASSUME NEW r \in Runner
    PROVE  r.stop \in BOOLEAN /\ r.ver \in Nat /\ r.cfg \in Settings
BY DEF Runner

LEMMA RunnerUpdate ==
    ASSUME NEW r \in Runner, NEW s \in ThreadState
    PROVE  /\ [r EXCEPT !.state = s] \in Runner
           /\ [r EXCEPT !.state = s].stop = r.stop
           /\ [r EXCEPT !.state = s].ver = r.ver
           /\ [r EXCEPT !.state = s].cfg = r.cfg
           /\ [r EXCEPT !.stop = TRUE] \in Runner
           /\ [r EXCEPT !.stop = TRUE].stop = TRUE
           /\ [r EXCEPT !.stop = TRUE].ver = r.ver
           /\ [r EXCEPT !.stop = TRUE].cfg = r.cfg
BY DEF Runner

LEMMA NewRunnerType ==
    ASSUME NEW s \in Settings, NEW v \in Nat
    PROVE  NewRunner(s, v) \in Runner
BY DEF NewRunner, Runner, ThreadState

(* A capture thread's step, or its start, changes its state alone.         *)
LEMMA BecomeType ==
    ASSUME runners \in Seq(Runner), NEW i \in Nat, NEW s \in ThreadState
    PROVE  LET rs == [runners EXCEPT ![i].state = s]
           IN  /\ rs \in Seq(Runner) /\ Len(rs) = Len(runners)
               /\ \A j \in 1..Len(runners) :
                    /\ rs[j].stop = runners[j].stop /\ rs[j].ver = runners[j].ver
                    /\ rs[j].cfg = runners[j].cfg
<1> DEFINE e == [runners[i] EXCEPT !.state = s]
<1> DEFINE rs == [runners EXCEPT ![i] = e]
<1>1. CASE i \in 1..Len(runners)
  <2>1. runners[i] \in Runner
    BY <1>1
  <2>2. /\ e \in Runner /\ e.stop = runners[i].stop /\ e.ver = runners[i].ver
        /\ e.cfg = runners[i].cfg
    BY <2>1, RunnerUpdate
  <2>3. /\ rs \in Seq(Runner) /\ Len(rs) = Len(runners)
        /\ \A j \in 1..Len(runners) : rs[j] = IF j = i THEN e ELSE runners[j]
    <3> HIDE DEF e
    <3> QED BY <1>1, <2>2, ExceptSeq
  <2> QED BY <2>2, <2>3
<1>2. CASE i \notin 1..Len(runners)
  <2>1. rs = runners
    BY <1>2
  <2> QED BY <2>1
<1> QED BY <1>1, <1>2

(* Signalling changes stop flags only, and sets the current runner's.      *)
LEMMA SignalType ==
    ASSUME runners \in Seq(Runner), runner \in 0..Len(runners)
    PROVE  /\ Signal(runners) \in Seq(Runner)
           /\ Len(Signal(runners)) = Len(runners)
           /\ \A i \in 1..Len(runners) :
                /\ Signal(runners)[i].ver = runners[i].ver
                /\ Signal(runners)[i].cfg = runners[i].cfg
                /\ i = runner => Signal(runners)[i].stop
                /\ i # runner => Signal(runners)[i].stop = runners[i].stop
<1>1. CASE runner = 0
  <2>1. \A i \in 1..Len(runners) : runners[i].stop \in BOOLEAN /\ i # runner
    BY <1>1, RunnerType
  <2> QED BY <1>1, <2>1 DEF Signal
<1>2. CASE runner # 0
  <2> DEFINE e == [runners[runner] EXCEPT !.stop = TRUE]
  <2>1. runner \in 1..Len(runners)
    BY <1>2
  <2>2. /\ e \in Runner /\ e.stop = TRUE /\ e.ver = runners[runner].ver
        /\ e.cfg = runners[runner].cfg
    <3>1. runners[runner] \in Runner
      BY <2>1
    <3> QED BY <3>1, RunnerUpdate, ThreadStates, "check" \in ThreadState
  <2>3. Signal(runners) = [runners EXCEPT ![runner] = e]
    BY <1>2 DEF Signal
  <2>4. /\ Signal(runners) \in Seq(Runner)
        /\ Len(Signal(runners)) = Len(runners)
        /\ \A i \in 1..Len(runners) :
             Signal(runners)[i] = IF i = runner THEN e ELSE runners[i]
    <3> HIDE DEF e
    <3> QED BY <2>1, <2>2, <2>3, ExceptSeq
  <2>5. \A i \in 1..Len(runners) : runners[i].stop \in BOOLEAN
    BY RunnerType
  <2> QED BY <2>2, <2>4, <2>5
<1> QED BY <1>1, <1>2

LEMMA TypeStep == TypeOK /\ [Next]_vars => TypeOK'
<1> SUFFICES ASSUME TypeOK, [Next]_vars PROVE TypeOK'
  OBVIOUS
<1> USE DEF TypeOK
<1>1. ASSUME NEW h \in Requests, Post(h) PROVE TypeOK'
  <2>1. ASSUME NEW raw \in Settings, BeginSave(h, raw) PROVE TypeOK'
    BY <2>1 DEF BeginSave, Where
  <2>2. Read(file) \in Settings
    BY ReadType
  <2>3. ASSUME NEW s \in Source PROVE [Read(file) EXCEPT !.source = s] \in Settings
    BY <2>2 DEF Settings
  <2>4. ASSUME NEW c \in Crop PROVE [Read(file) EXCEPT !.crop = c] \in Settings
    BY <2>2 DEF Settings
  <2> QED BY <1>1, <2>1, <2>3, <2>4 DEF Post, PostSource, PostCrop, PostImport
<1>2. ASSUME NEW h \in Requests, EndSave(h) PROVE TypeOK'
  BY <1>2 DEF EndSave, Where
<1>3. ASSUME NEW h \in Requests, Restart(h) PROVE TypeOK'
  <2>1. CASE AcquireLock(h)
    BY <2>1, SignalType DEF AcquireLock, Where
  <2>2. CASE JoinReturns(h) \/ JoinTimesOut(h)
    BY <2>2 DEF JoinReturns, JoinTimesOut, Where
  <2>3. CASE LoadSettings(h)
    BY <2>3, ReadType DEF LoadSettings, Where
  <2>4. CASE BuildRunner(h)
    <3>1. loaded[h] \in [cfg : Settings, ver : Nat]
      OBVIOUS
    <3>2. NewRunner(loaded[h].cfg, loaded[h].ver) \in Runner
      BY <3>1, NewRunnerType
    <3> QED BY <2>4, <3>2 DEF BuildRunner, Where
  <2>5. CASE BuildFails(h)
    BY <2>5 DEF BuildFails, Where
  <2>6. CASE SpawnThread(h)
    BY <2>6, BecomeType, ThreadStates DEF SpawnThread, Where
  <2>7. CASE NotifyAndAnswer(h)
    BY <2>7 DEF NotifyAndAnswer, Where
  <2> QED BY <1>3, <2>1, <2>2, <2>3, <2>4, <2>5, <2>6, <2>7 DEF Restart
<1>4. ASSUME NEW i \in DOMAIN runners, Capture(i) PROVE TypeOK'
  <2>1. ASSUME NEW s \in ThreadState, Become(i, s) PROVE TypeOK'
    BY <2>1, BecomeType DEF Become
  <2> QED BY <1>4, <2>1 DEF Capture, CheckStop, OpenCamera, OpenFails,
                            LeaveFrameLoop, CloseCamera, WakeUp, ThreadState
<1>5. CASE Boot
  <2> DEFINE new == NewRunner(Read(file), Len(persisted))
  <2>1. new \in Runner
    BY ReadType, NewRunnerType
  <2>2. [new EXCEPT !.state = "check"] \in Runner
    <3> HIDE DEF new
    <3> QED BY <2>1, RunnerUpdate, ThreadStates
  <2> QED BY <1>5, <2>2 DEF Boot
<1>6. CASE Shutdown
  BY <1>6, SignalType DEF Shutdown
<1>7. CASE Exit
  BY <1>7 DEF Exit, LoseMemory, Where
<1>8. CASE Crash
  BY <1>8, SettingsAssumption DEF Crash, LoseMemory, Where
<1>9. CASE Off \/ UNCHANGED vars
  BY <1>9 DEF Off, vars
<1> QED BY <1>1, <1>2, <1>3, <1>4, <1>5, <1>6, <1>7, <1>8, <1>9 DEF Next, Serve

\* Every variable keeps its type, whatever the requests, threads and crashes.
THEOREM TypeCorrect == Spec => []TypeOK
<1>1. Init => TypeOK
  BY InitTypeOK
<1>2. TypeOK /\ [Next]_vars => TypeOK'
  BY TypeStep
<1> QED BY <1>1, <1>2, PTL DEF Spec

---------------------------------------------------------------------------
(* The inductive invariant.  OneCapture is not inductive by itself: that   *)
(* the old runner was signalled before the new one takes its place needs   *)
(* Signalled, and that no other request gets in between needs LockInv.     *)
(* InOrder needs FileInv, which says what a load finds, and VersionInv,    *)
(* that what was loaded is not older than what runs.                       *)

LEMMA InitInv == Init => SupervisorInv
<1> SUFFICES ASSUME Init PROVE SupervisorInv
  OBVIOUS
<1>1. Len(persisted) = 1 /\ persisted[1] = file /\ file # Empty /\ runners = <<>>
  BY SettingsAssumption DEF Init
<1> QED BY <1>1, ActorAssumption
      DEF Init, SupervisorInv, LockInv, Signalled, OneCapture, FileInv, VersionInv, InOrder,
          DefaultsPass, Locked, Quiet, Read

(* The steps that change which runner there is, or end the process.        *)
Rebuild == (\E h \in Requests : BuildRunner(h)) \/ Boot \/ Exit \/ Crash

(* Every other step leaves the runners what they are, or stops them.       *)
LEMMA KeptRunners ==
    ASSUME TypeOK, [Next]_vars, ~Rebuild
    PROVE  /\ UNCHANGED <<runner, applied>>
           /\ Len(runners') = Len(runners) /\ DOMAIN runners' = 1..Len(runners)
           /\ \A i \in 1..Len(runners) :
                /\ runners'[i].cfg = runners[i].cfg /\ runners'[i].ver = runners[i].ver
                /\ runners[i].stop => runners'[i].stop
<1>a. runners \in Seq(Runner) /\ runner \in 0..Len(runners)
  BY DEF TypeOK
<1>b. \A i \in 1..Len(runners) : runners[i].stop \in BOOLEAN
  BY <1>a, RunnerType
<1> DEFINE Kept ==
      /\ Len(runners') = Len(runners) /\ DOMAIN runners' = 1..Len(runners)
      /\ \A i \in 1..Len(runners) :
           /\ runners'[i].cfg = runners[i].cfg /\ runners'[i].ver = runners[i].ver
           /\ runners[i].stop => runners'[i].stop
<1>1. ASSUME runners' = Signal(runners) PROVE Kept
  <2>1. /\ runners' \in Seq(Runner) /\ Len(runners') = Len(runners)
        /\ \A i \in 1..Len(runners) :
             /\ runners'[i].ver = runners[i].ver /\ runners'[i].cfg = runners[i].cfg
             /\ i = runner => runners'[i].stop
             /\ i # runner => runners'[i].stop = runners[i].stop
    BY <1>1, <1>a, SignalType
  <2> QED BY <2>1, <1>b
<1>2. ASSUME NEW i \in Nat, NEW s \in ThreadState,
             runners' = [runners EXCEPT ![i].state = s]
      PROVE  Kept
  <2>1. /\ runners' \in Seq(Runner) /\ Len(runners') = Len(runners)
        /\ \A j \in 1..Len(runners) :
             /\ runners'[j].stop = runners[j].stop /\ runners'[j].ver = runners[j].ver
             /\ runners'[j].cfg = runners[j].cfg
    BY <1>2, <1>a, BecomeType
  <2> QED BY <2>1, <1>b
<1>3. ASSUME UNCHANGED runners PROVE Kept
  BY <1>3, <1>a, <1>b
<1> HIDE DEF Kept
<1>4. ASSUME NEW h \in Requests, Post(h) \/ Serve(h)
      PROVE  Kept /\ UNCHANGED <<runner, applied>>
  <2>1. CASE AcquireLock(h)
    BY <2>1, <1>1 DEF AcquireLock
  <2>2. CASE SpawnThread(h)
    <3>1. runner \in Nat
      BY <1>a
    <3> QED BY <2>2, <3>1, <1>2, ThreadStates DEF SpawnThread
  <2>3. CASE \/ Post(h) \/ EndSave(h) \/ JoinReturns(h) \/ JoinTimesOut(h)
             \/ LoadSettings(h) \/ BuildFails(h) \/ NotifyAndAnswer(h)
    BY <2>3, <1>3 DEF Post, PostSource, PostCrop, PostImport, BeginSave, EndSave,
         JoinReturns, JoinTimesOut, LoadSettings, BuildFails, NotifyAndAnswer
  <2> QED BY <1>4, <2>1, <2>2, <2>3 DEF Serve, Restart, Rebuild
<1>5. ASSUME NEW i \in DOMAIN runners, Capture(i)
      PROVE  Kept /\ UNCHANGED <<runner, applied>>
  <2>1. i \in Nat
    BY <1>a
  <2> QED BY <2>1, <1>2, <1>5, ThreadStates
        DEF Capture, CheckStop, OpenCamera, OpenFails, LeaveFrameLoop, CloseCamera,
            WakeUp, Become
<1>6. ASSUME Shutdown PROVE Kept /\ UNCHANGED <<runner, applied>>
  BY <1>6, <1>1 DEF Shutdown
<1>7. ASSUME Off \/ UNCHANGED vars PROVE Kept /\ UNCHANGED <<runner, applied>>
  BY <1>7, <1>3 DEF Off, vars
<1>8. Kept /\ UNCHANGED <<runner, applied>>
  BY <1>4, <1>5, <1>6, <1>7 DEF Next, Rebuild
<1> QED BY <1>8 DEF Kept

(* What was saved once stays in the history.                               *)
LEMMA PersistedGrows ==
    ASSUME TypeOK, [Next]_vars
    PROVE  /\ Len(persisted') >= Len(persisted)
           /\ \A v \in 1..Len(persisted) : persisted'[v] = persisted[v]
<1>a. persisted \in Seq(Settings) /\ Len(persisted) \in Nat
  BY DEF TypeOK
<1>1. UNCHANGED persisted \/ \E s \in Settings : persisted' = Append(persisted, s)
  <2>1. ASSUME NEW h \in Requests, Post(h) \/ Restart(h) PROVE UNCHANGED persisted
    BY <2>1 DEF Post, PostSource, PostCrop, PostImport, BeginSave, Restart, AcquireLock,
         JoinReturns, JoinTimesOut, LoadSettings, BuildRunner, BuildFails, SpawnThread,
         NotifyAndAnswer
  <2>2. ASSUME NEW h \in Requests, EndSave(h)
        PROVE  draft[h] \in Settings /\ persisted' = Append(persisted, draft[h])
    BY <2>2 DEF EndSave, TypeOK
  <2>3. ASSUME NEW i \in DOMAIN runners, Capture(i) PROVE UNCHANGED persisted
    BY <2>3 DEF Capture, CheckStop, OpenCamera, OpenFails, LeaveFrameLoop, CloseCamera,
         WakeUp, Become
  <2>4. CASE Boot \/ Shutdown \/ Exit \/ Off \/ UNCHANGED vars
    BY <2>4 DEF Boot, Shutdown, Exit, Off, vars
  <2>5. CASE Crash
    BY <2>5, SettingsAssumption DEF Crash
  <2> QED BY <2>1, <2>2, <2>3, <2>4, <2>5 DEF Next, Serve
<1> QED BY <1>1, <1>a

(* The new runner that BuildRunner appends.                                *)
LEMMA BuiltRunner ==
    ASSUME TypeOK, NEW h \in Requests, BuildRunner(h)
    PROVE  /\ runner' = Len(runners) + 1 /\ Len(runners') = Len(runners) + 1
           /\ DOMAIN runners' = 1..(Len(runners) + 1)
           /\ runners'[Len(runners) + 1].cfg = loaded[h].cfg
           /\ runners'[Len(runners) + 1].ver = loaded[h].ver
           /\ runners'[Len(runners) + 1].stop = FALSE
           /\ runners'[Len(runners) + 1].state = "new"
           /\ \A i \in 1..Len(runners) : runners'[i] = runners[i]
<1> DEFINE new == NewRunner(loaded[h].cfg, loaded[h].ver)
<1>1. new \in Runner
  BY NewRunnerType DEF TypeOK
<1>0. /\ new.cfg = loaded[h].cfg /\ new.ver = loaded[h].ver
      /\ new.stop = FALSE /\ new.state = "new"
  BY DEF NewRunner
<1>2. runners' = Append(runners, new) /\ runner' = Len(runners) + 1
  BY DEF BuildRunner
<1>3. runners \in Seq(Runner) /\ Len(runners) \in Nat
  BY DEF TypeOK
<1> HIDE DEF new
<1>4. /\ runners'[Len(runners) + 1] = new /\ Len(runners') = Len(runners) + 1
      /\ \A i \in 1..Len(runners) : runners'[i] = runners[i]
      /\ DOMAIN runners' = 1..(Len(runners) + 1)
  BY <1>1, <1>2, <1>3
<1> QED BY <1>0, <1>2, <1>4

(* The one runner that a process starts with.                              *)
LEMMA FirstRunner ==
    ASSUME TypeOK, Boot
    PROVE  /\ runner' = 1 /\ Len(runners') = 1 /\ DOMAIN runners' = 1..1
           /\ runners'[1].cfg = Read(file) /\ runners'[1].ver = Len(persisted)
           /\ runners'[1].stop = FALSE /\ runners'[1].state = "check"
<1>1. runners' = <<[NewRunner(Read(file), Len(persisted)) EXCEPT !.state = "check"]>>
  BY DEF Boot
<1> QED BY <1>1 DEF NewRunner, Boot

(* The lock and the signal to the old runner.                              *)
LEMMA LockStep ==
    ASSUME TypeOK, SupervisorInv, [Next]_vars
    PROVE  LockInv' /\ Signalled' /\ OneCapture' /\ (runner = Len(runners))'
<1> DEFINE Goal == LockInv' /\ Signalled' /\ OneCapture' /\ (runner = Len(runners))'
<1> USE DEF LockInv, Signalled, OneCapture, Locked, Quiet
<1>a. /\ pc \in [Requests -> Where] /\ runners \in Seq(Runner) /\ Len(runners) \in Nat
      /\ runner = Len(runners) /\ DOMAIN runners = 1..Len(runners)
      /\ life \in {"down", "up", "stopping"}
  BY DEF TypeOK, SupervisorInv, VersionInv
<1>b. LockInv /\ Signalled /\ OneCapture
  BY DEF SupervisorInv
<1>c. ASSUME ~Rebuild
      PROVE  OneCapture' /\ (runner = Len(runners))'
  <2>1. /\ UNCHANGED runner /\ Len(runners') = Len(runners)
        /\ DOMAIN runners' = 1..Len(runners)
    BY <1>c, KeptRunners
  <2>2. \A i \in 1..Len(runners) : runners[i].stop => runners'[i].stop
    BY <1>c, KeptRunners
  <2>3. \A i \in 1..Len(runners) : i # runner => runners[i].stop
    BY <1>a, <1>b
  <2>4. OneCapture'
    BY <2>1, <2>2, <2>3
  <2> QED BY <2>1, <2>4, <1>a
<1>1. ASSUME NEW h \in Requests, Post(h) PROVE Goal
  <2>1. PICK raw : BeginSave(h, raw)
    BY <1>1 DEF Post, PostSource, PostCrop, PostImport
  <2>2. LockInv' /\ Signalled'
    BY <2>1, <1>a, <1>b DEF BeginSave
  <2>3. ~Rebuild
    BY <2>1, <1>a DEF BeginSave, Rebuild, BuildRunner, Boot, Exit, Crash, LoseMemory
  <2> QED BY <2>2, <2>3, <1>c
<1>2. ASSUME NEW h \in Requests, EndSave(h) PROVE Goal
  BY <1>2, <1>a, <1>b DEF EndSave
<1>3. ASSUME NEW h \in Requests, Restart(h) PROVE Goal
  <2>1. CASE AcquireLock(h)
    <3>1. /\ runners' = Signal(runners) /\ lock = Nobody /\ lock' = h
          /\ UNCHANGED <<runner, life>> /\ pc[h] = "queued"
          /\ pc' = [pc EXCEPT ![h] = IF ToJoin THEN "joining" ELSE "loading"]
      BY <2>1 DEF AcquireLock, LockFree
    <3>2. /\ DOMAIN runners' = 1..Len(runners) /\ Len(runners') = Len(runners)
          /\ \A i \in 1..Len(runners) :
               /\ i = runner => runners'[i].stop
               /\ i # runner => runners'[i].stop = runners[i].stop
      BY <3>1, <1>a, SignalType
    <3>3. Nobody \notin Requests /\ Nobody # Lifespan
      BY ActorAssumption
    <3>4. LockInv'
      BY <3>1, <3>3, <1>a, <1>b
    <3>5. Signalled' /\ OneCapture'
      BY <3>1, <3>2, <3>3, <1>a, <1>b
    <3> QED BY <3>1, <3>2, <3>4, <3>5, <1>a
  <2>2. CASE JoinReturns(h) \/ JoinTimesOut(h)
    BY <2>2, <1>a, <1>b DEF JoinReturns, JoinTimesOut
  <2>3. CASE LoadSettings(h)
    BY <2>3, <1>a, <1>b DEF LoadSettings
  <2>4. CASE BuildRunner(h)
    <3>1. /\ pc' = [pc EXCEPT ![h] = "spawning"] /\ pc[h] = "building"
          /\ UNCHANGED <<lock, life>>
      BY <2>4 DEF BuildRunner
    <3>2. /\ runner' = Len(runners) + 1 /\ Len(runners') = Len(runners) + 1
          /\ DOMAIN runners' = 1..(Len(runners) + 1)
          /\ \A i \in 1..Len(runners) : runners'[i] = runners[i]
      BY <2>4, BuiltRunner
    <3>3. \A g \in Requests : pc[g] \in Locked => g = h
      BY <3>1, <1>b
    <3>4. LockInv' /\ Signalled'
      BY <3>1, <3>2, <3>3, <1>a, <1>b
    <3>5. \A i \in 1..Len(runners) : runners[i].stop
      BY <3>1, <1>a, <1>b
    <3>6. OneCapture'
      BY <3>2, <3>5, <1>a
    <3> QED BY <3>2, <3>4, <3>6
  <2>5. CASE BuildFails(h)
    <3>1. /\ pc' = [pc EXCEPT ![h] = "idle"] /\ pc[h] = "building" /\ lock' = Nobody
          /\ UNCHANGED <<runner, runners, life>>
      BY <2>5 DEF BuildFails
    <3>2. \A g \in Requests : pc'[g] \notin Locked
      BY <3>1, <1>a, <1>b
    <3>3. LockInv'
      BY <3>1, <3>2, <1>a, <1>b, ActorAssumption
    <3> QED BY <3>1, <3>2, <3>3, <1>a, <1>b
  <2>6. CASE SpawnThread(h)
    <3>1. /\ pc' = [pc EXCEPT ![h] = "notifying"] /\ pc[h] = "spawning" /\ lock' = Nobody
          /\ UNCHANGED <<runner, life>>
      BY <2>6 DEF SpawnThread
    <3>2. \A g \in Requests : pc'[g] \notin Locked
      BY <3>1, <1>a, <1>b
    <3>3. LockInv'
      BY <3>1, <3>2, <1>a, <1>b, ActorAssumption
    <3>4. ~Rebuild
      BY <3>1, <1>a, <1>b DEF Rebuild, BuildRunner, Boot, Exit, Crash, LoseMemory
    <3>5. Signalled'
      BY <3>2
    <3> QED BY <3>3, <3>4, <3>5, <1>c
  <2>7. CASE NotifyAndAnswer(h)
    BY <2>7, <1>a, <1>b DEF NotifyAndAnswer
  <2> QED BY <1>3, <2>1, <2>2, <2>3, <2>4, <2>5, <2>6, <2>7 DEF Restart
<1>4. ASSUME NEW i \in DOMAIN runners, Capture(i) PROVE Goal
  <2>1. PICK s \in ThreadState : Become(i, s)
    BY <1>4, ThreadStates DEF Capture, CheckStop, OpenCamera, OpenFails, LeaveFrameLoop,
         CloseCamera, WakeUp
  <2>2. /\ UNCHANGED <<pc, lock, runner, life>>
        /\ DOMAIN runners' = 1..Len(runners) /\ Len(runners') = Len(runners)
        /\ \A j \in 1..Len(runners) : runners'[j].stop = runners[j].stop
    BY <2>1, <1>a, BecomeType, TypeStep DEF Become, TypeOK
  <2>3. LockInv'
    BY <2>2, <1>b
  <2> QED BY <2>2, <2>3, <1>a, <1>b
<1>5. CASE Boot
  <2>1. /\ runner' = 1 /\ Len(runners') = 1 /\ DOMAIN runners' = 1..1
    BY <1>5, FirstRunner
  <2>2. UNCHANGED <<pc, lock>> /\ life' = "up" /\ \A h \in Requests : pc[h] = "idle"
    BY <1>5, <1>b DEF Boot
  <2> QED BY <2>1, <2>2
<1>6. CASE Shutdown
  <2>1. /\ UNCHANGED <<pc, runner>> /\ runners' = Signal(runners) /\ life' = "stopping"
        /\ lock' = Lifespan /\ \A h \in Requests : pc[h] = "idle"
    BY <1>6 DEF Shutdown
  <2>2. /\ DOMAIN runners' = 1..Len(runners) /\ Len(runners') = Len(runners)
        /\ \A i \in 1..Len(runners) : i # runner => runners'[i].stop = runners[i].stop
    BY <2>1, <1>a, SignalType
  <2> QED BY <2>1, <2>2, <1>a, <1>b
<1>7. CASE Exit \/ Crash
  BY <1>7 DEF Exit, Crash, LoseMemory
<1>8. CASE Off \/ UNCHANGED vars
  BY <1>8, <1>a, <1>b DEF Off, vars
<1> QED BY <1>1, <1>2, <1>3, <1>4, <1>5, <1>6, <1>7, <1>8 DEF Next, Serve

(* What the file holds, and who is writing it.                             *)
LEMMA FileStep ==
    ASSUME TypeOK, SupervisorInv, [Next]_vars
    PROVE  FileInv'
<1> USE DEF FileInv
<1>a. /\ pc \in [Requests -> Where] /\ persisted \in Seq(Settings) /\ FileInv
      /\ draft \in [Requests -> Settings]
      /\ life \in {"down", "up", "stopping"}
  BY DEF TypeOK, SupervisorInv
<1>b. Nobody \notin Requests /\ Empty \notin Settings /\ Defaults \in Settings
  BY ActorAssumption, SettingsAssumption
<1>c. life # "up" => \A h \in Requests : pc[h] = "idle"
  BY DEF SupervisorInv, LockInv, Quiet
<1>1. ASSUME NEW h \in Requests, Post(h) PROVE FileInv'
  <2>1. PICK raw : BeginSave(h, raw)
    BY <1>1 DEF Post, PostSource, PostCrop, PostImport
  <2> QED BY <2>1, <1>a, <1>b DEF BeginSave
<1>2. ASSUME NEW h \in Requests, EndSave(h) PROVE FileInv'
  <2>1. /\ pc[h] = "writing" /\ pc' = [pc EXCEPT ![h] = "queued"] /\ loop' = Nobody
        /\ persisted' = Append(persisted, draft[h]) /\ file' = draft[h]
        /\ draft[h] \in Settings
    BY <1>2, <1>a DEF EndSave
  <2>2. persisted' # <<>> /\ persisted'[Len(persisted')] = draft[h]
    BY <2>1, <1>a
  <2>3. Read(file)' = draft[h]
    BY <2>1, <1>b DEF Read
  <2>4. \A g \in Requests : pc'[g] # "writing"
    BY <2>1, <1>a
  <2> QED BY <2>1, <2>2, <2>3, <2>4
<1>3. ASSUME NEW h \in Requests, Restart(h) PROVE FileInv'
  <2>1. /\ UNCHANGED <<file, persisted, loop>> /\ pc[h] # "writing"
        /\ \E place \in Where \ {"writing"} : pc' = [pc EXCEPT ![h] = place]
    BY <1>3 DEF Restart, AcquireLock, JoinReturns, JoinTimesOut, LoadSettings, BuildRunner,
         BuildFails, SpawnThread, NotifyAndAnswer, Where
  <2> QED BY <2>1, <1>a DEF Read
<1>4. ASSUME UNCHANGED <<file, persisted, loop, pc>> PROVE FileInv'
  BY <1>4, <1>a DEF Read
<1>5. ASSUME NEW i \in DOMAIN runners, Capture(i) PROVE FileInv'
  BY <1>4, <1>5 DEF Capture, CheckStop, OpenCamera, OpenFails, LeaveFrameLoop, CloseCamera,
       WakeUp, Become
<1>6. CASE Boot \/ Shutdown \/ Off \/ UNCHANGED vars
  BY <1>4, <1>6 DEF Boot, Shutdown, Off, vars
<1>7. CASE Exit
  <2>1. loop = Nobody
    BY <1>7, <1>a, <1>c DEF Exit
  <2> QED BY <1>7, <2>1, <1>a DEF Exit, LoseMemory, Read
<1>8. CASE Crash
  <2>1. CASE loop = Nobody
    BY <1>8, <2>1, <1>a DEF Crash, LoseMemory, Read
  <2>2. CASE loop # Nobody
    <3>1. file = Empty /\ persisted' = Append(persisted, Defaults) /\ file' = file
      BY <1>8, <2>2, <1>a DEF Crash
    <3>2. persisted' # <<>> /\ persisted'[Len(persisted')] = Defaults
      BY <3>1, <1>a, <1>b
    <3> QED BY <1>8, <3>1, <3>2 DEF Crash, LoseMemory, Read
  <2> QED BY <2>1, <2>2
<1> QED BY <1>1, <1>2, <1>3, <1>5, <1>6, <1>7, <1>8 DEF Next, Serve

(* What a request in "building" has loaded, it has loaded in this step or  *)
(* before it.                                                              *)
LEMMA Loads ==
    ASSUME TypeOK, [Next]_vars, NEW g \in Requests, pc'[g] = "building"
    PROVE  \/ pc[g] = "building" /\ loaded'[g] = loaded[g] /\ UNCHANGED persisted
           \/ pc[g] = "building" /\ loaded'[g] = loaded[g] /\ ~Rebuild
           \/ LoadSettings(g)
<1>a. pc \in [Requests -> Where] /\ loaded \in [Requests -> [cfg : Settings, ver : Nat]]
  BY DEF TypeOK
<1> DEFINE Goal == \/ pc[g] = "building" /\ loaded'[g] = loaded[g] /\ UNCHANGED persisted
                   \/ pc[g] = "building" /\ loaded'[g] = loaded[g] /\ ~Rebuild
                   \/ LoadSettings(g)
<1>1. ASSUME NEW h \in Requests, Post(h) PROVE Goal
  <2>1. PICK raw : BeginSave(h, raw)
    BY <1>1 DEF Post, PostSource, PostCrop, PostImport
  <2> QED BY <2>1, <1>a DEF BeginSave
<1>2. ASSUME NEW h \in Requests, EndSave(h) PROVE Goal
  <2>1. /\ pc[h] = "writing" /\ pc' = [pc EXCEPT ![h] = "queued"] /\ UNCHANGED loaded
        /\ file' = draft[h] /\ UNCHANGED <<runner, runners, life>> /\ loop' = Nobody
    BY <1>2 DEF EndSave
  <2>2. pc[g] = "building" /\ loaded'[g] = loaded[g]
    BY <2>1, <1>a
  <2>3. ~Rebuild
    <3>1. ~\E k \in Requests : BuildRunner(k)
      BY <2>1, <1>a DEF BuildRunner
    <3>2. ~Boot /\ ~Exit /\ ~Crash
      BY <2>1, <2>2, <1>a DEF Boot, Exit, Crash, LoseMemory
    <3> QED BY <3>1, <3>2 DEF Rebuild
  <2> QED BY <2>2, <2>3
<1>3. ASSUME NEW h \in Requests, Restart(h) PROVE Goal
  <2>1. CASE LoadSettings(h)
    BY <2>1, <1>a DEF LoadSettings
  <2>2. CASE \/ AcquireLock(h) \/ JoinReturns(h) \/ JoinTimesOut(h) \/ BuildRunner(h)
             \/ BuildFails(h) \/ SpawnThread(h) \/ NotifyAndAnswer(h)
    BY <2>2, <1>a DEF AcquireLock, JoinReturns, JoinTimesOut, BuildRunner, BuildFails,
         SpawnThread, NotifyAndAnswer
  <2> QED BY <1>3, <2>1, <2>2 DEF Restart
<1>4. ASSUME NEW i \in DOMAIN runners, Capture(i) PROVE Goal
  BY <1>4 DEF Capture, CheckStop, OpenCamera, OpenFails, LeaveFrameLoop, CloseCamera,
       WakeUp, Become
<1>5. CASE Boot \/ Shutdown \/ Off \/ UNCHANGED vars
  BY <1>5 DEF Boot, Shutdown, Off, vars
<1>6. CASE Exit \/ Crash
  BY <1>6 DEF Exit, Crash, LoseMemory
<1> QED BY <1>1, <1>2, <1>3, <1>4, <1>5, <1>6 DEF Next, Serve

LEMMA VersionStep ==
    ASSUME TypeOK, SupervisorInv, [Next]_vars
    PROVE  VersionInv' /\ InOrder'
<1> USE DEF VersionInv, InOrder, BuiltFrom
<1>a. /\ pc \in [Requests -> Where] /\ loaded \in [Requests -> [cfg : Settings, ver : Nat]]
      /\ Len(persisted) \in Nat /\ persisted \in Seq(Settings) /\ applied \in Nat
      /\ runners \in Seq(Runner) /\ Len(runners) \in Nat /\ DOMAIN runners = 1..Len(runners)
  BY DEF TypeOK
<1>b. VersionInv /\ InOrder /\ FileInv /\ LockInv
  BY DEF SupervisorInv
<1>c. \A i \in 1..Len(runners) : runners[i].ver \in Nat
  BY <1>a, RunnerType
<1>d. Len(persisted) >= 1
  BY <1>a, <1>b DEF FileInv
<1>e. (runner = Len(runners))'
  BY LockStep
<1>f. /\ Len(persisted') >= Len(persisted) /\ Len(persisted') \in Nat
      /\ \A v \in 1..Len(persisted) : persisted'[v] = persisted[v]
  <2>1. persisted' \in Seq(Settings)
    BY TypeStep DEF TypeOK
  <2> QED BY <2>1, PersistedGrows
<1>g. \A i \in 1..Len(runners) :
        /\ runners[i].ver <= applied
        /\ runners[i].ver # 0 => runners[i].cfg = persisted'[runners[i].ver]
        /\ runners[i].ver = 0 => runners[i].cfg = Defaults
  <2> SUFFICES ASSUME NEW i \in 1..Len(runners)
               PROVE  /\ runners[i].ver <= applied
                      /\ runners[i].ver # 0 => runners[i].cfg = persisted'[runners[i].ver]
                      /\ runners[i].ver = 0 => runners[i].cfg = Defaults
    OBVIOUS
  <2>1. runners[i].ver <= applied /\ applied <= Len(persisted) /\ runners[i].ver \in Nat
    BY <1>a, <1>b, <1>c
  <2>2. runners[i].ver # 0 => runners[i].ver \in 1..Len(persisted)
    BY <2>1, <1>a
  <2> QED BY <2>1, <2>2, <1>a, <1>b, <1>f
<1>1. CASE ~Rebuild
  <2>1. /\ UNCHANGED <<runner, applied>>
        /\ DOMAIN runners' = 1..Len(runners)
        /\ \A i \in 1..Len(runners) : runners'[i].cfg = runners[i].cfg
                                      /\ runners'[i].ver = runners[i].ver
    BY <1>1, KeptRunners
  <2>2. InOrder'
    BY <2>1, <1>a, <1>b, <1>g
  <2>3. ASSUME NEW g \in Requests, pc'[g] = "building"
        PROVE  /\ IF loaded'[g].ver = 0 THEN loaded'[g].cfg = Defaults
                                         ELSE loaded'[g].cfg = persisted'[loaded'[g].ver]
               /\ loaded'[g].ver <= Len(persisted')
               /\ loaded'[g].ver # 0 => applied <= loaded'[g].ver
    <3>1. CASE pc[g] = "building" /\ loaded'[g] = loaded[g]
      <4>1. /\ loaded[g].ver \in Nat /\ loaded[g].ver <= Len(persisted)
            /\ loaded[g].ver # 0 => applied <= loaded[g].ver
            /\ IF loaded[g].ver = 0 THEN loaded[g].cfg = Defaults
                                    ELSE loaded[g].cfg = persisted[loaded[g].ver]
        BY <3>1, <1>a, <1>b
      <4>2. loaded[g].ver # 0 => loaded[g].ver \in 1..Len(persisted)
        BY <4>1, <1>a
      <4> QED BY <3>1, <4>1, <4>2, <1>a, <1>f
    <3>2. CASE LoadSettings(g)
      <4>1. /\ loaded'[g].cfg = Read(file) /\ UNCHANGED persisted
            /\ loaded'[g].ver = IF loop = Nobody THEN Len(persisted) ELSE 0
        BY <3>2, <1>a DEF LoadSettings
      <4>2. CASE loop = Nobody
        BY <4>1, <4>2, <1>a, <1>b, <1>d DEF FileInv
      <4>3. CASE loop # Nobody
        BY <4>1, <4>3, <1>a, <1>b DEF FileInv, Read
      <4> QED BY <4>2, <4>3
    <3> QED BY <2>3, <3>1, <3>2, Loads
  <2>4. \A i \in DOMAIN runners' : runners'[i].ver <= applied'
    BY <2>1, <1>g
  <2>5. applied' <= Len(persisted')
    BY <2>1, <1>a, <1>b, <1>f
  <2>6. \A g \in Requests : pc'[g] = "building" =>
          /\ BuiltFrom(loaded[g])' /\ loaded'[g].ver <= Len(persisted')
          /\ loaded'[g].ver # 0 => applied' <= loaded'[g].ver
    BY <2>1, <2>3
  <2>7. VersionInv'
    BY <2>4, <2>5, <2>6, <1>e
  <2> QED BY <2>2, <2>7
<1>2. ASSUME NEW h \in Requests, BuildRunner(h) PROVE VersionInv' /\ InOrder'
  <2>1. /\ pc[h] = "building" /\ pc' = [pc EXCEPT ![h] = "spawning"]
        /\ UNCHANGED <<loaded, persisted>>
        /\ applied' = IF loaded[h].ver = 0 THEN applied ELSE loaded[h].ver
    BY <1>2 DEF BuildRunner
  <2>2. /\ DOMAIN runners' = 1..(Len(runners) + 1)
        /\ runners'[Len(runners) + 1].cfg = loaded[h].cfg
        /\ runners'[Len(runners) + 1].ver = loaded[h].ver
        /\ \A i \in 1..Len(runners) : runners'[i] = runners[i]
    BY <1>2, BuiltRunner
  <2>3. \A g \in Requests : pc'[g] # "building"
    BY <2>1, <1>a, <1>b DEF LockInv, Locked
  <2>4. /\ loaded[h].ver \in Nat /\ loaded[h].ver <= Len(persisted)
        /\ loaded[h].ver # 0 => applied <= loaded[h].ver
        /\ IF loaded[h].ver = 0 THEN loaded[h].cfg = Defaults
                                ELSE loaded[h].cfg = persisted[loaded[h].ver]
    BY <2>1, <1>a, <1>b
  <2>5. applied <= applied' /\ loaded[h].ver <= applied' /\ applied' <= Len(persisted)
    BY <2>1, <2>4, <1>a, <1>b
  <2>6. VersionInv'
    <3>1. \A i \in DOMAIN runners' : runners'[i].ver <= applied'
      <4> SUFFICES ASSUME NEW i \in DOMAIN runners' PROVE runners'[i].ver <= applied'
        OBVIOUS
      <4>1. CASE i = Len(runners) + 1
        BY <4>1, <2>2, <2>5
      <4>2. CASE i # Len(runners) + 1
        <5>1. i \in 1..Len(runners)
          BY <4>2, <2>2, <1>a
        <5>2. runners'[i].ver = runners[i].ver /\ runners[i].ver <= applied
          BY <5>1, <2>2, <1>g
        <5>3. runners[i].ver \in Nat /\ applied \in Nat /\ applied' \in Nat
          BY <5>1, <1>a, <1>c, <2>1, <2>4
        <5> QED BY <5>2, <5>3, <2>5
      <4> QED BY <4>1, <4>2
    <3> QED BY <2>1, <2>3, <2>5, <3>1, <1>e
  <2>7. \A i \in DOMAIN runners' : BuiltFrom(runners[i])'
    <3> SUFFICES ASSUME NEW i \in DOMAIN runners' PROVE BuiltFrom(runners[i])'
      OBVIOUS
    <3>1. CASE i = Len(runners) + 1
      BY <3>1, <2>1, <2>2, <2>4
    <3>2. CASE i # Len(runners) + 1
      <4>1. i \in 1..Len(runners)
        BY <3>2, <2>2, <1>a
      <4> QED BY <4>1, <2>1, <2>2, <1>g
    <3> QED BY <3>1, <3>2
  <2>8. \A i, j \in DOMAIN runners' :
          (i < j /\ runners'[j].ver # 0) => runners'[i].ver <= runners'[j].ver
    <3> SUFFICES ASSUME NEW i \in DOMAIN runners', NEW j \in DOMAIN runners',
                        i < j, runners'[j].ver # 0
                 PROVE  runners'[i].ver <= runners'[j].ver
      OBVIOUS
    <3>1. i \in 1..Len(runners) /\ runners'[i] = runners[i]
      BY <2>2, <1>a
    <3>2. CASE j = Len(runners) + 1
      <4>1. runners'[j].ver = loaded[h].ver /\ applied <= loaded[h].ver
        BY <3>2, <2>2, <2>4
      <4>2. runners[i].ver <= applied /\ runners[i].ver \in Nat
        BY <3>1, <1>c, <1>g
      <4> QED BY <3>1, <4>1, <4>2, <2>4, <1>a
    <3>3. CASE j # Len(runners) + 1
      <4>1. j \in 1..Len(runners)
        BY <3>3, <2>2, <1>a
      <4> QED BY <3>1, <4>1, <2>2, <1>a, <1>b
    <3> QED BY <3>2, <3>3
  <2> QED BY <2>6, <2>7, <2>8
<1>3. CASE Boot
  <2>1. /\ DOMAIN runners' = 1..1 /\ runners'[1].cfg = Read(file)
        /\ runners'[1].ver = Len(persisted)
    BY <1>3, FirstRunner
  <2>2. /\ UNCHANGED <<pc, persisted>> /\ applied' = Len(persisted)
        /\ \A h \in Requests : pc[h] = "idle"
    BY <1>3, <1>b DEF Boot, LockInv, Quiet
  <2>3. Read(file) = persisted[Len(persisted)]
    BY <2>2, <1>b DEF FileInv
  <2> QED BY <2>1, <2>2, <2>3, <1>a, <1>d, <1>e
<1>4. CASE Exit \/ Crash
  <2>1. runners' = <<>> /\ applied' = 0 /\ \A h \in Requests : pc'[h] = "idle"
    BY <1>4 DEF Exit, Crash, LoseMemory
  <2> QED BY <2>1, <1>e, <1>f
<1> QED BY <1>1, <1>2, <1>3, <1>4 DEF Rebuild

(* A pending request goes on pending until its own restart has the lock.   *)
LEMMA PendingStep ==
    ASSUME TypeOK, [Next]_vars, NEW k \in Requests, pc[k] \in {"writing", "queued"}
    PROVE  pc'[k] \in {"writing", "queued"} \/ AcquireLock(k) \/ Exit \/ Crash
<1>a. pc \in [Requests -> Where]
  BY DEF TypeOK
<1> DEFINE Goal ==
      pc'[k] \in {"writing", "queued"} \/ AcquireLock(k) \/ Exit \/ Crash
<1>1. ASSUME NEW h \in Requests, Post(h) \/ EndSave(h) PROVE Goal
  BY <1>1, <1>a DEF Post, PostSource, PostCrop, PostImport, BeginSave, EndSave
<1>2. ASSUME NEW h \in Requests, Restart(h) PROVE Goal
  BY <1>2, <1>a DEF Restart, AcquireLock, JoinReturns, JoinTimesOut, LoadSettings,
       BuildRunner, BuildFails, SpawnThread, NotifyAndAnswer
<1>3. ASSUME NEW i \in DOMAIN runners, Capture(i) PROVE Goal
  BY <1>3 DEF Capture, CheckStop, OpenCamera, OpenFails, LeaveFrameLoop, CloseCamera,
       WakeUp, Become
<1>4. CASE Boot \/ Shutdown \/ Off \/ UNCHANGED vars
  BY <1>4 DEF Boot, Shutdown, Off, vars
<1> QED BY <1>1, <1>2, <1>3, <1>4 DEF Next, Serve

(* Who builds or runs the defaults of a half-written file will be stopped. *)
LEMMA PassStep ==
    ASSUME TypeOK, SupervisorInv, [Next]_vars
    PROVE  DefaultsPass'
<1> USE DEF DefaultsPass, Pending
<1>a. /\ pc \in [Requests -> Where] /\ loaded \in [Requests -> [cfg : Settings, ver : Nat]]
      /\ runners \in Seq(Runner) /\ Len(runners) \in Nat /\ DOMAIN runners = 1..Len(runners)
      /\ runner \in 0..Len(runners)
  BY DEF TypeOK
<1>b. DefaultsPass /\ LockInv /\ FileInv
  BY DEF SupervisorInv
<1>c. Nobody \notin Requests
  BY ActorAssumption
<1>1. CASE ~Rebuild
  <2>1. /\ runner' = runner
        /\ \A i \in 1..Len(runners) : runners'[i].ver = runners[i].ver
        /\ \A i \in 1..Len(runners) : runners[i].stop => runners'[i].stop
    BY <1>1, KeptRunners
  <2>2. ASSUME NEW g \in Requests, pc'[g] = "building", loaded'[g].ver = 0
        PROVE  Pending'
    <3>1. CASE pc[g] = "building" /\ loaded'[g] = loaded[g]
      <4>1. PICK k \in Requests : pc[k] \in {"writing", "queued"}
        BY <2>2, <3>1, <1>b
      <4>2. ~AcquireLock(k)
        BY <3>1, <1>b, <1>c DEF LockInv, Locked, AcquireLock, LockFree
      <4>3. pc'[k] \in {"writing", "queued"}
        BY <4>1, <4>2, <1>1, PendingStep DEF Rebuild
      <4> QED BY <4>3
    <3>2. CASE LoadSettings(g)
      <4>1. /\ pc[g] = "loading" /\ pc' = [pc EXCEPT ![g] = "building"]
            /\ loaded'[g].ver = IF loop = Nobody THEN Len(persisted) ELSE 0
        BY <3>2, <1>a DEF LoadSettings
      <4>2. Len(persisted) # 0
        BY <1>b DEF FileInv, TypeOK
      <4>3. loop \in Requests /\ pc[loop] = "writing"
        BY <2>2, <4>1, <4>2, <1>b DEF FileInv
      <4>4. pc'[loop] = "writing"
        BY <4>1, <4>3, <1>a
      <4> QED BY <4>3, <4>4
    <3> QED BY <2>2, <3>1, <3>2, Loads
  <2>3. ASSUME runner # 0, runners'[runner].ver = 0
        PROVE  runners'[runner].stop \/ Pending'
    <3>0. runner \in 1..Len(runners)
      BY <2>3, <1>a
    <3>1. runner \in 1..Len(runners) /\ runners[runner].ver = 0
      BY <3>0, <2>1, <2>3
    <3>2. CASE runners[runner].stop
      <4>1. runners[runner].stop => runners'[runner].stop
        BY <3>0, <2>1
      <4> QED BY <4>1, <3>2
    <3>3. CASE Pending
      <4>1. PICK k \in Requests : pc[k] \in {"writing", "queued"}
        BY <3>3
      <4>2. CASE AcquireLock(k)
        BY <4>2, <3>1, <1>a, SignalType DEF AcquireLock
      <4>3. CASE pc'[k] \in {"writing", "queued"}
        BY <4>3
      <4> QED BY <4>1, <4>2, <4>3, <1>1, PendingStep DEF Rebuild
    <3> QED BY <2>3, <3>1, <3>2, <3>3, <1>b
  <2> QED BY <2>1, <2>2, <2>3
<1>2. ASSUME NEW h \in Requests, BuildRunner(h) PROVE DefaultsPass'
  <2>1. /\ pc[h] = "building" /\ pc' = [pc EXCEPT ![h] = "spawning"]
    BY <1>2 DEF BuildRunner
  <2>2. runner' = Len(runners) + 1 /\ runners'[Len(runners) + 1].ver = loaded[h].ver
    BY <1>2, BuiltRunner
  <2>3. \A g \in Requests : pc'[g] # "building"
    BY <2>1, <1>a, <1>b DEF LockInv, Locked
  <2>4. Pending => Pending'
    BY <2>1, <1>a
  <2> QED BY <2>1, <2>2, <2>3, <2>4, <1>b
<1>3. CASE Boot
  <2>1. runner' = 1 /\ runners'[1].ver = Len(persisted)
    BY <1>3, FirstRunner
  <2>2. UNCHANGED pc /\ \A h \in Requests : pc[h] = "idle"
    BY <1>3, <1>b DEF Boot, LockInv, Quiet
  <2>3. Len(persisted) # 0
    BY <1>b DEF FileInv, TypeOK
  <2> QED BY <2>1, <2>2, <2>3
<1>4. CASE Exit \/ Crash
  BY <1>4 DEF Exit, Crash, LoseMemory
<1> QED BY <1>1, <1>2, <1>3, <1>4 DEF Rebuild

LEMMA InvStep == TypeOK /\ SupervisorInv /\ [Next]_vars => SupervisorInv'
<1> SUFFICES ASSUME TypeOK, SupervisorInv, [Next]_vars PROVE SupervisorInv'
  OBVIOUS
<1> QED BY LockStep, FileStep, VersionStep, PassStep DEF SupervisorInv

(* The invariant that carries the theorems below.                          *)
LEMMA Invariant == Spec => [](TypeOK /\ SupervisorInv)
<1>1. Init => TypeOK /\ SupervisorInv
  BY InitTypeOK, InitInv
<1>2. TypeOK /\ SupervisorInv /\ [Next]_vars => (TypeOK /\ SupervisorInv)'
  BY TypeStep, InvStep
<1> QED BY <1>1, <1>2, PTL DEF Spec

\* However saves, restarts, failed builds, joins that time out and crashes
\* interleave, every capture thread but the current one has been told to stop.
THEOREM OneCaptureHolds == Spec => []OneCapture
<1>1. SupervisorInv => OneCapture
  BY DEF SupervisorInv
<1> QED BY <1>1, Invariant, PTL

\* Every runner has the content of a version of the file, and no runner that of
\* an older one than a runner before it; only a load of a file that was being
\* written gives the defaults instead.
THEOREM InOrderHolds == Spec => []InOrder
<1>1. SupervisorInv => InOrder
  BY DEF SupervisorInv
<1> QED BY <1>1, Invariant, PTL

---------------------------------------------------------------------------
(* The refinement: BeginSave begins, EndSave saves, whoever signals stops, *)
(* BuildRunner and Boot apply, the end of the process halts, and every     *)
(* other step changes nothing of the four.                                 *)

Mapped == <<persisted, Pending, Running, applied>>

LEMMA PromiseInit == Init => Promise!Init
<1> SUFFICES ASSUME Init PROVE Promise!Init
  OBVIOUS
<1>1. Running = Empty /\ applied = 0 /\ file \in Settings /\ persisted = <<file>>
  BY DEF Init, Running
<1>2. ~Pending
  BY DEF Init, Pending
<1> QED BY <1>1, <1>2 DEF Promise!Init

(* A step that leaves the current runner's settings and its flag alone.    *)
LEMMA RunningStays ==
    ASSUME TypeOK, UNCHANGED runner,
           \A i \in 1..Len(runners) :
              runners'[i].cfg = runners[i].cfg /\ runners'[i].stop = runners[i].stop
    PROVE  UNCHANGED Running
<1>1. runner \in 0..Len(runners)
  BY DEF TypeOK
<1> QED BY <1>1 DEF Running

(* A request that moves on, neither from being pending nor to it.          *)
LEMMA PendingStays ==
    ASSUME TypeOK, NEW h \in Requests, NEW place, pc' = [pc EXCEPT ![h] = place],
           (pc[h] \in {"writing", "queued"}) <=> (place \in {"writing", "queued"})
    PROVE  Pending' = Pending
<1>1. pc \in [Requests -> Where]
  BY DEF TypeOK
<1>2. \A g \in Requests : pc'[g] \in {"writing", "queued"} <=> pc[g] \in {"writing", "queued"}
  BY <1>1
<1> QED BY <1>2 DEF Pending

LEMMA SignalStops ==
    ASSUME TypeOK, runners' = Signal(runners), UNCHANGED runner
    PROVE  Running' = Empty
<1>1. runners \in Seq(Runner) /\ runner \in 0..Len(runners)
  BY DEF TypeOK
<1>2. runner # 0 => runners'[runner].stop
  BY <1>1, SignalType
<1> QED BY <1>2 DEF Running

LEMMA PromiseStep ==
    TypeOK /\ SupervisorInv /\ [Next]_vars => [Promise!Next]_Mapped
<1> SUFFICES ASSUME TypeOK, SupervisorInv, [Next]_vars PROVE [Promise!Next]_Mapped
  OBVIOUS
<1> USE DEF Mapped
<1>a. /\ pc \in [Requests -> Where] /\ draft \in [Requests -> Settings]
      /\ loaded \in [Requests -> [cfg : Settings, ver : Nat]]
      /\ runners \in Seq(Runner) /\ Len(runners) \in Nat /\ DOMAIN runners = 1..Len(runners)
      /\ runner \in 0..Len(runners) /\ applied \in Nat /\ Len(persisted) \in Nat
      /\ persisted \in Seq(Settings)
  BY DEF TypeOK
<1>b. LockInv /\ Signalled /\ FileInv /\ VersionInv /\ DefaultsPass
  BY DEF SupervisorInv
<1>1. ASSUME NEW h \in Requests, Post(h) PROVE Promise!Begin
  <2>1. PICK raw : BeginSave(h, raw)
    BY <1>1 DEF Post, PostSource, PostCrop, PostImport
  <2>2. UNCHANGED <<persisted, runner, runners, applied>> /\ pc'[h] = "writing"
    BY <2>1, <1>a DEF BeginSave
  <2>3. UNCHANGED Running
    BY <2>2 DEF Running
  <2>4. Pending'
    BY <2>2 DEF Pending
  <2> QED BY <2>2, <2>3, <2>4 DEF Promise!Begin
<1>2. ASSUME NEW h \in Requests, EndSave(h) PROVE Promise!Save
  <2>1. /\ draft[h] \in Settings /\ persisted' = Append(persisted, draft[h])
        /\ UNCHANGED <<runner, runners, applied>> /\ pc[h] = "writing"
        /\ pc' = [pc EXCEPT ![h] = "queued"]
    BY <1>2, <1>a DEF EndSave
  <2>2. UNCHANGED Running
    BY <2>1 DEF Running
  <2>3. Pending' = Pending /\ Pending
    BY <2>1, PendingStays DEF Pending
  <2> QED BY <2>1, <2>2, <2>3 DEF Promise!Save
<1>3. ASSUME NEW h \in Requests, AcquireLock(h) PROVE Promise!Stop
  <2>1. /\ runners' = Signal(runners) /\ UNCHANGED <<runner, applied, persisted>>
        /\ pc[h] = "queued"
    BY <1>3 DEF AcquireLock
  <2> QED BY <2>1, SignalStops DEF Promise!Stop, Pending
<1>4. ASSUME NEW h \in Requests, BuildRunner(h)
      PROVE  Promise!Apply \/ Promise!ApplyDefaults
  <2>1. /\ pc[h] = "building" /\ pc' = [pc EXCEPT ![h] = "spawning"]
        /\ UNCHANGED persisted
        /\ applied' = IF loaded[h].ver = 0 THEN applied ELSE loaded[h].ver
    BY <1>4 DEF BuildRunner
  <2>2. /\ runner' = Len(runners) + 1
        /\ runners'[Len(runners) + 1].cfg = loaded[h].cfg
        /\ runners'[Len(runners) + 1].stop = FALSE
    BY <1>4, BuiltRunner
  <2>3. Running' = loaded[h].cfg
    BY <2>2, <1>a DEF Running
  <2>4. Running = Empty
    BY <2>1, <1>b DEF Signalled, Running
  <2>5. Pending' = Pending
    BY <2>1, PendingStays
  <2>6. /\ loaded[h].ver \in Nat /\ loaded[h].ver <= Len(persisted)
        /\ loaded[h].ver # 0 => applied <= loaded[h].ver
        /\ IF loaded[h].ver = 0 THEN loaded[h].cfg = Defaults
                                ELSE loaded[h].cfg = persisted[loaded[h].ver]
    BY <2>1, <1>a, <1>b DEF VersionInv, BuiltFrom
  <2>7. CASE loaded[h].ver = 0
    <3>1. Pending
      BY <2>1, <2>7, <1>b DEF DefaultsPass
    <3> QED BY <2>1, <2>3, <2>4, <2>5, <2>6, <2>7, <3>1 DEF Promise!ApplyDefaults
  <2>8. CASE loaded[h].ver # 0
    <3>1. loaded[h].ver \in 1..Len(persisted) /\ loaded[h].ver >= applied
      BY <2>6, <2>8, <1>a
    <3> QED BY <2>1, <2>3, <2>4, <2>5, <2>6, <2>8, <3>1 DEF Promise!Apply
  <2> QED BY <2>7, <2>8
<1>5. CASE Boot
  <2>1. /\ runner' = 1 /\ runners'[1].cfg = Read(file) /\ runners'[1].stop = FALSE
    BY <1>5, FirstRunner
  <2>2. /\ UNCHANGED <<pc, persisted>> /\ applied' = Len(persisted) /\ runner = 0
        /\ \A h \in Requests : pc[h] = "idle"
    BY <1>5, <1>b DEF Boot, LockInv, Quiet
  <2>3. Read(file) = persisted[Len(persisted)] /\ Len(persisted) \in 1..Len(persisted)
    BY <2>2, <1>a, <1>b DEF FileInv
  <2>4. Running = Empty /\ Running' = persisted[Len(persisted)]
    BY <2>1, <2>2, <2>3 DEF Running
  <2>5. UNCHANGED Pending
    BY <2>2 DEF Pending
  <2>6. Len(persisted) >= applied
    BY <1>a, <1>b DEF VersionInv
  <2>7. Promise!Apply
    BY <2>2, <2>3, <2>4, <2>5, <2>6 DEF Promise!Apply
  <2> QED BY <2>7 DEF Promise!Next
<1>6. CASE Exit \/ Crash
  <2>1. runner' = 0 /\ applied' = 0 /\ pc' = [h \in Requests |-> "idle"]
    BY <1>6 DEF Exit, Crash, LoseMemory
  <2>2. Running' = Empty /\ ~Pending'
    BY <2>1 DEF Running, Pending
  <2>3. persisted' \in {persisted, Append(persisted, Defaults)}
    BY <1>6 DEF Exit, Crash
  <2>4. Promise!Halt
    BY <2>1, <2>2, <2>3 DEF Promise!Halt
  <2> QED BY <2>4 DEF Promise!Next
<1>7. ASSUME NEW i \in Nat, NEW s \in ThreadState,
             runners' = [runners EXCEPT ![i].state = s], UNCHANGED runner
      PROVE  UNCHANGED Running
  <2>1. \A j \in 1..Len(runners) :
          runners'[j].cfg = runners[j].cfg /\ runners'[j].stop = runners[j].stop
    BY <1>7, <1>a, BecomeType
  <2> QED BY <1>7, <2>1, RunningStays
<1>8. ASSUME NEW h \in Requests, Restart(h), ~AcquireLock(h), ~BuildRunner(h)
      PROVE  UNCHANGED Mapped
  <2>1. CASE SpawnThread(h)
    <3>0. /\ runners' = [runners EXCEPT ![runner].state = "check"] /\ UNCHANGED runner
          /\ runner \in Nat /\ "check" \in ThreadState
      BY <2>1, <1>a, ThreadStates DEF SpawnThread
    <3>1. UNCHANGED Running
      BY <3>0, <1>7
    <3>2. UNCHANGED Pending
      BY <2>1, PendingStays DEF SpawnThread
    <3> QED BY <2>1, <3>1, <3>2 DEF SpawnThread
  <2>2. CASE \/ JoinReturns(h) \/ JoinTimesOut(h) \/ LoadSettings(h) \/ BuildFails(h)
             \/ NotifyAndAnswer(h)
    <3>1. PICK place \in Where \ {"writing", "queued"} :
            /\ pc' = [pc EXCEPT ![h] = place] /\ pc[h] \notin {"writing", "queued"}
            /\ UNCHANGED <<persisted, runner, runners, applied>>
      BY <2>2 DEF JoinReturns, JoinTimesOut, LoadSettings, BuildFails, NotifyAndAnswer, Where
    <3>2. UNCHANGED Pending
      BY <3>1, PendingStays
    <3> QED BY <3>1, <3>2 DEF Running
  <2> QED BY <1>8, <2>1, <2>2 DEF Restart
<1>9. ASSUME NEW i \in DOMAIN runners, Capture(i) PROVE UNCHANGED Mapped
  <2>1. PICK s \in ThreadState : Become(i, s)
    BY <1>9, ThreadStates DEF Capture, CheckStop, OpenCamera, OpenFails, LeaveFrameLoop,
         CloseCamera, WakeUp
  <2>2. /\ runners' = [runners EXCEPT ![i].state = s] /\ UNCHANGED runner
        /\ UNCHANGED <<persisted, pc, applied>> /\ i \in Nat
    BY <2>1, <1>a DEF Become
  <2>3. UNCHANGED Running
    BY <2>2, <1>7
  <2> QED BY <2>2, <2>3 DEF Pending
<1>10. CASE Shutdown
  <2>1. Promise!Stop
    BY <1>10, SignalStops DEF Shutdown, Promise!Stop, Pending
  <2> QED BY <2>1 DEF Promise!Next
<1>11. CASE Off \/ UNCHANGED vars
  BY <1>11 DEF Off, vars, Running, Pending
<1> QED BY <1>1, <1>2, <1>3, <1>4, <1>5, <1>6, <1>8, <1>9, <1>10, <1>11
      DEF Next, Serve, Promise!Next

\* The Supervisor, its handlers and its threads implement AppliedSettings: the
\* pipeline moves through the contents of saved versions, never back to an older
\* one, what runs is stopped first, and the defaults of a half-written file run
\* only while a request is there that will stop them.
THEOREM Refinement == Spec => KeepsPromise
<1>1. Init => Promise!Init
  BY PromiseInit
<1>2. TypeOK /\ SupervisorInv /\ [Next]_vars => [Promise!Next]_Mapped
  BY PromiseStep
<1> QED BY <1>1, <1>2, Invariant, PTL DEF Spec, KeepsPromise, Promise!Spec, Mapped

---------------------------------------------------------------------------
(* What a restart builds is at least as new as what its request saved, but *)
(* for the defaults that a half-written file gives.                        *)

SaveInv ==
    /\ \A h \in Requests :
         pc[h] \notin {"idle", "writing"} => mine[h] <= Len(persisted)
    /\ \A g, h \in Requests :
         (pc[h] = "building" /\ loaded[h].ver # 0 /\ pc[g] \in {"building", "notifying"})
            => mine[g] <= loaded[h].ver
    /\ \A h \in Requests : pc[h] \in {"spawning", "notifying"} =>
         /\ runner # 0
         /\ runners[runner].ver # 0 => mine[h] <= runners[runner].ver

(* A thread's step changes one state and nothing else of any runner.       *)
LEMMA BecomeFields ==
    ASSUME TypeOK, NEW i \in DOMAIN runners, NEW s \in ThreadState,
           runners' = [runners EXCEPT ![i].state = s]
    PROVE  \A j \in DOMAIN runners :
              /\ runners'[j].cfg = runners[j].cfg /\ runners'[j].ver = runners[j].ver
              /\ runners'[j].stop = runners[j].stop
              /\ runners'[j].state = IF j = i THEN s ELSE runners[j].state
<1>1. runners \in Seq(Runner)
  BY DEF TypeOK
<1>2. \A j \in DOMAIN runners : runners[j] \in Runner
  BY <1>1
<1> QED BY <1>1, <1>2 DEF Runner

LEMMA SaveInit == Init => SaveInv
BY DEF Init, SaveInv

LEMMA SaveStep ==
    TypeOK /\ SupervisorInv /\ SaveInv /\ [Next]_vars => SaveInv'
<1> SUFFICES ASSUME TypeOK, SupervisorInv, SaveInv, [Next]_vars PROVE SaveInv'
  OBVIOUS
<1> USE DEF SaveInv
<1>a. /\ pc \in [Requests -> Where] /\ mine \in [Requests -> Nat]
      /\ loaded \in [Requests -> [cfg : Settings, ver : Nat]]
      /\ persisted \in Seq(Settings) /\ Len(persisted) \in Nat
      /\ runners \in Seq(Runner) /\ runner \in 0..Len(runners)
      /\ DOMAIN runners = 1..Len(runners) /\ applied \in Nat
  BY DEF TypeOK
<1>b. LockInv /\ VersionInv
  BY DEF SupervisorInv
<1>c. runner # 0 => runner \in DOMAIN runners
  BY <1>a
<1>d. \A i \in DOMAIN runners : runners[i].ver \in Nat /\ runners[i].ver <= applied
  BY <1>a, <1>b, RunnerType DEF VersionInv
<1>1. ASSUME NEW h \in Requests, Post(h) PROVE SaveInv'
  <2>1. PICK raw : BeginSave(h, raw)
    BY <1>1 DEF Post, PostSource, PostCrop, PostImport
  <2> QED BY <2>1, <1>a DEF BeginSave
<1>2. ASSUME NEW h \in Requests, EndSave(h) PROVE SaveInv'
  <2>1. draft[h] \in Settings
    BY DEF TypeOK
  <2>2. Len(persisted') = Len(persisted) + 1
    BY <1>2, <1>a, <2>1 DEF EndSave
  <2> QED BY <1>2, <2>2, <1>a DEF EndSave
<1>3. ASSUME NEW h \in Requests, Restart(h) PROVE SaveInv'
  <2>1. CASE AcquireLock(h)
    <3>1. runner # 0 => runners'[runner].ver = runners[runner].ver
      BY <2>1, <1>a, SignalType DEF AcquireLock
    <3> QED BY <2>1, <3>1, <1>a DEF AcquireLock
  <2>2. CASE \/ JoinReturns(h) \/ JoinTimesOut(h) \/ BuildFails(h) \/ NotifyAndAnswer(h)
    BY <2>2, <1>a DEF JoinReturns, JoinTimesOut, BuildFails, NotifyAndAnswer
  <2>3. CASE LoadSettings(h)
    <3>1. loaded'[h].ver # 0 => loaded'[h].ver = Len(persisted)
      BY <2>3, <1>a DEF LoadSettings
    <3>2. /\ UNCHANGED <<mine, persisted, runner, runners>> /\ pc[h] = "loading"
          /\ pc' = [pc EXCEPT ![h] = "building"]
          /\ \A g \in Requests : g # h => loaded'[g] = loaded[g]
      BY <2>3, <1>a DEF LoadSettings
    <3>3. \A g \in Requests : pc'[g] = "building" => g = h
      BY <3>2, <1>a, <1>b DEF LockInv, Locked
    <3>4. \A g \in Requests : pc'[g] \in {"building", "notifying"} =>
            pc[g] \notin {"idle", "writing"} /\ mine'[g] <= Len(persisted)
      BY <3>2, <1>a
    <3>5. \A g \in Requests :
            /\ pc'[g] \notin {"idle", "writing"} => mine'[g] <= Len(persisted')
            /\ pc'[g] \in {"spawning", "notifying"} => pc[g] \in {"spawning", "notifying"}
      BY <3>2, <1>a
    <3> QED BY <3>1, <3>2, <3>3, <3>4, <3>5
  <2>4. CASE BuildRunner(h)
    <3>0. runner' = Len(runners) + 1 /\ runners'[Len(runners) + 1].ver = loaded[h].ver
      BY <2>4, BuiltRunner
    <3>1. runner' # 0 /\ runners'[runner'].ver = loaded[h].ver
      BY <3>0, <1>a
    <3>2. /\ pc[h] = "building" /\ pc' = [pc EXCEPT ![h] = "spawning"]
          /\ UNCHANGED <<mine, persisted, loaded>>
      BY <2>4 DEF BuildRunner
    <3>3. \A g \in Requests :
            /\ pc'[g] # "building"
            /\ pc'[g] \in {"spawning", "notifying"} => pc[g] \in {"building", "notifying"}
      BY <3>2, <1>a, <1>b DEF LockInv, Locked
    <3>4. \A g \in Requests : pc'[g] \in {"spawning", "notifying"} =>
            (loaded[h].ver # 0 => mine[g] <= loaded[h].ver)
      BY <3>2, <3>3
    <3>5. \A g \in Requests :
            pc'[g] \notin {"idle", "writing"} => mine'[g] <= Len(persisted')
      BY <3>2, <1>a
    <3> QED BY <3>1, <3>2, <3>3, <3>4, <3>5
  <2>5. CASE SpawnThread(h)
    <3>1. runner \in DOMAIN runners
      BY <2>5, <1>c DEF SpawnThread
    <3>2. runners'[runner].ver = runners[runner].ver
      BY <2>5, <3>1, BecomeFields, ThreadStates DEF SpawnThread
    <3>3. /\ pc[h] = "spawning" /\ pc' = [pc EXCEPT ![h] = "notifying"]
          /\ UNCHANGED <<mine, loaded, persisted, runner>>
      BY <2>5 DEF SpawnThread
    <3>4. \A g \in Requests : pc'[g] # "building"
      BY <3>3, <1>a, <1>b DEF LockInv, Locked
    <3> QED BY <3>2, <3>3, <3>4, <1>a
  <2> QED BY <1>3, <2>1, <2>2, <2>3, <2>4, <2>5 DEF Restart
<1>4. ASSUME NEW i \in DOMAIN runners, Capture(i) PROVE SaveInv'
  <2>1. PICK s \in ThreadState : Become(i, s)
    BY <1>4, ThreadStates DEF Capture, CheckStop, OpenCamera, OpenFails, LeaveFrameLoop,
         CloseCamera, WakeUp
  <2>2. runner # 0 => runners'[runner].ver = runners[runner].ver
    BY <2>1, <1>c, BecomeFields DEF Become
  <2> QED BY <2>1, <2>2 DEF Become
<1>5. CASE Shutdown \/ Boot
  <2>1. \A h \in Requests : pc'[h] = "idle"
    BY <1>5, <1>b DEF Shutdown, Boot, LockInv, Quiet
  <2> QED BY <2>1
<1>6. CASE Exit \/ Crash
  BY <1>6 DEF Exit, Crash, LoseMemory
<1>7. CASE Off \/ UNCHANGED vars
  BY <1>7 DEF Off, vars
<1> QED BY <1>1, <1>2, <1>3, <1>4, <1>5, <1>6, <1>7 DEF Next, Serve

LEMMA SaveInvariant == Spec => []SaveInv
BY Invariant, SaveInit, SaveStep, PTL DEF Spec

\* Whoever is answered "saved" has the content of its version, or of a later
\* one, running; or the defaults of another request's half-written file, which
\* that request's restart has stopped or will stop.
THEOREM SavedMeansAppliedHolds == Spec => []SavedMeansApplied
<1>1. TypeOK /\ SupervisorInv /\ SaveInv => SavedMeansApplied
  <2> SUFFICES ASSUME TypeOK, SupervisorInv, SaveInv, NEW h \in Requests,
                      pc[h] = "notifying"
               PROVE  /\ runner # 0 /\ BuiltFrom(runners[runner])
                      /\ \/ runners[runner].ver >= mine[h]
                         \/ /\ runners[runner].ver = 0
                            /\ runners[runner].stop \/ Pending
    BY DEF SavedMeansApplied
  <2>1. runner # 0 /\ (runners[runner].ver # 0 => mine[h] <= runners[runner].ver)
    BY DEF SaveInv
  <2>2. runner \in DOMAIN runners /\ runners \in Seq(Runner) /\ mine[h] \in Nat
    BY <2>1 DEF TypeOK
  <2>3. runners[runner].ver \in Nat
    BY <2>2, RunnerType
  <2>4. BuiltFrom(runners[runner])
    BY <2>2 DEF SupervisorInv, InOrder
  <2>5. runners[runner].ver = 0 => runners[runner].stop \/ Pending
    BY <2>1 DEF SupervisorInv, DefaultsPass
  <2> QED BY <2>1, <2>2, <2>3, <2>4, <2>5
<1> QED BY <1>1, Invariant, SaveInvariant, PTL

---------------------------------------------------------------------------
(* Convergence: while the process is up and its settings have a driver,    *)
(* somebody will still load them, or has loaded them and not built yet, or *)
(* the current runner has them.                                            *)

WillLoad(h) == pc[h] \in {"writing", "queued", "joining", "loading"}
HasLoaded(h) == pc[h] = "building" /\ loaded[h].cfg = Read(file)
Current ==
    /\ runner # 0
    /\ runners[runner].cfg = Read(file) /\ runners[runner].stop = FALSE
    /\ runners[runner].state # "ended"
    /\ runners[runner].state = "new" => \E h \in Requests : pc[h] = "spawning"
ConvInv ==
    (life = "up" /\ Read(file).source \in KnownSource) =>
        \/ \E h \in Requests : WillLoad(h) \/ HasLoaded(h)
        \/ Current

LEMMA ConvStep ==
    TypeOK /\ SupervisorInv /\ ConvInv /\ [Next]_vars => ConvInv'
<1> SUFFICES ASSUME TypeOK, SupervisorInv, ConvInv, [Next]_vars PROVE ConvInv'
  OBVIOUS
<1>a. /\ pc \in [Requests -> Where] /\ runners \in Seq(Runner)
      /\ loaded \in [Requests -> [cfg : Settings, ver : Nat]]
      /\ runner \in 0..Len(runners) /\ DOMAIN runners = 1..Len(runners)
  BY DEF TypeOK
<1>b. runner # 0 => runner \in DOMAIN runners
  BY <1>a
<1>c. \A h \in Requests : pc[h] \in Locked => lock = h
  BY DEF SupervisorInv, LockInv
<1>1. ASSUME NEW h \in Requests, WillLoad(h)' PROVE ConvInv'
  BY <1>1 DEF ConvInv
\* A request that moves on, with everything else as it was.
<1>2. ASSUME NEW h \in Requests, ~WillLoad(h), ~HasLoaded(h), pc[h] # "spawning",
             NEW place, pc' = [pc EXCEPT ![h] = place],
             UNCHANGED <<file, life, loaded, runner, runners>>
      PROVE  ConvInv'
  BY <1>2, <1>a DEF ConvInv, WillLoad, HasLoaded, Current, Read
<1>3. ASSUME NEW h \in Requests, Post(h) \/ EndSave(h) PROVE ConvInv'
  <2>1. WillLoad(h)'
    BY <1>3, <1>a DEF Post, PostSource, PostCrop, PostImport, BeginSave, EndSave, WillLoad
  <2> QED BY <1>1, <2>1
<1>4. ASSUME NEW h \in Requests, pc[h] = "building" PROVE ~Current
  BY <1>4 DEF SupervisorInv, Signalled, Current
<1>5. ASSUME NEW g \in Requests, NEW h \in Requests, pc[g] = "building", pc[h] = "building"
      PROVE  g = h
  BY <1>5, <1>c DEF Locked
<1>6. ASSUME NEW h \in Requests, Restart(h) PROVE ConvInv'
  <2>1. CASE AcquireLock(h) \/ JoinReturns(h) \/ JoinTimesOut(h)
    <3>1. WillLoad(h)'
      BY <2>1, <1>a DEF AcquireLock, JoinReturns, JoinTimesOut, WillLoad
    <3> QED BY <1>1, <3>1
  <2>2. CASE LoadSettings(h)
    <3>1. HasLoaded(h)'
      BY <2>2, <1>a DEF LoadSettings, HasLoaded, Read
    <3> QED BY <3>1 DEF ConvInv
  <2>3. CASE BuildRunner(h)
    <3>1. /\ pc[h] = "building" /\ pc' = [pc EXCEPT ![h] = "spawning"]
          /\ UNCHANGED <<file, life, loaded>>
      BY <2>3 DEF BuildRunner
    <3>2. /\ runner' # 0 /\ runners'[runner'].cfg = loaded[h].cfg
          /\ runners'[runner'].stop = FALSE /\ runners'[runner'].state = "new"
      <4>1. /\ runner' = Len(runners) + 1 /\ runners'[Len(runners) + 1].cfg = loaded[h].cfg
            /\ runners'[Len(runners) + 1].stop = FALSE
            /\ runners'[Len(runners) + 1].state = "new"
        BY <2>3, BuiltRunner
      <4>2. Len(runners) \in Nat
        BY <1>a
      <4> QED BY <4>1, <4>2
    <3>3. CASE HasLoaded(h)
      <4>1. /\ runners'[runner'].cfg = Read(file) /\ runners'[runner'].stop = FALSE
            /\ runners'[runner'].state = "new"
        BY <3>2, <3>3 DEF HasLoaded
      <4>2. pc'[h] = "spawning"
        BY <3>1, <1>a
      <4>3. Current'
        BY <3>1, <3>2, <4>1, <4>2 DEF Current, Read
      <4> QED BY <4>3 DEF ConvInv
    <3>4. CASE \E g \in Requests : WillLoad(g)
      <4>1. PICK g \in Requests : WillLoad(g)
        BY <3>4
      <4>2. WillLoad(g)'
        BY <4>1, <3>1, <1>a DEF WillLoad
      <4> QED BY <1>1, <4>2
    <3>5. CASE ~(life = "up" /\ Read(file).source \in KnownSource)
      BY <3>1, <3>5 DEF ConvInv, Read
    <3> QED BY <3>1, <3>3, <3>4, <3>5, <1>4, <1>5 DEF ConvInv, HasLoaded
  <2>4. CASE BuildFails(h)
    <3>1. /\ pc[h] = "building" /\ pc' = [pc EXCEPT ![h] = "idle"]
          /\ loaded[h].cfg.source \notin KnownSource
          /\ UNCHANGED <<file, life, loaded, runner, runners>>
      BY <2>4 DEF BuildFails
    <3>2. CASE HasLoaded(h)
      BY <3>1, <3>2 DEF ConvInv, HasLoaded, Read
    <3>3. CASE ~HasLoaded(h)
      BY <3>1, <3>3, <1>2 DEF WillLoad
    <3> QED BY <3>2, <3>3
  <2>5. CASE SpawnThread(h)
    <3>1. /\ pc[h] = "spawning" /\ pc' = [pc EXCEPT ![h] = "notifying"]
          /\ UNCHANGED <<file, life, loaded, runner>>
      BY <2>5 DEF SpawnThread
    <3>2. CASE Current
      <4>1. runner \in DOMAIN runners
        BY <3>2, <1>b DEF Current
      <4>2. /\ runners'[runner].cfg = runners[runner].cfg
            /\ runners'[runner].stop = runners[runner].stop
            /\ runners'[runner].state = "check"
        <5>1. runners' = [runners EXCEPT ![runner].state = "check"]
          BY <2>5 DEF SpawnThread
        <5>2. "check" \in ThreadState
          BY ThreadStates
        <5>3. \A j \in DOMAIN runners :
                /\ runners'[j].cfg = runners[j].cfg /\ runners'[j].stop = runners[j].stop
                /\ runners'[j].state = IF j = runner THEN "check" ELSE runners[j].state
          BY <4>1, <5>1, <5>2, BecomeFields
        <5> QED BY <4>1, <5>3
      <4>3. Current'
        BY <3>1, <3>2, <4>2 DEF Current, Read
      <4> QED BY <4>3 DEF ConvInv
    <3>3. CASE ~Current
      BY <3>1, <3>3, <1>a DEF ConvInv, WillLoad, HasLoaded, Read
    <3> QED BY <3>2, <3>3
  <2>6. CASE NotifyAndAnswer(h)
    BY <2>6, <1>2 DEF NotifyAndAnswer, WillLoad, HasLoaded
  <2> QED BY <1>6, <2>1, <2>2, <2>3, <2>4, <2>5, <2>6 DEF Restart
<1>7. ASSUME NEW i \in DOMAIN runners, Capture(i) PROVE ConvInv'
  <2>1. PICK s \in ThreadState : /\ Become(i, s) /\ s # "new"
                                 /\ s = "ended" => runners[i].stop
    BY <1>7, ThreadStates DEF Capture, CheckStop, OpenCamera, OpenFails, LeaveFrameLoop,
         CloseCamera, WakeUp
  <2>2. UNCHANGED <<file, life, loaded, runner, pc>>
    BY <2>1 DEF Become
  <2>3. CASE Current
    <3>1. /\ runners'[runner].cfg = runners[runner].cfg
          /\ runners'[runner].stop = runners[runner].stop
          /\ runners'[runner].state = IF runner = i THEN s ELSE runners[runner].state
      BY <2>1, <2>3, <1>b, BecomeFields DEF Become, Current
    <3>2. Current'
      BY <2>1, <2>2, <2>3, <3>1 DEF Current, Read
    <3> QED BY <3>2 DEF ConvInv
  <2>4. CASE ~Current
    BY <2>2, <2>4 DEF ConvInv, WillLoad, HasLoaded, Read
  <2> QED BY <2>3, <2>4
<1>8. CASE Boot
  <2>1. /\ runner' = 1 /\ file' = file
        /\ runners' = <<[NewRunner(Read(file), Len(persisted)) EXCEPT !.state = "check"]>>
    BY <1>8 DEF Boot
  <2>2. /\ runners'[1].cfg = Read(file) /\ runners'[1].stop = FALSE
        /\ runners'[1].state = "check"
    BY <2>1 DEF NewRunner
  <2> QED BY <2>1, <2>2 DEF ConvInv, Current, Read
<1>9. CASE Shutdown \/ Exit \/ Crash
  BY <1>9 DEF Shutdown, Exit, Crash, LoseMemory, ConvInv
<1>10. CASE Off \/ UNCHANGED vars
  BY <1>10 DEF Off, vars, ConvInv, WillLoad, HasLoaded, Current, Read
<1> QED BY <1>3, <1>6, <1>7, <1>8, <1>9, <1>10 DEF Next, Serve

\* Once every save is answered, the pipeline captures with the settings that
\* were saved last, however saves, restarts, failed builds and joins that time
\* out interleaved, for any number of requests.
THEOREM ConvergedHolds == Spec => []Converged
<1>1. Init => ConvInv
  BY DEF Init, ConvInv
<1>2. ConvInv => Converged
  BY DEF ConvInv, WillLoad, HasLoaded, Current, Converged, Quiet, Alive
<1> QED BY <1>1, <1>2, ConvStep, Invariant, PTL DEF Spec
=============================================================================
