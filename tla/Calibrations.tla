---------------------------- MODULE Calibrations ----------------------------
(***************************************************************************)
(* The calibrations table (storage/models.py, storage/repositories.py) and *)
(* who writes it: the wizard, which reads the active calibration, replaces *)
(* the scale of one direction and saves a new one                          *)
(* (web/routes/calibration.py), and the command line (cli.py).             *)
(***************************************************************************)
EXTENDS Naturals, FiniteSets

CONSTANTS
    Requests,       \* handlers that can be running at once
    Nobody          \* no holder of the write lock

VARIABLES
    saved,          \* the largest id of the table
    active,         \* the committed rows that are active
    writer,         \* whose transaction has written
    scale,          \* scale[r]: the two scales that r is about to save
    base,           \* history: base[r]: the id r has read as active, or 0
    measured,       \* history: measured[d]: the last scale measured for d, or 0
    undercut        \* history: a measure was saved over one it had not read

Direction == {"L2R", "R2L"}
\* Millimetres per pixel, as the number of the measure they come from.
Scale == [Direction -> Nat]
Unmeasured == [d \in Direction |-> 0]
\* Both columns are NOT NULL.
Calibration == [id : Nat, mm_per_px : [Direction -> Nat \ {0}]]

CalibrationsInit ==
    /\ saved = 0 /\ active = {} /\ writer = Nobody
    /\ scale = [r \in Requests |-> Unmeasured]
    /\ base = [r \in Requests |-> 0]
    /\ measured = Unmeasured /\ undercut = FALSE

\* get_active() is not None
IsCalibrated == active # {}
NoCalibration == [id |-> 0, mm_per_px |-> Unmeasured]
GetActive == IF IsCalibrated THEN CHOOSE cal \in active : TRUE ELSE NoCalibration

\* measure, up to get_active: the other direction keeps its scale, or takes
\* this one when there is none; or takes this one always.
MeasuredBoth(old, d, mm) == [e \in Direction |-> mm]
Measured(old, d, mm) ==
    [e \in Direction |-> IF e = d \/ old[e] = 0 THEN mm ELSE old[e]]
Measure(r, d) ==
    /\ scale' = [scale EXCEPT ![r] = Measured(GetActive.mm_per_px, d, saved + 1)]
    /\ base' = [base EXCEPT ![r] = GetActive.id]
    /\ UNCHANGED <<saved, active, writer, measured, undercut>>

\* What the handler had read goes with it.
Drop(r) ==
    /\ scale' = [scale EXCEPT ![r] = Unmeasured]
    /\ base' = [base EXCEPT ![r] = 0]

\* save_new_active: the UPDATE takes the write lock and deactivates; nobody
\* sees it before the commit.  Or it is committed by itself.
DeactivateNow(r) ==
    /\ writer = Nobody
    /\ writer' = r
    /\ active' = {}
    /\ UNCHANGED <<saved, scale, base, measured, undercut>>
Deactivate(r) ==
    /\ writer = Nobody
    /\ writer' = r
    /\ UNCHANGED <<saved, active, scale, base, measured, undercut>>

\* "database is locked"
SaveTimesOut(r) ==
    /\ writer # Nobody
    /\ Drop(r)
    /\ UNCHANGED <<saved, active, writer, measured, undercut>>

\* INSERT and commit.
Activate(new) ==
    /\ saved' = saved + 1
    /\ active' = {[id |-> saved + 1, mm_per_px |-> new]}
CommitMeasure(r, d) ==
    /\ writer = r
    /\ Activate(scale[r])
    /\ writer' = Nobody
    /\ measured' = [measured EXCEPT ![d] = scale[r][d]]
    /\ undercut' = (undercut \/ base[r] # GetActive.id)
    /\ Drop(r)

\* The commit raises, and the session rolls back.
Rollback(r) ==
    /\ writer = r
    /\ writer' = Nobody
    /\ Drop(r)
    /\ UNCHANGED <<saved, active, measured, undercut>>

\* curbcam calibrate, from a process of its own: both scales are given.
CliCalibrate ==
    LET new == [d \in Direction |-> saved + 1]
    IN  /\ writer = Nobody
        /\ Activate(new)
        /\ measured' = new
        /\ UNCHANGED <<writer, scale, base, undercut>>
=============================================================================
