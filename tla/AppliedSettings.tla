-------------------------- MODULE AppliedSettings --------------------------
(***************************************************************************)
(* What saving settings promises, without threads, lock or file: settings  *)
(* are saved one after another, and the pipeline runs one saved version at *)
(* a time.  What runs is stopped before anything else is applied.  An      *)
(* apply may skip versions that were superseded before it got round to     *)
(* them, but never goes back to an older one.  The defaults may stand in   *)
(* for a saved version only while a request is pending, which does not go  *)
(* away without having stopped them.                                       *)
(***************************************************************************)
EXTENDS Integers, Sequences

CONSTANTS Settings, Defaults, Nothing

VARIABLES
    saved,      \* the settings saved so far, oldest first
    pending,    \* a request has begun to save and not yet stopped what runs
    running,    \* the settings that the pipeline runs, or Nothing
    applied     \* the newest version applied since the start, 0 for none

Init ==
    /\ \E s \in Settings : saved = <<s>>
    /\ ~pending /\ running = Nothing /\ applied = 0

Begin == pending' /\ UNCHANGED <<saved, running, applied>>

Save ==
    /\ pending
    /\ \E s \in Settings : saved' = Append(saved, s)
    /\ UNCHANGED <<pending, running, applied>>

Stop ==
    /\ running' = Nothing
    /\ pending' => pending
    /\ UNCHANGED <<saved, applied>>

Apply ==
    /\ running = Nothing
    /\ \E v \in 1..Len(saved) :
         v >= applied /\ running' = saved[v] /\ applied' = v
    /\ UNCHANGED <<saved, pending>>

ApplyDefaults ==
    /\ running = Nothing /\ pending
    /\ running' = Defaults
    /\ UNCHANGED <<saved, pending, applied>>

\* The process ends; a save it was in the middle of leaves the defaults.
Halt ==
    /\ running' = Nothing /\ ~pending' /\ applied' = 0
    /\ saved' \in {saved, Append(saved, Defaults)}

Next == Begin \/ Save \/ Stop \/ Apply \/ ApplyDefaults \/ Halt

Spec == Init /\ [][Next]_<<saved, pending, running, applied>>
=============================================================================
