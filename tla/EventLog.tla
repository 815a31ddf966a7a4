------------------------------ MODULE EventLog ------------------------------
(***************************************************************************)
(* What the event store promises, without ids, files, transactions or      *)
(* threads: a log of events, recorded one by one, from which a purge       *)
(* removes all that is older than a cutoff at least a day back, and        *)
(* nothing else.                                                           *)
(***************************************************************************)
EXTENDS Integers

CONSTANT Day        \* ticks of the clock in a day

VARIABLES
    log,            \* the recorded events: [n, ts]
    now

Init == log = {} /\ now = 0

\* One event that is not in the log yet, of now or before.
Record ==
    \E e \in log' :
        /\ e.ts <= now /\ \A f \in log : f.n # e.n
        /\ log' = log \cup {e}
        /\ UNCHANGED now

Purge ==
    \E cutoff \in 0..(now - Day) :
        /\ log' = {e \in log : e.ts >= cutoff}
        /\ UNCHANGED now

Tick == now' = now + 1 /\ UNCHANGED log

Next == Record \/ Purge \/ Tick

Spec == Init /\ [][Next]_<<log, now>>
=============================================================================
