---------------------------- MODULE LossyStream ----------------------------
(***************************************************************************)
(* What the event bus promises one subscriber: a stream that may skip, but *)
(* never repeats, reorders, or delivers anything that is not among the     *)
(* last Window items when it is taken.                                     *)
(***************************************************************************)
EXTENDS Integers

CONSTANT Window

VARIABLES
    sent,       \* number of items in the stream so far
    seen        \* the last item received, or skipped by joining late

Init == sent = 0 /\ seen = 0

Send == sent' = sent + 1 /\ UNCHANGED seen

Receive ==
    /\ seen' \in (seen + 1)..sent
    /\ seen' > sent - Window
    /\ UNCHANGED sent

\* Joining anew: what was sent before is none of this subscriber's business.
Join == seen' = sent /\ UNCHANGED sent

Next == Send \/ Receive \/ Join

Spec == Init /\ [][Next]_<<sent, seen>>
=============================================================================
