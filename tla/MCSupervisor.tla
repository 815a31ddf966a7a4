---------------------------- MODULE MCSupervisor ----------------------------
(* Small instances of Supervisor: the sources and crops TLC saves.         *)
EXTENDS Supervisor, TLC

CONSTANTS r1, r2, usb, webcam, typo, full, lane, empty, nobody, lifespan

MCRequests == {r1, r2}

\* "typo" stands for any string camera_from_source does not recognise.
MCSources == {usb, typo}
MCKnown == {usb}
MCCrops == {full, lane}
MCFull == {full}
MCDefaults == [source |-> usb, crop |-> full]

Symmetry == Permutations(MCRequests)
=============================================================================
