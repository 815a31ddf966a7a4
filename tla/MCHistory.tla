----------------------------- MODULE MCHistory -----------------------------
(* A small instance of History: days of three ticks, two midnights.    *)
EXTENDS History

Fixed(offset) == [t \in Times |-> offset]
\* The clocks are put back from midnight or to it, or forward over it or to it.
Changed(at, before, after) == [t \in Times |-> IF t < at THEN before ELSE after]

MCZones == {Fixed(1), Fixed(-1), Changed(12, 1, 0), Changed(12, 0, -1),
            Changed(12, 0, 1), Changed(11, 0, 1)}
MCFilters == {NoFilter, [start |-> 9, end |-> 12, dirs |-> {"L2R"}]}
MCSpan == [w \in {"7d", "30d"} |-> IF w = "7d" THEN Day ELSE 2 * Day]
=============================================================================
