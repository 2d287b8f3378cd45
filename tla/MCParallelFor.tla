--------------------------- MODULE MCParallelFor ---------------------------
(* ParallelFor on three workers and two callers. *)
EXTENDS ParallelFor

CONSTANTS c1, c2

Loop(size, granularity) ==
  [device |-> FALSE, rows |-> <<0, 1>>, cols |-> <<0, size>>, parameter |-> granularity]
Device(height, width, levels) ==
  [device |-> TRUE, rows |-> <<0, height>>, cols |-> <<0, width>>, parameter |-> levels]
Both(r, q) == [c \in Callers |-> IF c = c1 THEN r ELSE q]

\* Two forks and joins that steal from each other, one of them with a granularity that does
\* not divide the range; a fork and join beside a loop over a rectangle that is split more
\* often than it has rows; a loop over fewer packets than parts, and an empty one.
MCScenarios ==
  {Both(Loop(4, 1), Loop(2, 1)), Both(Loop(5, 2), Device(2, 2, 2)),
   Both(Device(1, 1, 2), Device(1, 3, 1)), Both(Loop(0, 1), Loop(6, 1))}

=============================================================================
