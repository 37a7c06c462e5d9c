--------------------------- MODULE MCStatsManager ---------------------------
(* Statistics with a clock of 16 milliseconds, which wraps every few harvests, *)
(* counters of 3 bits, and calls of service up to 9 milliseconds apart: more   *)
(* than two intervals.                                                         *)
EXTENDS StatsManager

=============================================================================
