---------------------------- MODULE MCStatistics ----------------------------
(* Two workers, two concurrent scrapes, counters up to 1, one restart each. *)
EXTENDS Statistics, TLC

CONSTANTS i1, i2, s1, s2

MCInstances == {i1, i2}
MCScrapers == {s1, s2}

\* Workers are interchangeable, and so are scrapes.
MCSymmetry == Permutations(MCInstances) \cup Permutations(MCScrapers)
=============================================================================
