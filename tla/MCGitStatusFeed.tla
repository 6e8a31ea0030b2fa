--------------------------- MODULE MCGitStatusFeed ---------------------------
(* Up to two changes, two views, two connections and two faults, never all *)
(* of them at once, and a channel of one event so that a receiver lags.    *)
EXTENDS GitStatusFeed

Limit(a, b, c, d) == [changes |-> a, conns |-> b, mounts |-> c, faults |-> d]

MCLimits == {Limit(2, 2, 1, 1), Limit(1, 2, 1, 2), Limit(1, 1, 2, 1), Limit(0, 2, 2, 1)}
=============================================================================
