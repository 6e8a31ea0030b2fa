---------------------------- MODULE MCDaemonStart ----------------------------
(* One or two more processes than a start, its daemon and a stop need.     *)
EXTENDS DaemonStart, TLC

Symmetry == Permutations(Pids) \cup Permutations(Ports)
=============================================================================
