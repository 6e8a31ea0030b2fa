---------------------------- MODULE MCActivityFeed ----------------------------
(* One session: inputs and outputs alone, with an exit or a stop, or with a reconnection. *)
EXTENDS ActivityFeed

MCLimits ==
    {[events |-> 3, exits |-> 0, conns |-> 1], [events |-> 2, exits |-> 1, conns |-> 1],
     [events |-> 2, exits |-> 0, conns |-> 2], [events |-> 1, exits |-> 1, conns |-> 2]}
=============================================================================
