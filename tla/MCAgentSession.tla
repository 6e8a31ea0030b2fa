--------------------------- MODULE MCAgentSession ---------------------------
(* One session and two requests at a time: a daemon that keeps running,    *)
(* with stops or with a third process, and one that restarts.              *)
EXTENDS AgentSession, TLC

MCAll == {"start", "list", "settings", "stop", "bootstrap", "attach"}

MCLimits ==
    {[offered |-> {"start", "stop", "attach"}, ptys |-> 2, runs |-> 1],
     [offered |-> {"start", "attach"}, ptys |-> 3, runs |-> 1],
     [offered |-> MCAll \ {"stop"}, ptys |-> 2, runs |-> 2]}

MCRestarting == {[offered |-> MCAll, ptys |-> 2, runs |-> 2]}

MCSymmetry == Permutations(Requests)
=============================================================================
