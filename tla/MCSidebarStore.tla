---------------------------- MODULE MCSidebarStore ---------------------------
(* Three agents, the fewest whose order a drag can get wrong for the rest, *)
(* under two events; fewer of them under more.                             *)
EXTENDS SidebarStore

MCGestures == <<3, 3, 2>>

\* Picked is the filter of the sequences.
ASSUME PickedFilters ==
  \A s \in UNION {[1..n -> 1..3] : n \in 0..4} : \A S \in SUBSET (1..3) :
    LET Test(x) == x \in S IN Picked(s, {k \in DOMAIN s : s[k] \in S}) = SelectSeq(s, Test)
=============================================================================
