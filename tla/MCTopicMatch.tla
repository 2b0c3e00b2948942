---------------------------- MODULE MCTopicMatch ----------------------------
(***************************************************************************)
(* Every filter and every topic of up to MaxLevels levels: an ordinary     *)
(* level, an empty one, one that begins with "$", the two wildcards and    *)
(* two levels that only contain a wildcard.                                *)
(***************************************************************************)
EXTENDS TopicMatch

CONSTANT MaxLevels

BoundedPaths == UNION {[1..n -> Level] : n \in 1..MaxLevels}

MCSpec == InitFor(BoundedPaths, BoundedPaths) /\ [][WalkNext]_walkVars

=============================================================================
