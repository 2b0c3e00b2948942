-------------------------- MODULE MCBrokerSessions --------------------------
(***************************************************************************)
(* BrokerSessions for TLC.  Connections are used once and differ only by   *)
(* name; the same is true of filters.                                      *)
(***************************************************************************)
EXTENDS BrokerSessionsRefinement, TLC

Symmetry == Permutations(Conns) \cup Permutations(Filters)

=============================================================================
