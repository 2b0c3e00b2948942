--------------------------- MODULE MCSubscriptions ---------------------------
(***************************************************************************)
(* Two filters that both match one topic, one of which matches a second.   *)
(***************************************************************************)
EXTENDS Subscriptions

CONSTANTS plus, hash, both, other

MCFilters == {plus, hash}
MCTopics == {both, other}
MCMatching == (MCFilters \X {both}) \cup {<<hash, other>>}

MCSymmetry == Permutations(Clients)

=============================================================================
