----------------------------- MODULE MCDelivery -----------------------------
(***************************************************************************)
(* Delivery for TLC.  Connections and messages differ only by name.        *)
(***************************************************************************)
EXTENDS Delivery

MCSymmetry == Permutations(Conns) \cup Permutations(Messages)

=============================================================================
