---------------------------- MODULE MCPublishing ----------------------------
(***************************************************************************)
(* Publishing for TLC: one or two messages of given QoS.                   *)
(***************************************************************************)
EXTENDS Publishing, TLC

CONSTANTS m1, m2, one, two  \* the messages and their QoS

MCOneMessage == {m1}
MCQoSOne == m1 :> one

MCTwoMessages == {m1, m2}
MCQoSTwo == m1 :> one @@ m2 :> two

MCSymmetry == Permutations(Conns)

=============================================================================
