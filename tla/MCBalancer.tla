----------------------------- MODULE MCBalancer -----------------------------
(***************************************************************************)
(* An instance of Balancer for TLC: two upstreams, the first with twice    *)
(* the weight of the second.                                               *)
(***************************************************************************)
EXTENDS Balancer

MCWeights == <<2, 1>>

\* Handlers are interchangeable.
MCSymmetry == Permutations(Picker)
=============================================================================
