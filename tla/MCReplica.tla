----------------------------- MODULE MCReplica ------------------------------
(***************************************************************************)
(* Instance of Replica for TLC: clients, attributes and values are         *)
(* interchangeable, and every property of it is about single states.       *)
(***************************************************************************)
EXTENDS Replica, TLC

Symmetry == Permutations(Clients) \union Permutations(Attrs) \union Permutations(Values)
=============================================================================
