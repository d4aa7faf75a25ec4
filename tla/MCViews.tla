------------------------------ MODULE MCViews -------------------------------
(***************************************************************************)
(* Instance of Views for TLC: inserted entities pass the filter, updates   *)
(* make them pass or fail it, or are about another attribute.              *)
(***************************************************************************)
EXTENDS Views, TLC

CONSTANTS a, b

MCInserted == {[whole |-> TRUE, fields |-> a :> 1]}
MCUpdated == {[whole |-> FALSE, fields |-> f] : f \in {a :> 1, a :> 2, b :> 1}}
=============================================================================
