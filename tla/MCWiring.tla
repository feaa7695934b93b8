------------------------------- MODULE MCWiring -------------------------------
(***************************************************************************)
(* DagWiring for model checking: the ids of the steps are interchangeable. *)
(***************************************************************************)
EXTENDS DagWiring

IdSymmetry == Permutations(Ids)
===============================================================================
