------------------------------ MODULE MCSchema ------------------------------
(* Instances of Schema for TLC.                                             *)
EXTENDS Schema, TLC

SomeSchemas == {None, "main"}
Ids == {-2, -1, 1}
EntitySymmetry == Permutations(Entity)
=============================================================================
