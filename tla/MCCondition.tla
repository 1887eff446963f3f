---------------------------- MODULE MCCondition ----------------------------
(* An instance of Condition for TLC.                                        *)
EXTENDS Condition

OneColumn == {"t"}
=============================================================================
