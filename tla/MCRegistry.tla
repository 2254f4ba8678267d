----------------------------- MODULE MCRegistry ------------------------------
(* Three clients of two broker ids; one key stands for the numeric ones.   *)
EXTENDS Registry

DefaultOne == [k \in Keys |-> 1]
=============================================================================
