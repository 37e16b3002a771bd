------------------------------- MODULE MCRestApi ------------------------------
(***************************************************************************)
(* RestApi for TLC: coroutines are interchangeable model values.           *)
(***************************************************************************)
EXTENDS RestApi, TLC

Coroutines == Permutations(Task)

===============================================================================
