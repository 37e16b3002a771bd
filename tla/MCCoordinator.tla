----------------------------- MODULE MCCoordinator ----------------------------
(***************************************************************************)
(* Coordinator for TLC: coroutines and connections are model values.       *)
(***************************************************************************)
EXTENDS Coordinator, TLC

Interchangeable == Permutations(Conn) \cup Permutations(Task)

===============================================================================
