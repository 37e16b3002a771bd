------------------------------ MODULE MCAwsClient -----------------------------
(***************************************************************************)
(* Subscription and AwsClient for TLC: connections and coroutines are      *)
(* model values.                                                           *)
(***************************************************************************)
EXTENDS Subscription, TLC

Interchangeable == Permutations(Conn) \cup Permutations(Task)

===============================================================================
