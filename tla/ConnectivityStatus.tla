-------------------------- MODULE ConnectivityStatus --------------------------
(***************************************************************************)
(* The connectivity statuses shared by the REST client and the AWS IoT     *)
(* client, and the one transition that the AWS client refuses              *)
(* (common/connectivity_status.py).  NoStatus is Python's None, the value  *)
(* both clients start with.                                                *)
(***************************************************************************)

NoStatus == "None"

ConnectivityStatus ==
    {"NOT_CONNECTED", "CONNECTING", "CONNECTED", "TEMPORARY_CONNECTED",
     "FAILED", "INVALID_CREDENTIALS", "MISSING_API_KEY", "DISCONNECTED",
     "API_NOT_FOUND", "INVALID_ACCOUNT", "EXPIRED_TOKEN"}

(* IGNORED_TRANSITIONS: a client that was disconnected on purpose does not *)
(* become FAILED because the broken connection reports an error afterwards. *)
IgnoredTransition(from, to) == from = "DISCONNECTED" /\ to = "FAILED"

===============================================================================
