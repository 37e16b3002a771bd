------------------------------- MODULE WriteOnce -------------------------------
(***************************************************************************)
(* What everybody who keeps a secret under a key relies on: a key that is  *)
(* chosen once, if at all, and never changes or goes away.                 *)
(***************************************************************************)
CONSTANTS Values, None

VARIABLE value

Choose == value = None /\ value' \in Values

Spec == value \in Values \cup {None} /\ [][Choose]_value

================================================================================
