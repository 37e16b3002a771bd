----------------------------- MODULE MCRobotShadow -----------------------------
(***************************************************************************)
(* RobotShadow for TLC: small sets of modes, states and LED keys.          *)
(***************************************************************************)
EXTENDS RobotShadow

(* A robot that is cleaning, with its LED off.                             *)
Scanning == [power |-> "on", robot |-> "scanning", mode |-> "all",
             ledEnable |-> 0, ledMode |-> 0]

================================================================================
