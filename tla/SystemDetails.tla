----------------------------- MODULE SystemDetails -----------------------------
(***************************************************************************)
(* What the integration shows of the robot, derived from the state that    *)
(* the robot reports (models/system_details.py): a calculated state and a  *)
(* vacuum activity, from the state of the power supply, the state of the   *)
(* robot and the cleaning mode.  Nothing here has a state of its own.      *)
(***************************************************************************)

PowerSupplyState == {"on", "off", "holdDelay", "holdWeekly", "programming", "error"}
RobotState       == {"fault", "notConnected", "programming", "init", "scanning", "finished"}
CleanModes       == {"all", "short", "floor", "water", "ultra", "pickup"}
CalculatedState  == {"off", "programming", "error", "cleaning", "init", "holddelay", "holdweekly"}
VacuumActivity   == {"docked", "cleaning", "returning", "error"}

(* Directions of the joystick, as activities of the robot.                 *)
JoystickDirection == {"stop", "forward", "backward", "left", "right"}
NoActivity        == "none"

Fails(power, robot) == power = "error" \/ robot = "fault"

(* Mutant: a robot that is not connected counts as cleaning.               *)
CalculatedOfAnyRobot(power, robot) ==
    IF Fails(power, robot) THEN "error"
    ELSE CASE power = "programming" /\ robot = "programming" -> "programming"
           [] power = "programming" /\ robot \notin {"programming", "finished"} -> "cleaning"
           [] power = "on" /\ robot = "init" -> "init"
           [] power = "on" /\ robot \notin {"init", "finished"} -> "cleaning"
           [] power = "holdDelay" -> "holddelay"
           [] power = "holdWeekly" -> "holdweekly"
           [] OTHER -> "off"

(* The calculated state; the branches follow _get_updated_data.            *)
Calculated(power, robot) ==
    IF Fails(power, robot) THEN "error"
    ELSE CASE power = "programming" /\ robot = "programming" -> "programming"
           [] power = "programming" /\ robot \notin {"programming", "finished"} -> "cleaning"
           [] power = "on" /\ robot = "init" -> "init"
           [] power = "on" /\ robot \notin {"init", "notConnected", "finished"} -> "cleaning"
           [] power = "holdDelay" -> "holddelay"
           [] power = "holdWeekly" -> "holdweekly"
           [] OTHER -> "off"

(* The activity of the vacuum follows the power supply and the mode alone. *)
VacuumState(power, robot, mode) ==
    CASE Fails(power, robot) -> "error"
      [] ~Fails(power, robot) /\ power = "on" -> IF mode = "pickup" THEN "returning" ELSE "cleaning"
      [] OTHER -> "docked"

(* SystemDetails.is_active and is_manual_mode.                             *)
Active(vacuum)   == vacuum \in {"cleaning", "returning"}
Manual(activity) == activity \in JoystickDirection

-------------------------------------------------------------------------------
(* The table of src/CHANGELOG.md, version 1.0.16: rows of power supply     *)
(* states, robot states and the calculated state.                          *)
Table ==
    LET sound == RobotState \ {"fault"}
    IN  { <<{"error"}, RobotState, "error">>,
          <<PowerSupplyState, {"fault"}, "error">>,
          <<{"holdDelay"}, sound, "holddelay">>,
          <<{"holdWeekly"}, sound, "holdweekly">>,
          <<{"on"}, {"init"}, "init">>,
          <<{"on"}, {"programming", "scanning"}, "cleaning">>,
          <<{"programming"}, {"notConnected", "init", "scanning"}, "cleaning">>,
          <<{"programming"}, {"programming"}, "programming">>,
          <<{"programming"}, {"finished"}, "off">>,
          <<{"off"}, sound, "off">> }

(* The calculated state of every row that matches; "off" without a row.    *)
StatesInTable(power, robot) ==
    LET rows == {row \in Table : power \in row[1] /\ robot \in row[2]}
    IN  IF rows = {} THEN {"off"} ELSE {row[3] : row \in rows}

(* No two rows disagree, and every pair of states is calculated as the     *)
(* table says.                                                             *)
TableAgrees ==
    \A power \in PowerSupplyState, robot \in RobotState :
        StatesInTable(power, robot) = {Calculated(power, robot)}

================================================================================
