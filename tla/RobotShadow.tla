------------------------------ MODULE RobotShadow ------------------------------
(***************************************************************************)
(* The messages between Home Assistant and the robot: the shadow that the  *)
(* broker keeps of the robot, the copy of it in AWSClient.data, the        *)
(* commands that the entities publish, and what the entities show.         *)
(*                                                                         *)
(* Three parties take steps.  The loop's thread runs the actions of the    *)
(* user and the poll of the coordinator; a command is published, recorded  *)
(* and given its callback in three steps, between which the thread of the  *)
(* CRT may run.  The CRT's thread delivers messages and completes          *)
(* publishings, one after the other: a callback that sleeps blocks it.     *)
(* The robot and the broker are external.  Messages arrive in any order    *)
(* (AWS IoT promises none), and a lost connection loses what is under way. *)
(*                                                                         *)
(* The sections of the shadow are written as one function of their keys:   *)
(* sections are disjoint, so that the update of one section after the      *)
(* other is one update of all keys.  "power" and "robot" are keys of       *)
(* systemState, "mode" is the mode of cleaningMode, LedKey are the keys of *)
(* led, and "duration" is the desired duration in cycleInfo, written as    *)
(* the mode whose cycle time it is.                                        *)
(***************************************************************************)
EXTENDS SystemDetails, SequencesExt

CONSTANTS
    Mode,           \* the cleaning modes in use
    Power, Robot,   \* the states of power supply and robot in use
    LedKey,         \* the keys of the LED section
    LedValue,       \* their values
    DefaultLed,     \* the value of a key that was never reported
    Heading,        \* the directions of the joystick in use
    NoDetails,      \* stands for the details before the first poll
    First,          \* what the robot reports at first
    M700,           \* is the robot of the family with a thermometer?
    PacketIds,      \* packet ids: a bound on the publishings without an answer
    MaxEvents       \* bound on the actions of the user and on what happens
                    \* outside: changes, wishes of the app, remotes, losses

ASSUME ShadowAssumption ==
    /\ Mode \subseteq CleanModes /\ {"all", "pickup"} \subseteq Mode
    /\ Power \subseteq PowerSupplyState /\ "off" \in Power /\ Robot \subseteq RobotState
    /\ Heading \subseteq JoystickDirection
    /\ "ledEnable" \in LedKey /\ {1, DefaultLed} \subseteq LedValue
    /\ M700 \in BOOLEAN
    /\ MaxEvents \in Nat
    /\ LedKey \cap {"power", "robot", "mode", "duration"} = {}

(* Keys, their values, and functions of some of the keys.                  *)
RobotKey    == {"power", "robot", "mode"} \cup LedKey
Value(key)  == CASE key = "power" -> Power
                 [] key = "robot" -> Robot
                 [] key \in {"mode", "duration"} -> Mode
                 [] OTHER -> LedValue
Of(keys, f) == DOMAIN f \subseteq keys /\ \A key \in DOMAIN f : f[key] \in Value(key)

ASSUME FirstAssumption == DOMAIN First = RobotKey /\ Of(RobotKey, First)

VARIABLES
    reported,   \* the reported state of the shadow, at the broker
    desired,    \* the desired state of the shadow: a part of the keys
    inbox,      \* messages on their way to the client
    outbox,     \* messages on their way to the broker, in order
    connected,  \* is the client's status CONNECTED?
    data,       \* AWSClient.data: what has been received, and the LED's changes
    activity,   \* the activity in it
    details,    \* SystemDetails as of the last poll; NoDetails before the first
    loop,       \* what the loop's thread is doing
    crt,        \* the mode whose cycle time a callback is about to set, or NoMode
    records,    \* packet ids in _messages_published
    flights,    \* publishings without an answer or without a callback
    chosen,     \* history: choices for the LED since it was last reported
    faults,     \* history: has a message been "lost" or "overtaken"?
    budget      \* actions and changes that are left

robotVars  == <<reported, desired>>
wire       == <<inbox, outbox, connected>>
published  == <<records, flights>>
history    == <<chosen, faults>>
shadowVars == <<reported, desired, inbox, outbox, connected, data, activity, details,
                loop, crt, records, flights, chosen, faults, budget>>

-------------------------------------------------------------------------------
NoMode           == "none"
Nothing          == [key \in {} |-> 0]
One(key, value)  == [k \in {key} |-> value]
Update(old, new) == [k \in DOMAIN old \cup DOMAIN new |->
                        IF k \in DOMAIN new THEN new[k] ELSE old[k]]

(* Messages to the client: an answer to get, an update of the reported     *)
(* state or of the desired state, a dynamic message.                       *)
ToClient(topic, report, mode, remote) ==
    [topic |-> topic, reported |-> report, mode |-> mode, remote |-> remote]
Report(f)        == ToClient("update", f, NoMode, NoActivity)
Answer           == ToClient("get", reported, NoMode, NoActivity)
Accepted(mode)   == ToClient("update", Nothing, mode, NoActivity)
Dynamic(remote)  == ToClient("dynamic", Nothing, NoMode, remote)

(* Messages of the client.  The payload of an LED command is the LED       *)
(* section of data itself: it is read when the message is published.       *)
Command(topic, payload, shared) == [topic |-> topic, payload |-> payload, shared |-> shared]
Get                 == Command("get", Nothing, FALSE)
Desire(key, value)  == Command("update", One(key, value), FALSE)
Request             == Command("dynamic", Nothing, FALSE)
SharedLed           == Command("update", Nothing, TRUE)

Idle == [pc |-> "idle", command |-> Get, id |-> 0, poll |-> FALSE]

-------------------------------------------------------------------------------
(* What the entities read of data, with the defaults of the code.          *)
PowerOf(d)  == IF "power" \in DOMAIN d THEN d["power"] ELSE "off"
RobotOf(d)  == IF "robot" \in DOMAIN d THEN d["robot"] ELSE "notConnected"
ModeOf(d)   == IF "mode" \in DOMAIN d THEN d["mode"] ELSE "all"
LedOf(d)    == Restrict(d, DOMAIN d \cap LedKey)

(* SystemDetails._get_updated_data, without the fields that are only shown.*)
Details(d, a) ==
    [vacuum     |-> VacuumState(PowerOf(d), RobotOf(d), ModeOf(d)),
     calculated |-> Calculated(PowerOf(d), RobotOf(d)),
     power      |-> PowerOf(d),
     robot      |-> RobotOf(d),
     activity   |-> a]

ShadowInit ==
    /\ reported = First
    /\ desired = Nothing
    /\ inbox = <<>> /\ outbox = <<>> /\ connected = FALSE
    /\ data = Nothing /\ activity = NoActivity /\ details = NoDetails
    /\ loop = Idle /\ crt = NoMode
    /\ records = {} /\ flights = Nothing
    /\ chosen = Nothing /\ faults = {}
    /\ budget = MaxEvents

-------------------------------------------------------------------------------
(* Publishing.  Packet ids are not used again while anything refers to     *)
(* them (they are given out in a circle of 65535).                         *)
FreeId == PacketIds \ (DOMAIN flights \cup {loop.id})
NextId == CHOOSE id \in FreeId : TRUE

Payload(command) == IF command.shared THEN LedOf(data) ELSE command.payload
Packet(id, command) == [id |-> id, topic |-> command.topic, payload |-> Payload(command)]

(* A handler on the loop's thread is about to publish a command.           *)
Begin(command, poll) ==
    /\ loop.pc = "idle"
    /\ loop' = [pc |-> "ready", command |-> command, id |-> 0, poll |-> poll]

(* The end of a handler on the loop's thread: a poll goes on to the        *)
(* details.                                                                *)
Finish ==
    /\ loop' = Idle
    /\ details' = IF loop.poll THEN Details(data, activity) ELSE details

(* Mutant: the callback is added before the message is recorded.           *)
PublishWithCallback ==
    /\ loop.pc = "ready" /\ connected /\ FreeId # {}
    /\ outbox' = Append(outbox, Packet(NextId, loop.command))
    /\ flights' = Update(flights, One(NextId, "listened"))
    /\ loop' = [loop EXCEPT !.pc = "sent", !.id = NextId]
    /\ UNCHANGED <<robotVars, inbox, connected, data, activity, details, crt, records, history, budget>>

(* The connection takes the message (_publish).                            *)
Publish ==
    /\ loop.pc = "ready" /\ connected /\ FreeId # {}
    /\ outbox' = Append(outbox, Packet(NextId, loop.command))
    /\ flights' = Update(flights, One(NextId, "sent"))
    /\ loop' = [loop EXCEPT !.pc = "sent", !.id = NextId]
    /\ UNCHANGED <<robotVars, inbox, connected, data, activity, details, crt, records, history, budget>>

(* Without a connection the command is dropped; what it has changed in     *)
(* data stays.                                                             *)
PublishRefused ==
    /\ loop.pc = "ready" /\ ~connected
    /\ Finish
    /\ UNCHANGED <<robotVars, wire, data, activity, crt, published, history, budget>>

(* _pre_publish_message.                                                   *)
Record ==
    /\ loop.pc = "sent"
    /\ records' = records \cup {loop.id}
    /\ loop' = [loop EXCEPT !.pc = "recorded"]
    /\ UNCHANGED <<robotVars, wire, data, activity, details, crt, flights, history, budget>>

(* add_done_callback: a future that is done runs the callback at once.     *)
(* The callback removes the record; after a failure it raises before that. *)
AddCallback ==
    /\ loop.pc = "recorded"
    /\ Finish
    /\ CASE flights[loop.id] = "sent" ->
                flights' = [flights EXCEPT ![loop.id] = "listened"] /\ UNCHANGED records
         [] flights[loop.id] = "done" ->
                /\ flights' = Restrict(flights, DOMAIN flights \ {loop.id})
                /\ records' = records \ {loop.id}
         [] flights[loop.id] = "failed" ->
                flights' = Restrict(flights, DOMAIN flights \ {loop.id}) /\ UNCHANGED records
    /\ UNCHANGED <<robotVars, wire, data, activity, crt, history, budget>>

(* A callback publishes on the CRT's thread, which completes nothing       *)
(* before the callback is over.                                            *)
CrtPublish(command) ==
    IF connected
    THEN /\ FreeId # {}
         /\ outbox' = Append(outbox, Packet(NextId, command))
         /\ records' = records \cup {NextId}
         /\ flights' = Update(flights, One(NextId, "listened"))
    ELSE UNCHANGED <<outbox, published>>

-------------------------------------------------------------------------------
(* The broker takes the first message of the client.  An update of the     *)
(* desired state is answered with that part; only a mode in it matters.    *)
(* A dynamic message comes back to its sender, who subscribes to its topic,*)
(* but with its direction and mode below the content, where the handler    *)
(* does not look: it changes nothing here, and so it is left out.          *)
BrokerTakes(packet) ==
    /\ desired' = IF packet.topic = "update" THEN Update(desired, packet.payload) ELSE desired
    /\ inbox' = CASE packet.topic = "get" -> Append(inbox, Answer)
                  [] "mode" \in DOMAIN packet.payload ->
                        Append(inbox, Accepted(packet.payload["mode"]))
                  [] OTHER -> inbox
    /\ UNCHANGED reported

(* The first message goes out, and its publishing is completed             *)
(* (_on_publish_completed, _post_message_published).                       *)
Send ==
    /\ outbox # <<>> /\ crt = NoMode
    /\ outbox' = Tail(outbox)
    /\ BrokerTakes(Head(outbox))
    /\ LET id == Head(outbox).id IN
       IF flights[id] = "sent"
       THEN flights' = [flights EXCEPT ![id] = "done"] /\ UNCHANGED records
       ELSE /\ flights' = Restrict(flights, DOMAIN flights \ {id})
            /\ records' = records \ {id}
    /\ UNCHANGED <<connected, data, activity, details, loop, crt, history, budget>>

(* Mutant: what is there already is kept.                                  *)
MergeMissing(part) == Update(part, data)

(* The reported part of a message, category by category, key by key.       *)
Merge(part) == Update(data, part)

(* Mutant: the end of the remote control is an activity, too.              *)
ActivityAfterAny(remote) == IF remote = NoActivity THEN activity ELSE remote

(* _on_pws_request_message.                                                *)
ActivityAfter(remote) ==
    CASE remote = NoActivity -> activity
      [] remote = "exit" -> NoActivity
      [] OTHER -> remote

(* _message_callback: the reported part is merged; a dynamic message may   *)
(* move the activity (_on_pws_request_message); the answer to get makes a  *)
(* robot with a thermometer send its temperature; an accepted mode is      *)
(* followed, after a sleep, by its cycle time.                             *)
Deliver(i) ==
    LET m == inbox[i] IN
    /\ connected /\ crt = NoMode
    /\ inbox' = RemoveAt(inbox, i)
    /\ data' = Merge(m.reported)
    /\ activity' = ActivityAfter(m.remote)
    /\ crt' = m.mode
    /\ IF m.topic = "get" /\ M700 THEN CrtPublish(Request) ELSE UNCHANGED <<outbox, published>>
    /\ chosen' = Restrict(chosen, DOMAIN chosen \ DOMAIN m.reported)
    /\ faults' = IF i > 1 THEN faults \cup {"overtaken"} ELSE faults
    /\ UNCHANGED <<robotVars, connected, details, loop, budget>>

(* Mutant: the cycle time of the mode that the robot reported.             *)
SetReportedCycleTime ==
    /\ crt # NoMode
    /\ crt' = NoMode
    /\ CrtPublish(Desire("duration", ModeOf(data)))
    /\ UNCHANGED <<robotVars, inbox, connected, data, activity, details, loop, history, budget>>

(* Mutant: the mode is sent along with its cycle time.                     *)
SetModeAndCycleTime ==
    /\ crt # NoMode
    /\ crt' = NoMode
    /\ CrtPublish(Command("update", Update(One("duration", crt), One("mode", crt)), FALSE))
    /\ UNCHANGED <<robotVars, inbox, connected, data, activity, details, loop, history, budget>>

(* The callback wakes up: _set_cycle_time.                                 *)
SetCycleTime ==
    /\ crt # NoMode
    /\ crt' = NoMode
    /\ CrtPublish(Desire("duration", crt))
    /\ UNCHANGED <<robotVars, inbox, connected, data, activity, details, loop, history, budget>>

-------------------------------------------------------------------------------
(* The actions of the user (coordinator.py, called by the entities).  They *)
(* need the data of an entity, which exists once the details are known.    *)
Act(command) ==
    /\ details # NoDetails /\ budget > 0
    /\ budget' = budget - 1
    /\ Begin(command, FALSE)
    /\ UNCHANGED <<robotVars, wire, activity, details, crt, published, faults>>

Plain(command) == Act(command) /\ UNCHANGED <<data, chosen>>

SetCleaningMode(mode) == mode # ModeOf(data) /\ Plain(Desire("mode", mode))
VacuumStart           == Plain(Desire("mode", ModeOf(data)))
PickUp                == Plain(Desire("mode", "pickup"))
VacuumPause           == details # NoDetails /\ details.vacuum = "docked"
                            /\ Plain(Desire("power", "off"))
SetJoystickMode       == /\ details # NoDetails
                         /\ Active(details.vacuum) \/ Manual(details.activity)
                         /\ Plain(Request)
ExitJoystickMode      == details # NoDetails /\ Manual(details.activity) /\ Plain(Request)

(* Mutant: the change is made in a copy of the LED section.                *)
SetLedOfCopy(key, value) ==
    /\ Act(Command("update", Update([k \in LedKey |-> DefaultLed],
                                    Update(LedOf(data), One(key, value))), FALSE))
    /\ chosen' = Update(chosen, One(key, value))
    /\ UNCHANGED data

(* _get_led_settings changes the LED section of data in place and sends    *)
(* it as it is; before the robot has reported one, the defaults are sent   *)
(* with the change and forgotten.                                          *)
SetLed(key, value) ==
    IF DOMAIN LedOf(data) = {}
    THEN /\ Act(Command("update", Update([k \in LedKey |-> DefaultLed], One(key, value)), FALSE))
         /\ chosen' = One(key, value)
         /\ UNCHANGED data
    ELSE /\ Act(SharedLed)
         /\ data' = Update(data, One(key, value))
         /\ chosen' = Update(chosen, One(key, value))

(* Locating asks the LED's data for a key that they do not have, and so    *)
(* always switches the LED on.                                             *)
VacuumLocate == SetLed("ledEnable", 1)

(* The coordinator asks for the shadow: on CONNECTED and every five        *)
(* minutes of polling.  One question at a time is a bound: an answer takes *)
(* less than five minutes.                                                 *)
GetUnderWay ==
    \/ loop.pc # "idle" /\ loop.command.topic = "get"
    \/ \E i \in 1 .. Len(outbox) : outbox[i].topic = "get"
    \/ \E i \in 1 .. Len(inbox) : inbox[i].topic = "get"

PollAsks ==
    /\ connected /\ ~GetUnderWay
    /\ Begin(Get, TRUE)
    /\ UNCHANGED <<robotVars, wire, data, activity, details, crt, published, history, budget>>

(* A poll that is not due to ask: _set_system_status_details.              *)
Poll ==
    /\ loop.pc = "idle" /\ connected
    /\ details' = Details(data, activity)
    /\ UNCHANGED <<robotVars, wire, data, activity, loop, crt, published, history, budget>>

-------------------------------------------------------------------------------
(* From outside: what is sent to a client that is not connected is lost.   *)
Notify(m) == inbox' = IF connected THEN Append(inbox, m) ELSE inbox

External ==
    /\ budget > 0
    /\ budget' = budget - 1
    /\ UNCHANGED <<outbox, connected, data, activity, details, loop, crt, published, chosen>>

(* The robot changes one of its keys and reports it.                       *)
RobotChanges(key, value) ==
    /\ External
    /\ reported[key] # value
    /\ reported' = [reported EXCEPT ![key] = value]
    /\ Notify(Report(One(key, value)))
    /\ UNCHANGED <<desired, faults>>

(* The vendor's app wishes a mode.                                         *)
AppDesires(mode) ==
    /\ External
    /\ desired' = Update(desired, One("mode", mode))
    /\ Notify(Accepted(mode))
    /\ faults' = IF connected THEN faults ELSE faults \cup {"lost"}
    /\ UNCHANGED reported

(* A remote control announces itself in the form the handler expects.      *)
RemoteAnnounces(remote) ==
    /\ External
    /\ Notify(Dynamic(remote))
    /\ UNCHANGED <<robotVars, faults>>

(* The robot follows the desired state in one key, and reports the key or  *)
(* the whole of what it belongs to.                                        *)
RobotFollows(key) ==
    /\ key \in DOMAIN desired
    /\ reported[key] # desired[key]
    /\ reported' = [reported EXCEPT ![key] = desired[key]]
    /\ Notify(Report(One(key, desired[key])))
    /\ UNCHANGED <<desired, outbox, connected, data, activity, details, loop, crt, published, history, budget>>

(* The connection is lost: so is what is under way, and the publishings    *)
(* fail, those that have their callback with an exception in it.           *)
Lose ==
    /\ connected /\ budget > 0
    /\ budget' = budget - 1
    /\ connected' = FALSE /\ inbox' = <<>> /\ outbox' = <<>>
    /\ flights' = [id \in {i \in DOMAIN flights : flights[i] # "listened"} |->
                        IF flights[id] = "sent" THEN "failed" ELSE flights[id]]
    /\ faults' = faults \cup {"lost"}
    /\ UNCHANGED <<robotVars, data, activity, details, loop, crt, records, chosen>>

Connect ==
    /\ ~connected
    /\ connected' = TRUE
    /\ Begin(Get, FALSE)
    /\ UNCHANGED <<robotVars, inbox, outbox, data, activity, details, crt, published, history, budget>>

-------------------------------------------------------------------------------
Loop == Publish \/ PublishRefused \/ Record \/ AddCallback

Crt == Send \/ SetCycleTime \/ \E i \in 1 .. Len(inbox) : Deliver(i)

User ==
    \/ \E mode \in Mode : SetCleaningMode(mode)
    \/ VacuumStart \/ PickUp \/ VacuumPause \/ VacuumLocate
    \/ SetJoystickMode \/ ExitJoystickMode
    \/ \E key \in LedKey, value \in LedValue : SetLed(key, value)

Outside ==
    \/ \E value \in Power : RobotChanges("power", value)
    \/ \E value \in Robot : RobotChanges("robot", value)
    \/ \E key \in LedKey, value \in LedValue : RobotChanges(key, value)
    \/ \E mode \in Mode : AppDesires(mode)
    \/ \E remote \in Heading \cup {"exit"} : RemoteAnnounces(remote)
    \/ \E key \in {"power", "mode"} \cup LedKey : RobotFollows(key)
    \/ Lose \/ Connect

ShadowNext == Loop \/ Crt \/ User \/ Outside \/ PollAsks \/ Poll

ShadowSpec == ShadowInit /\ [][ShadowNext]_shadowVars

(* Both threads run, and the coordinator polls.                            *)
ShadowFairSpec ==
    /\ ShadowSpec
    /\ WF_shadowVars(Loop) /\ WF_shadowVars(Crt)
    /\ WF_shadowVars(Poll) /\ WF_shadowVars(PollAsks)

-------------------------------------------------------------------------------
CommandOK(c) == c \in [topic : {"get", "update", "dynamic"}, payload : {c.payload}, shared : BOOLEAN]
                /\ Of(RobotKey \cup {"duration"}, c.payload)
PacketOK(p)  == p \in [id : PacketIds, topic : {"get", "update", "dynamic"}, payload : {p.payload}]
                /\ Of(RobotKey \cup {"duration"}, p.payload)
MessageOK(m) == m \in [topic : {"get", "update", "dynamic"}, reported : {m.reported},
                       mode : Mode \cup {NoMode}, remote : Heading \cup {NoActivity, "exit"}]
                /\ Of(RobotKey, m.reported)

DetailsOK ==
    details = NoDetails \/ details \in [vacuum : VacuumActivity, calculated : CalculatedState,
                                       power : Power, robot : Robot \cup {"notConnected"},
                                       activity : Heading \cup {NoActivity}]

ShadowTypeOK ==
    /\ DOMAIN reported = RobotKey /\ Of(RobotKey, reported)
    /\ Of(RobotKey \cup {"duration"}, desired)
    /\ inbox \in Seq(Range(inbox)) /\ \A m \in Range(inbox) : MessageOK(m)
    /\ outbox \in Seq(Range(outbox)) /\ \A p \in Range(outbox) : PacketOK(p)
    /\ connected \in BOOLEAN
    /\ Of(RobotKey, data)
    /\ activity \in Heading \cup {NoActivity}
    /\ DetailsOK
    /\ loop \in [pc : {"idle", "ready", "sent", "recorded"}, command : {loop.command},
                 id : PacketIds \cup {0}, poll : BOOLEAN]
    /\ CommandOK(loop.command)
    /\ crt \in Mode \cup {NoMode}
    /\ records \subseteq PacketIds
    /\ DOMAIN flights \subseteq PacketIds
    /\ \A id \in DOMAIN flights : flights[id] \in {"sent", "done", "failed", "listened"}
    /\ Of(LedKey, chosen)
    /\ faults \subseteq {"lost", "overtaken"}
    /\ budget \in 0 .. MaxEvents

(* The calculated state is the one of the documented table, for every pair *)
(* of states and for the pair that is shown with it.                       *)
DetailsAgree ==
    /\ TableAgrees
    /\ details # NoDetails =>
            {details.calculated} = StatesInTable(details.power, details.robot)

(* A publishing that completes finds its record: the callback is added     *)
(* after the message was recorded, and nobody else removes the record.     *)
(* Otherwise _post_message_published raises KeyError.                      *)
RecordedUntilCompleted ==
    /\ \A id \in DOMAIN flights : flights[id] = "listened" => id \in records
    /\ loop.pc = "recorded" => loop.id \in records

Quiet ==
    /\ loop.pc = "idle" /\ crt = NoMode
    /\ \A i \in DOMAIN inbox : inbox[i].mode = NoMode
    /\ \A i \in DOMAIN outbox : DOMAIN outbox[i].payload \cap {"mode", "duration"} = {}

(* When no command is under way, the desired cycle time belongs to the     *)
(* desired mode, whoever desired it and however the modes were chosen one  *)
(* after the other: if no answer was lost or overtaken.                    *)
CycleTimeFollowsMode ==
    Quiet /\ faults = {} /\ "mode" \in DOMAIN desired =>
        "duration" \in DOMAIN desired /\ desired["duration"] = desired["mode"]

(* What makes it so.  The wish for a mode moves on from the accepted       *)
(* update in the inbox to the callback that sleeps, from there to the      *)
(* command in the outbox, and at last to the desired cycle time; at each   *)
(* stage the latest one is the one for the desired mode, ...               *)
Latest(i, S) == i \in S /\ \A j \in S : j <= i

Accepting == {i \in DOMAIN inbox : inbox[i].mode # NoMode}
Timed     == {i \in DOMAIN outbox : "duration" \in DOMAIN outbox[i].payload}

WishesInOrder ==
    faults = {} /\ "mode" \in DOMAIN desired =>
        /\ \A i \in Accepting : Latest(i, Accepting) => inbox[i].mode = desired["mode"]
        /\ Accepting = {} /\ crt # NoMode => crt = desired["mode"]
        /\ Accepting = {} /\ crt = NoMode =>
               /\ \A i \in Timed :
                      Latest(i, Timed) => outbox[i].payload["duration"] = desired["mode"]
               /\ Timed = {} =>
                      "duration" \in DOMAIN desired /\ desired["duration"] = desired["mode"]

(* ... because the commands of the entities set no cycle time, only        *)
(* updates carry a payload, and before the first connection nothing is on  *)
(* its way.                                                                *)
InForm(command) ==
    /\ "duration" \notin DOMAIN command.payload
    /\ command.topic # "update" => DOMAIN command.payload = {} /\ ~command.shared

CommandsInForm ==
    /\ InForm(loop.command)
    /\ \A i \in DOMAIN outbox : outbox[i].topic # "update" => DOMAIN outbox[i].payload = {}

CalmAtFirst ==
    faults = {} /\ ~connected =>
        /\ inbox = <<>> /\ outbox = <<>> /\ crt = NoMode
        /\ "mode" \notin DOMAIN desired /\ DOMAIN data = {}

(* The data are never behind the robot but by what is on its way to the    *)
(* client, or by what the user has chosen since: if no message was lost or *)
(* overtaken, the last one under way tells each key as the robot reports   *)
(* it, and a key of which none tells is in data as reported.               *)
Telling(key) == {i \in DOMAIN inbox : key \in DOMAIN inbox[i].reported}

KeptUp(key) ==
    /\ \A i \in Telling(key) :
           Latest(i, Telling(key)) => inbox[i].reported[key] = reported[key]
    /\ Telling(key) = {} /\ key \in DOMAIN data \ DOMAIN chosen => data[key] = reported[key]

DataKeepUp == faults = {} => \A key \in RobotKey : KeptUp(key)

(* The LED command about to be published does not take back an earlier     *)
(* choice of the user that the robot has not reported on.                  *)
LedChoicesCompose ==
    loop.pc = "ready" =>
        LET payload == Payload(loop.command)
        IN  \A key \in DOMAIN chosen \cap DOMAIN payload : payload[key] = chosen[key]

(* While the client stays connected, its data and what the entities show   *)
(* come to what the robot reports, whatever was lost, overtaken or changed *)
(* in place before.                                                        *)
Converges ==
    <>[]connected => <>[](data = reported /\ details = Details(data, activity))

(* The client comes to rest: its own commands, which come back as accepted,*)
(* do not make it send commands for ever.                                  *)
CommandsEnd ==
    <>[](crt = NoMode /\ \A i \in DOMAIN outbox : outbox[i].topic # "update")

===============================================================================
