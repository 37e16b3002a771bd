--------------------------- MODULE RobotShadowProofs --------------------------
(***************************************************************************)
(* Proofs about RobotShadow, for any modes, states and LED keys, any       *)
(* number of packets and any number of events.                             *)
(***************************************************************************)
EXTENDS RobotShadow, TLAPS

-------------------------------------------------------------------------------
(* What is calculated from the states of power supply and robot.           *)
LEMMA CalculatedType ==
    ASSUME NEW power, NEW robot, NEW mode
    PROVE  Calculated(power, robot) \in CalculatedState /\ VacuumState(power, robot, mode) \in VacuumActivity
  BY DEF Calculated, VacuumState, Fails, CalculatedState, VacuumActivity

(* The calculated state of system_details.py is the one that the table of  *)
(* CHANGELOG.md gives, for every pair of states; no two rows disagree.     *)
THEOREM CalculatedAsDocumented == TableAgrees
<1> SUFFICES ASSUME NEW power \in PowerSupplyState, NEW robot \in RobotState
             PROVE  StatesInTable(power, robot) = {Calculated(power, robot)}
  BY DEF TableAgrees
<1> DEFINE rows == {row \in Table : power \in row[1] /\ robot \in row[2]}
<1>1. StatesInTable(power, robot) = IF rows = {} THEN {"off"} ELSE {row[3] : row \in rows}
  BY DEF StatesInTable
<1>2. \A row \in rows : row[3] = Calculated(power, robot)
  BY DEF Table, Calculated, Fails, PowerSupplyState, RobotState
<1>3. ASSUME rows = {}
      PROVE  Calculated(power, robot) = "off"
  <2>1. \A row \in Table : power \notin row[1] \/ robot \notin row[2]
    BY <1>3
  <2> DEFINE sound == RobotState \ {"fault"}
  <2>2. /\ <<{"error"}, RobotState, "error">> \in Table
        /\ <<PowerSupplyState, {"fault"}, "error">> \in Table
        /\ <<{"holdDelay"}, sound, "holddelay">> \in Table
        /\ <<{"holdWeekly"}, sound, "holdweekly">> \in Table
    BY DEF Table
  <2>3. /\ <<{"on"}, {"init"}, "init">> \in Table
        /\ <<{"on"}, {"programming", "scanning"}, "cleaning">> \in Table
        /\ <<{"programming"}, {"notConnected", "init", "scanning"}, "cleaning">> \in Table
        /\ <<{"programming"}, {"programming"}, "programming">> \in Table
    BY DEF Table
  <2>4. power # "error" /\ robot # "fault" /\ power # "holdDelay" /\ power # "holdWeekly"
    BY <2>1, <2>2
  <2>5. /\ power = "on" => robot \notin {"init", "programming", "scanning"}
        /\ power = "programming" => robot \notin {"notConnected", "init", "scanning", "programming"}
    BY <2>1, <2>3
  <2> QED BY <2>4, <2>5 DEF Calculated, Fails, RobotState
<1> HIDE DEF rows
<1>4. CASE rows = {}
  BY <1>1, <1>3, <1>4
<1>5. CASE rows # {}
  BY <1>1, <1>2, <1>5
<1> QED BY <1>4, <1>5

-------------------------------------------------------------------------------
(* Functions of some of the keys.                                          *)
LEMMA OfOne ==
    ASSUME NEW keys, NEW key \in keys, NEW value \in Value(key)
    PROVE  Of(keys, One(key, value))
  BY DEF Of, One

LEMMA OfUpdate ==
    ASSUME NEW keys, NEW f, NEW g, Of(keys, f), Of(keys, g)
    PROVE  Of(keys, Update(f, g))
  BY DEF Of, Update

LEMMA OfRestrict ==
    ASSUME NEW keys, NEW f, NEW S, Of(keys, f), S \subseteq DOMAIN f
    PROVE  Of(keys, Restrict(f, S)) /\ Of(S, Restrict(f, S))
  BY DEF Of, Restrict

LEMMA OfMore ==
    ASSUME NEW keys, NEW more, NEW f, Of(keys, f), keys \subseteq more
    PROVE  Of(more, f)
  BY DEF Of

LEMMA OfNothing ==
    ASSUME NEW keys
    PROVE  Of(keys, Nothing)
  BY DEF Of, Nothing

LEMMA ValuesOfKeys ==
    /\ Value("power") = Power /\ Value("robot") = Robot
    /\ Value("mode") = Mode /\ Value("duration") = Mode
    /\ \A key \in LedKey : Value(key) = LedValue
    /\ RobotKey = {"power", "robot", "mode"} \cup LedKey
  BY ShadowAssumption DEF Value, RobotKey

(* Sequences of messages, by what is in them.                              *)
Messages(s) == s \in Seq(Range(s))

LEMMA ElementsOf ==
    ASSUME NEW T, NEW s \in Seq(T)
    PROVE  s \in Seq(Range(s)) /\ Range(s) \subseteq T
<1>1. Len(s) \in Nat /\ DOMAIN s = 1 .. Len(s) /\ \A i \in 1 .. Len(s) : s[i] \in T
  OBVIOUS
<1>2. s = [i \in 1 .. Len(s) |-> s[i]]
  OBVIOUS
<1>3. \A i \in 1 .. Len(s) : s[i] \in Range(s)
  BY <1>1 DEF Range
<1> QED BY <1>1, <1>2, <1>3 DEF Range

LEMMA Appended ==
    ASSUME NEW s, Messages(s), NEW e
    PROVE  Messages(Append(s, e)) /\ Range(Append(s, e)) = Range(s) \cup {e}
<1> DEFINE T == Range(s) \cup {e}
<1>1. s \in Seq(T) /\ e \in T
  BY DEF Messages
<1>2. Append(s, e) \in Seq(T) /\ Len(Append(s, e)) = Len(s) + 1
  BY <1>1
<1>3. /\ \A i \in 1 .. Len(s) : Append(s, e)[i] = s[i]
      /\ Append(s, e)[Len(s) + 1] = e
  BY <1>1
<1>4. Len(s) \in Nat /\ DOMAIN s = 1 .. Len(s) /\ DOMAIN Append(s, e) = 1 .. Len(s) + 1
  BY <1>1, <1>2
<1>5. Range(Append(s, e)) = T
  BY <1>3, <1>4 DEF Range
<1> QED BY <1>2, <1>5 DEF Messages

LEMMA Tailed ==
    ASSUME NEW s, Messages(s), s # <<>>
    PROVE  /\ Messages(Tail(s)) /\ Head(s) = s[1] /\ 1 \in DOMAIN s
           /\ Len(Tail(s)) = Len(s) - 1 /\ DOMAIN Tail(s) = 1 .. Len(s) - 1
           /\ DOMAIN s = 1 .. Len(s) /\ Len(s) \in Nat
           /\ \A i \in DOMAIN Tail(s) : Tail(s)[i] = s[i + 1]
           /\ Range(Tail(s)) \subseteq Range(s) /\ Head(s) \in Range(s)
<1>1. s \in Seq(Range(s)) /\ Len(s) \in Nat /\ DOMAIN s = 1 .. Len(s) /\ Len(s) > 0
  BY DEF Messages
<1>2. Tail(s) \in Seq(Range(s)) /\ Len(Tail(s)) = Len(s) - 1
  BY <1>1
<1>3. \A i \in 1 .. Len(s) - 1 : Tail(s)[i] = s[i + 1]
  BY <1>1, <1>2
<1>4. DOMAIN Tail(s) = 1 .. Len(s) - 1
  BY <1>1, <1>2
<1>5. Messages(Tail(s)) /\ Range(Tail(s)) \subseteq Range(s)
  BY <1>2, ElementsOf DEF Messages
<1>6. Head(s) = s[1] /\ 1 \in DOMAIN s /\ s[1] \in Range(s)
  BY <1>1 DEF Range
<1> QED BY <1>1, <1>2, <1>3, <1>4, <1>5, <1>6

LEMMA Removed ==
    ASSUME NEW s, Messages(s), NEW i \in DOMAIN s
    PROVE  Messages(RemoveAt(s, i)) /\ Range(RemoveAt(s, i)) \subseteq Range(s)
<1>1. s \in Seq(Range(s)) /\ i \in 1 .. Len(s) /\ Len(s) \in Nat
  BY DEF Messages
<1>2. SubSeq(s, 1, i - 1) \in Seq(Range(s)) /\ SubSeq(s, i + 1, Len(s)) \in Seq(Range(s))
  BY <1>1
<1>3. RemoveAt(s, i) \in Seq(Range(s))
  BY <1>2 DEF RemoveAt
<1> QED BY <1>3, ElementsOf DEF Messages

-------------------------------------------------------------------------------
(* What the entities show.                                                 *)
LEMMA DetailsType ==
    ASSUME ShadowTypeOK
    PROVE  Details(data, activity) \in
               [vacuum : VacuumActivity, calculated : CalculatedState,
                power : Power, robot : Robot \cup {"notConnected"},
                activity : Heading \cup {NoActivity}]
<1>1. PowerOf(data) \in Power /\ RobotOf(data) \in Robot \cup {"notConnected"}
  BY ValuesOfKeys, ShadowAssumption DEF ShadowTypeOK, Of, PowerOf, RobotOf
<1>2. activity \in Heading \cup {NoActivity}
  BY DEF ShadowTypeOK
<1> QED BY <1>1, <1>2, CalculatedType DEF Details

LEMMA ModeOfType ==
    ASSUME ShadowTypeOK
    PROVE  ModeOf(data) \in Mode
  BY ValuesOfKeys, ShadowAssumption DEF ShadowTypeOK, Of, ModeOf

(* The commands of the code.                                               *)
LEMMA CommandsOK ==
    /\ CommandOK(Get) /\ CommandOK(Request) /\ CommandOK(SharedLed)
    /\ \A key \in RobotKey \cup {"duration"} : \A value :
            value \in Value(key) => CommandOK(Desire(key, value))
    /\ \A f : Of(LedKey, f) => CommandOK(Command("update", f, FALSE))
<1>1. CommandOK(Get) /\ CommandOK(Request) /\ CommandOK(SharedLed)
  BY OfNothing DEF CommandOK, Get, Request, SharedLed, Command
<1>2. ASSUME NEW key \in RobotKey \cup {"duration"}, NEW value \in Value(key)
      PROVE  CommandOK(Desire(key, value))
  BY OfOne DEF CommandOK, Desire, Command
<1>3. ASSUME NEW f, Of(LedKey, f)
      PROVE  CommandOK(Command("update", f, FALSE))
  BY <1>3, OfMore, ValuesOfKeys DEF CommandOK, Command
<1> QED BY <1>1, <1>2, <1>3

LEMMA PacketsOK ==
    ASSUME ShadowTypeOK, NEW id \in PacketIds, NEW command, CommandOK(command)
    PROVE  PacketOK(Packet(id, command))
<1>1. Of(RobotKey \cup {"duration"}, Payload(command))
  BY OfRestrict, OfMore DEF ShadowTypeOK, Payload, LedOf, CommandOK
<1> QED BY <1>1 DEF PacketOK, Packet, CommandOK

(* A free id is an id that nothing refers to.                              *)
LEMMA NextIdFree ==
    ASSUME FreeId # {}
    PROVE  NextId \in PacketIds /\ NextId \notin DOMAIN flights /\ NextId # loop.id
  BY DEF FreeId, NextId

LEMMA CrtPublishType ==
    ASSUME ShadowTypeOK, NEW command, CommandOK(command), CrtPublish(command)
    PROVE  /\ Messages(outbox') /\ \A p \in Range(outbox') : PacketOK(p)
           /\ records' \subseteq PacketIds
           /\ DOMAIN flights' \subseteq PacketIds
           /\ \A id \in DOMAIN flights' : flights'[id] \in {"sent", "done", "failed", "listened"}
<1>1. CASE connected
  <2>1. /\ FreeId # {}
        /\ outbox' = Append(outbox, Packet(NextId, command))
        /\ records' = records \cup {NextId}
        /\ flights' = Update(flights, One(NextId, "listened"))
    BY <1>1 DEF CrtPublish
  <2>2. Messages(outbox') /\ Range(outbox') = Range(outbox) \cup {Packet(NextId, command)}
    BY <2>1, Appended DEF ShadowTypeOK, Messages
  <2>3. PacketOK(Packet(NextId, command))
    BY <2>1, NextIdFree, PacketsOK
  <2> QED BY <2>1, <2>2, <2>3, NextIdFree DEF ShadowTypeOK, Update, One
<1>2. CASE ~connected
  BY <1>2 DEF CrtPublish, ShadowTypeOK, published, Messages
<1> QED BY <1>1, <1>2

-------------------------------------------------------------------------------
(* What is in flight: the handler of the loop is the only one that waits   *)
(* to add a callback, and every message in the outbox has a flight of its  *)
(* own that has not ended.                                                 *)
Flights ==
    /\ loop.pc \in {"sent", "recorded"} =>
            loop.id \in DOMAIN flights /\ flights[loop.id] \in {"sent", "done", "failed"}
    /\ \A id \in DOMAIN flights :
            flights[id] # "listened" => loop.pc \in {"sent", "recorded"} /\ loop.id = id
    /\ \A i \in DOMAIN outbox :
            outbox[i].id \in DOMAIN flights /\ flights[outbox[i].id] \in {"sent", "listened"}
    /\ \A i, j \in DOMAIN outbox : outbox[i].id = outbox[j].id => i = j

FlightsInv == ShadowTypeOK /\ Flights /\ RecordedUntilCompleted

LEMMA Ended ==
    ASSUME NEW id
    PROVE  /\ DOMAIN Restrict(flights, DOMAIN flights \ {id}) = DOMAIN flights \ {id}
           /\ \A k \in DOMAIN flights \ {id} :
                  Restrict(flights, DOMAIN flights \ {id})[k] = flights[k]
  BY DEF Restrict

(* The steps of a handler on the loop's thread.                            *)
LEMMA BeginType ==
    ASSUME ShadowTypeOK, NEW command, CommandOK(command), NEW poll \in BOOLEAN, Begin(command, poll)
    PROVE  /\ loop' \in [pc : {"idle", "ready", "sent", "recorded"}, command : {loop'.command},
                         id : PacketIds \cup {0}, poll : BOOLEAN]
           /\ CommandOK(loop'.command)
  BY DEF Begin

LEMMA FinishType ==
    ASSUME ShadowTypeOK, Finish
    PROVE  /\ loop' \in [pc : {"idle", "ready", "sent", "recorded"}, command : {loop'.command},
                         id : PacketIds \cup {0}, poll : BOOLEAN]
           /\ CommandOK(loop'.command)
           /\ DetailsOK'
<1>1. /\ loop' \in [pc : {"idle", "ready", "sent", "recorded"}, command : {loop'.command},
                     id : PacketIds \cup {0}, poll : BOOLEAN]
      /\ CommandOK(loop'.command)
  BY CommandsOK DEF Finish, Idle
<1>2. DetailsOK'
  BY DetailsType DEF ShadowTypeOK, Finish, DetailsOK
<1> QED BY <1>1, <1>2

LEMMA LoopType ==
    ASSUME FlightsInv, Loop
    PROVE  ShadowTypeOK'
<1> USE DEF FlightsInv
<1>1. CASE Publish
  <2>1. /\ FreeId # {}
        /\ outbox' = Append(outbox, Packet(NextId, loop.command))
        /\ flights' = Update(flights, One(NextId, "sent"))
        /\ loop' = [loop EXCEPT !.pc = "sent", !.id = NextId]
        /\ UNCHANGED <<robotVars, inbox, connected, data, activity, details, crt, records, history, budget>>
    BY <1>1 DEF Publish
  <2>2. Messages(outbox') /\ Range(outbox') = Range(outbox) \cup {Packet(NextId, loop.command)}
    BY <2>1, Appended DEF ShadowTypeOK, Messages
  <2>3. PacketOK(Packet(NextId, loop.command))
    BY <2>1, NextIdFree, PacketsOK DEF ShadowTypeOK
  <2>4. /\ DOMAIN flights' \subseteq PacketIds
        /\ \A id \in DOMAIN flights' : flights'[id] \in {"sent", "done", "failed", "listened"}
    BY <2>1, NextIdFree DEF ShadowTypeOK, Update, One
  <2>5. /\ loop' \in [pc : {"idle", "ready", "sent", "recorded"}, command : {loop'.command},
                      id : PacketIds \cup {0}, poll : BOOLEAN]
        /\ CommandOK(loop'.command)
    BY <2>1, NextIdFree DEF ShadowTypeOK
  <2> QED BY <2>1, <2>2, <2>3, <2>4, <2>5 DEF ShadowTypeOK, robotVars, history, Messages, DetailsOK
<1>2. CASE PublishRefused
  BY <1>2, FinishType DEF PublishRefused, ShadowTypeOK, robotVars, wire, published, history
<1>3. CASE Record
  <2>1. /\ loop' \in [pc : {"idle", "ready", "sent", "recorded"}, command : {loop'.command},
                      id : PacketIds \cup {0}, poll : BOOLEAN]
        /\ CommandOK(loop'.command)
    BY <1>3 DEF ShadowTypeOK, Record
  <2>2. UNCHANGED <<robotVars, wire, data, activity, details, crt, flights, history, budget>>
    BY <1>3 DEF Record
  <2>3. records' \subseteq PacketIds
    BY <1>3 DEF Record, ShadowTypeOK, Flights
  <2> QED BY <2>1, <2>2, <2>3 DEF ShadowTypeOK, robotVars, wire, history, DetailsOK
<1>4. CASE AddCallback
  <2>1. /\ DOMAIN flights' \subseteq PacketIds /\ records' \subseteq PacketIds
        /\ \A id \in DOMAIN flights' : flights'[id] \in {"sent", "done", "failed", "listened"}
    <3>1. loop.id \in DOMAIN flights /\ flights[loop.id] \in {"sent", "done", "failed"}
      BY <1>4 DEF AddCallback, Flights
    <3>2. CASE flights[loop.id] = "sent"
      BY <1>4, <3>1, <3>2 DEF AddCallback, ShadowTypeOK
    <3>3. CASE flights[loop.id] # "sent"
      <4>1. /\ flights' = Restrict(flights, DOMAIN flights \ {loop.id})
            /\ records' \subseteq records
        BY <1>4, <3>1, <3>3 DEF AddCallback
      <4>2. DOMAIN flights' = DOMAIN flights \ {loop.id} /\ \A id \in DOMAIN flights' : flights'[id] = flights[id]
        BY <4>1, Ended
      <4>3. /\ DOMAIN flights \subseteq PacketIds /\ records \subseteq PacketIds
            /\ \A id \in DOMAIN flights : flights[id] \in {"sent", "done", "failed", "listened"}
        BY DEF ShadowTypeOK
      <4> QED BY <4>1, <4>2, <4>3
    <3> QED BY <3>2, <3>3
  <2>2. Finish /\ UNCHANGED <<robotVars, wire, data, activity, crt, history, budget>>
    BY <1>4 DEF AddCallback
  <2> QED BY <2>1, <2>2, FinishType DEF ShadowTypeOK, robotVars, wire, history
<1> QED BY <1>1, <1>2, <1>3, <1>4 DEF Loop

(* The steps of the CRT's thread.                                          *)
LEMMA MessagesOK ==
    ASSUME ShadowTypeOK
    PROVE  /\ MessageOK(Answer)
           /\ \A mode \in Mode : MessageOK(Accepted(mode))
           /\ \A f : Of(RobotKey, f) => MessageOK(Report(f))
           /\ \A remote \in Heading \cup {"exit"} : MessageOK(Dynamic(remote))
  BY OfNothing DEF ShadowTypeOK, MessageOK, Answer, Accepted, Report, Dynamic, ToClient

LEMMA BrokerTakesType ==
    ASSUME ShadowTypeOK, NEW packet, PacketOK(packet), BrokerTakes(packet)
    PROVE  /\ Of(RobotKey \cup {"duration"}, desired')
           /\ Messages(inbox') /\ \A m \in Range(inbox') : MessageOK(m)
           /\ reported' = reported
<1>1. Of(RobotKey \cup {"duration"}, desired')
  BY OfUpdate DEF BrokerTakes, ShadowTypeOK, PacketOK
<1>2. PICK more : /\ inbox' = inbox \/ inbox' = Append(inbox, more)
                  /\ inbox' = inbox \/ MessageOK(more)
  <2>1. "mode" \in DOMAIN packet.payload => packet.payload["mode"] \in Mode
    BY ValuesOfKeys DEF PacketOK, Of
  <2>2. \/ inbox' = inbox
        \/ inbox' = Append(inbox, Answer)
        \/ "mode" \in DOMAIN packet.payload /\ inbox' = Append(inbox, Accepted(packet.payload["mode"]))
    BY DEF BrokerTakes
  <2> QED BY <2>1, <2>2, MessagesOK
<1>3. Messages(inbox) /\ \A m \in Range(inbox) : MessageOK(m)
  BY DEF ShadowTypeOK, Messages
<1>4. Messages(inbox') /\ \A m \in Range(inbox') : MessageOK(m)
  <2>1. CASE inbox' = inbox
    BY <2>1, <1>3
  <2>2. CASE inbox' # inbox
    <3>1. inbox' = Append(inbox, more) /\ MessageOK(more)
      BY <2>2, <1>2
    <3>2. Messages(inbox') /\ Range(inbox') = Range(inbox) \cup {more}
      BY <3>1, <1>3, Appended
    <3> QED BY <3>1, <3>2, <1>3
  <2> QED BY <2>1, <2>2
<1> QED BY <1>1, <1>4 DEF BrokerTakes

LEMMA SendType ==
    ASSUME FlightsInv, Send
    PROVE  ShadowTypeOK'
<1> DEFINE id == Head(outbox).id
<1>1. /\ outbox # <<>> /\ outbox' = Tail(outbox) /\ BrokerTakes(Head(outbox))
      /\ UNCHANGED <<connected, data, activity, details, loop, crt, history, budget>>
  BY DEF Send
<1>2. /\ Messages(outbox') /\ Range(outbox') \subseteq Range(outbox)
      /\ Head(outbox) \in Range(outbox) /\ Head(outbox) = outbox[1] /\ 1 \in DOMAIN outbox
  BY <1>1, Tailed DEF FlightsInv, ShadowTypeOK, Messages
<1>3. PacketOK(Head(outbox)) /\ id \in DOMAIN flights
  BY <1>2 DEF FlightsInv, ShadowTypeOK, Flights
<1>4. /\ Of(RobotKey \cup {"duration"}, desired')
      /\ Messages(inbox') /\ \A m \in Range(inbox') : MessageOK(m)
      /\ reported' = reported
  BY <1>1, <1>3, BrokerTakesType DEF FlightsInv
<1>5. /\ DOMAIN flights \subseteq PacketIds /\ records \subseteq PacketIds
      /\ \A k \in DOMAIN flights : flights[k] \in {"sent", "done", "failed", "listened"}
  BY DEF FlightsInv, ShadowTypeOK
<1>6. /\ DOMAIN flights' \subseteq PacketIds /\ records' \subseteq PacketIds
      /\ \A k \in DOMAIN flights' : flights'[k] \in {"sent", "done", "failed", "listened"}
  <2>1. CASE flights[id] = "sent"
    <3>1. flights' = [flights EXCEPT ![id] = "done"] /\ records' = records
      BY <2>1 DEF Send
    <3> QED BY <3>1, <1>5
  <2>2. CASE flights[id] # "sent"
    <3>1. flights' = Restrict(flights, DOMAIN flights \ {id}) /\ records' = records \ {id}
      BY <2>2 DEF Send
    <3>2. DOMAIN flights' = DOMAIN flights \ {id} /\ \A k \in DOMAIN flights' : flights'[k] = flights[k]
      BY <3>1, Ended
    <3> QED BY <3>1, <3>2, <1>5
  <2> QED BY <2>1, <2>2
<1> QED BY <1>1, <1>2, <1>4, <1>6 DEF FlightsInv, ShadowTypeOK, Messages, history, DetailsOK

LEMMA DeliverType ==
    ASSUME FlightsInv, NEW i \in 1 .. Len(inbox), Deliver(i)
    PROVE  ShadowTypeOK'
<1> DEFINE m == inbox[i]
<1>1. Messages(inbox) /\ i \in DOMAIN inbox /\ m \in Range(inbox) /\ MessageOK(m)
  BY DEF FlightsInv, ShadowTypeOK, Messages, Range
<1>2. Messages(inbox') /\ \A k \in Range(inbox') : MessageOK(k)
  <2>1. inbox' = RemoveAt(inbox, i)
    BY DEF Deliver
  <2> QED BY <2>1, <1>1, Removed DEF FlightsInv, ShadowTypeOK
<1>3. Of(RobotKey, data')
  <2>1. data' = Update(data, m.reported)
    BY DEF Deliver, Merge
  <2> QED BY <2>1, <1>1, OfUpdate DEF FlightsInv, ShadowTypeOK, MessageOK
<1>4. activity' \in Heading \cup {NoActivity}
  <2>1. activity' = ActivityAfter(m.remote) /\ m.remote \in Heading \cup {NoActivity, "exit"}
    BY <1>1 DEF Deliver, MessageOK
  <2>2. activity \in Heading \cup {NoActivity}
    BY DEF FlightsInv, ShadowTypeOK
  <2> QED BY <2>1, <2>2 DEF ActivityAfter
<1>5. crt' \in Mode \cup {NoMode}
  BY <1>1 DEF Deliver, MessageOK
<1>6. /\ Messages(outbox') /\ \A p \in Range(outbox') : PacketOK(p)
      /\ records' \subseteq PacketIds /\ DOMAIN flights' \subseteq PacketIds
      /\ \A id \in DOMAIN flights' : flights'[id] \in {"sent", "done", "failed", "listened"}
  <2>1. CASE CrtPublish(Request)
    BY <2>1, CrtPublishType, CommandsOK DEF FlightsInv
  <2>2. CASE UNCHANGED <<outbox, published>>
    BY <2>2 DEF FlightsInv, ShadowTypeOK, published, Messages
  <2> QED BY <2>1, <2>2 DEF Deliver
<1>7. Of(LedKey, chosen')
  BY OfRestrict, OfMore DEF Deliver, FlightsInv, ShadowTypeOK, Of, Restrict
<1>8. faults' \subseteq {"lost", "overtaken"}
  BY DEF Deliver, FlightsInv, ShadowTypeOK
<1>9. UNCHANGED <<robotVars, connected, details, loop, budget>>
  BY DEF Deliver
<1> QED BY <1>2, <1>3, <1>4, <1>5, <1>6, <1>7, <1>8, <1>9
        DEF FlightsInv, ShadowTypeOK, Messages, robotVars, DetailsOK

LEMMA SetCycleTimeType ==
    ASSUME FlightsInv, SetCycleTime
    PROVE  ShadowTypeOK'
<1>1. crt \in Mode /\ CommandOK(Desire("duration", crt))
  BY CommandsOK, ValuesOfKeys DEF SetCycleTime, FlightsInv, ShadowTypeOK
<1>2. /\ Messages(outbox') /\ \A p \in Range(outbox') : PacketOK(p)
      /\ records' \subseteq PacketIds /\ DOMAIN flights' \subseteq PacketIds
      /\ \A id \in DOMAIN flights' : flights'[id] \in {"sent", "done", "failed", "listened"}
  BY <1>1, CrtPublishType DEF SetCycleTime, FlightsInv
<1> QED BY <1>2 DEF SetCycleTime, FlightsInv, ShadowTypeOK, Messages, robotVars, history, DetailsOK

-------------------------------------------------------------------------------
(* The actions of the user, and the poll.                                  *)
LEMMA ActType ==
    ASSUME ShadowTypeOK, NEW command, CommandOK(command), Act(command),
           Of(RobotKey, data'), Of(LedKey, chosen')
    PROVE  ShadowTypeOK'
<1>1. /\ loop' \in [pc : {"idle", "ready", "sent", "recorded"}, command : {loop'.command},
                     id : PacketIds \cup {0}, poll : BOOLEAN]
      /\ CommandOK(loop'.command)
  BY BeginType DEF Act
<1>2. budget' \in 0 .. MaxEvents
  BY ShadowAssumption DEF Act, ShadowTypeOK
<1>3. UNCHANGED <<robotVars, wire, activity, details, crt, published, faults>>
  BY DEF Act
<1> QED BY <1>1, <1>2, <1>3 DEF ShadowTypeOK, robotVars, wire, published, DetailsOK

LEMMA PlainType ==
    ASSUME ShadowTypeOK, NEW command, CommandOK(command), Plain(command)
    PROVE  ShadowTypeOK'
<1>1. Of(RobotKey, data') /\ Of(LedKey, chosen')
  BY DEF Plain, ShadowTypeOK
<1> QED BY <1>1, ActType DEF Plain

LEMMA SetLedType ==
    ASSUME ShadowTypeOK, NEW key \in LedKey, NEW value \in LedValue, SetLed(key, value)
    PROVE  ShadowTypeOK'
<1>1. Of(LedKey, One(key, value)) /\ Of(RobotKey, One(key, value))
  BY OfOne, ValuesOfKeys
<1>2. CASE DOMAIN LedOf(data) = {}
  <2> DEFINE f == [k \in LedKey |-> DefaultLed]
  <2>1. Of(LedKey, f)
    BY ShadowAssumption, ValuesOfKeys DEF Of
  <2>2. Of(LedKey, Update(f, One(key, value)))
    <3> HIDE DEF f
    <3> QED BY <1>1, <2>1, OfUpdate
  <2>3. /\ Act(Command("update", Update(f, One(key, value)), FALSE))
        /\ chosen' = One(key, value) /\ data' = data
    BY <1>2 DEF SetLed
  <2> HIDE DEF f
  <2>4. Of(RobotKey, data')
    BY <2>3 DEF ShadowTypeOK
  <2> QED BY <1>1, <2>2, <2>3, <2>4, ActType, CommandsOK
<1>3. CASE DOMAIN LedOf(data) # {}
  <2>1. /\ Act(SharedLed)
        /\ data' = Update(data, One(key, value)) /\ chosen' = Update(chosen, One(key, value))
    BY <1>3 DEF SetLed
  <2>2. Of(RobotKey, data') /\ Of(LedKey, chosen')
    BY <1>1, <2>1, OfUpdate DEF ShadowTypeOK
  <2> QED BY <2>1, <2>2, ActType, CommandsOK
<1> QED BY <1>2, <1>3

LEMMA UserType ==
    ASSUME ShadowTypeOK, User
    PROVE  ShadowTypeOK'
<1>1. ASSUME NEW mode \in Mode, SetCleaningMode(mode)
      PROVE  ShadowTypeOK'
  BY <1>1, PlainType, CommandsOK, ValuesOfKeys DEF SetCleaningMode
<1>2. CASE VacuumStart
  BY <1>2, PlainType, CommandsOK, ValuesOfKeys, ModeOfType DEF VacuumStart
<1>3. CASE PickUp
  BY <1>3, PlainType, CommandsOK, ValuesOfKeys, ShadowAssumption DEF PickUp
<1>4. CASE VacuumPause
  BY <1>4, PlainType, CommandsOK, ValuesOfKeys, ShadowAssumption DEF VacuumPause
<1>5. CASE VacuumLocate
  BY <1>5, SetLedType, ShadowAssumption DEF VacuumLocate
<1>6. CASE SetJoystickMode \/ ExitJoystickMode
  BY <1>6, PlainType, CommandsOK DEF SetJoystickMode, ExitJoystickMode
<1>7. ASSUME NEW key \in LedKey, NEW value \in LedValue, SetLed(key, value)
      PROVE  ShadowTypeOK'
  BY <1>7, SetLedType
<1> QED BY <1>1, <1>2, <1>3, <1>4, <1>5, <1>6, <1>7 DEF User

LEMMA PollType ==
    ASSUME ShadowTypeOK, PollAsks \/ Poll
    PROVE  ShadowTypeOK'
<1>1. CASE PollAsks
  BY <1>1, BeginType, CommandsOK
     DEF PollAsks, ShadowTypeOK, robotVars, wire, published, history, DetailsOK
<1>2. CASE Poll
  BY <1>2, DetailsType DEF Poll, ShadowTypeOK, robotVars, wire, published, history, DetailsOK
<1> QED BY <1>1, <1>2

-------------------------------------------------------------------------------
(* What happens outside.                                                   *)
LEMMA NotifyType ==
    ASSUME ShadowTypeOK, NEW m, MessageOK(m), Notify(m)
    PROVE  Messages(inbox') /\ \A k \in Range(inbox') : MessageOK(k)
<1>1. Messages(inbox) /\ \A k \in Range(inbox) : MessageOK(k)
  BY DEF ShadowTypeOK, Messages
<1>2. CASE connected
  <2>1. inbox' = Append(inbox, m)
    BY <1>2 DEF Notify
  <2>2. Messages(inbox') /\ Range(inbox') = Range(inbox) \cup {m}
    BY <2>1, <1>1, Appended
  <2> QED BY <2>2, <1>1
<1>3. CASE ~connected
  BY <1>1, <1>3 DEF Notify
<1> QED BY <1>2, <1>3

(* The robot sets a key, of its own or as desired.                         *)
LEMMA RobotSetsType ==
    ASSUME ShadowTypeOK, NEW key \in RobotKey, NEW value \in Value(key),
           reported' = [reported EXCEPT ![key] = value], Notify(Report(One(key, value)))
    PROVE  /\ DOMAIN reported' = RobotKey /\ Of(RobotKey, reported')
           /\ Messages(inbox') /\ \A k \in Range(inbox') : MessageOK(k)
<1>1. Of(RobotKey, One(key, value))
  BY OfOne
<1>2. MessageOK(Report(One(key, value)))
  BY <1>1, MessagesOK
<1> QED BY <1>2, NotifyType DEF ShadowTypeOK, Of

LEMMA OutsideType ==
    ASSUME FlightsInv, Outside
    PROVE  ShadowTypeOK'
<1> USE DEF FlightsInv
<1>1. ASSUME External
      PROVE  /\ budget' \in 0 .. MaxEvents
             /\ UNCHANGED <<outbox, connected, data, activity, details, loop, crt, published, chosen>>
  BY <1>1, ShadowAssumption DEF External, ShadowTypeOK
<1>2. ASSUME NEW key \in RobotKey, NEW value \in Value(key), RobotChanges(key, value)
      PROVE  ShadowTypeOK'
  <2>1. /\ External /\ UNCHANGED <<desired, faults>>
        /\ reported' = [reported EXCEPT ![key] = value] /\ Notify(Report(One(key, value)))
    BY <1>2 DEF RobotChanges
  <2>2. /\ DOMAIN reported' = RobotKey /\ Of(RobotKey, reported')
        /\ Messages(inbox') /\ \A k \in Range(inbox') : MessageOK(k)
    BY <2>1, RobotSetsType
  <2> QED BY <1>1, <2>1, <2>2 DEF ShadowTypeOK, Messages, published, DetailsOK
<1>3. ASSUME NEW mode \in Mode, AppDesires(mode)
      PROVE  ShadowTypeOK'
  <2>1. Of(RobotKey \cup {"duration"}, desired')
    BY <1>3, OfOne, OfUpdate, ValuesOfKeys DEF AppDesires, ShadowTypeOK
  <2>2. Messages(inbox') /\ \A k \in Range(inbox') : MessageOK(k)
    BY <1>3, MessagesOK, NotifyType DEF AppDesires
  <2>3. External /\ reported' = reported /\ faults' \subseteq {"lost", "overtaken"}
    BY <1>3 DEF AppDesires, ShadowTypeOK
  <2> QED BY <1>1, <2>1, <2>2, <2>3 DEF ShadowTypeOK, Messages, published, DetailsOK
<1>4. ASSUME NEW remote \in Heading \cup {"exit"}, RemoteAnnounces(remote)
      PROVE  ShadowTypeOK'
  <2>1. Messages(inbox') /\ \A k \in Range(inbox') : MessageOK(k)
    BY <1>4, MessagesOK, NotifyType DEF RemoteAnnounces
  <2>2. External /\ UNCHANGED <<robotVars, faults>>
    BY <1>4 DEF RemoteAnnounces
  <2> QED BY <1>1, <2>1, <2>2 DEF ShadowTypeOK, Messages, robotVars, published, DetailsOK
<1>5. ASSUME NEW key \in {"power", "mode"} \cup LedKey, RobotFollows(key)
      PROVE  ShadowTypeOK'
  <2>1. key \in RobotKey /\ desired[key] \in Value(key)
    BY <1>5, ValuesOfKeys DEF RobotFollows, ShadowTypeOK, Of
  <2>2. /\ DOMAIN reported' = RobotKey /\ Of(RobotKey, reported')
        /\ Messages(inbox') /\ \A k \in Range(inbox') : MessageOK(k)
    BY <1>5, <2>1, RobotSetsType DEF RobotFollows
  <2> QED BY <1>5, <2>2 DEF RobotFollows, ShadowTypeOK, Messages, published, history, DetailsOK
<1>6. CASE Lose
  <2>1. /\ connected' = FALSE /\ inbox' = <<>> /\ outbox' = <<>>
        /\ UNCHANGED <<robotVars, data, activity, details, loop, crt, records, chosen>>
    BY <1>6 DEF Lose
  <2>2. /\ DOMAIN flights' \subseteq PacketIds
        /\ \A id \in DOMAIN flights' : flights'[id] \in {"sent", "done", "failed", "listened"}
    BY <1>6 DEF Lose, ShadowTypeOK
  <2>3. budget' \in 0 .. MaxEvents /\ faults' \subseteq {"lost", "overtaken"}
    BY <1>6, ShadowAssumption DEF Lose, ShadowTypeOK
  <2>4. /\ Messages(inbox') /\ \A k \in Range(inbox') : MessageOK(k)
        /\ Messages(outbox') /\ \A k \in Range(outbox') : PacketOK(k)
    BY <2>1 DEF Messages, Range
  <2> QED BY <2>1, <2>2, <2>3, <2>4 DEF ShadowTypeOK, Messages, robotVars, DetailsOK
<1>7. CASE Connect
  BY <1>7, BeginType, CommandsOK
     DEF Connect, ShadowTypeOK, robotVars, published, history, DetailsOK
<1> QED BY <1>2, <1>3, <1>4, <1>5, <1>6, <1>7, ValuesOfKeys DEF Outside

LEMMA ShadowInitType ==
    ASSUME ShadowInit
    PROVE  FlightsInv
<1>1. Messages(<<>>) /\ Range(<<>>) = {}
  BY DEF Messages, Range
<1>2. /\ loop \in [pc : {"idle", "ready", "sent", "recorded"}, command : {loop.command},
                   id : PacketIds \cup {0}, poll : BOOLEAN]
      /\ CommandOK(loop.command)
  BY CommandsOK DEF ShadowInit, Idle
<1>3. /\ Of(RobotKey \cup {"duration"}, desired) /\ Of(RobotKey, data) /\ Of(LedKey, chosen)
      /\ DOMAIN flights = {} /\ DOMAIN reported = RobotKey /\ Of(RobotKey, reported)
  BY OfNothing, FirstAssumption DEF ShadowInit, Nothing
<1>4. ShadowTypeOK
  <2>1. /\ Messages(inbox) /\ \A m \in Range(inbox) : MessageOK(m)
        /\ Messages(outbox) /\ \A p \in Range(outbox) : PacketOK(p)
    BY <1>1 DEF ShadowInit
  <2>2. DetailsOK /\ connected \in BOOLEAN /\ activity \in Heading \cup {NoActivity}
    BY DEF ShadowInit, DetailsOK
  <2>3. /\ crt \in Mode \cup {NoMode} /\ records \subseteq PacketIds
        /\ faults \subseteq {"lost", "overtaken"} /\ budget \in 0 .. MaxEvents
    BY ShadowAssumption DEF ShadowInit
  <2>4. /\ DOMAIN flights \subseteq PacketIds
        /\ \A id \in DOMAIN flights : flights[id] \in {"sent", "done", "failed", "listened"}
    BY <1>3
  <2> QED BY <1>2, <1>3, <2>1, <2>2, <2>3, <2>4 DEF ShadowTypeOK, Messages
<1>5. Flights /\ RecordedUntilCompleted
  BY <1>3 DEF ShadowInit, Flights, RecordedUntilCompleted, Idle
<1> QED BY <1>4, <1>5 DEF FlightsInv

LEMMA TypeStep ==
    ASSUME FlightsInv, [ShadowNext]_shadowVars
    PROVE  ShadowTypeOK'
<1>1. CASE UNCHANGED shadowVars
  BY <1>1 DEF shadowVars, FlightsInv, ShadowTypeOK, DetailsOK
<1>2. CASE Crt
  BY <1>2, SendType, DeliverType, SetCycleTimeType DEF Crt
<1>3. CASE Loop \/ User \/ Outside \/ PollAsks \/ Poll
  BY <1>3, LoopType, UserType, OutsideType, PollType DEF FlightsInv
<1> QED BY <1>1, <1>2, <1>3 DEF ShadowNext

-------------------------------------------------------------------------------
(* A message with a fresh id joins the outbox, with a flight of its own.   *)
LEMMA FlightAdded ==
    ASSUME FlightsInv, FreeId # {}, NEW command, NEW state \in {"sent", "listened"},
           outbox' = Append(outbox, Packet(NextId, command)),
           flights' = Update(flights, One(NextId, state))
    PROVE  /\ DOMAIN flights' = DOMAIN flights \cup {NextId} /\ flights'[NextId] = state
           /\ \A id \in DOMAIN flights : flights'[id] = flights[id]
           /\ \A i \in DOMAIN outbox' :
                  outbox'[i].id \in DOMAIN flights' /\ flights'[outbox'[i].id] \in {"sent", "listened"}
           /\ \A i, j \in DOMAIN outbox' : outbox'[i].id = outbox'[j].id => i = j
<1>1. NextId \notin DOMAIN flights
  BY NextIdFree
<1>2. /\ DOMAIN flights' = DOMAIN flights \cup {NextId} /\ flights'[NextId] = state
      /\ \A id \in DOMAIN flights : flights'[id] = flights[id]
  BY <1>1 DEF Update, One
<1>3. /\ Len(outbox) \in Nat /\ DOMAIN outbox = 1 .. Len(outbox)
      /\ DOMAIN outbox' = 1 .. Len(outbox) + 1
      /\ \A i \in 1 .. Len(outbox) : outbox'[i] = outbox[i]
      /\ outbox'[Len(outbox) + 1].id = NextId
  <2> DEFINE p == Packet(NextId, command)
             T == Range(outbox) \cup {p}
  <2>1. p.id = NextId
    BY DEF Packet
  <2>2. outbox \in Seq(Range(outbox))
    BY DEF FlightsInv, ShadowTypeOK
  <2>3. outbox \in Seq(T) /\ p \in T
    BY <2>2
  <2> HIDE DEF p, T
  <2>4. /\ Len(outbox) \in Nat /\ DOMAIN outbox = 1 .. Len(outbox)
        /\ DOMAIN Append(outbox, p) = 1 .. Len(outbox) + 1
        /\ \A i \in 1 .. Len(outbox) : Append(outbox, p)[i] = outbox[i]
        /\ Append(outbox, p)[Len(outbox) + 1] = p
    BY <2>3
  <2> QED BY <2>1, <2>4 DEF p
<1>4. \A i \in 1 .. Len(outbox) :
          /\ outbox[i].id \in DOMAIN flights /\ flights[outbox[i].id] \in {"sent", "listened"}
          /\ \A j \in 1 .. Len(outbox) : outbox[i].id = outbox[j].id => i = j
  BY <1>3 DEF FlightsInv, Flights
<1>5. \A i \in DOMAIN outbox' :
          outbox'[i].id \in DOMAIN flights' /\ flights'[outbox'[i].id] \in {"sent", "listened"}
  <2> TAKE i \in DOMAIN outbox'
  <2>1. CASE i \in 1 .. Len(outbox)
    BY <2>1, <1>2, <1>3, <1>4
  <2>2. CASE i = Len(outbox) + 1
    BY <2>2, <1>2, <1>3
  <2> QED BY <2>1, <2>2, <1>3
<1>6. \A i, j \in DOMAIN outbox' : outbox'[i].id = outbox'[j].id => i = j
  BY <1>1, <1>3, <1>4
<1> QED BY <1>2, <1>5, <1>6

LEMMA CrtPublishFlights ==
    ASSUME FlightsInv, NEW command, CrtPublish(command), loop' = loop
    PROVE  Flights' /\ RecordedUntilCompleted'
<1>1. CASE connected
  <2>1. /\ FreeId # {} /\ records' = records \cup {NextId}
        /\ outbox' = Append(outbox, Packet(NextId, command))
        /\ flights' = Update(flights, One(NextId, "listened"))
    BY <1>1 DEF CrtPublish
  <2>2. /\ DOMAIN flights' = DOMAIN flights \cup {NextId} /\ flights'[NextId] = "listened"
        /\ \A id \in DOMAIN flights : flights'[id] = flights[id]
        /\ \A i \in DOMAIN outbox' :
               outbox'[i].id \in DOMAIN flights' /\ flights'[outbox'[i].id] \in {"sent", "listened"}
        /\ \A i, j \in DOMAIN outbox' : outbox'[i].id = outbox'[j].id => i = j
    BY <2>1, FlightAdded
  <2> QED BY <2>1, <2>2 DEF FlightsInv, Flights, RecordedUntilCompleted
<1>2. CASE ~connected
  BY <1>2 DEF CrtPublish, published, FlightsInv, Flights, RecordedUntilCompleted
<1> QED BY <1>1, <1>2

LEMMA LoopFlights ==
    ASSUME FlightsInv, Loop
    PROVE  Flights' /\ RecordedUntilCompleted'
<1>1. CASE Publish
  <2>1. /\ FreeId # {} /\ records' = records /\ loop.pc = "ready"
        /\ outbox' = Append(outbox, Packet(NextId, loop.command))
        /\ flights' = Update(flights, One(NextId, "sent"))
        /\ loop'.pc = "sent" /\ loop'.id = NextId
    BY <1>1 DEF Publish, history, FlightsInv, ShadowTypeOK
  <2>2. /\ DOMAIN flights' = DOMAIN flights \cup {NextId} /\ flights'[NextId] = "sent"
        /\ \A id \in DOMAIN flights : flights'[id] = flights[id]
        /\ \A i \in DOMAIN outbox' :
               outbox'[i].id \in DOMAIN flights' /\ flights'[outbox'[i].id] \in {"sent", "listened"}
        /\ \A i, j \in DOMAIN outbox' : outbox'[i].id = outbox'[j].id => i = j
    BY <2>1, FlightAdded
  <2>3. \A id \in DOMAIN flights : flights[id] = "listened" /\ id \in records
    BY <2>1 DEF FlightsInv, Flights, RecordedUntilCompleted
  <2> QED BY <2>1, <2>2, <2>3 DEF Flights, RecordedUntilCompleted
<1>2. CASE PublishRefused
  BY <1>2 DEF PublishRefused, Finish, Idle, wire, published, FlightsInv, Flights, RecordedUntilCompleted
<1>3. CASE Record
  <2>1. /\ loop'.pc = "recorded" /\ loop'.id = loop.id /\ loop.pc = "sent"
        /\ records' = records \cup {loop.id} /\ UNCHANGED <<outbox, flights>>
    BY <1>3 DEF Record, wire, FlightsInv, ShadowTypeOK
  <2> QED BY <2>1 DEF FlightsInv, Flights, RecordedUntilCompleted
<1>4. CASE AddCallback
  <2>1. /\ loop.pc = "recorded" /\ loop.id \in DOMAIN flights /\ loop.id \in records
        /\ flights[loop.id] \in {"sent", "done", "failed"}
        /\ \A id \in DOMAIN flights : id # loop.id => flights[id] = "listened" /\ id \in records
    BY <1>4 DEF AddCallback, FlightsInv, Flights, RecordedUntilCompleted
  <2>2. loop'.pc = "idle" /\ outbox' = outbox
    BY <1>4 DEF AddCallback, Finish, Idle, wire
  <2>3. CASE flights[loop.id] = "sent"
    <3>1. flights' = [flights EXCEPT ![loop.id] = "listened"] /\ records' = records
      BY <1>4, <2>3 DEF AddCallback
    <3> QED BY <2>1, <2>2, <3>1 DEF FlightsInv, Flights, RecordedUntilCompleted
  <2>4. CASE flights[loop.id] # "sent"
    <3>1. /\ flights' = Restrict(flights, DOMAIN flights \ {loop.id})
          /\ records' = records \/ records' = records \ {loop.id}
      BY <1>4, <2>1, <2>4 DEF AddCallback
    <3>2. DOMAIN flights' = DOMAIN flights \ {loop.id} /\ \A id \in DOMAIN flights' : flights'[id] = flights[id]
      BY <3>1, Ended
    <3>3. \A i \in DOMAIN outbox : outbox[i].id # loop.id
      BY <2>1, <2>4 DEF FlightsInv, Flights
    <3> QED BY <2>1, <2>2, <3>1, <3>2, <3>3 DEF FlightsInv, Flights, RecordedUntilCompleted
  <2> QED BY <2>3, <2>4
<1> QED BY <1>1, <1>2, <1>3, <1>4 DEF Loop

LEMMA SendFlights ==
    ASSUME FlightsInv, Send
    PROVE  Flights' /\ RecordedUntilCompleted'
<1> DEFINE id == Head(outbox).id
<1>1. /\ outbox # <<>> /\ outbox' = Tail(outbox) /\ loop' = loop
  BY DEF Send
<1>2. /\ Head(outbox) = outbox[1] /\ 1 \in DOMAIN outbox /\ Len(outbox) \in Nat
      /\ DOMAIN outbox = 1 .. Len(outbox) /\ DOMAIN outbox' = 1 .. Len(outbox) - 1
      /\ \A i \in DOMAIN outbox' : outbox'[i] = outbox[i + 1]
  BY <1>1, Tailed DEF FlightsInv, ShadowTypeOK, Messages
<1>3. id \in DOMAIN flights /\ flights[id] \in {"sent", "listened"}
  BY <1>2 DEF FlightsInv, Flights
<1>4. /\ \A i \in DOMAIN outbox' : /\ outbox'[i].id # id /\ outbox'[i].id \in DOMAIN flights
                                  /\ flights[outbox'[i].id] \in {"sent", "listened"}
      /\ \A i, j \in DOMAIN outbox' : outbox'[i].id = outbox'[j].id => i = j
  <2>1. \A i \in DOMAIN outbox' : i + 1 \in DOMAIN outbox /\ i + 1 # 1 /\ i \in Int
    BY <1>2
  <2>2. /\ \A i \in DOMAIN outbox : /\ outbox[i].id \in DOMAIN flights
                                   /\ flights[outbox[i].id] \in {"sent", "listened"}
        /\ \A i, j \in DOMAIN outbox : outbox[i].id = outbox[j].id => i = j
    BY DEF FlightsInv, Flights
  <2>3. \A i, j \in Int : i + 1 = j + 1 => i = j
    OBVIOUS
  <2> QED BY <1>2, <2>1, <2>2, <2>3
<1> HIDE DEF id
<1>5. CASE flights[id] = "sent"
  <2>1. flights' = [flights EXCEPT ![id] = "done"] /\ records' = records
    BY <1>5 DEF Send, id
  <2> QED BY <1>1, <1>3, <1>4, <1>5, <2>1 DEF FlightsInv, Flights, RecordedUntilCompleted
<1>6. CASE flights[id] # "sent"
  <2>1. flights' = Restrict(flights, DOMAIN flights \ {id}) /\ records' = records \ {id}
    BY <1>6 DEF Send, id
  <2>2. DOMAIN flights' = DOMAIN flights \ {id} /\ \A k \in DOMAIN flights' : flights'[k] = flights[k]
    BY <2>1, Ended
  <2>3. flights[id] = "listened"
    BY <1>3, <1>6
  <2> QED BY <1>1, <1>3, <1>4, <2>1, <2>2, <2>3 DEF FlightsInv, Flights, RecordedUntilCompleted
<1> QED BY <1>5, <1>6

LEMMA OtherFlights ==
    ASSUME FlightsInv,
           SetCycleTime \/ User \/ Outside \/ PollAsks \/ Poll \/ \E i \in 1 .. Len(inbox) : Deliver(i)
    PROVE  Flights' /\ RecordedUntilCompleted'
<1>1. CASE SetCycleTime
  BY <1>1, CrtPublishFlights DEF SetCycleTime
<1>2. ASSUME NEW i \in 1 .. Len(inbox), Deliver(i)
      PROVE  Flights' /\ RecordedUntilCompleted'
  <2>1. loop' = loop /\ (CrtPublish(Request) \/ UNCHANGED <<outbox, published>>)
    BY <1>2 DEF Deliver
  <2>2. CASE UNCHANGED <<outbox, published>>
    BY <2>1, <2>2 DEF FlightsInv, Flights, RecordedUntilCompleted, published
  <2> QED BY <2>1, <2>2, CrtPublishFlights
<1>3. ASSUME NEW command, NEW poll, Begin(command, poll), UNCHANGED <<outbox, published>>
      PROVE  Flights' /\ RecordedUntilCompleted'
  BY <1>3 DEF Begin, FlightsInv, Flights, RecordedUntilCompleted, published
<1>4. CASE User
  <2>1. PICK command : Act(command)
    BY <1>4 DEF User, SetCleaningMode, VacuumStart, PickUp, VacuumPause, VacuumLocate,
                SetJoystickMode, ExitJoystickMode, Plain, SetLed
  <2> QED BY <1>3, <2>1 DEF Act, wire
<1>5. CASE Connect
  BY <1>3, <1>5 DEF Connect
<1>6. CASE PollAsks
  BY <1>3, <1>6 DEF PollAsks, wire
<1>7. CASE Lose
  <2>1. /\ outbox' = <<>> /\ loop' = loop /\ records' = records
        /\ flights' = [id \in {i \in DOMAIN flights : flights[i] # "listened"} |->
                            IF flights[id] = "sent" THEN "failed" ELSE flights[id]]
    BY <1>7 DEF Lose
  <2>2. DOMAIN outbox' = {}
    BY <2>1
  <2>3. /\ \A id \in DOMAIN flights' : /\ id \in DOMAIN flights /\ flights[id] # "listened"
                                     /\ flights'[id] = IF flights[id] = "sent" THEN "failed" ELSE flights[id]
        /\ \A id \in DOMAIN flights : flights[id] # "listened" => id \in DOMAIN flights'
    BY <2>1
  <2> QED BY <2>1, <2>2, <2>3 DEF FlightsInv, Flights, RecordedUntilCompleted
<1>8. CASE Poll \/ (Outside /\ ~Lose /\ ~Connect)
  <2>1. UNCHANGED <<outbox, loop, published>>
    BY <1>8 DEF Poll, wire, Outside, RobotChanges, AppDesires, RemoteAnnounces, RobotFollows, External
  <2> QED BY <2>1 DEF FlightsInv, Flights, RecordedUntilCompleted, published
<1> QED BY <1>1, <1>2, <1>4, <1>5, <1>6, <1>7, <1>8

LEMMA FlightsStep ==
    ASSUME FlightsInv, [ShadowNext]_shadowVars
    PROVE  FlightsInv'
<1>1. Flights' /\ RecordedUntilCompleted'
  <2>1. CASE UNCHANGED shadowVars
    BY <2>1 DEF shadowVars, FlightsInv, Flights, RecordedUntilCompleted
  <2>2. CASE ShadowNext
    BY <2>2, LoopFlights, SendFlights, OtherFlights DEF ShadowNext, Crt
  <2> QED BY <2>1, <2>2
<1> QED BY <1>1, TypeStep DEF FlightsInv

-------------------------------------------------------------------------------
(* Every variable keeps its type: the sections of the shadow, what is      *)
(* under way, what the entities show.                                      *)
THEOREM ShadowTypes == ShadowSpec => []ShadowTypeOK
<1>1. ShadowInit => FlightsInv
  BY ShadowInitType
<1>2. FlightsInv /\ [ShadowNext]_shadowVars => FlightsInv'
  BY FlightsStep
<1>3. FlightsInv => ShadowTypeOK
  BY DEF FlightsInv
<1> QED BY <1>1, <1>2, <1>3, PTL DEF ShadowSpec

(* Every publishing that completes finds its record, in whatever order the *)
(* two threads publish and complete, and whatever is lost.                 *)
THEOREM PublishingsAreRecorded == ShadowSpec => []RecordedUntilCompleted
<1>1. ShadowInit => FlightsInv
  BY ShadowInitType
<1>2. FlightsInv /\ [ShadowNext]_shadowVars => FlightsInv'
  BY FlightsStep
<1>3. FlightsInv => RecordedUntilCompleted
  BY DEF FlightsInv
<1> QED BY <1>1, <1>2, <1>3, PTL DEF ShadowSpec

-------------------------------------------------------------------------------
(* What the entities show was derived as a whole from one state of data.   *)
LEMMA DetailsStep ==
    ASSUME FlightsInv, DetailsAgree, [ShadowNext]_shadowVars
    PROVE  DetailsAgree'
<1>1. details' \in {details, Details(data, activity)}
  <2>1. CASE UNCHANGED shadowVars
    BY <2>1 DEF shadowVars
  <2>2. CASE Loop
    BY <2>2 DEF Loop, Publish, PublishRefused, Record, AddCallback, Finish
  <2>3. CASE Crt
    BY <2>3 DEF Crt, Send, SetCycleTime, Deliver
  <2>4. CASE User
    BY <2>4 DEF User, SetCleaningMode, VacuumStart, PickUp, VacuumPause, VacuumLocate,
                SetJoystickMode, ExitJoystickMode, Plain, SetLed, Act
  <2>5. CASE Outside
    BY <2>5 DEF Outside, RobotChanges, AppDesires, RemoteAnnounces, RobotFollows, Lose, Connect, External
  <2>6. CASE PollAsks \/ Poll
    BY <2>6 DEF PollAsks, Poll
  <2> QED BY <2>1, <2>2, <2>3, <2>4, <2>5, <2>6 DEF ShadowNext
<1>2. CASE details' = details
  BY <1>2, CalculatedAsDocumented DEF DetailsAgree
<1>3. CASE details' = Details(data, activity)
  <2>1. PowerOf(data) \in PowerSupplyState /\ RobotOf(data) \in RobotState
    BY ValuesOfKeys, ShadowAssumption
       DEF FlightsInv, ShadowTypeOK, Of, PowerOf, RobotOf, RobotState
  <2>2. StatesInTable(PowerOf(data), RobotOf(data)) = {Calculated(PowerOf(data), RobotOf(data))}
    BY <2>1, CalculatedAsDocumented DEF TableAgrees
  <2>3. /\ details'.power = PowerOf(data) /\ details'.robot = RobotOf(data)
        /\ details'.calculated = Calculated(PowerOf(data), RobotOf(data))
    BY <1>3 DEF Details
  <2> QED BY <2>2, <2>3, CalculatedAsDocumented DEF DetailsAgree
<1> QED BY <1>1, <1>2, <1>3

(* The calculated state that is shown is, always, the documented one for   *)
(* the states of power supply and robot that are shown with it.            *)
THEOREM DetailsAsDocumented == ShadowSpec => []DetailsAgree
<1>1. ShadowInit => FlightsInv /\ DetailsAgree
  BY ShadowInitType, CalculatedAsDocumented DEF ShadowInit, DetailsAgree
<1>2. FlightsInv /\ DetailsAgree /\ [ShadowNext]_shadowVars => (FlightsInv /\ DetailsAgree)'
  BY FlightsStep, DetailsStep
<1> QED BY <1>1, <1>2, PTL DEF ShadowSpec

-------------------------------------------------------------------------------
(* The choices for the LED stay in data once it has an LED section, and a  *)
(* command that carries a payload of its own carries the last choice.      *)
LedInv ==
    /\ \A key \in DOMAIN chosen \cap DOMAIN data : data[key] = chosen[key]
    /\ loop.pc = "ready" /\ ~loop.command.shared =>
           \A key \in DOMAIN chosen \cap DOMAIN loop.command.payload :
               loop.command.payload[key] = chosen[key]

LEMMA LedInvSuffices ==
    ASSUME FlightsInv, LedInv
    PROVE  LedChoicesCompose
<1>1. SUFFICES ASSUME loop.pc = "ready", NEW key \in DOMAIN chosen \cap DOMAIN Payload(loop.command)
               PROVE  Payload(loop.command)[key] = chosen[key]
  BY DEF LedChoicesCompose
<1>2. CASE loop.command.shared
  <2>1. Payload(loop.command) = Restrict(data, DOMAIN data \cap LedKey)
    BY <1>2 DEF Payload, LedOf
  <2>2. key \in DOMAIN data /\ Payload(loop.command)[key] = data[key]
    BY <1>1, <2>1 DEF Restrict
  <2> QED BY <1>1, <2>2 DEF LedInv
<1>3. CASE ~loop.command.shared
  BY <1>1, <1>3 DEF Payload, LedInv
<1> QED BY <1>2, <1>3

(* A step that begins no command and sets no key of data.                  *)
LEMMA LedKept ==
    ASSUME LedInv, UNCHANGED <<data, chosen>>,
           loop' = loop \/ loop'.pc # "ready"
    PROVE  LedInv'
  BY DEF LedInv

LEMMA LedBegun ==
    ASSUME LedInv, UNCHANGED <<data, chosen>>, NEW command, loop'.command = command,
           command.shared \/ DOMAIN chosen \cap DOMAIN command.payload = {}
    PROVE  LedInv'
  BY DEF LedInv

LEMMA LedOfUser ==
    ASSUME FlightsInv, LedInv, User
    PROVE  LedInv'
<1>1. DOMAIN chosen \subseteq LedKey
  BY DEF FlightsInv, ShadowTypeOK, Of
<1>2. ASSUME NEW command, Plain(command),
             command = Request \/ (\E key \in {"mode", "power"} : \E value : command = Desire(key, value))
      PROVE  LedInv'
  <2>1. UNCHANGED <<data, chosen>> /\ loop'.command = command
    BY <1>2 DEF Plain, Act, Begin
  <2>2. DOMAIN chosen \cap DOMAIN command.payload = {}
    BY <1>1, <1>2, ShadowAssumption DEF Request, Desire, Command, One, Nothing
  <2> QED BY <2>1, <2>2, LedBegun
<1>3. ASSUME NEW key \in LedKey, NEW value, SetLed(key, value)
      PROVE  LedInv'
  <2>1. CASE DOMAIN LedOf(data) = {}
    <3> DEFINE payload == Update([k \in LedKey |-> DefaultLed], One(key, value))
    <3>1. /\ chosen' = One(key, value) /\ data' = data
          /\ loop'.command.payload = payload
      BY <1>3, <2>1 DEF SetLed, Act, Begin, Command
    <3>2. payload[key] = value /\ chosen' = [k \in {key} |-> value]
      BY <3>1 DEF Update, One
    <3>3. key \notin DOMAIN data
      BY <2>1 DEF LedOf, Restrict
    <3> QED BY <3>1, <3>2, <3>3 DEF LedInv
  <2>2. CASE DOMAIN LedOf(data) # {}
    <3>1. /\ data' = Update(data, One(key, value)) /\ chosen' = Update(chosen, One(key, value))
          /\ loop'.command.shared
      BY <1>3, <2>2 DEF SetLed, Act, Begin, SharedLed, Command
    <3>2. /\ DOMAIN data' = DOMAIN data \cup {key} /\ DOMAIN chosen' = DOMAIN chosen \cup {key}
          /\ data'[key] = value /\ chosen'[key] = value
          /\ \A k \in DOMAIN data : k # key => data'[k] = data[k]
          /\ \A k \in DOMAIN chosen : k # key => chosen'[k] = chosen[k]
      BY <3>1 DEF Update, One
    <3> QED BY <3>1, <3>2 DEF LedInv
  <2> QED BY <2>1, <2>2
<1> QED BY <1>2, <1>3, ShadowAssumption DEF User, SetCleaningMode, VacuumStart, PickUp, VacuumPause, VacuumLocate,
                          SetJoystickMode, ExitJoystickMode

LEMMA LedStep ==
    ASSUME FlightsInv, LedInv, [ShadowNext]_shadowVars
    PROVE  LedInv'
<1>1. ASSUME NEW i \in 1 .. Len(inbox), Deliver(i)
      PROVE  LedInv'
  <2> DEFINE part == inbox[i].reported
  <2>1. data' = Update(data, part) /\ chosen' = Restrict(chosen, DOMAIN chosen \ DOMAIN part) /\ loop' = loop
    BY <1>1 DEF Deliver, Merge
  <2> HIDE DEF part
  <2>2. /\ DOMAIN chosen' = DOMAIN chosen \ DOMAIN part
        /\ \A key \in DOMAIN chosen' : chosen'[key] = chosen[key]
    BY <2>1 DEF Restrict
  <2>3. \A key \in DOMAIN data' : key \notin DOMAIN part => key \in DOMAIN data /\ data'[key] = data[key]
    BY <2>1 DEF Update
  <2> QED BY <2>1, <2>2, <2>3 DEF LedInv
<1>2. CASE Loop
  <2>1. UNCHANGED <<data, chosen>>
    BY <1>2 DEF Loop, Publish, PublishRefused, Record, AddCallback, history
  <2>2. loop'.pc # "ready"
    <3>1. CASE Publish \/ Record
      <4>1. loop'.pc \in {"sent", "recorded"}
        BY <3>1 DEF Publish, Record, FlightsInv, ShadowTypeOK
      <4> QED BY <4>1
    <3>2. CASE PublishRefused \/ AddCallback
      <4>1. loop' = Idle
        BY <3>2 DEF PublishRefused, AddCallback, Finish
      <4> QED BY <4>1 DEF Idle
    <3> QED BY <1>2, <3>1, <3>2 DEF Loop
  <2> QED BY <2>1, <2>2, LedKept
<1>3. CASE Send \/ SetCycleTime \/ Poll \/ UNCHANGED shadowVars
  BY <1>3, LedKept DEF Send, SetCycleTime, Poll, history, shadowVars
<1>4. CASE Connect \/ PollAsks
  <2>1. UNCHANGED <<data, chosen>> /\ loop'.command = Get
    BY <1>4 DEF Connect, PollAsks, Begin, history
  <2> QED BY <2>1, LedBegun DEF Get, Command, Nothing
<1>5. CASE Outside /\ ~Connect
  BY <1>5, LedKept DEF Outside, RobotChanges, AppDesires, RemoteAnnounces, RobotFollows, Lose, External, history
<1> QED BY <1>1, <1>2, <1>3, <1>4, <1>5, LedOfUser DEF ShadowNext, Crt

(* An LED command never takes back an earlier choice for the LED that the  *)
(* robot has not reported on, whatever is refused, lost or delivered       *)
(* between the change in data and the publishing.                          *)
THEOREM LedChoicesAreKept == ShadowSpec => []LedChoicesCompose
<1>1. ShadowInit => FlightsInv /\ LedInv
  BY ShadowInitType DEF ShadowInit, LedInv, Idle, Nothing
<1>2. FlightsInv /\ LedInv /\ [ShadowNext]_shadowVars => (FlightsInv /\ LedInv)'
  BY FlightsStep, LedStep
<1>3. FlightsInv /\ LedInv => LedChoicesCompose
  BY LedInvSuffices
<1> QED BY <1>1, <1>2, <1>3, PTL DEF ShadowSpec

-------------------------------------------------------------------------------
(* Where the messages are, after one was sent or delivered.                *)
LEMMA AppendedAt ==
    ASSUME NEW s, Messages(s), NEW e
    PROVE  /\ Len(s) \in Nat /\ DOMAIN s = 1 .. Len(s)
           /\ DOMAIN Append(s, e) = 1 .. Len(s) + 1
           /\ \A i \in 1 .. Len(s) : Append(s, e)[i] = s[i]
           /\ Append(s, e)[Len(s) + 1] = e
<1> DEFINE T == Range(s) \cup {e}
<1>1. s \in Seq(T) /\ e \in T
  BY DEF Messages
<1> HIDE DEF T
<1> QED BY <1>1

LEMMA FirstRemoved ==
    ASSUME NEW s, Messages(s), 1 \in DOMAIN s
    PROVE  /\ Len(s) \in Nat /\ DOMAIN s = 1 .. Len(s)
           /\ DOMAIN RemoveAt(s, 1) = 1 .. Len(s) - 1
           /\ \A i \in 1 .. Len(s) - 1 : RemoveAt(s, 1)[i] = s[i + 1]
<1>1. s \in Seq(Range(s)) /\ Len(s) \in Nat /\ DOMAIN s = 1 .. Len(s) /\ Len(s) >= 1
  BY DEF Messages
<1> DEFINE front == SubSeq(s, 1, 1 - 1)
           rest  == SubSeq(s, 1 + 1, Len(s))
<1>2. /\ front \in Seq(Range(s)) /\ Len(front) = 0
      /\ rest \in Seq(Range(s)) /\ Len(rest) = Len(s) - 1
      /\ \A i \in 1 .. Len(s) - 1 : rest[i] = s[i + 1]
  BY <1>1
<1>3. RemoveAt(s, 1) = front \o rest
  BY DEF RemoveAt
<1> HIDE DEF front, rest
<1>4. /\ DOMAIN (front \o rest) = 1 .. Len(s) - 1
      /\ \A i \in 1 .. Len(s) - 1 : (front \o rest)[i] = rest[i]
  <2> DEFINE R == Range(s)
             n == Len(s) - 1
  <2>1. front \in Seq(R) /\ Len(front) = 0 /\ rest \in Seq(R) /\ Len(rest) = n /\ n \in Nat
    BY <1>1, <1>2
  <2> HIDE DEF R, n
  <2>2. front \o rest \in Seq(R) /\ Len(front \o rest) = n
    BY <2>1
  <2>3. DOMAIN (front \o rest) = 1 .. n
    BY <2>2
  <2>4. \A i \in 1 .. n : (front \o rest)[i] = rest[i]
    BY <2>1
  <2> QED BY <2>3, <2>4 DEF n
<1> QED BY <1>1, <1>2, <1>3, <1>4

(* The latest of some places, after a new one came and after the first one *)
(* went.                                                                   *)
LEMMA LatestAdded ==
    ASSUME NEW n \in Nat, NEW S \in SUBSET (1 .. n), NEW i, Latest(i, S \cup {n + 1})
    PROVE  i = n + 1
  BY DEF Latest

LEMMA LatestShifted ==
    ASSUME NEW n \in Nat, NEW S \in SUBSET (1 .. n), NEW T \in SUBSET (1 .. n - 1),
           \A j \in 1 .. n - 1 : j \in T <=> j + 1 \in S
    PROVE  /\ \A i \in T : Latest(i, T) => i + 1 \in S /\ Latest(i + 1, S)
           /\ T = {} /\ 1 \in S => Latest(1, S)
           /\ T = {} /\ 1 \notin S => S = {}
<1>1. \A j \in S : j = 1 \/ (j - 1 \in T /\ j - 1 \in 1 .. n - 1)
  <2> TAKE j \in S
  <2>1. j \in 1 .. n
    OBVIOUS
  <2>2. j # 1 => j - 1 \in 1 .. n - 1 /\ (j - 1) + 1 = j
    BY <2>1
  <2> QED BY <2>2
<1>2. ASSUME NEW i \in T, Latest(i, T)
      PROVE  i + 1 \in S /\ Latest(i + 1, S)
  <2>1. i \in 1 .. n - 1 /\ i + 1 \in S
    OBVIOUS
  <2>2. \A j \in S : j <= i + 1
    <3> TAKE j \in S
    <3>1. j \in Int /\ i \in Int /\ 1 <= i
      BY <2>1
    <3>2. CASE j = 1
      BY <3>1, <3>2
    <3>3. CASE j - 1 \in T
      BY <1>2, <3>1, <3>3 DEF Latest
    <3> QED BY <1>1, <3>2, <3>3
  <2> QED BY <2>1, <2>2 DEF Latest
<1> QED BY <1>1, <1>2 DEF Latest

-------------------------------------------------------------------------------
(* The commands of the entities and of the coordinator set no cycle time,  *)
(* and only updates carry a payload.                                       *)
LEMMA Forms ==
    /\ InForm(Get) /\ InForm(Request) /\ InForm(SharedLed)
    /\ \A value : InForm(Desire("mode", value)) /\ InForm(Desire("power", value))
    /\ \A f : DOMAIN f = LedKey => InForm(Command("update", f, FALSE))
  BY ShadowAssumption DEF InForm, Get, Request, SharedLed, Desire, Command, Nothing, One

LEMMA UserInForm ==
    ASSUME User
    PROVE  \E command : Act(command) /\ InForm(command)
<1>1. ASSUME NEW key \in LedKey, NEW value, SetLed(key, value)
      PROVE  \E command : Act(command) /\ InForm(command)
  <2> DEFINE f == Update([k \in LedKey |-> DefaultLed], One(key, value))
  <2>1. DOMAIN f = LedKey
    BY DEF Update, One
  <2>2. Act(Command("update", f, FALSE)) \/ Act(SharedLed)
    BY <1>1 DEF SetLed
  <2> HIDE DEF f
  <2> QED BY <2>1, <2>2, Forms
<1> QED BY <1>1, Forms, ShadowAssumption
        DEF User, SetCleaningMode, VacuumStart, PickUp, VacuumPause, VacuumLocate, SetJoystickMode,
            ExitJoystickMode, Plain

(* What a published command adds to the outbox.                            *)
LEMMA PacketInForm ==
    ASSUME ShadowTypeOK, NEW id, NEW command, InForm(command)
    PROVE  /\ "duration" \notin DOMAIN Packet(id, command).payload
           /\ Packet(id, command).topic # "update" => DOMAIN Packet(id, command).payload = {}
<1>1. DOMAIN LedOf(data) \subseteq LedKey
  BY DEF LedOf, Restrict
<1> QED BY <1>1, ShadowAssumption DEF InForm, Packet, Payload

(* How the outbox changes: a command in form joins it, the callback adds a *)
(* cycle time, the first message is sent, or all is lost.                  *)
OutboxAdds(command) == outbox' = Append(outbox, Packet(NextId, command))

LEMMA OutboxStep ==
    ASSUME FlightsInv, CommandsInForm, [ShadowNext]_shadowVars
    PROVE  \/ outbox' = outbox
           \/ connected /\ \E command : InForm(command) /\ OutboxAdds(command)
           \/ SetCycleTime /\ connected /\ OutboxAdds(Desire("duration", crt))
           \/ Send
           \/ Lose
<1>1. CASE Loop
  BY <1>1 DEF Loop, Publish, PublishRefused, Record, AddCallback, wire, OutboxAdds, CommandsInForm
<1>2. CASE Crt
  BY <1>2, Forms DEF Crt, SetCycleTime, Deliver, CrtPublish, OutboxAdds
<1>3. CASE User
  BY <1>3, UserInForm DEF Act, wire
<1>4. CASE Outside \/ PollAsks \/ Poll \/ UNCHANGED shadowVars
  BY <1>4 DEF Outside, RobotChanges, AppDesires, RemoteAnnounces, RobotFollows, Connect, External,
      PollAsks, Poll, wire, shadowVars
<1> QED BY <1>1, <1>2, <1>3, <1>4 DEF ShadowNext

LEMMA FormStep ==
    ASSUME FlightsInv, CommandsInForm, [ShadowNext]_shadowVars
    PROVE  CommandsInForm'
<1>0. Messages(outbox) /\ \A i \in DOMAIN outbox : outbox[i].topic # "update" => DOMAIN outbox[i].payload = {}
  BY DEF FlightsInv, ShadowTypeOK, Messages, CommandsInForm
<1>1. InForm(loop'.command)
  <2>1. CASE Publish \/ Record
    <3>1. loop'.command = loop.command
      BY <2>1 DEF Publish, Record, FlightsInv, ShadowTypeOK
    <3> QED BY <3>1 DEF CommandsInForm
  <2>2. CASE PublishRefused \/ AddCallback
    <3>1. loop' = Idle
      BY <2>2 DEF PublishRefused, AddCallback, Finish
    <3>2. Idle.command = Get
      BY DEF Idle
    <3> QED BY <3>1, <3>2, Forms
  <2>3. CASE User
    BY <2>3, UserInForm DEF Act, Begin
  <2>4. CASE Connect \/ PollAsks
    BY <2>4, Forms DEF Connect, PollAsks, Begin
  <2>5. CASE Crt \/ (Outside /\ ~Connect) \/ Poll \/ UNCHANGED shadowVars
    <3>1. loop' = loop
      BY <2>5 DEF Crt, Send, SetCycleTime, Deliver, Outside, RobotChanges, AppDesires,
          RemoteAnnounces, RobotFollows, Lose, External, Poll, shadowVars
    <3> QED BY <3>1 DEF CommandsInForm
  <2> QED BY <2>1, <2>2, <2>3, <2>4, <2>5 DEF ShadowNext, Loop
<1>2. ASSUME NEW p, outbox' = Append(outbox, p), p.topic # "update" => DOMAIN p.payload = {}
      PROVE  \A i \in DOMAIN outbox' : outbox'[i].topic # "update" => DOMAIN outbox'[i].payload = {}
  <2>1. /\ DOMAIN outbox = 1 .. Len(outbox) /\ Len(outbox) \in Nat
        /\ DOMAIN outbox' = 1 .. Len(outbox) + 1
        /\ \A i \in 1 .. Len(outbox) : outbox'[i] = outbox[i]
        /\ outbox'[Len(outbox) + 1] = p
    BY <1>0, <1>2, AppendedAt
  <2>2. \A i \in DOMAIN outbox' : i \in 1 .. Len(outbox) \/ i = Len(outbox) + 1
    BY <2>1
  <2> QED BY <1>0, <1>2, <2>1, <2>2
<1>3. \A i \in DOMAIN outbox' : outbox'[i].topic # "update" => DOMAIN outbox'[i].payload = {}
  <2>1. CASE outbox' = outbox
    BY <1>0, <2>1
  <2>2. ASSUME NEW command, InForm(command), OutboxAdds(command)
        PROVE  \A i \in DOMAIN outbox' : outbox'[i].topic # "update" => DOMAIN outbox'[i].payload = {}
    BY <1>2, <2>2, PacketInForm DEF OutboxAdds, FlightsInv
  <2>3. CASE OutboxAdds(Desire("duration", crt))
    BY <1>2, <2>3 DEF OutboxAdds, Packet, Desire, Command
  <2>4. CASE Send
    <3>1. outbox' = Tail(outbox) /\ outbox # <<>>
      BY <2>4 DEF Send
    <3>2. \A i \in DOMAIN outbox' : outbox'[i] = outbox[i + 1] /\ i + 1 \in DOMAIN outbox
      BY <1>0, <3>1, Tailed
    <3> QED BY <1>0, <3>2
  <2>5. CASE Lose
    BY <2>5 DEF Lose
  <2> QED BY <2>1, <2>2, <2>3, <2>4, <2>5, OutboxStep
<1> QED BY <1>1, <1>3 DEF CommandsInForm

(* No history forgets a fault, and without one the connection is not lost. *)
LEMMA FaultsStay ==
    ASSUME [ShadowNext]_shadowVars
    PROVE  /\ faults' = {} => faults = {}
           /\ faults' = {} /\ ~connected' => ~connected
<1>1. CASE Loop \/ Poll \/ PollAsks \/ User \/ Send \/ SetCycleTime \/ UNCHANGED shadowVars
  <2>1. UNCHANGED <<connected, faults>>
    <3>1. CASE Loop
      BY <3>1 DEF Loop, Publish, PublishRefused, Record, AddCallback, history, wire
    <3>2. CASE User
      BY <3>2, UserInForm DEF Act, wire
    <3>3. CASE Poll \/ PollAsks \/ Send \/ SetCycleTime \/ UNCHANGED shadowVars
      BY <3>3 DEF Poll, PollAsks, Send, SetCycleTime, history, wire, shadowVars
    <3> QED BY <1>1, <3>1, <3>2, <3>3
  <2> QED BY <2>1
<1>2. ASSUME NEW i, Deliver(i)
      PROVE  connected' = connected /\ faults \subseteq faults'
  BY <1>2 DEF Deliver
<1>3. CASE Outside
  <2>1. CASE Lose
    BY <2>1 DEF Lose
  <2>2. CASE Connect
    BY <2>2 DEF Connect, history
  <2>3. CASE Outside /\ ~Lose /\ ~Connect
    <3>1. connected' = connected /\ faults \subseteq faults'
      BY <2>3 DEF Outside, RobotChanges, AppDesires, RemoteAnnounces, RobotFollows, External, history
    <3> QED BY <3>1
  <2> QED BY <1>3, <2>1, <2>2, <2>3
<1> QED BY <1>1, <1>2, <1>3 DEF ShadowNext, Crt

LEMMA CalmStep ==
    ASSUME FlightsInv, CalmAtFirst, [ShadowNext]_shadowVars
    PROVE  CalmAtFirst'
<1> SUFFICES ASSUME faults' = {}, ~connected'
             PROVE  /\ inbox' = <<>> /\ outbox' = <<>> /\ crt' = NoMode
                    /\ "mode" \notin DOMAIN desired' /\ DOMAIN data' = {}
  BY DEF CalmAtFirst
<1>1. ~connected /\ inbox = <<>> /\ outbox = <<>> /\ crt = NoMode /\ "mode" \notin DOMAIN desired /\ DOMAIN data = {}
  BY FaultsStay DEF CalmAtFirst
<1>2. CASE Loop \/ PollAsks \/ Poll \/ UNCHANGED shadowVars
  <2>1. UNCHANGED <<inbox, outbox, crt, desired, data>>
    BY <1>1, <1>2 DEF Loop, Publish, PublishRefused, Record, AddCallback, PollAsks, Poll, robotVars, wire, shadowVars
  <2> QED BY <1>1, <2>1
<1>3. CASE Crt
  BY <1>1, <1>3 DEF Crt, Send, SetCycleTime, Deliver
<1>4. CASE User
  <2>1. UNCHANGED <<inbox, outbox, crt, desired>>
    BY <1>4, UserInForm DEF Act, robotVars, wire
  <2>2. ASSUME NEW key, NEW value, SetLed(key, value)
        PROVE  data' = data
    <3>1. DOMAIN LedOf(data) = {}
      BY <1>1 DEF LedOf, Restrict
    <3> QED BY <2>2, <3>1 DEF SetLed
  <2>3. data' = data
    BY <1>4, <2>2 DEF User, SetCleaningMode, VacuumStart, PickUp, VacuumPause, VacuumLocate,
        SetJoystickMode, ExitJoystickMode, Plain
  <2> QED BY <1>1, <2>1, <2>3
<1>5. CASE Outside
  <2>1. ~Lose /\ ~Connect
    BY <1>1 DEF Lose, Connect
  <2>2. \A mode : ~AppDesires(mode)
    BY <1>1 DEF AppDesires
  <2>3. UNCHANGED <<inbox, outbox, crt, desired, data>>
    BY <1>1, <1>5, <2>1, <2>2 DEF Outside, RobotChanges, RemoteAnnounces, RobotFollows, External, Notify, robotVars
  <2> QED BY <1>1, <2>3
<1> QED BY <1>2, <1>3, <1>4, <1>5 DEF ShadowNext

-------------------------------------------------------------------------------
(* The wishes for a mode, as the messages move on.  Other messages that    *)
(* join the queues leave them where they are, ...                          *)
LEMMA AcceptingKept ==
    ASSUME Messages(inbox),
           inbox' = inbox \/ \E m : inbox' = Append(inbox, m) /\ m.mode = NoMode
    PROVE  Accepting' = Accepting /\ \A i \in Accepting : inbox'[i] = inbox[i]
<1>1. CASE inbox' = inbox
  BY <1>1 DEF Accepting
<1>2. ASSUME NEW m, inbox' = Append(inbox, m), m.mode = NoMode
      PROVE  Accepting' = Accepting /\ \A i \in Accepting : inbox'[i] = inbox[i]
  BY <1>2, AppendedAt DEF Accepting
<1> QED BY <1>1, <1>2

LEMMA TimedKept ==
    ASSUME Messages(outbox),
           outbox' = outbox \/ \E p : outbox' = Append(outbox, p) /\ "duration" \notin DOMAIN p.payload
    PROVE  Timed' = Timed /\ \A i \in Timed : outbox'[i] = outbox[i]
<1>1. CASE outbox' = outbox
  BY <1>1 DEF Timed
<1>2. ASSUME NEW p, outbox' = Append(outbox, p), "duration" \notin DOMAIN p.payload
      PROVE  Timed' = Timed /\ \A i \in Timed : outbox'[i] = outbox[i]
  BY <1>2, AppendedAt DEF Timed
<1> QED BY <1>1, <1>2

SameWishes ==
    /\ Accepting' = Accepting /\ \A i \in Accepting : inbox'[i] = inbox[i]
    /\ Timed' = Timed /\ \A i \in Timed : outbox'[i] = outbox[i]
    /\ UNCHANGED <<desired, crt>>

LEMMA WishesKept ==
    ASSUME WishesInOrder, SameWishes, faults' = {} => faults = {}
    PROVE  WishesInOrder'
  BY DEF WishesInOrder, SameWishes

(* ... a new mode that is accepted becomes the latest, ...                 *)
LEMMA WishAccepted ==
    ASSUME Messages(inbox), NEW m, inbox' = Append(inbox, m), m.mode # NoMode,
           m.mode = desired'["mode"]
    PROVE  WishesInOrder'
<1>1. Accepting \in SUBSET (1 .. Len(inbox)) /\ Len(inbox) \in Nat
  BY AppendedAt DEF Accepting
<1>2. Accepting' = Accepting \cup {Len(inbox) + 1} /\ inbox'[Len(inbox) + 1] = m
  BY AppendedAt DEF Accepting
<1>3. \A i \in Accepting' : Latest(i, Accepting') => i = Len(inbox) + 1
  BY <1>1, <1>2, LatestAdded
<1> QED BY <1>2, <1>3 DEF WishesInOrder

(* ... and what the callback slept for becomes the latest cycle time.      *)
LEMMA CycleTimeStep ==
    ASSUME FlightsInv, CalmAtFirst, WishesInOrder, SetCycleTime
    PROVE  WishesInOrder'
<1> DEFINE p == Packet(NextId, Desire("duration", crt))
<1> SUFFICES ASSUME faults' = {}, "mode" \in DOMAIN desired'
             PROVE  /\ \A i \in Accepting' : Latest(i, Accepting') => inbox'[i].mode = desired'["mode"]
                    /\ Accepting' = {} =>
                           /\ \A i \in Timed' :
                                 Latest(i, Timed') => outbox'[i].payload["duration"] = desired'["mode"]
                           /\ Timed' # {}
  BY DEF WishesInOrder, SetCycleTime
<1>1. crt # NoMode /\ crt' = NoMode /\ UNCHANGED <<desired, inbox, connected, faults>>
  BY DEF SetCycleTime, robotVars, history
<1>2. connected /\ outbox' = Append(outbox, p)
  BY <1>1 DEF CalmAtFirst, SetCycleTime, CrtPublish
<1>3. p.payload = One("duration", crt)
  BY DEF Packet, Payload, Desire, Command
<1>4. "duration" \in DOMAIN p.payload /\ p.payload["duration"] = crt
  BY <1>3 DEF One
<1> HIDE DEF p
<1>5. Messages(outbox)
  BY DEF FlightsInv, ShadowTypeOK, Messages
<1>6. Timed \in SUBSET (1 .. Len(outbox)) /\ Len(outbox) \in Nat
  BY <1>5, AppendedAt DEF Timed
<1>7. Timed' = Timed \cup {Len(outbox) + 1} /\ outbox'[Len(outbox) + 1] = p
  BY <1>2, <1>4, <1>5, AppendedAt DEF Timed
<1>8. \A i \in Timed' : Latest(i, Timed') => outbox'[i].payload["duration"] = crt
  BY <1>4, <1>6, <1>7, LatestAdded
<1>9. Accepting' = Accepting
  BY <1>1 DEF Accepting
<1> QED BY <1>1, <1>7, <1>8, <1>9 DEF WishesInOrder

(* The broker takes the first command: a cycle time becomes the desired    *)
(* one, a mode comes back as accepted.                                     *)
LEMMA TimeSent ==
    ASSUME WishesInOrder, Messages(outbox), outbox # <<>>, outbox' = Tail(outbox),
           crt = NoMode, crt' = NoMode, faults' = faults,
           Accepting' = Accepting, \A i \in Accepting : inbox'[i] = inbox[i],
           "mode" \in DOMAIN desired' => "mode" \in DOMAIN desired /\ desired'["mode"] = desired["mode"],
           IF 1 \in Timed
           THEN "duration" \in DOMAIN desired' /\ desired'["duration"] = outbox[1].payload["duration"]
           ELSE "duration" \in DOMAIN desired
                    => "duration" \in DOMAIN desired' /\ desired'["duration"] = desired["duration"]
    PROVE  WishesInOrder'
<1> DEFINE n == Len(outbox)
<1>1. n \in Nat /\ Timed \in SUBSET (1 .. n) /\ Timed' \in SUBSET (1 .. n - 1)
  BY Tailed DEF Timed
<1>2. \A j \in 1 .. n - 1 : outbox'[j] = outbox[j + 1] /\ (j \in Timed' <=> j + 1 \in Timed)
  BY Tailed DEF Timed
<1> HIDE DEF n
<1>3. /\ \A i \in Timed' : Latest(i, Timed') => i + 1 \in Timed /\ Latest(i + 1, Timed)
      /\ Timed' = {} /\ 1 \in Timed => Latest(1, Timed)
      /\ Timed' = {} /\ 1 \notin Timed => Timed = {}
  BY <1>1, <1>2, LatestShifted
<1>4. \A i \in Timed' : outbox'[i] = outbox[i + 1]
  BY <1>1, <1>2
<1> SUFFICES ASSUME faults = {}, "mode" \in DOMAIN desired'
             PROVE  Accepting = {} =>
                       /\ \A i \in Timed' :
                             Latest(i, Timed') => outbox'[i].payload["duration"] = desired'["mode"]
                       /\ Timed' = {} =>
                             "duration" \in DOMAIN desired' /\ desired'["duration"] = desired'["mode"]
  BY DEF WishesInOrder
<1> QED BY <1>3, <1>4 DEF WishesInOrder

LEMMA SendWishes ==
    ASSUME FlightsInv, CommandsInForm, WishesInOrder, Send
    PROVE  WishesInOrder'
<1> DEFINE p == outbox[1]
<1>1. /\ outbox # <<>> /\ outbox' = Tail(outbox) /\ BrokerTakes(Head(outbox))
      /\ crt = NoMode /\ crt' = crt /\ faults' = faults
  BY DEF Send, history
<1>2. Messages(outbox) /\ Messages(inbox)
  BY DEF FlightsInv, ShadowTypeOK, Messages
<1>3. Head(outbox) = p /\ 1 \in DOMAIN outbox /\ PacketOK(p)
  BY <1>1, <1>2, Tailed DEF FlightsInv, ShadowTypeOK
<1>4. p.topic # "update" => DOMAIN p.payload = {}
  BY <1>3 DEF CommandsInForm
<1>5. /\ desired' = IF p.topic = "update" THEN Update(desired, p.payload) ELSE desired
      /\ inbox' = CASE p.topic = "get" -> Append(inbox, Answer)
                    [] "mode" \in DOMAIN p.payload -> Append(inbox, Accepted(p.payload["mode"]))
                    [] OTHER -> inbox
  BY <1>1, <1>3 DEF BrokerTakes
<1>6. 1 \in Timed <=> "duration" \in DOMAIN p.payload
  BY <1>3 DEF Timed
<1>7. "mode" \in DOMAIN p.payload => p.payload["mode"] # NoMode
  BY <1>3, ValuesOfKeys, ShadowAssumption DEF PacketOK, Of, CleanModes, NoMode
<1> HIDE DEF p
<1>8. CASE "mode" \in DOMAIN p.payload
  <2>1. p.topic = "update" /\ p.topic # "get"
    BY <1>4, <1>8
  <2>2. desired'["mode"] = p.payload["mode"] /\ inbox' = Append(inbox, Accepted(p.payload["mode"]))
    BY <1>5, <1>8, <2>1 DEF Update
  <2> QED BY <1>2, <1>7, <1>8, <2>2, WishAccepted DEF Accepted, ToClient
<1>9. CASE "mode" \notin DOMAIN p.payload
  <2>1. inbox' = inbox \/ \E m : inbox' = Append(inbox, m) /\ m.mode = NoMode
    <3>1. Answer.mode = NoMode
      BY DEF Answer, ToClient
    <3> QED BY <1>5, <1>9, <3>1
  <2>2. Accepting' = Accepting /\ \A i \in Accepting : inbox'[i] = inbox[i]
    BY <1>2, <2>1, AcceptingKept
  <2>3. "mode" \in DOMAIN desired' => "mode" \in DOMAIN desired /\ desired'["mode"] = desired["mode"]
    BY <1>5, <1>9 DEF Update
  <2>4. IF 1 \in Timed
        THEN "duration" \in DOMAIN desired' /\ desired'["duration"] = p.payload["duration"]
        ELSE "duration" \in DOMAIN desired
                 => "duration" \in DOMAIN desired' /\ desired'["duration"] = desired["duration"]
    BY <1>4, <1>5, <1>6 DEF Update
  <2> QED BY <1>1, <1>2, <2>2, <2>3, <2>4, TimeSent DEF p
<1> QED BY <1>8, <1>9

(* What the outbox takes on but from the callback sets no cycle time.      *)
LEMMA InFormKeepsTimed ==
    ASSUME FlightsInv, outbox' = outbox \/ \E command : InForm(command) /\ OutboxAdds(command)
    PROVE  Timed' = Timed /\ \A i \in Timed : outbox'[i] = outbox[i]
<1>1. Messages(outbox)
  BY DEF FlightsInv, ShadowTypeOK, Messages
<1>2. outbox' = outbox \/ \E p : outbox' = Append(outbox, p) /\ "duration" \notin DOMAIN p.payload
  BY PacketInForm DEF FlightsInv, OutboxAdds
<1> QED BY <1>1, <1>2, TimedKept

(* The first message is delivered: an accepted mode goes on to the         *)
(* callback that sleeps.                                                   *)
LEMMA DeliverWishes ==
    ASSUME FlightsInv, WishesInOrder, NEW i \in 1 .. Len(inbox), Deliver(i)
    PROVE  WishesInOrder'
<1> DEFINE n == Len(inbox)
<1> SUFFICES ASSUME faults' = {}, "mode" \in DOMAIN desired'
             PROVE  WishesInOrder'
  BY DEF WishesInOrder
<1>1. /\ inbox' = RemoveAt(inbox, i) /\ crt = NoMode /\ crt' = inbox[i].mode
      /\ faults' = IF i > 1 THEN faults \cup {"overtaken"} ELSE faults
      /\ desired' = desired
      /\ outbox' = outbox \/ OutboxAdds(Request)
  BY DEF Deliver, CrtPublish, OutboxAdds, robotVars
<1>2. Messages(inbox) /\ Len(inbox) \in Nat /\ DOMAIN inbox = 1 .. Len(inbox)
  BY DEF FlightsInv, ShadowTypeOK, Messages
<1>3. i = 1 /\ faults = {}
  <2>1. ~(i > 1) /\ faults' = faults
    BY <1>1
  <2> QED BY <1>2, <2>1
<1>4. /\ n \in Nat /\ DOMAIN inbox = 1 .. n /\ DOMAIN inbox' = 1 .. n - 1
      /\ \A j \in 1 .. n - 1 : inbox'[j] = inbox[j + 1]
  BY <1>1, <1>2, <1>3, FirstRemoved
<1> HIDE DEF n
<1>5. /\ Accepting \in SUBSET (1 .. n) /\ Accepting' \in SUBSET (1 .. n - 1)
      /\ \A j \in 1 .. n - 1 : j \in Accepting' <=> j + 1 \in Accepting
  BY <1>4 DEF Accepting
<1>6. /\ \A j \in Accepting' : Latest(j, Accepting') => j + 1 \in Accepting /\ Latest(j + 1, Accepting)
      /\ Accepting' = {} /\ 1 \in Accepting => Latest(1, Accepting)
      /\ Accepting' = {} /\ 1 \notin Accepting => Accepting = {}
  BY <1>4, <1>5, LatestShifted
<1>7. \A j \in Accepting' : inbox'[j] = inbox[j + 1]
  BY <1>4, <1>5
<1>8. 1 \in Accepting <=> crt' # NoMode
  BY <1>1, <1>2, <1>3 DEF Accepting
<1>9. Timed' = Timed /\ \A j \in Timed : outbox'[j] = outbox[j]
  BY <1>1, Forms, InFormKeepsTimed
<1>10. \A j \in Accepting' : Latest(j, Accepting') => inbox'[j].mode = desired'["mode"]
  BY <1>1, <1>3, <1>6, <1>7 DEF WishesInOrder
<1>11. CASE 1 \in Accepting
  <2>1. Accepting' = {} => crt' = desired'["mode"]
    BY <1>1, <1>3, <1>6, <1>11 DEF WishesInOrder
  <2> QED BY <1>8, <1>10, <1>11, <2>1 DEF WishesInOrder
<1>12. CASE 1 \notin Accepting
  <2>1. crt' = NoMode /\ (Accepting' = {} => Accepting = {})
    BY <1>6, <1>8, <1>12
  <2>2. Accepting' = {} =>
           /\ \A j \in Timed' : Latest(j, Timed') => outbox'[j].payload["duration"] = desired'["mode"]
           /\ Timed' = {} => "duration" \in DOMAIN desired' /\ desired'["duration"] = desired'["mode"]
    BY <1>1, <1>3, <1>9, <2>1 DEF WishesInOrder
  <2> QED BY <1>10, <2>1, <2>2 DEF WishesInOrder
<1> QED BY <1>11, <1>12

(* The steps of the others leave the wishes alone, but for the app's.      *)
LEMMA OthersWish ==
    ASSUME [ShadowNext]_shadowVars, ~Crt, ~Lose, \A mode \in Mode : ~AppDesires(mode)
    PROVE  /\ UNCHANGED <<desired, crt>>
           /\ inbox' = inbox \/ \E m : inbox' = Append(inbox, m) /\ m.mode = NoMode
<1>1. CASE Loop \/ PollAsks \/ Poll \/ UNCHANGED shadowVars
  BY <1>1 DEF Loop, Publish, PublishRefused, Record, AddCallback, PollAsks, Poll, robotVars, wire, shadowVars
<1>2. CASE User
  BY <1>2, UserInForm DEF Act, robotVars, wire
<1>3. CASE Outside
  <2>1. CASE Connect
    BY <2>1 DEF Connect, robotVars
  <2>2. ASSUME NEW key, NEW value, RobotChanges(key, value)
        PROVE  /\ UNCHANGED <<desired, crt>>
               /\ inbox' = inbox \/ \E m : inbox' = Append(inbox, m) /\ m.mode = NoMode
    <3>1. Report(One(key, value)).mode = NoMode
      BY DEF Report, ToClient
    <3> QED BY <2>2, <3>1 DEF RobotChanges, External, Notify
  <2>3. ASSUME NEW remote, RemoteAnnounces(remote)
        PROVE  /\ UNCHANGED <<desired, crt>>
               /\ inbox' = inbox \/ \E m : inbox' = Append(inbox, m) /\ m.mode = NoMode
    <3>1. Dynamic(remote).mode = NoMode
      BY DEF Dynamic, ToClient
    <3> QED BY <2>3, <3>1 DEF RemoteAnnounces, External, Notify, robotVars
  <2>4. ASSUME NEW key, RobotFollows(key)
        PROVE  /\ UNCHANGED <<desired, crt>>
               /\ inbox' = inbox \/ \E m : inbox' = Append(inbox, m) /\ m.mode = NoMode
    <3>1. Report(One(key, desired[key])).mode = NoMode
      BY DEF Report, ToClient
    <3> QED BY <2>4, <3>1 DEF RobotFollows, Notify
  <2> QED BY <1>3, <2>1, <2>2, <2>3, <2>4 DEF Outside
<1> QED BY <1>1, <1>2, <1>3 DEF ShadowNext

LEMMA WishesStep ==
    ASSUME FlightsInv, CommandsInForm, CalmAtFirst, WishesInOrder, [ShadowNext]_shadowVars
    PROVE  WishesInOrder'
<1>1. Messages(inbox)
  BY DEF FlightsInv, ShadowTypeOK, Messages
<1>2. CASE Crt
  BY <1>2, SendWishes, CycleTimeStep, DeliverWishes DEF Crt
<1>3. CASE Lose
  BY <1>3 DEF Lose, WishesInOrder
<1>4. ASSUME NEW mode \in Mode, AppDesires(mode)
      PROVE  WishesInOrder'
  <2>1. CASE connected
    <3>1. inbox' = Append(inbox, Accepted(mode)) /\ desired'["mode"] = mode
      BY <1>4, <2>1 DEF AppDesires, Notify, Update, One
    <3>2. Accepted(mode).mode = mode /\ mode # NoMode
      BY ShadowAssumption DEF Accepted, ToClient, NoMode, CleanModes
    <3> QED BY <1>1, <3>1, <3>2, WishAccepted
  <2>2. CASE ~connected
    BY <1>4, <2>2 DEF AppDesires, WishesInOrder
  <2> QED BY <2>1, <2>2
<1>5. CASE ~Crt /\ ~Lose /\ \A mode \in Mode : ~AppDesires(mode)
  <2>1. /\ UNCHANGED <<desired, crt>>
        /\ inbox' = inbox \/ \E m : inbox' = Append(inbox, m) /\ m.mode = NoMode
    BY <1>5, OthersWish
  <2>2. outbox' = outbox \/ \E command : InForm(command) /\ OutboxAdds(command)
    BY <1>5, OutboxStep DEF Crt
  <2> QED BY <1>1, <2>1, <2>2, AcceptingKept, InFormKeepsTimed, WishesKept, FaultsStay DEF SameWishes
<1> QED BY <1>2, <1>3, <1>4, <1>5

(* Once the client's commands have come to rest, the desired cycle time is *)
(* the one of the desired mode, in whatever order the user and the app     *)
(* wished for modes and whatever the loop's thread did between the steps   *)
(* of the callback: if no message was lost or overtaken.                   *)
THEOREM CycleTimesFollow == ShadowSpec => []CycleTimeFollowsMode
<1> DEFINE Inv == FlightsInv /\ CommandsInForm /\ CalmAtFirst /\ WishesInOrder
<1>1. ShadowInit => Inv
  <2> SUFFICES ASSUME ShadowInit
               PROVE  Inv
    OBVIOUS
  <2>1. loop.command = Get /\ outbox = <<>> /\ inbox = <<>> /\ desired = Nothing /\ data = Nothing /\ crt = NoMode
    BY DEF ShadowInit, Idle
  <2>2. CommandsInForm
    BY <2>1, Forms DEF CommandsInForm
  <2>3. CalmAtFirst /\ WishesInOrder
    BY <2>1 DEF CalmAtFirst, WishesInOrder, Nothing
  <2> QED BY <2>2, <2>3, ShadowInitType
<1>2. Inv /\ [ShadowNext]_shadowVars => Inv'
  BY FlightsStep, FormStep, CalmStep, WishesStep
<1>3. Inv => CycleTimeFollowsMode
  <2> SUFFICES ASSUME WishesInOrder, Quiet
               PROVE  CycleTimeFollowsMode
    BY DEF CycleTimeFollowsMode
  <2>1. crt = NoMode /\ Accepting = {} /\ Timed = {}
    BY DEF Quiet, Accepting, Timed
  <2> QED BY <2>1 DEF WishesInOrder, CycleTimeFollowsMode
<1> QED BY <1>1, <1>2, <1>3, PTL DEF ShadowSpec

-------------------------------------------------------------------------------
(* What tells of a key, as the messages move on: a step that does not      *)
(* touch the key leaves it kept up, ...                                    *)
LEMMA KeyUntouched ==
    ASSUME Messages(inbox), NEW key, KeptUp(key), reported'[key] = reported[key],
           inbox' = inbox \/ \E m : inbox' = Append(inbox, m) /\ key \notin DOMAIN m.reported,
           key \in DOMAIN data' \ DOMAIN chosen'
               => key \in DOMAIN data \ DOMAIN chosen /\ data'[key] = data[key]
    PROVE  KeptUp(key)'
<1>1. Telling(key)' = Telling(key) /\ \A i \in Telling(key) : inbox'[i] = inbox[i]
  <2>1. CASE inbox' = inbox
    BY <2>1 DEF Telling
  <2>2. ASSUME NEW m, inbox' = Append(inbox, m), key \notin DOMAIN m.reported
        PROVE  Telling(key)' = Telling(key) /\ \A i \in Telling(key) : inbox'[i] = inbox[i]
    BY <2>2, AppendedAt DEF Telling
  <2> QED BY <2>1, <2>2
<1> QED BY <1>1 DEF KeptUp

(* ... and one whose message tells of it brings the latest.                *)
LEMMA KeyTold ==
    ASSUME Messages(inbox), NEW key, NEW m, inbox' = Append(inbox, m),
           key \in DOMAIN m.reported, m.reported[key] = reported'[key]
    PROVE  KeptUp(key)'
<1>1. Telling(key) \in SUBSET (1 .. Len(inbox)) /\ Len(inbox) \in Nat
  BY AppendedAt DEF Telling
<1>2. Telling(key)' = Telling(key) \cup {Len(inbox) + 1} /\ inbox'[Len(inbox) + 1] = m
  BY AppendedAt DEF Telling
<1>3. \A i \in Telling(key)' : Latest(i, Telling(key)') => i = Len(inbox) + 1
  BY <1>1, <1>2, LatestAdded
<1> QED BY <1>2, <1>3 DEF KeptUp

(* The first message is delivered: the data take over what it tells.       *)
LEMMA KeyDelivered ==
    ASSUME Messages(inbox), 1 \in DOMAIN inbox, NEW key, KeptUp(key), reported' = reported,
           inbox' = RemoveAt(inbox, 1), data' = Update(data, inbox[1].reported),
           chosen' = Restrict(chosen, DOMAIN chosen \ DOMAIN inbox[1].reported)
    PROVE  KeptUp(key)'
<1> DEFINE n == Len(inbox)
           part == inbox[1].reported
<1>1. /\ n \in Nat /\ DOMAIN inbox = 1 .. n /\ DOMAIN inbox' = 1 .. n - 1
      /\ \A j \in 1 .. n - 1 : inbox'[j] = inbox[j + 1]
  BY FirstRemoved
<1> HIDE DEF n
<1>2. /\ Telling(key) \in SUBSET (1 .. n) /\ Telling(key)' \in SUBSET (1 .. n - 1)
      /\ \A j \in 1 .. n - 1 : j \in Telling(key)' <=> j + 1 \in Telling(key)
  BY <1>1 DEF Telling
<1>3. /\ \A i \in Telling(key)' :
              Latest(i, Telling(key)') => i + 1 \in Telling(key) /\ Latest(i + 1, Telling(key))
      /\ Telling(key)' = {} /\ 1 \in Telling(key) => Latest(1, Telling(key))
      /\ Telling(key)' = {} /\ 1 \notin Telling(key) => Telling(key) = {}
  BY <1>1, <1>2, LatestShifted
<1>4. \A i \in Telling(key)' : inbox'[i] = inbox[i + 1]
  BY <1>1, <1>2
<1>5. 1 \in Telling(key) <=> key \in DOMAIN part
  BY DEF Telling
<1>6. /\ key \in DOMAIN part => data'[key] = part[key]
      /\ key \notin DOMAIN part /\ key \in DOMAIN data' => key \in DOMAIN data /\ data'[key] = data[key]
      /\ key \notin DOMAIN part /\ key \notin DOMAIN chosen' => key \notin DOMAIN chosen
  BY DEF Update, Restrict
<1>7. \A i \in Telling(key)' : Latest(i, Telling(key)') => inbox'[i].reported[key] = reported'[key]
  BY <1>3, <1>4 DEF KeptUp
<1>8. Telling(key)' = {} /\ key \in DOMAIN data' \ DOMAIN chosen' => data'[key] = reported'[key]
  <2>1. CASE key \in DOMAIN part
    BY <1>3, <1>5, <1>6, <2>1 DEF KeptUp
  <2>2. CASE key \notin DOMAIN part
    BY <1>3, <1>5, <1>6, <2>2 DEF KeptUp
  <2> QED BY <2>1, <2>2
<1> QED BY <1>7, <1>8 DEF KeptUp

(* The robot reports a key that has changed.                               *)
LEMMA KeyReported ==
    ASSUME FlightsInv, CalmAtFirst, DataKeepUp, NEW key \in RobotKey, NEW value,
           reported' = [reported EXCEPT ![key] = value], Notify(Report(One(key, value))),
           UNCHANGED <<data, chosen, faults>>
    PROVE  DataKeepUp'
<1> DEFINE m == Report(One(key, value))
<1> SUFFICES ASSUME faults = {}, NEW k \in RobotKey
             PROVE  KeptUp(k)'
  BY DEF DataKeepUp
<1>1. Messages(inbox) /\ DOMAIN reported = RobotKey
  BY DEF FlightsInv, ShadowTypeOK, Messages
<1>2. DOMAIN m.reported = {key} /\ m.reported[key] = value
  BY DEF Report, ToClient, One
<1>3. CASE connected
  <2>1. inbox' = Append(inbox, m)
    BY <1>3 DEF Notify
  <2> HIDE DEF m
  <2>2. CASE k = key
    BY <1>1, <1>2, <2>1, <2>2, KeyTold
  <2>3. CASE k # key
    BY <1>1, <1>2, <2>1, <2>3, KeyUntouched DEF DataKeepUp
  <2> QED BY <2>2, <2>3
<1>4. CASE ~connected
  <2>1. inbox' = <<>> /\ DOMAIN data' = {}
    BY <1>4 DEF CalmAtFirst, Notify
  <2>2. Telling(k)' = {}
    BY <2>1 DEF Telling
  <2> QED BY <2>1, <2>2 DEF KeptUp
<1> QED BY <1>3, <1>4

(* A choice for the LED is the user's until the robot reports on it.       *)
LEMMA UserKeepsUp ==
    ASSUME FlightsInv, DataKeepUp, User
    PROVE  DataKeepUp'
<1>1. Messages(inbox) /\ DOMAIN chosen \subseteq LedKey
  BY DEF FlightsInv, ShadowTypeOK, Messages, Of
<1>2. UNCHANGED <<inbox, reported, faults>>
  BY UserInForm DEF Act, wire, robotVars
<1>3. ASSUME NEW k \in RobotKey, NEW key \in LedKey, NEW value, SetLed(key, value)
      PROVE  k \in DOMAIN data' \ DOMAIN chosen' => k \in DOMAIN data \ DOMAIN chosen /\ data'[k] = data[k]
  <2>1. CASE DOMAIN LedOf(data) = {}
    <3>1. data' = data
      BY <1>3, <2>1 DEF SetLed
    <3>2. DOMAIN data \cap LedKey = {}
      BY <2>1 DEF LedOf, Restrict
    <3> QED BY <1>1, <3>1, <3>2
  <2>2. CASE DOMAIN LedOf(data) # {}
    <3>1. data' = Update(data, One(key, value)) /\ chosen' = Update(chosen, One(key, value))
      BY <1>3, <2>2 DEF SetLed
    <3> QED BY <3>1 DEF Update, One
  <2> QED BY <2>1, <2>2
<1>4. ASSUME NEW k \in RobotKey
      PROVE  k \in DOMAIN data' \ DOMAIN chosen' => k \in DOMAIN data \ DOMAIN chosen /\ data'[k] = data[k]
  <2>1. (\E key \in LedKey : \E value : SetLed(key, value)) \/ UNCHANGED <<data, chosen>>
    BY ShadowAssumption DEF User, SetCleaningMode, VacuumStart, PickUp, VacuumPause, VacuumLocate,
        SetJoystickMode, ExitJoystickMode, Plain
  <2> QED BY <1>3, <2>1
<1> QED BY <1>1, <1>2, <1>4, KeyUntouched DEF DataKeepUp

(* The answer to get tells of every key, an accepted mode of none.         *)
LEMMA SendKeepsUp ==
    ASSUME FlightsInv, DataKeepUp, Send
    PROVE  DataKeepUp'
<1> SUFFICES ASSUME faults = {}, NEW key \in RobotKey
             PROVE  KeptUp(key)'
  BY DEF DataKeepUp, Send, history
<1>1. Messages(inbox) /\ DOMAIN reported = RobotKey
  BY DEF FlightsInv, ShadowTypeOK, Messages
<1>2. /\ UNCHANGED <<reported, data, chosen>>
      /\ \/ inbox' = inbox
         \/ inbox' = Append(inbox, Answer)
         \/ inbox' = Append(inbox, Accepted(Head(outbox).payload["mode"]))
  BY DEF Send, BrokerTakes, history
<1>3. CASE inbox' = Append(inbox, Answer)
  <2>1. Answer.reported = reported
    BY DEF Answer, ToClient
  <2> QED BY <1>1, <1>2, <1>3, <2>1, KeyTold
<1>4. CASE inbox' # Append(inbox, Answer)
  <2>1. key \notin DOMAIN Accepted(Head(outbox).payload["mode"]).reported
    BY DEF Accepted, ToClient, Nothing
  <2> QED BY <1>1, <1>2, <1>4, <2>1, KeyUntouched DEF DataKeepUp
<1> QED BY <1>3, <1>4

LEMMA DataStep ==
    ASSUME FlightsInv, CalmAtFirst, DataKeepUp, [ShadowNext]_shadowVars
    PROVE  DataKeepUp'
<1>1. Messages(inbox) /\ DOMAIN reported = RobotKey
  BY DEF FlightsInv, ShadowTypeOK, Messages
<1>2. CASE UNCHANGED <<reported, inbox, data, chosen>>
  BY <1>1, <1>2, FaultsStay, KeyUntouched DEF DataKeepUp
<1>3. CASE Loop \/ PollAsks \/ Poll \/ SetCycleTime \/ Connect \/ UNCHANGED shadowVars
  <2>1. UNCHANGED <<reported, inbox, data, chosen>>
    BY <1>3 DEF Loop, Publish, PublishRefused, Record, AddCallback, PollAsks, Poll, SetCycleTime, Connect,
        robotVars, wire, history, shadowVars
  <2> QED BY <1>2, <2>1
<1>4. ASSUME NEW i \in 1 .. Len(inbox), Deliver(i)
      PROVE  DataKeepUp'
  <2> SUFFICES ASSUME faults' = {}, NEW key \in RobotKey
               PROVE  KeptUp(key)'
    BY DEF DataKeepUp
  <2>1. ~(i > 1)
    BY <1>4 DEF Deliver
  <2>2. i = 1 /\ 1 \in DOMAIN inbox
    BY <1>1, <2>1 DEF Messages
  <2>3. /\ reported' = reported /\ inbox' = RemoveAt(inbox, 1)
        /\ data' = Update(data, inbox[1].reported)
        /\ chosen' = Restrict(chosen, DOMAIN chosen \ DOMAIN inbox[1].reported)
    BY <1>4, <2>2 DEF Deliver, Merge, robotVars
  <2> QED BY <1>1, <2>2, <2>3, KeyDelivered, FaultsStay DEF DataKeepUp
<1>5. CASE Outside /\ ~Connect
  <2>1. CASE Lose
    BY <2>1 DEF Lose, DataKeepUp
  <2>2. ASSUME NEW m, Notify(m), m.reported = Nothing, UNCHANGED <<reported, data, chosen>>
        PROVE  DataKeepUp'
    <3>1. ASSUME NEW key
          PROVE  key \notin DOMAIN m.reported
      BY <2>2 DEF Nothing
    <3>2. inbox' = inbox \/ inbox' = Append(inbox, m)
      BY <2>2 DEF Notify
    <3> QED BY <1>1, <2>2, <3>1, <3>2, FaultsStay, KeyUntouched DEF DataKeepUp
  <2>3. ASSUME NEW mode, AppDesires(mode)
        PROVE  DataKeepUp'
    BY <2>2, <2>3 DEF AppDesires, External, Accepted, ToClient
  <2>4. ASSUME NEW remote, RemoteAnnounces(remote)
        PROVE  DataKeepUp'
    BY <2>2, <2>4 DEF RemoteAnnounces, External, Dynamic, ToClient, robotVars
  <2>5. ASSUME NEW key \in RobotKey, NEW value, RobotChanges(key, value)
        PROVE  DataKeepUp'
    BY <2>5, KeyReported DEF RobotChanges, External
  <2>6. ASSUME NEW key \in RobotKey, RobotFollows(key)
        PROVE  DataKeepUp'
    BY <2>6, KeyReported DEF RobotFollows, history
  <2> QED BY <1>5, <2>1, <2>3, <2>4, <2>5, <2>6 DEF Outside, RobotKey
<1> QED BY <1>3, <1>4, <1>5, UserKeepsUp, SendKeepsUp DEF ShadowNext, Crt

(* The data of AWSClient are never behind the robot but by what is on its  *)
(* way or by what the user has chosen for the LED since: whatever was      *)
(* merged key by key, whichever answers and reports came together, however *)
(* often the robot changed meanwhile, if no message was lost or overtaken. *)
THEOREM DataAreKeptUp == ShadowSpec => []DataKeepUp
<1>1. ShadowInit => FlightsInv /\ CalmAtFirst /\ DataKeepUp
  <2> SUFFICES ASSUME ShadowInit
               PROVE  FlightsInv /\ CalmAtFirst /\ DataKeepUp
    OBVIOUS
  <2>1. CalmAtFirst
    BY DEF ShadowInit, CalmAtFirst, Nothing
  <2>2. \A key : Telling(key) = {} /\ key \notin DOMAIN data
    BY DEF ShadowInit, Telling, Nothing
  <2> QED BY <2>1, <2>2, ShadowInitType DEF DataKeepUp, KeptUp
<1>2. FlightsInv /\ CalmAtFirst /\ DataKeepUp /\ [ShadowNext]_shadowVars
          => (FlightsInv /\ CalmAtFirst /\ DataKeepUp)'
  BY FlightsStep, CalmStep, DataStep
<1> QED BY <1>1, <1>2, PTL DEF ShadowSpec

===============================================================================
