---------------------------- MODULE FrameHandling ----------------------------
(***************************************************************************)
(* What process_packet (GT06) and process_gps103_message do with one        *)
(* message of a device that is logged in: which statements they send, in    *)
(* which order, and what happens to the rest when one of them raises.       *)
(*                                                                          *)
(* todo is the rest of the handler, one entry per await:                    *)
(*                                                                          *)
(*   parse     the field parser, which raises on a malformed message        *)
(*   reply     an answer the handler sends by itself (LOAD, ON, SOS)        *)
(*   raw       RawPackets           status     DeviceStatuses, all columns  *)
(*   ignition  set_ignition         alive      mark_device_alive            *)
(*   heartbeat update_heartbeat     vehicle    get_vehicle_by_device        *)
(*   position  save_location        event      create_event                 *)
(*   response  CommandResponses     ack        the GT06 acknowledgement     *)
(*                                                                          *)
(* Logins that are refused and data before login are in module Gateway.     *)
(***************************************************************************)
EXTENDS Naturals, Sequences

CONSTANTS
    RawModes,   \* the values of RAW_PACKET_MODE considered
    None

ASSUME ModeAssumption == RawModes \subseteq {"off", "selective", "all"} /\ RawModes # {}
ASSUME NoneAssumption == None \notin {"on", "off", "fast", "impossible"}

VARIABLES
    mode,            \* config.RAW_PACKET_MODE
    msg,             \* the message being handled, None between messages
    todo,
    done,            \* the steps of this message that took effect
    raised,          \* the steps of this message that raised
    statusIgnition,  \* DeviceStatuses.IgnitionStatus
    liveIgnition,    \* CurrentLocations.IgnitionStatus
    row              \* the position of the latest row, "null" for an event without

vars == <<mode, msg, todo, done, raised, statusIgnition, liveIgnition, row>>

(***************************************************************************)
(* Messages as their parsers return them.  fix: a plausible position, 0/0   *)
(* with a fix, a plausible position with an impossible speed or heading     *)
(* ("fast"), an impossible position, or none.  Only GPS103 reports carry an *)
(* alarm by name; known is FALSE for a keyword nobody knows.                *)
(***************************************************************************)
Plain(family, kinds, fixes, ignitions, values) ==
    [family : {family}, kind : kinds, fix : fixes, alarm : {None}, known : {TRUE},
     ignition : ignitions, values : values, wellformed : BOOLEAN]

\* "config" is 0x94 and 0x6e, "location" 0x12 and 0x22.  The GT06 handler does
\* not look at a fix flag.
Gt06Frames ==
    Plain("GT06", {"login", "cmdack", "response", "unknown"}, {"none"}, {None}, {FALSE})
    \cup Plain("GT06", {"location", "alarm"}, {"good", "zero", "fast", "impossible"}, {None}, {FALSE})
    \cup Plain("GT06", {"status", "heartbeat"}, {"none"}, {"on", "off"}, {FALSE})
    \cup Plain("GT06", {"config"}, {"none"}, {None}, BOOLEAN)

\* The fields of a GPS103 report; "odd" is a keyword ALARM_NAMES does not have,
\* "malformed" a position _nmea_to_degrees refuses.
Reports == [keyword : {"tracker", "help me", "move", "acc on", "acc off", "odd"},
            fix_type : {"F", "L"}, gps_flag : {"A", "V"},
            position : {"good", "zero", "fast", "impossible", "malformed"}, acc : {"0", "1", ""},
            wellformed : BOOLEAN]

ALARM_NAMES(keyword) ==
    CASE keyword = "help me" -> "SOS"
      [] keyword \in {"move", "acc on", "acc off"} -> "other"
      [] OTHER -> None

\* A position only with an "F" block flagged "A"; the keyword decides about the
\* ignition before the flag of the fix block does.
parse_tracker(r) ==
    LET valid_fix == r.fix_type = "F" /\ r.gps_flag = "A" /\ r.position # "malformed"
        ignition == IF r.keyword = "acc on" THEN "on"
                    ELSE IF r.keyword = "acc off" THEN "off"
                    ELSE IF valid_fix /\ r.acc = "1" THEN "on"
                    ELSE IF valid_fix /\ r.acc = "0" THEN "off"
                    ELSE None
    IN  [family |-> "GPS103", kind |-> "tracker", fix |-> IF valid_fix THEN r.position ELSE "none",
         alarm |-> ALARM_NAMES(r.keyword), known |-> r.keyword # "odd", ignition |-> ignition,
         values |-> FALSE, wellformed |-> r.wellformed]

\* What classify makes of the other messages.
Gps103Messages ==
    {parse_tracker(r) : r \in Reports}
    \cup Plain("GPS103", {"login", "heartbeat", "unknown"}, {"none"}, {None}, {FALSE})

Messages == Gt06Frames \cup Gps103Messages
ASSUME MessageAssumption == None \notin Messages

Steps == {"parse", "reply", "raw", "status", "ignition", "alive", "heartbeat", "vehicle",
          "position", "event", "response", "ack"}

TypeOK ==
    /\ mode \in RawModes
    /\ msg \in Messages \cup {None}
    /\ todo \in Seq(Steps)
    /\ done \subseteq Steps /\ raised \subseteq Steps
    /\ {statusIgnition, liveIgnition} \subseteq {"on", "off"}
    /\ row \in {"good", "zero", "null", None}

Init ==
    /\ mode \in RawModes
    /\ msg = None
    /\ todo = <<>>
    /\ done = {}
    /\ raised = {}
    /\ statusIgnition = "off"
    /\ liveIgnition = "off"
    /\ row = None
-----------------------------------------------------------------------------
(***************************************************************************)
(* What each handler sets out to do.                                        *)
(***************************************************************************)
If(condition, step) == IF condition THEN <<step>> ELSE <<>>

\* Rare and valuable packets, which the handlers save with always=True.
Rare(m) ==
    IF m.family = "GT06"
    THEN m.kind \in {"login", "alarm", "config", "cmdack", "response", "unknown"}
    ELSE m.kind = "login" \/ m.alarm # None \/ ~m.known

\* The policy; routine packets are sampled at random.
should_store_raw(always) ==
    IF mode = "off" THEN {FALSE} ELSE IF mode = "all" \/ always THEN {TRUE} ELSE BOOLEAN

\* location_valid of process_packet.
InBounds(m) == m.fix \in {"good", "zero"}

\* position_ok of _handle_tracker: a fix, location_is_valid, and not 0/0.
position_ok(m) == m.fix = "good"

\* process_packet: the branch of m.kind, then the acknowledgement.
Gt06Plan(m, stored) ==
    LET raw == If(stored, "raw")
        branch ==
            CASE m.kind = "login"     -> <<"parse">> \o raw \o <<"vehicle", "event">>
              [] m.kind = "location"  -> <<"parse">> \o (IF InBounds(m) THEN raw \o <<"position">>
                                                                        ELSE <<>>)
              [] m.kind = "status"    -> <<"parse">> \o raw \o <<"status">>
              [] m.kind = "heartbeat" -> <<"parse">> \o raw \o <<"status", "heartbeat">>
              [] m.kind = "alarm"     -> <<"parse">> \o raw \o <<"vehicle", "event">>
              [] m.kind = "config"    -> raw \o <<"parse">> \o (IF m.values THEN <<"vehicle", "event">>
                                                                           ELSE <<>>)
              [] m.kind = "cmdack"    -> raw \o <<"parse">>
              [] m.kind = "response"  -> raw \o <<"parse", "response">>
              [] m.kind = "unknown"   -> raw
    IN  branch \o <<"ack">>

\* _handle_tracker: the SOS answer, then one independent write after the other.
TrackerPlan(m, stored) ==
    (<<"parse">> \o If(m.alarm = "SOS", "reply") \o If(stored, "raw")
                 \o If(m.ignition # None, "ignition"))
    \o (If(m.alarm # None, "vehicle") \o If(position_ok(m), "position")
           \o If(m.alarm # None, "event"))

Gps103Plan(m, stored) ==
    CASE m.kind = "login"     -> <<"parse", "reply">> \o If(stored, "raw")
                                     \o <<"alive", "vehicle", "event">>
      [] m.kind = "heartbeat" -> <<"parse", "reply", "alive">>
      [] m.kind = "tracker"   -> TrackerPlan(m, stored)
      [] m.kind = "unknown"   -> <<>>

\* A message arrives.
Receive(m) ==
    /\ msg = None
    /\ msg' = m
    /\ \E stored \in should_store_raw(Rare(m)) :
          todo' = IF m.family = "GT06" THEN Gt06Plan(m, stored) ELSE Gps103Plan(m, stored)
    /\ UNCHANGED <<mode, done, raised, statusIgnition, liveIgnition, row>>
-----------------------------------------------------------------------------
(***************************************************************************)
(* One step of the plan.                                                    *)
(***************************************************************************)
clean_coordinates_Unchecked(fix) == fix

\* No position rather than an impossible one; an event is kept without it.  An
\* event has no columns for the speed and the heading.
clean_coordinates(fix) ==
    CASE fix = "impossible" -> "null"
      [] fix = "fast" -> "good"
      [] OTHER -> fix

\* create_event: the GPS103 handler passes a position only if it is storable,
\* and logins and configurations have none.
EventPosition(m) ==
    CASE m.kind = "alarm" -> clean_coordinates(m.fix)
      [] m.kind = "tracker" /\ position_ok(m) -> clean_coordinates(m.fix)
      [] OTHER -> "null"

\* The effect of a statement on the rows that properties look at.
Apply(step) ==
    /\ statusIgnition' = IF step \in {"ignition", "status"} THEN msg.ignition ELSE statusIgnition
    /\ liveIgnition' = IF step = "position" THEN statusIgnition ELSE liveIgnition
    /\ row' = CASE step = "position" -> msg.fix
                [] step = "event" -> EventPosition(msg)
                [] OTHER -> row

\* A malformed message is refused by its parser.
Refuses(step) == step = "parse" /\ ~msg.wellformed

StepDone ==
    /\ msg # None
    /\ todo # <<>>
    /\ ~Refuses(Head(todo))
    /\ Apply(Head(todo))
    /\ done' = done \cup {Head(todo)}
    /\ todo' = Tail(todo)
    /\ UNCHANGED <<mode, msg, raised>>

AfterFailure_NoAck(step) ==
    IF msg.family = "GT06" THEN <<>> ELSE IF step = "parse" THEN <<>> ELSE Tail(todo)

AfterFailure_Stops(step) ==
    IF msg.family = "GT06" /\ step # "ack" THEN <<"ack">> ELSE <<>>

\* GT06: the branch is left for the acknowledgement.  GPS103: _safely and _send
\* swallow the failure; a parse error ends the handler.
AfterFailure(step) ==
    CASE msg.family = "GT06" /\ step # "ack" -> <<"ack">>
      [] msg.family = "GPS103" /\ step = "parse" -> <<>>
      [] OTHER -> Tail(todo)

\* A statement raises, applied or not; a socket write that raises is not sent.
StepFails ==
    /\ msg # None
    /\ todo # <<>>
    /\ Head(todo) = "parse" => Refuses("parse")
    /\ \/ Head(todo) \notin {"parse", "reply", "ack"} /\ Apply(Head(todo))
       \/ UNCHANGED <<statusIgnition, liveIgnition, row>>
    /\ raised' = raised \cup {Head(todo)}
    /\ todo' = AfterFailure(Head(todo))
    /\ UNCHANGED <<mode, msg, done>>

\* The handler returns.
Return ==
    /\ msg # None
    /\ todo = <<>>
    /\ msg' = None
    /\ done' = {}
    /\ raised' = {}
    /\ UNCHANGED <<mode, todo, statusIgnition, liveIgnition, row>>
-----------------------------------------------------------------------------
Work == StepDone \/ StepFails \/ Return

Next == Work \/ \E m \in Messages : Receive(m)

Spec == Init /\ [][Next]_vars
-----------------------------------------------------------------------------
Returning == msg # None /\ todo = <<>>
Tried == done \cup raised

(***************************************************************************)
(* docs/architecture.md, "Unconditional ACK": whatever a GT06 frame is and  *)
(* whichever of its steps raised, the handler does not return without       *)
(* having sent its acknowledgement (or having failed to write it).  "SOS    *)
(* first: the unit repeats the alarm until it is acknowledged": no          *)
(* statement of a GPS103 SOS is sent before its answer, so the answer does  *)
(* not wait for the statements of its own report (it may for those of an    *)
(* earlier frame of the same socket).                                       *)
(***************************************************************************)
Answered ==
    /\ (Returning /\ msg.family = "GT06") => "ack" \in Tried
    /\ (msg # None /\ msg.family = "GPS103" /\ msg.kind = "tracker" /\ msg.alarm = "SOS"
          /\ Tried \ {"parse", "reply"} # {}) => "reply" \in Tried

(***************************************************************************)
(* "Writes are independent: a failed location insert never stops an SOS     *)
(* event from being recorded, and vice versa": whatever else raised, an     *)
(* alarm of a GPS103 unit has its event, a good fix its position, and a     *)
(* rare packet its raw row unless RAW_PACKET_MODE is off - or that very     *)
(* statement raised.  The ignition a report brings is written before its    *)
(* position, which shows it.                                                *)
(***************************************************************************)
WritesIndependent ==
    (Returning /\ msg.family = "GPS103" /\ msg.kind = "tracker" /\ msg.wellformed) =>
        /\ msg.alarm # None => "event" \in Tried
        /\ msg.fix = "good" => "position" \in Tried
        /\ msg.ignition # None => "ignition" \in Tried
        /\ (mode # "off" /\ Rare(msg)) => "raw" \in Tried
        /\ (msg.ignition # None /\ "position" \in done /\ "ignition" \notin raised) =>
              liveIgnition = msg.ignition

(***************************************************************************)
(* "Physically impossible values must never reach the DB", neither as a     *)
(* position nor with an event; and an alarm "must never be dropped over a   *)
(* bad GPS fix": with every statement succeeding its event is there.        *)
(***************************************************************************)
BadFixKeepsAlarm ==
    /\ row \notin {"impossible", "fast"}
    /\ (Returning /\ (msg.kind = "alarm" \/ (msg.kind = "tracker" /\ msg.alarm # None))
          /\ raised = {}) => "event" \in done
=============================================================================
