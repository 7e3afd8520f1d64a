----------------------------- MODULE MCDecoding -----------------------------
(* Messages of every kind, with values at the edges of their fields. *)
EXTENDS Decoding, TLC

Imei == <<3, 5, 9, 5, 8, 6, 0, 1, 5, 8, 2, 9, 8, 0, 0>>

Gt06(kind, protocol, long, serial, data) ==
    [family |-> "GT06", kind |-> kind, protocol |-> protocol, long |-> long, serial |-> serial,
     data |-> data]

Fix(time, lat, lon, heading) ==
    [time |-> time, gps_length |-> 12, satellites |-> 9, latitude |-> lat, longitude |-> lon,
     speed |-> 255, heading |-> heading, gps_fixed |-> heading > 0]

\* A leap day, the last second of a year, a day and a month that do not exist.
Times == {<<24, 2, 29, 12, 0, 0>>, <<25, 12, 31, 23, 59, 59>>, <<25, 2, 29, 12, 0, 0>>,
          <<25, 13, 1, 0, 0, 0>>}

\* A small position in each hemisphere, and the largest coordinates.
Positions == {<<12600001, 143700000>>, <<-12600001, 143700000>>, <<12600001, -143700000>>,
              <<-162000000, -324000000>>, <<0, 0>>}

Fixes == {Fix(t, p[1], p[2], h) : t \in Times, p \in Positions, h \in {0, 359}}

Statuses == [battery_level : {0, 255}, gsm_signal : {4}, ignition_status : BOOLEAN,
             power_cut : BOOLEAN, gps_tracking : BOOLEAN, charging : BOOLEAN, activated : BOOLEAN]

Alarms == {[fix |-> f, mcc |-> 413, mnc |-> 2, lac |-> 65535, cell_id |-> 16777215,
            status |-> CHOOSE s \in Statuses : s.ignition_status /\ ~s.charging,
            alarm_type |-> t, english |-> t = 1] : f \in Fixes, t \in {1, 15}}

\* "A=1; B = 2;x" between NULs, and a byte that is not printable.
Text == <<0, 65, 61, 49, 59, 32, 66, 32, 61, 32, 50, 59, 120, 0>>
Texts == {[text |-> Text, data |-> [is_ascii |-> TRUE, values |-> (<<65>> :> <<49>> @@ <<66>> :> <<50>>)]],
          [text |-> <<65, 61, 200>>, data |-> [is_ascii |-> FALSE, values |-> <<>>]]}

Gt06Samples ==
    {Gt06("login", 1, FALSE, s, [imei |-> Imei]) : s \in {1, 65535}}
    \cup {Gt06("location", 34, FALSE, 258, f) : f \in Fixes}
    \cup {Gt06("status", 19, FALSE, 258, s) : s \in Statuses}
    \cup {Gt06("alarm", 38, FALSE, 258, a) : a \in Alarms}
    \cup {[x \in {"text"} |-> t.text] @@ Gt06("text", p, long, 258, t.data) :
             t \in Texts, p \in {148, 110}, long \in BOOLEAN}
    \cup {[x \in {"text"} |-> <<1, 1, 32, 86, 9, 200, 53, 10, 0>>]
             @@ Gt06("response", 33, long, 258, [raw_text |-> <<86, 9, 53>>]) : long \in BOOLEAN}

\* Noon, and minutes around midnight, in time zones from -12:00 to +14:00.
Gps103Samples ==
    {[family |-> "GPS103", kind |-> "tracker", offset |-> o, excess |-> x,
      data |-> [time |-> t, latitude |-> 4155123 * s, longitude |-> 47910000 * s]] :
        t \in {1440000, 1440720, 1441439}, o \in {-720, -719, -300, 0, 330, 720, 765, 840}, x \in {0, 20},
        s \in {1, -1}}

Record(millis, lat, lon, io) ==
    [millis |-> millis, priority |-> 1, longitude |-> lon, latitude |-> lat, altitude |-> -5,
     angle |-> 359, satellites |-> 9, speed |-> 300, event_io_id |-> 239, io |-> io]

\* 2024-10-01, and the millisecond after the year 9999.
Recent == <<1, 146, 84, 64, 240, 0>>
TooLate == <<230, 119, 210, 31, 220, 0>>

\* Ignition on (IO 239), a 0, and values of two, four and eight bytes.
Elements1 == (239 :> [int |-> TRUE, value |-> <<1>>] @@ 240 :> [int |-> TRUE, value |-> <<>>]
                @@ 66 :> [int |-> TRUE, value |-> <<48, 57>>]
                @@ 16 :> [int |-> TRUE, value |-> <<1, 0, 0>>]
                @@ 78 :> [int |-> TRUE, value |-> <<255, 0, 0, 0, 0, 0, 0, 1>>])
Elements2 == (300 :> [int |-> FALSE, value |-> <<0, 7>>] @@ 239 :> [int |-> TRUE, value |-> <<>>])

\* A record and the order of its elements.
R1 == <<Record(Recent, 69122335, -798612345, Elements1), <<<<239, 240>>, <<66>>, <<16>>, <<78>>, <<>>>>>>
R2 == <<Record(Recent, -900000000, 1800000000, Elements2), <<<<239>>, <<>>, <<>>, <<>>, <<300>>>>>>
R3 == <<Record(TooLate, 1, 1, <<>>), <<<<>>, <<>>, <<>>, <<>>, <<>>>>>>

Avl(codec, rs, count, trailing, extra) ==
    [family |-> "TELTONIKA", kind |-> "avl",
     data |-> [codec |-> codec, records |-> [k \in 1..Len(rs) |-> rs[k][1]]],
     orders |-> [k \in 1..Len(rs) |-> rs[k][2]], count |-> count, trailing |-> trailing, extra |-> extra]

\* The longest packet that is allowed (MaxPacket), and one that is too long.
TeltonikaSamples ==
    {[family |-> "TELTONIKA", kind |-> "login", data |-> [imei |-> Imei]],
     Avl(8, <<R1>>, 1, 1, <<>>), Avl(142, <<R2, R1>>, 2, 2, <<>>), Avl(142, <<R1, R1>>, 2, 2, <<>>),
     Avl(8, <<>>, 0, 0, <<>>), Avl(16, <<R1>>, 1, 1, <<>>), Avl(8, <<R1>>, 1, 2, <<>>),
     Avl(8, <<R1>>, 2, 2, <<>>), Avl(8, <<R1>>, 1, 1, <<1>>), Avl(8, <<R3>>, 1, 1, <<>>)}

CommandSamples ==
    {[family |-> "COMMAND", kind |-> "command",
      data |-> [text |-> [k \in 1..n |-> 65], serial |-> s]] :
        n \in {1, 8, 243, 244, 251, 252}, s \in {1, 258, 65535, 65536}}
    \cup {[family |-> "COMMAND", kind |-> "command", data |-> [text |-> <<65, c, 35>>, serial |-> 1]] :
             c \in {127, 128, 233, 3461}}

AllSamples == Gt06Samples \cup Gps103Samples \cup TeltonikaSamples \cup CommandSamples

\* Single bits, neighbours, nibbles, the whole byte.
SomeMasks == {2^k : k \in 0..7} \cup {3, 15, 240, 255}
=============================================================================
