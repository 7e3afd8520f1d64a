------------------------------- MODULE Decoding -------------------------------
(***************************************************************************)
(* One message from the fields its sender means to the fields its receiver  *)
(* reads: the field parsers and frame builders of parsers/v5_parser.py,     *)
(* parsers/gps103_parser.py, parsers/teltonika_parser.py and                *)
(* utils/command_builder.py, behind the framers.                            *)
(*                                                                          *)
(* The device's side (Wire, Reads) is the wire format as those parsers      *)
(* document it.  Coordinates stay in the units of the wire: 1/1800000       *)
(* degree (GT06), 1/10000 minute (GPS103), 1/10000000 degree (Teltonika).   *)
(* Slices and offsets are Python's, counted from 0.                         *)
(***************************************************************************)
EXTENDS Framers, UtcTime

CONSTANTS
    Samples,   \* the messages sent
    Masks      \* the bits of a byte that damage on the way may flip

ASSUME MasksAssumption == Masks \subseteq 1..255

\* None is not a number.
ASSUME NumbersAssumption == None \notin Int

VARIABLES
    msg,      \* the message under way, None at first
    wire,     \* its bytes (GPS103: its fields)
    damaged,  \* the byte changed on the way, 0 if none was
    got,      \* what the receiver made of it, None before
    reply     \* what the gateway answered

decodingVars == <<msg, wire, damaged, got, reply>>

\* The receiver raised or dropped the message; it waits for more bytes.
Refused == [refused |-> TRUE]

Waiting == [waiting |-> TRUE]

Octets == 0..255

Below(n) == 0..(n - 1)

Halfwords == Below(65536)

Slice(b, i, j) == SubSeq(b, i + 1, j)

Byte(b, i) == b[i + 1]

Bit(n, k) == (n \div 2^k) % 2 = 1

PowersOf256 == <<1, 256, 65536, 16777216>>

\* n.to_bytes(w, "big"), w up to 4
Bytes(n, w) == [k \in 1..w |-> (n \div PowersOf256[w - k + 1]) % 256]

\* Bytes or digits without zeros at their start.
Numeral(b) ==
    LET first == SelectInSeq(b, LAMBDA byte : byte # 0)
    IN  IF first = 0 THEN <<>> ELSE SubSeq(b, first, Len(b))

\* d[key] = value in a dict.
Put(d, key, value) == [k \in DOMAIN d \cup {key} |-> IF k = key THEN value ELSE d[k]]
-----------------------------------------------------------------------------
(***************************************************************************)
(* Checksums.  A register is the set of its bits that are 1.                *)
(***************************************************************************)
BitSet(n) == {k \in 0..7 : Bit(n, k)}

Xor(a, b) == (a \ b) \cup (b \ a)

If(condition, n) == IF condition THEN n ELSE 0

\* The number of the eight bits from bit k on.
Octet(bits, k) ==
    If(k \in bits, 1) + If(k + 1 \in bits, 2) + If(k + 2 \in bits, 4) + If(k + 3 \in bits, 8)
      + If(k + 4 \in bits, 16) + If(k + 5 \in bits, 32) + If(k + 6 \in bits, 64)
      + If(k + 7 \in bits, 128)

Number(bits) == 256 * Octet(bits, 8) + Octet(bits, 0)

\* Shift right, and apply the polynomial if a 1 fell out.
Shift(crc, polynomial) ==
    LET shifted == {k - 1 : k \in crc \ {0}}
    IN  IF 0 \in crc THEN Xor(shifted, polynomial) ELSE shifted

\* A byte is added to the low bits, then the register is shifted eight times.
AddByte(crc, polynomial, byte) ==
    LET Twice(c) == Shift(Shift(c, polynomial), polynomial)
    IN  Twice(Twice(Twice(Twice(Xor(crc, BitSet(byte))))))

Registers == SUBSET (0..15)

\* The bytes of data one after the other; from[i] adds those from byte i on.
Crc16(initial, polynomial, data) ==
    LET from[i \in 1..(Len(data) + 1)] ==
            [crc \in Registers |-> IF i > Len(data) THEN crc
                                   ELSE from[i + 1][AddByte(crc, polynomial, data[i])]]
    IN  from[1][initial]

\* 0x8408, starting from 0xFFFF, complemented at the end.
crc16_x25(data) == Number(Xor(Crc16(0..15, {15, 10, 3}, data), 0..15))

\* 0xA001, starting from 0.
crc16_ibm(data) == Number(Crc16({}, {15, 13, 0}, data))

\* The check values the catalogues of CRCs list for the ASCII digits "123456789".
ASSUME CatalogueAssumption ==
    LET digits == [k \in 1..9 |-> 48 + k]
    IN  crc16_x25(digits) = 36974 /\ crc16_ibm(digits) = 47933
-----------------------------------------------------------------------------
(***************************************************************************)
(* GT06 (parsers/v5_parser.py).                                             *)
(***************************************************************************)
IsLong(raw) == SubSeq(raw, 1, 2) = <<121, 121>>

\* The hexadecimal digits of eight bytes, without leading zeros.
parse_login_packet(raw) ==
    LET payload == Slice(raw, 4, 12)
        digits == [k \in 1..16 |-> IF k % 2 = 1 THEN payload[(k + 1) \div 2] \div 16
                                                ELSE payload[k \div 2] % 16]
    IN  [imei |-> Numeral(digits)]

DaysIn(year, month) ==
    CASE month \in {4, 6, 9, 11} -> 30
      [] month = 2 -> IF year % 4 = 0 /\ (year % 100 # 0 \/ year % 400 = 0) THEN 29 ELSE 28
      [] OTHER -> 31

\* datetime(year, month, day, hour, minute, second) raises for any other value.
LegalTime(t) ==
    /\ t[2] \in 1..12
    /\ t[3] \in 1..DaysIn(2000 + t[1], t[2])
    /\ t[4] < 24 /\ t[5] < 60 /\ t[6] < 60

Hemisphere_SouthBit(value, negative) == IF negative THEN value ELSE -value

Hemisphere(value, negative) == IF negative THEN -value ELSE value

\* The bytes 4..21, which locations and alarms have in common.
parse_location_packet(raw) ==
    LET course == BigEndian(Slice(raw, 20, 22))
    IN  IF ~LegalTime(Slice(raw, 4, 10)) THEN Refused
        ELSE [time |-> Slice(raw, 4, 10),
              gps_length |-> Byte(raw, 10) \div 16,
              satellites |-> Byte(raw, 10) % 16,
              latitude |-> Hemisphere(BigEndian(Slice(raw, 11, 15)), ~Bit(course, 10)),
              longitude |-> Hemisphere(BigEndian(Slice(raw, 15, 19)), Bit(course, 11)),
              speed |-> Byte(raw, 19),
              heading |-> course % 1024,
              gps_fixed |-> Bit(course, 12)]

TerminalInfo(info, battery, gsm) ==
    [battery_level |-> battery, gsm_signal |-> gsm, ignition_status |-> Bit(info, 1),
     power_cut |-> Bit(info, 7), gps_tracking |-> Bit(info, 6), charging |-> Bit(info, 2),
     activated |-> Bit(info, 0)]

parse_terminal_status(raw) == TerminalInfo(Byte(raw, 4), Byte(raw, 5), Byte(raw, 6))

parse_alarm_packet(raw) ==
    LET fix == parse_location_packet(raw)
    IN  IF fix = Refused THEN Refused
        ELSE [fix |-> fix,
              mcc |-> BigEndian(Slice(raw, 22, 24)), mnc |-> Byte(raw, 24),
              lac |-> BigEndian(Slice(raw, 25, 27)), cell_id |-> BigEndian(Slice(raw, 27, 30)),
              status |-> TerminalInfo(Byte(raw, 30), Byte(raw, 31), Byte(raw, 32)),
              alarm_type |-> Byte(raw, 33) \div 16,
              english |-> Bit(Byte(raw, 33), 0)]

Payload_Short(raw) == Slice(raw, 4, Len(raw) - 6)

\* Protocol byte and serial number lie between the two.
Payload(raw) == Slice(raw, IF IsLong(raw) THEN 5 ELSE 4, Len(raw) - 6)

\* text.split(";")
Split[text \in ByteStrings] ==
    LET k == Semicolon(text)
    IN  IF k = 0 THEN <<text>> ELSE <<SubSeq(text, 1, k - 1)>> \o Split[Drop(text, k)]

\* "key=value" items separated by ";", as a function from keys to values.
Values(text) ==
    LET equals(item) == SelectInSeq(item, LAMBDA byte : byte = 61)
        items == SelectSeq(Split[text], LAMBDA item : equals(item) # 0)
        key(item) == Strip(SubSeq(item, 1, equals(item) - 1))
        Add(values, item) == Put(values, key(item), Strip(Drop(item, equals(item))))
    IN  FoldLeft(Add, <<>>, items)

parse_information_packet(raw) ==
    LET NotNull(byte) == byte # 0
        p == Payload(raw)
        text == IF SelectInSeq(p, NotNull) = 0 THEN <<>>
                ELSE SubSeq(p, SelectInSeq(p, NotNull), SelectLastInSeq(p, NotNull))
        is_ascii == \A k \in 1..Len(text) : text[k] \in 32..126
    IN  [is_ascii |-> is_ascii, values |-> IF is_ascii THEN Values(text) ELSE <<>>]

\* parsers/command_response_parser.py, up to the text: bytes that are not ASCII and
\* control characters are left out, white space goes from both ends.
parse_command_response(raw) ==
    LET Kept(byte) == byte \in 32..127 \cup {9, 10, 13}
    IN  [raw_text |-> Strip(SelectSeq(Payload(raw), Kept))]

ProtocolByte_Short(raw) == Byte(raw, 3)

ProtocolByte(raw) == IF IsLong(raw) THEN Byte(raw, 4) ELSE Byte(raw, 3)

\* "always fires": protocol and serial of the frame, and a checksum.
build_ack(raw) ==
    LET body == <<5, ProtocolByte(raw)>> \o SubSeq(raw, Len(raw) - 5, Len(raw) - 4)
    IN  <<120, 120>> \o body \o Bytes(crc16_x25(body), 2) \o <<13, 10>>

\* process_packet's choice of a parser.
Gt06Parse(raw) ==
    LET p == ProtocolByte(raw)
    IN  CASE p = 1 -> parse_login_packet(raw)
          [] p \in {18, 34} -> parse_location_packet(raw)
          [] p \in {19, 35} -> parse_terminal_status(raw)
          [] p = 38 -> parse_alarm_packet(raw)
          [] p \in {148, 110} -> parse_information_packet(raw)
          [] p = 33 -> parse_command_response(raw)
          [] OTHER -> Refused
-----------------------------------------------------------------------------
(***************************************************************************)
(* GPS103 (parsers/gps103_parser.py).  A report is its fields; a coordinate *)
(* its digits before and after the point, and a letter.                     *)
(***************************************************************************)
Decimal(digits) ==
    LET n[i \in 0..Len(digits)] == IF i = 0 THEN 0 ELSE 10 * n[i - 1] + digits[i]
    IN  n[Len(digits)]

Negative(letter) == letter \in {"S", "W"}

\* ddmm.mmmm: the last two digits before the point are minutes.
_nmea_to_degrees(c) ==
    LET n == Len(c.head)
        degrees == Decimal(SubSeq(c.head, 1, n - 2))
        minutes == Decimal(SubSeq(c.head, n - 1, n))
        value == (60 * degrees + minutes) * 10^Len(c.fraction) + Decimal(c.fraction)
    IN  IF n < 3 \/ minutes >= 60 THEN None
        ELSE IF Negative(c.hemisphere) THEN -value ELSE value

\* parse_tracker, for a report with a fix block; the rest is in FrameHandling.
\* Refused: the report is taken as one without a position.
Gps103Parse(fields) ==
    LET latitude == _nmea_to_degrees(fields.latitude)
        longitude == _nmea_to_degrees(fields.longitude)
    IN  IF None \in {latitude, longitude} THEN Refused
        ELSE [time |-> resolve_utc_timestamp(fields.local, fields.utc),
              latitude |-> latitude, longitude |-> longitude]
-----------------------------------------------------------------------------
(***************************************************************************)
(* Teltonika (parsers/teltonika_parser.py).  Unsigned numbers that may be   *)
(* wider than TLC's integers are kept as numerals.                          *)
(***************************************************************************)
\* int.from_bytes(b, "big", signed=True)
Signed(b) ==
    IF b[1] > 127 THEN -1 - BigEndian([k \in 1..Len(b) |-> 255 - b[k]]) ELSE BigEndian(b)

\* What has been read, and the data behind it.
Parsed(value, rest) == [ok |-> TRUE, value |-> value, rest |-> rest]

ParseError == [ok |-> FALSE, value |-> None, rest |-> <<>>]

\* An element with an identifier of idLen bytes and a value of valueLen bytes.
Element(p, idLen, valueLen) ==
    IF ~p.ok THEN ParseError
    ELSE IF Len(p.rest) < idLen + valueLen THEN ParseError
    ELSE Parsed(Put(p.value, BigEndian(Slice(p.rest, 0, idLen)),
                    [int |-> TRUE, value |-> Numeral(Slice(p.rest, idLen, idLen + valueLen))]),
                Drop(p.rest, idLen + valueLen))

\* An element of Codec 8E with the length of its value.
VariableElement(p) ==
    LET end == 4 + BigEndian(Slice(p.rest, 2, 4))
    IN  IF ~p.ok THEN ParseError
        ELSE IF Len(p.rest) < 4 THEN ParseError
        ELSE IF Len(p.rest) < end THEN ParseError
        ELSE Parsed(Put(p.value, BigEndian(Slice(p.rest, 0, 2)),
                        [int |-> FALSE, value |-> Slice(p.rest, 4, end)]),
                    Drop(p.rest, end))

\* n of them.
Elements(p, n, idLen, valueLen) ==
    LET read[i \in 0..n] == IF i = 0 THEN p ELSE Element(read[i - 1], idLen, valueLen)
    IN  read[n]

VariableElements(p, n) ==
    LET read[i \in 0..n] == IF i = 0 THEN p ELSE VariableElement(read[i - 1])
    IN  read[n]

\* The count of a group of elements, and the elements.
Group(p, idLen, valueLen) ==
    IF ~p.ok THEN ParseError
    ELSE IF Len(p.rest) < idLen THEN ParseError
    ELSE Elements(Parsed(p.value, Drop(p.rest, idLen)), BigEndian(Slice(p.rest, 0, idLen)),
                  idLen, valueLen)

VariableGroup(p) ==
    IF ~p.ok THEN ParseError
    ELSE IF Len(p.rest) < 2 THEN ParseError
    ELSE VariableElements(Parsed(p.value, Drop(p.rest, 2)), BigEndian(Slice(p.rest, 0, 2)))

\* The event's identifier and a total, which is not used, are followed by one
\* group for each size of values.
_read_io(data, extended) ==
    LET idLen == IF extended THEN 2 ELSE 1
        start == Parsed(<<>>, Drop(data, 2 * idLen))
        fixed == Group(Group(Group(Group(start, idLen, 1), idLen, 2), idLen, 4), idLen, 8)
    IN  IF Len(data) < 2 * idLen THEN ParseError
        ELSE IF extended THEN VariableGroup(fixed) ELSE fixed

\* The last millisecond of the year 9999, as a numeral.
LastMillis == <<230, 119, 210, 31, 219, 255>>

\* datetime.fromtimestamp raises beyond it.
InRange(millis) ==
    \/ Len(millis) < 6
    \/ Len(millis) = 6 /\ \/ millis = LastMillis
                          \/ \E k \in 1..6 : /\ SubSeq(millis, 1, k - 1) = SubSeq(LastMillis, 1, k - 1)
                                             /\ millis[k] < LastMillis[k]

_read_record(data, extended) ==
    LET io == _read_io(Drop(data, 24), extended)
        millis == Numeral(Slice(data, 0, 8))
    IN  IF Len(data) < 24 THEN ParseError
        ELSE IF ~InRange(millis) \/ ~io.ok THEN ParseError
        ELSE Parsed([millis |-> millis, priority |-> Byte(data, 8),
                     longitude |-> Signed(Slice(data, 9, 13)),
                     latitude |-> Signed(Slice(data, 13, 17)),
                     altitude |-> Signed(Slice(data, 17, 19)),
                     angle |-> BigEndian(Slice(data, 19, 21)), satellites |-> Byte(data, 21),
                     speed |-> BigEndian(Slice(data, 22, 24)),
                     event_io_id |-> BigEndian(Slice(data, 24, IF extended THEN 26 ELSE 25)),
                     io |-> io.value], io.rest)

\* One more record, and count of them.
NextRecord(p, extended) ==
    LET r == _read_record(p.rest, extended)
    IN  IF ~p.ok THEN ParseError
        ELSE IF ~r.ok THEN ParseError
        ELSE Parsed(Append(p.value, r.value), r.rest)

ReadRecords(data, count, extended) ==
    LET read[i \in 0..count] ==
            IF i = 0 THEN Parsed(<<>>, data) ELSE NextRecord(read[i - 1], extended)
    IN  read[count]

CrcMatches_Never(data, received) == TRUE

CrcMatches(data, received) == received = crc16_ibm(data)

\* The count again, and nothing behind it.
CountsAgree(count, rest) == rest = <<count>>

parse_avl_packet(frame) ==
    LET length == BigEndian(Slice(frame, 4, 8))
        data == Slice(frame, 8, 8 + length)
        r == ReadRecords(Drop(data, 2), data[2], data[1] = 142)
    IN  IF Len(frame) < 15 \/ ~IsPrefix(Zeros(4), frame) THEN Refused
        ELSE IF Len(frame) # 12 + length THEN Refused
        ELSE IF ~CrcMatches(data, BigEndian(Drop(frame, 8 + length))) THEN Refused
        ELSE IF data[1] \notin {8, 142} THEN Refused
        ELSE IF ~r.ok THEN Refused
        ELSE IF ~CountsAgree(data[2], r.rest) THEN Refused
        ELSE [codec |-> data[1], records |-> r.value]

TeltonikaParse(frame) ==
    IF Len(frame) = LoginLen /\ SubSeq(frame, 1, 2) = <<0, 15>>
    THEN [imei |-> [k \in 1..15 |-> frame[k + 2] - 48]]
    ELSE parse_avl_packet(frame)

\* struct.pack(">I", records_accepted)
ack(records_accepted) == Bytes(records_accepted, 4)
-----------------------------------------------------------------------------
(***************************************************************************)
(* utils/command_builder.py.  A text is the code points of its characters.  *)
(* encode("ascii") raises for one that is not ASCII, to_bytes and           *)
(* bytes([...]) for a number that does not fit; then nothing is sent.       *)
(***************************************************************************)
PacketLength(body) == Len(body) + 2

Ascii(text) == \A k \in 1..Len(text) : text[k] < 128

\* serial.to_bytes(2), encode("ascii"), bytes([command_length]), bytes([packet_length])
Fits(text, serial, length) ==
    serial < 65536 /\ Ascii(text) /\ 4 + Len(text) <= 255 /\ length <= 255

build_command(text, serial) ==
    LET body == <<128, 4 + Len(text)>> \o <<0, 0, 0, 1>> \o text \o <<0, 2>> \o Bytes(serial, 2)
        length == PacketLength(body)
    IN  IF ~Fits(text, serial, length) THEN <<>>
        ELSE <<120, 120, length>> \o body \o Bytes(crc16_x25(<<length>> \o body), 2) \o <<13, 10>>
-----------------------------------------------------------------------------
(***************************************************************************)
(* The device's side: what it puts on the wire, what it reads from it.      *)
(***************************************************************************)
Abs(n) == IF n < 0 THEN -n ELSE n

FixBytes(f) ==
    f.time \o <<16 * f.gps_length + f.satellites>> \o Bytes(Abs(f.latitude), 4)
           \o Bytes(Abs(f.longitude), 4) \o <<f.speed>>
           \o Bytes(f.heading + If(f.latitude >= 0, 1024) + If(f.longitude < 0, 2048)
                      + If(f.gps_fixed, 4096), 2)

StatusBytes(s) ==
    <<If(s.ignition_status, 2) + If(s.power_cut, 128) + If(s.gps_tracking, 64)
        + If(s.charging, 4) + If(s.activated, 1), s.battery_level, s.gsm_signal>>

AlarmBytes(a) ==
    FixBytes(a.fix) \o Bytes(a.mcc, 2) \o <<a.mnc>> \o Bytes(a.lac, 2) \o Bytes(a.cell_id, 3)
      \o StatusBytes(a.status) \o <<16 * a.alarm_type + If(a.english, 1)>>

\* Two digits in a byte, after a 0.
ImeiBytes(imei) == [k \in 1..8 |-> 16 * (IF k = 1 THEN 0 ELSE imei[2 * k - 2]) + imei[2 * k - 1]]

Content(m) ==
    CASE m.kind = "login" -> ImeiBytes(m.data.imei)
      [] m.kind = "location" -> FixBytes(m.data)
      [] m.kind = "status" -> StatusBytes(m.data)
      [] m.kind = "alarm" -> AlarmBytes(m.data)
      [] m.kind \in {"text", "response"} -> m.text

\* A frame counts its bytes from the protocol to the checksum.
Gt06Body(m) ==
    (IF m.long THEN Bytes(5 + Len(Content(m)), 2) ELSE <<5 + Len(Content(m))>>)
      \o <<m.protocol>> \o Content(m) \o Bytes(m.serial, 2)

Gt06Wire(m) ==
    (IF m.long THEN <<121, 121>> ELSE <<120, 120>>)
      \o Gt06Body(m) \o Bytes(crc16_x25(Gt06Body(m)), 2) \o <<13, 10>>

DecimalDigits(n, w) == [k \in 1..w |-> (n \div <<1, 10, 100, 1000>>[w - k + 1]) % 10]

\* The parts of a coordinate.
Degrees(p) == Abs(p) \div 600000

Minutes(p) == (Abs(p) \div 10000) % 60

Fraction(p) == Abs(p) % 10000

\* excess: minutes above 59, which no coordinate has.
NmeaField(p, w, letters, excess) ==
    [head |-> DecimalDigits(Degrees(p), w) \o DecimalDigits(Minutes(p) + excess, 2),
     fraction |-> DecimalDigits(Fraction(p), 4),
     hemisphere |-> letters[IF p < 0 THEN 2 ELSE 1]]

Gps103Wire(m) ==
    [local |-> m.data.time + m.offset, utc |-> TimeOfDay(m.data.time),
     latitude |-> NmeaField(m.data.latitude, 2, <<"N", "S">>, m.excess),
     longitude |-> NmeaField(m.data.longitude, 3, <<"E", "W">>, 0)]

TwosComplement(n, w) == IF n >= 0 THEN Bytes(n, w) ELSE [k \in 1..w |-> 255 - Bytes(-1 - n, w)[k]]

Padded(numeral, w) == Zeros(w - Len(numeral)) \o numeral

\* Byte strings one behind the other.
Joined(parts) ==
    LET from[k \in 1..(Len(parts) + 1)] == IF k > Len(parts) THEN <<>> ELSE parts[k] \o from[k + 1]
    IN  from[1]

\* The elements of io whose identifiers are given, in that order.
GroupBytes(ids, io, idLen, valueLen) ==
    Bytes(Len(ids), idLen)
      \o Joined([k \in 1..Len(ids) |-> Bytes(ids[k], idLen) \o Padded(io[ids[k]].value, valueLen)])

VariableBytes(ids, io) ==
    Bytes(Len(ids), 2)
      \o Joined([k \in 1..Len(ids) |->
                    Bytes(ids[k], 2) \o Bytes(Len(io[ids[k]].value), 2) \o io[ids[k]].value])

\* order: the identifiers of each of the groups.
IoBytes(event, io, order, idLen) ==
    Bytes(event, idLen)
      \o Bytes(Len(order[1]) + Len(order[2]) + Len(order[3]) + Len(order[4]) + Len(order[5]), idLen)
      \o GroupBytes(order[1], io, idLen, 1) \o GroupBytes(order[2], io, idLen, 2)
      \o GroupBytes(order[3], io, idLen, 4) \o GroupBytes(order[4], io, idLen, 8)
      \o IF idLen = 1 THEN <<>> ELSE VariableBytes(order[5], io)

RecordBytes(r, order, idLen) ==
    Padded(r.millis, 8) \o <<r.priority>> \o TwosComplement(r.longitude, 4)
      \o TwosComplement(r.latitude, 4) \o TwosComplement(r.altitude, 2) \o Bytes(r.angle, 2)
      \o <<r.satellites>> \o Bytes(r.speed, 2) \o IoBytes(r.event_io_id, r.io, order, idLen)

IdLen(codec) == IF codec = 142 THEN 2 ELSE 1

\* count, trailing and extra are wrong in a malformed packet.
AvlData(m) ==
    <<m.data.codec, m.count>>
      \o Joined([k \in 1..Len(m.data.records) |->
                    RecordBytes(m.data.records[k], m.orders[k], IdLen(m.data.codec))])
      \o <<m.trailing>> \o m.extra

AvlWire(m) ==
    Zeros(4) \o Bytes(Len(AvlData(m)), 4) \o AvlData(m) \o Bytes(crc16_ibm(AvlData(m)), 4)

Wire(m) ==
    CASE m.family = "GT06" -> Gt06Wire(m)
      [] m.family = "GPS103" -> Gps103Wire(m)
      [] m.family = "TELTONIKA" /\ m.kind = "login" -> <<0, 15>> \o [k \in 1..15 |-> 48 + m.data.imei[k]]
      [] m.family = "TELTONIKA" /\ m.kind = "avl" -> AvlWire(m)
      [] m.family = "COMMAND" -> build_command(m.data.text, m.data.serial)

\* A GT06 frame as a device takes it: whole, the checksum right.
IsFrame(b) ==
    /\ extract_packets[b] = Extracted(<<b>>, <<>>)
    /\ BigEndian(Slice(b, Len(b) - 4, Len(b) - 2)) = crc16_x25(Slice(b, 2, Len(b) - 4))
    /\ Drop(b, Len(b) - 2) = <<13, 10>>

\* The text lies between the server flag and the language.
CommandRead(b) ==
    IF b = <<>> THEN Refused
    ELSE IF ~IsFrame(b) THEN Waiting
    ELSE [text |-> Slice(b, 9, 5 + Byte(b, 4)), serial |-> BigEndian(Slice(b, Len(b) - 6, Len(b) - 4))]
-----------------------------------------------------------------------------
(***************************************************************************)
(* The messages, by what fits their fields.                                 *)
(***************************************************************************)
Imeis == [1..15 -> 0..9]

\* TLC's integers; two bytes with a sign.
MaxInt == 2147483647

Signed32 == {n \in Int : Abs(n) <= MaxInt}

Signed16 == {n \in Int : -32768 <= n /\ n < 32768}

FixFields ==
    [time : [1..6 -> Octets], gps_length : 0..15, satellites : 0..15, latitude : Signed32,
     longitude : Signed32, speed : Octets, heading : 0..1023, gps_fixed : BOOLEAN]

StatusFields ==
    [battery_level : Octets, gsm_signal : Octets, ignition_status : BOOLEAN, power_cut : BOOLEAN,
     gps_tracking : BOOLEAN, charging : BOOLEAN, activated : BOOLEAN]

CellIds == Below(16777216)

AlarmFields ==
    [fix : FixFields, mcc : Halfwords, mnc : Octets, lac : Halfwords, cell_id : CellIds,
     status : StatusFields, alarm_type : 0..15, english : BOOLEAN]

\* Only frames with text may be long.  The parser reads an IMEI without zeros at
\* its start.
Gt06Fits(m) ==
    /\ m.protocol \in Octets /\ m.serial \in Halfwords /\ m.long \in BOOLEAN
    /\ m.kind \in {"text", "response"} \/ ~m.long
    /\ \/ m.kind = "login" /\ m.protocol = 1 /\ m.data \in [imei : {i \in Imeis : i[1] # 0}]
       \/ m.kind = "location" /\ m.protocol \in {18, 34} /\ m.data \in FixFields
       \/ m.kind = "status" /\ m.protocol \in {19, 35} /\ m.data \in StatusFields
       \/ m.kind = "alarm" /\ m.protocol = 38 /\ m.data \in AlarmFields
       \/ /\ m.kind \in {"text", "response"}
          /\ m.text \in ByteStrings /\ Len(m.text) <= IF m.long THEN 65530 ELSE 250

\* Degrees of at most w digits.
Coordinates(w) == {p \in Int : Degrees(p) < 10^w}

\* offset: of the local clock from UTC in minutes, -12:00 to +14:00.
Gps103Fits(m) ==
    /\ m.data \in [time : Nat, latitude : Coordinates(2), longitude : Coordinates(3)]
    /\ m.offset \in -720..840
    /\ m.excess = 0 \/ Minutes(m.data.latitude) + m.excess \in 60..99

\* No leading zeros.
Numerals(w) == {b \in ByteStrings : Len(b) <= w /\ (b # <<>> => b[1] # 0)}

Ids(idLen) == IF idLen = 1 THEN Octets ELSE Halfwords

\* Byte strings whose length fits two bytes.
ShortStrings == {b \in ByteStrings : Len(b) < 65536}

\* The identifiers of the j-th group and the values that go with them.
GroupFits(ids, io, j, idLen) ==
    /\ ids \in Seq(Ids(idLen)) /\ Len(ids) \in Ids(idLen)
    /\ \A k \in 1..Len(ids) :
          IF j = 5 THEN io[ids[k]] \in [int : {FALSE}, value : ShortStrings]
                   ELSE io[ids[k]] \in [int : {TRUE}, value : Numerals(<<1, 2, 4, 8>>[j])]

RecordFits(r, order, idLen) ==
    /\ r \in [millis : Numerals(8), priority : Octets, longitude : Signed32, latitude : Signed32,
              altitude : Signed16, angle : Halfwords, satellites : Octets, speed : Halfwords,
              event_io_id : Ids(idLen), io : {r.io}]
    /\ r.io = [id \in UNION {Range(order[j]) : j \in 1..5} |-> r.io[id]]
    /\ DOMAIN order = 1..5 /\ \A j \in 1..5 : GroupFits(order[j], r.io, j, idLen)
    /\ idLen = 1 => order[5] = <<>>

\* What follows the records is too short for one more.
AvlFits(m) ==
    LET records == m.data.records
    IN  /\ m.data = [codec |-> m.data.codec, records |-> records]
        /\ {m.data.codec, m.count, m.trailing} \subseteq Octets /\ m.extra \in ByteStrings
        /\ Len(m.extra) < 23
        /\ records = [k \in 1..Len(records) |-> records[k]] /\ Len(records) \in Octets
        /\ \A k \in 1..Len(records) : RecordFits(records[k], m.orders[k], IdLen(m.data.codec))
        /\ Len(AvlData(m)) <= MaxInt

CommandFits(m) == m.data \in [text : Seq(Nat), serial : Nat]

Fitting(m) ==
    \/ m.family = "GT06" /\ Gt06Fits(m)
    \/ m.family = "GPS103" /\ Gps103Fits(m)
    \/ m.family = "TELTONIKA" /\ m.kind = "login" /\ m.data \in [imei : Imeis]
    \/ m.family = "TELTONIKA" /\ m.kind = "avl" /\ AvlFits(m)
    \/ m.family = "COMMAND" /\ CommandFits(m)

ASSUME SamplesAssumption == None \notin Samples /\ \A m \in Samples : Fitting(m)

\* The sizes of Teltonika's fields.
ASSUME FieldsAssumption ==
    LoginLen = 17 /\ PreambleLen = 4 /\ LengthLen = 4 /\ TrailerLen = 4
-----------------------------------------------------------------------------
(***************************************************************************)
(* A message on its way.                                                    *)
(***************************************************************************)
DecodingInit ==
    /\ msg = None
    /\ wire = <<>>
    /\ damaged = 0
    /\ got = None
    /\ reply = <<>>

Send(m) ==
    /\ msg = None
    /\ msg' = m
    /\ wire' = Wire(m)
    /\ UNCHANGED <<damaged, got, reply>>

\* The bits of a mask are flipped in one byte of a data packet.
Damage(mask) ==
    /\ msg # None /\ got = None /\ damaged = 0
    /\ msg.family = "TELTONIKA" /\ msg.kind = "avl"
    /\ \E k \in 1..Len(wire) :
          /\ wire' = [wire EXCEPT ![k] = Number(Xor(BitSet(@), BitSet(mask)))]
          /\ damaged' = k
    /\ UNCHANGED <<msg, got, reply>>

\* What becomes of a stream whose first frame, if there is one, parses as it does.
Taken(r, parsed) ==
    IF r.error THEN Refused ELSE IF r.frames = <<>> THEN Waiting ELSE parsed

\* A Teltonika device is answered if it is admitted, and then with the number of
\* records the store accepted; both are up to the database (TeltonikaDelivery).
Receive ==
    /\ msg # None /\ got = None
    /\ \/ /\ msg.family = "GT06"
          /\ LET r == extract_packets[wire] IN
                /\ got' = Taken(r, Gt06Parse(r.frames[1]))
                /\ reply' = Taken(r, build_ack(r.frames[1]))
       \/ /\ msg.family = "GPS103"
          /\ got' = Gps103Parse(wire)
          /\ UNCHANGED reply
       \/ /\ msg.family = "TELTONIKA"
          /\ LET r == extract_frames[wire] IN got' = Taken(r, TeltonikaParse(r.frames[1]))
          /\ reply' \in CASE got' \in {Refused, Waiting} -> {<<>>}
                         [] got' \notin {Refused, Waiting} /\ msg.kind = "login" -> {<<>>, <<1>>}
                         [] got' \notin {Refused, Waiting} /\ msg.kind = "avl" ->
                               {ack(accepted) : accepted \in 0..Len(got'.records)}
       \/ /\ msg.family = "COMMAND"
          /\ got' = CommandRead(wire)
          /\ UNCHANGED reply
    /\ UNCHANGED <<msg, wire, damaged>>

\* The next message.
Done ==
    /\ got # None
    /\ msg' = None
    /\ wire' = <<>>
    /\ damaged' = 0
    /\ got' = None
    /\ reply' = <<>>

DecodingNext ==
    \/ \E m \in Samples : Send(m)
    \/ \E mask \in Masks : Damage(mask)
    \/ Receive
    \/ Done

DecodingSpec == DecodingInit /\ [][DecodingNext]_decodingVars
-----------------------------------------------------------------------------
Arrived(family) == got # None /\ damaged = 0 /\ msg.family = family

\* Read as it was meant if it can be meant, and else not at all.
ReadIf(valid) == got = IF valid THEN msg.data ELSE Refused

HasText == msg.kind \in {"text", "response"}

(***************************************************************************)
(* Every field of a GT06 login, position, status or alarm comes out of its  *)
(* parser unchanged, the sign of a coordinate in each hemisphere and the    *)
(* bits of the course and the status included; a position at a time that    *)
(* does not exist is refused as a whole, although its checksum is right.    *)
(***************************************************************************)
Gt06IsRead ==
    (Arrived("GT06") /\ ~HasText) =>
        ReadIf(CASE msg.kind = "location" -> LegalTime(msg.data.time)
                 [] msg.kind = "alarm" -> LegalTime(msg.data.fix.time)
                 [] OTHER -> TRUE)

(***************************************************************************)
(* The text of a GT06 information frame or command response is found in a   *)
(* short and in a long frame, and its keys and values are told apart.       *)
(***************************************************************************)
TextIsRead == (Arrived("GT06") /\ HasText) => ReadIf(TRUE)

\* The offset is wrapped into (-12 h, 12 h]: a zone beyond is taken for the one a
\* day from it.
DayOff(offset) == IF offset > 720 THEN Day ELSE IF offset <= -720 THEN -Day ELSE 0

(***************************************************************************)
(* A GPS103 report gives the position it was sent with, in each hemisphere, *)
(* and its UTC instant on either side of midnight, in the time zones from   *)
(* -11:59 to +12:00.  Further east the instant is exactly a day late, at    *)
(* -12:00 a day early.  With minutes that no coordinate has the report      *)
(* gives no position.                                                       *)
(***************************************************************************)
Gps103IsRead ==
    Arrived("GPS103") =>
        got = IF msg.excess # 0 THEN Refused
              ELSE [msg.data EXCEPT !.time = @ + DayOff(msg.offset)]

(***************************************************************************)
(* "We rebuild a UTC timestamp from the two, wrapping the offset into       *)
(* +/-12h, so it is correct for any timezone and across midnight"           *)
(* (gps103_parser.py).  Time zones reach from -12:00 to +14:00.  The code   *)
(* does not do this: violated as an invariant of the run Decoding.          *)
(***************************************************************************)
AnyZoneIsRead == Arrived("GPS103") => ReadIf(msg.excess = 0)

\* What the format allows: counts that agree, a codec and a time that exist.
ValidAvl(m) ==
    /\ m.data.codec \in {8, 142} /\ Len(AvlData(m)) <= MaxPacket
    /\ m.count = Len(m.data.records) /\ m.trailing = m.count /\ m.extra = <<>>
    /\ \A k \in 1..Len(m.data.records) : InRange(m.data.records[k].millis)

(***************************************************************************)
(* Every record of a Teltonika packet comes out unchanged: coordinates of   *)
(* either sign, IO elements of every size, in either codec.  A packet with  *)
(* a count, a codec, a size or a time that cannot be is refused as a whole. *)
(***************************************************************************)
TeltonikaIsRead == Arrived("TELTONIKA") => ReadIf(msg.kind = "avl" => ValidAvl(msg))

(***************************************************************************)
(* A command reaches the device as one whole frame with its text, or is not *)
(* sent: exactly when its text is not ASCII or longer than 243 characters,  *)
(* or its serial, which the process only counts up, does not fit two bytes. *)
(***************************************************************************)
SendableCommand(c) == Ascii(c.text) /\ Len(c.text) <= 243 /\ c.serial < 65536

CommandIsRead == Arrived("COMMAND") => ReadIf(SendableCommand(msg.data))

(***************************************************************************)
(* Whoever sends it, what was meant is what is read, in every field but the *)
(* day of a GPS103 report from a zone beyond the half day, and a message    *)
(* that cannot be meant is refused as a whole: Gt06IsRead, Gps103IsRead,    *)
(* TeltonikaIsRead and CommandIsRead together.                              *)
(***************************************************************************)
DecodedIsSent == Gt06IsRead /\ Gps103IsRead /\ TeltonikaIsRead /\ CommandIsRead

\* A length that became smaller moves the place where the checksum is looked for,
\* and no checksum rules out that the bytes there are the right ones.
ByChance ==
    LET n == AvlLength(wire)
    IN  /\ n < Len(AvlData(msg))
        /\ BigEndian(Slice(wire, 8 + n, 12 + n)) = crc16_ibm(Slice(wire, 8, 8 + n))

(***************************************************************************)
(* "CRC mismatch. The packet is not acknowledged so the device resends it": *)
(* wherever a byte of a data packet is changed - preamble, length, record,  *)
(* count or checksum - the packet is not decoded, as nothing and as nothing *)
(* else, and not answered, but for the chance above.                        *)
(***************************************************************************)
DamageRefused ==
    (got # None /\ damaged # 0 /\ ~ByChance) => got \in {Refused, Waiting} /\ reply = <<>>

(***************************************************************************)
(* The acknowledgement a GT06 device waits for (build_ack): a whole frame   *)
(* with the protocol and the serial number of the frame it sent, short or   *)
(* long, parsed or refused.                                                 *)
(***************************************************************************)
AckMatches ==
    Arrived("GT06") =>
        /\ IsFrame(reply)
        /\ ProtocolByte(reply) = msg.protocol
        /\ Slice(reply, Len(reply) - 6, Len(reply) - 4) = Bytes(msg.serial, 2)
=============================================================================
