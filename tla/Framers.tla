------------------------------- MODULE Framers -------------------------------
(***************************************************************************)
(* The three framers, which split the bytes of a connection into frames:    *)
(* utils/packet_buffer.py, parsers/gps103_parser.py and                     *)
(* parsers/teltonika_parser.py.  A framer returns the complete frames, the  *)
(* rest to keep, or an error that ends the connection.  Each is a loop; the *)
(* operator ...Turn says what one turn of it does with the bytes it has.    *)
(* The sizes of the Teltonika fields are parameters, so that whole frames   *)
(* fit the streams TLC can enumerate.                                       *)
(***************************************************************************)
EXTENDS Integers, Sequences, SequencesExt

CONSTANTS
    MaxUnframed,  \* config.GPS103_MAX_UNFRAMED_BYTES
    MaxPacket,    \* config.TELTONIKA_MAX_PACKET_BYTES
    LoginLen,     \* LOGIN_FRAME_LEN (17)
    PreambleLen,  \* zero bytes that start an AVL packet (4)
    LengthLen,    \* bytes of its length field (4)
    TrailerLen,   \* bytes of its CRC (4)
    None          \* no value

ASSUME SizesAssumption ==
    /\ {MaxUnframed, MaxPacket, LoginLen, TrailerLen} \subseteq Nat
    /\ PreambleLen \in Nat \ {0, 1} /\ LengthLen \in Nat \ {0} /\ LoginLen >= PreambleLen
-----------------------------------------------------------------------------
(***************************************************************************)
(* Helpers on byte strings.                                                 *)
(***************************************************************************)
ByteStrings == Seq(0..255)

Drop(b, n) == SubSeq(b, n + 1, Len(b))

Digits(b) == \A k \in 1..Len(b) : b[k] \in 48..57

Zeros(n) == [k \in 1..n |-> 0]

\* The numbers one more byte may follow, in the range of TLC's integers.
MaxPrefix == 8388607

\* The limit a length is compared with (4096 by default) is one of them.
ASSUME LimitAssumption == MaxPacket <= MaxPrefix

\* int.from_bytes(b, "big"), exact below 2^31; a larger number stays larger than
\* that limit.
BigEndian(b) ==
    LET n[i \in 0..Len(b)] ==
            IF i = 0 THEN 0
            ELSE IF n[i - 1] > MaxPrefix THEN n[i - 1] ELSE 256 * n[i - 1] + b[i]
    IN  n[Len(b)]

\* bytes.strip: white space goes from both ends.
IsText(byte) == byte \notin {9, 10, 11, 12, 13, 32}

Strip(b) == IF SelectInSeq(b, IsText) = 0 THEN <<>>
            ELSE SubSeq(b, SelectInSeq(b, IsText), SelectLastInSeq(b, IsText))
-----------------------------------------------------------------------------
(***************************************************************************)
(* The loop of a framer.  A turn waits for more bytes, fails, or takes the  *)
(* first n bytes, which give no frame or one.                               *)
(***************************************************************************)
Wait == [act |-> "wait", n |-> 0, frames |-> <<>>]

Fail == [act |-> "fail", n |-> 0, frames |-> <<>>]

Take(n, fs) == [act |-> "take", n |-> n, frames |-> fs]

Extracted(fs, rest) == [frames |-> fs, rest |-> rest, error |-> FALSE]

FramingError == [frames |-> <<>>, rest |-> <<>>, error |-> TRUE]

\* The frames fs come before what the loop goes on to extract.
Before(fs, r) == IF r.error THEN FramingError ELSE Extracted(fs \o r.frames, r.rest)

\* What the loop extracts from b, of which this turn makes t; f[c] is what it
\* extracts from the shorter c.
Loop(t, b, f) ==
    CASE t.act = "wait" -> Extracted(<<>>, b)
      [] t.act = "fail" -> FramingError
      [] t.act = "take" -> Before(t.frames, f[Drop(b, t.n)])
-----------------------------------------------------------------------------
(***************************************************************************)
(* utils/packet_buffer.py.  78 78 starts a frame with one length byte,      *)
(* 79 79 one with two; any other byte is skipped.                           *)
(***************************************************************************)
Gt06Total(b) == IF b[1] = 120 THEN b[3] + 5 ELSE 256 * b[3] + b[4] + 6

Gt06Turn_Flushes(b) ==
    IF b = <<>> THEN Wait
    ELSE IF Len(b) < 5 THEN Take(Len(b), <<>>)
    ELSE IF b[1] \notin {120, 121} \/ b[2] # b[1] THEN Take(1, <<>>)
    ELSE IF Len(b) < Gt06Total(b) THEN Wait
    ELSE Take(Gt06Total(b), <<SubSeq(b, 1, Gt06Total(b))>>)

Gt06Turn(b) ==
    IF Len(b) < 5 THEN Wait
    ELSE IF b[1] \notin {120, 121} \/ b[2] # b[1] THEN Take(1, <<>>)
    ELSE IF Len(b) < Gt06Total(b) THEN Wait
    ELSE Take(Gt06Total(b), <<SubSeq(b, 1, Gt06Total(b))>>)

extract_packets[buffer \in ByteStrings] == Loop(Gt06Turn(buffer), buffer, extract_packets)

(***************************************************************************)
(* parsers/gps103_parser.py.  A message ends with ';' (59); empty ones are  *)
(* dropped, and too long a rest is an error.                                *)
(***************************************************************************)
Semicolon(b) == SelectInSeq(b, LAMBDA byte : byte = 59)

Overflows_Never(b) == FALSE

Overflows(b) == Len(b) > MaxUnframed

Gps103Turn(b) ==
    IF Semicolon(b) = 0 THEN IF Overflows(b) THEN Fail ELSE Wait
    ELSE LET raw == Strip(SubSeq(b, 1, Semicolon(b) - 1))
         IN  Take(Semicolon(b), IF raw = <<>> THEN <<>> ELSE <<raw>>)

extract_messages[buffer \in ByteStrings] == Loop(Gps103Turn(buffer), buffer, extract_messages)

(***************************************************************************)
(* parsers/teltonika_parser.py.  00 0F starts a login of LoginLen bytes, a  *)
(* preamble of zeros an AVL packet; nothing else is allowed.                *)
(***************************************************************************)
AvlLength(b) == BigEndian(SubSeq(b, PreambleLen + 1, PreambleLen + LengthLen))

LegalLength(n) == n \in 1..MaxPacket

GoodLogin_Any(b) == TRUE

GoodLogin(b) == Digits(SubSeq(b, 3, LoginLen))

AvlTotal(b) == PreambleLen + LengthLen + AvlLength(b) + TrailerLen

TeltonikaTurn(b) ==
    LET login == IsPrefix(<<0, 15>>, b)
        avl == IsPrefix(Zeros(PreambleLen), b)
        total == IF login THEN LoginLen ELSE AvlTotal(b)
    IN  IF Len(b) < PreambleLen THEN Wait
        ELSE IF ~login /\ ~avl THEN Fail
        ELSE IF avl /\ Len(b) < PreambleLen + LengthLen THEN Wait
        ELSE IF avl /\ ~LegalLength(AvlLength(b)) THEN Fail
        ELSE IF Len(b) < total THEN Wait
        ELSE IF login /\ ~GoodLogin(b) THEN Fail
        ELSE Take(total, <<SubSeq(b, 1, total)>>)

extract_frames[buffer \in ByteStrings] == Loop(TeltonikaTurn(buffer), buffer, extract_frames)
=============================================================================
