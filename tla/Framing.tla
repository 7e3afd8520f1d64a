------------------------------- MODULE Framing -------------------------------
(***************************************************************************)
(* From bytes to frames: the first reads of tcp_server.handle_device,       *)
(* protocols/detect.py, and the framer it feeds the stream to.              *)
(*                                                                          *)
(* TCP hands the bytes of one peer over in pieces of any size.  `sent' is   *)
(* all of them so far; what the gateway makes of them is what the framer    *)
(* would make of them at once.  Where TCP cuts still matters to a stream    *)
(* with an error: the frames ahead of it that came with the same read are   *)
(* lost, and a GPS103 message longer than the limit is framed if one read   *)
(* ends it and refused if it does not.                                      *)
(***************************************************************************)
EXTENDS Framers

CONSTANTS
    Setups,       \* peers and configurations, see below
    MaxRead       \* bound: bytes one read returns (4096)

(***************************************************************************)
(* A setup says which bytes the peer sends, how many at most (a bound), and *)
(* which families the gateway serves (config.ENABLED_PROTOCOLS).            *)
(***************************************************************************)
Protocols == {"GT06", "GPS103", "TELTONIKA"}

ASSUME SetupsAssumption ==
    Setups \subseteq [bytes : SUBSET (0..255), maxSent : Nat, enabled : SUBSET Protocols]
ASSUME ReadAssumption == MaxRead \in Nat
ASSUME NoneAssumption == None \notin Protocols

VARIABLES
    setup,   \* the setup of this behaviour
    sent,    \* history: every byte read so far
    family,  \* handle_device's protocol, None before detection
    buffer,  \* handle_device's buffer (its data before detection)
    frames,  \* what has been handed to the handler
    closed   \* the connection was given up

vars == <<setup, sent, family, buffer, frames, closed>>

\* The sizes one read may have.
ReadSizes == {n \in 1..MaxRead : Len(sent) + n <= setup.maxSent}

Init ==
    /\ setup \in Setups
    /\ sent = <<>>
    /\ family = None
    /\ buffer = <<>>
    /\ frames = <<>>
    /\ closed = FALSE
-----------------------------------------------------------------------------
\* PROTOCOL_PIPELINES
Extract(p, b) ==
    CASE p = "GT06" -> extract_packets[b]
      [] p = "GPS103" -> extract_messages[b]
      [] p = "TELTONIKA" -> extract_frames[b]
-----------------------------------------------------------------------------
(***************************************************************************)
(* protocols/detect.py                                                      *)
(***************************************************************************)
Sniff(b) ==
    IF IsPrefix(<<120, 120>>, b) \/ IsPrefix(<<121, 121>>, b) THEN "GT06"
    ELSE IF IsPrefix(<<35, 35>>, b) \/ IsPrefix(<<105, 109, 101, 105, 58>>, b) THEN "GPS103"
    ELSE IF IsPrefix(<<0, 15>>, b) /\ Digits(SubSeq(b, 3, Min({LoginLen, Len(b)}))) THEN "TELTONIKA"
    ELSE None

detect_protocol(b) == IF Sniff(b) \in setup.enabled THEN Sniff(b) ELSE None
-----------------------------------------------------------------------------
(***************************************************************************)
(* handle_device                                                            *)
(***************************************************************************)

\* The framer takes the buffer of a connection of family p.
Feed(p, b) ==
    LET r == Extract(p, b)
    IN  /\ buffer' = r.rest
        /\ frames' = frames \o r.frames
        /\ closed' = r.error

\* The bytes read first decide the family; an unknown one is not served.
Decide(b) ==
    /\ family' = detect_protocol(b)
    /\ \/ detect_protocol(b) # None /\ Feed(detect_protocol(b), b)
       \/ /\ detect_protocol(b) = None
          /\ closed' = TRUE
          /\ UNCHANGED <<buffer, frames>>

EnoughToDecide_OneByte(b) == Len(b) >= 1

\* "while len(data) < 5"
EnoughToDecide(b) == Len(b) >= 5

Read(chunk) ==
    /\ ~closed
    /\ sent' = sent \o chunk
    /\ \/ /\ family # None
          /\ Feed(family, buffer \o chunk)
          /\ UNCHANGED family
       \/ /\ family = None
          /\ EnoughToDecide(buffer \o chunk)
          /\ Decide(buffer \o chunk)
       \/ /\ family = None
          /\ ~EnoughToDecide(buffer \o chunk)
          /\ buffer' = buffer \o chunk
          /\ UNCHANGED <<family, frames, closed>>
    /\ UNCHANGED setup

\* PROBE_TIMEOUT, or the end of data, before there are five bytes.
ProbeTimeout ==
    /\ ~closed
    /\ family = None
    /\ IF buffer = <<>> THEN closed' = TRUE /\ UNCHANGED <<family, buffer, frames>>
                        ELSE Decide(buffer)
    /\ UNCHANGED <<setup, sent>>

Next == ProbeTimeout \/ \E n \in ReadSizes : \E chunk \in [1..n -> setup.bytes] : Read(chunk)

Spec == Init /\ [][Next]_vars
-----------------------------------------------------------------------------
(***************************************************************************)
(* Pieces are put together again: while the connection is open, the frames  *)
(* handed to the handler and the rest kept are what the framer makes of all *)
(* bytes read so far at once.  It is given up by the read after which those *)
(* bytes have an error and by no other, and what was handed over until then *)
(* are the frames of a prefix of the stream, none twice and none skipped.   *)
(***************************************************************************)
FramedAsOneStream ==
    family # None =>
        LET whole == Extract(family, sent)
        IN  /\ closed = whole.error
            /\ ~closed => frames = whole.frames /\ buffer = whole.rest
            /\ closed => \E k \in 0..Len(sent) :
                            LET part == Extract(family, SubSeq(sent, 1, k))
                            IN  ~part.error /\ frames = part.frames

(***************************************************************************)
(* No peer makes the gateway buffer without end: what is kept between reads *)
(* is bounded by config.GPS103_MAX_UNFRAMED_BYTES for GPS103, and is less   *)
(* than one whole frame for Teltonika.                                      *)
(***************************************************************************)
BufferBounded ==
    /\ family = "GPS103" => Len(buffer) <= MaxUnframed
    /\ family = "TELTONIKA" =>
          \/ Len(buffer) < LoginLen
          \/ Len(buffer) < PreambleLen + LengthLen + MaxPacket + TrailerLen

(***************************************************************************)
(* The family chosen from the first read is served and stands: a longer     *)
(* look would not have chosen another, and a peer that it would have        *)
(* refused (a login that is not all digits) never gets a frame past the     *)
(* framer.                                                                  *)
(***************************************************************************)
DetectionStands ==
    (family # None /\ ~closed) =>
        /\ family \in setup.enabled
        /\ \/ Sniff(sent) = family
           \/ Sniff(sent) = None /\ frames = <<>> /\ Len(sent) < LoginLen

(***************************************************************************)
(* "Top up before sniffing rather than misclassify (and close) a legitimate *)
(* device": bytes read are refused as unknown only if no more bytes could   *)
(* have made them the start of an enabled family's first frame.             *)
(***************************************************************************)
Signatures ==
    {[family |-> "GT06", bytes |-> <<120, 120>>], [family |-> "GT06", bytes |-> <<121, 121>>],
     [family |-> "GPS103", bytes |-> <<35, 35>>],
     [family |-> "GPS103", bytes |-> <<105, 109, 101, 105, 58>>]}

CouldBecomeKnown(b) ==
    \/ \E sig \in Signatures : /\ sig.family \in setup.enabled
                               /\ IsPrefix(sig.bytes, b) \/ IsPrefix(b, sig.bytes)
    \/ /\ "TELTONIKA" \in setup.enabled
       /\ IsPrefix(<<0, 15>>, b) \/ b = <<0>>
       /\ \A k \in 3..LoginLen : k <= Len(b) => b[k] \in 48..57

RefusedForGood ==
    [][(sent' # sent /\ closed' /\ family' = None) => ~CouldBecomeKnown(sent')]_vars
=============================================================================
