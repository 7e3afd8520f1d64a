------------------------------ MODULE MCFraming ------------------------------
(* Streams for the three framers and for detection. *)
EXTENDS Framing

DefaultProtocols == {"GT06", "GPS103"}

\* Both frame headers, and the lengths 0 and 1.
Gt06Setup == [bytes |-> {0, 1, 120, 121}, maxSent |-> 9, enabled |-> DefaultProtocols]

\* '#', ';', a blank and a letter.
Gps103Setup == [bytes |-> {35, 59, 32, 97}, maxSent |-> 9, enabled |-> DefaultProtocols]

\* Preamble, login prefix, a digit; 0, 1 and 15 are lengths as well.
TeltonikaSetup == [bytes |-> {0, 1, 15, 48}, maxSent |-> 9, enabled |-> Protocols]

\* "imei:", "##", 78 and the start of a Teltonika login, which is not served.
SignatureSetup ==
    [bytes |-> {105, 109, 101, 58, 35, 120, 0, 15, 48}, maxSent |-> 5, enabled |-> DefaultProtocols]

AllSetups == {Gt06Setup, Gps103Setup, TeltonikaSetup, SignatureSetup}
=============================================================================
