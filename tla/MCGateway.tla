------------------------------ MODULE MCGateway ------------------------------
(* Small instances of Gateway for TLC. *)
EXTENDS Gateway, TLC

CONSTANTS c1, c2, c3, i1, i2

TwoConns == {c1, c2}
ThreeConns == {c1, c2, c3}
OneImei == {i1}
TwoImeis == {i1, i2}

\* The default ENABLED_PROTOCOLS, and the two binary families.
TwoProtocols == {"GT06", "GPS103"}
BinaryProtocols == {"GT06", "TELTONIKA"}

\* Sockets and IMEIs are interchangeable; used by the runs without liveness.
Symmetry == Permutations(Conns) \cup Permutations(Imeis)
=============================================================================
