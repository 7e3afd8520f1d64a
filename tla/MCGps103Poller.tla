--------------------------- MODULE MCGps103Poller ---------------------------
(* Small instances of Gps103Poller for TLC. *)
EXTENDS Gps103Poller, TLC

CONSTANTS c1, c2, c3, i1, i2, i3

ThreeConns == {c1, c2, c3}
ThreeImeis == {i1, i2, i3}

\* Two GPS103 sockets and one of another family.
MixedFamily == c1 :> "GPS103" @@ c2 :> "GPS103" @@ c3 :> "GT06"

\* Every device keeps to its family.
KeptFamilies == i1 :> {"GPS103"} @@ i2 :> {"GPS103"} @@ i3 :> {"GT06"}
=============================================================================
