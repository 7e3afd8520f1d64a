---------------------------- MODULE MCCommandApi ----------------------------
(* Small instances of CommandApi for TLC. *)
EXTENDS CommandApi, TLC

CONSTANTS c1, c2, i1, r1, r2, r3

TwoConns == {c1, c2}
OneImei == {i1}
ThreeRequests == {r1, r2, r3}

\* One command both families take, one that only GT06 takes.
SomeCommands == {"where", "relay_off"}
WhereOnly == {"where"}

\* The device of i1 may come back on a socket of another family.
Gt06AndGps103 == c1 :> "GT06" @@ c2 :> "GPS103"
=============================================================================
