------------------------- MODULE MCTeltonikaDelivery -------------------------
(* A small instance of TeltonikaDelivery for TLC. *)
EXTENDS TeltonikaDelivery, TLC

CONSTANTS s1, s2

TwoSessions == {s1, s2}

\* Record 1 has no fix, records 2 and 3 can share a packet; the ignition goes
\* on, is not reported, goes off.
SomeStorable == {2, 3}
SomeIgnition == [r \in 1..N |-> CASE r = 1 -> "on" [] r = 3 -> "off" [] OTHER -> None]

\* Record 3 is sent after record 2 but is older.
LateRecord == [r \in 1..N |-> CASE r = 2 -> 3 [] r = 3 -> 2 [] OTHER -> r]
=============================================================================
