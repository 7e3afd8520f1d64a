--------------------------- MODULE ConnectionSlots ---------------------------
(***************************************************************************)
(* What the connection cap of the gateway promises, whatever the            *)
(* connections do: at most MaxConnections are served at once, and one is    *)
(* turned away only when that many really are being served.                 *)
(***************************************************************************)
EXTENDS Naturals, FiniteSets

CONSTANTS Conns, MaxConnections

VARIABLES live,     \* connections being served
          refused   \* connections turned away

slotVars == <<live, refused>>

SlotsInit == live = {} /\ refused = {}

Admit(c) ==
    /\ c \notin live \cup refused
    /\ Cardinality(live) < MaxConnections
    /\ live' = live \cup {c}
    /\ UNCHANGED refused

Refuse(c) ==
    /\ c \notin live \cup refused
    /\ Cardinality(live) = MaxConnections
    /\ refused' = refused \cup {c}
    /\ UNCHANGED live

Leave(c) ==
    /\ c \in live
    /\ live' = live \ {c}
    /\ UNCHANGED refused

Forget(c) ==
    /\ c \in refused
    /\ refused' = refused \ {c}
    /\ UNCHANGED live

\* The process is restarted: every connection is gone.
Reset == live' = {} /\ refused' = {}

SlotsNext ==
    \/ \E c \in Conns : Admit(c) \/ Refuse(c) \/ Leave(c) \/ Forget(c)
    \/ Reset

SlotsSpec == SlotsInit /\ [][SlotsNext]_slotVars
=============================================================================
