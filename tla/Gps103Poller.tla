----------------------------- MODULE Gps103Poller -----------------------------
(***************************************************************************)
(* services/gps103_poller.py: the task that asks silent GPS103 trackers for *)
(* a position.  It shares the event loop with the connections, so devices   *)
(* report, leave and come back while it awaits writer.drain of one device   *)
(* and has the list of the others that were due.                            *)
(*                                                                          *)
(* Time is counted in ticks.  silent[c] is the age of the newest of         *)
(* connected_at, last_position_at and last_poll_at in the entry of socket   *)
(* c, moving[c] whether its last_speed was above 0.                         *)
(***************************************************************************)
EXTENDS DeviceRegistry, Integers

CONSTANTS
    Family,       \* Family[c]: the protocol of the connection c
    PollTicks,    \* config.GPS103_POLL_SECONDS
    IdleTicks,    \* config.GPS103_POLL_IDLE_SECONDS
    ImeiFamilies  \* ImeiFamilies[i]: families the device of i may connect as

ASSUME FamilyAssumption == Family \in [Conns -> {"GT06", "GPS103", "TELTONIKA"}]
ASSUME TicksAssumption ==
    PollTicks \in Nat \ {0} /\ IdleTicks \in Nat /\ PollTicks <= IdleTicks

VARIABLES
    silent, moving,
    sinceAsked,  \* ticks since the last completed poll of the entry of c
    at,          \* the poller: "sleep", "round" or "drain"
    due,         \* the rest of the list due_devices returned
    asked,       \* the socket being drained, of the entry the poller holds
    fresh        \* is that entry still the one in the registry?

entryVars == <<silent, moving, sinceAsked>>
pollerVars == <<at, due, asked, fresh>>
vars == <<registryVars, entryVars, pollerVars>>

TypeOK ==
    /\ RegistryTypeOK
    /\ silent \in [Conns -> 0..IdleTicks]
    /\ moving \in [Conns -> BOOLEAN]
    /\ sinceAsked \in [Conns -> 0..IdleTicks]
    /\ at \in {"sleep", "round", "drain"}
    /\ due \subseteq Imeis
    /\ asked \in IF at = "drain" THEN Conns ELSE {None}
    /\ fresh \in BOOLEAN

Init ==
    /\ RegistryInit
    /\ silent = [c \in Conns |-> 0]
    /\ moving = [c \in Conns |-> FALSE]
    /\ sinceAsked = [c \in Conns |-> IdleTicks]
    /\ at = "sleep"
    /\ due = {}
    /\ asked = None
    /\ fresh = TRUE
-----------------------------------------------------------------------------
(***************************************************************************)
(* The rest of the gateway.  Ages beyond IdleTicks make no difference.      *)
(***************************************************************************)
Tick ==
    /\ silent' = [c \in Conns |-> IF silent[c] < IdleTicks THEN silent[c] + 1 ELSE silent[c]]
    /\ sinceAsked' = [c \in Conns |-> IF sinceAsked[c] < IdleTicks
                                      THEN sinceAsked[c] + 1 ELSE sinceAsked[c]]
    /\ UNCHANGED <<registryVars, moving, pollerVars>>

\* A new entry: connected now, no position and no poll yet.  A socket that
\* the poller still refers to is no new connection.
Register(i, c) ==
    /\ bySocket[c] = i \/ (bySocket[c] = None /\ asked # c)
    /\ Family[c] \in ImeiFamilies[i]
    /\ register_device(i, c)
    /\ silent' = [silent EXCEPT ![c] = 0]
    /\ moving' = [moving EXCEPT ![c] = FALSE]
    /\ sinceAsked' = [sinceAsked EXCEPT ![c] = IdleTicks]
    /\ fresh' = (fresh /\ asked # c)
    /\ UNCHANGED <<at, due, asked>>

Leave(i) ==
    /\ get_device(i) # None
    /\ unregister_device(i)
    /\ UNCHANGED <<entryVars, pollerVars>>

\* note_position, after a position of the device has been stored.
note_position(i, fast) ==
    /\ get_device(i) # None
    /\ silent' = [silent EXCEPT ![get_device(i)] = 0]
    /\ moving' = [moving EXCEPT ![get_device(i)] = fast]
    /\ UNCHANGED <<registryVars, sinceAsked, pollerVars>>
-----------------------------------------------------------------------------
(***************************************************************************)
(* The poller.                                                              *)
(***************************************************************************)
interval_for(c) == IF moving[c] THEN PollTicks ELSE IdleTicks

due_devices ==
    {i \in Imeis : /\ get_device(i) # None
                   /\ Family[get_device(i)] = "GPS103"
                   /\ silent[get_device(i)] >= interval_for(get_device(i))}

Wake ==
    /\ at = "sleep"
    /\ due' = due_devices
    /\ at' = "round"
    /\ UNCHANGED <<registryVars, entryVars, asked, fresh>>

\* The next device of the list: its entry, whichever that is by now.
Ask(i) ==
    /\ at = "round"
    /\ i \in due
    /\ due' = due \ {i}
    /\ \/ /\ get_device(i) = None
          /\ UNCHANGED <<at, asked>>
       \/ /\ get_device(i) # None
          /\ asked' = get_device(i)
          /\ at' = "drain"
    /\ fresh' = TRUE
    /\ UNCHANGED <<registryVars, entryVars>>

Drained_NoStamp ==
    /\ at = "drain"
    /\ at' = "round"
    /\ sinceAsked' = [sinceAsked EXCEPT ![asked] = 0]
    /\ asked' = None
    /\ UNCHANGED <<registryVars, silent, moving, due, fresh>>

\* drain returned: last_poll_at of the entry held is now.
Drained ==
    /\ at = "drain"
    /\ at' = "round"
    /\ silent' = IF fresh THEN [silent EXCEPT ![asked] = 0] ELSE silent
    /\ sinceAsked' = IF fresh THEN [sinceAsked EXCEPT ![asked] = 0] ELSE sinceAsked
    /\ asked' = None
    /\ UNCHANGED <<registryVars, moving, due, fresh>>

DrainFails_EndsRound ==
    /\ at = "drain"
    /\ at' = "sleep"
    /\ due' = {}
    /\ asked' = None
    /\ UNCHANGED <<registryVars, entryVars, fresh>>

\* drain raised or took more than _WRITE_TIMEOUT: no stamp, go on.
DrainFails ==
    /\ at = "drain"
    /\ at' = "round"
    /\ asked' = None
    /\ UNCHANGED <<registryVars, entryVars, due, fresh>>

RoundDone ==
    /\ at = "round"
    /\ due = {}
    /\ at' = "sleep"
    /\ UNCHANGED <<registryVars, entryVars, due, asked, fresh>>
-----------------------------------------------------------------------------
Poller == Wake \/ (\E i \in Imeis : Ask(i)) \/ Drained \/ DrainFails \/ RoundDone

Next ==
    \/ Tick
    \/ \E i \in Imeis, c \in Conns : Register(i, c)
    \/ \E i \in Imeis : Leave(i) \/ \E fast \in BOOLEAN : note_position(i, fast)
    \/ Poller

Spec == Init /\ [][Next]_vars

\* The sleep ends and every drain returns, raises or times out.
FairSpec == Spec /\ WF_vars(Poller)
-----------------------------------------------------------------------------
(***************************************************************************)
(* "Only GPS103 sockets are ever written to" (docs/gps103-commands.md), and *)
(* a tracker that takes its polls is not asked again before the shortest    *)
(* interval has passed (one row in GpsTrackings per poll) - although the    *)
(* list of devices that are due is old by the time it is worked through.    *)
(* The first holds as long as no IMEI changes its family while its turn in  *)
(* the list is still to come.                                               *)
(***************************************************************************)
PollsSpaced ==
    [][\A c \in Conns : (asked = None /\ asked' = c) =>
          Family[c] = "GPS103" /\ sinceAsked[c] >= PollTicks]_vars

(***************************************************************************)
(* "One bad socket must not stop the others": a connected GPS103 tracker    *)
(* that stays silent for the longer interval is asked, unless it reports or *)
(* is replaced first - whatever the drains of the other devices do.         *)
(***************************************************************************)
SilentIsAsked ==
    \A i \in Imeis, c \in Conns :
        (byImei[i] = c /\ Family[c] = "GPS103" /\ silent[c] = IdleTicks)
            ~> (asked = c \/ byImei[i] # c \/ silent[c] < IdleTicks)
=============================================================================
