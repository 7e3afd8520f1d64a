--------------------------- MODULE DeviceRegistry ---------------------------
(***************************************************************************)
(* services/device_registry.py: the two in-memory dictionaries that say    *)
(* which socket a device is reachable on.                                   *)
(*                                                                          *)
(*   byImei[i]    the socket of the entry _by_imei[i], None when absent     *)
(*   bySocket[c]  the IMEI in _by_socket[id(c)], None when absent           *)
(*                                                                          *)
(* An entry also holds device_id, ip, protocol and timestamps.  device_id   *)
(* is a function of the IMEI (GpsDevices.ImeiNumber is unique), protocol is *)
(* that of the registering connection and never changes, so the socket is   *)
(* all that has to be kept.  Every operation runs on the event loop without *)
(* an await under _lock: it is one atomic step.                             *)
(***************************************************************************)
CONSTANTS Conns,   \* sockets (StreamWriter objects), identified by id()
          Imeis,   \* IMEIs that devices send
          None     \* Python's None

ASSUME NoneAssumption == None \notin Conns /\ None \notin Imeis

VARIABLES byImei, bySocket

registryVars == <<byImei, bySocket>>

RegistryTypeOK ==
    /\ byImei \in [Imeis -> Conns \cup {None}]
    /\ bySocket \in [Conns -> Imeis \cup {None}]

RegistryInit ==
    /\ byImei = [i \in Imeis |-> None]
    /\ bySocket = [c \in Conns |-> None]

-----------------------------------------------------------------------------
\* Mutated operations, used only to show that the properties can fail.

register_device_KeepsOldBinding(i, c) ==
    /\ byImei' = [byImei EXCEPT ![i] = c]
    /\ bySocket' = [bySocket EXCEPT ![c] = i]

unregister_device_KeepsBinding(i) ==
    /\ byImei' = [byImei EXCEPT ![i] = None]
    /\ UNCHANGED bySocket
-----------------------------------------------------------------------------

\* The socket that held the IMEI loses its binding; both maps then name c.
\* Another IMEI bound to c keeps its entry in byImei: the code does not look.
register_device(i, c) ==
    /\ byImei' = [byImei EXCEPT ![i] = c]
    /\ bySocket' = [s \in Conns |-> IF s = c THEN i
                                    ELSE IF s = byImei[i] THEN None
                                    ELSE bySocket[s]]

\* Removes whatever entry the IMEI has now, whoever registered it.
unregister_device(i) ==
    /\ byImei' = [byImei EXCEPT ![i] = None]
    /\ bySocket' = [s \in Conns |-> IF s = byImei[i] THEN None ELSE bySocket[s]]

get_imei_by_socket(c) == bySocket[c]

get_device(i) == byImei[i]

(***************************************************************************)
(* A socket's binding always agrees with the entry of the IMEI it is bound  *)
(* to.  The handlers rely on it: teltonika_handler._handle_avl and          *)
(* gps103_handler._handle_tracker subscript get_device(imei) unchecked, and *)
(* _by_socket is keyed by id(), which Python reuses once a writer is freed. *)
(***************************************************************************)
BindingAgrees ==
    \A c \in Conns : bySocket[c] # None => byImei[bySocket[c]] = c
=============================================================================
