------------------------------ MODULE CommandApi ------------------------------
(***************************************************************************)
(* Commands to devices: the HTTP threads of command_api.py, and the         *)
(* coroutines of command_service.py and gps103_command_service.py that they *)
(* hand to the event loop with run_coroutine_threadsafe.                    *)
(*                                                                          *)
(* A request is served by a thread of its own.  The thread looks up the     *)
(* protocol of the device, queues a coroutine and waits five seconds for    *)
(* it.  The coroutine runs on the event loop, later: the device may have    *)
(* gone or come back on another socket by then, and a coroutine whose       *)
(* thread gave up is not cancelled.                                         *)
(*                                                                          *)
(*   at[r]   idle -> waiting -> answered           the thread               *)
(*   job[r]  none -> queued -> draining -> ended   the coroutine            *)
(***************************************************************************)
EXTENDS DeviceRegistry, Integers

CONSTANTS
    Requests,
    Commands,        \* KNOWN_COMMANDS
    Gps103Commands,  \* the keys of gps103_command_service.SUPPORTED
    Family,          \* Family[c]: the protocol of the connection c
    MaxSerial        \* the largest serial of two bytes

ASSUME CommandsAssumption == Gps103Commands \subseteq Commands /\ None \notin Commands
ASSUME FamilyAssumption == Family \in [Conns -> {"GT06", "GPS103", "TELTONIKA"}]
ASSUME SerialAssumption == MaxSerial \in Nat

VARIABLES
    at, job,
    imei, command,  \* the fields of the request
    path,           \* the command service chosen for it
    outcome,        \* how the coroutine ended, None before that
    reply,          \* the answer of the thread, None before that
    serial,         \* command_builder._serial
    wire            \* what has been written to the sockets of devices

requestVars == <<imei, command, path>>
vars == <<registryVars, at, job, requestVars, outcome, reply, serial, wire>>

Outcomes == {"sent", "offline", "unsupported", "overflow", "broken"}
Replies == {"ok", "bad request", "offline", "unsupported", "failed", "busy"}
ASSUME NoneIsNoString == None \notin {"GT06", "GPS103", "TELTONIKA"} \cup Outcomes \cup Replies

Written == [request : Requests, socket : Conns, form : {"GT06", "GPS103"}]

TypeOK ==
    /\ RegistryTypeOK
    /\ at \in [Requests -> {"idle", "waiting", "answered"}]
    /\ job \in [Requests -> {"none", "queued", "draining", "ended"}]
    /\ imei \in [Requests -> Imeis \cup {None}]
    /\ command \in [Requests -> Commands \cup {None}]
    /\ path \in [Requests -> {"GT06", "GPS103"}]
    /\ outcome \in [Requests -> Outcomes \cup {None}]
    /\ reply \in [Requests -> Replies \cup {None}]
    /\ serial \in Nat
    /\ wire \subseteq Written

Init ==
    /\ RegistryInit
    /\ at = [r \in Requests |-> "idle"]
    /\ job = [r \in Requests |-> "none"]
    /\ imei = [r \in Requests |-> None]
    /\ command = [r \in Requests |-> None]
    /\ path = [r \in Requests |-> "GT06"]
    /\ outcome = [r \in Requests |-> None]
    /\ reply = [r \in Requests |-> None]
    /\ serial = 1
    /\ wire = {}

FamilyOf(i) == IF get_device(i) = None THEN None ELSE Family[get_device(i)]
-----------------------------------------------------------------------------
(***************************************************************************)
(* Devices log in and leave (module Gateway has the details).               *)
(***************************************************************************)
DeviceRegisters(i, c) ==
    /\ bySocket[c] \in {None, i}
    /\ register_device(i, c)
    /\ UNCHANGED <<at, job, requestVars, outcome, reply, serial, wire>>

DeviceLeaves(i) ==
    /\ get_device(i) # None
    /\ unregister_device(i)
    /\ UNCHANGED <<at, job, requestVars, outcome, reply, serial, wire>>
-----------------------------------------------------------------------------
(***************************************************************************)
(* The thread: do_POST.                                                     *)
(***************************************************************************)

\* Unauthorised, malformed, unknown command, missing parameter: no coroutine.
PostRefused(r) ==
    /\ at[r] = "idle"
    /\ at' = [at EXCEPT ![r] = "answered"]
    /\ reply' = [reply EXCEPT ![r] = "bad request"]
    /\ UNCHANGED <<registryVars, job, requestVars, outcome, serial, wire>>

\* GPS103 devices have a command service of their own.
Service(i) == IF FamilyOf(i) = "GPS103" THEN "GPS103" ELSE "GT06"

\* The protocol chooses the command service, and the coroutine is queued.
Post(r, i, cmd) ==
    /\ at[r] = "idle"
    /\ at' = [at EXCEPT ![r] = "waiting"]
    /\ imei' = [imei EXCEPT ![r] = i]
    /\ command' = [command EXCEPT ![r] = cmd]
    /\ path' = [path EXCEPT ![r] = Service(i)]
    /\ job' = [job EXCEPT ![r] = "queued"]
    /\ UNCHANGED <<registryVars, outcome, reply, serial, wire>>

ReplyTo_OfflineIsOk(o) == IF o = "unsupported" THEN "unsupported" ELSE "ok"

\* What each way the coroutine can end is turned into.
ReplyTo(o) ==
    CASE o = "sent" -> "ok"
      [] o = "offline" -> "offline"
      [] o = "unsupported" -> "unsupported"
      [] OTHER -> "failed"

Answer(r) ==
    /\ at[r] = "waiting"
    /\ job[r] = "ended"
    /\ at' = [at EXCEPT ![r] = "answered"]
    /\ reply' = [reply EXCEPT ![r] = ReplyTo(outcome[r])]
    /\ UNCHANGED <<registryVars, job, requestVars, outcome, serial, wire>>

GiveUp_NotWhenDraining(r) ==
    /\ at[r] = "waiting"
    /\ job[r] \notin {"draining", "ended"}
    /\ at' = [at EXCEPT ![r] = "answered"]
    /\ reply' = [reply EXCEPT ![r] = "busy"]
    /\ UNCHANGED <<registryVars, job, requestVars, outcome, serial, wire>>

\* future.result(timeout=5.0) gives up; the coroutine stays where it is.
GiveUp(r) ==
    /\ at[r] = "waiting"
    /\ job[r] # "ended"
    /\ at' = [at EXCEPT ![r] = "answered"]
    /\ reply' = [reply EXCEPT ![r] = "busy"]
    /\ UNCHANGED <<registryVars, job, requestVars, outcome, serial, wire>>
-----------------------------------------------------------------------------
(***************************************************************************)
(* The coroutine, on the event loop.                                        *)
(***************************************************************************)
End(r, o) ==
    /\ job' = [job EXCEPT ![r] = "ended"]
    /\ outcome' = [outcome EXCEPT ![r] = o]
    /\ UNCHANGED wire

WriteTo(r, c, form) ==
    /\ job' = [job EXCEPT ![r] = "draining"]
    /\ wire' = wire \cup {[request |-> r, socket |-> c, form |-> form]}
    /\ UNCHANGED outcome

next_serial == serial' = serial + 1

\* build_command: the counter no longer fits the two bytes of the frame.
BuildFails == serial > MaxSerial

TakesGt06_Unchecked(i) == FamilyOf(i) # None

\* send_command's own look at the protocol of the entry.
TakesGt06(i) == FamilyOf(i) = "GT06"

\* send_command: the frame is built, and the serial used up, before the
\* socket is looked up.
SendGt06(r) ==
    /\ job[r] = "queued"
    /\ path[r] = "GT06"
    /\ next_serial
    /\ \/ BuildFails /\ End(r, "overflow")
       \/ ~BuildFails /\ FamilyOf(imei[r]) = None /\ End(r, "offline")
       \/ /\ ~BuildFails
          /\ FamilyOf(imei[r]) # None
          /\ ~TakesGt06(imei[r])
          /\ End(r, "unsupported")
       \/ /\ ~BuildFails
          /\ TakesGt06(imei[r])
          /\ WriteTo(r, get_device(imei[r]), "GT06")
    /\ UNCHANGED <<registryVars, at, requestVars, reply>>

\* send_gps103_command: text frames carry no serial.
SendGps103(r) ==
    /\ job[r] = "queued"
    /\ path[r] = "GPS103"
    /\ \/ FamilyOf(imei[r]) = None /\ End(r, "offline")
       \/ /\ FamilyOf(imei[r]) # None
          /\ FamilyOf(imei[r]) # "GPS103" \/ command[r] \notin Gps103Commands
          /\ End(r, "unsupported")
       \/ /\ FamilyOf(imei[r]) = "GPS103"
          /\ command[r] \in Gps103Commands
          /\ WriteTo(r, get_device(imei[r]), "GPS103")
    /\ UNCHANGED <<registryVars, at, requestVars, reply, serial>>

\* writer.drain returns, or raises because the connection is lost.
Drained(r) ==
    /\ job[r] = "draining"
    /\ \E o \in {"sent", "broken"} : End(r, o)
    /\ UNCHANGED <<registryVars, at, requestVars, reply, serial>>
-----------------------------------------------------------------------------
Thread(r) == Answer(r) \/ GiveUp(r)

Coroutine(r) == SendGt06(r) \/ SendGps103(r) \/ Drained(r)

Next ==
    \/ \E i \in Imeis, c \in Conns : DeviceRegisters(i, c)
    \/ \E i \in Imeis : DeviceLeaves(i)
    \/ \E r \in Requests, i \in Imeis, cmd \in Commands : Post(r, i, cmd)
    \/ \E r \in Requests : PostRefused(r) \/ Thread(r) \/ Coroutine(r)

Spec == Init /\ [][Next]_vars

\* The thread's wait ends after five seconds, also when the event loop hangs:
\* nothing is assumed of the coroutines.
FairSpec == Spec /\ \A r \in Requests : WF_vars(Thread(r))
-----------------------------------------------------------------------------
(***************************************************************************)
(* docs/multi-protocol.md: "The HTTP command API never writes a GT06 binary *)
(* frame into a TK103's socket", nor the other way round - although the     *)
(* thread looked at the protocol before the coroutine got to run, and the   *)
(* device may have come back on a socket of another family in between.      *)
(***************************************************************************)
FamilyRespected == \A w \in wire : Family[w.socket] = w.form

(***************************************************************************)
(* The answer tells the truth, and goes on to: "sent" only for a command    *)
(* that was written, "offline" and "unsupported" only for one that never    *)
(* is.  A request that timed out may still be written later.                *)
(***************************************************************************)
AnswersTruthful ==
    \A r \in Requests :
        LET written == \E w \in wire : w.request = r
        IN  /\ reply[r] = "ok" => written
            /\ reply[r] \in {"offline", "unsupported", "bad request"} => ~written

(***************************************************************************)
(* Every request accepted is answered, even when the event loop is stuck.   *)
(***************************************************************************)
EveryRequestAnswered == \A r \in Requests : at[r] = "waiting" ~> at[r] = "answered"
=============================================================================
