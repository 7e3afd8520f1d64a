-------------------------- MODULE CommandApi_proofs --------------------------
(***************************************************************************)
(* CommandApi's safety properties, for any number of requests, devices and  *)
(* connections and any size of the serial.                                  *)
(***************************************************************************)
EXTENDS CommandApi, TLAPS

Sent(r) == \E w \in wire : w.request = r

\* How far a request has come agrees with what has been written for it.
JobOK(r) ==
    /\ at[r] = "idle" => job[r] = "none"
    /\ job[r] # "none" => imei[r] \in Imeis
    /\ job[r] \in {"none", "queued"} => ~Sent(r)
    /\ job[r] = "draining" => Sent(r)
    /\ job[r] = "ended" => outcome[r] \in Outcomes
    /\ outcome[r] \in {"sent", "broken"} => Sent(r) /\ job[r] = "ended"
    /\ outcome[r] \in {"offline", "unsupported", "overflow"} => ~Sent(r) /\ job[r] = "ended"

\* A reply repeats the outcome, unless it was given without one.
ReplyOK(r) ==
    /\ reply[r] = "ok" => outcome[r] = "sent"
    /\ reply[r] \in {"offline", "unsupported"} => outcome[r] = reply[r]
    /\ reply[r] = "bad request" => at[r] = "answered" /\ job[r] = "none"

CommandInv ==
    TypeOK /\ FamilyRespected /\ \A r \in Requests : JobOK(r) /\ ReplyOK(r)

\* The registry keeps its types when devices come and go.
LEMMA RegistryTypes ==
    ASSUME RegistryTypeOK, NEW i \in Imeis, NEW c \in Conns,
           register_device(i, c) \/ unregister_device(i)
    PROVE  RegistryTypeOK'
BY DEF RegistryTypeOK, register_device, unregister_device

\* A device that has a family has a socket, of that family.
LEMMA FamilyHasSocket ==
    ASSUME RegistryTypeOK, NEW i \in Imeis, FamilyOf(i) # None
    PROVE  get_device(i) \in Conns /\ FamilyOf(i) = Family[get_device(i)]
BY DEF RegistryTypeOK, FamilyOf, get_device

\* Ending a coroutine without a write, from the state it was in.
LEMMA EndOK ==
    ASSUME CommandInv, NEW r \in Requests, NEW o \in Outcomes, End(r, o),
           job[r] \in {"queued", "draining"},
           job[r] = "queued" => o \in {"offline", "unsupported", "overflow"},
           job[r] = "draining" => o \in {"sent", "broken"},
           UNCHANGED <<registryVars, at, requestVars, reply>>,
           serial' \in Nat
    PROVE  CommandInv'
<1> USE DEF End, registryVars, requestVars
<1>1. TypeOK /\ FamilyRespected /\ \A q \in Requests : JobOK(q) /\ ReplyOK(q)
    BY DEF CommandInv
<1>2. TypeOK'
    BY <1>1 DEF TypeOK, RegistryTypeOK
<1>3. FamilyRespected'
    BY <1>1 DEF FamilyRespected
<1>5. ASSUME NEW q \in Requests
      PROVE  JobOK(q)' /\ ReplyOK(q)'
    <2>1. CASE q # r
        <3>1. /\ job'[q] = job[q] /\ outcome'[q] = outcome[q] /\ at'[q] = at[q]
              /\ imei'[q] = imei[q] /\ reply'[q] = reply[q] /\ (Sent(q)' <=> Sent(q))
            BY <1>1, <2>1 DEF TypeOK, Sent
        <3>2. JobOK(q)'
            BY <1>1, <3>1 DEF JobOK
        <3>3. ReplyOK(q)'
            BY <1>1, <3>1 DEF ReplyOK
        <3> QED BY <3>2, <3>3
    <2>2. CASE q = r
        <3>1. /\ job'[r] = "ended" /\ outcome'[r] = o /\ at'[r] = at[r] /\ imei'[r] = imei[r]
              /\ reply'[r] = reply[r] /\ (Sent(r)' <=> Sent(r))
            BY <1>1 DEF TypeOK, Sent
        <3>2. JobOK(r)'
            BY <1>1, <3>1 DEF JobOK
        <3>3. outcome[r] = None
            BY <1>1 DEF TypeOK, JobOK, Outcomes
        <3>4. ReplyOK(r)'
            BY <1>1, <3>1, <3>3, NoneIsNoString DEF ReplyOK, Outcomes, Replies
        <3> QED BY <2>2, <3>2, <3>4
    <2> QED BY <2>1, <2>2
<1> QED BY <1>2, <1>3, <1>5 DEF CommandInv

\* Writing a frame of the family that the socket is of.
LEMMA WriteOK ==
    ASSUME CommandInv, NEW r \in Requests, NEW c \in Conns, NEW form \in {"GT06", "GPS103"},
           WriteTo(r, c, form), job[r] = "queued", Family[c] = form,
           UNCHANGED <<registryVars, at, requestVars, reply>>,
           serial' \in Nat
    PROVE  CommandInv'
<1> USE DEF WriteTo, registryVars, requestVars
<1> DEFINE new == [request |-> r, socket |-> c, form |-> form]
<1>1. TypeOK /\ FamilyRespected /\ \A q \in Requests : JobOK(q) /\ ReplyOK(q)
    BY DEF CommandInv
<1>2. new \in Written /\ wire' = wire \cup {new}
    BY <1>1 DEF TypeOK, Written
<1>3. TypeOK'
    BY <1>1, <1>2 DEF TypeOK, RegistryTypeOK
<1>4. new.request = r /\ new.socket = c /\ new.form = form
    OBVIOUS
<1> HIDE DEF new
<1>5. FamilyRespected'
    BY <1>1, <1>2, <1>4 DEF FamilyRespected, TypeOK
<1>7. ASSUME NEW q \in Requests
      PROVE  JobOK(q)' /\ ReplyOK(q)'
    <2>1. CASE q # r
        <3>1. Sent(q)' <=> Sent(q)
            BY <1>2, <1>4, <2>1 DEF Sent
        <3> QED BY <1>1, <2>1, <3>1 DEF TypeOK, JobOK, ReplyOK
    <2>2. CASE q = r
        <3>1. Sent(r)' /\ job'[r] = "draining" /\ outcome'[r] = outcome[r]
            BY <1>1, <1>2, <1>4 DEF Sent, TypeOK
        <3>2. outcome[r] = None
            BY <1>1 DEF TypeOK, JobOK, Outcomes
        <3>3. JobOK(r)' /\ ReplyOK(r)'
            BY <1>1, <3>1, <3>2, NoneIsNoString DEF JobOK, ReplyOK, Outcomes, Replies
        <3> QED BY <2>2, <3>3
    <2> QED BY <2>1, <2>2
<1> QED BY <1>3, <1>5, <1>7 DEF CommandInv

LEMMA SendGt06OK ==
    ASSUME CommandInv, NEW r \in Requests, SendGt06(r)
    PROVE  CommandInv'
<1>1. /\ RegistryTypeOK /\ imei[r] \in Imeis /\ job[r] = "queued"
      /\ serial \in Nat /\ serial' = serial + 1 /\ serial' \in Nat
      /\ UNCHANGED <<registryVars, at, requestVars, reply>>
    BY DEF CommandInv, TypeOK, JobOK, SendGt06, next_serial
<1>2. CASE End(r, "overflow") \/ End(r, "offline") \/ End(r, "unsupported")
    BY <1>1, <1>2, EndOK DEF Outcomes
<1>3. CASE TakesGt06(imei[r]) /\ WriteTo(r, get_device(imei[r]), "GT06")
    <2>1. get_device(imei[r]) \in Conns /\ Family[get_device(imei[r])] = "GT06"
        BY <1>1, <1>3, FamilyHasSocket, NoneIsNoString DEF TakesGt06
    <2> QED BY <1>1, <1>3, <2>1, WriteOK
<1> QED BY <1>2, <1>3 DEF SendGt06

LEMMA SendGps103OK ==
    ASSUME CommandInv, NEW r \in Requests, SendGps103(r)
    PROVE  CommandInv'
<1>1. /\ RegistryTypeOK /\ imei[r] \in Imeis /\ job[r] = "queued"
      /\ serial \in Nat /\ serial' = serial
      /\ UNCHANGED <<registryVars, at, requestVars, reply>>
    BY DEF CommandInv, TypeOK, JobOK, SendGps103
<1>2. CASE End(r, "offline") \/ End(r, "unsupported")
    BY <1>1, <1>2, EndOK DEF Outcomes
<1>3. CASE FamilyOf(imei[r]) = "GPS103" /\ WriteTo(r, get_device(imei[r]), "GPS103")
    <2>1. get_device(imei[r]) \in Conns /\ Family[get_device(imei[r])] = "GPS103"
        BY <1>1, <1>3, FamilyHasSocket, NoneIsNoString
    <2> QED BY <1>1, <1>3, <2>1, WriteOK
<1> QED BY <1>2, <1>3 DEF SendGps103

LEMMA DrainedOK ==
    ASSUME CommandInv, NEW r \in Requests, Drained(r)
    PROVE  CommandInv'
<1>1. /\ job[r] = "draining" /\ serial \in Nat /\ serial' = serial
      /\ UNCHANGED <<registryVars, at, requestVars, reply>>
    BY DEF CommandInv, TypeOK, Drained
<1> QED BY <1>1, EndOK DEF Drained, Outcomes

\* The thread of a request touches neither the wire nor other requests.
LEMMA ThreadOK ==
    ASSUME CommandInv, NEW r \in Requests, PostRefused(r) \/ Answer(r) \/ GiveUp(r)
    PROVE  CommandInv'
<1> USE DEF registryVars, requestVars
<1>1. TypeOK /\ FamilyRespected /\ \A q \in Requests : JobOK(q) /\ ReplyOK(q)
    BY DEF CommandInv
<1>2. /\ at' = [at EXCEPT ![r] = "answered"]
      /\ UNCHANGED <<byImei, bySocket, job, imei, command, path, outcome, serial, wire>>
    BY DEF PostRefused, Answer, GiveUp
<1>3. PICK answer \in Replies : reply' = [reply EXCEPT ![r] = answer]
    BY DEF PostRefused, Answer, GiveUp, ReplyTo, Replies
<1>4. TypeOK'
    BY <1>1, <1>2, <1>3 DEF TypeOK, RegistryTypeOK
<1>5. FamilyRespected'
    BY <1>1, <1>2 DEF FamilyRespected
<1>6. \A q \in Requests : JobOK(q)'
    BY <1>1, <1>2 DEF TypeOK, JobOK, Sent
<1>7. \A q \in Requests : q # r => ReplyOK(q)'
    BY <1>1, <1>2, <1>3 DEF TypeOK, ReplyOK
<1>8. ReplyOK(r)'
    <2>1. at'[r] = "answered" /\ job'[r] = job[r] /\ outcome'[r] = outcome[r]
        BY <1>1, <1>2 DEF TypeOK
    <2>2. CASE PostRefused(r)
        <3>1. reply'[r] = "bad request" /\ job[r] = "none"
            BY <1>1, <2>2 DEF PostRefused, TypeOK, JobOK
        <3> QED BY <2>1, <3>1 DEF ReplyOK
    <2>3. CASE Answer(r)
        <3>1. reply'[r] = ReplyTo(outcome[r]) /\ outcome[r] \in Outcomes
            BY <1>1, <2>3 DEF Answer, TypeOK, JobOK
        <3> QED BY <2>1, <3>1 DEF ReplyOK, ReplyTo, Outcomes
    <2>4. CASE GiveUp(r)
        <3>1. reply'[r] = "busy"
            BY <1>1, <2>4 DEF GiveUp, TypeOK
        <3> QED BY <3>1 DEF ReplyOK
    <2> QED BY <2>2, <2>3, <2>4
<1> QED BY <1>4, <1>5, <1>6, <1>7, <1>8 DEF CommandInv

LEMMA PostOK ==
    ASSUME CommandInv, NEW r \in Requests, NEW i \in Imeis, NEW cmd \in Commands, Post(r, i, cmd)
    PROVE  CommandInv'
<1> USE DEF registryVars, Post
<1>1. TypeOK /\ FamilyRespected /\ \A q \in Requests : JobOK(q) /\ ReplyOK(q)
    BY DEF CommandInv
<1>2. TypeOK'
    BY <1>1 DEF TypeOK, RegistryTypeOK, Service
<1>3. FamilyRespected'
    BY <1>1 DEF FamilyRespected
<1>4. ASSUME NEW q \in Requests, q # r
      PROVE  JobOK(q)' /\ ReplyOK(q)'
    BY <1>1, <1>4 DEF TypeOK, JobOK, ReplyOK, Sent
<1>5. /\ at'[r] = "waiting" /\ job'[r] = "queued" /\ imei'[r] = i /\ job[r] = "none"
      /\ outcome'[r] = outcome[r] /\ reply'[r] = reply[r] /\ at[r] = "idle"
      /\ (Sent(r)' <=> Sent(r))
    BY <1>1 DEF TypeOK, JobOK, Sent
<1>6. JobOK(r)' /\ ReplyOK(r)'
    BY <1>1, <1>5 DEF JobOK, ReplyOK
<1> QED BY <1>2, <1>3, <1>4, <1>6 DEF CommandInv

\* Devices coming and going change nothing about requests.
LEMMA DevicesOK ==
    ASSUME CommandInv, RegistryTypeOK',
           UNCHANGED <<at, job, requestVars, outcome, reply, serial, wire>>
    PROVE  CommandInv'
<1> USE DEF requestVars
<1>1. TypeOK'
    BY DEF CommandInv, TypeOK
<1>2. FamilyRespected'
    BY DEF CommandInv, FamilyRespected
<1>3. \A q \in Requests : JobOK(q)' /\ ReplyOK(q)'
    BY DEF CommandInv, JobOK, ReplyOK, Sent
<1> QED BY <1>1, <1>2, <1>3 DEF CommandInv

(***************************************************************************)
(* What is on the wire, what the coroutines report and what the threads     *)
(* answer agree in every reachable state.                                   *)
(***************************************************************************)
THEOREM CommandInvariant == Spec => []CommandInv
<1>1. Init => CommandInv
    <2> SUFFICES ASSUME Init PROVE CommandInv
        OBVIOUS
    <2> USE DEF Init, RegistryInit
    <2>1. TypeOK
        BY NoneAssumption DEF TypeOK, RegistryTypeOK
    <2>2. FamilyRespected
        BY DEF FamilyRespected
    <2>3. ASSUME NEW r \in Requests
          PROVE  JobOK(r) /\ ReplyOK(r)
        <3>1. /\ at[r] = "idle" /\ job[r] = "none" /\ outcome[r] = None /\ reply[r] = None
              /\ ~Sent(r)
            BY DEF Sent
        <3> QED BY <3>1, NoneIsNoString DEF JobOK, ReplyOK, Outcomes, Replies
    <2> QED BY <2>1, <2>2, <2>3 DEF CommandInv
<1>2. CommandInv /\ [Next]_vars => CommandInv'
    <2> SUFFICES ASSUME CommandInv, [Next]_vars
                 PROVE  CommandInv'
        OBVIOUS
    <2>0. RegistryTypeOK
        BY DEF CommandInv, TypeOK
    <2>1. ASSUME NEW i \in Imeis, NEW c \in Conns, DeviceRegisters(i, c)
          PROVE  CommandInv'
        BY <2>0, <2>1, RegistryTypes, DevicesOK DEF DeviceRegisters
    <2>2. ASSUME NEW i \in Imeis, DeviceLeaves(i)
          PROVE  CommandInv'
        <3>1. RegistryTypeOK'
            BY <2>0, <2>2 DEF DeviceLeaves, RegistryTypeOK, unregister_device
        <3> QED BY <2>2, <3>1, DevicesOK DEF DeviceLeaves
    <2>3. ASSUME NEW r \in Requests, NEW i \in Imeis, NEW cmd \in Commands, Post(r, i, cmd)
          PROVE  CommandInv'
        BY <2>3, PostOK
    <2>4. ASSUME NEW r \in Requests, PostRefused(r) \/ Thread(r)
          PROVE  CommandInv'
        BY <2>4, ThreadOK DEF Thread
    <2>5. ASSUME NEW r \in Requests, Coroutine(r)
          PROVE  CommandInv'
        BY <2>5, SendGt06OK, SendGps103OK, DrainedOK DEF Coroutine
    <2>6. CASE UNCHANGED vars
        BY <2>0, <2>6, DevicesOK DEF vars, registryVars, RegistryTypeOK
    <2> QED BY <2>1, <2>2, <2>3, <2>4, <2>5, <2>6 DEF Next
<1> QED BY <1>1, <1>2, PTL DEF Spec

(***************************************************************************)
(* The registry, the requests, their coroutines and the answers keep their  *)
(* types; in particular do_POST hands a coroutine only to a service there   *)
(* is.                                                                      *)
(***************************************************************************)
THEOREM CommandTypeCorrect == Spec => []TypeOK
<1>1. CommandInv => TypeOK
    BY DEF CommandInv
<1> QED BY <1>1, CommandInvariant, PTL

(***************************************************************************)
(* send_command and send_gps103_command write to sockets of their own       *)
(* family only, however the registry changed since do_POST looked at it.    *)
(***************************************************************************)
THEOREM FamiliesAreRespected == Spec => []FamilyRespected
<1>1. CommandInv => FamilyRespected
    BY DEF CommandInv
<1> QED BY <1>1, CommandInvariant, PTL

(***************************************************************************)
(* do_POST's answer agrees with what was, and will be, written.             *)
(***************************************************************************)
THEOREM AnswersAreTruthful == Spec => []AnswersTruthful
<1>1. CommandInv => AnswersTruthful
    BY DEF CommandInv, JobOK, ReplyOK, Sent, AnswersTruthful
<1> QED BY <1>1, CommandInvariant, PTL
=============================================================================
