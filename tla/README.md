# A TLA+ verification of the ShaloTrack gateway

The gateway is a Python asyncio service. GPS trackers of three families (GT06/V5, GPS103/TK103,
Teltonika FMB) connect over TCP; the gateway identifies the family, frames the stream, authenticates the
device by IMEI against PostgreSQL, stores positions, status and alarms, and answers as each protocol
wants. Beside it an HTTP API, on threads of its own, sends commands to connected devices, and a poller
asks silent GPS103 trackers for a position.

This directory holds TLA+ modules translated from that code, TLC configurations that check them on small
instances, and TLAPS proofs of the main safety properties for every instance. `PROJECT.json` maps each
definition to the source lines it stands for and lists runs, mutants, findings, hazards and theorems.

## 1. Inventory

| Component | State | Operations | Interacts with | What is hard | What makes it correct |
|---|---|---|---|---|---|
| Connection lifecycle (`tcp_server.py`) | `_connection_count`; per task `imei`, `protocol`, `buffer`, the writer | accept/reject, probe, detect, loop, `finally` | handlers, registry, database | tasks interleave at every await; cleanup races a reconnect; a write may raise inside `finally` | slots given back once; cap respected; a closed socket's entry leaves the registry; own registration torn down and nobody else's |
| Device registry (`device_registry.py`) | `_by_imei`, `_by_socket` keyed by `id(writer)` | register, unregister, lookups, `note_position` | everyone | the two dictionaries must agree; `id()` is reused | a binding and its entry name each other |
| GT06 / GPS103 / Teltonika handlers | none / none / `_last_alive`, `_last_ignition` | one function per message type | registry, repositories, the socket | state read before an await and used after it; failures half way | no data for a device that did not log in; what is acknowledged is stored |
| Tracking writes (`tracking_service.py`) | `DeviceStatuses`, `GpsTrackings`, `CurrentLocations` | one statement each | handlers | commit order differs from event order; resends | no acknowledged record lost; the live position does not fall behind |
| Device lookup (`device_repository.py`, `database.py`) | `GpsDevices`, `SetupShalotrackDevices`, the pool | select, insert, refetch; acquire, release | login handlers | concurrent first logins; a bounded pool | one DeviceId per IMEI; no connection leaked or waited for while holding another |
| Command API and services | HTTP threads, coroutines, `_serial` | POST /command, send, answer | registry, sockets | two threads of control; a timeout that does not cancel; a protocol looked up early | right family, true answers, every request answered |
| GPS103 poller | due list, `last_poll_at` | wake, ask, drain | registry, sockets | the list ages across awaits; one bad socket | only GPS103, not too often, nobody forgotten |
| Framers and detection | the buffer | extract, sniff | lifecycle | TCP cuts anywhere | frames are those of the bytes read so far at once, however they were cut; bounded buffering |
| Health service (`health_service.py`) | `_db_cache` under `_db_lock`, `_last_logged_state` | GET /health | event loop, pool, registry | several HTTP threads, a cache, a loop that may never run what it is given | answers in time, outages and recoveries shown, the database not hammered |
| Field parsers and frame builders | `_serial` | one parser per message type, checksums, acknowledgements, commands | framers, handlers | offsets, signs, counts, midnight, damaged bytes | what was sent is what is read, or nothing is |
| Events, raw rows, numeric cleaning | none that others read | inserts | handlers | one failing among several | an alarm is never lost over something else |
| Decoders, data classes, console, logger | none | string tables, printing | handlers | - | see section 8 |

The hazards this leads to, each at its line and with the properties that would catch it, are listed in
`PROJECT.json`.

## 2. Modules and how they correspond to the code

An asyncio task is preempted only at an `await`, so an action is the stretch of code from one await to
the next, with every call in it. `pc` names the await a task is suspended at. A statement sent to the
database and the task's resumption are separate steps where another task could use the gap.

* **DeviceRegistry** - the two dictionaries as functions `byImei`, `bySocket`; `register_device` and
  `unregister_device` as the code writes them (a second IMEI on one socket keeps its old entry). Extended
  by Gateway, CommandApi and Gps103Poller.
* **Gateway** - `handle_device` and the three handlers as seen by the registry, the connection cap and
  `DeviceStatuses.IsOnline`. A socket identity (`Conns`) is Python's `id()`: `Reuse` hands it to a new
  connection once nothing refers to the old writer. Handler branches that differ only in the rows they
  insert share the steps `StoreFrame`/`Stored`; branches that write IsOnline share
  `StatusFrame`/`StatusWritten`, with the GT06 heartbeat's second write and the GPS103 heartbeat's reply
  as steps of their own. A read that times out, end of data, a reset and a framing error all enter
  `finally` (`EnterFinally`). A batch of frames is a sequence of loop steps: reading more never changes
  what the next frame may do.
* **ConnectionSlots** - the abstract cap: at most `MaxConnections` served, nobody refused below that.
  Gateway implements it with `live <- Running`, the tasks between acquire and release.
* **TeltonikaDelivery** - one device with records 1..N, its connections (`Sessions`), the handlers still
  working for connections it has left, `GpsTrackings` rows, the live position and the ignition cache.
  Records are numbered in the order in which they are sent; `Time` gives their timestamps, which need not
  follow that order: `_refresh_status` sorts by them, the store loop does not. `Assigned` tells whether the
  device belongs to a vehicle; the statement sets the live position only then. The
  gateway may restart at any point, and the unique index and `GPS_TRACKING_IDEMPOTENT` arrive while it
  runs, in the order of `docs/gps-tracking-idempotency.md`. `overlap` records whether handlers of two
  connections ever worked at the same time.
* **RecordQueue** - the abstract delivery: records are stored in any order, the device deletes them in
  their own order and only what is stored (or was never to be: a record without a fix), and nothing stored
  is lost or stored anew after its deletion. TeltonikaDelivery implements it with
  `stored <- {r : rows[r] > 0}`: packets, handlers, failures, restarts and the rollout are all stutters
  or steps of the queue.
* **FrameHandling** - one GT06 or GPS103 message of a device that is logged in: the statements its handler
  sends, in their order (`Gt06Plan`, `Gps103Plan`), each of which may raise, applied or not
  (`AfterFailure`). Positions are classes (good, 0/0, impossible speed, impossible position, none).
* **HealthService** - HTTP threads in `get_health`: the loop probe, `_db_lock`, the cache with its two
  lifetimes and the report; time in ticks. The event loop and the database change their behaviour at any
  moment; `upFor` and `downFor` say for how long they have been well and down.
* **CommandApi** - HTTP threads (`at`), their coroutines (`job`), the serial counter and everything
  written to sockets (`wire`). Devices come and go meanwhile.
* **Gps103Poller** - ages in ticks, the due list, the socket being drained. `fresh` tells whether the
  entry the poller holds is still the one in the registry: `last_poll_at` is written to the entry object,
  which may have been replaced.
* **DeviceLookup** - concurrent `get_device_by_imei` calls on a bounded pool; a task's name is its uuid4.
* **Framers** - byte strings and the three framers. Each is a loop; `Gt06Turn`, `Gps103Turn` and
  `TeltonikaTurn` say what one turn does with the bytes that are left (wait, fail, or take the first n,
  with or without a frame), `Loop` what follows, and the framer itself is the recursive function over all
  byte strings. **Framing** extends it with detection and the first reads.
* **UtcTime** - `resolve_utc_timestamp`, in minutes.
* **Decoding** - the field parsers, checksums, acknowledgements and `build_command`, byte by byte, behind
  the framers of Framers. A device sends a message made of fields; the gateway's parser turns its bytes
  into fields again. The device's side (`Wire`, `CommandRead`) is the wire format as the parsers document
  it. Coordinates stay integers in the unit of the wire; the division into degrees is left out. Numbers
  wider than TLC's integers are kept as their bytes. A checksum's register is the set of its bits that are
  1; a command's text is the code points of its characters. A Teltonika device is answered as the handler
  may: a login if it is admitted, a packet with any number of its records, which TeltonikaDelivery
  determines. A reader is what has been read and the data behind it, and a loop over a count is a recursive function
  (`Elements`, `VariableElements`, `ReadRecords`). `Fitting` says which messages there are: every field
  holds what its format has room for. `SamplesAssumption` asks it of the messages sent, so TLC evaluates it
  on the instance and the proofs use it of any set of messages.
* **`*_proofs`** - theorems about Gateway, TeltonikaDelivery, CommandApi, DeviceLookup, Gps103Poller,
  HealthService and FrameHandling; **Parsing_proofs** - theorems about Framers, Framing, UtcTime and
  Decoding.
* **`MC*`** - the instances TLC checks.

Operators named `X_Something` next to an operator `X` are mutated forms of it. They are used in no
specification; substituted for `X` they show that a property can fail.

## 3. Runs that pass

| Run | Checks | Instance and why it is enough |
|---|---|---|
| GatewayLifecycle | NoStaleEntry, SlotsMatchLive, ClosedNeverRegisters, RefinesSlots, ClosedIsForgotten | 3 sockets contending for 2 slots (one is refused) and 1 IMEI (every login replaces another connection), the two default families, healthy database |
| GatewayFaults | BindingAgrees, UnboundUntilLogin, CapRespected | 3 sockets, cap 2, 2 IMEIs, the two binary families, failing writes, rebinding, restarts: more than an operation of the registry or of the cap touches |
| TeltonikaRollout | RefinesQueue, NothingLost, LiveKeepsUp, IgnitionRight, AllDelivered | 3 records, the first without a fix, the other two sent together or apart and out of the order of their times, packets of up to 2, 2 sessions, 1 failure, 2 drops, 1 restart, the index and the flag introduced at any time: a packet can succeed, fail half way, be cut off by a restart, be refused by the index, and be resent twice, once beside its first handler |
| CommandRouting | FamilyRespected, AnswersTruthful, EveryRequestAnswered | 3 requests, sockets of 2 families for 1 IMEI, 2 commands of which GPS103 takes one, serials up to 2 so that the counter outgrows its bound |
| PollerRounds | PollsSpaced, SilentIsAsked | 2 trackers and a GT06 device, each keeping its family, intervals of 1 and 2 ticks |
| LookupRaces | OneDevicePerImei, OnlyAdmitted, PoolConserved, LookupsEnd | 3 logins, 2 IMEIs, pool of 2 (one must wait), every initial status |
| FramingStreams | FramedAsOneStream, BufferBounded, DetectionStands, RefusedForGood | per framer all streams of up to 9 bytes over 4 well chosen bytes, and for detection all streams of up to 5 bytes (the longest signature) over 9; cut in pieces of 1 to 4 |
| HealthReports | AnsweredInTime, ReportIsCurrent, ProbesSpaced, EveryPollAnswered | 2 threads (one holds the lock, one waits), timeouts and lifetimes in the order of the code's defaults, which `HEALTH_DB_CACHE_SECONDS` may change (section 6) (loop 1 s, slow 1.5 s, probe 2 s and 2.5 s, failure 3 s, success 10 s) scaled to the fewest ticks that keep them apart |
| FrameWrites | Answered, WritesIndependent, BadFixKeepsAlarm | every kind of message, every class of position, every subset of failing statements, all three raw modes; messages follow one another, so the ignition of an earlier one is there to be mistaken |
| Decoding | DecodedIsSent, TextIsRead, DamageRefused, AckMatches | every kind of message with values at the edges of its fields: each hemisphere, leap days, days that do not exist, minutes around midnight for offsets from -12:00 to +14:00, IO elements of every size, wrong counts and codecs, texts around the limit of 243 characters and with characters that are not ASCII, serials around 65535; in data packets every byte is changed in 12 ways |

FramingStreams shortens the Teltonika fields (login of 4 bytes, preamble of 2, length of 1, trailer of
1; the code has 17, 4, 4, 4) so that whole frames, two of them, fit the bound; the sizes are CONSTANTS
and the framer treats them uniformly. Deadlock is not checked in FramingStreams, whose streams end, and
in TeltonikaRollout, where the device runs out of records.

What the properties of the larger runs say, in a sentence each:

* GatewayLifecycle: ClosedIsForgotten is the liveness of cleanup: an entry that leads to a socket whose
  connection has been closed does not stay. It says nothing of the end of the task itself:
  `await writer.wait_closed()` has no timeout.
* TeltonikaRollout: LiveKeepsUp says that, without overlap, the live position is never behind a stored
  record the device has deleted, in the order of sending. That it is the latest by time is what
  section 4 refutes (LiveIsLatest).
* FramingStreams: FramedAsOneStream compares what was handed over with what the framer makes of the bytes
  read so far. For a stream without an error this means that the cuts make no difference; section 4 says what
  they do to one with an error.
* HealthReports: a request is answered within one loop probe and one database probe, also when it
  had to wait for the lock; a database that has been
  down for `DB_CACHE_OK_SECONDS` is not reported as reachable, and one that has been up for
  `DB_CACHE_FAIL_SECONDS`, with a loop that turns, not as down; probes keep their distance however many
  requests come in.
* FrameWrites: a GT06 frame is answered whatever raised, and a GPS103 SOS before any statement of its report is sent
  (an earlier report of the same socket may still hold it up); the
  statements of a GPS103 report do not depend on one another, except that a position shows the ignition
  its own report brought; an impossible fix reaches no table and costs no alarm.
* Decoding: what a device sent is what its parser returns, or the message is refused as a whole when a
  field of it cannot be, and a command arrives whole or is not sent; a GPS103 report from a zone beyond the
  half day is a day off, and this is stated exactly (DecodedIsSent, the conjunction of
  Gt06IsRead, Gps103IsRead, TeltonikaIsRead and CommandIsRead; TextIsRead for frames with text). A data
  packet with a changed byte is neither decoded nor answered (DamageRefused). One case is beyond any
  checksum and excepted by `ByChance`: a length that became smaller moves the place where the checksum is
  looked for, and the bytes there may happen to be right. The acknowledgement of a GT06
  frame names it (AckMatches).

Decoding uses the code's sizes. Its catalogue assumption checks both checksums against the values the
CRC catalogues publish for "123456789", so that encoder and decoder do not merely agree with each other.

## 4. Where the code and its documents disagree

Two runs state what a comment or a document of the repository says; TLC finds a behaviour of the code
that contradicts it. The quotations are in `PROJECT.json`.

| Run | Property | What happens |
|---|---|---|
| GatewayForeignTeardown | OnlyOwnTeardown | ownership is tested, then `set_device_offline` is awaited; the device reconnects meanwhile; the old task unregisters the new connection |
| GatewaySlotLeak | SlotsMatchLive | `set_device_offline` raises inside `finally`; `_release_slot` is skipped |

Three more statements of the documents are definitions of the modules and belong to no run; listed as an
invariant in the cfg named, each is violated:

| Definition | cfg | What happens |
|---|---|---|
| Gateway!OfflineWhenGone, after `docs/database.md`: IsOnline is "`False` on disconnect" | GatewayLifecycle | a device reconnects while its old task awaits `set_device_offline`; the old task unregisters it, the new one marks it online and at its end finds no entry of its own: IsOnline stays TRUE with nobody connected. A status write of a replaced connection that commits late does the same |
| TeltonikaDelivery!LiveIsLatest, after `docs/protocols.md`: "latest position per device" | TeltonikaRollout | records of one packet that are not in the order of their times: the last one saved stays the live position. So does an older record that an abandoned connection's handler saves beside the new one |
| Decoding!AnyZoneIsRead, after `gps103_parser.py`: "correct for any timezone and across midnight" | Decoding | a report from +12:45 or +14:00 gets an instant a day late, one from -12:00 a day early |

Further disagreements, met while modelling. The first ones show up when the condition of the passing run
is dropped:

* NoStaleEntry with `DbFails`: the failure of GatewaySlotLeak skips `unregister_device` too, and commands
  are written to the dead socket. `docs/multi-protocol.md`: "a handler that raises after registering
  cannot leak an entry".
* IgnitionRight without `failures = 0`: `set_ignition` fails, `_safely` swallows it, `_last_ignition` is set all
  the same, and positions are saved with the old ignition until it changes or the device logs in again.
  `teltonika_handler.py`: "written first, so the position saved right after carries the right IgnitionStatus".
* NoStaleEntry with `Rebinds`: a second login rebinds the socket to another IMEI, and the first IMEI's entry
  stays. `docs/multi-protocol.md`: "A socket is bound to the IMEI it logged in with. Any later message
  naming a different IMEI drops the connection."
* Between the creation of the index and the deployment of the flag, a record that is resent is refused and
  nothing behind it is delivered: AllDelivered needs the fairness of `DeployFlag`.
  `docs/gps-tracking-idempotency.md`: "that one packet's statement fails".
* PollsSpaced with a device that comes back on another family: `poll_once` reads the entry again
  after an await, but not its protocol. `docs/gps103-commands.md`: "Only GPS103 sockets are ever written
  to."
* `next_serial` is never wrapped to two bytes: in CommandRouting requests past `MaxSerial` end in
  `overflow`. `docs/protocols.md`: "2 bytes, incrementing in-process counter".
* WritesIndependent does not hold of GT06: a failed raw save ends the branch, an alarm's event is not
  written and the frame is acknowledged all the same. `docs/adding-a-protocol.md` asks for independent
  writes of every handler.
* With `RAW_PACKET_MODE=off`, and for unknown GPS103 messages, no raw row is stored, where
  `docs/adding-a-protocol.md` says unknown types are always kept.
* GT06 parsers check neither the checksum nor the length of a frame, and locations, alarms and status use
  the offsets of short frames in long ones too: DamageRefused says nothing about damaged ones, and
  long ones with fields are not among the messages of Gt06IsRead. A frame of five bytes gets an ACK without a serial number.
* `parse_login_packet` strips every leading zero, so an IMEI that begins with 0 loses it; `Gt06Fits` leaves such IMEIs out.
* `docs/command-system.md` puts the text of a command response at offsets 9 and 10; the parser takes it
  from 4 and 5 and relies on dropping control characters.
* Where TCP cuts does matter to a stream with an error: frames ahead of the error are handled if an earlier
  read ended behind them and lost if the error came with the same read, and a GPS103 message longer than
  `GPS103_MAX_UNFRAMED_BYTES` is accepted when one read of up to 4096 bytes ends it, and drops the connection
  when it is cut (`gps103_parser.py`:110). `docs/multi-protocol.md` (line 56) speaks only of "a stream with
  no `;` terminator beyond that". FramedAsOneStream says what does hold.
* The hemisphere bit: a comment of `v5_parser.py` (line 79) still says "latitude is south if set", where the code
  below it takes a set bit for north; `docs/protocols.md` (lines 56-67) and `docs/Parsers.md` (lines 48-58) say the
  signs are commented out and coordinates right only in the north and east. The code applies both signs;
  Gt06IsRead follows the code.
* `docs/protocols.md` (line 134) says a GT06 alarm is "not persisted as an event"; the handler calls
  `create_event`. An alarm whose date is malformed is dropped all the same: the parser raises before.
* `GET /health` answers 503 when the state is down; the repository's README says "Returns `200 OK` if the
  API is running". A cancelled probe of a stuck loop stays in the loop's queue until it turns again, one
  per poll; `_call_on_loop`: "a stuck loop cannot accumulate a queue of abandoned probes".

So the passing runs say under which condition a property holds (a database that does not raise, one IMEI
per socket, handlers that do not overlap, families that do not change), and this
section what it depends on.

## 5. Fairness

* Gateway: weak fairness of entering `finally` for a closed socket (its reader delivers end of data, or
  `CONNECTION_TIMEOUT` passes) and for a connection before detection (`PROBE_TIMEOUT`), and of the two steps of
  cleanup up to `unregister_device` (`command_timeout=10` bounds the write). Nothing is assumed of the handlers,
  whose drains have no timeout, of `wait_closed`, which has none either, or of a device that keeps
  sending.
* TeltonikaDelivery: handlers run on; a device with records left reconnects, sends and reads answers,
  and gives up a connection on which it waits in vain. Drops, failures and restarts are finitely many.
  Once the index is there the flag is deployed (the rollout document's "immediately").
* CommandApi: only the thread's wait ends (`future.result(timeout=5.0)`); coroutines may never run.
* Gps103Poller: the sleep ends, a drain returns, raises or times out.
* DeviceLookup: strong fairness per lookup: the pool serves its waiters in order.
* HealthService: strong fairness of each thread's steps and of the clock: threads are scheduled by the
  operating system, and neither depends on how often loop and database change. Nothing is assumed of
  these two.

## 6. What is proved

`tlapm` checks every proof; the instances are arbitrary (any finite set of sockets, any IMEIs, any cap,
any number of records, sessions, requests, logins).

* **Gateway_proofs.** `RegistryInv` strengthens BindingAgrees by types, by "a task in a handler or in
  cleanup has a target" and by "a connection before login has no binding"; without the last a new
  registration could collide with a binding left over under a reused `id()`. From it: *BindingsAgree*,
  *NoInheritedIdentity*. `CapInv` relates the counter to the set of running tasks; *CapIsRespected*
  follows whatever fails, *SlotsAreAccounted* and the refinement *ImplementsSlots* assume `~DbFails`,
  because of the leak above. *ClosedNeverRegister* rests on "no handler is active on a closed socket".
  *EntriesAreServed* assumes `~DbFails` and `~Rebinds` and needs that the task an entry leads to knows
  the IMEI it has to clean up, in its local `imei` or through the binding.
* **TeltonikaDelivery_proofs.** `DeliveryInv` says that every storable record of a packet below the
  handler's position is stored, that a packet of the session in use starts where the device's deletions
  end, and that an answer under way counts only stored records. From it *AcknowledgedIsStored* and, since
  the device never deletes more than it sent, *DeliveryTypeCorrect*; restarts and the rollout included.
  *ImplementsQueue*: every step is a step of RecordQueue or a
  stutter; the cases that are not obvious are the rollout's removal of duplicates (one row of each stays),
  a resend (its rows are there already, so nothing is stored below the deletions) and a partial
  acknowledgement (it covers only what the packet's handler has stored). *LivePositionKeepsUp* and
  *IgnitionIsRight* are about one handler at a time. `OneInv` says what `~overlap` means: at most one
  handler is at work, on the packet that starts behind the deletions, and no answer is under way beside
  it. `LiveInv` says that the live position is never behind what is accounted for: no stored record up to
  `deleted`, up to `deleted + ack` for an answer under way, or below the handler's position was sent after
  the live one (a resend sets it back, but not behind that); times play no part in it. `IgnitionInv` says that what a handler has
  written, and what is remembered, is in the database; the memory is behind only while a handler has
  written and not yet resumed.
* **CommandApi_proofs.** `CommandInv` ties each request's thread, coroutine, outcome and frames on the
  wire together. From it *FamiliesAreRespected*, *AnswersAreTruthful*, *CommandTypeCorrect*.
* **DeviceLookup_proofs.** `LookupInv`: a lookup past its insert finds a row; a result is that row; what is
  registered was admitted; idle and held connections add up. From it *LoginsAgree*, *AdmittedOnly*,
  *PoolStaysWhole*, *LookupTypeCorrect*.
* **Gps103Poller_proofs.** `PollerInv`: the socket of an entry is bound to its IMEI, and a device on the
  list has not been asked within the interval although the list ages while others are drained, because the
  one being asked is off the list and nobody else asks. From it *PollsAreSpaced*, if every IMEI that
  connects as a tracker always does (section 4 says what happens otherwise), and *PollerTypeCorrect*.
* **HealthService_proofs.** `HealthInv` bounds what each thread has waited by where it is. The hard case is
  the lock: a waiting thread has waited no longer than the probe under way, and when that ends its result
  is fresh, so the waiter takes it instead of probing again (`LockWait`). A cached success is older than
  the outage, a cached failure than the recovery. From it *AnswersInTime*, *ReportsAreCurrent*,
  *ProbesAreSpaced*, *HealthTypeCorrect*, from the order of timeouts and lifetimes in `TimeAssumption`. All but one of these are
  constants of the code; `HEALTH_DB_CACHE_SECONDS` is free, and the proofs (and the run) assume it to be at least
  `DB_CACHE_FAIL_SECONDS` (3 s).
* **FrameHandling_proofs.** A handler's plan is a sequence; the lemmas say which steps occur in the plan of
  each message and in which order. `FrameInv` says that whatever a message needs was tried or is still
  to come, also after a failure that cuts the plan short. From it *FramesAreAnswered*,
  *WritesAreIndependent*, *AlarmsAreKept*, *FrameTypeCorrect*.
* **Parsing_proofs.** The framers are recursive functions over byte strings, so what they compute is
  proved by induction over the length of the string. The library's induction theorems cannot be
  instantiated by the provers used here; `LeastElement` (every non-empty set of naturals has a least
  element, from the well-foundedness of `<`) takes their place, applied to the set of counterexamples.
  `FramerExists` and `FramerTyped`: because a turn that takes bytes leaves fewer, each framer's equation has
  exactly one solution, built from functions that are right up to length n. `Resume`: if in addition a turn
  that takes a frame takes the same one when more bytes follow (`Stable`), then stopping at the rest and
  going on with new bytes gives the same frames as going through all at once. The three loops are shown to be such loops
  (`Gt06Stable`: header and length lie within the frame; `Gps103Stable`: the first `;` stays the first;
  `TeltonikaStable`), which gives *FramingIsIncremental*. `FramingInv` (until detection nothing is framed; from
  then on frames and rest are those of the bytes read so far, those of a prefix once the connection is given
  up, and the stream starts as its family's do) yields *StreamIsFramed*, *BuffersAreBounded* (at the rest the framer waits, and it waits only for a frame of
  legal length) and *DetectionIsRight* (the Teltonika framer checks the digits of the login that detection
  may not have seen); *RefusalIsFinal* follows because the signatures exclude each other and are at most
  five bytes long. *ResolvesToUtc*: for every instant and every offset of up to a day, the local clock and
  the UTC time of day give the instant back if the offset lies in (-12 h, 12 h], and one exactly a day off
  if not (`DayOff`). `WrappedWithin` says that the two loops add a multiple
  of a day; an offset less `DayOff` and its wrapped form differ by a multiple of a day and by less than one.

  Of Decoding the same module proves what each parser returns for every message of its format, not only for
  the samples of the run. *DecodingInvariant* (`DecodingInv`) is the inductive invariant: the bytes under
  way are those of the message or those with one byte changed, what was received is what framer and parser
  make of these bytes, and nothing is answered to a refused data packet. The rest is about the functions of one message:

  * *Gt06RoundTrip*, *TextIsFound*. A string of bytes is described by its length and by which strings lie at
    which offset (`IsString`, `At`, `AppendAt`, `AtSlice`), so that a parser's slice is the field that was
    put there without computing with the whole frame. `BigEndianIs` and its companions give `Bytes` and
    `BigEndian` as inverses of each other for up to four bytes. The framer takes the frame whole because
    the length it announces is its length (`IsBody`, `Sealed`).
  * *Gps103RoundTrip*. Digits and numbers are inverses of each other, and *ResolvesToUtc* gives the instant,
    for offsets from -12:00 to +14:00 and with the day it is off by.
  * *TeltonikaRoundTrip*. The readers are shown to take back, element by element, group by group and record
    by record, what the device joined, by induction over the count (the least element at which they would
    not); a leftover of the length of a partial record, a wrong count, codec, size or time makes them fail.
    A numeral is padded with zeros and stripped of them (`NumeralIs`).
  * *CommandRoundTrip*. The frame of `build_command` is one the framer takes whole, with text and serial
    where a device looks for them; a character that is not ASCII, a text of 244 characters or a serial of three
    bytes makes `Fits` fail.
  * *DamageIsRefused*. Adding a byte to a register is injective, in the byte and in the register
    (`AddByteInjective`: a shift loses no bit, because the polynomials have their highest bit set). Two
    strings of the same length that differ in one byte therefore have different checksums; a changed
    checksum does not match the unchanged data, and a changed preamble is not one. A length that became
    larger is not legal or waits for bytes that are not there; one that became smaller makes the framer
    take a shorter frame, whose checksum is `ByChance` or wrong (`LengthDamaged`).
  * *RoundTrip*. The four round trips together.
  * *Acknowledged*. `build_ack` yields a frame that IsFrame accepts, for short and long GT06 frames alike.

The assumptions about messages are those of their formats: `FieldsAssumption` gives the sizes of Teltonika's
fields, `LimitAssumption` keeps the largest packet below the numbers `BigEndian` cuts off (8388607; the
default is 4096), `SamplesAssumption` asks that every field holds what its bytes have room for. Three limits are
narrower than that. Coordinates lie strictly within 32 bits with a sign, which every position does. IMEIs
of GT06 logins do not begin with 0 (section 4). What a malformed data packet has behind its last record is
at most 22 bytes, too short for a further record, since otherwise a wrong count could be the right one.

The other assumptions are the named ASSUMEs of the modules: `None` differs from every value, sets of tasks are
finite, sizes are natural numbers (and a Teltonika login is at least as long as a preamble), the flags are Booleans, record times are
distinct, timeouts and lifetimes are ordered as the code's defaults are.

## 7. What is only model-checked

* All liveness properties: fairness and ENABLED are outside the prover.
* TextIsRead: that the text is found is proved (*TextIsFound*); how it falls into keys and values is
  `str.split` and a loop over its items, and what those make of a text has no description shorter than
  the definition itself. The run compares them with results written out by hand.

## 8. What is not modelled

* Which command the text of a response belongs to, the renaming of configuration keys
  (`information_interpreter`, `information_decoder`) and the names of alarms: string tables without state.
* The wording of commands and of events.
* Battery, signal and power columns and the vehicle's identity: no property tells their values apart.
* Decimal expansion of floats (`clean_decimal`), the division of coordinates into degrees.
* The health log of transitions (`_last_logged_state`, under a lock of its own, only decides which line is
  logged).
* Console, logging, environment parsing, last-seen timestamps.
* asyncpg, PostgreSQL, the portal and device firmware are external: modelled from how the code uses them
  (a write may raise with or without having been applied; a unique index; a device deletes what is
  acknowledged).

## 9. Plan

1. Done: registry, gateway lifecycle with refinement, Teltonika delivery with restarts and rollout and its
   refinement of a queue, commands, poller, device lookup, framing, frame handling, health service,
   decoding; proofs of every safety property the passing runs check but TextIsRead.
2. Composition: commands and polls on top of the Gateway life cycle instead of free registration.
