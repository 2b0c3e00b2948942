# Verification of the MQTT broker

TLA+ models, TLC runs and TLAPS proofs for the broker in `src/mqtt_broker`, with
an inventory of the rest of the repository.

## 1. The system

The repository has two Python programs. The **broker** (`src/mqtt_broker`) is an
asyncio MQTT 3.1, 3.1.1 and 5.0 server without dependencies. The **integration
service** (`src/integration`) is a client of it that passes messages on to
ChirpStack, HTTP endpoints and other brokers. Two HTML pages and two device
simulators are beside them.

### Components of the broker

| Component | State it keeps | Operations |
|---|---|---|
| `ClientHandler` (broker.py) | `connected`, `client_id`, `session`, the stream, a write lock, topic aliases | `run`: CONNECT, replay of the offline queue, packet loop, teardown; one handler per packet type; `deliver` |
| `MQTTBroker` (broker.py) | `_clients` (identifier to handler), `retained` (topic to packet), `_connection_count`, thread pool | `register`, `unregister`, `kick_existing`, `route`, `forward`, `_client_connected` |
| `SessionStore` (session.py) | `_sessions` (identifier to `ClientSession`) with subscriptions, will, offline queue, `inflight_qos1`, `qos2_in`, `qos2_out`, packet-id counter | `on_connect`, `on_disconnect`, QoS 2 helpers, `enqueue_offline`, `drain_offline` |
| `SubscriptionStore` (router.py) | `_subs`: filter to client to (QoS, no_local) | `add`, `remove`, `remove_all`, `restore`, `matching_subscribers`; `topic_matches` |
| codec (protocol.py) | none | `encode_*`, `parse_*`, variable-length integers, properties |
| `Authenticator` (auth.py) | users | `check` |
| forwarders (forwarder.py) | a socket or a paho client each | `forward` |
| start (`__main__.py`) | stop event | signals, shutdown |

### Components of the integration service

| Component | State it keeps | Operations |
|---|---|---|
| loops and HTTP interface (main.py) | `_shared_settings` (memory and file), `_integrations`, counters | `subscriber_loop`, `primary_watcher_loop`, `save_settings`, status |
| `ChirpStackIntegration` (chirpstack.py) | `_seen_dev`, `_primary_api`, lists of targets | `forward`, `handle_join`, `_rebuild` |
| `CSApiClient`, `MQTTTarget` (chirpstack.py) | an HTTP session; a paho client | `get_activation`, `device_exists`, `create_device`, `set_activation`; `publish` |
| `HttpIntegration`, `MqttBridgeIntegration` | a session; a paho client | `forward` |

### How they interact

All of the broker runs in one asyncio event loop, so code between two awaits is
atomic; what interleaves are tasks, at their awaits. The tasks are

* one `run` per connection, which awaits the next packet, `wait_closed()` and
  its sends. A send suspends it when the socket is full, when another task
  holds the write lock, and when the transport is closing;
* one teardown task per takeover (`kick_existing`);
* one `_send_will` task per will, one `deliver` task per message and receiver,
  one `forward` task per message.

They share `_clients`, `_sessions`, the `ClientSession` objects, `_subs` and
`retained`. Nearly every access is **by client identifier**, while several
handlers of one identifier can be alive: an old one that has not ended and the
one that took over. That is the hard part of this program, and the reason why
the connection lifecycle is the core of the project.

The integration service has one event loop too, with two long-lived tasks. The
subscriber handles one message of the broker at a time and the watcher one join
event of the primary at a time; both suspend in every API request, and share
`_seen_dev` and `_primary_api` with each other and with `save_settings`.

### What is hard, and what makes each part correct

| Part | Hard | Correct means |
|---|---|---|
| Connections and sessions | takeover, double teardown, CONNACK on a dead transport, a kicked handler that still reads | registry, store and objects agree; wills go out once, for unclean ends only; routes follow sessions; ended connections finish |
| Inbound flows | lost acknowledgements, retransmission on a resumed session, suspension between acknowledgement and routing | QoS 2 is routed at most once; what is acknowledged is routed |
| Outbound delivery | deliver tasks that start after their handler ended; replay beside live traffic | nothing doubled, reordered or stranded; nothing lost while a connection is up |
| Subscriptions | two copies of the filters, rewritten from each other; dictionary order | highest QoS wins; session and table agree; unsubscribed stays out |
| Topic filters | index arithmetic, wildcards, `$` topics | the result is the declarative meaning of the filter |
| Byte reader and codec | two copies of the length loop, limits that meet, aliases that any packet may rebind, three levels with different fields | handlers get what the client meant, in order; a message passed on is the same message |
| Authentication | absent, empty and unknown users, anonymous access beside them, a comparison that raises | exactly the entitled get in, where only a digest or an ASCII password entitles (section 6) |
| Connection limit | a counter with several ways out, a `wait_closed` that may last | the counter is the number of slots held, and within the limit |
| Forwarding | a task per message, a queue, several threads, a flag set by another thread | order is lost between busy threads only; every job comes to an end |
| Start and shutdown | a task that is cancelled, a pool that is not waited for, tasks that are dropped with the loop | the process ends, and not before every queued job was tried |
| ChirpStack mirror | two loops, one set of seen devices, settings replaced in the middle, requests that fail | a target is out of date only for a known reason; no device is marked as seen too early |

`PROJECT.json` lists the hazards line by line, with the properties that cover
each or the reason why none does yet.

## 2. Modules

```
BrokerSessions ──┬── BrokerSessionsRefinement ──┬── SessionService (INSTANCE)
                 │                              └── BrokerSessionsProofs
                 ├── Publishing ── PublishingProofs
                 └── Delivery ── DeliveryProofs
Codec ───────────── PacketStream ──┬── PacketChannel (INSTANCE)
                                   └── CodecProofs ── PacketStreamProofs
BrokerProcess ───── BrokerProcessProofs
Subscriptions ──┬── RouterProofs
TopicMatch ─────┘
DeviceMirror ────── DeviceMirrorProofs
```

Each state machine has an `MC...` module with the definitions TLC needs
(symmetry, bounded inputs) and `.cfg` files. Operators whose comment begins with
`Fault:` are plausible bugs: each is a variant of the definition after it, used
to show that a property can fail. They are not part of the specification.

### BrokerSessions, the core

`ClientHandler.run` with everything CONNECT, SUBSCRIBE, UNSUBSCRIBE, DISCONNECT,
a lost connection and a takeover do to the shared structures. A connection `h`
stands for a TCP connection and its handler; a `ClientSession` object is named
by the connection whose CONNECT built it, so `sessions[c]` and `mine[h]` are
references, as in the code, and a discarded object stays reachable for the
handler that holds it.

| Variable | Code |
|---|---|
| `pc` | position of `run`: new, waiting for the first packet, in the CONNACK send, in the loop, in `wait_closed` after DISCONNECT, in the final `wait_closed`, done |
| `transport` | `open`; `closed`; `unread`: closed with one packet already buffered |
| `connected`, `cid`, `mine` | the fields of `ClientHandler` |
| `kick` | the task of `kick_existing` |
| `clients`, `sessions`, `object`, `subs` | `_clients`, `_sessions`, the `ClientSession` objects, the filters in `_subs` |
| `willsDue`, `willsSent` | `_send_will` tasks, wills published |
| `brought`, `parting` | history: whether the CONNECT had a will, how the connection ended |

| Action | Code |
|---|---|
| `Accept`, `Reject` | `_client_connected`; a first packet that is no acceptable CONNECT |
| `Connect` | `_handle_connect` up to the CONNACK: `kick_existing`, `on_connect`, `register`, `restore` |
| `Connacked` | the return from a CONNACK send that suspended |
| `Subscribe`, `Unsubscribe`, `Disconnect` | the packet handlers |
| `DisconnectClosed`, `LeaveLoop` | the two ways to the `finally` of `run`, each with its teardown |
| `SendFails` | `_send` fails and clears `connected` |
| `KickTask` | the teardown created by `kick_existing` |
| `Closed` | `wait_closed` returns |
| `SendWill` | a `_send_will` task publishes |

`Teardown` is one operator used by four actions, as `_teardown` is one function
called from three places; `on_disconnect` and `remove_all` are inside it.

Abstractions: tasks that can run do so in any order (asyncio's queue is first
in, first out, so the model has more behaviours). A SUBSCRIBE or UNSUBSCRIBE has
one filter. Inside a SUBSCRIBE the sends are not separate steps: a retained
message or the SUBACK sent to a closing transport could suspend it after the
filter was added. Packets that touch none of this state are left out.
`Overlap` says whether a client may connect while an earlier connection of its
own is not finished; see section 6.

### SessionService and BrokerSessionsRefinement

`SessionService` is what a client may rely on when its connections do not
overlap: a session per client, ended or kept by one atomic step at the end of a
connection, a will that goes out exactly after an unclean end, filters that live
as long as the session. `BrokerSessionsRefinement` maps the handlers to it. The
point is that one DISCONNECT runs two teardowns, a lost connection one, and that
the registry, the store and the table are three structures: to the client they
look like one atomic step.

### Publishing

Extends BrokerSessions with what enters the broker: `HandlePublish0/1/2`,
`HandlePubrel` and `RouteRest`, which is the part of the two handlers after the
send of PUBACK or PUBCOMP, a separate action because the send may suspend. QoS 2
messages are held in the session found **by identifier** (`held`, for
`qos2_in`); `RetainedAfter` is the retained entry, with the `None` that
`_handle_pubrel` stores as `Tombstone`. `Publish`, `SendAgain` and `ReadAck` are
a well-behaved client, which is not part of the repository and marked external:
it sends unfinished messages again on a resumed session and starts anew on a
fresh one. Messages are model values with a fixed QoS.

### Delivery

Extends BrokerSessions with what leaves it: `Route` creates a task for the
handler in `_clients`; `Deliver` starts the oldest task and decides between
sending and `enqueue_offline`; `StartDrain` and `Replay` are the replay of the
offline queue by `run`, one send at a time; `HandlePuback` clears
`inflight_qos1`. Created tasks start in order of creation and the write lock is
fair, as asyncio has it, so packets appear on `wire` in the order their sends
began. One subscriber, one filter, effective QoS 1; a message stands for its
packet identifier.

### Codec, PacketStream and PacketChannel

`Codec` is protocol.py as operators: what each parser returns and each encoder
writes, byte by byte. A byte is a number, and the base of the variable-length
integers is the constant `Base` (128 in the code, a byte having `2 * Base`
values), so that packets of some dozen bytes meet the limits of one to four
digits. `Bad` is an exception of a parser.

`PacketStream` is one connection from its bytes to its handlers:

| Action | Code |
|---|---|
| `ReadHeader`, `ReadLength`, `ReadPayload` | the awaits of `_read_packet`; the last one goes on into `_handle_connect` or `_dispatch` |
| `GiveUp` | a read that times out or meets the end of the stream |
| `HandleConnect` | order of the refusals, `Authenticator.check` as `Admitted` (it returns True) and `CheckRaises`, the CONNACK |
| `HandleSubscribe` | the SUBACK, or no answer and the end of the connection, if the loop over the retained messages meets `None` |
| `HandlePublish` and the other handlers | parsing, aliases and the answers; the shared structures are left to the other modules |
| `Write`, `Break` | the client, external: it writes the packets of a script and may break off at any byte |

`PacketChannel` is what a client may expect of it: packets are handled in order,
each with the meaning the client gave it, and the connection is not given up
while an acceptable packet is under way. `Meaning`, `Entitled` and `Accepted`
say what a client means and may do, by looking at its script and never at the
broker: a topic alias stands for the topic of the last packet before it that
bound it, a packet is acceptable if its length has up to four digits and is
within the limit, and so on. Two packets may end a connection although they are
acceptable, and `MayEnd` marks them as `final`: DISCONNECT, and a SUBSCRIBE with a
filter in `Tombstoned`.

Two things outside the connection decide what the handlers do. `Users` and `Hashed`
are the user table. `check` compares with `hmac.compare_digest` (auth.py:78), which
raises a TypeError if either string has a character beyond ASCII, unless the password
is stored as a digest; nothing catches it before `run`, so the connection ends without
a CONNACK (`CheckRaises`). `Tombstoned` holds the filters that match a topic for which
`retained` may be `None`; Publishing has the action that leaves it there
(broker.py:331). Whether the entry is there when the SUBSCRIBE comes is a free
choice, since any client may put it there or replace it. The retained messages that
precede a SUBACK are no answers to requests and are left out of `answers`.

### BrokerProcess

The process around the connections: `_client_connected` with its counter
(`Connected`, `RunEnds`, `TaskEnds`; `ConnectionLost` is the transport),
`forward` and the pool (`Publish` creates the task, `Forward` queues a job per
forwarder, `Take` is a thread, `Send`, `CheckLink` and `PublishOut` are the
forwarders), and `_run` (`Listen`, `Serve`, `Signal`, `ServeEnds`, `Cancel`,
`Shutdown`, `CloseLoop`; `Exit` is the interpreter, which joins the threads).
Threads interleave with the loop at every step. `LinkChanges` is the flag that
the thread of a paho client sets. `Patient` says whether a cancelled server
waits for its connections, as asyncio does from Python 3.12 on.

### Subscriptions

`SubscriptionStore` with the insertion order of its outer dictionary, the copy
of the filters in the session (`mirror`), and the receivers `route` chooses.
Connecting and ending are reduced to what they do to the two copies. Which
filter matches which topic is a constant here, and TopicMatch's business.

### TopicMatch

The loop of `topic_matches` as a state machine over sequences of levels, with
`Covers`, the meaning of a filter, as the reference. Levels are abstract: the
code only tells whether a level is a wildcard, contains one, starts with `$` or
equals another. `is_valid_topic_filter` is `ValidFilter`. The walk has
specification `WalkSpec`, so that one module can prove about both parts of
router.py.

### DeviceMirror

The two tasks of the integration service that work on the ChirpStack mirror.
`ReadJoin`, `FetchKeys`, `DeviceExists`, `CreateDevice` and `SetActivation` are
`handle_join`, cut at its requests; `ForwardJoinRequest`, `ForwardUplink`,
`PrimaryExists` and `PrimaryCreate` are `forward`. `SaveSettings` replaces the
targets at any point; a walk under way keeps the list it began with
(`watcher.walk`), as the `for` loop does. `Restart` loses what is in memory.
`Walk`, `Skip` and `Raise` are the three ways on from a target: next, next with
a failure, and out of the loop through the exception handler of the watcher.
A request takes effect and is answered in one step; one that raises may have
taken effect. `PrimaryJoin`, an external action, is the primary: it gives a
device new keys at each join and publishes the event. The whitelist is reduced
to its verdict per device, `settings.allowed`. `Mishaps` says which failures
and changes an instance has. `missed` is history: each way in which the code
gives a target up puts the pair there, a later success takes it out.

## 3. Runs

| Run | Instance | Shows |
|---|---|---|
| `overlap` | 2 connections of 1 client, MQTT 5.0 (all of clean, expiry, will), takeovers | types; `RegistryFresh`, `StoreAgreesWithRegistry`, `WillAtMostOnce`, `NothingLeaks`; under fairness `EndedConnectionsFinish`, `WillIsSent` |
| `sequential` | 3 connections of 1 client one after the other, MQTT 3.1.1 and 5.0, 1 filter | `ConnectedIsRegistered`, `WillExactlyWhenUnclean`, `RestoredSubscriptions`, `NoOrphanRoutes`; the handlers implement `SessionService` |
| `device_mirror` | 1 device that joins twice, 2 targets, all mishaps | types; `UpToDate`, `SeenIsOnPrimary`; under fairness `JoinsAreRead` |
| `exactly_once` | 2 QoS 2 messages, 1 packet identifier, 3 connections | `RoutedAtMostOnce`, `AcknowledgedIsRouted` |
| `at_least_once` | a QoS 1 and a QoS 0 message, retained, 2 connections, takeovers | `AcknowledgedIsRouted`, `AcknowledgedGetsRouted` |
| `delivery` | 2 messages, 3 connections, queue limit 2 | `ReceivedAtMostOnce`, `ReceivedInOrder`, `NothingStranded`, `DeliveredWhileUp` |
| `subscriptions` | 2 clients, 2 filters, QoS 0 and 1 | `HighestQoSWins`, `SessionIsRouted`, `UnsubscribedStaysOut` |
| `topic_match` | all filters and topics of up to 3 levels over 7 kinds of level | `MatchesExactly`; no index out of range (`WalkTypeOK`) |
| `packet_stream` | 102 scripts: every CONNECT, users with and without an ASCII password or a digest, every type of packet, a SUBSCRIBE with and without a filter for a missing message, pairs and triples of aliases, sizes around the limits; levels 3, 4 and 5 | `RequestsAnswered`, `PassedOnIntact`; the byte reader implements `PacketChannel`, liveness included |
| `process` | 2 connections for 1 slot, 2 messages, an HTTP and an MQTT forwarder, 2 threads, a signal at any moment | `SlotsAreHeld`, `OvertakenOnlyWhileSending`; under fairness `ShutdownDrains` |
| `lost_registration`, `offline_queue` | minimal | the divergences of section 6 |

Why the bounds are enough to be interesting. Two connections suffice for a
takeover; a third comes into play when a takeover is itself taken over, which
the proofs cover for any number. Three connections in a row let a session be
built, resumed and resumed again or discarded. One packet identifier for two
messages forces its reuse after the first is complete. Two offline messages are
the least that can be replayed in the wrong order; with `MaxQueue = 1` instead
of 2 the limit is reached, and the run passes too. MQTT 3.1.1 and 5.0 together
are needed only where a change of the level discards a session. Three levels
are the least in which wildcards stand first, in the middle and last. Two
targets let a failure hit one and spare the other, and two joins let the second
come in the middle of the first; two devices and one target pass as well. With
`Base = 3` a length has four digits from 27 on and five from 81 on, so the limit
of 60 lies among the lengths of four digits, as 256 MiB does among the real
ones; packets of 60, 61 and 81 bytes are one within, one beyond and one that
cannot be written. Three aliasing packets are the least in which an alias is
bound, bound anew and used. Two threads and two messages are the least in which
one message overtakes another; two connections for one slot the least in which
one is rejected while another holds the slot. `process` passes with `Patient =
FALSE` too. `delivery` forbids takeovers for `ReceivedInOrder` only: with them a
client has two streams, and may read the newer message first; the other
properties pass with takeovers among two connections. One
client is enough for the lifecycle because the proofs, which are for any set of
clients, show that sessions never move between clients. The
counters in the models (`routed`, `willsSent`) are bounded by these numbers; no
state constraint is used.

`CHECK_DEADLOCK FALSE` stands where the system may stop: connections are used
once, a script has an end, and the process exits. Symmetry is used in runs without
liveness properties only; no definition tells connections, filters or messages
apart.

### Fairness

`Fairness` of BrokerSessions gives weak fairness to the steps that asyncio owes:
a task in a suspended send or in `wait_closed` goes on, a created task starts, a
stream that was closed is read to its end, a delayed will becomes due. Nothing
is assumed of clients: an open connection may idle for ever. That `wait_closed`
returns is the one assumption that leans on the network: with unsent data and a
peer that stopped reading it lasts until TCP gives up. `FairPublishing` only
says that a suspended send ends, with success or failure. `Fairness` of
DeviceMirror says that every request is answered, refused or raises: aiohttp
gives up after a total timeout (5 s where the code sets it, its default of five
minutes elsewhere).

`Spec` of PacketStream says that the reader goes on: each of its awaits is
inside a `wait_for` with a timeout, and `GiveUp` is the timeout. `Fairness` of
BrokerProcess says that the event loop and the threads run what they have, that
a job ends (the HTTP request has a timeout, UDP does not wait, paho's `publish`
only queues) and that `wait_closed` returns once the transport is lost. Nothing
is assumed of signals, peers and links: `ShutdownDrains` is about behaviours in
which a signal comes and the clients leave.

## 4. Proofs

All theorems hold for every value of the constants under the `ASSUME`s of the
modules, which say that `None` is no connection, client or message, and that
constants have the types their comments give.

**BrokerSessionsProofs** proves, with takeovers (`Overlap` arbitrary):
`TypeCorrect`, `RegistryStaysFresh`, `StoreAgrees`, `WillsGoOutAtMostOnce`,
`NothingIsLeaked`, all from `Invariance == Spec => []IInv`. None of the
properties is inductive alone. That a stored session or a registered handler
agrees with the registry after a teardown needs to know whose session it is:
`Ownership` says that a handler has an identifier exactly when it has a session,
that a due kick has one, and that sessions never move between clients. That
nothing is left behind needs to know what a stored session is once nobody is
registered for it: `LeftBehind` says that it has no will and is not of the kind
that ends with its connection. That a will is not sent twice needs `Untouched`:
a connection before its CONNECT has no identifier, session, kick, parting or
will, and neither has the object named after it. `IInv` is the
conjunction of these parts with the properties. All ends of a connection go
through `Teardown`, so the proof has one lemma for it, `TeardownKeepsIInv`,
whose parameters are the table and the objects the step has reached; `Finish`,
`Continue`, `KickTask` and `Disconnect` cite it.

For clients that connect one connection at a time (`~Overlap`) the same module
proves `ConnectedHandlersAreRegistered`, `WillsAreExact`,
`SubscriptionsAreRestored` and `RoutesHaveSessions`. Beside `IInv` the invariant
needs `Alone` (of two connections of a client one is finished, and nobody is
kicked), `Registered` (an accepted connection is registered exactly until it is
torn down), `Built` (a session is named by the connection that built it) and
`WillWaits` (the will waits in that session for the end of that connection).
`Alone` is where the assumption enters, and the only place: with takeovers two
handlers of a client are alive and each of these properties fails.

The module ends with `HandlersImplementService`: the handlers with their
tasks, their second teardowns and their three structures implement the atomic
`SessionService`. A stored session maps to the record of the object it refers
to; due and sent wills map to how many of them each client has. `Simulation` is
the case split: `Connect`, `Subscribe`, `Unsubscribe` and `SendWill` map to the
operation of their name, the first teardown of a connection maps to its end
(`EndDetaches`), the second to a stutter (`SecondTeardownStutters`), what
remains to a stutter too. That the second teardown changes nothing needs one
more invariant, `Settled`: after a DISCONNECT no routes of a clean session are
left. Assumed are `~Overlap`, a finite set of connections (wills are counted)
and that `None` is no record.

**PublishingProofs** proves, with takeovers, that every behaviour of Publishing
is one of BrokerSessions (`PublishingIsOverConnections`), so that `IInv` is
available here too, `PublishingTypes`, and `AcknowledgedIsRoutedBelowQoS2`:
where no message has QoS 2, what is acknowledged was routed or will be. Without
takeovers (`~Overlap`) it proves `QoS2IsAtMostOnce` and
`AcknowledgedMessagesAreRouted`. These relate what a client still has to do to
what the broker holds, with packets and answers on the wire between them. The
invariant therefore follows the packet identifier: `Identified` says that an
identifier belongs to one unfinished message; `InFlight`, that on the connection
in use an identifier is on its way once, as a packet or as its answer, and that
both fit the phase of its message. A PUBACK that is read thus belongs to the
message it acknowledges, and this was routed before the PUBACK was written
(`AtLeastOnce`). For QoS 2 the identifier is also the key under which the broker
holds the message: `HeldByBroker` says that what is held is unfinished, is there
while a PUBREC is under way, and is gone when a PUBCOMP is; `ExactlyOnce` says,
by phase, whether a message was routed, is being routed (by a handler between
acknowledgement and `route`) or was not. `Latest` is where `~Overlap` enters:
only the handler of the client's last connection reads packets, and the stored
session is the one it works on. With takeovers that fails, and `AcknowledgedIsRouted`
with it (section 6).

**DeliveryProofs** proves, with takeovers, that every behaviour of Delivery is
one of BrokerSessions (`DeliveryIsOverConnections`), and from it `DeliveryTypes`,
`NoMessageTwice`, `NothingIsStranded` and `EverythingArrives`. That no message is
received twice is not inductive: it may be waiting in a task, in a queue, in a
replay or on a wire meanwhile. `OnePlace` says that each message is in one of
these places, and of one owner, only; `OnceInPlace` that it is there once. That
nothing is lost while a connection is up needs to know where a message that
`route` gave to it can be: `Served` says in a task, on its wire or with the
client. It leans on `OpenStreams` (the handler of an open stream is in its loop,
so its task sends and does not queue) and on `Started` (a new connection has
nothing yet). That a connection is no string, as the mark of an offline message
is, is assumed (`Offline \notin Conns`).

`MessagesArriveInOrder` is for clients whose connections do not overlap. Its
first half holds with takeovers (`OrderInvariance`): messages are in the order of
`route` among the tasks, and those behind the tasks come before those in them
(`TasksLast`), hence each queue, each replay and each open wire has that order
(`PlacesOrdered`). Its second half relates the places: what was read comes
before what an open connection can still bring (`ReceivedFirst`), and this before
what the queue keeps for the next one (`QueueLast`). Of these steps only the
reading of a packet needs `Alone`: it is where a second open stream could bring
an older message later.

**BrokerProcessProofs** proves `TypeCorrect`, `SlotsAreCounted`,
`OrderIsLostInThreadsOnly` and `ExitIsDrained`. Order needs the whole way of a
message: tasks start in the order of their messages (`InOrder`), for each
forwarder the queue is in that order and later than what threads have taken
(`QueueInOrder`), and no job is lost on the way (`Accounted`). A message that
was overtaken was therefore taken and has not ended: a thread is busy with it.

**RouterProofs** proves `SessionsAreRouted` and
`UnsubscribedFiltersStayOut`. Neither is inductive without the other and the
types they rest on: `restore` puts the session's copy back into the table, so
that an unsubscribed filter stays out needs the copy to be right, and the copy
is right because every handler writes both. It proves `TableIsWellTyped` and
`TheHighestQoSWins` too, for tables of any length. These are about the loops
over `_subs`, which are folds in the model. `FoldExists` shows that a fold over a
sequence has a value for each of its prefixes, and `OccupiedSteps`,
`InsertedSteps` and `SelectedSteps` unfold each loop into its iterations. What a
loop computes is then shown by induction on the iterations done (`OccupiedKeys`,
`InsertedKeys`, `SelectedIsBest`). The induction is `SetInduction`, over a set of
numbers instead of a predicate, from the well-founded order of the naturals: the
induction theorems of the library take a predicate as parameter, which the
provers at hand cannot instantiate. The invariant `KInv` adds to the types that
the keys are the filters with a subscriber, each once (`Keys`), and that a
session has finitely many filters, so that `restore` lists each of them.

Of TopicMatch it proves `MatchesAreExact` for topics and filters of any length: the invariant `Progress` says that the levels passed so far fit one by
one and that no `#` was passed, which is what an answer at the next level or
at the end rests on. `IndicesStayInBounds` is its type invariant.

**DeviceMirrorProofs** proves `TypeCorrect`, `TargetsAreUpToDate` and
`SeenDevicesAreRegistered` for any devices, targets and mishaps. `UpToDate` is
not inductive: a walk hands out keys it fetched earlier, and the device may have
joined again since. `KeysAreCurrent` says that then the next event waits, or was
lost and every target given up; `JoinersOnPrimary` that a device whose join is
read is on the primary, which is why `handle_join` may mark it. Steps that write
nothing to a target share one lemma, `NothingForgotten`; both failures share
`GivingUpKeepsIInv`.

**CodecProofs** shows that a parser reads what an encoder wrote: texts, numbers,
variable-length integers, properties, lists of filters, and with them each
packet, of every protocol level, with any content its format can say. What a
format can say is `IsPacket` and its parts: a text is no longer than its prefix
can count, a number has the width of its type, before MQTT 5.0 there are no
properties. `ParsedAsWritten` is the result for the packets of a client,
`HeadingRead` and the lemmas after it that for the answers of the broker.

The loops of the codec are recursive functions on all of Nat, of which TLA+ knows
nothing until they are shown to exist. `EncodersExist` builds `EncodeVarint` for the
numbers up to a bound, `EncodersAgree` shows that two of these agree, and
`Encoding` puts them together; `SumsExist`, `LoopsExist` and `ReadsExist` do so for
concatenation, the loops of the parsers and the sequences of fields. What they
compute is shown by induction on their steps (`SetInduction`, as in RouterProofs).
The layout of a packet is a list of parts, and `PlacesOrder` gives the place of each.
That a parser finds a field there, whatever stands before and after it, is one lemma
per type of field (`ByteHeld`, `TextHeld`, `PropsHeld`, ...), of the form "holding the
encoding at its offset, the data decode to the value, and the offset moves past it";
`HoldingConcat` puts two of them in a row. For properties this is an induction
within one, since `decode_properties` appends to a list what it finds again under
one identifier (`ItemMoves`, `EntryMoves`, `PairsMove`, `PropMoves`). Of a packet without
a body it is shown that its parser fails (`NothingRead` and those after it).

**PacketStreamProofs** proves what a connection is, for every base of the lengths,
every limit, every user table, every script and every place where it breaks. It has
four layers, each resting on those before.

1. *Bytes.* `StreamTypesHold` bounds what is handled by what was written,
   `PacketsAreWhole` says that a parser gets the next packet byte by byte, and
   `NothingIsGivenUpEarly` that the reader refuses no packet it should read.
2. *Packets.* `ConnectionIsChannel`: the connection, parsers, handlers and
   aliases included, implements `PacketChannel` but for its fairness. It says
   nothing for a user whose stored text password is not ASCII: such a client is
   not `Entitled`, since the code lets it in under no circumstances.
3. *Answers.* `EveryRequestAnswered` is `RequestsAnswered`: one answer for each
   request that was handled, but for a last SUBSCRIBE whose handler raised.
4. *Receivers.* `MessagesPassOn` is `PassedOnIntact`.

The client writes packets and the reader reads bytes. `FramingInv` therefore
lays out everything the client wrote (`Laid`: packet `k` ends at `off[k]`), says
that the stream holds what arrived of it and was not read (`UnderWay`), and that
the reader stands `at` bytes into packet `Len(handled) + 1`. Where it stands fixes
its variables (`InStep`): in the middle of a length, the digits read and those to
come add up to the size (`InLength`) and the multiplier is `Base^(at - 1)`
(`Scaled`); after it, `remaining` bytes are left of the packet (`InPayload`). That
the loop refuses exactly the packets with more than four digits needs the
converse too: five digits mean a size that no acceptable packet has
(`FifthDigit`, `OversizedIsUnacceptable`).

`HistoryInv` (theorem `HistoryInvariance`) relates handlers to client: what was
handled is what the client meant, the level is that of its CONNECT, no DISCONNECT
was handled on a connection that is open, and the alias table has, for each alias,
the topic of the last packet that bound it (`Agrees`). The last part is why it is
inductive: `Meaning` looks for a topic in the script, the broker in a table, and
`NewBinding`, `NoBinding` and `TopicFound` say that the two stay the same. A packet
that is read whole either reaches its handler with this meaning (`Advances`) or ends
the connection, and then it was unacceptable (`Stops`); `PayloadOutcome` collects the
cases of the parsers and of the refusals. `RaisesOnlyForOthers` says that `check`
raises for nobody who is entitled, and `StumbleAdvances` that a SUBSCRIBE whose handler
raises is the last packet of its connection.

`AnswersInv` is `RequestsAnswered` with refusal and missing SUBACK spelled out: as long
as the connection is open there was neither. Its step adds to the answers what `Advances` or
`Stops` allows and reads it back with `AckHeading`, `SubackHeading`, `ConnackHeading`
and the others. `WithinLimit` says that what was handled had a length within the
limit. From it `BodyWithinLimit` gets the size of the same message with its topic
in place of an alias and with properties of another level, and `ReadAsWritten` that
it is read. This is where the hypothesis `RoomForTopics` of `MessagesPassOn` is
needed: four digits must suffice for a packet that is one byte and a topic longer
than the limit. With the limit of `config.yaml` (1 MiB) they do. With the default of
the code (256 MiB, broker.py:98) they need not, see section 6.

Assumed of the client are packets that are framed (`ScriptAssumption`: a header, the
size of the body and the body, without which there is no n-th packet) and that say
what their format can say (`PacketAssumption`), where a packet without a value stands
for an empty body, malformed for most types. Two CONNECTs on one connection are
excluded unless the second has no body: the broker drops either. Any size is
allowed, and so is any order of packets, and to be unknown, refused or disconnected.
`UsersAssumption` says that users have a name and a password: `check` lets a user
with an empty password in without one, which `Entitled` does not.
`TombstoneAssumption` says that no topic matches the empty filter. `NoneAssumption`
says that `None` is no message. `BaseAssumption` asks for a base of 3 or more: with
base 2 the CONNACK of MQTT 5.0 would need more than four digits. TLC evaluates all of them,
and `RoomForTopics`, on the scripts of `packet_stream`.

Every invariant and action property of the runs is proved except those of
the violation runs. Only model-checked is liveness under fairness, which TLAPS does
not prove here: `EndedConnectionsFinish`, `WillIsSent`, `AcknowledgedGetsRouted`,
`JoinsAreRead`, `ShutdownDrains`, and in `ImplementsChannel` the fairness of
`PacketChannel`.

## 5. Faithfulness

`map` in `PROJECT.json` names the lines each definition stands for. The models
keep every guard and the order of effects. Two consequences that look odd are in
the code: a resumed session ignores the clean flag, expiry and will of the new
CONNECT (`Connect`, session.py:127-135), and a CONNACK that fails still leads to
`connected = True` (`Connacked`, broker.py:219-220).

## 6. Where the code and its documents part

With `Overlap = FALSE` the lifecycle properties hold. With takeovers many do
not, for one reason: `_teardown` of the replaced handler looks everything up by
client identifier (broker.py:420-421) and finds what the new connection put
there.

Runs that TLC refutes:

* `lost_registration`: the teardown of the old handler unregisters the new one.
  The client stays connected and receives nothing. The kick task alone does it;
  so does the `finally` of the old `run`.
* `offline_queue`: `route` skips clients that are not registered, so the offline
  queue of a disconnected persistent session stays empty (README.md:522).

Stated in the modules and refuted in the same way, but not kept as runs. Put the
name into `lost_registration.cfg`; for `NoLocalIsHonoured` into
`subscriptions.cfg`, for `ConnectIsAnswered` into `packet_stream.cfg` as a PROPERTY, for
`RetainedIsPacket` into `exactly_once.cfg` with a
message in `Retain` and `Clear`, for `AcknowledgedIsRouted` there with `Overlap = TRUE`, for `KeysFollowJoins` into
`device_mirror.cfg`:

* `OneConnectionPerClient` (with 3 connections): after a lost registration the
  next CONNECT finds nobody to kick.
* `WillOnlyAfterUncleanEnd`: the will of the new connection is published by the
  teardown of the old one.
* `RoutesFollowSession`: the filters of a discarded session stay in the table
  (with one
  filter; with `Overlap = FALSE` too).
* `WillIsStored`: the will of a CONNECT that resumes a session is dropped (with
  `Overlap = FALSE` too).
* `NoLocalIsHonoured`: the flag of the filter with the highest QoS decides,
  where the docstring says the flags are OR'd (router.py:123).
* `AcknowledgedIsRouted` for QoS 2: the takeover discards the new clean session,
  PUBREC and PUBCOMP are sent, and the message is never routed.
* `RetainedIsPacket`: a retained QoS 2 message without payload leaves `None` in
  `retained` (broker.py:331); the next matching SUBSCRIBE raises (broker.py:370)
  after its filter was added and before the SUBACK, and its connection ends.
  `RequestsAnswered` excuses this SUBSCRIBE and no other.
* `ConnectIsAnswered`: `hmac.compare_digest` (auth.py:78) takes only ASCII text. A user
  whose password is stored as text and is not ASCII can never log in, and whoever gives
  a password that is not ASCII for a user with a text password gets no CONNACK, where
  auth.py:49 promises True for those who are to be admitted and broker.py:176 refuses
  the others in words. With ASCII passwords and digests the property holds.
* `KeysFollowJoins`: `handle_join` ignores a device in `_seen_dev`, and its first
  uplink in plain JSON puts it there. A device that sends before it joins is
  never mirrored, and one that joins again leaves old keys on the targets, where
  README.md:263 has the keys set "whenever an OTAA join is seen".

Seen while modelling, and visible in the models, though no document says
otherwise:

* The default limit of 256 MiB (broker.py:98) is 128^4, so that a PUBLISH of
  128^4 - 1 bytes is read. Passed on to a receiver of MQTT 5.0 it has one byte more,
  or more than that if its topic was an alias, and `encode_varint` (protocol.py:124)
  writes a length of five digits, which no receiver accepts. `PassedOnIntact` holds
  with a limit that leaves room for that, as `config.yaml` and `packet_stream.cfg` have.
* An alias that a client binds reaches the receivers as a property of the
  message, together with the topic.
* A message whose `forward` task starts after the shutdown of the pool is lost:
  `run_in_executor` raises in the task (`Forward`, phase "down").
* On Python 3.12 and later SIGTERM does not end the process while a client stays
  connected: the cancelled server waits for its connections, and a second signal
  has no effect. Hence the premise of `ShutdownDrains`.
* A `serve` that fails, as when a port is taken, ends like a shutdown: `_run` does
  not look at its result, logs "Broker stopped." and the process exits normally
  (`ServeEnds`).

## 7. Not modelled, and why

* Replacement of invalid UTF-8, `encode_auth` (nothing calls it), values too
  large for an encoder: no state, or no caller. Text of a client is valid UTF-8
  (`IsText`); a password with other bytes would get U+FFFD in their place, which
  `compare_digest` refuses like any character beyond ASCII.
* The content of what forwarders send, and their `close` (nothing calls it).
* TLS, logging, arguments and configuration: settings of libraries.
* In PacketStream, that another connection takes over and closes this one: that
  is BrokerSessions, where reading is one step.
* HTTP and MQTT bridges of the integration service: a retry loop around one
  request, a publish guarded by a flag (as `CheckLink` has it for the broker).
* Device simulators and browser pages: they produce or show traffic.
* Settings that make `_rebuild` raise after they were saved (a port that is no
  number).

Time is abstracted: a keepalive timeout is a `LeaveLoop` or `GiveUp` at any
moment, a will delay any delay. `README.md` of the repository promises nothing
about a restart of the broker, all of whose state is in memory.

## 8. Plan

Done: the modules, runs and theorems above.

Next modules, in this order:

1. **OutboundIds**: packet identifiers with a small modulus, `inflight_qos1` and
   `qos2_out`; what a PUBACK for a reused identifier removes.
2. A will with a delay as an option of BrokerSessions, with the return of its
   client before the delay is over.
3. Identifiers made from `id(self)`, which a later handler may be given again.
4. The bridges of the integration service, with their reconnections.

Proofs: none of the present safety properties is left. A new module brings its own.

Runs are few on purpose: one that a proof makes redundant is given up for a new
module.
