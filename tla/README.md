# TLA+ models of the hackathon system

This directory models the stateful programs of the repository in TLA+, checks
the models with TLC and proves part of what they say with TLAPS. Every
definition is a translation of source code; `PROJECT.json` (`map`) names the
lines each one stands for.

Run a model with `tlc -config X.cfg MCx.tla` and a proof with
`tlapm ConsoleServerProof.tla`. Definitions under a comment that starts with
`Mutant:` are not part of any specification: each is a plausible bug, kept
beside the definition it would replace, and the property it must break is named
in `PROJECT.json` (`mutants`).

## 1. The system

Microbit nodes form a Bluetooth mesh. A **gateway** brings their messages to the
Drogue cloud over MQTT and takes commands and provisioning requests back. A
**console** lets users claim a node and watch it live; a **dashboard** shows all
nodes from the **digital twin** service.

    firmware ~~mesh~~ gateway <--MQTT--> cloud --MQTT--> console --WebSocket--> browser
                        |                  |                |
                 node configurator    device registry <-----+   (claims, simulators)
                                  ^        |
    web simulator (MQTT client) --+  twin service --WebSocket--> dashboard --WebSocket--> browser
                                       (hierarchy.js)

| Component | State it keeps | Operations | Talks to | Hard part |
|---|---|---|---|---|
| Console: claims (`ClaimResource`, `Processor`, `DeviceClaimService`, `Registry`, `AutoLoadData`) | claims table, devices in the registry | claim, claim a simulator, release, load at start | database, device registry, event dispatcher | check-then-write by concurrent requests; an HTTP call inside a transaction; restarts |
| Console: live events (`EventDispatcher`, `EventSession`, `WebSocketEndpoint`) | latest state per device, sessions, identities, subscriptions | broadcast, open, token, close, tick, shutdown | claims, event stream, browsers | worker threads overlap; reads used after another thread has moved on |
| Console: MQTT integration (`Receiver`, `Sender`) | none | decode events, encode commands | cloud, dispatcher | conversions |
| Gateway: main loop (`main.rs`) | broadcast channel of 10 | forward a command, Ctrl+C, exit | cloud, both tasks | a channel that drops for slow readers |
| Gateway: gateway task (`gateway.rs`) | none besides its place | publish, send | mesh, cloud | blocked while it waits |
| Gateway: provisioner (`provisioner.rs`) | nodes provisioned within 30 s, two channels of 32 | provision, reset, BlueZ's answers, join | bus, BlueZ, configurator | a loop that sends to itself; shutdown order |
| Gateway: configurator (`node_configurator.rs`) | job, retries, mailbox | configure, reset, send/receive | provisioner, mesh, cloud | lossy radio, retries, answers that arrive late |
| Dashboard: twin connector (`TwinConnector`, `StateHolder`) | socket, pending attempt, known children and states | start, stop, connect, reconnect, onMessage | twin service | three threads over one field; subscriptions across reconnects |
| Dashboard: pages (`Updates`) | per page: sorting, last content, needSend, nextSend | update, tick, open, sort, close | connector, browsers | three kinds of threads over unsynchronised fields |
| Twin: hierarchy (`twin/hierarchy.js`) | annotations and `$parent` of a thing, children of its parent | changed, deleting | twin service | messages up the path in any order; a thing that moves |
| Firmware (`firmware/src`) | button counters, cadence, shared ADC | sample, publish, count | mesh | sharing, wrap-around |
| Converters (`infra/model-converter`, `infra/sensor-model`) | none | encode, decode | cloud | ranges and rounding |
| Web simulator: MQTT client (`js/paho/paho-mqtt.js`) | tables of messages under an identifier, their copies in localStorage, buffer, socket, timers, receive buffer | connect, disconnect, send, subscribe, every packet, reconnect | cloud, browser | exchanges over lost connections and reloads; abandoned sockets and timers; packets in pieces |
| Web simulator: the page (`src/app.rs`, `src/mqtt.rs`) | its form | publishes what the form says | the client | – |
| Console: web page (`webapp/src/app`) | the user, the claim shown, operations, one WebSocket with its timer and token | sign in, claim, release, create a simulator, set the display | claims, live events | answers that overtake one another; reconnects while the token is renewed |

What each must get right:

- **claims**: one device per user; a claim is lost to nothing but its owner's
  release (or the race of section 5); the registry and the table agree, so that no
  simulator device is left that nobody can release; watchers are told first.
- **live events**: an attached session shows the latest state, and no
  state is withheld from it; nothing goes backwards; a closed session leaves no
  subscription.
- **gateway**: no command is skipped in silence; the loops return; a node BlueZ
  added is configured; shutdown joins what it started.
- **configurator**: one job at a time, each ended whatever is answered or lost as
  long as nodes do not go on sending (section 5), and what "provisioned" still
  guarantees.
- **twin connector**: once quiet, what it knows is what the service has; it
  reconnects, and stops for good.
- **pages**: what was rendered last is pushed in the end; pages show the current
  state with their own sorting.
- **MQTT client**: a QoS 1 message arrives, a QoS 2 message arrives once, in the
  order of `send()`, over lost connections and reloads; once disconnected it stays
  so, and a lost connection is made again; packets are written and read to the byte.
- **hierarchy**: a thing stands below the parent it names, and nowhere else.
- **console page**: it shows the claim the server has, holds one live socket, and
  has told it the newest token.

## 2. Modules

| Module | Models | State ↔ code |
|---|---|---|
| `Claims` | console claims | `table` = `claimed_by` by claim id; `registry` = simulator devices in the cloud; `pc`, `target`, `found` = the stack of a request thread; `told`, `failed`, `minted` are history |
| `EventDispatcher` | live events | `version` = `latestState`; `sending` = a thread between `put` and `onNext`; `identity`, `current` = fields of `EventSession`; `sub`, `device`, `view` = the stream a token started; `late`, `twin`, `missed`, `crossed` are history that names the known races |
| `ConsoleServerProof` | proofs about `Claims` and `EventDispatcher` | – |
| `CommandBus`, `Gateway`, `Provisioner` | the tasks of the gateway | `sent`, `gwNext`, `prNext` = the broadcast channel and its two receivers; `provQ`, `confQ`, `events` = the mpsc channels; `provOpen` = BlueZ's end of `events`; `recent` = `provisioned` |
| `GatewayApp` | composes the three | the process: `exited` |
| `GatewayAppProof` | proofs about `GatewayApp` and its tasks | – |
| `Configurator` | abstract: what the configurator promises | the job channel, the job, the published status |
| `NodeConfigurator` | `node_configurator.rs` in detail | `pc`, `step`, `retries` = `send_recv` and `configure`; `inbox`, `others`, `elements` = `element_control`: its device-key messages, how many others, BlueZ's end; `radio` = external; `calm`, `keys`, `wiped`, `heard` are history, kept while nothing is lost |
| `NodeConfiguratorProof` | proofs about `NodeConfigurator` | – |
| `TwinConnector` | the dashboard's twin connector | `socket`, `ws`, `timer`, `connecting`, `client` = the fields; `connect`, `start`, `stop` = where the threads are; `requests`, `news`, `subscribed`, `children`, `latest` = the wire and the service |
| `Updates` | the dashboard's pages | the fields of `Connection`; `at`, `on`, `rendered` = the threads |
| `DashboardProof` | proofs about `TwinConnector` and `Updates` | – |
| `MqttDelivery` | abstract: what MQTT promises of a message | – |
| `MqttSession` | the client's messages and packets | `sentMessages`, `receivedMessages`, `bufferedQueue`, `messageIdentifier`, `sequence` = the fields of `ClientImpl`; `storedSent`, `storedReceived` = localStorage; `toBroker`, `toClient` = the wire; `taken`, `confirmed`, `arrivals` are history |
| `MqttSessionProof` | proofs about `MqttSession` | – |
| `MqttConnection` | the client's sockets and timers | `socket`, `connectTimer`, `retry`, `pinger`, `hostIndex`, `mqttVersion` = the fields; `state`, `hooked`, `greeted` = the browser's sockets, those given up included; `buffered` = `_buffered_msg_queue` is not empty, `disconnectQueued` = the callback of DISCONNECT in `_notify_msg_sent`; `orphans` = reconnect timers no field names any more |
| `MqttWire` | the client's bytes | `receiveBuffer`; `wire` = bytes under way; `handled` = what `_handleMessage` is given |
| `MqttClientProof` | proofs about `MqttConnection` and `MqttWire` | – |
| `Hierarchy` | `twin/hierarchy.js` and the service that runs it | `group`, `annotated` = annotations; `parent`, `children` = `$parent`, `$children`; `inbox` = messages to a thing; `moved` is history: the groups devices have left |
| `HierarchyProof` | proofs about `Hierarchy` | – |
| `LiveState` | `DeviceState` of the console's page | `ws`, `timers`, `currentToken` = `Connection`; `sock`, `toServer` = the browser's sockets |
| `ConsoleApp` | the page around it | `service`, `claim` = the result of `useGameService`; `fetches`, `ops` = requests under way |
| `ConsoleAppProof` | proofs about `ConsoleApp` and the `LiveState` in it | – |

`GatewayApp` uses the abstract `Configurator` for its configurator, and
`NodeConfigurator` is shown to implement the same `Configurator` (`IsConfigurator`;
its fairness on the condition of section 4): the two runs together cover the whole
gateway without the product of their state spaces. The refinement maps every program counter between
taking a job and publishing its outcome to "busy". In the composition the reset
command of the bus is the reset job itself, which is why both are records of the
same shape.

`ConsoleApp` composes `LiveState` with the page's requests: the live view comes and
goes with the claim that is shown, and the token it tells the server is the one
the page has. `MqttSession` is shown to implement `MqttDelivery` in both directions
(`Delivers`): a message is accepted by `send()` or by the broker, taken over by the
other side, and confirmed to its sender. The MQTT client is three modules because
its three concerns share nothing but the moments at which a connection is there
and is gone: `MqttSession` sees these as `Connect` and `Lose`, `MqttConnection`
models what leads to them, and `MqttWire` the bytes of one connection in between.

`TypeOK` (`EventsTypeOK`, `TwinTypeOK`) documents the types of a module's variables; the
runs check it where a proof rests on it (`claims`, `updates`). It holds in the others
too, and can be added to the INVARIANTS of their cfg.

Actions are as coarse as the code allows: a step ends where another thread, task
or machine can see or change something in between. In the console and the
dashboard those are reads and writes of shared fields, database statements and
HTTP calls; in the gateway, every `await`; in the browser and the twin's script,
where one callback runs at a time, a callback.

## 3. Runs

| Run | Question | Bounds, and why they are enough |
|---|---|---|
| `claims` | claims under every interleaving | two users, of whom alice has two tabs and bob is an admin; one board, one unknown id, one simulator. Every race the code has is between two requests; a third thread lets a release run past two claims |
| `claims_takeover` (violation) | is a claimed device safe from other users? | same |
| `configurator` | refinement, and what a calm run guarantees | one node, two configurations and a reset in any order: each job meets what those before it left in the mailbox and on the air, a reset the middle of the configuration after it; a channel of one, element channel and radio of two, so each overflows; three retries as in the code; other element messages and the end of BlueZ at any time. 689,602 states |
| `gateway_app` | the process with every channel at its limit | two nodes; two commands over a bus of one, and channels of one: each lags or fills within two commands; a larger capacity only postpones it; BlueZ may end at any time. 356,018 states |
| `events` | what a session shows | one device, two broadcasters, one session with a first token and a renewal, three versions: enough for two broadcasts to overlap and for a third to set a view right. 269,172 states |
| `twin` | connector against the service | two children, two list changes, two breaks, two states each: a child can leave and come back, also across a reconnect. 521,658 states |
| `updates` | pages | one page (pages share nothing but the threads), two sortings, three states: an update, a tick and a request of the page overlap |
| `mqtt_session` | what the MQTT client delivers | two requests of the application, one message of the broker, three identifiers, two connections lost, one reload, a buffer of one: an exchange is cut at every point, resumed, and cut again, before and after a reload; an identifier is used again. 242,609 states |
| `mqtt_connection` | its sockets and timers | the options of the web simulator, and two hosts with either version, with and without `onMessageDelivered`; buffered messages or none; three sockets, three faults, one timer without an owner: two attempts are given up and still answer the third. 192,033 states |
| `mqtt_wire` | its bytes | strings at both ends of each UTF-8 width; remaining lengths 0, 127, 128, 16383, 16384; four pieces of 1, 2, 5, 130 bytes or all: pieces end in each field and in the length. 7,362 states |
| `hierarchy` | the tree of things | the root, a group, two groups in it, a device with a channel; six requests: everything can be created bottom-up, moved, taken out of its group and deleted. 1,094,593 states |
| `console_app` | the console's page | two devices, three fetches, two operations at a time, two sockets: an answer overtakes another, a renewal meets a reconnect. 228,910 states |

`CHECK_DEADLOCK FALSE` stands where the modelled system really stops: a process
that has exited, a connector that was stopped, pages and sessions all closed, a
client that was disconnected, and at the bounds of the other runs.
`claims` never stops and is checked for deadlock.

The properties that say the most:

- `NoStrandedDevice`: the registry keeps no simulator device that nobody can
  release, apart from requests that failed after their HTTP call and users with
  two requests at once. It needs the order of registry call and commit on the way
  in, and of delete and update on the way out.
- `ToldBeforeFreed`: only true of users without overlapping requests, because the
  second release of a DELETE frees a claim that was made in between and that it
  told nobody about.
- `InSync` (`EventDispatcher`): the exceptions in its hypothesis are exactly the
  two races of the code; without either, TLC finds a violation. `ReachesWatchers`
  adds that outside them no stored state is withheld, wherever the subscription and
  the broadcasts are.
- `IsConfigurator`: its safety holds without condition. That each job ends is
  conditional, for `send_recv` restarts its ten seconds on every element message of
  another kind, and spins once the channel has ended (section 5).
- `AnswersOwed`, `HeardBeforeProvisioned`: the answer to the application key is
  never awaited, so that every configuration is one answer ahead. After the n-th
  configuration "provisioned" vouches only for 6 − n of the six messages, and for
  none if a reset of the node, whose wait another answer has ended, is still on its
  way (`wiped`). TLC finds that case with a configuration before the reset and one
  after it; with any two jobs the property holds without the exemption.
- `GatewayNeverSkips`: the gateway task treats a lag as the end of the channel, and
  with it the whole process ends. It loses nothing silently; the price is the
  process.
- `LoopReturns`: the provisioner's loop sends to a channel it alone empties;
  `SelfBlocked` is that state. `Stranded` is the other: without BlueZ it waits for a
  configurator that does not go on, or, having left by `None => break`, for the end of
  one whose channel it keeps open. The property shows that there is no third.
- `StopsForGood`: exempt is a `stop()` that throws because `connecting` became null
  between its check and its use, with a socket open. If it throws at `ws`, the
  connection is closed already.
- `Settled`: FIFO delivery makes `setRoot`'s difference right even though states
  of children that left are still on the way.
- `Delivers`: QoS 2 once, and confirmed only then, although the packets of two
  connections, two tables and their copies take part in every exchange. It needs
  the clean session to clear both tables and the storage, and PUBREC to be stored.
- `AcksExpected`: the handler of PUBCOMP takes its message from the table unchecked.
  It is right because nothing acknowledges an identifier twice: a message with its
  PUBREC is resent as PUBREL, never published again.
- `InOrder`: exempt are a reload, after which `_sequence` starts at 0 below what is
  restored, and a subscription among the messages resent, whose sequence is
  undefined, so that the comparison is NaN.
- `StaysDown`, `Held`: exempt are abandoned sockets and orphan timers, which the code
  creates itself (section 5); without the exemption TLC finds what they do. So is a
  `disconnect()` that waits with buffered messages whose `onMessageDelivered` takes
  the place of its callback. `Held` is not about connections that a queued DISCONNECT
  ends.
- `Attached`, `NoGhosts`: exempt are the children of a deleted parent, which do not
  register again; the entry of a device in a group it has left, by moving (the
  script's FIXME) or because its annotation was removed; and in the latter case its
  `$parent`, which still names that group. `moved` records which group each left, so
  that an entry anywhere else is a violation.
- `ShowsClaim`: exempt are answers that overtook one another, which the page shows
  in the order they come (`shownBy = started`: the newest fetch was applied last).
  What looks failed to the page was handled before, or never (section 7).
- `TokenCurrent`: `currentToken` is what makes a token that is renewed while the
  socket is down reach the next one.
- `NothingHeldBack`: `sendContent` resets `needSend` before it pushes; the other
  order loses an update.

## 4. Fairness

Liveness is stated only where the code's scheduling gives it.

- tokio tasks and threads that have work do it: weak fairness of the configurator,
  of the bodies of the select arms, of render/keep/send, of broadcasts.
- `tokio::select!` polls its arms in random order, so that an arm that is ready
  again and again is chosen: strong fairness of the provisioner's BlueZ and
  provisioning arms. The command arm needs none.
- Timers fire: ten seconds in `send_recv`, five before a reconnect, a second of
  rate limit. `@Scheduled` ticks reach every page again and again: strong fairness
  of `Tick`, because `needSend` may be off at some of them.
- A job in `GatewayApp` ends while BlueZ is there. In `NodeConfigurator` this is
  what is shown, while the channel of the elements does not end and waits are
  restarted by other messages only so often (`[]elements`, `<>[][~ReceiveOther]`):
  the configurator has each node publish every four seconds
  (`node_configurator.rs:136`), and if such messages reach its own element the
  condition does not hold.
- An attempt to connect ends with one of its two outcomes. A connection that is
  closed from this side is noticed; one that works is never forced to break.
- The MQTT client: the page and the broker handle what has arrived and the client
  keeps connecting (`MqttSession`); the browser's timers fire, a server that is up
  opens the socket and answers, a dead host's socket fails (`MqttConnection`).
  Losses, reloads and faults are bounded, so that a network that is up for long
  enough is what `Confirmed` and `Recovers` speak of.
- Of BlueZ it is assumed that its calls return and, as long as it is there, the job
  that waits for it goes on; it may end at any time. Of the MQTT broker, that it
  handles what has arrived. Nothing is assumed of users, of the radio, or of what
  nodes answer.

## 5. Where the code differs from what it says

`NoTakeover` is a run that TLC ends with a counterexample (`findings` quotes the
lines): two users who claim the same free device at once both succeed; the second
overwrites the first, since the check is made in memory and nothing is locked. What
a claim *can* be lost to is `ClaimSticks`.

The others are in the models, as what the actions do and as the exemptions of the
properties that would otherwise fail.

Console, gateway and dashboard:

- DELETE releases twice (`ClaimResource.java:93`) and answers with the second
  result, so that a release that worked reports `false`.
- `send_recv` takes any device-key message for its answer (`node_configurator.rs:50`;
  to look for the right one is a TODO there). A configuration leaves the answer to its
  application key behind, which ends the wait of a reset after it; the task goes on to
  the next configuration while the reset is still on the air, and the node that
  handles it then forgets the first half of a configuration that is reported as
  "provisioned".
- Any other element message starts the ten seconds of `send_recv` anew without
  counting a retry (`node_configurator.rs:46`): while some node goes on sending, a job
  that waits for an answer does not end. When BlueZ drops the channel, `Ok(None)` is
  returned at once and the loop spins (64).
- `None => break` (`provisioner.rs:124`) leaves the loop without
  `drop(configure_tx)`, as the other way out has it: `join_all` waits for a
  configurator that never sees its channel closed.
- The main loop says it waits for the tasks, but the process ends with it
  (`main.rs:176`).
- `stop()` uses `connecting` and `ws` after it has checked them, unsynchronised
  (`TwinConnector.java:85-90`): if another thread has set the field to null in between
  it throws, and neither the socket nor the HTTP client is closed.
- If `connected()` runs before `connect()` has assigned `connecting`
  (`TwinConnector.java:105`), the field stays set and no later disconnect reconnects:
  the variable `raced`, which `Reconnects` exempts.

MQTT client (`paho-mqtt.js`):

- While it reconnects, an error replaces `_reconnectTimeout` without cancelling it
  (1551): the timer fires later, in the middle of another attempt, whose socket it
  gives up with its handlers on. Such a socket sends a second CONNECT on the next
  (1203) or ends it when it closes.
- `disconnect()` during the first attempt to reconnect throws, because
  `_reconnectTimeout` is null (989), and the reconnecting goes on; between two
  attempts it queues a DISCONNECT on a closed socket, after which `connect()` throws
  for good; while connecting with hosts left, or a version left, it is lost.
- `connect()` during a reconnect throws always (863), although the lines after it
  mean to end the reconnect.
- While it reconnects only the first uri is tried, although the documentation of
  `uris` says that they are tried one at a time in order (1902).
- `_disconnected` ("Remove all non-durable state") keeps `receiveBuffer`: the first
  half of a packet is put before the bytes of the next connection. `MqttWire` begins
  with an empty one.
- A clean session drops QoS 1 and 2 messages sent while reconnecting, and sends the
  QoS 0 ones (1267).
- One message more than `disconnectedBufferSize` is kept (966); identifier 65536 is
  0 on the wire (831), hence `SessionAssumption`.
- `_notify_msg_sent` is keyed by an object, that is by "[object Object]": all messages
  share an entry (957, 1002, 1308). When CONNACK finds a DISCONNECT queued together
  with buffered messages, the result of their `onMessageDelivered` replaces its
  callback: DISCONNECT is sent, but the client stays connected, and reconnects when the
  server closes. Without `onMessageDelivered` the callback is run, and the buffered
  message after it throws, to a second `_disconnected`.
- A CONNACK of an abandoned socket is taken for one of `this.socket`. If that is still
  opening and messages are buffered, sending throws inside the handler, and the client
  is connected and reconnecting at once.
- `receivePinger` is never started.

Hierarchy: a device that moves stays a child of its old group (FIXME at 129); one
whose annotation is removed stays there too, and keeps its `$parent` (71-73);
children of a parent that was deleted never register again (54, 98); an annotation
with a leading slash registers again on every change (78).

Console page: answers of two fetches are applied in the order they arrive
(`backend.ts:162`); after a fetch that failed the page is blank until the token is
renewed (`Dashboard.tsx:234`); a display command that fails hands its error to React
as a child, which takes the page down (`DeviceControl.tsx:31`, the variable
`crashed`).

## 6. Proofs

**Claims** (`ConsoleServerProof`), for any sets of users, requests and ids:
`TypeCorrect`, `OneClaim`, `DeviceGone`, `NothingStranded`, `Sticks`, `ToldFirst`
prove the six properties of the run `claims`. Assumed are only the named
assumptions of the module: admins are users, every thread serves a user, ids,
users and the null values are apart, and a UUID is never one of the boards.

The argument is one inductive invariant. The properties alone are not inductive:
a commit looks at nothing but what its request read earlier. What must be added
is that a fresh id has no row and no other request (`FreshIds`), that rows do not
vanish (`KnownRows`, hence a claim that has found a row finds it at commit), that a
claim under way for a simulator saw it given up in one of the ways the property
exempts (`Abandoned`), and, for users with one request at a time, that a release
holds the only row there is (`OnlyTarget`) and told its watchers (`TargetTold`).
The two action properties follow from the invariant of the state the step starts in.

**Pages** (`DashboardProof`), for any sets of pages and sortings and any number of
states: `TypeCorrect`, `NothingLost` and `PagesInSync`, from `ThreadsAssumption`,
`NoneAssumption` and `ContentAssumption`. `NothingHeldBack` lacks only the
bookkeeping of `Placed`: a thread has a page exactly while it works, the thread of
a page works on no other, and registered pages are open. The core of the argument
is the two halves of `sendContent`: while `needSend` is already off, the thread
itself is the witness that the push is still to come. `InSync` needs `SyncInv`: of a page
that will not be rendered again, every thread between rendering and keeping has the
current content in hand, or the page has it (`Synced`); outside the races there is one
such thread (`OneAtATime`); and an open page is registered (`Registered`).

**Twin connector** (`DashboardProof`), for any children and any number of states, changes
and reconnects: `AllSettled` proves `Settled`, from `ChildrenAssumption`,
`RootAssumption` and `UnlistedAssumption`. The property speaks of the moment when nothing
is under way, and says nothing inductive. `TwinInv` says the same of every moment at which
the connector has its connection, of what things will be once the wire is empty
(`Settling`): the last request about a child decides whether it will be subscribed to, and
these are the children the connector knows (`Aimed`); the root's children are known
unless its news is on the way or the request for it is (`RootComing`, `RootAsked`); and so
is the state of each child (`StatesComing`). An attempt that is under way is the only one
(`OneAttempt`), so that the connection whose wire this is is the one in the field, and a
connection that is not yet there has asked for nothing (`NothingYet`).

**MQTT session** (`MqttSessionProof`), for any number of requests, identifiers, inbound
messages, losses and reloads: `Restored` and `NoStrayAck` prove `Recoverable` and
`AcksExpected`, `Exchanged` proves `Delivers`, `SentOrder` proves `InOrder`. Assumed are `SessionAssumption` (more identifiers than requests) and
`NoEntryAssumption`. The first two are not inductive: a SUBACK for the identifier of a
message would take the message and leave its copy; a second acknowledgement would
meet an empty place. The invariant `SessionInv` adds

- `Flows`: of each identifier at most one packet is under way, a request on one wire
  or an acknowledgement on the other, of the kind its entry waits for;
- `Phase`: the CONNACK is the first packet of a connection, and before it there are
  neither requests nor acknowledgements, so that resending everything starts each
  exchange anew;
- `Fresh`: identifiers in use are no larger than the number of requests, so that the
  search for a free one finds one, and the one it finds has no packet under way;
- `Tables`: what the tables hold.

A step changes a queue at one end and one place of the table; the lemmas `PopBroker`,
`PushClient`, `ChangeEntry` and so on say once what that does to `Flows`.

`Exchanged` is the refinement of `MqttDelivery`: the initial state is the abstract one,
and each step is a step of one message or leaves the promise alone. The broker's half
of the session is the client's turned round: `Flows` holds of its table with the two
wires exchanged (`Mirror`). `DeliveryInv` says which messages were accepted, taken and
confirmed (`History`), and of those in an exchange what entry, packets and the other
side's table know of it, for the client's messages (`Outgoing`) and the broker's
(`Incoming`). What makes QoS 2 arrive once is that the other side holds the identifier
from the moment it takes the message until it is released, and that a PUBLISH may be
sent again only in that time. The broker starts an exchange only when it has a free
identifier.

`SentOrder` compares messages that may be in the client's table, in its buffer, on the
wire or at the broker. `OrderInv` says that sequences are in the order of the messages
(`Sequences`), that of the messages before one that has arrived those that still wait
have arrived too (`Behind`), that while the client is connected a message that has not
arrived is on the wire (`Underway`), and that such messages are on the wire in order
(`Aligned`). The sort of `HandleConnack` restores the last two after a loss.

**MQTT connection** (`MqttClientProof`), for any numbers of sockets, hosts, failures and
orphan timers: `DownForGood` and `ConnectionHeld` prove `StaysDown` and `Held`, from
`ConnectionAssumption`. A handler acts on whatever the client has become, so that the
invariant `ConnInv` is about which of the timers and sockets can still act: a retry is
pending only while the client reconnects, and a connected client does not (`Attempts`);
after a calm `disconnect()` nothing is left that could run, or one socket whose next event
ends it, because DISCONNECT waits with its callback (`Quitting`); and a connection with
no abandoned socket is that of `socket`, whose CONNACK has stopped the connect timer
(`Own`). The lemmas `DoConnectDoes`, `TearDownDoes` and `DisconnectedDoes` say once what
each of the ends of a handler leaves behind.

**MQTT wire** (`MqttClientProof`), for any packets and strings, any number of pieces and
pieces of any length: `WireDeframed` and `WireReadByBroker` prove `Deframed` and
`ReadByBroker`. `StreamsAssumption` and `OutgoingAssumption` say what is sent
(`FromBroker`, `FromClient`): identifiers, the keep-alive, and the lengths in bytes of
strings and of a Will's payload fit two bytes; a packet is shorter than 268435456 bytes,
which is what four bytes of length can say; in a string the first half of a surrogate pair
has its second behind it (`Text`; `stringToUTF8` throws for a half at the end and writes
nonsense for one elsewhere). The protocol sets these lengths; the client checks only that
of the client id, and counts its characters (1775) where the prefix counts bytes.
`OptionAssumption` keeps `Absent` apart from numbers.

- The definitions are recursive functions over sequences. `SeqRecursion` shows that such
  a function exists, by well-founded induction on the length, so that each definition
  satisfies its equation; `ByLength` is the induction that says what it computes. Each uses the set of the arguments for
  which the claim holds, since the induction theorems of the library that take an
  operator cannot be instantiated.
- `StringsReadBack`: `UTF8Length` counts the bytes `stringToUTF8` writes, and `parseUTF8`
  gives back the string, for each width of a character. `RemainingLength`: the bytes of
  `encodeMBI` end with the first below 128 and their value is the length.
- `BrokerSound`: each packet of the broker is decoded as what was sent, from a frame that
  is as long as it announces. `CutAnywhere` then says what `_deframeMessages` makes of
  any first part of a stream, by induction over the packets in it.
- `StreamInv` is the invariant behind `Deframed`: what has been sent and not handled is
  what `receiveBuffer` and the wire hold, and `receiveBuffer` holds less than a packet of it.
- `WireReadByBroker` needs no history: what is written in a step is `Encode` of the packet
  (`WrittenInv`), and each kind of packet can be read by the rules of MQTT (`Legible`),
  because the length added up before is the length of what is written after.

**Console page** (`ConsoleAppProof`), for any sets of sockets and devices and any numbers
of fetches, operations and tokens: `LiveSocket`, `NewestTold` and `ClaimShown` prove
`OneLiveSocket`, `TokenCurrent` and `ShowsClaim`, from `LiveStateAssumption` and
`ConsoleAppAssumption`, with an invariant each. `LiveInv` adds what a pending timer means:
`DeviceState` is mounted and its socket is closed. `ToldInv` says that the last token on
its way to the server of an open live socket, or the one the server has if nothing is on
its way, is `currentToken`. `ClaimInv` is about the answer to the newest fetch, under way
or shown: it is right, or an operation that was carried out has yet to be answered to
the page, and that answer will make it fetch again (`NewestRight`).

**Live events** (`ConsoleServerProof`), for any numbers of devices, broadcasting
threads, sessions and tokens, and any bound on versions: `AlwaysInSync`,
`ViewsAdvance`, `CloseCancels` and `OnlyOneStream` prove the four safety properties of
the run `events`. Assumed are `SessionOfAssumption` and `NoneAssumption`. There are two
arguments. About views: a state in flight is the latest one unless broadcasts have
overlapped (`Flight`), and a view that is behind waits for one in flight, has
missed one, or is of a device with an overlap (`Current`); a view starts at nothing
(`Unread`), so the first reading cannot go back. About subscriptions: of two tokens that
both found no identity each is a twin (`Twins`), an active subscription that is no twin
is the one its open session knows of, and a token still being checked when its session
closed is late (`Known`). The second argument gives the first one the fact it lacks:
a token that is about to subscribe has no subscription yet.

**Gateway** (`GatewayAppProof`), for any numbers of nodes and commands and any
capacities of the channels: `TypeCorrect`, `NeverSkips` and `JoinsCleanly`, from
`BusAssumption` and `ProvisionerAssumption`. The tasks meet only at channels, so that
there are two invariants and each step changes what one of them speaks of: `GwInv`,
that the gateway task has read no further than what was sent, and `PrInv`, what the arm
of the provisioner's select has in hand (`InHand`), and that its configurator ends with
its channel closed and empty (`Ended`).

**Node configurator** (`NodeConfiguratorProof`), for any numbers of devices, jobs and
retries and any capacity of channel, mailbox and radio: `Owed` and `Heard` prove
`AnswersOwed` and `HeardBeforeProvisioned`, and `SafeConfigurator` the safety part of
`IsConfigurator`, from `ConfiguratorAssumption`. The refinement needs little: what the
program counter says of the job in hand (`Placed`). What "provisioned" still guarantees
needs more: in a calm run each message that was sent has reached the node or is on the
air (`Traced`), and no more messages are on the air than answers are owed, which
`AnswersOwed` counts.

**Hierarchy** (`HierarchyProof`), for any groups, devices and channels and any number of
requests: `AllAttached` and `NothingElseListed` prove `Attached` and `NoGhosts`, from
`HierarchyAssumption` and `NoneAssumption`. Both speak of the moment when no message is
under way. The invariant says the same at every moment, of what the `$children` of a thing
will be when its messages are delivered: the last message about a child decides
(`Listed`). What has registered will be listed by its parent (`Registered`), what will
be listed belongs there (`Belonging`), and delivering a message changes neither. A
message creates the thing it is for, so that it must be known of what does not exist
that it has no state (`Absent`).

Only model-checked: the liveness properties, and with them the fairness that
`IsConfigurator` asks for, which are out of the prover's reach. Every invariant of
a passing run is also proved.

Some names carry a prefix (`TwinSpec`, `EventsSpec`, `WireSpec` beside `Spec`): one proof
module extends both halves of the dashboard, one both halves of the console's server, and
one two parts of the MQTT client.

## 7. Assumptions about what is outside `src/`

- The database runs at READ COMMITTED; the entity has no version column; Hibernate
  writes at commit; the bulk update is one statement; the index on `claimed_by` is
  unique.
- A registry call succeeds, fails, or is carried out with its answer lost.
- BlueZ tells of a node it was asked to add once, and its `add_app_key` returns
  before the node has the key; the node's answer arrives as a device-key message.
- A closed Vert.x `HttpClient` closes the sockets it has made and makes no others.
- The twin service answers the requests of a connection in order, tells of every
  change after, and forgets a connection that breaks.
- The emitter of a broadcast delivers in the thread that sends. A Java field
  written by one thread is read by the next: the memory model's weaker outcomes
  for unsynchronised fields are not explored.
- The MQTT broker keeps a session that is not clean, answers on the connection it
  was asked on, takes a QoS 2 message over when its PUBLISH arrives, and ends a
  connection with no CONNECT, or two. Packets of a connection stay in order and are
  lost with it.
- A browser runs one callback at a time, calls a socket's `onclose` after `onerror`,
  and throws on `send` while it opens. `localStorage` has room.
- The service that runs the hierarchy script delivers its messages to a thing in
  their order, and creates a thing that a child registers with.
- React runs the effects of a render before the next; what the console's server does
  with a request is one step here, and in detail in `Claims`. A request that looks
  failed to the page was carried out before that, or never is: one that the server
  commits later, after the page has fetched again, is not in `ConsoleApp`.
- The container has stopped the event stream and the HTTP threads before
  `@PreDestroy`, and the five seconds before a reconnect are longer than
  `connect()` takes to return.

## 8. Not modelled, and why

- `DeviceClaimService.deleteClaim` and `Registry.createDevice` have no caller; the
  ping of `Updates.tick` needs `nextSend` to be thirty seconds ahead, which it
  never is.
- The callbacks that end the gateway process when an MQTT reconnect fails: a kill
  of a process that persists nothing.
- In `MqttConnection`: `cleanSession` is on, so that nothing is resent at CONNACK but
  what is buffered; packets the broker sends on its own account, whose answers would
  run a callback that a `disconnect()` left behind when it threw.
- Layout of tables, formatting of messages, logging.
- In the browser: layout, routing, the dashboard's page script, the sensor values a
  device state shows, the simulator's form. In the MQTT client: the trace buffer,
  checks of arguments, malformed input (which throws and ends the connection).
- Deployments, pre-provisioning, the OPC UA bridge, the mesh simulator of
  `infra/simulator` (a development tool). The btmesh and twin operators are not in
  this repository.
- The components marked `not_modelled` in `PROJECT.json` that section 9 plans.

## 9. Plan

Order: what loses or mixes up users' devices first, then what loses messages, then
what merely shows them.

1. *Done*: `Claims` with its proofs, `Configurator`/`NodeConfigurator` with its proofs,
   `CommandBus`/`Gateway`/`Provisioner`/`GatewayApp` and `EventDispatcher` with their
   proofs, `TwinConnector` and `Updates` with their proofs.
2. *Done*: `MqttDelivery`/`MqttSession`, `MqttConnection` and `MqttWire` with their proofs,
   `Hierarchy` and `LiveState`/`ConsoleApp` with their proofs.
3. `Node` (firmware): cadence loops over a shared ADC, the button's transaction
   number (a `u8`), a display that is interrupted; property: no two measurements
   overlap, a number identifies a press among the last 256.
4. `SensorModel` (pure): the converter and the sensor model as operators over
   bounded inputs, checked against each other as round trips with their real widths;
   with the console's `Receiver` and `Sender`.
5. `MqttWire` with several connections and the `receiveBuffer` that outlives them.
6. `EventDispatcher`: claims from `Claims` instead of an arbitrary `Reclaim`.
