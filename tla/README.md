# EditorP2P: TLA+ specifications

Specifications of the shared Geometry Dash editor in this repository: what the
host and its peer do to their two levels, registries, locks and roles while they
build together; how their sessions begin, end and notice each other's silence; what
the bytes between them carry; and how the host's room is reached from outside. Line numbers below are of `src/core/SessionManager.cpp` unless
another file is named.

## 1. The system

One process per player, two players: a **host** (player 0) and one **peer**
(player 1). Each runs the editor, hooks on it, a `SessionManager` and an
`ObjectRegistry`; a TCP connection carries framed messages between them.

| Component | State | Operations | Talks to |
|---|---|---|---|
| `ObjectRegistry` | `m_byId`, `m_byPtr`, `m_fingerprints`, `m_nextId`, under one mutex | register, bind, find, find by likeness, update fingerprint, remove, clear | called by the session and the hooks |
| `EditorHooks` | primed flag, scan timer, nesting depth of `createObject` | hooks on create, remove, select, deselect, scale/rotate/transform; `smTick` every frame | the editor below, `SessionManager` above |
| `SessionManager` (editing) | `m_objectLocks`, `m_heldLocks`, `m_baselineLocalObjects`, `m_nextTempId`, `m_applyingRemote`, the half-received snapshot | `onLocalObject*`, one handler per message, snapshot and resync, `setPeerRole` | hooks, registry, `EditorBridge`, transport |
| `SessionManager` (lifecycle) | `m_session` (Idle, Hosting, Joining, Connected), transport, listener and accept thread, dispatch queue, heartbeat times | `startHost`, `joinAsPeer`, `disconnect`, `tick`, `drainQueue`, hello handlers | transport callbacks post into the queue; `tick` drains it on the main thread |
| `WinSocketTransport` | socket, `m_running`, `m_connected`, receive thread | start, stop, send, `recvLoop` | callbacks on the receive thread |
| `MessageCodec`, `Message`, `StringUtil` | parser state and buffer | encode, `feed`, one codec per payload | session, transport |
| `EditorBridge` | remote presence, cursor | apply a remote placement, edit, deletion | the editor |
| `Permissions` | none | `permissionsForRole`, bit masks | every handler's guard |
| `BoreRelay`, `HostLayer` | control socket and thread, `m_running`; relay address and join code | start, stop, control loop, bridge threads; host and stop buttons | relay server, main-thread queue |
| `Discovery`, `JoinLayer`, `JoinCode`, `Endpoint` | sockets, threads; none | LAN broadcast and scan; text formats | UI |
| `ObjectLockManager`, `Heartbeat`, `OperationPlayback` | lock table; times; none | not called by the session | tests only, or nothing |
| `ActivityLog`, `EditorOperationRecorder` | bounded logs | add, clear | everyone |
| `PresenceRenderer`, other layers | cursor sprites | update, cull | `EditorBridge` |

What is hard here:

* **Two writers, no acknowledgement.** Every local change is applied at once and
  announced afterwards; messages of the two clients cross. Ids are handed out on
  both sides (`m_nextId`, `m_nextTempId`) and repaired by `canonicalPeerObjectId`.
* **Pointers as identities.** The registry keys objects by address, the editor
  replaces objects when it scales, rotates or undoes, and the hooks recover an
  id by looking for similar content.
* **Hooks fire for remote changes too**; only `m_applyingRemote` keeps them quiet.
* **Objects the hooks never see** (paste, undo, drags) are found by a scan against
  a baseline, or not at all until deselection.
* **Snapshots** are chunked, and every session may end between two chunks.
* **Threads**: receive, accept, relay and discovery threads hand events to the
  main thread; an event may outlive the object that posted it.
* **Connections break**; `disconnect()` resets some of the state and keeps some.

Per component, the properties that make it correct:

* registry: a two-way map without stray entries, and ids that are never reused;
* live editing: the other client's level follows, in order, exactly once and on the
  right object; the levels agree once messages have arrived;
  no registry entry outlives its object; no lock is kept by nobody; a viewer
  changes nothing; a snapshot yields the host's level;
* lifecycle: events stay in the order of the sessions they come from; no socket is
  forgotten; a join is answered; a lost peer is noticed, a live one is not dropped, and
  nobody stays in a session alone; one peer record;
* relay: stopping it returns; a popup is retained exactly as often as it will be
  released; nothing is called on a freed one;
* wire: every message is handed over once and in order however the bytes are cut;
  decoding inverts encoding; every invitation leads to the room.

## 2. Modules

| Module | Stands for |
|---|---|
| `ObjectRegistryOps` | every method of `ObjectRegistry`, and `recoverNetworkId`, as operators on a registry record |
| `ObjectRegistry` | one registry under any order of its callers' calls; the editor's own creations and replacements |
| `Permissions` | roles and their flags |
| `EditorSync` | the composition: two editors, two registries, locks, roles, two message queues; one action per hook and per message handler |
| `SharedLevel` | abstract: one level, one watcher's view of it, the changes the watcher has not seen |
| `LiveSync` | `EditorSync` while one client writes, and the refinement mapping to `SharedLevel` |
| `SessionLifecycle` | start, join, hello, rejection, disconnection; transports with their receive threads, accept thread, event queues; resets and crashes |
| `Heartbeats` | the timed part of `tick`: pings, the wall clock timeout, stalls, delays, leaving the editor |
| `MessageCodec` | text helpers, payload codecs, frames, both decoders |
| `Invitation` | join codes, addresses, base64url, LAN datagrams, the scan, what Join makes of the typed text |
| `Wire` | extends `Invitation`, which extends `MessageCodec`: an invitation, then a stream cut at any place, read by `recvLoop` and by the incremental parser |
| `Relay` | `HostLayer`'s popups, `BoreRelay`'s control thread and bridges, the LAN broadcaster, callbacks through the main thread's queue |
| `ObjectRegistryOpsProofs`, `ObjectRegistryProofs` | lemmas per method; theorems about `ObjectRegistry` |
| `EditorSyncProofs` | the inductive invariant of `EditorSync` and the theorems that follow from it |
| `EditorQueuesProofs` | extends it by what is under way: roles, snapshots, ids that dangle, locks that nobody gives up |
| `LiveSyncProofs` | extends it and `LiveSync`: the refinement of `SharedLevel`, that the levels converge, and that locks are released |
| `SessionLifecycleProofs` | the inductive invariants of `SessionLifecycle`, a lemma per action, and its theorems |
| `HeartbeatsProofs`, `RelayProofs` | the inductive invariants of `Heartbeats` and `Relay`, and their theorems |
| `MCObjectRegistry`, `MCEditorSync`, `MCLiveSync`, `MCSessionLifecycle`, `MCWire`, `MCRelay`, `MCHeartbeats` | instances for TLC |

### EditorSync and the code

Each variable is a member or an editor's state, per client (`Host`, `Peer`):

| Variable | Code |
|---|---|
| `obj`, `sel` | the level's objects by address, the selected object |
| `reg` | `ObjectRegistry` |
| `base` | `m_baselineLocalObjects` |
| `held`, `locks` | `m_heldLocks`; the host's `m_objectLocks` |
| `role`, `myRole` | the role in the host's `PeerRecord`; the peer's `m_session->myRole()` |
| `nextTempId` | the peer's `m_nextTempId` |
| `chan` | bytes under way, in the socket, in the receive thread or in `m_queue` |
| `conn`, `link` | the session is Connected; `m_controlTransport->isConnected()` |
| `snap` | `m_snapshotEntries`, `m_snapshotTotalChunks`, `m_snapshotChunksReceived` |

Hooks and handlers all run on the main thread, so each is one action with
everything it calls: `LocalPlace` is `createObject`, its hook,
`onLocalObjectPlaced`, the send (or the failed send's `removeByObject`) and the
fingerprint refresh. `Discover` is one scan of `discoverUnsyncedObjects` over all
objects, in any order of the objects. `HandleStateSnapshot` collects a chunk and,
for the last one, is `applyStateSnapshot` as a whole, including the removal hooks
it triggers while it drops untracked objects.

Abstractions, and what they leave out:

* An object's type, transform and save string are one *content*. `Fp` makes a
  fingerprint of it, so two objects look alike exactly when their contents are
  equal. The tolerance and the unknown types of `findLikelyNetworkId` are explored
  in `ObjectRegistry`. Rounding of floats in the codecs is left out.
* At most one object is selected. Multi-selection repeats the same calls per object.
* The hello exchange and the priming of the baseline are one step, `Connect`: before
  it neither client sends anything about objects.
* `m_applyingRemote` is not a variable. A handler sets it around its calls into the editor, and every
  `onLocalObject*` tests it first; so the hooks a handler triggers send nothing in the model (looking up an id, which
  a hook does before, is part of the handler). That they are silent is read from the code, and no property is about it.
* A registry entry whose object is gone names no editor object: the code would follow
  a stale pointer there. `NoDangling` says when it cannot happen.
* A snapshot creates objects at addresses that no entry names.
* A chunk holds `ChunkSize` objects in the order of their ids; the code fills 60000 bytes in
  the order of a hash map.
* `m_knownLocalObjects` is written and never read, and is left out, as are presence,
  heartbeats, logs and the save request.
* A broken connection (`LinkDown`) delivers a prefix of what was under way in each
  direction and then the end-of-stream event.
* `IdBase` is 2^24 in the code; the shift and the mask are division and remainder by it.
  The counters stop below it.

### SessionLifecycle and the code

`EditorSync` takes the beginning and the end of a connection as single steps; here they are
what the threads make of them.

| Variable | Code |
|---|---|
| `state`, `transport`, `queue` | `m_session`'s state, `m_controlTransport`, `m_queue`, per program |
| `acceptor`, `backlog` | the accept thread and the listening socket's queue |
| `end` | per connection and side: `m_running`, `m_connected` and where the receive thread is |
| `wire` | frames not read yet |
| `records` | `m_peers` of the host's session |
| `joiner`, `key`, `reset` | who made a connection, with which session's key, and whether the network tore it down |
| `sessions`, `era`, `lost`, `faults` | history and the count of faults |

The main thread takes one event per step although `drainQueue` takes them all: the queue is
swapped out first, so an event posted meanwhile comes after the others either way. `stop()`
joins the receive thread, and `recvLoop` tests `m_sock` while `stop()` sets it: whether the end of
the connection is still posted is a choice (`LastWords`). The heartbeat timeout is possible at any
time here, for clocks may be set and programs suspended; `Heartbeats` says when it is right.
A join that cannot connect leaves everything as it was and is no step.

### Heartbeats and the code

`accum` is `m_heartbeatAccum`, which adds up the frames' own times and stands still where
no frame is drawn; `quiet` and `shift` are what `Clock::elapsed(m_lastHeartbeatMs)` would find: the
time passed since, and by how much a clock was set. `inbox` counts what `m_queue` holds, since
among heartbeats order has no effect. `tick` is one function of all this in the order of the code: drain, ping,
timeout. `pass` lets time pass, but neither past the delay of a message nor past the longest
stall of a client's frames. The interval is positive, as in the code: with none, the accumulated time would have no use.

### MessageCodec, Invitation, Wire and the code

Texts are sequences of character codes and a frame header is three cells. Bytes that are
no frame of this program stand for other programs on the port. The six message types are those whose
contents decide what arrives, and the heartbeat for all others. Floats, signs
and overflow of numbers in texts are left out; the letters of base64url are codes of their own (200 to
263). The control codec of `SessionManager` only sees what the first decoder
rejects, one whole frame at a time.

### Relay and the code

`thread` is the place of `controlLoop`, `owner` the popup whose callbacks it holds, `sock` and
`running` are `m_controlSock` and `m_running`. `stop()` runs on the main thread in three
steps (`onDisconnect`, `closeControlSocket`, `joined`), as the control thread runs beside it. `retains`
is what `HostLayer` itself adds to the popup's count with `retain` and takes from it with `release`; a closed popup
is freed when it is not positive. `due` is how many callbacks the current frame has still to call: a frame
takes what is queued and calls it one callback per step, before anything else on the main thread, while the threads may
queue more for the next frame. `died` records where the process would end: a joinable `std::thread` that is
assigned over, or a callback on a freed popup. A socket closed by both threads at once is closed once.

## 3. What is checked

`Ops` says which operations each user performs in a run; handlers and deliveries are
always on. Users act only while fewer than `MaxChan` messages are in flight, so replies
and snapshots can exceed it.

| Run | Question | Users | Bounds |
|---|---|---|---|
| `ObjectRegistry` | Are the maps inverse, the ids fresh, after any calls? | all methods, replacements by the editor | 3 pointers, 3 fingerprints (two within the tolerance, one of unknown type), host ids 1-3, foreign id 17 |
| `LiveSync` | Does a watcher see the writer's level? | the writer (either client) places, edits, replaces, deletes, pastes, selects | 2 addresses per client, 3 contents, 2 ids, `MaxChan` 2 |
| `BothBuild` | Do two builders converge? | host places, edits, deletes, pastes, selects, drags; peer places, pastes | 3 addresses, 3 contents, 2 host ids, 1 peer id, `MaxChan` 2 |
| `Resyncs` | Does a snapshot bring two different levels together, whatever broke before? | host places and deletes on and off line, pushes; peer requests; either disconnects; the link breaks | up to 1 object each at the start, 3 host ids, chunks of 1, 2 sessions |
| `AllTogether` | What holds whatever the users do? | both clients place, replace, delete, select; peer pastes; host pushes, changes the role; disconnections | empty levels at the start, 2 addresses, 1 content (all objects look alike), 1 id per client, `MaxChan` 2 |
| `Lifecycle` | Do sessions begin and end as they should, whatever the threads do in between? | host and peer start, join (right or wrong key) and leave | 2 sessions each, 2 connections, a backlog of 1 (as in the code), 1 fault: a reset, a crash or a failed `accept` |
| `Heartbeats` | Is a reachable partner kept and a silent one dropped? | the host may leave the editor; the peer's clock may be set once | interval 1, timeout 4 (the code's ratio), delay 1, stalls up to 1 (host) and 5 (peer, beyond the timeout), clock set by 1 |
| `Wire` | What arrives, and which invitations lead to the room? | one invitation, one script | 4 rooms (plain, name with `\|`, LAN address, address with colons), 6 ways of telling, 13 sequences of datagrams; 28 single messages with awkward texts and 5 scripts with foreign bytes; every cut |
| `Relay` | Are popups released and does Stop return? | Host, Stop, opening and closing popups | 2 popups, 2 presses of Host, 1 bridged connection |
| `ClaimDelete`, `ClaimExclusiveLock`, `ClaimEmptySnapshot` | see section 5 | | |

Two objects are the least for a message to reach the wrong one, two addresses beyond them
let the editor move or replace an object; three contents leave one to edit to while two objects
differ; two messages in flight are the least for them to be lost or overtaken by an
operation of the other side; two sessions are needed to carry state from one to
the next. Two connections and two sessions let an event outlive the connection and the session
it came from; a second peer adds only another name for whoever connects second, since
one that connects while the first is connected is refused in either case. One fault makes either end
of a connection fail at each point. The second press of Host meets whatever the first left of
thread and callbacks. A stall beyond the timeout on one side and brief ones on the other show both sides of
`NoFalseTimeout`'s condition: the peer satisfies it, the host, whose partner stalls, does not (what the condition means
for the host is proved). With one content and all operations, `AllTogether` trades size for every collision of
look-alikes: one id per client and one session are enough for a message about an object that is gone, a lock request
that arrives after the deletion, and a snapshot that meets objects the peer pasted. Addresses of one client are interchangeable, which the runs without liveness use as a
symmetry. The session may stop when every bound is used up, so deadlock is not checked.

Properties:

* `RegistryInverse`, `RegistriesInverse`: the maps of a registry are inverse, and every
  fingerprint belongs to a registered id. `IndInv` adds that the counter is above all host ids.
* `IdsNeverReused`: the counter never goes back and new host ids come from it.
* `IdsHandedOut`: every id in a registry, in a collected snapshot, in the host's `m_heldLocks` or in a message about an
  object, a lock request and an unlock included, was handed out by one of the two counters. One way to an id that
  was not is named: `handleLockRequest` makes one of an id the host has deleted meanwhile. It stays among the locks, the
  answers to requests and the peer's `m_heldLocks` (there also with the owner's bits cut off), and is always what
  `canonicalPeerObjectId` makes of an id that was handed out.
* `WatcherCatchesUp`: refinement of `SharedLevel` with its fairness: changes arrive in order, once, on
  the object they name, and all of them arrive.
* `ScanFinds`: an object the hooks missed is registered or deleted eventually.
* `NoDangling`: no id of a connected client names an object that is gone.
* `ConvergedUnselected`, `Converged`: with nothing in flight the shared levels are equal (but for a
  selected object that is being dragged).
* `SnapshotExact`: after the last chunk the peer has as many objects as the chunks hold and none without an id, and those of
  the last chunk are as they are in it, provided its registry has no dangling entry and no untracked object of its own
  looks like a registered one. What the earlier chunks said of their objects is compared only through `Converged`
  and `ResyncCopiesAll`.
* `ResyncCopiesAll`: under the same condition, once the last chunk is applied and nothing else is under way, the host
  has no object the session does not know and the peer's level is the host's; also when an object was placed off line
  or could not be sent before the link broke, which the next session's baseline takes for known and no scan finds.
* `NoLeakedLock`: with nothing in flight, a lock of the peer at the host is known to the peer.
* `RolesAgree`, `ViewerChangesNothing`: host's and peer's idea of the role agree unless a change is under way; from the
  moment of the demotion, operations already sent included, nothing a viewer sends changes the host's level or takes a lock
  (an unlock, which nobody's permission is asked for, may still remove one).
* `EventsInSessionOrder`: nothing an old session's threads post comes after an event of a later one.
* `NoForgottenSocket`: a socket that is not closed waits for `accept`, is in the event queue, or is
  the current transport's.
* `SecondRecordNeedsLostEnd`: `m_peers` gets a second entry only after a connection whose end nobody was told
  of. (`endsOfCurrentOnly`, the plausible repair that ignores ends of old connections, breaks it.)
* `AnswerGoesToAsker`: a hello is answered on its own connection, unless that one was replaced with its end queued
  or lost.
* `JoinAnswered`, `NobodyStaysAlone`, `PlaceIsFreed`: a join does not hang while the accept thread lives; a program whose
  partner is gone gets it back or leaves, because the end of some connection reaches it, without the timeout's help; a
  connection that was left frees the room's place. In two cases nothing reaches it and only the timeout is left
  (`LeftToTimeout`): at the host, after the end of the connection it had let in was told to nobody and a later one was
  rejected; at a peer that was let in by the answer to an earlier join of its own, while the accept thread has ended
  and nobody will ever read its connection.
* `NoFalseTimeout`: a partner in its editor and reachable is never dropped, if the client's first wait, interval, the
  partner's stall, delay and clock change together fit into the timeout. The first wait is the host's: it counts from its
  answer to the hello, and the peer's first interval begins when that has arrived. The client's own stalls do not count, because the queue is
  drained before the timeout is tested (`testsFirst` is the mutant). `SilenceIsNoticed`: a cut
  connection is given up within the timeout, the clock change and two stalls.
* `HandledAsSent`, `EmittedAsSent`: both readers hand over each message once, in order, as soon as its last byte is there;
  `recvLoop` up to the first foreign bytes, the parser also behind them (but for oversized frames).
* `ArrivesIntact`: a message is decoded to what was put in, *exactly* when its texts survive the
  delimiters: no `|` in the names of hello and hello_ack, no empty name and none that ends in `|` in a presence update,
  no save string that ends in `|`, no empty chunk.
* `InvitationLeads`: every way of telling the peer leads to the room, except a bare key where the host's name holds
  a `|` or an older datagram of the same host is heard first.
* `RetainsMatch`, `LayersAreReleased`: a popup's retains are what will still be released, and are
  released in the end; except where Host was pressed while a relay was still running or reporting (one too many), or
  Stop cleared the address of a tunnel whose end was still to be reported (one too few).
* `CrashesOnlyWhen`: the process ends on Host only after a session that was lost rather than stopped, and on a freed
  popup only in the callback of a tunnel's end or after such a Stop.
* `AnnouncesThisSession`, `StopReturns`: the LAN is told the key of the session there is; Stop returns.

**Fairness.** `LiveSync` assumes weak fairness of the handlers and of the scan of each client: `smTick` is
scheduled every frame, calls `tick`, which drains the whole queue, and scans every 0.15 s while connected. Users
are under no obligation, and no liveness is claimed across broken connections. `Lifecycle` assumes weak fairness of each
main thread's queue, of each receive thread and of the accept thread: `tick` runs every frame of
the editor and four times a second in the popups, and a thread with something to read reads it. This takes for granted that
the editor or a popup of the mod stays open; who closes both handles nothing, which `Heartbeats` models. The
timeout may happen at any time but is under no obligation, so no liveness property rests on it; that it comes in time is a
safety property of `Heartbeats`. `Relay` assumes that threads run, that every wait of the control thread ends (ten seconds for the answer
to its hello, after that with its socket), and strong fairness of the main thread's queue, which the frame loop empties
completely whenever the main thread is not inside Stop.

**What the instances exclude, and why.** Convergence does not hold for every mix of operations; the runs
that check it are restricted to these users for a reason:

* *The peer edits or selects objects of the host*: commits cross and swap contents; a peer that only
  deselects sends the content it had (`release`), overwriting what the host did meanwhile. No handler asks for a lock.
* *The peer works while a snapshot is under way*: its placements are removed by the snapshot and kept by the host.
* *The role is taken away while operations are under way*: the host drops them, the peer is not told.
* *A viewer deletes objects*: the editor removes them, the registry keeps the pointers (`onLocalObjectDeleted` returns
  first), and a later snapshot does not restore them.
* *The host deletes an object the peer has locked*: `m_objectLocks` keeps the lock.
* *The peer is resynchronised while it holds a lock*: `applyStateSnapshot` clears its `m_heldLocks`, the host keeps the lock.
* *The host selects and the peer deletes*: the refusal of a request for a deleted object is taken for the host's object
  with the same low bits (`handleLockReply` looks the id up like every other), and the peer forgets that lock.
* *A drag with a lock that was not granted yet* is never committed, and a grant that comes after the deselection stays:
  no unlock was sent, and the peer holds the lock until the object is selected and deselected again. `NoLeakedLock` does not
  object, for the peer knows of it.
* *Look-alikes*: an untracked object that a hook meets takes the id of a registered object with the same content.

## 4. What is proved

With TLAPS, for every value of the constants:

* `ObjectRegistryOpsProofs`: each method preserves `RegistryOK` (types and inverse maps), with what it adds to the ids and the
  counter. Needed are the types of the arguments and, for `registerObject`, that `nextId` is nobody's id.
* `ObjectRegistryProofs`: `TypeCorrect`, `AlwaysInverse`, `Inductive`, `FreshIds`. `RegistryInverse` alone is not inductive:
  `registerObject` would break it if `m_nextId` were registered already. `IndInv` adds `IdRange`: an id is below
  the counter or came from another client; `IdsAssumption` (foreign ids are not host ids) is what
  `canonicalPeerObjectId` and `IdBase` provide.

* `EditorSyncProofs`: `SessionTypes`, `SessionRegistries`, `SessionIds` and `ViewerIsPowerless`, for any heap, contents, levels, operations, chunk size and bounds.

The inductive invariant of `EditorSync` is `SyncInv`:

* `EditorsOK`: levels and baselines are maps over each client's addresses; a selected object exists, and it is the only one.
* `RegsOK`: each registry is `RegistryOK`, and the counters are within their bounds. *All its ids are handed out.*
* `LocksOK`: types of the lock tables, the roles and the connection.
* `MailOK`: each queue holds messages the code can send, whose ids were handed out (in the answers to lock
  requests, handed out or made of one that was), and *a placement on its way to the host carries an id of the peer's range*.

`RegistriesInverse` is not inductive alone. `registerObject` is only harmless when `m_nextId` is nobody's id. That
follows from the two parts in italics: ids below `IdBase` in any registry are below the counter, and what
the host binds for the peer is in the other range. `IdsHandedOut` needs the same: without it
`canonicalPeerObjectId` would move a host id in a placement into the peer's range and so invent an id. What `IdsHandedOut`
says of the lock tables is `LockTableOK`, invariant on top of `SyncInv`: it needs that every lock request under way
names an id that was handed out, and that ids once handed out remain so (`StepGrows`). The proof has a
lemma per action; what a method does to the registry comes from `ObjectRegistryOpsProofs`. `SyncAssumption` is what it
assumes of the constants: finitely many addresses, well-formed levels, and counters that end below `IdBase` (the code
does not check that either).

* `SessionLifecycleProofs`: `LifecycleTypes`, `LifecycleOrder`, `LifecycleSockets` and `LifecycleAnswers`, for any
  number of peers, connections, sessions and faults (`LifecycleAssumption`: the host is no peer, the bounds are numbers).

The four need each other. An event is appended in session order because the thread that posts it belongs to the
current transport; it does because an end whose thread runs is neither in the backlog nor waiting in the queue, and
`NoForgottenSocket` leaves only the transport. That in turn needs that a connection waits once, that its adoption is the only
event about it so far, and that numbers of connections are not used twice. `SessionInv` states all of this:

* `Numbered`, `UnmadeOK`: connections are numbered as they are made, and the others have no ends.
* `QueuesOK`: events in a queue are of the program's own connections, in session order, and an adoption stands alone.
* `TransportsOK`: a transport exists in a session only, was made in it, and was started.
* `WaitingOK`, `SocketsOK`: a connection in the backlog or with its adoption queued is open and untouched; every other
  end that is not closed is its program's transport.

`LifecycleAnswers` needs `EndsOK` besides: nothing about a connection follows its end in the queue, and a frame whose
connection is no longer the transport has that end behind it, or the end was lost. Each stop of the transport keeps
this, because what the receive thread had not posted yet is either its last words or lost.

* `EditorQueuesProofs`: `RolesAreAgreed` and `SnapshotsRebuild`, from the same `SyncAssumption`, `NothingDangles` and
  `LocksAreReleased`.

`RolesAgree` speaks of the moments without an announcement under way, so its invariant `RolesInv` says what holds
in the others. `RolesTold`: while both are connected, the end of the session is on its way to the peer, or the link stands
and the role the host keeps is the one in the *last* announcement in the peer's queue (or the one the peer has, where none
is queued). `QueuesClosed`: nothing waits for a client without a session, so a new session begins without an old
announcement. The link is part of it because an announcement that cannot be sent changes the host's record all the same.

`SnapshotsRebuild` is `SnapshotExact` for every level and chunk size. What the peer has collected and what is still in its
queue must fit together: `StreamOK` says that a chunk which is not the first follows its predecessor, in the queue or in `snap`,
and that the entries before it are as many as full chunks hold, under smaller ids. A half-received snapshot of an earlier session does
not violate it, because a new session's first chunk starts over. Two lemmas do the rest: what cutting a level into chunks by rank
yields (`ChunksCut`), and what `applyStateSnapshot` makes of a sound registry.

`NothingDangles` needs a condition (`OnlyEdits`: the peer is not made a viewer and nobody resynchronises), for `NoDangling`
fails otherwise: a viewer's deletion keeps the id. `AliveInv` adds to `RolesInv` that nothing under way takes
permissions or rebuilds a level, and that ids are alive in a client without a session too, where it has none. That makes
every deletion tell the registry; a replacement does through `repaired`, which binds the id before the old address is gone.

`LocksAreReleased` needs `OnlyEdits` and `LocksKept`: if the peer selects, the host does not delete, and if the host selects
too, neither does the peer. The list at the end of section 3 says what goes wrong otherwise. A lock of the peer at the host
is accounted for in `LocksFit`: the last word about it on its way to the peer is its grant; or the peer has it in `m_heldLocks`
and no refusal for it is on its way; or its unlock or its deletion is on its way to the host. The other parts make each
handler keep that. The host finds an id it is asked about, or takes it as the peer's own (`Known`), so `canonicalPeerObjectId`
does not move it; after a deletion the peer says nothing more of that id (`LastWord`), so no lock is granted behind it; a
placement arrives once and before anything about the object (`Once`). It has two forms, with and without the host's user selecting:
only then are there refusals. A peer that selects nothing asks for nothing (`UnaskedInv`), whatever the host deletes.

* `LiveSyncProofs`: `WatcherFollows` and `LiveLevelsConverge`, for either client as the writer (`OneWriterEdits`: objects look
  different, and users neither drag, resynchronise, change the role nor leave; `LiveNext` already has no broken connections);
  and `LiveLocksReleased`, which needs only `OnlyEdits`: a writing peer is the one form above, a writing host the other, and
  so either may delete.

`LiveInv` relates the two levels by what is between them: the changes in the watcher's queue, each new where it stands, lead
from the watcher's level to the writer's (`Writes`). An action of the writer appends to that what it did
(`WriterEdits`, a lemma for each action: a hook sends exactly the change that the level went through), a handler of the watcher takes
the first off (`WatcherTakes`). `Exact` and `Distinct` keep the writer's registry and fingerprints telling its objects apart, so
that no hook recovers a wrong id; `Settled` keeps the watcher's scan from placing anything. The mapping is
a recursive function over the queue; its laws are proved by induction on the length, from the fact that a
set of numbers has a least one (`LeastNumber`).

* `SessionLifecycleProofs` too: `RecordsNeedLostEnd`, from `LifecycleAssumption`, `SessionInv` and `EndsOK`.

A second record needs two hellos in one session without the end of the first connection between them. `RecordsInv`
excludes that while no end was lost: `HellosOK` (a connection says hello once, and it is on the wire or queued, not both), `Apart`
(between what two connections say, the first one's end is queued), and `OnRecord` (the connection that made the record has
nothing more to say, and is the transport or has its end queued before anything still said: the end takes the session
and the records with it). `KeysOK`, that nobody types the key of a session that has not begun, keeps an earlier session's
connections from counting for a later one. `LostClosed` is what makes a loss final.

* `HeartbeatsProofs`: `TimedTypes`, `SilenceEnds`, `TimeoutIsTrue`, for any interval, timeout, delay, stalls and change of
  the clock (`TimesAssumption`: they are numbers, the interval is not zero, and host and peer are two).

`TimedInv` accounts for silence. `HeardOK` is for a partner that is in its editor: as long as nothing in a client's
inbox ends its silence, the first message on its way does, or it is not longer than what the partner counts since its last
ping, or than the age of the answer to the hello the partner waits for. `AckOK` says where that answer is. `CutOK` is for a
cut network: mail is handled in the next frame, after which only silence counts, and every frame compares it with the timeout.
`EndOK` is needed where the partner has left the session: then the end of the stream is on its way, and the end is not a
timeout. One lemma says what a tick does to a client; the actions cite it. The proof
corrected the condition of `NoFalseTimeout`: without the first wait it is false for a host whose partner's ping just
fits, which the run's constants did not reach.

* `RelayProofs`: `RelayTypes`, `RetainsAreMatched`, `CrashesAreExplained`, `SessionIsAnnounced`, for any number of popups,
  connections and presses of Host (`RelayAssumption`: the bound is a number, and no popup is called "no popup").

`RetainsMatch` needs the order of the reports in the queue, since the end of a tunnel takes a reference only where it finds
no address, and whether it will is decided by what is called before it. Per popup, `LayerOK` has five parts. `TunnelsApart`:
between the ends of two tunnels the second one began. `EndsCleared`: once Stop has returned, a tunnel's end finds no address
only in the frame that is running. `Enough`: unless Stop misled it, the popup has the references that will be released, and
one more for a tunnel's end that will find no address; this is what keeps a callback on a freed popup impossible, and it holds
where Host was pressed early too. `Exact`: without that it has no more, a new tunnel begins without an address, and a failure
is reported before any beginning. `Bounded`: the count stays within the presses of Host, for the types. `ThreadOK` says when the
thread runs and that a thread nobody joined belongs to a session that is there or was lost, which is `CrashesOnlyWhen`'s
first half. The last callback of a frame is not the last of the queue; this is why `due` is a variable, and not a loop
inside one step: each callback is a step whose effect on the reports a lemma states.

Only model-checked:

* `ConvergedUnselected` and `Converged` where both users act: they hold for the users' operations
  that their runs allow, not for every `Ops`;
* everything about `Wire`: the parser's loop is a recursive operator, which the provers do not take, and what the folds of
  `MessageCodec` compute for every text needs an induction of its own for each of them;
* all liveness, with the fairness in `WatcherCatchesUp` (that changes arrive at last) and `ScanFinds`: TLAPS does not reason about
  fairness and `ENABLED`.

## 5. Where code and documentation differ

| Run | Documentation | Code |
|---|---|---|
| `ClaimDelete` | PROTOCOL.md: a delete names its object | 1025: an unknown id is read as the peer's id with the same low bits; a delete of a host object that is gone removes an object of the peer |
| `ClaimExclusiveLock` | PROTOCOL.md: "exclusive edit lock" | 458: the host's own selection overwrites the peer's lock |
| `ClaimEmptySnapshot` | PROTOCOL.md: "Peer rebuilds editor state from this" | an empty chunk loses its last separator in `decodeCompleteFrame` and is rejected |

Met while modelling, and stated as conditions of the properties rather than as runs:

* `HostLayer.cpp` 203, "bore failed": `onStop` also takes this path for a good tunnel when Stop has cleared
  `m_relayAddr` before the queued callback runs; the popup is released once more than it was retained.
* `BoreRelay::start` drops its callbacks while the last session's relay still runs, so the popup stays retained and shows
  "connecting"; and it assigns over a control thread that ended by itself and was never joined, which is `std::terminate`.
  Both need a session that was lost and Host pressed without Stop.
* `Session.hpp` 76, "at most 1 entry": two entries after a replaced connection whose end was not posted.
* 1065: a lock request for an object the host has deleted meanwhile is granted for the id that `canonicalPeerObjectId`
  makes of it. No counter has handed that id out; the peer's next placement may get it, and its object is then locked from
  the start (`IdsHandedOut` confines such ids to the locks).
* The accept thread ends with the first failed `accept`, while the socket goes on taking connections.

## 6. Not modelled, and the plan

Not modelled: the classes without a user (`Heartbeat`, `ObjectLockManager`, `OperationPlayback`), logs, the drawing of
cursors, menus, `GroupMetadata` (it only feeds a log), and what `PROJECT.json` names under "partly". The save request and its
command change nothing but logs. Networking exists on Windows only; the other branches of the `#ifdef`s return errors.
`SessionLifecycle` and `EditorSync` are not composed: a connection of the one is `Connect`, `LinkDown` and `HandleEof` of
the other. Their product is beyond TLC; what links them is that `disconnect()` clears the
editing state in one step, and `EventsInSessionOrder`.

Left open:

1. `Converged` and `ConvergedUnselected` with two users: `Writes` in both directions, for operations on different objects.
2. The folds of `MessageCodec`: that decoding inverts encoding, text by text.
