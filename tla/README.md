# Turn Tracker in TLA+

A verification project for the Turn Tracker server (`src/`, Rust, actix-web) and
its browser client (`frontend/`, Vue). Turn Tracker keeps whose turn it is around
a table: people join a room with a code, one of them hosts, and a turn passes
round the list of players. Paths below are relative to the repository.

## The system

| part | state it keeps | operations |
| --- | --- | --- |
| Room aggregate (`src/domain/room.rs`, `player.rs`) | lobby/active, lock, the players in turn order with `is_host`, `connected`, `skip_next`, `conn_epoch`; current and previous holder; turn clock, last activity, nudge times; next epoch | create, add player, attach/detach a connection, start, end, claim, undo, skip, remove, reorder, lock, nudge |
| Dispatch (`src/ws/dispatch.rs`) | none | one arm per client message: call the room, then broadcast the state (or `RoomClosed`) and report whether persisted state changed |
| Connection (`src/ws/connection.rs`, `heartbeat.rs`) | per socket: who it speaks for (`me`), a broadcast receiver, the last pong | join, dispatch a text frame, forward broadcasts, resync after lag, ping, close and detach |
| Registry (`src/registry.rs`, `cleanup.rs`) | code -> room and its broadcast channel; the dirty flag | create, look up, run a closure under the room's lock, remove, sweep idle rooms, snapshot |
| Persistence (`src/persist/`, `main.rs`) | the snapshot file, its temporary file, the instance lock | periodic save when dirty, atomic replace, load, final save at shutdown |
| HTTP layer (`src/server.rs`, `gate.rs`, `ratelimit.rs`, `ws/origin.rs`) | rate limiter (library) | create a room, upgrade to a WebSocket, serve the SPA |
| Browser client (`frontend/src/services/socket.ts`, `stores/room.ts`, views) | socket status, retry count, send queue, saved token, last room seen | connect, reconnect with backoff, rejoin by token, leave |

Every socket is a task of its own. Tasks meet only in `Registry::with_room_mut`,
which holds the room's map-shard lock while one closure (a whole join, a whole
dispatch, a whole detach) runs and its broadcasts are sent. So the unit of
interleaving is the closure, and what is hard is the *order* of closures: an old
socket's detach after a new socket's attach, messages of somebody who was just
removed, a join between the moment a room is seen empty and the moment it is
dropped, a claim decided on one walk of the roster and carried out by another.
Inside one closure what is hard is the rotation: the walk wraps, uses skips up on
its way, may find nobody, and after a removal works on a shorter list.

What makes each part correct:

- Room: the turn of a running game rests on a player; it goes to the nearest
  eligible seat; exactly one host; undo never goes to somebody who has left; the
  clock belongs to the turn; a player is connected exactly while their last socket
  is open; only the holder, the host or the next player moves the turn.
- Registry: a code names one room and a room that is removed is idle or empty, the
  capacity holds, each but for a known race.
- Persistence: what was reported as changed reaches the disk at the next save; a
  crash never leaves a torn file; one process writes.
- Connection: a client that has taken all it was sent shows the room as it is,
  even after lag; a room that closes says so before its sockets end; a silent peer
  is noticed and a live one is not taken for dead.
- Client: a page that reconnects comes back as the same player, behind the join
  come the messages that waited, and a page of a dead room stops trying.

## Modules

| module | what it is |
| --- | --- |
| `Seats` | the rotation as operators on a list: seats, laps, who is eligible, which skips a walk uses up, who inherits the badge |
| `TurnWalk` | the loops of `advance_from` and `peek_next`, one iteration a step |
| `TurnWalkProofs` | proofs that both loops do what `Seats` says, for rosters of any length |
| `TurnTaking` | the abstract promise of a room: members, one governor, a holder, who may move what, and the copy it may be taken back to |
| `Room` | one room of the server: aggregate, dispatch, joins, sockets, drop, save and load |
| `RoomProofs` | the inductive invariants of `Room`, with and without repeated names, and the safety theorems |
| `RoomRefinement` | `Room` implements `TurnTaking` |
| `LaggingCopy` | the abstract promise of persistence: a saved copy that follows the rooms and never runs ahead |
| `Persistence` | dirty flag, writer task, snapshot file, start, stop, crash, power cut, instance lock |
| `PersistenceProofs` | the inductive invariant of `Persistence`, the safety theorems, and that it implements `LaggingCopy` |
| `Registry` | the map of rooms: requests that draw codes, emptied rooms, the sweep's two passes, saves and loads |
| `RegistryProofs` | the bound on the capacity, whose rooms may be replaced and which may be removed |
| `Feed` | one room's broadcast channel, the sockets that read it, and what their clients were shown |
| `FeedProofs` | that clients catch up and hear of the room's end, for any number of sockets and any capacity |
| `Heartbeat` | the timer, the pings and the last pong of one connection |
| `HeartbeatProofs` | who is taken for dead, and when, for every interval and timeout |
| `Client` | the page of one player: socket, queue, store, token, against the server's side |
| `ClientProofs` | that a page that was welcomed stays the same player, for any number of retries, visits and messages |
| `MCTurnWalk`, `MCRoom`, `MCPersistence`, `MCRegistry`, `MCFeed`, `MCHeartbeat`, `MCClient` | instances for the model checker |

The modules meet at the code's own seams. `Room` is what happens inside a
critical section; `Registry` is the map of rooms around it, where a room is only
its age and whether its roster is empty; `Feed` is what leaves the critical
section, where a room is a version number and a roster; `Persistence` sees the
registry as numbered changes; `Client` sees the room as the seats that belong to
one page, and the network as a wire that may be cut.

### TurnWalk and Seats

`Room` is written with `Seats` operators that say in one step what a walk does:
it stops at the least offset in `1..n` whose player is connected and not flagged
(`Eligible`, `Nearest`), and leaves the flags `FlagsAfter`. `TurnWalk` runs the
code's two loops step by step and relates them to these operators
(`StopsAtNearest`, `FlagsUsedUp`, `WalkEnds`). `claim_turn` uses both loops and is
right only because they agree. Whether the walk mutates is the variable
`consume`: TRUE is `advance_from`, FALSE is `peek_next`. The guards of the two
loops are the same after De Morgan, so they share actions.

### Room

A `Vec<Player>` is the sequence `players` of ids plus one set per flag (`hosts`,
`connected`, `skipNext`) and one function per field (`connEpoch`). Tokens and ids
are random 256-bit values: a new player takes any id that nothing refers to
(`Unused`). `sockets` is the set of joined connections, each its `me` pair; a
removed player's socket stays in it, as it does in the code. `entry` is the
registry's entry for the room: `"doomed"` from the first closure that leaves or
sees the roster empty until `remove_room`, which runs outside the lock; joins may
come in between. `reply` records what the actor was answered, which the properties
about refusals need, and `actor` who asked, so that `TurnTaking` can say who may
move the turn. `now` ticks.

One action is one critical section: `JoinNew`, `Rejoin`, `JoinRefused`,
`SocketEnds`, one action per client message, `Refuse` for every message that is
turned away before it changes anything, and `Drop`. Messages that are refused
*after* they changed something have their own branches: `PassStranded` (skips
used up, then NotFound), and the NotFound of `UndoTurn`.

`Save` writes the room to the snapshot file (`RoomSnapshot::from`), at any moment,
since a periodic save comes when it comes; `saved` is what the file has of it.
`Restart` is the end of one process and the load by the next (`into_room`). What is
loaded is `saved`, not the room as it was last: seats, badges, skips, holder and
lock go back to the last save, nobody is connected, epochs start at 1 again, and
the clocks start from the load. A room that was never saved is gone, one closed
since is back, and one saved with an empty roster stays until it is swept. That
epochs repeat is harmless only because no old socket is left;
`ConnectedMeansOwned` is where a survivor would show. The properties of steps name
the load (`Loaded'`) where it is an exception, and `TurnTaking` says what kind of
exception: `Revert` takes back everything at once, to what `Keep` wrote down.
`SavedFrom` keeps two families of runs apart, so that the checker does not have to
multiply them: rooms made before that instant are never saved and are the ones
where people nudge; those made from then on are saved and loaded. `MadeAt` says
which are made.

`handle_join` reads the time before it waits for the room, so a join records as
activity an instant that may lie before the last hand-over (`JoinInstants`; at most
`JoinDelay` ticks). No other message does: `handle_text` reads it under the lock.
`TurnCountsAsActivity` therefore bounds the lag instead of denying it: a turn may
look older to the sweep by as long as a join can wait for a lock, milliseconds
against a day.

`set_order` moves each named player over once and drops whoever is not named:
`TakeInTurn` numbers the names by where they come first (`Firsts`, `NamedBy`).

Abstracted: names, tokens, texts, logging, the broadcast payloads. The code never
reads `created_at`; the model does, to bound `JoinInstants` (no join of this
process began before the room was there) and for `SavedFrom`. A socket that has not
joined has no state of its own.

### Persistence and LaggingCopy

What a room is does not matter to persistence, only which of two copies is older.
So every change gets the next `stamp`, and a code's state is the stamp of its last
change and whether it has a room. `rooms` is a server's memory, `file`, `tmp` and
`backup` are `rooms.json`, `rooms.json.tmp` and `rooms.json.corrupt`, and
`afterLoss` is what `rooms.json` may contain after a power cut: `save` syncs the
temporary file but not the directory, so the rename may be undone until the
operating system flushes it (`Flush`).

| in the code | in the model |
| --- | --- |
| `acquire_data_lock` | `AcquireLock`; a server that finds the lock taken exits unchanged |
| `FileStore::load`, `Registry::from_snapshot` | `Load`, `LoadGarbled` (does not parse), `LoadFails` (cannot be read) |
| `with_room_mut` | `Mutate`: change and mark under one lock, under which the snapshot also reads. The closure reports the change (`ReportsChange`), or does not although there is one (`ConcealsChange`) |
| `create_room`, `remove_room` | `CreateOrRemove`, then `MarkDirty`: two steps, no lock |
| `sweep_expired` | `Sweep`; it shares the main thread with the writer, so it never runs inside a snapshot |
| `snapshot_once` | `TakeDirty`, then one `Collect` per room, in any order |
| `FileStore::save` | `CreateTmp`, `WriteTmp`, `SyncTmp`, `Rename`; `SaveFails` at any of them |
| end of `main` | `Close`, `BeginFinalSave`, the same save, `Exit` |
| kill, power failure | `Crash`, `PowerCut` |

`dispatch` reports no change for a message it refuses. But an `end_turn` or
`skip_player` that finds nobody is refused after its walk has used up skips, which
a snapshot keeps, and an `undo_turn` after it has taken the previous holder. Such a
change is `ConcealsChange`: nothing is marked, and the history variable `silent`
remembers, for the properties only, which codes have one that no snapshot has read
since. The next save of anything takes it along, and so does the stop.

A period of zero makes `tokio::time::interval` panic in the writer's task, so that
`writer` is `"gone"` from the start. `Intervals` is what the setting may say at a
start. The writer task and the final save share the variables `writer`, `todo` and
`snap`: `main` awaits the task before it saves.

Left out: a build for Windows removes the old file before the rename
(`file.rs:59-62`), where a crash in between leaves no snapshot. The server is
deployed on Linux (`Dockerfile`), where those lines are not compiled.

Taken from outside `src/`: a rename is atomic and survives a crash of the process;
an advisory lock is freed when its process ends; `server::run` returns only once
no handler is inside a critical section.

`KeepsCopy` maps `saved` to what a start would find in the file, and `live` to the
rooms of the server that runs, or to the file while none does. It says that a save
never replaces something newer, that a restart begins with exactly what was saved,
and that two servers never write over each other.

### Registry

| in the code | in the model |
| --- | --- |
| `create_room` (route and registry) | `Request` (the capacity is looked at), `Draw` (one code, one `contains_key`), `Insert`; none holds a lock across |
| `with_room_mut` by a joined player | `Use`: the room is active, and an emptied roster may fill again |
| `handle_text`, `remove_room` | `Empties` (the roster is seen empty under the lock), `RemoveEmptied` (the room goes, after the lock) |
| `cleanup::spawn`, `sweep_expired` | `StartSweep`, `Visit` (first pass), `RemoveExpired` (second pass) |
| `Registry::snapshot` | `Save`, one code at a time, at any moment |
| `from_snapshot` | `Restart`: the map is what was saved, whatever has happened since |

A room is a number of its own, so that a room can be told from its successor under
the same code. `age` counts ticks since the last activity up to `TTL`. Three history
variables, which no guard reads: `raced`, the codes whose remover has looked and
whose room was used or made since; `rivals`, the creators whose chosen code another
one held too; `loaded`, how many rooms the last load brought.

Nobody asks whether another creator is about to use a code, so two that draw the
same one both find it free, and the second `Insert` replaces the first one's room.
It takes one code in 31^6, twice in the microseconds between two lines, but the code
does not exclude it and neither does the model: `ReplacesOnlyRivals` says that this
is the only way in which a room ever takes another's place. A snapshot reads the map
code by code while it changes, so it may hold more rooms than the map ever did; a
load takes them all, which is the exception in `RoomsBounded`.

The race of the sweep with a message is in the model and is not excluded by any
property: a room whose first message in a day comes between the two passes goes,
and so does one that somebody joins between its emptying and its drop.
`NothingInUseRemoved` says that these are the only ones (`raced`). `last_active`
restarts with a load, so a server restarted more often than once a day sweeps
nothing; `UnusedGoes` therefore resets with `Restart`.

### Feed

`tokio::sync::broadcast` keeps the last `Capacity` messages; a receiver that fell
behind is told so once and goes on with the oldest kept. So each socket has a queue
of its own and a mark `lagged` (`Send`, `Kept`), and `Recv`, `RecvLagged`, `Resync`
and `RecvClosed` are the arms of `rx.recv()` in `run_connection`. A resync reads
the room at a later moment than it hears of the lag, and what it sends is older
than the room and newer than the queue behind it: the client sees versions going
back before they catch up. `CaughtUp` is what remains true.

The room is a version and a roster. A join, a change, a detach by the owner and an
answer to one player (a nudge or an error) go through the channel under the room's
lock; a welcome does not. `removing` is the handler that saw the roster empty; its
socket takes nothing else until it has dropped the room. `view` is the version a
client was sent last, `told` who was sent `RoomClosed`, `due` (history) who was
there when the roster became empty.

`state_broadcast` is documented never to show a room without players. The resync
does, since it reads `public_room` without that check, when a lagging receiver is
told so between the emptying and the drop. `ClosedIsTold` holds all the same.

### Heartbeat

Time is counted in units. `Pass` lets one go by, unless a tick is as late as `Late`
allows or a pong as late as `RoundTrip` allows. `Tick` is the arm of `select!`: too
old ends the connection, otherwise a ping goes out and is answered or lost;
`TickFails` is a ping on a closed session. The timer's `MissedTickBehavior::Delay`
counts the next interval from the late tick. `Die` is the peer's end, unseen.

### Client

`phase` is the socket's status and `attempts` its retries. A retry is `OnClose`
(which gives up after `MaxAttempts`), `TimerFires`, and `OnOpen`, `NotFound` or
another `Drop`. `onStatusChange("open")` runs before the queue is flushed, so
`Opening` puts the join of a page that was welcomed before it. `Visit` is `onMounted`
and `connect`, `SubmitName` the name prompt, `DoSomething` any other message of the
user. `Handle*` are the branches of `_handle` that decide whether the page is
joined. The server's side of the wire is `Serve` (with `handle_join` in full), and
the rest of the room shows as `IsRemoved`, `RoomGoes` and `Restart`, which keeps any
subset of the seats because the last save may be older than a seat.

Tokens are the numbers of the seats minted for this page, so a phantom player is a
second number while the page still goes by the first. An outage longer than the
retries (about 23 s) counts as a room that has gone; the token stays.

### Bounds

| constant | meaning | in the runs |
| --- | --- | --- |
| `Id` | players who ever exist | 3 (`room_turns`), 2 (`room_of_two`). Three seats are the least with a middle one, so that nearest and wrap-around differ, and a removal shifts seats |
| `MaxPlayers` | `MAX_PLAYERS` (16) | as many as `Id`; the guard of a full room is reached in each run |
| `MadeAt`, `SavedFrom` | when the room is made, and from when on rooms are saved and loaded | `{0, 1}` and 1 in `room_of_two`, so that both families occur; `{0}` and 1, so no saves, in the others |
| `JoinDelay` | ticks a join may wait for the room | 1 in `room_of_two`: a hand-over comes between; 0 where time does not matter |
| `MaxEpoch` | connections attached by one process | 4: all three players attached and one more that supersedes an open socket; 2 with two players: both attached, or one superseded, and the same again after each load |
| `MaxTime`, `NudgeCooldown` | ticks | 2 and 1: a turn, an activity or a nudge at once and after the cooldown, before and after a load. 0 where time does not matter |
| `RepeatsInOrder`, `Nudgers`, `LockChoices` | which inputs clients send | all on in `room_of_two`, off in `room_turns` to keep it small |
| `Proc` | servers | 2 in `disk_crashes`, to let them compete for the lock; 1 otherwise |
| `Code` | room codes | 2: one read by the snapshot, one still to come |
| `MaxChanges` | changes of rooms | 3: before, during and after a save; 2 in `disk_faults`, which also has failures and liveness |
| `MaxFailures` | file system calls that fail | 2: the backup of a damaged file and a save, or two saves; 0 where only crashes matter |
| `Intervals` | what the snapshot interval may be | the default and 0 in `disk_faults`, the default otherwise |
| `MayBeUnreadable` | can a present file fail to be read? | on in `disk_faults` |
| `Creator`, `Code`, `MaxRooms`, `MaxAttempts` | requests served at once, codes, `MAX_ROOMS`, `MAX_CODE_ATTEMPTS` | 3, 2, 1, 2: two requests pass the check of one free place, with two codes or with the same, and the third finds every code taken |
| `Handler`, `TTL`, `MaxMade` | sockets about to drop a room, ticks to idle, rooms made | 1, 1, 4: both codes used twice, by rooms and their successors |
| `Conn`, `Player`, `Capacity` | sockets, players, `BROADCAST_CAPACITY` (64) | 2, 2, 2: the third message overwrites the first |
| `MaxVersion` | changes of the room | 4: lag, resync and two changes behind it |
| `MaxRace` | messages between the emptying and the drop | 1; must be less than `Capacity`, which says that the handler is not held up for 64 messages between two of its lines |
| `Interval`, `Timeout`, `Late`, `RoundTrip`, `MaxLost` | 30 s, 90 s, lateness of the task, of the pong, pings lost in a row | 4, 12, 2, 3, 1: the code's proportions, with half an interval of lateness |
| `MaxAttempts` (`Client`) | `MAX_RECONNECT_ATTEMPTS` (6) | 2: one failed reconnect that is retried and one that ends it |
| `MaxSeats`, `MaxVisits`, `MaxDrops`, `MaxQueue` | seats minted, visits, failures, messages on the way | 3, 3, 4, 3 (2 each in `lost_welcome`) |

The proofs have none of these bounds: they hold for every `Id`, `MaxEpoch`,
`MaxTime`, `Proc`, `Code`, `MaxChanges`, `MaxFailures`, `Creator`, `Conn`,
`Capacity`, `MaxVersion`, `Interval` and `Timeout`.

### Runs

Passing:

- `turn_walk` (14,748 states): both loops, every roster up to three.
- `room_turns` (778,030 states): the turn, the badge, undo, and the refinement
  to `TurnTaking`, with three players, no clock and no saves.
- `room_of_two` (1,088,370 states): the turn clock, the idle clock with joins that
  wait, ownership, nudges, the lock, saves and loads of older states, and orders that
  repeat a name. States that differ only in `actor` and `reply` count as one (`VIEW`):
  no guard reads these two, nor does any of the four properties.
- `disk_crashes` (114,794 states): two servers, crashes and power cuts at every
  step; the refinement to `LaggingCopy`.
- `disk_faults` (255,706 states): calls that fail, damaged and unreadable files, a
  server without a writer, changes that nobody reports; every reported change is
  saved in the end.
- `rooms_come_and_go` (1,422,947 states): the registry with every race between a
  look and an act, codes that are drawn twice, and loads of old snapshots; liveness
  of the sweep.
- `what_sockets_see` (1,033,508 states): lag, resync, the end of a room, and that
  every socket of a dead room ends.
- `heartbeat` (513 states): lost and late pongs, late ticks, a peer that dies.
- `page_reconnects` (14,769 states): reconnects, restarts, removals, revisits.

Violations, each a disagreement between the code and what the repository says:

- `order_loses_player`: `set_order` is documented to accept permutations only. It
  checks length and membership; a repeated name loses another player.
- `unreadable_snapshot`: the design document has an unreadable snapshot backed up.
  `main` starts empty and its first save replaces it.
- `lost_welcome`: the store joins again on a reconnect only if it has been
  welcomed. If the connection is lost between the first join and its welcome, the
  page reconnects and never joins; its messages are answered `not_joined` until the
  page is reloaded, and a seat nobody can reach may stay behind.

Smaller disagreements the models contain and the properties are worded around:

- `dispatch.rs` says a rejected action mutated nothing. An end of turn that finds
  nobody has used up skips before it is refused, and since it is reported as not
  dirty nobody remembers to save the change (`PassStranded` and `ConcealsChange`;
  what holds is `RefusalKeepsTurn` and `SkipIsServed`: the message moves nothing, and
  the skips it used up belong to players its walk did go past).
- A join between the last removal and the drop of the room is welcomed into a room
  without a host, which is then dropped under it (`JoinNew` while `"doomed"`).
- A removed player whose socket is open can still nudge (`Nudge`).
- `snapshot_once` is documented to write iff the registry changed since the last
  write. After a save that failed the flag is clear, and the change waits for the
  next one or for the stop, however long that is (`SaveFails`).
- With `TT_SNAPSHOT_INTERVAL_SECS=0` the writer panics at once, and the server saves
  nothing until it stops. `StopKeepsAll` holds of it all the same.
- `create_room` is documented to create a room with a unique code. Two requests that
  draw the same one at the same time get one room between them (`Draw`, `Insert`;
  `ReplacesOnlyRivals` is what holds).
- `MAX_ROOMS` is documented as the maximum of rooms the server will hold. It may be
  exceeded by the requests served at once less one, or by a load (`RoomsBounded`).

`registry.rs:148` says that a closure's flag must be true iff it changed what a
snapshot keeps. As refused messages show, it need not be, and a failed save does not
set it again; so the dirty flag does not remember every change. What does hold is
`UnsavedIsRemembered`, with both exceptions spelt out: a change that is not on the
disk is marked, about to be, or covered by the save in progress, unless the last
save or the load has failed (`behind`) or nobody reported it (`silent`).
`SavedInTheEnd` says that nothing else makes a change wait while the writer runs.

`room_turns` saves nothing, which keeps three players within reach. That its
properties hold with loads too is proved, for every number of players (below).

Deadlock is not checked where the system may stop: a finished walk, an emptied
room, a bounded run whose connections are used up, a connection that has ended, a
page whose user has seen enough. It is checked for the registry and the disk.

### Fairness

`TurnWalk` has `WF_vars(Next)`, a loop that runs. `Room` promises nothing that needs
somebody to act. `Persistence` has weak fairness of `MarkDirty` (a handler that has
changed the map runs on to its next line), `TakeDirty` (the ticker keeps ticking
and its branch of `select!` is taken unless the server is stopping), `SaveStep` (a
blocking task runs to its end), and of `BeginFinalSave` and `Exit` (a stop that has
begun runs on through `main`). Nothing makes a client act, a server start, crash or
begin to stop, or the system flush.

`Registry` has weak fairness of a handler's `remove_room`, of the sweep's steps and
ticker, and of time; of no use or making of a room, no save and no restart.
`Feed` has it of the arms of `rx.recv()`, of the resync behind it, of the start of a
spawned task and of `remove_room`; `select!` takes a ready arm, and messages of
clients are bounded. `Heartbeat` has it of time and the timer. `Client` has it of
the browser's timers, of a handshake's outcome, of the delivery of what has arrived
and of the notice that a connection has ended; not of the user or of the server.

## What is proved

With the TLA+ proof system, for every value of the constants:

- `TurnWalkProofs`: `TypeCorrect`, `WalkFindsNearest`, `WalkUsesUpSkips`,
  `WalkRunsDown`. The invariant says what the loop has established after
  `offset - 1` seats: none of them was eligible, and exactly the skips of the
  connected ones are used up.
  `WalkRunsDown` bounds the number of iterations, which leaves to `WalkEnds` only
  that the loop runs.
- `RoomProofs` has two tiers. `RoomCore` is inductive for every room, also when a
  client names a player twice in an order and so drops another. Its parts need each
  other: a load times a turn exactly if a game is running, so `TurnHasClock` needs
  `TurnWhilePlaying`; that needs `AtMostOneHost` (nobody hosts a room that was seen
  empty, so a message of a host means that the room is live and its roster is not
  empty); and all need that nobody sits twice, which for `set_order` is a fact about
  the rebuilt list: it names each player of the order once (`TakeInTurnFacts`, by
  counting in `Counting`). From `RoomCore` alone follow
  - the invariants `TypeCorrect`, `OwnershipExact`, `ClocksConsistent`,
    `TurnsKeepRoomsAlive`, `RosterStaysBounded`;
  - what a step may never do: `TurnsGoRound`, `SkipsAreServed`, `BadgeNeverStolen`,
    `ClockNeverDrifts`, `ClaimsServeClaimants`, `OnlyTheEntitledAct`;
  - `LeavingIsDecided`: a removal always has one heir to the badge and one way to
    pass the turn on, so `RemovePlayer` neither gets stuck nor has a choice. It rests
    on `OneStop` and `OneHeir`, lemmas about the operators of `Seats`;
  - `WalksAreTurnWalks`: every walk starts as an initial state of `TurnWalk`, on a
    roster of distinct players that is not empty and not too long. So the theorems
    about the two loops are theorems about what `Room` does in one step.

  A load makes the room what `saved` says, so every part of `RoomCore` and
  `RoomInv` that speaks of what a snapshot keeps has a twin about `saved`
  (`FileCore`, `FileKept`): only `Save` writes the file (`OnlySavesWrite`), it
  writes the room of that moment, and a load finds there what held of it.

  `SkipsAreServed` follows from which skips a walk uses up: those before the seat at
  which it stops, or all round (`PassServes`, `RemovalServes`).

  `OnlyTheEntitledAct` says of every step that it is `Authorised` or a load that is
  `TakenBack` as a whole to the file, and that the file is replaced only by the room
  as it is (`FiledAsIs`). `TurnsGoRound`, `SkipsAreServed` and `BadgeNeverStolen`
  except the load, which may take turn, skips and badge back; `RoomKeepsPromise` and
  `OnlyTheEntitledAct` say to what.

  `TurnsGoRound` rests on the arithmetic of the rotation: the offset at which a walk
  comes to a seat is its distance round the table (`SeatAtDistance`), also when
  `remove_player` walks round the roster the leaver has left, from the seat before
  the vacated one (`SeatOfLeaver`).

  `RoomInv` adds `TurnIsSeated`, `OneHost` and `PreviousIsSeated`, which an order
  with a repeated name destroys, and is inductive without such orders
  (`~RepeatsInOrder`): an order as long as the roster that names nobody twice names
  everybody (`OrderFacts`). From it follow `TurnNeverLost`, `HostNeverLost`,
  `UndoNeverDangles`, `RefusalsAreHarmless` (an undo with nobody to go back to would
  be refused after it took the previous holder) and `TurnsCanAlwaysEnd`.
- `RoomRefinement`: `RoomKeepsPromise`, each action a step of `TurnTaking` or a
  stutter, `Save` and `Restart` its `Keep` and `Revert`. The step that needs
  thought is `ClaimTurn`: the player whom the claim serves is the claimant,
  because the nearest eligible seat is unique. It assumes `~RepeatsInOrder` too.

- `PersistenceProofs`: `TypeCorrect`, `NothingForgotten`, `NeverTorn`,
  `StopLosesNothing`, `PersistenceKeepsCopy`. `DiskInv` adds to the properties
  that the lock's holder is the one process there is, that nothing saves for a
  process that is not up, and above all `SnapIsCurrent`: a room that changed
  after the snapshot read it is marked or about to be. That is why the flag must
  be taken before the first room is read. For the refinement `LagInv` orders the
  copies by stamp: file, snapshot being saved, memory; and whatever a power cut
  may bring back is older than the file. `NothingForgotten` excepts the
  unreported changes by `silent`, so it says of the reported ones, and of these
  alone, that none is forgotten.

- `RegistryProofs`: `TypeCorrect`, `CapacityBounded`, `CodesKeepTheirRooms`,
  `RemovalsAreDue`. A request is let in below the limit and counted with the
  rooms until it ends, so the sum of both never passes `MaxRooms - 1` by more
  than the requests there are; a load begins with no requests, and from there on
  the sum only falls until it is below that bound. For the codes,
  `HoldersAreRivals`: two requests that hold one code are both rivals. So when
  one of them inserts, the code is taken only for creators who are rivals
  already. For the removals, `DoomedAreUnused`: a room whose code a remover
  holds is empty or idle still, unless it was used or made since (`raced`). None
  of them assumes anything about which codes are drawn.
- `FeedProofs`: `TypeCorrect`, `ClientsCatchUp`, `ClosingIsTold`. The invariant looks
  at a queue from its end: the last message for everyone in it is the room as it is
  (`NewestLast`), or there is none and the client has been shown that, unless a lag
  is pending whose resync will show it (`NoneLeft`). At most `race` messages are
  behind the announcement of the end in a queue that still holds it
  (`ClosedOnItsWay`), and a queue keeps `Capacity` of them.
- `HeartbeatProofs`: `TypeCorrect`, `LiveConnectionsStay`, `DeadConnectionsGo`. The
  invariant bounds the age of the last pong by the ticks since: `lost` whole periods
  and the time since the last tick, and one more while a pong is on its way.
- `ClientProofs`: `TypeCorrect`, `NoPhantomAlways`, `StaysJoinedAlways`,
  `TokenKeptAlways`, `NotJoinedOnlyIfLostAlways`. `ClientInv` looks at a connection
  from both ends. On the way up, a welcomed page whom the server does not know yet
  has its join on the wire, or the refusal of it is coming back (`JoinIsComing`),
  and as long as its seat is there nothing is before that join (`HeadIsJoin`). On
  the way down every answer is owed to what was asked: a not_found before anybody
  has joined means that the seat is gone (`NotFoundIsTrue`), and once somebody has,
  the welcome comes before it (`WelcomeComesFirst`). So the not_found that drops the
  token is never about something else, and the page keeps the token of its seat
  until it has lost the seat (`TokenIsMine`). None of the four properties is
  inductive without these.

The proof of `PersistenceKeepsCopy` assumes `~MayBeUnreadable`: a start that cannot
read the snapshot begins with no rooms (`unreadable_snapshot`). The other proofs
about `Persistence` assume nothing beyond the constants' types.

Six theorems about `Room` assume `~RepeatsInOrder`, that no client names a player
twice in an order. `order_loses_player` shows why: with repeated names the turn,
the badge and the undo can be lost with the player. The repository's own client
always sends permutations. The other theorems of `RoomProofs` hold without it, and
`room_of_two` checks four of them with such orders.

The theorems of `RegistryProofs` assume nothing beyond the constants' types.
`Feed` assumes `MaxRace < Capacity`, and `Heartbeat` that a pong is back before
the next tick and that `(MaxLost + 1) * (Interval + Late) <= Timeout`; for the
code's numbers and one lost ping the task may be 15 s late for every tick.

Only model-checked, since liveness is out of the prover's reach: `WalkEnds`,
`SavedInTheEnd`, `UnusedGoes`, `SocketsEnd`, `DeadPeerGoes` and
`RoomGoneIsNoticed`. Proved and not model-checked, because no run needs them as a
property of its own: the theorems of `RoomProofs` and `TurnWalkProofs` that state a
definition of the proof modules.

## Not modelled, and the plan

What could still be added, in this order:

1. A composition of `Client` and `Room` for messages that come late: an end of turn
   that waited in the queue is refused unless its sender holds the turn or hosts,
   but the host's may end a turn the host never saw.

Left out on purpose: HTTP routing and static files, header checks (`gate.rs`,
`origin.rs`) and the rate limiter (a library's state), wire encoding, random
generation, the frontend's clocks and order helpers (pure functions with unit
tests), views, styles, deployment.
