-------------------------------- MODULE Room --------------------------------
(***************************************************************************)
(* One room of the server: the Room aggregate, the closures under the      *)
(* room's lock that call it, and the sockets that own its players.         *)
(*                                                                         *)
(* Every action is one critical section of Registry::with_room_mut: a      *)
(* whole dispatch of a client message, a whole join, or the detach a       *)
(* closing socket performs.  They interleave freely, because each socket   *)
(* is its own task.                                                        *)
(*                                                                         *)
(* A vector of Player structs is kept as the sequence of ids (the turn     *)
(* order) and one set or function per field.  Ids and tokens are random    *)
(* and never repeat, so a new player is given any id nothing refers to.    *)
(***************************************************************************)
EXTENDS Seats, FiniteSets, SequencesExt

CONSTANTS
    Id,              \* player ids; a player's secret token is as unique
    NoOne,           \* the `None` of an Option<PlayerId>
    MaxPlayers,      \* MAX_PLAYERS
    NudgeCooldown,   \* NUDGE_COOLDOWN, in ticks
    RepeatsInOrder,  \* may a client name a player twice in a set_order?
    JoinDelay,       \* bound: ticks a join may wait for the room's lock
    MadeAt,          \* bound: the instants at which the room may be made
    SavedFrom,       \* bound: a room made before this instant is never saved
                     \* and lives in one run; only there does anybody nudge
    Nudgers,         \* bound: the players whose clients ever nudge
    LockChoices,     \* bound: the values set_locked is called with
    MaxEpoch,        \* bound: connections attached in one run
    MaxTime          \* bound: ticks of the clock in one run

ASSUME IdAssumption == IsFiniteSet(Id) /\ Id # {}
ASSUME NoOneAssumption == NoOne \notin Id
ASSUME BoundsAssumption ==
    /\ MaxPlayers \in Nat \ {0}
    /\ NudgeCooldown \in Nat \ {0}
    /\ RepeatsInOrder \in BOOLEAN
    /\ JoinDelay \in Nat
    /\ MadeAt \subseteq Nat
    /\ SavedFrom \in Nat
    /\ Nudgers \subseteq Id
    /\ LockChoices \subseteq BOOLEAN
    /\ MaxEpoch \in Nat \ {0}
    /\ MaxTime \in Nat

VARIABLES
    state,          \* RoomState: "Lobby" or "Active"
    locked,         \* are brand-new players turned away?
    players,        \* the turn order
    hosts,          \* players whose is_host is set
    connected,      \* players whose connected is set
    skipNext,       \* players whose skip_next is set
    connEpoch,      \* each player's conn_epoch; None for a stranger
    current,        \* current_player_id
    previous,       \* previous_player_id
    turnStartedAt,  \* turn_started_at, or Never
    lastActive,     \* last_active
    lastNudgeAt,    \* last_nudge_at, or Never
    createdAt,      \* created_at: when this process made or loaded the room
    nextConnEpoch,  \* next_conn_epoch
    entry,          \* the registry's entry for the room: "live"; "doomed" once
                    \* a handler has seen the roster empty; "dropped"
    sockets,        \* connections that have joined: their `me`, <<id, epoch>>
    saved,          \* the room as the snapshot file has it
    now,            \* Instant::now()
    actor,          \* the player whose message the last action was, or NoOne
    reply           \* what the last action sent back: "ok", "ordered" (the "ok"
                    \* of a set_order), "error" or "none"

turnVars == <<current, previous, turnStartedAt>>
seatVars == <<players, hosts, connected, skipNext, connEpoch>>
clockVars == <<lastActive, lastNudgeAt, now>>
serverVars == <<createdAt, nextConnEpoch, sockets, saved>>
vars == <<state, locked, entry, actor, reply, seatVars, turnVars, clockVars, serverVars>>

Never == -1
NoEpoch == 0     \* ConnEpoch::NONE
Seated == ToSet(players)

\* The room as RoomSnapshot::from writes it, and a file without it.
NoRoom ==
    [entry |-> "dropped", state |-> "Lobby", locked |-> FALSE, players |-> << >>,
     hosts |-> {}, skipNext |-> {}, current |-> NoOne, previous |-> NoOne]
Persisted ==
    IF entry = "dropped" THEN NoRoom
    ELSE [entry |-> entry, state |-> state, locked |-> locked, players |-> players,
          hosts |-> hosts, skipNext |-> skipNext, current |-> current,
          previous |-> previous]

-----------------------------------------------------------------------------
\* Room::create, called by POST /api/rooms: the host is its first player, and
\* counts as connected although no socket has attached yet.
Init ==
    /\ \E host \in Id :
          /\ players = <<host>>
          /\ hosts = {host}
          /\ connected = {host}
    /\ state = "Lobby"
    /\ locked = FALSE
    /\ skipNext = {}
    /\ connEpoch = [p \in Id |-> NoEpoch]
    /\ current = NoOne
    /\ previous = NoOne
    /\ turnStartedAt = Never
    /\ createdAt \in MadeAt
    /\ lastActive = createdAt
    /\ lastNudgeAt = [p \in Id |-> Never]
    /\ nextConnEpoch = 1
    /\ saved = NoRoom
    /\ entry = "live"
    /\ sockets = {}
    /\ now = createdAt
    /\ actor = NoOne
    /\ reply = "none"

\* Slip: nothing is recorded as activity.
SlipTouch == UNCHANGED lastActive

\* Activity, which puts off the idle sweep.
Touch == lastActive' = now

-----------------------------------------------------------------------------
(* Joining and leaving: handle_join and the cleanup of run_connection.     *)

\* Room::attach_connection by a new socket: it becomes the player's owner.
Attach(p) ==
    /\ nextConnEpoch <= MaxEpoch
    /\ connected' = connected \cup {p}
    /\ connEpoch' = [connEpoch EXCEPT ![p] = nextConnEpoch]
    /\ nextConnEpoch' = nextConnEpoch + 1
    /\ sockets' = sockets \cup {<<p, nextConnEpoch>>}
    /\ UNCHANGED <<createdAt, saved>>

\* Slip: ids are handed out again while they are in use.
SlipUnused(p) == TRUE

\* Nothing in the room, among its sockets or in the file mentions p: what a newly
\* generated id looks like.
Unused(p) ==
    /\ p \notin Seated \cup ToSet(saved.players)
    /\ lastNudgeAt[p] = Never
    /\ \A s \in sockets : s[1] # p

\* The instants handle_join may have read before it waited for the room's lock.
JoinInstants == {t \in createdAt..now : now - t <= JoinDelay}

\* A join without a token: add_player, which records as activity the instant the
\* join began, then attach_connection.
JoinNew(p) ==
    /\ entry # "dropped"
    /\ Unused(p)
    /\ ~locked
    /\ Len(players) < MaxPlayers
    /\ players' = Append(players, p)
    /\ lastActive' \in JoinInstants
    /\ Attach(p)
    /\ actor' = NoOne
    /\ reply' = "ok"
    /\ UNCHANGED <<state, locked, hosts, skipNext, turnVars, lastNudgeAt,
                   entry, now>>

\* A join with the token of a player of the room.  It bypasses the lock and
\* the player limit, and it is allowed while an older socket of the player is
\* still open.
Rejoin(p) ==
    /\ entry # "dropped"
    /\ p \in Seated
    /\ Attach(p)
    /\ actor' = NoOne
    /\ reply' = "ok"
    /\ UNCHANGED <<state, locked, players, hosts, skipNext, turnVars,
                   clockVars, entry>>

\* A join turned away: a locked or full room, an unknown token, an over-long
\* name, a second join on one socket.
JoinRefused ==
    /\ entry # "dropped"
    /\ actor' = NoOne
    /\ reply' = "error"
    /\ UNCHANGED <<state, locked, seatVars, turnVars, clockVars, serverVars, entry>>

\* Slip: detaching forgets to compare epochs.
SlipOwns(p, e) == p \in Seated

\* Is the connection that carries epoch e the current owner of player p?
Owns(p, e) == p \in Seated /\ connEpoch[p] = e

\* A socket ends, for whatever reason, and detach_connection runs: a
\* superseded socket's departure changes nothing.
SocketEnds(s) ==
    /\ s \in sockets
    /\ sockets' = sockets \ {s}
    /\ connected' = IF entry # "dropped" /\ Owns(s[1], s[2])
                    THEN connected \ {s[1]} ELSE connected
    /\ actor' = NoOne
    /\ reply' = "none"
    /\ UNCHANGED <<state, locked, players, hosts, skipNext, connEpoch,
                   turnVars, clockVars, createdAt, nextConnEpoch, saved, entry>>

-----------------------------------------------------------------------------
(* Messages of a joined client: handle_text, dispatch and the Room methods. *)

\* A message arrives on a socket that has joined as a.  A removed player's
\* socket stays joined: nothing closes it but the client.
Dispatching(a) ==
    /\ entry # "dropped"
    /\ \E s \in sockets : s[1] = a
    /\ actor' = a

\* A message has been accepted; handle_text goes on to drop a room it has seen
\* empty.
Settle ==
    /\ entry' = IF players' = << >> THEN "doomed" ELSE entry
    /\ UNCHANGED <<now, serverVars>>

Accept == reply' = "ok" /\ Settle

\* Room::start_game.
StartGame(a) ==
    /\ Dispatching(a)
    /\ a \in hosts /\ state = "Lobby"
    /\ state' = "Active"
    /\ current' = players[1]
    /\ previous' = NoOne
    /\ turnStartedAt' = now
    /\ Touch
    /\ UNCHANGED <<locked, seatVars, lastNudgeAt>>
    /\ Accept

\* Room::advance_turn from the seat i of the current player: the turn goes to
\* the first eligible player, who may be the current one again.
PassTurn(i, flags) ==
    /\ skipNext' = FlagsAfter(players, i, connected, flags)
    /\ \E k \in Lap(players) :
          /\ Nearest(k, Eligible(players, i, connected, flags))
          /\ current' = Seat(players, i, k)
    /\ previous' = current
    /\ turnStartedAt' = now
    /\ Touch
    /\ UNCHANGED <<state, locked, players, hosts, connected, connEpoch, lastNudgeAt>>
    /\ Accept

\* Slip: the previous holder is recorded before the walk is known to succeed.
SlipPassStranded(i, flags) ==
    /\ Eligible(players, i, connected, flags) = {}
    /\ skipNext' = FlagsAfter(players, i, connected, flags)
    /\ previous' = current
    /\ reply' = "error"
    /\ UNCHANGED <<state, locked, players, hosts, connected, connEpoch, current,
                   turnStartedAt, lastNudgeAt, serverVars, entry, now>>

\* The same walk when it finds nobody: the message is refused with NotFound,
\* but the skips the walk used up stay used up.
PassStranded(i, flags) ==
    /\ Eligible(players, i, connected, flags) = {}
    /\ skipNext' = FlagsAfter(players, i, connected, flags)
    /\ reply' = "error"
    /\ UNCHANGED <<state, locked, players, hosts, connected, connEpoch, turnVars,
                   lastNudgeAt, serverVars, entry, now>>

\* Slip: anybody may end a turn.
SlipMayEnd(a) == TRUE

\* Who may end the turn.
MayEnd(a) == a = current \/ a \in hosts

\* Room::end_turn.
EndTurn(a) ==
    /\ Dispatching(a)
    /\ state = "Active"
    /\ MayEnd(a)
    /\ \E i \in Lap(players) :
          /\ players[i] = current
          /\ \/ PassTurn(i, skipNext)
             \/ PassStranded(i, skipNext) /\ UNCHANGED lastActive

\* Room::claim_turn: peek_next names the player who may take the turn early,
\* and advance_turn then walks again.
ClaimTurn(a) ==
    /\ Dispatching(a)
    /\ state = "Active"
    /\ \E i \in Lap(players) :
          /\ players[i] = current
          /\ \E k \in Lap(players) :
                /\ Nearest(k, Eligible(players, i, connected, skipNext))
                /\ Seat(players, i, k) = a
          /\ PassTurn(i, skipNext)

\* Room::undo_turn: back to the previous holder, once.
UndoTurn(a) ==
    /\ Dispatching(a)
    /\ a \in hosts /\ state = "Active"
    /\ previous # NoOne
    /\ previous' = NoOne
    /\ UNCHANGED <<state, locked, seatVars, lastNudgeAt>>
    /\ IF previous \in Seated
       THEN /\ current' = previous
            /\ turnStartedAt' = now
            /\ Touch
            /\ Accept
       ELSE \* refused with NotFound, after the previous holder was taken
            /\ reply' = "error"
            /\ UNCHANGED <<current, turnStartedAt, lastActive, serverVars, entry, now>>

\* Room::skip_player: flag t, and move the turn on at once when t holds it.
SkipPlayer(a, t) ==
    /\ Dispatching(a)
    /\ a \in hosts /\ t \in Seated
    /\ Touch
    /\ \/ /\ state = "Active" /\ current = t
          /\ \E i \in Lap(players) :
                /\ players[i] = t
                /\ \/ PassTurn(i, skipNext \cup {t})
                   \/ PassStranded(i, skipNext \cup {t})
       \/ /\ ~(state = "Active" /\ current = t)
          /\ skipNext' = skipNext \cup {t}
          /\ UNCHANGED <<state, locked, players, hosts, connected, connEpoch,
                         turnVars, lastNudgeAt>>
          /\ Accept

\* Slip: the badge goes with its bearer.
SlipPassBadge(t) == hosts' = hosts \ {t}

\* The host badge when t goes: it passes on only if t wore it.
PassBadge(t) ==
    \/ t \notin hosts /\ UNCHANGED hosts
    \/ t \in hosts /\ players' = << >> /\ hosts' = hosts \ {t}
    \/ /\ t \in hosts
       /\ \E h \in Seated \ {t} :
             /\ IsHeir(h, players', connected \ {t})
             /\ hosts' = (hosts \ {t}) \cup {h}

\* Slip: an undo may go back to somebody removed.
SlipForget(t) == UNCHANGED previous

\* The previous holder when t goes.
Forget(t) == previous' = IF previous = t THEN NoOne ELSE previous

\* Slip: the clock of a removed player's turn runs on.
SlipClockForTurn == UNCHANGED turnStartedAt

\* The clock of a turn that was passed on by a removal: none if there was
\* nobody to pass it to.
ClockForTurn == turnStartedAt' = IF current' = NoOne THEN Never ELSE now

\* Slip: the walk resumes from the seat that moved up, and so goes past it.
SlipResume(i, left) == ((i - 1) % left) + 1

\* Where the walk resumes when seat i has been vacated and `left` seats are
\* left: one seat before it, so that the seat that moved up comes first.
Resume(i, left) == ((i - 1 + left - 1) % left) + 1

\* Slip: the walk goes round the roster the leaver is still in.
SlipPassTurnOfLeaver(i, t) ==
    \/ /\ ~(state = "Active" /\ current = t)
       /\ skipNext' = skipNext \ {t}
       /\ UNCHANGED <<current, turnStartedAt>>
    \/ /\ state = "Active" /\ current = t
       /\ skipNext' = FlagsAfter(players, i, connected, skipNext \ {t}) \ {t}
       /\ \E k \in Lap(players) :
             /\ Nearest(k, Eligible(players, i, connected, skipNext \ {t}))
             /\ current' = Seat(players, i, k)
       /\ ClockForTurn

\* The turn when the player t at seat i goes.  If it was theirs it is passed
\* on round the roster they have left, and parks on the seat that moved up
\* when nobody there is eligible.
PassTurnOfLeaver(i, t) ==
    LET conn == connected \ {t}
        flags == skipNext \ {t}
        from == Resume(i, Len(players) - 1)
        stops == Eligible(players', from, conn, flags)
    IN  \/ /\ ~(state = "Active" /\ current = t)
           /\ skipNext' = flags
           /\ UNCHANGED <<current, turnStartedAt>>
        \/ /\ state = "Active" /\ current = t
           /\ players' = << >>
           /\ skipNext' = flags
           /\ current' = NoOne
           /\ ClockForTurn
        \/ /\ state = "Active" /\ current = t
           /\ players' # << >>
           /\ skipNext' = FlagsAfter(players', from, conn, flags)
           /\ \/ \E k \in Lap(players') :
                    Nearest(k, stops) /\ current' = Seat(players', from, k)
              \/ stops = {} /\ current' = Seat(players', from, 1)
           /\ ClockForTurn

\* Room::remove_player.  The player's socket, if any, is not closed.
RemovePlayer(a, t) ==
    /\ Dispatching(a)
    /\ a \in hosts /\ t \in Seated
    /\ \E i \in Lap(players) :
          /\ players[i] = t
          /\ players' = RemoveAt(players, i)
          /\ PassTurnOfLeaver(i, t)
    /\ PassBadge(t)
    /\ connected' = connected \ {t}
    /\ connEpoch' = [connEpoch EXCEPT ![t] = NoEpoch]
    /\ Forget(t)
    /\ lastNudgeAt' = [lastNudgeAt EXCEPT ![t] = Never]
    /\ Touch
    /\ UNCHANGED <<state, locked>>
    /\ Accept

\* Where an order names a player it has not named before.
Firsts(order) == {i \in DOMAIN order : \A j \in 1..(i - 1) : order[j] # order[i]}

\* How many players an order has named up to its i-th name.
NamedBy(order, i) == Cardinality({j \in Firsts(order) : j <= i})

\* What set_order rebuilds: each named player is moved over once, so a name
\* given twice only counts where it comes first.
TakeInTurn(order) ==
    [k \in 1..Cardinality(Firsts(order)) |->
        order[CHOOSE i \in Firsts(order) : NamedBy(order, i) = k]]

\* Room::set_order, with a list of the right length that names only players.
SetOrder(a) ==
    /\ Dispatching(a)
    /\ a \in hosts
    /\ \E order \in [1..Len(players) -> Seated] :
          /\ RepeatsInOrder \/ IsInjective(order)
          /\ players' = TakeInTurn(order)
    /\ hosts' = hosts \cap ToSet(players')
    /\ connected' = connected \cap ToSet(players')
    /\ skipNext' = skipNext \cap ToSet(players')
    /\ connEpoch' = [p \in Id |-> IF p \in ToSet(players') THEN connEpoch[p]
                                                          ELSE NoEpoch]
    /\ Touch
    /\ UNCHANGED <<state, locked, turnVars, lastNudgeAt>>
    /\ reply' = "ordered"
    /\ Settle

\* Room::set_locked.
SetLocked(a) ==
    /\ Dispatching(a)
    /\ a \in hosts
    /\ locked' \in LockChoices
    /\ Touch
    /\ UNCHANGED <<state, seatVars, turnVars, lastNudgeAt>>
    /\ Accept

\* Room::nudge.  It asks neither that the sender still be a player nor bumps
\* last_active.
Nudge(a) ==
    /\ Dispatching(a)
    /\ a \in Nudgers /\ createdAt < SavedFrom
    /\ current # NoOne /\ current # a
    /\ lastNudgeAt[a] # Never => now - lastNudgeAt[a] >= NudgeCooldown
    /\ lastNudgeAt' = [lastNudgeAt EXCEPT ![a] = now]
    /\ UNCHANGED <<state, locked, seatVars, turnVars, lastActive>>
    /\ Accept

\* A message refused before it changes anything.  Whoever sends it, some
\* message is refused: an order of the wrong length, a skip or a removal of a
\* stranger, anything but a claim, an end or a nudge from somebody not host.
Refuse(a) ==
    /\ Dispatching(a)
    /\ reply' = "error"
    /\ entry' = IF players = << >> THEN "doomed" ELSE entry
    /\ UNCHANGED <<state, locked, seatVars, turnVars, clockVars, serverVars>>

-----------------------------------------------------------------------------
\* Registry::remove_room, which handle_text calls once it has let go of the
\* lock under which it saw the roster empty.
Drop ==
    /\ entry = "doomed"
    /\ entry' = "dropped"
    /\ actor' = NoOne
    /\ reply' = "none"
    /\ UNCHANGED <<state, locked, seatVars, turnVars, clockVars, serverVars>>

\* Slip: only what the file holds comes back, so the turn has no clock.
SlipClockFromLoad == turnStartedAt' = Never

\* No Instant survives a restart: a running turn is timed from the load.
ClockFromLoad == turnStartedAt' = IF state' = "Active" THEN now ELSE Never

\* The room, if there is one, is written to the snapshot file.  When and how that
\* happens is in Persistence; here it may happen at any time.
Save ==
    /\ createdAt >= SavedFrom
    /\ saved' = Persisted
    /\ actor' = NoOne
    /\ reply' = "none"
    /\ UNCHANGED <<state, locked, seatVars, turnVars, clockVars, createdAt,
                   nextConnEpoch, sockets, entry>>

\* The process ends, in whatever way, and another one loads the room from the
\* file (into_room): as it was when it was last saved, whatever has happened to
\* it since.  Everybody's socket is gone and epochs start again.  A room the
\* file does not have is gone; one that was closed since is back; one saved when
\* it was empty is loaded empty, and waits for the idle sweep to drop it.
Restart ==
    /\ createdAt >= SavedFrom
    /\ entry' = saved.entry
    /\ state' = saved.state
    /\ locked' = saved.locked
    /\ players' = saved.players
    /\ hosts' = saved.hosts
    /\ skipNext' = saved.skipNext
    /\ current' = saved.current
    /\ previous' = saved.previous
    /\ connected' = {}
    /\ connEpoch' = [p \in Id |-> NoEpoch]
    /\ createdAt' = now
    /\ nextConnEpoch' = 1
    /\ sockets' = {}
    /\ lastNudgeAt' = [p \in Id |-> Never]
    /\ lastActive' = now
    /\ ClockFromLoad
    /\ actor' = NoOne
    /\ reply' = "none"
    /\ UNCHANGED <<saved, now>>

\* Time passes.
Tick ==
    /\ now < MaxTime
    /\ now' = now + 1
    /\ actor' = NoOne
    /\ reply' = "none"
    /\ UNCHANGED <<state, locked, seatVars, turnVars, lastActive, lastNudgeAt,
                   serverVars, entry>>

Next ==
    \/ \E p \in Id : JoinNew(p) \/ Rejoin(p)
    \/ JoinRefused
    \/ \E s \in sockets : SocketEnds(s)
    \/ \E a \in Id :
          \/ StartGame(a) \/ EndTurn(a) \/ ClaimTurn(a) \/ UndoTurn(a)
          \/ \E t \in Id : SkipPlayer(a, t) \/ RemovePlayer(a, t)
          \/ SetOrder(a) \/ SetLocked(a) \/ Nudge(a) \/ Refuse(a)
    \/ Drop
    \/ Save
    \/ Restart
    \/ Tick

Spec == Init /\ [][Next]_vars

-----------------------------------------------------------------------------
(* What is true of every room.  "live" is a room whose roster has never    *)
(* been empty; an emptied one is about to be dropped and promises nothing. *)

\* What a snapshot of a room looks like.
IsRecord(r) ==
    /\ DOMAIN r = DOMAIN NoRoom
    /\ r.entry \in {"live", "doomed", "dropped"}
    /\ r.state \in {"Lobby", "Active"}
    /\ r.locked \in BOOLEAN
    /\ r.players \in Seq(Id) /\ IsInjective(r.players)
    /\ r.hosts \subseteq ToSet(r.players)
    /\ r.skipNext \subseteq ToSet(r.players)
    /\ r.current \in Id \cup {NoOne}
    /\ r.previous \in Id \cup {NoOne}

\* The fields of the aggregate have their types, nobody sits twice, and the
\* per-player fields belong to players.
TypeOK ==
    /\ state \in {"Lobby", "Active"}
    /\ locked \in BOOLEAN
    /\ players \in Seq(Id) /\ IsInjective(players)
    /\ hosts \subseteq Seated
    /\ connected \subseteq Seated
    /\ skipNext \subseteq Seated
    /\ connEpoch \in [Id -> Nat]
    /\ current \in Id \cup {NoOne}
    /\ previous \in Id \cup {NoOne}
    /\ turnStartedAt \in Nat \cup {Never}
    /\ lastActive \in Nat
    /\ lastNudgeAt \in [Id -> Nat \cup {Never}]
    /\ createdAt \in Nat
    /\ nextConnEpoch \in Nat \ {0}
    /\ entry \in {"live", "doomed", "dropped"}
    /\ sockets \subseteq Id \X (Nat \ {0})
    /\ IsRecord(saved)
    /\ now \in Nat
    /\ actor \in Id \cup {NoOne}
    /\ reply \in {"ok", "ordered", "error", "none"}

\* The turn of a running game rests on a player of the room, and there is no
\* turn before the game starts.  A turn resting on somebody who has left (or
\* on nobody) would make current_index fail and every advance be refused.
TurnIsSeated ==
    entry = "live" => IF state = "Active" THEN current \in Seated
                                          ELSE current = NoOne

\* A live room has exactly one host, whatever the order in which players are
\* removed, leave or come back: remove_player passes the badge on, and nothing
\* else grants or takes it.
OneHost == entry = "live" => \E h \in Seated : hosts = {h}

\* The holder undo_turn would go back to is still a player, so the NotFound of
\* undo_turn (which would cost the room its undo) is never reached.
PreviousIsSeated == previous # NoOne => previous \in Seated

\* A turn and its clock exist together, across restarts too: a client can never
\* show a clock for a turn nobody holds or a holder without a clock.
TurnHasClock == entry = "live" => (turnStartedAt = Never <=> current = NoOne)

\* A player counts as connected exactly while the socket that attached last is
\* open, however many older sockets of theirs end before or after it, and
\* although epochs start again with every process.  The exception is a founder
\* nobody has attached yet, who counts as connected with no socket.
ConnectedMeansOwned ==
    entry # "dropped" =>
        \A p \in Seated :
            IF connEpoch[p] = NoEpoch
            THEN p \in connected => p \in hosts /\ p \notin {s[1] : s \in sockets}
            ELSE p \in connected <=> <<p, connEpoch[p]>> \in sockets

\* The idle sweep cannot take a room for idle that has just changed hands: the
\* activity on record is at most JoinDelay older than the turn.  It can be older,
\* because a join that waits for the room while the turn changes hands records
\* the instant at which it began to wait.  Neither is in the future.
TurnCountsAsActivity ==
    /\ turnStartedAt <= lastActive + JoinDelay
    /\ turnStartedAt <= now /\ lastActive <= now

-----------------------------------------------------------------------------
(* What a step may never do.                                               *)

\* The first state of a process that has loaded the room: no epoch is given out
\* and not even the founder counts as connected.
Loaded == nextConnEpoch = 1 /\ connected = {}

\* Seats from the one at i to the one at j, going round: 1..Len(players).
Distance(i, j) == ((j - i - 1) % Len(players)) + 1

\* An undo, and nothing else, takes the previous holder without replacing it
\* and keeps the roster.
Undone == players' = players /\ previous' = NoOne

\* The player at seat x could play: connected, no skip pending.
Playable(x) == players[x] \in connected \ skipNext

\* The turn goes from the player at seat i to another, at seat j.
MovesTurn(i, j) == players[i] = current /\ players[j] = current' /\ i # j

\* When the turn leaves a player, by whichever message (an end, a claim, a
\* skip, a removal), it goes to the nearest seat round the table whose player
\* is connected and has no skip pending.  Only the turn of a player who was
\* removed may park on the next seat, and only if nobody left is eligible.  A
\* load is no message: it takes the turn back to where it was saved.
TurnGoesToNextEligible ==
    [][\A i, j \in Lap(players) :
          MovesTurn(i, j) /\ ~Undone /\ ~Loaded' =>
              /\ \A x \in Lap(players) :
                    Distance(i, x) < Distance(i, j) => ~Playable(x)
              /\ ~Playable(j) => /\ current \notin ToSet(players')
                                 /\ Distance(i, j) = 1
                                 /\ \A x \in Lap(players) \ {i} : ~Playable(x)]_vars

\* The player at seat x stays, without the skip they had pending.
LosesSkip(x) == /\ players[x] \in skipNext \ skipNext'
                /\ players[x] \in ToSet(players')

\* The step passes the turn of the player at seat i on, past the one at seat x.
GoesPast(i, x) ==
    /\ previous' = current \/ current \notin ToSet(players')
    /\ \E j \in Lap(players) :
          players[j] = current' /\ Distance(i, x) < Distance(i, j)

\* The step walks round from seat i and finds nobody: the message is refused, or
\* the one at seat i was removed.
GoesRound(i) ==
    /\ \A x \in Lap(players) \ {i} : ~Playable(x)
    /\ reply' = "error" \/ current \notin ToSet(players')

\* A player who stays loses a pending skip only while connected, and only to a
\* walk from the turn's holder that goes past their seat: one that stops further
\* on, or one that goes all the way round.  So who is away still owes the skip
\* when they return, and no other message, not even a refused one, settles it.
SkipIsServed ==
    [][\A x \in Lap(players) :
          LosesSkip(x) /\ ~Loaded' =>
              /\ players[x] \in connected
              /\ \E i \in Lap(players) :
                    players[i] = current /\ (GoesPast(i, x) \/ GoesRound(i))]_vars

\* A refused message moves neither the turn nor its clock, the roster, the
\* badge or the lock.
RefusalKeepsTurn ==
    [][reply' = "error" =>
          UNCHANGED <<turnVars, players, hosts, locked, state>>]_vars

\* The badge moves only when its bearer is gone, and then to somebody connected
\* if anybody is; or back to where it was saved, by a load.
BadgeIsInherited ==
    [][hosts' # hosts /\ ~Loaded' =>
          /\ hosts \cap ToSet(players') = {}
          /\ connected' # {} => hosts' \subseteq connected']_vars

\* The clock restarts with every change of holder, and with nothing but a
\* hand-over (which may hand the turn back to a sole eligible holder) or a
\* load.
ClockFollowsTurn ==
    [][/\ current' \notin {current, NoOne} => turnStartedAt' = now
       /\ turnStartedAt' # turnStartedAt =>
              \/ current' # current
              \/ previous' = current'
              \/ previous = current
              \/ Loaded']_vars

-----------------------------------------------------------------------------
\* The promise: a live room, seen without its rotation, is TurnTaking; once
\* its roster has been empty it is closed.
Live == entry = "live"
OnFile == saved.entry = "live"
Promise == INSTANCE TurnTaking WITH
    members   <- IF Live THEN Seated ELSE {},
    governors <- IF Live THEN hosts ELSE {},
    holder    <- IF Live THEN current ELSE NoOne,
    playing   <- Live /\ state = "Active",
    present   <- IF Live THEN {s[1] : s \in sockets} ELSE {},
    requester <- IF Live THEN actor ELSE NoOne,
    kept      <- [members   |-> IF OnFile THEN ToSet(saved.players) ELSE {},
                  governors |-> IF OnFile THEN saved.hosts ELSE {},
                  holder    |-> IF OnFile THEN saved.current ELSE NoOne,
                  playing   |-> OnFile /\ saved.state = "Active"]

\* Every step of a room is a step of TurnTaking or invisible to it: nobody but
\* the holder, the host or the claimant moves the turn, nobody but the host
\* removes anybody, and neither the turn nor the badge is ever lost; a restart
\* takes the room back, as a whole, to what was last saved of it.
KeepsPromise == Promise!Spec

-----------------------------------------------------------------------------
(* What the repository says of a room and its code does not do.            *)

\* "`order` must be a permutation of exactly the current player ids" (set_order):
\* an accepted order loses nobody.
OrderLosesNobody == [][reply' = "ordered" => ToSet(players') = Seated]_vars
=============================================================================
