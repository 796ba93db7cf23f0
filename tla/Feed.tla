-------------------------------- MODULE Feed --------------------------------
(***************************************************************************)
(* What the sockets of one room are sent.  Every change of the room is     *)
(* broadcast under the room's lock into a channel that keeps the last      *)
(* Capacity messages; a connection's task takes them out one by one, is    *)
(* sent the room as it stands if it fell behind, and ends with the channel.*)
(* The room is a version number and a roster; what changes it is in Room.  *)
(***************************************************************************)
EXTENDS Integers, Sequences

CONSTANTS
    Conn,        \* connections to the room's /ws route
    Player,
    Host,        \* the player the room was created with
    None,        \* no player
    Capacity,    \* BROADCAST_CAPACITY
    MaxVersion,  \* bound: versions of the room
    MaxRace      \* bound: messages sent while a handler is about to drop the room

ASSUME FeedAssumption ==
    /\ Host \in Player /\ None \notin Player
    /\ Capacity \in Nat \ {0}
    /\ MaxVersion \in Nat \ {0}
    /\ MaxRace \in 0..(Capacity - 1)

VARIABLES
    live,       \* the registry holds the room, and with it the channel's sender
    version,    \* counts the changes a PublicRoom shows
    roster,     \* players in the room
    owner,      \* the connection that attached last to each player, or None
    conn,       \* "new", "accepted", "open" or "ended"
    me,         \* the player a connection has joined as, or None
    queue,      \* messages the connection's receiver still has to take
    lagged,     \* connections whose receiver has missed messages
    resyncing,  \* connections that were told so and have not read the room yet
    removing,   \* connections whose handler saw the roster empty
    view,       \* the version each client was shown last, 0 for none
    told,       \* connections that were sent RoomClosed
    due,        \* history: connections open when the roster became empty
    race        \* messages sent since then

roomVars == <<live, version, roster, owner>>
readerVars == <<conn, me, resyncing, removing, view, told>>
vars == <<roomVars, readerVars, queue, lagged, due, race>>

Everyone == None
State(v) == [to |-> Everyone, says |-> v]
RoomClosed == [to |-> Everyone, says |-> 0]
\* A nudge, or the refusal of what p asked for.
Note(p) == [to |-> p, says |-> 0]
Message == {State(v) : v \in 1..MaxVersion} \cup {RoomClosed} \cup {Note(p) : p \in Player}

Init ==
    /\ live = TRUE
    /\ version = 1
    /\ roster = {Host}
    /\ owner = [p \in Player |-> None]
    /\ conn = [c \in Conn |-> "new"]
    /\ me = [c \in Conn |-> None]
    /\ queue = [c \in Conn |-> <<>>]
    /\ lagged = {} /\ resyncing = {} /\ removing = {}
    /\ view = [c \in Conn |-> 0]
    /\ told = {} /\ due = {}
    /\ race = 0

-----------------------------------------------------------------------------
(* The channel.                                                            *)

\* A full channel overwrites its oldest message.
Kept(q) == IF Len(q) = Capacity THEN Tail(q) ELSE q

Subscribed == {c \in Conn : conn[c] = "open"}

\* The message is put behind those every receiver still has.
Send(m) ==
    /\ removing # {} => race < MaxRace
    /\ race' = IF removing = {} THEN race ELSE race + 1
    /\ queue' = [c \in Conn |->
                   IF c \in Subscribed THEN Append(Kept(queue[c]), m) ELSE queue[c]]
    /\ lagged' = lagged \cup {c \in Subscribed : Len(queue[c]) = Capacity}

\* Slip: a room without players is shown like any other.
SlipBroadcast == Send(State(version'))

\* state_broadcast, after the room has changed: a room without players is
\* announced as closed, never shown.
Broadcast == Send(IF roster' = {} THEN RoomClosed ELSE State(version'))

-----------------------------------------------------------------------------
(* The life of a connection.                                               *)

\* Its task waits for the next message, the next broadcast or the next tick.
Waiting(c) == conn[c] = "open" /\ c \notin resyncing \cup removing

\* ws_route looks whether the room is there and spawns the connection's task.
Accept(c) ==
    /\ conn[c] = "new"
    /\ conn' = [conn EXCEPT ![c] = IF live THEN "accepted" ELSE "ended"]
    /\ UNCHANGED <<roomVars, me, resyncing, removing, view, told, queue, lagged, due, race>>

\* The task begins: it ends at once if the room has gone in between.
Subscribe(c) ==
    /\ conn[c] = "accepted"
    /\ conn' = [conn EXCEPT ![c] = IF live THEN "open" ELSE "ended"]
    /\ UNCHANGED <<roomVars, me, resyncing, removing, view, told, queue, lagged, due, race>>

\* A first join that is accepted: a player's token, or a name nobody had.
Join(c, p) ==
    /\ Waiting(c) /\ live /\ me[c] = None
    /\ p \in roster \/ \A d \in Conn : me[d] # p
    /\ version < MaxVersion
    /\ version' = version + 1
    /\ roster' = roster \cup {p}
    /\ owner' = [owner EXCEPT ![p] = c]
    /\ me' = [me EXCEPT ![c] = p]
    /\ Broadcast
    /\ UNCHANGED <<live, conn, resyncing, removing, view, told, due>>

\* A join that finds no room ends the connection.
JoinNowhere(c) ==
    /\ Waiting(c) /\ ~live /\ me[c] = None
    /\ conn' = [conn EXCEPT ![c] = "ended"]
    /\ queue' = [queue EXCEPT ![c] = <<>>]
    /\ UNCHANGED <<roomVars, me, resyncing, removing, view, told, lagged, due, race>>

\* The handler notes, still under the lock, whether the roster is empty.
SeesRoster(c) == removing' = IF roster' = {} THEN removing \cup {c} ELSE removing

\* A message that changes the room, and may remove a player.
Change(c) ==
    /\ Waiting(c) /\ live /\ me[c] # None
    /\ roster # {}
    /\ roster' \in {roster} \cup {roster \ {p} : p \in roster}
    /\ version < MaxVersion
    /\ version' = version + 1
    /\ Broadcast
    /\ SeesRoster(c)
    /\ due' = IF roster' = {} THEN Subscribed ELSE due
    /\ UNCHANGED <<live, owner, conn, me, resyncing, view, told>>

\* A message that is answered to one player: a nudge, or one that was refused.
Answer(c, p) ==
    /\ Waiting(c) /\ live /\ me[c] # None
    /\ Send(Note(p))
    /\ UNCHANGED roster /\ SeesRoster(c)
    /\ UNCHANGED <<live, version, owner, conn, me, resyncing, view, told, due>>

\* The handler that saw the roster empty drops the room, whoever is in it now.
RemoveRoom(c) ==
    /\ c \in removing
    /\ removing' = removing \ {c}
    /\ live' = FALSE
    /\ UNCHANGED <<version, roster, owner, conn, me, resyncing, view, told,
                   queue, lagged, due, race>>

\* The sweep drops the room.
Sweep ==
    /\ live
    /\ live' = FALSE
    /\ UNCHANGED <<version, roster, owner, readerVars, queue, lagged, due, race>>

\* rx.recv() returns a message: what is for another player is not forwarded.
Recv(c) ==
    /\ Waiting(c) /\ c \notin lagged /\ queue[c] # <<>>
    /\ LET m == Head(queue[c]) IN
          /\ view' = IF m.to = Everyone /\ m # RoomClosed
                     THEN [view EXCEPT ![c] = m.says] ELSE view
          /\ told' = IF m = RoomClosed THEN told \cup {c} ELSE told
    /\ queue' = [queue EXCEPT ![c] = Tail(@)]
    /\ UNCHANGED <<roomVars, conn, me, lagged, resyncing, removing, due, race>>

\* rx.recv() returns Lagged: the receiver goes on with the oldest message kept.
RecvLagged(c) ==
    /\ Waiting(c) /\ c \in lagged
    /\ lagged' = lagged \ {c}
    /\ resyncing' = resyncing \cup {c}
    /\ UNCHANGED <<roomVars, conn, me, removing, view, told, queue, due, race>>

\* Slip: the client is not sent the room.
SlipShown(c) == view

\* The client is shown the room as it stands, if it is still there.
Shown(c) == IF live THEN [view EXCEPT ![c] = version] ELSE view

Resync(c) ==
    /\ c \in resyncing
    /\ view' = Shown(c)
    /\ resyncing' = resyncing \ {c}
    /\ UNCHANGED <<roomVars, conn, me, removing, told, queue, lagged, due, race>>

\* Slip: only a connection that has joined ends with its room.
SlipChannelClosed(c) == ~live /\ me[c] # None

\* The sender is gone with its room.
ChannelClosed(c) == ~live

\* rx.recv() returns Closed, once everything that was sent has been taken.
RecvClosed(c) ==
    /\ Waiting(c) /\ c \notin lagged /\ queue[c] = <<>>
    /\ ChannelClosed(c)
    /\ conn' = [conn EXCEPT ![c] = "ended"]
    /\ UNCHANGED <<roomVars, me, resyncing, removing, view, told, queue, lagged, due, race>>

\* No newer connection has attached to its player, who is still in the room.
Owns(c) == me[c] # None /\ me[c] \in roster /\ owner[me[c]] = c

\* The peer closes, or does not answer; the room is told if the connection still
\* owns its player.
Ends(c) ==
    /\ Waiting(c)
    /\ conn' = [conn EXCEPT ![c] = "ended"]
    /\ \/ /\ live /\ Owns(c)
          /\ version < MaxVersion
          /\ version' = version + 1
          /\ owner' = [owner EXCEPT ![me[c]] = None]
          /\ UNCHANGED roster
          /\ Broadcast
       \/ /\ ~(live /\ Owns(c))
          /\ UNCHANGED <<version, roster, owner, queue, lagged, race>>
    /\ UNCHANGED <<live, me, resyncing, removing, view, told, due>>

Next ==
    \/ \E c \in Conn :
          \/ Accept(c) \/ Subscribe(c) \/ JoinNowhere(c)
          \/ \E p \in Player : Join(c, p) \/ Answer(c, p)
          \/ Change(c) \/ RemoveRoom(c)
          \/ Recv(c) \/ RecvLagged(c) \/ Resync(c) \/ RecvClosed(c)
          \/ Ends(c)
    \/ Sweep

\* A task takes what its receiver has, and a handler finishes what it began.
\* No client has to connect, to say anything or to leave.
Fairness ==
    \A c \in Conn :
        /\ WF_vars(Subscribe(c)) /\ WF_vars(RemoveRoom(c))
        /\ WF_vars(Recv(c) \/ RecvLagged(c) \/ RecvClosed(c)) /\ WF_vars(Resync(c))

Spec == Init /\ [][Next]_vars /\ Fairness

-----------------------------------------------------------------------------
\* The room, its channel and its connections keep their types; no receiver has
\* more than the channel holds.
TypeOK ==
    /\ live \in BOOLEAN
    /\ version \in 1..MaxVersion
    /\ roster \subseteq Player
    /\ owner \in [Player -> Conn \cup {None}]
    /\ conn \in [Conn -> {"new", "accepted", "open", "ended"}]
    /\ me \in [Conn -> Player \cup {None}]
    /\ queue \in [Conn -> Seq(Message)]
    /\ \A c \in Conn : Len(queue[c]) <= Capacity
    /\ lagged \subseteq Conn /\ resyncing \subseteq Conn /\ removing \subseteq Conn
    /\ view \in [Conn -> 0..MaxVersion]
    /\ told \subseteq Conn /\ due \subseteq Conn
    /\ race \in 0..MaxRace

\* Everything sent to the connection has been taken, and nothing was missed.
Drained(c) ==
    conn[c] = "open" /\ queue[c] = <<>> /\ c \notin lagged \cup resyncing

\* A joined client that has taken everything is looking at the room as it is,
\* however far it had fallen behind: what it is sent after a resync is older than
\* the resync, and still ends with the newest state.
CaughtUp ==
    \A c \in Conn :
        live /\ roster # {} /\ me[c] # None /\ Drained(c) => view[c] = version

\* A client that was there when the last player left is told that the room is
\* closed before its socket ends, also if it lags and if somebody joins before
\* the room is dropped.
ClosedIsTold == \A c \in due : ~live /\ Drained(c) => c \in told

\* Once the room has gone, every connection to it ends, joined or not.
SocketsEnd ==
    \A c \in Conn : ~live ~> conn[c] \in {"new", "ended"}
=============================================================================
