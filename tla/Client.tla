------------------------------- MODULE Client -------------------------------
(***************************************************************************)
(* The page of one player in one room: the store and its socket, which     *)
(* reconnects, joins again and gives up, against the server's side of that *)
(* socket and the seats of the room.  The rest of the server is in Room    *)
(* and Feed; other players only show as removals and as the room's end.    *)
(***************************************************************************)
EXTENDS Integers, Sequences, FiniteSets

CONSTANTS
    MaxAttempts,  \* MAX_RECONNECT_ATTEMPTS
    MaxSeats,     \* bound: players this page has been
    MaxVisits,    \* bound: times the user opens the page
    MaxDrops,     \* bound: connections lost and handshakes failed
    MaxQueue      \* bound: messages on the way, and waiting to be sent

ASSUME ClientAssumption ==
    {MaxAttempts, MaxSeats, MaxVisits, MaxDrops, MaxQueue} \subseteq Nat

None == 0
Token == 1..MaxSeats

VARIABLES
    phase,             \* "idle", "connecting", "open", "waiting", "closed" or "gone"
    attempts,          \* reconnects that failed in a row
    sendQueue,         \* messages waiting for the socket to open
    me,                \* the seat the page was welcomed to on this visit, or None
    saved,             \* the token in the browser's storage, or None
    joiningWithToken,  \* the last join carried a token and was not answered
    roomGone,          \* the page has been told to go home
    rejected,          \* a first join was refused
    asked,             \* the view has called join on this visit
    toServer,          \* messages on their way to the server
    toClient,          \* and back
    srvMe,             \* the player the server's side has joined as, or None
    seats,             \* tokens of the room's players that were minted for this page
    minted,            \* tokens minted so far
    exists,            \* the room is in the registry
    visits, drops      \* the bounded events so far

pageVars == <<sendQueue, me, saved, joiningWithToken, roomGone, rejected, asked>>
socketVars == <<phase, attempts>>
wireVars == <<toServer, toClient, srvMe>>
roomVars == <<seats, minted, exists>>
vars == <<pageVars, socketVars, wireVars, roomVars, visits, drops>>

Join(t) == [type |-> "join", token |-> t]
Act == [type |-> "act", token |-> None]
Welcome(t) == [type |-> "welcome", token |-> t]
\* Every other message: an error by its code, or RoomClosed.
Says(type) == [type |-> type, token |-> None]
Replies == {"not_joined", "not_found", "wrong_state", "refused", "room_closed"}
Request == [type : {"join", "act"}, token : Token \cup {None}]
Answer == [type : Replies \cup {"welcome"}, token : Token \cup {None}]

Init ==
    /\ phase = "idle" /\ attempts = 0 /\ sendQueue = <<>>
    /\ me = None /\ saved = None /\ joiningWithToken = FALSE
    /\ roomGone = FALSE /\ rejected = FALSE /\ asked = FALSE
    /\ toServer = <<>> /\ toClient = <<>> /\ srvMe = None
    /\ seats = {} /\ minted = 0 /\ exists = TRUE
    /\ visits = 0 /\ drops = 0

-----------------------------------------------------------------------------
(* The socket.                                                             *)

NoWire == toServer' = <<>> /\ toClient' = <<>> /\ srvMe' = None

\* Slip: one attempt too many.
SlipGivesUp == attempts > MaxAttempts

\* One more failure is one too many.
GivesUp == attempts + 1 > MaxAttempts

\* onclose, unless the page closed the socket: try again later, or give up.
OnClose ==
    /\ attempts' = attempts + 1
    /\ phase' = IF GivesUp THEN "gone" ELSE "waiting"
    /\ roomGone' = (roomGone \/ GivesUp)
    /\ NoWire
    /\ UNCHANGED <<sendQueue, me, saved, joiningWithToken, rejected, asked>>

\* Slip: every attempt counts as the first.
SlipAttemptsOnOpen == 0

AttemptsOnOpen == attempts

\* The timer of scheduleReconnect runs out.
TimerFires ==
    /\ phase = "waiting"
    /\ phase' = "connecting"
    /\ attempts' = AttemptsOnOpen
    /\ UNCHANGED <<pageVars, wireVars, roomVars, visits, drops>>

\* Slip: the store joins again without a token too.
SlipJoinsAgain == me # None

\* Slip: the store leaves the join to the view.
SlipJoinsAgainNever == FALSE

\* The store's answer to the status "open".
JoinsAgain == me # None /\ saved # None

\* Slip: what waited is sent first.
SlipOpening(again) == sendQueue \o again

\* The status callback runs before the queue is flushed.
Opening(again) == again \o sendQueue

\* onopen: the server's side is a new connection, which has not joined.
OnOpen ==
    /\ phase = "connecting" /\ exists
    /\ phase' = "open" /\ attempts' = 0
    /\ toServer' = Opening(IF JoinsAgain THEN <<Join(saved)>> ELSE <<>>)
    /\ toClient' = <<>> /\ srvMe' = None
    /\ joiningWithToken' = (joiningWithToken \/ (JoinsAgain /\ saved # None))
    /\ sendQueue' = <<>>
    /\ UNCHANGED <<me, saved, roomGone, rejected, asked, roomVars, visits, drops>>

\* The handshake finds no room.
NotFound ==
    /\ phase = "connecting" /\ ~exists
    /\ OnClose
    /\ UNCHANGED <<roomVars, visits, drops>>

\* The network fails, before or after the socket is open.
Drop ==
    /\ phase \in {"connecting", "open"} /\ drops < MaxDrops
    /\ drops' = drops + 1
    /\ OnClose
    /\ UNCHANGED <<roomVars, visits>>

\* RoomSocket::send.
Send(m) ==
    IF phase = "open"
    THEN toServer' = Append(toServer, m) /\ UNCHANGED sendQueue
    ELSE sendQueue' = Append(sendQueue, m) /\ UNCHANGED toServer

-----------------------------------------------------------------------------
(* The user.                                                               *)

\* The page is opened on the room: connect() forgets what it was, and a token or
\* a name that was handed over is used to join at once.
Visit ==
    /\ visits < MaxVisits
    /\ visits' = visits + 1
    /\ phase' = "connecting" /\ attempts' = 0
    /\ me' = None /\ roomGone' = FALSE /\ rejected' = FALSE
    /\ asked' \in {TRUE, saved # None}
    /\ sendQueue' = IF asked' THEN <<Join(saved)>> ELSE <<>>
    /\ joiningWithToken' = IF asked' THEN saved # None ELSE joiningWithToken
    /\ NoWire
    /\ UNCHANGED <<saved, roomVars, drops>>

\* The user names himself when asked to.
SubmitName ==
    /\ phase # "idle" /\ ~asked /\ ~roomGone
    /\ asked' = TRUE
    /\ joiningWithToken' = (saved # None)
    /\ Send(Join(saved))
    /\ UNCHANGED <<me, saved, roomGone, rejected, socketVars, toClient, srvMe,
                   roomVars, visits, drops>>

\* The user does what a player does: end a turn, nudge, remove somebody.
DoSomething ==
    /\ me # None /\ ~roomGone
    /\ Len(sendQueue) < MaxQueue /\ Len(toServer) < MaxQueue
    /\ Send(Act)
    /\ UNCHANGED <<me, saved, joiningWithToken, roomGone, rejected, asked, socketVars,
                   toClient, srvMe, roomVars, visits, drops>>

-----------------------------------------------------------------------------
(* The store's handler of messages.                                        *)

\* Slip: the flag of the join is left as it is.
SlipAfterWelcome == joiningWithToken

AfterWelcome == FALSE

HandleWelcome(m) ==
    /\ m.type = "welcome"
    /\ me' = m.token /\ saved' = m.token
    /\ joiningWithToken' = AfterWelcome
    /\ toClient' = Tail(toClient)
    /\ UNCHANGED <<sendQueue, roomGone, rejected, asked, socketVars, toServer, srvMe>>

\* The socket is closed for good.
HandleRoomClosed(m) ==
    /\ m.type = "room_closed"
    /\ saved' = None /\ roomGone' = TRUE
    /\ phase' = "closed" /\ sendQueue' = <<>>
    /\ NoWire
    /\ UNCHANGED <<me, joiningWithToken, rejected, asked, attempts>>

\* The token of a join is not known: it is dropped.
HandleNotFound(m) ==
    /\ m.type = "not_found" /\ joiningWithToken
    /\ saved' = None /\ joiningWithToken' = FALSE /\ roomGone' = TRUE
    /\ toClient' = Tail(toClient)
    /\ UNCHANGED <<sendQueue, me, rejected, asked, socketVars, toServer, srvMe>>

\* Any other error is shown; a first join that was refused also ends there.
HandleError(m) ==
    /\ \/ m.type \in {"not_joined", "wrong_state", "refused"}
       \/ m.type = "not_found" /\ ~joiningWithToken
    /\ rejected' = (rejected \/ (m.type = "refused" /\ me = None))
    /\ toClient' = Tail(toClient)
    /\ UNCHANGED <<sendQueue, me, saved, joiningWithToken, roomGone, asked, socketVars,
                   toServer, srvMe>>

Deliver ==
    /\ phase = "open" /\ toClient # <<>>
    /\ LET m == Head(toClient) IN
          HandleWelcome(m) \/ HandleRoomClosed(m) \/ HandleNotFound(m) \/ HandleError(m)
    /\ UNCHANGED <<roomVars, visits, drops>>

-----------------------------------------------------------------------------
(* The server's side.                                                      *)

Reply(m) == toClient' = Append(toClient, m)

\* handle_join.
ServeJoin(t) ==
    \/ srvMe # None /\ Reply(Says("wrong_state")) /\ UNCHANGED <<srvMe, seats, minted>>
    \/ /\ srvMe = None /\ t \in seats
       /\ srvMe' = t /\ Reply(Welcome(t))
       /\ UNCHANGED <<seats, minted>>
    \/ /\ srvMe = None /\ t # None /\ t \notin seats
       /\ Reply(Says("not_found")) /\ UNCHANGED <<srvMe, seats, minted>>
    \/ /\ srvMe = None /\ t = None /\ minted < MaxSeats
       /\ minted' = minted + 1 /\ seats' = seats \cup {minted'}
       /\ srvMe' = minted' /\ Reply(Welcome(minted'))
    \/ /\ srvMe = None /\ t = None
       /\ Reply(Says("refused")) /\ UNCHANGED <<srvMe, seats, minted>>

\* Any other message: refused before a join, done or refused after it.
ServeAct ==
    /\ \/ srvMe = None /\ Reply(Says("not_joined"))
       \/ srvMe # None /\ (UNCHANGED toClient \/ Reply(Says("not_found")))
    /\ UNCHANGED <<srvMe, seats, minted>>

Serve ==
    /\ phase = "open" /\ exists /\ toServer # <<>> /\ Len(toClient) < MaxQueue
    /\ LET m == Head(toServer) IN
          \/ m.type = "join" /\ ServeJoin(m.token)
          \/ m.type = "act" /\ ServeAct
    /\ toServer' = Tail(toServer)
    /\ UNCHANGED <<pageVars, socketVars, exists, visits, drops>>

\* The host removes this page's player.
IsRemoved(t) ==
    /\ t \in seats
    /\ seats' = seats \ {t}
    /\ UNCHANGED <<pageVars, socketVars, wireVars, minted, exists, visits, drops>>

\* The room closes and says so, or is swept and does not.
RoomGoes ==
    /\ exists
    /\ exists' = FALSE /\ seats' = {}
    /\ \/ phase = "open" /\ Reply(Says("room_closed"))
       \/ UNCHANGED toClient
    /\ UNCHANGED <<pageVars, socketVars, toServer, srvMe, minted, visits, drops>>

\* The connection of a room that has gone ends.
EndsWithRoom ==
    /\ phase = "open" /\ ~exists /\ toClient = <<>>
    /\ OnClose
    /\ UNCHANGED <<roomVars, visits, drops>>

\* The server restarts: every connection is lost, and so may be the last players.
Restart ==
    /\ drops < MaxDrops
    /\ drops' = drops + 1
    /\ seats' \in SUBSET seats
    /\ IF phase = "open" THEN OnClose ELSE UNCHANGED <<pageVars, socketVars, wireVars>>
    /\ UNCHANGED <<minted, exists, visits>>

Next ==
    \/ TimerFires \/ OnOpen \/ NotFound \/ Drop
    \/ Visit \/ SubmitName \/ DoSomething
    \/ Deliver
    \/ Serve \/ RoomGoes \/ EndsWithRoom \/ Restart
    \/ \E t \in Token : IsRemoved(t)

\* The browser runs its timers and delivers what it received, and a handshake
\* or the end of a connection becomes known.
Fairness ==
    /\ WF_vars(TimerFires) /\ WF_vars(OnOpen \/ NotFound)
    /\ WF_vars(Deliver) /\ WF_vars(EndsWithRoom)

Spec == Init /\ [][Next]_vars /\ Fairness

-----------------------------------------------------------------------------
\* The page, the wire and the room keep their types, and the page never tries
\* more than MAX_RECONNECT_ATTEMPTS times.
TypeOK ==
    /\ phase \in {"idle", "connecting", "open", "waiting", "closed", "gone"}
    /\ attempts \in 0..(MaxAttempts + 1)
    /\ sendQueue \in Seq(Request)
    /\ me \in Token \cup {None} /\ saved \in Token \cup {None}
    /\ {joiningWithToken, roomGone, rejected, asked, exists} \subseteq BOOLEAN
    /\ toServer \in Seq(Request)
    /\ toClient \in Seq(Answer)
    /\ srvMe \in Token \cup {None}
    /\ seats \subseteq Token
    /\ minted \in 0..MaxSeats
    /\ visits \in 0..MaxVisits /\ drops \in 0..MaxDrops

Settled ==
    phase = "open" /\ toServer = <<>> /\ toClient = <<>> /\ ~roomGone /\ ~rejected

\* The token of a seat that is still there is never thrown away: not for an
\* error that answers something else than the join.
TokenKept == [][saved # None /\ saved' = None => saved \notin seats]_vars

\* A page that was welcomed never asks for another seat, not even after its
\* token was dropped: the join of a reconnect would mint a phantom player.
NoPhantom ==
    me # None =>
        \A i \in 1..Len(toServer) : toServer[i] # Join(None)

\* A page that was welcomed hears not_joined only if its seat is gone: whatever
\* it sends after a reconnect comes behind the join, what waited included.
NotJoinedOnlyIfLost ==
    [][Len(toClient') = Len(toClient) + 1 /\ toClient'[Len(toClient')] = Says("not_joined")
        => me \notin seats]_vars

\* A page that was welcomed is joined again on every new connection.
StaysJoined == Settled /\ me # None => srvMe # None

\* A room that is gone is noticed, and the page stops trying to reach it.
RoomGoneIsNoticed == ~exists /\ phase # "idle" ~> roomGone

\* A page that has asked to join is joined, or refused, once its connection is
\* settled: a reconnect opens a fresh connection, "so we must re-send `join`".
JoinIsResent == Settled /\ asked => srvMe # None
=============================================================================
