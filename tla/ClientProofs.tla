---------------------------- MODULE ClientProofs ----------------------------
(***************************************************************************)
(* What holds of the page of a player for any number of seats, visits,     *)
(* lost connections, reconnects and messages.                              *)
(*                                                                         *)
(* The argument is about one connection at a time: at most one join is     *)
(* ever sent on it, that join comes before whatever the user does, and the *)
(* answers come back in order, so the page knows which error answers it.   *)
(***************************************************************************)
EXTENDS Client, TLAPS

\* A message of this type is among those of s.
Has(s, type) == \E i \in 1..Len(s) : s[i].type = type

LEMMA HasNothing == \A type : ~Has(<< >>, type)
BY DEF Has

LEMMA HasAppend ==
    ASSUME NEW S, NEW s \in Seq(S), NEW m \in S, NEW type
    PROVE  /\ Append(s, m) \in Seq(S)
           /\ Append(s, m) # << >>
           /\ Has(Append(s, m), type) <=> Has(s, type) \/ m.type = type
           /\ Len(Append(s, m)) = Len(s) + 1
           /\ Append(s, m)[Len(Append(s, m))] = m
           /\ s # << >> => Head(Append(s, m)) = Head(s)
           /\ s = << >> => Head(Append(s, m)) = m
<1> DEFINE t == Append(s, m)
<1>1. /\ t \in Seq(S) /\ Len(t) = Len(s) + 1 /\ Len(s) \in Nat
      /\ \A i \in 1..Len(s) : t[i] = s[i]
      /\ t[Len(s) + 1] = m
  OBVIOUS
<1>2. t # << >> /\ Head(t) = t[1]
  BY <1>1
<1>3. s # << >> => 1 \in 1..Len(s) /\ Head(s) = s[1]
  OBVIOUS
<1> HIDE DEF t
<1>4. Has(t, type) <=> Has(s, type) \/ m.type = type
  BY <1>1 DEF Has
<1> QED
  BY <1>1, <1>2, <1>3, <1>4 DEF t

LEMMA HasTail ==
    ASSUME NEW S, NEW s \in Seq(S), s # << >>, NEW type
    PROVE  /\ Tail(s) \in Seq(S) /\ Head(s) \in S
           /\ Len(Tail(s)) = Len(s) - 1 /\ Len(s) \in Nat \ {0}
           /\ \A i \in 1..(Len(s) - 1) : Tail(s)[i] = s[i + 1]
           /\ Head(s) = s[1]
           /\ Has(s, type) <=> Head(s).type = type \/ Has(Tail(s), type)
<1> DEFINE t == Tail(s)
<1>1. /\ t \in Seq(S) /\ Head(s) \in S
      /\ Len(t) = Len(s) - 1 /\ Len(s) \in Nat \ {0}
      /\ \A i \in 1..(Len(s) - 1) : t[i] = s[i + 1]
      /\ Head(s) = s[1]
  OBVIOUS
<1> HIDE DEF t
<1>2. ASSUME Has(t, type) PROVE Has(s, type)
  <2>1. PICK i \in 1..Len(t) : t[i].type = type
    BY <1>2 DEF Has
  <2>2. i + 1 \in 1..Len(s) /\ t[i] = s[i + 1]
    BY <1>1
  <2> QED
    BY <2>1, <2>2 DEF Has
<1>3. Head(s).type = type => Has(s, type)
  BY <1>1 DEF Has
<1>4. ASSUME Has(s, type), Head(s).type # type PROVE Has(t, type)
  <2>1. PICK i \in 1..Len(s) : s[i].type = type
    BY <1>4 DEF Has
  <2>2. i # 1 /\ i - 1 \in 1..(Len(s) - 1) /\ t[i - 1] = s[i]
    BY <1>1, <1>4, <2>1
  <2> QED
    BY <1>1, <2>1, <2>2 DEF Has
<1> QED
  BY <1>1, <1>2, <1>3, <1>4 DEF t

-----------------------------------------------------------------------------
(* Types.                                                                  *)

\* The page counts no further than the failure that makes it give up.
Patient == phase # "gone" => attempts <= MaxAttempts

TypeInv == TypeOK /\ Patient

LEMMA MessagesTyped ==
    /\ \A t \in Token \cup {None} : Join(t) \in Request
    /\ Act \in Request
    /\ \A t \in Token : Welcome(t) \in Answer
    /\ \A type \in Replies : Says(type) \in Answer
BY DEF Join, Act, Welcome, Says, Request, Answer

LEMMA OnCloseTyped ==
    ASSUME ClientAssumption, TypeInv, OnClose, phase \in {"connecting", "open"},
           seats' \subseteq Token, UNCHANGED <<minted, exists, visits>>,
           drops' \in 0..MaxDrops
    PROVE  TypeInv'
BY DEF ClientAssumption, TypeInv, TypeOK, Patient, OnClose, GivesUp, NoWire, None

LEMMA TypeInvNext == ASSUME ClientAssumption, TypeInv, [Next]_vars PROVE TypeInv'
<1> USE DEF TypeInv, TypeOK, Patient
<1>1. CASE TimerFires
  BY <1>1 DEF TimerFires, AttemptsOnOpen, pageVars, wireVars, roomVars
<1>2. CASE OnOpen
  <2>1. toServer' \in Seq(Request)
    <3>1. (IF JoinsAgain THEN <<Join(saved)>> ELSE <<>>) \in Seq(Request)
      BY MessagesTyped
    <3> QED
      BY <1>2, <3>1 DEF OnOpen, Opening
  <2> QED
    BY <1>2, <2>1 DEF OnOpen, ClientAssumption, roomVars, None
<1>3. CASE NotFound
  BY <1>3, OnCloseTyped DEF NotFound, roomVars
<1>4. CASE Drop
  BY <1>4, OnCloseTyped DEF Drop, roomVars, ClientAssumption
<1>5. CASE EndsWithRoom
  BY <1>5, OnCloseTyped DEF EndsWithRoom, roomVars
<1>6. CASE Restart
  <2>1. drops' \in 0..MaxDrops
    BY <1>6 DEF Restart, ClientAssumption
  <2>2. CASE phase = "open"
    BY <1>6, <2>1, <2>2, OnCloseTyped DEF Restart
  <2>3. CASE phase # "open"
    BY <1>6, <2>1, <2>3 DEF Restart, pageVars, socketVars, wireVars
  <2> QED
    BY <2>2, <2>3
<1>7. CASE Visit
  <2>1. sendQueue' \in Seq(Request)
    BY <1>7, MessagesTyped DEF Visit
  <2>2. {asked', joiningWithToken'} \subseteq BOOLEAN
    <3>1. (saved # None) \in BOOLEAN
      OBVIOUS
    <3> QED
      BY <1>7, <3>1, Zenon DEF Visit
  <2>3. attempts' \in 0..MaxAttempts /\ visits' \in 0..MaxVisits
    BY <1>7 DEF Visit, ClientAssumption
  <2>4. toServer' = << >> /\ toClient' = << >> /\ srvMe' = None /\ me' = None
        /\ phase' = "connecting" /\ roomGone' = FALSE /\ rejected' = FALSE
        /\ UNCHANGED <<saved, seats, minted, exists, drops>>
    BY <1>7 DEF Visit, NoWire, roomVars
  <2>5. /\ toServer' \in Seq(Request) /\ toClient' \in Seq(Answer)
        /\ srvMe' \in Token \cup {None} /\ me' \in Token \cup {None}
        /\ phase' \in {"idle", "connecting", "open", "waiting", "closed", "gone"}
        /\ phase' # "gone" => attempts' <= MaxAttempts
    BY <2>3, <2>4 DEF ClientAssumption
  <2>6. {joiningWithToken', roomGone', rejected', asked', exists'} \subseteq BOOLEAN
    BY <2>2, <2>4
  <2>7. attempts' \in 0..(MaxAttempts + 1)
    BY <2>3 DEF ClientAssumption
  <2> QED
    BY <2>1, <2>3, <2>4, <2>5, <2>6, <2>7
<1>8. ASSUME NEW m \in Request, Send(m)
      PROVE  sendQueue' \in Seq(Request) /\ toServer' \in Seq(Request)
  <2>1. Append(sendQueue, m) \in Seq(Request) /\ Append(toServer, m) \in Seq(Request)
    OBVIOUS
  <2> QED
    BY <1>8, <2>1 DEF Send
<1>9. CASE SubmitName
  <2>1. sendQueue' \in Seq(Request) /\ toServer' \in Seq(Request)
    BY <1>8, <1>9, MessagesTyped DEF SubmitName
  <2> QED
    BY <1>9, <2>1 DEF SubmitName, socketVars, roomVars
<1>10. CASE DoSomething
  <2>1. sendQueue' \in Seq(Request) /\ toServer' \in Seq(Request)
    BY <1>8, <1>10, MessagesTyped DEF DoSomething
  <2> QED
    BY <1>10, <2>1 DEF DoSomething, socketVars, roomVars
<1>11. CASE Deliver
  <2>1. Head(toClient) \in Answer /\ Tail(toClient) \in Seq(Answer)
    BY <1>11, HasTail DEF Deliver
  <2>2. PICK m \in Answer :
           HandleWelcome(m) \/ HandleRoomClosed(m) \/ HandleNotFound(m) \/ HandleError(m)
    BY <1>11, <2>1 DEF Deliver
  <2>3. UNCHANGED <<roomVars, visits, drops>> /\ phase = "open"
    BY <1>11 DEF Deliver
  <2>4. toClient' = Tail(toClient) \/ NoWire
    BY <1>11 DEF Deliver, HandleWelcome, HandleRoomClosed, HandleNotFound, HandleError
  <2>5. CASE HandleWelcome(m)
    BY <2>1, <2>3, <2>5, <1>11
       DEF Deliver, HandleWelcome, AfterWelcome, Answer, socketVars, roomVars
  <2>6. CASE HandleRoomClosed(m)
    BY <2>3, <2>6 DEF HandleRoomClosed, NoWire, roomVars, None
  <2>7. CASE HandleNotFound(m)
    BY <2>1, <2>3, <2>7 DEF HandleNotFound, Answer, socketVars, roomVars
  <2>8. CASE HandleError(m)
    BY <2>1, <2>3, <2>8 DEF HandleError, Answer, socketVars, roomVars
  <2> QED
    BY <2>2, <2>5, <2>6, <2>7, <2>8
<1>12. CASE Serve
  <2>1. Head(toServer) \in Request /\ Tail(toServer) \in Seq(Request)
    BY <1>12, HasTail DEF Serve
  <2>2. ASSUME NEW m \in Answer, Reply(m) PROVE toClient' \in Seq(Answer)
    BY <2>2, HasAppend DEF Reply
  <2>3. ASSUME NEW t \in Token \cup {None}, ServeJoin(t)
        PROVE  /\ toClient' \in Seq(Answer) /\ srvMe' \in Token \cup {None}
               /\ seats' \subseteq Token /\ minted' \in 0..MaxSeats
    <3>1. minted < MaxSeats => minted + 1 \in Token /\ minted + 1 \in 0..MaxSeats
      BY DEF ClientAssumption, Token
    <3>2. srvMe' \in Token \cup {None} /\ seats' \subseteq Token /\ minted' \in 0..MaxSeats
      BY <2>3, <3>1 DEF ServeJoin
    <3>3. \E m \in Answer : Reply(m)
      BY <2>3, <3>1, MessagesTyped DEF ServeJoin, Replies
    <3> QED
      BY <2>2, <3>2, <3>3
  <2>4. ASSUME ServeAct
        PROVE  /\ toClient' \in Seq(Answer) /\ srvMe' \in Token \cup {None}
               /\ seats' \subseteq Token /\ minted' \in 0..MaxSeats
    BY <2>2, <2>4, MessagesTyped DEF ServeAct, Replies
  <2> QED
    BY <1>12, <2>1, <2>3, <2>4 DEF Serve, Request, pageVars, socketVars
<1>13. CASE RoomGoes
  <2>1. toClient' \in Seq(Answer)
    <3>1. Append(toClient, Says("room_closed")) \in Seq(Answer)
      BY MessagesTyped DEF Replies
    <3> QED
      BY <1>13, <3>1 DEF RoomGoes, Reply
  <2> QED
    BY <1>13, <2>1 DEF RoomGoes, pageVars, socketVars
<1>14. ASSUME NEW t \in Token, IsRemoved(t) PROVE TypeInv'
  BY <1>14 DEF IsRemoved, pageVars, socketVars, wireVars
<1>15. CASE UNCHANGED vars
  BY <1>15 DEF vars, pageVars, socketVars, wireVars, roomVars
<1> QED
  BY <1>1, <1>2, <1>3, <1>4, <1>5, <1>6, <1>7, <1>9, <1>10, <1>11, <1>12, <1>13,
     <1>14, <1>15 DEF Next

LEMMA TypeInvInit == ASSUME ClientAssumption, Init PROVE TypeInv
<1>1. /\ 0 \in 0..(MaxAttempts + 1) /\ 0 \in 0..MaxSeats /\ 0 \in 0..MaxVisits
      /\ 0 \in 0..MaxDrops /\ 0 <= MaxAttempts
  BY DEF ClientAssumption
<1>2. << >> \in Seq(Request) /\ << >> \in Seq(Answer)
  OBVIOUS
<1>3. {joiningWithToken, roomGone, rejected, asked, exists} \subseteq BOOLEAN
  BY DEF Init
<1> QED
  BY <1>1, <1>2, <1>3 DEF Init, TypeInv, TypeOK, Patient

LEMMA TypeInvariant == Spec => []TypeInv
<1>1. Init => TypeInv
  BY TypeInvInit, ClientAssumption
<1>2. TypeInv /\ [Next]_vars => TypeInv'
  BY TypeInvNext, ClientAssumption
<1> QED
  BY <1>1, <1>2, PTL DEF Spec

\* The page, the wire and the room keep their types, and the page never counts
\* more than one failure beyond MAX_RECONNECT_ATTEMPTS, after which it gives up.
THEOREM TypeCorrect == Spec => []TypeOK
BY TypeInvariant, PTL DEF TypeInv
-----------------------------------------------------------------------------
(* The inductive invariant.                                                *)

\* Nothing is on the wire unless the socket is open, and then nothing waits for it.
WireIsOpen ==
    IF phase = "open" THEN sendQueue = << >>
                      ELSE toServer = << >> /\ toClient = << >> /\ srvMe = None

\* A welcome names a seat, and the server's side has joined when it says so.
WelcomedAreSeated ==
    \A i \in 1..Len(toClient) :
        toClient[i].type = "welcome" => toClient[i].token # None /\ srvMe # None

\* At most one join is among the messages of s, with the token that is kept.
OneJoin(s) ==
    \A i, j \in 1..Len(s) :
        s[i].type = "join" => s[i].token = saved /\ (s[j].type = "join" => i = j)

JoinsAreMine == OneJoin(sendQueue) /\ OneJoin(toServer)

\* A join on its way is the first of its connection: nothing has answered one yet.
JoinFirst ==
    Has(toServer, "join") => srvMe = None /\ ~Has(toClient, "not_found")

\* A join that waits is that of a page which has not been welcomed.
QueuedJoinIsFirst == Has(sendQueue, "join") => me = None

\* A page that has not asked to join has sent nothing and heard of no seat.
NothingUnasked ==
    ~asked => /\ me = None /\ srvMe = None
              /\ sendQueue = << >> /\ toServer = << >>
              /\ ~Has(toClient, "not_found")

\* not_found, when nobody has joined, is the answer to the join, and still true.
NotFoundIsTrue == srvMe = None /\ Has(toClient, "not_found") => saved \notin seats

\* While the page waits for the answer to a join that was accepted, the welcome
\* comes before any not_found.
WelcomeComesFirst ==
    srvMe # None /\ joiningWithToken =>
        \E i \in 1..Len(toClient) :
            /\ toClient[i].type = "welcome"
            /\ \A j \in 1..i : toClient[j].type # "not_found"

\* A welcomed page keeps the token of its seat until it has lost that seat.
TokenIsMine ==
    me # None => saved = me \/ (roomGone /\ saved = None /\ me \notin seats)

\* A welcomed page that the server does not know yet has its join sent first.
HeadIsJoin ==
    phase = "open" /\ me # None /\ srvMe = None =>
        me \notin seats \/ (toServer # << >> /\ Head(toServer).type = "join")

\* And that join is on its way, or its refusal is.
JoinIsComing ==
    phase = "open" /\ me # None /\ ~roomGone /\ srvMe = None =>
        joiningWithToken /\ (Has(toServer, "join") \/ Has(toClient, "not_found"))

\* A room says that it closed only when it has.
ClosedMeansGone ==
    /\ Has(toClient, "room_closed") => ~exists
    /\ ~exists => seats = {}

ClientInv ==
    /\ WireIsOpen /\ WelcomedAreSeated
    /\ JoinsAreMine /\ JoinFirst /\ QueuedJoinIsFirst /\ NothingUnasked
    /\ NotFoundIsTrue /\ WelcomeComesFirst
    /\ TokenIsMine /\ HeadIsJoin /\ JoinIsComing /\ ClosedMeansGone
    /\ NoPhantom

LEMMA ClientInvInit == ASSUME Init PROVE ClientInv
BY HasNothing
   DEF Init, ClientInv, WireIsOpen, WelcomedAreSeated, JoinsAreMine, OneJoin, JoinFirst,
       QueuedJoinIsFirst, NothingUnasked, NotFoundIsTrue, WelcomeComesFirst, TokenIsMine,
       HeadIsJoin, JoinIsComing, ClosedMeansGone, NoPhantom

\* A connection that ends takes what was on it along.
LEMMA OnCloseClient ==
    ASSUME TypeInv, ClientInv, OnClose, seats' \subseteq seats, exists' = exists
    PROVE  ClientInv'
<1>1. /\ phase' # "open" /\ toServer' = << >> /\ toClient' = << >> /\ srvMe' = None
      /\ UNCHANGED <<sendQueue, me, saved, joiningWithToken, asked>>
      /\ roomGone => roomGone'
  BY DEF OnClose, NoWire
<1>2. WireIsOpen' /\ WelcomedAreSeated' /\ WelcomeComesFirst' /\ HeadIsJoin' /\ JoinIsComing'
  BY <1>1 DEF WireIsOpen, WelcomedAreSeated, WelcomeComesFirst, HeadIsJoin, JoinIsComing
<1>3. ~Has(toServer', "join") /\ \A type : ~Has(toClient', type)
  BY <1>1, HasNothing
<1>4. JoinFirst' /\ QueuedJoinIsFirst' /\ NothingUnasked' /\ NotFoundIsTrue' /\ ClosedMeansGone'
  BY <1>1, <1>3
     DEF ClientInv, JoinFirst, QueuedJoinIsFirst, NothingUnasked, NotFoundIsTrue, ClosedMeansGone
<1>5. JoinsAreMine' /\ TokenIsMine' /\ NoPhantom'
  BY <1>1 DEF ClientInv, JoinsAreMine, OneJoin, TokenIsMine, NoPhantom
<1> QED
  BY <1>2, <1>4, <1>5 DEF ClientInv

LEMMA VisitClient == ASSUME TypeInv, ClientInv, Visit PROVE ClientInv'
<1>1. /\ phase' # "open" /\ toServer' = << >> /\ toClient' = << >> /\ srvMe' = None
      /\ me' = None /\ UNCHANGED <<saved, seats, exists>>
      /\ sendQueue' = IF asked' THEN <<Join(saved)>> ELSE << >>
  BY DEF Visit, NoWire, roomVars
<1>2. WireIsOpen' /\ WelcomedAreSeated' /\ WelcomeComesFirst' /\ HeadIsJoin' /\ JoinIsComing'
  BY <1>1 DEF WireIsOpen, WelcomedAreSeated, WelcomeComesFirst, HeadIsJoin, JoinIsComing
<1>3. ~Has(toServer', "join") /\ \A type : ~Has(toClient', type)
  BY <1>1, HasNothing
<1>4. JoinFirst' /\ QueuedJoinIsFirst' /\ NothingUnasked' /\ NotFoundIsTrue' /\ ClosedMeansGone'
  BY <1>1, <1>3
     DEF ClientInv, JoinFirst, QueuedJoinIsFirst, NothingUnasked, NotFoundIsTrue, ClosedMeansGone
<1>5. JoinsAreMine' /\ TokenIsMine' /\ NoPhantom'
  BY <1>1 DEF JoinsAreMine, OneJoin, TokenIsMine, NoPhantom, Join
<1> QED
  BY <1>2, <1>4, <1>5 DEF ClientInv

\* On a new connection the join of a welcomed page comes before what waited.
LEMMA OnOpenClient == ASSUME TypeInv, ClientInv, OnOpen PROVE ClientInv'
<1> DEFINE s == toServer'  q == sendQueue
<1>1. /\ phase' = "open" /\ toClient' = << >> /\ srvMe' = None /\ sendQueue' = << >>
      /\ UNCHANGED <<me, saved, roomGone, asked, seats, exists>>
      /\ joiningWithToken' = (joiningWithToken \/ JoinsAgain)
      /\ s = Opening(IF JoinsAgain THEN <<Join(saved)>> ELSE << >>)
  BY DEF OnOpen, roomVars, JoinsAgain
<1>2. q \in Seq(Request) /\ saved \in Token \cup {None}
  BY DEF TypeInv, TypeOK
<1>3. CASE JoinsAgain
  <2>1. /\ s \in Seq(Request) /\ Len(s) = Len(q) + 1 /\ Len(q) \in Nat /\ s # << >>
        /\ s[1] = Join(saved) /\ Head(s) = Join(saved)
        /\ \A i \in 2..Len(s) : i - 1 \in 1..Len(q) /\ s[i] = q[i - 1]
    <3>1. s = <<Join(saved)>> \o q /\ Join(saved) \in Request
      BY <1>1, <1>2, <1>3, MessagesTyped DEF Opening
    <3> HIDE DEF s, q
    <3> QED
      BY <1>2, <3>1
  <2>2. me # None /\ saved # None /\ ~Has(q, "join")
    BY <1>3 DEF JoinsAgain, ClientInv, QueuedJoinIsFirst
  <2>3. \A i \in 1..Len(s) : s[i].type = "join" => i = 1 /\ s[i].token = saved
    <3> HIDE DEF s, q
    <3> QED
      BY <2>1, <2>2 DEF Has, Join
  <2>4. Has(s, "join")
    BY <2>1 DEF Has, Join
  <2>5. OneJoin(toServer)' /\ NoPhantom'
    BY <1>1, <2>2, <2>3 DEF OneJoin, NoPhantom, Join
  <2>6. HeadIsJoin' /\ JoinIsComing'
    <3>1. Head(s).type = "join"
      BY <2>1 DEF Join
    <3>2. joiningWithToken'
      BY <1>1, <1>3, Zenon
    <3> QED
      BY <2>1, <2>4, <3>1, <3>2 DEF HeadIsJoin, JoinIsComing
  <2>7. NothingUnasked' /\ TokenIsMine'
    BY <1>1, <2>2 DEF ClientInv, NothingUnasked, TokenIsMine
  <2> QED
    BY <1>1, <2>5, <2>6, <2>7, HasNothing
       DEF ClientInv, WireIsOpen, WelcomedAreSeated, JoinsAreMine, OneJoin, JoinFirst,
           QueuedJoinIsFirst, NotFoundIsTrue, WelcomeComesFirst, ClosedMeansGone
<1>4. CASE ~JoinsAgain
  <2>1. s = q
    BY <1>1, <1>2, <1>4 DEF Opening
  <2>2. me = None \/ (saved = None /\ ~Has(q, "join"))
    BY <1>4 DEF JoinsAgain, ClientInv, QueuedJoinIsFirst
  <2>3. OneJoin(toServer)' /\ NoPhantom'
    BY <1>1, <2>1, <2>2 DEF ClientInv, JoinsAreMine, OneJoin, NoPhantom, Join, Has
  <2>4. HeadIsJoin' /\ JoinIsComing' /\ NothingUnasked' /\ TokenIsMine'
    BY <1>1, <2>1, <2>2, HasNothing
       DEF ClientInv, HeadIsJoin, JoinIsComing, NothingUnasked, TokenIsMine
  <2> QED
    BY <1>1, <2>3, <2>4, HasNothing
       DEF ClientInv, WireIsOpen, WelcomedAreSeated, JoinsAreMine, OneJoin, JoinFirst,
           QueuedJoinIsFirst, NotFoundIsTrue, WelcomeComesFirst, ClosedMeansGone
<1> QED
  BY <1>3, <1>4

\* Nothing of the page or its connection moves; seats may be lost.
LEMMA QuietClient ==
    ASSUME ClientInv, UNCHANGED <<pageVars, wireVars, exists>>, seats' \subseteq seats,
           phase' = "open" <=> phase = "open"
    PROVE  ClientInv'
BY DEF pageVars, wireVars, ClientInv, WireIsOpen, WelcomedAreSeated, JoinsAreMine, OneJoin,
       JoinFirst, QueuedJoinIsFirst, NothingUnasked, NotFoundIsTrue, WelcomeComesFirst,
       TokenIsMine, HeadIsJoin, JoinIsComing, ClosedMeansGone, NoPhantom, Has

LEMMA SubmitNameClient == ASSUME TypeInv, ClientInv, SubmitName PROVE ClientInv'
<1>1. /\ UNCHANGED <<me, saved, roomGone, phase, toClient, srvMe, seats, exists>>
      /\ asked' = TRUE /\ Send(Join(saved))
  BY DEF SubmitName, socketVars, roomVars
<1>2. /\ me = None /\ srvMe = None /\ sendQueue = << >> /\ toServer = << >>
      /\ ~Has(toClient, "not_found")
  BY DEF SubmitName, ClientInv, NothingUnasked
<1>3. IF phase = "open" THEN toServer' = <<Join(saved)>> /\ sendQueue' = << >>
                        ELSE sendQueue' = <<Join(saved)>> /\ toServer' = << >>
  BY <1>1, <1>2 DEF Send
<1>4. WireIsOpen' /\ HeadIsJoin' /\ JoinIsComing' /\ WelcomeComesFirst' /\ WelcomedAreSeated'
  BY <1>1, <1>2, <1>3
     DEF ClientInv, WireIsOpen, HeadIsJoin, JoinIsComing, WelcomeComesFirst, WelcomedAreSeated
<1>5. JoinFirst' /\ QueuedJoinIsFirst' /\ NothingUnasked' /\ NotFoundIsTrue'
  BY <1>1, <1>2 DEF JoinFirst, QueuedJoinIsFirst, NothingUnasked, NotFoundIsTrue
<1>6. TokenIsMine' /\ ClosedMeansGone' /\ NoPhantom'
  BY <1>1, <1>2 DEF ClientInv, TokenIsMine, ClosedMeansGone, NoPhantom
<1>7. JoinsAreMine'
  BY <1>1, <1>3 DEF JoinsAreMine, OneJoin, Join
<1> QED
  BY <1>4, <1>5, <1>6, <1>7 DEF ClientInv

LEMMA DoSomethingClient == ASSUME TypeInv, ClientInv, DoSomething PROVE ClientInv'
<1>1. /\ UNCHANGED <<me, saved, joiningWithToken, roomGone, asked, phase, toClient, srvMe,
                     seats, exists>>
      /\ me # None /\ Send(Act)
  BY DEF DoSomething, socketVars, roomVars
<1>2. sendQueue \in Seq(Request) /\ toServer \in Seq(Request) /\ Act \in Request
  BY MessagesTyped DEF TypeInv, TypeOK
<1>3. ASSUME NEW s \in Seq(Request), OneJoin(s)
      PROVE  /\ OneJoin(Append(s, Act)) /\ Append(s, Act) # << >>
             /\ Has(Append(s, Act), "join") <=> Has(s, "join")
             /\ s # << >> => Head(Append(s, Act)) = Head(s)
             /\ \A i \in 1..Len(Append(s, Act)) :
                   Append(s, Act)[i] = Act \/ (i \in 1..Len(s) /\ Append(s, Act)[i] = s[i])
  <2> DEFINE t == Append(s, Act)
  <2>1. \A i \in 1..Len(t) : t[i] = Act \/ (i \in 1..Len(s) /\ t[i] = s[i])
    OBVIOUS
  <2>2. /\ t # << >>
        /\ Has(t, "join") <=> Has(s, "join")
        /\ s # << >> => Head(t) = Head(s)
    BY <1>2, HasAppend DEF Act
  <2> HIDE DEF t
  <2>3. OneJoin(t)
    BY <1>3, <2>1 DEF OneJoin, Act
  <2> QED
    BY <2>1, <2>2, <2>3 DEF t
<1>4. OneJoin(sendQueue) /\ OneJoin(toServer)
  BY DEF ClientInv, JoinsAreMine
<1>5. CASE phase = "open"
  <2>1. toServer' = Append(toServer, Act) /\ sendQueue' = sendQueue
    BY <1>1, <1>5 DEF Send
  <2>2. /\ OneJoin(toServer)' /\ toServer' # << >>
        /\ Has(toServer', "join") <=> Has(toServer, "join")
        /\ toServer # << >> => Head(toServer') = Head(toServer)
        /\ \A i \in 1..Len(toServer') :
              toServer'[i] = Act \/ (i \in 1..Len(toServer) /\ toServer'[i] = toServer[i])
    BY <1>1, <1>2, <1>3, <1>4, <2>1 DEF OneJoin
  <2>3. NoPhantom' /\ JoinsAreMine'
    BY <1>1, <1>4, <2>1, <2>2 DEF ClientInv, NoPhantom, Act, Join, JoinsAreMine, OneJoin
  <2> QED
    BY <1>1, <1>5, <2>1, <2>2, <2>3
       DEF ClientInv, WireIsOpen, WelcomedAreSeated, JoinFirst, QueuedJoinIsFirst,
           NothingUnasked, NotFoundIsTrue, WelcomeComesFirst, TokenIsMine, HeadIsJoin,
           JoinIsComing, ClosedMeansGone
<1>6. CASE phase # "open"
  <2>1. sendQueue' = Append(sendQueue, Act) /\ toServer' = toServer
    BY <1>1, <1>6 DEF Send
  <2>2. /\ OneJoin(sendQueue)'
        /\ Has(sendQueue', "join") <=> Has(sendQueue, "join")
    BY <1>1, <1>2, <1>3, <1>4, <2>1 DEF OneJoin
  <2>3. NoPhantom' /\ JoinsAreMine'
    BY <1>1, <1>4, <2>1, <2>2 DEF ClientInv, NoPhantom, JoinsAreMine, OneJoin
  <2> QED
    BY <1>1, <1>6, <2>1, <2>2, <2>3
       DEF ClientInv, WireIsOpen, WelcomedAreSeated, JoinFirst, QueuedJoinIsFirst,
           NothingUnasked, NotFoundIsTrue, WelcomeComesFirst, TokenIsMine, HeadIsJoin,
           JoinIsComing, ClosedMeansGone
<1> QED
  BY <1>5, <1>6

\* What is left when the first answer has been handled.
LEMMA Answered ==
    ASSUME TypeInv, toClient # << >>, toClient' = Tail(toClient)
    PROVE  /\ \A i \in 1..Len(toClient') :
                 i + 1 \in 1..Len(toClient) /\ toClient'[i] = toClient[i + 1]
           /\ \A i \in 2..Len(toClient) : i - 1 \in 1..Len(toClient')
           /\ Head(toClient) = toClient[1] /\ 1 \in 1..Len(toClient)
           /\ \A type : Has(toClient, type) <=> Head(toClient).type = type \/ Has(toClient', type)
<1>1. toClient \in Seq(Answer)
  BY DEF TypeInv, TypeOK
<1>2. /\ Len(toClient') = Len(toClient) - 1 /\ Len(toClient) \in Nat \ {0}
      /\ \A i \in 1..(Len(toClient) - 1) : toClient'[i] = toClient[i + 1]
      /\ Head(toClient) = toClient[1]
  BY <1>1
<1>3. \A type : Has(toClient, type) <=> Head(toClient).type = type \/ Has(toClient', type)
  BY <1>1, HasTail
<1> QED
  BY <1>2, <1>3

LEMMA WelcomeClient ==
    ASSUME TypeInv, ClientInv, Deliver, HandleWelcome(Head(toClient)) PROVE ClientInv'
<1> DEFINE m == Head(toClient)
<1>1. /\ toClient # << >> /\ toClient' = Tail(toClient) /\ phase = "open"
      /\ UNCHANGED <<phase, sendQueue, roomGone, asked, toServer, srvMe, seats, exists>>
      /\ m.type = "welcome" /\ me' = m.token /\ saved' = m.token /\ joiningWithToken' = FALSE
  BY DEF Deliver, HandleWelcome, AfterWelcome, socketVars, roomVars
<1>2. m.token # None /\ srvMe # None
  BY <1>1, Answered DEF ClientInv, WelcomedAreSeated
<1>3. sendQueue = << >> /\ ~Has(toServer, "join") /\ asked
  BY <1>1, <1>2 DEF ClientInv, WireIsOpen, JoinFirst, NothingUnasked
<1>4. JoinsAreMine' /\ NoPhantom' /\ QueuedJoinIsFirst'
  BY <1>1, <1>3, HasNothing DEF JoinsAreMine, OneJoin, NoPhantom, QueuedJoinIsFirst, Join, Has
<1>5. WelcomedAreSeated'
  BY <1>1, <1>2, Answered DEF ClientInv, WelcomedAreSeated
<1>6. ClosedMeansGone'
  BY <1>1, Answered DEF ClientInv, ClosedMeansGone
<1> QED
  BY <1>1, <1>2, <1>3, <1>4, <1>5, <1>6
     DEF ClientInv, WireIsOpen, JoinFirst, NothingUnasked, NotFoundIsTrue, WelcomeComesFirst,
         TokenIsMine, HeadIsJoin, JoinIsComing

\* The page takes not_found for the answer to its join, and it is.
LEMMA NotFoundAnswersJoin ==
    ASSUME TypeInv, ClientInv, Deliver, HandleNotFound(Head(toClient))
    PROVE  srvMe = None /\ saved \notin seats /\ ~Has(toServer, "join")
<1>1. /\ toClient # << >> /\ toClient' = Tail(toClient)
      /\ Head(toClient).type = "not_found" /\ joiningWithToken
  BY DEF Deliver, HandleNotFound
<1>2. Has(toClient, "not_found")
  BY <1>1, Answered
<1>3. ASSUME srvMe # None PROVE FALSE
  <2>1. PICK i \in 1..Len(toClient) : \A j \in 1..i : toClient[j].type # "not_found"
    BY <1>1, <1>3 DEF ClientInv, WelcomeComesFirst
  <2> QED
    BY <1>1, <2>1, Answered
<1> QED
  BY <1>2, <1>3 DEF ClientInv, NotFoundIsTrue, JoinFirst

LEMMA NotFoundClient ==
    ASSUME TypeInv, ClientInv, Deliver, HandleNotFound(Head(toClient)) PROVE ClientInv'
<1>1. /\ toClient # << >> /\ toClient' = Tail(toClient) /\ phase = "open"
      /\ UNCHANGED <<phase, me, sendQueue, asked, toServer, srvMe, seats, exists>>
      /\ saved' = None /\ joiningWithToken' = FALSE /\ roomGone' = TRUE
  BY DEF Deliver, HandleNotFound, socketVars, roomVars
<1>2. srvMe = None /\ saved \notin seats /\ ~Has(toServer, "join")
  BY NotFoundAnswersJoin
<1>3. None \notin seats /\ sendQueue = << >>
  BY <1>1 DEF TypeInv, TypeOK, Token, None, ClientInv, WireIsOpen
<1>4. TokenIsMine'
  BY <1>1, <1>2 DEF ClientInv, TokenIsMine
<1>5. HeadIsJoin' /\ JoinIsComing' /\ NotFoundIsTrue' /\ WelcomeComesFirst'
  BY <1>1, <1>2, <1>3, <1>4
     DEF TokenIsMine, HeadIsJoin, JoinIsComing, NotFoundIsTrue, WelcomeComesFirst, None
<1>6. JoinsAreMine' /\ NoPhantom' /\ QueuedJoinIsFirst'
  BY <1>1, <1>2, <1>3, HasNothing
     DEF JoinsAreMine, OneJoin, NoPhantom, QueuedJoinIsFirst, Join, Has
<1>7. WelcomedAreSeated'
  BY <1>1, Answered DEF ClientInv, WelcomedAreSeated
<1> QED
  BY <1>1, <1>2, <1>3, <1>4, <1>5, <1>6, <1>7, Answered
     DEF ClientInv, WireIsOpen, JoinFirst, NothingUnasked, ClosedMeansGone

LEMMA ErrorClient ==
    ASSUME TypeInv, ClientInv, Deliver, HandleError(Head(toClient)) PROVE ClientInv'
<1> DEFINE m == Head(toClient)
<1>1. /\ toClient # << >> /\ toClient' = Tail(toClient) /\ phase = "open"
      /\ UNCHANGED <<phase, me, saved, joiningWithToken, roomGone, sendQueue, asked, toServer,
                     srvMe, seats, exists>>
      /\ m.type # "welcome" /\ (joiningWithToken => m.type # "not_found")
  BY DEF Deliver, HandleError, socketVars, roomVars
<1>2. WelcomeComesFirst'
  <2>1. SUFFICES ASSUME srvMe # None, joiningWithToken
                 PROVE  \E i \in 1..Len(toClient') :
                           /\ toClient'[i].type = "welcome"
                           /\ \A j \in 1..i : toClient'[j].type # "not_found"
    BY <1>1 DEF WelcomeComesFirst
  <2>2. PICK i \in 1..Len(toClient) : /\ toClient[i].type = "welcome"
                                      /\ \A j \in 1..i : toClient[j].type # "not_found"
    BY <2>1 DEF ClientInv, WelcomeComesFirst
  <2>3. i # 1 /\ i - 1 \in 1..Len(toClient') /\ (i - 1) + 1 = i
    BY <1>1, <2>2, Answered
  <2>4. \A j \in 1..(i - 1) : j + 1 \in 1..i /\ j \in 1..Len(toClient')
    BY <2>3
  <2> QED
    BY <1>1, <2>2, <2>3, <2>4, Answered
<1>3. WelcomedAreSeated'
  BY <1>1, Answered DEF ClientInv, WelcomedAreSeated
<1>4. JoinIsComing'
  BY <1>1, Answered DEF ClientInv, JoinIsComing
<1>5. JoinFirst' /\ NothingUnasked' /\ NotFoundIsTrue' /\ ClosedMeansGone'
  BY <1>1, Answered DEF ClientInv, JoinFirst, NothingUnasked, NotFoundIsTrue, ClosedMeansGone
<1>6. JoinsAreMine' /\ NoPhantom' /\ QueuedJoinIsFirst'
  BY <1>1 DEF ClientInv, JoinsAreMine, OneJoin, NoPhantom, QueuedJoinIsFirst
<1> QED
  BY <1>1, <1>2, <1>3, <1>4, <1>5, <1>6 DEF ClientInv, WireIsOpen, TokenIsMine, HeadIsJoin

LEMMA RoomClosedClient ==
    ASSUME TypeInv, ClientInv, Deliver, HandleRoomClosed(Head(toClient)) PROVE ClientInv'
<1>1. /\ phase' = "closed" /\ toServer' = << >> /\ toClient' = << >> /\ srvMe' = None
      /\ sendQueue' = << >> /\ saved' = None /\ roomGone' = TRUE
      /\ UNCHANGED <<me, asked, seats, exists>>
  BY DEF Deliver, HandleRoomClosed, NoWire, roomVars
<1>2. Has(toClient, "room_closed")
  <2>1. toClient \in Seq(Answer) /\ toClient # << >> /\ Head(toClient).type = "room_closed"
    BY DEF Deliver, HandleRoomClosed, TypeInv, TypeOK
  <2> QED
    BY <2>1, HasTail
<1>3. seats = {}
  BY <1>2 DEF ClientInv, ClosedMeansGone
<1>4. JoinsAreMine' /\ NoPhantom' /\ WelcomedAreSeated'
  BY <1>1 DEF JoinsAreMine, OneJoin, NoPhantom, WelcomedAreSeated
<1>5. ~exists' => seats' = {}
  BY <1>1, <1>3
<1> QED
  BY <1>1, <1>3, <1>4, <1>5, HasNothing
     DEF ClientInv, WireIsOpen, JoinFirst, QueuedJoinIsFirst, NothingUnasked, NotFoundIsTrue,
         WelcomeComesFirst, TokenIsMine, HeadIsJoin, JoinIsComing, ClosedMeansGone

\* What the server has not served yet, and what the page will hear.
LEMMA Served ==
    ASSUME TypeInv, ClientInv, Serve
    PROVE  /\ phase = "open" /\ exists /\ toServer # << >> /\ sendQueue = << >>
           /\ UNCHANGED <<phase, sendQueue, me, saved, joiningWithToken, roomGone, asked, exists>>
           /\ asked /\ toServer' \in Seq(Request) /\ Head(toServer) \in Request
           /\ Has(toServer, "join") <=> Head(toServer).type = "join" \/ Has(toServer', "join")
           /\ Head(toServer).type = "join" =>
                 Head(toServer).token = saved /\ ~Has(toServer', "join")
           /\ JoinsAreMine' /\ NoPhantom'
<1>1. /\ phase = "open" /\ exists /\ toServer # << >> /\ toServer' = Tail(toServer)
      /\ UNCHANGED <<phase, sendQueue, me, saved, joiningWithToken, roomGone, asked, exists>>
  BY DEF Serve, pageVars, socketVars
<1>2. toServer \in Seq(Request)
  BY DEF TypeInv, TypeOK
<1>3. /\ toServer' \in Seq(Request) /\ Head(toServer) \in Request
      /\ Len(toServer') = Len(toServer) - 1 /\ Len(toServer) \in Nat \ {0}
      /\ \A i \in 1..(Len(toServer) - 1) : toServer'[i] = toServer[i + 1]
      /\ Head(toServer) = toServer[1]
      /\ Has(toServer, "join") <=> Head(toServer).type = "join" \/ Has(toServer', "join")
  BY <1>1, <1>2, HasTail
<1>4. OneJoin(toServer)
  BY DEF ClientInv, JoinsAreMine
<1>5. \A i \in 1..Len(toServer') : i + 1 \in 2..Len(toServer) /\ toServer'[i] = toServer[i + 1]
  BY <1>3
<1>6. Head(toServer).type = "join" => Head(toServer).token = saved /\ ~Has(toServer', "join")
  BY <1>3, <1>4, <1>5 DEF OneJoin, Has
<1>7. OneJoin(toServer)'
  BY <1>1, <1>3, <1>4, <1>5 DEF OneJoin
<1>8. OneJoin(sendQueue)'
  BY <1>1 DEF ClientInv, JoinsAreMine, OneJoin
<1>9. NoPhantom'
  BY <1>1, <1>5 DEF ClientInv, NoPhantom
<1>10. sendQueue = << >> /\ asked
  BY <1>1 DEF ClientInv, WireIsOpen, NothingUnasked
<1> QED
  BY <1>1, <1>3, <1>6, <1>7, <1>8, <1>9, <1>10 DEF JoinsAreMine

\* What one more answer changes.
LEMMA Replied ==
    ASSUME TypeInv, NEW m \in Answer, Reply(m)
    PROVE  /\ \A type : Has(toClient', type) <=> Has(toClient, type) \/ m.type = type
           /\ Len(toClient') = Len(toClient) + 1 /\ Len(toClient) \in Nat
           /\ \A i \in 1..Len(toClient) : toClient'[i] = toClient[i]
           /\ toClient'[Len(toClient')] = m
<1>1. toClient \in Seq(Answer) /\ toClient' = Append(toClient, m)
  BY DEF TypeInv, TypeOK, Reply
<1>2. \A type : Has(toClient', type) <=> Has(toClient, type) \/ m.type = type
  BY <1>1, HasAppend
<1>3. /\ Len(toClient') = Len(toClient) + 1 /\ Len(toClient) \in Nat
      /\ \A i \in 1..Len(toClient) : toClient'[i] = toClient[i]
      /\ toClient'[Len(toClient')] = m
  BY <1>1
<1> QED
  BY <1>2, <1>3

\* The join of a connection is served while nothing has answered it.
LEMMA ServeJoinClient ==
    ASSUME TypeInv, ClientInv, Serve, Head(toServer).type = "join",
           ServeJoin(Head(toServer).token)
    PROVE  ClientInv'
<1>1. /\ phase = "open" /\ exists /\ sendQueue = << >> /\ asked
      /\ UNCHANGED <<phase, sendQueue, me, saved, joiningWithToken, roomGone, asked, exists>>
      /\ Head(toServer).token = saved /\ ~Has(toServer', "join") /\ Has(toServer, "join")
      /\ JoinsAreMine' /\ NoPhantom'
  BY Served
<1>2. srvMe = None /\ ~Has(toClient, "not_found")
  BY <1>1 DEF ClientInv, JoinFirst
<1>3. saved = None => me = None
  <2>1. toServer \in Seq(Request) /\ toServer # << >>
    BY Served DEF TypeInv, TypeOK
  <2>2. Head(toServer) = toServer[1] /\ 1 \in 1..Len(toServer) /\ Head(toServer) \in Request
    BY <2>1
  <2>3. saved = None => Head(toServer) = Join(None)
    BY <1>1, <2>2 DEF Request, Join
  <2> QED
    BY <2>2, <2>3 DEF ClientInv, NoPhantom
<1>4. \A i \in 1..Len(toClient) : toClient[i].type # "welcome"
  BY <1>2 DEF ClientInv, WelcomedAreSeated
<1>5. WireIsOpen' /\ JoinFirst' /\ QueuedJoinIsFirst' /\ NothingUnasked'
  BY <1>1, HasNothing DEF WireIsOpen, JoinFirst, QueuedJoinIsFirst, NothingUnasked
<1>6. ASSUME NEW t \in Token, srvMe' = t, Reply(Welcome(t)), saved # None => seats' = seats
      PROVE  ClientInv'
  <2>1. Welcome(t) \in Answer /\ t # None /\ Welcome(t).type = "welcome" /\ Welcome(t).token = t
    BY MessagesTyped DEF Token, None, Welcome
  <2>2. WelcomedAreSeated'
    BY <1>4, <1>6, <2>1, Replied DEF WelcomedAreSeated
  <2>3. WelcomeComesFirst'
    <3>1. /\ Len(toClient') \in 1..Len(toClient')
          /\ toClient'[Len(toClient')].type = "welcome"
          /\ \A j \in 1..Len(toClient') : toClient'[j].type # "not_found"
      BY <1>2, <1>6, <2>1, Replied DEF Has
    <3> QED
      BY <3>1 DEF WelcomeComesFirst
  <2>4. TokenIsMine'
    BY <1>1, <1>3, <1>6 DEF ClientInv, TokenIsMine
  <2>5. ClosedMeansGone'
    BY <1>1, <1>6, <2>1, Replied DEF ClientInv, ClosedMeansGone
  <2> QED
    BY <1>1, <1>5, <1>6, <2>1, <2>2, <2>3, <2>4, <2>5
       DEF ClientInv, NotFoundIsTrue, HeadIsJoin, JoinIsComing
<1>7. ASSUME Reply(Says("not_found")), UNCHANGED <<srvMe, seats>>, saved \notin seats
      PROVE  ClientInv'
  <2> DEFINE m == Says("not_found")
  <2>1. m \in Answer /\ m.type = "not_found"
    BY MessagesTyped DEF Replies, Says
  <2>2. WelcomedAreSeated'
    BY <1>4, <1>7, <2>1, Replied DEF WelcomedAreSeated
  <2>3. JoinIsComing' /\ ClosedMeansGone'
    BY <1>1, <1>7, <2>1, Replied DEF ClientInv, JoinIsComing, ClosedMeansGone
  <2>4. TokenIsMine' /\ HeadIsJoin'
    BY <1>1, <1>7 DEF ClientInv, TokenIsMine, HeadIsJoin
  <2> QED
    BY <1>1, <1>2, <1>5, <1>7, <2>2, <2>3, <2>4
       DEF ClientInv, NotFoundIsTrue, WelcomeComesFirst
<1>8. ASSUME Reply(Says("refused")), UNCHANGED <<srvMe, seats>>, saved = None
      PROVE  ClientInv'
  <2> DEFINE m == Says("refused")
  <2>1. m \in Answer /\ m.type = "refused"
    BY MessagesTyped DEF Replies, Says
  <2>2. WelcomedAreSeated'
    BY <1>4, <1>8, <2>1, Replied DEF WelcomedAreSeated
  <2>3. NotFoundIsTrue' /\ ClosedMeansGone'
    BY <1>1, <1>2, <1>8, <2>1, Replied DEF ClientInv, NotFoundIsTrue, ClosedMeansGone
  <2> QED
    BY <1>1, <1>2, <1>3, <1>5, <1>8, <2>2, <2>3
       DEF ClientInv, WelcomeComesFirst, TokenIsMine, HeadIsJoin, JoinIsComing
<1>9. saved \in Token \cup {None} /\ seats \subseteq Token
  BY DEF TypeInv, TypeOK
<1>10. minted < MaxSeats => minted + 1 \in Token
  BY ClientAssumption DEF TypeInv, TypeOK, Token, ClientAssumption
<1>11. \/ \E t \in Token : srvMe' = t /\ Reply(Welcome(t)) /\ (saved # None => seats' = seats)
       \/ Reply(Says("not_found")) /\ saved \notin seats /\ UNCHANGED <<srvMe, seats>>
       \/ Reply(Says("refused")) /\ saved = None /\ UNCHANGED <<srvMe, seats>>
  BY <1>1, <1>2, <1>9, <1>10 DEF ServeJoin
<1> QED
  BY <1>6, <1>7, <1>8, <1>11

\* What comes before a join is refused, what comes after it is answered or not.
LEMMA ServeActClient ==
    ASSUME TypeInv, ClientInv, Serve, Head(toServer).type = "act", ServeAct PROVE ClientInv'
<1>1. /\ phase = "open" /\ exists /\ sendQueue = << >> /\ asked /\ toServer # << >>
      /\ UNCHANGED <<phase, sendQueue, me, saved, joiningWithToken, roomGone, asked, exists,
                     srvMe, seats>>
      /\ Has(toServer, "join") <=> Has(toServer', "join")
      /\ JoinsAreMine' /\ NoPhantom'
  BY Served DEF ServeAct
<1>2. \/ srvMe = None /\ Reply(Says("not_joined"))
      \/ srvMe # None /\ Reply(Says("not_found"))
      \/ srvMe # None /\ toClient' = toClient
  BY DEF ServeAct
<1>3. WireIsOpen' /\ QueuedJoinIsFirst' /\ NothingUnasked' /\ TokenIsMine' /\ HeadIsJoin'
  BY <1>1, HasNothing
     DEF ClientInv, WireIsOpen, QueuedJoinIsFirst, NothingUnasked, TokenIsMine, HeadIsJoin
<1>4. ASSUME NEW type \in {"not_joined", "not_found"}, Reply(Says(type))
      PROVE  /\ \A other : Has(toClient', other) <=> Has(toClient, other) \/ type = other
             /\ WelcomedAreSeated' /\ ClosedMeansGone'
  <2>1. Says(type) \in Answer /\ Says(type).type = type
    BY MessagesTyped DEF Replies, Says
  <2>2. \A other : Has(toClient', other) <=> Has(toClient, other) \/ type = other
    BY <1>4, <2>1, Replied
  <2>3. WelcomedAreSeated'
    BY <1>1, <1>4, <2>1, Replied DEF ClientInv, WelcomedAreSeated
  <2> QED
    BY <1>1, <2>2, <2>3 DEF ClientInv, ClosedMeansGone
<1>5. CASE srvMe = None /\ Reply(Says("not_joined"))
  <2>1. /\ \A type : Has(toClient', type) <=> Has(toClient, type) \/ type = "not_joined"
        /\ WelcomedAreSeated' /\ ClosedMeansGone'
    BY <1>4, <1>5
  <2>2. JoinFirst' /\ NotFoundIsTrue' /\ JoinIsComing'
    BY <1>1, <2>1 DEF ClientInv, JoinFirst, NotFoundIsTrue, JoinIsComing
  <2> QED
    BY <1>1, <1>3, <1>5, <2>1, <2>2 DEF ClientInv, WelcomeComesFirst
<1>6. ASSUME srvMe # None
      PROVE  JoinFirst' /\ NotFoundIsTrue' /\ JoinIsComing'
  BY <1>1, <1>6 DEF ClientInv, JoinFirst, NotFoundIsTrue, JoinIsComing
<1>7. CASE srvMe # None /\ Reply(Says("not_found"))
  <2>1. Says("not_found") \in Answer
    BY MessagesTyped DEF Replies
  <2>2. \A i \in 1..Len(toClient) : i \in 1..Len(toClient') /\ toClient'[i] = toClient[i]
    BY <1>7, <2>1, Replied
  <2>3. WelcomeComesFirst'
    <3>1. SUFFICES ASSUME joiningWithToken
                   PROVE  \E i \in 1..Len(toClient') :
                             /\ toClient'[i].type = "welcome"
                             /\ \A j \in 1..i : toClient'[j].type # "not_found"
      BY <1>1, <1>7 DEF WelcomeComesFirst
    <3>2. PICK i \in 1..Len(toClient) : /\ toClient[i].type = "welcome"
                                        /\ \A j \in 1..i : toClient[j].type # "not_found"
      BY <1>7, <3>1 DEF ClientInv, WelcomeComesFirst
    <3>3. \A j \in 1..i : j \in 1..Len(toClient)
      BY <2>1, <1>7, Replied
    <3> QED
      BY <2>2, <3>2, <3>3
  <2>4. WelcomedAreSeated' /\ ClosedMeansGone'
    BY <1>4, <1>7
  <2> QED
    BY <1>1, <1>3, <1>6, <1>7, <2>3, <2>4 DEF ClientInv
<1>8. CASE srvMe # None /\ toClient' = toClient
  <2>1. WelcomedAreSeated' /\ ClosedMeansGone' /\ WelcomeComesFirst'
    BY <1>1, <1>8 DEF ClientInv, WelcomedAreSeated, ClosedMeansGone, WelcomeComesFirst
  <2> QED
    BY <1>1, <1>3, <1>6, <1>8, <2>1 DEF ClientInv
<1> QED
  BY <1>2, <1>5, <1>7, <1>8

\* A room that goes leaves no seat, and may say so as its last word.
LEMMA RoomGoesClient == ASSUME TypeInv, ClientInv, RoomGoes PROVE ClientInv'
<1>1. /\ UNCHANGED <<phase, sendQueue, me, saved, joiningWithToken, roomGone, asked, toServer,
                     srvMe>>
      /\ exists' = FALSE /\ seats' = {}
      /\ (phase = "open" /\ Reply(Says("room_closed"))) \/ toClient' = toClient
  BY DEF RoomGoes, pageVars, socketVars
<1>2. WireIsOpen' /\ JoinsAreMine' /\ NoPhantom' /\ QueuedJoinIsFirst' /\ TokenIsMine'
      /\ HeadIsJoin'
  BY <1>1 DEF ClientInv, WireIsOpen, JoinsAreMine, OneJoin, NoPhantom, QueuedJoinIsFirst,
              TokenIsMine, HeadIsJoin
<1>3. Says("room_closed") \in Answer /\ Says("room_closed").type = "room_closed"
  BY MessagesTyped DEF Replies, Says
<1>4. /\ Has(toClient', "not_found") <=> Has(toClient, "not_found")
      /\ Len(toClient) \in Nat
      /\ \A i \in 1..Len(toClient) : i \in 1..Len(toClient') /\ toClient'[i] = toClient[i]
      /\ \A i \in 1..Len(toClient') :
            toClient'[i].type = "welcome" => i \in 1..Len(toClient)
  BY <1>1, <1>3, Replied DEF TypeInv, TypeOK
<1>5. JoinFirst' /\ NothingUnasked' /\ NotFoundIsTrue' /\ JoinIsComing' /\ ClosedMeansGone'
  BY <1>1, <1>4
     DEF ClientInv, JoinFirst, NothingUnasked, NotFoundIsTrue, JoinIsComing, ClosedMeansGone
<1>6. WelcomedAreSeated'
  BY <1>1, <1>4 DEF ClientInv, WelcomedAreSeated
<1>7. WelcomeComesFirst'
  BY <1>1, <1>4 DEF ClientInv, WelcomeComesFirst
<1> QED
  BY <1>2, <1>5, <1>6, <1>7 DEF ClientInv

LEMMA ClientInvNext == ASSUME TypeInv, ClientInv, [Next]_vars PROVE ClientInv'
<1>1. CASE TimerFires
  BY <1>1, QuietClient DEF TimerFires, roomVars
<1>2. CASE NotFound \/ EndsWithRoom
  BY <1>2, OnCloseClient DEF NotFound, EndsWithRoom, roomVars
<1>3. CASE Drop
  BY <1>3, OnCloseClient DEF Drop, roomVars
<1>4. CASE Restart
  <2>1. seats' \subseteq seats /\ exists' = exists
    BY <1>4 DEF Restart
  <2>2. CASE phase = "open"
    BY <1>4, <2>1, <2>2, OnCloseClient DEF Restart
  <2>3. CASE phase # "open"
    BY <1>4, <2>1, <2>3, QuietClient DEF Restart, socketVars
  <2> QED
    BY <2>2, <2>3
<1>5. CASE Deliver
  BY <1>5, WelcomeClient, RoomClosedClient, NotFoundClient, ErrorClient DEF Deliver
<1>6. CASE Serve
  BY <1>6, ServeJoinClient, ServeActClient DEF Serve
<1>7. ASSUME NEW t \in Token, IsRemoved(t) PROVE ClientInv'
  BY <1>7, QuietClient DEF IsRemoved, socketVars
<1>8. CASE UNCHANGED vars
  BY <1>8, QuietClient DEF vars, socketVars, roomVars
<1> QED
  BY <1>1, <1>2, <1>3, <1>4, <1>5, <1>6, <1>7, <1>8, OnOpenClient, VisitClient,
     SubmitNameClient, DoSomethingClient, RoomGoesClient DEF Next

LEMMA ClientInvariant == Spec => [](TypeInv /\ ClientInv)
<1>1. Init => ClientInv
  BY ClientInvInit
<1>2. TypeInv /\ ClientInv /\ [Next]_vars => ClientInv'
  BY ClientInvNext
<1> QED
  BY <1>1, <1>2, TypeInvariant, PTL DEF Spec

-----------------------------------------------------------------------------
(* What it says of the page.                                               *)

\* A page that was welcomed never asks the server for another seat: whatever is
\* on its way when it has lost its token, no join without one is among it.
THEOREM NoPhantomAlways == Spec => []NoPhantom
<1>1. ClientInv => NoPhantom
  BY DEF ClientInv
<1> QED
  BY <1>1, ClientInvariant, PTL

\* When nothing is on the way, a page that was welcomed is joined: its join came
\* first on the connection, and neither an error nor a reload can come between.
THEOREM StaysJoinedAlways == Spec => []StaysJoined
<1>1. ASSUME ClientInv PROVE StaysJoined
  <2>1. SUFFICES ASSUME Settled, me # None, srvMe = None PROVE FALSE
    BY DEF StaysJoined
  <2>2. Has(toServer, "join") \/ Has(toClient, "not_found")
    BY <1>1, <2>1 DEF ClientInv, JoinIsComing, Settled
  <2> QED
    BY <2>1, <2>2, HasNothing DEF Settled
<1> QED
  BY <1>1, ClientInvariant, PTL

\* The token of a seat that is still there is never thrown away: the not_found
\* that drops it answers the join that carried it, and room_closed leaves no seat.
THEOREM TokenKeptAlways == Spec => TokenKept
<1>1. ASSUME TypeInv, ClientInv, [Next]_vars, saved # None, saved' = None
      PROVE  saved \notin seats
  <2>1. CASE Deliver
    <3>1. CASE HandleNotFound(Head(toClient))
      BY <2>1, <3>1, <1>1, NotFoundAnswersJoin
    <3>2. CASE HandleRoomClosed(Head(toClient))
      <4>1. toClient \in Seq(Answer) /\ toClient # << >> /\ Head(toClient).type = "room_closed"
        BY <1>1, <2>1, <3>2 DEF Deliver, HandleRoomClosed, TypeInv, TypeOK
      <4> QED
        BY <1>1, <4>1, HasTail DEF ClientInv, ClosedMeansGone
    <3>3. CASE HandleWelcome(Head(toClient))
      BY <1>1, <2>1, <3>3, Answered DEF Deliver, HandleWelcome, ClientInv, WelcomedAreSeated
    <3>4. CASE HandleError(Head(toClient))
      BY <1>1, <3>4 DEF HandleError
    <3> QED
      BY <2>1, <3>1, <3>2, <3>3, <3>4 DEF Deliver
  <2>2. CASE ~Deliver
    <3>1. saved' = saved
      BY <1>1, <2>2
         DEF Next, vars, TimerFires, OnOpen, NotFound, Drop, OnClose, Visit, SubmitName,
             DoSomething, Serve, RoomGoes, EndsWithRoom, Restart, IsRemoved, pageVars
    <3> QED
      BY <1>1, <3>1
  <2> QED
    BY <2>1, <2>2
<1> QED
  BY <1>1, ClientInvariant, PTL DEF Spec, TokenKept

\* The server tells a page that was welcomed that it has not joined only when its
\* seat is gone: until then its join is the first message the server reads.
THEOREM NotJoinedOnlyIfLostAlways == Spec => NotJoinedOnlyIfLost
<1>1. ASSUME TypeInv, ClientInv, [Next]_vars, Len(toClient') = Len(toClient) + 1,
             toClient'[Len(toClient')] = Says("not_joined")
      PROVE  me \notin seats
  <2>1. toClient \in Seq(Answer) /\ Len(toClient) \in Nat /\ None \notin seats
    BY <1>1 DEF TypeInv, TypeOK, Token, None
  <2>2. CASE Serve
    <3>1. CASE Head(toServer).type = "join" /\ ServeJoin(Head(toServer).token)
      <4>1. PICK m : Reply(m) /\ m.type \in {"wrong_state", "welcome", "not_found", "refused"}
        BY <3>1 DEF ServeJoin, Says, Welcome
      <4>2. toClient'[Len(toClient')] = m
        BY <2>1, <4>1 DEF Reply
      <4> QED
        BY <1>1, <4>1, <4>2 DEF Says
    <3>2. CASE Head(toServer).type = "act" /\ ServeAct
      <4>1. CASE srvMe # None
        <5>1. Reply(Says("not_found"))
          BY <1>1, <2>1, <3>2, <4>1 DEF ServeAct
        <5>2. toClient'[Len(toClient')] = Says("not_found")
          BY <2>1, <5>1 DEF Reply
        <5> QED
          BY <1>1, <5>2 DEF Says
      <4>2. CASE srvMe = None
        BY <1>1, <2>1, <2>2, <3>2, <4>2 DEF ClientInv, HeadIsJoin, Serve
      <4> QED
        BY <4>1, <4>2
    <3> QED
      BY <2>2, <3>1, <3>2 DEF Serve
  <2>3. CASE RoomGoes
    <3>1. CASE Reply(Says("room_closed"))
      <4>1. toClient'[Len(toClient')] = Says("room_closed")
        BY <2>1, <3>1 DEF Reply
      <4> QED
        BY <1>1, <4>1 DEF Says
    <3>2. CASE toClient' = toClient
      BY <1>1, <2>1, <3>2
    <3> QED
      BY <2>3, <3>1, <3>2 DEF RoomGoes
  <2>4. CASE ~Serve /\ ~RoomGoes
    <3>1. Deliver => toClient # << >>
      BY DEF Deliver
    <3>2. toClient' = toClient \/ toClient' = << >> \/ (toClient # << >> /\ toClient' = Tail(toClient))
      BY <1>1, <2>4, <3>1
         DEF Next, vars, TimerFires, OnOpen, NotFound, Drop, OnClose, NoWire, Visit, SubmitName,
             DoSomething, Deliver, HandleWelcome, HandleRoomClosed, HandleNotFound, HandleError,
             EndsWithRoom, Restart, IsRemoved, wireVars
    <3>3. toClient # << >> => Len(Tail(toClient)) = Len(toClient) - 1
      BY <2>1
    <3> QED
      BY <1>1, <2>1, <3>2, <3>3
  <2> QED
    BY <2>2, <2>3, <2>4
<1> QED
  BY <1>1, ClientInvariant, PTL DEF Spec, NotJoinedOnlyIfLost
=============================================================================
