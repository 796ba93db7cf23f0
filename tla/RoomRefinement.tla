--------------------------- MODULE RoomRefinement ---------------------------
(***************************************************************************)
(* A room implements TurnTaking, for any set of player ids and any bounds: *)
(* its rotation, skips, sockets and clocks move the turn and the badge     *)
(* only as the promise allows.                                             *)
(***************************************************************************)
EXTENDS RoomProofs

\* The promise's state as the room shows it.
Online == {s[1] : s \in sockets}
Members == IF Live THEN Seated ELSE {}
Governors == IF Live THEN hosts ELSE {}
Holder == IF Live THEN current ELSE NoOne
Playing == Live /\ state = "Active"
Present == IF Live THEN Online ELSE {}
Requester == IF Live THEN actor ELSE NoOne
Filed ==
    [members   |-> IF OnFile THEN ToSet(saved.players) ELSE {},
     governors |-> IF OnFile THEN saved.hosts ELSE {},
     holder    |-> IF OnFile THEN saved.current ELSE NoOne,
     playing   |-> OnFile /\ saved.state = "Active"]
promiseVars == <<Members, Governors, Holder, Playing, Present, Requester, Filed>>

\* A step that changes no variable at all is invisible.
LEMMA Invisible ==
    ASSUME UNCHANGED vars
    PROVE  UNCHANGED promiseVars
BY DEF promiseVars, Members, Governors, Holder, Playing, Present, Online, Requester,
       vars, seatVars, turnVars, serverVars, Live, Seated, Filed, OnFile

\* So is every step of a room that is not live, before and after, that is no save.
LEMMA InvisibleWhenOver ==
    ASSUME ~Live, ~Live', saved' = saved
    PROVE  UNCHANGED promiseVars
BY DEF promiseVars, Members, Governors, Holder, Playing, Present, Requester, Filed, OnFile

\* A live room has a player and a host.
LEMMA LiveFacts ==
    ASSUME RoomInv, Live
    PROVE  /\ Seated # {} /\ players # << >>
           /\ \E h \in Seated : hosts = {h}
           /\ Seated \subseteq Id
           /\ Online \subseteq Id
BY SeatedFacts DEF RoomInv, RoomCore, Kept, TypeOK, OneHost, Live, Seated, Online

LEMMA PromiseInit == Init => Promise!Init
<1> SUFFICES ASSUME Init PROVE Promise!Init
  OBVIOUS
<1>1. PICK host \in Id : players = <<host>> /\ hosts = {host}
  BY DEF Init
<1>2. Len(players) = 1 /\ players[1] = host /\ DOMAIN players = {1}
  BY <1>1
<1>3. Seated = {host}
  BY <1>2 DEF Seated, ToSet
<1> QED
  BY <1>1, <1>3 DEF Init, NoRoom, Promise!Init, Live, OnFile

-----------------------------------------------------------------------------
LEMMA JoinNewStep ==
    ASSUME RoomInv, Live, NEW p \in Id, JoinNew(p)
    PROVE  Promise!Enter(p)
<1>1. Seated' = Seated \cup {p} /\ p \notin Seated
  BY AppendFacts DEF JoinNew, RoomInv, RoomCore, TypeOK, Seated, Unused
<1>2. Live' /\ Online' = Online \cup {p}
  <2>1. Live' /\ sockets' = sockets \cup {<<p, nextConnEpoch>>}
    BY DEF JoinNew, Attach, Live
  <2> DEFINE new == <<p, nextConnEpoch>>
  <2>2. new[1] = p
    OBVIOUS
  <2> HIDE DEF new
  <2>3. {s[1] : s \in sockets \cup {new}} = {s[1] : s \in sockets} \cup {new[1]}
    BY SMT
  <2> QED
    BY <2>1, <2>2, <2>3 DEF Online, new
<1>3. UNCHANGED <<hosts, current, state, saved>> /\ actor' = NoOne
  BY DEF JoinNew, Attach, turnVars
<1> QED
  BY <1>1, <1>2, <1>3, LiveFacts DEF Promise!Enter, Live, Online, OnFile

\* A step that changes neither the roster, the badge nor the turn.
LEMMA ReachStep ==
    ASSUME RoomInv, RoomInv', Live, Live', Seated' = Seated,
           UNCHANGED <<hosts, current, state, saved>>
    PROVE  Promise!Reach
<1>1. sockets' \subseteq Id \X (Nat \ {0})
  BY DEF RoomInv, RoomCore, TypeOK
<1>2. \A s \in sockets' : s[1] \in Id
  BY <1>1
<1>3. Online' \subseteq Id
  BY <1>2 DEF Online
<1>4. actor' \in Id \cup {NoOne}
  BY DEF RoomInv, RoomCore, TypeOK
<1> QED
  BY <1>3, <1>4, LiveFacts DEF Promise!Reach, Live, Online, OnFile

LEMMA StartGameStep ==
    ASSUME RoomInv, RoomInv', Live, NEW a \in Id, StartGame(a)
    PROVE  Promise!Begin
<1>1. Seated' = Seated /\ players' = players /\ players # << >>
  BY LiveFacts DEF StartGame, seatVars, Seated
<1>2. /\ Live' /\ UNCHANGED <<sockets, hosts, saved>>
      /\ state = "Lobby" /\ state' = "Active"
  BY <1>1 DEF StartGame, Accept, Settle, serverVars, seatVars, Live
<1>3. a \in hosts /\ a \in Online /\ actor' = a
  BY DEF StartGame, Dispatching, Online
<1>4. current' \in Seated
  BY <1>1, <1>2 DEF RoomInv, Kept, TurnIsSeated, Live
<1> QED
  BY <1>1, <1>2, <1>3, <1>4 DEF Promise!Begin, Live, Online, OnFile

\* Whatever moved the turn: the roster, badge and sockets are as they were and
\* a was entitled to ask for it.
LEMMA HandOverStep ==
    ASSUME RoomInv, RoomInv', Live, Live', NEW a \in Id, Dispatching(a),
           Seated' = Seated, UNCHANGED <<hosts, state, sockets, saved>>, state = "Active",
           a \in hosts \cup {current, current'}
    PROVE  Promise!HandOver
<1>1. a \in Online /\ actor' = a
  BY DEF Dispatching, Online
<1>2. current' \in Seated
  BY DEF RoomInv, Kept, TurnIsSeated, Live
<1> QED
  BY <1>1, <1>2 DEF Promise!HandOver, Live, Online, OnFile

\* A turn passed on from a seat leaves everything else visible alone.
LEMMA PassTurnFrame ==
    ASSUME RoomInv, Live, NEW i, NEW flags, PassTurn(i, flags)
    PROVE  /\ Seated' = Seated /\ UNCHANGED <<hosts, state, sockets, saved>>
           /\ Live'
<1>1. Seated' = Seated /\ players' = players /\ players # << >>
  BY LiveFacts DEF PassTurn, Seated
<1> QED
  BY <1>1 DEF PassTurn, Accept, Settle, serverVars, Live

LEMMA PassStrandedStep ==
    ASSUME RoomInv, RoomInv', Live, NEW i, NEW flags, PassStranded(i, flags)
    PROVE  Promise!Reach
BY ReachStep DEF PassStranded, turnVars, serverVars, Seated, Live

LEMMA EndTurnStep ==
    ASSUME RoomInv, RoomInv', Live, NEW a \in Id, EndTurn(a)
    PROVE  Promise!HandOver \/ Promise!Reach
<1>1. CASE \E i \in Lap(players) : PassTurn(i, skipNext)
  <2>1. Seated' = Seated /\ UNCHANGED <<hosts, state, sockets, saved>> /\ Live'
    BY <1>1, PassTurnFrame
  <2>2. Dispatching(a) /\ state = "Active" /\ a \in hosts \cup {current, current'}
    BY DEF EndTurn, MayEnd
  <2> QED
    BY <2>1, <2>2, HandOverStep
<1>2. CASE \E i \in Lap(players) : PassStranded(i, skipNext)
  BY <1>2, PassStrandedStep
<1> QED
  BY <1>1, <1>2 DEF EndTurn

LEMMA ClaimTurnStep ==
    ASSUME RoomInv, RoomInv', Live, NEW a \in Id, ClaimTurn(a)
    PROVE  Promise!HandOver
<1>1. Seated' = Seated /\ UNCHANGED <<hosts, state, sockets, saved>> /\ Live'
  BY PassTurnFrame DEF ClaimTurn
<1>2. Dispatching(a) /\ state = "Active" /\ current' = a
  BY ClaimServesClaimant DEF ClaimTurn
<1> QED
  BY <1>1, <1>2, HandOverStep

LEMMA UndoTurnStep ==
    ASSUME RoomInv, RoomInv', Live, NEW a \in Id, UndoTurn(a)
    PROVE  Promise!HandOver
<1>1. Seated' = Seated /\ players' = players /\ players # << >>
  BY LiveFacts DEF UndoTurn, seatVars, Seated
<1>2. UNCHANGED <<hosts, state, sockets, saved>> /\ Live'
  BY <1>1 DEF UndoTurn, Accept, Settle, seatVars, serverVars, Live
<1>3. Dispatching(a) /\ state = "Active" /\ a \in hosts
  BY DEF UndoTurn
<1> QED
  BY <1>1, <1>2, <1>3, HandOverStep

LEMMA SkipPlayerStep ==
    ASSUME RoomInv, RoomInv', Live, NEW a \in Id, NEW t \in Id, SkipPlayer(a, t)
    PROVE  Promise!HandOver \/ Promise!Reach
<1>1. CASE state = "Active" /\ \E i \in Lap(players) : PassTurn(i, skipNext \cup {t})
  <2>1. Seated' = Seated /\ UNCHANGED <<hosts, state, sockets, saved>> /\ Live'
    BY <1>1, PassTurnFrame
  <2>2. Dispatching(a) /\ a \in hosts
    BY DEF SkipPlayer
  <2> QED
    BY <1>1, <2>1, <2>2, HandOverStep
<1>2. CASE \E i \in Lap(players) : PassStranded(i, skipNext \cup {t})
  BY <1>2, PassStrandedStep
<1>3. CASE /\ UNCHANGED <<state, locked, players, hosts, connected, connEpoch,
                          turnVars, lastNudgeAt>>
           /\ Accept
  <2>1. Seated' = Seated /\ players' # << >>
    BY <1>3, LiveFacts DEF Seated
  <2> QED
    BY <1>3, <2>1, ReachStep DEF Accept, Settle, turnVars, serverVars, Live
<1> QED
  BY <1>1, <1>2, <1>3 DEF SkipPlayer

LEMMA RemovePlayerStep ==
    ASSUME RoomInv, RoomInv', Live, NEW a \in Id, NEW t \in Id, RemovePlayer(a, t)
    PROVE  Promise!SendAway(t) \/ Promise!Close
<1>1. /\ Seated' = Seated \ {t} /\ t \in Seated
      /\ entry' = IF Seated' = {} THEN "doomed" ELSE entry
  BY RemovePlayerRoster DEF RoomInv
<1>2. OneHost'
  BY DEF RoomInv, Kept
<1>3. /\ a \in hosts /\ a \in Online /\ actor' = a
      /\ UNCHANGED <<state, sockets, saved>>
  BY DEF RemovePlayer, Dispatching, Accept, Settle, serverVars, Online
<1>4. PICK h \in Seated : hosts = {h}
  BY LiveFacts
<1>5. CASE Seated' = {}
  <2>1. ~Live' /\ Seated = hosts
    BY <1>1, <1>4, <1>5 DEF Live
  <2> QED
    BY <1>3, <2>1 DEF Promise!Close, Live, Online, OnFile
<1>6. CASE Seated' # {}
  <2>1. Live'
    BY <1>1, <1>6 DEF Live
  <2>2. IF t \in hosts THEN \E g \in Seated' : hosts' = {g} ELSE hosts' = hosts
    BY <1>2, <2>1 DEF OneHost, Live, RemovePlayer, PassBadge
  <2>3. IF t = current THEN current' \in Seated' ELSE current' = current
    <3>1. state = "Active" => current' \in Seated'
      BY <1>3, <2>1 DEF RoomInv, Kept, TurnIsSeated, Live
    <3>2. ~(state = "Active" /\ current = t) => current' = current
      BY RemovePlayerTurn DEF RoomInv
    <3>3. state # "Active" => current = NoOne /\ t # current
      BY LiveFacts, NoOneAssumption DEF RoomInv, Kept, TurnIsSeated, Live
    <3> QED
      BY <3>1, <3>2, <3>3
  <2> QED
    BY <1>1, <1>3, <1>6, <2>1, <2>2, <2>3 DEF Promise!SendAway, Live, Online,
                                                         OnFile
<1> QED
  BY <1>5, <1>6

\* Reorders, locks, nudges and refused messages move nobody.
LEMMA OtherMessages ==
    ASSUME ~RepeatsInOrder, RoomInv, RoomInv', Live, NEW a \in Id,
           SetOrder(a) \/ SetLocked(a) \/ Nudge(a) \/ Refuse(a)
    PROVE  Promise!Reach
<1>1. CASE SetOrder(a)
  <2>1. Seated' = Seated /\ hosts' = hosts /\ entry' = entry
    BY <1>1, SetOrderRoster DEF RoomInv
  <2> QED
    BY <1>1, <2>1, ReachStep DEF SetOrder, Settle, turnVars, serverVars, Live
<1>2. CASE SetLocked(a)
  BY <1>2, LiveFacts, ReachStep
     DEF SetLocked, Accept, Settle, seatVars, turnVars, serverVars, Live, Seated
<1>3. CASE Nudge(a)
  BY <1>3, LiveFacts, ReachStep
     DEF Nudge, Accept, Settle, seatVars, turnVars, serverVars, Live, Seated
<1>4. CASE Refuse(a)
  BY <1>4, LiveFacts, ReachStep DEF Refuse, seatVars, turnVars, serverVars, Live, Seated
<1> QED
  BY <1>1, <1>2, <1>3, <1>4

\* A save writes down what the room shows.
LEMMA SaveStep ==
    ASSUME Save
    PROVE  Promise!Keep
<1>1. /\ saved' = Persisted /\ actor' = NoOne
      /\ UNCHANGED <<entry, sockets, players, hosts, current, state>>
  BY DEF Save, seatVars, turnVars
<1>2. /\ Persisted.entry = "live" <=> entry = "live"
      /\ entry = "live" => /\ Persisted.players = players /\ Persisted.hosts = hosts
                           /\ Persisted.current = current /\ Persisted.state = state
  BY DEF Persisted, NoRoom
<1>3. /\ OnFile' <=> Live
      /\ Live => /\ saved'.players = players /\ saved'.hosts = hosts
                 /\ saved'.current = current /\ saved'.state = state
  BY <1>1, <1>2 DEF OnFile, Live
<1>4. (Live' <=> Live) /\ Seated' = Seated
  BY <1>1 DEF Live, Seated
<1> QED
  BY <1>1, <1>3, <1>4 DEF Promise!Keep, Seated

\* A load shows what was written down.
LEMMA RestartStep ==
    ASSUME Restart
    PROVE  Promise!Revert
<1>1. /\ Live' <=> OnFile
      /\ OnFile' <=> OnFile
      /\ Seated' = ToSet(saved.players)
  BY DEF Restart, Live, OnFile, Seated
<1>2. /\ hosts' = saved.hosts /\ current' = saved.current /\ state' = saved.state
      /\ sockets' = {} /\ actor' = NoOne /\ saved' = saved
  BY DEF Restart
<1> QED
  BY <1>1, <1>2 DEF Promise!Revert

-----------------------------------------------------------------------------
LEMMA PromiseNext ==
    ASSUME ~RepeatsInOrder
    PROVE  RoomInv /\ RoomInv' /\ [Next]_vars => [Promise!Next]_promiseVars
<1> SUFFICES ASSUME RoomInv, RoomInv', [Next]_vars
             PROVE  Promise!Next \/ UNCHANGED promiseVars
  OBVIOUS
<1>1. CASE Save
  BY <1>1, SaveStep DEF Promise!Next
<1>2. CASE Restart
  BY <1>2, RestartStep DEF Promise!Next
<1>3. CASE ~Live /\ ~Restart /\ ~Save
  BY <1>3, NeverLiveAgain, OnlySavesWrite, InvisibleWhenOver DEF Live
<1>4. CASE Live /\ ~Restart /\ ~Save
  <2>1. ASSUME NEW p \in Id, JoinNew(p) PROVE Promise!Next
    BY <1>4, <2>1, JoinNewStep DEF Promise!Next
  <2>2. ASSUME NEW p \in Id, Rejoin(p) PROVE Promise!Next
    BY <1>4, <2>2, ReachStep DEF Promise!Next, Rejoin, Attach, turnVars, Live, Seated
  <2>3. ASSUME NEW s \in sockets, SocketEnds(s) PROVE Promise!Next
    BY <1>4, <2>3, ReachStep DEF Promise!Next, SocketEnds, turnVars, Live, Seated
  <2>4. CASE JoinRefused \/ Tick
    BY <1>4, <2>4, ReachStep
       DEF Promise!Next, JoinRefused, Tick, seatVars, turnVars, serverVars, Live, Seated
  <2>5. CASE Drop
    BY <1>4, <2>5 DEF Drop, Live
  <2>6. ASSUME NEW a \in Id,
               \/ StartGame(a) \/ EndTurn(a) \/ ClaimTurn(a) \/ UndoTurn(a)
               \/ \E t \in Id : SkipPlayer(a, t) \/ RemovePlayer(a, t)
               \/ SetOrder(a) \/ SetLocked(a) \/ Nudge(a) \/ Refuse(a)
        PROVE  Promise!Next
    BY <1>4, <2>6, StartGameStep, EndTurnStep, ClaimTurnStep, UndoTurnStep,
       SkipPlayerStep, RemovePlayerStep, OtherMessages DEF Promise!Next
  <2>7. CASE UNCHANGED vars
    BY <2>7, Invisible
  <2> QED
    BY <1>4, <2>1, <2>2, <2>3, <2>4, <2>5, <2>6, <2>7 DEF Next
<1> QED
  BY <1>1, <1>2, <1>3, <1>4

\* A room keeps its promise: the turn moves only at the request of the holder,
\* the host or the claimant, only the host removes players, and neither the
\* turn nor the badge is ever lost while somebody is left.  A restart is no way
\* round it: it takes the room back to what was last saved, as a whole.
THEOREM RoomKeepsPromise ==
    ASSUME ~RepeatsInOrder
    PROVE  Spec => KeepsPromise
<1>1. Promise!vars = promiseVars /\ Promise!vars' = promiseVars'
  BY DEF Promise!vars, promiseVars, Members, Governors, Holder, Playing, Present, Online,
         Requester, Filed
<1>2. RoomInv /\ RoomInv' /\ [Next]_vars => [Promise!Next]_(Promise!vars)
  BY <1>1, PromiseNext
<1> QED
  BY <1>2, PromiseInit, RoomInvariant, PTL DEF Spec, KeepsPromise, Promise!Spec
=============================================================================
