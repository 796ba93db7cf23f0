----------------------------- MODULE FeedProofs -----------------------------
(***************************************************************************)
(* What a joined client sees in the end, for any number of connections and *)
(* players and any capacity of the channel.  The last broadcast a receiver *)
(* still holds is always the room's present one (NewestLast); a receiver   *)
(* that holds none has shown it already, unless it lags (NoneLeft).        *)
(***************************************************************************)
EXTENDS Feed, TLAPS

\* No message of q is for everyone.
Silent(q) == \A i \in 1..Len(q) : q[i].to # Everyone

\* The last message of q that is for everyone, if there is one, is m.
EndsWith(q, m) ==
    \A i \in 1..Len(q) :
        q[i].to = Everyone /\ (\A j \in (i + 1)..Len(q) : q[j].to # Everyone)
            => q[i] = m

\* RoomClosed is in q, and at most n messages were put behind it.
HoldsClosed(q, n) == \E i \in 1..Len(q) : q[i] = RoomClosed /\ Len(q) - i <= n

Present == IF roster = {} THEN RoomClosed ELSE State(version)

NewestLast == \A c \in Subscribed : EndsWith(queue[c], Present)

NoneLeft ==
    \A c \in Subscribed :
        live /\ roster # {} /\ me[c] # None /\ c \notin lagged \cup resyncing
            /\ Silent(queue[c])
        => view[c] = version

ClosedOnItsWay ==
    /\ due # {} /\ live => removing # {}
    /\ \A c \in due \cap Subscribed : c \in told \/ HoldsClosed(queue[c], race)

\* A connection that was never open has nothing to take.
Untouched ==
    \A c \in Conn : conn[c] \in {"new", "accepted"} =>
        queue[c] = <<>> /\ me[c] = None /\ c \notin due

IInv == TypeOK /\ NewestLast /\ NoneLeft /\ ClosedOnItsWay /\ Untouched

-----------------------------------------------------------------------------
(* The channel.                                                            *)

LEMMA KeptType ==
    ASSUME FeedAssumption, NEW q \in Seq(Message), Len(q) <= Capacity,
           NEW m \in Message
    PROVE  /\ Append(Kept(q), m) \in Seq(Message)
           /\ Len(Append(Kept(q), m)) <= Capacity
           /\ Len(Append(Kept(q), m)) = IF Len(q) = Capacity THEN Len(q) ELSE Len(q) + 1
           /\ Append(Kept(q), m)[Len(Append(Kept(q), m))] = m
           /\ \A i \in 1..(Len(Append(Kept(q), m)) - 1) :
                 Append(Kept(q), m)[i] = IF Len(q) = Capacity THEN q[i + 1] ELSE q[i]
<1>1. Capacity \in Nat \ {0}
  BY DEF FeedAssumption
<1>2. CASE Len(q) = Capacity
  <2>1. q # <<>> /\ Tail(q) \in Seq(Message) /\ Len(Tail(q)) = Len(q) - 1
    BY <1>1, <1>2
  <2>2. \A i \in 1..(Len(q) - 1) : Tail(q)[i] = q[i + 1]
    BY <2>1
  <2> QED BY <1>1, <1>2, <2>1, <2>2 DEF Kept
<1>3. CASE Len(q) # Capacity
  BY <1>1, <1>3 DEF Kept
<1> QED BY <1>2, <1>3

LEMMA PutForAll ==
    ASSUME FeedAssumption, NEW q \in Seq(Message), Len(q) <= Capacity,
           NEW m \in Message, m.to = Everyone
    PROVE  EndsWith(Append(Kept(q), m), m) /\ ~Silent(Append(Kept(q), m))
<1> DEFINE r == Append(Kept(q), m)
<1>1. Len(r) \in Nat \ {0} /\ r[Len(r)] = m
  BY KeptType DEF FeedAssumption
<1> HIDE DEF r
<1>2. EndsWith(r, m)
  BY <1>1 DEF EndsWith
<1>3. ~Silent(r)
  BY <1>1 DEF Silent
<1> QED BY <1>2, <1>3 DEF r

LEMMA PutForOne ==
    ASSUME FeedAssumption, NEW q \in Seq(Message), Len(q) <= Capacity,
           NEW m \in Message, m.to # Everyone, NEW x, EndsWith(q, x)
    PROVE  /\ EndsWith(Append(Kept(q), m), x)
           /\ Len(q) # Capacity /\ Silent(Append(Kept(q), m)) => Silent(q)
<1> DEFINE r == Append(Kept(q), m)
<1>1. /\ Len(r) \in Nat /\ Len(q) \in Nat /\ Capacity \in Nat \ {0}
      /\ Len(r) = IF Len(q) = Capacity THEN Len(q) ELSE Len(q) + 1
      /\ r[Len(r)] = m
      /\ \A i \in 1..(Len(r) - 1) : r[i] = IF Len(q) = Capacity THEN q[i + 1] ELSE q[i]
  BY KeptType DEF FeedAssumption
<1> HIDE DEF r
<1>2. CASE Len(q) = Capacity
  <2>1. \A i \in 1..(Len(q) - 1) : r[i] = q[i + 1]
    BY <1>1, <1>2
  <2>2. SUFFICES ASSUME NEW i \in 1..Len(r), r[i].to = Everyone,
                        \A j \in (i + 1)..Len(r) : r[j].to # Everyone
                 PROVE  r[i] = x
    BY <1>2 DEF EndsWith, r
  <2>3. i # Len(r) /\ i + 1 \in 1..Len(q) /\ r[i] = q[i + 1]
    BY <1>1, <1>2, <2>1, <2>2
  <2>4. ASSUME NEW j \in (i + 2)..Len(q) PROVE q[j].to # Everyone
    <3>1. j - 1 \in (i + 1)..Len(r) /\ r[j - 1] = q[j]
      BY <1>1, <1>2, <2>1
    <3> QED BY <2>2, <3>1
  <2> QED BY <2>2, <2>3, <2>4 DEF EndsWith
<1>3. CASE Len(q) # Capacity
  <2>1. \A i \in 1..Len(q) : r[i] = q[i]
    BY <1>1, <1>3
  <2>2. EndsWith(r, x)
    BY <1>1, <1>3, <2>1 DEF EndsWith
  <2>3. Silent(r) => Silent(q)
    BY <1>1, <1>3, <2>1 DEF Silent
  <2> QED BY <2>2, <2>3 DEF r
<1> QED BY <1>2, <1>3

LEMMA PutBehindClosed ==
    ASSUME FeedAssumption, NEW q \in Seq(Message), Len(q) <= Capacity,
           NEW m \in Message, NEW n \in Nat, n + 1 < Capacity, HoldsClosed(q, n)
    PROVE  HoldsClosed(Append(Kept(q), m), n + 1)
<1> DEFINE r == Append(Kept(q), m)
<1>1. /\ Len(r) \in Nat /\ Len(q) \in Nat /\ Capacity \in Nat \ {0}
      /\ Len(r) = IF Len(q) = Capacity THEN Len(q) ELSE Len(q) + 1
      /\ \A i \in 1..(Len(r) - 1) : r[i] = IF Len(q) = Capacity THEN q[i + 1] ELSE q[i]
  BY KeptType DEF FeedAssumption
<1> HIDE DEF r
<1>2. PICK i \in 1..Len(q) : q[i] = RoomClosed /\ Len(q) - i <= n
  BY DEF HoldsClosed
<1>3. CASE Len(q) = Capacity
  <2>1. i - 1 \in 1..(Len(r) - 1) /\ r[i - 1] = q[i] /\ Len(r) - (i - 1) <= n + 1
    BY <1>1, <1>2, <1>3
  <2> QED BY <1>1, <1>2, <2>1 DEF HoldsClosed, r
<1>4. CASE Len(q) # Capacity
  <2>1. i \in 1..(Len(r) - 1) /\ r[i] = q[i] /\ Len(r) - i <= n + 1
    BY <1>1, <1>2, <1>4
  <2> QED BY <1>1, <1>2, <2>1 DEF HoldsClosed, r
<1> QED BY <1>3, <1>4

LEMMA Taken ==
    ASSUME NEW q \in Seq(Message), q # <<>>, NEW x, EndsWith(q, x)
    PROVE  /\ Head(q) \in Message /\ Tail(q) \in Seq(Message)
           /\ Len(Tail(q)) = Len(q) - 1
           /\ EndsWith(Tail(q), x)
           /\ Silent(Tail(q)) => Head(q) = x \/ Silent(q)
           /\ \A n \in Nat : HoldsClosed(q, n) =>
                 Head(q) = RoomClosed \/ HoldsClosed(Tail(q), n)
<1> DEFINE t == Tail(q)
<1>1. /\ Head(q) \in Message /\ t \in Seq(Message)
      /\ Len(q) \in Nat \ {0} /\ Len(t) = Len(q) - 1
      /\ Head(q) = q[1]
      /\ \A i \in 1..Len(t) : t[i] = q[i + 1]
  OBVIOUS
<1> HIDE DEF t
<1>2. EndsWith(t, x)
  <2>1. SUFFICES ASSUME NEW i \in 1..Len(t), t[i].to = Everyone,
                        \A j \in (i + 1)..Len(t) : t[j].to # Everyone
                 PROVE  t[i] = x
    BY DEF EndsWith
  <2>2. ASSUME NEW j \in (i + 2)..Len(q) PROVE q[j].to # Everyone
    <3>1. j - 1 \in (i + 1)..Len(t) /\ t[j - 1] = q[j]
      BY <1>1
    <3> QED BY <2>1, <3>1
  <2>3. i + 1 \in 1..Len(q) /\ t[i] = q[i + 1]
    BY <1>1
  <2> QED BY <2>1, <2>2, <2>3 DEF EndsWith
<1>3. ASSUME Silent(t), ~Silent(q) PROVE q[1] = x
  <2>1. ASSUME NEW j \in 2..Len(q) PROVE q[j].to # Everyone
    <3>1. j - 1 \in 1..Len(t) /\ t[j - 1] = q[j]
      BY <1>1
    <3> QED BY <1>3, <3>1 DEF Silent
  <2>2. q[1].to = Everyone
    BY <1>1, <1>3, <2>1 DEF Silent
  <2> QED BY <1>1, <2>1, <2>2 DEF EndsWith
<1>4. ASSUME NEW n \in Nat, HoldsClosed(q, n), q[1] # RoomClosed
      PROVE  HoldsClosed(t, n)
  <2>1. PICK i \in 1..Len(q) : q[i] = RoomClosed /\ Len(q) - i <= n
    BY <1>4 DEF HoldsClosed
  <2>2. i - 1 \in 1..Len(t) /\ t[i - 1] = q[i] /\ Len(t) - (i - 1) <= n
    BY <1>1, <1>4, <2>1
  <2> QED BY <2>1, <2>2 DEF HoldsClosed
<1> QED BY <1>1, <1>2, <1>3, <1>4 DEF t

-----------------------------------------------------------------------------
(* What sending does to every receiver.                                    *)

LEMMA MessageTypes ==
    ASSUME FeedAssumption
    PROVE  /\ RoomClosed \in Message /\ RoomClosed.to = Everyone
           /\ \A v \in 1..MaxVersion : State(v) \in Message /\ State(v).to = Everyone
           /\ \A v \in 1..MaxVersion : State(v).says = v /\ State(v) # RoomClosed
           /\ \A p \in Player : Note(p) \in Message /\ Note(p).to # Everyone
<1>1. RoomClosed \in Message /\ RoomClosed.to = Everyone
  BY DEF Message, RoomClosed
<1>2. \A v \in 1..MaxVersion : State(v) \in Message
  BY DEF Message
<1>3. \A v \in 1..MaxVersion :
        State(v).to = Everyone /\ State(v).says = v /\ State(v) # RoomClosed
  <2>1. RoomClosed.says = 0
    BY DEF RoomClosed
  <2>2. \A v : State(v).to = Everyone /\ State(v).says = v
    BY DEF State
  <2> QED BY <2>1, <2>2 DEF FeedAssumption
<1>4. \A p \in Player : Note(p) \in Message
  BY DEF Message
<1>5. \A p \in Player : Note(p).to # Everyone
  BY DEF FeedAssumption, Note, Everyone
<1> QED BY <1>1, <1>2, <1>3, <1>4, <1>5

LEMMA SendType ==
    ASSUME FeedAssumption, TypeOK, NEW m \in Message, Send(m)
    PROVE  /\ queue' \in [Conn -> Seq(Message)]
           /\ \A c \in Conn : Len(queue'[c]) <= Capacity
           /\ lagged' \subseteq Conn
           /\ race' \in 0..MaxRace
<1>1. /\ queue' \in [Conn -> Seq(Message)]
      /\ \A c \in Conn : Len(queue'[c]) <= Capacity
  BY KeptType DEF TypeOK, Send, Subscribed
<1>2. lagged' \subseteq Conn
  BY DEF TypeOK, Send, Subscribed
<1>3. race' \in 0..MaxRace
  BY DEF TypeOK, Send, FeedAssumption
<1> QED BY <1>1, <1>2, <1>3

\* After a message for everyone it is the last one of every receiver.
LEMMA SendToAll ==
    ASSUME FeedAssumption, TypeOK, NEW m \in Message, m.to = Everyone, Send(m),
           NEW c \in Subscribed
    PROVE  EndsWith(queue'[c], m) /\ ~Silent(queue'[c])
BY PutForAll DEF TypeOK, Send, Subscribed

\* A message for one player hides nothing from a receiver it does not overrun.
LEMMA SendToOne ==
    ASSUME FeedAssumption, TypeOK, NEW m \in Message, m.to # Everyone, Send(m),
           NEW c \in Subscribed, NEW x, EndsWith(queue[c], x)
    PROVE  /\ EndsWith(queue'[c], x)
           /\ c \notin lagged' => c \notin lagged
           /\ c \notin lagged' /\ Silent(queue'[c]) => Silent(queue[c])
<1>1. /\ queue[c] \in Seq(Message) /\ Len(queue[c]) <= Capacity
      /\ queue'[c] = Append(Kept(queue[c]), m)
      /\ c \notin lagged' => c \notin lagged /\ Len(queue[c]) # Capacity
  BY DEF TypeOK, Send, Subscribed
<1> QED BY <1>1, PutForOne

\* Fewer messages can follow RoomClosed than the channel holds.
LEMMA SendBehindClosed ==
    ASSUME FeedAssumption, TypeOK, NEW m \in Message, Send(m), removing # {},
           NEW c \in Subscribed, HoldsClosed(queue[c], race)
    PROVE  HoldsClosed(queue'[c], race')
<1>1. /\ queue[c] \in Seq(Message) /\ Len(queue[c]) <= Capacity
      /\ queue'[c] = Append(Kept(queue[c]), m)
  BY DEF TypeOK, Send, Subscribed
<1>2. race \in Nat /\ race + 1 < Capacity /\ race' = race + 1
  BY DEF TypeOK, Send, FeedAssumption
<1> QED BY <1>1, <1>2, PutBehindClosed

LEMMA BroadcastSends ==
    ASSUME FeedAssumption, version' \in 1..MaxVersion, Broadcast
    PROVE  Present' \in Message /\ Present'.to = Everyone /\ Send(Present')
BY MessageTypes DEF Broadcast, Present

\* After a broadcast every receiver ends with the room as it is now.
LEMMA BroadcastInv ==
    ASSUME FeedAssumption, TypeOK, version' \in 1..MaxVersion, Broadcast,
           Subscribed' \subseteq Subscribed
    PROVE  NewestLast' /\ NoneLeft'
<1>1. Present' \in Message /\ Present'.to = Everyone /\ Send(Present')
  BY BroadcastSends
<1>2. \A c \in Subscribed' : EndsWith(queue'[c], Present') /\ ~Silent(queue'[c])
  BY <1>1, SendToAll
<1> QED BY <1>2 DEF NewestLast, NoneLeft

\* While a handler is about to drop the room, RoomClosed stays on its way.
LEMMA StillOnItsWay ==
    ASSUME FeedAssumption, TypeOK, ClosedOnItsWay, live, NEW m \in Message, Send(m),
           Subscribed' \subseteq Subscribed, UNCHANGED <<live, told, due>>,
           removing \subseteq removing'
    PROVE  ClosedOnItsWay'
<1>1. due' # {} => removing' # {}
  BY DEF ClosedOnItsWay
<1>2. ASSUME NEW c \in due' \cap Subscribed', c \notin told'
      PROVE  HoldsClosed(queue'[c], race')
  BY <1>2, SendBehindClosed DEF ClosedOnItsWay
<1> QED BY <1>1, <1>2 DEF ClosedOnItsWay

-----------------------------------------------------------------------------
(* One lemma per action.                                                   *)

LEMMA InitInv == ASSUME FeedAssumption, Init PROVE IInv
<1>1. TypeOK
  BY DEF FeedAssumption, Init, TypeOK
<1>2. Subscribed = {}
  BY DEF Init, Subscribed
<1>3. NewestLast /\ NoneLeft /\ ClosedOnItsWay /\ Untouched
  BY <1>2 DEF Init, NewestLast, NoneLeft, ClosedOnItsWay, Untouched
<1> QED BY <1>1, <1>3 DEF IInv

\* Steps that send nothing and open nothing.
LEMMA QuietStep ==
    ASSUME FeedAssumption, IInv, TypeOK', Subscribed' \subseteq Subscribed,
           UNCHANGED <<version, roster, me, queue, due, race>>, told \subseteq told',
           \A c \in Conn : conn'[c] \in {"new", "accepted"} => conn[c] = "new"
                               \/ conn[c] = "accepted",
           live' => live /\ removing \subseteq removing',
           \A c \in Conn : view'[c] = view[c] \/ (live => view'[c] = version),
           \A c \in Subscribed' : c \notin lagged' \cup resyncing' =>
               c \notin lagged \cup resyncing \/ (live => view'[c] = version)
    PROVE  IInv'
<1>1. Present' = Present
  BY DEF Present
<1>2. NewestLast'
  BY <1>1 DEF IInv, NewestLast
<1>3. NoneLeft'
  <2>1. SUFFICES ASSUME NEW c \in Subscribed', live', roster # {}, me[c] # None,
                        c \notin lagged' \cup resyncing', Silent(queue[c])
                 PROVE  view'[c] = version
    BY DEF NoneLeft
  <2>2. c \in Conn /\ c \in Subscribed /\ live
    BY <2>1 DEF Subscribed
  <2> QED BY <2>1, <2>2 DEF IInv, NoneLeft
<1>4. ClosedOnItsWay'
  BY DEF IInv, ClosedOnItsWay
<1>5. Untouched'
  BY DEF IInv, Untouched
<1> QED BY <1>2, <1>3, <1>4, <1>5 DEF IInv

LEMMA AcceptInv ==
    ASSUME FeedAssumption, IInv, NEW c \in Conn, Accept(c) PROVE IInv'
<1>1. TypeOK'
  BY DEF IInv, TypeOK, Accept, roomVars
<1>2. Subscribed' \subseteq Subscribed
  BY DEF IInv, TypeOK, Accept, Subscribed
<1> QED BY <1>1, <1>2, QuietStep DEF IInv, TypeOK, Accept, roomVars

LEMMA SubscribeInv ==
    ASSUME FeedAssumption, IInv, NEW c \in Conn, Subscribe(c) PROVE IInv'
<1>1. TypeOK' /\ Present' = Present
  BY DEF IInv, TypeOK, Subscribe, roomVars, Present
<1>2. Subscribed' \subseteq Subscribed \cup {c}
  BY DEF IInv, TypeOK, Subscribe, Subscribed
<1>3. queue'[c] = <<>> /\ me'[c] = None /\ c \notin due'
  BY DEF IInv, Untouched, Subscribe
<1>4. NewestLast'
  <2>1. EndsWith(queue'[c], Present')
    BY <1>3 DEF EndsWith
  <2> QED BY <1>1, <1>2, <2>1 DEF IInv, NewestLast, Subscribe
<1>5. NoneLeft'
  BY <1>2, <1>3 DEF IInv, NoneLeft, Subscribe, roomVars
<1>6. ClosedOnItsWay'
  BY <1>2, <1>3 DEF IInv, ClosedOnItsWay, Subscribe, roomVars
<1>7. Untouched'
  BY DEF IInv, TypeOK, Untouched, Subscribe
<1> QED BY <1>1, <1>4, <1>5, <1>6, <1>7 DEF IInv

LEMMA JoinInv ==
    ASSUME FeedAssumption, IInv, NEW c \in Conn, NEW p \in Player, Join(c, p)
    PROVE  IInv'
<1>1. version' \in 1..MaxVersion /\ Subscribed' = Subscribed
  BY DEF IInv, TypeOK, Join, Subscribed
<1>2. Present' \in Message /\ Send(Present')
  BY <1>1, BroadcastSends DEF Join
<1>3. TypeOK'
  BY <1>1, <1>2, SendType DEF IInv, TypeOK, Join
<1>4. NewestLast' /\ NoneLeft'
  BY <1>1, BroadcastInv DEF IInv, Join
<1>5. ClosedOnItsWay'
  BY <1>1, <1>2, StillOnItsWay DEF IInv, Join
<1>6. Untouched'
  BY <1>2 DEF IInv, TypeOK, Untouched, Join, Waiting, Send, Subscribed
<1> QED BY <1>3, <1>4, <1>5, <1>6 DEF IInv

LEMMA JoinNowhereInv ==
    ASSUME FeedAssumption, IInv, NEW c \in Conn, JoinNowhere(c) PROVE IInv'
<1>1. TypeOK' /\ Present' = Present
  BY DEF IInv, TypeOK, JoinNowhere, roomVars, Present
<1>2. Subscribed' = Subscribed \ {c} /\ \A d \in Subscribed' : queue'[d] = queue[d]
  BY DEF IInv, TypeOK, JoinNowhere, Subscribed
<1>3. NewestLast' /\ NoneLeft' /\ ClosedOnItsWay'
  BY <1>1, <1>2
     DEF IInv, NewestLast, NoneLeft, ClosedOnItsWay, JoinNowhere, roomVars
<1>4. Untouched'
  BY DEF IInv, TypeOK, Untouched, JoinNowhere
<1> QED BY <1>1, <1>3, <1>4 DEF IInv

LEMMA ChangeInv ==
    ASSUME FeedAssumption, IInv, NEW c \in Conn, Change(c) PROVE IInv'
<1>1. version' \in 1..MaxVersion /\ Subscribed' = Subscribed
  BY DEF IInv, TypeOK, Change, Subscribed
<1>2. Present' \in Message /\ Present'.to = Everyone /\ Send(Present')
  BY <1>1, BroadcastSends DEF Change
<1>3. TypeOK'
  BY <1>1, <1>2, SendType DEF IInv, TypeOK, Change, SeesRoster, Subscribed
<1>4. NewestLast' /\ NoneLeft'
  BY <1>1, BroadcastInv DEF IInv, Change
<1>5. ClosedOnItsWay'
  <2>1. CASE roster' = {}
    <3>1. removing' # {}
      BY <2>1 DEF Change, SeesRoster
    <3>2. ASSUME NEW d \in Subscribed PROVE HoldsClosed(queue'[d], race')
      <4>1. EndsWith(queue'[d], RoomClosed) /\ ~Silent(queue'[d])
        BY <1>2, <2>1, SendToAll DEF IInv, Present
      <4>2. Present' = RoomClosed
        BY <2>1 DEF Present
      <4>3. queue'[d] = Append(Kept(queue[d]), RoomClosed)
        BY <1>2, <4>2 DEF Send, Subscribed
      <4>4. /\ Len(queue'[d]) \in Nat \ {0}
            /\ queue'[d][Len(queue'[d])] = RoomClosed
        BY <1>2, <4>2, <4>3, KeptType DEF IInv, TypeOK, Subscribed
      <4>5. race' \in Nat
        BY <1>3 DEF TypeOK, FeedAssumption
      <4> QED BY <4>4, <4>5 DEF HoldsClosed
    <3>3. due' = Subscribed
      BY <2>1 DEF Change
    <3> QED BY <1>1, <3>1, <3>2, <3>3 DEF ClosedOnItsWay
  <2>2. CASE roster' # {}
    <3>1. UNCHANGED <<live, told, due>> /\ removing \subseteq removing' /\ live
      BY <2>2 DEF Change, SeesRoster
    <3> QED BY <1>1, <1>2, <3>1, StillOnItsWay DEF IInv
  <2> QED BY <2>1, <2>2
<1>6. Untouched'
  BY <1>2 DEF IInv, TypeOK, Untouched, Change, Send, Subscribed
<1> QED BY <1>3, <1>4, <1>5, <1>6 DEF IInv

LEMMA AnswerInv ==
    ASSUME FeedAssumption, IInv, NEW c \in Conn, NEW p \in Player, Answer(c, p)
    PROVE  IInv'
<1>1. Note(p) \in Message /\ Note(p).to # Everyone /\ Send(Note(p))
  BY MessageTypes DEF Answer
<1>2. Subscribed' = Subscribed /\ Present' = Present
  BY DEF Answer, Subscribed, Present
<1>3. TypeOK'
  BY <1>1, SendType DEF IInv, TypeOK, Answer, SeesRoster
<1>4. NewestLast'
  BY <1>1, <1>2, SendToOne DEF IInv, NewestLast
<1>5. NoneLeft'
  <2>1. \A d \in Subscribed :
          /\ d \notin lagged' => d \notin lagged
          /\ d \notin lagged' /\ Silent(queue'[d]) => Silent(queue[d])
    BY <1>1, SendToOne DEF IInv, NewestLast
  <2> QED BY <1>2, <2>1 DEF IInv, NoneLeft, Answer
<1>6. ClosedOnItsWay'
  BY <1>1, <1>2, StillOnItsWay DEF IInv, Answer, SeesRoster
<1>7. Untouched'
  BY <1>1 DEF IInv, TypeOK, Untouched, Answer, Send, Subscribed
<1> QED BY <1>3, <1>4, <1>5, <1>6, <1>7 DEF IInv

LEMMA RemoveRoomInv ==
    ASSUME FeedAssumption, IInv, NEW c \in Conn, RemoveRoom(c) PROVE IInv'
<1>1. TypeOK' /\ Subscribed' = Subscribed
  BY DEF IInv, TypeOK, RemoveRoom, Subscribed
<1> QED BY <1>1, QuietStep DEF RemoveRoom

LEMMA SweepInv == ASSUME FeedAssumption, IInv, Sweep PROVE IInv'
<1>1. TypeOK' /\ Subscribed' = Subscribed
  BY DEF IInv, TypeOK, Sweep, Subscribed, readerVars
<1> QED BY <1>1, QuietStep DEF Sweep, readerVars

LEMMA RecvInv ==
    ASSUME FeedAssumption, IInv, NEW c \in Conn, Recv(c) PROVE IInv'
<1> DEFINE m == Head(queue[c])
<1>1. /\ c \in Subscribed /\ queue[c] \in Seq(Message) /\ queue[c] # <<>>
      /\ EndsWith(queue[c], Present) /\ c \notin lagged \cup resyncing
  BY DEF IInv, TypeOK, Recv, Waiting, Subscribed, NewestLast
<1>2. /\ m \in Message /\ Tail(queue[c]) \in Seq(Message)
      /\ Len(Tail(queue[c])) = Len(queue[c]) - 1
      /\ EndsWith(Tail(queue[c]), Present)
      /\ Silent(Tail(queue[c])) => m = Present \/ Silent(queue[c])
      /\ HoldsClosed(queue[c], race) => m = RoomClosed \/ HoldsClosed(Tail(queue[c]), race)
  <2>1. race \in Nat
    BY DEF IInv, TypeOK, FeedAssumption
  <2> QED BY <1>1, <2>1, Taken
<1>3. /\ queue' = [queue EXCEPT ![c] = Tail(queue[c])]
      /\ view' = IF m.to = Everyone /\ m # RoomClosed
                 THEN [view EXCEPT ![c] = m.says] ELSE view
      /\ told' = IF m = RoomClosed THEN told \cup {c} ELSE told
      /\ UNCHANGED <<roomVars, conn, me, lagged, resyncing, removing, due, race>>
  BY DEF Recv
<1> HIDE DEF m
<1>4. m.to = Everyone /\ m # RoomClosed => m.says \in 1..MaxVersion
  BY <1>2, MessageTypes DEF Message
<1>5. TypeOK'
  <2>1. view' \in [Conn -> 0..MaxVersion]
    BY <1>3, <1>4 DEF IInv, TypeOK
  <2>2. queue' \in [Conn -> Seq(Message)] /\ \A d \in Conn : Len(queue'[d]) <= Capacity
    BY <1>1, <1>2, <1>3 DEF IInv, TypeOK, FeedAssumption
  <2> QED BY <1>3, <2>1, <2>2 DEF IInv, TypeOK, roomVars
<1>6. Subscribed' = Subscribed /\ Present' = Present
  BY <1>3 DEF Subscribed, Present, roomVars
<1>7. NewestLast'
  BY <1>2, <1>3, <1>6 DEF IInv, TypeOK, NewestLast
<1>8. NoneLeft'
  <2>1. SUFFICES ASSUME NEW d \in Subscribed, live, roster # {}, me[d] # None,
                        d \notin lagged \cup resyncing, Silent(queue'[d])
                 PROVE  view'[d] = version
    BY <1>3, <1>6 DEF NoneLeft, roomVars
  <2>2. CASE d # c
    BY <1>3, <2>1, <2>2 DEF IInv, TypeOK, NoneLeft
  <2>3. CASE d = c /\ m = Present
    <3>1. Present = State(version) /\ version \in 1..MaxVersion
      BY <2>1 DEF Present, IInv, TypeOK
    <3>2. m.to = Everyone /\ m # RoomClosed /\ m.says = version
      BY <2>3, <3>1, MessageTypes
    <3> QED BY <1>1, <1>3, <2>3, <3>2 DEF IInv, TypeOK, Subscribed
  <2>4. CASE d = c /\ m # Present
    <3>1. Silent(queue[c])
      BY <1>1, <1>2, <1>3, <2>1, <2>4 DEF IInv, TypeOK, Subscribed
    <3>2. m.to # Everyone
      BY <1>1, <3>1 DEF Silent, m
    <3> QED BY <1>3, <2>1, <2>4, <3>1, <3>2 DEF IInv, NoneLeft
  <2> QED BY <2>2, <2>3, <2>4
<1>9. ClosedOnItsWay'
  BY <1>1, <1>2, <1>3, <1>6 DEF IInv, TypeOK, ClosedOnItsWay, roomVars
<1>10. Untouched'
  BY <1>1, <1>3 DEF IInv, TypeOK, Untouched, Subscribed
<1> QED BY <1>5, <1>7, <1>8, <1>9, <1>10 DEF IInv

LEMMA RecvLaggedInv ==
    ASSUME FeedAssumption, IInv, NEW c \in Conn, RecvLagged(c) PROVE IInv'
<1>1. TypeOK' /\ Subscribed' = Subscribed
  BY DEF IInv, TypeOK, RecvLagged, roomVars, Subscribed
<1> QED BY <1>1, QuietStep DEF RecvLagged, roomVars, IInv, TypeOK

LEMMA ResyncInv ==
    ASSUME FeedAssumption, IInv, NEW c \in Conn, Resync(c) PROVE IInv'
<1>1. TypeOK' /\ Subscribed' = Subscribed
  BY DEF IInv, TypeOK, Resync, Shown, roomVars, Subscribed
<1>2. live => view'[c] = version
  BY DEF IInv, TypeOK, Resync, Shown
<1>3. \A d \in Conn : d # c => view'[d] = view[d]
  BY DEF IInv, TypeOK, Resync, Shown
<1>4. \A d \in Conn : view'[d] = view[d] \/ (live => view'[d] = version)
  BY <1>2, <1>3
<1>5. \A d \in Subscribed' : d \notin lagged' \cup resyncing' =>
          d \notin lagged \cup resyncing \/ (live => view'[d] = version)
  BY <1>2 DEF Resync
<1> QED BY <1>1, <1>4, <1>5, QuietStep DEF Resync, roomVars

LEMMA RecvClosedInv ==
    ASSUME FeedAssumption, IInv, NEW c \in Conn, RecvClosed(c) PROVE IInv'
<1>1. TypeOK' /\ Subscribed' \subseteq Subscribed
  BY DEF IInv, TypeOK, RecvClosed, roomVars, Subscribed
<1> QED BY <1>1, QuietStep DEF RecvClosed, roomVars, IInv, TypeOK

LEMMA EndsInv ==
    ASSUME FeedAssumption, IInv, NEW c \in Conn, Ends(c) PROVE IInv'
<1>1. Subscribed' \subseteq Subscribed
  BY DEF IInv, TypeOK, Ends, Subscribed
<1>2. \A d \in Conn : conn'[d] \in {"new", "accepted"} => conn'[d] = conn[d]
  BY DEF IInv, TypeOK, Ends
<1>3. CASE UNCHANGED <<version, roster, owner, queue, lagged, race>>
  <2>1. TypeOK'
    BY <1>3 DEF IInv, TypeOK, Ends
  <2> QED BY <1>1, <1>2, <1>3, <2>1, QuietStep DEF Ends
<1>4. CASE /\ live /\ Owns(c) /\ version < MaxVersion /\ version' = version + 1
           /\ owner' = [owner EXCEPT ![me[c]] = None]
           /\ UNCHANGED roster /\ Broadcast
  <2>1. version' \in 1..MaxVersion
    BY <1>4 DEF IInv, TypeOK
  <2>2. Present' \in Message /\ Send(Present')
    BY <1>4, <2>1, BroadcastSends
  <2>3. TypeOK'
    BY <1>4, <2>1, <2>2, SendType DEF IInv, TypeOK, Ends
  <2>4. NewestLast' /\ NoneLeft'
    BY <1>1, <1>4, <2>1, BroadcastInv DEF IInv
  <2>5. ClosedOnItsWay'
    BY <1>1, <1>4, <2>2, StillOnItsWay DEF IInv, Ends
  <2>6. Untouched'
    BY <1>2, <2>2 DEF IInv, TypeOK, Untouched, Ends, Send, Subscribed
  <2> QED BY <2>3, <2>4, <2>5, <2>6 DEF IInv
<1> QED BY <1>3, <1>4 DEF Ends

LEMMA NextInv == ASSUME FeedAssumption, IInv, [Next]_vars PROVE IInv'
<1>1. CASE UNCHANGED vars
  <2>1. TypeOK' /\ Subscribed' = Subscribed
    BY <1>1 DEF vars, roomVars, readerVars, IInv, TypeOK, Subscribed
  <2> QED BY <1>1, <2>1, QuietStep DEF vars, roomVars, readerVars, IInv, TypeOK
<1>2. ASSUME NEW c \in Conn,
             \/ Accept(c) \/ Subscribe(c) \/ JoinNowhere(c)
             \/ \E p \in Player : Join(c, p) \/ Answer(c, p)
             \/ Change(c) \/ RemoveRoom(c)
             \/ Recv(c) \/ RecvLagged(c) \/ Resync(c) \/ RecvClosed(c)
             \/ Ends(c)
      PROVE  IInv'
  BY <1>2, AcceptInv, SubscribeInv, JoinNowhereInv, JoinInv, AnswerInv, ChangeInv,
     RemoveRoomInv, RecvInv, RecvLaggedInv, ResyncInv, RecvClosedInv, EndsInv
<1>3. CASE Sweep
  BY <1>3, SweepInv
<1> QED BY <1>1, <1>2, <1>3 DEF Next

-----------------------------------------------------------------------------
LEMMA InductiveInvariant == Spec => []IInv
<1>1. Init => IInv
  BY InitInv, FeedAssumption
<1>2. IInv /\ [Next]_vars => IInv'
  BY NextInv, FeedAssumption
<1> QED BY <1>1, <1>2, PTL DEF Spec

\* The room, its channel and its connections keep their types, and no receiver
\* holds more messages than the channel.
THEOREM TypeCorrect == Spec => []TypeOK
BY InductiveInvariant, PTL DEF IInv

\* A joined client that has taken all it was sent is looking at the room as it
\* is: the state that a broadcast shows, or the one a resync does when the
\* messages kept are all for other players.
THEOREM ClientsCatchUp == Spec => []CaughtUp
<1>1. IInv => CaughtUp
  <2>1. Silent(<<>>)
    BY DEF Silent
  <2> QED BY <2>1 DEF IInv, TypeOK, NoneLeft, CaughtUp, Drained, Subscribed
<1> QED BY <1>1, InductiveInvariant, PTL

\* The clients of a room that closes are told before their sockets end, as long
\* as fewer messages than the channel holds come between the closing and the
\* removal of the room.
THEOREM ClosingIsTold == Spec => []ClosedIsTold
<1>1. IInv => ClosedIsTold
  <2>1. \A n : ~HoldsClosed(<<>>, n)
    BY DEF HoldsClosed
  <2> QED BY <2>1 DEF IInv, TypeOK, ClosedOnItsWay, ClosedIsTold, Drained, Subscribed
<1> QED BY <1>1, InductiveInvariant, PTL
=============================================================================
