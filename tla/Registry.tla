------------------------------ MODULE Registry ------------------------------
(***************************************************************************)
(* The map of rooms: who adds a room to it, who removes one, and what they *)
(* decided on before they did.  None of them holds a lock from the moment  *)
(* it looks to the moment it acts, so every look and every act is a step   *)
(* of its own.  How and when the map is saved is in Persistence (here it   *)
(* is saved at any time), what happens inside a room is in Room.           *)
(***************************************************************************)
EXTENDS Integers, FiniteSets

CONSTANTS
    Code,         \* room codes
    Creator,      \* requests to POST /api/rooms that may be served at once
    Handler,      \* sockets whose message may find a roster empty at once
    Nobody,       \* not a code
    MaxRooms,     \* MAX_ROOMS
    MaxAttempts,  \* MAX_CODE_ATTEMPTS
    TTL,          \* ROOM_TTL, in ticks
    MaxMade       \* bound: rooms made in one run

ASSUME RegistryAssumption ==
    /\ IsFiniteSet(Code) /\ IsFiniteSet(Creator) /\ Creator # {}
    /\ Nobody \notin Code
    /\ MaxRooms \in Nat \ {0}
    /\ MaxAttempts \in Nat \ {0}
    /\ TTL \in Nat \ {0}
    /\ MaxMade \in Nat

VARIABLES
    room,       \* the map: a number of its own for the room under each code, or 0
    age,        \* ticks since the room's last activity, TTL for that or more
    empty,      \* codes of the rooms with an empty roster
    draws,      \* a creator's draws so far, or Idle while it serves no request
    chosen,     \* the free code a creator is about to use, or Nobody
    seen,       \* the code of the room a handler has seen empty, or Nobody
    toVisit,    \* codes the sweep's first pass has still to visit
    expired,    \* codes the sweep's second pass has still to remove
    saved,      \* the last snapshot: the room under each code, or 0
    savedEmpty, \* codes of the rooms saved with an empty roster
    made,       \* rooms made so far
    raced,      \* history: codes a remover holds whose room was used or made
                \* since it looked
    rivals,     \* history: creators whose chosen code another one held too
    loaded      \* history: how many rooms this server has loaded

mapVars == <<room, age, empty, made>>
creatorVars == <<draws, chosen, rivals>>
removerVars == <<seen, toVisit, expired>>
diskVars == <<saved, savedEmpty, loaded>>
vars == <<mapVars, creatorVars, removerVars, diskVars, raced>>

Idle == -1
Live == {c \in Code : room[c] # 0}
InFlight == {k \in Creator : draws[k] # Idle}
Doomed == {seen[h] : h \in Handler} \cup expired

Init ==
    /\ room = [c \in Code |-> 0]
    /\ age = [c \in Code |-> 0]
    /\ empty = {}
    /\ draws = [k \in Creator |-> Idle]
    /\ chosen = [k \in Creator |-> Nobody]
    /\ seen = [h \in Handler |-> Nobody]
    /\ toVisit = {}
    /\ expired = {}
    /\ saved = [c \in Code |-> 0]
    /\ savedEmpty = {}
    /\ made = 0
    /\ raced = {}
    /\ rivals = {}
    /\ loaded = 0

-----------------------------------------------------------------------------
(* POST /api/rooms.                                                        *)

\* Slip: full is taken for not yet full.
SlipHasCapacity == Cardinality(Live) <= MaxRooms

\* The capacity check.
HasCapacity == Cardinality(Live) < MaxRooms

\* A request that passes the gate and the check of the host's name is let in
\* if the server has capacity; any other is refused and changes nothing.
Request(k) ==
    /\ draws[k] = Idle
    /\ HasCapacity
    /\ made + Cardinality(InFlight) < MaxMade
    /\ draws' = [draws EXCEPT ![k] = 0]
    /\ UNCHANGED <<mapVars, chosen, rivals, removerVars, diskVars, raced>>

\* Slip: the code is not looked up.
SlipIsFree(c) == TRUE

\* The map does not hold the code.
IsFree(c) == room[c] = 0

\* One more attempt; after the last one the request fails with CodeExhausted.
CountDraw(k) ==
    draws' = [draws EXCEPT ![k] = IF @ + 1 = MaxAttempts THEN Idle ELSE @ + 1]

\* The other creators that are about to use code c.
Holders(c, k) == {j \in Creator \ {k} : chosen[j] = c}

\* RoomCode::generate, and the look whether the map holds the code.  Nobody
\* asks whether another creator is about to use it.
Draw(k) ==
    /\ draws[k] # Idle /\ chosen[k] = Nobody
    /\ \E c \in Code :
          \/ /\ IsFree(c)
             /\ chosen' = [chosen EXCEPT ![k] = c]
             /\ rivals' = IF Holders(c, k) = {} THEN rivals
                          ELSE rivals \cup Holders(c, k) \cup {k}
             /\ UNCHANGED draws
          \/ /\ ~IsFree(c)
             /\ CountDraw(k)
             /\ UNCHANGED <<chosen, rivals>>
    /\ UNCHANGED <<mapVars, removerVars, diskVars, raced>>

\* The new room goes into the map, in place of any other under its code.
Insert(k) ==
    /\ chosen[k] # Nobody
    /\ made' = made + 1
    /\ room' = [room EXCEPT ![chosen[k]] = made + 1]
    /\ age' = [age EXCEPT ![chosen[k]] = 0]
    /\ empty' = empty \ {chosen[k]}
    /\ draws' = [draws EXCEPT ![k] = Idle]
    /\ chosen' = [chosen EXCEPT ![k] = Nobody]
    /\ rivals' = rivals \ {k}
    /\ raced' = IF chosen[k] \in Doomed THEN raced \cup {chosen[k]} ELSE raced
    /\ UNCHANGED <<removerVars, diskVars>>

-----------------------------------------------------------------------------
(* A room in use: the closures of with_room_mut, as far as the map cares.  *)

\* A message that counts as activity, or a join, which fills an empty roster.
Use(c) ==
    /\ c \in Live
    /\ age' = [age EXCEPT ![c] = 0]
    /\ empty' = empty \ {c}
    /\ raced' = IF c \in Doomed THEN raced \cup {c} ELSE raced
    /\ UNCHANGED <<room, made, creatorVars, removerVars, diskVars>>

\* Slip: the handler reports any room whose roster has shrunk.
SlipSeesEmpty(c) == UNCHANGED <<age, empty>>

\* The roster is empty after the message: the message removed the last player,
\* or found nobody.
SeesEmpty(c) ==
    /\ empty' = empty \cup {c}
    /\ age' = IF c \in empty THEN age ELSE [age EXCEPT ![c] = 0]

\* A handler sees the roster empty before it lets go of the room's lock.
Empties(h, c) ==
    /\ seen[h] = Nobody
    /\ c \in Live
    /\ SeesEmpty(c)
    /\ seen' = [seen EXCEPT ![h] = c]
    /\ UNCHANGED <<room, made, creatorVars, toVisit, expired, diskVars, raced>>

\* Whatever room is under the code leaves the map.
Remove(c) ==
    /\ room' = [room EXCEPT ![c] = 0]
    /\ age' = [age EXCEPT ![c] = 0]
    /\ empty' = empty \ {c}
    /\ raced' = raced \ {c}
    /\ UNCHANGED <<made, creatorVars, toVisit, diskVars>>

\* Registry::remove_room, called by the handler without another look.
RemoveEmptied(h) ==
    /\ seen[h] # Nobody
    /\ Remove(seen[h])
    /\ seen' = [seen EXCEPT ![h] = Nobody]
    /\ UNCHANGED expired

-----------------------------------------------------------------------------
(* The sweep of idle rooms.                                                *)

\* Slip: only rooms that everybody has left grow old.
SlipIsExpired(c) == c \in empty /\ age[c] = TTL

\* Room::is_expired.
IsExpired(c) == c \in Live /\ age[c] = TTL

\* A tick of the sweep's interval.
StartSweep ==
    /\ toVisit = {} /\ expired = {}
    /\ toVisit' = Code
    /\ UNCHANGED <<mapVars, creatorVars, seen, expired, diskVars, raced>>

\* The first pass visits the rooms one by one and notes the idle ones' codes.
Visit(c) ==
    /\ c \in toVisit
    /\ toVisit' = toVisit \ {c}
    /\ expired' = IF IsExpired(c) THEN expired \cup {c} ELSE expired
    /\ UNCHANGED <<mapVars, creatorVars, seen, diskVars, raced>>

\* The second pass removes them, used since or not.
RemoveExpired(c) ==
    /\ toVisit = {}
    /\ c \in expired
    /\ Remove(c)
    /\ expired' = expired \ {c}
    /\ UNCHANGED seen

\* Time passes for every room.
Tick ==
    /\ \E c \in Live : age[c] < TTL
    /\ age' = [c \in Code |-> IF c \in Live /\ age[c] < TTL THEN age[c] + 1 ELSE age[c]]
    /\ UNCHANGED <<room, empty, made, creatorVars, removerVars, diskVars, raced>>

-----------------------------------------------------------------------------
(* Saving and loading.                                                     *)

\* Registry::snapshot reads the room under code c for the file.  A snapshot
\* reads one code after the other while everybody goes on, so what is loaded
\* may never have been in the map at one time.
Save(c) ==
    /\ saved' = [saved EXCEPT ![c] = room[c]]
    /\ savedEmpty' = IF c \in empty THEN savedEmpty \cup {c} ELSE savedEmpty \ {c}
    /\ UNCHANGED <<mapVars, creatorVars, removerVars, loaded, raced>>

\* The server ends, in whatever way, and another one loads the last snapshot
\* (from_snapshot): rooms made since are gone, rooms removed since are back.  A
\* room saved when its roster was empty is back without the handler that was
\* about to remove it.
Restart ==
    /\ room' = saved
    /\ empty' = savedEmpty
    /\ age' = [c \in Code |-> 0]
    /\ loaded' = Cardinality({c \in Code : saved[c] # 0})
    /\ draws' = [k \in Creator |-> Idle]
    /\ chosen' = [k \in Creator |-> Nobody]
    /\ seen' = [h \in Handler |-> Nobody]
    /\ toVisit' = {} /\ expired' = {} /\ raced' = {} /\ rivals' = {}
    /\ UNCHANGED <<saved, savedEmpty, made>>

Next ==
    \/ \E k \in Creator : Request(k) \/ Draw(k) \/ Insert(k)
    \/ \E c \in Code : Use(c) \/ Visit(c) \/ RemoveExpired(c) \/ Save(c)
    \/ \E h \in Handler : RemoveEmptied(h) \/ \E c \in Code : Empties(h, c)
    \/ StartSweep
    \/ Tick
    \/ Restart

\* A remover that has looked goes on, the sweep's interval keeps ticking and so
\* does the clock.  Nobody has to use a room, to ask for one or to make it.
Fairness ==
    /\ \A h \in Handler : WF_vars(RemoveEmptied(h))
    /\ \A c \in Code : WF_vars(Visit(c)) /\ WF_vars(RemoveExpired(c))
    /\ WF_vars(StartSweep)
    /\ WF_vars(Tick)

Spec == Init /\ [][Next]_vars /\ Fairness

-----------------------------------------------------------------------------
\* The map, its creators and its removers keep their types.
TypeOK ==
    /\ room \in [Code -> Nat]
    /\ age \in [Code -> 0..TTL]
    /\ empty \subseteq Live
    /\ draws \in [Creator -> Idle..(MaxAttempts - 1)]
    /\ chosen \in [Creator -> Code \cup {Nobody}]
    /\ seen \in [Handler -> Code \cup {Nobody}]
    /\ toVisit \subseteq Code
    /\ expired \subseteq Code
    /\ saved \in [Code -> Nat]
    /\ savedEmpty \subseteq {c \in Code : saved[c] # 0}
    /\ raced \subseteq Code
    /\ rivals \subseteq Creator
    /\ made \in Nat
    /\ loaded \in Nat

\* The check of the capacity and the insert are two steps, so MAX_ROOMS may be
\* exceeded, but never by more than the requests served at once less one, those
\* not yet inserted included.  A snapshot may hold more, as it was not read at
\* one time; then there are no more rooms than were loaded.
RoomsBounded ==
    LET rooms == Cardinality(Live) + Cardinality(InFlight)
    IN  rooms < MaxRooms + Cardinality(Creator) \/ rooms <= loaded

\* The look whether a code is taken and the insert are two steps as well, so a
\* room may be put in another one's place, whose players then find a stranger's
\* room under their code.  But only requests that have drawn the same code and
\* hold it at the same time do that to each other: a room that was in the map
\* when a code was drawn is never in the way of the insert, whatever was
\* created, removed, swept and loaded before.
ReplacesOnlyRivals ==
    \A k \in Creator :
        chosen[k] # Nobody /\ room[chosen[k]] # 0 => k \in rivals

\* A room that leaves the map is idle or empty, unless somebody used it, or made
\* it, after its remover had looked: handlers and the sweep act on a look that is
\* stale by one race and by nothing else.  (A load is not a removal: it brings
\* the snapshot's rooms and no others.)
NothingInUseRemoved ==
    [][\A c \in Code : room[c] # 0 /\ room'[c] = 0 /\ ~Restart =>
          c \in empty \/ age[c] = TTL \/ c \in raced]_vars

\* No room stays unused for good, not even one that was saved empty and came
\* back with a restart.
UnusedGoes == \A c \in Code : []<>(c \notin Live \/ age[c] = 0)
=============================================================================
