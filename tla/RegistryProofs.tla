--------------------------- MODULE RegistryProofs ---------------------------
(***************************************************************************)
(* What holds of the map of rooms for any number of codes, of requests at  *)
(* once, of handlers and of attempts, and for every mixture of rooms a     *)
(* load may find.  The capacity is a matter of counting (lemmas *Counts),  *)
(* what takes a room's place one of the codes that creators have chosen    *)
(* but not used yet.                                                       *)
(***************************************************************************)
EXTENDS Registry, FiniteSetTheorems, TLAPS

\* Only a request that is being served has chosen a code.
ChoosersInFlight == \A k \in Creator : chosen[k] # Nobody => draws[k] # Idle

\* Two creators that hold one code are rivals.
HoldersAreRivals ==
    \A j, k \in Creator :
        j # k /\ chosen[k] # Nobody /\ chosen[j] = chosen[k] => k \in rivals

IInv == TypeOK /\ ChoosersInFlight /\ RoomsBounded

LEMMA Counts ==
    ASSUME NEW S, NEW T, IsFiniteSet(T), S \subseteq T
    PROVE  /\ IsFiniteSet(S)
           /\ Cardinality(S) \in Nat
           /\ Cardinality(T) \in Nat
           /\ Cardinality(S) <= Cardinality(T)
BY FS_Subset, FS_CardinalityType

LEMMA OneMoreCounts ==
    ASSUME NEW S, NEW x, IsFiniteSet(S)
    PROVE  /\ IsFiniteSet(S \cup {x})
           /\ Cardinality(S) \in Nat
           /\ Cardinality(S \cup {x}) <= Cardinality(S) + 1
<1>1. Cardinality(S) \in Nat
  BY FS_CardinalityType
<1>2. /\ IsFiniteSet(S \cup {x})
      /\ \/ Cardinality(S \cup {x}) = Cardinality(S)
         \/ Cardinality(S \cup {x}) = Cardinality(S) + 1
  BY FS_AddElement
<1> QED BY <1>1, <1>2

\* Fewer rooms and fewer requests keep the bound.
LEMMA FewerCounts ==
    ASSUME RegistryAssumption, RoomsBounded,
           TypeOK, UNCHANGED loaded,
           Live' \subseteq Live, InFlight' \subseteq InFlight
    PROVE  RoomsBounded'
<1>1. IsFiniteSet(Live) /\ IsFiniteSet(InFlight)
  BY FS_Subset DEF RegistryAssumption, Live, InFlight
<1>2. /\ Cardinality(Live) \in Nat /\ Cardinality(Live') \in Nat
      /\ Cardinality(Live') <= Cardinality(Live)
  BY <1>1, Counts
<1>3. /\ Cardinality(InFlight) \in Nat /\ Cardinality(InFlight') \in Nat
      /\ Cardinality(InFlight') <= Cardinality(InFlight)
  BY <1>1, Counts
<1>4. MaxRooms \in Nat /\ Cardinality(Creator) \in Nat /\ loaded \in Nat
  BY FS_CardinalityType DEF RegistryAssumption, TypeOK
<1> QED BY <1>2, <1>3, <1>4 DEF RoomsBounded

\* A request that finds room for its own keeps it, as all requests together are
\* no more than the creators.
LEMMA RequestCounts ==
    ASSUME RegistryAssumption, TypeOK, NEW k \in Creator, Request(k)
    PROVE  RoomsBounded'
<1>1. Live' = Live /\ Cardinality(Live) < MaxRooms
  BY DEF Request, HasCapacity, mapVars, Live
<1>2. Cardinality(Live') \in Nat
  BY <1>1, FS_Subset, FS_CardinalityType DEF RegistryAssumption, Live
<1>3. /\ Cardinality(InFlight') \in Nat /\ Cardinality(Creator) \in Nat
      /\ Cardinality(InFlight') <= Cardinality(Creator)
  BY Counts DEF RegistryAssumption, InFlight
<1>4. MaxRooms \in Nat
  BY DEF RegistryAssumption
<1> QED BY <1>1, <1>2, <1>3, <1>4 DEF RoomsBounded

\* An insert is a request less and at most one room more.
LEMMA InsertCounts ==
    ASSUME RegistryAssumption, TypeOK, ChoosersInFlight, RoomsBounded,
           NEW k \in Creator, Insert(k)
    PROVE  RoomsBounded'
<1>1. IsFiniteSet(Live) /\ IsFiniteSet(InFlight)
  BY FS_Subset DEF RegistryAssumption, Live, InFlight
<1>2. Live' \subseteq Live \cup {chosen[k]}
  BY DEF Insert, Live, TypeOK
<1>3. /\ Cardinality(Live) \in Nat /\ Cardinality(Live') \in Nat
      /\ Cardinality(Live') <= Cardinality(Live) + 1
  <2>1. /\ IsFiniteSet(Live \cup {chosen[k]})
        /\ Cardinality(Live \cup {chosen[k]}) <= Cardinality(Live) + 1
        /\ Cardinality(Live) \in Nat
    BY <1>1, OneMoreCounts
  <2> QED BY <1>2, <2>1, Counts
<1>4. k \in InFlight /\ InFlight' = InFlight \ {k}
  BY DEF Insert, InFlight, ChoosersInFlight, TypeOK
<1>5. /\ Cardinality(InFlight) \in Nat
      /\ Cardinality(InFlight') = Cardinality(InFlight) - 1
  BY <1>1, <1>4, FS_RemoveElement, FS_CardinalityType
<1>6. /\ MaxRooms \in Nat /\ Cardinality(Creator) \in Nat
      /\ loaded \in Nat /\ loaded' = loaded
  BY FS_CardinalityType DEF RegistryAssumption, TypeOK, Insert, diskVars
<1> QED BY <1>3, <1>5, <1>6 DEF RoomsBounded

\* A load begins with the rooms it finds and no request.
LEMMA RestartCounts ==
    ASSUME RegistryAssumption, TypeOK, Restart
    PROVE  RoomsBounded'
<1>1. InFlight' = {} /\ Live' = {c \in Code : saved[c] # 0}
  BY DEF Restart, InFlight, Live
<1>2. Cardinality(Live') = loaded' /\ loaded' \in Nat
  BY <1>1, FS_Subset, FS_CardinalityType DEF RegistryAssumption, Restart
<1>3. Cardinality(InFlight') = 0
  BY <1>1, FS_EmptySet
<1>4. Cardinality(InFlight') \in Nat
  BY <1>3
<1>5. Cardinality(Live') \in Nat
  BY <1>2
<1>6. Cardinality(Live') = loaded'
  BY <1>2
<1>7. loaded' \in Nat
  BY <1>2
<1>8. \A rooms, requests, found \in Nat :
          rooms = found /\ requests = 0 => rooms + requests <= found
  OBVIOUS
<1>9. Cardinality(Live') + Cardinality(InFlight') <= loaded'
  BY <1>3, <1>4, <1>5, <1>6, <1>7, <1>8
<1> QED BY <1>9 DEF RoomsBounded

-----------------------------------------------------------------------------
LEMMA InitIInv == ASSUME RegistryAssumption, Init PROVE IInv
<1>1. TypeOK /\ ChoosersInFlight
  BY DEF RegistryAssumption, Init, TypeOK, ChoosersInFlight, Idle, Live
<1>2. Live = {} /\ InFlight = {}
  BY DEF Init, Live, InFlight, Idle
<1>3. RoomsBounded
  <2>1. Cardinality(Creator) \in Nat
    BY FS_CardinalityType DEF RegistryAssumption
  <2>2. Cardinality({}) = 0
    BY FS_EmptySet
  <2> QED BY <1>2, <2>1, <2>2, FS_EmptySet DEF RoomsBounded, RegistryAssumption
<1> QED BY <1>1, <1>3 DEF IInv

LEMMA RequestInv ==
    ASSUME RegistryAssumption, IInv, NEW k \in Creator, Request(k) PROVE IInv'
<1>1. TypeOK' /\ ChoosersInFlight'
  BY DEF RegistryAssumption, IInv, TypeOK, ChoosersInFlight, Request, Idle,
         Live, mapVars, removerVars, diskVars
<1> QED BY <1>1, RequestCounts DEF IInv

LEMMA DrawInv ==
    ASSUME RegistryAssumption, IInv, NEW k \in Creator, Draw(k) PROVE IInv'
<1>1. TypeOK' /\ ChoosersInFlight'
  BY DEF RegistryAssumption, IInv, TypeOK, ChoosersInFlight, Draw, CountDraw,
         Holders, Idle, Live, mapVars, removerVars, diskVars
<1>2. Live' = Live /\ InFlight' \subseteq InFlight /\ loaded' = loaded
  BY DEF IInv, TypeOK, Draw, CountDraw, Live, InFlight, Idle, mapVars, diskVars
<1> QED BY <1>1, <1>2, FewerCounts DEF IInv

LEMMA InsertInv ==
    ASSUME RegistryAssumption, IInv, NEW k \in Creator, Insert(k) PROVE IInv'
<1>1. TypeOK'
  BY DEF RegistryAssumption, IInv, TypeOK, Insert, Idle, Live, removerVars, diskVars
<1>2. ChoosersInFlight'
  BY DEF IInv, TypeOK, ChoosersInFlight, Insert
<1> QED BY <1>1, <1>2, InsertCounts DEF IInv

\* What every other step of a running server does: no room and no request is
\* added, and a creator keeps its state.
LEMMA OtherInv ==
    ASSUME RegistryAssumption, IInv, TypeOK', Live' \subseteq Live,
           UNCHANGED <<creatorVars, loaded>>
    PROVE  IInv'
<1>1. InFlight' \subseteq InFlight
  BY DEF creatorVars, InFlight
<1>2. ChoosersInFlight'
  BY DEF IInv, ChoosersInFlight, creatorVars
<1> QED BY <1>1, <1>2, FewerCounts DEF IInv

LEMMA UseInv ==
    ASSUME RegistryAssumption, IInv, NEW c \in Code, Use(c) PROVE IInv'
<1>1. TypeOK' /\ Live' = Live
  BY DEF RegistryAssumption, IInv, TypeOK, Use, Live, creatorVars, removerVars, diskVars
<1> QED BY <1>1, OtherInv DEF Use, diskVars

LEMMA EmptiesInv ==
    ASSUME RegistryAssumption, IInv, NEW h \in Handler, NEW c \in Code, Empties(h, c)
    PROVE  IInv'
<1>1. TypeOK' /\ Live' = Live
  BY DEF RegistryAssumption, IInv, TypeOK, Empties, SeesEmpty, Live, creatorVars,
         diskVars
<1> QED BY <1>1, OtherInv DEF Empties, diskVars

LEMMA RemoveInv ==
    ASSUME RegistryAssumption, IInv, NEW c \in Code, Remove(c),
           seen' \in [Handler -> Code \cup {Nobody}], expired' \subseteq Code
    PROVE  IInv'
<1>1. TypeOK' /\ Live' \subseteq Live
  BY DEF RegistryAssumption, IInv, TypeOK, Remove, Live, creatorVars, diskVars
<1> QED BY <1>1, OtherInv DEF Remove, diskVars

LEMMA RemoverInv ==
    ASSUME RegistryAssumption, IInv, UNCHANGED <<mapVars, creatorVars, seen, diskVars, raced>>,
           toVisit' \subseteq Code, expired' \subseteq Code
    PROVE  IInv'
<1>1. TypeOK' /\ Live' = Live
  BY DEF IInv, TypeOK, Live, mapVars, creatorVars, diskVars
<1> QED BY <1>1, OtherInv DEF diskVars

LEMMA TickInv == ASSUME RegistryAssumption, IInv, Tick PROVE IInv'
<1>1. TypeOK' /\ Live' = Live
  BY DEF RegistryAssumption, IInv, TypeOK, Tick, Live, creatorVars, removerVars, diskVars
<1> QED BY <1>1, OtherInv DEF Tick, diskVars

LEMMA SaveInv ==
    ASSUME RegistryAssumption, IInv, NEW c \in Code, Save(c) PROVE IInv'
<1>1. TypeOK' /\ Live' = Live
  BY DEF IInv, TypeOK, Save, Live, mapVars, creatorVars, removerVars
<1> QED BY <1>1, OtherInv DEF Save

LEMMA RestartInv == ASSUME RegistryAssumption, IInv, Restart PROVE IInv'
<1>1. loaded' \in Nat
  BY FS_Subset, FS_CardinalityType DEF RegistryAssumption, Restart
<1>2. TypeOK' /\ ChoosersInFlight'
  BY <1>1 DEF RegistryAssumption, IInv, TypeOK, ChoosersInFlight, Restart, Live, Idle
<1> QED BY <1>2, RestartCounts DEF IInv

LEMMA NextInv == ASSUME RegistryAssumption, IInv, [Next]_vars PROVE IInv'
<1>1. ASSUME NEW k \in Creator, Request(k) PROVE IInv'
  BY <1>1, RequestInv
<1>2. ASSUME NEW k \in Creator, Draw(k) PROVE IInv'
  BY <1>2, DrawInv
<1>3. ASSUME NEW k \in Creator, Insert(k) PROVE IInv'
  BY <1>3, InsertInv
<1>4. ASSUME NEW c \in Code, Use(c) PROVE IInv'
  BY <1>4, UseInv
<1>5. ASSUME NEW c \in Code, Visit(c) PROVE IInv'
  BY <1>5, RemoverInv DEF Visit, IInv, TypeOK
<1>6. ASSUME NEW c \in Code, RemoveExpired(c) PROVE IInv'
  BY <1>6, RemoveInv DEF RemoveExpired, IInv, TypeOK
<1>7. ASSUME NEW h \in Handler, RemoveEmptied(h) PROVE IInv'
  <2>1. seen[h] \in Code /\ Remove(seen[h]) /\ expired' \subseteq Code
    BY <1>7 DEF RemoveEmptied, IInv, TypeOK
  <2>2. seen' \in [Handler -> Code \cup {Nobody}]
    BY <1>7 DEF RemoveEmptied, IInv, TypeOK
  <2> QED BY <2>1, <2>2, RemoveInv
<1>8. ASSUME NEW h \in Handler, NEW c \in Code, Empties(h, c) PROVE IInv'
  BY <1>8, EmptiesInv
<1>9. CASE StartSweep
  BY <1>9, RemoverInv DEF StartSweep
<1>10. CASE Tick
  BY <1>10, TickInv
<1>11. CASE Restart
  BY <1>11, RestartInv
<1>12. CASE UNCHANGED vars
  BY <1>12, RemoverInv DEF vars, removerVars, IInv, TypeOK
<1>13. ASSUME NEW c \in Code, Save(c) PROVE IInv'
  BY <1>13, SaveInv
<1> QED
  BY <1>1, <1>2, <1>3, <1>4, <1>5, <1>6, <1>7, <1>8, <1>9, <1>10, <1>11, <1>12, <1>13
     DEF Next

LEMMA InductiveInvariant == Spec => []IInv
<1>1. Init => IInv
  BY InitIInv, RegistryAssumption
<1>2. IInv /\ [Next]_vars => IInv'
  BY NextInv, RegistryAssumption
<1> QED BY <1>1, <1>2, PTL DEF Spec

\* The map, the requests and the removers keep their types, and only rooms that
\* are in the map count as empty.
THEOREM TypeCorrect == Spec => []TypeOK
BY InductiveInvariant, PTL DEF IInv

\* However many requests are served at once, they exceed MAX_ROOMS together by
\* less than their own number, unless a load has exceeded it already: create_room
\* checks the capacity once and inserts later.
THEOREM CapacityBounded == Spec => []RoomsBounded
BY InductiveInvariant, PTL DEF IInv

-----------------------------------------------------------------------------
\* A step after which whoever has chosen a code had chosen it before, and what
\* is under it was there before, and which forgets no rival that has a code.
LEMMA RivalsStay ==
    ASSUME TypeOK, HoldersAreRivals, ReplacesOnlyRivals,
           \A k \in Creator : chosen'[k] # Nobody =>
              /\ chosen'[k] = chosen[k]
              /\ k \in rivals => k \in rivals'
              /\ room'[chosen[k]] # 0 => room[chosen[k]] # 0
    PROVE  HoldersAreRivals' /\ ReplacesOnlyRivals'
BY DEF HoldersAreRivals, ReplacesOnlyRivals

\* A draw makes the drawer and whoever holds the code already rivals, and finds
\* nothing under the code.
LEMMA DrawRivals ==
    ASSUME TypeOK, HoldersAreRivals, ReplacesOnlyRivals,
           NEW k \in Creator, Draw(k)
    PROVE  HoldersAreRivals' /\ ReplacesOnlyRivals'
<1>1. CASE UNCHANGED <<chosen, rivals>>
  BY <1>1, RivalsStay DEF Draw, mapVars
<1>2. ASSUME NEW c \in Code, IsFree(c), chosen' = [chosen EXCEPT ![k] = c],
             rivals' = IF Holders(c, k) = {} THEN rivals
                       ELSE rivals \cup Holders(c, k) \cup {k}
      PROVE  HoldersAreRivals' /\ ReplacesOnlyRivals'
  <2>1. /\ chosen'[k] = c
        /\ \A j \in Creator \ {k} : chosen'[j] = chosen[j]
        /\ rivals \subseteq rivals'
        /\ room' = room /\ room[c] = 0
    BY <1>2 DEF TypeOK, IsFree, Draw, mapVars
  <2>2. \A j \in Creator \ {k} : chosen[j] = c => j \in rivals' /\ k \in rivals'
    BY <1>2 DEF Holders
  <2>3. HoldersAreRivals'
    BY <2>1, <2>2 DEF HoldersAreRivals
  <2>4. ReplacesOnlyRivals'
    BY <2>1 DEF ReplacesOnlyRivals
  <2> QED BY <2>3, <2>4
<1> QED BY <1>1, <1>2 DEF Draw

\* An insert puts a room in the way of those who hold its code, all rivals.
LEMMA InsertRivals ==
    ASSUME TypeOK, HoldersAreRivals, ReplacesOnlyRivals,
           NEW k \in Creator, Insert(k)
    PROVE  HoldersAreRivals' /\ ReplacesOnlyRivals'
<1>1. /\ chosen'[k] = Nobody
      /\ \A j \in Creator \ {k} : chosen'[j] = chosen[j]
      /\ \A j \in Creator \ {k} : j \in rivals' <=> j \in rivals
  BY DEF TypeOK, Insert
<1>2. \A c \in Code : c # chosen[k] => room'[c] = room[c]
  BY DEF TypeOK, Insert
<1>3. HoldersAreRivals'
  BY <1>1 DEF HoldersAreRivals
<1>4. ReplacesOnlyRivals'
  BY <1>1, <1>2 DEF TypeOK, HoldersAreRivals, ReplacesOnlyRivals, Insert
<1> QED BY <1>3, <1>4

LEMMA NextRivals ==
    ASSUME RegistryAssumption, TypeOK, HoldersAreRivals, ReplacesOnlyRivals,
           [Next]_vars
    PROVE  HoldersAreRivals' /\ ReplacesOnlyRivals'
<1> DEFINE Rivals == HoldersAreRivals' /\ ReplacesOnlyRivals'
<1>1. ASSUME UNCHANGED <<chosen, rivals, room>> PROVE Rivals
  BY <1>1, RivalsStay
<1>2. ASSUME NEW c \in Code, Remove(c) PROVE Rivals
  BY <1>2, RivalsStay DEF Remove, TypeOK, creatorVars
<1>3. CASE Restart
  BY <1>3, RivalsStay DEF Restart
<1>4. ASSUME NEW k \in Creator, Request(k) PROVE Rivals
  BY <1>1, <1>4 DEF Request, mapVars
<1>5. ASSUME NEW c \in Code, Use(c) PROVE Rivals
  BY <1>1, <1>5 DEF Use, creatorVars
<1>6. ASSUME NEW c \in Code, Visit(c) PROVE Rivals
  BY <1>1, <1>6 DEF Visit, mapVars, creatorVars
<1>7. ASSUME NEW c \in Code, Save(c) PROVE Rivals
  BY <1>1, <1>7 DEF Save, mapVars, creatorVars
<1>8. ASSUME NEW c \in Code, RemoveExpired(c) PROVE Rivals
  BY <1>2, <1>8 DEF RemoveExpired
<1>9. ASSUME NEW h \in Handler, RemoveEmptied(h) PROVE Rivals
  BY <1>2, <1>9 DEF RemoveEmptied, TypeOK
<1>10. ASSUME NEW h \in Handler, NEW c \in Code, Empties(h, c) PROVE Rivals
  BY <1>1, <1>10 DEF Empties, creatorVars
<1>11. CASE StartSweep
  BY <1>1, <1>11 DEF StartSweep, mapVars, creatorVars
<1>12. CASE Tick
  BY <1>1, <1>12 DEF Tick, creatorVars
<1>13. CASE UNCHANGED vars
  BY <1>1, <1>13 DEF vars, mapVars, creatorVars
<1> QED
  BY <1>3, <1>4, <1>5, <1>6, <1>7, <1>8, <1>9, <1>10, <1>11, <1>12, <1>13,
     DrawRivals, InsertRivals DEF Next

\* Whatever was created, swept, removed and loaded, what takes a room's place
\* under its code is the room of a request that held the code together with
\* another one: create_room inserts without a second look, and that window is
\* all there is.
THEOREM CodesKeepTheirRooms == Spec => []ReplacesOnlyRivals
<1>1. Init => HoldersAreRivals /\ ReplacesOnlyRivals
  BY DEF Init, HoldersAreRivals, ReplacesOnlyRivals
<1>2. TypeOK /\ HoldersAreRivals /\ ReplacesOnlyRivals /\ [Next]_vars
        => HoldersAreRivals' /\ ReplacesOnlyRivals'
  BY NextRivals, RegistryAssumption
<1> QED
  BY <1>1, <1>2, TypeCorrect, PTL DEF Spec

-----------------------------------------------------------------------------
\* Whoever is about to remove a room has seen it empty or idle, and it is so
\* still unless it was used, or another one made in its place, since.
DoomedAreUnused ==
    \A c \in Code \cap Doomed :
        c \in empty \/ age[c] = TTL \/ c \in raced \/ c \notin Live

\* A remover's step on the code c: the room under it goes, and with it all that
\* the map knew of it.
LEMMA RemoveDoomed ==
    ASSUME RegistryAssumption, TypeOK, DoomedAreUnused, NEW c \in Code, Remove(c),
           Doomed' \cap Code \subseteq Doomed
    PROVE  DoomedAreUnused'
<1>1. \A d \in Code \ {c} : /\ room'[d] = room[d] /\ age'[d] = age[d]
                            /\ d \in empty' <=> d \in empty
                            /\ d \in raced' <=> d \in raced
  BY DEF Remove, TypeOK
<1>2. c \notin Live'
  BY DEF Remove, TypeOK, Live
<1> QED BY <1>1, <1>2 DEF DoomedAreUnused, Live

LEMMA NextDoomed ==
    ASSUME RegistryAssumption, TypeOK, DoomedAreUnused, [Next]_vars
    PROVE  DoomedAreUnused'
<1>1. ASSUME NEW k \in Creator, Insert(k) PROVE DoomedAreUnused'
  <2>1. /\ chosen[k] \in Code /\ Doomed' = Doomed
        /\ chosen[k] \in Doomed => chosen[k] \in raced'
    BY <1>1 DEF Insert, TypeOK, removerVars, Doomed
  <2>2. \A d \in Code \ {chosen[k]} :
           /\ room'[d] = room[d] /\ age'[d] = age[d]
           /\ d \in raced => d \in raced'
           /\ d \in empty' <=> d \in empty
    BY <1>1 DEF Insert, TypeOK
  <2> QED BY <2>1, <2>2 DEF DoomedAreUnused, Live
<1>2. ASSUME NEW c \in Code, Use(c) PROVE DoomedAreUnused'
  <2>1. Doomed' = Doomed /\ Live' = Live
    BY <1>2 DEF Use, removerVars, Doomed, Live
  <2>2. \A d \in Code \ {c} :
           /\ age'[d] = age[d]
           /\ d \in empty' <=> d \in empty
           /\ d \in raced => d \in raced'
    BY <1>2 DEF Use, TypeOK
  <2>3. c \in Doomed => c \in raced'
    BY <1>2 DEF Use
  <2> QED BY <2>1, <2>2, <2>3 DEF DoomedAreUnused
<1>3. ASSUME NEW h \in Handler, NEW c \in Code, Empties(h, c) PROVE DoomedAreUnused'
  <2>1. Doomed' \subseteq Doomed \cup {c} /\ Live' = Live /\ raced' = raced
    BY <1>3 DEF Empties, TypeOK, Doomed, Live
  <2>2. /\ c \in empty'
        /\ \A d \in Code \ {c} :
              /\ age'[d] = age[d]
              /\ d \in empty' <=> d \in empty
    BY <1>3 DEF Empties, SeesEmpty, TypeOK
  <2> QED BY <2>1, <2>2 DEF DoomedAreUnused
<1>4. ASSUME NEW h \in Handler, RemoveEmptied(h) PROVE DoomedAreUnused'
  <2>1. seen[h] \in Code /\ Remove(seen[h])
    BY <1>4 DEF RemoveEmptied, TypeOK
  <2>2. Doomed' \cap Code \subseteq Doomed
    BY <1>4 DEF RemoveEmptied, TypeOK, Doomed, RegistryAssumption
  <2> QED BY <2>1, <2>2, RemoveDoomed
<1>5. ASSUME NEW c \in Code, Visit(c) PROVE DoomedAreUnused'
  BY <1>5 DEF Visit, IsExpired, mapVars, Doomed, Live, DoomedAreUnused
<1>6. ASSUME NEW c \in Code, RemoveExpired(c) PROVE DoomedAreUnused'
  BY <1>6, RemoveDoomed DEF RemoveExpired, Doomed
<1>7. CASE Tick
  <2>1. Doomed' = Doomed /\ Live' = Live /\ empty' = empty /\ raced' = raced
    BY <1>7 DEF Tick, removerVars, Doomed, Live
  <2>2. \A c \in Code : age[c] = TTL => age'[c] = TTL
    BY <1>7 DEF Tick, TypeOK, RegistryAssumption
  <2> QED BY <2>1, <2>2 DEF DoomedAreUnused
<1>8. CASE Restart
  BY <1>8 DEF Restart, RegistryAssumption, Doomed, DoomedAreUnused
<1>9. ASSUME UNCHANGED <<mapVars, removerVars, raced>> PROVE DoomedAreUnused'
  BY <1>9 DEF mapVars, removerVars, Doomed, Live, DoomedAreUnused
<1>10. ASSUME UNCHANGED <<mapVars, seen, expired, raced>> PROVE DoomedAreUnused'
  BY <1>10 DEF mapVars, Doomed, Live, DoomedAreUnused
<1>11. ASSUME NEW k \in Creator, Request(k) \/ Draw(k) PROVE DoomedAreUnused'
  BY <1>9, <1>11 DEF Request, Draw
<1>12. CASE StartSweep
  BY <1>10, <1>12 DEF StartSweep, removerVars
<1>13. CASE UNCHANGED vars
  BY <1>9, <1>13 DEF vars
<1>14. ASSUME NEW c \in Code, Save(c) PROVE DoomedAreUnused'
  BY <1>9, <1>14 DEF Save
<1> QED
  BY <1>1, <1>2, <1>3, <1>4, <1>5, <1>6, <1>7, <1>8, <1>11, <1>12, <1>13, <1>14
     DEF Next

\* Only a remover takes a room out of the map, and it holds the room's code.
LEMMA NextRemovesDoomed ==
    ASSUME RegistryAssumption, TypeOK, DoomedAreUnused, [Next]_vars
    PROVE  \A c \in Code : room[c] # 0 /\ room'[c] = 0 /\ ~Restart =>
              c \in empty \/ age[c] = TTL \/ c \in raced
<1> SUFFICES ASSUME NEW c \in Code, room[c] # 0, room'[c] = 0, ~Restart
             PROVE  c \in empty \/ age[c] = TTL \/ c \in raced
  OBVIOUS
<1>1. ASSUME NEW d \in Code, d \in Doomed, Remove(d)
      PROVE  c \in empty \/ age[c] = TTL \/ c \in raced
  <2>1. c = d
    BY <1>1 DEF Remove, TypeOK
  <2> QED BY <1>1, <2>1 DEF DoomedAreUnused, Live
<1>2. ASSUME NEW k \in Creator, Insert(k) PROVE FALSE
  BY <1>2 DEF Insert, TypeOK
<1>3. ASSUME NEW d \in Code, RemoveExpired(d)
      PROVE  c \in empty \/ age[c] = TTL \/ c \in raced
  BY <1>1, <1>3 DEF RemoveExpired, Doomed
<1>4. ASSUME NEW h \in Handler, RemoveEmptied(h)
      PROVE  c \in empty \/ age[c] = TTL \/ c \in raced
  BY <1>1, <1>4 DEF RemoveEmptied, TypeOK, Doomed
<1> QED
  BY <1>2, <1>3, <1>4
     DEF Next, vars, mapVars, Request, Draw, Use, Visit, Empties, StartSweep, Tick, Save

\* A room that leaves the map is idle or empty, or was used or made after its
\* remover looked: however many handlers, sweeps and creators race, no other room
\* is ever taken.
THEOREM RemovalsAreDue == Spec => NothingInUseRemoved
<1> DEFINE Due == \A c \in Code : room[c] # 0 /\ room'[c] = 0 /\ ~Restart =>
                      c \in empty \/ age[c] = TTL \/ c \in raced
<1>1. Init => DoomedAreUnused
  BY RegistryAssumption DEF Init, DoomedAreUnused, Doomed
<1>2. TypeOK /\ DoomedAreUnused /\ [Next]_vars => DoomedAreUnused'
  BY NextDoomed, RegistryAssumption
<1>3. TypeOK /\ DoomedAreUnused /\ [Next]_vars => [Due]_vars
  BY NextRemovesDoomed, RegistryAssumption
<1> QED
  BY <1>1, <1>2, <1>3, TypeCorrect, PTL DEF Spec, NothingInUseRemoved
=============================================================================
