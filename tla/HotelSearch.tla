---------------------------- MODULE HotelSearch ----------------------------
(***************************************************************************)
(* A search in one hotel (SearchRepository) while rooms and inventories    *)
(* are being inserted.  A search is three reads of its own, in no          *)
(* transaction: the active rooms, their inventory over the stay, their     *)
(* amenities; then the answer is computed (module RoomAllocation).  Rooms  *)
(* and inventories are never updated or deleted.  The database returns     *)
(* rooms in any order; candidates are a function from room types.          *)
(***************************************************************************)
EXTENDS RoomAllocation

CONSTANTS
  Rooms,            \* room types, numbered as their ids are ordered
  Kinds,            \* what is said of a room to insert
  Nights,           \* the nights inventories are inserted for
  MaxFree,          \* bound: the rooms of a type that are free in a night
  Criteria,         \* what is searched for
  MaxCombinations,  \* maxCombinations of the request, or its default
  NoRow             \* no such row

ASSUME RoomsAssumption == Rooms \subseteq Nat /\ IsFiniteSet(Rooms)

\* What is inserted and searched for are the integers of the requests.
ASSUME KindsAssumption ==
  \A k \in Kinds : /\ k.price \in Int /\ k.maxAdult \in Int
                   /\ k.maxChild \in Int /\ k.maxOccupancy \in Int

ASSUME InventoryAssumption == Nights \subseteq Int /\ MaxFree \in Nat

ASSUME CriteriaAssumption ==
  /\ \A q \in Criteria : /\ q.checkIn \in Int /\ q.checkOut \in Int
                         /\ q.adults \in Int /\ q.roomCount \in Int /\ q.ages \in Seq(Int)
  /\ MaxCombinations \in Nat

ASSUME NoRowAssumption == NoRow \notin Kinds /\ NoRow \notin 0..MaxFree

VARIABLES
  rooms,       \* the rooms table, with the amenities of each room
  inventory,   \* the room_inventories table: what is free of a room in a night
  pc,          \* the next read of the search, or "done"
  criteria,    \* what it searches for
  found,       \* the active rooms it read
  candidates,  \* the rooms it can offer
  answer       \* what it answers

vars == <<rooms, inventory, pc, criteria, found, candidates, answer>>

NoAnswer == [match |-> "none", rooms |-> <<>>, combinations |-> <<>>]

Init ==
  /\ rooms      = [r \in Rooms |-> NoRow]
  /\ inventory  = [r \in Rooms |-> [n \in Nights |-> NoRow]]
  /\ pc         = "ready"
  /\ criteria  \in Criteria
  /\ found      = {}
  /\ candidates = [r \in {} |-> NoRow]
  /\ answer     = NoAnswer

(***************************************************************************)
(* What hotels insert.                                                     *)
(***************************************************************************)
\* ValidateForCreate of a room, as far as the search looks at it.
ValidRoom(k) ==
  /\ k.price > 0
  /\ k.maxAdult > 0
  /\ k.maxChild >= 0
  /\ k.maxOccupancy > 0
  /\ k.maxOccupancy >= k.maxAdult + k.maxChild

\* CreateRoom: the room and its amenities in one transaction.
CreateRoom(r) ==
  /\ rooms[r] = NoRow
  /\ \E k \in Kinds : ValidRoom(k) /\ rooms' = [rooms EXCEPT ![r] = k]
  /\ UNCHANGED <<inventory, pc, criteria, found, candidates, answer>>

\* Mutation: held and booked are compared with the total one by one.
ValidOneByOne(total, held, booked) == held <= total /\ booked <= total

\* ValidateForCreate of an inventory.
ValidInventory(total, held, booked) == held + booked <= total

\* CreateInventory: one row per room and night, for a room that exists; the
\* search only looks at what is left of the total.
CreateInventory(r, n) ==
  /\ rooms[r] # NoRow
  /\ inventory[r][n] = NoRow
  /\ \E total, held, booked \in 0..MaxFree :
       /\ ValidInventory(total, held, booked)
       /\ inventory' = [inventory EXCEPT ![r][n] = total - held - booked]
  /\ UNCHANGED <<rooms, pc, criteria, found, candidates, answer>>

(***************************************************************************)
(* The search.                                                             *)
(***************************************************************************)
Stay == criteria.checkIn..(criteria.checkOut - 1)

\* The inventory rows of a room in the stay.
Rows(r) == {n \in Stay \intersect Nights : inventory[r][n] # NoRow}

\* Mutation: the query without its HAVING clause.
AvailabilityOfSomeNights(r) ==
  IF Rows(r) # {} THEN Min({inventory[r][n] : n \in Rows(r)}) ELSE 0

\* roomAvailabilityByDateRange: the least of all nights, if no night lacks a row.
RoomAvailability(r) ==
  IF Cardinality(Rows(r)) = criteria.checkOut - criteria.checkIn
  THEN Min({inventory[r][n] : n \in Rows(r)})
  ELSE 0

\* Validate.
ValidCriteria(q) == q.checkOut > q.checkIn /\ q.adults > 0 /\ q.roomCount > 0

Refuse ==
  /\ pc = "ready"
  /\ ~ValidCriteria(criteria)
  /\ pc' = "done"
  /\ UNCHANGED <<rooms, inventory, criteria, found, candidates, answer>>

LoadRooms ==
  /\ pc = "ready"
  /\ ValidCriteria(criteria)
  /\ found' = {r \in Rooms : rooms[r] # NoRow /\ rooms[r].active}
  /\ pc' = "availability"
  /\ UNCHANGED <<rooms, inventory, criteria, candidates, answer>>

\* The inventories are read, then the amenities, which never change: rooms with
\* something left and with all amenities asked for become candidates.
LoadCandidates ==
  LET offered == {r \in found : /\ RoomAvailability(r) > 0
                                /\ criteria.amenities \subseteq rooms[r].amenities}
  IN  /\ pc = "availability"
      /\ candidates' = [r \in offered |->
                          [maxAdult     |-> rooms[r].maxAdult,
                           maxChild     |-> rooms[r].maxChild,
                           maxOccupancy |-> rooms[r].maxOccupancy,
                           price        |-> rooms[r].price,
                           available    |-> RoomAvailability(r)]]
      /\ pc' = "answer"
      /\ UNCHANGED <<rooms, inventory, criteria, found, answer>>

Answer(match, list, combinations) ==
  /\ pc = "answer"
  /\ answer' = [match |-> match, rooms |-> list, combinations |-> combinations]
  /\ pc' = "done"
  /\ UNCHANGED <<rooms, inventory, criteria, found, candidates>>

\* evaluateHotelAvailabilityFromCandidates' flags.
Match ==
  LET n == MinimumRequiredRooms(candidates, criteria.roomCount, criteria)
  IN  CASE n = criteria.roomCount -> "strict"
        [] n > criteria.roomCount -> "flexible"
        [] OTHER -> "none"

\* SearchHotels: the hotel is listed with its flags, unless neither is set.
SearchHotels == Answer(Match, <<>>, <<>>)

\* buildHotelRoomItems: every candidate, by price.
HotelRoomItems ==
  LET before == {p \in (DOMAIN candidates) \X (DOMAIN candidates) :
                   \/ candidates[p[1]].price < candidates[p[2]].price
                   \/ candidates[p[1]].price = candidates[p[2]].price /\ p[1] < p[2]}
  IN  Ordered(DOMAIN candidates, before)

\* SearchHotelRooms: only a strict match is told.
SearchHotelRooms ==
  Answer(IF Match = "strict" THEN "strict" ELSE "none", HotelRoomItems, <<>>)

\* What so many rooms as the party needs of each type cost.
BuildRoomCombinations ==
  LET quantity == [r \in DOMAIN candidates |->
                     RequiredSingleRoomTypeQuantity(candidates[r], criteria.roomCount, criteria)]
  IN  {[room |-> r, quantity |-> quantity[r], total |-> quantity[r] * candidates[r].price] :
         r \in {c \in DOMAIN candidates : quantity[c] > 0}}

\* Mutation: the price of one room decides.
ByUnitPrice(combinations) ==
  LET price(c) == candidates[c.room].price
      before == {p \in combinations \X combinations :
                   \/ price(p[1]) < price(p[2])
                   \/ price(p[1]) = price(p[2]) /\ p[1].room < p[2].room}
      sorted == Ordered(combinations, before)
  IN  SubSeq(sorted, 1, Min({Len(sorted), MaxCombinations}))

\* By total price, then number of rooms, then room.
SortAndLimitCombinations(combinations) ==
  LET cheaper(a, b) ==
        \/ a.total < b.total
        \/ a.total = b.total /\ a.quantity < b.quantity
        \/ a.total = b.total /\ a.quantity = b.quantity /\ a.room < b.room
      before == {p \in combinations \X combinations : cheaper(p[1], p[2])}
      sorted == Ordered(combinations, before)
  IN  SubSeq(sorted, 1, Min({Len(sorted), MaxCombinations}))

SearchHotelRoomCombinations ==
  Answer("none", <<>>, SortAndLimitCombinations(BuildRoomCombinations))

\* A read fails.
Abort ==
  /\ pc \in {"ready", "availability"}
  /\ pc' = "done"
  /\ UNCHANGED <<rooms, inventory, criteria, found, candidates, answer>>

\* SearchHotelRooms reads what the amenities are called last, if it lists a room at
\* all; when this fails there is no answer, although the match is computed.
AmenitiesFail ==
  /\ pc = "answer"
  /\ DOMAIN candidates # {}
  /\ pc' = "done"
  /\ UNCHANGED <<rooms, inventory, criteria, found, candidates, answer>>

Next ==
  \/ \E r \in Rooms : CreateRoom(r)
  \/ \E r \in Rooms, n \in Nights : CreateInventory(r, n)
  \/ Refuse
  \/ LoadRooms
  \/ LoadCandidates
  \/ SearchHotels
  \/ SearchHotelRooms
  \/ SearchHotelRoomCombinations
  \/ Abort
  \/ AmenitiesFail

Spec == Init /\ [][Next]_vars

(***************************************************************************)
(* What holds of every answer.                                             *)
(***************************************************************************)
\* Every variable ranges over its type.
TypeOK ==
  /\ rooms \in [Rooms -> Kinds \union {NoRow}]
  /\ inventory \in [Rooms -> [Nights -> 0..MaxFree \union {NoRow}]]
  /\ pc \in {"ready", "availability", "answer", "done"}
  /\ criteria \in Criteria
  /\ found \subseteq Rooms
  /\ DOMAIN candidates \subseteq found
  /\ \A r \in DOMAIN candidates : candidates[r].available \in 1..MaxFree
  /\ answer.match \in {"strict", "flexible", "none"}
  /\ Len(answer.combinations) <= MaxCombinations

\* So many rooms of the type are free in every night of the stay.
FreeThroughout(r, quantity) ==
  \A n \in Stay : n \in Nights /\ inventory[r][n] # NoRow /\ inventory[r][n] >= quantity

\* Whatever a search offers is there: the counts it listed and the quantities it
\* combined are free every night, although it read rooms and nights apart and
\* hotels kept inserting.
OffersAreFree ==
  /\ \A r \in Range(answer.rooms) : FreeThroughout(r, candidates[r].available)
  /\ \A c \in Range(answer.combinations) : FreeThroughout(c.room, c.quantity)

\* A match is no promise in vain: the party can be put into the rooms it found,
\* in as many as requested when it is strict, in more when it is flexible,
\* nobody beyond a room's capacity and no child without an adult.
MatchHasPlacement ==
  /\ answer.match = "strict" => Placeable(candidates, criteria.roomCount, criteria)
  /\ answer.match = "flexible" =>
       \E n \in (criteria.roomCount + 1)..(MaxFree * Cardinality(DOMAIN candidates)) :
         Placeable(candidates, n, criteria)

\* The greedy order and the backtracking miss nothing: if the even split can be
\* assigned to the rooms at all, the search finds it.
BacktrackingComplete ==
  pc = "answer" =>
    LET split == SplitGuestsAcrossRooms(criteria.roomCount, criteria) IN
    Assignable(candidates, split) => Match = "strict"

\* If the party can be put into rooms of one type at all, no child without an adult,
\* then what is offered of the type is the least number of rooms that it can be put
\* into: the quotients neither leave the type out nor offer a room too many or too
\* few.  Where no such placement exists, see CombinationsAccompany.
OfferIsLeastPlacement ==
  pc = "answer" =>
    \A r \in DOMAIN candidates :
      LET alone     == [c \in {r} |-> candidates[c]]
          placeable == {n \in criteria.roomCount..candidates[r].available :
                          Placeable(alone, n, criteria)}
      IN  placeable # {} =>
            RequiredSingleRoomTypeQuantity(candidates[r], criteria.roomCount, criteria)
              = Min(placeable)

\* The two searches agree in one direction: a type that alone makes a match is
\* offered as a combination, of no more rooms.
MatchingTypeIsOffered ==
  pc = "answer" =>
    \A r \in DOMAIN candidates :
      LET n == MinimumRequiredRooms([c \in {r} |-> candidates[c]], criteria.roomCount, criteria)
      IN  n > 0 => RequiredSingleRoomTypeQuantity(candidates[r], criteria.roomCount, criteria)
                     \in 1..n

\* What the limit cuts off is no cheaper than anything it keeps.
CheapestKept ==
  answer.combinations # <<>> =>
    \A c \in BuildRoomCombinations \ Range(answer.combinations) :
      /\ Len(answer.combinations) = MaxCombinations
      /\ \A kept \in Range(answer.combinations) : kept.total <= c.total

(***************************************************************************)
(* What room_allocation.go and the wiki say and the code does not do.      *)
(***************************************************************************)
\* The room count found is the minimum for the party: if the party can be put
\* into the rooms requested, the match is strict.
MinimumIsMinimum ==
  pc = "answer" =>
    (Placeable(candidates, criteria.roomCount, criteria) => Match = "strict")

\* A combination is offered to families too: the party can be put into its rooms, no
\* child without an adult.
CombinationsAccompany ==
  \A c \in Range(answer.combinations) :
    Placeable([r \in {c.room} |-> candidates[r]], c.quantity, criteria)
=============================================================================
