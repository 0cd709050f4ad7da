--------------------------- MODULE RoomAllocation ---------------------------
(***************************************************************************)
(* Package search's room_allocation.go: how a party is split over rooms,   *)
(* how the split is matched with the room types that are free, and how     *)
(* many rooms of a single type hold the party.  Beside each algorithm      *)
(* stands the definition it is measured against.                           *)
(*                                                                         *)
(* A party is [adults, ages], candidates are a function from room types to *)
(* [maxAdult, maxChild, maxOccupancy, available].                          *)
(***************************************************************************)
EXTENDS Integers, Sequences, FiniteSets, FiniteSetsExt, SequencesExt

CONSTANT ChildMaxAge  \* DefaultChildMaxAge of the hotel

ASSUME ChildMaxAgeAssumption == ChildMaxAge \in Nat

\* Adults and some of the children of a party, those over the age as adults.
NormalizeGuest(adults, children, ages) ==
  LET grown == {i \in children : ages[i] > ChildMaxAge}
  IN  [adults |-> adults + Cardinality(grown), children |-> Cardinality(children \ grown)]

\* The whole party.
NormalizeGuestCounts(party) ==
  NormalizeGuest(party.adults, DOMAIN party.ages, party.ages)

\* Who of n gets into a room when they are dealt out in turn.
Dealt(n, roomCount, room) == {i \in 1..n : (i - 1) % roomCount = room - 1}

\* Adults and children are each dealt out in turn.
SplitGuestsAcrossRooms(roomCount, party) ==
  [room \in 1..roomCount |->
     NormalizeGuest(Cardinality(Dealt(party.adults, roomCount, room)),
                    Dealt(Len(party.ages), roomCount, room), party.ages)]

CandidateCanFit(c, guests) ==
  /\ guests.adults <= c.maxAdult
  /\ guests.children <= c.maxChild
  /\ guests.adults + guests.children <= c.maxOccupancy

UnaccompaniedChildren(guests) == guests.children > 0 /\ guests.adults = 0

\* The room types that can take each room's guests.
Compatible(candidates, requests) ==
  [i \in DOMAIN requests |->
     {c \in DOMAIN candidates : /\ CandidateCanFit(candidates[c], requests[i])
                                /\ candidates[c].available > 0}]

\* Mutations: a room type taken for one request stays free for the next; the
\* last room of a type is never taken.
BacktrackUnlimited(compat, order, remaining) ==
  \A i \in DOMAIN order : \E c \in compat[order[i]] : remaining[c] > 0
BacktrackSparing(compat, order, remaining) ==
  LET dfs[at \in (1..(Len(order) + 1)) \X [DOMAIN remaining -> Nat]] ==
        \/ at[1] > Len(order)
        \/ \E c \in compat[order[at[1]]] :
             at[2][c] > 1 /\ dfs[<<at[1] + 1, [at[2] EXCEPT ![c] = @ - 1]>>]
  IN  dfs[<<1, remaining>>]

\* dfs: the requests in the order take a remaining room each, or fail.  It is at a
\* position of the order, with so many rooms of each type left.
Backtrack(compat, order, remaining) ==
  LET dfs[at \in (1..(Len(order) + 1)) \X [DOMAIN remaining -> Nat]] ==
        \/ at[1] > Len(order)
        \/ \E c \in compat[order[at[1]]] :
             at[2][c] > 0 /\ dfs[<<at[1] + 1, [at[2] EXCEPT ![c] = @ - 1]>>]
  IN  dfs[<<1, remaining>>]

\* A set in the order of a strict total order, which is a set of pairs.
\* SetToSortSeq is the same, but TLC would look for it among all permutations.
Ordered(S, before) ==
  [k \in 1..Cardinality(S) |->
     CHOOSE x \in S : Cardinality({y \in S : <<y, x>> \in before}) = k - 1]

\* The requests with the fewest choices are served first.
CanAllocateRequestedRooms(candidates, requests) ==
  LET compat == Compatible(candidates, requests)
      before == {p \in (DOMAIN requests) \X (DOMAIN requests) :
                   \/ Cardinality(compat[p[1]]) < Cardinality(compat[p[2]])
                   \/ Cardinality(compat[p[1]]) = Cardinality(compat[p[2]]) /\ p[1] < p[2]}
  IN  /\ \A i \in DOMAIN requests : ~UnaccompaniedChildren(requests[i])
      /\ \A i \in DOMAIN requests : compat[i] # {}
      /\ Backtrack(compat, Ordered(DOMAIN requests, before),
                   [c \in DOMAIN candidates |-> candidates[c].available])

\* The first room count, from the one requested, whose split fits; or 0.
MinimumRequiredRooms(candidates, startRoomCount, party) ==
  LET totalAvailable == SumFunction([c \in DOMAIN candidates |-> candidates[c].available])
      fits(n) == CanAllocateRequestedRooms(candidates, SplitGuestsAcrossRooms(n, party))
  IN  IF \E n \in startRoomCount..totalAvailable : fits(n)
      THEN CHOOSE n \in startRoomCount..totalAvailable :
             fits(n) /\ \A less \in startRoomCount..(n - 1) : ~fits(less)
      ELSE 0

\* Mutation: rounded down.
FloorDiv(n, d) == IF n = 0 THEN 0 ELSE n \div d

\* No denominator is 0: CanHostNormalizedGuests comes first.
CeilDiv(n, d) == IF n = 0 THEN 0 ELSE (n + d - 1) \div d

\* Mutation: a type without beds for children takes nobody.
HostsFamiliesOnly(c, guests) ==
  ~UnaccompaniedChildren(guests) /\ c.maxAdult > 0 /\ c.maxChild > 0 /\ c.maxOccupancy > 0

\* Guests of a sort need a type with beds for them.
CanHostNormalizedGuests(c, guests) ==
  /\ ~UnaccompaniedChildren(guests)
  /\ guests.adults > 0 => c.maxAdult > 0
  /\ guests.children > 0 => c.maxChild > 0
  /\ guests.adults + guests.children > 0 => c.maxOccupancy > 0

\* How many rooms of the type hold the party; 0 where the code says no.
RequiredSingleRoomTypeQuantity(c, requestedRoomCount, party) ==
  LET guests   == NormalizeGuestCounts(party)
      quantity == Max({requestedRoomCount,
                       CeilDiv(guests.adults, c.maxAdult),
                       CeilDiv(guests.children, c.maxChild),
                       CeilDiv(guests.adults + guests.children, c.maxOccupancy)})
  IN  IF CanHostNormalizedGuests(c, guests) /\ quantity <= c.available
      THEN quantity
      ELSE 0

(***************************************************************************)
(* What they are measured against.                                         *)
(***************************************************************************)
\* Requests can be assigned room types: each fits its type, and no type is
\* used more often than it is free.
Assignable(candidates, requests) ==
  /\ \A i \in DOMAIN requests : ~UnaccompaniedChildren(requests[i])
  /\ \E type \in [DOMAIN requests -> DOMAIN candidates] :
       /\ \A i \in DOMAIN requests : CandidateCanFit(candidates[type[i]], requests[i])
       /\ \A c \in DOMAIN candidates :
            Cardinality({i \in DOMAIN requests : type[i] = c}) <= candidates[c].available

\* The ways to spread n guests over rooms.
Spreads(n, roomCount) ==
  {s \in [1..roomCount -> 0..n] : SumFunction(s) = n}

\* The party can be put into so many rooms, whoever sleeps where.
Placeable(candidates, roomCount, party) ==
  LET guests == NormalizeGuestCounts(party) IN
  \E adults \in Spreads(guests.adults, roomCount),
     children \in Spreads(guests.children, roomCount) :
    Assignable(candidates,
      [room \in 1..roomCount |-> [adults |-> adults[room], children |-> children[room]]])

\* So many rooms of the type have the beds, wherever the children sleep.
Roomy(c, n, guests) ==
  /\ guests.adults <= n * c.maxAdult
  /\ guests.children <= n * c.maxChild
  /\ guests.adults + guests.children <= n * c.maxOccupancy
=============================================================================
