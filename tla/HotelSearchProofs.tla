------------------------- MODULE HotelSearchProofs -------------------------
(***************************************************************************)
(* The search in one hotel: what it reads is still free when it answers,   *)
(* and what it answers is what module RoomAllocationProofs says of its     *)
(* algorithms, for any rooms, nights, prices and parties.                  *)
(***************************************************************************)
EXTENDS HotelSearch, RoomAllocationProofs

(***************************************************************************)
(* The inductive invariant.                                                *)
(***************************************************************************)
\* The two tables only hold what was validated.
TablesSound ==
  /\ rooms \in [Rooms -> Kinds \union {NoRow}]
  /\ \A r \in Rooms : rooms[r] # NoRow => ValidRoom(rooms[r])
  /\ inventory \in [Rooms -> [Nights -> 0..MaxFree \union {NoRow}]]

\* A search has got no further than its validation, found active rooms, and offers
\* nothing before it has read what is free.
SearchSound ==
  /\ pc \in {"ready", "availability", "answer", "done"}
  /\ criteria \in Criteria
  /\ pc \in {"availability", "answer"} => ValidCriteria(criteria)
  /\ pc # "done" => answer = NoAnswer
  /\ pc \in {"ready", "availability"} => DOMAIN candidates = {}
  /\ found \subseteq Rooms
  /\ \A r \in found : rooms[r] # NoRow /\ rooms[r].active

\* A candidate has the beds and the price of its row and the amenities asked for, and
\* what was counted of it is free every night, ever since it was counted.
CandidatesSound ==
  /\ DOMAIN candidates \subseteq found
  /\ \A r \in DOMAIN candidates :
       /\ candidates[r].available \in 1..MaxFree
       /\ candidates[r].maxAdult = rooms[r].maxAdult
       /\ candidates[r].maxChild = rooms[r].maxChild
       /\ candidates[r].maxOccupancy = rooms[r].maxOccupancy
       /\ candidates[r].price = rooms[r].price
       /\ criteria.amenities \subseteq rooms[r].amenities
       /\ FreeThroughout(r, candidates[r].available)

\* What each of the searches makes of the candidates it has read.
HotelsAnswer == [match |-> Match, rooms |-> <<>>, combinations |-> <<>>]
RoomsAnswer ==
  [match |-> IF Match = "strict" THEN "strict" ELSE "none",
   rooms |-> HotelRoomItems, combinations |-> <<>>]
CombinationsAnswer ==
  [match |-> "none", rooms |-> <<>>,
   combinations |-> SortAndLimitCombinations(BuildRoomCombinations)]

\* There is no answer, or it is what the algorithms make of the candidates, for
\* criteria that were validated.
AnswerSound ==
  \/ answer = NoAnswer
  \/ ValidCriteria(criteria) /\ answer \in {HotelsAnswer, RoomsAnswer, CombinationsAnswer}

IInv == TablesSound /\ SearchSound /\ CandidatesSound /\ AnswerSound

(***************************************************************************)
(* Reading the inventories.                                                *)
(***************************************************************************)
\* As many rows as nights are rows of all nights, and the least of them is free in
\* each.
LEMMA AvailabilityIsFree ==
  ASSUME TablesSound, criteria \in Criteria, ValidCriteria(criteria), NEW r \in Rooms,
         RoomAvailability(r) > 0
  PROVE  RoomAvailability(r) \in 1..MaxFree /\ FreeThroughout(r, RoomAvailability(r))
<1> DEFINE rows == Rows(r)
           free == {inventory[r][n] : n \in rows}
<1>1. criteria.checkIn \in Int /\ criteria.checkOut \in Int /\ criteria.checkOut > criteria.checkIn
  BY CriteriaAssumption DEF ValidCriteria
<1>2. IsFiniteSet(Stay) /\ Cardinality(Stay) = criteria.checkOut - criteria.checkIn
  BY <1>1, FS_Interval DEF Stay
<1>3. rows \in SUBSET Stay /\ rows \subseteq Nights
  BY DEF Rows
<1>4. free \subseteq 0..MaxFree /\ free \subseteq Nat
  <2>1. \A n \in rows : inventory[r][n] \in 0..MaxFree
    BY DEF Rows, TablesSound
  <2>2. QED
    BY <2>1, InventoryAssumption
<1>5. /\ Cardinality(rows) = criteria.checkOut - criteria.checkIn
      /\ RoomAvailability(r) = Min(free)
  BY DEF RoomAvailability
<1>6. rows = Stay
  <2> HIDE DEF rows
  <2>1. QED
    BY <1>2, <1>3, <1>5, FS_Subset
<1>7. criteria.checkIn \in Stay
  BY <1>1 DEF Stay
<1>8. free # {}
  BY <1>6, <1>7
<1>9. \A n \in Stay : n \in Nights /\ inventory[r][n] # NoRow /\ inventory[r][n] \in free
  BY <1>6 DEF Rows
<1> HIDE DEF free, rows
<1>10. Min(free) \in free /\ \A m \in free : Min(free) <= m
  BY <1>4, <1>8, MinOfNaturals
<1>11. RoomAvailability(r) \in 0..MaxFree
  BY <1>4, <1>5, <1>10
<1>12. RoomAvailability(r) \in 1..MaxFree
  BY <1>11, InventoryAssumption
<1>13. \A n \in Stay : inventory[r][n] >= RoomAvailability(r)
  BY <1>4, <1>5, <1>9, <1>10
<1>14. QED
  BY <1>9, <1>12, <1>13 DEF FreeThroughout

\* What is free stays free while rooms and inventories are inserted.
LEMMA FreeStaysFree ==
  ASSUME TablesSound, NEW s \in Rooms, NEW m \in Nights, inventory[s][m] = NoRow,
         NEW v, inventory' = [inventory EXCEPT ![s][m] = v], criteria' = criteria,
         NEW r \in Rooms, NEW quantity, FreeThroughout(r, quantity)
  PROVE  FreeThroughout(r, quantity)'
<1>1. Stay' = Stay
  BY DEF Stay
<1>2. \A n \in Stay : n \in Nights /\ inventory[r][n] # NoRow /\ inventory[r][n] >= quantity
  BY DEF FreeThroughout
<1>3. \A n \in Nights : inventory[r][n] # NoRow => inventory'[r][n] = inventory[r][n]
  BY DEF TablesSound
<1>4. \A n \in Stay : n \in Nights /\ inventory'[r][n] # NoRow /\ inventory'[r][n] >= quantity
  BY <1>2, <1>3
<1>5. QED
  BY <1>1, <1>4 DEF FreeThroughout

(***************************************************************************)
(* The lists of an answer.                                                 *)
(***************************************************************************)
\* A row is a valid kind of room, and so is a candidate.
LEMMA CandidatesAreValid ==
  ASSUME TablesSound, SearchSound, CandidatesSound, NEW r \in DOMAIN candidates
  PROVE  /\ candidates[r].price \in Nat /\ candidates[r].maxAdult \in Nat
         /\ candidates[r].maxChild \in Nat /\ candidates[r].maxOccupancy \in Nat
         /\ candidates[r].maxAdult + candidates[r].maxChild <= candidates[r].maxOccupancy
<1>1. r \in Rooms /\ rooms[r] # NoRow
  BY DEF SearchSound, CandidatesSound
<1>2. rooms[r] \in Kinds /\ ValidRoom(rooms[r])
  BY <1>1 DEF TablesSound
<1>3. /\ rooms[r].price \in Nat /\ rooms[r].maxAdult \in Nat
      /\ rooms[r].maxChild \in Nat /\ rooms[r].maxOccupancy \in Nat
      /\ rooms[r].maxAdult + rooms[r].maxChild <= rooms[r].maxOccupancy
  BY <1>2, KindsAssumption DEF ValidRoom
<1>4. QED
  BY <1>3 DEF CandidatesSound

\* In the state the search answers in, the algorithms get what they expect.
LEMMA SearchInputs ==
  ASSUME TablesSound, SearchSound, CandidatesSound
  PROVE  /\ CandidatesOK(candidates)
         /\ IsFiniteSet(DOMAIN candidates) /\ DOMAIN candidates \subseteq Rooms
         /\ ValidCriteria(criteria) => /\ PartyOK(criteria) /\ criteria.adults > 0
                                       /\ criteria.roomCount \in Nat \ {0}
<1>1. DOMAIN candidates \in SUBSET Rooms
  BY DEF SearchSound, CandidatesSound
<1>2. IsFiniteSet(DOMAIN candidates)
  BY <1>1, RoomsAssumption, FS_Subset
<1>3. \A r \in DOMAIN candidates : candidates[r].available \in Nat
  BY InventoryAssumption DEF CandidatesSound
<1>4. CandidatesOK(candidates)
  BY <1>2, <1>3, CandidatesAreValid DEF CandidatesOK
<1>5. ValidCriteria(criteria) => /\ PartyOK(criteria) /\ criteria.adults > 0
                                 /\ criteria.roomCount \in Nat \ {0}
  BY CriteriaAssumption DEF ValidCriteria, PartyOK, SearchSound
<1>6. QED
  BY <1>1, <1>2, <1>4, <1>5

\* The listed rooms are candidates.
LEMMA ItemsAreCandidates ==
  ASSUME TablesSound, SearchSound, CandidatesSound
  PROVE  \A r \in Range(HotelRoomItems) : r \in DOMAIN candidates
<1> DEFINE D == DOMAIN candidates
           before == {p \in D \X D :
                        \/ candidates[p[1]].price < candidates[p[2]].price
                        \/ candidates[p[1]].price = candidates[p[2]].price /\ p[1] < p[2]}
<1>1. IsFiniteSet(D) /\ D \subseteq Nat /\ \A r \in D : candidates[r].price \in Nat
  BY SearchInputs, CandidatesAreValid, RoomsAssumption
<1>2. \A x, y \in D : <<x, y>> \in before <=>
         \/ candidates[x].price < candidates[y].price
         \/ candidates[x].price = candidates[y].price /\ x < y
  OBVIOUS
<1>3. HotelRoomItems = Ordered(D, before)
  BY DEF HotelRoomItems
<1> HIDE DEF before, D
<1>4. IsStrictOrder(before, D)
  BY <1>1, <1>2 DEF IsStrictOrder
<1>5. HotelRoomItems \in Seq(D)
  BY <1>1, <1>3, <1>4, OrderedElements
<1>6. QED
  BY <1>5 DEF Range, D

\* The first few of a sequence.
LEMMA FirstFew ==
  ASSUME NEW S, NEW s \in Seq(S), NEW m \in Nat
  PROVE  LET few == SubSeq(s, 1, Min({Len(s), m}))
         IN  /\ few \in Seq(S) /\ Len(few) <= m /\ Len(few) <= Len(s)
             /\ \A i \in 1..Len(few) : few[i] = s[i]
             /\ Len(few) < Len(s) => Len(few) = m
<1> DEFINE n   == Min({Len(s), m})
           few == SubSeq(s, 1, n)
<1>1. Len(s) \in Nat /\ {Len(s), m} \subseteq Nat /\ {Len(s), m} # {}
  OBVIOUS
<1>2. n \in {Len(s), m} /\ n <= Len(s) /\ n <= m
  BY <1>1, MinOfNaturals
<1> HIDE DEF n
<1>3. n \in Nat
  BY <1>1, <1>2
<1>4. few \in Seq(S) /\ Len(few) = n /\ \A i \in 1..n : few[i] = s[i]
  BY <1>1, <1>2, <1>3
<1> HIDE DEF few
<1>5. /\ few \in Seq(S) /\ Len(few) <= m /\ Len(few) <= Len(s)
      /\ \A i \in 1..Len(few) : few[i] = s[i]
      /\ Len(few) < Len(s) => Len(few) = m
  BY <1>1, <1>2, <1>3, <1>4
<1>6. QED
  BY <1>5 DEF n, few

\* What costs a combination of each type.
LEMMA CombinationsSound ==
  ASSUME TablesSound, SearchSound, CandidatesSound, ValidCriteria(criteria)
  PROVE  /\ IsFiniteSet(BuildRoomCombinations)
         /\ \A c \in BuildRoomCombinations :
              /\ c.room \in DOMAIN candidates
              /\ c.quantity \in 1..candidates[c.room].available
              /\ c.total \in Nat
         /\ \A c, d \in BuildRoomCombinations : c.room = d.room => c = d
<1> DEFINE D == DOMAIN candidates
           quantity == [r \in D |->
                          RequiredSingleRoomTypeQuantity(candidates[r], criteria.roomCount, criteria)]
           combination == [r \in D |-> [room |-> r, quantity |-> quantity[r],
                                        total |-> quantity[r] * candidates[r].price]]
           all == {c \in D : quantity[c] > 0}
<1>1. ASSUME NEW r \in D, quantity[r] # 0
      PROVE  quantity[r] \in 1..candidates[r].available
  <2> DEFINE c == candidates[r]
             enough == {n \in criteria.roomCount..c.available :
                          Roomy(c, n, NormalizeGuestCounts(criteria))}
             q == RequiredSingleRoomTypeQuantity(c, criteria.roomCount, criteria)
  <2>1. c.available \in Nat /\ c.maxAdult \in Nat /\ c.maxChild \in Nat /\ c.maxOccupancy \in Nat
    BY SearchInputs DEF CandidatesOK
  <2>2. PartyOK(criteria) /\ criteria.adults > 0 /\ criteria.roomCount \in Nat \ {0}
    BY SearchInputs
  <2>3. quantity[r] = q
    OBVIOUS
  <2> HIDE DEF c
  <2>4. /\ q = IF enough = {} THEN 0 ELSE Min(enough)
        /\ enough # {} => q \in enough
    BY <2>1, <2>2, QuantityIsLeastRoomy
  <2> HIDE DEF q, quantity
  <2>5. enough # {}
    BY <1>1, <2>3, <2>4
  <2>6. q \in criteria.roomCount..c.available
    BY <2>4, <2>5
  <2>7. QED
    BY <2>1, <2>2, <2>3, <2>6 DEF c
<1>2. BuildRoomCombinations = {combination[r] : r \in all}
  BY DEF BuildRoomCombinations
<1>3. /\ all \in SUBSET D /\ \A r \in all : quantity[r] # 0
      /\ \A r \in all : combination[r] = [room |-> r, quantity |-> quantity[r],
                                          total |-> quantity[r] * candidates[r].price]
  OBVIOUS
<1> HIDE DEF all, combination, quantity
<1>4. IsFiniteSet(all)
  BY <1>3, SearchInputs, FS_Subset
<1>5. IsFiniteSet(BuildRoomCombinations)
  <2> DEFINE f == [r \in all |-> combination[r]]
  <2>1. f \in Surjection(all, BuildRoomCombinations)
    BY <1>2, Fun_IsSurj
  <2> HIDE DEF f
  <2>2. QED
    BY <1>4, <2>1, FS_Surjection
<1>6. \A r \in all : /\ quantity[r] \in 1..candidates[r].available
                     /\ quantity[r] * candidates[r].price \in Nat
  <2> SUFFICES ASSUME NEW r \in all
               PROVE  /\ quantity[r] \in 1..candidates[r].available
                      /\ quantity[r] * candidates[r].price \in Nat
    OBVIOUS
  <2>1. quantity[r] \in 1..candidates[r].available
    BY <1>1, <1>3
  <2>2. candidates[r].available \in Nat /\ candidates[r].price \in Nat
    BY <1>3, SearchInputs, CandidatesAreValid DEF CandidatesOK
  <2>3. QED
    BY <2>1, <2>2
<1>7. ASSUME NEW c \in BuildRoomCombinations
      PROVE  \E r \in all : /\ c = combination[r]
                            /\ c.room = r /\ c.quantity = quantity[r]
                            /\ c.total = quantity[r] * candidates[r].price
  <2>1. PICK r \in all : c = combination[r]
    BY <1>2
  <2>2. c = [room |-> r, quantity |-> quantity[r], total |-> quantity[r] * candidates[r].price]
    BY <1>3, <2>1
  <2>3. c.room = r /\ c.quantity = quantity[r] /\ c.total = quantity[r] * candidates[r].price
    BY <2>2
  <2>4. QED
    BY <2>1, <2>3
<1>8. \A c \in BuildRoomCombinations :
        /\ c.room \in DOMAIN candidates
        /\ c.quantity \in 1..candidates[c.room].available
        /\ c.total \in Nat
  BY <1>3, <1>6, <1>7
<1>9. \A c, d \in BuildRoomCombinations : c.room = d.room => c = d
  BY <1>7
<1>10. QED
  BY <1>5, <1>8, <1>9

\* The combinations of an answer are the first of all of them by price.
LEMMA LimitedCombinations ==
  ASSUME TablesSound, SearchSound, CandidatesSound, ValidCriteria(criteria)
  PROVE  LET all  == BuildRoomCombinations
             kept == SortAndLimitCombinations(all)
         IN  /\ Len(kept) <= MaxCombinations
             /\ Range(kept) \subseteq all
             /\ \A c \in all \ Range(kept) : /\ Len(kept) = MaxCombinations
                                             /\ \A k \in Range(kept) : k.total <= c.total
<1> DEFINE all == BuildRoomCombinations
           cheaper(a, b) ==
             \/ a.total < b.total
             \/ a.total = b.total /\ a.quantity < b.quantity
             \/ a.total = b.total /\ a.quantity = b.quantity /\ a.room < b.room
           before == {p \in all \X all : cheaper(p[1], p[2])}
           sorted == Ordered(all, before)
           kept   == SubSeq(sorted, 1, Min({Len(sorted), MaxCombinations}))
<1>1. /\ IsFiniteSet(all)
      /\ \A c \in all : c.room \in Nat /\ c.quantity \in Nat /\ c.total \in Nat
      /\ \A c, d \in all : c.room = d.room => c = d
  <2>1. /\ IsFiniteSet(all)
        /\ \A c \in all : /\ c.room \in DOMAIN candidates
                          /\ c.quantity \in 1..candidates[c.room].available
                          /\ c.total \in Nat
        /\ \A c, d \in all : c.room = d.room => c = d
    BY CombinationsSound
  <2>2. \A r \in DOMAIN candidates : r \in Nat /\ candidates[r].available \in Nat
    BY SearchInputs, RoomsAssumption DEF CandidatesOK
  <2> HIDE DEF all
  <2>3. QED
    BY <2>1, <2>2
<1>2. \A x, y \in all : <<x, y>> \in before <=> cheaper(x, y)
  OBVIOUS
<1>3. SortAndLimitCombinations(all) = kept
  BY Zenon DEF SortAndLimitCombinations
<1> HIDE DEF all, before
<1>4. IsStrictOrder(before, all)
  BY <1>1, <1>2 DEF IsStrictOrder
<1>5. /\ sorted \in Seq(all) /\ Len(sorted) = Cardinality(all) /\ Cardinality(all) \in Nat
      /\ \A x \in all : \E k \in 1..Len(sorted) : sorted[k] = x
  BY <1>1, <1>4, OrderedElements
<1>6. \A j, k \in 1..Len(sorted) : j < k => cheaper(sorted[j], sorted[k])
  <2> SUFFICES ASSUME NEW j \in 1..Len(sorted), NEW k \in 1..Len(sorted), j < k
               PROVE  cheaper(sorted[j], sorted[k])
    OBVIOUS
  <2>1. <<sorted[j], sorted[k]>> \in before
    BY <1>1, <1>4, <1>5, OrderedSorted
  <2>2. sorted[j] \in all /\ sorted[k] \in all
    BY <1>5
  <2>3. QED
    BY <1>2, <2>1, <2>2
<1> HIDE DEF sorted
<1>7. /\ kept \in Seq(all) /\ Len(kept) <= MaxCombinations /\ Len(kept) <= Len(sorted)
      /\ \A i \in 1..Len(kept) : kept[i] = sorted[i]
      /\ Len(kept) < Len(sorted) => Len(kept) = MaxCombinations
  BY <1>5, FirstFew, CriteriaAssumption
<1> HIDE DEF kept
<1>8. \A x : x \in Range(kept) <=> \E i \in 1..Len(kept) : x = kept[i]
  BY <1>7 DEF Range
<1>9. ASSUME NEW c \in all, c \notin Range(kept)
      PROVE  /\ Len(kept) = MaxCombinations
             /\ \A k \in Range(kept) : k.total <= c.total
  <2>1. PICK n \in 1..Len(sorted) : sorted[n] = c
    BY <1>5
  <2>2. n > Len(kept)
    <3>1. n \in 1..Len(kept) => c = kept[n]
      BY <1>7, <2>1
    <3>2. n \notin 1..Len(kept)
      BY <1>8, <1>9, <3>1
    <3>3. Len(kept) \in Nat /\ n \in Nat /\ n >= 1
      BY <1>5, <1>7, <2>1
    <3>4. QED
      BY <3>2, <3>3
  <2>3. Len(kept) = MaxCombinations
    BY <1>5, <1>7, <2>2
  <2>4. ASSUME NEW k \in Range(kept)
        PROVE  k.total <= c.total
    <3>1. PICK i \in 1..Len(kept) : k = kept[i]
      BY <1>8
    <3>2. i \in 1..Len(sorted) /\ i < n /\ k = sorted[i] /\ k \in all
      BY <1>5, <1>7, <2>2, <3>1
    <3>3. cheaper(k, c)
      BY <1>6, <2>1, <3>2
    <3>4. QED
      BY <1>1, <3>2, <3>3
  <2>5. QED
    BY <2>3, <2>4
<1>10. Range(kept) \subseteq all
  BY <1>7, <1>8
<1>11. QED
  BY <1>3, <1>7, <1>9, <1>10 DEF all

(***************************************************************************)
(* The invariant is inductive.                                             *)
(***************************************************************************)
\* Candidates stay sound while what they rest on stays; a room that is inserted is
\* none that was found.
LEMMA CandidatesStay ==
  ASSUME CandidatesSound, UNCHANGED <<inventory, criteria, candidates>>, found' = found,
         \A r \in found : rooms'[r] = rooms[r]
  PROVE  CandidatesSound'
<1>1. \A r, q : FreeThroughout(r, q)' = FreeThroughout(r, q)
  BY DEF FreeThroughout, Stay
<1>2. QED
  BY <1>1 DEF CandidatesSound

\* An answer stays what is computed, since its candidates stay.
LEMMA AnswerStays ==
  ASSUME AnswerSound, UNCHANGED <<candidates, criteria, answer>>
  PROVE  AnswerSound'
<1>1. Match' = Match
  BY DEF Match
<1>2. HotelRoomItems' = HotelRoomItems
  BY DEF HotelRoomItems
<1>3. BuildRoomCombinations' = BuildRoomCombinations
  BY DEF BuildRoomCombinations
<1>4. /\ HotelsAnswer' = HotelsAnswer /\ RoomsAnswer' = RoomsAnswer
      /\ CombinationsAnswer' = CombinationsAnswer
  BY <1>1, <1>2, <1>3 DEF HotelsAnswer, RoomsAnswer, CombinationsAnswer
<1>5. QED
  BY <1>4 DEF AnswerSound

\* A search that ends without an answer, and a step that changes nothing.
LEMMA SearchEnds ==
  ASSUME IInv, UNCHANGED <<rooms, inventory, criteria, found, candidates, answer>>,
         pc' = "done" \/ pc' = pc
  PROVE  IInv'
<1>1. TablesSound' /\ SearchSound'
  BY DEF IInv, TablesSound, SearchSound
<1>2. CandidatesSound'
  BY CandidatesStay DEF IInv
<1>3. AnswerSound'
  BY AnswerStays DEF IInv
<1>4. QED
  BY <1>1, <1>2, <1>3 DEF IInv

\* A step that answers gives what is computed and leaves the rest as it is.
LEMMA AnswerStep ==
  ASSUME IInv, NEW match, NEW list, NEW combinations, Answer(match, list, combinations),
         [match |-> match, rooms |-> list, combinations |-> combinations]
           \in {HotelsAnswer, RoomsAnswer, CombinationsAnswer}
  PROVE  IInv'
<1>1. TablesSound'
  BY DEF IInv, Answer, TablesSound
<1>2. SearchSound'
  BY DEF IInv, Answer, SearchSound
<1>3. CandidatesSound'
  BY CandidatesStay DEF IInv, Answer
<1>4. AnswerSound'
  <2>1. ValidCriteria(criteria) /\ UNCHANGED <<candidates, criteria>>
    BY DEF IInv, SearchSound, Answer
  <2>2. Match' = Match
    BY <2>1 DEF Match
  <2>3. HotelRoomItems' = HotelRoomItems
    BY <2>1 DEF HotelRoomItems
  <2>4. BuildRoomCombinations' = BuildRoomCombinations
    BY <2>1 DEF BuildRoomCombinations
  <2>5. /\ HotelsAnswer' = HotelsAnswer /\ RoomsAnswer' = RoomsAnswer
        /\ CombinationsAnswer' = CombinationsAnswer
    BY <2>2, <2>3, <2>4 DEF HotelsAnswer, RoomsAnswer, CombinationsAnswer
  <2>6. answer' = [match |-> match, rooms |-> list, combinations |-> combinations]
    BY DEF Answer
  <2>7. QED
    BY <2>1, <2>5, <2>6 DEF AnswerSound
<1>5. QED
  BY <1>1, <1>2, <1>3, <1>4 DEF IInv

LEMMA InitInv == Init => IInv
<1> SUFFICES ASSUME Init
             PROVE  IInv
  OBVIOUS
<1>1. TablesSound
  BY DEF Init, TablesSound
<1>2. SearchSound
  BY DEF Init, SearchSound
<1>3. CandidatesSound
  BY DEF Init, CandidatesSound
<1>4. AnswerSound
  BY DEF Init, AnswerSound
<1>5. QED
  BY <1>1, <1>2, <1>3, <1>4 DEF IInv

LEMMA NextInv == IInv /\ [Next]_vars => IInv'
<1> SUFFICES ASSUME IInv, [Next]_vars
             PROVE  IInv'
  OBVIOUS
<1> USE DEF IInv
<1>1. ASSUME NEW r \in Rooms, CreateRoom(r)
      PROVE  IInv'
  <2>1. TablesSound'
    BY <1>1 DEF CreateRoom, TablesSound
  <2>2. SearchSound'
    BY <1>1, NoRowAssumption DEF CreateRoom, SearchSound, TablesSound
  <2>3. CandidatesSound'
    <3>1. \A s \in found : s # r /\ rooms'[s] = rooms[s]
      BY <1>1 DEF CreateRoom, SearchSound, TablesSound
    <3>2. QED
      BY <1>1, <3>1, CandidatesStay DEF CreateRoom
  <2>4. AnswerSound'
    BY <1>1, AnswerStays DEF CreateRoom
  <2>5. QED
    BY <2>1, <2>2, <2>3, <2>4
<1>2. ASSUME NEW r \in Rooms, NEW n \in Nights, CreateInventory(r, n)
      PROVE  IInv'
  <2>1. PICK total \in 0..MaxFree, held \in 0..MaxFree, booked \in 0..MaxFree :
          /\ held + booked <= total
          /\ inventory' = [inventory EXCEPT ![r][n] = total - held - booked]
    BY <1>2 DEF CreateInventory, ValidInventory
  <2>2. total - held - booked \in 0..MaxFree
    BY <2>1, InventoryAssumption
  <2>3. TablesSound'
    BY <1>2, <2>1, <2>2 DEF CreateInventory, TablesSound
  <2>4. SearchSound'
    BY <1>2 DEF CreateInventory, SearchSound
  <2>5. CandidatesSound'
    <3>1. UNCHANGED <<rooms, criteria, found, candidates>> /\ inventory[r][n] = NoRow
      BY <1>2 DEF CreateInventory
    <3>2. \A s \in DOMAIN candidates : s \in Rooms
      BY DEF CandidatesSound, SearchSound
    <3>3. \A s \in DOMAIN candidates : FreeThroughout(s, candidates[s].available)
      BY DEF CandidatesSound
    <3>4. \A s \in DOMAIN candidates : FreeThroughout(s, candidates[s].available)'
      BY <2>1, <3>1, <3>2, <3>3, FreeStaysFree
    <3>5. QED
      BY <3>1, <3>4 DEF CandidatesSound
  <2>6. AnswerSound'
    BY <1>2, AnswerStays DEF CreateInventory
  <2>7. QED
    BY <2>3, <2>4, <2>5, <2>6
<1>3. CASE Refuse
  BY <1>3, SearchEnds DEF Refuse
<1>4. CASE LoadRooms
  <2>1. TablesSound' /\ AnswerSound'
    BY <1>4 DEF LoadRooms, TablesSound, AnswerSound, SearchSound, NoAnswer
  <2>2. SearchSound'
    BY <1>4 DEF LoadRooms, SearchSound
  <2>3. DOMAIN candidates' = {}
    BY <1>4 DEF LoadRooms, SearchSound
  <2>4. CandidatesSound'
    BY <2>3 DEF CandidatesSound
  <2>5. QED
    BY <2>1, <2>2, <2>4
<1>5. CASE LoadCandidates
  <2>1. TablesSound' /\ AnswerSound'
    BY <1>5 DEF LoadCandidates, TablesSound, AnswerSound, SearchSound, NoAnswer
  <2>2. SearchSound'
    BY <1>5 DEF LoadCandidates, SearchSound
  <2>3. CandidatesSound'
    <3> DEFINE offered == {r \in found : /\ RoomAvailability(r) > 0
                                         /\ criteria.amenities \subseteq rooms[r].amenities}
    <3>1. /\ candidates' = [r \in offered |-> [maxAdult     |-> rooms[r].maxAdult,
                                              maxChild     |-> rooms[r].maxChild,
                                              maxOccupancy |-> rooms[r].maxOccupancy,
                                              price        |-> rooms[r].price,
                                              available    |-> RoomAvailability(r)]]
          /\ UNCHANGED <<rooms, inventory, criteria, found>>
          /\ pc = "availability"
      BY <1>5 DEF LoadCandidates
    <3>2. ValidCriteria(criteria) /\ criteria \in Criteria
      BY <3>1 DEF SearchSound
    <3>3. \A r \in offered : r \in Rooms /\ r \in found /\ rooms[r] # NoRow /\ RoomAvailability(r) > 0
                             /\ criteria.amenities \subseteq rooms[r].amenities
      BY DEF SearchSound
    <3> HIDE DEF offered
    <3>4. \A r \in offered : /\ candidates'[r].available = RoomAvailability(r)
                             /\ candidates'[r].maxAdult = rooms[r].maxAdult
                             /\ candidates'[r].maxChild = rooms[r].maxChild
                             /\ candidates'[r].maxOccupancy = rooms[r].maxOccupancy
                             /\ candidates'[r].price = rooms[r].price
      BY <3>1
    <3>5. DOMAIN candidates' = offered
      BY <3>1
    <3>6. \A r \in offered : /\ RoomAvailability(r) \in 1..MaxFree
                             /\ FreeThroughout(r, RoomAvailability(r))
      BY <3>2, <3>3, AvailabilityIsFree
    <3>7. \A r, q : FreeThroughout(r, q)' = FreeThroughout(r, q)
      BY <3>1 DEF FreeThroughout, Stay
    <3>8. QED
      BY <3>1, <3>3, <3>4, <3>5, <3>6, <3>7 DEF CandidatesSound
  <2>4. QED
    BY <2>1, <2>2, <2>3
<1>6. CASE SearchHotels
  BY <1>6, AnswerStep DEF SearchHotels, HotelsAnswer
<1>7. CASE SearchHotelRooms
  BY <1>7, AnswerStep DEF SearchHotelRooms, RoomsAnswer
<1>8. CASE SearchHotelRoomCombinations
  BY <1>8, AnswerStep DEF SearchHotelRoomCombinations, CombinationsAnswer
<1>9. CASE Abort \/ AmenitiesFail
  BY <1>9, SearchEnds DEF Abort, AmenitiesFail
<1>10. CASE UNCHANGED vars
  BY <1>10, SearchEnds DEF vars
<1>11. QED
  BY <1>1, <1>2, <1>3, <1>4, <1>5, <1>6, <1>7, <1>8, <1>9, <1>10 DEF Next

\* The inductive invariant holds throughout.
THEOREM Inductive == Spec => []IInv
BY InitInv, NextInv, PTL DEF Spec

\* The match and the lists of an answer, whichever search gave it.
LEMMA AnswerCases ==
  ASSUME IInv
  PROVE  /\ Match \in {"strict", "flexible", "none"}
         /\ \/ /\ answer.match = "none" /\ answer.rooms = <<>> /\ answer.combinations = <<>>
            \/ /\ ValidCriteria(criteria) /\ answer.match = Match
               /\ answer.rooms = <<>> /\ answer.combinations = <<>>
            \/ /\ ValidCriteria(criteria) /\ answer.match \in {"strict", "none"}
               /\ answer.match = "strict" => Match = "strict"
               /\ answer.rooms = HotelRoomItems /\ answer.combinations = <<>>
            \/ /\ ValidCriteria(criteria) /\ answer.match = "none" /\ answer.rooms = <<>>
               /\ answer.combinations = SortAndLimitCombinations(BuildRoomCombinations)
               /\ Len(answer.combinations) <= MaxCombinations
<1>1. Match \in {"strict", "flexible", "none"}
  BY DEF Match
<1>2. ValidCriteria(criteria) => Len(SortAndLimitCombinations(BuildRoomCombinations)) <= MaxCombinations
  BY LimitedCombinations DEF IInv
<1>3. CASE answer = NoAnswer
  BY <1>1, <1>3 DEF NoAnswer
<1>4. CASE ValidCriteria(criteria) /\ answer = HotelsAnswer
  <2>1. answer.match = Match /\ answer.rooms = <<>> /\ answer.combinations = <<>>
    BY <1>4 DEF HotelsAnswer
  <2>2. QED
    BY <1>1, <1>4, <2>1
<1>5. CASE ValidCriteria(criteria) /\ answer = RoomsAnswer
  <2>1. /\ answer.match = IF Match = "strict" THEN "strict" ELSE "none"
        /\ answer.rooms = HotelRoomItems /\ answer.combinations = <<>>
    BY <1>5 DEF RoomsAnswer
  <2>2. QED
    BY <1>1, <1>5, <2>1
<1>6. CASE ValidCriteria(criteria) /\ answer = CombinationsAnswer
  <2>1. /\ answer.match = "none" /\ answer.rooms = <<>>
        /\ answer.combinations = SortAndLimitCombinations(BuildRoomCombinations)
    BY <1>6 DEF CombinationsAnswer
  <2>2. QED
    BY <1>1, <1>2, <1>6, <2>1
<1>7. QED
  BY <1>3, <1>4, <1>5, <1>6 DEF IInv, AnswerSound

\* Every variable of the search ranges over its type, in every behaviour.
THEOREM TypeCorrect == Spec => []TypeOK
<1>1. ASSUME IInv
      PROVE  TypeOK
  <2>1. answer.match \in {"strict", "flexible", "none"} /\ Len(answer.combinations) <= MaxCombinations
    BY <1>1, AnswerCases, CriteriaAssumption
  <2>2. QED
    BY <1>1, <2>1 DEF IInv, TablesSound, SearchSound, CandidatesSound, TypeOK
<1>2. QED
  BY <1>1, Inductive, PTL

(***************************************************************************)
(* What is computed when the search is to answer.                          *)
(***************************************************************************)
\* The greedy order and the backtracking miss nothing, in every state a search
\* answers in: an even split that can be assigned is assigned.
THEOREM BacktrackingCompleteHolds == Spec => []BacktrackingComplete
<1>1. ASSUME IInv
      PROVE  BacktrackingComplete
  <2> DEFINE fits(m) == Assignable(candidates, SplitGuestsAcrossRooms(m, criteria))
             n       == MinimumRequiredRooms(candidates, criteria.roomCount, criteria)
  <2> SUFFICES ASSUME pc = "answer", fits(criteria.roomCount)
               PROVE  Match = "strict"
    BY DEF BacktrackingComplete
  <2>1. ValidCriteria(criteria)
    BY <1>1 DEF IInv, SearchSound
  <2>2. /\ CandidatesOK(candidates) /\ PartyOK(criteria)
        /\ criteria.roomCount \in Nat \ {0}
    BY <1>1, <2>1, SearchInputs DEF IInv
  <2>3. /\ n \in Nat
        /\ n # 0 => /\ n >= criteria.roomCount /\ n <= TotalAvailable(candidates) /\ fits(n)
                    /\ \A less \in criteria.roomCount..(n - 1) : ~fits(less)
        /\ n = 0 => \A m \in Nat : m >= criteria.roomCount => ~fits(m)
    BY <2>2, MinimumIsFirst
  <2> HIDE DEF fits, n
  <2>4. n = criteria.roomCount
    BY <2>2, <2>3
  <2>5. QED
    BY <2>2, <2>4 DEF Match, n
<1>2. QED
  BY <1>1, Inductive, PTL

\* If the party can be put into rooms of one type at all, children with adults, what
\* a search offers of the type is the least number of rooms it can be put into, for
\* any party and any rooms.
THEOREM OfferIsLeastPlacementHolds == Spec => []OfferIsLeastPlacement
<1>1. ASSUME IInv, pc = "answer", NEW r \in DOMAIN candidates,
             {n \in criteria.roomCount..candidates[r].available :
                Placeable([c \in {r} |-> candidates[c]], n, criteria)} # {}
      PROVE  RequiredSingleRoomTypeQuantity(candidates[r], criteria.roomCount, criteria)
               = Min({n \in criteria.roomCount..candidates[r].available :
                        Placeable([c \in {r} |-> candidates[c]], n, criteria)})
  <2> DEFINE alone == [c \in {r} |-> candidates[c]]
  <2>1. ValidCriteria(criteria)
    BY <1>1 DEF IInv, SearchSound
  <2>2. /\ CandidatesOK(candidates) /\ PartyOK(criteria) /\ criteria.adults > 0
        /\ criteria.roomCount \in Nat \ {0}
    BY <1>1, <2>1, SearchInputs DEF IInv
  <2>3. candidates[r].maxAdult + candidates[r].maxChild <= candidates[r].maxOccupancy
    BY <1>1, CandidatesAreValid DEF IInv
  <2>4. DOMAIN alone = {r} /\ alone[r] = candidates[r]
    OBVIOUS
  <2>5. \E n \in criteria.roomCount..candidates[r].available : Placeable(alone, n, criteria)
    BY <1>1
  <2> HIDE DEF alone
  <2>6. IsFiniteSet({r})
    BY FS_Singleton
  <2>7. CandidatesOK(alone)
    BY <2>2, <2>4, <2>6 DEF CandidatesOK
  <2>8. RequiredSingleRoomTypeQuantity(alone[r], criteria.roomCount, criteria)
          = Min({n \in criteria.roomCount..alone[r].available : Placeable(alone, n, criteria)})
    BY <2>2, <2>3, <2>4, <2>5, <2>7, OfferIsLeast
  <2>9. QED
    BY <2>4, <2>8 DEF alone
<1>2. IInv => OfferIsLeastPlacement
  BY <1>1 DEF OfferIsLeastPlacement
<1>3. QED
  BY <1>2, Inductive, PTL

\* A type of which alone the party gets a match is offered as a combination of no
\* more rooms than the match takes: the two searches agree in one direction.
THEOREM MatchingTypeIsOfferedHolds == Spec => []MatchingTypeIsOffered
<1>1. ASSUME IInv, pc = "answer", NEW r \in DOMAIN candidates,
             MinimumRequiredRooms([c \in {r} |-> candidates[c]], criteria.roomCount, criteria) > 0
      PROVE  RequiredSingleRoomTypeQuantity(candidates[r], criteria.roomCount, criteria)
               \in 1..MinimumRequiredRooms([c \in {r} |-> candidates[c]],
                                           criteria.roomCount, criteria)
  <2> DEFINE single == [c \in {r} |-> candidates[c]]
  <2>1. ValidCriteria(criteria)
    BY <1>1 DEF IInv, SearchSound
  <2>2. /\ CandidatesOK(candidates) /\ PartyOK(criteria) /\ criteria.adults > 0
        /\ criteria.roomCount \in Nat \ {0}
    BY <1>1, <2>1, SearchInputs DEF IInv
  <2>3. DOMAIN single = {r} /\ single[r] = candidates[r]
    OBVIOUS
  <2>4. MinimumRequiredRooms(single, criteria.roomCount, criteria) > 0
    BY <1>1
  <2> HIDE DEF single
  <2>5. IsFiniteSet({r})
    BY FS_Singleton
  <2>6. CandidatesOK(single)
    BY <2>2, <2>3, <2>5 DEF CandidatesOK
  <2>7. RequiredSingleRoomTypeQuantity(single[r], criteria.roomCount, criteria)
          \in 1..MinimumRequiredRooms(single, criteria.roomCount, criteria)
    BY <2>2, <2>3, <2>4, <2>6, MatchingTypeQuantity
  <2>8. QED
    BY <2>3, <2>7 DEF single
<1>2. IInv => MatchingTypeIsOffered
  BY <1>1 DEF MatchingTypeIsOffered
<1>3. QED
  BY <1>2, Inductive, PTL

(***************************************************************************)
(* What was answered.                                                      *)
(***************************************************************************)
\* What a search offers are candidates, in quantities it counted.
LEMMA OffersSound ==
  ASSUME IInv
  PROVE  /\ \A r \in Range(answer.rooms) : r \in DOMAIN candidates
         /\ \A c \in Range(answer.combinations) :
              c.room \in DOMAIN candidates /\ c.quantity \in 1..candidates[c.room].available
<1> DEFINE all  == BuildRoomCombinations
           kept == SortAndLimitCombinations(all)
<1>1. Range(<<>>) = {}
  BY DEF Range
<1>2. \A r \in Range(HotelRoomItems) : r \in DOMAIN candidates
  BY ItemsAreCandidates DEF IInv
<1>3. ValidCriteria(criteria) =>
        \A c \in Range(kept) : /\ c.room \in DOMAIN candidates
                               /\ c.quantity \in 1..candidates[c.room].available
  <2> SUFFICES ASSUME ValidCriteria(criteria)
               PROVE  \A c \in Range(kept) : /\ c.room \in DOMAIN candidates
                                             /\ c.quantity \in 1..candidates[c.room].available
    OBVIOUS
  <2>1. \A c \in all : /\ c.room \in DOMAIN candidates
                       /\ c.quantity \in 1..candidates[c.room].available
    BY CombinationsSound DEF IInv
  <2>2. Range(kept) \subseteq all
    BY LimitedCombinations DEF IInv
  <2> HIDE DEF all, kept
  <2>3. QED
    BY <2>1, <2>2
<1> HIDE DEF all, kept
<1>4. \/ answer.rooms = <<>> /\ answer.combinations = <<>>
      \/ answer.rooms = HotelRoomItems /\ answer.combinations = <<>>
      \/ ValidCriteria(criteria) /\ answer.rooms = <<>> /\ answer.combinations = kept
  BY AnswerCases DEF kept, all
<1>5. QED
  BY <1>1, <1>2, <1>3, <1>4

\* Whatever a search offers is there when it answers and ever after: what it lists
\* and combines is free in every night of the stay, although it read the rooms and
\* their nights apart while hotels were inserting.
THEOREM OffersAreFreeHolds == Spec => []OffersAreFree
<1>1. ASSUME IInv
      PROVE  OffersAreFree
  <2>1. ASSUME NEW r \in Range(answer.rooms)
        PROVE  FreeThroughout(r, candidates[r].available)
    BY <1>1, <2>1, OffersSound DEF IInv, CandidatesSound
  <2>2. ASSUME NEW c \in Range(answer.combinations)
        PROVE  FreeThroughout(c.room, c.quantity)
    <3>1. /\ c.room \in DOMAIN candidates /\ c.room \in Rooms
          /\ c.quantity \in 1..candidates[c.room].available
      BY <1>1, OffersSound DEF IInv, CandidatesSound, SearchSound
    <3>2. /\ FreeThroughout(c.room, candidates[c.room].available)
          /\ candidates[c.room].available \in Nat
      BY <1>1, <3>1, InventoryAssumption DEF IInv, CandidatesSound
    <3>3. \A n \in Nights : inventory[c.room][n] # NoRow => inventory[c.room][n] \in Nat
      BY <1>1, <3>1, InventoryAssumption DEF IInv, TablesSound
    <3>4. QED
      BY <3>1, <3>2, <3>3 DEF FreeThroughout
  <2>3. QED
    BY <2>1, <2>2 DEF OffersAreFree
<1>2. QED
  BY <1>1, Inductive, PTL

\* A match has a placement when it is computed.
LEMMA MatchPlaces ==
  ASSUME TablesSound, SearchSound, CandidatesSound, ValidCriteria(criteria)
  PROVE  /\ Match = "strict" => Placeable(candidates, criteria.roomCount, criteria)
         /\ Match = "flexible" =>
              \E n \in (criteria.roomCount + 1)..(MaxFree * Cardinality(DOMAIN candidates)) :
                Placeable(candidates, n, criteria)
<1> DEFINE start == criteria.roomCount
           fits(m) == Assignable(candidates, SplitGuestsAcrossRooms(m, criteria))
           n       == MinimumRequiredRooms(candidates, start, criteria)
<1>1. CandidatesOK(candidates) /\ PartyOK(criteria) /\ start \in Nat \ {0}
  BY SearchInputs
<1>2. /\ n \in Nat
      /\ n # 0 => n >= start /\ n <= TotalAvailable(candidates) /\ fits(n)
  BY <1>1, MinimumIsFirst
<1>3. n # 0 => Placeable(candidates, n, criteria)
  BY <1>1, <1>2, SplitIsPlacement
<1>4. n # 0 => n \in start..(MaxFree * Cardinality(DOMAIN candidates))
  <2>1. TotalAvailable(candidates) \in Nat
    BY <1>1, TotalIsNatural
  <2>2. Cardinality(DOMAIN candidates) \in Nat
    BY SearchInputs, FS_CardinalityType
  <2>3. \A c \in DOMAIN candidates : candidates[c].available <= MaxFree
    BY InventoryAssumption DEF CandidatesSound
  <2>4. TotalAvailable(candidates) <= Cardinality(DOMAIN candidates) * MaxFree
    BY <1>1, <2>3, InventoryAssumption, TotalBound
  <2>5. Cardinality(DOMAIN candidates) * MaxFree = MaxFree * Cardinality(DOMAIN candidates)
    BY <2>2, InventoryAssumption
  <2>6. MaxFree * Cardinality(DOMAIN candidates) \in Nat
    BY <2>2, InventoryAssumption
  <2> HIDE DEF n
  <2>7. QED
    BY <1>1, <1>2, <2>1, <2>4, <2>5, <2>6
<1>5. Match = CASE n = start -> "strict" [] n > start -> "flexible" [] OTHER -> "none"
  BY DEF Match
<1> HIDE DEF n, start, fits
<1>6. /\ Match = "strict" => n = start
      /\ Match = "flexible" => n > start
  BY <1>1, <1>2, <1>5
<1>7. /\ Match = "strict" => Placeable(candidates, start, criteria)
      /\ Match = "flexible" =>
           \E m \in (start + 1)..(MaxFree * Cardinality(DOMAIN candidates)) :
             Placeable(candidates, m, criteria)
  <2>1. Match = "strict" => n # 0 /\ n = start
    BY <1>1, <1>6
  <2>2. Match = "flexible" => n # 0 /\ n > start
    BY <1>1, <1>2, <1>6
  <2>3. Match = "flexible" =>
          n \in (start + 1)..(MaxFree * Cardinality(DOMAIN candidates))
    BY <1>1, <1>2, <1>4, <2>2
  <2>4. QED
    BY <1>3, <2>1, <2>2, <2>3
<1>8. QED
  BY <1>7 DEF start

\* A match is no promise in vain: when a hotel is listed as a strict or a flexible
\* match, its candidates hold the party, in as many rooms as requested or in more.
THEOREM MatchHasPlacementHolds == Spec => []MatchHasPlacement
<1>1. ASSUME IInv
      PROVE  MatchHasPlacement
  <2>1. answer.match # "none" => ValidCriteria(criteria) /\ answer.match = Match
    BY <1>1, AnswerCases
  <2>2. ValidCriteria(criteria) =>
          /\ Match = "strict" => Placeable(candidates, criteria.roomCount, criteria)
          /\ Match = "flexible" =>
               \E n \in (criteria.roomCount + 1)..(MaxFree * Cardinality(DOMAIN candidates)) :
                 Placeable(candidates, n, criteria)
    BY <1>1, MatchPlaces DEF IInv
  <2> HIDE DEF Match
  <2>3. QED
    BY <2>1, <2>2 DEF MatchHasPlacement
<1>2. QED
  BY <1>1, Inductive, PTL

\* What maxCombinations cuts off is no cheaper than anything an answer keeps, and
\* nothing is cut off of a shorter answer.
THEOREM CheapestKeptHolds == Spec => []CheapestKept
<1>1. ASSUME IInv
      PROVE  CheapestKept
  <2> DEFINE all  == BuildRoomCombinations
             kept == SortAndLimitCombinations(all)
  <2>1. answer.combinations # <<>> => ValidCriteria(criteria) /\ answer.combinations = kept
    BY <1>1, AnswerCases
  <2>2. ValidCriteria(criteria) =>
          \A c \in all \ Range(kept) : /\ Len(kept) = MaxCombinations
                                       /\ \A k \in Range(kept) : k.total <= c.total
    BY <1>1, LimitedCombinations DEF IInv
  <2> HIDE DEF kept
  <2>3. QED
    BY <2>1, <2>2 DEF CheapestKept
<1>2. QED
  BY <1>1, Inductive, PTL
=============================================================================
