------------------------------ MODULE Catalog ------------------------------
(***************************************************************************)
(* The hotels: administrators upload images, add hotels that show them,    *)
(* rooms and inventories; guests list the hotels, or search them and page  *)
(* through the results.  An insert is one transaction; a reader makes      *)
(* several reads, in none, and every page is a search of its own.  The     *)
(* matching of a party with rooms is module RoomAllocation.                *)
(*                                                                         *)
(* Hotels are numbered as the query of the search orders them.             *)
(***************************************************************************)
EXTENDS RoomAllocation, Upload

CONSTANTS
  Adds,            \* POST /api/hotels, each named by the hotel it inserts
  Demo,            \* the hotel that cmd/seed has inserted
  Asks,            \* what administrators ask to add
  Rooms,           \* POST /api/rooms, each named by the room it inserts
  DemoRooms,       \* the two rooms of Demo
  Kinds,           \* what a room row says of the room
  Nights,          \* the nights with inventories
  MaxFree,         \* bound: the rooms of a type that are added for a night
  Criteria,        \* what guests search for
  PageSizes,       \* pageSize of a search, 0 if it is left out
  DefaultPageSize, \* what it then is
  HotelChunk,      \* hotelQueryChunkSize
  RoomChunk,       \* roomQueryChunkSize
  MaxAddFaults,    \* bound on the calls of additions that fail
  NoRow            \* no such row

Hotels   == Adds \union {Demo}
AllRooms == Rooms \union DemoRooms

ASSUME NumbersAssumption ==
  /\ IsFiniteSet(Hotels) /\ Hotels \subseteq Nat /\ Demo \notin Adds
  /\ IsFiniteSet(AllRooms) /\ AllRooms \subseteq Nat
  /\ Cardinality(DemoRooms) = 2 /\ Rooms \intersect DemoRooms = {}
\* The images of an addition are chosen when it is sent.
ASSUME AsksAssumption ==
  \A ask \in Asks : ask = [named |-> ask.named, images |-> {}, options |-> ask.options]
\* Rooms and searches have passed their validation.
ASSUME KindsAssumption ==
  \A k \in Kinds :
    /\ k.maxAdult \in Nat \ {0} /\ k.maxChild \in Nat /\ k.maxOccupancy \in Nat
    /\ k.maxOccupancy >= k.maxAdult + k.maxChild
ASSUME CriteriaAssumption ==
  \A q \in Criteria :
    /\ q.checkIn \in Int /\ q.checkOut \in Int /\ q.checkOut > q.checkIn
    /\ q.adults \in Nat \ {0} /\ q.roomCount \in Nat \ {0} /\ q.ages \in Seq(Int)
ASSUME SizesAssumption ==
  /\ DefaultPageSize \in Nat \ {0} /\ PageSizes \subseteq Nat
  /\ MaxFree \in Nat /\ MaxAddFaults \in Nat
  /\ HotelChunk \in Nat \ {0} /\ RoomChunk \in Nat \ {0}

VARIABLES
  hotels,     \* hotels with their images and payment options
  rooms,      \* rooms with their amenities
  inventory,  \* what is free of a room in a night
  asked,      \* what each addition asked for
  addPc,      \* its next call, or its answer
  addFaults,  \* how many of these calls have failed
  listPc,     \* the next read of a listing, or "listed"
  listed,     \* the hotels it has read, with what it has read of each
  searchPc,   \* the next read of a search, or "shown"
  criteria,   \* what the guest searches for
  request,    \* the paging of the guest's last request
  hits,       \* the hotels that this search has found, in order
  chunk,      \* the number of the next chunk of ids
  read,       \* the rooms it has read
  free,       \* and their availability, as far as it has read it
  pages,      \* the answers the guest has got
  due         \* the hotels that matched when the guest began, and the rooms required

added    == <<hotels, rooms, inventory, asked, addPc, addFaults>>
listing  == <<listPc, listed>>
searching == <<searchPc, criteria, request, hits, chunk, read, free, pages, due>>
vars == <<uvars, added, listing, searching>>

PaymentOptions == {"immediate", "pay_at_hotel", "deferred"}

(***************************************************************************)
(* What there is at first: the demo data, or nothing.  The demo hotel's    *)
(* image is kept elsewhere.                                                *)
(***************************************************************************)
DemoHotel ==
  [named |-> TRUE, rating |-> 46, images |-> {},
   options |-> [o \in {"immediate", "pay_at_hotel"} |-> TRUE]]

DemoRoom(r) ==
  IF r = Min(DemoRooms)
  THEN [hotel |-> Demo, maxAdult |-> 2, maxChild |-> 1, maxOccupancy |-> 3,
        active |-> TRUE, amenities |-> {}]
  ELSE [hotel |-> Demo, maxAdult |-> 3, maxChild |-> 2, maxOccupancy |-> 5,
        active |-> TRUE, amenities |-> {}]

\* A row is there or not.
ASSUME NoRowAssumption == NoRow # DemoHotel /\ \A r \in DemoRooms : NoRow # DemoRoom(r)

DemoInventory(r) == IF r = Min(DemoRooms) THEN 5 - 0 - 1 ELSE 3 - 0 - 0

NoPage == [page |-> 0, size |-> 0, offset |-> 0]

Init ==
  /\ UploadInit
  /\ \E seeded \in BOOLEAN :
       /\ hotels = [h \in Hotels |-> IF seeded /\ h = Demo THEN DemoHotel ELSE NoRow]
       /\ rooms = [r \in AllRooms |-> IF seeded /\ r \in DemoRooms THEN DemoRoom(r) ELSE NoRow]
       /\ inventory = [r \in AllRooms |-> [n \in Nights |->
                         IF seeded /\ r \in DemoRooms THEN DemoInventory(r) ELSE NoRow]]
  /\ asked = [h \in Adds |-> NoRow]
  /\ addPc = [h \in Adds |-> "ready"]
  /\ addFaults = 0
  /\ listPc = "ready"
  /\ listed = [h \in {} |-> NoRow]
  /\ searchPc = "ready"
  /\ criteria \in Criteria
  /\ request = NoPage
  /\ hits = <<>>
  /\ chunk = 1
  /\ read = <<>>
  /\ free = [r \in {} |-> NoRow]
  /\ pages = <<>>
  /\ due = [h \in {} |-> 0]

(***************************************************************************)
(* What administrators insert.                                             *)
(***************************************************************************)
AddGoto(h, next) == addPc' = [addPc EXCEPT ![h] = next]

AddFault(h) ==
  /\ addFaults < MaxAddFaults
  /\ addFaults' = addFaults + 1
  /\ AddGoto(h, "error")

\* ValidateForCreate: of the payment options only this layer looks at the names.
ValidateForCreate(ask) == \A i \in DOMAIN ask.options : ask.options[i].option \in PaymentOptions

\* handleAddHotel; the images are those that an upload has answered.
HandleAddHotel(h) ==
  /\ addPc[h] = "ready"
  /\ \E ask \in Asks, images \in {{}} \union {{u} : u \in Uploads} :
       /\ \A u \in images : uploadPc[u] = "created"
       /\ asked' = [asked EXCEPT ![h] = [ask EXCEPT !.images = images]]
       /\ AddGoto(h, IF ValidateForCreate(ask) THEN "create" ELSE "bad request")
  /\ UNCHANGED <<uvars, hotels, rooms, inventory, addFaults, listing, searching>>

\* A field that is FALSE is left to the column's default, which is TRUE.
ColumnDefault == TRUE
OrDefault(enabled) == IF enabled THEN enabled ELSE ColumnDefault

\* UNIQUE (hotel_id, payment_option).
Repeated(options) ==
  \E i, j \in DOMAIN options : i # j /\ options[i].option = options[j].option

\* The rows of an addition: an added hotel has no rating.
Row(ask) ==
  [named |-> ask.named, rating |-> 0, images |-> ask.images,
   options |-> [o \in {ask.options[i].option : i \in DOMAIN ask.options} |->
                  \A i \in DOMAIN ask.options :
                    ask.options[i].option = o => OrDefault(ask.options[i].enabled)]]

\* Mutation: the hotel is inserted in a transaction of its own, before the rest.
CreateHotelFirst(h) ==
  /\ addPc[h] = "create"
  /\ IF hotels[h] = NoRow
     THEN /\ hotels' = [hotels EXCEPT ![h] =
                          [Row(asked[h]) EXCEPT !.images = {}, !.options = <<>>]]
          /\ UNCHANGED <<addPc, addFaults>>
     ELSE /\ hotels' = [hotels EXCEPT ![h] = Row(asked[h])]
          /\ AddGoto(h, "read")
          /\ UNCHANGED addFaults
  /\ UNCHANGED <<uvars, rooms, inventory, asked, listing, searching>>

\* Create: the hotel, its images and its options in one transaction.
CreateHotel(h) ==
  /\ addPc[h] = "create"
  /\ ~Repeated(asked[h].options)
  /\ hotels' = [hotels EXCEPT ![h] = Row(asked[h])]
  /\ \/ AddGoto(h, "read") /\ UNCHANGED addFaults
     \/ AddFault(h)
  /\ UNCHANGED <<uvars, rooms, inventory, asked, listing, searching>>

\* An option twice: the transaction is rolled back.
CreateRefused(h) ==
  /\ addPc[h] = "create"
  /\ Repeated(asked[h].options)
  /\ AddGoto(h, "error")
  /\ UNCHANGED <<uvars, hotels, rooms, inventory, asked, addFaults, listing, searching>>

\* GetByID reads back what was committed.
ReadBack(h) ==
  /\ addPc[h] = "read"
  /\ AddGoto(h, "created")
  /\ UNCHANGED <<uvars, hotels, rooms, inventory, asked, addFaults, listing, searching>>

\* The call fails without effect; if it was the reading, the hotel is there.
AddFails(h) ==
  /\ addPc[h] \in {"create", "read"}
  /\ AddFault(h)
  /\ UNCHANGED <<uvars, hotels, rooms, inventory, asked, listing, searching>>

\* The row of an added room.
RoomRow(h, kind) ==
  [hotel |-> h, maxAdult |-> kind.maxAdult, maxChild |-> kind.maxChild,
   maxOccupancy |-> kind.maxOccupancy, active |-> kind.active, amenities |-> kind.amenities]

\* Mutation: no foreign key.
CreateRoomAnywhere(r) ==
  /\ rooms[r] = NoRow
  /\ \E h \in Hotels, kind \in Kinds : rooms' = [rooms EXCEPT ![r] = RoomRow(h, kind)]
  /\ UNCHANGED <<uvars, hotels, inventory, asked, addPc, addFaults, listing, searching>>

\* CreateRoom: the room and its amenities in one transaction, for a hotel there is.
CreateRoom(r) ==
  /\ rooms[r] = NoRow
  /\ \E h \in Hotels, kind \in Kinds :
       /\ hotels[h] # NoRow
       /\ rooms' = [rooms EXCEPT ![r] = RoomRow(h, kind)]
  /\ UNCHANGED <<uvars, hotels, inventory, asked, addPc, addFaults, listing, searching>>

\* Mutation: a second inventory of the night replaces the first.
ReplaceInventory(r, n) ==
  /\ rooms[r] # NoRow
  /\ \E count \in 0..MaxFree : inventory' = [inventory EXCEPT ![r][n] = count]
  /\ UNCHANGED <<uvars, hotels, rooms, asked, addPc, addFaults, listing, searching>>

\* CreateInventory: UNIQUE (room_id, date).
CreateInventory(r, n) ==
  /\ rooms[r] # NoRow
  /\ inventory[r][n] = NoRow
  /\ \E count \in 0..MaxFree : inventory' = [inventory EXCEPT ![r][n] = count]
  /\ UNCHANGED <<uvars, hotels, rooms, asked, addPc, addFaults, listing, searching>>

(***************************************************************************)
(* GET /api/hotels: the hotels, then their images, then their options.     *)
(***************************************************************************)
ListHotels ==
  /\ listPc = "ready"
  /\ listed' = [h \in {x \in Hotels : hotels[x] # NoRow} |-> [images |-> {}, options |-> <<>>]]
  /\ listPc' = "images"
  /\ UNCHANGED <<uvars, added, searching>>

PreloadImages ==
  /\ listPc = "images"
  /\ listed' = [h \in DOMAIN listed |-> [listed[h] EXCEPT !.images = hotels[h].images]]
  /\ listPc' = "options"
  /\ UNCHANGED <<uvars, added, searching>>

PreloadPaymentOptions ==
  /\ listPc = "options"
  /\ listed' = [h \in DOMAIN listed |-> [listed[h] EXCEPT !.options = hotels[h].options]]
  /\ listPc' = "listed"
  /\ UNCHANGED <<uvars, added, searching>>

(***************************************************************************)
(* POST /api/search/hotels, page after page.                               *)
(***************************************************************************)
EffectivePage(q) == IF q.page = 0 THEN 1 ELSE q.page
EffectivePageSize(q) == IF q.size = 0 THEN DefaultPageSize ELSE q.size
EffectiveOffset(q) ==
  IF q.offset > 0 THEN q.offset ELSE (EffectivePage(q) - 1) * EffectivePageSize(q)

\* A guest goes on by page number or by offset until there is no further page.
Following(size) ==
  LET n == Len(pages) IN
  {[page |-> n + 1, size |-> size, offset |-> 0],
   [page |-> 0, size |-> size, offset |-> n * EffectivePageSize([size |-> size])]}

LatestPage == pages[Len(pages)]
Finished == searchPc = "shown" /\ LatestPage.page >= LatestPage.totalPages

Stay == criteria.checkIn..(criteria.checkOut - 1)

\* roomAvailabilityByDateRange: the least of all nights, if no night lacks a row.
RoomAvailability(r) ==
  IF \A n \in Stay : n \in Nights /\ inventory[r][n] # NoRow
  THEN Min({inventory[r][n] : n \in Stay})
  ELSE 0

\* The rating, and that one of the options asked for is enabled.
HotelMatchesFilter(h) ==
  /\ hotels[h].rating >= criteria.ratingMin
  /\ criteria.payments # {} =>
       \E o \in criteria.payments \intersect DOMAIN hotels[h].options : hotels[h].options[o]

\* What MinimumRequiredRooms is told of a room.
Candidate(r, available) ==
  [maxAdult |-> rooms[r].maxAdult, maxChild |-> rooms[r].maxChild,
   maxOccupancy |-> rooms[r].maxOccupancy, available |-> available]

RequiredRooms(candidates) == MinimumRequiredRooms(candidates, criteria.roomCount, criteria)

HasAllAmenities(r) == criteria.amenities \subseteq rooms[r].amenities

\* The hotels that match the search as the database is now.
FreeRooms(h) ==
  {r \in AllRooms : /\ rooms[r] # NoRow
                    /\ rooms[r].hotel = h
                    /\ rooms[r].active
                    /\ HasAllAmenities(r)
                    /\ RoomAvailability(r) > 0}
Required(h) == RequiredRooms([r \in FreeRooms(h) |-> Candidate(r, RoomAvailability(r))])
Matches(h) ==
  /\ hotels[h] # NoRow
  /\ hotels[h].named
  /\ HotelMatchesFilter(h)
  /\ FreeRooms(h) # {}
  /\ Required(h) > 0

SearchBegin ==
  /\ searchPc = "ready"
  /\ \E size \in PageSizes : request' \in Following(size)
  /\ due' = [h \in {x \in Hotels : Matches(x)} |-> Required(h)]
  /\ searchPc' = "hotels"
  /\ UNCHANGED <<uvars, added, listing, criteria, hits, chunk, read, free, pages>>

NextPage ==
  /\ searchPc = "shown"
  /\ ~Finished
  /\ request' \in Following(request.size)
  /\ searchPc' = "hotels"
  /\ UNCHANGED <<uvars, added, listing, criteria, hits, chunk, read, free, pages, due>>

\* Hotels and rooms are read in the order of their numbers.
InOrder(S) == Ordered(S, {p \in S \X S : p[1] < p[2]})

\* findHotels, with the payment options; neither ever changes.
FindHotels ==
  /\ searchPc = "hotels"
  /\ hits' = InOrder({h \in Hotels : /\ hotels[h] # NoRow
                                     /\ hotels[h].named
                                     /\ HotelMatchesFilter(h)})
  /\ searchPc' = IF hits' = <<>> THEN "answer" ELSE "rooms"
  /\ UNCHANGED <<uvars, added, listing, criteria, request, chunk, read, free, pages, due>>

\* Mutation: each chunk but the first lacks its first id.
ChunkApart(ids, size) ==
  SubSeq(ids, (chunk - 1) * size + (IF chunk = 1 THEN 1 ELSE 2), Min({chunk * size, Len(ids)}))

\* chunkStrings.
ChunkOf(ids, size) == SubSeq(ids, (chunk - 1) * size + 1, Min({chunk * size, Len(ids)}))
LastChunk(ids, size) == chunk * size >= Len(ids)

\* Mutation: of any status.
LoadAllRooms ==
  LET ids == ToSet(ChunkOf(hits, HotelChunk)) IN
  /\ searchPc = "rooms"
  /\ read' = read \o InOrder({r \in AllRooms : rooms[r] # NoRow /\ rooms[r].hotel \in ids})
  /\ IF LastChunk(hits, HotelChunk)
     THEN /\ chunk' = 1
          /\ searchPc' = IF read' = <<>> THEN "answer" ELSE "availability"
     ELSE chunk' = chunk + 1 /\ UNCHANGED searchPc
  /\ UNCHANGED <<uvars, added, listing, criteria, request, hits, free, pages, due>>

\* The active rooms of a chunk of hotels.
LoadRooms ==
  LET ids == ToSet(ChunkOf(hits, HotelChunk)) IN
  /\ searchPc = "rooms"
  /\ read' = read \o InOrder({r \in AllRooms : /\ rooms[r] # NoRow
                                               /\ rooms[r].hotel \in ids
                                               /\ rooms[r].active})
  /\ IF LastChunk(hits, HotelChunk)
     THEN /\ chunk' = 1
          /\ searchPc' = IF read' = <<>> THEN "answer" ELSE "availability"
     ELSE chunk' = chunk + 1 /\ UNCHANGED searchPc
  /\ UNCHANGED <<uvars, added, listing, criteria, request, hits, free, pages, due>>

\* The inventories of a chunk of rooms; their amenities never change.
LoadAvailability ==
  LET ids == ToSet(ChunkOf(read, RoomChunk)) IN
  /\ searchPc = "availability"
  /\ free' = [r \in DOMAIN free \union ids |->
                IF r \in ids THEN RoomAvailability(r) ELSE free[r]]
  /\ IF LastChunk(read, RoomChunk)
     THEN chunk' = 1 /\ searchPc' = "answer"
     ELSE chunk' = chunk + 1 /\ UNCHANGED searchPc
  /\ UNCHANGED <<uvars, added, listing, criteria, request, hits, read, pages, due>>

\* loadRoomCandidatesByHotels: the candidates of a hotel.
CandidatesOf(h) ==
  [r \in {x \in DOMAIN free : /\ rooms[x].hotel = h
                              /\ free[x] > 0
                              /\ HasAllAmenities(x)} |->
     Candidate(r, free[r])]

\* evaluateHotelAvailabilityFromCandidates: strict or flexible.
Available(h) ==
  LET candidates == CandidatesOf(h) IN
  HotelMatchesFilter(h) /\ DOMAIN candidates # {} /\ RequiredRooms(candidates) > 0

\* Mutation: a page holds one hotel too many.
SliceTooLong(results, q) ==
  LET size  == EffectivePageSize(q)
      start == Min({EffectiveOffset(q), Len(results)})
      end   == Min({start + size + 1, Len(results)})
  IN  [hotels |-> SubSeq(results, start + 1, end), page |-> start \div size + 1,
       total |-> Len(results), totalPages |-> (Len(results) + size - 1) \div size]

\* The page of the results that is answered.
Slice(results, q) ==
  LET size  == EffectivePageSize(q)
      start == Min({EffectiveOffset(q), Len(results)})
      end   == Min({start + size, Len(results)})
  IN  [hotels |-> SubSeq(results, start + 1, end), page |-> start \div size + 1,
       total |-> Len(results), totalPages |-> (Len(results) + size - 1) \div size]

AnswerSearch ==
  /\ searchPc = "answer"
  /\ pages' = Append(pages, Slice(InOrder({h \in ToSet(hits) : Available(h)}), request))
  /\ searchPc' = "shown"
  /\ hits' = <<>>
  /\ read' = <<>>
  /\ free' = [r \in {} |-> NoRow]
  /\ UNCHANGED <<uvars, added, listing, criteria, request, chunk, due>>

\* A read fails, and the guest asks for the page again.
SearchFails ==
  /\ searchPc \in {"rooms", "availability"}
  /\ searchPc' = "hotels"
  /\ hits' = <<>>
  /\ chunk' = 1
  /\ read' = <<>>
  /\ free' = [r \in {} |-> NoRow]
  /\ UNCHANGED <<uvars, added, listing, criteria, request, pages, due>>

AddStep(h) ==
  HandleAddHotel(h) \/ CreateHotel(h) \/ CreateRefused(h) \/ ReadBack(h) \/ AddFails(h)
ListStep == ListHotels \/ PreloadImages \/ PreloadPaymentOptions
SearchStep ==
  SearchBegin \/ NextPage \/ FindHotels \/ LoadRooms \/ LoadAvailability \/ AnswerSearch
    \/ SearchFails

Next ==
  \/ UploadNext /\ UNCHANGED <<added, listing, searching>>
  \/ \E h \in Adds : AddStep(h)
  \/ \E r \in Rooms : CreateRoom(r)
  \/ \E r \in AllRooms, n \in Nights : CreateInventory(r, n)
  \/ ListStep
  \/ SearchStep

Spec == Init /\ [][Next]_vars

(***************************************************************************)
(* What holds however inserts and reads interleave.                        *)
(***************************************************************************)
\* Every variable ranges over its type, and no row refers to a missing one.
TypeOK ==
  /\ UploadTypeOK
  /\ \A h \in Hotels : hotels[h] # NoRow =>
       \A u \in hotels[h].images : uploadPc[u] = "created"
  /\ \A r \in AllRooms : rooms[r] # NoRow => hotels[rooms[r].hotel] # NoRow
  /\ \A r \in AllRooms, n \in Nights : inventory[r][n] # NoRow => rooms[r] # NoRow
  /\ \A h \in Adds :
       addPc[h] \in {"ready", "create", "read", "created", "bad request", "error"}
  /\ addFaults \in 0..MaxAddFaults
  /\ listPc \in {"ready", "images", "options", "listed"}
  /\ DOMAIN listed \subseteq Hotels
  /\ searchPc \in {"ready", "hotels", "rooms", "availability", "answer", "shown"}
  /\ ToSet(hits) \subseteq Hotels
  /\ ToSet(read) \subseteq AllRooms
  /\ DOMAIN free \subseteq ToSet(read)

\* A listing shows each added hotel as it was asked for, although it reads hotels,
\* images and options apart while hotels are added.
ListedWhole ==
  listPc = "listed" =>
    \A h \in DOMAIN listed \intersect Adds :
      /\ listed[h].images = asked[h].images
      /\ DOMAIN listed[h].options =
           {asked[h].options[i].option : i \in DOMAIN asked[h].options}

\* Each image a listing shows is in storage, whole, whatever failed on the way.
ListedImagesStored ==
  listPc = "listed" =>
    \A h \in DOMAIN listed : \A u \in listed[h].images :
      \A i \in DOMAIN batch[u] : StoredWhole(u, i)

\* Every hotel on a page matches the search and has room for the party, although
\* hotels, rooms and nights were read apart and in chunks.
ShownMatch ==
  searchPc = "shown" => \A p \in DOMAIN pages : \A h \in ToSet(pages[p].hotels) : Matches(h)

\* A guest who has read every page has seen each hotel that matched when he began,
\* although each page is a new search and hotels are added in between.
PagesMissNothing ==
  Finished => DOMAIN due \subseteq UNION {ToSet(pages[p].hotels) : p \in DOMAIN pages}

\* No hotel is on two pages, unless another hotel matched in between.
RepeatsExplained ==
  \A p, q \in DOMAIN pages :
    p < q /\ ToSet(pages[p].hotels) \intersect ToSet(pages[q].hotels) # {}
      => pages[p].total < pages[q].total

\* Inserts never withdraw a match, nor make a strict match flexible: what matched
\* when a guest began to read still does, in no more rooms, until he is done.
MatchKept == \A h \in DOMAIN due : HotelMatchesFilter(h) /\ Required(h) \in 1..due[h]
=============================================================================
