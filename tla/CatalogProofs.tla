--------------------------- MODULE CatalogProofs ---------------------------
(***************************************************************************)
(* What a listing and a search show, for any catalog, uploads, additions   *)
(* and failures.  The invariant of the uploads is that of UploadProofs:    *)
(* every step of the catalog is a step of theirs or leaves them alone.     *)
(* What a search owes its guest is counted over the hotels that are sure   *)
(* to be answered; that more rooms never spoil a match is                  *)
(* RoomAllocationProofs.                                                   *)
(***************************************************************************)
EXTENDS Catalog, UploadProofs, RoomAllocationProofs

Functions ==
  /\ DOMAIN hotels = Hotels
  /\ DOMAIN asked = Adds
  /\ DOMAIN addPc = Adds

\* The images are addresses that an upload has answered.
Uploaded(images) == \A u \in images : u \in Uploads /\ uploadPc[u] = "created"

\* How far the addition of h is.
AdditionAt(h) ==
  /\ addPc[h] \in {"ready", "create", "bad request"} => hotels[h] = NoRow
  /\ addPc[h] # "ready" => Uploaded(asked[h].images)
  /\ hotels[h] # NoRow => hotels[h] = Row(asked[h])

HotelsShowUploads == \A h \in Hotels : hotels[h] # NoRow => Uploaded(hotels[h].images)

\* What the listing has read of h is what the row still says.
ReadOf(h) ==
  /\ h \in Hotels
  /\ hotels[h] # NoRow
  /\ listed[h] = [images |-> listed[h].images, options |-> listed[h].options]
  /\ listPc \in {"options", "listed"} => listed[h].images = hotels[h].images
  /\ listPc = "listed" => listed[h].options = hotels[h].options

CatalogInv ==
  /\ UploadInv
  /\ Functions
  /\ \A h \in Adds : AdditionAt(h)
  /\ HotelsShowUploads
  /\ \A h \in DOMAIN listed : ReadOf(h)

LEMMA CatalogInit == Init => CatalogInv
<1> SUFFICES ASSUME Init
             PROVE  CatalogInv
  OBVIOUS
<1>1. UploadInv
  BY InvInit DEF Init
<1>2. Functions
  BY DEF Init, Functions
<1>3. \A h \in Adds : addPc[h] = "ready" /\ hotels[h] = NoRow
  BY NumbersAssumption DEF Init, Hotels
<1>4. HotelsShowUploads
  BY DEF Init, HotelsShowUploads, Uploaded, DemoHotel
<1>5. DOMAIN listed = {}
  BY DEF Init
<1>6. QED
  BY <1>1, <1>2, <1>3, <1>4, <1>5 DEF CatalogInv, AdditionAt

(***************************************************************************)
(* What a step of the catalog can do.                                      *)
(***************************************************************************)
LEMMA UploadStepOrNot == [Next]_vars => [UploadNext]_uvars
  BY DEF Next, vars, AddStep, ListStep, SearchStep, HandleAddHotel, CreateHotel,
         CreateRefused, ReadBack, AddFails, CreateRoom, CreateInventory, ListHotels,
         PreloadImages, PreloadPaymentOptions, SearchBegin, NextPage, FindHotels, LoadRooms,
         LoadAvailability, AnswerSearch, SearchFails

\* An upload that was answered "created" is over.
LEMMA UploadedKept ==
  ASSUME UploadInv, [UploadNext]_uvars, NEW images, Uploaded(images)
  PROVE  Uploaded(images)'
<1> SUFFICES ASSUME NEW u \in Uploads, uploadPc[u] = "created"
             PROVE  uploadPc'[u] = "created"
  BY DEF Uploaded
<1>1. CASE UNCHANGED uvars
  BY <1>1 DEF uvars
<1>2. ASSUME NEW w \in Uploads, UploadStep(w)
      PROVE  uploadPc'[u] = "created"
  <2>1. w # u
    BY <1>2 DEF UploadStep, UploadBegin, RefuseSize, ReadHeader, DetectImageContentType,
                Store, StoreFails
  <2>2. QED
    BY <1>2, <2>1
       DEF UploadInv, Types, UploadStep, UploadBegin, RefuseSize, ReadHeader,
           DetectImageContentType, Store, StoreFails, UploadGoto, UploadFault
<1>3. QED
  BY <1>1, <1>2 DEF UploadNext, UploadStep

\* A step of an addition, and what any other step leaves alone.
LEMMA AddedSteps ==
  ASSUME [Next]_vars
  PROVE  (\E h \in Adds : AddStep(h) /\ UNCHANGED listing) \/ UNCHANGED <<hotels, asked, addPc>>
  BY DEF Next, vars, added, AddStep, ListStep, SearchStep, HandleAddHotel, CreateHotel,
         CreateRefused, ReadBack, AddFails, CreateRoom, CreateInventory, ListHotels,
         PreloadImages, PreloadPaymentOptions, SearchBegin, NextPage, FindHotels, LoadRooms,
         LoadAvailability, AnswerSearch, SearchFails

LEMMA ListingSteps ==
  ASSUME [Next]_vars
  PROVE  ListStep \/ UNCHANGED listing
  BY DEF Next, vars, AddStep, ListStep, SearchStep, HandleAddHotel, CreateHotel,
         CreateRefused, ReadBack, AddFails, CreateRoom, CreateInventory, SearchBegin, NextPage,
         FindHotels, LoadRooms, LoadAvailability, AnswerSearch, SearchFails

\* A hotel that is there stays as it is.
LEMMA HotelsKept ==
  ASSUME CatalogInv, [Next]_vars, NEW h \in Hotels, hotels[h] # NoRow
  PROVE  hotels'[h] = hotels[h]
<1>1. CASE UNCHANGED <<hotels, asked, addPc>>
  BY <1>1
<1>2. ASSUME NEW x \in Adds, AddStep(x)
      PROVE  hotels'[h] = hotels[h]
  <2>1. CASE CreateHotel(x)
    <3>1. hotels[x] = NoRow
      BY <2>1 DEF CreateHotel, CatalogInv, AdditionAt
    <3>2. QED
      BY <2>1, <3>1 DEF CreateHotel, CatalogInv, Functions
  <2>2. CASE HandleAddHotel(x) \/ CreateRefused(x) \/ ReadBack(x) \/ AddFails(x)
    BY <2>2 DEF HandleAddHotel, CreateRefused, ReadBack, AddFails
  <2>3. QED
    BY <1>2, <2>1, <2>2 DEF AddStep
<1>3. QED
  BY <1>1, <1>2, AddedSteps

(***************************************************************************)
(* The invariant.                                                          *)
(***************************************************************************)
LEMMA AdditionsStep ==
  ASSUME CatalogInv, [Next]_vars
  PROVE  Functions' /\ \A h \in Adds : AdditionAt(h)'
<1>1. \A images : Uploaded(images) => Uploaded(images)'
  BY UploadStepOrNot, UploadedKept DEF CatalogInv
<1>2. CASE UNCHANGED <<hotels, asked, addPc>>
  BY <1>1, <1>2 DEF CatalogInv, Functions, AdditionAt, Uploaded
<1>3. ASSUME NEW x \in Adds, AddStep(x)
      PROVE  Functions' /\ \A h \in Adds : AdditionAt(h)'
  <2> USE DEF CatalogInv, Functions
  <2>1. Functions'
    BY <1>3 DEF AddStep, HandleAddHotel, CreateHotel, CreateRefused, ReadBack, AddFails,
                AddGoto, AddFault
  <2>2. ASSUME NEW h \in Adds, h # x
        PROVE  AdditionAt(h)'
    <3>1. h \in Hotels
      BY DEF Hotels
    <3>2. hotels'[h] = hotels[h] /\ asked'[h] = asked[h] /\ addPc'[h] = addPc[h]
      BY <1>3, <2>2, <3>1
         DEF AddStep, HandleAddHotel, CreateHotel, CreateRefused, ReadBack, AddFails, AddGoto,
             AddFault
    <3>3. AdditionAt(h) /\ (Uploaded(asked[h].images) => Uploaded(asked[h].images)')
      BY <1>1, <3>2 DEF Uploaded
    <3>4. QED
      BY <3>2, <3>3 DEF AdditionAt
  <2>3. AdditionAt(x)'
    <3>1. AdditionAt(x) /\ x \in Hotels
      BY DEF Hotels
    <3>2. CASE HandleAddHotel(x)
      <4>1. PICK ask \in Asks, images \in {{}} \union {{u} : u \in Uploads} :
              /\ \A u \in images : uploadPc[u] = "created"
              /\ asked' = [asked EXCEPT ![x] = [ask EXCEPT !.images = images]]
        BY <3>2 DEF HandleAddHotel
      <4>2. asked'[x].images = images
        BY <4>1, AsksAssumption
      <4>3. Uploaded(images)'
        BY <4>1, <1>1 DEF Uploaded
      <4>4. hotels'[x] = NoRow
        BY <3>1, <3>2 DEF HandleAddHotel, AdditionAt
      <4>5. QED
        BY <4>2, <4>3, <4>4 DEF AdditionAt, Uploaded
    <3>3. CASE CreateHotel(x)
      <4>1. hotels'[x] = Row(asked'[x]) /\ addPc'[x] \in {"read", "error"}
        BY <3>1, <3>3 DEF CreateHotel, AddGoto, AddFault
      <4>2. Uploaded(asked[x].images)' /\ asked' = asked
        BY <1>1, <3>1, <3>3 DEF CreateHotel, AdditionAt, Uploaded
      <4>3. QED
        BY <4>1, <4>2 DEF AdditionAt, Uploaded, Row
    <3>4. CASE CreateRefused(x) \/ ReadBack(x) \/ AddFails(x)
      <4>1. addPc[x] # "ready" /\ addPc'[x] \in {"error", "created"} /\ UNCHANGED <<hotels, asked>>
        BY <3>4 DEF CreateRefused, ReadBack, AddFails, AddGoto, AddFault
      <4>2. Uploaded(asked[x].images) => Uploaded(asked[x].images)'
        BY <1>1, <4>1 DEF Uploaded
      <4>3. hotels[x] # NoRow => hotels'[x] = Row(asked'[x])
        BY <3>1, <4>1 DEF AdditionAt
      <4>4. QED
        BY <3>1, <4>1, <4>2, <4>3 DEF AdditionAt
    <3>5. QED
      BY <1>3, <3>2, <3>3, <3>4 DEF AddStep
  <2>4. QED
    BY <2>1, <2>2, <2>3
<1>4. QED
  BY <1>2, <1>3, AddedSteps

LEMMA HotelsShowUploadsStep ==
  ASSUME CatalogInv, [Next]_vars
  PROVE  HotelsShowUploads'
<1> SUFFICES ASSUME NEW h \in Hotels, hotels'[h] # NoRow
             PROVE  Uploaded(hotels[h].images)'
  BY DEF HotelsShowUploads, Uploaded
<1>1. \A images : Uploaded(images) => Uploaded(images)'
  BY UploadStepOrNot, UploadedKept DEF CatalogInv
<1>2. CASE hotels[h] # NoRow
  <2>1. hotels'[h] = hotels[h] /\ Uploaded(hotels[h].images)
    BY <1>2, HotelsKept DEF CatalogInv, HotelsShowUploads
  <2>2. QED
    BY <1>1, <2>1 DEF Uploaded
<1>3. CASE hotels[h] = NoRow
  <2>1. PICK x \in Adds : CreateHotel(x)
    BY <1>3, AddedSteps
       DEF AddStep, HandleAddHotel, CreateRefused, ReadBack, AddFails
  <2>2. h = x
    BY <1>3, <2>1 DEF CreateHotel, CatalogInv, Functions
  <2>3. hotels'[h] = Row(asked'[h]) /\ addPc'[h] # "ready"
    BY <2>1, <2>2 DEF CreateHotel, CatalogInv, Functions, AddGoto, AddFault
  <2>4. Uploaded(asked[h].images)'
    BY <2>2, <2>3, AdditionsStep DEF AdditionAt, Uploaded
  <2>5. QED
    BY <2>3, <2>4 DEF Row, Uploaded
<1>4. QED
  BY <1>2, <1>3

LEMMA ListingStep ==
  ASSUME CatalogInv, [Next]_vars
  PROVE  \A h \in DOMAIN listed' : ReadOf(h)'
<1> SUFFICES ASSUME NEW h \in DOMAIN listed'
             PROVE  ReadOf(h)'
  OBVIOUS
<1>1. CASE UNCHANGED listing
  <2>1. ReadOf(h) /\ UNCHANGED <<listPc, listed>>
    BY <1>1 DEF CatalogInv, listing
  <2>2. hotels'[h] = hotels[h]
    BY <2>1, HotelsKept DEF ReadOf
  <2>3. QED
    BY <2>1, <2>2 DEF ReadOf
<1>2. CASE ListStep
  <2>1. UNCHANGED hotels
    BY <1>2 DEF ListStep, ListHotels, PreloadImages, PreloadPaymentOptions, added
  <2>2. CASE ListHotels
    BY <2>1, <2>2 DEF ListHotels, ReadOf
  <2>3. CASE PreloadImages
    <3>1. h \in DOMAIN listed /\ ReadOf(h)
      BY <2>3 DEF PreloadImages, CatalogInv
    <3>2. listed'[h] = [images |-> hotels[h].images, options |-> listed[h].options]
      BY <2>3, <3>1 DEF PreloadImages, ReadOf
    <3>3. QED
      BY <2>1, <2>3, <3>1, <3>2 DEF PreloadImages, ReadOf
  <2>4. CASE PreloadPaymentOptions
    <3>1. h \in DOMAIN listed /\ ReadOf(h)
      BY <2>4 DEF PreloadPaymentOptions, CatalogInv
    <3>2. listed'[h] = [images |-> listed[h].images, options |-> hotels[h].options]
      BY <2>4, <3>1 DEF PreloadPaymentOptions, ReadOf
    <3>3. QED
      BY <2>1, <2>4, <3>1, <3>2 DEF PreloadPaymentOptions, ReadOf
  <2>5. QED
    BY <1>2, <2>2, <2>3, <2>4 DEF ListStep
<1>3. QED
  BY <1>1, <1>2, ListingSteps

LEMMA CatalogNext == CatalogInv /\ [Next]_vars => CatalogInv'
  BY UploadStepOrNot, InvNext, AdditionsStep, HotelsShowUploadsStep, ListingStep
     DEF CatalogInv

LEMMA CatalogInductive == Spec => []CatalogInv
  BY CatalogInit, CatalogNext, PTL DEF Spec

\* The uploads of the catalog keep what they promise alone.
THEOREM UploadsKeepPromise == Spec => []UploadStoresPrefix
  BY CatalogInductive, InvStores, PTL DEF CatalogInv

LEMMA InvListedWhole == CatalogInv => ListedWhole
<1> SUFFICES ASSUME CatalogInv, listPc = "listed", NEW h \in DOMAIN listed \intersect Adds
             PROVE  /\ listed[h].images = asked[h].images
                    /\ DOMAIN listed[h].options =
                         {asked[h].options[i].option : i \in DOMAIN asked[h].options}
  BY DEF ListedWhole
<1>1. ReadOf(h) /\ AdditionAt(h)
  BY DEF CatalogInv
<1>2. hotels[h] = Row(asked[h])
  BY <1>1 DEF ReadOf, AdditionAt
<1>3. QED
  BY <1>1, <1>2 DEF ReadOf, Row

\* A listing shows each added hotel as it was asked for, although it reads hotels,
\* images and options in three statements between which hotels are added.
THEOREM ListedWholeHolds == Spec => []ListedWhole
  BY CatalogInductive, InvListedWhole, PTL

LEMMA InvListedImagesStored == CatalogInv => ListedImagesStored
<1> SUFFICES ASSUME CatalogInv, listPc = "listed", NEW h \in DOMAIN listed,
                    NEW u \in listed[h].images, NEW i \in DOMAIN batch[u]
             PROVE  StoredWhole(u, i)
  BY DEF ListedImagesStored
<1>1. u \in Uploads /\ uploadPc[u] = "created"
  BY DEF CatalogInv, ReadOf, HotelsShowUploads, Uploaded
<1>2. StoredFirst(u, Len(batch[u])) /\ batch[u] \in Seq(FileKinds)
  BY <1>1 DEF CatalogInv, UploadInv, Types, Reached
<1>3. QED
  BY <1>2 DEF StoredFirst

\* Whatever failed on the way, each image that a listing shows is in storage, whole.
THEOREM ListedImagesStoredHolds == Spec => []ListedImagesStored
  BY CatalogInductive, InvListedImagesStored, PTL

(***************************************************************************)
(* The rows only gain: what is there stays as it is.                       *)
(***************************************************************************)
RowsSound ==
  /\ criteria \in Criteria
  /\ DOMAIN rooms = AllRooms /\ DOMAIN inventory = AllRooms
  /\ \A r \in AllRooms : DOMAIN inventory[r] = Nights
  /\ \A r \in AllRooms : rooms[r] # NoRow =>
       /\ rooms[r].maxAdult \in Nat /\ rooms[r].maxChild \in Nat
       /\ rooms[r].maxOccupancy \in Nat
       /\ rooms[r].hotel \in Hotels /\ hotels[rooms[r].hotel] # NoRow
  /\ \A r \in AllRooms, n \in Nights : inventory[r][n] # NoRow =>
       inventory[r][n] \in Nat /\ rooms[r] # NoRow

LEMMA DemoRoomsSound ==
  ASSUME NEW r \in DemoRooms
  PROVE  /\ DemoRoom(r).maxAdult \in Nat /\ DemoRoom(r).maxChild \in Nat
         /\ DemoRoom(r).maxOccupancy \in Nat /\ DemoRoom(r).hotel = Demo
         /\ DemoInventory(r) \in Nat
<1> DEFINE first == r = Min(DemoRooms)
<1>1. DemoInventory(r) = IF first THEN 5 - 0 - 1 ELSE 3 - 0 - 0
  BY DEF DemoInventory
<1>2. DemoRoom(r) =
        IF first
        THEN [hotel |-> Demo, maxAdult |-> 2, maxChild |-> 1, maxOccupancy |-> 3,
              active |-> TRUE, amenities |-> {}]
        ELSE [hotel |-> Demo, maxAdult |-> 3, maxChild |-> 2, maxOccupancy |-> 5,
              active |-> TRUE, amenities |-> {}]
  BY DEF DemoRoom
<1> HIDE DEF first
<1>3. QED
  BY <1>1, <1>2

LEMMA RowsInit == Init => RowsSound
<1> SUFFICES ASSUME Init
             PROVE  RowsSound
  OBVIOUS
<1>1. PICK seeded \in BOOLEAN :
        /\ hotels = [h \in Hotels |-> IF seeded /\ h = Demo THEN DemoHotel ELSE NoRow]
        /\ rooms = [r \in AllRooms |-> IF seeded /\ r \in DemoRooms THEN DemoRoom(r) ELSE NoRow]
        /\ inventory = [r \in AllRooms |-> [n \in Nights |->
                          IF seeded /\ r \in DemoRooms THEN DemoInventory(r) ELSE NoRow]]
  BY DEF Init
<1>2. ASSUME NEW r \in AllRooms, rooms[r] # NoRow
      PROVE  r \in DemoRooms /\ rooms[r] = DemoRoom(r) /\ hotels[Demo] # NoRow
  BY <1>1, <1>2, NoRowAssumption DEF Hotels
<1>3. ASSUME NEW r \in AllRooms, NEW n \in Nights, inventory[r][n] # NoRow
      PROVE  inventory[r][n] \in Nat /\ rooms[r] # NoRow
  <2>1. r \in DemoRooms /\ inventory[r][n] = DemoInventory(r) /\ rooms[r] = DemoRoom(r)
    BY <1>1, <1>3
  <2>2. QED
    BY <2>1, NoRowAssumption, DemoRoomsSound
<1>4. /\ criteria \in Criteria
      /\ DOMAIN rooms = AllRooms /\ DOMAIN inventory = AllRooms
      /\ \A r \in AllRooms : DOMAIN inventory[r] = Nights
  BY <1>1 DEF Init
<1>5. QED
  BY <1>2, <1>3, <1>4, DemoRoomsSound DEF RowsSound, Hotels

\* What a step does to the rows that rooms and searches are about.
LEMMA RowSteps ==
  ASSUME [Next]_vars
  PROVE  /\ criteria' = criteria
         /\ \/ UNCHANGED <<rooms, inventory>>
            \/ \E r \in Rooms : CreateRoom(r)
            \/ \E r \in AllRooms, n \in Nights : CreateInventory(r, n)
  BY DEF Next, vars, added, searching, AddStep, ListStep, SearchStep, HandleAddHotel, CreateHotel,
         CreateRefused, ReadBack, AddFails, CreateRoom, CreateInventory, ListHotels,
         PreloadImages, PreloadPaymentOptions, SearchBegin, NextPage, FindHotels, LoadRooms,
         LoadAvailability, AnswerSearch, SearchFails

LEMMA RoomsKept ==
  ASSUME RowsSound, [Next]_vars, NEW r \in AllRooms, rooms[r] # NoRow
  PROVE  rooms'[r] = rooms[r]
  BY RowSteps DEF RowsSound, CreateRoom, CreateInventory

LEMMA InventoryKept ==
  ASSUME RowsSound, [Next]_vars, NEW r \in AllRooms, NEW n \in Nights, inventory[r][n] # NoRow
  PROVE  inventory'[r][n] = inventory[r][n]
<1>1. CASE UNCHANGED inventory
  BY <1>1
<1>2. ASSUME NEW s \in AllRooms, NEW m \in Nights, CreateInventory(s, m)
      PROVE  inventory'[r][n] = inventory[r][n]
  BY <1>2 DEF CreateInventory, RowsSound
<1>3. QED
  BY <1>1, <1>2, RowSteps DEF CreateRoom

\* The row of a room that is added.
LEMMA RoomRowSound ==
  ASSUME NEW h, NEW kind \in Kinds
  PROVE  /\ RoomRow(h, kind).maxAdult \in Nat /\ RoomRow(h, kind).maxChild \in Nat
         /\ RoomRow(h, kind).maxOccupancy \in Nat /\ RoomRow(h, kind).hotel = h
  BY KindsAssumption DEF RoomRow

LEMMA RowsStep ==
  ASSUME CatalogInv, RowsSound, [Next]_vars
  PROVE  RowsSound'
<1>1. \A h \in Hotels : hotels[h] # NoRow => hotels'[h] # NoRow
  BY HotelsKept
<1>2. criteria' \in Criteria
  BY RowSteps DEF RowsSound
<1>3. CASE UNCHANGED <<rooms, inventory>>
  <2>1. \A r \in AllRooms : rooms[r] # NoRow => hotels'[rooms[r].hotel] # NoRow
    BY <1>1 DEF RowsSound
  <2>2. QED
    BY <1>2, <1>3, <2>1 DEF RowsSound
<1>4. ASSUME NEW x \in Rooms, CreateRoom(x)
      PROVE  RowsSound'
  <2>1. PICK h \in Hotels, kind \in Kinds :
          hotels[h] # NoRow /\ rooms' = [rooms EXCEPT ![x] = RoomRow(h, kind)]
    BY <1>4 DEF CreateRoom
  <2>2. inventory' = inventory /\ hotels' = hotels /\ rooms[x] = NoRow /\ x \in AllRooms
    BY <1>4 DEF CreateRoom, AllRooms
  <2>3. \A r \in AllRooms : rooms'[r] = IF r = x THEN RoomRow(h, kind) ELSE rooms[r]
    BY <2>1 DEF RowsSound
  <2>4. ASSUME NEW r \in AllRooms, rooms'[r] # NoRow
        PROVE  /\ rooms'[r].maxAdult \in Nat /\ rooms'[r].maxChild \in Nat
               /\ rooms'[r].maxOccupancy \in Nat
               /\ rooms'[r].hotel \in Hotels /\ hotels'[rooms'[r].hotel] # NoRow
    <3>1. CASE r = x
      BY <2>1, <2>2, <2>3, <3>1, RoomRowSound
    <3>2. CASE r # x
      BY <2>2, <2>3, <2>4, <3>2 DEF RowsSound
    <3>3. QED
      BY <3>1, <3>2
  <2>5. ASSUME NEW r \in AllRooms, NEW n \in Nights, inventory'[r][n] # NoRow
        PROVE  inventory'[r][n] \in Nat /\ rooms'[r] # NoRow
    BY <2>2, <2>3, <2>5 DEF RowsSound
  <2>6. DOMAIN rooms' = AllRooms
    BY <2>1 DEF RowsSound
  <2>7. QED
    BY <1>2, <2>2, <2>4, <2>5, <2>6 DEF RowsSound
<1>5. ASSUME NEW x \in AllRooms, NEW m \in Nights, CreateInventory(x, m)
      PROVE  RowsSound'
  <2>1. PICK count \in 0..MaxFree : inventory' = [inventory EXCEPT ![x][m] = count]
    BY <1>5 DEF CreateInventory
  <2>2. rooms' = rooms /\ hotels' = hotels /\ rooms[x] # NoRow
    BY <1>5 DEF CreateInventory
  <2>3. count \in Nat
    BY SizesAssumption
  <2>4. \A r \in AllRooms, n \in Nights : \/ inventory'[r][n] = inventory[r][n]
                                          \/ r = x /\ inventory'[r][n] = count
    BY <2>1 DEF RowsSound
  <2>5. DOMAIN inventory' = AllRooms /\ \A r \in AllRooms : DOMAIN inventory'[r] = Nights
    BY <2>1 DEF RowsSound
  <2>6. QED
    BY <1>2, <2>2, <2>3, <2>4, <2>5 DEF RowsSound
<1>6. QED
  BY <1>3, <1>4, <1>5, RowSteps

(***************************************************************************)
(* Candidates of a hotel.                                                  *)
(***************************************************************************)
LEMMA AvailabilityIsNatural ==
  ASSUME RowsSound, NEW r \in AllRooms
  PROVE  RoomAvailability(r) \in Nat
<1> DEFINE counts == {inventory[r][n] : n \in Stay}
<1>1. CASE \A n \in Stay : n \in Nights /\ inventory[r][n] # NoRow
  <2>1. counts \subseteq Nat
    BY <1>1 DEF RowsSound
  <2>2. criteria.checkIn \in Stay
    BY CriteriaAssumption DEF RowsSound, Stay
  <2>3. counts # {}
    BY <2>2
  <2> HIDE DEF counts
  <2>4. Min(counts) \in counts
    BY <2>1, <2>3, MinOfNaturals
  <2>5. RoomAvailability(r) = Min(counts)
    BY <1>1 DEF RoomAvailability, counts
  <2>6. QED
    BY <2>1, <2>4, <2>5
<1>2. CASE ~\A n \in Stay : n \in Nights /\ inventory[r][n] # NoRow
  BY <1>2 DEF RoomAvailability
<1>3. QED
  BY <1>1, <1>2

\* What is free of a room stays as it was counted: no night of the stay is missing.
LEMMA AvailabilityKept ==
  ASSUME RowsSound, [Next]_vars, NEW r \in AllRooms, RoomAvailability(r) > 0
  PROVE  RoomAvailability(r)' = RoomAvailability(r)
<1>1. \A n \in Stay : n \in Nights /\ inventory[r][n] # NoRow
  BY DEF RoomAvailability
<1>2. Stay' = Stay
  BY RowSteps DEF Stay
<1>3. \A n \in Stay : n \in Nights /\ inventory'[r][n] = inventory[r][n]
  BY <1>1, InventoryKept
<1> DEFINE counts == {inventory[r][n] : n \in Stay}
<1>4. {inventory'[r][n] : n \in Stay'} = counts
  BY <1>2, <1>3
<1>5. RoomAvailability(r) = Min(counts)
  BY <1>1 DEF RoomAvailability
<1>6. \A n \in Stay' : n \in Nights /\ inventory'[r][n] # NoRow
  BY <1>1, <1>2, <1>3
<1>7. RoomAvailability(r)' = Min({inventory'[r][n] : n \in Stay'})
  BY <1>6 DEF RoomAvailability
<1>8. QED
  BY <1>4, <1>5, <1>7

\* A room that can be offered still can be, as it was.
LEMMA FreeRoomsKept ==
  ASSUME RowsSound, [Next]_vars, NEW h, NEW r \in FreeRooms(h)
  PROVE  /\ r \in AllRooms /\ rooms[r] # NoRow /\ r \in FreeRooms(h)'
         /\ rooms'[r] = rooms[r] /\ RoomAvailability(r)' = RoomAvailability(r)
         /\ RoomAvailability(r) \in Nat
<1>1. /\ r \in AllRooms /\ rooms[r] # NoRow /\ rooms[r].hotel = h /\ rooms[r].active
      /\ HasAllAmenities(r) /\ RoomAvailability(r) > 0
  BY DEF FreeRooms
<1>2. rooms'[r] = rooms[r] /\ RoomAvailability(r)' = RoomAvailability(r) /\ criteria' = criteria
  BY <1>1, RoomsKept, AvailabilityKept, RowSteps
<1>3. HasAllAmenities(r)'
  BY <1>1, <1>2 DEF HasAllAmenities
<1>4. r \in FreeRooms(h)'
  <2>1. RoomAvailability(r)' > 0
    BY <1>1, <1>2
  <2> HIDE DEF RoomAvailability, HasAllAmenities
  <2>2. QED
    BY <1>1, <1>2, <1>3, <2>1 DEF FreeRooms
<1>5. QED
  BY <1>1, <1>2, <1>4, AvailabilityIsNatural

\* What is counted now of such rooms.
Counted(R) == [r \in R |-> Candidate(r, RoomAvailability(r))]

LEMMA CountedOK ==
  ASSUME RowsSound, NEW h, NEW R, R \subseteq FreeRooms(h)
  PROVE  CandidatesOK(Counted(R))
<1>1. R \in SUBSET AllRooms
  BY DEF FreeRooms
<1>2. IsFiniteSet(R)
  BY <1>1, NumbersAssumption, FS_Subset
<1>3. ASSUME NEW r \in R
      PROVE  /\ Counted(R)[r].maxAdult \in Nat /\ Counted(R)[r].maxChild \in Nat
             /\ Counted(R)[r].maxOccupancy \in Nat /\ Counted(R)[r].available \in Nat
  <2>1. r \in AllRooms /\ rooms[r] # NoRow /\ RoomAvailability(r) \in Nat
    BY <1>1, AvailabilityIsNatural DEF FreeRooms
  <2>2. Counted(R)[r] = [maxAdult |-> rooms[r].maxAdult, maxChild |-> rooms[r].maxChild,
                         maxOccupancy |-> rooms[r].maxOccupancy,
                         available |-> RoomAvailability(r)]
    BY DEF Counted, Candidate
  <2>3. QED
    BY <2>1, <2>2 DEF RowsSound
<1>4. DOMAIN Counted(R) = R
  BY DEF Counted
<1>5. QED
  BY <1>2, <1>3, <1>4 DEF CandidatesOK

\* The candidates of a hotel as they are: what MatchKept and ShownMatch look at.
LEMMA RequiredIsCounted ==
  ASSUME NEW h
  PROVE  Required(h) = MinimumRequiredRooms(Counted(FreeRooms(h)), criteria.roomCount, criteria)
BY DEF Required, RequiredRooms, Counted

\* More rooms of a hotel, and later: as many candidates.
LEMMA CountedGrows ==
  ASSUME RowsSound, [Next]_vars, NEW h, NEW R, R \subseteq FreeRooms(h),
         NEW Q, R \subseteq Q, NEW later, DOMAIN later = Q,
         \A r \in Q : later[r] = Candidate(r, RoomAvailability(r))'
  PROVE  More(later, Counted(R))
<1>1. ASSUME NEW r \in R
      PROVE  later[r] = Counted(R)[r]
  <2>1. rooms'[r] = rooms[r] /\ RoomAvailability(r)' = RoomAvailability(r)
    BY FreeRoomsKept
  <2>2. later[r] = [maxAdult |-> rooms'[r].maxAdult, maxChild |-> rooms'[r].maxChild,
                    maxOccupancy |-> rooms'[r].maxOccupancy,
                    available |-> RoomAvailability(r)']
    BY DEF Candidate
  <2>3. Counted(R)[r] = [maxAdult |-> rooms[r].maxAdult, maxChild |-> rooms[r].maxChild,
                         maxOccupancy |-> rooms[r].maxOccupancy,
                         available |-> RoomAvailability(r)]
    BY DEF Counted, Candidate
  <2>4. QED
    BY <2>1, <2>2, <2>3
<1>2. DOMAIN Counted(R) = R
  BY DEF Counted
<1> HIDE DEF Counted
<1>3. QED
  BY <1>1, <1>2 DEF More

LEMMA PartiesOK ==
  ASSUME RowsSound
  PROVE  PartyOK(criteria) /\ criteria.roomCount \in Nat \ {0}
BY CriteriaAssumption DEF RowsSound, PartyOK

LEMMA CountedOKNext ==
  ASSUME NEW h
  PROVE  RowsSound' => CandidatesOK(Counted(FreeRooms(h)))'
<1>1. RowsSound => CandidatesOK(Counted(FreeRooms(h)))
  BY CountedOK
<1>2. QED
  BY <1>1, PTL

\* The rooms a hotel needs for the party only get fewer.
LEMMA RequiredKept ==
  ASSUME CatalogInv, RowsSound, [Next]_vars, NEW h, Required(h) > 0
  PROVE  Required(h)' \in 1..Required(h)
<1> DEFINE R     == FreeRooms(h)
           fewer == Counted(R)
<1>1. PICK later : later = Counted(FreeRooms(h))'
  OBVIOUS
<1>2. CandidatesOK(fewer)
  BY CountedOK
<1>3. CandidatesOK(later)
  BY <1>1, RowsStep, CountedOKNext
<1>4. More(later, fewer)
  <2>1. DOMAIN later = FreeRooms(h)'
    BY <1>1 DEF Counted
  <2>2. \A r \in FreeRooms(h)' : later[r] = Candidate(r, RoomAvailability(r))'
    BY <1>1 DEF Counted
  <2>3. R \subseteq FreeRooms(h)'
    BY FreeRoomsKept
  <2> HIDE DEF R
  <2>4. QED
    BY <2>1, <2>2, <2>3, CountedGrows DEF R
<1>5. Required(h) = MinimumRequiredRooms(fewer, criteria.roomCount, criteria)
  BY RequiredIsCounted
<1>6. Required(h)' = MinimumRequiredRooms(later, criteria.roomCount, criteria)
  <2>1. criteria' = criteria
    BY RowSteps
  <2>2. QED
    BY <1>1, <2>1 DEF Required, RequiredRooms, Counted
<1> HIDE DEF fewer, R
<1>7. QED
  BY <1>2, <1>3, <1>4, <1>5, <1>6, PartiesOK, MinimumOfMore

(***************************************************************************)
(* What matched when the guest began.                                      *)
(***************************************************************************)
\* What the query of the search asks of a hotel.
Asked(h) == h \in Hotels /\ hotels[h] # NoRow /\ hotels[h].named /\ HotelMatchesFilter(h)

LEMMA AskedKept ==
  ASSUME CatalogInv, [Next]_vars, NEW h, Asked(h)
  PROVE  Asked(h)'
<1>1. hotels'[h] = hotels[h] /\ criteria' = criteria
  BY HotelsKept, RowSteps DEF Asked
<1>2. HotelMatchesFilter(h)' <=> HotelMatchesFilter(h)
  BY <1>1 DEF HotelMatchesFilter
<1>3. QED
  BY <1>1, <1>2 DEF Asked

DueSound ==
  \A h \in DOMAIN due : Asked(h) /\ due[h] \in Nat /\ Required(h) \in 1..due[h]

\* What is due is decided once.
LEMMA DueSteps ==
  ASSUME [Next]_vars
  PROVE  due' = due \/ SearchBegin
  BY DEF Next, vars, searching, AddStep, ListStep, SearchStep, HandleAddHotel, CreateHotel,
         CreateRefused, ReadBack, AddFails, CreateRoom, CreateInventory, ListHotels,
         PreloadImages, PreloadPaymentOptions, NextPage, FindHotels, LoadRooms,
         LoadAvailability, AnswerSearch, SearchFails

LEMMA RequiredIsNatural ==
  ASSUME RowsSound, NEW h
  PROVE  Required(h) \in Nat
<1> DEFINE freeNow == Counted(FreeRooms(h))
<1>1. CandidatesOK(freeNow)
  BY CountedOK
<1> HIDE DEF freeNow
<1>2. MinimumRequiredRooms(freeNow, criteria.roomCount, criteria) \in Nat
  BY <1>1, PartiesOK, MinimumIsFirst
<1>3. QED
  BY <1>2, RequiredIsCounted DEF freeNow

LEMMA DueStep ==
  ASSUME CatalogInv, RowsSound, DueSound, [Next]_vars
  PROVE  DueSound'
<1>1. ASSUME NEW h, NEW n \in Nat, Asked(h), Required(h) \in 1..n
      PROVE  Asked(h)' /\ Required(h)' \in 1..n
  <2>1. Required(h) > 0 /\ Required(h) \in Nat
    BY <1>1
  <2>2. Required(h)' \in 1..Required(h)
    BY <2>1, RequiredKept
  <2>3. QED
    BY <1>1, <2>1, <2>2, AskedKept
<1>2. CASE due' = due
  BY <1>1, <1>2 DEF DueSound
<1>3. CASE SearchBegin
  <2>1. /\ due' = [h \in {x \in Hotels : Matches(x)} |-> Required(h)]
        /\ UNCHANGED <<uvars, added, criteria>>
    BY <1>3 DEF SearchBegin
  <2>2. ASSUME NEW h \in DOMAIN due'
        PROVE  Asked(h) /\ due'[h] \in Nat /\ Required(h) \in 1..due'[h]
    <3>1. h \in Hotels /\ Matches(h) /\ due'[h] = Required(h)
      BY <2>1
    <3>2. Required(h) \in Nat /\ Required(h) > 0 /\ Asked(h)
      BY <3>1, RequiredIsNatural DEF Matches, Asked
    <3>3. QED
      BY <3>1, <3>2
  <2>3. QED
    BY <1>1, <2>2 DEF DueSound
<1>4. QED
  BY <1>2, <1>3, DueSteps

LEMMA DueInductive == Spec => [](CatalogInv /\ RowsSound /\ DueSound)
<1>1. Init => DueSound
  BY DEF Init, DueSound
<1>2. CatalogInv /\ RowsSound /\ DueSound /\ [Next]_vars => DueSound'
  BY DueStep
<1>3. CatalogInv /\ RowsSound /\ [Next]_vars => RowsSound'
  BY RowsStep
<1>4. QED
  BY <1>1, <1>2, <1>3, CatalogInit, CatalogNext, RowsInit, PTL DEF Spec

\* Inserts never withdraw a match nor make a strict one flexible: what matched when a
\* guest began still does until he is done, in no more rooms, for any hotels, rooms
\* and parties.
THEOREM MatchKeptHolds == Spec => []MatchKept
<1>1. DueSound => MatchKept
  BY DEF DueSound, Asked, MatchKept
<1>2. QED
  BY <1>1, DueInductive, PTL

(***************************************************************************)
(* Lists of hotels and rooms, and their chunks.                            *)
(***************************************************************************)
\* A set of numbers in order: its elements, each after as many as are less.
LEMMA InOrderElements ==
  ASSUME NEW S \in SUBSET Nat, IsFiniteSet(S)
  PROVE  /\ Cardinality(S) \in Nat
         /\ InOrder(S) \in Seq(S) /\ Len(InOrder(S)) = Cardinality(S)
         /\ ToSet(InOrder(S)) = S
         /\ \A k \in 1..Cardinality(S) : Cardinality({y \in S : y < InOrder(S)[k]}) = k - 1
<1> DEFINE R == {p \in S \X S : p[1] < p[2]}
           f == Ordered(S, R)
           n == Cardinality(S)
<1>1. \A x, y \in S : <<x, y>> \in R <=> x < y
  OBVIOUS
<1>2. IsStrictOrder(R, S)
  BY <1>1 DEF IsStrictOrder
<1>3. InOrder(S) = f
  BY DEF InOrder
<1> HIDE DEF R
<1>4. /\ n \in Nat /\ f \in Seq(S) /\ Len(f) = n
      /\ \A x \in S : \E k \in 1..n : f[k] = x
  BY <1>2, OrderedElements
<1>5. \A k \in 1..n : Cardinality(Below(S, R, f[k])) = k - 1
  BY <1>2, OrderedBijection
<1> HIDE DEF f, n
<1>6. \A k \in 1..n : f[k] \in S
  BY <1>4
<1>7. ToSet(f) = S
  <2>1. DOMAIN f = 1..n
    BY <1>4
  <2>2. ToSet(f) = {f[k] : k \in DOMAIN f}
    BY DEF ToSet
  <2>3. \A x : x \in ToSet(f) <=> \E k \in 1..n : x = f[k]
    BY <2>1, <2>2
  <2>4. ToSet(f) \subseteq S /\ S \subseteq ToSet(f)
    BY <1>4, <1>6, <2>3
  <2> HIDE DEF ToSet
  <2>5. QED
    BY <2>4, Zenon
<1>8. ASSUME NEW k \in 1..n
      PROVE  Cardinality({y \in S : y < f[k]}) = k - 1
  <2>1. Below(S, R, f[k]) = {y \in S : y < f[k]}
    BY <1>1, <1>6 DEF Below
  <2>2. QED
    BY <1>5, <2>1
<1>9. QED
  BY <1>3, <1>4, <1>7, <1>8 DEF n

\* What is in the next chunk or a later one.
AheadFrom(ids, start) == {ids[i] : i \in {j \in DOMAIN ids : j > start}}
Ahead(ids, size) == AheadFrom(ids, (chunk - 1) * size)

LEMMA ChunkStarts ==
  ASSUME NEW n \in Nat \ {0}, NEW size \in Nat \ {0}
  PROVE  /\ (n - 1) * size \in Nat /\ n * size \in Nat
         /\ n * size = (n - 1) * size + size
         /\ n + 1 - 1 = n /\ (1 - 1) * size = 0
OBVIOUS

\* What is ahead is in this chunk, or there is a next one and it is ahead still.
LEMMA ChunkTaken ==
  ASSUME chunk \in Nat \ {0}, NEW S, NEW ids \in Seq(S), NEW size \in Nat \ {0}
  PROVE  /\ ToSet(ChunkOf(ids, size)) \subseteq ToSet(ids)
         /\ \A x \in Ahead(ids, size) :
              \/ x \in ToSet(ChunkOf(ids, size))
              \/ ~LastChunk(ids, size) /\ x \in AheadFrom(ids, chunk * size)
<1> DEFINE a == (chunk - 1) * size
           b == chunk * size
           e == Min({b, Len(ids)})
           piece == SubSeq(ids, a + 1, e)
<1>1. a \in Nat /\ b \in Nat /\ b = a + size
  BY ChunkStarts
<1>2. ChunkOf(ids, size) = piece /\ (LastChunk(ids, size) <=> b >= Len(ids))
  BY DEF ChunkOf, LastChunk
<1>3. Ahead(ids, size) = AheadFrom(ids, a) /\ AheadFrom(ids, chunk * size) = AheadFrom(ids, b)
  BY DEF Ahead
<1>4. Len(ids) \in Nat
  OBVIOUS
<1> HIDE DEF a, b
<1>5. e \in {b, Len(ids)} /\ e <= b /\ e <= Len(ids)
  <2>1. {b, Len(ids)} \subseteq Nat /\ {b, Len(ids)} # {}
    BY <1>1, <1>4
  <2>2. QED
    BY <2>1, MinOfNaturals
<1> HIDE DEF e
<1>6. /\ \A i \in DOMAIN piece : piece[i] = ids[i + a] /\ i + a \in DOMAIN ids
      /\ \A j \in DOMAIN ids : j > a /\ j <= e => j - a \in DOMAIN piece /\ piece[j - a] = ids[j]
  BY <1>1, <1>4, <1>5
<1> HIDE DEF piece
<1>7. ToSet(piece) \subseteq ToSet(ids)
  BY <1>6 DEF ToSet
<1>8. ASSUME NEW x \in AheadFrom(ids, a)
      PROVE  x \in ToSet(piece) \/ (~(b >= Len(ids)) /\ x \in AheadFrom(ids, b))
  <2>1. PICK j \in DOMAIN ids : j > a /\ x = ids[j]
    BY DEF AheadFrom
  <2>2. CASE j <= e
    BY <1>6, <2>1, <2>2 DEF ToSet
  <2>3. CASE j > e
    <3>1. j > b /\ ~(b >= Len(ids))
      BY <1>1, <1>4, <1>5, <2>1, <2>3
    <3>2. QED
      BY <2>1, <3>1 DEF AheadFrom
  <2>4. QED
    BY <1>1, <1>4, <1>5, <2>1, <2>2, <2>3
<1>9. QED
  BY <1>2, <1>3, <1>7, <1>8

\* All of a list is ahead of its first chunk.
LEMMA AllAhead ==
  ASSUME chunk = 1, NEW S, NEW ids \in Seq(S), NEW size \in Nat \ {0}
  PROVE  Ahead(ids, size) = ToSet(ids)
<1>1. (chunk - 1) * size = 0
  BY ChunkStarts
<1>2. Ahead(ids, size) = AheadFrom(ids, 0)
  BY <1>1 DEF Ahead
<1>3. QED
  BY <1>2 DEF AheadFrom, ToSet

(***************************************************************************)
(* What a search has read is still so.                                     *)
(***************************************************************************)
SearchingSound ==
  /\ searchPc \in {"ready", "hotels", "rooms", "availability", "answer", "shown"}
  /\ chunk \in Nat \ {0}
  /\ searchPc \notin {"rooms", "availability"} => chunk = 1
  /\ hits \in Seq(Hotels) /\ \A h \in ToSet(hits) : Asked(h)
  /\ read \in Seq(AllRooms) /\ \A r \in ToSet(read) : rooms[r] # NoRow /\ rooms[r].active
  /\ DOMAIN free \subseteq ToSet(read)
  /\ \A r \in DOMAIN free : free[r] \in Nat /\ (free[r] > 0 => free[r] = RoomAvailability(r))

LEMMA SearchSteps ==
  ASSUME [Next]_vars
  PROVE  (SearchStep /\ UNCHANGED added) \/ UNCHANGED searching
  BY DEF Next, vars, AddStep, ListStep, SearchStep, HandleAddHotel, CreateHotel,
         CreateRefused, ReadBack, AddFails, CreateRoom, CreateInventory, SearchBegin, NextPage,
         FindHotels, LoadRooms, LoadAvailability, AnswerSearch, SearchFails, ListHotels,
         PreloadImages, PreloadPaymentOptions

\* The elements of lists that are made in a search.
LEMMA ListElements ==
  /\ ToSet(<<>>) = {}
  /\ \A S : <<>> \in Seq(S)
  /\ \A S, T : \A s \in Seq(S), t \in Seq(S) :
       s \o t \in Seq(S) /\ ToSet(s \o t) = ToSet(s) \union ToSet(t)
<1>1. ToSet(<<>>) = {}
  BY DEF ToSet
<1>2. ASSUME NEW S, NEW s \in Seq(S), NEW t \in Seq(S)
      PROVE  s \o t \in Seq(S) /\ ToSet(s \o t) = ToSet(s) \union ToSet(t)
  <2>1. s \o t \in Seq(S) /\ Len(s \o t) = Len(s) + Len(t)
    OBVIOUS
  <2>2. /\ \A i \in DOMAIN s : i \in DOMAIN (s \o t) /\ (s \o t)[i] = s[i]
        /\ \A i \in DOMAIN t : i + Len(s) \in DOMAIN (s \o t) /\ (s \o t)[i + Len(s)] = t[i]
    OBVIOUS
  <2>3. \A i \in DOMAIN (s \o t) : \/ i \in DOMAIN s /\ (s \o t)[i] = s[i]
                                   \/ i - Len(s) \in DOMAIN t /\ (s \o t)[i] = t[i - Len(s)]
    OBVIOUS
  <2>4. ToSet(s \o t) \subseteq ToSet(s) \union ToSet(t)
    BY <2>3 DEF ToSet
  <2>5. ToSet(s) \subseteq ToSet(s \o t) /\ ToSet(t) \subseteq ToSet(s \o t)
    BY <2>2 DEF ToSet
  <2> HIDE DEF ToSet
  <2>6. QED
    BY <2>1, <2>4, <2>5
<1>3. QED
  BY <1>1, <1>2

LEMMA SeqOfMore ==
  ASSUME NEW T, NEW S, S \subseteq T, NEW s \in Seq(S)
  PROVE  s \in Seq(T)
OBVIOUS

LEMMA SearchingInit == Init => SearchingSound
<1> SUFFICES ASSUME Init
             PROVE  SearchingSound
  OBVIOUS
<1>1. searchPc = "ready" /\ chunk = 1 /\ hits = <<>> /\ read = <<>> /\ DOMAIN free = {}
  BY DEF Init
<1>2. QED
  BY <1>1, ListElements DEF SearchingSound

\* The rooms that a chunk of hotels adds.
LEMMA ActiveRooms ==
  ASSUME RowsSound, NEW ids
  PROVE  LET new == {r \in AllRooms : rooms[r] # NoRow /\ rooms[r].hotel \in ids /\ rooms[r].active}
         IN  InOrder(new) \in Seq(AllRooms) /\ ToSet(InOrder(new)) = new
<1> DEFINE new == {r \in AllRooms : rooms[r] # NoRow /\ rooms[r].hotel \in ids /\ rooms[r].active}
<1>1. new \in SUBSET AllRooms /\ new \in SUBSET Nat
  BY NumbersAssumption
<1>2. IsFiniteSet(new)
  BY <1>1, NumbersAssumption, FS_Subset
<1> HIDE DEF new
<1>3. InOrder(new) \in Seq(new) /\ ToSet(InOrder(new)) = new
  BY <1>1, <1>2, InOrderElements
<1>4. InOrder(new) \in Seq(AllRooms)
  BY <1>1, <1>3, SeqOfMore
<1>5. QED
  BY <1>3, <1>4 DEF new

\* The hotels of a query.
LEMMA AskedHotels ==
  LET asks == {h \in Hotels : hotels[h] # NoRow /\ hotels[h].named /\ HotelMatchesFilter(h)}
  IN  InOrder(asks) \in Seq(Hotels) /\ ToSet(InOrder(asks)) = asks
<1> DEFINE asks == {h \in Hotels : hotels[h] # NoRow /\ hotels[h].named /\ HotelMatchesFilter(h)}
<1>1. asks \in SUBSET Hotels /\ asks \in SUBSET Nat
  BY NumbersAssumption
<1>2. IsFiniteSet(asks)
  BY <1>1, NumbersAssumption, FS_Subset
<1> HIDE DEF asks
<1>3. InOrder(asks) \in Seq(asks) /\ ToSet(InOrder(asks)) = asks
  BY <1>1, <1>2, InOrderElements
<1>4. InOrder(asks) \in Seq(Hotels)
  BY <1>1, <1>3, SeqOfMore
<1>5. QED
  BY <1>3, <1>4 DEF asks

LEMMA SearchingStep ==
  ASSUME CatalogInv, RowsSound, SearchingSound, [Next]_vars
  PROVE  SearchingSound'
<1>1. \A h : Asked(h) => Asked(h)'
  BY AskedKept
<1>2. \A r \in AllRooms : /\ rooms[r] # NoRow => rooms'[r] = rooms[r]
                          /\ RoomAvailability(r) \in Nat
                          /\ RoomAvailability(r) > 0 =>
                               RoomAvailability(r)' = RoomAvailability(r)
  BY RoomsKept, AvailabilityIsNatural, AvailabilityKept
<1>3. \A r \in ToSet(read) : r \in AllRooms /\ rooms'[r] # NoRow /\ rooms'[r].active
  <2>1. ToSet(read) \subseteq AllRooms
    BY DEF SearchingSound, ToSet
  <2>2. QED
    BY <1>2, <2>1 DEF SearchingSound
<1>4. \A r \in DOMAIN free : /\ r \in AllRooms /\ free[r] \in Nat
                             /\ free[r] > 0 => free[r] = RoomAvailability(r)'
  BY <1>2, <1>3 DEF SearchingSound
<1>5. \A h \in ToSet(hits) : Asked(h)'
  BY <1>1 DEF SearchingSound
<1> HIDE DEF Asked, RoomAvailability
<1>6. CASE UNCHANGED searching
  BY <1>3, <1>4, <1>5, <1>6 DEF SearchingSound, searching
<1>7. CASE SearchBegin \/ NextPage
  BY <1>3, <1>4, <1>5, <1>7 DEF SearchingSound, SearchBegin, NextPage
<1>8. CASE FindHotels
  <2>1. /\ hits' = InOrder({h \in Hotels : hotels[h] # NoRow /\ hotels[h].named
                                            /\ HotelMatchesFilter(h)})
        /\ searchPc = "hotels" /\ searchPc' \in {"answer", "rooms"}
        /\ UNCHANGED <<chunk, read, free>>
    BY <1>8 DEF FindHotels
  <2>2. hits' \in Seq(Hotels) /\ \A h \in ToSet(hits') : Asked(h)
    BY <2>1, AskedHotels DEF Asked
  <2>3. QED
    BY <1>1, <1>3, <1>4, <2>1, <2>2 DEF SearchingSound
<1>9. CASE LoadRooms
  <2> DEFINE ids == ToSet(ChunkOf(hits, HotelChunk))
             new == {r \in AllRooms : rooms[r] # NoRow /\ rooms[r].hotel \in ids /\ rooms[r].active}
  <2>1. /\ read' = read \o InOrder(new) /\ UNCHANGED <<hits, free>>
        /\ \/ chunk' = 1 /\ searchPc' \in {"answer", "availability"}
           \/ chunk' = chunk + 1 /\ searchPc' = "rooms"
    BY <1>9 DEF LoadRooms
  <2>2. InOrder(new) \in Seq(AllRooms) /\ ToSet(InOrder(new)) = new
    BY ActiveRooms
  <2>3. \A r \in new : rooms'[r] # NoRow /\ rooms'[r].active
    BY <1>2
  <2> HIDE DEF new
  <2>4. read' \in Seq(AllRooms) /\ ToSet(read') = ToSet(read) \union new
    BY <2>1, <2>2, ListElements DEF SearchingSound
  <2>5. \A r \in ToSet(read') : rooms'[r] # NoRow /\ rooms'[r].active
    BY <1>3, <2>3, <2>4
  <2>6. DOMAIN free' \subseteq ToSet(read')
    BY <2>1, <2>4 DEF SearchingSound
  <2>7. chunk' \in Nat \ {0} /\ (searchPc' \notin {"rooms", "availability"} => chunk' = 1)
        /\ searchPc' \in {"rooms", "availability", "answer"}
    BY <2>1 DEF SearchingSound
  <2>8. QED
    BY <1>4, <1>5, <2>1, <2>4, <2>5, <2>6, <2>7 DEF SearchingSound
<1>10. CASE LoadAvailability
  <2> DEFINE ids == ToSet(ChunkOf(read, RoomChunk))
  <2>1. /\ free' = [r \in DOMAIN free \union ids |->
                      IF r \in ids THEN RoomAvailability(r) ELSE free[r]]
        /\ UNCHANGED <<hits, read>>
        /\ \/ chunk' = 1 /\ searchPc' = "answer"
           \/ chunk' = chunk + 1 /\ searchPc' = "availability"
    BY <1>10 DEF LoadAvailability
  <2>2. ids \subseteq ToSet(read)
    BY ChunkTaken, SizesAssumption DEF SearchingSound
  <2> HIDE DEF ids
  <2>3. DOMAIN free' \subseteq ToSet(read')
    BY <2>1, <2>2 DEF SearchingSound
  <2>4. \A r \in DOMAIN free' : free'[r] \in Nat /\ (free'[r] > 0 => free'[r] = RoomAvailability(r)')
    BY <1>2, <1>3, <1>4, <2>1, <2>2
  <2>5. chunk' \in Nat \ {0} /\ (searchPc' \notin {"rooms", "availability"} => chunk' = 1)
        /\ searchPc' \in {"rooms", "availability", "answer"}
    BY <2>1 DEF SearchingSound
  <2>6. QED
    BY <1>3, <1>5, <2>1, <2>3, <2>4, <2>5 DEF SearchingSound
<1>11. CASE AnswerSearch \/ SearchFails
  <2>1. /\ searchPc' \in {"shown", "hotels"} /\ hits' = <<>> /\ read' = <<>> /\ DOMAIN free' = {}
        /\ chunk' = 1
    BY <1>11 DEF AnswerSearch, SearchFails, SearchingSound
  <2>2. QED
    BY <2>1, ListElements DEF SearchingSound
<1>12. QED
  BY <1>6, <1>7, <1>8, <1>9, <1>10, <1>11, SearchSteps DEF SearchStep

(***************************************************************************)
(* A hotel is sure when the running search finds it even if nothing is     *)
(* inserted any more; sure hotels stay sure.  Between two searches they    *)
(* are those that match, at the answer those that are answered.            *)
(***************************************************************************)
\* The search has read the room as free, or will.
WillRead(h, r) ==
  /\ searchPc = "rooms" => r \in ToSet(read) \/ h \in Ahead(hits, HotelChunk)
  /\ searchPc = "availability" =>
       r \in Ahead(read, RoomChunk) \/ (r \in DOMAIN free /\ free[r] > 0)
  /\ searchPc = "answer" => r \in DOMAIN free /\ free[r] > 0

SureRooms(h) == {r \in FreeRooms(h) : WillRead(h, r)}

Hit(h) == searchPc \in {"rooms", "availability", "answer"} => h \in ToSet(hits)

Sure(h) ==
  /\ Asked(h)
  /\ Hit(h)
  /\ SureRooms(h) # {}
  /\ MinimumRequiredRooms(Counted(SureRooms(h)), criteria.roomCount, criteria) > 0

LEMMA WillReadKept ==
  ASSUME CatalogInv, RowsSound, SearchingSound, [Next]_vars,
         NEW h, Asked(h), Hit(h), NEW r \in FreeRooms(h), WillRead(h, r)
  PROVE  Hit(h)' /\ WillRead(h, r)'
<1>1. /\ r \in AllRooms /\ rooms[r] # NoRow /\ rooms[r].hotel = h /\ rooms[r].active
      /\ RoomAvailability(r) > 0
  BY DEF FreeRooms
<1> HIDE DEF RoomAvailability, Asked
<1>2. CASE UNCHANGED searching
  BY <1>2 DEF searching, Hit, WillRead, Ahead
<1>3. CASE SearchBegin \/ NextPage \/ AnswerSearch \/ SearchFails
  <2>1. searchPc' \in {"hotels", "shown"}
    BY <1>3 DEF SearchBegin, NextPage, AnswerSearch, SearchFails
  <2>2. QED
    BY <2>1 DEF Hit, WillRead
<1>4. CASE FindHotels
  <2>1. /\ hits' = InOrder({x \in Hotels : hotels[x] # NoRow /\ hotels[x].named
                                            /\ HotelMatchesFilter(x)})
        /\ searchPc = "hotels" /\ searchPc' = (IF hits' = <<>> THEN "answer" ELSE "rooms")
        /\ chunk' = chunk
    BY <1>4 DEF FindHotels
  <2>2. h \in ToSet(hits')
    BY <2>1, AskedHotels DEF Asked
  <2>3. hits' # <<>>
    BY <2>2, ListElements
  <2>4. searchPc' = "rooms" /\ chunk' = 1
    BY <2>1, <2>3 DEF SearchingSound
  <2>5. hits' \in Seq(Hotels)
    BY <2>1, AskedHotels
  <2>6. h \in Ahead(hits, HotelChunk)'
    <3>1. (chunk' - 1) * HotelChunk = 0
      BY <2>4, ChunkStarts, SizesAssumption
    <3>2. Ahead(hits, HotelChunk)' = AheadFrom(hits', 0)
      BY <3>1 DEF Ahead
    <3>3. QED
      BY <2>2, <2>5, <3>2 DEF AheadFrom, ToSet
  <2>7. QED
    BY <2>2, <2>4, <2>6 DEF Hit, WillRead
<1>5. CASE LoadRooms
  <2> DEFINE ids == ToSet(ChunkOf(hits, HotelChunk))
             new == {x \in AllRooms : rooms[x] # NoRow /\ rooms[x].hotel \in ids /\ rooms[x].active}
  <2>1. /\ searchPc = "rooms" /\ read' = read \o InOrder(new) /\ hits' = hits
        /\ IF LastChunk(hits, HotelChunk)
           THEN /\ chunk' = 1
                /\ searchPc' = IF read' = <<>> THEN "answer" ELSE "availability"
           ELSE chunk' = chunk + 1 /\ searchPc' = searchPc
    BY <1>5 DEF LoadRooms
  <2>2. InOrder(new) \in Seq(AllRooms) /\ ToSet(InOrder(new)) = new
    BY ActiveRooms
  <2> HIDE DEF new, ids
  <2>3. read' \in Seq(AllRooms) /\ ToSet(read') = ToSet(read) \union new
    BY <2>1, <2>2, ListElements DEF SearchingSound
  <2>4. h \in ToSet(hits')
    BY <2>1 DEF Hit
  <2>5. \/ r \in ToSet(read')
        \/ ~LastChunk(hits, HotelChunk) /\ h \in AheadFrom(hits, chunk * HotelChunk)
    <3>1. CASE r \in ToSet(read)
      BY <2>3, <3>1
    <3>2. CASE h \in ids
      BY <1>1, <2>3, <3>2 DEF new
    <3>3. CASE h \in Ahead(hits, HotelChunk) /\ h \notin ids
      BY <3>3, ChunkTaken, SizesAssumption DEF SearchingSound, ids
    <3>4. QED
      BY <2>1, <3>1, <3>2, <3>3 DEF WillRead
  <2>6. CASE LastChunk(hits, HotelChunk)
    <3>1. r \in ToSet(read') /\ chunk' = 1
      BY <2>1, <2>5, <2>6
    <3>2. searchPc' = "availability"
      BY <2>1, <2>6, <3>1, ListElements
    <3>3. r \in Ahead(read, RoomChunk)'
      <4>1. (chunk' - 1) * RoomChunk = 0
        BY <3>1, ChunkStarts, SizesAssumption
      <4>2. Ahead(read, RoomChunk)' = AheadFrom(read', 0)
        BY <4>1 DEF Ahead
      <4>3. QED
        BY <2>3, <3>1, <4>2 DEF AheadFrom, ToSet
    <3>4. QED
      BY <2>4, <3>2, <3>3 DEF Hit, WillRead
  <2>7. CASE ~LastChunk(hits, HotelChunk)
    <3>1. searchPc' = "rooms" /\ chunk' - 1 = chunk
      BY <2>1, <2>7 DEF SearchingSound
    <3>2. Ahead(hits, HotelChunk)' = AheadFrom(hits, chunk * HotelChunk)
      <4>1. Ahead(hits, HotelChunk)' = AheadFrom(hits', (chunk' - 1) * HotelChunk)
        BY DEF Ahead
      <4>2. hits' = hits
        BY <2>1
      <4>3. QED
        BY <3>1, <4>1, <4>2, Zenon
    <3>3. QED
      BY <2>4, <2>5, <3>1, <3>2 DEF Hit, WillRead
  <2>8. QED
    BY <2>6, <2>7
<1>6. CASE LoadAvailability
  <2> DEFINE ids == ToSet(ChunkOf(read, RoomChunk))
  <2>1. /\ searchPc = "availability" /\ hits' = hits /\ read' = read
        /\ free' = [x \in DOMAIN free \union ids |->
                      IF x \in ids THEN RoomAvailability(x) ELSE free[x]]
        /\ IF LastChunk(read, RoomChunk)
           THEN chunk' = 1 /\ searchPc' = "answer"
           ELSE chunk' = chunk + 1 /\ searchPc' = searchPc
    BY <1>6 DEF LoadAvailability
  <2>2. h \in ToSet(hits')
    BY <2>1 DEF Hit
  <2>3. \/ r \in DOMAIN free' /\ free'[r] > 0
        \/ ~LastChunk(read, RoomChunk) /\ r \in AheadFrom(read, chunk * RoomChunk)
    <3>1. CASE r \in ids
      BY <1>1, <2>1, <3>1
    <3>2. CASE r \notin ids /\ r \in DOMAIN free /\ free[r] > 0
      BY <2>1, <3>2
    <3>3. CASE r \notin ids /\ r \in Ahead(read, RoomChunk)
      BY <3>3, ChunkTaken, SizesAssumption DEF SearchingSound
    <3>4. QED
      BY <2>1, <3>1, <3>2, <3>3 DEF WillRead
  <2> HIDE DEF ids
  <2>4. CASE LastChunk(read, RoomChunk)
    BY <2>1, <2>2, <2>3, <2>4 DEF Hit, WillRead
  <2>5. CASE ~LastChunk(read, RoomChunk)
    <3>1. searchPc' = "availability" /\ chunk' - 1 = chunk
      BY <2>1, <2>5 DEF SearchingSound
    <3>2. Ahead(read, RoomChunk)' = AheadFrom(read, chunk * RoomChunk)
      <4>1. Ahead(read, RoomChunk)' = AheadFrom(read', (chunk' - 1) * RoomChunk)
        BY DEF Ahead
      <4>2. read' = read
        BY <2>1
      <4>3. QED
        BY <3>1, <4>1, <4>2, Zenon
    <3>3. QED
      BY <2>2, <2>3, <3>1, <3>2 DEF Hit, WillRead
  <2>6. QED
    BY <2>4, <2>5
<1>7. QED
  BY <1>2, <1>3, <1>4, <1>5, <1>6, SearchSteps DEF SearchStep

LEMMA SureCountedOKNext ==
  ASSUME NEW h
  PROVE  RowsSound' => CandidatesOK(Counted(SureRooms(h)))'
<1>1. RowsSound => CandidatesOK(Counted(SureRooms(h)))
  BY CountedOK DEF SureRooms
<1>2. QED
  BY <1>1, PTL

LEMMA SureKept ==
  ASSUME CatalogInv, RowsSound, SearchingSound, [Next]_vars, NEW h, Sure(h)
  PROVE  Sure(h)'
<1> DEFINE R     == SureRooms(h)
           fewer == Counted(R)
<1>1. PICK later : later = Counted(SureRooms(h))'
  OBVIOUS
<1>2. Asked(h) /\ Hit(h) /\ Asked(h)'
  BY AskedKept DEF Sure
<1>3. ASSUME NEW r \in R
      PROVE  r \in FreeRooms(h) /\ r \in SureRooms(h)' /\ Hit(h)'
  <2>1. r \in FreeRooms(h) /\ WillRead(h, r)
    BY DEF SureRooms
  <2>2. Hit(h)' /\ WillRead(h, r)' /\ r \in FreeRooms(h)'
    BY <1>2, <2>1, WillReadKept, FreeRoomsKept
  <2>3. QED
    BY <2>1, <2>2 DEF SureRooms
<1>4. CandidatesOK(fewer)
  BY <1>3, CountedOK DEF SureRooms
<1>5. CandidatesOK(later)
  BY <1>1, RowsStep, SureCountedOKNext
<1>6. R # {}
  BY DEF Sure
<1> HIDE DEF R
<1>7. More(later, fewer)
  <2>1. DOMAIN later = SureRooms(h)'
    BY <1>1 DEF Counted
  <2>2. \A r \in SureRooms(h)' : later[r] = Candidate(r, RoomAvailability(r))'
    BY <1>1 DEF Counted
  <2>3. R \subseteq SureRooms(h)' /\ R \subseteq FreeRooms(h)
    BY <1>3
  <2>4. QED
    BY <2>1, <2>2, <2>3, CountedGrows
<1>8. MinimumRequiredRooms(fewer, criteria.roomCount, criteria) > 0
  BY DEF Sure, R
<1>9. MinimumRequiredRooms(later, criteria.roomCount, criteria)
        \in 1..MinimumRequiredRooms(fewer, criteria.roomCount, criteria)
  <2> HIDE DEF fewer
  <2>1. QED
    BY <1>4, <1>5, <1>7, <1>8, PartiesOK, MinimumOfMore
<1>10. MinimumRequiredRooms(later, criteria.roomCount, criteria) > 0
  BY <1>9
<1>11. criteria' = criteria
  BY RowSteps
<1>12. Hit(h)' /\ SureRooms(h)' # {}
  BY <1>3, <1>6
<1> HIDE DEF fewer
<1>13. QED
  BY <1>1, <1>2, <1>10, <1>11, <1>12 DEF Sure

\* Between two searches, the sure hotels are those that match.
LEMMA SureMatches ==
  ASSUME searchPc \in {"ready", "hotels", "shown"}, NEW h \in Hotels
  PROVE  Sure(h) <=> Matches(h)
<1>1. SureRooms(h) = FreeRooms(h)
  BY DEF SureRooms, WillRead
<1>2. Hit(h)
  BY DEF Hit
<1>3. Required(h) = MinimumRequiredRooms(Counted(FreeRooms(h)), criteria.roomCount, criteria)
  BY RequiredIsCounted
<1>4. QED
  BY <1>1, <1>2, <1>3 DEF Sure, Matches, Asked

\* When the search answers, they are those it finds available.
LEMMA SureAnswers ==
  ASSUME RowsSound, SearchingSound, searchPc = "answer", NEW h
  PROVE  Sure(h) <=> h \in ToSet(hits) /\ Available(h)
<1>1. ASSUME NEW r
      PROVE  r \in SureRooms(h) <=> /\ r \in DOMAIN free /\ rooms[r].hotel = h
                                    /\ free[r] > 0 /\ HasAllAmenities(r)
  <2>1. ToSet(read) \subseteq AllRooms
    BY DEF SearchingSound, ToSet
  <2>2. r \in DOMAIN free /\ free[r] > 0 =>
          r \in AllRooms /\ rooms[r] # NoRow /\ rooms[r].active /\ RoomAvailability(r) > 0
    BY <2>1 DEF SearchingSound
  <2> HIDE DEF HasAllAmenities, RoomAvailability
  <2>3. QED
    BY <2>2 DEF SureRooms, FreeRooms, WillRead
<1>2. CandidatesOf(h) = Counted(SureRooms(h))
  <2> DEFINE C == {x \in DOMAIN free : rooms[x].hotel = h /\ free[x] > 0 /\ HasAllAmenities(x)}
  <2>1. C = SureRooms(h)
    BY <1>1
  <2>2. \A r \in C : free[r] = RoomAvailability(r)
    BY DEF SearchingSound
  <2>3. CandidatesOf(h) = [r \in C |-> Candidate(r, free[r])]
    BY DEF CandidatesOf
  <2> HIDE DEF C
  <2>4. \A r \in C : Candidate(r, free[r]) = Candidate(r, RoomAvailability(r))
    BY <2>2
  <2> HIDE DEF Candidate, RoomAvailability
  <2>5. QED
    BY <2>1, <2>3, <2>4 DEF Counted
<1>3. DOMAIN CandidatesOf(h) = SureRooms(h)
  BY <1>2 DEF Counted
<1>4. Available(h) <=>
        /\ HotelMatchesFilter(h) /\ SureRooms(h) # {}
        /\ MinimumRequiredRooms(Counted(SureRooms(h)), criteria.roomCount, criteria) > 0
  <2> HIDE DEF HotelMatchesFilter
  <2>1. Available(h) <=> /\ HotelMatchesFilter(h) /\ DOMAIN CandidatesOf(h) # {}
                         /\ MinimumRequiredRooms(CandidatesOf(h), criteria.roomCount, criteria) > 0
    BY DEF Available, RequiredRooms
  <2>2. QED
    BY <1>2, <1>3, <2>1
<1>5. h \in ToSet(hits) => Asked(h)
  BY DEF SearchingSound
<1>6. Hit(h) <=> h \in ToSet(hits)
  BY DEF Hit
<1>7. Asked(h) => HotelMatchesFilter(h)
  BY DEF Asked
<1>8. QED
  BY <1>4, <1>5, <1>6, <1>7 DEF Sure

(***************************************************************************)
(* The pages.                                                              *)
(***************************************************************************)
LEMMA SizeIsPositive ==
  ASSUME NEW q, q.size \in PageSizes
  PROVE  EffectivePageSize(q) \in Nat \ {0}
BY SizesAssumption DEF EffectivePageSize

\* So many pages before this one, of as many hotels.
LEMMA Multiples ==
  ASSUME NEW m \in Nat, NEW n \in Nat, NEW size \in Nat \ {0}
  PROVE  /\ n * size \in Nat
         /\ (n + 1) * size = n * size + size
         /\ m < n => m * size + size <= n * size
         /\ (n * size) \div size = n
         /\ \A k \in Nat : k >= n * size => k \div size >= n /\ k \div size \in Nat
         /\ \A k \in Nat : k \div size \in Nat
<1>1. n * size \in Nat /\ m * size \in Nat /\ (n + 1) * size = n * size + size
  OBVIOUS
<1>2. ASSUME m < n
      PROVE  m * size + size <= n * size
  <2>1. n - m \in Nat /\ n - m >= 1
    BY <1>2
  <2>2. (n - m) * size >= size
    BY <2>1
  <2>3. (n - m) * size = n * size - m * size
    OBVIOUS
  <2>4. QED
    BY <1>1, <2>2, <2>3
<1>3. ASSUME NEW k \in Nat
      PROVE  /\ k \div size \in Nat
             /\ k >= n * size => k \div size >= n
             /\ k = n * size => k \div size = n
  <2> DEFINE d == k \div size
  <2>1. d \in Nat /\ d * size <= k /\ k < (d + 1) * size
    BY DivFacts
  <2> HIDE DEF d
  <2>2. ASSUME k >= n * size, d < n
        PROVE  FALSE
    <3>1. n - (d + 1) \in Nat
      BY <2>1, <2>2
    <3>2. (n - (d + 1)) * size >= 0
      BY <3>1
    <3>3. (n - (d + 1)) * size = n * size - (d + 1) * size
      BY <2>1
    <3>4. (d + 1) * size \in Nat
      BY <2>1
    <3>5. QED
      BY <1>1, <2>1, <2>2, <3>2, <3>3, <3>4
  <2>3. ASSUME k = n * size, d > n
        PROVE  FALSE
    <3>1. d - n \in Nat /\ d - n >= 1
      BY <2>1, <2>3
    <3>2. (d - n) * size >= size
      BY <3>1
    <3>3. (d - n) * size = d * size - n * size
      BY <2>1
    <3>4. d * size \in Nat
      BY <2>1
    <3>5. QED
      BY <1>1, <2>1, <2>3, <3>2, <3>3, <3>4
  <2>4. QED
    BY <2>1, <2>2, <2>3 DEF d
<1>4. QED
  BY <1>1, <1>2, <1>3

PageType == [hotels : Seq(Hotels), page : Nat, total : Nat, totalPages : Nat]

\* A page after n pages of that size.
LEMMA SliceFacts ==
  ASSUME NEW q, q.size \in PageSizes, NEW n \in Nat,
         EffectiveOffset(q) = n * EffectivePageSize(q), NEW results \in Seq(Hotels)
  PROVE  LET size == EffectivePageSize(q)
             page == Slice(results, q)
         IN  /\ page \in PageType
             /\ page.total = Len(results) /\ Len(page.hotels) <= size
             /\ \A i \in DOMAIN page.hotels :
                  n * size + i \in DOMAIN results /\ page.hotels[i] = results[n * size + i]
             /\ \A k \in DOMAIN results :
                  n * size < k /\ k <= n * size + size => results[k] \in ToSet(page.hotels)
             /\ Len(results) > n * size + size => page.page = n + 1 /\ page.totalPages > n + 1
<1> DEFINE size  == EffectivePageSize(q)
           off   == n * size
           len   == Len(results)
           start == Min({off, len})
           end   == Min({start + size, len})
           piece == SubSeq(results, start + 1, end)
           page  == Slice(results, q)
<1>1. size \in Nat \ {0}
  BY SizeIsPositive
<1>2. page = [hotels |-> piece, page |-> start \div size + 1, total |-> len,
              totalPages |-> (len + size - 1) \div size]
  BY DEF Slice
<1> HIDE DEF size, page
<1>3. off \in Nat /\ len \in Nat
  BY <1>1
<1> HIDE DEF off
<1>4. start \in {off, len} /\ start <= off /\ start <= len /\ start \in Nat
  <2> DEFINE A == {off, len}
  <2>1. A \subseteq Nat /\ A # {}
    BY <1>3
  <2> HIDE DEF A
  <2>2. Min(A) \in A /\ \A m \in A : Min(A) <= m
    BY <2>1, MinOfNaturals
  <2>3. QED
    BY <1>3, <2>2 DEF A
<1> HIDE DEF start
<1>5. end \in {start + size, len} /\ end <= start + size /\ end <= len /\ end \in Nat
  <2> DEFINE A == {start + size, len}
  <2>1. A \subseteq Nat /\ A # {}
    BY <1>1, <1>3, <1>4
  <2> HIDE DEF A
  <2>2. Min(A) \in A /\ \A m \in A : Min(A) <= m
    BY <2>1, MinOfNaturals
  <2>3. QED
    BY <1>1, <1>3, <1>4, <2>2 DEF A
<1> HIDE DEF end
<1>6. /\ piece \in Seq(Hotels) /\ Len(piece) = end - start
      /\ \A i \in 1..(end - start) : i + start \in DOMAIN results /\ piece[i] = results[start + i]
  <2>1. end >= start
    BY <1>1, <1>3, <1>4, <1>5
  <2>2. \A i \in (start + 1)..end : i \in 1..len /\ results[i] \in Hotels
    BY <1>3, <1>4, <1>5
  <2>3. piece \in Seq(Hotels)
    BY <1>4, <1>5, <2>2
  <2>4. Len(piece) = end - start /\ DOMAIN piece = 1..(end - start)
    BY <1>4, <1>5, <2>1
  <2>5. ASSUME NEW i \in 1..(end - start)
        PROVE  i + start \in DOMAIN results /\ piece[i] = results[start + i]
    <3>1. i + start \in 1..len /\ i + start = start + i
      BY <1>3, <1>4, <1>5
    <3>2. piece[i] = results[start + 1 + i - 1]
      BY <1>4, <1>5
    <3>3. start + 1 + i - 1 = start + i
      BY <1>4
    <3>4. DOMAIN results = 1..len
      OBVIOUS
    <3> HIDE DEF piece, len
    <3>5. QED
      BY <3>1, <3>2, <3>3, <3>4
  <2>6. QED
    BY <2>3, <2>4, <2>5
<1> HIDE DEF piece
<1>7. start \div size \in Nat /\ (len + size - 1) \div size \in Nat
  <2>1. len + size - 1 \in Nat
    BY <1>1, <1>3
  <2> HIDE DEF len
  <2>2. QED
    BY <1>1, <1>4, <2>1, Multiples
<1>8. page \in PageType
  <2> DEFINE a == start \div size + 1
             b == (len + size - 1) \div size
  <2>1. a \in Nat /\ b \in Nat
    BY <1>7
  <2>2. page = [hotels |-> piece, page |-> a, total |-> len, totalPages |-> b]
    BY <1>2
  <2> HIDE DEF a, b, len
  <2>3. QED
    BY <1>3, <1>6, <2>1, <2>2 DEF PageType
<1>9. /\ page.hotels = piece /\ page.page = start \div size + 1 /\ page.total = len
      /\ page.totalPages = (len + size - 1) \div size
  BY <1>2
<1>10. Len(piece) <= size
  BY <1>1, <1>4, <1>5, <1>6
<1>11. ASSUME NEW i \in DOMAIN piece
       PROVE  off + i \in DOMAIN results /\ piece[i] = results[off + i]
  <2>1. i \in 1..(end - start)
    BY <1>6
  <2>2. start = off
    BY <1>3, <1>4, <1>5, <2>1
  <2>3. QED
    BY <1>3, <1>6, <2>1, <2>2
<1>12. ASSUME NEW k \in DOMAIN results, off < k, k <= off + size
       PROVE  results[k] \in ToSet(piece)
  <2>1. k \in 1..len /\ start = off
    BY <1>3, <1>4, <1>12
  <2>2. k - off \in 1..(end - start)
    BY <1>1, <1>3, <1>4, <1>5, <1>12, <2>1
  <2>3. piece[k - off] = results[k]
    BY <1>3, <1>6, <2>1, <2>2
  <2>4. k - off \in DOMAIN piece
    BY <1>6, <2>2
  <2>5. QED
    BY <2>3, <2>4 DEF ToSet
<1>13. ASSUME len > off + size
       PROVE  start \div size + 1 = n + 1 /\ (len + size - 1) \div size > n + 1
  <2>1. start = n * size
    BY <1>1, <1>3, <1>4, <1>13 DEF off
  <2>2. start \div size = n
    BY <1>1, <2>1, Multiples
  <2>3. (n + 1 + 1) * size = n * size + size + size
    <3>1. (n + 1) * size = n * size + size
      BY <1>1, Multiples
    <3>2. (n + 1 + 1) * size = (n + 1) * size + size
      BY <1>1
    <3>3. QED
      BY <3>1, <3>2
  <2>4. len + size - 1 \in Nat /\ len + size - 1 >= (n + 1 + 1) * size
    BY <1>1, <1>3, <1>13, <2>3 DEF off
  <2>5. (len + size - 1) \div size >= n + 1 + 1 /\ (len + size - 1) \div size \in Nat
    <3> HIDE DEF len
    <3>1. QED
      BY <1>1, <2>4, Multiples
  <2>6. QED
    BY <2>2, <2>5
<1>14. QED
  BY <1>8, <1>9, <1>10, <1>11, <1>12, <1>13 DEF size, off, page

\* What is gained by all is at least what is gained by some.
LEMMA Gains ==
  ASSUME NEW H, IsFiniteSet(H), NEW S, NEW T, S \subseteq T, T \subseteq H,
         NEW B, NEW C, B \subseteq C, C \subseteq T, C \ B \subseteq T \ S
  PROVE  /\ Cardinality(S) \in Nat /\ Cardinality(T) \in Nat
         /\ Cardinality(B) \in Nat /\ Cardinality(C) \in Nat
         /\ Cardinality(B) <= Cardinality(C)
         /\ Cardinality(C) - Cardinality(B) <= Cardinality(T) - Cardinality(S)
<1>1. IsFiniteSet(T)
  BY FS_Subset
<1>2. IsFiniteSet(S) /\ IsFiniteSet(C)
  BY <1>1, FS_Subset
<1>3. IsFiniteSet(B) /\ Cardinality(B) <= Cardinality(C)
  BY <1>2, FS_Subset
<1>4. IsFiniteSet(T \ S) /\ IsFiniteSet(C \ B) /\ Cardinality(C \ B) <= Cardinality(T \ S)
  <2>1. (T \ S) \in SUBSET T
    OBVIOUS
  <2>2. IsFiniteSet(T \ S)
    BY <1>1, <2>1, FS_Subset
  <2>3. QED
    BY <2>2, FS_Subset
<1>5. \A X : IsFiniteSet(X) => Cardinality(X) \in Nat
  BY FS_CardinalityType
<1>6. Cardinality(T) = Cardinality(S) + Cardinality(T \ S)
  <2>1. S \intersect (T \ S) = {} /\ S \union (T \ S) = T
    OBVIOUS
  <2>2. QED
    BY <1>2, <1>4, <2>1, DisjointUnion
<1>7. Cardinality(C) = Cardinality(B) + Cardinality(C \ B)
  <2>1. B \intersect (C \ B) = {} /\ B \union (C \ B) = C
    OBVIOUS
  <2>2. QED
    BY <1>3, <1>4, <2>1, DisjointUnion
<1>8. QED
  BY <1>1, <1>2, <1>3, <1>4, <1>5, <1>6, <1>7

SureHotels == {h \in Hotels : Sure(h)}
Before(x) == {y \in SureHotels : y < x}

LEMMA SureGains ==
  ASSUME CatalogInv, RowsSound, SearchingSound, [Next]_vars, NEW x
  PROVE  /\ Cardinality(SureHotels) \in Nat /\ Cardinality(SureHotels)' \in Nat
         /\ Cardinality(Before(x)) \in Nat /\ Cardinality(Before(x))' \in Nat
         /\ Cardinality(Before(x)) <= Cardinality(Before(x))'
         /\ Cardinality(Before(x))' - Cardinality(Before(x))
              <= Cardinality(SureHotels)' - Cardinality(SureHotels)
<1>1. \A h \in Hotels : Sure(h) => Sure(h)'
  BY SureKept
<1> DEFINE S == SureHotels
           B == Before(x)
<1>2. PICK T : T = SureHotels'
  OBVIOUS
<1>3. PICK C : C = Before(x)'
  OBVIOUS
<1>4. S \subseteq T /\ T \subseteq Hotels
  BY <1>1, <1>2 DEF SureHotels
<1>5. C = {y \in T : y < x} /\ B = {y \in S : y < x}
  BY <1>2, <1>3 DEF Before
<1> HIDE DEF S, B
<1>6. B \subseteq C /\ C \subseteq T /\ C \ B \subseteq T \ S
  BY <1>4, <1>5
<1>7. IsFiniteSet(Hotels)
  BY NumbersAssumption
<1>8. /\ Cardinality(S) \in Nat /\ Cardinality(T) \in Nat
      /\ Cardinality(B) \in Nat /\ Cardinality(C) \in Nat
      /\ Cardinality(B) <= Cardinality(C)
      /\ Cardinality(C) - Cardinality(B) <= Cardinality(T) - Cardinality(S)
  BY <1>4, <1>6, <1>7, Gains
<1>9. Cardinality(SureHotels)' = Cardinality(T) /\ Cardinality(Before(x))' = Cardinality(C)
  BY <1>2, <1>3
<1>10. QED
  BY <1>8, <1>9 DEF S, B

\* What is answered: the sure hotels in order, each after as many as are before it.
LEMMA ResultsInOrder ==
  ASSUME RowsSound, SearchingSound, searchPc = "answer"
  PROVE  LET results == InOrder({h \in ToSet(hits) : Available(h)})
         IN  /\ results \in Seq(Hotels) /\ Len(results) = Cardinality(SureHotels)
             /\ \A x \in SureHotels : \E k \in DOMAIN results : results[k] = x
             /\ \A k \in DOMAIN results :
                  results[k] \in SureHotels /\ Cardinality(Before(results[k])) = k - 1
<1> DEFINE S == {h \in ToSet(hits) : Available(h)}
           s == InOrder(S)
<1>1. S = SureHotels
  <2>1. ToSet(hits) \subseteq Hotels
    BY DEF SearchingSound, ToSet
  <2>2. \A h : Sure(h) <=> h \in ToSet(hits) /\ Available(h)
    BY SureAnswers
  <2>3. QED
    BY <2>1, <2>2 DEF SureHotels
<1> HIDE DEF S
<1>2. S \in SUBSET Hotels /\ S \in SUBSET Nat
  BY <1>1, NumbersAssumption DEF SureHotels
<1>3. IsFiniteSet(S)
  BY <1>2, NumbersAssumption, FS_Subset
<1> DEFINE n == Cardinality(S)
<1>4. /\ n \in Nat /\ s \in Seq(S) /\ Len(s) = n /\ ToSet(s) = S
      /\ \A k \in 1..n : Cardinality({y \in S : y < s[k]}) = k - 1
  BY <1>2, <1>3, InOrderElements
<1> HIDE DEF s, n
<1>5. s \in Seq(Hotels)
  BY <1>2, <1>4, SeqOfMore
<1>6. DOMAIN s = 1..n
  BY <1>4
<1>7. \A x \in S : \E k \in DOMAIN s : s[k] = x
  BY <1>4 DEF ToSet
<1>8. \A k \in DOMAIN s : s[k] \in S
  BY <1>4 DEF ToSet
<1>9. \A x : Before(x) = {y \in S : y < x}
  BY <1>1 DEF Before
<1>10. \A k \in DOMAIN s : Cardinality(Before(s[k])) = k - 1
  BY <1>4, <1>6, <1>9
<1>11. Len(s) = Cardinality(SureHotels)
  BY <1>1, <1>4 DEF n
<1>12. QED
  BY <1>1, <1>5, <1>7, <1>8, <1>10, <1>11 DEF S, s

Size == EffectivePageSize(request)

\* A guest pages on from where he is.
PagingSound ==
  /\ pages \in Seq(PageType)
  /\ searchPc # "ready" => request.size \in PageSizes
  /\ searchPc \in {"hotels", "rooms", "availability", "answer"} =>
       EffectiveOffset(request) = Len(pages) * Size
  /\ searchPc = "ready" => pages = <<>> /\ DOMAIN due = {}
  /\ searchPc = "shown" => Len(pages) > 0

\* What the guest is told, or is due, is sure.
ToldIsSure ==
  /\ \A h \in DOMAIN due : Sure(h)
  /\ \A p \in DOMAIN pages : \A h \in ToSet(pages[p].hotels) : Sure(h)

\* A hotel that is due and not shown yet comes after all that is on pages so far, and
\* there is a further page.
Unseen(h) == \A p \in DOMAIN pages : h \notin ToSet(pages[p].hotels)
UnseenIsAhead ==
  \A h \in DOMAIN due : Unseen(h) =>
    /\ Cardinality(Before(h)) >= Len(pages) * Size
    /\ searchPc = "shown" => LatestPage.page < LatestPage.totalPages

\* Since a page was answered, a hotel on it has moved back no further than there are
\* more hotels.
MovedBack(p, i) == Cardinality(Before(pages[p].hotels[i])) + 1 - ((p - 1) * Size + i)
MovesExplained ==
  \A p \in DOMAIN pages :
    /\ Len(pages[p].hotels) <= Size
    /\ \A i \in DOMAIN pages[p].hotels :
         MovedBack(p, i) <= Cardinality(SureHotels) - pages[p].total

PagingInv ==
  PagingSound /\ ToldIsSure /\ UnseenIsAhead /\ MovesExplained /\ RepeatsExplained

SearchInv == CatalogInv /\ RowsSound /\ DueSound /\ SearchingSound /\ PagingInv

LEMMA PagingInit == Init => PagingInv
<1> SUFFICES ASSUME Init
             PROVE  PagingInv
  OBVIOUS
<1>1. searchPc = "ready" /\ pages = <<>> /\ DOMAIN due = {}
  BY DEF Init
<1>2. DOMAIN pages = {} /\ pages \in Seq(PageType)
  BY <1>1
<1>3. QED
  BY <1>1, <1>2
     DEF PagingInv, PagingSound, ToldIsSure, UnseenIsAhead, MovesExplained, RepeatsExplained

\* The next page, by number or by offset.
LEMMA FollowingPages ==
  ASSUME Len(pages) \in Nat, NEW size \in PageSizes, NEW q \in Following(size)
  PROVE  q.size = size /\ EffectiveOffset(q) = Len(pages) * EffectivePageSize(q)
<1> DEFINE n == Len(pages)
           s == EffectivePageSize(q)
<1>1. \/ q = [page |-> n + 1, size |-> size, offset |-> 0]
      \/ q = [page |-> 0, size |-> size, offset |-> n * EffectivePageSize([size |-> size])]
  BY DEF Following
<1>2. q.size = size
  BY <1>1
<1>3. s = EffectivePageSize([size |-> size])
  BY <1>2 DEF EffectivePageSize
<1>4. s \in Nat \ {0}
  BY <1>2, SizeIsPositive
<1>5. n * s \in Nat
  BY <1>4
<1>6. EffectiveOffset(q) = IF q.offset > 0 THEN q.offset ELSE (EffectivePage(q) - 1) * s
  BY DEF EffectiveOffset
<1> HIDE DEF s, n
<1>7. CASE q = [page |-> n + 1, size |-> size, offset |-> 0]
  <2>1. n \in Nat
    BY DEF n
  <2>2. q.offset = 0 /\ q.page = n + 1
    BY <1>7
  <2>3. EffectivePage(q) = n + 1
    BY <2>1, <2>2 DEF EffectivePage
  <2>4. EffectivePage(q) - 1 = n
    BY <2>1, <2>3
  <2>5. QED
    BY <1>2, <1>6, <2>2, <2>4 DEF s, n
<1>8. CASE q = [page |-> 0, size |-> size, offset |-> n * EffectivePageSize([size |-> size])]
  <2>1. q.offset = n * s /\ q.page = 0
    BY <1>3, <1>8
  <2>2. EffectivePage(q) - 1 = 0
    BY <2>1 DEF EffectivePage
  <2>3. 0 * s = 0
    BY <1>4
  <2>4. CASE n * s = 0
    BY <1>2, <1>6, <2>1, <2>2, <2>3, <2>4 DEF s, n
  <2>5. CASE n * s > 0
    BY <1>2, <1>6, <2>1, <2>5 DEF s, n
  <2>6. QED
    BY <1>5, <2>4, <2>5
<1>9. QED
  BY <1>1, <1>7, <1>8 DEF n

\* The steps that neither answer nor begin: the guest has the pages that he had.
LEMMA PagesStay ==
  ASSUME [Next]_vars, PagingSound, searchPc # "ready" \/ UNCHANGED searching, ~AnswerSearch
  PROVE  /\ pages' = pages /\ due' = due /\ PagingSound'
         /\ searchPc # "ready" => Size' = Size
         /\ searchPc' = "ready" => searchPc = "ready"
         /\ searchPc' = "shown" => searchPc = "shown"
<1>1. CASE UNCHANGED searching
  BY <1>1 DEF searching, PagingSound, Size, EffectivePageSize, EffectiveOffset, EffectivePage
<1>2. CASE NextPage
  <2>1. /\ request' \in Following(request.size) /\ UNCHANGED <<pages, due>>
        /\ searchPc = "shown" /\ searchPc' = "hotels"
    BY <1>2 DEF NextPage
  <2>2. Len(pages) \in Nat /\ request.size \in PageSizes
    BY <2>1 DEF PagingSound
  <2>3. /\ request'.size = request.size
        /\ EffectiveOffset(request') = Len(pages) * EffectivePageSize(request')
    BY <2>1, <2>2, FollowingPages
  <2>4. Size' = EffectivePageSize(request')
    BY DEF Size, EffectivePageSize
  <2>5. EffectiveOffset(request)' = EffectiveOffset(request')
    BY DEF EffectiveOffset, EffectivePage, EffectivePageSize
  <2>6. Size' = Size
    BY <2>3, <2>4 DEF Size, EffectivePageSize
  <2> HIDE DEF Size, EffectiveOffset
  <2>7. QED
    BY <2>1, <2>2, <2>3, <2>4, <2>5, <2>6 DEF PagingSound
<1>3. CASE FindHotels \/ LoadRooms \/ LoadAvailability \/ SearchFails
  <2>1. /\ UNCHANGED <<request, pages, due>>
        /\ searchPc \in {"hotels", "rooms", "availability"}
        /\ searchPc' \in {"hotels", "rooms", "availability", "answer"}
    BY <1>3 DEF FindHotels, LoadRooms, LoadAvailability, SearchFails
  <2>2. Size' = Size /\ EffectiveOffset(request)' = EffectiveOffset(request)
    BY <2>1 DEF Size, EffectivePageSize, EffectiveOffset, EffectivePage
  <2> HIDE DEF Size, EffectiveOffset
  <2>3. QED
    BY <2>1, <2>2 DEF PagingSound
<1>4. QED
  BY <1>1, <1>2, <1>3, SearchSteps DEF SearchStep, SearchBegin

LEMMA PageCounts ==
  ASSUME PagingSound, NEW p \in DOMAIN pages
  PROVE  /\ Len(pages) \in Nat /\ p \in 1..Len(pages) /\ pages[p] \in PageType
         /\ pages[p].total \in Nat /\ pages[p].hotels \in Seq(Hotels)
         /\ searchPc # "ready" /\ Size \in Nat \ {0}
<1>1. Len(pages) \in Nat /\ p \in 1..Len(pages) /\ pages[p] \in PageType
  BY DEF PagingSound
<1>2. pages[p].total \in Nat /\ pages[p].hotels \in Seq(Hotels)
  BY <1>1 DEF PageType
<1>3. pages # <<>>
  BY <1>1
<1>4. searchPc # "ready"
  BY <1>3 DEF PagingSound
<1>5. Size \in Nat \ {0}
  BY <1>4, SizeIsPositive DEF PagingSound, Size
<1>6. QED
  BY <1>1, <1>2, <1>4, <1>5

\* What is known of a page stays true while no page is answered.
LEMMA MovesStay ==
  ASSUME CatalogInv, RowsSound, SearchingSound, PagingSound, MovesExplained, [Next]_vars,
         NEW p \in DOMAIN pages, Size' = Size, NEW now, now[p] = pages[p], pages' = now
  PROVE  /\ Len(pages'[p].hotels) <= Size'
         /\ \A i \in DOMAIN pages'[p].hotels :
              MovedBack(p, i)' <= Cardinality(SureHotels)' - pages'[p].total
<1>1. /\ Len(pages) \in Nat /\ p \in 1..Len(pages)
      /\ pages[p].total \in Nat /\ pages[p].hotels \in Seq(Hotels) /\ Size \in Nat \ {0}
  BY PageCounts
<1>2. pages'[p] = pages[p]
  OBVIOUS
<1>3. Len(pages[p].hotels) <= Size
  BY DEF MovesExplained
<1>4. ASSUME NEW i \in DOMAIN pages[p].hotels
      PROVE  MovedBack(p, i)' <= Cardinality(SureHotels)' - pages'[p].total
  <2> PICK x : x = pages[p].hotels[i]
    OBVIOUS
  <2> DEFINE at == (p - 1) * Size + i
  <2>1. at \in Nat
    <3>1. p - 1 \in Nat /\ i \in Nat
      BY <1>1
    <3>2. (p - 1) * Size \in Nat
      BY <1>1, <3>1
    <3>3. QED
      BY <3>1, <3>2
  <2>2. MovedBack(p, i) = Cardinality(Before(x)) + 1 - at
    BY DEF MovedBack
  <2>3. MovedBack(p, i)' = Cardinality(Before(x))' + 1 - at
    BY <1>2 DEF MovedBack, Before
  <2>4. MovedBack(p, i) <= Cardinality(SureHotels) - pages[p].total
    BY DEF MovesExplained
  <2> HIDE DEF at
  <2>5. /\ Cardinality(SureHotels) \in Nat /\ Cardinality(SureHotels)' \in Nat
        /\ Cardinality(Before(x)) \in Nat /\ Cardinality(Before(x))' \in Nat
        /\ Cardinality(Before(x))' - Cardinality(Before(x))
             <= Cardinality(SureHotels)' - Cardinality(SureHotels)
    BY SureGains
  <2>6. QED
    BY <1>1, <1>2, <2>1, <2>2, <2>3, <2>4, <2>5
<1>5. QED
  BY <1>2, <1>3, <1>4

LEMMA PagingQuiet ==
  ASSUME SearchInv, [Next]_vars, searchPc # "ready" \/ UNCHANGED searching, ~AnswerSearch
  PROVE  PagingInv'
<1> USE DEF SearchInv, PagingInv
<1>1. /\ pages' = pages /\ due' = due /\ PagingSound'
      /\ searchPc # "ready" => Size' = Size
      /\ searchPc' = "shown" => searchPc = "shown"
  BY PagesStay
<1>2. \A h : Sure(h) => Sure(h)'
  BY SureKept
<1>3. ToldIsSure'
  BY <1>1, <1>2 DEF ToldIsSure
<1>4. UnseenIsAhead'
  <2> SUFFICES ASSUME NEW h \in DOMAIN due', Unseen(h)'
               PROVE  /\ Cardinality(Before(h))' >= Len(pages') * Size'
                      /\ searchPc' = "shown" => LatestPage'.page < LatestPage'.totalPages
    BY DEF UnseenIsAhead
  <2>1. h \in DOMAIN due /\ Unseen(h) /\ LatestPage' = LatestPage
    BY <1>1 DEF Unseen, LatestPage
  <2>2. searchPc # "ready" /\ Size' = Size /\ Len(pages') = Len(pages)
    BY <1>1, <2>1 DEF PagingSound
  <2>3. /\ Cardinality(Before(h)) >= Len(pages) * Size
        /\ searchPc = "shown" => LatestPage.page < LatestPage.totalPages
    BY <2>1 DEF UnseenIsAhead
  <2>4. /\ Cardinality(Before(h)) \in Nat /\ Cardinality(Before(h))' \in Nat
        /\ Cardinality(Before(h)) <= Cardinality(Before(h))'
    BY SureGains
  <2>5. Len(pages) \in Nat /\ Size \in Nat /\ Len(pages) * Size \in Nat
    <3>1. Len(pages) \in Nat
      BY DEF PagingSound
    <3>2. Size \in Nat \ {0}
      BY <2>2, SizeIsPositive DEF PagingSound, Size
    <3>3. QED
      BY <3>1, <3>2, Multiples
  <2> HIDE DEF LatestPage, Before, Size
  <2>6. QED
    BY <1>1, <2>1, <2>2, <2>3, <2>4, <2>5
<1>5. MovesExplained'
  <2> SUFFICES ASSUME NEW p \in DOMAIN pages'
               PROVE  /\ Len(pages'[p].hotels) <= Size'
                      /\ \A i \in DOMAIN pages'[p].hotels :
                           MovedBack(p, i)' <= Cardinality(SureHotels)' - pages'[p].total
    BY DEF MovesExplained
  <2>1. p \in DOMAIN pages
    BY <1>1
  <2>2. Size' = Size
    BY <1>1, <2>1, PageCounts
  <2>3. QED
    BY <1>1, <2>1, <2>2, MovesStay
<1>6. RepeatsExplained'
  BY <1>1 DEF RepeatsExplained
<1>7. QED
  BY <1>1, <1>3, <1>4, <1>5, <1>6

LEMMA PagingBegins ==
  ASSUME SearchInv, [Next]_vars, SearchBegin
  PROVE  PagingInv'
<1> USE DEF SearchInv, PagingInv
<1>1. PICK size \in PageSizes : request' \in Following(size)
  BY DEF SearchBegin
<1>2. /\ searchPc = "ready" /\ searchPc' = "hotels" /\ pages' = pages
      /\ due' = [h \in {x \in Hotels : Matches(x)} |-> Required(h)]
  BY DEF SearchBegin
<1>3. pages = <<>> /\ Len(pages) = 0 /\ DOMAIN pages = {}
  BY <1>2 DEF PagingSound
<1>4. /\ request'.size \in PageSizes
      /\ EffectiveOffset(request') = Len(pages) * EffectivePageSize(request')
  BY <1>1, <1>3, FollowingPages
<1>5. Size' = EffectivePageSize(request') /\ EffectiveOffset(request)' = EffectiveOffset(request')
  BY DEF Size, EffectivePageSize, EffectiveOffset, EffectivePage
<1> HIDE DEF Size, EffectiveOffset
<1>6. PagingSound'
  BY <1>2, <1>3, <1>4, <1>5 DEF PagingSound
<1>7. ToldIsSure'
  <2>1. ASSUME NEW h \in DOMAIN due'
        PROVE  Sure(h)'
    <3>1. h \in Hotels /\ Matches(h)
      BY <1>2
    <3>2. Sure(h)
      BY <1>2, <3>1, SureMatches
    <3>3. QED
      BY <3>2, SureKept
  <2>2. QED
    BY <1>2, <1>3, <2>1 DEF ToldIsSure
<1>8. UnseenIsAhead'
  <2>1. \A h : Cardinality(Before(h))' \in Nat
    BY SureGains
  <2>2. Len(pages') * Size' = 0
    <3>1. Size' \in Nat
      BY <1>4, <1>5, SizeIsPositive
    <3>2. Len(pages') = 0
      BY <1>2, <1>3
    <3>3. \A s \in Nat : 0 * s = 0
      OBVIOUS
    <3>4. QED
      BY <3>1, <3>2, <3>3
  <2>3. searchPc' # "shown"
    BY <1>2
  <2> HIDE DEF Before
  <2>4. QED
    BY <2>1, <2>2, <2>3 DEF UnseenIsAhead
<1>9. MovesExplained' /\ RepeatsExplained'
  BY <1>2, <1>3 DEF MovesExplained, RepeatsExplained
<1>10. QED
  BY <1>6, <1>7, <1>8, <1>9

\* What the answer adds: a page of the sure hotels in order, after as many pages.
LEMMA NewPage ==
  ASSUME SearchInv, AnswerSearch
  PROVE  LET n == Len(pages) IN
         \E page \in PageType, results \in Seq(Hotels) :
           /\ n \in Nat /\ Size \in Nat \ {0}
           /\ pages' = Append(pages, page) /\ due' = due /\ Size' = Size
           /\ searchPc = "answer" /\ searchPc' = "shown"
           /\ Len(results) = Cardinality(SureHotels)
           /\ \A x \in SureHotels : \E k \in DOMAIN results : results[k] = x
           /\ \A k \in DOMAIN results :
                results[k] \in SureHotels /\ Cardinality(Before(results[k])) = k - 1
           /\ page.total = Len(results) /\ Len(page.hotels) <= Size
           /\ \A i \in DOMAIN page.hotels :
                n * Size + i \in DOMAIN results /\ page.hotels[i] = results[n * Size + i]
           /\ \A k \in DOMAIN results :
                n * Size < k /\ k <= n * Size + Size => results[k] \in ToSet(page.hotels)
           /\ Len(results) > n * Size + Size => page.page = n + 1 /\ page.totalPages > n + 1
<1> DEFINE n       == Len(pages)
           results == InOrder({h \in ToSet(hits) : Available(h)})
           page    == Slice(results, request)
<1>1. /\ searchPc = "answer" /\ searchPc' = "shown" /\ pages' = Append(pages, page)
      /\ UNCHANGED <<request, due>>
  BY DEF AnswerSearch
<1>2. Size' = Size
  BY <1>1 DEF Size, EffectivePageSize
<1>3. /\ n \in Nat /\ request.size \in PageSizes
      /\ EffectiveOffset(request) = n * EffectivePageSize(request)
  BY <1>1 DEF SearchInv, PagingInv, PagingSound, Size
<1>4. /\ results \in Seq(Hotels) /\ Len(results) = Cardinality(SureHotels)
      /\ \A x \in SureHotels : \E k \in DOMAIN results : results[k] = x
      /\ \A k \in DOMAIN results :
           results[k] \in SureHotels /\ Cardinality(Before(results[k])) = k - 1
  BY <1>1, ResultsInOrder DEF SearchInv
<1> HIDE DEF results
<1>5. /\ page \in PageType
      /\ page.total = Len(results) /\ Len(page.hotels) <= Size
      /\ \A i \in DOMAIN page.hotels :
           n * Size + i \in DOMAIN results /\ page.hotels[i] = results[n * Size + i]
      /\ \A k \in DOMAIN results :
           n * Size < k /\ k <= n * Size + Size => results[k] \in ToSet(page.hotels)
      /\ Len(results) > n * Size + Size => page.page = n + 1 /\ page.totalPages > n + 1
  <2> HIDE DEF n
  <2>1. QED
    BY <1>3, <1>4, SliceFacts DEF Size
<1>6. Size \in Nat \ {0}
  BY <1>3, SizeIsPositive DEF Size
<1> HIDE DEF page, n
<1>7. QED
  BY <1>1, <1>2, <1>3, <1>4, <1>5, <1>6 DEF n

LEMMA PagingAnswers ==
  ASSUME SearchInv, [Next]_vars, AnswerSearch
  PROVE  PagingInv'
<1> USE DEF SearchInv, PagingInv
<1> PICK n, size : n = Len(pages) /\ size = Size
  OBVIOUS
<1>a. PICK page \in PageType, results \in Seq(Hotels) :
      /\ n \in Nat /\ size \in Nat \ {0}
      /\ pages' = Append(pages, page) /\ due' = due /\ Size' = size
      /\ searchPc = "answer" /\ searchPc' = "shown"
      /\ Len(results) = Cardinality(SureHotels)
      /\ \A x \in SureHotels : \E k \in DOMAIN results : results[k] = x
      /\ \A k \in DOMAIN results :
           results[k] \in SureHotels /\ Cardinality(Before(results[k])) = k - 1
      /\ page.total = Len(results) /\ Len(page.hotels) <= size
      /\ \A i \in DOMAIN page.hotels :
           n * size + i \in DOMAIN results /\ page.hotels[i] = results[n * size + i]
      /\ \A k \in DOMAIN results :
           n * size < k /\ k <= n * size + size => results[k] \in ToSet(page.hotels)
      /\ Len(results) > n * size + size => page.page = n + 1 /\ page.totalPages > n + 1
  BY NewPage
<1> n \in Nat /\ size \in Nat \ {0}
  BY <1>a
<1> HIDE DEF Size, SureHotels, Before
<1>1. /\ DOMAIN pages = 1..n /\ DOMAIN pages' = 1..(n + 1) /\ Len(pages') = n + 1
      /\ pages' \in Seq(PageType) /\ pages'[n + 1] = page
      /\ \A p \in 1..n : pages'[p] = pages[p]
  BY <1>a DEF PagingSound
<1>2. page.hotels \in Seq(Hotels)
  BY DEF PageType
<1>3. \A h : Sure(h) => Sure(h)'
  BY SureKept
<1>4. \A i \in DOMAIN page.hotels : /\ page.hotels[i] \in SureHotels
                                     /\ Cardinality(Before(page.hotels[i])) = n * size + i - 1
  BY <1>a
<1>5. PagingSound'
  <2>1. request' = request /\ request.size \in PageSizes
    BY <1>a DEF AnswerSearch, PagingSound
  <2>2. QED
    BY <1>1, <1>a, <2>1 DEF PagingSound
<1>6. ToldIsSure'
  <2>1. \A h \in ToSet(page.hotels) : Sure(h)
    BY <1>4 DEF ToSet, SureHotels
  <2>2. ASSUME NEW p \in DOMAIN pages', NEW h \in ToSet(pages'[p].hotels)
        PROVE  Sure(h)'
    <3>1. CASE p = n + 1
      BY <1>1, <1>3, <2>1, <2>2, <3>1
    <3>2. CASE p \in 1..n
      BY <1>1, <1>3, <2>2, <3>2 DEF ToldIsSure
    <3>3. QED
      BY <1>1, <3>1, <3>2
  <2>3. QED
    BY <1>3, <1>a, <2>2 DEF ToldIsSure
<1>7. UnseenIsAhead'
  <2> SUFFICES ASSUME NEW h \in DOMAIN due, Unseen(h)'
               PROVE  /\ Cardinality(Before(h))' >= (n + 1) * size
                      /\ LatestPage'.page < LatestPage'.totalPages
    BY <1>1, <1>a DEF UnseenIsAhead
  <2>1. Unseen(h) /\ h \notin ToSet(page.hotels)
    BY <1>1 DEF Unseen
  <2>2. Cardinality(Before(h)) >= n * size
    BY <2>1 DEF UnseenIsAhead
  <2>3. h \in SureHotels
    BY DEF ToldIsSure, Sure, Asked, SureHotels
  <2>4. PICK k \in DOMAIN results : results[k] = h
    BY <1>a, <2>3
  <2>5. k \in 1..Len(results) /\ Cardinality(Before(h)) = k - 1 /\ Len(results) \in Nat
    BY <1>a, <2>4
  <2>6. n * size \in Nat /\ (n + 1) * size = n * size + size
    BY Multiples
  <2>7. k > n * size + size
    BY <1>a, <2>1, <2>2, <2>4, <2>5, <2>6
  <2>8. LatestPage' = page
    BY <1>1 DEF LatestPage
  <2>9. LatestPage'.page < LatestPage'.totalPages
    <3>1. Len(results) > n * size + size
      BY <2>5, <2>6, <2>7
    <3>2. page.page = n + 1 /\ page.totalPages > n + 1 /\ page.totalPages \in Nat
      BY <1>a, <3>1 DEF PageType
    <3>3. QED
      BY <2>8, <3>2
  <2>10. /\ Cardinality(Before(h))' \in Nat
         /\ Cardinality(Before(h)) <= Cardinality(Before(h))'
    BY SureGains
  <2>11. QED
    BY <2>5, <2>6, <2>7, <2>9, <2>10
<1>8. MovesExplained'
  <2> SUFFICES ASSUME NEW p \in DOMAIN pages'
               PROVE  /\ Len(pages'[p].hotels) <= Size'
                      /\ \A i \in DOMAIN pages'[p].hotels :
                           MovedBack(p, i)' <= Cardinality(SureHotels)' - pages'[p].total
    BY DEF MovesExplained
  <2>1. CASE p \in 1..n
    <3>1. PICK now : now = pages'
      OBVIOUS
    <3>2. p \in DOMAIN pages /\ now[p] = pages[p] /\ Size' = Size /\ pages' = now
      BY <1>1, <1>a, <2>1, <3>1
    <3>3. QED
      BY <3>2, MovesStay
  <2>2. CASE p = n + 1
    <3>1. pages'[p] = page
      BY <1>1, <2>2
    <3>2. ASSUME NEW i \in DOMAIN page.hotels
          PROVE  MovedBack(p, i)' <= Cardinality(SureHotels)' - page.total
      <4> PICK x : x = page.hotels[i]
        OBVIOUS
      <4>1. Cardinality(Before(x)) = n * size + i - 1
        BY <1>4
      <4>2. MovedBack(p, i)' = Cardinality(Before(x))' + 1 - ((p - 1) * size + i)
        BY <1>a, <3>1 DEF MovedBack, Before
      <4>3. p - 1 = n
        BY <2>2
      <4>4. MovedBack(p, i)' = Cardinality(Before(x))' + 1 - (n * size + i)
        BY <4>2, <4>3
      <4>5. /\ Cardinality(SureHotels) \in Nat /\ Cardinality(SureHotels)' \in Nat
            /\ Cardinality(Before(x)) \in Nat /\ Cardinality(Before(x))' \in Nat
            /\ Cardinality(Before(x))' - Cardinality(Before(x))
                 <= Cardinality(SureHotels)' - Cardinality(SureHotels)
        BY SureGains
      <4>6. n * size \in Nat /\ i \in Nat
        BY <1>2, Multiples
      <4>7. page.total = Cardinality(SureHotels)
        BY <1>a
      <4>8. QED
        BY <4>1, <4>4, <4>5, <4>6, <4>7
    <3>3. QED
      BY <1>a, <3>1, <3>2
  <2>3. QED
    BY <1>1, <2>1, <2>2
<1>9. RepeatsExplained'
  <2> SUFFICES ASSUME NEW p \in DOMAIN pages', NEW q \in DOMAIN pages', p < q,
                      ToSet(pages'[p].hotels) \intersect ToSet(pages'[q].hotels) # {}
               PROVE  pages'[p].total < pages'[q].total
    BY DEF RepeatsExplained
  <2>1. CASE q \in 1..n
    <3>1. p \in 1..n
      BY <1>1, <2>1
    <3>2. QED
      BY <1>1, <2>1, <3>1 DEF RepeatsExplained
  <2>2. CASE q = n + 1
    <3>1. p \in 1..n /\ pages'[p] = pages[p] /\ pages'[q] = page /\ p \in DOMAIN pages
      BY <1>1, <2>2
    <3>2. PICK i \in DOMAIN pages[p].hotels, j \in DOMAIN page.hotels :
            pages[p].hotels[i] = page.hotels[j]
      BY <3>1 DEF ToSet
    <3>3. /\ pages[p].total \in Nat /\ pages[p].hotels \in Seq(Hotels)
          /\ Len(pages[p].hotels) <= size
          /\ MovedBack(p, i) <= Cardinality(SureHotels) - pages[p].total
      BY <3>1, <3>2, PageCounts DEF MovesExplained
    <3>4. i \in 1..size /\ j \in Nat /\ j >= 1
      <4>1. i \in 1..Len(pages[p].hotels) /\ Len(pages[p].hotels) \in Nat
        BY <3>2, <3>3
      <4>2. j \in 1..Len(page.hotels) /\ Len(page.hotels) \in Nat
        BY <1>2, <3>2
      <4>3. QED
        BY <3>3, <4>1, <4>2
    <3>5. Cardinality(Before(page.hotels[j])) = n * size + j - 1
      BY <1>4, <3>2
    <3>6. MovedBack(p, i) = Cardinality(Before(page.hotels[j])) + 1 - ((p - 1) * size + i)
      BY <3>2 DEF MovedBack
    <3>7. /\ n * size \in Nat /\ (p - 1) * size \in Nat
          /\ (p - 1) * size + size <= n * size
      <4>1. p - 1 \in Nat /\ p - 1 < n
        BY <3>1
      <4>2. QED
        BY <4>1, Multiples
    <3>8. Cardinality(SureHotels) = page.total /\ page.total \in Nat
      BY <1>a DEF PageType
    <3>9. PICK a \in Nat, b \in Nat, t \in Nat, u \in Nat :
            a = n * size /\ b = (p - 1) * size /\ t = pages[p].total /\ u = page.total
      BY <3>3, <3>7, <3>8
    <3>10. b + size <= a /\ MovedBack(p, i) = a + j - (b + i) /\ MovedBack(p, i) <= u - t
      <4>1. b + size <= a
        BY <3>7, <3>9
      <4>2. MovedBack(p, i) <= u - t
        BY <3>3, <3>8, <3>9
      <4>3. MovedBack(p, i) = (a + j - 1) + 1 - (b + i)
        BY <3>5, <3>6, <3>9
      <4>4. QED
        BY <3>4, <4>1, <4>2, <4>3
    <3>11. a + j - (b + i) >= 1
      BY <3>4, <3>10
    <3>12. t < u
      BY <3>4, <3>10, <3>11
    <3>13. QED
      BY <3>1, <3>9, <3>12
  <2>3. QED
    BY <1>1, <2>1, <2>2
<1>10. QED
  BY <1>5, <1>6, <1>7, <1>8, <1>9

LEMMA PagingNext == SearchInv /\ [Next]_vars => PagingInv'
<1> SUFFICES ASSUME SearchInv, [Next]_vars
             PROVE  PagingInv'
  OBVIOUS
<1>1. CASE AnswerSearch
  BY <1>1, PagingAnswers
<1>2. CASE SearchBegin
  BY <1>2, PagingBegins
<1>3. CASE ~AnswerSearch /\ ~SearchBegin
  <2>1. searchPc # "ready" \/ UNCHANGED searching
    BY <1>3, SearchSteps
       DEF SearchStep, NextPage, FindHotels, LoadRooms, LoadAvailability, SearchFails
  <2>2. QED
    BY <1>3, <2>1, PagingQuiet
<1>4. QED
  BY <1>1, <1>2, <1>3

LEMMA SearchInductive == Spec => []SearchInv
<1>1. Init => SearchInv
  <2>1. Init => DueSound
    BY DEF Init, DueSound
  <2>2. QED
    BY <2>1, CatalogInit, RowsInit, SearchingInit, PagingInit DEF SearchInv
<1>2. SearchInv /\ [Next]_vars => SearchInv'
  <2>1. SearchInv /\ [Next]_vars => PagingInv'
    BY PagingNext
  <2>2. SearchInv /\ [Next]_vars => CatalogInv' /\ RowsSound'
    BY CatalogNext, RowsStep DEF SearchInv
  <2>3. SearchInv /\ [Next]_vars => DueSound'
    BY DueStep DEF SearchInv
  <2>4. SearchInv /\ [Next]_vars => SearchingSound'
    BY SearchingStep DEF SearchInv
  <2>5. QED
    BY <2>1, <2>2, <2>3, <2>4 DEF SearchInv
<1>3. QED
  BY <1>1, <1>2, PTL DEF Spec

\* Every hotel on a page matches when the page is shown, whatever was inserted while
\* hotels, rooms and nights were read, chunk by chunk, and since earlier pages.
THEOREM ShownMatchHolds == Spec => []ShownMatch
<1>1. SearchInv => ShownMatch
  <2> SUFFICES ASSUME SearchInv, searchPc = "shown",
                      NEW p \in DOMAIN pages, NEW h \in ToSet(pages[p].hotels)
               PROVE  Matches(h)
    BY DEF ShownMatch
  <2>1. Sure(h)
    BY DEF SearchInv, PagingInv, ToldIsSure
  <2>2. h \in Hotels
    BY <2>1 DEF Sure, Asked
  <2>3. QED
    BY <2>1, <2>2, SureMatches
<1>2. QED
  BY <1>1, SearchInductive, PTL

\* Who has read the last page has seen each hotel that matched when he began, however
\* many hotels and rooms are added between his requests, by page or by offset.
THEOREM PagesMissNothingHolds == Spec => []PagesMissNothing
<1>1. SearchInv => PagesMissNothing
  <2> SUFFICES ASSUME SearchInv, Finished, NEW h \in DOMAIN due
               PROVE  \E p \in DOMAIN pages : h \in ToSet(pages[p].hotels)
    BY DEF PagesMissNothing
  <2>1. /\ searchPc = "shown" /\ LatestPage.page >= LatestPage.totalPages
        /\ LatestPage.page \in Nat /\ LatestPage.totalPages \in Nat
    <3>1. searchPc = "shown" /\ LatestPage.page >= LatestPage.totalPages
      BY DEF Finished
    <3>2. pages \in Seq(PageType) /\ Len(pages) > 0
      BY <3>1 DEF SearchInv, PagingInv, PagingSound
    <3>3. LatestPage \in PageType
      <4> HIDE DEF PageType
      <4>1. QED
        BY <3>2 DEF LatestPage
    <3> HIDE DEF LatestPage
    <3>4. QED
      BY <3>1, <3>3 DEF PageType
  <2>2. Unseen(h) => LatestPage.page < LatestPage.totalPages
    BY <2>1 DEF SearchInv, PagingInv, UnseenIsAhead
  <2> HIDE DEF LatestPage
  <2>3. ~Unseen(h)
    BY <2>1, <2>2
  <2>4. QED
    BY <2>3 DEF Unseen
<1>2. QED
  BY <1>1, SearchInductive, PTL

\* A hotel shows up on a second page only if the results have grown since the first.
THEOREM RepeatsExplainedHolds == Spec => []RepeatsExplained
<1>1. SearchInv => RepeatsExplained
  BY DEF SearchInv, PagingInv
<1>2. QED
  BY <1>1, SearchInductive, PTL

(***************************************************************************)
(* The type invariant.                                                     *)
(***************************************************************************)
ControlSound ==
  /\ \A h \in Adds :
       addPc[h] \in {"ready", "create", "read", "created", "bad request", "error"}
  /\ addFaults \in 0..MaxAddFaults
  /\ listPc \in {"ready", "images", "options", "listed"}

LEMMA ControlStep == CatalogInv /\ ControlSound /\ [Next]_vars => ControlSound'
<1> SUFFICES ASSUME CatalogInv, ControlSound, [Next]_vars
             PROVE  ControlSound'
  OBVIOUS
<1>1. ASSUME NEW h \in Adds, AddStep(h)
      PROVE  ControlSound'
  <2>1. UNCHANGED listing
    BY <1>1 DEF AddStep, HandleAddHotel, CreateHotel, CreateRefused, ReadBack, AddFails
  <2>2. addFaults' = addFaults \/ (addFaults < MaxAddFaults /\ addFaults' = addFaults + 1)
    BY <1>1 DEF AddStep, HandleAddHotel, CreateHotel, CreateRefused, ReadBack, AddFails, AddFault
  <2>3. \E next \in {"create", "read", "created", "bad request", "error"} :
          addPc' = [addPc EXCEPT ![h] = next]
    BY <1>1 DEF AddStep, HandleAddHotel, CreateHotel, CreateRefused, ReadBack, AddFails,
                AddFault, AddGoto
  <2>4. DOMAIN addPc = Adds
    BY DEF CatalogInv, Functions
  <2>5. addFaults' \in 0..MaxAddFaults
    <3>1. MaxAddFaults \in Nat
      BY SizesAssumption
    <3>2. addFaults \in 0..MaxAddFaults
      BY DEF ControlSound
    <3>3. QED
      BY <2>2, <3>1, <3>2
  <2>6. QED
    BY <2>1, <2>3, <2>4, <2>5 DEF ControlSound, listing
<1>2. CASE ListStep
  BY <1>2 DEF ListStep, ListHotels, PreloadImages, PreloadPaymentOptions, added, ControlSound
<1>3. CASE UNCHANGED <<addPc, addFaults, listing>>
  BY <1>3 DEF ControlSound, listing
<1>4. QED
  BY <1>1, <1>2, <1>3
     DEF Next, vars, added, SearchStep, SearchBegin, NextPage, FindHotels, LoadRooms,
         LoadAvailability, AnswerSearch, SearchFails, CreateRoom, CreateInventory

LEMMA TypesInductive == Spec => [](SearchInv /\ UploadBounds /\ ControlSound)
<1>1. Init => UploadBounds /\ ControlSound
  BY BoundsInit, SizesAssumption DEF Init, ControlSound
<1>2. SearchInv /\ UploadBounds /\ [Next]_vars => UploadBounds'
  BY BoundsNext, UploadStepOrNot DEF SearchInv, CatalogInv
<1>3. SearchInv /\ ControlSound /\ [Next]_vars => ControlSound'
  BY ControlStep DEF SearchInv
<1>4. QED
  BY <1>1, <1>2, <1>3, SearchInductive, PTL DEF Spec

\* No row refers to a missing one, each image of a hotel comes from an upload that was
\* answered, and every variable ranges over its type.
THEOREM CatalogTypeCorrect == Spec => []TypeOK
<1>1. SearchInv /\ UploadBounds /\ ControlSound => TypeOK
  <2> SUFFICES ASSUME SearchInv, UploadBounds, ControlSound
               PROVE  TypeOK
    OBVIOUS
  <2>1. UploadTypeOK
    BY InvUploadType DEF SearchInv, CatalogInv
  <2>2. \A h \in Hotels : hotels[h] # NoRow =>
          \A u \in hotels[h].images : uploadPc[u] = "created"
    BY DEF SearchInv, CatalogInv, HotelsShowUploads, Uploaded
  <2>3. /\ \A r \in AllRooms : rooms[r] # NoRow => hotels[rooms[r].hotel] # NoRow
        /\ \A r \in AllRooms, n \in Nights : inventory[r][n] # NoRow => rooms[r] # NoRow
    BY DEF SearchInv, RowsSound
  <2>4. DOMAIN listed \subseteq Hotels
    BY DEF SearchInv, CatalogInv, ReadOf
  <2>5. /\ searchPc \in {"ready", "hotels", "rooms", "availability", "answer", "shown"}
        /\ hits \in Seq(Hotels) /\ read \in Seq(AllRooms)
        /\ DOMAIN free \subseteq ToSet(read)
    BY DEF SearchInv, SearchingSound
  <2>6. ToSet(hits) \subseteq Hotels /\ ToSet(read) \subseteq AllRooms
    BY <2>5 DEF ToSet
  <2>7. QED
    BY <2>1, <2>2, <2>3, <2>4, <2>5, <2>6 DEF TypeOK, ControlSound
<1>2. QED
  BY <1>1, TypesInductive, PTL
=============================================================================
