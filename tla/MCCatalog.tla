----------------------------- MODULE MCCatalog -----------------------------
(* TLC instance of Catalog. Uploads write what no search reads, and a        *)
(* listing and a search only read: a run has uploads and a listing, or a     *)
(* search, beside the additions. Beside a search an addition goes on to its  *)
(* answer, and is not refused: only an insert is seen. Rooms, and the nights *)
(* of the stay, are interchangeable: the first comes first. An added room    *)
(* may be full on the first night only, and both are added to one hotel.     *)
EXTENDS Catalog

Option(option, enabled) == [option |-> option, enabled |-> enabled]
Ask(named, options) == [named |-> named, images |-> {}, options |-> options]

MCAsks ==
  {Ask(TRUE, <<Option("immediate", TRUE)>>),
   Ask(TRUE, <<Option("deferred", FALSE)>>),
   Ask(FALSE, <<Option("immediate", TRUE), Option("deferred", TRUE)>>),
   Ask(TRUE, <<Option("immediate", TRUE), Option("immediate", FALSE)>>),
   Ask(TRUE, <<Option("cash", TRUE)>>)}

Kind(adults, active) ==
  [maxAdult |-> adults, maxChild |-> 0, maxOccupancy |-> adults, active |-> active,
   amenities |-> {}]
MCKinds == {Kind(1, TRUE), Kind(2, TRUE), Kind(2, FALSE)}

Search(rating, payments) ==
  [adults |-> 2, ages |-> <<>>, roomCount |-> 1, checkIn |-> 1, checkOut |-> 3,
   ratingMin |-> rating, payments |-> payments, amenities |-> {}]
MCCriteria == {Search(0, {"immediate"}), Search(40, {})}

MCBatches == {<<>>, <<"image">>, <<"image", "image">>, <<"image", "too large">>, <<"no image">>}

Listing == listPc' # "ready" \/ \E u \in Uploads : uploadPc'[u] # "ready"
Adding  == \E h \in Adds : addPc[h] \in {"create", "read"}

MCNext ==
  /\ Next
  /\ Listing => searchPc' = "ready" /\ \A r \in Rooms : rooms'[r] = NoRow
  /\ Adding /\ ~Listing => addPc' # addPc
  /\ searchPc' # "ready" => \A h \in Adds : addPc'[h] \notin {"bad request", "error"}
  /\ \A r \in Rooms : rooms'[r] # NoRow => \A x \in Rooms : x < r => rooms'[x] # NoRow
  /\ \A r \in Rooms : inventory'[r][2] # NoRow => inventory'[r][1] # NoRow /\ inventory'[r][2] # 0
  /\ \A r, x \in Rooms : r # x /\ rooms'[r] # NoRow /\ rooms'[x] # NoRow =>
       rooms'[r].hotel = rooms'[x].hotel

MCSpec == Init /\ [][MCNext]_vars
=============================================================================
