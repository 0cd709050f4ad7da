--------------------------- MODULE MCHotelSearch ---------------------------
(* TLC instance of HotelSearch: two room types, two nights, small parties.  *)
EXTENDS HotelSearch

Kind(maxAdult, maxChild, price, active, amenities) ==
  [maxAdult |-> maxAdult, maxChild |-> maxChild, maxOccupancy |-> maxAdult + maxChild,
   price |-> price, active |-> active, amenities |-> amenities]

MCKinds ==
  {Kind(1, 0, 1, TRUE, {}), Kind(1, 1, 3, TRUE, {"wifi"}), Kind(3, 1, 4, TRUE, {"wifi"}),
   Kind(1, 2, 1, FALSE, {}), Kind(0, 2, 1, TRUE, {})}

Ages == {<<>>, <<11>>, <<11, 12>>, <<12, 11>>, <<11, 11, 11>>}

Search(adults, ages, roomCount, checkOut, amenities) ==
  [adults |-> adults, ages |-> ages, roomCount |-> roomCount, checkIn |-> 1,
   checkOut |-> checkOut, amenities |-> amenities]

MCCriteria ==
  {Search(a, s, n, 3, {}) : a \in {1, 2, 4}, s \in Ages, n \in {1, 2}}
  \union {Search(2, <<>>, 1, 2, {"wifi"}), Search(2, <<>>, 1, 1, {})}

\* Two small children: with one adult, and with two.
MCFamilies == {Search(a, <<11, 11>>, n, 3, {}) : a \in {1, 2}, n \in {1, 2}}
=============================================================================
