CONSTANTS
  ChildMaxAge = 11
  Uploads = {u1}
  Batches <- MCBatches
  MaxUploadFaults = 1
  Adds = {1}
  Demo = 2
  Asks <- MCAsks
  Rooms = {3, 4}
  DemoRooms = {1, 2}
  Kinds <- MCKinds
  Nights = {1, 2}
  MaxFree = 1
  Criteria <- MCCriteria
  PageSizes = {0, 1}
  DefaultPageSize = 2
  HotelChunk = 1
  RoomChunk = 2
  MaxAddFaults = 1
  NoRow = NoRow
SPECIFICATION MCSpec
INVARIANTS
  TypeOK
  UploadStoresPrefix
  ListedWhole
  ListedImagesStored
  ShownMatch
  PagesMissNothing
  RepeatsExplained
  MatchKept
CHECK_DEADLOCK FALSE
