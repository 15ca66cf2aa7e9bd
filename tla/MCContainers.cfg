SPECIFICATION Containers
CONSTANTS
  Addr = {p, q, r, s}
  Data = {x, y}
  Null = Null
  Handles = {h}
  None = None
  BlockAddr <- Addresses
  Junk = 0
  Values = {1, 2}
  Capacities = {0, 1, 3}
  ItemSizes = {1, 2}
  MaxWords = 5
  Strings <- SomeStrings
  Ids <- Objs
  Rooms = {1}
  MaxItems = 2
  MaxLeaves = 2
  MaxLost = 1
INVARIANTS ListSound WithinBlocks PlacesCounted LeaksOnlyAfterFailure
PROPERTIES KeepsPromise LostOnlyWithNull ListsGrow
CHECK_DEADLOCK FALSE
