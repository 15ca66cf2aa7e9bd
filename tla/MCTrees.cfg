SPECIFICATION Spec
CONSTANTS
  NodeAddresses = {101, 102, 103, 104, 105}
  Keys = {1, 2, 3, 4, 5, 6}
  BlockAddresses = {16, 32, 48, 64, 80, 96, 112, 128, 144, 160, 176, 192}
  HeapSize = 36
  Requests = {3, 5}
VIEW UpToPlacement
INVARIANTS TreesSound TakesTheRightBlock SearchesComplete
PROPERTIES IsDictionary ImplementsHeap
