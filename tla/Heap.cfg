SPECIFICATION Spec
CONSTANTS
  HeapSize = 32
  Requests = {2, 5, 9}
INVARIANTS Tiling Registered WordsCounted RefusedOnlyIfNoRun
PROPERTIES FailureLeavesHeap
