SPECIFICATION Spec
CONSTANTS
  Exc = {irq, svc}
  NoExc = noexc
  SizeA = 3
  SizeB = 3
  MaxExceptions = 6
PROPERTIES FoundItemStays QueueSafety AcceptedIsDelivered
