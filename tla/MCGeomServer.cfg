CONSTANTS
  Framing = "headers"
  Calls <- MCCalls
  Notify <- MCNotify
  MaxRequests = 3
  PipeSize = 1
SPECIFICATION Spec
INVARIANTS
  TypeOK
  IdsFresh
  RepliesConserved
  QuiescentMirror
PROPERTIES
  StableIds
  RefinesSession
  EveryCallServed
  ReturnsAfterClose
