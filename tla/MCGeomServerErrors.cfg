\* Line framing, where an empty line reads like the end of the input.
CONSTANTS
  Framing = "newline"
  Calls <- MCCalls
  Notify <- MCNotify
  MaxRequests = 3
  PipeSize = 1
SPECIFICATION Spec
INVARIANTS
  ErrorsReturned
