SPECIFICATION Spec
CONSTANTS
  Requests <- AnyRequests
INVARIANT
  NoOverlapAccepted
