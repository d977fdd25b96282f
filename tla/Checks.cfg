SPECIFICATION Spec
CONSTANTS
  c1 = c1
  c2 = c2
  None = None
  Calls <- MCCalls
  Requests <- MCRequests
INVARIANTS TypeOK
PROPERTIES SlotIsKept AnswersAreTrue GateOpens
CHECK_DEADLOCK FALSE
