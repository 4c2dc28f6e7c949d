SPECIFICATION Spec
CONSTANTS
  d1 = d1
  d2 = d2
  p1 = p1
  p2 = p2
  p3 = p3
  None = None
  Decisions <- MCDecisions
  Procs <- MCProcs
  Restricted <- MCRestricted
  MaxAttempts = 2
INVARIANTS OrderHasIntent ConfirmedIsFilled
PROPERTIES ConfirmedForever ImplementsOrderOnce
SYMMETRY MCSymmetry
