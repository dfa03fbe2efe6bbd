SPECIFICATION Spec
CONSTANTS
  Shapes <- MCShapes
  Captures <- MCCaptures
  Routes <- MCRoutes
  Requests <- MCRequests
  MaxRoutes = 3
  None = None
CHECK_DEADLOCK FALSE
INVARIANTS HandlerByPattern LayersEnclose ParamsNamed
