SPECIFICATION Spec
CONSTANTS
  Request = {r1, r2}
  Worker = {"refreshAll", "checkin"}
  Object = {o1, o2}
  Id = {i1}
  MaxLimit = 2
  None = None
SYMMETRY GateSymmetry
VIEW GateView
INVARIANTS
  LimitRespected
  RefreshedIsLive
  OneRefreshPerCredential
PROPERTIES
  ImplementsLease
