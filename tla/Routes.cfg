SPECIFICATION RouteSpec
CONSTANTS
  Key = {k1, k2, k3, k4}
  Dest = {d, e}
  Distance = {1, 2}
  MaxRoutes = 2
  Nil = Nil
SYMMETRY RouteSymmetry
INVARIANTS RouteTypeOK ActiveIsShortest ExternalExact
