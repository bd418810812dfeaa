------------------------------ MODULE MCRoutes ------------------------------
(***************************************************************************)
(* Small instances of Routes.  Random keys are interchangeable, and so     *)
(* are destinations.                                                       *)
(***************************************************************************)
EXTENDS Routes, TLC

RouteSymmetry == Permutations(Key) \cup Permutations(Dest)
=============================================================================
