--------------------------- MODULE MCRemoteRoute ---------------------------
(***************************************************************************)
(* Small instances of RemoteRoute for TLC.                                 *)
(***************************************************************************)
EXTENDS RemoteRoute, TLC

(* Neither instances nor paths are told apart.                             *)
RouteSymmetry ==
  {p @@ q : p \in Permutations(Scanner), q \in Permutations(Object)}
=============================================================================
