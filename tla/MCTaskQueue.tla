---------------------------- MODULE MCTaskQueue ----------------------------
(***************************************************************************)
(* Small instances of TaskQueue for TLC: two instances with one worker     *)
(* each, or one instance with two workers.                                 *)
(***************************************************************************)
EXTENDS TaskQueue, TLC

CONSTANTS k1, k2, i1, i2

TwoHomes == k1 :> i1 @@ k2 :> i2

OneHome == [k \in Worker |-> i1]

(* Task ids are interchangeable, and so are the two instances together     *)
(* with their workers.                                                     *)
SwapInstances == k1 :> k2 @@ k2 :> k1 @@ i1 :> i2 @@ i2 :> i1

KeepInstances == k1 :> k1 @@ k2 :> k2 @@ i1 :> i1 @@ i2 :> i2

QueueSymmetry ==
  {p @@ q : p \in Permutations(Task), q \in {SwapInstances, KeepInstances}}
=============================================================================
