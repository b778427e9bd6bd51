--------------------------- MODULE MCFolderConfig ---------------------------
(***************************************************************************)
(* A small instance of FolderConfig for TLC: a directory, one below it and *)
(* a symbolic link to that one.                                            *)
(***************************************************************************)
EXTENDS FolderConfig, TLC

CONSTANTS f1, f2, x, y, plain, dated, top, sub, link, gone

TwoDirectories == top :> {top, sub} @@ sub :> {sub}

Names == top :> top @@ sub :> sub @@ link :> sub @@ gone :> NoPath

SomeCreations ==
  [path : {top, link}, route : Route \cup {NoRoute}, dest : {x},
   steps : {plain}]

(* The first folder: one field at a time, and a route together with a      *)
(* destination.  The second one: where it is.                              *)
SomeEdits ==
  f1 :> [route : Route] \cup [dest : {y}] \cup [route : Route, dest : {x}]
        \cup [steps : {dated}] \cup [enabled : BOOLEAN]
  @@ f2 :> [path : {link, gone}]

CallSymmetry == Permutations(Call)
=============================================================================
