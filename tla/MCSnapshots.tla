----------------------------- MODULE MCSnapshots -----------------------------
(* Two names over three contents, two of which share a directory of the      *)
(* blob store.                                                               *)
EXTENDS Snapshots, TLC
CONSTANTS a, b, c

DirSeq == <<"00", "ff">>
DirMap == a :> "00" @@ b :> "00" @@ c :> "ff"
=============================================================================
