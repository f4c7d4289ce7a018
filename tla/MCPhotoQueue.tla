---------------------------- MODULE MCPhotoQueue ----------------------------
(* Small instances of PhotoQueue for TLC. *)
EXTENDS PhotoQueue, TLC

Alike == Permutations(Ids) \cup Permutations(Apis) \cup Permutations(Workers)
=============================================================================
