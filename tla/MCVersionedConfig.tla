------------------------- MODULE MCVersionedConfig --------------------------
(* Small instances of VersionedConfig for TLC. *)
EXTENDS VersionedConfig, TLC

Alike == Permutations(Admins) \cup Permutations(Seeders)
=============================================================================
