--------------------------- MODULE MCSettingsCache --------------------------
(* A small instance of SettingsCache for TLC: two threads, which belong to *)
(* one process in some behaviours and to two in others.                    *)
EXTENDS SettingsCache, TLC

Alike == Permutations(Threads) \cup Permutations(Procs) \cup Permutations(Keys)
=============================================================================
