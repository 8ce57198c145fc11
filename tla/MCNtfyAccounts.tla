--------------------------- MODULE MCNtfyAccounts ---------------------------
(* NtfyAccounts on small sets.                                             *)
EXTENDS NtfyAccounts, TLC

Permutable == Permutations(Users) \cup Permutations(Threads)
              \cup Permutations(Topics)
=============================================================================
