--------------------------- MODULE MCAttachments ---------------------------
(* Attachments on small sets.                                              *)
EXTENDS Attachments, TLC

Permutable == Permutations(Users) \cup Permutations(Shas)
              \cup Permutations(Uploaders) \cup Permutations(Deleters)
=============================================================================
