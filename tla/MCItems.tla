------------------------------ MODULE MCItems ------------------------------
(* AttachmentLinks on small sets.  Attachments are looked at while items   *)
(* are only created and deleted, without a body; bodies while nothing is   *)
(* attached.                                                               *)
EXTENDS AttachmentLinks, TLC

Plain ==
  /\ \A i \in Rows : row[i].kind = "note" /\ row[i].body = {} /\ row[i].status = "open"
  /\ \A w \in Busy : req[w].does = "delete"

Bare == Attached = {} /\ \A l \in Linkers : link[l] = None

MCSpec == LinkedInit /\ [][LinkedNext /\ (Plain' \/ Bare')]_<<vars, linkVars>>

Permutable == Permutations(Users) \cup Permutations(Workers)
              \cup Permutations(Statements) \cup Permutations(Linkers)
=============================================================================
