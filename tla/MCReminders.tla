---------------------------- MODULE MCReminders ----------------------------
(* Reminders on small sets.                                                *)
EXTENDS Reminders, TLC

Permutable == Permutations(Users) \cup Permutations(Reminders)
=============================================================================
