----------------------------- MODULE MCDigests -----------------------------
(* Digests on small sets.  East: the clocks go back to UTC at hour 2, so   *)
(* that local hour 0 of local day 1 comes twice.  Spring: they leave UTC at*)
(* hour 1, so that a local hour is skipped.  West: they leave UTC at hour  *)
(* 2, so that the last hour of local day 0 comes twice.  Users whose       *)
(* settings change begin in Spring and may go to the west, the others live *)
(* in the east.                                                            *)
EXTENDS Digests

East == [before |-> 1, after |-> 0, from |-> 2]
Spring == [before |-> 0, after |-> 1, from |-> 1]
West == [before |-> 0, after |-> -1, from |-> 2]
TimeZones == {East, Spring, West}
GivenOffsets == -1 .. 1

Asked == [tz : {West}] \cup [digest_enabled : {FALSE}] \cup [digest_hour : 1 .. 2]

MCInit ==
  /\ Init
  /\ \A u \in Users : row[u].tz = IF u \in Changing THEN Spring ELSE East
MCSpec == MCInit /\ [][Next]_vars
=============================================================================
