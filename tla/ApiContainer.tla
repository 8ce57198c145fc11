---------------------------- MODULE ApiContainer ----------------------------
(***************************************************************************)
(* The api container over its life: Migrations until it serves, then the   *)
(* logins of LoginThrottle, whose log is lost with the process.            *)
(***************************************************************************)
EXTENDS Migrations

CONSTANTS Threads, Window, Threshold

VARIABLES log, login, failures, refused

ASSUME ApiContainerAssumption ==
  Window \in Nat \ {0} /\ Threshold \in Nat \ {0} /\ IsFiniteSet(Threads)

T == INSTANCE LoginThrottle

containerVars == <<vars, log, login, failures, refused>>

Serving == run["api"].pc = "serving"

ContainerInit == Init /\ T!LoginInit

\* A step of the migrations, of which the log sees only the container's end.
Deploy ==
  /\ Next
  /\ IF Serving /\ run'["api"].pc # "serving" THEN T!LoginReset ELSE UNCHANGED <<log, login, failures, refused>>

Serve == Serving /\ T!LoginNext /\ UNCHANGED vars

ContainerNext == Deploy \/ Serve

ContainerSpec ==
  /\ ContainerInit /\ [][ContainerNext]_containerVars
  /\ \A p \in Runs : WF_containerVars(Step(p) /\ Deploy)
  /\ WF_containerVars(StartContainer /\ Deploy) /\ WF_containerVars(Bootstrap /\ Deploy)

-----------------------------------------------------------------------------
(* What the code promises.                                                 *)

\* "max 5 failed attempts per (ip, email) per 5-min window": the threads that
\* were let in together come on top, and each restart forgets the log
\* (auth_routes.py:28-35).  (All crashes of the model are counted, which is more
\* than the restarts of the container.)
FailuresBounded ==
  Cardinality(failures) <= (Threshold + Cardinality(Threads) - 1) * (crashes + 1)

\* A login is refused only for failures of the last window and since the last
\* success: waiting helps, and so does success (auth_routes.py:46-56).
RefusedForCause == ~refused
=============================================================================
