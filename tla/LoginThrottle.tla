--------------------------- MODULE LoginThrottle ---------------------------
(***************************************************************************)
(* The failed logins of one address and email: _login_fail_log of          *)
(* src/mypa/routes/auth_routes.py, a list in the memory of mypa-api under  *)
(* a lock.  A login checks it, verifies the password and records the       *)
(* outcome, in three steps that those of other threads come between.       *)
(*                                                                         *)
(* The log is a list in which nothing looks at the order: here it is the   *)
(* set of its failures, each with a number of its own and, instead of its  *)
(* time, its age.  Window stands for every age that the next check drops.  *)
(***************************************************************************)
EXTENDS Integers, FiniteSets

CONSTANTS
  Threads,   \* logins at a time
  Window,    \* _FAIL_WINDOW_SEC
  Threshold  \* _FAIL_THRESHOLD

VARIABLES
  log,       \* _login_fail_log[key], with the stale ones that no check has dropped
  login,     \* what each login is about to do
  failures,  \* history: the failures since the last success, whatever the log
  refused    \* history: a login was refused with so few failures to its name

LoginInit ==
  /\ log = {} /\ failures = {}
  /\ login = [t \in Threads |-> "none"]
  /\ refused = FALSE

Fresh(entries) == {f \in entries : f.age < Window}
Older(entries) ==
  {[id |-> f.id, age |-> IF f.age < Window THEN f.age + 1 ELSE Window] : f \in entries}

\* A failure of this moment, with a number that none under consideration has.
NewFailure ==
  LET known == {f.id : f \in log \cup failures}
  IN  [id |-> CHOOSE i \in 1 .. Cardinality(known) + 1 : i \notin known, age |-> 0]

\* _check_login_throttle: True.
AllowOneMore(t) == \* mutant: <= for <
  /\ login[t] = "none"
  /\ log' = Fresh(log)
  /\ Cardinality(log') <= Threshold
  /\ login' = [login EXCEPT ![t] = "verify"]
  /\ UNCHANGED <<failures, refused>>
Allow(t) ==
  /\ login[t] = "none"
  /\ log' = Fresh(log)
  /\ Cardinality(log') < Threshold
  /\ login' = [login EXCEPT ![t] = "verify"]
  /\ UNCHANGED <<failures, refused>>

\* _check_login_throttle: False, and the answer is 429.
RefuseUnpruned(t) == \* mutant: the stale entries are counted
  /\ login[t] = "none" /\ Cardinality(log) >= Threshold
  /\ refused' = (refused \/ Cardinality(failures) < Threshold)
  /\ UNCHANGED <<log, login, failures>>
Refuse(t) ==
  /\ login[t] = "none"
  /\ log' = Fresh(log)
  /\ Cardinality(log') >= Threshold
  /\ refused' = (refused \/ Cardinality(failures) < Threshold)
  /\ UNCHANGED <<login, failures>>

\* authenticate.
Verify(t) ==
  /\ login[t] = "verify"
  /\ \E outcome \in {"failed", "succeeded"} : login' = [login EXCEPT ![t] = outcome]
  /\ UNCHANGED <<log, failures, refused>>

\* _record_login_failure.
RecordFailure(t) ==
  /\ login[t] = "failed"
  /\ log' = log \cup {NewFailure}
  /\ failures' = failures \cup {NewFailure}
  /\ login' = [login EXCEPT ![t] = "none"]
  /\ UNCHANGED refused

\* _clear_login_failures.
ClearFailures(t) ==
  /\ login[t] = "succeeded"
  /\ log' = {} /\ failures' = {}
  /\ login' = [login EXCEPT ![t] = "none"]
  /\ UNCHANGED refused

\* Time passes.
Tick ==
  /\ log' = Older(log)
  /\ failures' = Fresh(Older(failures))
  /\ UNCHANGED <<login, refused>>

LoginNext ==
  \/ \E t \in Threads : Allow(t) \/ Refuse(t) \/ Verify(t) \/ RecordFailure(t) \/ ClearFailures(t)
  \/ Tick

\* The process ends: the log and the logins under way are gone.
LoginReset ==
  /\ log' = {}
  /\ login' = [t \in Threads |-> "none"]
  /\ UNCHANGED <<failures, refused>>
=============================================================================
