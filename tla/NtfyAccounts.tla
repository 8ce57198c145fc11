---------------------------- MODULE NtfyAccounts ----------------------------
(***************************************************************************)
(* The accounts that users have in the ntfy server, beside their rows in   *)
(* the users table: create_user, rotate_notify_topic and disable_user of   *)
(* src/mypa/users.py, the commands of src/mypa/ntfy_admin.py they run, and *)
(* scripts/backfill_ntfy_accounts.py, with NTFY_USER_MGMT_ENABLED.         *)
(*                                                                         *)
(* An account is named after its topic.  Each command of the ntfy CLI and  *)
(* each commit is a step.  A command may fail, and one that times out may  *)
(* have been carried out.  Rotations run on thread-pool threads, the other *)
(* operations in one process of the operator's at a time.  No script or    *)
(* route calls disable_user; docs/ADMIN_GUIDE.md has the operator disable  *)
(* a user by an UPDATE in sqlcipher, which knows nothing of the accounts.  *)
(***************************************************************************)
CONSTANTS Users, Threads, Operator,
          Topics, \* all the topics ever generated: a bound on creations and rotations
          None

ASSUME NtfyAssumption == Operator \notin Threads /\ None \notin Users \cup Topics

VARIABLES
  topic,    \* users.notify_topic; None where there is no user
  token,    \* users.notify_token: the topic whose account it opens, or None
  disabled, \* the users with a disabled_at
  cutOff,   \* those of them whose last access token has expired
  account,  \* the accounts of the ntfy server
  req,      \* what each process is in the middle of
  owner,    \* history: whom a topic was generated for
  causes    \* history: what has gone wrong for a user

vars == <<topic, token, disabled, cutOff, account, req, owner, causes>>

Workers == Threads \cup {Operator}

\* added: "user add" was carried out, "access" was not.
AccountStates == {"none", "added", "reader"}
Request == [op : {"create", "rotate", "disable", "backfill"}, user : Users,
            old : Topics \cup {None}, new : Topics \cup {None},
            next : {"add", "access", "change", "write", "remove"},
            password : BOOLEAN]

\* A process in the middle of nothing is not in the middle of something.
ASSUME RequestAssumption == None \notin Request

\* fault: a command or a request failed.  clobbered: the row had another topic
\* by the time of the write than when it was read.  late: a rotation was written
\* after the user had been disabled.  by hand: the user was disabled in the
\* database, not by disable_user.  The backfill: takeover, it changed the password
\* of an account; revived, it served a disabled user; outdated, it wrote the
\* password of a topic that was no longer the user's.
Causes == {"fault", "clobbered", "late", "by hand", "takeover", "revived", "outdated"}

TypeOK ==
  /\ topic \in [Users -> Topics \cup {None}]
  /\ token \in [Users -> Topics \cup {None}]
  /\ cutOff \subseteq disabled /\ disabled \subseteq {u \in Users : topic[u] # None}
  /\ account \in [Topics -> AccountStates]
  /\ req \in [Workers -> Request \cup {None}]
  /\ owner \in [Topics -> Users \cup {None}]
  /\ causes \in [Users -> SUBSET Causes]

Init ==
  /\ topic = [u \in Users |-> None] /\ token = [u \in Users |-> None]
  /\ disabled = {} /\ cutOff = {}
  /\ account = [t \in Topics |-> "none"]
  /\ req = [w \in Workers |-> None]
  /\ owner = [t \in Topics |-> None]
  /\ causes = [u \in Users |-> {}]

Fresh == {t \in Topics : owner[t] = None}
At(w, step) == req[w] # None /\ req[w].next = step
Blame(w, why) == causes' = [causes EXCEPT ![req[w].user] = @ \cup why]
When(condition, cause) == IF condition THEN {cause} ELSE {}

Begin(w, op, u, old, new, step) ==
  /\ req[w] = None
  /\ req' = [req EXCEPT ![w] = [op |-> op, user |-> u, old |-> old, new |-> new,
                                next |-> step, password |-> FALSE]]
  /\ UNCHANGED <<topic, token, disabled, cutOff, account, causes>>

Goto(w, step, password) ==
  req' = [req EXCEPT ![w].next = step, ![w].password = password]
Done(w) == req' = [req EXCEPT ![w] = None]

-----------------------------------------------------------------------------
(* The operations, up to their first command or write.                     *)

\* create_user: there is no such user; a topic is generated.
BeginCreate(u, t) ==
  /\ topic[u] = None /\ t \in Fresh
  /\ owner' = [owner EXCEPT ![t] = u]
  /\ Begin(Operator, "create", u, None, t, "add")

\* rotate_notify_topic, for anyone with an access token that has not expired.
BeginRotate(w, u, t) ==
  /\ topic[u] # None /\ u \notin cutOff /\ t \in Fresh
  /\ owner' = [owner EXCEPT ![t] = u]
  /\ Begin(w, "rotate", u, topic[u], t, "add")

\* disable_user: the SELECT; it returns early if the user is not there or disabled.
BeginDisableAny(u) == \* mutant: the early return is dropped
  /\ Begin(Operator, "disable", u, topic[u], None, "write")
  /\ UNCHANGED owner

BeginDisable(u) ==
  /\ topic[u] # None /\ u \notin disabled
  /\ Begin(Operator, "disable", u, topic[u], None, "write")
  /\ UNCHANGED owner

\* The backfill comes to a row that it read without a password.
BeginBackfill(u) ==
  /\ topic[u] # None /\ token[u] = None
  /\ Begin(Operator, "backfill", u, None, topic[u], "add")
  /\ UNCHANGED owner

-----------------------------------------------------------------------------
(* The commands.                                                           *)

\* "ntfy user add".
AddAccount(w) ==
  /\ At(w, "add") /\ account[req[w].new] = "none"
  /\ account' = [account EXCEPT ![req[w].new] = "added"]
  /\ Goto(w, "access", FALSE)
  /\ UNCHANGED <<topic, token, disabled, cutOff, owner, causes>>

\* "ntfy access": from here on the account can read.
GrantAccess(w) ==
  /\ At(w, "access") /\ account[req[w].new] # "none"
  /\ account' = [account EXCEPT ![req[w].new] = "reader"]
  /\ Goto(w, "write", TRUE)
  /\ UNCHANGED <<topic, token, disabled, cutOff, owner, causes>>

\* Either fails, or is carried out and times out: the user is created or rotated
\* without a password.
CommandFails(w) ==
  /\ req[w] # None /\ req[w].op # "backfill"
  /\ \/ At(w, "add") /\ account' \in {account, [account EXCEPT ![req[w].new] = "added"]}
     \/ At(w, "access") /\ account' \in {account, [account EXCEPT ![req[w].new] = "reader"]}
  /\ Goto(w, "write", FALSE)
  /\ Blame(w, {"fault"})
  /\ UNCHANGED <<topic, token, disabled, cutOff, owner>>

\* Either fails in the backfill, which takes the account for one that exists.
BackfillCommandFails(w) ==
  /\ At(w, "add") \/ At(w, "access")
  /\ req[w].op = "backfill"
  /\ Goto(w, "change", FALSE)
  /\ UNCHANGED <<topic, token, disabled, cutOff, account, owner, causes>>

\* "ntfy user change-pass"; access is not granted again.
ChangePassword(w) ==
  /\ At(w, "change") /\ account[req[w].new] # "none"
  /\ Goto(w, "write", TRUE)
  /\ Blame(w, {"takeover"})
  /\ UNCHANGED <<topic, token, disabled, cutOff, account, owner>>

\* "ntfy user remove".
RemoveAccount(w) ==
  /\ At(w, "remove")
  /\ account' = [account EXCEPT ![req[w].old] = "none"]
  /\ Done(w)
  /\ UNCHANGED <<topic, token, disabled, cutOff, owner, causes>>

\* The process dies, a write or change-pass fails, a command of the backfill
\* times out, or a removal fails, which is only logged.  (A command that was
\* carried out before its process was lost is its own step before this one.)
Abort(w) ==
  /\ req[w] # None
  /\ Done(w)
  /\ Blame(w, {"fault"})
  /\ UNCHANGED <<topic, token, disabled, cutOff, account, owner>>

-----------------------------------------------------------------------------
(* The writes.                                                             *)

PasswordAnyway(w) == req[w].new \* mutant: though provisioning failed
Password(w) == IF req[w].password THEN req[w].new ELSE None

\* create_user: INSERT, commit.
InsertUser(w) ==
  /\ At(w, "write") /\ req[w].op = "create"
  /\ topic' = [topic EXCEPT ![req[w].user] = req[w].new]
  /\ token' = [token EXCEPT ![req[w].user] = Password(w)]
  /\ Done(w)
  /\ UNCHANGED <<disabled, cutOff, account, owner, causes>>

\* rotate_notify_topic: UPDATE, commit; the old account is to be removed.
SetTopicOnly(w) == \* mutant: it is not
  /\ At(w, "write") /\ req[w].op = "rotate"
  /\ topic' = [topic EXCEPT ![req[w].user] = req[w].new]
  /\ token' = [token EXCEPT ![req[w].user] = Password(w)]
  /\ Done(w)
  /\ UNCHANGED <<disabled, cutOff, account, owner, causes>>

SetTopic(w) ==
  /\ At(w, "write") /\ req[w].op = "rotate"
  /\ topic' = [topic EXCEPT ![req[w].user] = req[w].new]
  /\ token' = [token EXCEPT ![req[w].user] = Password(w)]
  /\ Goto(w, "remove", FALSE)
  /\ Blame(w, When(topic[req[w].user] # req[w].old, "clobbered")
                \cup When(req[w].user \in disabled, "late"))
  /\ UNCHANGED <<disabled, cutOff, account, owner>>

\* disable_user: UPDATE and DELETE, commit; the account is to be removed.
SetDisabledOnly(w) == \* mutant: it is not
  /\ At(w, "write") /\ req[w].op = "disable"
  /\ disabled' = disabled \cup {req[w].user}
  /\ Done(w)
  /\ UNCHANGED <<topic, token, cutOff, account, owner, causes>>

SetDisabled(w) ==
  /\ At(w, "write") /\ req[w].op = "disable"
  /\ disabled' = disabled \cup {req[w].user}
  /\ Goto(w, "remove", FALSE)
  /\ Blame(w, When(topic[req[w].user] # req[w].old, "clobbered"))
  /\ UNCHANGED <<topic, token, cutOff, account, owner>>

\* UPDATE users SET disabled_at, by the operator in sqlcipher (ADMIN_GUIDE.md:195).
DisableByHand(u) ==
  /\ req[Operator] = None
  /\ topic[u] # None /\ u \notin disabled
  /\ disabled' = disabled \cup {u}
  /\ causes' = [causes EXCEPT ![u] = @ \cup {"by hand"}]
  /\ UNCHANGED <<topic, token, cutOff, account, req, owner>>

\* The backfill: UPDATE by id, whatever the topic is by now, commit.
SetToken(w) ==
  /\ At(w, "write") /\ req[w].op = "backfill"
  /\ token' = [token EXCEPT ![req[w].user] = req[w].new]
  /\ Done(w)
  /\ Blame(w, When(topic[req[w].user] # req[w].new, "outdated")
                \cup When(req[w].user \in disabled, "revived"))
  /\ UNCHANGED <<topic, disabled, cutOff, account, owner>>

\* The last access token of a disabled user expires.
ExpireAccess(u) ==
  /\ u \in disabled \ cutOff
  /\ cutOff' = cutOff \cup {u}
  /\ UNCHANGED <<topic, token, disabled, account, req, owner, causes>>

Next ==
  \/ \E u \in Users, t \in Topics :
       BeginCreate(u, t) \/ \E w \in Threads : BeginRotate(w, u, t)
  \/ \E u \in Users :
       BeginDisable(u) \/ BeginBackfill(u) \/ DisableByHand(u) \/ ExpireAccess(u)
  \/ \E w \in Workers :
       \/ AddAccount(w) \/ GrantAccess(w) \/ CommandFails(w)
       \/ BackfillCommandFails(w) \/ ChangePassword(w)
       \/ RemoveAccount(w) \/ Abort(w)
       \/ InsertUser(w) \/ SetTopic(w) \/ SetDisabled(w) \/ SetToken(w)

Spec == Init /\ [][Next]_vars

-----------------------------------------------------------------------------
(* What the code promises, and what has to go wrong before it does not hold. *)

InHand(t) == \E w \in Workers : req[w] # None /\ t \in {req[w].old, req[w].new}

\* "True revocation": an account of a topic that is not its user's is left
\* only after a failure, a lost update, or a backfill of an outdated row.
\* Whatever overlaps otherwise, rotations leave one account (users.py:155-182).
StrayNeedsCause ==
  \A t \in Topics :
    (account[t] # "none" /\ topic[owner[t]] # t /\ ~InHand(t))
      => causes[owner[t]] \cap {"fault", "clobbered", "outdated"} # {}

\* A disabled user still has an account that reads the current topic, and no
\* operation is about to see to it.
Unrevoked(u) == account[topic[u]] # "none" /\ ~InHand(topic[u])

\* A disabled user keeps the account of the current topic only after a failure, if
\* a rotation overlapped disable_user or came later, if the backfill was run, or if
\* the user was disabled by hand, as ADMIN_GUIDE.md:195-205 has it
\* (users.py:284-320).
DisabledNeedsCause ==
  \A u \in disabled : Unrevoked(u) =>
    causes[u] \cap {"fault", "clobbered", "late", "revived", "by hand"} # {}

\* The password stored for an enabled user opens the current topic, whatever
\* failed or overlapped, unless the backfill took an account over or wrote to
\* an outdated row (users.py:137-182, backfill_ntfy_accounts.py:25-36).
CredentialsWork ==
  \A u \in Users \ disabled :
    \/ token[u] = None
    \/ token[u] = topic[u] /\ account[topic[u]] = "reader"
    \/ causes[u] \cap {"takeover", "outdated"} # {}
=============================================================================
