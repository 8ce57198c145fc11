--------------------------- MODULE OAuthSessions ---------------------------
(***************************************************************************)
(* Authorization codes and refresh tokens: src/mypa/oauth.py, driven by    *)
(* the routes of src/mypa/routes/auth_routes.py (POST /auth/login and      *)
(* /auth/refresh) and src/mypa/routes/oauth.py (POST /oauth/authorize and  *)
(* /oauth/token), against users.disable_user run by an operator process.   *)
(*                                                                         *)
(* A request is a sequence of separate database accesses: a SELECT outside *)
(* a transaction, then one write transaction.  Everything may happen in    *)
(* between.  The two /auth routes are plain functions and run in the       *)
(* thread pool (Threads); the two /oauth routes are coroutines that never  *)
(* suspend between their accesses, so one EventLoop runs them one at a     *)
(* time.                                                                   *)
(*                                                                         *)
(* Secrets are model values: gen_secret never repeats one.  A refused      *)
(* request (unknown, expired, revoked, wrong client, wrong redirect_uri,   *)
(* wrong PKCE verifier) writes nothing and is not a step.  The scope       *)
(* column is copied with the user and is left out.                         *)
(***************************************************************************)
EXTENDS FiniteSets

CONSTANTS
  Users,      \* user ids
  Threads,    \* thread-pool workers of mypa-api
  EventLoop,  \* the one asyncio worker of mypa-api
  Connectors, \* OAuth clients registered through /oauth/register
  Dashboard,  \* the built-in client of /auth/login and /auth/refresh
  CodeIds,    \* authorization codes that can be minted (a bound)
  TokenIds,   \* refresh tokens that can be minted (a bound)
  Legacy,     \* those of them inserted before migration 007
  None        \* SQL NULL, and a row never inserted

ASSUME WorkersAssumption == EventLoop \notin Threads
ASSUME ClientsAssumption == Dashboard \notin Connectors
ASSUME SecretsAssumption == CodeIds \cap TokenIds = {}
ASSUME LegacyAssumption == Legacy \subseteq TokenIds
ASSUME NoneAssumption == None \notin Users \cup Connectors \cup {Dashboard}
                                     \cup CodeIds \cup TokenIds

VARIABLES
  disabled,  \* users whose disabled_at is set
  code,      \* oauth_codes: a code's columns, None before its INSERT
  token,     \* oauth_refresh_tokens: the columns a row was inserted with,
             \* kept after its DELETE (history); None before its INSERT
  rows,      \* the tokens whose row is in the table now
  used,      \* codes and tokens with used_at set
  revoked,   \* tokens with revoked_at set
  expired,   \* codes and tokens past their expires_at
  req,       \* the request each worker is in the middle of
  opened     \* history: the sessions each code was exchanged for

vars == <<disabled, code, token, rows, used, revoked, expired, req, opened>>

Workers == Threads \cup {EventLoop}
Clients == Connectors \cup {Dashboard}

CodeInfo  == [client : Connectors, user : Users]
TokenInfo == [client : Clients, user : Users,
              family : TokenIds \cup {None}, parent : TokenIds \cup {None}]

\* Rows that predate migration 007: ADD COLUMN left their family_id NULL.
LegacyInfo == [client : Clients, user : Users, family : {None}, parent : {None}]

\* A missing row is not a row.
ASSUME RowsAssumption == None \notin CodeInfo \cup TokenInfo

\* Where a request can be between two database accesses:
\*   consented  authorize_post has authenticated the user
\*   codeRead   consume_code has read an acceptable row
\*   granted    a session may be issued: login has authenticated the user,
\*              or consume_code has committed
\*   fresh      consume_refresh_token has read an unused row
\*   reuse      consume_refresh_token has read a used row
PCs == {"idle", "consented", "codeRead", "granted", "fresh", "reuse"}

Request == [pc : PCs, client : Clients \cup {None}, user : Users \cup {None},
            secret : CodeIds \cup TokenIds \cup {None},
            family : TokenIds \cup {None}]

Idle == [pc |-> "idle", client |-> None, user |-> None,
         secret |-> None, family |-> None]

TypeOK ==
  /\ disabled \subseteq Users
  /\ code \in [CodeIds -> CodeInfo \cup {None}]
  /\ token \in [TokenIds -> TokenInfo \cup {None}]
  /\ rows \subseteq TokenIds
  /\ used \subseteq CodeIds \cup TokenIds
  /\ revoked \subseteq TokenIds
  /\ expired \subseteq CodeIds \cup TokenIds
  /\ req \in [Workers -> Request]
  /\ opened \in [CodeIds -> SUBSET TokenIds]

Init ==
  /\ disabled = {}
  /\ code = [k \in CodeIds |-> None]
  /\ \E old \in [Legacy -> LegacyInfo] :
       token = [t \in TokenIds |-> IF t \in Legacy THEN old[t] ELSE None]
  /\ rows = Legacy
  /\ used = {}
  /\ revoked = {}
  /\ expired = {}
  /\ req = [w \in Workers |-> Idle]
  /\ opened = [k \in CodeIds |-> {}]

IsIdle(w) == req[w].pc = "idle"

\* /oauth/token serves the client it authenticated with its secret, on the
\* event loop; /auth/refresh serves the dashboard client, on a thread.  The
\* dashboard row's secret hash is 'n/a', so /oauth/token never serves it.
ServesAnywhere(w, c) == w \in Workers /\ c \in Clients \* mutant: def, not async def
Serves(w, c) == IF w = EventLoop THEN c \in Connectors ELSE c = Dashboard

\* The tokens of family f.  SQL's `family_id = NULL` holds of no row.
FamilyOf(f) ==
  {t \in TokenIds : f # None /\ token[t] # None /\ token[t].family = f}

Successors(t) == {s \in TokenIds : token[s] # None /\ token[s].parent = t}

-----------------------------------------------------------------------------
(* Opening a session.                                                      *)

\* POST /auth/login: users.authenticate accepts an enabled user's password.
LoginUnchecked(w, u) == \* mutant: disabled_at is not tested
  /\ w \in Threads /\ IsIdle(w) /\ u \in Users
  /\ req' = [req EXCEPT ![w] = [Idle EXCEPT !.pc = "granted",
                                  !.client = Dashboard, !.user = u]]
  /\ UNCHANGED <<disabled, code, token, rows, used, revoked, expired, opened>>

Login(w, u) ==
  /\ w \in Threads /\ IsIdle(w)
  /\ u \notin disabled
  /\ req' = [req EXCEPT ![w] = [Idle EXCEPT !.pc = "granted",
                                  !.client = Dashboard, !.user = u]]
  /\ UNCHANGED <<disabled, code, token, rows, used, revoked, expired, opened>>

\* POST /oauth/authorize: a user (or, with the static bearer, the admin)
\* authenticates for a registered client and redirect_uri.
Authorize(u, c) ==
  /\ IsIdle(EventLoop)
  /\ u \notin disabled
  /\ req' = [req EXCEPT ![EventLoop] = [Idle EXCEPT !.pc = "consented",
                                          !.client = c, !.user = u]]
  /\ UNCHANGED <<disabled, code, token, rows, used, revoked, expired, opened>>

\* issue_code: INSERT and commit; the request ends.
IssueCode(k) ==
  /\ req[EventLoop].pc = "consented"
  /\ code[k] = None
  /\ code' = [code EXCEPT ![k] = [client |-> req[EventLoop].client,
                                  user |-> req[EventLoop].user]]
  /\ req' = [req EXCEPT ![EventLoop] = Idle]
  /\ UNCHANGED <<disabled, token, rows, used, revoked, expired, opened>>

\* consume_code up to its checks: the code is unused, unexpired, and the
\* authenticated client's own.
CodeUnexpired(k) == code[k] # None /\ k \notin expired \* mutant: used_at not tested
CodeAcceptable(k) == code[k] # None /\ k \notin used \cup expired

ReadCode(k) ==
  /\ IsIdle(EventLoop)
  /\ CodeAcceptable(k)
  /\ req' = [req EXCEPT ![EventLoop] =
               [Idle EXCEPT !.pc = "codeRead", !.client = code[k].client,
                            !.user = code[k].user, !.secret = k]]
  /\ UNCHANGED <<disabled, code, token, rows, used, revoked, expired, opened>>

\* The rest of consume_code: UPDATE used_at, commit.  No test of used_at.
SpendCodeOnly == \* mutant: the row's user is not returned
  /\ req[EventLoop].pc = "codeRead"
  /\ used' = used \cup {req[EventLoop].secret}
  /\ req' = [req EXCEPT ![EventLoop].pc = "granted", ![EventLoop].user = None]
  /\ UNCHANGED <<disabled, code, token, rows, revoked, expired, opened>>

SpendCode ==
  /\ req[EventLoop].pc = "codeRead"
  /\ used' = used \cup {req[EventLoop].secret}
  /\ req' = [req EXCEPT ![EventLoop].pc = "granted"]
  /\ UNCHANGED <<disabled, code, token, rows, revoked, expired, opened>>

\* issue_refresh_token with no family: the first token of a new family,
\* which the model names after that token.
IssueSession(w, t) ==
  /\ req[w].pc = "granted"
  /\ token[t] = None
  /\ token' = [token EXCEPT ![t] = [client |-> req[w].client,
                 user |-> req[w].user, family |-> t, parent |-> None]]
  /\ rows' = rows \cup {t}
  /\ opened' = [k \in CodeIds |-> IF k = req[w].secret
                                  THEN opened[k] \cup {t} ELSE opened[k]]
  /\ req' = [req EXCEPT ![w] = Idle]
  /\ UNCHANGED <<disabled, code, used, revoked, expired>>

-----------------------------------------------------------------------------
(* Refreshing: consume_refresh_token.                                      *)

\* The row is found under the caller's client, not revoked, not expired.
TokenUnexpired(w, t) == \* mutant: revoked_at is not tested
  t \in rows \ expired /\ Serves(w, token[t].client)

TokenAcceptable(w, t) ==
  /\ t \in rows
  /\ Serves(w, token[t].client)
  /\ t \notin revoked
  /\ t \notin expired

\* The SELECT and the branch it takes.
ReadTokenAsFresh(w, t) == \* mutant: used_at is not tested
  /\ IsIdle(w) /\ TokenAcceptable(w, t)
  /\ req' = [req EXCEPT ![w] =
               [pc |-> "fresh", client |-> token[t].client, user |-> token[t].user,
                secret |-> t, family |-> token[t].family]]
  /\ UNCHANGED <<disabled, code, token, rows, used, revoked, expired, opened>>

ReadToken(w, t) ==
  /\ IsIdle(w)
  /\ TokenAcceptable(w, t)
  /\ req' = [req EXCEPT ![w] =
               [pc |-> IF t \in used THEN "reuse" ELSE "fresh",
                client |-> token[t].client, user |-> token[t].user,
                secret |-> t, family |-> token[t].family]]
  /\ UNCHANGED <<disabled, code, token, rows, used, revoked, expired, opened>>

\* The happy path's transaction: UPDATE used_at (no row left to update after
\* a DELETE), INSERT of the successor, commit.
RotateAs(w, s, family, spent) ==
  /\ req[w].pc = "fresh" /\ token[s] = None
  /\ used' = used \cup spent
  /\ token' = [token EXCEPT ![s] = [client |-> req[w].client,
                 user |-> req[w].user, family |-> family,
                 parent |-> req[w].secret]]
  /\ rows' = rows \cup {s}
  /\ req' = [req EXCEPT ![w] = Idle]
  /\ UNCHANGED <<disabled, code, revoked, expired, opened>>
RotateNewFamily(w, s) == \* mutant: the successor's family is its parent
  RotateAs(w, s, req[w].secret, {req[w].secret} \cap rows)
RotateUnmarked(w, s) == \* mutant: used_at is not set
  RotateAs(w, s, req[w].family, {})

Rotate(w, s) == RotateAs(w, s, req[w].family, {req[w].secret} \cap rows)

\* Reuse detected: UPDATE revoked_at over the family, commit, refuse.
RevokePresented(w) == \* mutant: WHERE token_id, not WHERE family_id
  /\ req[w].pc = "reuse"
  /\ revoked' = revoked \cup ({req[w].secret} \cap rows)
  /\ req' = [req EXCEPT ![w] = Idle]
  /\ UNCHANGED <<disabled, code, token, rows, used, expired, opened>>

RevokeFamily(w) ==
  /\ req[w].pc = "reuse"
  /\ revoked' = revoked \cup (FamilyOf(req[w].family) \cap rows)
  /\ req' = [req EXCEPT ![w] = Idle]
  /\ UNCHANGED <<disabled, code, token, rows, used, expired, opened>>

-----------------------------------------------------------------------------
(* The environment.                                                        *)

\* A request stops between two accesses: the process dies, or the write
\* raises because another connection holds the database lock.
Abort(w) ==
  /\ ~IsIdle(w)
  /\ req' = [req EXCEPT ![w] = Idle]
  /\ UNCHANGED <<disabled, code, token, rows, used, revoked, expired, opened>>

\* disable_user: disabled_at and the DELETE of the user's refresh tokens in
\* one transaction.  The user's codes stay.
DisableUser(u) ==
  /\ u \notin disabled
  /\ disabled' = disabled \cup {u}
  /\ rows' = {t \in rows : token[t].user # u}
  /\ UNCHANGED <<code, token, used, revoked, expired, req, opened>>

\* The clock passes an expires_at.  A successor is minted after its parent
\* was read, with the same lifetime, so it expires later.
ExpireCode(k) ==
  /\ code[k] # None /\ k \notin expired
  /\ expired' = expired \cup {k}
  /\ UNCHANGED <<disabled, code, token, rows, used, revoked, req, opened>>

ExpireToken(t) ==
  /\ token[t] # None /\ t \notin expired
  /\ token[t].parent \in expired \cup {None}
  /\ expired' = expired \cup {t}
  /\ UNCHANGED <<disabled, code, token, rows, used, revoked, req, opened>>

-----------------------------------------------------------------------------
Next ==
  \/ \E w \in Workers, u \in Users : Login(w, u)
  \/ \E u \in Users, c \in Connectors : Authorize(u, c)
  \/ \E k \in CodeIds : IssueCode(k) \/ ReadCode(k) \/ ExpireCode(k)
  \/ SpendCode
  \/ \E w \in Workers, t \in TokenIds :
       IssueSession(w, t) \/ ReadToken(w, t) \/ Rotate(w, t)
  \/ \E w \in Workers : RevokeFamily(w) \/ Abort(w)
  \/ \E u \in Users : DisableUser(u)
  \/ \E t \in TokenIds : ExpireToken(t)

Spec == Init /\ [][Next]_vars

-----------------------------------------------------------------------------
(* What the code promises.                                                 *)

InFlight(w, pc, x) == req[w].pc = pc /\ req[w].secret = x

\* A connector's refresh token is exchanged at most once, whatever the
\* threads and the operator do meanwhile: the unconditional UPDATE of
\* consume_refresh_token (oauth.py:333-336) is safe on the event loop.
ConnectorSingleUse ==
  \A t \in TokenIds : \A s1, s2 \in Successors(t) :
    token[s1].client \in Connectors => s1 = s2

\* An authorization code opens at most one session (oauth.py:215-219 marks it
\* used without testing that it still is unused).
CodeOpensOneSession ==
  \A k \in CodeIds : \A s1, s2 \in opened[k] : s1 = s2

\* Once a reuse has been detected in a connector's family, no row of that
\* family is left unrevoked, now or later (oauth.py:321-330).
ConnectorReuseKillsFamily ==
  \A f \in TokenIds : \A t \in FamilyOf(f), s \in FamilyOf(f) \cap rows :
    (token[t].client \in Connectors /\ t \in revoked) => s \in revoked

\* All the tokens of a family, however its rotations interleaved, belong to
\* one user and one client, and each was minted from an earlier token of the
\* same family (or is its first): a family_id never joins two sessions.
FamilyHasOneOwner ==
  \A f \in TokenIds : \A t \in FamilyOf(f) :
    /\ token[f] # None
    /\ token[t].client = token[f].client /\ token[t].user = token[f].user
    /\ t = f \/ token[t].parent \in FamilyOf(f)

\* A token that has been exchanged, or deleted, and that no request still
\* holds as unused, never gets another successor, on any client.  (With
\* several threads it may have got more than one before.)
Spent(t) ==
  /\ token[t] # None
  /\ t \in used \/ t \notin rows
  /\ \A w \in Workers : ~InFlight(w, "fresh", t)

SpentTokenStaysSpent ==
  [][\A t \in TokenIds :
       Spent(t) => Spent(t)' /\ Successors(t)' = Successors(t)]_vars

\* A family none of whose rows can be exchanged any more, and that no request
\* is exchanging, has ended: it never has an exchangeable token again, by a
\* replay, a new login, or a late INSERT.
Exchangeable(t) == t \in rows \ (used \cup revoked \cup expired)

Ended(f) ==
  /\ FamilyOf(f) # {}
  /\ \A t \in FamilyOf(f) : ~Exchangeable(t)
  /\ \A w \in Workers : ~(req[w].pc = "fresh" /\ req[w].family = f)

EndedFamilyStaysEnded == [][\A f \in TokenIds : Ended(f) => Ended(f)']_vars

\* A disabled user with no exchangeable token, no acceptable code and no
\* request in flight is out for good: nothing gives a session back.
CutOff(u) ==
  /\ u \in disabled
  /\ \A t \in TokenIds : (token[t] # None /\ token[t].user = u) => ~Exchangeable(t)
  /\ \A k \in CodeIds : (code[k] # None /\ code[k].user = u) => ~CodeAcceptable(k)
  /\ \A w \in Workers : req[w].user = u => req[w].pc = "reuse"

CutOffUserStaysOut == [][\A u \in Users : CutOff(u) => CutOff(u)']_vars

-----------------------------------------------------------------------------
(* What the repository says and the code does not do.                      *)

\* oauth.py:285-287: on reuse "both the attacker's stolen copy and the legit
\* user's chain die together".  As ConnectorReuseKillsFamily, for any client.
ReuseKillsFamily ==
  \A f \in TokenIds : \A t \in FamilyOf(f), s \in FamilyOf(f) \cap rows :
    t \in revoked => s \in revoked
=============================================================================
