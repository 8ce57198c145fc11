------------------------ MODULE OAuthSessionsProofs ------------------------
(***************************************************************************)
(* Proofs about OAuthSessions for any sets of users, threads, connectors,  *)
(* codes and tokens.  IInv strengthens the invariants until they are       *)
(* inductive: what rows may be marked (Marked), how a token relates to its *)
(* parent and its family (Lineage), what a request in flight remembers of  *)
(* the row it read (Remembers), and what nobody but the event loop can     *)
(* have done to a connector's token or to a code while the event loop      *)
(* holds it (LoopHolds).                                                   *)
(***************************************************************************)
EXTENDS OAuthSessions, TLAPS

\* Only rows that were inserted are present, used or revoked.
Marked ==
  \A t \in TokenIds : t \in rows \cup used \cup revoked => token[t] # None

\* t has the client and the user of s.
SameOwner(t, s) ==
  token[s] # None /\ token[t].client = token[s].client
                  /\ token[t].user = token[s].user

Lineage ==
  \A t \in TokenIds : token[t] # None =>
    /\ token[t].family # None => SameOwner(t, token[t].family)
    /\ token[t].parent = None => token[t].family \in {t, None}
    /\ token[t].parent # None =>
         /\ SameOwner(t, token[t].parent)
         /\ token[token[t].parent].family = token[t].family
         /\ token[t].parent \in used \/ token[t].parent \notin rows

\* What a request in flight holds agrees with the row it read.
RemembersToken(w) ==
  /\ req[w].secret \in TokenIds
  /\ token[req[w].secret] # None
  /\ req[w].client = token[req[w].secret].client
  /\ req[w].user = token[req[w].secret].user
  /\ req[w].family = token[req[w].secret].family
  /\ Serves(w, req[w].client)

RemembersCode(w) ==
  /\ req[w].secret \in CodeIds
  /\ code[req[w].secret] # None
  /\ req[w].user = code[req[w].secret].user
  /\ req[w].client = code[req[w].secret].client

Remembers ==
  \A w \in Workers :
    /\ req[w].pc = "idle" => req[w] = Idle
    /\ req[w].pc \in {"fresh", "reuse"} => RemembersToken(w)
    /\ req[w].pc = "codeRead" => w = EventLoop /\ RemembersCode(w)
    /\ req[w].pc = "consented" => /\ w = EventLoop
                                  /\ req[w].user \in Users
                                  /\ req[w].client \in Connectors
    /\ req[w].pc = "granted" => /\ req[w].user \in Users
                                /\ req[w].client \in Clients
                                /\ \/ w \in Threads /\ req[w].secret = None
                                   \/ w = EventLoop /\ RemembersCode(w)

\* While the event loop holds a connector's token as unused, the token has no
\* successor and its family no revoked member; while it holds a code, the
\* code has opened no session.
LoopHolds ==
  /\ req[EventLoop].pc = "fresh" =>
       /\ Successors(req[EventLoop].secret) = {}
       /\ FamilyOf(req[EventLoop].family) \cap revoked = {}
  /\ req[EventLoop].pc \in {"codeRead", "granted"} =>
       opened[req[EventLoop].secret] = {}
  /\ req[EventLoop].pc = "granted" => req[EventLoop].secret \in used

\* A code that has opened a session is marked used.
OpenedUsed == \A k \in CodeIds : opened[k] # {} => k \in used

IInv ==
  /\ TypeOK
  /\ Marked
  /\ Lineage
  /\ Remembers
  /\ LoopHolds
  /\ OpenedUsed
  /\ ConnectorSingleUse
  /\ CodeOpensOneSession
  /\ ConnectorReuseKillsFamily

-----------------------------------------------------------------------------
USE WorkersAssumption, ClientsAssumption, SecretsAssumption, LegacyAssumption,
    NoneAssumption, RowsAssumption

\* The initial rows, all of them older than families, satisfy everything.
LEMMA InitIInv == Init => IInv
<1> SUFFICES ASSUME Init PROVE IInv
  OBVIOUS
<1> USE DEF Init
<1>1. PICK old \in [Legacy -> LegacyInfo] :
        token = [t \in TokenIds |-> IF t \in Legacy THEN old[t] ELSE None]
  OBVIOUS
<1>2. \A t \in TokenIds : token[t] # None =>
        t \in Legacy /\ token[t] \in LegacyInfo
  BY <1>1
<1>a. \A t \in Legacy : token[t] # None
  BY <1>1 DEF LegacyInfo, TokenInfo
<1>3. TypeOK
  BY <1>1 DEF TypeOK, Request, Idle, PCs, LegacyInfo, TokenInfo, Clients
<1>4. Marked /\ Lineage
  BY <1>2, <1>a DEF Marked, Lineage, LegacyInfo
<1>5. Remembers /\ LoopHolds /\ OpenedUsed
  BY DEF Remembers, LoopHolds, OpenedUsed, Idle, Workers
<1>6. ConnectorSingleUse /\ CodeOpensOneSession /\ ConnectorReuseKillsFamily
  BY <1>2 DEF ConnectorSingleUse, CodeOpensOneSession,
     ConnectorReuseKillsFamily, FamilyOf, Successors, LegacyInfo
<1> QED
  BY <1>3, <1>4, <1>5, <1>6 DEF IInv

-----------------------------------------------------------------------------
LEMMA TypeInit == Init => TypeOK
  BY InitIInv DEF IInv

\* The two INSERTs write one new row with proper columns.
LEMMA SessionRow ==
  ASSUME IInv, NEW w \in Workers, NEW s \in TokenIds, IssueSession(w, s)
  PROVE  /\ token[s] = None
         /\ token' = [token EXCEPT ![s] = [client |-> req[w].client,
                        user |-> req[w].user, family |-> s, parent |-> None]]
         /\ token'[s] \in TokenInfo /\ token'[s] # None
         /\ rows' = rows \cup {s}
<1>1. req[w].client \in Clients /\ req[w].user \in Users
  BY DEF IInv, IssueSession, Remembers
<1>2. [client |-> req[w].client, user |-> req[w].user,
       family |-> s, parent |-> None] \in TokenInfo
  BY <1>1 DEF TokenInfo
<1> QED
  BY <1>2 DEF IInv, TypeOK, IssueSession

LEMMA SuccessorRow ==
  ASSUME IInv, NEW w \in Workers, NEW s \in TokenIds, Rotate(w, s)
  PROVE  /\ token[s] = None
         /\ req[w].secret \in TokenIds /\ token[req[w].secret] # None
         /\ token' = [token EXCEPT ![s] = [client |-> req[w].client,
                        user |-> req[w].user, family |-> req[w].family,
                        parent |-> req[w].secret]]
         /\ token'[s] \in TokenInfo /\ token'[s] # None
         /\ rows' = rows \cup {s}
<1>1. RemembersToken(w)
  BY DEF IInv, Rotate, RotateAs, Remembers
<1>2. req[w].secret \in TokenIds /\ token[req[w].secret] \in TokenInfo
  BY <1>1 DEF RemembersToken, IInv, TypeOK
<1>3. /\ req[w].client \in Clients /\ req[w].user \in Users
      /\ req[w].family \in TokenIds \cup {None}
  BY <1>1, <1>2 DEF RemembersToken, TokenInfo
<1>4. [client |-> req[w].client, user |-> req[w].user,
       family |-> req[w].family, parent |-> req[w].secret] \in TokenInfo
  BY <1>2, <1>3 DEF TokenInfo
<1> QED
  BY <1>1, <1>2, <1>4 DEF IInv, TypeOK, Rotate, RotateAs, RemembersToken

\* Every action, and a stutter, keeps the variables in their types.
LEMMA TypeStep == IInv /\ [Next]_vars => TypeOK'
<1> SUFFICES ASSUME IInv, [Next]_vars PROVE TypeOK'
  OBVIOUS
<1>0. TypeOK /\ Remembers
  BY DEF IInv
<1> USE DEF TypeOK, Request, Workers, Idle
<1>1. ASSUME NEW w \in Workers, NEW u \in Users, Login(w, u) PROVE TypeOK'
  BY <1>0, <1>1 DEF Login, PCs, Clients
<1>2. ASSUME NEW u \in Users, NEW c \in Connectors, Authorize(u, c)
      PROVE TypeOK'
  BY <1>0, <1>2 DEF Authorize, PCs, Clients
<1>3. ASSUME NEW k \in CodeIds, IssueCode(k) PROVE TypeOK'
  <2>1. req[EventLoop].client \in Connectors /\ req[EventLoop].user \in Users
    BY <1>0, <1>3 DEF IssueCode, Remembers
  <2>2. code' \in [CodeIds -> CodeInfo \cup {None}]
    BY <1>0, <1>3, <2>1 DEF IssueCode, CodeInfo
  <2> QED
    BY <1>0, <1>3, <2>2 DEF IssueCode, PCs
<1>4. ASSUME NEW k \in CodeIds, ReadCode(k) PROVE TypeOK'
  BY <1>0, <1>4 DEF ReadCode, CodeAcceptable, CodeInfo, PCs, Clients
<1>5. ASSUME NEW k \in CodeIds, ExpireCode(k) PROVE TypeOK'
  BY <1>0, <1>5 DEF ExpireCode
<1>6. CASE SpendCode
  BY <1>0, <1>6 DEF SpendCode, PCs, Remembers, RemembersCode
<1>7. ASSUME NEW w \in Workers, NEW t \in TokenIds, IssueSession(w, t)
      PROVE TypeOK'
  <2>2. token' \in [TokenIds -> TokenInfo \cup {None}]
    BY <1>0, <1>7, SessionRow
  <2>3. opened' \in [CodeIds -> SUBSET TokenIds]
    BY <1>0, <1>7 DEF IssueSession
  <2> QED
    BY <1>0, <1>7, <2>2, <2>3 DEF IssueSession, PCs
<1>8. ASSUME NEW w \in Workers, NEW t \in TokenIds, ReadToken(w, t)
      PROVE TypeOK'
  <2>1. token[t] \in TokenInfo
    BY <1>0, <1>8, IInv DEF IInv, ReadToken, TokenAcceptable, Marked
  <2>2. [pc |-> IF t \in used THEN "reuse" ELSE "fresh",
         client |-> token[t].client, user |-> token[t].user,
         secret |-> t, family |-> token[t].family] \in Request
    BY <2>1 DEF TokenInfo, PCs, Clients
  <2> QED
    BY <1>0, <1>8, <2>2 DEF ReadToken
<1>9. ASSUME NEW w \in Workers, NEW t \in TokenIds, Rotate(w, t)
      PROVE TypeOK'
  <2>1. token' \in [TokenIds -> TokenInfo \cup {None}]
    BY <1>0, <1>9, SuccessorRow
  <2> QED
    BY <1>0, <1>9, <2>1 DEF Rotate, RotateAs, PCs, Remembers, RemembersToken
<1>10. ASSUME NEW w \in Workers, RevokeFamily(w) PROVE TypeOK'
  BY <1>0, <1>10 DEF RevokeFamily, FamilyOf, PCs
<1>11. ASSUME NEW w \in Workers, Abort(w) PROVE TypeOK'
  BY <1>0, <1>11 DEF Abort, PCs
<1>12. ASSUME NEW u \in Users, DisableUser(u) PROVE TypeOK'
  BY <1>0, <1>12 DEF DisableUser
<1>13. ASSUME NEW t \in TokenIds, ExpireToken(t) PROVE TypeOK'
  BY <1>0, <1>13 DEF ExpireToken
<1>14. CASE UNCHANGED vars
  BY <1>0, <1>14 DEF vars
<1> QED
  BY <1>1, <1>2, <1>3, <1>4, <1>5, <1>6, <1>7, <1>8, <1>9, <1>10, <1>11,
     <1>12, <1>13, <1>14 DEF Next

-----------------------------------------------------------------------------
(* What no step undoes: columns are written once, marks are never cleared. *)

LEMMA Monotone ==
  ASSUME IInv, [Next]_vars
  PROVE  /\ disabled \subseteq disabled' /\ used \subseteq used'
         /\ revoked \subseteq revoked' /\ expired \subseteq expired'
         /\ \A t \in TokenIds : token[t] # None => token'[t] = token[t]
         /\ \A k \in CodeIds : code[k] # None => code'[k] = code[k]
<1> DEFINE Kept ==
  /\ disabled \subseteq disabled' /\ used \subseteq used'
  /\ revoked \subseteq revoked' /\ expired \subseteq expired'
  /\ \A t \in TokenIds : token[t] # None => token'[t] = token[t]
  /\ \A k \in CodeIds : code[k] # None => code'[k] = code[k]
<1>0. TypeOK
  BY DEF IInv
<1>1. ASSUME NEW w \in Workers, NEW u \in Users, Login(w, u) PROVE Kept
  BY <1>1 DEF Login
<1>2. ASSUME NEW u \in Users, NEW c \in Connectors, Authorize(u, c) PROVE Kept
  BY <1>2 DEF Authorize
<1>3. ASSUME NEW k \in CodeIds, IssueCode(k) PROVE Kept
  BY <1>0, <1>3 DEF IssueCode, TypeOK
<1>4. ASSUME NEW k \in CodeIds, ReadCode(k) \/ ExpireCode(k) PROVE Kept
  BY <1>4 DEF ReadCode, ExpireCode
<1>5. CASE SpendCode
  BY <1>5 DEF SpendCode
<1>6. ASSUME NEW w \in Workers, NEW t \in TokenIds, IssueSession(w, t) PROVE Kept
  BY <1>0, <1>6 DEF IssueSession, TypeOK
<1>7. ASSUME NEW w \in Workers, NEW t \in TokenIds, ReadToken(w, t) PROVE Kept
  BY <1>7 DEF ReadToken
<1>8. ASSUME NEW w \in Workers, NEW t \in TokenIds, Rotate(w, t) PROVE Kept
  BY <1>0, <1>8 DEF Rotate, RotateAs, TypeOK
<1>9. ASSUME NEW w \in Workers, RevokeFamily(w) \/ Abort(w) PROVE Kept
  BY <1>9 DEF RevokeFamily, Abort
<1>10. ASSUME NEW u \in Users, DisableUser(u) PROVE Kept
  BY <1>10 DEF DisableUser
<1>11. ASSUME NEW t \in TokenIds, ExpireToken(t) PROVE Kept
  BY <1>11 DEF ExpireToken
<1>12. CASE UNCHANGED vars
  BY <1>12 DEF vars
<1> QED
  BY <1>1, <1>2, <1>3, <1>4, <1>5, <1>6, <1>7, <1>8, <1>9, <1>10, <1>11, <1>12
     DEF Next

\* A row appears only in IssueSession or Rotate, a used_at only in SpendCode
\* or Rotate, a revoked_at only in RevokeFamily.
LEMMA TokenChanges ==
  ASSUME [Next]_vars
  PROVE  \/ token' = token /\ rows' \subseteq rows
         \/ \E w \in Workers, t \in TokenIds : IssueSession(w, t)
         \/ \E w \in Workers, t \in TokenIds : Rotate(w, t)
BY DEF Next, vars, Login, Authorize, IssueCode, ReadCode, ExpireCode,
   SpendCode, ReadToken, RevokeFamily, Abort, DisableUser, ExpireToken

LEMMA UsedChanges ==
  ASSUME [Next]_vars
  PROVE  \/ used' = used
         \/ SpendCode
         \/ \E w \in Workers, t \in TokenIds : Rotate(w, t)
BY DEF Next, vars, Login, Authorize, IssueCode, ReadCode, ExpireCode,
   IssueSession, ReadToken, RevokeFamily, Abort, DisableUser, ExpireToken

LEMMA RevokedChanges ==
  ASSUME [Next]_vars
  PROVE  \/ revoked' = revoked
         \/ \E w \in Workers : RevokeFamily(w)
BY DEF Next, vars, Login, Authorize, IssueCode, ReadCode, ExpireCode,
   SpendCode, IssueSession, ReadToken, Rotate, RotateAs, Abort, DisableUser,
   ExpireToken

LEMMA MarkedStep == IInv /\ [Next]_vars => Marked'
<1> SUFFICES ASSUME IInv, [Next]_vars, NEW t \in TokenIds,
                    t \in (rows \cup used \cup revoked)'
             PROVE  token'[t] # None
  BY DEF Marked
<1>1. token[t] # None => token'[t] # None
  BY Monotone
<1>2. t \in rows' => t \in rows \/ token'[t] # None
  BY TokenChanges, SessionRow, SuccessorRow
<1>3. t \in used' => t \in used \/ token[t] # None
  <2>1. CASE SpendCode
    BY <2>1 DEF SpendCode, IInv, Remembers, RemembersCode, Workers
  <2>2. ASSUME NEW w \in Workers, NEW s \in TokenIds, Rotate(w, s)
        PROVE t \in used' => t \in used \/ token[t] # None
    BY <2>2, SuccessorRow DEF Rotate, RotateAs
  <2> QED
    BY <2>1, <2>2, UsedChanges
<1>4. t \in revoked' => t \in revoked \/ token[t] # None
  BY RevokedChanges DEF RevokeFamily, FamilyOf
<1> QED
  BY <1>1, <1>2, <1>3, <1>4 DEF IInv, Marked

\* A row never comes back: what is not present now is present next only if it
\* is inserted by this very step.
LEMMA AbsentStaysAbsent ==
  ASSUME IInv, [Next]_vars, NEW t \in TokenIds, token[t] # None, t \notin rows
  PROVE  t \notin rows'
BY TokenChanges, SessionRow, SuccessorRow

LEMMA LineageStep == IInv /\ [Next]_vars => Lineage'
<1> SUFFICES ASSUME IInv, [Next]_vars, NEW t \in TokenIds, token'[t] # None
             PROVE  /\ token'[t].family # None => SameOwner(t, token[t].family)'
                    /\ token'[t].parent = None => token'[t].family \in {t, None}
                    /\ token'[t].parent # None =>
                       /\ SameOwner(t, token[t].parent)'
                       /\ token'[token'[t].parent].family = token'[t].family
                       /\ \/ token'[t].parent \in used'
                          \/ token'[t].parent \notin rows'
  BY DEF Lineage
<1>0. TypeOK /\ Lineage /\ TypeOK'
  BY TypeStep DEF IInv
<1>1. CASE token[t] # None
  <2>1. token'[t] = token[t] /\ token[t] \in TokenInfo
    BY <1>0, <1>1, Monotone DEF TypeOK
  <2>2. \A s \in TokenIds : SameOwner(t, s) => SameOwner(t, s)'
    BY <1>1, Monotone DEF SameOwner
  <2>3. token[t].family # None => SameOwner(t, token[t].family)'
    BY <1>0, <1>1, <2>1, <2>2 DEF Lineage, TokenInfo
  <2>4. ASSUME token[t].parent # None
        PROVE  /\ SameOwner(t, token[t].parent)'
               /\ token'[token[t].parent].family = token[t].family
               /\ token[t].parent \in used' \/ token[t].parent \notin rows'
    <3>1. token[t].parent \in TokenIds /\ SameOwner(t, token[t].parent)
      BY <1>0, <1>1, <2>1, <2>4 DEF Lineage, TokenInfo
    <3>2. token[token[t].parent] # None
      BY <3>1 DEF SameOwner
    <3>3. token'[token[t].parent] = token[token[t].parent]
      BY <3>1, <3>2, Monotone
    <3> QED
      BY <1>0, <1>1, <2>2, <2>4, <3>1, <3>2, <3>3, Monotone, AbsentStaysAbsent
      DEF Lineage
  <2> QED
    BY <1>0, <1>1, <2>1, <2>3, <2>4 DEF Lineage, SameOwner
<1>2. ASSUME token[t] = None, NEW w \in Workers, NEW s \in TokenIds,
             IssueSession(w, s)
      PROVE  token'[t].family = t /\ token'[t].parent = None
  BY <1>0, <1>2, SessionRow DEF TypeOK
<1>3. ASSUME token[t] = None, NEW w \in Workers, NEW s \in TokenIds,
             Rotate(w, s)
      PROVE  \E p \in TokenIds :
             /\ token'[t].parent = p /\ p # None
             /\ SameOwner(t, p)' /\ token'[p].family = token'[t].family
             /\ p \in used' \/ p \notin rows'
             /\ token'[t].family # None => SameOwner(t, token[t].family)'
  <2>0. PICK p \in TokenIds : p = req[w].secret
    BY <1>3, SuccessorRow
  <2>1. s = t
    BY <1>0, <1>3, SuccessorRow DEF TypeOK
  <2>2. token'[t] = [client |-> req[w].client, user |-> req[w].user,
                     family |-> req[w].family, parent |-> p]
    BY <1>0, <1>3, <2>0, <2>1, SuccessorRow DEF TypeOK
  <2>3. /\ p \in TokenIds /\ token[p] # None
        /\ req[w].client = token[p].client /\ req[w].user = token[p].user
        /\ req[w].family = token[p].family
    BY <1>3, <2>0 DEF IInv, Rotate, RotateAs, Remembers, RemembersToken
  <2>4. token'[p] = token[p]
    BY <2>3, Monotone
  <2>5. SameOwner(t, p)' /\ token'[p].family = token'[t].family
    BY <2>2, <2>3, <2>4 DEF SameOwner
  <2>6. p \in used' \/ p \notin rows'
    BY <1>3, <2>0, <2>3, AbsentStaysAbsent DEF Rotate, RotateAs
  <2>7. ASSUME token[p].family # None PROVE SameOwner(t, token[t].family)'
    <3>1. token[p].family \in TokenIds /\ SameOwner(p, token[p].family)
      BY <1>0, <2>3, <2>7 DEF Lineage, TypeOK, TokenInfo
    <3>2. token'[token[p].family] = token[token[p].family]
      BY <3>1, Monotone DEF SameOwner
    <3> QED
      BY <2>2, <2>3, <3>1, <3>2 DEF SameOwner
  <2> QED
    BY <2>2, <2>3, <2>5, <2>6, <2>7
<1>4. token[t] # None \/ \E w \in Workers, s \in TokenIds :
                            IssueSession(w, s) \/ Rotate(w, s)
  BY TokenChanges
<1> QED
  BY <1>1, <1>2, <1>3, <1>4 DEF SameOwner

\* What one worker's request remembers.
RemembersFor(w) ==
  /\ req[w].pc = "idle" => req[w] = Idle
  /\ req[w].pc \in {"fresh", "reuse"} => RemembersToken(w)
  /\ req[w].pc = "codeRead" => w = EventLoop /\ RemembersCode(w)
  /\ req[w].pc = "consented" => /\ w = EventLoop
                                /\ req[w].user \in Users
                                /\ req[w].client \in Connectors
  /\ req[w].pc = "granted" => /\ req[w].user \in Users
                              /\ req[w].client \in Clients
                              /\ \/ w \in Threads /\ req[w].secret = None
                                 \/ w = EventLoop /\ RemembersCode(w)

\* A request that does not move goes on remembering right.
LEMMA StillRemembers ==
  ASSUME IInv, [Next]_vars, NEW w \in Workers, req'[w] = req[w]
  PROVE  RemembersFor(w)'
<1>1. RemembersFor(w)
  BY DEF IInv, Remembers, RemembersFor
<1>2. RemembersToken(w) => RemembersToken(w)'
  BY Monotone DEF RemembersToken
<1>3. RemembersCode(w) => RemembersCode(w)'
  BY Monotone DEF RemembersCode
<1> QED
  BY <1>1, <1>2, <1>3 DEF RemembersFor

LEMMA RemembersStep == IInv /\ [Next]_vars => Remembers'
<1> SUFFICES ASSUME IInv, [Next]_vars, NEW w \in Workers
             PROVE  RemembersFor(w)'
  BY DEF Remembers, RemembersFor
<1>0. TypeOK /\ Remembers
  BY DEF IInv
<1>a. CASE req'[w] = req[w]
  BY <1>a, StillRemembers
<1>b. CASE req'[w] = Idle
  BY <1>b DEF RemembersFor, Idle
<1>1. ASSUME NEW v \in Workers, NEW u \in Users, Login(v, u)
      PROVE  RemembersFor(w)'
  <2>1. CASE v = w
    BY <1>0, <1>1, <2>1 DEF Login, TypeOK, RemembersFor, Idle, Clients
  <2> QED
    BY <1>0, <1>1, <1>a, <2>1 DEF Login, TypeOK
<1>2. ASSUME NEW u \in Users, NEW c \in Connectors, Authorize(u, c)
      PROVE  RemembersFor(w)'
  <2>1. CASE w = EventLoop
    BY <1>0, <1>2, <2>1 DEF Authorize, TypeOK, RemembersFor, Idle, Clients
  <2> QED
    BY <1>0, <1>2, <1>a, <2>1 DEF Authorize, TypeOK
<1>3. ASSUME NEW k \in CodeIds, ReadCode(k) PROVE RemembersFor(w)'
  <2>1. CASE w = EventLoop
    <3>1. req'[w] = [Idle EXCEPT !.pc = "codeRead", !.client = code[k].client,
                                 !.user = code[k].user, !.secret = k]
      BY <1>0, <1>3, <2>1 DEF ReadCode, TypeOK
    <3>2. code[k] # None /\ code' = code
      BY <1>3 DEF ReadCode, CodeAcceptable
    <3> QED
      BY <2>1, <3>1, <3>2 DEF RemembersFor, RemembersCode, Idle
  <2> QED
    BY <1>0, <1>3, <1>a, <2>1 DEF ReadCode, TypeOK
<1>4. CASE SpendCode
  <2>1. CASE w = EventLoop
    <3>1. RemembersCode(w) /\ code[req[w].secret] \in CodeInfo
      BY <1>0, <1>4, <2>1 DEF SpendCode, Remembers, RemembersCode, TypeOK
    <3>2. req'[w] = [req[w] EXCEPT !.pc = "granted"] /\ req[w] \in Request
      BY <1>0, <1>4, <2>1 DEF SpendCode, TypeOK
    <3>3. code' = code
      BY <1>4 DEF SpendCode
    <3>4. RemembersCode(w)'
      BY <3>1, <3>2, <3>3 DEF RemembersCode, Request
    <3>5. req'[w].pc = "granted" /\ req'[w].user \in Users
          /\ req'[w].client \in Clients
      BY <3>1, <3>2 DEF RemembersCode, Request, CodeInfo, Clients
    <3> QED
      BY <2>1, <3>4, <3>5 DEF RemembersFor
  <2> QED
    BY <1>0, <1>4, <1>a, <2>1 DEF SpendCode, TypeOK
<1>5. ASSUME NEW v \in Workers, NEW t \in TokenIds, ReadToken(v, t)
      PROVE  RemembersFor(w)'
  <2>1. CASE v = w
    <3>1. req'[w] = [pc |-> IF t \in used THEN "reuse" ELSE "fresh",
                     client |-> token[t].client, user |-> token[t].user,
                     secret |-> t, family |-> token[t].family]
      BY <1>0, <1>5, <2>1 DEF ReadToken, TypeOK
    <3>2. token' = token /\ token[t] # None /\ Serves(w, token[t].client)
      BY <1>5, <2>1 DEF ReadToken, TokenAcceptable, IInv, Marked
    <3> QED
      BY <3>1, <3>2 DEF RemembersFor, RemembersToken, Serves
  <2> QED
    BY <1>0, <1>5, <1>a, <2>1 DEF ReadToken, TypeOK
<1>6. ASSUME NEW v \in Workers,
             \/ \E s \in TokenIds : IssueSession(v, s) \/ Rotate(v, s)
             \/ RevokeFamily(v) \/ Abort(v)
      PROVE  RemembersFor(w)'
  BY <1>0, <1>6, <1>a, <1>b
  DEF IssueSession, Rotate, RotateAs, RevokeFamily, Abort, TypeOK
<1>7. ASSUME NEW k \in CodeIds, IssueCode(k) \/ ExpireCode(k)
      PROVE  RemembersFor(w)'
  BY <1>0, <1>7, <1>a, <1>b DEF IssueCode, ExpireCode, TypeOK
<1>8. ASSUME \/ \E u \in Users : DisableUser(u)
             \/ \E t \in TokenIds : ExpireToken(t)
             \/ UNCHANGED vars
      PROVE  RemembersFor(w)'
  BY <1>8, <1>a DEF DisableUser, ExpireToken, vars
<1> QED
  BY <1>1, <1>2, <1>3, <1>4, <1>5, <1>6, <1>7, <1>8 DEF Next

-----------------------------------------------------------------------------
(* Who can add a successor to a token or a member to a family.             *)

LEMMA NewSuccessor ==
  ASSUME IInv, [Next]_vars, NEW t \in TokenIds, NEW s \in TokenIds,
         s \in Successors(t)', s \notin Successors(t)
  PROVE  \E w \in Workers : Rotate(w, s) /\ req[w].secret = t
<1>1. token'[s] # None /\ token'[s].parent = t
  BY DEF Successors
<1>2. token[s] = None
  BY <1>1, Monotone DEF Successors
<1>3. ASSUME NEW w \in Workers, NEW x \in TokenIds, IssueSession(w, x)
      PROVE  FALSE
  <2>1. token'[s].parent = None
    BY <1>1, <1>2, <1>3, SessionRow DEF IInv, TypeOK
  <2> QED
    BY <1>1, <2>1, NoneAssumption
<1>4. ASSUME NEW w \in Workers, NEW x \in TokenIds, Rotate(w, x)
      PROVE  Rotate(w, s) /\ req[w].secret = t
  BY <1>1, <1>2, <1>4, SuccessorRow DEF IInv, TypeOK
<1> QED
  BY <1>1, <1>2, <1>3, <1>4, TokenChanges

LEMMA NewMember ==
  ASSUME IInv, [Next]_vars, NEW f \in TokenIds, NEW s \in TokenIds,
         s \in FamilyOf(f)', s \notin FamilyOf(f)
  PROVE  \/ \E w \in Workers : IssueSession(w, s) /\ s = f
         \/ \E w \in Workers : Rotate(w, s) /\ req[w].family = f
<1>1. token'[s] # None /\ token'[s].family = f
  BY DEF FamilyOf
<1>2. token[s] = None
  BY <1>1, Monotone DEF FamilyOf
<1>3. ASSUME NEW w \in Workers, NEW x \in TokenIds, IssueSession(w, x)
      PROVE  IssueSession(w, s) /\ s = f
  BY <1>1, <1>2, <1>3, SessionRow DEF IInv, TypeOK
<1>4. ASSUME NEW w \in Workers, NEW x \in TokenIds, Rotate(w, x)
      PROVE  Rotate(w, s) /\ req[w].family = f
  BY <1>1, <1>2, <1>4, SuccessorRow DEF IInv, TypeOK
<1> QED
  BY <1>1, <1>2, <1>3, <1>4, TokenChanges

LEMMA Growing ==
  ASSUME IInv, [Next]_vars, NEW t \in TokenIds
  PROVE  Successors(t) \subseteq Successors(t)' /\ FamilyOf(t) \subseteq FamilyOf(t)'
BY Monotone DEF Successors, FamilyOf

\* Two members of a family have one client.
LEMMA OneClient ==
  ASSUME Lineage, NEW f \in TokenIds, NEW s \in FamilyOf(f), NEW t \in FamilyOf(f)
  PROVE  token[s].client = token[t].client
BY DEF Lineage, SameOwner, FamilyOf

\* Only the event loop works on a connector's token.
LEMMA LoopOwns ==
  ASSUME IInv, NEW w \in Workers, req[w].pc \in {"fresh", "reuse"},
         req[w].client \in Connectors
  PROVE  w = EventLoop
BY DEF IInv, Remembers, RemembersToken, Serves

LEMMA SingleUseStep == IInv /\ [Next]_vars => ConnectorSingleUse'
<1> SUFFICES ASSUME IInv, [Next]_vars, NEW t \in TokenIds,
                    NEW s1 \in Successors(t)', NEW s2 \in Successors(t)',
                    token'[s1].client \in Connectors
             PROVE  s1 = s2
  BY DEF ConnectorSingleUse
<1>0. s1 \in TokenIds /\ s2 \in TokenIds /\ Lineage'
  BY LineageStep DEF Successors
<1>1. token'[s1].client = token'[t].client /\ token'[s2].client = token'[t].client
  BY <1>0, NoneAssumption DEF Lineage, SameOwner, Successors
<1>2. ASSUME NEW w \in Workers, NEW s \in TokenIds,
             Rotate(w, s), req[w].secret = t
      PROVE  Successors(t) = {}
  <2>1. /\ req[w].pc = "fresh" /\ RemembersToken(w)
    BY <1>2 DEF Rotate, RotateAs, IInv, Remembers
  <2>2. token'[t] = token[t]
    BY <1>2, <2>1, Monotone DEF RemembersToken
  <2>3. req[w].client \in Connectors
    BY <1>1, <1>2, <2>1, <2>2 DEF RemembersToken
  <2> QED
    BY <1>2, <2>1, <2>3, LoopOwns DEF IInv, LoopHolds
<1>3. CASE s1 \in Successors(t) /\ s2 \in Successors(t)
  <2>1. token[s1].client \in Connectors
    BY <1>0, <1>3, Monotone DEF Successors
  <2> QED
    BY <1>3, <2>1 DEF IInv, ConnectorSingleUse
<1>4. ASSUME NEW w \in Workers, NEW s \in TokenIds, Rotate(w, s),
             NEW x \in Successors(t)', Successors(t) = {}
      PROVE  x = s
  <2>1. token'[x] # None /\ x \in TokenIds /\ token[x] = None
    BY <1>4, Monotone DEF Successors
  <2> QED
    BY <1>4, <2>1, SuccessorRow DEF IInv, TypeOK
<1>5. CASE s1 \notin Successors(t) \/ s2 \notin Successors(t)
  <2>1. PICK w \in Workers, s \in TokenIds : Rotate(w, s) /\ req[w].secret = t
    BY <1>0, <1>5, NewSuccessor
  <2>2. Successors(t) = {}
    BY <1>2, <2>1
  <2> QED
    BY <1>4, <2>1, <2>2
<1> QED
  BY <1>3, <1>5

LEMMA ReuseStep == IInv /\ [Next]_vars => ConnectorReuseKillsFamily'
<1> SUFFICES ASSUME IInv, [Next]_vars, NEW f \in TokenIds,
                    NEW t \in FamilyOf(f)', NEW s \in FamilyOf(f)',
                    s \in rows', token'[t].client \in Connectors, t \in revoked'
             PROVE  s \in revoked'
  BY DEF ConnectorReuseKillsFamily
<1>0. t \in TokenIds /\ s \in TokenIds
  BY DEF FamilyOf
<1>1. CASE t \in revoked
  <2>1. token[t] # None /\ token'[t] = token[t]
    BY <1>0, <1>1, Monotone DEF IInv, Marked
  <2>2. t \in FamilyOf(f) /\ token[t].client \in Connectors /\ token[f] # None
    BY <1>0, <2>1 DEF FamilyOf, IInv, Lineage, SameOwner
  <2>3. CASE s \in FamilyOf(f)
    <3>1. s \in rows
      BY <1>0, <2>3, AbsentStaysAbsent DEF FamilyOf
    <3> QED
      BY <1>1, <2>2, <2>3, <3>1, Monotone DEF IInv, ConnectorReuseKillsFamily
  <2>4. CASE s \notin FamilyOf(f)
    <3>1. PICK w \in Workers : Rotate(w, s) /\ req[w].family = f
      BY <1>0, <2>2, <2>4, NewMember, SessionRow
    <3>2. req[w].pc = "fresh" /\ RemembersToken(w)
      BY <3>1 DEF Rotate, RotateAs, IInv, Remembers
    <3>3. req[w].secret \in FamilyOf(f)
      BY <3>1, <3>2 DEF RemembersToken, FamilyOf
    <3>4. req[w].client \in Connectors
      BY <2>2, <3>2, <3>3, OneClient DEF RemembersToken, IInv
    <3>5. FamilyOf(f) \cap revoked = {}
      BY <3>1, <3>2, <3>4, LoopOwns DEF IInv, LoopHolds
    <3> QED
      BY <1>1, <2>2, <3>5
  <2> QED
    BY <2>3, <2>4
<1>2. CASE t \notin revoked
  <2>1. PICK w \in Workers : RevokeFamily(w)
    BY <1>2, RevokedChanges
  <2>2. t \in FamilyOf(req[w].family) /\ token' = token /\ rows' = rows
    BY <1>2, <2>1 DEF RevokeFamily
  <2>3. req[w].family = f
    BY <2>2 DEF FamilyOf
  <2> QED
    BY <2>1, <2>2, <2>3 DEF RevokeFamily, FamilyOf
<1> QED
  BY <1>1, <1>2

\* While the event loop holds a connector's token, no other worker touches
\* the token's successors or its family's marks.
LEMMA LoopHoldsFresh ==
  ASSUME IInv, [Next]_vars, req[EventLoop].pc = "fresh",
         req'[EventLoop] = req[EventLoop]
  PROVE  /\ Successors(req[EventLoop].secret)' = {}
         /\ (FamilyOf(req[EventLoop].family) \cap revoked)' = {}
<1> DEFINE R == req[EventLoop]
<1>1. /\ RemembersToken(EventLoop) /\ R.client \in Connectors
      /\ TypeOK /\ Lineage /\ R \in Request
  BY DEF IInv, Remembers, RemembersToken, Serves, Workers, TypeOK
<1>2. /\ Successors(R.secret) = {} /\ FamilyOf(R.family) \cap revoked = {}
  BY DEF IInv, LoopHolds
<1>3. PICK t \in TokenIds : t = R.secret
  BY <1>1 DEF RemembersToken
<1>4. \A w \in Workers, s \in TokenIds : ~(Rotate(w, s) /\ req[w].secret = t)
  <2> SUFFICES ASSUME NEW w \in Workers, NEW s \in TokenIds,
                      Rotate(w, s), req[w].secret = t
               PROVE  FALSE
    OBVIOUS
  <2>1. w = EventLoop
    BY <1>1, <1>3, LoopOwns
    DEF Rotate, RotateAs, RemembersToken, IInv, Remembers
  <2> QED
    BY <1>1, <2>1 DEF Rotate, RotateAs, Idle, TypeOK
<1>5. Successors(t)' = {}
  BY <1>2, <1>3, <1>4, NewSuccessor DEF Successors
<1>6. ASSUME NEW f \in TokenIds, f = R.family, NEW x \in TokenIds,
             x \in FamilyOf(f)', x \in revoked'
      PROVE  FALSE
  <2>1. CASE x \in revoked
    BY <1>2, <1>6, <2>1, Monotone DEF FamilyOf, IInv, Marked
  <2>2. CASE x \notin revoked
    <3>1. PICK w \in Workers : RevokeFamily(w)
      BY <1>6, <2>2, RevokedChanges
    <3>2. x \in FamilyOf(req[w].family) /\ token' = token
      BY <1>6, <2>2, <3>1 DEF RevokeFamily
    <3>3. req[w].family = f
      BY <1>6, <3>2 DEF FamilyOf
    <3>4. req[w].secret \in FamilyOf(f) /\ t \in FamilyOf(f) /\ RemembersToken(w)
          /\ req[w].pc = "reuse"
      BY <1>1, <1>3, <1>6, <3>1, <3>3
      DEF RevokeFamily, IInv, Remembers, RemembersToken, FamilyOf
    <3>5. w = EventLoop
      BY <1>1, <1>3, <3>4, OneClient, LoopOwns DEF RemembersToken
    <3> QED
      BY <1>1, <3>1, <3>5 DEF RevokeFamily, Idle, TypeOK
  <2> QED
    BY <2>1, <2>2
<1>7. FamilyOf(None)' = {}
  BY DEF FamilyOf
<1> QED
  BY <1>1, <1>3, <1>5, <1>6, <1>7 DEF Request, FamilyOf

\* Only the event loop's requests hold a code.
LEMMA CodeHolder ==
  ASSUME IInv, NEW w \in Workers, NEW k \in CodeIds, req[w].secret = k
  PROVE  w = EventLoop
<1>1. req[w].secret \notin TokenIds /\ req[w].secret # None
  BY SecretsAssumption, NoneAssumption
<1>2. req[w].pc \in PCs
  BY DEF IInv, TypeOK, Request
<1> QED
  BY <1>1, <1>2 DEF IInv, PCs, Remembers, RemembersToken, Idle

LEMMA OpenedChanges ==
  ASSUME IInv, [Next]_vars, NEW k \in CodeIds, opened'[k] # opened[k]
  PROVE  /\ req[EventLoop].pc = "granted" /\ req[EventLoop].secret = k
         /\ \E t \in TokenIds :
              IssueSession(EventLoop, t) /\ opened'[k] = opened[k] \cup {t}
<1>1. PICK w \in Workers, t \in TokenIds : IssueSession(w, t)
  BY DEF Next, vars, Login, Authorize, IssueCode, ReadCode, ExpireCode,
     SpendCode, ReadToken, Rotate, RotateAs, RevokeFamily, Abort, DisableUser,
     ExpireToken
<1> QED
  BY <1>1, CodeHolder DEF IssueSession

LEMMA OpenedStep == IInv /\ [Next]_vars => OpenedUsed' /\ CodeOpensOneSession'
<1> SUFFICES ASSUME IInv, [Next]_vars, NEW k \in CodeIds
             PROVE  /\ opened'[k] # {} => k \in used'
                    /\ \A s1, s2 \in opened'[k] : s1 = s2
  BY DEF OpenedUsed, CodeOpensOneSession
<1>1. CASE opened'[k] = opened[k]
  BY <1>1, Monotone DEF IInv, OpenedUsed, CodeOpensOneSession
<1>2. CASE opened'[k] # opened[k]
  BY <1>2, OpenedChanges, Monotone DEF IInv, LoopHolds
<1> QED
  BY <1>1, <1>2

LEMMA LoopStep == IInv /\ [Next]_vars => LoopHolds'
<1> SUFFICES ASSUME IInv, [Next]_vars PROVE LoopHolds'
  OBVIOUS
<1>0. TypeOK /\ EventLoop \in Workers /\ TypeOK'
  BY TypeStep DEF IInv, Workers
<1>1. CASE req'[EventLoop] = req[EventLoop]
  <2>1. ASSUME req[EventLoop].pc \in {"codeRead", "granted"}
        PROVE  opened'[req[EventLoop].secret] = {}
    <3>1. PICK k \in CodeIds : k = req[EventLoop].secret
      BY <1>0, <2>1 DEF IInv, Remembers, RemembersCode
    <3>2. opened'[k] = opened[k]
      BY <1>0, <1>1, <3>1, OpenedChanges DEF IssueSession, Idle, TypeOK
    <3> QED
      BY <2>1, <3>1, <3>2 DEF IInv, LoopHolds
  <2> QED
    BY <1>1, <2>1, LoopHoldsFresh, Monotone DEF IInv, LoopHolds
<1>2. CASE req'[EventLoop].pc \in {"idle", "consented", "reuse"}
  BY <1>2 DEF LoopHolds
<1>3. ASSUME NEW t \in TokenIds, ReadToken(EventLoop, t),
             req'[EventLoop].pc = "fresh"
      PROVE  LoopHolds'
  <2>1. /\ req'[EventLoop].secret = t /\ req'[EventLoop].family = token[t].family
        /\ t \notin used /\ t \in rows \ revoked
        /\ token[t].client \in Connectors
    BY <1>0, <1>3 DEF ReadToken, TypeOK, TokenAcceptable, Serves
  <2>2. token[t] # None /\ token' = token /\ revoked' = revoked
    BY <1>3, <2>1 DEF ReadToken, IInv, Marked
  <2>3. Successors(t) = {}
    BY <2>1, NoneAssumption DEF Successors, IInv, Lineage
  <2>4. ASSUME NEW x \in FamilyOf(token[t].family), x \in revoked
        PROVE  FALSE
    <3>1. token[t].family \in TokenIds /\ t \in FamilyOf(token[t].family)
      BY <1>0, <2>2, <2>4 DEF FamilyOf, TypeOK, TokenInfo
    <3>2. token[x].client \in Connectors
      BY <2>1, <2>4, <3>1, OneClient DEF IInv
    <3> QED
      BY <2>1, <2>4, <3>1, <3>2 DEF IInv, ConnectorReuseKillsFamily
  <2> QED
    BY <1>3, <2>1, <2>2, <2>3, <2>4 DEF LoopHolds, Successors, FamilyOf
<1>4. ASSUME NEW k \in CodeIds, ReadCode(k) PROVE LoopHolds'
  BY <1>0, <1>4
  DEF ReadCode, CodeAcceptable, TypeOK, IInv, OpenedUsed, LoopHolds, Idle
<1>5. CASE SpendCode
  BY <1>0, <1>5 DEF SpendCode, TypeOK, IInv, LoopHolds, Request
<1>6. \/ req'[EventLoop] = req[EventLoop]
      \/ req'[EventLoop].pc \in {"idle", "consented", "reuse"}
      \/ \E t \in TokenIds : ReadToken(EventLoop, t) /\ req'[EventLoop].pc = "fresh"
      \/ \E k \in CodeIds : ReadCode(k)
      \/ SpendCode
  <2>1. ASSUME NEW w \in Workers, NEW u \in Users, Login(w, u)
        PROVE  req'[EventLoop] = req[EventLoop]
    BY <1>0, <2>1, WorkersAssumption DEF Login, TypeOK
  <2>2. ASSUME NEW u \in Users, NEW c \in Connectors, Authorize(u, c)
        PROVE  req'[EventLoop].pc = "consented"
    BY <1>0, <2>2 DEF Authorize, TypeOK, Idle
  <2>3. ASSUME NEW w \in Workers,
               \/ \E s \in TokenIds : IssueSession(w, s) \/ Rotate(w, s)
               \/ RevokeFamily(w) \/ Abort(w)
        PROVE  req'[EventLoop] = req[EventLoop] \/ req'[EventLoop].pc = "idle"
    BY <1>0, <2>3
    DEF IssueSession, Rotate, RotateAs, RevokeFamily, Abort, TypeOK, Idle
  <2>4. ASSUME NEW w \in Workers, NEW t \in TokenIds, ReadToken(w, t)
        PROVE  \/ req'[EventLoop] = req[EventLoop]
               \/ w = EventLoop /\ req'[EventLoop].pc \in {"fresh", "reuse"}
    BY <1>0, <2>4 DEF ReadToken, TypeOK
  <2>5. ASSUME NEW k \in CodeIds, IssueCode(k)
        PROVE  req'[EventLoop].pc = "idle"
    BY <1>0, <2>5 DEF IssueCode, TypeOK, Idle
  <2>6. ASSUME \/ \E k \in CodeIds : ExpireCode(k)
               \/ \E u \in Users : DisableUser(u)
               \/ \E t \in TokenIds : ExpireToken(t)
               \/ UNCHANGED vars
        PROVE  req' = req
    BY <2>6 DEF ExpireCode, DisableUser, ExpireToken, vars
  <2> QED
    BY <2>1, <2>2, <2>3, <2>4, <2>5, <2>6 DEF Next
<1> QED
  BY <1>1, <1>2, <1>3, <1>4, <1>5, <1>6

-----------------------------------------------------------------------------
(* The invariants, for any instance.                                       *)

LEMMA IInvStep == IInv /\ [Next]_vars => IInv'
  BY TypeStep, MarkedStep, LineageStep, RemembersStep, LoopStep, OpenedStep,
     SingleUseStep, ReuseStep DEF IInv

\* IInv is inductive, so it holds in every reachable state.
THEOREM Inductive == Spec => []IInv
<1>1. Init => IInv
  BY InitIInv
<1>2. IInv /\ [Next]_vars => IInv'
  BY IInvStep
<1> QED
  BY <1>1, <1>2, PTL DEF Spec

\* The tables and the requests in flight keep their types.
THEOREM TypeCorrect == Spec => []TypeOK
  BY Inductive, PTL DEF IInv

\* A connector's refresh token is exchanged at most once, for any number of
\* threads and connectors: oauth.py:333-336 marks a token used without testing
\* that it still is unused, and /oauth/token runs on the event loop alone.
THEOREM ConnectorTokensAreSingleUse == Spec => []ConnectorSingleUse
  BY Inductive, PTL DEF IInv

\* An authorization code opens at most one session (consume_code).
THEOREM CodesAreOneTime == Spec => []CodeOpensOneSession
  BY Inductive, PTL DEF IInv

\* A reuse detected in a connector's family leaves no unrevoked row in it.
THEOREM ConnectorReuseIsFatal == Spec => []ConnectorReuseKillsFamily
  BY Inductive, PTL DEF IInv

LEMMA OwnerFromLineage == TypeOK /\ Lineage => FamilyHasOneOwner
<1> SUFFICES ASSUME TypeOK, Lineage, NEW f \in TokenIds, NEW t \in FamilyOf(f)
             PROVE  /\ SameOwner(t, f)
                    /\ t = f \/ token[t].parent \in FamilyOf(f)
  BY DEF FamilyHasOneOwner, SameOwner
<1>1. /\ t \in TokenIds /\ token[t] # None /\ token[t].family = f
      /\ token[t] \in TokenInfo /\ f # None
  BY DEF FamilyOf, TypeOK
<1>2. token[t].parent = None => t = f
  BY <1>1 DEF Lineage
<1>3. token[t].parent # None => token[t].parent \in FamilyOf(f)
  BY <1>1 DEF Lineage, SameOwner, FamilyOf, TokenInfo
<1> QED
  BY <1>1, <1>2, <1>3 DEF Lineage

\* A family never mixes two users or two clients, and each of its tokens
\* descends from its first one (the copies in oauth.py:339-347).
THEOREM FamiliesHaveOneOwner == Spec => []FamilyHasOneOwner
  BY Inductive, OwnerFromLineage, PTL DEF IInv

-----------------------------------------------------------------------------
(* What a step may never do.                                               *)

\* Only ReadToken, of an unused row, makes a request hold a token as fresh.
LEMMA FreshReads ==
  ASSUME IInv, [Next]_vars, NEW w \in Workers, req'[w].pc = "fresh"
  PROVE  \/ req'[w] = req[w]
         \/ \E t \in TokenIds : /\ ReadToken(w, t) /\ t \notin used
                                /\ req'[w].secret = t
                                /\ req'[w].family = token[t].family
<1>0. TypeOK
  BY DEF IInv
<1>1. ASSUME NEW v \in Workers, NEW t \in TokenIds, ReadToken(v, t)
      PROVE  \/ req'[w] = req[w]
             \/ v = w /\ t \notin used /\ req'[w].secret = t
                      /\ req'[w].family = token[t].family
  BY <1>0, <1>1 DEF ReadToken, TypeOK
<1>2. ASSUME NEW v \in Workers, NEW u \in Users, Login(v, u)
      PROVE  req'[w] = req[w]
  BY <1>0, <1>2 DEF Login, TypeOK, Idle
<1>3. ASSUME NEW u \in Users, NEW c \in Connectors, Authorize(u, c)
      PROVE  req'[w] = req[w]
  BY <1>0, <1>3 DEF Authorize, TypeOK, Idle
<1>4. ASSUME NEW k \in CodeIds, IssueCode(k) \/ ReadCode(k) \/ ExpireCode(k)
      PROVE  req'[w] = req[w]
  <2>1. CASE ReadCode(k)
    BY <1>0, <2>1 DEF ReadCode, TypeOK, Idle
  <2> QED
    BY <1>0, <1>4, <2>1 DEF IssueCode, ExpireCode, TypeOK, Idle
<1>5. CASE SpendCode
  BY <1>0, <1>5 DEF SpendCode, TypeOK, Request, Workers
<1>6. ASSUME NEW v \in Workers,
             \/ \E s \in TokenIds : IssueSession(v, s) \/ Rotate(v, s)
             \/ RevokeFamily(v) \/ Abort(v)
      PROVE  req'[w] = req[w]
  BY <1>0, <1>6
  DEF IssueSession, Rotate, RotateAs, RevokeFamily, Abort, TypeOK, Idle
<1>7. ASSUME \/ \E u \in Users : DisableUser(u)
             \/ \E t \in TokenIds : ExpireToken(t)
             \/ UNCHANGED vars
      PROVE  req'[w] = req[w]
  BY <1>7 DEF DisableUser, ExpireToken, vars
<1> QED
  BY <1>1, <1>2, <1>3, <1>4, <1>5, <1>6, <1>7 DEF Next

\* An exchanged token that no request still holds is exchanged no more.
THEOREM SpentForGood == Spec => SpentTokenStaysSpent
<1>1. ASSUME IInv, [Next]_vars, NEW t \in TokenIds, Spent(t)
      PROVE  Spent(t)' /\ Successors(t)' = Successors(t)
  <2>1. token'[t] # None /\ (t \in used' \/ t \notin rows')
    BY <1>1, Monotone, AbsentStaysAbsent DEF Spent
  <2>2. ASSUME NEW w \in Workers PROVE ~InFlight(w, "fresh", t)'
    BY <1>1, <2>2, FreshReads DEF InFlight, Spent, ReadToken, TokenAcceptable
  <2>3. Successors(t)' = Successors(t)
    <3>1. ASSUME NEW s \in TokenIds, s \in Successors(t)', s \notin Successors(t)
          PROVE  FALSE
      BY <1>1, <3>1, NewSuccessor DEF Spent, InFlight, Rotate, RotateAs
    <3> QED
      BY <1>1, <3>1, Growing DEF Successors
  <2> QED
    BY <2>1, <2>2, <2>3 DEF Spent
<1>2. IInv /\ [Next]_vars =>
        \A t \in TokenIds : Spent(t) => Spent(t)' /\ Successors(t)' = Successors(t)
  BY <1>1
<1> QED
  BY <1>2, Inductive, PTL DEF Spec, SpentTokenStaysSpent

\* What cannot be exchanged now cannot be exchanged next.
LEMMA NeverAgain ==
  ASSUME IInv, [Next]_vars, NEW t \in TokenIds, token[t] # None, ~Exchangeable(t)
  PROVE  ~Exchangeable(t)'
BY Monotone, AbsentStaysAbsent DEF Exchangeable

\* An ended family never has an exchangeable token again.
THEOREM EndedForGood == Spec => EndedFamilyStaysEnded
<1>1. ASSUME IInv, [Next]_vars, NEW f \in TokenIds, Ended(f)
      PROVE  Ended(f)'
  <2>1. FamilyOf(f)' # {}
    BY <1>1, Growing DEF Ended
  <2>2. token[f] # None
    BY <1>1 DEF Ended, FamilyOf, IInv, Lineage, SameOwner
  <2>3. FamilyOf(f)' = FamilyOf(f)
    <3>1. ASSUME NEW s \in TokenIds, s \in FamilyOf(f)', s \notin FamilyOf(f)
          PROVE  FALSE
      BY <1>1, <2>2, <3>1, NewMember, SessionRow DEF Ended, Rotate, RotateAs
    <3> QED
      BY <1>1, <3>1, Growing DEF FamilyOf
  <2>4. ASSUME NEW t \in FamilyOf(f)' PROVE ~Exchangeable(t)'
    BY <1>1, <2>3, <2>4, NeverAgain DEF Ended, FamilyOf
  <2>5. ASSUME NEW w \in Workers PROVE ~(req[w].pc = "fresh" /\ req[w].family = f)'
    <3>1. ASSUME NEW t \in TokenIds, ReadToken(w, t), t \notin used,
                 token[t].family = f
          PROVE  FALSE
      BY <1>1, <3>1, NoneAssumption
      DEF ReadToken, TokenAcceptable, Ended, Exchangeable, FamilyOf, IInv, Marked
    <3> QED
      BY <1>1, <3>1, FreshReads DEF Ended
  <2> QED
    BY <2>1, <2>4, <2>5 DEF Ended
<1>2. IInv /\ [Next]_vars => \A f \in TokenIds : Ended(f) => Ended(f)'
  BY <1>1
<1> QED
  BY <1>2, Inductive, PTL DEF Spec, EndedFamilyStaysEnded

\* A request in flight next is one in flight now, or one just begun.
LEMMA NewRequests ==
  ASSUME IInv, [Next]_vars, NEW w \in Workers, NEW u \in Users,
         req'[w].user = u
  PROVE  \/ req[w].user = u /\ req[w].pc # "codeRead" /\ req'[w].pc = req[w].pc
         \/ req[w].user = u /\ req[w].pc = "codeRead"
         \/ u \notin disabled
         \/ \E k \in CodeIds : ReadCode(k) /\ code[k].user = u
         \/ \E t \in TokenIds : /\ ReadToken(w, t) /\ token[t].user = u
                                /\ t \in used => req'[w].pc = "reuse"
<1>0. TypeOK /\ u # None
  BY NoneAssumption DEF IInv
<1>a. CASE req'[w] = req[w]
  BY <1>a
<1>b. req'[w] # Idle
  BY <1>0 DEF Idle
<1>1. ASSUME NEW v \in Workers, NEW x \in Users, Login(v, x)
      PROVE  req'[w] = req[w] \/ u \notin disabled
  BY <1>0, <1>1 DEF Login, TypeOK, Idle
<1>2. ASSUME NEW x \in Users, NEW c \in Connectors, Authorize(x, c)
      PROVE  req'[w] = req[w] \/ u \notin disabled
  BY <1>0, <1>2 DEF Authorize, TypeOK, Idle
<1>3. ASSUME NEW k \in CodeIds, ReadCode(k)
      PROVE  req'[w] = req[w] \/ code[k].user = u
  BY <1>0, <1>3 DEF ReadCode, TypeOK, Idle
<1>4. CASE SpendCode
  BY <1>0, <1>4 DEF SpendCode, TypeOK, Request
<1>5. ASSUME NEW v \in Workers, NEW t \in TokenIds, ReadToken(v, t)
      PROVE  \/ req'[w] = req[w]
             \/ /\ v = w /\ token[t].user = u
                /\ t \in used => req'[w].pc = "reuse"
  BY <1>0, <1>5 DEF ReadToken, TypeOK
<1>6. ASSUME NEW v \in Workers,
             \/ \E s \in TokenIds : IssueSession(v, s) \/ Rotate(v, s)
             \/ RevokeFamily(v) \/ Abort(v)
      PROVE  req'[w] = req[w]
  BY <1>0, <1>6, <1>b
  DEF IssueSession, Rotate, RotateAs, RevokeFamily, Abort, TypeOK
<1>7. ASSUME \/ \E k \in CodeIds : IssueCode(k) \/ ExpireCode(k)
             \/ \E x \in Users : DisableUser(x)
             \/ \E t \in TokenIds : ExpireToken(t)
             \/ UNCHANGED vars
      PROVE  req'[w] = req[w]
  BY <1>0, <1>7, <1>b DEF IssueCode, ExpireCode, DisableUser, ExpireToken, vars, TypeOK
<1> QED
  BY <1>a, <1>1, <1>2, <1>3, <1>4, <1>5, <1>6, <1>7 DEF Next

\* Nothing gives a session back to a disabled user whose tokens are dead,
\* whose codes are spent or expired and whose requests have ended.
THEOREM CutOffForGood == Spec => CutOffUserStaysOut
<1>1. ASSUME IInv, [Next]_vars, NEW u \in Users, CutOff(u)
      PROVE  CutOff(u)'
  <2>0. TypeOK /\ Remembers
    BY <1>1 DEF IInv
  <2>1. u \in disabled'
    BY <1>1, Monotone DEF CutOff
  <2>2. ASSUME NEW t \in TokenIds, token'[t] # None, token'[t].user = u
        PROVE  ~Exchangeable(t)'
    <3>1. CASE token[t] # None
      BY <1>1, <2>2, <3>1, Monotone, NeverAgain DEF CutOff
    <3>2. ASSUME token[t] = None, NEW w \in Workers, NEW s \in TokenIds,
                 IssueSession(w, s) \/ Rotate(w, s)
          PROVE  FALSE
      <4>1. req[w].user = u /\ req[w].pc \in {"granted", "fresh"}
        BY <1>1, <2>0, <2>2, <3>2, SessionRow, SuccessorRow
        DEF IssueSession, Rotate, RotateAs, TypeOK
      <4> QED
        BY <1>1, <4>1 DEF CutOff
    <3> QED
      BY <1>1, <2>2, <3>1, <3>2, TokenChanges
  <2>3. ASSUME NEW k \in CodeIds, code'[k] # None, code'[k].user = u
        PROVE  ~CodeAcceptable(k)'
    <3>1. CASE code[k] # None
      BY <1>1, <2>3, <3>1, Monotone DEF CutOff, CodeAcceptable
    <3>2. CASE code[k] = None
      <4>1. PICK x \in CodeIds : IssueCode(x)
        BY <1>1, <2>3, <3>2
        DEF Next, vars, Login, Authorize, ReadCode, ExpireCode, SpendCode,
            IssueSession, ReadToken, Rotate, RotateAs, RevokeFamily, Abort,
            DisableUser, ExpireToken
      <4>2. x = k /\ req[EventLoop].user = u /\ req[EventLoop].pc = "consented"
        BY <2>0, <2>3, <3>2, <4>1 DEF IssueCode, TypeOK
      <4> QED
        BY <1>1, <4>2 DEF CutOff, Workers
    <3> QED
      BY <3>1, <3>2
  <2>4. ASSUME NEW w \in Workers, req'[w].user = u PROVE req'[w].pc = "reuse"
    <3>1. ASSUME NEW k \in CodeIds, ReadCode(k), code[k].user = u
          PROVE  FALSE
      BY <1>1, <3>1 DEF CutOff, ReadCode, CodeAcceptable
    <3>2. ASSUME NEW t \in TokenIds, ReadToken(w, t), token[t].user = u
          PROVE  t \in used
      BY <1>1, <3>2
      DEF CutOff, Exchangeable, ReadToken, TokenAcceptable, IInv, Marked
    <3> QED
      BY <1>1, <2>4, <3>1, <3>2, NewRequests DEF CutOff
  <2> QED
    BY <2>1, <2>2, <2>3, <2>4 DEF CutOff
<1>2. IInv /\ [Next]_vars => \A u \in Users : CutOff(u) => CutOff(u)'
  BY <1>1
<1> QED
  BY <1>2, Inductive, PTL DEF Spec, CutOffUserStaysOut
=============================================================================
