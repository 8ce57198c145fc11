------------------------- MODULE NtfyAccountsProofs -------------------------
(***************************************************************************)
(* Proofs about NtfyAccounts for any users, threads and topics.  IInv adds *)
(* to the three invariants what a process holds at each step (Requests),   *)
(* whose a topic is (Owned), that a topic which is not written yet is in   *)
(* nobody else's hands (Exclusive), and who is responsible for an account  *)
(* that should go, until it is gone (StrayCovered, DisabledCovered).       *)
(***************************************************************************)
EXTENDS NtfyAccounts, TLAPS

\* What each operation holds, and the steps it goes through.
Shape(r, w) ==
  /\ (r.op = "rotate") <=> (w # Operator)
  /\ r.op = "create" => /\ r.old = None /\ r.new # None
                        /\ r.next \in {"add", "access", "write"}
                        /\ topic[r.user] = None
  /\ r.op = "rotate" => /\ r.old # None /\ r.new # None
                        /\ r.next \in {"add", "access", "write", "remove"}
  /\ r.op = "disable" => /\ r.old # None /\ r.new = None
                         /\ r.next \in {"write", "remove"}
  /\ r.op = "backfill" => /\ r.old = None /\ r.new # None
                          /\ r.next \in {"add", "access", "change", "write"}
                          /\ r.next = "write" => r.password
  /\ r.op # "create" => topic[r.user] # None
  /\ r.new # None => owner[r.new] = r.user
  /\ r.old # None => owner[r.old] = r.user
  /\ r.next = "remove" /\ r.op = "rotate" => topic[r.user] # r.old
  /\ r.next = "remove" /\ r.op = "disable" => r.user \in disabled

Requests == \A w \in Workers : req[w] # None => Shape(req[w], w)

\* A topic is its user's; without one there is no password, nor an account.
Owned == /\ \A u \in Users : topic[u] # None => owner[topic[u]] = u
         /\ \A u \in Users : topic[u] = None => token[u] = None
         /\ \A t \in Topics : owner[t] = None => account[t] = "none"

\* w has generated a topic and has not written it yet: nobody else knows it.
Minting(w) == req[w] # None /\ req[w].op \in {"create", "rotate"} /\ req[w].next # "remove"

Exclusive ==
  \A w \in Workers : Minting(w) =>
    /\ topic[req[w].user] # req[w].new
    /\ req[w].old # req[w].new
    /\ \A q \in Workers \ {w} : req[q] # None => req[w].new \notin {req[q].old, req[q].new}
    /\ req[w].next = "add" => account[req[w].new] = "none"
    /\ req[w].next = "write" /\ req[w].password => account[req[w].new] = "reader"

\* The password that the backfill is about to write opens the current topic.
Backfilling(u) == req[Operator] # None /\ req[Operator].op = "backfill" /\ req[Operator].user = u

BackfillOK ==
  \A u \in Users \ disabled :
    Backfilling(u) /\ req[Operator].next = "write" /\ topic[u] = req[Operator].new
     => account[topic[u]] = "reader" \/ "takeover" \in causes[u]

\* w is responsible for the account of t: it makes or fills it, or removes it.
Covers(w, t) ==
  /\ req[w] # None
  /\ \/ req[w].next = "remove" /\ req[w].old = t
     \/ req[w].next # "remove" /\ req[w].new = t

Stray(t) == account[t] # "none" /\ topic[owner[t]] # t
Excused(t) == causes[owner[t]] \cap {"fault", "clobbered", "outdated"} # {}

StrayCovered == \A t \in Topics : Stray(t) => Excused(t) \/ \E w \in Workers : Covers(w, t)

\* The operator is about to remove the account of u, or fills it.
InCharge(u) ==
  /\ req[Operator] # None /\ req[Operator].op \in {"disable", "backfill"}
  /\ Covers(Operator, topic[u])
Pardons == {"fault", "clobbered", "late", "revived", "by hand"}
Pardoned(u) == causes[u] \cap Pardons # {}

DisabledCovered == \A u \in disabled : account[topic[u]] # "none" => Pardoned(u) \/ InCharge(u)

IInv ==
  /\ TypeOK
  /\ Requests
  /\ Owned
  /\ Exclusive
  /\ BackfillOK
  /\ StrayCovered
  /\ DisabledCovered
  /\ CredentialsWork

-----------------------------------------------------------------------------
USE NtfyAssumption, RequestAssumption

LEMMA InitIInv == Init => IInv
<1> SUFFICES ASSUME Init PROVE IInv
  OBVIOUS
<1>1. TypeOK
  BY DEF Init, TypeOK, AccountStates
<1>2. \A w \in Workers : req[w] = None
  BY DEF Init
<1>3. Operator \in Workers
  BY DEF Workers
<1>4. Requests /\ Owned /\ Exclusive /\ BackfillOK
  BY <1>2, <1>3 DEF Init, Requests, Owned, Exclusive, Minting, BackfillOK, Backfilling
<1>5. StrayCovered /\ DisabledCovered /\ CredentialsWork
  BY DEF Init, StrayCovered, Stray, DisabledCovered, CredentialsWork
<1> QED BY <1>1, <1>4, <1>5 DEF IInv

-----------------------------------------------------------------------------
(* What the parts of an action do.                                         *)

\* A process goes to its next step and keeps what it holds.
LEMMA GotoFacts ==
  ASSUME TypeOK, NEW w \in Workers, req[w] # None,
         NEW step \in {"add", "access", "change", "write", "remove"}, NEW password \in BOOLEAN,
         Goto(w, step, password)
  PROVE  /\ req' \in [Workers -> Request \cup {None}]
         /\ req'[w] # None
         /\ req'[w].op = req[w].op /\ req'[w].user = req[w].user
         /\ req'[w].old = req[w].old /\ req'[w].new = req[w].new
         /\ req'[w].next = step /\ req'[w].password = password
         /\ \A q \in Workers : q # w => req'[q] = req[q]
<1>1. req[w] \in Request
  BY DEF TypeOK
<1>2. req'[w] = [req[w] EXCEPT !.next = step, !.password = password]
  BY DEF Goto, TypeOK
<1>3. req'[w] \in Request
  BY <1>1, <1>2 DEF Request
<1>4. req' \in [Workers -> Request \cup {None}]
  BY <1>2, <1>3 DEF Goto, TypeOK
<1> QED BY <1>1, <1>2, <1>3, <1>4 DEF Goto

\* Causes are never forgotten.
LEMMA BlameFacts ==
  ASSUME TypeOK, NEW w \in Workers, req[w] # None, NEW why \in SUBSET Causes, Blame(w, why)
  PROVE  /\ causes' \in [Users -> SUBSET Causes]
         /\ causes'[req[w].user] = causes[req[w].user] \cup why
         /\ \A u \in Users : causes[u] \subseteq causes'[u]
<1>1. req[w].user \in Users
  BY DEF TypeOK, Request
<1> QED BY <1>1 DEF Blame, TypeOK

\* Topics that were stray are still seen to if w sees to what it saw to, and to
\* what its step makes stray.
LEMMA StrayStep ==
  ASSUME IInv, NEW w \in Workers,
         \A q \in Workers : q # w => req'[q] = req[q],
         \A t \in Topics : owner[t] # None => owner'[t] = owner[t],
         \A u \in Users : causes[u] \subseteq causes'[u],
         \A t \in Topics : Stray(t)' =>
           \/ Stray(t) /\ (Covers(w, t) => Covers(w, t)' \/ Excused(t)')
           \/ Covers(w, t)' \/ Excused(t)'
  PROVE  StrayCovered'
<1> SUFFICES ASSUME NEW t \in Topics, Stray(t), ~Covers(w, t), ~Excused(t)'
             PROVE  \E q \in Workers : Covers(q, t)'
  BY DEF StrayCovered
<1>1. owner[t] \in Users /\ owner'[t] = owner[t]
  BY DEF IInv, TypeOK, Owned, Stray
<1>2. ~Excused(t)
  BY <1>1 DEF Excused
<1>3. PICK q \in Workers : Covers(q, t)
  BY <1>2 DEF IInv, StrayCovered
<1>4. q # w
  BY <1>3
<1>5. Covers(q, t)'
  BY <1>3, <1>4 DEF Covers
<1> QED BY <1>5

-----------------------------------------------------------------------------
(* The actions.                                                            *)

LEMMA BeginCreateOK ==
  ASSUME IInv, NEW u \in Users, NEW t \in Topics, BeginCreate(u, t)
  PROVE  IInv'
<1>1. TypeOK'
  BY DEF IInv, TypeOK, Request, BeginCreate, Begin
<1>2. Requests'
  BY DEF IInv, TypeOK, Request, Requests, Shape, BeginCreate, Begin, Fresh
<1>3. Owned'
  BY DEF IInv, Owned, BeginCreate, Begin, Fresh
<1>4. Exclusive'
  BY DEF IInv, TypeOK, Request, Requests, Shape, Owned, Exclusive, Minting, BeginCreate,
         Begin, Fresh
<1>5. BackfillOK'
  BY DEF BackfillOK, Backfilling, BeginCreate, Begin
<1>6. StrayCovered'
  BY DEF IInv, StrayCovered, Stray, Excused, Covers, Owned, BeginCreate, Begin, Fresh
<1>7. DisabledCovered'
  BY DEF IInv, DisabledCovered, Pardoned, InCharge, Covers, BeginCreate, Begin
<1>8. CredentialsWork'
  BY DEF IInv, CredentialsWork, BeginCreate, Begin
<1> QED BY <1>1, <1>2, <1>3, <1>4, <1>5, <1>6, <1>7, <1>8 DEF IInv

LEMMA BeginRotateOK ==
  ASSUME IInv, NEW w \in Threads, NEW u \in Users, NEW t \in Topics, BeginRotate(w, u, t)
  PROVE  IInv'
<1>1. TypeOK'
  BY DEF IInv, TypeOK, Workers, Request, BeginRotate, Begin
<1>2. Requests'
  BY DEF IInv, TypeOK, Request, Requests, Shape, Owned, BeginRotate, Begin, Fresh
<1>3. Owned'
  BY DEF IInv, Owned, BeginRotate, Begin, Fresh
<1>4. Exclusive'
  BY DEF IInv, TypeOK, Request, Requests, Shape, Owned, Exclusive, Minting, BeginRotate,
         Begin, Fresh
<1>5. BackfillOK'
  BY DEF IInv, BackfillOK, Backfilling, BeginRotate, Begin
<1>6. StrayCovered'
  BY DEF IInv, StrayCovered, Stray, Excused, Covers, Owned, BeginRotate, Begin, Fresh
<1>7. DisabledCovered'
  BY DEF IInv, DisabledCovered, Pardoned, InCharge, Covers, BeginRotate, Begin
<1>8. CredentialsWork'
  BY DEF IInv, CredentialsWork, BeginRotate, Begin
<1> QED BY <1>1, <1>2, <1>3, <1>4, <1>5, <1>6, <1>7, <1>8 DEF IInv

LEMMA BeginDisableOK ==
  ASSUME IInv, NEW u \in Users, BeginDisable(u)
  PROVE  IInv'
<1>1. TypeOK'
  BY DEF IInv, TypeOK, Workers, Request, BeginDisable, Begin
<1>2. Requests'
  BY DEF IInv, Requests, Shape, Owned, BeginDisable, Begin
<1>3. Owned'
  BY DEF IInv, Owned, BeginDisable, Begin
<1>4. Exclusive'
  BY DEF IInv, Requests, Shape, Owned, Exclusive, Minting, BeginDisable, Begin
<1>5. BackfillOK'
  BY DEF BackfillOK, Backfilling, BeginDisable, Begin
<1>6. StrayCovered'
  BY DEF IInv, StrayCovered, Stray, Excused, Covers, BeginDisable, Begin
<1>7. DisabledCovered'
  BY DEF IInv, DisabledCovered, Pardoned, InCharge, Covers, BeginDisable, Begin
<1>8. CredentialsWork'
  BY DEF IInv, CredentialsWork, BeginDisable, Begin
<1> QED BY <1>1, <1>2, <1>3, <1>4, <1>5, <1>6, <1>7, <1>8 DEF IInv

LEMMA BeginBackfillOK ==
  ASSUME IInv, NEW u \in Users, BeginBackfill(u)
  PROVE  IInv'
<1>1. TypeOK'
  BY DEF IInv, TypeOK, Request, BeginBackfill, Begin
<1>2. Requests'
  BY DEF IInv, Requests, Shape, Owned, BeginBackfill, Begin
<1>3. Owned'
  BY DEF IInv, Owned, BeginBackfill, Begin
<1>4. Exclusive'
  BY DEF IInv, Requests, Shape, Owned, Exclusive, Minting, BeginBackfill, Begin
<1>5. BackfillOK'
  BY DEF BackfillOK, Backfilling, BeginBackfill, Begin
<1>6. StrayCovered'
  BY DEF IInv, StrayCovered, Stray, Excused, Covers, BeginBackfill, Begin
<1>7. DisabledCovered'
  BY DEF IInv, DisabledCovered, Pardoned, InCharge, Covers, BeginBackfill, Begin
<1>8. CredentialsWork'
  BY DEF IInv, CredentialsWork, BeginBackfill, Begin
<1> QED BY <1>1, <1>2, <1>3, <1>4, <1>5, <1>6, <1>7, <1>8 DEF IInv

LEMMA ExpireAccessOK ==
  ASSUME IInv, NEW u \in Users, ExpireAccess(u)
  PROVE  IInv'
<1>1. TypeOK'
  BY DEF IInv, TypeOK, ExpireAccess
<1>2. Requests'
  BY DEF IInv, Requests, Shape, ExpireAccess
<1>3. Owned'
  BY DEF IInv, Owned, ExpireAccess
<1>4. Exclusive'
  BY DEF IInv, Exclusive, Minting, ExpireAccess
<1>5. BackfillOK'
  BY DEF IInv, BackfillOK, Backfilling, ExpireAccess
<1>6. StrayCovered'
  BY DEF IInv, StrayCovered, Stray, Excused, Covers, ExpireAccess
<1>7. DisabledCovered'
  BY DEF IInv, DisabledCovered, Pardoned, InCharge, Covers, ExpireAccess
<1>8. CredentialsWork'
  BY DEF IInv, CredentialsWork, ExpireAccess
<1> QED BY <1>1, <1>2, <1>3, <1>4, <1>5, <1>6, <1>7, <1>8 DEF IInv

LEMMA DisableByHandOK ==
  ASSUME IInv, NEW u \in Users, DisableByHand(u)
  PROVE  IInv'
<1>a. /\ causes' \in [Users -> SUBSET Causes]
      /\ "by hand" \in causes'[u]
      /\ \A v \in Users : causes[v] \subseteq causes'[v]
  BY DEF IInv, TypeOK, Causes, DisableByHand
<1>b. /\ disabled' = disabled \cup {u}
      /\ UNCHANGED <<topic, token, cutOff, account, req, owner>>
  BY DEF DisableByHand
<1>1. TypeOK'
  BY <1>a, <1>b DEF IInv, TypeOK, DisableByHand
<1>2. Requests'
  BY <1>b DEF IInv, Requests, Shape
<1>3. Owned'
  BY <1>b DEF IInv, Owned
<1>4. Exclusive'
  BY <1>b DEF IInv, Exclusive, Minting
<1>5. BackfillOK'
  BY <1>a, <1>b DEF IInv, BackfillOK, Backfilling
<1>6. StrayCovered'
  <2>1. \A t \in Topics : Stray(t)' => Stray(t) /\ (Excused(t) => Excused(t)')
    <3> SUFFICES ASSUME NEW t \in Topics, Stray(t)'
                 PROVE  Stray(t) /\ (Excused(t) => Excused(t)')
      OBVIOUS
    <3>1. Stray(t)
      BY <1>b DEF Stray
    <3>2. owner[t] \in Users
      BY <3>1 DEF IInv, TypeOK, Owned, Stray
    <3> QED BY <1>a, <1>b, <3>1, <3>2 DEF Excused
  <2> QED BY <1>b, <2>1 DEF IInv, StrayCovered, Covers
<1>7. DisabledCovered'
  BY <1>a, <1>b DEF IInv, TypeOK, DisabledCovered, Pardoned, Pardons, InCharge, Covers
<1>8. CredentialsWork'
  BY <1>a, <1>b DEF IInv, CredentialsWork
<1> QED BY <1>1, <1>2, <1>3, <1>4, <1>5, <1>6, <1>7, <1>8 DEF IInv

LEMMA AddAccountOK ==
  ASSUME IInv, NEW w \in Workers, AddAccount(w)
  PROVE  IInv'
<1>a. /\ req[w] # None /\ req[w] \in Request /\ Shape(req[w], w)
      /\ req[w].user \in Users
      /\ req[w].op \in {"create", "rotate", "disable", "backfill"}
      /\ req[w].new # None => req[w].new \in Topics /\ owner[req[w].new] = req[w].user
      /\ req[w].old # None => req[w].old \in Topics /\ owner[req[w].old] = req[w].user
  BY DEF IInv, TypeOK, Request, Requests, Shape, AddAccount, At
<1>b. /\ req' \in [Workers -> Request \cup {None}]
      /\ req'[w] # None
      /\ req'[w].op = req[w].op /\ req'[w].user = req[w].user
      /\ req'[w].old = req[w].old /\ req'[w].new = req[w].new
      /\ req'[w].next = "access" /\ req'[w].password = FALSE
      /\ \A q \in Workers : q # w => req'[q] = req[q]
  BY <1>a, GotoFacts DEF IInv, AddAccount
<1>1. TypeOK'
  BY <1>a, <1>b DEF IInv, TypeOK, Causes, AccountStates, AddAccount
<1>2. Requests'
  BY <1>a, <1>b DEF IInv, Requests, Shape, AddAccount, At
<1>3. Owned'
  BY <1>a, <1>b DEF IInv, Owned, AddAccount
<1>4. Exclusive'
  BY <1>a, <1>b DEF IInv, Exclusive, Minting, AddAccount, At
<1>5. BackfillOK'
  BY <1>a, <1>b DEF IInv, Workers, BackfillOK, Backfilling, AddAccount
<1>6. StrayCovered'
  <2>1. \A t \in Topics : Stray(t)' =>
           \/ Stray(t) /\ (Covers(w, t) => Covers(w, t)' \/ Excused(t)')
           \/ Covers(w, t)' \/ Excused(t)'
    BY <1>a, <1>b DEF Stray, Covers, Excused, AddAccount, At
  <2>2. /\ \A t \in Topics : owner[t] # None => owner'[t] = owner[t]
        /\ \A u \in Users : causes[u] \subseteq causes'[u]
    BY <1>a, <1>b DEF AddAccount
  <2> QED BY <1>b, <2>1, <2>2, StrayStep
<1>7. DisabledCovered'
  <2> SUFFICES ASSUME NEW u \in disabled', account'[topic'[u]] # "none", ~Pardoned(u)'
               PROVE  InCharge(u)'
    BY DEF DisabledCovered
  <2>1. u \in disabled /\ u \in Users /\ topic'[u] = topic[u]
    BY <1>a, <1>b DEF IInv, TypeOK, AddAccount
  <2>2. topic[u] \in Topics /\ owner[topic[u]] = u /\ ~Pardoned(u)
    BY <1>a, <1>b, <2>1 DEF IInv, TypeOK, Owned, Pardoned, AddAccount
  <2>3. account[topic[u]] = "none" => w = Operator /\ req[w].op = "backfill" /\ req[w].new = topic[u]
    BY <1>a, <1>b, <2>1, <2>2 DEF IInv, Exclusive, Minting, Shape, AddAccount, At
  <2>4. CASE account[topic[u]] = "none"
    BY <1>a, <1>b, <2>1, <2>3, <2>4 DEF InCharge, Covers
  <2>5. CASE account[topic[u]] # "none"
    <3>1. InCharge(u)
      BY <2>1, <2>2, <2>5 DEF IInv, DisabledCovered
    <3> QED BY <1>a, <1>b, <2>1, <2>2, <3>1 DEF InCharge, Covers, Workers, AddAccount,
                   At, Pardoned
  <2> QED BY <2>4, <2>5
<1>8. CredentialsWork'
  BY <1>a, <1>b DEF IInv, CredentialsWork, AddAccount
<1> QED BY <1>1, <1>2, <1>3, <1>4, <1>5, <1>6, <1>7, <1>8 DEF IInv

LEMMA GrantAccessOK ==
  ASSUME IInv, NEW w \in Workers, GrantAccess(w)
  PROVE  IInv'
<1>a. /\ req[w] # None /\ req[w] \in Request /\ Shape(req[w], w)
      /\ req[w].user \in Users
      /\ req[w].op \in {"create", "rotate", "disable", "backfill"}
      /\ req[w].new # None => req[w].new \in Topics /\ owner[req[w].new] = req[w].user
      /\ req[w].old # None => req[w].old \in Topics /\ owner[req[w].old] = req[w].user
  BY DEF IInv, TypeOK, Request, Requests, Shape, GrantAccess, At
<1>b. /\ req' \in [Workers -> Request \cup {None}]
      /\ req'[w] # None
      /\ req'[w].op = req[w].op /\ req'[w].user = req[w].user
      /\ req'[w].old = req[w].old /\ req'[w].new = req[w].new
      /\ req'[w].next = "write" /\ req'[w].password = TRUE
      /\ \A q \in Workers : q # w => req'[q] = req[q]
  BY <1>a, GotoFacts DEF IInv, GrantAccess
<1>1. TypeOK'
  BY <1>a, <1>b DEF IInv, TypeOK, Causes, AccountStates, GrantAccess
<1>2. Requests'
  BY <1>a, <1>b DEF IInv, Requests, Shape, GrantAccess
<1>3. Owned'
  BY <1>a, <1>b DEF IInv, Owned, GrantAccess
<1>4. Exclusive'
  BY <1>a, <1>b DEF IInv, TypeOK, Requests, Shape, Exclusive, Minting, GrantAccess, At
<1>5. BackfillOK'
  BY <1>a, <1>b DEF IInv, TypeOK, Workers, BackfillOK, Backfilling, Requests, Shape,
         GrantAccess
<1>6. StrayCovered'
  <2>1. \A t \in Topics : Stray(t)' =>
           \/ Stray(t) /\ (Covers(w, t) => Covers(w, t)' \/ Excused(t)')
           \/ Covers(w, t)' \/ Excused(t)'
    BY <1>a, <1>b DEF Stray, Covers, Excused, GrantAccess, At
  <2>2. /\ \A t \in Topics : owner[t] # None => owner'[t] = owner[t]
        /\ \A u \in Users : causes[u] \subseteq causes'[u]
    BY <1>a, <1>b DEF GrantAccess
  <2> QED BY <1>b, <2>1, <2>2, StrayStep
<1>7. DisabledCovered'
  BY <1>a, <1>b DEF IInv, Workers, DisabledCovered, Pardoned, InCharge, Covers,
         GrantAccess, At
<1>8. CredentialsWork'
  BY <1>a, <1>b DEF IInv, CredentialsWork, GrantAccess
<1> QED BY <1>1, <1>2, <1>3, <1>4, <1>5, <1>6, <1>7, <1>8 DEF IInv

LEMMA CommandFailsOK ==
  ASSUME IInv, NEW w \in Workers, CommandFails(w)
  PROVE  IInv'
<1>a. /\ req[w] # None /\ req[w] \in Request /\ Shape(req[w], w)
      /\ req[w].user \in Users
      /\ req[w].op \in {"create", "rotate", "disable", "backfill"}
      /\ req[w].new # None => req[w].new \in Topics /\ owner[req[w].new] = req[w].user
      /\ req[w].old # None => req[w].old \in Topics /\ owner[req[w].old] = req[w].user
  BY DEF IInv, TypeOK, Request, Requests, Shape, CommandFails
<1>b. /\ req' \in [Workers -> Request \cup {None}]
      /\ req'[w] # None
      /\ req'[w].op = req[w].op /\ req'[w].user = req[w].user
      /\ req'[w].old = req[w].old /\ req'[w].new = req[w].new
      /\ req'[w].next = "write" /\ req'[w].password = FALSE
      /\ \A q \in Workers : q # w => req'[q] = req[q]
  BY <1>a, GotoFacts DEF IInv, CommandFails
<1> DEFINE why == {"fault"}
<1>c. /\ causes' \in [Users -> SUBSET Causes]
      /\ causes'[req[w].user] = causes[req[w].user] \cup why
      /\ \A u \in Users : causes[u] \subseteq causes'[u]
  <2>1. why \in SUBSET Causes /\ Blame(w, why)
    BY DEF CommandFails, Causes, When
  <2> QED BY <1>a, <2>1, BlameFacts DEF IInv
<1> HIDE DEF why
<1>d. /\ account' \in [Topics -> AccountStates]
      /\ \A t \in Topics : t # req[w].new => account'[t] = account[t]
      /\ req[w].op \in {"create", "rotate"} => req[w].new \in Topics
      /\ req[w].next = "add" \/ req[w].next = "access"
      /\ Minting(w) /\ Exclusive
  <2>1. req[w].op \in {"create", "rotate"}
    BY <1>a DEF Shape, CommandFails, At
  <2>2. req[w].next \in {"add", "access"}
    BY DEF CommandFails, At
  <2>3. req[w].new \in Topics
    BY <1>a, <2>1 DEF Shape
  <2>4. Minting(w)
    BY <1>a, <2>1, <2>2 DEF Minting
  <2>5. \E x \in AccountStates \cup {account[req[w].new]} : account' = [account EXCEPT ![req[w].new] = x]
    BY <2>3 DEF CommandFails, AccountStates, IInv, TypeOK
  <2> QED BY <2>1, <2>2, <2>3, <2>4, <2>5 DEF IInv, TypeOK
<1>1. TypeOK'
  BY <1>a, <1>b, <1>c, <1>d DEF IInv, TypeOK, CommandFails, why
<1>2. Requests'
  BY <1>a, <1>b, <1>c DEF IInv, Requests, Shape, CommandFails, why
<1>3. Owned'
  BY <1>a, <1>b, <1>c DEF IInv, TypeOK, Owned, CommandFails, why
<1>4. Exclusive'
  <2> SUFFICES ASSUME NEW q \in Workers, Minting(q)'
               PROVE  (/\ topic[req[q].user] # req[q].new
                       /\ req[q].old # req[q].new
                       /\ \A v \in Workers \ {q} : req[v] # None => req[q].new \notin {req[v].old, req[v].new}
                       /\ req[q].next = "add" => account[req[q].new] = "none"
                       /\ req[q].next = "write" /\ req[q].password => account[req[q].new] = "reader")'
    BY DEF Exclusive
  <2>1. Minting(q)
    BY <1>b, <1>d DEF Minting
  <2>2. topic' = topic /\ \A v \in Workers : req'[v] = None <=> req[v] = None
    BY <1>a, <1>b DEF CommandFails
  <2>3. \A v \in Workers : req[v] # None =>
          req'[v].user = req[v].user /\ req'[v].new = req[v].new /\ req'[v].old = req[v].old
    BY <1>b
  <2>4. /\ topic[req[q].user] # req[q].new /\ req[q].old # req[q].new
        /\ \A v \in Workers \ {q} : req[v] # None => req[q].new \notin {req[v].old, req[v].new}
    BY <1>d, <2>1 DEF Exclusive
  <2>5. CASE q = w
    BY <1>b, <2>1, <2>2, <2>3, <2>4, <2>5
  <2>6. CASE q # w
    <3>1. req[q].new # req[w].new /\ req[q].new \in Topics
      BY <1>a, <2>1, <2>4, <2>6 DEF IInv, TypeOK, Request, Requests, Shape, Minting
    <3>2. account'[req[q].new] = account[req[q].new] /\ req'[q] = req[q]
      BY <1>b, <1>d, <2>6, <3>1
    <3> QED BY <1>d, <2>1, <2>2, <2>3, <2>4, <3>2 DEF Exclusive
  <2> QED BY <2>5, <2>6
<1>5. BackfillOK'
  BY <1>a, <1>b, <1>c DEF IInv, TypeOK, Workers, BackfillOK, Backfilling, Requests,
         Shape, Exclusive, Minting, CommandFails, At, why
<1>6. StrayCovered'
  <2>1. \A t \in Topics : Stray(t)' =>
           \/ Stray(t) /\ (Covers(w, t) => Covers(w, t)' \/ Excused(t)')
           \/ Covers(w, t)' \/ Excused(t)'
    BY <1>a, <1>b, <1>c DEF IInv, TypeOK, Stray, Covers, Excused, CommandFails, At, why
  <2>2. /\ \A t \in Topics : owner[t] # None => owner'[t] = owner[t]
        /\ \A u \in Users : causes[u] \subseteq causes'[u]
    BY <1>a, <1>b, <1>c DEF CommandFails
  <2> QED BY <1>b, <2>1, <2>2, StrayStep
<1>7. DisabledCovered'
  <2> SUFFICES ASSUME NEW u \in disabled, account'[topic[u]] # "none", ~Pardoned(u)'
               PROVE  InCharge(u)'
    BY DEF DisabledCovered, CommandFails
  <2>1. topic[u] \in Topics /\ owner[topic[u]] = u /\ ~Pardoned(u) /\ u \in Users
    BY <1>c DEF IInv, TypeOK, Owned, Pardoned
  <2>2. topic[u] # req[w].new
    BY <1>a, <1>d, <2>1 DEF Exclusive
  <2>3. InCharge(u)
    BY <1>d, <2>1, <2>2 DEF IInv, DisabledCovered
  <2>4. w # Operator
    BY <1>a, <1>d, <2>2, <2>3 DEF InCharge, Covers
  <2> QED BY <1>b, <2>3, <2>4 DEF InCharge, Covers, CommandFails, Workers
<1>8. CredentialsWork'
  BY <1>a, <1>b, <1>c, <1>d DEF IInv, TypeOK, CredentialsWork, Owned, Exclusive,
         CommandFails, why
<1> QED BY <1>1, <1>2, <1>3, <1>4, <1>5, <1>6, <1>7, <1>8 DEF IInv

LEMMA BackfillCommandFailsOK ==
  ASSUME IInv, NEW w \in Workers, BackfillCommandFails(w)
  PROVE  IInv'
<1>a. /\ req[w] # None /\ req[w] \in Request /\ Shape(req[w], w)
      /\ req[w].user \in Users
      /\ req[w].op \in {"create", "rotate", "disable", "backfill"}
      /\ req[w].new # None => req[w].new \in Topics /\ owner[req[w].new] = req[w].user
      /\ req[w].old # None => req[w].old \in Topics /\ owner[req[w].old] = req[w].user
  BY DEF IInv, TypeOK, Request, Requests, Shape, BackfillCommandFails, At
<1>b. /\ req' \in [Workers -> Request \cup {None}]
      /\ req'[w] # None
      /\ req'[w].op = req[w].op /\ req'[w].user = req[w].user
      /\ req'[w].old = req[w].old /\ req'[w].new = req[w].new
      /\ req'[w].next = "change" /\ req'[w].password = FALSE
      /\ \A q \in Workers : q # w => req'[q] = req[q]
  BY <1>a, GotoFacts DEF IInv, BackfillCommandFails
<1>1. TypeOK'
  BY <1>a, <1>b DEF IInv, TypeOK, BackfillCommandFails
<1>2. Requests'
  BY <1>a, <1>b DEF IInv, Requests, Shape, BackfillCommandFails
<1>3. Owned'
  BY <1>a, <1>b DEF IInv, Owned, BackfillCommandFails
<1>4. Exclusive'
  BY <1>a, <1>b DEF IInv, Exclusive, Minting, BackfillCommandFails
<1>5. BackfillOK'
  BY <1>a, <1>b DEF BackfillOK, Backfilling, Requests, Shape, BackfillCommandFails
<1>6. StrayCovered'
  <2>1. \A t \in Topics : Stray(t)' =>
           \/ Stray(t) /\ (Covers(w, t) => Covers(w, t)' \/ Excused(t)')
           \/ Covers(w, t)' \/ Excused(t)'
    BY <1>a, <1>b DEF Requests, Shape, Stray, Covers, Excused, BackfillCommandFails
  <2>2. /\ \A t \in Topics : owner[t] # None => owner'[t] = owner[t]
        /\ \A u \in Users : causes[u] \subseteq causes'[u]
    BY <1>a, <1>b DEF BackfillCommandFails
  <2> QED BY <1>b, <2>1, <2>2, StrayStep
<1>7. DisabledCovered'
  BY <1>a, <1>b DEF IInv, DisabledCovered, Pardoned, InCharge, Covers, Requests, Shape,
         BackfillCommandFails
<1>8. CredentialsWork'
  BY <1>a, <1>b DEF IInv, CredentialsWork, BackfillCommandFails
<1> QED BY <1>1, <1>2, <1>3, <1>4, <1>5, <1>6, <1>7, <1>8 DEF IInv

LEMMA ChangePasswordOK ==
  ASSUME IInv, NEW w \in Workers, ChangePassword(w)
  PROVE  IInv'
<1>a. /\ req[w] # None /\ req[w] \in Request /\ Shape(req[w], w)
      /\ req[w].user \in Users
      /\ req[w].op \in {"create", "rotate", "disable", "backfill"}
      /\ req[w].new # None => req[w].new \in Topics /\ owner[req[w].new] = req[w].user
      /\ req[w].old # None => req[w].old \in Topics /\ owner[req[w].old] = req[w].user
  BY DEF IInv, TypeOK, Request, Requests, Shape, ChangePassword, At
<1>b. /\ req' \in [Workers -> Request \cup {None}]
      /\ req'[w] # None
      /\ req'[w].op = req[w].op /\ req'[w].user = req[w].user
      /\ req'[w].old = req[w].old /\ req'[w].new = req[w].new
      /\ req'[w].next = "write" /\ req'[w].password = TRUE
      /\ \A q \in Workers : q # w => req'[q] = req[q]
  BY <1>a, GotoFacts DEF IInv, ChangePassword
<1> DEFINE why == {"takeover"}
<1>c. /\ causes' \in [Users -> SUBSET Causes]
      /\ causes'[req[w].user] = causes[req[w].user] \cup why
      /\ \A u \in Users : causes[u] \subseteq causes'[u]
  <2>1. why \in SUBSET Causes /\ Blame(w, why)
    BY DEF ChangePassword, Causes, When
  <2> QED BY <1>a, <2>1, BlameFacts DEF IInv
<1> HIDE DEF why
<1>1. TypeOK'
  BY <1>a, <1>b, <1>c DEF IInv, TypeOK, ChangePassword, why
<1>2. Requests'
  BY <1>a, <1>b, <1>c DEF IInv, Requests, Shape, ChangePassword, why
<1>3. Owned'
  BY <1>a, <1>b, <1>c DEF IInv, Owned, ChangePassword, why
<1>4. Exclusive'
  BY <1>a, <1>b, <1>c DEF IInv, Requests, Shape, Exclusive, Minting, ChangePassword, At, why
<1>5. BackfillOK'
  BY <1>a, <1>b, <1>c DEF BackfillOK, Backfilling, Requests, Shape, ChangePassword, At, why
<1>6. StrayCovered'
  <2>1. \A t \in Topics : Stray(t)' =>
           \/ Stray(t) /\ (Covers(w, t) => Covers(w, t)' \/ Excused(t)')
           \/ Covers(w, t)' \/ Excused(t)'
    BY <1>a, <1>b, <1>c DEF Stray, Covers, Excused, ChangePassword, At, why
  <2>2. /\ \A t \in Topics : owner[t] # None => owner'[t] = owner[t]
        /\ \A u \in Users : causes[u] \subseteq causes'[u]
    BY <1>a, <1>b, <1>c DEF ChangePassword
  <2> QED BY <1>b, <2>1, <2>2, StrayStep
<1>7. DisabledCovered'
  BY <1>a, <1>b, <1>c DEF IInv, TypeOK, DisabledCovered, Pardoned, InCharge, Covers,
         Requests, Shape, ChangePassword, At, why
<1>8. CredentialsWork'
  BY <1>a, <1>b, <1>c DEF IInv, CredentialsWork, ChangePassword, why
<1> QED BY <1>1, <1>2, <1>3, <1>4, <1>5, <1>6, <1>7, <1>8 DEF IInv

LEMMA RemoveAccountOK ==
  ASSUME IInv, NEW w \in Workers, RemoveAccount(w)
  PROVE  IInv'
<1>a. /\ req[w] # None /\ req[w] \in Request /\ Shape(req[w], w)
      /\ req[w].user \in Users
      /\ req[w].op \in {"create", "rotate", "disable", "backfill"}
      /\ req[w].new # None => req[w].new \in Topics /\ owner[req[w].new] = req[w].user
      /\ req[w].old # None => req[w].old \in Topics /\ owner[req[w].old] = req[w].user
  BY DEF IInv, TypeOK, Request, Requests, Shape, RemoveAccount, At
<1>b. /\ req' \in [Workers -> Request \cup {None}]
      /\ req'[w] = None
      /\ \A q \in Workers : q # w => req'[q] = req[q]
  BY <1>a DEF IInv, TypeOK, Done, RemoveAccount
<1>1. TypeOK'
  BY <1>a, <1>b DEF IInv, TypeOK, Causes, AccountStates, RemoveAccount
<1>2. Requests'
  BY <1>a, <1>b DEF IInv, Requests, Shape, RemoveAccount
<1>3. Owned'
  BY <1>a, <1>b DEF IInv, Owned, RemoveAccount
<1>4. Exclusive'
  BY <1>a, <1>b DEF IInv, Exclusive, Minting, RemoveAccount
<1>5. BackfillOK'
  BY <1>a, <1>b DEF IInv, Workers, BackfillOK, Backfilling, Requests, Shape,
         RemoveAccount, At
<1>6. StrayCovered'
  <2>1. \A t \in Topics : Stray(t)' =>
           \/ Stray(t) /\ (Covers(w, t) => Covers(w, t)' \/ Excused(t)')
           \/ Covers(w, t)' \/ Excused(t)'
    BY <1>a, <1>b DEF IInv, TypeOK, Stray, Covers, Excused, RemoveAccount, At
  <2>2. /\ \A t \in Topics : owner[t] # None => owner'[t] = owner[t]
        /\ \A u \in Users : causes[u] \subseteq causes'[u]
    BY <1>a, <1>b DEF RemoveAccount
  <2> QED BY <1>b, <2>1, <2>2, StrayStep
<1>7. DisabledCovered'
  BY <1>a, <1>b DEF IInv, TypeOK, Workers, DisabledCovered, Pardoned, InCharge, Covers,
         RemoveAccount, At
<1>8. CredentialsWork'
  BY <1>a, <1>b DEF IInv, CredentialsWork, Requests, Shape, Owned, RemoveAccount, At
<1> QED BY <1>1, <1>2, <1>3, <1>4, <1>5, <1>6, <1>7, <1>8 DEF IInv

LEMMA AbortOK ==
  ASSUME IInv, NEW w \in Workers, Abort(w)
  PROVE  IInv'
<1>a. /\ req[w] # None /\ req[w] \in Request /\ Shape(req[w], w)
      /\ req[w].user \in Users
      /\ req[w].op \in {"create", "rotate", "disable", "backfill"}
      /\ req[w].new # None => req[w].new \in Topics /\ owner[req[w].new] = req[w].user
      /\ req[w].old # None => req[w].old \in Topics /\ owner[req[w].old] = req[w].user
  BY DEF IInv, TypeOK, Request, Requests, Shape, Abort, At
<1>b. /\ req' \in [Workers -> Request \cup {None}]
      /\ req'[w] = None
      /\ \A q \in Workers : q # w => req'[q] = req[q]
  BY <1>a DEF IInv, TypeOK, Done, Abort
<1> DEFINE why == {"fault"}
<1>c. /\ causes' \in [Users -> SUBSET Causes]
      /\ causes'[req[w].user] = causes[req[w].user] \cup why
      /\ \A u \in Users : causes[u] \subseteq causes'[u]
  <2>1. why \in SUBSET Causes /\ Blame(w, why)
    BY DEF Abort, Causes, When
  <2> QED BY <1>a, <2>1, BlameFacts DEF IInv
<1> HIDE DEF why
<1>1. TypeOK'
  BY <1>a, <1>b, <1>c DEF IInv, TypeOK, Abort, why
<1>2. Requests'
  BY <1>a, <1>b, <1>c DEF IInv, Requests, Shape, Abort, why
<1>3. Owned'
  BY <1>a, <1>b, <1>c DEF IInv, Owned, Abort, why
<1>4. Exclusive'
  BY <1>a, <1>b, <1>c DEF IInv, Exclusive, Minting, Abort, why
<1>5. BackfillOK'
  BY <1>a, <1>b, <1>c DEF IInv, Workers, BackfillOK, Backfilling, Abort, At, why
<1>6. StrayCovered'
  <2> SUFFICES ASSUME NEW t \in Topics, Stray(t)', ~Excused(t)', ~Covers(w, t)'
               PROVE  Stray(t) /\ ~Covers(w, t)
    BY <1>a, <1>b, <1>c, StrayStep DEF Abort
  <2>1. Stray(t) /\ owner'[t] = owner[t]
    BY DEF Stray, Abort
  <2>2. owner[t] # req[w].user
    BY <1>a, <1>c, <2>1 DEF Excused, why
  <2>3. ~Covers(w, t)
    BY <1>a, <2>2 DEF Covers
  <2> QED BY <2>1, <2>3
<1>7. DisabledCovered'
  <2> SUFFICES ASSUME NEW u \in disabled', account'[topic'[u]] # "none", ~Pardoned(u)'
               PROVE  InCharge(u)'
    BY DEF DisabledCovered
  <2>1. u \in disabled /\ account[topic[u]] # "none" /\ u \in Users
    BY DEF Abort, IInv, TypeOK
  <2>2. ~Pardoned(u) /\ req[w].user # u
    BY <1>a, <1>c, <2>1 DEF Pardoned, Pardons, why
  <2>3. InCharge(u)
    BY <2>1, <2>2 DEF IInv, DisabledCovered
  <2>4. topic[u] \in Topics /\ owner[topic[u]] = u
    BY <2>1 DEF IInv, TypeOK, Owned
  <2>5. w # Operator
    BY <1>a, <2>2, <2>3, <2>4 DEF InCharge, Covers
  <2> QED BY <1>b, <2>3, <2>5 DEF InCharge, Covers, Abort, Workers
<1>8. CredentialsWork'
  BY <1>a, <1>b, <1>c DEF IInv, CredentialsWork, Abort, why
<1> QED BY <1>1, <1>2, <1>3, <1>4, <1>5, <1>6, <1>7, <1>8 DEF IInv

LEMMA InsertUserOK ==
  ASSUME IInv, NEW w \in Workers, InsertUser(w)
  PROVE  IInv'
<1>a. /\ req[w] # None /\ req[w] \in Request /\ Shape(req[w], w)
      /\ req[w].user \in Users
      /\ req[w].op \in {"create", "rotate", "disable", "backfill"}
      /\ req[w].new # None => req[w].new \in Topics /\ owner[req[w].new] = req[w].user
      /\ req[w].old # None => req[w].old \in Topics /\ owner[req[w].old] = req[w].user
  BY DEF IInv, TypeOK, Request, Requests, Shape, InsertUser, At
<1>b. /\ req' \in [Workers -> Request \cup {None}]
      /\ req'[w] = None
      /\ \A q \in Workers : q # w => req'[q] = req[q]
  BY <1>a DEF IInv, TypeOK, Done, InsertUser
<1>1. TypeOK'
  BY <1>a, <1>b DEF IInv, TypeOK, Shape, InsertUser, Password
<1>2. Requests'
  BY <1>a, <1>b DEF IInv, Requests, Shape, InsertUser
<1>3. Owned'
  BY <1>a, <1>b DEF IInv, TypeOK, Requests, Shape, Owned, InsertUser
<1>4. Exclusive'
  BY <1>a, <1>b DEF IInv, Exclusive, Minting, InsertUser
<1>5. BackfillOK'
  BY <1>a, <1>b DEF BackfillOK, Backfilling, Requests, Shape, InsertUser
<1>6. StrayCovered'
  <2>1. \A t \in Topics : Stray(t)' =>
           \/ Stray(t) /\ (Covers(w, t) => Covers(w, t)' \/ Excused(t)')
           \/ Covers(w, t)' \/ Excused(t)'
    BY <1>a, <1>b DEF IInv, TypeOK, Requests, Shape, Stray, Covers, Excused, InsertUser
  <2>2. /\ \A t \in Topics : owner[t] # None => owner'[t] = owner[t]
        /\ \A u \in Users : causes[u] \subseteq causes'[u]
    BY <1>a, <1>b DEF InsertUser
  <2> QED BY <1>b, <2>1, <2>2, StrayStep
<1>7. DisabledCovered'
  BY <1>a, <1>b DEF IInv, TypeOK, DisabledCovered, Pardoned, InCharge, Covers, Requests,
         Shape, InsertUser
<1>8. CredentialsWork'
  BY <1>a, <1>b DEF IInv, TypeOK, CredentialsWork, Exclusive, Minting, InsertUser, At,
         Password
<1> QED BY <1>1, <1>2, <1>3, <1>4, <1>5, <1>6, <1>7, <1>8 DEF IInv

LEMMA SetTopicOK ==
  ASSUME IInv, NEW w \in Workers, SetTopic(w)
  PROVE  IInv'
<1>a. /\ req[w] # None /\ req[w] \in Request /\ Shape(req[w], w)
      /\ req[w].user \in Users
      /\ req[w].op \in {"create", "rotate", "disable", "backfill"}
      /\ req[w].new # None => req[w].new \in Topics /\ owner[req[w].new] = req[w].user
      /\ req[w].old # None => req[w].old \in Topics /\ owner[req[w].old] = req[w].user
  BY DEF IInv, TypeOK, Request, Requests, Shape, SetTopic, At
<1>b. /\ req' \in [Workers -> Request \cup {None}]
      /\ req'[w] # None
      /\ req'[w].op = req[w].op /\ req'[w].user = req[w].user
      /\ req'[w].old = req[w].old /\ req'[w].new = req[w].new
      /\ req'[w].next = "remove" /\ req'[w].password = FALSE
      /\ \A q \in Workers : q # w => req'[q] = req[q]
  BY <1>a, GotoFacts DEF IInv, SetTopic
<1> DEFINE why == When(topic[req[w].user] # req[w].old, "clobbered") \cup When(req[w].user \in disabled, "late")
<1>c. /\ causes' \in [Users -> SUBSET Causes]
      /\ causes'[req[w].user] = causes[req[w].user] \cup why
      /\ \A u \in Users : causes[u] \subseteq causes'[u]
  <2>1. why \in SUBSET Causes /\ Blame(w, why)
    BY DEF SetTopic, Causes, When
  <2> QED BY <1>a, <2>1, BlameFacts DEF IInv
<1> HIDE DEF why
<1>1. TypeOK'
  BY <1>a, <1>b, <1>c DEF IInv, TypeOK, Shape, SetTopic, Password, why
<1>2. Requests'
  BY <1>a, <1>b, <1>c DEF IInv, TypeOK, Requests, Shape, Exclusive, Minting, SetTopic,
         At, why
<1>3. Owned'
  BY <1>a, <1>b, <1>c DEF IInv, Requests, Shape, Owned, SetTopic, why
<1>4. Exclusive'
  BY <1>a, <1>b, <1>c DEF IInv, Exclusive, Minting, SetTopic, why
<1>5. BackfillOK'
  BY <1>a, <1>b, <1>c DEF IInv, Workers, BackfillOK, Backfilling, Exclusive, Minting,
         SetTopic, At, why
<1>6. StrayCovered'
  <2> SUFFICES ASSUME NEW t \in Topics, Stray(t)', ~Excused(t)', ~Covers(w, t)'
               PROVE  Stray(t) /\ ~Covers(w, t)
    BY <1>a, <1>b, <1>c, StrayStep DEF SetTopic
  <2>1. req[w].new \in Topics /\ req[w].new # None /\ req[w].next = "write" /\ req[w].op = "rotate"
    BY <1>a DEF Shape, SetTopic, At
  <2>2. topic' = [topic EXCEPT ![req[w].user] = req[w].new]
    BY DEF SetTopic
  <2>3. owner' = owner /\ account' = account
    BY DEF SetTopic
  <2>4. owner[t] \in Users
    BY <2>3 DEF Stray, IInv, TypeOK, Owned
  <2>5. t # req[w].new
    BY <1>a, <2>1, <2>2, <2>3 DEF Stray, IInv, TypeOK
  <2>6. ~Covers(w, t)
    BY <2>1, <2>5 DEF Covers
  <2>7. CASE owner[t] = req[w].user
    <3>1. ~("clobbered" \in why)
      BY <1>a, <1>c, <2>3, <2>7 DEF Excused
    <3>2. topic[req[w].user] = req[w].old
      BY <3>1 DEF why, When
    <3>3. req[w].old # t
      BY <1>b DEF Covers
    <3> QED BY <2>3, <2>6, <2>7, <3>2, <3>3 DEF Stray
  <2>8. CASE owner[t] # req[w].user
    BY <1>a, <2>2, <2>3, <2>4, <2>6, <2>8 DEF Stray
  <2> QED BY <2>7, <2>8
<1>7. DisabledCovered'
  <2> SUFFICES ASSUME NEW u \in disabled', account'[topic'[u]] # "none", ~Pardoned(u)'
               PROVE  InCharge(u)'
    BY DEF DisabledCovered
  <2>1. u \in disabled /\ u \in Users
    BY DEF SetTopic, IInv, TypeOK
  <2>2. ~Pardoned(u) /\ req[w].user # u
    BY <1>a, <1>c, <2>1 DEF Pardoned, Pardons, why, When
  <2>3. topic'[u] = topic[u] /\ account' = account
    BY <1>a, <2>1, <2>2 DEF SetTopic
  <2>4. InCharge(u)
    BY <2>1, <2>2, <2>3 DEF IInv, DisabledCovered
  <2>5. w # Operator
    BY <1>a DEF Shape, SetTopic
  <2> QED BY <1>b, <2>3, <2>4, <2>5 DEF InCharge, Covers, Workers
<1>8. CredentialsWork'
  BY <1>a, <1>b, <1>c DEF IInv, TypeOK, CredentialsWork, Exclusive, Minting, SetTopic,
         At, Password, why
<1> QED BY <1>1, <1>2, <1>3, <1>4, <1>5, <1>6, <1>7, <1>8 DEF IInv

LEMMA SetDisabledOK ==
  ASSUME IInv, NEW w \in Workers, SetDisabled(w)
  PROVE  IInv'
<1>a. /\ req[w] # None /\ req[w] \in Request /\ Shape(req[w], w)
      /\ req[w].user \in Users
      /\ req[w].op \in {"create", "rotate", "disable", "backfill"}
      /\ req[w].new # None => req[w].new \in Topics /\ owner[req[w].new] = req[w].user
      /\ req[w].old # None => req[w].old \in Topics /\ owner[req[w].old] = req[w].user
  BY DEF IInv, TypeOK, Request, Requests, Shape, SetDisabled, At
<1>b. /\ req' \in [Workers -> Request \cup {None}]
      /\ req'[w] # None
      /\ req'[w].op = req[w].op /\ req'[w].user = req[w].user
      /\ req'[w].old = req[w].old /\ req'[w].new = req[w].new
      /\ req'[w].next = "remove" /\ req'[w].password = FALSE
      /\ \A q \in Workers : q # w => req'[q] = req[q]
  BY <1>a, GotoFacts DEF IInv, SetDisabled
<1> DEFINE why == When(topic[req[w].user] # req[w].old, "clobbered")
<1>c. /\ causes' \in [Users -> SUBSET Causes]
      /\ causes'[req[w].user] = causes[req[w].user] \cup why
      /\ \A u \in Users : causes[u] \subseteq causes'[u]
  <2>1. why \in SUBSET Causes /\ Blame(w, why)
    BY DEF SetDisabled, Causes, When
  <2> QED BY <1>a, <2>1, BlameFacts DEF IInv
<1> HIDE DEF why
<1>1. TypeOK'
  BY <1>a, <1>b, <1>c DEF IInv, TypeOK, Shape, SetDisabled, why
<1>2. Requests'
  BY <1>a, <1>b, <1>c DEF IInv, Requests, Shape, SetDisabled, why
<1>3. Owned'
  BY <1>a, <1>b, <1>c DEF IInv, Owned, SetDisabled, why
<1>4. Exclusive'
  BY <1>a, <1>b, <1>c DEF IInv, Exclusive, Minting, SetDisabled, why
<1>5. BackfillOK'
  BY <1>a, <1>b, <1>c DEF BackfillOK, Backfilling, Requests, Shape, SetDisabled, why
<1>6. StrayCovered'
  <2>1. \A t \in Topics : Stray(t)' =>
           \/ Stray(t) /\ (Covers(w, t) => Covers(w, t)' \/ Excused(t)')
           \/ Covers(w, t)' \/ Excused(t)'
    BY <1>a, <1>b, <1>c DEF Requests, Shape, Stray, Covers, Excused, SetDisabled, why
  <2>2. /\ \A t \in Topics : owner[t] # None => owner'[t] = owner[t]
        /\ \A u \in Users : causes[u] \subseteq causes'[u]
    BY <1>a, <1>b, <1>c DEF SetDisabled
  <2> QED BY <1>b, <2>1, <2>2, StrayStep
<1>7. DisabledCovered'
  <2> SUFFICES ASSUME NEW u \in disabled', account'[topic'[u]] # "none", ~Pardoned(u)'
               PROVE  InCharge(u)'
    BY DEF DisabledCovered
  <2>1. w = Operator /\ req[w].old # None /\ req[w].old \in Topics /\ topic' = topic /\ account' = account
    BY <1>a DEF Shape, SetDisabled
  <2>2. CASE u = req[w].user
    <3>1. topic[u] = req[w].old
      BY <1>a, <1>c, <2>2 DEF Pardoned, Pardons, why, When
    <3> QED BY <1>b, <2>1, <3>1 DEF InCharge, Covers, SetDisabled
  <2>3. CASE u # req[w].user
    <3>1. u \in disabled /\ u \in Users
      BY <2>3 DEF SetDisabled, IInv, TypeOK
    <3>2. ~Pardoned(u)
      BY <1>c, <3>1 DEF Pardoned
    <3>3. InCharge(u)
      BY <2>1, <3>1, <3>2 DEF IInv, DisabledCovered
    <3>4. topic[u] # None /\ owner[topic[u]] = u
      BY <3>1 DEF IInv, TypeOK, Owned
    <3> QED BY <1>a, <2>1, <2>3, <3>3, <3>4 DEF InCharge, Covers, SetDisabled
  <2> QED BY <2>2, <2>3
<1>8. CredentialsWork'
  BY <1>a, <1>b, <1>c DEF IInv, CredentialsWork, SetDisabled, why
<1> QED BY <1>1, <1>2, <1>3, <1>4, <1>5, <1>6, <1>7, <1>8 DEF IInv

LEMMA SetTokenOK ==
  ASSUME IInv, NEW w \in Workers, SetToken(w)
  PROVE  IInv'
<1>a. /\ req[w] # None /\ req[w] \in Request /\ Shape(req[w], w)
      /\ req[w].user \in Users
      /\ req[w].op \in {"create", "rotate", "disable", "backfill"}
      /\ req[w].new # None => req[w].new \in Topics /\ owner[req[w].new] = req[w].user
      /\ req[w].old # None => req[w].old \in Topics /\ owner[req[w].old] = req[w].user
  BY DEF IInv, TypeOK, Request, Requests, Shape, SetToken, At
<1>b. /\ req' \in [Workers -> Request \cup {None}]
      /\ req'[w] = None
      /\ \A q \in Workers : q # w => req'[q] = req[q]
  BY <1>a DEF IInv, TypeOK, Done, SetToken
<1> DEFINE why == When(topic[req[w].user] # req[w].new, "outdated") \cup When(req[w].user \in disabled, "revived")
<1>c. /\ causes' \in [Users -> SUBSET Causes]
      /\ causes'[req[w].user] = causes[req[w].user] \cup why
      /\ \A u \in Users : causes[u] \subseteq causes'[u]
  <2>1. why \in SUBSET Causes /\ Blame(w, why)
    BY DEF SetToken, Causes, When
  <2> QED BY <1>a, <2>1, BlameFacts DEF IInv
<1> HIDE DEF why
<1>1. TypeOK'
  BY <1>a, <1>b, <1>c DEF IInv, TypeOK, SetToken, why
<1>2. Requests'
  BY <1>a, <1>b, <1>c DEF IInv, Requests, Shape, SetToken, why
<1>3. Owned'
  BY <1>a, <1>b, <1>c DEF IInv, Requests, Shape, Owned, SetToken, why
<1>4. Exclusive'
  BY <1>a, <1>b, <1>c DEF IInv, Exclusive, Minting, SetToken, why
<1>5. BackfillOK'
  BY <1>a, <1>b, <1>c DEF BackfillOK, Backfilling, Requests, Shape, SetToken, why
<1>6. StrayCovered'
  <2> SUFFICES ASSUME NEW t \in Topics, Stray(t)', ~Excused(t)', ~Covers(w, t)'
               PROVE  Stray(t) /\ ~Covers(w, t)
    BY <1>a, <1>b, <1>c, StrayStep DEF SetToken
  <2>1. Stray(t) /\ owner'[t] = owner[t]
    BY DEF Stray, SetToken
  <2>2. ASSUME Covers(w, t) PROVE FALSE
    <3>1. t = req[w].new /\ owner[t] = req[w].user
      BY <1>a, <2>2 DEF Covers, SetToken, At
    <3>2. topic[req[w].user] # req[w].new
      BY <2>1, <3>1 DEF Stray
    <3> QED BY <1>a, <1>c, <2>1, <3>1, <3>2 DEF Excused, why, When
  <2> QED BY <2>1, <2>2
<1>7. DisabledCovered'
  <2> SUFFICES ASSUME NEW u \in disabled', account'[topic'[u]] # "none", ~Pardoned(u)'
               PROVE  InCharge(u)'
    BY DEF DisabledCovered
  <2>1. u \in disabled /\ account[topic[u]] # "none" /\ u \in Users /\ w = Operator
    BY <1>a DEF SetToken, IInv, TypeOK, Shape
  <2>2. ~Pardoned(u) /\ req[w].user # u
    BY <1>a, <1>c, <2>1 DEF Pardoned, Pardons, why, When
  <2>3. InCharge(u)
    BY <2>1, <2>2 DEF IInv, DisabledCovered
  <2>4. topic[u] \in Topics /\ owner[topic[u]] = u
    BY <2>1 DEF IInv, TypeOK, Owned
  <2> QED BY <1>a, <2>1, <2>2, <2>3, <2>4 DEF InCharge, Covers, SetToken
<1>8. CredentialsWork'
  <2> SUFFICES ASSUME NEW u \in Users \ disabled
               PROVE  (\/ token[u] = None
                       \/ token[u] = topic[u] /\ account[topic[u]] = "reader"
                       \/ causes[u] \cap {"takeover", "outdated"} # {})'
    BY DEF CredentialsWork, SetToken
  <2>1. topic' = topic /\ account' = account /\ token' = [token EXCEPT ![req[w].user] = req[w].new]
    BY DEF SetToken
  <2>2. CASE u = req[w].user
    <3>1. token'[u] = req[w].new
      BY <2>1, <2>2 DEF IInv, TypeOK
    <3>2. CASE topic[u] = req[w].new
      <4>1. account[topic[u]] = "reader" \/ "takeover" \in causes[u]
        BY <1>a, <2>2, <3>2 DEF IInv, BackfillOK, Backfilling, SetToken, At, Shape
      <4> QED BY <1>c, <2>1, <3>1, <3>2, <4>1
    <3>3. CASE topic[u] # req[w].new
      BY <1>c, <2>2, <3>3 DEF why, When
    <3> QED BY <3>2, <3>3
  <2>3. CASE u # req[w].user
    BY <1>a, <1>c, <2>1, <2>3 DEF IInv, CredentialsWork
  <2> QED BY <2>2, <2>3
<1> QED BY <1>1, <1>2, <1>3, <1>4, <1>5, <1>6, <1>7, <1>8 DEF IInv

LEMMA StutterOK == ASSUME IInv, UNCHANGED vars PROVE IInv'
<1> USE DEF vars
<1>1. TypeOK'
  BY DEF IInv, TypeOK
<1>2. Requests' /\ Owned' /\ Exclusive' /\ BackfillOK'
  BY DEF IInv, Requests, Shape, Owned, Exclusive, Minting, BackfillOK, Backfilling
<1>3. StrayCovered' /\ DisabledCovered' /\ CredentialsWork'
  BY DEF IInv, StrayCovered, Stray, Excused, Covers, DisabledCovered, Pardoned, InCharge,
         CredentialsWork
<1> QED BY <1>1, <1>2, <1>3 DEF IInv

LEMMA StepOK == ASSUME IInv, [Next]_vars PROVE IInv'
<1>1. CASE \E u \in Users, t \in Topics :
             BeginCreate(u, t) \/ \E w \in Threads : BeginRotate(w, u, t)
  BY <1>1, BeginCreateOK, BeginRotateOK
<1>2. CASE \E u \in Users :
             BeginDisable(u) \/ BeginBackfill(u) \/ DisableByHand(u) \/ ExpireAccess(u)
  BY <1>2, BeginDisableOK, BeginBackfillOK, DisableByHandOK, ExpireAccessOK
<1>3. CASE \E w \in Workers :
             \/ AddAccount(w) \/ GrantAccess(w) \/ CommandFails(w)
             \/ BackfillCommandFails(w) \/ ChangePassword(w)
  BY <1>3, AddAccountOK, GrantAccessOK, CommandFailsOK, BackfillCommandFailsOK,
     ChangePasswordOK
<1>4. CASE \E w \in Workers :
             \/ RemoveAccount(w) \/ Abort(w)
             \/ InsertUser(w) \/ SetTopic(w) \/ SetDisabled(w) \/ SetToken(w)
  BY <1>4, RemoveAccountOK, AbortOK, InsertUserOK, SetTopicOK, SetDisabledOK, SetTokenOK
<1>5. CASE UNCHANGED vars
  BY <1>5, StutterOK
<1> QED BY <1>1, <1>2, <1>3, <1>4, <1>5 DEF Next

-----------------------------------------------------------------------------
(* Theorems.                                                               *)

\* The inductive invariant holds in every reachable state.
THEOREM Inductive == Spec => []IInv
<1>1. Init => IInv
  BY InitIInv
<1>2. IInv /\ [Next]_vars => IInv'
  BY StepOK
<1> QED BY <1>1, <1>2, PTL DEF Spec

\* Rows, accounts and processes keep their types; only rows are disabled.
THEOREM TypeCorrect == Spec => []TypeOK
<1>1. IInv => TypeOK
  BY DEF IInv
<1> QED BY <1>1, Inductive, PTL

\* Rotation removes the account of the topic it replaces, whatever overlaps,
\* unless a command failed, an update was lost or a backfill was outdated
\* (users.py:155-182).
THEOREM StrayHasCause == Spec => []StrayNeedsCause
<1>1. IInv => StrayNeedsCause
  <2> SUFFICES ASSUME IInv, NEW t \in Topics, Stray(t), ~InHand(t)
               PROVE  Excused(t)
    BY DEF StrayNeedsCause, Stray, Excused
  <2>1. \A w \in Workers : ~Covers(w, t)
    BY DEF Covers, InHand
  <2> QED BY <2>1 DEF IInv, StrayCovered
<1> QED BY <1>1, Inductive, PTL

\* Disabling a user removes the account of the current topic, unless a command
\* failed, a rotation overlapped or came later, the backfill served the user again,
\* or the user was disabled by hand (users.py:284-320, ADMIN_GUIDE.md:195-205).
THEOREM DisabledHasCause == Spec => []DisabledNeedsCause
<1>1. IInv => DisabledNeedsCause
  <2> SUFFICES ASSUME IInv, NEW u \in disabled, Unrevoked(u)
               PROVE  Pardoned(u)
    BY DEF DisabledNeedsCause, Pardoned, Pardons
  <2>1. ~InCharge(u)
    BY DEF Unrevoked, InCharge, Covers, InHand, Workers
  <2> QED BY <2>1 DEF Unrevoked, IInv, DisabledCovered
<1> QED BY <1>1, Inductive, PTL

\* The password of an enabled user opens the current topic, whatever failed or
\* overlapped, unless the backfill took the account over or was outdated
\* (users.py:137-182, backfill_ntfy_accounts.py:25-36).
THEOREM CredentialsOpenTopic == Spec => []CredentialsWork
<1>1. IInv => CredentialsWork
  BY DEF IInv
<1> QED BY <1>1, Inductive, PTL
=============================================================================
