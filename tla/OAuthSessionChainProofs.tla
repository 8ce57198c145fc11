---------------------- MODULE OAuthSessionChainProofs ----------------------
(***************************************************************************)
(* The sessions of connectors implement SessionChain, for any sets of      *)
(* users, threads, connectors, codes and tokens.  ChainInv adds to the     *)
(* inductive invariant of OAuthSessionsProofs that a family has a first    *)
(* token (Founded), a connector's family at most one head (OneHead), and   *)
(* none but the token that the event loop is exchanging (HeldHead).        *)
(***************************************************************************)
EXTENDS OAuthSessionChain, OAuthSessionsProofs

Founded ==
  \A t \in TokenIds :
    token[t] # None /\ token[t].family # None => token[token[t].family].family = token[t].family

OneHead == \A f \in TokenIds : ConnectorFamily(f) => \A s, t \in Heads(f) : s = t

HeldHead == req[EventLoop].pc = "fresh" =>
              \A t \in Heads(req[EventLoop].family) : t = req[EventLoop].secret

ChainInv == IInv /\ Founded /\ OneHead /\ HeldHead

-----------------------------------------------------------------------------
USE WorkersAssumption, ClientsAssumption, SecretsAssumption, LegacyAssumption,
    NoneAssumption, RowsAssumption, ChainAssumption

(* Families.                                                               *)

\* A token that has no row is in no family, and no row is in its family.
LEMMA FreshToken ==
  ASSUME ChainInv, NEW s \in TokenIds, token[s] = None
  PROVE  /\ s \notin rows \cup used \cup revoked
         /\ ~ConnectorFamily(s)
         /\ FamilyOf(s) = {}
<1>1. s \notin rows \cup used \cup revoked
  BY DEF ChainInv, IInv, Marked
<1>2. FamilyOf(s) = {}
  BY DEF ChainInv, IInv, Lineage, SameOwner, FamilyOf
<1> QED BY <1>1, <1>2 DEF ConnectorFamily

\* The tokens of a family have the client and the user of its first.
LEMMA SameFamily ==
  ASSUME ChainInv, NEW f \in TokenIds, NEW t \in FamilyOf(f)
  PROVE  /\ t \in TokenIds /\ token[t] # None /\ token[t].family = f
         /\ token[f] # None /\ token[f].family = f
         /\ token[t].client = token[f].client /\ token[t].user = token[f].user
         /\ token[t].client \in Connectors <=> ConnectorFamily(f)
<1>1. t \in TokenIds /\ token[t] # None /\ token[t].family = f /\ f # None
  BY DEF FamilyOf
<1>2. SameOwner(t, f) /\ token[f].family = f
  BY <1>1 DEF ChainInv, IInv, Lineage, Founded
<1> QED BY <1>1, <1>2 DEF SameOwner, ConnectorFamily

\* What the event loop holds is a connector's token, and any family it is of is
\* a connector's.
LEMMA LoopToken ==
  ASSUME ChainInv, req[EventLoop].pc \in {"fresh", "reuse"}
  PROVE  /\ req[EventLoop].secret \in TokenIds /\ token[req[EventLoop].secret] # None
         /\ req[EventLoop].family \in TokenIds \cup {None}
         /\ req[EventLoop].family # None =>
              /\ req[EventLoop].secret \in FamilyOf(req[EventLoop].family)
              /\ ConnectorFamily(req[EventLoop].family)
<1> DEFINE x == req[EventLoop].secret
           f == req[EventLoop].family
<1>1. RemembersToken(EventLoop)
  BY DEF ChainInv, IInv, Remembers, Workers
<1>2. x \in TokenIds /\ token[x] # None /\ f = token[x].family /\ token[x].client \in Connectors
  BY <1>1 DEF RemembersToken, Serves
<1>3. f \in TokenIds \cup {None}
  BY <1>2 DEF ChainInv, IInv, TypeOK, TokenInfo
<1>4. f # None => x \in FamilyOf(f)
  BY <1>2 DEF FamilyOf
<1> QED BY <1>2, <1>3, <1>4, SameFamily

\* A thread holds a token of the dashboard's.
LEMMA ThreadToken ==
  ASSUME ChainInv, NEW w \in Threads, req[w].pc \in {"fresh", "reuse"},
         req[w].family # None
  PROVE  /\ req[w].family \in TokenIds /\ ~ConnectorFamily(req[w].family)
<1> DEFINE x == req[w].secret
           f == req[w].family
<1>1. RemembersToken(w)
  BY DEF ChainInv, IInv, Remembers, Workers
<1>2. x \in TokenIds /\ token[x] # None /\ f = token[x].family /\ token[x].client = Dashboard
  BY <1>1 DEF RemembersToken, Serves
<1>3. f \in TokenIds
  BY <1>2 DEF ChainInv, IInv, TypeOK, TokenInfo
<1>4. x \in FamilyOf(f)
  BY <1>2 DEF FamilyOf
<1> QED BY <1>2, <1>3, <1>4, SameFamily

(* Where a session is.                                                     *)

LEMMA AtHeld ==
  ASSUME NEW f, ConnectorFamily(f), Holding(f)
  PROVE  At(f) = req[EventLoop].secret
BY DEF At

LEMMA AtHead ==
  ASSUME OneHead, NEW f \in TokenIds, ConnectorFamily(f), ~Holding(f), NEW t \in Heads(f)
  PROVE  At(f) = t
<1>1. Heads(f) = {t}
  BY DEF OneHead
<1> QED BY <1>1 DEF At

LEMMA AtOver ==
  ASSUME NEW f, ConnectorFamily(f), ~Holding(f), Heads(f) = {}
  PROVE  At(f) = Over
BY DEF At

\* A session that a step does not touch stays where it is.
LEMMA AtSame ==
  ASSUME NEW f, ConnectorFamily(f)' <=> ConnectorFamily(f), Holding(f)' <=> Holding(f),
         Holding(f) => req'[EventLoop].secret = req[EventLoop].secret,
         Heads(f)' = Heads(f)
  PROVE  At(f)' = At(f)
BY DEF At

\* The variables of the chains.
Current == [f \in TokenIds |-> At(f)]
HandedOut == {t \in TokenIds : token[t] # None}

ChainStep == [Chain!Next]_<<Current, HandedOut>>

LEMMA CurrentAt ==
  ASSUME NEW f \in TokenIds
  PROVE  Current[f] = At(f) /\ Current'[f] = At(f)'
BY DEF Current

-----------------------------------------------------------------------------
(* Steps.                                                                  *)

\* A step that writes no row, and by which the event loop neither takes up a
\* token nor lays one down, is not seen in any chain.
LEMMA QuietStep ==
  ASSUME ChainInv, IInv', token' = token, rows' = rows, revoked' = revoked,
         \A t \in TokenIds : t \in used' <=> t \in used,
         \/ req'[EventLoop] = req[EventLoop]
         \/ req[EventLoop].pc # "fresh" /\ req'[EventLoop].pc # "fresh"
  PROVE  ChainInv' /\ UNCHANGED <<Current, HandedOut>>
<1>1. \A f : Heads(f)' = Heads(f) /\ (ConnectorFamily(f)' <=> ConnectorFamily(f))
  BY DEF Heads, FamilyOf, ConnectorFamily
<1>2. \A f : Holding(f)' <=> Holding(f)
  BY DEF Holding
<1>3. \A f : Holding(f) => req'[EventLoop].secret = req[EventLoop].secret
  BY DEF Holding
<1>4. Current' = Current
  <2>1. \A f \in TokenIds : At(f)' = At(f)
    BY <1>1, <1>2, <1>3, AtSame
  <2> QED BY <2>1 DEF Current
<1>5. Founded' /\ OneHead' /\ HeldHead' /\ HandedOut' = HandedOut
  BY <1>1 DEF ChainInv, Founded, OneHead, HeldHead, HandedOut
<1> QED BY <1>4, <1>5 DEF ChainInv

\* An INSERT of s leaves the sessions alone of which s is not.
LEMMA OtherChains ==
  ASSUME ChainInv, NEW s \in TokenIds, token[s] = None, token'[s] # None,
         \A t \in TokenIds : t # s => token'[t] = token[t],
         NEW f \in TokenIds, f # s, token'[s].family # f,
         \A t \in FamilyOf(f) : (t \in rows' <=> t \in rows) /\ (t \in used' <=> t \in used),
         revoked' = revoked
  PROVE  FamilyOf(f)' = FamilyOf(f) /\ Heads(f)' = Heads(f)
         /\ (ConnectorFamily(f)' <=> ConnectorFamily(f))
<1>1. FamilyOf(f)' = FamilyOf(f)
  BY DEF FamilyOf
<1>2. Heads(f)' = Heads(f)
  BY <1>1 DEF Heads
<1> QED BY <1>1, <1>2 DEF ConnectorFamily

LEMMA HandOut ==
  ASSUME NEW s \in TokenIds, token[s] = None, token'[s] # None,
         \A t \in TokenIds : t # s => token'[t] = token[t]
  PROVE  Chain!Fresh(s) /\ HandedOut' = HandedOut \cup {s}
BY DEF Chain!Fresh, HandedOut

\* INSERT of a first token: the session opens if it is a connector's.
LEMMA IssueSessionStep ==
  ASSUME ChainInv, IInv', NEW w \in Workers, NEW s \in TokenIds, IssueSession(w, s)
  PROVE  ChainInv' /\ ChainStep
<1>1. /\ token[s] = None
      /\ token' = [token EXCEPT ![s] = [client |-> req[w].client,
                     user |-> req[w].user, family |-> s, parent |-> None]]
      /\ token'[s] # None /\ rows' = rows \cup {s}
  BY SessionRow DEF ChainInv
<1>2. token \in [TokenIds -> TokenInfo \cup {None}]
  BY DEF ChainInv, IInv, TypeOK
<1>3. /\ \A t \in TokenIds : t # s => token'[t] = token[t]
      /\ token'[s].family = s /\ used' = used /\ revoked' = revoked
  BY <1>1, <1>2 DEF IssueSession
<1>4. /\ s \notin rows \cup used \cup revoked
      /\ ~ConnectorFamily(s) /\ FamilyOf(s) = {}
  BY <1>1, FreshToken
<1>5. FamilyOf(s)' = {s} /\ Heads(s)' = {s}
  <2>1. FamilyOf(s)' = {s}
    BY <1>1, <1>3, <1>4 DEF FamilyOf
  <2> QED BY <1>1, <1>3, <1>4, <2>1 DEF Heads
<1>6. \A f \in TokenIds : f # s =>
        /\ FamilyOf(f)' = FamilyOf(f) /\ Heads(f)' = Heads(f)
        /\ (ConnectorFamily(f)' <=> ConnectorFamily(f))
  <2> SUFFICES ASSUME NEW f \in TokenIds, f # s
               PROVE  /\ FamilyOf(f)' = FamilyOf(f) /\ Heads(f)' = Heads(f)
                      /\ (ConnectorFamily(f)' <=> ConnectorFamily(f))
    OBVIOUS
  <2>1. s \notin FamilyOf(f)
    BY <1>1 DEF FamilyOf
  <2>2. \A t \in FamilyOf(f) : (t \in rows' <=> t \in rows) /\ (t \in used' <=> t \in used)
    BY <1>1, <1>3, <2>1
  <2> QED BY <1>1, <1>3, <2>2, OtherChains
<1>7. \A q \in Workers : q # w => req'[q] = req[q]
  BY DEF IssueSession, ChainInv, IInv, TypeOK
<1>8. req'[w].pc = "idle" /\ req[w].pc = "granted"
  BY DEF IssueSession, ChainInv, IInv, TypeOK, Idle
<1>9. /\ req'[EventLoop].pc = "fresh" <=> req[EventLoop].pc = "fresh"
      /\ req[EventLoop].pc = "fresh" => req'[EventLoop] = req[EventLoop]
  BY <1>7, <1>8 DEF Workers
<1>10. \A f : (Holding(f)' <=> Holding(f))
              /\ (Holding(f) => req'[EventLoop].secret = req[EventLoop].secret)
  BY <1>9 DEF Holding
<1>11. ~Holding(s)
  BY <1>4, LoopToken DEF Holding
<1>12. Founded'
  BY <1>1, <1>2, <1>3 DEF ChainInv, IInv, Founded, Lineage, SameOwner, TypeOK, TokenInfo
<1>13. OneHead'
  BY <1>5, <1>6 DEF ChainInv, OneHead
<1>14. HeldHead'
  <2> SUFFICES ASSUME req[EventLoop].pc = "fresh", NEW t \in Heads(req[EventLoop].family)'
               PROVE  t = req[EventLoop].secret
    BY <1>9 DEF HeldHead
  <2>1. req[EventLoop].family \in TokenIds
    BY <1>9, LoopToken DEF Heads, FamilyOf
  <2>2. req[EventLoop].family # s
    BY <1>11 DEF Holding
  <2> QED BY <1>6, <1>9, <2>1, <2>2 DEF ChainInv, HeldHead
<1>15. \A f \in TokenIds : f # s => At(f)' = At(f)
  BY <1>6, <1>10, AtSame
<1>16. Chain!Fresh(s) /\ HandedOut' = HandedOut \cup {s}
  BY <1>1, <1>3, HandOut
<1>17. ChainStep
  <2>1. CASE ConnectorFamily(s)'
    <3>1. At(s) = Unopened
      BY <1>4 DEF At
    <3>2. At(s)' = s
      BY <1>5, <1>10, <1>11, <2>1 DEF At
    <3>3. Current' = [Current EXCEPT ![s] = s]
      BY <1>15, <3>2 DEF Current
    <3>4. Chain!Open(s, s)
      BY <1>16, <3>1, <3>3 DEF Chain!Open, Current, HandedOut
    <3> QED BY <3>4 DEF ChainStep, Chain!Next
  <2>2. CASE ~ConnectorFamily(s)'
    <3>1. At(s)' = At(s)
      BY <1>4, <2>2 DEF At
    <3>2. Current' = Current
      BY <1>15, <3>1 DEF Current
    <3>3. Chain!HandOutElsewhere(s)
      BY <1>16, <3>2 DEF Chain!HandOutElsewhere, Current, HandedOut
    <3> QED BY <3>3 DEF ChainStep, Chain!Next
  <2> QED BY <2>1, <2>2
<1> QED BY <1>12, <1>13, <1>14, <1>17 DEF ChainInv

\* The event loop takes up a token: it was its session's head.
LEMMA ReadTokenStep ==
  ASSUME ChainInv, IInv', NEW w \in Workers, NEW t \in TokenIds, ReadToken(w, t)
  PROVE  ChainInv' /\ UNCHANGED <<Current, HandedOut>>
<1>1. /\ token' = token /\ rows' = rows /\ used' = used /\ revoked' = revoked
      /\ t \in rows /\ t \notin revoked /\ token[t] # None /\ req[w].pc = "idle"
  BY DEF ReadToken, TokenAcceptable, IsIdle, ChainInv, IInv, Marked
<1>2. CASE w # EventLoop \/ t \in used
  <2>1. \/ req'[EventLoop] = req[EventLoop]
        \/ req[EventLoop].pc # "fresh" /\ req'[EventLoop].pc # "fresh"
    BY <1>1, <1>2 DEF ReadToken, ChainInv, IInv, TypeOK
  <2> QED BY <1>1, <2>1, QuietStep
<1>3. CASE w = EventLoop /\ t \notin used
  <2> DEFINE g == token[t].family
  <2>1. /\ req'[EventLoop].pc = "fresh" /\ req'[EventLoop].secret = t
        /\ req'[EventLoop].family = g
    BY <1>3 DEF ReadToken, ChainInv, IInv, TypeOK
  <2>2. \A f : Heads(f)' = Heads(f) /\ (ConnectorFamily(f)' <=> ConnectorFamily(f))
    BY <1>1 DEF Heads, FamilyOf, ConnectorFamily
  <2>3. \A f : ~Holding(f) /\ (Holding(f)' <=> f = g)
    BY <1>1, <1>3, <2>1 DEF Holding
  <2>4. g \in TokenIds \cup {None}
    BY <1>1 DEF ChainInv, IInv, TypeOK, TokenInfo
  <2>5. ASSUME g \in TokenIds
        PROVE  t \in Heads(g) /\ ConnectorFamily(g)
    <3>1. t \in FamilyOf(g)
      BY <1>1, <2>5 DEF FamilyOf
    <3>2. token[t].client \in Connectors
      BY <1>3 DEF ReadToken, TokenAcceptable, Serves
    <3> QED BY <1>1, <1>3, <2>5, <3>1, <3>2, SameFamily DEF Heads
  <2>6. HeldHead'
    <3> SUFFICES ASSUME NEW s \in Heads(g) PROVE s = t
      BY <2>1, <2>2 DEF HeldHead
    <3>1. g \in TokenIds
      BY <2>4 DEF Heads, FamilyOf
    <3> QED BY <2>5, <3>1 DEF ChainInv, OneHead
  <2>7. ASSUME NEW f \in TokenIds PROVE At(f)' = At(f)
    <3>1. CASE f = g
      <4>1. At(f) = t
        BY <2>3, <2>5, <3>1, AtHead DEF ChainInv
      <4>2. At(f)' = t
        BY <2>1, <2>2, <2>3, <2>5, <3>1 DEF At
      <4> QED BY <4>1, <4>2
    <3>2. CASE f # g
      BY <2>2, <2>3, <3>2, AtSame
    <3> QED BY <3>1, <3>2
  <2>8. Founded' /\ OneHead' /\ HandedOut' = HandedOut
    BY <1>1, <2>2 DEF ChainInv, Founded, OneHead, HandedOut
  <2>9. Current' = Current
    BY <2>7 DEF Current
  <2> QED BY <2>6, <2>8, <2>9 DEF ChainInv
<1> QED BY <1>2, <1>3

\* INSERT of a successor: the event loop moves its session on.
LEMMA RotateStep ==
  ASSUME ChainInv, IInv', NEW w \in Workers, NEW s \in TokenIds, Rotate(w, s)
  PROVE  ChainInv' /\ ChainStep
<1>0. PICK x, g : x = req[w].secret /\ g = req[w].family
  OBVIOUS
<1>1. /\ token[s] = None /\ x \in TokenIds /\ token[x] # None
      /\ token' = [token EXCEPT ![s] = [client |-> req[w].client,
                     user |-> req[w].user, family |-> g, parent |-> x]]
      /\ token'[s] # None /\ rows' = rows \cup {s}
  BY <1>0, SuccessorRow DEF ChainInv
<1>2. token \in [TokenIds -> TokenInfo \cup {None}]
  BY DEF ChainInv, IInv, TypeOK
<1>3. /\ \A t \in TokenIds : t # s => token'[t] = token[t]
      /\ token'[s].family = g
      /\ used' = used \cup ({x} \cap rows) /\ revoked' = revoked
  BY <1>0, <1>1, <1>2 DEF Rotate, RotateAs
<1>4. /\ s \notin rows \cup used \cup revoked
      /\ ~ConnectorFamily(s) /\ FamilyOf(s) = {} /\ s # x
  BY <1>1, FreshToken
<1>5. g = token[x].family /\ g \in TokenIds \cup {None}
  <2>1. g = token[x].family
    BY <1>0 DEF ChainInv, IInv, Remembers, RemembersToken, Rotate, RotateAs
  <2> QED BY <1>1, <1>2, <2>1 DEF TokenInfo
<1>6. g # s
  <2>1. ASSUME g = s PROVE FALSE
    <3>1. x \in FamilyOf(s)
      BY <1>1, <1>5, <2>1 DEF FamilyOf
    <3> QED BY <1>4, <3>1
  <2> QED BY <2>1
<1>7. \A f \in TokenIds : f # s /\ f # g =>
        /\ FamilyOf(f)' = FamilyOf(f) /\ Heads(f)' = Heads(f)
        /\ (ConnectorFamily(f)' <=> ConnectorFamily(f))
  <2> SUFFICES ASSUME NEW f \in TokenIds, f # s, f # g
               PROVE  /\ FamilyOf(f)' = FamilyOf(f) /\ Heads(f)' = Heads(f)
                      /\ (ConnectorFamily(f)' <=> ConnectorFamily(f))
    OBVIOUS
  <2>1. s \notin FamilyOf(f) /\ x \notin FamilyOf(f)
    BY <1>1, <1>5 DEF FamilyOf
  <2>2. \A t \in FamilyOf(f) : (t \in rows' <=> t \in rows) /\ (t \in used' <=> t \in used)
    BY <1>1, <1>3, <2>1
  <2> QED BY <1>1, <1>3, <2>2, OtherChains
<1>8. ~ConnectorFamily(s)'
  BY <1>3, <1>6 DEF ConnectorFamily
<1>9. req[w].pc = "fresh" /\ req'[w].pc = "idle" /\ \A q \in Workers : q # w => req'[q] = req[q]
  BY DEF Rotate, RotateAs, ChainInv, IInv, TypeOK, Idle
<1>10. At(s)' = At(s)
  BY <1>4, <1>8 DEF At
<1>11. Founded'
  <2> SUFFICES ASSUME NEW t \in TokenIds, token'[t] # None, token'[t].family # None
               PROVE  token'[token'[t].family].family = token'[t].family
    BY DEF Founded
  <2>1. CASE t = s
    <3>1. g \in TokenIds /\ token[g].family = g
      BY <1>1, <1>3, <1>5, <2>1 DEF ChainInv, Founded
    <3> QED BY <1>3, <1>6, <2>1, <3>1
  <2>2. CASE t # s
    <3>1. token[t] # None /\ token'[t] = token[t]
      BY <1>3, <2>2
    <3>2. token[token[t].family] # None /\ token[token[t].family].family = token[t].family
      BY <2>2, <3>1 DEF ChainInv, IInv, Founded, Lineage, SameOwner
    <3>3. token[t].family \in TokenIds
      BY <1>2, <2>2, <3>1 DEF TokenInfo
    <3> QED BY <1>1, <1>3, <3>1, <3>2, <3>3
  <2> QED BY <2>1, <2>2
<1>12. Chain!Fresh(s) /\ HandedOut' = HandedOut \cup {s}
  BY <1>1, <1>3, HandOut
<1>13. CASE w = EventLoop /\ g # None
  <2>1. g \in TokenIds /\ x \in FamilyOf(g) /\ ConnectorFamily(g) /\ Holding(g)
    BY <1>0, <1>5, <1>9, <1>13, LoopToken DEF Holding
  <2>2. ConnectorFamily(g)'
    BY <1>3, <1>6, <2>1 DEF ConnectorFamily
  <2>3. Heads(g)' = {s}
    <3>1. FamilyOf(g)' = FamilyOf(g) \cup {s}
      BY <1>1, <1>3, <1>13, <2>1 DEF FamilyOf
    <3>2. Heads(g) \subseteq {x}
      BY <1>0, <1>9, <1>13 DEF ChainInv, HeldHead
    <3> QED BY <1>1, <1>3, <1>4, <3>1, <3>2 DEF Heads
  <2>4. \A f : (Holding(f) <=> f = g) /\ ~Holding(f)'
    BY <1>0, <1>9, <1>13 DEF Holding
  <2>5. OneHead'
    <3> SUFFICES ASSUME NEW f \in TokenIds, ConnectorFamily(f)'
                 PROVE  \A a, b \in Heads(f)' : a = b
      BY DEF OneHead
    <3>1. CASE f = g
      BY <2>3, <3>1
    <3>2. CASE f # g
      BY <1>7, <1>8, <3>2 DEF ChainInv, OneHead
    <3> QED BY <3>1, <3>2
  <2>6. HeldHead'
    BY <1>0, <1>9, <1>13 DEF HeldHead
  <2>7. At(g) = x /\ At(g)' = s
    <3>1. At(g) = x
      BY <1>0, <1>13, <2>1, AtHeld
    <3> QED BY <2>2, <2>3, <2>4, <3>1 DEF At
  <2>8. \A f \in TokenIds : f # g => At(f)' = At(f)
    <3> SUFFICES ASSUME NEW f \in TokenIds, f # g, f # s PROVE At(f)' = At(f)
      BY <1>10
    <3> QED BY <1>7, <2>4, AtSame
  <2>9. Current' = [Current EXCEPT ![g] = s]
    BY <2>1, <2>7, <2>8 DEF Current
  <2>10. Chain!Rotate(g, s)
    BY <1>1, <1>12, <2>1, <2>7, <2>9 DEF Chain!Rotate, Current, HandedOut
  <2>11. ChainStep
    BY <2>1, <2>10 DEF ChainStep, Chain!Next
  <2> QED BY <1>11, <2>5, <2>6, <2>11 DEF ChainInv
<1>14. CASE w # EventLoop \/ g = None
  <2>1. g # None => g \in TokenIds /\ ~ConnectorFamily(g)
    BY <1>0, <1>5, <1>9, <1>14, ThreadToken DEF Workers
  <2>2. g # None => ~ConnectorFamily(g)'
    BY <1>3, <1>6, <2>1 DEF ConnectorFamily
  <2>3. \/ req'[EventLoop] = req[EventLoop]
        \/ w = EventLoop /\ req[EventLoop].family = None /\ req'[EventLoop].pc = "idle"
    BY <1>0, <1>9, <1>14 DEF Workers
  <2>4. \A f \in TokenIds : (Holding(f)' <=> Holding(f))
                 /\ (Holding(f) => req'[EventLoop].secret = req[EventLoop].secret)
    BY <2>3 DEF Holding
  <2>5. OneHead'
    <3> SUFFICES ASSUME NEW f \in TokenIds, ConnectorFamily(f)'
                 PROVE  \A a, b \in Heads(f)' : a = b
      BY DEF OneHead
    <3>1. f # g /\ f # s
      BY <1>8, <2>2
    <3> QED BY <1>7, <3>1 DEF ChainInv, OneHead
  <2>6. HeldHead'
    <3> SUFFICES ASSUME req'[EventLoop].pc = "fresh",
                        NEW t \in Heads(req[EventLoop].family)'
                 PROVE  t = req'[EventLoop].secret
      BY DEF HeldHead
    <3>0. PICK h : h = req[EventLoop].family
      OBVIOUS
    <3>1. req'[EventLoop] = req[EventLoop]
      BY <2>3
    <3>2. h # None
      BY <3>0, <3>1 DEF Heads, FamilyOf
    <3>3. h \in TokenIds /\ ConnectorFamily(h)
      BY <3>0, <3>1, <3>2, LoopToken
    <3>4. h # g /\ h # s
      BY <1>4, <2>1, <3>2, <3>3
    <3> QED BY <1>7, <3>0, <3>1, <3>3, <3>4 DEF ChainInv, HeldHead
  <2>7. \A f \in TokenIds : At(f)' = At(f)
    <3> SUFFICES ASSUME NEW f \in TokenIds, f # s PROVE At(f)' = At(f)
      BY <1>10
    <3>1. CASE f = g
      BY <2>1, <2>2, <3>1 DEF At
    <3>2. CASE f # g
      BY <1>7, <2>4, <3>2, AtSame
    <3> QED BY <3>1, <3>2
  <2>8. Current' = Current
    BY <2>7 DEF Current
  <2>9. Chain!HandOutElsewhere(s)
    BY <1>12, <2>8 DEF Chain!HandOutElsewhere, Current, HandedOut
  <2>10. ChainStep
    BY <2>9 DEF ChainStep, Chain!Next
  <2> QED BY <1>11, <2>5, <2>6, <2>10 DEF ChainInv
<1> QED BY <1>13, <1>14

\* Steps that take rows or marks from sessions end the ones they take the last
\* head of; the rest stay where they are.
LEMMA EndingStep ==
  ASSUME ChainInv, IInv', token' = token,
         \A f \in TokenIds : Heads(f)' \subseteq Heads(f),
         \A f \in TokenIds : ConnectorFamily(f) /\ Heads(f)' # Heads(f) => Heads(f)' = {},
         \A f \in TokenIds : Holding(f)' => Holding(f),
         \A f \in TokenIds : Holding(f)' => req'[EventLoop].secret = req[EventLoop].secret,
         \A f \in TokenIds : Holding(f) /\ ~Holding(f)' =>
           Heads(f)' = {} \/ Heads(f)' = {req[EventLoop].secret},
         HeldHead'
  PROVE  ChainInv' /\ ChainStep
<1>1. \A f \in TokenIds : ConnectorFamily(f)' <=> ConnectorFamily(f)
  BY DEF ConnectorFamily
<1>2. Founded' /\ OneHead' /\ HandedOut' = HandedOut
  BY <1>1 DEF ChainInv, Founded, OneHead, HandedOut
<1> DEFINE ended == {f \in TokenIds : At(f)' # At(f)}
<1>3. ASSUME NEW f \in ended
      PROVE  f \in TokenIds /\ At(f) \in TokenIds /\ At(f)' = Over
  <2>1. f \in TokenIds /\ ConnectorFamily(f) /\ ConnectorFamily(f)'
    BY <1>1 DEF At
  <2>2. ~Holding(f)'
    BY <2>1, AtHeld DEF At
  <2>3. CASE Holding(f)
    <3>1. At(f) = req[EventLoop].secret
      BY <2>1, <2>3 DEF At
    <3>2. At(f) \in TokenIds
      BY <2>3, <3>1, LoopToken DEF Holding
    <3>3. Heads(f)' # {req[EventLoop].secret}
      <4>1. ASSUME Heads(f)' = {req[EventLoop].secret} PROVE At(f)' = req[EventLoop].secret
        <5>1. PICK x : x = req[EventLoop].secret
          OBVIOUS
        <5>2. Heads(f)' = {x}
          BY <4>1, <5>1
        <5>3. At(f)' = x
          BY <2>1, <2>2, <5>2 DEF At
        <5> QED BY <5>1, <5>3
      <4> QED BY <3>1, <4>1
    <3>4. Heads(f)' = {}
      BY <2>1, <2>2, <2>3, <3>3
    <3> QED BY <2>1, <2>2, <3>2, <3>4 DEF At
  <2>4. CASE ~Holding(f)
    <3>1. Heads(f)' # Heads(f)
      BY <1>1, <2>1, <2>2, <2>4, AtSame
    <3>2. Heads(f)' = {} /\ Heads(f) # {}
      BY <2>1, <3>1
    <3>3. PICK t \in Heads(f) : TRUE
      BY <3>2
    <3>4. At(f) = t /\ t \in TokenIds
      BY <2>1, <2>4, <3>3, AtHead DEF ChainInv, Heads, FamilyOf
    <3> QED BY <2>1, <2>2, <3>2, <3>4 DEF At
  <2> QED BY <2>3, <2>4
<1>4. \A f \in ended : Current[f] \in TokenIds
  BY <1>3 DEF Current
<1>5. Current' = [f \in TokenIds |-> IF f \in ended THEN Over ELSE Current[f]]
  BY <1>3 DEF Current
<1>6. Chain!End(ended)
  BY <1>2, <1>4, <1>5 DEF Chain!End, Current, HandedOut
<1>7. ChainStep
  BY <1>6 DEF ChainStep, Chain!Next
<1> QED BY <1>2, <1>7 DEF ChainInv

\* Reuse detected: a connector's session ends with its family.
LEMMA RevokeFamilyStep ==
  ASSUME ChainInv, IInv', NEW w \in Workers, RevokeFamily(w)
  PROVE  ChainInv' /\ ChainStep
<1>1. PICK g : g = req[w].family
  OBVIOUS
<1>2. /\ req[w].pc = "reuse" /\ token' = token /\ rows' = rows /\ used' = used
      /\ revoked' = revoked \cup (FamilyOf(g) \cap rows)
  BY <1>1 DEF RevokeFamily
<1>3. \A f : FamilyOf(f)' = FamilyOf(f)
  BY <1>2 DEF FamilyOf
<1>4. \A f \in TokenIds : Heads(f)' \subseteq Heads(f)
  BY <1>2, <1>3 DEF Heads
<1>5. \A f \in TokenIds : f # g => Heads(f)' = Heads(f)
  <2> SUFFICES ASSUME NEW f \in TokenIds, f # g PROVE Heads(f)' = Heads(f)
    OBVIOUS
  <2>1. FamilyOf(f) \cap FamilyOf(g) = {}
    BY DEF FamilyOf
  <2> QED BY <1>2, <1>3, <2>1 DEF Heads
<1>6. Heads(g)' = {}
  BY <1>2, <1>3 DEF Heads
<1>7. /\ req'[w].pc = "idle" /\ \A q \in Workers : q # w => req'[q] = req[q]
  BY DEF RevokeFamily, ChainInv, IInv, TypeOK, Idle
<1>8. /\ req'[EventLoop].pc = "fresh" <=> req[EventLoop].pc = "fresh"
      /\ req[EventLoop].pc = "fresh" => req'[EventLoop] = req[EventLoop]
  BY <1>2, <1>7 DEF Workers
<1>9. \A f : (Holding(f)' <=> Holding(f))
             /\ (Holding(f) => req'[EventLoop].secret = req[EventLoop].secret)
  BY <1>8 DEF Holding
<1>10. HeldHead'
  <2> SUFFICES ASSUME req[EventLoop].pc = "fresh", NEW t \in Heads(req[EventLoop].family)'
               PROVE  t = req[EventLoop].secret
    BY <1>8 DEF HeldHead
  <2>1. req'[EventLoop].family = req[EventLoop].family
    BY <1>8
  <2>2. t \in Heads(req[EventLoop].family)
    BY <1>2, <2>1 DEF Heads, FamilyOf
  <2> QED BY <2>2 DEF ChainInv, HeldHead
<1> QED BY <1>2, <1>4, <1>5, <1>6, <1>9, <1>10, EndingStep

\* A request that stops: the session goes back to its head, or is over if the
\* head was deleted meanwhile.
LEMMA AbortStep ==
  ASSUME ChainInv, IInv', NEW w \in Workers, Abort(w)
  PROVE  ChainInv' /\ ChainStep
<1>1. /\ token' = token /\ rows' = rows /\ used' = used /\ revoked' = revoked
      /\ req'[w].pc = "idle" /\ \A q \in Workers : q # w => req'[q] = req[q]
  BY DEF Abort, ChainInv, IInv, TypeOK, Idle
<1>2. \A f \in TokenIds : Heads(f)' = Heads(f)
  BY <1>1 DEF Heads, FamilyOf
<1>3. CASE w = EventLoop
  <2>1. \A f : ~Holding(f)'
    BY <1>1, <1>3 DEF Holding
  <2>2. HeldHead'
    BY <1>1, <1>3 DEF HeldHead
  <2>3. ASSUME NEW f \in TokenIds, Holding(f)
        PROVE  Heads(f)' = {} \/ Heads(f)' = {req[EventLoop].secret}
    BY <1>2, <2>3 DEF ChainInv, HeldHead, Holding
  <2> QED BY <1>1, <1>2, <2>1, <2>2, <2>3, EndingStep
<1>4. CASE w # EventLoop
  <2>1. req'[EventLoop] = req[EventLoop]
    BY <1>1, <1>4 DEF Workers
  <2> QED BY <1>1, <2>1, QuietStep DEF ChainStep
<1> QED BY <1>3, <1>4

\* Disabling a user ends all the user's sessions but the one whose head the
\* event loop is exchanging.
LEMMA DisableUserStep ==
  ASSUME ChainInv, IInv', NEW u \in Users, DisableUser(u)
  PROVE  ChainInv' /\ ChainStep
<1>1. /\ token' = token /\ rows' = {t \in rows : token[t].user # u}
      /\ used' = used /\ revoked' = revoked /\ req' = req
  BY DEF DisableUser
<1>2. \A f : FamilyOf(f)' = FamilyOf(f)
  BY <1>1 DEF FamilyOf
<1>3. \A f : Heads(f)' \subseteq Heads(f)
  BY <1>1, <1>2 DEF Heads
<1>4. ASSUME NEW f \in TokenIds, Heads(f)' # Heads(f)
      PROVE  Heads(f)' = {}
  <2>1. PICK t \in Heads(f) : t \notin Heads(f)'
    BY <1>3, <1>4
  <2>2. t \in FamilyOf(f) /\ token[t].user = u
    BY <1>1, <1>2, <2>1 DEF Heads
  <2>3. \A s \in FamilyOf(f) : token[s].user = u
    BY <2>2, SameFamily
  <2> QED BY <1>1, <1>2, <2>3 DEF Heads
<1>5. \A f : Holding(f)' <=> Holding(f)
  BY <1>1 DEF Holding
<1>6. HeldHead'
  BY <1>1, <1>3 DEF ChainInv, HeldHead
<1> QED BY <1>1, <1>3, <1>4, <1>5, <1>6, EndingStep

\* Every step is one of the chains' or leaves them alone.
LEMMA ChainNext == ASSUME ChainInv, [Next]_vars PROVE ChainInv' /\ ChainStep
<1>1. IInv'
  BY IInvStep DEF ChainInv
<1>2. ASSUME NEW w \in Workers, NEW u \in Users, Login(w, u) PROVE ChainInv' /\ ChainStep
  <2>1. req'[EventLoop] = req[EventLoop]
    BY <1>2 DEF Login, ChainInv, IInv, TypeOK
  <2> QED BY <1>1, <1>2, <2>1, QuietStep DEF Login, ChainStep
<1>3. ASSUME NEW u \in Users, NEW c \in Connectors, Authorize(u, c)
      PROVE  ChainInv' /\ ChainStep
  <2>1. req[EventLoop].pc # "fresh" /\ req'[EventLoop].pc # "fresh"
    BY <1>3 DEF Authorize, IsIdle, ChainInv, IInv, TypeOK, Workers
  <2> QED BY <1>1, <1>3, <2>1, QuietStep DEF Authorize, ChainStep
<1>4. ASSUME NEW k \in CodeIds, IssueCode(k) \/ ReadCode(k) \/ ExpireCode(k)
      PROVE  ChainInv' /\ ChainStep
  <2>1. ASSUME IssueCode(k)
        PROVE  req[EventLoop].pc # "fresh" /\ req'[EventLoop].pc # "fresh"
    BY <2>1 DEF IssueCode, ChainInv, IInv, TypeOK, Workers, Idle
  <2>2. ASSUME ReadCode(k)
        PROVE  req[EventLoop].pc # "fresh" /\ req'[EventLoop].pc # "fresh"
    BY <2>2 DEF ReadCode, IsIdle, ChainInv, IInv, TypeOK, Workers, Idle
  <2>3. ASSUME ExpireCode(k) PROVE req'[EventLoop] = req[EventLoop]
    BY <2>3 DEF ExpireCode
  <2> QED BY <1>1, <1>4, <2>1, <2>2, <2>3, QuietStep
      DEF IssueCode, ReadCode, ExpireCode, ChainStep
<1>5. ASSUME SpendCode PROVE ChainInv' /\ ChainStep
  <2>1. req[EventLoop].pc # "fresh" /\ req'[EventLoop].pc # "fresh"
    BY <1>5 DEF SpendCode, ChainInv, IInv, TypeOK, Workers
  <2>2. req[EventLoop].secret \in CodeIds
    BY <1>5 DEF SpendCode, ChainInv, IInv, Remembers, RemembersCode, Workers
  <2>3. \A t \in TokenIds : t \in used' <=> t \in used
    BY <1>5, <2>2 DEF SpendCode
  <2> QED BY <1>1, <1>5, <2>1, <2>3, QuietStep DEF SpendCode, ChainStep
<1>6. ASSUME NEW w \in Workers, NEW t \in TokenIds,
             IssueSession(w, t) \/ ReadToken(w, t) \/ Rotate(w, t)
      PROVE  ChainInv' /\ ChainStep
  BY <1>1, <1>6, IssueSessionStep, ReadTokenStep, RotateStep DEF ChainStep
<1>7. ASSUME NEW w \in Workers, RevokeFamily(w) \/ Abort(w)
      PROVE  ChainInv' /\ ChainStep
  BY <1>1, <1>7, RevokeFamilyStep, AbortStep
<1>8. ASSUME NEW u \in Users, DisableUser(u) PROVE ChainInv' /\ ChainStep
  BY <1>1, <1>8, DisableUserStep
<1>9. CASE (\E t \in TokenIds : ExpireToken(t)) \/ UNCHANGED vars
  <2>1. UNCHANGED <<token, rows, used, revoked, req>>
    BY <1>9 DEF ExpireToken, vars
  <2> QED BY <1>1, <2>1, QuietStep DEF ChainStep
<1> QED BY <1>2, <1>3, <1>4, <1>5, <1>6, <1>7, <1>8, <1>9 DEF Next

LEMMA ChainInit == Init => ChainInv /\ Chain!Init
<1> SUFFICES ASSUME Init PROVE ChainInv /\ Chain!Init
  OBVIOUS
<1>1. IInv
  BY InitIInv
<1>2. \A t \in TokenIds : token[t] # None => token[t].family = None
  BY DEF Init, LegacyInfo
<1>3. \A f \in TokenIds : ~ConnectorFamily(f)
  BY <1>2 DEF ConnectorFamily
<1>4. Founded /\ OneHead
  BY <1>2, <1>3 DEF Founded, OneHead
<1>5. HeldHead
  BY DEF Init, HeldHead, Idle, Workers
<1>6. Chain!Init
  BY <1>3 DEF Chain!Init, At
<1> QED BY <1>1, <1>4, <1>5, <1>6 DEF ChainInv

-----------------------------------------------------------------------------
(* Theorem.                                                                *)

\* Every connector session is a chain with at most one current refresh token,
\* and is never resumed once it is over (oauth.py:278-348).
THEOREM SessionsAreChains == Spec => RefinesChain
<1>1. Init => ChainInv /\ Chain!Init
  BY ChainInit
<1>2. ChainInv /\ [Next]_vars => ChainInv' /\ ChainStep
  BY ChainNext
<1>3. ChainStep => [Chain!Next]_<<[f \in TokenIds |-> At(f)], {t \in TokenIds : token[t] # None}>>
  BY DEF ChainStep, Current, HandedOut
<1> QED BY <1>1, <1>2, <1>3, PTL DEF Spec, RefinesChain, Chain!Spec
=============================================================================
