------------------------- MODULE OAuthSessionChain -------------------------
(***************************************************************************)
(* The sessions of connectors, seen as SessionChains.  The refinement      *)
(* holds because one event loop serves all of them; a dashboard session    *)
(* (threads) is not a chain, which MCOAuthReuse shows.                     *)
(***************************************************************************)
EXTENDS OAuthSessions

CONSTANTS Unopened, Over

ASSUME ChainAssumption == /\ Unopened # Over
                          /\ {Unopened, Over} \cap TokenIds = {}

ConnectorFamily(f) == /\ token[f] # None
                      /\ token[f].client \in Connectors
                      /\ token[f].family = f

\* The event loop is exchanging a token of the session.
Holding(f) == req[EventLoop].pc = "fresh" /\ req[EventLoop].family = f

\* The session's rows that are neither exchanged nor revoked.  Expiry does
\* not move a chain: an expired token is still its last one.
Heads(f) == (FamilyOf(f) \cap rows) \ (used \cup revoked)

\* Where a session is: at the token being exchanged (its row may just have
\* been deleted, but the INSERT of its successor will follow), else at its
\* one head, else over.
At(f) == IF ~ConnectorFamily(f) THEN Unopened
         ELSE IF Holding(f) THEN req[EventLoop].secret
         ELSE IF Heads(f) = {} THEN Over
         ELSE CHOOSE t \in Heads(f) : TRUE

Chain == INSTANCE SessionChain WITH
           Families <- TokenIds, Secrets <- TokenIds,
           current <- [f \in TokenIds |-> At(f)],
           handedOut <- {t \in TokenIds : token[t] # None}

\* Every connector session behaves as a SessionChain: it has at most one
\* current refresh token and is never resumed once over (oauth.py:278-348).
RefinesChain == Chain!Spec
=============================================================================
