---------------------------- MODULE SessionChain ----------------------------
(***************************************************************************)
(* What refresh-token rotation promises a client (src/mypa/oauth.py,       *)
(* docstring of consume_refresh_token): a session is a chain of secrets of *)
(* which at most one is current.  Exchanging the current secret makes a    *)
(* new one current; an ended session never has a current secret again, and *)
(* no secret is handed out twice.                                          *)
(***************************************************************************)
CONSTANTS
  Families, \* session names
  Secrets,  \* refresh tokens
  Unopened, \* not a secret: the session does not exist yet
  Over      \* not a secret: the session has ended

VARIABLES
  current,  \* what each session is at: Unopened, a secret, or Over
  handedOut \* secrets handed out so far

Fresh(s) == s \in Secrets \ handedOut

Init ==
  /\ current = [f \in Families |-> Unopened]
  /\ handedOut \subseteq Secrets

Open(f, s) ==
  /\ current[f] = Unopened
  /\ Fresh(s)
  /\ current' = [current EXCEPT ![f] = s]
  /\ handedOut' = handedOut \cup {s}

Rotate(f, s) ==
  /\ current[f] \in Secrets
  /\ Fresh(s)
  /\ current' = [current EXCEPT ![f] = s]
  /\ handedOut' = handedOut \cup {s}

\* A reuse ends one session; disabling a user ends several at once.
End(ended) ==
  /\ \A f \in ended : current[f] \in Secrets
  /\ current' = [f \in Families |-> IF f \in ended THEN Over ELSE current[f]]
  /\ UNCHANGED handedOut

\* Secrets of no interest here (those of other sessions) are handed out too.
HandOutElsewhere(s) ==
  /\ Fresh(s)
  /\ handedOut' = handedOut \cup {s}
  /\ UNCHANGED current

Next ==
  \/ \E f \in Families, s \in Secrets : Open(f, s) \/ Rotate(f, s)
  \/ \E ended \in SUBSET Families : End(ended)
  \/ \E s \in Secrets : HandOutElsewhere(s)

Spec == Init /\ [][Next]_<<current, handedOut>>
=============================================================================
