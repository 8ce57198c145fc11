-------------------------- MODULE MCOAuthSessions --------------------------
(* OAuthSessions and its refinement of SessionChain on small sets.         *)
EXTENDS OAuthSessionChain, TLC

Permutable == Permutations(Users) \cup Permutations(Threads)
              \cup Permutations(TokenIds \ Legacy)
=============================================================================
