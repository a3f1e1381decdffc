-------------------------- MODULE MCOAuthSessions ---------------------------
(* Instances of OAuthSessions for TLC. *)
EXTENDS OAuthSessions, TLC

Symmetry == Permutations(Tokens) \cup Permutations(Grants) \cup Permutations(Ops)

\* The memory backend alone, where no call of the store fails.
MemorySpec == Init /\ backend = "memory" /\ [][Next]_vars
=============================================================================
