---------------------------- MODULE MCImapPool ------------------------------
(* Instances of ImapPool for TLC. *)
EXTENDS ImapPool, TLC

Symmetry == Permutations(Ops) \cup Permutations(Pools) \cup Permutations(Conns)
              \cup Permutations(Keys)
=============================================================================
