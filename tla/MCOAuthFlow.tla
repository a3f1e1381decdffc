---------------------------- MODULE MCOAuthFlow -----------------------------
(* Instances for TLC of sign-in: an attempt from its start to its session   *)
(* (OAuthFlow), and where its code may be sent (ClientRegistry).  Each      *)
(* behaviour shows one of the two.                                          *)
EXTENDS OAuthFlow, ClientRegistry, TLC

VARIABLE shown

Symmetry == Permutations(States) \cup Permutations(Codes) \cup Permutations(Replicas)
              \cup Permutations(Ops)

FlowInit ==
  /\ Init /\ RegistryInit
  /\ shown \in {"flow", "registry"}
  /\ shown = "flow" => durable /\ ~enforced

FlowNext ==
  /\ UNCHANGED shown
  /\ \/ shown = "flow" /\ Next /\ UNCHANGED registryVars
     \/ shown = "registry" /\ RegistryNext /\ UNCHANGED vars

FlowSpec == FlowInit /\ [][FlowNext]_<<shown, vars, registryVars>>
=============================================================================
