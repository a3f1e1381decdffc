--------------------------- MODULE MCAccountConfig --------------------------
(* Instances for TLC of the account store: the saves of one account         *)
(* (AccountConfig), and the lists of a user's accounts (AccountListing).    *)
(* Each behaviour shows one of the two.                                     *)
EXTENDS AccountConfig, AccountListing, TLC

VARIABLE shown

Symmetry == Permutations(Ops) \cup Permutations(Settings) \cup Permutations(Passwords)
              \cup Permutations(Listings)

AccountsInit ==
  /\ Init /\ ListingInit
  /\ shown \in {"saves", "lists"}
  /\ shown = "saves" => tableKind = "memory" /\ kept = {}
  /\ shown = "lists" => backend = "memory"

AccountsNext ==
  /\ UNCHANGED shown
  /\ \/ shown = "saves" /\ Next /\ UNCHANGED listingVars
     \/ shown = "lists" /\ ListingNext /\ UNCHANGED vars

AccountsSpec == AccountsInit /\ [][AccountsNext]_<<shown, vars, listingVars>>
=============================================================================
