--------------------------- MODULE MCConfigStore ---------------------------
(* TLC instances of ConfigStore: one or both of two accounts are listed in *)
(* the config file at first.                                               *)
EXTENDS ConfigStore, TLC

CONSTANTS a1, a2

Listings == "serial" :> {<<a1>>, <<a2>>} @@ "shared" :> {<<a1, a2>>, <<a2, a1>>}

\* Nothing tells the accounts apart, and nothing ever tells the arrays apart.
StoreSymmetry ==
  Permutations(Accounts) \cup Permutations(Arrays)

=============================================================================
