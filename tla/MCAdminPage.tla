----------------------------- MODULE MCAdminPage -----------------------------
(* A small administration page.  One address has two spellings.            *)
EXTENDS AdminPage, TLC

CONSTANTS ann, Ann, bob

KeyOf == ann :> ann @@ Ann :> ann @@ bob :> bob

RequestsOf ==
  [part \in AccountFocuses |-> IF part \in {"disabled", "logins", "tests"} THEN 2 ELSE 1]

PageSymmetry == Permutations(Threads)

=============================================================================
