-------------------------- MODULE MCPoolDispatch --------------------------
(* TLC instance of PoolDispatch: every account has room for one request. *)
EXTENDS PoolDispatch, TLC

OneEach == [a \in Accounts |-> 1]

PoolSymmetry == Permutations(Requests) \cup Permutations(Accounts)

=============================================================================
