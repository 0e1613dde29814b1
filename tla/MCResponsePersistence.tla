----------------------- MODULE MCResponsePersistence -----------------------
(* TLC instances of ResponsePersistence: two responses of one conversation *)
(* and two handlers, all alike.                                            *)
EXTENDS ResponsePersistence, TLC

CONSTANTS c1

OfOne == [r \in Responses |-> c1]

PersistenceSymmetry == Permutations(Handlers) \cup Permutations(Responses)

=============================================================================
