-------------------------- MODULE MCDispatchSlots --------------------------
(* TLC instance of DispatchSlots. *)
EXTENDS DispatchSlots, TLC

RequestSymmetry == Permutations(Requests) \cup Permutations(SlotIds)

=============================================================================
