----------------------- MODULE MCPrioritizedDispatcher -----------------------
(* Instances of PrioritizedDispatcher for TLC. *)
EXTENDS PrioritizedDispatcher, TLC

Reserve(total, low, mid, high) ==
    [total_jobs |-> total, reserved_slots |-> (0 :> low @@ 1 :> mid @@ 2 :> high)]

\* No jobs at all, one slot for the highest priority, unreserved slots, slots
\* reserved for every priority.
SomeLimits == {Reserve(0, 0, 0, 0), Reserve(2, 0, 0, 1), Reserve(3, 0, 1, 1), Reserve(3, 1, 1, 0)}
ZeroOrTwo == {Reserve(0, 0, 0, 0), Reserve(2, 0, 0, 0)}

JobSymmetry == Permutations(Jobs)
=============================================================================
