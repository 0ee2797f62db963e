--------------------------- MODULE MCHostResolver ---------------------------
(* Instances of HostResolver for TLC. *)
EXTENDS HostResolver, TLC

Reserve(total, low, high) ==
  [total_jobs |-> total, reserved_slots |-> (0 :> low @@ 1 :> high)]

\* No reserved slots, which is the default; and enough of them that an urgent
\* Job gets its second slot at once.
SafeLimits == {Reserve(2, 0, 0), Reserve(3, 0, 2)}
\* The default alone: with three hosts any reservation may let a change of priority
\* start a Job that does not get its second slot at once.
NoneReserved == {Reserve(2, 0, 0)}
\* One slot reserved for the urgent ones.
OneReserved == {Reserve(2, 0, 1)}

RequestSymmetry == Permutations(Requests)
=============================================================================
