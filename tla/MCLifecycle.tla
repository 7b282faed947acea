---------------------------- MODULE MCLifecycle ----------------------------
(* A small instance of Lifecycle for TLC. *)
EXTENDS Lifecycle, TLC

\* A bucket of two tokens that is refilled, and one of a single token that never
\* is: a rate that is not a number counts as 0, which validateConfig accepts.
SmallLimits == {[rps |-> 1, burst |-> 2], [rps |-> 0, burst |-> 1]}

\* Calls differ in nothing but their names.
CallSymmetry == Permutations(RestCalls)
=============================================================================
