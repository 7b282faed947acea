------------------------- MODULE MCCachedRepository -------------------------
(* Small instances of CachedRepository for TLC. *)
EXTENDS CachedRepository, TLC

CONSTANTS i1, e1, n1, p1

Seeded == [id |-> i1, email |-> e1, nickname |-> n1, profile |-> p1,
           password |-> "hash", updated |-> Seed]

\* One user is stored, or none.
EmptyOrSeeded == {{}, {Seeded}}
OnlySeeded    == {{Seeded}}

RequestSymmetry == Permutations(Requests)
=============================================================================
