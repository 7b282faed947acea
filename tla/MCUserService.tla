--------------------------- MODULE MCUserService ---------------------------
(* Small instances of UserService for TLC. *)
EXTENDS UserService, TLC

CONSTANTS i1, e1, n1, p1

Seeded == [id |-> i1, email |-> e1, nickname |-> n1, profile |-> p1,
           password |-> "hash", updated |-> Seed]

EmptyOrSeeded == {{}, {Seeded}}
OnlySeeded    == {{Seeded}}

RequestSymmetry == Permutations(Requests)
=============================================================================
