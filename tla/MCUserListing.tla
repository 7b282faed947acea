--------------------------- MODULE MCUserListing ---------------------------
(* A small instance of UserListing for TLC. *)
EXTENDS UserListing

NoFilter  == {}
InFirst   == {[field |-> "country", value |-> {1}, text |-> TRUE]}
OnUnknown == {[field |-> "page", value |-> {1}, text |-> TRUE]}
NoText    == {[field |-> f, value |-> {}, text |-> FALSE] : f \in {"country", "page"}}

\* Walks and pages of every kind, unknown names, filters that are no text, and
\* (with 8-bit ints and 4-bit int32s) a far page of gRPC and pages whose offset
\* overflows an int.
SmallQueries ==
    [api : {"rest", "grpc"}, page : {0, 2}, limit : {0, 1},
     orderBy : {"", "created_at", "country"}, desc : {"", "false"}, filters : {NoFilter, InFirst}]
    \cup
    [api : {"rest", "grpc"}, page : {1, 5}, limit : {4},
     orderBy : {"page"}, desc : {"true"}, filters : {OnUnknown}]
    \cup
    [api : {"rest"}, page : {65, 127}, limit : {4, 127},
     orderBy : {""}, desc : {""}, filters : {NoFilter}]
    \cup
    [api : {"rest", "grpc"}, page : {0}, limit : {1},
     orderBy : {"country"}, desc : {""}, filters : {{f} : f \in NoText}]
=============================================================================
