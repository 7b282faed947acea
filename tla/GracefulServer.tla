--------------------------- MODULE GracefulServer ---------------------------
(***************************************************************************)
(* What main promises the requests of one server (REST or gRPC) when the   *)
(* process is told to stop: no request is taken on after the stop, and     *)
(* what the server stands on is released only when no request is in        *)
(* flight, except those that outlived a deadline.  A server without a      *)
(* deadline never has such requests: overdue is {} for ever.               *)
(***************************************************************************)
CONSTANT Requests

VARIABLES
    stage,      \* of the server
    active,     \* the requests it is handling
    overdue     \* those it was handling when its deadline struck

serverVars == <<stage, active, overdue>>

Stages == {"new", "accepting", "draining", "released", "dead"}

Init == stage = "new" /\ active = {} /\ overdue = {}

Start ==
    /\ stage = "new"
    /\ stage' = "accepting"
    /\ UNCHANGED <<active, overdue>>

Admit(r) ==
    /\ stage = "accepting"
    /\ active' = active \cup {r}
    /\ UNCHANGED <<stage, overdue>>

Answer(r) ==
    /\ r \in active
    /\ stage # "dead"
    /\ active' = active \ {r}
    /\ UNCHANGED <<stage, overdue>>

\* The server is told to stop, or its listener fails.
Drain ==
    /\ stage \in {"new", "accepting"}
    /\ stage' = "draining"
    /\ UNCHANGED <<active, overdue>>

DeadlineStrikes ==
    /\ stage = "draining"
    /\ overdue = {}
    /\ overdue' = active
    /\ UNCHANGED <<stage, active>>

Release ==
    /\ stage = "draining"
    /\ active \subseteq overdue
    /\ stage' = "released"
    /\ UNCHANGED <<active, overdue>>

\* The end of the process, however it comes, ends what is in flight.
Die ==
    /\ stage # "dead"
    /\ stage' = "dead"
    /\ active' = {}
    /\ UNCHANGED overdue

Next ==
    \/ Start \/ Drain \/ DeadlineStrikes \/ Release \/ Die
    \/ \E r \in Requests : Admit(r) \/ Answer(r)

Spec == Init /\ [][Next]_serverVars
=============================================================================
