--------------------------- MODULE MCJobScheduler ---------------------------
(* A small instance of JobScheduler for TLC. *)
EXTENDS JobScheduler, TLC

\* Two model jobs that compete for the lane, and an index projection.
MCKind == 1 :> "memory_extract" @@ 2 :> "wiki_integrate" @@ 3 :> "memory_index"
\* A poll for less can do nothing that ClaimLocalJob does not do under all kinds.
MCScopes == {LocalKinds \cup ModelKinds}
MCBackoff == [n \in 1..3 |-> 1]

Present == {j \in Jobs : status[j] # "absent"}
Settled(j) == status[j] \in {"completed", "blocked"}

(* Two disturbances of one job, one of two; the index projection joins the  *)
(* second model job when the first is settled, without a disturbance.  Only *)
(* EnqueueJob and disturbances leave these states, and neither is fair.     *)
OneDimension ==
    /\ Cardinality(Present) + events <= 3
    /\ Present = Jobs => Settled(1)
=============================================================================
