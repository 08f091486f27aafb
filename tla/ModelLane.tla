----------------------------- MODULE ModelLane -----------------------------
(***************************************************************************)
(* What the model-maintenance lane promises to the rest of the system: at  *)
(* most one piece of model work is active at a time, and work is published *)
(* only while it is the active one, once.                                  *)
(***************************************************************************)
CONSTANT Work
VARIABLES active, published

vars == <<active, published>>

Init == active = {} /\ published = {}

Acquire(w) == /\ active = {} /\ w \notin published
              /\ active' = {w}
              /\ UNCHANGED published
(* By giving up, by failing, or because the lease ran out. *)
Release == /\ active # {}
           /\ active' = {}
           /\ UNCHANGED published
Publish(w) == /\ active = {w}
              /\ active' = {}
              /\ published' = published \cup {w}

Next == Release \/ \E w \in Work : Acquire(w) \/ Publish(w)
Spec == Init /\ [][Next]_vars
=============================================================================
