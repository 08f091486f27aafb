--------------------------- MODULE MCModelDispatch ---------------------------
(* Small instances of ModelDispatch for TLC. *)
EXTENDS ModelDispatch, TLC

\* A wiki integration and a memory extraction, each with two prompts it may
\* put, as the pages and memories they are built from change between claims,
\* and a source extraction, which takes one response per window.
MCJobOf == [d \in {"w1", "w2"} |-> "wiki"] @@ [d \in {"m1", "m2"} |-> "memory"]
           @@ [d \in {"s1", "s2"} |-> "source"]
MCLimit == "foreground" :> 1 @@ "background" :> 2
MCHost == [d \in Foreground |-> "p"]
\* Foreground or background calls, which share nothing but the date; a second
\* window of the source job where the memory extraction has not been claimed.
OneLane == \/ \A j \in Jobs : epoch[j] = 0
           \/ /\ \A d \in Foreground : caller[d] = "idle" /\ receipt[d] = "none"
              /\ receipt["s2"] # "none" => epoch["memory"] = 0
==============================================================================
