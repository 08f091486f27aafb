-------------------------- MODULE MCResearchTask --------------------------
(* Small instances of ResearchTask for TLC. *)
EXTENDS ResearchTask, TLC

Alike == Permutations(Runners)

SecondCall == (\E r \in Runners : run[r].n > 2)
              \/ \E o \in Ops : o.n = 2 /\ (effect[o] # "none" \/ receipt[o] # "none")
SecondAttempt == \E t \in Tasks : task[t].attempt > 1
\* The first attempt used up its budget, and one process works at a time.
Spent == /\ \A o \in Ops : effect[o] \in {"none", "succeeded", "failed"}
         /\ closed = {} /\ \A t \in Tasks : ~WithinBudget(t)
         /\ Cardinality({r \in Runners : run[r] # Idle}) <= 1
\* A second call or a second attempt; both when only a rejection can follow.
OneMore == ~SecondCall \/ ~SecondAttempt \/ Spent
============================================================================
