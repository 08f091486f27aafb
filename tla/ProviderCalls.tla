--------------------------- MODULE ProviderCalls ---------------------------
(***************************************************************************)
(* What a durable record of model calls promises to whoever pays for them: *)
(* the request of a call leaves at most once, and never after something    *)
(* was recorded of the call; an answer is recorded of a request that left, *)
(* and stays; a call whose outcome nobody knows may still get its answer,  *)
(* one that was withdrawn has cost nothing.                                *)
(***************************************************************************)
EXTENDS Naturals

CONSTANTS Calls, Answers, Nothing
VARIABLES
    left,    \* times the request of a call left
    state,   \* what is recorded of the call
    answer   \* and its answer

vars == <<left, state, answer>>

Init == /\ left = [c \in Calls |-> 0]
        /\ state = [c \in Calls |-> "open"]
        /\ answer = [c \in Calls |-> Nothing]

(* The first conjunct follows from the second; it spares TLC comparing all *)
(* calls where a single one tells that the step is another.                *)
Records(c, outcome) == /\ state'[c] = outcome
                       /\ state' = [state EXCEPT ![c] = outcome]

Send(c) == /\ state[c] = "open" /\ left[c] = 0
           /\ left' = [left EXCEPT ![c] = 1]
           /\ UNCHANGED <<state, answer>>
Answer(c) == /\ state[c] \in {"open", "unknown"} /\ left[c] = 1
             /\ Records(c, "answered")
             /\ \E a \in Answers : answer' = [answer EXCEPT ![c] = a]
             /\ UNCHANGED left
(* Whether the request left or not. *)
LoseTrack(c) == /\ state[c] = "open"
                /\ Records(c, "unknown")
                /\ UNCHANGED <<left, answer>>
Withdraw(c) == /\ state[c] = "open" /\ left[c] = 0
               /\ Records(c, "withdrawn")
               /\ UNCHANGED <<left, answer>>

Next == \E c \in Calls : Send(c) \/ Answer(c) \/ LoseTrack(c) \/ Withdraw(c)
Spec == Init /\ [][Next]_vars
=============================================================================
