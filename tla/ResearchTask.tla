--------------------------- MODULE ResearchTask ---------------------------
(***************************************************************************)
(* The durable research task (research/service.py), its owner lease and    *)
(* recovery (recovery.py, provider_product.py), the receipt-bound provider *)
(* calls (provider_wiring.py) and the human controls (control_service.py). *)
(*                                                                         *)
(* A row of a task is locked first by every transaction, so a transaction  *)
(* is a step.  Each of them raises state_version, and what a caller read   *)
(* is refused when it no longer is the current one: a runner keeps, in     *)
(* place of the number, whether the version it holds is still `fresh'.     *)
(* The epoch of an effect matters only when it is compared with the epoch  *)
(* of the task: `bound' holds the effects that carry the current one.      *)
(* control_generation moves with the epoch (_fence) and checkpoint and     *)
(* attempt with the version: what fences on them is implied.               *)
(* A definition that is not used (GuardByStatus, ...) is a mutant of the   *)
(* one next to it.                                                         *)
(***************************************************************************)
EXTENDS Integers, FiniteSets

CONSTANTS
    Tasks,       \* tasks that share one run budget
    Runners,     \* processes; each runs one task at a time (its run lock)
    None,        \* no owner, no task
    MaxAttempts, \* bound: attempts of a task
    MaxOps,      \* bound: structured calls of an attempt (17 in the code)
    CaseCap,     \* max_logical_calls of a task
    RunCap       \* max_logical_calls of the tasks together

ASSUME NoneAssumption == None \notin Tasks \cup Runners
ASSUME BoundAssumption == /\ MaxAttempts \in Nat \ {0} /\ MaxOps \in Nat \ {0}
                          /\ CaseCap \in Nat /\ RunCap \in Nat
ASSUME TasksAssumption == IsFiniteSet(Tasks)

Attempts == 1..MaxAttempts
\* A provider operation: its key holds the attempt and its ordinal.
Ops == [task : Tasks, attempt : Attempts, n : 1..MaxOps]

VARIABLES
    task,     \* rows of research_tasks, with the latest attempt and checkpoint
    effect,   \* status of the side effect of an operation
    bound,    \* operations whose effect carries the owner epoch of the task
    action,   \* status of the inner action of an operation
    receipt,  \* outcome in the terminal receipt of an operation
    sent,     \* external: requests that left for the provider
    closed,   \* operations whose effect a person resolved
    run       \* what each process is doing

research == <<effect, action, receipt, closed>>
vars == <<task, effect, bound, action, receipt, sent, closed, run>>

Results == {"none", "answer", "provider_error", "implementation_error", "unknown", "cancelled"}
Task == [status : {"ready", "running", "blocked", "terminal"},
         owner : Runners \cup {None},
         live : BOOLEAN,                  \* lease_until is in the future
         attempt : 0..MaxAttempts,        \* ordinal of the latest attempt
         active : {"none", "running", "blocked", "terminal"},  \* its status
         checkpoint : {"none", "working", "synthesis", "complete"},
         final : {"none", "answer", "failed"}, \* the finalized response
         moved : BOOLEAN,                 \* a checkpoint followed it
         pause : {"none", "interrupt", "unknown"}, \* authority to resume
         cancelled : BOOLEAN,
         result : Results]
Stages == {"idle", "claimed", "owner", "prepared", "ready", "reserved", "started",
           "sent", "final", "ingested", "dead"}
\* A process: its task, and the attempt, the next call and the version it holds.
Runner == [at : Stages, task : Tasks \cup {None}, attempt : 0..MaxAttempts,
           n : 1..(MaxOps + 1), fresh : BOOLEAN]

TypeOK ==
    /\ task \in [Tasks -> Task]
    /\ effect \in [Ops -> {"none", "reserved", "in_flight", "unknown", "succeeded", "failed"}]
    /\ bound \subseteq Ops
    /\ action \in [Ops -> {"none", "succeeded", "failed", "rejected", "unknown"}]
    /\ receipt \in [Ops -> {"none", "budget_rejected", "succeeded", "failed", "unknown"}]
    /\ sent \in [Ops -> Nat]
    /\ closed \subseteq Ops
    /\ run \in [Runners -> Runner]

Idle == [at |-> "idle", task |-> None, attempt |-> 0, n |-> 1, fresh |-> FALSE]

\* create_task has been called for each task.
Init ==
    /\ task = [t \in Tasks |->
         [status |-> "ready", owner |-> None, live |-> FALSE, attempt |-> 0,
          active |-> "none", checkpoint |-> "none", final |-> "none", moved |-> FALSE,
          pause |-> "none", cancelled |-> FALSE, result |-> "none"]]
    /\ effect = [o \in Ops |-> "none"]
    /\ bound = {}
    /\ action = [o \in Ops |-> "none"]
    /\ receipt = [o \in Ops |-> "none"]
    /\ sent = [o \in Ops |-> 0]
    /\ closed = {}
    /\ run = [r \in Runners |-> Idle]

OpsOf(t) == {o \in Ops : o.task = t}
Unresolved(t) == {o \in OpsOf(t) : effect[o] \in {"in_flight", "unknown"}}
Active(t) == task[t].active \in {"running", "blocked"}

\* What the budget counts of an operation: its committed action, or its
\* reservation while the effect is reserved, in flight or unknown.
Charged == {o \in Ops : \/ action[o] \in {"succeeded", "failed"}
                        \/ effect[o] \in {"reserved", "in_flight", "unknown"}}
WithinBudgetSoFar(t) == /\ Cardinality(Charged \cap OpsOf(t)) <= CaseCap
                        /\ Cardinality(Charged) <= RunCap
WithinBudget(t) == /\ Cardinality(Charged \cap OpsOf(t)) + 1 <= CaseCap
                   /\ Cardinality(Charged) + 1 <= RunCap

\* The processes once a transaction on t moved its version; r holds the new one.
Stale(t, r) == [s \in Runners |-> IF run[s].task = t /\ s # r
                                  THEN [run[s] EXCEPT !.fresh = FALSE] ELSE run[s]]
\* r does `next' after its transaction on t.
Moved(t, r, next) == run' = [Stale(t, r) EXCEPT ![r] = next]

Owns(r, t) == task[t].owner = r /\ task[t].live
Op(r) == [task |-> run[r].task, attempt |-> run[r].attempt, n |-> run[r].n]
GuardByStatus(r) == LET t == run[r].task IN
    /\ task[t].status # "terminal" /\ Active(t)
\* _guard of the provider calls
Guard(r) == LET t == run[r].task IN
    /\ task[t].status # "terminal"
    /\ run[r].fresh
    /\ Owns(r, t)
    /\ Active(t)

-----------------------------------------------------------------------------
(* Ownership: claim_owner, recover_in_flight, the lease *)

\* claim_owner: a new epoch; effects still reserved are rebound to it.
TakeOwnership(r, t) ==
    /\ task[t].status # "terminal"
    /\ task[t].owner = None \/ ~task[t].live
    /\ task' = [task EXCEPT ![t].owner = r, ![t].live = TRUE]
    /\ bound' = (bound \ OpsOf(t)) \cup {o \in OpsOf(t) : effect[o] = "reserved"}
    /\ UNCHANGED <<research, sent>>

\* A recovery scan or a retry claims the task; so does _ensure_current_owner
\* when the lease ran out since.
Claim(r, t) ==
    /\ \/ run[r].at = "idle" /\ task[t].status \in {"ready", "running"}
       \/ run[r].at = "owner" /\ run[r].task = t
    /\ TakeOwnership(r, t)
    /\ Moved(t, r, [Idle EXCEPT !.at = "claimed", !.task = t])

\* The process is still the live owner: the same epoch.
Reenter(r, t) ==
    /\ run[r].at = "idle"
    /\ task[t].status \in {"ready", "running"}
    /\ Owns(r, t)
    /\ run' = [run EXCEPT ![r] = [Idle EXCEPT !.at = "claimed", !.task = t]]
    /\ UNCHANGED <<task, bound, research, sent>>

RecoverReplaying(r) == LET t == run[r].task IN
    /\ run[r].at = "claimed" /\ task[t].status # "terminal" /\ Owns(r, t)
    /\ effect' = [o \in Ops |-> IF o.task = t /\ effect[o] = "in_flight"
                                THEN "reserved" ELSE effect[o]]
    /\ bound' = bound \cup {o \in OpsOf(t) : effect[o] = "in_flight"}
    /\ Moved(t, r, [run[r] EXCEPT !.at = "owner"])
    /\ UNCHANGED <<task, action, receipt, closed, sent>>
\* recover_in_flight: what an earlier epoch left in flight is unknown, and the
\* process stops before it runs a task with such effects.
Recover(r) == LET t == run[r].task
                  lost == {o \in OpsOf(t) : effect[o] = "in_flight" /\ o \notin bound} IN
    /\ run[r].at = "claimed"
    /\ task[t].status # "terminal"
    /\ Owns(r, t)
    /\ effect' = [o \in Ops |-> IF o \in lost THEN "unknown" ELSE effect[o]]
    /\ IF lost = {}
       THEN /\ UNCHANGED task
            /\ Moved(t, r, [run[r] EXCEPT !.at = "owner"])
       ELSE /\ task' = [task EXCEPT ![t].status = "blocked"]
            /\ Moved(t, r, Idle)
    /\ UNCHANGED <<bound, action, receipt, closed, sent>>

\* lease_until passes; renew_lease_only and renew_owner refuse from then on.
Expire(t) ==
    /\ task[t].live
    /\ task' = [task EXCEPT ![t].live = FALSE]
    /\ UNCHANGED <<bound, research, sent, run>>

\* A conflict, or an error of the database, ends the run of a task.
GiveUp(r) ==
    /\ run[r].at \notin {"idle", "dead"}
    /\ run' = [run EXCEPT ![r] = Idle]
    /\ UNCHANGED <<task, bound, research, sent>>

Crash(r) ==
    /\ run[r].at # "dead"
    /\ run' = [run EXCEPT ![r] = [Idle EXCEPT !.at = "dead"]]
    /\ UNCHANGED <<task, bound, research, sent>>

\* A restarted process has a runner_id of its own: one that no row names.
Restart(r) ==
    /\ run[r].at = "dead"
    /\ \A t \in Tasks : task[t].owner # r
    /\ run' = [run EXCEPT ![r] = Idle]
    /\ UNCHANGED <<task, bound, research, sent>>

-----------------------------------------------------------------------------
(* Up to the synthesis: start_attempt and the checkpoints of the inner loop *)

\* A checkpoint is inserted: the finalized response names an earlier one.
Checkpointed(row, phase) == [row EXCEPT !.checkpoint = phase,
                                        !.moved = row.moved \/ row.final # "none"]
NewAttempt(row) == [row EXCEPT !.attempt = row.attempt + 1, !.active = "running",
                               !.status = "running", !.checkpoint = "none",
                               !.final = "none", !.moved = FALSE, !.pause = "none"]

\* _run_locked takes over in the middle of a run, with no recover_in_flight.
TakeOver(r) == LET t == run[r].task IN
    /\ run[r].at = "owner"
    /\ task[t].status \in {"ready", "running"} /\ task[t].checkpoint # "synthesis"
    /\ task[t].owner # r
    /\ TakeOwnership(r, t)
    /\ Moved(t, r, run[r])

\* start_attempt, cause initial
StartAttempt(r) == LET t == run[r].task IN
    /\ run[r].at = "owner"
    /\ task[t].status \in {"ready", "running"}
    /\ Owns(r, t)
    /\ task[t].attempt = 0
    /\ task' = [task EXCEPT ![t] = NewAttempt(@)]
    /\ Moved(t, r, run[r])
    /\ UNCHANGED <<bound, research, sent>>

\* start_attempt, cause retry, of retry_provider_attempt
Retry(r, t) ==
    /\ run[r].at = "idle" \/ (run[r].at = "claimed" /\ run[r].task = t)
    /\ task[t].status = "ready"
    /\ Unresolved(t) = {}
    /\ task[t].active = "terminal" /\ task[t].result = "provider_error"
    /\ Owns(r, t)
    /\ task[t].attempt < MaxAttempts
    /\ task' = [task EXCEPT ![t] = NewAttempt(@)]
    /\ Moved(t, r, Idle)
    /\ UNCHANGED <<bound, research, sent>>

\* continue_run of the inner loop: one more checkpoint, at last the synthesis.
InnerStep(r) == LET t == run[r].task IN
    /\ run[r].at = "owner"
    /\ task[t].status \in {"ready", "running"}
    /\ task[t].active = "running"
    /\ Owns(r, t)
    /\ task[t].checkpoint \in {"none", "working"}
    /\ Unresolved(t) = {}
    /\ \E phase \in {"working", "synthesis"} :
         task' = [task EXCEPT ![t] = Checkpointed(@, phase)]
    /\ Moved(t, r, run[r])
    /\ UNCHANGED <<bound, research, sent>>

\* _prepare_inner finds the synthesis checkpoint ...
Prepared(r) == LET t == run[r].task IN
    /\ run[r].at = "owner"
    /\ task[t].status \in {"ready", "running"}
    /\ Active(t) /\ task[t].checkpoint = "synthesis"
    /\ run' = [run EXCEPT ![r].at = "prepared"]
    /\ UNCHANGED <<task, bound, research, sent>>

\* ... and the context of the calls is built from a second read of the task.
BuildContext(r) == LET t == run[r].task IN
    /\ run[r].at = "prepared"
    /\ Active(t) /\ task[t].checkpoint # "none"
    /\ \/ task[t].final = "none" /\ run' = [run EXCEPT ![r] =
             [@ EXCEPT !.at = "ready", !.attempt = task[t].attempt, !.fresh = TRUE]]
       \/ task[t].final # "none" /\ ~task[t].moved /\ Owns(r, t) /\ run' = [run EXCEPT ![r] =
             [@ EXCEPT !.at = "final", !.attempt = task[t].attempt, !.fresh = TRUE]]
    /\ UNCHANGED <<task, bound, research, sent>>

-----------------------------------------------------------------------------
(* A receipt-bound provider call: execute *)

\* The executor catches what a call raises and goes on with the next one.
NextCall(r) == [run[r] EXCEPT !.at = "ready", !.n = @ + 1]
CallEnds(r, t) == Moved(t, r, NextCall(r))

\* A replayed receipt, a refusal, or a transaction that fails: nothing changes.
SkipCall(r) ==
    /\ run[r].at \in {"ready", "reserved", "started", "sent"} /\ run[r].n <= MaxOps
    /\ run' = [run EXCEPT ![r] = NextCall(r)]
    /\ UNCHANGED <<task, bound, research, sent>>

MayCall(r) == run[r].at = "ready" /\ run[r].n <= MaxOps /\ Guard(r) /\ receipt[Op(r)] = "none"

\* _reserve: an effect that an earlier run reserved is used as it is.
ReuseReservation(r) ==
    /\ MayCall(r)
    /\ effect[Op(r)] = "reserved" /\ Op(r) \in bound
    /\ run' = [run EXCEPT ![r].at = "reserved"]
    /\ UNCHANGED <<task, bound, research, sent>>

\* _reserve: a new effect, unless one of the task is unresolved.
Reserve(r) ==
    /\ MayCall(r)
    /\ effect[Op(r)] = "none" /\ Unresolved(run[r].task) = {}
    /\ WithinBudget(run[r].task)
    /\ effect' = [effect EXCEPT ![Op(r)] = "reserved"]
    /\ bound' = bound \cup {Op(r)}
    /\ Moved(run[r].task, r, [run[r] EXCEPT !.at = "reserved"])
    /\ UNCHANGED <<task, action, receipt, closed, sent>>

\* _reserve: the rejection has a receipt; the version stays.
RejectBudget(r) ==
    /\ MayCall(r)
    /\ effect[Op(r)] = "none" /\ Unresolved(run[r].task) = {}
    /\ ~WithinBudget(run[r].task)
    /\ receipt' = [receipt EXCEPT ![Op(r)] = "budget_rejected"]
    /\ run' = [run EXCEPT ![r] = NextCall(r)]
    /\ UNCHANGED <<task, bound, effect, action, closed, sent>>

\* _start
Start(r) ==
    /\ run[r].at = "reserved" /\ Guard(r)
    /\ effect[Op(r)] = "reserved" /\ Op(r) \in bound
    /\ effect' = [effect EXCEPT ![Op(r)] = "in_flight"]
    /\ Moved(run[r].task, r, [run[r] EXCEPT !.at = "started"])
    /\ UNCHANGED <<task, bound, action, receipt, closed, sent>>

\* generate_structured: the request leaves, whatever became of the task.
Send(r) ==
    /\ run[r].at = "started"
    /\ sent' = [sent EXCEPT ![Op(r)] = @ + 1]
    /\ run' = [run EXCEPT ![r].at = "sent"]
    /\ UNCHANGED <<task, bound, research>>

MaySettleLate(r) == task[run[r].task].status # "terminal"
\* _guard and _assert_in_flight
MaySettle(r) == Guard(r) /\ effect[Op(r)] = "in_flight" /\ Op(r) \in bound

Settle(r, e, a, c) ==
    /\ MaySettle(r)
    /\ effect' = [effect EXCEPT ![Op(r)] = e]
    /\ action' = [action EXCEPT ![Op(r)] = a]
    /\ receipt' = [receipt EXCEPT ![Op(r)] = c]
    /\ CallEnds(r, run[r].task)
    /\ UNCHANGED <<bound, closed, sent>>

\* _finish_succeeded, _finish_failed
Finish(r) ==
    /\ run[r].at = "sent"
    /\ \E out \in {"succeeded", "failed"} : Settle(r, out, out, out)
    /\ UNCHANGED task

\* _reject_identity: the provider is not the one authorized; nothing left.
RejectIdentity(r) ==
    /\ run[r].at = "started"
    /\ Settle(r, "failed", "rejected", "failed")
    /\ UNCHANGED task

\* _mark_unknown: the factory or the call raised, or the result has no usage.
MarkUnknown(r) ==
    /\ run[r].at \in {"started", "sent"}
    /\ Settle(r, "unknown", "unknown", "unknown")
    /\ task' = [task EXCEPT ![run[r].task].status = "blocked"]

-----------------------------------------------------------------------------
(* The end of a run *)

Succeeded(t, a) == {o \in OpsOf(t) : o.attempt = a /\ action[o] = "succeeded"}

\* _persist_finalized_response: a receipt; the version stays.
Finalize(r) == LET t == run[r].task IN
    /\ run[r].at = "ready"
    /\ run[r].fresh /\ Owns(r, t)
    /\ \E out \in {"answer", "failed"} : task' = [task EXCEPT ![t].final = out]
    /\ run' = [run EXCEPT ![r].at = "final"]
    /\ UNCHANGED <<bound, research, sent>>

SettledBySuccess(t, a) == /\ Succeeded(t, a) # {}
                          /\ \A o \in Succeeded(t, a) : effect[o] = "succeeded"
\* _assert_provider_receipts
Settled(t, a) == /\ Succeeded(t, a) # {}
                 /\ \A o \in Succeeded(t, a) : effect[o] = "succeeded"
                 /\ Unresolved(t) = {}

\* commit_provider_synthesis: the artifact and the complete checkpoint.
Ingest(r) == LET t == run[r].task IN
    /\ run[r].at = "final" /\ Guard(r)
    /\ Settled(t, run[r].attempt)
    /\ task' = [task EXCEPT ![t] = Checkpointed(@, "complete")]
    /\ Moved(t, r, [run[r] EXCEPT !.at = "ingested"])
    /\ UNCHANGED <<bound, research, sent>>

\* complete_attempt
Completed(row, result, terminal) ==
    [row EXCEPT !.active = "terminal", !.result = result,
                !.status = IF terminal THEN "terminal" ELSE "ready"]
\* An answer ends the task; a failed generation leaves it ready for a retry.
Outcome(row) == IF row.final = "answer" THEN Completed(row, "answer", TRUE)
                                        ELSE Completed(row, "provider_error", FALSE)

Complete(r) == LET t == run[r].task IN
    /\ run[r].at = "ingested" /\ Guard(r)
    /\ task' = [task EXCEPT ![t] = Outcome(@)]
    /\ Moved(t, r, Idle)
    /\ UNCHANGED <<bound, research, sent>>

\* _complete_ingested_provider: a run that crashed between the two.
CompleteIngested(r) == LET t == run[r].task IN
    /\ run[r].at = "owner"
    /\ Active(t) /\ task[t].checkpoint = "complete" /\ task[t].final # "none"
    /\ task[t].status # "terminal" /\ Owns(r, t)
    /\ task' = [task EXCEPT ![t] = Outcome(@)]
    /\ Moved(t, r, Idle)
    /\ UNCHANGED <<bound, research, sent>>

\* close_provider_failure, after any error but a plain conflict.  The executor
\* catches ProviderDispatchUnknown: what tells are the effects of the attempt.
CloseFailure(r) == LET t == run[r].task
                       effects == {o \in OpsOf(t) : o.attempt = task[t].attempt
                                                    /\ effect[o] # "none"} IN
    /\ run[r].at \in {"owner", "prepared", "ready", "final", "ingested"}
    /\ task[t].status = "running" /\ Active(t)
    /\ Owns(r, t)
    /\ task' = [task EXCEPT ![t] =
         IF effects = {} THEN Completed(@, "implementation_error", FALSE)
         ELSE IF effects \cap Unresolved(t) # {} THEN Completed(@, "unknown", TRUE)
         ELSE Completed(@, "provider_error", FALSE)]
    /\ Moved(t, r, Idle)
    /\ UNCHANGED <<bound, research, sent>>

-----------------------------------------------------------------------------
(* What a person does: apply_control, resolve_side_effect *)

\* _fence: no owner, a new epoch; effects keep theirs.
Fenced(row) == [row EXCEPT !.owner = None, !.live = FALSE]
Fence(t) == /\ task[t].status # "terminal"
            /\ bound' = bound \ OpsOf(t)
            /\ run' = Stale(t, None)
            /\ UNCHANGED <<action, receipt, sent>>

\* _terminal_cancel
Cancelled(row) == [row EXCEPT !.status = "terminal", !.result = "cancelled",
                              !.active = IF @ = "none" THEN "none" ELSE "terminal"]
Blocked(row) == [row EXCEPT !.status = "blocked",
                            !.active = IF @ \in {"running", "blocked"} THEN "blocked" ELSE @]

Interrupt(t) ==
    /\ Active(t)
    /\ Fence(t)
    /\ effect' = [o \in Ops |-> IF o \in Unresolved(t) THEN "unknown" ELSE effect[o]]
    /\ LET row == [Blocked(Fenced(task[t])) EXCEPT
                     !.pause = IF Unresolved(t) = {} THEN "interrupt" ELSE "unknown"] IN
       task' = [task EXCEPT ![t] =
         IF Unresolved(t) = {} /\ row.checkpoint # "none"
         THEN Checkpointed(row, row.checkpoint) ELSE row]
    /\ UNCHANGED closed

\* Reserved effects fail; one in doubt keeps the task until it is resolved.
Cancel(t) ==
    /\ Fence(t)
    /\ effect' = [o \in Ops |-> IF o \in Unresolved(t) THEN "unknown"
                                ELSE IF o.task = t /\ effect[o] = "reserved" THEN "failed"
                                ELSE effect[o]]
    /\ LET row == [Fenced(task[t]) EXCEPT !.cancelled = TRUE, !.pause = "none"] IN
       task' = [task EXCEPT ![t] = IF Unresolved(t) = {} THEN Cancelled(row)
                                                         ELSE Blocked(row)]
    /\ UNCHANGED closed

\* _resume_authority: an interrupt since which nothing was decided but the
\* effects it left unknown.
Resume(t) ==
    /\ Active(t)
    /\ task[t].status = "blocked" /\ Unresolved(t) = {}
    /\ task[t].checkpoint # "none" /\ task[t].pause # "none"
    /\ Fence(t)
    /\ task' = [task EXCEPT ![t] = [Checkpointed(Fenced(@), @.checkpoint) EXCEPT
                  !.status = "running", !.active = "running", !.pause = "none"]]
    /\ UNCHANGED <<effect, closed>>

Resolve(t, o) ==
    /\ o.task = t /\ effect[o] = "unknown"
    /\ Fence(t)
    /\ \E out \in {"succeeded", "failed"} : effect' = [effect EXCEPT ![o] = out]
    /\ closed' = closed \cup {o}
    /\ LET row == [Fenced(task[t]) EXCEPT
                     !.pause = IF @ = "unknown" THEN "unknown" ELSE "none"] IN
       task' = [task EXCEPT ![t] = IF row.cancelled /\ Unresolved(t) = {o}
                                   THEN Cancelled(row)
                                   ELSE [row EXCEPT !.status = "blocked"]]

-----------------------------------------------------------------------------
Runs(r) ==
    \/ \E t \in Tasks : Claim(r, t) \/ Reenter(r, t) \/ Retry(r, t)
    \/ Recover(r) \/ TakeOver(r) \/ StartAttempt(r) \/ InnerStep(r)
    \/ Prepared(r) \/ BuildContext(r)
    \/ SkipCall(r) \/ ReuseReservation(r) \/ Reserve(r) \/ RejectBudget(r)
    \/ Start(r) \/ Send(r) \/ Finish(r) \/ RejectIdentity(r) \/ MarkUnknown(r)
    \/ Finalize(r) \/ Ingest(r) \/ Complete(r) \/ CompleteIngested(r)
    \/ CloseFailure(r) \/ GiveUp(r) \/ Crash(r) \/ Restart(r)
Controls(t) ==
    \/ Expire(t) \/ Interrupt(t) \/ Cancel(t) \/ Resume(t)
    \/ \E o \in Ops : Resolve(t, o)
Next == (\E r \in Runners : Runs(r)) \/ (\E t \in Tasks : Controls(t))
Spec == Init /\ [][Next]_vars

-----------------------------------------------------------------------------
(* Properties *)

\* A request leaves at most once for an operation, over crashes, takeovers
\* that rebind its reservation, replays and resumed attempts.
SentOnce == \A o \in Ops : sent[o] <= 1

\* The receipt, the action and the effect of a call tell one story: a success
\* was sent and committed, only a person closes what is unknown, and no late
\* answer lands on what a person closed.
ReceiptTellsOutcome == \A o \in Ops :
    /\ receipt[o] = "succeeded" => /\ action[o] = "succeeded" /\ effect[o] = "succeeded"
                                   /\ sent[o] # 0
    /\ receipt[o] = "failed" => /\ action[o] \in {"failed", "rejected"}
                                /\ effect[o] = "failed"
    /\ receipt[o] = "unknown" => /\ action[o] = "unknown"
                                 /\ effect[o] = "unknown" \/ o \in closed
    /\ effect[o] = "succeeded" => receipt[o] = "succeeded" \/ o \in closed
    /\ o \in closed => receipt[o] \in {"none", "unknown"}
    /\ effect[o] \in {"reserved", "in_flight"} => receipt[o] = "none" /\ action[o] = "none"

\* Whatever was sent is charged to the envelope of the tasks, whose cap holds,
\* unless a person closed it.
EnvelopeHolds == /\ Cardinality(Charged) <= RunCap
                 /\ \A o \in Ops : sent[o] # 0 => o \in Charged \cup closed

\* An answer ends a task with nothing in doubt, and with a call that succeeded.
AnswerIsSettled == \A t \in Tasks :
    task[t].status = "terminal" /\ task[t].result = "answer" =>
        /\ Unresolved(t) = {}
        /\ Succeeded(t, task[t].attempt) # {}

\* A cancel that waits for an unknown effect is not overtaken by an answer, a
\* failure or a resume.
CancelSticks == \A t \in Tasks : task[t].cancelled =>
    \/ task[t].status = "blocked" /\ Unresolved(t) # {}
    \/ task[t].status = "terminal" /\ task[t].result = "cancelled"

\* No call starts for an attempt that a person paused, or that has ended.
PausedNeverDispatches == [][\A o \in Ops :
    effect[o] # "in_flight" /\ effect'[o] = "in_flight" =>
        /\ task[o.task].active = "running" /\ task[o.task].attempt = o.attempt
        /\ task[o.task].status # "terminal"]_vars

\* Receipts keep the promise of a record of paid calls: nothing leaves for an
\* operation that has one, whoever rebinds, replays or resumes it, and none is
\* ever overwritten (execute, _reserve, _finish_succeeded, _mark_unknown).
CallState(o) == CASE receipt[o] = "none" -> "open"
                  [] receipt[o] = "unknown" -> "unknown"
                  [] receipt[o] = "budget_rejected" -> "withdrawn"
                  [] receipt[o] = "succeeded" -> "answered"
                  [] receipt[o] = "failed" -> IF sent[o] = 0 THEN "withdrawn" ELSE "answered"
CallAnswer(o) == IF CallState(o) = "answered" THEN receipt[o] ELSE "none"
Paid == INSTANCE ProviderCalls WITH
          Calls <- Ops, Answers <- {"succeeded", "failed"}, Nothing <- "none", left <- sent,
          state <- [o \in Ops |-> CallState(o)],
          answer <- [o \in Ops |-> CallAnswer(o)]
ImplementsProviderCalls == Paid!Spec
============================================================================
