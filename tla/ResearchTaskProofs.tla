------------------------ MODULE ResearchTaskProofs ------------------------
(***************************************************************************)
(* Safety of ResearchTask for any tasks, processes, attempts, calls and    *)
(* caps.  Four parts make the inductive invariant: where a process is      *)
(* (TypeInv), the life of an operation with the one process that sent it   *)
(* (LifeInv), what a process with the current version and the lease may    *)
(* rely on (TrustInv), and what that leaves of a task (TasksInv).          *)
(* EnvelopeHolds adds the cap, which no other part needs.                  *)
(***************************************************************************)
EXTENDS ResearchTask, FiniteSetTheorems, TLAPS

Calling == {"ready", "reserved", "started", "sent"}
Working == Calling \cup {"final", "ingested"}
\* A process with a task; of a call, with an operation.
PlacedAt(p) == /\ p.at \notin {"idle", "dead"} => p.task \in Tasks
               /\ p.at \in Working => p.attempt \in Attempts
               /\ p.at \in {"reserved", "started", "sent"} => p.n <= MaxOps
               /\ p.fresh => p.at \in Working
Placed == \A r \in Runners : PlacedAt(run[r])
\* An attempt that began has an ordinal; one is blocked only with its task.
RowInv(row) == /\ row.active # "none" => row.attempt # 0
               /\ row.active = "blocked" => row.status = "blocked"
Rows == \A t \in Tasks : RowInv(task[t])
TypeInv == TypeOK /\ Placed /\ Rows

-----------------------------------------------------------------------------
(* What the steps do to processes *)

\* What a process keeps when somebody else moves on.
Same(p, q) == p.at = q.at /\ p.task = q.task /\ p.attempt = q.attempt /\ p.n = q.n

LEMMA StaleRun ==
    ASSUME TypeOK, NEW t, NEW r, NEW s \in Runners
    PROVE  /\ Stale(t, r)[s] \in Runner /\ Same(Stale(t, r)[s], run[s])
           /\ Stale(t, r)[s].fresh => run[s].fresh /\ (run[s].task # t \/ s = r)
  <1>1. run[s] \in Runner BY DEF TypeOK
  <1>2. CASE run[s].task = t /\ s # r
    <2>1. Stale(t, r)[s] = [run[s] EXCEPT !.fresh = FALSE] BY <1>2 DEF Stale
    <2>. QED BY <1>1, <2>1 DEF Runner, Same
  <1>3. CASE ~(run[s].task = t /\ s # r)
    <2>1. Stale(t, r)[s] = run[s] BY <1>3 DEF Stale
    <2>. QED BY <1>1, <1>3, <2>1 DEF Same
  <1>. QED BY <1>2, <1>3

\* A transaction of r: r goes on to next, the others lose the version.
LEMMA MovedRun ==
    ASSUME TypeOK, Placed, NEW t, NEW r \in Runners, NEW next \in Runner, PlacedAt(next),
           Moved(t, r, next)
    PROVE  /\ run' \in [Runners -> Runner] /\ Placed' /\ run'[r] = next
           /\ \A s \in Runners : s # r =>
                /\ Same(run'[s], run[s])
                /\ run'[s].fresh => run[s].fresh /\ run[s].task # t
  <1>1. run' = [Stale(t, r) EXCEPT ![r] = next] BY DEF Moved
  <1>2. Stale(t, r) \in [Runners -> Runner] BY StaleRun DEF Stale
  <1>3. run' \in [Runners -> Runner] /\ run'[r] = next BY <1>1, <1>2
  <1>4. ASSUME NEW s \in Runners, s # r
        PROVE  run'[s] = Stale(t, r)[s]
    BY <1>1, <1>2, <1>4
  <1>5. ASSUME NEW s \in Runners PROVE PlacedAt(run'[s])
    <2>1. CASE s = r BY <1>3, <2>1
    <2>2. CASE s # r BY <1>4, <2>2, StaleRun DEF Placed, PlacedAt, Same
    <2>. QED BY <2>1, <2>2
  <1>. QED BY <1>3, <1>4, <1>5, StaleRun DEF Placed

\* A step of r alone.
LEMMA StepRun ==
    ASSUME TypeOK, Placed, NEW r \in Runners, NEW next \in Runner, PlacedAt(next),
           run' = [run EXCEPT ![r] = next]
    PROVE  /\ run' \in [Runners -> Runner] /\ Placed' /\ run'[r] = next
           /\ \A s \in Runners : s # r => run'[s] = run[s]
  BY DEF TypeOK, Placed

\* A control: everybody loses the version of the task.
LEMMA FencedRun ==
    ASSUME TypeOK, Placed, NEW t, run' = Stale(t, None)
    PROVE  /\ run' \in [Runners -> Runner] /\ Placed'
           /\ \A s \in Runners : /\ Same(run'[s], run[s])
                                 /\ run'[s].fresh => run[s].fresh /\ run[s].task # t
  <1>1. None \notin Runners BY NoneAssumption
  <1>2. ASSUME NEW s \in Runners
        PROVE  /\ run'[s] \in Runner /\ Same(run'[s], run[s])
               /\ run'[s].fresh => run[s].fresh /\ run[s].task # t
    BY <1>1, StaleRun
  <1>3. run' \in [Runners -> Runner] BY <1>2 DEF Stale
  <1>4. Placed' BY <1>2 DEF Placed, PlacedAt, Same
  <1>. QED BY <1>2, <1>3, <1>4

\* The places a process goes to.
LEMMA IdleRunner == Idle \in Runner /\ PlacedAt(Idle) /\ Idle.at = "idle" /\ ~Idle.fresh
  BY BoundAssumption DEF Idle, Runner, PlacedAt, Working, Calling, Stages

LEMMA NextCallRunner ==
    ASSUME TypeOK, Placed, NEW r \in Runners, run[r].at \in Calling, run[r].n <= MaxOps
    PROVE  /\ NextCall(r) \in Runner /\ PlacedAt(NextCall(r))
           /\ NextCall(r).at = "ready" /\ NextCall(r).task = run[r].task
           /\ NextCall(r).attempt = run[r].attempt /\ NextCall(r).fresh = run[r].fresh
  <1>1. run[r] \in Runner /\ PlacedAt(run[r]) BY DEF TypeOK, Placed
  <1>2. run[r].n + 1 \in 1..(MaxOps + 1) BY <1>1, BoundAssumption DEF Runner
  <1> DEFINE n == run[r].n + 1
  <1>3. NextCall(r) = [run[r] EXCEPT !.at = "ready", !.n = n] BY DEF NextCall
  <1>4. n \in 1..(MaxOps + 1) BY <1>2
  <1> HIDE DEF n
  <1>5. NextCall(r) \in Runner BY <1>1, <1>3, <1>4 DEF Runner, Stages
  <1>. QED BY <1>1, <1>3, <1>5 DEF Runner, PlacedAt, Working, Calling

\* A process goes to another place of the same run.
LEMMA GoesTo ==
    ASSUME NEW p \in Runner, PlacedAt(p), NEW at \in Stages,
           at \in Working => p.at \in Working,
           at \notin {"idle", "dead"} => p.at \notin {"idle", "dead"},
           at \in {"reserved", "started", "sent"} => p.n <= MaxOps,
           at \notin Working => ~p.fresh
    PROVE  /\ [p EXCEPT !.at = at] \in Runner /\ PlacedAt([p EXCEPT !.at = at])
           /\ [p EXCEPT !.at = at].at = at /\ [p EXCEPT !.at = at].task = p.task
           /\ [p EXCEPT !.at = at].attempt = p.attempt /\ [p EXCEPT !.at = at].n = p.n
           /\ [p EXCEPT !.at = at].fresh = p.fresh
  BY DEF Runner, PlacedAt

-----------------------------------------------------------------------------
(* What the steps do to a row *)

Phases == {"none", "working", "synthesis", "complete"}

\* A checkpoint moves nothing but itself.
LEMMA CheckpointedRow ==
    ASSUME NEW row \in Task, NEW phase \in Phases
    PROVE  LET new == Checkpointed(row, phase) IN
           /\ new \in Task /\ new.checkpoint = phase
           /\ new.status = row.status /\ new.owner = row.owner /\ new.live = row.live
           /\ new.attempt = row.attempt /\ new.active = row.active
           /\ new.final = row.final /\ new.cancelled = row.cancelled
           /\ new.result = row.result
  <1> DEFINE moved == row.moved \/ row.final # "none"
  <1>1. Checkpointed(row, phase) = [row EXCEPT !.checkpoint = phase, !.moved = moved]
    BY DEF Checkpointed
  <1>2. moved \in BOOLEAN BY DEF Task
  <1> HIDE DEF moved
  <1>. QED BY <1>1, <1>2 DEF Task, Phases

\* A new attempt runs from the beginning.
LEMMA NewAttemptRow ==
    ASSUME NEW row \in Task, row.attempt < MaxAttempts
    PROVE  LET new == NewAttempt(row) IN
           /\ new \in Task /\ new.attempt = row.attempt + 1
           /\ new.status = "running" /\ new.active = "running"
           /\ new.checkpoint = "none" /\ new.final = "none"
           /\ new.owner = row.owner /\ new.live = row.live
           /\ new.cancelled = row.cancelled /\ new.result = row.result
  <1> DEFINE n == row.attempt + 1
  <1>1. NewAttempt(row) = [row EXCEPT !.attempt = n, !.active = "running",
                               !.status = "running", !.checkpoint = "none",
                               !.final = "none", !.moved = FALSE, !.pause = "none"]
    BY DEF NewAttempt
  <1>2. n \in 0..MaxAttempts BY BoundAssumption DEF Task
  <1>3. n = row.attempt + 1 OBVIOUS
  <1> HIDE DEF n
  <1>. QED BY <1>1, <1>2, <1>3 DEF Task

\* The end of an attempt.
LEMMA EndedRow ==
    ASSUME NEW row \in Task, NEW result \in Results, NEW status \in {"ready", "terminal"}
    PROVE  LET new == [row EXCEPT !.active = "terminal", !.result = result,
                                  !.status = status] IN
           /\ new \in Task /\ new.active = "terminal" /\ new.result = result
           /\ new.status = status
           /\ new.attempt = row.attempt /\ new.checkpoint = row.checkpoint
           /\ new.final = row.final /\ new.cancelled = row.cancelled
           /\ new.owner = row.owner /\ new.live = row.live
  BY DEF Task

\* It leaves the task ready, or ends it.
LEMMA ReadyRow ==
    ASSUME NEW row \in Task, NEW result \in Results
    PROVE  Completed(row, result, FALSE) =
             [row EXCEPT !.active = "terminal", !.result = result, !.status = "ready"]
  BY DEF Completed
LEMMA TerminalRow ==
    ASSUME NEW row \in Task, NEW result \in Results
    PROVE  Completed(row, result, TRUE) =
             [row EXCEPT !.active = "terminal", !.result = result, !.status = "terminal"]
  BY DEF Completed

LEMMA OutcomeRow ==
    ASSUME NEW row \in Task
    PROVE  LET new == Outcome(row) IN
           /\ new \in Task /\ new.active = "terminal"
           /\ new.status = IF row.final = "answer" THEN "terminal" ELSE "ready"
           /\ new.attempt = row.attempt /\ new.checkpoint = row.checkpoint
           /\ new.final = row.final /\ new.cancelled = row.cancelled
           /\ new.owner = row.owner /\ new.live = row.live
  <1>1. "answer" \in Results /\ "provider_error" \in Results BY DEF Results
  <1>2. CASE row.final = "answer"
    <2>1. Outcome(row) = [row EXCEPT !.active = "terminal", !.result = "answer",
                                     !.status = "terminal"]
      BY <1>1, <1>2, TerminalRow DEF Outcome
    <2>. QED BY <1>1, <1>2, <2>1 DEF Task
  <1>3. CASE row.final # "answer"
    <2>1. Outcome(row) = [row EXCEPT !.active = "terminal", !.result = "provider_error",
                                     !.status = "ready"]
      BY <1>1, <1>3, ReadyRow DEF Outcome
    <2>. QED BY <1>1, <1>3, <2>1 DEF Task
  <1>. QED BY <1>2, <1>3

\* _fence takes the lease away.
LEMMA FencedRow ==
    ASSUME NEW row \in Task
    PROVE  LET new == Fenced(row) IN
           /\ new \in Task /\ new.owner = None /\ ~new.live
           /\ new.status = row.status /\ new.attempt = row.attempt
           /\ new.active = row.active /\ new.checkpoint = row.checkpoint
           /\ new.final = row.final /\ new.cancelled = row.cancelled
           /\ new.result = row.result /\ new.pause = row.pause
  BY DEF Fenced, Task

LEMMA PausedRow ==
    ASSUME NEW row \in Task, NEW pause \in {"none", "interrupt", "unknown"}
    PROVE  LET new == [row EXCEPT !.pause = pause] IN
           /\ new \in Task /\ new.owner = row.owner /\ new.live = row.live
           /\ new.status = row.status /\ new.attempt = row.attempt
           /\ new.active = row.active /\ new.checkpoint = row.checkpoint
           /\ new.final = row.final /\ new.cancelled = row.cancelled
           /\ new.result = row.result
  BY DEF Task

LEMMA CancelledRow ==
    ASSUME NEW row \in Task
    PROVE  LET new == Cancelled(row) IN
           /\ new \in Task /\ new.status = "terminal" /\ new.result = "cancelled"
           /\ new.active = IF row.active = "none" THEN "none" ELSE "terminal"
           /\ new.attempt = row.attempt /\ new.checkpoint = row.checkpoint
           /\ new.final = row.final /\ new.cancelled = row.cancelled
           /\ new.owner = row.owner /\ new.live = row.live
  <1> DEFINE active == IF row.active = "none" THEN "none" ELSE "terminal"
  <1>1. Cancelled(row) = [row EXCEPT !.status = "terminal", !.result = "cancelled",
                                     !.active = active]
    BY DEF Cancelled
  <1>2. active \in {"none", "terminal"} OBVIOUS
  <1>3. active = IF row.active = "none" THEN "none" ELSE "terminal" OBVIOUS
  <1>4. "cancelled" \in Results BY DEF Results
  <1> HIDE DEF active
  <1>. QED BY <1>1, <1>2, <1>3, <1>4 DEF Task

LEMMA BlockedRow ==
    ASSUME NEW row \in Task
    PROVE  LET new == Blocked(row) IN
           /\ new \in Task /\ new.status = "blocked"
           /\ new.active = IF row.active \in {"running", "blocked"} THEN "blocked"
                           ELSE row.active
           /\ new.attempt = row.attempt /\ new.checkpoint = row.checkpoint
           /\ new.final = row.final /\ new.cancelled = row.cancelled
           /\ new.result = row.result
           /\ new.owner = row.owner /\ new.live = row.live
  <1> DEFINE active == IF row.active \in {"running", "blocked"} THEN "blocked" ELSE row.active
  <1>1. Blocked(row) = [row EXCEPT !.status = "blocked", !.active = active]
    BY DEF Blocked
  <1>2. active \in {"none", "running", "blocked", "terminal"} BY DEF Task
  <1>3. active = IF row.active \in {"running", "blocked"} THEN "blocked" ELSE row.active
    OBVIOUS
  <1> HIDE DEF active
  <1>. QED BY <1>1, <1>2, <1>3 DEF Task
-----------------------------------------------------------------------------
(* The life of an operation *)

Told(o) ==
    /\ receipt[o] = "succeeded" => /\ action[o] = "succeeded" /\ effect[o] = "succeeded"
                                   /\ sent[o] # 0
    /\ receipt[o] = "failed" => /\ action[o] \in {"failed", "rejected"}
                                /\ effect[o] = "failed"
    /\ receipt[o] = "unknown" => /\ action[o] = "unknown"
                                 /\ effect[o] = "unknown" \/ o \in closed
    /\ effect[o] = "succeeded" => receipt[o] = "succeeded" \/ o \in closed
    /\ o \in closed => receipt[o] \in {"none", "unknown"}
    /\ effect[o] \in {"reserved", "in_flight"} => receipt[o] = "none" /\ action[o] = "none"
\* Told is what ReceiptTellsOutcome says of an operation; what else it rests on:
Lived(o) ==
    /\ sent[o] <= 1
    /\ sent[o] # 0 => effect[o] \notin {"none", "reserved"}
    /\ effect[o] = "none" => action[o] = "none"
    /\ effect[o] = "unknown" => /\ receipt[o] \in {"none", "unknown"}
                                /\ action[o] \in {"none", "unknown"}
    /\ o \in closed => effect[o] \in {"succeeded", "failed"}
    /\ action[o] = "rejected" => sent[o] = 0
    /\ action[o] = "succeeded" => effect[o] = "succeeded"
    /\ sent[o] # 0 => o \in Charged \cup closed
OpsInv == \A o \in Ops : Told(o) /\ Lived(o)

\* The process that dispatched an operation is the only one, and nothing but a
\* control settles it meanwhile.
Sends(r) == run[r].at \in {"started", "sent"}
SenderInv(r) ==
    /\ effect[Op(r)] \notin {"none", "reserved"}
    /\ receipt[Op(r)] = "none" /\ action[Op(r)] = "none"
    /\ effect[Op(r)] \in {"in_flight", "unknown"} \/ Op(r) \in closed
    /\ run[r].at = "started" <=> sent[Op(r)] = 0
SendersInv == /\ \A r \in Runners : Sends(r) => SenderInv(r)
              /\ \A r, s \in Runners : Sends(r) /\ Sends(s) /\ Op(r) = Op(s) => r = s
LifeInv == OpsInv /\ SendersInv

\* Nobody takes up a call that is not his.
NoNewSender == \A r \in Runners : Sends(r)' => Same(run'[r], run[r])

LEMMA OpType ==
    ASSUME TypeInv, NEW r \in Runners, run[r].at \in {"reserved", "started", "sent"}
    PROVE  Op(r) \in Ops
  <1>1. run[r] \in Runner /\ PlacedAt(run[r]) BY DEF TypeInv, TypeOK, Placed
  <1>2. run[r].task \in Tasks /\ run[r].attempt \in Attempts /\ run[r].n \in 1..MaxOps
    BY <1>1, BoundAssumption DEF PlacedAt, Working, Calling, Runner
  <1>. QED BY <1>2 DEF Op, Ops

LEMMA ReadyOpType ==
    ASSUME TypeInv, NEW r \in Runners, run[r].at = "ready", run[r].n <= MaxOps
    PROVE  Op(r) \in Ops
  <1>1. run[r] \in Runner /\ PlacedAt(run[r]) BY DEF TypeInv, TypeOK, Placed
  <1>2. run[r].task \in Tasks /\ run[r].attempt \in Attempts /\ run[r].n \in 1..MaxOps
    BY <1>1, BoundAssumption DEF PlacedAt, Working, Calling, Runner
  <1>. QED BY <1>2 DEF Op, Ops

\* What recover_in_flight and the controls do to effects, and every step that
\* leaves the operations alone.
LEMMA FencesKeepLife ==
    ASSUME TypeInv, LifeInv, NoNewSender, UNCHANGED <<action, receipt, closed, sent>>,
           \A o \in Ops :
             \/ effect'[o] = effect[o]
             \/ effect[o] = "in_flight" /\ effect'[o] = "unknown"
             \/ effect[o] = "reserved" /\ effect'[o] = "failed"
    PROVE  LifeInv'
  <1>1. ASSUME NEW o \in Ops PROVE Told(o)' /\ Lived(o)'
    <2>1. Told(o) /\ Lived(o) BY DEF LifeInv, OpsInv
    <2>2. Told(o)' BY <2>1 DEF Told, Lived
    <2>3. Lived(o)' BY <2>1 DEF Told, Lived, Charged
    <2>. QED BY <2>2, <2>3
  <1>2. ASSUME NEW r \in Runners, Sends(r)'
        PROVE  Sends(r) /\ Op(r)' = Op(r) /\ run'[r].at = run[r].at
    BY <1>2 DEF NoNewSender, Same, Sends, Op
  <1>3. ASSUME NEW r \in Runners, Sends(r)' PROVE SenderInv(r)'
    <2>1. SenderInv(r) /\ Sends(r) BY <1>2, <1>3 DEF LifeInv, SendersInv
    <2>2. Op(r) \in Ops BY <2>1, OpType DEF Sends
    <2>. QED BY <1>2, <1>3, <2>1, <2>2 DEF SenderInv
  <1>4. \A r, s \in Runners : Sends(r)' /\ Sends(s)' /\ Op(r)' = Op(s)' => r = s
    BY <1>2 DEF LifeInv, SendersInv
  <1>. QED BY <1>1, <1>3, <1>4 DEF LifeInv, OpsInv, SendersInv

\* A step that leaves the operations alone.
LEMMA AsideKeepsLife ==
    ASSUME TypeInv, LifeInv, NoNewSender, UNCHANGED <<research, sent>>
    PROVE  LifeInv'
  <1>1. UNCHANGED <<effect, action, receipt, closed, sent>> BY DEF research
  <1>. QED BY <1>1, FencesKeepLife

\* Reserve, RejectBudget and Resolve: one operation that nobody sends.
LEMMA OneKeepsLife ==
    ASSUME TypeInv, LifeInv, NoNewSender, NEW o \in Ops, UNCHANGED sent,
           Told(o)', Lived(o)',
           \A r \in Runners : Sends(r) => Op(r) # o \/ (SenderInv(r)
              /\ UNCHANGED <<action, receipt>> /\ o \in closed'
              /\ effect'[o] \notin {"none", "reserved"}),
           \A p \in Ops \ {o} :
             /\ effect'[p] = effect[p] /\ action'[p] = action[p] /\ receipt'[p] = receipt[p]
             /\ p \in closed' <=> p \in closed
    PROVE  LifeInv'
  <1>1. ASSUME NEW p \in Ops, p # o PROVE Told(p)' /\ Lived(p)'
    BY <1>1 DEF LifeInv, OpsInv, Told, Lived, Charged
  <1>2. ASSUME NEW r \in Runners, Sends(r)'
        PROVE  Sends(r) /\ Op(r)' = Op(r) /\ run'[r].at = run[r].at
    BY <1>2 DEF NoNewSender, Same, Sends, Op
  <1>3. ASSUME NEW r \in Runners, Sends(r)' PROVE SenderInv(r)'
    <2>1. SenderInv(r) /\ Sends(r) BY <1>2, <1>3 DEF LifeInv, SendersInv
    <2>2. Op(r) \in Ops BY <2>1, OpType DEF Sends
    <2>. QED BY <1>2, <1>3, <2>1, <2>2 DEF SenderInv
  <1>4. \A r, s \in Runners : Sends(r)' /\ Sends(s)' /\ Op(r)' = Op(s)' => r = s
    BY <1>2 DEF LifeInv, SendersInv
  <1>. QED BY <1>1, <1>3, <1>4 DEF LifeInv, OpsInv, SendersInv
-----------------------------------------------------------------------------
(* What a process may rely on, and what holds of a task *)

\* A process r that knows the current version p.fresh of its row, or that goes
\* on from a synthesis it saw, as long as it has the lease.
Holds(row, r) == row.owner = r /\ row.live
Trust(p, row, r) ==
    /\ p.fresh => p.attempt = row.attempt
    /\ (p.at = "prepared" \/ p.fresh) /\ Holds(row, r) =>
         row.active # "blocked" /\ ~row.cancelled
    /\ p.fresh /\ p.at \in Calling /\ Holds(row, r) => row.final = "none"
    /\ p.fresh /\ p.at \in {"final", "ingested"} => row.final # "none"
    /\ p.fresh /\ p.at = "ingested" => row.checkpoint = "complete"
TrustInv == \A r \in Runners :
    run[r].at \notin {"idle", "dead"} => Trust(run[r], task[run[r].task], r)

\* What is complete, or answered, has nothing in doubt; a cancel sticks.
SettledRow(row, t) == Unresolved(t) = {} /\ Succeeded(t, row.attempt) # {}
TaskInv(row, t) ==
    /\ row.checkpoint = "complete" => row.final # "none" /\ SettledRow(row, t)
    /\ row.status = "terminal" /\ row.result = "answer" => SettledRow(row, t)
    /\ row.cancelled => \/ row.status = "blocked" /\ Unresolved(t) # {}
                        \/ row.status = "terminal" /\ row.result = "cancelled"
TasksInv == \A t \in Tasks : TaskInv(task[t], t)
IInv == TypeInv /\ LifeInv /\ TrustInv /\ TasksInv

\* Of a task, what is in doubt and what succeeded stays.
EffectsStay(t) == /\ Unresolved(t)' = Unresolved(t)
                  /\ \A a \in 0..MaxAttempts : Succeeded(t, a)' = Succeeded(t, a)
\* Calls run only for such a row: nothing is claimed of it yet.
Calm(row) == row.checkpoint # "complete" /\ ~row.cancelled /\ row.status # "terminal"

LEMMA FencesStay ==
    ASSUME NEW t, UNCHANGED action,
           \A o \in Ops :
             \/ effect'[o] = effect[o]
             \/ effect[o] = "in_flight" /\ effect'[o] = "unknown"
             \/ effect[o] = "reserved" /\ effect'[o] = "failed"
    PROVE  EffectsStay(t)
  <1>1. Unresolved(t)' = Unresolved(t) BY DEF Unresolved, OpsOf
  <1>. QED BY <1>1 DEF EffectsStay, Succeeded, OpsOf

LEMMA ElseStay ==
    ASSUME NEW t, NEW u, t # u,
           \A o \in Ops : o.task # t => effect'[o] = effect[o] /\ action'[o] = action[o]
    PROVE  EffectsStay(u)
  <1>1. Unresolved(u)' = Unresolved(u) BY DEF Unresolved, OpsOf
  <1>. QED BY <1>1 DEF EffectsStay, Succeeded, OpsOf

\* The rows of the other tasks, and of a task whose row becomes new.
LEMMA TasksStep ==
    ASSUME TypeInv, TasksInv, NEW t \in Tasks, NEW new \in Task,
           task' = [task EXCEPT ![t] = new],
           \A u \in Tasks \ {t} : EffectsStay(u),
           Calm(new) \/ (EffectsStay(t) /\ TaskInv(new, t))
    PROVE  TasksInv'
  <1>1. task \in [Tasks -> Task] BY DEF TypeInv, TypeOK
  <1>2. ASSUME NEW u \in Tasks PROVE TaskInv(task[u], u)'
    <2>1. CASE u # t
      <3>1. task'[u] = task[u] /\ task[u] \in Task BY <1>1, <2>1
      <3>2. TaskInv(task[u], u) /\ EffectsStay(u) BY <2>1 DEF TasksInv
      <3>3. task[u].attempt \in 0..MaxAttempts BY <3>1 DEF Task
      <3>. QED BY <3>1, <3>2, <3>3 DEF TaskInv, SettledRow, EffectsStay
    <2>2. CASE u = t
      <3>1. task'[u] = new BY <1>1, <2>2
      <3>2. CASE Calm(new) BY <3>1, <3>2 DEF Calm, TaskInv
      <3>3. CASE EffectsStay(t) /\ TaskInv(new, t)
        <4>1. new.attempt \in 0..MaxAttempts BY DEF Task
        <4>. QED BY <2>2, <3>1, <3>3, <4>1 DEF TaskInv, SettledRow, EffectsStay
      <3>. QED BY <3>2, <3>3
    <2>. QED BY <2>1, <2>2
  <1>. QED BY <1>2 DEF TasksInv

\* Somebody else's trust: the row is as it was, or he lost it.
LEMMA OtherTrusts ==
    ASSUME NEW p, NEW q, NEW row, NEW new, NEW s,
           Trust(p, row, s), Same(q, p), q.fresh => p.fresh,
           new = row \/ (~q.fresh /\ ~Holds(new, s))
    PROVE  Trust(q, new, s)
  BY DEF Trust, Same

\* A transaction of r on t, which has the row now or takes nobody's.
LEMMA TrustStep ==
    ASSUME TypeInv, TrustInv, NEW r \in Runners, NEW t \in Tasks,
           NEW next \in Runner, PlacedAt(next), Moved(t, r, next), NEW new \in Task,
           task' = [task EXCEPT ![t] = new],
           next.at \notin {"idle", "dead"} => next.task = t /\ Trust(next, new, r),
           \A s \in Runners \ {r} : ~Holds(new, s)
    PROVE  TrustInv'
  <1>1. task \in [Tasks -> Task] /\ Placed BY DEF TypeInv, TypeOK
  <1>2. /\ run'[r] = next
        /\ \A s \in Runners : s # r =>
             /\ Same(run'[s], run[s])
             /\ run'[s].fresh => run[s].fresh /\ run[s].task # t
    BY MovedRun DEF TypeInv
  <1>3. ASSUME NEW s \in Runners, run'[s].at \notin {"idle", "dead"}
        PROVE  Trust(run'[s], task'[run'[s].task], s)
    <2>1. CASE s = r BY <1>1, <1>2, <1>3, <2>1
    <2>2. CASE s # r
      <3>1. Same(run'[s], run[s]) /\ (run'[s].fresh => run[s].fresh /\ run[s].task # t)
        BY <1>2, <2>2
      <3>2. run[s].at \notin {"idle", "dead"} /\ run'[s].task = run[s].task
        BY <1>3, <3>1 DEF Same
      <3>3. run[s].task \in Tasks BY <1>1, <3>2 DEF Placed, PlacedAt
      <3>4. Trust(run[s], task[run[s].task], s) BY <3>2 DEF TrustInv
      <3>5. CASE run[s].task # t
        <4>1. task'[run[s].task] = task[run[s].task] BY <1>1, <3>3, <3>5
        <4>. QED BY <3>1, <3>2, <3>4, <4>1, OtherTrusts
      <3>6. CASE run[s].task = t
        <4>1. task'[run[s].task] = new BY <1>1, <3>3, <3>6
        <4>2. ~run'[s].fresh /\ ~Holds(new, s) BY <2>2, <3>1, <3>6
        <4>. QED BY <3>1, <3>2, <3>4, <4>1, <4>2, OtherTrusts
      <3>. QED BY <3>5, <3>6
    <2>. QED BY <2>1, <2>2
  <1>. QED BY <1>3 DEF TrustInv

\* A control: nobody holds the row.
LEMMA TrustFence ==
    ASSUME TypeInv, TrustInv, NEW t \in Tasks, run' = Stale(t, None), NEW new \in Task,
           task' = [task EXCEPT ![t] = new], ~new.live
    PROVE  TrustInv'
  <1>1. task \in [Tasks -> Task] /\ Placed BY DEF TypeInv, TypeOK
  <1>2. ASSUME NEW s \in Runners, run'[s].at \notin {"idle", "dead"}
        PROVE  Trust(run'[s], task'[run'[s].task], s)
    <2>1. Same(run'[s], run[s]) /\ (run'[s].fresh => run[s].fresh /\ run[s].task # t)
      BY FencedRun DEF TypeInv
    <2>2. run[s].at \notin {"idle", "dead"} /\ run'[s].task = run[s].task
      BY <1>2, <2>1 DEF Same
    <2>3. run[s].task \in Tasks BY <1>1, <2>2 DEF Placed, PlacedAt
    <2>4. Trust(run[s], task[run[s].task], s) BY <2>2 DEF TrustInv
    <2>5. CASE run[s].task # t
      <3>1. task'[run[s].task] = task[run[s].task] BY <1>1, <2>3, <2>5
      <3>. QED BY <2>1, <2>2, <2>4, <3>1, OtherTrusts
    <2>6. CASE run[s].task = t
      <3>1. task'[run[s].task] = new BY <1>1, <2>3, <2>6
      <3>2. ~run'[s].fresh /\ ~Holds(new, s) BY <2>1, <2>6 DEF Holds
      <3>. QED BY <2>1, <2>2, <2>4, <3>1, <3>2, OtherTrusts
    <2>. QED BY <2>5, <2>6
  <1>. QED BY <1>2 DEF TrustInv

-----------------------------------------------------------------------------
(* The kinds of steps *)

\* A step of r alone.
LEMMA AloneStep ==
    ASSUME IInv, NEW r \in Runners, NEW next \in Runner, PlacedAt(next),
           run' = [run EXCEPT ![r] = next], UNCHANGED <<task, bound, research, sent>>,
           next.at \notin {"started", "sent"},
           next.at \notin {"idle", "dead"} => Trust(next, task[next.task], r)
    PROVE  IInv'
  <1>1. TypeOK /\ Placed /\ Rows BY DEF IInv, TypeInv
  <1>2. /\ run' \in [Runners -> Runner] /\ Placed' /\ run'[r] = next
        /\ \A s \in Runners : s # r => run'[s] = run[s]
    BY <1>1, StepRun
  <1>3. UNCHANGED <<effect, action, receipt, closed>> BY DEF research
  <1>4. TypeInv' BY <1>1, <1>2, <1>3 DEF TypeInv, TypeOK, Rows
  <1>5. NoNewSender BY <1>2 DEF NoNewSender, Sends, Same
  <1>6. LifeInv' BY <1>5, AsideKeepsLife DEF IInv
  <1>7. TrustInv'
    <2>1. ASSUME NEW s \in Runners, run'[s].at \notin {"idle", "dead"}
          PROVE  Trust(run'[s], task[run'[s].task], s)
      <3>1. CASE s = r BY <1>2, <2>1, <3>1
      <3>2. CASE s # r BY <1>2, <2>1, <3>2 DEF IInv, TrustInv
      <3>. QED BY <3>1, <3>2
    <2>. QED BY <2>1 DEF TrustInv
  <1>8. TasksInv'
    <2>1. \A t \in Tasks : Unresolved(t)' = Unresolved(t)
      BY <1>3 DEF Unresolved, OpsOf
    <2>2. \A t \in Tasks : \A a : Succeeded(t, a)' = Succeeded(t, a)
      BY <1>3 DEF Succeeded, OpsOf
    <2>. QED BY <2>1, <2>2 DEF IInv, TasksInv, TaskInv, SettledRow
  <1>. QED BY <1>4, <1>6, <1>7, <1>8 DEF IInv

\* What recover_in_flight and the controls may do to the effects.
Fences == \A o \in Ops :
    \/ effect'[o] = effect[o]
    \/ effect[o] = "in_flight" /\ effect'[o] = "unknown"
    \/ effect[o] = "reserved" /\ effect'[o] = "failed"
Effects == {"none", "reserved", "in_flight", "unknown", "succeeded", "failed"}

LEMMA FencesType ==
    ASSUME TypeOK, Fences, DOMAIN effect' = Ops, effect' = [o \in Ops |-> effect'[o]]
    PROVE  effect' \in [Ops -> Effects]
  <1>1. effect \in [Ops -> Effects] BY DEF TypeOK, Effects
  <1>2. ASSUME NEW o \in Ops PROVE effect'[o] \in Effects BY <1>1 DEF Fences, Effects
  <1>. QED BY <1>2

\* A transaction of r on t that changes its row, and of effects only what
\* recover_in_flight does.
LEMMA RowStep ==
    ASSUME IInv, NEW r \in Runners, NEW t \in Tasks, NEW new \in Task, RowInv(new),
           NEW next \in Runner, PlacedAt(next), Moved(t, r, next),
           task' = [task EXCEPT ![t] = new],
           UNCHANGED <<action, receipt, closed, sent>>, bound' \subseteq Ops,
           effect' \in [Ops -> Effects], Fences,
           next.at \notin {"started", "sent"},
           next.at \notin {"idle", "dead"} => next.task = t /\ Trust(next, new, r),
           \A s \in Runners \ {r} : ~Holds(new, s),
           Calm(new) \/ TaskInv(new, t)
    PROVE  IInv'
  <1>1. TypeInv /\ TypeOK /\ Placed /\ Rows /\ LifeInv /\ TrustInv /\ TasksInv
    BY DEF IInv, TypeInv
  <1>2. /\ run' \in [Runners -> Runner] /\ Placed' /\ run'[r] = next
        /\ \A s \in Runners : s # r => Same(run'[s], run[s])
    BY <1>1, MovedRun
  <1>3. task \in [Tasks -> Task] BY <1>1 DEF TypeOK
  <1>4. TypeOK' BY <1>1, <1>2, <1>3 DEF TypeOK, Effects
  <1>5. Rows' BY <1>1, <1>3 DEF Rows
  <1>6. NoNewSender BY <1>2 DEF NoNewSender, Sends, Same
  <1>7. LifeInv' BY <1>1, <1>6, FencesKeepLife DEF Fences
  <1>8. TrustInv' BY <1>1, TrustStep
  <1>9. \A u \in Tasks : EffectsStay(u) BY FencesStay DEF Fences
  <1>10. TasksInv' BY <1>1, <1>9, TasksStep
  <1>. QED BY <1>2, <1>4, <1>5, <1>7, <1>8, <1>10 DEF IInv, TypeInv

\* The same, of a transaction that leaves the effects alone.
LEMMA PlainRowStep ==
    ASSUME IInv, NEW r \in Runners, NEW t \in Tasks, NEW new \in Task, RowInv(new),
           NEW next \in Runner, PlacedAt(next), Moved(t, r, next),
           task' = [task EXCEPT ![t] = new],
           UNCHANGED <<research, sent>>, bound' \subseteq Ops,
           next.at \notin {"started", "sent"},
           next.at \notin {"idle", "dead"} => next.task = t /\ Trust(next, new, r),
           \A s \in Runners \ {r} : ~Holds(new, s),
           Calm(new) \/ TaskInv(new, t)
    PROVE  IInv'
  <1>1. UNCHANGED <<effect, action, receipt, closed>> BY DEF research
  <1>2. effect' \in [Ops -> Effects] BY <1>1 DEF IInv, TypeInv, TypeOK, Effects
  <1>3. Fences BY <1>1 DEF Fences
  <1>4. UNCHANGED <<action, receipt, closed, sent>> BY <1>1
  <1>. QED BY <1>2, <1>3, <1>4, RowStep

\* A control on t.
LEMMA FenceStep ==
    ASSUME IInv, NEW t \in Tasks, NEW new \in Task, RowInv(new), ~new.live,
           run' = Stale(t, None), task' = [task EXCEPT ![t] = new],
           UNCHANGED <<action, receipt, closed, sent>>, bound' \subseteq Ops,
           effect' \in [Ops -> Effects], Fences,
           Calm(new) \/ TaskInv(new, t)
    PROVE  IInv'
  <1>1. TypeInv /\ TypeOK /\ Placed /\ Rows /\ LifeInv /\ TrustInv /\ TasksInv
    BY DEF IInv, TypeInv
  <1>2. /\ run' \in [Runners -> Runner] /\ Placed'
        /\ \A s \in Runners : Same(run'[s], run[s])
    BY <1>1, FencedRun
  <1>3. task \in [Tasks -> Task] BY <1>1 DEF TypeOK
  <1>4. TypeOK' BY <1>1, <1>2, <1>3 DEF TypeOK, Effects
  <1>5. Rows' BY <1>1, <1>3 DEF Rows
  <1>6. NoNewSender BY <1>2 DEF NoNewSender, Sends, Same
  <1>7. LifeInv' BY <1>1, <1>6, FencesKeepLife DEF Fences
  <1>8. TrustInv' BY <1>1, TrustFence
  <1>9. \A u \in Tasks : EffectsStay(u) BY FencesStay DEF Fences
  <1>10. TasksInv' BY <1>1, <1>9, TasksStep
  <1>. QED BY <1>2, <1>4, <1>5, <1>7, <1>8, <1>10 DEF IInv, TypeInv

-----------------------------------------------------------------------------
(* Steps of a process alone *)

\* The rows and the processes of an action.
LEMMA RowOf ==
    ASSUME IInv, NEW t \in Tasks
    PROVE  task[t] \in Task /\ RowInv(task[t]) /\ TaskInv(task[t], t)
  BY DEF IInv, TypeInv, TypeOK, Rows, TasksInv
LEMMA RunOf ==
    ASSUME IInv, NEW r \in Runners
    PROVE  /\ run[r] \in Runner /\ PlacedAt(run[r])
           /\ run[r].at \notin {"idle", "dead"} =>
                run[r].task \in Tasks /\ Trust(run[r], task[run[r].task], r)
  BY DEF IInv, TypeInv, TypeOK, Placed, PlacedAt, TrustInv

\* A process that begins with t trusts nothing yet.
LEMMA ClaimedRunner ==
    ASSUME NEW t \in Tasks, NEW row, NEW r
    PROVE  LET next == [Idle EXCEPT !.at = "claimed", !.task = t] IN
           /\ next \in Runner /\ PlacedAt(next) /\ Trust(next, row, r)
           /\ next.at = "claimed" /\ next.task = t
  <1> DEFINE next == [Idle EXCEPT !.at = "claimed", !.task = t]
  <1>1. Idle \in Runner /\ ~Idle.fresh BY IdleRunner
  <1>2. next \in Runner BY <1>1 DEF Runner, Stages
  <1>3. next.at = "claimed" /\ next.task = t /\ ~next.fresh BY <1>1 DEF Runner
  <1> HIDE DEF next
  <1>4. PlacedAt(next) /\ Trust(next, row, r)
    BY <1>2, <1>3 DEF PlacedAt, Trust, Working, Calling
  <1>. QED BY <1>2, <1>3, <1>4 DEF next

LEMMA Reenters == ASSUME IInv, NEW r \in Runners, NEW t \in Tasks, Reenter(r, t) PROVE IInv'
  <1> DEFINE next == [Idle EXCEPT !.at = "claimed", !.task = t]
  <1>1. /\ next \in Runner /\ PlacedAt(next) /\ Trust(next, task[t], r)
        /\ next.at = "claimed" /\ next.task = t
    BY ClaimedRunner
  <1>2. run' = [run EXCEPT ![r] = next] /\ UNCHANGED <<task, bound, research, sent>>
    BY DEF Reenter
  <1> HIDE DEF next
  <1>. QED BY <1>1, <1>2, AloneStep

LEMMA GivesUp == ASSUME IInv, NEW r \in Runners, GiveUp(r) PROVE IInv'
  <1>1. run' = [run EXCEPT ![r] = Idle] /\ UNCHANGED <<task, bound, research, sent>>
    BY DEF GiveUp
  <1>. QED BY <1>1, AloneStep, IdleRunner

LEMMA Restarts == ASSUME IInv, NEW r \in Runners, Restart(r) PROVE IInv'
  <1>1. run' = [run EXCEPT ![r] = Idle] /\ UNCHANGED <<task, bound, research, sent>>
    BY DEF Restart
  <1>. QED BY <1>1, AloneStep, IdleRunner

LEMMA Crashes == ASSUME IInv, NEW r \in Runners, Crash(r) PROVE IInv'
  <1> DEFINE next == [Idle EXCEPT !.at = "dead"]
  <1>1. Idle \in Runner /\ ~Idle.fresh BY IdleRunner
  <1>2. next \in Runner /\ PlacedAt(next) /\ next.at = "dead"
    BY <1>1 DEF Runner, PlacedAt, Working, Calling, Stages
  <1>3. run' = [run EXCEPT ![r] = next] /\ UNCHANGED <<task, bound, research, sent>>
    BY DEF Crash
  <1> HIDE DEF next
  <1>. QED BY <1>2, <1>3, AloneStep

\* The synthesis is found in a task that runs: nobody paused or cancelled it.
LEMMA Prepares == ASSUME IInv, NEW r \in Runners, Prepared(r) PROVE IInv'
  <1> DEFINE next == [run[r] EXCEPT !.at = "prepared"]
             t == run[r].task
  <1>1. run[r] \in Runner /\ PlacedAt(run[r]) /\ t \in Tasks BY RunOf DEF Prepared
  <1>2. run[r].at = "owner" /\ ~run[r].fresh
    BY <1>1 DEF Prepared, PlacedAt, Working, Calling
  <1>3. /\ next \in Runner /\ PlacedAt(next) /\ next.at = "prepared"
        /\ next.task = t /\ ~next.fresh
    BY <1>1, <1>2 DEF Runner, Stages, PlacedAt, Working, Calling
  <1>4. task[t].active # "blocked" /\ ~task[t].cancelled
    BY <1>1, RowOf DEF Prepared, RowInv, TaskInv
  <1>5. run' = [run EXCEPT ![r] = next] /\ UNCHANGED <<task, bound, research, sent>>
    BY DEF Prepared
  <1> HIDE DEF next
  <1>6. Trust(next, task[t], r) BY <1>3, <1>4 DEF Trust
  <1>. QED BY <1>3, <1>5, <1>6, AloneStep

\* The second read takes the version; what the first one saw still holds under
\* the same lease.
LEMMA BuildsContext == ASSUME IInv, NEW r \in Runners, BuildContext(r) PROVE IInv'
  <1> DEFINE t == run[r].task
             next(at) == [run[r] EXCEPT !.at = at, !.attempt = task[t].attempt, !.fresh = TRUE]
  <1>1. /\ run[r] \in Runner /\ PlacedAt(run[r]) /\ t \in Tasks
        /\ Trust(run[r], task[t], r) /\ run[r].at = "prepared"
    BY RunOf DEF BuildContext
  <1>2. task[t].attempt \in Attempts
    BY <1>1, RowOf, BoundAssumption DEF BuildContext, Active, RowInv, Task, Attempts
  <1>3. ASSUME NEW at \in {"ready", "final"},
               at = "ready" => task[t].final = "none",
               at = "final" => task[t].final # "none"
        PROVE  /\ next(at) \in Runner /\ PlacedAt(next(at)) /\ next(at).at = at
               /\ next(at).task = t /\ Trust(next(at), task[t], r)
    <2> DEFINE a == task[t].attempt
               new == next(at)
    <2>1. a \in 0..MaxAttempts /\ a \in Attempts BY <1>2 DEF Attempts
    <2>2. a = task[t].attempt OBVIOUS
    <2>3. new = [run[r] EXCEPT !.at = at, !.attempt = a, !.fresh = TRUE] OBVIOUS
    <2> HIDE DEF a, new
    <2>4. /\ new \in Runner /\ new.at = at /\ new.task = t /\ new.attempt = a /\ new.fresh
          /\ new.n = run[r].n
      BY <1>1, <1>3, <2>1, <2>3 DEF Runner, Stages
    <2>5. PlacedAt(new)
      BY <1>1, <1>3, <2>1, <2>4 DEF PlacedAt, Working, Calling
    <2>6. Trust(new, task[t], r)
      BY <1>1, <1>3, <2>2, <2>4 DEF Trust, Working, Calling
    <2>. QED BY <2>4, <2>5, <2>6 DEF new
  <1>4. /\ UNCHANGED <<task, bound, research, sent>>
        /\ \E at \in {"ready", "final"} :
             /\ run' = [run EXCEPT ![r] = next(at)]
             /\ at = "ready" => task[t].final = "none"
             /\ at = "final" => task[t].final # "none"
    BY DEF BuildContext
  <1>5. PICK at \in {"ready", "final"} :
             /\ run' = [run EXCEPT ![r] = next(at)]
             /\ at = "ready" => task[t].final = "none"
             /\ at = "final" => task[t].final # "none"
    BY <1>4
  <1>6. /\ next(at) \in Runner /\ PlacedAt(next(at)) /\ next(at).at = at
        /\ next(at).task = t /\ Trust(next(at), task[t], r)
    BY <1>3, <1>5
  <1> HIDE DEF next
  <1>. QED BY <1>4, <1>5, <1>6, AloneStep

LEMMA SkipsCall == ASSUME IInv, NEW r \in Runners, SkipCall(r) PROVE IInv'
  <1> DEFINE next == NextCall(r)
             t == run[r].task
  <1>1. TypeOK /\ Placed BY DEF IInv, TypeInv
  <1>2. run[r].at \in Calling /\ run[r].n <= MaxOps BY DEF SkipCall, Calling
  <1>3. t \in Tasks /\ Trust(run[r], task[t], r) BY <1>2, RunOf DEF Calling
  <1>4. /\ next \in Runner /\ PlacedAt(next) /\ next.at = "ready"
        /\ next.task = t /\ next.attempt = run[r].attempt /\ next.fresh = run[r].fresh
    BY <1>1, <1>2, NextCallRunner
  <1>5. run' = [run EXCEPT ![r] = next] /\ UNCHANGED <<task, bound, research, sent>>
    BY DEF SkipCall
  <1> HIDE DEF next
  <1>6. Trust(next, task[t], r) BY <1>2, <1>3, <1>4 DEF Trust, Calling
  <1>. QED BY <1>4, <1>5, <1>6, AloneStep

LEMMA ReusesReservation ==
    ASSUME IInv, NEW r \in Runners, ReuseReservation(r) PROVE IInv'
  <1> DEFINE next == [run[r] EXCEPT !.at = "reserved"]
             t == run[r].task
  <1>1. run[r] \in Runner /\ PlacedAt(run[r]) /\ run[r].at = "ready" /\ run[r].n <= MaxOps
    BY RunOf DEF ReuseReservation, MayCall
  <1>2. t \in Tasks /\ Trust(run[r], task[t], r) BY <1>1, RunOf
  <1>3. /\ next \in Runner /\ PlacedAt(next) /\ next.at = "reserved"
        /\ next.task = t /\ next.attempt = run[r].attempt /\ next.fresh = run[r].fresh
    BY <1>1 DEF Runner, Stages, PlacedAt, Working, Calling
  <1>4. run' = [run EXCEPT ![r] = next] /\ UNCHANGED <<task, bound, research, sent>>
    BY DEF ReuseReservation
  <1> HIDE DEF next
  <1>5. Trust(next, task[t], r) BY <1>1, <1>2, <1>3 DEF Trust, Calling
  <1>. QED BY <1>3, <1>4, <1>5, AloneStep

-----------------------------------------------------------------------------
(* Ownership and the steps up to the synthesis *)

\* Without the version, and before the synthesis, there is nothing to trust.
LEMMA NothingTrusted ==
    ASSUME NEW p, NEW row, NEW r, ~p.fresh, p.at # "prepared" PROVE Trust(p, row, r)
  BY DEF Trust
LEMMA OneHolds ==
    ASSUME NEW row, NEW r, row.owner = r, NEW s \in Runners \ {r} PROVE ~Holds(row, s)
  BY DEF Holds

LEMMA OwnedRow ==
    ASSUME IInv, NEW r \in Runners, NEW t \in Tasks, TakeOwnership(r, t)
    PROVE  LET new == [task[t] EXCEPT !.owner = r, !.live = TRUE] IN
           /\ new \in Task /\ new.owner = r /\ RowInv(new) /\ TaskInv(new, t)
           /\ task' = [task EXCEPT ![t] = new] /\ UNCHANGED <<research, sent>>
           /\ bound' \subseteq Ops
  <1> DEFINE new == [task[t] EXCEPT !.owner = r, !.live = TRUE]
  <1>1. task[t] \in Task /\ RowInv(task[t]) /\ TaskInv(task[t], t) BY RowOf
  <1>2. /\ new \in Task /\ new.owner = r /\ new.status = task[t].status
        /\ new.attempt = task[t].attempt /\ new.active = task[t].active
        /\ new.checkpoint = task[t].checkpoint /\ new.final = task[t].final
        /\ new.cancelled = task[t].cancelled /\ new.result = task[t].result
    BY <1>1 DEF Task
  <1>3. task \in [Tasks -> Task] /\ bound \subseteq Ops BY DEF IInv, TypeInv, TypeOK
  <1>4. task' = [task EXCEPT ![t] = new]
    BY <1>3 DEF TakeOwnership
  <1>5. UNCHANGED <<research, sent>> /\ bound' \subseteq Ops
    BY <1>3 DEF TakeOwnership, OpsOf
  <1> HIDE DEF new
  <1>6. RowInv(new) /\ TaskInv(new, t) BY <1>1, <1>2 DEF RowInv, TaskInv, SettledRow
  <1>. QED BY <1>2, <1>4, <1>5, <1>6 DEF new

LEMMA Claims == ASSUME IInv, NEW r \in Runners, NEW t \in Tasks, Claim(r, t) PROVE IInv'
  <1> DEFINE new == [task[t] EXCEPT !.owner = r, !.live = TRUE]
             next == [Idle EXCEPT !.at = "claimed", !.task = t]
  <1>1. /\ new \in Task /\ new.owner = r /\ RowInv(new) /\ TaskInv(new, t)
        /\ task' = [task EXCEPT ![t] = new] /\ UNCHANGED <<research, sent>>
        /\ bound' \subseteq Ops
    BY OwnedRow DEF Claim
  <1>2. Moved(t, r, next) BY DEF Claim
  <1> HIDE DEF new
  <1>3. /\ next \in Runner /\ PlacedAt(next) /\ Trust(next, new, r)
        /\ next.at = "claimed" /\ next.task = t
    BY ClaimedRunner
  <1> HIDE DEF next
  <1>4. \A s \in Runners \ {r} : ~Holds(new, s) BY <1>1, OneHolds
  <1>. QED BY <1>1, <1>2, <1>3, <1>4, PlainRowStep

\* A process that owns its task, before it has the version.
LEMMA OwnerRunner ==
    ASSUME IInv, NEW r \in Runners, run[r].at = "owner", NEW row
    PROVE  /\ run[r] \in Runner /\ PlacedAt(run[r]) /\ run[r].task \in Tasks
           /\ ~run[r].fresh /\ Trust(run[r], row, r)
  <1>1. run[r] \in Runner /\ PlacedAt(run[r]) /\ run[r].task \in Tasks BY RunOf
  <1>2. ~run[r].fresh BY <1>1 DEF PlacedAt, Working, Calling
  <1>. QED BY <1>1, <1>2, NothingTrusted

LEMMA TakesOver == ASSUME IInv, NEW r \in Runners, TakeOver(r) PROVE IInv'
  <1> DEFINE t == run[r].task
             new == [task[t] EXCEPT !.owner = r, !.live = TRUE]
  <1>1. run[r].at = "owner" BY DEF TakeOver
  <1>2. run[r] \in Runner /\ PlacedAt(run[r]) /\ t \in Tasks BY <1>1, OwnerRunner
  <1>3. /\ new \in Task /\ new.owner = r /\ RowInv(new) /\ TaskInv(new, t)
        /\ task' = [task EXCEPT ![t] = new] /\ UNCHANGED <<research, sent>>
        /\ bound' \subseteq Ops
    BY <1>2, OwnedRow DEF TakeOver
  <1>4. Moved(t, r, run[r]) BY DEF TakeOver
  <1> HIDE DEF new
  <1>5. Trust(run[r], new, r) BY <1>1, OwnerRunner
  <1>6. \A s \in Runners \ {r} : ~Holds(new, s) BY <1>3, OneHolds
  <1> DEFINE next == run[r]
  <1>7. next.at = "owner" /\ next.task = t BY <1>1
  <1>. QED BY <1>2, <1>3, <1>4, <1>5, <1>6, <1>7, PlainRowStep

\* A new attempt begins with nothing claimed of it.
LEMMA BegunRow ==
    ASSUME IInv, NEW r \in Runners, NEW t \in Tasks, Owns(r, t),
           task[t].status \in {"ready", "running"}, task[t].attempt < MaxAttempts
    PROVE  LET new == NewAttempt(task[t]) IN
           /\ new \in Task /\ RowInv(new) /\ Calm(new)
           /\ \A s \in Runners \ {r} : ~Holds(new, s)
  <1> DEFINE new == NewAttempt(task[t])
  <1>1. task[t] \in Task /\ TaskInv(task[t], t) BY RowOf
  <1>2. ~task[t].cancelled BY <1>1 DEF TaskInv
  <1>3. /\ new \in Task /\ new.attempt = task[t].attempt + 1
        /\ new.status = "running" /\ new.active = "running" /\ new.checkpoint = "none"
        /\ new.owner = task[t].owner /\ new.cancelled = task[t].cancelled
    BY <1>1, NewAttemptRow
  <1> HIDE DEF new
  <1>4. new.attempt # 0 BY <1>1, <1>3, BoundAssumption DEF Task
  <1>5. RowInv(new) /\ Calm(new) BY <1>2, <1>3, <1>4 DEF RowInv, Calm
  <1>6. \A s \in Runners \ {r} : ~Holds(new, s) BY <1>3, OneHolds DEF Owns
  <1>. QED BY <1>3, <1>5, <1>6 DEF new

LEMMA StartsAttempt == ASSUME IInv, NEW r \in Runners, StartAttempt(r) PROVE IInv'
  <1> DEFINE t == run[r].task
             new == NewAttempt(task[t])
             next == run[r]
  <1>1. next.at = "owner" /\ next.task = t BY DEF StartAttempt
  <1>2. next \in Runner /\ PlacedAt(next) /\ t \in Tasks BY <1>1, OwnerRunner
  <1>3. task[t].attempt < MaxAttempts BY BoundAssumption DEF StartAttempt
  <1>4. new \in Task /\ RowInv(new) /\ Calm(new) /\ \A s \in Runners \ {r} : ~Holds(new, s)
    BY <1>2, <1>3, BegunRow DEF StartAttempt
  <1>5. /\ task' = [task EXCEPT ![t] = new] /\ Moved(t, r, next)
        /\ UNCHANGED <<research, sent>> /\ bound' \subseteq Ops
    BY DEF StartAttempt, IInv, TypeInv, TypeOK
  <1> HIDE DEF new
  <1>6. Trust(next, new, r) BY <1>1, OwnerRunner
  <1>. QED BY <1>1, <1>2, <1>4, <1>5, <1>6, PlainRowStep

LEMMA Retries == ASSUME IInv, NEW r \in Runners, NEW t \in Tasks, Retry(r, t) PROVE IInv'
  <1> DEFINE new == NewAttempt(task[t])
  <1>1. new \in Task /\ RowInv(new) /\ Calm(new) /\ \A s \in Runners \ {r} : ~Holds(new, s)
    BY BegunRow DEF Retry
  <1>2. /\ task' = [task EXCEPT ![t] = new] /\ Moved(t, r, Idle)
        /\ UNCHANGED <<research, sent>> /\ bound' \subseteq Ops
    BY DEF Retry, IInv, TypeInv, TypeOK
  <1> HIDE DEF new
  <1>. QED BY <1>1, <1>2, IdleRunner, PlainRowStep

LEMMA StepsInner == ASSUME IInv, NEW r \in Runners, InnerStep(r) PROVE IInv'
  <1> DEFINE t == run[r].task
             next == run[r]
  <1>1. next.at = "owner" /\ next.task = t BY DEF InnerStep
  <1>2. next \in Runner /\ PlacedAt(next) /\ t \in Tasks BY <1>1, OwnerRunner
  <1>3. task[t] \in Task /\ RowInv(task[t]) /\ TaskInv(task[t], t) BY <1>2, RowOf
  <1>4. PICK phase \in {"working", "synthesis"} :
          task' = [task EXCEPT ![t] = Checkpointed(@, phase)]
    BY DEF InnerStep
  <1> DEFINE new == Checkpointed(task[t], phase)
  <1>5. /\ task' = [task EXCEPT ![t] = new] /\ Moved(t, r, next)
        /\ UNCHANGED <<research, sent>> /\ bound' \subseteq Ops
    BY <1>4 DEF InnerStep, IInv, TypeInv, TypeOK
  <1>6. /\ new \in Task /\ new.checkpoint = phase /\ new.status = task[t].status
        /\ new.owner = task[t].owner /\ new.attempt = task[t].attempt
        /\ new.active = task[t].active /\ new.cancelled = task[t].cancelled
        /\ new.result = task[t].result
    BY <1>3, CheckpointedRow DEF Phases
  <1> HIDE DEF new
  <1>7. RowInv(new) /\ TaskInv(new, t) BY <1>3, <1>6 DEF RowInv, TaskInv, SettledRow
  <1>8. \A s \in Runners \ {r} : ~Holds(new, s) BY <1>6, OneHolds DEF InnerStep, Owns
  <1>9. Trust(next, new, r) BY <1>1, OwnerRunner
  <1>. QED BY <1>1, <1>2, <1>5, <1>6, <1>7, <1>8, <1>9, PlainRowStep

\* recover_in_flight: the process goes on, or leaves the task blocked.
LEMMA Recovers == ASSUME IInv, NEW r \in Runners, Recover(r) PROVE IInv'
  <1> DEFINE t == run[r].task
             lost == {o \in OpsOf(t) : effect[o] = "in_flight" /\ o \notin bound}
             next == [run[r] EXCEPT !.at = "owner"]
             new == [task[t] EXCEPT !.status = "blocked"]
  <1>1. run[r].at = "claimed" BY DEF Recover
  <1>2. run[r] \in Runner /\ PlacedAt(run[r]) /\ t \in Tasks BY <1>1, RunOf
  <1>3. /\ task[t] \in Task /\ RowInv(task[t]) /\ TaskInv(task[t], t)
        /\ task \in [Tasks -> Task]
    BY <1>2, RowOf DEF IInv, TypeInv, TypeOK
  <1>4. effect \in [Ops -> Effects] /\ bound \subseteq Ops
    BY DEF IInv, TypeInv, TypeOK, Effects
  <1>5. effect' = [o \in Ops |-> IF o \in lost THEN "unknown" ELSE effect[o]]
    BY DEF Recover
  <1>6. effect' \in [Ops -> Effects] BY <1>4, <1>5 DEF Effects
  <1>7. Fences BY <1>5 DEF Fences
  <1>8. UNCHANGED <<action, receipt, closed, sent>> /\ bound' \subseteq Ops
    BY <1>4 DEF Recover
  <1>9. task[t].status # "terminal" /\ task[t].owner = r BY DEF Recover, Owns
  <1>10. CASE lost = {}
    <2>1. task' = [task EXCEPT ![t] = task[t]] /\ Moved(t, r, next)
      BY <1>3, <1>10 DEF Recover
    <2>2. ~run[r].fresh BY <1>1, <1>2 DEF PlacedAt, Working, Calling
    <2>3. /\ next \in Runner /\ next.at = "owner" /\ next.task = t /\ ~next.fresh
      BY <1>2, <2>2 DEF Runner, Stages
    <2> HIDE DEF next
    <2>4. PlacedAt(next) /\ Trust(next, task[t], r)
      BY <1>2, <2>3, NothingTrusted DEF PlacedAt, Working, Calling
    <2>5. \A s \in Runners \ {r} : ~Holds(task[t], s) BY <1>9, OneHolds
    <2>. QED BY <1>2, <1>3, <1>6, <1>7, <1>8, <2>1, <2>3, <2>4, <2>5, RowStep
  <1>11. CASE lost # {}
    <2>1. task' = [task EXCEPT ![t] = new] /\ Moved(t, r, Idle)
      BY <1>11 DEF Recover
    <2>2. /\ new \in Task /\ new.status = "blocked" /\ new.owner = r
          /\ new.attempt = task[t].attempt /\ new.active = task[t].active
          /\ new.checkpoint = task[t].checkpoint /\ new.final = task[t].final
          /\ new.cancelled = task[t].cancelled
      BY <1>3, <1>9 DEF Task
    <2> HIDE DEF new
    <2>3. RowInv(new) /\ TaskInv(new, t)
      BY <1>3, <1>9, <2>2 DEF RowInv, TaskInv, SettledRow
    <2>4. \A s \in Runners \ {r} : ~Holds(new, s) BY <2>2, OneHolds
    <2>. QED BY <1>2, <1>6, <1>7, <1>8, <2>1, <2>2, <2>3, <2>4, IdleRunner, RowStep
  <1>. QED BY <1>10, <1>11

-----------------------------------------------------------------------------
(* The end of a run *)

LEMMA Ingests == ASSUME IInv, NEW r \in Runners, Ingest(r) PROVE IInv'
  <1> DEFINE t == run[r].task
             next == [run[r] EXCEPT !.at = "ingested"]
             new == Checkpointed(task[t], "complete")
  <1>1. run[r].at = "final" /\ Guard(r) /\ Settled(t, run[r].attempt) BY DEF Ingest
  <1>2. /\ run[r] \in Runner /\ PlacedAt(run[r]) /\ t \in Tasks
        /\ Trust(run[r], task[t], r)
    BY <1>1, RunOf
  <1>3. task[t] \in Task /\ RowInv(task[t]) /\ TaskInv(task[t], t) BY <1>2, RowOf
  <1>4. /\ new \in Task /\ new.checkpoint = "complete" /\ new.status = task[t].status
        /\ new.owner = task[t].owner /\ new.live = task[t].live
        /\ new.attempt = task[t].attempt
        /\ new.active = task[t].active /\ new.final = task[t].final
        /\ new.cancelled = task[t].cancelled /\ new.result = task[t].result
    BY <1>3, CheckpointedRow DEF Phases
  <1>5. /\ next \in Runner /\ next.at = "ingested" /\ next.task = t
        /\ next.attempt = run[r].attempt /\ next.fresh = run[r].fresh
    BY <1>2 DEF Runner, Stages
  <1>6. /\ task' = [task EXCEPT ![t] = new] /\ Moved(t, r, next)
        /\ UNCHANGED <<research, sent>> /\ bound' \subseteq Ops
    BY DEF Ingest, IInv, TypeInv, TypeOK
  <1> HIDE DEF new, next
  <1>7. PlacedAt(next)
    BY <1>1, <1>2, <1>5 DEF PlacedAt, Working, Calling
  <1>8. /\ run[r].fresh /\ task[t].owner = r /\ task[t].live
        /\ task[t].status # "terminal"
    BY <1>1 DEF Guard, Owns
  <1>9. /\ task[t].attempt = run[r].attempt /\ task[t].active # "blocked"
        /\ ~task[t].cancelled /\ task[t].final # "none"
    BY <1>1, <1>2, <1>8 DEF Trust, Holds
  <1>10. RowInv(new) BY <1>3, <1>4 DEF RowInv
  <1>11. TaskInv(new, t)
    BY <1>1, <1>4, <1>8, <1>9 DEF TaskInv, SettledRow, Settled
  <1>12. Trust(next, new, r)
    BY <1>4, <1>5, <1>9 DEF Trust, Holds, Calling
  <1>13. \A s \in Runners \ {r} : ~Holds(new, s) BY <1>4, <1>8, OneHolds
  <1>. QED BY <1>2, <1>4, <1>5, <1>6, <1>7, <1>10, <1>11, <1>12, <1>13, PlainRowStep

\* An attempt ends, with what its complete checkpoint says.
LEMMA EndsWithOutcome ==
    ASSUME IInv, NEW r \in Runners, NEW t \in Tasks, task[t].owner = r,
           task[t].checkpoint = "complete", ~task[t].cancelled, Active(t),
           task' = [task EXCEPT ![t] = Outcome(@)], Moved(t, r, Idle),
           UNCHANGED <<bound, research, sent>>
    PROVE  IInv'
  <1> DEFINE new == Outcome(task[t])
  <1>1. task[t] \in Task /\ RowInv(task[t]) /\ TaskInv(task[t], t) BY RowOf
  <1>2. /\ new \in Task /\ new.active = "terminal"
        /\ new.attempt = task[t].attempt /\ new.checkpoint = task[t].checkpoint
        /\ new.final = task[t].final /\ new.cancelled = task[t].cancelled
        /\ new.owner = task[t].owner
    BY <1>1, OutcomeRow
  <1>3. task' = [task EXCEPT ![t] = new] /\ bound' \subseteq Ops
    BY DEF IInv, TypeInv, TypeOK
  <1> HIDE DEF new
  <1>4. RowInv(new) BY <1>1, <1>2 DEF RowInv, Active
  <1>5. TaskInv(new, t) BY <1>1, <1>2 DEF TaskInv, SettledRow
  <1>6. \A s \in Runners \ {r} : ~Holds(new, s) BY <1>2, OneHolds
  <1>. QED BY <1>2, <1>3, <1>4, <1>5, <1>6, IdleRunner, PlainRowStep

LEMMA Completes == ASSUME IInv, NEW r \in Runners, Complete(r) PROVE IInv'
  <1> DEFINE t == run[r].task
  <1>1. run[r].at = "ingested" /\ Guard(r) BY DEF Complete
  <1>2. t \in Tasks /\ Trust(run[r], task[t], r) BY <1>1, RunOf
  <1>3. /\ run[r].fresh /\ task[t].owner = r /\ task[t].live /\ Active(t)
    BY <1>1 DEF Guard, Owns
  <1>4. task[t].checkpoint = "complete" /\ ~task[t].cancelled
    BY <1>1, <1>2, <1>3 DEF Trust, Holds
  <1>5. /\ task' = [task EXCEPT ![t] = Outcome(@)] /\ Moved(t, r, Idle)
        /\ UNCHANGED <<bound, research, sent>>
    BY DEF Complete
  <1>. QED BY <1>2, <1>3, <1>4, <1>5, EndsWithOutcome

LEMMA CompletesIngested ==
    ASSUME IInv, NEW r \in Runners, CompleteIngested(r) PROVE IInv'
  <1> DEFINE t == run[r].task
  <1>1. /\ run[r].at = "owner" /\ Active(t) /\ task[t].checkpoint = "complete"
        /\ task[t].status # "terminal" /\ task[t].owner = r
    BY DEF CompleteIngested, Owns
  <1>2. t \in Tasks BY <1>1, RunOf
  <1>3. TaskInv(task[t], t) BY <1>2, RowOf
  <1>4. ~task[t].cancelled BY <1>1, <1>3 DEF TaskInv, SettledRow
  <1>5. /\ task' = [task EXCEPT ![t] = Outcome(@)] /\ Moved(t, r, Idle)
        /\ UNCHANGED <<bound, research, sent>>
    BY DEF CompleteIngested
  <1>. QED BY <1>1, <1>2, <1>4, <1>5, EndsWithOutcome

LEMMA ClosesFailure == ASSUME IInv, NEW r \in Runners, CloseFailure(r) PROVE IInv'
  <1> DEFINE t == run[r].task
  <1>1. /\ run[r].at \notin {"idle", "dead"} /\ task[t].status = "running" /\ Active(t)
        /\ task[t].owner = r
    BY DEF CloseFailure, Owns
  <1>2. t \in Tasks BY <1>1, RunOf
  <1>3. task[t] \in Task /\ RowInv(task[t]) /\ TaskInv(task[t], t) BY <1>2, RowOf
  <1>4. ~task[t].cancelled BY <1>1, <1>3 DEF TaskInv
  <1> DEFINE Ends(result, terminal) ==
               task' = [task EXCEPT ![t] = Completed(@, result, terminal)]
  <1>5. \/ Ends("implementation_error", FALSE)
        \/ Ends("unknown", TRUE)
        \/ Ends("provider_error", FALSE)
    <2> DEFINE effects == {o \in OpsOf(t) : o.attempt = task[t].attempt
                                            /\ effect[o] # "none"}
    <2>1. CASE effects = {} BY <2>1 DEF CloseFailure
    <2>2. CASE effects # {} /\ effects \cap Unresolved(t) # {} BY <2>2 DEF CloseFailure
    <2>3. CASE effects # {} /\ effects \cap Unresolved(t) = {} BY <2>3 DEF CloseFailure
    <2>. QED BY <2>1, <2>2, <2>3
  <1>. SUFFICES ASSUME NEW result \in Results, result # "answer",
                       NEW terminal \in BOOLEAN, Ends(result, terminal)
                PROVE  IInv'
    BY <1>5 DEF Results
  <1> DEFINE status == IF terminal THEN "terminal" ELSE "ready"
             new == [task[t] EXCEPT !.active = "terminal", !.result = result,
                                    !.status = status]
  <1>6. status \in {"ready", "terminal"} OBVIOUS
  <1>7. task' = [task EXCEPT ![t] = new] BY DEF Completed
  <1> HIDE DEF status
  <1>8. /\ new \in Task /\ new.active = "terminal" /\ new.result = result
        /\ new.attempt = task[t].attempt /\ new.checkpoint = task[t].checkpoint
        /\ new.final = task[t].final /\ new.cancelled = task[t].cancelled
        /\ new.owner = task[t].owner
    BY <1>3, <1>6 DEF Task
  <1> HIDE DEF new
  <1>9. /\ Moved(t, r, Idle) /\ UNCHANGED <<research, sent>> /\ bound' \subseteq Ops
    BY DEF CloseFailure, IInv, TypeInv, TypeOK
  <1>10. RowInv(new) BY <1>1, <1>3, <1>8 DEF RowInv, Active
  <1>11. TaskInv(new, t) BY <1>3, <1>4, <1>8 DEF TaskInv, SettledRow
  <1>12. \A s \in Runners \ {r} : ~Holds(new, s) BY <1>1, <1>8, OneHolds
  <1>. QED BY <1>2, <1>7, <1>8, <1>9, <1>10, <1>11, <1>12, IdleRunner, PlainRowStep

-----------------------------------------------------------------------------
(* Provider calls *)

\* What _guard tells of a call: the row claims nothing that it could break.
LEMMA GuardedCall ==
    ASSUME IInv, NEW r \in Runners, run[r].at \in Calling, Guard(r)
    PROVE  LET row == task[run[r].task] IN
           /\ run[r] \in Runner /\ PlacedAt(run[r]) /\ run[r].task \in Tasks
           /\ Trust(run[r], row, r) /\ row \in Task /\ RowInv(row) /\ Calm(row)
           /\ row.owner = r /\ row.live /\ row.final = "none" /\ run[r].fresh
           /\ row.active = "running" /\ row.attempt = run[r].attempt
  <1> DEFINE t == run[r].task
  <1>1. run[r].at \notin {"idle", "dead"} BY DEF Calling
  <1>2. /\ run[r] \in Runner /\ PlacedAt(run[r]) /\ t \in Tasks
        /\ Trust(run[r], task[t], r)
    BY <1>1, RunOf
  <1>3. task[t] \in Task /\ RowInv(task[t]) /\ TaskInv(task[t], t) BY <1>2, RowOf
  <1>4. /\ task[t].status # "terminal" /\ run[r].fresh /\ task[t].owner = r
        /\ task[t].live /\ Active(t)
    BY DEF Guard, Owns
  <1>5. /\ task[t].final = "none" /\ ~task[t].cancelled /\ task[t].active # "blocked"
        /\ task[t].attempt = run[r].attempt
    BY <1>2, <1>4 DEF Trust, Holds
  <1>6. task[t].active = "running" BY <1>4, <1>5 DEF Active
  <1>7. Calm(task[t]) BY <1>3, <1>4, <1>5 DEF Calm, TaskInv
  <1>. QED BY <1>2, <1>3, <1>4, <1>5, <1>6, <1>7

OpsType ==
    /\ effect \in [Ops -> Effects] /\ bound \subseteq Ops
    /\ action \in [Ops -> {"none", "succeeded", "failed", "rejected", "unknown"}]
    /\ receipt \in [Ops -> {"none", "budget_rejected", "succeeded", "failed", "unknown"}]
    /\ sent \in [Ops -> Nat] /\ closed \subseteq Ops
LEMMA OpsTyped == IInv => OpsType
  BY DEF IInv, TypeInv, TypeOK, OpsType, Effects

\* A transaction of a guarded call: what it does to the operations is left to
\* the caller.
LEMMA CallStep ==
    ASSUME IInv, NEW r \in Runners, run[r].at \in Calling, Guard(r),
           NEW new \in Task, RowInv(new), Calm(new), new.owner = r, new.final = "none",
           new.attempt = run[r].attempt, new.active # "blocked",
           NEW next \in Runner, PlacedAt(next), Moved(run[r].task, r, next),
           next.task = run[r].task, next.at \in Calling, next.attempt = run[r].attempt,
           task' = [task EXCEPT ![run[r].task] = new],
           \A p \in Ops : p.task # run[r].task => effect'[p] = effect[p]
                                                  /\ action'[p] = action[p],
           OpsType', LifeInv'
    PROVE  IInv'
  <1> DEFINE t == run[r].task
  <1>1. TypeInv /\ TypeOK /\ Placed /\ Rows /\ TrustInv /\ TasksInv
    BY DEF IInv, TypeInv
  <1>2. t \in Tasks BY GuardedCall
  <1>3. run' \in [Runners -> Runner] /\ Placed' BY <1>1, MovedRun
  <1>4. task \in [Tasks -> Task] BY <1>1 DEF TypeOK
  <1>5. TypeOK' BY <1>2, <1>3, <1>4 DEF TypeOK, Effects, OpsType
  <1>6. Rows' BY <1>1, <1>2, <1>4 DEF Rows
  <1>7. Trust(next, new, r) BY DEF Trust, Calm, Calling
  <1>8. \A s \in Runners \ {r} : ~Holds(new, s) BY OneHolds
  <1>9. TrustInv' BY <1>1, <1>2, <1>7, <1>8, TrustStep
  <1>10. \A u \in Tasks \ {t} : EffectsStay(u) BY ElseStay
  <1>11. TasksInv' BY <1>1, <1>2, <1>10, TasksStep
  <1>. QED BY <1>3, <1>5, <1>6, <1>9, <1>11 DEF IInv, TypeInv

LEMMA Reserves == ASSUME IInv, NEW r \in Runners, Reserve(r) PROVE IInv'
  <1> DEFINE t == run[r].task
             next == [run[r] EXCEPT !.at = "reserved"]
  <1>a. Op(r) \in Ops
    BY ReadyOpType DEF Reserve, MayCall, IInv
  <1>. SUFFICES ASSUME NEW o \in Ops, o = Op(r) PROVE IInv'
    BY <1>a
  <1>1. /\ run[r].at = "ready" /\ run[r].n <= MaxOps /\ Guard(r)
        /\ receipt[o] = "none" /\ effect[o] = "none"
    BY DEF Reserve, MayCall
  <1>2. TypeInv /\ LifeInv /\ TypeOK /\ Placed /\ OpsType
    BY OpsTyped DEF IInv, TypeInv
  <1>3. /\ run[r] \in Runner /\ PlacedAt(run[r]) /\ t \in Tasks
        /\ task[t] \in Task /\ RowInv(task[t]) /\ Calm(task[t]) /\ task[t].owner = r
        /\ task[t].final = "none" /\ task[t].active # "blocked"
        /\ task[t].attempt = run[r].attempt
    BY <1>1, GuardedCall DEF Calling
  <1>4. o \in Ops /\ o.task = t BY DEF Op
  <1>5. /\ next \in Runner /\ next.at = "reserved" /\ next.task = t
        /\ next.attempt = run[r].attempt /\ next.n = run[r].n
        /\ next.fresh = run[r].fresh
    BY <1>3 DEF Runner, Stages
  <1>6. /\ effect' = [effect EXCEPT ![o] = "reserved"] /\ bound' = bound \cup {o}
        /\ Moved(t, r, next) /\ UNCHANGED <<task, action, receipt, closed, sent>>
    BY DEF Reserve
  <1> HIDE DEF next
  <1>7. PlacedAt(next) BY <1>1, <1>3, <1>5 DEF PlacedAt, Working, Calling
  <1>8. /\ run'[r] = next
        /\ \A s \in Runners : s # r => Same(run'[s], run[s])
    BY <1>2, <1>5, <1>6, <1>7, MovedRun
  <1>9. NoNewSender BY <1>5, <1>8 DEF NoNewSender, Sends
  <1>10. OpsType' BY <1>2, <1>4, <1>6 DEF OpsType, Effects
  <1>11. effect'[o] = "reserved" /\ \A p \in Ops \ {o} : effect'[p] = effect[p]
    BY <1>2, <1>4, <1>6 DEF OpsType
  <1>12. Told(o) /\ Lived(o) BY <1>2, <1>4 DEF LifeInv, OpsInv
  <1>13. Told(o)' BY <1>1, <1>6, <1>11, <1>12 DEF Told, Lived
  <1>14. Lived(o)' BY <1>1, <1>4, <1>6, <1>11, <1>12 DEF Told, Lived, Charged
  <1>15. ASSUME NEW s \in Runners, Sends(s) PROVE Op(s) # o
    BY <1>1, <1>2, <1>15 DEF LifeInv, SendersInv, SenderInv
  <1>16. LifeInv'
    BY <1>2, <1>4, <1>6, <1>9, <1>11, <1>13, <1>14, <1>15, OneKeepsLife
  <1>17. task' = [task EXCEPT ![t] = task[t]] BY <1>2, <1>6 DEF TypeOK
  <1>18. \A p \in Ops : p.task # t => effect'[p] = effect[p] /\ action'[p] = action[p]
    BY <1>4, <1>6, <1>11
  <1>19. run[r].at \in Calling /\ next.at \in Calling BY <1>1, <1>5 DEF Calling
  <1>. QED BY <1>1, <1>3, <1>5, <1>6, <1>7, <1>10, <1>16, <1>17, <1>18, <1>19, CallStep

\* A refused call leaves a receipt; nobody has sent it.
LEMMA RejectsBudget == ASSUME IInv, NEW r \in Runners, RejectBudget(r) PROVE IInv'
  <1> DEFINE t == run[r].task
             next == NextCall(r)
  <1>a. Op(r) \in Ops
    BY ReadyOpType DEF RejectBudget, MayCall, IInv
  <1>. SUFFICES ASSUME NEW o \in Ops, o = Op(r) PROVE IInv'
    BY <1>a
  <1>1. /\ run[r].at = "ready" /\ run[r].n <= MaxOps /\ Guard(r)
        /\ receipt[o] = "none" /\ effect[o] = "none"
    BY DEF RejectBudget, MayCall
  <1>2. TypeInv /\ LifeInv /\ TypeOK /\ Placed /\ OpsType /\ TrustInv /\ TasksInv /\ Rows
    BY OpsTyped DEF IInv, TypeInv
  <1>3. o \in Ops /\ o.task = t BY DEF Op
  <1>4. /\ next \in Runner /\ PlacedAt(next) /\ next.at = "ready" /\ next.task = t
        /\ next.attempt = run[r].attempt /\ next.fresh = run[r].fresh
    BY <1>1, <1>2, NextCallRunner DEF Calling
  <1>5. /\ receipt' = [receipt EXCEPT ![o] = "budget_rejected"]
        /\ run' = [run EXCEPT ![r] = next]
        /\ UNCHANGED <<task, bound, effect, action, closed, sent>>
    BY DEF RejectBudget
  <1>6. t \in Tasks /\ Trust(run[r], task[t], r) BY <1>1, RunOf
  <1> HIDE DEF next
  <1>7. /\ run' \in [Runners -> Runner] /\ Placed' /\ run'[r] = next
        /\ \A s \in Runners : s # r => run'[s] = run[s]
    BY <1>2, <1>4, <1>5, StepRun
  <1>8. OpsType' BY <1>2, <1>3, <1>5 DEF OpsType
  <1>9. TypeInv' BY <1>2, <1>5, <1>7, <1>8 DEF TypeInv, TypeOK, OpsType, Rows, Effects
  <1>10. NoNewSender BY <1>4, <1>7 DEF NoNewSender, Sends, Same
  <1>11. receipt'[o] = "budget_rejected" /\ \A p \in Ops \ {o} : receipt'[p] = receipt[p]
    BY <1>2, <1>3, <1>5 DEF OpsType
  <1>12. Told(o) /\ Lived(o) BY <1>2, <1>3 DEF LifeInv, OpsInv
  <1>13. Told(o)' /\ Lived(o)' BY <1>1, <1>3, <1>5, <1>11, <1>12 DEF Told, Lived, Charged
  <1>14. ASSUME NEW s \in Runners, Sends(s) PROVE Op(s) # o
    BY <1>1, <1>2, <1>14 DEF LifeInv, SendersInv, SenderInv
  <1>15. LifeInv' BY <1>2, <1>3, <1>5, <1>10, <1>11, <1>13, <1>14, OneKeepsLife
  <1>16. TrustInv'
    <2>1. Trust(next, task[t], r) BY <1>1, <1>4, <1>6 DEF Trust, Calling
    <2>2. ASSUME NEW s \in Runners, run'[s].at \notin {"idle", "dead"}
          PROVE  Trust(run'[s], task[run'[s].task], s)
      <3>1. CASE s = r BY <1>4, <1>7, <2>1, <3>1
      <3>2. CASE s # r BY <1>2, <1>7, <2>2, <3>2 DEF TrustInv
      <3>. QED BY <3>1, <3>2
    <2>. QED BY <1>5, <2>2 DEF TrustInv
  <1>17. TasksInv'
    <2>1. \A u \in Tasks : Unresolved(u)' = Unresolved(u)
      BY <1>5 DEF Unresolved, OpsOf
    <2>2. \A u \in Tasks : \A a : Succeeded(u, a)' = Succeeded(u, a)
      BY <1>5 DEF Succeeded, OpsOf
    <2>. QED BY <1>2, <1>5, <2>1, <2>2 DEF TasksInv, TaskInv, SettledRow
  <1>. QED BY <1>9, <1>15, <1>16, <1>17 DEF IInv

\* A step of the process that dispatches o, or settles it.
LEMMA SenderKeepsLife ==
    ASSUME TypeInv, LifeInv, NEW r \in Runners, NEW o \in Ops,
           \A p \in Ops \ {o} :
             /\ effect'[p] = effect[p] /\ action'[p] = action[p] /\ receipt'[p] = receipt[p]
             /\ sent'[p] = sent[p] /\ (p \in closed' <=> p \in closed),
           Told(o)', Lived(o)',
           \A s \in Runners : s # r => Same(run'[s], run[s]),
           \A s \in Runners : s # r /\ Sends(s) => Op(s) # o,
           Sends(r)' => Op(r)' = o /\ SenderInv(r)'
    PROVE  LifeInv'
  <1>1. ASSUME NEW p \in Ops, p # o PROVE Told(p)' /\ Lived(p)'
    BY <1>1 DEF LifeInv, OpsInv, Told, Lived, Charged
  <1>2. ASSUME NEW s \in Runners, s # r, Sends(s)'
        PROVE  /\ Sends(s) /\ Op(s)' = Op(s) /\ run'[s].at = run[s].at
               /\ Op(s) \in Ops /\ Op(s) # o
    <2>1. Sends(s) /\ Op(s)' = Op(s) /\ run'[s].at = run[s].at
      BY <1>2 DEF Same, Sends, Op
    <2>. QED BY <1>2, <2>1, OpType DEF Sends
  <1>3. ASSUME NEW s \in Runners, Sends(s)' PROVE SenderInv(s)'
    <2>1. CASE s = r BY <1>3, <2>1
    <2>2. CASE s # r
      <3>1. SenderInv(s) BY <1>2, <1>3, <2>2 DEF LifeInv, SendersInv
      <3>. QED BY <1>2, <1>3, <2>2, <3>1 DEF SenderInv
    <2>. QED BY <2>1, <2>2
  <1>4. \A s, q \in Runners : Sends(s)' /\ Sends(q)' /\ Op(s)' = Op(q)' => s = q
    BY <1>2 DEF LifeInv, SendersInv
  <1>. QED BY <1>1, <1>3, <1>4 DEF LifeInv, OpsInv, SendersInv

LEMMA Starts == ASSUME IInv, NEW r \in Runners, Start(r) PROVE IInv'
  <1> DEFINE t == run[r].task
             next == [run[r] EXCEPT !.at = "started"]
  <1>a. Op(r) \in Ops BY OpType DEF Start, IInv
  <1>. SUFFICES ASSUME NEW o \in Ops, o = Op(r) PROVE IInv'
    BY <1>a
  <1>1. run[r].at = "reserved" /\ Guard(r) /\ effect[o] = "reserved" BY DEF Start
  <1>2. TypeInv /\ LifeInv /\ TypeOK /\ Placed /\ OpsType
    BY OpsTyped DEF IInv, TypeInv
  <1>3. /\ run[r] \in Runner /\ PlacedAt(run[r]) /\ t \in Tasks
        /\ task[t] \in Task /\ RowInv(task[t]) /\ Calm(task[t]) /\ task[t].owner = r
        /\ task[t].final = "none" /\ task[t].active # "blocked"
        /\ task[t].attempt = run[r].attempt
    BY <1>1, GuardedCall DEF Calling
  <1>4. o.task = t BY DEF Op
  <1>5. /\ next \in Runner /\ next.at = "started" /\ next.task = t
        /\ next.attempt = run[r].attempt /\ next.n = run[r].n
        /\ next.fresh = run[r].fresh
    BY <1>3 DEF Runner, Stages
  <1>6. /\ effect' = [effect EXCEPT ![o] = "in_flight"]
        /\ Moved(t, r, next) /\ UNCHANGED <<task, bound, action, receipt, closed, sent>>
    BY DEF Start
  <1> HIDE DEF next
  <1>7. PlacedAt(next) BY <1>1, <1>3, <1>5 DEF PlacedAt, Working, Calling
  <1>8. /\ run'[r] = next
        /\ \A s \in Runners : s # r => Same(run'[s], run[s])
    BY <1>2, <1>5, <1>6, <1>7, MovedRun
  <1>9. OpsType' BY <1>2, <1>6 DEF OpsType, Effects
  <1>10. effect'[o] = "in_flight" /\ \A p \in Ops \ {o} : effect'[p] = effect[p]
    BY <1>2, <1>6 DEF OpsType
  <1>11. Told(o) /\ Lived(o) BY <1>2 DEF LifeInv, OpsInv
  <1>12. receipt[o] = "none" /\ action[o] = "none" /\ sent[o] = 0
    BY <1>1, <1>11 DEF Told, Lived
  <1>13. Told(o)' /\ Lived(o)'
    BY <1>1, <1>6, <1>10, <1>11, <1>12 DEF Told, Lived, Charged
  <1>14. \A s \in Runners : s # r /\ Sends(s) => Op(s) # o
    BY <1>1, <1>2 DEF LifeInv, SendersInv, SenderInv
  <1>15. Op(r)' = o BY <1>5, <1>8 DEF Op
  <1>16. SenderInv(r)' BY <1>5, <1>6, <1>8, <1>10, <1>12, <1>15 DEF SenderInv
  <1>17. LifeInv'
    BY <1>2, <1>6, <1>8, <1>10, <1>13, <1>14, <1>15, <1>16, SenderKeepsLife
  <1>18. task' = [task EXCEPT ![t] = task[t]] BY <1>2, <1>6 DEF TypeOK
  <1>19. \A p \in Ops : p.task # t => effect'[p] = effect[p] /\ action'[p] = action[p]
    BY <1>4, <1>6, <1>10
  <1>20. run[r].at \in Calling /\ next.at \in Calling BY <1>1, <1>5 DEF Calling
  <1>. QED BY <1>1, <1>3, <1>5, <1>6, <1>7, <1>9, <1>17, <1>18, <1>19, <1>20, CallStep

\* The request leaves whatever became of the task.
LEMMA SendsRequest == ASSUME IInv, NEW r \in Runners, Send(r) PROVE IInv'
  <1> DEFINE t == run[r].task
             next == [run[r] EXCEPT !.at = "sent"]
  <1>a. Op(r) \in Ops BY OpType DEF Send, IInv
  <1>. SUFFICES ASSUME NEW o \in Ops, o = Op(r) PROVE IInv'
    BY <1>a
  <1>1. run[r].at = "started" BY DEF Send
  <1>2. TypeInv /\ LifeInv /\ TypeOK /\ Placed /\ OpsType /\ TrustInv /\ TasksInv /\ Rows
    BY OpsTyped DEF IInv, TypeInv
  <1>3. /\ run[r] \in Runner /\ PlacedAt(run[r]) /\ t \in Tasks
        /\ Trust(run[r], task[t], r)
    BY <1>1, RunOf
  <1>4. /\ next \in Runner /\ next.at = "sent" /\ next.task = t
        /\ next.attempt = run[r].attempt /\ next.n = run[r].n
        /\ next.fresh = run[r].fresh
    BY <1>3 DEF Runner, Stages
  <1>5. /\ sent' = [sent EXCEPT ![o] = @ + 1] /\ run' = [run EXCEPT ![r] = next]
        /\ UNCHANGED <<task, bound, effect, action, receipt, closed>>
    BY DEF Send, research
  <1> HIDE DEF next
  <1>6. PlacedAt(next) BY <1>1, <1>3, <1>4 DEF PlacedAt, Working, Calling
  <1>7. /\ run' \in [Runners -> Runner] /\ Placed' /\ run'[r] = next
        /\ \A s \in Runners : s # r => run'[s] = run[s]
    BY <1>2, <1>4, <1>5, <1>6, StepRun
  <1>8. SenderInv(r) /\ sent[o] = 0
    BY <1>1, <1>2 DEF LifeInv, SendersInv, Sends, SenderInv
  <1>9. sent'[o] = 1 /\ \A p \in Ops \ {o} : sent'[p] = sent[p]
    BY <1>2, <1>5, <1>8 DEF OpsType
  <1>10. OpsType' BY <1>2, <1>5, <1>8 DEF OpsType
  <1>11. TypeInv' BY <1>2, <1>5, <1>7, <1>10 DEF TypeInv, TypeOK, OpsType, Rows, Effects
  <1>12. Told(o) /\ Lived(o) BY <1>2 DEF LifeInv, OpsInv
  <1>13. Told(o)' BY <1>5, <1>9, <1>12 DEF Told
  <1>14. Lived(o)'
    BY <1>5, <1>8, <1>9, <1>12 DEF Lived, SenderInv, Charged
  <1>15. \A s \in Runners : s # r /\ Sends(s) => Op(s) # o
    BY <1>1, <1>2 DEF LifeInv, SendersInv, Sends
  <1>16. Op(r)' = o BY <1>4, <1>7 DEF Op
  <1>17. SenderInv(r)' BY <1>4, <1>5, <1>7, <1>8, <1>9, <1>16 DEF SenderInv
  <1>18. \A s \in Runners : s # r => Same(run'[s], run[s]) BY <1>7 DEF Same
  <1>19. LifeInv'
    BY <1>2, <1>5, <1>9, <1>13, <1>14, <1>15, <1>16, <1>17, <1>18, SenderKeepsLife
  <1>20. TrustInv'
    <2>1. Trust(next, task[t], r) BY <1>1, <1>3, <1>4 DEF Trust, Calling
    <2>2. ASSUME NEW s \in Runners, run'[s].at \notin {"idle", "dead"}
          PROVE  Trust(run'[s], task[run'[s].task], s)
      <3>1. CASE s = r BY <1>4, <1>7, <2>1, <3>1
      <3>2. CASE s # r BY <1>2, <1>7, <2>2, <3>2 DEF TrustInv
      <3>. QED BY <3>1, <3>2
    <2>. QED BY <1>5, <2>2 DEF TrustInv
  <1>21. TasksInv'
    <2>1. \A u \in Tasks : Unresolved(u)' = Unresolved(u)
      BY <1>5 DEF Unresolved, OpsOf
    <2>2. \A u \in Tasks : \A a : Succeeded(u, a)' = Succeeded(u, a)
      BY <1>5 DEF Succeeded, OpsOf
    <2>. QED BY <1>2, <1>5, <2>1, <2>2 DEF TasksInv, TaskInv, SettledRow
  <1>. QED BY <1>11, <1>19, <1>20, <1>21 DEF IInv

\* A transaction that settles a dispatched call.
LEMMA Settles ==
    ASSUME IInv, NEW r \in Runners, NEW e, NEW a, NEW c, Settle(r, e, a, c),
           \/ run[r].at = "sent" /\ e = "succeeded" /\ a = "succeeded" /\ c = "succeeded"
           \/ run[r].at = "sent" /\ e = "failed" /\ a = "failed" /\ c = "failed"
           \/ run[r].at = "started" /\ e = "failed" /\ a = "rejected" /\ c = "failed"
           \/ Sends(r) /\ e = "unknown" /\ a = "unknown" /\ c = "unknown",
           NEW new \in Task, RowInv(new), Calm(new), new.owner = r, new.final = "none",
           new.attempt = run[r].attempt, new.active # "blocked",
           task' = [task EXCEPT ![run[r].task] = new]
    PROVE  IInv'
  <1> DEFINE t == run[r].task
             next == NextCall(r)
  <1>1. Sends(r) /\ run[r].at \in Calling BY DEF Sends, Calling
  <1>a. Op(r) \in Ops BY <1>1, OpType DEF Sends, IInv
  <1>. SUFFICES ASSUME NEW o \in Ops, o = Op(r) PROVE IInv'
    BY <1>a
  <1>2. TypeInv /\ LifeInv /\ TypeOK /\ Placed /\ OpsType
    BY OpsTyped DEF IInv, TypeInv
  <1>3. /\ effect[o] = "in_flight" /\ Guard(r)
        /\ effect' = [effect EXCEPT ![o] = e] /\ action' = [action EXCEPT ![o] = a]
        /\ receipt' = [receipt EXCEPT ![o] = c] /\ Moved(t, r, next)
        /\ UNCHANGED <<bound, closed, sent>>
    BY DEF Settle, MaySettle, CallEnds
  <1>4. run[r].n <= MaxOps BY <1>1, <1>2 DEF Placed, PlacedAt, Sends
  <1>5. /\ next \in Runner /\ PlacedAt(next) /\ next.at = "ready" /\ next.task = t
        /\ next.attempt = run[r].attempt
    BY <1>1, <1>2, <1>4, NextCallRunner
  <1> HIDE DEF next
  <1>6. o.task = t BY DEF Op
  <1>7. /\ run'[r] = next
        /\ \A s \in Runners : s # r => Same(run'[s], run[s])
    <2>1. Moved(t, r, next) BY <1>3
    <2>2. TypeOK /\ Placed /\ next \in Runner /\ PlacedAt(next) BY <1>2, <1>5
    <2>. QED BY <2>1, <2>2, MovedRun
  <1>8. OpsType' BY <1>2, <1>3 DEF OpsType, Effects
  <1>9. /\ effect'[o] = e /\ action'[o] = a /\ receipt'[o] = c
        /\ \A p \in Ops \ {o} :
             effect'[p] = effect[p] /\ action'[p] = action[p] /\ receipt'[p] = receipt[p]
    BY <1>2, <1>3 DEF OpsType
  <1>10. Told(o) /\ Lived(o) BY <1>2 DEF LifeInv, OpsInv
  <1>11. SenderInv(r) BY <1>1, <1>2 DEF LifeInv, SendersInv
  <1>12. o \notin closed /\ (run[r].at = "started" <=> sent[o] = 0)
    BY <1>3, <1>10, <1>11 DEF Lived, SenderInv
  <1>13. Told(o)' BY <1>3, <1>9, <1>12, <1>1 DEF Told, Sends
  <1>14. Lived(o)' BY <1>3, <1>9, <1>10, <1>12 DEF Lived, Charged
  <1>15. \A s \in Runners : s # r /\ Sends(s) => Op(s) # o
    BY <1>1, <1>2 DEF LifeInv, SendersInv
  <1>16. ~Sends(r)' BY <1>5, <1>7 DEF Sends
  <1>17. LifeInv'
    BY <1>2, <1>3, <1>7, <1>9, <1>13, <1>14, <1>15, <1>16, SenderKeepsLife
  <1>18. \A p \in Ops : p.task # t => effect'[p] = effect[p] /\ action'[p] = action[p]
    BY <1>6, <1>9
  <1>19. next.at \in Calling BY <1>5 DEF Calling
  <1>. QED BY <1>1, <1>3, <1>5, <1>8, <1>17, <1>18, <1>19, CallStep

LEMMA Finishes == ASSUME IInv, NEW r \in Runners, Finish(r) PROVE IInv'
  <1> DEFINE t == run[r].task
  <1>1. PICK out \in {"succeeded", "failed"} : Settle(r, out, out, out) BY DEF Finish
  <1>2. run[r].at = "sent" /\ Guard(r) BY <1>1 DEF Finish, Settle, MaySettle
  <1>3. /\ t \in Tasks /\ task[t] \in Task /\ RowInv(task[t]) /\ Calm(task[t])
        /\ task[t].owner = r /\ task[t].final = "none" /\ task[t].active # "blocked"
        /\ task[t].attempt = run[r].attempt
    BY <1>2, GuardedCall DEF Calling
  <1>4. task' = [task EXCEPT ![t] = task[t]]
    BY DEF Finish, IInv, TypeInv, TypeOK
  <1>. QED BY <1>1, <1>2, <1>3, <1>4, Settles

LEMMA RejectsIdentity == ASSUME IInv, NEW r \in Runners, RejectIdentity(r) PROVE IInv'
  <1> DEFINE t == run[r].task
  <1>1. run[r].at = "started" /\ Settle(r, "failed", "rejected", "failed")
    BY DEF RejectIdentity
  <1>2. Guard(r) BY <1>1 DEF Settle, MaySettle
  <1>3. /\ t \in Tasks /\ task[t] \in Task /\ RowInv(task[t]) /\ Calm(task[t])
        /\ task[t].owner = r /\ task[t].final = "none" /\ task[t].active # "blocked"
        /\ task[t].attempt = run[r].attempt
    BY <1>1, <1>2, GuardedCall DEF Calling
  <1>4. task' = [task EXCEPT ![t] = task[t]]
    BY DEF RejectIdentity, IInv, TypeInv, TypeOK
  <1>. QED BY <1>1, <1>3, <1>4, Settles

LEMMA MarksUnknown == ASSUME IInv, NEW r \in Runners, MarkUnknown(r) PROVE IInv'
  <1> DEFINE t == run[r].task
             new == [task[t] EXCEPT !.status = "blocked"]
  <1>1. Sends(r) /\ Settle(r, "unknown", "unknown", "unknown")
    BY DEF MarkUnknown, Sends
  <1>2. Guard(r) /\ run[r].at \in Calling
    BY <1>1 DEF Settle, MaySettle, Sends, Calling
  <1>3. /\ t \in Tasks /\ task[t] \in Task /\ RowInv(task[t]) /\ Calm(task[t])
        /\ task[t].owner = r /\ task[t].final = "none" /\ task[t].active # "blocked"
        /\ task[t].attempt = run[r].attempt
    BY <1>2, GuardedCall
  <1>4. task' = [task EXCEPT ![t] = new]
    BY DEF MarkUnknown, IInv, TypeInv, TypeOK
  <1>5. /\ new \in Task /\ new.status = "blocked" /\ new.owner = r /\ new.final = "none"
        /\ new.active = task[t].active /\ new.attempt = task[t].attempt
        /\ new.checkpoint = task[t].checkpoint /\ new.cancelled = task[t].cancelled
    BY <1>3 DEF Task
  <1> HIDE DEF new
  <1>6. RowInv(new) /\ Calm(new) BY <1>3, <1>5 DEF RowInv, Calm
  <1>. QED BY <1>1, <1>3, <1>4, <1>5, <1>6, Settles

\* The finalized response: a receipt that raises no version.
LEMMA Finalizes == ASSUME IInv, NEW r \in Runners, Finalize(r) PROVE IInv'
  <1> DEFINE t == run[r].task
             next == [run[r] EXCEPT !.at = "final"]
  <1>1. run[r].at = "ready" /\ run[r].fresh /\ Owns(r, t) BY DEF Finalize
  <1>2. TypeInv /\ LifeInv /\ TypeOK /\ Placed /\ TrustInv /\ TasksInv /\ Rows
    BY DEF IInv, TypeInv
  <1>3. /\ run[r] \in Runner /\ PlacedAt(run[r]) /\ t \in Tasks
        /\ Trust(run[r], task[t], r)
    BY <1>1, RunOf
  <1>4. task[t] \in Task /\ RowInv(task[t]) /\ TaskInv(task[t], t) BY <1>3, RowOf
  <1>5. PICK out \in {"answer", "failed"} : task' = [task EXCEPT ![t].final = out]
    BY DEF Finalize
  <1> DEFINE new == [task[t] EXCEPT !.final = out]
  <1>6. /\ task' = [task EXCEPT ![t] = new] /\ run' = [run EXCEPT ![r] = next]
        /\ UNCHANGED <<bound, research, sent>>
    BY <1>2, <1>3, <1>5 DEF Finalize, TypeOK
  <1>7. /\ new \in Task /\ new.final = out /\ new.status = task[t].status
        /\ new.attempt = task[t].attempt /\ new.active = task[t].active
        /\ new.checkpoint = task[t].checkpoint /\ new.cancelled = task[t].cancelled
        /\ new.result = task[t].result /\ new.owner = r /\ new.live
    BY <1>1, <1>4 DEF Task, Owns
  <1>8. /\ next \in Runner /\ next.at = "final" /\ next.task = t
        /\ next.attempt = run[r].attempt /\ next.fresh
    BY <1>1, <1>3 DEF Runner, Stages
  <1> HIDE DEF new, next
  <1>9. PlacedAt(next) BY <1>1, <1>3, <1>8 DEF PlacedAt, Working, Calling
  <1>10. /\ run' \in [Runners -> Runner] /\ Placed' /\ run'[r] = next
         /\ \A s \in Runners : s # r => run'[s] = run[s]
    BY <1>2, <1>6, <1>8, <1>9, StepRun
  <1>11. RowInv(new) BY <1>4, <1>7 DEF RowInv
  <1>12. UNCHANGED <<effect, action, receipt, closed, sent, bound>> BY <1>6 DEF research
  <1>13. TypeOK' BY <1>2, <1>3, <1>6, <1>7, <1>10, <1>12 DEF TypeOK
  <1>14. Rows' BY <1>2, <1>3, <1>6, <1>11 DEF Rows, TypeOK
  <1>15. NoNewSender BY <1>8, <1>10 DEF NoNewSender, Sends, Same
  <1>16. LifeInv' BY <1>2, <1>6, <1>15, AsideKeepsLife
  <1>17. TrustInv'
    <2>1. Trust(next, new, r) BY <1>1, <1>3, <1>7, <1>8 DEF Trust, Holds, Owns, Calling
    <2>2. ASSUME NEW s \in Runners, run'[s].at \notin {"idle", "dead"}
          PROVE  Trust(run'[s], task'[run'[s].task], s)
      <3>1. CASE s = r BY <1>2, <1>3, <1>6, <1>8, <1>10, <2>1, <3>1 DEF TypeOK
      <3>2. CASE s # r
        <4>1. run'[s] = run[s] /\ run[s].task \in Tasks /\ Trust(run[s], task[run[s].task], s)
          BY <1>2, <1>10, <2>2, <3>2 DEF TrustInv, Placed, PlacedAt
        <4>2. CASE run[s].task # t BY <1>2, <1>6, <4>1, <4>2 DEF TypeOK
        <4>3. CASE run[s].task = t
          <5>1. task'[run[s].task] = new BY <1>2, <1>6, <4>1, <4>3 DEF TypeOK
          <5>2. ~Holds(new, s) BY <1>7, <3>2 DEF Holds
          <5>3. Trust(run[s], new, s) BY <1>7, <4>1, <4>3, <5>2 DEF Trust
          <5>. QED BY <4>1, <5>1, <5>3
        <4>. QED BY <4>2, <4>3
      <3>. QED BY <3>1, <3>2
    <2>. QED BY <2>2 DEF TrustInv
  <1>18. TasksInv'
    <2>1. Fences BY <1>12 DEF Fences
    <2>2. \A u \in Tasks : EffectsStay(u) BY <1>12, <2>1, FencesStay DEF Fences
    <2>3. TaskInv(new, t) BY <1>4, <1>7 DEF TaskInv, SettledRow
    <2>. QED BY <1>2, <1>3, <1>6, <1>7, <2>2, <2>3, TasksStep
  <1>. QED BY <1>10, <1>13, <1>14, <1>16, <1>17, <1>18 DEF IInv, TypeInv

-----------------------------------------------------------------------------
(* The lease, and what a person does *)

LEMMA Expires == ASSUME IInv, NEW t \in Tasks, Expire(t) PROVE IInv'
  <1> DEFINE new == [task[t] EXCEPT !.live = FALSE]
  <1>1. TypeInv /\ LifeInv /\ TypeOK /\ Placed /\ TrustInv /\ TasksInv /\ Rows
    BY DEF IInv, TypeInv
  <1>2. task[t] \in Task /\ RowInv(task[t]) /\ TaskInv(task[t], t) BY RowOf
  <1>3. task' = [task EXCEPT ![t] = new] /\ UNCHANGED <<bound, research, sent, run>>
    BY <1>1 DEF Expire, TypeOK
  <1>4. /\ new \in Task /\ ~new.live /\ new.final = task[t].final
        /\ new.status = task[t].status
        /\ new.attempt = task[t].attempt /\ new.active = task[t].active
        /\ new.checkpoint = task[t].checkpoint /\ new.cancelled = task[t].cancelled
        /\ new.result = task[t].result
    BY <1>2 DEF Task
  <1> HIDE DEF new
  <1>5. UNCHANGED <<effect, action, receipt, closed, sent, bound, run>> BY <1>3 DEF research
  <1>6. TypeOK' BY <1>1, <1>3, <1>4, <1>5 DEF TypeOK
  <1>7. Placed' BY <1>1, <1>5 DEF Placed
  <1>8. RowInv(new) BY <1>2, <1>4 DEF RowInv
  <1>9. Rows' BY <1>1, <1>3, <1>8 DEF Rows, TypeOK
  <1>10. NoNewSender BY <1>5 DEF NoNewSender, Same
  <1>11. LifeInv' BY <1>1, <1>3, <1>10, AsideKeepsLife
  <1>12. TrustInv'
    <2>1. ASSUME NEW s \in Runners, run[s].at \notin {"idle", "dead"}
          PROVE  Trust(run[s], task'[run[s].task], s)
      <3>1. run[s].task \in Tasks /\ Trust(run[s], task[run[s].task], s)
        BY <1>1, <2>1 DEF TrustInv, Placed, PlacedAt
      <3>2. CASE run[s].task # t BY <1>1, <1>3, <3>1, <3>2 DEF TypeOK
      <3>3. CASE run[s].task = t
        <4>1. task'[run[s].task] = new BY <1>1, <1>3, <3>1, <3>3 DEF TypeOK
        <4>2. Trust(run[s], new, s) BY <1>4, <3>1, <3>3 DEF Trust, Holds
        <4>. QED BY <4>1, <4>2
      <3>. QED BY <3>2, <3>3
    <2>. QED BY <1>5, <2>1 DEF TrustInv
  <1>13. TasksInv'
    <2>1. \A u \in Tasks : EffectsStay(u) BY <1>5, FencesStay
    <2>2. TaskInv(new, t) BY <1>2, <1>4 DEF TaskInv, SettledRow
    <2>. QED BY <1>1, <1>3, <1>4, <2>1, <2>2, TasksStep
  <1>. QED BY <1>6, <1>7, <1>9, <1>11, <1>12, <1>13 DEF IInv, TypeInv

\* The attempt pauses with its task.
LEMMA Interrupts == ASSUME IInv, NEW t \in Tasks, Interrupt(t) PROVE IInv'
  <1> DEFINE pause == IF Unresolved(t) = {} THEN "interrupt" ELSE "unknown"
             row == [Blocked(Fenced(task[t])) EXCEPT !.pause = pause]
             new == IF Unresolved(t) = {} /\ row.checkpoint # "none"
                    THEN Checkpointed(row, row.checkpoint) ELSE row
  <1>1. task[t] \in Task /\ RowInv(task[t]) /\ TaskInv(task[t], t) BY RowOf
  <1>2. OpsType BY OpsTyped
  <1>3. /\ task[t].status # "terminal" /\ bound' = bound \ OpsOf(t)
        /\ run' = Stale(t, None) /\ UNCHANGED <<action, receipt, closed, sent>>
        /\ effect' = [o \in Ops |-> IF o \in Unresolved(t) THEN "unknown" ELSE effect[o]]
        /\ task' = [task EXCEPT ![t] = new]
    BY DEF Interrupt, Fence
  <1>4. bound' \subseteq Ops /\ effect' \in [Ops -> Effects]
    BY <1>2, <1>3 DEF OpsType, Effects
  <1>5. Fences BY <1>3 DEF Fences, Unresolved
  <1> DEFINE fenced == Fenced(task[t])
             blocked == Blocked(fenced)
  <1>6. /\ fenced \in Task /\ ~fenced.live /\ fenced.active = task[t].active
        /\ fenced.attempt = task[t].attempt /\ fenced.checkpoint = task[t].checkpoint
        /\ fenced.final = task[t].final /\ fenced.cancelled = task[t].cancelled
    BY <1>1, FencedRow
  <1> HIDE DEF fenced
  <1>7. /\ blocked \in Task /\ ~blocked.live /\ blocked.status = "blocked"
        /\ (blocked.active # "none" => task[t].active # "none")
        /\ blocked.attempt = task[t].attempt /\ blocked.checkpoint = task[t].checkpoint
        /\ blocked.final = task[t].final /\ blocked.cancelled = task[t].cancelled
    BY <1>6, BlockedRow
  <1> HIDE DEF blocked
  <1>8. row = [blocked EXCEPT !.pause = pause] BY DEF blocked, fenced
  <1>9. pause \in {"none", "interrupt", "unknown"} OBVIOUS
  <1> HIDE DEF row, pause
  <1>10. /\ row \in Task /\ ~row.live /\ row.status = "blocked"
         /\ (row.active # "none" => task[t].active # "none")
         /\ row.attempt = task[t].attempt /\ row.checkpoint = task[t].checkpoint
         /\ row.final = task[t].final /\ row.cancelled = task[t].cancelled
    BY <1>7, <1>8, <1>9, PausedRow
  <1>11. row.checkpoint \in Phases BY <1>10 DEF Task, Phases
  <1>12. /\ new \in Task /\ ~new.live /\ new.status = "blocked"
         /\ (new.active # "none" => task[t].active # "none")
         /\ new.attempt = task[t].attempt /\ new.checkpoint = task[t].checkpoint
         /\ new.final = task[t].final /\ new.cancelled = task[t].cancelled
    <2>1. CASE new = row BY <1>10, <2>1
    <2>2. CASE new = Checkpointed(row, row.checkpoint)
      BY <1>10, <1>11, <2>2, CheckpointedRow
    <2>. QED BY <2>1, <2>2
  <1> HIDE DEF new
  <1>13. RowInv(new) /\ TaskInv(new, t)
    BY <1>1, <1>3, <1>12 DEF RowInv, TaskInv, SettledRow
  <1>. QED BY <1>3, <1>4, <1>5, <1>12, <1>13, FenceStep

LEMMA Cancels == ASSUME IInv, NEW t \in Tasks, Cancel(t) PROVE IInv'
  <1> DEFINE row == [Fenced(task[t]) EXCEPT !.cancelled = TRUE, !.pause = "none"]
             new == IF Unresolved(t) = {} THEN Cancelled(row) ELSE Blocked(row)
  <1>1. task[t] \in Task /\ RowInv(task[t]) /\ TaskInv(task[t], t) BY RowOf
  <1>2. OpsType BY OpsTyped
  <1>3. /\ bound' = bound \ OpsOf(t)
        /\ run' = Stale(t, None) /\ UNCHANGED <<action, receipt, closed, sent>>
        /\ effect' = [o \in Ops |-> IF o \in Unresolved(t) THEN "unknown"
                                    ELSE IF o.task = t /\ effect[o] = "reserved"
                                    THEN "failed" ELSE effect[o]]
        /\ task' = [task EXCEPT ![t] = new]
    BY DEF Cancel, Fence
  <1>4. bound' \subseteq Ops /\ effect' \in [Ops -> Effects]
    BY <1>2, <1>3 DEF OpsType, Effects
  <1>5. Fences BY <1>3 DEF Fences, Unresolved
  <1> DEFINE fenced == Fenced(task[t])
  <1>6. /\ fenced \in Task /\ ~fenced.live /\ fenced.active = task[t].active
        /\ fenced.attempt = task[t].attempt /\ fenced.checkpoint = task[t].checkpoint
        /\ fenced.final = task[t].final
    BY <1>1, FencedRow
  <1>7. row = [fenced EXCEPT !.cancelled = TRUE, !.pause = "none"] OBVIOUS
  <1> HIDE DEF fenced, row
  <1>8. /\ row \in Task /\ ~row.live /\ row.active = task[t].active
        /\ row.attempt = task[t].attempt /\ row.checkpoint = task[t].checkpoint
        /\ row.final = task[t].final /\ row.cancelled
    BY <1>6, <1>7 DEF Task
  <1>9. CASE Unresolved(t) = {}
    <2>1. new = Cancelled(row) BY <1>9
    <2>2. /\ new \in Task /\ ~new.live /\ new.status = "terminal"
          /\ new.result = "cancelled" /\ new.active \in {"none", "terminal"}
          /\ (new.active # "none" => row.active # "none")
          /\ new.attempt = row.attempt /\ new.checkpoint = row.checkpoint
          /\ new.final = row.final
      BY <1>8, <2>1, CancelledRow
    <2> HIDE DEF new
    <2>3. RowInv(new) /\ TaskInv(new, t)
      BY <1>1, <1>8, <2>2 DEF RowInv, TaskInv, SettledRow
    <2>. QED BY <1>3, <1>4, <1>5, <2>2, <2>3, FenceStep
  <1>10. CASE Unresolved(t) # {}
    <2>1. new = Blocked(row) BY <1>10
    <2>2. /\ new \in Task /\ ~new.live /\ new.status = "blocked"
          /\ (new.active # "none" => row.active # "none")
          /\ new.attempt = row.attempt /\ new.checkpoint = row.checkpoint
          /\ new.final = row.final
      BY <1>8, <2>1, BlockedRow
    <2> HIDE DEF new
    <2>3. RowInv(new) /\ TaskInv(new, t)
      BY <1>1, <1>8, <1>10, <2>2 DEF RowInv, TaskInv, SettledRow
    <2>. QED BY <1>3, <1>4, <1>5, <2>2, <2>3, FenceStep
  <1>. QED BY <1>9, <1>10

\* A task that was cancelled does not resume: its effects are not resolved.
LEMMA Resumes == ASSUME IInv, NEW t \in Tasks, Resume(t) PROVE IInv'
  <1> DEFINE fenced == Fenced(task[t])
             row == Checkpointed(fenced, task[t].checkpoint)
             new == [row EXCEPT !.status = "running", !.active = "running", !.pause = "none"]
  <1>1. task[t] \in Task /\ RowInv(task[t]) /\ TaskInv(task[t], t) BY RowOf
  <1>2. OpsType BY OpsTyped
  <1>3. /\ Active(t) /\ task[t].status = "blocked" /\ Unresolved(t) = {}
        /\ bound' = bound \ OpsOf(t)
        /\ run' = Stale(t, None) /\ UNCHANGED <<action, receipt, closed, sent, effect>>
        /\ task' = [task EXCEPT ![t] = new]
    BY DEF Resume, Fence
  <1>4. bound' \subseteq Ops /\ effect' \in [Ops -> Effects]
    BY <1>2, <1>3 DEF OpsType
  <1>5. Fences BY <1>3 DEF Fences
  <1>6. /\ fenced \in Task /\ ~fenced.live
        /\ fenced.attempt = task[t].attempt
        /\ fenced.final = task[t].final /\ fenced.cancelled = task[t].cancelled
    BY <1>1, FencedRow
  <1>7. task[t].checkpoint \in Phases BY <1>1 DEF Task, Phases
  <1> HIDE DEF fenced
  <1>8. /\ row \in Task /\ ~row.live /\ row.checkpoint = task[t].checkpoint
        /\ row.attempt = task[t].attempt
        /\ row.final = task[t].final /\ row.cancelled = task[t].cancelled
    BY <1>6, <1>7, CheckpointedRow
  <1> HIDE DEF row
  <1>9. /\ new \in Task /\ ~new.live /\ new.checkpoint = task[t].checkpoint
        /\ new.status = "running" /\ new.active = "running"
        /\ new.attempt = task[t].attempt
        /\ new.final = task[t].final /\ new.cancelled = task[t].cancelled
    BY <1>8 DEF Task
  <1> HIDE DEF new
  <1>10. RowInv(new) /\ TaskInv(new, t)
    BY <1>1, <1>3, <1>9 DEF RowInv, TaskInv, SettledRow, Active
  <1>. QED BY <1>3, <1>4, <1>5, <1>9, <1>10, FenceStep

\* A person closes what is in doubt; nobody may settle it any more.
LEMMA Resolves ==
    ASSUME IInv, NEW t \in Tasks, NEW o \in Ops, Resolve(t, o) PROVE IInv'
  <1> DEFINE paused == IF task[t].pause = "unknown" THEN "unknown" ELSE "none"
             fenced == Fenced(task[t])
             row == [fenced EXCEPT !.pause = paused]
             new == IF row.cancelled /\ Unresolved(t) = {o} THEN Cancelled(row)
                    ELSE [row EXCEPT !.status = "blocked"]
  <1>1. TypeInv /\ LifeInv /\ TypeOK /\ Placed /\ TrustInv /\ TasksInv /\ Rows /\ OpsType
    BY OpsTyped DEF IInv, TypeInv
  <1>2. task[t] \in Task /\ RowInv(task[t]) /\ TaskInv(task[t], t) BY RowOf
  <1>3. PICK out \in {"succeeded", "failed"} : effect' = [effect EXCEPT ![o] = out]
    BY DEF Resolve
  <1>4. /\ fenced \in Task /\ ~fenced.live /\ fenced.active = task[t].active
        /\ fenced.attempt = task[t].attempt /\ fenced.checkpoint = task[t].checkpoint
        /\ fenced.final = task[t].final /\ fenced.cancelled = task[t].cancelled
        /\ fenced.pause = task[t].pause
    BY <1>2, FencedRow
  <1>5. /\ o.task = t /\ effect[o] = "unknown" /\ task[t].status # "terminal"
        /\ bound' = bound \ OpsOf(t) /\ run' = Stale(t, None)
        /\ UNCHANGED <<action, receipt, sent>> /\ closed' = closed \cup {o}
    BY DEF Resolve, Fence
  <1>6. task' = [task EXCEPT ![t] = new] BY <1>4 DEF Resolve
  <1>7. paused \in {"none", "interrupt", "unknown"} OBVIOUS
  <1> HIDE DEF fenced, paused
  <1>8. /\ row \in Task /\ ~row.live /\ row.active = task[t].active
        /\ row.attempt = task[t].attempt /\ row.checkpoint = task[t].checkpoint
        /\ row.final = task[t].final /\ row.cancelled = task[t].cancelled
    BY <1>4, <1>7, PausedRow
  <1> HIDE DEF row
  <1>9. o \in Unresolved(t) BY <1>5 DEF Unresolved, OpsOf
  <1>10. task[t].checkpoint # "complete" BY <1>2, <1>9 DEF TaskInv, SettledRow
  <1>11. /\ new \in Task /\ ~new.live /\ new.checkpoint # "complete"
         /\ (new.active # "none" => task[t].active # "none")
         /\ (new.active = "blocked" => new.status = "blocked")
         /\ new.attempt = task[t].attempt /\ new.cancelled = task[t].cancelled
         /\ \/ new.status = "terminal" /\ new.result = "cancelled"
            \/ new.status = "blocked" /\ ~(task[t].cancelled /\ Unresolved(t) = {o})
    <2>1. CASE row.cancelled /\ Unresolved(t) = {o}
      <3>1. new = Cancelled(row) BY <2>1
      <3>. QED BY <1>8, <1>10, <3>1, CancelledRow
    <2>2. CASE ~(row.cancelled /\ Unresolved(t) = {o})
      <3>1. new = [row EXCEPT !.status = "blocked"] BY <2>2
      <3>. QED BY <1>8, <1>10, <2>2, <3>1 DEF Task
    <2>. QED BY <2>1, <2>2
  <1> HIDE DEF new
  <1>12. effect'[o] = out /\ \A p \in Ops \ {o} : effect'[p] = effect[p]
    BY <1>1, <1>3 DEF OpsType
  <1>13. OpsType' BY <1>1, <1>3, <1>5 DEF OpsType, Effects
  <1>14. /\ run' \in [Runners -> Runner] /\ Placed'
         /\ \A s \in Runners : Same(run'[s], run[s])
    BY <1>1, <1>5, FencedRun
  <1>15. TypeOK' BY <1>1, <1>6, <1>11, <1>13, <1>14 DEF TypeOK, OpsType, Effects
  <1>16. Rows'
    <2>1. RowInv(new) BY <1>2, <1>11 DEF RowInv
    <2>. QED BY <1>1, <1>6, <2>1 DEF Rows, TypeOK
  <1>17. LifeInv'
    <2>1. NoNewSender BY <1>14 DEF NoNewSender
    <2>2. Told(o) /\ Lived(o) BY <1>1 DEF LifeInv, OpsInv
    <2>3. Told(o)' BY <1>5, <1>12, <2>2 DEF Told, Lived
    <2>4. Lived(o)' BY <1>5, <1>12, <2>2 DEF Lived, Charged
    <2>5. \A s \in Runners : Sends(s) => SenderInv(s)
      BY <1>1 DEF LifeInv, SendersInv
    <2>6. o \in closed' /\ effect'[o] \notin {"none", "reserved"}
          /\ UNCHANGED <<action, receipt, sent>>
      BY <1>5, <1>12
    <2>7. \A p \in Ops \ {o} :
            /\ effect'[p] = effect[p] /\ action'[p] = action[p] /\ receipt'[p] = receipt[p]
            /\ p \in closed' <=> p \in closed
      BY <1>5, <1>12
    <2>. QED BY <1>1, <2>1, <2>3, <2>4, <2>5, <2>6, <2>7, OneKeepsLife
  <1>18. TrustInv' BY <1>1, <1>5, <1>6, <1>11, TrustFence
  <1>19. TasksInv'
    <2>1. ASSUME NEW u \in Tasks PROVE TaskInv(task[u], u)'
      <3>1. CASE u # t
        <4>1. EffectsStay(u) BY <1>5, <1>12, <3>1, ElseStay
        <4>2. task'[u] = task[u] /\ task[u] \in Task BY <1>1, <1>6, <3>1 DEF TypeOK
        <4>3. TaskInv(task[u], u) BY RowOf
        <4>4. task[u].attempt \in 0..MaxAttempts BY <4>2 DEF Task
        <4>. QED BY <4>1, <4>2, <4>3, <4>4 DEF TaskInv, SettledRow, EffectsStay
      <3>2. CASE u = t
        <4>1. task'[u] = new BY <1>1, <1>6, <3>2 DEF TypeOK
        <4>2. Unresolved(t)' = Unresolved(t) \ {o}
          BY <1>12 DEF Unresolved, OpsOf
        <4>3. task[t].cancelled /\ new.status = "blocked" => Unresolved(t)' # {}
          BY <1>9, <1>11, <4>2
        <4>. QED BY <1>11, <3>2, <4>1, <4>3 DEF TaskInv
      <3>. QED BY <3>1, <3>2
    <2>. QED BY <2>1 DEF TasksInv
  <1>. QED BY <1>14, <1>15, <1>16, <1>17, <1>18, <1>19 DEF IInv, TypeInv

-----------------------------------------------------------------------------
(* The invariant *)

LEMMA InitInv == Init => IInv
  <1>. SUFFICES ASSUME Init PROVE IInv OBVIOUS
  <1>1. \A r \in Runners : run[r] = Idle BY DEF Init
  <1>2. \A t \in Tasks : /\ task[t].status = "ready" /\ task[t].active = "none"
                         /\ task[t].checkpoint = "none" /\ ~task[t].cancelled
    BY DEF Init
  <1>3. task \in [Tasks -> Task] BY BoundAssumption DEF Init, Task, Results
  <1>4. run \in [Runners -> Runner] BY IdleRunner DEF Init
  <1>5. TypeOK BY <1>3, <1>4 DEF Init, TypeOK
  <1>6. Placed BY <1>1, IdleRunner DEF Placed
  <1>7. Rows BY <1>2 DEF Rows, RowInv
  <1>8. OpsInv BY DEF Init, OpsInv, Told, Lived, Charged
  <1>9. SendersInv BY <1>1, IdleRunner DEF SendersInv, Sends
  <1>10. TrustInv BY <1>1, IdleRunner DEF TrustInv
  <1>11. TasksInv BY <1>2 DEF TasksInv, TaskInv
  <1>. QED BY <1>5, <1>6, <1>7, <1>8, <1>9, <1>10, <1>11 DEF IInv, TypeInv, LifeInv

LEMMA StutterInv == ASSUME IInv, UNCHANGED vars PROVE IInv'
  <1>1. UNCHANGED <<task, effect, bound, action, receipt, sent, closed, run>>
    BY DEF vars
  <1>2. TypeInv' BY <1>1 DEF IInv, TypeInv, TypeOK, Placed, Rows
  <1>3. NoNewSender BY <1>1 DEF NoNewSender, Same
  <1>4. LifeInv' BY <1>1, <1>3, AsideKeepsLife DEF IInv, research
  <1>5. TrustInv' BY <1>1 DEF IInv, TrustInv
  <1>6. TasksInv'
    <2>1. \A u \in Tasks : Unresolved(u)' = Unresolved(u)
      BY <1>1 DEF Unresolved, OpsOf
    <2>2. \A u \in Tasks : \A a : Succeeded(u, a)' = Succeeded(u, a)
      BY <1>1 DEF Succeeded, OpsOf
    <2>. QED BY <1>1, <2>1, <2>2 DEF IInv, TasksInv, TaskInv, SettledRow
  <1>. QED BY <1>2, <1>4, <1>5, <1>6 DEF IInv

LEMMA NextInv == IInv /\ [Next]_vars => IInv'
  <1>. SUFFICES ASSUME IInv, [Next]_vars PROVE IInv' OBVIOUS
  <1>1. ASSUME NEW r \in Runners, Runs(r) PROVE IInv'
    <2>1. CASE \E t \in Tasks : Claim(r, t) \/ Reenter(r, t) \/ Retry(r, t)
      BY <2>1, Claims, Reenters, Retries
    <2>2. CASE Recover(r) \/ TakeOver(r) \/ StartAttempt(r) \/ InnerStep(r)
      BY <2>2, Recovers, TakesOver, StartsAttempt, StepsInner
    <2>3. CASE Prepared(r) \/ BuildContext(r) \/ SkipCall(r) \/ ReuseReservation(r)
      BY <2>3, Prepares, BuildsContext, SkipsCall, ReusesReservation
    <2>4. CASE Reserve(r) \/ RejectBudget(r) \/ Start(r) \/ Send(r)
      BY <2>4, Reserves, RejectsBudget, Starts, SendsRequest
    <2>5. CASE Finish(r) \/ RejectIdentity(r) \/ MarkUnknown(r) \/ Finalize(r)
      BY <2>5, Finishes, RejectsIdentity, MarksUnknown, Finalizes
    <2>6. CASE Ingest(r) \/ Complete(r) \/ CompleteIngested(r) \/ CloseFailure(r)
      BY <2>6, Ingests, Completes, CompletesIngested, ClosesFailure
    <2>7. CASE GiveUp(r) \/ Crash(r) \/ Restart(r)
      BY <2>7, GivesUp, Crashes, Restarts
    <2>. QED BY <1>1, <2>1, <2>2, <2>3, <2>4, <2>5, <2>6, <2>7 DEF Runs
  <1>2. ASSUME NEW t \in Tasks, Controls(t) PROVE IInv'
    <2>1. CASE Expire(t) \/ Interrupt(t) \/ Cancel(t) \/ Resume(t)
      BY <2>1, Expires, Interrupts, Cancels, Resumes
    <2>2. CASE \E o \in Ops : Resolve(t, o) BY <2>2, Resolves
    <2>. QED BY <1>2, <2>1, <2>2 DEF Controls
  <1>3. CASE UNCHANGED vars BY <1>3, StutterInv
  <1>. QED BY <1>1, <1>2, <1>3 DEF Next

THEOREM Invariance == Spec => []IInv
  BY InitInv, NextInv, PTL DEF Spec

\* The rows of a task, its operations and the processes keep their types.
THEOREM ResearchTypes == Spec => []TypeOK
  <1>1. IInv => TypeOK BY DEF IInv, TypeInv
  <1>. QED BY <1>1, Invariance, PTL

\* A request leaves at most once for an operation (_start, recover_in_flight,
\* claim_owner and the controls): over any crashes, takeovers, retries and
\* resumed attempts of any number of processes and tasks.
THEOREM OperationsAreSentOnce == Spec => []SentOnce
  <1>1. IInv => SentOnce BY DEF IInv, LifeInv, OpsInv, Lived, SentOnce
  <1>. QED BY <1>1, Invariance, PTL

\* Receipt, action and effect of a call agree (_finish_succeeded,
\* _finish_failed, _mark_unknown, resolve_side_effect).
THEOREM ReceiptsTellOutcomes == Spec => []ReceiptTellsOutcome
  <1>1. IInv => ReceiptTellsOutcome
    BY DEF IInv, LifeInv, OpsInv, Told, ReceiptTellsOutcome
  <1>. QED BY <1>1, Invariance, PTL

\* An answer ends a task with its provider receipts settled
\* (_assert_provider_receipts, complete_attempt).
THEOREM AnswersAreSettled == Spec => []AnswerIsSettled
  <1>1. IInv => AnswerIsSettled
    BY DEF IInv, TasksInv, TaskInv, SettledRow, AnswerIsSettled
  <1>. QED BY <1>1, Invariance, PTL

\* A cancel that waits for an unknown effect sticks (apply_control,
\* _terminal_cancel, resolve_side_effect).
THEOREM CancelsStick == Spec => []CancelSticks
  <1>1. IInv => CancelSticks BY DEF IInv, TasksInv, TaskInv, CancelSticks
  <1>. QED BY <1>1, Invariance, PTL

-----------------------------------------------------------------------------
(* What a step does to an operation *)

Reserved(o) == \E r \in Runners : Reserve(r) /\ o = Op(r)
Started(o) == \E r \in Runners : Start(r) /\ o = Op(r)
Ended(o) == /\ effect[o] \in {"reserved", "in_flight", "unknown"}
            /\ effect'[o] \in {"unknown", "succeeded", "failed"}
OpStays(o) == effect'[o] = effect[o] /\ action'[o] = action[o]

LEMMA SettledOp ==
    ASSUME IInv, NEW o \in Ops, NEW r \in Runners, NEW e \in {"unknown", "succeeded", "failed"},
           NEW a, NEW c, Settle(r, e, a, c)
    PROVE  OpStays(o) \/ Ended(o)
  <1>1. OpsType BY OpsTyped
  <1>2. /\ effect[Op(r)] = "in_flight" /\ effect' = [effect EXCEPT ![Op(r)] = e]
        /\ action' = [action EXCEPT ![Op(r)] = a]
    BY DEF Settle, MaySettle
  <1>3. CASE o = Op(r)
    <2>1. effect'[o] = e BY <1>1, <1>2, <1>3 DEF OpsType
    <2>. QED BY <1>2, <1>3, <2>1 DEF Ended
  <1>4. CASE o # Op(r) BY <1>1, <1>2, <1>4 DEF OpStays, OpsType
  <1>. QED BY <1>3, <1>4

\* An operation is reserved, started, or ends; or the step is not about it.
LEMMA OpStep ==
    ASSUME IInv, [Next]_vars, NEW o \in Ops
    PROVE  OpStays(o) \/ Reserved(o) \/ Started(o) \/ Ended(o)
  <1>1. OpsType BY OpsTyped
  <1>2. CASE UNCHANGED <<effect, action>> BY <1>2 DEF OpStays
  <1>3. ASSUME NEW r \in Runners, Runs(r) PROVE UNCHANGED <<effect, action>>
          \/ OpStays(o) \/ Reserved(o) \/ Started(o) \/ Ended(o)
    <2>1. CASE \E t \in Tasks : Claim(r, t) \/ Reenter(r, t) \/ Retry(r, t)
      BY <2>1 DEF Claim, TakeOwnership, Reenter, Retry, research
    <2>2. CASE Recover(r)
      BY <2>2 DEF Recover, OpStays, Ended
    <2>3. CASE TakeOver(r) \/ StartAttempt(r) \/ InnerStep(r)
      BY <2>3 DEF TakeOver, TakeOwnership, StartAttempt, InnerStep, research
    <2>4. CASE Prepared(r) \/ BuildContext(r) \/ SkipCall(r) \/ ReuseReservation(r)
      BY <2>4 DEF Prepared, BuildContext, SkipCall, ReuseReservation, research
    <2>5. CASE Reserve(r)
      <3>1. effect' = [effect EXCEPT ![Op(r)] = "reserved"] /\ UNCHANGED action
        BY <2>5 DEF Reserve
      <3>. QED BY <1>1, <2>5, <3>1 DEF Reserved, OpStays, OpsType
    <2>6. CASE Start(r)
      <3>1. effect' = [effect EXCEPT ![Op(r)] = "in_flight"] /\ UNCHANGED action
        BY <2>6 DEF Start
      <3>. QED BY <1>1, <2>6, <3>1 DEF Started, OpStays, OpsType
    <2>7. CASE RejectBudget(r) \/ Send(r)
      BY <2>7 DEF RejectBudget, Send, research
    <2>8. CASE Finish(r) BY <2>8, SettledOp DEF Finish
    <2>9. CASE RejectIdentity(r) BY <2>9, SettledOp DEF RejectIdentity
    <2>10. CASE MarkUnknown(r) BY <2>10, SettledOp DEF MarkUnknown
    <2>11. CASE Finalize(r) \/ Ingest(r) \/ Complete(r) \/ CompleteIngested(r)
                \/ CloseFailure(r)
      BY <2>11 DEF Finalize, Ingest, Complete, CompleteIngested, CloseFailure, research
    <2>12. CASE GiveUp(r) \/ Crash(r) \/ Restart(r)
      BY <2>12 DEF GiveUp, Crash, Restart, research
    <2>. QED BY <1>3, <2>1, <2>2, <2>3, <2>4, <2>5, <2>6, <2>7, <2>8, <2>9, <2>10,
                <2>11, <2>12 DEF Runs
  <1>4. ASSUME NEW t \in Tasks, Controls(t)
        PROVE  UNCHANGED <<effect, action>> \/ OpStays(o) \/ Ended(o)
    <2>1. CASE Expire(t) \/ Resume(t)
      BY <2>1 DEF Expire, Resume, Fence, research
    <2>2. CASE Interrupt(t)
      BY <2>2 DEF Interrupt, Fence, Unresolved, OpStays, Ended
    <2>3. CASE Cancel(t)
      BY <2>3 DEF Cancel, Fence, Unresolved, OpStays, Ended
    <2>4. CASE \E p \in Ops : Resolve(t, p)
      <3>1. PICK p \in Ops : Resolve(t, p) BY <2>4
      <3>2. PICK out \in {"succeeded", "failed"} : effect' = [effect EXCEPT ![p] = out]
        BY <3>1 DEF Resolve
      <3>3. effect[p] = "unknown" /\ UNCHANGED action BY <3>1 DEF Resolve, Fence
      <3>. QED BY <1>1, <3>2, <3>3 DEF OpStays, Ended, OpsType
    <2>. QED BY <1>4, <2>1, <2>2, <2>3, <2>4 DEF Controls
  <1>5. CASE UNCHANGED vars BY <1>2, <1>5 DEF vars
  <1>. QED BY <1>2, <1>3, <1>4, <1>5 DEF Next

\* A call starts only for an attempt that runs, under the lease (_guard in
\* _start): never one that was paused, cancelled or replaced since.
THEOREM PausedAttemptsWait == Spec => PausedNeverDispatches
  <1> DEFINE Waits(o) == effect[o] # "in_flight" /\ effect'[o] = "in_flight" =>
               /\ task[o.task].active = "running" /\ task[o.task].attempt = o.attempt
               /\ task[o.task].status # "terminal"
  <1>1. ASSUME IInv, [Next]_vars, NEW o \in Ops PROVE Waits(o)
    <2>1. CASE OpStays(o) BY <2>1 DEF OpStays
    <2>2. CASE Reserved(o)
      <3>1. PICK r \in Runners : Reserve(r) /\ o = Op(r) BY <2>2 DEF Reserved
      <3>2. effect'[o] = "reserved" BY <1>1, <3>1, OpsTyped DEF Reserve, OpsType
      <3>. QED BY <3>2
    <2>3. CASE Started(o)
      <3>1. PICK r \in Runners : Start(r) /\ o = Op(r) BY <2>3 DEF Started
      <3>2. run[r].at \in Calling /\ Guard(r) BY <3>1 DEF Start, Calling
      <3>3. LET row == task[run[r].task] IN
            row.active = "running" /\ row.attempt = run[r].attempt /\ Calm(row)
        BY <1>1, <3>2, GuardedCall
      <3>4. o.task = run[r].task /\ o.attempt = run[r].attempt BY <3>1 DEF Op
      <3>. QED BY <3>3, <3>4 DEF Calm
    <2>4. CASE Ended(o) BY <2>4 DEF Ended
    <2>. QED BY <1>1, <2>1, <2>2, <2>3, <2>4, OpStep
  <1>2. IInv /\ [Next]_vars => [\A o \in Ops : Waits(o)]_vars BY <1>1
  <1>. QED BY <1>2, Invariance, PTL DEF Spec, PausedNeverDispatches

-----------------------------------------------------------------------------
(* The envelope *)

LEMMA OpsFinite == IsFiniteSet(Ops)
  <1> DEFINE S == (Tasks \X Attempts) \X (1..MaxOps)
             f == [x \in S |-> [task |-> x[1][1], attempt |-> x[1][2], n |-> x[2]]]
  <1>1. IsFiniteSet(Attempts) /\ IsFiniteSet(1..MaxOps)
    BY BoundAssumption, FS_Interval DEF Attempts
  <1>2. IsFiniteSet(S)
    <2>1. IsFiniteSet(Tasks \X Attempts) BY <1>1, TasksAssumption, FS_Product
    <2>. QED BY <1>1, <2>1, FS_Product
  <1>3. f \in [S -> Ops] BY DEF Ops
  <1>4. ASSUME NEW o \in Ops PROVE \E x \in S : f[x] = o
    <2>1. /\ o.task \in Tasks /\ o.attempt \in Attempts /\ o.n \in 1..MaxOps
          /\ o = [task |-> o.task, attempt |-> o.attempt, n |-> o.n]
      BY DEF Ops
    <2>2. <<<<o.task, o.attempt>>, o.n>> \in S BY <2>1
    <2>3. f[<<<<o.task, o.attempt>>, o.n>>] = o BY <2>1, <2>2
    <2>. QED BY <2>2, <2>3
  <1>5. f \in Surjection(S, Ops) BY <1>3, <1>4 DEF Surjection
  <1>. QED BY <1>2, <1>5, FS_Surjection

LEMMA ChargedFinite == IsFiniteSet(Charged) /\ Cardinality(Charged) \in Nat
  <1>1. Charged \in SUBSET Ops BY DEF Charged
  <1>2. IsFiniteSet(Charged) BY <1>1, OpsFinite, FS_Subset
  <1>. QED BY <1>2, FS_CardinalityType

Capped == Cardinality(Charged) <= RunCap
LEMMA CapStep == IInv /\ Capped /\ [Next]_vars => Capped'
  <1>. SUFFICES ASSUME IInv, Capped, [Next]_vars PROVE Capped' OBVIOUS
  <1>1. ASSUME NEW o \in Ops, o \in Charged', o \notin Charged PROVE Reserved(o)
    <2>1. ~OpStays(o) /\ ~Ended(o) BY <1>1 DEF OpStays, Ended, Charged
    <2>2. ~Started(o)
      <3>1. Started(o) => effect[o] = "reserved" BY DEF Started, Start
      <3>. QED BY <1>1, <3>1 DEF Charged
    <2>. QED BY <2>1, <2>2, OpStep
  <1>2. CASE \E r \in Runners : Reserve(r)
    <2>1. PICK r \in Runners : Reserve(r) BY <1>2
    <2>2. Cardinality(Charged) + 1 <= RunCap BY <2>1 DEF Reserve, WithinBudget
    <2>3. effect' = [effect EXCEPT ![Op(r)] = "reserved"] /\ UNCHANGED action
      BY <2>1 DEF Reserve
    <2>4. Charged' \in SUBSET (Charged \cup {Op(r)})
      BY <2>3, OpsTyped DEF Charged, OpsType
    <2>5. IsFiniteSet(Charged \cup {Op(r)})
          /\ Cardinality(Charged \cup {Op(r)}) <= Cardinality(Charged) + 1
      BY ChargedFinite, FS_AddElement
    <2>6. Cardinality(Charged') <= Cardinality(Charged \cup {Op(r)})
      BY <2>4, <2>5, FS_Subset
    <2>7. /\ Cardinality(Charged') \in Nat
          /\ Cardinality(Charged \cup {Op(r)}) \in Nat
      <3>1. IsFiniteSet(Charged') BY <2>4, <2>5, FS_Subset
      <3>. QED BY <2>5, <3>1, FS_CardinalityType
    <2>. QED BY <2>2, <2>5, <2>6, <2>7, ChargedFinite, BoundAssumption DEF Capped
  <1>3. CASE ~\E r \in Runners : Reserve(r)
    <2>1. Charged' \in SUBSET Charged BY <1>1, <1>3 DEF Reserved, Charged
    <2>2. IsFiniteSet(Charged') /\ Cardinality(Charged') <= Cardinality(Charged)
      BY <2>1, ChargedFinite, FS_Subset
    <2>3. Cardinality(Charged') \in Nat BY <2>2, FS_CardinalityType
    <2>. QED BY <2>2, <2>3, ChargedFinite, BoundAssumption DEF Capped
  <1>. QED BY <1>2, <1>3

\* What the tasks may spend together is never exceeded, and whatever left is
\* charged until a person closes it (_assert_call_caps, _run_budget_snapshot).
THEOREM EnvelopesHold == Spec => []EnvelopeHolds
  <1>1. Init => Capped
    <2>1. Init => Charged = {} BY DEF Init, Charged
    <2>. QED BY <2>1, FS_EmptySet, BoundAssumption DEF Capped
  <1>2. IInv /\ Capped => EnvelopeHolds
    BY DEF IInv, LifeInv, OpsInv, Lived, Capped, EnvelopeHolds
  <1>3. Spec => []Capped BY <1>1, CapStep, Invariance, PTL DEF Spec
  <1>. QED BY <1>2, <1>3, Invariance, PTL

-----------------------------------------------------------------------------
(* The record of paid calls *)

PaidStep == [Paid!Next]_(Paid!vars)
CallStates == [o \in Ops |-> CallState(o)]
CallAnswers == [o \in Ops |-> CallAnswer(o)]

\* A step that gives no receipt and sends nothing.
LEMMA NothingPaid == ASSUME UNCHANGED <<receipt, sent>> PROVE PaidStep
  <1>1. UNCHANGED <<sent, CallStates, CallAnswers>>
    BY DEF CallStates, CallAnswers, CallState, CallAnswer
  <1>. QED BY <1>1 DEF PaidStep, Paid!vars, CallStates, CallAnswers

\* A step that is about one operation changes the record of that one.
LEMMA OneRecord ==
    ASSUME NEW o \in Ops,
           \A p \in Ops \ {o} : receipt'[p] = receipt[p] /\ sent'[p] = sent[p]
    PROVE  /\ CallStates' = [CallStates EXCEPT ![o] = CallState(o)']
           /\ CallAnswers' = [CallAnswers EXCEPT ![o] = CallAnswer(o)']
  <1>1. \A p \in Ops \ {o} : CallState(p)' = CallState(p) /\ CallAnswer(p)' = CallAnswer(p)
    BY DEF CallState, CallAnswer
  <1>. QED BY <1>1 DEF CallStates, CallAnswers

\* A receipt that takes the place of none: an outcome nobody knows, an answer to
\* the request that left, or the end of a call of which nothing left.
LEMMA ReceiptIsRecord ==
    ASSUME OpsType, NEW o \in Ops, NEW c \in {"budget_rejected", "succeeded", "failed", "unknown"},
           receipt[o] = "none", receipt' = [receipt EXCEPT ![o] = c], UNCHANGED sent,
           sent[o] \in {0, 1},
           c = "budget_rejected" => sent[o] = 0,
           c = "succeeded" => sent[o] = 1
    PROVE  PaidStep
  <1>1. \A p \in Ops \ {o} : receipt'[p] = receipt[p] /\ sent'[p] = sent[p]
    BY DEF OpsType
  <1>2. receipt'[o] = c BY DEF OpsType
  <1>3. /\ CallStates' = [CallStates EXCEPT ![o] = CallState(o)']
        /\ CallAnswers' = [CallAnswers EXCEPT ![o] = CallAnswer(o)']
    BY <1>1, OneRecord
  <1>4. CallState(o) = "open" /\ CallAnswer(o) = "none" BY DEF CallState, CallAnswer
  <1>5. CallStates[o] = "open" /\ CallAnswers = [CallAnswers EXCEPT ![o] = "none"]
    BY <1>4 DEF CallStates, CallAnswers
  <1>6. CASE c = "unknown"
    <2>1. CallState(o)' = "unknown" /\ CallAnswer(o)' = "none"
      BY <1>2, <1>6 DEF CallState, CallAnswer
    <2>2. Paid!LoseTrack(o)
      BY <1>3, <1>5, <2>1 DEF Paid!LoseTrack, Paid!Records, CallStates, CallAnswers
    <2>. QED BY <2>2 DEF PaidStep, Paid!Next
  <1>7. CASE c # "unknown" /\ sent[o] = 0
    <2>1. CallState(o)' = "withdrawn" /\ CallAnswer(o)' = "none"
      BY <1>2, <1>7 DEF CallState, CallAnswer
    <2>2. Paid!Withdraw(o)
      BY <1>3, <1>5, <1>7, <2>1 DEF Paid!Withdraw, Paid!Records, CallStates, CallAnswers
    <2>. QED BY <2>2 DEF PaidStep, Paid!Next
  <1>8. CASE c # "unknown" /\ sent[o] = 1
    <2>1. CallState(o)' = "answered" /\ CallAnswer(o)' = c /\ c \in {"succeeded", "failed"}
      BY <1>2, <1>8 DEF CallState, CallAnswer
    <2>2. Paid!Answer(o)
      BY <1>3, <1>5, <1>8, <2>1 DEF Paid!Answer, Paid!Records, CallStates, CallAnswers
    <2>. QED BY <2>2 DEF PaidStep, Paid!Next
  <1>. QED BY <1>6, <1>7, <1>8

LEMMA SendIsRecorded == ASSUME IInv, NEW r \in Runners, Send(r) PROVE PaidStep
  <1>1. OpsType BY OpsTyped
  <1>2. PICK o \in Ops : o = Op(r) BY OpType DEF IInv, Send
  <1>3. receipt[o] = "none" /\ sent[o] = 0
    BY <1>2 DEF IInv, LifeInv, SendersInv, SenderInv, Sends, Send
  <1>4. sent' = [sent EXCEPT ![o] = 1] /\ UNCHANGED receipt
    BY <1>1, <1>2, <1>3 DEF Send, research, OpsType
  <1>5. CallState(o) = "open" /\ CallState(o)' = "open"
    BY <1>3, <1>4 DEF CallState
  <1>6. \A p \in Ops : CallState(p)' = CallState(p) /\ CallAnswer(p)' = CallAnswer(p)
    BY <1>1, <1>4, <1>5 DEF CallState, CallAnswer, OpsType
  <1>7. UNCHANGED <<CallStates, CallAnswers>> BY <1>6 DEF CallStates, CallAnswers
  <1>8. Paid!Send(o)
    BY <1>3, <1>4, <1>5, <1>7 DEF Paid!Send, CallStates, CallAnswers
  <1>. QED BY <1>8 DEF PaidStep, Paid!Next

LEMMA SettleIsRecorded ==
    ASSUME IInv, NEW r \in Runners, NEW e, NEW a,
           NEW c \in {"succeeded", "failed", "unknown"},
           run[r].at \in {"started", "sent"}, c = "succeeded" => run[r].at = "sent",
           Settle(r, e, a, c)
    PROVE  PaidStep
  <1>1. OpsType BY OpsTyped
  <1>2. Op(r) \in Ops BY OpType DEF IInv
  <1>3. receipt[Op(r)] = "none" /\ (run[r].at = "started" <=> sent[Op(r)] = 0)
    BY DEF IInv, LifeInv, SendersInv, SenderInv, Sends
  <1>4. sent[Op(r)] \in {0, 1}
    BY <1>1, <1>2 DEF IInv, LifeInv, OpsInv, Lived, OpsType
  <1>5. receipt' = [receipt EXCEPT ![Op(r)] = c] /\ UNCHANGED sent
    BY DEF Settle
  <1>. QED BY <1>1, <1>2, <1>3, <1>4, <1>5, ReceiptIsRecord

LEMMA RejectIsRecorded == ASSUME IInv, NEW r \in Runners, RejectBudget(r) PROVE PaidStep
  <1>1. OpsType BY OpsTyped
  <1>2. Op(r) \in Ops BY ReadyOpType DEF IInv, RejectBudget, MayCall
  <1>3. receipt[Op(r)] = "none" /\ effect[Op(r)] = "none" BY DEF RejectBudget, MayCall
  <1>4. sent[Op(r)] = 0
    BY <1>1, <1>2, <1>3 DEF IInv, LifeInv, OpsInv, Lived, OpsType
  <1>5. receipt' = [receipt EXCEPT ![Op(r)] = "budget_rejected"] /\ UNCHANGED sent
    BY DEF RejectBudget
  <1>. QED BY <1>1, <1>2, <1>3, <1>4, <1>5, ReceiptIsRecord

\* The receipts of provider calls are such a record: a request leaves once, none
\* after a receipt is there, and no receipt takes the place of another.
THEOREM OperationsAreRecorded == Spec => ImplementsProviderCalls
  <1>1. Init => Paid!Init
    <2> SUFFICES ASSUME Init PROVE Paid!Init OBVIOUS
    <2>1. \A o \in Ops : CallState(o) = "open" /\ CallAnswer(o) = "none"
      BY DEF Init, CallState, CallAnswer
    <2>. QED BY <2>1 DEF Init, Paid!Init
  <1>2. ASSUME IInv, [Next]_vars PROVE PaidStep
    <2>1. CASE UNCHANGED <<receipt, sent>> BY <2>1, NothingPaid
    <2>2. ASSUME NEW r \in Runners, Runs(r) PROVE UNCHANGED <<receipt, sent>> \/ PaidStep
      <3>1. CASE \E t \in Tasks : Claim(r, t) \/ Reenter(r, t) \/ Retry(r, t)
        BY <3>1 DEF Claim, TakeOwnership, Reenter, Retry, research
      <3>2. CASE Recover(r) \/ TakeOver(r) \/ StartAttempt(r) \/ InnerStep(r)
        BY <3>2 DEF Recover, TakeOver, TakeOwnership, StartAttempt, InnerStep, research
      <3>3. CASE Prepared(r) \/ BuildContext(r) \/ SkipCall(r) \/ ReuseReservation(r)
        BY <3>3 DEF Prepared, BuildContext, SkipCall, ReuseReservation, research
      <3>4. CASE Reserve(r) \/ Start(r)
        BY <3>4 DEF Reserve, Start
      <3>5. CASE RejectBudget(r) BY <1>2, <3>5, RejectIsRecorded
      <3>6. CASE Send(r) BY <1>2, <3>6, SendIsRecorded
      <3>7. CASE Finish(r) BY <1>2, <3>7, SettleIsRecorded DEF Finish
      <3>8. CASE RejectIdentity(r) BY <1>2, <3>8, SettleIsRecorded DEF RejectIdentity
      <3>9. CASE MarkUnknown(r) BY <1>2, <3>9, SettleIsRecorded DEF MarkUnknown
      <3>10. CASE Finalize(r) \/ Ingest(r) \/ Complete(r) \/ CompleteIngested(r)
                  \/ CloseFailure(r)
        BY <3>10 DEF Finalize, Ingest, Complete, CompleteIngested, CloseFailure, research
      <3>11. CASE GiveUp(r) \/ Crash(r) \/ Restart(r)
        BY <3>11 DEF GiveUp, Crash, Restart, research
      <3>. QED BY <2>2, <3>1, <3>2, <3>3, <3>4, <3>5, <3>6, <3>7, <3>8, <3>9, <3>10, <3>11
           DEF Runs
    <2>3. ASSUME NEW t \in Tasks, Controls(t) PROVE UNCHANGED <<receipt, sent>>
      <3>1. CASE Expire(t) \/ Interrupt(t) \/ Cancel(t) \/ Resume(t)
        BY <3>1 DEF Expire, Interrupt, Cancel, Resume, Fence, research
      <3>2. CASE \E o \in Ops : Resolve(t, o)
        BY <3>2 DEF Resolve, Fence
      <3>. QED BY <2>3, <3>1, <3>2 DEF Controls
    <2>. QED BY <1>2, <2>1, <2>2, <2>3 DEF Next, vars
  <1>3. IInv /\ [Next]_vars => [Paid!Next]_(Paid!vars) BY <1>2 DEF PaidStep
  <1>. QED BY <1>1, <1>3, Invariance, PTL DEF Spec, ImplementsProviderCalls, Paid!Spec
============================================================================
