---------------------------- MODULE AssistantRun ----------------------------
(***************************************************************************)
(* The runs of one conversation thread: the assistant_runs rows with their *)
(* epoch and execution budget, what the user may do to a run, and the      *)
(* processes whose foreground loop claims a run and takes it through the   *)
(* execution graph: recover, model, tools, final.                          *)
(*                                                                         *)
(* Every transaction of the store is one action, guarded by what the       *)
(* transaction checks under the thread and run locks.  Between two         *)
(* transactions of the graph anything can happen to the run: that is what  *)
(* the run_epoch and the guards are for.  A process that dies is a process *)
(* whose graph never takes another step.                                   *)
(*                                                                         *)
(* Left out: the bootstrap search, working-context construction and its    *)
(* compaction (their failures are kept), token counts (running out of      *)
(* tokens may happen at any dispatch), and the checks that end a turn      *)
(* making no progress.                                                     *)
(*                                                                         *)
(* A definition that is not used (CreateRunUnchecked, CancelRunAnyStatus)  *)
(* is a mutant of the one after it.                                        *)
(***************************************************************************)
EXTENDS Integers, FiniteSets

CONSTANTS
    Runs,         \* the thread's runs, in insertion order
    Executors,    \* processes with a foreground loop
    Calls,        \* tool call ids, in the order of a turn
    CallsOf,      \* bound: the calls the model may make in each run
    Writes,       \* calls of tools that commit a change; the others read
    ModelLimit,   \* model_limit: requests of one segment, the final included
    ToolLimit,    \* tool_limit: tool executions of one segment
    MaxEvents     \* bound: what users and faults do to the runs

NoRun == 0
NoCall == 0
Active == {"queued", "running"}
Resumable == {"interrupted", "budget_exhausted"}
Closed == {"completed", "cancelled"}
Statuses == Active \cup Resumable \cup Closed \cup {"none", "failed"}
Points == {"idle", "claimed", "begun", "recovering", "model", "dispatch",
           "waiting", "answered", "text", "asking", "asked", "tools", "begin",
           "called", "invoking", "working", "worked", "saving", "counted",
           "done", "finish", "finalizing", "final"}

ASSUME RunAssumption == Runs \subseteq Nat \ {NoRun}
ASSUME CallAssumption == /\ Calls \subseteq Nat \ {NoCall}
                         /\ Writes \subseteq Calls
                         /\ CallsOf \in [Runs -> SUBSET Calls]
ASSUME LimitAssumption == ModelLimit \in Nat \ {0} /\ ToolLimit \in Nat
ASSUME BoundAssumption == MaxEvents \in Nat

VARIABLES
    run,      \* the row of each run, with its messages and tool receipts
    ex,       \* where each process is in the graph, and what it remembers
    leaving,  \* processes told to stop, or not started
    late,     \* reads the graph no longer waits for
    events    \* what MaxEvents bounds
vars == <<run, ex, leaving, late, events>>

(* clock is the time left: more than the 60 s kept for the final answer    *)
(* (open), some of those (closing), none (over).                           *)
RunRow == [status : Statuses, epoch : Nat, finishing : BOOLEAN,
           clock : {"none", "open", "closing", "over"},
           modelCalls : Nat, toolExecs : Nat, finalSent : BOOLEAN,
           issued : SUBSET Calls,    \* call ids the model has used
           batch : SUBSET Calls,     \* calls of the last tool message
           receipt : [Calls -> {"none", "running", "completed"}],
           results : SUBSET Calls,   \* calls with a result message
           effects : SUBSET Calls,   \* writes that are committed
           answers : Nat]            \* final messages
(* claimed is the epoch the loop claimed, mine the one the graph entered   *)
(* its scope with, guard the one the running tool entered.                 *)
Executor == [at : Points, job : Runs \cup {NoRun}, claimed : Nat, mine : Nat,
             turn : SUBSET Calls, call : Calls \cup {NoCall}, guard : Nat,
             restarts : 0..1, again : BOOLEAN]
LateRead == [by : Executors, job : Runs, epoch : Nat, call : Calls]

TypeOK == /\ run \in [Runs -> RunRow]
          /\ ex \in [Executors -> Executor]
          /\ leaving \subseteq Executors
          /\ late \subseteq LateRead
          /\ events \in 0..MaxEvents

NewRun == [status |-> "none", epoch |-> 0, finishing |-> FALSE,
           clock |-> "none", modelCalls |-> 0, toolExecs |-> 0,
           finalSent |-> FALSE, issued |-> {}, batch |-> {},
           receipt |-> [c \in Calls |-> "none"], results |-> {},
           effects |-> {}, answers |-> 0]
Idle == [at |-> "idle", job |-> NoRun, claimed |-> 0, mine |-> 0, turn |-> {},
         call |-> NoCall, guard |-> 0, restarts |-> 0, again |-> FALSE]

Init == /\ run = [r \in Runs |-> NewRun]
        /\ ex = [x \in Executors |-> Idle]
        /\ leaving = Executors
        /\ late = {}
        /\ events = 0
-----------------------------------------------------------------------------
(* What the user does, and the clock. *)

Exists(r) == run[r].status # "none"
Latest(r) == Exists(r) /\ \A s \in Runs : Exists(s) => s <= r

(* Nothing in the code limits these steps; the bound keeps TLC's runs finite. *)
Disturbance == events < MaxEvents /\ events' = events + 1

SetStatus(r, s) == run' = [run EXCEPT ![r].status = s]

CreateRunUnchecked(r) ==
    /\ ~Exists(r) /\ \A s \in Runs : s < r => Exists(s)
    /\ ~ \E s \in Runs : run[s].status \in Active
    /\ run' = [run EXCEPT ![r].status = "queued", ![r].epoch = 1]
    /\ UNCHANGED <<ex, leaving, late, events>>

(* create_run: not while a run is active, nor over one to be continued.    *)
CreateRun(r) ==
    /\ ~Exists(r) /\ \A s \in Runs : s < r => Exists(s)
    /\ ~ \E s \in Runs : run[s].status \in Active
    /\ \A s \in Runs : Latest(s) => run[s].status \notin Resumable \cup {"failed"}
    /\ run' = [run EXCEPT ![r].status = "queued", ![r].epoch = 1]
    /\ UNCHANGED <<ex, leaving, late, events>>

CancelRunAnyStatus(r) ==
    /\ Exists(r) /\ run[r].status # "cancelled" /\ Disturbance
    /\ run' = [run EXCEPT ![r].status = "cancelled", ![r].epoch = @ + 1]
    /\ UNCHANGED <<ex, leaving, late>>

(* cancel_run: its epoch, once it is moved on, fences whoever executes it. *)
CancelRun(r) ==
    /\ Disturbance
    /\ run[r].status \in Active \cup Resumable \cup {"failed"}
    /\ run' = [run EXCEPT ![r].status = "cancelled", ![r].epoch = @ + 1]
    /\ UNCHANGED <<ex, leaving, late>>

RequestFinish(r) ==
    /\ Disturbance
    /\ run[r].status \in Active
    /\ run' = [run EXCEPT ![r].finishing = TRUE]
    /\ UNCHANGED <<ex, leaving, late>>

(* resume_run: a new segment, with a budget of its own. *)
ResumeRun(r) ==
    /\ Disturbance
    /\ run[r].status \in Resumable /\ Latest(r)
    /\ ~ \E s \in Runs : run[s].status \in Active
    /\ run' = [run EXCEPT ![r].status = "queued", ![r].epoch = @ + 1,
                          ![r].finishing = FALSE, ![r].clock = "none",
                          ![r].modelCalls = 0, ![r].toolExecs = 0,
                          ![r].finalSent = FALSE]
    /\ UNCHANGED <<ex, leaving, late>>

Tick(r) ==
    /\ run[r].status = "running" /\ run[r].clock \in {"open", "closing"}
    /\ run' = [run EXCEPT ![r].clock = IF @ = "open" THEN "closing" ELSE "over"]
    /\ UNCHANGED <<ex, leaving, late, events>>
-----------------------------------------------------------------------------
(* The fences of the store. *)

(* _guard_run_completion *)
CompletableAnyStatus(r, e) == run[r].epoch = e /\ run[r].clock # "over"
Completable(r, e) == /\ run[r].status = "running"
                     /\ run[r].epoch = e
                     /\ run[r].clock # "over"

(* guard_tool_operation *)
OperableAnyStatus(r, e) == /\ run[r].epoch = e /\ run[r].clock # "over"
                           /\ ~run[r].finishing /\ ~run[r].finalSent
OperableWhileFinishing(r, e) == Completable(r, e) /\ ~run[r].finalSent
Operable(r, e) == /\ Completable(r, e)
                  /\ ~run[r].finishing
                  /\ ~run[r].finalSent

(* What the graph reads of its run before it goes on: _run_epoch_active. *)
Job(x) == run[ex[x].job]
Current(x) == Job(x).status = "running" /\ Job(x).epoch = ex[x].mine
MayComplete(x) == Completable(ex[x].job, ex[x].mine)
MayOperate(x) == Operable(ex[x].job, ex[x].mine)

At(x, point) == ex[x].at = point
Go(x, point) == ex' = [ex EXCEPT ![x].at = point]
Leave(x) == ex' = [ex EXCEPT ![x] = Idle]
ToFinish(x) == ex' = [ex EXCEPT ![x].at = "finish", ![x].turn = {},
                                ![x].call = NoCall, ![x].guard = 0]
Untouched == UNCHANGED <<leaving, late, events>>

(* The graph ends and leaves the run as it is. *)
Stop(x) == Leave(x) /\ UNCHANGED run

(* An exception nothing caught: the loop's fail_run, for the claimed epoch. *)
Raise(x) ==
    /\ run' = IF Job(x).status = "running" /\ Job(x).epoch = ex[x].claimed
              THEN [run EXCEPT ![ex[x].job].status = "failed"] ELSE run
    /\ Leave(x)

(* fail_run or pause_run inside the graph: only its own epoch. *)
Settle(x, s) ==
    /\ run' = IF Current(x) THEN [run EXCEPT ![ex[x].job].status = s] ELSE run
    /\ Leave(x)
-----------------------------------------------------------------------------
(* Processes. *)

Recovered == [r \in Runs |-> IF run[r].status = "running"
                             THEN [run[r] EXCEPT !.status = "interrupted"]
                             ELSE run[r]]

(* _serve: recover_interrupted_runs, then the loop. *)
Start(x) ==
    /\ x \in leaving /\ At(x, "idle")
    /\ run' = Recovered
    /\ leaving' = leaving \ {x}
    /\ UNCHANGED <<ex, late, events>>

(* stop: the runs are recovered while the loop is still in its graph. *)
Shutdown(x) ==
    /\ x \notin leaving /\ Disturbance
    /\ run' = Recovered
    /\ leaving' = leaving \cup {x}
    /\ UNCHANGED <<ex, late>>

Crash(x) ==
    /\ x \notin leaving \/ ~At(x, "idle")
    /\ Disturbance
    /\ Leave(x)
    /\ leaving' = leaving \cup {x}
    /\ late' = {l \in late : l.by # x}
    /\ UNCHANGED run

ClaimNextRun(x) ==
    /\ At(x, "idle") /\ x \notin leaving
    /\ \E r \in Runs :
         /\ run[r].status = "queued"
         /\ SetStatus(r, "running")
         /\ ex' = [ex EXCEPT ![x] = [Idle EXCEPT !.at = "claimed", !.job = r,
                                                 !.claimed = run[r].epoch]]
    /\ Untouched

(* The deadline is set once a segment. *)
StartClock(r) ==
    run' = [run EXCEPT ![r].clock = IF @ = "none" THEN "open" ELSE @]

(* run: initialize_execution_budget ... *)
InitializeBudget(x) ==
    /\ At(x, "claimed")
    /\ \/ /\ Completable(ex[x].job, ex[x].claimed)
          /\ StartClock(ex[x].job)
          /\ Go(x, "begun")
       \/ ~Completable(ex[x].job, ex[x].claimed) /\ Raise(x)
    /\ Untouched

(* ... and the run is read again: its epoch then is the scope's. *)
EnterScope(x) ==
    /\ At(x, "begun")
    /\ ex' = [ex EXCEPT ![x].at = "recovering", ![x].mine = Job(x).epoch]
    /\ UNCHANGED run /\ Untouched

Unreturned(x) == IF Job(x).batch \subseteq Job(x).results THEN {} ELSE Job(x).batch

Recover(x) ==
    /\ At(x, "recovering")
    /\ \/ ~Current(x) /\ Stop(x)
       \/ /\ Current(x)
          /\ \/ Job(x).finishing /\ ToFinish(x)
             \/ /\ ~Job(x).finishing
                /\ ex' = [ex EXCEPT ![x].turn = Unreturned(x),
                      ![x].at = IF Unreturned(x) = {} THEN "model" ELSE "tools"]
          /\ UNCHANGED run
    /\ Untouched
-----------------------------------------------------------------------------
(* The model node. *)

BudgetLeft(x) == Job(x).modelCalls < ModelLimit - 1 /\ Job(x).toolExecs < ToolLimit

BeginTurn(x) ==
    /\ At(x, "model")
    /\ \/ ~Current(x) /\ Stop(x)
       \/ ~MayComplete(x) /\ Raise(x)
       \/ MayComplete(x) /\ StartClock(ex[x].job) /\ ToFinish(x)
       \/ /\ MayComplete(x) /\ BudgetLeft(x)
          /\ ~Job(x).finishing /\ Job(x).clock # "closing"
          /\ StartClock(ex[x].job)
          /\ ex' = [ex EXCEPT ![x].at = "dispatch", ![x].again = FALSE]
    /\ Untouched

DispatchModelToTheLast(x) ==
    /\ At(x, "dispatch") /\ MayOperate(x)
    /\ Job(x).clock = "open" /\ Job(x).modelCalls < ModelLimit
    /\ run' = [run EXCEPT ![ex[x].job].modelCalls = @ + 1]
    /\ Go(x, "waiting")
    /\ Untouched

(* dispatch_model: one request of the segment stays for the final answer. *)
DispatchModel(x) ==
    /\ At(x, "dispatch") /\ MayOperate(x)
    /\ Job(x).clock = "open" /\ Job(x).modelCalls < ModelLimit - 1
    /\ run' = [run EXCEPT ![ex[x].job].modelCalls = @ + 1]
    /\ Go(x, "waiting")
    /\ Untouched

(* The ways a dispatch is refused: nothing is left of the budget, or the   *)
(* fence is closed and _wait_for_model takes that for a cancellation.      *)
DispatchRefused(x) ==
    /\ At(x, "dispatch")
    /\ \/ /\ MayOperate(x) \/ Job(x).clock \in {"closing", "over"}
          /\ ToFinish(x) /\ UNCHANGED run
       \/ ~MayOperate(x) /\ Stop(x)
       \/ ~ex[x].again /\ Settle(x, "interrupted")
       \/ Settle(x, "failed")
    /\ Untouched

Answer(x, turn) ==
    /\ At(x, "waiting") /\ turn \subseteq CallsOf[ex[x].job] \ Job(x).issued
    /\ ex' = [ex EXCEPT ![x].at = "answered", ![x].turn = turn,
                        ![x].again = FALSE]
    /\ run' = [run EXCEPT ![ex[x].job].issued = @ \cup turn]
    /\ Untouched

(* _wait_for_model polls the run; the call it leaves settles on its own. *)
LeaveModel(x) ==
    /\ At(x, "waiting")
    /\ \/ ~Current(x) /\ Stop(x)
       \/ /\ Current(x) /\ (Job(x).finishing \/ Job(x).clock # "open")
          /\ ToFinish(x) /\ UNCHANGED run
    /\ Untouched

(* One more request after an overflow or malformed arguments. *)
TryAgain(x) ==
    /\ At(x, "waiting") /\ ~ex[x].again
    /\ ex' = [ex EXCEPT ![x].at = "dispatch", ![x].again = TRUE]
    /\ UNCHANGED run /\ Untouched

(* The provider or the working context fails the turn. *)
FailTurn(x) ==
    /\ ex[x].at \in {"dispatch", "waiting", "answered"}
    /\ Raise(x)
    /\ Untouched

(* confirm_model_delivery, and what _model reads after it. *)
ConfirmDelivery(x) ==
    /\ At(x, "answered")
    /\ \/ ~MayComplete(x) /\ Raise(x)
       \/ /\ MayComplete(x)
          /\ \/ Job(x).finishing /\ ToFinish(x)
             \/ /\ ~Job(x).finishing
                /\ Go(x, IF ex[x].turn = {} THEN "text" ELSE "asking")
          /\ UNCHANGED run
    /\ Untouched

(* save_assistant_tool_message: the calls are recorded before any begins. *)
SaveBatch(x) ==
    /\ At(x, "asking")
    /\ \/ ~MayOperate(x) /\ Raise(x)
       \/ /\ MayOperate(x)
          /\ run' = [run EXCEPT ![ex[x].job].batch = ex[x].turn]
          /\ Go(x, "asked")
    /\ Untouched

(* A finished save request ends with its receipt instead of a model turn. *)
ReceiptOnly(x) == \E c \in Writes : ex[x].turn = {c}

(* save_step, wherever a node ends with it. *)
SaveStep(x) ==
    /\ ex[x].at \in {"text", "asked", "counted", "done"}
    /\ \/ ~MayComplete(x) /\ Raise(x)
       \/ /\ MayComplete(x)
          /\ \/ At(x, "text") /\ Go(x, "final")
             \/ ex[x].at \in {"asked", "counted"} /\ Go(x, "tools")
             \/ /\ At(x, "done")
                /\ \E point \in {"model"} \cup IF ReceiptOnly(x) THEN {"final"} ELSE {} :
                     ex' = [ex EXCEPT ![x].at = point, ![x].turn = {}]
          /\ UNCHANGED run
    /\ Untouched
-----------------------------------------------------------------------------
(* The tools node: the calls of the turn, one at a time. *)

PendingCalls(x) == ex[x].turn \ Job(x).results

NextCall(x) ==
    /\ At(x, "tools")
    /\ \/ ~Current(x) /\ Stop(x)
       \/ /\ Current(x)
          /\ \/ /\ \/ Job(x).finishing
                   \/ Job(x).clock # "open" /\ PendingCalls(x) # {}
                /\ ToFinish(x)
             \/ ~Job(x).finishing /\ PendingCalls(x) = {} /\ Go(x, "done")
             \/ /\ ~Job(x).finishing /\ Job(x).clock = "open"
                /\ \E c \in PendingCalls(x) :
                     /\ \A d \in PendingCalls(x) : c <= d
                     /\ ex' = [ex EXCEPT ![x].at = "begin", ![x].call = c]
          /\ UNCHANGED run
    /\ Untouched

Receipt(x) == Job(x).receipt[ex[x].call]
SetReceipt(x, s) == run' = [run EXCEPT ![ex[x].job].receipt[ex[x].call] = s]

BeginToolCallLater(x) ==
    /\ At(x, "begin")
    /\ \/ ~MayOperate(x) /\ Raise(x)
       \/ /\ MayOperate(x) /\ UNCHANGED run
          /\ Go(x, IF Receipt(x) = "completed" THEN "saving" ELSE "called")
    /\ Untouched

(* begin_tool_call: the intent, unless an earlier execution left one. *)
BeginToolCall(x) ==
    /\ At(x, "begin")
    /\ \/ ~MayOperate(x) /\ Raise(x)
       \/ /\ MayOperate(x) /\ Receipt(x) = "completed"
          /\ Go(x, "saving") /\ UNCHANGED run
       \/ /\ MayOperate(x) /\ Receipt(x) # "completed"
          /\ SetReceipt(x, "running") /\ Go(x, "called")
    /\ Untouched

DispatchTool(x) ==
    /\ At(x, "called")
    /\ \/ ~MayOperate(x) /\ Raise(x)
       \/ /\ MayOperate(x) /\ Job(x).toolExecs >= ToolLimit
          /\ ToFinish(x) /\ UNCHANGED run
       \/ /\ MayOperate(x) /\ Job(x).toolExecs < ToolLimit
          /\ run' = [run EXCEPT ![ex[x].job].toolExecs = @ + 1]
          /\ Go(x, "invoking")
    /\ Untouched

(* execute: the tool's own scope has the epoch run_context reads now. *)
Invoke(x) ==
    /\ At(x, "invoking")
    /\ ex' = [ex EXCEPT ![x].at = "working", ![x].guard = Job(x).epoch]
    /\ UNCHANGED run /\ Untouched

(* The tool's transaction: guard, operation key, change, mutation receipt. *)
CommitEffect(x) ==
    /\ At(x, "working") /\ ex[x].call \in Writes
    /\ Operable(ex[x].job, ex[x].guard)
    /\ run' = [run EXCEPT ![ex[x].job].effects = @ \cup {ex[x].call}]
    /\ Go(x, "worked")
    /\ Untouched

(* A read, an invalid argument, or an error, which becomes the result. *)
ReturnUnchanged(x) ==
    /\ At(x, "working") /\ Go(x, "worked")
    /\ UNCHANGED run /\ Untouched

(* _controlled_search: reads are not waited for. *)
LeaveRead(x) ==
    /\ At(x, "working") /\ ex[x].call \notin Writes
    /\ \/ ~Current(x) /\ Stop(x)
       \/ /\ Current(x) /\ (Job(x).finishing \/ Job(x).clock # "open")
          /\ ToFinish(x) /\ UNCHANGED run
       \/ Current(x) /\ Settle(x, "interrupted")
    /\ late' = late \cup {[by |-> x, job |-> ex[x].job, epoch |-> ex[x].mine,
                           call |-> ex[x].call]}
    /\ UNCHANGED <<leaving, events>>

(* finish_tool_call *)
FinishToolCall(x) ==
    /\ At(x, "worked")
    /\ \/ ~(MayOperate(x) /\ Receipt(x) = "running") /\ Raise(x)
       \/ /\ MayOperate(x) /\ Receipt(x) = "running"
          /\ SetReceipt(x, "completed") /\ Go(x, "saving")
    /\ Untouched

(* A read whose scope changed meanwhile: recorded, discarded, paused. *)
DiscardRead(x) ==
    /\ At(x, "worked") /\ ex[x].call \notin Writes
    /\ MayOperate(x) /\ Receipt(x) = "running"
    /\ run' = [run EXCEPT ![ex[x].job].receipt[ex[x].call] = "completed",
                          ![ex[x].job].status = "interrupted"]
    /\ Leave(x)
    /\ Untouched

LateReadEnds(l) ==
    /\ late' = late \ {l}
    /\ run' = IF Operable(l.job, l.epoch) /\ run[l.job].receipt[l.call] = "running"
              THEN [run EXCEPT ![l.job].receipt[l.call] = "completed"] ELSE run
    /\ UNCHANGED <<ex, leaving, events>>

SaveToolResult(x) ==
    /\ At(x, "saving")
    /\ \/ ~MayOperate(x) /\ Raise(x)
       \/ /\ MayOperate(x)
          /\ run' = [run EXCEPT ![ex[x].job].results = @ \cup {ex[x].call}]
          /\ ex' = [ex EXCEPT ![x].at = "counted", ![x].call = NoCall,
                              ![x].guard = 0]
    /\ Untouched
-----------------------------------------------------------------------------
(* _finish_with_available, and the final node. *)

(* dispatch_model(final=True): once a segment. *)
DispatchFinal(x) ==
    /\ At(x, "finish") /\ MayComplete(x)
    /\ Job(x).modelCalls < ModelLimit /\ ~Job(x).finalSent
    /\ run' = [run EXCEPT ![ex[x].job].modelCalls = @ + 1,
                          ![ex[x].job].finalSent = TRUE]
    /\ Go(x, "finalizing")
    /\ Untouched

(* Without the final answer: a progress note stands in for it, or the      *)
(* budget is used up, or a deadline the guard noticed ends the graph.      *)
FinishWithout(x) ==
    /\ At(x, "finish")
    /\ \/ ~Current(x) /\ Stop(x)
       \/ Current(x) /\ Go(x, "final") /\ UNCHANGED run
       \/ Settle(x, "budget_exhausted")
       \/ Job(x).clock = "over" /\ Stop(x)
    /\ Untouched

EndFinal(x) ==
    /\ At(x, "finalizing")
    /\ \/ ~Current(x) /\ Stop(x)
       \/ Current(x) /\ Go(x, "final") /\ UNCHANGED run
    /\ Untouched

(* try_complete_run, outcome "completed". *)
CompleteRun(x) ==
    /\ At(x, "final") /\ MayComplete(x)
    /\ run' = [run EXCEPT ![ex[x].job].status = "completed",
                          ![ex[x].job].answers = @ + 1]
    /\ Leave(x)
    /\ Untouched

(* The other outcomes: fenced, a protocol text, a context that changed. *)
NotCompleted(x) ==
    /\ At(x, "final")
    /\ \/ ~MayComplete(x) /\ Stop(x)
       \/ Settle(x, "failed")
       \/ /\ MayComplete(x) /\ ex[x].restarts < 1
          /\ ex' = [ex EXCEPT ![x].at = "model", ![x].turn = {},
                              ![x].restarts = @ + 1]
          /\ UNCHANGED run
       \/ MayComplete(x) /\ ex[x].restarts = 1 /\ Settle(x, "interrupted")
    /\ Untouched
-----------------------------------------------------------------------------
User(r) == \/ CreateRun(r) \/ CancelRun(r) \/ RequestFinish(r)
           \/ ResumeRun(r) \/ Tick(r)
Process(x) == Start(x) \/ Shutdown(x) \/ Crash(x)
Model(x) == \/ BeginTurn(x) \/ DispatchModel(x) \/ DispatchRefused(x)
            \/ \E turn \in SUBSET Calls : Answer(x, turn)
            \/ LeaveModel(x) \/ TryAgain(x) \/ FailTurn(x)
            \/ ConfirmDelivery(x) \/ SaveBatch(x) \/ SaveStep(x)
Tools(x) == \/ NextCall(x) \/ BeginToolCall(x) \/ DispatchTool(x) \/ Invoke(x)
            \/ CommitEffect(x) \/ ReturnUnchanged(x) \/ LeaveRead(x)
            \/ FinishToolCall(x) \/ DiscardRead(x) \/ SaveToolResult(x)
Final(x) == \/ DispatchFinal(x) \/ FinishWithout(x) \/ EndFinal(x)
            \/ CompleteRun(x) \/ NotCompleted(x)
Graph(x) == \/ ClaimNextRun(x) \/ InitializeBudget(x) \/ EnterScope(x)
            \/ Recover(x) \/ Model(x) \/ Tools(x) \/ Final(x)

Next == \/ \E r \in Runs : User(r)
        \/ \E x \in Executors : Process(x) \/ Graph(x)
        \/ \E l \in late : LateReadEnds(l)

Spec == Init /\ [][Next]_vars
-----------------------------------------------------------------------------
(* Properties. *)

(* A thread goes on with its newest run only: create_run, resume_run and   *)
(* cancel_run together leave every earlier run completed or cancelled.     *)
NewestRunOnly ==
    \A r, s \in Runs : r < s /\ Exists(s) => run[r].status \in Closed

(* A run has its final message exactly when it is completed, whoever else  *)
(* reached try_complete_run with it.                                       *)
AnsweredOnce ==
    \A r \in Runs :
        run[r].answers = IF run[r].status = "completed" THEN 1 ELSE 0

(* The last request of a segment is kept for the final answer, and the     *)
(* limits of initialize_execution_budget are never passed, however many    *)
(* executions of the run take part in the segment.                         *)
BudgetKept ==
    \A r \in Runs :
        /\ run[r].toolExecs <= ToolLimit
        /\ run[r].modelCalls <= IF run[r].finalSent THEN ModelLimit
                                ELSE ModelLimit - 1

(* The intent of a tool call is on record before its effect, and its       *)
(* result before the message that tells the model (begin_tool_call,        *)
(* finish_tool_call, save_tool_result_message).                            *)
ReceiptsLead ==
    \A r \in Runs, c \in Calls :
        /\ c \in run[r].effects => run[r].receipt[c] # "none"
        /\ c \in run[r].results => run[r].receipt[c] = "completed"

Traces(r) == <<run[r].batch, run[r].receipt, run[r].results, run[r].effects>>

(* A completed or cancelled run stays so: no settlement, recovery or late  *)
(* answer of an execution that outlived it revives or fails it.            *)
ClosedForGood ==
    [][\A r \in Runs : run[r].status \in Closed =>
           run'[r].status = run[r].status /\ run'[r].epoch = run[r].epoch]_vars

(* Nothing is done for a run that is not running: an execution left over   *)
(* from before a cancellation or a recovery is fenced at its next write.   *)
StoppedIsStill ==
    [][\A r \in Runs : run[r].status # "running" =>
           Traces(r)' = Traces(r) /\ run'[r].answers = run[r].answers]_vars

(* Once the user has asked a run to finish, no tool runs and no result is  *)
(* recorded in that segment; the one request left is the final one.        *)
FinishStopsWork ==
    [][\A r \in Runs : run[r].finishing /\ run'[r].finishing =>
           /\ Traces(r)' = Traces(r)
           /\ run'[r].toolExecs = run[r].toolExecs
           /\ run'[r].modelCalls # run[r].modelCalls => run'[r].finalSent]_vars

(* The final request is the last of its segment, for every execution.      *)
FinalIsLast ==
    [][\A r \in Runs : run[r].finalSent /\ run'[r].finalSent =>
           /\ Traces(r)' = Traces(r)
           /\ run'[r].modelCalls = run[r].modelCalls
           /\ run'[r].toolExecs = run[r].toolExecs]_vars

(* A running run the user asked to finish is being finished by a process,  *)
(* as long as its time is not over and no process is down.                 *)
FinishAttended ==
    \A r \in Runs :
        /\ run[r].status = "running" /\ run[r].finishing
        /\ run[r].clock # "over" /\ leaving = {}
        => \E x \in Executors : ex[x].job = r

(* A committed write has a completed receipt, once no process is at it and *)
(* none has died.                                                          *)
EffectHasReceipt ==
    \A r \in Runs : \A c \in run[r].effects :
        \/ run[r].receipt[c] = "completed"
        \/ leaving # {}
        \/ \E x \in Executors : ex[x].job = r /\ ex[x].call = c
=============================================================================
