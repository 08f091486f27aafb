------------------------- MODULE AssistantRunProofs -------------------------
(***************************************************************************)
(* The safety of AssistantRun for any runs, processes, calls, limits and   *)
(* bound.  The graph has many steps, a run's row few kinds of change: one  *)
(* lemma says which (RowChanges), and the properties of the rows follow    *)
(* from it without the graph.                                              *)
(***************************************************************************)
EXTENDS AssistantRun, TLAPS

InTool == {"begin", "called", "invoking", "working", "worked", "saving"}

(* A process in the graph has a run, and one in the tools node a call. *)
Placed ==
    \A x \in Executors :
        /\ ex[x].at # "idle" => ex[x].job \in Runs
        /\ ex[x].at \in InTool => ex[x].call \in Calls

TypeInv == TypeOK /\ Placed

-----------------------------------------------------------------------------
(* The step predicates that the actions share keep the types. *)
LEMMA IdleIsExecutor == Idle \in Executor
  BY DEF Idle, Executor, Points

LEMMA LeaveTypes ==
    ASSUME TypeInv, NEW x \in Executors, Leave(x)
    PROVE  ex' \in [Executors -> Executor] /\ Placed'
<1>1. \A y \in Executors : ex'[y] = IF y = x THEN Idle ELSE ex[y]
  BY DEF TypeInv, TypeOK, Leave
<1>2. Idle.at = "idle" /\ Idle.at \notin InTool
  BY DEF Idle, InTool
<1>3. Placed'
  BY <1>1, <1>2 DEF TypeInv, Placed
<1> QED
  BY <1>3, IdleIsExecutor DEF TypeInv, TypeOK, Leave

LEMMA StatusTypes ==
    ASSUME TypeOK, NEW r \in Runs, NEW s \in Statuses
    PROVE  [run EXCEPT ![r].status = s] \in [Runs -> RunRow]
  BY DEF TypeOK, RunRow

LEMMA StopTypes ==
    ASSUME TypeInv, NEW x \in Executors, Stop(x)
    PROVE  run' \in [Runs -> RunRow] /\ ex' \in [Executors -> Executor]
             /\ Placed'
  BY LeaveTypes DEF TypeInv, TypeOK, Stop

LEMMA RaiseTypes ==
    ASSUME TypeInv, NEW x \in Executors, Raise(x), ex[x].at # "idle"
    PROVE  run' \in [Runs -> RunRow] /\ ex' \in [Executors -> Executor]
             /\ Placed'
<1>1. ex[x].job \in Runs /\ "failed" \in Statuses
  BY DEF TypeInv, Placed, Statuses
<1>2. [run EXCEPT ![ex[x].job].status = "failed"] \in [Runs -> RunRow]
  BY <1>1, StatusTypes DEF TypeInv
<1> QED
  BY <1>2, LeaveTypes DEF TypeInv, TypeOK, Raise

LEMMA SettleTypes ==
    ASSUME TypeInv, NEW x \in Executors, ex[x].at # "idle",
           NEW s \in Statuses, Settle(x, s)
    PROVE  run' \in [Runs -> RunRow] /\ ex' \in [Executors -> Executor]
             /\ Placed'
<1>1. [run EXCEPT ![ex[x].job].status = s] \in [Runs -> RunRow]
  BY StatusTypes DEF TypeInv, Placed
<1> QED
  BY <1>1, LeaveTypes DEF TypeInv, TypeOK, Settle

(* A process that moves to a state of the right shape. *)
LEMMA MoveTypes ==
    ASSUME TypeInv, NEW x \in Executors, NEW e \in Executor,
           ex' = [ex EXCEPT ![x] = e],
           e.at # "idle" => e.job \in Runs,
           e.at \in InTool => e.call \in Calls
    PROVE  ex' \in [Executors -> Executor] /\ Placed'
<1>1. \A y \in Executors : ex'[y] = IF y = x THEN e ELSE ex[y]
  BY DEF TypeInv, TypeOK
<1>2. Placed'
  BY <1>1 DEF TypeInv, Placed
<1> QED
  BY <1>2 DEF TypeInv, TypeOK

LEMMA GoTypes ==
    ASSUME TypeInv, NEW x \in Executors, NEW point \in Points, Go(x, point),
           ex[x].at # "idle", point \in InTool => ex[x].call \in Calls
    PROVE  ex' \in [Executors -> Executor] /\ Placed'
<1> DEFINE e == [ex[x] EXCEPT !.at = point]
<1>1. e \in Executor /\ ex' = [ex EXCEPT ![x] = e]
  BY DEF TypeInv, TypeOK, Go, Executor
<1>2. e.at = point /\ e.job = ex[x].job /\ e.call = ex[x].call
  BY DEF TypeInv, TypeOK, Executor
<1> HIDE DEF e
<1> QED
  BY <1>1, <1>2, MoveTypes DEF TypeInv, Placed

LEMMA ToFinishTypes ==
    ASSUME TypeInv, NEW x \in Executors, ToFinish(x), ex[x].at # "idle"
    PROVE  ex' \in [Executors -> Executor] /\ Placed'
<1> DEFINE e == [ex[x] EXCEPT !.at = "finish", !.turn = {}, !.call = NoCall,
                              !.guard = 0]
<1>1. ex[x] \in Executor
  BY DEF TypeInv, TypeOK
<1>2. e \in Executor
  <2>1. "finish" \in Points
    BY DEF Points
  <2> QED
    BY <1>1, <2>1 DEF Executor
<1>3. e.at = "finish" /\ e.job = ex[x].job
  BY <1>1 DEF Executor
<1>4. ex' = [ex EXCEPT ![x] = e]
  BY DEF TypeInv, TypeOK, ToFinish
<1> HIDE DEF e
<1>5. ex[x].job \in Runs /\ "finish" \notin InTool
  BY DEF TypeInv, Placed, InTool
<1> QED
  BY <1>2, <1>3, <1>4, <1>5, MoveTypes

(* What is left of TypeInv' once run, ex and Placed are dealt with. *)
LEMMA RestTypes ==
    ASSUME TypeInv, Untouched, run' \in [Runs -> RunRow],
           ex' \in [Executors -> Executor] /\ Placed'
    PROVE  TypeInv'
  BY DEF Untouched, TypeInv, TypeOK

(* A row that changes into another one of the right shape. *)
LEMMA RowTypes ==
    ASSUME TypeOK, NEW r \in Runs, NEW row \in RunRow,
           run' = [run EXCEPT ![r] = row]
    PROVE  run' \in [Runs -> RunRow]
  BY DEF TypeOK

LEMMA CountersAreNat ==
    ASSUME NEW row \in RunRow
    PROVE  /\ row.epoch \in Nat /\ row.epoch + 1 \in Nat
           /\ row.modelCalls \in Nat /\ row.modelCalls + 1 \in Nat
           /\ row.toolExecs \in Nat /\ row.toolExecs + 1 \in Nat
           /\ row.answers \in Nat /\ row.answers + 1 \in Nat
  BY DEF RunRow

LEMMA UserTypes ==
    ASSUME TypeInv, NEW r \in Runs, User(r)
    PROVE  TypeInv'
<1>1. Disturbance => events' \in 0..MaxEvents
  BY BoundAssumption DEF Disturbance, TypeInv, TypeOK
<1>2. events \in 0..MaxEvents /\ run[r] \in RunRow /\ TypeOK
  BY DEF TypeInv, TypeOK
<1>3. run[r].epoch + 1 \in Nat /\ run[r].epoch \in Nat
  BY <1>2, CountersAreNat
<1>4. \A s \in Active \cup Closed : s \in Statuses
  BY DEF Statuses
<1>5. UNCHANGED <<ex, leaving, late>> /\ events' \in 0..MaxEvents
      /\ run' \in [Runs -> RunRow]
  <2>1. CASE CreateRun(r)
    <3>1. [run[r] EXCEPT !.status = "queued", !.epoch = 1] \in RunRow
      BY <1>2, <1>4 DEF RunRow, Active
    <3> QED
      BY <2>1, <1>2, <3>1, RowTypes DEF CreateRun
  <2>2. CASE CancelRun(r)
    <3>1. [run[r] EXCEPT !.status = "cancelled", !.epoch = @ + 1] \in RunRow
      BY <1>2, <1>3, <1>4 DEF RunRow, Closed
    <3>2. /\ run' = [run EXCEPT ![r] = [run[r] EXCEPT !.status = "cancelled",
                                                     !.epoch = @ + 1]]
          /\ Disturbance /\ UNCHANGED <<ex, leaving, late>>
      BY <2>2 DEF CancelRun
    <3> QED
      BY <1>1, <1>2, <3>1, <3>2, RowTypes
  <2>3. CASE RequestFinish(r)
    <3>1. [run[r] EXCEPT !.finishing = TRUE] \in RunRow
      BY <1>2 DEF RunRow
    <3> QED
      BY <2>3, <1>1, <1>2, <3>1, RowTypes DEF RequestFinish
  <2>4. CASE ResumeRun(r)
    <3> DEFINE row == [run[r] EXCEPT !.status = "queued", !.epoch = @ + 1,
                                     !.finishing = FALSE, !.clock = "none",
                                     !.modelCalls = 0, !.toolExecs = 0,
                                     !.finalSent = FALSE]
    <3>1. row \in RunRow
      BY <1>2, <1>3, <1>4 DEF RunRow, Active
    <3>2. run' = [run EXCEPT ![r] = row]
      BY <2>4 DEF ResumeRun
    <3> HIDE DEF row
    <3>3. run' \in [Runs -> RunRow]
      BY <1>2, <3>1, <3>2, RowTypes
    <3> QED
      BY <2>4, <1>1, <3>3 DEF ResumeRun
  <2>5. CASE Tick(r)
    <3>1. [run[r] EXCEPT !.clock = IF @ = "open" THEN "closing" ELSE "over"]
              \in RunRow
      BY <1>2 DEF RunRow
    <3> QED
      BY <2>5, <1>2, <3>1, RowTypes DEF Tick
  <2> QED
    BY <2>1, <2>2, <2>3, <2>4, <2>5 DEF User
<1> QED
  BY <1>5 DEF TypeInv, TypeOK, Placed

LEMMA RecoveredTypes == TypeOK => Recovered \in [Runs -> RunRow]
  BY DEF TypeOK, Recovered, RunRow, Statuses, Resumable

LEMMA ProcessTypes ==
    ASSUME TypeInv, NEW x \in Executors, Process(x)
    PROVE  TypeInv'
<1> USE DEF TypeInv, TypeOK
<1>1. Disturbance => events' \in 0..MaxEvents
  BY BoundAssumption DEF Disturbance
<1>2. CASE Start(x)
  BY <1>2, RecoveredTypes DEF Start, Placed
<1>3. CASE Shutdown(x)
  BY <1>3, <1>1, RecoveredTypes DEF Shutdown, Placed
<1>4. CASE Crash(x)
  BY <1>4, <1>1, LeaveTypes DEF Crash
<1> QED
  BY <1>2, <1>3, <1>4 DEF Process

LEMMA StartClockTypes ==
    ASSUME TypeOK, NEW r \in Runs, StartClock(r)
    PROVE  run' \in [Runs -> RunRow]
<1>1. [run[r] EXCEPT !.clock = IF @ = "none" THEN "open" ELSE @] \in RunRow
  BY DEF TypeOK, RunRow
<1> QED
  BY <1>1, RowTypes DEF StartClock

LEMMA EntryTypes ==
    ASSUME TypeInv, NEW x \in Executors,
           ClaimNextRun(x) \/ InitializeBudget(x) \/ EnterScope(x) \/ Recover(x)
    PROVE  TypeInv'
<1>1. CASE ClaimNextRun(x)
  <2>1. PICK r \in Runs :
            /\ SetStatus(r, "running")
            /\ ex' = [ex EXCEPT ![x] = [Idle EXCEPT !.at = "claimed", !.job = r,
                                                    !.claimed = run[r].epoch]]
    BY <1>1 DEF ClaimNextRun
  <2> DEFINE e == [Idle EXCEPT !.at = "claimed", !.job = r,
                               !.claimed = run[r].epoch]
  <2>2. e \in Executor /\ e.job \in Runs /\ e.at \notin InTool
    <3>1. run[r].epoch \in Nat
      BY CountersAreNat DEF TypeInv, TypeOK
    <3> QED
      BY <3>1, IdleIsExecutor DEF Executor, Points, InTool
  <2>3. ex' = [ex EXCEPT ![x] = e]
    BY <2>1
  <2> HIDE DEF e
  <2>4. ex' \in [Executors -> Executor] /\ Placed'
    BY <2>2, <2>3, MoveTypes
  <2>5. run' \in [Runs -> RunRow]
    BY <2>1, StatusTypes DEF TypeInv, SetStatus, Statuses, Active
  <2> QED
    BY <1>1, <2>4, <2>5, RestTypes DEF ClaimNextRun
<1>2. CASE InitializeBudget(x)
  <2>1. ex[x].job \in Runs /\ ex[x].at # "idle"
    BY <1>2 DEF InitializeBudget, At, TypeInv, Placed
  <2>2. CASE Raise(x)
    BY <1>2, <2>1, <2>2, RaiseTypes, RestTypes DEF InitializeBudget
  <2>3. CASE StartClock(ex[x].job) /\ Go(x, "begun")
    <3>1. "begun" \in Points /\ "begun" \notin InTool
      BY DEF Points, InTool
    <3> QED
      BY <1>2, <2>1, <2>3, <3>1, GoTypes, StartClockTypes, RestTypes
         DEF InitializeBudget, TypeInv
  <2> QED
    BY <1>2, <2>2, <2>3 DEF InitializeBudget
<1>3. CASE EnterScope(x)
  <2>1. ex[x].job \in Runs
    BY <1>3 DEF EnterScope, At, TypeInv, Placed
  <2> DEFINE e == [ex[x] EXCEPT !.at = "recovering", !.mine = Job(x).epoch]
  <2>2. /\ e \in Executor /\ e.job = ex[x].job /\ e.at \notin InTool
        /\ ex' = [ex EXCEPT ![x] = e]
    <3>1. ex[x] \in Executor /\ Job(x).epoch \in Nat
      BY <2>1, CountersAreNat DEF TypeInv, TypeOK, Job
    <3>2. "recovering" \in Points /\ "recovering" \notin InTool
      BY DEF Points, InTool
    <3>3. e \in Executor /\ e.job = ex[x].job /\ e.at = "recovering"
      BY <3>1, <3>2 DEF Executor
    <3>4. ex' = [ex EXCEPT ![x] = e]
      BY <1>3 DEF EnterScope, TypeInv, TypeOK
    <3> QED
      BY <3>2, <3>3, <3>4
  <2> HIDE DEF e
  <2>3. ex' \in [Executors -> Executor] /\ Placed'
    BY <2>1, <2>2, MoveTypes
  <2> QED
    BY <1>3, <2>3, RestTypes DEF EnterScope, TypeInv, TypeOK
<1>4. CASE Recover(x)
  <2>1. ex[x].job \in Runs /\ ex[x].at # "idle"
    BY <1>4 DEF Recover, At, TypeInv, Placed
  <2>2. CASE Stop(x)
    BY <1>4, <2>2, StopTypes, RestTypes DEF Recover
  <2>3. CASE ToFinish(x) /\ UNCHANGED run
    BY <1>4, <2>1, <2>3, ToFinishTypes, RestTypes DEF Recover, TypeInv, TypeOK
  <2> DEFINE e == [ex[x] EXCEPT !.turn = Unreturned(x),
                      !.at = IF Unreturned(x) = {} THEN "model" ELSE "tools"]
  <2>4. CASE ex' = [ex EXCEPT ![x] = e] /\ UNCHANGED run
    <3>1. Unreturned(x) \in SUBSET Calls
      BY <2>1 DEF TypeInv, TypeOK, RunRow, Unreturned, Job
    <3>2. e \in Executor /\ e.job = ex[x].job /\ e.at \notin InTool
      <4>1. ex[x] \in Executor
        BY DEF TypeInv, TypeOK
      <4>2. {"model", "tools"} \subseteq Points \ InTool
        BY DEF Points, InTool
      <4>3. e \in Executor /\ e.job = ex[x].job /\ e.at \in {"model", "tools"}
        BY <3>1, <4>1, <4>2 DEF Executor
      <4> QED
        BY <4>2, <4>3
    <3> HIDE DEF e
    <3>3. ex' \in [Executors -> Executor] /\ Placed'
      BY <2>1, <2>4, <3>2, MoveTypes
    <3> QED
      BY <1>4, <2>4, <3>3, RestTypes DEF Recover, TypeInv, TypeOK
  <2>5. \/ Stop(x)
        \/ ToFinish(x) /\ UNCHANGED run
        \/ ex' = [ex EXCEPT ![x] = e] /\ UNCHANGED run
    BY <1>4 DEF Recover
  <2> QED
    BY <2>2, <2>3, <2>4, <2>5
<1> QED
  BY <1>1, <1>2, <1>3, <1>4

Outside == Points \ InTool

LEMMA OutsidePoints ==
    /\ {"model", "dispatch", "waiting", "answered", "text", "asking", "asked",
        "tools", "counted", "done", "finish", "finalizing", "final"}
       \subseteq Outside
    /\ InTool \subseteq Points
  BY DEF Outside, Points, InTool

(* A process in the graph has a row of the right type to read. *)
LEMMA JobTypes ==
    ASSUME TypeInv, NEW x \in Executors, ex[x].at # "idle"
    PROVE  ex[x].job \in Runs /\ Job(x) \in RunRow /\ ex[x] \in Executor
  BY DEF TypeInv, TypeOK, Placed, Job

LEMMA WalkTypes ==
    ASSUME TypeInv, NEW x \in Executors, NEW point \in Outside, Go(x, point),
           ex[x].at # "idle"
    PROVE  ex' \in [Executors -> Executor] /\ Placed'
  BY GoTypes DEF Outside

LEMMA ModelTypes ==
    ASSUME TypeInv, NEW x \in Executors, Model(x)
    PROVE  TypeInv'
<1>1. ex[x].at # "idle"
  BY DEF Model, BeginTurn, DispatchModel, DispatchRefused, Answer, LeaveModel,
         TryAgain, FailTurn, ConfirmDelivery, SaveBatch, SaveStep, At
<1>2. /\ ex[x].job \in Runs /\ Job(x) \in RunRow /\ ex[x] \in Executor
      /\ Job(x) = run[ex[x].job] /\ TypeOK
  BY <1>1, JobTypes DEF TypeInv, Job
<1>3. run \in [Runs -> RunRow] /\ ex \in [Executors -> Executor] /\ Placed
  BY DEF TypeInv, TypeOK
<1>4. /\ Stop(x) \/ Raise(x) => /\ run' \in [Runs -> RunRow]
                               /\ ex' \in [Executors -> Executor] /\ Placed'
      /\ ToFinish(x) => ex' \in [Executors -> Executor] /\ Placed'
  BY <1>1, StopTypes, RaiseTypes, ToFinishTypes
<1> SUFFICES /\ run' \in [Runs -> RunRow]
             /\ ex' \in [Executors -> Executor] /\ Placed'
             /\ Untouched
  BY RestTypes
<1>5. CASE BeginTurn(x)
  <2> DEFINE e == [ex[x] EXCEPT !.at = "dispatch", !.again = FALSE]
  <2>1. ASSUME ex' = [ex EXCEPT ![x] = e]
        PROVE  ex' \in [Executors -> Executor] /\ Placed'
    <3>1. e \in Executor /\ e.job = ex[x].job /\ e.at \notin InTool
      BY <1>2 DEF Executor, Points, InTool
    <3> HIDE DEF e
    <3> QED
      BY <2>1, <1>2, <3>1, MoveTypes
  <2>2. StartClock(ex[x].job) => run' \in [Runs -> RunRow]
    BY <1>2, StartClockTypes
  <2> QED
    BY <1>5, <1>4, <2>1, <2>2 DEF BeginTurn
<1>6. CASE DispatchModel(x)
  <2>1. [Job(x) EXCEPT !.modelCalls = @ + 1] \in RunRow
    BY <1>2, CountersAreNat DEF RunRow
  <2>2. run' = [run EXCEPT ![ex[x].job] = [Job(x) EXCEPT !.modelCalls = @ + 1]]
    BY <1>6 DEF DispatchModel, Job
  <2> QED
    BY <1>6, <1>1, <1>2, <2>1, <2>2, RowTypes, WalkTypes, OutsidePoints
       DEF DispatchModel
<1>7. CASE DispatchRefused(x)
  <2>1. \A s \in {"interrupted", "failed"} : s \in Statuses
    BY DEF Statuses, Resumable
  <2> QED
    BY <1>7, <1>1, <1>3, <1>4, <2>1, SettleTypes DEF DispatchRefused
<1>8. ASSUME NEW turn \in SUBSET Calls, Answer(x, turn)
      PROVE  /\ run' \in [Runs -> RunRow]
             /\ ex' \in [Executors -> Executor] /\ Placed'
             /\ Untouched
  <2> DEFINE e == [ex[x] EXCEPT !.at = "answered", !.turn = turn,
                                !.again = FALSE]
             row == [Job(x) EXCEPT !.issued = @ \cup turn]
  <2>1. e \in Executor /\ e.job = ex[x].job /\ e.at \notin InTool
    BY <1>2 DEF Executor, Points, InTool
  <2>2. row \in RunRow
    BY <1>2 DEF RunRow
  <2>3. ex' = [ex EXCEPT ![x] = e] /\ run' = [run EXCEPT ![ex[x].job] = row]
    BY <1>8 DEF Answer, Job
  <2> HIDE DEF e, row
  <2> QED
    BY <1>8, <1>2, <2>1, <2>2, <2>3, MoveTypes, RowTypes DEF Answer
<1>9. CASE LeaveModel(x)
  BY <1>9, <1>3, <1>4 DEF LeaveModel
<1>10. CASE TryAgain(x)
  <2> DEFINE e == [ex[x] EXCEPT !.at = "dispatch", !.again = TRUE]
  <2>1. e \in Executor /\ e.job = ex[x].job /\ e.at \notin InTool
    BY <1>2 DEF Executor, Points, InTool
  <2>2. ex' = [ex EXCEPT ![x] = e]
    BY <1>10 DEF TryAgain
  <2> HIDE DEF e
  <2> QED
    BY <1>10, <1>2, <1>3, <2>1, <2>2, MoveTypes DEF TryAgain
<1>11. CASE FailTurn(x)
  BY <1>11, <1>4 DEF FailTurn
<1>12. CASE ConfirmDelivery(x)
  BY <1>12, <1>1, <1>3, <1>4, WalkTypes, OutsidePoints DEF ConfirmDelivery
<1>13. CASE SaveBatch(x)
  <2>1. [Job(x) EXCEPT !.batch = ex[x].turn] \in RunRow
    BY <1>2 DEF RunRow, Executor
  <2>2. run' = [run EXCEPT ![ex[x].job] = [Job(x) EXCEPT !.batch = ex[x].turn]]
        => run' \in [Runs -> RunRow]
    BY <1>2, <2>1, RowTypes
  <2> QED
    BY <1>13, <1>1, <1>4, <2>2, WalkTypes, OutsidePoints DEF SaveBatch, Job
<1>14. CASE SaveStep(x)
  <2>1. ASSUME NEW point \in {"model", "final"},
               ex' = [ex EXCEPT ![x].at = point, ![x].turn = {}]
        PROVE  ex' \in [Executors -> Executor] /\ Placed'
    <3> DEFINE e == [ex[x] EXCEPT !.at = point, !.turn = {}]
    <3>1. e \in Executor /\ e.job = ex[x].job /\ e.at \notin InTool
      BY <1>2 DEF Executor, Points, InTool
    <3>2. ex' = [ex EXCEPT ![x] = e]
      BY <2>1
    <3> HIDE DEF e
    <3> QED
      BY <1>2, <3>1, <3>2, MoveTypes
  <2> QED
    BY <1>14, <1>1, <1>3, <1>4, <2>1, WalkTypes, OutsidePoints DEF SaveStep
<1> QED
  BY <1>5, <1>6, <1>7, <1>8, <1>9, <1>10, <1>11, <1>12, <1>13, <1>14 DEF Model

LEMMA ReceiptTypes ==
    ASSUME NEW row \in RunRow, NEW c, NEW t \in {"none", "running", "completed"}
    PROVE  [row EXCEPT !.receipt[c] = t] \in RunRow
  BY DEF RunRow

LEMMA ToolsTypes ==
    ASSUME TypeInv, NEW x \in Executors, Tools(x)
    PROVE  TypeInv'
<1>1. ex[x].at # "idle"
  BY DEF Tools, NextCall, BeginToolCall, DispatchTool, Invoke, CommitEffect,
         ReturnUnchanged, LeaveRead, FinishToolCall, DiscardRead,
         SaveToolResult, At
<1>2. /\ ex[x].job \in Runs /\ Job(x) \in RunRow /\ ex[x] \in Executor
      /\ Job(x) = run[ex[x].job] /\ TypeOK
  BY <1>1, JobTypes DEF TypeInv, Job
<1>3. run \in [Runs -> RunRow] /\ ex \in [Executors -> Executor] /\ Placed
  BY DEF TypeInv, TypeOK
<1>4. /\ Stop(x) \/ Raise(x) => /\ run' \in [Runs -> RunRow]
                               /\ ex' \in [Executors -> Executor] /\ Placed'
      /\ ToFinish(x) => ex' \in [Executors -> Executor] /\ Placed'
  BY <1>1, StopTypes, RaiseTypes, ToFinishTypes
<1>5. ASSUME NEW point \in InTool, Go(x, point), ex[x].at \in InTool
      PROVE  ex' \in [Executors -> Executor] /\ Placed'
  <2>1. ex[x].call \in Calls /\ point \in Points
    BY <1>5, OutsidePoints DEF TypeInv, Placed
  <2> QED
    BY <1>1, <1>5, <2>1, GoTypes
<1>6. \A t \in {"running", "completed"} : SetReceipt(x, t) => run' \in [Runs -> RunRow]
  BY <1>2, ReceiptTypes, RowTypes DEF SetReceipt, Job
<1>7. LeaveRead(x) \/ (run' \in [Runs -> RunRow] /\ Untouched
                      /\ ex' \in [Executors -> Executor] /\ Placed')
  <2>1. CASE NextCall(x)
    <3>1. ASSUME NEW c \in PendingCalls(x),
                 ex' = [ex EXCEPT ![x].at = "begin", ![x].call = c]
          PROVE  ex' \in [Executors -> Executor] /\ Placed'
      <4> DEFINE e == [ex[x] EXCEPT !.at = "begin", !.call = c]
      <4>1. c \in Calls
        BY <1>2 DEF PendingCalls, Executor
      <4>2. e \in Executor /\ e.job = ex[x].job /\ e.call = c
        BY <1>2, <4>1 DEF Executor, Points
      <4>3. ex' = [ex EXCEPT ![x] = e]
        BY <3>1
      <4> HIDE DEF e
      <4> QED
        BY <1>2, <4>1, <4>2, <4>3, MoveTypes
    <3> QED
      BY <2>1, <1>1, <1>3, <1>4, <3>1, WalkTypes, OutsidePoints DEF NextCall
  <2>2. CASE BeginToolCall(x)
    BY <2>2, <1>3, <1>4, <1>5, <1>6 DEF BeginToolCall, At, InTool
  <2>3. CASE DispatchTool(x)
    <3>1. [Job(x) EXCEPT !.toolExecs = @ + 1] \in RunRow
      BY <1>2, CountersAreNat DEF RunRow
    <3>2. run' = [run EXCEPT ![ex[x].job] = [Job(x) EXCEPT !.toolExecs = @ + 1]]
          => run' \in [Runs -> RunRow]
      BY <1>2, <3>1, RowTypes
    <3> QED
      BY <2>3, <1>3, <1>4, <1>5, <3>2 DEF DispatchTool, At, InTool, Job
  <2>4. CASE Invoke(x)
    <3> DEFINE e == [ex[x] EXCEPT !.at = "working", !.guard = Job(x).epoch]
    <3>1. Job(x).epoch \in Nat
      BY <1>2, CountersAreNat
    <3>2. e \in Executor /\ e.job = ex[x].job /\ e.call = ex[x].call
      BY <1>2, <3>1 DEF Executor, Points
    <3>3. ex' = [ex EXCEPT ![x] = e] /\ ex[x].at \in InTool
      BY <2>4 DEF Invoke, At, InTool
    <3> HIDE DEF e
    <3> QED
      BY <2>4, <1>2, <1>3, <3>2, <3>3, MoveTypes DEF Invoke, Placed
  <2>5. CASE CommitEffect(x)
    <3>1. ex[x].call \in Calls /\ ex[x].at \in InTool
      BY <2>5, <1>3 DEF CommitEffect, At, InTool, Placed
    <3>2. [Job(x) EXCEPT !.effects = @ \cup {ex[x].call}] \in RunRow
      BY <1>2, <3>1 DEF RunRow
    <3>3. run' = [run EXCEPT ![ex[x].job] =
                     [Job(x) EXCEPT !.effects = @ \cup {ex[x].call}]]
      BY <2>5 DEF CommitEffect, Job
    <3>4. run' \in [Runs -> RunRow]
      BY <1>2, <3>2, <3>3, RowTypes
    <3> QED
      BY <2>5, <1>5, <3>1, <3>4 DEF CommitEffect, InTool
  <2>6. CASE ReturnUnchanged(x)
    BY <2>6, <1>3, <1>5 DEF ReturnUnchanged, At, InTool
  <2>7. CASE FinishToolCall(x)
    BY <2>7, <1>4, <1>5, <1>6 DEF FinishToolCall, At, InTool
  <2>8. CASE DiscardRead(x)
    <3> DEFINE row == [[Job(x) EXCEPT !.receipt[ex[x].call] = "completed"]
                       EXCEPT !.status = "interrupted"]
    <3>1. "interrupted" \in Statuses
      BY DEF Statuses, Resumable
    <3>2. row \in RunRow
      BY <1>2, <3>1, ReceiptTypes DEF RunRow
    <3>3. run' = [run EXCEPT ![ex[x].job] = row]
      BY <2>8 DEF DiscardRead, Job
    <3> HIDE DEF row
    <3>4. run' \in [Runs -> RunRow]
      BY <1>2, <3>2, <3>3, RowTypes
    <3> QED
      BY <2>8, <3>4, LeaveTypes DEF DiscardRead
  <2>9. CASE SaveToolResult(x)
    <3>1. ex[x].call \in Calls
      BY <2>9, <1>3 DEF SaveToolResult, At, InTool, Placed
    <3>2. [Job(x) EXCEPT !.results = @ \cup {ex[x].call}] \in RunRow
      BY <1>2, <3>1 DEF RunRow
    <3>3. run' = [run EXCEPT ![ex[x].job] =
                     [Job(x) EXCEPT !.results = @ \cup {ex[x].call}]]
          => run' \in [Runs -> RunRow]
      BY <1>2, <3>2, RowTypes
    <3> DEFINE e == [ex[x] EXCEPT !.at = "counted", !.call = NoCall, !.guard = 0]
    <3>4. e \in Executor /\ e.job = ex[x].job /\ e.at \notin InTool
      BY <1>2 DEF Executor, Points, InTool
    <3>5. ex' = [ex EXCEPT ![x] = e]
          => ex' \in [Executors -> Executor] /\ Placed'
      <4> HIDE DEF e
      <4> QED
        BY <1>2, <3>4, MoveTypes
    <3> QED
      BY <2>9, <1>4, <3>3, <3>5 DEF SaveToolResult, Job
  <2> QED
    BY <2>1, <2>2, <2>3, <2>4, <2>5, <2>6, <2>7, <2>8, <2>9 DEF Tools
<1>8. CASE LeaveRead(x)
  <2>1. "interrupted" \in Statuses
    BY DEF Statuses, Resumable
  <2>2. run' \in [Runs -> RunRow] /\ ex' \in [Executors -> Executor] /\ Placed'
    BY <1>8, <1>1, <1>3, <1>4, <2>1, SettleTypes DEF LeaveRead
  <2>3. [by |-> x, job |-> ex[x].job, epoch |-> ex[x].mine, call |-> ex[x].call]
        \in LateRead
    BY <1>8, <1>2, <1>3 DEF LeaveRead, At, InTool, Placed, LateRead, Executor
  <2> QED
    BY <1>8, <2>2, <2>3 DEF LeaveRead, TypeInv, TypeOK
<1> QED
  BY <1>7, <1>8, RestTypes

LEMMA FinalTypes ==
    ASSUME TypeInv, NEW x \in Executors, Final(x)
    PROVE  TypeInv'
<1>1. ex[x].at # "idle"
  BY DEF Final, DispatchFinal, FinishWithout, EndFinal, CompleteRun,
         NotCompleted, At
<1>2. /\ ex[x].job \in Runs /\ Job(x) \in RunRow /\ ex[x] \in Executor
      /\ Job(x) = run[ex[x].job] /\ TypeOK
  BY <1>1, JobTypes DEF TypeInv, Job
<1>3. run \in [Runs -> RunRow] /\ ex \in [Executors -> Executor] /\ Placed
  BY DEF TypeInv, TypeOK
<1>4. Stop(x) => /\ run' \in [Runs -> RunRow]
                 /\ ex' \in [Executors -> Executor] /\ Placed'
  BY <1>1, StopTypes
<1>5. \A s \in {"failed", "interrupted", "budget_exhausted"} :
          Settle(x, s) => /\ run' \in [Runs -> RunRow]
                          /\ ex' \in [Executors -> Executor] /\ Placed'
  BY <1>1, SettleTypes DEF Statuses, Resumable
<1> SUFFICES /\ run' \in [Runs -> RunRow]
             /\ ex' \in [Executors -> Executor] /\ Placed'
             /\ Untouched
  BY RestTypes
<1>6. CASE DispatchFinal(x)
  <2> DEFINE row == [Job(x) EXCEPT !.modelCalls = @ + 1, !.finalSent = TRUE]
  <2>1. row \in RunRow
    BY <1>2, CountersAreNat DEF RunRow
  <2>2. run' = [run EXCEPT ![ex[x].job] = row]
    BY <1>6 DEF DispatchFinal, Job
  <2> HIDE DEF row
  <2> QED
    BY <1>6, <1>1, <1>2, <2>1, <2>2, RowTypes, WalkTypes, OutsidePoints
       DEF DispatchFinal
<1>7. CASE FinishWithout(x)
  BY <1>7, <1>1, <1>3, <1>4, <1>5, WalkTypes, OutsidePoints DEF FinishWithout
<1>8. CASE EndFinal(x)
  BY <1>8, <1>1, <1>3, <1>4, WalkTypes, OutsidePoints DEF EndFinal
<1>9. CASE CompleteRun(x)
  <2> DEFINE row == [Job(x) EXCEPT !.status = "completed", !.answers = @ + 1]
  <2>1. row \in RunRow
    BY <1>2, CountersAreNat DEF RunRow, Statuses, Closed
  <2>2. run' = [run EXCEPT ![ex[x].job] = row]
    BY <1>9 DEF CompleteRun, Job
  <2> HIDE DEF row
  <2> QED
    BY <1>9, <1>2, <2>1, <2>2, RowTypes, LeaveTypes DEF CompleteRun
<1>10. CASE NotCompleted(x)
  <2>1. ASSUME ex[x].restarts < 1,
               ex' = [ex EXCEPT ![x].at = "model", ![x].turn = {},
                                ![x].restarts = @ + 1]
        PROVE  ex' \in [Executors -> Executor] /\ Placed'
    <3> DEFINE e == [ex[x] EXCEPT !.at = "model", !.turn = {},
                                  !.restarts = @ + 1]
    <3>1. ex[x].restarts + 1 \in 0..1
      BY <2>1, <1>2 DEF Executor
    <3>2. e \in Executor /\ e.job = ex[x].job /\ e.at \notin InTool
      BY <1>2, <3>1 DEF Executor, Points, InTool
    <3>3. ex' = [ex EXCEPT ![x] = e]
      BY <2>1
    <3> HIDE DEF e
    <3> QED
      BY <1>2, <3>2, <3>3, MoveTypes
  <2> QED
    BY <1>10, <1>3, <1>4, <1>5, <2>1 DEF NotCompleted
<1> QED
  BY <1>6, <1>7, <1>8, <1>9, <1>10 DEF Final

LEMMA LateTypes ==
    ASSUME TypeInv, NEW l \in late, LateReadEnds(l)
    PROVE  TypeInv'
<1>1. l.job \in Runs /\ l \in LateRead
  BY DEF TypeInv, TypeOK, LateRead
<1>2. [run[l.job] EXCEPT !.receipt[l.call] = "completed"] \in RunRow
  BY <1>1, ReceiptTypes DEF TypeInv, TypeOK
<1>3. run' \in [Runs -> RunRow]
  BY <1>1, <1>2, RowTypes DEF LateReadEnds, TypeInv, TypeOK
<1> QED
  BY <1>3 DEF LateReadEnds, TypeInv, TypeOK, Placed

LEMMA InitTypes == Init => TypeInv
<1> SUFFICES ASSUME Init PROVE TypeInv
  OBVIOUS
<1>1. NewRun \in RunRow
  BY DEF NewRun, RunRow, Statuses
<1>2. Idle.at = "idle" /\ Idle.at \notin InTool
  BY DEF Idle, InTool
<1>3. TypeOK
  BY <1>1, IdleIsExecutor, BoundAssumption DEF Init, TypeOK
<1>4. Placed
  BY <1>2 DEF Init, Placed
<1> QED
  BY <1>3, <1>4 DEF TypeInv

LEMMA TypeStep == TypeInv /\ [Next]_vars => TypeInv'
<1> SUFFICES ASSUME TypeInv, [Next]_vars PROVE TypeInv'
  OBVIOUS
<1>1. CASE \E r \in Runs : User(r)
  BY <1>1, UserTypes
<1>2. ASSUME NEW x \in Executors, Process(x) PROVE TypeInv'
  BY <1>2, ProcessTypes
<1>3. ASSUME NEW x \in Executors, Graph(x) PROVE TypeInv'
  BY <1>3, EntryTypes, ModelTypes, ToolsTypes, FinalTypes DEF Graph
<1>4. CASE \E l \in late : LateReadEnds(l)
  BY <1>4, LateTypes
<1>5. CASE UNCHANGED vars
  BY <1>5 DEF vars, TypeInv, TypeOK, Placed
<1> QED
  BY <1>1, <1>2, <1>3, <1>4, <1>5 DEF Next

LEMMA AlwaysTyped == Spec => []TypeInv
  BY InitTypes, TypeStep, PTL DEF Spec

(* Rows, processes and late reads keep their shape: create_run to         *)
(* try_complete_run never write a status, a receipt or a counter the       *)
(* store's readers do not know.                                            *)
THEOREM Types == Spec => []TypeOK
  BY AlwaysTyped, PTL DEF TypeInv

-----------------------------------------------------------------------------
(* The kinds of change a run's row goes through, besides the user's. *)
Doable(r) == Operable(r, run[r].epoch)

Claimed(r) == /\ run[r].status = "queued"
              /\ run'[r] = [run[r] EXCEPT !.status = "running"]
Settled(r) == /\ run[r].status = "running"
              /\ \E s \in Resumable \cup {"failed"} :
                    run'[r] = [run[r] EXCEPT !.status = s]
Clocked(r) == /\ run[r].status = "running"
              /\ run'[r] = [run[r] EXCEPT !.clock = "open"]
Issued(r) == \E calls \in SUBSET Calls :
                run'[r] = [run[r] EXCEPT !.issued = calls]
Asked(r) == /\ Doable(r) /\ run[r].modelCalls < ModelLimit - 1
            /\ run'[r] = [run[r] EXCEPT !.modelCalls = @ + 1]
Batched(r) == /\ Doable(r)
              /\ \E calls \in SUBSET Calls :
                    run'[r] = [run[r] EXCEPT !.batch = calls]
Intended(r) == /\ Doable(r)
               /\ \E c \in Calls :
                     /\ run[r].receipt[c] # "completed"
                     /\ run'[r] = [run[r] EXCEPT !.receipt[c] = "running"]
Counted(r) == /\ Doable(r) /\ run[r].toolExecs < ToolLimit
              /\ run'[r] = [run[r] EXCEPT !.toolExecs = @ + 1]
Effected(r) == /\ Doable(r)
               /\ \E c \in Calls :
                     /\ run[r].receipt[c] # "none"
                     /\ run'[r] = [run[r] EXCEPT !.effects = @ \cup {c}]
Returned(r) == /\ Doable(r)
               /\ \E c \in Calls, s \in {"running", "interrupted"} :
                     run'[r] = [run[r] EXCEPT !.receipt[c] = "completed",
                                              !.status = s]
Recorded(r) == /\ Doable(r)
               /\ \E c \in Calls :
                     /\ run[r].receipt[c] = "completed"
                     /\ run'[r] = [run[r] EXCEPT !.results = @ \cup {c}]
Finalized(r) == /\ run[r].status = "running"
                /\ run[r].modelCalls < ModelLimit /\ ~run[r].finalSent
                /\ run'[r] = [run[r] EXCEPT !.modelCalls = @ + 1,
                                            !.finalSent = TRUE]
Completed(r) == /\ run[r].status = "running"
                /\ run'[r] = [run[r] EXCEPT !.status = "completed",
                                            !.answers = @ + 1]

Change(r) == \/ run'[r] = run[r] \/ User(r)
             \/ Claimed(r) \/ Settled(r) \/ Clocked(r) \/ Issued(r)
             \/ Asked(r) \/ Batched(r) \/ Intended(r) \/ Counted(r)
             \/ Effected(r) \/ Returned(r) \/ Recorded(r)
             \/ Finalized(r) \/ Completed(r)

(* A call between its intent and its result has the receipt for it. *)
InHand ==
    \A x \in Executors :
        /\ ex[x].at \in {"called", "invoking", "working", "worked"}
              => Job(x).receipt[ex[x].call] # "none"
        /\ ex[x].at = "saving" => Job(x).receipt[ex[x].call] = "completed"

LEMMA OneRow ==
    ASSUME TypeInv, NEW r \in Runs, NEW row, run' = [run EXCEPT ![r] = row]
    PROVE  run'[r] = row /\ \A q \in Runs : q # r => run'[q] = run[q]
  BY DEF TypeInv, TypeOK

LEMMA SettleChanges ==
    ASSUME TypeInv, NEW x \in Executors, ex[x].at # "idle",
           NEW s \in Resumable \cup {"failed"},
           Stop(x) \/ Raise(x) \/ Settle(x, s)
    PROVE  \A r \in Runs : Change(r)
<1>1. ex[x].job \in Runs
  BY DEF TypeInv, Placed
<1>2. ASSUME NEW t \in Resumable \cup {"failed"}, Job(x).status = "running",
             run' = [run EXCEPT ![ex[x].job].status = t]
      PROVE  \A r \in Runs : Change(r)
  <2>1. run' = [run EXCEPT ![ex[x].job] = [run[ex[x].job] EXCEPT !.status = t]]
    BY <1>2
  <2> QED
    BY <1>1, <1>2, <2>1, OneRow DEF Change, Settled, Job
<1>3. ASSUME UNCHANGED run PROVE \A r \in Runs : Change(r)
  BY <1>3 DEF Change
<1> QED
  BY <1>2, <1>3 DEF Stop, Raise, Settle, Current

LEMMA UserChanges ==
    ASSUME TypeInv, NEW r \in Runs, User(r)
    PROVE  \A q \in Runs : Change(q)
<1>1. \A q \in Runs : q # r => run'[q] = run[q]
  BY DEF User, CreateRun, CancelRun, RequestFinish, ResumeRun, Tick, TypeInv,
         TypeOK
<1> QED
  BY <1>1 DEF Change

LEMMA ProcessChanges ==
    ASSUME TypeInv, NEW x \in Executors, Process(x)
    PROVE  \A r \in Runs : Change(r)
<1>1. ASSUME run' = Recovered, NEW r \in Runs PROVE Change(r)
  BY <1>1 DEF Recovered, Change, Settled, Resumable
<1>2. ASSUME UNCHANGED run PROVE \A r \in Runs : Change(r)
  BY <1>2 DEF Change
<1> QED
  BY <1>1, <1>2 DEF Process, Start, Shutdown, Crash

LEMMA ClockChanges ==
    ASSUME TypeInv, NEW q \in Runs, StartClock(q), run[q].status = "running"
    PROVE  \A r \in Runs : Change(r)
<1>1. run' = [run EXCEPT ![q] =
                 [run[q] EXCEPT !.clock = IF @ = "none" THEN "open" ELSE @]]
  BY DEF StartClock
<1>2. CASE run[q].clock = "none"
  BY <1>1, <1>2, OneRow DEF Change, Clocked
<1>3. CASE run[q].clock # "none"
  BY <1>1, <1>3, OneRow DEF Change, TypeInv, TypeOK, RunRow
<1> QED
  BY <1>2, <1>3

LEMMA EntryChanges ==
    ASSUME TypeInv, NEW x \in Executors,
           ClaimNextRun(x) \/ InitializeBudget(x) \/ EnterScope(x) \/ Recover(x)
    PROVE  \A r \in Runs : Change(r)
<1>1. ASSUME UNCHANGED run PROVE \A r \in Runs : Change(r)
  BY <1>1 DEF Change
<1>2. CASE ClaimNextRun(x)
  <2>1. PICK q \in Runs : run[q].status = "queued" /\ SetStatus(q, "running")
    BY <1>2 DEF ClaimNextRun
  <2>2. run' = [run EXCEPT ![q] = [run[q] EXCEPT !.status = "running"]]
    BY <2>1 DEF SetStatus
  <2> QED
    BY <2>1, <2>2, OneRow DEF Change, Claimed
<1>3. CASE InitializeBudget(x)
  <2>1. ex[x].at # "idle" /\ ex[x].job \in Runs
    BY <1>3 DEF InitializeBudget, At, TypeInv, Placed
  <2> QED
    BY <1>3, <2>1, SettleChanges, ClockChanges DEF InitializeBudget, Completable
<1>4. CASE EnterScope(x)
  BY <1>4, <1>1 DEF EnterScope
<1>5. CASE Recover(x)
  BY <1>5, <1>1 DEF Recover, Stop
<1> QED
  BY <1>2, <1>3, <1>4, <1>5

LEMMA ModelChanges ==
    ASSUME TypeInv, NEW x \in Executors, Model(x)
    PROVE  \A r \in Runs : Change(r)
<1>1. ex[x].at # "idle"
  BY DEF Model, BeginTurn, DispatchModel, DispatchRefused, Answer, LeaveModel,
         TryAgain, FailTurn, ConfirmDelivery, SaveBatch, SaveStep, At
<1>2. ex[x].job \in Runs /\ ex[x] \in Executor /\ Job(x) \in RunRow
  BY <1>1, JobTypes
<1>3. ASSUME UNCHANGED run PROVE \A r \in Runs : Change(r)
  BY <1>3 DEF Change
<1>4. Stop(x) \/ Raise(x) \/ Settle(x, "interrupted") \/ Settle(x, "failed")
      => \A r \in Runs : Change(r)
  BY <1>1, SettleChanges DEF Resumable
<1>5. CASE BeginTurn(x)
  BY <1>5, <1>2, <1>4, ClockChanges DEF BeginTurn, MayComplete, Completable
<1>6. CASE DispatchModel(x)
  <2>1. run' = [run EXCEPT ![ex[x].job] =
                   [run[ex[x].job] EXCEPT !.modelCalls = @ + 1]]
    BY <1>6 DEF DispatchModel
  <2>2. Doable(ex[x].job) /\ run[ex[x].job].modelCalls < ModelLimit - 1
    BY <1>6 DEF DispatchModel, MayOperate, Operable, Completable, Doable, Job
  <2> QED
    BY <1>2, <2>1, <2>2, OneRow DEF Change, Asked
<1>7. CASE DispatchRefused(x)
  BY <1>7, <1>3, <1>4 DEF DispatchRefused
<1>8. ASSUME NEW turn \in SUBSET Calls, Answer(x, turn)
      PROVE  \A r \in Runs : Change(r)
  <2> DEFINE calls == Job(x).issued \cup turn
  <2>1. calls \in SUBSET Calls
    BY <1>2 DEF RunRow
  <2>2. run' = [run EXCEPT ![ex[x].job] =
                   [run[ex[x].job] EXCEPT !.issued = calls]]
    BY <1>8 DEF Answer, Job
  <2> HIDE DEF calls
  <2> QED
    BY <1>2, <2>1, <2>2, OneRow DEF Change, Issued
<1>9. CASE LeaveModel(x)
  BY <1>9, <1>3, <1>4 DEF LeaveModel
<1>10. CASE TryAgain(x)
  BY <1>10, <1>3 DEF TryAgain
<1>11. CASE FailTurn(x)
  BY <1>11, <1>4 DEF FailTurn
<1>12. CASE ConfirmDelivery(x)
  BY <1>12, <1>3, <1>4 DEF ConfirmDelivery
<1>13. CASE SaveBatch(x)
  <2>1. ASSUME run' = [run EXCEPT ![ex[x].job].batch = ex[x].turn],
               MayOperate(x)
        PROVE  \A r \in Runs : Change(r)
    <3>1. run' = [run EXCEPT ![ex[x].job] =
                     [run[ex[x].job] EXCEPT !.batch = ex[x].turn]]
      BY <2>1
    <3>2. Doable(ex[x].job) /\ ex[x].turn \in SUBSET Calls
      BY <2>1, <1>2 DEF MayOperate, Operable, Completable, Doable, Executor
    <3> QED
      BY <1>2, <3>1, <3>2, OneRow DEF Change, Batched
  <2> QED
    BY <1>13, <1>4, <2>1 DEF SaveBatch
<1>14. CASE SaveStep(x)
  BY <1>14, <1>3, <1>4 DEF SaveStep
<1> QED
  BY <1>5, <1>6, <1>7, <1>8, <1>9, <1>10, <1>11, <1>12, <1>13, <1>14 DEF Model

LEMMA ToolsChanges ==
    ASSUME TypeInv, InHand, NEW x \in Executors, Tools(x)
    PROVE  \A r \in Runs : Change(r)
<1>1. ex[x].at # "idle"
  BY DEF Tools, NextCall, BeginToolCall, DispatchTool, Invoke, CommitEffect,
         ReturnUnchanged, LeaveRead, FinishToolCall, DiscardRead,
         SaveToolResult, At
<1>2. ex[x].job \in Runs /\ ex[x] \in Executor /\ Job(x) \in RunRow
  BY <1>1, JobTypes
<1>3. ASSUME UNCHANGED run PROVE \A r \in Runs : Change(r)
  BY <1>3 DEF Change
<1>4. Stop(x) \/ Raise(x) \/ Settle(x, "interrupted")
      => \A r \in Runs : Change(r)
  BY <1>1, SettleChanges DEF Resumable
<1>5. MayOperate(x) => Doable(ex[x].job) /\ Job(x).status = "running"
  BY DEF MayOperate, Operable, Completable, Doable, Job
<1>6. ex[x].at \in InTool => ex[x].call \in Calls
  BY DEF TypeInv, Placed
<1>7. ASSUME MayOperate(x), ex[x].call \in Calls,
             run' = [run EXCEPT ![ex[x].job] =
                        [Job(x) EXCEPT !.receipt[ex[x].call] = "completed"]]
      PROVE  \A r \in Runs : Change(r)
  <2>1. [Job(x) EXCEPT !.receipt[ex[x].call] = "completed"]
        = [Job(x) EXCEPT !.receipt[ex[x].call] = "completed",
                         !.status = "running"]
    BY <1>2, <1>5, <1>7 DEF RunRow
  <2> DEFINE row == [run[ex[x].job] EXCEPT !.receipt[ex[x].call] = "completed",
                                           !.status = "running"]
  <2>2. run' = [run EXCEPT ![ex[x].job] = row]
    BY <1>7, <2>1 DEF Job
  <2>3. run'[ex[x].job] = row /\ \A q \in Runs : q # ex[x].job => run'[q] = run[q]
    <3> HIDE DEF row
    <3> QED
      BY <1>2, <2>2, OneRow
  <2> QED
    BY <1>5, <1>7, <2>3 DEF Change, Returned
<1>8. CASE NextCall(x)
  BY <1>8, <1>3, <1>4 DEF NextCall
<1>9. CASE BeginToolCall(x)
  <2>1. ASSUME MayOperate(x), Receipt(x) # "completed",
               SetReceipt(x, "running")
        PROVE  \A r \in Runs : Change(r)
    <3>1. run' = [run EXCEPT ![ex[x].job] =
                     [run[ex[x].job] EXCEPT !.receipt[ex[x].call] = "running"]]
      BY <2>1 DEF SetReceipt
    <3>2. ex[x].call \in Calls
      BY <1>9, <1>6 DEF BeginToolCall, At, InTool
    <3> QED
      BY <1>2, <1>5, <2>1, <3>1, <3>2, OneRow DEF Change, Intended, Receipt, Job
  <2> QED
    BY <1>9, <1>3, <1>4, <2>1 DEF BeginToolCall
<1>10. CASE DispatchTool(x)
  <2>1. ASSUME run' = [run EXCEPT ![ex[x].job].toolExecs = @ + 1],
               MayOperate(x), Job(x).toolExecs < ToolLimit
        PROVE  \A r \in Runs : Change(r)
    <3>1. run' = [run EXCEPT ![ex[x].job] =
                     [run[ex[x].job] EXCEPT !.toolExecs = @ + 1]]
      BY <2>1
    <3> QED
      BY <1>2, <1>5, <2>1, <3>1, OneRow DEF Change, Counted, Job
  <2> QED
    BY <1>10, <1>3, <1>4, <2>1 DEF DispatchTool
<1>11. CASE Invoke(x) \/ ReturnUnchanged(x)
  BY <1>11, <1>3 DEF Invoke, ReturnUnchanged
<1>12. CASE CommitEffect(x)
  <2>1. run' = [run EXCEPT ![ex[x].job] =
                   [run[ex[x].job] EXCEPT !.effects = @ \cup {ex[x].call}]]
    BY <1>12 DEF CommitEffect
  <2>2. Doable(ex[x].job)
    BY <1>12 DEF CommitEffect, Operable, Completable, Doable
  <2>3. ex[x].call \in Calls /\ run[ex[x].job].receipt[ex[x].call] # "none"
    BY <1>12, <1>6 DEF CommitEffect, At, InTool, InHand, Job
  <2> QED
    BY <1>2, <2>1, <2>2, <2>3, OneRow DEF Change, Effected
<1>13. CASE LeaveRead(x)
  BY <1>13, <1>3, <1>4 DEF LeaveRead
<1>14. CASE FinishToolCall(x)
  BY <1>14, <1>4, <1>6, <1>7
     DEF FinishToolCall, SetReceipt, At, InTool, Job
<1>15. CASE DiscardRead(x)
  <2> DEFINE row == [run[ex[x].job] EXCEPT !.receipt[ex[x].call] = "completed",
                                           !.status = "interrupted"]
  <2>1. run' = [run EXCEPT ![ex[x].job] = row]
    BY <1>15 DEF DiscardRead
  <2>2. Doable(ex[x].job) /\ ex[x].call \in Calls
    BY <1>15, <1>5, <1>6 DEF DiscardRead, At, InTool
  <2>3. run'[ex[x].job] = row /\ \A q \in Runs : q # ex[x].job => run'[q] = run[q]
    <3> HIDE DEF row
    <3> QED
      BY <1>2, <2>1, OneRow
  <2> QED
    BY <2>2, <2>3 DEF Change, Returned
<1>16. CASE SaveToolResult(x)
  <2>1. ASSUME run' = [run EXCEPT ![ex[x].job].results = @ \cup {ex[x].call}],
               MayOperate(x)
        PROVE  \A r \in Runs : Change(r)
    <3> DEFINE row == [run[ex[x].job] EXCEPT !.results = @ \cup {ex[x].call}]
    <3>1. run' = [run EXCEPT ![ex[x].job] = row]
      BY <2>1
    <3>2. /\ ex[x].call \in Calls
          /\ run[ex[x].job].receipt[ex[x].call] = "completed"
      BY <1>16, <1>6 DEF SaveToolResult, At, InTool, InHand, Job
    <3>3. run'[ex[x].job] = row /\ \A q \in Runs : q # ex[x].job => run'[q] = run[q]
      <4> HIDE DEF row
      <4> QED
        BY <1>2, <3>1, OneRow
    <3>4. Recorded(ex[x].job)
      BY <1>5, <2>1, <3>2, <3>3 DEF Recorded
    <3> QED
      BY <3>3, <3>4 DEF Change
  <2> QED
    BY <1>16, <1>4, <2>1 DEF SaveToolResult
<1> QED
  BY <1>8, <1>9, <1>10, <1>11, <1>12, <1>13, <1>14, <1>15, <1>16 DEF Tools

LEMMA FinalChanges ==
    ASSUME TypeInv, NEW x \in Executors, Final(x)
    PROVE  \A r \in Runs : Change(r)
<1>1. ex[x].at # "idle"
  BY DEF Final, DispatchFinal, FinishWithout, EndFinal, CompleteRun,
         NotCompleted, At
<1>2. ex[x].job \in Runs
  BY <1>1, JobTypes
<1>3. ASSUME UNCHANGED run PROVE \A r \in Runs : Change(r)
  BY <1>3 DEF Change
<1>4. \A s \in Resumable \cup {"failed"} :
          Stop(x) \/ Settle(x, s) => \A r \in Runs : Change(r)
  BY <1>1, SettleChanges
<1>5. CASE DispatchFinal(x)
  <2>1. run' = [run EXCEPT ![ex[x].job] =
                   [run[ex[x].job] EXCEPT !.modelCalls = @ + 1,
                                          !.finalSent = TRUE]]
    BY <1>5 DEF DispatchFinal
  <2>2. /\ run[ex[x].job].status = "running" /\ ~run[ex[x].job].finalSent
        /\ run[ex[x].job].modelCalls < ModelLimit
    BY <1>5 DEF DispatchFinal, MayComplete, Completable, Job
  <2> QED
    BY <1>2, <2>1, <2>2, OneRow DEF Change, Finalized
<1>6. CASE FinishWithout(x)
  BY <1>6, <1>3, <1>4 DEF FinishWithout, Resumable
<1>7. CASE EndFinal(x)
  BY <1>7, <1>3, <1>4 DEF EndFinal, Resumable
<1>8. CASE CompleteRun(x)
  <2>1. run' = [run EXCEPT ![ex[x].job] =
                   [run[ex[x].job] EXCEPT !.status = "completed",
                                          !.answers = @ + 1]]
    BY <1>8 DEF CompleteRun
  <2>2. run[ex[x].job].status = "running"
    BY <1>8 DEF CompleteRun, MayComplete, Completable
  <2> QED
    BY <1>2, <2>1, <2>2, OneRow DEF Change, Completed
<1>9. CASE NotCompleted(x)
  BY <1>9, <1>3, <1>4 DEF NotCompleted, Resumable
<1> QED
  BY <1>5, <1>6, <1>7, <1>8, <1>9 DEF Final

LEMMA LateChanges ==
    ASSUME TypeInv, NEW l \in late, LateReadEnds(l)
    PROVE  \A r \in Runs : Change(r)
<1>1. l.job \in Runs /\ l.call \in Calls
  BY DEF TypeInv, TypeOK, LateRead
<1>2. CASE UNCHANGED run
  BY <1>2 DEF Change
<1>3. CASE ~UNCHANGED run
  <2> DEFINE row == [run[l.job] EXCEPT !.receipt[l.call] = "completed",
                                       !.status = "running"]
  <2>1. Doable(l.job) /\ run[l.job].status = "running"
    BY <1>3 DEF LateReadEnds, Operable, Completable, Doable
  <2>2. row = [run[l.job] EXCEPT !.receipt[l.call] = "completed"]
    BY <1>1, <2>1 DEF TypeInv, TypeOK, RunRow
  <2>3. run' = [run EXCEPT ![l.job] = row]
    BY <1>3, <2>2 DEF LateReadEnds
  <2>4. run'[l.job] = row /\ \A q \in Runs : q # l.job => run'[q] = run[q]
    <3> HIDE DEF row
    <3> QED
      BY <1>1, <2>3, OneRow
  <2> QED
    BY <1>1, <2>1, <2>4 DEF Change, Returned
<1> QED
  BY <1>2, <1>3

(* Whatever the graph of a process does, a row only ever changes this way. *)
LEMMA RowChanges ==
    ASSUME TypeInv, InHand, [Next]_vars
    PROVE  \A r \in Runs : Change(r)
<1>1. CASE \E r \in Runs : User(r)
  BY <1>1, UserChanges
<1>2. ASSUME NEW x \in Executors, Process(x)
      PROVE  \A r \in Runs : Change(r)
  BY <1>2, ProcessChanges
<1>3. ASSUME NEW x \in Executors, Graph(x)
      PROVE  \A r \in Runs : Change(r)
  BY <1>3, EntryChanges, ModelChanges, ToolsChanges, FinalChanges DEF Graph
<1>4. CASE \E l \in late : LateReadEnds(l)
  BY <1>4, LateChanges
<1>5. CASE UNCHANGED vars
  BY <1>5 DEF vars, Change
<1> QED
  BY <1>1, <1>2, <1>3, <1>4, <1>5 DEF Next

-----------------------------------------------------------------------------
(* What a process holds in the tools node stays on record. *)
Carrying == {"called", "invoking", "working", "worked", "saving"}

(* A step of x: away from the calls, along with its call, or to the result. *)
Carried(x) ==
    \/ ex'[x].at \notin Carrying
    \/ /\ ex[x].at \in Carrying \ {"saving"}
       /\ ex'[x].at \in Carrying \ {"saving"}
       /\ ex'[x].job = ex[x].job /\ ex'[x].call = ex[x].call
    \/ ex'[x].at # "saving" /\ Job(x)'.receipt[ex'[x].call] = "running"
    \/ Job(x)'.receipt[ex'[x].call] = "completed"

LEMMA ReceiptsGrow ==
    ASSUME TypeInv, NEW r \in Runs, Change(r), NEW c \in Calls
    PROVE  /\ run[r].receipt[c] # "none" => run'[r].receipt[c] # "none"
           /\ run[r].receipt[c] = "completed" => run'[r].receipt[c] = "completed"
<1>1. run[r] \in RunRow /\ run[r].receipt \in [Calls -> {"none", "running", "completed"}]
  BY DEF TypeInv, TypeOK, RunRow
<1>2. CASE User(r)
  <2>1. run'[r].receipt = run[r].receipt
    BY <1>2 DEF User, CreateRun, CancelRun, RequestFinish, ResumeRun, Tick,
                TypeInv, TypeOK, RunRow
  <2> QED
    BY <2>1
<1>3. CASE Intended(r) \/ Returned(r)
  <2>1. PICK d \in Calls, t \in {"running", "completed"} :
            /\ run'[r].receipt = [run[r].receipt EXCEPT ![d] = t]
            /\ t = "running" => run[r].receipt[d] # "completed"
    BY <1>1, <1>3 DEF Intended, Returned, RunRow
  <2>2. run'[r].receipt[c] = IF c = d THEN t ELSE run[r].receipt[c]
    BY <1>1, <2>1
  <2> QED
    BY <2>1, <2>2
<1>4. CASE run'[r].receipt = run[r].receipt
  BY <1>4
<1>5. User(r) \/ Intended(r) \/ Returned(r) \/ run'[r].receipt = run[r].receipt
  BY <1>1 DEF Change, Claimed, Settled, Clocked, Issued, Asked, Batched,
              Counted, Effected, Recorded, Finalized, Completed, RunRow
<1> QED
  BY <1>2, <1>3, <1>4, <1>5

LEMMA LeaveCarries ==
    ASSUME TypeInv, NEW x \in Executors,
           Leave(x) \/ ToFinish(x)
    PROVE  Carried(x) /\ \A y \in Executors : y # x => ex'[y] = ex[y]
  BY DEF TypeInv, TypeOK, Leave, ToFinish, Idle, Executor, Carried, Carrying

LEMMA GoCarries ==
    ASSUME TypeInv, NEW x \in Executors, NEW point, Go(x, point)
    PROVE  /\ ex'[x].at = point /\ ex'[x].job = ex[x].job
           /\ ex'[x].call = ex[x].call
           /\ \A y \in Executors : y # x => ex'[y] = ex[y]
<1>1. /\ ex' = [ex EXCEPT ![x] = [ex[x] EXCEPT !.at = point]]
      /\ ex \in [Executors -> Executor]
  BY DEF TypeInv, TypeOK, Go
<1>2. /\ [ex[x] EXCEPT !.at = point].at = point
      /\ [ex[x] EXCEPT !.at = point].job = ex[x].job
      /\ [ex[x] EXCEPT !.at = point].call = ex[x].call
  BY <1>1 DEF Executor
<1> QED
  BY <1>1, <1>2

(* Outside the tools node a process holds no call. *)
LEMMA EntryCarries ==
    ASSUME TypeInv, NEW x \in Executors,
           ClaimNextRun(x) \/ InitializeBudget(x) \/ EnterScope(x) \/ Recover(x)
    PROVE  Carried(x) /\ \A y \in Executors : y # x => ex'[y] = ex[y]
<1>1. CASE ClaimNextRun(x)
  <2>1. PICK r \in Runs :
            ex' = [ex EXCEPT ![x] = [Idle EXCEPT !.at = "claimed", !.job = r,
                                                 !.claimed = run[r].epoch]]
    BY <1>1 DEF ClaimNextRun
  <2>2. ex \in [Executors -> Executor]
    BY DEF TypeInv, TypeOK
  <2>3. ex'[x].at = "claimed" /\ \A y \in Executors : y # x => ex'[y] = ex[y]
    BY <2>1, <2>2 DEF Idle
  <2> QED
    BY <2>3 DEF Carried, Carrying
<1>2. CASE InitializeBudget(x)
  BY <1>2, LeaveCarries, GoCarries
     DEF InitializeBudget, Raise, Carried, Carrying
<1>3. CASE EnterScope(x)
  BY <1>3 DEF EnterScope, TypeInv, TypeOK, Executor, Carried, Carrying
<1>4. CASE Recover(x)
  <2>1. CASE Leave(x) \/ ToFinish(x)
    BY <2>1, LeaveCarries
  <2>2. CASE ex' = [ex EXCEPT ![x].turn = Unreturned(x),
                    ![x].at = IF Unreturned(x) = {} THEN "model" ELSE "tools"]
    BY <2>2 DEF TypeInv, TypeOK, Executor, Carried, Carrying
  <2> QED
    BY <1>4, <2>1, <2>2 DEF Recover, Stop
<1> QED
  BY <1>1, <1>2, <1>3, <1>4

LEMMA ModelCarries ==
    ASSUME TypeInv, NEW x \in Executors, Model(x)
    PROVE  Carried(x) /\ \A y \in Executors : y # x => ex'[y] = ex[y]
<1>1. CASE Leave(x) \/ ToFinish(x)
  BY <1>1, LeaveCarries
<1>2. ASSUME NEW point \in Outside, Go(x, point)
      PROVE  Carried(x) /\ \A y \in Executors : y # x => ex'[y] = ex[y]
  BY <1>2, GoCarries DEF Carried, Carrying, Outside, InTool
<1>3. CASE \/ ex' = [ex EXCEPT ![x].at = "dispatch", ![x].again = FALSE]
           \/ ex' = [ex EXCEPT ![x].at = "dispatch", ![x].again = TRUE]
  BY <1>3 DEF TypeInv, TypeOK, Executor, Carried, Carrying
<1>4. ASSUME NEW turn \in SUBSET Calls,
             ex' = [ex EXCEPT ![x].at = "answered", ![x].turn = turn,
                              ![x].again = FALSE]
      PROVE  Carried(x) /\ \A y \in Executors : y # x => ex'[y] = ex[y]
  BY <1>4 DEF TypeInv, TypeOK, Executor, Carried, Carrying
<1>5. ASSUME NEW point \in {"model", "final"},
             ex' = [ex EXCEPT ![x].at = point, ![x].turn = {}]
      PROVE  Carried(x) /\ \A y \in Executors : y # x => ex'[y] = ex[y]
  BY <1>5 DEF TypeInv, TypeOK, Executor, Carried, Carrying
<1>6. CASE BeginTurn(x) \/ DispatchRefused(x) \/ LeaveModel(x) \/ TryAgain(x)
           \/ FailTurn(x)
  BY <1>6, <1>1, <1>3
     DEF BeginTurn, DispatchRefused, LeaveModel, TryAgain, FailTurn, Stop,
         Raise, Settle
<1>7. CASE DispatchModel(x) \/ ConfirmDelivery(x) \/ SaveBatch(x)
  BY <1>7, <1>1, <1>2, OutsidePoints
     DEF DispatchModel, ConfirmDelivery, SaveBatch, Stop, Raise
<1>8. CASE \E turn \in SUBSET Calls : Answer(x, turn)
  BY <1>8, <1>4 DEF Answer
<1>9. CASE SaveStep(x)
  BY <1>9, <1>1, <1>2, <1>5, OutsidePoints DEF SaveStep, Stop, Raise
<1> QED
  BY <1>6, <1>7, <1>8, <1>9 DEF Model

LEMMA FinalCarries ==
    ASSUME TypeInv, NEW x \in Executors, Final(x)
    PROVE  Carried(x) /\ \A y \in Executors : y # x => ex'[y] = ex[y]
<1>1. CASE Leave(x)
  BY <1>1, LeaveCarries
<1>2. ASSUME NEW point \in Outside, Go(x, point)
      PROVE  Carried(x) /\ \A y \in Executors : y # x => ex'[y] = ex[y]
  BY <1>2, GoCarries DEF Carried, Carrying, Outside, InTool
<1>3. CASE ex' = [ex EXCEPT ![x].at = "model", ![x].turn = {},
                            ![x].restarts = @ + 1]
  BY <1>3 DEF TypeInv, TypeOK, Executor, Carried, Carrying
<1> QED
  BY <1>1, <1>2, <1>3, OutsidePoints
     DEF Final, DispatchFinal, FinishWithout, EndFinal, CompleteRun,
         NotCompleted, Stop, Settle

LEMMA ToolsCarries ==
    ASSUME TypeInv, InHand, NEW x \in Executors, Tools(x)
    PROVE  Carried(x) /\ \A y \in Executors : y # x => ex'[y] = ex[y]
<1>1. ex[x].at # "idle"
  BY DEF Tools, NextCall, BeginToolCall, DispatchTool, Invoke, CommitEffect,
         ReturnUnchanged, LeaveRead, FinishToolCall, DiscardRead,
         SaveToolResult, At
<1>2. /\ ex[x].job \in Runs /\ Job(x) \in RunRow
      /\ ex[x].at \in InTool => ex[x].call \in Calls
  BY <1>1, JobTypes DEF TypeInv, Placed
<1>3. CASE Leave(x) \/ ToFinish(x)
  BY <1>3, LeaveCarries
<1>4. ASSUME NEW point \in Outside, Go(x, point)
      PROVE  Carried(x) /\ \A y \in Executors : y # x => ex'[y] = ex[y]
  BY <1>4, GoCarries DEF Carried, Carrying, Outside, InTool
<1>5. ASSUME NEW point \in Carrying \ {"saving"}, Go(x, point),
             ex[x].at \in Carrying \ {"saving"}
      PROVE  Carried(x) /\ \A y \in Executors : y # x => ex'[y] = ex[y]
  BY <1>5, GoCarries DEF Carried
<1>6. ASSUME NEW point \in Points, NEW t, Go(x, point),
             ex[x].call \in Calls,
             SetReceipt(x, t) \/ (UNCHANGED run /\ Receipt(x) = t),
             \/ t = "running" /\ point # "saving"
             \/ t = "completed"
      PROVE  Carried(x) /\ \A y \in Executors : y # x => ex'[y] = ex[y]
  <2>1. /\ ex'[x].at = point /\ ex'[x].job = ex[x].job
        /\ ex'[x].call = ex[x].call
        /\ \A y \in Executors : y # x => ex'[y] = ex[y]
    BY <1>6, GoCarries
  <2>2. run'[ex[x].job].receipt[ex[x].call] = t
    <3>1. CASE SetReceipt(x, t)
      BY <1>2, <1>6, <3>1 DEF SetReceipt, TypeInv, TypeOK, RunRow, Job
    <3> QED
      BY <1>6, <3>1 DEF Receipt, Job
  <2>3. Job(x)'.receipt[ex'[x].call] = t
    BY <2>1, <2>2 DEF Job
  <2> QED
    BY <1>6, <2>1, <2>3 DEF Carried
<1>7. CASE NextCall(x)
  <2>1. ASSUME NEW c, ex' = [ex EXCEPT ![x].at = "begin", ![x].call = c]
        PROVE  Carried(x) /\ \A y \in Executors : y # x => ex'[y] = ex[y]
    BY <2>1 DEF TypeInv, TypeOK, Executor, Carried, Carrying
  <2> QED
    BY <1>7, <1>3, <1>4, <2>1, OutsidePoints DEF NextCall, Stop
<1>8. CASE BeginToolCall(x)
  BY <1>8, <1>2, <1>3, <1>6
     DEF BeginToolCall, Raise, At, InTool, Points
<1>9. CASE DispatchTool(x)
  BY <1>9, <1>3, <1>5 DEF DispatchTool, Raise, At, Carrying
<1>10. CASE Invoke(x)
  BY <1>10 DEF Invoke, At, TypeInv, TypeOK, Executor, Carried, Carrying
<1>11. CASE CommitEffect(x) \/ ReturnUnchanged(x)
  BY <1>11, <1>5 DEF CommitEffect, ReturnUnchanged, At, Carrying
<1>12. CASE LeaveRead(x) \/ DiscardRead(x)
  BY <1>12, <1>3 DEF LeaveRead, DiscardRead, Stop, Settle
<1>13. CASE FinishToolCall(x)
  BY <1>13, <1>2, <1>3, <1>6 DEF FinishToolCall, Raise, At, InTool, Points
<1>14. CASE SaveToolResult(x)
  <2>1. CASE ex' = [ex EXCEPT ![x].at = "counted", ![x].call = NoCall,
                              ![x].guard = 0]
    BY <2>1 DEF TypeInv, TypeOK, Executor, Carried, Carrying
  <2> QED
    BY <1>14, <1>3, <2>1 DEF SaveToolResult, Raise
<1> QED
  BY <1>7, <1>8, <1>9, <1>10, <1>11, <1>12, <1>13, <1>14 DEF Tools

LEMMA InHandInit == Init => InHand
  BY DEF Init, InHand, Idle

LEMMA InHandStep == TypeInv /\ InHand /\ [Next]_vars => InHand'
<1> SUFFICES ASSUME TypeInv, InHand, [Next]_vars, NEW x \in Executors
             PROVE  /\ ex'[x].at \in Carrying \ {"saving"}
                          => Job(x)'.receipt[ex'[x].call] # "none"
                    /\ ex'[x].at = "saving"
                          => Job(x)'.receipt[ex'[x].call] = "completed"
  BY DEF InHand, Carrying, Job
<1>1. Carried(x) \/ ex'[x] = ex[x]
  <2>1. CASE \E r \in Runs : User(r)
    BY <2>1 DEF User, CreateRun, CancelRun, RequestFinish, ResumeRun, Tick
  <2>2. ASSUME NEW y \in Executors, Process(y)
        PROVE  Carried(x) \/ ex'[x] = ex[x]
    BY <2>2, LeaveCarries DEF Process, Start, Shutdown, Crash
  <2>3. ASSUME NEW y \in Executors, Graph(y)
        PROVE  Carried(x) \/ ex'[x] = ex[x]
    BY <2>3, EntryCarries, ModelCarries, ToolsCarries, FinalCarries DEF Graph
  <2>4. CASE \E l \in late : LateReadEnds(l)
    BY <2>4 DEF LateReadEnds
  <2> QED
    BY <2>1, <2>2, <2>3, <2>4 DEF Next, vars
<1>2. CASE /\ ex[x].at \in Carrying /\ ex'[x].job = ex[x].job
           /\ ex'[x].call = ex[x].call
           /\ ex'[x].at = "saving" => ex[x].at = "saving"
           /\ ex'[x].at \in Carrying \ {"saving"}
                => ex[x].at \in Carrying \ {"saving"}
  <2>1. ex[x].job \in Runs /\ ex[x].call \in Calls
    BY <1>2 DEF TypeInv, Placed, Carrying, InTool
  <2>2. /\ ex[x].at # "saving" => run[ex[x].job].receipt[ex[x].call] # "none"
        /\ ex[x].at = "saving"
             => run[ex[x].job].receipt[ex[x].call] = "completed"
    BY <1>2 DEF InHand, Carrying, Job
  <2>3. Job(x)' = run'[ex[x].job]
    BY <1>2 DEF Job
  <2> QED
    BY <1>2, <2>1, <2>2, <2>3, RowChanges, ReceiptsGrow DEF Carrying
<1> QED
  BY <1>1, <1>2 DEF Carried, Carrying

-----------------------------------------------------------------------------
(* The invariant of the proofs, and what follows from it row by row. *)
Inv == TypeInv /\ InHand

LEMMA AlwaysInv == Spec => []Inv
  BY InitTypes, TypeStep, InHandInit, InHandStep, PTL DEF Spec, Inv

LEMMA InvChanges ==
    ASSUME Inv, [Next]_vars, NEW r \in Runs
    PROVE  Change(r) /\ run[r] \in RunRow /\ run \in [Runs -> RunRow]
  BY RowChanges DEF Inv, TypeInv, TypeOK

(* What the user changes of a row. *)
LEMMA UserRow ==
    ASSUME TypeInv, NEW r \in Runs, User(r)
    PROVE  /\ Traces(r)' = Traces(r) /\ run'[r].answers = run[r].answers
           /\ run[r].status \notin Closed
           /\ run'[r].status # "completed"
           /\ \/ /\ run'[r].toolExecs = run[r].toolExecs
                 /\ run'[r].modelCalls = run[r].modelCalls
                 /\ run'[r].finalSent = run[r].finalSent
              \/ /\ run'[r].toolExecs = 0 /\ run'[r].modelCalls = 0
                 /\ ~run'[r].finalSent /\ ~run'[r].finishing
<1>1. run[r] \in RunRow /\ run \in [Runs -> RunRow]
  BY DEF TypeInv, TypeOK
<1> USE <1>1 DEF RunRow, Traces, Active, Resumable, Closed
<1>2. CASE CreateRun(r)
  BY <1>2 DEF CreateRun, Exists
<1>3. CASE CancelRun(r)
  BY <1>3 DEF CancelRun
<1>4. CASE RequestFinish(r)
  BY <1>4 DEF RequestFinish
<1>5. CASE ResumeRun(r)
  BY <1>5 DEF ResumeRun
<1>6. CASE Tick(r)
  BY <1>6 DEF Tick
<1> QED
  BY <1>2, <1>3, <1>4, <1>5, <1>6 DEF User

(* What anything else changes of it, when its fence lets nobody operate:   *)
(* an update of the row's state, the final request, or the final message.  *)
LEMMA FencedRow ==
    ASSUME NEW r \in Runs, run[r] \in RunRow, Change(r), ~User(r), ~Doable(r)
    PROVE  /\ Traces(r)' = Traces(r) /\ run'[r].toolExecs = run[r].toolExecs
           /\ \/ /\ run'[r].modelCalls = run[r].modelCalls
                 /\ run'[r].finalSent = run[r].finalSent
                 /\ run'[r].answers = run[r].answers
              \/ /\ Finalized(r) /\ run'[r].answers = run[r].answers
                 /\ run'[r].finalSent
              \/ /\ Completed(r) /\ run'[r].finalSent = run[r].finalSent
                 /\ run'[r].modelCalls = run[r].modelCalls
<1>1. CASE run'[r] = run[r] \/ Claimed(r) \/ Settled(r) \/ Clocked(r) \/ Issued(r)
  BY <1>1 DEF Claimed, Settled, Clocked, Issued, RunRow, Traces
<1>2. CASE Finalized(r)
  BY <1>2 DEF Finalized, RunRow, Traces
<1>3. CASE Completed(r)
  BY <1>3 DEF Completed, RunRow, Traces
<1> QED
  BY <1>1, <1>2, <1>3
     DEF Change, Asked, Batched, Intended, Counted, Effected, Returned, Recorded

(* A completed or cancelled run stays so, whatever outlives it: cancel_run *)
(* and try_complete_run are final.                                         *)
LEMMA ClosedStep ==
    ASSUME Inv, [Next]_vars, NEW r \in Runs, run[r].status \in Closed
    PROVE  run'[r].status = run[r].status /\ run'[r].epoch = run[r].epoch
<1>1. ~User(r)
  BY UserRow DEF Inv
<1>2. run[r].status # "running" /\ run[r].status # "queued"
  BY DEF Closed
<1>3. ~Doable(r) /\ ~Claimed(r) /\ ~Settled(r) /\ ~Clocked(r)
  BY <1>2 DEF Doable, Operable, Completable, Claimed, Settled, Clocked
<1>4. ~Completed(r) /\ ~Finalized(r)
  BY <1>2, <1>3 DEF Completed, Finalized, Completable
<1>5. run'[r] = run[r] \/ Issued(r)
  BY <1>1, <1>3, <1>4, InvChanges
     DEF Change, Asked, Batched, Intended, Counted, Effected, Returned, Recorded
<1> QED
  BY <1>5, InvChanges DEF Issued, RunRow

(* cancel_run and try_complete_run are final, for every later execution. *)
THEOREM ClosedRunsStayClosed == Spec => ClosedForGood
<1>1. Inv /\ [Next]_vars
      => [\A r \in Runs : run[r].status \in Closed =>
             run'[r].status = run[r].status /\ run'[r].epoch = run[r].epoch]_vars
  BY ClosedStep
<1> QED
  BY <1>1, AlwaysInv, PTL DEF Spec, ClosedForGood

(* An execution that outlived a cancellation or a recovery writes nothing. *)
THEOREM StoppedRunsAreStill == Spec => StoppedIsStill
<1>1. ASSUME Inv, [Next]_vars, NEW r \in Runs, run[r].status # "running"
      PROVE  Traces(r)' = Traces(r) /\ run'[r].answers = run[r].answers
  <2>1. CASE User(r)
    BY <1>1, <2>1, UserRow DEF Inv
  <2>2. CASE ~User(r)
    BY <1>1, <2>2, InvChanges, FencedRow
       DEF Doable, Operable, Completable, Finalized, Completed
  <2> QED
    BY <2>1, <2>2
<1>2. Inv /\ [Next]_vars
      => [\A r \in Runs : run[r].status # "running" =>
             Traces(r)' = Traces(r) /\ run'[r].answers = run[r].answers]_vars
  BY <1>1
<1> QED
  BY <1>2, AlwaysInv, PTL DEF Spec, StoppedIsStill

(* After request_finish the segment runs no tool and keeps its request for *)
(* the final answer.                                                       *)
THEOREM FinishingStopsWork == Spec => FinishStopsWork
<1>1. ASSUME Inv, [Next]_vars, NEW r \in Runs,
             run[r].finishing, run'[r].finishing
      PROVE  /\ Traces(r)' = Traces(r)
             /\ run'[r].toolExecs = run[r].toolExecs
             /\ run'[r].modelCalls # run[r].modelCalls => run'[r].finalSent
  <2>1. CASE User(r)
    BY <1>1, <2>1, UserRow DEF Inv
  <2>2. CASE ~User(r)
    BY <1>1, <2>2, InvChanges, FencedRow DEF Doable, Operable, Finalized
  <2> QED
    BY <2>1, <2>2
<1>2. Inv /\ [Next]_vars
      => [\A r \in Runs : run[r].finishing /\ run'[r].finishing =>
             /\ Traces(r)' = Traces(r)
             /\ run'[r].toolExecs = run[r].toolExecs
             /\ run'[r].modelCalls # run[r].modelCalls
                  => run'[r].finalSent]_vars
  BY <1>1
<1> QED
  BY <1>2, AlwaysInv, PTL DEF Spec, FinishStopsWork

(* The final request of dispatch_model is the last of its segment. *)
THEOREM FinalRequestIsLast == Spec => FinalIsLast
<1>1. ASSUME Inv, [Next]_vars, NEW r \in Runs,
             run[r].finalSent, run'[r].finalSent
      PROVE  /\ Traces(r)' = Traces(r)
             /\ run'[r].modelCalls = run[r].modelCalls
             /\ run'[r].toolExecs = run[r].toolExecs
  <2>1. CASE User(r)
    BY <1>1, <2>1, UserRow DEF Inv
  <2>2. CASE ~User(r)
    BY <1>1, <2>2, InvChanges, FencedRow DEF Doable, Operable, Finalized
  <2> QED
    BY <2>1, <2>2
<1>2. Inv /\ [Next]_vars
      => [\A r \in Runs : run[r].finalSent /\ run'[r].finalSent =>
             /\ Traces(r)' = Traces(r)
             /\ run'[r].modelCalls = run[r].modelCalls
             /\ run'[r].toolExecs = run[r].toolExecs]_vars
  BY <1>1
<1> QED
  BY <1>2, AlwaysInv, PTL DEF Spec, FinalIsLast

(* try_complete_run gives a run its answer with its status, once. *)
THEOREM AnswersOnce == Spec => []AnsweredOnce
<1>1. Init => AnsweredOnce
  BY DEF Init, NewRun, AnsweredOnce
<1>2. ASSUME Inv, AnsweredOnce, [Next]_vars, NEW r \in Runs
      PROVE  run'[r].answers = IF run'[r].status = "completed" THEN 1 ELSE 0
  <2>1. run[r].answers = IF run[r].status = "completed" THEN 1 ELSE 0
    BY <1>2 DEF AnsweredOnce
  <2>2. CASE User(r)
    BY <1>2, <2>1, <2>2, UserRow DEF Inv, Closed
  <2>3. CASE Completed(r)
    BY <1>2, <2>1, <2>3, InvChanges DEF Completed, RunRow
  <2>4. CASE ~User(r) /\ ~Completed(r)
    <3>1. Change(r) /\ run[r] \in RunRow
      BY <1>2, <2>4, InvChanges
    <3>2. CASE Claimed(r) \/ Settled(r) \/ Returned(r)
      <4>1. /\ run[r].status # "completed" /\ run'[r].status # "completed"
            /\ run'[r].answers = run[r].answers
        <5>1. CASE Claimed(r) \/ Settled(r)
          BY <3>1, <5>1 DEF Claimed, Settled, Resumable, RunRow
        <5>2. CASE Returned(r)
          <6>1. PICK c \in Calls, s \in {"running", "interrupted"} :
                    run'[r] = [run[r] EXCEPT !.receipt[c] = "completed",
                                             !.status = s]
            BY <5>2 DEF Returned
          <6>2. run[r].status = "running"
            BY <5>2 DEF Returned, Doable, Operable, Completable
          <6>3. run'[r].status = s /\ run'[r].answers = run[r].answers
            BY <3>1, <6>1 DEF RunRow
          <6> QED
            BY <6>2, <6>3
        <5> QED
          BY <3>2, <5>1, <5>2
      <4> QED
        BY <2>1, <4>1
    <3>3. CASE ~(Claimed(r) \/ Settled(r) \/ Returned(r))
      <4>1. /\ run'[r].status = run[r].status
            /\ run'[r].answers = run[r].answers
        <5>1. CASE \/ run'[r] = run[r] \/ Clocked(r) \/ Issued(r)
                   \/ Asked(r) \/ Batched(r)
          BY <3>1, <5>1 DEF Clocked, Issued, Asked, Batched, RunRow
        <5>2. CASE Intended(r)
          BY <3>1, <5>2 DEF Intended, RunRow
        <5>3. CASE \/ Counted(r) \/ Effected(r) \/ Recorded(r)
                   \/ Finalized(r)
          BY <3>1, <5>3 DEF Counted, Effected, Recorded, Finalized, RunRow
        <5> QED
          BY <2>4, <3>1, <3>3, <5>1, <5>2, <5>3 DEF Change
      <4> QED
        BY <2>1, <4>1
    <3> QED
      BY <3>2, <3>3
  <2> QED
    BY <2>2, <2>3, <2>4
<1>3. Inv /\ AnsweredOnce /\ [Next]_vars => AnsweredOnce'
  BY <1>2 DEF AnsweredOnce
<1> QED
  BY <1>1, <1>3, AlwaysInv, PTL DEF Spec

(* create_run, resume_run and cancel_run leave nothing behind the newest   *)
(* run of the thread.                                                      *)
THEOREM OnlyTheNewestGoesOn == Spec => []NewestRunOnly
<1>1. Init => NewestRunOnly
  BY DEF Init, NewRun, NewestRunOnly, Exists
<1>2. ASSUME Inv, NewestRunOnly, [Next]_vars, NEW r \in Runs, NEW s \in Runs,
             r < s, Exists(s)'
      PROVE  run'[r].status \in Closed
  <2>1. CASE Exists(s)
    BY <1>2, <2>1, ClosedStep DEF NewestRunOnly
  <2>2. CASE ~Exists(s)
    <3>1. CreateRun(s)
      <4>1. Change(s) /\ run[s] \in RunRow
        BY <1>2, InvChanges
      <4>2. User(s)
        BY <1>2, <2>2, <4>1
           DEF Exists, Change, Claimed, Settled, Clocked, Issued, Asked,
               Batched, Intended, Counted, Effected, Returned, Recorded,
               Finalized, Completed, Doable, Operable, Completable, RunRow
      <4> QED
        BY <2>2, <4>2
           DEF User, CancelRun, RequestFinish, ResumeRun, Tick, Exists, Active,
               Resumable
    <3>2. run[r].status \in Closed
      <4>1. Exists(r) /\ run[r].status \notin Active /\ run[r].status \in Statuses
        BY <1>2, <3>1, InvChanges DEF CreateRun, RunRow
      <4>2. CASE Latest(r)
        BY <3>1, <4>1, <4>2 DEF CreateRun, Statuses, Exists
      <4>3. CASE ~Latest(r)
        <5>1. PICK t \in Runs : Exists(t) /\ ~(t <= r)
          BY <4>1, <4>3 DEF Latest
        <5>2. r < t
          BY <5>1, RunAssumption
        <5> QED
          BY <1>2, <5>1, <5>2 DEF NewestRunOnly
      <4> QED
        BY <4>2, <4>3
    <3> QED
      BY <1>2, <3>2, ClosedStep
  <2> QED
    BY <2>1, <2>2
<1>3. Inv /\ NewestRunOnly /\ [Next]_vars => NewestRunOnly'
  BY <1>2 DEF NewestRunOnly
<1> QED
  BY <1>1, <1>3, AlwaysInv, PTL DEF Spec

(* dispatch_model and dispatch_tool keep a segment within its limits, and  *)
(* its last request for the final answer.                                  *)
THEOREM BudgetsAreKept == Spec => []BudgetKept
<1>1. Init => BudgetKept
  BY LimitAssumption DEF Init, NewRun, BudgetKept
<1>2. ASSUME Inv, BudgetKept, [Next]_vars, NEW r \in Runs
      PROVE  /\ run'[r].toolExecs <= ToolLimit
             /\ run'[r].modelCalls <= IF run'[r].finalSent THEN ModelLimit
                                      ELSE ModelLimit - 1
  <2>1. /\ run[r].toolExecs <= ToolLimit
        /\ run[r].modelCalls <= IF run[r].finalSent THEN ModelLimit
                                ELSE ModelLimit - 1
    BY <1>2 DEF BudgetKept
  <2>2. run[r] \in RunRow /\ Change(r)
    BY <1>2, InvChanges
  <2>3. run[r].toolExecs \in Nat /\ run[r].modelCalls \in Nat
    BY <2>2, CountersAreNat
  <2>4. CASE User(r)
    BY <1>2, <2>1, <2>4, UserRow, LimitAssumption DEF Inv
  <2>5. CASE Asked(r)
    BY <2>1, <2>2, <2>3, <2>5, LimitAssumption
       DEF Asked, Doable, Operable, RunRow
  <2>6. CASE Counted(r)
    BY <2>1, <2>2, <2>3, <2>6, LimitAssumption DEF Counted, RunRow
  <2>7. CASE Finalized(r)
    BY <2>1, <2>2, <2>3, <2>7, LimitAssumption DEF Finalized, RunRow
  <2>8. CASE ~(User(r) \/ Asked(r) \/ Counted(r) \/ Finalized(r))
    <3>1. /\ run'[r].toolExecs = run[r].toolExecs
          /\ run'[r].modelCalls = run[r].modelCalls
          /\ run'[r].finalSent = run[r].finalSent
      <4>1. CASE \/ run'[r] = run[r] \/ Claimed(r) \/ Settled(r)
                 \/ Clocked(r) \/ Issued(r) \/ Batched(r)
        BY <2>2, <4>1
           DEF Claimed, Settled, Clocked, Issued, Batched, RunRow
      <4>2. CASE \/ Intended(r) \/ Effected(r) \/ Returned(r)
                 \/ Recorded(r) \/ Completed(r)
        BY <2>2, <4>2
           DEF Intended, Effected, Returned, Recorded, Completed, RunRow
      <4> QED
        BY <2>2, <2>8, <4>1, <4>2 DEF Change
    <3> QED
      BY <2>1, <3>1
  <2> QED
    BY <2>4, <2>5, <2>6, <2>7, <2>8
<1>3. Inv /\ BudgetKept /\ [Next]_vars => BudgetKept'
  BY <1>2 DEF BudgetKept
<1> QED
  BY <1>1, <1>3, AlwaysInv, PTL DEF Spec

(* No effect before its intent, no result message before its receipt, for  *)
(* any number of processes at the same run.                                *)
THEOREM ReceiptsComeFirst == Spec => []ReceiptsLead
<1>1. Init => ReceiptsLead
  BY DEF Init, NewRun, ReceiptsLead
<1>2. ASSUME Inv, ReceiptsLead, [Next]_vars, NEW r \in Runs, NEW c \in Calls
      PROVE  /\ c \in run'[r].effects => run'[r].receipt[c] # "none"
             /\ c \in run'[r].results => run'[r].receipt[c] = "completed"
  <2>1. /\ c \in run[r].effects => run[r].receipt[c] # "none"
        /\ c \in run[r].results => run[r].receipt[c] = "completed"
    BY <1>2 DEF ReceiptsLead
  <2>2. run[r] \in RunRow /\ Change(r)
    BY <1>2, InvChanges
  <2>3. /\ run[r].receipt[c] # "none" => run'[r].receipt[c] # "none"
        /\ run[r].receipt[c] = "completed" => run'[r].receipt[c] = "completed"
    BY <1>2, <2>2, ReceiptsGrow DEF Inv
  <2>4. CASE Effected(r)
    BY <2>1, <2>2, <2>3, <2>4 DEF Effected, RunRow
  <2>5. CASE Recorded(r)
    BY <2>1, <2>2, <2>3, <2>5 DEF Recorded, RunRow
  <2>6. CASE ~Effected(r) /\ ~Recorded(r)
    <3>1. CASE User(r)
      BY <1>2, <2>1, <2>3, <3>1, UserRow DEF Inv, Traces
    <3>2. CASE ~User(r)
      <4>1. run'[r].effects = run[r].effects /\ run'[r].results = run[r].results
        BY <2>2, <2>6, <3>2
           DEF Change, Claimed, Settled, Clocked, Issued, Asked, Batched,
               Intended, Counted, Returned, Finalized, Completed, RunRow
      <4> QED
        BY <2>1, <2>3, <4>1
    <3> QED
      BY <3>1, <3>2
  <2> QED
    BY <2>4, <2>5, <2>6
<1>3. Inv /\ ReceiptsLead /\ [Next]_vars => ReceiptsLead'
  BY <1>2 DEF ReceiptsLead
<1> QED
  BY <1>1, <1>3, AlwaysInv, PTL DEF Spec
=============================================================================
