--------------------------- MODULE ModelDispatch ---------------------------
(***************************************************************************)
(* Paying for model calls: the receipts and the daily counters of          *)
(* storage/budget.py, and the two protocols that use them.                 *)
(*                                                                         *)
(* A foreground call (AssistantRuntime._wait_for_model) is reserved, sent  *)
(* by an executor thread and watched by a coroutine, which may walk away   *)
(* from it and settle the late answer in a callback.  A background call    *)
(* (BudgetedStructuredProvider) is reserved in the transaction that checks *)
(* its job's lease, sent outside of it and settled as unknown; its job may *)
(* be claimed again meanwhile, so that two handlers of one job overlap.    *)
(*                                                                         *)
(* Of a job's row only the lease_epoch is kept: Claim stands for any claim *)
(* of the queue (JobScheduler), after an expiry, a recovery or a retry.    *)
(* Every caller reserves one request at a time.  A definition that is not  *)
(* used (SettledTwice, LeaveForGood, ...) is a mutant of the one next to it. *)
(***************************************************************************)
EXTENDS Integers, FiniteSets

CONSTANTS
    Foreground,   \* dispatch ids of foreground calls, a fresh one per call
    Background,   \* dispatch ids of background calls, one per job and request
    JobOf,        \* the job a background id was derived from
    OneResponse,  \* jobs of the kinds that take one model response
    Prechecked,   \* those of them that look before they reserve
    Batched,      \* jobs that belong to the maintenance batch
    Procs,        \* processes, each with a background loop
    Host,         \* the process that runs a foreground call
    LastDay,      \* bound: budget days that pass
    Limit,        \* request_limit of a day, per lane
    BatchLimit,   \* model_limit of the batch
    MaxClaims,    \* bound: claims of one job
    Usages,       \* what a provider may report to have cost
    NoJob, NoAsk  \* no job, no request

Dispatches == Foreground \cup Background
Jobs == {JobOf[d] : d \in Background}
Lanes == {"foreground", "background"}
Days == 1..LastDay
Accounts == Days \X Lanes
NoUsage == -1     \* usage is None
NoDay == 0

ASSUME IdAssumption == /\ IsFiniteSet(Foreground) /\ IsFiniteSet(Background)
                       /\ Foreground \cap Background = {}
ASSUME JobAssumption == /\ JobOf \in [Background -> Jobs]
                        /\ Prechecked \subseteq OneResponse
                        /\ OneResponse \subseteq Jobs
                        /\ Batched \subseteq Jobs
                        /\ NoJob \notin Jobs /\ NoAsk \notin Dispatches
ASSUME HostAssumption == Host \in [Foreground -> Procs]
ASSUME LimitAssumption == /\ Limit \in [Lanes -> Nat \ {0}]
                          /\ BatchLimit \in Nat
                          /\ LastDay \in Nat \ {0}
                          /\ MaxClaims \in Nat
ASSUME UsageAssumption == Usages \subseteq Nat

VARIABLES
    receipt, usage, day,              \* model_dispatch_receipts, per id
    used, responses, unknowns, cost,  \* assistant_model_budget_days, per account
    batchCalls,                       \* calls_used of the batch
    today,                            \* the date in Asia/Shanghai
    caller,       \* of a foreground call: where its coroutine is
    thread,       \* where its executor thread is
    answer,       \* the usage the thread came back with
    epoch,        \* lease_epoch of each job
    task,         \* of a process: where its background handler is
    job, jobEpoch, ask,   \* the claim and the request of that handler
    sends         \* history: times the request of an id was sent

ledger == <<receipt, usage, day, used, responses, unknowns, cost>>
fgVars == <<caller, thread, answer>>
bgVars == <<epoch, task, job, jobEpoch, ask, batchCalls>>
vars == <<ledger, today, fgVars, bgVars, sends>>

LaneOf(d) == IF d \in Foreground THEN "foreground" ELSE "background"
Account(d) == <<day[d], LaneOf(d)>>
Statuses == {"none", "reserved", "settled", "unknown", "released"}

LedgerTypeOK ==
    /\ receipt \in [Dispatches -> Statuses]
    /\ usage \in [Dispatches -> Usages \cup {NoUsage}]
    /\ day \in [Dispatches -> Days \cup {NoDay}]
    /\ used \in [Accounts -> Nat]
    /\ responses \in [Accounts -> Nat]
    /\ unknowns \in [Accounts -> Nat]
    /\ cost \in [Accounts -> Nat]
    /\ today \in Days
CallTypeOK ==
    /\ batchCalls \in Nat
    /\ caller \in [Foreground -> {"idle", "reserved", "waiting", "left",
                                  "over", "lost"}]
    /\ thread \in [Foreground -> {"none", "started", "sent", "answered",
                                  "refused"}]
    /\ answer \in [Foreground -> Usages \cup {NoUsage}]
    /\ epoch \in [Jobs -> Nat]
    /\ task \in [Procs -> {"idle", "claimed", "checked", "reserved", "sent"}]
    /\ job \in [Procs -> Jobs \cup {NoJob}]
    /\ jobEpoch \in [Procs -> Nat]
    /\ ask \in [Procs -> Background \cup {NoAsk}]
    /\ sends \in [Dispatches -> Nat]
TypeOK == LedgerTypeOK /\ CallTypeOK

Init ==
    /\ receipt = [d \in Dispatches |-> "none"]
    /\ usage = [d \in Dispatches |-> NoUsage]
    /\ day = [d \in Dispatches |-> NoDay]
    /\ used = [a \in Accounts |-> 0]
    /\ responses = [a \in Accounts |-> 0]
    /\ unknowns = [a \in Accounts |-> 0]
    /\ cost = [a \in Accounts |-> 0]
    /\ batchCalls = 0
    /\ today = 1
    /\ caller = [d \in Foreground |-> "idle"]
    /\ thread = [d \in Foreground |-> "none"]
    /\ answer = [d \in Foreground |-> NoUsage]
    /\ epoch = [j \in Jobs |-> 0]
    /\ task = [p \in Procs |-> "idle"]
    /\ job = [p \in Procs |-> NoJob]
    /\ jobEpoch = [p \in Procs |-> 0]
    /\ ask = [p \in Procs |-> NoAsk]
    /\ sends = [d \in Dispatches |-> 0]

NextDay == /\ today < LastDay
           /\ today' = today + 1
           /\ UNCHANGED <<ledger, fgVars, bgVars, sends>>
-----------------------------------------------------------------------------
(* The ledger.  Each operation locks the day's row, then the receipt.      *)

(* reserve_dispatch, when it returns: a receipt of this identity is given  *)
(* back as it is, whatever its status; a new one is charged to today.      *)
Reserved(d) ==
    LET a == <<today, LaneOf(d)>>
    IN  \/ /\ receipt[d] # "none" /\ day[d] = today
           /\ UNCHANGED ledger
        \/ /\ receipt[d] = "none"
           /\ used[a] + 1 <= Limit[LaneOf(d)]
           /\ receipt' = [receipt EXCEPT ![d] = "reserved"]
           /\ day' = [day EXCEPT ![d] = today]
           /\ used' = [used EXCEPT ![a] = @ + 1]
           /\ UNCHANGED <<usage, responses, unknowns, cost>>

Amount(u) == IF u = NoUsage THEN 0 ELSE u

(* The first outcome of a receipt counts as a response. *)
FirstOutcome(d, u) ==
    LET a == Account(d)
    IN  /\ receipt' = [receipt EXCEPT ![d] =
                         IF u = NoUsage THEN "unknown" ELSE "settled"]
        /\ usage' = [usage EXCEPT ![d] = u]
        /\ responses' = [responses EXCEPT ![a] = @ + 1]
        /\ unknowns' = [unknowns EXCEPT ![a] =
                          IF u = NoUsage THEN @ + 1 ELSE @]
        /\ cost' = [cost EXCEPT ![a] = @ + Amount(u)]
        /\ UNCHANGED <<day, used>>

(* A receipt settled as unknown takes the usage of a late answer, once.    *)
LateUsage(d, u) ==
    LET a == Account(d)
    IN  /\ receipt' = [receipt EXCEPT ![d] = "settled"]
        /\ usage' = [usage EXCEPT ![d] = u]
        /\ unknowns' = [unknowns EXCEPT ![a] = IF @ > 0 THEN @ - 1 ELSE 0]
        /\ cost' = [cost EXCEPT ![a] = @ + Amount(u)]
        /\ UNCHANGED <<day, used, responses>>

(* settle_dispatch: a repeated or contrary outcome returns the receipt or  *)
(* raises, and changes nothing.                                            *)
IsOpen(d) == receipt[d] = "reserved"
IsUpgrade(d, u) == receipt[d] = "unknown" /\ u # NoUsage
SettledTwice(d, u) ==
    \/ (IsOpen(d) \/ IsUpgrade(d, u)) /\ FirstOutcome(d, u)
    \/ ~IsOpen(d) /\ ~IsUpgrade(d, u) /\ UNCHANGED ledger
Settled(d, u) ==
    \/ IsOpen(d) /\ FirstOutcome(d, u)
    \/ IsUpgrade(d, u) /\ LateUsage(d, u)
    \/ ~IsOpen(d) /\ ~IsUpgrade(d, u) /\ UNCHANGED ledger

(* release_dispatch: only a receipt nobody settled is given back. *)
Released(d) ==
    IF receipt[d] = "reserved" /\ used[Account(d)] >= 1
    THEN /\ receipt' = [receipt EXCEPT ![d] = "released"]
         /\ used' = [used EXCEPT ![Account(d)] = @ - 1]
         /\ UNCHANGED <<usage, day, responses, unknowns, cost>>
    ELSE UNCHANGED ledger
-----------------------------------------------------------------------------
(* A foreground call. *)

(* reserve_model_request *)
ReserveForeground(d) ==
    /\ caller[d] = "idle"
    /\ Reserved(d)
    /\ caller' = [caller EXCEPT ![d] = "reserved"]
    /\ UNCHANGED <<today, thread, answer, bgVars, sends>>

(* _wait_for_model gives up before it starts the thread: the draft could   *)
(* not be registered, or no time is left.                                  *)
Withdraw(d) ==
    /\ caller[d] = "reserved"
    /\ Released(d)
    /\ caller' = [caller EXCEPT ![d] = "over"]
    /\ UNCHANGED <<today, thread, answer, bgVars, sends>>

StartThread(d) ==
    /\ caller[d] = "reserved"
    /\ caller' = [caller EXCEPT ![d] = "waiting"]
    /\ thread' = [thread EXCEPT ![d] = "started"]
    /\ UNCHANGED <<ledger, today, answer, bgVars, sends>>

(* dispatch, in the thread: dispatch_model admits the call, the dispatched *)
(* flag is set and the provider is called, or it refuses and nothing is.   *)
ThreadSend(d) ==
    /\ thread[d] = "started"
    /\ thread' = [thread EXCEPT ![d] = "sent"]
    /\ sends' = [sends EXCEPT ![d] = @ + 1]
    /\ UNCHANGED <<ledger, today, caller, answer, bgVars>>

ThreadRefused(d) ==
    /\ thread[d] = "started"
    /\ thread' = [thread EXCEPT ![d] = "refused"]
    /\ UNCHANGED <<ledger, today, caller, answer, bgVars, sends>>

(* The provider answers or fails; either may or may not tell the usage.    *)
ThreadAnswered(d) ==
    /\ thread[d] = "sent"
    /\ thread' = [thread EXCEPT ![d] = "answered"]
    /\ \E u \in Usages \cup {NoUsage} : answer' = [answer EXCEPT ![d] = u]
    /\ UNCHANGED <<ledger, today, caller, bgVars, sends>>

(* What both the coroutine and settle_late do with a thread that is done.  *)
SettleThread(d) ==
    /\ \/ thread[d] = "answered" /\ Settled(d, answer[d])
       \/ thread[d] = "refused" /\ Released(d)
    /\ caller' = [caller EXCEPT ![d] = "over"]
    /\ UNCHANGED <<today, thread, answer, bgVars, sends>>

Collect(d) == caller[d] = "waiting" /\ SettleThread(d)
SettleLate(d) == caller[d] = "left" /\ SettleThread(d)

(* The user cancelled or asked to finish, or the time is up: a call that   *)
(* was dispatched is marked unknown, and a callback is left behind.        *)
LeaveReleasing(d) ==
    /\ caller[d] = "waiting"
    /\ IF thread[d] \in {"sent", "answered"} THEN Settled(d, NoUsage)
                                            ELSE Released(d)
    /\ caller' = [caller EXCEPT ![d] = "left"]
    /\ UNCHANGED <<today, thread, answer, bgVars, sends>>
LeaveForGood(d) ==
    /\ caller[d] = "waiting"
    /\ IF thread[d] \in {"sent", "answered"} THEN Settled(d, NoUsage)
                                            ELSE UNCHANGED ledger
    /\ caller' = [caller EXCEPT ![d] = "over"]
    /\ UNCHANGED <<today, thread, answer, bgVars, sends>>
Leave(d) ==
    /\ caller[d] = "waiting"
    /\ IF thread[d] \in {"sent", "answered"} THEN Settled(d, NoUsage)
                                            ELSE UNCHANGED ledger
    /\ caller' = [caller EXCEPT ![d] = "left"]
    /\ UNCHANGED <<today, thread, answer, bgVars, sends>>
-----------------------------------------------------------------------------
(* A background call. *)

Handler(p, t) == task' = [task EXCEPT ![p] = t]

(* The queue gives the job to this process; who had it is not told. *)
Claim(p, j) ==
    /\ task[p] = "idle" /\ epoch[j] < MaxClaims
    /\ Handler(p, "claimed")
    /\ epoch' = [epoch EXCEPT ![j] = @ + 1]
    /\ job' = [job EXCEPT ![p] = j]
    /\ jobEpoch' = [jobEpoch EXCEPT ![p] = epoch[j] + 1]
    /\ UNCHANGED <<ledger, today, fgVars, ask, batchCalls, sends>>

Receipts(j) == {d \in Background : JobOf[d] = j /\ receipt[d] # "none"}

(* _model_proposals of memory extraction: in a transaction of its own.     *)
Precheck(p) ==
    /\ task[p] = "claimed" /\ job[p] \in Prechecked
    /\ Receipts(job[p]) = {}
    /\ Handler(p, "checked")
    /\ UNCHANGED <<ledger, today, fgVars, epoch, job, jobEpoch, ask,
                   batchCalls, sends>>

OwnsAnyEpoch(p) == jobEpoch[p] > 0
Owns(p) == jobEpoch[p] = epoch[job[p]]

(* generate_json, before it sends: one transaction. *)
NeverAsked(d) == receipt[d] = "none"
NoResponseYet(j) == j \in OneResponse \ Prechecked => Receipts(j) = {}
BatchOpenLate(j) == j \in Batched => batchCalls <= BatchLimit
BatchOpen(j) == j \in Batched => batchCalls < BatchLimit
ReserveBackground(p, d) ==
    /\ task[p] = IF job[p] \in Prechecked THEN "checked" ELSE "claimed"
    /\ JobOf[d] = job[p]
    /\ Owns(p)
    /\ NoResponseYet(job[p]) /\ NeverAsked(d) /\ BatchOpen(job[p])
    /\ Reserved(d)
    /\ batchCalls' = IF job[p] \in Batched THEN batchCalls + 1 ELSE batchCalls
    /\ Handler(p, "reserved")
    /\ ask' = [ask EXCEPT ![p] = d]
    /\ UNCHANGED <<today, fgVars, epoch, job, jobEpoch, sends>>

BackgroundSend(p) ==
    /\ task[p] = "reserved"
    /\ Handler(p, "sent")
    /\ sends' = [sends EXCEPT ![ask[p]] = @ + 1]
    /\ UNCHANGED <<ledger, today, fgVars, epoch, job, jobEpoch, ask, batchCalls>>

(* The finally block: whatever the provider did, the receipt is unknown;   *)
(* the handler may then put its next request.                              *)
BackgroundSettle(p) ==
    /\ task[p] = "sent"
    /\ Settled(ask[p], NoUsage)
    /\ Handler(p, "claimed")
    /\ ask' = [ask EXCEPT ![p] = NoAsk]
    /\ UNCHANGED <<today, fgVars, epoch, job, jobEpoch, batchCalls, sends>>

(* The handler has no request left, was refused one, or failed. *)
HandlerEnds(p) ==
    /\ task[p] \in {"claimed", "checked"}
    /\ Handler(p, "idle")
    /\ job' = [job EXCEPT ![p] = NoJob]
    /\ jobEpoch' = [jobEpoch EXCEPT ![p] = 0]
    /\ UNCHANGED <<ledger, today, fgVars, epoch, ask, batchCalls, sends>>

(* Stopping the service cancels the coroutine; the thread goes on and what *)
(* it brings back is not settled.                                          *)
Cancelled(d) ==
    /\ caller[d] \in {"reserved", "waiting"}
    /\ caller' = [caller EXCEPT ![d] = "lost"]
    /\ UNCHANGED <<ledger, today, thread, answer, bgVars, sends>>

(* The process dies with its calls: their receipts stay as they are.       *)
Crash(p) ==
    /\ task' = [task EXCEPT ![p] = "idle"]
    /\ job' = [job EXCEPT ![p] = NoJob]
    /\ jobEpoch' = [jobEpoch EXCEPT ![p] = 0]
    /\ ask' = [ask EXCEPT ![p] = NoAsk]
    /\ caller' = [d \in Foreground |->
                    IF Host[d] = p /\ caller[d] \notin {"idle", "over"}
                    THEN "lost" ELSE caller[d]]
    /\ thread' = [d \in Foreground |->
                    IF Host[d] = p /\ caller[d] \notin {"idle", "over"}
                    THEN "none" ELSE thread[d]]
    /\ UNCHANGED <<ledger, today, answer, epoch, batchCalls, sends>>
-----------------------------------------------------------------------------
ForegroundNext(d) ==
    \/ ReserveForeground(d) \/ Withdraw(d) \/ StartThread(d)
    \/ ThreadSend(d) \/ ThreadRefused(d) \/ ThreadAnswered(d)
    \/ Collect(d) \/ Leave(d) \/ SettleLate(d) \/ Cancelled(d)
BackgroundNext(p) ==
    \/ \E j \in Jobs : Claim(p, j)
    \/ Precheck(p) \/ BackgroundSend(p) \/ BackgroundSettle(p) \/ HandlerEnds(p)
    \/ \E d \in Background : ReserveBackground(p, d)

Next ==
    \/ NextDay
    \/ \E d \in Foreground : ForegroundNext(d)
    \/ \E p \in Procs : BackgroundNext(p) \/ Crash(p)

Spec == Init /\ [][Next]_vars

(* An executor thread runs, a provider call returns (every client has a    *)
(* timeout), and the event loop runs the coroutine and its callbacks.      *)
Fairness == \A d \in Foreground :
              /\ WF_vars(ThreadSend(d) \/ ThreadRefused(d))
              /\ WF_vars(ThreadAnswered(d))
              /\ WF_vars(Collect(d)) /\ WF_vars(SettleLate(d))
FairSpec == Spec /\ Fairness
-----------------------------------------------------------------------------
With(a, S) == {d \in Dispatches : receipt[d] \in S /\ Account(d) = a}
Sent(a) == {d \in Dispatches : sends[d] > 0 /\ Account(d) = a}
(* Every unit of usage of an account, once for the call it was reported of. *)
Billed(a) == UNION {{d} \X (1..usage[d]) : d \in With(a, {"settled"})}

(* The counters of a day say what its receipts say: nothing is charged,    *)
(* given back or answered twice, whoever settles first (settle_dispatch,   *)
(* release_dispatch, the late callback).                                   *)
LedgerAgrees ==
    \A a \in Accounts :
        /\ used[a] = Cardinality(With(a, {"reserved", "settled", "unknown"}))
        /\ responses[a] = Cardinality(With(a, {"settled", "unknown"}))
        /\ unknowns[a] = Cardinality(With(a, {"unknown"}))
        /\ cost[a] = Cardinality(Billed(a))

(* No more requests leave on account of a day than its limit, although a   *)
(* request leaves outside the transaction that pays for it and a           *)
(* reservation may be given back while a thread holds it.                  *)
SendsWithinDay == \A a \in Accounts : Cardinality(Sent(a)) <= Limit[a[2]]

(* No more requests leave for the maintenance batch than its limit, over   *)
(* all days, jobs and claims: the counter is checked and raised in the     *)
(* transaction that reserves, and no call is given back to it.              *)
SendsWithinBatch ==
    Cardinality({d \in Background : sends[d] > 0 /\ JobOf[d] \in Batched})
        <= BatchLimit

(* A request is never sent again under its identity, and a job of a kind   *)
(* that takes one response sends at most one, however often it is claimed, *)
(* by whom, and whatever became of the earlier answers.                    *)
SentOnce ==
    /\ \A d \in Dispatches : sends[d] <= 1
    /\ \A c, d \in Background :
          /\ sends[c] > 0 /\ sends[d] > 0
          /\ JobOf[c] = JobOf[d] /\ JobOf[c] \in OneResponse
          => c = d

(* A paid outcome is final: no late answer, withdrawal or retry changes a  *)
(* receipt that has its usage, or reopens one that was given back.         *)
OutcomesAreFinal ==
    [][\A d \in Dispatches :
          /\ receipt[d] = "settled" => receipt'[d] = "settled"
                                       /\ usage'[d] = usage[d]
          /\ receipt[d] = "released" => receipt'[d] = "released"
                                        /\ sends'[d] = 0]_vars

(* What the provider says a call cost reaches its receipt, also when the   *)
(* coroutine had left before ("still settles usage through the callback"). *)
AnswersAreBilled ==
    \A d \in Foreground : \A u \in Usages :
        (thread[d] = "answered" /\ answer[d] = u)
            ~> (usage[d] = u \/ caller[d] = "lost")

(* Receipts keep the promise of a record of paid calls: what is settled,   *)
(* given back or left unknown is not sent again, and a late answer reaches *)
(* the receipt of its own request (reserve_dispatch, settle_dispatch).     *)
CallState(d) == CASE receipt[d] \in {"none", "reserved"} -> "open"
                  [] receipt[d] = "unknown" -> "unknown"
                  [] receipt[d] = "settled" -> "answered"
                  [] receipt[d] = "released" -> "withdrawn"
Paid == INSTANCE ProviderCalls WITH
            Calls <- Dispatches, Answers <- Usages, Nothing <- NoUsage,
            left <- sends, answer <- usage,
            state <- [d \in Dispatches |-> CallState(d)]
ImplementsProviderCalls == Paid!Spec
=============================================================================
