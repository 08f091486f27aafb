---------------------------- MODULE JobScheduler ----------------------------
(***************************************************************************)
(* The durable maintenance queue of Shiliu: assistant_jobs rows, the       *)
(* scheduler_lanes row that serialises the jobs that call a model, and the *)
(* processes whose background loops claim, renew, settle and recover jobs. *)
(*                                                                         *)
(* Every database transaction that changes a row is one action: the code   *)
(* takes the lane lock, then the row lock, and decides validity after both *)
(* (storage/scheduler.py).  What is not atomic in the code is not atomic   *)
(* here: a handler runs between the claim and its settlement, and recovery *)
(* classifies rows it read before it locks them.                           *)
(*                                                                         *)
(* Leases and not_before are stored as absolute timestamps and compared    *)
(* with clock_timestamp().  Here they are the time left: Tick lets every   *)
(* one of them run down together, which keeps their order and their        *)
(* differences and needs no bound on the clock.                            *)
(*                                                                         *)
(* A definition named after another with a suffix (LaneFreeEarly) is a     *)
(* mutant: the slip a run must notice if the original were written so.     *)
(***************************************************************************)
EXTENDS Integers, FiniteSets

CONSTANTS
    Jobs,         \* job rows, numbered in the order of their created_at
    Kind,         \* the kind column of each row
    Held,         \* rows under a metadata_backfill hold
    Procs,        \* processes, each with one background loop
    NoProc,       \* lease_owner IS NULL
    Scopes,       \* the sets of kinds the loops ask for
    LeaseTime,    \* lease_seconds
    Backoff,      \* retry delay after the 1st, 2nd and later failure
    MaxAttempts,  \* 3 in the code: the failures that block a job
    DayWait,      \* time left to the next budget day
    MaxEvents     \* bound: deferrals, explicit retries, crashes and outages

NoJob == 0
Never == -1       \* not_before '9999-12-31'

LocalKinds == {"memory_purge", "memory_index", "source_reconcile"}
ModelKinds == {"memory_extract", "source_extract", "wiki_integrate",
               "external_material_integrate"}
ReplaySafeKinds == {"memory_index", "memory_purge"}
BackfillKinds == {"source_reconcile", "wiki_integrate"}
Claimable == {"queued", "retry_wait", "budget_wait"}
Statuses == Claimable \cup {"absent", "running", "blocked", "completed"}
Unknown == "external_side_effect_unknown"
Codes == {"none", "handler_error", "background_budget_wait",
          "maintenance_budget_wait", Unknown}
Dispositions == {"none", "exhausted", "staged", "replay_safe", "unknown"}

ASSUME JobsAssumption == Jobs \subseteq Nat \ {NoJob}
ASSUME KindAssumption == Kind \in [Jobs -> LocalKinds \cup ModelKinds]
ASSUME HeldAssumption == Held \subseteq Jobs
ASSUME ProcAssumption == NoProc \notin Procs
ASSUME ScopeAssumption == Scopes \subseteq SUBSET (LocalKinds \cup ModelKinds)
ASSUME TimeAssumption ==
    /\ LeaseTime \in Nat \ {0}
    /\ Backoff \in [1..3 -> Nat]
    /\ DayWait \in Nat
ASSUME AttemptsAssumption == MaxAttempts \in Nat \ {0}
ASSUME BoundAssumption == MaxEvents \in Nat

VARIABLES
    status, owner, epoch, attempt, code,   \* columns of assistant_jobs
    lease,        \* what is left of lease_until; 0 when NULL or passed
    wait,         \* what is left of not_before
    staged,       \* epoch whose owner wrote proposal_json; 0 when NULL
    laneJob, laneEpoch, laneLease,         \* the scheduler_lanes row
    mode,         \* of a process: down, recovering, up
    scan,         \* what a recovering process read of each expired row
    held,         \* the job whose handler a process is running
    heldEpoch,    \* the lease_epoch of that claim
    commits,      \* history: lease_epoch of each completion of the job
    resumes,      \* history: explicit retries of each job
    events        \* history: what MaxEvents bounds

rowVars  == <<status, owner, epoch, attempt, code, lease, wait, staged>>
laneVars == <<laneJob, laneEpoch, laneLease>>
procVars == <<mode, scan, held, heldEpoch>>
histVars == <<commits, resumes, events>>
vars == <<rowVars, laneVars, procVars, histVars>>

IsModel(j) == Kind[j] \notin LocalKinds
NoScan == [j \in Jobs |-> "none"]

TypeOK ==
    /\ status \in [Jobs -> Statuses]
    /\ owner \in [Jobs -> Procs \cup {NoProc}]
    /\ epoch \in [Jobs -> Nat]
    /\ attempt \in [Jobs -> Nat]
    /\ code \in [Jobs -> Codes]
    /\ lease \in [Jobs -> 0..LeaseTime]
    /\ wait \in [Jobs -> Nat \cup {Never}]
    /\ staged \in [Jobs -> Nat]
    /\ laneJob \in Jobs \cup {NoJob}
    /\ laneEpoch \in Nat
    /\ laneLease \in 0..LeaseTime
    /\ mode \in [Procs -> {"down", "recovering", "up"}]
    /\ scan \in [Procs -> [Jobs -> Dispositions]]
    /\ held \in [Procs -> Jobs \cup {NoJob}]
    /\ heldEpoch \in [Procs -> Nat]
    /\ commits \in [Jobs -> SUBSET Nat]
    /\ resumes \in [Jobs -> Nat]
    /\ events \in Nat

Init ==
    /\ status = [j \in Jobs |-> "absent"]
    /\ owner = [j \in Jobs |-> NoProc]
    /\ epoch = [j \in Jobs |-> 0]
    /\ attempt = [j \in Jobs |-> 0]
    /\ code = [j \in Jobs |-> "none"]
    /\ lease = [j \in Jobs |-> 0]
    /\ wait = [j \in Jobs |-> 0]
    /\ staged = [j \in Jobs |-> 0]
    /\ laneJob = NoJob /\ laneEpoch = 0 /\ laneLease = 0
    /\ mode = [p \in Procs |-> "down"]
    /\ scan = [p \in Procs |-> NoScan]
    /\ held = [p \in Procs |-> NoJob]
    /\ heldEpoch = [p \in Procs |-> 0]
    /\ commits = [j \in Jobs |-> {}]
    /\ resumes = [j \in Jobs |-> 0]
    /\ events = 0

(* Nothing in the code limits these steps; the bound keeps TLC's runs finite. *)
Disturbance == events < MaxEvents /\ events' = events + 1

-----------------------------------------------------------------------------
(* The queue. *)

(* enqueue_job: one row per dedupe key; a repeated key changes nothing.    *)
EnqueueJob(j) ==
    /\ status[j] = "absent"
    /\ \A k \in Jobs : k < j => status[k] # "absent"
    /\ status' = [status EXCEPT ![j] = "queued"]
    /\ UNCHANGED <<owner, epoch, attempt, code, lease, wait, staged,
                   laneVars, procVars, histVars>>

Due(j) == status[j] \in Claimable /\ wait[j] = 0

(* The rows _candidate may return for these kinds, and the one it returns. *)
Candidates(kinds) == {j \in Jobs \ Held : Kind[j] \in kinds /\ Due(j)}
KindOrder(j) == CASE Kind[j] = "memory_purge" -> 0
                  [] Kind[j] = "memory_index" -> 1
                  [] OTHER -> 2
Before(j, k) == \/ KindOrder(j) < KindOrder(k)
                \/ KindOrder(j) = KindOrder(k) /\ j <= k
IsFirst(j, S) == j \in S /\ \A k \in S : Before(j, k)

LaneFreeEarly == laneJob = NoJob \/ laneLease <= 1
LaneFreeNeverReclaimed == laneJob = NoJob
LaneFree == laneJob = NoJob \/ laneLease = 0

(* _assign_job, and the token the claiming process keeps for its handler.  *)
AssignJob(p, j) ==
    /\ status' = [status EXCEPT ![j] = "running"]
    /\ owner' = [owner EXCEPT ![j] = p]
    /\ epoch' = [epoch EXCEPT ![j] = @ + 1]
    /\ attempt' = [attempt EXCEPT ![j] = @ + 1]
    /\ lease' = [lease EXCEPT ![j] = LeaseTime]
    /\ held' = [held EXCEPT ![p] = j]
    /\ heldEpoch' = [heldEpoch EXCEPT ![p] = epoch[j] + 1]
    /\ IF IsModel(j)
       THEN laneJob' = j /\ laneEpoch' = epoch[j] + 1 /\ laneLease' = LeaseTime
       ELSE UNCHANGED laneVars
    /\ UNCHANGED <<code, wait, staged, mode, scan, histVars>>

MayClaim(p) == mode[p] = "up" /\ held[p] = NoJob

(* claim_job: local work first, without the lane and whatever the idle and *)
(* budget gates said; a poll they refuse (allow_maintenance=False) can do  *)
(* no more than this.                                                      *)
ClaimLocalJob(p, kinds) ==
    /\ MayClaim(p)
    /\ \E j \in Jobs : /\ IsFirst(j, Candidates(LocalKinds \cap kinds))
                       /\ AssignJob(p, j)

(* claim_job: model work, when the gates admit the poll, no local work is  *)
(* due and nobody holds the lane under a valid lease.                      *)
ClaimModelJob(p, kinds) ==
    /\ MayClaim(p)
    /\ Candidates(LocalKinds \cap kinds) = {}
    /\ LaneFree
    /\ \E j \in Jobs : /\ IsFirst(j, Candidates(ModelKinds \cap kinds))
                       /\ AssignJob(p, j)

(* claim_backfill_job: one named row under its own hold.                   *)
ClaimBackfillJob(p, j) ==
    /\ MayClaim(p)
    /\ j \in Held /\ Kind[j] \in BackfillKinds /\ Due(j)
    /\ IsModel(j) => LaneFree
    /\ AssignJob(p, j)
-----------------------------------------------------------------------------
(* Settlement by the process that runs the handler. *)

(* guard_job: the row, and for model work the lane, still carry this claim.*)
LaneGuard(j, e) ==
    IsModel(j) => laneJob = j /\ laneEpoch = e /\ laneLease > 0
JobGuardByStatus(p, j, e) ==
    /\ status[j] = "running" /\ lease[j] > 0
    /\ IsModel(j) => laneJob = j /\ laneLease > 0
JobGuard(p, j, e) ==
    /\ status[j] = "running" /\ owner[j] = p /\ epoch[j] = e /\ lease[j] > 0
    /\ LaneGuard(j, e)
Owns(p, j) == held[p] = j /\ JobGuard(p, j, heldEpoch[p])

(* job_transition clears the lane only if it still carries this claim.     *)
ClearLane(j, e) ==
    IF IsModel(j) /\ laneJob = j /\ laneEpoch = e
    THEN laneJob' = NoJob /\ laneLease' = 0 /\ UNCHANGED laneEpoch
    ELSE UNCHANGED laneVars

Forget(p) == /\ held' = [held EXCEPT ![p] = NoJob]
             /\ heldEpoch' = [heldEpoch EXCEPT ![p] = 0]

Heartbeat(p, j) ==
    /\ Owns(p, j)
    /\ lease' = [lease EXCEPT ![j] = LeaseTime]
    /\ laneLease' = IF IsModel(j) THEN LeaseTime ELSE laneLease
    /\ UNCHANGED <<status, owner, epoch, attempt, code, wait, staged,
                   laneJob, laneEpoch, procVars, histVars>>

(* save_job_proposal *)
Stage(p, j) ==
    /\ Owns(p, j)
    /\ staged' = [staged EXCEPT ![j] = heldEpoch[p]]
    /\ UNCHANGED <<status, owner, epoch, attempt, code, lease, wait,
                   laneVars, procVars, histVars>>

(* What complete, fail and defer share: the row leaves running, its lease  *)
(* and the lane's end, and the handler returns.                            *)
Settle(p, j, s) ==
    /\ Owns(p, j)
    /\ status' = [status EXCEPT ![j] = s]
    /\ owner' = [owner EXCEPT ![j] = NoProc]
    /\ lease' = [lease EXCEPT ![j] = 0]
    /\ ClearLane(j, heldEpoch[p])
    /\ Forget(p)
    /\ UNCHANGED <<epoch, mode, scan, resumes>>

(* finish_job, in the transaction that publishes the handler's result; the *)
(* final result is staged over the proposal unless the handler has none.   *)
Complete(p, j, result) ==
    /\ Settle(p, j, "completed")
    /\ staged' = IF result THEN [staged EXCEPT ![j] = heldEpoch[p]] ELSE staged
    /\ commits' = [commits EXCEPT ![j] = @ \cup {heldEpoch[p]}]
    /\ UNCHANGED <<attempt, code, wait, events>>

BackoffAfter(n) == Backoff[IF n <= 1 THEN 1 ELSE IF n >= 3 THEN 3 ELSE n]

ExhaustedLate(j) == attempt[j] > MaxAttempts
Exhausted(j) == attempt[j] >= MaxAttempts

(* fail_job: the last attempt, or an error no retry can cure, block the row. *)
Fail(p, j, permanent) ==
    /\ Settle(p, j, IF permanent \/ Exhausted(j) THEN "blocked"
                                                 ELSE "retry_wait")
    /\ wait' = [wait EXCEPT ![j] = BackoffAfter(attempt[j])]
    /\ code' = [code EXCEPT ![j] = "handler_error"]
    /\ UNCHANGED <<attempt, staged, commits, events>>

(* defer_maintenance_job gives the attempt back.  User activity requeues   *)
(* the row at once, a spent day waits for the next one, and a spent batch  *)
(* waits for retry_job.                                                    *)
DeferReasons == {"activity", "daily_budget", "batch_budget"}
Defer(p, j, reason) ==
    /\ Kind[j] \notin ReplaySafeKinds
    /\ Disturbance
    /\ Settle(p, j, IF reason = "activity" THEN "queued" ELSE "budget_wait")
    /\ attempt' = [attempt EXCEPT ![j] = IF @ > 0 THEN @ - 1 ELSE 0]
    /\ wait' = [wait EXCEPT ![j] = CASE reason = "activity" -> @
                                     [] reason = "daily_budget" -> DayWait
                                     [] reason = "batch_budget" -> Never]
    /\ code' = [code EXCEPT ![j] =
                    CASE reason = "activity" -> @
                      [] reason = "daily_budget" -> "background_budget_wait"
                      [] reason = "batch_budget" -> "maintenance_budget_wait"]
    /\ UNCHANGED <<staged, commits>>

(* A handler whose settlement is fenced changes nothing and is dropped.    *)
DropFenced(p) ==
    /\ held[p] # NoJob /\ ~Owns(p, held[p])
    /\ Forget(p)
    /\ UNCHANGED <<rowVars, laneVars, mode, scan, histVars>>
-----------------------------------------------------------------------------
(* Faults, recovery and explicit retry. *)

(* _background_loop survives a settlement that the database refused: the   *)
(* row stays running under a lease nobody renews.                          *)
SettlementOutage(p) ==
    /\ held[p] # NoJob
    /\ Disturbance
    /\ Forget(p)
    /\ UNCHANGED <<rowVars, laneVars, mode, scan, commits, resumes>>

Crash(p) ==
    /\ mode[p] # "down"
    /\ Disturbance
    /\ mode' = [mode EXCEPT ![p] = "down"]
    /\ scan' = [scan EXCEPT ![p] = NoScan]
    /\ Forget(p)
    /\ UNCHANGED <<rowVars, laneVars, commits, resumes>>

Expired(j) == status[j] = "running" /\ lease[j] = 0

(* The class recover_expired_jobs gives an expired row. *)
Disposition(j) ==
    CASE ~Expired(j) -> "none"
      [] Expired(j) /\ Exhausted(j) -> "exhausted"
      [] Expired(j) /\ ~Exhausted(j) /\ staged[j] # 0 -> "staged"
      [] Expired(j) /\ ~Exhausted(j) /\ staged[j] = 0
           /\ Kind[j] \in ReplaySafeKinds -> "replay_safe"
      [] OTHER -> "unknown"

(* _serve at start: the SELECT of recover_expired_jobs.                    *)
StartupScan(p) ==
    /\ mode[p] = "down"
    /\ mode' = [mode EXCEPT ![p] = "recovering"]
    /\ scan' = [scan EXCEPT ![p] = [j \in Jobs |-> Disposition(j)]]
    /\ UNCHANGED <<rowVars, laneVars, held, heldEpoch, histVars>>

(* recover_job for every row of the scan that is still running and expired *)
(* once it is locked; then the loops start.                                *)
Recovered(p) == {j \in Jobs : scan[p][j] # "none" /\ Expired(j)}
RecoveredStatus(p, j) ==
    IF ~Exhausted(j) /\ scan[p][j] \in {"staged", "replay_safe"}
    THEN "retry_wait" ELSE "blocked"
StartupRecover(p) ==
    /\ mode[p] = "recovering"
    /\ \A j \in Recovered(p) : scan[p][j] = "staged" => staged[j] # 0
    /\ mode' = [mode EXCEPT ![p] = "up"]
    /\ scan' = [scan EXCEPT ![p] = NoScan]
    /\ status' = [j \in Jobs |-> IF j \in Recovered(p)
                                 THEN RecoveredStatus(p, j) ELSE status[j]]
    /\ owner' = [j \in Jobs |-> IF j \in Recovered(p) THEN NoProc ELSE owner[j]]
    /\ code' = [j \in Jobs |-> IF j \in Recovered(p) /\ scan[p][j] = "unknown"
                               THEN Unknown ELSE code[j]]
    /\ IF laneJob \in Recovered(p) /\ laneEpoch = epoch[laneJob]
       THEN laneJob' = NoJob /\ laneLease' = 0 /\ UNCHANGED laneEpoch
       ELSE UNCHANGED laneVars
    /\ UNCHANGED <<epoch, attempt, lease, wait, staged, held, heldEpoch,
                   histVars>>

RetryableAnyCode(j) == status[j] \in {"blocked", "retry_wait", "budget_wait"}
Retryable(j) == /\ status[j] \in {"blocked", "retry_wait", "budget_wait"}
                /\ code[j] # Unknown

(* retry_job, asked for by the user. *)
RetryJob(j) ==
    /\ Retryable(j)
    /\ Disturbance
    /\ status' = [status EXCEPT ![j] = "queued"]
    /\ owner' = [owner EXCEPT ![j] = NoProc]
    /\ lease' = [lease EXCEPT ![j] = 0]
    /\ wait' = [wait EXCEPT ![j] = 0]
    /\ code' = [code EXCEPT ![j] = "none"]
    /\ resumes' = [resumes EXCEPT ![j] = @ + 1]
    /\ UNCHANGED <<epoch, attempt, staged, laneVars, procVars, commits>>

Less(n) == IF n > 0 THEN n - 1 ELSE n

(* Time passes for every stored timestamp at once. *)
Tick ==
    /\ laneLease > 0 \/ \E j \in Jobs : lease[j] > 0 \/ wait[j] > 0
    /\ lease' = [j \in Jobs |-> Less(lease[j])]
    /\ wait' = [j \in Jobs |-> Less(wait[j])]
    /\ laneLease' = Less(laneLease)
    /\ UNCHANGED <<status, owner, epoch, attempt, code, staged, laneJob,
                   laneEpoch, procVars, histVars>>
-----------------------------------------------------------------------------
ClaimJob(p) == \E kinds \in Scopes : ClaimLocalJob(p, kinds)
                                  \/ ClaimModelJob(p, kinds)
Finish(p, j) == \/ \E result \in BOOLEAN : Complete(p, j, result)
                \/ \E permanent \in BOOLEAN : Fail(p, j, permanent)
                \/ \E reason \in DeferReasons : Defer(p, j, reason)

Next ==
    \/ Tick
    \/ \E j \in Jobs : EnqueueJob(j) \/ RetryJob(j)
    \/ \E p \in Procs :
         \/ ClaimJob(p)
         \/ DropFenced(p) \/ SettlementOutage(p) \/ Crash(p)
         \/ StartupScan(p) \/ StartupRecover(p)
         \/ \E j \in Jobs : \/ ClaimBackfillJob(p, j)
                            \/ Heartbeat(p, j) \/ Stage(p, j) \/ Finish(p, j)

Spec == Init /\ [][Next]_vars

(* What a process does by itself is always one of these: it claims when it *)
(* has no job, settles or drops the one it has, or gets through its start. *)
Loop(p) == \/ ClaimJob(p) \/ DropFenced(p) \/ StartupRecover(p)
           \/ \E j \in Jobs : Finish(p, j)

(* A background loop polls for as long as its process is up (and its idle  *)
(* gate opens: the fairness of ClaimJob assumes that too), a handler       *)
(* returns (every provider call and every database wait has a timeout),    *)
(* and time passes.  Nothing makes a process crash, restart, or a user     *)
(* retry.                                                                  *)
Fairness == WF_vars(Tick) /\ \A p \in Procs : WF_vars(Loop(p))
FairSpec == Spec /\ Fairness
-----------------------------------------------------------------------------
Live(j) == status[j] = "running" /\ lease[j] > 0

(* Two model jobs never run at once under valid leases: the lane row, its  *)
(* lock order and its reclaiming on expiry make model work sequential,     *)
(* whatever crashes, late heartbeats and recoveries happen in between.     *)
OneLiveModelJob ==
    \A j, k \in Jobs : Live(j) /\ Live(k) /\ IsModel(j) /\ IsModel(k) => j = k

(* A job's result is published once, by its newest claim: a handler that   *)
(* lost its lease to a recovery, a retry or a later claim cannot publish   *)
(* its older result, and a completed row never runs again.                 *)
NewestClaimCommits ==
    \A j \in Jobs : commits[j] # {} =>
                       status[j] = "completed" /\ commits[j] = {epoch[j]}

(* Left alone, a job is attempted at most MaxAttempts times: deferrals do  *)
(* not count, crashes and recoveries do, and only an explicit retry grants *)
(* another attempt.                                                        *)
AutomaticAttempts == \A j \in Jobs : attempt[j] <= MaxAttempts + resumes[j]

(* The proposal on the row was never written by an older claim over a      *)
(* newer one and is never erased by settlement, recovery or retry.         *)
ProposalsMoveForward == [][\A j \in Jobs : staged'[j] >= staged[j]]_vars

(* "unknown stays blocked" (recover_job): a row whose side effect is       *)
(* unknown is not claimed, retried or reclassified by anyone.              *)
UnknownStaysBlocked ==
    [][\A j \in Jobs : code[j] = Unknown /\ status[j] = "blocked"
                          => status'[j] = "blocked"]_vars

(* Work that is waiting with a date is claimed: a crashed or hung owner    *)
(* holds up neither its lane nor the queue behind it for ever.             *)
WaitingJobsAreClaimed ==
    (\E p \in Procs : <>[](mode[p] = "up")) =>
        \A j \in Jobs \ Held :
            (status[j] \in Claimable /\ wait[j] # Never)
                ~> (status[j] \notin Claimable \/ wait[j] = Never)

(* What the lane promises, as a lock with fenced publication. *)
Lane == INSTANCE ModelLane WITH
            Work <- {j \in Jobs : IsModel(j)},
            active <- {j \in Jobs : IsModel(j) /\ Live(j)},
            published <- {j \in Jobs : IsModel(j) /\ status[j] = "completed"}

(* The scheduler implements that lock. *)
ImplementsModelLane == Lane!Spec
=============================================================================
