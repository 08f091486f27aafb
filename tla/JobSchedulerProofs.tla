------------------------ MODULE JobSchedulerProofs ------------------------
(***************************************************************************)
(* The safety of JobScheduler for every set of jobs and processes and for  *)
(* every lease time, retry limit and bound.  Each invariant of the runs is *)
(* made inductive by a strengthening, and each strengthening has a lemma   *)
(* that goes through the actions that touch its variables.                 *)
(***************************************************************************)
EXTENDS JobScheduler, TLAPS

(* A running model job whose lease has not run out is the lane's: the same *)
(* epoch and the same end of lease.                                        *)
LaneCarriesLiveJob ==
    \A j \in Jobs :
        IsModel(j) /\ status[j] = "running" /\ lease[j] > 0 =>
            laneJob = j /\ laneEpoch = epoch[j] /\ laneLease = lease[j]

(* A row that can still be claimed has an attempt left. *)
AttemptsLeft ==
    \A j \in Jobs :
        /\ attempt[j] <= MaxAttempts + resumes[j]
        /\ status[j] \in Claimable \cup {"absent"} =>
               attempt[j] < MaxAttempts + resumes[j]

(* A proposal was written by a claim the row has had. *)
StagedByClaim == \A j \in Jobs : staged[j] <= epoch[j]
-----------------------------------------------------------------------------
(* Time runs down and stops at zero. *)
LEMMA LessFacts == /\ \A n \in 0..LeaseTime : Less(n) \in 0..LeaseTime
                   /\ \A n \in Nat \cup {Never} : Less(n) \in Nat \cup {Never}
  BY TimeAssumption DEF Less, Never

(* The type invariant is preserved by every step. *)
LEMMA TypeStep == TypeOK /\ [Next]_vars => TypeOK'
<1> SUFFICES ASSUME TypeOK, [Next]_vars PROVE TypeOK'
  OBVIOUS
<1> USE JobsAssumption, ProcAssumption, TimeAssumption, BoundAssumption
<1> USE DEF TypeOK, rowVars, laneVars, procVars, histVars
<1>1. CASE Tick
  BY <1>1, LessFacts DEF Tick
<1>2. ASSUME NEW j \in Jobs, EnqueueJob(j) PROVE TypeOK'
  BY <1>2 DEF EnqueueJob, Statuses, Claimable
<1>3. ASSUME NEW j \in Jobs, RetryJob(j) PROVE TypeOK'
  BY <1>3 DEF RetryJob, Disturbance, Statuses, Claimable, Codes
<1>4. ASSUME NEW p \in Procs, NEW j \in Jobs, AssignJob(p, j) PROVE TypeOK'
  BY <1>4 DEF AssignJob, Statuses
<1>5. ASSUME NEW p \in Procs, ClaimJob(p) PROVE TypeOK'
  BY <1>4, <1>5 DEF ClaimJob, ClaimLocalJob, ClaimModelJob
<1>6. ASSUME NEW p \in Procs, NEW j \in Jobs, ClaimBackfillJob(p, j)
      PROVE TypeOK'
  BY <1>4, <1>6 DEF ClaimBackfillJob
<1>7. ASSUME NEW p \in Procs, DropFenced(p) PROVE TypeOK'
  BY <1>7 DEF DropFenced, Forget
<1>8. ASSUME NEW p \in Procs, SettlementOutage(p) PROVE TypeOK'
  BY <1>8 DEF SettlementOutage, Forget, Disturbance
<1>9. ASSUME NEW p \in Procs, Crash(p) PROVE TypeOK'
  BY <1>9 DEF Crash, Forget, Disturbance, NoScan, Dispositions
<1>10. ASSUME NEW p \in Procs, StartupScan(p) PROVE TypeOK'
  <2>1. \A j \in Jobs : Disposition(j) \in Dispositions
    BY DEF Disposition, Dispositions
  <2> QED
    BY <1>10, <2>1 DEF StartupScan
<1>11. ASSUME NEW p \in Procs, StartupRecover(p) PROVE TypeOK'
  BY <1>11 DEF StartupRecover, NoScan, Dispositions, Recovered,
               RecoveredStatus, Statuses, Claimable, Codes
<1>12. ASSUME NEW p \in Procs, NEW j \in Jobs, Heartbeat(p, j) PROVE TypeOK'
  BY <1>12 DEF Heartbeat
<1>13. ASSUME NEW p \in Procs, NEW j \in Jobs, Stage(p, j) PROVE TypeOK'
  BY <1>13 DEF Stage
<1>14. ASSUME NEW p \in Procs, NEW j \in Jobs, NEW s \in Statuses,
              Settle(p, j, s)
       PROVE /\ status' \in [Jobs -> Statuses]
             /\ owner' \in [Jobs -> Procs \cup {NoProc}]
             /\ epoch' \in [Jobs -> Nat]
             /\ lease' \in [Jobs -> 0..LeaseTime]
             /\ laneJob' \in Jobs \cup {NoJob}
             /\ laneEpoch' \in Nat
             /\ laneLease' \in 0..LeaseTime
             /\ mode' \in [Procs -> {"down", "recovering", "up"}]
             /\ scan' \in [Procs -> [Jobs -> Dispositions]]
             /\ held' \in [Procs -> Jobs \cup {NoJob}]
             /\ heldEpoch' \in [Procs -> Nat]
             /\ resumes' \in [Jobs -> Nat]
  BY <1>14 DEF Settle, ClearLane, Forget
<1>15. ASSUME NEW p \in Procs, NEW j \in Jobs, NEW result \in BOOLEAN,
              Complete(p, j, result)
       PROVE TypeOK'
  BY <1>14, <1>15 DEF Complete, Statuses
<1>16. ASSUME NEW p \in Procs, NEW j \in Jobs, NEW permanent \in BOOLEAN,
              Fail(p, j, permanent)
       PROVE TypeOK'
  <2>1. BackoffAfter(attempt[j]) \in Nat
    BY DEF BackoffAfter
  <2> QED
    BY <1>14, <1>16, <2>1 DEF Fail, Statuses, Claimable, Codes
<1>17. ASSUME NEW p \in Procs, NEW j \in Jobs, NEW reason \in DeferReasons,
              Defer(p, j, reason)
       PROVE TypeOK'
  BY <1>14, <1>17 DEF Defer, Disturbance, DeferReasons, Statuses, Claimable,
                      Codes
<1>18. CASE UNCHANGED vars
  BY <1>18 DEF vars
<1> QED
  BY <1>1, <1>2, <1>3, <1>5, <1>6, <1>7, <1>8, <1>9, <1>10, <1>11, <1>12,
     <1>13, <1>15, <1>16, <1>17, <1>18 DEF Next, Finish

(* Every reachable state of the scheduler is well typed. *)
THEOREM TypeCorrect == Spec => []TypeOK
<1>1. Init => TypeOK
  BY JobsAssumption, TimeAssumption
     DEF Init, TypeOK, Statuses, Codes, NoScan, Dispositions
<1> QED
  BY <1>1, TypeStep, PTL DEF Spec
-----------------------------------------------------------------------------
(* The lane. *)

(* Claiming model work needs a lane whose lease has run out, so no other   *)
(* model job is live.                                                      *)
LEMMA LaneStep == TypeOK /\ LaneCarriesLiveJob /\ [Next]_vars
                      => LaneCarriesLiveJob'
<1> SUFFICES ASSUME TypeOK, LaneCarriesLiveJob, [Next]_vars
             PROVE LaneCarriesLiveJob'
  OBVIOUS
<1> USE JobsAssumption, TimeAssumption
<1> USE DEF TypeOK, LaneCarriesLiveJob, IsModel, NoJob
<1>1. CASE Tick
  BY <1>1 DEF Tick, Less
<1>2. ASSUME NEW j \in Jobs, EnqueueJob(j) PROVE LaneCarriesLiveJob'
  BY <1>2 DEF EnqueueJob, laneVars
<1>3. ASSUME NEW j \in Jobs, RetryJob(j) PROVE LaneCarriesLiveJob'
  BY <1>3 DEF RetryJob, laneVars
<1>4. ASSUME NEW p \in Procs, NEW j \in Jobs, AssignJob(p, j),
             IsModel(j) => LaneFree, status[j] # "running"
      PROVE LaneCarriesLiveJob'
  BY <1>4 DEF AssignJob, LaneFree, laneVars
<1>5. ASSUME NEW p \in Procs, ClaimJob(p) PROVE LaneCarriesLiveJob'
  BY <1>4, <1>5 DEF ClaimJob, ClaimLocalJob, ClaimModelJob, IsFirst,
                    Candidates, Due, Claimable
<1>6. ASSUME NEW p \in Procs, NEW j \in Jobs, ClaimBackfillJob(p, j)
      PROVE LaneCarriesLiveJob'
  BY <1>4, <1>6 DEF ClaimBackfillJob, Due, Claimable
<1>7. ASSUME NEW p \in Procs,
             DropFenced(p) \/ SettlementOutage(p) \/ Crash(p) \/ StartupScan(p)
      PROVE LaneCarriesLiveJob'
  BY <1>7 DEF DropFenced, SettlementOutage, Crash, StartupScan, rowVars,
              laneVars
<1>8. ASSUME NEW p \in Procs, StartupRecover(p) PROVE LaneCarriesLiveJob'
  BY <1>8 DEF StartupRecover, Recovered, RecoveredStatus, Expired, laneVars
<1>9. ASSUME NEW p \in Procs, NEW j \in Jobs, Heartbeat(p, j)
      PROVE LaneCarriesLiveJob'
  BY <1>9 DEF Heartbeat, Owns, JobGuard, LaneGuard
<1>10. ASSUME NEW p \in Procs, NEW j \in Jobs, Stage(p, j)
       PROVE LaneCarriesLiveJob'
  BY <1>10 DEF Stage, laneVars
<1>11. ASSUME NEW p \in Procs, NEW j \in Jobs, NEW s \in Statuses,
              s # "running", Settle(p, j, s)
       PROVE LaneCarriesLiveJob'
  BY <1>11 DEF Settle, ClearLane, laneVars
<1>12. ASSUME NEW p \in Procs, NEW j \in Jobs, Finish(p, j)
       PROVE LaneCarriesLiveJob'
  BY <1>11, <1>12 DEF Finish, Complete, Fail, Defer, Statuses, Claimable
<1>13. CASE UNCHANGED vars
  BY <1>13 DEF vars, rowVars, laneVars
<1> QED
  BY <1>1, <1>2, <1>3, <1>5, <1>6, <1>7, <1>8, <1>9, <1>10, <1>12, <1>13
     DEF Next

(* At most one model job is live, for any number of jobs and processes.    *)
THEOREM LaneIsExclusive == Spec => []OneLiveModelJob
<1>1. Init => LaneCarriesLiveJob
  BY DEF Init, LaneCarriesLiveJob
<1>2. LaneCarriesLiveJob => OneLiveModelJob
  BY DEF LaneCarriesLiveJob, OneLiveModelJob, Live
<1> QED
  BY <1>1, <1>2, LaneStep, TypeCorrect, PTL DEF Spec
-----------------------------------------------------------------------------
(* Publication. *)

(* A completed row is out of reach of every action, and the only action    *)
(* that adds a commit checks that its claim is the row's newest.           *)
LEMMA CommitStep == TypeOK /\ NewestClaimCommits /\ [Next]_vars
                        => NewestClaimCommits'
<1> SUFFICES ASSUME TypeOK, NewestClaimCommits, [Next]_vars
             PROVE NewestClaimCommits'
  OBVIOUS
<1> USE DEF TypeOK, NewestClaimCommits
<1>1. CASE Tick
  BY <1>1 DEF Tick, histVars
<1>2. ASSUME NEW j \in Jobs, EnqueueJob(j) PROVE NewestClaimCommits'
  BY <1>2 DEF EnqueueJob, histVars
<1>3. ASSUME NEW j \in Jobs, RetryJob(j) PROVE NewestClaimCommits'
  BY <1>3 DEF RetryJob, Retryable
<1>4. ASSUME NEW p \in Procs, NEW j \in Jobs, AssignJob(p, j),
             status[j] \in Claimable
      PROVE NewestClaimCommits'
  BY <1>4 DEF AssignJob, Claimable, histVars
<1>5. ASSUME NEW p \in Procs, ClaimJob(p) PROVE NewestClaimCommits'
  BY <1>4, <1>5 DEF ClaimJob, ClaimLocalJob, ClaimModelJob, IsFirst,
                    Candidates, Due
<1>6. ASSUME NEW p \in Procs, NEW j \in Jobs, ClaimBackfillJob(p, j)
      PROVE NewestClaimCommits'
  BY <1>4, <1>6 DEF ClaimBackfillJob, Due
<1>7. ASSUME NEW p \in Procs,
             DropFenced(p) \/ SettlementOutage(p) \/ Crash(p) \/ StartupScan(p)
      PROVE NewestClaimCommits'
  BY <1>7 DEF DropFenced, SettlementOutage, Crash, StartupScan, rowVars,
              histVars
<1>8. ASSUME NEW p \in Procs, StartupRecover(p) PROVE NewestClaimCommits'
  BY <1>8 DEF StartupRecover, Recovered, Expired, histVars
<1>9. ASSUME NEW p \in Procs, NEW j \in Jobs, Heartbeat(p, j) \/ Stage(p, j)
      PROVE NewestClaimCommits'
  BY <1>9 DEF Heartbeat, Stage, histVars
<1>10. ASSUME NEW p \in Procs, NEW j \in Jobs, NEW result \in BOOLEAN,
              Complete(p, j, result)
       PROVE NewestClaimCommits'
  <2>1. commits[j] = {} /\ heldEpoch[p] = epoch[j]
    BY <1>10 DEF Complete, Settle, Owns, JobGuard
  <2> QED
    BY <1>10, <2>1 DEF Complete, Settle
<1>11. ASSUME NEW p \in Procs, NEW j \in Jobs,
              \/ \E permanent \in BOOLEAN : Fail(p, j, permanent)
              \/ \E reason \in DeferReasons : Defer(p, j, reason)
       PROVE NewestClaimCommits'
  BY <1>11 DEF Fail, Defer, Settle, Owns, JobGuard
<1>12. CASE UNCHANGED vars
  BY <1>12 DEF vars, rowVars, histVars
<1> QED
  BY <1>1, <1>2, <1>3, <1>5, <1>6, <1>7, <1>8, <1>9, <1>10, <1>11, <1>12
     DEF Next, Finish

(* A result is published once, by the newest claim on its job. *)
THEOREM PublishedOnce == Spec => []NewestClaimCommits
<1>1. Init => NewestClaimCommits
  BY DEF Init, NewestClaimCommits
<1> QED
  BY <1>1, CommitStep, TypeCorrect, PTL DEF Spec
-----------------------------------------------------------------------------
(* Attempts. *)

(* A claim spends an attempt the row had left; a row out of attempts only  *)
(* leaves blocked by a retry, which grants one.                            *)
LEMMA AttemptStep == TypeOK /\ AttemptsLeft /\ [Next]_vars => AttemptsLeft'
<1> SUFFICES ASSUME TypeOK, AttemptsLeft, [Next]_vars PROVE AttemptsLeft'
  OBVIOUS
<1> USE AttemptsAssumption
<1> USE DEF TypeOK, AttemptsLeft, Claimable
<1>1. CASE Tick
  BY <1>1 DEF Tick, histVars
<1>2. ASSUME NEW j \in Jobs, EnqueueJob(j) PROVE AttemptsLeft'
  BY <1>2 DEF EnqueueJob, histVars
<1>3. ASSUME NEW j \in Jobs, RetryJob(j) PROVE AttemptsLeft'
  BY <1>3 DEF RetryJob, Retryable
<1>4. ASSUME NEW p \in Procs, NEW j \in Jobs, AssignJob(p, j),
             status[j] \in Claimable
      PROVE AttemptsLeft'
  BY <1>4 DEF AssignJob, histVars
<1>5. ASSUME NEW p \in Procs, ClaimJob(p) PROVE AttemptsLeft'
  BY <1>4, <1>5 DEF ClaimJob, ClaimLocalJob, ClaimModelJob, IsFirst,
                    Candidates, Due
<1>6. ASSUME NEW p \in Procs, NEW j \in Jobs, ClaimBackfillJob(p, j)
      PROVE AttemptsLeft'
  BY <1>4, <1>6 DEF ClaimBackfillJob, Due
<1>7. ASSUME NEW p \in Procs,
             DropFenced(p) \/ SettlementOutage(p) \/ Crash(p) \/ StartupScan(p)
      PROVE AttemptsLeft'
  BY <1>7 DEF DropFenced, SettlementOutage, Crash, StartupScan, rowVars,
              histVars
<1>8. ASSUME NEW p \in Procs, StartupRecover(p) PROVE AttemptsLeft'
  <2>1. resumes' = resumes /\ attempt' = attempt
    BY <1>8 DEF StartupRecover, histVars
  <2>2. ASSUME NEW j \in Jobs, status'[j] \in Claimable \cup {"absent"}
        PROVE  \/ status'[j] = status[j]
               \/ attempt[j] < MaxAttempts
    BY <1>8, <2>2 DEF StartupRecover, RecoveredStatus, Exhausted
  <2> QED
    BY <2>1, <2>2
<1>9. ASSUME NEW p \in Procs, NEW j \in Jobs, Heartbeat(p, j) \/ Stage(p, j)
      PROVE AttemptsLeft'
  BY <1>9 DEF Heartbeat, Stage, histVars
<1>10. ASSUME NEW p \in Procs, NEW j \in Jobs, NEW result \in BOOLEAN,
              Complete(p, j, result)
       PROVE AttemptsLeft'
  BY <1>10 DEF Complete, Settle
<1>11. ASSUME NEW p \in Procs, NEW j \in Jobs, NEW permanent \in BOOLEAN,
              Fail(p, j, permanent)
       PROVE AttemptsLeft'
  BY <1>11 DEF Fail, Settle, Exhausted
<1>12. ASSUME NEW p \in Procs, NEW j \in Jobs, NEW reason \in DeferReasons,
              Defer(p, j, reason)
       PROVE AttemptsLeft'
  BY <1>12 DEF Defer, Settle
<1>13. CASE UNCHANGED vars
  BY <1>13 DEF vars, rowVars, histVars
<1> QED
  BY <1>1, <1>2, <1>3, <1>5, <1>6, <1>7, <1>8, <1>9, <1>10, <1>11, <1>12,
     <1>13 DEF Next, Finish

(* Without explicit retries a job runs at most MaxAttempts times. *)
THEOREM AttemptsAreBounded == Spec => []AutomaticAttempts
<1>1. Init => AttemptsLeft
  BY AttemptsAssumption DEF Init, AttemptsLeft
<1>2. AttemptsLeft => AutomaticAttempts
  BY DEF AttemptsLeft, AutomaticAttempts
<1> QED
  BY <1>1, <1>2, AttemptStep, TypeCorrect, PTL DEF Spec
-----------------------------------------------------------------------------
(* Proposals and unknown outcomes: what one step may never do. *)

(* A writer of the proposal passed the guard, so it carries the row's      *)
(* newest epoch; epochs only grow.                                         *)
ProposalsKept == /\ StagedByClaim'
                 /\ \A j \in Jobs : staged'[j] >= staged[j]
LEMMA ProposalStep == TypeOK /\ StagedByClaim /\ [Next]_vars
                          => ProposalsKept
<1> SUFFICES ASSUME TypeOK, StagedByClaim, [Next]_vars
             PROVE  ProposalsKept
  OBVIOUS
<1> USE DEF TypeOK, StagedByClaim, ProposalsKept
<1>1. ASSUME staged' = staged, epoch' = epoch PROVE ProposalsKept
  BY <1>1
<1>2. ASSUME NEW p \in Procs, NEW j \in Jobs, AssignJob(p, j) PROVE ProposalsKept
  BY <1>2 DEF AssignJob
<1>3. ASSUME NEW p \in Procs, ClaimJob(p) PROVE ProposalsKept
  <2>1. \E j \in Jobs : AssignJob(p, j)
    BY <1>3 DEF ClaimJob, ClaimLocalJob, ClaimModelJob
  <2> QED
    BY <2>1, <1>2
<1>4. ASSUME NEW p \in Procs, NEW j \in Jobs, ClaimBackfillJob(p, j) PROVE ProposalsKept
  BY <1>2, <1>4 DEF ClaimBackfillJob
<1>5. ASSUME NEW p \in Procs, NEW j \in Jobs, Stage(p, j) PROVE ProposalsKept
  BY <1>5 DEF Stage, Owns, JobGuard
<1>6. ASSUME NEW p \in Procs, NEW j \in Jobs, NEW result \in BOOLEAN,
             Complete(p, j, result)
      PROVE ProposalsKept
  BY <1>6 DEF Complete, Settle, Owns, JobGuard
<1>7. ASSUME NEW p \in Procs, NEW j \in Jobs, NEW permanent \in BOOLEAN,
             Fail(p, j, permanent)
      PROVE ProposalsKept
  BY <1>1, <1>7 DEF Fail, Settle
<1>8. ASSUME NEW p \in Procs, NEW j \in Jobs, NEW reason \in DeferReasons,
             Defer(p, j, reason)
      PROVE ProposalsKept
  BY <1>1, <1>8 DEF Defer, Settle
<1>9. ASSUME NEW j \in Jobs, EnqueueJob(j) \/ RetryJob(j) PROVE ProposalsKept
  BY <1>1, <1>9 DEF EnqueueJob, RetryJob
<1>10. ASSUME NEW p \in Procs,
              \/ DropFenced(p) \/ SettlementOutage(p) \/ Crash(p)
              \/ StartupScan(p) \/ StartupRecover(p)
              \/ \E j \in Jobs : Heartbeat(p, j)
       PROVE ProposalsKept
  BY <1>1, <1>10 DEF DropFenced, SettlementOutage, Crash, StartupScan,
                     StartupRecover, Heartbeat, rowVars
<1>11. CASE Tick
  BY <1>1, <1>11 DEF Tick
<1>12. ASSUME NEW p \in Procs, NEW j \in Jobs, Finish(p, j) PROVE ProposalsKept
  BY <1>6, <1>7, <1>8, <1>12 DEF Finish
<1>13. CASE UNCHANGED vars
  BY <1>1, <1>13 DEF vars, rowVars
<1> QED
  BY <1>3, <1>4, <1>5, <1>9, <1>10, <1>11, <1>12, <1>13 DEF Next

(* No proposal is erased or overwritten by an older claim. *)
THEOREM ProposalsSurvive == Spec => ProposalsMoveForward
<1>1. Init => StagedByClaim
  BY DEF Init, StagedByClaim
<1>2. TypeOK /\ StagedByClaim /\ [Next]_vars
        => [\A j \in Jobs : staged'[j] >= staged[j]]_vars
  BY ProposalStep DEF ProposalsKept
<1>3. TypeOK /\ StagedByClaim /\ [Next]_vars => StagedByClaim'
  BY ProposalStep DEF ProposalsKept
<1> QED
  BY <1>1, <1>2, <1>3, TypeCorrect, PTL DEF Spec, ProposalsMoveForward

(* No step takes a row with an unknown side effect out of blocked. *)
THEOREM UnknownNeverReplayed == Spec => UnknownStaysBlocked
<1>1. ASSUME TypeOK, [Next]_vars, NEW j \in Jobs,
             code[j] = Unknown, status[j] = "blocked"
      PROVE status'[j] = "blocked"
  <2> USE <1>1 DEF TypeOK
  <2>1. ASSUME NEW p \in Procs, NEW k \in Jobs, AssignJob(p, k), Due(k)
        PROVE status'[j] = "blocked"
    BY <2>1 DEF AssignJob, Due, Claimable
  <2>2. ASSUME NEW p \in Procs, ClaimJob(p) PROVE status'[j] = "blocked"
    BY <2>1, <2>2 DEF ClaimJob, ClaimLocalJob, ClaimModelJob, IsFirst,
                      Candidates
  <2>3. ASSUME NEW p \in Procs, NEW k \in Jobs, ClaimBackfillJob(p, k)
        PROVE status'[j] = "blocked"
    BY <2>1, <2>3 DEF ClaimBackfillJob
  <2>4. ASSUME NEW p \in Procs, NEW k \in Jobs, NEW s \in Statuses,
               Settle(p, k, s)
        PROVE status'[j] = "blocked"
    BY <2>4 DEF Settle, Owns, JobGuard
  <2>5. ASSUME NEW p \in Procs, NEW k \in Jobs, Finish(p, k)
        PROVE status'[j] = "blocked"
    BY <2>4, <2>5 DEF Finish, Complete, Fail, Defer, Statuses, Claimable
  <2>6. ASSUME NEW k \in Jobs, EnqueueJob(k) \/ RetryJob(k)
        PROVE status'[j] = "blocked"
    BY <2>6 DEF EnqueueJob, RetryJob, Retryable
  <2>7. ASSUME NEW p \in Procs, StartupRecover(p) PROVE status'[j] = "blocked"
    BY <2>7 DEF StartupRecover, Recovered, Expired
  <2> QED
    BY <2>2, <2>3, <2>5, <2>6, <2>7
       DEF Next, Tick, DropFenced, SettlementOutage, Crash, StartupScan,
           Heartbeat, Stage, vars, rowVars
<1>2. TypeOK /\ [Next]_vars
        => [\A j \in Jobs : code[j] = Unknown /\ status[j] = "blocked"
                               => status'[j] = "blocked"]_vars
  BY <1>1
<1> QED
  BY <1>2, TypeCorrect, PTL DEF Spec, UnknownStaysBlocked
-----------------------------------------------------------------------------
(* The scheduler implements the abstract lane. *)

Active == {j \in Jobs : IsModel(j) /\ Live(j)}
Published == {j \in Jobs : IsModel(j) /\ status[j] = "completed"}
LaneUnchanged == Active' = Active /\ Published' = Published
LaneStepOrStutter == Lane!Next \/ LaneUnchanged

(* A live model job is the only one, and it holds the lane. *)
LEMMA ActiveIsLane ==
    ASSUME TypeOK, LaneCarriesLiveJob
    PROVE  /\ LaneFree => Active = {}
           /\ \A j \in Active : Active = {j}
<1>1. \A j \in Active : j \in Jobs /\ laneJob = j /\ laneLease > 0
  BY DEF LaneCarriesLiveJob, Active, Live
<1>2. LaneFree => Active = {}
  BY <1>1, JobsAssumption, TimeAssumption DEF TypeOK, LaneFree, NoJob
<1>3. ASSUME NEW j \in Active PROVE Active = {j}
  BY <1>1, <1>3
<1> QED
  BY <1>2, <1>3

(* A job that stops being live, and is not published, is a Release of the  *)
(* abstract lane; nothing at all if it was not live.                       *)
LEMMA GivingUp ==
    ASSUME TypeOK, LaneCarriesLiveJob, Published' = Published,
           Active' \subseteq Active
    PROVE  LaneStepOrStutter
<1>1. CASE Active' = Active
  BY <1>1 DEF LaneStepOrStutter, LaneUnchanged
<1>2. CASE Active' # Active
  <2>1. Active # {} /\ Active' = {}
    BY <1>2, ActiveIsLane
  <2> QED
    BY <2>1 DEF LaneStepOrStutter, Lane!Next, Lane!Release, Active, Published
<1> QED
  BY <1>1, <1>2

LEMMA LaneSimulation == TypeOK /\ LaneCarriesLiveJob /\ [Next]_vars
                            => LaneStepOrStutter
<1> SUFFICES ASSUME TypeOK, LaneCarriesLiveJob, [Next]_vars
             PROVE  LaneStepOrStutter
  OBVIOUS
<1> USE DEF TypeOK
<1>1. ASSUME NEW p \in Procs, NEW j \in Jobs, AssignJob(p, j),
             IsModel(j) => LaneFree, status[j] \in Claimable
      PROVE LaneStepOrStutter
  <2>1. Published' = Published /\ j \notin Published
    BY <1>1 DEF AssignJob, Published, Claimable, IsModel
  <2>2. CASE IsModel(j)
    <3>1. Active = {}
      BY <1>1, <2>2, ActiveIsLane
    <3>2. Active' = {j}
      BY <1>1, <2>2, <3>1, TimeAssumption DEF AssignJob, Active, Live, IsModel
    <3> QED
      BY <2>1, <2>2, <3>1, <3>2
         DEF LaneStepOrStutter, Lane!Next, Lane!Acquire, Active, Published
  <2>3. CASE ~IsModel(j)
    BY <1>1, <2>1, <2>3 DEF AssignJob, Active, Live, IsModel,
                            LaneStepOrStutter, LaneUnchanged
  <2> QED
    BY <2>2, <2>3
<1>2. ASSUME NEW p \in Procs, ClaimJob(p) PROVE LaneStepOrStutter
  BY <1>1, <1>2 DEF ClaimJob, ClaimLocalJob, ClaimModelJob, IsFirst,
                    Candidates, Due, IsModel
<1>3. ASSUME NEW p \in Procs, NEW j \in Jobs, ClaimBackfillJob(p, j)
      PROVE LaneStepOrStutter
  BY <1>1, <1>3 DEF ClaimBackfillJob, Due
<1>4. ASSUME NEW p \in Procs, NEW j \in Jobs, NEW result \in BOOLEAN,
             Complete(p, j, result)
      PROVE LaneStepOrStutter
  <2>1. CASE IsModel(j)
    <3>1. Active = {j}
      BY <1>4, <2>1, ActiveIsLane DEF Complete, Settle, Owns, JobGuard,
                                      Active, Live
    <3>2. Active' = {}
      BY <1>4, <3>1 DEF Complete, Settle, Active, Live, IsModel
    <3>3. Published' = Published \cup {j}
      BY <1>4, <2>1 DEF Complete, Settle, Published, IsModel
    <3> QED
      BY <2>1, <3>1, <3>2, <3>3
         DEF LaneStepOrStutter, Lane!Next, Lane!Publish, Active, Published
  <2>2. CASE ~IsModel(j)
    BY <1>4, <2>2 DEF Complete, Settle, Active, Published, Live, IsModel,
                      LaneStepOrStutter, LaneUnchanged
  <2> QED
    BY <2>1, <2>2
<1>5. ASSUME NEW p \in Procs, NEW j \in Jobs, NEW s \in Statuses,
             s \notin {"running", "completed"}, Settle(p, j, s)
      PROVE LaneStepOrStutter
  <2>1. Published' = Published /\ Active' \subseteq Active
    BY <1>5 DEF Settle, Owns, JobGuard, Active, Published, Live, IsModel
  <2> QED
    BY <2>1, GivingUp
<1>6. ASSUME NEW p \in Procs, NEW j \in Jobs, NEW permanent \in BOOLEAN,
             Fail(p, j, permanent)
      PROVE LaneStepOrStutter
  BY <1>5, <1>6 DEF Fail, Statuses, Claimable
<1>7. ASSUME NEW p \in Procs, NEW j \in Jobs, NEW reason \in DeferReasons,
             Defer(p, j, reason)
      PROVE LaneStepOrStutter
  BY <1>5, <1>7 DEF Defer, Statuses, Claimable
<1>8. ASSUME NEW p \in Procs, NEW j \in Jobs, Finish(p, j)
      PROVE LaneStepOrStutter
  BY <1>4, <1>6, <1>7, <1>8 DEF Finish
<1>9. CASE Tick
  <2>1. Published' = Published /\ Active' \subseteq Active
    BY <1>9 DEF Tick, Less, Active, Published, Live, IsModel
  <2> QED
    BY <2>1, GivingUp
<1>10. ASSUME NEW j \in Jobs, EnqueueJob(j) \/ RetryJob(j)
       PROVE LaneStepOrStutter
  BY <1>10 DEF EnqueueJob, RetryJob, Retryable, Active, Published, Live,
               IsModel, LaneStepOrStutter, LaneUnchanged
<1>11. ASSUME NEW p \in Procs, StartupRecover(p) PROVE LaneStepOrStutter
  BY <1>11 DEF StartupRecover, Recovered, RecoveredStatus, Expired, Active,
               Published, Live, IsModel, LaneStepOrStutter, LaneUnchanged
<1>12. ASSUME NEW p \in Procs, NEW j \in Jobs, Heartbeat(p, j) \/ Stage(p, j)
       PROVE LaneStepOrStutter
  BY <1>12, TimeAssumption
     DEF Heartbeat, Stage, Owns, JobGuard, Active, Published, Live, IsModel,
         LaneStepOrStutter, LaneUnchanged
<1>13. ASSUME NEW p \in Procs,
              DropFenced(p) \/ SettlementOutage(p) \/ Crash(p) \/ StartupScan(p)
       PROVE LaneStepOrStutter
  BY <1>13 DEF DropFenced, SettlementOutage, Crash, StartupScan, rowVars,
               Active, Published, Live, IsModel, LaneStepOrStutter,
               LaneUnchanged
<1>14. CASE UNCHANGED vars
  BY <1>14 DEF vars, rowVars, Active, Published, Live, IsModel,
               LaneStepOrStutter, LaneUnchanged
<1> QED
  BY <1>2, <1>3, <1>8, <1>9, <1>10, <1>11, <1>12, <1>13, <1>14 DEF Next

(* Every behaviour of the scheduler is one of the abstract lane: model     *)
(* work is exclusive and published only while active, once.                *)
THEOREM SchedulerImplementsLane == Spec => ImplementsModelLane
<1>1. Init => Lane!Init /\ LaneCarriesLiveJob
  BY DEF Init, Lane!Init, LaneCarriesLiveJob, Live
<1>2. TypeOK /\ LaneCarriesLiveJob /\ [Next]_vars => [Lane!Next]_(Lane!vars)
  BY LaneSimulation DEF LaneStepOrStutter, LaneUnchanged, Lane!vars, Active,
                        Published
<1> QED
  BY <1>1, <1>2, LaneStep, TypeCorrect, PTL
     DEF Spec, ImplementsModelLane, Lane!Spec
=============================================================================
