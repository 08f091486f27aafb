---------------------------- MODULE SingleFlight ----------------------------
(***************************************************************************)
(* One unit of a taxonomy stage and the processes that run or resume it    *)
(* (TaxonomyWorkflow._model_stage): the row of taxonomy_stage_runs, the    *)
(* directories of its attempts with their audits (AuditedJsonCaller), and  *)
(* in each directory, for the primary request and the JSON repair, the     *)
(* lease file, the ledger of responses and the pointer to the accepted     *)
(* one (taxonomy/provider_single_flight.py).                               *)
(*                                                                         *)
(* There is no lock: processes exclude each other by creating a file that  *)
(* must not exist yet.  Such a file is created empty and written after, so *)
(* others may read it torn.  A process is one run of the command; when it  *)
(* ends or dies, its leases have a dead owner.                             *)
(*                                                                         *)
(* A lease may be read as expired at any time: its owner may have slept.   *)
(* Prompts and input hashes agree, the disk keeps what was written, and    *)
(* validation is a function of the response.  A definition that is not     *)
(* used (JudgeEmptyToo, ...) is a mutant of the one after it.              *)
(***************************************************************************)
EXTENDS Integers, FiniteSets

CONSTANTS
    Runners,     \* processes, each started again after it ended
    Nobody,      \* the owner of a lease is dead
    Answers,     \* what a provider may answer
    MaxAttempts, \* bound: attempts
    MaxCrashes   \* bound: processes that die

Attempts == 1..MaxAttempts
Kinds == {"primary", "json_repair"}

ASSUME RunnerAssumption == Nobody \notin Runners
ASSUME AnswerAssumption == Answers \subseteq {"valid", "invalid", "empty"}
ASSUME BoundAssumption == MaxAttempts \in Nat /\ MaxCrashes \in Nat

VARIABLES
    row,         \* status, attempt_count and output of the stage
    audit,       \* of each attempt: its directory and its audit.json
    invalidated, \* attempts with a validation-error.txt
    lease,       \* of each attempt and kind: state and owner
    takenOver,   \* attempts and kinds with a takeover file
    ledger,      \* the response persisted of each attempt and kind
    accepted,    \* accepted-response.json of each attempt
    repairRaw,   \* attempts whose repair-audit.json names a response
    asked,       \* requests sent for each attempt and kind
    runner,      \* of each process: where it is and what it has read
    crashes

files == <<audit, invalidated, takenOver, accepted, repairRaw>>
vars == <<row, files, lease, ledger, asked, runner, crashes>>

Ended == {"failed", "validation_failed", "abandoned"}
Marked == {"received", "persisted", "completed"}
LeaseStates ==
    {"none", "torn", "prepared", "requesting"} \cup Ended \cup Marked
Places ==
    {"idle", "looked", "started", "calling", "made", "acquiring", "examining",
     "expired", "abandoning", "created", "prepared", "asking", "received",
     "persisted", "answered", "judging", "repairing", "accepting", "pointing",
     "accepted", "closing", "done", "forcing", "forced", "failing",
     "reporting", "marking"}

TypeOK ==
    /\ row \in [status : {"pending", "processing", "retry_wait", "failed",
                          "completed"},
                count : 0..MaxAttempts, output : 0..MaxAttempts]
    /\ audit \in [Attempts -> {"none", "made", "prepared", "completed"}]
    /\ invalidated \subseteq Attempts /\ repairRaw \subseteq Attempts
    /\ lease \in [Attempts -> [Kinds ->
                    [state : LeaseStates, owner : Runners \cup {Nobody}]]]
    /\ takenOver \subseteq Attempts \X Kinds
    /\ ledger \in [Attempts -> [Kinds -> Answers \cup {"none"}]]
    /\ accepted \in [Attempts -> Kinds \cup {"none", "torn"}]
    /\ asked \in [Attempts -> [Kinds -> Nat]]
    /\ runner \in [Runners ->
         [at : Places, number : 0..MaxAttempts, dir : 0..MaxAttempts,
          kind : Kinds, forced : BOOLEAN, resumed : BOOLEAN, found : BOOLEAN,
          answer : Answers \cup {"none"}, seen : LeaseStates, retry : BOOLEAN]]
    /\ crashes \in 0..MaxCrashes

Idle == [at |-> "idle", number |-> 0, dir |-> 0, kind |-> "primary",
         forced |-> FALSE, resumed |-> FALSE, found |-> FALSE,
         answer |-> "none", seen |-> "none", retry |-> FALSE]

Init ==
    /\ row = [status |-> "pending", count |-> 0, output |-> 0]
    /\ audit = [a \in Attempts |-> "none"]
    /\ invalidated = {} /\ takenOver = {} /\ repairRaw = {}
    /\ lease = [a \in Attempts |-> [k \in Kinds |->
                    [state |-> "none", owner |-> Nobody]]]
    /\ ledger = [a \in Attempts |-> [k \in Kinds |-> "none"]]
    /\ accepted = [a \in Attempts |-> "none"]
    /\ asked = [a \in Attempts |-> [k \in Kinds |-> 0]]
    /\ runner = [r \in Runners |-> Idle]
    /\ crashes = 0
-----------------------------------------------------------------------------
At(r, place) == runner[r].at = place
Dir(r) == runner[r].dir
Kind(r) == runner[r].kind
Lease(r) == lease[Dir(r)][Kind(r)]
Response(r) == ledger[Dir(r)][Kind(r)]

Go(r, place) == runner' = [runner EXCEPT ![r].at = place]
WriteLease(r, state) ==
    lease' = [lease EXCEPT ![Dir(r)][Kind(r)].state = state]

(* The process is gone, and with it the owner of its leases.               *)
Gone(r) ==
    /\ runner' = [runner EXCEPT ![r] = Idle]
    /\ lease' = [a \in Attempts |-> [k \in Kinds |->
                    [state |-> lease[a][k].state,
                     owner |-> IF lease[a][k].owner = r THEN Nobody
                               ELSE lease[a][k].owner]]]

(* What an error leads to: provider_already_in_progress and                *)
(* provider_lease_owner_unconfirmed go up at once, the two codes that ask  *)
(* for a new attempt do so once, any other PipelineError fails the stage   *)
(* first, and an exception of another class, as a torn file raises, is not *)
(* caught in _model_stage.                                                 *)
Leave(r, place, retry) ==
    runner' = [runner EXCEPT
                 ![r] = [Idle EXCEPT !.at = place, !.retry = retry]]
Busy(r) == Leave(r, "reporting", TRUE)
Broken(r) == Leave(r, "reporting", FALSE)
Fails(r, retry) == Leave(r, "failing", retry)
Settle(r, place) ==
    runner' = [runner EXCEPT ![r] = [Idle EXCEPT !.at = place, !.dir = Dir(r),
                                                 !.kind = Kind(r)]]
NewAttempt(r) ==
    IF runner[r].forced THEN Fails(r, TRUE)
    ELSE runner' = [runner EXCEPT
                      ![r] = [Idle EXCEPT !.at = "forcing",
                                          !.number = runner[r].number]]
-----------------------------------------------------------------------------
(* _model_stage and the repository's transactions.                         *)
Resumable == row.status \in {"processing", "retry_wait"} /\ row.count > 0
Made == {a \in Attempts : audit[a] # "none"}
IsLast(d) == d \in Made /\ \A a \in Made : a <= d

Look(r) ==
    /\ At(r, "idle") /\ row.status \notin {"completed", "failed"}
    /\ runner' = [runner EXCEPT ![r].at = "looked",
                    ![r].number = IF Resumable THEN row.count ELSE 0]
    /\ UNCHANGED <<row, files, lease, ledger, asked, crashes>>

Begin(n) == /\ row.count + n <= MaxAttempts
            /\ row' = IF row.status = "completed" THEN row
                      ELSE [row EXCEPT !.status = "processing",
                                       !.count = @ + n]

start_stage(r) ==
    /\ At(r, "looked") /\ Go(r, "started")
    /\ Begin(IF Resumable \/ row.status = "completed" THEN 0 ELSE 1)
    /\ UNCHANGED <<files, lease, ledger, asked, crashes>>

(* start_stage returns the row read anew; _model_call_dir lists the files. *)
Locate(r) ==
    /\ At(r, "started")
    /\ \/ row.status = "completed" /\ Gone(r)
       \/ /\ row.status # "completed" /\ UNCHANGED lease
          /\ LET resume == runner[r].number > 0
                 number == IF resume THEN runner[r].number ELSE row.count
             IN  \E d \in Attempts :
                   /\ IF resume /\ Made # {} THEN IsLast(d) ELSE d = number
                   /\ runner' = [runner EXCEPT ![r].at = "calling",
                                   ![r].number = number, ![r].dir = d]
    /\ UNCHANGED <<row, files, ledger, asked, crashes>>

force_new_attempt(r) ==
    /\ At(r, "forcing") /\ Go(r, "forced")
    /\ Begin(IF row.count > runner[r].number \/ row.status = "completed"
             THEN 0 ELSE 1)
    /\ UNCHANGED <<files, lease, ledger, asked, crashes>>

Relocate(r) ==
    /\ At(r, "forced")
    /\ runner' = [runner EXCEPT
                    ![r] = [Idle EXCEPT !.at = "calling", !.forced = TRUE,
                              !.number = runner[r].number, !.dir = row.count]]
    /\ UNCHANGED <<row, files, lease, ledger, asked, crashes>>

complete_stage(r) ==
    /\ At(r, "done") /\ Gone(r)
    /\ row' = [row EXCEPT !.status = "completed", !.output = Dir(r)]
    /\ UNCHANGED <<files, ledger, asked, crashes>>

FailedStatus(r) == [row EXCEPT !.status =
                       IF runner[r].retry THEN "retry_wait" ELSE "failed"]
fail_stage(r) ==
    /\ At(r, "failing") /\ Go(r, "reporting")
    /\ row' = FailedStatus(r)
    /\ UNCHANGED <<files, lease, ledger, asked, crashes>>

(* _record_workflow_failure looks for a stage in progress, then fails it.  *)
Report(r) ==
    /\ At(r, "reporting")
    /\ IF row.status \in {"pending", "processing"}
       THEN Go(r, "marking") /\ UNCHANGED lease ELSE Gone(r)
    /\ UNCHANGED <<row, files, ledger, asked, crashes>>

record_failure(r) ==
    /\ At(r, "marking") /\ Gone(r)
    /\ row' = FailedStatus(r)
    /\ UNCHANGED <<files, ledger, asked, crashes>>
-----------------------------------------------------------------------------
(* AuditedJsonCaller.                                                      *)
Make(r) ==
    /\ At(r, "calling") /\ audit[Dir(r)] = "none"
    /\ audit' = [audit EXCEPT ![Dir(r)] = "made"]
    /\ Go(r, "made")
    /\ UNCHANGED <<row, invalidated, takenOver, accepted, repairRaw, lease,
                   ledger, asked, crashes>>

Prepare(r) ==
    /\ At(r, "made") /\ Go(r, "acquiring")
    /\ audit' = [audit EXCEPT ![Dir(r)] = "prepared"]
    /\ UNCHANGED <<row, invalidated, takenOver, accepted, repairRaw, lease,
                   ledger, asked, crashes>>

(* Of the files it reads only the lease may change its mind later, and     *)
(* acquire reads the ledger again.                                         *)
ResumeAt(r) ==
    LET d == Dir(r)
        answer == ledger[d]["primary"]
        state == lease[d]["primary"].state
        Resumed(place) == runner' = [runner EXCEPT ![r].at = place,
                            ![r].resumed = TRUE, ![r].answer = answer]
    IN  \/ audit[d] = "made" /\ Busy(r)
        \/ audit[d] = "completed" /\ Settle(r, "done")
        \/ /\ audit[d] = "prepared"
           /\ \/ answer = "empty" /\ NewAttempt(r)
              \/ /\ answer \notin {"none", "empty"}
                 /\ Resumed(IF d \in invalidated THEN "repairing"
                            ELSE "judging")
              \/ answer = "none" /\ state = "torn" /\ Broken(r)
              \/ answer = "none" /\ state = "failed" /\ NewAttempt(r)
              \/ /\ answer = "none" /\ state \notin {"torn", "failed"}
                 /\ Resumed("acquiring")

_resume(r) ==
    /\ At(r, "calling") /\ audit[Dir(r)] # "none"
    /\ ResumeAt(r)
    /\ UNCHANGED <<row, files, lease, ledger, asked, crashes>>

(* The response is in hand: audit.json or repair-audit.json says so.       *)
Record(r) ==
    /\ At(r, "answered") /\ Go(r, "judging")
    /\ IF Kind(r) = "primary"
       THEN /\ audit' = [audit EXCEPT ![Dir(r)] = "prepared"]
            /\ UNCHANGED repairRaw
       ELSE repairRaw' = repairRaw \cup {Dir(r)} /\ UNCHANGED audit
    /\ UNCHANGED <<row, invalidated, takenOver, accepted, lease, ledger, asked,
                   crashes>>

JudgeEmptyToo(r) ==
    /\ At(r, "judging")
    /\ \/ /\ runner[r].answer = "valid" /\ Settle(r, "accepting")
          /\ UNCHANGED <<invalidated, lease>>
       \/ /\ runner[r].answer # "valid" /\ Kind(r) = "primary"
          /\ WriteLease(r, "validation_failed") /\ Go(r, "repairing")
          /\ invalidated' = invalidated \cup {Dir(r)}
       \/ /\ runner[r].answer # "valid" /\ Kind(r) = "json_repair"
          /\ WriteLease(r, "validation_failed") /\ UNCHANGED invalidated
          /\ IF runner[r].found THEN NewAttempt(r) ELSE Fails(r, TRUE)
    /\ UNCHANGED <<row, audit, takenOver, accepted, repairRaw, ledger, asked,
                   crashes>>

(* A valid response is accepted.  An invalid one goes to repair, an empty  *)
(* one does not; a repair that is invalid asks for a new attempt when it   *)
(* was found in the ledger.                                                *)
Judge(r) ==
    /\ At(r, "judging")
    /\ \/ /\ runner[r].answer = "valid" /\ Settle(r, "accepting")
          /\ UNCHANGED <<invalidated, lease>>
       \/ /\ runner[r].answer = "empty" /\ Kind(r) = "primary"
          /\ Fails(r, TRUE) /\ UNCHANGED <<invalidated, lease>>
       \/ /\ runner[r].answer = "invalid" /\ Kind(r) = "primary"
          /\ WriteLease(r, "validation_failed") /\ Go(r, "repairing")
          /\ invalidated' = invalidated \cup {Dir(r)}
       \/ /\ runner[r].answer # "valid" /\ Kind(r) = "json_repair"
          /\ WriteLease(r, "validation_failed") /\ UNCHANGED invalidated
          /\ IF runner[r].found THEN NewAttempt(r) ELSE Fails(r, TRUE)
    /\ UNCHANGED <<row, audit, takenOver, accepted, repairRaw, ledger, asked,
                   crashes>>

(* What _repair finds: a response its audit names is taken as it is.       *)
Named(r) == /\ runner[r].resumed /\ Dir(r) \in repairRaw
            /\ ledger[Dir(r)]["json_repair"] \in {"valid", "invalid"}

RepairAtUnjudged(r) ==
    LET d == Dir(r)
        answer == ledger[d]["json_repair"]
        state == lease[d]["json_repair"].state
        To(place) == runner' = [runner EXCEPT ![r].at = place,
                       ![r].kind = "json_repair", ![r].answer = answer,
                       ![r].found = (answer # "none")]
    IN  \/ Named(r) /\ Settle(r, "closing")
        \/ ~Named(r) /\ answer # "none" /\ To("judging")
        \/ /\ ~Named(r) /\ answer = "none"
           /\ \/ state = "torn" /\ Broken(r)
              \/ state \in {"failed", "validation_failed"} /\ NewAttempt(r)
              \/ /\ state \notin {"torn", "failed", "validation_failed"}
                 /\ To("acquiring")
RepairAt(r) ==
    LET d == Dir(r)
        answer == ledger[d]["json_repair"]
        state == lease[d]["json_repair"].state
        To(place) == runner' = [runner EXCEPT ![r].at = place,
                       ![r].kind = "json_repair", ![r].answer = answer,
                       ![r].found = (answer # "none")]
    IN  \/ Named(r) /\ answer = "valid" /\ Settle(r, "closing")
        \/ Named(r) /\ answer = "invalid" /\ NewAttempt(r)
        \/ ~Named(r) /\ answer # "none" /\ To("judging")
        \/ /\ ~Named(r) /\ answer = "none"
           /\ \/ state = "torn" /\ Broken(r)
              \/ state \in {"failed", "validation_failed"} /\ NewAttempt(r)
              \/ /\ state \notin {"torn", "failed", "validation_failed"}
                 /\ To("acquiring")

_repair(r) ==
    /\ At(r, "repairing")
    /\ RepairAt(r)
    /\ UNCHANGED <<row, files, lease, ledger, asked, crashes>>

(* parsed-output.json, then audit.json.                                    *)
Close(r) ==
    /\ At(r, "closing") /\ Settle(r, "done")
    /\ audit' = [audit EXCEPT ![Dir(r)] = "completed"]
    /\ UNCHANGED <<row, invalidated, takenOver, accepted, repairRaw, lease,
                   ledger, asked, crashes>>
-----------------------------------------------------------------------------
(* ProviderAttemptLease.acquire.                                           *)
Answered(r) == runner' = [runner EXCEPT ![r].at = "answered",
                                        ![r].answer = Response(r),
                                        ![r].seen = "none"]

acquire(r) ==
    /\ At(r, "acquiring")
    /\ \/ Response(r) # "none" /\ Answered(r) /\ UNCHANGED lease
       \/ /\ Response(r) = "none" /\ Lease(r).state = "none"
          /\ lease' = [lease EXCEPT ![Dir(r)][Kind(r)] =
                          [state |-> "torn", owner |-> r]]
          /\ Go(r, "created")
       \/ /\ Response(r) = "none" /\ Lease(r).state = "torn"
          /\ Broken(r) /\ UNCHANGED lease
       \/ /\ Response(r) = "none" /\ Lease(r).state \notin {"none", "torn"}
          /\ runner' = [runner EXCEPT ![r].at = "examining",
                                      ![r].seen = Lease(r).state]
          /\ UNCHANGED lease
    /\ UNCHANGED <<row, files, ledger, asked, crashes>>

(* The ledger is read again, then the lease that was read is judged: over, *)
(* not expired, or expired.                                                *)
Examine(r) ==
    /\ At(r, "examining")
    /\ \/ Response(r) # "none" /\ Answered(r)
       \/ /\ Response(r) = "none" /\ runner[r].seen \in Ended
          /\ NewAttempt(r)
       \/ /\ Response(r) = "none" /\ runner[r].seen \notin Ended
          /\ Busy(r) \/ Go(r, "expired")
    /\ UNCHANGED <<row, files, lease, ledger, asked, crashes>>

(* _owner_alive asks for the process now; the marks are those read before. *)
TakeOver(r) ==
    /\ At(r, "expired")
    /\ \/ /\ \/ Lease(r).owner # Nobody
             \/ /\ runner[r].seen \notin Marked
                /\ <<Dir(r), Kind(r)>> \in takenOver
          /\ Busy(r) /\ UNCHANGED takenOver
       \/ /\ Lease(r).owner = Nobody /\ runner[r].seen \in Marked
          /\ Fails(r, FALSE) /\ UNCHANGED takenOver
       \/ /\ Lease(r).owner = Nobody /\ runner[r].seen \notin Marked
          /\ <<Dir(r), Kind(r)>> \notin takenOver
          /\ takenOver' = takenOver \cup {<<Dir(r), Kind(r)>>}
          /\ Go(r, "abandoning")
    /\ UNCHANGED <<row, audit, invalidated, accepted, repairRaw, lease, ledger,
                   asked, crashes>>

AbandonInPlace(r) ==
    /\ At(r, "abandoning")
    /\ lease' = [lease EXCEPT ![Dir(r)][Kind(r)] =
                    [state |-> "prepared", owner |-> r]]
    /\ Go(r, "prepared")
    /\ UNCHANGED <<row, files, ledger, asked, crashes>>
Abandon(r) ==
    /\ At(r, "abandoning")
    /\ WriteLease(r, "abandoned") /\ NewAttempt(r)
    /\ UNCHANGED <<row, files, ledger, asked, crashes>>

(* The empty file gets its content.                                        *)
Written(r) ==
    /\ At(r, "created")
    /\ WriteLease(r, "prepared") /\ Go(r, "prepared")
    /\ UNCHANGED <<row, files, ledger, asked, crashes>>
-----------------------------------------------------------------------------
(* ProviderSingleFlight.invoke: the lease is marked, then the request goes *)
(* out; the answer is marked, put in the ledger, and marked again.         *)
Ask(r) ==
    /\ At(r, "prepared")
    /\ WriteLease(r, "requesting") /\ Go(r, "asking")
    /\ asked' = [asked EXCEPT ![Dir(r)][Kind(r)] = @ + 1]
    /\ UNCHANGED <<row, files, ledger, crashes>>

Receive(r) ==
    /\ At(r, "asking")
    /\ WriteLease(r, "received")
    /\ \E c \in Answers : runner' = [runner EXCEPT ![r].at = "received",
                                                   ![r].answer = c]
    /\ UNCHANGED <<row, files, ledger, asked, crashes>>

RequestFails(r) ==
    /\ At(r, "asking")
    /\ WriteLease(r, "failed") /\ \E retry \in BOOLEAN : Fails(r, retry)
    /\ UNCHANGED <<row, files, ledger, asked, crashes>>

persist_response(r) ==
    /\ At(r, "received") /\ Go(r, "persisted")
    /\ ledger' = [ledger EXCEPT ![Dir(r)][Kind(r)] = runner[r].answer]
    /\ UNCHANGED <<row, files, lease, asked, crashes>>

MarkPersisted(r) ==
    /\ At(r, "persisted")
    /\ WriteLease(r, "persisted") /\ Go(r, "answered")
    /\ UNCHANGED <<row, files, ledger, asked, crashes>>

(* ImmutableResponseLedger.accept: the pointer is created once; another    *)
(* pointer than ours is multiple_accepted_provider_responses.              *)
Point(r) ==
    /\ At(r, "accepting")
    /\ \/ /\ accepted[Dir(r)] = "none"
          /\ accepted' = [accepted EXCEPT ![Dir(r)] = "torn"]
          /\ Go(r, "pointing")
       \/ accepted[Dir(r)] = "torn" /\ Broken(r) /\ UNCHANGED accepted
       \/ accepted[Dir(r)] = Kind(r) /\ Go(r, "accepted") /\ UNCHANGED accepted
       \/ /\ accepted[Dir(r)] \in Kinds \ {Kind(r)}
          /\ Fails(r, FALSE) /\ UNCHANGED accepted
    /\ UNCHANGED <<row, audit, invalidated, takenOver, repairRaw, lease,
                   ledger, asked, crashes>>

WritePointer(r) ==
    /\ At(r, "pointing") /\ Go(r, "accepted")
    /\ accepted' = [accepted EXCEPT ![Dir(r)] = Kind(r)]
    /\ UNCHANGED <<row, audit, invalidated, takenOver, repairRaw, lease,
                   ledger, asked, crashes>>

MarkCompleted(r) ==
    /\ At(r, "accepted")
    /\ WriteLease(r, "completed") /\ Go(r, "closing")
    /\ UNCHANGED <<row, files, ledger, asked, crashes>>
-----------------------------------------------------------------------------
Crash(r) ==
    /\ ~At(r, "idle") /\ crashes < MaxCrashes /\ crashes' = crashes + 1
    /\ Gone(r)
    /\ UNCHANGED <<row, files, ledger, asked>>

Stage(r) ==
    \/ Look(r) \/ start_stage(r) \/ Locate(r)
    \/ force_new_attempt(r) \/ Relocate(r)
    \/ complete_stage(r) \/ fail_stage(r) \/ Report(r) \/ record_failure(r)
Caller(r) ==
    \/ Make(r) \/ Prepare(r) \/ _resume(r) \/ Record(r) \/ Judge(r)
    \/ _repair(r) \/ Close(r)
Flight(r) ==
    \/ acquire(r) \/ Examine(r) \/ TakeOver(r) \/ Abandon(r) \/ Written(r)
    \/ Ask(r) \/ Receive(r) \/ RequestFails(r) \/ persist_response(r)
    \/ MarkPersisted(r) \/ Point(r) \/ WritePointer(r) \/ MarkCompleted(r)

Next == \E r \in Runners : Stage(r) \/ Caller(r) \/ Flight(r) \/ Crash(r)
Spec == Init /\ [][Next]_vars
-----------------------------------------------------------------------------
(* "exactly one Provider call per leased attempt" (domain_draft_a.py): an  *)
(* attempt's primary request leaves at most once, and its repair, whoever  *)
(* dies, sleeps or resumes it.                                             *)
OneCallPerAttempt == \A a \in Attempts, k \in Kinds : asked[a][k] <= 1

(* A repair is asked for only when the response it repairs is on disk and  *)
(* invalid; so of an attempt at most one response is ever accepted, one    *)
(* that is valid (accept's multiple_accepted_provider_responses).          *)
AcceptedIsSound == \A a \in Attempts :
    /\ asked[a]["json_repair"] > 0 => ledger[a]["primary"] = "invalid"
    /\ \A k \in Kinds : accepted[a] = k => ledger[a][k] = "valid"

(* The output of a completed stage comes from a valid response that the    *)
(* ledger of its attempt keeps, also when several processes completed it   *)
(* or another attempt was begun meanwhile.                                 *)
CompletedIsAnswered ==
    row.status = "completed" =>
        \E k \in Kinds : ledger[row.output][k] = "valid"

(* The leases and the ledger of responses keep the promise of a record of  *)
(* paid calls: an attempt that has a response, failed or was abandoned is  *)
(* not asked again, and its response is never replaced (acquire, invoke,   *)
(* ImmutableResponseLedger.persist_response).                              *)
CallState(a, k) ==
    IF ledger[a][k] # "none" THEN "answered"
    ELSE IF lease[a][k].state \in {"failed", "abandoned"} THEN "unknown"
    ELSE "open"
Paid == INSTANCE ProviderCalls WITH
            Calls <- Attempts \X Kinds, Nothing <- "none",
            left <- [c \in Attempts \X Kinds |-> asked[c[1]][c[2]]],
            state <- [c \in Attempts \X Kinds |-> CallState(c[1], c[2])],
            answer <- [c \in Attempts \X Kinds |-> ledger[c[1]][c[2]]]
ImplementsProviderCalls == Paid!Spec
=============================================================================
