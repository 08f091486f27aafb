---------------------------- MODULE Projection ----------------------------
(***************************************************************************)
(* The index of a video and the task that keeps it: the intents of db.py,  *)
(* the fenced workers of retrieval/coordinator.py and what a search may    *)
(* use of their work (retrieval/service.py, retrieval/dense.py).           *)
(*                                                                         *)
(* Rows of different videos have nothing in common, so there is one video. *)
(* A claim raises lease_epoch, which therefore names its owner as well.    *)
(* Time is left out but for the lease: not_before only delays a claim.     *)
(* A definition that is not used (CompleteAnyway, ...) is a mutant of the  *)
(* one next to it.                                                         *)
(***************************************************************************)
EXTENDS Integers

CONSTANTS
    Workers,      \* threads that run a ProjectionWorker, one run_one at a time
    Dense,        \* those of them with an embedding model
    Loop,         \* the maintenance loop of the application
    Contents,     \* what the formal state of the video may say
    Hidden,       \* the state of a removed video or one in no active folder
    Nothing,      \* no units, no snapshot
    MaxAttempts,  \* 5 in the code
    MaxChanges    \* bound: what users and administrators do

ASSUME WorkerAssumption == Dense \subseteq Workers /\ Loop \in Workers
ASSUME ContentAssumption == Hidden \notin Contents /\ Nothing \notin [content : Contents, order : {1, 2}]
ASSUME BoundAssumption == MaxAttempts \in Nat \ {0} /\ MaxChanges \in Nat

VARIABLES
    video,    \* formal state: what _state reads, the order of folders apart
    row,      \* its row of retrieval_projection_tasks
    index,    \* its retrieval_units: their generation and what they say
    vectors,  \* its collection_embeddings, likewise
    worker,   \* what each worker is doing
    changes   \* how many disturbances there were

vars == <<video, row, index, vectors, worker, changes>>

States == [content : Contents \cup {Hidden}, order : {1, 2}]
Visible == [content : Contents, order : {1, 2}]
Row == [gen : Nat, status : {"queued", "running", "retry_wait", "completed", "failed"},
        attempt : 0..MaxAttempts, epoch : Nat,
        live : BOOLEAN,              \* lease_until is in the future
        absent : BOOLEAN, target : BOOLEAN,  \* payload: absent, target_profile
        ready : Nat]                 \* payload: ready_generation, 0 if none
Units == [gen : Nat, holds : Visible \cup {Nothing}]
\* A worker: its claim as the row was then, its snapshot and its encoding.
Worker == [at : {"idle", "claimed", "built"}, claim : Row,
           snap : States \cup {Nothing}, encoded : BOOLEAN]

TypeOK == /\ video \in States /\ row \in Row
          /\ index \in Units /\ vectors \in Units
          /\ worker \in [Workers -> Worker]
          /\ changes \in 0..MaxChanges

NewRow == [gen |-> 1, status |-> "queued", attempt |-> 0, epoch |-> 0,
           live |-> FALSE, absent |-> FALSE, target |-> FALSE, ready |-> 0]
Idle == [at |-> "idle", claim |-> NewRow, snap |-> Nothing, encoded |-> FALSE]
Empty == [gen |-> 0, holds |-> Nothing]

\* create_video has just committed, with its first intent.
Init == /\ video \in States
        /\ row = NewRow
        /\ index = Empty /\ vectors = Empty
        /\ worker = [w \in Workers |-> Idle]
        /\ changes = 0

-----------------------------------------------------------------------------
(* Intents: each is part of the transaction that changes the video *)

Disturbance == changes < MaxChanges /\ changes' = changes + 1

TouchedSameGeneration(r) == [r EXCEPT !.status = "queued", !.attempt = 0,
                                      !.absent = FALSE, !.target = FALSE, !.ready = 0]
\* _touch: a new generation and a new payload; the lease is left as it is.
Touched(r) == [r EXCEPT !.gen = @ + 1, !.status = "queued", !.attempt = 0,
                        !.absent = FALSE, !.target = FALSE, !.ready = 0]

\* A change of the video, its notes or its folders, or a plain request.
Change == /\ Disturbance
          /\ video' \in States
          /\ row' = Touched(row)
          /\ UNCHANGED <<index, vectors, worker>>

\* move_source: the folders of the video change places, with no intent.
Reorder == /\ Disturbance
           /\ video' = [video EXCEPT !.order = 3 - @]
           /\ UNCHANGED <<row, index, vectors, worker>>

\* delete_video: the units go at once, and their vectors with them.
Remove == /\ Disturbance
          /\ row' = [Touched(row) EXCEPT !.absent = TRUE]
          /\ index' = Empty /\ vectors' = Empty
          /\ UNCHANGED <<video, worker>>

\* DenseRetrievalService.rebuild: the generation stays.
Retarget == /\ Disturbance
            /\ row' = [row EXCEPT !.status = "queued", !.attempt = 0, !.target = TRUE]
            /\ UNCHANGED <<video, index, vectors, worker>>

-----------------------------------------------------------------------------
(* Claims and leases *)

ClosedForRetry(r) == [r EXCEPT !.status = "retry_wait", !.live = FALSE]
Closed(r) == [r EXCEPT !.status = IF r.attempt >= MaxAttempts THEN "failed" ELSE "retry_wait",
                       !.live = FALSE]

\* recover, of any worker: a lease that ran out.
Recover(w) == /\ worker[w].at = "idle"
              /\ row.status = "running" /\ ~row.live
              /\ row' = Closed(row)
              /\ UNCHANGED <<video, index, vectors, worker, changes>>

Claimable(r) == r.status \in {"queued", "retry_wait"} /\ r.attempt < MaxAttempts

Claim(w) == LET claim == [row EXCEPT !.status = "running", !.attempt = @ + 1,
                                     !.epoch = @ + 1, !.live = TRUE,
                                     !.target = @ \/ w \in Dense] IN
    /\ worker[w].at = "idle"
    /\ Claimable(row)
    /\ row' = claim
    /\ worker' = [worker EXCEPT ![w] = [Idle EXCEPT !.at = "claimed", !.claim = claim]]
    /\ UNCHANGED <<video, index, vectors, changes>>

\* The lease runs out: the heartbeats stopped, or came too late.
Expire == /\ row.live
          /\ row' = [row EXCEPT !.live = FALSE]
          /\ UNCHANGED <<video, index, vectors, worker, changes>>

Payload(r) == <<r.absent, r.target, r.ready>>
\* _lock_claim; snapshot asks the same of the row it reads.
Holds(w) == LET claim == worker[w].claim IN
    /\ row.status = "running" /\ row.epoch = claim.epoch
    /\ row.gen = claim.gen /\ Payload(row) = Payload(claim)
    /\ row.live

-----------------------------------------------------------------------------
(* A run of a worker *)

\* The units that build makes of a snapshot.
UnitsOf(w) == IF worker[w].snap.content = Hidden \/ worker[w].claim.absent
              THEN Nothing ELSE worker[w].snap

\* snapshot, and then, outside of any transaction, build and encode, which may
\* fail: the units are published all the same.
Build(w) == /\ worker[w].at = "claimed" /\ Holds(w)
            /\ \E encoded \in IF w \in Dense THEN BOOLEAN ELSE {FALSE} :
                 worker' = [worker EXCEPT ![w].at = "built", ![w].snap = video,
                                          ![w].encoded = encoded]
            /\ UNCHANGED <<video, row, index, vectors, changes>>

\* The fingerprint of the state is still that of the snapshot.
Unchanged(w) == worker[w].snap = video
CompleteAnyway(w) == worker[w].at = "built"
\* Nothing is missing: no units, or their vectors too.
Complete(w) == UnitsOf(w) = Nothing \/ worker[w].encoded

\* publish: the fence, the fingerprint and the units in one transaction.
Publish(w) == LET units == [gen |-> worker[w].claim.gen, holds |-> UnitsOf(w)] IN
    /\ worker[w].at = "built" /\ Holds(w) /\ Unchanged(w)
    /\ index' = IF UnitsOf(w) = Nothing THEN Empty ELSE units
    /\ vectors' = IF UnitsOf(w) = Nothing THEN Empty
                  ELSE IF worker[w].encoded THEN units ELSE vectors
    /\ row' = [row EXCEPT !.status = IF Complete(w) THEN "completed" ELSE Closed(row).status,
                          !.live = FALSE, !.ready = worker[w].claim.gen]
    /\ worker' = [worker EXCEPT ![w] = Idle]
    /\ UNCHANGED <<video, changes>>

\* ProjectionStale: the row stays as it is, running until its lease ends.
Stale(w) == /\ \/ worker[w].at # "idle" /\ ~Holds(w)
               \/ worker[w].at = "built" /\ ~Unchanged(w)
            /\ worker' = [worker EXCEPT ![w] = Idle]
            /\ UNCHANGED <<video, row, index, vectors, changes>>

\* Any other error of the run: fail.
Fail(w) == /\ worker[w].at # "idle" /\ Holds(w)
           /\ row' = Closed(row)
           /\ worker' = [worker EXCEPT ![w] = Idle]
           /\ UNCHANGED <<video, index, vectors, changes>>

\* The process dies, or fail meets the error too.
Abandon(w) == /\ worker[w].at # "idle"
              /\ worker' = [worker EXCEPT ![w] = Idle]
              /\ UNCHANGED <<video, row, index, vectors, changes>>

-----------------------------------------------------------------------------
Run(w) == Build(w) \/ Publish(w) \/ Stale(w) \/ Fail(w)
Users == Change \/ Reorder \/ Remove \/ Retarget
Next == \/ Users \/ Expire
        \/ \E w \in Workers : Recover(w) \/ Claim(w) \/ Run(w) \/ Abandon(w)
Spec == Init /\ [][Next]_vars

\* A lease that nobody renews: no worker is in a run of its claim.
Lapse == Expire /\ \A w \in Workers : worker[w].at = "idle" \/ worker[w].claim.epoch # row.epoch
\* The loop of the application polls; a run that began comes to an end.
Fairness == /\ WF_vars(Lapse) /\ WF_vars(Recover(Loop)) /\ WF_vars(Claim(Loop))
            /\ \A w \in Workers : WF_vars(Run(w))
FairSpec == Spec /\ Fairness

-----------------------------------------------------------------------------
(* Properties *)

\* What a search finds (RetrievalService._search_filters joins the units to
\* the requested generation) says what the video says now, whichever worker
\* was late: only the order of its folders may be old.
SearchableIsCurrent ==
    index.holds # Nothing /\ index.gen = row.gen =>
        /\ index.holds.content = video.content
        /\ ~row.absent

\* A completed task leaves nothing undone: the units of a visible video and,
\* of the very same text and generation, their vectors.
CompletedIsIndexed ==
    row.status = "completed" =>
        IF video.content = Hidden \/ row.absent THEN index.holds = Nothing
        ELSE /\ index.gen = row.gen /\ index.holds # Nothing
             /\ vectors = index

\* A payload that says the generation is ready (evidence/authority.py reads
\* it) says so of the units that are there, also while the task runs again.
ReadyIsPublished ==
    row.ready = row.gen => \/ index.gen = row.gen /\ index.holds # Nothing
                           \/ index.holds = Nothing
                              /\ (video.content = Hidden \/ row.absent)

\* Every intent is worked off, or fails for good, once nobody adds another,
\* whichever workers die, stall or lose the race.
IntentsSettle == <>[](row.status \in {"completed", "failed"})
===========================================================================
