------------------------- MODULE ProjectionProofs -------------------------
(***************************************************************************)
(* Safety of Projection for any workers, states, attempts and number of    *)
(* changes.  One invariant carries all of it: the index is never of a      *)
(* generation that nobody asked for yet, so an intent outdates it.         *)
(***************************************************************************)
EXTENDS Projection, TLAPS

Requested == row.gen >= 1 /\ index.gen <= row.gen
IInv == TypeOK /\ Requested /\ SearchableIsCurrent /\ CompletedIsIndexed /\ ReadyIsPublished

-----------------------------------------------------------------------------
(* What the steps do to a row *)

\* _touch keeps the types, and queues the row under a generation of its own.
LEMMA TouchedRow ==
    ASSUME NEW r \in Row
    PROVE  /\ Touched(r) \in Row
           /\ Touched(r).gen = r.gen + 1 /\ Touched(r).status = "queued"
           /\ Touched(r).absent = FALSE /\ Touched(r).ready = 0
  <1>1. Touched(r) = [r EXCEPT !.gen = r.gen + 1, !.status = "queued", !.attempt = 0,
                               !.absent = FALSE, !.target = FALSE, !.ready = 0]
    BY DEF Touched
  <1>2. 0 \in 0..MaxAttempts /\ r.gen + 1 \in Nat BY BoundAssumption DEF Row
  <1> DEFINE gen == r.gen + 1
             none == 0
  <1>3. gen \in Nat /\ none \in 0..MaxAttempts /\ none \in Nat BY <1>2
  <1>4. Touched(r) = [r EXCEPT !.gen = gen, !.status = "queued", !.attempt = none,
                               !.absent = FALSE, !.target = FALSE, !.ready = none]
    BY <1>1
  <1>5. gen = r.gen + 1 /\ none = 0 OBVIOUS
  <1> HIDE DEF gen, none
  <1>6. /\ Touched(r) \in Row /\ Touched(r).gen = gen /\ Touched(r).status = "queued"
        /\ Touched(r).absent = FALSE /\ Touched(r).ready = none
    BY <1>3, <1>4 DEF Row
  <1>. QED BY <1>5, <1>6

\* A closed row waits or failed; what was asked and what is ready stay.
LEMMA ClosedRow ==
    ASSUME NEW r \in Row
    PROVE  /\ Closed(r) \in Row
           /\ Closed(r).gen = r.gen /\ Closed(r).status \in {"failed", "retry_wait"}
           /\ Closed(r).absent = r.absent /\ Closed(r).ready = r.ready
  BY DEF Closed, Row

\* A worker that goes idle is of its type.
LEMMA IdleWorker == Idle \in Worker
  BY BoundAssumption DEF Idle, Worker, NewRow, Row

\* The empty index is of its type.
LEMMA EmptyUnits == Empty \in Units
  BY DEF Empty, Units

\* What a worker made of the state it compared is of its type.
LEMMA UnitsOfState ==
    ASSUME NEW w \in Workers, TypeOK, Unchanged(w)
    PROVE  /\ UnitsOf(w) \in Visible \cup {Nothing}
           /\ UnitsOf(w) = Nothing <=> video.content = Hidden \/ worker[w].claim.absent
           /\ UnitsOf(w) # Nothing => UnitsOf(w) = video
  <1>1. video \in States BY DEF TypeOK
  <1>2. video.content # Hidden => video \in Visible
    BY <1>1 DEF States, Visible
  <1>3. Nothing \notin Visible BY ContentAssumption DEF Visible
  <1>. QED BY <1>1, <1>2, <1>3 DEF UnitsOf, Unchanged

-----------------------------------------------------------------------------
LEMMA InitInv == Init => IInv
  BY BoundAssumption, IdleWorker, EmptyUnits
     DEF Init, IInv, TypeOK, Requested, SearchableIsCurrent, CompletedIsIndexed,
         ReadyIsPublished, NewRow, Row, Empty, Worker

\* An intent outdates what the index holds.
LEMMA IntentKeeps ==
    ASSUME IInv, Change \/ Remove PROVE IInv'
  <1>1. /\ row \in Row /\ video \in States /\ index \in Units /\ vectors \in Units
        /\ changes \in Nat
    BY BoundAssumption DEF IInv, TypeOK
  <1>4. row.gen \in Nat /\ index.gen \in Nat BY <1>1 DEF Row, Units
  <1>2. CASE Change
    <2>1. /\ row' \in Row /\ row'.gen = row.gen + 1 /\ row'.status = "queued"
          /\ row'.ready = 0
      BY <1>1, <1>2, TouchedRow DEF Change
    <2>2. UNCHANGED <<index, vectors, worker>> /\ video' \in States BY <1>2 DEF Change
    <2>3. TypeOK'
      BY <1>1, <1>2, <2>1, <2>2, BoundAssumption DEF IInv, TypeOK, Change, Disturbance
    <2>. QED BY <1>4, <2>1, <2>2, <2>3
         DEF IInv, Requested, SearchableIsCurrent, CompletedIsIndexed, ReadyIsPublished
  <1>3. CASE Remove
    <2>1. row' = [Touched(row) EXCEPT !.absent = TRUE] /\ index' = Empty /\ vectors' = Empty
      BY <1>3 DEF Remove
    <2>2. /\ row' \in Row /\ row'.gen = row.gen + 1 /\ row'.status = "queued"
          /\ row'.absent /\ row'.ready = 0
      <3> DEFINE touched == Touched(row)
      <3>1. /\ touched \in Row /\ touched.gen = row.gen + 1
            /\ touched.status = "queued" /\ touched.ready = 0
        BY <1>1, TouchedRow
      <3>2. row' = [touched EXCEPT !.absent = TRUE] BY <2>1
      <3> HIDE DEF touched
      <3>. QED BY <3>1, <3>2 DEF Row
    <2>3. TypeOK'
      BY <1>1, <1>3, <2>1, <2>2, EmptyUnits, BoundAssumption
         DEF IInv, TypeOK, Remove, Disturbance
    <2>4. Requested' /\ SearchableIsCurrent' /\ CompletedIsIndexed' /\ ReadyIsPublished'
      BY <1>4, <2>1, <2>2
         DEF IInv, Requested, SearchableIsCurrent, CompletedIsIndexed, ReadyIsPublished, Empty
    <2>. QED BY <2>3, <2>4 DEF IInv
  <1>. QED BY <1>2, <1>3

\* Only the order of the folders moves, or the row goes back to the queue.
LEMMA DisturbanceKeeps ==
    ASSUME IInv, Reorder \/ Retarget PROVE IInv'
  <1>1. row \in Row /\ video \in States /\ changes \in Nat
    BY BoundAssumption DEF IInv, TypeOK
  <1>2. CASE Reorder
    <2>1. video' \in States /\ video'.content = video.content
      BY <1>1, <1>2 DEF Reorder, States
    <2>2. UNCHANGED <<row, index, vectors, worker>> BY <1>2 DEF Reorder
    <2>3. TypeOK'
      BY <1>1, <1>2, <2>1, <2>2, BoundAssumption DEF IInv, TypeOK, Reorder, Disturbance
    <2>. QED
      BY <2>1, <2>2, <2>3
         DEF IInv, Requested, SearchableIsCurrent, CompletedIsIndexed, ReadyIsPublished
  <1>3. CASE Retarget
    <2>1. /\ row' \in Row /\ row'.gen = row.gen /\ row'.status = "queued"
          /\ row'.absent = row.absent /\ row'.ready = row.ready
      <3>1. row' = [row EXCEPT !.status = "queued", !.attempt = 0, !.target = TRUE]
        BY <1>3 DEF Retarget
      <3>2. 0 \in 0..MaxAttempts BY BoundAssumption
      <3>. QED BY <1>1, <3>1, <3>2 DEF Row
    <2>2. UNCHANGED <<video, index, vectors, worker>> BY <1>3 DEF Retarget
    <2>3. TypeOK'
      BY <1>1, <1>3, <2>1, <2>2, BoundAssumption DEF IInv, TypeOK, Retarget, Disturbance
    <2>. QED
      BY <2>1, <2>2, <2>3
         DEF IInv, Requested, SearchableIsCurrent, CompletedIsIndexed, ReadyIsPublished
  <1>. QED BY <1>2, <1>3

\* Leases and claims touch neither what was asked nor what is there.
LEMMA LeaseKeeps ==
    ASSUME IInv, NEW w \in Workers, Recover(w) \/ Claim(w) \/ Expire \/ Fail(w)
    PROVE  IInv'
  <1>1. row \in Row /\ worker \in [Workers -> Worker] BY DEF IInv, TypeOK
  <1>2. UNCHANGED <<video, index, vectors, changes>>
    BY DEF Recover, Claim, Expire, Fail
  <1>3. /\ row' \in Row /\ row'.gen = row.gen /\ row'.absent = row.absent
        /\ row'.ready = row.ready
        /\ row'.status = "completed" => row.status = "completed"
    <2>1. CASE Recover(w) BY <1>1, <2>1, ClosedRow DEF Recover
    <2>2. CASE Claim(w)
      <3>1. row' = [row EXCEPT !.status = "running", !.attempt = row.attempt + 1,
                               !.epoch = row.epoch + 1, !.live = TRUE,
                               !.target = row.target \/ w \in Dense]
        BY <2>2 DEF Claim
      <3>2. row.attempt + 1 \in 0..MaxAttempts /\ row.epoch + 1 \in Nat
        BY <1>1, <2>2, BoundAssumption DEF Claim, Claimable, Row
      <3>3. (row.target \/ w \in Dense) \in BOOLEAN OBVIOUS
      <3>. QED BY <1>1, <3>1, <3>2, <3>3 DEF Row
    <2>3. CASE Expire BY <1>1, <2>3 DEF Expire, Row
    <2>4. CASE Fail(w) BY <1>1, <2>4, ClosedRow DEF Fail
    <2>. QED BY <2>1, <2>2, <2>3, <2>4
  <1>4. worker' \in [Workers -> Worker]
    <2>1. CASE Recover(w) \/ Expire BY <1>1, <2>1 DEF Recover, Expire
    <2>2. CASE Claim(w)
      <3>1. worker' = [worker EXCEPT ![w] = [Idle EXCEPT !.at = "claimed", !.claim = row']]
        BY <2>2 DEF Claim
      <3>2. [Idle EXCEPT !.at = "claimed", !.claim = row'] \in Worker
        BY <1>3, IdleWorker DEF Worker
      <3>. QED BY <1>1, <3>1, <3>2
    <2>3. CASE Fail(w) BY <1>1, <2>3, IdleWorker DEF Fail
    <2>. QED BY <2>1, <2>2, <2>3
  <1>. QED
    BY <1>2, <1>3, <1>4
       DEF IInv, TypeOK, Requested, SearchableIsCurrent, CompletedIsIndexed, ReadyIsPublished

\* A worker that reads, or gives up, changes nothing but itself.
LEMMA WorkerKeeps ==
    ASSUME IInv, NEW w \in Workers, Build(w) \/ Stale(w) \/ Abandon(w)
    PROVE  IInv'
  <1>1. worker \in [Workers -> Worker] /\ video \in States BY DEF IInv, TypeOK
  <1>2. UNCHANGED <<video, row, index, vectors, changes>>
    BY DEF Build, Stale, Abandon
  <1>3. worker' \in [Workers -> Worker]
    <2>1. CASE Build(w)
      <3>1. PICK encoded \in BOOLEAN :
              worker' = [worker EXCEPT ![w].at = "built", ![w].snap = video,
                                       ![w].encoded = encoded]
        BY <2>1 DEF Build
      <3>2. worker[w] \in Worker BY <1>1
      <3>. QED BY <1>1, <3>1, <3>2 DEF Worker
    <2>2. CASE Stale(w) \/ Abandon(w) BY <1>1, <2>2, IdleWorker DEF Stale, Abandon
    <2>. QED BY <2>1, <2>2
  <1>. QED
    BY <1>2, <1>3
       DEF IInv, TypeOK, Requested, SearchableIsCurrent, CompletedIsIndexed, ReadyIsPublished

\* The fence and the fingerprint: what is published is what is asked and is.
LEMMA PublishKeeps ==
    ASSUME IInv, NEW w \in Workers, Publish(w) PROVE IInv'
  <1> DEFINE made == UnitsOf(w)
             units == [gen |-> worker[w].claim.gen, holds |-> made]
  <1>1. /\ row \in Row /\ worker \in [Workers -> Worker] /\ worker[w] \in Worker
        /\ index \in Units /\ vectors \in Units
    BY DEF IInv, TypeOK
  <1>2. /\ row.gen = worker[w].claim.gen /\ row.absent = worker[w].claim.absent
        /\ Unchanged(w)
    BY DEF Publish, Holds, Payload
  <1>3. /\ made \in Visible \cup {Nothing}
        /\ made # Nothing => made = video
        /\ made = Nothing <=> video.content = Hidden \/ row.absent
    BY <1>2, UnitsOfState DEF IInv
  <1>4. /\ row' \in Row /\ row'.gen = row.gen /\ row'.absent = row.absent
        /\ row'.ready = row.gen
        /\ row'.status = "completed" => made = Nothing \/ worker[w].encoded
    <2> DEFINE status == IF Complete(w) THEN "completed" ELSE Closed(row).status
    <2>1. row' = [row EXCEPT !.status = status, !.live = FALSE, !.ready = row.gen]
      BY <1>2 DEF Publish
    <2>2. /\ status \in {"completed", "failed", "retry_wait"}
          /\ status = "completed" => Complete(w)
      BY <1>1, ClosedRow
    <2> HIDE DEF status
    <2>3. row' \in Row /\ row'.gen = row.gen /\ row'.absent = row.absent /\ row'.ready = row.gen
          /\ row'.status = status
      BY <1>1, <2>1, <2>2 DEF Row
    <2>. QED BY <2>2, <2>3 DEF Complete
  <1>5. units \in Units BY <1>1, <1>2, <1>3 DEF Units, Row
  <1>6. /\ index' = IF made = Nothing THEN Empty ELSE units
        /\ vectors' = IF made = Nothing THEN Empty
                      ELSE IF worker[w].encoded THEN units ELSE vectors
        /\ worker' = [worker EXCEPT ![w] = Idle] /\ UNCHANGED <<video, changes>>
    BY DEF Publish
  <1>7. TypeOK'
    BY <1>1, <1>4, <1>5, <1>6, IdleWorker, EmptyUnits DEF IInv, TypeOK
  <1>8. Requested' BY <1>1, <1>2, <1>4, <1>6 DEF IInv, Requested, Empty, Row
  <1>9. CASE made = Nothing
    <2>1. index' = Empty BY <1>6, <1>9
    <2>2. Empty.holds = Nothing BY DEF Empty
    <2>. QED
      BY <1>3, <1>4, <1>6, <1>7, <1>8, <1>9, <2>1, <2>2
         DEF IInv, SearchableIsCurrent, CompletedIsIndexed, ReadyIsPublished
  <1>10. CASE made # Nothing
    <2>1. index' = units BY <1>6, <1>10
    <2>2. units.gen = row.gen /\ units.holds = video BY <1>2, <1>3, <1>10
    <2>3. row'.status = "completed" => vectors' = index' BY <1>4, <1>6, <1>10
    <2>4. video # Nothing /\ video.content # Hidden /\ ~row.absent BY <1>3, <1>10
    <2>. QED
      BY <1>4, <1>6, <1>7, <1>8, <2>1, <2>2, <2>3, <2>4
         DEF IInv, SearchableIsCurrent, CompletedIsIndexed, ReadyIsPublished
  <1>. QED BY <1>9, <1>10

LEMMA NextInv == IInv /\ [Next]_vars => IInv'
  <1>. SUFFICES ASSUME IInv, [Next]_vars PROVE IInv' OBVIOUS
  <1>1. CASE Users BY <1>1, IntentKeeps, DisturbanceKeeps DEF Users
  <1>2. CASE Expire
    <2>1. Loop \in Workers BY WorkerAssumption
    <2>. QED BY <1>2, <2>1, LeaseKeeps
  <1>3. ASSUME NEW w \in Workers, Recover(w) \/ Claim(w) \/ Run(w) \/ Abandon(w)
        PROVE  IInv'
    BY <1>3, LeaseKeeps, WorkerKeeps, PublishKeeps DEF Run
  <1>4. CASE UNCHANGED vars
    BY <1>4 DEF vars, IInv, TypeOK, Requested, SearchableIsCurrent, CompletedIsIndexed,
                ReadyIsPublished
  <1>. QED BY <1>1, <1>2, <1>3, <1>4 DEF Next

THEOREM Invariance == Spec => []IInv
  <1>. QED BY InitInv, NextInv, PTL DEF Spec

-----------------------------------------------------------------------------
\* Rows, units and workers keep their types, for any constants.
THEOREM ProjectionTypes == Spec => []TypeOK
  <1>1. IInv => TypeOK BY DEF IInv
  <1>. QED BY <1>1, Invariance, PTL

\* No search finds text that the video no longer has (coordinator.publish).
THEOREM SearchesAreCurrent == Spec => []SearchableIsCurrent
  <1>1. IInv => SearchableIsCurrent BY DEF IInv
  <1>. QED BY <1>1, Invariance, PTL

\* A completed task has indexed and embedded what there is (publish).
THEOREM CompletionsAreWhole == Spec => []CompletedIsIndexed
  <1>1. IInv => CompletedIsIndexed BY DEF IInv
  <1>. QED BY <1>1, Invariance, PTL

\* ready_generation is believed only with the units there (publish, _touch).
THEOREM ReadinessIsTrue == Spec => []ReadyIsPublished
  <1>1. IInv => ReadyIsPublished BY DEF IInv
  <1>. QED BY <1>1, Invariance, PTL
===========================================================================
