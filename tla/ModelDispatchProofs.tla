------------------------ MODULE ModelDispatchProofs ------------------------
(***************************************************************************)
(* ModelDispatch for every set of calls, jobs and processes, every limit   *)
(* and every number of days: the counters and the cost count, the limits   *)
(* hold for what was sent, no request is sent twice, outcomes are final,   *)
(* and receipts implement ProviderCalls.                                   *)
(*                                                                         *)
(* The late settlement (AnswersAreBilled) is checked by TLC only.          *)
(***************************************************************************)
EXTENDS ModelDispatch, FiniteSetTheorems, TLAPS

Charged(a) == With(a, {"reserved", "settled", "unknown"})
InBatch == {d \in Background : JobOf[d] \in Batched /\ receipt[d] # "none"}

(* A receipt belongs to a day; a day's counter counts its charged receipts *)
(* and keeps its limit; so does the batch.                                 *)
Dated == \A d \in Dispatches : receipt[d] # "none" => day[d] \in Days
DayCounts == \A a \in Accounts : /\ used[a] = Cardinality(Charged(a))
                                 /\ used[a] <= Limit[a[2]]
(* Its other counters count the calls that had an outcome, and the units   *)
(* of usage of those that have a price.                                    *)
OutcomeCounts ==
    \A a \in Accounts :
        /\ responses[a] = Cardinality(With(a, {"settled", "unknown"}))
        /\ unknowns[a] = Cardinality(With(a, {"unknown"}))
CostCounts == \A a \in Accounts : /\ IsFiniteSet(Billed(a))
                                  /\ cost[a] = Cardinality(Billed(a))
Priced == \A d \in Dispatches : IF receipt[d] = "settled" THEN usage[d] \in Nat
                                                        ELSE usage[d] = NoUsage
BatchCounts == /\ batchCalls = Cardinality(InBatch)
               /\ batchCalls <= BatchLimit

(* A foreground request is sent only while its receipt is charged: the     *)
(* coroutine releases nothing a thread may still send.                     *)
ForegroundCall(d) ==
    /\ caller[d] = "idle" => receipt[d] = "none" /\ thread[d] = "none"
    /\ caller[d] = "reserved" => receipt[d] = "reserved" /\ thread[d] = "none"
    /\ caller[d] \in {"waiting", "left"} => thread[d] # "none"
    /\ thread[d] = "started" => receipt[d] = "reserved"
    /\ receipt[d] \in {"none", "released"} => sends[d] = 0
    /\ caller[d] \in {"idle", "reserved"} => sends[d] = 0
    /\ thread[d] \in {"started", "refused"} => sends[d] = 0
    /\ thread[d] \in {"sent", "answered"} => sends[d] = 1
    /\ sends[d] <= 1
ForegroundCalls == \A d \in Foreground : ForegroundCall(d)

(* The claims of a job have different epochs, the last one is current.     *)
ClaimsDiffer ==
    \A p, q \in Procs :
        task[p] # "idle" =>
            /\ job[p] \in Jobs
            /\ jobEpoch[p] <= epoch[job[p]]
            /\ task[q] # "idle" /\ job[q] = job[p]
                 /\ jobEpoch[q] = jobEpoch[p] => p = q

(* A background request is sent by the handler that reserved it, once.     *)
SentAfterReserved ==
    \A d \in Background : /\ receipt[d] # "released"
                          /\ receipt[d] = "none" => sends[d] = 0
                          /\ sends[d] <= 1
AskReserved ==
    \A p \in Procs : task[p] \in {"reserved", "sent"} =>
        /\ ask[p] \in Background
        /\ receipt[ask[p]] = "reserved"
        /\ sends[ask[p]] = IF task[p] = "sent" THEN 1 ELSE 0
AsksDiffer ==
    \A p, q \in Procs :
        /\ task[p] \in {"reserved", "sent"} /\ task[q] \in {"reserved", "sent"}
        /\ ask[p] = ask[q]
        => p = q
BackgroundCalls == SentAfterReserved /\ AskReserved /\ AsksDiffer

(* A job of a one-response kind has at most one receipt, and none while a  *)
(* current handler goes from looking for one to reserving.                 *)
OneReceipt ==
    /\ \A c, d \in Background :
          /\ receipt[c] # "none" /\ receipt[d] # "none"
          /\ JobOf[c] = JobOf[d] /\ JobOf[c] \in OneResponse
          => c = d
    /\ \A p \in Procs : task[p] = "checked" /\ Owns(p) => Receipts(job[p]) = {}

Inv == /\ TypeOK /\ Dated /\ DayCounts /\ BatchCounts
       /\ OutcomeCounts /\ CostCounts /\ Priced
       /\ ForegroundCalls /\ ClaimsDiffer /\ BackgroundCalls /\ OneReceipt
-----------------------------------------------------------------------------
LEMMA JobsOfBackground == \A d \in Background : JobOf[d] \in Jobs
  BY DEF Jobs

LEMMA DispatchesFinite == IsFiniteSet(Dispatches) /\ IsFiniteSet(Background)
  BY IdAssumption, FS_Union DEF Dispatches

LEMMA LaneFact == \A d \in Dispatches : LaneOf(d) \in Lanes
  BY DEF LaneOf, Lanes

(* What a step of the ledger may be, for the lemmas about its counters.    *)
LedgerStep(d) ==
    \/ Reserved(d) \/ Released(d) \/ UNCHANGED ledger
    \/ \E u \in Usages \cup {NoUsage} : Settled(d, u)

LEMMA LedgerTypes ==
  ASSUME LedgerTypeOK, Dated, NEW d \in Dispatches, LedgerStep(d), today' \in Days
  PROVE  LedgerTypeOK' /\ Dated'
<1> USE LaneFact, UsageAssumption DEF LedgerTypeOK, Dated, Statuses
<1>1. CASE UNCHANGED ledger
  BY <1>1 DEF ledger
<1>2. CASE Reserved(d)
  <2>1. <<today, LaneOf(d)>> \in Accounts
    BY DEF Accounts
  <2>2. CASE receipt[d] = "none"
    BY <1>2, <2>1, <2>2 DEF Reserved
  <2> QED BY <1>1, <1>2, <2>2 DEF Reserved
<1>3. CASE Released(d)
  <2>1. CASE receipt[d] = "reserved" /\ used[Account(d)] >= 1
    <3>1. Account(d) \in Accounts
      BY <2>1 DEF Account, Accounts
    <3> QED BY <1>3, <2>1, <3>1 DEF Released
  <2> QED BY <1>1, <1>3, <2>1 DEF Released
<1>4. ASSUME NEW u \in Usages \cup {NoUsage}, Settled(d, u)
      PROVE LedgerTypeOK' /\ Dated'
  <2>1. Amount(u) \in Nat
    BY DEF Amount
  <2>2. receipt[d] # "none" => Account(d) \in Accounts
    BY DEF Account, Accounts
  <2>3. CASE IsOpen(d) /\ FirstOutcome(d, u)
    BY <2>1, <2>2, <2>3 DEF IsOpen, FirstOutcome
  <2>4. CASE IsUpgrade(d, u) /\ LateUsage(d, u)
    BY <2>1, <2>2, <2>4 DEF IsUpgrade, LateUsage
  <2> QED BY <1>1, <1>4, <2>3, <2>4 DEF Settled
<1> QED BY <1>1, <1>2, <1>3, <1>4 DEF LedgerStep

(* Every step is a step of the ledger for some call, or leaves it alone.   *)
LEMMA StepsOfLedger ==
  ASSUME TypeOK, BackgroundCalls, [Next]_vars
  PROVE  /\ UNCHANGED ledger \/ \E d \in Dispatches : LedgerStep(d)
         /\ today' \in Days
<1> USE DEF TypeOK, LedgerTypeOK, CallTypeOK, LedgerStep, Dispatches
<1>1. ASSUME NEW d \in Foreground, ForegroundNext(d)
      PROVE LedgerStep(d) /\ today' = today
  BY <1>1 DEF ForegroundNext, ReserveForeground, Withdraw, StartThread,
     ThreadSend, ThreadRefused, ThreadAnswered, Collect, SettleLate,
     SettleThread, Leave, Cancelled
<1>2. ASSUME NEW p \in Procs, NEW d \in Background, ReserveBackground(p, d)
      PROVE LedgerStep(d) /\ today' = today
  BY <1>2 DEF ReserveBackground
<1>3. ASSUME NEW p \in Procs, BackgroundSettle(p)
      PROVE ask[p] \in Dispatches /\ LedgerStep(ask[p]) /\ today' = today
  BY <1>3 DEF BackgroundSettle, BackgroundCalls, AskReserved
<1>4. ASSUME NEW p \in Procs, BackgroundNext(p) \/ Crash(p),
             ~BackgroundSettle(p),
             ~\E d \in Background : ReserveBackground(p, d)
      PROVE UNCHANGED ledger /\ today' = today
  BY <1>4 DEF BackgroundNext, Claim, Precheck, BackgroundSend, HandlerEnds, Crash
<1>5. CASE NextDay
  BY <1>5, LimitAssumption DEF NextDay, Days
<1>6. CASE UNCHANGED vars
  BY <1>6 DEF vars
<1> QED
  BY <1>1, <1>2, <1>3, <1>4, <1>5, <1>6 DEF Next, BackgroundNext

LEMMA CallTypes == ASSUME TypeOK, [Next]_vars PROVE CallTypeOK'
<1> USE JobsOfBackground DEF TypeOK, CallTypeOK
<1>1. CASE NextDay
  BY <1>1 DEF NextDay, fgVars, bgVars
<1>2. ASSUME NEW d \in Foreground, ForegroundNext(d) PROVE CallTypeOK'
  BY <1>2 DEF ForegroundNext, ReserveForeground, Withdraw, StartThread,
     ThreadSend, ThreadRefused, ThreadAnswered, Collect, SettleLate,
     SettleThread, Leave, Cancelled, bgVars, Dispatches
<1>3. ASSUME NEW p \in Procs, NEW j \in Jobs, Claim(p, j) PROVE CallTypeOK'
  BY <1>3 DEF Claim, Handler, fgVars
<1>4. ASSUME NEW p \in Procs, Precheck(p) \/ HandlerEnds(p) PROVE CallTypeOK'
  BY <1>4 DEF Precheck, HandlerEnds, Handler, fgVars
<1>5. ASSUME NEW p \in Procs, NEW d \in Background, ReserveBackground(p, d)
      PROVE CallTypeOK'
  BY <1>5 DEF ReserveBackground, Handler, fgVars
<1>6. ASSUME NEW p \in Procs, BackgroundSend(p) PROVE CallTypeOK'
  <2>1. CASE ask[p] \in Dispatches
    BY <1>6, <2>1 DEF BackgroundSend, Handler, fgVars
  <2>2. CASE ask[p] \notin Dispatches
    BY <1>6, <2>2 DEF BackgroundSend, Handler, fgVars
  <2> QED BY <2>1, <2>2
<1>7. ASSUME NEW p \in Procs, BackgroundSettle(p) PROVE CallTypeOK'
  BY <1>7 DEF BackgroundSettle, Handler, fgVars
<1>8. ASSUME NEW p \in Procs, Crash(p) PROVE CallTypeOK'
  BY <1>8 DEF Crash
<1>9. CASE UNCHANGED vars
  BY <1>9 DEF vars, fgVars, bgVars
<1> QED
  BY <1>1, <1>2, <1>3, <1>4, <1>5, <1>6, <1>7, <1>8, <1>9
     DEF Next, BackgroundNext

-----------------------------------------------------------------------------
(* The counters count. *)

LEMMA ChargedFinite == \A a : IsFiniteSet(Charged(a))
  BY DispatchesFinite, FS_Subset DEF Charged, With

(* A step of the ledger adds the call it reserves to the day's charged     *)
(* receipts, removes the one it releases, and no other.                    *)
LEMMA DayCountsStep ==
  ASSUME LedgerTypeOK, Dated, DayCounts, NEW d \in Dispatches, LedgerStep(d)
  PROVE  DayCounts'
<1> USE DEF LedgerTypeOK, Dated
<1>0. SUFFICES ASSUME NEW a \in Accounts
               PROVE /\ used'[a] = Cardinality(Charged(a)')
                     /\ used'[a] <= Limit[a[2]]
  BY DEF DayCounts
<1>1. /\ used[a] = Cardinality(Charged(a)) /\ used[a] <= Limit[a[2]]
      /\ used[a] \in Nat /\ IsFiniteSet(Charged(a))
  BY ChargedFinite DEF DayCounts
<1>2. CASE UNCHANGED ledger
  <2>1. Charged(a)' = Charged(a)
    BY <1>2 DEF ledger, Charged, With, Account
  <2> QED BY <1>1, <1>2, <2>1 DEF ledger
<1>3. CASE receipt[d] = "none" /\ Reserved(d)
  <2> DEFINE b == <<today, LaneOf(d)>>
  <2>1. /\ used' = [used EXCEPT ![b] = @ + 1] /\ used[b] + 1 <= Limit[LaneOf(d)]
        /\ receipt' = [receipt EXCEPT ![d] = "reserved"]
        /\ day' = [day EXCEPT ![d] = today]
    BY <1>3 DEF Reserved, ledger
  <2>2. CASE a = b
    <3>1. /\ Charged(a)' = Charged(a) \cup {d} /\ d \notin Charged(a)
      <4>1. Account(d)' = a /\ receipt'[d] = "reserved"
        BY <2>1, <2>2 DEF Account
      <4>2. \A c \in Dispatches \ {d} :
              Account(c)' = Account(c) /\ receipt'[c] = receipt[c]
        BY <2>1 DEF Account
      <4> QED BY <1>3, <4>1, <4>2 DEF Charged, With
    <3>2. Cardinality(Charged(a)') = used[a] + 1
      <4>1. Cardinality(Charged(a) \cup {d}) = Cardinality(Charged(a)) + 1
        BY <1>1, <3>1, FS_AddElement
      <4> QED BY <1>1, <3>1, <4>1
    <3> QED BY <1>1, <2>1, <2>2, <3>2
  <2>3. CASE a # b
    <3>1. Charged(a)' = Charged(a)
      <4>1. Account(d)' # a /\ receipt[d] = "none"
        BY <1>3, <2>1, <2>3 DEF Account
      <4>2. \A c \in Dispatches \ {d} :
              Account(c)' = Account(c) /\ receipt'[c] = receipt[c]
        BY <2>1 DEF Account
      <4> QED BY <4>1, <4>2 DEF Charged, With
    <3> QED BY <1>1, <2>1, <2>3, <3>1
  <2> QED BY <2>2, <2>3
<1>4. CASE Released(d) /\ receipt[d] = "reserved" /\ used[Account(d)] >= 1
  <2>1. /\ used' = [used EXCEPT ![Account(d)] = @ - 1]
        /\ receipt' = [receipt EXCEPT ![d] = "released"] /\ day' = day
    BY <1>4 DEF Released
  <2>2. CASE a = Account(d)
    <3>1. Charged(a)' = Charged(a) \ {d} /\ d \in Charged(a)
      <4>1. receipt[d] = "reserved" /\ receipt'[d] = "released"
        BY <1>4, <2>1
      <4>2. \A c \in Dispatches : Account(c)' = Account(c)
        BY <2>1 DEF Account
      <4>3. \A c \in Dispatches \ {d} : receipt'[c] = receipt[c]
        BY <2>1
      <4> QED BY <2>2, <4>1, <4>2, <4>3 DEF Charged, With
    <3>2. Cardinality(Charged(a)') = used[a] - 1
      <4>1. Cardinality(Charged(a) \ {d}) = Cardinality(Charged(a)) - 1
        BY <1>1, <3>1, FS_RemoveElement
      <4> QED BY <1>1, <3>1, <4>1
    <3>3. used'[a] = used[a] - 1 /\ used'[a] <= used[a]
      BY <1>1, <2>1, <2>2
    <3>4. Limit[a[2]] \in Nat
      BY LimitAssumption DEF Accounts, Lanes
    <3> QED BY <1>1, <3>2, <3>3, <3>4
  <2>3. CASE a # Account(d)
    <3>1. Charged(a)' = Charged(a)
      <4>1. \A c \in Dispatches : Account(c)' = Account(c)
        BY <2>1 DEF Account
      <4>2. \A c \in Dispatches \ {d} : receipt'[c] = receipt[c]
        BY <2>1
      <4> QED BY <2>3, <4>1, <4>2 DEF Charged, With
    <3> QED BY <1>1, <2>1, <2>3, <3>1
  <2> QED BY <2>2, <2>3
<1>5. ASSUME NEW u \in Usages \cup {NoUsage},
             \/ IsOpen(d) /\ FirstOutcome(d, u)
             \/ IsUpgrade(d, u) /\ LateUsage(d, u)
      PROVE  /\ used'[a] = Cardinality(Charged(a)')
             /\ used'[a] <= Limit[a[2]]
  <2>1. used' = used /\ day' = day
        /\ \A c \in Dispatches :
              receipt'[c] \in {"reserved", "settled", "unknown"}
                <=> receipt[c] \in {"reserved", "settled", "unknown"}
    BY <1>5 DEF IsOpen, IsUpgrade, FirstOutcome, LateUsage
  <2>2. Charged(a)' = Charged(a)
    BY <2>1 DEF Charged, With, Account
  <2> QED BY <1>1, <2>1, <2>2
<1> QED
  BY <1>2, <1>3, <1>4, <1>5 DEF LedgerStep, Reserved, Released, Settled

(* The batch counts the receipts its jobs have; only reserving adds one.   *)
LEMMA BatchCountsStep ==
  ASSUME TypeOK, BatchCounts, BackgroundCalls, [Next]_vars
  PROVE  BatchCounts'
<1> USE DEF TypeOK, LedgerTypeOK, CallTypeOK
<1>1. IsFiniteSet(InBatch)
  BY DispatchesFinite, FS_Subset DEF InBatch
<1>2. ASSUME batchCalls' = batchCalls,
             \A d \in Background : receipt'[d] = "none" <=> receipt[d] = "none"
      PROVE  BatchCounts'
  <2>1. InBatch' = InBatch
    BY <1>2 DEF InBatch
  <2> QED BY <1>2, <2>1 DEF BatchCounts
<1>3. ASSUME NEW p \in Procs, NEW d \in Background, ReserveBackground(p, d)
      PROVE  BatchCounts'
  <2>1. receipt[d] = "none" /\ receipt' = [receipt EXCEPT ![d] = "reserved"]
    BY <1>3 DEF ReserveBackground, NeverAsked, Reserved
  <2>2. JobOf[d] = job[p]
    BY <1>3 DEF ReserveBackground
  <2>3. CASE JobOf[d] \in Batched
    <3>1. batchCalls' = batchCalls + 1 /\ batchCalls < BatchLimit
      BY <1>3, <2>2, <2>3 DEF ReserveBackground, BatchOpen
    <3>2. InBatch' = InBatch \cup {d} /\ d \notin InBatch
      BY <2>1, <2>3 DEF InBatch, Dispatches
    <3>3. Cardinality(InBatch \cup {d}) = Cardinality(InBatch) + 1
      BY <1>1, <3>2, FS_AddElement
    <3> QED BY <3>1, <3>2, <3>3, LimitAssumption DEF BatchCounts
  <2>4. CASE JobOf[d] \notin Batched
    <3>1. batchCalls' = batchCalls
      BY <1>3, <2>2, <2>4 DEF ReserveBackground
    <3>2. InBatch' = InBatch
      BY <2>1, <2>4 DEF InBatch, Dispatches
    <3> QED BY <3>1, <3>2 DEF BatchCounts
  <2> QED BY <2>3, <2>4
<1>4. ASSUME NEW d \in Foreground, ForegroundNext(d) PROVE BatchCounts'
  <2>1. batchCalls' = batchCalls
    BY <1>4 DEF ForegroundNext, ReserveForeground, Withdraw, StartThread,
       ThreadSend, ThreadRefused, ThreadAnswered, Collect, SettleLate,
       SettleThread, Leave, Cancelled, bgVars
  <2>2. \A c \in Background : receipt'[c] = receipt[c]
    BY <1>4, IdAssumption DEF ForegroundNext, ReserveForeground, Withdraw,
       StartThread, ThreadSend, ThreadRefused, ThreadAnswered, Collect,
       SettleLate, SettleThread, Leave, Cancelled, ledger, Dispatches,
       Reserved, Released, Settled, FirstOutcome, LateUsage
  <2> QED BY <1>2, <2>1, <2>2
<1>5. ASSUME NEW p \in Procs, BackgroundSettle(p) PROVE BatchCounts'
  <2>1. batchCalls' = batchCalls /\ ask[p] \in Background
    BY <1>5 DEF BackgroundSettle, BackgroundCalls, AskReserved
  <2>2. \A c \in Background : receipt'[c] = "none" <=> receipt[c] = "none"
    BY <1>5, <2>1 DEF BackgroundSettle, Settled, FirstOutcome, LateUsage,
       IsOpen, IsUpgrade, ledger, Dispatches
  <2> QED BY <1>2, <2>1, <2>2
<1>6. ASSUME NEW p \in Procs, BackgroundNext(p) \/ Crash(p),
             ~BackgroundSettle(p),
             ~\E d \in Background : ReserveBackground(p, d)
      PROVE BatchCounts'
  <2>1. UNCHANGED <<ledger, batchCalls>>
    BY <1>6 DEF BackgroundNext, Claim, Precheck, BackgroundSend, HandlerEnds,
       Crash
  <2> QED BY <1>2, <2>1 DEF ledger
<1>7. CASE NextDay
  BY <1>2, <1>7 DEF NextDay, ledger, bgVars
<1>8. CASE UNCHANGED vars
  BY <1>2, <1>8 DEF vars, ledger, bgVars
<1> QED
  BY <1>3, <1>4, <1>5, <1>6, <1>7, <1>8 DEF Next, BackgroundNext
-----------------------------------------------------------------------------
(* What came of the calls. *)

LEMMA WithFinite == \A a, S : IsFiniteSet(With(a, S))
  BY DispatchesFinite, FS_Subset DEF With

(* A step that gives no call an outcome, a price or another day changes    *)
(* nothing that is counted of outcomes.                                    *)
LEMMA SameOutcomes ==
  ASSUME UNCHANGED <<usage, responses, unknowns, cost>>,
         OutcomeCounts, CostCounts, Priced,
         \A d \in Dispatches : \/ UNCHANGED <<receipt[d], Account(d)>>
                               \/ /\ receipt[d] \notin {"settled", "unknown"}
                                  /\ receipt'[d] \notin {"settled", "unknown"}
  PROVE  OutcomeCounts' /\ CostCounts' /\ Priced'
<1>1. \A a : /\ With(a, {"settled", "unknown"})' = With(a, {"settled", "unknown"})
             /\ With(a, {"unknown"})' = With(a, {"unknown"})
             /\ With(a, {"settled"})' = With(a, {"settled"})
  BY DEF With
<1>2. \A a : Billed(a)' = Billed(a)
  BY <1>1 DEF Billed
<1> QED BY <1>1, <1>2 DEF OutcomeCounts, CostCounts, Priced

(* A call that gets a price adds the units of that price to its account.   *)
LEMMA BilledGrows ==
  ASSUME LedgerTypeOK, Dated, CostCounts, NEW d \in Dispatches, NEW u \in Nat,
         receipt[d] \notin {"none", "settled"},
         receipt' = [receipt EXCEPT ![d] = "settled"], day' = day,
         usage' = [usage EXCEPT ![d] = u],
         cost' = [cost EXCEPT ![Account(d)] = @ + u]
  PROVE  CostCounts'
<1> SUFFICES ASSUME NEW a \in Accounts
             PROVE  IsFiniteSet(Billed(a)') /\ cost'[a] = Cardinality(Billed(a)')
  BY DEF CostCounts
<1> DEFINE Units == {d} \X (1..u)
<1>1. IsFiniteSet(Billed(a)) /\ cost[a] = Cardinality(Billed(a)) /\ cost[a] \in Nat
  BY DEF CostCounts, LedgerTypeOK
<1>2. With(a, {"settled"})' = IF Account(d) = a THEN With(a, {"settled"}) \cup {d}
                              ELSE With(a, {"settled"}) \ {d}
  <2>1. \A c \in Dispatches : Account(c)' = Account(c)
    BY DEF Account
  <2>2. receipt'[d] = "settled" /\ \A c \in Dispatches \ {d} : receipt'[c] = receipt[c]
    BY DEF LedgerTypeOK
  <2> QED BY <2>1, <2>2 DEF With
<1>3. d \notin With(a, {"settled"})
  BY DEF With
<1>4. \A c \in With(a, {"settled"}) : usage'[c] = usage[c]
  BY <1>3 DEF With, LedgerTypeOK
<1>5. CASE Account(d) = a
  <2>1. usage'[d] = u
    BY DEF LedgerTypeOK
  <2>2. Billed(a)' = Billed(a) \cup Units
    BY <1>2, <1>3, <1>4, <1>5, <2>1 DEF Billed
  <2>3. Billed(a) \cap Units = {}
    BY <1>3 DEF Billed
  <2>4. IsFiniteSet(Units) /\ Cardinality(Units) = u
    <3>1. IsFiniteSet(1..u) /\ Cardinality(1..u) = u
      BY FS_Interval
    <3>2. IsFiniteSet({d}) /\ Cardinality({d}) = 1
      BY FS_Singleton
    <3>3. IsFiniteSet(Units) /\ Cardinality(Units) = Cardinality({d}) * Cardinality(1..u)
      BY <3>1, <3>2, FS_Product
    <3> QED BY <3>1, <3>2, <3>3
  <2>5. IsFiniteSet(Billed(a) \cup Units)
        /\ Cardinality(Billed(a) \cup Units) = Cardinality(Billed(a)) + u
    <3>1. IsFiniteSet(Billed(a) \cup Units)
          /\ Cardinality(Billed(a) \cup Units)
             = Cardinality(Billed(a)) + Cardinality(Units)
               - Cardinality(Billed(a) \cap Units)
      BY <1>1, <2>4, FS_Union
    <3>2. Cardinality(Billed(a) \cap Units) = 0
      BY <2>3, FS_EmptySet
    <3> QED BY <1>1, <2>4, <3>1, <3>2
  <2>6. cost'[a] = cost[a] + u
    BY <1>5 DEF LedgerTypeOK
  <2> QED BY <1>1, <2>2, <2>5, <2>6
<1>6. CASE Account(d) # a
  <2>1. Billed(a)' = Billed(a)
    BY <1>2, <1>3, <1>4, <1>6 DEF Billed
  <2>2. Account(d) \in Accounts
    BY LaneFact DEF Dated, Account, Accounts
  <2>3. cost'[a] = cost[a]
    BY <1>6, <2>2 DEF LedgerTypeOK
  <2> QED BY <1>1, <2>1, <2>3
<1> QED BY <1>5, <1>6

LEMMA OutcomesStep ==
  ASSUME LedgerTypeOK, Dated, OutcomeCounts, CostCounts, Priced,
         NEW d \in Dispatches, LedgerStep(d)
  PROVE  OutcomeCounts' /\ CostCounts' /\ Priced'
<1> USE LaneFact DEF LedgerTypeOK
<1>0. receipt[d] # "none" => Account(d) \in Accounts
  BY DEF Dated, Account, Accounts
<1>1. CASE UNCHANGED ledger
  BY <1>1, SameOutcomes DEF ledger, Account
<1>2. CASE receipt[d] = "none" /\ Reserved(d)
  <2>1. /\ UNCHANGED <<usage, responses, unknowns, cost>>
        /\ receipt' = [receipt EXCEPT ![d] = "reserved"]
        /\ day' = [day EXCEPT ![d] = today]
    BY <1>2 DEF Reserved, ledger
  <2>2. \A c \in Dispatches \ {d} : UNCHANGED <<receipt[c], Account(c)>>
    BY <2>1 DEF Account
  <2>3. receipt'[d] = "reserved"
    BY <2>1
  <2> QED BY <1>2, <2>1, <2>2, <2>3, SameOutcomes
<1>3. CASE Released(d) /\ receipt[d] = "reserved" /\ used[Account(d)] >= 1
  <2>1. /\ UNCHANGED <<usage, responses, unknowns, cost, day>>
        /\ receipt' = [receipt EXCEPT ![d] = "released"]
    BY <1>3 DEF Released
  <2>2. \A c \in Dispatches \ {d} : UNCHANGED <<receipt[c], Account(c)>>
    BY <2>1 DEF Account
  <2>3. receipt'[d] = "released"
    BY <2>1
  <2> QED BY <1>3, <2>1, <2>2, <2>3, SameOutcomes
<1>4. ASSUME NEW u \in Usages \cup {NoUsage}, receipt[d] = "reserved",
             FirstOutcome(d, u)
      PROVE  OutcomeCounts' /\ CostCounts' /\ Priced'
  <2> DEFINE s == IF u = NoUsage THEN "unknown" ELSE "settled"
  <2>1. /\ receipt' = [receipt EXCEPT ![d] = s] /\ day' = day
        /\ usage' = [usage EXCEPT ![d] = u]
        /\ responses' = [responses EXCEPT ![Account(d)] = @ + 1]
        /\ unknowns' = [unknowns EXCEPT ![Account(d)] =
                          IF u = NoUsage THEN @ + 1 ELSE @]
        /\ cost' = [cost EXCEPT ![Account(d)] = @ + Amount(u)]
    BY <1>4 DEF FirstOutcome
  <2>a. \A c \in Dispatches : Account(c)' = Account(c)
    BY <2>1 DEF Account
  <2>b. /\ receipt'[d] = IF u = NoUsage THEN "unknown" ELSE "settled"
        /\ \A c \in Dispatches \ {d} : receipt'[c] = receipt[c]
    BY <2>1
  <2>2. Priced'
    BY <2>1, UsageAssumption DEF Priced, NoUsage
  <2>3. ASSUME NEW a \in Accounts
        PROVE  /\ responses'[a] = Cardinality(With(a, {"settled", "unknown"})')
               /\ unknowns'[a] = Cardinality(With(a, {"unknown"})')
    <3>1. /\ responses[a] = Cardinality(With(a, {"settled", "unknown"}))
          /\ unknowns[a] = Cardinality(With(a, {"unknown"}))
          /\ responses[a] \in Nat /\ unknowns[a] \in Nat
      BY DEF OutcomeCounts
    <3>2. d \notin With(a, {"settled", "unknown"}) /\ d \notin With(a, {"unknown"})
      BY <1>4 DEF With
    <3>3. With(a, {"settled", "unknown"})'
             = IF Account(d) = a THEN With(a, {"settled", "unknown"}) \cup {d}
                                 ELSE With(a, {"settled", "unknown"})
      BY <2>a, <2>b, <3>2 DEF With
    <3>4. With(a, {"unknown"})'
             = IF u = NoUsage /\ Account(d) = a THEN With(a, {"unknown"}) \cup {d}
                                                ELSE With(a, {"unknown"})
      BY <2>a, <2>b, <3>2 DEF With
    <3>5. Cardinality(With(a, {"settled", "unknown"}) \cup {d}) = responses[a] + 1
      BY <3>1, <3>2, WithFinite, FS_AddElement
    <3>6. Cardinality(With(a, {"unknown"}) \cup {d}) = unknowns[a] + 1
      BY <3>1, <3>2, WithFinite, FS_AddElement
    <3>7. responses'[a] = IF Account(d) = a THEN responses[a] + 1 ELSE responses[a]
      BY <1>0, <1>4, <2>1
    <3>8. unknowns'[a] = IF u = NoUsage /\ Account(d) = a THEN unknowns[a] + 1
                                                          ELSE unknowns[a]
      BY <1>0, <1>4, <2>1
    <3> QED BY <3>1, <3>3, <3>4, <3>5, <3>6, <3>7, <3>8
  <2>4. CASE u = NoUsage
    <3>1. cost' = cost
      BY <1>0, <1>4, <2>1, <2>4 DEF Amount
    <3>2. \A a : With(a, {"settled"})' = With(a, {"settled"})
      BY <1>4, <2>4, <2>a, <2>b DEF With
    <3>3. \A a : \A c \in With(a, {"settled"}) : usage'[c] = usage[c]
      BY <1>4, <2>1 DEF With
    <3>4. \A a : Billed(a)' = Billed(a)
      BY <3>2, <3>3 DEF Billed
    <3> QED BY <2>2, <2>3, <3>1, <3>4 DEF CostCounts, OutcomeCounts
  <2>5. CASE u # NoUsage
    <3>1. u \in Nat /\ Amount(u) = u
      BY <2>5, UsageAssumption DEF Amount
    <3>2. CostCounts'
      BY <1>4, <2>1, <2>5, <3>1, BilledGrows
    <3> QED BY <2>2, <2>3, <3>2 DEF OutcomeCounts
  <2> QED BY <2>4, <2>5
<1>5. ASSUME NEW u \in Usages \cup {NoUsage}, IsUpgrade(d, u), LateUsage(d, u)
      PROVE  OutcomeCounts' /\ CostCounts' /\ Priced'
  <2>1. /\ receipt[d] = "unknown" /\ u \in Nat
        /\ receipt' = [receipt EXCEPT ![d] = "settled"] /\ day' = day
        /\ usage' = [usage EXCEPT ![d] = u] /\ responses' = responses
        /\ unknowns' = [unknowns EXCEPT ![Account(d)] =
                          IF @ > 0 THEN @ - 1 ELSE 0]
        /\ cost' = [cost EXCEPT ![Account(d)] = @ + u]
    BY <1>5, UsageAssumption DEF IsUpgrade, LateUsage, Amount
  <2>a. \A c \in Dispatches : Account(c)' = Account(c)
    BY <2>1 DEF Account
  <2>b. /\ receipt'[d] = "settled"
        /\ \A c \in Dispatches \ {d} : receipt'[c] = receipt[c]
    BY <2>1
  <2>2. Priced'
    BY <2>1 DEF Priced
  <2>3. CostCounts'
    BY <2>1, BilledGrows
  <2>4. ASSUME NEW a \in Accounts
        PROVE  /\ responses'[a] = Cardinality(With(a, {"settled", "unknown"})')
               /\ unknowns'[a] = Cardinality(With(a, {"unknown"})')
    <3>1. /\ responses[a] = Cardinality(With(a, {"settled", "unknown"}))
          /\ unknowns[a] = Cardinality(With(a, {"unknown"}))
          /\ responses[a] \in Nat /\ unknowns[a] \in Nat
      BY DEF OutcomeCounts
    <3>2. With(a, {"settled", "unknown"})' = With(a, {"settled", "unknown"})
      BY <2>1, <2>a, <2>b DEF With
    <3>3. With(a, {"unknown"})' = With(a, {"unknown"}) \ {d}
      BY <2>1, <2>a, <2>b DEF With
    <3>4. d \in With(a, {"unknown"}) <=> Account(d) = a
      BY <2>1 DEF With
    <3>5. Cardinality(With(a, {"unknown"}) \ {d})
            = IF Account(d) = a THEN unknowns[a] - 1 ELSE unknowns[a]
      <4>1. IsFiniteSet(With(a, {"unknown"}))
        BY WithFinite
      <4>2. Cardinality(With(a, {"unknown"}) \ {d})
              = IF d \in With(a, {"unknown"})
                THEN Cardinality(With(a, {"unknown"})) - 1
                ELSE Cardinality(With(a, {"unknown"}))
        BY <4>1, FS_RemoveElement
      <4> QED BY <3>1, <3>4, <4>2
    <3>6. Account(d) = a => unknowns[a] > 0
      <4>1. Account(d) = a => With(a, {"unknown"}) # {}
        BY <3>4
      <4> QED BY <3>1, <4>1, WithFinite, FS_EmptySet
    <3>7. unknowns'[a] = IF Account(d) = a THEN unknowns[a] - 1 ELSE unknowns[a]
      BY <1>0, <2>1, <3>1, <3>6
    <3> QED BY <2>1, <3>1, <3>2, <3>3, <3>5, <3>7
  <2> QED BY <2>2, <2>3, <2>4 DEF OutcomeCounts
<1> QED
  BY <1>1, <1>2, <1>3, <1>4, <1>5
     DEF LedgerStep, Reserved, Released, Settled, IsOpen
-----------------------------------------------------------------------------
(* Sending. *)

LEMMA ForegroundStep ==
  ASSUME TypeOK, ForegroundCalls, BackgroundCalls, [Next]_vars
  PROVE  ForegroundCalls'
<1> SUFFICES ASSUME NEW d \in Foreground PROVE ForegroundCall(d)'
  BY DEF ForegroundCalls
<1> USE DEF TypeOK, LedgerTypeOK, CallTypeOK, Dispatches
<1>0. ForegroundCall(d) /\ d \notin Background
  BY IdAssumption DEF ForegroundCalls
<1>1. ASSUME UNCHANGED <<receipt[d], caller[d], thread[d], sends[d]>>
      PROVE ForegroundCall(d)'
  BY <1>0, <1>1 DEF ForegroundCall
<1>2. ASSUME NEW c \in Foreground, ForegroundNext(c), c # d
      PROVE ForegroundCall(d)'
  <2>1. UNCHANGED <<receipt[d], caller[d], thread[d], sends[d]>>
    BY <1>2 DEF ForegroundNext, ReserveForeground, Withdraw, StartThread,
       ThreadSend, ThreadRefused, ThreadAnswered, Collect, SettleLate,
       SettleThread, Leave, Cancelled, ledger,
       Reserved, Released, Settled, FirstOutcome, LateUsage
  <2> QED BY <1>1, <2>1
<1>3. CASE ReserveForeground(d)
  BY <1>0, <1>3 DEF ReserveForeground, Reserved, ledger, ForegroundCall
<1>4. CASE Withdraw(d)
  BY <1>0, <1>4 DEF Withdraw, Released, ledger, ForegroundCall
<1>5. CASE StartThread(d)
  BY <1>0, <1>5 DEF StartThread, ledger, ForegroundCall
<1>6. CASE ThreadSend(d)
  BY <1>0, <1>6 DEF ThreadSend, ledger, ForegroundCall
<1>7. CASE ThreadRefused(d) \/ ThreadAnswered(d) \/ Cancelled(d)
  BY <1>0, <1>7 DEF ThreadRefused, ThreadAnswered, Cancelled, ledger,
     ForegroundCall
<1>8. CASE Collect(d) \/ SettleLate(d)
  BY <1>0, <1>8 DEF Collect, SettleLate, SettleThread, Released, Settled,
     IsOpen, IsUpgrade, FirstOutcome, LateUsage, ledger, ForegroundCall
<1>9. CASE Leave(d)
  BY <1>0, <1>9 DEF Leave, Settled, IsOpen, IsUpgrade, FirstOutcome, LateUsage,
     ledger, ForegroundCall
<1>10. ASSUME NEW p \in Procs, BackgroundNext(p) PROVE ForegroundCall(d)'
  <2>1. task[p] \in {"reserved", "sent"} => ask[p] \in Background
    BY DEF BackgroundCalls, AskReserved
  <2>2. UNCHANGED <<receipt[d], caller[d], thread[d], sends[d]>>
    BY <1>0, <1>10, <2>1 DEF BackgroundNext, Claim, Precheck, BackgroundSend,
       BackgroundSettle, HandlerEnds, ReserveBackground, fgVars, ledger,
       Reserved, Settled, FirstOutcome, LateUsage
  <2> QED BY <1>1, <2>2
<1>11. ASSUME NEW p \in Procs, Crash(p) PROVE ForegroundCall(d)'
  BY <1>0, <1>11 DEF Crash, ledger, ForegroundCall
<1>12. CASE NextDay \/ UNCHANGED vars
  BY <1>1, <1>12 DEF NextDay, vars, ledger, fgVars
<1> QED
  BY <1>2, <1>3, <1>4, <1>5, <1>6, <1>7, <1>8, <1>9, <1>10, <1>11, <1>12
     DEF Next, ForegroundNext

(* A handler is claimed with the newest epoch of its job and keeps it.     *)
LEMMA ClaimsStep ==
  ASSUME TypeOK, ClaimsDiffer, [Next]_vars PROVE ClaimsDiffer'
<1> USE DEF TypeOK, CallTypeOK, Handler
<1>1. ASSUME UNCHANGED <<epoch, job, jobEpoch>>,
             \A p \in Procs : task[p] = "idle" <=> task'[p] = "idle"
      PROVE  ClaimsDiffer'
  BY <1>1 DEF ClaimsDiffer
<1>2. ASSUME NEW d \in Foreground, ForegroundNext(d) PROVE ClaimsDiffer'
  <2>1. UNCHANGED <<epoch, job, jobEpoch, task>>
    BY <1>2 DEF ForegroundNext, ReserveForeground, Withdraw, StartThread,
       ThreadSend, ThreadRefused, ThreadAnswered, Collect, SettleLate,
       SettleThread, Leave, Cancelled, bgVars
  <2> QED BY <1>1, <2>1
<1>3. ASSUME NEW p \in Procs, NEW j \in Jobs, Claim(p, j) PROVE ClaimsDiffer'
  BY <1>3 DEF Claim, ClaimsDiffer
<1>4. ASSUME NEW p \in Procs,
             \/ Precheck(p) \/ BackgroundSend(p) \/ BackgroundSettle(p)
             \/ \E d \in Background : ReserveBackground(p, d)
      PROVE ClaimsDiffer'
  BY <1>1, <1>4 DEF Precheck, BackgroundSend, BackgroundSettle, ReserveBackground
<1>5. ASSUME NEW p \in Procs, HandlerEnds(p) \/ Crash(p) PROVE ClaimsDiffer'
  <2>1. /\ task' = [task EXCEPT ![p] = "idle"]
        /\ job' = [job EXCEPT ![p] = NoJob]
        /\ jobEpoch' = [jobEpoch EXCEPT ![p] = 0] /\ epoch' = epoch
    BY <1>5 DEF HandlerEnds, Crash
  <2> QED BY <2>1 DEF ClaimsDiffer
<1>6. CASE NextDay \/ UNCHANGED vars
  BY <1>1, <1>6 DEF NextDay, vars, bgVars
<1> QED
  BY <1>2, <1>3, <1>4, <1>5, <1>6 DEF Next, BackgroundNext

LEMMA BackgroundStep ==
  ASSUME TypeOK, BackgroundCalls, [Next]_vars PROVE BackgroundCalls'
<1> USE DEF TypeOK, LedgerTypeOK, CallTypeOK, Handler, Dispatches,
            BackgroundCalls, SentAfterReserved, AskReserved, AsksDiffer
<1>1. ASSUME \A d \in Background : receipt'[d] = receipt[d] /\ sends'[d] = sends[d],
             ask' = ask,
             \A p \in Procs : \/ task'[p] = task[p]
                              \/ task'[p] \notin {"reserved", "sent"}
      PROVE  BackgroundCalls'
  <2>1. SentAfterReserved'
    BY <1>1
  <2>2. AskReserved'
    BY <1>1
  <2>3. AsksDiffer'
    BY <1>1
  <2> QED BY <2>1, <2>2, <2>3
<1>2. ASSUME NEW c \in Foreground, ForegroundNext(c) PROVE BackgroundCalls'
  <2>1. UNCHANGED <<task, ask>>
    BY <1>2 DEF ForegroundNext, ReserveForeground, Withdraw, StartThread,
       ThreadSend, ThreadRefused, ThreadAnswered, Collect, SettleLate,
       SettleThread, Leave, Cancelled, bgVars
  <2>2. \A d \in Background : receipt'[d] = receipt[d] /\ sends'[d] = sends[d]
    BY <1>2, IdAssumption DEF ForegroundNext, ReserveForeground, Withdraw,
       StartThread, ThreadSend, ThreadRefused, ThreadAnswered, Collect,
       SettleLate, SettleThread, Leave, Cancelled, ledger,
       Reserved, Released, Settled, FirstOutcome, LateUsage
  <2> QED BY <1>1, <2>1, <2>2
<1>3. ASSUME NEW p \in Procs, NEW d \in Background, ReserveBackground(p, d)
      PROVE BackgroundCalls'
  <2>1. /\ receipt[d] = "none" /\ receipt' = [receipt EXCEPT ![d] = "reserved"]
        /\ sends' = sends /\ task' = [task EXCEPT ![p] = "reserved"]
        /\ ask' = [ask EXCEPT ![p] = d]
    BY <1>3 DEF ReserveBackground, NeverAsked, Reserved
  <2> QED BY <2>1 DEF BackgroundCalls
<1>4. ASSUME NEW p \in Procs, BackgroundSend(p) PROVE BackgroundCalls'
  BY <1>4 DEF BackgroundSend, BackgroundCalls, ledger
<1>5. ASSUME NEW p \in Procs, BackgroundSettle(p) PROVE BackgroundCalls'
  <2>1. /\ ask[p] \in Background /\ receipt[ask[p]] \notin {"none", "released"}
        /\ sends' = sends /\ task' = [task EXCEPT ![p] = "claimed"]
        /\ ask' = [ask EXCEPT ![p] = NoAsk]
    BY <1>5 DEF BackgroundSettle, BackgroundCalls, AskReserved
  <2>2. \A d \in Background : receipt'[d] = receipt[d] \/
            (receipt[d] # "none" /\ receipt'[d] \in {"unknown", "settled"})
    BY <1>5, <2>1 DEF BackgroundSettle, Settled, IsOpen, IsUpgrade,
       FirstOutcome, LateUsage, ledger
  <2>3. SentAfterReserved'
    BY <2>1, <2>2
  <2>4. \A d \in Background \ {ask[p]} : receipt'[d] = receipt[d]
    BY <1>5, <2>1 DEF BackgroundSettle, Settled, FirstOutcome, LateUsage, ledger
  <2>5. \A q \in Procs \ {p} : task[q] \in {"reserved", "sent"} => ask[q] # ask[p]
    BY <1>5 DEF BackgroundSettle
  <2>6. AskReserved'
    BY <2>1, <2>4, <2>5
  <2>7. AsksDiffer'
    BY <2>1
  <2> QED BY <2>3, <2>6, <2>7
<1>6. ASSUME NEW p \in Procs,
             \/ \E j \in Jobs : Claim(p, j)
             \/ Precheck(p) \/ HandlerEnds(p)
      PROVE BackgroundCalls'
  <2>1. /\ receipt' = receipt /\ sends' = sends /\ ask' = ask
        /\ \A q \in Procs : \/ task'[q] = task[q]
                            \/ task'[q] \notin {"reserved", "sent"}
    BY <1>6 DEF Claim, Precheck, HandlerEnds, ledger
  <2> QED BY <1>1, <2>1
<1>7. ASSUME NEW p \in Procs, Crash(p) PROVE BackgroundCalls'
  BY <1>7 DEF Crash, ledger, BackgroundCalls
<1>8. CASE NextDay \/ UNCHANGED vars
  BY <1>1, <1>8 DEF NextDay, vars, bgVars, ledger
<1> QED
  BY <1>2, <1>3, <1>4, <1>5, <1>6, <1>7, <1>8 DEF Next, BackgroundNext

(* A receipt appears for a job only by the handler with its newest claim,  *)
(* so that no other handler of the job which still holds that claim can    *)
(* have looked for one before.                                             *)
LEMMA OneReceiptStep ==
  ASSUME TypeOK, ClaimsDiffer, BackgroundCalls, OneReceipt, [Next]_vars
  PROVE  OneReceipt'
<1> USE DEF TypeOK, LedgerTypeOK, CallTypeOK, Handler, Dispatches
<1>1. ASSUME \A d \in Background : receipt'[d] = "none" <=> receipt[d] = "none",
             UNCHANGED <<epoch, job, jobEpoch>>,
             \A p \in Procs : UNCHANGED task[p] \/ task'[p] # "checked"
      PROVE  OneReceipt'
  <2>1. \A j : Receipts(j)' = Receipts(j)
    BY <1>1 DEF Receipts
  <2>2. \A p \in Procs : Owns(p)' = Owns(p)
    BY <1>1 DEF Owns
  <2> QED BY <1>1, <2>1, <2>2 DEF OneReceipt
<1>2. ASSUME NEW c \in Foreground, ForegroundNext(c) PROVE OneReceipt'
  <2>1. UNCHANGED <<epoch, job, jobEpoch, task>>
    BY <1>2 DEF ForegroundNext, ReserveForeground, Withdraw, StartThread,
       ThreadSend, ThreadRefused, ThreadAnswered, Collect, SettleLate,
       SettleThread, Leave, Cancelled, bgVars
  <2>2. \A d \in Background : receipt'[d] = receipt[d]
    BY <1>2, IdAssumption DEF ForegroundNext, ReserveForeground, Withdraw,
       StartThread, ThreadSend, ThreadRefused, ThreadAnswered, Collect,
       SettleLate, SettleThread, Leave, Cancelled, ledger,
       Reserved, Released, Settled, FirstOutcome, LateUsage
  <2> QED BY <1>1, <2>1, <2>2
<1>3. ASSUME NEW p \in Procs, NEW d \in Background, ReserveBackground(p, d)
      PROVE OneReceipt'
  <2>1. /\ receipt[d] = "none" /\ receipt' = [receipt EXCEPT ![d] = "reserved"]
        /\ task' = [task EXCEPT ![p] = "reserved"]
        /\ JobOf[d] = job[p] /\ UNCHANGED <<epoch, job, jobEpoch>>
        /\ jobEpoch[p] = epoch[job[p]]
        /\ task[p] = IF job[p] \in Prechecked THEN "checked" ELSE "claimed"
    BY <1>3 DEF ReserveBackground, NeverAsked, Reserved, Owns
  <2>2. job[p] \in OneResponse => Receipts(job[p]) = {}
    BY <1>3, <2>1 DEF ReserveBackground, NoResponseYet, OneReceipt, Owns
  <2>3. ASSUME NEW b \in Background, NEW c \in Background,
               receipt'[b] # "none", receipt'[c] # "none",
               JobOf[b] = JobOf[c], JobOf[b] \in OneResponse
        PROVE  b = c
    BY <2>1, <2>2, <2>3 DEF Receipts, OneReceipt
  <2>4. ASSUME NEW q \in Procs, task'[q] = "checked", Owns(q)'
        PROVE  Receipts(job[q])' = {}
    <3>1. q # p /\ task[q] = "checked" /\ Owns(q)
      BY <2>1, <2>4 DEF Owns
    <3>2. job[q] # job[p]
      BY <2>1, <3>1 DEF ClaimsDiffer, Owns
    <3>3. Receipts(job[q]) = {}
      BY <3>1 DEF OneReceipt
    <3> QED BY <2>1, <3>2, <3>3 DEF Receipts
  <2> QED BY <2>3, <2>4 DEF OneReceipt
<1>4. ASSUME NEW p \in Procs, Precheck(p) PROVE OneReceipt'
  <2>1. \A j : Receipts(j)' = Receipts(j)
    BY <1>4 DEF Precheck, ledger, Receipts
  <2>2. \A q \in Procs : Owns(q)' = Owns(q)
    BY <1>4 DEF Precheck, Owns
  <2>3. /\ receipt' = receipt /\ job' = job /\ Receipts(job[p]) = {}
        /\ task' = [task EXCEPT ![p] = "checked"]
    BY <1>4 DEF Precheck, ledger
  <2>4. ASSUME NEW q \in Procs, task'[q] = "checked", Owns(q)'
        PROVE  Receipts(job[q]) = {}
    BY <2>2, <2>3, <2>4 DEF OneReceipt
  <2> QED BY <2>1, <2>3, <2>4 DEF OneReceipt
<1>5. ASSUME NEW p \in Procs, BackgroundSettle(p) PROVE OneReceipt'
  <2>1. ask[p] \in Background
    BY <1>5 DEF BackgroundSettle, BackgroundCalls, AskReserved
  <2>2. \A c \in Background : receipt'[c] = "none" <=> receipt[c] = "none"
    BY <1>5, <2>1 DEF BackgroundSettle, Settled, FirstOutcome, LateUsage,
       IsOpen, IsUpgrade, ledger
  <2> QED BY <1>1, <1>5, <2>2 DEF BackgroundSettle
<1>6. ASSUME NEW p \in Procs, BackgroundSend(p) PROVE OneReceipt'
  BY <1>1, <1>6 DEF BackgroundSend, ledger
<1>7. ASSUME NEW p \in Procs, NEW j \in Jobs, Claim(p, j) PROVE OneReceipt'
  <2>1. \A i : Receipts(i)' = Receipts(i)
    BY <1>7 DEF Claim, ledger, Receipts
  <2>2. ASSUME NEW q \in Procs, task'[q] = "checked", Owns(q)'
        PROVE  Receipts(job'[q]) = {}
    <3>1. q # p /\ task[q] = "checked" /\ job'[q] = job[q]
      BY <1>7, <2>2 DEF Claim
    <3>2. jobEpoch[q] = epoch'[job[q]] /\ jobEpoch[q] <= epoch[job[q]]
          /\ job[q] \in Jobs
      BY <1>7, <2>2, <3>1 DEF Claim, Owns, ClaimsDiffer
    <3>3. job[q] # j
      BY <1>7, <3>2 DEF Claim
    <3>4. Owns(q)
      BY <1>7, <3>2, <3>3 DEF Claim, Owns
    <3> QED BY <3>1, <3>4 DEF OneReceipt
  <2> QED BY <1>7, <2>1, <2>2 DEF Claim, OneReceipt, ledger
<1>8. ASSUME NEW p \in Procs, HandlerEnds(p) \/ Crash(p) PROVE OneReceipt'
  <2>1. /\ task' = [task EXCEPT ![p] = "idle"]
        /\ job' = [job EXCEPT ![p] = NoJob]
        /\ jobEpoch' = [jobEpoch EXCEPT ![p] = 0] /\ epoch' = epoch
        /\ receipt' = receipt
    BY <1>8 DEF HandlerEnds, Crash, ledger
  <2>2. \A j : Receipts(j)' = Receipts(j)
    BY <2>1 DEF Receipts
  <2>3. ASSUME NEW q \in Procs, task'[q] = "checked", Owns(q)'
        PROVE  Receipts(job'[q]) = {}
    <3>1. q # p /\ task[q] = "checked" /\ Owns(q) /\ job'[q] = job[q]
      BY <2>1, <2>3 DEF Owns
    <3> QED BY <3>1 DEF OneReceipt
  <2>4. ASSUME NEW q \in Procs, task'[q] = "checked", Owns(q)'
        PROVE  Receipts(job[q])' = {}
    <3>1. Receipts(job'[q]) = {}
      BY <2>3, <2>4
    <3> QED BY <2>1, <3>1 DEF Receipts
  <2> QED BY <2>1, <2>4 DEF OneReceipt
<1>9. CASE NextDay \/ UNCHANGED vars
  BY <1>1, <1>9 DEF NextDay, vars, bgVars, ledger
<1> QED
  BY <1>2, <1>3, <1>4, <1>5, <1>6, <1>7, <1>8, <1>9 DEF Next, BackgroundNext
-----------------------------------------------------------------------------
LEMMA InitInv == Init => Inv
<1> SUFFICES ASSUME Init PROVE Inv
  OBVIOUS
<1>1. TypeOK
  <2>1. 1 \in Days
    BY LimitAssumption DEF Days
  <2>2. LedgerTypeOK
    BY <2>1 DEF Init, LedgerTypeOK, Statuses
  <2>3. CallTypeOK
    BY DEF Init, CallTypeOK
  <2> QED BY <2>2, <2>3 DEF TypeOK
<1>2. Dated /\ ForegroundCalls /\ ClaimsDiffer /\ BackgroundCalls /\ OneReceipt
  BY DEF Init, Dated, ForegroundCalls, ForegroundCall, ClaimsDiffer,
     BackgroundCalls, SentAfterReserved, AskReserved, AsksDiffer, OneReceipt,
     Dispatches
<1>3. DayCounts
  <2>1. \A a \in Accounts : Charged(a) = {}
    BY DEF Init, Charged, With
  <2>2. \A a \in Accounts : Limit[a[2]] \in Nat
    BY LimitAssumption DEF Accounts, Lanes
  <2>3. ASSUME NEW a \in Accounts
        PROVE  used[a] = Cardinality(Charged(a)) /\ used[a] <= Limit[a[2]]
    <3>1. Cardinality(Charged(a)) = 0
      BY <2>1, FS_EmptySet
    <3>2. used[a] = 0
      BY DEF Init
    <3> QED BY <2>2, <3>1, <3>2
  <2> QED BY <2>3 DEF DayCounts
<1>5. OutcomeCounts /\ CostCounts /\ Priced
  <2>1. \A a \in Accounts : /\ With(a, {"settled", "unknown"}) = {}
                            /\ With(a, {"unknown"}) = {}
                            /\ With(a, {"settled"}) = {}
    BY DEF Init, With
  <2>2. \A a \in Accounts : Billed(a) = {}
    BY <2>1 DEF Billed
  <2>3. \A a \in Accounts : responses[a] = 0 /\ unknowns[a] = 0 /\ cost[a] = 0
    BY DEF Init
  <2> QED
    BY <2>1, <2>2, <2>3, FS_EmptySet
       DEF Init, OutcomeCounts, CostCounts, Priced
<1>4. BatchCounts
  <2>1. InBatch = {}
    BY DEF Init, InBatch, Dispatches
  <2> QED BY <2>1, FS_EmptySet, LimitAssumption DEF Init, BatchCounts
<1> QED BY <1>1, <1>2, <1>3, <1>4, <1>5 DEF Inv

LEMMA NextInv == Inv /\ [Next]_vars => Inv'
<1> SUFFICES ASSUME Inv, [Next]_vars PROVE Inv'
  OBVIOUS
<1> USE DEF Inv
<1>1. LedgerTypeOK' /\ Dated' /\ DayCounts'
  <2>1. CASE UNCHANGED ledger
    <3>1. \A a : Charged(a)' = Charged(a)
      BY <2>1 DEF ledger, Charged, With, Account
    <3>2. today' \in Days
      BY StepsOfLedger
    <3> QED BY <2>1, <3>1, <3>2 DEF ledger, TypeOK, LedgerTypeOK, Dated, DayCounts
  <2>2. ASSUME NEW d \in Dispatches, LedgerStep(d)
        PROVE LedgerTypeOK' /\ Dated' /\ DayCounts'
    BY <2>2, StepsOfLedger, LedgerTypes, DayCountsStep DEF TypeOK
  <2> QED BY <2>1, <2>2, StepsOfLedger
<1>6. OutcomeCounts' /\ CostCounts' /\ Priced'
  <2>1. CASE UNCHANGED ledger
    BY <2>1, SameOutcomes DEF ledger, Account
  <2>2. ASSUME NEW d \in Dispatches, LedgerStep(d)
        PROVE OutcomeCounts' /\ CostCounts' /\ Priced'
    BY <2>2, OutcomesStep DEF TypeOK
  <2> QED BY <2>1, <2>2, StepsOfLedger
<1>2. CallTypeOK'
  BY CallTypes
<1>3. BatchCounts'
  BY BatchCountsStep
<1>4. ForegroundCalls' /\ ClaimsDiffer'
  BY ForegroundStep, ClaimsStep
<1>5. BackgroundCalls' /\ OneReceipt'
  BY BackgroundStep, OneReceiptStep
<1> QED BY <1>1, <1>2, <1>3, <1>4, <1>5, <1>6 DEF TypeOK

LEMMA Invariant == Spec => []Inv
  BY InitInv, NextInv, PTL DEF Spec

(* Every reachable state of the receipts, counters and calls is well typed *)
(* (budget.py), for any calls, limits and days.                            *)
THEOREM LedgerTypeCorrect == Spec => []TypeOK
<1>1. Inv => TypeOK
  BY DEF Inv
<1> QED BY <1>1, Invariant, PTL

(* The day's four counters say what its receipts say: used is the number   *)
(* of receipts charged and not given back, responses that of the calls     *)
(* with an outcome, unknowns that of those whose price nobody told, cost   *)
(* the units the others were told to have used; each is counted once       *)
(* whoever settles first (reserve_dispatch, settle_dispatch,               *)
(* release_dispatch, settle_late).                                         *)
THEOREM LedgerIsExact == Spec => []LedgerAgrees
<1>1. Inv => LedgerAgrees
  BY DEF Inv, DayCounts, Charged, OutcomeCounts, CostCounts, LedgerAgrees
<1> QED BY <1>1, Invariant, PTL

(* Only a receipt that is charged has been sent: nobody gives back what a  *)
(* thread or a handler may have sent (Leave, release_dispatch).            *)
LEMMA SentAreCharged ==
    Inv => \A d \in Dispatches : sends[d] > 0 =>
               receipt[d] \in {"reserved", "settled", "unknown"}
  BY DEF Inv, TypeOK, LedgerTypeOK, CallTypeOK, ForegroundCalls, ForegroundCall,
     BackgroundCalls, SentAfterReserved, Dispatches, Statuses

(* The requests that leave on account of a day are at most its limit: each *)
(* is among the receipts its counter has charged (reserve_dispatch,        *)
(* release_dispatch).                                                      *)
THEOREM BudgetIsKept == Spec => []SendsWithinDay
<1>1. Inv => SendsWithinDay
  <2> SUFFICES ASSUME Inv, NEW a \in Accounts
               PROVE Cardinality(Sent(a)) <= Limit[a[2]]
    BY DEF SendsWithinDay
  <2>1. Sent(a) \subseteq Charged(a)
    BY SentAreCharged DEF Sent, Charged, With
  <2>2. /\ Cardinality(Sent(a)) <= Cardinality(Charged(a))
        /\ Cardinality(Sent(a)) \in Nat
    BY <2>1, ChargedFinite, FS_Subset, FS_CardinalityType
  <2>3. Limit[a[2]] \in Nat
    BY LimitAssumption DEF Accounts, Lanes
  <2>4. used[a] = Cardinality(Charged(a)) /\ used[a] <= Limit[a[2]]
        /\ used[a] \in Nat
    BY DEF Inv, TypeOK, LedgerTypeOK, DayCounts
  <2> QED BY <2>2, <2>3, <2>4
<1> QED BY <1>1, Invariant, PTL

(* The requests that leave for the batch are at most its limit, on however *)
(* many days: each is among the receipts its own counter has charged       *)
(* (generate_json).                                                        *)
THEOREM BatchIsKept == Spec => []SendsWithinBatch
<1> DEFINE S == {d \in Background : sends[d] > 0 /\ JobOf[d] \in Batched}
<1>1. Inv => Cardinality(S) <= BatchLimit
  <2> SUFFICES ASSUME Inv PROVE Cardinality(S) <= BatchLimit
    OBVIOUS
  <2>1. S \subseteq InBatch
    BY SentAreCharged DEF InBatch, Dispatches
  <2>2. IsFiniteSet(InBatch)
    BY DispatchesFinite, FS_Subset DEF InBatch
  <2>3. Cardinality(S) <= Cardinality(InBatch) /\ Cardinality(S) \in Nat
    BY <2>1, <2>2, FS_Subset, FS_CardinalityType
  <2>4. Cardinality(InBatch) = batchCalls /\ batchCalls <= BatchLimit
        /\ batchCalls \in Nat
    BY DEF Inv, TypeOK, CallTypeOK, BatchCounts
  <2> HIDE DEF S
  <2> QED BY <2>3, <2>4, LimitAssumption
<1>2. Inv => SendsWithinBatch
  BY <1>1 DEF SendsWithinBatch
<1> QED BY <1>2, Invariant, PTL

(* No request is sent twice, and a job of a one-response kind sends one:   *)
(* the claim of its lease_epoch, the receipts it looks for and the         *)
(* transaction that reserves close every gap between them.                 *)
THEOREM NothingSentTwice == Spec => []SentOnce
<1>1. Inv => SentOnce
  <2> SUFFICES ASSUME Inv PROVE SentOnce
    OBVIOUS
  <2>1. \A d \in Dispatches : sends[d] <= 1
    BY DEF Inv, ForegroundCalls, ForegroundCall, BackgroundCalls,
       SentAfterReserved, Dispatches
  <2>2. \A d \in Background : sends[d] > 0 => receipt[d] # "none"
    BY DEF Inv, BackgroundCalls, SentAfterReserved
  <2> QED BY <2>1, <2>2 DEF Inv, SentOnce, OneReceipt
<1> QED BY <1>1, Invariant, PTL

(* A receipt with its usage, and one given back, stay as they are          *)
(* (settle_dispatch, release_dispatch), and nothing given back is sent.    *)
THEOREM OutcomesStay == Spec => OutcomesAreFinal
<1> DEFINE Final(d) ==
        /\ receipt[d] = "settled" => receipt'[d] = "settled"
                                     /\ usage'[d] = usage[d]
        /\ receipt[d] = "released" => receipt'[d] = "released"
                                      /\ sends'[d] = 0
<1>1. Inv /\ [Next]_vars => \A d \in Dispatches : Final(d)
  <2> SUFFICES ASSUME Inv, [Next]_vars, NEW d \in Dispatches PROVE Final(d)
    OBVIOUS
  <2>1. LedgerTypeOK /\ BackgroundCalls /\ TypeOK
    BY DEF Inv, TypeOK
  <2>2. \A c \in Dispatches : LedgerStep(c) =>
            /\ receipt[d] = "settled" => receipt'[d] = "settled"
                                         /\ usage'[d] = usage[d]
            /\ receipt[d] = "released" => receipt'[d] = "released"
    BY <2>1 DEF LedgerTypeOK, LedgerStep, Reserved, Released, Settled, IsOpen,
       IsUpgrade, FirstOutcome, LateUsage, ledger
  <2>3. /\ receipt[d] = "settled" => receipt'[d] = "settled"
                                     /\ usage'[d] = usage[d]
        /\ receipt[d] = "released" => receipt'[d] = "released"
    BY <2>1, <2>2, StepsOfLedger DEF ledger
  <2>4. ASSUME receipt'[d] = "released" PROVE sends'[d] = 0
    <3>1. Inv'
      BY NextInv
    <3> QED BY <2>4, <3>1 DEF Inv, ForegroundCalls, ForegroundCall,
       BackgroundCalls, SentAfterReserved, Dispatches
  <2> QED BY <2>3, <2>4
<1>2. Inv /\ [Next]_vars =>
        [\A d \in Dispatches : Final(d)]_vars
  BY <1>1
<1> QED BY <1>2, Invariant, PTL DEF Spec, OutcomesAreFinal
-----------------------------------------------------------------------------
(* The record of paid calls. *)

PaidStep == [Paid!Next]_(Paid!vars)
CallStates == [d \in Dispatches |-> CallState(d)]

(* A step that is about one call changes the record of that one.           *)
LEMMA OneRecord ==
  ASSUME LedgerTypeOK, NEW d \in Dispatches, NEW new, receipt' = [receipt EXCEPT ![d] = new]
  PROVE  CallStates' = [CallStates EXCEPT ![d] = CallState(d)']
<1>1. \A c \in Dispatches \ {d} : CallState(c)' = CallState(c)
  BY DEF LedgerTypeOK, CallState
<1> QED BY <1>1 DEF CallStates

LEMMA SameRecord == ASSUME UNCHANGED <<receipt, usage, sends>> PROVE PaidStep
<1>1. UNCHANGED <<sends, usage, CallStates>>
  BY DEF CallStates, CallState
<1> QED BY <1>1 DEF PaidStep, Paid!vars, CallStates

(* A reservation is no record yet.                                         *)
LEMMA ReservedIsOpen ==
  ASSUME LedgerTypeOK, NEW d \in Dispatches, Reserved(d), UNCHANGED sends
  PROVE  PaidStep
<1>1. CASE UNCHANGED ledger
  BY <1>1, SameRecord DEF ledger
<1>2. CASE receipt[d] = "none" /\ receipt' = [receipt EXCEPT ![d] = "reserved"]
           /\ UNCHANGED usage
  <2>1. \A c \in Dispatches : CallState(c)' = CallState(c)
    BY <1>2 DEF LedgerTypeOK, CallState
  <2>2. UNCHANGED <<sends, usage, CallStates>>
    BY <1>2, <2>1 DEF CallStates
  <2> QED BY <2>2 DEF PaidStep, Paid!vars, CallStates
<1> QED BY <1>1, <1>2 DEF Reserved

LEMMA ReleasedIsWithdrawn ==
  ASSUME LedgerTypeOK, NEW d \in Dispatches, Released(d), sends[d] = 0, UNCHANGED sends
  PROVE  PaidStep
<1>1. CASE UNCHANGED ledger
  BY <1>1, SameRecord DEF ledger
<1>2. CASE /\ receipt[d] = "reserved" /\ receipt' = [receipt EXCEPT ![d] = "released"]
           /\ UNCHANGED usage
  <2>1. CallState(d) = "open" /\ CallState(d)' = "withdrawn"
    BY <1>2 DEF LedgerTypeOK, CallState
  <2>2. CallStates' = [CallStates EXCEPT ![d] = "withdrawn"] /\ CallStates[d] = "open"
    BY <1>2, <2>1, OneRecord DEF CallStates
  <2>3. Paid!Withdraw(d)
    BY <1>2, <2>2 DEF Paid!Withdraw, Paid!Records, CallStates
  <2> QED BY <2>3 DEF PaidStep, Paid!Next
<1> QED BY <1>1, <1>2 DEF Released

LEMMA SettledIsRecorded ==
  ASSUME LedgerTypeOK, Priced, NEW d \in Dispatches, NEW u \in Usages \cup {NoUsage},
         Settled(d, u), sends[d] = 1, UNCHANGED sends
  PROVE  PaidStep
<1>1. CASE UNCHANGED ledger
  BY <1>1, SameRecord DEF ledger
<1>2. CASE u # NoUsage /\ receipt[d] \in {"reserved", "unknown"}
           /\ receipt' = [receipt EXCEPT ![d] = "settled"]
           /\ usage' = [usage EXCEPT ![d] = u]
  <2>1. CallState(d) \in {"open", "unknown"} /\ CallState(d)' = "answered"
    BY <1>2 DEF LedgerTypeOK, CallState
  <2>2. /\ CallStates' = [CallStates EXCEPT ![d] = "answered"]
        /\ CallStates[d] \in {"open", "unknown"}
    BY <1>2, <2>1, OneRecord DEF CallStates
  <2>3. Paid!Answer(d)
    BY <1>2, <2>2 DEF Paid!Answer, Paid!Records, CallStates
  <2> QED BY <2>3 DEF PaidStep, Paid!Next
<1>3. CASE u = NoUsage /\ receipt[d] = "reserved"
           /\ receipt' = [receipt EXCEPT ![d] = "unknown"]
           /\ usage' = [usage EXCEPT ![d] = u]
  <2>1. CallState(d) = "open" /\ CallState(d)' = "unknown"
    BY <1>3 DEF LedgerTypeOK, CallState
  <2>2. CallStates' = [CallStates EXCEPT ![d] = "unknown"] /\ CallStates[d] = "open"
    BY <1>3, <2>1, OneRecord DEF CallStates
  <2>3. usage' = usage
    BY <1>3 DEF LedgerTypeOK, Priced
  <2>4. Paid!LoseTrack(d)
    BY <2>2, <2>3 DEF Paid!LoseTrack, Paid!Records, CallStates
  <2> QED BY <2>4 DEF PaidStep, Paid!Next
<1> QED
  BY <1>1, <1>2, <1>3 DEF Settled, IsOpen, IsUpgrade, FirstOutcome, LateUsage

LEMMA SendIsRecorded ==
  ASSUME LedgerTypeOK, NEW d \in Dispatches, receipt[d] = "reserved", sends[d] = 0,
         sends' = [sends EXCEPT ![d] = @ + 1], UNCHANGED ledger
  PROVE  PaidStep
<1>1. UNCHANGED <<usage, CallStates>> /\ CallStates[d] = "open"
  BY DEF ledger, CallStates, CallState
<1>2. sends' = [sends EXCEPT ![d] = 1]
  OBVIOUS
<1>3. Paid!Send(d)
  BY <1>1, <1>2 DEF Paid!Send, CallStates
<1> QED BY <1>3 DEF PaidStep, Paid!Next

LEMMA ForegroundIsRecorded ==
  ASSUME Inv, NEW d \in Foreground, ForegroundNext(d) PROVE PaidStep
<1> USE DEF Inv, TypeOK, Dispatches
<1>0. ForegroundCall(d)
  BY DEF ForegroundCalls
<1>1. CASE StartThread(d) \/ ThreadRefused(d) \/ ThreadAnswered(d) \/ Cancelled(d)
  BY <1>1, SameRecord DEF StartThread, ThreadRefused, ThreadAnswered, Cancelled, ledger
<1>2. CASE ReserveForeground(d)
  BY <1>2, ReservedIsOpen DEF ReserveForeground
<1>3. CASE Withdraw(d)
  BY <1>0, <1>3, ReleasedIsWithdrawn DEF Withdraw, ForegroundCall
<1>4. CASE ThreadSend(d)
  BY <1>0, <1>4, SendIsRecorded DEF ThreadSend, ForegroundCall
<1>5. ASSUME SettleThread(d) PROVE PaidStep
  <2>1. CASE thread[d] = "answered" /\ Settled(d, answer[d])
    <3>1. answer[d] \in Usages \cup {NoUsage} /\ sends[d] = 1
      BY <1>0, <2>1 DEF CallTypeOK, ForegroundCall
    <3> QED BY <1>5, <2>1, <3>1, SettledIsRecorded DEF SettleThread
  <2>2. CASE thread[d] = "refused" /\ Released(d)
    BY <1>0, <1>5, <2>2, ReleasedIsWithdrawn DEF SettleThread, ForegroundCall
  <2> QED BY <1>5, <2>1, <2>2 DEF SettleThread
<1>6. CASE Leave(d)
  <2>1. CASE thread[d] \in {"sent", "answered"}
    BY <1>0, <1>6, <2>1, SettledIsRecorded DEF Leave, ForegroundCall
  <2>2. CASE thread[d] \notin {"sent", "answered"}
    BY <1>6, <2>2, SameRecord DEF Leave, ledger
  <2> QED BY <2>1, <2>2
<1> QED
  BY <1>1, <1>2, <1>3, <1>4, <1>5, <1>6 DEF ForegroundNext, Collect, SettleLate

LEMMA BackgroundIsRecorded ==
  ASSUME Inv, NEW p \in Procs, BackgroundNext(p) \/ Crash(p) PROVE PaidStep
<1> USE DEF Inv, TypeOK, Dispatches
<1>1. CASE (\E j \in Jobs : Claim(p, j)) \/ Precheck(p) \/ HandlerEnds(p) \/ Crash(p)
  BY <1>1, SameRecord DEF Claim, Precheck, HandlerEnds, Crash, ledger
<1>2. CASE \E d \in Background : ReserveBackground(p, d)
  BY <1>2, ReservedIsOpen DEF ReserveBackground
<1>3. CASE BackgroundSend(p)
  <2>1. /\ ask[p] \in Background /\ receipt[ask[p]] = "reserved"
        /\ sends[ask[p]] = 0
    BY <1>3 DEF BackgroundSend, BackgroundCalls, AskReserved
  <2> QED BY <1>3, <2>1, SendIsRecorded DEF BackgroundSend
<1>4. CASE BackgroundSettle(p)
  <2>1. ask[p] \in Background /\ sends[ask[p]] = 1
    BY <1>4 DEF BackgroundSettle, BackgroundCalls, AskReserved
  <2> QED BY <1>4, <2>1, SettledIsRecorded DEF BackgroundSettle
<1> QED BY <1>1, <1>2, <1>3, <1>4 DEF BackgroundNext

(* The receipts are such a record: nothing is sent of a call that is       *)
(* settled, given back or unknown, and no answer takes another's place     *)
(* (reserve_dispatch, settle_dispatch, release_dispatch, settle_late).     *)
THEOREM DispatchesAreRecorded == Spec => ImplementsProviderCalls
<1>1. Init => Paid!Init
  <2> SUFFICES ASSUME Init PROVE Paid!Init
    OBVIOUS
  <2>1. \A d \in Dispatches : CallState(d) = "open"
    BY DEF Init, CallState
  <2> QED BY <2>1 DEF Init, Paid!Init
<1>2. ASSUME Inv, [Next]_vars PROVE PaidStep
  <2>1. CASE NextDay \/ UNCHANGED vars
    BY <2>1, SameRecord DEF NextDay, vars, ledger
  <2> QED
    BY <1>2, <2>1, ForegroundIsRecorded, BackgroundIsRecorded DEF Next
<1>3. Inv /\ [Next]_vars => [Paid!Next]_(Paid!vars)
  BY <1>2 DEF PaidStep
<1> QED BY <1>1, <1>3, Invariant, PTL DEF Spec, ImplementsProviderCalls, Paid!Spec
=============================================================================
