------------------------- MODULE SingleFlightProofs -------------------------
(* Theorems about SingleFlight. *)
EXTENDS SingleFlight, TLAPS

(***************************************************************************)
(* The inductive invariant.  Four facts carry it: a response on disk never *)
(* changes; a lease whose response is not there yet is written by its      *)
(* owner only, and after the owner's death by nobody but to abandon it;    *)
(* what a process is about to accept, repair or complete it found on disk; *)
(* and a lease in one of its first states stands for a request not sent.   *)
(***************************************************************************)
Inside == {"calling", "made", "acquiring", "examining", "expired",
           "abandoning", "created", "prepared", "asking", "received",
           "persisted", "answered", "judging", "repairing", "accepting",
           "pointing", "accepted", "closing", "done"}
Valid(a) == \E k \in Kinds : ledger[a][k] = "valid"

Holds(r, state) == /\ Lease(r).state = state /\ Lease(r).owner = r
                   /\ Response(r) = "none"

(* What a process knows where it is.                                       *)
Placed(r) == runner[r].at \in Inside => Dir(r) \in Attempts
Begun(r) == runner[r].at \notin {"idle", "looked"} => row.count >= 1
Primary(r) ==
    runner[r].at \in {"idle", "looked", "started", "calling", "made"}
        => Kind(r) = "primary"
Repairs(r) ==
    /\ runner[r].at \in Inside /\ Kind(r) = "json_repair"
         => ledger[Dir(r)]["primary"] = "invalid"
    /\ At(r, "repairing") => ledger[Dir(r)]["primary"] = "invalid"
Owner(r) ==
    /\ At(r, "created") => Holds(r, "torn")
    /\ At(r, "prepared") => Holds(r, "prepared")
    /\ At(r, "asking") => Holds(r, "requesting")
    /\ At(r, "received") => Holds(r, "received") /\ runner[r].answer # "none"
Finder(r) ==
    /\ runner[r].at \in {"examining", "expired", "abandoning"}
         => Lease(r).state # "none"
    /\ At(r, "abandoning") => Lease(r).owner = Nobody
Reads(r) ==
    runner[r].at \in {"persisted", "answered", "judging"}
        => Response(r) = runner[r].answer /\ Response(r) # "none"
Accepts(r) ==
    /\ runner[r].at \in {"accepting", "pointing", "accepted"}
         => Response(r) = "valid"
    /\ runner[r].at \in {"closing", "done"} => Valid(Dir(r))
Local(r) ==
    /\ Placed(r) /\ Begun(r) /\ Primary(r) /\ Repairs(r)
    /\ Owner(r) /\ Finder(r) /\ Reads(r) /\ Accepts(r)

(* What the files and the row say.                                         *)
Sent == \A a \in Attempts, k \in Kinds :
    /\ asked[a][k] <= 1
    /\ lease[a][k].state \in {"none", "torn", "prepared"} => asked[a][k] = 0
    /\ lease[a][k].state \in {"requesting", "received"} => asked[a][k] = 1
    /\ lease[a][k].state = "none" => lease[a][k].owner = Nobody
Sound == \A a \in Attempts :
    /\ a \in invalidated => ledger[a]["primary"] = "invalid"
    /\ asked[a]["json_repair"] > 0 => ledger[a]["primary"] = "invalid"
    /\ \A k \in Kinds : accepted[a] = k => ledger[a][k] = "valid"
    /\ audit[a] = "completed" => Valid(a)
Output == row.status = "completed" =>
    row.count >= 1 /\ row.output \in Attempts /\ Valid(row.output)

Locals == \A r \in Runners : Local(r)
IInv == TypeOK /\ Locals /\ Sent /\ Sound /\ Output
-----------------------------------------------------------------------------
(* The parts of the type invariant.                                        *)
RowType == [status : {"pending", "processing", "retry_wait", "failed",
                      "completed"},
            count : 0..MaxAttempts, output : 0..MaxAttempts]
LeaseType == [state : LeaseStates, owner : Runners \cup {Nobody}]
RunnerType == [at : Places, number : 0..MaxAttempts, dir : 0..MaxAttempts,
               kind : Kinds, forced : BOOLEAN, resumed : BOOLEAN,
               found : BOOLEAN, answer : Answers \cup {"none"},
               seen : LeaseStates, retry : BOOLEAN]
RunnersTyped == runner \in [Runners -> RunnerType]
LeasesTyped == lease \in [Attempts -> [Kinds -> LeaseType]]
LedgerTyped == ledger \in [Attempts -> [Kinds -> Answers \cup {"none"}]]
AskedTyped == asked \in [Attempts -> [Kinds -> Nat]]
FilesTyped == /\ audit \in [Attempts -> {"none", "made", "prepared", "completed"}]
              /\ invalidated \subseteq Attempts /\ repairRaw \subseteq Attempts
              /\ takenOver \subseteq Attempts \X Kinds
              /\ accepted \in [Attempts -> Kinds \cup {"none", "torn"}]
RowTyped == row \in RowType
Types == /\ RunnersTyped /\ LeasesTyped /\ LedgerTyped /\ AskedTyped
         /\ FilesTyped /\ RowTyped /\ crashes \in 0..MaxCrashes

LEMMA TypesAre == TypeOK <=> Types
BY DEF TypeOK, Types, RunnersTyped, LeasesTyped, LedgerTyped, AskedTyped,
       FilesTyped, RowTyped, RowType, LeaseType, RunnerType
-----------------------------------------------------------------------------
(* What a step of r does to what the others know.                          *)
Moves(r) == RunnersTyped' /\ \A s \in Runners : s # r => runner'[s] = runner[s]
Frame(r) ==
    /\ row'.count \in Nat /\ row'.count >= row.count
    /\ \A a \in Attempts, k \in Kinds :
        /\ ledger[a][k] # "none" => ledger'[a][k] = ledger[a][k]
        /\ lease[a][k].state # "none" => lease'[a][k].state # "none"
        /\ lease[a][k].state # "none" /\ lease[a][k].owner = Nobody
             => lease'[a][k].owner = Nobody
        /\ \A s \in Runners :
             /\ s # r /\ lease[a][k].state # "none" /\ lease[a][k].owner = s
             /\ ledger[a][k] = "none"
             => lease'[a][k] = lease[a][k] /\ ledger'[a][k] = "none"

LEMMA Others ==
    ASSUME IInv, NEW r \in Runners, Moves(r), Frame(r), Local(r)'
    PROVE  Locals'
<1> SUFFICES ASSUME NEW s \in Runners, s # r PROVE Local(s)'
  BY DEF Locals
<1>1. /\ runner'[s] = runner[s] /\ Local(s)
      /\ runner[s] \in RunnerType /\ row.count \in Nat
      /\ row'.count \in Nat /\ row'.count >= row.count
  BY TypesAre, BoundAssumption DEF Moves, Frame, IInv, Locals, Types,
     RunnersTyped, RowTyped, RowType
<1>2. Kind(s) \in Kinds /\ Kind(s)' = Kind(s) /\ Dir(s)' = Dir(s)
  BY <1>1 DEF RunnerType, Kind, Dir
<1>3. (Placed(s) /\ Primary(s))'
  BY <1>1, <1>2 DEF Local, Placed, Primary
<1>4. Begun(s)'
  <2>1. runner'[s].at \notin {"idle", "looked"} => row.count >= 1
    BY <1>1 DEF Local, Begun
  <2> QED BY <1>1, <2>1 DEF Begun
<1>5. CASE runner[s].at \notin Inside
  BY <1>1, <1>3, <1>4, <1>5 DEF Local, Repairs, Owner, Finder, Reads, Accepts,
     Inside, At
<1>6. CASE runner[s].at \in Inside
  <2>1. Dir(s) \in Attempts
    BY <1>1, <1>6 DEF Local, Placed
  <2> DEFINE d == Dir(s)  k == Kind(s)
  <2>2. \A j \in Kinds : ledger[d][j] # "none" => ledger'[d][j] = ledger[d][j]
    BY <2>1 DEF Frame
  <2>3. Repairs(s)'
    BY <1>1, <1>2, <2>2 DEF Local, Repairs, At, Kinds
  <2>4. Reads(s)' /\ Accepts(s)'
    BY <1>1, <1>2, <2>2 DEF Local, Reads, Accepts, Valid, Response
  <2>5. /\ lease[d][k].state # "none" => lease'[d][k].state # "none"
        /\ lease[d][k].state # "none" /\ lease[d][k].owner = Nobody
             => lease'[d][k].owner = Nobody
        /\ lease[d][k].state # "none" /\ lease[d][k].owner = s
           /\ ledger[d][k] = "none"
             => lease'[d][k] = lease[d][k] /\ ledger'[d][k] = "none"
    BY <1>2, <2>1 DEF Frame
  <2>6. Finder(s)'
    BY <1>1, <1>2, <2>5 DEF Local, Finder, Lease, At
  <2>7. Owner(s)'
    BY <1>1, <1>2, <2>5 DEF Local, Owner, Holds, Lease, Response, At
  <2> QED BY <1>3, <1>4, <2>3, <2>4, <2>6, <2>7 DEF Local
<1> QED BY <1>5, <1>6
-----------------------------------------------------------------------------
(* How processes and leases change.                                        *)
Leaves(r) == Moves(r) /\ runner'[r].at \in {"failing", "reporting", "forcing"}
Here(r, a, k) == a = Dir(r) /\ k = Kind(r)

LEMMA IdleTyped == Idle \in RunnerType
BY BoundAssumption DEF Idle, RunnerType, Places, Kinds, LeaseStates

LEMMA Leaving ==
    ASSUME TypeOK, NEW r \in Runners, NEW place \in {"failing", "reporting"},
           NEW retry \in BOOLEAN, Leave(r, place, retry)
    PROVE  Leaves(r)
<1>1. RunnersTyped
  BY TypesAre DEF Types
<1> DEFINE e == [Idle EXCEPT !.at = place, !.retry = retry]
<1>2. e \in RunnerType /\ e.at = place
  BY IdleTyped DEF RunnerType, Places, Idle
<1>3. runner' = [runner EXCEPT ![r] = e]
  BY DEF Leave
<1> QED BY <1>1, <1>2, <1>3 DEF Leaves, Moves, RunnersTyped

LEMMA Renewing ==
    ASSUME TypeOK, NEW r \in Runners, NewAttempt(r)
    PROVE  Leaves(r)
<1>1. RunnersTyped /\ runner[r] \in RunnerType
  BY TypesAre DEF Types, RunnersTyped
<1>2. CASE runner[r].forced
  BY <1>2, Leaving DEF NewAttempt, Fails
<1>3. CASE ~runner[r].forced
  <2> DEFINE e == [Idle EXCEPT !.at = "forcing", !.number = runner[r].number]
  <2>1. e \in RunnerType /\ e.at = "forcing"
    BY <1>1, IdleTyped DEF RunnerType, Places, Idle
  <2>2. runner' = [runner EXCEPT ![r] = e]
    BY <1>3 DEF NewAttempt
  <2> QED BY <1>1, <2>1, <2>2 DEF Leaves, Moves, RunnersTyped
<1> QED BY <1>2, <1>3

LEMMA Going ==
    ASSUME TypeOK, NEW r \in Runners, NEW place \in Places, Go(r, place)
    PROVE  Moves(r) /\ runner'[r] = [runner[r] EXCEPT !.at = place]
<1>1. RunnersTyped /\ runner[r] \in RunnerType
  BY TypesAre DEF Types, RunnersTyped
<1>2. [runner[r] EXCEPT !.at = place] \in RunnerType
  BY <1>1 DEF RunnerType
<1> QED BY <1>1, <1>2 DEF Go, Moves, RunnersTyped

LEMMA Settling ==
    ASSUME TypeOK, NEW r \in Runners, NEW place \in Places, Settle(r, place)
    PROVE  /\ Moves(r) /\ runner'[r].at = place
           /\ runner'[r].dir = Dir(r) /\ runner'[r].kind = Kind(r)
<1>1. RunnersTyped /\ runner[r] \in RunnerType
  BY TypesAre DEF Types, RunnersTyped
<1> DEFINE e == [Idle EXCEPT !.at = place, !.dir = Dir(r), !.kind = Kind(r)]
<1>2. e \in RunnerType /\ e.at = place /\ e.dir = Dir(r) /\ e.kind = Kind(r)
  BY <1>1, IdleTyped DEF RunnerType, Dir, Kind, Idle
<1>3. runner' = [runner EXCEPT ![r] = e]
  BY DEF Settle
<1> QED BY <1>1, <1>2, <1>3 DEF Moves, RunnersTyped

LEMMA Leasing ==
    ASSUME TypeOK, NEW r \in Runners, Dir(r) \in Attempts,
           NEW state \in LeaseStates, WriteLease(r, state)
    PROVE  /\ LeasesTyped'
           /\ \A a \in Attempts, k \in Kinds :
                /\ lease'[a][k].owner = lease[a][k].owner
                /\ Here(r, a, k) => lease'[a][k].state = state
                /\ ~Here(r, a, k) => lease'[a][k] = lease[a][k]
<1>1. LeasesTyped /\ Kind(r) \in Kinds
  BY TypesAre DEF Types, RunnersTyped, RunnerType, Kind
<1> DEFINE d == Dir(r)  j == Kind(r)  e == [lease[d][j] EXCEPT !.state = state]
<1>2. lease[d][j] \in LeaseType /\ e \in LeaseType
      /\ e.owner = lease[d][j].owner /\ e.state = state
  BY <1>1 DEF LeasesTyped, LeaseType
<1>3. lease' = [lease EXCEPT ![d] = [lease[d] EXCEPT ![j] = e]]
  BY DEF WriteLease
<1>4. [lease[d] EXCEPT ![j] = e] \in [Kinds -> LeaseType]
  BY <1>1, <1>2 DEF LeasesTyped
<1> QED BY <1>1, <1>2, <1>3, <1>4 DEF LeasesTyped, Here

LEMMA Dying ==
    ASSUME TypeOK, NEW r \in Runners, Gone(r)
    PROVE  /\ Moves(r) /\ runner'[r] = Idle /\ LeasesTyped'
           /\ \A a \in Attempts, k \in Kinds :
                /\ lease'[a][k].state = lease[a][k].state
                /\ lease'[a][k].owner \in {Nobody, lease[a][k].owner}
                /\ lease[a][k].owner # r => lease'[a][k] = lease[a][k]
<1>1. RunnersTyped /\ LeasesTyped
  BY TypesAre DEF Types
<1>2. Moves(r) /\ runner'[r] = Idle
  BY <1>1, IdleTyped DEF Gone, Moves, RunnersTyped
<1>3. ASSUME NEW a \in Attempts, NEW k \in Kinds
      PROVE  /\ lease'[a][k] \in LeaseType
             /\ lease'[a][k].state = lease[a][k].state
             /\ lease'[a][k].owner \in {Nobody, lease[a][k].owner}
             /\ lease[a][k].owner # r => lease'[a][k] = lease[a][k]
  <2>1. lease[a][k] \in LeaseType
    BY <1>1 DEF LeasesTyped
  <2>2. lease'[a][k] = [state |-> lease[a][k].state,
                        owner |-> IF lease[a][k].owner = r THEN Nobody
                                  ELSE lease[a][k].owner]
    BY DEF Gone
  <2> QED BY <2>1, <2>2 DEF LeaseType
<1>4. LeasesTyped'
  <2>1. lease' = [a \in Attempts |-> [k \in Kinds |-> lease'[a][k]]]
    BY DEF Gone
  <2> QED BY <1>3, <2>1 DEF LeasesTyped
<1> QED BY <1>2, <1>3, <1>4
-----------------------------------------------------------------------------
(* A step is checked in parts: the process, the leases, the files and the  *)
(* row.                                                                    *)
Grows == RowTyped' /\ row'.count >= row.count
Counts == row.count \in Nat /\ row'.count \in Nat

LEMMA Counted == ASSUME TypeOK, Grows PROVE Counts
BY TypesAre, BoundAssumption DEF Types, RowTyped, RowType, Grows, Counts

LEMMA GrowsSame == ASSUME TypeOK, UNCHANGED row PROVE Grows
BY TypesAre, BoundAssumption DEF Types, RowTyped, RowType, Grows

LEMMA Left ==
    ASSUME IInv, NEW r \in Runners, Leaves(r), Begun(r), Grows,
           ~At(r, "idle"), ~At(r, "looked")
    PROVE  Local(r)'
<1>1. Begun(r)'
  BY Counted DEF Begun, Grows, Counts, At, IInv
<1> QED BY <1>1 DEF Leaves, Local, Placed, Primary, Repairs, Owner, Finder, Reads,
     Accepts, At, Inside

LEMMA Idles ==
    ASSUME NEW r \in Runners, runner'[r] = Idle
    PROVE  Local(r)'
BY DEF Idle, Local, Placed, Begun, Primary, Repairs, Owner, Finder, Reads, Accepts,
   At, Inside, Kind

(* A step that touches no lease and no response.                           *)
Silent == UNCHANGED <<lease, ledger, asked, crashes>>

LEMMA SilentStep ==
    ASSUME IInv, NEW r \in Runners, Moves(r), Local(r)', Silent, Grows,
           FilesTyped', Sound', Output'
    PROVE  IInv'
<1>1. Frame(r)
  BY Counted DEF Frame, Silent, Grows, Counts, IInv
<1>2. Locals'
  BY <1>1, Others
<1>3. Sent'
  BY DEF Sent, Silent, IInv
<1>4. Types'
  BY TypesAre DEF Types, IInv, Silent, LeasesTyped, LedgerTyped, AskedTyped,
     Moves, Grows
<1>5. TypeOK'
  BY <1>4, TypesAre, PTL
<1> QED BY <1>2, <1>3, <1>5 DEF IInv

(* A step that ends a process.                                             *)
LEMMA GoneStep ==
    ASSUME IInv, NEW r \in Runners, Gone(r), UNCHANGED <<ledger, asked, files>>,
           Grows, crashes' \in 0..MaxCrashes, Output'
    PROVE  IInv'
<1>1. /\ Moves(r) /\ Local(r)' /\ LeasesTyped'
      /\ \A a \in Attempts, k \in Kinds :
           /\ lease'[a][k].state = lease[a][k].state
           /\ lease'[a][k].owner \in {Nobody, lease[a][k].owner}
           /\ lease[a][k].owner # r => lease'[a][k] = lease[a][k]
  BY Dying, Idles DEF IInv
<1>2. Frame(r)
  BY <1>1, Counted DEF Frame, Grows, Counts, IInv
<1>3. Locals'
  BY <1>1, <1>2, Others
<1>4. Sent' /\ Sound'
  BY <1>1 DEF Sent, Sound, IInv, files, Valid
<1>5. Types'
  BY <1>1, TypesAre DEF Types, IInv, files, FilesTyped, LedgerTyped, AskedTyped,
     Moves, Grows
<1>6. TypeOK'
  BY <1>5, TypesAre, PTL
<1> QED BY <1>3, <1>4, <1>6 DEF IInv

(* A step that writes a lease, which its owner does while the response is  *)
(* not there, anybody once it is there, or once the owner is dead.         *)
LEMMA WriteStep ==
    ASSUME IInv, NEW r \in Runners, Dir(r) \in Attempts,
           NEW state \in LeaseStates \ {"none", "torn"}, WriteLease(r, state),
           \/ Response(r) # "none" \/ Lease(r).owner \in {r, Nobody},
           state = "prepared" => asked[Dir(r)][Kind(r)] = 0,
           state \in {"requesting", "received"} => asked'[Dir(r)][Kind(r)] = 1,
           UNCHANGED <<row, ledger, crashes>>, AskedTyped', FilesTyped',
           \A a \in Attempts, k \in Kinds :
              \/ asked'[a][k] = asked[a][k]
              \/ Here(r, a, k) /\ state = "requesting" /\ asked'[a][k] = 1,
           Moves(r), Local(r)', Sound'
    PROVE  IInv'
<1>1. /\ LeasesTyped'
      /\ \A a \in Attempts, k \in Kinds :
           /\ lease'[a][k].owner = lease[a][k].owner
           /\ Here(r, a, k) => lease'[a][k].state = state
           /\ ~Here(r, a, k) => lease'[a][k] = lease[a][k]
  BY Leasing DEF IInv
<1>2. Grows
  BY GrowsSame DEF IInv
<1>3. Frame(r)
  <2>1. ASSUME NEW a \in Attempts, NEW k \in Kinds, NEW s \in Runners, s # r,
               lease[a][k].state # "none", lease[a][k].owner = s,
               ledger[a][k] = "none"
        PROVE  lease'[a][k] = lease[a][k]
    BY <1>1, <2>1, RunnerAssumption DEF Here, Response, Lease
  <2>2. Counts /\ row'.count >= row.count
    BY <1>2, Counted DEF Grows, IInv
  <2> QED BY <1>1, <2>1, <2>2 DEF Frame, Counts
<1>4. Locals'
  BY <1>3, Others
<1>5. Sent'
  BY <1>1 DEF Sent, IInv, Here
<1>6. Types'
  BY <1>1, <1>2, TypesAre DEF Types, IInv, LedgerTyped, Moves, Grows
<1>7. TypeOK'
  BY <1>6, TypesAre, PTL
<1>8. Output'
  BY DEF Output, IInv, Valid
<1> QED BY <1>4, <1>5, <1>7, <1>8 DEF IInv

LEMMA Facts ==
    ASSUME IInv, NEW r \in Runners
    PROVE  /\ Local(r) /\ RunnersTyped /\ runner[r] \in RunnerType
           /\ Kind(r) \in Kinds /\ row \in RowType /\ TypeOK
BY TypesAre DEF IInv, Locals, Types, RunnersTyped, RunnerType, Kind, RowTyped

LEMMA FilesSame ==
    ASSUME IInv, UNCHANGED <<files, ledger, asked>>
    PROVE  FilesTyped' /\ Sound'
BY TypesAre DEF IInv, Types, FilesTyped, files, Sound, Valid

LEMMA OutputSame ==
    ASSUME IInv, UNCHANGED <<row, ledger>>
    PROVE  Output'
BY DEF IInv, Output, Valid

(* A step that touches nothing but its process.                            *)
LEMMA StillStep ==
    ASSUME IInv, NEW r \in Runners, Moves(r), Local(r)',
           UNCHANGED <<row, files, lease, ledger, asked, crashes>>
    PROVE  IInv'
BY SilentStep, GrowsSame, FilesSame, OutputSame DEF Silent, IInv

LEMMA LeaveStep ==
    ASSUME IInv, NEW r \in Runners, Leaves(r), ~At(r, "idle"), ~At(r, "looked"),
           UNCHANGED <<row, files, lease, ledger, asked, crashes>>
    PROVE  IInv'
<1>1. Local(r)'
  BY Left, Facts, GrowsSame DEF IInv, Local
<1> QED BY <1>1, StillStep DEF Leaves
-----------------------------------------------------------------------------
(* _model_stage and the repository's transactions.                         *)
LEMMA LookStep == ASSUME IInv, NEW r \in Runners, Look(r) PROVE IInv'
<1> DEFINE e == [runner[r] EXCEPT !.at = "looked",
                   !.number = IF Resumable THEN row.count ELSE 0]
<1>1. e \in RunnerType /\ e.at = "looked" /\ e.kind = "primary"
  <2> DEFINE n == IF Resumable THEN row.count ELSE 0
  <2>1. n \in 0..MaxAttempts
    BY Facts, BoundAssumption DEF RowType
  <2>2. Kind(r) = "primary"
    BY Facts DEF Look, Local, Primary, At
  <2> HIDE DEF n
  <2>3. [runner[r] EXCEPT !.at = "looked", !.number = n] \in RunnerType
    BY <2>1, Facts DEF RunnerType, Places
  <2>4. e = [runner[r] EXCEPT !.at = "looked", !.number = n]
    BY DEF n
  <2> QED BY <2>2, <2>3, <2>4, Facts DEF RunnerType, Kind
<1>2. runner' = [runner EXCEPT ![r] = e]
  BY Facts DEF Look, RunnersTyped, RunnerType
<1>3. Moves(r) /\ runner'[r] = e
  BY <1>1, <1>2, Facts DEF Moves, RunnersTyped
<1>4. Local(r)'
  BY <1>1, <1>3 DEF Local, Placed, Begun, Primary, Repairs, Owner, Finder, Reads,
     Accepts, At, Inside, Kind
<1> QED BY <1>3, <1>4, StillStep DEF Look

LEMMA Beginning ==
    ASSUME TypeOK, NEW n \in {0, 1}, Begin(n)
    PROVE  Grows /\ (row' = row \/ row'.status = "processing")
           /\ row'.count >= IF row.status = "completed" THEN 0 ELSE n
<1>1. row \in RowType /\ row.count \in Nat /\ row.count + n <= MaxAttempts
  BY TypesAre, BoundAssumption DEF Types, RowTyped, RowType, Begin
<1>2. CASE row.status = "completed"
  BY <1>1, <1>2 DEF Begin, Grows, RowTyped
<1>3. CASE row.status # "completed"
  <2>1. row' = [row EXCEPT !.status = "processing", !.count = row.count + n]
    BY <1>3 DEF Begin
  <2>2. row.count + n \in 0..MaxAttempts
    BY <1>1, BoundAssumption
  <2>3. /\ row' \in RowType /\ row'.status = "processing"
        /\ row'.count = row.count + n
    BY <1>1, <2>1, <2>2 DEF RowType
  <2> QED BY <1>1, <1>3, <2>3 DEF Grows, RowTyped
<1> QED BY <1>2, <1>3

(* A completed row keeps its output while another attempt is begun.        *)
LEMMA OutputKept ==
    ASSUME IInv, row' = row \/ row'.status # "completed", UNCHANGED ledger
    PROVE  Output'
BY DEF IInv, Output, Valid

LEMMA StartStep == ASSUME IInv, NEW r \in Runners, start_stage(r) PROVE IInv'
<1>1. /\ Moves(r) /\ runner'[r] = [runner[r] EXCEPT !.at = "started"]
      /\ At(r, "looked") /\ Silent /\ UNCHANGED files
  BY Going, Facts DEF start_stage, Places, Silent
<1> DEFINE n == IF Resumable \/ row.status = "completed" THEN 0 ELSE 1
<1>2. /\ Grows /\ (row' = row \/ row'.status = "processing")
      /\ row'.count >= IF row.status = "completed" THEN 0 ELSE n
  BY Beginning, Facts DEF start_stage
<1>3. row'.count >= 1
  <2>1. Counts /\ row'.count >= row.count
    BY <1>2, Counted, Facts DEF Grows
  <2>2. row.status = "completed" => row.count >= 1
    BY DEF IInv, Output
  <2> QED BY <1>2, <2>1, <2>2 DEF Counts, Resumable
<1>4. runner'[r].at = "started" /\ runner'[r].kind = "primary"
  BY <1>1, Facts DEF Local, Primary, At, RunnerType, Kind
<1>5. Local(r)'
  BY <1>3, <1>4 DEF Local, Placed, Begun, Primary, Repairs, Owner, Finder, Reads,
     Accepts, At, Inside, Kind
<1>6. FilesTyped' /\ Sound' /\ Output'
  BY <1>1, <1>2, FilesSame, OutputKept DEF Silent
<1> QED BY <1>1, <1>2, <1>5, <1>6, SilentStep

LEMMA LocateStep == ASSUME IInv, NEW r \in Runners, Locate(r) PROVE IInv'
<1>1. CASE Gone(r)
  <2>1. crashes' \in 0..MaxCrashes
    BY Facts DEF Locate, TypeOK
  <2> QED BY <1>1, <2>1, GoneStep, GrowsSame, OutputSame, Facts DEF Locate
<1>2. CASE ~Gone(r)
  <2>1. UNCHANGED <<row, files, lease, ledger, asked, crashes>> /\ At(r, "started")
    BY <1>2 DEF Locate
  <2> DEFINE number == IF runner[r].number > 0 THEN runner[r].number
                       ELSE row.count
  <2>2. PICK d \in Attempts :
          runner' = [runner EXCEPT ![r].at = "calling", ![r].number = number,
                                   ![r].dir = d]
    BY <1>2 DEF Locate
  <2>3. number \in 0..MaxAttempts
    BY Facts DEF RunnerType, RowType
  <2> HIDE DEF number
  <2> DEFINE e == [runner[r] EXCEPT !.at = "calling", !.number = number,
                                    !.dir = d]
  <2>4. d \in 0..MaxAttempts
    BY BoundAssumption DEF Attempts
  <2>5. /\ e \in RunnerType /\ e.at = "calling" /\ e.kind = "primary"
        /\ e.dir \in Attempts
    BY <2>1, <2>3, <2>4, Facts DEF RunnerType, Places, Local, Primary, At, Kind
  <2>6. runner' = [runner EXCEPT ![r] = e]
    BY <2>2, Facts DEF RunnersTyped, RunnerType
  <2>7. Moves(r) /\ runner'[r] = e
    BY <2>5, <2>6, Facts DEF Moves, RunnersTyped
  <2>8. row'.count >= 1
    BY <2>1, Facts DEF Local, Begun, At
  <2>9. Local(r)'
    BY <2>5, <2>7, <2>8 DEF Local, Placed, Begun, Primary, Repairs, Owner, Finder,
       Reads, Accepts, At, Inside, Kind, Dir
  <2> QED BY <2>1, <2>7, <2>9, StillStep
<1> QED BY <1>1, <1>2

LEMMA ForceStep == ASSUME IInv, NEW r \in Runners, force_new_attempt(r) PROVE IInv'
<1>1. /\ Moves(r) /\ runner'[r] = [runner[r] EXCEPT !.at = "forced"]
      /\ At(r, "forcing") /\ Silent /\ UNCHANGED files
  BY Going, Facts DEF force_new_attempt, Places, Silent
<1> DEFINE n == IF row.count > runner[r].number \/ row.status = "completed"
                THEN 0 ELSE 1
<1>2. Grows /\ (row' = row \/ row'.status = "processing")
  BY Beginning, Facts DEF force_new_attempt
<1>3. row'.count >= 1
  <2>1. row.count >= 1
    BY <1>1, Facts DEF Local, Begun, At
  <2> QED BY <1>2, <2>1, Counted, Facts DEF Grows, Counts
<1>4. runner'[r].at = "forced"
  BY <1>1, Facts DEF RunnerType
<1>5. Local(r)'
  BY <1>3, <1>4 DEF Local, Placed, Begun, Primary, Repairs, Owner, Finder, Reads,
     Accepts, At, Inside
<1>6. FilesTyped' /\ Sound' /\ Output'
  BY <1>1, <1>2, FilesSame, OutputKept DEF Silent
<1> QED BY <1>1, <1>2, <1>5, <1>6, SilentStep

LEMMA RelocateStep == ASSUME IInv, NEW r \in Runners, Relocate(r) PROVE IInv'
<1> DEFINE e == [Idle EXCEPT !.at = "calling", !.forced = TRUE,
                             !.number = runner[r].number, !.dir = row.count]
<1>1. row.count \in Attempts
  BY Facts, BoundAssumption DEF Relocate, Local, Begun, At, RowType, Attempts
<1>2. /\ e \in RunnerType /\ e.at = "calling" /\ e.kind = "primary"
      /\ e.dir \in Attempts
  BY <1>1, IdleTyped, Facts DEF RunnerType, RowType, Places, Idle
<1>3. Moves(r) /\ runner'[r] = e
  BY <1>2, Facts DEF Relocate, Moves, RunnersTyped
<1>4. row'.count >= 1
  BY <1>1, BoundAssumption DEF Relocate, Attempts
<1>5. Local(r)'
  BY <1>2, <1>3, <1>4 DEF Local, Placed, Begun, Primary, Repairs, Owner, Finder,
     Reads, Accepts, At, Inside, Kind, Dir
<1> QED BY <1>3, <1>5, StillStep DEF Relocate

LEMMA CompleteStep == ASSUME IInv, NEW r \in Runners, complete_stage(r) PROVE IInv'
<1>1. /\ Dir(r) \in Attempts /\ Valid(Dir(r)) /\ row.count >= 1
  BY Facts DEF complete_stage, Local, Placed, Begun, Accepts, At, Inside
<1>2. row' = [row EXCEPT !.status = "completed", !.output = Dir(r)]
  BY DEF complete_stage
<1>3. /\ row' \in RowType /\ row'.count = row.count /\ row'.output = Dir(r)
  <2>1. Dir(r) \in 0..MaxAttempts
    BY <1>1, BoundAssumption DEF Attempts
  <2>2. row \in RowType
    BY Facts
  <2>3. row' \in RowType
    BY <1>2, <2>1, <2>2 DEF RowType
  <2> QED BY <1>2, <2>2, <2>3 DEF RowType
<1>4. Grows
  BY <1>3, Facts, BoundAssumption DEF Grows, RowTyped, RowType
<1>5. Output'
  BY <1>1, <1>3 DEF Output, Valid, complete_stage
<1>6. crashes' \in 0..MaxCrashes
  BY Facts DEF complete_stage, TypeOK
<1> QED BY <1>4, <1>5, <1>6, GoneStep DEF complete_stage

LEMMA Failing ==
    ASSUME IInv, NEW r \in Runners, row' = FailedStatus(r), UNCHANGED ledger
    PROVE  Grows /\ Output'
<1>1. /\ row' \in RowType /\ row'.count = row.count
      /\ row'.status \in {"retry_wait", "failed"}
  <2>1. PICK status \in {"retry_wait", "failed"} :
          row' = [row EXCEPT !.status = status]
    BY DEF FailedStatus
  <2>2. row \in RowType
    BY Facts
  <2>3. status \in {"pending", "processing", "retry_wait", "failed", "completed"}
    OBVIOUS
  <2>4. row' \in RowType
    BY <2>1, <2>2, <2>3 DEF RowType
  <2> QED BY <2>1, <2>2, <2>4 DEF RowType
<1>2. row.count \in Nat
  BY Facts, BoundAssumption DEF RowType
<1>3. Grows
  BY <1>1, <1>2 DEF Grows, RowTyped
<1> QED BY <1>1, <1>3, OutputKept

LEMMA FailStep == ASSUME IInv, NEW r \in Runners, fail_stage(r) PROVE IInv'
<1>1. /\ Moves(r) /\ runner'[r] = [runner[r] EXCEPT !.at = "reporting"]
      /\ At(r, "failing") /\ Silent /\ UNCHANGED files
  BY Going, Facts DEF fail_stage, Places, Silent
<1>2. Grows /\ Output'
  BY Failing DEF fail_stage
<1>3. Leaves(r)
  BY <1>1, Facts DEF Leaves, RunnerType
<1>4. Local(r)'
  BY <1>1, <1>2, <1>3, Left, Facts DEF Local, At
<1> QED BY <1>1, <1>2, <1>4, FilesSame, SilentStep DEF Silent

LEMMA ReportStep == ASSUME IInv, NEW r \in Runners, Report(r) PROVE IInv'
<1>1. CASE Gone(r)
  <2>1. crashes' \in 0..MaxCrashes
    BY Facts DEF Report, TypeOK
  <2> QED BY <1>1, <2>1, GoneStep, GrowsSame, OutputSame, Facts DEF Report
<1>2. CASE Go(r, "marking") /\ UNCHANGED lease
  <2>1. /\ Moves(r) /\ runner'[r] = [runner[r] EXCEPT !.at = "marking"]
        /\ At(r, "reporting")
    BY <1>2, Going, Facts DEF Report, Places
  <2>2. runner'[r].at = "marking" /\ row'.count >= 1
    BY <2>1, Facts DEF RunnerType, Report, Local, Begun, At
  <2>3. Local(r)'
    BY <2>2 DEF Local, Placed, Begun, Primary, Repairs, Owner, Finder, Reads,
       Accepts, At, Inside
  <2> QED BY <1>2, <2>1, <2>3, StillStep DEF Report
<1> QED BY <1>1, <1>2 DEF Report

LEMMA RecordFailureStep ==
    ASSUME IInv, NEW r \in Runners, record_failure(r) PROVE IInv'
<1>1. Grows /\ Output' /\ crashes' \in 0..MaxCrashes
  BY Failing, Facts DEF record_failure, TypeOK
<1> QED BY <1>1, GoneStep DEF record_failure

LEMMA CrashStep == ASSUME IInv, NEW r \in Runners, Crash(r) PROVE IInv'
<1>1. crashes' \in 0..MaxCrashes
  BY Facts, BoundAssumption DEF Crash, TypeOK
<1> QED BY <1>1, GoneStep, GrowsSame, OutputSame, Facts DEF Crash
-----------------------------------------------------------------------------
(* AuditedJsonCaller.                                                      *)
AuditOnly == /\ audit' \in [Attempts -> {"none", "made", "prepared", "completed"}]
             /\ UNCHANGED <<row, invalidated, takenOver, accepted, repairRaw,
                            lease, ledger, asked, crashes>>

(* A step that writes audit.json or creates the directory.                 *)
LEMMA AuditStep ==
    ASSUME IInv, NEW r \in Runners, Moves(r), Local(r)', AuditOnly,
           \A a \in Attempts : audit'[a] = "completed" =>
               audit[a] = "completed" \/ Valid(a)
    PROVE  IInv'
<1>1. FilesTyped'
  BY TypesAre DEF FilesTyped, AuditOnly, IInv, Types
<1>2. Sound'
  BY DEF Sound, AuditOnly, IInv, Valid
<1> QED BY <1>1, <1>2, SilentStep, GrowsSame, OutputSame DEF AuditOnly, Silent, IInv

LEMMA MakeStep == ASSUME IInv, NEW r \in Runners, Make(r) PROVE IInv'
<1>1. /\ Moves(r) /\ runner'[r] = [runner[r] EXCEPT !.at = "made"]
      /\ At(r, "calling")
  BY Going, Facts DEF Make, Places
<1>2. AuditOnly /\ \A a \in Attempts : audit'[a] = "completed" => audit[a] = "completed"
  BY Facts DEF Make, AuditOnly, TypeOK
<1>3. Local(r)'
  BY <1>1, Facts DEF Local, Placed, Begun, Primary, Repairs, Owner, Finder, Reads,
     Accepts, At, Inside, Kind, Dir, RunnerType, Make
<1> QED BY <1>1, <1>2, <1>3, AuditStep

LEMMA PrepareStep == ASSUME IInv, NEW r \in Runners, Prepare(r) PROVE IInv'
<1>1. /\ Moves(r) /\ runner'[r] = [runner[r] EXCEPT !.at = "acquiring"]
      /\ At(r, "made")
  BY Going, Facts DEF Prepare, Places
<1>2. AuditOnly /\ \A a \in Attempts : audit'[a] = "completed" => audit[a] = "completed"
  BY Facts DEF Prepare, AuditOnly, TypeOK
<1>3. Local(r)'
  BY <1>1, Facts DEF Local, Placed, Begun, Primary, Repairs, Owner, Finder, Reads,
     Accepts, At, Inside, Kind, Dir, RunnerType, Prepare
<1> QED BY <1>1, <1>2, <1>3, AuditStep

LEMMA ResumeStep == ASSUME IInv, NEW r \in Runners, _resume(r) PROVE IInv'
<1> DEFINE d == Dir(r)  answer == ledger[d]["primary"]
<1>1. /\ At(r, "calling") /\ Kind(r) = "primary" /\ d \in Attempts
      /\ row.count >= 1
      /\ UNCHANGED <<row, files, lease, ledger, asked, crashes>>
  BY Facts DEF _resume, Local, Primary, Placed, Begun, At, Inside
<1>2. CASE Leaves(r)
  BY <1>1, <1>2, LeaveStep DEF At
<1>3. CASE audit[d] = "completed" /\ Settle(r, "done")
  <2>1. /\ Moves(r) /\ runner'[r].at = "done"
        /\ runner'[r].dir = d /\ runner'[r].kind = "primary"
    BY <1>1, <1>3, Settling, Facts DEF Places
  <2>2. Valid(d)
    BY <1>1, <1>3 DEF IInv, Sound
  <2>3. Local(r)'
    BY <1>1, <2>1, <2>2 DEF Local, Placed, Begun, Primary, Repairs, Owner, Finder,
       Reads, Accepts, At, Inside, Kind, Dir, Valid
  <2> QED BY <1>1, <2>1, <2>3, StillStep
<1>4. ASSUME NEW place \in {"judging", "repairing", "acquiring"},
             place = "judging" => answer # "none",
             place = "repairing" => answer = "invalid",
             runner' = [runner EXCEPT ![r].at = place, ![r].resumed = TRUE,
                                      ![r].answer = answer]
      PROVE  IInv'
  <2> DEFINE e == [runner[r] EXCEPT !.at = place, !.resumed = TRUE,
                                    !.answer = answer]
  <2>1. answer \in Answers \cup {"none"}
    BY <1>1, Facts DEF TypeOK, Kinds
  <2>2. /\ e \in RunnerType /\ e.at = place /\ e.kind = "primary"
        /\ e.dir = d /\ e.answer = answer
    BY <1>1, <2>1, Facts DEF RunnerType, Places, Kind, Dir
  <2>3. Moves(r) /\ runner'[r] = e
    BY <1>4, <2>2, Facts DEF Moves, RunnersTyped
  <2>4. Local(r)'
    BY <1>1, <1>4, <2>2, <2>3 DEF Local, Placed, Begun, Primary, Repairs, Owner,
       Finder, Reads, Accepts, At, Inside, Kind, Dir, Response
  <2> QED BY <1>1, <2>3, <2>4, StillStep
<1>5. d \in invalidated => answer = "invalid"
  BY <1>1 DEF IInv, Sound
<1>6. Busy(r) \/ Broken(r) \/ NewAttempt(r) => Leaves(r)
  BY Leaving, Renewing, Facts DEF Busy, Broken
<1>7. CASE /\ answer \notin {"none", "empty"}
           /\ runner' = [runner EXCEPT
                 ![r].at = IF d \in invalidated THEN "repairing" ELSE "judging",
                 ![r].resumed = TRUE, ![r].answer = answer]
  BY <1>4, <1>5, <1>7
<1>8. CASE runner' = [runner EXCEPT ![r].at = "acquiring", ![r].resumed = TRUE,
                                    ![r].answer = answer]
  BY <1>4, <1>8
<1> QED BY <1>2, <1>3, <1>6, <1>7, <1>8 DEF _resume, ResumeAt

LEMMA RecordStep == ASSUME IInv, NEW r \in Runners, Record(r) PROVE IInv'
<1>1. /\ Moves(r) /\ runner'[r] = [runner[r] EXCEPT !.at = "judging"]
      /\ At(r, "answered") /\ Dir(r) \in Attempts
  BY Going, Facts DEF Record, Places, Local, Placed, At, Inside
<1>2. Local(r)'
  BY <1>1, Facts DEF Local, Placed, Begun, Primary, Repairs, Owner, Finder, Reads,
     Accepts, At, Inside, Kind, Dir, RunnerType, Record, Response
<1>3. /\ audit' \in [Attempts -> {"none", "made", "prepared", "completed"}]
      /\ repairRaw' \subseteq Attempts /\ Silent /\ UNCHANGED row
      /\ \A a \in Attempts : audit'[a] = "completed" => audit[a] = "completed"
  <2>1. Silent /\ UNCHANGED row
    BY DEF Record, Silent
  <2>2. /\ audit \in [Attempts -> {"none", "made", "prepared", "completed"}]
        /\ repairRaw \subseteq Attempts
    BY Facts DEF TypeOK
  <2>3. CASE Kind(r) = "primary"
    BY <1>1, <2>1, <2>2, <2>3 DEF Record
  <2>4. CASE Kind(r) # "primary"
    BY <1>1, <2>1, <2>2, <2>4 DEF Record
  <2> QED BY <2>3, <2>4
<1>4. Sound' /\ Output'
  BY <1>3, OutputSame DEF Record, Sound, IInv, Valid, Silent
<1>5. FilesTyped'
  BY <1>3, Facts DEF Record, FilesTyped, TypeOK
<1> QED BY <1>1, <1>2, <1>3, <1>4, <1>5, SilentStep, GrowsSame, Facts

LEMMA JudgeStep == ASSUME IInv, NEW r \in Runners, Judge(r) PROVE IInv'
<1> DEFINE d == Dir(r)  k == Kind(r)
<1>1. /\ At(r, "judging") /\ d \in Attempts /\ k \in Kinds /\ row.count >= 1
      /\ Response(r) = runner[r].answer /\ Response(r) # "none"
      /\ UNCHANGED <<row, audit, takenOver, accepted, repairRaw, ledger, asked,
                     crashes>>
      /\ (k = "json_repair" => ledger[d]["primary"] = "invalid")
  BY Facts DEF Judge, Local, Placed, Begun, Reads, Repairs, At, Inside
<1>2. CASE /\ runner[r].answer = "valid" /\ Settle(r, "accepting")
           /\ UNCHANGED <<invalidated, lease>>
  <2>1. /\ Moves(r) /\ runner'[r].at = "accepting"
        /\ runner'[r].dir = d /\ runner'[r].kind = k
    BY <1>2, Settling, Facts DEF Places
  <2>2. Local(r)'
    BY <1>1, <1>2, <2>1 DEF Local, Placed, Begun, Primary, Repairs, Owner, Finder,
       Reads, Accepts, At, Inside, Kind, Dir, Response
  <2> QED BY <1>1, <1>2, <2>1, <2>2, StillStep DEF files
<1>3. CASE Fails(r, TRUE) /\ UNCHANGED <<invalidated, lease>>
  <2>1. Leaves(r)
    BY <1>3, Leaving, Facts DEF Fails
  <2> QED BY <1>1, <1>3, <2>1, LeaveStep DEF files, At
<1>4. CASE /\ runner[r].answer = "invalid" /\ k = "primary"
           /\ WriteLease(r, "validation_failed") /\ Go(r, "repairing")
           /\ invalidated' = invalidated \cup {d}
  <2>1. Moves(r) /\ runner'[r] = [runner[r] EXCEPT !.at = "repairing"]
    BY <1>4, Going, Facts DEF Places
  <2>2. /\ runner'[r].at = "repairing" /\ runner'[r].dir = d
        /\ runner'[r].kind = k
    BY <2>1, Facts DEF RunnerType, Kind, Dir
  <2>3. Local(r)'
    BY <1>1, <1>4, <2>2 DEF Local, Placed, Begun, Primary, Repairs, Owner, Finder,
       Reads, Accepts, At, Inside, Kind, Dir, Response
  <2>4. FilesTyped' /\ AskedTyped'
    BY <1>1, <1>4, Facts DEF FilesTyped, AskedTyped, TypeOK
  <2>5. Sound'
    BY <1>1, <1>4 DEF Sound, IInv, Valid, Response
  <2> QED BY <1>1, <1>4, <2>1, <2>3, <2>4, <2>5, WriteStep DEF LeaseStates, Ended
<1>5. CASE /\ k = "json_repair" /\ WriteLease(r, "validation_failed")
           /\ UNCHANGED invalidated
           /\ (NewAttempt(r) \/ Fails(r, TRUE))
  <2>1. Leaves(r)
    BY <1>5, Leaving, Renewing, Facts DEF Fails
  <2>2. Local(r)'
    BY <1>1, <2>1, Left, GrowsSame, Facts DEF Local, At
  <2>3. FilesTyped' /\ AskedTyped' /\ Sound'
    BY <1>1, <1>5, FilesSame, Facts DEF files, AskedTyped, TypeOK
  <2> QED BY <1>1, <1>5, <2>1, <2>2, <2>3, WriteStep DEF LeaseStates, Ended, Leaves
<1> QED BY <1>2, <1>3, <1>4, <1>5 DEF Judge

LEMMA RepairStep == ASSUME IInv, NEW r \in Runners, _repair(r) PROVE IInv'
<1> DEFINE d == Dir(r)  answer == ledger[d]["json_repair"]
<1>1. /\ At(r, "repairing") /\ d \in Attempts /\ row.count >= 1
      /\ ledger[d]["primary"] = "invalid"
      /\ UNCHANGED <<row, files, lease, ledger, asked, crashes>>
  BY Facts DEF _repair, Local, Placed, Begun, Repairs, At, Inside
<1>2. CASE Leaves(r)
  BY <1>1, <1>2, LeaveStep DEF At
<1>3. CASE answer = "valid" /\ Settle(r, "closing")
  <2>1. Moves(r) /\ runner'[r].at = "closing" /\ runner'[r].dir = d
    BY <1>3, Settling, Facts DEF Places
  <2>2. Valid(d)
    BY <1>3 DEF Valid, Kinds
  <2>3. Local(r)'
    BY <1>1, <2>1, <2>2 DEF Local, Placed, Begun, Primary, Repairs, Owner, Finder,
       Reads, Accepts, At, Inside, Kind, Dir, Valid
  <2> QED BY <1>1, <2>1, <2>3, StillStep
<1>4. ASSUME NEW place \in {"judging", "acquiring"},
             place = "judging" => answer # "none",
             runner' = [runner EXCEPT ![r].at = place, ![r].kind = "json_repair",
                          ![r].answer = answer, ![r].found = (answer # "none")]
      PROVE  IInv'
  <2> DEFINE e == [runner[r] EXCEPT !.at = place, !.kind = "json_repair",
                                    !.answer = answer, !.found = (answer # "none")]
  <2>1. answer \in Answers \cup {"none"}
    BY <1>1, Facts DEF TypeOK, Kinds
  <2>2. /\ e \in RunnerType /\ e.at = place /\ e.kind = "json_repair"
        /\ e.dir = d /\ e.answer = answer
    BY <1>1, <2>1, Facts DEF RunnerType, Places, Kinds, Dir
  <2>3. Moves(r) /\ runner'[r] = e
    BY <1>4, <2>2, Facts DEF Moves, RunnersTyped
  <2>4. Local(r)'
    BY <1>1, <1>4, <2>2, <2>3 DEF Local, Placed, Begun, Primary, Repairs, Owner,
       Finder, Reads, Accepts, At, Inside, Kind, Dir, Response
  <2> QED BY <1>1, <2>3, <2>4, StillStep
<1>5. Broken(r) \/ NewAttempt(r) => Leaves(r)
  BY Leaving, Renewing, Facts DEF Broken
<1> QED BY <1>2, <1>3, <1>4, <1>5 DEF _repair, RepairAt

LEMMA CloseStep == ASSUME IInv, NEW r \in Runners, Close(r) PROVE IInv'
<1>1. /\ At(r, "closing") /\ Dir(r) \in Attempts /\ Valid(Dir(r))
      /\ row.count >= 1
      /\ (Kind(r) = "json_repair" => ledger[Dir(r)]["primary"] = "invalid")
  BY Facts DEF Close, Local, Placed, Begun, Repairs, Accepts, At, Inside
<1>2. /\ Moves(r) /\ runner'[r].at = "done"
      /\ runner'[r].dir = Dir(r) /\ runner'[r].kind = Kind(r)
  BY Settling, Facts DEF Close, Places
<1>3. Local(r)'
  BY <1>1, <1>2 DEF Local, Placed, Begun, Primary, Repairs, Owner, Finder, Reads,
     Accepts, At, Inside, Kind, Dir, Valid, Close
<1>4. AuditOnly /\ \A a \in Attempts : audit'[a] = "completed" =>
         audit[a] = "completed" \/ Valid(a)
  BY <1>1, Facts DEF Close, AuditOnly, TypeOK
<1> QED BY <1>2, <1>3, <1>4, AuditStep
-----------------------------------------------------------------------------
(* ProviderAttemptLease.acquire.                                           *)
LEMMA AnsweredStep ==
    ASSUME IInv, NEW r \in Runners, runner[r].at \in {"acquiring", "examining"},
           Response(r) # "none", Answered(r),
           UNCHANGED <<row, files, lease, ledger, asked, crashes>>
    PROVE  IInv'
<1> DEFINE e == [runner[r] EXCEPT !.at = "answered", !.answer = Response(r),
                                  !.seen = "none"]
<1>1. /\ Dir(r) \in Attempts /\ row.count >= 1
      /\ (Kind(r) = "json_repair" => ledger[Dir(r)]["primary"] = "invalid")
  BY Facts DEF Local, Placed, Begun, Repairs, At, Inside
<1>2. Response(r) \in Answers \cup {"none"}
  BY <1>1, Facts DEF TypeOK, Response
<1>3. /\ e \in RunnerType /\ e.at = "answered" /\ e.kind = Kind(r)
      /\ e.dir = Dir(r) /\ e.answer = Response(r)
  BY <1>2, Facts DEF RunnerType, Places, LeaseStates, Kind, Dir
<1>4. Moves(r) /\ runner'[r] = e
  BY <1>3, Facts DEF Answered, Moves, RunnersTyped
<1>5. Local(r)'
  BY <1>1, <1>3, <1>4 DEF Local, Placed, Begun, Primary, Repairs, Owner, Finder,
     Reads, Accepts, At, Inside, Kind, Dir, Response
<1> QED BY <1>4, <1>5, StillStep

LEMMA AcquireStep == ASSUME IInv, NEW r \in Runners, acquire(r) PROVE IInv'
<1> DEFINE d == Dir(r)  k == Kind(r)
<1>1. /\ At(r, "acquiring") /\ d \in Attempts /\ k \in Kinds /\ row.count >= 1
      /\ (k = "json_repair" => ledger[d]["primary"] = "invalid")
      /\ UNCHANGED <<row, files, ledger, asked, crashes>>
  BY Facts DEF acquire, Local, Placed, Begun, Repairs, At, Inside
<1>2. CASE Response(r) # "none" /\ Answered(r) /\ UNCHANGED lease
  BY <1>1, <1>2, AnsweredStep DEF At
<1>3. CASE Broken(r) /\ UNCHANGED lease
  <2>1. Leaves(r)
    BY <1>3, Leaving, Facts DEF Broken
  <2> QED BY <1>1, <1>3, <2>1, LeaveStep DEF At
<1>4. CASE /\ Lease(r).state \notin {"none", "torn"} /\ UNCHANGED lease
           /\ runner' = [runner EXCEPT ![r].at = "examining",
                                       ![r].seen = Lease(r).state]
  <2> DEFINE e == [runner[r] EXCEPT !.at = "examining", !.seen = Lease(r).state]
  <2>1. Lease(r).state \in LeaseStates
    BY <1>1, Facts DEF TypeOK, Lease
  <2>2. /\ e \in RunnerType /\ e.at = "examining" /\ e.kind = k /\ e.dir = d
    BY <2>1, Facts DEF RunnerType, Places, Kind, Dir
  <2>3. Moves(r) /\ runner'[r] = e
    BY <1>4, <2>2, Facts DEF Moves, RunnersTyped
  <2>4. Local(r)'
    BY <1>1, <1>4, <2>2, <2>3 DEF Local, Placed, Begun, Primary, Repairs, Owner,
       Finder, Reads, Accepts, At, Inside, Kind, Dir, Response, Lease
  <2> QED BY <1>1, <1>4, <2>3, <2>4, StillStep
<1>5. CASE /\ Response(r) = "none" /\ Lease(r).state = "none"
           /\ lease' = [lease EXCEPT ![d][k] = [state |-> "torn", owner |-> r]]
           /\ Go(r, "created")
  <2> DEFINE new == [state |-> "torn", owner |-> r]
  <2>1. LeasesTyped /\ new \in LeaseType
    BY TypesAre DEF IInv, Types, LeaseType, LeaseStates
  <2>2. lease' = [lease EXCEPT ![d] = [lease[d] EXCEPT ![k] = new]]
    BY <1>5
  <2>3. /\ LeasesTyped' /\ lease'[d][k] = new
        /\ \A a \in Attempts, j \in Kinds : ~Here(r, a, j) => lease'[a][j] = lease[a][j]
    BY <1>1, <2>1, <2>2 DEF LeasesTyped, Here
  <2>4. /\ Moves(r) /\ runner'[r] = [runner[r] EXCEPT !.at = "created"]
    BY <1>5, Going, Facts DEF Places
  <2>5. runner'[r].at = "created" /\ runner'[r].kind = k /\ runner'[r].dir = d
    BY <2>4, Facts DEF RunnerType, Kind, Dir
  <2>6. Local(r)'
    BY <1>1, <1>5, <2>3, <2>5 DEF Local, Placed, Begun, Primary, Repairs, Owner,
       Finder, Reads, Accepts, At, Inside, Kind, Dir, Response, Lease, Holds
  <2>7. Grows
    BY <1>1, GrowsSame DEF IInv
  <2>8. lease[d][k].state = "none" /\ lease[d][k].owner = Nobody
    BY <1>1, <1>5 DEF Lease, IInv, Sent
  <2>9. Frame(r)
    BY <1>1, <2>3, <2>7, <2>8, Counted DEF Frame, Here, Grows, Counts, IInv
  <2>10. Locals'
    BY <2>4, <2>6, <2>9, Others
  <2>11. Sent'
    BY <1>1, <2>3, <2>8 DEF Sent, IInv, Here
  <2>12. FilesTyped' /\ Sound' /\ Output'
    BY <1>1, FilesSame, OutputSame
  <2>13. Types'
    BY <1>1, <2>3, <2>4, <2>7, <2>12, TypesAre DEF Types, IInv, LedgerTyped,
       AskedTyped, Moves, Grows
  <2>14. TypeOK'
    BY <2>13, TypesAre, PTL
  <2> QED BY <2>10, <2>11, <2>12, <2>14 DEF IInv
<1> QED BY <1>2, <1>3, <1>4, <1>5 DEF acquire

LEMMA ExamineStep == ASSUME IInv, NEW r \in Runners, Examine(r) PROVE IInv'
<1>1. /\ At(r, "examining") /\ Dir(r) \in Attempts /\ row.count >= 1
      /\ Lease(r).state # "none"
      /\ (Kind(r) = "json_repair" => ledger[Dir(r)]["primary"] = "invalid")
      /\ UNCHANGED <<row, files, lease, ledger, asked, crashes>>
  BY Facts DEF Examine, Local, Placed, Begun, Repairs, Finder, At, Inside
<1>2. CASE Response(r) # "none" /\ Answered(r)
  BY <1>1, <1>2, AnsweredStep DEF At
<1>3. CASE NewAttempt(r) \/ Busy(r)
  <2>1. Leaves(r)
    BY <1>3, Leaving, Renewing, Facts DEF Busy
  <2> QED BY <1>1, <2>1, LeaveStep DEF At
<1>4. CASE Go(r, "expired")
  <2>1. Moves(r) /\ runner'[r] = [runner[r] EXCEPT !.at = "expired"]
    BY <1>4, Going, Facts DEF Places
  <2>2. /\ runner'[r].at = "expired" /\ runner'[r].kind = Kind(r)
        /\ runner'[r].dir = Dir(r)
    BY <2>1, Facts DEF RunnerType, Kind, Dir
  <2>3. Local(r)'
    BY <1>1, <2>2 DEF Local, Placed, Begun, Primary, Repairs, Owner, Finder, Reads,
       Accepts, At, Inside, Kind, Dir, Lease
  <2> QED BY <1>1, <2>1, <2>3, StillStep
<1> QED BY <1>2, <1>3, <1>4 DEF Examine

LEMMA TakeOverStep == ASSUME IInv, NEW r \in Runners, TakeOver(r) PROVE IInv'
<1>1. /\ At(r, "expired") /\ Dir(r) \in Attempts /\ row.count >= 1
      /\ Lease(r).state # "none"
      /\ (Kind(r) = "json_repair" => ledger[Dir(r)]["primary"] = "invalid")
      /\ UNCHANGED <<row, audit, invalidated, accepted, repairRaw, lease, ledger,
                     asked, crashes>>
  BY Facts DEF TakeOver, Local, Placed, Begun, Repairs, Finder, At, Inside
<1>2. CASE (Busy(r) \/ Fails(r, FALSE)) /\ UNCHANGED takenOver
  <2>1. Leaves(r)
    BY <1>2, Leaving, Facts DEF Busy, Fails
  <2> QED BY <1>1, <1>2, <2>1, LeaveStep DEF At, files
<1>3. CASE /\ Lease(r).owner = Nobody /\ Go(r, "abandoning")
           /\ takenOver' = takenOver \cup {<<Dir(r), Kind(r)>>}
  <2>1. Moves(r) /\ runner'[r] = [runner[r] EXCEPT !.at = "abandoning"]
    BY <1>3, Going, Facts DEF Places
  <2>2. /\ runner'[r].at = "abandoning" /\ runner'[r].kind = Kind(r)
        /\ runner'[r].dir = Dir(r)
    BY <2>1, Facts DEF RunnerType, Kind, Dir
  <2>3. Local(r)'
    BY <1>1, <1>3, <2>2 DEF Local, Placed, Begun, Primary, Repairs, Owner, Finder,
       Reads, Accepts, At, Inside, Kind, Dir, Lease
  <2>4. FilesTyped'
    BY <1>1, <1>3, Facts DEF FilesTyped, TypeOK
  <2>5. Sound' /\ Output'
    BY <1>1, OutputSame DEF Sound, IInv, Valid
  <2> QED BY <1>1, <2>1, <2>3, <2>4, <2>5, SilentStep, GrowsSame, Facts DEF Silent
<1> QED BY <1>2, <1>3 DEF TakeOver

LEMMA AbandonStep == ASSUME IInv, NEW r \in Runners, Abandon(r) PROVE IInv'
<1>1. /\ At(r, "abandoning") /\ Dir(r) \in Attempts /\ row.count >= 1
      /\ Lease(r).owner = Nobody
      /\ UNCHANGED <<row, files, ledger, asked, crashes>>
  BY Facts DEF Abandon, Local, Placed, Begun, Finder, At, Inside
<1>2. Leaves(r) /\ WriteLease(r, "abandoned")
  BY Renewing, Facts DEF Abandon
<1>3. Local(r)'
  BY <1>1, <1>2, Left, GrowsSame, Facts DEF Local, At
<1>4. FilesTyped' /\ AskedTyped' /\ Sound'
  BY <1>1, FilesSame, Facts DEF AskedTyped, TypeOK
<1> QED BY <1>1, <1>2, <1>3, <1>4, WriteStep DEF LeaseStates, Ended, Leaves
-----------------------------------------------------------------------------
(* The owner's steps, and those that mark a response found on disk.        *)
LEMMA GoStep ==
    ASSUME IInv, NEW r \in Runners, NEW place \in Places, Go(r, place)
    PROVE  /\ Moves(r) /\ runner'[r].at = place /\ runner'[r].kind = Kind(r)
           /\ runner'[r].dir = Dir(r) /\ runner'[r].answer = runner[r].answer
<1>1. Moves(r) /\ runner'[r] = [runner[r] EXCEPT !.at = place]
  BY Going, Facts
<1>2. runner[r] \in RunnerType
  BY Facts
<1> QED BY <1>1, <1>2 DEF RunnerType, Kind, Dir

LEMMA WrittenStep == ASSUME IInv, NEW r \in Runners, Written(r) PROVE IInv'
<1>1. /\ At(r, "created") /\ Dir(r) \in Attempts /\ row.count >= 1
      /\ Kind(r) \in Kinds /\ Holds(r, "torn")
      /\ (Kind(r) = "json_repair" => ledger[Dir(r)]["primary"] = "invalid")
      /\ UNCHANGED <<row, files, ledger, asked, crashes>>
      /\ WriteLease(r, "prepared") /\ Go(r, "prepared")
  BY Facts DEF Written, Local, Placed, Begun, Repairs, Owner, At, Inside
<1>2. /\ Moves(r) /\ runner'[r].at = "prepared" /\ runner'[r].kind = Kind(r)
      /\ runner'[r].dir = Dir(r)
  BY <1>1, GoStep DEF Places
<1>3. Lease(r).owner = r /\ asked[Dir(r)][Kind(r)] = 0
  BY <1>1 DEF Holds, Lease, IInv, Sent
<1>4. /\ lease'[Dir(r)][Kind(r)].state = "prepared"
      /\ lease'[Dir(r)][Kind(r)].owner = r
  BY <1>1, <1>3, Leasing, Facts DEF Here, LeaseStates, Lease
<1>5. Local(r)'
  BY <1>1, <1>2, <1>4 DEF Local, Placed, Begun, Primary, Repairs, Owner, Finder,
     Reads, Accepts, At, Inside, Kind, Dir, Response, Lease, Holds
<1>6. FilesTyped' /\ AskedTyped' /\ Sound'
  BY <1>1, FilesSame, Facts DEF AskedTyped, TypeOK
<1> QED BY <1>1, <1>2, <1>3, <1>5, <1>6, WriteStep DEF LeaseStates

LEMMA AskStep == ASSUME IInv, NEW r \in Runners, Ask(r) PROVE IInv'
<1> DEFINE d == Dir(r)  k == Kind(r)
<1>1. /\ At(r, "prepared") /\ d \in Attempts /\ row.count >= 1
      /\ k \in Kinds /\ Holds(r, "prepared")
      /\ (k = "json_repair" => ledger[d]["primary"] = "invalid")
      /\ UNCHANGED <<row, files, ledger, crashes>>
      /\ WriteLease(r, "requesting") /\ Go(r, "asking")
      /\ asked' = [asked EXCEPT ![d][k] = @ + 1]
  BY Facts DEF Ask, Local, Placed, Begun, Repairs, Owner, At, Inside
<1>2. /\ Moves(r) /\ runner'[r].at = "asking" /\ runner'[r].kind = k
      /\ runner'[r].dir = d
  BY <1>1, GoStep DEF Places
<1>3. Lease(r).owner = r /\ asked[d][k] = 0
  BY <1>1 DEF Holds, Lease, IInv, Sent
<1>4. lease'[d][k].state = "requesting" /\ lease'[d][k].owner = r
  BY <1>1, <1>3, Leasing, Facts DEF Here, LeaseStates, Lease
<1>5. Local(r)'
  BY <1>1, <1>2, <1>4 DEF Local, Placed, Begun, Primary, Repairs, Owner, Finder,
     Reads, Accepts, At, Inside, Kind, Dir, Response, Lease, Holds
<1>6. asked \in [Attempts -> [Kinds -> Nat]]
  BY Facts DEF TypeOK
<1>7. /\ asked' \in [Attempts -> [Kinds -> Nat]]
      /\ \A a \in Attempts, j \in Kinds :
           IF Here(r, a, j) THEN asked'[a][j] = 1 ELSE asked'[a][j] = asked[a][j]
  <2>1. asked' = [asked EXCEPT ![d] = [asked[d] EXCEPT ![k] = 1]]
    BY <1>1, <1>3, <1>6
  <2> QED BY <1>1, <1>6, <2>1 DEF Here
<1>8. FilesTyped' /\ AskedTyped'
  BY <1>1, <1>7, TypesAre DEF AskedTyped, FilesTyped, files, IInv, Types
<1>9. Sound'
  BY <1>1, <1>7 DEF Sound, IInv, files, Valid, Here, Kinds
<1>10. asked'[d][k] = 1
  BY <1>1, <1>7 DEF Here
<1> QED BY <1>1, <1>2, <1>3, <1>5, <1>7, <1>8, <1>9, <1>10, WriteStep DEF LeaseStates

LEMMA ReceiveStep == ASSUME IInv, NEW r \in Runners, Receive(r) PROVE IInv'
<1> DEFINE d == Dir(r)  k == Kind(r)
<1>1. /\ At(r, "asking") /\ d \in Attempts /\ row.count >= 1
      /\ k \in Kinds /\ Holds(r, "requesting")
      /\ (k = "json_repair" => ledger[d]["primary"] = "invalid")
      /\ UNCHANGED <<row, files, ledger, asked, crashes>>
      /\ WriteLease(r, "received")
  BY Facts DEF Receive, Local, Placed, Begun, Repairs, Owner, At, Inside
<1>2. PICK c \in Answers : runner' = [runner EXCEPT ![r].at = "received",
                                                   ![r].answer = c]
  BY DEF Receive
<1> DEFINE e == [runner[r] EXCEPT !.at = "received", !.answer = c]
<1>3. /\ e \in RunnerType /\ e.at = "received" /\ e.kind = k /\ e.dir = d
      /\ e.answer = c /\ c # "none"
  BY <1>2, Facts, AnswerAssumption DEF RunnerType, Places, Kind, Dir
<1>4. Moves(r) /\ runner'[r] = e
  BY <1>2, <1>3, Facts DEF Moves, RunnersTyped
<1>5. Lease(r).owner = r
  BY <1>1 DEF Holds
<1>6. lease'[d][k].state = "received" /\ lease'[d][k].owner = r
  BY <1>1, <1>5, Leasing, Facts DEF Here, LeaseStates, Marked, Lease
<1>7. Local(r)'
  BY <1>1, <1>3, <1>4, <1>6 DEF Local, Placed, Begun, Primary, Repairs, Owner,
     Finder, Reads, Accepts, At, Inside, Kind, Dir, Response, Lease, Holds
<1>8. FilesTyped' /\ AskedTyped' /\ Sound'
  BY <1>1, FilesSame, Facts DEF AskedTyped, TypeOK
<1>9. asked'[d][k] = 1
  BY <1>1 DEF Holds, Lease, IInv, Sent
<1> QED BY <1>1, <1>4, <1>5, <1>7, <1>8, <1>9, WriteStep DEF LeaseStates, Marked

LEMMA RequestFailsStep ==
    ASSUME IInv, NEW r \in Runners, RequestFails(r) PROVE IInv'
<1>1. /\ At(r, "asking") /\ Dir(r) \in Attempts /\ row.count >= 1
      /\ Lease(r).owner = r
      /\ UNCHANGED <<row, files, ledger, asked, crashes>>
  BY Facts DEF RequestFails, Local, Placed, Begun, Owner, Holds, At, Inside
<1>2. Leaves(r) /\ WriteLease(r, "failed")
  BY Leaving, Facts DEF RequestFails, Fails
<1>3. Local(r)'
  BY <1>1, <1>2, Left, GrowsSame, Facts DEF Local, At
<1>4. FilesTyped' /\ AskedTyped' /\ Sound'
  BY <1>1, FilesSame, Facts DEF AskedTyped, TypeOK
<1> QED BY <1>1, <1>2, <1>3, <1>4, WriteStep DEF LeaseStates, Ended, Leaves

LEMMA PersistStep == ASSUME IInv, NEW r \in Runners, persist_response(r) PROVE IInv'
<1> DEFINE d == Dir(r)  k == Kind(r)
<1>1. /\ At(r, "received") /\ d \in Attempts /\ row.count >= 1
      /\ k \in Kinds /\ Holds(r, "received") /\ runner[r].answer # "none"
      /\ (k = "json_repair" => ledger[d]["primary"] = "invalid")
      /\ UNCHANGED <<row, files, lease, asked, crashes>>
      /\ Go(r, "persisted")
      /\ ledger' = [ledger EXCEPT ![d][k] = runner[r].answer]
  BY Facts DEF persist_response, Local, Placed, Begun, Repairs, Owner, At, Inside
<1>2. /\ Moves(r) /\ runner'[r].at = "persisted" /\ runner'[r].kind = k
      /\ runner'[r].dir = d /\ runner'[r].answer = runner[r].answer
  BY <1>1, GoStep DEF Places
<1>3. LedgerTyped /\ runner[r].answer \in Answers \cup {"none"}
  BY TypesAre, Facts DEF IInv, Types, RunnerType
<1>4. /\ LedgerTyped' /\ ledger[d][k] = "none"
      /\ ledger'[d][k] = runner[r].answer
      /\ \A a \in Attempts, j \in Kinds :
           ledger[a][j] # "none" => ledger'[a][j] = ledger[a][j]
      /\ \A a \in Attempts, j \in Kinds :
           ~Here(r, a, j) => ledger'[a][j] = ledger[a][j]
  <2>1. ledger' = [ledger EXCEPT ![d] = [ledger[d] EXCEPT ![k] = runner[r].answer]]
    BY <1>1
  <2>2. ledger[d][k] = "none"
    BY <1>1 DEF Holds, Response
  <2> QED BY <1>1, <1>3, <2>1, <2>2 DEF LedgerTyped, Here
<1>5. Local(r)'
  BY <1>1, <1>2, <1>4 DEF Local, Placed, Begun, Primary, Repairs, Owner, Finder,
     Reads, Accepts, At, Inside, Kind, Dir, Response, Kinds
<1>6. Grows
  BY <1>1, GrowsSame DEF IInv
<1>7. Frame(r)
  BY <1>1, <1>4, <1>6, Counted DEF Frame, Here, Grows, Counts, IInv, Holds, Lease
<1>8. Locals'
  BY <1>2, <1>5, <1>7, Others
<1>9. Sent'
  BY <1>1 DEF Sent, IInv
<1>10. Sound'
  BY <1>1, <1>4 DEF Sound, IInv, files, Valid, Kinds
<1>11. Output'
  BY <1>1, <1>4 DEF Output, IInv, Valid
<1>12. Types'
  BY <1>1, <1>2, <1>4, <1>6, TypesAre DEF Types, IInv, LeasesTyped, AskedTyped,
     FilesTyped, files, Moves, Grows
<1>13. TypeOK'
  BY <1>12, TypesAre, PTL
<1> QED BY <1>8, <1>9, <1>10, <1>11, <1>13 DEF IInv

LEMMA MarkPersistedStep ==
    ASSUME IInv, NEW r \in Runners, MarkPersisted(r) PROVE IInv'
<1>1. /\ At(r, "persisted") /\ Dir(r) \in Attempts /\ row.count >= 1
      /\ Response(r) = runner[r].answer /\ Response(r) # "none"
      /\ (Kind(r) = "json_repair" => ledger[Dir(r)]["primary"] = "invalid")
      /\ UNCHANGED <<row, files, ledger, asked, crashes>>
      /\ WriteLease(r, "persisted") /\ Go(r, "answered")
  BY Facts DEF MarkPersisted, Local, Placed, Begun, Repairs, Reads, At, Inside
<1>2. /\ Moves(r) /\ runner'[r].at = "answered" /\ runner'[r].kind = Kind(r)
      /\ runner'[r].dir = Dir(r) /\ runner'[r].answer = runner[r].answer
  BY <1>1, GoStep DEF Places
<1>3. Local(r)'
  BY <1>1, <1>2 DEF Local, Placed, Begun, Primary, Repairs, Owner, Finder, Reads,
     Accepts, At, Inside, Kind, Dir, Response
<1>4. FilesTyped' /\ AskedTyped' /\ Sound'
  BY <1>1, FilesSame, Facts DEF AskedTyped, TypeOK
<1> QED BY <1>1, <1>2, <1>3, <1>4, WriteStep DEF LeaseStates, Marked

(* What accept, its pointer and its mark have in common.                   *)
LEMMA Accepting ==
    ASSUME IInv, NEW r \in Runners,
           runner[r].at \in {"accepting", "pointing", "accepted"},
           NEW place \in {"pointing", "accepted", "closing"}, Go(r, place),
           UNCHANGED <<row, ledger>>
    PROVE  Moves(r) /\ Local(r)'
<1>1. /\ Dir(r) \in Attempts /\ row.count >= 1 /\ Response(r) = "valid"
      /\ Kind(r) \in Kinds
      /\ (Kind(r) = "json_repair" => ledger[Dir(r)]["primary"] = "invalid")
  BY Facts DEF Local, Placed, Begun, Repairs, Accepts, At, Inside
<1>2. /\ Moves(r) /\ runner'[r].at = place /\ runner'[r].kind = Kind(r)
      /\ runner'[r].dir = Dir(r)
  BY GoStep DEF Places
<1>3. Local(r)'
  BY <1>1, <1>2 DEF Local, Placed, Begun, Primary, Repairs, Owner, Finder, Reads,
     Accepts, At, Inside, Kind, Dir, Response, Valid
<1> QED BY <1>2, <1>3

LEMMA PointStep == ASSUME IInv, NEW r \in Runners, Point(r) PROVE IInv'
<1>1. /\ At(r, "accepting") /\ Dir(r) \in Attempts /\ row.count >= 1
      /\ UNCHANGED <<row, audit, invalidated, takenOver, repairRaw, lease, ledger,
                     asked, crashes>>
  BY Facts DEF Point, Local, Placed, Begun, At, Inside
<1>2. CASE (Broken(r) \/ Fails(r, FALSE)) /\ UNCHANGED accepted
  <2>1. Leaves(r)
    BY <1>2, Leaving, Facts DEF Broken, Fails
  <2> QED BY <1>1, <1>2, <2>1, LeaveStep DEF At, files
<1>3. CASE Go(r, "accepted") /\ UNCHANGED accepted
  BY <1>1, <1>3, Accepting, StillStep DEF At, files
<1>4. CASE /\ accepted' = [accepted EXCEPT ![Dir(r)] = "torn"]
           /\ Go(r, "pointing")
  <2>1. Moves(r) /\ Local(r)'
    BY <1>1, <1>4, Accepting DEF At
  <2>2. accepted \in [Attempts -> Kinds \cup {"none", "torn"}]
    BY Facts DEF TypeOK
  <2>3. FilesTyped'
    BY <1>1, <1>4, <2>2, Facts DEF FilesTyped, TypeOK
  <2>4. Sound' /\ Output'
    BY <1>1, <1>4, <2>2, OutputSame DEF Sound, IInv, Valid, Kinds
  <2> QED BY <1>1, <2>1, <2>3, <2>4, SilentStep, GrowsSame, Facts DEF Silent
<1> QED BY <1>2, <1>3, <1>4 DEF Point

LEMMA WritePointerStep ==
    ASSUME IInv, NEW r \in Runners, WritePointer(r) PROVE IInv'
<1>1. /\ At(r, "pointing") /\ Dir(r) \in Attempts /\ Kind(r) \in Kinds
      /\ Response(r) = "valid" /\ Go(r, "accepted")
      /\ accepted' = [accepted EXCEPT ![Dir(r)] = Kind(r)]
      /\ UNCHANGED <<row, audit, invalidated, takenOver, repairRaw, lease, ledger,
                     asked, crashes>>
  BY Facts DEF WritePointer, Local, Placed, Accepts, At, Inside
<1>2. Moves(r) /\ Local(r)'
  BY <1>1, Accepting DEF At
<1>3. accepted \in [Attempts -> Kinds \cup {"none", "torn"}]
  BY Facts DEF TypeOK
<1>4. FilesTyped'
  BY <1>1, <1>3, Facts DEF FilesTyped, TypeOK
<1>5. Sound' /\ Output'
  BY <1>1, <1>3, OutputSame DEF Sound, IInv, Valid, Response
<1> QED BY <1>1, <1>2, <1>4, <1>5, SilentStep, GrowsSame, Facts DEF Silent

LEMMA MarkCompletedStep ==
    ASSUME IInv, NEW r \in Runners, MarkCompleted(r) PROVE IInv'
<1>1. /\ At(r, "accepted") /\ Dir(r) \in Attempts /\ Response(r) = "valid"
      /\ UNCHANGED <<row, files, ledger, asked, crashes>>
      /\ WriteLease(r, "completed") /\ Go(r, "closing")
  BY Facts DEF MarkCompleted, Local, Placed, Accepts, At, Inside
<1>2. Moves(r) /\ Local(r)'
  BY <1>1, Accepting DEF At
<1>3. FilesTyped' /\ AskedTyped' /\ Sound'
  BY <1>1, FilesSame, Facts DEF AskedTyped, TypeOK
<1> QED BY <1>1, <1>2, <1>3, WriteStep DEF LeaseStates, Marked
-----------------------------------------------------------------------------
LEMMA Initially == Init => IInv
<1> SUFFICES ASSUME Init PROVE IInv
  OBVIOUS
<1>1. TypeOK
  <2>1. runner \in [Runners -> RunnerType]
    BY IdleTyped DEF Init
  <2> QED BY <2>1, BoundAssumption DEF Init, TypeOK, RunnerType, Kinds, LeaseStates
<1>2. Locals
  BY DEF Init, Idle, Locals, Local, Placed, Begun, Primary, Repairs, Owner, Finder,
     Reads, Accepts, At, Inside, Kind
<1>3. Sent /\ Sound /\ Output
  BY DEF Init, Sent, Sound, Output, Kinds
<1> QED BY <1>1, <1>2, <1>3 DEF IInv

LEMMA Inductive == IInv /\ [Next]_vars => IInv'
<1> SUFFICES ASSUME IInv, [Next]_vars PROVE IInv'
  OBVIOUS
<1>1. ASSUME NEW r \in Runners, Stage(r) PROVE IInv'
  BY <1>1, LookStep, StartStep, LocateStep, ForceStep, RelocateStep, CompleteStep,
     FailStep, ReportStep, RecordFailureStep DEF Stage
<1>2. ASSUME NEW r \in Runners, Caller(r) PROVE IInv'
  BY <1>2, MakeStep, PrepareStep, ResumeStep, RecordStep, JudgeStep, RepairStep,
     CloseStep DEF Caller
<1>3. ASSUME NEW r \in Runners, Flight(r) PROVE IInv'
  BY <1>3, AcquireStep, ExamineStep, TakeOverStep, AbandonStep, WrittenStep, AskStep,
     ReceiveStep, RequestFailsStep, PersistStep, MarkPersistedStep, PointStep,
     WritePointerStep, MarkCompletedStep DEF Flight
<1>4. CASE UNCHANGED vars
  BY <1>4 DEF vars, files, IInv, TypeOK, Locals, Local, Placed, Begun, Primary,
     Repairs, Owner, Finder, Reads, Accepts, Sent, Sound, Output, At, Inside, Kind,
     Dir, Lease, Response, Holds, Valid
<1> QED BY <1>1, <1>2, <1>3, <1>4, CrashStep DEF Next

(* Rows, files, leases and processes never leave their types.              *)
THEOREM SingleFlightTypes == Spec => []TypeOK
<1>1. IInv => TypeOK
  BY DEF IInv
<1> QED BY <1>1, Initially, Inductive, PTL DEF Spec

(* Of an attempt the primary request and the repair each leave at most     *)
(* once, for any number of processes, attempts and crashes.                *)
THEOREM RequestsLeaveOnce == Spec => []OneCallPerAttempt
<1>1. IInv => OneCallPerAttempt
  BY DEF IInv, Sent, OneCallPerAttempt
<1> QED BY <1>1, Initially, Inductive, PTL DEF Spec

(* Only an invalid response is repaired, and only a valid one accepted.    *)
THEOREM AcceptanceIsSound == Spec => []AcceptedIsSound
<1>1. IInv => AcceptedIsSound
  BY DEF IInv, Sound, AcceptedIsSound
<1> QED BY <1>1, Initially, Inductive, PTL DEF Spec

(* A completed stage has an output that a valid response on disk gave.     *)
THEOREM CompletionsAreAnswered == Spec => []CompletedIsAnswered
<1>1. IInv => CompletedIsAnswered
  BY DEF IInv, Output, CompletedIsAnswered, Valid
<1> QED BY <1>1, Initially, Inductive, PTL DEF Spec
-----------------------------------------------------------------------------
(* The record of paid calls.                                               *)
Pairs == Attempts \X Kinds
Lefts == [c \in Pairs |-> asked[c[1]][c[2]]]
CallStates == [c \in Pairs |-> CallState(c[1], c[2])]
CallAnswers == [c \in Pairs |-> ledger[c[1]][c[2]]]
PaidStep == [Paid!Next]_(Paid!vars)

LEMMA SameRecord ==
    ASSUME UNCHANGED <<asked, ledger>>,
           \A a \in Attempts, k \in Kinds : CallState(a, k)' = CallState(a, k)
    PROVE  PaidStep
<1>1. \A c \in Pairs : c[1] \in Attempts /\ c[2] \in Kinds
  BY DEF Pairs
<1>2. UNCHANGED <<Lefts, CallStates, CallAnswers>>
  BY <1>1 DEF Lefts, CallStates, CallAnswers
<1> QED BY <1>2 DEF PaidStep, Paid!vars, Lefts, CallStates, CallAnswers, Pairs

LEMMA SameStates ==
    ASSUME UNCHANGED <<asked, ledger>>,
           \A a \in Attempts, k \in Kinds : lease'[a][k].state = lease[a][k].state
    PROVE  PaidStep
<1>1. \A a \in Attempts, k \in Kinds : CallState(a, k)' = CallState(a, k)
  BY DEF CallState
<1> QED BY <1>1, SameRecord

(* A step about one call changes the record of that one.                   *)
LEMMA OneRecord ==
    ASSUME NEW a \in Attempts, NEW k \in Kinds, NEW new,
           \A b \in Attempts, j \in Kinds :
              CallState(b, j)' = IF b = a /\ j = k THEN new ELSE CallState(b, j)
    PROVE  /\ <<a, k>> \in Pairs /\ CallStates[<<a, k>>] = CallState(a, k)
           /\ CallStates' = [CallStates EXCEPT ![<<a, k>>] = new]
<1>1. <<a, k>> \in Pairs
  BY DEF Pairs
<1>2. ASSUME NEW c \in Pairs
      PROVE  CallState(c[1], c[2])' =
                IF c = <<a, k>> THEN new ELSE CallState(c[1], c[2])
  <2>1. c[1] \in Attempts /\ c[2] \in Kinds /\ c = <<c[1], c[2]>>
    BY DEF Pairs
  <2> QED BY <2>1
<1> QED BY <1>1, <1>2 DEF CallStates

(* The marks of a lease are no record, but those that say that nobody will *)
(* ever know.                                                              *)
LEMMA MarkIsRecorded ==
    ASSUME IInv, NEW r \in Runners, Dir(r) \in Attempts,
           NEW state \in LeaseStates, WriteLease(r, state),
           UNCHANGED <<asked, ledger>>,
           \/ Response(r) # "none"
           \/ state \in {"failed", "abandoned"}
           \/ Lease(r).state \in {"prepared", "requesting", "torn"}
    PROVE  PaidStep
<1> DEFINE d == Dir(r)  j == Kind(r)
<1>1. /\ j \in Kinds
      /\ \A a \in Attempts, k \in Kinds :
           /\ Here(r, a, k) => lease'[a][k].state = state
           /\ ~Here(r, a, k) => lease'[a][k] = lease[a][k]
  BY Facts, Leasing
<1>2. PICK a \in Attempts, k \in Kinds : a = d /\ k = j
  BY <1>1
<1>3. \A b \in Attempts, i \in Kinds : b = a /\ i = k <=> Here(r, b, i)
  BY <1>2 DEF Here
<1>4. \A b \in Attempts, i \in Kinds :
         CallState(b, i)' = IF b = a /\ i = k THEN CallState(a, k)' ELSE CallState(b, i)
  BY <1>1, <1>3 DEF CallState
<1>5. lease'[a][k].state = state /\ ledger[a][k] = Response(r)
      /\ lease[a][k] = Lease(r)
  BY <1>1, <1>2, <1>3 DEF Response, Lease
<1>6. CASE CallState(a, k)' = CallState(a, k)
  BY <1>4, <1>6, SameRecord
<1>7. CASE CallState(a, k)' # CallState(a, k)
  <2>1. CallState(a, k) = "open" /\ CallState(a, k)' = "unknown"
    BY <1>5, <1>7 DEF CallState
  <2>2. /\ <<a, k>> \in Pairs /\ CallStates[<<a, k>>] = "open"
        /\ CallStates' = [CallStates EXCEPT ![<<a, k>>] = "unknown"]
    BY <1>4, <2>1, OneRecord
  <2>3. Lefts' = Lefts /\ CallAnswers' = CallAnswers
    BY DEF Lefts, CallAnswers
  <2>4. Paid!LoseTrack(<<a, k>>)
    BY <2>2, <2>3 DEF Paid!LoseTrack, Paid!Records, Lefts, CallAnswers, CallStates, Pairs
  <2> QED BY <2>2, <2>4 DEF PaidStep, Paid!Next, Pairs
<1> QED BY <1>6, <1>7

LEMMA AskIsRecorded == ASSUME IInv, NEW r \in Runners, Ask(r) PROVE PaidStep
<1> DEFINE d == Dir(r)  j == Kind(r)
<1>1. /\ d \in Attempts /\ j \in Kinds /\ Holds(r, "prepared") /\ UNCHANGED ledger
      /\ WriteLease(r, "requesting") /\ asked' = [asked EXCEPT ![d][j] = @ + 1]
  BY Facts DEF Ask, Local, Placed, Owner, At, Inside
<1>2. PICK a \in Attempts, k \in Kinds : a = d /\ k = j
  BY <1>1
<1>3. \A b \in Attempts, i \in Kinds :
           /\ Here(r, b, i) => lease'[b][i].state = "requesting"
           /\ ~Here(r, b, i) => lease'[b][i] = lease[b][i]
  BY <1>1, Facts, Leasing DEF LeaseStates
<1>4. lease[a][k].state = "prepared" /\ ledger[a][k] = "none" /\ asked[a][k] = 0
  BY <1>1, <1>2 DEF Holds, Lease, Response, IInv, Sent
<1>5. \A b \in Attempts, i \in Kinds :
         CallState(b, i)' = IF b = a /\ i = k THEN "open" ELSE CallState(b, i)
  BY <1>1, <1>2, <1>3, <1>4 DEF CallState, Here
<1>6. CallState(a, k) = "open"
  BY <1>4 DEF CallState
<1>7. /\ <<a, k>> \in Pairs /\ CallStates[<<a, k>>] = "open"
      /\ CallStates' = [CallStates EXCEPT ![<<a, k>>] = "open"]
  BY <1>5, <1>6, OneRecord
<1>8. CallStates' = CallStates
  BY <1>7 DEF CallStates
<1>9. Lefts[<<a, k>>] = 0 /\ Lefts' = [Lefts EXCEPT ![<<a, k>>] = 1]
  <2>1. asked' = [asked EXCEPT ![a] = [asked[a] EXCEPT ![k] = 1]]
    BY <1>1, <1>2, <1>4
  <2>2. asked \in [Attempts -> [Kinds -> Nat]]
    BY Facts DEF TypeOK
  <2>3. ASSUME NEW c \in Pairs
        PROVE  asked'[c[1]][c[2]] = IF c = <<a, k>> THEN 1 ELSE asked[c[1]][c[2]]
    <3>1. c[1] \in Attempts /\ c[2] \in Kinds /\ c = <<c[1], c[2]>>
      BY DEF Pairs
    <3> QED BY <2>1, <2>2, <3>1
  <2> QED BY <1>4, <1>7, <2>3 DEF Lefts
<1>10. CallAnswers' = CallAnswers
  BY <1>1 DEF CallAnswers
<1>11. Paid!Send(<<a, k>>)
  BY <1>7, <1>8, <1>9, <1>10 DEF Paid!Send, Lefts, CallAnswers, CallStates, Pairs
<1> QED BY <1>7, <1>11 DEF PaidStep, Paid!Next, Pairs

LEMMA PersistIsRecorded ==
    ASSUME IInv, NEW r \in Runners, persist_response(r) PROVE PaidStep
<1> DEFINE d == Dir(r)  j == Kind(r)
<1>1. /\ d \in Attempts /\ j \in Kinds /\ Holds(r, "received")
      /\ runner[r].answer # "none" /\ UNCHANGED <<lease, asked>>
      /\ ledger' = [ledger EXCEPT ![d][j] = runner[r].answer]
  BY Facts DEF persist_response, Local, Placed, Owner, At, Inside
<1>2. PICK a \in Attempts, k \in Kinds : a = d /\ k = j
  BY <1>1
<1>3. PICK answer \in Answers : answer = runner[r].answer
  BY <1>1, Facts DEF RunnerType
<1>4. /\ lease[a][k].state = "received" /\ ledger[a][k] = "none"
      /\ asked[a][k] = 1 /\ answer # "none"
  BY <1>1, <1>2, <1>3 DEF Holds, Lease, Response, IInv, Sent
<1>5. \A b \in Attempts, i \in Kinds :
         ledger'[b][i] = IF b = a /\ i = k THEN answer ELSE ledger[b][i]
  <2>1. ledger' = [ledger EXCEPT ![a] = [ledger[a] EXCEPT ![k] = answer]]
    BY <1>1, <1>2, <1>3
  <2>2. ledger \in [Attempts -> [Kinds -> Answers \cup {"none"}]]
    BY Facts DEF TypeOK
  <2> QED BY <2>1, <2>2
<1>6. \A b \in Attempts, i \in Kinds :
         CallState(b, i)' = IF b = a /\ i = k THEN "answered" ELSE CallState(b, i)
  BY <1>1, <1>4, <1>5 DEF CallState
<1>7. CallState(a, k) = "open"
  BY <1>4 DEF CallState
<1>8. /\ <<a, k>> \in Pairs /\ CallStates[<<a, k>>] = "open"
      /\ CallStates' = [CallStates EXCEPT ![<<a, k>>] = "answered"]
  BY <1>6, <1>7, OneRecord
<1>9. CallAnswers' = [CallAnswers EXCEPT ![<<a, k>>] = answer]
  <2>1. ASSUME NEW c \in Pairs
        PROVE  ledger'[c[1]][c[2]] = IF c = <<a, k>> THEN answer ELSE ledger[c[1]][c[2]]
    <3>1. c[1] \in Attempts /\ c[2] \in Kinds /\ c = <<c[1], c[2]>>
      BY DEF Pairs
    <3> QED BY <1>5, <3>1
  <2> QED BY <1>8, <2>1 DEF CallAnswers
<1>10. Lefts[<<a, k>>] = 1 /\ Lefts' = Lefts
  BY <1>1, <1>4, <1>8 DEF Lefts
<1>11. Paid!Answer(<<a, k>>)
  BY <1>8, <1>9, <1>10 DEF Paid!Answer, Paid!Records, Lefts, CallAnswers, CallStates,
     Pairs
<1> QED BY <1>8, <1>11 DEF PaidStep, Paid!Next, Pairs

LEMMA FlightIsRecorded ==
    ASSUME IInv, NEW r \in Runners, Flight(r) PROVE PaidStep
<1>1. CASE Examine(r) \/ TakeOver(r) \/ Point(r) \/ WritePointer(r)
  BY <1>1, SameStates DEF Examine, TakeOver, Point, WritePointer
<1>2. CASE acquire(r)
  <2>1. CASE UNCHANGED lease
    BY <1>2, <2>1, SameStates DEF acquire
  <2>2. CASE /\ Response(r) = "none" /\ Lease(r).state = "none"
             /\ lease' = [lease EXCEPT ![Dir(r)][Kind(r)] =
                             [state |-> "torn", owner |-> r]]
    <3>1. Dir(r) \in Attempts /\ Kind(r) \in Kinds /\ UNCHANGED <<asked, ledger>>
      BY <1>2, Facts DEF acquire, Local, Placed, At, Inside
    <3>2. lease \in [Attempts -> [Kinds -> LeaseType]]
      BY Facts DEF TypeOK, LeaseType
    <3>3. lease' = [lease EXCEPT ![Dir(r)] = [lease[Dir(r)] EXCEPT ![Kind(r)] =
                             [state |-> "torn", owner |-> r]]]
      BY <2>2
    <3>4. \A a \in Attempts, k \in Kinds :
             \/ lease'[a][k] = lease[a][k]
             \/ lease'[a][k].state = "torn" /\ lease[a][k].state = "none"
      BY <2>2, <3>1, <3>2, <3>3 DEF Lease
    <3>5. \A a \in Attempts, k \in Kinds : CallState(a, k)' = CallState(a, k)
      BY <3>1, <3>4 DEF CallState
    <3> QED BY <3>1, <3>5, SameRecord
  <2> QED BY <1>2, <2>1, <2>2 DEF acquire
<1>3. CASE Abandon(r)
  BY <1>3, Facts, MarkIsRecorded DEF Abandon, Local, Placed, At, Inside, LeaseStates, Ended
<1>4. CASE Written(r)
  BY <1>4, Facts, MarkIsRecorded DEF Written, Local, Placed, Owner, Holds, At, Inside,
     LeaseStates
<1>5. CASE Ask(r)
  BY <1>5, AskIsRecorded
<1>6. CASE Receive(r)
  BY <1>6, Facts, MarkIsRecorded DEF Receive, Local, Placed, Owner, Holds, At, Inside,
     LeaseStates, Marked
<1>7. CASE RequestFails(r)
  BY <1>7, Facts, MarkIsRecorded DEF RequestFails, Local, Placed, At, Inside,
     LeaseStates, Ended
<1>8. CASE persist_response(r)
  BY <1>8, PersistIsRecorded
<1>9. CASE MarkPersisted(r)
  BY <1>9, Facts, MarkIsRecorded DEF MarkPersisted, Local, Placed, Reads, At, Inside,
     LeaseStates, Marked
<1>10. CASE MarkCompleted(r)
  <2>1. Dir(r) \in Attempts /\ Response(r) # "none"
    BY <1>10, Facts DEF MarkCompleted, Local, Placed, Accepts, At, Inside
  <2> QED BY <1>10, <2>1, MarkIsRecorded DEF MarkCompleted, LeaseStates, Marked
<1> QED BY <1>1, <1>2, <1>3, <1>4, <1>5, <1>6, <1>7, <1>8, <1>9, <1>10 DEF Flight

LEMMA GoneIsRecorded ==
    ASSUME IInv, NEW r \in Runners, Gone(r), UNCHANGED <<asked, ledger>> PROVE PaidStep
<1>1. \A a \in Attempts, k \in Kinds : lease'[a][k].state = lease[a][k].state
  BY Dying DEF IInv
<1> QED BY <1>1, SameStates

LEMMA StageIsRecorded ==
    ASSUME IInv, NEW r \in Runners, Stage(r) \/ Crash(r) PROVE PaidStep
<1>1. UNCHANGED <<asked, ledger>> /\ (UNCHANGED lease \/ Gone(r))
  BY DEF Stage, Crash, Look, start_stage, Locate, force_new_attempt, Relocate,
     complete_stage, fail_stage, Report, record_failure
<1> QED BY <1>1, SameStates, GoneIsRecorded

LEMMA CallerIsRecorded ==
    ASSUME IInv, NEW r \in Runners, Caller(r) PROVE PaidStep
<1>1. CASE ~Judge(r)
  BY <1>1, SameStates DEF Caller, Make, Prepare, _resume, Record, _repair, Close
<1>2. CASE Judge(r)
  <2>1. Dir(r) \in Attempts /\ Response(r) # "none" /\ UNCHANGED <<asked, ledger>>
    BY <1>2, Facts DEF Judge, Local, Placed, Reads, At, Inside
  <2>2. UNCHANGED lease \/ WriteLease(r, "validation_failed")
    BY <1>2 DEF Judge
  <2> QED BY <2>1, <2>2, SameStates, MarkIsRecorded DEF LeaseStates, Ended
<1> QED BY <1>1, <1>2

(* The leases and the ledger are such a record: an attempt that failed,    *)
(* was abandoned or has its response is not asked again, and the response  *)
(* stays (acquire, invoke, persist_response).                              *)
THEOREM AttemptsAreRecorded == Spec => ImplementsProviderCalls
<1>1. Init => Paid!Init
  <2> SUFFICES ASSUME Init PROVE Paid!Init
    OBVIOUS
  <2>1. \A c \in Pairs : c[1] \in Attempts /\ c[2] \in Kinds
    BY DEF Pairs
  <2>2. \A c \in Pairs : /\ CallState(c[1], c[2]) = "open"
                         /\ asked[c[1]][c[2]] = 0 /\ ledger[c[1]][c[2]] = "none"
    BY <2>1 DEF Init, CallState
  <2> QED BY <2>2 DEF Paid!Init, Pairs
<1>2. ASSUME IInv, [Next]_vars PROVE PaidStep
  <2>1. CASE UNCHANGED vars
    BY <2>1, SameStates DEF vars
  <2> QED
    BY <1>2, <2>1, StageIsRecorded, CallerIsRecorded, FlightIsRecorded DEF Next
<1>3. IInv /\ [Next]_vars => [Paid!Next]_(Paid!vars)
  BY <1>2 DEF PaidStep
<1> QED
  BY <1>1, <1>3, Initially, Inductive, PTL
     DEF Spec, ImplementsProviderCalls, Paid!Spec
=============================================================================
