------------------------ MODULE ArtifactStoreProofs ------------------------
(***************************************************************************)
(* Proofs about ArtifactStore, with sessions lost at any moment.  What     *)
(* joins the files to the manifests is the guard: an entry of a            *)
(* transaction that holds it has its file, and a file that gc is about to  *)
(* unlink is nobody's as long as gc holds it.  Either may fail for a       *)
(* content of which a collector without its session took a file, and for   *)
(* no other.                                                               *)
(***************************************************************************)
EXTENDS ArtifactStore, TLAPS

Accounted(c) == file[c] # Absent \/ c \in strayed
Condemned(f) == /\ ~Referenced(f.content)
                /\ Garbage(f) \/ f.content \in strayed
Kinds == /\ \A p \in Publishers : state[p] \in {"idle", "begun", "committed", "failed"}
         /\ \A q \in Collectors : state[q] \in {"idle", "swept", "begun", "doomed",
                                                "unlinked"}
CollectorsSee == \A q \in Collectors : InTransaction(q) => current[q] \in Seen
NothingEntered == \A p \in Publishers : state[p] = "idle" => entered[p] = {}
EntriesHold == \A p \in Publishers : state[p] = "begun" /\ guard = p =>
                 \A e \in entered[p] : /\ Accounted(e.content)
                                       /\ versions[e.slot] \in {Nothing, e.content}
DoomedIsGarbage == \A q \in Collectors : HasSession(q) =>
                     /\ state[q] = "doomed" => Condemned(current[q])
                     /\ state[q] = "unlinked" => ~Referenced(current[q].content)
Inv == /\ Kinds /\ CollectorsSee /\ NothingEntered
       /\ EntriesHold /\ DoomedIsGarbage /\ OnlyStraysLoseFiles

-----------------------------------------------------------------------------
LEMMA NewVersionsFacts ==
    ASSUME TypeOK, NEW p \in Publishers
    PROVE  /\ NewVersions(p) \in [Slots -> Contents \cup {Nothing}]
           /\ \A s \in Slots :
                \/ \E e \in Batch[p] : e.slot = s /\ NewVersions(p)[s] = e.content
                \/ NewVersions(p)[s] = versions[s]
<1>1. Batch[p] \subseteq [slot : Slots, content : Contents]
  BY BatchAssumption
<1>2. ASSUME NEW s \in Slots
      PROVE  \/ \E e \in Batch[p] : e.slot = s /\ NewVersions(p)[s] = e.content
             \/ NewVersions(p)[s] = versions[s]
  BY DEF NewVersions
<1>3. ASSUME NEW s \in Slots
      PROVE  NewVersions(p)[s] \in Contents \cup {Nothing}
  BY <1>1, <1>2 DEF TypeOK
<1> QED BY <1>2, <1>3 DEF NewVersions

LEMMA NewHeadsType ==
    ASSUME TypeOK, NEW p \in Publishers
    PROVE  NewHeads(p) \in [Keys -> Slots \cup {Nothing}]
<1>1. Batch[p] \subseteq [slot : Slots, content : Contents]
  BY BatchAssumption
<1>2. ASSUME NEW k \in Keys
      PROVE  NewHeads(p)[k] \in Slots \cup {Nothing}
  <2>1. CASE \E e \in Batch[p] : e.slot[1] = k
    <3>1. (CHOOSE e \in Batch[p] : e.slot[1] = k) \in Batch[p]
      BY <2>1
    <3> QED BY <1>1, <2>1, <3>1 DEF NewHeads
  <2>2. CASE ~ \E e \in Batch[p] : e.slot[1] = k
    BY <2>2 DEF NewHeads, TypeOK
  <2> QED BY <2>1, <2>2
<1> QED BY <1>2 DEF NewHeads

LEMMA GivesUpType ==
    ASSUME TypeOK, NEW x \in Procs, GivesUp(x), faults' \in 0..MaxFaults
    PROVE  TypeOK'
BY DEF TypeOK, GivesUp, disk, rows

LEMMA DoneType ==
    ASSUME TypeOK, NEW q \in Collectors, Done(q), objects' \subseteq Contents
    PROVE  TypeOK'
BY DEF TypeOK, Done, disk, publishing, Procs

LEMMA TypeStep == TypeOK /\ CollectorsSee /\ [Next]_vars => TypeOK'
<1> SUFFICES ASSUME TypeOK, CollectorsSee, [Next]_vars PROVE TypeOK'
  OBVIOUS
<1> USE BoundAssumption DEF Procs, disk, rows, publishing, collecting, Identities, Absent
<1>1. ASSUME NEW c \in Contents, Age(c) PROVE TypeOK'
  BY <1>1 DEF Age, TypeOK
<1>2. ASSUME NEW p \in Publishers, Publisher(p) PROVE TypeOK'
  <2>1. ASSUME NEW c \in Contents, Write(p, c) PROVE TypeOK'
    <3>1. /\ file' \in [Contents -> Identities \cup {Absent}]
          /\ created' \in 0..MaxFiles /\ aged' \subseteq Identities
          /\ strayed' = strayed
      BY <2>1 DEF Write, TypeOK
    <3>2. preparing' \in [Publishers -> Contents \cup {Nothing}]
      BY <2>1 DEF Write, TypeOK
    <3> QED BY <2>1, <3>1, <3>2 DEF Write, TypeOK
  <2>2. CASE Describe(p)
    BY <2>2 DEF Describe, TypeOK
  <2>3. CASE Vanished(p)
    BY <2>3, GivesUpType DEF Vanished, TypeOK
  <2>4. CASE Begin(p)
    BY <2>4 DEF Begin, TypeOK
  <2>5. ASSUME NEW e \in Batch[p], Insert(p, e) PROVE TypeOK'
    <3>1. e \in [slot : Slots, content : Contents]
      BY BatchAssumption
    <3> QED BY <2>5, <3>1 DEF Insert, TypeOK
  <2>6. ASSUME NEW e \in Batch[p], Conflict(p, e) PROVE TypeOK'
    BY <2>6, GivesUpType DEF Conflict, TypeOK
  <2>7. ASSUME NEW e \in Batch[p], Stale(p, e) PROVE TypeOK'
    <3>1. faults' \in 0..MaxFaults
      BY <2>7 DEF Stale, TypeOK
    <3>2. CASE GivesUp(p)
      BY <3>1, <3>2, GivesUpType
    <3>3. CASE TryAgain(p)
      <4>1. attempt[p] + 1 \in 1..MaxAttempts
        BY <3>3 DEF TryAgain, TypeOK
      <4>2. NoDescriptors \in [Contents -> Identities \cup {Absent}]
        BY DEF NoDescriptors
      <4> QED BY <3>1, <3>3, <4>1, <4>2 DEF TryAgain, TypeOK
    <3> QED BY <2>7, <3>2, <3>3 DEF Stale
  <2>8. CASE Refused(p)
    BY <2>8, GivesUpType DEF Refused, TypeOK
  <2>9. CASE Commit(p)
    <3>1. ContentsOf(p) \subseteq Contents
      BY BatchAssumption DEF ContentsOf
    <3> QED BY <2>9, <3>1, NewVersionsFacts, NewHeadsType DEF Commit, TypeOK
  <2> QED BY <1>2, <2>1, <2>2, <2>3, <2>4, <2>5, <2>6, <2>7, <2>8, <2>9
          DEF Publisher
<1>3. ASSUME NEW q \in Collectors, Collector(q) PROVE TypeOK'
  <2>1. CASE Sweep(q)
    <3>1. Files \subseteq Seen
      BY DEF Files, Seen, TypeOK
    <3> QED BY <2>1, <3>1 DEF Sweep, TypeOK
  <2>2. CASE Examine(q)
    BY <2>2 DEF Examine, TypeOK
  <2>3. CASE Keep(q)
    BY <2>3, DoneType DEF Keep, TypeOK
  <2>4. CASE Doom(q)
    BY <2>4 DEF Doom, TypeOK
  <2>5. CASE Unlink(q)
    <3>1. current[q].content \in Contents
      BY <2>5 DEF Unlink, CollectorsSee, InTransaction, Seen
    <3> QED BY <2>5, <3>1 DEF Unlink, TypeOK
  <2>6. CASE UnlinkFails(q)
    BY <2>6, GivesUpType DEF UnlinkFails, TypeOK
  <2>7. CASE DeleteRow(q)
    <3>1. objects' \subseteq Contents
      BY <2>7 DEF DeleteRow, TypeOK
    <3> QED BY <2>7, <3>1, DoneType DEF DeleteRow
  <2> QED BY <1>3, <2>1, <2>2, <2>3, <2>4, <2>5, <2>6, <2>7 DEF Collector
<1>4. ASSUME NEW x \in Procs, LockTimeout(x) \/ SessionGone(x) PROVE TypeOK'
  BY <1>4, GivesUpType DEF LockTimeout, SessionGone, TypeOK
<1>5. ASSUME NEW x \in Procs, Drop(x) PROVE TypeOK'
  BY <1>5 DEF Drop, TypeOK
<1>6. ASSUME NEW x \in Procs, Crash(x) PROVE TypeOK'
  <2>1. faults' \in 0..MaxFaults
    BY <1>6 DEF Crash, TypeOK
  <2> QED BY <1>6, <2>1, GivesUpType DEF Crash
<1>7. CASE UNCHANGED vars
  BY <1>7 DEF vars, TypeOK
<1> QED BY <1>1, <1>2, <1>3, <1>4, <1>5, <1>6, <1>7 DEF Next

LEMMA TypeInit == Init => TypeOK
BY BoundAssumption DEF Init, TypeOK, NoDescriptors, Procs, Identities, Absent
-----------------------------------------------------------------------------
(* Whoever ends with an error gives the guard back and changes neither a   *)
(* file nor a row.                                                         *)
LEMMA GivesUpInv ==
    ASSUME TypeOK, Inv, NEW x \in Procs, GivesUp(x)
    PROVE  Inv'
<1> USE ProcAssumption DEF Procs
<1>0. /\ UNCHANGED <<file, aged, strayed, objects, versions>>
      /\ \A y \in Procs : y # x => state'[y] = state[y]
      /\ \A p \in Publishers : p # x => entered'[p] = entered[p]
      /\ \A q \in Collectors : q # x => current'[q] = current[q]
      /\ \A y \in Procs : y # x => (guard' = y <=> guard = y)
      /\ x \in Publishers => state'[x] = "failed"
      /\ x \in Collectors => state'[x] = "idle"
  BY DEF GivesUp, TypeOK, disk, rows
<1>1. Kinds'
  BY <1>0 DEF Inv, Kinds
<1>2. CollectorsSee'
  BY <1>0 DEF Inv, CollectorsSee, InTransaction
<1>3. NothingEntered'
  BY <1>0 DEF Inv, NothingEntered
<1>4. EntriesHold'
  BY <1>0 DEF Inv, EntriesHold, Accounted
<1>5. DoomedIsGarbage'
  BY <1>0 DEF Inv, DoomedIsGarbage, HasSession, Condemned, Garbage, Recheck, Old, Referenced
<1>6. OnlyStraysLoseFiles'
  BY <1>0 DEF Inv, OnlyStraysLoseFiles, HasRow, HasFile
<1> QED BY <1>1, <1>2, <1>3, <1>4, <1>5, <1>6 DEF Inv

(* A step that leaves the versions, the objects they name, every file that *)
(* is there, and the processes other than x alone keeps the invariant if   *)
(* x's own part of it is kept.                                             *)
LEMMA OthersKeep ==
    ASSUME TypeOK, Inv, NEW x \in Procs,
           UNCHANGED versions,
           \A s \in Slots : versions[s] \in objects => versions[s] \in objects',
           \A c \in Contents : file[c] # Absent => file'[c] = file[c],
           aged \subseteq aged', strayed \subseteq strayed',
           \A y \in Procs \ {x} : state'[y] = state[y],
           \A p \in Publishers \ {x} : entered'[p] = entered[p],
           \A q \in Collectors \ {x} : current'[q] = current[q],
           \A y \in Procs \ {x} : guard' = y <=> guard = y,
           x \in Publishers => /\ state'[x] \in {"idle", "begun", "committed", "failed"}
                               /\ state'[x] = "idle" => entered'[x] = {}
                               /\ state'[x] = "begun" /\ guard' = x =>
                                    \A e \in entered'[x] :
                                      /\ Accounted(e.content)'
                                      /\ versions'[e.slot] \in {Nothing, e.content},
           x \in Collectors => /\ state'[x] \in {"idle", "swept", "begun", "doomed",
                                                 "unlinked"}
                               /\ InTransaction(x)' => current'[x] \in Seen
                               /\ HasSession(x)' /\ state'[x] = "doomed" =>
                                    Condemned(current[x])'
                               /\ HasSession(x)' /\ state'[x] = "unlinked" =>
                                    ~Referenced(current[x].content)'
    PROVE  Inv'
<1> USE ProcAssumption DEF Procs
<1>1. Kinds'
  BY DEF Inv, Kinds
<1>2. CollectorsSee'
  BY DEF Inv, CollectorsSee, InTransaction
<1>3. NothingEntered'
  BY DEF Inv, NothingEntered
<1>4. EntriesHold'
  <2> SUFFICES ASSUME NEW p \in Publishers, state'[p] = "begun", guard' = p,
                      NEW e \in entered'[p]
               PROVE  /\ Accounted(e.content)'
                      /\ versions'[e.slot] \in {Nothing, e.content}
    BY DEF EntriesHold
  <2>1. CASE p = x
    BY <2>1
  <2>2. CASE p # x
    <3>1. state[p] = "begun" /\ guard = p /\ e \in entered[p]
      BY <2>2
    <3>2. e.content \in Contents
      BY <3>1 DEF TypeOK
    <3> QED BY <3>1, <3>2 DEF Inv, EntriesHold, Accounted
  <2> QED BY <2>1, <2>2
<1>5. DoomedIsGarbage'
  <2> SUFFICES ASSUME NEW q \in Collectors, HasSession(q)'
               PROVE  /\ state'[q] = "doomed" => Condemned(current[q])'
                      /\ state'[q] = "unlinked" => ~Referenced(current[q].content)'
    BY DEF DoomedIsGarbage
  <2>1. CASE q = x
    BY <2>1
  <2>2. CASE q # x
    <3>1. state'[q] = state[q] /\ current'[q] = current[q] /\ HasSession(q)
      BY <2>2 DEF HasSession
    <3>2. state[q] = "doomed" => Condemned(current[q])
      BY <3>1 DEF Inv, DoomedIsGarbage
    <3>3. state[q] = "unlinked" => ~Referenced(current[q].content)
      BY <3>1 DEF Inv, DoomedIsGarbage
    <3>4. state[q] = "doomed" => current[q] \in Seen
      BY DEF Inv, CollectorsSee, InTransaction
    <3>5. ASSUME state[q] = "doomed" PROVE Condemned(current[q])'
      <4>1. current[q].content \in Contents
        BY <3>4, <3>5 DEF Seen
      <4>2. ASSUME Garbage(current[q]) PROVE Garbage(current[q])'
        BY <3>1, <4>1, <4>2 DEF Garbage, Recheck, Old, Referenced
      <4> QED BY <3>1, <3>2, <3>5, <4>2 DEF Condemned, Referenced
    <3> QED BY <3>1, <3>3, <3>5 DEF Referenced
  <2> QED BY <2>1, <2>2
<1>6. OnlyStraysLoseFiles'
  BY DEF Inv, OnlyStraysLoseFiles, HasRow, HasFile, TypeOK
<1> QED BY <1>1, <1>2, <1>3, <1>4, <1>5, <1>6 DEF Inv

LEMMA DoneInv ==
    ASSUME TypeOK, Inv, NEW q \in Collectors, guard = q, Done(q),
           \A s \in Slots : versions[s] \in objects => versions[s] \in objects'
    PROVE  Inv'
<1>1. /\ UNCHANGED <<file, aged, strayed, versions, entered>>
      /\ guard' = Nobody
      /\ state'[q] \in {"idle", "swept"}
      /\ \A y \in Procs \ {q} : state'[y] = state[y]
      /\ \A r \in Collectors \ {q} : current'[r] = current[r]
  BY DEF Done, TypeOK, disk, publishing, Procs
<1>2. ~InTransaction(q)' /\ ~HasSession(q)'
  BY <1>1, ProcAssumption DEF InTransaction, HasSession, Procs
<1> QED BY <1>1, <1>2, OthersKeep, ProcAssumption DEF Procs

LEMMA CommitInv ==
    ASSUME TypeOK, Inv, NEW p \in Publishers, Commit(p)
    PROVE  Inv'
<1> USE ProcAssumption DEF Procs
<1>1. /\ UNCHANGED <<file, aged, strayed, entered, current>>
      /\ guard = p /\ guard' = Nobody
      /\ state' = [state EXCEPT ![p] = "committed"]
      /\ objects' = objects \cup ContentsOf(p)
      /\ versions' = NewVersions(p)
  BY DEF Commit, disk, publishing, collecting
<1>2. Kinds' /\ CollectorsSee' /\ NothingEntered'
  BY <1>1 DEF Inv, Kinds, CollectorsSee, InTransaction, NothingEntered, TypeOK
<1>3. EntriesHold'
  BY <1>1 DEF EntriesHold
<1>4. DoomedIsGarbage'
  BY <1>1 DEF DoomedIsGarbage, HasSession
<1>5. OnlyStraysLoseFiles'
  <2> SUFFICES ASSUME NEW s \in Slots, versions'[s] # Nothing
               PROVE  versions'[s] \in objects' /\ Accounted(versions[s])'
    BY DEF OnlyStraysLoseFiles, HasRow, HasFile, Accounted
  <2>1. CASE versions'[s] = versions[s]
    BY <1>1, <2>1 DEF Inv, OnlyStraysLoseFiles, HasRow, HasFile, Accounted
  <2>2. CASE \E e \in Batch[p] : e.slot = s /\ versions'[s] = e.content
    <3>1. PICK e \in Batch[p] : versions'[s] = e.content
      BY <2>2
    <3>2. Accounted(e.content)
      BY DEF Commit, Inv, EntriesHold
    <3> QED BY <1>1, <3>1, <3>2 DEF ContentsOf, Accounted
  <2> QED BY <1>1, <2>1, <2>2, NewVersionsFacts
<1> QED BY <1>2, <1>3, <1>4, <1>5 DEF Inv

LEMMA UnlinkInv ==
    ASSUME TypeOK, Inv, NEW q \in Collectors, Unlink(q)
    PROVE  Inv'
<1> USE ProcAssumption DEF Procs
<1> DEFINE c == current[q].content
<1>1. /\ UNCHANGED <<aged, objects, versions, guard, entered, current>>
      /\ file' = [file EXCEPT ![c] = Absent]
      /\ state[q] = "doomed"
      /\ state' = [state EXCEPT ![q] = "unlinked"]
      /\ strayed' = IF HasSession(q) THEN strayed ELSE strayed \cup {c}
  BY DEF Unlink, rows, publishing, collecting
<1>2. \A d \in Contents : Accounted(d) /\ (d = c => ~HasSession(q)) => Accounted(d)'
  BY <1>1 DEF Accounted, TypeOK
<1>3. HasSession(q) => ~Referenced(c)
  BY <1>1 DEF Inv, DoomedIsGarbage, Condemned
<1>4. Kinds' /\ CollectorsSee' /\ NothingEntered'
  BY <1>1 DEF Inv, Kinds, CollectorsSee, InTransaction, NothingEntered, TypeOK
<1>5. EntriesHold'
  <2> SUFFICES ASSUME NEW p \in Publishers, state'[p] = "begun", guard' = p,
                      NEW e \in entered'[p]
               PROVE  /\ Accounted(e.content)'
                      /\ versions'[e.slot] \in {Nothing, e.content}
    BY DEF EntriesHold
  <2>1. state[p] = "begun" /\ guard = p /\ e \in entered[p] /\ ~HasSession(q)
    BY <1>1 DEF HasSession, TypeOK
  <2>2. e.content \in Contents
    BY <2>1 DEF TypeOK
  <2> QED BY <1>1, <1>2, <2>1, <2>2 DEF Inv, EntriesHold
<1>6. DoomedIsGarbage'
  <2> SUFFICES ASSUME NEW r \in Collectors, HasSession(r)'
               PROVE  /\ state'[r] = "doomed" => Condemned(current[r])'
                      /\ state'[r] = "unlinked" => ~Referenced(current[r].content)'
    BY DEF DoomedIsGarbage
  <2>1. HasSession(r)
    BY <1>1 DEF HasSession
  <2>2. CASE r = q
    BY <1>1, <1>3, <2>1, <2>2 DEF Referenced, TypeOK
  <2>3. CASE r # q
    <3>1. /\ state'[r] = state[r] /\ UNCHANGED <<aged, versions, current>>
          /\ strayed' = strayed \cup {c}
      BY <1>1, <2>1, <2>3 DEF HasSession, TypeOK
    <3>2. /\ state[r] = "doomed" => Condemned(current[r]) /\ current[r] \in Seen
          /\ state[r] = "unlinked" => ~Referenced(current[r].content)
      BY <2>1 DEF Inv, DoomedIsGarbage, CollectorsSee, InTransaction
    <3>3. ASSUME state[r] = "doomed" PROVE Condemned(current[r])'
      <4>1. current[r].content \in Contents
        BY <3>2, <3>3 DEF Seen
      <4>2. CASE current[r].content = c
        BY <3>1, <3>2, <3>3, <4>2 DEF Condemned, Referenced
      <4>3. CASE current[r].content # c
        BY <1>1, <3>1, <3>2, <3>3, <4>1, <4>3
           DEF Condemned, Garbage, Recheck, Old, Referenced, TypeOK
      <4> QED BY <4>2, <4>3
    <3> QED BY <3>1, <3>2, <3>3 DEF Referenced
  <2> QED BY <2>2, <2>3
<1>7. OnlyStraysLoseFiles'
  <2> SUFFICES ASSUME NEW s \in Slots, versions[s] # Nothing
               PROVE  versions[s] \in objects /\ Accounted(versions[s])'
    BY <1>1 DEF OnlyStraysLoseFiles, HasRow, HasFile, Accounted
  <2>1. versions[s] \in Contents /\ versions[s] \in objects /\ Accounted(versions[s])
    BY DEF Inv, OnlyStraysLoseFiles, HasRow, HasFile, Accounted, TypeOK
  <2> QED BY <1>1, <1>2, <1>3, <2>1 DEF Referenced, Accounted
<1> QED BY <1>4, <1>5, <1>6, <1>7 DEF Inv

LEMMA PublisherInv ==
    ASSUME TypeOK, Inv, NEW p \in Publishers, Publisher(p)
    PROVE  Inv'
<1> USE ProcAssumption DEF Procs
<1>1. ASSUME NEW c \in Contents, Write(p, c) PROVE Inv'
  <2>1. \A d \in Contents : file[d] # Absent => file'[d] = file[d]
    BY <1>1 DEF Write, TypeOK
  <2>2. UNCHANGED <<aged, strayed, objects, versions, guard, state, entered, current>>
    BY <1>1 DEF Write, rows, collecting
  <2>3. state[p] = "idle" /\ entered[p] = {}
    BY <1>1 DEF Write, Inv, NothingEntered
  <2> QED BY <2>1, <2>2, <2>3, OthersKeep
<1>2. CASE Describe(p)
  <2>1. UNCHANGED <<file, aged, strayed, objects, versions, guard, state, entered,
                    current>>
    BY <1>2 DEF Describe, disk, rows, collecting
  <2> QED BY <2>1, OthersKeep DEF Inv, Kinds, NothingEntered, EntriesHold, Accounted
<1>3. CASE Begin(p)
  <2>1. /\ UNCHANGED <<file, aged, strayed, objects, versions, entered, current>>
        /\ state' = [state EXCEPT ![p] = "begun"]
        /\ guard = Nobody /\ guard' = p
    BY <1>3 DEF Begin, disk, rows, publishing, collecting
  <2>2. entered'[p] = {}
    BY <1>3, <2>1 DEF Begin, Prepared, Inv, NothingEntered
  <2> QED BY <2>1, <2>2, OthersKeep DEF TypeOK
<1>4. ASSUME NEW e \in Batch[p], Insert(p, e) PROVE Inv'
  <2>1. /\ UNCHANGED <<file, aged, strayed, objects, versions, guard, state, current>>
        /\ entered' = [entered EXCEPT ![p] = @ \cup {e}]
        /\ state[p] = "begun" /\ guard = p
    BY <1>4 DEF Insert, Publishing, disk, rows, collecting
  <2>2. Accounted(e.content) /\ versions[e.slot] \in {Nothing, e.content}
    BY <1>4 DEF Insert, Recheck, Accounted
  <2>3. entered'[p] = entered[p] \cup {e}
    BY <2>1 DEF TypeOK
  <2>4. \A d \in entered'[p] : /\ Accounted(d.content)'
                               /\ versions'[d.slot] \in {Nothing, d.content}
    BY <2>1, <2>2, <2>3 DEF Inv, EntriesHold, Accounted
  <2> QED BY <2>1, <2>4, OthersKeep DEF TypeOK
<1>5. ASSUME TryAgain(p), guard = p PROVE Inv'
  <2>1. /\ UNCHANGED <<file, aged, strayed, objects, versions, current>>
        /\ state' = [state EXCEPT ![p] = "idle"]
        /\ entered' = [entered EXCEPT ![p] = {}]
        /\ guard' = Nobody
    BY <1>5 DEF TryAgain, disk, rows, collecting
  <2> QED BY <1>5, <2>1, OthersKeep DEF TypeOK
<1>6. CASE Commit(p)
  BY <1>6, CommitInv
<1>7. CASE GivesUp(p)
  BY <1>7, GivesUpInv
<1> QED BY <1>1, <1>2, <1>3, <1>4, <1>5, <1>6, <1>7
        DEF Publisher, Vanished, Conflict, Stale, Refused, Publishing

LEMMA CollectorInv ==
    ASSUME TypeOK, Inv, NEW q \in Collectors, Collector(q)
    PROVE  Inv'
<1> USE ProcAssumption DEF Procs
<1>1. CASE Sweep(q)
  <2>1. /\ UNCHANGED <<file, aged, strayed, objects, versions, guard, entered, current>>
        /\ state' = [state EXCEPT ![q] = "swept"]
    BY <1>1 DEF Sweep, disk, rows, publishing
  <2> QED BY <2>1, OthersKeep DEF TypeOK, InTransaction
<1>2. CASE Examine(q)
  <2>1. PICK f \in candidates[q] : current' = [current EXCEPT ![q] = f]
    BY <1>2 DEF Examine
  <2>2. /\ UNCHANGED <<file, aged, strayed, objects, versions, entered>>
        /\ state' = [state EXCEPT ![q] = "begun"]
        /\ guard = Nobody /\ guard' = q
    BY <1>2 DEF Examine, disk, rows, publishing
  <2>3. current'[q] \in Seen
    BY <2>1 DEF TypeOK
  <2> QED BY <2>1, <2>2, <2>3, OthersKeep DEF TypeOK
<1>3. CASE Keep(q)
  BY <1>3, DoneInv DEF Keep
<1>4. CASE Doom(q)
  <2>1. /\ UNCHANGED <<file, aged, strayed, objects, versions, guard, entered, current>>
        /\ state' = [state EXCEPT ![q] = "doomed"]
        /\ guard = q /\ state[q] = "begun" /\ Garbage(current[q])
    BY <1>4 DEF Doom, disk, rows, publishing, collecting
  <2>2. current'[q] \in Seen
    BY <2>1 DEF Inv, CollectorsSee, InTransaction
  <2>3. Condemned(current[q])'
    BY <2>1 DEF Condemned, Garbage, Recheck, Old, Referenced
  <2> QED BY <2>1, <2>2, <2>3, OthersKeep DEF TypeOK
<1>5. CASE Unlink(q)
  BY <1>5, UnlinkInv
<1>6. CASE UnlinkFails(q)
  BY <1>6, GivesUpInv DEF UnlinkFails
<1>7. CASE DeleteRow(q)
  <2>1. /\ guard = q /\ Done(q) /\ UNCHANGED versions
        /\ objects' = objects \ {current[q].content}
    BY <1>7 DEF DeleteRow, Done
  <2>2. ~Referenced(current[q].content)
    BY <1>7 DEF DeleteRow, Inv, DoomedIsGarbage, HasSession
  <2> QED BY <2>1, <2>2, DoneInv DEF Referenced
<1> QED BY <1>1, <1>2, <1>3, <1>4, <1>5, <1>6, <1>7 DEF Collector

LEMMA InvStep == TypeOK /\ Inv /\ [Next]_vars => Inv'
<1> SUFFICES ASSUME TypeOK, Inv, [Next]_vars PROVE Inv'
  OBVIOUS
<1> USE ProcAssumption DEF Procs
<1>1. ASSUME NEW c \in Contents, Age(c) PROVE Inv'
  <2>1. /\ UNCHANGED <<file, strayed, objects, versions, guard, state, entered, current>>
        /\ aged \subseteq aged'
    BY <1>1 DEF Age, rows, publishing, collecting
  <2> QED BY <2>1 DEF Inv, Kinds, CollectorsSee, NothingEntered, EntriesHold, Accounted,
                      OnlyStraysLoseFiles, HasRow, HasFile, InTransaction, HasSession,
                      DoomedIsGarbage, Condemned, Garbage, Recheck, Old, Referenced
<1>2. ASSUME NEW x \in Procs, Drop(x) PROVE Inv'
  <2>1. /\ UNCHANGED <<file, aged, strayed, objects, versions, state, entered, current>>
        /\ guard = x /\ guard' = Nobody
    BY <1>2 DEF Drop, disk, rows, publishing, collecting
  <2>2. guard' # x /\ ~HasSession(x)'
    BY <2>1 DEF HasSession
  <2>3. InTransaction(x)' => InTransaction(x)
    BY <2>1 DEF InTransaction
  <2> QED BY <2>1, <2>2, <2>3, OthersKeep DEF Inv, Kinds, NothingEntered, CollectorsSee
<1>3. ASSUME NEW x \in Procs, LockTimeout(x) \/ SessionGone(x) \/ Crash(x) PROVE Inv'
  BY <1>3, GivesUpInv DEF LockTimeout, SessionGone, Crash
<1>4. CASE UNCHANGED vars
  BY <1>4 DEF vars, disk, rows, publishing, collecting, Inv, Kinds, CollectorsSee,
              NothingEntered, EntriesHold, Accounted, OnlyStraysLoseFiles, HasRow,
              HasFile, InTransaction, HasSession, DoomedIsGarbage, Condemned, Garbage,
              Recheck, Old, Referenced
<1> QED BY <1>1, <1>2, <1>3, <1>4, PublisherInv, CollectorInv DEF Next

LEMMA InvInit == Init => Inv
BY ProcAssumption DEF Init, Inv, Kinds, CollectorsSee, InTransaction, NothingEntered, EntriesHold,
   DoomedIsGarbage, OnlyStraysLoseFiles, Procs

LEMMA InvHolds == Spec => [](TypeOK /\ Inv)
<1>1. Inv => CollectorsSee
  BY DEF Inv
<1> QED BY <1>1, TypeInit, TypeStep, InvInit, InvStep, PTL DEF Spec

(* Rows, files, the guard and the processes never leave their types, for   *)
(* any publishers, batches, attempts and runs of gc.                       *)
THEOREM ArtifactTypes == Spec => []TypeOK
BY InvHolds, PTL
-----------------------------------------------------------------------------
(* Every committed version keeps its row, and its file too unless a        *)
(* collector whose session had ended took it, for any publishers,          *)
(* collectors, retries, crashes and lost sessions (publish, gc).           *)
THEOREM VersionsKeepTheirFiles == Spec => []OnlyStraysLoseFiles
<1>1. TypeOK /\ Inv => OnlyStraysLoseFiles
  BY DEF Inv
<1> QED BY <1>1, InvHolds, PTL

LEMMA UnlinkedIsGarbage ==
    ASSUME TypeOK, Inv, [Next]_vars, NEW c \in Contents, Unlinked(c)
    PROVE  /\ Referenced(c) => \E q \in Collectors : Strays(q, c)
           /\ Old(file[c]) \/ c \in strayed'
<1>1. file' # file
  BY DEF Unlinked
<1>2. \/ \E p \in Publishers, d \in Contents : Write(p, d)
      \/ \E q \in Collectors : Unlink(q)
  BY <1>1 DEF Next, Publisher, Collector, Age, Describe, Vanished, Begin, Insert, Conflict,
              Stale, TryAgain, Refused, Commit, Sweep, Examine, Keep, Doom, UnlinkFails,
              DeleteRow, Done, GivesUp, LockTimeout, Drop, SessionGone, Crash, vars, disk
<1>3. ASSUME NEW p \in Publishers, NEW d \in Contents, Write(p, d) PROVE FALSE
  <2>1. CASE UNCHANGED file
    BY <1>1, <2>1
  <2>2. CASE file[d] = Absent /\ file' = [file EXCEPT ![d] = created + 1]
    <3>1. c # d
      BY <2>2 DEF Unlinked
    <3> QED BY <2>2, <3>1 DEF Unlinked, TypeOK
  <2> QED BY <1>3, <2>1, <2>2 DEF Write
<1>4. ASSUME NEW q \in Collectors, Unlink(q)
      PROVE  /\ Referenced(c) => Strays(q, c)
             /\ Old(file[c]) \/ c \in strayed'
  <2>1. c = current[q].content /\ state[q] = "doomed" /\ state'[q] = "unlinked"
    BY <1>4 DEF Unlink, Unlinked, TypeOK, Procs
  <2>2. CASE HasSession(q)
    <3>1. Condemned(current[q]) /\ strayed' = strayed
      BY <1>4, <2>1, <2>2 DEF Unlink, Inv, DoomedIsGarbage
    <3> QED BY <2>1, <3>1 DEF Condemned, Garbage, Recheck
  <2>3. CASE ~HasSession(q)
    BY <1>4, <2>1, <2>3 DEF Unlink, Strays
  <2> QED BY <2>2, <2>3
<1> QED BY <1>2, <1>3, <1>4

(* Only garbage is unlinked: a file that a version names goes only by a    *)
(* collector without its session, and a young one only after such a loss   *)
(* (gc).                                                                   *)
THEOREM OnlyGarbageGoes == Spec => OnlyGarbageUnlinked
<1>1. TypeOK /\ Inv /\ [Next]_vars =>
        [\A c \in Contents : Unlinked(c) =>
            /\ Referenced(c) => \E q \in Collectors : Strays(q, c)
            /\ Old(file[c]) \/ c \in strayed']_vars
  BY UnlinkedIsGarbage
<1> QED BY <1>1, InvHolds, PTL DEF Spec, OnlyGarbageUnlinked
-----------------------------------------------------------------------------
LEMMA KeptIsCommitted ==
    TypeOK /\ OnlyStraysLoseFiles => Kept = versions
BY DEF TypeOK, OnlyStraysLoseFiles, HasFile, Kept, Readable

LEMMA CommitPublishes ==
    ASSUME TypeOK, Inv, NEW p \in Publishers, Commit(p), Kept' = versions'
    PROVE  Store!Publish(p)
<1>1. Kept = versions
  BY KeptIsCommitted DEF Inv
<1>2. \A e \in Batch[p] : Kept[e.slot] \in {Nothing, e.content}
  BY <1>1 DEF Commit, Inv, EntriesHold
<1>3. versions' = NewVersions(p) /\ head' = NewHeads(p)
  BY DEF Commit
<1> QED BY <1>1, <1>2, <1>3 DEF Store!Publish, NewVersions, NewHeads

LEMMA OthersStutter ==
    ASSUME TypeOK, [Next]_vars, \A p \in Publishers : ~Commit(p)
    PROVE  UNCHANGED <<versions, head>>
BY DEF Next, Publisher, Collector, Age, Write, Describe, Vanished, Begin, Insert, Conflict,
       Stale, TryAgain, Refused, Sweep, Examine, Keep, Doom, Unlink, UnlinkFails, DeleteRow,
       Done, GivesUp, LockTimeout, Drop, SessionGone, Crash, vars, rows

(* Publishing under retries, conflicts, rollbacks, crashes, lost sessions  *)
(* and gc is an atomic write of the batch to an archive that forgets       *)
(* nothing but the files that strays have taken (publish, commit).         *)
THEOREM StoreIsArchive == Spec => ImplementsArchive
<1>1. Init => Store!Init
  BY DEF Init, Store!Init, Kept, Readable
<1>2. TypeOK /\ Inv /\ [Next]_vars /\ (TypeOK /\ Inv)' => [Store!Next]_(Store!vars)
  <2> SUFFICES ASSUME TypeOK, Inv, [Next]_vars, TypeOK', Inv'
               PROVE  [Store!Next]_(Store!vars)
    OBVIOUS
  <2>1. Kept = versions
    BY KeptIsCommitted DEF Inv
  <2>2. Kept' = versions'
    <3>1. OnlyStraysLoseFiles'
      BY DEF Inv
    <3> QED BY <3>1 DEF TypeOK, OnlyStraysLoseFiles, HasFile, Kept, Readable
  <2>3. CASE \E p \in Publishers : Commit(p)
    BY <2>2, <2>3, CommitPublishes DEF Store!Next
  <2>4. CASE \A p \in Publishers : ~Commit(p)
    BY <2>1, <2>2, <2>4, OthersStutter DEF Store!vars
  <2> QED BY <2>3, <2>4
<1> QED BY <1>1, <1>2, InvHolds, PTL DEF Spec, ImplementsArchive, Store!Spec
=============================================================================
