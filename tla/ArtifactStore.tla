--------------------------- MODULE ArtifactStore ---------------------------
(***************************************************************************)
(* storage/artifacts.py: immutable files named by the hash of their        *)
(* content, the manifests in the database that name them, publication of a *)
(* batch in the caller's transaction (VideoArtifactBatch.commit,           *)
(* publish_bytes) and garbage collection.                                  *)
(*                                                                         *)
(* Files are written and checked outside of transactions; what joins the   *)
(* two is the identity of a file (inode, size and times), a fresh number   *)
(* here, and the guard, the row of workspace_guards that publish and gc    *)
(* lock.  A transaction that holds the guard may lose its session (the     *)
(* server ends one that is idle for 30 s); the process learns of it at its *)
(* next statement, the guard is free at once.  gc then goes on to unlink   *)
(* the file it had checked: strayed, a history variable, keeps whose.      *)
(*                                                                         *)
(* Content is never corrupted on disk and keys are well formed.            *)
(***************************************************************************)
EXTENDS Integers, FiniteSets

CONSTANTS
    Contents,    \* byte strings, each named by its sha256
    Slots,       \* pairs of a logical key and a source version
    Publishers,  \* processes that each publish one batch
    Batch,       \* the entries of a publisher: [slot, content]
    Collectors,  \* processes that run gc
    Droppable,   \* processes whose database session may be lost
    Nobody,      \* the guard is free
    Nothing,     \* no content, no version
    MaxAttempts, \* attempts of publish_bytes and commit, 3 in the code
    MaxFiles,    \* bound: files ever created
    MaxSweeps,   \* bound: runs of gc of one collector
    MaxFaults    \* bound: crashes and lost sessions

Procs == Publishers \cup Collectors
Keys == {s[1] : s \in Slots}
Absent == 0      \* the identity of no file
Identities == 1..MaxFiles

ASSUME ProcAssumption == /\ Publishers \cap Collectors = {}
                         /\ Nobody \notin Procs
                         /\ Nothing \notin Contents \cup Slots
ASSUME BatchAssumption ==
    /\ Batch \in [Publishers -> SUBSET [slot : Slots, content : Contents]]
    /\ \A p \in Publishers : Batch[p] # {}
    /\ \A p \in Publishers : \A e, f \in Batch[p] :
         e.slot[1] = f.slot[1] => e = f
ASSUME BoundAssumption == /\ MaxAttempts \in Nat \ {0} /\ MaxFiles \in Nat
                          /\ MaxSweeps \in Nat /\ MaxFaults \in Nat

VARIABLES
    file,      \* objects/: the identity of the file of each content
    created,   \* files created so far
    aged,      \* identities whose mtime is beyond the grace period
    strayed,   \* history: contents whose file a gc took without its session
    objects,   \* rows of artifact_objects
    versions,  \* artifact_versions: the content of each slot
    head,      \* artifact_heads: the slot of each key
    guard,     \* who holds the row of workspace_guards
    state,     \* of each process: where it is
    preparing, \* the content whose file a publisher makes, under the flock
    descriptor,\* the identities a publisher has of the contents of its batch
    entered,   \* entries inserted in its transaction
    attempt,   \* attempts a publisher has begun
    candidates,\* of a collector: the files it has seen and not dealt with
    current,   \* the content it deals with
    sweeps,    \* runs of gc it has begun
    faults     \* crashes and lost sessions so far

disk == <<file, created, aged, strayed>>
rows == <<objects, versions, head>>
publishing == <<preparing, descriptor, entered, attempt>>
collecting == <<candidates, current, sweeps>>
vars == <<disk, rows, guard, state, publishing, collecting, faults>>

ContentsOf(p) == {e.content : e \in Batch[p]}
Seen == [content : Contents, identity : Identities]

TypeOK ==
    /\ file \in [Contents -> Identities \cup {Absent}]
    /\ created \in 0..MaxFiles
    /\ aged \subseteq Identities
    /\ strayed \subseteq Contents
    /\ objects \subseteq Contents
    /\ versions \in [Slots -> Contents \cup {Nothing}]
    /\ head \in [Keys -> Slots \cup {Nothing}]
    /\ guard \in Procs \cup {Nobody}
    /\ state \in [Procs -> {"idle", "begun", "committed", "failed",
                            "swept", "doomed", "unlinked"}]
    /\ preparing \in [Publishers -> Contents \cup {Nothing}]
    /\ descriptor \in [Publishers -> [Contents -> Identities \cup {Absent}]]
    /\ entered \in [Publishers -> SUBSET [slot : Slots, content : Contents]]
    /\ attempt \in [Publishers -> 1..MaxAttempts]
    /\ candidates \in [Collectors -> SUBSET Seen]
    /\ current \in [Collectors -> Seen \cup {Nothing}]
    /\ sweeps \in [Collectors -> 0..MaxSweeps]
    /\ faults \in 0..MaxFaults

NoDescriptors == [c \in Contents |-> Absent]

Init ==
    /\ file = [c \in Contents |-> Absent]
    /\ created = 0
    /\ aged = {}
    /\ strayed = {}
    /\ objects = {}
    /\ versions = [s \in Slots |-> Nothing]
    /\ head = [k \in Keys |-> Nothing]
    /\ guard = Nobody
    /\ state = [x \in Procs |-> "idle"]
    /\ preparing = [p \in Publishers |-> Nothing]
    /\ descriptor = [p \in Publishers |-> NoDescriptors]
    /\ entered = [p \in Publishers |-> {}]
    /\ attempt = [p \in Publishers |-> 1]
    /\ candidates = [q \in Collectors |-> {}]
    /\ current = [q \in Collectors |-> Nothing]
    /\ sweeps = [q \in Collectors |-> 0]
    /\ faults = 0

(* The file system's clock: a file passes the grace period.                *)
Age(c) == /\ file[c] \notin aged \cup {Absent}
          /\ aged' = aged \cup {file[c]}
          /\ UNCHANGED <<file, created, strayed, rows, guard, state,
                         publishing, collecting, faults>>
-----------------------------------------------------------------------------
(* prepare: under the flock a missing file is written and renamed into     *)
(* place; then whatever file is there is verified and described.  gc does  *)
(* not take the flock.                                                     *)
Write(p, c) ==
    /\ state[p] = "idle"
    /\ c \in ContentsOf(p) /\ descriptor[p][c] = Absent
    /\ \A o \in Publishers : preparing[o] = Nothing
    /\ preparing' = [preparing EXCEPT ![p] = c]
    /\ \/ /\ file[c] # Absent
          /\ UNCHANGED <<file, created>>
       \/ /\ file[c] = Absent /\ created < MaxFiles
          /\ created' = created + 1
          /\ file' = [file EXCEPT ![c] = created + 1]
    /\ UNCHANGED <<aged, strayed, rows, guard, state, descriptor, entered,
                   attempt, collecting, faults>>

Describe(p) ==
    /\ preparing[p] # Nothing /\ file[preparing[p]] # Absent
    /\ descriptor' = [descriptor EXCEPT ![p][preparing[p]] = file[preparing[p]]]
    /\ preparing' = [preparing EXCEPT ![p] = Nothing]
    /\ UNCHANGED <<disk, rows, guard, state, entered, attempt, collecting,
                   faults>>

(* A publisher that ends with an error, or a collector's run that does:    *)
(* the transaction is rolled back.                                         *)
GivesUpLocked(x) ==
    /\ state' = [state EXCEPT ![x] = IF x \in Publishers THEN "failed" ELSE "idle"]
    /\ guard' = IF guard = x THEN Nobody ELSE guard
    /\ entered' = [p \in Publishers |-> IF p = x THEN {} ELSE entered[p]]
    /\ candidates' = [q \in Collectors |-> IF q = x THEN {} ELSE candidates[q]]
    /\ current' = [q \in Collectors |-> IF q = x THEN Nothing ELSE current[q]]
    /\ UNCHANGED <<disk, rows, preparing, descriptor, attempt, sweeps>>
GivesUp(x) ==
    /\ state' = [state EXCEPT ![x] = IF x \in Publishers THEN "failed" ELSE "idle"]
    /\ guard' = IF guard = x THEN Nobody ELSE guard
    /\ preparing' = [p \in Publishers |-> IF p = x THEN Nothing ELSE preparing[p]]
    /\ entered' = [p \in Publishers |-> IF p = x THEN {} ELSE entered[p]]
    /\ candidates' = [q \in Collectors |-> IF q = x THEN {} ELSE candidates[q]]
    /\ current' = [q \in Collectors |-> IF q = x THEN Nothing ELSE current[q]]
    /\ UNCHANGED <<disk, rows, descriptor, attempt, sweeps>>

(* The file was unlinked since it was seen: prepare raises.  The loops of  *)
(* publish_bytes and commit call it outside of their try.                  *)
Vanished(p) ==
    /\ preparing[p] # Nothing /\ file[preparing[p]] = Absent
    /\ GivesUp(p)
    /\ UNCHANGED faults
-----------------------------------------------------------------------------
(* The transaction of publish_bytes and VideoArtifactBatch.commit.         *)
Prepared(p) == /\ state[p] = "idle"
               /\ \A c \in ContentsOf(p) : descriptor[p][c] # Absent

Begin(p) == /\ Prepared(p) /\ guard = Nobody
            /\ guard' = p
            /\ state' = [state EXCEPT ![p] = "begun"]
            /\ UNCHANGED <<disk, rows, publishing, collecting, faults>>

(* lock_timeout: the guard is not free within three seconds.               *)
LockTimeout(x) == /\ guard \notin {Nobody, x}
                  /\ \/ x \in Publishers /\ Prepared(x)
                     \/ state[x] = "swept"
                  /\ GivesUp(x)
                  /\ UNCHANGED faults

Publishing(p, e) == /\ state[p] = "begun" /\ guard = p
                    /\ e \in Batch[p] \ entered[p]

(* _recheck: the file at the key's path is still the one described.        *)
RecheckByName(c, identity) == identity # Absent
Recheck(c, identity) == identity # Absent /\ file[c] = identity

InsertOver(p, e) == /\ Publishing(p, e)
                    /\ Recheck(e.content, descriptor[p][e.content])
                    /\ entered' = [entered EXCEPT ![p] = @ \cup {e}]
                    /\ UNCHANGED <<disk, rows, guard, state, preparing,
                                   descriptor, attempt, collecting, faults>>
Insert(p, e) == /\ Publishing(p, e)
                /\ Recheck(e.content, descriptor[p][e.content])
                /\ versions[e.slot] \in {Nothing, e.content}
                /\ entered' = [entered EXCEPT ![p] = @ \cup {e}]
                /\ UNCHANGED <<disk, rows, guard, state, preparing,
                               descriptor, attempt, collecting, faults>>

(* artifact_version_conflict.                                              *)
Conflict(p, e) == /\ Publishing(p, e)
                  /\ Recheck(e.content, descriptor[p][e.content])
                  /\ versions[e.slot] \notin {Nothing, e.content}
                  /\ GivesUp(p)
                  /\ UNCHANGED faults

(* artifact_prepare_stale: everything is rolled back and, unless this was  *)
(* the last attempt, the retained bytes are prepared again.                *)
TryAgain(p) ==
    /\ attempt[p] < MaxAttempts
    /\ attempt' = [attempt EXCEPT ![p] = @ + 1]
    /\ state' = [state EXCEPT ![p] = "idle"]
    /\ guard' = Nobody
    /\ descriptor' = [descriptor EXCEPT ![p] = NoDescriptors]
    /\ entered' = [entered EXCEPT ![p] = {}]
    /\ UNCHANGED <<disk, rows, preparing, collecting>>

Stale(p, e) ==
    /\ Publishing(p, e)
    /\ ~Recheck(e.content, descriptor[p][e.content])
    /\ TryAgain(p) \/ (attempt[p] = MaxAttempts /\ GivesUp(p))
    /\ UNCHANGED faults

(* validate or writer refuses: the business rows have moved on.            *)
Refused(p) == /\ state[p] = "begun" /\ guard = p
              /\ entered[p] \in {{}, Batch[p]}
              /\ GivesUp(p)
              /\ UNCHANGED faults

NewVersions(p) == [s \in Slots |-> IF \E e \in Batch[p] : e.slot = s
                                   THEN (CHOOSE e \in Batch[p] : e.slot = s).content
                                   ELSE versions[s]]
NewHeads(p) == [k \in Keys |-> IF \E e \in Batch[p] : e.slot[1] = k
                               THEN (CHOOSE e \in Batch[p] : e.slot[1] = k).slot
                               ELSE head[k]]

Commit(p) == /\ state[p] = "begun" /\ guard = p
             /\ entered[p] = Batch[p]
             /\ objects' = objects \cup ContentsOf(p)
             /\ versions' = NewVersions(p)
             /\ head' = NewHeads(p)
             /\ guard' = Nobody
             /\ state' = [state EXCEPT ![p] = "committed"]
             /\ UNCHANGED <<disk, publishing, collecting, faults>>
-----------------------------------------------------------------------------
(* gc, not a dry run: the files are listed outside of any transaction,     *)
(* then each candidate is dealt with in one of its own.                    *)
Files == {[content |-> c, identity |-> file[c]] :
            c \in {d \in Contents : file[d] # Absent}}

Sweep(q) == /\ state[q] = "idle" /\ sweeps[q] < MaxSweeps
            /\ Files # {}
            /\ sweeps' = [sweeps EXCEPT ![q] = @ + 1]
            /\ candidates' = [candidates EXCEPT ![q] = Files]
            /\ state' = [state EXCEPT ![q] = "swept"]
            /\ UNCHANGED <<disk, rows, guard, publishing, current, faults>>

Examine(q) == /\ state[q] = "swept" /\ guard = Nobody
              /\ \E f \in candidates[q] :
                   /\ current' = [current EXCEPT ![q] = f]
                   /\ candidates' = [candidates EXCEPT ![q] = @ \ {f}]
              /\ guard' = q
              /\ state' = [state EXCEPT ![q] = "begun"]
              /\ UNCHANGED <<disk, rows, publishing, sweeps, faults>>

Referenced(c) == \E s \in Slots : versions[s] = c
Old(identity) == identity \in aged
GarbageByName(f) == /\ file[f.content] # Absent
                    /\ Old(f.identity)
                    /\ ~Referenced(f.content)
Garbage(f) == /\ Recheck(f.content, f.identity)
              /\ Old(f.identity)
              /\ ~Referenced(f.content)

(* The transaction of a candidate commits.                                 *)
Done(q) == /\ guard' = Nobody
           /\ current' = [current EXCEPT ![q] = Nothing]
           /\ state' = [state EXCEPT ![q] =
                          IF candidates[q] = {} THEN "idle" ELSE "swept"]
           /\ UNCHANGED <<disk, versions, head, publishing, candidates, sweeps,
                          faults>>

(* changed_or_missing, young or referenced.                                *)
Keep(q) == /\ state[q] = "begun" /\ q \in Collectors /\ guard = q
           /\ ~Garbage(current[q])
           /\ Done(q)
           /\ UNCHANGED objects

Doom(q) == /\ state[q] = "begun" /\ q \in Collectors /\ guard = q
           /\ Garbage(current[q])
           /\ state' = [state EXCEPT ![q] = "doomed"]
           /\ UNCHANGED <<disk, rows, guard, publishing, collecting, faults>>

(* Needs no database: it happens whether or not the session still lives.   *)
HasSession(q) == guard = q
Unlink(q) ==
    /\ state[q] = "doomed" /\ file[current[q].content] # Absent
    /\ file' = [file EXCEPT ![current[q].content] = Absent]
    /\ state' = [state EXCEPT ![q] = "unlinked"]
    /\ strayed' = IF HasSession(q) THEN strayed
                  ELSE strayed \cup {current[q].content}
    /\ UNCHANGED <<created, aged, rows, guard, publishing, collecting, faults>>

UnlinkFails(q) == /\ state[q] = "doomed" /\ file[current[q].content] = Absent
                  /\ GivesUp(q)
                  /\ UNCHANGED faults

DeleteRow(q) == /\ state[q] = "unlinked" /\ guard = q
                /\ objects' = objects \ {current[q].content}
                /\ Done(q)
-----------------------------------------------------------------------------
InTransaction(x) == state[x] \in {"begun", "doomed", "unlinked"}

Drop(x) == /\ x \in Droppable /\ guard = x
           /\ faults < MaxFaults /\ faults' = faults + 1
           /\ guard' = Nobody
           /\ UNCHANGED <<disk, rows, state, publishing, collecting>>

(* The next statement after the session was lost fails.                    *)
SessionGone(x) == /\ state[x] \in {"begun", "unlinked"} /\ guard # x
                  /\ GivesUp(x)
                  /\ UNCHANGED faults

(* The process dies: its session and its flock go with it.                 *)
Crash(x) == /\ faults < MaxFaults /\ faults' = faults + 1
            /\ \/ x \in Publishers /\ state[x] \in {"idle", "begun"}
               \/ x \in Collectors /\ state[x] # "idle"
            /\ GivesUp(x)

Publisher(p) ==
    \/ \E c \in Contents : Write(p, c)
    \/ Describe(p) \/ Vanished(p)
    \/ Begin(p)
    \/ \E e \in Batch[p] : Insert(p, e) \/ Conflict(p, e) \/ Stale(p, e)
    \/ Refused(p) \/ Commit(p)
Collector(q) ==
    \/ Sweep(q) \/ Examine(q)
    \/ Keep(q) \/ Doom(q)
    \/ Unlink(q) \/ UnlinkFails(q) \/ DeleteRow(q)

Next ==
    \/ \E c \in Contents : Age(c)
    \/ \E p \in Publishers : Publisher(p)
    \/ \E q \in Collectors : Collector(q)
    \/ \E x \in Procs : LockTimeout(x) \/ Drop(x) \/ SessionGone(x) \/ Crash(x)

Spec == Init /\ [][Next]_vars

(* Each process goes on while it lives; files do not all have to age.      *)
Fairness ==
    /\ \A p \in Publishers : SF_vars(Publisher(p)) /\ WF_vars(SessionGone(p))
    /\ \A q \in Collectors :
         WF_vars(Keep(q) \/ Doom(q) \/ Unlink(q) \/ UnlinkFails(q)
                 \/ DeleteRow(q) \/ SessionGone(q))
FairSpec == Spec /\ Fairness
-----------------------------------------------------------------------------
(* "Every historical manifest retains its object" (gc): no committed       *)
(* version is without its row and its file, whatever publishers,           *)
(* collectors, crashes and lost sessions do between preparing a file and   *)
(* the commit of the manifest that names it.  It does not hold: a session  *)
(* that ends while gc is about to unlink leaves the guard to a publisher.  *)
HasRow(s) == versions[s] \in objects
HasFile(s) == file[versions[s]] # Absent
NoDangling == \A s \in Slots : versions[s] # Nothing => HasRow(s) /\ HasFile(s)

(* What does: that is the only way to lose a file.  The row stays, so the  *)
(* loss shows, and whatever gc takes under the guard was nobody's.         *)
OnlyStraysLoseFiles ==
    \A s \in Slots : versions[s] # Nothing =>
        HasRow(s) /\ (HasFile(s) \/ versions[s] \in strayed)

(* gc unlinks a file only if it is past the grace period and unreferenced  *)
(* now: not the young file that was prepared in the place of the one gc    *)
(* had listed (the _recheck of gc).  Without its session it may take any   *)
(* file of its content, and what another gc had checked with its own.      *)
Unlinked(c) == file[c] # Absent /\ file'[c] = Absent
Strays(q, c) == /\ state[q] = "doomed" /\ ~HasSession(q)
                /\ current[q].content = c /\ state'[q] = "unlinked"
OnlyGarbageUnlinked ==
    [][\A c \in Contents : Unlinked(c) =>
          /\ Referenced(c) => \E q \in Collectors : Strays(q, c)
          /\ Old(file[c]) \/ c \in strayed']_vars

(* Batches become readable whole, once and for good, and heads move with   *)
(* them: publish under retries, conflicts, rollbacks and gc is an atomic   *)
(* write to an archive that forgets nothing but what strays have taken.    *)
Readable == [s \in Slots |-> IF versions[s] # Nothing /\ file[versions[s]] # Absent
                             THEN versions[s] ELSE Nothing]
Kept == [s \in Slots |-> IF versions[s] \in strayed THEN versions[s]
                                                    ELSE Readable[s]]
Store == INSTANCE Archive WITH readable <- Kept
ImplementsArchive == Store!Spec

(* Every publisher comes to an end although gc may take its files away     *)
(* again and again: publish_bytes and commit make three attempts, and an   *)
(* error or a crash leaves neither the flock nor the guard behind.         *)
EveryPublisherEnds ==
    \A p \in Publishers : <>(state[p] \in {"committed", "failed"})
=============================================================================
