----------------------------- MODULE WikiPages -----------------------------
(* The pages of the wiki and what becomes of their blocks: manual edits,   *)
(* logical deletion, discussions that are saved, source material that is   *)
(* published directly or by way of a proposal, merges and their undoing,   *)
(* and the return to an earlier version (assistant/wiki.py).  Every        *)
(* command is one transaction that checks the version it was issued for,   *)
(* so a command issued for an older version is a step that changes nothing *)
(* and is left out, as are the receipts that make a repeated command one.  *)
(* All sourced blocks rest on one video; what depends on a memory, on the  *)
(* scope of the space or on an equivalent snapshot is not modelled.        *)
EXTENDS Integers, Sequences, FiniteSets

CONSTANTS
    Pages,        \* titles of one space: a page is found by its title
    NoPage,       \* no redirect
    Headings,     \* headings of blocks
    NoteHeading,  \* the heading of every personal note
    Texts,        \* contents of blocks
    Revisions,    \* snapshot revisions of the video; a revision may come back
    MaxSteps      \* commands that change a page, an abstraction bound

ASSUME WikiAssumption ==
    /\ NoPage \notin Pages
    /\ Pages \cap Nat = {}
    /\ NoteHeading \in Headings
    /\ 0 \notin Revisions
    /\ MaxSteps \in Nat

VARIABLES
    status,  \* Pages -> absent, active, archived or merged
    into,    \* the redirect of a merged page
    past,    \* the recorded changes of a page; the last one is its present
    offers,  \* source patches held for review
    held,    \* merges held for a decision on a manual conflict
    cur,     \* the revision the head of the video names
    steps    \* commands so far; also what tells generated identities apart

vars == <<status, into, past, offers, held, cur, steps>>

(* An identity is random (the number of the command), generated (the title *)
(* and the revision, with the text where that must tell it apart), or made *)
(* by a merge from another one (a copy's begins with the number of the     *)
(* command, a tombstone's alias with its page, twice).                     *)
Ids == Seq(Pages \cup Nat \cup Revisions \cup Headings \cup Texts)
NoId == <<>>

(* by: card (from a source card), source, analysis or personal; basis: the *)
(* revision its source_refs name, 0 for none; backed: its dependency rows  *)
(* are there; was: deleted_stable_id; life: lifecycle_version.             *)
Block == [id : Ids \ {NoId}, was : Ids, head : Headings, text : Texts,
          by : {"card", "source", "analysis", "personal"},
          basis : Revisions \cup {0}, backed : BOOLEAN,
          lock : BOOLEAN, lockBefore : BOOLEAN,
          gone : BOOLEAN, released : BOOLEAN, life : Nat]

Offer == [page : Pages, version : Nat, kind : {"add", "revise"}, target : Ids,
          head : Headings, text : Texts, rev : Revisions,
          status : {"pending", "accepted", "rejected", "stale"}]

Held == [from : Pages, to : Pages, fromVersion : Nat, toVersion : Nat,
         over : SUBSET Ids, status : {"pending", "accepted", "rejected", "stale"}]

Change == [op : {"saved", "edit", "note", "delete", "restore", "archive", "reopen",
                 "published", "merged", "reverted", "merge_undone"},
           blocks : SUBSET Block, sources : SUBSET Pages]

TypeOK ==
    /\ status \in [Pages -> {"absent", "active", "archived", "merged"}]
    /\ into \in [Pages -> Pages \cup {NoPage}]
    /\ past \in [Pages -> Seq(Change)]
    /\ \A p \in Pages : status[p] = "absent" <=> past[p] = <<>>
    /\ offers \subseteq Offer
    /\ held \subseteq Held
    /\ cur \in Revisions
    /\ steps \in 0..MaxSteps

Version(p) == Len(past[p])
Blocks(p) == IF past[p] = <<>> THEN {} ELSE past[p][Version(p)].blocks
Redirected(p) == {q \in Pages : into[q] = p}

(* What a reader sees: live blocks whose sources, if any, are current. *)
Supported(b) == b.basis = 0 \/ (b.backed /\ b.basis = cur)
Visible(p) == {b \in Blocks(p) : ~b.gone /\ Supported(b)}

Tombs(bs) == {b \in bs : b.gone /\ ~b.released}
Names(b) == {b.id, b.was} \ {NoId}
Alike(a, b) == a.head = b.head /\ a.text = b.text

(* wiki_deleted_content_conflict: what was deleted comes back by name or text. *)
Barred(bs, incoming) ==
    \E t \in Tombs(bs), b \in incoming : b.id \in Names(t) \/ Alike(b, t)
Buried(bs, id) == \E t \in Tombs(bs) : id \in Names(t)

NewBlock(id, head, text, by, basis) ==
    [id |-> id, was |-> NoId, head |-> head, text |-> text, by |-> by,
     basis |-> basis, backed |-> basis # 0, lock |-> by = "personal",
     lockBefore |-> FALSE, gone |-> FALSE, released |-> FALSE, life |-> 0]

(* The record of a change: a command counts, its version follows the last  *)
(* one, and the state it leaves is kept for a later return to it.          *)
Recorded(op, bs, sources) == [op |-> op, blocks |-> bs, sources |-> sources]
Write(p, op, bs) ==
    /\ steps < MaxSteps
    /\ steps' = steps + 1
    /\ past' = [past EXCEPT ![p] = Append(@, Recorded(op, bs, Redirected(p)))]

DecideOnly(kept, s, ps) ==
    offers' = {[o EXCEPT !.status = IF o \in kept THEN s ELSE @] : o \in offers}
(* A change of the pages ps makes their pending patches stale, all but the *)
(* ones being decided, which get the status s.                             *)
Decide(kept, s, ps) ==
    offers' = {[o EXCEPT !.status =
                  IF o \in kept THEN s
                  ELSE IF @ = "pending" /\ o.page \in ps THEN "stale" ELSE @] :
               o \in offers}
Expire(ps) == Decide({}, "stale", ps)

-----------------------------------------------------------------------------
(* The commands of the owner on one page.  An edit is refused for what is  *)
(* deleted; it locks the block.                                            *)
Edit(p, b, text) ==
    /\ status[p] = "active"
    /\ ~Buried(Blocks(p), b.id)
    /\ Write(p, "edit",
             (Blocks(p) \ {b}) \cup {[b EXCEPT !.text = text, !.lock = TRUE]})
    /\ Expire({p})
    /\ UNCHANGED <<status, into, held, cur>>

Delete(p, b) ==
    /\ status[p] = "active"
    /\ ~b.gone
    /\ Write(p, "delete",
             (Blocks(p) \ {b}) \cup
             {[b EXCEPT !.gone = TRUE, !.lock = TRUE, !.lockBefore = b.lock,
                        !.released = FALSE, !.life = Version(p) + 1]})
    /\ Expire({p})
    /\ UNCHANGED <<status, into, held, cur>>

(* An identity names the first block that has it: a live one comes first.  *)
Restore(p, b) ==
    /\ status[p] = "active"
    /\ \A c \in Blocks(p) : c.id = b.id => c.gone
    /\ Write(p, "restore",
             (Blocks(p) \ {b}) \cup
             {[b EXCEPT !.gone = FALSE, !.lock = b.lockBefore,
                        !.released = TRUE, !.life = Version(p) + 1]})
    /\ Expire({p})
    /\ UNCHANGED <<status, into, held, cur>>

Archive(p) ==
    /\ status[p] = "active"
    /\ status' = [status EXCEPT ![p] = "archived"]
    /\ Write(p, "archive", Blocks(p))
    /\ Expire({p})
    /\ UNCHANGED <<into, held, cur>>

Reopen(p) ==
    /\ status[p] = "archived"
    /\ status' = [status EXCEPT ![p] = "active"]
    /\ Write(p, "reopen", Blocks(p))
    /\ Expire({p})
    /\ UNCHANGED <<into, held, cur>>

Note(p, text) ==
    /\ status[p] = "active"
    /\ Write(p, "note",
             Blocks(p) \cup {NewBlock(<<steps>>, NoteHeading, text, "personal", 0)})
    /\ Expire({p})
    /\ UNCHANGED <<status, into, held, cur>>

-----------------------------------------------------------------------------
(* A discussion is saved: deletions of the same text are released, and a   *)
(* save that follows a plan replaces the one unlocked block of its heading *)
(* (a locked one is kept, and a second copy of it not added; quoted: they  *)
(* agree in the quote, its message and their applicability, too).          *)
Released(bs, new, version) ==
    {IF b.gone /\ Alike(b, new) THEN [b EXCEPT !.released = TRUE, !.life = version]
                                ELSE b : b \in bs}
Assessment(b) == IF b.by = "card" THEN "source" ELSE b.by

SavedBlocks(bs, new, planned, quoted) ==
    LET matches == IF planned THEN {b \in bs : ~b.gone /\ b.head = new.head} ELSE {}
        same    == {b \in matches : b.lock /\ quoted /\ b.text = new.text
                                    /\ Assessment(b) = Assessment(new)}
    IN  (bs \ {b \in matches : ~b.lock}) \cup (IF same = {} THEN {new} ELSE {})

Save(p, head, text, by, planned, quoted) ==
    LET new == NewBlock(<<steps>>, head, text, by, IF by = "source" THEN cur ELSE 0)
    IN  /\ status[p] \in {"absent", "active"}
        /\ planned => Cardinality({b \in Blocks(p) : ~b.gone /\ b.head = head}) <= 1
        /\ status' = [status EXCEPT ![p] = "active"]
        /\ Write(p, "saved",
                 SavedBlocks(Released(Blocks(p), new, Version(p) + 1), new, planned,
                             quoted))
        /\ Expire({p})
        /\ UNCHANGED <<into, held, cur>>

-----------------------------------------------------------------------------
(* Source material.  A page that shows the current revision in full is     *)
(* left alone; a local patch adds or revises one block, a whole-page patch *)
(* replaces what rests on an older revision, and what a saved discussion   *)
(* says of this one, or all that is derived.                               *)
Processed(p) ==
    /\ Visible(p) = Blocks(p)
    /\ \E b \in Blocks(p) : b.by = "card" /\ b.basis = cur

ReplacedLocked(bs, kind, target) ==
    {b \in bs : ~b.gone /\ ((kind = "revise" /\ b.id = target) \/ kind = "renew")}
Replaced(bs, kind, target) ==
    {b \in bs : ~b.lock /\ ~b.gone
                /\ \/ kind = "revise" /\ b.id = target
                   \/ kind = "renew"
                   \/ kind = "refresh" /\ b.backed /\ b.basis # cur
                   \/ kind = "refresh" /\ b.basis = cur /\ b.by # "card"}

(* The generated identity says nothing of the text, so it gets one of its  *)
(* own when the block that had it is deleted.                              *)
Generated(p, bs, head, text) ==
    LET id == <<p, cur>>
    IN  NewBlock(IF \E t \in Tombs(bs) : t.id = id THEN id \o <<head, text>> ELSE id,
                 head, text, "card", cur)

PublishedAgain(bs, new, out) == (bs \ out) \cup {new}
(* The block is added unless its identity is on the page; the dependency   *)
(* rows of that identity are written in either case.                       *)
PublishedBlocks(bs, new, out) ==
    {[b EXCEPT !.backed = @ \/ b.id = new.id] : b \in bs \ out}
    \cup (IF \E b \in bs \ out : b.id = new.id THEN {} ELSE {new})

Publishable(p, kind, target, new) ==
    /\ status[p] = "active"
    /\ ~Buried(Blocks(p), target)
    /\ kind = "revise" => \E b \in Blocks(p) : b.id = target /\ ~b.lock
    /\ ~Barred(Blocks(p), {new})

Publish(p, kind, target, head, text) ==
    LET bs  == Blocks(p)
        new == Generated(p, bs, head, text)
    IN  /\ IF status[p] = "absent" THEN kind = "renew"
                                   ELSE Publishable(p, kind, target, new)
        /\ kind # "revise" => target = NoId
        /\ ~Processed(p)
        /\ status' = [status EXCEPT ![p] = "active"]
        /\ Write(p, "published", PublishedBlocks(bs, new, Replaced(bs, kind, target)))
        /\ Expire({p})
        /\ UNCHANGED <<into, held, cur>>

(* Without the owner's authority a local patch is held for review.  It     *)
(* names the version it is about; a revision must be of a block that shows *)
(* and is not locked.  The same patch is proposed once, whatever became    *)
(* of it, and a new one takes the place of a pending one.                  *)
Reviewable(o) ==
    /\ status[o.page] = "active"
    /\ Version(o.page) = o.version
    /\ o.rev = cur
    /\ ~Buried(Blocks(o.page), o.target)
    /\ \A t \in Tombs(Blocks(o.page)) : ~Alike(o, t)
    /\ o.kind = "revise" => \E b \in Visible(o.page) : b.id = o.target /\ ~b.lock

Propose(p, kind, target, head, text) ==
    LET o == [page |-> p, version |-> Version(p), kind |-> kind, target |-> target,
              head |-> head, text |-> text, rev |-> cur, status |-> "pending"]
    IN  /\ kind = "add" => target = NoId
        /\ Reviewable(o)
        /\ ~Processed(p)
        /\ \A x \in offers : [x EXCEPT !.status = "pending"] # o
        /\ offers' = {IF x.page = p /\ x.status = "pending"
                      THEN [x EXCEPT !.status = "stale"] ELSE x : x \in offers} \cup {o}
        /\ UNCHANGED <<status, into, past, held, cur, steps>>

Accept(o) ==
    LET bs  == Blocks(o.page)
        new == Generated(o.page, bs, o.head, o.text)
    IN  /\ o.status = "pending"
        /\ Reviewable(o)
        /\ Publishable(o.page, o.kind, o.target, new)
        /\ Write(o.page, "published",
                 PublishedBlocks(bs, new, Replaced(bs, o.kind, o.target)))
        /\ Decide({o}, "accepted", {o.page})
        /\ UNCHANGED <<status, into, held, cur>>

Refuse(o) ==
    /\ o.status = "pending"
    /\ \/ Decide({o}, "rejected", {})
       \/ ~Reviewable(o) /\ Decide({o}, "stale", {})
    /\ UNCHANGED <<status, into, past, held, cur, steps>>

-----------------------------------------------------------------------------
(* A merge copies what a page shows into another one and redirects to it.  *)
(* Locked blocks of one heading that disagree hold it for a decision; of   *)
(* several locked blocks of the target under a heading the last counts,    *)
(* and which one that is the model leaves open.                            *)
Locked(p) == {b \in Visible(p) : b.lock}
LastLocked(p) ==
    {f \in [{b.head : b \in Locked(p)} -> Locked(p)] : \A h \in DOMAIN f : f[h].head = h}
Clashes(q, last) ==
    {b.id : b \in {c \in Locked(q) : /\ c.head \in DOMAIN last
                                    /\ c.text # last[c.head].text}}

(* Every tombstone goes along, under an alias when its identity is taken   *)
(* there, and without its dependency rows.                                 *)
Carried(q, p) ==
    {IF \E b \in Blocks(p) : b.id = t.id
     THEN [t EXCEPT !.id = <<q, q>> \o t.id, !.was = t.id,
                    !.life = Version(p) + 1, !.backed = FALSE]
     ELSE [t EXCEPT !.life = Version(p) + 1, !.backed = FALSE] :
     t \in {b \in Blocks(q) : b.gone}}

CopiedWithoutRows(q, there) == {[b EXCEPT !.backed = FALSE] : b \in Visible(q)}
(* A block that is there already, deleted or not, only gets its dependency *)
(* rows; one whose identity is taken gets another one.                     *)
SameThere(e, b) == /\ e.id = b.id /\ Alike(e, b)
                   /\ e.basis = b.basis /\ Assessment(e) = Assessment(b)
Copied(q, there) ==
    {IF \E e \in there : e.id = b.id THEN [b EXCEPT !.id = <<steps>> \o b.id] ELSE b :
     b \in {c \in Visible(q) : \A e \in there : ~SameThere(e, c)}}
MergedBlocks(q, p) ==
    LET there == Blocks(p) \cup Carried(q, p)
    IN  {[e EXCEPT !.backed = @ \/ \E b \in Visible(q) : SameThere(e, b) /\ b.backed] :
         e \in there} \cup Copied(q, there)

MergeableAnywhere(q, p) == q # p /\ status[q] = "active" /\ Visible(q) # {}
Mergeable(q, p) ==
    /\ q # p
    /\ status[q] = "active"
    /\ status[p] = "active"
    /\ Visible(q) # {}
    /\ ~Barred(Blocks(p), Visible(q))

DoMerge(q, p) ==
    /\ Mergeable(q, p)
    /\ steps < MaxSteps
    /\ steps' = steps + 1
    /\ status' = [status EXCEPT ![q] = "merged"]
    /\ into' = [into EXCEPT ![q] = p]
    /\ past' = [past EXCEPT
                  ![p] = Append(@, Recorded("merged", MergedBlocks(q, p), Redirected(p) \cup {q})),
                  ![q] = Append(@, Recorded("merged", Blocks(q), Redirected(q)))]
    /\ Expire({p, q})
    /\ UNCHANGED cur

Merge(q, p) ==
    /\ \E last \in LastLocked(p) : Clashes(q, last) = {}
    /\ DoMerge(q, p)
    /\ UNCHANGED held

(* The same conflict at the same versions is held once, even if rejected.  *)
Hold(q, p) ==
    /\ q # p
    /\ status[q] = "active"
    /\ status[p] = "active"
    /\ \E last \in LastLocked(p) :
          LET h == [from |-> q, to |-> p, fromVersion |-> Version(q), toVersion |-> Version(p),
                    over |-> Clashes(q, last), status |-> "pending"]
          IN  /\ h.over # {}
              /\ \A x \in held : [x EXCEPT !.status = "pending"] # h
              /\ held' = held \cup {h}
    /\ UNCHANGED <<status, into, past, offers, cur, steps>>

(* A held merge is listed while the pages are at its versions and a block  *)
(* of the conflict still shows beside a locked one of its heading.         *)
Listed(h) ==
    /\ status[h.from] = "active" /\ Version(h.from) = h.fromVersion
    /\ status[h.to] = "active" /\ Version(h.to) = h.toVersion
    /\ \E b \in Visible(h.from), t \in Locked(h.to) : b.id \in h.over /\ t.head = b.head
DecideHeld(h, s) == held' = (held \ {h}) \cup {[h EXCEPT !.status = s]}

AcceptHeld(h) ==
    /\ h.status = "pending"
    /\ Listed(h)
    /\ DoMerge(h.from, h.to)
    /\ DecideHeld(h, "accepted")

RefuseHeld(h) ==
    /\ h.status = "pending"
    /\ DecideHeld(h, IF Listed(h) THEN "rejected" ELSE "stale")
    /\ UNCHANGED <<status, into, past, offers, cur, steps>>

-----------------------------------------------------------------------------
(* The return of a page to its version v.  Only commands of the owner on   *)
(* blocks may follow the change that is undone.  What they locked, and     *)
(* every block whose deletion was decided after v, stays as it is now; an  *)
(* edit is recorded with the text it leaves, so it does not count among    *)
(* them.  A sourced block returns only if its revision is the current one. *)
(* Of several blocks of v with one identity the last returns, and which    *)
(* one that is the model leaves open.                                      *)
OwnersLater == {"edit", "note", "delete", "restore"}
LockedLater(p, v) ==
    UNION {{b.id : b \in {c \in past[p][w].blocks \ past[p][w - 1].blocks : c.lock}} :
           w \in {x \in (v + 2)..Version(p) : past[p][x].op # "edit"}}
Independent(p, v) ==
    LockedLater(p, v) \cup {b.id : b \in {c \in Blocks(p) : c.life > v}}
OnePerId(bs) ==
    {S \in SUBSET bs : \A b \in bs : \E c \in S : \A d \in S : d.id = b.id <=> d = c}
RevertedBlocks(p, v, target) ==
    LET kept == Independent(p, v)
    IN  {b \in {c \in target : c.id \notin kept}
             \cup {c \in Blocks(p) : c.id \in kept} : b.gone \/ Supported(b)}

(* Pages merged into p after v come back, without what p has deleted; what *)
(* several deletions cover forgets on the way that it was not locked.      *)
Covers(t, b) == b.id \in Names(t) \/ Alike(b, t)
CoveredTwice(p, b) ==
    \E t, u \in Tombs(Blocks(p)) : t # u /\ Covers(t, b) /\ Covers(u, b)
Removed(b, wasLocked, version) ==
    [b EXCEPT !.gone = TRUE, !.lock = TRUE, !.released = FALSE,
              !.lockBefore = wasLocked, !.life = version]
RestoredSource(q, p) ==
    {IF \E t \in Tombs(Blocks(p)) : Covers(t, b)
     THEN Removed(b, b.lock \/ CoveredTwice(p, b), Version(q) + 1) ELSE b : b \in Blocks(q)}

Revert(p, v) ==
    LET back == Redirected(p) \ past[p][v].sources
    IN  /\ status[p] = "active"
        /\ v < Version(p)
        /\ \A w \in (v + 2)..Version(p) : past[p][w].op \in OwnersLater
        /\ \A q \in back : status[q] = "merged" /\ past[q][Version(q)].op = "merged"
        /\ steps < MaxSteps
        /\ steps' = steps + 1
        /\ status' = [q \in Pages |-> IF q \in back THEN "active" ELSE status[q]]
        /\ into' = [q \in Pages |-> IF q \in back THEN NoPage ELSE into[q]]
        /\ \E target \in OnePerId(past[p][v].blocks) :
             past' = [q \in Pages |->
               IF q = p THEN Append(past[p], Recorded("reverted", RevertedBlocks(p, v, target),
                                                      Redirected(p) \ back))
               ELSE IF q \in back
               THEN Append(past[q], Recorded("merge_undone", RestoredSource(q, p), Redirected(q)))
               ELSE past[q]]
        /\ Expire({p} \cup back)
        /\ UNCHANGED <<held, cur>>

(* The video is captured with other contents; a former revision may return. *)
SourceMoves ==
    /\ cur' \in Revisions \ {cur}
    /\ UNCHANGED <<status, into, past, offers, held, steps>>

-----------------------------------------------------------------------------
Init ==
    /\ status = [p \in Pages |-> "absent"]
    /\ into = [p \in Pages |-> NoPage]
    /\ past = [p \in Pages |-> <<>>]
    /\ offers = {}
    /\ held = {}
    /\ cur \in Revisions
    /\ steps = 0

BlockCommand(p) ==
    \/ \E b \in Blocks(p) : Delete(p, b) \/ Restore(p, b) \/ \E t \in Texts : Edit(p, b, t)
    \/ \E t \in Texts : Note(p, t)

Saving(p) ==
    \E h \in Headings, t \in Texts, by \in {"source", "analysis", "personal"},
       planned \in BOOLEAN, quoted \in BOOLEAN :
           Save(p, h, t, by, planned, quoted)

Compiling(p) ==
    \E target \in {NoId} \cup {b.id : b \in Blocks(p)}, h \in Headings, t \in Texts :
        \/ \E kind \in {"add", "revise", "renew", "refresh"} : Publish(p, kind, target, h, t)
        \/ \E kind \in {"add", "revise"} : Propose(p, kind, target, h, t)

Next ==
    \/ \E p \in Pages : \/ BlockCommand(p) \/ Saving(p) \/ Compiling(p)
                       \/ Archive(p) \/ Reopen(p)
                       \/ \E v \in 1..Version(p) : Revert(p, v)
                       \/ \E q \in Pages : Merge(q, p) \/ Hold(q, p)
    \/ \E o \in offers : Accept(o) \/ Refuse(o)
    \/ \E h \in held : AcceptHeld(h) \/ RefuseHeld(h)
    \/ SourceMoves

Spec == Init /\ [][Next]_vars

-----------------------------------------------------------------------------
(* A patch waits for review only while its page is what it was made for:   *)
(* one per page, and none survives a change of the page by anyone          *)
(* (_expire_source_patches).                                               *)
PendingIsCurrent ==
    \A o \in offers : o.status = "pending" =>
        /\ status[o.page] = "active"
        /\ Version(o.page) = o.version
        /\ \A x \in offers : x.page = o.page /\ x.status = "pending" => x = o

(* A merged page leads to a page that is not merged, however merges and    *)
(* their undoing follow one another: get_page, which follows redirects,    *)
(* comes to an end.                                                        *)
RedirectsLead ==
    /\ \A p \in Pages : status[p] = "merged" <=> into[p] # NoPage
    /\ \A S \in SUBSET Pages : S # {} => \E p \in S : into[p] \notin S

(* Commands name a block by its identity: no two live blocks of a page     *)
(* share one, whatever was merged, restored or published again.            *)
LiveIdsDistinct ==
    \A p \in Pages : \A b, c \in Blocks(p) : b.id = c.id /\ ~b.gone /\ ~c.gone => b = c

LastOp(p) == past[p][Version(p)].op

(* A second merge of one page into another may give a tombstone the alias  *)
(* of the first merge, so that the other page has two blocks of one        *)
(* identity; a return to a version keeps one of them.                      *)
Twinned(p, id) ==
    \E v \in 1..Version(p) : \E b, c \in past[p][v].blocks : b # c /\ b.id = id /\ c.id = id

(* What the owner deleted stays deleted until a restore or a save of the   *)
(* same text: no publication, merge or return to an older version brings   *)
(* it back, unless merges have given its identity to two blocks, and a     *)
(* page that comes back from a merge comes without what was deleted where  *)
(* it had gone.                                                            *)
DeletedStaysDeleted ==
    [][/\ \A p \in Pages : \A t \in Tombs(Blocks(p)) :
             \/ \E u \in Tombs(Blocks(p)') : u.id = t.id /\ Alike(u, t)
             \/ /\ LastOp(p)' \in {"restore", "saved"}
                /\ \E u \in Blocks(p)' : u.id = t.id /\ Alike(u, t) /\ u.released
                                         /\ u.life = Version(p)'
             \/ Twinned(p, t.id)
       /\ \A q \in Pages : into[q] # NoPage /\ into'[q] = NoPage =>
             \A b \in Blocks(q)', t \in Tombs(Blocks(into[q])) :
                 ~b.gone => b.id # t.id /\ ~Alike(b, t)]_vars

(* A live block that the owner locked keeps its text and its lock through  *)
(* every step but an edit, a deletion and a return to an older version: no *)
(* source material, plan or merge replaces it.                             *)
ManualTextSurvives ==
    [][\A p \in Pages : past'[p] # past[p] =>
         \/ LastOp(p)' \in {"edit", "delete", "reverted", "merge_undone"}
         \/ \A b \in Blocks(p) : b.lock /\ ~b.gone =>
               \E c \in Blocks(p)' : c.id = b.id /\ Alike(c, b) /\ c.lock /\ ~c.gone]_vars

(* All that a page shows is in the page it is merged into, and shows there *)
(* unless it was deleted there and has been saved again since; only a      *)
(* block with the identity of a tombstone that goes along is left out.     *)
MergeLosesNothing ==
    [][\A q, p \in Pages : into[q] = NoPage /\ into'[q] = p =>
         \A b \in {c \in Visible(q) : \A t \in Carried(q, p) : t.id # c.id} :
             \E e \in Blocks(p)' : /\ Alike(e, b)
                                  /\ \/ ~e.gone /\ Supported(e)'
                                     \/ e.gone /\ e.released]_vars

(* A proposal that counts as accepted has put its text on the page:        *)
(* "content needs its own identity" (wiki.py:2872).                        *)
AcceptedTextIsPublished ==
    \A o \in offers : o.status = "accepted" =>
        \E b \in past[o.page][o.version + 1].blocks : ~b.gone /\ Alike(b, o)

=============================================================================
