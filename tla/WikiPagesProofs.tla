-------------------------- MODULE WikiPagesProofs --------------------------
(***************************************************************************)
(* Safety of WikiPages for any pages, headings, texts and revisions.  What *)
(* a change may do to the blocks of a page is one relation, Keeps, proved  *)
(* once for each command; the types, the locks and the pending patches     *)
(* follow from it and from the way a change is recorded.  A deletion       *)
(* survives the return to an older version because of what the history of  *)
(* a page tells (HistoryInv), and identities stay apart because a number   *)
(* in one is that of an earlier command (IdsInv); Keeps preserves both.    *)
(***************************************************************************)
EXTENDS WikiPages, SequenceTheorems, TLAPS

Ops == {"saved", "edit", "note", "delete", "restore", "archive", "reopen",
        "published", "merged", "reverted", "merge_undone"}

SameText(a, b) == a.id = b.id /\ Alike(a, b)

\* What the blocks bs of the next version owe to those of this one.
KeepsTombs(p, op, bs) ==
    \A t \in Tombs(Blocks(p)) :
        \/ \E u \in Tombs(bs) : SameText(u, t) /\ u.life \in {t.life, Version(p) + 1}
        \/ /\ op \in {"restore", "saved"}
           /\ \E u \in bs : SameText(u, t) /\ u.released /\ u.life = Version(p) + 1
        \/ Twinned(p, t.id)
OldTombs(p, bs) ==
    \A t \in Tombs(bs) :
        \/ t.life = Version(p) + 1
        \/ \E u \in Tombs(Blocks(p)) : SameText(u, t) /\ u.life = t.life
        \/ Twinned(p, t.id)
KeepsLocks(p, op, bs) ==
    \/ op \in {"edit", "delete", "reverted", "merge_undone"}
    \/ \A b \in Blocks(p) : b.lock /\ ~b.gone =>
          \E c \in bs : SameText(c, b) /\ c.lock /\ ~c.gone
KeepsOwners(p, op, bs) ==
    op \in OwnersLater =>
        \A b \in Blocks(p) : \E c \in bs :
            c.id = b.id /\ c.life \in {b.life, Version(p) + 1}

\* Live blocks differ in identity, and a number in an identity is that of an
\* earlier command.
Differ(bs) == \A b, c \in bs : b.id = c.id /\ ~b.gone /\ ~c.gone => b = c
Numbered(bs, n) == \A b \in bs : b.id[1] \in Nat => b.id[1] < n
IdsInv == \A p \in Pages :
    /\ Differ(Blocks(p))
    /\ \A v \in 1..Version(p) : Numbered(past[p][v].blocks, steps)
KeepsIds(bs) == IdsInv => Differ(bs) /\ Numbered(bs, steps + 1)

\* Only a merge gives the identity of one block to another.
One(bs) == \A b, c \in bs : b.id = c.id => b = c
KeepsOne(p, op, bs) == op # "merged" /\ IdsInv /\ One(Blocks(p)) => One(bs)

Keeps(p, op, bs) ==
    /\ bs \subseteq Block
    /\ op \in Ops
    /\ KeepsTombs(p, op, bs)
    /\ OldTombs(p, bs)
    /\ KeepsLocks(p, op, bs)
    /\ KeepsOwners(p, op, bs)
    /\ KeepsIds(bs)
    /\ KeepsOne(p, op, bs)

-----------------------------------------------------------------------------
(* Pages and their record *)

LEMMA PageTyped ==
    ASSUME TypeOK, NEW p \in Pages
    PROVE  /\ Version(p) \in Nat
           /\ Blocks(p) \subseteq Block
           /\ \A v \in 1..Version(p) : past[p][v] \in Change
           /\ status[p] # "absent" => Version(p) > 0
  <1>1. past[p] \in Seq(Change) BY DEF TypeOK
  <1>2. Version(p) \in Nat /\ \A v \in 1..Version(p) : past[p][v] \in Change
    BY <1>1 DEF Version
  <1>3. past[p] # <<>> => Version(p) > 0 BY <1>1 DEF Version
  <1>4. Blocks(p) \subseteq Block
    <2>1. CASE past[p] = <<>> BY <2>1 DEF Blocks
    <2>2. CASE past[p] # <<>>
      <3>1. past[p][Version(p)] \in Change BY <1>2, <1>3, <2>2
      <3>. QED BY <2>2, <3>1 DEF Blocks, Change
    <2>. QED BY <2>1, <2>2
  <1>5. status[p] # "absent" => past[p] # <<>> BY DEF TypeOK
  <1>. QED BY <1>2, <1>3, <1>4, <1>5

\* A page whose record grows by one change.
Grown(p, op, bs, sources) ==
    past'[p] = Append(past[p], Recorded(op, bs, sources))

LEMMA GrownPage ==
    ASSUME TypeOK, NEW p \in Pages, NEW op \in Ops, NEW bs \in SUBSET Block,
           NEW sources \in SUBSET Pages, Grown(p, op, bs, sources)
    PROVE  /\ past'[p] \in Seq(Change) /\ past'[p] # <<>> /\ past'[p] # past[p]
           /\ Version(p)' = Version(p) + 1
           /\ Blocks(p)' = bs
           /\ LastOp(p)' = op
           /\ past'[p][Version(p) + 1] = Recorded(op, bs, sources)
           /\ \A v \in 1..Version(p) : past'[p][v] = past[p][v]
  <1>1. past[p] \in Seq(Change) BY DEF TypeOK
  <1>2. Recorded(op, bs, sources) \in Change BY DEF Recorded, Change, Ops
  <1>3. past'[p] = Append(past[p], Recorded(op, bs, sources)) BY DEF Grown
  <1>4. /\ past'[p] \in Seq(Change)
        /\ Len(past'[p]) = Len(past[p]) + 1
        /\ past'[p][Len(past[p]) + 1] = Recorded(op, bs, sources)
        /\ \A v \in 1..Len(past[p]) : past'[p][v] = past[p][v]
    BY <1>1, <1>2, <1>3
  <1>5. past'[p] # <<>> /\ past'[p] # past[p] BY <1>1, <1>4
  <1>6. Version(p)' = Version(p) + 1 BY <1>4 DEF Version
  <1>7. Blocks(p)' = bs BY <1>1, <1>4, <1>5 DEF Blocks, Version, Recorded
  <1>8. LastOp(p)' = op BY <1>1, <1>4 DEF LastOp, Version, Recorded
  <1>. QED BY <1>4, <1>5, <1>6, <1>7, <1>8 DEF Version

LEMMA SamePage ==
    ASSUME NEW p \in Pages, past'[p] = past[p]
    PROVE  Blocks(p)' = Blocks(p) /\ Version(p)' = Version(p) /\ LastOp(p)' = LastOp(p)
  BY DEF Blocks, Version, LastOp

LEMMA Wrote ==
    ASSUME TypeOK, NEW p \in Pages, NEW op \in Ops, NEW bs \in SUBSET Block,
           Write(p, op, bs)
    PROVE  /\ Grown(p, op, bs, Redirected(p))
           /\ Redirected(p) \in SUBSET Pages
           /\ \A q \in Pages \ {p} : past'[q] = past[q]
           /\ past' \in [Pages -> Seq(Change)]
           /\ steps' \in 0..MaxSteps /\ steps' = steps + 1
  <1>1. past \in [Pages -> Seq(Change)] BY DEF TypeOK
  <1>2. past' = [past EXCEPT ![p] = Append(@, Recorded(op, bs, Redirected(p)))]
    BY DEF Write
  <1>3. Redirected(p) \in SUBSET Pages BY DEF Redirected
  <1>4. Recorded(op, bs, Redirected(p)) \in Change BY <1>3 DEF Recorded, Change, Ops
  <1>5. Append(past[p], Recorded(op, bs, Redirected(p))) \in Seq(Change) BY <1>1, <1>4
  <1>6. /\ Grown(p, op, bs, Redirected(p))
        /\ \A q \in Pages \ {p} : past'[q] = past[q]
        /\ past' \in [Pages -> Seq(Change)]
    BY <1>1, <1>2, <1>5 DEF Grown
  <1>7. steps' \in 0..MaxSteps /\ steps' = steps + 1 BY WikiAssumption DEF Write, TypeOK
  <1>. QED BY <1>3, <1>6, <1>7

-----------------------------------------------------------------------------
(* Blocks that the commands make *)

LEMMA NewBlockTyped ==
    ASSUME NEW id \in Ids \ {NoId}, NEW head \in Headings, NEW text \in Texts,
           NEW by \in {"card", "source", "analysis", "personal"},
           NEW basis \in Revisions \cup {0}
    PROVE  /\ NewBlock(id, head, text, by, basis) \in Block
           /\ ~NewBlock(id, head, text, by, basis).gone
  BY DEF NewBlock, Block, Ids, NoId

LEMMA FreshId ==
    ASSUME TypeOK
    PROVE  <<steps>> \in Ids \ {NoId}
  <1>1. steps \in Nat BY WikiAssumption DEF TypeOK
  <1>2. <<steps>> \in Seq(Nat) BY <1>1
  <1>3. <<steps>> \in Ids BY <1>1 DEF Ids
  <1>4. Len(<<steps>>) = 1 /\ Len(NoId) = 0 BY DEF NoId
  <1>. QED BY <1>3, <1>4

LEMMA JoinedId ==
    ASSUME NEW a \in Ids \ {NoId}, NEW b \in Ids
    PROVE  a \o b \in Ids \ {NoId}
  <1>1. a \o b \in Ids BY DEF Ids
  <1>2. Len(a) # 0 BY DEF Ids, NoId
  <1>3. Len(a \o b) = Len(a) + Len(b) BY DEF Ids
  <1>4. Len(a) \in Nat /\ Len(b) \in Nat BY DEF Ids
  <1>5. Len(NoId) = 0 BY DEF NoId
  <1>6. Len(a \o b) # 0 BY <1>2, <1>3, <1>4
  <1>7. ASSUME a \o b = NoId PROVE FALSE
    <2>1. Len(a \o b) = Len(NoId) BY <1>7
    <2>. QED BY <2>1, <1>5, <1>6
  <1>. QED BY <1>1, <1>7

LEMMA SameTail ==
    ASSUME NEW a \in Ids, NEW x \in Ids, NEW y \in Ids, a \o x = a \o y
    PROVE  x = y
  <1>. DEFINE S == Pages \cup Nat \cup Revisions \cup Headings \cup Texts
  <1>1. a \in Seq(S) /\ x \in Seq(S) /\ y \in Seq(S) BY DEF Ids
  <1>. HIDE DEF S
  <1>2. \A z \in Seq(S) : /\ Len(a \o z) = Len(a) + Len(z)
                           /\ \A i \in 1..Len(z) : (a \o z)[i + Len(a)] = z[i]
    BY <1>1
  <1>3. Len(x) = Len(y)
    <2>1. Len(x) \in Nat /\ Len(y) \in Nat /\ Len(a) \in Nat BY <1>1
    <2>. QED BY <1>1, <1>2, <2>1
  <1>4. \A i \in 1..Len(x) : x[i] = y[i] BY <1>1, <1>2, <1>3
  <1>. QED BY <1>1, <1>3, <1>4, SeqEqual

LEMMA GeneratedTyped ==
    ASSUME TypeOK, NEW p \in Pages, NEW bs, NEW head \in Headings, NEW text \in Texts
    PROVE  /\ Generated(p, bs, head, text) \in Block
           /\ ~Generated(p, bs, head, text).gone
           /\ Generated(p, bs, head, text).id[1] \notin Nat
  <1>1. cur \in Revisions BY DEF TypeOK
  <1>2. <<p, cur>> \in Ids BY <1>1 DEF Ids
  <1>3. <<head, text>> \in Ids BY DEF Ids
  <1>4. <<p, cur>> # NoId
    <2>1. Len(<<p, cur>>) = 2 /\ Len(NoId) = 0 BY DEF NoId
    <2>. QED BY <2>1
  <1>5. <<p, cur>> \o <<head, text>> \in Ids \ {NoId} BY <1>2, <1>3, <1>4, JoinedId
  <1>6. <<p, cur>>[1] \notin Nat /\ (<<p, cur>> \o <<head, text>>)[1] \notin Nat
    BY <1>2, <1>3, WikiAssumption DEF Ids
  <1>7. Generated(p, bs, head, text).id \in {<<p, cur>>, <<p, cur>> \o <<head, text>>}
    BY DEF Generated, NewBlock
  <1>. QED BY <1>1, <1>2, <1>4, <1>5, <1>6, <1>7, NewBlockTyped DEF Generated

LEMMA IdsHere ==
    ASSUME TypeOK, IdsInv, NEW p \in Pages
    PROVE  /\ steps \in Nat /\ <<steps>>[1] = steps
           /\ Differ(Blocks(p)) /\ Numbered(Blocks(p), steps)
           /\ Numbered(Blocks(p), steps + 1)
           /\ \A b \in Blocks(p) : b.id # <<steps>>
  <1>1. steps \in Nat /\ <<steps>>[1] = steps BY WikiAssumption DEF TypeOK
  <1>2. Numbered(Blocks(p), steps)
    <2>1. CASE past[p] = <<>> BY <2>1 DEF Numbered, Blocks
    <2>2. CASE past[p] # <<>>
      <3>1. Version(p) \in 1..Version(p)
        <4>1. past[p] \in Seq(Change) BY DEF TypeOK
        <4>. QED BY <2>2, <4>1 DEF Version
      <3>. QED BY <2>2, <3>1 DEF IdsInv, Blocks
    <2>. QED BY <2>1, <2>2
  <1>3. Numbered(Blocks(p), steps + 1) BY <1>1, <1>2 DEF Numbered
  <1>4. \A b \in Blocks(p) : b.id # <<steps>> BY <1>1, <1>2 DEF Numbered
  <1>. QED BY <1>1, <1>2, <1>3, <1>4 DEF IdsInv

-----------------------------------------------------------------------------
(* What each command keeps *)

\* A block whose deletion is decided, one way or the other, by version n.
Gone(b, n) == [b EXCEPT !.gone = TRUE, !.lock = TRUE, !.lockBefore = b.lock,
                        !.released = FALSE, !.life = n]
Back(b, n) == [b EXCEPT !.gone = FALSE, !.lock = b.lockBefore,
                        !.released = TRUE, !.life = n]
Freed(b, n) == [b EXCEPT !.released = TRUE, !.life = n]

LEMMA DecidedBlock ==
    ASSUME NEW b \in Block, NEW n, n \in Nat
    PROVE  /\ Gone(b, n) \in Block /\ SameText(Gone(b, n), b) /\ Gone(b, n).life = n
           /\ Gone(b, n).gone /\ ~Gone(b, n).released
           /\ Back(b, n) \in Block /\ SameText(Back(b, n), b) /\ Back(b, n).life = n
           /\ ~Back(b, n).gone /\ Back(b, n).released
           /\ Freed(b, n) \in Block /\ SameText(Freed(b, n), b) /\ Freed(b, n).life = n
           /\ Freed(b, n).gone = b.gone /\ Freed(b, n).released
  BY DEF Block, SameText, Alike, Gone, Back, Freed

LEMMA RemovedBlock ==
    ASSUME NEW b \in Block, NEW k \in BOOLEAN, NEW n \in Nat
    PROVE  /\ Removed(b, k, n) \in Block /\ SameText(Removed(b, k, n), b)
           /\ Removed(b, k, n).life = n
           /\ Removed(b, k, n).gone /\ ~Removed(b, k, n).released
  BY DEF Block, SameText, Alike, Removed

LEMMA SameBlocksKept ==
    ASSUME TypeOK, NEW p \in Pages, NEW op \in Ops
    PROVE  Keeps(p, op, Blocks(p))
  <1>1. Blocks(p) \subseteq Block BY PageTyped
  <1>2. KeepsIds(Blocks(p)) BY IdsHere DEF KeepsIds
  <1>3. KeepsOne(p, op, Blocks(p)) BY DEF KeepsOne
  <1>. QED
    BY <1>1, <1>2, <1>3 DEF Keeps, KeepsTombs, OldTombs, KeepsLocks, KeepsOwners, SameText, Alike, Tombs

LEMMA EditKept ==
    ASSUME TypeOK, NEW p \in Pages, NEW b \in Blocks(p), NEW text \in Texts,
           ~Buried(Blocks(p), b.id)
    PROVE  Keeps(p, "edit", (Blocks(p) \ {b})
                            \cup {[b EXCEPT !.text = text, !.lock = TRUE]})
  <1>. DEFINE c == [b EXCEPT !.text = text, !.lock = TRUE]
              bs == (Blocks(p) \ {b}) \cup {c}
  <1>1. Blocks(p) \subseteq Block BY PageTyped
  <1>2. /\ c \in Block /\ c.id = b.id /\ c.life = b.life
        /\ c.gone = b.gone /\ c.released = b.released
    BY <1>1 DEF Block
  <1>3. b \notin Tombs(Blocks(p))
    <2>1. b.id \in Names(b) BY <1>1 DEF Names, Block
    <2>. QED BY <2>1 DEF Buried
  <1>4. c \notin Tombs(bs) BY <1>2, <1>3 DEF Tombs
  <1>5. KeepsTombs(p, "edit", bs) BY <1>3 DEF KeepsTombs, Tombs, SameText, Alike
  <1>6. OldTombs(p, bs) BY <1>4 DEF OldTombs, Tombs, SameText, Alike
  <1>7. KeepsOwners(p, "edit", bs) BY <1>2 DEF KeepsOwners
  <1>8. KeepsIds(bs) BY <1>2, IdsHere DEF KeepsIds, Differ, Numbered
  <1>9. KeepsOne(p, "edit", bs) BY <1>2 DEF KeepsOne, One
  <1>. QED BY <1>1, <1>2, <1>5, <1>6, <1>7, <1>8, <1>9 DEF Keeps, KeepsLocks, Ops

LEMMA DeleteKept ==
    ASSUME TypeOK, NEW p \in Pages, NEW b \in Blocks(p), ~b.gone
    PROVE  Keeps(p, "delete", (Blocks(p) \ {b}) \cup
                               {Gone(b, Version(p) + 1)})
  <1>. DEFINE c == Gone(b, Version(p) + 1)
              bs == (Blocks(p) \ {b}) \cup {c}
  <1>1. Blocks(p) \subseteq Block /\ Version(p) + 1 \in Nat BY PageTyped
  <1>2. c \in Block /\ c.id = b.id /\ c.life = Version(p) + 1 /\ c.gone
    BY <1>1, DecidedBlock DEF SameText
  <1>3. KeepsTombs(p, "delete", bs) BY DEF KeepsTombs, Tombs, SameText, Alike
  <1>4. OldTombs(p, bs) BY <1>2 DEF OldTombs, Tombs, SameText, Alike
  <1>5. KeepsOwners(p, "delete", bs) BY <1>2 DEF KeepsOwners
  <1>6. KeepsIds(bs) BY <1>2, IdsHere DEF KeepsIds, Differ, Numbered
  <1>7. KeepsOne(p, "delete", bs) BY <1>2 DEF KeepsOne, One
  <1>. QED BY <1>1, <1>2, <1>3, <1>4, <1>5, <1>6, <1>7 DEF Keeps, KeepsLocks, Ops

LEMMA RestoreKept ==
    ASSUME TypeOK, NEW p \in Pages, NEW b \in Blocks(p),
           \A c \in Blocks(p) : c.id = b.id => c.gone
    PROVE  Keeps(p, "restore", (Blocks(p) \ {b}) \cup
                               {Back(b, Version(p) + 1)})
  <1>. DEFINE c == Back(b, Version(p) + 1)
              bs == (Blocks(p) \ {b}) \cup {c}
  <1>1. Blocks(p) \subseteq Block /\ Version(p) + 1 \in Nat BY PageTyped
  <1>2. /\ c \in Block /\ SameText(c, b) /\ c.life = Version(p) + 1
        /\ c.released /\ ~c.gone
    BY <1>1, DecidedBlock
  <1>3. KeepsTombs(p, "restore", bs)
    <2>1. ASSUME NEW t \in Tombs(Blocks(p)), t # b
          PROVE  t \in Tombs(bs) /\ SameText(t, t)
      BY <2>1 DEF Tombs, SameText, Alike
    <2>. QED BY <1>2, <2>1 DEF KeepsTombs
  <1>4. OldTombs(p, bs) BY <1>2 DEF OldTombs, Tombs, SameText, Alike
  <1>5. KeepsOwners(p, "restore", bs) BY <1>2 DEF KeepsOwners, SameText
  <1>6. KeepsLocks(p, "restore", bs) BY DEF KeepsLocks, SameText, Alike
  <1>7. KeepsIds(bs)
    <2>1. c.id = b.id BY <1>2 DEF SameText
    <2>. QED BY <2>1, IdsHere DEF KeepsIds, Differ, Numbered
  <1>8. KeepsOne(p, "restore", bs) BY <1>2 DEF KeepsOne, One, SameText
  <1>. QED BY <1>1, <1>2, <1>3, <1>4, <1>5, <1>6, <1>7, <1>8 DEF Keeps, Ops

LEMMA NoteKept ==
    ASSUME TypeOK, NEW p \in Pages, NEW text \in Texts
    PROVE  Keeps(p, "note", Blocks(p) \cup
                 {NewBlock(<<steps>>, NoteHeading, text, "personal", 0)})
  <1>. DEFINE new == NewBlock(<<steps>>, NoteHeading, text, "personal", 0)
              bs == Blocks(p) \cup {new}
  <1>1. Blocks(p) \subseteq Block BY PageTyped
  <1>2. new \in Block /\ ~new.gone BY FreshId, NewBlockTyped, WikiAssumption
  <1>3. KeepsTombs(p, "note", bs) BY DEF KeepsTombs, Tombs, SameText, Alike
  <1>4. OldTombs(p, bs) BY <1>2 DEF OldTombs, Tombs, SameText, Alike
  <1>5. KeepsLocks(p, "note", bs) BY DEF KeepsLocks, SameText, Alike
  <1>6. KeepsOwners(p, "note", bs) BY DEF KeepsOwners
  <1>7. KeepsIds(bs)
    <2>1. new.id = <<steps>> BY DEF NewBlock
    <2>. HIDE DEF new
    <2>. QED BY <2>1, IdsHere DEF KeepsIds, Differ, Numbered
  <1>8. KeepsOne(p, "note", bs)
    <2>1. new.id = <<steps>> BY DEF NewBlock
    <2>. HIDE DEF new
    <2>. QED BY <2>1, IdsHere DEF KeepsOne, One
  <1>. QED BY <1>1, <1>2, <1>3, <1>4, <1>5, <1>6, <1>7, <1>8 DEF Keeps, Ops

LEMMA SavedKept ==
    ASSUME TypeOK, NEW p \in Pages, NEW new \in Block, ~new.gone, new.id = <<steps>>,
           NEW planned \in BOOLEAN, NEW quoted \in BOOLEAN
    PROVE  Keeps(p, "saved",
                 SavedBlocks(Released(Blocks(p), new, Version(p) + 1), new, planned,
                             quoted))
  <1>. DEFINE R(b) == IF b.gone /\ Alike(b, new)
                      THEN Freed(b, Version(p) + 1) ELSE b
              rs == Released(Blocks(p), new, Version(p) + 1)
              bs == SavedBlocks(rs, new, planned, quoted)
  <1>1. Blocks(p) \subseteq Block /\ Version(p) + 1 \in Nat BY PageTyped
  <1>2. rs = {R(b) : b \in Blocks(p)} BY DEF Released, Freed
  <1>3. ASSUME NEW b \in Blocks(p)
        PROVE  /\ R(b) \in Block /\ SameText(R(b), b) /\ R(b).gone = b.gone
               /\ ~b.gone => R(b) = b
               /\ R(b) = b \/ (R(b).released /\ R(b).life = Version(p) + 1)
    <2>1. CASE b.gone /\ Alike(b, new)
      <3>1. R(b) = Freed(b, Version(p) + 1) /\ b \in Block BY <1>1, <2>1
      <3>2. /\ Freed(b, Version(p) + 1) \in Block
            /\ SameText(Freed(b, Version(p) + 1), b)
            /\ Freed(b, Version(p) + 1).gone = b.gone
            /\ Freed(b, Version(p) + 1).released
            /\ Freed(b, Version(p) + 1).life = Version(p) + 1
        BY <1>1, <3>1, DecidedBlock
      <3>. HIDE DEF R
      <3>3. R(b) \in Block /\ SameText(R(b), b) /\ R(b).gone = b.gone BY <3>1, <3>2
      <3>4. R(b).released /\ R(b).life = Version(p) + 1 BY <3>1, <3>2
      <3>. QED BY <2>1, <3>3, <3>4
    <2>2. CASE ~(b.gone /\ Alike(b, new)) BY <1>1, <1>3, <2>2 DEF SameText, Alike
    <2>. QED BY <2>1, <2>2
  <1>4. bs \subseteq rs \cup {new} BY DEF SavedBlocks
  <1>5. \A r \in rs : r.gone \/ r.lock => r \in bs BY DEF SavedBlocks
  <1>. HIDE DEF R, bs, rs
  <1>6. KeepsTombs(p, "saved", bs)
    <2>1. ASSUME NEW t \in Tombs(Blocks(p))
          PROVE  \/ \E u \in Tombs(bs) : /\ SameText(u, t)
                                         /\ u.life \in {t.life, Version(p) + 1}
                 \/ \E u \in bs : /\ SameText(u, t) /\ u.released
                                   /\ u.life = Version(p) + 1
      <3>1. t \in Blocks(p) /\ t.gone /\ ~t.released BY DEF Tombs
      <3>2. R(t) \in bs BY <1>2, <1>3, <1>5, <3>1
      <3>3. CASE R(t) = t
        <4>1. t \in Tombs(bs) BY <3>1, <3>2, <3>3 DEF Tombs
        <4>. QED BY <1>3, <3>1, <3>3, <4>1
      <3>. QED BY <1>3, <3>1, <3>2, <3>3
    <2>. QED BY <2>1 DEF KeepsTombs
  <1>7. OldTombs(p, bs)
    <2>1. ASSUME NEW t \in Tombs(bs)
          PROVE  \E u \in Tombs(Blocks(p)) : SameText(u, t) /\ u.life = t.life
      <3>1. t \in bs /\ t.gone /\ ~t.released BY DEF Tombs
      <3>2. t \in rs BY <1>4, <3>1
      <3>3. PICK b \in Blocks(p) : t = R(b) BY <1>2, <3>2
      <3>4. t = b BY <1>3, <3>1, <3>3
      <3>. QED BY <3>1, <3>4 DEF Tombs, SameText, Alike
    <2>. QED BY <2>1 DEF OldTombs
  <1>8. KeepsLocks(p, "saved", bs)
    <2>1. ASSUME NEW b \in Blocks(p), b.lock, ~b.gone
          PROVE  b \in bs
      <3>1. R(b) = b BY <1>3, <2>1
      <3>. QED BY <1>2, <1>5, <2>1, <3>1
    <2>. QED BY <2>1 DEF KeepsLocks, SameText, Alike
  <1>9. bs \subseteq Block BY <1>2, <1>3, <1>4
  <1>10. KeepsIds(bs)
    <2>. SUFFICES ASSUME IdsInv PROVE Differ(bs) /\ Numbered(bs, steps + 1)
      BY DEF KeepsIds
    <2>1. ASSUME NEW c \in bs
          PROVE  c = new \/ \E b \in Blocks(p) : c.id = b.id /\ (~c.gone => c = b)
      <3>1. c = new \/ \E b \in Blocks(p) : c = R(b) BY <1>2, <1>4
      <3>. QED BY <1>3, <3>1 DEF SameText
    <2>. QED BY <2>1, IdsHere DEF Differ, Numbered
  <1>11. KeepsOne(p, "saved", bs)
    <2>1. ASSUME NEW c \in bs
          PROVE  c = new \/ \E b \in Blocks(p) : c = R(b) /\ c.id = b.id
      <3>1. c = new \/ \E b \in Blocks(p) : c = R(b) BY <1>2, <1>4
      <3>. QED BY <1>3, <3>1 DEF SameText
    <2>. QED BY <2>1, IdsHere DEF KeepsOne, One
  <1>. QED BY <1>6, <1>7, <1>8, <1>9, <1>10, <1>11 DEF Keeps, KeepsOwners, OwnersLater, Ops, bs, rs

\* A block whose dependency rows are there or not is the same block.
SameBlock(a, b) == /\ SameText(a, b) /\ a.lock = b.lock /\ a.gone = b.gone
                   /\ a.released = b.released /\ a.life = b.life

LEMMA BackedBlock ==
    ASSUME NEW b \in Block, NEW f \in BOOLEAN
    PROVE  /\ [b EXCEPT !.backed = f] \in Block
           /\ SameBlock([b EXCEPT !.backed = f], b)
  BY DEF Block, SameBlock, SameText, Alike

\* Every deleted and every locked block stays, and none comes back deleted.
LEMMA GuardedKept ==
    ASSUME TypeOK, NEW p \in Pages, NEW op \in Ops \ OwnersLater, NEW bs \in SUBSET Block,
           \A b \in Blocks(p) : b.gone \/ b.lock => \E c \in bs : SameBlock(c, b),
           \A c \in bs : \/ ~c.gone
                         \/ c.life = Version(p) + 1
                         \/ \E b \in Blocks(p) : SameBlock(c, b),
           KeepsIds(bs), KeepsOne(p, op, bs)
    PROVE  Keeps(p, op, bs)
  <1>1. KeepsTombs(p, op, bs)
    <2>1. ASSUME NEW t \in Tombs(Blocks(p))
          PROVE  \E u \in Tombs(bs) : SameText(u, t) /\ u.life = t.life
      <3>1. t \in Blocks(p) /\ t.gone /\ ~t.released BY DEF Tombs
      <3>2. PICK c \in bs : SameBlock(c, t) BY <3>1
      <3>. QED BY <3>1, <3>2 DEF Tombs, SameBlock
    <2>. QED BY <2>1 DEF KeepsTombs
  <1>2. OldTombs(p, bs)
    <2>1. ASSUME NEW t \in Tombs(bs), t.life # Version(p) + 1
          PROVE  \E u \in Tombs(Blocks(p)) : SameText(u, t) /\ u.life = t.life
      <3>1. t \in bs /\ t.gone /\ ~t.released BY DEF Tombs
      <3>2. PICK b \in Blocks(p) : SameBlock(t, b) BY <2>1, <3>1
      <3>. QED BY <3>1, <3>2 DEF Tombs, SameBlock, SameText, Alike
    <2>. QED BY <2>1 DEF OldTombs
  <1>3. KeepsLocks(p, op, bs) BY DEF KeepsLocks, SameBlock
  <1>. QED BY <1>1, <1>2, <1>3 DEF Keeps, KeepsOwners

LEMMA PublishedKept ==
    ASSUME TypeOK, NEW p \in Pages, NEW new \in Block, ~new.gone, new.id[1] \notin Nat,
           NEW out, \A b \in out : ~b.gone /\ ~b.lock
    PROVE  Keeps(p, "published", PublishedBlocks(Blocks(p), new, out))
  <1>. DEFINE f(b) == b.backed \/ b.id = new.id
              R(b) == [b EXCEPT !.backed = f(b)]
              bs == PublishedBlocks(Blocks(p), new, out)
  <1>1. Blocks(p) \subseteq Block BY PageTyped
  <1>2. ASSUME NEW b \in Blocks(p)
        PROVE  R(b) \in Block /\ SameBlock(R(b), b)
    <2>1. f(b) \in BOOLEAN OBVIOUS
    <2>. QED BY <1>1, <2>1, BackedBlock
  <1>3. bs \subseteq {R(b) : b \in Blocks(p)} \cup {new} BY DEF PublishedBlocks
  <1>4. \A b \in Blocks(p) \ out : R(b) \in bs BY DEF PublishedBlocks
  <1>5. "published" \in Ops \ OwnersLater BY DEF Ops, OwnersLater
  <1>9. bs = {R(b) : b \in Blocks(p) \ out}
             \cup (IF \E b \in Blocks(p) \ out : b.id = new.id THEN {} ELSE {new})
    BY DEF PublishedBlocks
  <1>. HIDE DEF R, f, bs
  <1>6. bs \subseteq Block BY <1>2, <1>3
  <1>7. \A b \in Blocks(p) : b.gone \/ b.lock => \E c \in bs : SameBlock(c, b)
    BY <1>2, <1>4
  <1>8. \A c \in bs : ~c.gone \/ \E b \in Blocks(p) : SameBlock(c, b) BY <1>2, <1>3
  <1>11. ASSUME NEW c \in bs
         PROVE  \/ c = new /\ \A b \in Blocks(p) \ out : b.id # new.id
                \/ \E b \in Blocks(p) \ out : c = R(b) /\ c.id = b.id /\ c.gone = b.gone
    BY <1>2, <1>9 DEF SameBlock, SameText
  <1>12. KeepsOne(p, "published", bs) BY <1>11 DEF KeepsOne, One
  <1>10. KeepsIds(bs)
    <2>. SUFFICES ASSUME IdsInv PROVE Differ(bs) /\ Numbered(bs, steps + 1)
      BY DEF KeepsIds
    <2>2. Differ(Blocks(p)) /\ Numbered(Blocks(p), steps + 1) BY IdsHere
    <2>3. Numbered(bs, steps + 1) BY <1>11, <2>2 DEF Numbered
    <2>4. Differ(bs) BY <1>11, <2>2 DEF Differ
    <2>. QED BY <2>3, <2>4
  <1>. QED BY <1>5, <1>6, <1>7, <1>8, <1>10, <1>12, GuardedKept DEF bs

LEMMA ReplacedUnlocked ==
    ASSUME NEW bs, NEW kind, NEW target
    PROVE  \A b \in Replaced(bs, kind, target) : ~b.gone /\ ~b.lock
  BY DEF Replaced

\* The tombstones that go along are blocks of the version that the merge makes.
LEMMA CarriedTyped ==
    ASSUME TypeOK, NEW q \in Pages, NEW p \in Pages
    PROVE  /\ Carried(q, p) \subseteq Block
           /\ \A c \in Carried(q, p) : c.life = Version(p) + 1
  <1>. DEFINE n == Version(p) + 1
  <1>1. Blocks(q) \subseteq Block /\ n \in Nat BY PageTyped
  <1>2. ASSUME NEW t \in Blocks(q)
        PROVE  /\ [t EXCEPT !.id = <<q, q>> \o t.id, !.was = t.id,
                            !.life = n, !.backed = FALSE] \in Block
               /\ [t EXCEPT !.life = n, !.backed = FALSE] \in Block
    <2>1. t \in Block BY <1>1
    <2>2. <<q, q>> \in Ids \ {NoId}
      <3>1. <<q, q>> \in Ids BY DEF Ids
      <3>2. Len(<<q, q>>) = 2 /\ Len(NoId) = 0 BY DEF NoId
      <3>. QED BY <3>1, <3>2
    <2>3. t.id \in Ids BY <2>1 DEF Block
    <2>4. <<q, q>> \o t.id \in Ids \ {NoId} BY <2>2, <2>3, JoinedId
    <2>. HIDE DEF n
    <2>. QED BY <1>1, <2>1, <2>3, <2>4 DEF Block
  <1>3. Carried(q, p) \subseteq Block /\ \A c \in Carried(q, p) : c.life = n
    <2>1. ASSUME NEW c \in Carried(q, p)
          PROVE  c \in Block /\ c.life = n
      <3>1. PICK t \in Blocks(q) :
               \/ c = [t EXCEPT !.id = <<q, q>> \o t.id, !.was = t.id,
                                !.life = n, !.backed = FALSE]
               \/ c = [t EXCEPT !.life = n, !.backed = FALSE]
        BY DEF Carried
      <3>2. t \in Block BY <1>1
      <3>. HIDE DEF n
      <3>3. c.life = n BY <3>1, <3>2 DEF Block
      <3>. QED BY <1>2, <3>1, <3>3
    <2>. QED BY <2>1
  <1>. QED BY <1>3

\* The tombstones that go along are numbered like those of the pages.
LEMMA CarriedIds ==
    ASSUME TypeOK, IdsInv, NEW q \in Pages, NEW p \in Pages
    PROVE  Numbered(Carried(q, p), steps) /\ \A c \in Carried(q, p) : c.gone
  <1>1. Numbered(Blocks(q), steps) /\ Blocks(q) \subseteq Block BY IdsHere, PageTyped
  <1>2. ASSUME NEW c \in Carried(q, p)
        PROVE  c.gone /\ (c.id[1] \in Nat => c.id[1] < steps)
    <2>1. PICK t \in Blocks(q) :
             /\ t.gone
             /\ \/ c = [t EXCEPT !.id = <<q, q>> \o t.id, !.was = t.id,
                                 !.life = Version(p) + 1, !.backed = FALSE]
                \/ c = [t EXCEPT !.life = Version(p) + 1, !.backed = FALSE]
      BY DEF Carried
    <2>2. t \in Block BY <1>1
    <2>3. c.gone /\ c.id \in {t.id, <<q, q>> \o t.id} BY <2>1, <2>2 DEF Block
    <2>4. (<<q, q>> \o t.id)[1] \notin Nat
      <3>1. t.id \in Ids /\ <<q, q>> \in Ids BY <2>2 DEF Block, Ids
      <3>2. (<<q, q>> \o t.id)[1] = q BY <3>1 DEF Ids
      <3>. QED BY <3>2, WikiAssumption
    <2>. QED BY <1>1, <2>3, <2>4 DEF Numbered
  <1>. QED BY <1>2 DEF Numbered

\* A block that is copied keeps its identity, which is free there, or gets
\* one that no block has.
LEMMA CopiedIds ==
    ASSUME TypeOK, IdsInv, NEW q \in Pages, NEW there, Numbered(there, steps)
    PROVE  /\ Differ(Copied(q, there)) /\ Numbered(Copied(q, there), steps + 1)
           /\ \A c \in Copied(q, there), e \in there : c.id # e.id
  <1>1. /\ steps \in Nat /\ Differ(Blocks(q)) /\ Numbered(Blocks(q), steps)
        /\ Blocks(q) \subseteq Block
    BY IdsHere, PageTyped
  <1>2. ASSUME NEW x \in Ids
        PROVE  (<<steps>> \o x)[1] = steps
    BY <1>1 DEF Ids
  <1>3. ASSUME NEW x \in Ids, NEW y \in Ids, <<steps>> \o x = <<steps>> \o y
        PROVE  x = y
    BY <1>3, FreshId, SameTail
  <1>4. ASSUME NEW c \in Copied(q, there)
        PROVE  \E b \in Blocks(q) :
                  /\ ~b.gone
                  /\ \/ c = b /\ \A e \in there : e.id # b.id
                     \/ c = [b EXCEPT !.id = <<steps>> \o b.id] /\ c.id = <<steps>> \o b.id
    <2>1. PICK b \in Visible(q) :
             c = IF \E e \in there : e.id = b.id THEN [b EXCEPT !.id = <<steps>> \o b.id]
                                               ELSE b
      BY DEF Copied
    <2>2. b \in Blocks(q) /\ ~b.gone /\ b \in Block BY <1>1 DEF Visible
    <2>3. [b EXCEPT !.id = <<steps>> \o b.id].id = <<steps>> \o b.id BY <2>2 DEF Block
    <2>. QED BY <2>1, <2>2, <2>3
  <1>5. \A b \in Blocks(q) : b.id \in Ids BY <1>1 DEF Block
  <1>6. Numbered(Copied(q, there), steps + 1)
    BY <1>1, <1>2, <1>4, <1>5 DEF Numbered
  <1>7. \A c \in Copied(q, there), e \in there : c.id # e.id
    BY <1>1, <1>2, <1>4, <1>5 DEF Numbered
  <1>8. ASSUME NEW c \in Copied(q, there), NEW d \in Copied(q, there), c.id = d.id
        PROVE  c = d
    <2>1. PICK b \in Blocks(q) :
             /\ ~b.gone
             /\ \/ c = b
                \/ c = [b EXCEPT !.id = <<steps>> \o b.id] /\ c.id = <<steps>> \o b.id
      BY <1>4
    <2>2. PICK a \in Blocks(q) :
             /\ ~a.gone
             /\ \/ d = a
                \/ d = [a EXCEPT !.id = <<steps>> \o a.id] /\ d.id = <<steps>> \o a.id
      BY <1>4
    <2>3. ASSUME NEW x \in Blocks(q), NEW y \in Blocks(q)
          PROVE  x.id # <<steps>> \o y.id
      BY <1>1, <1>2, <1>5 DEF Numbered
    <2>4. a.id = b.id BY <1>3, <1>5, <1>8, <2>1, <2>2, <2>3
    <2>5. a = b BY <1>1, <2>1, <2>2, <2>4 DEF Differ
    <2>. QED BY <1>8, <2>1, <2>2, <2>3, <2>5
  <1>. QED BY <1>6, <1>7, <1>8 DEF Differ

LEMMA MergedKept ==
    ASSUME TypeOK, NEW q \in Pages, NEW p \in Pages
    PROVE  Keeps(p, "merged", MergedBlocks(q, p))
  <1>. DEFINE n == Version(p) + 1
              there == Blocks(p) \cup Carried(q, p)
              f(e) == e.backed \/ \E b \in Visible(q) : SameThere(e, b) /\ b.backed
              R(e) == [e EXCEPT !.backed = f(e)]
              bs == MergedBlocks(q, p)
  <1>1. Blocks(p) \subseteq Block /\ Blocks(q) \subseteq Block /\ n \in Nat BY PageTyped
  <1>3. Carried(q, p) \subseteq Block /\ \A c \in Carried(q, p) : c.life = n
    BY CarriedTyped
  <1>4. ASSUME NEW e \in there
        PROVE  R(e) \in Block /\ SameBlock(R(e), e)
    <2>1. f(e) \in BOOLEAN /\ e \in Block BY <1>1, <1>3 DEF Block
    <2>. HIDE DEF f
    <2>. QED BY <2>1, BackedBlock
  <1>5. Copied(q, there) \subseteq Block /\ \A c \in Copied(q, there) : ~c.gone
    <2>1. ASSUME NEW c \in Copied(q, there)
          PROVE  c \in Block /\ ~c.gone
      <3>1. PICK b \in Visible(q) : c = b \/ c = [b EXCEPT !.id = <<steps>> \o b.id]
        BY DEF Copied
      <3>2. b \in Block /\ ~b.gone BY <1>1 DEF Visible
      <3>3. <<steps>> \o b.id \in Ids \ {NoId}
        <4>1. b.id \in Ids BY <3>2 DEF Block
        <4>. QED BY <4>1, FreshId, JoinedId
      <3>. QED BY <3>1, <3>2, <3>3 DEF Block
    <2>. QED BY <2>1
  <1>6. bs = {R(e) : e \in there} \cup Copied(q, there) BY DEF MergedBlocks
  <1>7. "merged" \in Ops \ OwnersLater BY DEF Ops, OwnersLater
  <1>. HIDE DEF R, f, bs
  <1>8. bs \subseteq Block BY <1>4, <1>5, <1>6
  <1>9. \A b \in Blocks(p) : \E c \in bs : SameBlock(c, b) BY <1>4, <1>6
  <1>10. ASSUME NEW c \in bs, c.gone
         PROVE  c.life = n \/ \E b \in Blocks(p) : SameBlock(c, b)
    <2>1. PICK e \in there : c = R(e) BY <1>5, <1>6, <1>10
    <2>2. CASE e \in Blocks(p) BY <1>4, <2>1, <2>2
    <2>3. CASE e \in Carried(q, p)
      <3>. HIDE DEF n
      <3>. QED BY <1>3, <1>4, <2>1, <2>3 DEF SameBlock
    <2>. QED BY <2>2, <2>3
  <1>11. KeepsIds(bs)
    <2>. SUFFICES ASSUME IdsInv PROVE Differ(bs) /\ Numbered(bs, steps + 1)
      BY DEF KeepsIds
    <2>1. /\ steps \in Nat /\ Differ(Blocks(p)) /\ Numbered(Blocks(p), steps)
          /\ Numbered(Carried(q, p), steps) /\ \A c \in Carried(q, p) : c.gone
      BY IdsHere, CarriedIds
    <2>2. Numbered(there, steps) /\ Differ(there) BY <2>1 DEF Numbered, Differ
    <2>. HIDE DEF there
    <2>3. /\ Differ(Copied(q, there)) /\ Numbered(Copied(q, there), steps + 1)
          /\ \A c \in Copied(q, there), e \in there : c.id # e.id
      BY <2>2, CopiedIds
    <2>4. ASSUME NEW c \in bs
          PROVE  \/ c \in Copied(q, there)
                 \/ \E e \in there : c = R(e) /\ c.id = e.id /\ c.gone = e.gone
      BY <1>4, <1>6 DEF SameBlock, SameText
    <2>5. Numbered(bs, steps + 1) BY <2>1, <2>2, <2>3, <2>4 DEF Numbered
    <2>6. Differ(bs) BY <2>2, <2>3, <2>4 DEF Differ
    <2>. QED BY <2>5, <2>6
  <1>12. KeepsOne(p, "merged", bs) BY DEF KeepsOne
  <1>. QED BY <1>7, <1>8, <1>9, <1>10, <1>11, <1>12, GuardedKept DEF bs

LEMMA SourceBackKept ==
    ASSUME TypeOK, NEW q \in Pages, NEW p \in Pages
    PROVE  Keeps(q, "merge_undone", RestoredSource(q, p))
  <1>. DEFINE n == Version(q) + 1
              Twice(b) == b.lock \/ CoveredTwice(p, b)
              Lost(b) == \E t \in Tombs(Blocks(p)) : Covers(t, b)
              R(b) == IF Lost(b) THEN Removed(b, Twice(b), n) ELSE b
              bs == RestoredSource(q, p)
  <1>1. Blocks(q) \subseteq Block /\ n \in Nat BY PageTyped
  <1>2. bs = {R(b) : b \in Blocks(q)} BY DEF RestoredSource
  <1>3. ASSUME NEW b \in Blocks(q)
        PROVE  /\ R(b) \in Block /\ SameText(R(b), b)
               /\ \/ R(b) = b
                  \/ R(b).life = n /\ R(b).gone /\ ~R(b).released
    <2>1. b \in Block BY <1>1
    <2>2. Twice(b) \in BOOLEAN OBVIOUS
    <2>. HIDE DEF n, Lost, Twice
    <2>. QED BY <1>1, <2>1, <2>2, RemovedBlock DEF SameText, Alike
  <1>. HIDE DEF R, bs
  <1>4. KeepsTombs(q, "merge_undone", bs)
    <2>1. ASSUME NEW t \in Tombs(Blocks(q))
          PROVE  \E u \in Tombs(bs) : SameText(u, t) /\ u.life \in {t.life, n}
      <3>1. t \in Blocks(q) /\ t.gone /\ ~t.released BY DEF Tombs
      <3>2. R(t) \in bs BY <1>2, <3>1
      <3>3. R(t) \in Tombs(bs) BY <1>3, <3>1, <3>2 DEF Tombs
      <3>. QED BY <1>3, <3>1, <3>3
    <2>. QED BY <2>1 DEF KeepsTombs
  <1>5. OldTombs(q, bs)
    <2>1. ASSUME NEW t \in Tombs(bs), t.life # n
          PROVE  \E u \in Tombs(Blocks(q)) : SameText(u, t) /\ u.life = t.life
      <3>1. t \in bs /\ t.gone /\ ~t.released BY DEF Tombs
      <3>2. PICK b \in Blocks(q) : t = R(b) BY <1>2, <3>1
      <3>3. t = b BY <1>3, <2>1, <3>2
      <3>. QED BY <3>1, <3>3 DEF Tombs, SameText, Alike
    <2>. QED BY <2>1 DEF OldTombs
  <1>6. bs \subseteq Block BY <1>2, <1>3
  <1>7. ASSUME NEW c \in bs
        PROVE  \E b \in Blocks(q) : c = R(b) /\ c.id = b.id /\ (~c.gone => c = b)
    BY <1>2, <1>3 DEF SameText
  <1>8. KeepsIds(bs) BY <1>7, IdsHere DEF KeepsIds, Differ, Numbered
  <1>9. KeepsOne(q, "merge_undone", bs) BY <1>7 DEF KeepsOne, One
  <1>. QED BY <1>4, <1>5, <1>6, <1>8, <1>9 DEF Keeps, KeepsLocks, KeepsOwners, OwnersLater, Ops, bs

-----------------------------------------------------------------------------
(* What the record of a page tells of its deletions, but for identities    *)
(* that two blocks of one version have.                                    *)

At(p, v) == past[p][v].blocks
Undoable(p, v, w) == \A x \in (v + 2)..w : past[p][x].op \in OwnersLater

\* A deletion that is older than a version is in that version too.
Backward(p) ==
    \A w \in 1..Version(p) : \A v \in 1..w : \A t \in Tombs(At(p, w)) :
        \/ t.life > v
        \/ \E u \in Tombs(At(p, v)) : SameText(u, t) /\ u.life = t.life
        \/ Twinned(p, t.id)

\* While a version can be returned to, what is deleted in it is deleted still,
\* or has been decided on since.
Forward(p) ==
    \A w \in 1..Version(p) : \A v \in 1..(w - 1) :
        Undoable(p, v, w) =>
            \A t \in Tombs(At(p, v)) :
                \/ \E u \in Tombs(At(p, w)) : SameText(u, t) /\ u.life = t.life
                \/ \E c \in At(p, w) : c.id = t.id /\ c.life > v
                \/ Twinned(p, t.id)

Remembers(p) == Backward(p) /\ Forward(p)
HistoryInv == \A p \in Pages : Remembers(p)

LEMMA Present ==
    ASSUME TypeOK, NEW p \in Pages, Version(p) > 0
    PROVE  Blocks(p) = At(p, Version(p))
  <1>1. past[p] # <<>> BY DEF Version
  <1>. QED BY <1>1 DEF Blocks, At

LEMMA HistoryStep ==
    ASSUME TypeOK, NEW p \in Pages, NEW op, NEW bs, NEW sources \in SUBSET Pages,
           Keeps(p, op, bs), Grown(p, op, bs, sources), Remembers(p)
    PROVE  Remembers(p)'
  <1>0. PICK n \in Nat : n = Version(p) BY PageTyped
  <1>. USE <1>0
  <1>1. n \in Nat /\ \A v \in 1..n : At(p, v) \subseteq Block
    BY <1>0, PageTyped DEF At, Change
  <1>2. op \in Ops /\ bs \in SUBSET Block BY DEF Keeps
  <1>3. /\ Version(p)' = n + 1
        /\ At(p, n + 1)' = bs
        /\ past'[p][n + 1].op = op
        /\ \A v \in 1..n : past'[p][v] = past[p][v] /\ At(p, v)' = At(p, v)
    <2>1. /\ Version(p)' = Version(p) + 1
          /\ past'[p][Version(p) + 1] = Recorded(op, bs, sources)
          /\ \A v \in 1..Version(p) : past'[p][v] = past[p][v]
      BY <1>2, GrownPage
    <2>2. past'[p][n + 1] = Recorded(op, bs, sources) BY <1>0, <2>1
    <2>3. past'[p][n + 1].blocks = bs /\ past'[p][n + 1].op = op BY <2>2 DEF Recorded
    <2>. QED BY <1>0, <2>1, <2>3 DEF At
  <1>4. n > 0 => Blocks(p) = At(p, n) BY <1>0, Present
  <1>5. bs \subseteq Block /\ \A b \in bs : b.life \in Nat BY <1>2 DEF Block
  <1>8. \A id : Twinned(p, id) => Twinned(p, id)' BY <1>1, <1>3 DEF Twinned
  <1>6. Backward(p)'
    <2>1. ASSUME NEW w \in 1..(n + 1), NEW v \in 1..w, NEW t \in Tombs(At(p, w))'
          PROVE  \/ t.life > v
                 \/ \E u \in Tombs(At(p, v))' : SameText(u, t) /\ u.life = t.life
                 \/ Twinned(p, t.id)'
      <3>1. CASE w \in 1..n
        <4>1. v \in 1..n BY <1>1, <3>1
        <4>2. Tombs(At(p, w))' = Tombs(At(p, w)) /\ Tombs(At(p, v))' = Tombs(At(p, v))
          BY <1>3, <3>1, <4>1 DEF Tombs
        <4>. QED BY <1>8, <2>1, <3>1, <4>2 DEF Remembers, Backward
      <3>2. CASE w = n + 1
        <4>1. t \in Tombs(bs) BY <1>3, <3>2 DEF Tombs
        <4>2. CASE v = n + 1
          <5>1. t \in Tombs(At(p, v))' BY <3>2, <4>2
          <5>. QED BY <5>1 DEF SameText, Alike
        <4>3. CASE v \in 1..n
          <5>1. n > 0 BY <1>1, <4>3
          <5>2. CASE t.life = n + 1 BY <1>1, <4>3, <5>2
          <5>3. CASE Twinned(p, t.id) BY <1>8, <5>3
          <5>4. CASE t.life # n + 1 /\ ~Twinned(p, t.id)
            <6>1. PICK u \in Tombs(At(p, n)) : SameText(u, t) /\ u.life = t.life
              BY <1>4, <4>1, <5>1, <5>4 DEF Keeps, OldTombs
            <6>2. n \in 1..n /\ v \in 1..n BY <1>1, <4>3, <5>1
            <6>3. \/ u.life > v
                  \/ \E x \in Tombs(At(p, v)) : SameText(x, u) /\ x.life = u.life
                  \/ Twinned(p, u.id)
              BY <6>2 DEF Remembers, Backward
            <6>4. Tombs(At(p, v))' = Tombs(At(p, v)) BY <1>3, <4>3 DEF Tombs
            <6>. QED BY <5>4, <6>1, <6>3, <6>4 DEF SameText, Alike
          <5>. QED BY <5>2, <5>3, <5>4
        <4>. QED BY <1>1, <2>1, <3>2, <4>2, <4>3
      <3>. QED BY <1>1, <2>1, <3>1, <3>2
    <2>. QED BY <1>3, <2>1 DEF Backward
  <1>7. Forward(p)'
    <2>1. ASSUME NEW w \in 1..(n + 1), NEW v \in 1..(w - 1), Undoable(p, v, w)',
                 NEW t \in Tombs(At(p, v))'
          PROVE  \/ \E u \in Tombs(At(p, w))' : SameText(u, t) /\ u.life = t.life
                 \/ \E c \in At(p, w)' : c.id = t.id /\ c.life > v
                 \/ Twinned(p, t.id)'
      <3>1. v \in 1..n BY <1>1, <2>1
      <3>2. t \in Tombs(At(p, v)) BY <1>3, <3>1 DEF Tombs
      <3>3. CASE w \in 1..n
        <4>1. Undoable(p, v, w) BY <1>1, <1>3, <2>1, <3>3 DEF Undoable
        <4>2. Tombs(At(p, w))' = Tombs(At(p, w)) /\ At(p, w)' = At(p, w)
          BY <1>3, <3>3 DEF Tombs
        <4>. QED BY <1>8, <2>1, <3>2, <3>3, <4>1, <4>2 DEF Remembers, Forward
      <3>4. CASE w = n + 1
        <4>1. Tombs(At(p, w))' = Tombs(bs) /\ At(p, w)' = bs BY <1>3, <3>4 DEF Tombs
        <4>2. n > 0 /\ n + 1 > v BY <1>1, <3>1
        \* What becomes of a deletion of the last version.
        <4>3. ASSUME NEW u \in Tombs(At(p, n)), SameText(u, t), u.life = t.life
              PROVE  \/ \E x \in Tombs(bs) : SameText(x, t) /\ x.life = t.life
                     \/ \E c \in bs : c.id = t.id /\ c.life > v
                     \/ Twinned(p, t.id)
          <5>1. u \in Tombs(Blocks(p)) BY <1>4, <4>2, <4>3
          <5>2. \/ \E x \in Tombs(bs) : SameText(x, u) /\ x.life \in {u.life, n + 1}
                \/ \E x \in bs : SameText(x, u) /\ x.life = n + 1
                \/ Twinned(p, t.id)
            BY <4>3, <5>1 DEF Keeps, KeepsTombs, SameText
          <5>3. \A x : SameText(x, u) => SameText(x, t) /\ x.id = t.id
            BY <4>3 DEF SameText, Alike
          <5>4. CASE \E x \in bs : SameText(x, u) /\ x.life = n + 1
            BY <4>2, <5>3, <5>4
          <5>5. CASE \E x \in Tombs(bs) : SameText(x, u) /\ x.life = u.life
            BY <4>3, <5>3, <5>5
          <5>6. Tombs(bs) \subseteq bs BY DEF Tombs
          <5>. QED BY <5>2, <5>4, <5>5, <5>6
        <4>4. CASE v = n
          BY <1>8, <3>2, <4>1, <4>3, <4>4 DEF SameText, Alike
        <4>5. CASE v # n
          <5>1. n \in 1..n /\ v \in 1..(n - 1) BY <1>1, <3>1, <4>5
          <5>2. n + 1 \in (v + 2)..w /\ op \in OwnersLater
            BY <1>1, <1>3, <2>1, <3>4, <5>1 DEF Undoable
          <5>3. Undoable(p, v, n) BY <1>1, <1>3, <2>1, <3>4, <5>1 DEF Undoable
          <5>4. \/ \E u \in Tombs(At(p, n)) : SameText(u, t) /\ u.life = t.life
                \/ \E c \in At(p, n) : c.id = t.id /\ c.life > v
                \/ Twinned(p, t.id)
            BY <3>2, <5>1, <5>3 DEF Remembers, Forward
          <5>5. ASSUME NEW c \in At(p, n), c.id = t.id, c.life > v
                PROVE  \E d \in bs : d.id = t.id /\ d.life > v
            <6>1. PICK d \in bs : d.id = c.id /\ d.life \in {c.life, n + 1}
              BY <1>4, <4>2, <5>2 DEF Keeps, KeepsOwners
            <6>. QED BY <4>2, <5>5, <6>1
          <5>. QED BY <1>8, <4>1, <4>3, <5>4, <5>5
        <4>. QED BY <4>4, <4>5
      <3>. QED BY <1>1, <2>1, <3>3, <3>4
    <2>. QED BY <1>3, <2>1 DEF Forward
  <1>. QED BY <1>6, <1>7 DEF Remembers

LEMMA RevertedKept ==
    ASSUME TypeOK, HistoryInv, NEW p \in Pages, NEW v \in 1..Version(p), v < Version(p),
           \A w \in (v + 2)..Version(p) : past[p][w].op \in OwnersLater,
           NEW target \in OnePerId(past[p][v].blocks)
    PROVE  Keeps(p, "reverted", RevertedBlocks(p, v, target))
  <1>. DEFINE n == Version(p)
              kept == Independent(p, v)
              bs == RevertedBlocks(p, v, target)
  <1>1. /\ n \in Nat /\ n > 0 /\ v \in Nat /\ v \in 1..(n - 1) /\ n \in 1..n
        /\ Blocks(p) \subseteq Block /\ At(p, v) \subseteq Block /\ Blocks(p) = At(p, n)
    BY PageTyped, Present DEF At, Change
  <1>2. bs = {b \in {c \in target : c.id \notin kept}
                  \cup {c \in Blocks(p) : c.id \in kept} : b.gone \/ Supported(b)}
    BY DEF RevertedBlocks
  <1>9. /\ target \subseteq At(p, v)
        /\ \A b \in At(p, v) : \E c \in target : c.id = b.id
    BY DEF OnePerId, At
  <1>3. ASSUME NEW c \in Blocks(p), c.life > v PROVE c.id \in kept
    <2>. DEFINE late == {b.id : b \in {d \in Blocks(p) : d.life > v}}
    <2>1. c.id \in late BY <1>3
    <2>2. late \subseteq kept BY DEF Independent
    <2>. QED BY <2>1, <2>2
  <1>4. Backward(p) /\ Forward(p) BY DEF HistoryInv, Remembers
  <1>5. Undoable(p, v, n) BY DEF Undoable
  <1>. HIDE DEF bs, kept, n
  <1>6. KeepsTombs(p, "reverted", bs)
    <2>1. ASSUME NEW t \in Tombs(Blocks(p))
          PROVE  \/ \E u \in Tombs(bs) : SameText(u, t) /\ u.life = t.life
                 \/ Twinned(p, t.id)
      <3>1. t \in Blocks(p) /\ t.gone /\ ~t.released BY DEF Tombs
      <3>2. CASE t.id \in kept
        <4>1. t \in Tombs(bs) BY <1>2, <3>1, <3>2 DEF Tombs
        <4>. QED BY <4>1 DEF SameText, Alike
      <3>3. CASE t.id \notin kept /\ ~Twinned(p, t.id)
        <4>1. ~(t.life > v) BY <1>3, <3>1, <3>3
        <4>2. t \in Tombs(At(p, n)) BY <1>1
        <4>3. v \in 1..n BY <1>1
        <4>4. PICK u \in Tombs(At(p, v)) : SameText(u, t) /\ u.life = t.life
          BY <1>1, <1>4, <3>3, <4>1, <4>2, <4>3 DEF Backward, n
        <4>5. u \in At(p, v) /\ u.gone /\ ~u.released /\ u.id \notin kept
          BY <3>3, <4>4 DEF Tombs, SameText
        <4>6. PICK c \in target : c.id = u.id BY <1>9, <4>5
        <4>7. c = u
          <5>1. c \in At(p, v) /\ c.id = t.id /\ u.id = t.id
            BY <1>9, <4>4, <4>6 DEF SameText
          <5>2. ASSUME c # u PROVE Twinned(p, t.id)
            BY <4>5, <5>1, <5>2 DEF Twinned, At
          <5>. QED BY <3>3, <5>2
        <4>8. u \in Tombs(bs) BY <1>2, <4>5, <4>6, <4>7 DEF Tombs
        <4>. QED BY <4>4, <4>8
      <3>. QED BY <3>2, <3>3
    <2>. QED BY <2>1 DEF KeepsTombs
  <1>7. OldTombs(p, bs)
    <2>1. ASSUME NEW t \in Tombs(bs)
          PROVE  \/ \E u \in Tombs(Blocks(p)) : SameText(u, t) /\ u.life = t.life
                 \/ Twinned(p, t.id)
      <3>1. t \in bs /\ t.gone /\ ~t.released BY DEF Tombs
      <3>2. CASE t \in Blocks(p)
        <4>1. t \in Tombs(Blocks(p)) BY <3>1, <3>2 DEF Tombs
        <4>. QED BY <4>1 DEF SameText, Alike
      <3>3. CASE t \in target /\ t.id \notin kept
        <4>1. t \in Tombs(At(p, v)) BY <1>9, <3>1, <3>3 DEF Tombs
        <4>2. \/ \E u \in Tombs(At(p, n)) : SameText(u, t) /\ u.life = t.life
              \/ \E c \in At(p, n) : c.id = t.id /\ c.life > v
              \/ Twinned(p, t.id)
          BY <1>1, <1>4, <1>5, <4>1 DEF Forward, n
        <4>. QED BY <1>1, <1>3, <3>3, <4>2
      <3>. QED BY <1>2, <3>1, <3>2, <3>3
    <2>. QED BY <2>1 DEF OldTombs
  <1>8. bs \subseteq Block BY <1>1, <1>2, <1>9
  <1>10. KeepsIds(bs)
    <2>. SUFFICES ASSUME IdsInv PROVE Differ(bs) /\ Numbered(bs, steps + 1)
      BY DEF KeepsIds
    <2>1. \A c, d \in target : c.id = d.id => c = d BY DEF OnePerId
    <2>2. Numbered(target, steps + 1)
      <3>1. Numbered(At(p, v), steps) BY DEF IdsInv, At
      <3>. QED BY <1>9, <3>1, IdsHere DEF Numbered
    <2>3. Differ(Blocks(p)) /\ Numbered(Blocks(p), steps + 1) BY IdsHere
    <2>. QED BY <1>2, <2>1, <2>2, <2>3 DEF Differ, Numbered
  <1>11. KeepsOne(p, "reverted", bs)
    <2>1. \A c, d \in target : c.id = d.id => c = d BY DEF OnePerId
    <2>. QED BY <1>2, <2>1 DEF KeepsOne, One
  <1>. QED BY <1>6, <1>7, <1>8, <1>10, <1>11 DEF Keeps, KeepsLocks, KeepsOwners, OwnersLater, Ops, bs

-----------------------------------------------------------------------------
(* The shape of a step: some pages grow by one change each, and what waits *)
(* for review on them does not outlive it.                                 *)

GrownTo(p, op, bs, sources) == Keeps(p, op, bs) /\ Grown(p, op, bs, sources)
Moves(G) ==
    /\ G \subseteq Pages
    /\ \A p \in G : /\ status'[p] # "absent"
                    /\ \E op, bs : \E sources \in SUBSET Pages : GrownTo(p, op, bs, sources)
    /\ \A p \in Pages \ G : past'[p] = past[p] /\ status'[p] = status[p]
    /\ past' \in [Pages -> Seq(Change)]
    /\ status' \in [Pages -> {"absent", "active", "archived", "merged"}]
    /\ into' \in [Pages -> Pages \cup {NoPage}]
    /\ steps' \in 0..MaxSteps /\ steps' = steps + 1
    /\ cur' = cur
    /\ held' \subseteq Held
    /\ \E kept : \E s \in {"stale", "accepted"} : Decide(kept, s, G)
    /\ (\E p \in G : LastOp(p)' = "merged") => \E q, p \in Pages : DoMerge(q, p)

\* A command on one page.
LEMMA OneMoves ==
    ASSUME TypeOK, NEW p \in Pages, NEW op, op # "merged", NEW bs,
           Keeps(p, op, bs), Write(p, op, bs),
           NEW kept, NEW s \in {"stale", "accepted"}, Decide(kept, s, {p}),
           NEW st \in {"active", "archived", "merged"}, status' = [status EXCEPT ![p] = st],
           UNCHANGED <<into, held, cur>>
    PROVE  Moves({p})
  <1>1. op \in Ops /\ bs \in SUBSET Block BY DEF Keeps
  <1>2. /\ Grown(p, op, bs, Redirected(p)) /\ Redirected(p) \in SUBSET Pages
        /\ \A q \in Pages \ {p} : past'[q] = past[q]
        /\ past' \in [Pages -> Seq(Change)]
        /\ steps' \in 0..MaxSteps /\ steps' = steps + 1
    BY <1>1, Wrote
  <1>3. /\ status' \in [Pages -> {"absent", "active", "archived", "merged"}]
        /\ status'[p] # "absent" /\ \A q \in Pages \ {p} : status'[q] = status[q]
    BY DEF TypeOK
  <1>4. \E op1, bs1 : \E sources \in SUBSET Pages : GrownTo(p, op1, bs1, sources)
    BY <1>2 DEF GrownTo
  <1>5. into' \in [Pages -> Pages \cup {NoPage}] /\ cur' = cur /\ held' \subseteq Held
    BY DEF TypeOK
  <1>6. \E k : \E t \in {"stale", "accepted"} : Decide(k, t, {p}) OBVIOUS
  <1>7. \A q \in {p} :
           /\ status'[q] # "absent"
           /\ \E op1, bs1 : \E sources \in SUBSET Pages : GrownTo(q, op1, bs1, sources)
    BY <1>3, <1>4
  <1>8. \A q \in Pages \ {p} : past'[q] = past[q] /\ status'[q] = status[q]
    BY <1>2, <1>3
  <1>9. LastOp(p)' # "merged" BY <1>1, <1>2, GrownPage
  <1>. QED BY <1>2, <1>3, <1>5, <1>6, <1>7, <1>8, <1>9 DEF Moves

LEMMA SameStatus ==
    ASSUME TypeOK, NEW p \in Pages, status[p] = "active", status' = status
    PROVE  status' = [status EXCEPT ![p] = "active"]
  BY DEF TypeOK

LEMMA ExpireDecides ==
    ASSUME NEW ps, Expire(ps)
    PROVE  Decide({}, "stale", ps)
  BY DEF Expire

LEMMA BlockCommandMoves ==
    ASSUME TypeOK, NEW p \in Pages, BlockCommand(p)
    PROVE  Moves({p})
  <1>1. ASSUME NEW b \in Blocks(p), NEW t \in Texts, Edit(p, b, t) PROVE Moves({p})
    <2>. DEFINE bs == (Blocks(p) \ {b}) \cup {[b EXCEPT !.text = t, !.lock = TRUE]}
    <2>1. /\ status[p] = "active" /\ ~Buried(Blocks(p), b.id) /\ Write(p, "edit", bs)
          /\ Decide({}, "stale", {p}) /\ UNCHANGED <<status, into, held, cur>>
      BY <1>1, ExpireDecides DEF Edit
    <2>2. Keeps(p, "edit", bs) BY <2>1, EditKept
    <2>. HIDE DEF bs
    <2>. QED BY <2>1, <2>2, SameStatus, OneMoves
  <1>2. ASSUME NEW b \in Blocks(p), Delete(p, b) PROVE Moves({p})
    <2>. DEFINE bs == (Blocks(p) \ {b}) \cup {Gone(b, Version(p) + 1)}
    <2>1. /\ status[p] = "active" /\ ~b.gone /\ Write(p, "delete", bs)
          /\ Decide({}, "stale", {p}) /\ UNCHANGED <<status, into, held, cur>>
      BY <1>2, ExpireDecides DEF Delete, Gone
    <2>2. Keeps(p, "delete", bs) BY <2>1, DeleteKept
    <2>. HIDE DEF bs
    <2>. QED BY <2>1, <2>2, SameStatus, OneMoves
  <1>3. ASSUME NEW b \in Blocks(p), Restore(p, b) PROVE Moves({p})
    <2>. DEFINE bs == (Blocks(p) \ {b}) \cup {Back(b, Version(p) + 1)}
    <2>1. /\ status[p] = "active" /\ Write(p, "restore", bs)
          /\ \A c \in Blocks(p) : c.id = b.id => c.gone
          /\ Decide({}, "stale", {p}) /\ UNCHANGED <<status, into, held, cur>>
      BY <1>3, ExpireDecides DEF Restore, Back
    <2>2. Keeps(p, "restore", bs) BY <2>1, RestoreKept
    <2>. HIDE DEF bs
    <2>. QED BY <2>1, <2>2, SameStatus, OneMoves
  <1>4. ASSUME NEW t \in Texts, Note(p, t) PROVE Moves({p})
    <2>. DEFINE bs == Blocks(p) \cup {NewBlock(<<steps>>, NoteHeading, t, "personal", 0)}
    <2>1. /\ status[p] = "active" /\ Write(p, "note", bs)
          /\ Decide({}, "stale", {p}) /\ UNCHANGED <<status, into, held, cur>>
      BY <1>4, ExpireDecides DEF Note
    <2>2. Keeps(p, "note", bs) BY NoteKept
    <2>. HIDE DEF bs
    <2>. QED BY <2>1, <2>2, SameStatus, OneMoves
  <1>. QED BY <1>1, <1>2, <1>3, <1>4 DEF BlockCommand

LEMMA ShelfMoves ==
    ASSUME TypeOK, NEW p \in Pages, Archive(p) \/ Reopen(p)
    PROVE  Moves({p})
  <1>1. CASE Archive(p)
    <2>1. /\ Write(p, "archive", Blocks(p)) /\ Decide({}, "stale", {p})
          /\ status' = [status EXCEPT ![p] = "archived"] /\ UNCHANGED <<into, held, cur>>
      BY <1>1, ExpireDecides DEF Archive
    <2>2. Keeps(p, "archive", Blocks(p)) BY SameBlocksKept DEF Ops
    <2>. QED BY <2>1, <2>2, OneMoves
  <1>2. CASE Reopen(p)
    <2>1. /\ Write(p, "reopen", Blocks(p)) /\ Decide({}, "stale", {p})
          /\ status' = [status EXCEPT ![p] = "active"] /\ UNCHANGED <<into, held, cur>>
      BY <1>2, ExpireDecides DEF Reopen
    <2>2. Keeps(p, "reopen", Blocks(p)) BY SameBlocksKept DEF Ops
    <2>. QED BY <2>1, <2>2, OneMoves
  <1>. QED BY <1>1, <1>2

LEMMA SavingMoves ==
    ASSUME TypeOK, NEW p \in Pages, Saving(p)
    PROVE  Moves({p})
  <1>1. PICK h \in Headings, t \in Texts, by \in {"source", "analysis", "personal"},
             planned \in BOOLEAN, quoted \in BOOLEAN :
                 Save(p, h, t, by, planned, quoted)
    BY DEF Saving
  <1>. DEFINE new == NewBlock(<<steps>>, h, t, by, IF by = "source" THEN cur ELSE 0)
              bs == SavedBlocks(Released(Blocks(p), new, Version(p) + 1), new, planned,
                                quoted)
  <1>2. /\ Write(p, "saved", bs) /\ Decide({}, "stale", {p})
        /\ status' = [status EXCEPT ![p] = "active"] /\ UNCHANGED <<into, held, cur>>
    BY <1>1, ExpireDecides DEF Save
  <1>3. (IF by = "source" THEN cur ELSE 0) \in Revisions \cup {0} BY DEF TypeOK
  <1>4. new \in Block /\ ~new.gone BY <1>3, FreshId, NewBlockTyped
  <1>6. new.id = <<steps>> BY DEF NewBlock
  <1>. HIDE DEF new
  <1>5. Keeps(p, "saved", bs) BY <1>4, <1>6, SavedKept
  <1>. HIDE DEF bs
  <1>. QED BY <1>2, <1>5, OneMoves

LEMMA PublishMoves ==
    ASSUME TypeOK, NEW p \in Pages, NEW kind, NEW target, NEW h \in Headings,
           NEW t \in Texts, Publish(p, kind, target, h, t)
    PROVE  Moves({p})
  <1>. DEFINE new == Generated(p, Blocks(p), h, t)
              out == Replaced(Blocks(p), kind, target)
              bs == PublishedBlocks(Blocks(p), new, out)
  <1>1. /\ Write(p, "published", bs) /\ Decide({}, "stale", {p})
        /\ status' = [status EXCEPT ![p] = "active"] /\ UNCHANGED <<into, held, cur>>
    BY ExpireDecides DEF Publish
  <1>2. new \in Block /\ ~new.gone /\ new.id[1] \notin Nat BY GeneratedTyped
  <1>3. \A b \in out : ~b.gone /\ ~b.lock BY ReplacedUnlocked
  <1>. HIDE DEF new, out
  <1>4. Keeps(p, "published", bs) BY <1>2, <1>3, PublishedKept
  <1>. HIDE DEF bs
  <1>. QED BY <1>1, <1>4, OneMoves

LEMMA AcceptMoves ==
    ASSUME TypeOK, NEW o \in offers, Accept(o)
    PROVE  Moves({o.page})
  <1>. DEFINE p == o.page
              new == Generated(p, Blocks(p), o.head, o.text)
              out == Replaced(Blocks(p), o.kind, o.target)
              bs == PublishedBlocks(Blocks(p), new, out)
  <1>1. p \in Pages /\ o.head \in Headings /\ o.text \in Texts BY DEF TypeOK, Offer
  <1>2. /\ Write(p, "published", bs) /\ Decide({o}, "accepted", {p})
        /\ status[p] = "active" /\ UNCHANGED <<status, into, held, cur>>
    BY DEF Accept, Reviewable
  <1>3. new \in Block /\ ~new.gone /\ new.id[1] \notin Nat BY <1>1, GeneratedTyped
  <1>4. \A b \in out : ~b.gone /\ ~b.lock BY ReplacedUnlocked
  <1>. HIDE DEF new, out
  <1>5. Keeps(p, "published", bs) BY <1>1, <1>3, <1>4, PublishedKept
  <1>6. status' = [status EXCEPT ![p] = "active"] BY <1>1, <1>2, SameStatus
  <1>. HIDE DEF bs
  <1>. QED BY <1>1, <1>2, <1>5, <1>6, OneMoves

LEMMA MergeMoves ==
    ASSUME TypeOK, NEW q \in Pages, NEW p \in Pages, DoMerge(q, p), held' \subseteq Held
    PROVE  Moves({p, q})
  <1>. DEFINE ps == MergedBlocks(q, p)
              qs == Blocks(q)
              sp == Redirected(p) \cup {q}
              sq == Redirected(q)
  <1>1. /\ q # p /\ status[q] = "active" /\ status[p] = "active"
        /\ steps < MaxSteps /\ steps' = steps + 1
        /\ status' = [status EXCEPT ![q] = "merged"]
        /\ into' = [into EXCEPT ![q] = p]
        /\ past' = [past EXCEPT ![p] = Append(@, Recorded("merged", ps, sp)),
                                ![q] = Append(@, Recorded("merged", qs, sq))]
        /\ Decide({}, "stale", {p, q}) /\ cur' = cur
    BY ExpireDecides DEF DoMerge, Mergeable
  <1>2. Keeps(p, "merged", ps) BY MergedKept
  <1>3. Keeps(q, "merged", qs) BY SameBlocksKept DEF Ops
  <1>4. sp \in SUBSET Pages /\ sq \in SUBSET Pages BY DEF Redirected
  <1>. HIDE DEF ps, qs, sp, sq
  <1>5. Recorded("merged", ps, sp) \in Change /\ Recorded("merged", qs, sq) \in Change
    BY <1>2, <1>3, <1>4 DEF Keeps, Recorded, Change
  <1>6. past \in [Pages -> Seq(Change)] BY DEF TypeOK
  <1>7. /\ Append(past[p], Recorded("merged", ps, sp)) \in Seq(Change)
        /\ Append(past[q], Recorded("merged", qs, sq)) \in Seq(Change)
    BY <1>5, <1>6
  <1>8. /\ past' \in [Pages -> Seq(Change)]
        /\ Grown(p, "merged", ps, sp) /\ Grown(q, "merged", qs, sq)
        /\ \A r \in Pages \ {p, q} : past'[r] = past[r]
    BY <1>1, <1>6, <1>7 DEF Grown
  <1>9. \A r \in {p, q} :
           /\ status'[r] # "absent"
           /\ \E op, bs : \E sources \in SUBSET Pages : GrownTo(r, op, bs, sources)
    <2>1. status'[p] # "absent" /\ status'[q] # "absent" BY <1>1 DEF TypeOK
    <2>2. GrownTo(p, "merged", ps, sp) /\ GrownTo(q, "merged", qs, sq)
      BY <1>2, <1>3, <1>8 DEF GrownTo
    <2>. QED BY <1>4, <2>1, <2>2
  <1>10. /\ status' \in [Pages -> {"absent", "active", "archived", "merged"}]
         /\ \A r \in Pages \ {p, q} : status'[r] = status[r]
         /\ into' \in [Pages -> Pages \cup {NoPage}]
    BY <1>1 DEF TypeOK
  <1>11. steps' \in 0..MaxSteps BY <1>1, WikiAssumption DEF TypeOK
  <1>12. \E k : \E t \in {"stale", "accepted"} : Decide(k, t, {p, q}) BY <1>1
  <1>13. \E r, t \in Pages : DoMerge(r, t) OBVIOUS
  <1>. QED BY <1>13, <1>1, <1>8, <1>9, <1>10, <1>11, <1>12 DEF Moves

LEMMA RevertMoves ==
    ASSUME TypeOK, HistoryInv, NEW p \in Pages, NEW v \in 1..Version(p), Revert(p, v)
    PROVE  Moves({p} \cup (Redirected(p) \ past[p][v].sources))
  <1>. DEFINE back == Redirected(p) \ past[p][v].sources
  <1>0. PICK target \in OnePerId(past[p][v].blocks) :
           past' = [q \in Pages |->
             IF q = p THEN Append(past[p], Recorded("reverted", RevertedBlocks(p, v, target),
                                                    Redirected(p) \ back))
             ELSE IF q \in back
             THEN Append(past[q], Recorded("merge_undone", RestoredSource(q, p), Redirected(q)))
             ELSE past[q]]
    BY DEF Revert
  <1>. DEFINE ps == RevertedBlocks(p, v, target)
              sp == Redirected(p) \ back
  <1>1. /\ status[p] = "active" /\ v < Version(p)
        /\ \A w \in (v + 2)..Version(p) : past[p][w].op \in OwnersLater
        /\ \A q \in back : status[q] = "merged"
        /\ steps < MaxSteps /\ steps' = steps + 1
        /\ status' = [q \in Pages |-> IF q \in back THEN "active" ELSE status[q]]
        /\ into' = [q \in Pages |-> IF q \in back THEN NoPage ELSE into[q]]
        /\ past' = [q \in Pages |->
              IF q = p THEN Append(past[p], Recorded("reverted", ps, sp))
              ELSE IF q \in back
              THEN Append(past[q], Recorded("merge_undone", RestoredSource(q, p), Redirected(q)))
              ELSE past[q]]
        /\ Decide({}, "stale", {p} \cup back) /\ held' = held /\ cur' = cur
    BY <1>0, ExpireDecides DEF Revert
  <1>2. back \subseteq Pages /\ sp \in SUBSET Pages /\ p \notin back
    BY <1>1 DEF Redirected
  <1>3. Keeps(p, "reverted", ps) BY <1>1, RevertedKept
  <1>4. \A q \in back : Keeps(q, "merge_undone", RestoredSource(q, p))
    BY <1>2, SourceBackKept
  <1>. HIDE DEF back, ps, sp
  <1>5. past \in [Pages -> Seq(Change)] BY DEF TypeOK
  <1>6. Recorded("reverted", ps, sp) \in Change
    BY <1>2, <1>3 DEF Keeps, Recorded, Change
  <1>7. ASSUME NEW q \in back
        PROVE  Recorded("merge_undone", RestoredSource(q, p), Redirected(q)) \in Change
    <2>1. Redirected(q) \in SUBSET Pages BY DEF Redirected
    <2>. QED BY <1>4, <2>1 DEF Keeps, Recorded, Change
  <1>8. past' \in [Pages -> Seq(Change)]
    <2>1. ASSUME NEW q \in Pages PROVE past'[q] \in Seq(Change)
      <3>1. CASE q = p BY <1>1, <1>5, <1>6, <3>1
      <3>2. CASE q \in back
        <4>1. past'[q] = Append(past[q], Recorded("merge_undone", RestoredSource(q, p),
                                                  Redirected(q)))
          BY <1>1, <1>2, <3>2
        <4>. QED BY <1>5, <1>7, <3>2, <4>1
      <3>3. CASE q # p /\ q \notin back BY <1>1, <1>5, <3>3
      <3>. QED BY <3>1, <3>2, <3>3
    <2>. QED BY <1>1, <2>1
  <1>9. ASSUME NEW q \in {p} \cup back
        PROVE  /\ status'[q] # "absent"
               /\ \E op, bs : \E sources \in SUBSET Pages : GrownTo(q, op, bs, sources)
    <2>1. CASE q = p
      <3>1. GrownTo(p, "reverted", ps, sp) BY <1>1, <1>3 DEF GrownTo, Grown
      <3>2. status'[p] = "active" BY <1>1, <1>2
      <3>. QED BY <1>2, <2>1, <3>1, <3>2
    <2>2. CASE q \in back
      <3>1. GrownTo(q, "merge_undone", RestoredSource(q, p), Redirected(q))
        BY <1>1, <1>2, <1>4, <2>2 DEF GrownTo, Grown
      <3>2. status'[q] = "active" BY <1>1, <1>2, <2>2
      <3>3. Redirected(q) \in SUBSET Pages BY DEF Redirected
      <3>. QED BY <3>1, <3>2, <3>3
    <2>. QED BY <2>1, <2>2
  <1>10. \A q \in Pages \ ({p} \cup back) : past'[q] = past[q] /\ status'[q] = status[q]
    BY <1>1
  <1>11. /\ status' \in [Pages -> {"absent", "active", "archived", "merged"}]
         /\ into' \in [Pages -> Pages \cup {NoPage}]
    BY <1>1 DEF TypeOK
  <1>12. steps' \in 0..MaxSteps BY <1>1, WikiAssumption DEF TypeOK
  <1>13. held' \subseteq Held BY <1>1 DEF TypeOK
  <1>14. \E k : \E t \in {"stale", "accepted"} : Decide(k, t, {p} \cup back) BY <1>1
  <1>15. {p} \cup back \subseteq Pages BY <1>2
  <1>17. ASSUME NEW q \in {p} \cup back PROVE LastOp(q)' # "merged"
    <2>2. CASE q = p
      <3>1. Grown(p, "reverted", ps, sp) BY <1>1 DEF Grown
      <3>2. ps \in SUBSET Block /\ "reverted" \in Ops BY <1>3 DEF Keeps
      <3>. QED BY <1>2, <2>2, <3>1, <3>2, GrownPage
    <2>3. CASE q \in back
      <3>1. Grown(q, "merge_undone", RestoredSource(q, p), Redirected(q))
        BY <1>1, <1>2, <2>3 DEF Grown
      <3>2. RestoredSource(q, p) \in SUBSET Block /\ "merge_undone" \in Ops
        BY <1>4, <2>3 DEF Keeps
      <3>3. Redirected(q) \in SUBSET Pages BY DEF Redirected
      <3>. QED BY <1>2, <2>3, <3>1, <3>2, <3>3, GrownPage
    <2>. QED BY <2>2, <2>3
  <1>16. Moves({p} \cup back)
    BY <1>17, <1>1, <1>8, <1>9, <1>10, <1>11, <1>12, <1>13, <1>14, <1>15 DEF Moves
  <1>. QED BY <1>16 DEF back

\* A step that changes no page.
Waits == /\ UNCHANGED <<status, into, past, steps>>
         /\ offers' \subseteq Offer
         /\ held' \subseteq Held
         /\ cur' \in Revisions
         /\ PendingIsCurrent => PendingIsCurrent'

LEMMA DecidedOffers ==
    ASSUME TypeOK, NEW kept, NEW s \in {"accepted", "rejected", "stale"}, NEW ps,
           Decide(kept, s, ps)
    PROVE  /\ offers' \subseteq Offer
           /\ \A o \in offers' : o.status = "pending" => o \in offers /\ o.page \notin ps
  <1>. DEFINE st(o) == IF o \in kept THEN s
                       ELSE IF o.status = "pending" /\ o.page \in ps THEN "stale" ELSE o.status
  <1>1. offers' = {[o EXCEPT !.status = st(o)] : o \in offers} BY DEF Decide
  <1>2. ASSUME NEW o \in offers
        PROVE  LET n == [o EXCEPT !.status = st(o)]
               IN  n \in Offer /\ (n.status = "pending" => n = o /\ o.page \notin ps)
    <2>1. o \in Offer BY DEF TypeOK
    <2>2. st(o) \in {"pending", "accepted", "rejected", "stale"} BY <2>1 DEF Offer
    <2>3. st(o) = "pending" => o.status = "pending" /\ o.page \notin ps OBVIOUS
    <2>. HIDE DEF st
    <2>4. [o EXCEPT !.status = st(o)] \in Offer BY <2>1, <2>2 DEF Offer
    <2>5. [o EXCEPT !.status = st(o)].status = st(o) BY <2>1 DEF Offer
    <2>6. o.status = "pending" => [o EXCEPT !.status = "pending"] = o BY <2>1 DEF Offer
    <2>. QED BY <2>3, <2>4, <2>5, <2>6
  <1>. HIDE DEF st
  <1>. QED BY <1>1, <1>2

LEMMA ProposeWaits ==
    ASSUME TypeOK, NEW p \in Pages, NEW kind \in {"add", "revise"}, NEW target \in Ids,
           NEW h \in Headings, NEW t \in Texts, Propose(p, kind, target, h, t)
    PROVE  Waits
  <1>. DEFINE o == [page |-> p, version |-> Version(p), kind |-> kind, target |-> target,
                    head |-> h, text |-> t, rev |-> cur, status |-> "pending"]
              Old(x) == IF x.page = p /\ x.status = "pending"
                        THEN [x EXCEPT !.status = "stale"] ELSE x
  <1>1. /\ Reviewable(o)
        /\ offers' = {Old(x) : x \in offers} \cup {o}
        /\ UNCHANGED <<status, into, past, held, cur, steps>>
    BY DEF Propose
  <1>2. Version(p) \in Nat BY PageTyped
  <1>3. o \in Offer /\ o.page = p /\ o.status = "pending" BY <1>2 DEF Offer, TypeOK
  <1>4. status[p] = "active" /\ Version(p) = o.version BY <1>1 DEF Reviewable
  <1>5. ASSUME NEW x \in offers
        PROVE  /\ Old(x) \in Offer
               /\ Old(x).status = "pending" => Old(x) = x /\ x.page # p
    <2>1. x \in Offer BY DEF TypeOK
    <2>2. /\ [x EXCEPT !.status = "stale"] \in Offer
          /\ [x EXCEPT !.status = "stale"].status = "stale"
      BY <2>1 DEF Offer
    <2>. QED BY <2>1, <2>2
  <1>. HIDE DEF o, Old
  <1>6. offers' \subseteq Offer BY <1>1, <1>3, <1>5
  <1>7. \A r \in Pages : Version(r)' = Version(r) BY <1>1 DEF Version
  <1>8. ASSUME PendingIsCurrent PROVE PendingIsCurrent'
    <2>1. ASSUME NEW y \in offers', y.status = "pending"
          PROVE  /\ status'[y.page] = "active" /\ Version(y.page)' = y.version
                 /\ \A x \in offers' : x.page = y.page /\ x.status = "pending" => x = y
      <3>1. \A x \in offers' : x.status = "pending" => x = o \/ (x \in offers /\ x.page # p)
        BY <1>1, <1>5
      <3>2. CASE y = o BY <1>1, <1>3, <1>4, <1>7, <3>1, <3>2
      <3>3. CASE y \in offers /\ y.page # p
        <4>1. y.page \in Pages BY <3>3 DEF TypeOK, Offer
        <4>. QED BY <1>1, <1>3, <1>7, <1>8, <2>1, <3>1, <3>3, <4>1 DEF PendingIsCurrent
      <3>. QED BY <2>1, <3>1, <3>2, <3>3
    <2>. QED BY <2>1 DEF PendingIsCurrent
  <1>9. held' \subseteq Held /\ cur' \in Revisions BY <1>1 DEF TypeOK
  <1>. QED BY <1>1, <1>6, <1>8, <1>9 DEF Waits

LEMMA RefuseWaits ==
    ASSUME TypeOK, NEW o \in offers, Refuse(o)
    PROVE  Waits
  <1>1. PICK s \in {"rejected", "stale"} : Decide({o}, s, {}) BY DEF Refuse
  <1>2. UNCHANGED <<status, into, past, held, cur, steps>> BY DEF Refuse
  <1>3. /\ offers' \subseteq Offer
        /\ \A x \in offers' : x.status = "pending" => x \in offers
    BY <1>1, DecidedOffers
  <1>4. \A r \in Pages : Version(r)' = Version(r) BY <1>2 DEF Version
  <1>5. \A x \in offers : x.page \in Pages BY DEF TypeOK, Offer
  <1>6. PendingIsCurrent => PendingIsCurrent' BY <1>2, <1>3, <1>4, <1>5 DEF PendingIsCurrent
  <1>. QED BY <1>2, <1>3, <1>6 DEF Waits, TypeOK

LEMMA SameOffersWait ==
    ASSUME TypeOK, UNCHANGED <<status, into, past, offers, steps>>,
           held' \subseteq Held, cur' \in Revisions
    PROVE  Waits
  <1>1. \A r \in Pages : Version(r)' = Version(r) BY DEF Version
  <1>2. \A x \in offers : x.page \in Pages BY DEF TypeOK, Offer
  <1>3. PendingIsCurrent => PendingIsCurrent' BY <1>1, <1>2 DEF PendingIsCurrent
  <1>. QED BY <1>3 DEF Waits, TypeOK

LEMMA HeldTyped ==
    ASSUME TypeOK, NEW h \in held, NEW s \in {"accepted", "rejected", "stale"}, DecideHeld(h, s)
    PROVE  held' \subseteq Held
  BY DEF DecideHeld, TypeOK, Held

LEMMA HoldWaits ==
    ASSUME TypeOK, NEW q \in Pages, NEW p \in Pages, Hold(q, p)
    PROVE  Waits
  <1>1. PICK last \in LastLocked(p) :
           held' = held \cup {[from |-> q, to |-> p, fromVersion |-> Version(q),
                               toVersion |-> Version(p), over |-> Clashes(q, last),
                               status |-> "pending"]}
    BY DEF Hold
  <1>2. Version(q) \in Nat /\ Version(p) \in Nat /\ Blocks(q) \subseteq Block BY PageTyped
  <1>3. Clashes(q, last) \in SUBSET Ids BY <1>2 DEF Clashes, Locked, Visible, Block
  <1>4. held' \subseteq Held BY <1>1, <1>2, <1>3 DEF Held, TypeOK
  <1>. QED BY <1>4, SameOffersWait DEF Hold, TypeOK

LEMMA NextShape ==
    ASSUME TypeOK, HistoryInv, Next
    PROVE  Waits \/ \E G : Moves(G)
  <1>1. ASSUME NEW p \in Pages, BlockCommand(p) \/ Saving(p) \/ Archive(p) \/ Reopen(p)
        PROVE  \E G : Moves(G)
    BY <1>1, BlockCommandMoves, SavingMoves, ShelfMoves
  <1>2. ASSUME NEW p \in Pages, Compiling(p)
        PROVE  Waits \/ \E G : Moves(G)
    <2>1. PICK target \in {NoId} \cup {b.id : b \in Blocks(p)}, h \in Headings, t \in Texts :
             \/ \E kind \in {"add", "revise", "renew", "refresh"} : Publish(p, kind, target, h, t)
             \/ \E kind \in {"add", "revise"} : Propose(p, kind, target, h, t)
      BY <1>2 DEF Compiling
    <2>2. target \in Ids
      <3>1. NoId \in Ids BY DEF NoId, Ids
      <3>2. \A b \in Blocks(p) : b.id \in Ids BY PageTyped DEF Block
      <3>. QED BY <3>1, <3>2
    <2>3. ASSUME NEW kind, Publish(p, kind, target, h, t) PROVE Moves({p})
      BY <2>3, PublishMoves
    <2>4. ASSUME NEW kind \in {"add", "revise"}, Propose(p, kind, target, h, t) PROVE Waits
      BY <2>2, <2>4, ProposeWaits
    <2>. QED BY <2>1, <2>3, <2>4
  <1>3. ASSUME NEW p \in Pages, NEW v \in 1..Version(p), Revert(p, v)
        PROVE  \E G : Moves(G)
    BY <1>3, RevertMoves
  <1>4. ASSUME NEW p \in Pages, NEW q \in Pages, Merge(q, p)
        PROVE  \E G : Moves(G)
    BY <1>4, MergeMoves DEF Merge, TypeOK
  <1>5. ASSUME NEW p \in Pages, NEW q \in Pages, Hold(q, p) PROVE Waits
    BY <1>5, HoldWaits
  <1>6. ASSUME NEW o \in offers, Accept(o) \/ Refuse(o)
        PROVE  Waits \/ \E G : Moves(G)
    BY <1>6, AcceptMoves, RefuseWaits
  <1>7. ASSUME NEW h \in held, AcceptHeld(h) \/ RefuseHeld(h)
        PROVE  Waits \/ \E G : Moves(G)
    <2>1. h.from \in Pages /\ h.to \in Pages BY DEF TypeOK, Held
    <2>2. CASE AcceptHeld(h)
      <3>1. DoMerge(h.from, h.to) /\ held' \subseteq Held BY <2>2, HeldTyped DEF AcceptHeld
      <3>. QED BY <2>1, <3>1, MergeMoves
    <2>3. CASE RefuseHeld(h)
      <3>1. held' \subseteq Held
        <4>1. PICK s \in {"rejected", "stale"} : DecideHeld(h, s) BY <2>3 DEF RefuseHeld
        <4>. QED BY <4>1, HeldTyped
      <3>. QED BY <2>3, <3>1, SameOffersWait DEF RefuseHeld, TypeOK
    <2>. QED BY <1>7, <2>2, <2>3
  <1>8. ASSUME SourceMoves PROVE Waits
    BY <1>8, SameOffersWait DEF SourceMoves, TypeOK
  <1>. QED BY <1>1, <1>2, <1>3, <1>4, <1>5, <1>6, <1>7, <1>8 DEF Next

-----------------------------------------------------------------------------
(* What every step keeps *)

Inv == TypeOK /\ HistoryInv

LEMMA MovedPage ==
    ASSUME TypeOK, NEW G, Moves(G), NEW p \in G
    PROVE  \E op, bs : \E sources \in SUBSET Pages :
               /\ p \in Pages /\ op \in Ops /\ Keeps(p, op, bs) /\ Grown(p, op, bs, sources)
               /\ past'[p] # <<>> /\ Version(p)' = Version(p) + 1
               /\ Blocks(p)' = bs /\ LastOp(p)' = op
  <1>1. p \in Pages BY DEF Moves
  <1>2. PICK op, bs : \E sources \in SUBSET Pages : GrownTo(p, op, bs, sources)
    BY DEF Moves
  <1>3. PICK sources \in SUBSET Pages : GrownTo(p, op, bs, sources) BY <1>2
  <1>4. op \in Ops /\ bs \in SUBSET Block /\ Keeps(p, op, bs) /\ Grown(p, op, bs, sources)
    BY <1>3 DEF GrownTo, Keeps
  <1>5. /\ past'[p] # <<>> /\ Version(p)' = Version(p) + 1
        /\ Blocks(p)' = bs /\ LastOp(p)' = op
    BY <1>1, <1>4, GrownPage
  <1>. QED BY <1>1, <1>4, <1>5

LEMMA InitInv == Init => Inv
  <1>. SUFFICES ASSUME Init PROVE Inv OBVIOUS
  <1>1. \A p \in Pages : Version(p) = 0 BY DEF Init, Version
  <1>2. HistoryInv BY <1>1 DEF HistoryInv, Remembers, Backward, Forward
  <1>3. TypeOK BY WikiAssumption DEF Init, TypeOK
  <1>. QED BY <1>2, <1>3 DEF Inv

LEMMA SameHistory ==
    ASSUME NEW p \in Pages, past'[p] = past[p], Remembers(p)
    PROVE  Remembers(p)'
  BY DEF Remembers, Backward, Forward, Version, At, Undoable, Tombs, Twinned

LEMMA MovesInv ==
    ASSUME Inv, NEW G, Moves(G)
    PROVE  Inv'
  <1>. USE DEF Inv
  <1>1. \A p \in Pages : status'[p] = "absent" <=> past'[p] = <<>>
    <2>1. ASSUME NEW p \in Pages \ G PROVE status'[p] = "absent" <=> past'[p] = <<>>
      BY DEF Moves, TypeOK
    <2>2. ASSUME NEW p \in G PROVE status'[p] # "absent" /\ past'[p] # <<>>
      BY MovedPage DEF Moves
    <2>. QED BY <2>1, <2>2
  <1>2. offers' \subseteq Offer
    <2>1. PICK kept : \E s \in {"stale", "accepted"} : Decide(kept, s, G) BY DEF Moves
    <2>. QED BY <2>1, DecidedOffers
  <1>3. TypeOK' BY <1>1, <1>2 DEF Moves, TypeOK
  <1>4. ASSUME NEW p \in Pages PROVE Remembers(p)'
    <2>1. CASE p \in G
      <3>1. PICK op, bs : \E sources \in SUBSET Pages :
               Keeps(p, op, bs) /\ Grown(p, op, bs, sources)
        BY <2>1, MovedPage
      <3>. QED BY <3>1, HistoryStep DEF HistoryInv
    <2>2. CASE p \notin G
      <3>1. past'[p] = past[p] BY <2>2 DEF Moves
      <3>. QED BY <3>1, SameHistory DEF HistoryInv
    <2>. QED BY <2>1, <2>2
  <1>. QED BY <1>3, <1>4 DEF HistoryInv

LEMMA NextInv == Inv /\ [Next]_vars => Inv'
  <1>. SUFFICES ASSUME Inv, [Next]_vars PROVE Inv' OBVIOUS
  <1>1. ASSUME UNCHANGED <<status, into, past, steps>>, offers' \subseteq Offer,
               held' \subseteq Held, cur' \in Revisions
        PROVE  Inv'
    <2>1. TypeOK' BY <1>1 DEF Inv, TypeOK
    <2>2. HistoryInv' BY <1>1, SameHistory DEF Inv, HistoryInv
    <2>. QED BY <2>1, <2>2 DEF Inv
  <1>2. CASE Next
    <2>1. CASE Waits BY <1>1, <2>1 DEF Waits
    <2>2. CASE \E G : Moves(G) BY <2>2, MovesInv
    <2>. QED BY <1>2, <2>1, <2>2, NextShape DEF Inv
  <1>3. CASE UNCHANGED vars BY <1>1, <1>3 DEF vars, Inv, TypeOK
  <1>. QED BY <1>2, <1>3

THEOREM WikiHistory == Spec => []Inv
  BY InitInv, NextInv, PTL DEF Spec

\* Pages, patches, merges and records have their types, and a page has a
\* record exactly when it exists.
THEOREM WikiTypes == Spec => []TypeOK
  <1>1. Inv => TypeOK BY DEF Inv
  <1>. QED BY <1>1, WikiHistory, PTL

-----------------------------------------------------------------------------
\* No change gives a page two live blocks of one identity, or an identity a
\* number that is still to come.
LEMMA IdsStep ==
    ASSUME Inv, IdsInv, [Next]_vars
    PROVE  IdsInv'
  <1>0. TypeOK /\ HistoryInv BY DEF Inv
  <1>1. ASSUME UNCHANGED <<past, steps>> PROVE IdsInv'
    BY <1>1 DEF IdsInv, Differ, Numbered, Blocks, Version
  <1>2. ASSUME NEW G, Moves(G) PROVE IdsInv'
    <2>1. steps \in Nat /\ steps' = steps + 1 BY <1>2, WikiAssumption DEF Moves, Inv, TypeOK
    <2>2. ASSUME NEW p \in Pages
          PROVE  /\ Differ(Blocks(p))'
                 /\ \A v \in 1..Version(p)' : Numbered(past'[p][v].blocks, steps')
      <3>1. \A v \in 1..Version(p) : Numbered(past[p][v].blocks, steps')
        BY <2>1 DEF IdsInv, Numbered
      <3>2. CASE p \notin G
        <4>1. past'[p] = past[p] BY <1>2, <3>2 DEF Moves
        <4>2. Blocks(p)' = Blocks(p) /\ Version(p)' = Version(p) BY <4>1, SamePage
        <4>. QED BY <3>1, <4>1, <4>2 DEF IdsInv, Differ
      <3>3. CASE p \in G
        <4>1. PICK op, bs : \E sources \in SUBSET Pages :
                 op \in Ops /\ Keeps(p, op, bs) /\ Grown(p, op, bs, sources)
          BY <1>0, <1>2, <3>3, MovedPage
        <4>2. PICK sources \in SUBSET Pages :
                 op \in Ops /\ Keeps(p, op, bs) /\ Grown(p, op, bs, sources)
          BY <4>1
        <4>3. bs \in SUBSET Block /\ Differ(bs) /\ Numbered(bs, steps')
          BY <2>1, <4>2 DEF Keeps, KeepsIds
        <4>4. /\ Version(p)' = Version(p) + 1 /\ Blocks(p)' = bs
              /\ past'[p][Version(p) + 1].blocks = bs
              /\ \A v \in 1..Version(p) : past'[p][v] = past[p][v]
          <5>1. /\ Version(p)' = Version(p) + 1 /\ Blocks(p)' = bs
                /\ past'[p][Version(p) + 1] = Recorded(op, bs, sources)
                /\ \A v \in 1..Version(p) : past'[p][v] = past[p][v]
            BY <1>0, <4>2, <4>3, GrownPage
          <5>. QED BY <5>1 DEF Recorded
        <4>5. \A v \in 1..(Version(p) + 1) : v \in 1..Version(p) \/ v = Version(p) + 1
          BY <1>0, PageTyped
        <4>. QED BY <3>1, <4>3, <4>4, <4>5 DEF Differ
      <3>. QED BY <3>2, <3>3
    <2>. QED BY <2>2 DEF IdsInv, Numbered, Version
  <1>3. CASE Next BY <1>0, <1>1, <1>2, <1>3, NextShape DEF Waits
  <1>. QED BY <1>1, <1>3 DEF vars

THEOREM WikiIds == Spec => []IdsInv
  <1>1. Init => IdsInv
    <2>1. Init => \A p \in Pages : Version(p) = 0 /\ Blocks(p) = {}
      BY DEF Init, Version, Blocks
    <2>. QED BY <2>1 DEF IdsInv, Differ, Numbered
  <1>2. Inv /\ IdsInv /\ [Next]_vars => IdsInv' BY IdsStep
  <1>. QED BY <1>1, <1>2, WikiHistory, PTL DEF Spec

\* A command that names a live block names one block: no two live blocks of a
\* page share an identity, whatever was merged, restored or published again.
THEOREM LiveIdentitiesDiffer == Spec => []LiveIdsDistinct
  <1>1. IdsInv => LiveIdsDistinct BY DEF IdsInv, Differ, LiveIdsDistinct
  <1>. QED BY <1>1, WikiIds, PTL

-----------------------------------------------------------------------------
LEMMA PendingStep == Inv /\ PendingIsCurrent /\ [Next]_vars => PendingIsCurrent'
  <1>. SUFFICES ASSUME Inv, PendingIsCurrent, [Next]_vars PROVE PendingIsCurrent' OBVIOUS
  <1>0. TypeOK /\ HistoryInv BY DEF Inv
  <1>1. ASSUME NEW G, Moves(G) PROVE PendingIsCurrent'
    <2>1. PICK kept : \E s \in {"stale", "accepted"} : Decide(kept, s, G) BY <1>1 DEF Moves
    <2>2. \A o \in offers' : o.status = "pending" => o \in offers /\ o.page \notin G
      BY <1>0, <2>1, DecidedOffers
    <2>3. \A p \in Pages \ G : Version(p)' = Version(p) /\ status'[p] = status[p]
      BY <1>1 DEF Moves, Version
    <2>4. \A o \in offers : o.page \in Pages BY <1>0 DEF TypeOK, Offer
    <2>. QED BY <2>2, <2>3, <2>4 DEF PendingIsCurrent
  <1>2. CASE Next BY <1>0, <1>1, <1>2, NextShape DEF Waits
  <1>3. CASE UNCHANGED vars BY <1>3 DEF vars, PendingIsCurrent, Version
  <1>. QED BY <1>2, <1>3

\* A patch waits for review only while its page is what it was made for,
\* whoever changes the page (_expire_source_patches).
THEOREM PatchesWaitForTheirVersion == Spec => []PendingIsCurrent
  <1>1. Init => PendingIsCurrent BY DEF Init, PendingIsCurrent
  <1>. QED BY <1>1, PendingStep, WikiHistory, PTL DEF Spec

\* No source material, plan or merge replaces what the owner has locked.
THEOREM MachinesLeaveLocks == Spec => ManualTextSurvives
  <1>1. ASSUME Inv, Next
        PROVE  \A p \in Pages : past'[p] # past[p] =>
                 \/ LastOp(p)' \in {"edit", "delete", "reverted", "merge_undone"}
                 \/ \A b \in Blocks(p) : b.lock /\ ~b.gone =>
                       \E c \in Blocks(p)' : c.id = b.id /\ Alike(c, b) /\ c.lock /\ ~c.gone
    <2>1. ASSUME NEW p \in Pages, past'[p] # past[p], NEW G, Moves(G)
          PROVE  \/ LastOp(p)' \in {"edit", "delete", "reverted", "merge_undone"}
                 \/ \A b \in Blocks(p) : b.lock /\ ~b.gone =>
                       \E c \in Blocks(p)' : c.id = b.id /\ Alike(c, b) /\ c.lock /\ ~c.gone
      <3>1. p \in G BY <2>1 DEF Moves
      <3>2. PICK op, bs : Keeps(p, op, bs) /\ Blocks(p)' = bs /\ LastOp(p)' = op
        BY <1>1, <2>1, <3>1, MovedPage DEF Inv
      <3>. QED BY <3>2 DEF Keeps, KeepsLocks, SameText
    <2>. QED BY <1>1, <2>1, NextShape DEF Inv, Waits
  <1>. QED BY <1>1, WikiHistory, PTL DEF Spec, ManualTextSurvives

-----------------------------------------------------------------------------
\* Only a merge and its undoing change what is merged into what.
Apart == into' = into /\ \A p \in Pages : status'[p] = "merged" <=> status[p] = "merged"

LEMMA IntoShape ==
    ASSUME TypeOK, Next
    PROVE  \/ Apart
           \/ \E q, p \in Pages : DoMerge(q, p)
           \/ \E p \in Pages : \E v \in 1..Version(p) : Revert(p, v)
  <1>1. ASSUME UNCHANGED <<status, into>> PROVE Apart BY <1>1 DEF Apart
  <1>2. ASSUME NEW p \in Pages, NEW st, into' = into, status[p] # "merged", st # "merged",
               status' = [status EXCEPT ![p] = st]
        PROVE  Apart
    BY <1>2 DEF Apart, TypeOK
  <1>3. ASSUME NEW p \in Pages, BlockCommand(p) PROVE Apart
    BY <1>1, <1>3 DEF BlockCommand, Edit, Delete, Restore, Note
  <1>4. ASSUME NEW p \in Pages, Saving(p) PROVE Apart
    <2>1. PICK h \in Headings, t \in Texts, by \in {"source", "analysis", "personal"},
               planned \in BOOLEAN, quoted \in BOOLEAN :
                 Save(p, h, t, by, planned, quoted)
      BY <1>4 DEF Saving
    <2>2. /\ status[p] # "merged" /\ into' = into
          /\ status' = [status EXCEPT ![p] = "active"]
      BY <2>1 DEF Save
    <2>. QED BY <1>2, <2>2
  <1>5. ASSUME NEW p \in Pages, Compiling(p) PROVE Apart
    <2>1. ASSUME NEW kind, NEW target, NEW h, NEW t, Publish(p, kind, target, h, t)
          PROVE  Apart
      <3>1. /\ status[p] # "merged" /\ into' = into
            /\ status' = [status EXCEPT ![p] = "active"]
        BY <2>1 DEF Publish, Publishable
      <3>. QED BY <1>2, <3>1
    <2>2. ASSUME NEW kind, NEW target, NEW h, NEW t, Propose(p, kind, target, h, t)
          PROVE  Apart
      BY <1>1, <2>2 DEF Propose
    <2>. QED BY <1>5, <2>1, <2>2 DEF Compiling
  <1>6. ASSUME NEW p \in Pages, Archive(p) \/ Reopen(p) PROVE Apart
    BY <1>2, <1>6 DEF Archive, Reopen
  <1>7. ASSUME NEW o \in offers, Accept(o) \/ Refuse(o) PROVE Apart
    BY <1>1, <1>7 DEF Accept, Refuse
  <1>8. ASSUME NEW h \in held, AcceptHeld(h)
        PROVE  \E q, p \in Pages : DoMerge(q, p)
    <2>1. h.from \in Pages /\ h.to \in Pages BY DEF TypeOK, Held
    <2>. QED BY <1>8, <2>1 DEF AcceptHeld
  <1>9. ASSUME NEW h \in held, RefuseHeld(h) PROVE Apart BY <1>1, <1>9 DEF RefuseHeld
  <1>10. ASSUME NEW p \in Pages, NEW q \in Pages, Hold(q, p) PROVE Apart
    BY <1>1, <1>10 DEF Hold
  <1>11. ASSUME SourceMoves PROVE Apart BY <1>1, <1>11 DEF SourceMoves
  <1>12. ASSUME NEW p \in Pages, NEW q \in Pages, Merge(q, p) PROVE DoMerge(q, p)
    BY <1>12 DEF Merge
  <1>. QED
    BY <1>3, <1>4, <1>5, <1>6, <1>7, <1>8, <1>9, <1>10, <1>11, <1>12 DEF Next

LEMMA MergeLeads ==
    ASSUME TypeOK, RedirectsLead, NEW q \in Pages, NEW p \in Pages, DoMerge(q, p)
    PROVE  RedirectsLead'
  <1>1. /\ q # p /\ status[q] = "active" /\ status[p] = "active"
        /\ status' = [status EXCEPT ![q] = "merged"] /\ into' = [into EXCEPT ![q] = p]
    BY DEF DoMerge, Mergeable
  <1>2. status'[q] = "merged" /\ into'[q] = p /\ p # NoPage
    BY <1>1, WikiAssumption DEF TypeOK
  <1>3. \A r \in Pages \ {q} : status'[r] = status[r] /\ into'[r] = into[r]
    BY <1>1 DEF TypeOK
  <1>4. into[p] = NoPage BY <1>1 DEF RedirectsLead
  <1>5. ASSUME NEW S \in SUBSET Pages, S # {} PROVE \E r \in S : into'[r] \notin S
    <2>1. CASE p \in S BY <1>1, <1>3, <1>4, <2>1, WikiAssumption
    <2>2. CASE p \notin S /\ q \in S BY <1>2, <2>2
    <2>3. CASE p \notin S /\ q \notin S
      <3>1. PICK r \in S : into[r] \notin S BY <1>5 DEF RedirectsLead
      <3>. QED BY <1>3, <2>3, <3>1
    <2>. QED BY <2>1, <2>2, <2>3
  <1>. QED BY <1>2, <1>3, <1>5 DEF RedirectsLead

LEMMA RevertLeads ==
    ASSUME TypeOK, RedirectsLead, NEW p \in Pages, NEW v, Revert(p, v)
    PROVE  RedirectsLead'
  <1>. DEFINE back == Redirected(p) \ past[p][v].sources
  <1>1. /\ status' = [q \in Pages |-> IF q \in back THEN "active" ELSE status[q]]
        /\ into' = [q \in Pages |-> IF q \in back THEN NoPage ELSE into[q]]
    BY DEF Revert
  <1>. HIDE DEF back
  <1>2. ASSUME NEW S \in SUBSET Pages, S # {} PROVE \E r \in S : into'[r] \notin S
    <2>1. CASE \E r \in S : r \in back BY <1>1, <2>1, WikiAssumption
    <2>2. CASE \A r \in S : r \notin back
      <3>1. PICK r \in S : into[r] \notin S BY <1>2 DEF RedirectsLead
      <3>. QED BY <1>1, <2>2, <3>1
    <2>. QED BY <2>1, <2>2
  <1>. QED BY <1>1, <1>2 DEF RedirectsLead

\* A merged page leads to one that is not, whatever was merged and undone.
THEOREM MergedPagesLead == Spec => []RedirectsLead
  <1>1. Init => RedirectsLead
    <2>. SUFFICES ASSUME Init PROVE RedirectsLead OBVIOUS
    <2>1. \A p \in Pages : into[p] = NoPage /\ status[p] = "absent" BY DEF Init
    <2>. QED BY <2>1, WikiAssumption DEF RedirectsLead
  <1>2. Inv /\ RedirectsLead /\ [Next]_vars => RedirectsLead'
    <2>. SUFFICES ASSUME Inv, RedirectsLead, [Next]_vars PROVE RedirectsLead' OBVIOUS
    <2>1. CASE Next
      <3>1. CASE Apart BY <3>1 DEF Apart, RedirectsLead
      <3>. QED BY <2>1, <3>1, IntoShape, MergeLeads, RevertLeads DEF Inv
    <2>2. CASE UNCHANGED vars BY <2>2 DEF vars, RedirectsLead
    <2>. QED BY <2>1, <2>2
  <1>. QED BY <1>1, <1>2, WikiHistory, PTL DEF Spec

-----------------------------------------------------------------------------
\* The deletions of a page outlive a change of it.
LEMMA TombsStay ==
    ASSUME Inv, Next, NEW p \in Pages, NEW t \in Tombs(Blocks(p))
    PROVE  \/ \E u \in Tombs(Blocks(p)') : u.id = t.id /\ Alike(u, t)
           \/ /\ LastOp(p)' \in {"restore", "saved"}
              /\ \E u \in Blocks(p)' : u.id = t.id /\ Alike(u, t) /\ u.released
                                       /\ u.life = Version(p)'
           \/ Twinned(p, t.id)
  <1>1. ASSUME past'[p] = past[p]
        PROVE  \E u \in Tombs(Blocks(p)') : u.id = t.id /\ Alike(u, t)
    BY <1>1, SamePage DEF Alike
  <1>2. ASSUME NEW G, Moves(G), p \in G
        PROVE  \/ \E u \in Tombs(Blocks(p)') : u.id = t.id /\ Alike(u, t)
               \/ /\ LastOp(p)' \in {"restore", "saved"}
                  /\ \E u \in Blocks(p)' : u.id = t.id /\ Alike(u, t) /\ u.released
                                           /\ u.life = Version(p)'
               \/ Twinned(p, t.id)
    <2>1. PICK op, bs : /\ Keeps(p, op, bs) /\ Version(p)' = Version(p) + 1
                        /\ Blocks(p)' = bs /\ LastOp(p)' = op
      BY <1>2, MovedPage DEF Inv
    <2>2. KeepsTombs(p, op, bs) BY <2>1 DEF Keeps
    <2>. QED BY <2>1, <2>2 DEF KeepsTombs, SameText
  <1>3. \A G : Moves(G) /\ p \notin G => past'[p] = past[p] BY DEF Moves
  <1>. QED BY <1>1, <1>2, <1>3, NextShape DEF Inv, Waits

\* A page that comes back from a merge leaves what was deleted meanwhile.
LEMMA ComesBackWithout ==
    ASSUME Inv, Next, NEW q \in Pages, into[q] # NoPage, into'[q] = NoPage,
           NEW b \in Blocks(q)', NEW t \in Tombs(Blocks(into[q])), ~b.gone
    PROVE  b.id # t.id /\ ~Alike(b, t)
  <1>0. TypeOK BY DEF Inv
  <1>1. ~Apart BY DEF Apart
  <1>2. ASSUME NEW r \in Pages, NEW p \in Pages, DoMerge(r, p) PROVE FALSE
    <2>1. into' = [into EXCEPT ![r] = p] /\ p # NoPage
      BY <1>2, WikiAssumption DEF DoMerge
    <2>. QED BY <1>0, <2>1 DEF TypeOK
  <1>3. PICK p \in Pages : \E v \in 1..Version(p) : Revert(p, v)
    BY <1>0, <1>1, <1>2, IntoShape
  <1>4. PICK v \in 1..Version(p) : Revert(p, v) BY <1>3
  <1>. DEFINE back == Redirected(p) \ past[p][v].sources
  <1>5. q \in back BY <1>4 DEF Revert
  <1>6. into[q] = p /\ q # p
    <2>1. status[p] = "active" /\ status[q] = "merged" BY <1>4, <1>5 DEF Revert
    <2>. QED BY <1>5, <2>1 DEF Redirected
  <1>7. Grown(q, "merge_undone", RestoredSource(q, p), Redirected(q))
    BY <1>4, <1>5, <1>6 DEF Revert, Grown
  <1>8. Blocks(q)' = RestoredSource(q, p)
    <2>1. RestoredSource(q, p) \in SUBSET Block BY <1>0, SourceBackKept DEF Keeps
    <2>2. Redirected(q) \in SUBSET Pages BY DEF Redirected
    <2>3. "merge_undone" \in Ops BY DEF Ops
    <2>. QED BY <1>0, <1>7, <2>1, <2>2, <2>3, GrownPage
  <1>9. \A c \in Blocks(q) : c \in Block BY <1>0, PageTyped
  <1>10. PICK c \in Blocks(q) :
            /\ b = IF \E x \in Tombs(Blocks(p)) : Covers(x, c)
                   THEN Removed(c, c.lock \/ CoveredTwice(p, c), Version(q) + 1)
                   ELSE c
    BY <1>8 DEF RestoredSource
  <1>11. Removed(c, c.lock \/ CoveredTwice(p, c), Version(q) + 1).gone
    BY <1>9, <1>10 DEF Block, Removed
  <1>12. ~\E x \in Tombs(Blocks(p)) : Covers(x, c)
    BY <1>10, <1>11
  <1>13. b = c /\ t \in Tombs(Blocks(p)) BY <1>6, <1>10, <1>12
  <1>14. t.id \in Names(t)
    <2>1. t \in Block BY <1>0, <1>13, PageTyped DEF Tombs
    <2>. QED BY <2>1 DEF Block, Names
  <1>. QED BY <1>12, <1>13, <1>14 DEF Covers

\* What the owner deleted comes back only by a restore or a save of the same
\* text, unless merges gave its identity to two blocks of a version of the
\* page: no publication, merge or return to an older version revives it.
THEOREM DeletionsLast == Spec => DeletedStaysDeleted
  <1>1. Inv /\ Next =>
          /\ \A p \in Pages : \A t \in Tombs(Blocks(p)) :
                \/ \E u \in Tombs(Blocks(p)') : u.id = t.id /\ Alike(u, t)
                \/ /\ LastOp(p)' \in {"restore", "saved"}
                   /\ \E u \in Blocks(p)' : u.id = t.id /\ Alike(u, t) /\ u.released
                                            /\ u.life = Version(p)'
                \/ Twinned(p, t.id)
          /\ \A q \in Pages : into[q] # NoPage /\ into'[q] = NoPage =>
                \A b \in Blocks(q)', t \in Tombs(Blocks(into[q])) :
                    ~b.gone => b.id # t.id /\ ~Alike(b, t)
    BY TombsStay, ComesBackWithout
  <1>. QED BY <1>1, WikiHistory, PTL DEF Spec, DeletedStaysDeleted

-----------------------------------------------------------------------------
\* A redirect that is new is that of a merge.
LEMMA RedirectedByMerge ==
    ASSUME TypeOK, Next, NEW q \in Pages, NEW p \in Pages, into[q] = NoPage, into'[q] = p
    PROVE  DoMerge(q, p)
  <1>0. p # NoPage BY WikiAssumption
  <1>1. ~Apart BY <1>0 DEF Apart
  <1>2. ASSUME NEW r \in Pages, NEW v, Revert(r, v) PROVE FALSE
    <2>1. into'[q] \in {NoPage, into[q]} BY <1>2 DEF Revert
    <2>. QED BY <1>0, <2>1
  <1>3. PICK r, s \in Pages : DoMerge(r, s) BY <1>1, <1>2, IntoShape
  <1>4. r = q /\ s = p
    <2>1. into' = [into EXCEPT ![r] = s] BY <1>3 DEF DoMerge
    <2>. QED BY <1>0, <2>1 DEF TypeOK
  <1>. QED BY <1>3, <1>4

\* What becomes of one block that a page shows when the page is merged.
LEMMA ShownBlockMerged ==
    ASSUME TypeOK, NEW q \in Pages, NEW p \in Pages, DoMerge(q, p),
           NEW b \in Visible(q), \A t \in Carried(q, p) : t.id # b.id
    PROVE  \E e \in MergedBlocks(q, p) : /\ Alike(e, b)
                                         /\ \/ ~e.gone /\ Supported(e)
                                            \/ e.gone /\ e.released
  <1>. DEFINE there == Blocks(p) \cup Carried(q, p)
              f(e) == e.backed \/ \E c \in Visible(q) : SameThere(e, c) /\ c.backed
              R(e) == [e EXCEPT !.backed = f(e)]
              C(c) == IF \E e \in there : e.id = c.id
                      THEN [c EXCEPT !.id = <<steps>> \o c.id] ELSE c
  <1>1. Blocks(p) \subseteq Block /\ Blocks(q) \subseteq Block BY PageTyped
  <1>2. b \in Block /\ ~b.gone /\ Supported(b) BY <1>1 DEF Visible
  <1>3. CASE \E e \in there : SameThere(e, b)
    <2>1. PICK e \in Blocks(p) : SameThere(e, b) BY <1>3 DEF SameThere
    <2>2. R(e) \in MergedBlocks(q, p) BY DEF MergedBlocks
    <2>3. e \in Block /\ Alike(e, b) /\ e.basis = b.basis BY <1>1, <2>1 DEF SameThere
    <2>4. /\ R(e).head = e.head /\ R(e).text = e.text /\ R(e).gone = e.gone
          /\ R(e).released = e.released /\ R(e).basis = e.basis /\ R(e).backed = f(e)
      <3>. HIDE DEF f
      <3>. QED BY <2>3 DEF Block
    <2>5. Alike(R(e), b) BY <2>3, <2>4 DEF Alike
    <2>6. CASE e.gone
      <3>1. ~Barred(Blocks(p), Visible(q)) BY DEF DoMerge, Mergeable
      <3>2. Alike(b, e) BY <2>3 DEF Alike
      <3>3. e.released BY <2>6, <3>1, <3>2 DEF Barred, Tombs
      <3>. QED BY <2>2, <2>4, <2>5, <2>6, <3>3
    <2>7. CASE ~e.gone
      <3>1. b.backed => f(e) BY <2>1
      <3>2. Supported(R(e)) BY <1>2, <2>3, <2>4, <3>1 DEF Supported
      <3>. QED BY <2>2, <2>4, <2>5, <2>7, <3>2
    <2>. QED BY <2>6, <2>7
  <1>4. CASE \A e \in there : ~SameThere(e, b)
    <2>1. C(b) \in MergedBlocks(q, p)
      <3>1. C(b) \in Copied(q, there) BY <1>4 DEF Copied
      <3>. QED BY <3>1 DEF MergedBlocks
    <2>2. /\ C(b).head = b.head /\ C(b).text = b.text /\ C(b).gone = b.gone
          /\ C(b).basis = b.basis /\ C(b).backed = b.backed
      <3>. HIDE DEF there
      <3>. QED BY <1>2 DEF Block
    <2>3. Alike(C(b), b) /\ ~C(b).gone /\ Supported(C(b))
      BY <1>2, <2>2 DEF Alike, Supported
    <2>. QED BY <2>1, <2>3
  <1>. QED BY <1>3, <1>4

\* All that a page shows is in the page it is merged into and shows there,
\* unless it was deleted there and released since; the one exception is a block
\* with the identity of a tombstone that goes along (merge_pages).
THEOREM MergesKeepWhatShows == Spec => MergeLosesNothing
  <1>1. ASSUME Inv, Next, NEW q \in Pages, NEW p \in Pages,
               into[q] = NoPage, into'[q] = p,
               NEW b \in {c \in Visible(q) : \A t \in Carried(q, p) : t.id # c.id}
        PROVE  \E e \in Blocks(p)' : /\ Alike(e, b)
                                     /\ \/ ~e.gone /\ Supported(e)'
                                        \/ e.gone /\ e.released
    <2>0. TypeOK BY <1>1 DEF Inv
    <2>1. DoMerge(q, p) BY <1>1, <2>0, RedirectedByMerge
    <2>2. q # p /\ cur' = cur BY <2>1 DEF DoMerge, Mergeable
    <2>3. Grown(p, "merged", MergedBlocks(q, p), Redirected(p) \cup {q})
      BY <2>0, <2>1, <2>2 DEF DoMerge, Grown, TypeOK
    <2>4. Blocks(p)' = MergedBlocks(q, p)
      <3>1. MergedBlocks(q, p) \in SUBSET Block /\ "merged" \in Ops
        BY <2>0, MergedKept DEF Keeps
      <3>2. Redirected(p) \cup {q} \in SUBSET Pages BY DEF Redirected
      <3>. QED BY <2>0, <2>3, <3>1, <3>2, GrownPage
    <2>5. \A e : Supported(e)' <=> Supported(e) BY <2>2 DEF Supported
    <2>. QED BY <1>1, <2>0, <2>1, <2>4, <2>5, ShownBlockMerged
  <1>2. Inv /\ Next =>
          \A q, p \in Pages : into[q] = NoPage /\ into'[q] = p =>
             \A b \in {c \in Visible(q) : \A t \in Carried(q, p) : t.id # c.id} :
                 \E e \in Blocks(p)' : /\ Alike(e, b)
                                      /\ \/ ~e.gone /\ Supported(e)'
                                         \/ e.gone /\ e.released
    BY <1>1
  <1>. QED BY <1>2, WikiHistory, PTL DEF Spec, MergeLosesNothing

-----------------------------------------------------------------------------
(* Twins come only from a merge that gives a tombstone an alias in use.    *)

FreshAliases(q, p) ==
    \A t \in Blocks(q) : t.gone /\ (\E b \in Blocks(p) : b.id = t.id) =>
        \A b \in Blocks(p) \cup Blocks(q) : b.id # <<q, q>> \o t.id
MergesRename == \A q, p \in Pages : DoMerge(q, p) => FreshAliases(q, p)

\* The blocks of every version of a page differ in identity.
Single == \A p \in Pages : \A v \in 1..Version(p) : One(past[p][v].blocks)

LEMMA SingleHere ==
    ASSUME TypeOK, Single, NEW p \in Pages
    PROVE  One(Blocks(p))
  <1>1. CASE past[p] = <<>> BY <1>1 DEF Blocks, One
  <1>2. CASE past[p] # <<>>
    <2>1. past[p] \in Seq(Change) BY DEF TypeOK
    <2>2. Version(p) \in 1..Version(p) BY <1>2, <2>1 DEF Version
    <2>. QED BY <1>2, <2>2 DEF Single, Blocks
  <1>. QED BY <1>1, <1>2

LEMMA SingleGrown ==
    ASSUME TypeOK, Single, NEW p \in Pages, NEW op \in Ops, NEW bs \in SUBSET Block,
           NEW sources \in SUBSET Pages, Grown(p, op, bs, sources), One(bs)
    PROVE  \A v \in 1..Version(p)' : One(past'[p][v].blocks)
  <1>1. /\ Version(p)' = Version(p) + 1
        /\ past'[p][Version(p) + 1] = Recorded(op, bs, sources)
        /\ \A v \in 1..Version(p) : past'[p][v] = past[p][v]
    BY GrownPage
  <1>2. past'[p][Version(p) + 1].blocks = bs BY <1>1 DEF Recorded
  <1>3. \A v \in 1..(Version(p) + 1) : v \in 1..Version(p) \/ v = Version(p) + 1
    BY PageTyped
  <1>. QED BY <1>1, <1>2, <1>3 DEF Single

LEMMA MergedOne ==
    ASSUME TypeOK, IdsInv, NEW q \in Pages, NEW p \in Pages,
           One(Blocks(q)), One(Blocks(p)), FreshAliases(q, p)
    PROVE  One(MergedBlocks(q, p))
  <1>. DEFINE there == Blocks(p) \cup Carried(q, p)
              f(e) == e.backed \/ \E b \in Visible(q) : SameThere(e, b) /\ b.backed
              R(e) == [e EXCEPT !.backed = f(e)]
  <1>1. Blocks(p) \subseteq Block /\ Blocks(q) \subseteq Block BY PageTyped
  <1>2. ASSUME NEW c \in Carried(q, p)
        PROVE  \E t \in Blocks(q) :
                 \/ /\ c.id = <<q, q>> \o t.id
                    /\ c = [t EXCEPT !.id = <<q, q>> \o t.id, !.was = t.id,
                                     !.life = Version(p) + 1, !.backed = FALSE]
                    /\ \A b \in Blocks(p) \cup Blocks(q) : b.id # <<q, q>> \o t.id
                 \/ /\ c.id = t.id /\ \A b \in Blocks(p) : b.id # t.id
                    /\ c = [t EXCEPT !.life = Version(p) + 1, !.backed = FALSE]
    <2>1. PICK t \in {b \in Blocks(q) : b.gone} :
             c = IF \E b \in Blocks(p) : b.id = t.id
                 THEN [t EXCEPT !.id = <<q, q>> \o t.id, !.was = t.id,
                                !.life = Version(p) + 1, !.backed = FALSE]
                 ELSE [t EXCEPT !.life = Version(p) + 1, !.backed = FALSE]
      BY DEF Carried
    <2>2. t \in Block /\ t \in Blocks(q) /\ t.gone BY <1>1
    <2>3. CASE \E b \in Blocks(p) : b.id = t.id
      <3>1. c.id = <<q, q>> \o t.id BY <2>1, <2>2, <2>3 DEF Block
      <3>2. \A b \in Blocks(p) \cup Blocks(q) : b.id # <<q, q>> \o t.id
        BY <2>2, <2>3 DEF FreshAliases
      <3>. QED BY <2>1, <2>2, <2>3, <3>1, <3>2
    <2>4. CASE \A b \in Blocks(p) : b.id # t.id
      <3>1. c.id = t.id BY <2>1, <2>2, <2>4 DEF Block
      <3>. QED BY <2>1, <2>2, <2>4, <3>1
    <2>. QED BY <2>3, <2>4
  <1>3. ASSUME NEW c \in Carried(q, p), NEW d \in Carried(q, p), c.id = d.id
        PROVE  c = d
    <2>1. <<q, q>> \in Ids BY DEF Ids
    <2>2. \A t \in Blocks(q) : t.id \in Ids BY <1>1 DEF Block
    <2>3. \A t, u \in Blocks(q) : <<q, q>> \o t.id = <<q, q>> \o u.id => t = u
      BY <2>1, <2>2, SameTail DEF One
    <2>. QED BY <1>2, <1>3, <2>3 DEF One
  <1>4. \A c \in Carried(q, p), b \in Blocks(p) : c.id # b.id BY <1>2
  <1>5. One(there) BY <1>3, <1>4 DEF One
  <1>6. Numbered(there, steps)
    <2>1. Numbered(Blocks(p), steps) /\ Numbered(Carried(q, p), steps)
      BY IdsHere, CarriedIds
    <2>. QED BY <2>1 DEF Numbered
  <1>7. there \subseteq Block BY <1>1, CarriedTyped
  <1>8. MergedBlocks(q, p) = {R(e) : e \in there} \cup Copied(q, there)
    BY DEF MergedBlocks
  <1>. HIDE DEF there
  <1>9. /\ Differ(Copied(q, there))
        /\ \A c \in Copied(q, there), e \in there : c.id # e.id
    BY <1>6, CopiedIds
  <1>10. ASSUME NEW c \in Copied(q, there) PROVE ~c.gone
    <2>1. PICK b \in Visible(q) : c = b \/ c = [b EXCEPT !.id = <<steps>> \o b.id]
      BY DEF Copied
    <2>2. b \in Block /\ ~b.gone BY <1>1 DEF Visible
    <2>. QED BY <2>1, <2>2 DEF Block
  <1>11. ASSUME NEW e \in there PROVE R(e).id = e.id
    <2>1. e \in Block BY <1>7
    <2>. HIDE DEF f
    <2>. QED BY <2>1 DEF Block
  <1>. HIDE DEF R
  <1>. QED BY <1>5, <1>8, <1>9, <1>10, <1>11 DEF One, Differ

LEMMA SingleStep ==
    ASSUME Inv, IdsInv, Single, [Next]_vars, [MergesRename]_vars
    PROVE  Single'
  <1>0. TypeOK /\ HistoryInv BY DEF Inv
  <1>1. ASSUME NEW p \in Pages, past'[p] = past[p]
        PROVE  \A v \in 1..Version(p)' : One(past'[p][v].blocks)
    BY <1>1, SamePage DEF Single
  <1>2. CASE UNCHANGED vars BY <1>1, <1>2 DEF vars, Single
  <1>3. ASSUME NEW q \in Pages, NEW p \in Pages, DoMerge(q, p), MergesRename PROVE Single'
    <2>1. /\ q # p
          /\ past' = [past EXCEPT
                ![p] = Append(@, Recorded("merged", MergedBlocks(q, p), Redirected(p) \cup {q})),
                ![q] = Append(@, Recorded("merged", Blocks(q), Redirected(q)))]
      BY <1>3 DEF DoMerge, Mergeable
    <2>2. /\ Grown(p, "merged", MergedBlocks(q, p), Redirected(p) \cup {q})
          /\ Grown(q, "merged", Blocks(q), Redirected(q))
          /\ \A r \in Pages \ {p, q} : past'[r] = past[r]
      BY <1>0, <2>1 DEF Grown, TypeOK
    <2>3. /\ Redirected(p) \cup {q} \in SUBSET Pages /\ Redirected(q) \in SUBSET Pages
          /\ "merged" \in Ops
      BY DEF Redirected, Ops
    <2>4. MergedBlocks(q, p) \in SUBSET Block /\ Blocks(q) \in SUBSET Block
      BY <1>0, MergedKept, PageTyped DEF Keeps
    <2>5. One(Blocks(q)) /\ One(Blocks(p)) BY <1>0, SingleHere
    <2>6. One(MergedBlocks(q, p)) BY <1>0, <1>3, <2>5, MergedOne DEF MergesRename
    <2>7. ASSUME NEW r \in Pages
          PROVE  \A v \in 1..Version(r)' : One(past'[r][v].blocks)
      <3>1. CASE r = p BY <1>0, <2>2, <2>3, <2>4, <2>6, <3>1, SingleGrown
      <3>2. CASE r = q BY <1>0, <2>2, <2>3, <2>4, <2>5, <3>2, SingleGrown
      <3>3. CASE r \notin {p, q} BY <1>1, <2>2, <3>3
      <3>. QED BY <3>1, <3>2, <3>3
    <2>. QED BY <2>7 DEF Single, Version
  <1>4. CASE Next /\ ~\E q, p \in Pages : DoMerge(q, p)
    <2>1. CASE Waits
      <3>1. past' = past BY <2>1 DEF Waits
      <3>2. \A p \in Pages : past'[p] = past[p] BY <3>1
      <3>. QED BY <1>1, <3>2 DEF Single, Version
    <2>2. ASSUME NEW G, Moves(G), NEW p \in Pages
          PROVE  \A v \in 1..Version(p)' : One(past'[p][v].blocks)
      <3>1. CASE p \notin G
        <4>1. past'[p] = past[p] BY <2>2, <3>1 DEF Moves
        <4>. QED BY <1>1, <4>1
      <3>2. CASE p \in G
        <4>1. PICK op, bs : \E sources \in SUBSET Pages :
                 /\ op \in Ops /\ Keeps(p, op, bs) /\ Grown(p, op, bs, sources)
                 /\ LastOp(p)' = op
          BY <1>0, <2>2, <3>2, MovedPage
        <4>2. op # "merged" BY <1>4, <2>2, <3>2, <4>1 DEF Moves
        <4>3. bs \in SUBSET Block /\ One(bs)
          BY <1>0, <4>1, <4>2, SingleHere DEF Keeps, KeepsOne
        <4>. QED BY <1>0, <4>1, <4>3, SingleGrown
      <3>. QED BY <3>1, <3>2
    <2>3. CASE \E G : Moves(G) BY <2>2, <2>3 DEF Single, Version
    <2>. QED BY <1>0, <1>4, <2>1, <2>3, NextShape
  <1>. QED BY <1>2, <1>3, <1>4

\* If every merge gave its tombstones aliases that are not in use, which
\* merge_pages does not check, what the owner deleted would come back by nothing
\* but a restore or a save of the same text.
THEOREM FreshAliasesSuffice ==
    Spec /\ [][MergesRename]_vars =>
        [][\A p \in Pages : \A t \in Tombs(Blocks(p)) :
             \/ \E u \in Tombs(Blocks(p)') : u.id = t.id /\ Alike(u, t)
             \/ /\ LastOp(p)' \in {"restore", "saved"}
                /\ \E u \in Blocks(p)' : u.id = t.id /\ Alike(u, t) /\ u.released
                                         /\ u.life = Version(p)']_vars
  <1>1. Init => Single
    <2>1. Init => \A p \in Pages : Version(p) = 0 BY DEF Init, Version
    <2>. QED BY <2>1 DEF Single
  <1>2. Inv /\ IdsInv /\ Single /\ [Next]_vars /\ [MergesRename]_vars => Single'
    BY SingleStep
  <1>3. Spec /\ [][MergesRename]_vars => []Single
    BY <1>1, <1>2, WikiHistory, WikiIds, PTL DEF Spec
  <1>4. Inv /\ Single /\ Next =>
          \A p \in Pages : \A t \in Tombs(Blocks(p)) :
             \/ \E u \in Tombs(Blocks(p)') : u.id = t.id /\ Alike(u, t)
             \/ /\ LastOp(p)' \in {"restore", "saved"}
                /\ \E u \in Blocks(p)' : u.id = t.id /\ Alike(u, t) /\ u.released
                                         /\ u.life = Version(p)'
    <2>1. Single => \A p \in Pages : \A id : ~Twinned(p, id)
      BY DEF Single, Twinned, One
    <2>. QED BY <2>1, TombsStay
  <1>. QED BY <1>3, <1>4, WikiHistory, PTL DEF Spec
=============================================================================
