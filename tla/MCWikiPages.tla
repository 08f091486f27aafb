---------------------------- MODULE MCWikiPages ----------------------------
(* Small instances of WikiPages for TLC. *)
EXTENDS WikiPages, SequencesExt, TLC

Sym == Permutations(Texts) \cup Permutations(Pages) \cup Permutations(Revisions)

Uses(ops) == Cardinality({x \in Pages \X (1..MaxSteps) :
                 x[2] <= Version(x[1]) /\ past[x[1]][x[2]].op \in ops})
OnceEach == \A op \in {"edit", "note", "delete", "restore", "archive", "reopen"} :
                Uses({op}) <= 1
Alone == \E p \in Pages : \A q \in Pages \ {p} : status[q] = "absent"

\* One page and every command on it, saved once, published once or twice.
Single == Alone /\ steps <= 5 /\ offers = {}
          /\ Uses({"reverted", "archive"}) <= 1
          /\ Uses({"saved"}) <= 1 /\ Uses({"saved", "published"}) <= 2
\* One page and patches under review, while it is published, edited, deleted from.
Review == Alone /\ Cardinality(offers) + steps <= 4
          /\ Uses({"saved", "reverted", "archive"}) = 0 /\ Uses({"published"}) <= 2
\* Two pages that merge and part, one saved or compiled, on one revision.
Merging == /\ offers = {} /\ Cardinality(held) <= 1 /\ steps <= 5
           /\ Uses({"archive"}) = 0 /\ Uses({"reverted"}) <= 1
           /\ Uses({"saved"}) <= 1 /\ Uses({"published"}) <= 1
           /\ \A p \in Pages : \A b \in Blocks(p) : b.basis \in {0, cur} /\ b.by # "source"
\* One page is merged into another three times; what was deleted in both after
\* the first time is restored in it, edited and deleted again before the last.
Follows(p, ops) == IsPrefix([v \in 1..Version(p) |-> past[p][v].op], ops)
Again == /\ offers = {} /\ held = {}
         /\ \E p \in Pages : \E q \in Pages \ {p} :
               /\ Follows(q, <<"saved", "saved", "merged", "merge_undone", "merged",
                               "merge_undone", "restore", "edit", "delete", "merged">>)
               /\ Follows(p, <<"saved", "merged", "delete", "reverted", "merged",
                               "reverted", "merged", "note", "reverted">>)
               /\ Version(p) > 0 => Version(q) > 1
               /\ Version(p) > 6 => Version(q) > 9
               /\ \A b \in Blocks(p) \cup Blocks(q) :
                      b.by \in {"analysis", IF Version(p) > 7 THEN "personal" ELSE "analysis"}
Bounded == (OnceEach /\ (Single \/ Review \/ Merging)) \/ Again
=============================================================================
