------------------------------ MODULE Archive ------------------------------
(***************************************************************************)
(* What the artifact store promises to the components that publish to it:  *)
(* a batch becomes readable as a whole, a version once readable stays      *)
(* readable with the same content, and a head names the version of the     *)
(* batch that was published last.                                          *)
(***************************************************************************)
CONSTANTS Publishers, Batch, Slots, Keys, Contents, Nothing
VARIABLES readable, head

vars == <<readable, head>>

Init == /\ readable = [s \in Slots |-> Nothing]
        /\ head = [k \in Keys |-> Nothing]

Publish(p) ==
    /\ \A e \in Batch[p] : readable[e.slot] \in {Nothing, e.content}
    /\ readable' = [s \in Slots |->
                      IF \E e \in Batch[p] : e.slot = s
                      THEN (CHOOSE e \in Batch[p] : e.slot = s).content
                      ELSE readable[s]]
    /\ head' = [k \in Keys |->
                  IF \E e \in Batch[p] : e.slot[1] = k
                  THEN (CHOOSE e \in Batch[p] : e.slot[1] = k).slot
                  ELSE head[k]]

Next == \E p \in Publishers : Publish(p)
Spec == Init /\ [][Next]_vars
============================================================================
