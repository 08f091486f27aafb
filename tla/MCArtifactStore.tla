-------------------------- MODULE MCArtifactStore --------------------------
(* Small instances of ArtifactStore for TLC. *)
EXTENDS ArtifactStore, TLC

\* A transcript in two renderings under one version, and a rendering that
\* takes the other's content for its own version: shared file, one conflict.
MCSlots == {<<"json", 1>>, <<"text", 1>>}
Entry(k, c) == [slot |-> <<k, 1>>, content |-> c]
MCBatch == "p1" :> {Entry("json", "a"), Entry("text", "b")}
           @@ "p2" :> {Entry("text", "a")}

\* Either a fault or a second collector while somebody publishes; after the
\* last publication, anything.
Published == \A p \in Publishers : state[p] \in {"committed", "failed"}
OneDimension == \/ Published
                \/ faults = 0
                \/ sweeps["g2"] = 0
============================================================================
