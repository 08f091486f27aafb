--------------------------- MODULE MCAssistantRun ---------------------------
(***************************************************************************)
(* The instances of AssistantRun for TLC.  The first run of the thread is  *)
(* answered without tools; the second may write (call 1) and read (2).     *)
(***************************************************************************)
EXTENDS AssistantRun, TLC

MCRuns == {1, 2}
MCCalls == {1, 2}
MCWrites == {1}
MCCallsOf == <<{}, MCCalls>>
MCOneRun == {1}
MCAnyCall == <<MCCalls>>

(* Processes are interchangeable: no action tells one from another. *)
MCSymmetry == Permutations(Executors)
=============================================================================
