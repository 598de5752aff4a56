---------------------------- MODULE ArtifactStoreMC ----------------------------
(***************************************************************************)
(* Parts of the task graph for ArtifactStore.                              *)
(***************************************************************************)
EXTENDS ArtifactStore, LabeTasks

MCDaily == Task \cap DailyTask
MCRequires == [t \in Task |-> RequiredBy(t) \cap Task]
MCLinked == Task \ Unlinked
MCLenient == Task \cap Substituted
MCKeep == Task \cap Kept

(* What a job asks for, as far as it is in Task.                           *)
MCRoots == [j \in Job |-> Task \cap IF j = "stats" THEN {"StatsReportData"}
                                    ELSE CombinedUpdate]
=============================================================================
