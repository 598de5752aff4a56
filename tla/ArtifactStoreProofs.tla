-------------------------- MODULE ArtifactStoreProofs --------------------------
(***************************************************************************)
(* Proofs about ArtifactStore for any task graph, any number of days,      *)
(* dumps, crashes and failures.                                            *)
(***************************************************************************)
EXTENDS ArtifactStore, TLAPS

(* Statuses of a task whose version a job has looked up.                   *)
Named == {"found", "pending", "done", "failed", "refused"} \cup Working

NamesKnown == \A j \in Job, t \in Task : state[j][t] \in Named => name[j][t] \in Version
InputsRead == \A j \in Job, t \in Task : state[j][t] = "running" => made[j][t] # {}
WorkInUpdate == \A j \in Job, t \in Task : state[j][t] \in Working => phase[j] = "update"
ListedBefore == \A j \in Job : deletable[j] # {} => phase[j] \in {"list", "rm"}
KeptNotListed == \A j \in Job : \A e \in deletable[j] : e[1] \notin Keep

JobInv == TypeOK /\ NamesKnown /\ InputsRead /\ WorkInUpdate /\ ListedBefore /\ KeptNotListed

-----------------------------------------------------------------------------
(* The versions.                                                           *)
LEMMA Versions == /\ 0 \in Version
                  /\ 0 .. MaxDay \subseteq Version /\ 0 .. MaxDump \subseteq Version
                  /\ None \notin Version
BY StoreAssumption DEF Version

(* The status of one task changes and nothing else about statuses.         *)
LEMMA StatusStep ==
  ASSUME TypeOK, NEW j \in Job, NEW t \in Task, NEW s \in Status, Become(j, t, s)
  PROVE  /\ state' \in [Job -> [Task -> Status]]
         /\ state'[j][t] = s
         /\ \A k \in Job, u \in Task : (k # j \/ u # t) => state'[k][u] = state[k][u]
BY DEF Become, TypeOK

(* A process that ends leaves no trace in its variables.                   *)
LEMMA ExitStep ==
  ASSUME TypeOK, NEW j \in Job, Exit(j)
  PROVE  /\ phase' \in [Job -> {"idle", "list", "rm", "update", "restart"}]
         /\ today' \in [Job -> 0 .. MaxDay] /\ todo' \in [Job -> SUBSET Task]
         /\ deletable' \in [Job -> SUBSET Output]
         /\ name' \in [Job -> [Task -> Version \cup {None}]]
         /\ state' \in [Job -> [Task -> Status]]
         /\ made' \in [Job -> [Task -> Content]]
         /\ phase'[j] = "idle" /\ deletable'[j] = {}
         /\ \A t \in Task : state'[j][t] = "none"
         /\ \A k \in Job \ {j} : /\ phase'[k] = phase[k] /\ deletable'[k] = deletable[k]
                                 /\ name'[k] = name[k] /\ state'[k] = state[k]
                                 /\ made'[k] = made[k]
<1>1. {} \in Content /\ "none" \in Status /\ 0 \in 0 .. MaxDay
  BY StoreAssumption DEF Content, Status
<1> QED
  BY <1>1 DEF Exit, TypeOK

(* What a task reads is content and is not empty.                          *)
LEMMA SourceStep ==
  ASSUME TypeOK, NamesKnown, NEW j \in Job, NEW t \in Task, state[j][t] \in Named
  PROVE  Source(j, t) \in Content \ {{}}
<1> DEFINE There == Requires[t] \ Missing(j, t)
           Own == IF Requires[t] = {} \/ Missing(j, t) # {} THEN {<<t, name[j][t]>>} ELSE {}
<1>1. Requires[t] \subseteq Task
  BY StoreAssumption
<1>2. \A d \in There : /\ name[j][d] \in Version
                        /\ out[d][name[j][d]] \in Content
                        /\ out[d][name[j][d]] # {}
  BY <1>1 DEF TypeOK, Missing, Exists
<1>3. Own \subseteq Task \X Version
  BY DEF NamesKnown
<1>4. \A s : s \in Source(j, t) <=> s \in Own \/ \E d \in There : s \in out[d][name[j][d]]
  BY DEF Source
<1>5. Source(j, t) \subseteq Task \X Version
  <2> SUFFICES ASSUME NEW s \in Source(j, t), s \notin Own
               PROVE  s \in Task \X Version
    BY <1>3
  <2>1. PICK d \in There : s \in out[d][name[j][d]]
    BY <1>4
  <2>2. out[d][name[j][d]] \in Content
    BY <1>2
  <2> QED BY <2>1, <2>2 DEF Content
<1>6. Source(j, t) # {}
  <2>1. CASE Requires[t] = {} \/ Missing(j, t) # {}
    BY <1>4, <2>1
  <2>2. CASE Requires[t] # {} /\ Missing(j, t) = {}
    <3>1. PICK d \in There : TRUE
      BY <2>2
    <3> HIDE DEF There, Own
    <3>2. PICK s : s \in out[d][name[j][d]]
      BY <1>2
    <3> QED BY <1>4, <3>2
  <2> QED BY <2>1, <2>2
<1> QED BY <1>5, <1>6 DEF Content

-----------------------------------------------------------------------------
(* JobInv holds initially.                                                 *)
LEMMA JobInvInit == Init => JobInv
<1> SUFFICES ASSUME Init PROVE JobInv
  OBVIOUS
<1>1. {} \in Content /\ "none" \in Status
  BY DEF Content, Status
<1>2. 0 \in 0 .. MaxDay /\ 0 \in 0 .. MaxDump /\ 0 \in 0 .. MaxFaults
  BY StoreAssumption
<1>3. TypeOK
  BY <1>1, <1>2 DEF Init, TypeOK
<1>4. \A j \in Job, t \in Task : state[j][t] = "none"
  BY DEF Init
<1>5. \A j \in Job : deletable[j] = {}
  BY DEF Init
<1> QED
  BY <1>3, <1>4, <1>5 DEF JobInv, NamesKnown, InputsRead, WorkInUpdate, ListedBefore,
     KeptNotListed, Named, Working, Linking

(* Steps of the cleanup and of the phases of a job.                        *)
LEMMA PhaseSteps ==
  ASSUME JobInv, NEW j \in Job,
         \/ Crash(j) \/ StartCleanup(j) \/ StartUpdate(j) \/ FinishUpdate(j) \/ Restart(j)
  PROVE  JobInv'
<1> USE DEF JobInv
<1>1. CASE Exit(j) /\ UNCHANGED <<world, files>> /\ faults' \in 0 .. MaxFaults
  <2>1. TypeOK'
    BY <1>1, ExitStep DEF TypeOK, world, files
  <2>2. \A t \in Task : state'[j][t] \notin Named \cup Working /\ state'[j][t] # "running"
    BY <1>1, ExitStep DEF Named, Working, Linking
  <2>3. /\ deletable'[j] = {}
        /\ \A k \in Job \ {j} : /\ phase'[k] = phase[k] /\ deletable'[k] = deletable[k]
                                /\ name'[k] = name[k] /\ state'[k] = state[k]
                                /\ made'[k] = made[k]
    BY <1>1, ExitStep
  <2>4. NamesKnown' /\ InputsRead' /\ WorkInUpdate'
    BY <2>2, <2>3 DEF NamesKnown, InputsRead, WorkInUpdate
  <2>5. ListedBefore' /\ KeptNotListed'
    BY <2>3 DEF ListedBefore, KeptNotListed
  <2> QED BY <2>1, <2>4, <2>5
<1>2. CASE Crash(j)
  BY <1>1, <1>2, StoreAssumption DEF Crash, Fault, TypeOK
<1>3. CASE StartCleanup(j)
  <2>1. TypeOK'
    BY <1>3 DEF StartCleanup, TypeOK, world, files
  <2>2. \A t \in Task : state[j][t] \notin Working
    BY <1>3 DEF StartCleanup, PreviousEnded, WorkInUpdate
  <2> QED
    BY <1>3, <2>1, <2>2 DEF StartCleanup, TypeOK, NamesKnown, InputsRead, WorkInUpdate,
       ListedBefore, KeptNotListed, files
<1>4. CASE StartUpdate(j)
  <2>1. /\ "wanted" \in Status /\ "none" \in Status
        /\ \A s \in {"wanted", "none"} : s \notin Named \cup Working /\ s # "running"
    BY DEF Status, Named, Working, Linking
  <2>2. /\ state' \in [Job -> [Task -> Status]]
        /\ \A t \in Task : state'[j][t] \in {"wanted", "none"}
        /\ \A k \in Job \ {j} : state'[k] = state[k]
    BY <1>4, <2>1 DEF StartUpdate, TypeOK
  <2>3. TypeOK'
    BY <1>4, <2>2 DEF StartUpdate, Today, TypeOK, world, files
  <2>4. /\ phase'[j] = "update"
        /\ \A k \in Job \ {j} : phase'[k] = phase[k]
        /\ deletable[j] = {}
        /\ name' = name /\ made' = made /\ deletable' = deletable
    BY <1>4 DEF StartUpdate, PreviousEnded, TypeOK, ListedBefore
  <2> QED
    BY <2>1, <2>2, <2>3, <2>4 DEF NamesKnown, InputsRead, WorkInUpdate, ListedBefore,
       KeptNotListed
<1>5. CASE FinishUpdate(j)
  <2>1. \A t \in Task : state[j][t] \notin Working
    BY <1>5 DEF FinishUpdate, Finished, Settled, Working, Linking
  <2>2. CASE j \in Cleaner
    <3>1. /\ phase' = [phase EXCEPT ![j] = "restart"]
          /\ UNCHANGED <<world, files, faults, today, todo, deletable, name, state, made>>
      BY <1>5, <2>2 DEF FinishUpdate
    <3>2. TypeOK'
      BY <3>1 DEF TypeOK, world, files
    <3>3. deletable[j] = {}
      BY <1>5 DEF FinishUpdate, ListedBefore
    <3> QED
      BY <2>1, <3>1, <3>2, <3>3 DEF TypeOK, NamesKnown, InputsRead, WorkInUpdate,
         ListedBefore, KeptNotListed
  <2>3. CASE j \notin Cleaner
    <3>1. Exit(j) /\ UNCHANGED <<world, files, faults>>
      BY <1>5, <2>3 DEF FinishUpdate
    <3> QED BY <1>1, <3>1 DEF TypeOK
  <2> QED BY <2>2, <2>3
<1>6. CASE Restart(j)
  BY <1>1, <1>6 DEF Restart, TypeOK
<1> QED BY <1>2, <1>3, <1>4, <1>5, <1>6

(* Steps of the cleanup.                                                   *)
LEMMA CleanupSteps ==
  ASSUME JobInv, NEW j \in Job, NEW t \in Task,
         ListDirectory(j, t) \/ \E n \in Version : Remove(j, t, n)
  PROVE  JobInv'
<1> USE DEF JobInv
<1>1. CASE ListDirectory(j, t)
  <2>1. {t} \X Outdated(t) \subseteq Output
    BY DEF Outdated, Output
  <2>2. \A e \in {t} \X Outdated(t) : e[1] \notin Keep
    BY DEF Outdated
  <2>3. /\ phase[j] = "list"
        /\ phase' \in [Job -> {"idle", "list", "rm", "update", "restart"}]
        /\ phase'[j] \in {"list", "rm"}
        /\ \A k \in Job \ {j} : phase'[k] = phase[k]
    BY <1>1 DEF ListDirectory, TypeOK
  <2>4. /\ deletable' \in [Job -> SUBSET Output]
        /\ deletable'[j] = deletable[j] \cup ({t} \X Outdated(t))
        /\ \A k \in Job \ {j} : deletable'[k] = deletable[k]
    BY <1>1, <2>1 DEF ListDirectory, TypeOK
  <2>5. todo' \in [Job -> SUBSET Task]
    BY <1>1 DEF ListDirectory, TypeOK
  <2>6. UNCHANGED <<world, files, faults, today, name, state, made>>
    BY <1>1 DEF ListDirectory
  <2>7. TypeOK'
    BY <2>3, <2>4, <2>5, <2>6 DEF TypeOK, world, files
  <2> QED
    BY <2>2, <2>3, <2>4, <2>6, <2>7 DEF NamesKnown, InputsRead, WorkInUpdate, ListedBefore,
       KeptNotListed
<1>2. ASSUME NEW n \in Version, Remove(j, t, n)
      PROVE  JobInv'
  <2>1. {} \in Content
    BY DEF Content
  <2>2. out' \in [Task -> [Version -> Content]]
    BY <1>2, <2>1 DEF Remove, TypeOK
  <2>3. /\ deletable' \in [Job -> SUBSET Output]
        /\ \A k \in Job : deletable'[k] \subseteq deletable[k]
    BY <1>2 DEF Remove, TypeOK
  <2>4. UNCHANGED <<world, link, faults, phase, today, todo, name, state, made>>
    BY <1>2 DEF Remove
  <2>5. TypeOK'
    BY <2>2, <2>3, <2>4 DEF TypeOK, world
  <2>6. \A k \in Job : deletable'[k] # {} => deletable[k] # {}
    BY <2>3
  <2> QED
    BY <2>3, <2>4, <2>5, <2>6 DEF NamesKnown, InputsRead, WorkInUpdate, ListedBefore,
       KeptNotListed
<1> QED BY <1>1, <1>2

(* Steps that change the status of one task and nothing that is on disk:   *)
(* the new status needs a version if the old one had none, an output in    *)
(* the making only in "running", and work is done in an update.            *)
LEMMA StatusOnly ==
  ASSUME JobInv, NEW j \in Job, NEW t \in Task, NEW s \in Status, Become(j, t, s),
         s \in Named => name[j][t] \in Version,
         s # "running", s \in Working => phase[j] = "update",
         faults' \in 0 .. MaxFaults,
         UNCHANGED <<world, files, phase, today, todo, deletable, name, made>>
  PROVE  JobInv'
<1> USE DEF JobInv
<1>1. /\ state' \in [Job -> [Task -> Status]]
      /\ state'[j][t] = s
      /\ \A k \in Job, u \in Task : (k # j \/ u # t) => state'[k][u] = state[k][u]
  BY StatusStep
<1>2. TypeOK'
  BY <1>1 DEF TypeOK, world, files
<1>3. NamesKnown' /\ InputsRead' /\ WorkInUpdate'
  BY <1>1 DEF NamesKnown, InputsRead, WorkInUpdate
<1>4. ListedBefore' /\ KeptNotListed'
  BY DEF ListedBefore, KeptNotListed
<1> QED BY <1>2, <1>3, <1>4

(* Steps of the scheduling.                                                *)
LEMMA ScheduleSteps ==
  ASSUME JobInv, NEW j \in Job, NEW t \in Task,
         CheckComplete(j, t) \/ LookupFails(j, t) \/ Expand(j, t)
  PROVE  JobInv'
<1> USE DEF JobInv
<1>1. CASE CheckComplete(j, t)
  <2> DEFINE s == IF Exists(t, LookUp(j, t)) THEN "done" ELSE "found"
  <2>1. s \in Status /\ s \notin Working /\ s # "running"
    BY DEF Status, Working, Linking
  <2>2. /\ state' \in [Job -> [Task -> Status]]
        /\ state'[j][t] = s
        /\ \A k \in Job, u \in Task : (k # j \/ u # t) => state'[k][u] = state[k][u]
    <3>1. Become(j, t, s)
      BY <1>1 DEF CheckComplete
    <3> HIDE DEF s
    <3> QED BY <2>1, <3>1, StatusStep
  <2>3. LookUp(j, t) \in Version
    BY Versions DEF LookUp, TypeOK
  <2>4. /\ name' \in [Job -> [Task -> Version \cup {None}]]
        /\ name'[j][t] \in Version
        /\ \A k \in Job, u \in Task : (k # j \/ u # t) => name'[k][u] = name[k][u]
    BY <1>1, <2>3 DEF CheckComplete, TypeOK
  <2>5. UNCHANGED <<world, files, faults, phase, today, todo, deletable, made>>
    BY <1>1 DEF CheckComplete
  <2> HIDE DEF s
  <2>6. TypeOK'
    BY <2>2, <2>4, <2>5 DEF TypeOK, world, files
  <2>7. NamesKnown'
    BY <2>2, <2>4 DEF NamesKnown
  <2>8. InputsRead' /\ WorkInUpdate'
    BY <2>1, <2>2, <2>5 DEF InputsRead, WorkInUpdate
  <2>9. ListedBefore' /\ KeptNotListed'
    BY <2>5 DEF ListedBefore, KeptNotListed
  <2> QED BY <2>6, <2>7, <2>8, <2>9
<1>2. CASE LookupFails(j, t)
  <2>1. "unknown" \in Status \ (Named \cup Working) /\ "unknown" # "running"
    BY DEF Status, Named, Working, Linking
  <2>2. faults' \in 0 .. MaxFaults
    BY <1>2, StoreAssumption DEF LookupFails, Fault, TypeOK
  <2>3. /\ Become(j, t, "unknown")
        /\ UNCHANGED <<world, files, phase, today, todo, deletable, name, made>>
    BY <1>2 DEF LookupFails
  <2> QED BY <2>1, <2>2, <2>3, StatusOnly
<1>3. CASE Expand(j, t)
  <2>1. /\ {"pending", "wanted"} \subseteq Status
        /\ \A s \in {"pending", "wanted"} : s \notin Working /\ s # "running"
        /\ "wanted" \notin Named /\ "found" \in Named
    BY DEF Status, Named, Working, Linking
  <2>2. /\ state' \in [Job -> [Task -> Status]]
        /\ state[j][t] = "found" /\ state'[j][t] = "pending"
        /\ \A k \in Job, u \in Task : (k # j \/ u # t) =>
              state'[k][u] = state[k][u] \/ state'[k][u] = "wanted"
    BY <1>3, <2>1 DEF Expand, TypeOK
  <2>3. UNCHANGED <<world, files, faults, phase, today, todo, deletable, name, made>>
    BY <1>3 DEF Expand
  <2>4. TypeOK'
    BY <2>2, <2>3 DEF TypeOK, world, files
  <2>5. NamesKnown' /\ InputsRead' /\ WorkInUpdate'
    BY <2>1, <2>2, <2>3 DEF NamesKnown, InputsRead, WorkInUpdate
  <2>6. ListedBefore' /\ KeptNotListed'
    BY <2>3 DEF ListedBefore, KeptNotListed
  <2> QED BY <2>4, <2>5, <2>6
<1> QED BY <1>1, <1>2, <1>3

(* Steps of the work on a task.                                            *)
LEMMA WorkSteps ==
  ASSUME JobInv, NEW j \in Job, NEW t \in Task,
         \/ BeginTask(j, t) \/ ReadInputs(j, t) \/ TaskFails(j, t) \/ MoveOutput(j, t)
         \/ FindLink(j, t) \/ RemoveLink(j, t) \/ MakeLink(j, t) \/ Retry(j, t)
  PROVE  JobInv'
<1> USE DEF JobInv
<1>1. /\ Status \ {"none", "wanted", "unknown"} = Named
      /\ Named \subseteq Status /\ Working \subseteq Named
      /\ Working = {"started", "running", "moved", "remove", "symlink"}
  BY DEF Status, Named, Working, Linking
<1>2. faults \in 0 .. MaxFaults
  BY DEF TypeOK
<1>3. ASSUME NEW s \in Named, Become(j, t, s), s # "running", state[j][t] \in Named,
             s \in Working => state[j][t] \in Working \/ phase[j] = "update",
             UNCHANGED <<world, files, faults, phase, today, todo, deletable, name, made>>
      PROVE  JobInv'
  <2>1. name[j][t] \in Version /\ (s \in Working => phase[j] = "update")
    BY <1>3 DEF NamesKnown, WorkInUpdate
  <2> QED BY <1>1, <1>2, <1>3, <2>1, StatusOnly
<1>4. CASE BeginTask(j, t)
  <2> DEFINE s == IF Missing(j, t) = {} THEN "started" ELSE "failed"
  <2>1. s \in Named /\ s # "running"
    BY <1>1 DEF Named
  <2>2. /\ phase[j] = "update" /\ Become(j, t, s) /\ state[j][t] \in Named
        /\ UNCHANGED <<world, files, faults, phase, today, todo, deletable, name, made>>
    BY <1>4 DEF BeginTask, Ready, Named
  <2> HIDE DEF s
  <2> QED BY <1>3, <2>1, <2>2
<1>5. CASE FindLink(j, t)
  <2> DEFINE s == IF Exists(t, link[t]) THEN "remove" ELSE "symlink"
  <2>1. s \in Named /\ s # "running"
    BY <1>1
  <2>2. /\ Become(j, t, s) /\ state[j][t] \in Working
        /\ UNCHANGED <<world, files, faults, phase, today, todo, deletable, name, made>>
    BY <1>1, <1>5 DEF FindLink
  <2> HIDE DEF s
  <2> QED BY <1>1, <1>3, <2>1, <2>2
<1>6. CASE Retry(j, t)
  <2>1. /\ Become(j, t, "pending") /\ state[j][t] \in Named
        /\ UNCHANGED <<world, files, faults, phase, today, todo, deletable, name, made>>
    BY <1>6 DEF Retry, Named
  <2>2. "pending" \in Named /\ "pending" \notin Working /\ "pending" # "running"
    BY <1>1 DEF Named
  <2> QED BY <1>3, <2>1, <2>2
<1>7. CASE ReadInputs(j, t) \/ TaskFails(j, t)
  <2>1. PICK s \in {"running", "failed"}, c \in Content :
          /\ Become(j, t, s)
          /\ s = "running" => c # {}
          /\ made' \in [Job -> [Task -> Content]]
          /\ made'[j][t] = c
          /\ \A k \in Job, u \in Task : (k # j \/ u # t) => made'[k][u] = made[k][u]
    <3>1. CASE ReadInputs(j, t) /\ (Missing(j, t) = {} \/ t \in Lenient)
      <4>1. Source(j, t) \in Content \ {{}}
        BY <1>1, <3>1, SourceStep DEF ReadInputs
      <4>2. Become(j, t, "running") /\ made' = [made EXCEPT ![j][t] = Source(j, t)]
        BY <3>1 DEF ReadInputs
      <4>3. /\ made' \in [Job -> [Task -> Content]]
            /\ made'[j][t] = Source(j, t)
            /\ \A k \in Job, u \in Task : (k # j \/ u # t) => made'[k][u] = made[k][u]
        BY <4>1, <4>2 DEF TypeOK
      <4> QED BY <4>1, <4>2, <4>3
    <3>2. CASE ReadInputs(j, t) /\ Missing(j, t) # {} /\ t \notin Lenient
      <4>1. Become(j, t, "failed") /\ UNCHANGED made /\ made[j][t] \in Content
        BY <3>2 DEF ReadInputs, TypeOK
      <4> QED BY <4>1 DEF TypeOK
    <3>3. CASE TaskFails(j, t)
      <4>1. {} \in Content
        BY DEF Content
      <4>2. /\ Become(j, t, "failed")
            /\ made' \in [Job -> [Task -> Content]]
            /\ made'[j][t] = {}
            /\ \A k \in Job, u \in Task : (k # j \/ u # t) => made'[k][u] = made[k][u]
        BY <3>3, <4>1 DEF TaskFails, TypeOK
      <4> QED BY <4>1, <4>2
    <3> QED BY <1>7, <3>1, <3>2, <3>3
  <2>2. /\ faults' \in 0 .. MaxFaults
        /\ state[j][t] \in Working
        /\ UNCHANGED <<world, files, phase, today, todo, deletable, name>>
    BY <1>1, <1>2, <1>7, StoreAssumption DEF ReadInputs, TaskFails, Fault
  <2>3. /\ state' \in [Job -> [Task -> Status]]
        /\ state'[j][t] = s
        /\ \A k \in Job, u \in Task : (k # j \/ u # t) => state'[k][u] = state[k][u]
    BY <1>1, <2>1, StatusStep DEF Named
  <2>4. TypeOK'
    BY <2>1, <2>2, <2>3 DEF TypeOK, world, files
  <2>5. name[j][t] \in Version /\ phase[j] = "update"
    BY <1>1, <2>2 DEF NamesKnown, WorkInUpdate
  <2>6. NamesKnown' /\ InputsRead' /\ WorkInUpdate'
    BY <2>1, <2>2, <2>3, <2>5 DEF NamesKnown, InputsRead, WorkInUpdate
  <2>7. ListedBefore' /\ KeptNotListed'
    BY <2>2 DEF ListedBefore, KeptNotListed
  <2> QED BY <2>4, <2>6, <2>7
<1>8. CASE MoveOutput(j, t)
  <2> DEFINE s == IF t \in Linked THEN "moved" ELSE "done"
  <2>1. s \in Named /\ s # "running"
    BY <1>1 DEF Named
  <2>2. /\ Become(j, t, s) /\ state[j][t] = "running" /\ state[j][t] \in Named
        /\ out' = [out EXCEPT ![t][name[j][t]] = made[j][t]]
        /\ made' = [made EXCEPT ![j][t] = {}]
        /\ UNCHANGED <<world, link, faults, phase, today, todo, deletable, name>>
    BY <1>1, <1>8 DEF MoveOutput, Path
  <2> HIDE DEF s
  <2>3. name[j][t] \in Version /\ phase[j] = "update" /\ made[j][t] \in Content
    BY <1>1, <2>2 DEF NamesKnown, WorkInUpdate, TypeOK
  <2>4. out' \in [Task -> [Version -> Content]]
    BY <2>2, <2>3 DEF TypeOK
  <2>5. /\ made' \in [Job -> [Task -> Content]]
        /\ \A k \in Job, u \in Task : (k # j \/ u # t) => made'[k][u] = made[k][u]
    <3>1. {} \in Content
      BY DEF Content
    <3> QED BY <2>2, <3>1 DEF TypeOK
  <2>6. /\ state' \in [Job -> [Task -> Status]]
        /\ state'[j][t] = s
        /\ \A k \in Job, u \in Task : (k # j \/ u # t) => state'[k][u] = state[k][u]
    BY <1>1, <2>1, <2>2, StatusStep
  <2>7. TypeOK'
    BY <2>2, <2>4, <2>5, <2>6 DEF TypeOK, world
  <2>8. NamesKnown' /\ WorkInUpdate'
    BY <2>2, <2>3, <2>6 DEF NamesKnown, WorkInUpdate
  <2>9. InputsRead'
    BY <2>1, <2>5, <2>6 DEF InputsRead
  <2>10. ListedBefore' /\ KeptNotListed'
    BY <2>2 DEF ListedBefore, KeptNotListed
  <2> QED BY <2>7, <2>8, <2>9, <2>10
<1>9. CASE RemoveLink(j, t) \/ MakeLink(j, t)
  <2>1. state[j][t] \in Working
    BY <1>1, <1>9 DEF RemoveLink, MakeLink
  <2>2. name[j][t] \in Version /\ phase[j] = "update"
    BY <1>1, <2>1 DEF NamesKnown, WorkInUpdate
  <2>3. PICK s \in {"refused", "symlink", "done"} : Become(j, t, s)
    BY <1>9 DEF RemoveLink, MakeLink
  <2>4. link' \in [Task -> Version \cup {None}]
    BY <1>9, <2>2 DEF RemoveLink, MakeLink, Path, TypeOK
  <2>5. UNCHANGED <<world, out, faults, phase, today, todo, deletable, name, made>>
    BY <1>9 DEF RemoveLink, MakeLink
  <2>6. /\ state' \in [Job -> [Task -> Status]]
        /\ state'[j][t] = s
        /\ \A k \in Job, u \in Task : (k # j \/ u # t) => state'[k][u] = state[k][u]
    BY <1>1, <2>3, StatusStep DEF Named
  <2>7. TypeOK'
    BY <2>4, <2>5, <2>6 DEF TypeOK, world
  <2>8. NamesKnown' /\ InputsRead' /\ WorkInUpdate'
    BY <2>2, <2>3, <2>5, <2>6 DEF NamesKnown, InputsRead, WorkInUpdate
  <2>9. ListedBefore' /\ KeptNotListed'
    BY <2>5 DEF ListedBefore, KeptNotListed
  <2> QED BY <2>7, <2>8, <2>9
<1> QED BY <1>4, <1>5, <1>6, <1>7, <1>8, <1>9

LEMMA JobInvNext == JobInv /\ [Next]_vars => JobInv'
<1> SUFFICES ASSUME JobInv, [Next]_vars PROVE JobInv'
  OBVIOUS
<1>1. CASE UNCHANGED vars
  BY <1>1 DEF JobInv, TypeOK, NamesKnown, InputsRead, WorkInUpdate, ListedBefore,
     KeptNotListed, vars, world, files, local
<1>2. CASE NewDay \/ NewDump
  <2>1. day' \in 0 .. MaxDay /\ dump' \in 0 .. MaxDump /\ UNCHANGED <<files, faults, local>>
    BY <1>2, StoreAssumption DEF NewDay, NewDump, JobInv, TypeOK
  <2>2. TypeOK'
    BY <2>1 DEF JobInv, TypeOK, files, local
  <2> QED
    BY <2>1, <2>2 DEF JobInv, NamesKnown, InputsRead, WorkInUpdate, ListedBefore,
       KeptNotListed, local
<1>3. ASSUME NEW j \in Job, Proceed(j) \/ GoWrong(j)
      PROVE  JobInv'
  BY <1>3, PhaseSteps, CleanupSteps, ScheduleSteps, WorkSteps
     DEF Proceed, GoWrong, Clean, Schedule, Work
<1> QED BY <1>1, <1>2, <1>3 DEF Next

(* Whatever jobs there are, and however they interleave, crash and fail,   *)
(* the store and the jobs keep to their types: in particular a task that   *)
(* is worked on has a version, and a finished output is not empty.         *)
THEOREM TypeCorrect == Spec => []TypeOK
<1>1. Init => JobInv
  BY JobInvInit
<1>2. JobInv /\ [Next]_vars => JobInv'
  BY JobInvNext
<1>3. JobInv => TypeOK
  BY DEF JobInv
<1> QED BY <1>1, <1>2, <1>3, PTL DEF Spec
=============================================================================
